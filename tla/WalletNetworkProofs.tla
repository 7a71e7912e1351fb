------------------------ MODULE WalletNetworkProofs ------------------------
(***************************************************************************)
(* Proofs about WalletNetwork: which write may reach another network, and  *)
(* when a wallet on the selected one is turned away, for chains, lags and  *)
(* margins of every size and any number of forks and changes of endpoint.  *)
(*                                                                         *)
(* ComparisonInv follows a wallet on another network through the check:    *)
(* what it has answered gives it away, unless the endpoint was changed     *)
(* since it answered.  AlarmInv follows one that is left on the selected   *)
(* network: what it has answered is what the official endpoint answers.    *)
(***************************************************************************)
EXTENDS WalletNetwork, SequenceTheorems, TLAPS

ChainNames == {"official", "mirror"}

BlockNames == {"genesis", "block", "fork"}

Answers == {"?", "genuine", "different", "none"}

\* Chains begin with the block they share.
TypeInv ==
    /\ chains \in [ChainNames -> Seq(BlockNames)]
    /\ \A e \in ChainNames : Len(chains[e]) > 0 /\ chains[e][1] = "genesis"
    /\ endpoint \in Endpoints
    /\ identity \in Answers
    /\ heads \in [Sources -> Nat]
    /\ DOMAIN blocks = Sources
    /\ codes \in [Sources -> Answers]
    /\ probes \in [Sources -> Answers]

-----------------------------------------------------------------------------
\* The wallet on another network.

\* A block of another network.
OfAnother(b) == \E e \in {"other", "foreign"}, height \in Nat : b = <<e, height>>

AfterProbe == {"officialCode", "officialProbe", "write"}

AfterBlocks == AfterProbe \union {"walletCode", "walletProbe"}

\* The endpoint was changed at one of these points.
ChangedAt(points) == \E mark \in switched : mark[1] \in points

\* The endpoint was changed after the wallet's answer to this one.
ChangedAfterAnswer(point) ==
    \E mark \in switched : mark[1] = point /\ "wallet" \notin mark[2]

LastCompared == IF Continues THEN "confirmed" ELSE "latest"

ComparisonInv ==
    /\ at = "confirmed" => Continues
    /\ at \in {"heads", "latest", "confirmed", "officialCode", "officialProbe"} => shared
    /\ at \in {"latest", "confirmed"} /\ "official" \notin awaited => ~OfAnother(blocks["official"])
    /\ ~Selected(endpoint) =>
        /\ at \in {"latest", "confirmed"} /\ "wallet" \notin awaited =>
            OfAnother(blocks["wallet"]) \/ ChangedAfterAnswer(at)
        /\ shared /\ at \in AfterBlocks \union {"sent"} =>
            ChangedAt(AfterBlocks) \/ ChangedAfterAnswer(LastCompared)
        /\ shared /\ identity # "genuine" /\ at \in AfterProbe \union {"sent"} =>
            \/ ChangedAt(AfterProbe)
            \/ at \in {"officialCode", "officialProbe"} /\ probes["wallet"] # "genuine"
        /\ ~shared /\ at \in {"write", "sent"} =>
            ChangedAt(AfterProbe) \/ (endpoint = "other" /\ identity # "none")

Sent == sentTo # ""

\* Where a signed write went is where the wallet still is.
SentInv == Sent => at = "sent" /\ sentTo = endpoint

-----------------------------------------------------------------------------
\* The wallet on the selected network.

\* The check has met no fork and no change of endpoint.
Calm == ~forked /\ switched = {} /\ Selected(endpoint)

Alarm ==
    reason \in {"AMBIGUOUS_SHARED_CHAIN", "CONSENSUS_CODE_MISSING",
                "CONSENSUS_PROBE_FAILED", "CONSENSUS_IDENTITY_MISMATCH"}

\* The head an endpoint told is no higher than its chain.
Reaches(source) == heads[source] <= Height(EndpointOf(source))

ComparedHeight ==
    IF at = "confirmed" THEN LatestCommonHeight - SHARED_CHAIN_CONFIRMATION_MARGIN
    ELSE LatestCommonHeight

AlarmInv ==
    /\ Alarm => at = "blocked"
    /\ at # "idle" /\ ~forked => Agree(chains["official"], chains["mirror"])
    /\ Calm =>
        /\ at = "heads" => \A source \in Sources \ awaited : Reaches(source)
        /\ shared /\ at \in {"latest", "confirmed"} \union AfterBlocks =>
            \A source \in Sources : Reaches(source)
        /\ at \in {"latest", "confirmed"} =>
            \A source \in Sources \ awaited :
                blocks[source] = BlockAt(EndpointOf(source), ComparedHeight)
        /\ at \in {"walletProbe", "officialCode", "officialProbe"} => codes["wallet"] = "genuine"
        /\ at \in {"officialCode", "officialProbe"} => probes["wallet"] = "genuine"
        /\ at = "officialProbe" => codes["official"] = "genuine"
        /\ Alarm => HeadLag(heads) > MAX_SHARED_CHAIN_HEAD_LAG

-----------------------------------------------------------------------------
\* Heights, blocks and chains.

\* The common height is a height, and neither head is below it.
LEMMA CommonHeight ==
    ASSUME TypeInv
    PROVE  /\ LatestCommonHeight \in Nat
           /\ LatestCommonHeight <= heads["wallet"] /\ LatestCommonHeight <= heads["official"]
<1> SUFFICES ASSUME NEW i \in Nat, NEW j \in Nat, i = heads["wallet"], j = heads["official"],
                    NEW m, m = Min({i, j})
             PROVE  m \in Nat /\ m <= i /\ m <= j
    BY DEF TypeInv, Sources, LatestCommonHeight
<1>1. \E x \in {i, j} : \A y \in {i, j} : x <= y
    OBVIOUS
<1> QED BY <1>1 DEF Min

\* The block compared is at a height no endpoint that was asked is below.
LEMMA ComparedHeightIs ==
    ASSUME TypeInv, at = "confirmed" => Continues
    PROVE  ComparedHeight \in Nat /\ ComparedHeight <= LatestCommonHeight
    BY CommonHeight, CheckAssumption DEF ComparedHeight, Continues

\* A chain has a height.
LEMMA HeightIs ==
    ASSUME TypeInv, NEW e \in ChainNames
    PROVE  /\ Height(e) \in Nat /\ Len(chains[e]) = Height(e) + 1
           /\ chains[e] \in Seq(BlockNames)
<1>1. chains[e] \in Seq(BlockNames) /\ Len(chains[e]) > 0
    BY DEF TypeInv
<1> QED BY <1>1 DEF Height

\* Sequences that begin alike have the same beginning.
LEMMA SameBeginning ==
    ASSUME NEW S, NEW s \in Seq(S), NEW t \in Seq(S), NEW n \in Nat, n <= Len(s), n <= Len(t),
           \A i \in 1..n : s[i] = t[i]
    PROVE  SubSeq(s, 1, n) = SubSeq(t, 1, n)
    OBVIOUS

\* A prefix begins alike.
LEMMA PrefixBeginsAlike ==
    ASSUME NEW S, NEW s \in Seq(S), NEW t \in Seq(S), IsPrefix(s, t), NEW n \in Nat, n <= Len(s)
    PROVE  n <= Len(t) /\ SubSeq(s, 1, n) = SubSeq(t, 1, n)
<1>1. Len(s) <= Len(t) /\ SubSeq(s, 1, Len(s)) = SubSeq(t, 1, Len(s))
    BY DEF IsPrefix
<1>2. \A i \in 1..Len(s) : SubSeq(s, 1, Len(s))[i] = s[i] /\ SubSeq(t, 1, Len(s))[i] = t[i]
    BY <1>1
<1>3. \A i \in 1..n : s[i] = t[i]
    BY <1>1, <1>2
<1> QED BY <1>1, <1>3, SameBeginning

\* Endpoints of the network that agree serve the same block at a height that
\* both have.
LEMMA SameHistory ==
    ASSUME TypeInv, Agree(chains["official"], chains["mirror"]), NEW height \in Nat,
           NEW e \in ChainNames, NEW f \in ChainNames, height <= Height(e), height <= Height(f)
    PROVE  BlockAt(e, height) = BlockAt(f, height) /\ BlockAt(e, height) # NoBlock
<1>1. \A d \in ChainNames : Len(chains[d]) = Height(d) + 1 /\ chains[d] \in Seq(BlockNames)
                            /\ Height(d) \in Nat
    BY HeightIs
<1>2. /\ BlockAt(e, height) = SubSeq(chains[e], 1, height + 1)
      /\ BlockAt(f, height) = SubSeq(chains[f], 1, height + 1)
    BY DEF BlockAt, Selected, ChainNames
<1>3. SubSeq(chains[e], 1, height + 1) = SubSeq(chains[f], 1, height + 1)
    <2>1. height + 1 \in Nat /\ height + 1 <= Len(chains[e]) /\ height + 1 <= Len(chains[f])
        BY <1>1
    <2>2. CASE e = f
        BY <2>2
    <2>3. CASE e # f
        <3>1. IsPrefix(chains[e], chains[f]) \/ IsPrefix(chains[f], chains[e])
            BY <2>3 DEF Agree, ChainNames
        <3> QED BY <1>1, <2>1, <3>1, PrefixBeginsAlike
    <2> QED BY <2>2, <2>3
<1>4. SubSeq(chains[e], 1, height + 1) # NoBlock
    <2>1. Len(SubSeq(chains[e], 1, height + 1)) = height + 1
        BY <1>1
    <2>2. Len(NoBlock) = 0 /\ height + 1 # 0
        BY EmptySeq DEF NoBlock
    <2> QED BY <2>1, <2>2, Zenon
<1> QED BY <1>2, <1>3, <1>4

\* No block of the network is one of another network.
LEMMA NotAnother ==
    ASSUME TypeInv, NEW e \in ChainNames, NEW height \in Nat
    PROVE  ~OfAnother(BlockAt(e, height))
<1> SUFFICES ASSUME NEW f \in {"other", "foreign"}, NEW h \in Nat, BlockAt(e, height) = <<f, h>>
             PROVE  FALSE
    BY DEF OfAnother
<1>1. /\ Height(e) \in Nat /\ Len(chains[e]) = Height(e) + 1
      /\ chains[e] \in Seq(BlockNames) /\ chains[e][1] = "genesis"
    BY HeightIs DEF TypeInv
<1>2. CASE height <= Height(e)
    <2>1. SubSeq(chains[e], 1, height + 1) = <<f, h>>
        BY <1>2 DEF BlockAt, Selected, ChainNames
    <2>2. SubSeq(chains[e], 1, height + 1)[1] = chains[e][1]
        BY <1>1, <1>2
    <2>3. <<f, h>>[1] = f /\ f # "genesis"
        OBVIOUS
    <2> QED BY <1>1, <2>1, <2>2, <2>3, Zenon
<1>3. CASE ~(height <= Height(e))
    <2>1. <<>> = <<f, h>>
        BY <1>3 DEF BlockAt, Selected, ChainNames, NoBlock
    <2> QED BY <2>1
<1> QED BY <1>2, <1>3

\* What runWrite does leaves the chains and the history of the network alone.
WorldKept == UNCHANGED worldVars

\* What that is, variable by variable.
LEMMA WorldKeptMeans ==
    ASSUME WorldKept
    PROVE  UNCHANGED <<shared, identity, chains, endpoint, switched, forked, forks>>
    BY DEF WorldKept, worldVars

\* The steps that move the chains only.
LEMMA ServesKeeps ==
    ASSUME TypeInv, NEW e \in ChainNames, NEW served \in Seq(BlockNames), Serves(e, served),
           Len(served) > 0, served[1] = "genesis"
    PROVE  /\ TypeInv'
           /\ UNCHANGED <<shared, identity, endpoint, at, awaited, answerVars, reason, sentTo, switched>>
           /\ chains'[e] = served
           /\ \A f \in ChainNames \ {e} : chains'[f] = chains[f]
<1>1. /\ chains' = [chains EXCEPT ![e] = served]
      /\ UNCHANGED <<shared, identity, endpoint, at, awaited, answerVars, reason, sentTo, switched>>
    BY DEF Serves
<1>2. chains'[e] = served /\ \A f \in ChainNames \ {e} : chains'[f] = chains[f]
    BY <1>1 DEF TypeInv
<1> QED BY <1>1, <1>2 DEF TypeInv, answerVars

\* A chain that grows keeps its blocks.
LEMMA GrowEffect ==
    ASSUME TypeInv, NEW e \in ChainNames, Grow(e)
    PROVE  /\ TypeInv'
           /\ UNCHANGED <<shared, identity, endpoint, at, awaited, answerVars, reason, sentTo, switched>>
           /\ \A f \in ChainNames : Height(f) <= Height(f)'
           /\ \A f \in ChainNames, height \in Nat :
                height <= Height(f) => BlockAt(f, height)' = BlockAt(f, height)
           /\ forked' = (forked \/ ~Agree(chains["official"], chains["mirror"])')
<1>1. PICK next \in BlockNames : Serves(e, Append(chains[e], next))
    <2>1. ASSUME NEW twin \in ChainNames, Height(twin) > Height(e)
          PROVE  chains[twin][Height(e) + 2] \in BlockNames
        <3>1. Height(e) + 2 \in 1..Len(chains[twin])
            BY <2>1, HeightIs
        <3> QED BY <3>1, HeightIs, ElementOfSeq
    <2>2. "block" \in BlockNames
        BY DEF BlockNames
    <2> QED BY <2>1, <2>2 DEF Grow, ChainNames
<1>2. /\ chains[e] \in Seq(BlockNames) /\ Len(chains[e]) > 0 /\ chains[e][1] = "genesis"
      /\ Append(chains[e], next) \in Seq(BlockNames)
      /\ Len(Append(chains[e], next)) = Len(chains[e]) + 1
      /\ \A i \in 1..Len(chains[e]) : Append(chains[e], next)[i] = chains[e][i]
    BY HeightIs, AppendProperties DEF TypeInv
<1> DEFINE served == Append(chains[e], next)
<1> HIDE DEF served
<1>3. /\ served \in Seq(BlockNames) /\ Len(served) = Len(chains[e]) + 1
      /\ \A i \in 1..Len(chains[e]) : served[i] = chains[e][i]
      /\ Serves(e, served)
    BY <1>1, <1>2 DEF served
<1>4. Len(served) > 0 /\ served[1] = "genesis"
    BY <1>2, <1>3
<1>5. /\ TypeInv'
      /\ UNCHANGED <<shared, identity, endpoint, at, awaited, answerVars, reason, sentTo, switched>>
      /\ chains'[e] = served
      /\ \A f \in ChainNames \ {e} : chains'[f] = chains[f]
    BY <1>3, <1>4, ServesKeeps
<1>6. ASSUME NEW f \in ChainNames
      PROVE  /\ Height(f) <= Height(f)'
             /\ \A height \in Nat : height <= Height(f) => BlockAt(f, height)' = BlockAt(f, height)
    <2>1. /\ Height(f) \in Nat /\ Len(chains[f]) = Height(f) + 1 /\ chains[f] \in Seq(BlockNames)
          /\ Height(f)' = Len(chains'[f]) - 1
        BY HeightIs DEF Height
    <2>2. /\ chains'[f] \in Seq(BlockNames) /\ Len(chains'[f]) >= Len(chains[f])
          /\ \A i \in 1..Len(chains[f]) : chains'[f][i] = chains[f][i]
        <3>1. CASE f = e
            BY <1>2, <1>3, <1>5, <3>1
        <3>2. CASE f # e
            BY <1>5, <2>1, <3>2
        <3> QED BY <3>1, <3>2
    <2>3. Height(f) <= Height(f)'
        BY <2>1, <2>2
    <2>4. ASSUME NEW height \in Nat, height <= Height(f)
          PROVE  BlockAt(f, height)' = BlockAt(f, height)
        <3>1. height <= Height(f)'
            BY <2>1, <2>2, <2>4
        <3>2. SubSeq(chains'[f], 1, height + 1) = SubSeq(chains[f], 1, height + 1)
            BY <2>1, <2>2, <2>4, SameBeginning
        <3> QED BY <2>4, <3>1, <3>2 DEF BlockAt, Selected, ChainNames
    <2> QED BY <2>3, <2>4
<1> QED BY <1>5, <1>6 DEF Grow

\* A chain that forks keeps the block it began with.
LEMMA ForkEffect ==
    ASSUME TypeInv, NEW e \in ChainNames, Fork(e)
    PROVE  /\ TypeInv'
           /\ UNCHANGED <<shared, identity, endpoint, at, awaited, answerVars, reason, sentTo, switched>>
           /\ forked' = TRUE
<1> DEFINE c == chains[e]
<1>1. /\ c \in Seq(BlockNames) /\ Len(c) \in Nat /\ Len(c) > 1 /\ c[1] = "genesis"
    BY HeightIs DEF TypeInv, Fork
<1> DEFINE replaced == [c EXCEPT ![Len(c)] = "fork"]
           dropped == Front(c)
<1>2. Serves(e, replaced) \/ Serves(e, dropped)
    BY DEF Fork
<1> HIDE DEF c
<1>3. replaced \in Seq(BlockNames) /\ Len(replaced) > 0 /\ replaced[1] = "genesis"
    <2>1. "fork" \in BlockNames
        BY DEF BlockNames
    <2> QED BY <1>1, <2>1, ExceptSeq
<1>4. dropped \in Seq(BlockNames) /\ Len(dropped) > 0 /\ dropped[1] = "genesis"
    BY <1>1 DEF Front
<1> HIDE DEF replaced, dropped
<1> QED BY <1>2, <1>3, <1>4, ServesKeeps DEF Fork

\* A change of endpoint is marked.
LEMMA SwitchEffect ==
    ASSUME TypeInv, NEW e \in Endpoints, Switch(e)
    PROVE  /\ TypeInv'
           /\ UNCHANGED <<shared, identity, chains, at, awaited, answerVars, reason, sentTo, forked>>
           /\ at \notin {"sent", "blocked"}
           /\ endpoint' = e
           /\ switched' = switched \union {<<at, awaited>>}
    BY DEF Switch, TypeInv, answerVars

-----------------------------------------------------------------------------
\* The types.

\* What an endpoint says of the consensus contract is one of the answers.
LEMMA SaysAnAnswer ==
    ASSUME TypeInv, NEW e \in Endpoints
    PROVE  Says(e) \in Answers
    BY DEF TypeInv, Says, Identity, Answers, Endpoints, Selected

\* A request goes to one of the endpoints.
LEMMA EndpointOfIs ==
    ASSUME TypeInv, NEW source \in Sources
    PROVE  EndpointOf(source) \in Endpoints
    BY DEF TypeInv, EndpointOf, Endpoints

\* Every step keeps the types.
LEMMA TypeInvStep == TypeInv /\ [Next]_vars => TypeInv'
<1> SUFFICES ASSUME TypeInv, [Next]_vars PROVE TypeInv'
    OBVIOUS
<1>1. ASSUME NEW e \in DOMAIN chains, Grow(e) \/ Fork(e) PROVE TypeInv'
    <2>1. e \in ChainNames
        BY DEF TypeInv
    <2> QED BY <1>1, <2>1, GrowEffect, ForkEffect
<1>2. ASSUME NEW e \in Endpoints, Switch(e) PROVE TypeInv'
    BY <1>2, SwitchEffect
<1>3. CASE SelectWalletChain
    BY <1>3 DEF SelectWalletChain, TypeInv, answerVars
<1>4. CASE RequestFails \/ ReadChainId \/ Sign
    BY <1>4 DEF RequestFails, ReadChainId, Sign, TypeInv, answerVars, worldVars
<1>5. ASSUME NEW source \in Sources, ReadHead(source) PROVE TypeInv'
    <2>1. PICK height \in HeadsOf(EndpointOf(source)) : heads' = [heads EXCEPT ![source] = height]
        BY <1>5 DEF ReadHead
    <2>2. height \in Nat
        <3>1. CASE Selected(EndpointOf(source))
            <4>1. EndpointOf(source) \in ChainNames
                BY <3>1 DEF Selected, ChainNames
            <4> QED BY <3>1, <4>1, HeightIs DEF HeadsOf
        <3>2. CASE ~Selected(EndpointOf(source))
            BY <3>2, BoundAssumption DEF HeadsOf
        <3> QED BY <3>1, <3>2
    <2> QED BY <1>5, <2>1, <2>2 DEF ReadHead, TypeInv, worldVars
<1>6. ASSUME NEW source \in Sources, NEW point, NEW height, NEW next,
             ReadBlock(source, point, height, next)
      PROVE  TypeInv'
    <2>1. /\ UNCHANGED <<worldVars, heads, codes, probes>>
          /\ \/ blocks' = [blocks EXCEPT ![source] = BlockAt(EndpointOf(source), height)]
             \/ blocks' = NoBlocks
        BY <1>6 DEF ReadBlock
    <2> QED BY <2>1 DEF TypeInv, worldVars, NoBlocks
<1>7. ASSUME NEW source \in Sources, ReadCode(source) PROVE TypeInv'
    <2>1. Says(EndpointOf(source)) \in Answers
        BY SaysAnAnswer, EndpointOfIs
    <2> QED BY <1>7, <2>1 DEF ReadCode, TypeInv, worldVars
<1>8. ASSUME NEW source \in Sources, ReadProbe(source) PROVE TypeInv'
    <2>1. Says(EndpointOf(source)) \in Answers
        BY SaysAnAnswer, EndpointOfIs
    <2> QED BY <1>8, <2>1 DEF ReadProbe, TypeInv, worldVars
<1>9. CASE UNCHANGED vars
    BY <1>9 DEF vars, TypeInv, answerVars, worldVars
<1> QED
    BY <1>1, <1>2, <1>3, <1>4, <1>5, <1>6, <1>7, <1>8, <1>9
       DEF Next, ReadLatestCommonBlock, ReadConfirmedBlock

\* They hold at the start.
LEMMA TypeInvInit == Init => TypeInv
<1> SUFFICES ASSUME Init PROVE TypeInv
    OBVIOUS
<1>1. "genesis" \in BlockNames
    BY DEF BlockNames
<1>2. <<"genesis">> \in Seq(BlockNames) /\ Len(<<"genesis">>) = 1 /\ <<"genesis">>[1] = "genesis"
    BY <1>1
<1>3. chains = [e \in ChainNames |-> <<"genesis">>]
    BY DEF Init, ChainNames
<1>4. /\ chains \in [ChainNames -> Seq(BlockNames)]
      /\ \A e \in ChainNames : Len(chains[e]) > 0 /\ chains[e][1] = "genesis"
    BY <1>2, <1>3
<1>5. endpoint \in Endpoints /\ identity \in Answers
    BY Zenon DEF Init, Answers
<1>6. heads \in [Sources -> Nat] /\ DOMAIN blocks = Sources
    <2>1. heads = [source \in Sources |-> 0] /\ blocks = NoBlocks
        BY Zenon DEF Init
    <2> QED BY <2>1 DEF NoBlocks
<1>7. codes \in [Sources -> Answers] /\ probes \in [Sources -> Answers]
    <2>1. codes = Unanswered /\ probes = Unanswered
        BY Zenon DEF Init
    <2> QED BY <2>1 DEF Unanswered, Answers
<1> QED BY <1>4, <1>5, <1>6, <1>7 DEF TypeInv

-----------------------------------------------------------------------------
\* A write goes where the wallet is, and the wallet stays there.

\* Nothing moves the endpoint once the write is sent.
LEMMA SentInvStep == SentInv /\ [Next]_vars => SentInv'
<1> SUFFICES ASSUME SentInv, [Next]_vars PROVE SentInv'
    OBVIOUS
<1>1. UNCHANGED sentTo => (Sent' <=> Sent)
    BY Zenon DEF Sent
<1>2. ASSUME UNCHANGED sentTo, at # "sent" PROVE SentInv'
    BY <1>1, <1>2 DEF SentInv
<1>3. ASSUME NEW e, Grow(e) \/ Fork(e) PROVE SentInv'
    BY <1>2, <1>3 DEF Grow, Fork, Serves
<1>4. ASSUME NEW e, Switch(e) PROVE SentInv'
    BY <1>2, <1>4 DEF Switch
<1>5. CASE SelectWalletChain \/ RequestFails \/ ReadChainId
    BY <1>2, <1>5 DEF SelectWalletChain, RequestFails, ReadChainId
<1>6. CASE Sign
    <2>1. CASE GoTo("sent") /\ sentTo' = endpoint
        BY <1>6, <2>1 DEF Sign, GoTo, SentInv, worldVars
    <2>2. CASE Block("REFUSED") /\ UNCHANGED sentTo
        BY <1>2, <1>6, <2>2 DEF Sign
    <2> QED BY <1>6, <2>1, <2>2 DEF Sign
<1>7. ASSUME NEW source, ReadHead(source) \/ ReadLatestCommonBlock(source)
                         \/ ReadConfirmedBlock(source)
      PROVE  SentInv'
    BY <1>2, <1>7 DEF ReadHead, ReadLatestCommonBlock, ReadConfirmedBlock, ReadBlock
<1>8. ASSUME NEW source, ReadCode(source) \/ ReadProbe(source)
      PROVE  SentInv'
    BY <1>2, <1>8 DEF ReadCode, ReadProbe
<1>9. CASE UNCHANGED vars
    BY <1>1, <1>9 DEF vars, worldVars, SentInv
<1> QED BY <1>3, <1>4, <1>5, <1>6, <1>7, <1>8, <1>9 DEF Next

-----------------------------------------------------------------------------
\* The wallet on another network is found out, or its endpoint was changed.

\* Nothing ComparisonInv speaks of changes.
LEMMA ComparisonKept ==
    ASSUME ComparisonInv, UNCHANGED <<shared, identity, endpoint, switched, at, awaited, answerVars>>
    PROVE  ComparisonInv'
    BY DEF ComparisonInv, answerVars, ChangedAt, ChangedAfterAnswer, LastCompared, Continues,
           LatestCommonHeight

\* A check that ended before the signature has let nothing through.
LEMMA ComparisonOver ==
    ASSUME at' \in {"blocked", "chainId"} PROVE ComparisonInv'
    BY DEF ComparisonInv, AfterBlocks, AfterProbe

\* What another network answers.
LEMMA AnotherSays ==
    ASSUME TypeInv, ~Selected(endpoint), Says(endpoint) # "none"
    PROVE  endpoint = "other" /\ Says(endpoint) = identity
    BY DEF TypeInv, Says, Identity, Endpoints, Selected

\* The official endpoint says nothing but the truth.
LEMMA OfficialSays == Says("official") \in {"none", "genuine"}
    BY DEF Says, Identity, Selected

\* A change of endpoint is marked with the point it was made at.
LEMMA SwitchComparison ==
    ASSUME TypeInv, ComparisonInv, NEW e \in Endpoints, Switch(e)
    PROVE  ComparisonInv'
<1>1. /\ UNCHANGED <<shared, identity, at, awaited, answerVars>>
      /\ at \notin {"sent", "blocked"}
      /\ switched' = switched \union {<<at, awaited>>}
    BY SwitchEffect
<1>2. <<at, awaited>> \in switched' /\ <<at, awaited>>[1] = at /\ <<at, awaited>>[2] = awaited
    BY <1>1
<1>3. \A points : at \in points => ChangedAt(points)'
    BY <1>2 DEF ChangedAt
<1>4. "wallet" \notin awaited => ChangedAfterAnswer(at)'
    BY <1>1, <1>2 DEF ChangedAfterAnswer
<1>5. (at = "confirmed" => Continues)'
    BY <1>1 DEF ComparisonInv, Continues, LatestCommonHeight, answerVars
<1> QED BY <1>1, <1>3, <1>4, <1>5 DEF ComparisonInv, AfterBlocks, AfterProbe, answerVars

\* Heads give nothing away: no block has been compared yet.
LEMMA ReadHeadComparison ==
    ASSUME TypeInv, ComparisonInv, NEW source \in Sources, ReadHead(source)
    PROVE  ComparisonInv'
<1>1. at = "heads" /\ UNCHANGED <<shared, endpoint>>
    BY DEF ReadHead, worldVars
<1>2. \/ at' = "heads" /\ UNCHANGED shared
      \/ at' = "blocked"
      \/ at' = "latest" /\ awaited' = Sources
    BY <1>1 DEF ReadHead, Block, Ask
<1> QED BY <1>1, <1>2 DEF ComparisonInv, AfterBlocks, AfterProbe, Sources

\* The blocks once source has answered.
Read(source) == [blocks EXCEPT ![source] = BlockAt(EndpointOf(source), ComparedHeight)]

\* A block is read: the other answer is awaited, or the two are compared.
BlockRead(source) ==
    \/ awaited # {source} /\ awaited' = awaited \ {source} /\ blocks' = Read(source)
       /\ UNCHANGED <<at, reason>>
    \/ /\ awaited = {source}
       /\ \/ ~SameBlock(Read(source)) /\ at' = "blocked" /\ reason' = "AMBIGUOUS_SHARED_CHAIN"
          \/ /\ SameBlock(Read(source))
             /\ UNCHANGED reason
             /\ \/ at' = "confirmed" /\ awaited' = Sources /\ Continues
                \/ at' = "walletCode" /\ at = LastCompared

\* Both readings of a block are such a step.
LEMMA ReadBlockEffect ==
    ASSUME at = "confirmed" => Continues, NEW source \in Sources,
           ReadLatestCommonBlock(source) \/ ReadConfirmedBlock(source)
    PROVE  /\ at \in {"latest", "confirmed"} /\ source \in awaited
           /\ WorldKept /\ UNCHANGED <<heads, codes, probes>>
           /\ BlockRead(source)
<1>1. CASE ReadLatestCommonBlock(source)
    BY <1>1
       DEF ReadLatestCommonBlock, ReadBlock, ComparedHeight, WorldKept, Block, GoTo, Ask,
           LastCompared, BlockRead, Read
<1>2. CASE ReadConfirmedBlock(source)
    BY <1>2
       DEF ReadConfirmedBlock, ReadBlock, ComparedHeight, WorldKept, Block, GoTo, Ask,
           LastCompared, BlockRead, Read
<1> QED BY <1>1, <1>2

\* A block of another network is not the official one.
LEMMA ReadBlockComparison ==
    ASSUME TypeInv, ComparisonInv, NEW source \in Sources,
           ReadLatestCommonBlock(source) \/ ReadConfirmedBlock(source)
    PROVE  ComparisonInv'
<1>1. /\ at \in {"latest", "confirmed"} /\ source \in awaited
      /\ WorldKept /\ UNCHANGED <<heads, codes, probes>>
      /\ BlockRead(source)
    BY ReadBlockEffect DEF ComparisonInv
<1>2. UNCHANGED <<shared, identity, endpoint, switched>>
    BY <1>1, WorldKeptMeans
<1>3. /\ \A point : ChangedAfterAnswer(point)' <=> ChangedAfterAnswer(point)
      /\ LastCompared' = LastCompared /\ (Continues' <=> Continues)
    BY <1>1, <1>2 DEF ChangedAfterAnswer, LastCompared, Continues, LatestCommonHeight
<1>4. ComparedHeight \in Nat /\ shared
    BY <1>1, ComparedHeightIs DEF ComparisonInv
<1>5. /\ source = "official" => ~OfAnother(Read(source)["official"])
      /\ source = "wallet" /\ ~Selected(endpoint) => OfAnother(Read(source)["wallet"])
      /\ \A other \in Sources \ {source} : Read(source)[other] = blocks[other]
    <2>1. /\ Read(source)[source] = BlockAt(EndpointOf(source), ComparedHeight)
          /\ \A other \in Sources \ {source} : Read(source)[other] = blocks[other]
        BY DEF Read, TypeInv
    <2>2. ~OfAnother(BlockAt("official", ComparedHeight))
        BY <1>4, NotAnother DEF ChainNames
    <2>3. ~Selected(endpoint) => OfAnother(BlockAt(endpoint, ComparedHeight))
        BY <1>4 DEF BlockAt, OfAnother, TypeInv, Endpoints, Selected
    <2> QED BY <2>1, <2>2, <2>3 DEF EndpointOf
<1>6. /\ "official" \notin awaited => ~OfAnother(blocks["official"])
      /\ ~Selected(endpoint) /\ "wallet" \notin awaited =>
            OfAnother(blocks["wallet"]) \/ ChangedAfterAnswer(at)
    BY <1>1 DEF ComparisonInv
<1>7. CASE awaited' = awaited \ {source} /\ blocks' = Read(source) /\ at' = at
    BY <1>1, <1>2, <1>3, <1>4, <1>5, <1>6, <1>7
       DEF ComparisonInv, AfterBlocks, AfterProbe, Sources
<1>8. CASE awaited = {source} /\ SameBlock(Read(source))
    <2>1. ~Selected(endpoint) => ChangedAfterAnswer(at)
        BY <1>5, <1>6, <1>8 DEF SameBlock, Sources
    <2>2. CASE at' = "confirmed" /\ awaited' = Sources /\ Continues
        BY <1>2, <1>3, <1>4, <2>2 DEF ComparisonInv, AfterBlocks, AfterProbe, Sources
    <2>3. CASE at' = "walletCode" /\ at = LastCompared
        BY <1>2, <1>3, <2>1, <2>3 DEF ComparisonInv, AfterBlocks, AfterProbe
    <2> QED BY <1>1, <1>8, <2>2, <2>3 DEF BlockRead
<1>9. CASE at' = "blocked"
    BY <1>9, ComparisonOver
<1> QED BY <1>1, <1>7, <1>8, <1>9 DEF BlockRead

\* The code alone decides nothing.
LEMMA ReadCodeComparison ==
    ASSUME TypeInv, ComparisonInv, NEW source \in Sources, ReadCode(source)
    PROVE  ComparisonInv'
<1>1. WorldKept /\ UNCHANGED <<heads, blocks, probes>>
    BY DEF ReadCode, WorldKept
<1>2. UNCHANGED <<shared, identity, endpoint, switched>>
    BY <1>1, WorldKeptMeans
<1>3. /\ \A points : ChangedAt(points)' <=> ChangedAt(points)
      /\ \A point : ChangedAfterAnswer(point)' <=> ChangedAfterAnswer(point)
      /\ LastCompared' = LastCompared
    BY <1>1, <1>2 DEF ChangedAt, ChangedAfterAnswer, LastCompared, Continues, LatestCommonHeight
<1>4. \/ at' = "blocked"
      \/ at = "walletCode" /\ at' = "walletProbe"
      \/ at = "officialCode" /\ at' = "officialProbe"
    BY DEF ReadCode, Block, GoTo
<1> QED
    BY <1>1, <1>2, <1>3, <1>4, ComparisonOver DEF ComparisonInv, AfterBlocks, AfterProbe

\* The probe gives away a contract that is not the genuine one.
LEMMA ReadProbeComparison ==
    ASSUME TypeInv, ComparisonInv, NEW source \in Sources, ReadProbe(source)
    PROVE  ComparisonInv'
<1>1. WorldKept /\ UNCHANGED <<heads, blocks, codes>>
    BY DEF ReadProbe, WorldKept
<1>2. UNCHANGED <<shared, identity, endpoint, switched>>
    BY <1>1, WorldKeptMeans
<1>3. /\ \A points : ChangedAt(points)' <=> ChangedAt(points)
      /\ \A point : ChangedAfterAnswer(point)' <=> ChangedAfterAnswer(point)
      /\ LastCompared' = LastCompared
    BY <1>1, <1>2 DEF ChangedAt, ChangedAfterAnswer, LastCompared, Continues, LatestCommonHeight
<1>4. CASE at' = "blocked"
    BY <1>4, ComparisonOver
<1>5. CASE source = "wallet" /\ at' # "blocked"
    <2>1. /\ at = "walletProbe" /\ probes'["wallet"] = Says(endpoint) /\ Says(endpoint) # "none"
          /\ at' = (IF shared THEN "officialCode" ELSE "write")
        BY <1>5 DEF ReadProbe, EndpointOf, Block, GoTo, TypeInv
    <2>2. ~Selected(endpoint) => endpoint = "other" /\ Says(endpoint) = identity
        BY <2>1, AnotherSays
    <2> QED BY <1>1, <1>2, <1>3, <2>1, <2>2 DEF ComparisonInv, AfterBlocks, AfterProbe
<1>6. CASE source = "official" /\ at' # "blocked"
    <2>1. /\ at = "officialProbe" /\ at' = "write"
          /\ probes'["official"] = Says("official") /\ Says("official") # "none"
          /\ probes'["wallet"] = probes["wallet"]
          /\ probes'["wallet"] = probes'["official"]
        BY <1>6 DEF ReadProbe, EndpointOf, Block, GoTo, TypeInv, Sources
    <2>2. probes["wallet"] = "genuine"
        BY <2>1, OfficialSays
    <2> QED BY <1>1, <1>2, <1>3, <2>1, <2>2 DEF ComparisonInv, AfterBlocks, AfterProbe
<1> QED BY <1>4, <1>5, <1>6 DEF Sources

\* Every step keeps ComparisonInv.
LEMMA ComparisonInvStep == TypeInv /\ ComparisonInv /\ [Next]_vars => ComparisonInv'
<1> SUFFICES ASSUME TypeInv, ComparisonInv, [Next]_vars PROVE ComparisonInv'
    OBVIOUS
<1>1. ASSUME NEW e \in DOMAIN chains, Grow(e) \/ Fork(e) PROVE ComparisonInv'
    BY <1>1, ComparisonKept DEF Grow, Fork, Serves
<1>2. ASSUME NEW e \in Endpoints, Switch(e) PROVE ComparisonInv'
    BY <1>2, SwitchComparison
<1>3. CASE SelectWalletChain \/ RequestFails
    BY <1>3, ComparisonOver DEF SelectWalletChain, RequestFails, Block, GoTo
<1>4. CASE ReadChainId
    <2>1. /\ UNCHANGED shared
          /\ at' \in {"blocked", "walletCode", "heads"}
          /\ at' = "walletCode" => ~shared
          /\ at' = "heads" => shared
        BY <1>4 DEF ReadChainId, Block, Ask, GoTo, worldVars
    <2> QED BY <2>1 DEF ComparisonInv, AfterBlocks, AfterProbe
<1>5. ASSUME NEW source \in Sources, ReadHead(source) PROVE ComparisonInv'
    BY <1>5, ReadHeadComparison
<1>6. ASSUME NEW source \in Sources, ReadLatestCommonBlock(source) \/ ReadConfirmedBlock(source)
      PROVE  ComparisonInv'
    BY <1>6, ReadBlockComparison
<1>7. ASSUME NEW source \in Sources, ReadCode(source) \/ ReadProbe(source) PROVE ComparisonInv'
    BY <1>7, ReadCodeComparison, ReadProbeComparison
<1>8. CASE Sign
    <2>1. /\ WorldKept /\ UNCHANGED answerVars
          /\ at = "write" /\ at' \in {"sent", "blocked"}
        BY <1>8 DEF Sign, WorldKept, Block, GoTo
    <2>2. UNCHANGED <<shared, identity, endpoint, switched, heads>>
        BY <2>1, WorldKeptMeans DEF answerVars
    <2>3. /\ \A points : ChangedAt(points)' <=> ChangedAt(points)
          /\ \A point : ChangedAfterAnswer(point)' <=> ChangedAfterAnswer(point)
          /\ LastCompared' = LastCompared
        BY <2>2 DEF ChangedAt, ChangedAfterAnswer, LastCompared, Continues, LatestCommonHeight
    <2> QED BY <2>1, <2>2, <2>3 DEF ComparisonInv, AfterBlocks, AfterProbe
<1>9. CASE UNCHANGED vars
    BY <1>9, ComparisonKept DEF vars, worldVars
<1> QED BY <1>1, <1>2, <1>3, <1>4, <1>5, <1>6, <1>7, <1>8, <1>9 DEF Next

\* A changed endpoint is what SwitchedAfter looks for.
LEMMA ChangedIsSwitched ==
    ASSUME NEW points, NEW last
    PROVE  ChangedAt(points) \/ ChangedAfterAnswer(last) => SwitchedAfter(points, last)
    BY Zenon DEF ChangedAt, ChangedAfterAnswer, SwitchedAfter

\* A signed write reaches a network other than the selected one only if the
\* user changed the endpoint after the wallet's last telling answer, for any
\* heads, forks, lag and margin; off the shared chain id, only one that
\* answers the probe.
THEOREM WritesAreCompared == Spec => []WritesReachTheSelectedNetwork
<1>1. Init => ComparisonInv /\ SentInv
    <2> SUFFICES ASSUME Init PROVE ComparisonInv /\ SentInv
        OBVIOUS
    <2>1. at = "idle"
        BY Zenon DEF Init
    <2>2. ~Sent
        BY Zenon DEF Init, Sent
    <2> QED BY <2>1, <2>2 DEF ComparisonInv, SentInv, AfterBlocks, AfterProbe
<1>2. ComparisonInv /\ SentInv => WritesReachTheSelectedNetwork
    <2> SUFFICES ASSUME ComparisonInv, SentInv, Sent, ~Selected(sentTo)
                 PROVE  WritesReachTheSelectedNetwork
        BY Zenon DEF WritesReachTheSelectedNetwork, Sent
    <2>1. at = "sent" /\ endpoint = sentTo
        BY DEF SentInv
    <2>2. /\ shared => ChangedAt(AfterBlocks) \/ ChangedAfterAnswer(LastCompared)
          /\ shared /\ identity # "genuine" => ChangedAt(AfterProbe)
          /\ ~shared => ChangedAt(AfterProbe) \/ (sentTo = "other" /\ identity # "none")
        BY <2>1 DEF ComparisonInv
    <2> QED
        BY <2>2, ChangedIsSwitched, ZenonT(60)
           DEF WritesReachTheSelectedNetwork, AfterBlocks, AfterProbe, LastCompared
<1> QED
    BY <1>1, <1>2, TypeInvInit, TypeInvStep, SentInvStep, ComparisonInvStep, PTL DEF Spec

-----------------------------------------------------------------------------
\* The wallet on the selected network is not turned away.

\* Both endpoints asked serve the network.
LEMMA CalmEndpoints ==
    ASSUME Calm, NEW source \in Sources
    PROVE  EndpointOf(source) \in ChainNames /\ Selected(EndpointOf(source))
    BY DEF Calm, EndpointOf, Selected, ChainNames

\* A check that nothing disturbs stays calm, and its endpoints stay.
LEMMA CalmKept ==
    ASSUME WorldKept
    PROVE  /\ Calm' <=> Calm
           /\ \A source : EndpointOf(source)' = EndpointOf(source)
           /\ \A e : Height(e)' = Height(e)
           /\ \A e, height : BlockAt(e, height)' = BlockAt(e, height)
           /\ (~forked => Agree(chains["official"], chains["mirror"]))'
                <=> (~forked => Agree(chains["official"], chains["mirror"]))
    BY WorldKeptMeans DEF Calm, EndpointOf, Height, BlockAt

\* What an endpoint of the network says.
LEMMA SelectedSays ==
    ASSUME TypeInv, ComparisonInv, AlarmInv, Calm, at \in AfterBlocks, NEW source \in Sources
    PROVE  Says(EndpointOf(source)) = "genuine"
<1> DEFINE e == EndpointOf(source)
<1>1. e \in ChainNames /\ Selected(e)
    BY CalmEndpoints
<1> HIDE DEF e
<1>3. Identity(e) = "genuine"
    BY <1>1 DEF Identity, Selected, ChainNames
<1>2. shared => ~(Height(e) < LatestCommonHeight)
    <2> SUFFICES ASSUME shared PROVE ~(Height(e) < LatestCommonHeight)
        OBVIOUS
    <2>1. heads[source] <= Height(e) /\ Height(e) \in Nat /\ heads[source] \in Nat
        BY <1>1, HeightIs DEF AlarmInv, Reaches, TypeInv, e
    <2>2. LatestCommonHeight \in Nat /\ LatestCommonHeight <= heads[source]
        BY CommonHeight DEF Sources
    <2> QED BY <2>1, <2>2
<1> QED BY <1>1, <1>2, <1>3 DEF Says, e

\* What they serve at the compared height is the same block.
LEMMA SelectedBlocks ==
    ASSUME TypeInv, ComparisonInv, AlarmInv, Calm, at \in {"latest", "confirmed"},
           NEW s \in Sources
    PROVE  /\ ComparedHeight \in Nat /\ ComparedHeight <= Height(EndpointOf(s))
           /\ \A t \in Sources :
                BlockAt(EndpointOf(s), ComparedHeight) = BlockAt(EndpointOf(t), ComparedHeight)
           /\ BlockAt(EndpointOf(s), ComparedHeight) # NoBlock
<1>1. \A t \in Sources : EndpointOf(t) \in ChainNames
    BY CalmEndpoints
<1>2. /\ ComparedHeight \in Nat /\ ComparedHeight <= LatestCommonHeight
      /\ LatestCommonHeight \in Nat
      /\ \A t \in Sources : LatestCommonHeight <= heads[t]
    BY ComparedHeightIs, CommonHeight DEF ComparisonInv, Sources
<1>3. \A t \in Sources : heads[t] <= Height(EndpointOf(t)) /\ heads[t] \in Nat
    BY DEF ComparisonInv, AlarmInv, Reaches, TypeInv
<1>4. \A t \in Sources : Height(EndpointOf(t)) \in Nat
    BY <1>1, HeightIs
<1>5. \A t \in Sources : ComparedHeight <= Height(EndpointOf(t))
    BY <1>2, <1>3, <1>4
<1>6. Agree(chains["official"], chains["mirror"])
    BY DEF AlarmInv, Calm
<1> QED BY <1>1, <1>2, <1>5, <1>6, SameHistory

\* The chains a step leaves behind have heights.
LEMMA NextHeights == TypeInv' => (\A e \in ChainNames : Height(e) \in Nat)'
<1>1. TypeInv => \A e \in ChainNames : Height(e) \in Nat
    BY HeightIs
<1> QED BY <1>1, PTL

\* What the two endpoints have told stays true when a chain grows.
LEMMA GrowAlarm ==
    ASSUME TypeInv, ComparisonInv, AlarmInv, NEW e \in ChainNames, Grow(e)
    PROVE  AlarmInv'
<1>1. /\ UNCHANGED <<shared, endpoint, at, awaited, answerVars, reason, switched>>
      /\ \A f \in ChainNames : Height(f) <= Height(f)'
      /\ \A f \in ChainNames, height \in Nat :
            height <= Height(f) => BlockAt(f, height)' = BlockAt(f, height)
      /\ forked' = (forked \/ ~Agree(chains["official"], chains["mirror"])')
      /\ TypeInv'
    BY GrowEffect
<1>2. /\ Calm' => Calm
      /\ Alarm' <=> Alarm
      /\ ComparedHeight' = ComparedHeight /\ HeadLag(heads)' = HeadLag(heads)
      /\ \A s : EndpointOf(s)' = EndpointOf(s)
    BY <1>1 DEF Calm, Alarm, ComparedHeight, LatestCommonHeight, HeadLag, EndpointOf, answerVars
<1>3. ASSUME Calm, NEW s \in Sources, Reaches(s) PROVE Reaches(s)'
    <2>1. PICK f \in ChainNames : f = EndpointOf(s)
        BY <1>3, CalmEndpoints
    <2>2. Height(f) \in Nat /\ heads[s] \in Nat /\ Height(f) <= Height(f)'
        BY <1>1, HeightIs DEF TypeInv
    <2>3. Height(f)' \in Nat
        BY <1>1, NextHeights
    <2>4. f = EndpointOf(s)' /\ heads'[s] = heads[s]
        BY <1>1, <1>2, <2>1 DEF answerVars
    <2> QED BY <1>3, <2>1, <2>2, <2>3, <2>4 DEF Reaches
<1>4. ASSUME Calm, NEW s \in Sources, at \in {"latest", "confirmed"},
             blocks[s] = BlockAt(EndpointOf(s), ComparedHeight)
      PROVE  (blocks[s] = BlockAt(EndpointOf(s), ComparedHeight))'
    <2>1. EndpointOf(s) \in ChainNames
        BY <1>4, CalmEndpoints
    <2>2. ComparedHeight \in Nat /\ ComparedHeight <= Height(EndpointOf(s))
        BY <1>4, SelectedBlocks
    <2> QED BY <1>1, <1>2, <1>4, <2>1, <2>2 DEF answerVars
<1> QED BY <1>1, <1>2, <1>3, <1>4 DEF AlarmInv, answerVars

\* A fork or a change of endpoint ends the calm.
LEMMA DisturbedAlarm ==
    ASSUME AlarmInv, UNCHANGED <<at, reason>>, ~Calm',
           (~forked => Agree(chains["official"], chains["mirror"]))'
              \/ UNCHANGED <<forked, chains>>
    PROVE  AlarmInv'
    BY DEF AlarmInv, Alarm

\* A step of the check leaves the world as it was.
LEMMA CheckKeeps ==
    ASSUME AlarmInv, WorldKept, at # "idle"
    PROVE  /\ (at # "idle" /\ ~forked => Agree(chains["official"], chains["mirror"]))'
           /\ shared' = shared
           /\ UNCHANGED heads => \A s : Reaches(s)' <=> Reaches(s)
    BY CalmKept, WorldKeptMeans DEF AlarmInv, Reaches, Height

\* A check that goes on, or ends, where nothing has been compared.
LEMMA NothingCompared ==
    ASSUME AlarmInv, WorldKept, at # "idle", ~Alarm',
           at' \in {"sent", "blocked"} \/ (at' = "heads" /\ awaited' = Sources)
               \/ (at' = "walletCode" /\ ~shared)
    PROVE  AlarmInv'
    BY CheckKeeps DEF AlarmInv, AfterBlocks, AfterProbe

\* Once both heads are told, each is one its endpoint has reached.
LEMMA ReadHeadAlarm ==
    ASSUME TypeInv, AlarmInv, NEW source \in Sources, ReadHead(source)
    PROVE  AlarmInv'
<1>1. /\ at = "heads" /\ source \in awaited /\ WorldKept
      /\ UNCHANGED <<blocks, codes, probes>>
      /\ \E height \in HeadsOf(EndpointOf(source)) : heads' = [heads EXCEPT ![source] = height]
    BY DEF ReadHead, WorldKept
<1>2. \/ /\ awaited # {source} /\ at' = "heads" /\ awaited' = awaited \ {source}
         /\ reason' = reason
      \/ /\ awaited = {source} /\ at' = "blocked"
         /\ HeadLag(heads') > MAX_SHARED_CHAIN_HEAD_LAG
      \/ /\ awaited = {source} /\ at' = "latest" /\ awaited' = Sources /\ reason' = reason
    BY <1>1 DEF ReadHead, Block, Ask
<1>3. /\ (at # "idle" /\ ~forked => Agree(chains["official"], chains["mirror"]))'
      /\ Calm' <=> Calm
    BY <1>1, CheckKeeps, CalmKept
<1>4. ASSUME Calm, NEW s \in Sources, s \notin awaited \ {source} PROVE Reaches(s)'
    <2>1. /\ Height(EndpointOf(s))' = Height(EndpointOf(s))
          /\ HeadsOf(EndpointOf(source)) = {Height(EndpointOf(source))}
          /\ heads \in [Sources -> Nat]
        BY <1>1, <1>4, CalmKept, CalmEndpoints DEF TypeInv, HeadsOf, Height
    <2>2. CASE s = source
        <3>1. heads'[s] = Height(EndpointOf(s))
            BY <1>1, <2>1, <2>2
        <3>2. Height(EndpointOf(s)) \in Nat
            BY <1>4, CalmEndpoints, HeightIs
        <3> QED BY <2>1, <3>1, <3>2 DEF Reaches
    <2>3. CASE s # source
        <3>1. heads'[s] = heads[s] /\ Reaches(s)
            BY <1>1, <1>4, <2>1, <2>3 DEF AlarmInv
        <3> QED BY <2>1, <3>1 DEF Reaches
    <2> QED BY <2>2, <2>3
<1>5. ~Alarm
    BY <1>1 DEF AlarmInv
<1>6. CASE awaited # {source} /\ at' = "heads" /\ awaited' = awaited \ {source} /\ reason' = reason
    BY <1>3, <1>4, <1>5, <1>6 DEF AlarmInv, Alarm, AfterBlocks, AfterProbe
<1>7. CASE at' = "blocked" /\ HeadLag(heads') > MAX_SHARED_CHAIN_HEAD_LAG
    BY <1>3, <1>7 DEF AlarmInv, AfterBlocks, AfterProbe, HeadLag
<1>8. CASE awaited = {source} /\ at' = "latest" /\ awaited' = Sources /\ reason' = reason
    BY <1>3, <1>4, <1>5, <1>8 DEF AlarmInv, Alarm, AfterBlocks, AfterProbe
<1> QED BY <1>2, <1>6, <1>7, <1>8

\* Both endpoints of the network answer with the same block.
LEMMA ReadBlockAlarm ==
    ASSUME TypeInv, ComparisonInv, AlarmInv, NEW source \in Sources,
           ReadLatestCommonBlock(source) \/ ReadConfirmedBlock(source)
    PROVE  AlarmInv'
<1>1. /\ at \in {"latest", "confirmed"} /\ source \in awaited
      /\ WorldKept /\ UNCHANGED <<heads, codes, probes>>
      /\ BlockRead(source)
    BY ReadBlockEffect DEF ComparisonInv
<1>2. /\ (at # "idle" /\ ~forked => Agree(chains["official"], chains["mirror"]))'
      /\ shared' = shared /\ shared
      /\ \A s : Reaches(s)' <=> Reaches(s)
      /\ Calm' <=> Calm
      /\ ~Alarm
    BY <1>1, CheckKeeps, CalmKept DEF ComparisonInv, AlarmInv
<1>3. Calm => \A s \in Sources : Reaches(s)
    BY <1>1, <1>2 DEF AlarmInv
<1>4. ASSUME Calm, NEW s \in Sources, s \notin awaited \ {source}
      PROVE  Read(source)[s] = BlockAt(EndpointOf(s), ComparedHeight)
    <2>1. CASE s = source
        BY <2>1 DEF Read, TypeInv
    <2>2. CASE s # source
        BY <1>1, <1>4, <2>2 DEF Read, TypeInv, AlarmInv
    <2> QED BY <2>1, <2>2
<1>5. CASE awaited' = awaited \ {source} /\ blocks' = Read(source) /\ at' = at /\ reason' = reason
    <2>1. ComparedHeight' = ComparedHeight
        BY <1>1, <1>5 DEF ComparedHeight, LatestCommonHeight
    <2>2. \A s : BlockAt(EndpointOf(s), ComparedHeight)' = BlockAt(EndpointOf(s), ComparedHeight)
        BY <1>1, <2>1, WorldKeptMeans DEF BlockAt, EndpointOf, Height
    <2>3. ASSUME Calm, NEW s \in Sources \ awaited'
          PROVE  (blocks[s] = BlockAt(EndpointOf(s), ComparedHeight))'
        BY <1>4, <1>5, <2>2, <2>3
    <2> QED BY <1>1, <1>2, <1>3, <1>5, <2>3 DEF AlarmInv, Alarm, AfterBlocks, AfterProbe
<1>6. CASE awaited = {source}
    <2>1. Calm => SameBlock(Read(source))
        BY <1>1, <1>4, <1>6, SelectedBlocks DEF SameBlock, Sources
    <2>2. CASE ~SameBlock(Read(source)) /\ at' = "blocked"
        BY <1>2, <2>1, <2>2 DEF AlarmInv, AfterBlocks, AfterProbe
    <2>3. CASE at' = "confirmed" /\ awaited' = Sources /\ reason' = reason
        BY <1>2, <1>3, <2>3 DEF AlarmInv, Alarm, AfterBlocks, AfterProbe
    <2>4. CASE at' = "walletCode" /\ reason' = reason
        BY <1>2, <1>3, <2>4 DEF AlarmInv, Alarm, AfterBlocks, AfterProbe
    <2> QED BY <1>1, <1>6, <2>2, <2>3, <2>4 DEF BlockRead
<1> QED BY <1>1, <1>5, <1>6 DEF BlockRead

\* The wallet's code and probe are the genuine ones, as the official ones are.
LEMMA ReadIdentityAlarm ==
    ASSUME TypeInv, ComparisonInv, AlarmInv, NEW source \in Sources,
           ReadCode(source) \/ ReadProbe(source)
    PROVE  AlarmInv'
<1>1. /\ WorldKept /\ UNCHANGED <<heads, blocks>>
      /\ at \in {"walletCode", "walletProbe", "officialCode", "officialProbe"}
    BY DEF ReadCode, ReadProbe, WorldKept
<1>2. /\ (at # "idle" /\ ~forked => Agree(chains["official"], chains["mirror"]))'
      /\ shared' = shared
      /\ \A s : Reaches(s)' <=> Reaches(s)
      /\ Calm' <=> Calm
      /\ ~Alarm
    BY <1>1, CheckKeeps, CalmKept DEF AlarmInv
<1>3. Calm => Says(EndpointOf(source)) = "genuine"
    BY <1>1, SelectedSays DEF AfterBlocks, AfterProbe
<1>4. CASE ReadCode(source)
    <2>1. /\ codes' = [codes EXCEPT ![source] = Says(EndpointOf(source))]
          /\ UNCHANGED probes
          /\ at = (IF source = "wallet" THEN "walletCode" ELSE "officialCode")
          /\ \/ codes'[source] = "none" /\ at' = "blocked"
             \/ /\ at' = (IF source = "wallet" THEN "walletProbe" ELSE "officialProbe")
                /\ reason' = reason
        BY <1>4 DEF ReadCode, Block, GoTo
    <2>2. /\ Calm => codes'[source] = "genuine"
          /\ \A s \in Sources : s # source => codes'[s] = codes[s]
        BY <1>3, <2>1 DEF TypeInv
    <2> QED
        BY <1>1, <1>2, <2>1, <2>2 DEF AlarmInv, Alarm, AfterBlocks, AfterProbe, Sources
<1>5. CASE ReadProbe(source)
    <2>1. /\ probes' = [probes EXCEPT ![source] = Says(EndpointOf(source))]
          /\ UNCHANGED codes
          /\ at = (IF source = "wallet" THEN "walletProbe" ELSE "officialProbe")
          /\ \/ at' = "blocked"
                /\ \/ probes'[source] = "none"
                   \/ /\ source # "wallet"
                      /\ ~(/\ codes["wallet"] = codes["official"]
                           /\ probes'["wallet"] = probes'["official"])
             \/ at' = (IF source = "wallet" /\ shared THEN "officialCode" ELSE "write")
                /\ reason' = reason
        BY <1>5 DEF ReadProbe, Block, GoTo
    <2>2. /\ Calm => probes'[source] = "genuine"
          /\ \A s \in Sources : s # source => probes'[s] = probes[s]
        BY <1>3, <2>1 DEF TypeInv
    <2>3. Calm /\ source = "official" =>
            /\ codes["wallet"] = "genuine" /\ codes["official"] = "genuine"
            /\ probes["wallet"] = "genuine"
        BY <2>1 DEF AlarmInv
    <2>4. Calm => at' # "blocked"
        BY <2>1, <2>2, <2>3 DEF Sources
    <2> QED
        BY <1>1, <1>2, <2>1, <2>2, <2>4 DEF AlarmInv, Alarm, AfterBlocks, AfterProbe, Sources
<1> QED BY <1>4, <1>5

\* Every step keeps AlarmInv.
LEMMA AlarmInvStep == TypeInv /\ ComparisonInv /\ AlarmInv /\ [Next]_vars => AlarmInv'
<1> SUFFICES ASSUME TypeInv, ComparisonInv, AlarmInv, [Next]_vars PROVE AlarmInv'
    OBVIOUS
<1>1. ASSUME NEW e \in DOMAIN chains, Grow(e) \/ Fork(e) PROVE AlarmInv'
    <2>1. e \in ChainNames
        BY DEF TypeInv
    <2>2. CASE Fork(e)
        <3>1. UNCHANGED <<at, reason>> /\ forked' = TRUE
            BY <2>1, <2>2, ForkEffect
        <3> QED BY <3>1, DisturbedAlarm DEF Calm
    <2> QED BY <1>1, <2>1, <2>2, GrowAlarm
<1>2. ASSUME NEW e \in Endpoints, Switch(e) PROVE AlarmInv'
    <2>1. /\ UNCHANGED <<chains, forked, at, reason>>
          /\ <<at, awaited>> \in switched'
        BY <1>2, SwitchEffect
    <2> QED BY <2>1, DisturbedAlarm DEF Calm
<1>3. CASE SelectWalletChain
    <2>1. /\ at = "idle" /\ at' \in {"chainId", "blocked"}
          /\ reason' = reason \/ reason' = "NOT_SELECTED"
          /\ forked' = ~Agree(chains["official"], chains["mirror"]) /\ UNCHANGED chains
        BY <1>3 DEF SelectWalletChain, Block, GoTo
    <2>2. ~Alarm
        BY <2>1 DEF AlarmInv
    <2>3. ~Alarm'
        BY <2>1, <2>2 DEF Alarm
    <2> QED BY <2>1, <2>3 DEF AlarmInv, AfterBlocks, AfterProbe
<1>4. CASE RequestFails \/ ReadChainId \/ Sign
    <2>1. /\ WorldKept /\ at \notin {"idle", "blocked"}
          /\ \/ at' \in {"sent", "blocked"} \/ (at' = "heads" /\ awaited' = Sources)
             \/ at' = "walletCode" /\ ~shared
          /\ reason' \in {reason, "RPC_FAILURE", "CHAIN_ID_MISMATCH", "REFUSED"}
        BY <1>4 DEF RequestFails, ReadChainId, Sign, WorldKept, Block, Ask, GoTo
    <2>2. ~Alarm
        BY <2>1 DEF AlarmInv
    <2>3. ~Alarm'
        BY <2>1, <2>2 DEF Alarm
    <2> QED BY <2>1, <2>3, NothingCompared
<1>5. ASSUME NEW source \in Sources, ReadHead(source) PROVE AlarmInv'
    BY <1>5, ReadHeadAlarm
<1>6. ASSUME NEW source \in Sources, ReadLatestCommonBlock(source) \/ ReadConfirmedBlock(source)
      PROVE  AlarmInv'
    BY <1>6, ReadBlockAlarm
<1>7. ASSUME NEW source \in Sources, ReadCode(source) \/ ReadProbe(source) PROVE AlarmInv'
    BY <1>7, ReadIdentityAlarm
<1>8. CASE UNCHANGED vars
    BY <1>8
       DEF vars, worldVars, answerVars, AlarmInv, Alarm, Calm, Reaches, Height, EndpointOf,
           BlockAt, ComparedHeight, LatestCommonHeight, HeadLag
<1> QED BY <1>1, <1>2, <1>3, <1>4, <1>5, <1>6, <1>7, <1>8 DEF Next

\* A wallet left on the selected network is turned away as ambiguous or
\* mistaken only after a fork between the endpoints or heads further apart
\* than the permitted lag, whenever the heads are sampled.
THEOREM NoFalseAlarms == Spec => []NoFalseAlarm
<1>1. Init => ComparisonInv /\ AlarmInv
    <2> SUFFICES ASSUME Init PROVE ComparisonInv /\ AlarmInv
        OBVIOUS
    <2>1. at = "idle"
        BY Zenon DEF Init
    <2>2. ~Alarm
        BY Zenon DEF Init, Alarm
    <2> QED BY <2>1, <2>2 DEF ComparisonInv, AlarmInv, AfterBlocks, AfterProbe
<1>2. AlarmInv => NoFalseAlarm
    BY DEF AlarmInv, NoFalseAlarm, Alarm, Calm
<1> QED
    BY <1>1, <1>2, TypeInvInit, TypeInvStep, ComparisonInvStep, AlarmInvStep, PTL DEF Spec
=============================================================================
