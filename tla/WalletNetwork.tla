--------------------------- MODULE WalletNetwork ---------------------------
(***************************************************************************)
(* The check made before every write (lib/walletNetwork.ts): is the        *)
(* injected wallet connected to the network the interface was built for?   *)
(* The wallet tells its chain id and answers RPC calls, but not which      *)
(* endpoint answers them, and two networks share chain id 4221.  So the    *)
(* interface compares what the wallet's endpoint says with what the        *)
(* network's official one says: head, a recent block, an older block, and  *)
(* the code and identity of the consensus contract.                        *)
(*                                                                         *)
(* Each request is an action; heads move and forks come and go between     *)
(* them, and the user may point the wallet at another endpoint at any time *)
(* until the write is signed.                                              *)
(***************************************************************************)
EXTENDS Naturals, SequencesExt

CONSTANTS
    MAX_SHARED_CHAIN_HEAD_LAG,
    SHARED_CHAIN_CONFIRMATION_MARGIN,
    MaxHeight,                \* bounds the model: how far chains grow
    MaxSwitches,              \* bounds the model: changes of endpoint
    MaxForks                  \* bounds the model: blocks replaced or forked

ASSUME CheckAssumption ==
    /\ MAX_SHARED_CHAIN_HEAD_LAG \in Nat
    /\ SHARED_CHAIN_CONFIRMATION_MARGIN \in Nat

ASSUME BoundAssumption == MaxHeight \in Nat

VARIABLES
    shared,       \* the selected network has the chain id 4221
    identity,     \* what the other network has at the consensus address
    chains,       \* chains[e]: the blocks endpoint e of the network serves
    endpoint,     \* the endpoint the wallet uses
    at,           \* where runWrite is
    awaited,      \* whose answers to the present pair of requests are missing
    heads, blocks, codes, probes,  \* the answers, by whose they are
    reason,       \* the code of the error that blocked the write
    sentTo,       \* the endpoint the signed write went to
    \* history
    switched,     \* when the endpoint was changed: at, and whose answers were missing
    forked,       \* an endpoint of the network forked since the check began
    forks

answerVars == <<heads, blocks, codes, probes>>
worldVars == <<shared, identity, chains, endpoint, switched, forked, forks>>
vars == <<worldVars, at, awaited, answerVars, reason, sentTo>>

\* official and mirror serve the selected network, other one with the same
\* chain id, and foreign one with another.
Endpoints == {"official", "mirror", "other", "foreign"}
Selected(e) == e \in {"official", "mirror"}
ChainId(e) == IF e = "foreign" THEN "foreign" ELSE "expected"

Sources == {"wallet", "official"}
EndpointOf(source) == IF source = "wallet" THEN endpoint ELSE "official"

\* Heights start at 0.  A hash stands for the block and all its ancestors.
\* Other networks may be at any height and have a block of their own there.
Height(e) == Len(chains[e]) - 1
HeadsOf(e) == IF Selected(e) THEN {Height(e)} ELSE 0..MaxHeight
NoBlock == <<>>
BlockAt(e, height) ==
    IF ~Selected(e) THEN <<e, height>>
    ELSE IF height <= Height(e) THEN SubSeq(chains[e], 1, height + 1) ELSE NoBlock

\* The consensus contract's code and its answer to the probe, or "none".
Identity(e) ==
    CASE Selected(e) -> "genuine" [] e = "other" -> identity [] e = "foreign" -> "none"

Agree(official, mirror) == IsPrefix(official, mirror) \/ IsPrefix(mirror, official)

NoBlocks == [source \in Sources |-> NoBlock]
Unanswered == [source \in Sources |-> "?"]

Init ==
    /\ shared \in BOOLEAN
    /\ identity \in {"genuine", "different", "none"}
    /\ chains = [e \in {"official", "mirror"} |-> <<"genesis">>]
    /\ endpoint \in Endpoints
    /\ at = "idle" /\ awaited = {} /\ reason = "" /\ sentTo = ""
    /\ heads = [source \in Sources |-> 0] /\ blocks = NoBlocks
    /\ codes = Unanswered /\ probes = Unanswered
    /\ switched = {} /\ forked = FALSE /\ forks = 0

-----------------------------------------------------------------------------
\* The world between two requests.

Serves(e, served) ==
    /\ at \notin {"sent", "blocked"}
    /\ chains' = [chains EXCEPT ![e] = served]
    /\ UNCHANGED <<shared, identity, endpoint, at, awaited, answerVars, reason, sentTo, switched>>

\* A block arrives: the next one of the network, if the other endpoint has it.
Grow(e) ==
    LET twin == IF e = "official" THEN "mirror" ELSE "official"
        next == IF IsPrefix(chains[e], chains[twin]) /\ Height(twin) > Height(e)
                THEN chains[twin][Height(e) + 2] ELSE "block"
    IN
    /\ Height(e) < MaxHeight
    /\ Serves(e, Append(chains[e], next))
    /\ forked' = (forked \/ ~Agree(chains'["official"], chains'["mirror"]))
    /\ UNCHANGED forks

\* An endpoint of the network replaces its latest block or drops it.
Fork(e) ==
    /\ forks < MaxForks /\ Height(e) > 0
    /\ forks' = forks + 1 /\ forked' = TRUE
    /\ \/ Serves(e, [chains[e] EXCEPT ![Len(chains[e])] = "fork"])
       \/ Serves(e, Front(chains[e]))

Switch(e) ==
    /\ at \notin {"sent", "blocked"}
    /\ e # endpoint /\ Cardinality(switched) < MaxSwitches
    /\ endpoint' = e
    /\ switched' = switched \union {<<at, awaited>>}
    /\ UNCHANGED <<shared, identity, chains, at, awaited, answerVars, reason, sentTo, forked, forks>>

-----------------------------------------------------------------------------
\* runWrite up to the signature.

Block(why) == at' = "blocked" /\ reason' = why /\ awaited' = {}
GoTo(point) == at' = point /\ reason' = reason /\ awaited' = {}
Ask(point) == at' = point /\ reason' = reason /\ awaited' = Sources

\* selectWalletChain: a wallet on another chain id is asked to switch, and
\* then uses an endpoint it knows for the chain, or the official one it is
\* given (wallet_addEthereumChain).
SelectWalletChain ==
    /\ at = "idle"
    /\ \/ /\ ChainId(endpoint) = "expected"
          /\ GoTo("chainId")
          /\ UNCHANGED endpoint
       \/ /\ ChainId(endpoint) # "expected"
          /\ endpoint' \in {e \in Endpoints : ChainId(e) = "expected"}
          /\ GoTo("chainId")
       \/ Block("NOT_SELECTED") /\ UNCHANGED endpoint
    /\ switched' = {}
    /\ forked' = ~Agree(chains["official"], chains["mirror"])
    /\ UNCHANGED <<shared, identity, chains, forks, answerVars, sentTo>>

\* Any request of the check may fail (providerRequest, officialRequest).
RequestFails ==
    /\ at \notin {"idle", "write", "sent", "blocked"}
    /\ Block("RPC_FAILURE")
    /\ UNCHANGED <<worldVars, answerVars, sentTo>>

ReadChainId ==
    /\ at = "chainId"
    /\ IF ChainId(endpoint) # "expected" THEN Block("CHAIN_ID_MISMATCH")
       ELSE IF shared THEN Ask("heads") ELSE GoTo("walletCode")
    /\ UNCHANGED <<worldVars, answerVars, sentTo>>

\* Bug: takes the higher of the two heads for the common one.
Bug_LatestCommonHeight == Max({heads["wallet"], heads["official"]})

LatestCommonHeight == Min({heads["wallet"], heads["official"]})

HeadLag(h) == Max({h["wallet"], h["official"]}) - Min({h["wallet"], h["official"]})

\* The two heads are asked for in parallel and answered in either order.
ReadHead(source) ==
    /\ at = "heads" /\ source \in awaited
    /\ \E height \in HeadsOf(EndpointOf(source)) : heads' = [heads EXCEPT ![source] = height]
    /\ IF awaited # {source} THEN awaited' = awaited \ {source} /\ UNCHANGED <<at, reason>>
       ELSE IF HeadLag(heads') > MAX_SHARED_CHAIN_HEAD_LAG THEN Block("AMBIGUOUS_SHARED_CHAIN")
       ELSE Ask("latest")
    /\ UNCHANGED <<worldVars, blocks, codes, probes, sentTo>>

\* Bug: compares nothing but that both have a block of that height.
Bug_SameBlock(b) == NoBlock \notin {b["wallet"], b["official"]}

\* blockHash refuses an endpoint that has no such block.
SameBlock(b) == b["wallet"] = b["official"] /\ b["wallet"] # NoBlock

ReadBlock(source, point, height, next) ==
    /\ at = point /\ source \in awaited
    /\ LET read == [blocks EXCEPT ![source] = BlockAt(EndpointOf(source), height)]
       IN  IF awaited # {source}
           THEN awaited' = awaited \ {source} /\ blocks' = read /\ UNCHANGED <<at, reason>>
           ELSE /\ blocks' = NoBlocks
                /\ IF ~SameBlock(read) THEN Block("AMBIGUOUS_SHARED_CHAIN")
                   ELSE IF next = "confirmed" THEN Ask(next) ELSE GoTo(next)
    /\ UNCHANGED <<worldVars, heads, codes, probes, sentTo>>

Continues == LatestCommonHeight >= SHARED_CHAIN_CONFIRMATION_MARGIN

ReadLatestCommonBlock(source) ==
    ReadBlock(source, "latest", LatestCommonHeight,
              IF Continues THEN "confirmed" ELSE "walletCode")

ReadConfirmedBlock(source) ==
    ReadBlock(source, "confirmed", LatestCommonHeight - SHARED_CHAIN_CONFIRMATION_MARGIN,
              "walletCode")

\* What an endpoint says of the consensus contract, at the common block of a
\* shared chain and at its latest block otherwise.
Says(e) ==
    IF shared /\ Selected(e) /\ Height(e) < LatestCommonHeight THEN "none" ELSE Identity(e)

\* readConsensusIdentity, first request: the code.
ReadCode(source) ==
    /\ at = (IF source = "wallet" THEN "walletCode" ELSE "officialCode")
    /\ codes' = [codes EXCEPT ![source] = Says(EndpointOf(source))]
    /\ IF codes'[source] # "none"
       THEN GoTo(IF source = "wallet" THEN "walletProbe" ELSE "officialProbe")
       ELSE Block(IF source = "wallet" THEN "CONSENSUS_CODE_MISSING"
                  ELSE "CONSENSUS_IDENTITY_MISMATCH")
    /\ UNCHANGED <<worldVars, heads, blocks, probes, sentTo>>

\* readConsensusIdentity, second request: the probe.  On a shared chain the
\* wallet's answers must be the official ones.
ReadProbe(source) ==
    LET same == codes["wallet"] = codes["official"] /\ probes'["wallet"] = probes'["official"]
    IN
    /\ at = (IF source = "wallet" THEN "walletProbe" ELSE "officialProbe")
    /\ probes' = [probes EXCEPT ![source] = Says(EndpointOf(source))]
    /\ IF probes'[source] = "none"
       THEN Block(IF source = "wallet" THEN "CONSENSUS_PROBE_FAILED"
                  ELSE "CONSENSUS_IDENTITY_MISMATCH")
       ELSE IF source = "wallet" THEN GoTo(IF shared THEN "officialCode" ELSE "write")
       ELSE IF same THEN GoTo("write") ELSE Block("CONSENSUS_IDENTITY_MISMATCH")
    /\ UNCHANGED <<worldVars, heads, blocks, codes, sentTo>>

\* runVerifiedWalletWrite: the wallet signs and sends, or refuses.
Sign ==
    /\ at = "write"
    /\ \/ GoTo("sent") /\ sentTo' = endpoint
       \/ Block("REFUSED") /\ UNCHANGED sentTo
    /\ UNCHANGED <<worldVars, answerVars>>

Next ==
    \/ \E e \in DOMAIN chains : Grow(e) \/ Fork(e)
    \/ \E e \in Endpoints : Switch(e)
    \/ SelectWalletChain \/ RequestFails \/ ReadChainId \/ Sign
    \/ \E source \in Sources :
         \/ ReadHead(source) \/ ReadLatestCommonBlock(source) \/ ReadConfirmedBlock(source)
         \/ ReadCode(source) \/ ReadProbe(source)

Spec == Init /\ [][Next]_vars

-----------------------------------------------------------------------------
\* Properties.

\* The endpoint was changed after the wallet's last answer to the point.
SwitchedAfter(points, last) ==
    \E mark \in switched : mark[1] \in points \/ (mark[1] = last /\ "wallet" \notin mark[2])

\* A write reaches a network other than the selected one only if the user
\* changed the wallet's endpoint when nothing more was to be asked of it that
\* tells the two apart: after the last block it was asked for, and, unless the
\* other network's consensus contract is a copy, after its probe.  Heads that
\* move between the requests, forks and changes of endpoint in the middle of
\* the check do not let one through.  Off the shared chain id there is no such
\* comparison: any network that answers the probe passes.
WritesReachTheSelectedNetwork ==
    sentTo # "" /\ ~Selected(sentTo) =>
        LET afterProbe   == {"officialCode", "officialProbe", "write"}
            lastCompared == IF Continues THEN "confirmed" ELSE "latest"
        IN  IF ~shared
            THEN (sentTo = "other" /\ identity # "none") \/ SwitchedAfter(afterProbe, "")
            ELSE IF identity = "genuine"
            THEN SwitchedAfter(afterProbe \union {"walletCode", "walletProbe"}, lastCompared)
            ELSE SwitchedAfter(afterProbe, "")

\* A wallet left on an endpoint of the selected network is not turned away as
\* ambiguous merely because the two heads are sampled at different moments:
\* that takes a fork between the endpoints or heads further apart than the
\* permitted lag.
NoFalseAlarm ==
    /\ reason \in {"AMBIGUOUS_SHARED_CHAIN", "CONSENSUS_CODE_MISSING",
                   "CONSENSUS_PROBE_FAILED", "CONSENSUS_IDENTITY_MISMATCH"}
    /\ Selected(endpoint)
    /\ switched = {}
    => forked \/ HeadLag(heads) > MAX_SHARED_CHAIN_HEAD_LAG
=============================================================================
