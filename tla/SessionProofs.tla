---------------------------- MODULE SessionProofs ----------------------------
(***************************************************************************)
(* What holds of a browser tab for every set of accounts, every number of  *)
(* bounties, whatever they hold when the page opens, and however many      *)
(* clicks, answers and transactions there are.                             *)
(*                                                                         *)
(* The invariant has a part for each thing that outlives an await: what is *)
(* chosen, what is shown, the entries, the chain, the functions that await *)
(* an answer, and the lists among them.                                    *)
(***************************************************************************)
EXTENDS Session, TLAPS

Wallets == Accounts \union {NoWallet}

Submissions == [creator: Wallets, stage: Stages]

Tags == [bounty: 0..BountyCount, creator: Wallets]

Receipts ==
    [status: {Absent, "PENDING", "ACCEPTED", "UNDETERMINED", "FINALIZED"},
     result: {Absent, "MAJORITY_AGREE", "NO_MAJORITY"},
     execution: {Absent, "FINISHED_WITH_RETURN", "FINISHED_WITH_ERROR"}]

Calls == [action: Actions, entity: Bounties, signer: Wallets, tag: Tags, receipt: Receipts]

Entries == [hash: Nat, action: Actions, entity: Bounties, receipt: Receipts]

Writes ==
    [op: {"write"}, at: {"connect", "network", "sign", "receipt"}, hash: Nat,
     action: Actions, entity: Bounties, signer: Wallets, tag: Tags]

-----------------------------------------------------------------------------
(***************************************************************************)
(* The invariant.                                                          *)
(***************************************************************************)

\* A receipt read of a transaction is one it has had: a final one is final
\* for good, so it is the one it has now.
Observes(hash, receipt) ==
    /\ hash \in DOMAIN chain
    /\ receipt \in Receipts
    /\ receipt.status = "FINALIZED" => receipt = chain[hash].receipt

\* The claim tag on the screen is of a connected account.
ChoiceInv ==
    /\ walletAddress \in Wallets
    /\ selectedBounty \in 0..BountyCount
    /\ claimTagRequestId \in Nat
    /\ claimTag \in Tags
    /\ claimTag # NoTag => claimTag.creator # NoWallet
    /\ ClaimTagIsCurrent

\* A submission on the screen is some bounty's.
ShownInv ==
    /\ actionBusy \in Actions \union {Idle, "activity", "sync"}
    /\ shown \in [bounty: 0..BountyCount, submission: Submissions]
    /\ shown.submission.stage \in {"PENDING", "APPROVED_PENDING", "CLAIMED"} => shown.bounty # 0

EntriesInv ==
    /\ transactions \in Seq(Entries)
    /\ \A i \in DOMAIN transactions : Observes(transactions[i].hash, transactions[i].receipt)

ChainInv ==
    /\ submission \in [Bounties -> Submissions]
    /\ chain \in Seq(Calls)
    /\ SubmissionUsesItsClaimTag

\* What a function that awaits its answer holds.
TagAwaited(task) ==
    task.op = "tag" => task.id \in 1..claimTagRequestId /\ task.creator # NoWallet

BountiesAwaited(task) ==
    task.op = "bounties" =>
        task.bounty \in 0..BountyCount /\ (task.next = "open" => task.bounty # 0)

ListAwaited(task) == task.op = "list" => task.bounty \in Bounties /\ task.seen \in Submissions

SyncAwaited(task) == task.op = "sync" => Observes(task.hash, task.seen)

\* A submission under way has the claim tag of its signer, and so needs no
\* other account to connect.
WriteAwaited(task) ==
    task.op = "write" =>
        /\ task \in Writes
        /\ task.at = "receipt" => task.hash \in DOMAIN chain
        /\ task.action = "SUBMIT" =>
            task.at # "connect" /\ task.tag = [bounty |-> task.entity, creator |-> task.signer]

FinalityAwaited(task) == task.op = "finality" => task.hash \in DOMAIN chain

Awaited(task) ==
    /\ TagAwaited(task) /\ BountiesAwaited(task) /\ ListAwaited(task)
    /\ SyncAwaited(task) /\ WriteAwaited(task) /\ FinalityAwaited(task)

TasksInv == \A task \in tasks : Awaited(task)

IsList(task, b) == task.op = "list" /\ task.bounty = b

\* Lists of two bounties are awaited only after they overlapped, and the list
\* of a bounty no longer selected only with that of the selected one.
ListsInv ==
    /\ overlapped \in BOOLEAN
    /\ \A t, u \in tasks : t.op = "list" /\ u.op = "list" /\ t.bounty # u.bounty => overlapped
    /\ \A t \in tasks : t.op = "list" /\ t.bounty # selectedBounty =>
        overlapped \/ \E u \in tasks : IsList(u, selectedBounty)
    /\ ForeignListNeedsOverlap

SessionInv ==
    ChoiceInv /\ ShownInv /\ EntriesInv /\ ChainInv /\ TasksInv /\ ListsInv

-----------------------------------------------------------------------------
(***************************************************************************)
(* What the constructors of tasks make.                                    *)
(***************************************************************************)

\* A load of the marketplace names the bounty to open, if there is one.
LEMMA LoadBountiesAwaited ==
    ASSUME NEW next, NEW b \in 0..BountyCount, NEW clears, next = "open" => b # 0,
           NEW task, task = LoadBounties(next, b, clears)
    PROVE  Awaited(task)' /\ task.op # "list"
<1>1. task.op = "bounties" /\ task.bounty = b /\ task.next = next
    BY DEF LoadBounties
<1> QED BY <1>1 DEF Awaited, TagAwaited, BountiesAwaited, ListAwaited, SyncAwaited, WriteAwaited,
                    FinalityAwaited

\* So does a refresh, which opens none.
LEMMA RefreshAwaited ==
    ASSUME NEW clears, NEW task, task = RefreshSelected(clears)
    PROVE  Awaited(task)' /\ task.op # "list"
<1>1. task = LoadBounties("refresh", 0, clears) /\ 0 \in 0..BountyCount
    BY SessionAssumption DEF RefreshSelected
<1> QED BY <1>1, LoadBountiesAwaited

\* A list is awaited for a bounty, and what it held when it was asked for.
LEMMA LoadSubmissionsAwaited ==
    ASSUME ChainInv, NEW b \in Bounties, NEW clears, NEW task, task = LoadSubmissions(b, clears)
    PROVE  Awaited(task)' /\ IsList(task, b)
<1>1. task.op = "list" /\ task.bounty = b /\ task.seen = submission[b]
    BY DEF LoadSubmissions
<1>2. submission[b] \in Submissions
    BY DEF ChainInv
<1> QED BY <1>1, <1>2 DEF Awaited, TagAwaited, BountiesAwaited, ListAwaited, SyncAwaited,
                          WriteAwaited, FinalityAwaited, IsList

\* What a transaction's receipt is when it is looked up is an observation.
LEMMA ChainIsObserved ==
    ASSUME ChainInv, NEW hash \in DOMAIN chain
    PROVE  Observes(hash, chain[hash].receipt)
<1>1. chain[hash] \in Calls
    BY DEF ChainInv
<1> QED BY <1>1 DEF Observes, Calls

\* A lookup of a transaction holds such an observation.
LEMMA SyncIsAwaited ==
    ASSUME ChainInv, NEW hash \in DOMAIN chain, NEW all, NEW task, task = Sync(hash, all),
           UNCHANGED chain
    PROVE  Awaited(task)' /\ task.op # "list"
<1>1. task.op = "sync" /\ task.hash = hash /\ task.seen = chain[hash].receipt
    BY DEF Sync
<1>2. Observes(hash, chain[hash].receipt)
    BY ChainIsObserved
<1> QED BY <1>1, <1>2 DEF Awaited, TagAwaited, BountiesAwaited, ListAwaited, SyncAwaited,
                          WriteAwaited, FinalityAwaited, Observes

\* Tasks that hold nothing.
LEMMA PlainAwaited ==
    ASSUME NEW task, task.op \in {"mount", "connect", "activity", "details"}
    PROVE  Awaited(task)' /\ task.op # "list"
    BY DEF Awaited, TagAwaited, BountiesAwaited, ListAwaited, SyncAwaited, WriteAwaited,
           FinalityAwaited

\* The request for a claim tag is the latest, and for a connected account.
LEMMA TagRequestAwaited ==
    ASSUME ChoiceInv, NEW wallet, NEW b, Choose(wallet, b), NEW task \in TagRequest(wallet, b)
    PROVE  Awaited(task)' /\ task.op # "list"
<1>1. /\ ~(wallet = walletAddress /\ b = selectedBounty)
      /\ wallet # NoWallet
      /\ task = [op |-> "tag", id |-> claimTagRequestId + 1, bounty |-> b, creator |-> wallet]
    BY DEF TagRequest
<1>2. claimTagRequestId' = claimTagRequestId + 1 /\ claimTagRequestId \in Nat
    BY <1>1 DEF Choose, ChoiceInv
<1>3. task.op = "tag" /\ task.id = claimTagRequestId + 1 /\ task.creator = wallet
    BY <1>1
<1> QED BY <1>1, <1>2, <1>3 DEF Awaited, TagAwaited, BountiesAwaited, ListAwaited, SyncAwaited,
                                WriteAwaited, FinalityAwaited

\* A change of account or bounty leaves no claim tag of the former one.
LEMMA ChooseKeeps ==
    ASSUME ChoiceInv, NEW wallet \in Wallets, NEW b \in 0..BountyCount, Choose(wallet, b)
    PROVE  ChoiceInv' /\ claimTagRequestId' >= claimTagRequestId
<1>1. /\ walletAddress' = wallet /\ selectedBounty' = b
      /\ \/ /\ wallet = walletAddress /\ b = selectedBounty
            /\ claimTag' = claimTag /\ claimTagRequestId' = claimTagRequestId
         \/ claimTag' = NoTag /\ claimTagRequestId' = claimTagRequestId + 1
    BY DEF Choose
<1>2. NoTag \in Tags
    BY SessionAssumption DEF NoTag, Tags, Wallets
<1> QED BY <1>1, <1>2 DEF ChoiceInv, ClaimTagIsCurrent

\* Nothing that is chosen changes by itself.
LEMMA ChoiceUntouched ==
    ASSUME ChoiceInv, UNCHANGED choiceVars
    PROVE  ChoiceInv' /\ claimTagRequestId' >= claimTagRequestId
    BY DEF ChoiceInv, choiceVars, ClaimTagIsCurrent

-----------------------------------------------------------------------------
(***************************************************************************)
(* What a step of the tab leaves.                                          *)
(***************************************************************************)

\* The chain only grows, and what is final on it stays.
ChainGrows ==
    /\ DOMAIN chain \subseteq DOMAIN chain'
    /\ \A hash \in DOMAIN chain :
        chain[hash].receipt.status = "FINALIZED" => chain'[hash].receipt = chain[hash].receipt

\* An observation stays one while the chain grows.
LEMMA ObservesLasts ==
    ASSUME NEW hash, NEW receipt, Observes(hash, receipt), ChainGrows
    PROVE  Observes(hash, receipt)'
    BY DEF Observes, ChainGrows

\* What a task holds lasts until it is answered.
LEMMA AwaitedLasts ==
    ASSUME NEW task, Awaited(task), ChainGrows,
           claimTagRequestId \in Nat, claimTagRequestId' \in Nat,
           claimTagRequestId' >= claimTagRequestId
    PROVE  Awaited(task)'
<1>1. TagAwaited(task)'
    BY DEF Awaited, TagAwaited
<1>2. SyncAwaited(task)'
    BY ObservesLasts DEF Awaited, SyncAwaited
<1>3. WriteAwaited(task)' /\ FinalityAwaited(task)'
    BY DEF Awaited, WriteAwaited, FinalityAwaited, ChainGrows
<1>4. BountiesAwaited(task)' /\ ListAwaited(task)'
    BY DEF Awaited, BountiesAwaited, ListAwaited
<1> QED BY <1>1, <1>2, <1>3, <1>4 DEF Awaited

\* The functions that resume leave the others waiting as they were.
LEMMA TasksResume ==
    ASSUME SessionInv, ChoiceInv', ChainGrows, claimTagRequestId' >= claimTagRequestId,
           NEW done, NEW added, Resume(done, added), \A task \in added : Awaited(task)'
    PROVE  TasksInv'
<1>1. claimTagRequestId \in Nat /\ claimTagRequestId' \in Nat
    BY DEF SessionInv, ChoiceInv
<1>2. \A task \in tasks : Awaited(task)'
    BY <1>1, AwaitedLasts DEF SessionInv, TasksInv
<1>3. tasks' = (tasks \ done) \union added
    BY DEF Resume
<1> QED BY <1>2, <1>3 DEF TasksInv

\* Lists of two bounties never come to be awaited unnoticed.
LEMMA ListsOverlap ==
    ASSUME ListsInv, NEW done, NEW added, Resume(done, added),
           \A t, u \in added : t.op = "list" /\ u.op = "list" => t.bounty = u.bounty
    PROVE  /\ overlapped' \in BOOLEAN
           /\ overlapped => overlapped'
           /\ \A t, u \in tasks' :
                t.op = "list" /\ u.op = "list" /\ t.bounty # u.bounty => overlapped'
<1>1. /\ tasks' = (tasks \ done) \union added
      /\ overlapped' = (overlapped \/ Overlaps(added))
    BY DEF Resume
<1>2. overlapped' \in BOOLEAN /\ (overlapped => overlapped') /\ (Overlaps(added) => overlapped')
    BY <1>1, Zenon DEF ListsInv
<1>3. ASSUME NEW t \in tasks, NEW u \in added, t.op = "list", u.op = "list", t.bounty # u.bounty
      PROVE  overlapped'
    <2>1. t.bounty \in ListsAwaited
        BY <1>3 DEF ListsAwaited
    <2>2. Overlaps(added)
        BY <1>3, <2>1 DEF Overlaps
    <2> QED BY <1>2, <2>2
<1>4. ASSUME NEW t \in tasks', NEW u \in tasks', t.op = "list", u.op = "list",
             t.bounty # u.bounty
      PROVE  overlapped'
    <2>1. CASE t \in tasks /\ u \in tasks
        BY <1>2, <1>4, <2>1 DEF ListsInv
    <2>2. CASE t \in tasks /\ u \in added
        BY <1>3, <1>4, <2>2
    <2>3. CASE t \in added /\ u \in tasks
        BY <1>3, <1>4, <2>3
    <2> QED BY <1>1, <1>4, <2>1, <2>2, <2>3
<1> QED BY <1>2, <1>4

\* A step that answers no list, that leaves the screen's list or clears it, and
\* that asks for the list of a bounty it selects keeps the lists in order.
LEMMA ListsGoOn ==
    ASSUME ListsInv, NEW done, NEW added, Resume(done, added),
           \A t \in done : t.op # "list",
           \A t \in added : t.op = "list" => t.bounty = selectedBounty',
           selectedBounty' = selectedBounty \/ \E t \in added : IsList(t, selectedBounty'),
           UNCHANGED shown
    PROVE  ListsInv'
<1>1. tasks' = (tasks \ done) \union added
    BY DEF Resume
<1>2. /\ overlapped' \in BOOLEAN
      /\ overlapped => overlapped'
      /\ \A t, u \in tasks' :
            t.op = "list" /\ u.op = "list" /\ t.bounty # u.bounty => overlapped'
    BY ListsOverlap
<1>3. CASE \E t \in added : IsList(t, selectedBounty')
    <2>1. \E t \in tasks' : IsList(t, selectedBounty')
        BY <1>1, <1>3
    <2> QED BY <1>2, <2>1 DEF ListsInv, ForeignListNeedsOverlap, IsList
<1>4. CASE selectedBounty' = selectedBounty
    <2>1. (\E u \in tasks : IsList(u, selectedBounty))
            => \E u \in tasks' : IsList(u, selectedBounty')
        BY <1>1, <1>4 DEF IsList
    <2>2. \A t \in tasks' : t.op = "list" /\ t.bounty # selectedBounty' => t \in tasks
        BY <1>1
    <2>3. \A t \in tasks' : t.op = "list" /\ t.bounty # selectedBounty' =>
            overlapped' \/ \E u \in tasks' : IsList(u, selectedBounty')
        BY <1>2, <1>4, <2>1, <2>2 DEF ListsInv
    <2>4. ForeignListNeedsOverlap'
        BY <1>2, <1>4, <2>1 DEF ListsInv, ForeignListNeedsOverlap, IsList
    <2> QED BY <1>2, <2>3, <2>4 DEF ListsInv, IsList
<1> QED BY <1>3, <1>4

\* A step of the tab that shows no other list keeps the invariant if what it
\* chooses, what it records and what it awaits do.
LEMMA TabStep ==
    ASSUME SessionInv, NEW done, NEW added, Resume(done, added),
           ChoiceInv', claimTagRequestId' >= claimTagRequestId,
           actionBusy' \in Actions \union {Idle, "activity", "sync"},
           EntriesInv', UNCHANGED <<shown, submission, chain>>,
           \A task \in added : Awaited(task)',
           \A task \in done : task.op # "list",
           \A task \in added : task.op = "list" => task.bounty = selectedBounty',
           selectedBounty' = selectedBounty \/ \E t \in added : IsList(t, selectedBounty')
    PROVE  SessionInv'
<1>1. ChainGrows
    BY DEF ChainGrows
<1>2. TasksInv'
    BY <1>1, TasksResume
<1>3. ListsInv'
    BY ListsGoOn DEF SessionInv
<1>4. ShownInv'
    BY DEF SessionInv, ShownInv
<1>5. ChainInv'
    BY DEF SessionInv, ChainInv, SubmissionUsesItsClaimTag
<1> QED BY <1>2, <1>3, <1>4, <1>5 DEF SessionInv

\* Entries that are not touched stay observations.
LEMMA EntriesUntouched ==
    ASSUME EntriesInv, ChainGrows, UNCHANGED transactions
    PROVE  EntriesInv'
    BY ObservesLasts DEF EntriesInv

\* A patched entry holds what was observed.
LEMMA PatchedEntries ==
    ASSUME EntriesInv, NEW hash, NEW receipt, Observes(hash, receipt),
           transactions' = Patched(hash, receipt), UNCHANGED chain
    PROVE  EntriesInv'
<1>1. /\ transactions \in Seq(Entries)
      /\ \A i \in DOMAIN transactions : Observes(transactions[i].hash, transactions[i].receipt)
      /\ receipt \in Receipts
    BY DEF EntriesInv, Observes
<1>2. \A i \in DOMAIN transactions : transactions[i] \in Entries
    BY <1>1
<1>3. \A entry \in Entries : /\ [entry EXCEPT !.receipt = receipt] \in Entries
                             /\ [entry EXCEPT !.receipt = receipt].hash = entry.hash
                             /\ [entry EXCEPT !.receipt = receipt].receipt = receipt
    BY <1>1 DEF Entries
<1>4. /\ DOMAIN transactions' = DOMAIN transactions
      /\ \A i \in DOMAIN transactions :
            transactions'[i] = IF transactions[i].hash = hash
                               THEN [transactions[i] EXCEPT !.receipt = receipt]
                               ELSE transactions[i]
      /\ transactions' = [i \in DOMAIN transactions |-> transactions'[i]]
    BY DEF Patched
<1>5. \A i \in DOMAIN transactions :
        /\ transactions'[i] \in Entries
        /\ Observes(transactions'[i].hash, transactions'[i].receipt)
    <2> TAKE i \in DOMAIN transactions
    <2>1. CASE transactions[i].hash = hash
        <3>1. transactions'[i] = [transactions[i] EXCEPT !.receipt = receipt]
            BY <1>4, <2>1
        <3>2. /\ transactions'[i] \in Entries
              /\ transactions'[i].hash = hash
              /\ transactions'[i].receipt = receipt
            BY <1>2, <1>3, <2>1, <3>1
        <3> QED BY <3>2
    <2>2. CASE transactions[i].hash # hash
        BY <1>1, <1>2, <1>4, <2>2
    <2> QED BY <2>1, <2>2
<1>6. transactions' \in Seq(Entries)
    BY <1>1, <1>4, <1>5
<1>7. \A h, r : Observes(h, r) => Observes(h, r)'
    BY DEF Observes
<1> QED BY <1>4, <1>5, <1>6, <1>7 DEF EntriesInv

\* The entries when neither they nor the chain change.
LEMMA EntriesStay ==
    ASSUME SessionInv, UNCHANGED <<transactions, chain>>
    PROVE  EntriesInv'
    BY EntriesUntouched DEF SessionInv, ChainGrows

\* A click on a bounty asks for its list.
LEMMA SelectBountyStep ==
    ASSUME SessionInv, NEW b \in Bounties, SelectBounty(b)
    PROVE  SessionInv'
<1> DEFINE added == {LoadSubmissions(b, FALSE)} \union TagRequest(walletAddress, b)
<1>1. /\ Choose(walletAddress, b)
      /\ Resume({}, added)
      /\ UNCHANGED <<shown, actionBusy, transactions, submission, chain>>
    BY DEF SelectBounty, chainVars
<1>2. b \in 0..BountyCount /\ walletAddress \in Wallets
    BY SessionAssumption DEF Bounties, SessionInv, ChoiceInv
<1>3. ChoiceInv' /\ claimTagRequestId' >= claimTagRequestId /\ selectedBounty' = b
    BY <1>1, <1>2, ChooseKeeps DEF SessionInv, Choose
<1>4. EntriesInv'
    BY <1>1, EntriesStay
<1>5. \A task : task = LoadSubmissions(b, FALSE) => Awaited(task)' /\ IsList(task, b)
    BY LoadSubmissionsAwaited DEF SessionInv
<1>6. \A task \in TagRequest(walletAddress, b) : Awaited(task)' /\ task.op # "list"
    BY <1>1, TagRequestAwaited DEF SessionInv
<1>7. \A task \in added : Awaited(task)' /\ (task.op = "list" => task.bounty = b)
    BY <1>5, <1>6 DEF IsList
<1>8. actionBusy' \in Actions \union {Idle, "activity", "sync"}
    BY <1>1 DEF SessionInv, ShownInv
<1>9. \E task \in added : IsList(task, selectedBounty')
    BY <1>3, <1>5
<1> HIDE DEF added
<1> QED BY <1>1, <1>3, <1>4, <1>7, <1>8, <1>9, TabStep

\* What a click that leaves the choice alone keeps.
LEMMA QuietStep ==
    ASSUME SessionInv, NEW done, NEW added, Resume(done, added),
           UNCHANGED <<choiceVars, shown, submission, chain>>,
           actionBusy' \in Actions \union {Idle, "activity", "sync"},
           EntriesInv',
           \A task \in added : Awaited(task)',
           \A task \in done : task.op # "list",
           \A task \in added : task.op = "list" => task.bounty = selectedBounty
    PROVE  SessionInv'
<1>1. ChoiceInv' /\ claimTagRequestId' >= claimTagRequestId
    BY ChoiceUntouched DEF SessionInv
<1>2. selectedBounty' = selectedBounty
    BY DEF choiceVars
<1> QED BY <1>1, <1>2, TabStep

\* Reading again asks for the marketplace or for the selected bounty's list.
LEMMA RereadStep ==
    ASSUME SessionInv, Reread
    PROVE  SessionInv'
<1>1. UNCHANGED <<choiceVars, shown, actionBusy, transactions, submission, chain>>
    BY DEF Reread, chainVars
<1>2. EntriesInv' /\ actionBusy' \in Actions \union {Idle, "activity", "sync"}
    BY <1>1, EntriesStay DEF SessionInv, ShownInv
<1>3. CASE Resume({}, {RefreshSelected(FALSE)})
    <2> DEFINE added == {RefreshSelected(FALSE)}
    <2>1. \A task \in added : Awaited(task)' /\ task.op # "list"
        BY RefreshAwaited
    <2>2. Resume({}, added)
        BY <1>3
    <2> HIDE DEF added
    <2> QED BY <1>1, <1>2, <2>1, <2>2, QuietStep
<1>4. CASE selectedBounty # 0 /\ Resume({}, {LoadSubmissions(selectedBounty, FALSE)})
    <2>1. selectedBounty \in Bounties
        BY <1>4, SessionAssumption DEF SessionInv, ChoiceInv, Bounties
    <2> DEFINE added == {LoadSubmissions(selectedBounty, FALSE)}
    <2>2. \A task \in added : Awaited(task)' /\ task.bounty = selectedBounty
        BY <2>1, LoadSubmissionsAwaited DEF SessionInv, IsList
    <2>3. Resume({}, added)
        BY <1>4
    <2> HIDE DEF added
    <2> QED BY <1>1, <1>2, <2>2, <2>3, QuietStep
<1>5. ASSUME NEW b \in Bounties, Resume({}, {LoadBounties("open", b, FALSE)})
      PROVE  SessionInv'
    <2>1. b \in 0..BountyCount /\ b # 0
        BY SessionAssumption DEF Bounties
    <2> DEFINE added == {LoadBounties("open", b, FALSE)}
    <2>2. \A task \in added : Awaited(task)' /\ task.op # "list"
        BY <2>1, LoadBountiesAwaited
    <2>3. Resume({}, added)
        BY <1>5
    <2> HIDE DEF added
    <2> QED BY <1>1, <1>2, <2>2, <2>3, QuietStep
<1> QED BY <1>3, <1>4, <1>5 DEF Reread

\* Opening the activity and connecting a wallet await one answer.
LEMMA PlainClickStep ==
    ASSUME SessionInv, OpenActivity \/ ConnectWallet
    PROVE  SessionInv'
<1>1. PICK added : /\ added \in {{[op |-> "activity"]}, {[op |-> "connect"]}}
                   /\ Resume({}, added)
    BY DEF OpenActivity, ConnectWallet
<1>2. /\ UNCHANGED <<choiceVars, shown, transactions, submission, chain>>
      /\ actionBusy' \in {actionBusy, "activity"}
    BY DEF OpenActivity, ConnectWallet, chainVars
<1>3. \A task \in added : Awaited(task)' /\ task.op # "list"
    BY <1>1, PlainAwaited
<1>4. EntriesInv' /\ actionBusy' \in Actions \union {Idle, "activity", "sync"}
    BY <1>2, EntriesStay DEF SessionInv, ShownInv
<1> QED BY <1>1, <1>2, <1>3, <1>4, QuietStep

\* A change of account asks for its claim tag.
LEMMA ChangeAccountStep ==
    ASSUME SessionInv, NEW account \in Wallets, ChangeAccount(account)
    PROVE  SessionInv'
<1>1. /\ Choose(account, selectedBounty)
      /\ Resume({}, TagRequest(account, selectedBounty))
      /\ UNCHANGED <<shown, actionBusy, transactions, submission, chain>>
    BY DEF ChangeAccount, chainVars
<1>2. ChoiceInv' /\ claimTagRequestId' >= claimTagRequestId /\ selectedBounty' = selectedBounty
    BY <1>1, ChooseKeeps DEF SessionInv, ChoiceInv, Choose
<1>3. \A task \in TagRequest(account, selectedBounty) : Awaited(task)' /\ task.op # "list"
    BY <1>1, TagRequestAwaited DEF SessionInv
<1>4. EntriesInv' /\ actionBusy' \in Actions \union {Idle, "activity", "sync"}
    BY <1>1, EntriesStay DEF SessionInv, ShownInv
<1> QED BY <1>1, <1>2, <1>3, <1>4, TabStep

\* A click on an action holds what is on the screen: a submission its claim
\* tag, which is that of the selected bounty and the connected account.
LEMMA ClickStep ==
    ASSUME SessionInv, NEW action \in Actions, Click(action)
    PROVE  SessionInv'
<1> DEFINE entity == IF action = "SUBMIT" THEN selectedBounty ELSE shown.bounty
           task == Write(action, entity, walletAddress)
<1>1. /\ selectedBounty # 0 /\ Offered(action)
      /\ actionBusy' = action
      /\ Resume({}, {task})
      /\ UNCHANGED <<choiceVars, shown, transactions, submission, chain>>
    BY DEF Click, chainVars
<1>2. /\ walletAddress \in Wallets /\ selectedBounty \in 0..BountyCount /\ claimTag \in Tags
      /\ claimTag # NoTag =>
            /\ claimTag = [bounty |-> selectedBounty, creator |-> walletAddress]
            /\ claimTag.creator # NoWallet
      /\ shown.bounty \in 0..BountyCount
      /\ shown.submission.stage \in {"PENDING", "APPROVED_PENDING", "CLAIMED"} => shown.bounty # 0
    BY DEF SessionInv, ChoiceInv, ShownInv, ClaimTagIsCurrent
<1>3. action # "SUBMIT" => shown.submission.stage \in {"PENDING", "APPROVED_PENDING", "CLAIMED"}
    BY <1>1 DEF Offered, Actions
<1>4. entity \in Bounties
    BY <1>1, <1>2, <1>3, SessionAssumption DEF Bounties
<1>5. action = "SUBMIT" =>
        /\ claimTag = [bounty |-> entity, creator |-> walletAddress]
        /\ walletAddress # NoWallet
    BY <1>1, <1>2 DEF Offered
<1> HIDE DEF entity
<1>6. /\ task \in Writes /\ task.op = "write"
      /\ task.at \in {"connect", "network"} /\ (walletAddress # NoWallet => task.at = "network")
      /\ task.action = action /\ task.entity = entity
      /\ task.signer = walletAddress /\ task.tag = claimTag
    BY <1>2, <1>4 DEF Write, Writes
<1> HIDE DEF task
<1>7. ASSUME NEW t, t = task PROVE Awaited(t)' /\ t.op # "list"
    <2>1. WriteAwaited(t)'
        BY <1>5, <1>6, <1>7 DEF WriteAwaited
    <2> QED BY <1>6, <1>7, <2>1 DEF Awaited, TagAwaited, BountiesAwaited, ListAwaited, SyncAwaited,
                                    FinalityAwaited
<1>8. EntriesInv' /\ actionBusy' \in Actions \union {Idle, "activity", "sync"}
    BY <1>1, EntriesStay
<1> QED BY <1>1, <1>7, <1>8, QuietStep

\* Syncing looks up every entry.
LEMMA SyncTransactionsStep ==
    ASSUME SessionInv, SyncTransactions
    PROVE  SessionInv'
<1> DEFINE added == {Sync(transactions[i].hash, TRUE) : i \in DOMAIN transactions}
<1>1. /\ actionBusy' = "sync"
      /\ Resume({}, added)
      /\ UNCHANGED <<choiceVars, shown, transactions, submission, chain>>
    BY DEF SyncTransactions, chainVars
<1>2. \A i \in DOMAIN transactions : transactions[i].hash \in DOMAIN chain
    BY DEF SessionInv, EntriesInv, Observes
<1>3. \A task \in added : Awaited(task)' /\ task.op # "list"
    BY <1>1, <1>2, SyncIsAwaited DEF SessionInv
<1>4. EntriesInv'
    BY <1>1, EntriesStay
<1> HIDE DEF added
<1> QED BY <1>1, <1>3, <1>4, QuietStep

\* The page opened again has kept the newest entries, and nothing else.
LEMMA ReloadStep ==
    ASSUME SessionInv, Reload
    PROVE  SessionInv'
<1> DEFINE kept == Min({Len(transactions), MAX_STORED_TRANSACTIONS})
<1>1. /\ walletAddress' = NoWallet /\ selectedBounty' = 0 /\ shown' = NoList
      /\ claimTag' = NoTag /\ claimTagRequestId' = 0 /\ actionBusy' = Idle
      /\ overlapped' = FALSE
      /\ transactions' = SubSeq(transactions, 1, kept)
      /\ tasks' = {[op |-> "mount"]}
      /\ UNCHANGED <<submission, chain>>
    BY DEF Reload, chainVars
<1>2. transactions \in Seq(Entries)
    BY DEF SessionInv, EntriesInv
<1>3. kept \in 0..Len(transactions)
    <2>1. Len(transactions) \in Nat /\ MAX_STORED_TRANSACTIONS \in Nat
        BY <1>2, SessionAssumption
    <2>2. \E x \in {Len(transactions), MAX_STORED_TRANSACTIONS} :
            \A y \in {Len(transactions), MAX_STORED_TRANSACTIONS} : x <= y
        BY <2>1
    <2>3. /\ kept \in {Len(transactions), MAX_STORED_TRANSACTIONS}
          /\ \A y \in {Len(transactions), MAX_STORED_TRANSACTIONS} : kept <= y
        BY <2>2 DEF Min
    <2> QED BY <2>1, <2>3
<1> HIDE DEF kept
<1>4. EntriesInv'
    <2>1. /\ transactions' \in Seq(Entries)
          /\ \A i \in DOMAIN transactions' :
                i \in DOMAIN transactions /\ transactions'[i] = transactions[i]
        BY <1>1, <1>2, <1>3
    <2>2. \A h, r : Observes(h, r) => Observes(h, r)'
        BY <1>1 DEF Observes
    <2> QED BY <2>1, <2>2 DEF SessionInv, EntriesInv
<1>5. ChoiceInv'
    BY <1>1, SessionAssumption DEF ChoiceInv, Wallets, Tags, NoTag, ClaimTagIsCurrent
<1>6. NoStage \in Stages /\ NoStage \notin {"PENDING", "APPROVED_PENDING", "CLAIMED"}
    BY Zenon DEF Stages, NoStage
<1>7. ShownInv'
    BY <1>1, <1>6, SessionAssumption DEF ShownInv, NoList, NoSubmission, Submissions, Wallets
<1>8. ChainInv'
    BY <1>1 DEF SessionInv, ChainInv, SubmissionUsesItsClaimTag
<1>9. \A task \in tasks' : Awaited(task)' /\ task.op # "list"
    BY <1>1, PlainAwaited
<1>10. ListsInv'
    BY <1>1, <1>9 DEF ListsInv, ForeignListNeedsOverlap, NoList
<1> QED BY <1>4, <1>5, <1>7, <1>8, <1>9, <1>10 DEF SessionInv, TasksInv

-----------------------------------------------------------------------------
(***************************************************************************)
(* Answers.                                                                *)
(***************************************************************************)

\* The page that opens looks up its entries and finds its wallet.
LEMMA MountStep ==
    ASSUME SessionInv, NEW task \in tasks, MountArrives(task)
    PROVE  SessionInv'
<1> DEFINE unsettled == {i \in DOMAIN transactions : ~Terminal(Phase(transactions[i]))}
           syncs == {Sync(transactions[i].hash, FALSE) : i \in unsettled}
<1>1. PICK wallet \in Wallets :
        /\ Choose(wallet, selectedBounty)
        /\ Resume({task}, syncs \union TagRequest(wallet, selectedBounty))
    BY DEF MountArrives, Wallets
<1>2. /\ task.op = "mount"
      /\ UNCHANGED <<shown, actionBusy, transactions, submission, chain>>
    BY DEF MountArrives, chainVars
<1>3. ChoiceInv' /\ claimTagRequestId' >= claimTagRequestId /\ selectedBounty' = selectedBounty
    BY <1>1, ChooseKeeps DEF SessionInv, ChoiceInv, Choose
<1>4. \A t \in TagRequest(wallet, selectedBounty) : Awaited(t)' /\ t.op # "list"
    BY <1>1, TagRequestAwaited DEF SessionInv
<1>5. \A i \in DOMAIN transactions : transactions[i].hash \in DOMAIN chain
    BY DEF SessionInv, EntriesInv, Observes
<1>6. \A t \in syncs : Awaited(t)' /\ t.op # "list"
    BY <1>2, <1>5, SyncIsAwaited DEF SessionInv
<1>7. EntriesInv' /\ actionBusy' \in Actions \union {Idle, "activity", "sync"}
    BY <1>2, EntriesStay DEF SessionInv, ShownInv
<1> DEFINE added == syncs \union TagRequest(wallet, selectedBounty)
<1>8. \A t \in added : Awaited(t)' /\ t.op # "list"
    BY <1>4, <1>6
<1>9. Resume({task}, added)
    BY <1>1
<1> HIDE DEF added
<1> QED BY <1>2, <1>3, <1>7, <1>8, <1>9, TabStep

\* A wallet that connects asks for its claim tag.
LEMMA ConnectStep ==
    ASSUME SessionInv, NEW task \in tasks, ConnectArrives(task)
    PROVE  SessionInv'
<1>1. PICK wallet \in Accounts \union {walletAddress} :
        /\ Choose(wallet, selectedBounty)
        /\ Resume({task}, TagRequest(wallet, selectedBounty))
    BY DEF ConnectArrives
<1>2. /\ task.op = "connect"
      /\ UNCHANGED <<shown, actionBusy, transactions, submission, chain>>
    BY DEF ConnectArrives, chainVars
<1>3. wallet \in Wallets
    BY DEF SessionInv, ChoiceInv, Wallets
<1>4. ChoiceInv' /\ claimTagRequestId' >= claimTagRequestId /\ selectedBounty' = selectedBounty
    BY <1>1, <1>3, ChooseKeeps DEF SessionInv, ChoiceInv, Choose
<1>5. \A t \in TagRequest(wallet, selectedBounty) : Awaited(t)' /\ t.op # "list"
    BY <1>1, TagRequestAwaited DEF SessionInv
<1>6. EntriesInv' /\ actionBusy' \in Actions \union {Idle, "activity", "sync"}
    BY <1>2, EntriesStay DEF SessionInv, ShownInv
<1> QED BY <1>1, <1>2, <1>4, <1>5, <1>6, TabStep

\* A claim tag is shown only if it is for the account and the bounty of now.
LEMMA TagStep ==
    ASSUME SessionInv, NEW task \in tasks, TagArrives(task)
    PROVE  SessionInv'
<1>1. /\ task.op = "tag"
      /\ claimTag' \in {claimTag} \union
            (IF task.creator = walletAddress /\ task.bounty = selectedBounty
             THEN {[bounty |-> task.bounty, creator |-> task.creator]} ELSE {})
      /\ Resume({task}, {})
      /\ UNCHANGED <<walletAddress, selectedBounty, claimTagRequestId, shown, actionBusy,
                     transactions, submission, chain>>
    BY DEF TagArrives, chainVars
<1>2. task.creator # NoWallet
    BY <1>1 DEF SessionInv, TasksInv, Awaited, TagAwaited
<1>3. /\ walletAddress \in Wallets /\ selectedBounty \in 0..BountyCount
      /\ claimTagRequestId \in Nat
      /\ claimTag \in Tags /\ (claimTag # NoTag => claimTag.creator # NoWallet)
      /\ claimTag # NoTag => claimTag = [bounty |-> selectedBounty, creator |-> walletAddress]
    BY DEF SessionInv, ChoiceInv, ClaimTagIsCurrent
<1>4. CASE claimTag' = claimTag
    BY <1>1, <1>4, EntriesStay, QuietStep DEF choiceVars, SessionInv, ShownInv
<1>5. CASE /\ task.creator = walletAddress /\ task.bounty = selectedBounty
           /\ claimTag' = [bounty |-> task.bounty, creator |-> task.creator]
    <2>1. ChoiceInv'
        BY <1>1, <1>2, <1>3, <1>5 DEF ChoiceInv, ClaimTagIsCurrent, Tags
    <2>2. EntriesInv' /\ actionBusy' \in Actions \union {Idle, "activity", "sync"}
        BY <1>1, EntriesStay DEF SessionInv, ShownInv
    <2>3. claimTagRequestId' >= claimTagRequestId /\ selectedBounty' = selectedBounty
        BY <1>1, <1>3
    <2> QED BY <1>1, <2>1, <2>2, <2>3, TabStep
<1> QED BY <1>1, <1>4, <1>5

\* The marketplace opens the bounty it was loaded for, and asks for its list.
LEMMA BountiesStep ==
    ASSUME SessionInv, NEW task \in tasks, BountiesArrive(task)
    PROVE  SessionInv'
<1>1. PICK found \in BOOLEAN :
         LET opened == IF task.next = "open" /\ found THEN task.bounty ELSE selectedBounty
             reads  == IF opened = 0 \/ (task.next = "open" /\ ~found) THEN {}
                       ELSE {LoadSubmissions(opened, task.clears)}
         IN  /\ Choose(walletAddress, opened)
             /\ Resume({task}, reads \union TagRequest(walletAddress, opened))
             /\ actionBusy' = IF task.clears /\ reads = {} THEN Idle ELSE actionBusy
    BY DEF BountiesArrive
<1> DEFINE opened == IF task.next = "open" /\ found THEN task.bounty ELSE selectedBounty
           reads  == IF opened = 0 \/ (task.next = "open" /\ ~found) THEN {}
                     ELSE {LoadSubmissions(opened, task.clears)}
           added == reads \union TagRequest(walletAddress, opened)
<1>2. /\ task.op = "bounties"
      /\ UNCHANGED <<shown, transactions, submission, chain>>
    BY DEF BountiesArrive, chainVars
<1>3. /\ Choose(walletAddress, opened)
      /\ Resume({task}, added)
      /\ actionBusy' \in {Idle, actionBusy}
    BY <1>1
<1>4. /\ opened \in 0..BountyCount
      /\ walletAddress \in Wallets
      /\ opened = selectedBounty \/ (opened # 0 /\ task.next = "open" /\ found)
    BY <1>2 DEF SessionInv, ChoiceInv, TasksInv, Awaited, BountiesAwaited
<1>5. \A t \in reads : Awaited(t)' /\ IsList(t, opened)
    <2>1. CASE reads = {}
        BY <2>1
    <2>2. CASE opened # 0 /\ reads = {LoadSubmissions(opened, task.clears)}
        <3>1. opened \in Bounties
            BY <1>4, <2>2, SessionAssumption DEF Bounties
        <3> HIDE DEF opened
        <3> QED BY <2>2, <3>1, LoadSubmissionsAwaited DEF SessionInv
    <2> QED BY <2>1, <2>2
<1>6. opened = selectedBounty \/ \E t \in reads : IsList(t, opened)
    <2>1. opened # selectedBounty => reads = {LoadSubmissions(opened, task.clears)}
        BY <1>4
    <2> HIDE DEF reads
    <2> QED BY <1>5, <2>1
<1> HIDE DEF opened, reads
<1>7. ChoiceInv' /\ claimTagRequestId' >= claimTagRequestId /\ selectedBounty' = opened
    BY <1>3, <1>4, ChooseKeeps DEF SessionInv, Choose
<1>8. \A t \in TagRequest(walletAddress, opened) : Awaited(t)' /\ t.op # "list"
    BY <1>3, TagRequestAwaited DEF SessionInv
<1>9. /\ \A t \in added : Awaited(t)' /\ (t.op = "list" => t.bounty = selectedBounty')
      /\ selectedBounty' = selectedBounty \/ \E t \in added : IsList(t, selectedBounty')
    BY <1>5, <1>6, <1>7, <1>8 DEF IsList
<1>10. EntriesInv' /\ actionBusy' \in Actions \union {Idle, "activity", "sync"}
    BY <1>2, <1>3, EntriesStay DEF SessionInv, ShownInv
<1> HIDE DEF added
<1> QED BY <1>2, <1>3, <1>7, <1>9, <1>10, TabStep

\* A list on the screen is the selected bounty's, unless that of the selected
\* one is still awaited or two of them overlapped.
LEMMA ListStep ==
    ASSUME SessionInv, NEW task \in tasks, ListArrives(task)
    PROVE  SessionInv'
<1>1. PICK added \in {{}, {[op |-> "details", bounty |-> task.bounty]}} :
      /\ task.op = "list"
      /\ shown' \in {NoList} \union
            {[bounty |-> task.bounty, submission |-> s] : s \in {task.seen, submission[task.bounty]}}
      /\ Resume({task}, added)
      /\ actionBusy' \in {Idle, actionBusy}
      /\ UNCHANGED <<choiceVars, transactions, submission, chain>>
    BY DEF ListArrives, chainVars
<1>2. \A t \in added : Awaited(t)' /\ t.op # "list"
    <2>1. \A t \in added : t.op = "details"
        BY <1>1
    <2> QED BY <2>1, PlainAwaited
<1>3. /\ task.bounty \in Bounties /\ task.seen \in Submissions
      /\ submission[task.bounty] \in Submissions
    BY <1>1 DEF SessionInv, TasksInv, Awaited, ListAwaited, ChainInv
<1>4. ChoiceInv' /\ claimTagRequestId' >= claimTagRequestId /\ selectedBounty' = selectedBounty
    BY <1>1, ChoiceUntouched DEF SessionInv, choiceVars
<1>5. EntriesInv' /\ ChainGrows
    BY <1>1, EntriesStay DEF ChainGrows
<1>6. NoStage \in Stages /\ NoStage \notin {"PENDING", "APPROVED_PENDING", "CLAIMED"}
    BY Zenon DEF Stages, NoStage
<1>7. shown'.bounty \in {0, task.bounty}
    BY <1>1 DEF NoList
<1>8. ShownInv'
    <2>1. actionBusy' \in Actions \union {Idle, "activity", "sync"}
        BY <1>1 DEF SessionInv, ShownInv
    <2>2. CASE shown' = NoList
        BY <1>6, <2>1, <2>2, SessionAssumption
           DEF ShownInv, NoList, NoSubmission, Submissions, Wallets
    <2>3. ASSUME NEW s \in Submissions, shown' = [bounty |-> task.bounty, submission |-> s]
          PROVE  ShownInv'
        <3>1. task.bounty \in 0..BountyCount /\ task.bounty # 0
            BY <1>3, SessionAssumption DEF Bounties
        <3> QED BY <2>1, <2>3, <3>1 DEF ShownInv
    <2> QED BY <1>1, <1>3, <2>2, <2>3
<1>9. ChainInv'
    BY <1>1 DEF SessionInv, ChainInv, SubmissionUsesItsClaimTag
<1>10. TasksInv'
    BY <1>1, <1>2, <1>4, <1>5, TasksResume
<1>11. ListsInv'
    <2>1. /\ tasks' = (tasks \ {task}) \union added
          /\ \A t \in added : t.op # "list"
        BY <1>1, <1>2 DEF Resume
    <2>2. /\ overlapped' \in BOOLEAN
          /\ overlapped => overlapped'
          /\ \A t, u \in tasks' :
                t.op = "list" /\ u.op = "list" /\ t.bounty # u.bounty => overlapped'
        BY <1>1, <1>2, ListsOverlap DEF SessionInv
    <2>3. ASSUME NEW t \in tasks, t # task, t.op = "list", t.bounty # selectedBounty
          PROVE  overlapped' \/ \E u \in tasks' : IsList(u, selectedBounty)
        <3>1. CASE task.bounty = selectedBounty
            BY <1>1, <2>2, <2>3, <3>1 DEF SessionInv, ListsInv
        <3>2. CASE task.bounty # selectedBounty
            BY <2>1, <2>2, <2>3, <3>2 DEF SessionInv, ListsInv, IsList
        <3> QED BY <3>1, <3>2
    <2>4. task.bounty # selectedBounty =>
            overlapped' \/ \E u \in tasks' : IsList(u, selectedBounty)
        BY <1>1, <2>1, <2>2 DEF SessionInv, ListsInv, IsList
    <2>5. ForeignListNeedsOverlap'
        BY <1>4, <1>7, <2>4 DEF ForeignListNeedsOverlap, IsList
    <2> QED BY <1>4, <2>1, <2>2, <2>3, <2>5 DEF ListsInv, IsList
<1> QED BY <1>4, <1>5, <1>8, <1>9, <1>10, <1>11 DEF SessionInv

\* The activity's answer, the details of a list and a write that ends without
\* a receipt await nothing.
LEMMA EndStep ==
    ASSUME SessionInv, NEW task \in tasks,
           \/ ActivityArrives(task) \/ DetailsArrive(task)
           \/ WriteStops(task) \/ WriteTimesOut(task)
    PROVE  SessionInv'
<1>1. /\ task.op \in {"activity", "details", "write"}
      /\ actionBusy' = Idle
      /\ Resume({task}, {})
      /\ UNCHANGED <<choiceVars, shown, transactions, submission, chain>>
    BY DEF ActivityArrives, DetailsArrive, WriteStops, WriteTimesOut, chainVars
<1>2. EntriesInv'
    BY <1>1, EntriesStay
<1> QED BY <1>1, <1>2, QuietStep

\* A lookup patches its entry with what it saw, or with what there is now.
LEMMA SyncStep ==
    ASSUME SessionInv, NEW task \in tasks, SyncArrives(task)
    PROVE  SessionInv'
<1>1. /\ task.op = "sync"
      /\ transactions' \in {transactions, Patched(task.hash, task.seen),
                            Patched(task.hash, chain[task.hash].receipt)}
      /\ actionBusy' \in {Idle, actionBusy}
      /\ UNCHANGED <<choiceVars, shown, submission, chain>>
    BY DEF SyncArrives, chainVars
<1>2. PICK added : added \in {{RefreshSelected(FALSE)}, {}} /\ Resume({task}, added)
    BY DEF SyncArrives
<1>3. Observes(task.hash, task.seen) /\ Observes(task.hash, chain[task.hash].receipt)
    BY <1>1, ChainIsObserved DEF SessionInv, TasksInv, Awaited, SyncAwaited, Observes
<1>4. EntriesInv'
    BY <1>1, <1>3, EntriesStay, PatchedEntries DEF SessionInv
<1>5. \A t \in added : Awaited(t)' /\ t.op # "list"
    BY <1>2, RefreshAwaited
<1>6. actionBusy' \in Actions \union {Idle, "activity", "sync"}
    BY <1>1 DEF SessionInv, ShownInv
<1> QED BY <1>1, <1>2, <1>4, <1>5, <1>6, QuietStep

-----------------------------------------------------------------------------
(***************************************************************************)
(* runWrite and the chain.                                                 *)
(***************************************************************************)

\* A write that goes on is awaited as long as what it holds is in order.
LEMMA WriteGoesOn ==
    ASSUME NEW task, task.op = "write", WriteAwaited(task)'
    PROVE  Awaited(task)' /\ task.op # "list"
    BY DEF Awaited, TagAwaited, BountiesAwaited, ListAwaited, SyncAwaited, FinalityAwaited

\* Whoever connects for a write is its signer; no submission needs that.
LEMMA WriteConnectsStep ==
    ASSUME SessionInv, NEW task \in tasks, WriteConnects(task)
    PROVE  SessionInv'
<1>1. PICK wallet \in Accounts :
        /\ Choose(wallet, selectedBounty)
        /\ Resume({task}, {[task EXCEPT !.at = "network", !.signer = wallet]}
                             \union TagRequest(wallet, selectedBounty))
    BY DEF WriteConnects
<1>2. /\ task.op = "write" /\ task.at = "connect"
      /\ UNCHANGED <<shown, actionBusy, transactions, submission, chain>>
    BY DEF WriteConnects, chainVars
<1>3. task \in Writes /\ task.action # "SUBMIT"
    BY <1>2 DEF SessionInv, TasksInv, Awaited, WriteAwaited
<1>4. wallet \in Wallets
    BY DEF Wallets
<1>5. ASSUME NEW t, t = [task EXCEPT !.at = "network", !.signer = wallet]
      PROVE  Awaited(t)' /\ t.op # "list"
    <2>1. /\ t \in Writes /\ t.op = "write" /\ t.at = "network"
          /\ t.action = task.action
        BY <1>3, <1>4, <1>5 DEF Writes
    <2>2. WriteAwaited(t)'
        BY <1>3, <2>1 DEF WriteAwaited
    <2> QED BY <2>1, <2>2, WriteGoesOn
<1>6. ChoiceInv' /\ claimTagRequestId' >= claimTagRequestId /\ selectedBounty' = selectedBounty
    BY <1>1, <1>4, ChooseKeeps DEF SessionInv, ChoiceInv, Choose
<1>7. \A t \in TagRequest(wallet, selectedBounty) : Awaited(t)' /\ t.op # "list"
    BY <1>1, TagRequestAwaited DEF SessionInv
<1>8. EntriesInv' /\ actionBusy' \in Actions \union {Idle, "activity", "sync"}
    BY <1>2, EntriesStay DEF SessionInv, ShownInv
<1> DEFINE added == {[task EXCEPT !.at = "network", !.signer = wallet]}
                        \union TagRequest(wallet, selectedBounty)
<1>9. Resume({task}, added) /\ \A t \in added : Awaited(t)' /\ t.op # "list"
    BY <1>1, <1>5, <1>7
<1> HIDE DEF added
<1> QED BY <1>2, <1>6, <1>8, <1>9, TabStep

\* The network's answer changes nothing the write holds.
LEMMA WriteVerifiedStep ==
    ASSUME SessionInv, NEW task \in tasks, WriteVerified(task)
    PROVE  SessionInv'
<1>1. /\ task.op = "write" /\ task.at = "network"
      /\ Resume({task}, {[task EXCEPT !.at = "sign"]})
      /\ UNCHANGED <<choiceVars, shown, actionBusy, transactions, submission, chain>>
    BY DEF WriteVerified, chainVars
<1>2. /\ task \in Writes
      /\ task.action = "SUBMIT" => task.tag = [bounty |-> task.entity, creator |-> task.signer]
    BY <1>1 DEF SessionInv, TasksInv, Awaited, WriteAwaited
<1> DEFINE added == {[task EXCEPT !.at = "sign"]}
<1>3. \A t \in added : Awaited(t)' /\ t.op # "list"
    <2> TAKE t \in added
    <2>1. /\ t \in Writes /\ t.op = "write" /\ t.at = "sign" /\ t.action = task.action
          /\ t.entity = task.entity /\ t.signer = task.signer /\ t.tag = task.tag
        BY <1>2 DEF Writes
    <2>2. WriteAwaited(t)'
        BY <1>2, <2>1 DEF WriteAwaited
    <2> QED BY <2>1, <2>2, WriteGoesOn
<1>4. EntriesInv' /\ actionBusy' \in Actions \union {Idle, "activity", "sync"}
    BY <1>1, EntriesStay DEF SessionInv, ShownInv
<1>5. Resume({task}, added)
    BY <1>1
<1> HIDE DEF added
<1> QED BY <1>1, <1>3, <1>4, <1>5, QuietStep

\* The transaction that is sent is the one that was clicked, and the entry and
\* the write have its hash.
LEMMA WriteSignedStep ==
    ASSUME SessionInv, NEW task \in tasks, WriteSigned(task)
    PROVE  SessionInv'
<1> DEFINE hash  == Len(chain) + 1
           call  == [action |-> task.action, entity |-> task.entity, signer |-> task.signer,
                     tag |-> task.tag, receipt |-> Pending]
           entry == [hash |-> hash, action |-> task.action, entity |-> task.entity,
                     receipt |-> Unread]
           added == {[task EXCEPT !.at = "receipt", !.hash = hash]}
<1>1. /\ task.op = "write" /\ task.at = "sign"
      /\ chain' = Append(chain, call)
      /\ transactions' = <<entry>> \o transactions
      /\ Resume({task}, added)
      /\ UNCHANGED <<choiceVars, shown, actionBusy, submission>>
    BY DEF WriteSigned
<1>2. /\ task \in Writes
      /\ task.action = "SUBMIT" => task.tag = [bounty |-> task.entity, creator |-> task.signer]
      /\ chain \in Seq(Calls)
      /\ transactions \in Seq(Entries)
    BY <1>1 DEF SessionInv, TasksInv, Awaited, WriteAwaited, ChainInv, EntriesInv
<1>3. /\ Pending \in Receipts
      /\ Unread \in Receipts
    BY DEF Pending, Unread, Receipt, Receipts
<1>4. /\ Unread.status = Absent
      /\ Absent # "FINALIZED"
    <2>1. Unread.status = Absent
        BY DEF Unread, Receipt
    <2>2. Absent # "FINALIZED"
        BY Zenon DEF Absent
    <2> QED BY <2>1, <2>2
<1>5. call \in Calls /\ entry \in Entries /\ hash \in Nat
    BY <1>2, <1>3 DEF Writes, Calls, Entries
<1>6. /\ chain' \in Seq(Calls)
      /\ DOMAIN chain' = DOMAIN chain \union {hash}
      /\ \A h \in DOMAIN chain : chain'[h] = chain[h]
      /\ chain'[hash] = call
    <2> HIDE DEF call
    <2> QED BY <1>1, <1>2, <1>5
<1>7. ChainGrows
    BY <1>6 DEF ChainGrows
<1>8. call.action = "SUBMIT" => call.tag = [bounty |-> call.entity, creator |-> call.signer]
    BY <1>2
<1>9. ChainInv'
    <2> HIDE DEF call, hash
    <2> QED BY <1>1, <1>6, <1>8 DEF SessionInv, ChainInv, SubmissionUsesItsClaimTag
<1>10. entry.hash = hash /\ entry.receipt = Unread
    OBVIOUS
<1>11. EntriesInv'
    <2> HIDE DEF entry, hash
    <2>1. /\ transactions' \in Seq(Entries)
          /\ Len(transactions') = Len(transactions) + 1
          /\ transactions'[1] = entry
          /\ \A i \in 1..Len(transactions) : transactions'[i + 1] = transactions[i]
        BY <1>1, <1>2, <1>5
    <2>2. \A k \in 1..Len(transactions) :
            Observes(transactions[k].hash, transactions[k].receipt)
        BY <1>2 DEF SessionInv, EntriesInv
    <2>3. ASSUME NEW i \in DOMAIN transactions', NEW h, NEW r,
                 h = transactions'[i].hash, r = transactions'[i].receipt
          PROVE  Observes(h, r)'
        <3>1. CASE i = 1
            <4>1. h = hash /\ r = Unread
                BY <1>10, <2>1, <2>3, <3>1
            <4> QED BY <1>3, <1>4, <1>6, <4>1 DEF Observes
        <3>2. CASE i # 1
            <4>1. i - 1 \in 1..Len(transactions) /\ transactions'[i] = transactions[i - 1]
                BY <1>2, <2>1, <2>3, <3>2
            <4>2. Observes(h, r)
                BY <2>2, <2>3, <4>1
            <4> QED BY <1>7, <4>2, ObservesLasts
        <3> QED BY <3>1, <3>2
    <2>4. \A i \in DOMAIN transactions' :
            Observes(transactions[i].hash, transactions[i].receipt)'
        BY <2>3
    <2> QED BY <2>1, <2>4 DEF EntriesInv
<1>12. \A t \in added : Awaited(t)' /\ t.op # "list"
    <2> TAKE t \in added
    <2>1. /\ t \in Writes /\ t.op = "write" /\ t.at = "receipt" /\ t.action = task.action
          /\ t.entity = task.entity /\ t.signer = task.signer /\ t.tag = task.tag
          /\ t.hash = hash
        BY <1>2, <1>5 DEF Writes
    <2> HIDE DEF hash
    <2>2. WriteAwaited(t)'
        BY <1>2, <1>6, <2>1 DEF WriteAwaited
    <2> QED BY <2>1, <2>2, WriteGoesOn
<1> HIDE DEF added, call, entry, hash
<1>13. ChoiceInv' /\ claimTagRequestId' >= claimTagRequestId /\ selectedBounty' = selectedBounty
    BY <1>1, ChoiceUntouched DEF SessionInv, choiceVars
<1>14. TasksInv'
    BY <1>1, <1>7, <1>12, <1>13, TasksResume
<1>15. ListsInv'
    BY <1>1, <1>12, <1>13, ListsGoOn DEF SessionInv
<1>16. ShownInv'
    BY <1>1 DEF SessionInv, ShownInv
<1> QED BY <1>9, <1>11, <1>13, <1>14, <1>15, <1>16 DEF SessionInv

\* The receipt that ends the wait is the transaction's own.
LEMMA WriteAnsweredStep ==
    ASSUME SessionInv, NEW task \in tasks, WriteAnswered(task)
    PROVE  SessionInv'
<1>1. /\ task.op = "write" /\ task.at = "receipt"
      /\ transactions' = Patched(task.hash, chain[task.hash].receipt)
      /\ actionBusy' \in {Idle, actionBusy}
      /\ UNCHANGED <<choiceVars, shown, submission, chain>>
    BY DEF WriteAnswered, chainVars
<1>2. PICK added : /\ added \subseteq {RefreshSelected(TRUE), [op |-> "finality", hash |-> task.hash]}
                   /\ Resume({task}, added)
    BY DEF WriteAnswered
<1>3. task.hash \in DOMAIN chain
    BY <1>1 DEF SessionInv, TasksInv, Awaited, WriteAwaited
<1>4. EntriesInv'
    BY <1>1, <1>3, ChainIsObserved, PatchedEntries DEF SessionInv
<1>5. ASSUME NEW t, t = [op |-> "finality", hash |-> task.hash]
      PROVE  Awaited(t)' /\ t.op # "list"
    <2>1. t.op = "finality" /\ t.hash \in DOMAIN chain'
        BY <1>1, <1>3, <1>5
    <2> QED BY <2>1 DEF Awaited, TagAwaited, BountiesAwaited, ListAwaited, SyncAwaited,
                        WriteAwaited, FinalityAwaited
<1>6. \A t \in added : Awaited(t)' /\ t.op # "list"
    BY <1>2, <1>5, RefreshAwaited
<1>7. actionBusy' \in Actions \union {Idle, "activity", "sync"}
    BY <1>1 DEF SessionInv, ShownInv
<1> QED BY <1>1, <1>2, <1>4, <1>6, <1>7, QuietStep

\* So is the one that is waited for until it is final.
LEMMA FinalityStep ==
    ASSUME SessionInv, NEW task \in tasks, FinalityArrives(task)
    PROVE  SessionInv'
<1>1. /\ task.op = "finality"
      /\ transactions' \in {transactions, Patched(task.hash, chain[task.hash].receipt)}
      /\ UNCHANGED <<choiceVars, shown, actionBusy, submission, chain>>
    BY DEF FinalityArrives, chainVars
<1>2. PICK added : added \subseteq {RefreshSelected(FALSE)} /\ Resume({task}, added)
    BY DEF FinalityArrives
<1>3. task.hash \in DOMAIN chain
    BY <1>1 DEF SessionInv, TasksInv, Awaited, FinalityAwaited
<1>4. EntriesInv'
    BY <1>1, <1>3, ChainIsObserved, PatchedEntries, EntriesStay DEF SessionInv
<1>5. \A t \in added : Awaited(t)' /\ t.op # "list"
    BY <1>2, RefreshAwaited
<1>6. actionBusy' \in Actions \union {Idle, "activity", "sync"}
    BY <1>1 DEF SessionInv, ShownInv
<1> QED BY <1>1, <1>2, <1>4, <1>5, <1>6, QuietStep

\* What the chain does by itself keeps every observation.
LEMMA ChainStep ==
    ASSUME SessionInv, ChainGrows, ChainInv', UNCHANGED <<tabVars, tasks>>
    PROVE  SessionInv'
<1>1. ChoiceInv' /\ ShownInv'
    BY DEF SessionInv, ChoiceInv, ShownInv, ClaimTagIsCurrent, tabVars
<1>2. EntriesInv'
    BY EntriesUntouched DEF SessionInv, tabVars
<1>3. TasksInv'
    <2>1. claimTagRequestId \in Nat /\ claimTagRequestId' = claimTagRequestId
        BY DEF SessionInv, ChoiceInv, tabVars
    <2> QED BY <2>1, AwaitedLasts DEF SessionInv, TasksInv
<1>4. ListsInv'
    BY DEF SessionInv, ListsInv, ForeignListNeedsOverlap, tabVars, IsList
<1> QED BY <1>1, <1>2, <1>3, <1>4 DEF SessionInv

\* A call's receipt changes until it is final, and nothing else of it does.
LEMMA ReceiptChanges ==
    ASSUME SessionInv, NEW hash \in DOMAIN chain, NEW receipt \in Receipts,
           chain[hash].receipt.status # "FINALIZED",
           chain' = [chain EXCEPT ![hash].receipt = receipt],
           submission' \in [Bounties -> Submissions]
    PROVE  ChainGrows /\ ChainInv'
<1>1. chain \in Seq(Calls) /\ chain[hash] \in Calls
    BY DEF SessionInv, ChainInv
<1> DEFINE call == [chain[hash] EXCEPT !.receipt = receipt]
<1>2. /\ call \in Calls
      /\ call.action = chain[hash].action /\ call.entity = chain[hash].entity
      /\ call.signer = chain[hash].signer /\ call.tag = chain[hash].tag
    BY <1>1 DEF Calls
<1>3. chain' = [chain EXCEPT ![hash] = call]
    OBVIOUS
<1> HIDE DEF call
<1>4. /\ chain' \in Seq(Calls)
      /\ DOMAIN chain' = DOMAIN chain
      /\ \A h \in DOMAIN chain : chain'[h] = IF h = hash THEN call ELSE chain[h]
    BY <1>1, <1>2, <1>3
<1>5. ChainGrows
    BY <1>4 DEF ChainGrows
<1>6. SubmissionUsesItsClaimTag'
    BY <1>2, <1>4 DEF SessionInv, ChainInv, SubmissionUsesItsClaimTag
<1> QED BY <1>4, <1>5, <1>6 DEF ChainInv

\* A call that is executed leaves a submission with a stage.
LEMMA ExecuteStep ==
    ASSUME SessionInv, NEW hash \in DOMAIN chain, Execute(hash)
    PROVE  SessionInv'
<1> DEFINE call == chain[hash]
           receipt == Receipt("ACCEPTED", "MAJORITY_AGREE",
                              IF Accepts(call) THEN "FINISHED_WITH_RETURN"
                              ELSE "FINISHED_WITH_ERROR")
<1>1. /\ call.receipt = Pending
      /\ chain' = [chain EXCEPT ![hash].receipt = receipt]
      /\ submission' = IF Accepts(call) THEN [submission EXCEPT ![call.entity] = Effect(call)]
                       ELSE submission
      /\ UNCHANGED <<tabVars, tasks>>
    BY DEF Execute
<1>2. receipt \in Receipts
    BY DEF Receipt, Receipts
<1>3. call.receipt.status # "FINALIZED"
    BY <1>1 DEF Pending, Receipt
<1>4. call \in Calls /\ submission \in [Bounties -> Submissions]
    BY DEF SessionInv, ChainInv
<1> HIDE DEF receipt
<1>5. Effect(call) \in Submissions
    <2>1. /\ submission[call.entity] \in Submissions
          /\ call.signer \in Wallets
          /\ call.action \in Actions
          /\ {"PENDING", "APPROVED_PENDING", "CLAIMED", "WITHDRAWN"} \subseteq Stages
        BY <1>4 DEF Calls, Stages
    <2> HIDE DEF call
    <2> QED BY <2>1 DEF Effect, Submissions, Actions
<1>6. submission' \in [Bounties -> Submissions]
    BY <1>1, <1>4, <1>5
<1>7. ChainGrows /\ ChainInv'
    BY <1>1, <1>2, <1>3, <1>6, ReceiptChanges
<1> QED BY <1>1, <1>7, ChainStep

\* So does a round without a majority.
LEMMA DisagreeStep ==
    ASSUME SessionInv, NEW hash \in DOMAIN chain, Disagree(hash)
    PROVE  SessionInv'
<1>1. /\ chain[hash].receipt = Pending
      /\ chain' = [chain EXCEPT ![hash].receipt = Undetermined]
      /\ UNCHANGED <<tabVars, tasks, submission>>
    BY DEF Disagree
<1>2. Undetermined \in Receipts
    BY DEF Undetermined, Receipt, Receipts
<1>3. chain[hash].receipt.status # "FINALIZED"
    BY <1>1 DEF Pending, Receipt
<1>4. submission' \in [Bounties -> Submissions]
    BY <1>1 DEF SessionInv, ChainInv
<1>5. ChainGrows /\ ChainInv'
    BY <1>1, <1>2, <1>3, <1>4, ReceiptChanges
<1> QED BY <1>1, <1>5, ChainStep

\* A decided transaction becomes final once.
LEMMA FinalizeStep ==
    ASSUME SessionInv, NEW hash \in DOMAIN chain, Finalize(hash)
    PROVE  SessionInv'
<1> DEFINE receipt == [chain[hash].receipt EXCEPT !.status = "FINALIZED"]
<1>1. /\ chain[hash].receipt.status \in {"ACCEPTED", "UNDETERMINED"}
      /\ chain' = [chain EXCEPT ![hash].receipt.status = "FINALIZED"]
      /\ UNCHANGED <<tabVars, tasks, submission>>
    BY DEF Finalize
<1>2. chain[hash] \in Calls
    BY DEF SessionInv, ChainInv
<1>3. receipt \in Receipts
    BY <1>2 DEF Calls, Receipts
<1>4. chain' = [chain EXCEPT ![hash].receipt = receipt]
    BY <1>1
<1>5. submission' \in [Bounties -> Submissions]
    BY <1>1 DEF SessionInv, ChainInv
<1> HIDE DEF receipt
<1>6. ChainGrows /\ ChainInv'
    BY <1>1, <1>3, <1>4, <1>5, ReceiptChanges
<1> QED BY <1>1, <1>6, ChainStep

-----------------------------------------------------------------------------
\* A page just opened is in order.
LEMMA SessionInvInit == Init => SessionInv
<1> SUFFICES ASSUME Init PROVE SessionInv
    OBVIOUS
<1>1. PICK creator \in [Bounties -> Accounts] :
        submission = [b \in Bounties |->
            IF InitialStages[b] = NoStage THEN NoSubmission
            ELSE [creator |-> creator[b], stage |-> InitialStages[b]]]
    BY DEF Init
<1>2. NoStage \in Stages /\ NoStage \notin {"PENDING", "APPROVED_PENDING", "CLAIMED"}
    BY Zenon DEF Stages, NoStage
<1>3. NoSubmission \in Submissions
    BY <1>2 DEF NoSubmission, Submissions, Wallets
<1>4. submission \in [Bounties -> Submissions]
    BY <1>1, <1>3, SessionAssumption DEF Submissions, Wallets
<1>5. /\ walletAddress = NoWallet /\ selectedBounty = 0 /\ shown = NoList
      /\ claimTag = NoTag /\ claimTagRequestId = 0 /\ actionBusy = Idle /\ transactions = <<>>
      /\ tasks = {[op |-> "mount"]} /\ overlapped = FALSE /\ chain = <<>>
    BY DEF Init
<1>6. ChoiceInv
    BY <1>5, SessionAssumption DEF ChoiceInv, Wallets, Tags, NoTag, ClaimTagIsCurrent
<1>7. ShownInv
    BY <1>2, <1>3, <1>5, SessionAssumption DEF ShownInv, NoList, NoSubmission
<1>8. EntriesInv /\ ChainInv
    BY <1>4, <1>5 DEF EntriesInv, ChainInv, SubmissionUsesItsClaimTag
<1>9. \A task \in tasks : task.op = "mount"
    BY <1>5
<1>10. TasksInv
    BY <1>9 DEF TasksInv, Awaited, TagAwaited, BountiesAwaited, ListAwaited, SyncAwaited,
                WriteAwaited, FinalityAwaited
<1>11. ListsInv
    BY <1>5, <1>9 DEF ListsInv, ForeignListNeedsOverlap, NoList
<1> QED BY <1>6, <1>7, <1>8, <1>10, <1>11 DEF SessionInv

\* Every step of the tab and of the chain keeps the invariant.
LEMMA SessionInvStep == SessionInv /\ [Next]_vars => SessionInv'
<1> SUFFICES ASSUME SessionInv, [Next]_vars PROVE SessionInv'
    OBVIOUS
<1>1. CASE \E b \in Bounties : SelectBounty(b)
    BY <1>1, SelectBountyStep
<1>2. CASE Reread \/ OpenActivity \/ ConnectWallet \/ SyncTransactions \/ Reload
    BY <1>2, RereadStep, PlainClickStep, SyncTransactionsStep, ReloadStep
<1>3. CASE \E account \in Accounts \union {NoWallet} : ChangeAccount(account)
    BY <1>3, ChangeAccountStep DEF Wallets
<1>4. CASE \E action \in Actions : Click(action)
    BY <1>4, ClickStep
<1>5. ASSUME NEW task \in tasks, Answer(task) PROVE SessionInv'
    BY <1>5, MountStep, ConnectStep, TagStep, BountiesStep, ListStep, EndStep, SyncStep,
       WriteConnectsStep, WriteVerifiedStep, WriteSignedStep, WriteAnsweredStep, FinalityStep
       DEF Answer
<1>6. ASSUME NEW hash \in DOMAIN chain, Execute(hash) \/ Disagree(hash) \/ Finalize(hash)
      PROVE  SessionInv'
    BY <1>6, ExecuteStep, DisagreeStep, FinalizeStep
<1>7. CASE UNCHANGED vars
    <2>1. UNCHANGED <<tabVars, tasks, submission, chain>>
        BY <1>7 DEF vars
    <2>2. ChainGrows /\ ChainInv'
        BY <2>1 DEF ChainGrows, SessionInv, ChainInv, SubmissionUsesItsClaimTag
    <2> QED BY <2>1, <2>2, ChainStep
<1> QED BY <1>1, <1>2, <1>3, <1>4, <1>5, <1>6, <1>7 DEF Next

\* So it holds throughout.
LEMMA SessionInvariant == Spec => []SessionInv
    BY SessionInvInit, SessionInvStep, PTL DEF Spec

\* The claim tag on the screen is always the selected bounty's and the connected
\* account's, in whatever order tags are answered and choices change
\* (loadClaimTag).
THEOREM ClaimTagStaysCurrent == Spec => []ClaimTagIsCurrent
<1>1. SessionInv => ClaimTagIsCurrent
    BY DEF SessionInv, ChoiceInv
<1> QED BY <1>1, SessionInvariant, PTL

\* Every submission on the chain was sent by the account, and to the bounty,
\* whose claim tag its page was asked to carry (submitEvidence, runWrite).
THEOREM SubmissionsUseTheirClaimTag == Spec => []SubmissionUsesItsClaimTag
<1>1. SessionInv => SubmissionUsesItsClaimTag
    BY DEF SessionInv, ChainInv
<1> QED BY <1>1, SessionInvariant, PTL

\* No entry ever says FINALIZED of a transaction that is not final, agreed on
\* and returned, whichever wait or lookup patched it last (runWrite,
\* waitForFinalization, syncTransaction).
THEOREM FinalizedEntriesAreVerified == Spec => []FinalizedIsVerified
<1>1. SessionInv => FinalizedIsVerified
    <2> SUFFICES ASSUME SessionInv, NEW i \in DOMAIN transactions,
                        Phase(transactions[i]) = "FINALIZED"
                 PROVE  LET receipt == chain[transactions[i].hash].receipt
                        IN  /\ receipt.status = "FINALIZED"
                            /\ receipt.result = "MAJORITY_AGREE"
                            /\ Returned(receipt)
        BY DEF FinalizedIsVerified
    <2> DEFINE seen == transactions[i].receipt
    <2>1. ClassifyTransaction(seen) = "FINALIZED"
        BY DEF Phase
    <2> HIDE DEF seen
    <2>2. seen.status = "FINALIZED" /\ seen.result = "MAJORITY_AGREE" /\ Returned(seen)
        BY <2>1 DEF ClassifyTransaction
    <2>3. seen = chain[transactions[i].hash].receipt
        BY <2>2 DEF SessionInv, EntriesInv, Observes, seen
    <2> QED BY <2>2, <2>3
<1> QED BY <1>1, SessionInvariant, PTL

\* Another bounty's list stays on the screen only after two lists overlapped
\* (loadSubmissions).
THEOREM ForeignListsOverlapped == Spec => []ForeignListNeedsOverlap
<1>1. SessionInv => ForeignListNeedsOverlap
    BY DEF SessionInv, ListsInv
<1> QED BY <1>1, SessionInvariant, PTL

\* A classifier has no answer but the five phases.
LEMMA PhaseType ==
    ASSUME NEW receipt
    PROVE  ClassifyTransaction(receipt) \in Phases
<1> DEFINE succeeded == receipt.result = "MAJORITY_AGREE" /\ Returned(receipt)
           failed    == RecordsFailure(receipt, ConsensusFailures)
<1>1. CASE failed \/ (receipt.status = "FINALIZED" /\ ~succeeded)
    BY <1>1 DEF ClassifyTransaction, Phases
<1>2. CASE ~failed /\ succeeded /\ receipt.status \in {"ACCEPTED", "FINALIZED"}
    BY <1>2 DEF ClassifyTransaction, Phases
<1>3. CASE /\ ~(failed \/ (receipt.status = "FINALIZED" /\ ~succeeded))
           /\ ~(~failed /\ succeeded /\ receipt.status \in {"ACCEPTED", "FINALIZED"})
    BY <1>3 DEF ClassifyTransaction, Phases
<1> QED BY <1>1, <1>2, <1>3

\* Every variable of the tab keeps its type, and every entry is of a transaction
\* that was sent.
THEOREM SessionTypeCorrect == Spec => []TypeOK
<1>1. SessionInv => TypeOK
    <2> SUFFICES ASSUME SessionInv PROVE TypeOK
        OBVIOUS
    <2>1. \A i \in DOMAIN transactions :
            transactions[i].hash \in DOMAIN chain /\ Phase(transactions[i]) \in Phases
        BY PhaseType DEF SessionInv, EntriesInv, Observes, Phase
    <2>2. \A task \in tasks : task.op = "tag" => task.id \in 1..claimTagRequestId
        BY DEF SessionInv, TasksInv, Awaited, TagAwaited
    <2>3. \A b \in Bounties : submission[b].stage \in Stages
        BY DEF SessionInv, ChainInv, Submissions
    <2>4. shown.bounty \in 0..BountyCount /\ shown.submission.stage \in Stages
        BY DEF SessionInv, ShownInv, Submissions
    <2> QED BY <2>1, <2>2, <2>3, <2>4
            DEF TypeOK, SessionInv, ChoiceInv, ShownInv, ListsInv, Wallets
<1> QED BY <1>1, SessionInvariant, PTL
=============================================================================
