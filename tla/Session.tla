------------------------------ MODULE Session ------------------------------
(***************************************************************************)
(* One browser tab of the interface (frontend/src/App.vue): what is on the *)
(* screen while the user clicks, the wallet changes account, reads are     *)
(* answered in any order and transactions make their way to finality.      *)
(*                                                                         *)
(* An asynchronous function runs from one await to the next without        *)
(* interruption.  Each stretch is an action; what awaits its answer is a   *)
(* record in tasks, with the locals it will use when it resumes.  An       *)
(* answer is what the chain held at some time since the request: when it   *)
(* was made, or now.                                                       *)
(*                                                                         *)
(* A bounty has at most one submission here, which stands for the list.    *)
(* Of the thirteen writes, four carry the path of a reward: SUBMIT,        *)
(* EVALUATE, CLAIM and WITHDRAW_REWARD; the others pass through the same   *)
(* runWrite and end in the same refreshSelected.  Left out: forms, notices *)
(* and error texts, the challenge modal, the marketplace itself (any       *)
(* bounty may be selected), and the details keyed by their own ids         *)
(* (challenges, verdicts, escrow), which no list can mix up.               *)
(***************************************************************************)
EXTENDS ReceiptClassifier, Naturals, Sequences, FiniteSetsExt

CONSTANTS
    Accounts,                 \* accounts of the injected wallet
    BountyCount,              \* bounties 1 .. BountyCount
    InitialStages,            \* what each bounty holds when the page opens
    MAX_STORED_TRANSACTIONS,  \* entries kept in localStorage
    \* The next two bound the model.
    MaxEvents,                \* what the user and the wallet do
    MaxTransactions

VARIABLES
    \* the tab
    walletAddress,            \* NoWallet when none is connected
    selectedBounty,           \* 0 when none is
    shown,                    \* the submissions on the screen
    claimTag, claimTagRequestId,
    actionBusy,
    transactions,             \* entries, newest first
    tasks,                    \* functions that await an answer
    overlapped,               \* two bounties' lists were awaited at once
    \* the chain
    submission,               \* submission[b]: the one of bounty b
    chain,                    \* the transactions sent, in order
    events

tabVars == <<walletAddress, selectedBounty, shown, claimTag, claimTagRequestId,
             actionBusy, transactions, overlapped>>
vars == <<tabVars, tasks, submission, chain, events>>

Bounties == 1..BountyCount
Actions == {"SUBMIT", "EVALUATE", "CLAIM", "WITHDRAW_REWARD"}

\* The empty strings of the interface: no wallet, and no action under way.
NoWallet == ""
Idle == ""

\* NoStage is a bounty without a submission; CLAIMED is a reward_status of
\* PENDING.
NoStage == ""
Stages == {NoStage, "PENDING", "APPROVED_PENDING", "CLAIMED", "WITHDRAWN"}
NoSubmission == [creator |-> NoWallet, stage |-> NoStage]
NoList == [bounty |-> 0, submission |-> NoSubmission]
NoTag == [bounty |-> 0, creator |-> NoWallet]

\* The code keeps 30 entries; a bounty may hold anything when the page opens.
ASSUME SessionAssumption ==
    /\ BountyCount \in Nat
    /\ InitialStages \in [Bounties -> Stages]
    /\ MAX_STORED_TRANSACTIONS \in Nat

Receipt(status, result, execution) ==
    [status |-> status, result |-> result, execution |-> execution]
Unread == Receipt(Absent, Absent, Absent)

-----------------------------------------------------------------------------
\* Tasks.

LoadBounties(next, bounty, clears) ==
    [op |-> "bounties", next |-> next, bounty |-> bounty, clears |-> clears]

\* refreshSelected; with clears its caller then resets actionBusy.
RefreshSelected(clears) == LoadBounties("refresh", 0, clears)

LoadSubmissions(b, clears) ==
    [op |-> "list", bounty |-> b, seen |-> submission[b], clears |-> clears]

Sync(hash, all) ==
    [op |-> "sync", hash |-> hash, seen |-> chain[hash].receipt, all |-> all]

\* runWrite; signer and tag are what was on the screen at the click.
Write(action, entity, signer) ==
    [op |-> "write", at |-> IF signer = NoWallet THEN "connect" ELSE "network", hash |-> 0,
     action |-> action, entity |-> entity, signer |-> signer, tag |-> claimTag]

ListsAwaited == {task.bounty : task \in {t \in tasks : t.op = "list"}}

\* Two lists awaited at once are answered in either order, and the later
\* answer stays on the screen.
Overlaps(added) ==
    \E t \in added : t.op = "list" /\ ListsAwaited \ {t.bounty} # {}

\* loadClaimTag, which the watch on the wallet and the selected bounty starts
\* over when either changes.
TagRequest(wallet, b) ==
    IF (wallet = walletAddress /\ b = selectedBounty) \/ wallet = NoWallet \/ b = 0 THEN {}
    ELSE {[op |-> "tag", id |-> claimTagRequestId + 1, bounty |-> b, creator |-> wallet]}

Choose(wallet, b) ==
    /\ walletAddress' = wallet
    /\ selectedBounty' = b
    /\ IF wallet = walletAddress /\ b = selectedBounty
       THEN UNCHANGED <<claimTag, claimTagRequestId>>
       ELSE claimTag' = NoTag /\ claimTagRequestId' = claimTagRequestId + 1

\* The functions of the tasks in done resume; added are awaited from now on.
Resume(done, added) ==
    /\ tasks' = (tasks \ done) \union added
    /\ overlapped' = (overlapped \/ Overlaps(added))

-----------------------------------------------------------------------------
\* Transaction entries.

\* applyTransactionClassification: an entry that is gone is not patched.
Patched(hash, receipt) ==
    [i \in DOMAIN transactions |->
        IF transactions[i].hash = hash THEN [transactions[i] EXCEPT !.receipt = receipt]
        ELSE transactions[i]]

Phase(entry) == ClassifyTransaction(entry.receipt)

\* The newest entry that records action on a submission, if there is one.
Evidence(action, entity) ==
    SelectSeq(transactions, LAMBDA e : e.action = action /\ e.entity = entity)

\* settlementLabel of the submission on the screen: which transaction the
\* sentence is about, and the phase it gives it.  The sentence about a
\* withdrawal reads the entry of the claim (claimEvidence); those before it
\* name no transaction, and the last ones are about a status the contract
\* does not publish, approved without a reward.
SettlementLabel ==
    LET claims == Evidence("CLAIM", shown.bounty)
        phase  == IF claims = <<>> THEN "no record" ELSE Phase(claims[1])
    IN  CASE shown.submission.stage = "WITHDRAWN" ->
               [about |-> "WITHDRAW_REWARD", phase |-> phase]
          [] OTHER -> [about |-> "", phase |-> ""]

-----------------------------------------------------------------------------
\* The chain, which the interface does not control.

Pending == Receipt("PENDING", Absent, Absent)
Undetermined == Receipt("UNDETERMINED", "NO_MAJORITY", Absent)

\* What the contract makes of a call; a call it refuses returns an error.
Accepts(tx) ==
    LET s == submission[tx.entity]
    IN  CASE tx.action = "SUBMIT" -> s.stage = NoStage
          [] tx.action = "EVALUATE" -> s.stage = "PENDING"
          [] tx.action = "CLAIM" -> s.stage = "APPROVED_PENDING" /\ s.creator = tx.signer
          [] tx.action = "WITHDRAW_REWARD" -> s.stage = "CLAIMED" /\ s.creator = tx.signer

Effect(tx) ==
    CASE tx.action = "SUBMIT" -> [creator |-> tx.signer, stage |-> "PENDING"]
      [] tx.action = "EVALUATE" -> [submission[tx.entity] EXCEPT !.stage = "APPROVED_PENDING"]
      [] tx.action = "CLAIM" -> [submission[tx.entity] EXCEPT !.stage = "CLAIMED"]
      [] tx.action = "WITHDRAW_REWARD" -> [submission[tx.entity] EXCEPT !.stage = "WITHDRAWN"]

Execute(hash) ==
    LET tx == chain[hash]
    IN
    /\ tx.receipt = Pending
    /\ chain' = [chain EXCEPT ![hash].receipt =
         Receipt("ACCEPTED", "MAJORITY_AGREE",
                 IF Accepts(tx) THEN "FINISHED_WITH_RETURN" ELSE "FINISHED_WITH_ERROR")]
    /\ submission' = IF Accepts(tx) THEN [submission EXCEPT ![tx.entity] = Effect(tx)]
                     ELSE submission
    /\ UNCHANGED <<tabVars, tasks, events>>

Disagree(hash) ==
    /\ chain[hash].receipt = Pending
    /\ chain' = [chain EXCEPT ![hash].receipt = Undetermined]
    /\ UNCHANGED <<tabVars, tasks, submission, events>>

Finalize(hash) ==
    /\ chain[hash].receipt.status \in {"ACCEPTED", "UNDETERMINED"}
    /\ chain' = [chain EXCEPT ![hash].receipt.status = "FINALIZED"]
    /\ UNCHANGED <<tabVars, tasks, submission, events>>

Decided(receipt) == receipt.status \in {"ACCEPTED", "UNDETERMINED", "FINALIZED"}

-----------------------------------------------------------------------------
\* What the user and the wallet do.

Event == events < MaxEvents /\ events' = events + 1

chainVars == <<submission, chain>>
choiceVars == <<walletAddress, selectedBounty, claimTag, claimTagRequestId>>

\* A click on a bounty of the marketplace.
SelectBounty(b) ==
    /\ Event
    /\ Choose(walletAddress, b)
    /\ Resume({}, {LoadSubmissions(b, FALSE)} \union TagRequest(walletAddress, b))
    /\ UNCHANGED <<shown, actionBusy, transactions, chainVars>>

\* Refresh, the reload of one list, and a submission of My activity, whose
\* bounty is selected once the marketplace has been loaded again.
Reread ==
    /\ Event
    /\ \/ Resume({}, {RefreshSelected(FALSE)})
       \/ selectedBounty # 0 /\ Resume({}, {LoadSubmissions(selectedBounty, FALSE)})
       \/ walletAddress # NoWallet /\ \E b \in Bounties : Resume({}, {LoadBounties("open", b, FALSE)})
    /\ UNCHANGED <<choiceVars, shown, actionBusy, transactions, chainVars>>

\* openActivity.  The tab is never disabled, and actionBusy is the flag of
\* every other action too.
OpenActivity ==
    /\ Event /\ walletAddress # NoWallet
    /\ actionBusy' = "activity"
    /\ Resume({}, {[op |-> "activity"]})
    /\ UNCHANGED <<choiceVars, shown, transactions, chainVars>>

ConnectWallet ==
    /\ Event /\ walletAddress = NoWallet
    /\ Resume({}, {[op |-> "connect"]})
    /\ UNCHANGED <<choiceVars, shown, actionBusy, transactions, chainVars>>

\* disconnectWallet and accountsChanged.
ChangeAccount(account) ==
    /\ Event /\ account # walletAddress
    /\ Choose(account, selectedBounty)
    /\ Resume({}, TagRequest(account, selectedBounty))
    /\ UNCHANGED <<shown, actionBusy, transactions, chainVars>>

\* The actions on the screen: availableActions of the selected bounty and of
\* the list shown, which may be another bounty's.
Offered(action) ==
    LET stage == shown.submission.stage
        mine == stage # NoStage /\ shown.submission.creator = walletAddress
    IN  CASE action = "SUBMIT" -> claimTag # NoTag /\ ~mine
          [] action = "EVALUATE" -> stage = "PENDING"
          [] action = "CLAIM" ->
               stage = "APPROVED_PENDING" /\ mine /\ shown.bounty = selectedBounty
          [] action = "WITHDRAW_REWARD" -> stage = "CLAIMED" /\ mine

\* submitEvidence, evaluateSubmission, claimReward and withdrawReward: the
\* arguments are read at the click.
Click(action) ==
    /\ Event
    /\ selectedBounty # 0 /\ actionBusy = Idle /\ Offered(action)
    /\ actionBusy' = action
    /\ Resume({}, {Write(action, IF action = "SUBMIT" THEN selectedBounty ELSE shown.bounty,
                         walletAddress)})
    /\ UNCHANGED <<choiceVars, shown, transactions, chainVars>>

SyncTransactions ==
    /\ Event /\ transactions # <<>>
    /\ actionBusy' = "sync"
    /\ Resume({}, {Sync(transactions[i].hash, TRUE) : i \in DOMAIN transactions})
    /\ UNCHANGED <<choiceVars, shown, transactions, chainVars>>

\* The page is opened again: only what persistTransactions kept is left.
Reload ==
    /\ Event
    /\ walletAddress' = NoWallet /\ selectedBounty' = 0 /\ shown' = NoList
    /\ claimTag' = NoTag /\ claimTagRequestId' = 0 /\ actionBusy' = Idle /\ overlapped' = FALSE
    /\ transactions' = SubSeq(transactions, 1,
                              Min({Len(transactions), MAX_STORED_TRANSACTIONS}))
    /\ tasks' = {[op |-> "mount"]}
    /\ UNCHANGED chainVars

-----------------------------------------------------------------------------
\* Answers to what the tab awaits.  Any of them may be an error.

\* onMounted: the wallet is found again, the bounties are loaded, and the
\* entries that may still change are looked up.  The awaits between these
\* are left out: an entry that comes in between is looked up with the others
\* only by SyncTransactions.
MountArrives(task) ==
    LET unsettled == {i \in DOMAIN transactions : ~Terminal(Phase(transactions[i]))}
    IN
    /\ task.op = "mount"
    /\ \E wallet \in Accounts \union {NoWallet} :
         /\ Choose(wallet, selectedBounty)
         /\ Resume({task}, {Sync(transactions[i].hash, FALSE) : i \in unsettled}
                             \union TagRequest(wallet, selectedBounty))
    /\ UNCHANGED <<shown, actionBusy, transactions, chainVars, events>>

ConnectArrives(task) ==
    /\ task.op = "connect"
    /\ \E wallet \in Accounts \union {walletAddress} :
         /\ Choose(wallet, selectedBounty)
         /\ Resume({task}, TagRequest(wallet, selectedBounty))
    /\ UNCHANGED <<shown, actionBusy, transactions, chainVars, events>>

\* Bug: takes the answer without asking whom it is for.
Bug_TagArrives(task) ==
    /\ task.op = "tag"
    /\ claimTag' = [bounty |-> task.bounty, creator |-> task.creator]
    /\ Resume({task}, {})
    /\ UNCHANGED <<walletAddress, selectedBounty, claimTagRequestId, shown, actionBusy,
                   transactions, chainVars, events>>

TagArrives(task) ==
    LET current == /\ task.id = claimTagRequestId
                   /\ task.creator = walletAddress
                   /\ task.bounty = selectedBounty
    IN
    /\ task.op = "tag"
    /\ claimTag' \in {claimTag} \union
         (IF current THEN {[bounty |-> task.bounty, creator |-> task.creator]} ELSE {})
    /\ Resume({task}, {})
    /\ UNCHANGED <<walletAddress, selectedBounty, claimTagRequestId, shown, actionBusy,
                   transactions, chainVars, events>>

\* loadBounties, and what its caller does next.
BountiesArrive(task) ==
    /\ task.op = "bounties"
    /\ \E found \in BOOLEAN :
         LET opened == IF task.next = "open" /\ found THEN task.bounty ELSE selectedBounty
             reads  == IF opened = 0 \/ (task.next = "open" /\ ~found) THEN {}
                       ELSE {LoadSubmissions(opened, task.clears)}
         IN  /\ Choose(walletAddress, opened)
             /\ Resume({task}, reads \union TagRequest(walletAddress, opened))
             /\ actionBusy' = IF task.clears /\ reads = {} THEN Idle ELSE actionBusy
    /\ UNCHANGED <<shown, transactions, chainVars, events>>

\* Bug: a list that could not be read leaves the former one on the screen.
Bug_ListArrives(task) ==
    /\ task.op = "list"
    /\ shown' \in {shown, [bounty |-> task.bounty, submission |-> submission[task.bounty]]}
    /\ Resume({task}, {})
    /\ actionBusy' = IF task.clears THEN Idle ELSE actionBusy
    /\ UNCHANGED <<choiceVars, transactions, chainVars, events>>

\* loadSubmissions: nothing asks whether its bounty is still the selected one.
\* Its caller also awaits the details of a list that could be read.
ListArrives(task) ==
    /\ task.op = "list"
    /\ \/ /\ shown' = NoList
          /\ Resume({task}, {})
          /\ actionBusy' = IF task.clears THEN Idle ELSE actionBusy
       \/ /\ shown' \in {[bounty |-> task.bounty, submission |-> s] :
                         s \in {task.seen, submission[task.bounty]}}
          /\ Resume({task}, IF task.clears THEN {[op |-> "details", bounty |-> task.bounty]} ELSE {})
          /\ UNCHANGED actionBusy
    /\ UNCHANGED <<choiceVars, transactions, chainVars, events>>

\* loadChallengeDetails and loadVerdicts, neither of which throws.
DetailsArrive(task) ==
    /\ task.op = "details"
    /\ actionBusy' = Idle
    /\ Resume({task}, {})
    /\ UNCHANGED <<choiceVars, shown, transactions, chainVars, events>>

ActivityArrives(task) ==
    /\ task.op = "activity"
    /\ actionBusy' = Idle
    /\ Resume({task}, {})
    /\ UNCHANGED <<choiceVars, shown, transactions, chainVars, events>>

\* The last answer of syncTransactions refreshes the screen.
SyncArrives(task) ==
    LET last == task.op = "sync" /\ task.all
                  /\ ~\E t \in tasks \ {task} : t.op = "sync" /\ t.all
    IN
    /\ task.op = "sync"
    /\ transactions' \in {transactions, Patched(task.hash, task.seen),
                          Patched(task.hash, chain[task.hash].receipt)}
    /\ actionBusy' = IF last THEN Idle ELSE actionBusy
    /\ Resume({task}, IF last THEN {RefreshSelected(FALSE)} ELSE {})
    /\ UNCHANGED <<choiceVars, shown, chainVars, events>>

-----------------------------------------------------------------------------
\* runWrite.

\* Any refusal or error before there is a hash ends the write.
WriteStops(task) ==
    /\ task.op = "write" /\ task.at # "receipt"
    /\ actionBusy' = Idle
    /\ Resume({task}, {})
    /\ UNCHANGED <<choiceVars, shown, transactions, chainVars, events>>

\* A write nobody was connected for: whoever connects signs it.
WriteConnects(task) ==
    /\ task.op = "write" /\ task.at = "connect"
    /\ \E wallet \in Accounts :
         /\ Choose(wallet, selectedBounty)
         /\ Resume({task}, {[task EXCEPT !.at = "network", !.signer = wallet]}
                             \union TagRequest(wallet, selectedBounty))
    /\ UNCHANGED <<shown, actionBusy, transactions, chainVars, events>>

\* Bug: signs with the account connected when the network answers.
Bug_WriteVerified(task) ==
    /\ task.op = "write" /\ task.at = "network" /\ walletAddress # NoWallet
    /\ Resume({task}, {[task EXCEPT !.at = "sign", !.signer = walletAddress]})
    /\ UNCHANGED <<choiceVars, shown, actionBusy, transactions, chainVars, events>>

\* Bug: records the transaction before the wallet has signed it.
Bug_WriteRecorded(task) ==
    /\ task.op = "write" /\ task.at = "network" /\ walletAddress # NoWallet
    /\ transactions' = <<[hash |-> Len(chain) + 1, action |-> task.action,
                          entity |-> task.entity, receipt |-> Unread]>> \o transactions
    /\ Resume({task}, {[task EXCEPT !.at = "sign"]})
    /\ UNCHANGED <<choiceVars, shown, actionBusy, chainVars, events>>

\* selectWalletChain has answered and writeClient found a wallet.
WriteVerified(task) ==
    /\ task.op = "write" /\ task.at = "network" /\ walletAddress # NoWallet
    /\ Resume({task}, {[task EXCEPT !.at = "sign"]})
    /\ UNCHANGED <<choiceVars, shown, actionBusy, transactions, chainVars, events>>

\* The wallet signs and the hash is recorded (upsertTransaction).
WriteSigned(task) ==
    LET hash == Len(chain) + 1
    IN
    /\ task.op = "write" /\ task.at = "sign"
    /\ hash <= MaxTransactions
    /\ chain' = Append(chain, [action |-> task.action, entity |-> task.entity,
                               signer |-> task.signer, tag |-> task.tag, receipt |-> Pending])
    /\ transactions' = <<[hash |-> hash, action |-> task.action, entity |-> task.entity,
                          receipt |-> Unread]>> \o transactions
    /\ Resume({task}, {[task EXCEPT !.at = "receipt", !.hash = hash]})
    /\ UNCHANGED <<choiceVars, shown, actionBusy, submission, events>>

\* The wait for ACCEPTED ends at any decided status.  What is not final is
\* followed by waitForFinalization, and the caller refreshes the screen.
WriteAnswered(task) ==
    LET receipt == chain[task.hash].receipt
        phase   == ClassifyTransaction(receipt)
    IN
    /\ task.op = "write" /\ task.at = "receipt"
    /\ Decided(receipt)
    /\ transactions' = Patched(task.hash, receipt)
    /\ actionBusy' = IF phase = "FAILED" THEN Idle ELSE actionBusy
    /\ Resume({task},
         (IF phase = "FAILED" THEN {} ELSE {RefreshSelected(TRUE)})
           \union (IF Terminal(phase) THEN {} ELSE {[op |-> "finality", hash |-> task.hash]}))
    /\ UNCHANGED <<choiceVars, shown, chainVars, events>>

WriteTimesOut(task) ==
    /\ task.op = "write" /\ task.at = "receipt"
    /\ actionBusy' = Idle
    /\ Resume({task}, {})
    /\ UNCHANGED <<choiceVars, shown, transactions, chainVars, events>>

\* waitForFinalization, which gives up after its retries.
FinalityArrives(task) ==
    LET receipt == chain[task.hash].receipt
        final   == ClassifyTransaction(receipt) = "FINALIZED"
    IN
    /\ task.op = "finality"
    /\ IF receipt.status = "FINALIZED"
       THEN /\ transactions' = Patched(task.hash, receipt)
            /\ Resume({task}, IF final THEN {RefreshSelected(FALSE)} ELSE {})
       ELSE UNCHANGED transactions /\ Resume({task}, {})
    /\ UNCHANGED <<choiceVars, shown, actionBusy, chainVars, events>>

-----------------------------------------------------------------------------

Init ==
    /\ walletAddress = NoWallet /\ selectedBounty = 0 /\ shown = NoList
    /\ claimTag = NoTag /\ claimTagRequestId = 0 /\ actionBusy = Idle /\ transactions = <<>>
    /\ tasks = {[op |-> "mount"]} /\ overlapped = FALSE /\ chain = <<>> /\ events = 0
    /\ \E creator \in [Bounties -> Accounts] :
         submission = [b \in Bounties |->
            IF InitialStages[b] = NoStage THEN NoSubmission
            ELSE [creator |-> creator[b], stage |-> InitialStages[b]]]

Answer(task) ==
    \/ MountArrives(task) \/ ConnectArrives(task) \/ TagArrives(task) \/ BountiesArrive(task)
    \/ ListArrives(task) \/ DetailsArrive(task) \/ ActivityArrives(task)
    \/ SyncArrives(task)
    \/ WriteStops(task) \/ WriteConnects(task) \/ WriteVerified(task) \/ WriteSigned(task)
    \/ WriteAnswered(task) \/ WriteTimesOut(task) \/ FinalityArrives(task)

Next ==
    \/ \E b \in Bounties : SelectBounty(b)
    \/ Reread \/ OpenActivity \/ ConnectWallet \/ SyncTransactions \/ Reload
    \/ \E account \in Accounts \union {NoWallet} : ChangeAccount(account)
    \/ \E action \in Actions : Click(action)
    \/ \E task \in tasks : Answer(task)
    \/ \E hash \in DOMAIN chain : Execute(hash) \/ Disagree(hash) \/ Finalize(hash)

Spec == Init /\ [][Next]_vars

-----------------------------------------------------------------------------
\* Properties.

\* Every variable has its type, and no answer that is awaited belongs to a
\* request that was never made.
TypeOK ==
    /\ walletAddress \in Accounts \union {NoWallet}
    /\ selectedBounty \in 0..BountyCount
    /\ overlapped \in BOOLEAN
    /\ shown.bounty \in 0..BountyCount /\ shown.submission.stage \in Stages
    /\ actionBusy \in Actions \union {Idle, "activity", "sync"}
    /\ \A i \in DOMAIN transactions :
         /\ transactions[i].hash \in DOMAIN chain
         /\ Phase(transactions[i]) \in Phases
    /\ \A task \in tasks : task.op = "tag" => task.id \in 1..claimTagRequestId
    /\ \A b \in Bounties : submission[b].stage \in Stages

\* The claim tag on the screen is the one of the selected bounty and the
\* connected account, however many changes of either were made while earlier
\* tags were awaited.  A creator who published another account's tag could not
\* repair the page.
ClaimTagIsCurrent ==
    claimTag # NoTag => claimTag = [bounty |-> selectedBounty, creator |-> walletAddress]

\* A submission is sent by the account, and to the bounty, whose claim tag was
\* on the screen at the click, although the account and the selection may
\* change while the network is verified and the wallet signs.
SubmissionUsesItsClaimTag ==
    \A hash \in DOMAIN chain :
        LET tx == chain[hash]
        IN  tx.action = "SUBMIT" => tx.tag = [bounty |-> tx.entity, creator |-> tx.signer]

\* An entry says FINALIZED only of a transaction that is final, that a majority
\* agreed on and that returned, whichever of the receipt waits and lookups of
\* it answers last.
FinalizedIsVerified ==
    \A i \in DOMAIN transactions : Phase(transactions[i]) = "FINALIZED" =>
        LET receipt == chain[transactions[i].hash].receipt
        IN  /\ receipt.status = "FINALIZED"
            /\ receipt.result = "MAJORITY_AGREE"
            /\ Returned(receipt)

\* The list of another bounty is on the screen only until the list of the
\* selected one arrives, unless two lists were awaited at once: then the later
\* answer stays, whichever bounty it is for.
ForeignListNeedsOverlap ==
    shown.bounty \notin {0, selectedBounty} =>
        \/ \E task \in tasks : task.op = "list" /\ task.bounty = selectedBounty
        \/ overlapped

\* README.md:406 says that an accepted transaction is never presented as
\* finalized.  The sentence about a withdrawn reward names the withdrawal and
\* reads the entry of the claim: it says that the withdrawal finalized
\* successfully while the withdrawal is only accepted.
AcceptedIsNeverPresentedAsFinalized ==
    SettlementLabel.phase = "FINALIZED" =>
        \E hash \in DOMAIN chain :
            /\ chain[hash].action = SettlementLabel.about
            /\ chain[hash].entity = shown.bounty
            /\ chain[hash].receipt.status = "FINALIZED"
=============================================================================
