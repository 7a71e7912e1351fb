------------------------------- MODULE LiveRun -------------------------------
(***************************************************************************)
(* The live consensus run (tests/integration/live_consensus.mjs) around    *)
(* its mutation scenario: post a bounty, submit a page, change the page    *)
(* through the evidence worker, evaluate the submission and check that the *)
(* verdict is inconclusive.  The process may crash or lose its RPC at any  *)
(* await; it is started again from `proof`, the artifact every checkpoint  *)
(* writes to disk.  One action is what the process does from one await (or *)
(* one write of the artifact that matters by itself) to the next.          *)
(*                                                                         *)
(* The other two scenarios go through the same functions: clear approval   *)
(* through all of them but the mutation, clear rejection without the loop  *)
(* over deadlines.  The chain is external: an older contract, of which     *)
(* only what the run relies on is modelled.                                *)
(***************************************************************************)
EXTENDS ReceiptClassifier, Integers, Sequences, FiniteSets

CONSTANTS
    Window,                \* both windows of a bounty, in ticks of the chain's clock
    MaxReplacements,       \* maxReplacements, and the limit on failed posts
    MaxAttempts,           \* evaluations the contract allows a submission
    MaxTime,               \* bounds the model: the chain's clock
    MaxTxs,                \* bounds the model: transactions sent
    MaxStarts,             \* bounds the model: how often the process is started
    MaxUndetermined        \* bounds the model: rounds without a majority

ASSUME LiveRunAssumption ==
    /\ {Window, MaxReplacements, MaxAttempts} \subseteq Nat \ {0}
    /\ {MaxTime, MaxTxs, MaxStarts, MaxUndetermined} \subseteq Nat

VARIABLES
    now,                   \* timestamp of the latest block
    txs,                   \* the chain's transactions; a hash is an index
    bounties,              \* what the contract lists; an id is an index
    submissions,
    undetermined,          \* how many rounds ended without a majority
    mutated,               \* MutableEvidenceState: the page the worker serves
    proof,                 \* the artifact on disk
    pc,                    \* what the process waits for
    step,                  \* the kind of transaction it is establishing
    local,                 \* what it holds in memory only
    starts

chain == <<txs, bounties, submissions, undetermined>>
run   == <<proof, pc, step, local>>
vars  == <<now, chain, mutated, run, starts>>

None    == 0               \* null in the records
Refused == -1              \* a lookup that throws

Kinds == {"post", "submit", "close", "evaluate"}

MutationStates == {"NOT_STARTED", "PENDING", "CONFIRMED"}

Ids == 1..MaxTxs

(***************************************************************************)
(* Records of the artifact.                                                *)
(***************************************************************************)

\* createScenarioRecord: the n-th title of the scenario, nothing done yet.
CreateScenarioRecord(n, history) ==
    [title |-> n, bountyId |-> None, submissionId |-> None,
     tx |-> [k \in Kinds |-> None], closureAction |-> Absent, history |-> history]

\* A replacement that starts from the fields of the record it replaces.
Bug_ReplaceScenarioRecord(s, status) ==
    LET entry == [title |-> s.title, bountyId |-> s.bountyId, tx |-> s.tx,
                  closureAction |-> s.closureAction, status |-> status]
        fresh == CreateScenarioRecord(Len(s.history) + 2, Append(s.history, entry))
    IN  [fresh EXCEPT !.tx["submit"] = s.tx["submit"]]

ReplaceScenarioRecord(s, status) ==
    LET entry == [title |-> s.title, bountyId |-> s.bountyId, tx |-> s.tx,
                  closureAction |-> s.closureAction, status |-> status]
    IN  CreateScenarioRecord(Len(s.history) + 2, Append(s.history, entry))

\* The labels recovery looks transactions up by: only a post and a closure
\* name the title they are for.
Label(kind, s, action) ==
    CASE kind = "post"     -> <<"post", s.title>>
      [] kind = "close"    -> <<action, s.title>>
      [] kind = "submit"   -> <<"submit mutable evidence", 0>>
      [] kind = "evaluate" -> <<"evaluate mutated evidence", 0>>

Recorded == DOMAIN proof.txs

Usable(h, label) == proof.txs[h].label = label /\ proof.txs[h].phase # "FAILED"

\* uniqueUsableTransaction.
UniqueUsableTransaction(label) ==
    LET matches == {h \in Recorded : Usable(h, label)}
    IN  CASE matches = {}              -> None
          [] Cardinality(matches) = 1  -> CHOOSE h \in matches : TRUE
          [] OTHER                     -> Refused

\* storedTransaction with exactScenarioTransaction.  Posts and closures are
\* also looked up by their label when the record names no hash.
StoredTransaction(kind, s, action) ==
    LET hash  == s.tx[kind]
        label == Label(kind, s, action)
    IN  CASE hash # None -> IF hash \in Recorded /\ Usable(hash, label) THEN hash ELSE Refused
          [] hash = None /\ kind \in {"post", "close"} -> UniqueUsableTransaction(label)
          [] OTHER -> None

\* recoverExistingScenarioRecords, without the records of earlier versions
\* of the artifact: a closure found by its label, and a submission hash that
\* a replaced scenario of another bounty already has is cleared.
RecoverClosure(s) ==
    LET found == UniqueUsableTransaction(Label("close", s, "EXPIRE"))
    IN  IF s.tx["close"] = None /\ found # None
        THEN [s EXCEPT !.closureAction = "EXPIRE", !.tx["close"] = found]
        ELSE s

ReusesHistory(s) ==
    /\ s.tx["submit"] # None
    /\ \E i \in DOMAIN s.history :
           /\ s.history[i].tx["submit"] = s.tx["submit"]
           /\ s.history[i].bountyId # s.bountyId

ReconcileHistoricalSubmissionTransactionReuse(s) ==
    IF ReusesHistory(s) THEN [s EXCEPT !.tx["submit"] = None] ELSE s

\* scenarioDeadlineAction; sub is Absent when there is no submission.
ScenarioDeadlineAction(b, sub, time) ==
    CASE b.status \notin {"OPEN", "LOCKED"} -> [action |-> "TERMINAL", reason |-> b.status]
      [] b.status \in {"OPEN", "LOCKED"} /\ sub \in {"APPROVED", "REJECTED", "SUPERSEDED"} ->
           [action |-> "TERMINAL", reason |-> sub]
      [] OTHER ->
           IF time > b.evaluation_deadline
           THEN [action |-> "EXPIRE_AND_REPLACE", reason |-> "EVALUATION_DEADLINE_PASSED"]
           ELSE IF sub = Absent /\ time > b.submission_deadline
           THEN [action |-> "CANCEL_AND_REPLACE", reason |-> "SUBMISSION_DEADLINE_PASSED"]
           ELSE [action |-> "REUSE", reason |-> "WINDOW_OPEN"]

\* replaceableDeadlineAction.
ReplaceableDeadlineAction(a) ==
    \/ a.action \in {"CANCEL_AND_REPLACE", "EXPIRE_AND_REPLACE"}
    \/ a.action = "TERMINAL" /\ a.reason \in {"CANCELLED", "EXPIRED"}

\* reconcileMutationState: what the worker reports against the checkpoint.
ReconcileMutationState(state, isMutated) ==
    CASE state = "NOT_STARTED" /\ isMutated  -> "refused"
      [] state = "CONFIRMED" /\ ~isMutated   -> "refused"
      [] state = "PENDING" /\ isMutated      -> "CONFIRMED"
      [] OTHER                               -> state

(***************************************************************************)
(* What the process does between two awaits.  p is the artifact it leaves  *)
(* on disk, l what it holds in memory.                                     *)
(***************************************************************************)
NoBounty == [title |-> None, status |-> Absent, submission_deadline |-> 0,
             evaluation_deadline |-> 0]

Nothing == [exact |-> None, bounty |-> NoBounty, submission |-> Absent,
            closing |-> Absent, reuse |-> FALSE, replaced |-> 0]

Scenario == proof.scenario

With(s) == [proof EXCEPT !.scenario = s]

Go(where, kind, p, l) ==
    /\ pc' = where
    /\ step' = kind
    /\ proof' = p
    /\ local' = l

\* recordProofFailure and recordProofExternalBlocker, and the process ends.
Fail(p, status) == Go("down", "post", [p EXCEPT !.status = status], Nothing)

Throw(p) == Fail(p, "FAILED")

WaitOrThrow(kind, p, l) ==
    IF StoredTransaction(kind, p.scenario, Absent) \in {None, Refused}
    THEN Throw(p)
    ELSE Go("wait_accepted", kind, p, l)

\* postScenario and submitScenario: a record that has its id only waits for
\* its transaction; otherwise the chain is asked first.
EnterPost(p, l) ==
    IF p.scenario.bountyId # None THEN WaitOrThrow("post", p, l) ELSE Go("list", "post", p, l)

EnterSubmit(p, l) ==
    IF p.scenario.submissionId # None
    THEN WaitOrThrow("submit", p, l)
    ELSE Go("list", "submit", p, l)

\* A post whose wait threw is replaced, whatever was observed of it.
Bug_PostThrows(status) ==
    LET next == ReplaceScenarioRecord(Scenario, "POST_TRANSACTION_FAILED")
    IN  IF Scenario.tx["post"] # None /\ Len(next.history) <= MaxReplacements
        THEN EnterPost(With(next), [local EXCEPT !.exact = None])
        ELSE Fail(proof, status)

\* replaceTerminallyFailedPostScenario, in the catch of postScenario.
PostThrows(status) ==
    LET hash == Scenario.tx["post"]
        next == ReplaceScenarioRecord(Scenario, "POST_TRANSACTION_FAILED")
    IN  IF /\ hash \in Recorded /\ proof.txs[hash].phase = "FAILED"
           /\ Len(next.history) <= MaxReplacements
        THEN EnterPost(With(next), [local EXCEPT !.exact = None])
        ELSE Fail(proof, status)

\* The try block of postScenario is around what establishes the bounty id.
Raise(status) ==
    IF step = "post" /\ Scenario.bountyId = None /\ pc # "preflight"
    THEN PostThrows(status)
    ELSE Fail(proof, status)

EnterEvaluate(p, l) ==
    IF p.scenario.tx["evaluate"] # None
    THEN WaitOrThrow("evaluate", p, l)
    ELSE Go("send", "evaluate", p, l)

\* A begun mutation is not on disk when its webhook is called.
Bug_AfterScenario(p, l) ==
    IF p.mutation = "CONFIRMED" THEN EnterEvaluate(p, l) ELSE Go("webhook", "evaluate", p, l)

\* The scenario has its submission: beginMutation is checkpointed before
\* the webhook is called, and a confirmed mutation is not repeated.
AfterScenario(p, l) ==
    IF p.mutation = "CONFIRMED"
    THEN EnterEvaluate(p, l)
    ELSE Go("webhook", "evaluate", [p EXCEPT !.mutation = "PENDING"], l)

\* ensureDeadlineSafeScenarioSubmission, after ensureBounty and after
\* ensureSubmission.
AfterPost(p, l) ==
    IF p.scenario.submissionId # None \/ p.scenario.tx["submit"] # None
    THEN EnterSubmit(p, l)
    ELSE Go("read_bounty", "post", p, l)

AfterSubmit(p, l) ==
    IF l.reuse THEN AfterScenario(p, l) ELSE Go("read_bounty", "submit", p, l)

\* reconcileScenarioClosure and ensureScenarioClosure.
EnterClosure(a, l) ==
    LET closing == IF a.action = "CANCEL_AND_REPLACE" \/ a.reason = "CANCELLED"
                   THEN "CANCEL" ELSE "EXPIRE"
        stored  == StoredTransaction("close", Scenario, closing)
        blocked == Scenario.closureAction \notin {Absent, closing} \/ stored = Refused
    IN  CASE ~blocked /\ stored # None ->
               Go("wait_accepted", "close",
                  With([Scenario EXCEPT !.closureAction = closing, !.tx["close"] = stored]),
                  [l EXCEPT !.closing = closing])
          [] ~blocked /\ stored = None /\ a.action # "TERMINAL" ->
               Go("send", "close", proof, [l EXCEPT !.closing = closing])
          [] OTHER -> Throw(proof)

(***************************************************************************)
(* The process.                                                            *)
(***************************************************************************)
Unmoved == UNCHANGED <<now, chain, mutated, starts>>

\* main, up to the preflight: the artifact is loaded and marked RUNNING,
\* and records that earlier versions damaged are repaired.
Start ==
    LET repaired == ReconcileHistoricalSubmissionTransactionReuse(RecoverClosure(Scenario))
    IN  /\ pc \in {"down", "done"}
        /\ starts < MaxStarts
        /\ ~(ReusesHistory(Scenario) /\ Scenario.submissionId # None)
        /\ UniqueUsableTransaction(Label("close", Scenario, "EXPIRE")) # Refused
        /\ Go("preflight", "post", [With(repaired) EXCEPT !.status = "RUNNING"], Nothing)
        /\ starts' = starts + 1
        /\ UNCHANGED <<now, chain, mutated>>

\* preflightLiveRun asks the worker for its state and reconciles the
\* checkpoint with it; then the loop over deadlines begins.
Preflight ==
    LET state == ReconcileMutationState(proof.mutation, mutated)
    IN  /\ pc = "preflight"
        /\ IF state = "refused" THEN Throw(proof)
           ELSE EnterPost([proof EXCEPT !.mutation = state], Nothing)
        /\ Unmoved

\* What the contract lists for the record: its bounty by exact title, its
\* submission by bounty (one creator, one page).
Listed(kind, s) ==
    IF kind = "post" THEN {b \in DOMAIN bounties : bounties[b].title = s.title}
    ELSE {x \in DOMAIN submissions : submissions[x].bounty = s.bountyId}

Identified(id) ==
    IF step = "post" THEN With([Scenario EXCEPT !.bountyId = id])
    ELSE With([Scenario EXCEPT !.submissionId = id])

AfterIdentified(p, l) == IF step = "post" THEN AfterPost(p, l) ELSE AfterSubmit(p, l)

\* ensureScenarioBounty and ensureScenarioSubmission, the first listing: a
\* transaction on record is waited for, whatever the chain lists; something
\* listed that no transaction on record explains is refused.
List ==
    LET found  == Listed(step, Scenario)
        stored == StoredTransaction(step, Scenario, Absent)
    IN  /\ pc = "list"
        /\ CASE Cardinality(found) <= 1 /\ stored \in Ids ->
                  Go("wait_accepted", step, With([Scenario EXCEPT !.tx[step] = stored]),
                     [local EXCEPT !.exact = IF found = {} THEN None
                                             ELSE CHOOSE id \in found : TRUE])
             [] found = {} /\ stored = None -> Go("send", step, proof, local)
             [] OTHER -> Raise("FAILED")
        /\ Unmoved

\* The listing after the transaction is final.
Relist ==
    LET found == Listed(step, Scenario)
    IN  /\ pc = "relist"
        /\ IF Cardinality(found) = 1
           THEN AfterIdentified(Identified(CHOOSE id \in found : TRUE), local)
           ELSE Raise("FAILED")
        /\ Unmoved

\* The record had its id: validateLiveBountyScenario or
\* validateStoredSubmissionScenario on what the chain has under it.
ReadBack ==
    LET matches == IF step = "post"
                   THEN bounties[Scenario.bountyId].title = Scenario.title
                   ELSE submissions[Scenario.submissionId].bounty = Scenario.bountyId
    IN  /\ pc = "read_back"
        /\ IF matches THEN AfterIdentified(proof, local) ELSE Throw(proof)
        /\ Unmoved

\* client.writeContract: the node takes the transaction, its hash is still
\* on its way to the process.
SendWrite ==
    LET target == CASE step = "post" -> Scenario.title
                    [] step = "evaluate" -> Scenario.submissionId
                    [] OTHER -> Scenario.bountyId
    IN  /\ pc = "send"
        /\ Len(txs) < MaxTxs
        /\ txs' = Append(txs, [kind |-> step, target |-> target, status |-> "PENDING",
                               action |-> IF step = "close" THEN local.closing ELSE Absent,
                               execution |-> Absent])
        /\ pc' = "sent"
        /\ UNCHANGED <<now, bounties, submissions, undetermined, mutated, proof, step, local, starts>>

\* The scenario's hash is checkpointed, the transaction it belongs to is not.
Bug_RecordHash ==
    /\ pc = "sent"
    /\ Go("wait_accepted", step, With([Scenario EXCEPT !.tx[step] = Len(txs)]), local)
    /\ Unmoved

\* submitWrite has its answer: transaction and scenario are one checkpoint.
RecordHash ==
    LET hash  == Len(txs)
        s     == [Scenario EXCEPT !.tx[step] = hash,
                                  !.closureAction = IF step = "close" THEN local.closing ELSE @]
        label == Label(step, Scenario, local.closing)
    IN  /\ pc = "sent"
        /\ Go("wait_accepted", step,
              [With(s) EXCEPT !.txs = [h \in Recorded \union {hash} |->
                  IF h = hash THEN [label |-> label, phase |-> "SUBMITTED"] ELSE proof.txs[h]]],
              local)
        /\ Unmoved

Receipt(tx) ==
    [status |-> tx.status, execution |-> tx.execution,
     result |-> IF tx.status \in {"ACCEPTED", "FINALIZED"} THEN "AGREE" ELSE Absent]

\* waitForLiveLifecycle: each wait ends with a receipt of the status asked
\* for or of a later one, and its classification is checkpointed.
Observe(from, statuses) ==
    LET hash == Scenario.tx[step]
    IN  /\ pc = from
        /\ txs[hash].status \in statuses
        /\ Go("observed", step,
              [proof EXCEPT !.txs[hash].phase = ClassifyLiveReceipt(Receipt(txs[hash]))], local)
        /\ Unmoved

ObserveAccepted == Observe("wait_accepted", {"ACCEPTED", "FINALIZED", "UNDETERMINED"})

ObserveFinalized == Observe("wait_finalized", {"FINALIZED", "UNDETERMINED"})

\* What follows the observation.
Observed ==
    LET phase == proof.txs[Scenario.tx[step]].phase
        known == IF step = "post" THEN Scenario.bountyId ELSE Scenario.submissionId
    IN  /\ pc = "observed"
        /\ CASE phase = "FAILED" -> Raise("FAILED")
             [] phase # "FAILED" /\ phase # "FINALIZED" -> Go("wait_finalized", step, proof, local)
             [] phase = "FINALIZED" /\ step \in {"close", "evaluate"} ->
                  Go(IF step = "close" THEN "read_close" ELSE "read_evaluate", step, proof, local)
             [] OTHER ->
                  IF known # None THEN Go("read_back", step, proof, local)
                  ELSE IF local.exact # None
                  THEN AfterIdentified(Identified(local.exact), [local EXCEPT !.exact = None])
                  ELSE Go("relist", step, proof, local)
        /\ Unmoved

ReadBounty ==
    /\ pc = "read_bounty"
    /\ IF bounties[Scenario.bountyId].title = Scenario.title
       THEN Go(IF Scenario.submissionId # None THEN "read_submission" ELSE "read_clock",
               step, proof, [local EXCEPT !.bounty = bounties[Scenario.bountyId]])
       ELSE Throw(proof)
    /\ Unmoved

ReadSubmission ==
    /\ pc = "read_submission"
    /\ IF submissions[Scenario.submissionId].bounty = Scenario.bountyId
       THEN Go("read_clock", step, proof,
               [local EXCEPT !.submission = submissions[Scenario.submissionId].status])
       ELSE Throw(proof)
    /\ Unmoved

\* The timestamp is the last of three reads; bounty and submission may have
\* changed since theirs.
ReadClock ==
    LET a    == ScenarioDeadlineAction(local.bounty, local.submission, now)
        next == [local EXCEPT !.bounty = NoBounty, !.submission = Absent]
    IN  /\ pc = "read_clock"
        /\ CASE a.action = "REUSE" ->
                  IF Scenario.submissionId # None THEN AfterScenario(proof, next)
                  ELSE EnterSubmit(proof, [next EXCEPT !.reuse = TRUE])
             [] ReplaceableDeadlineAction(a) -> EnterClosure(a, next)
             [] OTHER -> Throw(proof)
        /\ Unmoved

\* The closure is final: only a bounty that is now closed is replaced, and
\* the loop does so at most MaxReplacements + 1 times, the last in vain.
ReadClosed ==
    LET status == bounties[Scenario.bountyId].status
        next   == With(ReplaceScenarioRecord(Scenario, status))
    IN  /\ pc = "read_close"
        /\ IF status \notin {"CANCELLED", "EXPIRED"} THEN Throw(proof)
           ELSE IF local.replaced = MaxReplacements THEN Throw(next)
           ELSE EnterPost(next, [local EXCEPT !.closing = Absent, !.replaced = @ + 1])
        /\ Unmoved

\* The POST reaches MutableEvidenceState; its answer is on its way.
Webhook ==
    /\ pc = "webhook"
    /\ mutated' = TRUE
    /\ pc' = "webhook_answered"
    /\ UNCHANGED <<now, chain, proof, step, local, starts>>

\* confirmMutation and the evaluation.
ConfirmMutation ==
    /\ pc = "webhook_answered"
    /\ EnterEvaluate([proof EXCEPT !.mutation = "CONFIRMED", !.webhook = "CONFIRMED"], local)
    /\ Unmoved

\* The verdict that the scenario is for, and the end of the run.
ReadEvaluated ==
    LET sub == submissions[Scenario.submissionId]
    IN  /\ pc = "read_evaluate"
        /\ IF sub.status = "INCONCLUSIVE" /\ sub.reason \in {"DIGEST_MISMATCH", "FETCH_FAILED"}
           THEN Go("done", "post", [proof EXCEPT !.inconclusive = sub.reason,
                                                 !.status = "COMPLETE"], Nothing)
           ELSE Throw(proof)
        /\ Unmoved

\* An await that throws: the RPC is away, the webhook refuses, a wait gives
\* up.  The catch of main records it.
Outage ==
    /\ pc \notin {"down", "done"}
    /\ \E status \in {"FAILED", "BLOCKED_EXTERNAL_RPC"} : Raise(status)
    /\ Unmoved

\* The process dies between two awaits and records nothing.
Crash ==
    /\ pc \notin {"down", "done"}
    /\ Go("down", "post", proof, Nothing)
    /\ Unmoved

(***************************************************************************)
(* The chain, the clock and other accounts.                                *)
(***************************************************************************)
Unaware == UNCHANGED <<run, mutated, starts>>

Active(b) == bounties[b].status \in {"OPEN", "LOCKED"}

Page == IF mutated THEN "changed" ELSE "initial"

CanExecute(tx) ==
    CASE tx.kind = "post" -> TRUE
      [] tx.kind = "submit" ->
           /\ Active(tx.target) /\ now <= bounties[tx.target].submission_deadline
           /\ \A x \in DOMAIN submissions : submissions[x].bounty # tx.target
      [] tx.kind = "close" ->
           IF tx.action = "CANCEL" THEN bounties[tx.target].status = "OPEN"
           ELSE Active(tx.target) /\ now > bounties[tx.target].evaluation_deadline
      [] tx.kind = "evaluate" ->
           LET sub == submissions[tx.target]
           IN  /\ Active(sub.bounty) /\ now <= bounties[sub.bounty].evaluation_deadline
               /\ sub.status \in {"PENDING", "INCONCLUSIVE"} /\ sub.attempts < MaxAttempts

\* The page may always be unreachable; a changed one is never judged.
Verdicts(sub) ==
    {<<"INCONCLUSIVE", "FETCH_FAILED">>} \union
    IF sub.digest = Page THEN {<<"REJECTED", "CRITERIA_NOT_MET">>, <<"APPROVED", "ALL_MET">>}
    ELSE {<<"INCONCLUSIVE", "DIGEST_MISMATCH">>}

Closed(b, status) ==
    /\ bounties' = [bounties EXCEPT ![b].status = status]
    /\ submissions' = [x \in DOMAIN submissions |->
           IF submissions[x].bounty = b /\ submissions[x].status \in {"PENDING", "INCONCLUSIVE"}
           THEN [submissions[x] EXCEPT !.status = "SUPERSEDED"] ELSE submissions[x]]

Effect(tx) ==
    CASE tx.kind = "post" ->
           /\ bounties' = Append(bounties,
                  [title |-> tx.target, status |-> "OPEN", submission_deadline |-> now + Window,
                   evaluation_deadline |-> now + 2 * Window])
           /\ UNCHANGED submissions
      [] tx.kind = "submit" ->
           /\ submissions' = Append(submissions,
                  [bounty |-> tx.target, digest |-> Page, status |-> "PENDING",
                   reason |-> Absent, attempts |-> 0])
           /\ bounties' = [bounties EXCEPT ![tx.target].status = "LOCKED"]
      [] tx.kind = "close" ->
           Closed(tx.target, IF tx.action = "CANCEL" THEN "CANCELLED" ELSE "EXPIRED")
      [] tx.kind = "evaluate" ->
           \E v \in Verdicts(submissions[tx.target]) :
               /\ submissions' = [submissions EXCEPT ![tx.target].status = v[1],
                                                     ![tx.target].reason = v[2],
                                                     ![tx.target].attempts = @ + 1]
               /\ bounties' = IF v[1] = "APPROVED"
                              THEN [bounties EXCEPT ![submissions[tx.target].bounty].status = "FILLED"]
                              ELSE bounties

Moved(h, status, execution) ==
    txs' = [txs EXCEPT ![h].status = status, ![h].execution = execution]

Execute(h) ==
    /\ txs[h].status = "PENDING" /\ CanExecute(txs[h])
    /\ Moved(h, "ACCEPTED", "FINISHED_WITH_RETURN")
    /\ Effect(txs[h])
    /\ UNCHANGED undetermined

Revert(h) ==
    /\ txs[h].status = "PENDING" /\ ~CanExecute(txs[h])
    /\ Moved(h, "ACCEPTED", "FINISHED_WITH_ERROR")
    /\ UNCHANGED <<bounties, submissions, undetermined>>

NoMajority(h) ==
    /\ txs[h].status = "PENDING" /\ undetermined < MaxUndetermined
    /\ Moved(h, "UNDETERMINED", Absent)
    /\ undetermined' = undetermined + 1
    /\ UNCHANGED <<bounties, submissions>>

\* Simpler than the network: what was accepted is not overturned on appeal,
\* and none of its other terminal statuses occurs.
Finalize(h) ==
    /\ txs[h].status = "ACCEPTED"
    /\ Moved(h, "FINALIZED", txs[h].execution)
    /\ UNCHANGED <<bounties, submissions, undetermined>>

\* expire_bounty is open to anyone.
ExpireByOther(b) ==
    /\ Active(b) /\ now > bounties[b].evaluation_deadline
    /\ Closed(b, "EXPIRED")
    /\ UNCHANGED <<txs, undetermined>>

Chain ==
    /\ \/ \E h \in DOMAIN txs : Execute(h) \/ Revert(h) \/ NoMajority(h) \/ Finalize(h)
       \/ \E b \in DOMAIN bounties : ExpireByOther(b)
    /\ UNCHANGED now
    /\ Unaware

Tick ==
    /\ now < MaxTime
    /\ now' = now + 1
    /\ UNCHANGED chain
    /\ Unaware

\* validateCompletedLiveProof, publicScenarioHistory and the check both make
\* of a hash: what an artifact must say to be published, as far as this
\* scenario goes.
SuccessfulOnRecord(h) == h \in Recorded /\ proof.txs[h].phase = "FINALIZED"

\* A submission of a replaced scenario need not be final; one that failed stops
\* its scenario for good and is in no history.
PublicScenarioHistory(history) ==
    \A i \in DOMAIN history, k \in Kinds \ {"submit"} :
        history[i].tx[k] # None => SuccessfulOnRecord(history[i].tx[k])

Exportable ==
    /\ proof.status = "COMPLETE"
    /\ proof.mutation = "CONFIRMED" /\ proof.webhook = "CONFIRMED"
    /\ \A k \in {"post", "submit", "evaluate"} : SuccessfulOnRecord(Scenario.tx[k])
    /\ PublicScenarioHistory(Scenario.history)

Init ==
    /\ now = 0
    /\ txs = <<>> /\ bounties = <<>> /\ submissions = <<>> /\ undetermined = 0
    /\ mutated = FALSE
    /\ proof = [status |-> "FAILED", mutation |-> "NOT_STARTED", webhook |-> Absent,
                inconclusive |-> Absent, scenario |-> CreateScenarioRecord(1, <<>>), txs |-> <<>>]
    /\ pc = "down" /\ step = "post" /\ local = Nothing
    /\ starts = 0

Process ==
    \/ Start \/ Preflight
    \/ List \/ Relist \/ ReadBack
    \/ SendWrite \/ RecordHash \/ ObserveAccepted \/ ObserveFinalized \/ Observed
    \/ ReadBounty \/ ReadSubmission \/ ReadClock \/ ReadClosed
    \/ Webhook \/ ConfirmMutation \/ ReadEvaluated
    \/ Outage \/ Crash

Next == Process \/ Chain \/ Tick

Spec == Init /\ [][Next]_vars

(***************************************************************************)
(* Properties.                                                             *)
(***************************************************************************)

\* The artifact and the process keep their shape: every hash on record is
\* a transaction of the chain that the artifact describes, every id is one
\* the contract knows, and what the process waits for is on record.
TypeOK ==
    /\ now \in 0..MaxTime /\ starts \in 0..MaxStarts
    /\ proof.mutation \in MutationStates
    /\ Recorded \subseteq DOMAIN txs
    /\ \A h \in Recorded : proof.txs[h].phase \in Phases
    /\ \A k \in Kinds : Scenario.tx[k] \in {None} \union Recorded
    /\ Scenario.bountyId \in {None} \union DOMAIN bounties
    /\ Scenario.submissionId \in {None} \union DOMAIN submissions
    /\ pc \in {"wait_accepted", "observed", "wait_finalized"} => Scenario.tx[step] # None
    /\ pc = "sent" => Len(txs) \notin Recorded

\* A recovered record never mixes scenarios: the hash it keeps for each step
\* is of a transaction of that kind, for its own title, bounty or
\* submission, and the same holds of each record it replaced.  Recovery
\* finds transactions by labels two of which name no scenario, after
\* crashes at any await (live-scenario-recovery.mjs, uniqueUsableTransaction
\* in live_consensus.mjs).
RecordIsBound(r) ==
    /\ r.bountyId # None => bounties[r.bountyId].title = r.title
    /\ r.tx["post"] # None =>
           txs[r.tx["post"]].kind = "post" /\ txs[r.tx["post"]].target = r.title
    /\ r.tx["submit"] # None =>
           txs[r.tx["submit"]].kind = "submit" /\ txs[r.tx["submit"]].target = r.bountyId
    /\ r.tx["close"] # None =>
           /\ txs[r.tx["close"]].kind = "close" /\ txs[r.tx["close"]].target = r.bountyId
           /\ txs[r.tx["close"]].action = r.closureAction

RecordedHashesAreBound ==
    /\ RecordIsBound(Scenario)
    /\ \A i \in DOMAIN Scenario.history : RecordIsBound(Scenario.history[i])
    /\ Scenario.submissionId # None =>
           submissions[Scenario.submissionId].bounty = Scenario.bountyId
    /\ Scenario.tx["evaluate"] # None =>
           /\ txs[Scenario.tx["evaluate"]].kind = "evaluate"
           /\ txs[Scenario.tx["evaluate"]].target = Scenario.submissionId

\* The checkpoint of the mutation never trails the worker: a changed page
\* is one whose change was announced on disk first, and a confirmed change
\* has happened, whatever is lost between the POST and its confirmation
\* (live-mutation-state.mjs, live_consensus.mjs:779-791).
MutationCheckpointIsHonest ==
    /\ mutated => proof.mutation # "NOT_STARTED"
    /\ proof.mutation = "CONFIRMED" => mutated

\* No reward is left behind: a scenario is replaced only once its bounty is
\* closed on the chain or its post can no longer create one, however stale
\* the reads that led to the replacement were.
ReplacedScenarioIsClosed ==
    \A i \in DOMAIN Scenario.history :
        LET r == Scenario.history[i]
        IN  IF r.status = "POST_TRANSACTION_FAILED"
            THEN r.bountyId = None /\ txs[r.tx["post"]].status = "UNDETERMINED"
            ELSE bounties[r.bountyId].status \in {"CANCELLED", "EXPIRED"}

\* A run that ends COMPLETE has, on the chain and final, a successful
\* transaction for each step of its scenario, and a page changed by its own
\* webhook; a mismatch it records is one of that change, found in a
\* submission that committed to the page before it.  What may be exported
\* moreover replaced scenarios only by closing them.
CompleteIsEarned ==
    pc = "done" =>
        /\ mutated /\ proof.mutation = "CONFIRMED"
        /\ \A k \in {"post", "submit", "evaluate"} :
               LET tx == txs[Scenario.tx[k]]
               IN  tx.status = "FINALIZED" /\ tx.execution = "FINISHED_WITH_RETURN"
        /\ submissions[Scenario.submissionId].attempts > 0
        /\ proof.inconclusive = "DIGEST_MISMATCH" =>
               submissions[Scenario.submissionId].digest = "initial"
        /\ Exportable =>
               \A i \in DOMAIN Scenario.history : Scenario.history[i].tx["close"] # None

\* What docs/LIVE_CONSENSUS_TESTING.md:198 says of restarts: they do not
\* submit a duplicate write.
NoDuplicateWrite ==
    \A g, h \in DOMAIN txs :
        txs[g].kind = txs[h].kind /\ txs[g].target = txs[h].target => g = h
=============================================================================
