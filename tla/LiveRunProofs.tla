---------------------------- MODULE LiveRunProofs ----------------------------
(***************************************************************************)
(* What a live run's artifact may be relied on for, however often the      *)
(* process stops and starts, however many scenarios it replaces and        *)
(* whatever the chain does meanwhile.                                      *)
(*                                                                         *)
(* The invariant has a part for the chain, one for the artifact on disk    *)
(* and one for where the process is.  The last two are about a given       *)
(* artifact and position, so that what a handler leaves behind can be      *)
(* described before it is the next state.                                  *)
(***************************************************************************)
EXTENDS LiveRun, FiniteSetTheorems, TLAPS

Actions == {Absent, "CANCEL", "EXPIRE"}

Executions == {Absent, "FINISHED_WITH_RETURN", "FINISHED_WITH_ERROR"}

Transactions ==
    [kind: Kinds, target: Nat, status: {"PENDING", "ACCEPTED", "FINALIZED", "UNDETERMINED"},
     action: Actions, execution: Executions]

Bounties ==
    [title: Nat, status: {Absent, "OPEN", "LOCKED", "FILLED", "CANCELLED", "EXPIRED"},
     submission_deadline: Nat, evaluation_deadline: Nat]

SubmissionStatuses ==
    {Absent, "PENDING", "INCONCLUSIVE", "APPROVED", "REJECTED", "SUPERSEDED"}

Submissions ==
    [bounty: Nat, digest: {"initial", "changed"}, status: SubmissionStatuses,
     reason: {Absent, "FETCH_FAILED", "DIGEST_MISMATCH", "CRITERIA_NOT_MET", "ALL_MET"},
     attempts: Nat]

Closures == {"CANCELLED", "EXPIRED"}

Entries ==
    [title: Nat, bountyId: Nat, tx: [Kinds -> Nat], closureAction: Actions,
     status: Closures \union {"POST_TRANSACTION_FAILED"}]

Scenarios ==
    [title: Nat, bountyId: Nat, submissionId: Nat, tx: [Kinds -> Nat], closureAction: Actions,
     history: Seq(Entries)]

Labels ==
    {"post", "CANCEL", "EXPIRE", "submit mutable evidence", "evaluate mutated evidence"} \X Nat

Checkpoints == [label: Labels, phase: Phases]

Logs == UNION {[hashes -> Checkpoints] : hashes \in SUBSET Nat}

Artifacts ==
    [status: {"RUNNING", "FAILED", "BLOCKED_EXTERNAL_RPC", "COMPLETE"},
     mutation: MutationStates, webhook: {Absent, "CONFIRMED"},
     inconclusive: {Absent, "FETCH_FAILED", "DIGEST_MISMATCH"},
     scenario: Scenarios, txs: Logs]

Locals ==
    [exact: Nat, bounty: Bounties, submission: SubmissionStatuses, closing: Actions,
     reuse: BOOLEAN, replaced: Nat]

-----------------------------------------------------------------------------
(***************************************************************************)
(* The invariant.                                                          *)
(***************************************************************************)

Final(h) ==
    h \in DOMAIN txs /\ txs[h].status = "FINALIZED" /\ txs[h].execution = "FINISHED_WITH_RETURN"

\* What a transaction names exists, a post cannot revert, and an evaluation
\* that returned was counted.
Executed(tx) ==
    /\ tx.kind \in {"submit", "close"} => tx.target \in DOMAIN bounties
    /\ tx.kind = "evaluate" => tx.target \in DOMAIN submissions
    /\ tx.kind = "post" /\ tx.status \in {"ACCEPTED", "FINALIZED"} =>
        tx.execution = "FINISHED_WITH_RETURN"
    /\ tx.kind = "evaluate" /\ tx.execution = "FINISHED_WITH_RETURN" =>
        submissions[tx.target].attempts > 0

\* A page that was changed when it was submitted is one the worker serves, and
\* a mismatch is never found in such a submission.
Evaluated(sub) ==
    /\ sub.bounty \in DOMAIN bounties
    /\ sub.digest = "changed" => mutated
    /\ sub.reason = "DIGEST_MISMATCH" => sub.digest = "initial"

ChainInv ==
    /\ now \in 0..MaxTime /\ starts \in 0..MaxStarts
    /\ txs \in Seq(Transactions) /\ bounties \in Seq(Bounties) /\ submissions \in Seq(Submissions)
    /\ mutated \in BOOLEAN /\ undetermined \in Nat
    /\ \A h \in DOMAIN txs : Executed(txs[h])
    /\ \A x \in DOMAIN submissions : Evaluated(submissions[x])

\* Labels find only transactions of their own scenario: that of a closure names
\* a title, each title is used once, and the current one's is for its bounty.
LabelOK(s, checkpoint, h) ==
    LET name  == checkpoint.label[1]
        title == checkpoint.label[2]
    IN  /\ name = "post" => txs[h].kind = "post" /\ txs[h].target = title
        /\ name \in {"CANCEL", "EXPIRE"} =>
            /\ txs[h].kind = "close" /\ txs[h].action = name
            /\ title <= s.title
            /\ title = s.title => txs[h].target = s.bountyId

\* A checkpoint claims success only of what is final, and the failure of a
\* post only when it can no longer create a bounty.
PhaseOK(checkpoint, h) ==
    /\ checkpoint.phase = "FINALIZED" => Final(h)
    /\ checkpoint.phase = "FAILED" /\ txs[h].kind = "post" => txs[h].status = "UNDETERMINED"

LogOK(log, s) ==
    /\ DOMAIN log \subseteq DOMAIN txs
    /\ \A h \in DOMAIN log : LabelOK(s, log[h], h) /\ PhaseOK(log[h], h)

\* The record is its scenario's own, and an id on record is one of a final
\* transaction.
ScenarioOK(s, log) ==
    /\ s.title = Len(s.history) + 1
    /\ s.bountyId \in {None} \union DOMAIN bounties
    /\ s.submissionId \in {None} \union DOMAIN submissions
    /\ \A k \in Kinds : s.tx[k] \in {None} \union DOMAIN log
    /\ RecordIsBound(s)
    /\ s.submissionId # None => submissions[s.submissionId].bounty = s.bountyId
    /\ s.tx["evaluate"] # None =>
        /\ txs[s.tx["evaluate"]].kind = "evaluate"
        /\ txs[s.tx["evaluate"]].target = s.submissionId
    /\ s.bountyId # None => Final(s.tx["post"])
    /\ s.submissionId # None => Final(s.tx["submit"])

EntryOK(r, log) ==
    /\ \A k \in Kinds : r.tx[k] \in {None} \union DOMAIN log
    /\ RecordIsBound(r)
    /\ IF r.status = "POST_TRANSACTION_FAILED"
       THEN /\ r.bountyId = None /\ r.tx["post"] # None
            /\ txs[r.tx["post"]].status = "UNDETERMINED"
       ELSE /\ r.bountyId \in DOMAIN bounties /\ r.tx["close"] # None
            /\ bounties[r.bountyId].status \in Closures

HistoryOK(history, log) == \A i \in DOMAIN history : EntryOK(history[i], log)

MutationOK(p) ==
    /\ mutated => p.mutation # "NOT_STARTED"
    /\ p.mutation = "CONFIRMED" => mutated

ArtifactOK(p) ==
    /\ p \in Artifacts
    /\ LogOK(p.txs, p.scenario)
    /\ ScenarioOK(p.scenario, p.txs)
    /\ HistoryOK(p.scenario.history, p.txs)
    /\ MutationOK(p)

Waits == {"wait_accepted", "observed", "wait_finalized"}

\* What the step being established needs of the record.
StepOK(s, k) ==
    /\ k \in Kinds
    /\ k # "post" => s.bountyId # None
    /\ k = "evaluate" => s.submissionId # None

\* The id that the step establishes, if it establishes one.
Known(s, k) == IF k = "post" THEN s.bountyId ELSE s.submissionId

\* The bounty or submission that was listed before its transaction was waited for.
ExactOK(s, w, k, exact) ==
    exact # None =>
        /\ w \in Waits /\ k \in {"post", "submit"} /\ Known(s, k) = None
        /\ IF k = "post"
           THEN exact \in DOMAIN bounties /\ bounties[exact].title = s.title
           ELSE exact \in DOMAIN submissions /\ submissions[exact].bounty = s.bountyId

\* What is sent, or has been sent and is not on record.
TargetOf(s, k) ==
    CASE k = "post" -> s.title
      [] k = "evaluate" -> s.submissionId
      [] OTHER -> s.bountyId

SendOK(p, w, k, l) ==
    w \in {"send", "sent"} =>
        /\ k \in {"post", "submit"} => Known(p.scenario, k) = None
        /\ k = "close" => l.closing \in {"CANCEL", "EXPIRE"}
        /\ w = "sent" =>
            /\ Len(txs) \in DOMAIN txs \ DOMAIN p.txs
            /\ txs[Len(txs)].kind = k
            /\ txs[Len(txs)].target = TargetOf(p.scenario, k)
            /\ k = "close" => txs[Len(txs)].action = l.closing

DoneOK(p) ==
    /\ p.mutation = "CONFIRMED"
    /\ p.scenario.submissionId # None
    /\ Final(p.scenario.tx["evaluate"])
    /\ p.inconclusive = "DIGEST_MISMATCH" =>
        submissions[p.scenario.submissionId].digest = "initial"

PositionOK(p, w, k, l) ==
    /\ l \in Locals
    /\ StepOK(p.scenario, k)
    /\ ExactOK(p.scenario, w, k, l.exact)
    /\ SendOK(p, w, k, l)
    /\ w \in Waits \union {"relist", "read_close", "read_evaluate"} => p.scenario.tx[k] # None
    /\ w \in {"list", "relist"} => k \in {"post", "submit"} /\ Known(p.scenario, k) = None
    /\ w = "relist" => Final(p.scenario.tx[k])
    /\ w = "read_back" => k \in {"post", "submit"} /\ Known(p.scenario, k) # None
    /\ w \in {"read_bounty", "read_clock"} => p.scenario.bountyId # None
    /\ w = "read_submission" => p.scenario.submissionId # None
    /\ w = "read_close" => k = "close"
    /\ w = "read_evaluate" => k = "evaluate" /\ Final(p.scenario.tx["evaluate"])
    /\ w \in {"webhook", "webhook_answered"} => k = "evaluate" /\ p.mutation = "PENDING"
    /\ w = "webhook_answered" => mutated
    /\ k = "evaluate" /\ w \notin {"webhook", "webhook_answered"} => p.mutation = "CONFIRMED"
    /\ w = "done" => DoneOK(p)

RunInv == ChainInv /\ ArtifactOK(proof) /\ PositionOK(proof, pc, step, local)

-----------------------------------------------------------------------------
(***************************************************************************)
(* What the invariant says by itself.                                      *)
(***************************************************************************)

\* The kinds are told apart.
LEMMA KindsDiffer ==
    /\ {"post", "submit", "close", "evaluate"} \subseteq Kinds
    /\ \A k \in Kinds : k \in {"post", "submit", "close", "evaluate"}
    BY DEF Kinds

\* The fields of an artifact, of its record and of what it replaced.
LEMMA ArtifactParts ==
    ASSUME NEW p \in Artifacts
    PROVE  /\ p.status \in {"RUNNING", "FAILED", "BLOCKED_EXTERNAL_RPC", "COMPLETE"}
           /\ p.mutation \in MutationStates
           /\ p.webhook \in {Absent, "CONFIRMED"}
           /\ p.inconclusive \in {Absent, "FETCH_FAILED", "DIGEST_MISMATCH"}
           /\ p.scenario \in Scenarios
           /\ p.txs \in Logs
    BY Zenon DEF Artifacts

LEMMA ScenarioParts ==
    ASSUME NEW s \in Scenarios
    PROVE  /\ s.title \in Nat /\ s.bountyId \in Nat /\ s.submissionId \in Nat
           /\ s.tx \in [Kinds -> Nat]
           /\ s.closureAction \in Actions
           /\ s.history \in Seq(Entries)
    BY Zenon DEF Scenarios

LEMMA EntryParts ==
    ASSUME NEW r \in Entries
    PROVE  /\ r.title \in Nat /\ r.bountyId \in Nat
           /\ r.tx \in [Kinds -> Nat]
           /\ r.closureAction \in Actions
           /\ r.status \in Closures \union {"POST_TRANSACTION_FAILED"}
    BY Zenon DEF Entries

LEMMA LocalParts ==
    ASSUME NEW l \in Locals
    PROVE  /\ l.exact \in Nat /\ l.bounty \in Bounties /\ l.submission \in SubmissionStatuses
           /\ l.closing \in Actions /\ l.reuse \in BOOLEAN /\ l.replaced \in Nat
    BY Zenon DEF Locals

LEMMA LogParts ==
    ASSUME NEW log \in Logs
    PROVE  log \in [DOMAIN log -> Checkpoints] /\ DOMAIN log \in SUBSET Nat
    BY DEF Logs

LEMMA CheckpointParts ==
    ASSUME NEW checkpoint \in Checkpoints
    PROVE  checkpoint.label \in Labels /\ checkpoint.phase \in Phases
    BY Zenon DEF Checkpoints

\* A run's records keep their types.
LEMMA RunTyped == RunInv => TypeOK
<1> SUFFICES ASSUME RunInv PROVE TypeOK
    OBVIOUS
<1>1. now \in 0..MaxTime /\ starts \in 0..MaxStarts
    BY DEF RunInv, ChainInv
<1>2. ArtifactOK(proof)
    BY DEF RunInv
<1>3. proof \in Artifacts
    BY <1>2 DEF ArtifactOK
<1>4. proof.mutation \in MutationStates /\ Scenario \in Scenarios
    BY <1>3, ArtifactParts DEF Scenario
<1>5. Recorded \subseteq DOMAIN txs
    BY <1>2 DEF ArtifactOK, LogOK, Recorded
<1>6. \A h \in Recorded : proof.txs[h].phase \in Phases
    BY <1>3, ArtifactParts, LogParts, CheckpointParts DEF Recorded
<1>7. /\ \A k \in Kinds : Scenario.tx[k] \in {None} \union Recorded
      /\ Scenario.bountyId \in {None} \union DOMAIN bounties
      /\ Scenario.submissionId \in {None} \union DOMAIN submissions
    BY <1>2 DEF ArtifactOK, ScenarioOK, Scenario, Recorded
<1>8. pc \in {"wait_accepted", "observed", "wait_finalized"} => Scenario.tx[step] # None
    BY DEF RunInv, PositionOK, Waits, Scenario
<1>9. pc = "sent" => Len(txs) \notin Recorded
    BY DEF RunInv, PositionOK, SendOK, Recorded
<1> QED BY <1>1, <1>4, <1>5, <1>6, <1>7, <1>8, <1>9 DEF TypeOK

\* What a record points at is its scenario's own.
LEMMA RunBound == RunInv => RecordedHashesAreBound
<1> SUFFICES ASSUME RunInv PROVE RecordedHashesAreBound
    OBVIOUS
<1>1. ScenarioOK(Scenario, proof.txs) /\ HistoryOK(Scenario.history, proof.txs)
    BY DEF RunInv, ArtifactOK, Scenario
<1>2. /\ RecordIsBound(Scenario)
      /\ Scenario.submissionId # None =>
            submissions[Scenario.submissionId].bounty = Scenario.bountyId
      /\ Scenario.tx["evaluate"] # None =>
            /\ txs[Scenario.tx["evaluate"]].kind = "evaluate"
            /\ txs[Scenario.tx["evaluate"]].target = Scenario.submissionId
    BY <1>1 DEF ScenarioOK
<1>3. \A i \in DOMAIN Scenario.history : RecordIsBound(Scenario.history[i])
    BY <1>1 DEF HistoryOK, EntryOK
<1> QED BY <1>2, <1>3 DEF RecordedHashesAreBound

\* Replaced scenarios left no reward behind.
LEMMA RunClosed == RunInv => ReplacedScenarioIsClosed
<1> SUFFICES ASSUME RunInv, NEW i \in DOMAIN Scenario.history
             PROVE  LET r == Scenario.history[i]
                    IN  IF r.status = "POST_TRANSACTION_FAILED"
                        THEN r.bountyId = None /\ txs[r.tx["post"]].status = "UNDETERMINED"
                        ELSE bounties[r.bountyId].status \in {"CANCELLED", "EXPIRED"}
    BY DEF ReplacedScenarioIsClosed
<1>1. EntryOK(Scenario.history[i], proof.txs)
    BY DEF RunInv, ArtifactOK, HistoryOK, Scenario
<1> QED BY <1>1 DEF EntryOK, Closures

\* A complete run did what it says.
LEMMA RunEarned == RunInv => CompleteIsEarned
<1> SUFFICES ASSUME RunInv, pc = "done"
             PROVE  /\ mutated /\ proof.mutation = "CONFIRMED"
                    /\ \A k \in {"post", "submit", "evaluate"} :
                        LET tx == txs[Scenario.tx[k]]
                        IN  tx.status = "FINALIZED" /\ tx.execution = "FINISHED_WITH_RETURN"
                    /\ submissions[Scenario.submissionId].attempts > 0
                    /\ proof.inconclusive = "DIGEST_MISMATCH" =>
                        submissions[Scenario.submissionId].digest = "initial"
                    /\ Exportable =>
                        \A i \in DOMAIN Scenario.history : Scenario.history[i].tx["close"] # None
    BY DEF CompleteIsEarned
<1>1. ArtifactOK(proof) /\ DoneOK(proof)
    BY DEF RunInv, PositionOK
<1>2. ScenarioOK(Scenario, proof.txs)
    BY <1>1 DEF ArtifactOK, Scenario
<1>3. /\ proof.mutation = "CONFIRMED"
      /\ Scenario.submissionId # None
      /\ Final(Scenario.tx["evaluate"])
      /\ proof.inconclusive = "DIGEST_MISMATCH" =>
            submissions[Scenario.submissionId].digest = "initial"
    BY <1>1 DEF DoneOK, Scenario
<1>4. mutated
    BY <1>1, <1>3 DEF ArtifactOK, MutationOK
<1>5. Scenario.submissionId \in DOMAIN submissions /\ Final(Scenario.tx["submit"])
    BY <1>2, <1>3 DEF ScenarioOK
<1>6. submissions[Scenario.submissionId].bounty = Scenario.bountyId
    BY <1>2, <1>3 DEF ScenarioOK
<1>7. Scenario.bountyId \in DOMAIN bounties
    BY <1>5, <1>6 DEF RunInv, ChainInv, Evaluated
<1>8. bounties \in Seq(Bounties) /\ txs \in Seq(Transactions)
    BY DEF RunInv, ChainInv
<1>9. Scenario.bountyId # None
    BY <1>7, <1>8 DEF None
<1>10. Final(Scenario.tx["post"])
    BY <1>2, <1>9 DEF ScenarioOK
<1>11. Scenario.tx["evaluate"] # None
    BY <1>3, <1>8 DEF Final, None
<1>12. /\ txs[Scenario.tx["evaluate"]].kind = "evaluate"
       /\ txs[Scenario.tx["evaluate"]].target = Scenario.submissionId
    BY <1>2, <1>11 DEF ScenarioOK
<1>13. submissions[Scenario.submissionId].attempts > 0
    BY <1>3, <1>12 DEF RunInv, ChainInv, Executed, Final
<1>14. ASSUME Exportable, NEW i \in DOMAIN Scenario.history
       PROVE  Scenario.history[i].tx["close"] # None
    <2> DEFINE r == Scenario.history[i]
    <2>1. EntryOK(r, proof.txs)
        BY <1>1 DEF ArtifactOK, HistoryOK, Scenario
    <2>2. SUFFICES ASSUME r.status = "POST_TRANSACTION_FAILED" PROVE FALSE
        BY <2>1 DEF EntryOK
    <2>3. r.tx["post"] # None /\ txs[r.tx["post"]].status = "UNDETERMINED"
        BY <2>1, <2>2 DEF EntryOK
    <2>4. SuccessfulOnRecord(r.tx["post"])
        BY <1>14, <2>3 DEF Exportable, PublicScenarioHistory, Kinds
    <2>5. Final(r.tx["post"])
        BY <1>1, <2>4 DEF ArtifactOK, LogOK, PhaseOK, SuccessfulOnRecord, Recorded
    <2> QED BY <2>3, <2>5 DEF Final
<1> QED BY <1>3, <1>4, <1>5, <1>10, <1>13, <1>14 DEF Final

\* At first nothing is on record.
LEMMA RunStart == Init => RunInv
<1> SUFFICES ASSUME Init PROVE RunInv
    OBVIOUS
<1>1. ChainInv
    <2>1. MaxTime \in Nat /\ MaxStarts \in Nat
        BY LiveRunAssumption
    <2>2. /\ now = 0 /\ starts = 0 /\ undetermined = 0 /\ mutated = FALSE
          /\ txs = <<>> /\ bounties = <<>> /\ submissions = <<>>
        BY DEF Init
    <2>3. now \in 0..MaxTime /\ starts \in 0..MaxStarts /\ undetermined \in Nat
        BY <2>1, <2>2
    <2>4. txs \in Seq(Transactions) /\ bounties \in Seq(Bounties) /\ submissions \in Seq(Submissions)
        BY <2>2
    <2>5. DOMAIN txs = {} /\ DOMAIN submissions = {}
        BY <2>2
    <2> QED BY <2>2, <2>3, <2>4, <2>5 DEF ChainInv
<1>2. proof.scenario = CreateScenarioRecord(1, <<>>) /\ proof.txs = <<>>
    BY DEF Init
<1>3. proof.scenario \in Scenarios
    BY <1>2 DEF CreateScenarioRecord, Scenarios, Actions, None
<1>4. proof.txs \in Logs
    <2>1. proof.txs \in [{} -> Checkpoints]
        BY <1>2
    <2> QED BY <2>1 DEF Logs
<1>5. proof \in Artifacts
    BY <1>3, <1>4 DEF Init, Artifacts, MutationStates
<1>6. LogOK(proof.txs, proof.scenario)
    BY <1>2 DEF LogOK
<1>7. ScenarioOK(proof.scenario, proof.txs) /\ HistoryOK(proof.scenario.history, proof.txs)
    BY <1>2 DEF ScenarioOK, HistoryOK, RecordIsBound, CreateScenarioRecord, None, Kinds
<1>8. MutationOK(proof)
    BY DEF Init, MutationOK
<1>9. PositionOK(proof, pc, step, local)
    <2>1. Nothing \in Locals
        BY DEF Nothing, NoBounty, Locals, Bounties, SubmissionStatuses, Actions, None
    <2>2. local = Nothing /\ pc = "down" /\ step = "post" /\ Nothing.exact = None
        BY DEF Init, Nothing
    <2> QED BY <2>1, <2>2 DEF PositionOK, StepOK, ExactOK, SendOK, Waits, Kinds
<1> QED BY <1>1, <1>5, <1>6, <1>7, <1>8, <1>9 DEF RunInv, ArtifactOK

-----------------------------------------------------------------------------
(***************************************************************************)
(* The chain.  It forgets nothing, and what is settled stays settled.      *)
(***************************************************************************)

TransactionsGoOn ==
    /\ DOMAIN txs \subseteq DOMAIN txs'
    /\ \A h \in DOMAIN txs :
        /\ txs'[h].kind = txs[h].kind
        /\ txs'[h].target = txs[h].target
        /\ txs'[h].action = txs[h].action
        /\ txs[h].status \in {"FINALIZED", "UNDETERMINED"} =>
            txs'[h].status = txs[h].status /\ txs'[h].execution = txs[h].execution

LedgerGoesOn ==
    /\ DOMAIN bounties \subseteq DOMAIN bounties'
    /\ DOMAIN submissions \subseteq DOMAIN submissions'
    /\ \A b \in DOMAIN bounties :
        /\ bounties'[b].title = bounties[b].title
        /\ bounties[b].status \in Closures => bounties'[b].status = bounties[b].status
    /\ \A x \in DOMAIN submissions :
        /\ submissions'[x].bounty = submissions[x].bounty
        /\ submissions'[x].digest = submissions[x].digest
        /\ submissions'[x].attempts >= submissions[x].attempts

LedgerTyped ==
    /\ bounties \in Seq(Bounties) /\ submissions \in Seq(Submissions)
    /\ \A x \in DOMAIN submissions : Evaluated(submissions[x])

\* The fields of what the chain holds.
LEMMA TransactionParts ==
    ASSUME NEW tx \in Transactions
    PROVE  /\ tx.kind \in Kinds /\ tx.target \in Nat
           /\ tx.status \in {"PENDING", "ACCEPTED", "FINALIZED", "UNDETERMINED"}
           /\ tx.action \in Actions /\ tx.execution \in Executions
    BY Zenon DEF Transactions

LEMMA BountyParts ==
    ASSUME NEW b \in Bounties
    PROVE  /\ b.title \in Nat
           /\ b.status \in {Absent, "OPEN", "LOCKED", "FILLED", "CANCELLED", "EXPIRED"}
           /\ b.submission_deadline \in Nat /\ b.evaluation_deadline \in Nat
    BY Zenon DEF Bounties

LEMMA SubmissionParts ==
    ASSUME NEW sub \in Submissions
    PROVE  /\ sub.bounty \in Nat /\ sub.digest \in {"initial", "changed"}
           /\ sub.status \in SubmissionStatuses
           /\ sub.reason \in {Absent, "FETCH_FAILED", "DIGEST_MISMATCH", "CRITERIA_NOT_MET",
                              "ALL_MET"}
           /\ sub.attempts \in Nat
    BY Zenon DEF Submissions

\* Records with another status.
LEMMA BountyRestated ==
    ASSUME NEW b \in Bounties,
           NEW status \in {"OPEN", "LOCKED", "FILLED", "CANCELLED", "EXPIRED"}
    PROVE  /\ [b EXCEPT !.status = status] \in Bounties
           /\ [b EXCEPT !.status = status].title = b.title
           /\ [b EXCEPT !.status = status].status = status
    BY DEF Bounties

LEMMA SubmissionRestated ==
    ASSUME NEW sub \in Submissions, NEW status \in SubmissionStatuses
    PROVE  /\ [sub EXCEPT !.status = status] \in Submissions
           /\ [sub EXCEPT !.status = status].bounty = sub.bounty
           /\ [sub EXCEPT !.status = status].digest = sub.digest
           /\ [sub EXCEPT !.status = status].reason = sub.reason
           /\ [sub EXCEPT !.status = status].attempts = sub.attempts
    BY DEF Submissions

\* One transaction moves, the others and the number of them stay.
LEMMA TransactionsMove ==
    ASSUME txs \in Seq(Transactions), NEW h \in DOMAIN txs, NEW execution \in Executions,
           NEW status \in {"PENDING", "ACCEPTED", "FINALIZED", "UNDETERMINED"},
           Moved(h, status, execution),
           txs[h].status \notin {"FINALIZED", "UNDETERMINED"}
    PROVE  /\ txs' \in Seq(Transactions)
           /\ TransactionsGoOn
           /\ Len(txs') = Len(txs) /\ DOMAIN txs' = DOMAIN txs
           /\ \A g \in DOMAIN txs \ {h} : txs'[g] = txs[g]
           /\ txs'[h].status = status /\ txs'[h].execution = execution
<1> DEFINE moved == [[txs[h] EXCEPT !.status = status] EXCEPT !.execution = execution]
<1>1. txs' = [txs EXCEPT ![h] = moved]
    BY DEF Moved
<1>2. /\ moved \in Transactions
      /\ moved.kind = txs[h].kind /\ moved.target = txs[h].target /\ moved.action = txs[h].action
      /\ moved.status = status /\ moved.execution = execution
    <2>1. txs[h] \in Transactions
        OBVIOUS
    <2> QED BY <2>1 DEF Transactions
<1> HIDE DEF moved
<1> QED BY <1>1, <1>2 DEF TransactionsGoOn

\* A bounty's new status; one that is closed does not get one.
LEMMA BountyMoves ==
    ASSUME LedgerTyped, NEW b \in DOMAIN bounties,
           NEW status \in {"OPEN", "LOCKED", "FILLED", "CANCELLED", "EXPIRED"},
           Active(b), bounties' = [bounties EXCEPT ![b].status = status]
    PROVE  /\ bounties' \in Seq(Bounties) /\ DOMAIN bounties' = DOMAIN bounties
           /\ \A c \in DOMAIN bounties :
                /\ bounties'[c].title = bounties[c].title
                /\ bounties[c].status \in Closures => bounties'[c].status = bounties[c].status
<1> DEFINE moved == [bounties[b] EXCEPT !.status = status]
<1>1. bounties' = [bounties EXCEPT ![b] = moved]
    OBVIOUS
<1>2. bounties[b] \in Bounties /\ bounties \in Seq(Bounties)
    BY DEF LedgerTyped
<1>3. moved \in Bounties /\ moved.title = bounties[b].title
    BY <1>2, BountyRestated
<1>4. bounties[b].status \notin Closures
    BY DEF Active, Closures
<1> HIDE DEF moved
<1> QED BY <1>1, <1>2, <1>3, <1>4

\* Submissions that change one at most, and not what they are about.
LEMMA LedgerKept ==
    ASSUME LedgerTyped, mutated' = mutated,
           bounties' \in Seq(Bounties), DOMAIN bounties' = DOMAIN bounties,
           submissions' \in Seq(Submissions), DOMAIN submissions' = DOMAIN submissions,
           \A c \in DOMAIN bounties :
                /\ bounties'[c].title = bounties[c].title
                /\ bounties[c].status \in Closures => bounties'[c].status = bounties[c].status,
           \A x \in DOMAIN submissions :
                /\ submissions'[x].bounty = submissions[x].bounty
                /\ submissions'[x].digest = submissions[x].digest
                /\ submissions'[x].attempts >= submissions[x].attempts
                /\ submissions'[x].reason = "DIGEST_MISMATCH" =>
                    \/ submissions[x].reason = "DIGEST_MISMATCH"
                    \/ submissions[x].digest = "initial"
    PROVE  LedgerTyped' /\ LedgerGoesOn
<1>1. \A x \in DOMAIN submissions' : Evaluated(submissions[x])'
    BY DEF LedgerTyped, Evaluated
<1>2. LedgerTyped'
    BY <1>1 DEF LedgerTyped
<1> QED BY <1>2 DEF LedgerGoesOn

\* The end of a bounty, and of what was undecided in it.
LEMMA LedgerCloses ==
    ASSUME LedgerTyped, mutated' = mutated, NEW b \in DOMAIN bounties, Active(b),
           NEW status \in {"CANCELLED", "EXPIRED"}, Closed(b, status)
    PROVE  LedgerTyped' /\ LedgerGoesOn
<1>1. /\ bounties' \in Seq(Bounties) /\ DOMAIN bounties' = DOMAIN bounties
      /\ \A c \in DOMAIN bounties :
            /\ bounties'[c].title = bounties[c].title
            /\ bounties[c].status \in Closures => bounties'[c].status = bounties[c].status
    BY BountyMoves DEF Closed
<1>2. submissions \in Seq(Submissions)
    BY DEF LedgerTyped
<1>3. ASSUME NEW x \in DOMAIN submissions
      PROVE  LET after == IF submissions[x].bounty = b
                             /\ submissions[x].status \in {"PENDING", "INCONCLUSIVE"}
                          THEN [submissions[x] EXCEPT !.status = "SUPERSEDED"]
                          ELSE submissions[x]
             IN  /\ submissions'[x] = after
                 /\ after \in Submissions
                 /\ after.bounty = submissions[x].bounty
                 /\ after.digest = submissions[x].digest
                 /\ after.reason = submissions[x].reason
                 /\ after.attempts = submissions[x].attempts
    <2>1. submissions[x] \in Submissions /\ "SUPERSEDED" \in SubmissionStatuses
        BY <1>2 DEF SubmissionStatuses
    <2> QED BY <2>1, SubmissionRestated DEF Closed
<1>4. /\ DOMAIN submissions' = DOMAIN submissions
      /\ \A x \in DOMAIN submissions :
            /\ submissions'[x] \in Submissions
            /\ submissions'[x].bounty = submissions[x].bounty
            /\ submissions'[x].digest = submissions[x].digest
            /\ submissions'[x].reason = submissions[x].reason
            /\ submissions'[x].attempts = submissions[x].attempts
    BY <1>3 DEF Closed
<1>5. submissions' \in Seq(Submissions)
    <2>1. submissions' = [x \in 1..Len(submissions) |-> submissions'[x]]
        BY <1>2 DEF Closed
    <2>2. submissions' \in [1..Len(submissions) -> Submissions]
        BY <1>2, <1>4, <2>1
    <2> QED BY <1>2, <2>2
<1>6. \A x \in DOMAIN submissions : submissions[x].attempts \in Nat
    BY <1>2, SubmissionParts
<1> QED BY <1>1, <1>4, <1>5, <1>6, LedgerKept

\* A transaction that executes.
LEMMA LedgerPosts ==
    ASSUME LedgerTyped, mutated' = mutated, now \in Nat,
           NEW tx \in Transactions, tx.kind = "post", Effect(tx)
    PROVE  LedgerTyped' /\ LedgerGoesOn
<1> DEFINE added == [title |-> tx.target, status |-> "OPEN", submission_deadline |-> now + Window,
                     evaluation_deadline |-> now + 2 * Window]
<1>1. bounties' = Append(bounties, added) /\ submissions' = submissions
    BY DEF Effect
<1>2. now + Window \in Nat /\ now + 2 * Window \in Nat
    BY LiveRunAssumption
<1>3. added \in Bounties
    BY <1>2, TransactionParts DEF Bounties
<1> HIDE DEF added
<1>4. /\ bounties \in Seq(Bounties) /\ submissions \in Seq(Submissions)
      /\ \A x \in DOMAIN submissions : Evaluated(submissions[x]) /\ submissions[x].attempts \in Nat
    BY SubmissionParts DEF LedgerTyped
<1>5. bounties' \in Seq(Bounties) /\ DOMAIN bounties \subseteq DOMAIN bounties'
    BY <1>1, <1>3, <1>4
<1>6. \A b \in DOMAIN bounties : bounties'[b] = bounties[b]
    BY <1>1, <1>3, <1>4
<1>7. \A x \in DOMAIN submissions' : Evaluated(submissions[x])'
    BY <1>1, <1>4, <1>5 DEF Evaluated
<1>8. LedgerTyped'
    BY <1>1, <1>4, <1>5, <1>7 DEF LedgerTyped
<1> QED BY <1>1, <1>4, <1>5, <1>6, <1>8 DEF LedgerGoesOn

LEMMA LedgerSubmits ==
    ASSUME LedgerTyped, mutated' = mutated, mutated \in BOOLEAN,
           NEW tx \in Transactions, tx.kind = "submit", tx.target \in DOMAIN bounties,
           CanExecute(tx), Effect(tx)
    PROVE  LedgerTyped' /\ LedgerGoesOn
<1> DEFINE added == [bounty |-> tx.target, digest |-> Page, status |-> "PENDING",
                     reason |-> Absent, attempts |-> 0]
<1>1. /\ submissions' = Append(submissions, added)
      /\ bounties' = [bounties EXCEPT ![tx.target].status = "LOCKED"]
    BY DEF Effect
<1>2. Active(tx.target)
    BY DEF CanExecute
<1>3. /\ bounties' \in Seq(Bounties) /\ DOMAIN bounties' = DOMAIN bounties
      /\ \A c \in DOMAIN bounties :
            /\ bounties'[c].title = bounties[c].title
            /\ bounties[c].status \in Closures => bounties'[c].status = bounties[c].status
    BY <1>1, <1>2, BountyMoves
<1>4. Page \in {"initial", "changed"} /\ (Page = "changed" => mutated)
    BY DEF Page
<1>5. added \in Submissions
    BY <1>4, TransactionParts DEF Submissions, SubmissionStatuses
<1>6. added.bounty = tx.target /\ added.digest = Page /\ added.reason = Absent
    OBVIOUS
<1>7. Absent # "DIGEST_MISMATCH"
    BY Zenon DEF Absent
<1> HIDE DEF added
<1>8. /\ submissions \in Seq(Submissions)
      /\ \A x \in DOMAIN submissions : Evaluated(submissions[x]) /\ submissions[x].attempts \in Nat
    BY SubmissionParts DEF LedgerTyped
<1>9. /\ submissions' \in Seq(Submissions)
      /\ DOMAIN submissions' = DOMAIN submissions \union {Len(submissions) + 1}
      /\ \A x \in DOMAIN submissions : submissions'[x] = submissions[x]
      /\ submissions'[Len(submissions) + 1] = added
    BY <1>1, <1>5, <1>8
<1>10. \A x \in DOMAIN submissions' : Evaluated(submissions[x])'
    BY <1>3, <1>4, <1>6, <1>7, <1>8, <1>9 DEF Evaluated
<1>11. LedgerTyped'
    BY <1>3, <1>9, <1>10 DEF LedgerTyped
<1> QED BY <1>3, <1>8, <1>9, <1>11 DEF LedgerGoesOn

LEMMA LedgerEvaluates ==
    ASSUME LedgerTyped, mutated' = mutated, mutated \in BOOLEAN,
           NEW tx \in Transactions, tx.kind = "evaluate", tx.target \in DOMAIN submissions,
           CanExecute(tx), Effect(tx)
    PROVE  /\ LedgerTyped' /\ LedgerGoesOn
           /\ submissions'[tx.target].attempts = submissions[tx.target].attempts + 1
<1> DEFINE sub == submissions[tx.target]
<1>1. PICK v \in Verdicts(sub) :
        /\ submissions' = [submissions EXCEPT ![tx.target].status = v[1],
                                              ![tx.target].reason = v[2],
                                              ![tx.target].attempts = @ + 1]
        /\ bounties' = IF v[1] = "APPROVED"
                       THEN [bounties EXCEPT ![sub.bounty].status = "FILLED"] ELSE bounties
    BY DEF Effect
<1>2. /\ submissions \in Seq(Submissions) /\ bounties \in Seq(Bounties) /\ sub \in Submissions
      /\ Evaluated(sub) /\ \A x \in DOMAIN submissions : submissions[x].attempts \in Nat
    BY SubmissionParts DEF LedgerTyped
<1>3. sub.bounty \in DOMAIN bounties /\ Active(sub.bounty)
    BY <1>2 DEF Evaluated, CanExecute
<1>4. /\ v[1] \in {"INCONCLUSIVE", "APPROVED", "REJECTED"}
      /\ v[2] \in {"FETCH_FAILED", "DIGEST_MISMATCH", "CRITERIA_NOT_MET", "ALL_MET"}
      /\ v[2] = "DIGEST_MISMATCH" => sub.digest # Page
    BY DEF Verdicts
<1>5. sub.digest # Page => sub.digest = "initial"
    BY <1>2, SubmissionParts DEF Page, Evaluated
<1> DEFINE judged == [[[sub EXCEPT !.status = v[1]] EXCEPT !.reason = v[2]]
                EXCEPT !.attempts = sub.attempts + 1]
<1>7. submissions' = [submissions EXCEPT ![tx.target] = judged]
    BY <1>1
<1>8. /\ judged \in Submissions
      /\ judged.bounty = sub.bounty /\ judged.digest = sub.digest
      /\ judged.reason = v[2] /\ judged.attempts = sub.attempts + 1
    <2>1. v[1] \in SubmissionStatuses /\ sub.attempts + 1 \in Nat
        BY <1>2, <1>4, SubmissionParts DEF SubmissionStatuses
    <2>2. ASSUME NEW n \in Nat
          PROVE  LET judging == [[[sub EXCEPT !.status = v[1]] EXCEPT !.reason = v[2]]
                                    EXCEPT !.attempts = n]
                 IN  /\ judging \in Submissions
                     /\ judging.bounty = sub.bounty /\ judging.digest = sub.digest
                     /\ judging.reason = v[2] /\ judging.attempts = n
        <3> HIDE DEF sub
        <3> QED BY <1>2, <1>4, <2>1 DEF Submissions
    <2> QED BY <2>1, <2>2
<1> HIDE DEF judged
<1>9. /\ submissions' \in Seq(Submissions) /\ DOMAIN submissions' = DOMAIN submissions
      /\ submissions'[tx.target] = judged
      /\ \A x \in DOMAIN submissions \ {tx.target} : submissions'[x] = submissions[x]
    BY <1>2, <1>7, <1>8
<1>10. /\ bounties' \in Seq(Bounties) /\ DOMAIN bounties' = DOMAIN bounties
       /\ \A c \in DOMAIN bounties :
            /\ bounties'[c].title = bounties[c].title
            /\ bounties[c].status \in Closures => bounties'[c].status = bounties[c].status
    <2>1. CASE v[1] = "APPROVED"
        <3>1. bounties' = [bounties EXCEPT ![sub.bounty].status = "FILLED"]
            BY <1>1, <2>1
        <3> HIDE DEF sub
        <3> QED BY <1>3, <3>1, BountyMoves
    <2>2. CASE v[1] # "APPROVED"
        BY <1>1, <1>2, <2>2
    <2> QED BY <2>1, <2>2
<1>11. \A x \in DOMAIN submissions :
            /\ submissions'[x].bounty = submissions[x].bounty
            /\ submissions'[x].digest = submissions[x].digest
            /\ submissions'[x].attempts >= submissions[x].attempts
            /\ submissions'[x].reason = "DIGEST_MISMATCH" =>
                \/ submissions[x].reason = "DIGEST_MISMATCH"
                \/ submissions[x].digest = "initial"
    BY <1>2, <1>4, <1>5, <1>8, <1>9
<1>12. LedgerTyped' /\ LedgerGoesOn
    BY <1>9, <1>10, <1>11, LedgerKept
<1> QED BY <1>8, <1>9, <1>12

\* What a transaction says of its execution stays so while the ledger goes on.
LEMMA ExecutedGoesOn ==
    ASSUME LedgerTyped, LedgerTyped', LedgerGoesOn, txs' \in Seq(Transactions),
           NEW h \in DOMAIN txs, h \in DOMAIN txs', Executed(txs[h]), txs'[h] = txs[h]
    PROVE  Executed(txs[h])'
<1>1. \A x \in DOMAIN submissions :
        submissions[x].attempts \in Nat /\ submissions'[x].attempts \in Nat
    BY SubmissionParts DEF LedgerTyped, LedgerGoesOn
<1> QED BY <1>1 DEF Executed, LedgerGoesOn

\* One transaction moves and the ledger with it.
LEMMA ChainMoves ==
    ASSUME ChainInv, LedgerTyped', LedgerGoesOn, mutated' = mutated, undetermined' \in Nat,
           UNCHANGED <<now, starts>>,
           NEW h \in DOMAIN txs, NEW execution \in Executions,
           NEW status \in {"ACCEPTED", "FINALIZED", "UNDETERMINED"},
           Moved(h, status, execution),
           txs[h].status \notin {"FINALIZED", "UNDETERMINED"},
           txs[h].kind = "post" /\ status # "UNDETERMINED" => execution = "FINISHED_WITH_RETURN",
           txs[h].kind = "evaluate" /\ execution = "FINISHED_WITH_RETURN" =>
                submissions'[txs[h].target].attempts > 0
    PROVE  ChainInv' /\ TransactionsGoOn /\ Len(txs') = Len(txs)
<1>1. txs \in Seq(Transactions) /\ LedgerTyped
    BY DEF ChainInv, LedgerTyped
<1>2. /\ txs' \in Seq(Transactions)
      /\ TransactionsGoOn
      /\ Len(txs') = Len(txs) /\ DOMAIN txs' = DOMAIN txs
      /\ \A g \in DOMAIN txs \ {h} : txs'[g] = txs[g]
      /\ txs'[h].status = status /\ txs'[h].execution = execution
    BY <1>1, TransactionsMove
<1>3. txs'[h].kind = txs[h].kind /\ txs'[h].target = txs[h].target
    BY <1>2 DEF TransactionsGoOn
<1>4. \A g \in DOMAIN txs : Executed(txs[g])
    BY DEF ChainInv
<1>5. Executed(txs[h])'
    BY <1>2, <1>3, <1>4 DEF Executed, LedgerGoesOn
<1>6. \A g \in DOMAIN txs' : Executed(txs[g])'
    <2> TAKE g \in DOMAIN txs'
    <2>1. CASE g = h
        BY <1>5, <2>1
    <2>2. CASE g # h
        BY <1>1, <1>2, <1>4, <2>2, ExecutedGoesOn
    <2> QED BY <2>1, <2>2
<1> QED BY <1>2, <1>6 DEF ChainInv, LedgerTyped

\* Nothing on the ledger moves.
LEMMA LedgerRests ==
    ASSUME LedgerTyped, UNCHANGED <<bounties, submissions, mutated>>
    PROVE  LedgerTyped' /\ LedgerGoesOn
<1>1. \A x \in DOMAIN submissions : submissions[x].attempts \in Nat
    BY SubmissionParts DEF LedgerTyped
<1> QED BY <1>1 DEF LedgerTyped, LedgerGoesOn, Evaluated

Onward ==
    ChainInv' /\ TransactionsGoOn /\ LedgerGoesOn

\* A transaction executes, reverts, finds no majority or becomes final.
LEMMA ExecuteGoesOn ==
    ASSUME ChainInv, NEW h \in DOMAIN txs, Execute(h), UNCHANGED <<now, mutated, starts>>
    PROVE  Onward /\ Len(txs') = Len(txs)
<1>1. /\ txs[h].status = "PENDING" /\ CanExecute(txs[h])
      /\ Moved(h, "ACCEPTED", "FINISHED_WITH_RETURN")
      /\ Effect(txs[h])
      /\ UNCHANGED undetermined
    BY DEF Execute
<1>2. /\ txs[h] \in Transactions /\ Executed(txs[h]) /\ LedgerTyped
      /\ mutated \in BOOLEAN /\ undetermined \in Nat
    BY DEF ChainInv, LedgerTyped
<1>3. now \in Nat
    BY LiveRunAssumption DEF ChainInv
<1>4. /\ LedgerTyped' /\ LedgerGoesOn
      /\ txs[h].kind = "evaluate" => submissions'[txs[h].target].attempts > 0
    <2>1. CASE txs[h].kind = "post"
        BY <1>1, <1>2, <1>3, <2>1, LedgerPosts
    <2>2. CASE txs[h].kind = "submit"
        BY <1>1, <1>2, <2>2, LedgerSubmits DEF Executed
    <2>3. CASE txs[h].kind = "close"
        <3> DEFINE status == IF txs[h].action = "CANCEL" THEN "CANCELLED" ELSE "EXPIRED"
        <3>1. Closed(txs[h].target, status) /\ Active(txs[h].target)
            BY <1>1, <2>3 DEF Effect, CanExecute, Active
        <3>2. txs[h].target \in DOMAIN bounties /\ status \in {"CANCELLED", "EXPIRED"}
            BY <1>2, <2>3 DEF Executed
        <3> HIDE DEF status
        <3> QED BY <1>2, <2>3, <3>1, <3>2, LedgerCloses
    <2>4. CASE txs[h].kind = "evaluate"
        <3>1. txs[h].target \in DOMAIN submissions
            BY <1>2, <2>4 DEF Executed
        <3>2. submissions[txs[h].target].attempts \in Nat
            BY <1>2, <3>1, SubmissionParts DEF LedgerTyped
        <3> QED BY <1>1, <1>2, <2>4, <3>1, <3>2, LedgerEvaluates
    <2> QED BY <1>2, <2>1, <2>2, <2>3, <2>4, TransactionParts, KindsDiffer
<1>5. "FINISHED_WITH_RETURN" \in Executions
    BY DEF Executions
<1> QED BY <1>1, <1>2, <1>4, <1>5, ChainMoves DEF Onward

LEMMA RevertGoesOn ==
    ASSUME ChainInv, NEW h \in DOMAIN txs, Revert(h), UNCHANGED <<now, mutated, starts>>
    PROVE  Onward /\ Len(txs') = Len(txs)
<1>1. /\ txs[h].status = "PENDING" /\ txs[h].kind # "post"
      /\ Moved(h, "ACCEPTED", "FINISHED_WITH_ERROR")
    BY DEF Revert, CanExecute
<1>2. LedgerTyped' /\ LedgerGoesOn /\ undetermined' \in Nat
    BY LedgerRests DEF Revert, ChainInv, LedgerTyped
<1>3. "FINISHED_WITH_ERROR" \in Executions
    BY DEF Executions
<1> QED BY <1>1, <1>2, <1>3, ChainMoves DEF Onward

LEMMA NoMajorityGoesOn ==
    ASSUME ChainInv, NEW h \in DOMAIN txs, NoMajority(h), UNCHANGED <<now, mutated, starts>>
    PROVE  Onward /\ Len(txs') = Len(txs)
<1>1. txs[h].status = "PENDING" /\ Moved(h, "UNDETERMINED", Absent)
    BY DEF NoMajority
<1>2. LedgerTyped' /\ LedgerGoesOn /\ undetermined' \in Nat
    BY LedgerRests DEF NoMajority, ChainInv, LedgerTyped
<1>3. Absent \in Executions /\ Absent # "FINISHED_WITH_RETURN"
    BY Zenon DEF Executions, Absent
<1> QED BY <1>1, <1>2, <1>3, ChainMoves DEF Onward

LEMMA FinalizeGoesOn ==
    ASSUME ChainInv, NEW h \in DOMAIN txs, Finalize(h), UNCHANGED <<now, mutated, starts>>
    PROVE  Onward /\ Len(txs') = Len(txs)
<1>1. txs[h].status = "ACCEPTED" /\ Moved(h, "FINALIZED", txs[h].execution)
    BY DEF Finalize
<1>2. LedgerTyped' /\ LedgerGoesOn /\ undetermined' \in Nat
    BY LedgerRests DEF Finalize, ChainInv, LedgerTyped
<1>3. /\ txs[h] \in Transactions /\ Executed(txs[h])
      /\ submissions' = submissions
    BY DEF ChainInv, Finalize
<1>4. txs[h].execution \in Executions
    BY <1>3, TransactionParts
<1>5. /\ txs[h].kind = "post" => txs[h].execution = "FINISHED_WITH_RETURN"
      /\ txs[h].kind = "evaluate" /\ txs[h].execution = "FINISHED_WITH_RETURN" =>
            submissions'[txs[h].target].attempts > 0
    BY <1>1, <1>3 DEF Executed
<1> QED BY <1>1, <1>2, <1>4, <1>5, ChainMoves DEF Onward

\* Nothing is sent.
LEMMA TransactionsRest ==
    ASSUME ChainInv, LedgerTyped', LedgerGoesOn,
           mutated' \in BOOLEAN, now' \in 0..MaxTime, starts' \in 0..MaxStarts,
           UNCHANGED <<txs, undetermined>>
    PROVE  Onward /\ Len(txs') = Len(txs)
<1>1. /\ txs \in Seq(Transactions) /\ LedgerTyped
      /\ \A h \in DOMAIN txs : Executed(txs[h])
    BY DEF ChainInv, LedgerTyped
<1>2. \A h \in DOMAIN txs' : Executed(txs[h])'
    BY <1>1, ExecutedGoesOn
<1> QED BY <1>1, <1>2 DEF Onward, ChainInv, LedgerTyped, TransactionsGoOn

\* Somebody else closes a bounty.
LEMMA ExpireGoesOn ==
    ASSUME ChainInv, NEW b \in DOMAIN bounties, ExpireByOther(b), UNCHANGED <<now, mutated, starts>>
    PROVE  Onward /\ Len(txs') = Len(txs)
<1>1. LedgerTyped
    BY DEF ChainInv, LedgerTyped
<1>2. LedgerTyped' /\ LedgerGoesOn
    BY <1>1, LedgerCloses DEF ExpireByOther
<1> QED BY <1>2, TransactionsRest DEF ExpireByOther, ChainInv

\* Time passes, or the process does something that is no transaction.
LEMMA ChainRests ==
    ASSUME ChainInv, UNCHANGED <<chain, mutated>>,
           now' \in 0..MaxTime, starts' \in 0..MaxStarts
    PROVE  Onward /\ Len(txs') = Len(txs)
<1>1. LedgerTyped' /\ LedgerGoesOn
    BY LedgerRests DEF ChainInv, LedgerTyped, chain
<1> QED BY <1>1, TransactionsRest DEF chain, ChainInv

LEMMA ChainGoesOn ==
    ASSUME ChainInv, Chain \/ Tick
    PROVE  Onward /\ Len(txs') = Len(txs)
<1>1. UNCHANGED <<mutated, starts>>
    BY DEF Chain, Tick, Unaware
<1>2. CASE Chain
    <2>1. UNCHANGED now
        BY <1>2 DEF Chain
    <2>2. \/ \E h \in DOMAIN txs : Execute(h) \/ Revert(h) \/ NoMajority(h) \/ Finalize(h)
          \/ \E b \in DOMAIN bounties : ExpireByOther(b)
        BY <1>2 DEF Chain
    <2> QED BY <1>1, <2>1, <2>2, ExecuteGoesOn, RevertGoesOn, NoMajorityGoesOn, FinalizeGoesOn,
               ExpireGoesOn
<1>3. CASE Tick
    <2>1. now' \in 0..MaxTime /\ starts' \in 0..MaxStarts /\ UNCHANGED chain
        BY <1>1, <1>3, LiveRunAssumption DEF Tick, ChainInv
    <2> QED BY <1>1, <2>1, ChainRests
<1> QED BY <1>2, <1>3

-----------------------------------------------------------------------------
(***************************************************************************)
(* An artifact stays right while the chain goes on.                        *)
(***************************************************************************)

LEMMA FinalGoesOn ==
    ASSUME TransactionsGoOn, NEW h, Final(h)
    PROVE  Final(h)'
    BY DEF TransactionsGoOn, Final

\* Its hashes and ids are those of the chain, and None is none.
LEMMA NoneIsNoId ==
    ASSUME ChainInv
    PROVE  None \notin DOMAIN txs /\ None \notin DOMAIN bounties /\ None \notin DOMAIN submissions
    BY DEF ChainInv, None

LEMMA BoundGoesOn ==
    ASSUME TransactionsGoOn, LedgerGoesOn, NEW r, NEW log, DOMAIN log \subseteq DOMAIN txs,
           r.bountyId \in {None} \union DOMAIN bounties,
           \A k \in Kinds : r.tx[k] \in {None} \union DOMAIN log,
           RecordIsBound(r)
    PROVE  RecordIsBound(r)'
<1>1. r.bountyId # None => bounties'[r.bountyId].title = r.title
    BY DEF RecordIsBound, LedgerGoesOn
<1>2. r.tx["post"] # None =>
        txs'[r.tx["post"]].kind = "post" /\ txs'[r.tx["post"]].target = r.title
    BY KindsDiffer DEF RecordIsBound, TransactionsGoOn
<1>3. r.tx["submit"] # None =>
        txs'[r.tx["submit"]].kind = "submit" /\ txs'[r.tx["submit"]].target = r.bountyId
    BY KindsDiffer DEF RecordIsBound, TransactionsGoOn
<1>4. r.tx["close"] # None =>
        /\ txs'[r.tx["close"]].kind = "close" /\ txs'[r.tx["close"]].target = r.bountyId
        /\ txs'[r.tx["close"]].action = r.closureAction
    BY KindsDiffer DEF RecordIsBound, TransactionsGoOn
<1> QED BY <1>1, <1>2, <1>3, <1>4 DEF RecordIsBound

LEMMA LogGoesOn ==
    ASSUME TransactionsGoOn, NEW s, NEW log, LogOK(log, s)
    PROVE  LogOK(log, s)'
<1>1. DOMAIN log \subseteq DOMAIN txs'
    BY DEF LogOK, TransactionsGoOn
<1>2. ASSUME NEW h \in DOMAIN log PROVE LabelOK(s, log[h], h)'
    BY DEF LogOK, LabelOK, TransactionsGoOn
<1>3. ASSUME NEW h \in DOMAIN log PROVE PhaseOK(log[h], h)'
    <2>1. h \in DOMAIN txs /\ PhaseOK(log[h], h)
        BY DEF LogOK
    <2>2. log[h].phase = "FINALIZED" => Final(h)'
        BY <2>1, FinalGoesOn DEF PhaseOK
    <2>3. log[h].phase = "FAILED" /\ txs'[h].kind = "post" => txs'[h].status = "UNDETERMINED"
        BY <2>1 DEF PhaseOK, TransactionsGoOn
    <2> QED BY <2>2, <2>3 DEF PhaseOK
<1> QED BY <1>1, <1>2, <1>3 DEF LogOK

LEMMA ScenarioGoesOn ==
    ASSUME TransactionsGoOn, LedgerGoesOn, NEW s, NEW log, DOMAIN log \subseteq DOMAIN txs,
           ScenarioOK(s, log)
    PROVE  ScenarioOK(s, log)'
<1>1. RecordIsBound(s)'
    BY BoundGoesOn DEF ScenarioOK
<1>2. s.bountyId # None => Final(s.tx["post"])'
    BY FinalGoesOn DEF ScenarioOK
<1>3. s.submissionId # None => Final(s.tx["submit"])'
    BY FinalGoesOn DEF ScenarioOK
<1>4. /\ s.bountyId \in {None} \union DOMAIN bounties'
      /\ s.submissionId \in {None} \union DOMAIN submissions'
      /\ s.submissionId # None => submissions'[s.submissionId].bounty = s.bountyId
    BY DEF ScenarioOK, LedgerGoesOn
<1>5. s.tx["evaluate"] # None =>
        /\ txs'[s.tx["evaluate"]].kind = "evaluate"
        /\ txs'[s.tx["evaluate"]].target = s.submissionId
    BY KindsDiffer DEF ScenarioOK, TransactionsGoOn
<1>6. s.title = Len(s.history) + 1 /\ \A k \in Kinds : s.tx[k] \in {None} \union DOMAIN log
    BY DEF ScenarioOK
<1> QED BY <1>1, <1>2, <1>3, <1>4, <1>5, <1>6 DEF ScenarioOK

LEMMA EntryGoesOn ==
    ASSUME TransactionsGoOn, LedgerGoesOn, NEW r, NEW log, DOMAIN log \subseteq DOMAIN txs,
           EntryOK(r, log)
    PROVE  EntryOK(r, log)'
<1>1. r.bountyId \in {None} \union DOMAIN bounties
    BY DEF EntryOK
<1>2. RecordIsBound(r)'
    BY <1>1, BoundGoesOn DEF EntryOK
<1>3. CASE r.status = "POST_TRANSACTION_FAILED"
    <2>1. r.tx["post"] \in DOMAIN txs /\ txs[r.tx["post"]].status = "UNDETERMINED"
        BY <1>3, KindsDiffer DEF EntryOK
    <2>2. txs'[r.tx["post"]].status = "UNDETERMINED"
        BY <2>1 DEF TransactionsGoOn
    <2> QED BY <1>2, <1>3, <2>2 DEF EntryOK
<1>4. CASE r.status # "POST_TRANSACTION_FAILED"
    BY <1>2, <1>4 DEF EntryOK, LedgerGoesOn
<1> QED BY <1>3, <1>4

LEMMA HistoryGoesOn ==
    ASSUME TransactionsGoOn, LedgerGoesOn, NEW history, NEW log, DOMAIN log \subseteq DOMAIN txs,
           HistoryOK(history, log)
    PROVE  HistoryOK(history, log)'
<1>1. \A i \in DOMAIN history : EntryOK(history[i], log)'
    BY EntryGoesOn DEF HistoryOK
<1> QED BY <1>1 DEF HistoryOK

LEMMA ArtifactGoesOn ==
    ASSUME TransactionsGoOn, LedgerGoesOn, NEW p, ArtifactOK(p), MutationOK(p)'
    PROVE  ArtifactOK(p)'
<1>1. DOMAIN p.txs \subseteq DOMAIN txs
    BY DEF ArtifactOK, LogOK
<1>2. LogOK(p.txs, p.scenario)'
    BY LogGoesOn DEF ArtifactOK
<1>3. ScenarioOK(p.scenario, p.txs)'
    BY <1>1, ScenarioGoesOn DEF ArtifactOK
<1>4. HistoryOK(p.scenario.history, p.txs)'
    BY <1>1, HistoryGoesOn DEF ArtifactOK
<1> QED BY <1>2, <1>3, <1>4 DEF ArtifactOK

\* So does the process where it is, unless it sends something.
LEMMA PositionGoesOn ==
    ASSUME TransactionsGoOn, LedgerGoesOn, ChainInv, ChainInv', Len(txs') = Len(txs),
           mutated => mutated',
           NEW p, NEW w, NEW k, NEW l, ArtifactOK(p), PositionOK(p, w, k, l)
    PROVE  PositionOK(p, w, k, l)'
<1>1. StepOK(p.scenario, k)'
    BY DEF PositionOK, StepOK
<1>2. ExactOK(p.scenario, w, k, l.exact)'
    BY DEF PositionOK, ExactOK, Known, LedgerGoesOn
<1>3. SendOK(p, w, k, l)'
    <2>1. SendOK(p, w, k, l)
        BY DEF PositionOK
    <2>2. SUFFICES ASSUME w = "sent"
                   PROVE  /\ Len(txs') \in DOMAIN txs' \ DOMAIN p.txs
                          /\ txs'[Len(txs')].kind = k
                          /\ txs'[Len(txs')].target = TargetOf(p.scenario, k)
                          /\ k = "close" => txs'[Len(txs')].action = l.closing
        BY <2>1 DEF SendOK, TargetOf
    <2>3. /\ Len(txs) \in DOMAIN txs \ DOMAIN p.txs
          /\ txs[Len(txs)].kind = k
          /\ txs[Len(txs)].target = TargetOf(p.scenario, k)
          /\ k = "close" => txs[Len(txs)].action = l.closing
        BY <2>1, <2>2 DEF SendOK
    <2> QED BY <2>3 DEF TransactionsGoOn
<1>4. w = "relist" => Final(p.scenario.tx[k])'
    BY FinalGoesOn DEF PositionOK
<1>5. w = "read_evaluate" => Final(p.scenario.tx["evaluate"])'
    BY FinalGoesOn DEF PositionOK
<1>6. w = "webhook_answered" => mutated'
    BY DEF PositionOK
<1>7. w = "done" => DoneOK(p)'
    <2>1. SUFFICES ASSUME w = "done" PROVE DoneOK(p)'
        OBVIOUS
    <2>2. DoneOK(p)
        BY <2>1 DEF PositionOK
    <2>3. p.scenario.submissionId \in DOMAIN submissions
        BY <2>2 DEF DoneOK, ArtifactOK, ScenarioOK
    <2>4. Final(p.scenario.tx["evaluate"])'
        BY <2>2, FinalGoesOn DEF DoneOK
    <2> QED BY <2>2, <2>3, <2>4 DEF DoneOK, LedgerGoesOn
<1>8. /\ l \in Locals
      /\ w \in Waits \union {"relist", "read_close", "read_evaluate"} => p.scenario.tx[k] # None
      /\ w \in {"list", "relist"} => k \in {"post", "submit"} /\ Known(p.scenario, k) = None
      /\ w = "read_back" => k \in {"post", "submit"} /\ Known(p.scenario, k) # None
      /\ w \in {"read_bounty", "read_clock"} => p.scenario.bountyId # None
      /\ w = "read_submission" => p.scenario.submissionId # None
      /\ w = "read_close" => k = "close"
      /\ w = "read_evaluate" => k = "evaluate"
      /\ w \in {"webhook", "webhook_answered"} => k = "evaluate" /\ p.mutation = "PENDING"
      /\ k = "evaluate" /\ w \notin {"webhook", "webhook_answered"} => p.mutation = "CONFIRMED"
    BY DEF PositionOK
<1> QED BY <1>1, <1>2, <1>3, <1>4, <1>5, <1>6, <1>7, <1>8 DEF PositionOK, Known

-----------------------------------------------------------------------------
(***************************************************************************)
(* What the process leaves behind.                                         *)
(***************************************************************************)

\* An artifact and a position that are right, of a chain that has not moved.
Arrived == ArtifactOK(proof') /\ PositionOK(proof', pc', step', local')

LEMMA GoArrives ==
    ASSUME NEW w, NEW k, NEW p, NEW l, Go(w, k, p, l), ArtifactOK(p), PositionOK(p, w, k, l)
    PROVE  Arrived
    BY DEF Arrived, Go

LEMMA NothingIsLocal == Nothing \in Locals /\ Nothing.exact = None
    BY DEF Nothing, NoBounty, Locals, Bounties, SubmissionStatuses, Actions, None

\* An artifact says nothing of the chain but in its record, its checkpoints and
\* the state of the mutation.
LEMMA ArtifactRewritten ==
    ASSUME NEW p, NEW q \in Artifacts, ArtifactOK(p),
           q.txs = p.txs, q.scenario = p.scenario, MutationOK(q)
    PROVE  ArtifactOK(q)
    BY DEF ArtifactOK

LEMMA FailArrives ==
    ASSUME NEW p, ArtifactOK(p), NEW status \in {"FAILED", "BLOCKED_EXTERNAL_RPC"}, Fail(p, status)
    PROVE  Arrived
<1> DEFINE q == [p EXCEPT !.status = status]
<1>1. p \in Artifacts
    BY DEF ArtifactOK
<1>2. /\ q \in Artifacts /\ q.txs = p.txs /\ q.scenario = p.scenario /\ q.mutation = p.mutation
    BY <1>1 DEF Artifacts
<1>3. Go("down", "post", q, Nothing)
    BY DEF Fail
<1> HIDE DEF q
<1>4. ArtifactOK(q)
    BY <1>2, ArtifactRewritten DEF ArtifactOK, MutationOK
<1>5. PositionOK(q, "down", "post", Nothing)
    BY NothingIsLocal, KindsDiffer DEF PositionOK, StepOK, ExactOK, SendOK, Waits
<1> QED BY <1>3, <1>4, <1>5, GoArrives

LEMMA ThrowArrives ==
    ASSUME NEW p, ArtifactOK(p), Throw(p) PROVE Arrived
    BY FailArrives DEF Throw

\* A lookup by label finds a checkpoint with that label.
LEMMA UniqueFound ==
    ASSUME NEW label, UniqueUsableTransaction(label) \notin {None, Refused}
    PROVE  /\ UniqueUsableTransaction(label) \in Recorded
           /\ proof.txs[UniqueUsableTransaction(label)].label = label
<1> DEFINE matches == {h \in Recorded : Usable(h, label)}
<1>1. matches # {} /\ Cardinality(matches) = 1
    BY DEF UniqueUsableTransaction
<1>2. UniqueUsableTransaction(label) = CHOOSE h \in matches : TRUE
    BY <1>1 DEF UniqueUsableTransaction
<1>3. UniqueUsableTransaction(label) \in matches
    BY <1>1, <1>2
<1> QED BY <1>3 DEF Usable

LEMMA StoredFound ==
    ASSUME NEW kind \in Kinds, NEW s, NEW action,
           StoredTransaction(kind, s, action) \notin {None, Refused}
    PROVE  /\ StoredTransaction(kind, s, action) \in Recorded
           /\ proof.txs[StoredTransaction(kind, s, action)].label = Label(kind, s, action)
           /\ kind \in {"submit", "evaluate"} => StoredTransaction(kind, s, action) = s.tx[kind]
<1>1. CASE s.tx[kind] # None
    BY <1>1 DEF StoredTransaction, Usable
<1>2. CASE s.tx[kind] = None /\ kind \in {"post", "close"}
    BY <1>2, UniqueFound DEF StoredTransaction
<1>3. CASE s.tx[kind] = None /\ kind \notin {"post", "close"}
    BY <1>3 DEF StoredTransaction
<1> QED BY <1>1, <1>2, <1>3

\* A record that has its submission has its bounty.
LEMMA SubmittedIsPosted ==
    ASSUME ChainInv, NEW p, ArtifactOK(p), p.scenario.submissionId # None
    PROVE  /\ p.scenario.bountyId # None
           /\ p.scenario.submissionId \in DOMAIN submissions
           /\ p.scenario.tx["submit"] # None
<1>1. ScenarioOK(p.scenario, p.txs)
    BY DEF ArtifactOK
<1>2. /\ p.scenario.submissionId \in DOMAIN submissions
      /\ submissions[p.scenario.submissionId].bounty = p.scenario.bountyId
      /\ Final(p.scenario.tx["submit"])
    BY <1>1 DEF ScenarioOK
<1>3. p.scenario.bountyId \in DOMAIN bounties
    BY <1>2 DEF ChainInv, Evaluated
<1> QED BY <1>2, <1>3, NoneIsNoId DEF Final

LEMMA PostedIsSent ==
    ASSUME ChainInv, NEW p, ArtifactOK(p), p.scenario.bountyId # None
    PROVE  p.scenario.bountyId \in DOMAIN bounties /\ p.scenario.tx["post"] # None
    BY NoneIsNoId DEF ArtifactOK, ScenarioOK, Final

\* Positions with no demands but on the record.
LEMMA QuietPosition ==
    ASSUME NEW p, NEW w, NEW k, NEW l \in Locals, l.exact = None, StepOK(p.scenario, k),
           w \notin {"send", "sent", "list", "relist", "read_back", "read_bounty", "read_clock",
                     "read_submission", "read_close", "read_evaluate", "webhook",
                     "webhook_answered", "done"},
           w \in Waits => p.scenario.tx[k] # None,
           k = "evaluate" => p.mutation = "CONFIRMED"
    PROVE  PositionOK(p, w, k, l)
    BY DEF PositionOK, ExactOK, SendOK

LEMMA WaitArrives ==
    ASSUME NEW k \in Kinds, NEW p, NEW l \in Locals, ArtifactOK(p), WaitOrThrow(k, p, l),
           l.exact = None, StepOK(p.scenario, k), p.scenario.tx[k] # None,
           k = "evaluate" => p.mutation = "CONFIRMED"
    PROVE  Arrived
<1>1. CASE StoredTransaction(k, p.scenario, Absent) \in {None, Refused}
    BY <1>1, ThrowArrives DEF WaitOrThrow
<1>2. CASE StoredTransaction(k, p.scenario, Absent) \notin {None, Refused}
    <2>1. Go("wait_accepted", k, p, l)
        BY <1>2 DEF WaitOrThrow
    <2>2. PositionOK(p, "wait_accepted", k, l)
        BY QuietPosition
    <2> QED BY <2>1, <2>2, GoArrives
<1> QED BY <1>1, <1>2

LEMMA EnterPostArrives ==
    ASSUME ChainInv, NEW p, NEW l \in Locals, ArtifactOK(p), EnterPost(p, l), l.exact = None
    PROVE  Arrived
<1>1. "post" \in Kinds /\ StepOK(p.scenario, "post")
    BY KindsDiffer DEF StepOK
<1>2. CASE p.scenario.bountyId # None
    BY <1>1, <1>2, PostedIsSent, WaitArrives DEF EnterPost
<1>3. CASE p.scenario.bountyId = None
    <2>1. Go("list", "post", p, l)
        BY <1>3 DEF EnterPost
    <2>2. PositionOK(p, "list", "post", l)
        BY <1>1, <1>3 DEF PositionOK, ExactOK, SendOK, Known, Waits
    <2> QED BY <2>1, <2>2, GoArrives
<1> QED BY <1>2, <1>3

LEMMA EnterSubmitArrives ==
    ASSUME ChainInv, NEW p, NEW l \in Locals, ArtifactOK(p), EnterSubmit(p, l), l.exact = None,
           p.scenario.bountyId # None
    PROVE  Arrived
<1>1. "submit" \in Kinds /\ StepOK(p.scenario, "submit")
    BY KindsDiffer DEF StepOK
<1>2. CASE p.scenario.submissionId # None
    BY <1>1, <1>2, SubmittedIsPosted, WaitArrives DEF EnterSubmit
<1>3. CASE p.scenario.submissionId = None
    <2>1. Go("list", "submit", p, l)
        BY <1>3 DEF EnterSubmit
    <2>2. PositionOK(p, "list", "submit", l)
        BY <1>1, <1>3 DEF PositionOK, ExactOK, SendOK, Known, Waits
    <2> QED BY <2>1, <2>2, GoArrives
<1> QED BY <1>2, <1>3

LEMMA EnterEvaluateArrives ==
    ASSUME ChainInv, NEW p, NEW l \in Locals, ArtifactOK(p), EnterEvaluate(p, l), l.exact = None,
           p.scenario.submissionId # None, p.mutation = "CONFIRMED"
    PROVE  Arrived
<1>1. "evaluate" \in Kinds /\ StepOK(p.scenario, "evaluate")
    BY SubmittedIsPosted, KindsDiffer DEF StepOK
<1>2. CASE p.scenario.tx["evaluate"] # None
    BY <1>1, <1>2, WaitArrives DEF EnterEvaluate
<1>3. CASE p.scenario.tx["evaluate"] = None
    <2>1. Go("send", "evaluate", p, l)
        BY <1>3 DEF EnterEvaluate
    <2>2. PositionOK(p, "send", "evaluate", l)
        BY <1>1 DEF PositionOK, ExactOK, SendOK, Waits
    <2> QED BY <2>1, <2>2, GoArrives
<1> QED BY <1>2, <1>3

LEMMA AfterScenarioArrives ==
    ASSUME ChainInv, NEW p, NEW l \in Locals, ArtifactOK(p), AfterScenario(p, l), l.exact = None,
           p.scenario.submissionId # None
    PROVE  Arrived
<1>1. CASE p.mutation = "CONFIRMED"
    BY <1>1, EnterEvaluateArrives DEF AfterScenario
<1>2. CASE p.mutation # "CONFIRMED"
    <2> DEFINE q == [p EXCEPT !.mutation = "PENDING"]
    <2>1. Go("webhook", "evaluate", q, l)
        BY <1>2 DEF AfterScenario
    <2>2. /\ q \in Artifacts /\ q.txs = p.txs /\ q.scenario = p.scenario
          /\ q.mutation = "PENDING"
        <3>1. p \in Artifacts /\ "PENDING" \in MutationStates
            BY DEF ArtifactOK, MutationStates
        <3> QED BY <3>1 DEF Artifacts
    <2> HIDE DEF q
    <2>3. ArtifactOK(q)
        BY <2>2, ArtifactRewritten DEF MutationOK
    <2>4. StepOK(q.scenario, "evaluate")
        BY <2>2, SubmittedIsPosted, KindsDiffer DEF StepOK
    <2>5. PositionOK(q, "webhook", "evaluate", l)
        BY <2>2, <2>4 DEF PositionOK, ExactOK, SendOK, Waits
    <2> QED BY <2>1, <2>3, <2>5, GoArrives
<1> QED BY <1>1, <1>2

LEMMA AfterPostArrives ==
    ASSUME ChainInv, NEW p, NEW l \in Locals, ArtifactOK(p), AfterPost(p, l), l.exact = None,
           p.scenario.bountyId # None
    PROVE  Arrived
<1>1. CASE p.scenario.submissionId # None \/ p.scenario.tx["submit"] # None
    BY <1>1, EnterSubmitArrives DEF AfterPost
<1>2. CASE ~(p.scenario.submissionId # None \/ p.scenario.tx["submit"] # None)
    <2>1. Go("read_bounty", "post", p, l)
        BY <1>2 DEF AfterPost
    <2>2. PositionOK(p, "read_bounty", "post", l)
        BY KindsDiffer DEF PositionOK, StepOK, ExactOK, SendOK, Waits
    <2> QED BY <2>1, <2>2, GoArrives
<1> QED BY <1>1, <1>2

LEMMA AfterSubmitArrives ==
    ASSUME ChainInv, NEW p, NEW l \in Locals, ArtifactOK(p), AfterSubmit(p, l), l.exact = None,
           p.scenario.submissionId # None
    PROVE  Arrived
<1>1. CASE l.reuse
    BY <1>1, AfterScenarioArrives DEF AfterSubmit
<1>2. CASE ~l.reuse
    <2>1. Go("read_bounty", "submit", p, l)
        BY <1>2 DEF AfterSubmit
    <2>2. PositionOK(p, "read_bounty", "submit", l)
        BY SubmittedIsPosted, KindsDiffer DEF PositionOK, StepOK, ExactOK, SendOK, Waits
    <2> QED BY <2>1, <2>2, GoArrives
<1> QED BY <1>1, <1>2

\* The artifact with another record.
LEMMA WithParts ==
    ASSUME proof \in Artifacts, NEW s \in Scenarios
    PROVE  /\ With(s) \in Artifacts /\ With(s).txs = proof.txs /\ With(s).scenario = s
           /\ With(s).mutation = proof.mutation
    BY DEF With, Artifacts

\* A record is replaced when its bounty is closed or will never be: its hashes
\* are kept as they were, and no label is the new title's.
LEMMA ReplacementIsRight ==
    ASSUME ChainInv, ArtifactOK(proof), NEW status \in Closures \union {"POST_TRANSACTION_FAILED"},
           IF status = "POST_TRANSACTION_FAILED"
           THEN /\ Scenario.bountyId = None /\ Scenario.tx["post"] # None
                /\ txs[Scenario.tx["post"]].status = "UNDETERMINED"
           ELSE /\ Scenario.bountyId \in DOMAIN bounties /\ Scenario.tx["close"] # None
                /\ bounties[Scenario.bountyId].status \in Closures
    PROVE  ArtifactOK(With(ReplaceScenarioRecord(Scenario, status)))
<1> DEFINE entry == [title |-> Scenario.title, bountyId |-> Scenario.bountyId, tx |-> Scenario.tx,
                     closureAction |-> Scenario.closureAction, status |-> status]
           next == ReplaceScenarioRecord(Scenario, status)
<1>1. /\ proof \in Artifacts /\ Scenario \in Scenarios /\ LogOK(proof.txs, Scenario)
      /\ ScenarioOK(Scenario, proof.txs) /\ HistoryOK(Scenario.history, proof.txs)
      /\ MutationOK(proof)
    BY ArtifactParts DEF ArtifactOK, Scenario
<1>2. /\ Scenario.title \in Nat /\ Scenario.bountyId \in Nat /\ Scenario.tx \in [Kinds -> Nat]
      /\ Scenario.closureAction \in Actions /\ Scenario.history \in Seq(Entries)
    BY <1>1, ScenarioParts
<1>3. entry \in Entries
    BY <1>2 DEF Entries
<1>4. EntryOK(entry, proof.txs)
    <2>1. /\ entry.bountyId = Scenario.bountyId /\ entry.tx = Scenario.tx
          /\ entry.title = Scenario.title /\ entry.closureAction = Scenario.closureAction
          /\ entry.status = status
        OBVIOUS
    <2> HIDE DEF entry
    <2>2. RecordIsBound(entry)
        BY <1>1, <2>1 DEF ScenarioOK, RecordIsBound
    <2>3. \A k \in Kinds : entry.tx[k] \in {None} \union DOMAIN proof.txs
        BY <1>1, <2>1 DEF ScenarioOK
    <2> QED BY <2>1, <2>2, <2>3 DEF EntryOK
<1>5. next = [title |-> Len(Scenario.history) + 2, bountyId |-> None, submissionId |-> None,
              tx |-> [k \in Kinds |-> None], closureAction |-> Absent,
              history |-> Append(Scenario.history, entry)]
    BY DEF ReplaceScenarioRecord, CreateScenarioRecord
<1> HIDE DEF entry, next
<1>6. /\ Append(Scenario.history, entry) \in Seq(Entries)
      /\ Len(Append(Scenario.history, entry)) = Len(Scenario.history) + 1
      /\ \A i \in DOMAIN Append(Scenario.history, entry) :
            \/ i \in DOMAIN Scenario.history
               /\ Append(Scenario.history, entry)[i] = Scenario.history[i]
            \/ Append(Scenario.history, entry)[i] = entry
    BY <1>2, <1>3
<1>7. /\ next.title = Len(Scenario.history) + 2 /\ next.bountyId = None
      /\ next.submissionId = None /\ \A k \in Kinds : next.tx[k] = None
      /\ next.history = Append(Scenario.history, entry)
    BY <1>5
<1>8. next \in Scenarios
    <2>1. Len(Scenario.history) + 2 \in Nat /\ None \in Nat /\ Absent \in Actions
        BY <1>2 DEF None, Actions
    <2> QED BY <1>5, <1>6, <2>1 DEF Scenarios
<1>9. LogOK(proof.txs, next)
    <2>1. next.title = Scenario.title + 1
        BY <1>1, <1>2, <1>7 DEF ScenarioOK
    <2>2. ASSUME NEW h \in DOMAIN proof.txs PROVE LabelOK(next, proof.txs[h], h)
        <3>1. LabelOK(Scenario, proof.txs[h], h)
            BY <1>1 DEF LogOK
        <3>2. proof.txs[h].label[2] \in Nat
            BY <1>1, ArtifactParts, LogParts, CheckpointParts DEF Labels
        <3> QED BY <1>2, <2>1, <3>1, <3>2 DEF LabelOK
    <2> QED BY <1>1, <2>2 DEF LogOK
<1>10. ScenarioOK(next, proof.txs)
    BY <1>2, <1>6, <1>7, KindsDiffer DEF ScenarioOK, RecordIsBound
<1>11. HistoryOK(next.history, proof.txs)
    BY <1>1, <1>4, <1>6, <1>7 DEF HistoryOK
<1>12. /\ With(next) \in Artifacts /\ With(next).txs = proof.txs /\ With(next).scenario = next
       /\ With(next).mutation = proof.mutation
    BY <1>1, <1>8, WithParts
<1> QED BY <1>1, <1>9, <1>10, <1>11, <1>12 DEF ArtifactOK, MutationOK, next

\* The id of a bounty or of a submission is added once its transaction is final.
LEMMA BountyIdentified ==
    ASSUME ChainInv, ArtifactOK(proof), Scenario.bountyId = None,
           NEW id \in DOMAIN bounties, bounties[id].title = Scenario.title,
           Final(Scenario.tx["post"]),
           NEW s, s = [Scenario EXCEPT !.bountyId = id]
    PROVE  ArtifactOK(With(s)) /\ With(s).scenario.bountyId # None
<1>1. /\ proof \in Artifacts /\ Scenario \in Scenarios /\ LogOK(proof.txs, Scenario)
      /\ ScenarioOK(Scenario, proof.txs) /\ HistoryOK(Scenario.history, proof.txs)
      /\ MutationOK(proof)
    BY ArtifactParts DEF ArtifactOK, Scenario
<1>2. id \in Nat /\ id # None
    BY NoneIsNoId DEF ChainInv
<1>3. /\ s \in Scenarios /\ s.bountyId = id /\ s.title = Scenario.title /\ s.tx = Scenario.tx
      /\ s.submissionId = Scenario.submissionId /\ s.history = Scenario.history
    BY <1>1, <1>2 DEF Scenarios
<1>4. /\ Scenario.submissionId = None
      /\ Scenario.tx["submit"] = None /\ Scenario.tx["close"] = None
    <2>1. \A x \in DOMAIN submissions : submissions[x].bounty # None
        BY NoneIsNoId DEF ChainInv, Evaluated
    <2>2. \A h \in DOMAIN txs : txs[h].kind \in {"submit", "close"} => txs[h].target # None
        BY NoneIsNoId DEF ChainInv, Executed
    <2>3. \A k \in Kinds : Scenario.tx[k] # None => Scenario.tx[k] \in DOMAIN txs
        BY <1>1 DEF ScenarioOK, LogOK
    <2>4. Scenario.submissionId = None
        BY <1>1, <2>1 DEF ScenarioOK
    <2>5. Scenario.tx["submit"] = None
        BY <1>1, <2>2, <2>3, KindsDiffer DEF ScenarioOK, RecordIsBound
    <2>6. Scenario.tx["close"] = None
        BY <1>1, <2>2, <2>3, KindsDiffer DEF ScenarioOK, RecordIsBound
    <2> QED BY <2>4, <2>5, <2>6
<1>5. ScenarioOK(s, proof.txs)
    <2>1. RecordIsBound(s)
        BY <1>1, <1>3, <1>4 DEF ScenarioOK, RecordIsBound
    <2> QED BY <1>1, <1>2, <1>3, <1>4, <2>1 DEF ScenarioOK
<1>6. LogOK(proof.txs, s)
    <2>1. ASSUME NEW h \in DOMAIN proof.txs PROVE LabelOK(s, proof.txs[h], h)
        <3>1. LabelOK(Scenario, proof.txs[h], h) /\ h \in DOMAIN txs
            BY <1>1 DEF LogOK
        <3>2. txs[h].kind = "close" => txs[h].target # None
            BY <3>1, NoneIsNoId DEF ChainInv, Executed
        <3> QED BY <1>3, <3>1, <3>2 DEF LabelOK
    <2> QED BY <1>1, <2>1 DEF LogOK
<1>7. /\ With(s) \in Artifacts /\ With(s).txs = proof.txs /\ With(s).scenario = s
      /\ With(s).mutation = proof.mutation
    BY <1>1, <1>3, WithParts
<1> QED BY <1>1, <1>2, <1>3, <1>5, <1>6, <1>7 DEF ArtifactOK, MutationOK

LEMMA SubmissionIdentified ==
    ASSUME ChainInv, ArtifactOK(proof), Scenario.submissionId = None,
           NEW id \in DOMAIN submissions, submissions[id].bounty = Scenario.bountyId,
           Final(Scenario.tx["submit"]),
           NEW s, s = [Scenario EXCEPT !.submissionId = id]
    PROVE  ArtifactOK(With(s)) /\ With(s).scenario.submissionId # None
<1>1. /\ proof \in Artifacts /\ Scenario \in Scenarios /\ LogOK(proof.txs, Scenario)
      /\ ScenarioOK(Scenario, proof.txs) /\ HistoryOK(Scenario.history, proof.txs)
      /\ MutationOK(proof)
    BY ArtifactParts DEF ArtifactOK, Scenario
<1>2. id \in Nat /\ id # None
    BY NoneIsNoId DEF ChainInv
<1>3. /\ s \in Scenarios /\ s.submissionId = id /\ s.title = Scenario.title /\ s.tx = Scenario.tx
      /\ s.bountyId = Scenario.bountyId /\ s.history = Scenario.history
      /\ s.closureAction = Scenario.closureAction
    BY <1>1, <1>2 DEF Scenarios
<1>4. Scenario.tx["evaluate"] = None
    <2>1. \A h \in DOMAIN txs : txs[h].kind = "evaluate" => txs[h].target # None
        BY NoneIsNoId DEF ChainInv, Executed
    <2>2. Scenario.tx["evaluate"] # None => Scenario.tx["evaluate"] \in DOMAIN txs
        BY <1>1, KindsDiffer DEF ScenarioOK, LogOK
    <2> QED BY <1>1, <2>1, <2>2 DEF ScenarioOK
<1>5. RecordIsBound(s)
    BY <1>1, <1>3 DEF ScenarioOK, RecordIsBound
<1>6. ScenarioOK(s, proof.txs)
    BY <1>1, <1>3, <1>4, <1>5 DEF ScenarioOK
<1>7. LogOK(proof.txs, s)
    BY <1>1, <1>3 DEF LogOK, LabelOK
<1>8. /\ With(s) \in Artifacts /\ With(s).txs = proof.txs /\ With(s).scenario = s
      /\ With(s).mutation = proof.mutation
    BY <1>1, <1>3, WithParts
<1> QED BY <1>1, <1>2, <1>3, <1>6, <1>7, <1>8 DEF ArtifactOK, MutationOK

\* A hash is added, of a transaction that is the scenario's.
LEMMA ScenarioHashed ==
    ASSUME ChainInv, NEW s \in Scenarios, NEW log, NEW grown, DOMAIN log \subseteq DOMAIN grown,
           ScenarioOK(s, log), LogOK(log, s),
           NEW k \in Kinds, NEW h \in DOMAIN grown, h \in DOMAIN txs,
           txs[h].kind = k, txs[h].target = TargetOf(s, k),
           k \in {"post", "submit"} => Known(s, k) = None,
           NEW t, t.title = s.title, t.bountyId = s.bountyId, t.submissionId = s.submissionId,
           t.history = s.history, t.tx[k] = h, \A j \in Kinds : j # k => t.tx[j] = s.tx[j],
           k = "close" => t.closureAction = txs[h].action,
           k # "close" => t.closureAction = s.closureAction
    PROVE  ScenarioOK(t, grown) /\ LogOK(log, t) /\ t.tx[k] # None
<1>1. s.tx \in [Kinds -> Nat] /\ h # None
    BY ScenarioParts, NoneIsNoId
<1>2. t.tx[k] = h /\ \A j \in Kinds : j # k => t.tx[j] = s.tx[j]
    OBVIOUS
<1>3. RecordIsBound(t)
    BY <1>1, <1>2, KindsDiffer DEF ScenarioOK, RecordIsBound, TargetOf
<1>4. t.bountyId # None => Final(t.tx["post"])
    BY <1>2, KindsDiffer DEF ScenarioOK, Known
<1>5. t.submissionId # None => Final(t.tx["submit"])
    BY <1>2, KindsDiffer DEF ScenarioOK, Known
<1>6. t.tx["evaluate"] # None =>
        /\ txs[t.tx["evaluate"]].kind = "evaluate"
        /\ txs[t.tx["evaluate"]].target = t.submissionId
    BY <1>2, KindsDiffer DEF ScenarioOK, TargetOf
<1>7. \A j \in Kinds : t.tx[j] \in {None} \union DOMAIN grown
    BY <1>2 DEF ScenarioOK
<1>8. ScenarioOK(t, grown)
    BY <1>3, <1>4, <1>5, <1>6, <1>7 DEF ScenarioOK
<1>9. LogOK(log, t)
    BY DEF LogOK, LabelOK
<1> QED BY <1>1, <1>2, <1>8, <1>9

\* The history is about hashes that stay on record.
LEMMA HistoryGrows ==
    ASSUME NEW history, NEW log, NEW grown, DOMAIN log \subseteq DOMAIN grown, HistoryOK(history, log)
    PROVE  HistoryOK(history, grown)
    BY DEF HistoryOK, EntryOK

\* The artifact with a hash that is in its checkpoints already.
LEMMA ArtifactHashed ==
    ASSUME ChainInv, ArtifactOK(proof), NEW k \in Kinds, NEW h \in Recorded,
           txs[h].kind = k, txs[h].target = TargetOf(Scenario, k),
           k \in {"post", "submit"} => Known(Scenario, k) = None,
           NEW t \in Scenarios, t.title = Scenario.title, t.bountyId = Scenario.bountyId,
           t.submissionId = Scenario.submissionId, t.history = Scenario.history,
           t.tx = [Scenario.tx EXCEPT ![k] = h],
           k = "close" => t.closureAction = txs[h].action,
           k # "close" => t.closureAction = Scenario.closureAction
    PROVE  ArtifactOK(With(t)) /\ t.tx[k] # None
<1>1. /\ proof \in Artifacts /\ Scenario \in Scenarios /\ LogOK(proof.txs, Scenario)
      /\ ScenarioOK(Scenario, proof.txs) /\ HistoryOK(Scenario.history, proof.txs)
      /\ MutationOK(proof)
    BY ArtifactParts DEF ArtifactOK, Scenario
<1>2. /\ h \in DOMAIN proof.txs /\ h \in DOMAIN txs
      /\ t.tx[k] = h /\ \A j \in Kinds : j # k => t.tx[j] = Scenario.tx[j]
    BY <1>1, ScenarioParts DEF LogOK, Recorded
<1>3. ScenarioOK(t, proof.txs) /\ LogOK(proof.txs, t) /\ t.tx[k] # None
    <2> SUFFICES ASSUME NEW log, log = proof.txs, NEW s, s = Scenario
                 PROVE  ScenarioOK(t, log) /\ LogOK(log, t) /\ t.tx[k] # None
        OBVIOUS
    <2>1. /\ s \in Scenarios /\ ScenarioOK(s, log) /\ LogOK(log, s) /\ h \in DOMAIN log
          /\ DOMAIN log \subseteq DOMAIN log
        BY <1>1, <1>2
    <2>2. /\ ChainInv /\ k \in Kinds /\ h \in DOMAIN txs
          /\ txs[h].kind = k /\ txs[h].target = TargetOf(s, k)
          /\ k \in {"post", "submit"} => Known(s, k) = None
        BY <1>2
    <2>3. /\ t.title = s.title /\ t.bountyId = s.bountyId /\ t.submissionId = s.submissionId
          /\ t.history = s.history /\ t.tx[k] = h
          /\ \A j \in Kinds : j # k => t.tx[j] = s.tx[j]
          /\ k = "close" => t.closureAction = txs[h].action
          /\ k # "close" => t.closureAction = s.closureAction
        BY <1>2
    <2> QED BY ONLY <2>1, <2>2, <2>3, ScenarioHashed
<1>4. /\ With(t) \in Artifacts /\ With(t).txs = proof.txs /\ With(t).scenario = t
      /\ With(t).mutation = proof.mutation
    BY <1>1, WithParts
<1> QED BY <1>1, <1>3, <1>4 DEF ArtifactOK, MutationOK

LEMMA LocalRewritten ==
    ASSUME NEW l \in Locals
    PROVE  /\ \A exact \in Nat :
                /\ [l EXCEPT !.exact = exact] \in Locals
                /\ [l EXCEPT !.exact = exact].exact = exact
           /\ \A closing \in Actions :
                /\ [l EXCEPT !.closing = closing] \in Locals
                /\ [l EXCEPT !.closing = closing].closing = closing
                /\ [l EXCEPT !.closing = closing].exact = l.exact
           /\ [l EXCEPT !.reuse = TRUE] \in Locals
           /\ [l EXCEPT !.reuse = TRUE].exact = l.exact
           /\ \A b \in Bounties :
                /\ [l EXCEPT !.bounty = b] \in Locals
                /\ [l EXCEPT !.bounty = b].exact = l.exact
           /\ \A sub \in SubmissionStatuses :
                /\ [l EXCEPT !.submission = sub] \in Locals
                /\ [l EXCEPT !.submission = sub].exact = l.exact
    BY DEF Locals

LEMMA AfterIdentifiedArrives ==
    ASSUME ChainInv, NEW p, NEW l \in Locals, ArtifactOK(p), AfterIdentified(p, l), l.exact = None,
           step \in {"post", "submit"},
           IF step = "post" THEN p.scenario.bountyId # None ELSE p.scenario.submissionId # None
    PROVE  Arrived
    BY AfterPostArrives, AfterSubmitArrives DEF AfterIdentified

\* The id that was looked up is recorded and the run goes on.
LEMMA IdentifiedArrives ==
    ASSUME RunInv, NEW l \in Locals, l.exact = None, step \in {"post", "submit"},
           Known(Scenario, step) = None, Final(Scenario.tx[step]),
           NEW id,
           IF step = "post"
           THEN id \in DOMAIN bounties /\ bounties[id].title = Scenario.title
           ELSE id \in DOMAIN submissions /\ submissions[id].bounty = Scenario.bountyId,
           AfterIdentified(Identified(id), l)
    PROVE  Arrived
<1>1. ChainInv /\ ArtifactOK(proof)
    BY DEF RunInv
<1>2. CASE step = "post"
    <2>1. PICK s : s = [Scenario EXCEPT !.bountyId = id]
        OBVIOUS
    <2>2. Identified(id) = With(s)
        BY <1>2, <2>1 DEF Identified
    <2>3. ArtifactOK(With(s)) /\ With(s).scenario.bountyId # None
        BY <1>1, <1>2, <2>1, BountyIdentified DEF Known
    <2>4. AfterPost(With(s), l)
        BY <1>2, <2>2 DEF AfterIdentified
    <2> QED BY <1>1, <2>3, <2>4, AfterPostArrives
<1>3. CASE step = "submit"
    <2>1. PICK s : s = [Scenario EXCEPT !.submissionId = id]
        OBVIOUS
    <2>2. Identified(id) = With(s)
        BY <1>3, <2>1 DEF Identified
    <2>3. ArtifactOK(With(s)) /\ With(s).scenario.submissionId # None
        BY <1>1, <1>3, <2>1, SubmissionIdentified DEF Known
    <2>4. AfterSubmit(With(s), l)
        BY <1>3, <2>2 DEF AfterIdentified
    <2> QED BY <1>1, <2>3, <2>4, AfterSubmitArrives
<1> QED BY <1>2, <1>3

\* A post that failed for good is replaced.
LEMMA RaiseArrives ==
    ASSUME RunInv, NEW status \in {"FAILED", "BLOCKED_EXTERNAL_RPC"}, Raise(status)
    PROVE  Arrived
<1>1. ChainInv /\ ArtifactOK(proof) /\ local \in Locals
    BY DEF RunInv, PositionOK
<1> DEFINE hash == Scenario.tx["post"]
           next == ReplaceScenarioRecord(Scenario, "POST_TRANSACTION_FAILED")
           l    == [local EXCEPT !.exact = None]
<1>2. CASE Fail(proof, status)
    BY <1>1, <1>2, FailArrives
<1>3. CASE ~Fail(proof, status)
    <2>1. /\ Scenario.bountyId = None
          /\ hash \in Recorded /\ proof.txs[hash].phase = "FAILED"
          /\ EnterPost(With(next), l)
        BY <1>3 DEF Raise, PostThrows
    <2>2. l \in Locals /\ l.exact = None
        BY <1>1, LocalRewritten DEF None
    <2>3. hash # None /\ txs[hash].status = "UNDETERMINED"
        <3>1. hash \in DOMAIN txs /\ PhaseOK(proof.txs[hash], hash)
            BY <1>1, <2>1 DEF ArtifactOK, LogOK, Recorded
        <3>2. hash # None
            BY <1>1, <3>1, NoneIsNoId
        <3>3. txs[hash].kind = "post"
            BY <1>1, <3>2 DEF ArtifactOK, ScenarioOK, RecordIsBound, Scenario
        <3> QED BY <2>1, <3>1, <3>2, <3>3 DEF PhaseOK
    <2>4. ArtifactOK(With(next))
        BY <1>1, <2>1, <2>3, ReplacementIsRight
    <2> HIDE DEF next, l
    <2> QED BY <1>1, <2>1, <2>2, <2>4, EnterPostArrives
<1> QED BY <1>2, <1>3

\* A closure that is on record is waited for, another is sent.
LEMMA EnterClosureArrives ==
    ASSUME ChainInv, ArtifactOK(proof), NEW a, NEW l \in Locals, l.exact = None,
           Scenario.bountyId # None, EnterClosure(a, l)
    PROVE  Arrived
<1> DEFINE closing == IF a.action = "CANCEL_AND_REPLACE" \/ a.reason = "CANCELLED"
                      THEN "CANCEL" ELSE "EXPIRE"
           stored  == StoredTransaction("close", Scenario, closing)
           s       == [Scenario EXCEPT !.closureAction = closing, !.tx["close"] = stored]
           l2      == [l EXCEPT !.closing = closing]
<1>1. closing \in {"CANCEL", "EXPIRE"} /\ closing \in Actions
    BY DEF Actions
<1>2. \/ stored \notin {None, Refused} /\ Go("wait_accepted", "close", With(s), l2)
      \/ Go("send", "close", proof, l2)
      \/ Throw(proof)
    BY DEF EnterClosure
<1>3. l2 \in Locals /\ l2.closing = closing /\ l2.exact = None
    BY <1>1, LocalRewritten
<1>4. StepOK(Scenario, "close")
    BY KindsDiffer DEF StepOK
<1>5. Scenario \in Scenarios
    BY ArtifactParts DEF ArtifactOK, Scenario
<1> HIDE DEF closing
<1>6. CASE stored \notin {None, Refused} /\ Go("wait_accepted", "close", With(s), l2)
    <2>1. /\ stored \in Recorded
          /\ proof.txs[stored].label = <<closing, Scenario.title>>
        <3>1. "close" \in Kinds /\ Label("close", Scenario, closing) = <<closing, Scenario.title>>
            BY KindsDiffer DEF Label
        <3> QED BY <1>6, <3>1, StoredFound, Zenon
    <2>2. LabelOK(Scenario, proof.txs[stored], stored)
        BY <2>1 DEF ArtifactOK, LogOK, Recorded, Scenario
    <2>3. Scenario.title \in Nat
        BY <1>5, ScenarioParts
    <2> HIDE DEF stored
    <2>4. /\ txs[stored].kind = "close" /\ txs[stored].action = closing
          /\ txs[stored].target = Scenario.bountyId
        BY <1>1, <2>1, <2>2, <2>3 DEF LabelOK
    <2>5. stored \in Nat
        BY <2>1, ArtifactParts, LogParts DEF ArtifactOK, Recorded
    <2>6. /\ s \in Scenarios /\ s.title = Scenario.title /\ s.bountyId = Scenario.bountyId
          /\ s.submissionId = Scenario.submissionId /\ s.history = Scenario.history
          /\ s.tx = [Scenario.tx EXCEPT !["close"] = stored] /\ s.closureAction = closing
        BY <1>1, <1>5, <2>5, KindsDiffer DEF Scenarios
    <2> HIDE DEF s, l2
    <2>7. ArtifactOK(With(s)) /\ s.tx["close"] # None
        <3>1. /\ "close" \in Kinds /\ "close" \notin {"post", "submit"}
              /\ TargetOf(Scenario, "close") = Scenario.bountyId
              /\ s.closureAction = txs[stored].action
            BY <2>4, <2>6, KindsDiffer DEF TargetOf
        <3> QED BY <2>1, <2>4, <2>6, <3>1, ArtifactHashed, Zenon
    <2>8. With(s).scenario = s
        BY <2>6, WithParts DEF ArtifactOK
    <2>9. StepOK(s, "close")
        BY <1>4, <2>6 DEF StepOK
    <2>10. PositionOK(With(s), "wait_accepted", "close", l2)
        BY <1>3, <2>7, <2>8, <2>9, QuietPosition
    <2> QED BY <1>6, <2>7, <2>10, GoArrives
<1>7. CASE Go("send", "close", proof, l2)
    <2> HIDE DEF l2
    <2>1. PositionOK(proof, "send", "close", l2)
        BY <1>1, <1>3, <1>4 DEF PositionOK, ExactOK, SendOK, Waits, Scenario
    <2> QED BY <1>7, <2>1, GoArrives
<1>8. CASE Throw(proof)
    BY <1>8, ThrowArrives
<1> QED BY <1>2, <1>6, <1>7, <1>8

-----------------------------------------------------------------------------
(***************************************************************************)
(* The process, one lemma per action.                                      *)
(***************************************************************************)

\* What holds wherever the process is.
LEMMA RunParts ==
    ASSUME RunInv
    PROVE  /\ ChainInv /\ ArtifactOK(proof) /\ proof \in Artifacts
           /\ Scenario \in Scenarios /\ ScenarioOK(Scenario, proof.txs)
           /\ LogOK(proof.txs, Scenario) /\ HistoryOK(Scenario.history, proof.txs)
           /\ MutationOK(proof) /\ Recorded = DOMAIN proof.txs
           /\ local \in Locals /\ StepOK(Scenario, step) /\ step \in Kinds
           /\ pc \notin Waits => local.exact = None
    BY ArtifactParts DEF RunInv, ArtifactOK, PositionOK, ExactOK, StepOK, Scenario, Recorded

\* A record shares no hash with one of another bounty, so nothing is repaired.
LEMMA NothingReused ==
    ASSUME RunInv, NEW s, s.tx["submit"] = Scenario.tx["submit"], s.history = Scenario.history,
           s.bountyId = Scenario.bountyId
    PROVE  ~ReusesHistory(s)
<1> SUFFICES ASSUME s.tx["submit"] # None, NEW i \in DOMAIN s.history,
                    s.history[i].tx["submit"] = s.tx["submit"]
             PROVE  s.history[i].bountyId = s.bountyId
    BY DEF ReusesHistory
<1>1. RecordIsBound(Scenario) /\ RecordIsBound(Scenario.history[i])
    BY RunParts DEF ScenarioOK, HistoryOK, EntryOK
<1> QED BY <1>1 DEF RecordIsBound

LEMMA StartArrives == RunInv /\ Start => Arrived
<1> SUFFICES ASSUME RunInv, Start PROVE Arrived
    OBVIOUS
<1> DEFINE label == Label("close", Scenario, "EXPIRE")
           found == UniqueUsableTransaction(label)
           s     == RecoverClosure(Scenario)
<1>1. label = <<"EXPIRE", Scenario.title>>
    BY DEF Label
<1>2. /\ Go("preflight", "post",
            [With(ReconcileHistoricalSubmissionTransactionReuse(s)) EXCEPT !.status = "RUNNING"],
            Nothing)
      /\ found # Refused
    BY DEF Start
<1>3. /\ s \in Scenarios /\ ArtifactOK(With(s))
      /\ s.tx["submit"] = Scenario.tx["submit"] /\ s.history = Scenario.history
      /\ s.bountyId = Scenario.bountyId
    <2>1. CASE ~(Scenario.tx["close"] = None /\ found # None)
        <3>1. s = Scenario
            BY <2>1 DEF RecoverClosure
        <3>2. /\ With(Scenario) \in Artifacts /\ With(Scenario).txs = proof.txs
              /\ With(Scenario).scenario = proof.scenario /\ With(Scenario).mutation = proof.mutation
            BY RunParts, WithParts DEF Scenario
        <3>3. ArtifactOK(With(Scenario))
            BY <3>2, RunParts, ArtifactRewritten DEF MutationOK
        <3> QED BY <3>1, <3>3, RunParts
    <2>2. CASE Scenario.tx["close"] = None /\ found # None
        <3>1. s = [Scenario EXCEPT !.closureAction = "EXPIRE", !.tx["close"] = found]
            BY <2>2 DEF RecoverClosure
        <3>2. found \in Recorded /\ proof.txs[found].label = label
            BY <1>2, <2>2, UniqueFound
        <3> HIDE DEF found, s
        <3>3. /\ txs[found].kind = "close" /\ txs[found].action = "EXPIRE"
              /\ txs[found].target = Scenario.bountyId
            <4>1. LabelOK(Scenario, proof.txs[found], found)
                BY <3>2, RunParts DEF LogOK
            <4>2. Scenario.title \in Nat
                BY RunParts, ScenarioParts
            <4> QED BY <1>1, <3>2, <4>1, <4>2 DEF LabelOK
        <3>4. found \in Nat
            BY <3>2, RunParts, ArtifactParts, LogParts
        <3>5. /\ s \in Scenarios /\ s.title = Scenario.title /\ s.bountyId = Scenario.bountyId
              /\ s.submissionId = Scenario.submissionId /\ s.history = Scenario.history
              /\ s.tx = [Scenario.tx EXCEPT !["close"] = found] /\ s.closureAction = "EXPIRE"
            BY <3>1, <3>4, RunParts, KindsDiffer DEF Scenarios, Actions
        <3>6. ArtifactOK(With(s))
            <4>1. /\ "close" \in Kinds /\ "close" \notin {"post", "submit"}
                  /\ TargetOf(Scenario, "close") = Scenario.bountyId
                  /\ s.closureAction = txs[found].action
                BY <3>3, <3>5, KindsDiffer DEF TargetOf
            <4>2. ChainInv /\ ArtifactOK(proof)
                BY RunParts
            <4> QED BY <3>2, <3>3, <3>5, <4>1, <4>2, ArtifactHashed
        <3>7. s.tx["submit"] = Scenario.tx["submit"]
            BY <3>5, RunParts, ScenarioParts, KindsDiffer
        <3> QED BY <3>5, <3>6, <3>7
    <2> QED BY <2>1, <2>2
<1> HIDE DEF s, found
<1>4. ReconcileHistoricalSubmissionTransactionReuse(s) = s
    BY <1>3, NothingReused DEF ReconcileHistoricalSubmissionTransactionReuse
<1> DEFINE p == [With(s) EXCEPT !.status = "RUNNING"]
<1>5. p \in Artifacts /\ p.txs = With(s).txs /\ p.scenario = With(s).scenario
      /\ p.mutation = With(s).mutation
    <2>1. With(s) \in Artifacts
        BY <1>3 DEF ArtifactOK
    <2> QED BY <2>1 DEF Artifacts
<1>6. Go("preflight", "post", p, Nothing)
    BY <1>2, <1>4
<1> HIDE DEF p
<1>7. ArtifactOK(p)
    BY <1>3, <1>5, ArtifactRewritten DEF ArtifactOK, MutationOK
<1>8. PositionOK(p, "preflight", "post", Nothing)
    BY NothingIsLocal, KindsDiffer, QuietPosition DEF StepOK, Waits
<1> QED BY <1>6, <1>7, <1>8, GoArrives

LEMMA PreflightArrives == RunInv /\ Preflight => Arrived
<1> SUFFICES ASSUME RunInv, Preflight PROVE Arrived
    OBVIOUS
<1> DEFINE state == ReconcileMutationState(proof.mutation, mutated)
           p     == [proof EXCEPT !.mutation = state]
<1>1. CASE state = "refused"
    BY <1>1, RunParts, ThrowArrives DEF Preflight
<1>2. CASE state # "refused"
    <2>1. EnterPost(p, Nothing)
        BY <1>2 DEF Preflight
    <2>2. /\ state \in MutationStates
          /\ mutated => state # "NOT_STARTED"
          /\ state = "CONFIRMED" => mutated
        <3>1. proof.mutation \in MutationStates
            BY RunParts, ArtifactParts
        <3> QED BY <1>2, <3>1 DEF ReconcileMutationState, MutationStates
    <2> HIDE DEF state
    <2>3. p \in Artifacts /\ p.txs = proof.txs /\ p.scenario = proof.scenario /\ p.mutation = state
        BY <2>2, RunParts DEF Artifacts
    <2> HIDE DEF p
    <2>4. ArtifactOK(p)
        BY <2>2, <2>3, RunParts, ArtifactRewritten DEF MutationOK
    <2> QED BY <2>1, <2>4, RunParts, NothingIsLocal, EnterPostArrives
<1> QED BY <1>1, <1>2

\* What is listed for the record.
LEMMA ListedParts ==
    ASSUME NEW id \in Listed(step, Scenario)
    PROVE  IF step = "post"
           THEN id \in DOMAIN bounties /\ bounties[id].title = Scenario.title
           ELSE id \in DOMAIN submissions /\ submissions[id].bounty = Scenario.bountyId
    BY DEF Listed

LEMMA ListArrives == RunInv /\ List => Arrived
<1> SUFFICES ASSUME RunInv, List PROVE Arrived
    OBVIOUS
<1> DEFINE found  == Listed(step, Scenario)
           stored == StoredTransaction(step, Scenario, Absent)
           s      == [Scenario EXCEPT !.tx[step] = stored]
           exact  == IF found = {} THEN None ELSE CHOOSE id \in found : TRUE
           l      == [local EXCEPT !.exact = exact]
<1>1. step \in {"post", "submit"} /\ Known(Scenario, step) = None /\ pc = "list"
    BY DEF RunInv, PositionOK, List, Scenario
<1>2. local.exact = None /\ pc # "preflight"
    BY <1>1, RunParts DEF Waits
<1>3. \/ stored \in Ids /\ Go("wait_accepted", step, With(s), l)
      \/ Go("send", step, proof, local)
      \/ Raise("FAILED")
    BY DEF List
<1>4. CASE stored \in Ids /\ Go("wait_accepted", step, With(s), l)
    <2>1. stored \notin {None, Refused}
        BY <1>4 DEF Ids, None, Refused
    <2>2. /\ stored \in Recorded /\ proof.txs[stored].label = Label(step, Scenario, Absent)
          /\ step \in {"submit", "evaluate"} => stored = Scenario.tx[step]
        BY <2>1, RunParts, StoredFound
    <2>3. stored # None /\ stored \in Nat
        BY <2>1, <2>2, RunParts, ArtifactParts, LogParts
    <2> HIDE DEF stored
    <2>4. txs[stored].kind = step /\ txs[stored].target = TargetOf(Scenario, step)
        <3>1. CASE step = "post"
            <4>1. LabelOK(Scenario, proof.txs[stored], stored)
                BY <2>2, RunParts DEF LogOK
            <4>2. proof.txs[stored].label = <<"post", Scenario.title>>
                BY <2>2, <3>1 DEF Label
            <4> QED BY <3>1, <4>1, <4>2 DEF LabelOK, TargetOf
        <3>2. CASE step = "submit"
            BY <2>2, <2>3, <3>2, RunParts DEF ScenarioOK, RecordIsBound, TargetOf
        <3> QED BY <1>1, <3>1, <3>2
    <2>5. /\ s \in Scenarios /\ s.title = Scenario.title /\ s.bountyId = Scenario.bountyId
          /\ s.submissionId = Scenario.submissionId /\ s.history = Scenario.history
          /\ s.tx = [Scenario.tx EXCEPT ![step] = stored]
          /\ s.closureAction = Scenario.closureAction
        BY <2>3, RunParts DEF Scenarios
    <2> HIDE DEF s
    <2>6. ArtifactOK(With(s)) /\ s.tx[step] # None
        <3>1. step # "close"
            BY <1>1
        <3> QED BY <1>1, <2>2, <2>4, <2>5, <3>1, RunParts, ArtifactHashed, Zenon
    <2>7. With(s).scenario = s
        BY <2>5, RunParts, WithParts
    <2>8. exact # None =>
            IF step = "post"
            THEN exact \in DOMAIN bounties /\ bounties[exact].title = Scenario.title
            ELSE exact \in DOMAIN submissions /\ submissions[exact].bounty = Scenario.bountyId
        BY ListedParts
    <2> HIDE DEF exact
    <2>9. exact \in Nat
        <3>1. bounties \in Seq(Bounties) /\ submissions \in Seq(Submissions) /\ None \in Nat
            BY RunParts DEF ChainInv, None
        <3> QED BY <2>8, <3>1
    <2>10. l \in Locals /\ l.exact = exact
        BY <2>9, RunParts, LocalRewritten
    <2> HIDE DEF l
    <2>11. StepOK(s, step) /\ Known(s, step) = None
        BY <1>1, <2>5, RunParts DEF StepOK, Known
    <2>12. ExactOK(s, "wait_accepted", step, l.exact)
        BY <1>1, <2>5, <2>8, <2>10, <2>11 DEF ExactOK, Waits
    <2>13. PositionOK(With(s), "wait_accepted", step, l)
        BY <1>1, <2>6, <2>7, <2>10, <2>11, <2>12 DEF PositionOK, SendOK
    <2> QED BY <1>4, <2>6, <2>13, GoArrives
<1>5. CASE Go("send", step, proof, local)
    <2>1. PositionOK(proof, "send", step, local)
        BY <1>1, <1>2, RunParts DEF PositionOK, ExactOK, SendOK, Waits, Scenario
    <2> QED BY <1>5, <2>1, RunParts, GoArrives
<1>6. CASE Raise("FAILED")
    BY <1>6, RaiseArrives
<1> QED BY <1>3, <1>4, <1>5, <1>6

LEMMA RelistArrives == RunInv /\ Relist => Arrived
<1> SUFFICES ASSUME RunInv, Relist PROVE Arrived
    OBVIOUS
<1> DEFINE found == Listed(step, Scenario)
           id    == CHOOSE x \in found : TRUE
<1>1. /\ step \in {"post", "submit"} /\ Known(Scenario, step) = None /\ Final(Scenario.tx[step])
      /\ pc = "relist"
    BY DEF RunInv, PositionOK, Relist, Scenario
<1>2. CASE Cardinality(found) = 1
    <2>1. found # {}
        BY <1>2, FS_EmptySet
    <2>2. id \in found
        BY <2>1
    <2>3. AfterIdentified(Identified(id), local)
        BY <1>2 DEF Relist
    <2> HIDE DEF id
    <2> QED BY <1>1, <2>2, <2>3, ListedParts, RunParts, IdentifiedArrives DEF Waits
<1>3. CASE Cardinality(found) # 1
    BY <1>3, RaiseArrives DEF Relist
<1> QED BY <1>2, <1>3

LEMMA ReadBackArrives == RunInv /\ ReadBack => Arrived
<1> SUFFICES ASSUME RunInv, ReadBack PROVE Arrived
    OBVIOUS
<1>1. /\ step \in {"post", "submit"} /\ Known(Scenario, step) # None /\ pc = "read_back"
    BY DEF RunInv, PositionOK, ReadBack, Scenario
<1>2. CASE AfterIdentified(proof, local)
    BY <1>1, <1>2, RunParts, AfterIdentifiedArrives DEF Known, Waits, Scenario
<1>3. CASE Throw(proof)
    BY <1>3, RunParts, ThrowArrives
<1> QED BY <1>2, <1>3 DEF ReadBack

\* What a pair begins with.
LEMMA PairFirst == \A a, b : <<a, b>>[1] = a
    OBVIOUS

\* The record speaks of no more hashes when there are more checkpoints.
LEMMA ScenarioGrows ==
    ASSUME NEW s, NEW log, NEW grown, DOMAIN log \subseteq DOMAIN grown, ScenarioOK(s, log)
    PROVE  ScenarioOK(s, grown)
    BY DEF ScenarioOK

\* The hash of what was sent is recorded with a checkpoint of its own.
LEMMA RecordHashArrives == RunInv /\ RecordHash => Arrived
<1> SUFFICES ASSUME RunInv, RecordHash PROVE Arrived
    OBVIOUS
<1> DEFINE hash   == Len(txs)
           s      == [Scenario EXCEPT !.tx[step] = hash,
                                      !.closureAction = IF step = "close" THEN local.closing ELSE @]
           label  == Label(step, Scenario, local.closing)
           added  == [label |-> label, phase |-> "SUBMITTED"]
           log    == [h \in Recorded \union {hash} |-> IF h = hash THEN added ELSE proof.txs[h]]
           p      == [With(s) EXCEPT !.txs = log]
<1>1. Go("wait_accepted", step, p, local) /\ pc = "sent"
    BY DEF RecordHash
<1>2. /\ step \in {"post", "submit"} => Known(Scenario, step) = None
      /\ step = "close" => local.closing \in {"CANCEL", "EXPIRE"}
      /\ hash \in DOMAIN txs \ DOMAIN proof.txs
      /\ txs[hash].kind = step
      /\ txs[hash].target = TargetOf(Scenario, step)
      /\ step = "close" => txs[hash].action = local.closing
      /\ step = "evaluate" => proof.mutation = "CONFIRMED"
    BY <1>1 DEF RunInv, PositionOK, SendOK, Scenario
<1>3. local.exact = None
    BY <1>1, RunParts DEF Waits
<1>4. hash \in Nat /\ local.closing \in Actions
    BY RunParts, LocalParts DEF ChainInv
<1> HIDE DEF hash
<1>5. /\ s \in Scenarios /\ s.title = Scenario.title /\ s.bountyId = Scenario.bountyId
      /\ s.submissionId = Scenario.submissionId /\ s.history = Scenario.history
      /\ s.tx = [Scenario.tx EXCEPT ![step] = hash]
      /\ s.closureAction = IF step = "close" THEN local.closing ELSE Scenario.closureAction
    BY <1>4, RunParts DEF Scenarios
<1> HIDE DEF s
<1>6. s.tx[step] = hash /\ \A j \in Kinds : j # step => s.tx[j] = Scenario.tx[j]
    BY <1>5, RunParts, ScenarioParts
<1>7. label \in Labels
    <2>1. Scenario.title \in Nat
        BY RunParts, ScenarioParts
    <2> QED BY <1>2, <2>1, RunParts, KindsDiffer DEF Label, Labels
<1>8. /\ step = "post" => label = <<"post", Scenario.title>>
      /\ step = "close" => label = <<local.closing, Scenario.title>>
      /\ step = "submit" => label = <<"submit mutable evidence", 0>>
      /\ step = "evaluate" => label = <<"evaluate mutated evidence", 0>>
    BY DEF Label
<1> HIDE DEF label
<1>9. added \in Checkpoints /\ added.label = label /\ added.phase = "SUBMITTED"
    BY <1>7 DEF Checkpoints, Phases
<1> HIDE DEF added
<1>10. /\ DOMAIN log = DOMAIN proof.txs \union {hash} /\ log[hash] = added
       /\ \A h \in DOMAIN proof.txs : log[h] = proof.txs[h]
    BY <1>2, RunParts
<1>11. log \in Logs
    <2>1. proof.txs \in [DOMAIN proof.txs -> Checkpoints] /\ DOMAIN proof.txs \in SUBSET Nat
        BY RunParts, ArtifactParts, LogParts
    <2>2. log \in [DOMAIN proof.txs \union {hash} -> Checkpoints]
        BY <1>9, <2>1, RunParts
    <2>3. DOMAIN proof.txs \union {hash} \in SUBSET Nat
        BY <1>4, <2>1
    <2> QED BY <2>2, <2>3 DEF Logs
<1> HIDE DEF log
<1>12. p \in Artifacts /\ p.txs = log /\ p.scenario = s /\ p.mutation = proof.mutation
    <2>1. /\ With(s) \in Artifacts /\ With(s).scenario = s
          /\ With(s).mutation = proof.mutation
        BY <1>5, RunParts, WithParts
    <2> QED BY <1>11, <2>1 DEF Artifacts
<1> HIDE DEF p
<1>13. ScenarioOK(s, log) /\ LogOK(proof.txs, s) /\ s.tx[step] # None
    <2>1. /\ ChainInv /\ Scenario \in Scenarios /\ DOMAIN proof.txs \subseteq DOMAIN log
          /\ ScenarioOK(Scenario, proof.txs) /\ LogOK(proof.txs, Scenario)
          /\ step \in Kinds /\ hash \in DOMAIN log /\ hash \in DOMAIN txs
          /\ txs[hash].kind = step /\ txs[hash].target = TargetOf(Scenario, step)
          /\ step \in {"post", "submit"} => Known(Scenario, step) = None
        BY <1>2, <1>10, RunParts
    <2>2. /\ s.title = Scenario.title /\ s.bountyId = Scenario.bountyId
          /\ s.submissionId = Scenario.submissionId /\ s.history = Scenario.history
          /\ s.tx[step] = hash /\ \A j \in Kinds : j # step => s.tx[j] = Scenario.tx[j]
          /\ step = "close" => s.closureAction = txs[hash].action
          /\ step # "close" => s.closureAction = Scenario.closureAction
        BY <1>2, <1>5, <1>6
    <2> QED BY ONLY <2>1, <2>2, ScenarioHashed
<1>14. LogOK(log, s)
    <2>1. ASSUME NEW h \in DOMAIN proof.txs
          PROVE  LabelOK(s, log[h], h) /\ PhaseOK(log[h], h) /\ h \in DOMAIN txs
        BY <1>10, <1>13 DEF LogOK
    <2>2. LabelOK(s, log[hash], hash)
        <3>1. Scenario.title \in Nat
            BY RunParts, ScenarioParts
        <3>2. CASE step = "post"
            BY <1>2, <1>8, <1>9, <1>10, <3>2 DEF LabelOK, TargetOf
        <3>3. CASE step = "close"
            BY <1>2, <1>5, <1>8, <1>9, <1>10, <3>1, <3>3 DEF LabelOK, TargetOf
        <3>4. CASE step \in {"submit", "evaluate"}
            <4>1. \/ label = <<"submit mutable evidence", 0>>
                  \/ label = <<"evaluate mutated evidence", 0>>
                BY <1>8, <3>4, Zenon
            <4>2. \/ label[1] = "submit mutable evidence"
                  \/ label[1] = "evaluate mutated evidence"
                BY <4>1, PairFirst, Zenon
            <4>3. log[hash].label = label
                BY <1>9, <1>10
            <4> QED BY <4>2, <4>3, Zenon DEF LabelOK
        <3> QED BY <3>2, <3>3, <3>4, RunParts, KindsDiffer
    <2>3. PhaseOK(log[hash], hash)
        BY <1>9, <1>10 DEF PhaseOK
    <2> QED BY <1>2, <1>10, <2>1, <2>2, <2>3 DEF LogOK
<1>15. HistoryOK(s.history, log)
    BY <1>5, <1>10, RunParts, HistoryGrows
<1>16. ArtifactOK(p)
    BY <1>12, <1>13, <1>14, <1>15, RunParts DEF ArtifactOK, MutationOK
<1>17. PositionOK(p, "wait_accepted", step, local)
    <2>1. StepOK(s, step)
        BY <1>5, RunParts DEF StepOK
    <2> QED BY <1>2, <1>3, <1>12, <1>13, <2>1, RunParts, QuietPosition
<1> QED BY <1>1, <1>16, <1>17, GoArrives

\* What a receipt is read as.
LEMMA ReceiptRead ==
    ASSUME NEW tx \in Transactions, tx.status \in {"ACCEPTED", "FINALIZED", "UNDETERMINED"}
    PROVE  LET phase == ClassifyLiveReceipt(Receipt(tx))
           IN  /\ phase \in Phases
               /\ phase = "FINALIZED" =>
                    tx.status = "FINALIZED" /\ tx.execution = "FINISHED_WITH_RETURN"
               /\ phase = "FAILED" /\ tx.execution = "FINISHED_WITH_RETURN" =>
                    tx.status = "UNDETERMINED"
<1> DEFINE receipt == Receipt(tx)
           phase   == ClassifyLiveReceipt(receipt)
<1>1. /\ receipt.status = tx.status /\ receipt.execution = tx.execution
      /\ tx.status \in {"ACCEPTED", "FINALIZED"} => receipt.result = "AGREE"
    BY DEF Receipt
<1> HIDE DEF receipt
<1>2. phase \in Phases
    BY DEF ClassifyLiveReceipt, Phases
<1>3. phase = "FINALIZED" => tx.status = "FINALIZED" /\ tx.execution = "FINISHED_WITH_RETURN"
    BY <1>1 DEF ClassifyLiveReceipt, Returned
<1>4. ASSUME tx.execution = "FINISHED_WITH_RETURN", tx.status # "UNDETERMINED"
      PROVE  phase # "FAILED"
    <2>1. tx.status \in {"ACCEPTED", "FINALIZED"} /\ Returned(receipt) /\ receipt.result = "AGREE"
        BY <1>1, <1>4 DEF Returned
    <2>2. ~RecordsFailure(receipt, LiveConsensusFailures)
        BY <1>1, <1>4, <2>1
           DEF RecordsFailure, StatusFailures, ExecutionFailures, LiveConsensusFailures,
               ConsensusFailures
    <2> QED BY <1>1, <2>1, <2>2 DEF ClassifyLiveReceipt
<1> QED BY <1>2, <1>3, <1>4 DEF receipt

\* A wait goes on to the next, whatever of its checkpoint is rewritten.
LEMMA WaitMoves ==
    ASSUME NEW p, NEW q, NEW w \in Waits, NEW v \in Waits, NEW k, NEW l, PositionOK(p, w, k, l),
           q.scenario = p.scenario, q.mutation = p.mutation
    PROVE  PositionOK(q, v, k, l)
    BY DEF PositionOK, ExactOK, SendOK, Waits

LEMMA ObserveArrives ==
    ASSUME RunInv, NEW from \in Waits, NEW statuses,
           statuses \subseteq {"ACCEPTED", "FINALIZED", "UNDETERMINED"}, Observe(from, statuses)
    PROVE  Arrived
<1> DEFINE hash  == Scenario.tx[step]
           phase == ClassifyLiveReceipt(Receipt(txs[hash]))
           noted == [proof.txs[hash] EXCEPT !.phase = phase]
           log   == [proof.txs EXCEPT ![hash] = noted]
           p     == [proof EXCEPT !.txs = log]
<1>1. /\ pc = from /\ txs[hash].status \in {"ACCEPTED", "FINALIZED", "UNDETERMINED"}
      /\ Go("observed", step, p, local)
    BY DEF Observe
<1>2. hash # None /\ PositionOK(proof, from, step, local)
    BY <1>1 DEF RunInv, PositionOK, Scenario
<1>3. hash \in DOMAIN proof.txs /\ hash \in DOMAIN txs
    BY <1>2, RunParts DEF ScenarioOK, LogOK
<1> HIDE DEF hash
<1>4. txs[hash] \in Transactions /\ Executed(txs[hash])
    BY <1>3, RunParts DEF ChainInv
<1>5. /\ phase \in Phases
      /\ phase = "FINALIZED" => Final(hash)
      /\ phase = "FAILED" /\ txs[hash].kind = "post" => txs[hash].status = "UNDETERMINED"
    <2>1. /\ phase \in Phases
          /\ phase = "FINALIZED" =>
                txs[hash].status = "FINALIZED" /\ txs[hash].execution = "FINISHED_WITH_RETURN"
          /\ phase = "FAILED" /\ txs[hash].execution = "FINISHED_WITH_RETURN" =>
                txs[hash].status = "UNDETERMINED"
        BY <1>1, <1>4, ReceiptRead
    <2> QED BY <1>1, <1>3, <1>4, <2>1 DEF Final, Executed
<1> HIDE DEF phase
<1>6. proof.txs \in [DOMAIN proof.txs -> Checkpoints] /\ DOMAIN proof.txs \in SUBSET Nat
    BY RunParts, ArtifactParts, LogParts
<1>7. noted \in Checkpoints /\ noted.label = proof.txs[hash].label /\ noted.phase = phase
    <2>1. proof.txs[hash] \in Checkpoints
        BY <1>3, <1>6
    <2> QED BY <1>5, <2>1 DEF Checkpoints
<1> HIDE DEF noted
<1>8. /\ log \in [DOMAIN proof.txs -> Checkpoints] /\ log[hash] = noted
      /\ \A h \in DOMAIN proof.txs \ {hash} : log[h] = proof.txs[h]
    BY <1>3, <1>6, <1>7
<1> HIDE DEF log
<1>9. log \in Logs /\ DOMAIN log = DOMAIN proof.txs
    BY <1>6, <1>8 DEF Logs
<1>10. /\ p \in Artifacts /\ p.txs = log /\ p.scenario = proof.scenario
       /\ p.mutation = proof.mutation
    BY <1>9, RunParts DEF Artifacts
<1> HIDE DEF p
<1>11. LogOK(log, Scenario)
    <2>1. ASSUME NEW h \in DOMAIN log PROVE LabelOK(Scenario, log[h], h) /\ PhaseOK(log[h], h)
        <3>1. LabelOK(Scenario, proof.txs[h], h) /\ PhaseOK(proof.txs[h], h)
            BY <1>9, RunParts DEF LogOK
        <3>2. CASE h = hash
            BY <1>5, <1>7, <1>8, <3>1, <3>2 DEF LabelOK, PhaseOK
        <3>3. CASE h # hash
            BY <1>8, <1>9, <3>1, <3>3
        <3> QED BY <3>2, <3>3
    <2> QED BY <1>9, <2>1, RunParts DEF LogOK
<1>12. ScenarioOK(Scenario, log) /\ HistoryOK(Scenario.history, log)
    BY <1>9, RunParts, ScenarioGrows, HistoryGrows
<1>13. ArtifactOK(p)
    BY <1>10, <1>11, <1>12, RunParts DEF ArtifactOK, MutationOK, Scenario
<1>14. PositionOK(p, "observed", step, local)
    BY <1>2, <1>10, WaitMoves DEF Waits
<1> QED BY <1>1, <1>13, <1>14, GoArrives

LEMMA ObservedArrives == RunInv /\ Observed => Arrived
<1> SUFFICES ASSUME RunInv, Observed PROVE Arrived
    OBVIOUS
<1> DEFINE hash  == Scenario.tx[step]
           phase == proof.txs[hash].phase
           known == IF step = "post" THEN Scenario.bountyId ELSE Scenario.submissionId
           l     == [local EXCEPT !.exact = None]
<1>1. pc = "observed"
    BY DEF Observed
<1>2. PositionOK(proof, "observed", step, local) /\ hash # None
    BY <1>1 DEF RunInv, PositionOK, Waits, Scenario
<1>3. /\ step \in Kinds
      /\ ExactOK(Scenario, "observed", step, local.exact)
      /\ step = "evaluate" => proof.mutation = "CONFIRMED"
    BY <1>2, RunParts DEF PositionOK, Scenario
<1>4. phase = "FINALIZED" => Final(hash)
    BY <1>2, RunParts DEF ScenarioOK, LogOK, PhaseOK
<1>5. \/ Raise("FAILED")
      \/ Go("wait_finalized", step, proof, local)
      \/ /\ phase = "FINALIZED" /\ step = "close"
         /\ Go("read_close", step, proof, local)
      \/ /\ phase = "FINALIZED" /\ step = "evaluate"
         /\ Go("read_evaluate", step, proof, local)
      \/ /\ phase = "FINALIZED" /\ step \in {"post", "submit"} /\ known # None
         /\ Go("read_back", step, proof, local)
      \/ /\ phase = "FINALIZED" /\ step \in {"post", "submit"} /\ known = None
         /\ local.exact # None /\ AfterIdentified(Identified(local.exact), l)
      \/ /\ phase = "FINALIZED" /\ step \in {"post", "submit"} /\ known = None
         /\ local.exact = None /\ Go("relist", step, proof, local)
    <2>1. step \in {"post", "submit", "close", "evaluate"}
        BY <1>3, KindsDiffer
    <2> HIDE DEF hash, l
    <2>2. CASE phase = "FAILED"
        BY <2>2 DEF Observed, hash
    <2>3. CASE phase # "FAILED" /\ phase # "FINALIZED"
        BY <2>3 DEF Observed, hash
    <2>4. CASE phase = "FINALIZED"
        BY <2>1, <2>4 DEF Observed, hash, l
    <2> QED BY <2>2, <2>3, <2>4
<1> HIDE DEF phase, l
<1>6. known = Known(Scenario, step)
    BY DEF Known
<1> HIDE DEF known
<1>7. CASE Raise("FAILED")
    BY <1>7, RaiseArrives
<1>8. CASE Go("wait_finalized", step, proof, local)
    <2>1. PositionOK(proof, "wait_finalized", step, local)
        BY <1>2, WaitMoves DEF Waits
    <2> QED BY <1>8, <2>1, RunParts, GoArrives
<1>9. CASE phase = "FINALIZED" /\ step = "close" /\ Go("read_close", step, proof, local)
    <2>1. local.exact = None
        BY <1>3, <1>9 DEF ExactOK
    <2>2. PositionOK(proof, "read_close", step, local)
        BY <1>2, <1>9, <2>1, RunParts DEF PositionOK, ExactOK, SendOK, Scenario
    <2> QED BY <1>9, <2>2, RunParts, GoArrives
<1>10. CASE phase = "FINALIZED" /\ step = "evaluate" /\ Go("read_evaluate", step, proof, local)
    <2>1. local.exact = None
        BY <1>3, <1>10 DEF ExactOK
    <2>2. PositionOK(proof, "read_evaluate", step, local)
        BY <1>2, <1>3, <1>4, <1>10, <2>1, RunParts DEF PositionOK, ExactOK, SendOK, Scenario
    <2> QED BY <1>10, <2>2, RunParts, GoArrives
<1>11. CASE /\ step \in {"post", "submit"} /\ known # None
            /\ Go("read_back", step, proof, local)
    <2>1. local.exact = None
        BY <1>3, <1>6, <1>11 DEF ExactOK
    <2>2. PositionOK(proof, "read_back", step, local)
        BY <1>6, <1>11, <2>1, RunParts DEF PositionOK, ExactOK, SendOK, Waits, Scenario
    <2> QED BY <1>11, <2>2, RunParts, GoArrives
<1>12. CASE /\ phase = "FINALIZED" /\ step \in {"post", "submit"} /\ known = None
            /\ local.exact # None /\ AfterIdentified(Identified(local.exact), l)
    <2>1. l \in Locals /\ l.exact = None
        BY RunParts, LocalRewritten DEF l, None
    <2>2. IF step = "post"
          THEN /\ local.exact \in DOMAIN bounties
               /\ bounties[local.exact].title = Scenario.title
          ELSE /\ local.exact \in DOMAIN submissions
               /\ submissions[local.exact].bounty = Scenario.bountyId
        BY <1>3, <1>12 DEF ExactOK
    <2> QED BY <1>4, <1>6, <1>12, <2>1, <2>2, IdentifiedArrives
<1>13. CASE /\ phase = "FINALIZED" /\ step \in {"post", "submit"} /\ known = None
            /\ local.exact = None /\ Go("relist", step, proof, local)
    <2>1. PositionOK(proof, "relist", step, local)
        BY <1>2, <1>4, <1>6, <1>13, RunParts DEF PositionOK, ExactOK, SendOK, Scenario
    <2> QED BY <1>13, <2>1, RunParts, GoArrives
<1> QED BY <1>5, <1>7, <1>8, <1>9, <1>10, <1>11, <1>12, <1>13

\* What the loop over deadlines reads is held until it has read all of it.
LEMMA ReadBountyArrives == RunInv /\ ReadBounty => Arrived
<1> SUFFICES ASSUME RunInv, ReadBounty PROVE Arrived
    OBVIOUS
<1> DEFINE b    == bounties[Scenario.bountyId]
           l    == [local EXCEPT !.bounty = b]
           next == IF Scenario.submissionId # None THEN "read_submission" ELSE "read_clock"
<1>1. pc = "read_bounty" /\ Scenario.bountyId # None
    BY DEF RunInv, PositionOK, ReadBounty, Scenario
<1>2. CASE Throw(proof)
    BY <1>2, RunParts, ThrowArrives
<1>3. CASE Go(next, step, proof, l)
    <2>1. b \in Bounties
        <3>1. Scenario.bountyId \in DOMAIN bounties /\ bounties \in Seq(Bounties)
            BY <1>1, RunParts, PostedIsSent DEF Scenario, ChainInv
        <3> QED BY <3>1
    <2>2. l \in Locals /\ l.exact = None
        BY <1>1, <2>1, RunParts, LocalRewritten DEF Waits
    <2>3. step = "evaluate" => proof.mutation = "CONFIRMED"
        BY <1>1 DEF RunInv, PositionOK
    <2>4. /\ next \in {"read_submission", "read_clock"}
          /\ next = "read_submission" => Scenario.submissionId # None
        OBVIOUS
    <2> HIDE DEF l, next
    <2>5. PositionOK(proof, next, step, l)
        BY <1>1, <2>2, <2>3, <2>4, RunParts DEF PositionOK, ExactOK, SendOK, Waits, Scenario
    <2> QED BY <1>3, <2>5, RunParts, GoArrives
<1> QED BY <1>2, <1>3 DEF ReadBounty

LEMMA ReadSubmissionArrives == RunInv /\ ReadSubmission => Arrived
<1> SUFFICES ASSUME RunInv, ReadSubmission PROVE Arrived
    OBVIOUS
<1> DEFINE status == submissions[Scenario.submissionId].status
           l      == [local EXCEPT !.submission = status]
<1>1. /\ pc = "read_submission" /\ Scenario.submissionId # None
      /\ step = "evaluate" => proof.mutation = "CONFIRMED"
    BY DEF RunInv, PositionOK, ReadSubmission, Scenario
<1>2. Scenario.bountyId # None /\ Scenario.submissionId \in DOMAIN submissions
    BY <1>1, RunParts, SubmittedIsPosted DEF Scenario
<1>3. CASE Throw(proof)
    BY <1>3, RunParts, ThrowArrives
<1>4. CASE Go("read_clock", step, proof, l)
    <2>1. status \in SubmissionStatuses
        <3>1. submissions \in Seq(Submissions)
            BY RunParts DEF ChainInv
        <3> QED BY <1>2, <3>1, SubmissionParts
    <2> HIDE DEF status
    <2>2. l \in Locals /\ l.exact = None
        BY <1>1, <2>1, RunParts, LocalRewritten DEF Waits
    <2> HIDE DEF l
    <2>3. PositionOK(proof, "read_clock", step, l)
        BY <1>1, <1>2, <2>2, RunParts DEF PositionOK, ExactOK, SendOK, Waits, Scenario
    <2> QED BY <1>4, <2>3, RunParts, GoArrives
<1> QED BY <1>3, <1>4 DEF ReadSubmission

LEMMA ReadClockArrives == RunInv /\ ReadClock => Arrived
<1> SUFFICES ASSUME RunInv, ReadClock PROVE Arrived
    OBVIOUS
<1> DEFINE a    == ScenarioDeadlineAction(local.bounty, local.submission, now)
           kept == [local EXCEPT !.bounty = NoBounty]
           next == [kept EXCEPT !.submission = Absent]
           l    == [next EXCEPT !.reuse = TRUE]
<1>1. pc = "read_clock" /\ Scenario.bountyId # None
    BY DEF RunInv, PositionOK, ReadClock, Scenario
<1>2. kept \in Locals /\ kept.exact = None
    <2>1. NoBounty \in Bounties
        BY DEF NoBounty, Bounties, None
    <2> QED BY <1>1, <2>1, RunParts, LocalRewritten DEF Waits
<1>3. \/ Scenario.submissionId # None /\ AfterScenario(proof, next)
      \/ EnterSubmit(proof, l)
      \/ EnterClosure(a, next)
      \/ Throw(proof)
    <2> HIDE DEF a
    <2> QED BY DEF ReadClock, a
<1> HIDE DEF kept, a
<1>4. next \in Locals /\ next.exact = None
    BY <1>2, LocalRewritten DEF SubmissionStatuses
<1> HIDE DEF next
<1>5. l \in Locals /\ l.exact = None
    BY <1>4, LocalRewritten
<1> HIDE DEF l
<1>6. CASE Scenario.submissionId # None /\ AfterScenario(proof, next)
    BY <1>4, <1>6, RunParts, AfterScenarioArrives DEF Scenario
<1>7. CASE EnterSubmit(proof, l)
    BY <1>1, <1>5, <1>7, RunParts, EnterSubmitArrives DEF Scenario
<1>8. CASE EnterClosure(a, next)
    BY <1>1, <1>4, <1>8, RunParts, EnterClosureArrives
<1>9. CASE Throw(proof)
    BY <1>9, RunParts, ThrowArrives
<1> QED BY <1>3, <1>6, <1>7, <1>8, <1>9

\* A bounty that is closed is replaced.
LEMMA ReadClosedArrives == RunInv /\ ReadClosed => Arrived
<1> SUFFICES ASSUME RunInv, ReadClosed PROVE Arrived
    OBVIOUS
<1> DEFINE status == bounties[Scenario.bountyId].status
           next   == With(ReplaceScenarioRecord(Scenario, status))
           n      == local.replaced + 1
           l      == [[local EXCEPT !.closing = Absent] EXCEPT !.replaced = n]
<1>1. /\ pc = "read_close" /\ step = "close" /\ Scenario.tx["close"] # None
      /\ Scenario.bountyId # None /\ local.exact = None
    BY RunParts DEF RunInv, PositionOK, ReadClosed, StepOK, Waits, Scenario
<1>2. \/ Throw(proof)
      \/ status \in Closures /\ (Throw(next) \/ EnterPost(next, l))
    <2>1. [local EXCEPT !.closing = Absent, !.replaced = @ + 1] = l
        OBVIOUS
    <2> HIDE DEF l
    <2>2. CASE status \notin Closures
        BY <2>2 DEF ReadClosed, Closures
    <2>3. CASE status \in Closures /\ local.replaced = MaxReplacements
        BY <2>3 DEF ReadClosed, Closures
    <2>4. CASE status \in Closures /\ local.replaced # MaxReplacements
        <3>1. EnterPost(next, [local EXCEPT !.closing = Absent, !.replaced = @ + 1])
            BY <2>4 DEF ReadClosed, Closures
        <3> QED BY <2>1, <2>4, <3>1
    <2> QED BY <2>2, <2>3, <2>4
<1>3. l \in Locals /\ l.exact = None
    <2>1. n \in Nat /\ Absent \in Actions
        BY RunParts, LocalParts DEF Actions
    <2> HIDE DEF n
    <2> QED BY <1>1, <2>1, RunParts DEF Locals
<1> HIDE DEF l
<1>4. ASSUME status \in Closures PROVE ArtifactOK(next)
    <2>1. Scenario.bountyId \in DOMAIN bounties
        BY <1>1, RunParts, PostedIsSent DEF Scenario
    <2>2. status # "POST_TRANSACTION_FAILED"
        BY <1>4 DEF Closures
    <2> QED BY <1>1, <1>4, <2>1, <2>2, RunParts, ReplacementIsRight
<1> HIDE DEF next
<1>5. CASE Throw(proof)
    BY <1>5, RunParts, ThrowArrives
<1>6. CASE status \in Closures /\ Throw(next)
    BY <1>4, <1>6, ThrowArrives
<1>7. CASE status \in Closures /\ EnterPost(next, l)
    BY <1>3, <1>4, <1>7, RunParts, EnterPostArrives
<1> QED BY <1>2, <1>5, <1>6, <1>7

\* The mutation is confirmed once the worker has answered.
LEMMA ConfirmMutationArrives == RunInv /\ ConfirmMutation => Arrived
<1> SUFFICES ASSUME RunInv, ConfirmMutation PROVE Arrived
    OBVIOUS
<1> DEFINE p == [proof EXCEPT !.mutation = "CONFIRMED", !.webhook = "CONFIRMED"]
<1>1. EnterEvaluate(p, local) /\ pc = "webhook_answered"
    BY DEF ConfirmMutation
<1>2. mutated /\ Scenario.submissionId # None /\ local.exact = None
    <2>1. mutated /\ step = "evaluate"
        BY <1>1 DEF RunInv, PositionOK
    <2> QED BY <1>1, <2>1, RunParts DEF StepOK, Waits
<1>3. /\ p \in Artifacts /\ p.txs = proof.txs /\ p.scenario = proof.scenario
      /\ p.mutation = "CONFIRMED"
    <2>1. "CONFIRMED" \in MutationStates /\ "CONFIRMED" \in {Absent, "CONFIRMED"}
        BY DEF MutationStates
    <2> QED BY <2>1, RunParts DEF Artifacts
<1> HIDE DEF p
<1>4. ArtifactOK(p)
    BY <1>2, <1>3, RunParts, ArtifactRewritten DEF MutationOK
<1> QED BY <1>1, <1>2, <1>3, <1>4, RunParts, EnterEvaluateArrives DEF Scenario

\* The verdict is read and the run is complete.
LEMMA ReadEvaluatedArrives == RunInv /\ ReadEvaluated => Arrived
<1> SUFFICES ASSUME RunInv, ReadEvaluated PROVE Arrived
    OBVIOUS
<1> DEFINE sub == submissions[Scenario.submissionId]
           p   == [proof EXCEPT !.inconclusive = sub.reason, !.status = "COMPLETE"]
<1>1. /\ pc = "read_evaluate" /\ step = "evaluate" /\ Final(Scenario.tx["evaluate"])
      /\ proof.mutation = "CONFIRMED" /\ Scenario.submissionId # None
    BY RunParts DEF RunInv, PositionOK, ReadEvaluated, StepOK, Scenario
<1>2. CASE Throw(proof)
    BY <1>2, RunParts, ThrowArrives
<1>3. CASE /\ sub.reason \in {"DIGEST_MISMATCH", "FETCH_FAILED"}
           /\ Go("done", "post", p, Nothing)
    <2>1. Scenario.submissionId \in DOMAIN submissions
        BY <1>1, RunParts, SubmittedIsPosted DEF Scenario
    <2>2. sub.reason = "DIGEST_MISMATCH" => sub.digest = "initial"
        BY <2>1, RunParts DEF ChainInv, Evaluated
    <2>3. \A reason \in {"DIGEST_MISMATCH", "FETCH_FAILED"} :
            LET q == [proof EXCEPT !.inconclusive = reason, !.status = "COMPLETE"]
            IN  /\ q \in Artifacts /\ q.txs = proof.txs /\ q.scenario = proof.scenario
                /\ q.mutation = proof.mutation /\ q.inconclusive = reason
        BY RunParts DEF Artifacts
    <2>4. /\ p \in Artifacts /\ p.txs = proof.txs /\ p.scenario = Scenario
          /\ p.mutation = "CONFIRMED" /\ p.inconclusive = sub.reason
        BY <1>1, <1>3, <2>3 DEF Scenario
    <2> HIDE DEF p
    <2>5. ArtifactOK(p)
        BY <1>1, <2>4, RunParts, ArtifactRewritten DEF MutationOK, Scenario
    <2>6. DoneOK(p)
        BY <1>1, <2>2, <2>4 DEF DoneOK
    <2>7. PositionOK(p, "done", "post", Nothing)
        BY <2>6, NothingIsLocal, KindsDiffer DEF PositionOK, StepOK, ExactOK, SendOK, Waits
    <2> QED BY <1>3, <2>5, <2>7, GoArrives
<1> QED BY <1>2, <1>3 DEF ReadEvaluated

\* What stops the process leaves the artifact as right as it was.
LEMMA OutageArrives == RunInv /\ Outage => Arrived
    BY RaiseArrives DEF Outage

LEMMA CrashArrives == RunInv /\ Crash => Arrived
<1> SUFFICES ASSUME RunInv, Crash PROVE Arrived
    OBVIOUS
<1>1. Go("down", "post", proof, Nothing)
    BY DEF Crash
<1>2. PositionOK(proof, "down", "post", Nothing)
    BY NothingIsLocal, KindsDiffer, QuietPosition DEF StepOK, Waits
<1> QED BY <1>1, <1>2, RunParts, GoArrives

-----------------------------------------------------------------------------
(***************************************************************************)
(* Every step keeps the invariant.                                         *)
(***************************************************************************)

\* The process arrives in a state of a chain that has not moved.
LEMMA ArrivedIsRight ==
    ASSUME RunInv, Arrived, UNCHANGED <<chain, mutated>>, now' = now, starts' \in 0..MaxStarts
    PROVE  RunInv'
<1>1. ChainInv'
    <2>1. ChainInv /\ now' \in 0..MaxTime
        BY DEF RunInv, ChainInv
    <2> QED BY <2>1, ChainRests DEF Onward
<1>2. ArtifactOK(proof)'
    BY DEF Arrived, ArtifactOK, LogOK, LabelOK, PhaseOK, ScenarioOK, RecordIsBound, HistoryOK,
           EntryOK, MutationOK, Final, chain
<1>3. PositionOK(proof, pc, step, local)'
    BY DEF Arrived, PositionOK, StepOK, ExactOK, SendOK, DoneOK, Final, chain
<1> QED BY <1>1, <1>2, <1>3 DEF RunInv

\* What is sent is pending and for the record's own title, bounty or submission.
LEMMA SendWriteIsRight == RunInv /\ SendWrite => RunInv'
<1> SUFFICES ASSUME RunInv, SendWrite PROVE RunInv'
    OBVIOUS
<1> DEFINE target == TargetOf(Scenario, step)
           action == IF step = "close" THEN local.closing ELSE Absent
           sent   == [kind |-> step, target |-> target, status |-> "PENDING",
                      action |-> action, execution |-> Absent]
<1>1. /\ txs' = Append(txs, sent) /\ pc = "send" /\ pc' = "sent"
      /\ UNCHANGED <<now, bounties, submissions, undetermined, mutated, proof, step, local, starts>>
    BY DEF SendWrite, TargetOf
<1>2. /\ step = "close" => local.closing \in {"CANCEL", "EXPIRE"}
      /\ step \in {"post", "submit"} => Known(Scenario, step) = None
      /\ step = "evaluate" => proof.mutation = "CONFIRMED"
      /\ local.exact = None
    BY <1>1, RunParts DEF RunInv, PositionOK, SendOK, Scenario, Waits
<1>3. target \in Nat /\ action \in Actions
    BY RunParts, ScenarioParts, LocalParts DEF TargetOf, Actions
<1>4. /\ step \in {"submit", "close"} => target \in DOMAIN bounties
      /\ step = "evaluate" => target \in DOMAIN submissions
    <2>1. step \in {"submit", "close"} => Scenario.bountyId \in DOMAIN bounties
        BY RunParts, PostedIsSent DEF StepOK, Scenario
    <2>2. step = "evaluate" => Scenario.submissionId \in DOMAIN submissions
        BY RunParts, SubmittedIsPosted DEF StepOK, Scenario
    <2> QED BY <2>1, <2>2 DEF TargetOf
<1> HIDE DEF target, action
<1>5. /\ sent \in Transactions /\ sent.kind = step /\ sent.target = target
      /\ sent.status = "PENDING" /\ sent.action = action /\ sent.execution = Absent
    BY <1>3, RunParts DEF Transactions, Executions
<1>6. Absent # "FINISHED_WITH_RETURN"
    BY Zenon DEF Absent
<1> HIDE DEF sent
<1>7. txs \in Seq(Transactions) /\ \A h \in DOMAIN txs : Executed(txs[h])
    BY RunParts DEF ChainInv
<1>8. /\ txs' \in Seq(Transactions) /\ Len(txs') = Len(txs) + 1
      /\ DOMAIN txs' = DOMAIN txs \union {Len(txs')} /\ Len(txs') \notin DOMAIN txs
      /\ txs'[Len(txs')] = sent
      /\ \A h \in DOMAIN txs : txs'[h] = txs[h]
    BY <1>1, <1>5, <1>7
<1>9. LedgerTyped /\ LedgerTyped' /\ LedgerGoesOn
    BY <1>1, RunParts, LedgerRests DEF ChainInv, LedgerTyped
<1>10. \A h \in DOMAIN txs' : Executed(txs[h])'
    <2>1. ASSUME NEW h \in DOMAIN txs PROVE Executed(txs[h])'
        BY <1>7, <1>8, <1>9, ExecutedGoesOn
    <2>2. Executed(txs[Len(txs)])'
        BY <1>1, <1>4, <1>5, <1>6, <1>8 DEF Executed
    <2> QED BY <1>8, <2>1, <2>2
<1>11. ChainInv' /\ TransactionsGoOn
    BY <1>1, <1>8, <1>9, <1>10, RunParts DEF ChainInv, LedgerTyped, TransactionsGoOn
<1>12. ArtifactOK(proof)'
    <2> SUFFICES ASSUME NEW p, p = proof PROVE ArtifactOK(p)'
        BY <1>1
    <2>1. ArtifactOK(p) /\ MutationOK(p)'
        BY <1>1, RunParts DEF MutationOK
    <2> QED BY <1>9, <1>11, <2>1, ArtifactGoesOn
<1>13. PositionOK(proof, pc, step, local)'
    <2>1. /\ Len(txs') \in DOMAIN txs' \ DOMAIN proof.txs
          /\ txs'[Len(txs')].kind = step /\ txs'[Len(txs')].target = target
          /\ step = "close" => txs'[Len(txs')].action = local.closing
        BY <1>5, <1>8, RunParts DEF LogOK, action
    <2>2. SendOK(proof, pc, step, local)'
        BY <1>1, <1>2, <2>1 DEF SendOK, Scenario, target, Known, TargetOf
    <2>3. ExactOK(proof.scenario, pc, step, local.exact)' /\ StepOK(proof.scenario, step)'
        BY <1>1, <1>2, RunParts DEF ExactOK, StepOK, Scenario
    <2> QED BY <1>1, <1>2, <2>2, <2>3, RunParts DEF PositionOK, Waits
<1> QED BY <1>11, <1>12, <1>13 DEF RunInv

\* The page changes only when its change is announced.
LEMMA WebhookIsRight == RunInv /\ Webhook => RunInv'
<1> SUFFICES ASSUME RunInv, Webhook PROVE RunInv'
    OBVIOUS
<1>1. /\ mutated' = TRUE /\ pc = "webhook" /\ pc' = "webhook_answered"
      /\ UNCHANGED <<now, chain, proof, step, local, starts>>
    BY DEF Webhook
<1>2. step = "evaluate" /\ proof.mutation = "PENDING" /\ local.exact = None
    BY <1>1, RunParts DEF RunInv, PositionOK, Waits
<1>3. LedgerTyped' /\ LedgerGoesOn
    <2>1. \A x \in DOMAIN submissions : submissions[x].attempts \in Nat
        BY RunParts, SubmissionParts DEF ChainInv
    <2> QED BY <1>1, <2>1, RunParts DEF ChainInv, LedgerTyped, LedgerGoesOn, Evaluated, chain
<1>4. ChainInv' /\ TransactionsGoOn
    <2>1. ChainInv /\ now' \in 0..MaxTime /\ starts' \in 0..MaxStarts /\ mutated' \in BOOLEAN
          /\ UNCHANGED <<txs, undetermined>>
        BY <1>1, RunParts DEF ChainInv, chain
    <2> QED BY <1>3, <2>1, TransactionsRest DEF Onward
<1>5. ArtifactOK(proof)'
    <2> SUFFICES ASSUME NEW p, p = proof PROVE ArtifactOK(p)'
        BY <1>1
    <2>1. ArtifactOK(p) /\ MutationOK(p)'
        BY <1>1, <1>2, RunParts DEF MutationOK
    <2> QED BY <1>3, <1>4, <2>1, ArtifactGoesOn
<1>6. PositionOK(proof, pc, step, local)'
    <2>1. StepOK(proof.scenario, step)' /\ local' \in Locals
        BY <1>1, RunParts DEF StepOK, Scenario
    <2> QED BY <1>1, <1>2, <2>1 DEF PositionOK, ExactOK, SendOK, Waits
<1> QED BY <1>4, <1>5, <1>6 DEF RunInv

\* The chain moves and the process does not.
LEMMA ChainIsRight == RunInv /\ (Chain \/ Tick) => RunInv'
<1> SUFFICES ASSUME RunInv, Chain \/ Tick PROVE RunInv'
    OBVIOUS
<1>1. UNCHANGED <<run, mutated>>
    BY DEF Chain, Tick, Unaware
<1>2. Onward /\ Len(txs') = Len(txs)
    BY RunParts, ChainGoesOn
<1>3. TransactionsGoOn /\ LedgerGoesOn /\ ChainInv /\ ChainInv' /\ (mutated => mutated')
    BY <1>1, <1>2, RunParts DEF Onward
<1> SUFFICES ASSUME NEW p, NEW w, NEW k, NEW l, p = proof, w = pc, k = step, l = local
             PROVE  ArtifactOK(p)' /\ PositionOK(p, w, k, l)'
    BY <1>1, <1>3 DEF RunInv, run
<1>4. ArtifactOK(p) /\ PositionOK(p, w, k, l) /\ MutationOK(p)'
    BY <1>1, RunParts DEF RunInv, MutationOK
<1>5. ArtifactOK(p)'
    BY <1>3, <1>4, ArtifactGoesOn
<1> QED BY <1>2, <1>3, <1>4, <1>5, PositionGoesOn

\* The process and the chain, one step each.
LEMMA ProcessIsRight == RunInv /\ Process => RunInv'
<1> SUFFICES ASSUME RunInv, Process PROVE RunInv'
    OBVIOUS
<1>1. CASE Start
    <2>1. Arrived
        BY <1>1, StartArrives
    <2>2. starts' \in 0..MaxStarts
        BY <1>1, LiveRunAssumption, RunParts DEF Start, ChainInv
    <2>3. UNCHANGED <<now, chain, mutated>>
        BY <1>1 DEF Start
    <2> QED BY <2>1, <2>2, <2>3, ArrivedIsRight
<1>2. ASSUME Arrived, Unmoved PROVE RunInv'
    <2>1. UNCHANGED <<chain, mutated>> /\ now' = now /\ starts' \in 0..MaxStarts
        BY <1>2, RunParts DEF Unmoved, ChainInv
    <2> QED BY <1>2, <2>1, ArrivedIsRight
<1>3. CASE Preflight
    BY <1>2, <1>3, PreflightArrives DEF Preflight
<1>4. CASE List
    BY <1>2, <1>4, ListArrives DEF List
<1>5. CASE Relist
    BY <1>2, <1>5, RelistArrives DEF Relist
<1>6. CASE ReadBack
    BY <1>2, <1>6, ReadBackArrives DEF ReadBack
<1>7. CASE SendWrite
    BY <1>7, SendWriteIsRight
<1>8. CASE RecordHash
    BY <1>2, <1>8, RecordHashArrives DEF RecordHash
<1>9. CASE ObserveAccepted
    BY <1>2, <1>9, ObserveArrives DEF ObserveAccepted, Observe, Waits
<1>10. CASE ObserveFinalized
    BY <1>2, <1>10, ObserveArrives DEF ObserveFinalized, Observe, Waits
<1>11. CASE Observed
    BY <1>2, <1>11, ObservedArrives DEF Observed
<1>12. CASE ReadBounty
    BY <1>2, <1>12, ReadBountyArrives DEF ReadBounty
<1>13. CASE ReadSubmission
    BY <1>2, <1>13, ReadSubmissionArrives DEF ReadSubmission
<1>14. CASE ReadClock
    BY <1>2, <1>14, ReadClockArrives DEF ReadClock
<1>15. CASE ReadClosed
    BY <1>2, <1>15, ReadClosedArrives DEF ReadClosed
<1>16. CASE Webhook
    BY <1>16, WebhookIsRight
<1>17. CASE ConfirmMutation
    BY <1>2, <1>17, ConfirmMutationArrives DEF ConfirmMutation
<1>18. CASE ReadEvaluated
    BY <1>2, <1>18, ReadEvaluatedArrives DEF ReadEvaluated
<1>19. CASE Outage
    BY <1>2, <1>19, OutageArrives DEF Outage
<1>20. CASE Crash
    BY <1>2, <1>20, CrashArrives DEF Crash
<1> QED BY <1>1, <1>3, <1>4, <1>5, <1>6, <1>7, <1>8, <1>9, <1>10, <1>11, <1>12, <1>13, <1>14,
           <1>15, <1>16, <1>17, <1>18, <1>19, <1>20 DEF Process

\* Nothing happens.
LEMMA RunRests == RunInv /\ UNCHANGED vars => RunInv'
<1> SUFFICES ASSUME RunInv, UNCHANGED vars PROVE RunInv'
    OBVIOUS
<1>1. UNCHANGED <<chain, mutated, run>> /\ now' = now /\ starts' = starts
    BY DEF vars
<1>2. Arrived
    BY <1>1 DEF Arrived, RunInv, run
<1>3. starts' \in 0..MaxStarts
    BY <1>1, RunParts DEF ChainInv
<1> QED BY <1>1, <1>2, <1>3, ArrivedIsRight

\* The invariant holds throughout.
LEMMA RunInvariant == Spec => []RunInv
<1>1. Init => RunInv
    BY RunStart
<1>2. RunInv /\ [Next]_vars => RunInv'
    BY ProcessIsRight, ChainIsRight, RunRests DEF Next
<1> QED BY <1>1, <1>2, PTL DEF Spec

-----------------------------------------------------------------------------
(***************************************************************************)
(* The theorems.                                                           *)
(***************************************************************************)

\* However often the run is started again, every hash on record is a
\* transaction of the chain that the artifact describes, every id is one the
\* contract knows, and the process waits only for what is on record.
THEOREM LiveRunTypeCorrect == Spec => []TypeOK
    BY RunInvariant, RunTyped, PTL

\* Recovery never mixes scenarios: each hash a record keeps, and each of the
\* records it replaced, is of a transaction of that kind for its own title,
\* bounty or submission, although two of the labels that recovery looks
\* transactions up by name no scenario (storedTransaction and
\* uniqueUsableTransaction, live_consensus.mjs).
THEOREM HashesStayBound == Spec => []RecordedHashesAreBound
    BY RunInvariant, RunBound, PTL

\* The checkpoint of the mutation never trails the worker: the webhook is called
\* only after its announcement is on disk, and confirmed only after it answered.
THEOREM CheckpointIsHonest == Spec => []MutationCheckpointIsHonest
<1>1. RunInv => MutationCheckpointIsHonest
    BY DEF RunInv, ArtifactOK, MutationOK, MutationCheckpointIsHonest
<1> QED BY <1>1, RunInvariant, PTL

\* No reward is left behind: a scenario is replaced only when its bounty is
\* closed on the chain or its post can no longer create one, however stale the
\* reads of the deadline check were (scenarioDeadlineAction and
\* replaceTerminallyFailedPostScenario).
THEOREM ReplacedScenariosAreClosed == Spec => []ReplacedScenarioIsClosed
    BY RunInvariant, RunClosed, PTL

\* A run that ends COMPLETE has a final, successful transaction for each step of
\* its scenario and a page changed by its own webhook, and blames a mismatch only
\* on that change; what may be exported closed every scenario it replaced.
THEOREM CompletionIsEarned == Spec => []CompleteIsEarned
    BY RunInvariant, RunEarned, PTL
=============================================================================
