------------------------- MODULE ReceiptClassifier -------------------------
(***************************************************************************)
(* How the interface (classifyTransaction) and the live run               *)
(* (classifyLiveReceipt) read a GenLayer receipt.  A receipt is the three  *)
(* names both read from it, whichever of its aliases or numeric codes      *)
(* carries them; Absent is a field that is absent or unknown.              *)
(*                                                                         *)
(* Both check the status, then the execution, then the consensus result    *)
(* for a recorded failure before they call anything accepted or final.     *)
(* They differ in the results they take for agreement, and the live run    *)
(* knows one more failure.                                                 *)
(***************************************************************************)

Absent == ""

\* transactionsStatusNumberToName and number 14.
Statuses ==
    {Absent, "UNINITIALIZED", "PENDING", "PROPOSING", "COMMITTING", "REVEALING",
     "ACCEPTED", "UNDETERMINED", "FINALIZED", "CANCELED", "APPEAL_REVEALING",
     "APPEAL_COMMITTING", "READY_TO_FINALIZE", "VALIDATORS_TIMEOUT",
     "LEADER_TIMEOUT", "LEADER_REVEALING"}

StatusFailures == {"UNDETERMINED", "CANCELED", "VALIDATORS_TIMEOUT", "LEADER_TIMEOUT"}

ExecutionFailures == {"FINISHED_WITH_ERROR", "TIMEOUT", "NONDET_DISAGREE"}

ConsensusFailures ==
    {"MAJORITY_DISAGREE", "NO_MAJORITY", "DETERMINISTIC_VIOLATION",
     "MAJORITY_TIMEOUT", "TIMEOUT", "DISAGREE", "FAILURE"}

LiveConsensusFailures == ConsensusFailures \union {"NONDET_DISAGREE"}

Phases == {"SUBMITTED", "PROCESSING", "ACCEPTED", "FINALIZED", "FAILED"}

Terminal(phase) == phase \in {"FINALIZED", "FAILED"}

Returned(receipt) == receipt.execution = "FINISHED_WITH_RETURN"

RecordsFailure(receipt, failures) ==
    \/ receipt.status \in StatusFailures
    \/ receipt.execution \in ExecutionFailures
    \/ receipt.result \in failures

\* A classifier that takes a receipt's status for the whole answer.
Bug_ClassifyTransaction(receipt) ==
    IF receipt.status \in StatusFailures THEN "FAILED"
    ELSE IF receipt.status \in {"ACCEPTED", "FINALIZED"} THEN receipt.status
    ELSE "PROCESSING"

\* classifyTransaction, lib/transactionClassifier.ts.
ClassifyTransaction(receipt) ==
    LET succeeded == receipt.result = "MAJORITY_AGREE" /\ Returned(receipt)
        failed    == RecordsFailure(receipt, ConsensusFailures)
    IN  CASE failed \/ (receipt.status = "FINALIZED" /\ ~succeeded) -> "FAILED"
          [] ~failed /\ succeeded /\ receipt.status \in {"ACCEPTED", "FINALIZED"} ->
               receipt.status
          [] OTHER ->
               IF receipt.status \in {Absent, "UNINITIALIZED"} THEN "SUBMITTED" ELSE "PROCESSING"

\* A live classifier that does not look at the execution result.
Bug_ClassifyLiveReceipt(receipt) ==
    IF receipt.status \in StatusFailures THEN "FAILED"
    ELSE IF receipt.status \in {"ACCEPTED", "FINALIZED"} THEN receipt.status
    ELSE "PROCESSING"

\* classifyLiveReceipt, scripts/live-lifecycle.mjs.
ClassifyLiveReceipt(receipt) ==
    LET succeeded == receipt.result \in {"MAJORITY_AGREE", "AGREE"} /\ Returned(receipt)
        failed    == RecordsFailure(receipt, LiveConsensusFailures)
    IN  CASE failed \/ (receipt.status = "FINALIZED" /\ ~succeeded) -> "FAILED"
          [] ~failed /\ succeeded /\ receipt.status \in {"ACCEPTED", "FINALIZED"} ->
               receipt.status
          [] OTHER -> IF receipt.status = Absent THEN "SUBMITTED" ELSE "PROCESSING"
=============================================================================
