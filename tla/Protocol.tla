------------------------------ MODULE Protocol ------------------------------
(***************************************************************************)
(* The closed sets and the shape checks of contracts/content_bounty.py:    *)
(* statuses, decisions, reason and verdict codes, what one consensus       *)
(* evaluation or challenge review may return, and the size of a bond.      *)
(* Nothing here has state; the other modules extend it.                    *)
(*                                                                         *)
(* A SHA-256 digest is a member of Digests; the empty string the code      *)
(* stores where there is none is NoDigest.  The '0'/'1' string             *)
(* criteria_bits is a sequence of 0 and 1.                                 *)
(***************************************************************************)
EXTENDS Integers, Sequences, FiniteSets

CONSTANTS
    Digests,                 \* SHA-256 digests of normalised page text
    CRITERION_COUNT,         \* criteria in a bounty's rubric
    CHALLENGE_BOND_BPS,      \* bond as basis points of the reward
    MIN_CHALLENGE_BOND       \* floor of the bond

ASSUME RubricAssumption == CRITERION_COUNT \in Nat \ {0}

ASSUME BondAssumption ==
    /\ CHALLENGE_BOND_BPS \in Nat
    /\ MIN_CHALLENGE_BOND \in Nat \ {0}

NoDigest == ""

BountyStatuses == {"OPEN", "LOCKED", "FILLED", "CANCELLED", "EXPIRED"}

SubmissionStatuses ==
    {"PENDING", "APPROVED_PENDING", "APPROVED", "REJECTED", "INCONCLUSIVE", "SUPERSEDED"}

ChallengeStatuses == {"OPEN", "UPHELD", "DISMISSED", "TIMED_OUT"}

Decisions == {"APPROVE", "REJECT", "INCONCLUSIVE"}

ChallengeOutcomes == {"UPHOLD", "DISMISS", "INCONCLUSIVE"}

ChallengeReasonCodes ==
    {"NO_SOURCE_CONTROL", "AUTHORSHIP_DISPUTE", "RIGHTS_OR_PLAGIARISM",
     "FALSE_OR_MISLEADING_CLAIM", "SOURCE_TAMPERED", "RUBRIC_EVALUATION_ERROR"}

ChallengeErrorClasses ==
    {"", "[EXPECTED]", "[EXTERNAL]", "[TRANSIENT]", "[LLM_ERROR]", "DIGEST_MISMATCH"}

VerdictCodes ==
    {"", "ALL_CRITERIA_MET", "NOT_ALL_CRITERIA_MET", "EVIDENCE_UNVERIFIED",
     "CLAIM_TAG_MISSING", "CHALLENGE_UPHELD"}

\* The reason codes _evaluate_evidence and _normalize_judgment can return.
InconclusiveReasons ==
    {"FETCH_FAILED", "EMPTY_EVIDENCE", "EVIDENCE_TOO_LARGE", "DIGEST_MISMATCH",
     "EXTRACTION_FAILED", "JUDGMENT_FAILED", "INVALID_JUDGMENT"}

EvaluationReasons ==
    InconclusiveReasons \cup
        {"CLAIM_TAG_MISSING", "ALL_REQUIRED_CRITERIA_MET", "CRITERIA_NOT_MET"}

CriteriaBits == {<<>>} \cup [1..CRITERION_COUNT -> {0, 1}]

ScoreBucket(bits) == (Cardinality({i \in DOMAIN bits : bits[i] = 1}) * 4) \div CRITERION_COUNT

AllMet(bits) == \A i \in DOMAIN bits : bits[i] = 1

\* What run_nondet_unsafe may hand back to evaluate_submission without the
\* assertion after it failing.  That assertion takes any string for a reason;
\* only those an honest node returns are kept here, which is what an accepted
\* result can have (AgreedWasComputedHonestly in ConsensusRound).
Evaluations ==
    [decision: Decisions, criteria_bits: CriteriaBits, score_bucket: 0..4,
     evidence_hash: Digests \cup {NoDigest}, reason_code: EvaluationReasons,
     claim_tag_present: BOOLEAN]

ValidEvaluationShape(result) ==
    /\ result \in Evaluations
    /\ \/ /\ result.decision = "INCONCLUSIVE"
          /\ result.criteria_bits = <<>>
          /\ result.score_bucket = 0
       \/ /\ result.decision = "REJECT"
          /\ result.reason_code = "CLAIM_TAG_MISSING"
          /\ result.evidence_hash # NoDigest
          /\ result.criteria_bits = <<>>
          /\ result.score_bucket = 0
          /\ ~result.claim_tag_present
       \/ /\ result.decision \in {"APPROVE", "REJECT"}
          /\ result.reason_code # "CLAIM_TAG_MISSING"
          /\ result.evidence_hash # NoDigest
          /\ result.claim_tag_present
          /\ DOMAIN result.criteria_bits = 1..CRITERION_COUNT
          /\ AllMet(result.criteria_bits) <=> result.decision = "APPROVE"
          /\ result.score_bucket = ScoreBucket(result.criteria_bits)

VerdictCode(decision, reason_code) ==
    IF decision = "APPROVE" THEN "ALL_CRITERIA_MET"
    ELSE IF decision # "REJECT" THEN "EVIDENCE_UNVERIFIED"
    ELSE IF reason_code = "CLAIM_TAG_MISSING" THEN "CLAIM_TAG_MISSING"
    ELSE "NOT_ALL_CRITERIA_MET"

Reviews ==
    [outcome: ChallengeOutcomes, reason_code: ChallengeReasonCodes,
     error_class: ChallengeErrorClasses, original_hash: Digests \cup {NoDigest},
     evidence_hash: Digests \cup {NoDigest}, claim_tag_present: BOOLEAN]

ValidChallengeReviewShape(result) ==
    /\ result \in Reviews
    /\ \/ result.outcome = "INCONCLUSIVE" /\ result.error_class # ""
       \/ /\ result.outcome \in {"UPHOLD", "DISMISS"}
          /\ result.error_class = ""
          /\ result.original_hash # NoDigest
          /\ result.reason_code \in {"SOURCE_TAMPERED", "NO_SOURCE_CONTROL"}
                \/ result.evidence_hash # NoDigest

\* 5% of the reward, with a floor.
ChallengeBond(reward) ==
    LET percentage_bond == (reward * CHALLENGE_BOND_BPS) \div 10000
    IN IF percentage_bond > MIN_CHALLENGE_BOND THEN percentage_bond ELSE MIN_CHALLENGE_BOND
=============================================================================
