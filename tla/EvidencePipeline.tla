-------------------------- MODULE EvidencePipeline --------------------------
(***************************************************************************)
(* What one validator computes when the contract asks for evidence to be   *)
(* committed to, evaluated or reviewed (the functions run_nondet_unsafe    *)
(* runs in contracts/content_bounty.py), as operators on what the web and  *)
(* the language model answered.                                            *)
(*                                                                         *)
(* A page is its normalised text, and its text is known by its digest:     *)
(* SizeOf and TagIn say what the contract tells apart in it.  A render     *)
(* gives the digest of the page served, or raises, or is not a string.     *)
(* What the model answers to the extraction prompt is parsed or raises;    *)
(* what it answers to the judgment prompt is a member of Judgments or of   *)
(* ChallengeJudgments.  Bug_ operators are as in ContentBounty.            *)
(***************************************************************************)
EXTENDS Protocol

CONSTANTS
    SizeOf,              \* digest -> "empty", "bounded" or "oversized" (MAX_EVIDENCE_CHARS)
    TagIn,               \* digest -> whether the page has the submission's claim tag
    Judgments,           \* answers to the judgment prompt of an evaluation
    ChallengeJudgments   \* answers to the judgment prompt of a review

\* The claim tag is not empty, so a page that has it is not empty either.
ASSUME PageAssumption ==
    /\ SizeOf \in [Digests -> {"empty", "bounded", "oversized"}]
    /\ TagIn \in [Digests -> BOOLEAN]
    /\ \A page \in Digests : TagIn[page] => SizeOf[page] # "empty"
    /\ NoDigest \notin Digests

\* raised: exec_prompt failed, or its answer is no JSON object.  An item is
\* invalid when it is no object, has the wrong id, or its met is no boolean.
ASSUME JudgmentAssumption ==
    \A judgment \in Judgments :
        /\ judgment.raised \in BOOLEAN
        /\ judgment.items \in Seq({"met", "unmet", "invalid"})

\* An outcome or reason outside the closed sets stands for any other answer.
ASSUME ChallengeJudgmentAssumption ==
    \A judgment \in ChallengeJudgments :
        /\ judgment.raised \in BOOLEAN
        /\ judgment.outcome \in ChallengeOutcomes \cup {"OTHER"}
        /\ judgment.reason_code \in ChallengeReasonCodes \cup {"OTHER"}

Renders == Digests \cup {"RAISED", "NOT_TEXT"}

IsText(render) == render \notin {"RAISED", "NOT_TEXT"}

-----------------------------------------------------------------------------
\* Committing to a page.

Commitments ==
    [ok: BOOLEAN, evidence_hash: Digests \cup {NoDigest},
     char_count: {"empty", "bounded", "oversized"},
     reason_code: {"", "FETCH_FAILED", "EMPTY_EVIDENCE", "EVIDENCE_TOO_LARGE"},
     claim_tag_present: BOOLEAN]

Refused(hash, char_count, reason_code) ==
    [ok |-> FALSE, evidence_hash |-> hash, char_count |-> char_count,
     reason_code |-> reason_code, claim_tag_present |-> FALSE]

\* Bug: commits to a page that is too large.
Bug_RenderCommitment(render, tag_required) ==
    IF ~IsText(render) THEN Refused(NoDigest, "empty", "FETCH_FAILED")
    ELSE IF SizeOf[render] = "empty" THEN Refused(render, "empty", "EMPTY_EVIDENCE")
    ELSE [ok |-> TRUE, evidence_hash |-> render, char_count |-> "bounded", reason_code |-> "",
          claim_tag_present |-> tag_required => TagIn[render]]

\* tag_required is FALSE for challenge evidence, which carries no claim tag.
RenderCommitment(render, tag_required) ==
    IF ~IsText(render) THEN Refused(NoDigest, "empty", "FETCH_FAILED")
    ELSE CASE SizeOf[render] = "empty" -> Refused(render, "empty", "EMPTY_EVIDENCE")
           [] SizeOf[render] = "oversized" -> Refused(render, "oversized", "EVIDENCE_TOO_LARGE")
           [] OTHER -> [ok |-> TRUE, evidence_hash |-> render, char_count |-> "bounded",
                        reason_code |-> "",
                        claim_tag_present |-> tag_required => TagIn[render]]

ValidCommitment(result) ==
    /\ result \in Commitments
    /\ \/ /\ result.ok
          /\ result.char_count = "bounded"
          /\ result.evidence_hash # NoDigest
          /\ result.reason_code = ""
       \/ /\ ~result.ok
          /\ ~result.claim_tag_present
          /\ \/ /\ result.reason_code = "FETCH_FAILED"
                /\ result.char_count = "empty"
                /\ result.evidence_hash = NoDigest
             \/ /\ result.reason_code = "EMPTY_EVIDENCE"
                /\ result.char_count = "empty"
                /\ result.evidence_hash # NoDigest
             \/ /\ result.reason_code = "EVIDENCE_TOO_LARGE"
                /\ result.char_count = "oversized"

-----------------------------------------------------------------------------
\* Evaluating a submission.

InconclusiveResult(hash, reason_code, tag) ==
    [decision |-> "INCONCLUSIVE", criteria_bits |-> <<>>, score_bucket |-> 0,
     evidence_hash |-> hash, reason_code |-> reason_code, claim_tag_present |-> tag]

RejectedResult(hash, reason_code) ==
    [decision |-> "REJECT", criteria_bits |-> <<>>, score_bucket |-> 0,
     evidence_hash |-> hash, reason_code |-> reason_code, claim_tag_present |-> FALSE]

\* Bug: judges the items there are, whether or not each criterion has one.
Bug_NormalizeJudgment(judgment, hash) ==
    LET bits == [i \in DOMAIN judgment.items |-> IF judgment.items[i] = "met" THEN 1 ELSE 0]
    IN [decision |-> IF AllMet(bits) THEN "APPROVE" ELSE "REJECT", criteria_bits |-> bits,
        score_bucket |-> ScoreBucket(bits), evidence_hash |-> hash,
        reason_code |-> IF AllMet(bits) THEN "ALL_REQUIRED_CRITERIA_MET" ELSE "CRITERIA_NOT_MET",
        claim_tag_present |-> TRUE]

NormalizeJudgment(judgment, hash) ==
    LET bits == [i \in 1..CRITERION_COUNT |-> IF judgment.items[i] = "met" THEN 1 ELSE 0]
    IN
    IF \/ Len(judgment.items) # CRITERION_COUNT
       \/ \E i \in DOMAIN judgment.items : judgment.items[i] = "invalid"
    THEN InconclusiveResult(hash, "INVALID_JUDGMENT", TRUE)
    ELSE [decision |-> IF AllMet(bits) THEN "APPROVE" ELSE "REJECT", criteria_bits |-> bits,
          score_bucket |-> ScoreBucket(bits), evidence_hash |-> hash,
          reason_code |-> IF AllMet(bits) THEN "ALL_REQUIRED_CRITERIA_MET"
                          ELSE "CRITERIA_NOT_MET",
          claim_tag_present |-> TRUE]

\* Bug: judges whatever is served, whether or not it is what was submitted.
Bug_EvaluateEvidence(render, expected_hash, extracted, judgment) ==
    IF ~IsText(render) THEN InconclusiveResult(NoDigest, "FETCH_FAILED", FALSE)
    ELSE IF ~TagIn[render] THEN RejectedResult(render, "CLAIM_TAG_MISSING")
    ELSE IF SizeOf[render] = "oversized"
         THEN InconclusiveResult(render, "EVIDENCE_TOO_LARGE", FALSE)
    ELSE IF ~extracted THEN InconclusiveResult(render, "EXTRACTION_FAILED", TRUE)
    ELSE IF judgment.raised THEN InconclusiveResult(render, "JUDGMENT_FAILED", TRUE)
    ELSE NormalizeJudgment(judgment, render)

\* Bug: holds a page that does not load against the submission.
Bug_EvaluateUnfetched(render, expected_hash, extracted, judgment) ==
    IF ~IsText(render) THEN RejectedResult(NoDigest, "FETCH_FAILED")
    ELSE IF ~TagIn[render] THEN RejectedResult(render, "CLAIM_TAG_MISSING")
    ELSE IF render # expected_hash THEN InconclusiveResult(render, "DIGEST_MISMATCH", TRUE)
    ELSE IF ~extracted THEN InconclusiveResult(render, "EXTRACTION_FAILED", TRUE)
    ELSE IF judgment.raised THEN InconclusiveResult(render, "JUDGMENT_FAILED", TRUE)
    ELSE NormalizeJudgment(judgment, render)

\* The order of the checks is the code's: a page without the tag is rejected
\* before its size and its digest are looked at.
EvaluateEvidence(render, expected_hash, extracted, judgment) ==
    IF ~IsText(render) THEN InconclusiveResult(NoDigest, "FETCH_FAILED", FALSE)
    ELSE IF ~TagIn[render] THEN RejectedResult(render, "CLAIM_TAG_MISSING")
    ELSE IF SizeOf[render] = "empty"
         THEN InconclusiveResult(render, "EMPTY_EVIDENCE", FALSE)
    ELSE IF SizeOf[render] = "oversized"
         THEN InconclusiveResult(render, "EVIDENCE_TOO_LARGE", FALSE)
    ELSE IF render # expected_hash THEN InconclusiveResult(render, "DIGEST_MISMATCH", TRUE)
    ELSE IF ~extracted THEN InconclusiveResult(render, "EXTRACTION_FAILED", TRUE)
    ELSE IF judgment.raised THEN InconclusiveResult(render, "JUDGMENT_FAILED", TRUE)
    ELSE NormalizeJudgment(judgment, render)

-----------------------------------------------------------------------------
\* Reviewing a challenge.  Both pages are rendered twice, once for the digest
\* and once for the text the model is given: renders is the sequence of what
\* they gave, the submission's page first.

ReviewResult(outcome, reason_code, error_class, original, evidence, tag) ==
    [outcome |-> outcome, reason_code |-> reason_code, error_class |-> error_class,
     original_hash |-> original, evidence_hash |-> evidence, claim_tag_present |-> tag]

Tampered(hash, tag) == ReviewResult("UPHOLD", "SOURCE_TAMPERED", "", hash, NoDigest, tag)

NoSourceControl(hash) == ReviewResult("UPHOLD", "NO_SOURCE_CONTROL", "", hash, NoDigest, FALSE)

ChallengeInconclusive(reason_code, error_class, original, evidence, tag) ==
    ReviewResult("INCONCLUSIVE", reason_code, error_class, original, evidence, tag)

AfterOriginalCommitment(reason_code, render, expected) ==
    LET original == RenderCommitment(render, TRUE)
    IN
    IF ~ValidCommitment(original) \/ original.reason_code = "FETCH_FAILED"
    THEN {ChallengeInconclusive(reason_code, "[EXTERNAL]", original.evidence_hash, NoDigest, FALSE)}
    ELSE IF original.evidence_hash # expected \/ ~original.ok
    THEN {Tampered(original.evidence_hash, original.claim_tag_present)}
    ELSE IF ~original.claim_tag_present THEN {NoSourceControl(original.evidence_hash)}
    ELSE {}

AfterOriginalText(reason_code, render, expected) ==
    IF render = "RAISED"
    THEN {ChallengeInconclusive(reason_code, "[TRANSIENT]", expected, NoDigest, TRUE)}
    ELSE IF render = "NOT_TEXT"
    THEN {ChallengeInconclusive(reason_code, "[EXTERNAL]", expected, NoDigest, TRUE)}
    ELSE IF render # expected THEN {Tampered(render, TagIn[render])}
    ELSE IF ~TagIn[render] THEN {NoSourceControl(render)}
    ELSE {}

AfterChallengeCommitment(reason_code, render, original, expected) ==
    LET evidence == RenderCommitment(render, FALSE)
    IN
    IF ~ValidCommitment(evidence) \/ ~evidence.ok
    THEN {ChallengeInconclusive(reason_code, "[EXTERNAL]", original, evidence.evidence_hash, TRUE)}
    ELSE IF evidence.evidence_hash # expected
    THEN {ChallengeInconclusive(reason_code, "DIGEST_MISMATCH", original, evidence.evidence_hash, TRUE)}
    ELSE {}

AfterChallengeText(reason_code, render, original, expected) ==
    IF render = "RAISED"
    THEN {ChallengeInconclusive(reason_code, "[TRANSIENT]", original, NoDigest, TRUE)}
    ELSE IF render = "NOT_TEXT"
    THEN {ChallengeInconclusive(reason_code, "[EXTERNAL]", original, NoDigest, TRUE)}
    ELSE IF render # expected
    THEN {ChallengeInconclusive(reason_code, "[TRANSIENT]", original, render, TRUE)}
    ELSE {}

\* An answer the code raises on is caught by its caller.
NormalizeChallengeJudgment(judgment, stated_reason, original, evidence) ==
    IF \/ judgment.raised
       \/ judgment.outcome \notin ChallengeOutcomes
       \/ judgment.reason_code # stated_reason
    THEN ChallengeInconclusive(stated_reason, "[LLM_ERROR]", original, evidence, TRUE)
    ELSE ReviewResult(judgment.outcome, judgment.reason_code,
                      IF judgment.outcome = "INCONCLUSIVE" THEN "[LLM_ERROR]" ELSE "",
                      original, evidence, TRUE)

\* Bug: judges the text of the second render of the submission's page without
\* looking at its digest again.
Bug_RendersDecide(reason_code, renders, original, evidence) ==
    CASE Len(renders) = 1 -> AfterOriginalCommitment(reason_code, renders[1], original)
      [] Len(renders) = 3 -> AfterChallengeCommitment(reason_code, renders[3], original, evidence)
      [] Len(renders) = 4 -> AfterChallengeText(reason_code, renders[4], original, evidence)
      [] OTHER -> {}

\* The result of a review that ends with its latest render, if it does.
RendersDecide(reason_code, renders, original, evidence) ==
    CASE Len(renders) = 1 -> AfterOriginalCommitment(reason_code, renders[1], original)
      [] Len(renders) = 2 -> AfterOriginalText(reason_code, renders[2], original)
      [] Len(renders) = 3 -> AfterChallengeCommitment(reason_code, renders[3], original, evidence)
      [] Len(renders) = 4 -> AfterChallengeText(reason_code, renders[4], original, evidence)
      [] OTHER -> {}

\* The result once both pages were read twice and the model was asked.
JudgedReview(reason_code, original, evidence, extracted, judgment) ==
    IF ~extracted THEN ChallengeInconclusive(reason_code, "[LLM_ERROR]", original, evidence, TRUE)
    ELSE NormalizeChallengeJudgment(judgment, reason_code, original, evidence)
=============================================================================
