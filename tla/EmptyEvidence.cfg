\* An evaluation among the same nodes and pages as Round.cfg, with one edit.
SPECIFICATION Spec
CONSTANTS
    n1 = n1
    n2 = n2
    n3 = n3
    original_page = original_page
    filed_page = filed_page
    untagged_page = untagged_page
    empty_page = empty_page
    oversized_page = oversized_page
    Nodes <- MCNodes
    Faulty = {n3}
    Kinds = {"evaluate"}
    Digests <- MCDigests
    SizeOf <- MCSizeOf
    TagIn <- MCTagIn
    Judgments <- MCJudgments
    ChallengeJudgments <- MCChallengeJudgments
    Submitted = original_page
    Filed = filed_page
    StatedReason = "AUTHORSHIP_DISPUTE"
    Forgeries <- MCForgeries
    CRITERION_COUNT = 2
    CHALLENGE_BOND_BPS = 500
    MIN_CHALLENGE_BOND = 1
    MaxEdits = 1
INVARIANTS
    EmptyEvidenceIsInconclusive
CHECK_DEADLOCK FALSE
