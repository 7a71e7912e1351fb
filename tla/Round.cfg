\* One round of each kind among three nodes, one faulty, with up to two edits
\* of the pages at any moment of it.
SPECIFICATION Spec
CONSTANTS
    n1 = n1
    n2 = n2
    n3 = n3
    original_page = original_page
    filed_page = filed_page
    untagged_page = untagged_page
    empty_page = empty_page
    oversized_page = oversized_page
    Nodes <- MCNodes
    Faulty = {n3}
    Kinds = {"submit", "evaluate", "challenge", "review"}
    Digests <- MCDigests
    SizeOf <- MCSizeOf
    TagIn <- MCTagIn
    Judgments <- MCJudgments
    ChallengeJudgments <- MCChallengeJudgments
    Submitted = original_page
    Filed = filed_page
    StatedReason = "AUTHORSHIP_DISPUTE"
    Forgeries <- MCForgeries
    CRITERION_COUNT = 2
    CHALLENGE_BOND_BPS = 500
    MIN_CHALLENGE_BOND = 1
    MaxEdits = 2
INVARIANTS
    TypeOK
    AgreedIsWellFormed
    AgreedWasComputedHonestly
    CommittedPageWasServed
    VerdictIsAboutTheCommittedPage
    ReviewHasGrounds
CHECK_DEADLOCK FALSE
