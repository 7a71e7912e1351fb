\* One bounty, two submissions by two creators, two challenges.
SPECIFICATION Spec
CONSTANTS
    alice = alice
    bob = bob
    d1 = d1
    d2 = d2
    ZERO_ADDRESS = ZERO_ADDRESS
    Addresses <- MCAddresses
    Digests <- MCDigests
    CRITERION_COUNT = 2
    CHALLENGE_BOND_BPS = 500
    MIN_CHALLENGE_BOND = 1
    Rewards = {40}
    SubmissionWindows = {1}
    EvaluationGraces = {1}
    ChallengeWindows = {1}
    CHALLENGE_REVIEW_TIMEOUT = 1
    MAX_SUBMISSIONS_PER_BOUNTY = 2
    MAX_EVALUATION_ATTEMPTS = 2
    MAX_CHALLENGE_ATTEMPTS = 2
    EvaluationResults <- MCEvaluationResults
    ReviewResults <- MCReviewResults
    ChallengeReasons = {"AUTHORSHIP_DISPUTE"}
    MaxBounties = 1
    MaxSubmissions = 2
    MaxChallenges = 2
    MaxTime = 5
SYMMETRY Symmetry
INVARIANTS
    TypeOK
    Solvent
    ProvisionalWinnerIsUnique
    ActiveChallengeIsTheOpenOne
    OpenBountyHasNoWork
    ClosedBountyIsSettled
    WinnerWasNeverOverturned
    BondFollowsOutcome
    VerdictMatchesHistory
    EntriesAreUnique
    InterfaceMatchesContract
PROPERTIES
    SettledStaysSettled
    ProposalIsBinding
    ImplementsEscrow
CHECK_DEADLOCK FALSE
