\* Two bounties that share accounts, digests, one balance and the id spaces,
\* each at its submission limit of one.
SPECIFICATION Spec
CONSTANTS
    alice = alice
    bob = bob
    d1 = d1
    d2 = d2
    ZERO_ADDRESS = ZERO_ADDRESS
    Addresses <- MCAddresses
    Digests = {d1}
    CRITERION_COUNT = 2
    CHALLENGE_BOND_BPS = 500
    MIN_CHALLENGE_BOND = 1
    Rewards = {10, 60}
    SubmissionWindows = {1}
    EvaluationGraces = {1}
    ChallengeWindows = {1}
    CHALLENGE_REVIEW_TIMEOUT = 1
    MAX_SUBMISSIONS_PER_BOUNTY = 1
    MAX_EVALUATION_ATTEMPTS = 1
    MAX_CHALLENGE_ATTEMPTS = 1
    EvaluationResults <- MCPlainEvaluations
    ReviewResults <- MCPlainReviews
    ChallengeReasons = {"AUTHORSHIP_DISPUTE"}
    MaxBounties = 2
    MaxSubmissions = 2
    MaxChallenges = 1
    MaxTime = 5
SYMMETRY Symmetry
INVARIANTS
    Solvent
    ProvisionalWinnerIsUnique
PROPERTIES
    ImplementsEscrow
CHECK_DEADLOCK FALSE
