\* Progress of one bounty with two submissions and one challenge.
SPECIFICATION FairSpec
CONSTANTS
    alice = alice
    bob = bob
    d1 = d1
    d2 = d2
    ZERO_ADDRESS = ZERO_ADDRESS
    Addresses <- MCAddresses
    Digests <- MCDigests
    CRITERION_COUNT = 2
    CHALLENGE_BOND_BPS = 500
    MIN_CHALLENGE_BOND = 1
    Rewards = {40}
    SubmissionWindows = {1}
    EvaluationGraces = {1}
    ChallengeWindows = {1}
    CHALLENGE_REVIEW_TIMEOUT = 1
    MAX_SUBMISSIONS_PER_BOUNTY = 2
    MAX_EVALUATION_ATTEMPTS = 1
    MAX_CHALLENGE_ATTEMPTS = 1
    EvaluationResults <- MCProgressEvaluations
    ReviewResults <- MCProgressReviews
    ChallengeReasons = {"AUTHORSHIP_DISPUTE"}
    MaxBounties = 1
    MaxSubmissions = 2
    MaxChallenges = 1
    MaxTime = 5
PROPERTIES
    EveryChallengeIsResolved
    EveryBountyIsSettled
    EveryDepositIsPaidOut
CHECK_DEADLOCK FALSE
