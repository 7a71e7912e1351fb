\* One tab, two accounts, two bounties.
SPECIFICATION Spec
CONSTANTS
    alice = alice
    bob = bob
    Accounts <- MCAccounts
    BountyCount = 2
    InitialStages <- MCStages
    MAX_STORED_TRANSACTIONS = 1
    MaxEvents = 4
    MaxTransactions = 2
SYMMETRY Symmetry
INVARIANTS
    TypeOK
    ClaimTagIsCurrent
    SubmissionUsesItsClaimTag
    FinalizedIsVerified
    ForeignListNeedsOverlap
CHECK_DEADLOCK FALSE
