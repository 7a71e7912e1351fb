\* Checks what README.md:406 says; the code does not do it.
SPECIFICATION Spec
CONSTANTS
    alice = alice
    bob = bob
    Accounts = {alice}
    BountyCount = 1
    InitialStages <- MCApproved
    MAX_STORED_TRANSACTIONS = 2
    MaxEvents = 3
    MaxTransactions = 2
INVARIANT AcceptedIsNeverPresentedAsFinalized
CHECK_DEADLOCK FALSE
