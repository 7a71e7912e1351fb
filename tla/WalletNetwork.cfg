\* A permitted lag of one block and a margin of one, on chains of up to four.
SPECIFICATION Spec
CONSTANTS
    MAX_SHARED_CHAIN_HEAD_LAG = 1
    SHARED_CHAIN_CONFIRMATION_MARGIN = 1
    MaxHeight = 3
    MaxSwitches = 2
    MaxForks = 1
INVARIANTS
    WritesReachTheSelectedNetwork
    NoFalseAlarm
CHECK_DEADLOCK FALSE
