SPECIFICATION Spec
CONSTANTS
    c1 = c1
    c2 = c2
    Call = {c1, c2}
    MaxMain = 3
    MaxSide = 2
    MaxReorgs = 2
CHECK_DEADLOCK FALSE
INVARIANTS
    MinerSafe
    MinesOnVerified
PROPERTIES
    MineReturns
