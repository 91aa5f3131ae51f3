SPECIFICATION Spec
CONSTANTS
    External <- MCExternal
    ANCHOR_CHECKPOINT_DEPTH = 1
    Value = 1
    Fee = 1
    MainFee = 1
    MaxTx = 2
    MaxHeight = 3
    MaxReorgs = 1
    MaxBody = 2
CONSTRAINT MCTaskEnded
CHECK_DEADLOCK FALSE
INVARIANTS
    WalletSafe
    AmountsExact
    ShieldedSurvivesReorg
    BalanceExact
