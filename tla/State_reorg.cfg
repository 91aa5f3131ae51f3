SPECIFICATION MCSpec
CONSTANTS
    d1 = d1
    w1 = w1
    w2 = w2
    Deposit = {d1}
    Withdrawal = {w1, w2}
    Proposed <- MCProposed
    Selected <- MCSelected
    WITHDRAWAL_BUNDLE_FAILURE_GAP = 1
    Unspent = Unspent
    Regular = Regular
    MaxHeight = 2
    MaxEvents = 4
    MaxBody = 1
    MaxLeftOver = 1
    MaxReported = 2
    a = a
    b = b
    c = c
    Action <- MCAction
    NullifierOf <- MCNullifierOf
    Bodies <- Mixed
    FrontierCapacity = 3
    MaxOrchardHeight = 3
    MaxArchived = 4
    WalletBlock = {"a", "b", "c", "d"}
    NoWalletBlock = "none"
    SHARD_SIZE = 2
    MaxLeaves = 3
CONSTRAINTS
    MCBeforeWrap
    FewReported
    FewArchived
SYMMETRY MCSymmetry
INVARIANTS
    TypeOK
    UnspentOrSpent
    SubmittedFundsLocked
    PendingIsCollected
    DatabasesAgree
    PoolTypeOK
    NullifiersRevealedOnce
    RootsOfChain
    AnchorsOfAncestors
    StoreSound
PROPERTIES
    ConnectNeverPanics
    DisconnectRestores
    DisconnectRestoresSets
    BundleFrontierRestored
    ImplementsStack
