SPECIFICATION MCSpec
CONSTANTS
    Tx <- MCTx
    OutPoint <- MCOutPoint
    Nullifier = {"note", "dummy"}
    Inputs <- MCInputs
    Outputs <- MCOutputs
    NullifiersOf <- MCNullifiersOf
    AnchorOf <- MCAnchorOf
    GenesisUtxos = {"genesis1", "genesis2"}
    MaxHeight = 3
    SigopsLimit = 1
    Number = 2
    MainBlock = {1, 2, 3, 4, 5, 6, 7, 8, 9}
    Zero = 0
    MainParent <- MCMainParent
    Work <- MCWork
    Commitment <- MCCommitment
    SideBlock <- MCSideBlock
    NoBlock = "none"
    PrevSide <- MCPrevSide
    PrevMain <- MCPrevMain
    MAX_BATCH_SIZE = 2
    MaxBodies = 1
    MaxAccepted = 2
    MinHeaders = 8
INVARIANTS
    TypeOK
    IndexesExact
    PooledUnspent
    ConnectAgrees
    ArchiveExact
    TipOrder
    PeerCheckAgrees
PROPERTIES
    ReorgKeepsTransactions
    RefusedForConflicts
