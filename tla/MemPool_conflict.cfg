SPECIFICATION Spec
CONSTANTS
    Tx <- MCTx
    OutPoint <- MCOutPoint
    Nullifier = {"note", "dummy"}
    Inputs <- MCInputs
    Outputs <- MCOutputs
    NullifiersOf <- MCNullifiersOf
    AnchorOf <- MCAnchorOf
    GenesisUtxos = {"genesis1", "genesis2"}
    MaxHeight = 3
    SigopsLimit = 1
    Number = 2
INVARIANT
    ConflictsRemoved
