SPECIFICATION Spec
CONSTANTS
    Peer = {"p", "q"}
    Block <- MCBlock
    NoBlock = "none"
    Parent <- MCParent
    Better <- MCBetter
    Unclear <- MCUnclear
    StartTip = "a"
    MAX_BLOCK_REQUESTS = 2
    Scenarios <- MCScenarios
CHECK_DEADLOCK FALSE
INVARIANTS
    SyncSafe
PROPERTIES
    TipImproves
    FollowsPeers
    SubmitAnswered
