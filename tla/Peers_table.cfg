SPECIFICATION Spec
CONSTANTS
    Addr = {"peer", "unspecified"}
    Unspecified = {"unspecified"}
    Bind = {"v4", "v6"}
    Connectable <- MCConnectable
    Seed = {"peer"}
    MaxConns = 3
    MaxStarts = 2
    MaxRejected = 1
CHECK_DEADLOCK FALSE
INVARIANTS
    PeersSafe
    KnownPeersStart
PROPERTIES
    UnreadEndFreesAddress
    TimedOutReconnected
