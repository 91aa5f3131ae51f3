SPECIFICATION PoolSpec
CONSTANTS
    a = a
    b = b
    c = c
    Action <- MCAction
    NullifierOf <- MCNullifierOf
    Bodies <- Mixed
    FrontierCapacity = 3
    MaxOrchardHeight = 3
    MaxArchived = 5
CONSTRAINT FewArchived
PROPERTY
    FrontierAlwaysRestored
