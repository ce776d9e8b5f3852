SPECIFICATION Spec
CONSTANTS
    StoreSize = 3
    MaxMallocs = 7
    NoBlock = NoBlock
INVARIANTS
    TypeOK
    TwoAreRecorded
    StoreLasts
CHECK_DEADLOCK FALSE
