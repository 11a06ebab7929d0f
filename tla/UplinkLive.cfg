SPECIFICATION FairSpec
CONSTANTS
    Fix <- ThreeFixes
    Window <- WindowOf3
    NoFix = NoFix
    Poison <- OnePoison
    BatchSize = 2
    MaxRows = 3
    MaxInflight = 0
    Faults = {"uplink_raises"}
PROPERTIES
    LedgerSpec
    EverySettled
    LedgerProgress
