SPECIFICATION HealthSpec
CONSTANTS
    Fix <- Fixes
    Window = 1
    NoFix = NoFix
    Node = {"n1", "n2"}
    Stats <- StatsFrames
    RefTypes = {"SET_ARMED"}
    MaxRows = 3
    MaxLog = 3
PROPERTY
    ResendsDoNotRegress
