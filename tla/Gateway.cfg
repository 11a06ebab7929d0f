SPECIFICATION GatewaySpec
CONSTANTS
    Names = {"ttyACM0"}
    NoName = NoName
    Configured = NoName
    OverflowAt = 2
    MaxDrops = 1
INVARIANTS
    GatewayTypeOK
    SerNamesOpenPort
PROPERTIES
    Recovers
    StopEndsReader
    ShutdownEnds
    Restarted
