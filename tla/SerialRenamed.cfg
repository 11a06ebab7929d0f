SPECIFICATION FairSpec
CONSTANTS
    Names = {"ttyACM0", "ttyACM1"}
    NoName = NoName
    Configured = NoName
    OverflowAt = 2
    MaxDrops = 1
PROPERTY Redetects
