SPECIFICATION Spec
CONSTANTS
    Names = {"ttyACM0"}
    NoName = NoName
    Configured = NoName
    OverflowAt = 3
    MaxDrops = 1
INVARIANT ReaderSurvives
