SPECIFICATION FairSpec
CONSTANTS
    MaxPayload = 6
    ReadSizes = {1, 4, 24}
    Messages <- MCMessages
    Garbage <- MCGarbage
    MaxSent = 2
    MaxFaults = 1
INVARIANTS
    TypeOK
    ChunksDoNotMatter
    NoneMissed
    FoundOnce
    BufferBounded
PROPERTY ReadsAgain
CHECK_DEADLOCK FALSE
