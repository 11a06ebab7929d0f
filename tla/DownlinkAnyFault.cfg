SPECIFICATION FairSpec
CONSTANTS
    Race <- ThreeRaces
    NoRace = NoRace
    Unset = Unset
    Unbuildable <- LargeOnes
    MaxFaults = 2
    Faults = {"drop", "restart", "reboot", "power_cycle", "bench", "cloud_down", "cache_undone", "revert"}
INVARIANTS
    TypeOK
    CacheHonest
PROPERTIES
    ArmingConsistent
    ConvergesUnlessUnaware
    ChangeHeals
