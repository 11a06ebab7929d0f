SPECIFICATION FairSpec
CONSTANTS
    Race <- TwoRaces
    NoRace = NoRace
    Unset = Unset
    Unbuildable <- NoneLarge
    MaxFaults = 1
    Faults = {"power_cycle"}
PROPERTY Converges
