SPECIFICATION Spec
CONSTANTS
    Fix <- TwoFixes
    Window <- WindowOf3
    NoFix = NoFix
    Poison <- WrapPoison
    BatchSize = 2
    MaxRows = 2
    MaxInflight = 0
    Faults = {"crash"}
INVARIANT StableKey
