SPECIFICATION Spec
CONSTANTS
    Fix <- TwoFixes
    Window <- WindowOf3
    NoFix = NoFix
    Poison <- WrapPoison
    BatchSize = 2
    MaxRows = 2
    MaxInflight = 1
    Faults = {"crash", "insert_raises", "uplink_raises", "rejects_good"}
INVARIANTS
    TypeOK
    MarkJustified
    OneSlot
    KeysStable
    NothingDropped
    DeadLettersExact
PROPERTY AppendOnly
