CONSTANTS
    Tokens = {k1}
    Buyers = {consumer}
    Exiters = {x1, x2}
    OneConsumer = FALSE
    Settings <- MCSettings
    BuyUnits = 2
    MaxOpen = 2
    MaxBuys = 2
    MaxExits = 2
    MaxCrashes = 1
    MaxEvents = 4
SPECIFICATION Spec
SYMMETRY Symmetry
CHECK_DEADLOCK FALSE
INVARIANT OversellNeedsSlowOrLanded
INVARIANT FastExitStaysValid
INVARIANT NoEntryOrphaned
INVARIANT TrailNeverSlow
INVARIANT OpenCountIsHeld
PROPERTY KeepsTrailContract
