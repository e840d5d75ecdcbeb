CONSTANTS
    Tokens = {k1}
    Buyers = {consumer}
    Exiters = {trail}
    OneConsumer = FALSE
    Settings <- MCTrailOnly
    BuyUnits = 2
    MaxOpen = 2
    MaxBuys = 1
    MaxExits = 1
    MaxCrashes = 0
    MaxEvents = 2
SPECIFICATION Spec
SYMMETRY Symmetry
CHECK_DEADLOCK FALSE
INVARIANT SkippedIsFinalizing
