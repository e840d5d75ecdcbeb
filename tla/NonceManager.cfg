\* Two sending tasks, a crash, and a first nonce that crosses a digit boundary.
CONSTANTS
    Tasks = {t1, t2}
    FirstNonce = 8
    MaxReserves = 3
    MaxCrashes = 1
    MaxForeign = 1
SPECIFICATION Spec
SYMMETRY Symmetry
CHECK_DEADLOCK FALSE
INVARIANTS
    ReuseNeedsOverlapOrLoss
    SkipNeedsOverlapOrLoss
PROPERTY StartBelowOnlyForeign
