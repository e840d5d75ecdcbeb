CONSTANTS
    Prices <- MCPrices
    ArmPct = 30
    TrailPct = 30
    HardSlPct = 30
    BeAtPct = 15
    BeLockPct = 5
    HistLen = 3
    MaxHold = 4
    MaxBlock = 5
    MaxBuys = 2
SPECIFICATION FairSpec
INVARIANT TypeOK
INVARIANT TracksThisBuy
INVARIANT GainsProtected
INVARIANT ExitReasonsHold
INVARIANT RingIsWindow
PROPERTY HeldIsEventuallyExited
PROPERTY KeepsTrailContract
