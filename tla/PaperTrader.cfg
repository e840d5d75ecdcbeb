CONSTANTS
    Kols = {n1, n2}
    Tokens = {k1}
    Initial = 3
    SizePct = 50
    DustFloor = 1
    MaxEntries = 2
    MaxExits = 1
    MaxCrashes = 1
    MaxEvents = 3
    MaxFaults = 1
SPECIFICATION FairSpec
CHECK_DEADLOCK FALSE
INVARIANT CommittedAccounted
INVARIANT HeldMatchesBook
INVARIANT FilesMatchWhenIdle
PROPERTY RestartBetweenCloses
PROPERTY EveryPositionCloses
