SPECIFICATION CaptureSpec
CONSTANTS
    RotateSecs = 1
    Retention = 2
    MaxAge = 1
    TicksPerSecond = 2
    LastTick = 3
    MaxRecords = 2
    MaxFaults = 1
    MaxRestarts = 1
    MaxSweeps = 1
    MaxMisread = 1
INVARIANTS
    ReplayMatchesAcked
PROPERTIES
    TruncationNeedsFastRestart
    EvictsOldestExactly
    AgeSparesRecent
CHECK_DEADLOCK FALSE
