SPECIFICATION FeedSpec
CONSTANTS
    Window = 2
    MaxStale = 1
    LastBlock = 4
    MaxLogs = 3
    MaxRemovals = 1
    MaxDisconnects = 1
    MaxFailed = 1
INVARIANT WindowMatchesLogs
INVARIANT OnlyRemovedCountTwice
INVARIANT GraduationCaught
CHECK_DEADLOCK FALSE
