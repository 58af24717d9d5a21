CONSTANTS
    None = None
    Settings <- MCSettings
    NumProcs = 2
    Duration = 2
    Grain = 2
    MaxFailures = 2
    PurgeLimit = 0
    MaxReads = 3
    MaxRestarts = 1
    MaxRequests = 2
    MaxQueue = 1
    Day = 3
    Beat = 2
    Timeout = 3
    Period = 4
    MaxClock = 7
    MaxTurns = 4
SPECIFICATION RecordedSpec
INVARIANTS LoadIsPrepared
CHECK_DEADLOCK FALSE
