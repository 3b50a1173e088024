SPECIFICATION MCSpec
CONSTANTS
    p1 = p1
    p2 = p2
    p3 = p3
    Self = Self
    MinusOne = MinusOne
    Pids <- MCPids
    Limit = 2
    MaxStages = 3
    ResetsForeground = TRUE
    MAX_HISTORY_SIZE = 2
    MaxLines = 4
    MaxSessions = 2
    MaxJobs = 4
INVARIANTS
    ArrayIsChildren
    OnlyForegroundHit
    HistoryIsLastLines
    JobListSound
PROPERTIES
    CommandIsWaitedFor
    FinishedIsReported
CHECK_DEADLOCK FALSE
