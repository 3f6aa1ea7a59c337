SPECIFICATION Spec
CONSTANTS
    w1 = w1
    w2 = w2
    None = None
    Workers = {w1, w2}
    RangeEnd = 2
    Sessions = {0, 1}
    Provided = {0, 1}
    Late = {1}
    Chunks = {1, 2}
    MaxAttempts = 2
    MaxExpiries = 1
    MaxFaults = 1
    MaxRevisions = 1
    MaxLive = 1
    MaxEnqueues = 2
    HistoryTasks = 2
    HistoryDays = 4
    HistoryBars = 1
    MaxBreaks = 3
INVARIANTS NoSkippedChunk CompleteIsFull ResumedImportIsWhole
PROPERTIES JobSettles
CHECK_DEADLOCK FALSE
