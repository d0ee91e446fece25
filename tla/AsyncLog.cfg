CONSTANTS
    Writers = {w1, w2}
    MaxQueue = 1
    SplitLines = 2
    MaxLines = 4
    LastDay = 2
    FlushThread = flushthread
    NoLine = noline
SPECIFICATION FairSpec
INVARIANTS EachLineOnce SyncIsDurable OvertakingBound LossNeedsRival FileBound
PROPERTY QueuedIsWritten
CHECK_DEADLOCK FALSE
