\* As many descriptors as connections, or one for both.
CONSTANTS
    Conns = {c1, c2}
    MaxFd = 2
    Limits = {1, 2}
    Workers = {w1}
    MaxRequests = 1
    TIMEOUT = 1
    Nil = nil
    listenfd = listenfd
    sig_pipefd = sig_pipefd
SPECIFICATION FairSpec
INVARIANTS OpenIsWatched SilenceBound FreedTimerOnlyAfterTick
PROPERTIES SilentIsClosed DataIsSettled NewsIsAccepted
CHECK_DEADLOCK FALSE
