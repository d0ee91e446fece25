\* One descriptor, used again while the wheel still has a timer for it.
CONSTANTS
    Conns = {c1, c2}
    MaxFd = 1
    Limits = {1}
    Workers = {w1}
    MaxRequests = 1
    TIMEOUT = 1
    Nil = nil
    listenfd = listenfd
    sig_pipefd = sig_pipefd
SPECIFICATION Spec
PROPERTY TickClosesOnlySilent
CHECK_DEADLOCK FALSE
