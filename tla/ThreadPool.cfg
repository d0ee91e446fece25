CONSTANTS
    Workers = {w1, w2}
    Callers = {a1, a2}
    Requests = {r1, r2}
    NullRequest = null
    None = none
    MaxRequests = 1
    SemBound <- SemLimit
SPECIFICATION FairSpec
INVARIANTS NoLostWakeup WokenFindsWork
PROPERTIES AcceptedIsServed
CHECK_DEADLOCK FALSE
