\* Time plays no part: a timed pop may give up at any moment.
CONSTANTS
    Threads = {t1, t2, t3}
    Values = {v1, v2}
    Unset = unset
    MaxSize = 2
    K <- SmallK
    Delays = {0}
    Moments = {0}
SPECIFICATION FairSpec
INVARIANT NoLostWakeup
PROPERTIES IsFifo SleeperIsServed
