CONSTANTS
    Timers = {t1, t2, t3}
    Nil = nil
    N = 3
    TI = 2
    Timeouts <- SomeTimeouts
SPECIFICATION Spec
INVARIANTS NoDangling EveryTimerIsListed
PROPERTY IsTimerSet
