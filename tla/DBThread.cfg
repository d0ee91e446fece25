CONSTANTS
    MaxReqs = 3
    MaxStops = 2
SPECIFICATION DBSpec
INVARIANT OnceInOrder
PROPERTY RequestIsServed
CHECK_DEADLOCK FALSE
