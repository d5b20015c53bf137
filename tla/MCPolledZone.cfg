SPECIFICATION Spec
CONSTANTS
    RemovalAfter = 1
    DwellAfter = 2
    MaxTime = 4
INVARIANTS DwellReachesLoop
CHECK_DEADLOCK FALSE
