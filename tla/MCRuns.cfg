SPECIFICATION RunsFairSpec
CONSTANTS
    MaxRun = 4
CHECK_DEADLOCK FALSE
INVARIANTS
    OneReachableRun
PROPERTIES
    StopTakesEffect
