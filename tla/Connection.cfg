SPECIFICATION Spec
CONSTANTS
    MaxBodies = 1
    MaxSends = 2
    MaxFaults = 1
    Headers <- GoodHeaders
INVARIANT BothTold
PROPERTY ImplementsStream
CHECK_DEADLOCK FALSE
