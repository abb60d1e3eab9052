SPECIFICATION Spec
CONSTANTS
    MaxBodies = 1
    MaxSends = 2
    MaxFaults = 1
    Headers <- GoodHeaders
INVARIANT EofMeansComplete
CHECK_DEADLOCK FALSE
