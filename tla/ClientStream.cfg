SPECIFICATION FairSpec
CONSTANTS
    MaxBodies = 2
    MaxSends = 1
    Headers <- AllHeaders
INVARIANTS TypeOK NoAssertion AllBodiesBeforeEnd ResetOnlyIfAbandoned EndIsServers
PROPERTIES CancelTellsServer CallsUnblock
CHECK_DEADLOCK FALSE
