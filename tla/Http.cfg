SPECIFICATION FairSpec
CONSTANTS
    a = a
    Ids <- OneId
    Timeout = 1
    MaxLag = 1
    MaxReqs = 1
    MaxDials = 1
INVARIANT OpenIffRegistered
PROPERTIES OnlyCheckedClosed RequestEnds
CHECK_DEADLOCK FALSE
