SPECIFICATION FairSpec
CONSTANTS
    a = a  b = b
    Ids <- TwoIds
    MaxReads = 2
    MaxWrites = 2
INVARIANTS HandedAll OpenIffRegistered
PROPERTIES StopReturns CancelReleases
CHECK_DEADLOCK FALSE
