SPECIFICATION FairSpec
CONSTANTS
    s1 = s1  s2 = s2  w1 = w1
    Ids <- TwoStreams
    Workers <- OneWorker
    MaxReads = 3
INVARIANTS TypeOK OneHandlerPerId ReturnedMeansStopped DoneNeverBlocks
PROPERTIES StopReturns UnaryAnswered 
CHECK_DEADLOCK FALSE
