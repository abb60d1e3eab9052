SPECIFICATION FairSpec
CONSTANTS
    u1 = u1  s1 = s1
    Unary <- OneUnary
    Streams <- NoCalls
    MaxReplies = 1
    Shapes <- BodyOnly
PROPERTY DisconnectReturns
CHECK_DEADLOCK FALSE
