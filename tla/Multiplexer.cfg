SPECIFICATION FairSpec
CONSTANTS
    u1 = u1  s1 = s1
    Unary <- OneUnary
    Streams <- OneStream
    MaxReplies = 3
    Shapes <- AllShapes
INVARIANTS TypeOK NoPanic InOrder NothingLost HandlersReleased
PROPERTIES UnaryReturns TeardownCompletes
CHECK_DEADLOCK FALSE
