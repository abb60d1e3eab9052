SPECIFICATION InputSpec
CONSTANTS
    p1 = p1  p2 = p2  p3 = p3  x = x  y = y
    HalfRange = 128
    UnitOf <- SmallUnits
    MaxLegal = 5
    Wild <- WildValues
    Names <- TwoNames
    Data <- TwoData
    MaxKeys = 2
    MaxValues = 2
    Proxies <- ThreeProxies
    MaxHops = 3
    MaxInterceptors = 4
INVARIANT StreamReplyRetraces
CHECK_DEADLOCK FALSE
