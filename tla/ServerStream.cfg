SPECIFICATION FairSpec
CONSTANTS
    main = main  h1 = h1
    Main <- main
    Helpers <- OneHelper
    MaxCalls = 3
    MaxIn = 1
INVARIANT RepliesWellFormed
PROPERTY CallsReturn
CHECK_DEADLOCK FALSE
