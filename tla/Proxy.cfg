SPECIFICATION FairSpec
CONSTANTS
    a = a  b = b
    Ids <- TwoIds
    Cap = 1
    MaxAdds = 1
    MaxRpcs = 2
INVARIANTS TableTrue DeliveredInOrder
PROPERTIES SlowClientHarmless LoopsEndTogether
CHECK_DEADLOCK FALSE
