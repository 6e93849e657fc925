\* Both tiers; the sum of the estimates passes SIZE_MAX.
CONSTANTS
    t1 = t1
    t2 = t2
    Threads <- TwoThreads
    Configs <- BothTiers
    Budget = 4
    SizeMax = 9
    Estimates <- SomeEstimates
SPECIFICATION FairSpec
INVARIANTS
    UsedIsExact
    BuffersAreReserved
PROPERTY AllReturn
CHECK_DEADLOCK FALSE
