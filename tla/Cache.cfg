SPECIFICATION OneLife
CONSTANTS
    t1 = t1
    t2 = t2
    t3 = t3
    k1 = k1
    k2 = k2
    k3 = k3
    f1 = f1
    f2 = f2
    f3 = f3
    f4 = f4
    cut = cut
    NoFile = NoFile
    NoKey = NoKey
    Threads <- TwoThreads
    Keys <- TwoKeys
    IndexNames <- TwoKeys
    WrittenAs <- Whole
    Files <- ThreeFiles
    Sizes = {1}
    MaxCacheSize <- Unlimited
    MaxNfiles = 1
    CounterMod = 64
    MaxTime = 1
    MaxVersion = 1
SYMMETRY Symmetry
INVARIANTS
    PinsExact
    
    OutdatedOnlyIfReplacedMeanwhile
PROPERTIES
    EvictionSparesPinned
