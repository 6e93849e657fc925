SPECIFICATION Spec
CONSTANTS
    t1 = t1
    t2 = t2
    t3 = t3
    k1 = k1
    k2 = k2
    k3 = k3
    f1 = f1
    f2 = f2
    f3 = f3
    f4 = f4
    cut = cut
    NoFile = NoFile
    NoKey = NoKey
    Threads <- OneThread
    Keys <- ThreeKeys
    IndexNames <- ThreeKeysAndCut
    WrittenAs <- TwoAgree
    Files <- FourFiles
    Sizes = {1, 2}
    MaxCacheSize = 2
    MaxNfiles = 2
    CounterMod = 64
    MaxTime = 1
    MaxVersion = 0
SYMMETRY LongSymmetry
INVARIANTS
    HitServesItsImage
    
