\* Two workers and an observe-only full cap of one.
CONSTANTS
    r1 = r1
    r2 = r2
    r3 = r3
    r4 = r4
    Requests <- FourRequests
    Mode = "basic"
    Nthreads = 2
    RatioNum = 1
    RatioDen = 2
    MaxWaiting = 1
SPECIFICATION Spec
SYMMETRY Symmetry
INVARIANTS
    OvercommitIsCounted
CHECK_DEADLOCK FALSE
