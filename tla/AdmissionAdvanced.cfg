\* Two workers, one of them the tile floor; at most two fulls queue.
CONSTANTS
    r1 = r1
    r2 = r2
    r3 = r3
    r4 = r4
    Requests <- FourRequests
    Mode = "advanced"
    Nthreads = 2
    RatioNum = 1
    RatioDen = 2
    MaxWaiting = 2
SPECIFICATION FairSpec
INVARIANTS
    PermitPlaces
    NoLostWakeup
    TileFloor
    TileBlocksBehindTiles
PROPERTIES
    AllFinish
    ImplementsContract
CHECK_DEADLOCK FALSE
