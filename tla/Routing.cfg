SPECIFICATION MCSpec
CONSTANTS
    R1 = R1
    R2 = R2
    T1 = T1
    T2 = T2
    SizeCap = 4
    UsizeMax = 6
    Threshold = 8
    BytesPerPixel = 1
    DefaultTile = 2
    MaxLevel = 5
    Word = 16
    Requests <- MCRequests
    Threads <- MCThreads
    Scenes <- MCScenes
    Replies <- MCReplies
    DiskChanges <- MCDiskChanges
    MaxChanges = 1
INVARIANTS
    
    RangesHonest
    NothingOutlivesItsTask
    
    PyramidFitsTiles
SYMMETRY Symmetry
