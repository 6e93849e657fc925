SPECIFICATION ServerSpec
CONSTANTS
    r1 = r1
    r2 = r2
    None = None
    Requests <- TwoRequests
    Scenes <- AllScenes
    DrainTimeout = 1
    Overrun = 1
INVARIANTS
    
    StartFailsClosed
    NoneCutEarly
PROPERTIES
    StopsInTheEnd
