SPECIFICATION PreflightSpec
CONSTANTS
    r1 = r1
    r2 = r2
    k1 = k1
    k2 = k2
    k3 = k3
    Callers <- TwoRequests
    Keys <- ThreeKeys
    Fingerprint <- TwoCollide
    Slots = 3
    Probe = 2
    TTL = 1
    MaxTime = 1
    MaxVersion = 1
SYMMETRY Symmetry
INVARIANTS
    HitsAreOwnAndRecent
PROPERTIES
    LiveDisplacedOnlyWhenFull
