CONSTANTS
    Modes <- EveryProducer
    Cap = 2
    MaxChunks = 4
    Timeout = 2
    AbortBudget = 1
    MaxSetup = 1

SPECIFICATION FairThreads

INVARIANT AbortReachesClient
 
PROPERTY ThreadIsFreed
PROPERTY ReaderIsServed
