SPECIFICATION Spec
CONSTANTS
    Stmts = {s1, s2}
    Timeout = 3
    Paths <- MCPaths
    Uploads <- MCUploads
    Ext <- MCExt
    Args <- MCArgs
    Samples <- MCSamples
    Values <- MCValues
    MaxWrites = 2
    MaxHead = 1
    Images = {i1}
    HttpTimeouts <- MCHttpTimeouts
    HttpDefault = 2
    Base = 3
    Word = 8
    MaxDigits = 2
INVARIANTS
    HandlesReleasedOnce
    
    
PROPERTIES
    FilesAsReported
    ResponseAsReported
