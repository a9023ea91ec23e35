CONSTANTS
    Copies = 2
    MaxAttempts = 2
    MaxFileSize = 1
    MaxFileChanges = 1
    SignalRestarts = FALSE
SPECIFICATION FairSpec
INVARIANTS
    TypeOK
    AtMostOnce
    AcksInStep
    NoExtraCopies
    SuccessMeansQueued
PROPERTIES
    SilentAfterRefusal
    
    KeepsPromise
CHECK_DEADLOCK FALSE
