CONSTANTS
    Copies = 2
    MaxAttempts = 2
    MaxFileSize = 1
    MaxFileChanges = 0
    SignalRestarts = TRUE
SPECIFICATION Spec
INVARIANT QueuedJobPrintsAllCopies
CHECK_DEADLOCK FALSE
