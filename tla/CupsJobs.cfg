CONSTANTS
    Clients = {"c1", "c2"}
    Queues = {"q1", "q2"}
    Users = {"alice"}
    Calls = {"printFile", "cancelJobs", "pauseJobs", "releaseJobs", "jobCommand", "moveJob"}
    MaxJobs = 2
    MaxFaults = 1
    MaxCalls = 3
SPECIFICATION FairSpec
INVARIANTS
    TypeOK
    IdMeansPrinted
    FileInOwnJob
    ZeroMeansCanceled
    CancelJobsCancels
PROPERTY
    NoJobLeftWaiting
CHECK_DEADLOCK FALSE
