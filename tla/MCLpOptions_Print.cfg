CONSTANTS
    w1 = w1
    w2 = w2
    Writers = {w1}
    Order <- MCOrder
    PpdKeys = {"Duplex"}
    JobKeys = {"sides"}
    Values = {"a", "b"}
    MaxCalls = 1
    MaxCrashes = 0
SPECIFICATION Spec
INVARIANT PrintsWithQueueOptions
CHECK_DEADLOCK FALSE
