CONSTANTS
    w1 = w1
    w2 = w2
    Writers = {w1, w2}
    Order <- MCOrder
    PpdKeys = {"Duplex", "PageSize"}
    JobKeys = {"sides"}
    Values = {"a", "b"}
    MaxCalls = 2
    MaxCrashes = 1
SYMMETRY WritersAlike
SPECIFICATION Spec
INVARIANTS
    TypeOK
    
    
CHECK_DEADLOCK FALSE
