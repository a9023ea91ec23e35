CONSTANTS
    FirstPort = 4
    LastRfcPort = 6
    LastPort = 8
    Usable = {2, 4, 5, 6, 8}
    MaxPortChanges = 2
    MaxFailures = 3
SPECIFICATION FairSpec
INVARIANTS
    TypeOK
    ReservedFromRange
    OneSocket
    NoPortLeftOut
PROPERTY
    PortIsFound
CHECK_DEADLOCK FALSE
