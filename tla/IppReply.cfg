CONSTANTS
    Fields = {"state", "user"}
    UserName = "user"
    MaxGroups = 3
SPECIFICATION Spec
INVARIANTS
    TypeOK
    FoundHasOwnValues
    ListsAreTheReply
    ListsNewestJobs
PROPERTIES
    ScanEnds
CHECK_DEADLOCK FALSE
