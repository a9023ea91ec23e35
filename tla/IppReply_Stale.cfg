CONSTANTS
    Fields = {"state", "user"}
    UserName = "user"
    MaxGroups = 3
SPECIFICATION Spec
INVARIANTS
    NothingOfAnother
CHECK_DEADLOCK FALSE
