SPECIFICATION Spec
CONSTANTS
    Words <- MCWords
    Files <- MCFiles
    EditedFiles <- MCEditedFiles
    Paths <- MCPaths
    Keys = {"k"}
    Values = {"3"}
    MaxReads = 2
    MaxSets = 2
    MaxRuns = 2
    MaxEdits = 1
INVARIANTS
    TypeOK
    WriteKeepsTheFile
    
PROPERTIES
    FailedSetSetsNothing
CHECK_DEADLOCK FALSE
