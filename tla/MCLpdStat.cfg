SPECIFICATION FairSpec
CONSTANTS
    Texts <- MCTexts
    Buffer = 3
    MaxQueries = 3
INVARIANTS
    TypeOK
    OptionsAsWritten
    StaleOnlyBehind
    SuccessIsSilence
PROPERTIES
    LoopsEnd
CHECK_DEADLOCK FALSE
