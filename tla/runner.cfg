SPECIFICATION Spec
CHECK_DEADLOCK FALSE
CONSTANTS
    Texts <- MCTexts
    Dashed <- MCDashed
    Size <- MCSize
    Count <- MCCount
    CommandLines <- MCCommandLines
    Entries <- MCEntries
    Files <- MCFiles
INVARIANTS
    TypeOK
    ArgumentsReachBinary
    SettingsAsAsked
    MemoryAsAsked
    ExitCodeTells
    AcceptedHeader
PROPERTY
    Terminates
