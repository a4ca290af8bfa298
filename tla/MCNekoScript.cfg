SPECIFICATION Spec

CONSTANTS
    Names <- MCNames
    Hidden <- MCHidden
    Bytecode <- MCBytecode
    Ansi <- MCAnsi
    Texts <- MCTexts
    ArgLists <- MCArgLists
    Room = 1
    Disturbances = 1
    MaxCalls = 2
    Absent = Absent
    Directory = Directory
    None = None

INVARIANTS TypeOK ReadsWhatWasWritten ListingComplete LoadsWhatWasFound RunsWhatWasFound ParametersInOrder BlocksFreed ExitTellsOutcome
