SPECIFICATION Spec
CONSTANTS
    Bits = 6
    Names <- MCNames
    bad_names <- MCbadNames
    Garbage = 21
    StringText <- MCStringText
    Runs <- MCRuns
    Own <- MCOwn
    Results <- MCResults
    Alphabet <- MCAlphabet
    FreeTokens = 3
    MaxTokens = 7
    ShortTokens = 3
    TypeCommands = 2
    DetourTokens = 5
    Memory <- MCMemory
    MaxCommands = 4
    SetNames <- MCSetNames
    SetTexts <- MCSetTexts
    WriteNames <- MCWriteNames
    WriteValues <- MCWriteValues
INVARIANTS
    EvaluationFollowsGrammar
    VariablesOK
    ViewShowsWritten
    LocationsOK
PROPERTIES
    WriteKeepsOthers
CHECK_DEADLOCK FALSE
