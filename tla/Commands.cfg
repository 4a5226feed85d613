CONSTANTS
    Words <- MCWords
    Abbr <- MCAbbr
    Class <- MCClass
    Lines <- MCLines
    Typed <- MCTyped
SPECIFICATION Spec
INVARIANTS
    CommandsOK
    ArgumentsIntact
    StaleMatchHarmless
CHECK_DEADLOCK FALSE
