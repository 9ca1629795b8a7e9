SPECIFICATION Spec
CONSTANTS
    Words <- MCWords
    FirstLetter <- MCFirstLetter
    Rest <- MCRest
    Bare <- MCBare
    Char <- MCChar
    Typed <- MCTyped
    SystemRc <- MCSystemRc
    Heights = {3, 6}
    MaxResolve = 6
    Room = 4
    MaxSteps = 4
INVARIANTS
    AliasesResolve
    RestartRestores
CHECK_DEADLOCK FALSE
