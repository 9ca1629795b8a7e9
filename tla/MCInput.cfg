SPECIFICATION Spec
CONSTANTS
    Chars = {"a", " ", "/"}
    Slash = "/"
    Blank = " "
    Strings <- mcStrings
    PromptLens = {0, 1}
    Widths = {2, 3}
    HistLens = {0, 1}
    MainCmds <- mcMainCmds
    SubSets <- mcSubSets
    InputBufferLen = 5
    MaxHistory = 3
    Word = 16
    Kept <- mcKept
    MaxLines = 3
INVARIANTS
    PlaceIsKept
    BackAndForth
    CursorOnItsCharacter
    WordsAreWords
    CompletionGoesRound
PROPERTIES
    ImplementsEditor
