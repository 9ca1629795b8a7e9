SPECIFICATION Spec
CONSTANTS
    Lines <- MCLines
    BufSize = 5
    LineSize = 4
    RemovesAway = TRUE
    MaxLines = 3
    MaxCommands = 2
INVARIANTS
    QueuedOnceInOrder
    ServerKnowsAway
    TablesAccounted
    WholeReadsWholeLines
    NothingInvented
PROPERTIES
    OvertakesOnlyBeforeLogin
