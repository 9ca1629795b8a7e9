SPECIFICATION FairSpec
CONSTANTS
    Commands = {a, b}
    Intervals = {0, 1}
    Times = {0, 2}
    MaxTimers = 3
    MaxCommands = 2
INVARIANTS
    NoTimerSkipped
    RunsAddUp
PROPERTIES
    LimitedTimersEnd
    PassEnds
