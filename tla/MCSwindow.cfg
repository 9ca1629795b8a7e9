SPECIFICATION RegularSpec
CONSTANTS
    TextLens = {1, 6}
    RowSizes = {3, 4}
    ColSizes = {3, 4}
    BufLens = {3, 5}
    Steps = {1, 2}
    Used = {"clear", "resize", "wordwrap", "lastlog"}
    ScrollOnOutput = {TRUE, FALSE}
    MaxMessages = 5
    Word = 65536
INVARIANTS
    OneScreen
    UpAndDown
PROPERTIES
    FollowsOutput
    StaysScrolledBack
    BufferBounded
