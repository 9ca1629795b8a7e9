SPECIFICATION Spec
CONSTANTS
    TextLens = {1, 6}
    RowSizes = {3}
    ColSizes = {3}
    BufLens = {3}
    Steps = {1, 2}
    Used = {"lastlog"}
    ScrollOnOutput = {FALSE}
    MaxMessages = 6
    Word = 65536
PROPERTIES
    LastlogIsSafe
