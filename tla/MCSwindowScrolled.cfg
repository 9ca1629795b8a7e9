SPECIFICATION Spec
CONSTANTS
    TextLens = {1, 6}
    RowSizes = {3}
    ColSizes = {3}
    BufLens = {3}
    Steps = {1, 2}
    Used = {}
    ScrollOnOutput = {FALSE}
    MaxMessages = 5
    Word = 65536
PROPERTIES
    ScrolledBackStays
