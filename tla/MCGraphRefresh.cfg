\* Three graphs of one column, with every content: a copy takes four edges.
CONSTANTS
    Depth = 5
    Byte = {0, 1}
    MaxResets = 1
    GBase = 1
    GTrig = 4
    GCols = 1
    NGraphs = 3
    Lines <- AnyLine
    MayDie = TRUE
    TextLen = 1
    Others = {0, 1}
SPECIFICATION GSpec
INVARIANTS
    GTypeOK
    NoLostTrigger
    ShownIsStored
