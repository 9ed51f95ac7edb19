\* Two graphs of four columns, each of one height: a copy takes nine edges, and
\* the next message writes while it runs.
CONSTANTS
    Depth = 10
    Byte = {0, 1}
    MaxResets = 0
    GBase = 1
    GTrig = 9
    GCols = 4
    NGraphs = 2
    Lines <- FlatLine
    MayDie = FALSE
    TextLen = 1
    Others = {0, 1}
SPECIFICATION GSpec
INVARIANTS
    ShownIsStored
