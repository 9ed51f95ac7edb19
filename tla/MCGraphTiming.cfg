\* The sizes of main.c: five graphs of 20 columns, the trigger 0xA0 bytes after
\* the first (0x800, here 1), 42 characters to a line.  All bytes are 0: only
\* the timing counts.
CONSTANTS
    Depth = 162
    Byte = {0}
    MaxResets = 0
    GBase = 1
    GTrig = 161
    GCols = 20
    NGraphs = 5
    Lines <- AnyLine
    MayDie = TRUE
    TextLen = 42
    Others = {0}
SPECIFICATION GSpec
INVARIANTS
    NoLostTrigger
