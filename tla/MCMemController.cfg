\* Three bytes: a two-byte command that wraps, one that does not, and a byte
\* that neither touches.
CONSTANTS
    Depth = 3
    Byte = {0, 1}
    MaxResets = 1
SPECIFICATION FairSpec
INVARIANTS
    TypeOK
    FlagIsCurrent
    WordIsHeld
PROPERTIES
    AtomicMemory
    CommandReturns
