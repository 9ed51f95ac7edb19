\* Four scenes: keys, texts, data, and all of them together.  Rows of 2
\* characters, 4 of them; cur_x wraps at 4; mode and period as in the hardware.
CONSTANTS
    H_CH = 2
    V_CH = 4
    XMod = 4
    GBase = 10
    Scalars = {"hum"}
    Axes <- MCAxes
    Size = 2
    Byte = {0, 1}
    Wild = 2
    Modes = 8
    LastT = 6
    OutMsg = 10
    Cap = 2
    Scenes <- MCScenes
SPECIFICATION PFairSpec
INVARIANTS
    PTypeOK
    BelowColumns
    LastLinesShown
    LastIsVisible
    AxesTogether
PROPERTIES
    PlotsOnlyData
    SettingsArrive
CHECK_DEADLOCK FALSE
