\* Graphs: two buffers sharing cb_data; three samples fill one.
\* Text: two rows of two characters of 2 x 2 pixels, with a pixel beside and
\* below them that belongs to none; a letter, the space and a character that
\* is not in the font.  Lines: the sizes of the hardware.
CONSTANTS
    Cbs = {hum, temp}
    Size = 3
    Byte = {0, 1}
    SYNC_H = 1
    BP_H = 1
    DISP_H = 10
    FP_H = 1
    SYNC_V = 1
    BP_V = 1
    DISP_V = 5
    FP_V = 1
    FONT_W = 2
    FONT_H = 2
    Chars = {"space", "A", "other"}
    Space = "space"
    Font <- MCFont
    N_COLS = 20
    DW = 32
    MulMod = 8192
    PxMod = 1024
    OFFSET = 7
SPECIFICATION MCSpec
INVARIANTS
    BTypeOK
    FieldsAgree
    RasTypeOK
    TextShown
PROPERTIES
    SlidingWindows
    RowByRow
