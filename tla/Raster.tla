------------------------------- MODULE Raster -------------------------------
(***************************************************************************)
(* The picture in text mode, at every edge of the 50 MHz clock: the scan   *)
(* of VGA_Sync.v, whose pixels last two edges, and the way from a pixel    *)
(* through the character memory and the font memory (Txt_Renderer.v).  A   *)
(* memory answers an edge after it is asked, so that the glyph belongs to  *)
(* the pixel before the one whose index picks a bit of it; the character   *)
(* is therefore asked for one pixel ahead.                                 *)
(*                                                                         *)
(* main() may write a character at any edge, the switches may move and     *)
(* KEY[0] may reset the scan.                                              *)
(***************************************************************************)
EXTENDS Naturals

CONSTANTS
    SYNC_H, BP_H, DISP_H, FP_H,  \* edges of a line (192, 96, 1280, 32)
    SYNC_V, BP_V, DISP_V, FP_V,  \* lines of a frame (2, 33, 480, 10)
    FONT_W, FONT_H,              \* pixels of a character (15, 21)
    Chars,                       \* what the 7 bits of a character may be
    Space,                       \* the first of the font
    Font                         \* the glyphs of font_mem.hex, by character

ASSUME RasterAssumption ==
    /\ {SYNC_H, BP_H, FP_H, SYNC_V, BP_V, DISP_V, FP_V} \subseteq Nat \ {0}
    /\ DISP_H \in Nat \ {0} /\ DISP_H % 2 = 0
    /\ FONT_W \in Nat /\ FONT_W >= 2 /\ 2 * FONT_W <= DISP_H
    /\ FONT_H \in Nat \ {0} /\ FONT_H <= DISP_V
    /\ DOMAIN Font \subseteq Chars /\ Space \in DOMAIN Font

\* The glyphs have a margin: none begins in its first column of pixels.
ASSUME FontAssumption ==
    \A c \in DOMAIN Font : /\ Font[c] \in [0 .. FONT_W * FONT_H - 1 -> BOOLEAN]
                           /\ \A y \in 0 .. FONT_H - 1 : Font[c][FONT_W * y] = FALSE

VARIABLES
    h, v,      \* the counters of HSYNC and VSYNC
    char_mem,  \* the characters on the screen
    p2_r,      \* the output of port 2 of the character memory
    glyph,     \* the character whose glyph the font memory gives
    sw0, sw9,  \* graph mode, enable
    steady,    \* history: edges, up to 2, since a switch or a character changed
    last       \* history: the pixel shown last

rasvars == <<h, v, char_mem, p2_r, glyph, sw0, sw9, steady, last>>

SCREEN_W == DISP_H \div 2
N_H == SYNC_H + BP_H + DISP_H + FP_H
N_V == SYNC_V + BP_V + DISP_V + FP_V
-----------------------------------------------------------------------------
\* Sync_Gen.v: the visible part of a counter, and the coordinate in it.
d(cnt, before, disp)     == cnt >= before /\ cnt < before + disp
coord(cnt, before, disp) == IF d(cnt, before, disp) THEN cnt - before ELSE 0

vga_blank_n == d(h, SYNC_H + BP_H, DISP_H) /\ d(v, SYNC_V + BP_V, DISP_V)
px_x == coord(h, SYNC_H + BP_H, DISP_H) \div 2
px_y == coord(v, SYNC_V + BP_V, DISP_V)

\* Mutant: the character is asked for when its pixel is due.
px_x_p1_None == px_x
px_x_p1 == px_x + 1
-----------------------------------------------------------------------------
\* CI_Gen.v and FI_Gen.v: the character of a pixel and the bit of its glyph.
NCW == SCREEN_W \div FONT_W
NCH == DISP_V \div FONT_H
off_limits(x, y) == x >= NCW * FONT_W \/ y >= NCH * FONT_H
ci(x, y) == IF off_limits(x, y) THEN 0 ELSE NCW * (y \div FONT_H) + (x \div FONT_W)
fi(x, y) == FONT_W * (y % FONT_H) + (x % FONT_W)

\* Font_BMP.v: what the font memory is asked for, and the pixel.
Lit == ~off_limits(px_x_p1, px_y) /\ p2_r \in DOMAIN Font /\ sw9
font_mem_addr == IF Lit THEN p2_r ELSE Space
pxi == Lit /\ Font[glyph][fi(px_x_p1, px_y)]
-----------------------------------------------------------------------------
\* Mutant: the counter counts one too far.
Step_Long(cnt, n) == IF cnt = n THEN 0 ELSE cnt + 1

\* Sync_Gen.v's UDL_CNT, loaded with 0 at the end.
Step(cnt, n) == IF cnt = n - 1 THEN 0 ELSE cnt + 1

\* Mutant: the lines are counted at every edge.
Scan_NoEol == /\ h' = IF sw9 THEN Step(h, N_H) ELSE h
              /\ v' = IF sw9 THEN Step(v, N_V) ELSE v

Scan == /\ h' = IF sw9 THEN Step(h, N_H) ELSE h
        /\ v' = IF sw9 /\ h = N_H - 1 THEN Step(v, N_V) ELSE v

\* Port 2: in graph mode it reads whatever the graphs ask for.
Read == p2_r' \in IF sw0 THEN Chars ELSE {char_mem[ci(px_x_p1, px_y)]}

Shown == last' = IF vga_blank_n' THEN <<px_x, px_y>>' ELSE last

\* An edge; its inputs are the write of main() and the switches.
Edge(written, graph, on) ==
    /\ Scan
    /\ Read
    /\ glyph' = font_mem_addr
    /\ char_mem' = written
    /\ sw0' = graph
    /\ sw9' = on
    /\ steady' = IF <<written, graph, on>> # <<char_mem, sw0, sw9>> THEN 0
                 ELSE IF steady = 2 THEN 2 ELSE steady + 1
    /\ Shown

Home == <<SCREEN_W - 1, DISP_V - 1>>
\* KEY[0] resets the counters and not the memories.
Reset == /\ h' = 0 /\ v' = 0
         /\ last' = Home
         /\ steady' = 0
         /\ Read
         /\ glyph' = font_mem_addr
         /\ UNCHANGED <<char_mem, sw0, sw9>>

Cells == 0 .. NCW * NCH - 1
RasInit == /\ h = 0 /\ v = 0
           /\ char_mem \in [Cells -> Chars]
           /\ p2_r \in Chars
           /\ glyph \in DOMAIN Font
           /\ sw0 \in BOOLEAN /\ sw9 \in BOOLEAN
           /\ steady = 0
           /\ last = Home

RasNext == \/ \E graph, on \in BOOLEAN : Edge(char_mem, graph, on)
           \/ \E i \in Cells : \E c \in Chars \ {char_mem[i]} :
                Edge([char_mem EXCEPT ![i] = c], sw0, sw9)
           \/ Reset

RasSpec == RasInit /\ [][RasNext]_rasvars
-----------------------------------------------------------------------------
RasTypeOK == /\ h \in 0 .. N_H - 1
             /\ v \in 0 .. N_V - 1
             /\ char_mem \in [Cells -> Chars]
             /\ p2_r \in Chars
             /\ glyph \in DOMAIN Font
             /\ sw0 \in BOOLEAN /\ sw9 \in BOOLEAN
             /\ steady \in 0 .. 2
             /\ last \in (0 .. SCREEN_W - 1) \X (0 .. DISP_V - 1)

\* The picture is the text, moved to the left by one pixel: the delay of two
\* memories is made up for (Txt_Renderer.v:203), and although the bit of the
\* glyph is picked a pixel ahead as well, no pixel of one character is taken
\* from the glyph of its neighbour.
Text(x, y) == /\ ~off_limits(x, y)
              /\ char_mem[ci(x, y)] \in DOMAIN Font
              /\ Font[char_mem[ci(x, y)]][fi(x, y)]
TextShown == steady = 2 /\ vga_blank_n /\ sw9 /\ ~sw0 => pxi = Text(px_x + 1, px_y)

\* The pixels are shown row by row from the left, none left out and none twice,
\* whenever SW[9] stops and starts the scan (VGA_Sync.v:38-53).
After(p) == IF p[1] < SCREEN_W - 1 THEN <<p[1] + 1, p[2]>>
            ELSE <<0, IF p[2] < DISP_V - 1 THEN p[2] + 1 ELSE 0>>
RowByRow == [][last' \in {last, After(last)} \/ (h' = 0 /\ v' = 0)]_rasvars
=============================================================================
