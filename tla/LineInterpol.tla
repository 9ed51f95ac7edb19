---------------------------- MODULE LineInterpol ----------------------------
(***************************************************************************)
(* How a graph is drawn: PX_Lin_Interpol.v and its ports in Txt_Renderer.v.*)
(* Its samples are N_COLS heights, DW pixels apart, and between two of     *)
(* them the line is interpolated in integers of a few bits.                *)
(***************************************************************************)
EXTENDS Naturals, Integers

CONSTANTS
    N_COLS,   \* samples of a graph (20)
    DW,       \* pixels between two of them (32)
    MulMod,   \* tmp_mul has clog2(DW) + 8 bits (2^13)
    PxMod,    \* px has clog2(SCREEN_W) bits (2^10)
    OFFSET    \* where the axes cross (7)

\* The registers are wide enough, and what lies left of the axis wraps to
\* where no graph is: to at least 7, the largest r_shift, below the end.
ASSUME LineInterpolAssumption ==
    /\ N_COLS \in Nat \ {0} /\ DW \in Nat \ {0}
    /\ OFFSET \in Nat
    /\ MulMod \in Nat /\ MulMod > 255 * (DW - 1)
    /\ PxMod \in Nat /\ PxMod > DW * (N_COLS - 1) + OFFSET + 7

Heights == 0 .. 255
X_MAX == DW * (N_COLS - 1)

\* tmp_mul.
Product(a, r) == (a * r) % MulMod

\* The line at height a, r pixels on the way to b; it has 8 bits.
Between(a, b, r) == IF b >= a THEN (Product(b - a, r) \div DW + a) % 256
                    ELSE a - (Product(a - b, r) \div DW)

px_liny(col_hs, px) == IF px % DW = 0 THEN col_hs[px \div DW]
                       ELSE Between(col_hs[px \div DW], col_hs[px \div DW + 1], px % DW)

oob(px) == px > X_MAX
pxy_line(col_hs, px, py, en) == ~oob(px) /\ en /\ py \div 2 = px_liny(col_hs, px)

\* The pixel of the screen that is pixel px of the graphs.
graph_px(px_x, r_shift) == (px_x - r_shift - OFFSET) % PxMod
-----------------------------------------------------------------------------
\* The line goes through the samples; between two of them it stays between
\* their heights and less than one from the straight line
\* (PX_Lin_Interpol.v:45-63).
OnLine(col_hs, px) ==
    LET a == col_hs[px \div DW]
        r == px % DW
        l == px_liny(col_hs, px)
    IN  IF r = 0 THEN l = a
        ELSE LET b     == col_hs[px \div DW + 1]
                 exact == a * (DW - r) + b * r
             IN  /\ (a <= l /\ l <= b) \/ (b <= l /\ l <= a)
                 /\ l * DW - exact < DW /\ exact - l * DW < DW
=============================================================================
