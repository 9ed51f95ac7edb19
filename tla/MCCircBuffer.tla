---------------------------- MODULE MCCircBuffer ----------------------------
(***************************************************************************)
(* What is shown, in both modes: the columns of the graphs, which the      *)
(* program computes, and the picture of the text, which the fabric         *)
(* computes.  They have no state in common, so that a behaviour exercises  *)
(* one of them.                                                            *)
(***************************************************************************)
EXTENDS CircBuffer, Raster, LineInterpol

VARIABLE mode   \* "graph" or "text"

\* A letter whose two rows differ.
MCFont == [c \in {"space", "A"} |-> [i \in 0 .. FONT_W * FONT_H - 1 |-> c = "A" /\ i = 1]]

\* The interpolation with the real sizes, for heights at the ends, in the
\* middle and around the powers of 2.
MCHeights == {0, 1, 2, 3, 63, 64, 100, 127, 128, 200, 234, 235, 254, 255}
ASSUME LinesDrawn ==
    \A a, b \in MCHeights, px \in X_MAX - DW .. X_MAX :
        OnLine([i \in 0 .. N_COLS - 1 |-> IF i = N_COLS - 1 THEN b ELSE a], px)

MCInit == /\ mode \in {"graph", "text"}
          /\ BInit /\ RasInit
          /\ mode = "graph" => /\ \A i \in Cells : char_mem[i] = Space
                               /\ p2_r = Space /\ glyph = Space /\ ~sw0 /\ ~sw9
          /\ mode = "text" => \A c \in Cbs, i \in Index : cb[c].buf[i] = 0 /\ columns[c][i] = 0
MCNext == \/ mode = "graph" /\ BNext /\ UNCHANGED <<rasvars, mode>>
          \/ mode = "text" /\ RasNext /\ UNCHANGED <<bvars, mode>>
MCSpec == MCInit /\ [][MCNext]_<<bvars, rasvars, mode>>
=============================================================================
