--------------------------- MODULE SlidingWindow ---------------------------
(***************************************************************************)
(* What the graphs show, with no ring, no indices and no shared scratch    *)
(* array: of each measured quantity the last Size samples, oldest first,   *)
(* and the newest one repeated while there are fewer.                      *)
(***************************************************************************)
EXTENDS Naturals, Sequences

CONSTANTS
    Cbs,   \* the quantities measured, each with its graph
    Size,  \* columns of a graph (G_N_COLS)
    Byte   \* the values of a sample

VARIABLES
    win,     \* the last samples of each quantity, oldest first
    columns  \* the columns of its graph in the memory

wvars == <<win, columns>>

\* A sample enters; the oldest leaves when the window is full.
Slide(w, d) == IF Len(w) < Size THEN Append(w, d) ELSE Append(Tail(w), d)

\* The columns for a window: column i counts from 0.
Padded(w) == [i \in 0 .. Size - 1 |-> IF i < Len(w) THEN w[i + 1] ELSE w[Len(w)]]

WInit == /\ win = [c \in Cbs |-> <<>>]
         /\ columns \in [Cbs -> [0 .. Size - 1 -> Byte]]

Sample(c, d) == /\ win' = [win EXCEPT ![c] = Slide(win[c], d)]
                /\ columns' = [columns EXCEPT ![c] = Padded(Slide(win[c], d))]

WNext == \E c \in Cbs, d \in Byte : Sample(c, d)

WSpec == WInit /\ [][WNext]_wvars
=============================================================================
