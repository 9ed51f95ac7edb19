----------------------------- MODULE TextCursor -----------------------------
(***************************************************************************)
(* print_str of main.c: where the characters of a message go and which     *)
(* part of the screen is cleared.  The screen is the first V_CH * H_CH     *)
(* bytes of the character memory, a row after the other, so that address   *)
(* cur_y * H_CH + cur_x is column cur_x of row cur_y, and runs on into the *)
(* next row when cur_x is H_CH or more.  A byte is ink or blank.           *)
(*                                                                         *)
(* After each line the cursor moves to the next row and the row after that *)
(* one is cleared, so that there is a blank row to write in and another    *)
(* below it that separates the newest line from the oldest.  That works    *)
(* while lines are shorter than a row.  A longer line moves the cursor     *)
(* further than the one row that was cleared.                              *)
(***************************************************************************)
EXTENDS Naturals, Sequences

CONSTANTS
    H_CH, V_CH,  \* characters in a row (42), rows on the screen (22)
    XMod,        \* cur_x is a uint8_t (256)
    GBase        \* the first address that is not text: the columns (0x800)

ASSUME TextCursorAssumption ==
    /\ H_CH \in Nat \ {0} /\ V_CH \in Nat /\ V_CH >= 3
    /\ XMod \in Nat /\ XMod > H_CH
    /\ GBase \in Nat /\ GBase >= (V_CH - 1) * H_CH + XMod

VARIABLES
    cur_y,   \* the row of the cursor; cur_x is 0 between two lines
    ink,     \* which bytes of the screen are not blank
    fresh,   \* history: 2 when the rows of the cursor and below it are known
             \* to be blank, 1 when only the row below is, 0 at the start
    recent   \* history: the lengths of the last lines written in a blank row

text == <<cur_y, ink, fresh, recent>>

Rows == 0 .. V_CH - 1
Cols == 0 .. H_CH - 1
-----------------------------------------------------------------------------
\* Mutant: cur_x is as wide as it takes.
Reach_Wide(n) == n

\* A line of n characters: the last address it reaches is at most XMod - 1
\* after the start of its row, because cur_x wraps.
Reach(n) == IF n < XMod THEN n ELSE XMod
Written(n) == [r \in Rows |-> [c \in Cols |->
                 ink[r][c] \/ (r >= cur_y /\ (r - cur_y) * H_CH + c < Reach(n))]]

\* Mutant: the row that is cleared is the one entered.
Below_Same(r) == r

\* new_line_ with cur_x = x: the row the cursor enters, and the one cleared.
Entered(x) == (cur_y + 1 + x \div H_CH) % V_CH
Below(r)   == (r + 1) % V_CH

Cleared(screen, r) == [screen EXCEPT ![r] = [c \in Cols |-> FALSE]]

\* cur_y is stepped on to clear the row below, and back.
Back(r) == IF r = 0 THEN V_CH - 1 ELSE r - 1

Newest(s) == SubSeq(s, 1, IF Len(s) < V_CH - 2 THEN Len(s) ELSE V_CH - 2)

\* The characters of one line of a message, then new_line_.
PrintLine(n) ==
    LET below == Below(Entered(n % XMod))
    IN  /\ cur_y' = Back(below)
        /\ ink' = Cleared(Written(n), below)
        /\ IF n < H_CH
           THEN /\ fresh' = IF fresh = 0 THEN 1 ELSE 2
                /\ recent' = IF fresh = 2 THEN Newest(<<n>> \o recent) ELSE << >>
           ELSE /\ fresh' = 1
                /\ recent' = << >>

\* A line of n characters that is never finished: some of them are written, or
\* all and some columns of the row below are cleared.
CutLine(n) ==
    LET below == Below(Entered(n % XMod))
    IN  /\ \/ /\ \E k \in 0 .. n : ink' = Written(k)
              /\ UNCHANGED cur_y
           \/ /\ \E k \in 0 .. H_CH :
                    ink' = [Written(n) EXCEPT ![below] = [c \in Cols |-> c >= k /\ @[c]]]
              /\ cur_y' = below
        /\ fresh' = 0
        /\ recent' = << >>

\* clear_mem is not called: the screen holds what an earlier run left.
TextInit == /\ cur_y = 0
            /\ ink \in [Rows -> [Cols -> BOOLEAN]]
            /\ fresh = 0
            /\ recent = << >>
-----------------------------------------------------------------------------
TextTypeOK == /\ cur_y \in Rows
              /\ ink \in [Rows -> [Cols -> BOOLEAN]]
              /\ fresh \in 0 .. 2
              /\ recent \in Seq(Cols)
              /\ Len(recent) <= V_CH - 2

\* However long the next line is, it stays below the columns of the graphs:
\* cur_x wraps before it gets there, and cur_y never leaves the screen
\* (main.c:21, 279-284, 296-297).
BelowColumns == \A n \in 0 .. 2 * XMod : cur_y * H_CH + Reach(n) <= GBase

\* The screen shows the last lines, each with nothing after its last
\* character, as long as no line of H_CH characters or more came between
\* them; there are at most V_CH - 2 of them and then a blank row (main.c:278-302).
Shows(r, n) == ink[r] = [c \in Cols |-> c < n]
LastLinesShown ==
    /\ \A i \in 1 .. Len(recent) : Shows((cur_y + V_CH - i) % V_CH, recent[i])
    /\ fresh = 2 => Shows(cur_y, 0)
    /\ fresh >= 1 => Shows((cur_y + 1) % V_CH, 0)
=============================================================================
