---------------------------- MODULE DataMessage ----------------------------
(***************************************************************************)
(* How main() takes a message apart in graph mode.  A message is           *)
(*                                                                         *)
(*     <first line>                                                        *)
(*     Data read: <rest of the line>                                       *)
(*     <quantity>: <value>                                                 *)
(*     ...                                                                 *)
(*                                                                         *)
(* where Humidity and Temperature have one value and Magneto has three.    *)
(* Every value becomes a sample of its graph; after the last line a byte   *)
(* at the trigger address has the columns copied to the registers that     *)
(* the graphs are drawn from.  CB_put and send_CB stand here as            *)
(* SlidingWindow, which CircBuffer is shown to implement, and a copy has a *)
(* beginning and an end, between which GraphRefresh has its edges.         *)
(***************************************************************************)
EXTENDS Naturals, Sequences

CONSTANTS
    Scalars,   \* the quantities with one value, Humidity and Temperature
    Axes,      \* the graphs of Magneto: x, y, z
    Size,      \* columns of a graph (G_N_COLS)
    Byte,      \* the values of a sample
    Wild       \* a value that is not a sample

ASSUME DataMessageAssumption ==
    /\ Axes \in Seq(STRING) /\ Len(Axes) > 0
    /\ \A i, j \in 1 .. Len(Axes) : /\ Axes[i] \notin Scalars
                                    /\ i # j => Axes[i] # Axes[j]
    /\ {"axes", "other"} \cap Scalars = {}
    /\ Size \in Nat \ {0} /\ 0 \in Byte /\ Wild \notin Byte

VARIABLES
    win,      \* the last samples of each quantity
    columns,  \* the columns of its graph in the memory
    head,     \* what msg_head holds: "data" for "Data read", else "other"
    lines,    \* the lines of the message that are not taken apart yet
    plots,    \* the samples of the present line that are not plotted yet
    age,      \* history: for each sample in the window of an axis, how many
              \* lines of Magneto came after the one it is from
    trg_addr, \* the trigger's address is still on port 1 (Txt_Renderer.v)
    refr,     \* a copy is under way (Buff_Controller.v)
    hs_buf,   \* the registers the graphs are drawn from; Wild in all of them
              \* stands for any bytes, those of a copy that went wrong
    garbled   \* history: they are not the columns of one message, because the
              \* last copy read other cells or two messages, or was reset

parsed  == <<win, columns, head, lines, plots, age>>
display == <<trg_addr, refr, hs_buf, garbled>>
data    == <<parsed, display>>

AxisCbs == {Axes[i] : i \in DOMAIN Axes}
Cbs     == Scalars \cup AxisCbs
Heights == [Cbs -> [0 .. Size - 1 -> Byte]]
Flat    == [c \in Cbs |-> [i \in 0 .. Size - 1 |-> 0]]
Spoilt  == [c \in Cbs |-> [i \in 0 .. Size - 1 |-> Wild]]
W       == INSTANCE SlidingWindow
-----------------------------------------------------------------------------
\* Mutant: msg_head is not terminated at the colon either.
HeadAfter_Open(m) == {"data", "other"}

\* A message has head "data", "other" or, when no colon follows its first
\* line, "none"; its lines have a quantity and the values sscanf can convert.
\* msg_head is not terminated when there is no colon: the characters copied
\* and those an earlier message left may make up any string, but more than fit
\* in msg_head do not read "Data read".
HeadAfter(m) == IF ~m.fits THEN {"other"}
                ELSE IF m.head = "none" THEN {"data", "other"} ELSE {m.head}

\* What is left of the message after its header line.
Body(m, h) == IF h = "data" /\ m.head # "none" THEN m.lines ELSE << >>

\* A value that is missing leaves val1, val2 or val3 as an earlier line did,
\* already scaled; one out of the range of the graph is converted to a uint8_t
\* although it does not fit.  Either way the sample is any byte.
Value(l, i)   == IF i <= Len(l.values) THEN l.values[i] ELSE Wild
Converted(v)  == IF v \in Byte THEN {v} ELSE Byte

\* Mutant: an axis whose value is missing is left out.
LineSamples_Short(l) ==
    IF l.of = "axes" THEN [i \in 1 .. Len(l.values) |-> <<Axes[i], Value(l, i)>>]
    ELSE IF l.of \in Scalars THEN << <<l.of, Value(l, 1)>> >> ELSE << >>

\* The samples of a line, in the order they are plotted.
LineSamples(l) ==
    IF l.of = "axes" THEN [i \in 1 .. Len(Axes) |-> <<Axes[i], Value(l, i)>>]
    ELSE IF l.of \in Scalars THEN << <<l.of, Value(l, 1)>> >> ELSE << >>

\* The samples of the axes, when another line comes or one of them is plotted.
Older      == [c \in AxisCbs |-> [i \in 1 .. Len(age[c]) |-> age[c][i] + 1]]
Younger(c) == IF c \in AxisCbs THEN [age EXCEPT ![c] = W!Slide(age[c], 0)] ELSE age

StartParse(m) == /\ head' \in HeadAfter(m)
                 /\ lines' = Body(m, head')
                 /\ UNCHANGED <<win, columns, plots, age, display>>

\* The next line: its quantity is copied to msg_head, where any quantity that
\* is not plotted may read "Data read" again.
TakeLine == /\ plots = << >>
            /\ lines # << >>
            /\ plots' = LineSamples(Head(lines))
            /\ lines' = Tail(lines)
            /\ head' \in IF Head(lines).of = "other" THEN {"data", "other"} ELSE {"other"}
            /\ age' = IF Head(lines).of = "axes" THEN Older ELSE age
            /\ UNCHANGED <<win, columns, display>>

\* CB_put and send_CB of one sample.  A copy that is under way reads the columns
\* of two messages.
Plot == /\ plots # << >>
        /\ \E d \in Converted(Head(plots)[2]) : W!Sample(Head(plots)[1], d)
        /\ plots' = Tail(plots)
        /\ age' = Younger(Head(plots)[1])
        /\ trg_addr' = FALSE
        /\ garbled' = (garbled \/ refr)
        /\ UNCHANGED <<head, lines, refr, hs_buf>>

\* The same when only the first k columns are written.
CutSample ==
    /\ plots # << >>
    /\ LET c == Head(plots)[1]
       IN  \E d \in Converted(Head(plots)[2]), k \in 0 .. Size :
              LET w == W!Slide(win[c], d)
              IN  /\ win' = [win EXCEPT ![c] = w]
                  /\ columns' = [columns EXCEPT ![c] =
                        [i \in 0 .. Size - 1 |-> IF i < k THEN W!Padded(w)[i] ELSE @[i]]]
    /\ plots' = Tail(plots)
    /\ age' = Younger(Head(plots)[1])
    /\ UNCHANGED <<head, lines>>

\* write_8b(0,0x8A0), when the header was that of a data message.  Nothing
\* happens when the address is on port 1 already; otherwise a copy begins, the
\* one before being over by then (GraphRefresh!NoLostTrigger).  Apart from the
\* columns port 2 may read other cells, as the switches have it.
Trigger(other) == /\ IF trg_addr THEN UNCHANGED <<refr, garbled>>
                     ELSE ~refr /\ refr' = TRUE /\ garbled' = other
                  /\ trg_addr' = TRUE
                  /\ UNCHANGED <<parsed, hs_buf>>

\* A switch is moved.
Moved(other) == /\ garbled' = (garbled \/ (refr /\ other))
                /\ UNCHANGED <<trg_addr, refr, hs_buf>>

\* The last edge of a copy.
Copied == /\ refr
          /\ refr' = FALSE
          /\ hs_buf' = IF garbled THEN Spoilt ELSE columns
          /\ UNCHANGED <<parsed, trg_addr, garbled>>

\* KEY[0] clears the registers, also those of the memory's port 1.
ResetGraphs == /\ trg_addr' = FALSE
               /\ refr' = FALSE
               /\ hs_buf' = Flat
               /\ garbled' = TRUE

DataInit == /\ W!WInit
            /\ columns = Flat
            /\ head \in {"data", "other"}
            /\ lines = << >>
            /\ plots = << >>
            /\ age = [c \in AxisCbs |-> << >>]
            /\ trg_addr = FALSE
            /\ refr = FALSE
            /\ hs_buf = Flat
            /\ garbled = FALSE
=============================================================================
