---------------------------- MODULE GraphRefresh ----------------------------
(***************************************************************************)
(* How a data message reaches the graphs on the screen.  main() writes the *)
(* columns of each graph with write_8b and then a byte at the trigger      *)
(* address 0x8A0; Edge_Trigger.v sees that address on port 1 of the memory *)
(* and Buff_Controller.v copies the 100 columns, one per edge and through  *)
(* port 2, into the registers the pixels are computed from.                *)
(*                                                                         *)
(* Nothing tells the processor that a copy is under way and a trigger that *)
(* arrives during one is lost: that it never happens is a matter of how    *)
(* many edges write_8b takes, so this module runs the display side on the  *)
(* same clock edges as MemController.                                      *)
(***************************************************************************)
EXTENDS MemController, Sequences, FiniteSets

CONSTANTS
    GBase,    \* first column in the memory (0x800)
    GTrig,    \* the trigger address (0x8A0)
    GCols,    \* columns of one graph (G_N_COLS)
    NGraphs,  \* graphs on the screen (5)
    Lines,    \* contents of the columns of one graph, left to right
    MayDie,   \* whether the program may be killed
    TextLen,  \* characters main() writes at least for a text message (H_CH)
    Others    \* addresses port 2 may have when it has not the counter's: the
              \* characters' (0 to 923) and the debug switches' (0x800 to 0x87F)

NCells == NGraphs * GCols

ASSUME GraphRefreshAssumption ==
    /\ GCols \in Nat \ {0} /\ NGraphs \in Nat \ {0} /\ TextLen \in Nat \ {0}
    /\ GBase \in 1 .. Depth - 1
    /\ GTrig \in GBase + NCells .. Depth - 1
    /\ Others \subseteq Addr
    /\ MayDie \in BOOLEAN
    /\ Lines \subseteq [1 .. GCols -> Byte]

VARIABLES
    et,       \* Edge_Trigger.v: 0 low, 1 the edge after a rise, 2 high
    cnt,      \* Buff_Controller.v: 0 at rest, else the cell filled next
    hs_buf,   \* its registers, the column heights
    p2_r,     \* output of port 2 of the memory
    sel,      \* SW[0], SW[1]: what drives port 2; "text" is SW[0] down
    app,      \* where main() is in a message
    todo,     \* the bytes it has still to write, address and value
    garbled   \* the last copy read cells that are not the columns

display == <<et, cnt, hs_buf, p2_r, garbled>>
gvars == <<vars, display, sel, app, todo>>
-----------------------------------------------------------------------------
Cells     == 0 .. NCells - 1
Columns   == [i \in Cells |-> mem[GBase + i]]
Selectors == {"text", "graph", "debug"}
Apps      == {"wait", "data", "trigger", "text"}
-----------------------------------------------------------------------------
\* Mutants: the trigger is a level and not an edge; the counter does not stop,
\* or stops before the last cell; a cell is one column off.
Edge_Trigger_Level == et' = IF mem_addr # GTrig THEN 0 ELSE 1
buf_line_CNT_Free  == cnt' = IF et # 1 /\ cnt = 0 THEN 0 ELSE cnt + 1
buf_line_CNT_Short == cnt' = IF et # 1 /\ cnt = 0 THEN 0
                             ELSE IF cnt = NCells - 1 THEN 0 ELSE cnt + 1
buf_reg_Off        == hs_buf' = IF cnt > 0 THEN [hs_buf EXCEPT ![cnt % NCells] = p2_r] ELSE hs_buf

\* The display side at an edge.  trg_addr rises when the controller puts the
\* trigger address on port 1.
Edge_Trigger == et' = IF mem_addr # GTrig THEN 0 ELSE IF et = 0 THEN 1 ELSE 2

trg  == et = 1
refr == cnt > 0

buf_line_CNT == cnt' = IF ~(trg \/ refr)  THEN cnt
                       ELSE IF cnt = NCells THEN 0 ELSE cnt + 1

\* A cell is filled with what port 2 read at the edge before.
buf_reg == hs_buf' = IF refr THEN [hs_buf EXCEPT ![cnt - 1] = p2_r] ELSE hs_buf

\* Port 2 reads old data when port 1 writes at the same edge.
char_mem_port2 ==
    \/ sel = "graph" /\ p2_r' = mem[GBase + cnt]
    \/ sel # "graph" /\ \E a \in Others : p2_r' = mem[a]

\* History: was a column address replaced by another one during this copy?
Watch == garbled' = IF trg /\ ~refr THEN sel # "graph"
                    ELSE IF refr /\ cnt < NCells THEN garbled \/ sel # "graph"
                    ELSE garbled

Display == /\ Edge_Trigger
           /\ buf_line_CNT
           /\ buf_reg
           /\ char_mem_port2
           /\ Watch
           /\ UNCHANGED sel
-----------------------------------------------------------------------------
\* main(): a message is text or data according to SW[0] when it arrives.

Receive == /\ app = "wait"
           /\ pc = "idle"
           /\ app' = IF sel # "text" THEN "data" ELSE "text"
           /\ todo' = IF sel # "text" THEN <<>> ELSE [i \in 1 .. TextLen |-> <<0, 0>>]
           /\ UNCHANGED <<vars, display, sel>>

\* One line of a data message: send_CB writes the columns of its graph.
Line == /\ app = "data"
        /\ todo = <<>>
        /\ pc = "idle"
        /\ \E g \in 0 .. NGraphs - 1, h \in Lines :
              todo' = [i \in 1 .. GCols |-> <<GBase + g * GCols + i - 1, h[i]>>]
        /\ UNCHANGED <<vars, display, sel, app>>

\* The end of the message: write_8b(0,0x8A0).
LastLine == /\ app = "data"
            /\ todo = <<>>
            /\ pc = "idle"
            /\ app' = "trigger"
            /\ todo' = <<<<GTrig, 0>>>>
            /\ UNCHANGED <<vars, display, sel>>

Done == /\ app \in {"trigger", "text"}
        /\ todo = <<>>
        /\ pc = "idle"
        /\ app' = "wait"
        /\ UNCHANGED <<vars, display, sel, todo>>

write_8b == /\ todo # <<>>
            /\ Issue([cmd |-> "w1", addr |-> Head(todo)[1], lo |-> Head(todo)[2], hi |-> 0])
            /\ todo' = Tail(todo)
            /\ Display
            /\ UNCHANGED app

\* The rest of write_8b, and the edges in between.  A process starts in far
\* longer than a copy takes.
Driving == /\ Driver \/ Stall
           /\ pc = "boot" /\ pc' = "idle" => ~refr
           /\ Display
           /\ UNCHANGED <<app, todo>>

\* The program is killed: the message is forgotten, some columns are written.
Killed == /\ MayDie
          /\ Crash
          /\ app' = "wait"
          /\ todo' = <<>>
          /\ UNCHANGED <<display, sel>>

\* KEY[0] also clears the registers of the display side.
KEY0 == /\ Reset
        /\ et' = 0
        /\ cnt' = 0
        /\ hs_buf' = [i \in Cells |-> 0]
        /\ garbled' = FALSE
        /\ UNCHANGED <<p2_r, sel, app, todo>>

\* The user moves a switch at any time.
Switch == /\ sel' \in Selectors \ {sel}
          /\ UNCHANGED <<vars, display, app, todo>>
-----------------------------------------------------------------------------
GInit == /\ Init
         /\ mem = [a \in Addr |-> 0]
         /\ et = 0
         /\ cnt = 0
         /\ hs_buf = [i \in Cells |-> 0]
         /\ p2_r = 0
         /\ sel \in Selectors
         /\ app = "wait"
         /\ todo = <<>>
         /\ garbled = FALSE

GNext == Receive \/ Line \/ LastLine \/ Done \/ write_8b \/ Driving
           \/ Killed \/ KEY0 \/ Switch

GSpec == GInit /\ [][GNext]_gvars
-----------------------------------------------------------------------------
GTypeOK == /\ TypeOK
           /\ et \in 0 .. 2
           /\ cnt \in 0 .. NCells
           /\ hs_buf \in [Cells -> Byte]
           /\ p2_r \in Byte
           /\ sel \in Selectors
           /\ app \in Apps
           /\ todo \in Seq(Addr \X Byte)
           /\ garbled \in BOOLEAN

\* A trigger never arrives while the columns of the one before are still
\* being copied: Buff_Controller would ignore it.
NoLostTrigger == trg => ~refr

\* When main() is back waiting for a message after a trigger and the copy is
\* over, the graphs show exactly the columns in the memory, unless the
\* switches had port 2 read something else during the copy.
ShownIsStored ==
    app = "wait" /\ mem_addr = GTrig /\ et = 2 /\ ~refr /\ ~garbled => hs_buf = Columns
=============================================================================
