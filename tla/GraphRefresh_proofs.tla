------------------------- MODULE GraphRefresh_proofs -------------------------
(***************************************************************************)
(* Proofs about GraphRefresh, for any number of graphs and columns and any *)
(* place of the columns and of the trigger in the memory.                  *)
(*                                                                         *)
(* First the types: nothing is read or filled outside the columns.  Then   *)
(* the time between two triggers, counted in edges: RunInv is what main()  *)
(* does with the driver, RiseInv when the trigger address comes to port 1, *)
(* and TimeInv that by then the copy is over, which takes graphs that are  *)
(* few enough for the edges of a line.  Last, CopyInv: the cells behind    *)
(* the counter are the columns in the memory.                              *)
(***************************************************************************)
EXTENDS GraphRefresh, MemController_proofs, SequenceTheorems

\* The display side and main(), without the memory bus.
ScreenOK == /\ et \in 0 .. 2
            /\ cnt \in 0 .. NCells
            /\ hs_buf \in [Cells -> Byte]
            /\ p2_r \in Byte
            /\ sel \in Selectors
            /\ app \in Apps
            /\ todo \in Seq(Addr \X Byte)
            /\ garbled \in BOOLEAN

\* The columns and the byte the counter stops at are inside the memory.
LEMMA Sizes ==
  /\ GCols \in Nat /\ NGraphs \in Nat /\ NCells \in Nat /\ NCells > 0 /\ Depth \in Nat
  /\ \A n \in 0 .. NCells : GBase + n \in Addr
  /\ GTrig \in Addr /\ 0 \in Byte /\ 0 \in Addr
<1>1. /\ GCols \in Nat \ {0} /\ NGraphs \in Nat \ {0} /\ Depth \in Nat /\ Depth > 1
      /\ GBase \in 1 .. Depth - 1 /\ GTrig \in GBase + NCells .. Depth - 1 /\ 0 \in Byte
  BY GraphRefreshAssumption, MemOpsAssumption
<1>2. NCells \in Nat /\ NCells > 0
  BY <1>1 DEF NCells
<1> QED BY <1>1, <1>2 DEF Addr

\* Column i of graph g is a cell.
LEMMA CellInside ==
  ASSUME NEW g \in 0 .. NGraphs - 1, NEW i \in 1 .. GCols
  PROVE  g * GCols + i - 1 \in 0 .. NCells - 1
<1>1. GCols \in Nat /\ NGraphs \in Nat /\ g \in Nat /\ i \in Nat
  BY Sizes
<1>2. (NGraphs - 1 - g) \in Nat
  BY <1>1
<1>3. (NGraphs - 1 - g) * GCols \in Nat /\ g * GCols \in Nat
  BY <1>1, <1>2
<1>4. NCells = g * GCols + (NGraphs - 1 - g) * GCols + GCols
  BY <1>1, <1>2 DEF NCells
<1> QED BY <1>1, <1>3, <1>4
-----------------------------------------------------------------------------
LEMMA DisplayTypes ==
  ASSUME TypeOK, ScreenOK, Display
  PROVE  /\ et' \in 0 .. 2 /\ cnt' \in 0 .. NCells /\ hs_buf' \in [Cells -> Byte]
         /\ p2_r' \in Byte /\ garbled' \in BOOLEAN /\ sel' = sel
<1> USE DEF ScreenOK, Display
<1>1. et' \in 0 .. 2
  BY DEF Edge_Trigger
<1>2. cnt' \in 0 .. NCells
  BY Sizes DEF buf_line_CNT
<1>3. hs_buf' \in [Cells -> Byte]
  BY DEF buf_reg
<1>4. p2_r' \in Byte
  <2>1. mem \in [Addr -> Byte] /\ GBase + cnt \in Addr /\ Others \subseteq Addr
    BY Sizes, GraphRefreshAssumption DEF TypeOK
  <2> QED BY <2>1 DEF char_mem_port2
<1>5. garbled' \in BOOLEAN
  BY DEF Watch
<1> QED BY <1>1, <1>2, <1>3, <1>4, <1>5

\* What a step of the whole is for the memory bus.
LEMMA StepBelow ==
  ASSUME ScreenOK, GNext
  PROVE  [Next]_vars
<1>1. CASE write_8b
  <2>1. todo \in Seq(Addr \X Byte) /\ todo # << >>
    BY <1>1 DEF ScreenOK, write_8b
  <2>2. Head(todo) \in Addr \X Byte
    BY <2>1
  <2>3. Head(todo)[1] \in Addr /\ Head(todo)[2] \in Byte
    BY <2>2
  <2>4. [cmd |-> "w1", addr |-> Head(todo)[1], lo |-> Head(todo)[2], hi |-> 0] \in Ops
    BY <2>3 DEF Ops
  <2> QED BY <1>1, <2>4 DEF write_8b, Next
<1>2. CASE Receive \/ Line \/ LastLine \/ Done \/ Switch
  BY <1>2 DEF Receive, Line, LastLine, Done, Switch
<1>3. CASE Driving \/ Killed \/ KEY0
  BY <1>3 DEF Driving, Killed, KEY0, Next
<1> QED BY <1>1, <1>2, <1>3 DEF GNext

LEMMA ScreenStep ==
  ASSUME TypeOK, ScreenOK, GNext
  PROVE  ScreenOK'
<1>1. CASE Receive
  <2>1. [i \in 1 .. TextLen |-> <<0, 0>>] \in Seq(Addr \X Byte)
    <3>1. TextLen \in Nat /\ <<0, 0>> \in Addr \X Byte
      BY Sizes, GraphRefreshAssumption
    <3> QED BY <3>1
  <2>2. << >> \in Seq(Addr \X Byte)
    OBVIOUS
  <2>3. todo' \in Seq(Addr \X Byte)
    BY <1>1, <2>1, <2>2 DEF Receive
  <2> QED BY <1>1, <2>3 DEF Receive, ScreenOK, display, Apps
<1>2. CASE Line
  <2>1. PICK g \in 0 .. NGraphs - 1, h \in Lines :
           todo' = [i \in 1 .. GCols |-> <<GBase + g * GCols + i - 1, h[i]>>]
    BY <1>2 DEF Line
  <2>2. ASSUME NEW i \in 1 .. GCols
        PROVE  <<GBase + g * GCols + i - 1, h[i]>> \in Addr \X Byte
    <3>1. g * GCols + i - 1 \in 0 .. NCells
      <4> DEFINE c == g * GCols + i - 1
      <4>1. c \in 0 .. NCells - 1
        BY CellInside
      <4> HIDE DEF c
      <4>2. c \in 0 .. NCells
        BY <4>1, Sizes
      <4> QED BY <4>2 DEF c
    <3>2. GBase + (g * GCols + i - 1) \in Addr
      BY <3>1, Sizes
    <3>3. GBase + g * GCols + i - 1 = GBase + (g * GCols + i - 1)
      <4>1. g * GCols \in Nat /\ GBase \in Nat
        BY Sizes, GraphRefreshAssumption
      <4> QED BY <4>1
    <3>4. h[i] \in Byte
      BY GraphRefreshAssumption
    <3> QED BY <3>2, <3>3, <3>4
  <2>3. todo' \in Seq(Addr \X Byte)
    BY <2>1, <2>2, Sizes, IsASeq
  <2> QED BY <1>2, <2>3 DEF Line, ScreenOK, display
<1>3. CASE LastLine
  <2>1. <<<<GTrig, 0>>>> \in Seq(Addr \X Byte)
    BY Sizes
  <2> QED BY <1>3, <2>1 DEF LastLine, ScreenOK, display, Apps
<1>4. CASE Done
  BY <1>4 DEF Done, ScreenOK, display, Apps
<1>5. CASE write_8b
  <2>1. todo' \in Seq(Addr \X Byte)
    <3>1. todo \in Seq(Addr \X Byte) /\ todo # << >> /\ todo' = Tail(todo)
      BY <1>5 DEF ScreenOK, write_8b
    <3> QED BY <3>1
  <2> QED BY <1>5, <2>1, DisplayTypes DEF write_8b, ScreenOK
<1>6. CASE Driving
  BY <1>6, DisplayTypes DEF Driving, ScreenOK
<1>7. CASE Killed
  BY <1>7 DEF Killed, ScreenOK, display, Apps
<1>8. CASE KEY0
  <2>1. [i \in Cells |-> 0] \in [Cells -> Byte] /\ 0 \in 0 .. NCells
    BY Sizes
  <2>2. et' \in 0 .. 2 /\ cnt' \in 0 .. NCells /\ hs_buf' \in [Cells -> Byte]
    BY <1>8, <2>1 DEF KEY0
  <2>3. garbled' \in BOOLEAN /\ UNCHANGED <<p2_r, sel, app, todo>>
    BY <1>8 DEF KEY0
  <2> QED BY <2>2, <2>3 DEF ScreenOK
<1>9. CASE Switch
  BY <1>9 DEF Switch, ScreenOK, display, Selectors
<1> QED BY <1>1, <1>2, <1>3, <1>4, <1>5, <1>6, <1>7, <1>8, <1>9 DEF GNext

LEMMA InitScreen == GInit => Init /\ ScreenOK
  BY Sizes DEF GInit, ScreenOK, Apps

LEMMA ScreenHolds == GSpec => [](TypeOK /\ ScreenOK) /\ Spec
<1>1. GInit => Init /\ TypeOK /\ ScreenOK
  BY InitScreen, InitTypeOK
<1>2. TypeOK /\ ScreenOK /\ [GNext]_gvars => (TypeOK /\ ScreenOK)' /\ [Next]_vars
  <2> SUFFICES ASSUME TypeOK, ScreenOK, [GNext]_gvars
               PROVE  (TypeOK /\ ScreenOK)' /\ [Next]_vars
    OBVIOUS
  <2>1. CASE GNext
    BY <2>1, StepBelow, ScreenStep, NextTypeOK
  <2>2. CASE UNCHANGED gvars
    <3>1. UNCHANGED vars /\ UNCHANGED <<display, sel, app, todo>>
      BY <2>2 DEF gvars
    <3> QED BY <3>1, NextTypeOK DEF ScreenOK, display
  <2> QED BY <2>1, <2>2
<1> QED BY <1>1, <1>2, PTL DEF GSpec, Spec

\* The copy never reads outside the memory nor fills a cell that is not there,
\* and every byte main() writes for a graph is one of its columns.
THEOREM GTypeCorrect == GSpec => []GTypeOK
<1>1. TypeOK /\ ScreenOK => GTypeOK
  BY DEF ScreenOK, GTypeOK
<1> QED BY <1>1, ScreenHolds, PTL

\* The graphs leave the memory bus as it is: what main() and the display side
\* do with it still implements the atomic memory.
THEOREM BusUndisturbed == GSpec => AtomicMemory
  BY ScreenHolds, Implements, PTL
-----------------------------------------------------------------------------
\* The time between two triggers.  Left: the edges, at least, until the driver
\* can issue its next command.
Left == IF pc = "idle" THEN 0
        ELSE IF pc = "release" THEN 1
        ELSE IF state = "op_cplt" THEN (IF to_HPS.cplt THEN 2 ELSE 3)
        ELSE IF state = "w1_2" THEN 4
        ELSE IF state = "w1_1" THEN 5
        ELSE 6

\* The command word is the trigger; the trigger is what is to be written next.
TrigWord == from_HPS # NoCmd /\ from_HPS.addr = GTrig
TrigNext == Len(todo) = 1 /\ todo[1][1] = GTrig

\* main() makes byte writes only, of columns or characters until the trigger.
ByteWrites == from_HPS.cmd \in {"none", "w1"} /\ call.cmd \in {"none", "w1"}
WaitInv    == /\ pc = "boot" => app = "wait"
              /\ app = "wait" => todo = << >> /\ pc \in {"idle", "boot"}
WriteInv   == app \in {"data", "text"} => ~TrigWord /\ \A i \in 1 .. Len(todo) : todo[i][1] # GTrig
TrigInv    == app = "trigger" => \/ TrigNext /\ pc = "idle"
                                 \/ todo = << >> /\ (from_HPS = NoCmd \/ TrigWord)
RunInv     == ByteWrites /\ WaitInv /\ WriteInv /\ TrigInv

\* The trigger address rises on port 1 when the machine writes the trigger.
RiseInv == /\ mem_addr = GTrig /\ et = 0 => state = "w1_2"
           /\ et = 1 => mem_addr = GTrig /\ state = "op_cplt" /\ TrigWord
           /\ TrigWord /\ state = "op_cplt" => mem_addr = GTrig
           /\ app = "trigger" /\ todo = << >> /\ pc \in {"idle", "release"} /\ refr => mem_addr = GTrig

\* The copy is over after n edges.
Over(n) == cnt + n >= NCells

\* Either port 1 still has the trigger address and nothing takes it off, or
\* the copy will be over when the trigger address can have risen again.
InLine  == app \in {"data", "text"} => \/ todo = << >> /\ pc = "idle" /\ mem_addr = GTrig
                                       \/ Over(7 * Len(todo) + Left + 3)
Between == (app = "wait" /\ pc = "idle") \/ TrigNext => mem_addr = GTrig \/ Over(3)
InTrig  == TrigWord => \/ mem_addr = GTrig
                       \/ state = "idle" /\ Over(2)
                       \/ state = "w1_1" /\ Over(1)
Risen   == mem_addr = GTrig /\ et = 0 => Over(0)
TimeInv == refr => InLine /\ Between /\ InTrig /\ Risen
-----------------------------------------------------------------------------
\* An edge, while the machine does byte writes only.
LEMMA ByteEdge ==
  ASSUME IInv, ByteWrites, Fabric
  PROVE  /\ state \in {"idle", "w1_1", "w1_2", "op_cplt"}
         /\ state = "idle" => state' = IF from_HPS = NoCmd THEN "idle" ELSE "w1_1"
         /\ state = "w1_1" => state' = "w1_2" /\ mem_addr' = from_HPS.addr
         /\ state = "w1_2" => state' = "op_cplt"
         /\ state = "op_cplt" => state' = IF from_HPS = NoCmd THEN "idle" ELSE "op_cplt"
         /\ state # "w1_1" => mem_addr' = mem_addr
         /\ to_HPS'.cplt <=> state = "op_cplt"
         /\ state \in {"w1_1", "w1_2"} => from_HPS = call /\ from_HPS # NoCmd
         /\ state = "w1_2" => mem_addr = from_HPS.addr
<1>1. TypeOK /\ WordInv /\ StateInv /\ DataInv
  BY DEF IInv
<1>2. state \in {"idle", "w1_1", "w1_2", "op_cplt"}
  BY <1>1 DEF TypeOK, StateInv, ByteWrites, States
<1>3. state = "idle" => state' = IF from_HPS = NoCmd THEN "idle" ELSE "w1_1"
  BY <1>1, EdgeStates DEF ByteWrites
<1>4. /\ state = "w1_1" => state' = "w1_2"
      /\ state = "w1_2" => state' = "op_cplt"
      /\ state = "op_cplt" => state' = IF from_HPS = NoCmd THEN "idle" ELSE "op_cplt"
      /\ to_HPS'.cplt <=> state = "op_cplt"
  BY <1>1, EdgeStates DEF NextState
<1>5. /\ state = "w1_1" => mem_addr' = from_HPS.addr
      /\ state # "w1_1" => mem_addr' = mem_addr
  BY <1>2 DEF Fabric, mem_control
<1>6. state \in {"w1_1", "w1_2"} => from_HPS = call /\ from_HPS # NoCmd
  <2>1. state \in {"w1_1", "w1_2"} => from_HPS = call /\ call \in Ops
    BY <1>1, MachineWord
  <2> QED BY <2>1, OpsFacts
<1>7. state = "w1_2" => mem_addr = from_HPS.addr
  BY <1>1, <1>6 DEF DataInv
<1> QED BY <1>2, <1>3, <1>4, <1>5, <1>6, <1>7

\* What the driver does at an edge, the command but not the call it issues.
LEMMA ByteDrive ==
  ASSUME IInv, ByteWrites, Driver \/ Stall
  PROVE  /\ Fabric
         /\ \/ pc' = pc /\ UNCHANGED <<from_HPS, call>>
            \/ pc = "poll" /\ pc' = "sample" /\ UNCHANGED <<from_HPS, call>>
            \/ pc = "sample" /\ pc' = "poll" /\ ~to_HPS.cplt /\ UNCHANGED <<from_HPS, call>>
            \/ /\ pc = "sample" /\ pc' = "release" /\ to_HPS.cplt /\ state = "op_cplt"
               /\ from_HPS' = from_HPS /\ from_HPS # NoCmd /\ call' = NoCmd
            \/ pc = "release" /\ pc' = "idle" /\ from_HPS' = NoCmd /\ call' = call
            \/ pc = "boot" /\ pc' = "idle" /\ from_HPS' = NoCmd /\ call' = NoCmd /\ Settled
<1>1. TypeOK /\ WordInv /\ StateInv
  BY DEF IInv
<1>2. CASE Poll
  BY <1>2 DEF Poll
<1>3. CASE SampleBusy
  BY <1>3 DEF SampleBusy
<1>4. CASE SampleWritten
  <2>1. state = "op_cplt" /\ from_HPS # NoCmd
    BY <1>1, <1>4 DEF SampleWritten, WordInv, StateInv, Busy
  <2> QED BY <1>4, <2>1 DEF SampleWritten
<1>5. ~SampleRead
  BY DEF SampleRead, ByteWrites, Reads
<1>6. ~Collect /\ ~Take
  BY <1>1 DEF Collect, Take, ByteWrites, Reads, WordInv
<1>7. CASE Release
  BY <1>7 DEF Release
<1>8. CASE Boot
  BY <1>8 DEF Boot
<1>9. CASE Stall
  BY <1>9 DEF Stall, hps
<1> QED BY <1>2, <1>3, <1>4, <1>5, <1>6, <1>7, <1>8, <1>9 DEF Driver

\* Left goes down by one at most.
LEMMA LeftStep ==
  ASSUME IInv, ByteWrites, Driver \/ Stall, pc # "boot"
  PROVE  Left \in Nat /\ Left' \in Nat /\ Left <= Left' + 1
<1>1. Fabric /\ TypeOK /\ WordInv
  BY ByteDrive DEF IInv
<1>2. state = "op_cplt" /\ from_HPS = NoCmd => pc \in {"idle", "boot"}
  BY <1>1 DEF WordInv
<1>3. to_HPS.cplt \in BOOLEAN /\ to_HPS'.cplt \in BOOLEAN
  <2>1. to_HPS.cplt \in BOOLEAN
    BY <1>1 DEF TypeOK, Status
  <2>2. to_HPS'.cplt \in BOOLEAN
    BY <1>1 DEF Fabric, to_HPS_port
  <2> QED BY <2>1, <2>2
<1>4. CASE pc = "idle"
  BY <1>4 DEF Left
<1>5. CASE pc = "release"
  BY <1>5 DEF Left
<1>6. CASE pc \notin {"idle", "release", "boot"} /\ pc' \notin {"idle", "release"}
  BY <1>1, <1>2, <1>3, <1>6, ByteEdge DEF Left
<1>7. CASE pc = "sample" /\ pc' = "release"
  BY <1>7, ByteDrive DEF Left
<1> QED BY <1>4, <1>5, <1>6, <1>7, ByteDrive
-----------------------------------------------------------------------------
LEMMA TriggerAbove == GTrig # 0 /\ GTrig \in Nat /\ \A c \in 0 .. NCells - 1 : GBase + c # GTrig
<1>1. GBase \in 1 .. Depth - 1 /\ GTrig \in GBase + NCells .. Depth - 1
  BY GraphRefreshAssumption
<1>2. NCells \in Nat /\ NCells > 0 /\ Depth \in Nat
  BY Sizes
<1> QED BY <1>1, <1>2

\* The columns of a line are not the trigger.
LEMMA LineAddresses ==
  ASSUME NEW g \in 0 .. NGraphs - 1, NEW i \in 1 .. GCols
  PROVE  GBase + g * GCols + i - 1 # GTrig
<1> DEFINE c == g * GCols + i - 1
<1>1. c \in 0 .. NCells - 1
  BY CellInside
<1>2. g * GCols \in Nat /\ GBase \in Nat /\ i \in Nat
  BY Sizes, GraphRefreshAssumption
<1>3. GBase + g * GCols + i - 1 = GBase + c
  BY <1>2
<1> HIDE DEF c
<1> QED BY <1>1, <1>3, TriggerAbove

LEMMA HeadTail ==
  ASSUME ScreenOK, todo # << >>
  PROVE  /\ Len(todo) \in Nat /\ Len(todo) >= 1 /\ Head(todo) = todo[1]
         /\ Len(Tail(todo)) = Len(todo) - 1
         /\ \A i \in 1 .. Len(Tail(todo)) : Tail(todo)[i] = todo[i + 1] /\ i + 1 \in 1 .. Len(todo)
         /\ Len(todo) = 1 => Tail(todo) = << >>
<1>1. todo \in Seq(Addr \X Byte)
  BY DEF ScreenOK
<1>2. Len(todo) \in Nat /\ Len(todo) >= 1 /\ Head(todo) = todo[1]
  BY <1>1
<1>3. Tail(todo) \in Seq(Addr \X Byte) /\ Len(Tail(todo)) = Len(todo) - 1
  BY <1>1, HeadTailProperties
<1>4. \A i \in 1 .. Len(Tail(todo)) : Tail(todo)[i] = todo[i + 1]
  BY <1>1, HeadTailProperties
<1>5. \A i \in 1 .. Len(Tail(todo)) : i + 1 \in 1 .. Len(todo)
  BY <1>2, <1>3
<1>6. Tail(todo) # << >> => Len(Tail(todo)) > 0
  BY <1>3, EmptySeq
<1>7. Len(todo) = 1 => Tail(todo) = << >>
  <2> DEFINE k == Len(todo)
             n == Len(Tail(todo))
  <2>1. n = k - 1
    BY <1>3
  <2> HIDE DEF k, n
  <2>2. k = 1 => ~(n > 0)
    BY <2>1
  <2> QED BY <1>6, <2>2, Zenon DEF k, n
<1> QED BY <1>2, <1>3, <1>4, <1>5, <1>7

LEMMA IdleWord == ASSUME IInv, pc = "idle" PROVE from_HPS = NoCmd /\ call = NoCmd
  BY DEF IInv, WordInv

LEMMA RunStep ==
  ASSUME IInv, ScreenOK, RunInv, GNext
  PROVE  RunInv'
<1> USE DEF RunInv
<1>0. NoCmd.cmd = "none"
  BY OpsFacts
<1>1. CASE Receive
  <2>1. UNCHANGED <<from_HPS, call, pc>> /\ pc = "idle"
    BY <1>1 DEF Receive, vars, hps
  <2>2. from_HPS = NoCmd
    BY <2>1, IdleWord
  <2>3. ByteWrites'
    BY <2>1 DEF ByteWrites
  <2>4. WaitInv'
    BY <1>1, <2>1 DEF Receive, WaitInv
  <2>5. \A i \in 1 .. Len(todo') : todo'[i][1] # GTrig
    <3>1. CASE todo' = << >>
      BY <3>1
    <3>2. CASE todo' = [i \in 1 .. TextLen |-> <<0, 0>>]
      <4>1. TextLen \in Nat
        BY GraphRefreshAssumption
      <4>2. Len(todo') = TextLen /\ \A i \in 1 .. TextLen : todo'[i] = <<0, 0>>
        BY <3>2, <4>1
      <4> QED BY <4>2, TriggerAbove
    <3> QED BY <1>1, <3>1, <3>2 DEF Receive
  <2>6. WriteInv'
    BY <2>1, <2>2, <2>5 DEF WriteInv, TrigWord
  <2>7. TrigInv'
    BY <1>1 DEF Receive, TrigInv
  <2> QED BY <2>3, <2>4, <2>6, <2>7
<1>2. CASE Line
  <2>1. UNCHANGED <<from_HPS, call, pc, app>> /\ app = "data" /\ pc = "idle"
    BY <1>2 DEF Line, vars, hps
  <2>2. PICK g \in 0 .. NGraphs - 1, h \in Lines :
           todo' = [i \in 1 .. GCols |-> <<GBase + g * GCols + i - 1, h[i]>>]
    BY <1>2 DEF Line
  <2>3. Len(todo') = GCols /\ \A i \in 1 .. GCols : todo'[i][1] = GBase + g * GCols + i - 1
    BY <2>2, Sizes
  <2>4. \A i \in 1 .. Len(todo') : todo'[i][1] # GTrig
    BY <2>3, LineAddresses
  <2>5. ByteWrites' /\ WriteInv'
    BY <2>1, <2>4 DEF ByteWrites, WriteInv, TrigWord
  <2> QED BY <2>1, <2>5 DEF WaitInv, TrigInv
<1>3. CASE LastLine
  <2>1. UNCHANGED <<from_HPS, call, pc>> /\ app' = "trigger" /\ pc = "idle"
    BY <1>3 DEF LastLine, vars, hps
  <2>2. TrigNext'
    BY <1>3 DEF LastLine, TrigNext
  <2> QED BY <2>1, <2>2 DEF ByteWrites, WaitInv, WriteInv, TrigInv
<1>4. CASE Done
  <2>1. UNCHANGED <<from_HPS, call, pc, todo>> /\ app' = "wait" /\ pc = "idle" /\ todo = << >>
    BY <1>4 DEF Done, vars, hps
  <2> QED BY <2>1 DEF ByteWrites, WaitInv, WriteInv, TrigInv
<1>5. CASE write_8b
  <2> DEFINE a == Head(todo)[1]
             b == Head(todo)[2]
             o == [cmd |-> "w1", addr |-> a, lo |-> b, hi |-> 0]
  <2>1. Issue(o) /\ todo' = Tail(todo) /\ todo # << >> /\ app' = app
    BY <1>5 DEF write_8b
  <2>2. o.cmd = "w1" /\ o.addr = a
    OBVIOUS
  <2> HIDE DEF o
  <2>3. from_HPS' = o /\ call' = o /\ pc = "idle" /\ pc' = "poll"
    BY <2>1 DEF Issue
  <2>4. /\ a = todo[1][1] /\ 1 \in 1 .. Len(todo)
        /\ \A i \in 1 .. Len(todo') : todo'[i] = todo[i + 1] /\ i + 1 \in 1 .. Len(todo)
        /\ Len(todo) = 1 => todo' = << >>
    BY <2>1, HeadTail
  <2> HIDE DEF a
  <2>5. ByteWrites'
    BY <2>2, <2>3 DEF ByteWrites
  <2>6. WaitInv'
    BY <2>1, <2>3 DEF WaitInv
  <2>7. WriteInv'
    BY <2>1, <2>2, <2>3, <2>4 DEF WriteInv, TrigWord
  <2>8. o # NoCmd
    BY <1>0, <2>2
  <2>9. TrigInv'
    BY <2>1, <2>2, <2>3, <2>4, <2>8 DEF TrigInv, TrigNext, TrigWord
  <2> QED BY <2>5, <2>6, <2>7, <2>9
<1>6. CASE Driving
  <2>1. UNCHANGED <<app, todo>> /\ (Driver \/ Stall)
    BY <1>6 DEF Driving
  <2>2. /\ from_HPS' \in {from_HPS, NoCmd} /\ call' \in {call, NoCmd}
        /\ pc = "idle" => pc' = "idle"
        /\ pc' = "boot" => pc = "boot"
        /\ pc = "boot" => pc' \in {"idle", "boot"}
    BY <2>1, ByteDrive
  <2>3. ByteWrites'
    BY <1>0, <2>2 DEF ByteWrites
  <2>4. WaitInv'
    BY <2>1, <2>2 DEF WaitInv
  <2>5. WriteInv'
    BY <2>1, <2>2 DEF WriteInv, TrigWord
  <2>6. TrigInv'
    BY <2>1, <2>2 DEF TrigInv, TrigNext, TrigWord
  <2> QED BY <2>3, <2>4, <2>5, <2>6
<1>7. CASE Killed
  <2>1. UNCHANGED <<from_HPS, call>> /\ app' = "wait" /\ todo' = << >> /\ pc' = "boot"
    BY <1>7 DEF Killed, Crash
  <2> QED BY <2>1 DEF ByteWrites, WaitInv, WriteInv, TrigInv
<1>8. CASE KEY0
  <2>1. UNCHANGED <<app, todo, pc, call>> /\ from_HPS' = NoCmd
    BY <1>8 DEF KEY0, Reset, hps
  <2> QED BY <1>0, <2>1 DEF ByteWrites, WaitInv, WriteInv, TrigInv, TrigNext, TrigWord
<1>9. CASE Switch
  <2>1. UNCHANGED <<app, todo, pc, call, from_HPS>>
    BY <1>9 DEF Switch, vars, hps
  <2> QED BY <2>1 DEF ByteWrites, WaitInv, WriteInv, TrigInv, TrigNext, TrigWord
<1> QED BY <1>1, <1>2, <1>3, <1>4, <1>5, <1>6, <1>7, <1>8, <1>9 DEF GNext
-----------------------------------------------------------------------------
\* Everything but an edge leaves the display side alone, or clears it.
LEMMA Edges ==
  ASSUME IInv, ScreenOK, RunInv, GNext
  PROVE  \/ /\ Display /\ Fabric
            /\ (Driving /\ (Driver \/ Stall) /\ UNCHANGED <<app, todo>>) \/ write_8b
         \/ /\ UNCHANGED <<et, cnt, mem_addr, state, from_HPS, to_HPS>>
            /\ \/ Receive /\ pc' = pc
               \/ Line /\ pc' = pc
               \/ LastLine /\ pc' = pc
               \/ Done /\ pc' = pc
               \/ Killed /\ pc' = "boot" /\ app' = "wait" /\ todo' = << >>
               \/ UNCHANGED <<pc, app, todo>>
         \/ /\ et' = 0 /\ cnt' = 0 /\ mem_addr' = 0 /\ state' = "idle" /\ from_HPS' = NoCmd
<1>1. CASE Receive \/ Line \/ LastLine \/ Done
  BY <1>1 DEF Receive, Line, LastLine, Done, vars, ctl, hps, display
<1>2. CASE Switch
  BY <1>2 DEF Switch, vars, ctl, hps, display
<1>3. CASE Killed
  BY <1>3 DEF Killed, Crash, ctl, display
<1>4. CASE KEY0
  BY <1>4 DEF KEY0, Reset
<1>5. CASE write_8b
  BY <1>5 DEF write_8b, Issue
<1>6. CASE Driving
  BY <1>6, ByteDrive DEF Driving, RunInv
<1> QED BY <1>1, <1>2, <1>3, <1>4, <1>5, <1>6 DEF GNext

\* The counter at an edge.
LEMMA CountEdge ==
  ASSUME ScreenOK, Display
  PROVE  /\ cnt \in Nat /\ cnt' \in Nat /\ NCells \in Nat /\ cnt <= NCells
         /\ cnt' > 0 => cnt' = cnt + 1 /\ (cnt > 0 \/ et = 1)
         /\ et' = IF mem_addr # GTrig THEN 0 ELSE IF et = 0 THEN 1 ELSE 2
<1>1. cnt \in 0 .. NCells /\ NCells \in Nat
  BY Sizes DEF ScreenOK
<1> QED BY <1>1 DEF Display, buf_line_CNT, trg, refr, Edge_Trigger

LEMMA RiseStep ==
  ASSUME IInv, ScreenOK, RunInv, RiseInv, GNext
  PROVE  RiseInv'
<1> USE DEF RiseInv
<1>1. CASE /\ Display /\ Fabric
           /\ (Driving /\ (Driver \/ Stall) /\ UNCHANGED <<app, todo>>) \/ write_8b
  <2> DEFINE issue == pc = "idle" /\ pc' = "poll"
  <2>0. /\ ByteWrites /\ TypeOK /\ et \in 0 .. 2
    BY DEF RunInv, IInv, ScreenOK
  <2>1. /\ state \in {"idle", "w1_1", "w1_2", "op_cplt"}
        /\ state = "idle" => state' = IF from_HPS = NoCmd THEN "idle" ELSE "w1_1"
        /\ state = "w1_1" => state' = "w1_2" /\ mem_addr' = from_HPS.addr
        /\ state = "w1_2" => state' = "op_cplt"
        /\ state = "op_cplt" => state' = IF from_HPS = NoCmd THEN "idle" ELSE "op_cplt"
        /\ state # "w1_1" => mem_addr' = mem_addr
        /\ state \in {"w1_1", "w1_2"} => from_HPS = call /\ from_HPS # NoCmd
        /\ state = "w1_2" => mem_addr = from_HPS.addr
    BY <1>1, <2>0, ByteEdge
  <2>2. et' = IF mem_addr # GTrig THEN 0 ELSE IF et = 0 THEN 1 ELSE 2
    BY <1>1, CountEdge
  <2>3. from_HPS' # from_HPS => \/ issue /\ from_HPS = NoCmd
                                \/ pc = "release" /\ from_HPS' = NoCmd
                                \/ pc = "boot" /\ from_HPS' = NoCmd /\ Settled
    <3>1. CASE write_8b
      <4>1. pc = "idle" /\ pc' = "poll"
        BY <3>1 DEF write_8b, Issue
      <4> QED BY <4>1, IdleWord
    <3>2. CASE Driver \/ Stall
      BY <2>0, <3>2, ByteDrive
    <3> QED BY <1>1, <3>1, <3>2
  <2>4. state \in {"w1_1", "w1_2"} => from_HPS' = from_HPS
    <3>1. pc = "release" /\ from_HPS # NoCmd => state = "op_cplt"
      BY DEF IInv, StateInv
    <3>2. Settled => state \in {"idle", "op_cplt"}
      BY DEF Settled
    <3> QED BY <2>1, <2>3, <3>1, <3>2
  <2>5. mem_addr' = GTrig /\ et' = 0 => state' = "w1_2"
    BY <2>1, <2>2
  <2>6. et' = 1 => mem_addr' = GTrig /\ state' = "op_cplt" /\ TrigWord'
    <3> SUFFICES ASSUME et' = 1 PROVE mem_addr' = GTrig /\ state' = "op_cplt" /\ TrigWord'
      OBVIOUS
    <3>1. mem_addr = GTrig /\ et = 0
      BY <2>0, <2>2
    <3>2. state = "w1_2"
      BY <3>1
    <3> QED BY <2>1, <2>4, <3>1, <3>2 DEF TrigWord
  <2>7. TrigWord' /\ state' = "op_cplt" => mem_addr' = GTrig
    <3> SUFFICES ASSUME TrigWord', state' = "op_cplt" PROVE mem_addr' = GTrig
      OBVIOUS
    <3>1. CASE state = "w1_2"
      BY <2>1, <2>4, <3>1 DEF TrigWord
    <3>2. CASE state = "op_cplt" /\ from_HPS # NoCmd
      <4>1. from_HPS' = from_HPS
        BY <2>3, <3>2 DEF TrigWord
      <4> QED BY <2>1, <3>2, <4>1 DEF TrigWord
    <3> QED BY <2>1, <3>1, <3>2
  <2>8. app' = "trigger" /\ todo' = << >> /\ pc' \in {"idle", "release"} /\ refr' => mem_addr' = GTrig
    <3> SUFFICES ASSUME app' = "trigger", todo' = << >>, pc' \in {"idle", "release"}, refr'
                 PROVE  mem_addr' = GTrig
      OBVIOUS
    <3>1. Driver \/ Stall
      BY <1>1 DEF write_8b, Issue
    <3>2. app = "trigger" /\ todo = << >>
      BY <1>1 DEF write_8b, Issue
    <3>3. refr \/ et = 1
      BY <1>1, CountEdge DEF refr
    <3>4. CASE pc \in {"idle", "release"}
      <4>1. mem_addr = GTrig
        BY <3>2, <3>3, <3>4
      <4>2. state # "w1_1"
        <5>1. pc = "idle" => from_HPS = NoCmd
          BY IdleWord
        <5>2. pc = "release" /\ from_HPS # NoCmd => state = "op_cplt"
          BY DEF IInv, StateInv
        <5> QED BY <2>1, <3>4, <5>1, <5>2
      <4> QED BY <2>1, <4>1, <4>2
    <3>5. CASE pc = "sample" /\ state = "op_cplt" /\ from_HPS # NoCmd
      <4>1. TrigWord
        BY <3>2, <3>5 DEF RunInv, TrigInv, TrigNext
      <4> QED BY <2>1, <3>5, <4>1
    <3>6. CASE pc = "boot"
      BY <3>2, <3>6 DEF RunInv, WaitInv
    <3> QED BY <2>0, <3>1, <3>4, <3>5, <3>6, ByteDrive
  <2> QED BY <2>5, <2>6, <2>7, <2>8
<1>2. CASE /\ UNCHANGED <<et, cnt, mem_addr, state, from_HPS, to_HPS>>
           /\ \/ Receive /\ pc' = pc
              \/ Line /\ pc' = pc
              \/ LastLine /\ pc' = pc
              \/ Done /\ pc' = pc
              \/ Killed /\ pc' = "boot" /\ app' = "wait" /\ todo' = << >>
              \/ UNCHANGED <<pc, app, todo>>
  <2>1. TrigWord' = TrigWord /\ refr' = refr
    BY <1>2 DEF TrigWord, refr
  <2>2. app' = "trigger" /\ todo' = << >> => UNCHANGED <<pc, app, todo>>
    BY <1>2 DEF Receive, Line, LastLine, Done
  <2> QED BY <1>2, <2>1, <2>2
<1>3. CASE et' = 0 /\ cnt' = 0 /\ mem_addr' = 0 /\ state' = "idle" /\ from_HPS' = NoCmd
  BY <1>3, TriggerAbove DEF refr, TrigWord
<1> QED BY <1>1, <1>2, <1>3, Edges
-----------------------------------------------------------------------------
\* Who writes the trigger.
LEMMA TrigFacts ==
  ASSUME IInv, ScreenOK, RunInv
  PROVE  /\ TrigNext => app = "trigger" /\ pc = "idle"
         /\ todo # << >> /\ pc = "idle" /\ todo[1][1] = GTrig => TrigNext
         /\ TrigWord => pc # "idle" /\ app \notin {"data", "text"}
         /\ pc = "idle" => from_HPS = NoCmd /\ state \in {"idle", "op_cplt"}
<1>1. todo \in Seq(Addr \X Byte) /\ app \in {"wait", "data", "trigger", "text"}
  BY DEF ScreenOK, Apps
<1>2. TrigNext => todo # << >> /\ 1 \in 1 .. Len(todo) /\ todo[1][1] = GTrig
  BY <1>1 DEF TrigNext
<1>3. todo # << >> => 1 \in 1 .. Len(todo)
  BY <1>1
<1>4. TrigNext => app = "trigger" /\ pc = "idle"
  BY <1>1, <1>2 DEF RunInv, WaitInv, WriteInv, TrigInv
<1>5. todo # << >> /\ pc = "idle" /\ todo[1][1] = GTrig => TrigNext
  BY <1>1, <1>3 DEF RunInv, WaitInv, WriteInv, TrigInv
<1>6. pc = "idle" => from_HPS = NoCmd /\ state \in {"idle", "op_cplt"}
  BY IdleWord DEF IInv, WordInv
<1>7. TrigWord => pc # "idle" /\ app \notin {"data", "text"}
  BY <1>6 DEF TrigWord, RunInv, WriteInv
<1> QED BY <1>4, <1>5, <1>6, <1>7

\* The same for the trigger that is next after a step.
LEMMA TrigNextThen ==
  ASSUME RunInv', ScreenOK', TrigNext'
  PROVE  app' = "trigger" /\ pc' = "idle"
<1>1. todo' \in Seq(Addr \X Byte) /\ app' \in {"wait", "data", "trigger", "text"}
  BY DEF ScreenOK, Apps
<1>2. todo' # << >> /\ 1 \in 1 .. Len(todo') /\ todo'[1][1] = GTrig
  BY <1>1 DEF TrigNext
<1> QED BY <1>1, <1>2 DEF RunInv, WaitInv, WriteInv, TrigInv

LEMMA CopyEdge ==
  ASSUME IInv, ScreenOK, RunInv, RiseInv, TimeInv, GNext, refr', Display, Fabric,
         (Driving /\ (Driver \/ Stall) /\ UNCHANGED <<app, todo>>) \/ write_8b
  PROVE  InLine' /\ Between' /\ InTrig' /\ Risen'
<1>1. /\ cnt \in Nat /\ cnt' \in Nat /\ NCells \in Nat
      /\ cnt' = cnt + 1 /\ (refr \/ et = 1)
      /\ et' = IF mem_addr # GTrig THEN 0 ELSE IF et = 0 THEN 1 ELSE 2
  BY CountEdge DEF refr
<1>2. \A n \in Nat : Over(n + 1) => Over(n)'
  <2> SUFFICES ASSUME NEW n \in Nat, Over(n + 1) PROVE cnt' + n >= NCells
    BY DEF Over
  <2> QED BY <1>1 DEF Over
<1>3. /\ state \in {"idle", "w1_1", "w1_2", "op_cplt"}
      /\ state = "idle" => state' = IF from_HPS = NoCmd THEN "idle" ELSE "w1_1"
      /\ state = "w1_1" => mem_addr' = from_HPS.addr /\ from_HPS # NoCmd
      /\ state = "op_cplt" => state' = IF from_HPS = NoCmd THEN "idle" ELSE "op_cplt"
      /\ state # "w1_1" => mem_addr' = mem_addr
  BY ByteEdge DEF RunInv
<1>4. RunInv' /\ ScreenOK' /\ IInv'
  <2>1. [Next]_vars
    BY StepBelow
  <2> QED BY <2>1, NextIInv, RunStep, ScreenStep DEF IInv
<1>5. pc = "idle" => from_HPS = NoCmd /\ state \in {"idle", "op_cplt"}
  BY TrigFacts
<1>6. /\ TrigNext => app = "trigger" /\ pc = "idle"
      /\ TrigWord => pc # "idle" /\ app \notin {"data", "text"}
  BY TrigFacts
<1>7. TrigNext' => app' = "trigger" /\ pc' = "idle"
  BY <1>4, TrigNextThen
<1>8. write_8b => /\ pc = "idle" /\ pc' = "poll" /\ app' = app /\ todo # << >> /\ todo' = Tail(todo)
                  /\ from_HPS' = [cmd |-> "w1", addr |-> Head(todo)[1], lo |-> Head(todo)[2], hi |-> 0]
  BY DEF write_8b, Issue
<1>9. CASE et = 1
  <2>1. mem_addr = GTrig /\ state = "op_cplt" /\ TrigWord
    BY <1>9 DEF RiseInv
  <2>2. mem_addr' = GTrig /\ et' = 2 /\ app' \notin {"data", "text"}
    BY <1>1, <1>3, <1>6, <1>8, <1>9, <2>1
  <2> QED BY <2>1, <2>2 DEF InLine, Between, InTrig, Risen
<1>10. CASE refr /\ write_8b
  <2>0. InLine /\ Between
    BY <1>10 DEF TimeInv
  <2>1. state' = "idle" /\ mem_addr' = mem_addr
    BY <1>3, <1>5, <1>8, <1>10
  <2>2. Left = 0 /\ Left' = 6
    BY <1>8, <1>10, <2>1 DEF Left
  <2>3. /\ Len(todo) \in Nat /\ Len(todo) >= 1 /\ Head(todo) = todo[1]
        /\ Len(todo') = Len(todo) - 1
    BY <1>8, <1>10, HeadTail
  <2>4. InLine'
    <3> SUFFICES ASSUME app \in {"data", "text"} PROVE Over(7 * Len(todo) + Left + 3)'
      BY <1>8, <1>10 DEF InLine
    <3>1. Over(7 * Len(todo) + Left + 3)
      BY <1>8, <1>10, <2>0 DEF InLine
    <3> DEFINE n == Len(todo)
               k == Len(todo')
    <3>2. n \in Nat /\ k \in Nat /\ n = k + 1
      BY <2>3
    <3>3. cnt + (7 * n + 0 + 3) >= NCells
      BY <2>2, <3>1 DEF Over
    <3> HIDE DEF n, k
    <3>4. cnt' + (7 * k + 6 + 3) >= NCells
      BY <1>1, <3>2, <3>3
    <3> QED BY <2>2, <3>4 DEF Over, k
  <2>5. Between'
    BY <1>7, <1>8, <1>10 DEF Between, RunInv, WaitInv
  <2>6. InTrig'
    <3> SUFFICES ASSUME TrigWord', mem_addr' # GTrig PROVE state' = "idle" /\ Over(2)'
      BY DEF InTrig
    <3>1. todo[1][1] = GTrig
      BY <1>8, <1>10, <2>3 DEF TrigWord
    <3>2. TrigNext
      BY <1>8, <1>10, <3>1, TrigFacts
    <3>3. Over(3)
      BY <2>0, <2>1, <3>2 DEF Between
    <3>4. Over(2)'
      BY <1>2, <3>3
    <3> QED BY <2>1, <3>4
  <2>7. Risen'
    BY <1>1, <2>1 DEF Risen
  <2> QED BY <2>4, <2>5, <2>6, <2>7
<1>11. CASE refr /\ Driving /\ (Driver \/ Stall) /\ UNCHANGED <<app, todo>>
  <2>0. InLine /\ Between /\ InTrig
    BY <1>11 DEF TimeInv
  <2>1. /\ pc = "idle" => pc' = "idle"
        /\ pc' = "idle" => pc \in {"idle", "release", "boot"}
        /\ from_HPS' \in {from_HPS, NoCmd}
    BY <1>11, ByteDrive DEF RunInv
  <2>2. ~(pc = "boot" /\ pc' = "idle")
    BY <1>11 DEF Driving
  <2>3. InLine'
    <3> SUFFICES ASSUME app \in {"data", "text"} PROVE InLine'
      BY <1>11 DEF InLine
    <3>1. pc # "boot"
      BY DEF RunInv, WaitInv
    <3>2. CASE todo = << >> /\ pc = "idle" /\ mem_addr = GTrig
      BY <1>3, <1>5, <1>11, <2>1, <3>2 DEF InLine
    <3>3. CASE Over(7 * Len(todo) + Left + 3)
      <4> DEFINE n == Len(todo)
                 a == Left
                 b == Left'
      <4>1. a \in Nat /\ b \in Nat /\ a <= b + 1
        BY <1>11, <3>1, LeftStep DEF RunInv
      <4>2. n \in Nat
        BY DEF ScreenOK
      <4>3. cnt + (7 * n + a + 3) >= NCells
        BY <3>3 DEF Over
      <4> HIDE DEF n, a, b
      <4>4. cnt' + (7 * n + b + 3) >= NCells
        BY <1>1, <4>1, <4>2, <4>3
      <4>5. Over(7 * Len(todo) + Left + 3)'
        BY <1>11, <4>4 DEF Over, n, b
      <4> QED BY <4>5 DEF InLine
    <3> QED BY <2>0, <3>2, <3>3 DEF InLine
  <2>4. Between'
    <3> SUFFICES ASSUME (app' = "wait" /\ pc' = "idle") \/ TrigNext', mem_addr' # GTrig
                 PROVE  Over(3)'
      BY DEF Between
    <3>1. (app = "wait" /\ pc' = "idle") \/ TrigNext
      BY <1>11 DEF TrigNext
    <3>2. (app = "wait" /\ pc = "idle") \/ TrigNext
      BY <2>1, <2>2, <3>1 DEF RunInv, WaitInv
    <3>3. pc = "idle"
      BY <1>6, <3>2
    <3>4. mem_addr # GTrig
      BY <1>3, <1>5, <3>3
    <3>5. Over(3)
      BY <2>0, <3>2, <3>4 DEF Between
    <3> QED BY <1>1, <3>5 DEF Over
  <2>5. InTrig'
    <3> SUFFICES ASSUME TrigWord', mem_addr' # GTrig PROVE state' = "w1_1" /\ Over(1)'
      BY DEF InTrig
    <3>1. TrigWord
      BY <2>1 DEF TrigWord
    <3>2. mem_addr # GTrig /\ state # "w1_1"
      BY <1>3, <3>1 DEF TrigWord
    <3>3. state = "idle" /\ Over(2)
      BY <2>0, <3>1, <3>2 DEF InTrig
    <3>4. Over(1)'
      BY <1>2, <3>3
    <3> QED BY <1>3, <3>1, <3>3, <3>4 DEF TrigWord
  <2>6. Risen'
    <3> SUFFICES ASSUME mem_addr' = GTrig, et' = 0 PROVE Over(0)'
      BY DEF Risen
    <3>1. mem_addr # GTrig /\ state = "w1_1"
      BY <1>1, <1>3
    <3>2. TrigWord
      BY <1>3, <3>1 DEF TrigWord
    <3>3. Over(1)
      BY <2>0, <3>1, <3>2 DEF InTrig
    <3> QED BY <1>2, <3>3
  <2> QED BY <2>3, <2>4, <2>5, <2>6
<1> QED BY <1>1, <1>9, <1>10, <1>11

LEMMA TimeStep ==
  ASSUME NCells <= 7 * GCols + 3, NCells <= 7 * TextLen + 3,
         IInv, ScreenOK, RunInv, RiseInv, TimeInv, GNext
  PROVE  TimeInv'
<1> SUFFICES ASSUME refr' PROVE InLine' /\ Between' /\ InTrig' /\ Risen'
  BY DEF TimeInv
<1>0. /\ cnt \in Nat /\ NCells \in Nat /\ GCols \in Nat /\ TextLen \in Nat
      /\ app \in {"wait", "data", "trigger", "text"}
  BY Sizes, GraphRefreshAssumption DEF ScreenOK, Apps
<1>1. CASE /\ Display /\ Fabric
           /\ (Driving /\ (Driver \/ Stall) /\ UNCHANGED <<app, todo>>) \/ write_8b
  BY <1>1, CopyEdge
<1>2. CASE /\ UNCHANGED <<et, cnt, mem_addr, state, from_HPS, to_HPS>>
           /\ \/ Receive /\ pc' = pc
              \/ Line /\ pc' = pc
              \/ LastLine /\ pc' = pc
              \/ Done /\ pc' = pc
              \/ Killed /\ pc' = "boot" /\ app' = "wait" /\ todo' = << >>
              \/ UNCHANGED <<pc, app, todo>>
  <2>1. InLine /\ Between /\ InTrig /\ Risen /\ refr
    BY <1>2 DEF TimeInv, refr
  <2>2. InTrig' /\ Risen'
    BY <1>2, <2>1 DEF InTrig, Risen, TrigWord, Over
  <2>3. \A n : Over(n)' <=> cnt + n >= NCells
    BY <1>2 DEF Over
  <2>4. pc' = "idle" => Left' = 0
    BY DEF Left
  <2>5. TrigNext' => app' = "trigger"
    <3>1. RunInv' /\ ScreenOK' /\ IInv'
      <4>1. [Next]_vars
        BY StepBelow
      <4> QED BY <4>1, NextIInv, RunStep, ScreenStep DEF IInv
    <3> QED BY <3>1, TrigNextThen
  <2>6. pc = "idle" /\ todo = << >> /\ InLine /\ app \in {"data", "text"} => mem_addr = GTrig \/ Over(3)
    <3> SUFFICES ASSUME pc = "idle", todo = << >>, Over(7 * Len(todo) + Left + 3) PROVE Over(3)
      BY DEF InLine
    <3>1. Left = 0 /\ Len(todo) = 0
      BY DEF Left
    <3> QED BY <1>0, <3>1 DEF Over
  <2>7. CASE Receive /\ pc' = pc
    <3>1. app = "wait" /\ pc = "idle" /\ pc' = "idle"
      BY <2>7 DEF Receive
    <3>2. mem_addr = GTrig \/ Over(3)
      BY <2>1, <3>1 DEF Between
    <3>3. CASE app' = "data" /\ todo' = << >>
      <4>1. mem_addr' = GTrig \/ Over(7 * Len(todo) + Left + 3)'
        <5>1. Len(todo') = 0 /\ Left' = 0
          BY <2>4, <3>1, <3>3
        <5> QED BY <1>0, <1>2, <2>3, <3>2, <5>1 DEF Over
      <4>2. InLine'
        BY <3>1, <3>3, <4>1 DEF InLine
      <4>3. Between'
        BY <2>5, <3>3 DEF Between
      <4> QED BY <2>2, <4>2, <4>3
    <3>4. CASE app' = "text" /\ todo' = [i \in 1 .. TextLen |-> <<0, 0>>]
      <4>1. Len(todo') = TextLen /\ Left' = 0
        BY <1>0, <2>4, <3>1, <3>4
      <4>2. cnt + (7 * TextLen + 0 + 3) >= NCells
        BY <1>0
      <4>3. Over(7 * Len(todo) + Left + 3)'
        BY <1>2, <4>1, <4>2 DEF Over
      <4>4. Between'
        BY <2>5, <3>4 DEF Between
      <4> QED BY <2>2, <4>3, <4>4 DEF InLine
    <3> QED BY <2>7, <3>3, <3>4 DEF Receive
  <2>8. CASE Line /\ pc' = pc
    <3>1. PICK g \in 0 .. NGraphs - 1, h \in Lines :
             todo' = [i \in 1 .. GCols |-> <<GBase + g * GCols + i - 1, h[i]>>]
      BY <2>8 DEF Line
    <3>2. app' = "data" /\ pc' = "idle"
      BY <2>8 DEF Line
    <3>3. Len(todo') = GCols /\ Left' = 0
      BY <1>0, <2>4, <3>1, <3>2
    <3>4. cnt + (7 * GCols + 0 + 3) >= NCells
      BY <1>0
    <3>5. Over(7 * Len(todo) + Left + 3)'
      BY <1>2, <3>3, <3>4 DEF Over
    <3>6. Between'
      BY <2>5, <3>2 DEF Between
    <3> QED BY <2>2, <3>5, <3>6 DEF InLine
  <2>9. CASE LastLine /\ pc' = pc
    <3>1. app = "data" /\ todo = << >> /\ pc = "idle" /\ app' = "trigger"
      BY <2>9 DEF LastLine
    <3>2. mem_addr = GTrig \/ Over(3)
      BY <2>1, <2>6, <3>1
    <3> QED BY <1>2, <2>2, <3>1, <3>2 DEF InLine, Between, Over
  <2>10. CASE Done /\ pc' = pc
    <3>1. app \in {"trigger", "text"} /\ todo = << >> /\ pc = "idle" /\ app' = "wait"
      BY <2>10 DEF Done
    <3>2. mem_addr = GTrig \/ Over(3)
      BY <2>1, <2>6, <3>1 DEF RiseInv
    <3> QED BY <1>2, <2>2, <3>1, <3>2 DEF InLine, Between, Over
  <2>11. CASE Killed /\ pc' = "boot" /\ app' = "wait" /\ todo' = << >>
    BY <2>2, <2>5, <2>11 DEF InLine, Between
  <2>12. CASE UNCHANGED <<pc, app, todo>>
    <3>1. Left' = Left /\ (TrigNext' <=> TrigNext)
      BY <1>2, <2>12 DEF Left, TrigNext
    <3> QED BY <1>2, <2>1, <2>2, <2>3, <2>12, <3>1 DEF InLine, Between, Over
  <2> QED BY <1>2, <2>7, <2>8, <2>9, <2>10, <2>11, <2>12
<1>3. CASE cnt' = 0
  BY <1>3 DEF refr
<1> QED BY <1>1, <1>2, <1>3, Edges
\* A trigger that reaches the display side finds the counter at rest.
LEMMA LostStep ==
  ASSUME IInv, ScreenOK, RunInv, RiseInv, TimeInv, NoLostTrigger, GNext
  PROVE  NoLostTrigger'
<1>1. CASE /\ Display /\ Fabric
           /\ (Driving /\ (Driver \/ Stall) /\ UNCHANGED <<app, todo>>) \/ write_8b
  <2> SUFFICES ASSUME et' = 1 PROVE cnt' = 0
    BY CountEdge, <1>1 DEF NoLostTrigger, trg, refr
  <2>1. mem_addr = GTrig /\ et = 0
    BY <1>1, CountEdge
  <2>2. CASE refr
    <3>1. cnt >= NCells
      BY <1>1, <2>1, <2>2, CountEdge DEF TimeInv, Risen, Over
    <3>2. cnt = NCells
      BY <1>1, <3>1, CountEdge
    <3> QED BY <1>1, <2>2, <3>2 DEF Display, buf_line_CNT
  <2>3. CASE ~refr
    <3>1. cnt = 0
      BY <1>1, <2>3, CountEdge DEF refr
    <3> QED BY <1>1, <2>1, <2>3, <3>1 DEF Display, buf_line_CNT, trg
  <2> QED BY <2>2, <2>3
<1>2. CASE UNCHANGED <<et, cnt, mem_addr, state, from_HPS, to_HPS>>
  BY <1>2 DEF NoLostTrigger, trg, refr
<1>3. CASE et' = 0
  BY <1>3 DEF NoLostTrigger, trg
<1> QED BY <1>1, <1>2, <1>3, Edges

-----------------------------------------------------------------------------
\* The copy.  While the trigger address stays on port 1 no column changes, and
\* the cells behind the counter and the output of port 2 are the columns.
CopyInv == mem_addr = GTrig /\ et = 2 /\ ~garbled =>
              IF refr THEN p2_r = mem[GBase + cnt - 1] /\ \A i \in 0 .. cnt - 2 : hs_buf[i] = mem[GBase + i]
                      ELSE \A i \in 0 .. NCells - 1 : hs_buf[i] = mem[GBase + i]

\* Port 1 has the trigger address: the columns stay as they are.
LEMMA ColumnsKept ==
  ASSUME IInv, Fabric, mem_addr = GTrig
  PROVE  \A i \in 0 .. NCells - 1 : mem'[GBase + i] = mem[GBase + i]
<1> SUFFICES ASSUME NEW i \in 0 .. NCells - 1 PROVE mem'[GBase + i] = mem[GBase + i]
  OBVIOUS
<1>1. GBase + i \in Addr /\ GBase + i # GTrig
  BY Sizes, TriggerAbove
<1>2. mem \in [Addr -> Byte]
  BY DEF IInv, TypeOK
<1>3. mem' = IF mem_w_nr THEN [mem EXCEPT ![mem_addr] = mem_in] ELSE mem
  BY DEF Fabric, char_mem_port1
<1> QED BY <1>1, <1>2, <1>3

LEMMA CopyStep ==
  ASSUME IInv, ScreenOK, RunInv, NoLostTrigger, CopyInv, GNext
  PROVE  CopyInv'
<1>0. /\ cnt \in 0 .. NCells /\ NCells \in Nat /\ NCells > 0 /\ GBase \in Nat
      /\ hs_buf \in [0 .. NCells - 1 -> Byte] /\ garbled \in BOOLEAN /\ et \in 0 .. 2
  BY Sizes, GraphRefreshAssumption DEF ScreenOK, Cells
<1>1. CASE /\ Display /\ Fabric
           /\ (Driving /\ (Driver \/ Stall) /\ UNCHANGED <<app, todo>>) \/ write_8b
  <2> SUFFICES ASSUME et' = 2, ~garbled'
               PROVE  IF refr' THEN /\ p2_r' = mem'[GBase + cnt' - 1]
                                    /\ \A i \in 0 .. cnt' - 2 : hs_buf'[i] = mem'[GBase + i]
                      ELSE \A i \in 0 .. NCells - 1 : hs_buf'[i] = mem'[GBase + i]
    BY DEF CopyInv
  <2>1. mem_addr = GTrig /\ et \in {1, 2}
    BY <1>0, <1>1, CountEdge
  <2>2. \A i \in 0 .. NCells - 1 : mem'[GBase + i] = mem[GBase + i]
    BY <1>1, <2>1, ColumnsKept
  <2>3. /\ cnt' = IF ~(trg \/ refr) THEN cnt ELSE IF cnt = NCells THEN 0 ELSE cnt + 1
        /\ hs_buf' = IF refr THEN [hs_buf EXCEPT ![cnt - 1] = p2_r] ELSE hs_buf
        /\ sel = "graph" => p2_r' = mem[GBase + cnt]
        /\ garbled' = IF trg /\ ~refr THEN sel # "graph"
                      ELSE IF refr /\ cnt < NCells THEN garbled \/ sel # "graph"
                      ELSE garbled
    BY <1>1 DEF Display, buf_line_CNT, buf_reg, char_mem_port2, Watch
  <2>4. CASE trg
    <3>1. cnt = 0 /\ ~refr
      BY <1>0, <2>4 DEF NoLostTrigger, refr
    <3>2. cnt' = 1 /\ sel = "graph" /\ p2_r' = mem[GBase + 0]
      <4>1. sel = "graph"
        BY <2>3, <2>4, <3>1
      <4>2. cnt' = cnt + 1
        BY <1>0, <2>3, <2>4, <3>1
      <4>3. p2_r' = mem[GBase + cnt]
        BY <2>3, <4>1
      <4> QED BY <3>1, <4>1, <4>2, <4>3
    <3>3. 0 \in 0 .. NCells - 1 /\ GBase + 1 - 1 = GBase + 0
      BY <1>0
    <3> QED BY <2>2, <3>2, <3>3 DEF refr
  <2>5. CASE ~trg /\ refr /\ cnt < NCells
    <3>1. ~garbled /\ sel = "graph" /\ et = 2
      BY <2>1, <2>3, <2>5 DEF trg
    <3>2. p2_r = mem[GBase + cnt - 1] /\ \A i \in 0 .. cnt - 2 : hs_buf[i] = mem[GBase + i]
      BY <2>1, <2>5, <3>1 DEF CopyInv
    <3>3. /\ cnt' = cnt + 1 /\ p2_r' = mem[GBase + cnt]
          /\ hs_buf' = [hs_buf EXCEPT ![cnt - 1] = p2_r]
      BY <1>0, <2>3, <2>5, <3>1
    <3>4. cnt \in 0 .. NCells - 1 /\ GBase + cnt' - 1 = GBase + cnt /\ cnt > 0
      BY <1>0, <2>5, <3>3 DEF refr
    <3>5. p2_r' = mem'[GBase + cnt' - 1]
      BY <2>2, <3>3, <3>4
    <3>6. ASSUME NEW i \in 0 .. cnt' - 2 PROVE hs_buf'[i] = mem'[GBase + i]
      <4>1. i \in 0 .. NCells - 1 /\ i \in 0 .. cnt - 1
        BY <1>0, <3>3, <3>4
      <4>2. mem'[GBase + i] = mem[GBase + i]
        BY <2>2, <4>1
      <4>3. CASE i = cnt - 1
        <5>1. GBase + i = GBase + cnt - 1
          BY <1>0, <4>3
        <5> QED BY <1>0, <3>2, <3>3, <4>1, <4>2, <4>3, <5>1
      <4>4. CASE i # cnt - 1
        <5>1. i \in 0 .. cnt - 2
          BY <1>0, <4>1, <4>4
        <5> QED BY <1>0, <3>2, <3>3, <4>1, <4>2, <4>4, <5>1
      <4> QED BY <4>3, <4>4
    <3> QED BY <1>0, <3>3, <3>5, <3>6 DEF refr
  <2>6. CASE ~trg /\ cnt = NCells
    <3>1. ~garbled /\ et = 2 /\ refr
      BY <1>0, <2>1, <2>3, <2>6 DEF trg, refr
    <3>2. p2_r = mem[GBase + cnt - 1] /\ \A i \in 0 .. cnt - 2 : hs_buf[i] = mem[GBase + i]
      BY <2>1, <3>1 DEF CopyInv
    <3>3. cnt' = 0 /\ hs_buf' = [hs_buf EXCEPT ![cnt - 1] = p2_r]
      BY <2>3, <2>6, <3>1
    <3>4. ASSUME NEW i \in 0 .. NCells - 1 PROVE hs_buf'[i] = mem'[GBase + i]
      <4>1. mem'[GBase + i] = mem[GBase + i]
        BY <2>2
      <4>2. CASE i = cnt - 1
        <5>1. GBase + i = GBase + cnt - 1
          BY <1>0, <4>2
        <5> QED BY <1>0, <3>2, <3>3, <4>1, <4>2, <5>1
      <4>3. CASE i # cnt - 1
        <5>1. i \in 0 .. cnt - 2
          BY <1>0, <2>6, <4>3
        <5> QED BY <1>0, <3>2, <3>3, <4>1, <4>3, <5>1
      <4> QED BY <4>2, <4>3
    <3> QED BY <3>3, <3>4 DEF refr
  <2>7. CASE ~trg /\ ~refr
    <3>1. ~garbled /\ et = 2
      BY <2>1, <2>3, <2>7 DEF trg
    <3>2. \A i \in 0 .. NCells - 1 : hs_buf[i] = mem[GBase + i]
      BY <2>1, <2>7, <3>1 DEF CopyInv
    <3>3. cnt' = cnt /\ hs_buf' = hs_buf /\ ~refr'
      BY <2>3, <2>7 DEF refr
    <3> QED BY <2>2, <3>2, <3>3
  <2> QED BY <1>0, <2>4, <2>5, <2>6, <2>7
<1>2. CASE UNCHANGED <<et, cnt, mem_addr, mem, hs_buf, p2_r, garbled>>
  BY <1>2 DEF CopyInv, refr
<1>3. CASE et' = 0
  BY <1>3 DEF CopyInv
<1>4. CASE Receive \/ Line \/ LastLine \/ Done \/ Switch
  BY <1>2, <1>4 DEF Receive, Line, LastLine, Done, Switch, vars, ctl, display
<1>5. CASE Killed
  BY <1>2, <1>5 DEF Killed, Crash, ctl, display
<1>6. CASE KEY0
  BY <1>3, <1>6 DEF KEY0
<1>7. CASE write_8b
  BY <1>1, <1>7 DEF write_8b, Issue
<1>8. CASE Driving
  BY <1>1, <1>8, ByteDrive DEF Driving, RunInv
<1> QED BY <1>4, <1>5, <1>6, <1>7, <1>8 DEF GNext
-----------------------------------------------------------------------------
\* The invariant of the copy.
RefreshInv == IInv /\ ScreenOK /\ RunInv /\ RiseInv /\ TimeInv /\ NoLostTrigger /\ CopyInv

LEMMA InitRefreshInv == GInit => RefreshInv
<1> SUFFICES ASSUME GInit PROVE RefreshInv
  OBVIOUS
<1>1. IInv /\ ScreenOK
  BY InitScreen, InitIInv
<1>2. /\ et = 0 /\ cnt = 0 /\ app = "wait" /\ todo = << >> /\ pc = "idle" /\ mem_addr = 0
      /\ from_HPS = NoCmd /\ call = NoCmd
  BY DEF GInit, Init
<1>3. NoCmd.cmd = "none"
  BY OpsFacts
<1>4. RunInv
  BY <1>2, <1>3 DEF RunInv, ByteWrites, WaitInv, WriteInv, TrigInv
<1>5. RiseInv /\ TimeInv /\ NoLostTrigger /\ CopyInv
  BY <1>2, TriggerAbove DEF RiseInv, TimeInv, NoLostTrigger, CopyInv, TrigWord, refr, trg
<1> QED BY <1>1, <1>4, <1>5 DEF RefreshInv

LEMMA NextRefreshInv ==
  ASSUME NCells <= 7 * GCols + 3, NCells <= 7 * TextLen + 3, RefreshInv, [GNext]_gvars
  PROVE  RefreshInv'
<1> USE DEF RefreshInv
<1>1. CASE GNext
  <2>1. IInv' /\ ScreenOK'
    <3>1. [Next]_vars /\ TypeOK
      BY <1>1, StepBelow DEF IInv
    <3> QED BY <1>1, <3>1, NextIInv, ScreenStep
  <2>2. RunInv' /\ RiseInv' /\ TimeInv'
    BY <1>1, RunStep, RiseStep, TimeStep
  <2>3. NoLostTrigger' /\ CopyInv'
    BY <1>1, LostStep, CopyStep
  <2> QED BY <2>1, <2>2, <2>3
<1>2. CASE UNCHANGED gvars
  <2>1. UNCHANGED vars /\ UNCHANGED <<et, cnt, hs_buf, p2_r, garbled, sel, app, todo>>
    BY <1>2 DEF gvars, display
  <2>2. UNCHANGED <<mem, mem_addr, state, from_HPS, to_HPS, pc, call>>
    BY <2>1 DEF vars, ctl, hps
  <2>3. IInv' /\ ScreenOK'
    BY <2>1, NextIInv DEF ScreenOK
  <2>4. TrigWord' = TrigWord /\ TrigNext' = TrigNext /\ Left' = Left /\ refr' = refr /\ trg' = trg
    BY <2>1, <2>2 DEF TrigWord, TrigNext, Left, refr, trg
  <2>5. RunInv'
    BY <2>1, <2>2, <2>4 DEF RunInv, ByteWrites, WaitInv, WriteInv, TrigInv
  <2>6. RiseInv' /\ NoLostTrigger' /\ CopyInv'
    BY <2>1, <2>2, <2>4 DEF RiseInv, NoLostTrigger, CopyInv
  <2>7. TimeInv'
    BY <2>1, <2>2, <2>4 DEF TimeInv, InLine, Between, InTrig, Risen, Over
  <2> QED BY <2>3, <2>5, <2>6, <2>7
<1> QED BY <1>1, <1>2

\* A trigger never arrives while the columns of the one before are still being
\* copied (Buff_Controller.v takes no notice of trg while its counter runs).
\* Nothing in the code waits for the copy: it is over in time because write_8b
\* polls the status word, so that a byte takes seven edges at least, and a
\* message writes one line of a graph or the characters of a text before the
\* next trigger.  That is enough for up to seven graphs of 20 columns; the
\* panel has five.  Resets, kills and the switches may come at any time.
THEOREM NoLostTriggerHolds ==
  ASSUME NCells <= 7 * GCols + 3, NCells <= 7 * TextLen + 3
  PROVE  GSpec => []NoLostTrigger
<1>1. RefreshInv => NoLostTrigger
  BY DEF RefreshInv
<1> QED BY <1>1, InitRefreshInv, NextRefreshInv, PTL DEF GSpec

\* Back waiting for a message after a trigger, with the copy over, the graphs
\* show exactly the columns that are in the memory, unless a switch had port 2
\* read something else during the copy: Buff_Controller.v fills each register
\* with its own column, one edge after it is read, and main() writes no column
\* until the trigger address has gone from port 1.
THEOREM ShownIsStoredHolds ==
  ASSUME NCells <= 7 * GCols + 3, NCells <= 7 * TextLen + 3
  PROVE  GSpec => []ShownIsStored
<1>1. RefreshInv => ShownIsStored
  <2> SUFFICES ASSUME RefreshInv, mem_addr = GTrig, et = 2, ~refr, ~garbled
               PROVE  hs_buf = Columns
    BY DEF ShownIsStored
  <2>1. hs_buf \in [0 .. NCells - 1 -> Byte]
    BY DEF RefreshInv, ScreenOK, Cells
  <2>2. \A i \in 0 .. NCells - 1 : hs_buf[i] = mem[GBase + i]
    BY DEF RefreshInv, CopyInv
  <2> QED BY <2>1, <2>2 DEF Columns, Cells
<1> QED BY <1>1, InitRefreshInv, NextRefreshInv, PTL DEF GSpec
=============================================================================
