------------------------ MODULE MemController_proofs ------------------------
(***************************************************************************)
(* Proofs about MemController, for every depth of the memory, every set of *)
(* byte values and any number of presses of KEY[0].                        *)
(***************************************************************************)
EXTENDS MemController, TLAPS

\* The address after one of the memory is another one of the memory: the
\* second byte of a 16-bit command never overwrites the first.
LEMMA AfterAddr == \A a \in Addr : After(a) \in Addr /\ After(a) # a
<1> SUFFICES ASSUME NEW a \in Addr PROVE After(a) \in Addr /\ After(a) # a
  OBVIOUS
<1>1. a \in Nat /\ a + 1 <= Depth /\ Depth \in Nat /\ Depth > 1
  BY MemOpsAssumption DEF Addr
<1>2. CASE a + 1 = Depth
  <2>1. (a + 1) % Depth = 0
    BY <1>1, <1>2
  <2> QED BY <2>1, <1>1, <1>2 DEF After, Addr
<1>3. CASE a + 1 < Depth
  <2>1. (a + 1) % Depth = a + 1
    BY <1>1, <1>3
  <2> QED BY <2>1, <1>1, <1>3 DEF After, Addr
<1> QED BY <1>1, <1>2, <1>3

LEMMA OpsFacts ==
  /\ \A o \in Ops : /\ o.cmd \in {"r1", "r2", "w1", "w2"} /\ o.addr \in Addr
                    /\ o.lo \in Byte /\ o.hi \in Byte /\ o # NoCmd
  /\ NoCmd.cmd = "none" /\ NoCmd.addr \in Addr
  /\ NoCmd.lo \in Byte /\ NoCmd.hi \in Byte
<1>1. 0 \in Addr /\ 0 \in Byte
  BY MemOpsAssumption DEF Addr
<1>2. \A o \in Ops : /\ o.cmd \in {"r1", "r2", "w1", "w2"} /\ o.addr \in Addr
                     /\ o.lo \in Byte /\ o.hi \in Byte
  BY <1>1 DEF Ops, Reads
<1>3. NoCmd.cmd = "none" /\ NoCmd.addr \in Addr /\ NoCmd.lo \in Byte /\ NoCmd.hi \in Byte
  BY <1>1 DEF NoCmd
<1> QED BY <1>2, <1>3

LEMMA WordsFacts ==
  \A w \in Words : /\ w.addr \in Addr /\ w.lo \in Byte /\ w.hi \in Byte
                   /\ w.cmd \in {"r1", "r2", "w1", "w2", "none"}
                   /\ w.cmd = "none" <=> w = NoCmd
                   /\ w \in Ops <=> w # NoCmd
BY OpsFacts DEF Words
-----------------------------------------------------------------------------
\* An edge keeps the registers of the fabric in their types.
FabricTypeOK == /\ mem \in [Addr -> Byte] /\ mem_out \in Byte /\ state \in States
                /\ mem_addr \in Addr /\ mem_w_nr \in BOOLEAN /\ mem_in \in Byte
                /\ dout1 \in Byte /\ dout2 \in Byte /\ to_HPS \in Status
                /\ resets \in 0 .. MaxResets

LEMMA FabricTypes == ASSUME TypeOK, Fabric PROVE FabricTypeOK'
<1> USE DEF TypeOK
<1>1. from_HPS.addr \in Addr /\ After(from_HPS.addr) \in Addr
      /\ from_HPS.lo \in Byte /\ from_HPS.hi \in Byte
  BY WordsFacts, AfterAddr
<1>2. state' \in States
  <2>1. from_HPS.cmd \in {"r1", "r2", "w1", "w2", "none"}
    BY WordsFacts
  <2> QED BY <2>1 DEF Fabric, next_state_control, States, FirstState, NextState
<1>3. mem_addr' \in Addr /\ mem_w_nr' \in BOOLEAN /\ mem_in' \in Byte
  BY <1>1 DEF Fabric, mem_control
<1>4. dout1' \in Byte /\ dout2' \in Byte
  BY DEF Fabric, mem_control
<1>5. mem' \in [Addr -> Byte] /\ mem_out' \in Byte
  BY DEF Fabric, char_mem_port1
<1>6. to_HPS' \in Status
  BY DEF Fabric, to_HPS_port, Status
<1> QED BY <1>2, <1>3, <1>4, <1>5, <1>6 DEF Fabric, FabricTypeOK

LEMMA InitTypeOK == Init => TypeOK
<1>1. 0 \in Addr /\ 0 \in Byte
  BY MemOpsAssumption DEF Addr
<1>2. Init => /\ state \in States /\ from_HPS \in Words /\ to_HPS \in Status
              /\ pc \in PCs /\ call \in Words /\ result \in Byte \X Byte
  BY <1>1 DEF Init, States, Words, Status, PCs
<1>3. Init => resets \in 0 .. MaxResets
  BY MemControllerAssumption DEF Init
<1>4. Init => /\ mem \in [Addr -> Byte] /\ mem_out \in Byte /\ mem_addr \in Addr
              /\ mem_w_nr \in BOOLEAN /\ mem_in \in Byte /\ dout1 \in Byte
              /\ dout2 \in Byte /\ hit \in BOOLEAN
  BY <1>1 DEF Init
<1> QED BY <1>2, <1>3, <1>4 DEF TypeOK

LEMMA NextTypeOK == TypeOK /\ [Next]_vars => TypeOK'
<1> SUFFICES ASSUME TypeOK, [Next]_vars PROVE TypeOK'
  OBVIOUS
<1>0. 0 \in Addr /\ 0 \in Byte
  BY MemOpsAssumption DEF Addr
<1>1. ASSUME NEW o \in Ops, Issue(o) PROVE TypeOK'
  BY <1>1, FabricTypes DEF Issue, TypeOK, FabricTypeOK, PCs, Words
<1>2. CASE Poll
  BY <1>2, FabricTypes DEF Poll, TypeOK, FabricTypeOK, PCs
<1>3. CASE SampleBusy
  BY <1>3, FabricTypes DEF SampleBusy, TypeOK, FabricTypeOK, PCs
<1>4. CASE SampleWritten
  BY <1>4, FabricTypes DEF SampleWritten, TypeOK, FabricTypeOK, PCs, Words
<1>5. CASE SampleRead
  BY <1>5, FabricTypes DEF SampleRead, TypeOK, FabricTypeOK, PCs
<1>6. CASE Collect
  BY <1>6, FabricTypes DEF Collect, TypeOK, FabricTypeOK, PCs
<1>7. CASE Take
  <2>1. to_HPS.lo \in Byte /\ to_HPS.hi \in Byte
    BY DEF TypeOK, Status
  <2>2. result' \in Byte \X Byte
    BY <1>7, <2>1, <1>0, Zenon DEF Take
  <2> QED BY <1>7, <2>2, FabricTypes DEF Take, TypeOK, FabricTypeOK, PCs, Words
<1>8. CASE Release
  BY <1>8, FabricTypes DEF Release, TypeOK, FabricTypeOK, PCs, Words
<1>9. CASE Stall
  BY <1>9, FabricTypes DEF Stall, TypeOK, FabricTypeOK, hps
<1>10. CASE Crash
  BY <1>10 DEF Crash, TypeOK, ctl, PCs
<1>11. CASE Boot
  BY <1>11, FabricTypes DEF Boot, TypeOK, FabricTypeOK, PCs, Words
<1>12. CASE Reset
  <2>1. resets' \in 0 .. MaxResets
    BY <1>12, MemControllerAssumption DEF Reset, TypeOK
  <2>2. /\ state' \in States /\ mem_addr' \in Addr /\ mem_w_nr' \in BOOLEAN
        /\ mem_in' \in Byte /\ dout1' \in Byte /\ dout2' \in Byte /\ hit' \in BOOLEAN
    BY <1>12, <1>0 DEF Reset, States
  <2>3. from_HPS' \in Words /\ to_HPS' \in Status
    BY <1>12, <1>0 DEF Reset, Words, Status
  <2>4. /\ mem' \in [Addr -> Byte] /\ mem_out' \in Byte /\ pc' \in PCs
        /\ call' \in Words /\ result' \in Byte \X Byte
    BY <1>12 DEF Reset, hps, TypeOK
  <2> QED BY <2>1, <2>2, <2>3, <2>4 DEF TypeOK
<1>13. CASE UNCHANGED vars
  BY <1>13 DEF vars, ctl, hps, TypeOK
<1> QED BY <1>1, <1>2, <1>3, <1>4, <1>5, <1>6, <1>7, <1>8, <1>9, <1>10, <1>11, <1>12, <1>13
        DEF Next, Driver

\* Every register, port and driver variable stays in its type (a byte, an
\* address of the memory, a state of the machine).
THEOREM TypeCorrect == Spec => []TypeOK
<1>1. Init => TypeOK
  BY InitTypeOK
<1>2. TypeOK /\ [Next]_vars => TypeOK'
  BY NextTypeOK
<1> QED BY <1>1, <1>2, PTL DEF Spec
-----------------------------------------------------------------------------
\* The machine is working on the command word of the call, and on none other.
LEMMA MachineWord ==
  ASSUME TypeOK, WordInv, StateInv, state \notin {"idle", "op_cplt"}
  PROVE  from_HPS = call /\ call \in Ops
BY WordsFacts, OpsFacts DEF TypeOK, WordInv, States

\* What an edge does to the state of the machine while the command word stands.
LEMMA EdgeStates ==
  ASSUME TypeOK, WordInv, StateInv, Fabric
  PROVE  /\ state = "idle" /\ from_HPS = NoCmd => state' = "idle"
         /\ state = "idle" /\ from_HPS # NoCmd =>
               /\ state' \in {"r1_1", "r2_1", "w1_1", "w2_1"}
               /\ state' = "r1_1" => from_HPS.cmd = "r1"
               /\ state' = "r2_1" => from_HPS.cmd = "r2"
               /\ state' = "w1_1" => from_HPS.cmd = "w1"
               /\ state' = "w2_1" => from_HPS.cmd = "w2"
         /\ state = "op_cplt" /\ from_HPS = NoCmd => state' = "idle"
         /\ state = "op_cplt" /\ from_HPS # NoCmd => state' = "op_cplt"
         /\ state \in {"r1_3", "r2_4", "w1_2", "w2_3"} => state' = "op_cplt"
         /\ state \in {"r1_1", "r1_2", "r2_1", "r2_2", "r2_3", "w1_1", "w2_1", "w2_2"} =>
               state' = NextState[state]
         /\ to_HPS'.cplt <=> state = "op_cplt"
<1>1. from_HPS.cmd = "none" <=> from_HPS = NoCmd
  BY WordsFacts DEF TypeOK
<1>2. from_HPS.cmd \in {"r1", "r2", "w1", "w2", "none"}
  BY WordsFacts DEF TypeOK
<1>3. to_HPS'.cplt <=> state = "op_cplt"
  BY DEF Fabric, to_HPS_port
<1> QED BY <1>1, <1>2, <1>3 DEF Fabric, next_state_control, FirstState, NextState

\* An edge at which neither the command word nor the call changes.
QuietMove == \/ pc' = pc
             \/ pc = "poll" /\ pc' = "sample"
             \/ pc = "sample" /\ ~to_HPS.cplt /\ pc' = "poll"
             \/ pc = "sample" /\ to_HPS.cplt /\ call.cmd \in Reads /\ pc' = "collect"
             \/ pc = "collect" /\ pc' = "take"

LEMMA QuietEdgeWord ==
  ASSUME TypeOK, WordInv, StateInv, Fabric, QuietMove,
         call' = call, from_HPS' = from_HPS, hit' = hit
  PROVE  WordInv' /\ StateInv'
<1> USE DEF WordInv, StateInv, QuietMove
<1>0. /\ from_HPS.cmd = "none" <=> from_HPS = NoCmd
      /\ call \in Ops <=> call # NoCmd
  BY WordsFacts DEF TypeOK
<1>1. WordInv'
  BY <1>0, EdgeStates DEF TypeOK, States, Busy, NextState
<1>2. StateInv'
  BY <1>0, EdgeStates DEF TypeOK, States, Busy, NextState
<1> QED BY <1>1, <1>2

\* The bytes of the call move towards the memory, or out of it.
LEMMA QuietEdgeData ==
  ASSUME TypeOK, WordInv, StateInv, DataInv, DoneInv, Fabric,
         call' = call, from_HPS' = from_HPS
  PROVE  DataInv' /\ DoneInv'
<1> USE DEF DataInv
<1>0. /\ from_HPS.cmd = "none" <=> from_HPS = NoCmd
      /\ from_HPS \in Words /\ call \in Words
  BY WordsFacts DEF TypeOK
<1>1. CASE state = "idle"
  BY <1>0, <1>1, EdgeStates, WordsFacts DEF Fabric, mem_control, char_mem_port1, DoneInv
<1>2. CASE state = "op_cplt"
  <2>1. ~mem_w_nr /\ mem' = mem /\ ~mem_w_nr' /\ dout1' = dout1 /\ dout2' = dout2
    BY <1>2 DEF Fabric, mem_control, char_mem_port1
  <2> QED BY <1>0, <1>2, <2>1, EdgeStates DEF DoneInv
<1>3. CASE state \notin {"idle", "op_cplt"}
  <2>1. /\ from_HPS = call /\ call \in Ops /\ call # NoCmd
        /\ call.addr \in Addr /\ After(call.addr) \in Addr /\ After(call.addr) # call.addr
    BY <1>3, MachineWord, OpsFacts, AfterAddr
  <2>2. mem \in [Addr -> Byte]
    BY DEF TypeOK
  <2>3. CASE state \in {"w1_1", "w1_2"}
    BY <2>1, <2>2, <2>3, EdgeStates
       DEF Fabric, mem_control, char_mem_port1, NextState, DoneInv, StateInv, Writes, Reads
  <2>4. CASE state \in {"w2_1", "w2_2", "w2_3"}
    BY <2>1, <2>2, <2>4, EdgeStates
       DEF Fabric, mem_control, char_mem_port1, NextState, DoneInv, StateInv, Writes, Reads
  <2>5. CASE state \in {"r1_1", "r1_2", "r1_3"}
    BY <2>1, <2>2, <2>5, EdgeStates
       DEF Fabric, mem_control, char_mem_port1, NextState, DoneInv, StateInv, Writes, Reads
  <2>6. CASE state \in {"r2_1", "r2_2", "r2_3", "r2_4"}
    BY <2>1, <2>2, <2>6, EdgeStates
       DEF Fabric, mem_control, char_mem_port1, NextState, DoneInv, StateInv, Writes, Reads
  <2> QED BY <1>3, <2>3, <2>4, <2>5, <2>6 DEF TypeOK, States
<1> QED BY <1>1, <1>2, <1>3

\* At an edge where the machine is idle or has completed, nothing is stored.
LEMMA RestingEdge ==
  ASSUME TypeOK, WordInv, StateInv, DataInv, Fabric, state \in {"idle", "op_cplt"}
  PROVE  /\ mem' = mem /\ ~mem_w_nr /\ ~mem_w_nr'
         /\ dout1' = dout1 /\ dout2' = dout2
         /\ to_HPS'.lo = dout1 /\ to_HPS'.hi = dout2
BY DEF DataInv, Fabric, mem_control, char_mem_port1, to_HPS_port
-----------------------------------------------------------------------------
LEMMA InitIInv == Init => IInv
<1> SUFFICES ASSUME Init PROVE IInv
  OBVIOUS
<1>1. TypeOK
  BY InitTypeOK
<1>2. NoCmd.cmd = "none"
  BY OpsFacts
<1> QED BY <1>1, <1>2
        DEF Init, IInv, WordInv, StateInv, DataInv, DoneInv, TakeInv, Busy, Reads, Writes

LEMMA NextIInv == IInv /\ [Next]_vars => IInv'
<1> SUFFICES ASSUME IInv, [Next]_vars PROVE IInv'
  OBVIOUS
<1> USE DEF IInv
<1>0. TypeOK' /\ call \in Words /\ from_HPS \in Words
  BY NextTypeOK DEF TypeOK
<1>1. ASSUME NEW o \in Ops, Issue(o) PROVE IInv'
  <2>1. state \in {"idle", "op_cplt"} /\ from_HPS = NoCmd /\ call = NoCmd
    BY <1>1 DEF Issue, WordInv
  <2>2. state' = "idle" /\ o # NoCmd
    BY <1>1, <2>1, EdgeStates, OpsFacts DEF Issue
  <2>3. WordInv' /\ StateInv'
    BY <1>1, <2>2 DEF Issue, WordInv, StateInv, Busy
  <2>4. DataInv' /\ DoneInv' /\ TakeInv'
    BY <1>1, <2>1, <2>2, RestingEdge DEF Issue, DataInv, DoneInv, TakeInv
  <2> QED BY <1>0, <2>3, <2>4
<1>2. CASE Poll
  <2>1. WordInv' /\ StateInv' /\ DataInv' /\ DoneInv'
    BY <1>2, QuietEdgeWord, QuietEdgeData DEF Poll, QuietMove
  <2> QED BY <1>0, <1>2, <2>1 DEF Poll, TakeInv
<1>3. CASE SampleBusy
  <2>1. WordInv' /\ StateInv' /\ DataInv' /\ DoneInv'
    BY <1>3, QuietEdgeWord, QuietEdgeData DEF SampleBusy, QuietMove
  <2> QED BY <1>0, <1>3, <2>1 DEF SampleBusy, TakeInv
<1>4. CASE SampleWritten
  <2>1. state = "op_cplt" /\ from_HPS = call /\ from_HPS # NoCmd
    BY <1>4, OpsFacts DEF SampleWritten, StateInv, WordInv, Busy
  <2>2. state' = "op_cplt" /\ from_HPS' # NoCmd
    BY <1>4, <2>1, EdgeStates DEF SampleWritten
  <2>3. WordInv' /\ StateInv'
    BY <1>4, <2>2 DEF SampleWritten, WordInv, StateInv, Busy
  <2>4. DataInv' /\ DoneInv' /\ TakeInv'
    BY <1>4, <2>1, <2>2, RestingEdge DEF SampleWritten, DataInv, DoneInv, TakeInv
  <2> QED BY <1>0, <2>3, <2>4
<1>5. CASE SampleRead
  <2>1. WordInv' /\ StateInv' /\ DataInv' /\ DoneInv'
    BY <1>5, QuietEdgeWord, QuietEdgeData DEF SampleRead, QuietMove
  <2> QED BY <1>0, <1>5, <2>1 DEF SampleRead, TakeInv
<1>6. CASE Collect
  <2>1. WordInv' /\ StateInv' /\ DataInv' /\ DoneInv'
    BY <1>6, QuietEdgeWord, QuietEdgeData DEF Collect, QuietMove
  <2>2. TakeInv'
    <3> SUFFICES ASSUME ~hit PROVE TakeInv'
      BY <1>6 DEF Collect, TakeInv
    <3>1. from_HPS = call /\ state = "op_cplt" /\ call.cmd \in Reads
      BY <1>6 DEF Collect, WordInv, StateInv, Busy
    <3> QED BY <1>6, <3>1, RestingEdge DEF Collect, TakeInv, DoneInv
  <2> QED BY <1>0, <2>1, <2>2
<1>7. CASE Take
  <2>1. call # NoCmd
    BY <1>7, OpsFacts DEF Take, WordInv, Busy
  <2>2. \/ from_HPS = NoCmd /\ state = "idle"
        \/ from_HPS # NoCmd /\ state = "op_cplt"
    BY <1>7 DEF Take, WordInv, StateInv, Busy
  <2>3. \/ from_HPS' = NoCmd /\ state' = "idle"
        \/ from_HPS' # NoCmd /\ state' = "op_cplt"
    BY <1>7, <2>2, EdgeStates DEF Take
  <2>4. WordInv' /\ StateInv'
    BY <1>7, <2>3 DEF Take, WordInv, StateInv, Busy
  <2>5. DataInv' /\ DoneInv' /\ TakeInv'
    BY <1>7, <2>2, <2>3, RestingEdge DEF Take, DataInv, DoneInv, TakeInv
  <2> QED BY <1>0, <2>4, <2>5
<1>8. CASE Release
  <2>1. state \in {"idle", "op_cplt"} /\ (state = "idle" => from_HPS = NoCmd)
    BY <1>8 DEF Release, WordInv, StateInv
  <2>2. state' \in {"idle", "op_cplt"}
    BY <2>1, <1>8, EdgeStates DEF Release
  <2>3. WordInv' /\ StateInv'
    BY <1>8, <2>2 DEF Release, WordInv, StateInv, Busy
  <2>4. DataInv' /\ DoneInv' /\ TakeInv'
    BY <1>8, <2>1, <2>2, RestingEdge, OpsFacts
       DEF Release, DataInv, DoneInv, TakeInv, WordInv, Reads, Writes
  <2> QED BY <1>0, <2>3, <2>4
<1>9. CASE Stall
  <2>1. WordInv' /\ StateInv' /\ DataInv' /\ DoneInv'
    BY <1>9, QuietEdgeWord, QuietEdgeData DEF Stall, hps, QuietMove
  <2>2. TakeInv'
    <3> SUFFICES ASSUME pc = "take", ~hit PROVE TakeInv'
      BY <1>9 DEF Stall, hps, TakeInv
    <3>1. from_HPS = call /\ state = "op_cplt" /\ call.cmd \in Reads
      BY DEF WordInv, StateInv, Busy
    <3> QED BY <1>9, <3>1, RestingEdge DEF Stall, hps, TakeInv, DoneInv
  <2> QED BY <1>0, <2>1, <2>2
<1>10. CASE Crash
  BY <1>0, <1>10 DEF Crash, ctl, WordInv, StateInv, DataInv, DoneInv, TakeInv, Busy
<1>11. CASE Boot
  <2>1. state \in {"idle", "op_cplt"} /\ (state = "idle" => from_HPS = NoCmd)
    BY <1>11, WordsFacts DEF Boot, Settled, TypeOK
  <2>2. state' \in {"idle", "op_cplt"}
    BY <1>11, <2>1, EdgeStates DEF Boot
  <2>3. WordInv' /\ StateInv'
    BY <1>11, <2>2 DEF Boot, WordInv, StateInv, Busy
  <2>4. DataInv' /\ DoneInv' /\ TakeInv'
    BY <1>11, <2>1, <2>2, RestingEdge, OpsFacts
       DEF Boot, DataInv, DoneInv, TakeInv, Reads, Writes
  <2> QED BY <1>0, <2>3, <2>4
<1>12. CASE Reset
  BY <1>0, <1>12 DEF Reset, hps, WordInv, StateInv, DataInv, DoneInv, TakeInv, Busy
<1>13. CASE UNCHANGED vars
  BY <1>0, <1>13 DEF vars, ctl, hps, WordInv, StateInv, DataInv, DoneInv, TakeInv
<1> QED BY <1>1, <1>2, <1>3, <1>4, <1>5, <1>6, <1>7, <1>8, <1>9, <1>10, <1>11, <1>12, <1>13
        DEF Next, Driver

\* The inductive invariant holds in every reachable state.
LEMMA InvariantHolds == Spec => []IInv
<1> QED BY InitIInv, NextIInv, PTL DEF Spec

\* A driver that samples the completion flag high is looking at its own
\* command's: the flag of the command before has been withdrawn by then.
THEOREM FlagCurrent == Spec => []FlagIsCurrent
<1>1. IInv => FlagIsCurrent
  <2> SUFFICES ASSUME IInv, pc = "sample", to_HPS.cplt
               PROVE  state = "op_cplt" /\ from_HPS = call
    BY DEF FlagIsCurrent
  <2> QED BY DEF IInv, WordInv, StateInv, Busy
<1> QED BY <1>1, InvariantHolds, PTL

\* The command word is the one of the call until the machine has used it.
THEOREM WordHeld == Spec => []WordIsHeld
<1>1. IInv => WordIsHeld
  <2> SUFFICES ASSUME IInv, state \in {"w1_1", "w2_1", "w2_2", "r1_1", "r2_1", "r2_2"}
               PROVE  from_HPS = call /\ call # NoCmd
    BY DEF WordIsHeld
  <2>1. from_HPS = call /\ call \in Ops
    BY MachineWord DEF IInv
  <2> QED BY <2>1, OpsFacts
<1> QED BY <1>1, InvariantHolds, PTL
-----------------------------------------------------------------------------
\* The commands, the addresses and the stores of the two levels are the same.
LEMMA SameOps == /\ Atomic!Addr = Addr /\ Atomic!Ops = Ops /\ Atomic!NoCmd = NoCmd
                 /\ Atomic!Reads = Reads /\ Atomic!Writes = Writes
                 /\ \A a : Atomic!After(a) = After(a)
                 /\ \A o : Atomic!Stores(o) = Stores(o)
<1>1. Atomic!Addr = Addr /\ Atomic!Reads = Reads /\ Atomic!Writes = Writes
      /\ Atomic!NoCmd = NoCmd
  BY DEF Atomic!Addr, Addr, Atomic!Reads, Reads, Atomic!Writes, Writes, Atomic!NoCmd, NoCmd
<1>2. Atomic!Ops = Ops
  BY <1>1, Zenon DEF Atomic!Ops, Ops
<1>3. \A a : Atomic!After(a) = After(a)
  BY Zenon DEF Atomic!After, After
<1>4. \A o : Atomic!Stores(o) = Stores(o)
  BY <1>3, Zenon DEF Atomic!Stores, Stores
<1> QED BY <1>1, <1>2, <1>3, <1>4

\* What an edge stores is a byte of the call in progress.
LEMMA EdgeStores ==
  ASSUME IInv, Fabric
  PROVE  \/ mem' = mem
         \/ \E s \in Stores(call) : mem' = [mem EXCEPT ![s[1]] = s[2]]
<1> USE DEF IInv
<1>1. CASE ~mem_w_nr
  BY <1>1 DEF Fabric, char_mem_port1
<1>2. CASE mem_w_nr
  <2>1. state \in {"w1_2", "w2_2", "w2_3"} /\ mem' = [mem EXCEPT ![mem_addr] = mem_in]
    BY <1>2 DEF DataInv, Fabric, char_mem_port1
  <2>2. from_HPS = call
    BY <2>1, MachineWord
  <2> SUFFICES <<mem_addr, mem_in>> \in Stores(call)
    <3> DEFINE s == <<mem_addr, mem_in>>
    <3>1. s[1] = mem_addr /\ s[2] = mem_in
      OBVIOUS
    <3>2. mem' = [mem EXCEPT ![s[1]] = s[2]]
      BY <2>1, <3>1
    <3> QED BY <3>2, Zenon
  <2>3. CASE state = "w1_2"
    <3>1. Stores(call) = {<<call.addr, call.lo>>}
      BY <2>2, <2>3 DEF StateInv, Stores
    <3> QED BY <2>3, <3>1 DEF DataInv
  <2>4. CASE state \in {"w2_2", "w2_3"}
    <3>1. Stores(call) = {<<call.addr, call.lo>>, <<After(call.addr), call.hi>>}
      BY <2>2, <2>4 DEF StateInv, Stores
    <3>2. CASE state = "w2_2"
      BY <3>1, <3>2 DEF DataInv
    <3>3. CASE state = "w2_3"
      BY <3>1, <3>3 DEF DataInv
    <3> QED BY <2>4, <3>2, <3>3
  <2> QED BY <2>1, <2>3, <2>4
<1> QED BY <1>1, <1>2 DEF TypeOK

\* An edge at which the call stays as it is stores a byte of it, or stutters.
LEMMA QuietEdgeStep ==
  ASSUME IInv, Fabric, call' = call, result' = result, hit' = hit,
         (pc' = "boot") = (pc = "boot")
  PROVE  [Atomic!ANext]_Atomic!avars
<1>1. CASE mem' = mem
  <2>1. UNCHANGED Atomic!avars
    BY <1>1 DEF Atomic!avars
  <2> QED BY <2>1
<1>2. CASE \E s \in Stores(call) : mem' = [mem EXCEPT ![s[1]] = s[2]]
  <2>1. Atomic!Store
    BY <1>2, SameOps DEF Atomic!Store
  <2> QED BY <2>1 DEF Atomic!ANext
<1> QED BY <1>1, <1>2, EdgeStores

LEMMA InitAbstract == Init => Atomic!AInit
BY SameOps DEF Init, Atomic!AInit

\* Every step of the handshake is a step of AtomicMem, or changes nothing of it.
LEMMA StepAbstract == IInv /\ [Next]_vars => [Atomic!ANext]_Atomic!avars
<1> SUFFICES ASSUME IInv, [Next]_vars PROVE [Atomic!ANext]_Atomic!avars
  OBVIOUS
<1> USE DEF IInv
<1>1. ASSUME NEW o \in Ops, Issue(o) PROVE Atomic!ANext
  <2>1. call = NoCmd /\ mem' = mem
    BY <1>1, RestingEdge DEF Issue, WordInv
  <2>2. Atomic!Call(o)
    BY <1>1, <2>1, SameOps DEF Issue, Atomic!Call
  <2> QED BY <2>2, SameOps DEF Atomic!ANext
<1>2. CASE Poll
  BY <1>2, QuietEdgeStep DEF Poll
<1>3. CASE SampleBusy
  BY <1>3, QuietEdgeStep DEF SampleBusy
<1>4. CASE SampleWritten
  <2>1. state = "op_cplt" /\ from_HPS = call
    BY <1>4, OpsFacts DEF SampleWritten, StateInv, WordInv, Busy
  <2>2. mem' = mem
    BY <1>4, <2>1, RestingEdge DEF SampleWritten
  <2>3. \A s \in Stores(call) : mem[s[1]] = s[2]
    BY <1>4, <2>1 DEF SampleWritten, DoneInv, Stores, Writes
  <2>4. Atomic!ReturnWrite
    BY <1>4, <2>2, <2>3, SameOps DEF SampleWritten, Atomic!ReturnWrite
  <2> QED BY <2>4 DEF Atomic!ANext
<1>5. CASE SampleRead
  BY <1>5, QuietEdgeStep DEF SampleRead
<1>6. CASE Collect
  BY <1>6, QuietEdgeStep DEF Collect
<1>7. CASE Take
  <2>1. state \in {"idle", "op_cplt"} /\ call.cmd \in Reads
    BY <1>7 DEF Take, WordInv, StateInv, Busy
  <2>2. mem' = mem
    BY <1>7, <2>1, RestingEdge DEF Take
  <2>3. ~hit => result' = <<mem[call.addr],
                            IF call.cmd = "r2" THEN mem[After(call.addr)] ELSE 0>>
    BY <1>7 DEF Take, TakeInv
  <2>4. result' \in Byte \X Byte
    BY NextTypeOK DEF TypeOK
  <2>5. Atomic!ReturnRead
    BY <1>7, <2>1, <2>2, <2>3, <2>4, SameOps DEF Take, Atomic!ReturnRead
  <2> QED BY <2>5 DEF Atomic!ANext
<1>8. CASE Release
  BY <1>8, QuietEdgeStep DEF Release
<1>9. CASE Stall
  BY <1>9, QuietEdgeStep DEF Stall, hps
<1>10. CASE Crash
  <2>1. Atomic!Kill
    BY <1>10 DEF Crash, Atomic!Kill
  <2> QED BY <2>1 DEF Atomic!ANext
<1>11. CASE Boot
  <2>1. mem' = mem
    BY <1>11, RestingEdge DEF Boot, Settled
  <2>2. Atomic!Restart
    BY <1>11, <2>1, SameOps DEF Boot, Atomic!Restart
  <2> QED BY <2>2 DEF Atomic!ANext
<1>12. CASE Reset
  <2>1. Atomic!Disturb
    BY <1>12 DEF Reset, hps, Atomic!Disturb
  <2> QED BY <2>1 DEF Atomic!ANext
<1>13. CASE UNCHANGED vars
  BY <1>13 DEF vars, ctl, hps, Atomic!avars
<1> QED BY <1>1, <1>2, <1>3, <1>4, <1>5, <1>6, <1>7, <1>8, <1>9, <1>10, <1>11, <1>12, <1>13
        DEF Next, Driver

\* The driver functions, the ports, the state machine and the memory together
\* implement AtomicMem: a write that has returned is in the memory, a read
\* returns what is there, and nothing else is ever stored.
THEOREM Implements == Spec => AtomicMemory
<1>1. Init => Atomic!AInit
  BY InitAbstract
<1>2. IInv /\ [Next]_vars => [Atomic!ANext]_Atomic!avars
  BY StepAbstract
<1>3. Spec => [][Atomic!ANext]_Atomic!avars
  BY <1>2, InvariantHolds, PTL DEF Spec
<1> QED BY <1>1, <1>3, PTL DEF Spec, AtomicMemory, Atomic!ASpec
=============================================================================
