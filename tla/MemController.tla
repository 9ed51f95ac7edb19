--------------------------- MODULE MemController ---------------------------
(***************************************************************************)
(* The path from the processor (HPS) to the character memory, clock edge   *)
(* by clock edge: the driver functions write_8b, write_16b, read_8b and    *)
(* read_16b of main.c, the two 32-bit parallel ports from_hps and to_hps,  *)
(* the state machine of Mem_Controller.v and port 1 of the memory.         *)
(*                                                                         *)
(* All the registers of the fabric change at the same edge: that is        *)
(* Fabric, a conjunct of every action.  The driver makes at most one bus   *)
(* access at an edge; a write takes one cycle and a read two (one wait     *)
(* cycle, in which to_hps registers its input).  Stall is an edge at which *)
(* the driver does nothing, so between two accesses any number of edges    *)
(* may pass.                                                               *)
(***************************************************************************)
EXTENDS MemOps

CONSTANT MaxResets  \* bound on the presses of KEY[0]

ASSUME MemControllerAssumption == MaxResets \in Nat

VARIABLES
    \* Mem_Controller.v
    state,     \* of the state machine
    mem_addr, mem_w_nr, mem_in, dout1, dout2,
    \* the memory, and the output register of its port 1
    mem, mem_out,
    \* the parallel ports: the command word, and the registered status word
    from_HPS, to_HPS,
    \* the driver in main.c: the bus access it makes next, the call it is in
    \* (or NoCmd) and the bytes the last read returned, low one first
    pc, call, result,
    \* KEY[0]: whether it was pressed since the call began, and how often
    hit, resets

ctl == <<state, mem_addr, mem_w_nr, mem_in, dout1, dout2>>
hps == <<pc, call, result>>
vars == <<mem, mem_out, ctl, from_HPS, to_HPS, hps, hit, resets>>
-----------------------------------------------------------------------------
States == {"idle", "r1_1", "r1_2", "r1_3", "r2_1", "r2_2", "r2_3", "r2_4",
           "w1_1", "w1_2", "w2_1", "w2_2", "w2_3", "op_cplt"}
PCs    == {"idle", "poll", "sample", "collect", "take", "release", "boot"}
Words  == Ops \cup {NoCmd}
Status == [cplt : BOOLEAN, lo : Byte, hi : Byte]

\* Mutants: the machine skips the second byte of a write; it forgets op_cplt.
NextState_Short == [r1_1 |-> "r1_2", r1_2 |-> "r1_3", r1_3 |-> "op_cplt",
                    r2_1 |-> "r2_2", r2_2 |-> "r2_3", r2_3 |-> "r2_4", r2_4 |-> "op_cplt",
                    w1_1 |-> "w1_2", w1_2 |-> "op_cplt",
                    w2_1 |-> "w2_3", w2_2 |-> "w2_3", w2_3 |-> "op_cplt"]
NextState_NoFlag == [r1_1 |-> "r1_2", r1_2 |-> "r1_3", r1_3 |-> "op_cplt",
                     r2_1 |-> "r2_2", r2_2 |-> "r2_3", r2_3 |-> "r2_4", r2_4 |-> "op_cplt",
                     w1_1 |-> "w1_2", w1_2 |-> "idle",
                     w2_1 |-> "w2_2", w2_2 |-> "w2_3", w2_3 |-> "op_cplt"]

\* The state in which each command starts, and the state after each state.
FirstState == [r1 |-> "r1_1", r2 |-> "r2_1", w1 |-> "w1_1", w2 |-> "w2_1"]
NextState  == [r1_1 |-> "r1_2", r1_2 |-> "r1_3", r1_3 |-> "op_cplt",
               r2_1 |-> "r2_2", r2_2 |-> "r2_3", r2_3 |-> "r2_4", r2_4 |-> "op_cplt",
               w1_1 |-> "w1_2", w1_2 |-> "op_cplt",
               w2_1 |-> "w2_2", w2_2 |-> "w2_3", w2_3 |-> "op_cplt"]
-----------------------------------------------------------------------------
\* One edge of CLOCK_50.  cmd, addr, din1 and din2 are read from the command
\* word as it is at the edge: the machine keeps no copy of it.

\* Mutant: a command is executed again while its word is there.
next_state_control_Again ==
    state' = CASE state \in {"idle", "op_cplt"} /\ from_HPS.cmd = "none" -> "idle"
               [] state \in {"idle", "op_cplt"} /\ from_HPS.cmd # "none" -> FirstState[from_HPS.cmd]
               [] OTHER -> NextState[state]

next_state_control ==
    state' = CASE state = "idle" /\ from_HPS.cmd = "none"    -> "idle"
               [] state = "idle" /\ from_HPS.cmd # "none"    -> FirstState[from_HPS.cmd]
               [] state = "op_cplt" /\ from_HPS.cmd = "none" -> "idle"
               [] state = "op_cplt" /\ from_HPS.cmd # "none" -> "op_cplt"
               [] OTHER                                      -> NextState[state]

mem_control ==
    /\ mem_addr' = CASE state \in {"r1_1", "r2_1", "w1_1", "w2_1"} -> from_HPS.addr
                     [] state \in {"r2_2", "w2_2"}                 -> After(from_HPS.addr)
                     [] OTHER                                      -> mem_addr
    /\ mem_w_nr' = CASE state \in {"w1_1", "w2_1"}                 -> TRUE
                     [] state \in {"r1_1", "r2_1", "w1_2", "w2_3"} -> FALSE
                     [] OTHER                                      -> mem_w_nr
    /\ mem_in' = CASE state \in {"w1_1", "w2_1"} -> from_HPS.lo
                   [] state = "w2_2"             -> from_HPS.hi
                   [] OTHER                      -> mem_in
    /\ dout1' = IF state \in {"r1_3", "r2_3"} THEN mem_out ELSE dout1
    /\ dout2' = IF state = "r2_4" THEN mem_out ELSE dout2

\* Port 1 of the memory registers its inputs; a write is also read back.
char_mem_port1 ==
    /\ mem' = IF mem_w_nr THEN [mem EXCEPT ![mem_addr] = mem_in] ELSE mem
    /\ mem_out' = IF mem_w_nr THEN mem_in ELSE mem[mem_addr]

\* The input port registers op_cplt_flag, dout1 and dout2.
to_HPS_port == to_HPS' = [cplt |-> state = "op_cplt", lo |-> dout1, hi |-> dout2]

Fabric == /\ next_state_control
          /\ mem_control
          /\ char_mem_port1
          /\ to_HPS_port
          /\ UNCHANGED resets
-----------------------------------------------------------------------------
\* The driver.  pc names the bus access it makes next.

\* Mutant: the first sample is of the status word at the edge of the command.
Issue_NoWait(o) == /\ pc = "idle"
                   /\ pc' = "sample"
                   /\ call' = o
                   /\ from_HPS' = o
                   /\ hit' = FALSE
                   /\ Fabric
                   /\ UNCHANGED result

Issue(o) == /\ pc = "idle"
            /\ pc' = "poll"
            /\ call' = o
            /\ from_HPS' = o
            /\ hit' = FALSE
            /\ Fabric
            /\ UNCHANGED result

\* while (!op_completed()): the wait cycle of the read, then its data.
Poll == /\ pc = "poll"
        /\ pc' = "sample"
        /\ Fabric
        /\ UNCHANGED <<call, result, from_HPS, hit>>

SampleBusy == /\ pc = "sample"
              /\ ~to_HPS.cplt
              /\ pc' = "poll"
              /\ Fabric
              /\ UNCHANGED <<call, result, from_HPS, hit>>

SampleWritten == /\ pc = "sample"
                 /\ to_HPS.cplt
                 /\ call.cmd \in Writes
                 /\ pc' = "release"
                 /\ call' = NoCmd
                 /\ Fabric
                 /\ UNCHANGED <<result, from_HPS, hit>>

SampleRead == /\ pc = "sample"
              /\ to_HPS.cplt
              /\ call.cmd \in Reads
              /\ pc' = "collect"
              /\ Fabric
              /\ UNCHANGED <<call, result, from_HPS, hit>>

\* A second read of to_hps takes the data: wait cycle, then & 0xFF or & 0xFFFF.
Collect == /\ pc = "collect"
           /\ pc' = "take"
           /\ Fabric
           /\ UNCHANGED <<call, result, from_HPS, hit>>

Take == /\ pc = "take"
        /\ pc' = "release"
        /\ result' = <<to_HPS.lo, IF call.cmd = "r2" THEN to_HPS.hi ELSE 0>>
        /\ call' = NoCmd
        /\ Fabric
        /\ UNCHANGED <<from_HPS, hit>>

Release == /\ pc = "release"
           /\ pc' = "idle"
           /\ from_HPS' = NoCmd
           /\ Fabric
           /\ UNCHANGED <<call, result, hit>>

Stall == /\ Fabric
         /\ UNCHANGED <<hps, from_HPS, hit>>

\* The program is killed; the command word it wrote stays in from_hps.
Crash == /\ pc # "boot"
         /\ pc' = "boot"
         /\ UNCHANGED <<mem, mem_out, ctl, from_HPS, to_HPS, call, result, hit, resets>>

\* main() starts again and clears from_hps.  Starting a process takes far
\* longer than the five edges of a command, which is over by then.
Settled == state = "op_cplt" \/ (state = "idle" /\ from_HPS.cmd = "none")

Boot == /\ pc = "boot"
        /\ Settled
        /\ pc' = "idle"
        /\ call' = NoCmd
        /\ from_HPS' = NoCmd
        /\ Fabric
        /\ UNCHANGED <<result, hit>>

\* KEY[0]: every register of the fabric but the memory, and not the processor.
Reset == /\ resets < MaxResets
         /\ resets' = resets + 1
         /\ state' = "idle"
         /\ mem_addr' = 0
         /\ mem_w_nr' = FALSE
         /\ mem_in' = 0
         /\ dout1' = 0
         /\ dout2' = 0
         /\ from_HPS' = NoCmd
         /\ to_HPS' = [cplt |-> FALSE, lo |-> 0, hi |-> 0]
         /\ hit' = TRUE
         /\ UNCHANGED <<mem, mem_out, hps>>
-----------------------------------------------------------------------------
Init == /\ mem \in [Addr -> Byte]
        /\ mem_out = 0
        /\ state = "idle"
        /\ mem_addr = 0
        /\ mem_w_nr = FALSE
        /\ mem_in = 0
        /\ dout1 = 0
        /\ dout2 = 0
        /\ from_HPS = NoCmd
        /\ to_HPS = [cplt |-> FALSE, lo |-> 0, hi |-> 0]
        /\ pc = "idle"
        /\ call = NoCmd
        /\ result = <<0, 0>>
        /\ hit = FALSE
        /\ resets = 0

\* The accesses the driver makes once it is in a call, or is starting.
Driver == Poll \/ SampleBusy \/ SampleWritten \/ SampleRead \/ Collect \/ Take
             \/ Release \/ Boot

Next == \/ \E o \in Ops : Issue(o)
        \/ Driver
        \/ Stall
        \/ Crash
        \/ Reset

Spec == Init /\ [][Next]_vars

\* The processor keeps executing the loop it is in.
FairSpec == Spec /\ WF_vars(Driver)
-----------------------------------------------------------------------------
TypeOK == /\ mem \in [Addr -> Byte]
          /\ mem_out \in Byte
          /\ state \in States
          /\ mem_addr \in Addr
          /\ mem_w_nr \in BOOLEAN
          /\ mem_in \in Byte
          /\ dout1 \in Byte
          /\ dout2 \in Byte
          /\ from_HPS \in Words
          /\ to_HPS \in Status
          /\ pc \in PCs
          /\ call \in Words
          /\ result \in Byte \X Byte
          /\ hit \in BOOLEAN
          /\ resets \in 0 .. MaxResets

\* The status word is one edge old and the completion flag of one command
\* stays up until the machine has seen the command word cleared.  A driver
\* that samples the flag high is never looking at the flag of the command
\* before (main.c:213, 226, 239, 254).
FlagIsCurrent == pc = "sample" /\ to_HPS.cplt =>
                    state = "op_cplt" /\ from_HPS = call

\* The machine reads address and data from the command word two edges after
\* the command, and the second address and byte one edge later: the word is
\* the one of the call until they have been used.
WordIsHeld == state \in {"w1_1", "w2_1", "w2_2", "r1_1", "r2_1", "r2_2"} =>
                 from_HPS = call /\ call # NoCmd

\* The inductive strengthening, in two parts.  Handshake: which command word,
\* state and flag go with each point of the driver.
Busy == {"poll", "sample", "collect", "take"}

WordInv ==
    /\ pc \in {"idle", "release"} => call = NoCmd
    /\ pc \in Busy => call \in Ops
    /\ pc = "idle" => from_HPS = NoCmd
    /\ pc \in {"collect", "take"} => call.cmd \in Reads
    /\ \/ from_HPS \in {call, NoCmd}
       \/ pc \in {"release", "boot"} /\ call = NoCmd /\ state = "op_cplt"
    /\ pc \in Busy /\ from_HPS = NoCmd => hit /\ state = "idle" /\ ~to_HPS.cplt
    /\ from_HPS = NoCmd => state \in {"idle", "op_cplt"}
    /\ state = "op_cplt" /\ from_HPS = NoCmd => pc \in {"idle", "boot"}

StateInv ==
    /\ state \in {"r1_1", "r1_2", "r1_3"} => from_HPS.cmd = "r1"
    /\ state \in {"r2_1", "r2_2", "r2_3", "r2_4"} => from_HPS.cmd = "r2"
    /\ state \in {"w1_1", "w1_2"} => from_HPS.cmd = "w1"
    /\ state \in {"w2_1", "w2_2", "w2_3"} => from_HPS.cmd = "w2"
    /\ pc \in {"collect", "take"} /\ from_HPS # NoCmd => state = "op_cplt"
    /\ pc = "sample" /\ to_HPS.cplt => state = "op_cplt"
    /\ pc = "poll" /\ to_HPS.cplt => state \in {"idle", "op_cplt"}
    /\ pc = "release" /\ from_HPS # NoCmd => state = "op_cplt"

\* Data: what has reached the memory, or the output registers, in each state.
DataInv ==
    /\ mem_w_nr <=> state \in {"w1_2", "w2_2", "w2_3"}
    /\ state \in {"w1_2", "w2_2"} => mem_addr = call.addr /\ mem_in = call.lo
    /\ state = "w2_3" => /\ mem_addr = After(call.addr)
                         /\ mem_in = call.hi
                         /\ mem[call.addr] = call.lo
    /\ state \in {"r1_2", "r2_2"} => mem_addr = call.addr
    /\ state \in {"r1_3", "r2_3"} => mem_out = mem[call.addr]
    /\ state = "r2_3" => mem_addr = After(call.addr)
    /\ state = "r2_4" => dout1 = mem[call.addr] /\ mem_out = mem[After(call.addr)]

DoneInv ==
    state = "op_cplt" /\ from_HPS = call =>
        /\ call.cmd \in Writes => mem[call.addr] = call.lo
        /\ call.cmd = "w2" => mem[After(call.addr)] = call.hi
        /\ call.cmd \in Reads => dout1 = mem[call.addr]
        /\ call.cmd = "r2" => dout2 = mem[After(call.addr)]

TakeInv ==
    pc = "take" /\ ~hit => /\ to_HPS.lo = mem[call.addr]
                           /\ call.cmd = "r2" => to_HPS.hi = mem[After(call.addr)]

IInv == TypeOK /\ WordInv /\ StateInv /\ DataInv /\ DoneInv /\ TakeInv

\* The driver functions implement AtomicMem: the same memory, calls and
\* results, the handshake and the clock hidden.
Atomic == INSTANCE AtomicMem WITH alive <- pc # "boot"

AtomicMemory == Atomic!ASpec

\* Once a command has been written the call returns, unless the program is
\* killed or KEY[0] wiped the command word: then op_completed() stays 0 and
\* the processor spins for ever.
CommandReturns == (pc = "poll") ~> \/ pc \in {"idle", "boot"}
                                   \/ from_HPS = NoCmd /\ hit
=============================================================================
