------------------------------- MODULE MemOps -------------------------------
(***************************************************************************)
(* The commands of the memory bus between the processor and the fabric:    *)
(* what write_8b, write_16b, read_8b and read_16b put in the 32 bits of    *)
(* the from_hps port (main.c), which Mem_Controller.v takes apart.         *)
(***************************************************************************)
EXTENDS Naturals

CONSTANTS
    Depth,  \* bytes in the character memory (MEM_DEPTH, 8192)
    Byte    \* the values of a byte

ASSUME MemOpsAssumption == Depth \in Nat /\ Depth > 1 /\ 0 \in Byte
-----------------------------------------------------------------------------
Addr   == 0 .. Depth - 1
Reads  == {"r1", "r2"}
Writes == {"w1", "w2"}
Ops    == [cmd : Reads,  addr : Addr, lo : {0},  hi : {0}] \cup
          [cmd : {"w1"}, addr : Addr, lo : Byte, hi : {0}] \cup
          [cmd : {"w2"}, addr : Addr, lo : Byte, hi : Byte]

\* The cleared command word: bit 31, cmd[2], is 0.
NoCmd  == [cmd |-> "none", addr |-> 0, lo |-> 0, hi |-> 0]

\* Mutant: the sum is not cut to 13 bits.
After_NoWrap(a) == a + 1

\* The address after a: 13 bits wide in the fabric, so the last one wraps.
After(a) == (a + 1) % Depth

\* The pairs address, value that a command stores.
Stores(o) == CASE o.cmd = "w1" -> {<<o.addr, o.lo>>}
               [] o.cmd = "w2" -> {<<o.addr, o.lo>>, <<After(o.addr), o.hi>>}
               [] OTHER        -> {}
=============================================================================
