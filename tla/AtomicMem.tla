----------------------------- MODULE AtomicMem -----------------------------
(***************************************************************************)
(* What write_8b, write_16b, read_8b and read_16b (main.c) promise their   *)
(* caller about the character memory: the bytes of a write are stored, one *)
(* by one and any number of times, while the call is in progress and at no *)
(* other time, they are all stored when it returns, and a read returns     *)
(* what is stored.  Nothing is said about clock edges or about the         *)
(* handshake.  KEY[0], which resets the fabric and not the processor,      *)
(* voids the promise of the read it falls into; a program that is killed   *)
(* may leave a call half done.                                             *)
(***************************************************************************)
EXTENDS MemOps

VARIABLES
    mem,     \* contents of the memory
    call,    \* the call in progress, or NoCmd
    result,  \* the bytes the last completed read returned, low one first
    hit,     \* KEY[0] was pressed during this call
    alive    \* the program runs

avars == <<mem, call, result, hit, alive>>
-----------------------------------------------------------------------------
AInit == /\ mem \in [Addr -> Byte]
         /\ call = NoCmd
         /\ result = <<0, 0>>
         /\ hit = FALSE
         /\ alive = TRUE

Call(o) == /\ alive
           /\ call = NoCmd
           /\ call' = o
           /\ hit' = FALSE
           /\ UNCHANGED <<mem, result, alive>>

Store == \E s \in Stores(call) : /\ mem' = [mem EXCEPT ![s[1]] = s[2]]
                                 /\ UNCHANGED <<call, result, hit, alive>>

ReturnWrite == /\ alive
               /\ call.cmd \in Writes
               /\ \A s \in Stores(call) : mem[s[1]] = s[2]
               /\ call' = NoCmd
               /\ UNCHANGED <<mem, result, hit, alive>>

ReturnRead == /\ alive
              /\ call.cmd \in Reads
              /\ result' \in Byte \X Byte
              /\ ~hit => result' = <<mem[call.addr],
                                     IF call.cmd = "r2" THEN mem[After(call.addr)] ELSE 0>>
              /\ call' = NoCmd
              /\ UNCHANGED <<mem, hit, alive>>

Kill == /\ alive
        /\ alive' = FALSE
        /\ UNCHANGED <<mem, call, result, hit>>

Restart == /\ ~alive
           /\ alive' = TRUE
           /\ call' = NoCmd
           /\ UNCHANGED <<mem, result, hit>>

Disturb == /\ hit' = TRUE
           /\ UNCHANGED <<mem, call, result, alive>>

ANext == \/ \E o \in Ops : Call(o)
         \/ Store
         \/ ReturnWrite
         \/ ReturnRead
         \/ Kill
         \/ Restart
         \/ Disturb

ASpec == AInit /\ [][ANext]_avars
=============================================================================
