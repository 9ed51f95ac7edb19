---------------------------- MODULE MessageQueue ----------------------------
(***************************************************************************)
(* What the send queue of the MQTT client promises: messages stay in the   *)
(* order they were staged, keep their bytes and their state, and leave     *)
(* only from the front and only when they are complete.                    *)
(***************************************************************************)
EXTENDS Naturals, Sequences

CONSTANTS Bytes,    \* the bytes of messages
          MaxSize   \* the size of the largest message

VARIABLE queue      \* <<[data, state], ...>>, oldest first

States == {"UNSENT", "AWAITING_ACK", "COMPLETE"}
Data   == UNION {[1 .. n -> Bytes] : n \in 1 .. MaxSize}
-----------------------------------------------------------------------------
Stage(d) == queue' = Append(queue, [data |-> d, state |-> "UNSENT"])

\* The complete messages at the front are dropped, and maybe a message staged.
Drop(k) == /\ \A i \in 1 .. k : queue[i].state = "COMPLETE"
           /\ \/ queue' = SubSeq(queue, k + 1, Len(queue))
              \/ \E d \in Data : queue' = Append(SubSeq(queue, k + 1, Len(queue)),
                                                 [data |-> d, state |-> "UNSENT"])

\* A message only moves forward: unsent, awaiting its answer, complete.
Advance(i, s) == /\ queue[i].state # "COMPLETE"
                 /\ s # "UNSENT"
                 /\ queue' = [queue EXCEPT ![i].state = s]

QInit == queue = << >>

QNext == \/ \E d \in Data : Stage(d)
         \/ \E k \in 1 .. Len(queue) : Drop(k)
         \/ \E i \in 1 .. Len(queue), s \in States : Advance(i, s)

QSpec == QInit /\ [][QNext]_queue
=============================================================================
