----------------------------- MODULE ExactlyOnce -----------------------------
(***************************************************************************)
(* A channel that gives its receiver every message once and in order.      *)
(***************************************************************************)
EXTENDS Naturals, Sequences

CONSTANT Msgs
VARIABLES sent, received

Send == /\ \E m \in Msgs : sent' = Append(sent, m)
        /\ UNCHANGED received

Receive == /\ Len(received) < Len(sent)
           /\ received' = Append(received, sent[Len(received) + 1])
           /\ UNCHANGED sent

XInit == sent = << >> /\ received = << >>
XNext == Send \/ Receive
XSpec == XInit /\ [][XNext]_<<sent, received>>
=============================================================================
