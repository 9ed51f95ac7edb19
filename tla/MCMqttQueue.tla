----------------------------- MODULE MCMqttQueue -----------------------------
(***************************************************************************)
(* The two buffers of the client share nothing, so that a behaviour        *)
(* exercises one of them.                                                  *)
(***************************************************************************)
EXTENDS MqttQueue, MqttRecv

VARIABLE side   \* "send" or "receive"

\* With bytes from 0 to 7: every type; PUBLISH packets of the size the buffer
\* just holds, with bytes that look like headers; one that is too large; and
\* malformed ones, by type, by length, by code and by too many digits.
Pub0(t, m)    == [type |-> PUBLISH0, topic_name |-> t, application_message |-> m]
Pub1(t, i, m) == [type |-> PUBLISH1, topic_name |-> t, packet_id |-> i, application_message |-> m]
Raw(t, r)     == [type |-> t, raw |-> r]
MCPackets ==
    {[type |-> PINGRESP],
     [type |-> CONNACK, session_present |-> 0, return_code |-> 5],
     [type |-> PUBACK, packet_id |-> 10], [type |-> PUBACK, packet_id |-> 3],
     [type |-> SUBACK, packet_id |-> 2, return_codes |-> <<1>>],
     Pub0(<<1>>, <<3>>), Pub0(<<1>>, <<5, 1, 3, 2>>),
     Pub1(<<6>>, 9, << >>), Pub1(<<6>>, 1, <<1, 0>>), Pub1(<<4>>, 9, <<3, 2, 0>>),
     Raw(FORBIDDEN, << >>), Raw(PUBACK, <<1>>), Raw(CONNACK, <<0, 6>>),
     Raw(PUBLISH1, [i \in 1 .. 16 |-> 1])}

MCInit == Init /\ RInit /\ side \in {"send", "receive"}
MCNext == \/ side = "send" /\ Next /\ UNCHANGED <<rvars, side>>
          \/ side = "receive" /\ RNext /\ UNCHANGED <<vars, side>>
MCSpec == MCInit /\ [][MCNext]_<<vars, rvars, side>> /\ (side = "receive" => RFair)
=============================================================================
