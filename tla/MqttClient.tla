------------------------------ MODULE MqttClient ------------------------------
(***************************************************************************)
(* The MQTT client of the panel: mqtt.c (mqtt_connect, mqtt_subscribe,     *)
(* mqtt_publish, mqtt_sync with __mqtt_recv and __mqtt_send) as arm_mqtt.c *)
(* uses it, from one thread and without a reconnect callback.  The broker  *)
(* is in MqttSession.                                                      *)
(*                                                                         *)
(* A message in the queue is one slot of a buffer with Cap slots (the      *)
(* bytes are in MqttQueue).  The socket carries whole packets, or, when    *)
(* Partial is TRUE, half packets: send_offset is 0 or 1, half a packet.    *)
(***************************************************************************)
EXTENDS Naturals, Sequences, FiniteSets

CONSTANTS
    Pids,         \* packet identifiers
    Cap,          \* messages that fit in the send buffer
    PubQos,       \* the QoS the application publishes at (AMQTT_Publish: 2)
    MaxPub,       \* bound on the publications of the application
    MaxTimeouts,  \* bound on the retransmissions
    MaxPings,     \* bound on the keep-alive pings
    Partial       \* whether a send may stop inside a packet

ASSUME MqttClientAssumption ==
    /\ 0 \notin Pids /\ Pids # {}
    /\ Cap \in Nat /\ Cap >= 2
    /\ PubQos \subseteq 0 .. 2
    /\ MaxPub \in Nat /\ MaxTimeouts \in Nat /\ MaxPings \in Nat
    /\ Partial \in BOOLEAN

VARIABLES
    error, mq, send_offset,     \* struct mqtt_client
    pc,                         \* where mqtt_sync is, "app" outside of it
    next,                       \* the loop index of __mqtt_send
    toBroker, toClient,         \* the two directions of the socket
    timeouts, pings,            \* how many there were
    published,                  \* what the application has published
    called,                     \* what the publish callback was called with
    up                          \* whether the connection stands

client == <<error, mq, send_offset, pc, next, toBroker, toClient, timeouts, pings,
            published, called, up>>
-----------------------------------------------------------------------------
\* A message or packet: its type, packet identifier, QoS and payload; ok is
\* the verdict of a CONNACK or SUBACK.
Packet(t, p, q, m) == [type |-> t, pid |-> p, qos |-> q, id |-> m, ok |-> TRUE]
Plain(t, p)        == Packet(t, p, 0, 0)
Queued(m)          == [m |-> m, state |-> "UNSENT"]

\* Mutants: a message that awaits its answer is dropped; the room is not checked.
Incomplete_Sent(q) == {i \in 1 .. Len(q) : q[i].state = "UNSENT"}
CanPack_Always(q)  == error = "OK"

Incomplete(q) == {i \in 1 .. Len(q) : q[i].state # "COMPLETE"}

\* The complete messages at the front of the queue go (MqttQueue: the bytes).
mqtt_mq_clean(q) == IF Incomplete(q) = {} THEN << >>
                    ELSE LET first == CHOOSE i \in Incomplete(q) :
                                         \A j \in Incomplete(q) : i <= j
                         IN  SubSeq(q, first, Len(q))

\* MQTT_CLIENT_TRY_PACK: what the queue and the error become when m is staged.
Room(q) == IF Len(q) < Cap THEN q ELSE mqtt_mq_clean(q)
CanPack(q)    == error = "OK" /\ Len(Room(q)) < Cap
Staged(q, m)  == IF CanPack(q) THEN Append(Room(q), Queued(m))
                 ELSE IF error = "OK" THEN Room(q) ELSE q
StageError(q) == IF error = "OK" /\ ~CanPack(q) THEN "SEND_BUFFER_IS_FULL" ELSE error

\* Mutant: identifiers in use are not skipped.
__mqtt_next_pid_Any == Pids

\* The LFSR visits every identifier and skips those in the queue; where it
\* is in its cycle is abstracted.
__mqtt_next_pid == Pids \ {mq[i].m.pid : i \in 1 .. Len(mq)}

\* The first message of a type, with a given identifier in any state, or
\* without one and not complete (mqtt_mq_find), as an index; 0 for none.
Matching(t, p) == {i \in 1 .. Len(mq) :
                     /\ mq[i].m.type = t
                     /\ IF p = 0 THEN mq[i].state # "COMPLETE" ELSE mq[i].m.pid = p}
mqtt_mq_find(t, p) == IF Matching(t, p) = {} THEN 0
                      ELSE CHOOSE i \in Matching(t, p) : \A j \in Matching(t, p) : i <= j

\* Mutant: an answered message is not marked.
Released_Not(i) == mq

Released(i) == [mq EXCEPT ![i].state = "COMPLETE"]
-----------------------------------------------------------------------------
\* AMQTT_Publish: a packet identifier is taken even when the packet does not
\* carry it, and a publication is made when mqtt_publish returns MQTT_OK.
Publish(q) ==
    /\ pc = "app"
    /\ Len(published) < MaxPub
    /\ \E p \in __mqtt_next_pid :
         LET m == Packet("PUBLISH", p, q, Len(published) + 1)
         IN  /\ mq' = Staged(mq, m)
             /\ error' = StageError(mq)
             /\ published' = IF CanPack(mq) THEN Append(published, m.id) ELSE published
    /\ UNCHANGED <<send_offset, pc, next, toBroker, toClient, timeouts, pings, called, up>>
-----------------------------------------------------------------------------
\* __mqtt_recv handles the packets one by one, until there is none or ret,
\* the outcome of one, is an error, which also ends mqtt_sync.
Handle(e, ret) == /\ pc \in {"app", "recv"}
                  /\ toClient' = Tail(toClient)
                  /\ error' = e
                  /\ pc' = IF ret = "OK" THEN "recv" ELSE "app"
                  /\ UNCHANGED <<send_offset, next, toBroker, timeouts, pings, published, up>>

Handled    == Handle(error, "OK")
Failed(e)  == Handle(e, e)
Answer(q, t, p) == Failed(StageError(q)) /\ mq' = Staged(q, Plain(t, p))

\* Mutants: the callback is forgotten when there is an answer to stage; the
\* check for a duplicate is forgotten.
RecvPublish_NoCall(p) ==
    /\ p.type = "PUBLISH"
    /\ Answer(mq, IF p.qos = 1 THEN "PUBACK" ELSE "PUBREC", p.pid)
    /\ UNCHANGED called
RecvPublish_NoCheck(p) ==
    /\ p.type = "PUBLISH"
    /\ Answer(mq, IF p.qos = 1 THEN "PUBACK" ELSE "PUBREC", p.pid)
    /\ called' = IF CanPack(mq) THEN Append(called, p.id) ELSE called

RecvPublish(p) ==
    /\ p.type = "PUBLISH"
    /\ \/ /\ p.qos = 0
          /\ Handled
          /\ called' = Append(called, p.id)
          /\ UNCHANGED mq
       \/ /\ p.qos = 1 \/ (p.qos = 2 /\ mqtt_mq_find("PUBREC", p.pid) = 0)
          /\ Answer(mq, IF p.qos = 1 THEN "PUBACK" ELSE "PUBREC", p.pid)
          /\ called' = IF CanPack(mq) THEN Append(called, p.id) ELSE called
       \/ /\ p.qos = 2 /\ mqtt_mq_find("PUBREC", p.pid) # 0
          /\ Handled
          /\ UNCHANGED <<mq, called>>

\* The acknowledgements that release a message and stage nothing.
AckOf   == [CONNACK |-> "CONNECT", SUBACK |-> "SUBSCRIBE", PUBACK |-> "PUBLISH",
            PUBCOMP |-> "PUBREL", PINGRESP |-> "PINGREQ"]
Refusal == [CONNACK |-> "CONNECTION_REFUSED", SUBACK |-> "SUBSCRIBE_FAILED"]

RecvAck(p) ==
    /\ p.type \in DOMAIN AckOf
    /\ LET i == mqtt_mq_find(AckOf[p.type], p.pid)
       IN  \/ i = 0 /\ Failed("ACK_OF_UNKNOWN") /\ UNCHANGED mq
           \/ i # 0 /\ mq' = Released(i) /\ IF p.ok THEN Handled ELSE Failed(Refusal[p.type])
    /\ UNCHANGED called

\* PUBREC releases a PUBLISH and stages a PUBREL; PUBREL releases a PUBREC and
\* stages a PUBCOMP.
Exchange(p, of, answer) ==
    /\ LET i == mqtt_mq_find(of, p.pid)
       IN  \/ i = 0 /\ Failed("ACK_OF_UNKNOWN") /\ UNCHANGED mq
           \/ i # 0 /\ Answer(Released(i), answer, p.pid)
    /\ UNCHANGED called

RecvPubrec(p) ==
    /\ p.type = "PUBREC"
    /\ \/ mqtt_mq_find("PUBREL", p.pid) # 0 /\ Handled /\ UNCHANGED <<mq, called>>
       \/ mqtt_mq_find("PUBREL", p.pid) = 0 /\ Exchange(p, "PUBLISH", "PUBREL")

RecvPubrel(p) == p.type = "PUBREL" /\ Exchange(p, "PUBREC", "PUBCOMP")

Receive == /\ toClient # << >>
           /\ LET p == Head(toClient)
              IN  RecvPublish(p) \/ RecvAck(p) \/ RecvPubrec(p) \/ RecvPubrel(p)
-----------------------------------------------------------------------------
\* __mqtt_recv found nothing more to read; __mqtt_send begins its loop over
\* the queue, or returns at once when there was an error.
StartSend == /\ pc \in {"app", "recv"}
             /\ up
             /\ IF error \in {"OK", "SEND_BUFFER_IS_FULL"}
                THEN pc' = "send" /\ next' = 1
                ELSE pc' = "app" /\ UNCHANGED next
             /\ UNCHANGED <<error, mq, send_offset, toBroker, toClient, timeouts, pings,
                            published, called, up>>

\* A QoS 2 PUBLISH waits while an earlier one is in flight.
Qos2(i)    == mq[i].m.type = "PUBLISH" /\ mq[i].m.qos = 2 /\ mq[i].state # "COMPLETE"
\* Mutants: a QoS 2 PUBLISH never waits; it waits for itself.
Blocked_Never(i)  == FALSE
Blocked_Itself(i) == Qos2(i)
Blocked(i) == Qos2(i) /\ \E j \in 1 .. i - 1 : Qos2(j)
Due(i)     == mq[i].state = "UNSENT" /\ ~Blocked(i)

\* Mutant: a PUBLISH is complete once it is sent.
AfterSend_Done(m) == IF m.type \in {"PUBACK", "PUBCOMP", "PUBLISH"} THEN "COMPLETE"
                     ELSE "AWAITING_ACK"
AfterSend(m) == IF m.type \in {"PUBACK", "PUBCOMP"} \/ (m.type = "PUBLISH" /\ m.qos = 0)
                THEN "COMPLETE" ELSE "AWAITING_ACK"

\* Message i is the next to send, because it is unsent or because it has timed
\* out, which also resets send_offset; the socket takes k halves of a packet.
Transmit(i, k) ==
    LET retry  == mq[i].state = "AWAITING_ACK"
        offset == IF retry THEN 0 ELSE send_offset
        whole  == offset + k = 2
    IN  /\ \A j \in next .. i - 1 : ~Due(j)
        /\ Due(i) \/ (retry /\ ~Blocked(i) /\ timeouts < MaxTimeouts)
        /\ whole \/ (Partial /\ offset + k < 2)
        /\ timeouts' = IF retry THEN timeouts + 1 ELSE timeouts
        /\ toBroker' = IF k = 0 THEN toBroker
                       ELSE Append(toBroker, [m |-> mq[i].m, from |-> offset, to |-> offset + k])
        /\ send_offset' = IF whole THEN 0 ELSE offset + k
        /\ mq' = IF whole THEN [mq EXCEPT ![i].state = AfterSend(mq[i].m)] ELSE mq
        /\ next' = IF whole THEN i + 1 ELSE Len(mq) + 1
        /\ UNCHANGED <<error, pc, toClient, pings, published, called, up>>

SendDue == /\ pc = "send"
           /\ \E i \in next .. Len(mq) : Due(i) /\ Transmit(i, 2 - send_offset)

\* The end of the loop, or a socket that takes nothing; then the keep-alive.
FinishSend ==
    /\ pc = "send"
    /\ pc' = "app"
    /\ next' = 0
    /\ \/ UNCHANGED <<mq, error, pings>>
       \/ /\ pings < MaxPings
          /\ pings' = pings + 1
          /\ mq' = Staged(mq, Plain("PINGREQ", 0))
          /\ error' = StageError(mq)
    /\ UNCHANGED <<send_offset, toBroker, toClient, timeouts, published, called, up>>

\* The connection is lost: the next recv or send reports it.
SocketError == /\ up
               /\ up' = FALSE
               /\ error' = "SOCKET_ERROR"
               /\ pc' = "app"
               /\ next' = 0
               /\ toBroker' = << >>
               /\ toClient' = << >>
               /\ UNCHANGED <<mq, send_offset, timeouts, pings, published, called>>
-----------------------------------------------------------------------------
\* AMQTT_Init and AMQTT_Subscribe have staged their packets.
ClientInit == /\ error = "OK"
              /\ \E p \in Pids : mq = <<Queued(Plain("CONNECT", 0)), Queued(Plain("SUBSCRIBE", p))>>
              /\ send_offset = 0
              /\ pc = "app"
              /\ next = 0
              /\ toBroker = << >>
              /\ toClient = << >>
              /\ timeouts = 0
              /\ pings = 0
              /\ published = << >>
              /\ called = << >>
              /\ up = TRUE

ClientNext == \/ \E q \in PubQos : Publish(q)
              \/ Receive
              \/ StartSend
              \/ pc = "send" /\ \E i \in next .. Len(mq), k \in 0 .. 2 : Transmit(i, k)
              \/ FinishSend
              \/ SocketError
=============================================================================
