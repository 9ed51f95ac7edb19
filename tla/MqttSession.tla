----------------------------- MODULE MqttSession -----------------------------
(***************************************************************************)
(* The MQTT client with a conforming broker at the other end of a TCP      *)
(* connection.  The broker (test.mosquitto.org, arm_mqtt.h) is external:   *)
(* it follows MQTT 3.1.1.  It also publishes to the topic the panel has    *)
(* subscribed to.                                                          *)
(***************************************************************************)
EXTENDS MqttClient

CONSTANTS
    MaxBPub,    \* bound on the publications to the panel
    BQos,       \* the QoS they are made at
    MaxDup,     \* bound on the packets the broker sends again
    Reuse,      \* whether the broker reuses a packet identifier it has back
    Refuse      \* whether the broker may refuse CONNECT and SUBSCRIBE

ASSUME MqttSessionAssumption ==
    /\ MaxBPub \in Nat /\ MaxDup \in Nat
    /\ BQos \subseteq 0 .. 2
    /\ Reuse \in BOOLEAN /\ Refuse \in BOOLEAN

VARIABLES
    rcvd,        \* identifiers of QoS 2 publications received, not released
    delivered,   \* the publications of the panel, as subscribers got them
    bpublished,  \* the QoS of each publication to the panel
    flight,      \* the packets of those that are not acknowledged yet
    session,     \* "none", then "connected", then "subscribed"
    dups         \* how many packets the broker has sent again

broker == <<rcvd, delivered, bpublished, flight, session, dups>>
vars == <<client, broker>>
-----------------------------------------------------------------------------
\* The first packet on the connection, and how many fragments it is made of.
Parts  == IF toBroker[1].to = 2 THEN 1 ELSE 2
Intact == /\ toBroker[1].from = 0
          /\ Parts = 2 => Len(toBroker) >= 2 /\ toBroker[2].from = 1
                                             /\ toBroker[2].m = toBroker[1].m

Read(m, answers) == /\ up
                    /\ toBroker # << >>
                    /\ Intact
                    /\ m = toBroker[1].m
                    /\ toBroker' = SubSeq(toBroker, Parts + 1, Len(toBroker))
                    /\ toClient' = toClient \o answers
                    /\ UNCHANGED <<error, mq, send_offset, pc, next, timeouts, pings,
                                   published, called, up>>

Verdicts(p) == {<<p>>} \cup IF Refuse THEN {<<[p EXCEPT !.ok = FALSE]>>} ELSE {}

\* A second CONNECT is a protocol violation: the broker reads no more and
\* closes the connection, which is the client's SocketError.
OnConnect(m) == /\ m.type = "CONNECT"
                /\ session = "none"
                /\ \E v \in Verdicts(Plain("CONNACK", 0)) : Read(m, v)
                /\ session' = "connected"
                /\ UNCHANGED <<rcvd, delivered, bpublished, flight, dups>>

OnSubscribe(m) == /\ m.type = "SUBSCRIBE"
                  /\ \E v \in Verdicts(Plain("SUBACK", m.pid)) :
                       Read(m, v) /\ session' = IF v[1].ok THEN "subscribed" ELSE session
                  /\ UNCHANGED <<rcvd, delivered, bpublished, flight, dups>>

OnPublish(m) == /\ m.type = "PUBLISH"
                /\ Read(m, CASE m.qos = 0 -> << >>
                             [] m.qos = 1 -> <<Plain("PUBACK", m.pid)>>
                             [] m.qos = 2 -> <<Plain("PUBREC", m.pid)>>)
                /\ delivered' = IF m.qos = 2 /\ m.pid \in rcvd THEN delivered
                                ELSE Append(delivered, m.id)
                /\ rcvd' = IF m.qos = 2 THEN rcvd \cup {m.pid} ELSE rcvd
                /\ UNCHANGED <<bpublished, flight, session, dups>>

OnPubrel(m) == /\ m.type = "PUBREL"
               /\ Read(m, <<Plain("PUBCOMP", m.pid)>>)
               /\ rcvd' = rcvd \ {m.pid}
               /\ UNCHANGED <<delivered, bpublished, flight, session, dups>>

\* A PUBREC is always answered; PUBACK and PUBCOMP give the identifier back.
OnPubrec(m) == /\ m.type = "PUBREC"
               /\ Read(m, <<Plain("PUBREL", m.pid)>>)
               /\ flight' = {IF p.pid = m.pid THEN Plain("PUBREL", m.pid) ELSE p : p \in flight}
               /\ UNCHANGED <<rcvd, delivered, bpublished, session, dups>>

OnAck(m) == /\ m.type \in {"PUBACK", "PUBCOMP"}
            /\ Read(m, << >>)
            /\ flight' = {p \in flight : ~(p.pid = m.pid /\ p.type = IF m.type = "PUBACK" THEN "PUBLISH"
                                                                      ELSE "PUBREL")}
            /\ UNCHANGED <<rcvd, delivered, bpublished, session, dups>>

OnPing(m) == m.type = "PINGREQ" /\ Read(m, <<Plain("PINGRESP", 0)>>) /\ UNCHANGED broker

BrokerReads == /\ toBroker # << >>
               /\ LET m == toBroker[1].m
                  IN  \/ OnConnect(m) \/ OnSubscribe(m) \/ OnPublish(m) \/ OnPubrel(m)
                      \/ OnPubrec(m) \/ OnAck(m) \/ OnPing(m)

BrokerSends(p) == /\ up
                  /\ toClient' = Append(toClient, p)
                  /\ UNCHANGED <<error, mq, send_offset, pc, next, toBroker, timeouts, pings,
                                 published, called, up, rcvd, delivered, session>>

FreePids == IF Reuse THEN (1 .. MaxBPub) \ {p.pid : p \in flight} ELSE {Len(bpublished) + 1}

BrokerPublish(q) ==
    /\ session = "subscribed"
    /\ Len(bpublished) < MaxBPub
    /\ \E n \in IF q = 0 THEN {0} ELSE FreePids :
         LET p == Packet("PUBLISH", n, q, Len(bpublished) + 1)
         IN  /\ BrokerSends(p)
             /\ flight' = IF q = 0 THEN flight ELSE flight \cup {p}
    /\ bpublished' = Append(bpublished, q)
    /\ UNCHANGED dups

BrokerAgain(p) == /\ dups < MaxDup
                  /\ dups' = dups + 1
                  /\ BrokerSends(p)
                  /\ UNCHANGED <<bpublished, flight>>
-----------------------------------------------------------------------------
Init == /\ ClientInit
        /\ rcvd = {}
        /\ delivered = << >>
        /\ bpublished = << >>
        /\ flight = {}
        /\ session = "none"
        /\ dups = 0

Next == \/ ClientNext /\ UNCHANGED broker
        \/ BrokerReads
        \/ \E q \in BQos : BrokerPublish(q)
        \/ \E p \in flight : BrokerAgain(p)

Spec == Init /\ [][Next]_vars

\* The main loop calls mqtt_sync for ever, the broker reads what it is sent,
\* and a socket that is full makes room again: a message that is due over and
\* over is sent in the end.
Fairness == /\ WF_vars(StartSend /\ UNCHANGED broker)
            /\ WF_vars(FinishSend /\ UNCHANGED broker)
            /\ SF_vars(Receive /\ UNCHANGED broker)
            /\ SF_vars(SendDue /\ UNCHANGED broker)
            /\ WF_vars(BrokerReads)

FairSpec == Spec /\ Fairness
-----------------------------------------------------------------------------
Types  == {"CONNECT", "SUBSCRIBE", "PUBLISH", "PUBREL", "PUBACK", "PUBREC", "PUBCOMP", "PINGREQ"}
Errors == {"OK", "SEND_BUFFER_IS_FULL", "ACK_OF_UNKNOWN", "CONNECTION_REFUSED",
           "SUBSCRIBE_FAILED", "SOCKET_ERROR"}
Range1(s) == {s[i] : i \in 1 .. Len(s)}

TypeOK == /\ error \in Errors
          /\ Len(mq) <= Cap
          /\ \A i \in 1 .. Len(mq) : /\ mq[i].m.type \in Types
                                     /\ mq[i].state \in {"UNSENT", "AWAITING_ACK", "COMPLETE"}
          /\ send_offset \in 0 .. 1
          /\ pc \in {"app", "recv", "send"}
          /\ next \in 0 .. Cap + 1
          /\ timeouts \in 0 .. MaxTimeouts
          /\ pings \in 0 .. MaxPings
          /\ delivered \in Seq(1 .. MaxPub)
          /\ called \in Seq(1 .. MaxBPub)

\* At most one QoS 2 PUBLISH is in flight: "only send QoS 2 message if there
\* are no inflight QoS 2 PUBLISH messages" (mqtt.c:538).
OneInflight == Cardinality({i \in 1 .. Len(mq) : Qos2(i) /\ mq[i].state = "AWAITING_ACK"}) <= 1

\* Two exchanges that are both open never share a packet identifier, although
\* the PUBLISH that drew it may have left the queue before its PUBREL.
Open(i) == mq[i].m.type \in {"PUBLISH", "PUBREL", "SUBSCRIBE"} /\ mq[i].state # "COMPLETE"
DistinctPids == \A i, j \in 1 .. Len(mq) :
                   Open(i) /\ Open(j) /\ i # j => mq[i].m.pid # mq[j].m.pid

\* A publication of QoS 2 leaves the queue, or is complete in it, only when the
\* broker has delivered it, whatever was retransmitted or went wrong.
NothingLost == \A n \in Range1(published) \ Range1(delivered) :
                  \E i \in 1 .. Len(mq) : /\ mq[i].m.type = "PUBLISH" /\ mq[i].m.id = n
                                          /\ mq[i].state # "COMPLETE"

\* A QoS 2 publication to the panel reaches the callback once at most, also
\* when the broker sends it again (mqtt.c:755-759).
CalledOnce == \A i, j \in 1 .. Len(called) :
                 i # j /\ bpublished[called[i]] = 2 => called[i] # called[j]

\* What the client has acknowledged to the end, the callback has seen.
AckedIsCalled == \A n \in 1 .. Len(bpublished) \ Range1(called) :
                    bpublished[n] = 0 \/ \E p \in flight : p.type = "PUBLISH" /\ p.id = n

\* The broker reads packets, not pieces of different ones: "This is used to
\* allow partial send commands." (mqtt.h:1113 on send_offset).
Framed == \A i \in 1 .. Len(toBroker) :
             /\ toBroker[i].from = 1 => i > 1 /\ toBroker[i - 1].m = toBroker[i].m
                                              /\ toBroker[i - 1].to = 1
             /\ toBroker[i].to = 1 /\ i < Len(toBroker) => toBroker[i + 1].from = 1

\* With a broker that conforms, no acknowledgement is unexpected: "error
\* should be MQTT_OK for the entirety of the connection." (mqtt.h:1129).
NoUnknownAck == error # "ACK_OF_UNKNOWN"

\* The panel's QoS 2 publications reach the subscribers exactly once, in order.
Out == INSTANCE ExactlyOnce WITH Msgs <- 1 .. MaxPub, sent <- published, received <- delivered
ExactlyOnceOut == Out!XSpec

\* Every publication reaches the subscribers unless the client is in error.
AllDelivered == \A n \in 1 .. MaxPub :
                   Len(published) = n ~> n \in Range1(delivered) \/ error # "OK"

\* "All the publishes received from the broker will be passed to this
\* function." (mqtt.h:1161), unless the client is in error.
AllPassed == \A n \in 1 .. MaxBPub :
                Len(bpublished) = n ~> n \in Range1(called) \/ error # "OK"
=============================================================================
