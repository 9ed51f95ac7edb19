------------------------- MODULE MqttSession_proofs -------------------------
(***************************************************************************)
(* Proofs about MqttSession: for any set of packet identifiers, any room   *)
(* in the send buffer, any QoS, with retransmissions, packets sent in      *)
(* pieces, a broker that repeats packets and connections that break.       *)
(***************************************************************************)
EXTENDS MqttSession, WellFoundedInduction, FiniteSetTheorems, FunctionTheorems, SequenceTheorems,
        TLAPS

\* A set of natural numbers that is not empty has a least element: what CHOOSE
\* finds where the code stops at the first match.
LEMMA LeastOfNat ==
  ASSUME NEW S \in SUBSET Nat, S # {}
  PROVE  \E i \in S : \A j \in S : i <= j
<1>1. IsWellFoundedOn(OpToRel(<, Nat), Nat)
  BY NatLessThanWellFounded
<1>2. PICK x \in S : \A y \in S : ~(<<y, x>> \in OpToRel(<, Nat))
  BY <1>1, WFMin
<1>3. \A y \in S : ~(y < x)
  BY <1>2 DEF OpToRel
<1>4. x \in Nat /\ S \subseteq Nat
  OBVIOUS
<1>5. \A y \in S : x <= y
  BY <1>3, <1>4
<1> QED BY <1>5

Ids     == Nat \cup Pids
MqState == {"UNSENT", "AWAITING_ACK", "COMPLETE"}
Msg     == {m \in [type : Types, pid : Ids, qos : 0 .. 2, id : Nat, ok : BOOLEAN] :
              m.type = "PUBLISH" => m.id \in 1 .. MaxPub}
QMsg    == [m : Msg, state : MqState]
Frag    == [m : Msg, from : 0 .. 1, to : 0 .. 2]
InTypes == {"CONNACK", "SUBACK", "PUBLISH", "PUBACK", "PUBREC", "PUBREL", "PUBCOMP", "PINGRESP"}
Pkt     == {p \in [type : InTypes, pid : Ids, qos : 0 .. 2, id : Nat, ok : BOOLEAN] :
              /\ p.type = "PUBLISH" => p.id \in 1 .. MaxBPub
              /\ ~p.ok => p.type \in {"CONNACK", "SUBACK"}}

\* The state of the client and what is on the connection.
ClientType == /\ error \in Errors
              /\ mq \in Seq(QMsg) /\ Len(mq) <= Cap
              /\ send_offset \in 0 .. 1
              /\ pc \in {"app", "recv", "send"}
              /\ next \in 0 .. Cap + 1
              /\ toBroker \in Seq(Frag)
              /\ toClient \in Seq(Pkt)
              /\ timeouts \in 0 .. MaxTimeouts
              /\ pings \in 0 .. MaxPings
              /\ published \in Seq(1 .. MaxPub)
              /\ called \in Seq(1 .. MaxBPub)

BrokerType == /\ delivered \in Seq(1 .. MaxPub)
              /\ bpublished \in Seq(0 .. 2)
              /\ flight \in SUBSET Pkt

\* A message that draws its identifier, and the two kinds the properties tell apart.
Drawn(e) == e.m.type \in {"PUBLISH", "SUBSCRIBE"}
Rel(e)   == e.m.type = "PUBREL"
Q2(e)    == e.m.type = "PUBLISH" /\ e.m.qos = 2 /\ e.state # "COMPLETE"
Done(e)  == e.state = "COMPLETE"

\* What the queue keeps: drawn identifiers are real and different, a PUBREL
\* stands only beside a PUBLISH of its identifier that is complete, two open
\* PUBRELs differ, and behind a QoS 2 PUBLISH the others are unsent.
DrawnReal(q)   == \A i \in 1 .. Len(q) : Drawn(q[i]) => q[i].m.pid \in Pids
DrawnDiffer(q) == \A i, j \in 1 .. Len(q) :
                     i # j /\ Drawn(q[i]) /\ Drawn(q[j]) => q[i].m.pid # q[j].m.pid
RelAfter(q)    == \A i, j \in 1 .. Len(q) :
                     Rel(q[i]) /\ Drawn(q[j]) /\ q[i].m.pid = q[j].m.pid => Done(q[j])
RelDiffer(q)   == \A i, j \in 1 .. Len(q) :
                     /\ i # j /\ Rel(q[i]) /\ Rel(q[j]) /\ ~Done(q[i]) /\ ~Done(q[j])
                     => q[i].m.pid # q[j].m.pid
InOrder(q)     == \A i, j \in 1 .. Len(q) :
                     i < j /\ Q2(q[i]) /\ Q2(q[j]) => q[j].state = "UNSENT"
Fits(q) == DrawnReal(q) /\ DrawnDiffer(q) /\ RelAfter(q) /\ RelDiffer(q) /\ InOrder(q)

\* The loop of __mqtt_send counts from 1.
Sending == pc = "send" => next # 0

IInv == ClientType /\ BrokerType /\ Fits(mq) /\ Sending
-----------------------------------------------------------------------------
\* The room that is made for a message is the queue or a suffix of it.
LEMMA RoomIsSuffix ==
  ASSUME NEW q \in Seq(QMsg)
  PROVE  \E f \in 1 .. Len(q) + 1 : Room(q) = SubSeq(q, f, Len(q))
<1>1. CASE Len(q) < Cap
  <2>1. Room(q) = SubSeq(q, 1, Len(q))
    BY <1>1 DEF Room
  <2> QED BY <2>1
<1>2. CASE ~(Len(q) < Cap) /\ Incomplete(q) = {}
  <2>1. Room(q) = SubSeq(q, Len(q) + 1, Len(q))
    BY <1>2 DEF Room, mqtt_mq_clean
  <2> QED BY <2>1
<1>3. CASE ~(Len(q) < Cap) /\ Incomplete(q) # {}
  <2> DEFINE first == CHOOSE i \in Incomplete(q) : \A j \in Incomplete(q) : i <= j
  <2>1. Incomplete(q) \subseteq 1 .. Len(q)
    BY DEF Incomplete
  <2>2. \E i \in Incomplete(q) : \A j \in Incomplete(q) : i <= j
    BY <1>3, <2>1, LeastOfNat
  <2>3. first \in 1 .. Len(q)
    BY <2>1, <2>2
  <2>4. Room(q) = SubSeq(q, first, Len(q))
    BY <1>3 DEF Room, mqtt_mq_clean
  <2>5. first \in 1 .. Len(q) + 1
    BY <2>3
  <2> HIDE DEF first
  <2> QED BY <2>4, <2>5
<1> QED BY <1>1, <1>2, <1>3

-----------------------------------------------------------------------------
\* A suffix of the queue keeps what the queue keeps.
LEMMA SuffixFits ==
  ASSUME NEW q \in Seq(QMsg), NEW f \in 1 .. Len(q) + 1, Fits(q)
  PROVE  /\ SubSeq(q, f, Len(q)) \in Seq(QMsg)
         /\ Len(SubSeq(q, f, Len(q))) = Len(q) - f + 1
         /\ \A i \in 1 .. Len(q) - f + 1 : SubSeq(q, f, Len(q))[i] = q[f + i - 1]
         /\ Fits(SubSeq(q, f, Len(q)))
<1> DEFINE r == SubSeq(q, f, Len(q))
<1>1. /\ r \in Seq(QMsg)
      /\ Len(r) = Len(q) - f + 1
      /\ \A i \in 1 .. Len(q) - f + 1 : r[i] = q[f + i - 1]
  <2>1. f \in Int /\ Len(q) \in Int /\ Len(q) \in Nat
    OBVIOUS
  <2>2. \A i \in f .. Len(q) : q[i] \in QMsg
    BY <2>1
  <2>3. Len(r) = IF f <= Len(q) THEN Len(q) - f + 1 ELSE 0
    BY <2>1, <2>2, SubSeqProperties
  <2>4. \A i \in 1 .. Len(q) - f + 1 : r[i] = q[f + i - 1]
    BY <2>1, <2>2, SubSeqProperties
  <2>5. r \in Seq(QMsg)
    BY <2>1, <2>2, SubSeqProperties
  <2> QED BY <2>1, <2>3, <2>4, <2>5
<1> HIDE DEF r
<1>2. \A i \in 1 .. Len(r) : f + i - 1 \in 1 .. Len(q) /\ r[i] = q[f + i - 1]
  <2>1. Len(q) \in Nat /\ Len(r) = Len(q) - f + 1
    BY <1>1
  <2>2. \A i \in 1 .. Len(r) : f + i - 1 \in 1 .. Len(q) /\ i \in 1 .. Len(q) - f + 1
    BY <2>1
  <2> QED BY <1>1, <2>2
<1>3. DrawnReal(r)
  BY <1>2 DEF Fits, DrawnReal
<1>4. DrawnDiffer(r)
  <2> SUFFICES ASSUME NEW i \in 1 .. Len(r), NEW j \in 1 .. Len(r),
                      i # j, Drawn(r[i]), Drawn(r[j])
               PROVE  r[i].m.pid # r[j].m.pid
    BY DEF DrawnDiffer
  <2>1. f + i - 1 # f + j - 1 /\ f + i - 1 \in 1 .. Len(q) /\ f + j - 1 \in 1 .. Len(q)
    BY <1>1, <1>2
  <2>2. r[i] = q[f + i - 1] /\ r[j] = q[f + j - 1]
    BY <1>2
  <2> QED BY <2>1, <2>2 DEF Fits, DrawnDiffer
<1>5. RelAfter(r)
  BY <1>2 DEF Fits, RelAfter
<1>6. RelDiffer(r)
  <2> SUFFICES ASSUME NEW i \in 1 .. Len(r), NEW j \in 1 .. Len(r),
                      i # j, Rel(r[i]), Rel(r[j]), ~Done(r[i]), ~Done(r[j])
               PROVE  r[i].m.pid # r[j].m.pid
    BY DEF RelDiffer
  <2>1. f + i - 1 # f + j - 1 /\ f + i - 1 \in 1 .. Len(q) /\ f + j - 1 \in 1 .. Len(q)
    BY <1>1, <1>2
  <2>2. r[i] = q[f + i - 1] /\ r[j] = q[f + j - 1]
    BY <1>2
  <2> QED BY <2>1, <2>2 DEF Fits, RelDiffer
<1>7. InOrder(r)
  <2> SUFFICES ASSUME NEW i \in 1 .. Len(r), NEW j \in 1 .. Len(r),
                      i < j, Q2(r[i]), Q2(r[j])
               PROVE  r[j].state = "UNSENT"
    BY DEF InOrder
  <2>1. f + i - 1 < f + j - 1
    BY <1>1
  <2> QED BY <1>2, <2>1 DEF Fits, InOrder
<1> QED BY <1>1, <1>3, <1>4, <1>5, <1>6, <1>7 DEF Fits, r

\* A message moves forward: it is sent, or answered.  One that is complete
\* stays so, and a QoS 2 PUBLISH is sent only when none stands before it.
LEMMA ForwardFits ==
  ASSUME NEW q \in Seq(QMsg), Fits(q), NEW k \in 1 .. Len(q),
         NEW s \in {"AWAITING_ACK", "COMPLETE"},
         s = "COMPLETE" \/ ~Done(q[k]),
         s = "COMPLETE" \/ ~(Q2(q[k]) /\ \E j \in 1 .. k - 1 : Q2(q[j]))
  PROVE  LET r == [q EXCEPT ![k].state = s] IN
         r \in Seq(QMsg) /\ Len(r) = Len(q) /\ Fits(r)
<1> DEFINE r == [q EXCEPT ![k].state = s]
<1> DEFINE e == [q[k] EXCEPT !.state = s]
<1>0. e \in QMsg /\ e.m = q[k].m /\ e.state = s
  <2>1. q[k] \in QMsg
    OBVIOUS
  <2>2. q[k].m \in Msg /\ e = [m |-> q[k].m, state |-> s]
    BY <2>1 DEF QMsg
  <2> QED BY <2>2 DEF QMsg, MqState
<1>1. r \in Seq(QMsg) /\ Len(r) = Len(q)
  <2>1. r = [q EXCEPT ![k] = e]
    OBVIOUS
  <2> HIDE DEF r, e
  <2> QED BY <1>0, <2>1, ExceptSeq
<1>2. \A i \in 1 .. Len(q) : /\ i # k => r[i] = q[i]
                            /\ r[i].m = q[i].m
                            /\ r[i].state = IF i = k THEN s ELSE q[i].state
  BY DEF QMsg
<1> HIDE DEF r
<1>3. DrawnReal(r)
  BY <1>1, <1>2 DEF Fits, DrawnReal, Drawn
<1>4. DrawnDiffer(r)
  BY <1>1, <1>2 DEF Fits, DrawnDiffer, Drawn
<1>5. RelAfter(r)
  BY <1>1, <1>2 DEF Fits, RelAfter, Drawn, Rel, Done
<1>6. RelDiffer(r)
  BY <1>1, <1>2 DEF Fits, RelDiffer, Rel, Done
<1>7. InOrder(r)
  <2> SUFFICES ASSUME NEW i \in 1 .. Len(r), NEW j \in 1 .. Len(r),
                      i < j, Q2(r[i]), Q2(r[j])
               PROVE  r[j].state = "UNSENT"
    BY DEF InOrder
  <2>1. Q2(q[i]) /\ Q2(q[j])
    BY <1>1, <1>2 DEF Q2, Done
  <2>2. q[j].state = "UNSENT" /\ i \in 1 .. j - 1
    BY <1>1, <2>1 DEF Fits, InOrder
  <2>3. j # k
    BY <1>1, <1>2, <2>1, <2>2 DEF Q2
  <2> QED BY <1>1, <1>2, <2>2, <2>3
<1> QED BY <1>1, <1>3, <1>4, <1>5, <1>6, <1>7 DEF Fits, r

\* A message may be staged when it draws an identifier the queue does not hold,
\* or is the PUBREL of a PUBLISH that has been answered.
MayStage(q, m) ==
    /\ m.type \in {"PUBLISH", "SUBSCRIBE"} =>
         m.pid \in Pids /\ \A i \in 1 .. Len(q) : q[i].m.pid # m.pid
    /\ m.type = "PUBREL" =>
         \A i \in 1 .. Len(q) : q[i].m.pid = m.pid =>
            (Drawn(q[i]) => Done(q[i])) /\ (Rel(q[i]) => Done(q[i]))

LEMMA AppendFits ==
  ASSUME NEW q \in Seq(QMsg), Fits(q), NEW m \in Msg, MayStage(q, m)
  PROVE  LET r == Append(q, Queued(m)) IN
         r \in Seq(QMsg) /\ Len(r) = Len(q) + 1 /\ Fits(r)
<1> DEFINE e == Queued(m)
           r == Append(q, e)
           n == Len(q) + 1
<1>1. e \in QMsg /\ e.m = m /\ e.state = "UNSENT"
  BY DEF QMsg, MqState, Queued
<1> HIDE DEF e
<1>2. /\ r \in Seq(QMsg) /\ Len(r) = n /\ n \in Nat
      /\ r[n] = e
      /\ \A i \in 1 .. Len(q) : r[i] = q[i]
  BY <1>1
<1> HIDE DEF r
<1>3. \A i \in 1 .. Len(r) : i # n => i \in 1 .. Len(q) /\ r[i] = q[i]
  BY <1>2
<1> HIDE DEF n
<1>4. DrawnReal(r)
  BY <1>1, <1>2, <1>3 DEF Fits, DrawnReal, Drawn, MayStage
<1>5. DrawnDiffer(r)
  BY <1>1, <1>2, <1>3 DEF Fits, DrawnDiffer, Drawn, MayStage
<1>6. RelAfter(r)
  BY <1>1, <1>2, <1>3 DEF Fits, RelAfter, Drawn, Rel, MayStage
<1>7. RelDiffer(r)
  BY <1>1, <1>2, <1>3 DEF Fits, RelDiffer, Rel, MayStage
<1>8. InOrder(r)
  <2> SUFFICES ASSUME NEW i \in 1 .. Len(r), NEW j \in 1 .. Len(r),
                      i < j, Q2(r[i]), Q2(r[j])
               PROVE  r[j].state = "UNSENT"
    BY DEF InOrder
  <2>1. i # n
    BY <1>2
  <2>2. CASE j = n
    BY <1>1, <1>2, <2>2
  <2>3. CASE j # n
    BY <1>3, <2>1, <2>3 DEF Fits, InOrder
  <2> QED BY <2>2, <2>3
<1> QED BY <1>1, <1>2, <1>4, <1>5, <1>6, <1>7, <1>8 DEF Fits, r, e, n

\* MQTT_CLIENT_TRY_PACK keeps it, whether the message fits, fits after the
\* complete ones are gone, or does not fit.
LEMMA StagedFits ==
  ASSUME NEW q \in Seq(QMsg), Len(q) <= Cap, Fits(q), NEW m \in Msg, MayStage(q, m)
  PROVE  /\ Staged(q, m) \in Seq(QMsg)
         /\ Len(Staged(q, m)) <= Cap
         /\ Fits(Staged(q, m))
<1>1. PICK f \in 1 .. Len(q) + 1 : Room(q) = SubSeq(q, f, Len(q))
  BY RoomIsSuffix
<1>2. /\ Room(q) \in Seq(QMsg)
      /\ Len(Room(q)) = Len(q) - f + 1
      /\ \A i \in 1 .. Len(q) - f + 1 : Room(q)[i] = q[f + i - 1]
      /\ Fits(Room(q))
  BY <1>1, SuffixFits
<1>3. MayStage(Room(q), m)
  <2>1. \A i \in 1 .. Len(Room(q)) : f + i - 1 \in 1 .. Len(q) /\ Room(q)[i] = q[f + i - 1]
    BY <1>2
  <2> QED BY <2>1 DEF MayStage
<1>4. Cap \in Nat /\ Len(Room(q)) <= Cap
  BY <1>2, MqttClientAssumption
<1>5. CASE CanPack(q)
  <2>1. Len(Room(q)) < Cap /\ Staged(q, m) = Append(Room(q), Queued(m))
    BY <1>5 DEF CanPack, Staged
  <2> QED BY <1>2, <1>3, <1>4, <2>1, AppendFits
<1>6. CASE ~CanPack(q)
  BY <1>2, <1>4, <1>6 DEF Staged
<1> QED BY <1>5, <1>6
-----------------------------------------------------------------------------
\* What mqtt_mq_find returns.
LEMMA FindSound ==
  ASSUME NEW t, NEW p, mq \in Seq(QMsg)
  PROVE  LET k == mqtt_mq_find(t, p) IN
         /\ k # 0 => /\ k \in 1 .. Len(mq)
                     /\ mq[k].m.type = t
                     /\ p # 0 => mq[k].m.pid = p
         /\ k = 0 => \A i \in 1 .. Len(mq) : mq[i].m.type = t =>
                        IF p = 0 THEN Done(mq[i]) ELSE mq[i].m.pid # p
<1> DEFINE S == Matching(t, p)
           k == mqtt_mq_find(t, p)
<1>1. S \in SUBSET Nat /\ S \subseteq 1 .. Len(mq)
  BY DEF Matching
<1>2. CASE S = {}
  <2>1. k = 0
    BY <1>2 DEF mqtt_mq_find
  <2> QED BY <1>2, <2>1 DEF Matching, Done
<1>3. CASE S # {}
  <2>1. \E i \in S : \A j \in S : i <= j
    BY <1>1, <1>3, LeastOfNat
  <2>2. k = CHOOSE i \in S : \A j \in S : i <= j
    BY <1>3 DEF mqtt_mq_find
  <2> HIDE DEF S
  <2>3. k \in S
    BY <2>1, <2>2
  <2> USE DEF S
  <2>4. k \in 1 .. Len(mq) /\ k # 0
    BY <1>1, <2>3
  <2> QED BY <2>3, <2>4 DEF Matching
<1> QED BY <1>2, <1>3

LEMMA ErrorType == ASSUME NEW q, error \in Errors PROVE StageError(q) \in Errors
  BY DEF StageError, Errors

\* A message with no bearing on the identifiers.
LEMMA PlainMsg ==
  ASSUME NEW t \in Types, t # "PUBLISH", NEW p \in Ids
  PROVE  /\ Plain(t, p) \in Msg
         /\ Plain(t, p).type = t /\ Plain(t, p).pid = p
         /\ t \notin {"PUBLISH", "SUBSCRIBE", "PUBREL"} => \A q : MayStage(q, Plain(t, p))
<1>1. Plain(t, p) \in Msg /\ Plain(t, p).type = t /\ Plain(t, p).pid = p
  BY DEF Plain, Packet, Msg
<1> QED BY <1>1 DEF MayStage

LEMMA PlainPkt ==
  ASSUME NEW t \in InTypes, t # "PUBLISH", NEW p \in Ids
  PROVE  Plain(t, p) \in Pkt
  BY DEF Plain, Packet, Pkt
-----------------------------------------------------------------------------
LEMMA InitIInv == Init => IInv
<1> SUFFICES ASSUME Init PROVE IInv
  OBVIOUS
<1> USE DEF Init, ClientInit
<1>1. PICK p \in Pids : mq = <<Queued(Plain("CONNECT", 0)), Queued(Plain("SUBSCRIBE", p))>>
  OBVIOUS
<1> DEFINE a == Plain("CONNECT", 0)
           b == Plain("SUBSCRIBE", p)
<1>2. a \in Msg /\ b \in Msg /\ a.type = "CONNECT" /\ b.type = "SUBSCRIBE" /\ b.pid = p
  <2>1. "CONNECT" \in Types /\ "SUBSCRIBE" \in Types /\ 0 \in Ids /\ p \in Ids
    BY DEF Types, Ids
  <2>2. a \in Msg /\ a.type = "CONNECT"
    BY <2>1, PlainMsg
  <2>3. b \in Msg /\ b.type = "SUBSCRIBE" /\ b.pid = p
    BY <2>1, PlainMsg
  <2> QED BY <2>2, <2>3
<1> HIDE DEF a, b
<1>3. mq = <<Queued(a), Queued(b)>>
  BY <1>1 DEF a, b
<1>4. Queued(a) \in QMsg /\ Queued(b) \in QMsg
  BY <1>2 DEF Queued, QMsg, MqState
<1>5. mq \in Seq(QMsg) /\ Len(mq) = 2 /\ mq[1] = Queued(a) /\ mq[2] = Queued(b)
  BY <1>3, <1>4
<1>6. mq[1].m.type = "CONNECT" /\ mq[2].m.type = "SUBSCRIBE" /\ mq[2].m.pid = p
  BY <1>2, <1>5 DEF Queued
<1>7. Fits(mq)
  BY <1>5, <1>6 DEF Fits, DrawnReal, DrawnDiffer, RelAfter, RelDiffer, InOrder, Drawn, Rel, Q2
<1>8. ClientType
  BY <1>5, MqttClientAssumption DEF ClientType, Errors
<1>9. BrokerType
  BY DEF BrokerType
<1>10. Sending
  BY DEF Sending
<1> QED BY <1>7, <1>8, <1>9, <1>10 DEF IInv

LEMMA PublishKeeps ==
  ASSUME IInv, NEW q \in PubQos, Publish(q)
  PROVE  ClientType' /\ Fits(mq')
<1> USE DEF IInv, ClientType
<1>1. PICK p \in Pids \ {mq[i].m.pid : i \in 1 .. Len(mq)} :
         LET m == Packet("PUBLISH", p, q, Len(published) + 1)
         IN  /\ mq' = Staged(mq, m)
             /\ error' = StageError(mq)
             /\ published' = IF CanPack(mq) THEN Append(published, m.id) ELSE published
  BY DEF Publish, __mqtt_next_pid
<1> DEFINE m == Packet("PUBLISH", p, q, Len(published) + 1)
<1>0. Len(published) < MaxPub /\ published \in Seq(1 .. MaxPub) /\ Len(published) \in Nat
  BY DEF Publish
<1>2. Len(published) + 1 \in 1 .. MaxPub
  BY <1>0, MqttClientAssumption
<1>3. m \in Msg /\ m.type = "PUBLISH" /\ m.pid = p /\ m.id = Len(published) + 1
  <2>1. m = [type |-> "PUBLISH", pid |-> p, qos |-> q, id |-> Len(published) + 1, ok |-> TRUE]
    BY DEF Packet
  <2>2. q \in 0 .. 2 /\ p \in Ids /\ Len(published) + 1 \in Nat
    BY <1>0, MqttClientAssumption DEF Ids
  <2> HIDE DEF m
  <2>3. m \in [type : Types, pid : Ids, qos : 0 .. 2, id : Nat, ok : BOOLEAN]
    BY <2>1, <2>2 DEF Types
  <2> QED BY <1>2, <2>1, <2>3 DEF Msg
<1>4. MayStage(mq, m)
  BY <1>1, <1>3 DEF MayStage
<1> HIDE DEF m
<1>5. mq' = Staged(mq, m) /\ error' = StageError(mq)
      /\ published' = IF CanPack(mq) THEN Append(published, m.id) ELSE published
  BY <1>1 DEF m
<1>6. mq' \in Seq(QMsg) /\ Len(mq') <= Cap /\ Fits(mq')
  BY <1>3, <1>4, <1>5, StagedFits
<1>7. error' \in Errors
  BY <1>5, ErrorType
<1>8. published' \in Seq(1 .. MaxPub)
  <2>1. Append(published, m.id) \in Seq(1 .. MaxPub)
    BY <1>0, <1>2, <1>3, AppendProperties
  <2> QED BY <1>0, <1>5, <2>1
<1> QED BY <1>6, <1>7, <1>8 DEF Publish

\* The outcome of handling one packet: error, queue and what was called keep
\* their types, the rest follows.
LEMMA HandleKeeps ==
  ASSUME IInv, toClient # << >>, NEW e \in Errors, NEW ret, Handle(e, ret),
         mq' \in Seq(QMsg), Len(mq') <= Cap, called' \in Seq(1 .. MaxBPub)
  PROVE  ClientType'
<1>1. toClient' \in Seq(Pkt)
  BY DEF Handle, IInv, ClientType
<1>2. pc' \in {"app", "recv", "send"} /\ error' \in Errors
  BY DEF Handle
<1> QED BY <1>1, <1>2 DEF Handle, IInv, ClientType

LEMMA AnswerKeeps ==
  ASSUME IInv, toClient # << >>,
         NEW q \in Seq(QMsg), Len(q) <= Cap, Fits(q),
         NEW t \in Types, t # "PUBLISH", NEW p \in Ids, MayStage(q, Plain(t, p)),
         Answer(q, t, p), called' \in Seq(1 .. MaxBPub)
  PROVE  ClientType' /\ Fits(mq')
<1>1. mq' = Staged(q, Plain(t, p)) /\ Failed(StageError(q))
  BY DEF Answer
<1>2. mq' \in Seq(QMsg) /\ Len(mq') <= Cap /\ Fits(mq')
  BY <1>1, PlainMsg, StagedFits
<1>3. StageError(q) \in Errors
  BY ErrorType DEF IInv, ClientType
<1> QED BY <1>1, <1>2, <1>3, HandleKeeps DEF Failed
-----------------------------------------------------------------------------
LEMMA HeadIsPkt ==
  ASSUME IInv, toClient # << >>
  PROVE  Head(toClient) \in Pkt
  BY DEF IInv, ClientType

LEMMA RecvPublishKeeps ==
  ASSUME IInv, toClient # << >>, NEW p \in Pkt, RecvPublish(p)
  PROVE  ClientType' /\ Fits(mq')
<1>1. /\ mq \in Seq(QMsg) /\ Len(mq) <= Cap /\ Fits(mq)
      /\ called \in Seq(1 .. MaxBPub) /\ error \in Errors
  BY DEF IInv, ClientType
<1>2. p.type = "PUBLISH" /\ p.id \in 1 .. MaxBPub /\ p.pid \in Ids
  BY DEF RecvPublish, Pkt
<1>3. Append(called, p.id) \in Seq(1 .. MaxBPub)
  BY <1>1, <1>2, AppendProperties
<1>4. CASE p.qos = 0 /\ Handled /\ called' = Append(called, p.id) /\ UNCHANGED mq
  BY <1>1, <1>3, <1>4, HandleKeeps DEF Handled
<1>5. CASE /\ Answer(mq, IF p.qos = 1 THEN "PUBACK" ELSE "PUBREC", p.pid)
           /\ called' = IF CanPack(mq) THEN Append(called, p.id) ELSE called
  <2>1. called' \in Seq(1 .. MaxBPub)
    BY <1>1, <1>3, <1>5
  <2> DEFINE t == IF p.qos = 1 THEN "PUBACK" ELSE "PUBREC"
  <2>2. t \in Types /\ t \notin {"PUBLISH", "SUBSCRIBE", "PUBREL"}
    BY DEF Types
  <2>3. Answer(mq, t, p.pid)
    BY <1>5
  <2> HIDE DEF t
  <2>4. MayStage(mq, Plain(t, p.pid))
    BY <1>2, <2>2, PlainMsg
  <2> QED BY <1>1, <1>2, <2>1, <2>2, <2>3, <2>4, AnswerKeeps
<1>6. CASE Handled /\ UNCHANGED <<mq, called>>
  BY <1>1, <1>6, HandleKeeps DEF Handled
<1> QED BY <1>4, <1>5, <1>6 DEF RecvPublish

\* A message that is answered is complete and the queue keeps what it keeps.
LEMMA ReleasedFits ==
  ASSUME IInv, NEW i \in 1 .. Len(mq)
  PROVE  /\ Released(i) \in Seq(QMsg) /\ Len(Released(i)) = Len(mq) /\ Len(Released(i)) <= Cap
         /\ Fits(Released(i))
         /\ \A j \in 1 .. Len(mq) : /\ Released(i)[j].m = mq[j].m
                                    /\ Done(mq[j]) \/ j = i => Done(Released(i)[j])
<1>1. mq \in Seq(QMsg) /\ Len(mq) <= Cap /\ Fits(mq)
  BY DEF IInv, ClientType
<1>2. Released(i) = [mq EXCEPT ![i].state = "COMPLETE"]
  BY DEF Released
<1>3. Released(i) \in Seq(QMsg) /\ Len(Released(i)) = Len(mq) /\ Fits(Released(i))
  <2>1. "COMPLETE" \in {"AWAITING_ACK", "COMPLETE"} /\ i \in 1 .. Len(mq)
    OBVIOUS
  <2> DEFINE s == "COMPLETE"
  <2>2. s \in {"AWAITING_ACK", "COMPLETE"} /\ s = "COMPLETE"
    OBVIOUS
  <2>3. Released(i) = [mq EXCEPT ![i].state = s]
    BY <1>2
  <2> HIDE DEF s
  <2>4. LET r == [mq EXCEPT ![i].state = s] IN
        r \in Seq(QMsg) /\ Len(r) = Len(mq) /\ Fits(r)
    BY <1>1, <2>1, <2>2, ForwardFits
  <2> QED BY <2>3, <2>4
<1>4. \A j \in 1 .. Len(mq) : /\ Released(i)[j].m = mq[j].m
                              /\ Done(mq[j]) \/ j = i => Done(Released(i)[j])
  BY <1>1, <1>2 DEF QMsg, Done
<1> QED BY <1>1, <1>3, <1>4

LEMMA RecvAckKeeps ==
  ASSUME IInv, toClient # << >>, NEW p \in Pkt, RecvAck(p)
  PROVE  ClientType' /\ Fits(mq')
<1> DEFINE i == mqtt_mq_find(AckOf[p.type], p.pid)
<1>1. /\ mq \in Seq(QMsg) /\ Len(mq) <= Cap /\ Fits(mq)
      /\ called \in Seq(1 .. MaxBPub) /\ error \in Errors /\ called' = called
  BY DEF IInv, ClientType, RecvAck
<1>2. i # 0 => i \in 1 .. Len(mq)
  BY <1>1, FindSound
<1>3. CASE i = 0 /\ Failed("ACK_OF_UNKNOWN") /\ UNCHANGED mq
  <2>1. "ACK_OF_UNKNOWN" \in Errors
    BY DEF Errors
  <2> QED BY <1>1, <1>3, <2>1, HandleKeeps DEF Failed
<1>4. CASE i # 0 /\ mq' = Released(i) /\ IF p.ok THEN Handled ELSE Failed(Refusal[p.type])
  <2> HIDE DEF i
  <2>1. mq' \in Seq(QMsg) /\ Len(mq') <= Cap /\ Fits(mq')
    BY <1>2, <1>4, ReleasedFits
  <2>2. CASE p.ok
    BY <1>1, <1>4, <2>1, <2>2, HandleKeeps DEF Handled
  <2>3. CASE ~p.ok
    <3>1. p.type \in {"CONNACK", "SUBACK"}
      BY <2>3 DEF Pkt
    <3>2. Refusal[p.type] \in Errors
      BY <3>1 DEF Refusal, Errors
    <3> QED BY <1>1, <1>4, <2>1, <2>3, <3>2, HandleKeeps DEF Failed
  <2> QED BY <2>2, <2>3
<1> QED BY <1>3, <1>4 DEF RecvAck

LEMMA ExchangeKeeps ==
  ASSUME IInv, toClient # << >>, NEW p \in Pkt,
         NEW of, NEW answer \in Types, answer # "PUBLISH", Exchange(p, of, answer),
         \A i \in 1 .. Len(mq) : i = mqtt_mq_find(of, p.pid) =>
                                    MayStage(Released(i), Plain(answer, p.pid))
  PROVE  ClientType' /\ Fits(mq')
<1> DEFINE i == mqtt_mq_find(of, p.pid)
<1>1. /\ mq \in Seq(QMsg) /\ Len(mq) <= Cap /\ Fits(mq) /\ p.pid \in Ids
      /\ called \in Seq(1 .. MaxBPub) /\ called' = called
  BY DEF IInv, ClientType, Exchange, Pkt
<1>2. i # 0 => i \in 1 .. Len(mq)
  BY <1>1, FindSound
<1>3. CASE i = 0 /\ Failed("ACK_OF_UNKNOWN") /\ UNCHANGED mq
  <2>1. "ACK_OF_UNKNOWN" \in Errors
    BY DEF Errors
  <2> QED BY <1>1, <1>3, <2>1, HandleKeeps DEF Failed
<1>4. CASE i # 0 /\ Answer(Released(i), answer, p.pid)
  <2>1. i \in 1 .. Len(mq) /\ MayStage(Released(i), Plain(answer, p.pid))
    BY <1>2, <1>4
  <2> HIDE DEF i
  <2>2. Released(i) \in Seq(QMsg) /\ Len(Released(i)) <= Cap /\ Fits(Released(i))
    BY <2>1, ReleasedFits
  <2> QED BY <1>1, <1>4, <2>1, <2>2, AnswerKeeps
<1> QED BY <1>3, <1>4 DEF Exchange

LEMMA RecvPubrecKeeps ==
  ASSUME IInv, toClient # << >>, NEW p \in Pkt, RecvPubrec(p)
  PROVE  ClientType' /\ Fits(mq')
<1>1. /\ mq \in Seq(QMsg) /\ Len(mq) <= Cap /\ Fits(mq) /\ p.pid \in Ids
      /\ called \in Seq(1 .. MaxBPub) /\ error \in Errors /\ called' = called
  BY DEF IInv, ClientType, RecvPubrec, Exchange, Pkt
<1>2. CASE mqtt_mq_find("PUBREL", p.pid) # 0 /\ Handled /\ UNCHANGED <<mq, called>>
  BY <1>1, <1>2, HandleKeeps DEF Handled
<1>3. CASE mqtt_mq_find("PUBREL", p.pid) = 0 /\ Exchange(p, "PUBLISH", "PUBREL")
  <2>1. \A j \in 1 .. Len(mq) : mq[j].m.type = "PUBREL" =>
           IF p.pid = 0 THEN Done(mq[j]) ELSE mq[j].m.pid # p.pid
    BY <1>1, <1>3, FindSound
  <2>2. ASSUME NEW i \in 1 .. Len(mq), i = mqtt_mq_find("PUBLISH", p.pid)
        PROVE  MayStage(Released(i), Plain("PUBREL", p.pid))
    <3>1. mq[i].m.type = "PUBLISH" /\ (p.pid # 0 => mq[i].m.pid = p.pid)
      BY <1>1, <2>2, FindSound
    <3>2. Plain("PUBREL", p.pid).type = "PUBREL" /\ Plain("PUBREL", p.pid).pid = p.pid
      BY <1>1, PlainMsg DEF Types
    <3>3. ASSUME NEW j \in 1 .. Len(mq), mq[j].m.pid = p.pid
          PROVE  (Drawn(mq[j]) => Done(Released(i)[j])) /\ (Rel(mq[j]) => Done(mq[j]))
      <4>1. CASE p.pid = 0
        <5>1. ~Drawn(mq[j])
          BY <1>1, <3>3, <4>1, MqttClientAssumption DEF Fits, DrawnReal
        <5> QED BY <2>1, <4>1, <5>1 DEF Rel
      <4>2. CASE p.pid # 0
        <5>1. Drawn(mq[j]) => j = i
          BY <1>1, <3>1, <3>3, <4>2 DEF Fits, DrawnDiffer, Drawn
        <5>2. Drawn(mq[j]) => Done(Released(i)[j])
          BY <5>1, ReleasedFits
        <5>3. ~Rel(mq[j])
          BY <2>1, <3>3, <4>2 DEF Rel
        <5> QED BY <5>2, <5>3
      <4> QED BY <4>1, <4>2
    <3>4. /\ Len(Released(i)) = Len(mq)
          /\ \A j \in 1 .. Len(mq) : /\ Released(i)[j].m = mq[j].m
                                     /\ Done(mq[j]) => Done(Released(i)[j])
      BY ReleasedFits
    <3>5. \A j \in 1 .. Len(mq) : /\ Drawn(Released(i)[j]) <=> Drawn(mq[j])
                                  /\ Rel(Released(i)[j]) <=> Rel(mq[j])
      BY <3>4 DEF Drawn, Rel
    <3> QED BY <3>2, <3>3, <3>4, <3>5 DEF MayStage
  <2>3. "PUBREL" \in Types
    BY DEF Types
  <2> QED BY <1>3, <2>2, <2>3, ExchangeKeeps
<1> QED BY <1>2, <1>3 DEF RecvPubrec

LEMMA ReceiveKeeps ==
  ASSUME IInv, Receive
  PROVE  ClientType' /\ Fits(mq')
<1> DEFINE p == Head(toClient)
<1>1. toClient # << >> /\ (RecvPublish(p) \/ RecvAck(p) \/ RecvPubrec(p) \/ RecvPubrel(p))
  BY DEF Receive
<1>2. p \in Pkt
  BY <1>1, HeadIsPkt
<1> HIDE DEF p
<1>3. CASE RecvPublish(p)
  BY <1>1, <1>2, <1>3, RecvPublishKeeps
<1>4. CASE RecvAck(p)
  BY <1>1, <1>2, <1>4, RecvAckKeeps
<1>5. CASE RecvPubrec(p)
  BY <1>1, <1>2, <1>5, RecvPubrecKeeps
<1>6. CASE RecvPubrel(p)
  <2>1. Exchange(p, "PUBREC", "PUBCOMP") /\ p.pid \in Ids /\ "PUBCOMP" \in Types
    BY <1>2, <1>6 DEF RecvPubrel, Pkt, Types
  <2>2. \A q : MayStage(q, Plain("PUBCOMP", p.pid))
    BY <2>1, PlainMsg
  <2> QED BY <1>1, <1>2, <2>1, <2>2, ExchangeKeeps
<1> QED BY <1>1, <1>3, <1>4, <1>5, <1>6
-----------------------------------------------------------------------------
LEMMA TransmitKeeps ==
  ASSUME IInv, pc = "send", NEW i \in next .. Len(mq), NEW k \in 0 .. 2, Transmit(i, k)
  PROVE  ClientType' /\ Fits(mq')
<1> DEFINE retry  == mq[i].state = "AWAITING_ACK"
           offset == IF retry THEN 0 ELSE send_offset
           whole  == offset + k = 2
           frag   == [m |-> mq[i].m, from |-> offset, to |-> offset + k]
           s      == AfterSend(mq[i].m)
<1>1. /\ mq \in Seq(QMsg) /\ Len(mq) <= Cap /\ Cap \in Nat /\ Fits(mq) /\ Len(mq) \in Nat
      /\ send_offset \in 0 .. 1 /\ toBroker \in Seq(Frag) /\ next \in 0 .. Cap + 1
      /\ timeouts \in 0 .. MaxTimeouts /\ MaxTimeouts \in Nat
  BY MqttClientAssumption DEF IInv, ClientType
<1>2. /\ Due(i) \/ (retry /\ ~Blocked(i) /\ timeouts < MaxTimeouts)
      /\ whole \/ (Partial /\ offset + k < 2)
      /\ timeouts' = IF retry THEN timeouts + 1 ELSE timeouts
      /\ toBroker' = IF k = 0 THEN toBroker ELSE Append(toBroker, frag)
      /\ send_offset' = IF whole THEN 0 ELSE offset + k
      /\ mq' = IF whole THEN [mq EXCEPT ![i].state = s] ELSE mq
      /\ next' = IF whole THEN i + 1 ELSE Len(mq) + 1
      /\ UNCHANGED <<error, pc, toClient, pings, published, called, up>>
  BY DEF Transmit
<1>3. i \in 1 .. Len(mq)
  <2>1. next # 0
    BY DEF IInv, Sending
  <2> QED BY <1>1, <2>1
<1>4. offset \in 0 .. 1 /\ offset + k \in 0 .. 2
  BY <1>1, <1>2
<1>5. mq[i] \in QMsg /\ mq[i].m \in Msg
  <2>1. mq[i] \in QMsg
    BY <1>1, <1>3
  <2> QED BY <2>1 DEF QMsg
<1>6. frag \in Frag
  BY <1>4, <1>5 DEF Frag
<1>7. s \in {"AWAITING_ACK", "COMPLETE"}
  BY DEF AfterSend
<1>8. ~Done(mq[i]) /\ ~(Q2(mq[i]) /\ \E j \in 1 .. i - 1 : Q2(mq[j]))
  BY <1>2 DEF Due, Blocked, Qos2, Q2, Done
<1> HIDE DEF frag, s
<1>9. LET r == [mq EXCEPT ![i].state = s] IN
      r \in Seq(QMsg) /\ Len(r) = Len(mq) /\ Fits(r)
  BY <1>1, <1>3, <1>7, <1>8, ForwardFits
<1>10. mq' \in Seq(QMsg) /\ Len(mq') <= Cap /\ Fits(mq')
  BY <1>1, <1>2, <1>9
<1>11. toBroker' \in Seq(Frag)
  <2>1. Append(toBroker, frag) \in Seq(Frag)
    BY <1>1, <1>6, AppendProperties
  <2> QED BY <1>1, <1>2, <2>1
<1>12. send_offset' \in 0 .. 1
  BY <1>2, <1>4
<1>13. next' \in 0 .. Cap + 1
  BY <1>1, <1>2, <1>3
<1>14. timeouts' \in 0 .. MaxTimeouts
  <2>1. retry => timeouts < MaxTimeouts
    BY <1>2 DEF Due
  <2> QED BY <1>1, <1>2, <2>1
<1> HIDE DEF retry, offset, whole
<1> QED BY <1>2, <1>10, <1>11, <1>12, <1>13, <1>14 DEF IInv, ClientType

LEMMA FinishSendKeeps ==
  ASSUME IInv, FinishSend
  PROVE  ClientType' /\ Fits(mq')
<1> DEFINE a == Plain("PINGREQ", 0)
<1>1. mq \in Seq(QMsg) /\ Len(mq) <= Cap /\ Fits(mq) /\ error \in Errors
      /\ pings \in 0 .. MaxPings /\ MaxPings \in Nat
  BY MqttClientAssumption DEF IInv, ClientType
<1>2. a \in Msg /\ MayStage(mq, a)
  BY PlainMsg DEF Types, Ids
<1> HIDE DEF a
<1>3. /\ mq' \in Seq(QMsg) /\ Len(mq') <= Cap /\ Fits(mq')
      /\ error' \in Errors /\ pings' \in 0 .. MaxPings
  <2>1. CASE UNCHANGED <<mq, error, pings>>
    BY <1>1, <2>1
  <2>2. CASE /\ pings < MaxPings
             /\ pings' = pings + 1
             /\ mq' = Staged(mq, a)
             /\ error' = StageError(mq)
    <3>1. mq' \in Seq(QMsg) /\ Len(mq') <= Cap /\ Fits(mq')
      BY <1>1, <1>2, <2>2, StagedFits
    <3>2. error' \in Errors
      BY <1>1, <2>2, ErrorType
    <3> QED BY <1>1, <2>2, <3>1, <3>2
  <2> QED BY <2>1, <2>2 DEF FinishSend, a
<1> QED BY <1>3, MqttClientAssumption DEF FinishSend, IInv, ClientType

\* A step of the client, whatever it is.
LEMMA ClientKeeps ==
  ASSUME IInv, ClientNext
  PROVE  ClientType' /\ Fits(mq') /\ Sending'
<1>1. CASE \E q \in PubQos : Publish(q)
  <2>1. Sending'
    BY <1>1 DEF Publish, Sending
  <2> QED BY <1>1, <2>1, PublishKeeps
<1>2. CASE Receive
  <2>1. Sending'
    BY <1>2 DEF Receive, RecvPublish, RecvAck, RecvPubrec, RecvPubrel, Exchange, Answer,
                Handled, Failed, Handle, Sending
  <2> QED BY <1>2, <2>1, ReceiveKeeps
<1>3. CASE StartSend
  BY <1>3, MqttClientAssumption DEF StartSend, IInv, ClientType, Sending
<1>4. CASE pc = "send" /\ \E i \in next .. Len(mq), k \in 0 .. 2 : Transmit(i, k)
  <2>1. PICK i \in next .. Len(mq), k \in 0 .. 2 : Transmit(i, k)
    BY <1>4
  <2>2. i + 1 # 0 /\ Len(mq) + 1 # 0
    BY DEF IInv, ClientType
  <2>3. Sending'
    BY <2>1, <2>2 DEF Transmit, Sending
  <2> QED BY <1>4, <2>1, <2>3, TransmitKeeps
<1>5. CASE FinishSend
  <2>1. Sending'
    BY <1>5 DEF FinishSend, Sending
  <2> QED BY <1>5, <2>1, FinishSendKeeps
<1>6. CASE SocketError
  <2>1. << >> \in Seq(Frag) /\ << >> \in Seq(Pkt)
    OBVIOUS
  <2> QED BY <1>6, <2>1, MqttClientAssumption DEF SocketError, IInv, ClientType, Sending, Errors
<1> QED BY <1>1, <1>2, <1>3, <1>4, <1>5, <1>6 DEF ClientNext
-----------------------------------------------------------------------------
\* What the broker reads is a message of the client, and reading it leaves the
\* client's own state alone.
LEMMA ReadMsg ==
  ASSUME IInv, toBroker # << >>
  PROVE  toBroker[1].m \in Msg
<1>1. toBroker[1] \in Frag
  BY DEF IInv, ClientType
<1> QED BY <1>1 DEF Frag

LEMMA ReadKeeps ==
  ASSUME IInv, NEW m, NEW answers \in Seq(Pkt), Read(m, answers)
  PROVE  ClientType' /\ Fits(mq') /\ Sending'
<1>1. toBroker \in Seq(Frag) /\ toClient \in Seq(Pkt)
  BY DEF IInv, ClientType
<1>2. toClient' \in Seq(Pkt)
  BY <1>1, ConcatProperties DEF Read
<1>3. toBroker' \in Seq(Frag)
  <2>1. Len(toBroker) \in Int /\ Parts \in 1 .. 2
    BY <1>1 DEF Parts
  <2>2. \A i \in Parts + 1 .. Len(toBroker) : toBroker[i] \in Frag
    BY <1>1, <2>1
  <2>3. SubSeq(toBroker, Parts + 1, Len(toBroker)) \in Seq(Frag)
    BY <2>1, <2>2, SubSeqProperties
  <2> QED BY <2>3 DEF Read
<1>4. mq' = mq /\ UNCHANGED <<error, send_offset, pc, next, timeouts, pings, published, called, up>>
  BY DEF Read
<1> QED BY <1>2, <1>3, <1>4 DEF IInv, ClientType, Sending

\* One answer of the broker.
LEMMA OneAnswer ==
  ASSUME NEW t \in InTypes, t # "PUBLISH", NEW p \in Ids
  PROVE  <<Plain(t, p)>> \in Seq(Pkt)
  BY PlainPkt

LEMMA VerdictType ==
  ASSUME NEW t \in {"CONNACK", "SUBACK"}, NEW p \in Ids, NEW v \in Verdicts(Plain(t, p))
  PROVE  v \in Seq(Pkt)
<1> DEFINE a == Plain(t, p)
           b == [a EXCEPT !.ok = FALSE]
<1>1. a = [type |-> t, pid |-> p, qos |-> 0, id |-> 0, ok |-> TRUE]
  BY DEF Plain, Packet
<1>2. v = <<a>> \/ v = <<b>>
  BY DEF Verdicts
<1> HIDE DEF a
<1> DEFINE R == [type : InTypes, pid : Ids, qos : 0 .. 2, id : Nat, ok : BOOLEAN]
<1>3. a \in R /\ a.type = t /\ a.ok = TRUE
  BY <1>1 DEF InTypes
<1>4. b \in R /\ b.type = t
  BY <1>3
<1> HIDE DEF b
<1>5. a \in Pkt /\ b \in Pkt
  BY <1>3, <1>4 DEF Pkt
<1>6. <<a>> \in Seq(Pkt) /\ <<b>> \in Seq(Pkt)
  BY <1>5
<1> QED BY <1>2, <1>6

LEMMA BrokerReadsKeeps ==
  ASSUME IInv, BrokerReads
  PROVE  IInv'
<1> DEFINE m == toBroker[1].m
<1>1. m \in Msg /\ m.pid \in Ids /\ m.qos \in 0 .. 2
  BY ReadMsg DEF BrokerReads, Msg
<1>2. /\ delivered \in Seq(1 .. MaxPub) /\ bpublished \in Seq(0 .. 2) /\ flight \in SUBSET Pkt
  BY DEF IInv, BrokerType
<1>3. OnConnect(m) \/ OnSubscribe(m) \/ OnPublish(m) \/ OnPubrel(m) \/ OnPubrec(m) \/ OnAck(m)
      \/ OnPing(m)
  BY DEF BrokerReads
<1> HIDE DEF m
<1>4. SUFFICES BrokerType' /\ \E a \in Seq(Pkt) : Read(m, a)
  BY ReadKeeps DEF IInv
<1>5. << >> \in Seq(Pkt)
  OBVIOUS
<1>6. CASE OnConnect(m)
  <2>1. PICK v \in Verdicts(Plain("CONNACK", 0)) : Read(m, v)
    BY <1>6 DEF OnConnect
  <2>2. v \in Seq(Pkt)
    BY <2>1, VerdictType DEF Ids
  <2> QED BY <1>2, <1>6, <2>1, <2>2 DEF OnConnect, BrokerType
<1>7. CASE OnSubscribe(m)
  <2>1. PICK v \in Verdicts(Plain("SUBACK", m.pid)) : Read(m, v)
    BY <1>7 DEF OnSubscribe
  <2>2. v \in Seq(Pkt)
    BY <1>1, <2>1, VerdictType
  <2> QED BY <1>2, <1>7, <2>1, <2>2 DEF OnSubscribe, BrokerType
<1>8. CASE OnPublish(m)
  <2> DEFINE a == CASE m.qos = 0 -> << >>
                    [] m.qos = 1 -> <<Plain("PUBACK", m.pid)>>
                    [] m.qos = 2 -> <<Plain("PUBREC", m.pid)>>
  <2>1. Read(m, a)
    BY <1>8 DEF OnPublish
  <2>2. <<Plain("PUBACK", m.pid)>> \in Seq(Pkt) /\ <<Plain("PUBREC", m.pid)>> \in Seq(Pkt)
    BY <1>1, OneAnswer DEF InTypes
  <2>3. m.qos = 0 \/ m.qos = 1 \/ m.qos = 2
    BY <1>1
  <2>4. a \in Seq(Pkt)
    BY <1>5, <2>2, <2>3
  <2>5. m.id \in 1 .. MaxPub
    BY <1>1, <1>8 DEF OnPublish, Msg
  <2>6. delivered' \in Seq(1 .. MaxPub)
    <3>1. Append(delivered, m.id) \in Seq(1 .. MaxPub)
      BY <1>2, <2>5, AppendProperties
    <3>2. delivered' = delivered \/ delivered' = Append(delivered, m.id)
      BY <1>8 DEF OnPublish
    <3> QED BY <1>2, <3>1, <3>2
  <2>7. bpublished' = bpublished /\ flight' = flight
    BY <1>8 DEF OnPublish
  <2> HIDE DEF a
  <2> QED BY <1>2, <2>1, <2>4, <2>6, <2>7 DEF BrokerType
<1>9. CASE OnPubrel(m)
  <2>1. <<Plain("PUBCOMP", m.pid)>> \in Seq(Pkt)
    BY <1>1, OneAnswer DEF InTypes
  <2> QED BY <1>2, <1>9, <2>1 DEF OnPubrel, BrokerType
<1>10. CASE OnPubrec(m)
  <2>1. <<Plain("PUBREL", m.pid)>> \in Seq(Pkt)
    BY <1>1, OneAnswer DEF InTypes
  <2>2. Plain("PUBREL", m.pid) \in Pkt
    BY <1>1, PlainPkt DEF InTypes
  <2>3. flight' \in SUBSET Pkt
    BY <1>2, <1>10, <2>2 DEF OnPubrec
  <2> QED BY <1>2, <1>10, <2>1, <2>3 DEF OnPubrec, BrokerType
<1>11. CASE OnAck(m)
  <2>1. flight' \in SUBSET Pkt
    BY <1>2, <1>11 DEF OnAck
  <2> QED BY <1>2, <1>5, <1>11, <2>1 DEF OnAck, BrokerType
<1>12. CASE OnPing(m)
  <2>1. <<Plain("PINGRESP", 0)>> \in Seq(Pkt)
    BY OneAnswer DEF InTypes, Ids
  <2> QED BY <1>2, <1>12, <2>1 DEF OnPing, BrokerType, broker
<1> QED BY <1>3, <1>6, <1>7, <1>8, <1>9, <1>10, <1>11, <1>12

\* What the broker sends of its own.
LEMMA SendsKeeps ==
  ASSUME IInv, NEW p \in Pkt, BrokerSends(p)
  PROVE  ClientType' /\ Fits(mq') /\ Sending' /\ delivered' = delivered
<1>1. toClient' \in Seq(Pkt)
  <2>1. toClient \in Seq(Pkt)
    BY DEF IInv, ClientType
  <2> QED BY <2>1, AppendProperties DEF BrokerSends
<1> QED BY <1>1 DEF BrokerSends, IInv, ClientType, Sending

LEMMA BrokerPublishKeeps ==
  ASSUME IInv, NEW q \in BQos, BrokerPublish(q)
  PROVE  IInv'
<1>1. /\ delivered \in Seq(1 .. MaxPub) /\ bpublished \in Seq(0 .. 2) /\ flight \in SUBSET Pkt
      /\ MaxBPub \in Nat /\ q \in 0 .. 2 /\ Len(bpublished) \in Nat
  BY MqttSessionAssumption DEF IInv, BrokerType
<1>2. PICK n \in IF q = 0 THEN {0} ELSE FreePids :
         LET p == Packet("PUBLISH", n, q, Len(bpublished) + 1)
         IN  /\ BrokerSends(p)
             /\ flight' = IF q = 0 THEN flight ELSE flight \cup {p}
  BY DEF BrokerPublish
<1> DEFINE p == Packet("PUBLISH", n, q, Len(bpublished) + 1)
<1>3. n \in Ids
  BY <1>1 DEF FreePids, Ids
<1>4. Len(bpublished) < MaxBPub /\ bpublished' = Append(bpublished, q)
  BY DEF BrokerPublish
<1>5. p \in Pkt
  <2>1. p = [type |-> "PUBLISH", pid |-> n, qos |-> q, id |-> Len(bpublished) + 1, ok |-> TRUE]
    BY DEF Packet
  <2>2. Len(bpublished) + 1 \in 1 .. MaxBPub /\ Len(bpublished) + 1 \in Nat
    BY <1>1, <1>4
  <2> HIDE DEF p
  <2>3. p \in [type : InTypes, pid : Ids, qos : 0 .. 2, id : Nat, ok : BOOLEAN]
    BY <1>1, <1>3, <2>1, <2>2 DEF InTypes
  <2> QED BY <2>1, <2>2, <2>3 DEF Pkt
<1> HIDE DEF p
<1>6. BrokerSends(p) /\ flight' = IF q = 0 THEN flight ELSE flight \cup {p}
  BY <1>2 DEF p
<1>7. flight' \in SUBSET Pkt
  BY <1>1, <1>5, <1>6
<1>8. bpublished' \in Seq(0 .. 2)
  BY <1>1, <1>4, AppendProperties
<1> QED BY <1>1, <1>5, <1>6, <1>7, <1>8, SendsKeeps DEF IInv, BrokerType

\* The invariant is inductive.
LEMMA NextIInv == IInv /\ [Next]_vars => IInv'
<1> SUFFICES ASSUME IInv, [Next]_vars PROVE IInv'
  OBVIOUS
<1>1. CASE ClientNext /\ UNCHANGED broker
  <2>1. BrokerType'
    BY <1>1 DEF IInv, BrokerType, broker
  <2> QED BY <1>1, <2>1, ClientKeeps DEF IInv
<1>2. CASE BrokerReads
  BY <1>2, BrokerReadsKeeps
<1>3. CASE \E q \in BQos : BrokerPublish(q)
  BY <1>3, BrokerPublishKeeps
<1>4. CASE \E p \in flight : BrokerAgain(p)
  <2>1. PICK p \in flight : BrokerAgain(p)
    BY <1>4
  <2>2. p \in Pkt
    BY DEF IInv, BrokerType
  <2>3. BrokerType'
    BY <2>1, <2>2, SendsKeeps DEF IInv, BrokerAgain, BrokerType
  <2> QED BY <2>1, <2>2, <2>3, SendsKeeps DEF BrokerAgain, IInv
<1>5. CASE UNCHANGED vars
  BY <1>5 DEF vars, client, broker, IInv, ClientType, BrokerType, Sending
<1> QED BY <1>1, <1>2, <1>3, <1>4, <1>5 DEF Next

LEMMA IInvHolds == Spec => []IInv
  BY InitIInv, NextIInv, PTL DEF Spec

\* The types of the client's state, of its queue and of what the two sides
\* have made of each other's publications are right, for any number of
\* identifiers, messages, retransmissions and repetitions.
THEOREM TypeCorrect == Spec => []TypeOK
<1>1. IInv => TypeOK
  <2> SUFFICES ASSUME IInv PROVE TypeOK
    OBVIOUS
  <2>1. \A i \in 1 .. Len(mq) : mq[i].m.type \in Types /\ mq[i].state \in MqState
    <3> SUFFICES ASSUME NEW i \in 1 .. Len(mq)
                 PROVE  mq[i].m.type \in Types /\ mq[i].state \in MqState
      OBVIOUS
    <3>1. mq[i] \in QMsg
      BY DEF IInv, ClientType
    <3>2. mq[i].m \in Msg /\ mq[i].state \in MqState
      BY <3>1 DEF QMsg
    <3> QED BY <3>2 DEF Msg
  <2> QED BY <2>1 DEF IInv, ClientType, BrokerType, TypeOK, MqState
<1> QED BY <1>1, IInvHolds, PTL

\* __mqtt_send never has two QoS 2 PUBLISHes in flight (mqtt.c:538): behind the
\* first that is not complete every other is still unsent, also when one is
\* retransmitted or the connection takes half a packet.
THEOREM OneInflightHolds == Spec => []OneInflight
<1>1. IInv => OneInflight
  <2> SUFFICES ASSUME IInv PROVE OneInflight
    OBVIOUS
  <2> DEFINE S == {i \in 1 .. Len(mq) : Qos2(i) /\ mq[i].state = "AWAITING_ACK"}
  <2>1. \A i, j \in S : i = j
    <3> SUFFICES ASSUME NEW i \in S, NEW j \in S, i < j PROVE FALSE
      BY DEF IInv, ClientType
    <3> QED BY DEF IInv, Fits, InOrder, Qos2, Q2
  <2>2. CASE S = {}
    <3>1. Cardinality(S) = 0
      BY <2>2, FS_EmptySet
    <3> QED BY <3>1 DEF OneInflight
  <2>3. CASE S # {}
    <3>1. PICK x \in S : TRUE
      BY <2>3
    <3>2. S = {x}
      BY <2>1, <3>1
    <3>3. Cardinality(S) = 1
      BY <3>2, FS_Singleton
    <3> QED BY <3>3 DEF OneInflight
  <2> QED BY <2>2, <2>3
<1> QED BY <1>1, IInvHolds, PTL

\* Two exchanges that are open at once never share a packet identifier: the
\* identifier of a PUBLISH lives on in its PUBREL, and __mqtt_next_pid skips
\* whatever is in the queue (mqtt.c:85-112).
THEOREM DistinctPidsHolds == Spec => []DistinctPids
<1>1. IInv => DistinctPids
  <2> SUFFICES ASSUME IInv, NEW i \in 1 .. Len(mq), NEW j \in 1 .. Len(mq),
                      Open(i), Open(j), i # j
               PROVE  mq[i].m.pid # mq[j].m.pid
    BY DEF DistinctPids
  <2>1. Fits(mq)
    BY DEF IInv
  <2>2. ~Done(mq[i]) /\ ~Done(mq[j])
    BY DEF Open, Done
  <2>3. Drawn(mq[i]) \/ Rel(mq[i])
    BY DEF Open, Drawn, Rel
  <2>4. Drawn(mq[j]) \/ Rel(mq[j])
    BY DEF Open, Drawn, Rel
  <2> QED BY <2>1, <2>2, <2>3, <2>4 DEF Fits, DrawnDiffer, RelAfter, RelDiffer
<1> QED BY <1>1, IInvHolds, PTL
-----------------------------------------------------------------------------
\* The outbound exchange, where the application publishes at QoS 2.  The
\* invariant OutInv follows a publication from the queue to the broker and its
\* PUBREC, PUBREL and PUBCOMP back and forth.
\* The messages of a type that are not complete.
WaitOf(q, t) == {q[i].m : i \in {j \in 1 .. Len(q) : q[j].m.type = t /\ ~Done(q[j])}}
PubWait == WaitOf(mq, "PUBLISH")
RelWait == {m.pid : m \in WaitOf(mq, "PUBREL")}
Pending(e) == e.m.type = "PUBLISH" /\ ~Done(e)
Rising(q)  == \A i, j \in 1 .. Len(q) :
                 i < j /\ Pending(q[i]) /\ Pending(q[j]) => q[i].m.id < q[j].m.id

LEMMA InWait ==
  ASSUME NEW q, NEW t, NEW i \in 1 .. Len(q), q[i].m.type = t, ~Done(q[i])
  PROVE  q[i].m \in WaitOf(q, t)
  BY DEF WaitOf

\* The room that is made for a message takes complete ones only.
LEMMA RoomDropsDone ==
  ASSUME NEW q \in Seq(QMsg)
  PROVE  \E f \in 1 .. Len(q) + 1 : /\ Room(q) = SubSeq(q, f, Len(q))
                                    /\ \A i \in 1 .. f - 1 : Done(q[i])
<1> Len(q) \in Nat
  OBVIOUS
<1>1. CASE Len(q) < Cap
  <2>1. Room(q) = SubSeq(q, 1, Len(q))
    BY <1>1 DEF Room
  <2>2. 1 \in 1 .. Len(q) + 1 /\ \A i \in 1 .. 1 - 1 : Done(q[i])
    OBVIOUS
  <2> QED BY <2>1, <2>2
<1>2. CASE ~(Len(q) < Cap) /\ Incomplete(q) = {}
  <2>1. Room(q) = SubSeq(q, Len(q) + 1, Len(q))
    BY <1>2 DEF Room, mqtt_mq_clean
  <2>2. \A i \in 1 .. (Len(q) + 1) - 1 : Done(q[i])
    BY <1>2 DEF Incomplete, Done
  <2> QED BY <2>1, <2>2
<1>3. CASE ~(Len(q) < Cap) /\ Incomplete(q) # {}
  <2> DEFINE first == CHOOSE i \in Incomplete(q) : \A j \in Incomplete(q) : i <= j
  <2>1. Incomplete(q) \subseteq 1 .. Len(q)
    BY DEF Incomplete
  <2>2. \E i \in Incomplete(q) : \A j \in Incomplete(q) : i <= j
    BY <1>3, <2>1, LeastOfNat
  <2>3. first \in 1 .. Len(q) /\ \A j \in Incomplete(q) : first <= j
    BY <2>1, <2>2
  <2>4. Room(q) = SubSeq(q, first, Len(q))
    BY <1>3 DEF Room, mqtt_mq_clean
  <2> HIDE DEF first
  <2>5. \A i \in 1 .. first - 1 : i \in 1 .. Len(q) /\ i \notin Incomplete(q)
    BY <2>3
  <2>6. \A i \in 1 .. first - 1 : Done(q[i])
    BY <2>5 DEF Incomplete, Done
  <2>7. first \in 1 .. Len(q) + 1
    BY <2>3
  <2> QED BY <2>4, <2>6, <2>7
<1> QED BY <1>1, <1>2, <1>3

\* Making room loses nothing that waits and keeps the order.
LEMMA RoomWaits ==
  ASSUME NEW q \in Seq(QMsg)
  PROVE  /\ \A t : WaitOf(Room(q), t) = WaitOf(q, t)
         /\ Rising(q) => Rising(Room(q))
         /\ Room(q) \in Seq(QMsg)
<1>1. PICK f \in 1 .. Len(q) + 1 : /\ Room(q) = SubSeq(q, f, Len(q))
                                   /\ \A i \in 1 .. f - 1 : Done(q[i])
  BY RoomDropsDone
<1> DEFINE r == Room(q)
<1>2. /\ r \in Seq(QMsg)
      /\ Len(r) = Len(q) - f + 1
      /\ \A i \in 1 .. Len(q) - f + 1 : r[i] = q[f + i - 1]
  <2>1. f \in Int /\ Len(q) \in Int /\ Len(q) \in Nat
    OBVIOUS
  <2>2. \A i \in f .. Len(q) : q[i] \in QMsg
    BY <2>1
  <2>3. Len(r) = IF f <= Len(q) THEN Len(q) - f + 1 ELSE 0
    BY <1>1, <2>1, <2>2, SubSeqProperties
  <2>4. \A i \in 1 .. Len(q) - f + 1 : r[i] = q[f + i - 1]
    BY <1>1, <2>1, <2>2, SubSeqProperties
  <2>5. r \in Seq(QMsg)
    BY <1>1, <2>1, <2>2, SubSeqProperties
  <2> QED BY <2>1, <2>3, <2>4, <2>5
<1> HIDE DEF r
<1>3. \A i \in 1 .. Len(r) : f + i - 1 \in 1 .. Len(q) /\ r[i] = q[f + i - 1]
  <2>1. Len(q) \in Nat /\ Len(r) = Len(q) - f + 1
    BY <1>2
  <2>2. \A i \in 1 .. Len(r) : f + i - 1 \in 1 .. Len(q) /\ i \in 1 .. Len(q) - f + 1
    BY <2>1
  <2> QED BY <1>2, <2>2
<1>4. \A i \in 1 .. Len(q) : ~Done(q[i]) => i - f + 1 \in 1 .. Len(r) /\ r[i - f + 1] = q[i]
  <2> SUFFICES ASSUME NEW i \in 1 .. Len(q), ~Done(q[i])
               PROVE  i - f + 1 \in 1 .. Len(r) /\ r[i - f + 1] = q[i]
    OBVIOUS
  <2>1. Len(q) \in Nat /\ i \notin 1 .. f - 1
    BY <1>1
  <2>2. i - f + 1 \in 1 .. Len(r) /\ f + (i - f + 1) - 1 = i
    BY <1>2, <2>1
  <2> QED BY <1>3, <2>2
<1>5. ASSUME NEW t PROVE WaitOf(r, t) = WaitOf(q, t)
  <2>1. WaitOf(r, t) \subseteq WaitOf(q, t)
    BY <1>3 DEF WaitOf
  <2>2. WaitOf(q, t) \subseteq WaitOf(r, t)
    BY <1>4 DEF WaitOf
  <2> QED BY <2>1, <2>2
<1>6. ASSUME Rising(q) PROVE Rising(r)
  <2> SUFFICES ASSUME NEW i \in 1 .. Len(r), NEW j \in 1 .. Len(r),
                      i < j, Pending(r[i]), Pending(r[j])
               PROVE  r[i].m.id < r[j].m.id
    BY DEF Rising
  <2>1. f + i - 1 < f + j - 1
    BY <1>2
  <2> QED BY <1>3, <1>6, <2>1 DEF Rising
<1> QED BY <1>2, <1>5, <1>6 DEF r

LEMMA AppendWaits ==
  ASSUME NEW q \in Seq(QMsg), NEW m \in Msg
  PROVE  LET r == Append(q, Queued(m)) IN
         /\ \A t : WaitOf(r, t) = WaitOf(q, t) \cup IF m.type = t THEN {m} ELSE {}
         /\ Rising(q) /\ (m.type = "PUBLISH" => \A x \in WaitOf(q, "PUBLISH") : x.id < m.id)
            => Rising(r)
<1> DEFINE e == Queued(m)
           r == Append(q, e)
           n == Len(q) + 1
<1>1. e \in QMsg /\ e.m = m /\ e.state = "UNSENT"
  BY DEF QMsg, MqState, Queued
<1> HIDE DEF e
<1>2. /\ r \in Seq(QMsg) /\ Len(r) = n /\ n \in Nat
      /\ r[n] = e /\ n \in 1 .. Len(r)
      /\ \A i \in 1 .. Len(q) : r[i] = q[i] /\ i \in 1 .. Len(r)
  BY <1>1
<1> HIDE DEF r
<1>3. \A i \in 1 .. Len(r) : i # n => i \in 1 .. Len(q) /\ r[i] = q[i]
  BY <1>2
<1> HIDE DEF n
<1>4. ASSUME NEW t PROVE WaitOf(r, t) = WaitOf(q, t) \cup IF m.type = t THEN {m} ELSE {}
  <2>1. ~Done(r[n]) /\ r[n].m = m
    BY <1>1, <1>2 DEF Done
  <2>2. WaitOf(r, t) \subseteq WaitOf(q, t) \cup IF m.type = t THEN {m} ELSE {}
    BY <1>3, <2>1 DEF WaitOf
  <2>3. WaitOf(q, t) \subseteq WaitOf(r, t)
    BY <1>2 DEF WaitOf
  <2>4. m.type = t => m \in WaitOf(r, t)
    BY <1>2, <2>1 DEF WaitOf
  <2> QED BY <2>2, <2>3, <2>4
<1>5. ASSUME Rising(q), m.type = "PUBLISH" => \A x \in WaitOf(q, "PUBLISH") : x.id < m.id
      PROVE  Rising(r)
  <2> SUFFICES ASSUME NEW i \in 1 .. Len(r), NEW j \in 1 .. Len(r),
                      i < j, Pending(r[i]), Pending(r[j])
               PROVE  r[i].m.id < r[j].m.id
    BY DEF Rising
  <2>1. i # n
    BY <1>2
  <2>2. CASE j = n
    <3>1. m.type = "PUBLISH" /\ r[j].m = m
      BY <1>1, <1>2, <2>2 DEF Pending
    <3>2. r[i].m \in WaitOf(q, "PUBLISH")
      BY <1>3, <2>1 DEF WaitOf, Pending
    <3> QED BY <1>5, <3>1, <3>2
  <2>3. CASE j # n
    BY <1>3, <1>5, <2>1, <2>3 DEF Rising
  <2> QED BY <2>2, <2>3
<1> QED BY <1>4, <1>5 DEF r, e

\* What waits once a message has been staged.
LEMMA StagedWaits ==
  ASSUME NEW q \in Seq(QMsg), NEW m \in Msg
  PROVE  /\ \A t : WaitOf(Staged(q, m), t) =
                      WaitOf(q, t) \cup IF CanPack(q) /\ m.type = t THEN {m} ELSE {}
         /\ Rising(q) /\ (m.type = "PUBLISH" => \A x \in WaitOf(q, "PUBLISH") : x.id < m.id)
            => Rising(Staged(q, m))
<1>1. /\ \A t : WaitOf(Room(q), t) = WaitOf(q, t)
      /\ Rising(q) => Rising(Room(q))
      /\ Room(q) \in Seq(QMsg)
  BY RoomWaits
<1>2. CASE CanPack(q)
  <2> DEFINE r == Append(Room(q), Queued(m))
  <2>1. /\ \A t : WaitOf(r, t) = WaitOf(Room(q), t) \cup IF m.type = t THEN {m} ELSE {}
        /\ Rising(Room(q)) /\ (m.type = "PUBLISH" =>
              \A x \in WaitOf(Room(q), "PUBLISH") : x.id < m.id) => Rising(r)
    BY <1>1, AppendWaits
  <2>2. Staged(q, m) = r
    BY <1>2 DEF Staged
  <2> HIDE DEF r
  <2>3. \A t : WaitOf(r, t) = WaitOf(q, t) \cup IF CanPack(q) /\ m.type = t THEN {m} ELSE {}
    BY <1>1, <1>2, <2>1
  <2> QED BY <1>1, <2>1, <2>2, <2>3
<1>3. CASE ~CanPack(q)
  <2>1. Staged(q, m) = Room(q) \/ Staged(q, m) = q
    BY <1>3 DEF Staged
  <2>2. \A t : WaitOf(Staged(q, m), t) = WaitOf(q, t)
    BY <1>1, <2>1
  <2>3. \A t : WaitOf(q, t) = WaitOf(q, t) \cup IF CanPack(q) /\ m.type = t THEN {m} ELSE {}
    BY <1>3
  <2> QED BY <1>1, <2>1, <2>2, <2>3
<1> QED BY <1>2, <1>3

\* What waits once a message has moved forward.
LEMMA ForwardWaits ==
  ASSUME NEW q \in Seq(QMsg), NEW k \in 1 .. Len(q),
         NEW s \in {"AWAITING_ACK", "COMPLETE"},
         s = "COMPLETE" \/ ~Done(q[k])
  PROVE  LET r == [q EXCEPT ![k].state = s] IN
         /\ r \in Seq(QMsg)
         /\ \A t : WaitOf(r, t) \subseteq WaitOf(q, t)
         /\ \A t, m : m \in WaitOf(q, t) =>
               m \in WaitOf(r, t) \/ (s = "COMPLETE" /\ m = q[k].m /\ q[k].m.type = t)
         /\ Rising(q) => Rising(r)
<1> DEFINE r == [q EXCEPT ![k].state = s]
           e == [q[k] EXCEPT !.state = s]
<1>0. e \in QMsg /\ e.m = q[k].m /\ e.state = s
  <2>1. q[k] \in QMsg
    OBVIOUS
  <2>2. q[k].m \in Msg /\ e = [m |-> q[k].m, state |-> s]
    BY <2>1 DEF QMsg
  <2> QED BY <2>2 DEF QMsg, MqState
<1>1. r \in Seq(QMsg) /\ Len(r) = Len(q)
  <2>1. r = [q EXCEPT ![k] = e]
    OBVIOUS
  <2> HIDE DEF r, e
  <2> QED BY <1>0, <2>1, ExceptSeq
<1>2. \A i \in 1 .. Len(q) : /\ i # k => r[i] = q[i]
                            /\ r[i].m = q[i].m
                            /\ r[i].state = IF i = k THEN s ELSE q[i].state
  BY DEF QMsg
<1> HIDE DEF r
<1>3. \A i \in 1 .. Len(q) : ~Done(r[i]) => ~Done(q[i])
  BY <1>2 DEF Done
<1>4. \A i \in 1 .. Len(q) : ~Done(q[i]) => ~Done(r[i]) \/ (i = k /\ s = "COMPLETE")
  BY <1>2 DEF Done
<1>5. ASSUME NEW t PROVE WaitOf(r, t) \subseteq WaitOf(q, t)
  BY <1>1, <1>2, <1>3 DEF WaitOf
<1>6. ASSUME NEW t, NEW m, m \in WaitOf(q, t)
      PROVE  m \in WaitOf(r, t) \/ (s = "COMPLETE" /\ m = q[k].m /\ q[k].m.type = t)
  <2>1. PICK i \in 1 .. Len(q) : q[i].m.type = t /\ ~Done(q[i]) /\ m = q[i].m
    BY <1>6 DEF WaitOf
  <2>2. CASE ~Done(r[i])
    <3>1. i \in 1 .. Len(r) /\ r[i].m.type = t /\ r[i].m = m
      BY <1>1, <1>2, <2>1
    <3>2. r[i].m \in WaitOf(r, t)
      BY <2>2, <3>1, InWait
    <3> QED BY <3>1, <3>2
  <2>3. CASE i = k /\ s = "COMPLETE"
    BY <2>1, <2>3
  <2> QED BY <1>4, <2>1, <2>2, <2>3
<1>7. Rising(q) => Rising(r)
  BY <1>1, <1>2, <1>3 DEF Rising, Pending
<1> QED BY <1>1, <1>5, <1>6, <1>7 DEF r
-----------------------------------------------------------------------------
\* What is on the connection: a packet of the client, or an answer to one.
Sent(i, t, p)  == toBroker[i].m.type = t /\ toBroker[i].m.pid = p
Comes(i, t, p) == toClient[i].type = t /\ toClient[i].pid = p
IsSent(t, p)   == \E i \in 1 .. Len(toBroker) : Sent(i, t, p)
IsComing(t, p) == \E i \in 1 .. Len(toClient) : Comes(i, t, p)
PubSent(i)     == toBroker[i].m.type = "PUBLISH"

\* Both sides number the publications from 1; they are all of QoS 2.
Numbered == /\ \A i \in 1 .. Len(published) : published[i] = i
            /\ \A i \in 1 .. Len(delivered) : delivered[i] = i
            /\ Len(delivered) <= Len(published)
WaitReal == /\ \A m \in PubWait : m.qos = 2 /\ m.pid \in Pids /\ m.id \in 1 .. Len(published)
            /\ RelWait \subseteq Pids
SentReal == \A i \in 1 .. Len(toBroker) :
               /\ toBroker[i].m.type \in {"PUBLISH", "PUBREL"} => toBroker[i].m.pid \in Pids
               /\ PubSent(i) => toBroker[i].m.qos = 2
ComesReal == \A i \in 1 .. Len(toClient) :
               /\ toClient[i].type # "PUBACK"
               /\ toClient[i].type \in {"PUBREC", "PUBCOMP"} => toClient[i].pid \in Pids

\* What the broker has not delivered waits, and only the next is on its way.
NoneMissing == \A n \in Len(delivered) + 1 .. Len(published) : \E m \in PubWait : m.id = n
OnlyNext    == \A i \in 1 .. Len(toBroker) :
                  PubSent(i) /\ toBroker[i].m.id > Len(delivered)
                  => toBroker[i].m.id = Len(delivered) + 1 /\ toBroker[i].m \in PubWait

\* The broker knows the identifier of a PUBLISH that comes again; a PUBREL
\* before a PUBLISH of its identifier is of an earlier exchange, one behind it
\* of the same.
RepeatKnown == \A i \in 1 .. Len(toBroker) :
                  PubSent(i) /\ toBroker[i].m.id <= Len(delivered)
                  => toBroker[i].m.pid \in rcvd
RelBefore   == \A i, j \in 1 .. Len(toBroker) :
                  i < j /\ PubSent(j) /\ Sent(i, "PUBREL", toBroker[j].m.pid)
                  => toBroker[j].m.id > Len(delivered)
RelBehind   == \A i, j \in 1 .. Len(toBroker) :
                  i < j /\ PubSent(i) /\ Sent(j, "PUBREL", toBroker[i].m.pid)
                  => toBroker[i].m.id <= Len(delivered)

\* A PUBLISH that waits although it is delivered awaits its PUBREC; one that
\* is not delivered has an identifier the broker does not know.
WaitKnown   == \A m \in PubWait : m.id <= Len(delivered) =>
                  m.pid \in rcvd /\ ~IsSent("PUBREL", m.pid)
WaitUnknown == \A m \in PubWait : m.id > Len(delivered) =>
                  m.pid \notin rcvd /\ ~IsComing("PUBREC", m.pid)

\* Unless the client is in error, an identifier is known, or a PUBREC comes,
\* only while its exchange is open.
OpenPid(p)  == p \in RelWait \/ \E m \in PubWait : m.pid = p
KnownOpen   == error = "OK" => \A p \in rcvd : OpenPid(p)
RecOpen     == error = "OK" => \A p \in Pids : IsComing("PUBREC", p) => OpenPid(p)

\* The order of the answers: a PUBCOMP that comes means that the broker has
\* forgotten the identifier of a PUBREL that waits; a PUBREC comes before it
\* in the same exchange and behind it in the next.
CompForgot  == \A p \in RelWait : IsComing("PUBCOMP", p) => p \notin rcvd
CompBehind  == error = "OK" => \A i, j \in 1 .. Len(toClient), p \in Pids :
                  i < j /\ Comes(i, "PUBREC", p) /\ Comes(j, "PUBCOMP", p) => p \in RelWait
RelFollows  == error = "OK" => \A p \in Pids :
                  IsComing("PUBREC", p) /\ IsSent("PUBREL", p) => p \in RelWait
RecBehind   == \A i, j \in 1 .. Len(toClient), p \in Pids :
                  i < j /\ Comes(i, "PUBCOMP", p) /\ Comes(j, "PUBREC", p) => p \notin RelWait

Typed    == Numbered /\ WaitReal /\ SentReal /\ ComesReal /\ Rising(mq)
OnTheWay == NoneMissing /\ OnlyNext /\ RepeatKnown /\ RelBefore /\ RelBehind
Known    == WaitKnown /\ WaitUnknown /\ KnownOpen /\ RecOpen
Answered == CompForgot /\ CompBehind /\ RelFollows /\ RecBehind
OutInv   == Typed /\ OnTheWay /\ Known /\ Answered
-----------------------------------------------------------------------------
\* What is on the connection after a step that puts nothing of the exchanges
\* on it: nothing, what was there, or a suffix of that.
OutSuffix == \E s \in Nat : \A i \in 1 .. Len(toBroker') :
                toBroker'[i].m.type \in {"PUBLISH", "PUBREL"} =>
                   i + s \in 1 .. Len(toBroker) /\ toBroker'[i] = toBroker[i + s]
InSuffix  == \E s \in Nat : \A i \in 1 .. Len(toClient') :
                toClient'[i].type \in {"PUBACK", "PUBREC", "PUBCOMP"} =>
                   i + s \in 1 .. Len(toClient) /\ toClient'[i] = toClient[i + s]
Quiet == /\ PubWait' = PubWait /\ RelWait' = RelWait /\ Rising(mq')
         /\ UNCHANGED <<published, delivered, rcvd>>
         /\ error' = "OK" => error = "OK"
         /\ OutSuffix /\ InSuffix

LEMMA SameOut == toBroker' = toBroker => OutSuffix
<1> SUFFICES ASSUME toBroker' = toBroker PROVE OutSuffix
  OBVIOUS
<1>1. 0 \in Nat /\ \A i \in 1 .. Len(toBroker') : i + 0 \in 1 .. Len(toBroker) /\ i + 0 = i
  OBVIOUS
<1>2. \A i \in 1 .. Len(toBroker') : toBroker'[i] = toBroker[i + 0]
  BY <1>1
<1> QED BY <1>1, <1>2 DEF OutSuffix

LEMMA SameIn == toClient' = toClient => InSuffix
<1> SUFFICES ASSUME toClient' = toClient PROVE InSuffix
  OBVIOUS
<1>1. 0 \in Nat /\ \A i \in 1 .. Len(toClient') : i + 0 \in 1 .. Len(toClient) /\ i + 0 = i
  OBVIOUS
<1>2. \A i \in 1 .. Len(toClient') : toClient'[i] = toClient[i + 0]
  BY <1>1
<1> QED BY <1>1, <1>2 DEF InSuffix

LEMMA QuietKeeps ==
  ASSUME OutInv, Quiet
  PROVE  OutInv'
<1>0. /\ PubWait' = PubWait /\ RelWait' = RelWait /\ Rising(mq)'
      /\ published' = published /\ delivered' = delivered /\ rcvd' = rcvd
      /\ error' = "OK" => error = "OK"
  BY DEF Quiet
<1>1. PICK s \in Nat : \A i \in 1 .. Len(toBroker') :
                toBroker'[i].m.type \in {"PUBLISH", "PUBREL"} =>
                   i + s \in 1 .. Len(toBroker) /\ toBroker'[i] = toBroker[i + s]
  BY DEF Quiet, OutSuffix
<1>2. PICK u \in Nat : \A i \in 1 .. Len(toClient') :
                toClient'[i].type \in {"PUBACK", "PUBREC", "PUBCOMP"} =>
                   i + u \in 1 .. Len(toClient) /\ toClient'[i] = toClient[i + u]
  BY DEF Quiet, InSuffix
<1>3. \A i, j : i \in 1 .. Len(toBroker') /\ j \in 1 .. Len(toBroker') /\ i < j => i + s < j + s
  OBVIOUS
<1>4. \A i, j : i \in 1 .. Len(toClient') /\ j \in 1 .. Len(toClient') /\ i < j => i + u < j + u
  OBVIOUS
<1>5. \A p : IsSent("PUBREL", p)' => IsSent("PUBREL", p)
  BY <1>1 DEF IsSent, Sent
<1>6. \A p : IsComing("PUBREC", p)' => IsComing("PUBREC", p)
  BY <1>2 DEF IsComing, Comes
<1>7. \A p : IsComing("PUBCOMP", p)' => IsComing("PUBCOMP", p)
  BY <1>2 DEF IsComing, Comes
<1>8. Typed'
  <2>1. Numbered' /\ WaitReal'
    BY <1>0 DEF OutInv, Typed, Numbered, WaitReal
  <2>2. SentReal'
    BY <1>1 DEF OutInv, Typed, SentReal, PubSent
  <2>3. ComesReal'
    BY <1>2 DEF OutInv, Typed, ComesReal
  <2> QED BY <1>0, <2>1, <2>2, <2>3 DEF Typed
<1>9. OnTheWay'
  <2>1. NoneMissing'
    BY <1>0 DEF OutInv, OnTheWay, NoneMissing
  <2>2. OnlyNext'
    BY <1>0, <1>1 DEF OutInv, OnTheWay, OnlyNext, PubSent
  <2>3. RepeatKnown'
    BY <1>0, <1>1 DEF OutInv, OnTheWay, RepeatKnown, PubSent
  <2>4. RelBefore'
    BY <1>0, <1>1, <1>3 DEF OutInv, OnTheWay, RelBefore, PubSent, Sent
  <2>5. RelBehind'
    BY <1>0, <1>1, <1>3 DEF OutInv, OnTheWay, RelBehind, PubSent, Sent
  <2> QED BY <2>1, <2>2, <2>3, <2>4, <2>5 DEF OnTheWay
<1>10. Known'
  <2>0. \A p : OpenPid(p)' <=> OpenPid(p)
    BY <1>0 DEF OpenPid
  <2>1. WaitKnown'
    BY <1>0, <1>5 DEF OutInv, Known, WaitKnown
  <2>2. WaitUnknown'
    BY <1>0, <1>6 DEF OutInv, Known, WaitUnknown
  <2>3. KnownOpen'
    BY <1>0, <2>0 DEF OutInv, Known, KnownOpen
  <2>4. RecOpen'
    BY <1>0, <1>6, <2>0 DEF OutInv, Known, RecOpen
  <2> QED BY <2>1, <2>2, <2>3, <2>4 DEF Known
<1>11. Answered'
  <2>1. CompForgot'
    BY <1>0, <1>7 DEF OutInv, Answered, CompForgot
  <2>2. CompBehind'
    BY <1>0, <1>2, <1>4 DEF OutInv, Answered, CompBehind, Comes
  <2>3. RelFollows'
    BY <1>0, <1>5, <1>6 DEF OutInv, Answered, RelFollows
  <2>4. RecBehind'
    BY <1>0, <1>2, <1>4 DEF OutInv, Answered, RecBehind, Comes
  <2> QED BY <2>1, <2>2, <2>3, <2>4 DEF Answered
<1> QED BY <1>8, <1>9, <1>10, <1>11 DEF OutInv
-----------------------------------------------------------------------------
\* A queue in which the same publications and releases wait.
SameWaits(q) == /\ q \in Seq(QMsg) /\ Rising(q)
                /\ WaitOf(q, "PUBLISH") = PubWait
                /\ WaitOf(q, "PUBREL") = WaitOf(mq, "PUBREL")

LEMMA SameNow == ASSUME IInv, OutInv PROVE SameWaits(mq)
  BY DEF SameWaits, IInv, ClientType, OutInv, Typed, PubWait

LEMMA StagedSame ==
  ASSUME NEW q, SameWaits(q), NEW m \in Msg, m.type \notin {"PUBLISH", "PUBREL"}
  PROVE  /\ WaitOf(Staged(q, m), "PUBLISH") = PubWait
         /\ WaitOf(Staged(q, m), "PUBREL") = WaitOf(mq, "PUBREL")
         /\ Rising(Staged(q, m))
<1>1. q \in Seq(QMsg) /\ Rising(q)
  BY DEF SameWaits
<1>2. \A t : WaitOf(Staged(q, m), t) = WaitOf(q, t) \cup IF CanPack(q) /\ m.type = t THEN {m} ELSE {}
  BY <1>1, StagedWaits
<1>3. Rising(Staged(q, m))
  BY <1>1, StagedWaits
<1>4. WaitOf(Staged(q, m), "PUBLISH") = WaitOf(q, "PUBLISH")
  BY <1>2
<1>5. WaitOf(Staged(q, m), "PUBREL") = WaitOf(q, "PUBREL")
  BY <1>2
<1> QED BY <1>3, <1>4, <1>5 DEF SameWaits

LEMMA ReleasedWaits ==
  ASSUME IInv, NEW i \in 1 .. Len(mq)
  PROVE  /\ Released(i) \in Seq(QMsg)
         /\ \A t : WaitOf(Released(i), t) \subseteq WaitOf(mq, t)
         /\ \A t, m : m \in WaitOf(mq, t) =>
               m \in WaitOf(Released(i), t) \/ (m = mq[i].m /\ mq[i].m.type = t)
         /\ Rising(mq) => Rising(Released(i))
<1>1. mq \in Seq(QMsg) /\ "COMPLETE" \in {"AWAITING_ACK", "COMPLETE"}
  BY DEF IInv, ClientType
<1>2. \A s \in {"AWAITING_ACK", "COMPLETE"} : s = "COMPLETE" =>
         LET r == [mq EXCEPT ![i].state = s] IN
         /\ r \in Seq(QMsg)
         /\ \A t : WaitOf(r, t) \subseteq WaitOf(mq, t)
         /\ \A t, m : m \in WaitOf(mq, t) =>
               m \in WaitOf(r, t) \/ (s = "COMPLETE" /\ m = mq[i].m /\ mq[i].m.type = t)
         /\ Rising(mq) => Rising(r)
  <2> SUFFICES ASSUME NEW s \in {"AWAITING_ACK", "COMPLETE"}, s = "COMPLETE"
               PROVE  LET r == [mq EXCEPT ![i].state = s] IN
                      /\ r \in Seq(QMsg)
                      /\ \A t : WaitOf(r, t) \subseteq WaitOf(mq, t)
                      /\ \A t, m : m \in WaitOf(mq, t) =>
                            m \in WaitOf(r, t) \/ (s = "COMPLETE" /\ m = mq[i].m /\ mq[i].m.type = t)
                      /\ Rising(mq) => Rising(r)
    OBVIOUS
  <2> QED BY <1>1, ForwardWaits
<1> QED BY <1>1, <1>2 DEF Released

LEMMA ReleasedSame ==
  ASSUME IInv, OutInv, NEW i \in 1 .. Len(mq), mq[i].m.type \notin {"PUBLISH", "PUBREL"}
  PROVE  SameWaits(Released(i))
<1>1. \A t : WaitOf(Released(i), t) \subseteq WaitOf(mq, t)
  BY ReleasedWaits
<1>2. \A t, m : m \in WaitOf(mq, t) =>
               m \in WaitOf(Released(i), t) \/ (m = mq[i].m /\ mq[i].m.type = t)
  BY ReleasedWaits
<1>3. Released(i) \in Seq(QMsg) /\ Rising(Released(i))
  BY ReleasedWaits DEF OutInv, Typed
<1>4. WaitOf(Released(i), "PUBLISH") = WaitOf(mq, "PUBLISH")
  <2>1. WaitOf(mq, "PUBLISH") \subseteq WaitOf(Released(i), "PUBLISH")
    BY <1>2
  <2> QED BY <1>1, <2>1
<1>5. WaitOf(Released(i), "PUBREL") = WaitOf(mq, "PUBREL")
  <2>1. WaitOf(mq, "PUBREL") \subseteq WaitOf(Released(i), "PUBREL")
    BY <1>2
  <2> QED BY <1>1, <2>1
<1> QED BY <1>3, <1>4, <1>5 DEF SameWaits, PubWait

\* What the client has taken of the connection is the first packet.
LEMMA TailTaken ==
  ASSUME IInv, toClient # << >>, toClient' = Tail(toClient)
  PROVE  /\ \A i \in 1 .. Len(toClient') : /\ i + 1 \in 2 .. Len(toClient)
                                           /\ toClient'[i] = toClient[i + 1]
         /\ 1 \in 1 .. Len(toClient) /\ Head(toClient) = toClient[1]
         /\ InSuffix
<1>1. toClient \in Seq(Pkt)
  BY DEF IInv, ClientType
<1>2. /\ \A i \in 1 .. Len(toClient') : /\ i + 1 \in 2 .. Len(toClient)
                                        /\ toClient'[i] = toClient[i + 1]
      /\ 1 \in 1 .. Len(toClient) /\ Head(toClient) = toClient[1]
  BY <1>1
<1>3. 1 \in Nat /\ \A i \in 1 .. Len(toClient') : i + 1 \in 1 .. Len(toClient)
  BY <1>2
<1>4. InSuffix
  BY <1>2, <1>3 DEF InSuffix
<1> QED BY <1>2, <1>4

\* A packet that is handled without effect on the exchanges of the client.
LEMMA HandleQuiet ==
  ASSUME IInv, OutInv, toClient # << >>, NEW e, NEW ret, Handle(e, ret),
         e = "OK" => error = "OK",
         WaitOf(mq', "PUBLISH") = PubWait, WaitOf(mq', "PUBREL") = WaitOf(mq, "PUBREL"),
         Rising(mq'), UNCHANGED <<delivered, rcvd>>
  PROVE  OutInv'
<1>1. toClient' = Tail(toClient) /\ error' = e /\ toBroker' = toBroker /\ published' = published
  BY DEF Handle
<1>2. InSuffix
  BY <1>1, TailTaken
<1>3. OutSuffix
  BY <1>1, SameOut
<1>4. PubWait' = PubWait /\ RelWait' = RelWait
  BY DEF PubWait, RelWait
<1>5. Quiet
  BY <1>1, <1>2, <1>3, <1>4 DEF Quiet
<1> QED BY <1>5, QuietKeeps

LEMMA AnswerQuiet ==
  ASSUME IInv, OutInv, toClient # << >>, NEW q, SameWaits(q),
         NEW t \in Types \ {"PUBLISH", "PUBREL"}, NEW p \in Ids, Answer(q, t, p),
         UNCHANGED <<delivered, rcvd>>
  PROVE  OutInv'
<1>1. mq' = Staged(q, Plain(t, p)) /\ Handle(StageError(q), StageError(q))
  BY DEF Answer, Failed
<1>2. Plain(t, p) \in Msg /\ Plain(t, p).type = t
  BY PlainMsg
<1>3. /\ WaitOf(mq', "PUBLISH") = PubWait
      /\ WaitOf(mq', "PUBREL") = WaitOf(mq, "PUBREL")
      /\ Rising(mq')
  BY <1>1, <1>2, StagedSame
<1>4. StageError(q) = "OK" => error = "OK"
  BY DEF StageError
<1> QED BY <1>1, <1>3, <1>4, HandleQuiet
-----------------------------------------------------------------------------
LEMMA RecvPublishOut ==
  ASSUME IInv, OutInv, toClient # << >>, NEW p \in Pkt, RecvPublish(p),
         UNCHANGED <<delivered, rcvd>>
  PROVE  OutInv'
<1>1. SameWaits(mq) /\ p.pid \in Ids
  BY SameNow DEF Pkt
<1>2. CASE p.qos = 0 /\ Handled /\ UNCHANGED mq
  <2>1. /\ WaitOf(mq', "PUBLISH") = PubWait
        /\ WaitOf(mq', "PUBREL") = WaitOf(mq, "PUBREL")
        /\ Rising(mq')
    BY <1>1, <1>2 DEF SameWaits
  <2> QED BY <1>2, <2>1, HandleQuiet DEF Handled
<1>3. CASE Answer(mq, IF p.qos = 1 THEN "PUBACK" ELSE "PUBREC", p.pid)
  <2> DEFINE t == IF p.qos = 1 THEN "PUBACK" ELSE "PUBREC"
  <2>1. t \in Types \ {"PUBLISH", "PUBREL"} /\ Answer(mq, t, p.pid)
    BY <1>3 DEF Types
  <2> HIDE DEF t
  <2> QED BY <1>1, <2>1, AnswerQuiet
<1>4. CASE Handled /\ UNCHANGED <<mq, called>>
  <2>1. /\ WaitOf(mq', "PUBLISH") = PubWait
        /\ WaitOf(mq', "PUBREL") = WaitOf(mq, "PUBREL")
        /\ Rising(mq')
    BY <1>1, <1>4 DEF SameWaits
  <2> QED BY <1>4, <2>1, HandleQuiet DEF Handled
<1> QED BY <1>2, <1>3, <1>4 DEF RecvPublish

\* An acknowledgement of nothing the client knows.
LEMMA UnknownOut ==
  ASSUME IInv, OutInv, toClient # << >>, Failed("ACK_OF_UNKNOWN"), UNCHANGED mq,
         UNCHANGED <<delivered, rcvd>>
  PROVE  OutInv'
<1>1. SameWaits(mq)
  BY SameNow
<1>2. /\ WaitOf(mq', "PUBLISH") = PubWait
      /\ WaitOf(mq', "PUBREL") = WaitOf(mq, "PUBREL")
      /\ Rising(mq')
  BY <1>1 DEF SameWaits
<1> QED BY <1>2, HandleQuiet DEF Failed

LEMMA RecvPubrelOut ==
  ASSUME IInv, OutInv, toClient # << >>, NEW p \in Pkt, RecvPubrel(p),
         UNCHANGED <<delivered, rcvd>>
  PROVE  OutInv'
<1> DEFINE i == mqtt_mq_find("PUBREC", p.pid)
<1>1. CASE i = 0 /\ Failed("ACK_OF_UNKNOWN") /\ UNCHANGED mq
  BY <1>1, UnknownOut
<1>2. CASE i # 0 /\ Answer(Released(i), "PUBCOMP", p.pid)
  <2>1. mq \in Seq(QMsg) /\ p.pid \in Ids /\ "PUBCOMP" \in Types \ {"PUBLISH", "PUBREL"}
    BY DEF IInv, ClientType, Pkt, Types
  <2>2. i \in 1 .. Len(mq) /\ mq[i].m.type = "PUBREC"
    BY <1>2, <2>1, FindSound
  <2> HIDE DEF i
  <2>3. SameWaits(Released(i))
    BY <2>2, ReleasedSame
  <2> QED BY <1>2, <2>1, <2>3, AnswerQuiet
<1> QED BY <1>1, <1>2 DEF RecvPubrel, Exchange

\* A PUBCOMP releases the PUBREL of its identifier: nothing of that exchange
\* is left that the broker still knows.
LEMMA CompTaken ==
  ASSUME IInv, OutInv, toClient # << >>, toClient' = Tail(toClient),
         NEW x, Comes(1, "PUBCOMP", x),
         PubWait' = PubWait, RelWait' \subseteq RelWait,
         \A y \in RelWait : y \in RelWait' \/ y = x,
         Rising(mq)', error' = "OK" => error = "OK",
         UNCHANGED <<published, delivered, rcvd, toBroker>>
  PROVE  OutInv'
<1>0. /\ \A i \in 1 .. Len(toClient') : /\ i + 1 \in 2 .. Len(toClient)
                                        /\ toClient'[i] = toClient[i + 1]
      /\ 1 \in 1 .. Len(toClient)
  BY TailTaken
<1>1. \A i \in 1 .. Len(toClient') : i + 1 \in 1 .. Len(toClient) /\ 1 < i + 1
  BY <1>0
<1>2. \A i, j \in 1 .. Len(toClient') : i < j => i + 1 < j + 1
  OBVIOUS
<1>3. \A t, p : IsComing(t, p)' => \E j \in 1 .. Len(toClient) : 1 < j /\ Comes(j, t, p)
  BY <1>0, <1>1 DEF IsComing, Comes
<1>4. \A t, p : IsComing(t, p)' => IsComing(t, p)
  BY <1>3 DEF IsComing
<1>5. x \in Pids
  BY <1>0 DEF OutInv, Typed, ComesReal, Comes
<1>6. IsComing("PUBCOMP", x)
  BY <1>0 DEF IsComing
<1>7. IsComing("PUBREC", x)' => x \notin RelWait
  BY <1>0, <1>3, <1>5 DEF OutInv, Answered, RecBehind
<1>8. x \in RelWait => x \notin rcvd
  BY <1>6 DEF OutInv, Answered, CompForgot
<1>9. \A y : y # x => (OpenPid(y) => OpenPid(y)')
  BY DEF OpenPid
<1>10. x \notin RelWait => RelWait' = RelWait
  OBVIOUS
<1>11. Typed'
  <2>1. Numbered' /\ WaitReal'
    BY DEF OutInv, Typed, Numbered, WaitReal
  <2>2. SentReal'
    BY DEF OutInv, Typed, SentReal, PubSent
  <2>3. ComesReal'
    BY <1>0, <1>1 DEF OutInv, Typed, ComesReal
  <2> QED BY <2>1, <2>2, <2>3 DEF Typed
<1>12. OnTheWay'
  BY DEF OutInv, OnTheWay, NoneMissing, OnlyNext, RepeatKnown, RelBefore, RelBehind, PubSent, Sent
<1>13. Known'
  <2>1. WaitKnown'
    BY DEF OutInv, Known, WaitKnown, IsSent, Sent
  <2>2. WaitUnknown'
    BY <1>4 DEF OutInv, Known, WaitUnknown
  <2>3. KnownOpen'
    <3> SUFFICES ASSUME error = "OK", NEW p \in rcvd PROVE OpenPid(p)'
      BY DEF KnownOpen
    <3>1. OpenPid(p)
      BY DEF OutInv, Known, KnownOpen
    <3>2. CASE p # x
      BY <1>9, <3>1, <3>2
    <3>3. CASE p = x
      BY <1>8, <1>10, <3>1, <3>3 DEF OpenPid
    <3> QED BY <3>2, <3>3
  <2>4. RecOpen'
    <3> SUFFICES ASSUME error = "OK", NEW p \in Pids, IsComing("PUBREC", p)' PROVE OpenPid(p)'
      BY DEF RecOpen
    <3>1. OpenPid(p)
      BY <1>4 DEF OutInv, Known, RecOpen
    <3>2. CASE p # x
      BY <1>9, <3>1, <3>2
    <3>3. CASE p = x
      BY <1>7, <1>10, <3>1, <3>3 DEF OpenPid
    <3> QED BY <3>2, <3>3
  <2> QED BY <2>1, <2>2, <2>3, <2>4 DEF Known
<1>14. Answered'
  <2>1. CompForgot'
    BY <1>4 DEF OutInv, Answered, CompForgot
  <2>2. CompBehind'
    <3> SUFFICES ASSUME error = "OK", NEW i \in 1 .. Len(toClient'), NEW j \in 1 .. Len(toClient'),
                        NEW p \in Pids, i < j, Comes(i, "PUBREC", p)', Comes(j, "PUBCOMP", p)'
                 PROVE  p \in RelWait'
      BY DEF CompBehind
    <3>1. Comes(i + 1, "PUBREC", p) /\ Comes(j + 1, "PUBCOMP", p)
      BY <1>0 DEF Comes
    <3>2. p \in RelWait
      BY <1>1, <1>2, <3>1 DEF OutInv, Answered, CompBehind
    <3>3. IsComing("PUBREC", p)'
      BY DEF IsComing
    <3> QED BY <1>7, <3>2, <3>3
  <2>3. RelFollows'
    <3> SUFFICES ASSUME error = "OK", NEW p \in Pids, IsComing("PUBREC", p)', IsSent("PUBREL", p)'
                 PROVE  p \in RelWait'
      BY DEF RelFollows
    <3>1. IsSent("PUBREL", p)
      BY DEF IsSent, Sent
    <3>2. p \in RelWait
      BY <1>4, <3>1 DEF OutInv, Answered, RelFollows
    <3> QED BY <1>7, <3>2
  <2>4. RecBehind'
    <3> SUFFICES ASSUME NEW i \in 1 .. Len(toClient'), NEW j \in 1 .. Len(toClient'),
                        NEW p \in Pids, i < j, Comes(i, "PUBCOMP", p)', Comes(j, "PUBREC", p)'
                 PROVE  p \notin RelWait'
      BY DEF RecBehind
    <3>1. Comes(i + 1, "PUBCOMP", p) /\ Comes(j + 1, "PUBREC", p)
      BY <1>0 DEF Comes
    <3> QED BY <1>1, <1>2, <3>1 DEF OutInv, Answered, RecBehind
  <2> QED BY <2>1, <2>2, <2>3, <2>4 DEF Answered
<1> QED BY <1>11, <1>12, <1>13, <1>14 DEF OutInv

LEMMA RecvAckOut ==
  ASSUME IInv, OutInv, toClient # << >>, NEW p \in Pkt, p = Head(toClient), RecvAck(p),
         UNCHANGED <<delivered, rcvd>>
  PROVE  OutInv'
<1> DEFINE i == mqtt_mq_find(AckOf[p.type], p.pid)
<1>0. /\ mq \in Seq(QMsg) /\ p.pid \in Ids /\ Rising(mq)
      /\ 1 \in 1 .. Len(toClient) /\ p = toClient[1]
  BY TailTaken DEF IInv, ClientType, OutInv, Typed, Pkt
<1>1. p.type \in {"CONNACK", "SUBACK", "PUBCOMP", "PINGRESP"}
  BY <1>0 DEF RecvAck, AckOf, OutInv, Typed, ComesReal
<1>2. CASE i = 0 /\ Failed("ACK_OF_UNKNOWN") /\ UNCHANGED mq
  BY <1>2, UnknownOut
<1>3. CASE i # 0 /\ mq' = Released(i) /\ IF p.ok THEN Handled ELSE Failed(Refusal[p.type])
  <2>1. i \in 1 .. Len(mq) /\ mq[i].m.type = AckOf[p.type] /\ (p.pid # 0 => mq[i].m.pid = p.pid)
    BY <1>0, <1>3, FindSound
  <2> HIDE DEF i
  <2>2. PICK e : \E ret : Handle(e, ret) /\ (e = "OK" => error = "OK")
    <3>1. CASE p.ok
      BY <1>3, <3>1 DEF Handled
    <3>2. CASE ~p.ok
      <4>1. Refusal[p.type] # "OK"
        BY <3>2 DEF Refusal, Pkt
      <4> QED BY <1>3, <3>2, <4>1 DEF Failed
    <3> QED BY <3>1, <3>2
  <2>3. CASE p.type # "PUBCOMP"
    <3>1. mq[i].m.type \notin {"PUBLISH", "PUBREL"}
      BY <1>1, <2>1, <2>3 DEF AckOf
    <3>2. SameWaits(Released(i))
      BY <2>1, <3>1, ReleasedSame
    <3>3. /\ WaitOf(mq', "PUBLISH") = PubWait
          /\ WaitOf(mq', "PUBREL") = WaitOf(mq, "PUBREL")
          /\ Rising(mq')
      BY <1>3, <3>2 DEF SameWaits
    <3> QED BY <2>2, <3>3, HandleQuiet
  <2>4. CASE p.type = "PUBCOMP"
    <3>1. Comes(1, "PUBCOMP", p.pid) /\ p.pid \in Pids /\ p.pid # 0
      BY <1>0, <2>4, MqttClientAssumption DEF OutInv, Typed, ComesReal, Comes
    <3>2. mq[i].m.type = "PUBREL" /\ mq[i].m.pid = p.pid
      BY <2>1, <2>4, <3>1 DEF AckOf
    <3>3. /\ \A t : WaitOf(mq', t) \subseteq WaitOf(mq, t)
          /\ \A t, m : m \in WaitOf(mq, t) =>
               m \in WaitOf(mq', t) \/ (m = mq[i].m /\ mq[i].m.type = t)
          /\ Rising(mq')
      BY <1>0, <1>3, <2>1, ReleasedWaits
    <3>4. WaitOf(mq, "PUBLISH") \subseteq WaitOf(mq', "PUBLISH")
      BY <3>2, <3>3
    <3>5. PubWait' = PubWait
      BY <3>3, <3>4 DEF PubWait
    <3>6. RelWait' \subseteq RelWait
      BY <3>3 DEF RelWait
    <3>7. \A y \in RelWait : y \in RelWait' \/ y = p.pid
      BY <3>2, <3>3 DEF RelWait
    <3>8. /\ toClient' = Tail(toClient) /\ (error' = "OK" => error = "OK")
          /\ UNCHANGED <<published, toBroker>>
      BY <2>2 DEF Handle
    <3> QED BY <3>1, <3>3, <3>5, <3>6, <3>7, <3>8, CompTaken
  <2> QED BY <2>3, <2>4
<1> QED BY <1>2, <1>3 DEF RecvAck

\* A PUBREC releases the PUBLISH of its identifier, which is delivered, and
\* stages its PUBREL unless there is no room, which is an error.
LEMMA RecTaken ==
  ASSUME IInv, OutInv, toClient # << >>, toClient' = Tail(toClient),
         NEW x, Comes(1, "PUBREC", x), x \notin RelWait,
         PubWait' \subseteq PubWait,
         \A m \in PubWait : m \in PubWait' \/ m.pid = x,
         \/ error = "OK" /\ error' = "OK" /\ RelWait' = RelWait \cup {x}
         \/ error' # "OK" /\ RelWait' = RelWait,
         Rising(mq)',
         UNCHANGED <<published, delivered, rcvd, toBroker>>
  PROVE  OutInv'
<1>0. /\ \A i \in 1 .. Len(toClient') : /\ i + 1 \in 2 .. Len(toClient)
                                        /\ toClient'[i] = toClient[i + 1]
      /\ 1 \in 1 .. Len(toClient)
  BY TailTaken
<1>1. \A i \in 1 .. Len(toClient') : i + 1 \in 1 .. Len(toClient) /\ 1 < i + 1
  BY <1>0
<1>2. \A i, j \in 1 .. Len(toClient') : i < j => i + 1 < j + 1
  OBVIOUS
<1>3. \A t, p : IsComing(t, p)' => \E j \in 1 .. Len(toClient) : 1 < j /\ Comes(j, t, p)
  BY <1>0, <1>1 DEF IsComing, Comes
<1>4. \A t, p : IsComing(t, p)' => IsComing(t, p)
  BY <1>3 DEF IsComing
<1>5. x \in Pids
  BY <1>0 DEF OutInv, Typed, ComesReal, Comes
<1>6. IsComing("PUBREC", x)
  BY <1>0 DEF IsComing
<1>7. error' = "OK" => ~IsComing("PUBCOMP", x)'
  BY <1>0, <1>3, <1>5 DEF OutInv, Answered, CompBehind
<1>8. \A m \in PubWait : m.pid = x => m.id <= Len(delivered)
  <2> SUFFICES ASSUME NEW m \in PubWait, m.pid = x, ~(m.id <= Len(delivered)) PROVE FALSE
    OBVIOUS
  <2>1. m.id \in Nat /\ Len(delivered) \in Nat
    BY DEF OutInv, Typed, WaitReal, IInv, ClientType, BrokerType
  <2>2. m.id > Len(delivered)
    BY <2>1
  <2> QED BY <1>6, <2>2 DEF OutInv, Known, WaitUnknown
<1>9. error' = "OK" => \A y : OpenPid(y) => OpenPid(y)'
  BY DEF OpenPid
<1>10. RelWait \subseteq RelWait' /\ \A y \in RelWait' : y \in RelWait \/ (y = x /\ error' = "OK")
  OBVIOUS
<1>11. Typed'
  <2>1. Numbered' /\ WaitReal'
    BY <1>5 DEF OutInv, Typed, Numbered, WaitReal
  <2>2. SentReal'
    BY DEF OutInv, Typed, SentReal, PubSent
  <2>3. ComesReal'
    BY <1>0, <1>1 DEF OutInv, Typed, ComesReal
  <2> QED BY <2>1, <2>2, <2>3 DEF Typed
<1>12. OnTheWay'
  <2>0. Len(delivered) \in Nat /\ Len(published) \in Nat
    BY DEF IInv, ClientType, BrokerType
  <2>1. NoneMissing'
    <3> SUFFICES ASSUME NEW n \in Len(delivered) + 1 .. Len(published) PROVE \E m \in PubWait' : m.id = n
      BY DEF NoneMissing
    <3>1. PICK m \in PubWait : m.id = n
      BY DEF OutInv, OnTheWay, NoneMissing
    <3>2. ~(m.id <= Len(delivered))
      BY <2>0, <3>1
    <3> QED BY <1>8, <3>1, <3>2
  <2>2. OnlyNext'
    <3> SUFFICES ASSUME NEW i \in 1 .. Len(toBroker), PubSent(i), toBroker[i].m.id > Len(delivered)
                 PROVE  toBroker[i].m.id = Len(delivered) + 1 /\ toBroker[i].m \in PubWait'
      BY DEF OnlyNext, PubSent
    <3>1. toBroker[i].m.id = Len(delivered) + 1 /\ toBroker[i].m \in PubWait
      BY DEF OutInv, OnTheWay, OnlyNext
    <3>2. ~(toBroker[i].m.id <= Len(delivered))
      BY <2>0, <3>1
    <3> QED BY <1>8, <3>1, <3>2
  <2>3. RepeatKnown' /\ RelBefore' /\ RelBehind'
    BY DEF OutInv, OnTheWay, RepeatKnown, RelBefore, RelBehind, PubSent, Sent
  <2> QED BY <2>1, <2>2, <2>3 DEF OnTheWay
<1>13. Known'
  <2>1. WaitKnown'
    BY DEF OutInv, Known, WaitKnown, IsSent, Sent
  <2>2. WaitUnknown'
    BY <1>4 DEF OutInv, Known, WaitUnknown
  <2>3. KnownOpen'
    BY <1>9 DEF OutInv, Known, KnownOpen
  <2>4. RecOpen'
    BY <1>4, <1>9 DEF OutInv, Known, RecOpen
  <2> QED BY <2>1, <2>2, <2>3, <2>4 DEF Known
<1>14. Answered'
  <2>1. CompForgot'
    BY <1>4, <1>7, <1>10 DEF OutInv, Answered, CompForgot
  <2>2. CompBehind'
    <3> SUFFICES ASSUME error' = "OK", NEW i \in 1 .. Len(toClient'), NEW j \in 1 .. Len(toClient'),
                        NEW p \in Pids, i < j, Comes(i, "PUBREC", p)', Comes(j, "PUBCOMP", p)'
                 PROVE  p \in RelWait'
      BY DEF CompBehind
    <3>1. Comes(i + 1, "PUBREC", p) /\ Comes(j + 1, "PUBCOMP", p)
      BY <1>0 DEF Comes
    <3> QED BY <1>1, <1>2, <1>10, <3>1 DEF OutInv, Answered, CompBehind
  <2>3. RelFollows'
    BY <1>4, <1>10 DEF OutInv, Answered, RelFollows, IsSent, Sent
  <2>4. RecBehind'
    <3> SUFFICES ASSUME NEW i \in 1 .. Len(toClient'), NEW j \in 1 .. Len(toClient'),
                        NEW p \in Pids, i < j, Comes(i, "PUBCOMP", p)', Comes(j, "PUBREC", p)',
                        p \in RelWait'
                 PROVE  FALSE
      BY DEF RecBehind
    <3>1. Comes(i + 1, "PUBCOMP", p) /\ Comes(j + 1, "PUBREC", p)
      BY <1>0 DEF Comes
    <3>2. p \notin RelWait
      BY <1>1, <1>2, <3>1 DEF OutInv, Answered, RecBehind
    <3>3. IsComing("PUBCOMP", p)'
      BY DEF IsComing
    <3> QED BY <1>7, <1>10, <3>2, <3>3
  <2> QED BY <2>1, <2>2, <2>3, <2>4 DEF Answered
<1> QED BY <1>11, <1>12, <1>13, <1>14 DEF OutInv

LEMMA RecvPubrecOut ==
  ASSUME IInv, OutInv, toClient # << >>, NEW p \in Pkt, p = Head(toClient), RecvPubrec(p),
         UNCHANGED <<delivered, rcvd>>
  PROVE  OutInv'
<1> DEFINE i == mqtt_mq_find("PUBLISH", p.pid)
           x == p.pid
<1>0. /\ mq \in Seq(QMsg) /\ p.pid \in Ids /\ Rising(mq)
      /\ 1 \in 1 .. Len(toClient) /\ p = toClient[1] /\ p.type = "PUBREC"
  BY TailTaken DEF IInv, ClientType, OutInv, Typed, Pkt, RecvPubrec
<1>1. Comes(1, "PUBREC", x) /\ x \in Pids /\ x # 0
  BY <1>0, MqttClientAssumption DEF OutInv, Typed, ComesReal, Comes
<1>2. CASE mqtt_mq_find("PUBREL", p.pid) # 0 /\ Handled /\ UNCHANGED <<mq, called>>
  <2>1. /\ WaitOf(mq', "PUBLISH") = PubWait
        /\ WaitOf(mq', "PUBREL") = WaitOf(mq, "PUBREL")
        /\ Rising(mq')
    BY <1>0, <1>2 DEF PubWait
  <2> QED BY <1>2, <2>1, HandleQuiet DEF Handled
<1>3. CASE i = 0 /\ Failed("ACK_OF_UNKNOWN") /\ UNCHANGED mq
  BY <1>3, UnknownOut
<1>4. CASE /\ mqtt_mq_find("PUBREL", p.pid) = 0
           /\ i # 0 /\ Answer(Released(i), "PUBREL", p.pid)
  <2>1. i \in 1 .. Len(mq) /\ mq[i].m.type = "PUBLISH" /\ mq[i].m.pid = x
    BY <1>0, <1>1, <1>4, FindSound
  <2>2. \A j \in 1 .. Len(mq) : mq[j].m.type = "PUBREL" => mq[j].m.pid # x
    BY <1>0, <1>1, <1>4, FindSound
  <2> DEFINE q == Released(i)
             a == Plain("PUBREL", x)
  <2>3. mq' = Staged(q, a) /\ Handle(StageError(q), StageError(q))
    BY <1>4 DEF Answer, Failed
  <2> HIDE DEF i
  <2>4. /\ q \in Seq(QMsg)
        /\ \A t : WaitOf(q, t) \subseteq WaitOf(mq, t)
        /\ \A t, m : m \in WaitOf(mq, t) =>
               m \in WaitOf(q, t) \/ (m = mq[i].m /\ mq[i].m.type = t)
        /\ Rising(q)
    BY <1>0, <2>1, ReleasedWaits
  <2>5. a \in Msg /\ a.type = "PUBREL" /\ a.pid = x
    BY <1>0, PlainMsg DEF Types
  <2> HIDE DEF q, a, x
  <2>6. /\ \A t : WaitOf(mq', t) =
                      WaitOf(q, t) \cup IF CanPack(q) /\ a.type = t THEN {a} ELSE {}
        /\ Rising(mq')
    <3>1. /\ \A t : WaitOf(Staged(q, a), t) =
                      WaitOf(q, t) \cup IF CanPack(q) /\ a.type = t THEN {a} ELSE {}
          /\ Rising(q) /\ (a.type = "PUBLISH" => \A y \in WaitOf(q, "PUBLISH") : y.id < a.id)
             => Rising(Staged(q, a))
      BY <2>4, <2>5, StagedWaits
    <3> QED BY <2>3, <2>4, <2>5, <3>1
  <2>7. WaitOf(mq', "PUBLISH") = WaitOf(q, "PUBLISH")
    BY <2>5, <2>6
  <2>8. WaitOf(mq', "PUBREL") = WaitOf(q, "PUBREL") \cup IF CanPack(q) THEN {a} ELSE {}
    BY <2>5, <2>6
  <2>9. WaitOf(q, "PUBREL") = WaitOf(mq, "PUBREL")
    <3>1. WaitOf(mq, "PUBREL") \subseteq WaitOf(q, "PUBREL")
      BY <2>1, <2>4
    <3> QED BY <2>4, <3>1
  <2>10. PubWait' \subseteq PubWait /\ \A m \in PubWait : m \in PubWait' \/ m.pid = x
    BY <2>1, <2>4, <2>7 DEF PubWait
  <2>11. x \notin RelWait
    BY <2>2 DEF RelWait, WaitOf
  <2>12. CASE CanPack(q)
    <3>1. error = "OK" /\ error' = "OK"
      BY <2>3, <2>12 DEF StageError, CanPack, Handle
    <3>2. RelWait' = RelWait \cup {x}
      BY <2>5, <2>8, <2>9, <2>12 DEF RelWait
    <3>3. toClient' = Tail(toClient) /\ UNCHANGED <<published, toBroker>>
      BY <2>3 DEF Handle
    <3> QED BY <1>1, <2>6, <2>10, <2>11, <3>1, <3>2, <3>3, RecTaken
  <2>13. CASE ~CanPack(q)
    <3>1. error' # "OK"
      BY <2>3, <2>13 DEF StageError, Handle
    <3>2. RelWait' = RelWait
      BY <2>8, <2>9, <2>13 DEF RelWait
    <3>3. toClient' = Tail(toClient) /\ UNCHANGED <<published, toBroker>>
      BY <2>3 DEF Handle
    <3> QED BY <1>1, <2>6, <2>10, <2>11, <3>1, <3>2, <3>3, RecTaken
  <2> QED BY <2>12, <2>13
<1> QED BY <1>2, <1>3, <1>4 DEF RecvPubrec, Exchange

LEMMA ReceiveOut ==
  ASSUME IInv, OutInv, Receive, UNCHANGED <<delivered, rcvd>>
  PROVE  OutInv'
<1> DEFINE p == Head(toClient)
<1>1. toClient # << >> /\ (RecvPublish(p) \/ RecvAck(p) \/ RecvPubrec(p) \/ RecvPubrel(p))
  BY DEF Receive
<1>2. p \in Pkt /\ p = Head(toClient)
  BY <1>1, HeadIsPkt
<1> HIDE DEF p
<1> QED BY <1>1, <1>2, RecvPublishOut, RecvAckOut, RecvPubrecOut, RecvPubrelOut
-----------------------------------------------------------------------------
\* AMQTT_Publish stages a publication with the next number and an identifier
\* that is not in the queue, hence that no exchange is open on.
LEMMA PublishOut ==
  ASSUME IInv, OutInv, NEW qos \in PubQos, PubQos = {2}, Publish(qos), ClientType',
         UNCHANGED <<delivered, rcvd>>
  PROVE  OutInv'
<1>1. PICK x \in Pids \ {mq[i].m.pid : i \in 1 .. Len(mq)} :
         LET m == Packet("PUBLISH", x, qos, Len(published) + 1)
         IN  /\ mq' = Staged(mq, m)
             /\ error' = StageError(mq)
             /\ published' = IF CanPack(mq) THEN Append(published, m.id) ELSE published
  BY DEF Publish, __mqtt_next_pid
<1> DEFINE a == Packet("PUBLISH", x, qos, Len(published) + 1)
           n == Len(published) + 1
<1>0. /\ mq \in Seq(QMsg) /\ Rising(mq) /\ published \in Seq(1 .. MaxPub) /\ Len(published) \in Nat
      /\ Len(published) < MaxPub /\ MaxPub \in Nat /\ Len(delivered) \in Nat /\ qos = 2
      /\ Len(delivered) <= Len(published) /\ UNCHANGED <<toBroker, toClient>>
  BY MqttClientAssumption
     DEF IInv, ClientType, BrokerType, OutInv, Typed, Numbered, Publish
<1>2. a \in Msg /\ a.type = "PUBLISH" /\ a.pid = x /\ a.qos = 2 /\ a.id = n
  <2>1. a = [type |-> "PUBLISH", pid |-> x, qos |-> 2, id |-> n, ok |-> TRUE]
    BY <1>0 DEF Packet
  <2>2. x \in Ids /\ n \in 1 .. MaxPub /\ n \in Nat
    BY <1>0 DEF Ids
  <2> HIDE DEF a, n
  <2> QED BY <2>1, <2>2 DEF Msg, Types
<1>3. /\ mq' = Staged(mq, a) /\ error' = StageError(mq)
      /\ published' = IF CanPack(mq) THEN Append(published, n) ELSE published
  BY <1>1, <1>2
<1>4. x \in Pids /\ \A i \in 1 .. Len(mq) : mq[i].m.pid # x
  BY <1>1
<1> HIDE DEF a
<1>5. \A y \in WaitOf(mq, "PUBLISH") : y.id < n
  BY <1>0 DEF OutInv, Typed, WaitReal, PubWait
<1> HIDE DEF n
<1>6. /\ \A t : WaitOf(mq', t) = WaitOf(mq, t) \cup IF CanPack(mq) /\ a.type = t THEN {a} ELSE {}
      /\ Rising(mq')
  BY <1>0, <1>2, <1>3, <1>5, StagedWaits
<1>7. RelWait' = RelWait
  <2>1. WaitOf(mq', "PUBREL") = WaitOf(mq, "PUBREL")
    BY <1>2, <1>6
  <2> QED BY <2>1 DEF RelWait
<1>8. PubWait' = PubWait \cup IF CanPack(mq) THEN {a} ELSE {}
  BY <1>2, <1>6 DEF PubWait
<1>9. CASE ~CanPack(mq)
  <2>1. PubWait' = PubWait /\ published' = published /\ (error' = "OK" => error = "OK")
    BY <1>3, <1>8, <1>9 DEF StageError
  <2>3. OutSuffix
    BY <1>0, SameOut
  <2>4. InSuffix
    BY <1>0, SameIn
  <2>5. Quiet
    BY <1>0, <1>6, <1>7, <2>1, <2>3, <2>4 DEF Quiet
  <2> QED BY <2>5, QuietKeeps
<1>10. CASE CanPack(mq)
  <2>1. /\ error = "OK" /\ PubWait' = PubWait \cup {a}
        /\ published' = Append(published, n) /\ Len(published') = n
        /\ \A i \in 1 .. n : published'[i] = IF i = n THEN n ELSE published[i]
    BY <1>0, <1>3, <1>8, <1>10 DEF CanPack, n
  <2>2. ~OpenPid(x)
    BY <1>4 DEF OpenPid, RelWait, PubWait, WaitOf
  <2>3. x \notin rcvd /\ ~IsComing("PUBREC", x)
    BY <1>4, <2>1, <2>2 DEF OutInv, Known, KnownOpen, RecOpen
  <2>4. \A y : OpenPid(y) => OpenPid(y)'
    BY <1>7, <2>1 DEF OpenPid
  <2>5. /\ \A t, p : IsComing(t, p)' <=> IsComing(t, p)
        /\ \A t, p : IsSent(t, p)' <=> IsSent(t, p)
    BY <1>0 DEF IsComing, IsSent, Comes, Sent
  <2>6. n \in Nat /\ n > Len(published) /\ ~(n <= Len(delivered)) /\ n > Len(delivered)
    BY <1>0 DEF n
  <2>7. Typed'
    <3>1. Numbered'
      <4>1. \A i \in 1 .. Len(published') : published'[i] = i
        <5> SUFFICES ASSUME NEW i \in 1 .. n PROVE published'[i] = i
          BY <2>1
        <5>1. CASE i = n
          BY <2>1, <5>1
        <5>2. CASE i # n
          <6>1. i \in 1 .. Len(published)
            BY <1>0, <5>2 DEF n
          <6> QED BY <2>1, <5>2, <6>1 DEF OutInv, Typed, Numbered
        <5> QED BY <5>1, <5>2
      <4>2. Len(delivered') <= Len(published')
        BY <1>0, <2>1 DEF n
      <4> QED BY <4>1, <4>2 DEF OutInv, Typed, Numbered
    <3>2. WaitReal'
      <4>1. \A i \in 1 .. Len(published) : i \in 1 .. Len(published')
        BY <1>0, <2>1 DEF n
      <4>2. a.id \in 1 .. Len(published')
        BY <1>0, <1>2, <2>1 DEF n
      <4> QED BY <1>2, <1>4, <1>7, <2>1, <4>1, <4>2 DEF OutInv, Typed, WaitReal
    <3>3. SentReal' /\ ComesReal'
      BY <1>0 DEF OutInv, Typed, SentReal, ComesReal, PubSent
    <3> QED BY <1>6, <3>1, <3>2, <3>3 DEF Typed
  <2>8. OnTheWay'
    <3>1. NoneMissing'
      <4> SUFFICES ASSUME NEW i \in Len(delivered) + 1 .. n PROVE \E m \in PubWait' : m.id = i
        BY <2>1 DEF NoneMissing
      <4>1. CASE i = n
        BY <1>2, <2>1, <4>1
      <4>2. CASE i # n
        <5>1. i \in Len(delivered) + 1 .. Len(published)
          BY <1>0, <4>2 DEF n
        <5> QED BY <2>1, <5>1 DEF OutInv, OnTheWay, NoneMissing
      <4> QED BY <4>1, <4>2
    <3>2. OnlyNext'
      BY <1>0, <2>1 DEF OutInv, OnTheWay, OnlyNext, PubSent
    <3>3. RepeatKnown' /\ RelBefore' /\ RelBehind'
      BY <1>0 DEF OutInv, OnTheWay, RepeatKnown, RelBefore, RelBehind, PubSent, Sent
    <3> QED BY <3>1, <3>2, <3>3 DEF OnTheWay
  <2>9. Known'
    <3>1. WaitKnown'
      <4> SUFFICES ASSUME NEW m \in PubWait', m.id <= Len(delivered)
                   PROVE  m.pid \in rcvd /\ ~IsSent("PUBREL", m.pid)'
        BY DEF WaitKnown
      <4>1. m # a
        BY <1>2, <2>6
      <4> QED BY <2>1, <2>5, <4>1 DEF OutInv, Known, WaitKnown
    <3>2. WaitUnknown'
      BY <1>2, <2>1, <2>3, <2>5 DEF OutInv, Known, WaitUnknown
    <3>3. KnownOpen'
      BY <2>1, <2>4 DEF OutInv, Known, KnownOpen
    <3>4. RecOpen'
      BY <2>1, <2>4, <2>5 DEF OutInv, Known, RecOpen
    <3> QED BY <3>1, <3>2, <3>3, <3>4 DEF Known
  <2>10. Answered'
    <3>1. CompForgot' /\ RelFollows'
      BY <1>7, <2>1, <2>5 DEF OutInv, Answered, CompForgot, RelFollows
    <3>2. CompBehind' /\ RecBehind'
      BY <1>0, <1>7, <2>1 DEF OutInv, Answered, CompBehind, RecBehind, Comes
    <3> QED BY <3>1, <3>2 DEF Answered
  <2> QED BY <2>7, <2>8, <2>9, <2>10 DEF OutInv
<1> QED BY <1>9, <1>10
-----------------------------------------------------------------------------
\* What waits is what the client may send: a PUBREL whose PUBLISH is complete,
\* or the first PUBLISH that is not.
LEMMA SentOut ==
  ASSUME IInv, OutInv, NEW f \in Frag, toBroker' = Append(toBroker, f),
         f.m.type = "PUBREL" => f.m.pid \in RelWait /\ \A m \in PubWait : m.pid # f.m.pid,
         f.m.type = "PUBLISH" =>
            f.m \in PubWait /\ (f.m.id > Len(delivered) => f.m.id = Len(delivered) + 1),
         PubWait' = PubWait, RelWait' = RelWait, Rising(mq)',
         UNCHANGED <<error, toClient, published, delivered, rcvd>>
  PROVE  OutInv'
<1> DEFINE n == Len(toBroker) + 1
<1>0. /\ toBroker \in Seq(Frag) /\ Len(toBroker) \in Nat /\ Len(delivered) \in Nat
      /\ Len(toBroker') = n /\ n \in Nat /\ toBroker'[n] = f
      /\ \A i \in 1 .. Len(toBroker) : toBroker'[i] = toBroker[i]
      /\ f.m.id \in Nat
  BY DEF IInv, ClientType, BrokerType, Frag, Msg
<1>1. \A i \in 1 .. Len(toBroker') : i = n \/ (i \in 1 .. Len(toBroker) /\ i < n)
  BY <1>0
<1>2. \A i, j \in 1 .. Len(toBroker') : i < j => i \in 1 .. Len(toBroker) /\ i # n
  BY <1>0
<1> HIDE DEF n
<1>3. /\ \A p : IsComing("PUBREC", p)' <=> IsComing("PUBREC", p)
      /\ \A p : IsComing("PUBCOMP", p)' <=> IsComing("PUBCOMP", p)
      /\ \A p : OpenPid(p)' <=> OpenPid(p)
  BY DEF IsComing, Comes, OpenPid
<1>4. \A p : IsSent("PUBREL", p)' => IsSent("PUBREL", p) \/ (f.m.type = "PUBREL" /\ f.m.pid = p)
  BY <1>0, <1>1 DEF IsSent, Sent
<1>5. Typed'
  <2>1. Numbered' /\ WaitReal' /\ ComesReal'
    BY DEF OutInv, Typed, Numbered, WaitReal, ComesReal
  <2>2. SentReal'
    <3> SUFFICES ASSUME NEW i \in 1 .. Len(toBroker')
                 PROVE  /\ toBroker'[i].m.type \in {"PUBLISH", "PUBREL"} => toBroker'[i].m.pid \in Pids
                        /\ toBroker'[i].m.type = "PUBLISH" => toBroker'[i].m.qos = 2
      BY DEF SentReal, PubSent
    <3>1. CASE i = n
      BY <1>0, <3>1 DEF OutInv, Typed, WaitReal
    <3>2. CASE i \in 1 .. Len(toBroker)
      BY <1>0, <3>2 DEF OutInv, Typed, SentReal, PubSent
    <3> QED BY <1>1, <3>1, <3>2
  <2> QED BY <2>1, <2>2 DEF Typed
<1>6. OnTheWay'
  <2>1. NoneMissing'
    BY DEF OutInv, OnTheWay, NoneMissing
  <2>2. OnlyNext'
    <3> SUFFICES ASSUME NEW i \in 1 .. Len(toBroker'), PubSent(i)', toBroker'[i].m.id > Len(delivered)
                 PROVE  toBroker'[i].m.id = Len(delivered) + 1 /\ toBroker'[i].m \in PubWait
      BY DEF OnlyNext
    <3>1. CASE i = n
      BY <1>0, <3>1 DEF PubSent
    <3>2. CASE i \in 1 .. Len(toBroker)
      BY <1>0, <3>2 DEF OutInv, OnTheWay, OnlyNext, PubSent
    <3> QED BY <1>1, <3>1, <3>2
  <2>3. RepeatKnown'
    <3> SUFFICES ASSUME NEW i \in 1 .. Len(toBroker'), PubSent(i)', toBroker'[i].m.id <= Len(delivered)
                 PROVE  toBroker'[i].m.pid \in rcvd
      BY DEF RepeatKnown
    <3>1. CASE i = n
      BY <1>0, <3>1 DEF PubSent, OutInv, Known, WaitKnown
    <3>2. CASE i \in 1 .. Len(toBroker)
      BY <1>0, <3>2 DEF OutInv, OnTheWay, RepeatKnown, PubSent
    <3> QED BY <1>1, <3>1, <3>2
  <2>4. RelBefore'
    <3> SUFFICES ASSUME NEW i \in 1 .. Len(toBroker'), NEW j \in 1 .. Len(toBroker'),
                        i < j, PubSent(j)', Sent(i, "PUBREL", toBroker[j].m.pid)'
                 PROVE  toBroker'[j].m.id > Len(delivered)
      BY DEF RelBefore
    <3>1. i \in 1 .. Len(toBroker) /\ toBroker'[i] = toBroker[i]
      BY <1>0, <1>2
    <3>2. CASE j = n
      <4>1. f.m.type = "PUBLISH" /\ f.m \in PubWait /\ Sent(i, "PUBREL", f.m.pid)
        BY <1>0, <3>1, <3>2 DEF PubSent, Sent
      <4>2. IsSent("PUBREL", f.m.pid)
        BY <3>1, <4>1 DEF IsSent
      <4>3. ~(f.m.id <= Len(delivered))
        BY <4>1, <4>2 DEF OutInv, Known, WaitKnown
      <4> QED BY <1>0, <3>2, <4>3
    <3>3. CASE j \in 1 .. Len(toBroker)
      BY <1>0, <3>1, <3>3 DEF OutInv, OnTheWay, RelBefore, PubSent, Sent
    <3> QED BY <1>1, <3>2, <3>3
  <2>5. RelBehind'
    <3> SUFFICES ASSUME NEW i \in 1 .. Len(toBroker'), NEW j \in 1 .. Len(toBroker'),
                        i < j, PubSent(i)', Sent(j, "PUBREL", toBroker[i].m.pid)'
                 PROVE  toBroker'[i].m.id <= Len(delivered)
      BY DEF RelBehind
    <3>1. i \in 1 .. Len(toBroker) /\ toBroker'[i] = toBroker[i] /\ PubSent(i)
      BY <1>0, <1>2 DEF PubSent
    <3>2. CASE j = n
      <4>1. f.m.type = "PUBREL" /\ f.m.pid = toBroker[i].m.pid
        BY <1>0, <3>1, <3>2 DEF Sent
      <4>2. toBroker[i].m \notin PubWait
        BY <4>1
      <4>3. ~(toBroker[i].m.id > Len(delivered))
        BY <3>1, <4>2 DEF OutInv, OnTheWay, OnlyNext
      <4>4. toBroker[i].m.id \in Nat
        <5>1. toBroker[i] \in Frag
          BY <1>0, <3>1
        <5> QED BY <5>1 DEF Frag, Msg
      <4> QED BY <1>0, <3>1, <4>3, <4>4
    <3>3. CASE j \in 1 .. Len(toBroker)
      BY <1>0, <3>1, <3>3 DEF OutInv, OnTheWay, RelBehind, PubSent, Sent
    <3> QED BY <1>1, <3>2, <3>3
  <2> QED BY <2>1, <2>2, <2>3, <2>4, <2>5 DEF OnTheWay
<1>7. Known'
  <2>1. WaitKnown'
    BY <1>4 DEF OutInv, Known, WaitKnown
  <2>2. WaitUnknown'
    BY <1>3 DEF OutInv, Known, WaitUnknown
  <2>3. KnownOpen' /\ RecOpen'
    BY <1>3 DEF OutInv, Known, KnownOpen, RecOpen
  <2> QED BY <2>1, <2>2, <2>3 DEF Known
<1>8. Answered'
  <2>1. CompForgot'
    BY <1>3 DEF OutInv, Answered, CompForgot
  <2>2. CompBehind' /\ RecBehind'
    BY DEF OutInv, Answered, CompBehind, RecBehind, Comes
  <2>3. RelFollows'
    BY <1>3, <1>4 DEF OutInv, Answered, RelFollows
  <2> QED BY <2>1, <2>2, <2>3 DEF Answered
<1> QED BY <1>5, <1>6, <1>7, <1>8 DEF OutInv

LEMMA TransmitOut ==
  ASSUME IInv, OutInv, pc = "send", NEW i \in next .. Len(mq), NEW k \in 0 .. 2, Transmit(i, k),
         UNCHANGED <<delivered, rcvd>>
  PROVE  OutInv'
<1> DEFINE retry  == mq[i].state = "AWAITING_ACK"
           offset == IF retry THEN 0 ELSE send_offset
           whole  == offset + k = 2
           frag   == [m |-> mq[i].m, from |-> offset, to |-> offset + k]
           s      == AfterSend(mq[i].m)
<1>1. /\ mq \in Seq(QMsg) /\ Len(mq) \in Nat /\ Fits(mq) /\ Rising(mq)
      /\ send_offset \in 0 .. 1 /\ next \in Nat /\ next # 0 /\ Len(delivered) \in Nat
  BY MqttClientAssumption DEF IInv, ClientType, BrokerType, Sending, OutInv, Typed
<1>2. /\ Due(i) \/ (retry /\ ~Blocked(i))
      /\ whole \/ (Partial /\ offset + k < 2)
      /\ toBroker' = IF k = 0 THEN toBroker ELSE Append(toBroker, frag)
      /\ mq' = IF whole THEN [mq EXCEPT ![i].state = s] ELSE mq
      /\ UNCHANGED <<error, toClient, published>>
  BY DEF Transmit
<1>3. i \in 1 .. Len(mq)
  BY <1>1
<1>4. mq[i] \in QMsg /\ mq[i].m \in Msg /\ ~Done(mq[i]) /\ ~Blocked(i)
  <2>1. mq[i] \in QMsg
    BY <1>1, <1>3
  <2> QED BY <1>2, <2>1 DEF QMsg, Due, Done
<1>5. offset \in 0 .. 1 /\ offset + k \in 0 .. 2
  BY <1>1, <1>2
<1>6. frag \in Frag /\ frag.m = mq[i].m
  BY <1>4, <1>5 DEF Frag
<1>7. s \in {"AWAITING_ACK", "COMPLETE"}
  BY DEF AfterSend
<1>8. mq[i].m.type = "PUBLISH" => mq[i].m \in PubWait /\ mq[i].m.qos = 2
  BY <1>3, <1>4, InWait DEF PubWait, OutInv, Typed, WaitReal
<1>9. s = "COMPLETE" => mq[i].m.type \notin {"PUBLISH", "PUBREL"}
  BY <1>8 DEF AfterSend
<1> HIDE DEF frag, s, retry, offset, whole
<1>10. /\ WaitOf(mq', "PUBLISH") = WaitOf(mq, "PUBLISH")
       /\ WaitOf(mq', "PUBREL") = WaitOf(mq, "PUBREL")
       /\ Rising(mq')
  <2>1. CASE whole
    <3>1. /\ \A t : WaitOf(mq', t) \subseteq WaitOf(mq, t)
          /\ \A t, m : m \in WaitOf(mq, t) =>
               m \in WaitOf(mq', t) \/ (s = "COMPLETE" /\ m = mq[i].m /\ mq[i].m.type = t)
          /\ Rising(mq')
      <4>1. LET r == [mq EXCEPT ![i].state = s] IN
            /\ r \in Seq(QMsg)
            /\ \A t : WaitOf(r, t) \subseteq WaitOf(mq, t)
            /\ \A t, m : m \in WaitOf(mq, t) =>
                 m \in WaitOf(r, t) \/ (s = "COMPLETE" /\ m = mq[i].m /\ mq[i].m.type = t)
            /\ Rising(mq) => Rising(r)
        BY <1>1, <1>3, <1>4, <1>7, ForwardWaits
      <4> QED BY <1>1, <1>2, <2>1, <4>1
    <3>2. WaitOf(mq, "PUBLISH") \subseteq WaitOf(mq', "PUBLISH")
      BY <1>9, <3>1
    <3>3. WaitOf(mq, "PUBREL") \subseteq WaitOf(mq', "PUBREL")
      BY <1>9, <3>1
    <3> QED BY <3>1, <3>2, <3>3
  <2>2. CASE ~whole
    BY <1>1, <1>2, <2>2
  <2> QED BY <2>1, <2>2
<1>11. PubWait' = PubWait /\ RelWait' = RelWait
  BY <1>10 DEF PubWait, RelWait
<1>12. CASE k = 0
  <2>1. OutSuffix
    BY <1>2, <1>12, SameOut
  <2>2. InSuffix
    BY <1>2, SameIn
  <2>3. Quiet
    BY <1>2, <1>10, <1>11, <2>1, <2>2 DEF Quiet
  <2> QED BY <2>3, QuietKeeps
<1>13. CASE k # 0
  <2>1. toBroker' = Append(toBroker, frag)
    BY <1>2, <1>13
  <2>2. ASSUME mq[i].m.type = "PUBREL"
        PROVE  mq[i].m.pid \in RelWait /\ \A m \in PubWait : m.pid # mq[i].m.pid
    <3>1. mq[i].m \in WaitOf(mq, "PUBREL")
      BY <1>3, <1>4, <2>2, InWait
    <3>2. ASSUME NEW m \in PubWait PROVE m.pid # mq[i].m.pid
      <4>1. PICK j \in 1 .. Len(mq) : mq[j].m.type = "PUBLISH" /\ ~Done(mq[j]) /\ m = mq[j].m
        BY DEF PubWait, WaitOf
      <4>2. Rel(mq[i]) /\ Drawn(mq[j])
        BY <2>2, <4>1 DEF Rel, Drawn
      <4> QED BY <1>1, <1>3, <4>1, <4>2 DEF Fits, RelAfter
    <3> QED BY <3>1, <3>2 DEF RelWait
  <2>3. ASSUME mq[i].m.type = "PUBLISH", mq[i].m.id > Len(delivered)
        PROVE  mq[i].m.id = Len(delivered) + 1
    <3>1. mq[i].m.id \in 1 .. Len(published) /\ Len(published) \in Nat
      BY <1>8, <2>3 DEF OutInv, Typed, WaitReal, IInv, ClientType
    <3>2. PICK m \in PubWait : m.id = Len(delivered) + 1
      <4>1. Len(delivered) + 1 \in Len(delivered) + 1 .. Len(published)
        BY <1>1, <2>3, <3>1
      <4> QED BY <4>1 DEF OutInv, OnTheWay, NoneMissing
    <3>3. PICK j \in 1 .. Len(mq) : mq[j].m.type = "PUBLISH" /\ ~Done(mq[j]) /\ m = mq[j].m
      BY DEF PubWait, WaitOf
    <3>4. m.qos = 2
      BY DEF OutInv, Typed, WaitReal
    <3>5. ~(j < i)
      <4>1. j < i => j \in 1 .. i - 1
        BY <1>3
      <4>2. Qos2(i) /\ Qos2(j)
        BY <1>4, <1>8, <2>3, <3>3, <3>4 DEF Qos2, Done
      <4> QED BY <1>4, <4>1, <4>2 DEF Blocked
    <3>6. i < j => mq[i].m.id < mq[j].m.id
      BY <1>1, <1>3, <1>4, <2>3, <3>3 DEF Rising, Pending
    <3>7. i = j \/ i < j
      BY <1>3, <3>5
    <3>8. CASE i = j
      BY <3>2, <3>3, <3>8
    <3>9. CASE i < j
      BY <1>1, <2>3, <3>1, <3>2, <3>3, <3>6, <3>9
    <3> QED BY <3>7, <3>8, <3>9
  <2>4. frag.m.type = "PUBREL" => frag.m.pid \in RelWait /\ \A m \in PubWait : m.pid # frag.m.pid
    BY <1>6, <2>2
  <2>5. frag.m.type = "PUBLISH" =>
            frag.m \in PubWait /\ (frag.m.id > Len(delivered) => frag.m.id = Len(delivered) + 1)
    BY <1>6, <1>8, <2>3
  <2> QED BY <1>2, <1>6, <1>10, <1>11, <2>1, <2>4, <2>5, SentOut
<1> QED BY <1>12, <1>13
-----------------------------------------------------------------------------
LEMMA SentMsg ==
  ASSUME IInv, NEW i \in 1 .. Len(toBroker)
  PROVE  toBroker[i].m \in Msg /\ toBroker[i].m.id \in Nat /\ Len(delivered) \in Nat
<1>1. toBroker[i] \in Frag /\ Len(delivered) \in Nat
  BY DEF IInv, ClientType, BrokerType
<1> QED BY <1>1 DEF Frag, Msg

\* What the broker takes is one or two fragments of the front; what it answers
\* comes last.
LEMMA ReadTakes ==
  ASSUME IInv, NEW m, NEW a \in Seq(Pkt), Read(m, a)
  PROVE  /\ 1 \in 1 .. Len(toBroker) /\ m = toBroker[1].m
         /\ \E s \in 1 .. 2 : \A i \in 1 .. Len(toBroker') :
               i + s \in 2 .. Len(toBroker) /\ toBroker'[i] = toBroker[i + s]
         /\ Len(toClient') = Len(toClient) + Len(a)
         /\ \A i \in 1 .. Len(toClient) : toClient'[i] = toClient[i]
         /\ \A i \in 1 .. Len(a) : toClient'[Len(toClient) + i] = a[i]
         /\ UNCHANGED <<mq, error, published>>
<1>1. /\ toBroker \in Seq(Frag) /\ toClient \in Seq(Pkt) /\ toBroker # << >>
      /\ toBroker' = SubSeq(toBroker, Parts + 1, Len(toBroker)) /\ toClient' = toClient \o a
      /\ m = toBroker[1].m /\ UNCHANGED <<mq, error, published>>
  BY DEF IInv, ClientType, Read
<1>2. /\ Len(toClient') = Len(toClient) + Len(a)
      /\ \A i \in 1 .. Len(toClient) : toClient'[i] = toClient[i]
      /\ \A i \in 1 .. Len(a) : toClient'[Len(toClient) + i] = a[i]
  <2> HIDE DEF Read
  <2>1. Len(toClient) \in Nat /\ Len(a) \in Nat
    BY <1>1
  <2>2. Len(toClient \o a) = Len(toClient) + Len(a)
    BY <1>1, ConcatProperties
  <2>3. \A i \in 1 .. Len(toClient) + Len(a) :
           (toClient \o a)[i] = IF i <= Len(toClient) THEN toClient[i] ELSE a[i - Len(toClient)]
    BY <1>1, ConcatProperties
  <2>4. \A i \in 1 .. Len(toClient) : (toClient \o a)[i] = toClient[i]
    BY <2>1, <2>3
  <2>5. \A i \in 1 .. Len(a) : (toClient \o a)[Len(toClient) + i] = a[i]
    <3> SUFFICES ASSUME NEW i \in 1 .. Len(a) PROVE (toClient \o a)[Len(toClient) + i] = a[i]
      OBVIOUS
    <3>1. /\ Len(toClient) + i \in 1 .. Len(toClient) + Len(a) /\ ~(Len(toClient) + i <= Len(toClient))
          /\ Len(toClient) + i - Len(toClient) = i
      BY <2>1
    <3> QED BY <2>3, <3>1
  <2> QED BY <1>1, <2>2, <2>4, <2>5
<1>3. \E s \in 1 .. 2 : \A i \in 1 .. Len(toBroker') :
               i + s \in 2 .. Len(toBroker) /\ toBroker'[i] = toBroker[i + s]
  <2> DEFINE s == Parts
             r == SubSeq(toBroker, s + 1, Len(toBroker))
  <2>1. Len(toBroker) \in Nat /\ s \in 1 .. 2
    BY <1>1 DEF Parts
  <2> HIDE DEF s
  <2>2. \A i \in s + 1 .. Len(toBroker) : toBroker[i] \in Frag
    BY <1>1, <2>1
  <2>3. Len(r) = IF s + 1 <= Len(toBroker) THEN Len(toBroker) - (s + 1) + 1 ELSE 0
    BY <2>1, <2>2, SubSeqProperties
  <2>4. \A i \in 1 .. Len(toBroker) - (s + 1) + 1 : r[i] = toBroker[s + 1 + i - 1]
    BY <2>1, <2>2, SubSeqProperties
  <2> HIDE DEF r
  <2>5. \A i \in 1 .. Len(r) : /\ i + s \in 2 .. Len(toBroker)
                               /\ i \in 1 .. Len(toBroker) - (s + 1) + 1
                               /\ s + 1 + i - 1 = i + s
    BY <2>1, <2>3
  <2>6. \A i \in 1 .. Len(r) : i + s \in 2 .. Len(toBroker) /\ r[i] = toBroker[i + s]
    BY <2>4, <2>5
  <2>7. toBroker' = r
    BY <1>1 DEF r, s
  <2> QED BY <2>1, <2>6, <2>7
<1>4. 1 \in 1 .. Len(toBroker)
  BY <1>1
<1> QED BY <1>1, <1>2, <1>3, <1>4

\* What the broker takes that is not of an exchange of the client.
LEMMA ReadQuiet ==
  ASSUME IInv, OutInv, NEW m, NEW a \in Seq(Pkt), Read(m, a),
         \A i \in 1 .. Len(a) : a[i].type \notin {"PUBACK", "PUBREC", "PUBCOMP"},
         UNCHANGED <<delivered, rcvd>>
  PROVE  OutInv'
<1>1. PICK s \in 1 .. 2 : \A i \in 1 .. Len(toBroker') :
               i + s \in 2 .. Len(toBroker) /\ toBroker'[i] = toBroker[i + s]
  BY ReadTakes
<1>2. /\ Len(toClient') = Len(toClient) + Len(a)
      /\ \A i \in 1 .. Len(toClient) : toClient'[i] = toClient[i]
      /\ \A i \in 1 .. Len(a) : toClient'[Len(toClient) + i] = a[i]
      /\ UNCHANGED <<mq, error, published>>
  BY ReadTakes
<1>3. OutSuffix
  <2>1. s \in Nat /\ \A i \in 1 .. Len(toBroker') : i + s \in 1 .. Len(toBroker)
    BY <1>1
  <2> QED BY <1>1, <2>1 DEF OutSuffix
<1>4. InSuffix
  <2>1. Len(toClient) \in Nat /\ Len(a) \in Nat
    BY DEF IInv, ClientType
  <2>2. \A i \in 1 .. Len(toClient') :
          \/ i \in 1 .. Len(toClient)
          \/ i - Len(toClient) \in 1 .. Len(a) /\ i = Len(toClient) + (i - Len(toClient))
    BY <1>2, <2>1
  <2>3. 0 \in Nat /\ \A i \in 1 .. Len(toClient) : i + 0 = i
    BY <2>1
  <2>4. \A i \in 1 .. Len(toClient') :
           toClient'[i].type \in {"PUBACK", "PUBREC", "PUBCOMP"} => i \in 1 .. Len(toClient)
    BY <1>2, <2>2
  <2>5. \A i \in 1 .. Len(toClient') :
           toClient'[i].type \in {"PUBACK", "PUBREC", "PUBCOMP"} =>
              i + 0 \in 1 .. Len(toClient) /\ toClient'[i] = toClient[i + 0]
    BY <1>2, <2>3, <2>4
  <2> QED BY <2>3, <2>5 DEF InSuffix
<1>5. PubWait' = PubWait /\ RelWait' = RelWait /\ Rising(mq')
  BY <1>2 DEF PubWait, RelWait, OutInv, Typed
<1>6. Quiet
  BY <1>2, <1>3, <1>4, <1>5 DEF Quiet
<1> QED BY <1>6, QuietKeeps

\* The broker takes a PUBREL: it forgets the identifier.
LEMMA OnPubrelOut ==
  ASSUME IInv, OutInv, NEW m \in Msg, OnPubrel(m)
  PROVE  OutInv'
<1> DEFINE x == m.pid
           a == <<Plain("PUBCOMP", x)>>
           n == Len(toClient) + 1
<1>0. /\ Read(m, a) /\ rcvd' = rcvd \ {x} /\ m.type = "PUBREL" /\ delivered' = delivered
      /\ Len(toClient) \in Nat /\ x \in Ids
  BY DEF OnPubrel, IInv, ClientType, Msg
<1>1. /\ a \in Seq(Pkt) /\ Len(a) = 1
      /\ a[1].type = "PUBCOMP" /\ a[1].pid = x
  BY <1>0, OneAnswer DEF Plain, Packet, InTypes
<1> HIDE DEF a, x
<1>2. PICK s \in 1 .. 2 : \A i \in 1 .. Len(toBroker') :
               i + s \in 2 .. Len(toBroker) /\ toBroker'[i] = toBroker[i + s]
  BY <1>0, <1>1, ReadTakes
<1>3. /\ 1 \in 1 .. Len(toBroker) /\ m = toBroker[1].m
      /\ Len(toClient') = Len(toClient) + Len(a)
      /\ \A i \in 1 .. Len(toClient) : toClient'[i] = toClient[i]
      /\ \A i \in 1 .. Len(a) : toClient'[Len(toClient) + i] = a[i]
      /\ UNCHANGED <<mq, error, published>>
  BY <1>0, <1>1, ReadTakes
<1>4. /\ Len(toClient') = n /\ n \in Nat /\ toClient'[n].type = "PUBCOMP" /\ toClient'[n].pid = x
      /\ \A i \in 1 .. Len(toClient') : i = n \/ (i \in 1 .. Len(toClient) /\ i < n)
  BY <1>0, <1>1, <1>3
<1>5. \A i, j \in 1 .. Len(toClient') : i < j => i \in 1 .. Len(toClient) /\ i # n
  BY <1>4
<1>6. \A i \in 1 .. Len(toBroker') : i + s \in 1 .. Len(toBroker) /\ 1 < i + s
  BY <1>2
<1>7. \A i, j \in 1 .. Len(toBroker') : i < j => i + s < j + s
  OBVIOUS
<1> HIDE DEF n
<1>8. Sent(1, "PUBREL", x) /\ IsSent("PUBREL", x) /\ x \in Pids
  BY <1>0, <1>3 DEF Sent, IsSent, OutInv, Typed, SentReal, x
<1>9. /\ PubWait' = PubWait /\ RelWait' = RelWait
      /\ \A p : OpenPid(p)' <=> OpenPid(p)
      /\ \A p : IsSent("PUBREL", p)' => IsSent("PUBREL", p)
      /\ \A p : IsComing("PUBREC", p)' => IsComing("PUBREC", p)
      /\ \A p : IsComing("PUBCOMP", p)' => IsComing("PUBCOMP", p) \/ p = x
  <2>1. PubWait' = PubWait /\ RelWait' = RelWait
    BY <1>3 DEF PubWait, RelWait
  <2>2. \A p : OpenPid(p)' <=> OpenPid(p)
    BY <2>1 DEF OpenPid
  <2>3. \A p : IsSent("PUBREL", p)' => IsSent("PUBREL", p)
    BY <1>2, <1>6 DEF IsSent, Sent
  <2>4. \A p : IsComing("PUBREC", p)' => IsComing("PUBREC", p)
    BY <1>3, <1>4 DEF IsComing, Comes
  <2>5. \A p : IsComing("PUBCOMP", p)' => IsComing("PUBCOMP", p) \/ p = x
    BY <1>3, <1>4 DEF IsComing, Comes
  <2> QED BY <2>1, <2>2, <2>3, <2>4, <2>5
<1>10. Typed'
  <2>1. Numbered' /\ WaitReal'
    BY <1>0, <1>3, <1>9 DEF OutInv, Typed, Numbered, WaitReal
  <2>2. SentReal'
    BY <1>2, <1>6 DEF OutInv, Typed, SentReal, PubSent
  <2>3. ComesReal'
    BY <1>3, <1>4, <1>8 DEF OutInv, Typed, ComesReal
  <2> QED BY <1>3, <2>1, <2>2, <2>3 DEF OutInv, Typed
<1>11. OnTheWay'
  <2>1. NoneMissing'
    BY <1>0, <1>3, <1>9 DEF OutInv, OnTheWay, NoneMissing
  <2>2. OnlyNext'
    BY <1>0, <1>2, <1>6, <1>9 DEF OutInv, OnTheWay, OnlyNext, PubSent
  <2>3. RepeatKnown'
    <3> SUFFICES ASSUME NEW i \in 1 .. Len(toBroker'), PubSent(i)', toBroker'[i].m.id <= Len(delivered)
                 PROVE  toBroker'[i].m.pid \in rcvd'
      BY <1>0 DEF RepeatKnown
    <3>1. i + s \in 1 .. Len(toBroker) /\ 1 < i + s /\ PubSent(i + s) /\ toBroker'[i] = toBroker[i + s]
      BY <1>2, <1>6 DEF PubSent
    <3>2. toBroker[i + s].m.pid \in rcvd
      BY <3>1 DEF OutInv, OnTheWay, RepeatKnown
    <3>3. toBroker[i + s].m.pid # x
      <4> SUFFICES ASSUME toBroker[i + s].m.pid = x PROVE FALSE
        OBVIOUS
      <4>1. toBroker[i + s].m.id > Len(delivered)
        BY <1>3, <1>8, <3>1 DEF OutInv, OnTheWay, RelBefore
      <4>2. toBroker[i + s].m.id \in Nat /\ Len(delivered) \in Nat
        BY <3>1, SentMsg
      <4> QED BY <3>1, <4>1, <4>2
    <3> QED BY <1>0, <3>1, <3>2, <3>3
  <2>4. RelBefore'
    BY <1>0, <1>2, <1>6, <1>7 DEF OutInv, OnTheWay, RelBefore, PubSent, Sent
  <2>5. RelBehind'
    BY <1>0, <1>2, <1>6, <1>7 DEF OutInv, OnTheWay, RelBehind, PubSent, Sent
  <2> QED BY <2>1, <2>2, <2>3, <2>4, <2>5 DEF OnTheWay
<1>12. Known'
  <2>1. WaitKnown'
    <3> SUFFICES ASSUME NEW w \in PubWait, w.id <= Len(delivered)
                 PROVE  w.pid \in rcvd' /\ ~IsSent("PUBREL", w.pid)'
      BY <1>0, <1>9 DEF WaitKnown
    <3>1. w.pid \in rcvd /\ ~IsSent("PUBREL", w.pid)
      BY DEF OutInv, Known, WaitKnown
    <3> QED BY <1>0, <1>8, <1>9, <3>1
  <2>2. WaitUnknown'
    BY <1>0, <1>9 DEF OutInv, Known, WaitUnknown
  <2>3. KnownOpen'
    BY <1>0, <1>3, <1>9 DEF OutInv, Known, KnownOpen
  <2>4. RecOpen'
    BY <1>3, <1>9 DEF OutInv, Known, RecOpen
  <2> QED BY <2>1, <2>2, <2>3, <2>4 DEF Known
<1>13. Answered'
  <2>1. CompForgot'
    BY <1>0, <1>9 DEF OutInv, Answered, CompForgot
  <2>2. CompBehind'
    <3> SUFFICES ASSUME error = "OK", NEW i \in 1 .. Len(toClient'), NEW j \in 1 .. Len(toClient'),
                        NEW p \in Pids, i < j, Comes(i, "PUBREC", p)', Comes(j, "PUBCOMP", p)'
                 PROVE  p \in RelWait
      BY <1>3, <1>9 DEF CompBehind
    <3>1. i \in 1 .. Len(toClient) /\ Comes(i, "PUBREC", p)
      BY <1>3, <1>5 DEF Comes
    <3>2. CASE j = n
      <4>1. p = x /\ IsComing("PUBREC", p)
        BY <1>4, <3>1, <3>2 DEF Comes, IsComing
      <4> QED BY <1>8, <4>1 DEF OutInv, Answered, RelFollows
    <3>3. CASE j \in 1 .. Len(toClient)
      BY <1>3, <3>1, <3>3 DEF OutInv, Answered, CompBehind, Comes
    <3> QED BY <1>4, <3>2, <3>3
  <2>3. RelFollows'
    BY <1>3, <1>9 DEF OutInv, Answered, RelFollows
  <2>4. RecBehind'
    <3> SUFFICES ASSUME NEW i \in 1 .. Len(toClient'), NEW j \in 1 .. Len(toClient'),
                        NEW p \in Pids, i < j, Comes(i, "PUBCOMP", p)', Comes(j, "PUBREC", p)'
                 PROVE  p \notin RelWait
      BY <1>9 DEF RecBehind
    <3>1. j # n
      BY <1>4 DEF Comes
    <3>2. i \in 1 .. Len(toClient) /\ j \in 1 .. Len(toClient)
      BY <1>4, <1>5, <3>1
    <3>3. Comes(i, "PUBCOMP", p) /\ Comes(j, "PUBREC", p)
      BY <1>3, <3>2 DEF Comes
    <3> QED BY <3>2, <3>3 DEF OutInv, Answered, RecBehind
  <2> QED BY <2>1, <2>2, <2>3, <2>4 DEF Answered
<1> QED BY <1>10, <1>11, <1>12, <1>13 DEF OutInv

\* The broker delivers a PUBLISH of an identifier it does not know, and that
\* is the next one; it only answers one it knows, and that is an earlier one.
LEMMA NextDelivered ==
  ASSUME IInv, OutInv, 1 \in 1 .. Len(toBroker), PubSent(1)
  PROVE  /\ toBroker[1].m.pid \notin rcvd =>
               /\ toBroker[1].m.id = Len(delivered) + 1 /\ toBroker[1].m \in PubWait
               /\ Len(delivered) < Len(published)
         /\ toBroker[1].m.pid \in rcvd => toBroker[1].m.id <= Len(delivered)
<1> DEFINE m == toBroker[1].m
<1>1. m.id \in Nat /\ Len(delivered) \in Nat /\ Len(published) \in Nat
  BY SentMsg DEF IInv, ClientType
<1>2. CASE m.id <= Len(delivered)
  <2>1. m.pid \in rcvd
    BY <1>2 DEF OutInv, OnTheWay, RepeatKnown
  <2> QED BY <1>2, <2>1
<1>3. CASE m.id > Len(delivered)
  <2>1. m.id = Len(delivered) + 1 /\ m \in PubWait
    BY <1>3 DEF OutInv, OnTheWay, OnlyNext
  <2>2. m.pid \notin rcvd
    BY <1>3, <2>1 DEF OutInv, Known, WaitUnknown
  <2>3. m.id \in 1 .. Len(published)
    BY <2>1 DEF OutInv, Typed, WaitReal
  <2> QED BY <1>1, <2>1, <2>2, <2>3
<1> QED BY <1>1, <1>2, <1>3

\* Messages that wait differ in their numbers and in their identifiers.
LEMMA WaitDiffer ==
  ASSUME IInv, OutInv, NEW m \in PubWait, NEW w \in PubWait, m # w
  PROVE  m.id # w.id /\ m.pid # w.pid
<1>1. PICK i \in 1 .. Len(mq) : mq[i].m.type = "PUBLISH" /\ ~Done(mq[i]) /\ m = mq[i].m
  BY DEF PubWait, WaitOf
<1>2. PICK j \in 1 .. Len(mq) : mq[j].m.type = "PUBLISH" /\ ~Done(mq[j]) /\ w = mq[j].m
  BY DEF PubWait, WaitOf
<1>3. i # j
  BY <1>1, <1>2
<1>4. m.pid # w.pid
  BY <1>1, <1>2, <1>3 DEF IInv, Fits, DrawnDiffer, Drawn
<1>5. m.id \in Nat /\ w.id \in Nat
  BY DEF OutInv, Typed, WaitReal
<1>6. (i < j => m.id < w.id) /\ (j < i => w.id < m.id)
  BY <1>1, <1>2 DEF OutInv, Typed, Rising, Pending
<1>7. i < j \/ j < i
  BY <1>3
<1>8. m.id # w.id
  BY <1>5, <1>6, <1>7
<1> QED BY <1>4, <1>8

\* A PUBLISH and a PUBREL that wait have different identifiers.
LEMMA WaitApart ==
  ASSUME IInv, NEW m \in PubWait
  PROVE  m.pid \notin RelWait
<1> SUFFICES ASSUME m.pid \in RelWait PROVE FALSE
  OBVIOUS
<1>1. PICK i \in 1 .. Len(mq) : mq[i].m.type = "PUBLISH" /\ ~Done(mq[i]) /\ m = mq[i].m
  BY DEF PubWait, WaitOf
<1>2. PICK j \in 1 .. Len(mq) : mq[j].m.type = "PUBREL" /\ ~Done(mq[j]) /\ m.pid = mq[j].m.pid
  BY DEF RelWait, WaitOf
<1> QED BY <1>1, <1>2 DEF IInv, Fits, RelAfter, Rel, Drawn

LEMMA OnPublishOut ==
  ASSUME IInv, OutInv, NEW m \in Msg, OnPublish(m)
  PROVE  OutInv'
<1> DEFINE x == m.pid
           a == <<Plain("PUBREC", x)>>
           n == Len(toClient) + 1
           d == Len(delivered)
<1>0. /\ \E b : Read(m, b)
      /\ m.type = "PUBLISH" /\ Len(toClient) \in Nat /\ x \in Ids /\ d \in Nat
  BY DEF OnPublish, IInv, ClientType, BrokerType, Msg
<1>1. m = toBroker[1].m /\ 1 \in 1 .. Len(toBroker) /\ PubSent(1) /\ x \in Pids /\ m.qos = 2
  <2>1. m = toBroker[1].m /\ 1 \in 1 .. Len(toBroker)
    BY <1>0 DEF Read, IInv, ClientType
  <2> QED BY <1>0, <2>1 DEF PubSent, OutInv, Typed, SentReal
<1>2. /\ Read(m, a) /\ rcvd' = rcvd \cup {x}
      /\ delivered' = IF x \in rcvd THEN delivered ELSE Append(delivered, m.id)
  BY <1>1 DEF OnPublish
<1>3. /\ a \in Seq(Pkt) /\ Len(a) = 1
      /\ a[1].type = "PUBREC" /\ a[1].pid = x
  BY <1>0, OneAnswer DEF Plain, Packet, InTypes
<1> HIDE DEF a
<1>4. PICK s \in 1 .. 2 : \A i \in 1 .. Len(toBroker') :
               i + s \in 2 .. Len(toBroker) /\ toBroker'[i] = toBroker[i + s]
  BY <1>2, <1>3, ReadTakes
<1>5. /\ Len(toClient') = Len(toClient) + Len(a)
      /\ \A i \in 1 .. Len(toClient) : toClient'[i] = toClient[i]
      /\ \A i \in 1 .. Len(a) : toClient'[Len(toClient) + i] = a[i]
      /\ UNCHANGED <<mq, error, published>>
  BY <1>2, <1>3, ReadTakes
<1>6. /\ Len(toClient') = n /\ n \in Nat /\ toClient'[n].type = "PUBREC" /\ toClient'[n].pid = x
      /\ \A i \in 1 .. Len(toClient') : i = n \/ (i \in 1 .. Len(toClient) /\ i < n)
  BY <1>0, <1>3, <1>5
<1>7. \A i, j \in 1 .. Len(toClient') : i < j => i \in 1 .. Len(toClient) /\ i # n
  BY <1>6
<1>8. \A i \in 1 .. Len(toBroker') : i + s \in 1 .. Len(toBroker) /\ 1 < i + s
  BY <1>4
<1>9. \A i, j \in 1 .. Len(toBroker') : i < j => i + s < j + s
  OBVIOUS
<1> HIDE DEF n
<1>10. PubWait' = PubWait /\ RelWait' = RelWait
  BY <1>5 DEF PubWait, RelWait
<1>11. /\ \A p : OpenPid(p)' <=> OpenPid(p)
       /\ \A p : IsSent("PUBREL", p)' => \E j \in 1 .. Len(toBroker) : 1 < j /\ Sent(j, "PUBREL", p)
       /\ \A p : IsComing("PUBREC", p)' => IsComing("PUBREC", p) \/ p = x
       /\ \A p : IsComing("PUBCOMP", p)' => IsComing("PUBCOMP", p)
  <2>1. \A p : OpenPid(p)' <=> OpenPid(p)
    BY <1>10 DEF OpenPid
  <2>2. \A p : IsSent("PUBREL", p)' => \E j \in 1 .. Len(toBroker) : 1 < j /\ Sent(j, "PUBREL", p)
    BY <1>4, <1>8 DEF IsSent, Sent
  <2>3. \A p : IsComing("PUBREC", p)' => IsComing("PUBREC", p) \/ p = x
    BY <1>5, <1>6 DEF IsComing, Comes
  <2>4. \A p : IsComing("PUBCOMP", p)' => IsComing("PUBCOMP", p)
    BY <1>5, <1>6 DEF IsComing, Comes
  <2> QED BY <2>1, <2>2, <2>3, <2>4
<1>12. \A p : IsSent("PUBREL", p)' => IsSent("PUBREL", p)
  BY <1>11 DEF IsSent
\* How far the delivery comes, and what that says of what is on its way.
<1>13. /\ x \notin rcvd => /\ m.id = d + 1 /\ m \in PubWait /\ d < Len(published)
                           /\ Len(delivered') = d + 1
                           /\ \A i \in 1 .. d + 1 : delivered'[i] = IF i = d + 1 THEN m.id ELSE delivered[i]
       /\ x \in rcvd => m.id <= d /\ delivered' = delivered
  <2>1. /\ x \notin rcvd => m.id = d + 1 /\ m \in PubWait /\ d < Len(published)
        /\ x \in rcvd => m.id <= d
    BY <1>1, NextDelivered
  <2>2. delivered \in Seq(1 .. MaxPub) /\ m.id \in 1 .. MaxPub
    BY <1>0 DEF IInv, BrokerType, Msg
  <2>3. x \notin rcvd => /\ Len(delivered') = d + 1
                         /\ \A i \in 1 .. d + 1 : delivered'[i] = IF i = d + 1 THEN m.id ELSE delivered[i]
    BY <1>2, <2>2, AppendProperties
  <2> QED BY <1>2, <2>1, <2>3
<1>14. d <= Len(delivered') /\ Len(delivered') \in Nat /\ m.id <= Len(delivered') /\ m.id \in Nat
  BY <1>0, <1>1, <1>13, SentMsg
<1>15. \A w \in PubWait : w.id <= Len(delivered') => w.id <= d \/ w = m
  <2> SUFFICES ASSUME NEW w \in PubWait, w.id <= Len(delivered'), ~(w.id <= d) PROVE w = m
    OBVIOUS
  <2>1. w.id \in Nat
    BY DEF OutInv, Typed, WaitReal
  <2>2. x \notin rcvd
    BY <1>13, <2>1
  <2>3. w.id = m.id /\ m \in PubWait
    BY <1>0, <1>13, <2>1, <2>2
  <2> QED BY <2>3, WaitDiffer
<1>16. \A i \in 1 .. Len(toBroker) : PubSent(i) /\ toBroker[i].m.id <= Len(delivered') =>
           toBroker[i].m.id <= d \/ toBroker[i].m = m
  <2> SUFFICES ASSUME NEW i \in 1 .. Len(toBroker), PubSent(i), toBroker[i].m.id <= Len(delivered'),
                      ~(toBroker[i].m.id <= d)
               PROVE  toBroker[i].m = m
    OBVIOUS
  <2>1. toBroker[i].m.id \in Nat
    BY SentMsg
  <2>2. toBroker[i].m.id > d
    BY <1>0, <2>1
  <2>3. toBroker[i].m \in PubWait
    BY <2>2 DEF OutInv, OnTheWay, OnlyNext
  <2> QED BY <1>15, <2>3
\* Behind the PUBLISH that is delivered stands no PUBREL of its identifier.
<1>17. x \notin rcvd => ~IsSent("PUBREL", x)'
  <2> SUFFICES ASSUME x \notin rcvd, IsSent("PUBREL", x)' PROVE FALSE
    OBVIOUS
  <2>1. PICK j \in 1 .. Len(toBroker) : 1 < j /\ Sent(j, "PUBREL", x)
    BY <1>11
  <2>2. m.id <= d
    BY <1>1, <2>1 DEF OutInv, OnTheWay, RelBehind
  <2> QED BY <1>0, <1>13, <2>2
<1> HIDE DEF d
<1>18. Typed'
  <2>1. Numbered'
    <3>1. CASE x \in rcvd
      BY <1>5, <1>13, <3>1 DEF OutInv, Typed, Numbered
    <3>2. CASE x \notin rcvd
      <4>1. \A i \in 1 .. d + 1 : i = d + 1 \/ i \in 1 .. d
        BY <1>0
      <4>2. \A i \in 1 .. Len(delivered') : delivered'[i] = i
        BY <1>13, <3>2, <4>1 DEF OutInv, Typed, Numbered, d
      <4>3. Len(delivered') <= Len(published) /\ published' = published
        BY <1>0, <1>5, <1>13, <3>2 DEF IInv, ClientType
      <4> QED BY <4>2, <4>3 DEF OutInv, Typed, Numbered
    <3> QED BY <3>1, <3>2
  <2>2. WaitReal'
    BY <1>5, <1>10 DEF OutInv, Typed, WaitReal
  <2>3. SentReal'
    BY <1>4, <1>8 DEF OutInv, Typed, SentReal, PubSent
  <2>4. ComesReal'
    BY <1>1, <1>5, <1>6 DEF OutInv, Typed, ComesReal
  <2> QED BY <1>5, <2>1, <2>2, <2>3, <2>4 DEF OutInv, Typed
<1>19. OnTheWay'
  <2>1. NoneMissing'
    <3>1. \A i \in Len(delivered') + 1 .. Len(published) : i \in d + 1 .. Len(published)
      BY <1>0, <1>14 DEF IInv, ClientType
    <3> QED BY <1>5, <1>10, <3>1 DEF OutInv, OnTheWay, NoneMissing, d
  <2>2. OnlyNext'
    <3> SUFFICES ASSUME NEW i \in 1 .. Len(toBroker'), PubSent(i)', toBroker'[i].m.id > Len(delivered')
                 PROVE  toBroker'[i].m.id = Len(delivered') + 1 /\ toBroker'[i].m \in PubWait
      BY <1>10 DEF OnlyNext
    <3>1. i + s \in 1 .. Len(toBroker) /\ PubSent(i + s) /\ toBroker'[i] = toBroker[i + s]
      BY <1>4, <1>8 DEF PubSent
    <3>2. toBroker[i + s].m.id \in Nat
      BY <3>1, SentMsg
    <3>3. toBroker[i + s].m.id > d
      BY <1>0, <1>14, <3>1, <3>2
    <3>4. toBroker[i + s].m.id = d + 1 /\ toBroker[i + s].m \in PubWait
      BY <3>1, <3>3 DEF OutInv, OnTheWay, OnlyNext, d
    <3>5. Len(delivered') = d
      BY <1>0, <1>13, <1>14, <3>1, <3>4 DEF d
    <3> QED BY <3>1, <3>4, <3>5
  <2>3. RepeatKnown'
    <3> SUFFICES ASSUME NEW i \in 1 .. Len(toBroker'), PubSent(i)', toBroker'[i].m.id <= Len(delivered')
                 PROVE  toBroker'[i].m.pid \in rcvd'
      BY DEF RepeatKnown
    <3>1. i + s \in 1 .. Len(toBroker) /\ PubSent(i + s) /\ toBroker'[i] = toBroker[i + s]
      BY <1>4, <1>8 DEF PubSent
    <3>2. toBroker[i + s].m.id <= d \/ toBroker[i + s].m = m
      BY <1>16, <3>1
    <3>3. toBroker[i + s].m.id <= d => toBroker[i + s].m.pid \in rcvd
      BY <3>1 DEF OutInv, OnTheWay, RepeatKnown, d
    <3> QED BY <1>2, <3>1, <3>2, <3>3
  <2>4. RelBefore'
    <3> SUFFICES ASSUME NEW i \in 1 .. Len(toBroker'), NEW j \in 1 .. Len(toBroker'),
                        i < j, PubSent(j)', Sent(i, "PUBREL", toBroker[j].m.pid)'
                 PROVE  toBroker'[j].m.id > Len(delivered')
      BY DEF RelBefore
    <3>1. /\ i + s \in 1 .. Len(toBroker) /\ toBroker'[i] = toBroker[i + s]
          /\ j + s \in 1 .. Len(toBroker) /\ toBroker'[j] = toBroker[j + s]
          /\ i + s < j + s
      BY <1>4, <1>8, <1>9
    <3>2. PubSent(j + s) /\ Sent(i + s, "PUBREL", toBroker[j + s].m.pid)
      BY <3>1 DEF PubSent, Sent
    <3>3. toBroker[j + s].m.id > d /\ toBroker[j + s].m.id \in Nat
      BY <3>1, <3>2, SentMsg DEF OutInv, OnTheWay, RelBefore, d
    <3>4. \A y : y = toBroker[j + s].m.pid => IsSent("PUBREL", y)'
      BY <3>1, <3>2 DEF IsSent, Sent
    <3>5. ~(toBroker[j + s].m.id <= Len(delivered'))
      <4> SUFFICES ASSUME toBroker[j + s].m.id <= Len(delivered') PROVE FALSE
        OBVIOUS
      <4>1. toBroker[j + s].m = m
        BY <1>0, <1>16, <3>1, <3>2, <3>3
      <4>2. x \in rcvd
        BY <1>17, <3>4, <4>1
      <4> QED BY <1>0, <1>13, <3>3, <4>1, <4>2
    <3> QED BY <1>14, <3>1, <3>3, <3>5
  <2>5. RelBehind'
    <3> SUFFICES ASSUME NEW i \in 1 .. Len(toBroker'), NEW j \in 1 .. Len(toBroker'),
                        i < j, PubSent(i)', Sent(j, "PUBREL", toBroker[i].m.pid)'
                 PROVE  toBroker'[i].m.id <= Len(delivered')
      BY DEF RelBehind
    <3>1. /\ i + s \in 1 .. Len(toBroker) /\ toBroker'[i] = toBroker[i + s]
          /\ j + s \in 1 .. Len(toBroker) /\ toBroker'[j] = toBroker[j + s]
          /\ i + s < j + s
      BY <1>4, <1>8, <1>9
    <3>2. PubSent(i + s) /\ Sent(j + s, "PUBREL", toBroker[i + s].m.pid)
      BY <3>1 DEF PubSent, Sent
    <3>3. toBroker[i + s].m.id <= d /\ toBroker[i + s].m.id \in Nat
      BY <3>1, <3>2, SentMsg DEF OutInv, OnTheWay, RelBehind, d
    <3> QED BY <1>0, <1>14, <3>1, <3>3
  <2> QED BY <2>1, <2>2, <2>3, <2>4, <2>5 DEF OnTheWay
<1>20. Known'
  <2>1. WaitKnown'
    <3> SUFFICES ASSUME NEW w \in PubWait, w.id <= Len(delivered')
                 PROVE  w.pid \in rcvd' /\ ~IsSent("PUBREL", w.pid)'
      BY <1>10 DEF WaitKnown
    <3>1. CASE w.id <= d
      <4>1. w.pid \in rcvd /\ ~IsSent("PUBREL", w.pid)
        BY <3>1 DEF OutInv, Known, WaitKnown, d
      <4> QED BY <1>2, <1>12, <4>1
    <3>2. CASE ~(w.id <= d)
      <4>1. w = m
        BY <1>15, <3>2
      <4>2. x \notin rcvd
        BY <1>13, <3>2, <4>1
      <4> QED BY <1>2, <1>17, <4>1, <4>2
    <3> QED BY <3>1, <3>2
  <2>2. WaitUnknown'
    <3> SUFFICES ASSUME NEW w \in PubWait, w.id > Len(delivered')
                 PROVE  w.pid \notin rcvd' /\ ~IsComing("PUBREC", w.pid)'
      BY <1>10 DEF WaitUnknown
    <3>1. w.id \in Nat /\ w.id > d
      <4>1. w.id \in Nat
        BY DEF OutInv, Typed, WaitReal
      <4> QED BY <1>0, <1>14, <4>1
    <3>2. w.pid \notin rcvd /\ ~IsComing("PUBREC", w.pid)
      BY <3>1 DEF OutInv, Known, WaitUnknown, d
    <3>3. w.pid # x
      <4>1. CASE x \in rcvd
        BY <3>2, <4>1
      <4>2. CASE x \notin rcvd
        <5>1. m \in PubWait /\ w # m
          BY <1>14, <1>13, <3>1, <4>2
        <5> QED BY <5>1, WaitDiffer
      <4> QED BY <4>1, <4>2
    <3> QED BY <1>2, <1>11, <3>2, <3>3
  <2>3. KnownOpen'
    <3>1. x \notin rcvd => OpenPid(x)
      BY <1>13 DEF OpenPid
    <3> QED BY <1>2, <1>5, <1>11, <3>1 DEF OutInv, Known, KnownOpen
  <2>4. RecOpen'
    <3>1. error = "OK" => OpenPid(x)
      <4>1. x \notin rcvd => OpenPid(x)
        BY <1>13 DEF OpenPid
      <4> QED BY <4>1 DEF OutInv, Known, KnownOpen
    <3> QED BY <1>5, <1>11, <3>1 DEF OutInv, Known, RecOpen
  <2> QED BY <2>1, <2>2, <2>3, <2>4 DEF Known
<1>21. x \notin rcvd => x \notin RelWait
  BY <1>13, WaitApart
<1>22. Answered'
  <2>1. CompForgot'
    BY <1>2, <1>10, <1>11, <1>21 DEF OutInv, Answered, CompForgot
  <2>2. CompBehind'
    <3> SUFFICES ASSUME error = "OK", NEW i \in 1 .. Len(toClient'), NEW j \in 1 .. Len(toClient'),
                        NEW p \in Pids, i < j, Comes(i, "PUBREC", p)', Comes(j, "PUBCOMP", p)'
                 PROVE  p \in RelWait
      BY <1>5, <1>10 DEF CompBehind
    <3>1. j # n
      BY <1>6 DEF Comes
    <3>2. i \in 1 .. Len(toClient) /\ j \in 1 .. Len(toClient)
      BY <1>6, <1>7, <3>1
    <3>3. Comes(i, "PUBREC", p) /\ Comes(j, "PUBCOMP", p)
      BY <1>5, <3>2 DEF Comes
    <3> QED BY <3>2, <3>3 DEF OutInv, Answered, CompBehind
  <2>3. RelFollows'
    <3> SUFFICES ASSUME error = "OK", NEW p \in Pids, IsComing("PUBREC", p)', IsSent("PUBREL", p)'
                 PROVE  p \in RelWait
      BY <1>5, <1>10 DEF RelFollows
    <3>1. IsSent("PUBREL", p)
      BY <1>12
    <3>2. CASE IsComing("PUBREC", p)
      BY <3>1, <3>2 DEF OutInv, Answered, RelFollows
    <3>3. CASE p = x
      <4>1. x \in rcvd
        BY <1>17, <3>3
      <4>2. OpenPid(x)
        BY <4>1 DEF OutInv, Known, KnownOpen
      <4>3. \A w \in PubWait : w.pid # x
        <5> SUFFICES ASSUME NEW w \in PubWait, w.pid = x PROVE FALSE
          OBVIOUS
        <5>1. w.id \in Nat
          BY DEF OutInv, Typed, WaitReal
        <5>2. ~(w.id > d)
          BY <4>1 DEF OutInv, Known, WaitUnknown, d
        <5>3. w.id <= d
          BY <1>0, <5>1, <5>2
        <5> QED BY <3>1, <3>3, <5>3 DEF OutInv, Known, WaitKnown, d
      <4> QED BY <3>3, <4>2, <4>3 DEF OpenPid
    <3> QED BY <1>11, <3>2, <3>3
  <2>4. RecBehind'
    <3> SUFFICES ASSUME NEW i \in 1 .. Len(toClient'), NEW j \in 1 .. Len(toClient'),
                        NEW p \in Pids, i < j, Comes(i, "PUBCOMP", p)', Comes(j, "PUBREC", p)'
                 PROVE  p \notin RelWait
      BY <1>10 DEF RecBehind
    <3>1. i \in 1 .. Len(toClient) /\ Comes(i, "PUBCOMP", p) /\ IsComing("PUBCOMP", p)
      BY <1>5, <1>7 DEF Comes, IsComing
    <3>2. CASE j = n
      <4>1. p = x
        BY <1>6, <3>2 DEF Comes
      <4>2. x \in rcvd => x \notin RelWait
        BY <3>1, <4>1 DEF OutInv, Answered, CompForgot
      <4> QED BY <1>21, <4>1, <4>2
    <3>3. CASE j \in 1 .. Len(toClient)
      BY <1>5, <3>1, <3>3 DEF OutInv, Answered, RecBehind, Comes
    <3> QED BY <1>6, <3>2, <3>3
  <2> QED BY <2>1, <2>2, <2>3, <2>4 DEF Answered
<1> QED BY <1>18, <1>19, <1>20, <1>22 DEF OutInv

LEMMA BrokerReadsOut ==
  ASSUME IInv, OutInv, BrokerReads
  PROVE  OutInv'
<1> DEFINE m == toBroker[1].m
<1>1. m \in Msg /\ m.pid \in Ids
  BY ReadMsg DEF BrokerReads, Msg
<1>2. OnConnect(m) \/ OnSubscribe(m) \/ OnPublish(m) \/ OnPubrel(m) \/ OnPubrec(m) \/ OnAck(m)
      \/ OnPing(m)
  BY DEF BrokerReads
<1> HIDE DEF m
<1>3. CASE OnPublish(m)
  BY <1>1, <1>3, OnPublishOut
<1>4. CASE OnPubrel(m)
  BY <1>1, <1>4, OnPubrelOut
<1>5. CASE OnConnect(m) \/ OnSubscribe(m) \/ OnPubrec(m) \/ OnAck(m) \/ OnPing(m)
  <2>1. ASSUME NEW a \in Seq(Pkt), Len(a) = 1, a[1].type \notin {"PUBACK", "PUBREC", "PUBCOMP"}
        PROVE  \A i \in 1 .. Len(a) : a[i].type \notin {"PUBACK", "PUBREC", "PUBCOMP"}
    BY <2>1
  <2>2. UNCHANGED <<delivered, rcvd>>
    BY <1>5 DEF OnConnect, OnSubscribe, OnPubrec, OnAck, OnPing, broker
  <2>3. ASSUME NEW t \in {"CONNACK", "SUBACK"}, NEW p \in Ids, NEW v \in Verdicts(Plain(t, p)), Read(m, v)
        PROVE  OutInv'
    <3>1. v \in Seq(Pkt)
      BY <2>3, VerdictType
    <3>2. Plain(t, p) = [type |-> t, pid |-> p, qos |-> 0, id |-> 0, ok |-> TRUE]
      BY DEF Plain, Packet
    <3>3. Len(v) = 1 /\ v[1].type = t
      BY <2>3, <3>2 DEF Verdicts
    <3>4. \A i \in 1 .. Len(v) : v[i].type \notin {"PUBACK", "PUBREC", "PUBCOMP"}
      BY <3>3
    <3> QED BY <2>2, <2>3, <3>1, <3>4, ReadQuiet
  <2>4. ASSUME NEW t \in {"PUBREL", "PINGRESP"}, NEW p \in Ids, Read(m, <<Plain(t, p)>>)
        PROVE  OutInv'
    <3> DEFINE a == <<Plain(t, p)>>
    <3>1. a \in Seq(Pkt) /\ Len(a) = 1 /\ a[1].type = t
      BY OneAnswer DEF InTypes, Plain, Packet
    <3> HIDE DEF a
    <3>2. \A i \in 1 .. Len(a) : a[i].type \notin {"PUBACK", "PUBREC", "PUBCOMP"}
      BY <3>1
    <3>3. Read(m, a)
      BY <2>4 DEF a
    <3> QED BY <2>2, <3>1, <3>2, <3>3, ReadQuiet
  <2>5. CASE OnConnect(m)
    BY <2>3, <2>5 DEF OnConnect, Ids
  <2>6. CASE OnSubscribe(m)
    BY <1>1, <2>3, <2>6 DEF OnSubscribe
  <2>7. CASE OnPubrec(m)
    BY <1>1, <2>4, <2>7 DEF OnPubrec
  <2>8. CASE OnPing(m)
    BY <2>4, <2>8 DEF OnPing, Ids
  <2>9. CASE OnAck(m)
    <3>1. << >> \in Seq(Pkt) /\ \A i \in 1 .. Len(<< >>) : << >>[i].type \notin {"PUBACK", "PUBREC", "PUBCOMP"}
      OBVIOUS
    <3> QED BY <2>2, <2>9, <3>1, ReadQuiet DEF OnAck
  <2> QED BY <1>5, <2>5, <2>6, <2>7, <2>8, <2>9
<1> QED BY <1>2, <1>3, <1>4, <1>5

\* What the broker sends of its own is a PUBLISH or a PUBREL.
LEMMA SendsOut ==
  ASSUME IInv, OutInv, NEW p \in Pkt, p.type \notin {"PUBACK", "PUBREC", "PUBCOMP"}, BrokerSends(p)
  PROVE  OutInv'
<1>1. /\ toClient' = Append(toClient, p)
      /\ UNCHANGED <<error, mq, toBroker, published, rcvd, delivered>>
  BY DEF BrokerSends
<1>2. InSuffix
  <2>1. toClient \in Seq(Pkt) /\ Len(toClient) \in Nat
    BY DEF IInv, ClientType
  <2>2. \A i \in 1 .. Len(toClient') : i = Len(toClient) + 1 \/ i \in 1 .. Len(toClient)
    BY <1>1, <2>1
  <2>3. toClient'[Len(toClient) + 1] = p /\ \A i \in 1 .. Len(toClient) : toClient'[i] = toClient[i]
    BY <1>1, <2>1
  <2>4. 0 \in Nat /\ \A i \in 1 .. Len(toClient) : i + 0 = i
    BY <2>1
  <2>5. \A i \in 1 .. Len(toClient') :
           toClient'[i].type \in {"PUBACK", "PUBREC", "PUBCOMP"} =>
              i + 0 \in 1 .. Len(toClient) /\ toClient'[i] = toClient[i + 0]
    BY <2>2, <2>3, <2>4
  <2> QED BY <2>4, <2>5 DEF InSuffix
<1>3. OutSuffix
  BY <1>1, SameOut
<1>4. PubWait' = PubWait /\ RelWait' = RelWait /\ Rising(mq')
  BY <1>1 DEF PubWait, RelWait, OutInv, Typed
<1>5. Quiet
  BY <1>1, <1>2, <1>3, <1>4 DEF Quiet
<1> QED BY <1>5, QuietKeeps

\* In flight are the PUBLISHes and PUBRELs of the broker.
FlightKind == \A p \in flight : p.type \in {"PUBLISH", "PUBREL"}

LEMMA FlightKindKept == IInv /\ FlightKind /\ [Next]_vars => FlightKind'
<1> SUFFICES ASSUME IInv, FlightKind, [Next]_vars PROVE FlightKind'
  OBVIOUS
<1>1. CASE ClientNext /\ UNCHANGED broker
  BY <1>1 DEF broker, FlightKind
<1>2. CASE BrokerReads
  <2> DEFINE m == toBroker[1].m
  <2>1. OnConnect(m) \/ OnSubscribe(m) \/ OnPublish(m) \/ OnPubrel(m) \/ OnPubrec(m) \/ OnAck(m)
        \/ OnPing(m)
    BY <1>2 DEF BrokerReads
  <2>2. Plain("PUBREL", m.pid).type = "PUBREL"
    BY DEF Plain, Packet
  <2> HIDE DEF m
  <2>3. CASE OnPubrec(m)
    BY <2>2, <2>3 DEF OnPubrec, FlightKind
  <2>4. CASE OnAck(m)
    BY <2>4 DEF OnAck, FlightKind
  <2> QED BY <2>1, <2>3, <2>4 DEF OnConnect, OnSubscribe, OnPublish, OnPubrel, OnPing, broker, FlightKind
<1>3. CASE \E q \in BQos : BrokerPublish(q)
  BY <1>3 DEF BrokerPublish, Packet, FlightKind
<1>4. CASE \E p \in flight : BrokerAgain(p)
  BY <1>4 DEF BrokerAgain, FlightKind
<1>5. CASE UNCHANGED vars
  BY <1>5 DEF vars, broker, FlightKind
<1> QED BY <1>1, <1>2, <1>3, <1>4, <1>5 DEF Next

\* A step that leaves the queue and the two directions alone, or empties them.
LEMMA StillOut ==
  ASSUME IInv, OutInv, UNCHANGED <<published, delivered, rcvd>>, error' = "OK" => error = "OK",
         toBroker' \in {toBroker, << >>}, toClient' \in {toClient, << >>},
         mq' = mq
  PROVE  OutInv'
<1>1. OutSuffix
  <2>1. CASE toBroker' = toBroker
    BY <2>1, SameOut
  <2>2. CASE toBroker' = << >>
    <3>1. 0 \in Nat /\ \A i \in 1 .. Len(toBroker') : FALSE
      BY <2>2
    <3> QED BY <3>1 DEF OutSuffix
  <2> QED BY <2>1, <2>2
<1>2. InSuffix
  <2>1. CASE toClient' = toClient
    BY <2>1, SameIn
  <2>2. CASE toClient' = << >>
    <3>1. 0 \in Nat /\ \A i \in 1 .. Len(toClient') : FALSE
      BY <2>2
    <3> QED BY <3>1 DEF InSuffix
  <2> QED BY <2>1, <2>2
<1>3. PubWait' = PubWait /\ RelWait' = RelWait /\ Rising(mq')
  BY DEF PubWait, RelWait, OutInv, Typed
<1>4. Quiet
  BY <1>1, <1>2, <1>3 DEF Quiet
<1> QED BY <1>4, QuietKeeps

LEMMA FinishSendOut ==
  ASSUME IInv, OutInv, FinishSend, UNCHANGED <<delivered, rcvd>>
  PROVE  OutInv'
<1>0. UNCHANGED <<toBroker, toClient, published>>
  BY DEF FinishSend
<1>1. CASE UNCHANGED <<mq, error, pings>>
  BY <1>0, <1>1, StillOut
<1>2. CASE mq' = Staged(mq, Plain("PINGREQ", 0)) /\ error' = StageError(mq)
  <2>1. Plain("PINGREQ", 0) \in Msg /\ Plain("PINGREQ", 0).type = "PINGREQ"
    BY PlainMsg DEF Types, Ids
  <2>2. SameWaits(mq)
    BY SameNow
  <2>3. /\ WaitOf(mq', "PUBLISH") = PubWait
        /\ WaitOf(mq', "PUBREL") = WaitOf(mq, "PUBREL")
        /\ Rising(mq')
    BY <1>2, <2>1, <2>2, StagedSame
  <2>4. PubWait' = PubWait /\ RelWait' = RelWait
    BY <2>3 DEF PubWait, RelWait
  <2>5. error' = "OK" => error = "OK"
    BY <1>2 DEF StageError
  <2>6. Quiet
    BY <1>0, <2>3, <2>4, <2>5, SameOut, SameIn DEF Quiet
  <2> QED BY <2>6, QuietKeeps
<1> QED BY <1>1, <1>2 DEF FinishSend

LEMMA ClientOut ==
  ASSUME IInv, OutInv, PubQos = {2}, ClientNext, UNCHANGED broker
  PROVE  OutInv'
<1>0. UNCHANGED <<delivered, rcvd>>
  BY DEF broker
<1>1. ClientType'
  BY ClientKeeps
<1>2. CASE \E q \in PubQos : Publish(q)
  BY <1>0, <1>1, <1>2, PublishOut
<1>3. CASE Receive
  BY <1>0, <1>3, ReceiveOut
<1>4. CASE StartSend
  BY <1>0, <1>4, StillOut DEF StartSend
<1>5. CASE pc = "send" /\ \E i \in next .. Len(mq), k \in 0 .. 2 : Transmit(i, k)
  BY <1>0, <1>5, TransmitOut
<1>6. CASE FinishSend
  BY <1>0, <1>6, FinishSendOut
<1>7. CASE SocketError
  BY <1>0, <1>7, StillOut DEF SocketError
<1> QED BY <1>2, <1>3, <1>4, <1>5, <1>6, <1>7 DEF ClientNext

LEMMA InitOut == Init => OutInv /\ FlightKind
<1> SUFFICES ASSUME Init PROVE OutInv /\ FlightKind
  OBVIOUS
<1>1. PICK p \in Pids : mq = <<Queued(Plain("CONNECT", 0)), Queued(Plain("SUBSCRIBE", p))>>
  BY DEF Init, ClientInit
<1>2. /\ published = << >> /\ delivered = << >> /\ toBroker = << >> /\ toClient = << >> /\ rcvd = {}
      /\ flight = {}
  BY DEF Init, ClientInit
<1>3. /\ Len(mq) = 2 /\ \A i \in 1 .. Len(mq) : mq[i].m.type \notin {"PUBLISH", "PUBREL"}
  BY <1>1 DEF Queued, Plain, Packet
<1>4. PubWait = {} /\ RelWait = {} /\ Rising(mq)
  BY <1>3 DEF PubWait, RelWait, WaitOf, Rising, Pending
<1>5. /\ Len(published) = 0 /\ Len(delivered) = 0
      /\ \A i \in 1 .. Len(toBroker) : FALSE
      /\ \A i \in 1 .. Len(toClient) : FALSE
  BY <1>2
<1>6. Typed
  BY <1>4, <1>5 DEF Typed, Numbered, WaitReal, SentReal, ComesReal
<1>7. OnTheWay
  BY <1>5 DEF OnTheWay, NoneMissing, OnlyNext, RepeatKnown, RelBefore, RelBehind
<1>8. Known
  BY <1>2, <1>4, <1>5 DEF Known, WaitKnown, WaitUnknown, KnownOpen, RecOpen, IsComing
<1>9. Answered
  BY <1>4, <1>5 DEF Answered, CompForgot, CompBehind, RelFollows, RecBehind, IsComing
<1> QED BY <1>2, <1>6, <1>7, <1>8, <1>9 DEF OutInv, FlightKind

LEMMA NextOut ==
  ASSUME PubQos = {2}
  PROVE  IInv /\ FlightKind /\ OutInv /\ [Next]_vars => OutInv'
<1> SUFFICES ASSUME IInv, FlightKind, OutInv, [Next]_vars PROVE OutInv'
  OBVIOUS
<1>1. CASE ClientNext /\ UNCHANGED broker
  BY <1>1, ClientOut
<1>2. CASE BrokerReads
  BY <1>2, BrokerReadsOut
<1>3. CASE \E q \in BQos : BrokerPublish(q)
  <2>1. PICK p : p.type = "PUBLISH" /\ BrokerSends(p)
    BY <1>3 DEF BrokerPublish, Packet
  <2>2. OutInv' \/ p \in Pkt
    <3>1. IInv'
      BY <1>3, BrokerPublishKeeps
    <3>2. toClient' = Append(toClient, p) /\ toClient' \in Seq(Pkt) /\ toClient \in Seq(Pkt)
      BY <2>1, <3>1 DEF BrokerSends, IInv, ClientType
    <3>3. toClient'[Len(toClient')] = p /\ Len(toClient') \in 1 .. Len(toClient')
      BY <3>2
    <3> QED BY <3>2, <3>3
  <2> QED BY <2>1, <2>2, SendsOut
<1>4. CASE \E p \in flight : BrokerAgain(p)
  <2>1. PICK p \in flight : BrokerSends(p)
    BY <1>4 DEF BrokerAgain
  <2>2. p \in Pkt /\ p.type \notin {"PUBACK", "PUBREC", "PUBCOMP"}
    BY DEF IInv, BrokerType, FlightKind
  <2> QED BY <2>1, <2>2, SendsOut
<1>5. CASE UNCHANGED vars
  BY <1>5, StillOut DEF vars, client, broker
<1> QED BY <1>1, <1>2, <1>3, <1>4, <1>5 DEF Next
-----------------------------------------------------------------------------
LEMMA OutHolds ==
  ASSUME PubQos = {2}
  PROVE  Spec => [](IInv /\ OutInv)
<1> DEFINE J == IInv /\ FlightKind /\ OutInv
<1>1. Init => J
  BY InitIInv, InitOut
<1>2. J /\ [Next]_vars => J'
  BY NextIInv, FlightKindKept, NextOut
<1>3. J => IInv /\ OutInv
  OBVIOUS
<1> QED BY <1>1, <1>2, <1>3, PTL DEF Spec

\* A publication of QoS 2 leaves the queue, or is complete in it, only when the
\* broker has delivered it, whatever is sent again, cut short or refused
\* (__mqtt_send and the PUBREC case of __mqtt_recv, mqtt.c:538-600, 777-805).
THEOREM NothingLostHolds ==
  ASSUME PubQos = {2}
  PROVE  Spec => []NothingLost
<1>1. IInv /\ OutInv => NothingLost
  <2> SUFFICES ASSUME IInv, OutInv, NEW n \in Range1(published) \ Range1(delivered)
               PROVE  \E i \in 1 .. Len(mq) : /\ mq[i].m.type = "PUBLISH" /\ mq[i].m.id = n
                                              /\ mq[i].state # "COMPLETE"
    BY DEF NothingLost
  <2>1. PICK j \in 1 .. Len(published) : n = published[j]
    BY DEF Range1
  <2>2. n = j
    BY <2>1 DEF OutInv, Typed, Numbered
  <2>3. ~(n \in 1 .. Len(delivered))
    <3> SUFFICES ASSUME n \in 1 .. Len(delivered) PROVE FALSE
      OBVIOUS
    <3>1. delivered[n] = n
      BY DEF OutInv, Typed, Numbered
    <3> QED BY <3>1 DEF Range1
  <2>4. n \in Len(delivered) + 1 .. Len(published)
    BY <2>1, <2>2, <2>3 DEF IInv, ClientType, BrokerType
  <2>5. PICK m \in PubWait : m.id = n
    BY <2>4 DEF OutInv, OnTheWay, NoneMissing
  <2> QED BY <2>5 DEF PubWait, WaitOf, Done
<1> QED BY <1>1, OutHolds, PTL

\* A step of the system is a step of the channel or leaves it alone: a
\* publication sends, a PUBLISH that the broker does not know is received.
LEMMA OutStep ==
  ASSUME PubQos = {2}, IInv, OutInv, [Next]_vars
  PROVE  [Out!XNext]_<<published, delivered>>
<1>0. /\ published \in Seq(1 .. MaxPub) /\ delivered \in Seq(1 .. MaxPub)
      /\ Len(published) \in Nat /\ Len(delivered) \in Nat /\ MaxPub \in Nat
  BY MqttClientAssumption DEF IInv, ClientType, BrokerType
<1>1. CASE ClientNext /\ UNCHANGED broker
  <2>1. CASE \E q \in PubQos : Publish(q)
    <3>1. /\ Len(published) < MaxPub
          /\ published' = published \/ published' = Append(published, Len(published) + 1)
      BY <2>1 DEF Publish, Packet
    <3>2. Len(published) + 1 \in 1 .. MaxPub
      BY <1>0, <3>1
    <3>3. UNCHANGED delivered
      BY <1>1 DEF broker
    <3> QED BY <3>1, <3>2, <3>3 DEF Out!XNext, Out!Send
  <2>2. CASE Receive
    BY <1>1, <2>2 DEF Receive, RecvPublish, RecvAck, RecvPubrec, RecvPubrel, Exchange, Answer, Failed,
                      Handled, Handle, broker
  <2>3. CASE StartSend \/ FinishSend \/ SocketError
    BY <1>1, <2>3 DEF StartSend, FinishSend, SocketError, broker
  <2>4. CASE pc = "send" /\ \E i \in next .. Len(mq), k \in 0 .. 2 : Transmit(i, k)
    BY <1>1, <2>4 DEF Transmit, broker
  <2> QED BY <1>1, <2>1, <2>2, <2>3, <2>4 DEF ClientNext
<1>2. CASE BrokerReads
  <2> DEFINE m == toBroker[1].m
  <2>1. OnConnect(m) \/ OnSubscribe(m) \/ OnPublish(m) \/ OnPubrel(m) \/ OnPubrec(m) \/ OnAck(m)
        \/ OnPing(m)
    BY <1>2 DEF BrokerReads
  <2>2. 1 \in 1 .. Len(toBroker)
    BY <1>2 DEF BrokerReads, IInv, ClientType
  <2>3. m.pid \notin rcvd /\ PubSent(1) => m.id = Len(delivered) + 1 /\ Len(delivered) < Len(published)
    BY <2>2, NextDelivered
  <2>4. PubSent(1) <=> m.type = "PUBLISH"
    BY DEF PubSent
  <2>5. PubSent(1) => m.qos = 2
    BY <2>2 DEF OutInv, Typed, SentReal
  <2> HIDE DEF m
  <2>6. CASE OnPublish(m)
    <3>1. published' = published
      BY <2>6 DEF OnPublish, Read
    <3>2. m.type = "PUBLISH" /\ m.qos = 2
      BY <2>4, <2>5, <2>6 DEF OnPublish
    <3>3. delivered' = IF m.pid \in rcvd THEN delivered ELSE Append(delivered, m.id)
      BY <2>6, <3>2 DEF OnPublish
    <3>4. CASE m.pid \in rcvd
      BY <3>1, <3>3, <3>4
    <3>5. CASE m.pid \notin rcvd
      <4>1. m.id = Len(delivered) + 1 /\ Len(delivered) < Len(published)
        BY <2>3, <2>4, <3>2, <3>5
      <4>2. m.id \in 1 .. Len(published)
        BY <1>0, <4>1
      <4>3. published[m.id] = m.id
        BY <4>2 DEF OutInv, Typed, Numbered
      <4>4. published[Len(delivered) + 1] = m.id
        BY <4>1, <4>3
      <4> QED BY <3>1, <3>3, <3>5, <4>1, <4>4 DEF Out!XNext, Out!Receive
    <3> QED BY <3>4, <3>5
  <2>7. CASE ~OnPublish(m)
    BY <2>1, <2>7 DEF OnConnect, OnSubscribe, OnPubrel, OnPubrec, OnAck, OnPing, Read, broker
  <2> QED BY <2>6, <2>7
<1>3. CASE \E q \in BQos : BrokerPublish(q)
  BY <1>3 DEF BrokerPublish, BrokerSends
<1>4. CASE \E p \in flight : BrokerAgain(p)
  BY <1>4 DEF BrokerAgain, BrokerSends
<1>5. CASE UNCHANGED vars
  BY <1>5 DEF vars, client, broker
<1> QED BY <1>1, <1>2, <1>3, <1>4, <1>5 DEF Next

\* The publications of the panel reach the subscribers exactly once and in
\* order: the client with the broker implements the channel of ExactlyOnce
\* ("only send QoS 2 message if there are no inflight QoS 2 PUBLISH messages",
\* mqtt.c:538, and the PUBREC case of __mqtt_recv, mqtt.c:777-805).
THEOREM ExactlyOnceOutHolds ==
  ASSUME PubQos = {2}
  PROVE  Spec => ExactlyOnceOut
<1>1. Init => Out!XInit
  BY DEF Init, ClientInit, Out!XInit
<1>2. (IInv /\ OutInv) /\ [Next]_vars => [Out!XNext]_<<published, delivered>>
  BY OutStep
<1> QED BY <1>1, <1>2, OutHolds, PTL DEF Spec, ExactlyOnceOut, Out!XSpec
-----------------------------------------------------------------------------
\* The inbound exchange, where the broker uses every packet identifier once.
\* The invariant InInv follows a publication from the broker to the callback
\* and its PUBREC, PUBREL and PUBCOMP back and forth.
\* The publications that the queue or the connection acknowledges, and those
\* whose PUBREC waits for its PUBREL.
AcksOf(q) == {q[i].m.pid : i \in {j \in 1 .. Len(q) : q[j].m.type \in {"PUBACK", "PUBREC"}}}
RecOf(q)  == {m.pid : m \in WaitOf(q, "PUBREC")}
RecWait   == RecOf(mq)

\* A PUBLISH of the broker stands for one publication, whose number is its
\* packet identifier unless it is of QoS 0.
PubOf(p)  == p.type = "PUBLISH" => /\ p.id \in 1 .. Len(bpublished)
                                   /\ p.qos = bpublished[p.id]
                                   /\ p.pid = IF p.qos = 0 THEN 0 ELSE p.id
PubReal   == /\ \A i \in 1 .. Len(toClient) : PubOf(toClient[i])
             /\ \A p \in flight : PubOf(p) /\ (p.type = "PUBLISH" => p.qos # 0)
InRange   == Range1(called) \subseteq 1 .. Len(bpublished)
FlightOne == \A p, w \in flight : p.pid = w.pid => p = w

\* What is acknowledged or released, the callback has seen.
AckGiven == AcksOf(mq) \cup AcksOf(toBroker) \subseteq Range1(called)
RelGiven == /\ \A i \in 1 .. Len(toClient) :
                  toClient[i].type = "PUBREL" => toClient[i].pid \in Range1(called)
            /\ \A p \in flight : p.type = "PUBREL" => p.pid \in Range1(called)

\* No PUBLISH follows the PUBREL of its identifier, and none can any more.
RelLast  == \A i, j \in 1 .. Len(toClient) :
               i < j /\ toClient[i].type = "PUBREL" /\ toClient[j].type = "PUBLISH"
               => toClient[i].pid # toClient[j].pid
RelAlone == \A i \in 1 .. Len(toClient) : \A p \in flight :
               toClient[i].type = "PUBREL" /\ p.type = "PUBLISH" => toClient[i].pid # p.pid

\* While a publication the callback has seen may come again, its PUBREC waits.
MayCome(n) == \/ \E p \in flight : p.type = "PUBLISH" /\ p.pid = n
              \/ \E i \in 1 .. Len(toClient) : toClient[i].type = "PUBLISH" /\ toClient[i].pid = n
RecKept    == error = "OK" => \A n \in Range1(called) : bpublished[n] = 2 /\ MayCome(n) => n \in RecWait

InReal    == PubReal /\ InRange /\ FlightOne
InOrdered == RelLast /\ RelAlone /\ RecKept
InInv     == InReal /\ AckGiven /\ RelGiven /\ InOrdered /\ CalledOnce /\ AckedIsCalled
-----------------------------------------------------------------------------
\* Making room, staging and moving a message forward acknowledge nothing new.
LEMMA StagedAcks ==
  ASSUME NEW q \in Seq(QMsg), NEW m \in Msg
  PROVE  /\ AcksOf(Staged(q, m)) \subseteq
               AcksOf(q) \cup IF CanPack(q) /\ m.type \in {"PUBACK", "PUBREC"} THEN {m.pid} ELSE {}
         /\ CanPack(q) => error = "OK"
<1> DEFINE r == Room(q)
<1>1. PICK f \in 1 .. Len(q) + 1 : r = SubSeq(q, f, Len(q))
  BY RoomIsSuffix
<1>2. /\ r \in Seq(QMsg) /\ Len(r) = Len(q) - f + 1
      /\ \A i \in 1 .. Len(r) : r[i] = q[f + i - 1] /\ f + i - 1 \in 1 .. Len(q)
  BY <1>1
<1> HIDE DEF r
<1>3. AcksOf(r) \subseteq AcksOf(q)
  BY <1>2 DEF AcksOf
<1> DEFINE e == Queued(m)
           a == Append(r, e)
<1>4. e.m = m
  BY DEF Queued
<1> HIDE DEF e
<1>5. /\ Len(a) = Len(r) + 1 /\ Len(r) \in Nat
      /\ \A i \in 1 .. Len(r) : a[i] = r[i]
      /\ a[Len(r) + 1] = e
  BY <1>2
<1>6. \A i \in 1 .. Len(a) : i = Len(r) + 1 \/ i \in 1 .. Len(r)
  BY <1>5
<1> HIDE DEF a
<1>7. AcksOf(a) \subseteq AcksOf(r) \cup IF m.type \in {"PUBACK", "PUBREC"} THEN {m.pid} ELSE {}
  BY <1>4, <1>5, <1>6 DEF AcksOf
<1>8. Staged(q, m) = IF CanPack(q) THEN a ELSE IF error = "OK" THEN r ELSE q
  BY DEF Staged, a, e, r
<1>9. CanPack(q) => error = "OK"
  BY DEF CanPack
<1>10. CASE CanPack(q)
  BY <1>3, <1>7, <1>8, <1>9, <1>10
<1>11. CASE ~CanPack(q)
  BY <1>3, <1>8, <1>9, <1>11
<1> QED BY <1>10, <1>11

LEMMA ForwardAcks ==
  ASSUME NEW q \in Seq(QMsg), NEW k \in 1 .. Len(q), NEW s
  PROVE  AcksOf([q EXCEPT ![k].state = s]) = AcksOf(q)
<1> DEFINE r == [q EXCEPT ![k].state = s]
<1>1. Len(r) = Len(q) /\ \A i \in 1 .. Len(q) : r[i].m = q[i].m
  <2>1. \A i \in 1 .. Len(q) : q[i] \in QMsg
    OBVIOUS
  <2>2. Len(r) = Len(q) /\ \A i \in 1 .. Len(q) : r[i] = IF i = k THEN [q[k] EXCEPT !.state = s] ELSE q[i]
    OBVIOUS
  <2>3. [q[k] EXCEPT !.state = s].m = q[k].m
    BY <2>1 DEF QMsg
  <2> QED BY <2>2, <2>3
<1> HIDE DEF r
<1> QED BY <1>1 DEF AcksOf, r

\* The PUBLISHes and PUBRELs on the connection to the client after a step that
\* puts none on it.
LineSuffix == \E s \in Nat : \A i \in 1 .. Len(toClient') :
                 toClient'[i].type \in {"PUBLISH", "PUBREL"} =>
                    i + s \in 1 .. Len(toClient) /\ toClient'[i] = toClient[i + s]

\* A step that calls nothing back and puts nothing of the exchanges of the
\* broker on the connection.
Still == /\ UNCHANGED <<called, bpublished>>
         /\ flight' \subseteq flight
         /\ \A p \in flight \ flight' : p.type = "PUBLISH" => p.pid \in Range1(called)
         /\ error' = "OK" => error = "OK"
         /\ AcksOf(mq') \cup AcksOf(toBroker') \subseteq Range1(called)
         /\ error' = "OK" => \A n \in RecWait \ RecWait' : ~MayCome(n)'
         /\ LineSuffix

LEMMA SameLine == toClient' = toClient => LineSuffix
<1> SUFFICES ASSUME toClient' = toClient PROVE LineSuffix
  OBVIOUS
<1>1. 0 \in Nat /\ \A i \in 1 .. Len(toClient) : i + 0 = i
  OBVIOUS
<1> QED BY <1>1 DEF LineSuffix

LEMMA StillKeeps ==
  ASSUME IInv, InInv, Still
  PROVE  InInv'
<1>1. PICK s \in Nat : \A i \in 1 .. Len(toClient') :
                 toClient'[i].type \in {"PUBLISH", "PUBREL"} =>
                    i + s \in 1 .. Len(toClient) /\ toClient'[i] = toClient[i + s]
  BY DEF Still, LineSuffix
<1>2. \A i, j \in 1 .. Len(toClient') : i < j => i + s < j + s
  OBVIOUS
<1>3. /\ UNCHANGED <<called, bpublished>> /\ flight' \subseteq flight
      /\ Range1(called)' = Range1(called) /\ Len(bpublished)' = Len(bpublished)
  BY DEF Still, Range1
<1>4. InReal'
  BY <1>1, <1>3 DEF InInv, InReal, PubReal, InRange, FlightOne, PubOf
<1>5. AckGiven'
  BY <1>3 DEF Still, AckGiven
<1>6. RelGiven'
  BY <1>1, <1>3 DEF InInv, RelGiven
<1>7. RelLast'
  BY <1>1, <1>2 DEF InInv, InOrdered, RelLast
<1>8. RelAlone'
  BY <1>1, <1>3 DEF InInv, InOrdered, RelAlone
<1>9. RecKept'
  <2>1. \A n : MayCome(n)' => MayCome(n)
    BY <1>1, <1>3 DEF MayCome
  <2> QED BY <1>3, <2>1 DEF Still, InInv, InOrdered, RecKept
<1>10. CalledOnce'
  BY <1>3 DEF InInv, CalledOnce
<1>11. AckedIsCalled'
  <2> SUFFICES ASSUME NEW n \in 1 .. Len(bpublished) \ Range1(called), bpublished[n] # 0
               PROVE  \E p \in flight' : p.type = "PUBLISH" /\ p.id = n
    BY <1>3 DEF AckedIsCalled
  <2>1. PICK p \in flight : p.type = "PUBLISH" /\ p.id = n
    BY DEF InInv, AckedIsCalled
  <2>2. p.pid = n
    BY <2>1 DEF InInv, InReal, PubReal, PubOf
  <2>3. p \in flight'
    BY <2>1, <2>2 DEF Still
  <2> QED BY <2>1, <2>3
<1> QED BY <1>4, <1>5, <1>6, <1>7, <1>8, <1>9, <1>10, <1>11 DEF InInv, InOrdered

\* What the client has in its queue or sends, it acknowledges as before.
LEMMA QueueStill ==
  ASSUME IInv, InInv, UNCHANGED <<called, bpublished, flight>>,
         error' = "OK" => error = "OK",
         AcksOf(mq') \subseteq AcksOf(mq), AcksOf(toBroker') \subseteq AcksOf(toBroker) \cup AcksOf(mq),
         RecWait \subseteq RecWait', LineSuffix
  PROVE  InInv'
<1>1. AcksOf(mq') \cup AcksOf(toBroker') \subseteq Range1(called)
  BY DEF InInv, AckGiven
<1>2. Still
  BY <1>1 DEF Still
<1> QED BY <1>2, StillKeeps
-----------------------------------------------------------------------------
LEMMA StagedRecs ==
  ASSUME NEW q \in Seq(QMsg), NEW m \in Msg
  PROVE  RecOf(Staged(q, m)) = RecOf(q) \cup IF CanPack(q) /\ m.type = "PUBREC" THEN {m.pid} ELSE {}
<1>1. WaitOf(Staged(q, m), "PUBREC") =
         WaitOf(q, "PUBREC") \cup IF CanPack(q) /\ m.type = "PUBREC" THEN {m} ELSE {}
  BY StagedWaits
<1>2. CASE CanPack(q) /\ m.type = "PUBREC"
  BY <1>1, <1>2 DEF RecOf
<1>3. CASE ~(CanPack(q) /\ m.type = "PUBREC")
  BY <1>1, <1>3 DEF RecOf
<1> QED BY <1>2, <1>3

LEMMA ReleasedRecs ==
  ASSUME IInv, NEW i \in 1 .. Len(mq)
  PROVE  /\ Released(i) \in Seq(QMsg)
         /\ AcksOf(Released(i)) = AcksOf(mq)
         /\ \A n \in RecOf(mq) : n \in RecOf(Released(i)) \/ (n = mq[i].m.pid /\ mq[i].m.type = "PUBREC")
<1>1. mq \in Seq(QMsg)
  BY DEF IInv, ClientType
<1>2. AcksOf(Released(i)) = AcksOf(mq)
  BY <1>1, ForwardAcks DEF Released
<1>3. Released(i) \in Seq(QMsg)
  BY ReleasedWaits
<1>4. \A m : m \in WaitOf(mq, "PUBREC") =>
               m \in WaitOf(Released(i), "PUBREC") \/ (m = mq[i].m /\ mq[i].m.type = "PUBREC")
  BY ReleasedWaits
<1> QED BY <1>2, <1>3, <1>4 DEF RecOf

\* The application, and the keep-alive, stage a message that acknowledges
\* nothing.
LEMMA StagedIn ==
  ASSUME IInv, InInv, NEW m \in Msg, m.type \notin {"PUBACK", "PUBREC"},
         mq' = Staged(mq, m), error' = StageError(mq),
         UNCHANGED <<called, bpublished, flight, toClient, toBroker>>
  PROVE  InInv'
<1>1. mq \in Seq(QMsg)
  BY DEF IInv, ClientType
<1>2. AcksOf(mq') \subseteq AcksOf(mq)
  BY <1>1, StagedAcks
<1>3. RecWait \subseteq RecWait'
  BY <1>1, StagedRecs DEF RecWait
<1>4. error' = "OK" => error = "OK"
  BY DEF StageError
<1>5. AcksOf(toBroker') \subseteq AcksOf(toBroker) \cup AcksOf(mq)
  OBVIOUS
<1> QED BY <1>2, <1>3, <1>4, <1>5, SameLine, QueueStill

LEMMA PublishIn ==
  ASSUME IInv, InInv, NEW qos \in PubQos, Publish(qos), UNCHANGED broker
  PROVE  InInv'
<1>1. PICK x \in Pids :
         /\ mq' = Staged(mq, Packet("PUBLISH", x, qos, Len(published) + 1))
         /\ error' = StageError(mq)
  BY DEF Publish, __mqtt_next_pid
<1> DEFINE n == Len(published) + 1
           m == Packet("PUBLISH", x, qos, n)
<1>2. n \in 1 .. MaxPub /\ n \in Nat /\ qos \in 0 .. 2 /\ x \in Ids
  BY MqttClientAssumption DEF Publish, IInv, ClientType, Ids
<1>3. m = [type |-> "PUBLISH", pid |-> x, qos |-> qos, id |-> n, ok |-> TRUE]
  BY DEF Packet
<1>4. mq' = Staged(mq, m)
  BY <1>1
<1> HIDE DEF m, n
<1>5. m \in Msg /\ m.type = "PUBLISH"
  BY <1>2, <1>3 DEF Msg, Types
<1>6. UNCHANGED <<called, bpublished, flight, toClient, toBroker>>
  BY DEF Publish, broker
<1> QED BY <1>1, <1>4, <1>5, <1>6, StagedIn

\* A step that leaves the queue alone, and the connection, or empties it.
LEMMA StillIn ==
  ASSUME IInv, InInv, UNCHANGED <<called, bpublished, flight, mq>>, error' = "OK" => error = "OK",
         toBroker' \in {toBroker, << >>}, toClient' \in {toClient, << >>}
  PROVE  InInv'
<1>1. LineSuffix
  <2>1. CASE toClient' = toClient
    BY <2>1, SameLine
  <2>2. CASE toClient' = << >>
    <3>1. 0 \in Nat /\ \A i \in 1 .. Len(toClient') : FALSE
      BY <2>2
    <3> QED BY <3>1 DEF LineSuffix
  <2> QED BY <2>1, <2>2
<1>2. AcksOf(toBroker') \subseteq AcksOf(toBroker) \cup AcksOf(mq)
  <2>1. AcksOf(<< >>) = {}
    BY DEF AcksOf
  <2> QED BY <2>1
<1>3. AcksOf(mq') = AcksOf(mq) /\ RecWait' = RecWait
  BY DEF RecWait
<1> QED BY <1>1, <1>2, <1>3, QueueStill

LEMMA FinishSendIn ==
  ASSUME IInv, InInv, FinishSend, UNCHANGED broker
  PROVE  InInv'
<1>0. UNCHANGED <<called, bpublished, flight, toClient, toBroker>>
  BY DEF FinishSend, broker
<1>1. CASE UNCHANGED <<mq, error, pings>>
  BY <1>0, <1>1, StillIn
<1>2. CASE mq' = Staged(mq, Plain("PINGREQ", 0)) /\ error' = StageError(mq)
  <2>1. Plain("PINGREQ", 0) \in Msg /\ Plain("PINGREQ", 0).type = "PINGREQ"
    BY PlainMsg DEF Types, Ids
  <2> QED BY <1>0, <1>2, <2>1, StagedIn
<1> QED BY <1>1, <1>2 DEF FinishSend

LEMMA TransmitIn ==
  ASSUME IInv, InInv, pc = "send", NEW i \in next .. Len(mq), NEW k \in 0 .. 2, Transmit(i, k),
         UNCHANGED broker
  PROVE  InInv'
<1> DEFINE retry  == mq[i].state = "AWAITING_ACK"
           offset == IF retry THEN 0 ELSE send_offset
           whole  == offset + k = 2
           f      == [m |-> mq[i].m, from |-> offset, to |-> offset + k]
           s      == AfterSend(mq[i].m)
<1>1. mq \in Seq(QMsg) /\ Len(mq) \in Nat /\ next \in Nat /\ next # 0 /\ Len(toBroker) \in Nat
  BY MqttClientAssumption DEF IInv, ClientType, Sending
<1>2. /\ Due(i) \/ retry
      /\ toBroker' = IF k = 0 THEN toBroker ELSE Append(toBroker, f)
      /\ mq' = IF whole THEN [mq EXCEPT ![i].state = s] ELSE mq
      /\ UNCHANGED <<error, toClient, called, bpublished, flight>>
  BY DEF Transmit, broker
<1>3. i \in 1 .. Len(mq)
  BY <1>1
<1>4. mq[i] \in QMsg /\ ~Done(mq[i])
  <2>1. mq[i] \in QMsg
    BY <1>1, <1>3
  <2> QED BY <1>2, <2>1 DEF QMsg, Due, Done
<1>5. s \in {"AWAITING_ACK", "COMPLETE"} /\ (mq[i].m.type = "PUBREC" => s = "AWAITING_ACK")
  BY DEF AfterSend
<1>6. f.m = mq[i].m
  OBVIOUS
<1>7. toBroker \in Seq(Frag)
  BY DEF IInv, ClientType
<1> HIDE DEF f, s, retry, offset, whole
<1>8. AcksOf(mq') = AcksOf(mq)
  BY <1>1, <1>2, <1>3, ForwardAcks
<1>9. AcksOf(toBroker') \subseteq AcksOf(toBroker) \cup AcksOf(mq)
  <2>1. CASE k = 0
    BY <1>2, <2>1
  <2>2. CASE k # 0
    <3>1. toBroker' = Append(toBroker, f)
      BY <1>2, <2>2
    <3>2. /\ Len(toBroker') = Len(toBroker) + 1
          /\ \A j \in 1 .. Len(toBroker) : toBroker'[j] = toBroker[j]
          /\ toBroker'[Len(toBroker) + 1] = f
      BY <1>7, <3>1
    <3>3. \A j \in 1 .. Len(toBroker') : j = Len(toBroker) + 1 \/ j \in 1 .. Len(toBroker)
      BY <1>1, <3>2
    <3> QED BY <1>3, <1>6, <3>2, <3>3 DEF AcksOf
  <2> QED BY <2>1, <2>2
<1>10. RecWait \subseteq RecWait'
  <2>1. CASE whole
    <3>1. LET r == [mq EXCEPT ![i].state = s] IN
          /\ r \in Seq(QMsg)
          /\ \A t : WaitOf(r, t) \subseteq WaitOf(mq, t)
          /\ \A t, m : m \in WaitOf(mq, t) =>
               m \in WaitOf(r, t) \/ (s = "COMPLETE" /\ m = mq[i].m /\ mq[i].m.type = t)
          /\ Rising(mq) => Rising(r)
      BY <1>1, <1>3, <1>4, <1>5, ForwardWaits
    <3>2. WaitOf(mq, "PUBREC") \subseteq WaitOf(mq', "PUBREC")
      BY <1>2, <1>5, <2>1, <3>1
    <3> QED BY <3>2 DEF RecWait, RecOf
  <2>2. CASE ~whole
    BY <1>2, <2>2 DEF RecWait
  <2> QED BY <2>1, <2>2
<1> QED BY <1>2, <1>8, <1>9, <1>10, SameLine, QueueStill
-----------------------------------------------------------------------------
LEMMA TailLine ==
  ASSUME IInv, toClient # << >>, toClient' = Tail(toClient)
  PROVE  /\ \A i \in 1 .. Len(toClient') : /\ i + 1 \in 1 .. Len(toClient) /\ 1 < i + 1
                                           /\ toClient'[i] = toClient[i + 1]
         /\ 1 \in 1 .. Len(toClient) /\ Head(toClient) = toClient[1]
         /\ LineSuffix
<1>1. /\ \A i \in 1 .. Len(toClient') : /\ i + 1 \in 2 .. Len(toClient)
                                        /\ toClient'[i] = toClient[i + 1]
      /\ 1 \in 1 .. Len(toClient) /\ Head(toClient) = toClient[1]
  BY TailTaken
<1>2. \A i \in 1 .. Len(toClient') : i + 1 \in 1 .. Len(toClient) /\ 1 < i + 1
  BY <1>1
<1>3. LineSuffix
  BY <1>1, <1>2 DEF LineSuffix
<1> QED BY <1>1, <1>2, <1>3

\* A packet that calls nothing back.
LEMMA HandleIn ==
  ASSUME IInv, InInv, toClient # << >>, NEW e, NEW ret, Handle(e, ret),
         e = "OK" => error = "OK", UNCHANGED <<called, bpublished, flight>>,
         AcksOf(mq') \subseteq Range1(called),
         \A n \in RecWait \ RecWait' : ~MayCome(n)'
  PROVE  InInv'
<1>1. toClient' = Tail(toClient) /\ error' = e /\ toBroker' = toBroker
  BY DEF Handle
<1>2. LineSuffix
  BY <1>1, TailLine
<1>3. AcksOf(toBroker') \subseteq Range1(called)
  BY <1>1 DEF InInv, AckGiven
<1>4. Still
  BY <1>1, <1>2, <1>3 DEF Still
<1> QED BY <1>4, StillKeeps

\* One that is answered by a PUBREL or a PUBCOMP.
LEMMA AnswerIn ==
  ASSUME IInv, InInv, toClient # << >>, UNCHANGED <<called, bpublished, flight>>,
         NEW q \in Seq(QMsg), AcksOf(q) = AcksOf(mq),
         NEW t \in {"PUBREL", "PUBCOMP"}, NEW x \in Ids, Answer(q, t, x),
         \A n \in RecOf(mq) \ RecOf(q) : ~MayCome(n)'
  PROVE  InInv'
<1>1. mq' = Staged(q, Plain(t, x)) /\ Handle(StageError(q), StageError(q))
  BY DEF Answer, Failed
<1>2. Plain(t, x) \in Msg /\ Plain(t, x).type = t
  BY PlainMsg DEF Types
<1>3. AcksOf(mq') \subseteq AcksOf(q)
  BY <1>1, <1>2, StagedAcks
<1>4. AcksOf(mq') \subseteq Range1(called)
  BY <1>3 DEF InInv, AckGiven
<1>5. RecOf(mq') = RecOf(q)
  BY <1>1, <1>2, StagedRecs
<1>6. \A n \in RecWait \ RecWait' : ~MayCome(n)'
  BY <1>5 DEF RecWait
<1>7. StageError(q) = "OK" => error = "OK"
  BY DEF StageError
<1> QED BY <1>1, <1>4, <1>6, <1>7, HandleIn

\* The queue is left alone, or a message in it is answered.
LEMMA UnchangedIn ==
  ASSUME IInv, InInv, toClient # << >>, NEW e, NEW ret, Handle(e, ret), e = "OK" => error = "OK",
         UNCHANGED <<called, bpublished, flight, mq>>
  PROVE  InInv'
<1>1. AcksOf(mq') \subseteq Range1(called) /\ RecWait' = RecWait
  BY DEF InInv, AckGiven, RecWait
<1> QED BY <1>1, HandleIn

LEMMA RecvAckIn ==
  ASSUME IInv, InInv, toClient # << >>, NEW p \in Pkt, RecvAck(p), UNCHANGED broker
  PROVE  InInv'
<1> DEFINE i == mqtt_mq_find(AckOf[p.type], p.pid)
           t == AckOf[p.type]
<1>1. t # "PUBREC" /\ UNCHANGED <<called, bpublished, flight>> /\ mq \in Seq(QMsg)
  BY DEF RecvAck, AckOf, broker, IInv, ClientType
<1>2. CASE i = 0 /\ Failed("ACK_OF_UNKNOWN") /\ UNCHANGED mq
  BY <1>1, <1>2, UnchangedIn DEF Failed
<1>3. CASE i # 0 /\ mq' = Released(i) /\ IF p.ok THEN Handled ELSE Failed(Refusal[p.type])
  <2>1. i \in 1 .. Len(mq) /\ mq[i].m.type = t
    BY <1>1, <1>3, FindSound
  <2>2. p.ok \/ p.type \in {"CONNACK", "SUBACK"}
    BY DEF Pkt
  <2>3. ~p.ok => Refusal[p.type] # "OK"
    BY <2>2 DEF Refusal
  <2> HIDE DEF i, t
  <2>4. AcksOf(mq') = AcksOf(mq) /\ \A n \in RecOf(mq) : n \in RecOf(mq')
    BY <1>1, <1>3, <2>1, ReleasedRecs
  <2>5. AcksOf(mq') \subseteq Range1(called) /\ RecWait \ RecWait' = {}
    BY <2>4 DEF InInv, AckGiven, RecWait
  <2>6. CASE p.ok
    BY <1>1, <1>3, <2>5, <2>6, HandleIn DEF Handled
  <2>7. CASE ~p.ok
    BY <1>1, <1>3, <2>3, <2>5, <2>7, HandleIn DEF Failed
  <2> QED BY <2>6, <2>7
<1> QED BY <1>2, <1>3 DEF RecvAck

LEMMA RecvPubrecIn ==
  ASSUME IInv, InInv, toClient # << >>, NEW p \in Pkt, RecvPubrec(p), UNCHANGED broker
  PROVE  InInv'
<1> DEFINE i == mqtt_mq_find("PUBLISH", p.pid)
<1>1. mq \in Seq(QMsg) /\ p.pid \in Ids /\ UNCHANGED <<called, bpublished, flight>>
  BY DEF IInv, ClientType, Pkt, RecvPubrec, Exchange, broker
<1>2. CASE Handled /\ UNCHANGED <<mq, called>>
  BY <1>1, <1>2, UnchangedIn DEF Handled
<1>3. CASE i = 0 /\ Failed("ACK_OF_UNKNOWN") /\ UNCHANGED mq
  BY <1>1, <1>3, UnchangedIn DEF Failed
<1>4. CASE i # 0 /\ Answer(Released(i), "PUBREL", p.pid)
  <2>1. i \in 1 .. Len(mq) /\ mq[i].m.type = "PUBLISH"
    BY <1>1, <1>4, FindSound
  <2> HIDE DEF i
  <2>2. /\ Released(i) \in Seq(QMsg) /\ AcksOf(Released(i)) = AcksOf(mq)
        /\ \A n \in RecOf(mq) \ RecOf(Released(i)) : ~MayCome(n)'
    BY <2>1, ReleasedRecs
  <2> QED BY <1>1, <1>4, <2>2, AnswerIn
<1> QED BY <1>2, <1>3, <1>4 DEF RecvPubrec, Exchange

\* The PUBREC of an exchange is released when no PUBLISH of it is left.
LEMMA RecvPubrelIn ==
  ASSUME IInv, InInv, toClient # << >>, NEW p \in Pkt, p = Head(toClient), RecvPubrel(p),
         UNCHANGED broker
  PROVE  InInv'
<1> DEFINE i == mqtt_mq_find("PUBREC", p.pid)
<1>1. mq \in Seq(QMsg) /\ p.pid \in Ids /\ UNCHANGED <<called, bpublished, flight>>
  BY DEF IInv, ClientType, Pkt, RecvPubrel, Exchange, broker
<1>2. CASE i = 0 /\ Failed("ACK_OF_UNKNOWN") /\ UNCHANGED mq
  BY <1>1, <1>2, UnchangedIn DEF Failed
<1>3. CASE i # 0 /\ Answer(Released(i), "PUBCOMP", p.pid)
  <2>1. toClient' = Tail(toClient)
    BY <1>3 DEF Answer, Failed, Handle
  <2>2. /\ \A j \in 1 .. Len(toClient') : /\ j + 1 \in 1 .. Len(toClient) /\ 1 < j + 1
                                          /\ toClient'[j] = toClient[j + 1]
        /\ 1 \in 1 .. Len(toClient) /\ p = toClient[1]
    BY <2>1, TailLine
  <2>3. p.type = "PUBREL"
    BY DEF RecvPubrel
  <2>4. p.pid # 0
    <3>1. p.pid \in 1 .. Len(bpublished)
      BY <2>2, <2>3 DEF InInv, RelGiven, InReal, InRange
    <3> QED BY <3>1
  <2>5. i \in 1 .. Len(mq) /\ mq[i].m.pid = p.pid
    BY <1>1, <1>3, <2>4, FindSound
  <2>6. ~MayCome(p.pid)'
    <3>1. \A w \in flight : w.type = "PUBLISH" => w.pid # p.pid
      BY <2>2, <2>3 DEF InInv, InOrdered, RelAlone
    <3>2. \A j \in 1 .. Len(toClient') : toClient'[j].type = "PUBLISH" => toClient'[j].pid # p.pid
      BY <2>2, <2>3 DEF InInv, InOrdered, RelLast
    <3>3. \A x : x = p.pid => ~MayCome(x)'
      BY <1>1, <3>1, <3>2 DEF MayCome
    <3> QED BY <3>3
  <2> HIDE DEF i
  <2>7. /\ Released(i) \in Seq(QMsg) /\ AcksOf(Released(i)) = AcksOf(mq)
        /\ \A n \in RecOf(mq) \ RecOf(Released(i)) : n = p.pid
    BY <2>5, ReleasedRecs
  <2>8. \A n \in RecOf(mq) \ RecOf(Released(i)) : ~MayCome(n)'
    BY <2>6, <2>7
  <2> QED BY <1>1, <1>3, <2>7, <2>8, AnswerIn
<1> QED BY <1>2, <1>3 DEF RecvPubrel, Exchange
-----------------------------------------------------------------------------
\* The callback gets a PUBLISH; unless that is of QoS 0 its acknowledgement is
\* staged with it.
LEMMA CallIn ==
  ASSUME IInv, InInv, toClient # << >>, NEW p \in Pkt, p = Head(toClient), p.type = "PUBLISH",
         toClient' = Tail(toClient), called' = Append(called, p.id),
         UNCHANGED <<bpublished, flight, toBroker>>, error' = "OK" => error = "OK",
         AcksOf(mq') \subseteq AcksOf(mq) \cup IF p.qos = 0 THEN {} ELSE {p.pid},
         RecWait \subseteq RecWait',
         p.qos = 2 => p.pid \in RecWait' /\ p.id \notin Range1(called)
  PROVE  InInv'
<1> DEFINE x == p.id
           k == Len(called) + 1
<1>1. /\ \A i \in 1 .. Len(toClient') : /\ i + 1 \in 1 .. Len(toClient) /\ 1 < i + 1
                                        /\ toClient'[i] = toClient[i + 1]
      /\ 1 \in 1 .. Len(toClient) /\ p = toClient[1]
  BY TailLine
<1>2. x \in 1 .. Len(bpublished) /\ p.qos = bpublished[x] /\ p.pid = IF p.qos = 0 THEN 0 ELSE x
  BY <1>1 DEF InInv, InReal, PubReal, PubOf
<1>3. /\ Len(called') = k /\ k \in Nat
      /\ \A i \in 1 .. Len(called) : called'[i] = called[i]
      /\ called'[k] = x
      /\ \A i \in 1 .. Len(called') : i = k \/ (i \in 1 .. Len(called) /\ i # k)
  <2>1. called \in Seq(1 .. MaxBPub) /\ Len(called) \in Nat
    BY DEF IInv, ClientType
  <2> QED BY <2>1
<1> HIDE DEF k, x
<1>4. Range1(called)' = Range1(called) \cup {x}
  <2>1. \A i \in 1 .. Len(called) : i \in 1 .. Len(called')
    BY <1>3 DEF k
  <2>2. k \in 1 .. Len(called')
    BY <1>3 DEF k
  <2> QED BY <1>3, <2>1, <2>2 DEF Range1
<1>5. \A i, j \in 1 .. Len(toClient') : i < j => i + 1 < j + 1
  OBVIOUS
<1>6. InReal'
  <2>1. PubReal'
    BY <1>1 DEF InInv, InReal, PubReal, PubOf
  <2>2. InRange'
    BY <1>2, <1>4 DEF InInv, InReal, InRange
  <2>3. FlightOne'
    BY DEF InInv, InReal, FlightOne
  <2> QED BY <2>1, <2>2, <2>3 DEF InReal
<1>7. AckGiven'
  BY <1>2, <1>4 DEF InInv, AckGiven
<1>8. RelGiven'
  BY <1>1, <1>4 DEF InInv, RelGiven
<1>9. RelLast'
  BY <1>1, <1>5 DEF InInv, InOrdered, RelLast
<1>10. RelAlone'
  BY <1>1 DEF InInv, InOrdered, RelAlone
<1>11. RecKept'
  <2> SUFFICES ASSUME error' = "OK", NEW n \in Range1(called)', bpublished[n] = 2, MayCome(n)'
               PROVE  n \in RecWait'
    BY DEF RecKept
  <2>1. CASE n \in Range1(called)
    <3>1. MayCome(n)
      BY <1>1 DEF MayCome
    <3> QED BY <2>1, <3>1 DEF InInv, InOrdered, RecKept
  <2>2. CASE n = x
    BY <1>2, <2>2
  <2> QED BY <1>4, <2>1, <2>2
<1>12. CalledOnce'
  <2> SUFFICES ASSUME NEW i \in 1 .. Len(called'), NEW j \in 1 .. Len(called'), i # j,
                      bpublished[called'[i]] = 2
               PROVE  called'[i] # called'[j]
    BY DEF CalledOnce
  <2>1. CASE i # k /\ j # k
    BY <1>3, <2>1 DEF InInv, CalledOnce
  <2>2. CASE i = k
    <3>1. j \in 1 .. Len(called) /\ called'[j] = called[j]
      BY <1>3, <2>2
    <3>2. called[j] \in Range1(called)
      BY <3>1 DEF Range1
    <3>3. x \notin Range1(called)
      BY <1>2, <1>3, <2>2 DEF x
    <3> QED BY <1>3, <2>2, <3>1, <3>2, <3>3
  <2>3. CASE j = k
    <3>1. i \in 1 .. Len(called) /\ called'[i] = called[i]
      BY <1>3, <2>3
    <3>2. called[i] \in Range1(called)
      BY <3>1 DEF Range1
    <3>3. called[i] = x => x \notin Range1(called)
      BY <1>2, <3>1 DEF x
    <3> QED BY <1>3, <2>3, <3>1, <3>2, <3>3
  <2> QED BY <2>1, <2>2, <2>3
<1>13. AckedIsCalled'
  BY <1>4 DEF InInv, AckedIsCalled
<1> QED BY <1>6, <1>7, <1>8, <1>9, <1>10, <1>11, <1>12, <1>13 DEF InInv, InOrdered

LEMMA RecvPublishIn ==
  ASSUME IInv, InInv, toClient # << >>, NEW p \in Pkt, p = Head(toClient), RecvPublish(p),
         UNCHANGED broker
  PROVE  InInv'
<1> DEFINE t == IF p.qos = 1 THEN "PUBACK" ELSE "PUBREC"
           m == Plain(t, p.pid)
<1>0. /\ mq \in Seq(QMsg) /\ p.pid \in Ids /\ UNCHANGED <<bpublished, flight>>
      /\ p.type = "PUBLISH" /\ AcksOf(mq) \subseteq Range1(called)
  BY DEF IInv, ClientType, Pkt, RecvPublish, broker, InInv, AckGiven
<1>1. p.id \in 1 .. Len(bpublished) /\ p.qos = bpublished[p.id] /\ p.pid = IF p.qos = 0 THEN 0 ELSE p.id
  <2>1. 1 \in 1 .. Len(toClient) /\ p = toClient[1]
    BY DEF IInv, ClientType
  <2> QED BY <1>0, <2>1 DEF InInv, InReal, PubReal, PubOf
<1>2. CASE p.qos = 0 /\ Handled /\ called' = Append(called, p.id) /\ UNCHANGED mq
  <2>1. toClient' = Tail(toClient) /\ UNCHANGED <<toBroker, error>>
    BY <1>2 DEF Handled, Handle
  <2>2. RecWait' = RecWait /\ AcksOf(mq') = AcksOf(mq)
    BY <1>2 DEF RecWait
  <2> QED BY <1>0, <1>2, <2>1, <2>2, CallIn
<1>3. CASE /\ p.qos = 1 \/ (p.qos = 2 /\ mqtt_mq_find("PUBREC", p.pid) = 0)
           /\ Answer(mq, t, p.pid)
           /\ called' = IF CanPack(mq) THEN Append(called, p.id) ELSE called
  <2>1. /\ mq' = Staged(mq, m) /\ Handle(StageError(mq), StageError(mq))
        /\ toClient' = Tail(toClient) /\ toBroker' = toBroker /\ error' = StageError(mq)
    BY <1>3 DEF Answer, Failed, Handle
  <2>2. m \in Msg /\ m.type = t /\ m.pid = p.pid /\ t \in {"PUBACK", "PUBREC"}
    <3>1. t \in Types /\ t # "PUBLISH" /\ t \in {"PUBACK", "PUBREC"}
      BY DEF Types
    <3> HIDE DEF t
    <3> QED BY <1>0, <3>1, PlainMsg
  <2>3. p.qos = 2 => t = "PUBREC"
    OBVIOUS
  <2> HIDE DEF t, m
  <2>4. StageError(mq) = "OK" => error = "OK"
    BY DEF StageError
  <2>5. AcksOf(mq') \subseteq AcksOf(mq) \cup IF CanPack(mq) THEN {p.pid} ELSE {}
    BY <1>0, <2>1, <2>2, StagedAcks
  <2>6. RecWait' = RecWait \cup IF CanPack(mq) /\ t = "PUBREC" THEN {p.pid} ELSE {}
    BY <1>0, <2>1, <2>2, StagedRecs DEF RecWait
  <2>7. CASE ~CanPack(mq)
    <3>1. AcksOf(mq') \subseteq Range1(called) /\ RecWait \ RecWait' = {}
      BY <1>0, <2>5, <2>6, <2>7
    <3>2. called' = called
      BY <1>3, <2>7
    <3> QED BY <1>0, <2>1, <2>4, <3>1, <3>2, HandleIn
  <2>8. CASE CanPack(mq)
    <3>1. error = "OK"
      BY <2>8 DEF CanPack
    <3>2. p.qos = 2 => p.pid \in RecWait'
      BY <2>3, <2>6, <2>8
    <3>3. p.qos = 2 => p.id \notin Range1(called)
      <4> SUFFICES ASSUME p.qos = 2, p.id \in Range1(called) PROVE FALSE
        OBVIOUS
      <4>1. p.pid = p.id /\ p.pid # 0 /\ mqtt_mq_find("PUBREC", p.pid) = 0
        BY <1>1, <1>3
      <4>2. \A i \in 1 .. Len(mq) : mq[i].m.type = "PUBREC" => mq[i].m.pid # p.pid
        BY <1>0, <4>1, FindSound
      <4>3. p.pid \notin RecWait
        BY <4>2 DEF RecWait, RecOf, WaitOf
      <4>4. MayCome(p.pid)
        <5>1. 1 \in 1 .. Len(toClient) /\ p = toClient[1]
          BY DEF IInv, ClientType
        <5> QED BY <1>0, <5>1 DEF MayCome
      <4> QED BY <1>1, <3>1, <4>1, <4>3, <4>4 DEF InInv, InOrdered, RecKept
    <3>4. AcksOf(mq') \subseteq AcksOf(mq) \cup IF p.qos = 0 THEN {} ELSE {p.pid}
      BY <1>3, <2>5, <2>8
    <3>5. called' = Append(called, p.id) /\ RecWait \subseteq RecWait'
      BY <1>3, <2>6, <2>8
    <3> QED BY <1>0, <2>1, <2>4, <3>2, <3>3, <3>4, <3>5, CallIn
  <2> QED BY <2>7, <2>8
<1>4. CASE Handled /\ UNCHANGED <<mq, called>>
  BY <1>0, <1>4, UnchangedIn DEF Handled
<1> QED BY <1>2, <1>3, <1>4 DEF RecvPublish

LEMMA ClientIn ==
  ASSUME IInv, InInv, ClientNext, UNCHANGED broker
  PROVE  InInv'
<1>0. UNCHANGED <<bpublished, flight>>
  BY DEF broker
<1>1. CASE \E q \in PubQos : Publish(q)
  BY <1>1, PublishIn
<1>2. CASE Receive
  <2> DEFINE p == Head(toClient)
  <2>1. toClient # << >> /\ (RecvPublish(p) \/ RecvAck(p) \/ RecvPubrec(p) \/ RecvPubrel(p))
    BY <1>2 DEF Receive
  <2>2. p \in Pkt
    BY <2>1, HeadIsPkt
  <2>3. CASE RecvPublish(p)
    BY <2>1, <2>2, <2>3, RecvPublishIn
  <2>4. CASE RecvPubrel(p)
    BY <2>1, <2>2, <2>4, RecvPubrelIn
  <2> HIDE DEF p
  <2>5. CASE RecvAck(p)
    BY <2>1, <2>2, <2>5, RecvAckIn
  <2>6. CASE RecvPubrec(p)
    BY <2>1, <2>2, <2>6, RecvPubrecIn
  <2> QED BY <2>1, <2>3, <2>4, <2>5, <2>6
<1>3. CASE StartSend
  BY <1>0, <1>3, StillIn DEF StartSend
<1>4. CASE pc = "send" /\ \E i \in next .. Len(mq), k \in 0 .. 2 : Transmit(i, k)
  BY <1>4, TransmitIn
<1>5. CASE FinishSend
  BY <1>5, FinishSendIn
<1>6. CASE SocketError
  BY <1>0, <1>6, StillIn DEF SocketError
<1> QED BY <1>1, <1>2, <1>3, <1>4, <1>5, <1>6 DEF ClientNext
-----------------------------------------------------------------------------
\* What the broker takes from the connection, it takes from the front.
LEMMA ReadAcks ==
  ASSUME IInv, NEW m, NEW a \in Seq(Pkt), Read(m, a)
  PROVE  /\ AcksOf(toBroker') \subseteq AcksOf(toBroker)
         /\ m.type \in {"PUBACK", "PUBREC"} => m.pid \in AcksOf(toBroker)
         /\ UNCHANGED <<mq, error, called>> /\ RecWait' = RecWait
<1>1. /\ 1 \in 1 .. Len(toBroker) /\ m = toBroker[1].m
      /\ \E s \in 1 .. 2 : \A i \in 1 .. Len(toBroker') :
               i + s \in 2 .. Len(toBroker) /\ toBroker'[i] = toBroker[i + s]
      /\ UNCHANGED <<mq, error>>
  BY ReadTakes
<1>2. PICK s \in 1 .. 2 : \A i \in 1 .. Len(toBroker') :
               i + s \in 2 .. Len(toBroker) /\ toBroker'[i] = toBroker[i + s]
  BY <1>1
<1>3. \A i \in 1 .. Len(toBroker') : i + s \in 1 .. Len(toBroker)
  BY <1>2
<1>4. AcksOf(toBroker') \subseteq AcksOf(toBroker)
  BY <1>2, <1>3 DEF AcksOf
<1>5. m.type \in {"PUBACK", "PUBREC"} => m.pid \in AcksOf(toBroker)
  BY <1>1 DEF AcksOf
<1> QED BY <1>1, <1>4, <1>5 DEF Read, RecWait

\* What it answers comes last.
LEMMA ReadLine ==
  ASSUME IInv, NEW m, NEW a \in Seq(Pkt), Read(m, a),
         \A i \in 1 .. Len(a) : a[i].type \notin {"PUBLISH", "PUBREL"}
  PROVE  LineSuffix
<1>1. /\ Len(toClient') = Len(toClient) + Len(a)
      /\ \A i \in 1 .. Len(toClient) : toClient'[i] = toClient[i]
      /\ \A i \in 1 .. Len(a) : toClient'[Len(toClient) + i] = a[i]
  BY ReadTakes
<1>2. Len(toClient) \in Nat /\ Len(a) \in Nat
  BY DEF IInv, ClientType
<1>3. ASSUME NEW i \in 1 .. Len(toClient'), toClient'[i].type \in {"PUBLISH", "PUBREL"}
      PROVE  i + 0 \in 1 .. Len(toClient) /\ toClient'[i] = toClient[i + 0]
  <2>1. CASE i \in 1 .. Len(toClient)
    <3>1. i + 0 = i
      OBVIOUS
    <3> QED BY <1>1, <2>1, <3>1
  <2>2. CASE i \notin 1 .. Len(toClient)
    <3> DEFINE j == i - Len(toClient)
    <3>1. j \in 1 .. Len(a) /\ i = Len(toClient) + j
      BY <1>1, <1>2, <2>2
    <3> HIDE DEF j
    <3> QED BY <1>1, <1>3, <3>1
  <2> QED BY <2>1, <2>2
<1> QED BY <1>3 DEF LineSuffix

LEMMA ReadIn ==
  ASSUME IInv, InInv, NEW m, NEW a \in Seq(Pkt), Read(m, a),
         \A i \in 1 .. Len(a) : a[i].type \notin {"PUBLISH", "PUBREL"},
         flight' \subseteq flight,
         \A p \in flight \ flight' : p.type = "PUBLISH" => p.pid \in Range1(called),
         UNCHANGED bpublished
  PROVE  InInv'
<1>1. /\ AcksOf(toBroker') \subseteq AcksOf(toBroker)
      /\ UNCHANGED <<mq, error, called>> /\ RecWait' = RecWait
  BY ReadAcks
<1>2. AcksOf(mq') \cup AcksOf(toBroker') \subseteq Range1(called)
  BY <1>1 DEF InInv, AckGiven
<1>3. LineSuffix
  BY ReadLine
<1>4. Still
  BY <1>1, <1>2, <1>3 DEF Still
<1> QED BY <1>4, StillKeeps

\* A PUBREC ends the PUBLISH of its exchange, on the broker's side too.
LEMMA OnPubrecIn ==
  ASSUME IInv, InInv, NEW m \in Msg, OnPubrec(m)
  PROVE  InInv'
<1> DEFINE x == m.pid
           r == Plain("PUBREL", x)
           a == <<r>>
           n == Len(toClient) + 1
<1>0. /\ m.type = "PUBREC" /\ Read(m, a) /\ UNCHANGED bpublished /\ x \in Ids
      /\ flight' = {IF p.pid = x THEN r ELSE p : p \in flight}
  BY DEF OnPubrec, Msg
<1>1. r.type = "PUBREL" /\ r.pid = x
  BY DEF Plain, Packet
<1>2. a \in Seq(Pkt) /\ Len(a) = 1 /\ a[1] = r
  BY <1>0, OneAnswer DEF InTypes
<1> HIDE DEF a
<1>3. /\ AcksOf(toBroker') \subseteq AcksOf(toBroker) /\ x \in AcksOf(toBroker)
      /\ UNCHANGED <<mq, error, called>> /\ RecWait' = RecWait
  BY <1>0, <1>2, ReadAcks
<1>4. Range1(called)' = Range1(called) /\ x \in Range1(called)
  BY <1>3 DEF InInv, AckGiven, Range1
<1>5. /\ Len(toClient') = n /\ n \in Nat /\ toClient'[n] = r
      /\ \A i \in 1 .. Len(toClient) : toClient'[i] = toClient[i]
      /\ \A i \in 1 .. Len(toClient') : i = n \/ i \in 1 .. Len(toClient)
      /\ \A i, j \in 1 .. Len(toClient') : i < j => i \in 1 .. Len(toClient)
  <2>1. /\ Len(toClient') = Len(toClient) + Len(a)
        /\ \A i \in 1 .. Len(toClient) : toClient'[i] = toClient[i]
        /\ \A i \in 1 .. Len(a) : toClient'[Len(toClient) + i] = a[i]
    BY <1>0, <1>2, ReadTakes
  <2>2. Len(toClient) \in Nat
    BY DEF IInv, ClientType
  <2> QED BY <1>2, <2>1, <2>2
<1> HIDE DEF n, r
<1>6. /\ \A p \in flight' : p = r \/ (p \in flight /\ p.pid # x)
      /\ \A p \in flight' : p.type = "PUBLISH" => p \in flight /\ p.pid # x
      /\ \A p \in flight : p.pid # x => p \in flight'
  BY <1>0, <1>1
<1> HIDE DEF x
<1>7. InReal'
  <2>1. PubReal'
    <3>1. \A p : PubOf(p) => PubOf(p)'
      BY <1>0 DEF PubOf
    <3>2. \A i \in 1 .. Len(toClient') : PubOf(toClient'[i])
      BY <1>1, <1>5 DEF InInv, InReal, PubReal, PubOf
    <3>3. \A p \in flight' : PubOf(p) /\ (p.type = "PUBLISH" => p.qos # 0)
      BY <1>6 DEF InInv, InReal, PubReal, PubOf
    <3> QED BY <1>0, <3>2, <3>3 DEF PubReal, PubOf
  <2>2. InRange'
    BY <1>0, <1>4 DEF InInv, InReal, InRange
  <2>3. FlightOne'
    BY <1>1, <1>6 DEF InInv, InReal, FlightOne
  <2> QED BY <2>1, <2>2, <2>3 DEF InReal
<1>8. AckGiven'
  BY <1>3, <1>4 DEF InInv, AckGiven
<1>9. RelGiven'
  BY <1>1, <1>4, <1>5, <1>6 DEF InInv, RelGiven
<1>10. RelLast'
  <2> SUFFICES ASSUME NEW i \in 1 .. Len(toClient'), NEW j \in 1 .. Len(toClient'), i < j,
                      toClient'[i].type = "PUBREL", toClient'[j].type = "PUBLISH"
               PROVE  toClient'[i].pid # toClient'[j].pid
    BY DEF RelLast
  <2>1. i \in 1 .. Len(toClient) /\ j \in 1 .. Len(toClient)
    BY <1>1, <1>5
  <2> QED BY <1>5, <2>1 DEF InInv, InOrdered, RelLast
<1>11. RelAlone'
  BY <1>1, <1>5, <1>6 DEF InInv, InOrdered, RelAlone
<1>12. RecKept'
  <2>1. \A k : MayCome(k)' => MayCome(k)
    BY <1>1, <1>5, <1>6 DEF MayCome
  <2> QED BY <1>0, <1>3, <1>4, <2>1 DEF InInv, InOrdered, RecKept
<1>13. CalledOnce'
  BY <1>0, <1>3 DEF InInv, CalledOnce
<1>14. AckedIsCalled'
  <2> SUFFICES ASSUME NEW k \in 1 .. Len(bpublished) \ Range1(called), bpublished[k] # 0
               PROVE  \E p \in flight' : p.type = "PUBLISH" /\ p.id = k
    BY <1>0, <1>4 DEF AckedIsCalled
  <2>1. PICK p \in flight : p.type = "PUBLISH" /\ p.id = k
    BY DEF InInv, AckedIsCalled
  <2>2. p.pid = k
    BY <2>1 DEF InInv, InReal, PubReal, PubOf
  <2> QED BY <1>4, <1>6, <2>1, <2>2
<1> QED BY <1>7, <1>8, <1>9, <1>10, <1>11, <1>12, <1>13, <1>14 DEF InInv, InOrdered

LEMMA BrokerReadsIn ==
  ASSUME IInv, InInv, BrokerReads
  PROVE  InInv'
<1> DEFINE m == toBroker[1].m
<1>1. m \in Msg /\ m.pid \in Ids
  BY ReadMsg DEF BrokerReads, Msg
<1>2. OnConnect(m) \/ OnSubscribe(m) \/ OnPublish(m) \/ OnPubrel(m) \/ OnPubrec(m) \/ OnAck(m)
      \/ OnPing(m)
  BY DEF BrokerReads
<1> HIDE DEF m
<1>3. ASSUME NEW t \in {"CONNACK", "SUBACK"}, NEW v \in Verdicts(Plain(t, IF t = "CONNACK" THEN 0 ELSE m.pid)),
             Read(m, v), UNCHANGED <<flight, bpublished>>
      PROVE  InInv'
  <2> DEFINE p == IF t = "CONNACK" THEN 0 ELSE m.pid
  <2>0. p \in Ids /\ v \in Verdicts(Plain(t, p))
    BY <1>1 DEF Ids
  <2> HIDE DEF p
  <2>1. v \in Seq(Pkt)
    BY <2>0, VerdictType
  <2>2. Plain(t, p) = [type |-> t, pid |-> p, qos |-> 0, id |-> 0, ok |-> TRUE]
    BY DEF Plain, Packet
  <2>3. Len(v) = 1 /\ v[1].type = t
    BY <2>0, <2>2 DEF Verdicts
  <2>4. \A i \in 1 .. Len(v) : v[i].type \notin {"PUBLISH", "PUBREL"}
    BY <2>3
  <2> QED BY <1>3, <2>1, <2>4, ReadIn
<1>4. ASSUME NEW t \in {"PUBACK", "PUBREC", "PUBCOMP", "PINGRESP"}, NEW p \in Ids, Read(m, <<Plain(t, p)>>),
             UNCHANGED <<flight, bpublished>>
      PROVE  InInv'
  <2> DEFINE a == <<Plain(t, p)>>
  <2>1. a \in Seq(Pkt) /\ Len(a) = 1 /\ a[1].type = t
    BY OneAnswer DEF InTypes, Plain, Packet
  <2> HIDE DEF a
  <2>2. \A i \in 1 .. Len(a) : a[i].type \notin {"PUBLISH", "PUBREL"}
    BY <2>1
  <2>3. Read(m, a)
    BY <1>4 DEF a
  <2> QED BY <1>4, <2>1, <2>2, <2>3, ReadIn
<1>5. ASSUME Read(m, << >>), flight' \subseteq flight, UNCHANGED bpublished,
             \A p \in flight \ flight' : p.type = "PUBLISH" => p.pid \in Range1(called)
      PROVE  InInv'
  <2>1. << >> \in Seq(Pkt) /\ \A i \in 1 .. Len(<< >>) : << >>[i].type \notin {"PUBLISH", "PUBREL"}
    OBVIOUS
  <2> QED BY <1>5, <2>1, ReadIn
<1>6. CASE OnConnect(m)
  <2>1. PICK v \in Verdicts(Plain("CONNACK", 0)) : Read(m, v)
    BY <1>6 DEF OnConnect
  <2> QED BY <1>3, <1>6, <2>1 DEF OnConnect
<1>7. CASE OnSubscribe(m)
  <2>1. PICK v \in Verdicts(Plain("SUBACK", m.pid)) : Read(m, v)
    BY <1>7 DEF OnSubscribe
  <2> QED BY <1>3, <1>7, <2>1 DEF OnSubscribe
<1>8. CASE OnPublish(m)
  <2>1. m.qos \in 0 .. 2
    BY <1>1 DEF Msg
  <2>2. CASE m.qos = 0
    BY <1>5, <1>8, <2>2 DEF OnPublish
  <2>3. CASE m.qos = 1
    BY <1>1, <1>4, <1>8, <2>3 DEF OnPublish
  <2>4. CASE m.qos = 2
    BY <1>1, <1>4, <1>8, <2>4 DEF OnPublish
  <2> QED BY <2>1, <2>2, <2>3, <2>4
<1>9. CASE OnPubrel(m)
  BY <1>1, <1>4, <1>9 DEF OnPubrel
<1>10. CASE OnPubrec(m)
  BY <1>1, <1>10, OnPubrecIn
<1>11. CASE OnAck(m)
  <2>1. Read(m, << >>) /\ UNCHANGED bpublished
    BY <1>11 DEF OnAck
  <2>2. /\ flight' \subseteq flight
        /\ \A p \in flight \ flight' : p.type = "PUBLISH" => p.pid = m.pid /\ m.type = "PUBACK"
    BY <1>11 DEF OnAck
  <2>3. m.type = "PUBACK" => m.pid \in Range1(called)
    <3>1. << >> \in Seq(Pkt)
      OBVIOUS
    <3>2. m.type = "PUBACK" => m.pid \in AcksOf(toBroker)
      BY <2>1, <3>1, ReadAcks
    <3> QED BY <3>2 DEF InInv, AckGiven
  <2> QED BY <1>5, <2>1, <2>2, <2>3
<1>12. CASE OnPing(m)
  BY <1>4, <1>12 DEF OnPing, broker, Ids
<1> QED BY <1>2, <1>6, <1>7, <1>8, <1>9, <1>10, <1>11, <1>12
-----------------------------------------------------------------------------
\* What the broker sends of its own comes last, too.
LEMMA SendsLast ==
  ASSUME IInv, NEW p \in Pkt, BrokerSends(p)
  PROVE  LET n == Len(toClient) + 1 IN
         /\ Len(toClient') = n /\ n \in Nat /\ toClient'[n] = p
         /\ \A i \in 1 .. Len(toClient) : toClient'[i] = toClient[i]
         /\ \A i \in 1 .. Len(toClient') : i = n \/ i \in 1 .. Len(toClient)
         /\ \A i, j \in 1 .. Len(toClient') : i < j => i \in 1 .. Len(toClient)
         /\ UNCHANGED <<mq, error, called, toBroker>> /\ RecWait' = RecWait
         /\ Range1(called)' = Range1(called)
<1>1. toClient \in Seq(Pkt) /\ Len(toClient) \in Nat /\ toClient' = Append(toClient, p)
  BY DEF IInv, ClientType, BrokerSends
<1>2. UNCHANGED <<mq, error, called, toBroker>>
  BY DEF BrokerSends
<1> QED BY <1>1, <1>2 DEF RecWait, Range1

\* The broker repeats what it has in flight.
LEMMA BrokerAgainIn ==
  ASSUME IInv, InInv, NEW p \in flight, BrokerAgain(p)
  PROVE  InInv'
<1> DEFINE n == Len(toClient) + 1
<1>0. p \in Pkt /\ BrokerSends(p) /\ UNCHANGED <<bpublished, flight>>
  BY DEF IInv, BrokerType, BrokerAgain
<1>1. /\ Len(toClient') = n /\ n \in Nat /\ toClient'[n] = p
      /\ \A i \in 1 .. Len(toClient) : toClient'[i] = toClient[i]
      /\ \A i \in 1 .. Len(toClient') : i = n \/ i \in 1 .. Len(toClient)
      /\ \A i, j \in 1 .. Len(toClient') : i < j => i \in 1 .. Len(toClient)
      /\ UNCHANGED <<mq, error, called, toBroker>> /\ RecWait' = RecWait
      /\ Range1(called)' = Range1(called)
  BY <1>0, SendsLast
<1> HIDE DEF n
<1>2. InReal'
  <2>1. PubReal'
    <3>1. \A i \in 1 .. Len(toClient') : PubOf(toClient'[i])
      BY <1>1 DEF InInv, InReal, PubReal
    <3> QED BY <1>0, <3>1 DEF InInv, InReal, PubReal, PubOf
  <2>2. InRange' /\ FlightOne'
    BY <1>0, <1>1 DEF InInv, InReal, InRange, FlightOne
  <2> QED BY <2>1, <2>2 DEF InReal
<1>3. AckGiven'
  BY <1>1 DEF InInv, AckGiven
<1>4. RelGiven'
  BY <1>0, <1>1 DEF InInv, RelGiven
<1>5. RelLast'
  <2> SUFFICES ASSUME NEW i \in 1 .. Len(toClient'), NEW j \in 1 .. Len(toClient'), i < j,
                      toClient'[i].type = "PUBREL", toClient'[j].type = "PUBLISH"
               PROVE  toClient'[i].pid # toClient'[j].pid
    BY DEF RelLast
  <2>1. i \in 1 .. Len(toClient) /\ toClient'[i] = toClient[i]
    BY <1>1
  <2>2. CASE j = n
    BY <1>1, <2>1, <2>2 DEF InInv, InOrdered, RelAlone
  <2>3. CASE j \in 1 .. Len(toClient)
    BY <1>1, <2>1, <2>3 DEF InInv, InOrdered, RelLast
  <2> QED BY <1>1, <2>2, <2>3
<1>6. RelAlone'
  BY <1>0, <1>1 DEF InInv, InOrdered, RelAlone, InReal, FlightOne
<1>7. RecKept'
  <2>1. \A k : MayCome(k)' => MayCome(k)
    BY <1>0, <1>1 DEF MayCome
  <2> QED BY <1>0, <1>1, <2>1 DEF InInv, InOrdered, RecKept
<1>8. CalledOnce' /\ AckedIsCalled'
  BY <1>0, <1>1 DEF InInv, CalledOnce, AckedIsCalled
<1> QED BY <1>2, <1>3, <1>4, <1>5, <1>6, <1>7, <1>8 DEF InInv, InOrdered

\* A publication has an identifier of its own when none is used again.
LEMMA BrokerPublishIn ==
  ASSUME Reuse = FALSE, IInv, FlightKind, InInv, NEW q \in BQos, BrokerPublish(q)
  PROVE  InInv'
<1> DEFINE k == Len(bpublished) + 1
           n == Len(toClient) + 1
<1>1. PICK x \in IF q = 0 THEN {0} ELSE {k} :
         LET p == Packet("PUBLISH", x, q, k)
         IN  /\ BrokerSends(p)
             /\ flight' = IF q = 0 THEN flight ELSE flight \cup {p}
  BY DEF BrokerPublish, FreePids
<1> DEFINE p == Packet("PUBLISH", x, q, k)
<1>2. BrokerSends(p) /\ flight' = (IF q = 0 THEN flight ELSE flight \cup {p})
  BY <1>1
<1>3. p.type = "PUBLISH" /\ p.pid = x /\ p.qos = q /\ p.id = k
  BY DEF Packet
<1>4. /\ bpublished' = Append(bpublished, q) /\ bpublished \in Seq(0 .. 2) /\ q \in 0 .. 2
      /\ Len(bpublished) \in Nat
  BY MqttSessionAssumption DEF BrokerPublish, IInv, BrokerType
<1>5. p \in Pkt
  <2>1. IInv'
    BY BrokerPublishKeeps
  <2>2. toClient' = Append(toClient, p) /\ toClient' \in Seq(Pkt) /\ toClient \in Seq(Pkt)
    BY <1>2, <2>1 DEF BrokerSends, IInv, ClientType
  <2>3. toClient'[Len(toClient')] = p /\ Len(toClient') \in 1 .. Len(toClient')
    BY <2>2
  <2> QED BY <2>2, <2>3
<1> HIDE DEF p
<1>6. /\ Len(toClient') = n /\ n \in Nat /\ toClient'[n] = p
      /\ \A i \in 1 .. Len(toClient) : toClient'[i] = toClient[i]
      /\ \A i \in 1 .. Len(toClient') : i = n \/ i \in 1 .. Len(toClient)
      /\ \A i, j \in 1 .. Len(toClient') : i < j => i \in 1 .. Len(toClient)
      /\ UNCHANGED <<mq, error, called, toBroker>> /\ RecWait' = RecWait
      /\ Range1(called)' = Range1(called)
  BY <1>2, <1>5, SendsLast
<1> HIDE DEF n
<1>7. /\ Len(bpublished') = k /\ k \in Nat /\ k \notin 1 .. Len(bpublished) /\ x \notin 1 .. Len(bpublished)
      /\ bpublished'[k] = q /\ k \in 1 .. Len(bpublished')
      /\ \A i \in 1 .. Len(bpublished) : bpublished'[i] = bpublished[i] /\ i \in 1 .. Len(bpublished')
      /\ \A i \in 1 .. Len(bpublished') : i = k \/ i \in 1 .. Len(bpublished)
      /\ x = IF q = 0 THEN 0 ELSE k
  BY <1>1, <1>4
<1> HIDE DEF k
<1>8. /\ Range1(called) \subseteq 1 .. Len(bpublished)
      /\ \A w \in flight : w = p \/ w \in flight
      /\ \A w \in flight' : w \in flight \/ (w = p /\ q # 0)
  BY <1>2 DEF InInv, InReal, InRange
<1>9. \A w \in flight : w.pid \in 1 .. Len(bpublished)
  BY <1>8 DEF InInv, InReal, PubReal, PubOf, RelGiven, FlightKind
<1>10. InReal'
  <2>1. PubReal'
    <3>1. \A w : PubOf(w) => PubOf(w)'
      BY <1>7 DEF PubOf
    <3>2. \A w : w = p => PubOf(w)'
      BY <1>3, <1>7 DEF PubOf
    <3>3. \A i \in 1 .. Len(toClient') : \A w : w = toClient'[i] => PubOf(w)'
      BY <1>6, <3>1, <3>2 DEF InInv, InReal, PubReal
    <3>4. \A w \in flight' : PubOf(w)' /\ (w.type = "PUBLISH" => w.qos # 0)
      BY <1>3, <1>8, <3>1, <3>2 DEF InInv, InReal, PubReal
    <3> QED BY <3>3, <3>4 DEF PubReal, PubOf
  <2>2. InRange'
    BY <1>6, <1>7, <1>8 DEF InRange
  <2>3. FlightOne'
    BY <1>3, <1>7, <1>8, <1>9 DEF InInv, InReal, FlightOne
  <2> QED BY <2>1, <2>2, <2>3 DEF InReal
<1>11. AckGiven'
  BY <1>6 DEF InInv, AckGiven
<1>12. RelGiven'
  BY <1>3, <1>6, <1>8 DEF InInv, RelGiven
<1>13. RelLast'
  <2> SUFFICES ASSUME NEW i \in 1 .. Len(toClient'), NEW j \in 1 .. Len(toClient'), i < j,
                      toClient'[i].type = "PUBREL", toClient'[j].type = "PUBLISH"
               PROVE  toClient'[i].pid # toClient'[j].pid
    BY DEF RelLast
  <2>1. i \in 1 .. Len(toClient) /\ toClient'[i] = toClient[i]
    BY <1>6
  <2>2. CASE j = n
    <3>1. toClient[i].pid \in 1 .. Len(bpublished)
      BY <1>8, <2>1 DEF InInv, RelGiven
    <3> QED BY <1>3, <1>6, <1>7, <2>1, <2>2, <3>1
  <2>3. CASE j \in 1 .. Len(toClient)
    BY <1>6, <2>1, <2>3 DEF InInv, InOrdered, RelLast
  <2> QED BY <1>6, <2>2, <2>3
<1>14. RelAlone'
  <2> SUFFICES ASSUME NEW i \in 1 .. Len(toClient'), NEW w \in flight',
                      toClient'[i].type = "PUBREL", w.type = "PUBLISH"
               PROVE  toClient'[i].pid # w.pid
    BY DEF RelAlone
  <2>1. i \in 1 .. Len(toClient) /\ toClient'[i] = toClient[i]
    BY <1>3, <1>6
  <2>2. toClient[i].pid \in 1 .. Len(bpublished)
    BY <1>8, <2>1 DEF InInv, RelGiven
  <2> QED BY <1>3, <1>7, <1>8, <2>1, <2>2 DEF InInv, InOrdered, RelAlone
<1>15. RecKept'
  <2>1. \A i \in Range1(called) : MayCome(i)' => MayCome(i)
    BY <1>3, <1>6, <1>7, <1>8 DEF MayCome
  <2> QED BY <1>6, <1>7, <1>8, <2>1 DEF InInv, InOrdered, RecKept
<1>16. CalledOnce'
  <2>1. \A i \in 1 .. Len(called) : called[i] \in 1 .. Len(bpublished)
    BY <1>8 DEF Range1
  <2> QED BY <1>6, <1>7, <2>1 DEF InInv, CalledOnce
<1>17. AckedIsCalled'
  <2> SUFFICES ASSUME NEW i \in 1 .. Len(bpublished') \ Range1(called), bpublished'[i] # 0
               PROVE  \E w \in flight' : w.type = "PUBLISH" /\ w.id = i
    BY <1>6 DEF AckedIsCalled
  <2>1. flight \subseteq flight' /\ (q # 0 => p \in flight')
    BY <1>2
  <2>2. CASE i = k
    BY <1>3, <1>7, <2>1, <2>2
  <2>3. CASE i \in 1 .. Len(bpublished)
    BY <1>7, <2>1, <2>3 DEF InInv, AckedIsCalled
  <2> QED BY <1>7, <2>2, <2>3
<1> QED BY <1>10, <1>11, <1>12, <1>13, <1>14, <1>15, <1>16, <1>17 DEF InInv, InOrdered
-----------------------------------------------------------------------------
LEMMA InitIn == Init => InInv
<1> SUFFICES ASSUME Init PROVE InInv
  OBVIOUS
<1>1. PICK p \in Pids : mq = <<Queued(Plain("CONNECT", 0)), Queued(Plain("SUBSCRIBE", p))>>
  BY DEF Init, ClientInit
<1>2. called = << >> /\ bpublished = << >> /\ toBroker = << >> /\ toClient = << >> /\ flight = {}
  BY DEF Init, ClientInit
<1>3. Len(mq) = 2 /\ \A i \in 1 .. Len(mq) : mq[i].m.type \notin {"PUBACK", "PUBREC"}
  BY <1>1 DEF Queued, Plain, Packet
<1>4. Len(called) = 0 /\ Len(bpublished) = 0 /\ Len(toBroker) = 0 /\ Len(toClient) = 0
      /\ \A i \in 1 .. 0 : FALSE
  BY <1>2
<1>5. AcksOf(mq) = {} /\ AcksOf(toBroker) = {} /\ Range1(called) = {}
  BY <1>3, <1>4 DEF AcksOf, Range1
<1>6. InReal
  BY <1>2, <1>4, <1>5 DEF InReal, PubReal, InRange, FlightOne
<1>7. InOrdered
  BY <1>2, <1>4, <1>5 DEF InOrdered, RelLast, RelAlone, RecKept
<1> QED BY <1>2, <1>4, <1>5, <1>6, <1>7 DEF InInv, AckGiven, RelGiven, CalledOnce, AckedIsCalled

LEMMA NextIn ==
  ASSUME Reuse = FALSE
  PROVE  IInv /\ FlightKind /\ InInv /\ [Next]_vars => InInv'
<1> SUFFICES ASSUME IInv, FlightKind, InInv, [Next]_vars PROVE InInv'
  OBVIOUS
<1>1. CASE ClientNext /\ UNCHANGED broker
  BY <1>1, ClientIn
<1>2. CASE BrokerReads
  BY <1>2, BrokerReadsIn
<1>3. CASE \E q \in BQos : BrokerPublish(q)
  BY <1>3, BrokerPublishIn
<1>4. CASE \E p \in flight : BrokerAgain(p)
  BY <1>4, BrokerAgainIn
<1>5. CASE UNCHANGED vars
  BY <1>5, StillIn DEF vars, client, broker
<1> QED BY <1>1, <1>2, <1>3, <1>4, <1>5 DEF Next

LEMMA InHolds ==
  ASSUME Reuse = FALSE
  PROVE  Spec => []InInv
<1> DEFINE J == IInv /\ FlightKind /\ InInv
<1>1. Init => J
  BY InitIInv, InitOut, InitIn
<1>2. J /\ [Next]_vars => J'
  BY NextIInv, FlightKindKept, NextIn
<1>3. J => InInv
  OBVIOUS
<1> QED BY <1>1, <1>2, <1>3, PTL DEF Spec

\* A QoS 2 publication to the panel is passed to the callback once at most,
\* however often the broker sends it: the PUBREC stays in the queue until no
\* PUBLISH of its exchange can come any more (mqtt.c:755-766, 806-824).
THEOREM CalledOnceHolds ==
  ASSUME Reuse = FALSE
  PROVE  Spec => []CalledOnce
<1>1. InInv => CalledOnce
  BY DEF InInv
<1> QED BY <1>1, InHolds, PTL

\* The broker gives up a publication only when the callback has seen it: the
\* acknowledgement is staged before the callback is called, and the callback is
\* called whenever it was staged (mqtt.c:747-769).
THEOREM AckedIsCalledHolds ==
  ASSUME Reuse = FALSE
  PROVE  Spec => []AckedIsCalled
<1>1. InInv => AckedIsCalled
  BY DEF InInv
<1> QED BY <1>1, InHolds, PTL
-----------------------------------------------------------------------------
\* The answers.  When nothing is retransmitted, every acknowledgement on the
\* connection, and every request still on its way to the broker, has a message
\* of its own in the queue that waits for it.  (After a retransmission it need
\* not: a ping that times out is asked twice and answered twice, and the
\* second PINGRESP finds nothing.)

\* How many elements of a sequence are in a set.
Places(s, S) == {i \in 1 .. Len(s) : s[i] \in S}
Count(s, S)  == Cardinality(Places(s, S))

\* It is a number, and positive when there is one.
LEMMA CountType ==
  ASSUME NEW s, Len(s) \in Nat, NEW S
  PROVE  /\ IsFiniteSet(Places(s, S)) /\ Count(s, S) \in Nat
         /\ \A i \in 1 .. Len(s) : s[i] \in S => Count(s, S) >= 1
         /\ Count(s, S) >= 1 => \E i \in 1 .. Len(s) : s[i] \in S
<1> DEFINE P == Places(s, S)
<1>1. IsFiniteSet(1 .. Len(s))
  BY FS_Interval
<1>2. P \in SUBSET (1 .. Len(s))
  BY DEF Places
<1>3. IsFiniteSet(P)
  BY <1>1, <1>2, FS_Subset
<1> HIDE DEF P
<1>4. Cardinality(P) \in Nat /\ (Cardinality(P) = 0 <=> P = {})
  BY <1>3, FS_CardinalityType, FS_EmptySet
<1>5. \A i \in 1 .. Len(s) : s[i] \in S => i \in P
  BY DEF Places, P
<1>6. P # {} => \E i \in 1 .. Len(s) : s[i] \in S
  BY DEF Places, P
<1>7. Count(s, S) = Cardinality(P)
  BY DEF Count, P
<1> QED BY <1>3, <1>4, <1>5, <1>6, <1>7 DEF P

\* A sequence with one element more, at the end.
LEMMA CountLast ==
  ASSUME NEW s, NEW r, Len(s) \in Nat, NEW S, Len(r) = Len(s) + 1,
         \A i \in 1 .. Len(s) : r[i] = s[i]
  PROVE  Count(r, S) = Count(s, S) + IF r[Len(r)] \in S THEN 1 ELSE 0
<1> DEFINE n == Len(r)
           P == Places(s, S)
<1>1. IsFiniteSet(P) /\ n \in Nat /\ Count(s, S) \in Nat
  BY CountType
<1>2. n \notin P /\ \A i \in 1 .. n : i = n \/ i \in 1 .. Len(s)
  BY DEF Places
<1>3. \A i \in 1 .. Len(s) : i \in 1 .. n /\ i # n
  OBVIOUS
<1>4. n \in 1 .. n
  OBVIOUS
<1>5. Len(r) = n
  OBVIOUS
<1> HIDE DEF n
<1>6. CASE r[n] \in S
  <2>1. Places(r, S) = P \cup {n}
    BY <1>2, <1>3, <1>4, <1>5, <1>6 DEF Places
  <2>2. Cardinality(P \cup {n}) = Cardinality(P) + 1
    BY <1>1, <1>2, FS_AddElement
  <2> QED BY <1>5, <1>6, <2>1, <2>2 DEF Count
<1>7. CASE r[n] \notin S
  <2>1. Places(r, S) = P
    BY <1>2, <1>3, <1>4, <1>5, <1>7 DEF Places
  <2>2. Count(r, S) = Count(s, S)
    BY <2>1 DEF Count
  <2> QED BY <1>1, <1>5, <1>7, <2>2
<1> QED BY <1>6, <1>7

\* A sequence with another element in one place.
LEMMA CountChange ==
  ASSUME NEW s, NEW r, Len(s) \in Nat, NEW S, Len(r) = Len(s), NEW k \in 1 .. Len(s),
         \A i \in 1 .. Len(s) : i # k => r[i] = s[i]
  PROVE  Count(r, S) + (IF s[k] \in S THEN 1 ELSE 0) = Count(s, S) + IF r[k] \in S THEN 1 ELSE 0
<1> DEFINE P == Places(s, S) \ {k}
<1>1. IsFiniteSet(Places(s, S)) /\ IsFiniteSet(P)
  <2>1. IsFiniteSet(Places(s, S))
    BY CountType
  <2> QED BY <2>1, FS_RemoveElement
<1>2. Cardinality(P) \in Nat
  BY <1>1, FS_CardinalityType
<1>3. P = Places(r, S) \ {k}
  BY DEF Places
<1>4. Places(s, S) = (IF s[k] \in S THEN P \cup {k} ELSE P)
  BY DEF Places
<1>5. Places(r, S) = (IF r[k] \in S THEN P \cup {k} ELSE P)
  BY <1>3 DEF Places
<1>6. Cardinality(P \cup {k}) = Cardinality(P) + 1
  BY <1>1, FS_AddElement
<1> HIDE DEF P
<1>7. Count(s, S) = Cardinality(P) + IF s[k] \in S THEN 1 ELSE 0
  BY <1>2, <1>4, <1>6 DEF Count
<1>8. Count(r, S) = Cardinality(P) + IF r[k] \in S THEN 1 ELSE 0
  BY <1>2, <1>5, <1>6 DEF Count
<1> QED BY <1>2, <1>7, <1>8

\* What is behind a prefix.
LEMMA CountBehind ==
  ASSUME NEW s, NEW r, Len(s) \in Nat, NEW S, NEW k \in Nat, k <= Len(s), Len(r) = Len(s) - k,
         \A i \in 1 .. Len(r) : r[i] = s[i + k]
  PROVE  Count(r, S) = Cardinality(Places(s, S) \ 1 .. k)
<1> DEFINE P == Places(r, S)
           Q == Places(s, S) \ 1 .. k
           f == [i \in P |-> i + k]
<1>1. IsFiniteSet(P) /\ Len(r) \in Nat
  BY CountType
<1>2. P \subseteq 1 .. Len(r) /\ \A i \in P : r[i] \in S
  BY DEF Places
<1>3. \A i : i \in Q <=> i \in 1 .. Len(s) /\ i \notin 1 .. k /\ s[i] \in S
  BY DEF Places
<1>4. \A i \in P : i + k \in Q
  <2> SUFFICES ASSUME NEW i \in P PROVE i + k \in Q
    OBVIOUS
  <2>1. i + k \in 1 .. Len(s) /\ r[i] = s[i + k] /\ i + k \notin 1 .. k
    BY <1>1, <1>2
  <2> QED BY <1>2, <1>3, <2>1
<1>5. \A j \in Q : \E i \in P : i + k = j
  <2> SUFFICES ASSUME NEW j \in Q PROVE \E i \in P : i + k = j
    OBVIOUS
  <2>1. j \in 1 .. Len(s) /\ s[j] \in S /\ j \notin 1 .. k
    BY <1>3
  <2>2. j - k \in 1 .. Len(r) /\ (j - k) + k = j
    BY <1>1, <2>1
  <2>3. r[j - k] = s[j]
    BY <2>2
  <2>4. j - k \in P
    BY <2>1, <2>2, <2>3 DEF Places
  <2> QED BY <2>2, <2>4
<1>6. \A i, j \in P : i + k = j + k => i = j
  BY <1>1, <1>2
<1> HIDE DEF P, Q
<1>7. f \in Bijection(P, Q)
  <2>1. f \in [P -> Q] /\ \A i \in P : f[i] = i + k
    BY <1>4
  <2>2. \A i, j \in P : f[i] = f[j] => i = j
    BY <1>6, <2>1
  <2>3. \A j \in Q : \E i \in P : f[i] = j
    BY <1>5, <2>1
  <2> HIDE DEF f
  <2> QED BY <2>1, <2>2, <2>3, Fun_IsBij
<1>8. ExistsBijection(P, Q)
  BY <1>7, Fun_ExistsBij
<1>9. Cardinality(Q) = Cardinality(P)
  BY <1>1, <1>8, FS_Bijection
<1> QED BY <1>9 DEF Count, P, Q

\* What is behind a prefix without such elements.
LEMMA CountSuffix ==
  ASSUME NEW s, NEW r, Len(s) \in Nat, NEW S, NEW k \in Nat, k <= Len(s), Len(r) = Len(s) - k,
         \A i \in 1 .. Len(r) : r[i] = s[i + k],
         \A i \in 1 .. k : s[i] \notin S
  PROVE  Count(r, S) = Count(s, S)
<1>1. Count(r, S) = Cardinality(Places(s, S) \ 1 .. k)
  BY CountBehind
<1>2. Places(s, S) \ 1 .. k = Places(s, S)
  BY DEF Places
<1> QED BY <1>1, <1>2 DEF Count

\* What is behind the first element.
LEMMA CountTail ==
  ASSUME NEW s, NEW r, Len(s) \in Nat, Len(s) >= 1, NEW S, Len(r) = Len(s) - 1,
         \A i \in 1 .. Len(r) : r[i] = s[i + 1]
  PROVE  Count(s, S) = Count(r, S) + IF s[1] \in S THEN 1 ELSE 0
<1>1. Count(r, S) = Cardinality(Places(s, S) \ 1 .. 1)
  BY CountBehind
<1>2. 1 .. 1 = {1}
  OBVIOUS
<1>3. IsFiniteSet(Places(s, S)) /\ Count(s, S) \in Nat
  BY CountType
<1>4. Cardinality(Places(s, S) \ {1}) =
         IF 1 \in Places(s, S) THEN Cardinality(Places(s, S)) - 1 ELSE Cardinality(Places(s, S))
  BY <1>3, FS_RemoveElement
<1>5. 1 \in Places(s, S) <=> s[1] \in S
  BY DEF Places
<1> DEFINE a == Count(r, S)
           b == Count(s, S)
<1>6. a = IF s[1] \in S THEN b - 1 ELSE b
  BY <1>1, <1>2, <1>4, <1>5 DEF Count
<1> HIDE DEF a, b
<1>7. b \in Nat
  BY <1>3 DEF b
<1>8. b = a + IF s[1] \in S THEN 1 ELSE 0
  BY <1>6, <1>7
<1> QED BY <1>8 DEF a, b
-----------------------------------------------------------------------------
\* The messages that are answered, and by what.
Requests  == {"CONNECT", "SUBSCRIBE", "PUBLISH", "PUBREL", "PUBREC", "PINGREQ"}
AnswersTo == [CONNECT |-> {"CONNACK"}, SUBSCRIBE |-> {"SUBACK"}, PUBLISH |-> {"PUBACK", "PUBREC"},
              PUBREL |-> {"PUBCOMP"}, PUBREC |-> {"PUBREL"}, PINGREQ |-> {"PINGRESP"}]
Asks(m, t, p) == m.type = t /\ m.pid = p /\ (t = "PUBLISH" => m.qos # 0)

\* Where a request is: sent to the end, answered, or in the queue to be answered.
AskedOf(t, p) == {f \in Frag : Asks(f.m, t, p) /\ f.to = 2}
Replies(t, p) == {a \in Pkt : a.type \in AnswersTo[t] /\ a.pid = p}
Waiting(t, p) == {e \in QMsg : Asks(e.m, t, p) /\ e.state = "AWAITING_ACK"}

\* For every request or answer on the connection a message in the queue waits.
Flow == \A t \in Requests, p \in Ids :
           Count(toBroker, AskedOf(t, p)) + Count(toClient, Replies(t, p)) <= Count(mq, Waiting(t, p))

\* Only CONNECT and PINGREQ have no packet identifier.
PidFits(m) == m.type \in Requests => (m.pid = 0 <=> m.type \in {"CONNECT", "PINGREQ"})
Messages(q) == {q[i].m : i \in 1 .. Len(q)}
PidKind  == \A m \in Messages(mq) \cup Messages(toBroker) : PidFits(m)
PubPid   == \A i \in 1 .. Len(toClient) :
               toClient[i].type = "PUBLISH" /\ toClient[i].qos # 0 => toClient[i].pid # 0
FragEnds == \A i \in 1 .. Len(toBroker) : toBroker[i].from = 1 => toBroker[i].to = 2

FlowInv == Flow /\ PidKind /\ PubPid /\ FragEnds /\ NoUnknownAck /\ dups \in Nat
-----------------------------------------------------------------------------
\* Staging adds one message, that does not wait yet, and takes none that does.
LEMMA StagedFlow ==
  ASSUME NEW q \in Seq(QMsg), NEW m \in Msg
  PROVE  /\ Staged(q, m) \in Seq(QMsg)
         /\ \A t, p : Count(Staged(q, m), Waiting(t, p)) = Count(q, Waiting(t, p))
         /\ Messages(Staged(q, m)) \subseteq Messages(q) \cup {m}
<1> DEFINE r == Room(q)
           e == Queued(m)
           a == Append(r, e)
<1>1. PICK f \in 1 .. Len(q) + 1 : /\ r = SubSeq(q, f, Len(q))
                                   /\ \A i \in 1 .. f - 1 : Done(q[i])
  BY RoomDropsDone
<1>2. /\ Len(q) \in Nat /\ r \in Seq(QMsg) /\ f - 1 \in Nat /\ f - 1 <= Len(q)
      /\ Len(r) = Len(q) - (f - 1)
      /\ \A i \in 1 .. Len(r) : r[i] = q[i + (f - 1)] /\ i + (f - 1) \in 1 .. Len(q)
  BY <1>1
<1>3. e.m = m /\ e.state = "UNSENT" /\ e \in QMsg
  BY DEF Queued, QMsg, MqState
<1> HIDE DEF r, e
<1>4. ASSUME NEW t, NEW p
      PROVE  Count(r, Waiting(t, p)) = Count(q, Waiting(t, p))
  <2> DEFINE k == f - 1
             S == Waiting(t, p)
  <2>1. \A i \in 1 .. k : q[i] \notin S
    BY <1>1 DEF Done, Waiting
  <2>2. /\ k \in Nat /\ k <= Len(q) /\ Len(r) = Len(q) - k
        /\ \A i \in 1 .. Len(r) : r[i] = q[i + k]
    BY <1>2
  <2> HIDE DEF k, S
  <2>3. Count(r, S) = Count(q, S)
    BY <1>2, <2>1, <2>2, CountSuffix
  <2> QED BY <2>3 DEF S
<1>5. Messages(r) \subseteq Messages(q)
  BY <1>2 DEF Messages
<1>6. /\ Len(a) = Len(r) + 1 /\ Len(r) \in Nat
      /\ \A i \in 1 .. Len(r) : a[i] = r[i]
      /\ a[Len(a)] = e
      /\ \A i \in 1 .. Len(a) : i = Len(a) \/ i \in 1 .. Len(r)
  BY <1>2
<1>10. a \in Seq(QMsg)
  <2>1. e \in QMsg /\ r \in Seq(QMsg)
    BY <1>2, <1>3
  <2> HIDE DEF QMsg
  <2> QED BY <2>1
<1> HIDE DEF a
<1>7. ASSUME NEW t, NEW p
      PROVE  Count(a, Waiting(t, p)) = Count(r, Waiting(t, p))
  <2> DEFINE S == Waiting(t, p)
  <2>1. a[Len(a)] \notin S
    BY <1>3, <1>6 DEF Waiting
  <2> HIDE DEF S
  <2>2. Count(a, S) = Count(r, S) + IF a[Len(a)] \in S THEN 1 ELSE 0
    BY <1>6, CountLast
  <2>3. Count(r, S) \in Nat
    BY <1>6, CountType
  <2>4. Count(a, S) = Count(r, S)
    BY <2>1, <2>2, <2>3
  <2> QED BY <2>4 DEF S
<1>8. Messages(a) \subseteq Messages(r) \cup {m}
  BY <1>3, <1>6 DEF Messages
<1>9. Staged(q, m) = IF CanPack(q) THEN a ELSE IF error = "OK" THEN r ELSE q
  BY DEF Staged, a, e, r
<1> QED BY <1>2, <1>4, <1>5, <1>7, <1>8, <1>9, <1>10

\* A message that moves forward keeps what it is.
LEMMA ForwardFlow ==
  ASSUME NEW q \in Seq(QMsg), NEW k \in 1 .. Len(q), NEW s \in {"AWAITING_ACK", "COMPLETE"}
  PROVE  LET r == [q EXCEPT ![k].state = s] IN
         /\ r \in Seq(QMsg) /\ Messages(r) = Messages(q)
         /\ \A t, p : Count(r, Waiting(t, p)) + (IF q[k] \in Waiting(t, p) THEN 1 ELSE 0)
                      = Count(q, Waiting(t, p)) + IF Asks(q[k].m, t, p) /\ s = "AWAITING_ACK" THEN 1 ELSE 0
<1> DEFINE r == [q EXCEPT ![k].state = s]
<1>1. Len(q) \in Nat /\ q[k] \in QMsg
  OBVIOUS
<1>2. /\ r \in Seq(QMsg) /\ Len(r) = Len(q)
      /\ \A i \in 1 .. Len(q) : i # k => r[i] = q[i]
      /\ r[k] = [q[k] EXCEPT !.state = s]
  <2>1. [q[k] EXCEPT !.state = s] \in QMsg
    BY <1>1 DEF QMsg, MqState
  <2> HIDE DEF QMsg
  <2>2. r = [q EXCEPT ![k] = [q[k] EXCEPT !.state = s]]
    OBVIOUS
  <2> QED BY <2>1, <2>2
<1>3. r[k].m = q[k].m /\ r[k].state = s /\ r[k] \in QMsg
  <2>1. [q[k] EXCEPT !.state = s] \in QMsg
    BY <1>1 DEF QMsg, MqState
  <2>2. [q[k] EXCEPT !.state = s].m = q[k].m /\ [q[k] EXCEPT !.state = s].state = s
    BY <1>1 DEF QMsg
  <2> QED BY <1>2, <2>1, <2>2
<1> HIDE DEF r
<1>4. \A i \in 1 .. Len(q) : r[i].m = q[i].m
  BY <1>2, <1>3
<1>5. Messages(r) = Messages(q)
  BY <1>2, <1>4 DEF Messages
<1>6. ASSUME NEW t, NEW p
      PROVE  Count(r, Waiting(t, p)) + (IF q[k] \in Waiting(t, p) THEN 1 ELSE 0)
             = Count(q, Waiting(t, p)) + IF Asks(q[k].m, t, p) /\ s = "AWAITING_ACK" THEN 1 ELSE 0
  <2> DEFINE S == Waiting(t, p)
  <2>1. r[k] \in S <=> Asks(q[k].m, t, p) /\ s = "AWAITING_ACK"
    BY <1>3 DEF Waiting
  <2> HIDE DEF S
  <2>2. Count(r, S) + (IF q[k] \in S THEN 1 ELSE 0) = Count(q, S) + IF r[k] \in S THEN 1 ELSE 0
    BY <1>1, <1>2, CountChange
  <2> QED BY <2>1, <2>2 DEF S
<1> QED BY <1>2, <1>5, <1>6 DEF r
-----------------------------------------------------------------------------
\* The three counts are numbers.
LEMMA FlowNat ==
  ASSUME IInv, NEW t, NEW p
  PROVE  /\ Count(toBroker, AskedOf(t, p)) \in Nat
         /\ Count(toClient, Replies(t, p)) \in Nat
         /\ Count(mq, Waiting(t, p)) \in Nat
<1>1. Len(toBroker) \in Nat /\ Len(toClient) \in Nat /\ Len(mq) \in Nat
  BY DEF IInv, ClientType
<1> QED BY <1>1, CountType

\* A step that leaves the connection alone, or empties it, and in the queue
\* what waits.
LEMMA QueueFlow ==
  ASSUME IInv, FlowInv, toBroker' \in {toBroker, << >>}, toClient' \in {toClient, << >>},
         \A t, p : Count(mq', Waiting(t, p)) = Count(mq, Waiting(t, p)),
         \A m \in Messages(mq') : PidFits(m),
         error' # "ACK_OF_UNKNOWN", UNCHANGED dups
  PROVE  FlowInv'
<1>1. Len(<< >>) = 0 /\ \A i \in 1 .. 0 : FALSE
  OBVIOUS
<1>2. \A S : Count(<< >>, S) = 0
  BY <1>1, FS_EmptySet DEF Count, Places
<1>3. Flow'
  <2> SUFFICES ASSUME NEW t \in Requests, NEW p \in Ids
               PROVE  Count(toBroker', AskedOf(t, p)) + Count(toClient', Replies(t, p)) <=
                         Count(mq', Waiting(t, p))
    BY DEF Flow, AskedOf, Replies, Waiting
  <2> DEFINE a == Count(toBroker, AskedOf(t, p))
             b == Count(toClient, Replies(t, p))
             c == Count(mq, Waiting(t, p))
             d == Count(toBroker', AskedOf(t, p))
             e == Count(toClient', Replies(t, p))
  <2>1. a \in Nat /\ b \in Nat /\ c \in Nat
    BY FlowNat
  <2>2. a + b <= c
    BY DEF FlowInv, Flow
  <2>3. Count(mq', Waiting(t, p)) = c
    OBVIOUS
  <2>4. (d = a \/ d = 0) /\ (e = b \/ e = 0)
    BY <1>2
  <2> HIDE DEF a, b, c, d, e
  <2>5. d + e <= c
    BY <2>1, <2>2, <2>4
  <2> QED BY <2>3, <2>5 DEF d, e
<1>4. PidKind'
  <2>1. Messages(toBroker') \subseteq Messages(toBroker)
    BY <1>1 DEF Messages
  <2> QED BY <2>1 DEF FlowInv, PidKind
<1>5. PubPid'
  BY <1>1 DEF FlowInv, PubPid
<1>6. FragEnds'
  BY <1>1 DEF FlowInv, FragEnds
<1> QED BY <1>3, <1>4, <1>5, <1>6 DEF FlowInv, NoUnknownAck

\* A message staged by the client of its own accord: PUBLISH or PINGREQ.
LEMMA StagedKeepsFlow ==
  ASSUME IInv, FlowInv, NEW m \in Msg, PidFits(m),
         mq' = Staged(mq, m), error' = StageError(mq), UNCHANGED <<toBroker, toClient, dups>>
  PROVE  FlowInv'
<1>1. mq \in Seq(QMsg)
  BY DEF IInv, ClientType
<1>2. /\ \A t, p : Count(mq', Waiting(t, p)) = Count(mq, Waiting(t, p))
      /\ Messages(mq') \subseteq Messages(mq) \cup {m}
  BY <1>1, StagedFlow
<1>3. \A x \in Messages(mq') : PidFits(x)
  BY <1>2 DEF FlowInv, PidKind
<1>4. error' # "ACK_OF_UNKNOWN"
  BY DEF StageError, FlowInv, NoUnknownAck
<1> QED BY <1>2, <1>3, <1>4, QueueFlow

LEMMA PublishFlow ==
  ASSUME IInv, FlowInv, NEW qos \in PubQos, Publish(qos), UNCHANGED broker
  PROVE  FlowInv'
<1>1. PICK x \in Pids :
         /\ mq' = Staged(mq, Packet("PUBLISH", x, qos, Len(published) + 1))
         /\ error' = StageError(mq)
  BY DEF Publish, __mqtt_next_pid
<1> DEFINE n == Len(published) + 1
           m == Packet("PUBLISH", x, qos, n)
<1>2. n \in 1 .. MaxPub /\ n \in Nat /\ qos \in 0 .. 2 /\ x \in Ids /\ x # 0
  BY MqttClientAssumption DEF Publish, IInv, ClientType, Ids
<1>3. m = [type |-> "PUBLISH", pid |-> x, qos |-> qos, id |-> n, ok |-> TRUE]
  BY DEF Packet
<1>4. mq' = Staged(mq, m)
  BY <1>1
<1> HIDE DEF m, n
<1>5. m \in Msg /\ PidFits(m)
  BY <1>2, <1>3 DEF Msg, Types, PidFits
<1>6. UNCHANGED <<toClient, toBroker, dups>>
  BY DEF Publish, broker
<1> QED BY <1>1, <1>4, <1>5, <1>6, StagedKeepsFlow

\* A step that leaves the queue alone, and the connection, or empties it.
LEMMA StillFlow ==
  ASSUME IInv, FlowInv, toBroker' \in {toBroker, << >>}, toClient' \in {toClient, << >>},
         UNCHANGED <<mq, dups>>, error' # "ACK_OF_UNKNOWN"
  PROVE  FlowInv'
<1>1. \A m \in Messages(mq') : PidFits(m)
  BY DEF FlowInv, PidKind
<1> QED BY <1>1, QueueFlow

LEMMA FinishSendFlow ==
  ASSUME IInv, FlowInv, FinishSend, UNCHANGED broker
  PROVE  FlowInv'
<1>0. UNCHANGED <<toClient, toBroker, dups>>
  BY DEF FinishSend, broker
<1>1. CASE UNCHANGED <<mq, error, pings>>
  <2>1. error' # "ACK_OF_UNKNOWN"
    BY <1>1 DEF FlowInv, NoUnknownAck
  <2> QED BY <1>0, <1>1, <2>1, StillFlow
<1>2. CASE mq' = Staged(mq, Plain("PINGREQ", 0)) /\ error' = StageError(mq)
  <2>1. Plain("PINGREQ", 0) \in Msg /\ PidFits(Plain("PINGREQ", 0))
    BY PlainMsg DEF Types, Ids, PidFits
  <2> QED BY <1>0, <1>2, <2>1, StagedKeepsFlow
<1> QED BY <1>1, <1>2 DEF FinishSend

\* A message is sent once when none times out: the fragment that ends it and
\* the message that waits come together.
LEMMA TransmitFlow ==
  ASSUME MaxTimeouts = 0, IInv, FlowInv, pc = "send",
         NEW i \in next .. Len(mq), NEW k \in 0 .. 2, Transmit(i, k), UNCHANGED broker
  PROVE  FlowInv'
<1> DEFINE retry  == mq[i].state = "AWAITING_ACK"
           offset == IF retry THEN 0 ELSE send_offset
           whole  == offset + k = 2
           f      == [m |-> mq[i].m, from |-> offset, to |-> offset + k]
           s      == AfterSend(mq[i].m)
<1>1. /\ mq \in Seq(QMsg) /\ Len(mq) \in Nat /\ next \in Nat /\ next # 0 /\ send_offset \in 0 .. 1
      /\ timeouts = 0
  BY MqttClientAssumption DEF IInv, ClientType, Sending
<1>2. /\ Due(i) \/ (retry /\ timeouts < MaxTimeouts)
      /\ whole \/ (Partial /\ offset + k < 2)
      /\ toBroker' = IF k = 0 THEN toBroker ELSE Append(toBroker, f)
      /\ mq' = IF whole THEN [mq EXCEPT ![i].state = s] ELSE mq
      /\ UNCHANGED <<error, toClient, dups>>
  BY DEF Transmit, broker
<1>3. i \in 1 .. Len(mq)
  BY <1>1
<1>4. mq[i] \in QMsg /\ mq[i].m \in Msg /\ mq[i].state = "UNSENT"
  <2>1. mq[i] \in QMsg
    BY <1>1, <1>3
  <2> QED BY <1>1, <1>2, <2>1 DEF QMsg, Due
<1>5. /\ s \in {"AWAITING_ACK", "COMPLETE"}
      /\ \A t \in Requests : \A p : Asks(mq[i].m, t, p) => s = "AWAITING_ACK"
  BY DEF AfterSend, Asks, Requests
<1>6. f.m = mq[i].m /\ f \in Frag /\ (f.to = 2 <=> whole) /\ (k # 0 /\ f.from = 1 => f.to = 2)
  BY <1>1, <1>2, <1>4 DEF Frag
<1>7. whole => k # 0
  BY <1>1
<1>8. toBroker \in Seq(Frag) /\ Len(toBroker) \in Nat
  BY DEF IInv, ClientType
<1> HIDE DEF f, s, retry, offset, whole
<1>9. k # 0 => /\ Len(toBroker') = Len(toBroker) + 1
               /\ \A j \in 1 .. Len(toBroker) : toBroker'[j] = toBroker[j]
               /\ toBroker'[Len(toBroker')] = f
               /\ \A j \in 1 .. Len(toBroker') : j = Len(toBroker') \/ j \in 1 .. Len(toBroker)
  <2>1. k # 0 => toBroker' = Append(toBroker, f)
    BY <1>2
  <2> QED BY <1>8, <2>1
<1>10. Messages(mq') = Messages(mq)
  BY <1>1, <1>2, <1>3, <1>5, ForwardFlow
<1>11. Flow'
  <2> SUFFICES ASSUME NEW t \in Requests, NEW p \in Ids
               PROVE  Count(toBroker', AskedOf(t, p)) + Count(toClient', Replies(t, p)) <=
                         Count(mq', Waiting(t, p))
    BY DEF Flow, AskedOf, Replies, Waiting
  <2> DEFINE a == Count(toBroker, AskedOf(t, p))
             b == Count(toClient, Replies(t, p))
             c == Count(mq, Waiting(t, p))
             d == Count(toBroker', AskedOf(t, p))
             e == Count(mq', Waiting(t, p))
             g == Asks(mq[i].m, t, p)
  <2>1. a \in Nat /\ b \in Nat /\ c \in Nat
    BY FlowNat
  <2>2. a + b <= c
    BY DEF FlowInv, Flow
  <2>3. d = a + IF whole /\ g THEN 1 ELSE 0
    <3>1. CASE k = 0
      BY <1>2, <1>7, <2>1, <3>1
    <3>2. CASE k # 0
      <4> DEFINE S == AskedOf(t, p)
      <4>1. f \in S <=> whole /\ g
        BY <1>6 DEF AskedOf
      <4> HIDE DEF S
      <4>2. Count(toBroker', S) = Count(toBroker, S) + IF toBroker'[Len(toBroker')] \in S THEN 1 ELSE 0
        BY <1>8, <1>9, <3>2, CountLast
      <4>3. Count(toBroker', S) = Count(toBroker, S) + IF whole /\ g THEN 1 ELSE 0
        BY <1>9, <3>2, <4>1, <4>2
      <4> QED BY <4>3 DEF S
    <3> QED BY <3>1, <3>2
  <2>4. e = c + IF whole /\ g THEN 1 ELSE 0
    <3>1. CASE ~whole
      BY <1>2, <2>1, <3>1
    <3>2. CASE whole
      <4>0. mq' = [mq EXCEPT ![i].state = s]
        BY <1>2, <3>2
      <4> DEFINE r == [mq EXCEPT ![i].state = s]
      <4>1. Count(r, Waiting(t, p)) + (IF mq[i] \in Waiting(t, p) THEN 1 ELSE 0)
            = Count(mq, Waiting(t, p)) + IF Asks(mq[i].m, t, p) /\ s = "AWAITING_ACK" THEN 1 ELSE 0
        <5>1. mq \in Seq(QMsg) /\ i \in 1 .. Len(mq) /\ s \in {"AWAITING_ACK", "COMPLETE"}
          BY <1>1, <1>3, <1>5
        <5>2. \A u, w : Count(r, Waiting(u, w)) + (IF mq[i] \in Waiting(u, w) THEN 1 ELSE 0)
                 = Count(mq, Waiting(u, w)) + IF Asks(mq[i].m, u, w) /\ s = "AWAITING_ACK" THEN 1 ELSE 0
          BY <5>1, ForwardFlow
        <5> QED BY <5>2
      <4>2. mq[i] \notin Waiting(t, p)
        BY <1>4 DEF Waiting
      <4>3. g => s = "AWAITING_ACK"
        BY <1>5
      <4>4. Count(mq', Waiting(t, p)) \in Nat
        <5>2. Len(mq') \in Nat
          BY <1>1, <4>0
        <5> QED BY <5>2, CountType
      <4> HIDE DEF g, e, c, r
      <4>5. e + 0 = c + IF g THEN 1 ELSE 0
        BY <2>1, <4>0, <4>1, <4>2, <4>3, <4>4 DEF e, c, g, r
      <4>6. e \in Nat
        BY <4>4 DEF e
      <4> QED BY <2>1, <3>2, <4>5, <4>6
    <3> QED BY <3>1, <3>2
  <2> HIDE DEF a, b, c, d, e, g
  <2>5. d + b <= e
    BY <2>1, <2>2, <2>3, <2>4
  <2> QED BY <1>2, <2>5 DEF b, d, e
<1>12. PidKind'
  <2>1. Messages(toBroker') \subseteq Messages(toBroker) \cup Messages(mq)
    <3>1. CASE k = 0
      BY <1>2, <3>1
    <3>2. CASE k # 0
      BY <1>3, <1>6, <1>9, <3>2 DEF Messages
    <3> QED BY <3>1, <3>2
  <2> QED BY <1>10, <2>1 DEF FlowInv, PidKind
<1>13. PubPid' /\ NoUnknownAck' /\ dups' \in Nat
  BY <1>2 DEF FlowInv, PubPid, NoUnknownAck
<1>14. FragEnds'
  <2>1. CASE k = 0
    BY <1>2, <2>1 DEF FlowInv, FragEnds
  <2>2. CASE k # 0
    BY <1>6, <1>9, <2>2 DEF FlowInv, FragEnds
  <2> QED BY <2>1, <2>2
<1> QED BY <1>11, <1>12, <1>13, <1>14 DEF FlowInv
-----------------------------------------------------------------------------
\* A packet that is handled: what it answers may leave the queue.
LEMMA HandleFlow ==
  ASSUME IInv, FlowInv, toClient # << >>, NEW e, NEW ret, Handle(e, ret),
         e # "ACK_OF_UNKNOWN", UNCHANGED dups, mq' \in Seq(QMsg),
         \A m \in Messages(mq') : PidFits(m),
         \A t \in Requests, p \in Ids :
            Count(mq, Waiting(t, p)) <=
               Count(mq', Waiting(t, p)) + IF Head(toClient) \in Replies(t, p) THEN 1 ELSE 0
  PROVE  FlowInv'
<1>1. toClient' = Tail(toClient) /\ error' = e /\ toBroker' = toBroker
  BY DEF Handle
<1>2. toClient \in Seq(Pkt)
  BY DEF IInv, ClientType
<1>3. /\ Len(toClient) \in Nat /\ Len(toClient) >= 1 /\ Len(toClient') = Len(toClient) - 1
      /\ \A i \in 1 .. Len(toClient') : toClient'[i] = toClient[i + 1] /\ i + 1 \in 1 .. Len(toClient)
      /\ Head(toClient) = toClient[1]
  BY <1>1, <1>2
<1>4. Flow'
  <2> SUFFICES ASSUME NEW t \in Requests, NEW p \in Ids
               PROVE  Count(toBroker', AskedOf(t, p)) + Count(toClient', Replies(t, p)) <=
                         Count(mq', Waiting(t, p))
    BY DEF Flow, AskedOf, Replies, Waiting
  <2> DEFINE a == Count(toBroker, AskedOf(t, p))
             b == Count(toClient, Replies(t, p))
             c == Count(mq, Waiting(t, p))
             d == Count(toClient', Replies(t, p))
             f == Count(mq', Waiting(t, p))
             h == IF Head(toClient) \in Replies(t, p) THEN 1 ELSE 0
  <2>1. a \in Nat /\ b \in Nat /\ c \in Nat
    BY FlowNat
  <2>2. a + b <= c
    BY DEF FlowInv, Flow
  <2>3. d \in Nat
    <3>1. Len(toClient') \in Nat
      BY <1>3
    <3> QED BY <3>1, CountType
  <2>4. b = d + h
    <3> DEFINE S == Replies(t, p)
    <3> HIDE DEF S
    <3>1. Count(toClient, S) = Count(toClient', S) + IF toClient[1] \in S THEN 1 ELSE 0
      BY <1>3, CountTail
    <3> QED BY <1>3, <3>1 DEF S
  <2>5. f \in Nat
    <3>1. Len(mq') \in Nat
      OBVIOUS
    <3> QED BY <3>1, CountType
  <2>6. c <= f + h /\ h \in Nat
    OBVIOUS
  <2> HIDE DEF a, b, c, d, f, h
  <2>7. a + d <= f
    BY <2>1, <2>2, <2>3, <2>4, <2>5, <2>6
  <2> QED BY <1>1, <2>7 DEF a, d, f
<1>5. PidKind'
  BY <1>1 DEF FlowInv, PidKind
<1>6. PubPid'
  BY <1>3 DEF FlowInv, PubPid
<1>7. FragEnds' /\ NoUnknownAck' /\ dups' \in Nat
  BY <1>1 DEF FlowInv, FragEnds, NoUnknownAck
<1> QED BY <1>4, <1>5, <1>6, <1>7 DEF FlowInv

\* A packet that the client answers in turn.
LEMMA AnswerFlow ==
  ASSUME IInv, FlowInv, toClient # << >>, UNCHANGED dups,
         NEW q \in Seq(QMsg), NEW t \in Types, t # "PUBLISH", NEW x \in Ids, Answer(q, t, x),
         PidFits(Plain(t, x)), \A m \in Messages(q) : PidFits(m),
         \A u \in Requests, w \in Ids :
            Count(mq, Waiting(u, w)) <=
               Count(q, Waiting(u, w)) + IF Head(toClient) \in Replies(u, w) THEN 1 ELSE 0
  PROVE  FlowInv'
<1>1. mq' = Staged(q, Plain(t, x)) /\ Handle(StageError(q), StageError(q))
  BY DEF Answer, Failed
<1>2. Plain(t, x) \in Msg
  BY PlainMsg
<1>3. /\ \A u, w : Count(mq', Waiting(u, w)) = Count(q, Waiting(u, w))
      /\ Messages(mq') \subseteq Messages(q) \cup {Plain(t, x)}
  BY <1>1, <1>2, StagedFlow
<1>4. mq' \in Seq(QMsg)
  BY <1>1, <1>2, StagedFlow
<1>5. StageError(q) # "ACK_OF_UNKNOWN"
  BY DEF StageError, FlowInv, NoUnknownAck
<1>6. \A m \in Messages(mq') : PidFits(m)
  BY <1>3
<1>7. \A u \in Requests, w \in Ids :
            Count(mq, Waiting(u, w)) <=
               Count(mq', Waiting(u, w)) + IF Head(toClient) \in Replies(u, w) THEN 1 ELSE 0
  BY <1>3
<1> QED BY <1>1, <1>4, <1>5, <1>6, <1>7, HandleFlow

\* The queue as it is, and with an answered message released.
LEMMA SameQueue ==
  ASSUME IInv, FlowInv
  PROVE  /\ mq \in Seq(QMsg) /\ \A m \in Messages(mq) : PidFits(m)
         /\ \A u \in Requests, w \in Ids :
               Count(mq, Waiting(u, w)) <=
                  Count(mq, Waiting(u, w)) + IF Head(toClient) \in Replies(u, w) THEN 1 ELSE 0
<1>1. mq \in Seq(QMsg) /\ \A m \in Messages(mq) : PidFits(m)
  BY DEF FlowInv, PidKind, IInv, ClientType
<1>2. ASSUME NEW u, NEW w
      PROVE  Count(mq, Waiting(u, w)) <=
                  Count(mq, Waiting(u, w)) + IF Head(toClient) \in Replies(u, w) THEN 1 ELSE 0
  <2> DEFINE a == Count(mq, Waiting(u, w))
  <2>1. a \in Nat
    BY FlowNat
  <2> HIDE DEF a
  <2>2. a <= a + IF Head(toClient) \in Replies(u, w) THEN 1 ELSE 0
    BY <2>1
  <2> QED BY <2>2 DEF a
<1> QED BY <1>1, <1>2

\* The one message released is the one that the packet answers.
LEMMA ReleasedFlow ==
  ASSUME IInv, FlowInv, toClient # << >>, NEW p \in Pkt, p = Head(toClient),
         NEW i \in 1 .. Len(mq), mq[i].m.pid = p.pid,
         NEW t, mq[i].m.type = t, t \in Requests, p.type \in AnswersTo[t]
  PROVE  /\ Released(i) \in Seq(QMsg) /\ \A m \in Messages(Released(i)) : PidFits(m)
         /\ \A u \in Requests, w \in Ids :
               Count(mq, Waiting(u, w)) <=
                  Count(Released(i), Waiting(u, w)) + IF Head(toClient) \in Replies(u, w) THEN 1 ELSE 0
<1> DEFINE r == Released(i)
<1>1. mq \in Seq(QMsg) /\ \A m \in Messages(mq) : PidFits(m)
  BY DEF FlowInv, PidKind, IInv, ClientType
<1>2. r = [mq EXCEPT ![i].state = "COMPLETE"]
  BY DEF Released
<1>3. /\ r \in Seq(QMsg) /\ Messages(r) = Messages(mq)
      /\ \A u, w : Count(r, Waiting(u, w)) + (IF mq[i] \in Waiting(u, w) THEN 1 ELSE 0)
                   = Count(mq, Waiting(u, w)) + 0
  <2> DEFINE s == "COMPLETE"
  <2>1. s \in {"AWAITING_ACK", "COMPLETE"} /\ s # "AWAITING_ACK"
    OBVIOUS
  <2>2. r = [mq EXCEPT ![i].state = s]
    BY <1>2
  <2> HIDE DEF s, r
  <2> DEFINE v == [mq EXCEPT ![i].state = s]
  <2>3. /\ v \in Seq(QMsg) /\ Messages(v) = Messages(mq)
        /\ \A u, w : Count(v, Waiting(u, w)) + (IF mq[i] \in Waiting(u, w) THEN 1 ELSE 0)
              = Count(mq, Waiting(u, w)) + IF Asks(mq[i].m, u, w) /\ s = "AWAITING_ACK" THEN 1 ELSE 0
    BY <1>1, <2>1, ForwardFlow
  <2> HIDE DEF v
  <2>4. v = r
    BY <2>2 DEF v
  <2> QED BY <2>1, <2>3, <2>4
<1> HIDE DEF r
<1>4. ASSUME NEW u \in Requests, NEW w \in Ids
      PROVE  Count(mq, Waiting(u, w)) <=
                Count(r, Waiting(u, w)) + IF Head(toClient) \in Replies(u, w) THEN 1 ELSE 0
  <2> DEFINE a == Count(mq, Waiting(u, w))
             b == Count(r, Waiting(u, w))
  <2>1. a \in Nat /\ b \in Nat
    <3>1. Len(r) \in Nat
      BY <1>3
    <3> QED BY <3>1, FlowNat, CountType
  <2>2. mq[i] \in Waiting(u, w) => Head(toClient) \in Replies(u, w)
    BY DEF Waiting, Replies, Asks
  <2>3. b + (IF mq[i] \in Waiting(u, w) THEN 1 ELSE 0) = a + 0
    BY <1>3
  <2> HIDE DEF a, b
  <2>4. a <= b + IF Head(toClient) \in Replies(u, w) THEN 1 ELSE 0
    BY <2>1, <2>2, <2>3
  <2> QED BY <2>4 DEF a, b
<1> QED BY <1>1, <1>3, <1>4 DEF r

\* For an answer there is a message in the queue.
LEMMA ReplyFound ==
  ASSUME IInv, FlowInv, toClient # << >>, NEW p \in Pkt, p = Head(toClient),
         NEW t \in Requests, p.type \in AnswersTo[t]
  PROVE  /\ mqtt_mq_find(t, p.pid) # 0
         /\ mqtt_mq_find(t, p.pid) \in 1 .. Len(mq)
         /\ mq[mqtt_mq_find(t, p.pid)].m.type = t
         /\ mq[mqtt_mq_find(t, p.pid)].m.pid = p.pid
         /\ p.pid = 0 <=> t \in {"CONNECT", "PINGREQ"}
<1> DEFINE i == mqtt_mq_find(t, p.pid)
           a == Count(toBroker, AskedOf(t, p.pid))
           b == Count(toClient, Replies(t, p.pid))
           c == Count(mq, Waiting(t, p.pid))
<1>1. /\ mq \in Seq(QMsg) /\ Len(mq) \in Nat
      /\ Len(toClient) \in Nat /\ 1 \in 1 .. Len(toClient) /\ toClient[1] = p /\ p.pid \in Ids
  BY DEF IInv, ClientType, Pkt
<1>2. toClient[1] \in Replies(t, p.pid)
  BY <1>1 DEF Replies
<1>3. b >= 1
  BY <1>1, <1>2, CountType
<1>4. a \in Nat /\ b \in Nat /\ c \in Nat
  BY FlowNat
<1>5. a + b <= c
  BY <1>1 DEF FlowInv, Flow
<1>6. c >= 1
  <2> HIDE DEF a, b, c
  <2> QED BY <1>3, <1>4, <1>5
<1>7. PICK j \in 1 .. Len(mq) : mq[j] \in Waiting(t, p.pid)
  BY <1>1, <1>6, CountType
<1>8. mq[j].m.type = t /\ mq[j].m.pid = p.pid /\ mq[j].state = "AWAITING_ACK"
  BY <1>7 DEF Waiting, Asks
<1>9. \A k \in 1 .. Len(mq) : PidFits(mq[k].m)
  BY DEF FlowInv, PidKind, Messages
<1>10. p.pid = 0 <=> t \in {"CONNECT", "PINGREQ"}
  BY <1>8, <1>9 DEF PidFits
<1>11. /\ i # 0 => /\ i \in 1 .. Len(mq)
                   /\ mq[i].m.type = t
                   /\ p.pid # 0 => mq[i].m.pid = p.pid
       /\ i = 0 => \A k \in 1 .. Len(mq) : mq[k].m.type = t =>
                        IF p.pid = 0 THEN Done(mq[k]) ELSE mq[k].m.pid # p.pid
  BY <1>1, FindSound
<1> HIDE DEF i
<1>12. i # 0
  BY <1>8, <1>11 DEF Done
<1>13. mq[i].m.pid = p.pid
  BY <1>9, <1>10, <1>11, <1>12 DEF PidFits
<1> QED BY <1>10, <1>11, <1>12, <1>13 DEF i
-----------------------------------------------------------------------------
\* Each packet that may come, by its handler.
LEMMA RecvPublishFlow ==
  ASSUME IInv, FlowInv, toClient # << >>, NEW p \in Pkt, p = Head(toClient), RecvPublish(p),
         UNCHANGED broker
  PROVE  FlowInv'
<1>1. UNCHANGED dups /\ p.pid \in Ids /\ p.type = "PUBLISH"
  BY DEF RecvPublish, broker, Pkt
<1>2. CASE Handled /\ UNCHANGED mq
  <2>1. Handle(error, "OK") /\ error # "ACK_OF_UNKNOWN"
    BY <1>2 DEF Handled, FlowInv, NoUnknownAck
  <2> QED BY <1>1, <1>2, <2>1, SameQueue, HandleFlow
<1>3. CASE p.qos # 0 /\ Answer(mq, IF p.qos = 1 THEN "PUBACK" ELSE "PUBREC", p.pid)
  <2> DEFINE t == IF p.qos = 1 THEN "PUBACK" ELSE "PUBREC"
  <2>1. t \in Types /\ t # "PUBLISH" /\ t \notin {"CONNECT", "PINGREQ"}
    BY DEF Types
  <2>2. p.pid # 0
    <3>1. 1 \in 1 .. Len(toClient) /\ toClient[1] = p
      BY DEF IInv, ClientType
    <3> QED BY <1>1, <1>3, <3>1 DEF FlowInv, PubPid
  <2> HIDE DEF t
  <2>3. PidFits(Plain(t, p.pid))
    BY <1>1, <2>1, <2>2, PlainMsg DEF PidFits
  <2>4. Answer(mq, t, p.pid)
    BY <1>3 DEF t
  <2> QED BY <1>1, <2>1, <2>3, <2>4, SameQueue, AnswerFlow
<1> QED BY <1>2, <1>3 DEF RecvPublish

LEMMA RecvAckFlow ==
  ASSUME IInv, FlowInv, toClient # << >>, NEW p \in Pkt, p = Head(toClient), RecvAck(p),
         UNCHANGED broker
  PROVE  FlowInv'
<1> DEFINE t == AckOf[p.type]
           i == mqtt_mq_find(t, p.pid)
<1>1. UNCHANGED dups /\ p.type \in DOMAIN AckOf
  BY DEF RecvAck, broker
<1>2. t \in Requests /\ p.type \in AnswersTo[t]
  BY <1>1 DEF AckOf, Requests, AnswersTo
<1> HIDE DEF t
<1>3. i # 0 /\ i \in 1 .. Len(mq) /\ mq[i].m.type = t /\ mq[i].m.pid = p.pid
  BY <1>2, ReplyFound
<1>4. mq' = Released(i) /\ IF p.ok THEN Handled ELSE Failed(Refusal[p.type])
  BY <1>3 DEF RecvAck, t
<1> HIDE DEF i
<1>5. /\ mq' \in Seq(QMsg) /\ \A m \in Messages(mq') : PidFits(m)
      /\ \A u \in Requests, w \in Ids :
            Count(mq, Waiting(u, w)) <=
               Count(mq', Waiting(u, w)) + IF Head(toClient) \in Replies(u, w) THEN 1 ELSE 0
  BY <1>2, <1>3, <1>4, ReleasedFlow
<1>6. CASE p.ok
  <2>1. Handle(error, "OK") /\ error # "ACK_OF_UNKNOWN"
    BY <1>4, <1>6 DEF Handled, FlowInv, NoUnknownAck
  <2> QED BY <1>1, <1>5, <2>1, HandleFlow
<1>7. CASE ~p.ok
  <2>1. p.type \in {"CONNACK", "SUBACK"}
    BY <1>7 DEF Pkt
  <2> DEFINE e == Refusal[p.type]
  <2>2. Handle(e, e) /\ e # "ACK_OF_UNKNOWN"
    BY <1>4, <1>7, <2>1 DEF Failed, Refusal
  <2> HIDE DEF e
  <2> QED BY <1>1, <1>5, <2>2, HandleFlow
<1> QED BY <1>6, <1>7

\* What PUBREC and PUBREL release, and what they stage.
LEMMA ExchangeFlow ==
  ASSUME IInv, FlowInv, toClient # << >>, NEW p \in Pkt, p = Head(toClient), UNCHANGED dups,
         NEW t \in Requests, p.type \in AnswersTo[t], t \notin {"CONNECT", "PINGREQ"},
         NEW a \in {"PUBREL", "PUBCOMP"}, Exchange(p, t, a)
  PROVE  FlowInv'
<1> DEFINE i == mqtt_mq_find(t, p.pid)
<1>1. p.pid # 0 /\ i # 0 /\ i \in 1 .. Len(mq) /\ mq[i].m.type = t /\ mq[i].m.pid = p.pid
  BY ReplyFound
<1>2. Answer(Released(i), a, p.pid)
  BY <1>1 DEF Exchange
<1> HIDE DEF i
<1> DEFINE q == Released(i)
<1>3. /\ q \in Seq(QMsg) /\ \A m \in Messages(q) : PidFits(m)
      /\ \A u \in Requests, w \in Ids :
            Count(mq, Waiting(u, w)) <=
               Count(q, Waiting(u, w)) + IF Head(toClient) \in Replies(u, w) THEN 1 ELSE 0
  BY <1>1, ReleasedFlow
<1> HIDE DEF q
<1>4. a \in Types /\ a # "PUBLISH" /\ p.pid \in Ids
  BY DEF Types, Pkt
<1>5. PidFits(Plain(a, p.pid))
  BY <1>1, <1>4, PlainMsg DEF PidFits
<1>6. Answer(q, a, p.pid)
  BY <1>2 DEF q
<1> QED BY <1>3, <1>4, <1>5, <1>6, AnswerFlow

LEMMA RecvPubrecFlow ==
  ASSUME IInv, FlowInv, toClient # << >>, NEW p \in Pkt, p = Head(toClient), RecvPubrec(p),
         UNCHANGED broker
  PROVE  FlowInv'
<1>1. UNCHANGED dups /\ "PUBLISH" \in Requests /\ p.type \in AnswersTo["PUBLISH"]
  BY DEF RecvPubrec, broker, Requests, AnswersTo
<1>2. CASE Handled /\ UNCHANGED mq
  <2>1. Handle(error, "OK") /\ error # "ACK_OF_UNKNOWN"
    BY <1>2 DEF Handled, FlowInv, NoUnknownAck
  <2> QED BY <1>1, <1>2, <2>1, SameQueue, HandleFlow
<1>3. CASE Exchange(p, "PUBLISH", "PUBREL")
  BY <1>1, <1>3, ExchangeFlow
<1> QED BY <1>2, <1>3 DEF RecvPubrec

LEMMA RecvPubrelFlow ==
  ASSUME IInv, FlowInv, toClient # << >>, NEW p \in Pkt, p = Head(toClient), RecvPubrel(p),
         UNCHANGED broker
  PROVE  FlowInv'
<1>1. UNCHANGED dups /\ "PUBREC" \in Requests /\ p.type \in AnswersTo["PUBREC"]
  BY DEF RecvPubrel, broker, Requests, AnswersTo
<1>2. Exchange(p, "PUBREC", "PUBCOMP")
  BY DEF RecvPubrel
<1> QED BY <1>1, <1>2, ExchangeFlow

LEMMA ClientFlow ==
  ASSUME MaxTimeouts = 0, IInv, FlowInv, ClientNext, UNCHANGED broker
  PROVE  FlowInv'
<1>0. UNCHANGED dups
  BY DEF broker
<1>1. ASSUME NEW qos \in PubQos, Publish(qos) PROVE FlowInv'
  BY <1>1, PublishFlow
<1>2. CASE Receive
  <2> DEFINE p == Head(toClient)
  <2>1. toClient # << >> /\ p \in Pkt
    BY <1>2, HeadIsPkt DEF Receive
  <2>2. RecvPublish(p) \/ RecvAck(p) \/ RecvPubrec(p) \/ RecvPubrel(p)
    BY <1>2 DEF Receive
  <2> HIDE DEF p
  <2>3. p = Head(toClient)
    BY DEF p
  <2> QED BY <2>1, <2>2, <2>3, RecvPublishFlow, RecvAckFlow, RecvPubrecFlow, RecvPubrelFlow
<1>3. CASE StartSend
  <2>1. UNCHANGED <<toBroker, toClient, mq, error>>
    BY <1>3 DEF StartSend
  <2> QED BY <1>0, <2>1, StillFlow DEF FlowInv, NoUnknownAck
<1>4. ASSUME pc = "send", NEW i \in next .. Len(mq), NEW k \in 0 .. 2, Transmit(i, k)
      PROVE  FlowInv'
  BY <1>4, TransmitFlow
<1>5. CASE FinishSend
  BY <1>5, FinishSendFlow
<1>6. CASE SocketError
  <2>1. toBroker' = << >> /\ toClient' = << >> /\ UNCHANGED mq /\ error' = "SOCKET_ERROR"
    BY <1>6 DEF SocketError
  <2> QED BY <1>0, <2>1, StillFlow
<1> QED BY <1>1, <1>2, <1>3, <1>4, <1>5, <1>6 DEF ClientNext
-----------------------------------------------------------------------------
\* The broker reads a packet: the request is gone with the fragment that ends it.
LEMMA ReadAsked ==
  ASSUME IInv, FlowInv, NEW m, NEW a, Read(m, a), NEW t, NEW p
  PROVE  /\ Count(toBroker, AskedOf(t, p)) =
               Count(toBroker', AskedOf(t, p)) + IF Asks(m, t, p) THEN 1 ELSE 0
         /\ Count(toBroker', AskedOf(t, p)) \in Nat
<1> DEFINE S == AskedOf(t, p)
           r == Tail(toBroker)
<1>1. toBroker \in Seq(Frag) /\ toBroker # << >> /\ Intact /\ m = toBroker[1].m
  BY DEF Read, IInv, ClientType
<1>2. /\ Len(toBroker) \in Nat /\ Len(toBroker) >= 1 /\ Len(r) = Len(toBroker) - 1
      /\ \A i \in 1 .. Len(r) : r[i] = toBroker[i + 1]
      /\ \A i \in 1 .. Len(toBroker) : toBroker[i] \in Frag
      /\ Len(r) \in Nat
  BY <1>1
<1>3. toBroker' = SubSeq(toBroker, Parts + 1, Len(toBroker))
  BY DEF Read
<1>4. \A i \in 1 .. Len(toBroker) : toBroker[i].m = m =>
         (toBroker[i] \in S <=> Asks(m, t, p) /\ toBroker[i].to = 2)
  BY <1>2 DEF AskedOf
<1> HIDE DEF S, r
<1>5. Count(toBroker, S) = Count(r, S) + IF toBroker[1] \in S THEN 1 ELSE 0
  BY <1>2, CountTail
<1>6. Count(r, S) \in Nat
  BY <1>2, CountType
<1>7. CASE toBroker[1].to = 2
  <2>1. Len(toBroker') = Len(r) /\ \A i \in 1 .. Len(r) : toBroker'[i] = toBroker[i + 1]
    <3>1. toBroker' = SubSeq(toBroker, 2, Len(toBroker))
      BY <1>3, <1>7 DEF Parts
    <3> QED BY <1>1, <1>2, <3>1
  <2>2. \A i \in 1 .. Len(toBroker) - 1 : i + 1 \in 1 .. Len(toBroker)
    BY <1>2
  <2>3. Count(toBroker, S) = Count(toBroker', S) + IF toBroker[1] \in S THEN 1 ELSE 0
    BY <1>2, <2>1, CountTail
  <2>4. toBroker[1] \in S <=> Asks(m, t, p)
    BY <1>1, <1>2, <1>4, <1>7
  <2>5. Count(toBroker', S) \in Nat
    BY <1>2, <2>1, CountType
  <2> QED BY <2>3, <2>4, <2>5 DEF S
<1>8. CASE toBroker[1].to # 2
  <2>1. Parts = 2 /\ Len(toBroker) >= 2 /\ toBroker[2].from = 1 /\ toBroker[2].m = m
    BY <1>1, <1>8 DEF Parts, Intact
  <2>2. toBroker[2].to = 2
    BY <1>2, <2>1 DEF FlowInv, FragEnds
  <2>3. /\ Len(r) >= 1 /\ Len(toBroker') = Len(r) - 1
        /\ \A i \in 1 .. Len(toBroker') : toBroker'[i] = r[i + 1]
        /\ r[1] = toBroker[2]
    <3>1. toBroker' = SubSeq(toBroker, 3, Len(toBroker))
      BY <1>3, <2>1
    <3>2. Len(toBroker') = Len(toBroker) - 2 /\ \A i \in 1 .. Len(toBroker') : toBroker'[i] = toBroker[i + 2]
      BY <1>1, <1>2, <2>1, <3>1
    <3>3. \A i \in 1 .. Len(toBroker) - 2 : i + 1 \in 1 .. Len(r) /\ (i + 1) + 1 = i + 2
      BY <1>2, <2>1
    <3>4. r[1] = toBroker[1 + 1]
      BY <1>2, <2>1
    <3> QED BY <1>2, <2>1, <3>2, <3>3, <3>4
  <2>4. Count(r, S) = Count(toBroker', S) + IF r[1] \in S THEN 1 ELSE 0
    BY <1>2, <2>3, CountTail
  <2>5. toBroker[1] \notin S
    BY <1>1, <1>2, <1>4, <1>8
  <2>6. r[1] \in S <=> Asks(m, t, p)
    BY <1>2, <1>4, <2>1, <2>2, <2>3
  <2>7. Count(toBroker', S) \in Nat
    <3>1. Len(toBroker') \in Nat
      BY <1>2, <2>3
    <3> QED BY <3>1, CountType
  <2> QED BY <1>5, <1>6, <2>4, <2>5, <2>6, <2>7 DEF S
<1> QED BY <1>7, <1>8

\* The messages of what is left are some of those before.
LEMMA ReadRest ==
  ASSUME IInv, FlowInv, NEW m, NEW a \in Seq(Pkt), Read(m, a)
  PROVE  PidKind' /\ FragEnds' /\ PidFits(m) /\ UNCHANGED <<mq, error>>
<1>1. /\ 1 \in 1 .. Len(toBroker) /\ m = toBroker[1].m
      /\ \E s \in 1 .. 2 : \A i \in 1 .. Len(toBroker') :
               i + s \in 2 .. Len(toBroker) /\ toBroker'[i] = toBroker[i + s]
      /\ UNCHANGED <<mq, error>>
  BY ReadTakes
<1>2. PICK s \in 1 .. 2 : \A i \in 1 .. Len(toBroker') :
               i + s \in 2 .. Len(toBroker) /\ toBroker'[i] = toBroker[i + s]
  BY <1>1
<1>3. \A i \in 1 .. Len(toBroker') : i + s \in 1 .. Len(toBroker)
  BY <1>2
<1>4. Messages(toBroker') \subseteq Messages(toBroker)
  BY <1>2, <1>3 DEF Messages
<1>5. m \in Messages(toBroker)
  BY <1>1 DEF Messages
<1>6. PidKind' /\ PidFits(m)
  BY <1>1, <1>4, <1>5 DEF FlowInv, PidKind
<1>7. FragEnds'
  BY <1>2, <1>3 DEF FlowInv, FragEnds
<1> QED BY <1>1, <1>6, <1>7

\* It may answer: one reply to what it has read.
LEMMA ReadFlow ==
  ASSUME IInv, FlowInv, NEW m \in Msg, NEW a, Read(m, a), UNCHANGED dups,
         \/ a = << >>
         \/ \E r \in Pkt : /\ a = <<r>> /\ r.type # "PUBLISH"
                           /\ \A t \in Requests, p \in Ids : r \in Replies(t, p) => Asks(m, t, p)
  PROVE  FlowInv'
<1>1. toClient \in Seq(Pkt) /\ Len(toClient) \in Nat /\ toClient' = toClient \o a
  BY DEF IInv, ClientType, Read
<1>2. a \in Seq(Pkt)
  <2>1. << >> \in Seq(Pkt) /\ \A r \in Pkt : <<r>> \in Seq(Pkt)
    OBVIOUS
  <2> QED BY <2>1
<1>3. PidKind' /\ FragEnds' /\ UNCHANGED <<mq, error>>
  BY <1>2, ReadRest
<1>4. CASE a = << >>
  <2>1. toClient' = toClient
    BY <1>1, <1>4
  <2>2. Flow'
    <3> SUFFICES ASSUME NEW t \in Requests, NEW p \in Ids
                 PROVE  Count(toBroker', AskedOf(t, p)) + Count(toClient', Replies(t, p)) <=
                           Count(mq', Waiting(t, p))
      BY DEF Flow, AskedOf, Replies, Waiting
    <3> DEFINE u == Count(toBroker, AskedOf(t, p))
               v == Count(toClient, Replies(t, p))
               w == Count(mq, Waiting(t, p))
               x == Count(toBroker', AskedOf(t, p))
    <3>1. u \in Nat /\ v \in Nat /\ w \in Nat
      BY FlowNat
    <3>2. u = x + (IF Asks(m, t, p) THEN 1 ELSE 0) /\ x \in Nat
      BY ReadAsked
    <3>3. u + v <= w
      BY DEF FlowInv, Flow
    <3> HIDE DEF u, v, w, x
    <3>4. x + v <= w
      BY <3>1, <3>2, <3>3
    <3> QED BY <1>3, <2>1, <3>4 DEF v, w, x
  <2> QED BY <1>3, <2>1, <2>2 DEF FlowInv, NoUnknownAck, PubPid
<1>5. ASSUME NEW r \in Pkt, a = <<r>>, r.type # "PUBLISH",
             \A t \in Requests, p \in Ids : r \in Replies(t, p) => Asks(m, t, p)
      PROVE  FlowInv'
  <2>1. /\ Len(toClient') = Len(toClient) + 1
        /\ \A i \in 1 .. Len(toClient) : toClient'[i] = toClient[i]
        /\ toClient'[Len(toClient')] = r
        /\ \A i \in 1 .. Len(toClient') : i = Len(toClient') \/ i \in 1 .. Len(toClient)
    <3>1. toClient' = Append(toClient, r)
      BY <1>1, <1>5
    <3> QED BY <1>1, <3>1
  <2>2. Flow'
    <3> SUFFICES ASSUME NEW t \in Requests, NEW p \in Ids
                 PROVE  Count(toBroker', AskedOf(t, p)) + Count(toClient', Replies(t, p)) <=
                           Count(mq', Waiting(t, p))
      BY DEF Flow, AskedOf, Replies, Waiting
    <3> DEFINE u == Count(toBroker, AskedOf(t, p))
               v == Count(toClient, Replies(t, p))
               w == Count(mq, Waiting(t, p))
               x == Count(toBroker', AskedOf(t, p))
               y == Count(toClient', Replies(t, p))
    <3>1. u \in Nat /\ v \in Nat /\ w \in Nat
      BY FlowNat
    <3>2. u = x + (IF Asks(m, t, p) THEN 1 ELSE 0) /\ x \in Nat
      BY ReadAsked
    <3>3. u + v <= w
      BY DEF FlowInv, Flow
    <3>4. y = v + IF r \in Replies(t, p) THEN 1 ELSE 0
      <4> DEFINE S == Replies(t, p)
      <4> HIDE DEF S
      <4>1. /\ Len(toClient) \in Nat /\ Len(toClient') = Len(toClient) + 1
            /\ \A i \in 1 .. Len(toClient) : toClient'[i] = toClient[i]
        BY <1>1, <2>1
      <4>2. Count(toClient', S) = Count(toClient, S) + IF toClient'[Len(toClient')] \in S THEN 1 ELSE 0
        BY <4>1, CountLast
      <4> QED BY <2>1, <4>2 DEF S
    <3>5. r \in Replies(t, p) => Asks(m, t, p)
      BY <1>5
    <3> HIDE DEF u, v, w, x, y
    <3>6. x + y <= w
      BY <3>1, <3>2, <3>3, <3>4, <3>5
    <3> QED BY <1>3, <3>6 DEF w, x, y
  <2>3. PubPid'
    BY <1>5, <2>1 DEF FlowInv, PubPid
  <2> QED BY <1>3, <2>2, <2>3 DEF FlowInv, NoUnknownAck
<1> QED BY <1>4, <1>5

LEMMA BrokerReadsFlow ==
  ASSUME IInv, FlowInv, BrokerReads
  PROVE  FlowInv'
<1> DEFINE m == toBroker[1].m
<1>1. m \in Msg /\ m.pid \in Ids
  BY ReadMsg DEF BrokerReads, Msg
<1>2. OnConnect(m) \/ OnSubscribe(m) \/ OnPublish(m) \/ OnPubrel(m) \/ OnPubrec(m) \/ OnAck(m)
      \/ OnPing(m)
  BY DEF BrokerReads
<1> HIDE DEF m
<1>3. m.type \in {"CONNECT", "PINGREQ"} /\ (\E a \in Seq(Pkt) : Read(m, a)) => m.pid = 0
  BY ReadRest DEF PidFits, Requests
<1>4. ASSUME NEW a, Read(m, a), UNCHANGED dups,
             NEW r \in Pkt, a = <<r>>, r.pid = m.pid, r.type # "PUBLISH",
             m.type = "PUBLISH" => m.qos # 0,
             m.type \in Requests /\ r.type \in AnswersTo[m.type]
      PROVE  FlowInv'
  <2>1. \A t \in Requests, p \in Ids : r \in Replies(t, p) => Asks(m, t, p)
    <3>1. \A t \in Requests : r.type \in AnswersTo[t] => t = m.type
      BY <1>4 DEF Requests, AnswersTo
    <3> QED BY <1>4, <3>1 DEF Replies, Asks
  <2> QED BY <1>1, <1>4, <2>1, ReadFlow
<1>5. ASSUME Read(m, << >>), UNCHANGED dups PROVE FlowInv'
  BY <1>1, <1>5, ReadFlow
<1>6. ASSUME NEW t \in InTypes, t # "PUBLISH", Read(m, <<Plain(t, m.pid)>>), UNCHANGED dups,
             m.type = "PUBLISH" => m.qos # 0, m.type \in Requests /\ t \in AnswersTo[m.type]
      PROVE  FlowInv'
  <2> DEFINE r == Plain(t, m.pid)
             a == <<r>>
  <2>1. r \in Pkt /\ r.pid = m.pid /\ r.type = t
    BY <1>1, <1>6, PlainPkt DEF Plain, Packet
  <2> HIDE DEF r
  <2>2. a = <<r>>
    OBVIOUS
  <2>3. Read(m, a)
    BY <1>6 DEF r
  <2> HIDE DEF a
  <2> QED BY <1>4, <1>6, <2>1, <2>2, <2>3
<1>7. ASSUME NEW t \in {"CONNACK", "SUBACK"}, NEW v \in Verdicts(Plain(t, m.pid)),
             Read(m, v), UNCHANGED dups, m.type = IF t = "CONNACK" THEN "CONNECT" ELSE "SUBSCRIBE"
      PROVE  FlowInv'
  <2> DEFINE x == Plain(t, m.pid)
  <2>1. x = [type |-> t, pid |-> m.pid, qos |-> 0, id |-> 0, ok |-> TRUE]
    BY DEF Plain, Packet
  <2>2. v \in Seq(Pkt)
    BY <1>1, VerdictType
  <2> HIDE DEF x
  <2>3. v = <<x>> \/ v = <<[x EXCEPT !.ok = FALSE]>>
    BY DEF Verdicts, x
  <2>4. PICK r : v = <<r>> /\ r.type = t /\ r.pid = m.pid
    BY <2>1, <2>3
  <2>5. r \in Pkt
    BY <2>2, <2>4
  <2>6. m.type \in Requests /\ t \in AnswersTo[m.type] /\ t # "PUBLISH" /\ m.type # "PUBLISH"
    BY <1>7 DEF Requests, AnswersTo
  <2> QED BY <1>4, <1>7, <2>4, <2>5, <2>6
<1>8. CASE OnConnect(m)
  <2>1. PICK v \in Verdicts(Plain("CONNACK", 0)) : Read(m, v)
    BY <1>8 DEF OnConnect
  <2>2. v \in Seq(Pkt)
    BY VerdictType DEF Ids
  <2>3. m.pid = 0
    BY <1>3, <1>8, <2>1, <2>2 DEF OnConnect
  <2> QED BY <1>7, <1>8, <2>1, <2>3 DEF OnConnect
<1>9. CASE OnSubscribe(m)
  <2>1. PICK v \in Verdicts(Plain("SUBACK", m.pid)) : Read(m, v)
    BY <1>9 DEF OnSubscribe
  <2> QED BY <1>7, <1>9, <2>1 DEF OnSubscribe
<1>10. CASE OnPublish(m)
  <2>1. m.qos \in 0 .. 2 /\ UNCHANGED dups /\ m.type = "PUBLISH"
    BY <1>1, <1>10 DEF Msg, OnPublish
  <2>2. m.type \in Requests /\ "PUBACK" \in AnswersTo[m.type] /\ "PUBREC" \in AnswersTo[m.type]
    BY <2>1 DEF Requests, AnswersTo
  <2>3. CASE m.qos = 0
    BY <1>5, <1>10, <2>1, <2>3 DEF OnPublish
  <2>4. CASE m.qos = 1
    BY <1>6, <1>10, <2>1, <2>2, <2>4 DEF OnPublish, InTypes
  <2>5. CASE m.qos = 2
    BY <1>6, <1>10, <2>1, <2>2, <2>5 DEF OnPublish, InTypes
  <2> QED BY <2>1, <2>3, <2>4, <2>5
<1>11. CASE OnPubrel(m)
  <2>1. m.type \in Requests /\ "PUBCOMP" \in AnswersTo[m.type] /\ m.type # "PUBLISH"
    BY <1>11 DEF OnPubrel, Requests, AnswersTo
  <2> QED BY <1>6, <1>11, <2>1 DEF OnPubrel, InTypes
<1>12. CASE OnPubrec(m)
  <2>1. m.type \in Requests /\ "PUBREL" \in AnswersTo[m.type] /\ m.type # "PUBLISH"
    BY <1>12 DEF OnPubrec, Requests, AnswersTo
  <2> QED BY <1>6, <1>12, <2>1 DEF OnPubrec, InTypes
<1>13. CASE OnAck(m)
  BY <1>5, <1>13 DEF OnAck
<1>14. CASE OnPing(m)
  <2>1. m.type \in Requests /\ "PINGRESP" \in AnswersTo[m.type] /\ m.type # "PUBLISH"
    BY <1>14 DEF OnPing, Requests, AnswersTo
  <2>2. <<Plain("PINGRESP", 0)>> \in Seq(Pkt)
    BY OneAnswer DEF InTypes, Ids
  <2>3. m.pid = 0
    BY <1>3, <1>14, <2>2 DEF OnPing
  <2> QED BY <1>6, <1>14, <2>1, <2>3 DEF OnPing, InTypes, broker
<1> QED BY <1>2, <1>8, <1>9, <1>10, <1>11, <1>12, <1>13, <1>14

\* A publication to the panel answers nothing.
LEMMA BrokerPublishFlow ==
  ASSUME IInv, FlowInv, NEW q \in BQos, BrokerPublish(q)
  PROVE  FlowInv'
<1>1. bpublished \in Seq(0 .. 2) /\ Len(bpublished) < MaxBPub
  BY DEF IInv, BrokerType, BrokerPublish
<1>2. PICK n \in IF q = 0 THEN {0} ELSE FreePids :
         BrokerSends(Packet("PUBLISH", n, q, Len(bpublished) + 1))
  BY DEF BrokerPublish
<1> DEFINE r == Packet("PUBLISH", n, q, Len(bpublished) + 1)
<1>3. r.type = "PUBLISH" /\ r.qos = q /\ r.pid = n
  BY DEF Packet
<1>4. q # 0 => n # 0
  <2>1. 0 \notin FreePids
    BY <1>1, MqttSessionAssumption DEF FreePids
  <2> QED BY <1>2, <2>1
<1> HIDE DEF r
<1>5. toClient' = Append(toClient, r) /\ UNCHANGED <<error, mq, toBroker, dups>>
  BY <1>2 DEF BrokerSends, BrokerPublish, r
<1>6. toClient \in Seq(Pkt) /\ Len(toClient) \in Nat
  BY DEF IInv, ClientType
<1>7. /\ Len(toClient') = Len(toClient) + 1
      /\ \A i \in 1 .. Len(toClient) : toClient'[i] = toClient[i]
      /\ toClient'[Len(toClient')] = r
      /\ \A i \in 1 .. Len(toClient') : i = Len(toClient') \/ i \in 1 .. Len(toClient)
  BY <1>5, <1>6
<1>8. \A t \in Requests, p \in Ids : Count(toClient', Replies(t, p)) = Count(toClient, Replies(t, p))
  <2> SUFFICES ASSUME NEW t \in Requests, NEW p \in Ids
               PROVE  Count(toClient', Replies(t, p)) = Count(toClient, Replies(t, p))
    OBVIOUS
  <2> DEFINE S == Replies(t, p)
  <2>1. r \notin S
    BY <1>3 DEF Replies, Requests, AnswersTo
  <2> HIDE DEF S
  <2>2. Count(toClient', S) = Count(toClient, S) + IF toClient'[Len(toClient')] \in S THEN 1 ELSE 0
    BY <1>6, <1>7, CountLast
  <2>3. Count(toClient, S) \in Nat
    BY <1>6, CountType
  <2>4. Count(toClient', S) = Count(toClient, S)
    BY <1>7, <2>1, <2>2, <2>3
  <2> QED BY <2>4 DEF S
<1>9. Flow'
  BY <1>5, <1>8 DEF FlowInv, Flow, AskedOf, Replies, Waiting
<1>10. PubPid'
  BY <1>3, <1>4, <1>7 DEF FlowInv, PubPid
<1> QED BY <1>5, <1>9, <1>10 DEF FlowInv, PidKind, FragEnds, NoUnknownAck

LEMMA InitFlow == Init => FlowInv
<1> SUFFICES ASSUME Init PROVE FlowInv
  OBVIOUS
<1>1. toBroker = << >> /\ toClient = << >> /\ error = "OK" /\ dups = 0
  BY DEF Init, ClientInit
<1>2. Len(<< >>) = 0 /\ \A i \in 1 .. 0 : FALSE
  OBVIOUS
<1>3. \A S : Count(<< >>, S) = 0
  BY <1>2, FS_EmptySet DEF Count, Places
<1>4. PICK x \in Pids : mq = <<Queued(Plain("CONNECT", 0)), Queued(Plain("SUBSCRIBE", x))>>
  BY DEF Init, ClientInit
<1>5. Len(mq) = 2
  BY <1>4
<1>6. Flow
  <2> SUFFICES ASSUME NEW t \in Requests, NEW p \in Ids
               PROVE  Count(toBroker, AskedOf(t, p)) + Count(toClient, Replies(t, p)) <=
                         Count(mq, Waiting(t, p))
    BY DEF Flow
  <2>1. Count(mq, Waiting(t, p)) \in Nat
    BY <1>5, CountType
  <2>2. Count(toBroker, AskedOf(t, p)) = 0 /\ Count(toClient, Replies(t, p)) = 0
    BY <1>1, <1>3
  <2> QED BY <2>1, <2>2
<1>7. PidKind
  <2>1. \A m \in Messages(mq) : m = Plain("CONNECT", 0) \/ m = Plain("SUBSCRIBE", x)
    <3>1. \A i \in 1 .. 2 : i = 1 \/ i = 2
      OBVIOUS
    <3> QED BY <1>4, <1>5, <3>1 DEF Messages, Queued
  <2>2. Messages(toBroker) = {}
    BY <1>1, <1>2 DEF Messages
  <2>3. x # 0
    BY MqttClientAssumption
  <2> QED BY <2>1, <2>2, <2>3 DEF PidKind, PidFits, Plain, Packet, Requests
<1> QED BY <1>1, <1>2, <1>6, <1>7 DEF FlowInv, PubPid, FragEnds, NoUnknownAck

LEMMA NextFlow ==
  ASSUME MaxTimeouts = 0, MaxDup = 0, IInv, FlowInv, [Next]_vars
  PROVE  FlowInv'
<1>1. CASE ClientNext /\ UNCHANGED broker
  BY <1>1, ClientFlow
<1>2. CASE BrokerReads
  BY <1>2, BrokerReadsFlow
<1>3. CASE \E q \in BQos : BrokerPublish(q)
  BY <1>3, BrokerPublishFlow
<1>4. CASE \E p \in flight : BrokerAgain(p)
  <2>1. dups < 0 /\ dups \in Nat
    BY <1>4 DEF BrokerAgain, FlowInv
  <2> QED BY <2>1
<1>5. CASE UNCHANGED vars
  <2>1. UNCHANGED <<toBroker, toClient, mq, error, dups>>
    BY <1>5 DEF vars, client, broker
  <2> QED BY <2>1, StillFlow DEF FlowInv, NoUnknownAck
<1> QED BY <1>1, <1>2, <1>3, <1>4, <1>5 DEF Next

\* With a broker that repeats nothing, and as long as no message times out, the
\* client takes no acknowledgement for an unexpected one (MQTT_ERROR_ACK_OF_UNKNOWN
\* in __mqtt_recv), whatever is published, refused, sent in pieces or cut off.
THEOREM NoUnknownAckHolds ==
  ASSUME MaxTimeouts = 0, MaxDup = 0
  PROVE  Spec => []NoUnknownAck
<1> DEFINE J == IInv /\ FlowInv
<1>1. Init => J
  BY InitIInv, InitFlow
<1>2. J /\ [Next]_vars => J'
  BY NextIInv, NextFlow
<1>3. J => NoUnknownAck
  BY DEF FlowInv
<1> QED BY <1>1, <1>2, <1>3, PTL DEF Spec
=============================================================================
