------------------------------ MODULE MqttRecv ------------------------------
(***************************************************************************)
(* How __mqtt_recv (mqtt.c) cuts the byte stream of the socket into        *)
(* packets and takes them apart.  A packet is a byte with its type and     *)
(* flags, the length of the rest in digits of base 128, least significant  *)
(* first, with the top bit set in all but the last, and the rest.  TCP     *)
(* delivers the bytes in pieces of any size; what does not make up a       *)
(* packet yet waits in the receive buffer, and what follows one is moved   *)
(* to its start.                                                           *)
(*                                                                         *)
(* The broker packs packets as the client's own packers do.  It may also   *)
(* close the connection after any of them, or send a packet that is not    *)
(* well formed.                                                            *)
(***************************************************************************)
EXTENDS Naturals, Sequences

CONSTANTS
    Base,        \* the base of the length's digits (128); a byte has one bit more
    MaxDigits,   \* the most digits it may have (4)
    RecvSize,    \* the size of the receive buffer (REC_SIZE, 512)
    Packets,     \* the packets the broker may send
    MaxPackets   \* bound on the packets that wait to be handled

\* The types of packets, with the flags of a PUBLISH: PUBACK stands for the
\* four acknowledgements that are a packet identifier.
FORBIDDEN == 0
PINGRESP  == 1
CONNACK   == 2
PUBACK    == 3
SUBACK    == 4
PUBLISH0  == 5
PUBLISH1  == 6

ASSUME MqttRecvAssumption ==
    /\ Base \in Nat /\ 2 * Base > PUBLISH1 /\ MaxDigits \in Nat \ {0}
    /\ RecvSize \in Nat \ {0} /\ MaxPackets \in Nat

VARIABLES
    wire,       \* the bytes sent and not received yet
    closed,     \* the broker has closed the connection
    recv_buffer,
    recv_error, \* client->error, as __mqtt_recv sets it
    response,   \* the packet unpacked last
    expected    \* history: the packets sent and not handled yet

rvars == <<wire, closed, recv_buffer, recv_error, response, expected>>
-----------------------------------------------------------------------------
\* The packers.
uint16(n) == <<n \div (2 * Base), n % (2 * Base)>>
str(s)    == uint16(Len(s)) \o s

Rest(p) == IF "raw" \in DOMAIN p THEN p.raw ELSE
           CASE p.type = PINGRESP -> << >>
             [] p.type = CONNACK  -> <<p.session_present, p.return_code>>
             [] p.type = PUBACK   -> uint16(p.packet_id)
             [] p.type = SUBACK   -> uint16(p.packet_id) \o p.return_codes
             [] p.type = PUBLISH0 -> str(p.topic_name) \o p.application_message
             [] p.type = PUBLISH1 -> str(p.topic_name) \o uint16(p.packet_id)
                                        \o p.application_message

\* mqtt_pack_fixed_header: the digits of n.
Digits[n \in Nat] == IF n < Base THEN <<n>>
                     ELSE <<Base + (n % Base)>> \o Digits[n \div Base]

Pack(p) == <<p.type>> \o Digits[Len(Rest(p))] \o Rest(p)
Stream[s \in Seq(Packets)] == IF s = << >> THEN << >> ELSE Pack(Head(s)) \o Stream[Tail(s)]
-----------------------------------------------------------------------------
\* Mutant: the bytes are taken in the order of the processor.
Value16_Swapped(r, i) == r[i] + 2 * Base * r[i + 1]

\* The unpackers of the rest r of a packet: whether they accept it, and what
\* they make of it.
Value16(r, i) == r[i] * 2 * Base + r[i + 1]
From(r, i)    == SubSeq(r, i, Len(r))
Accepted(type, r) == CASE type = CONNACK -> Len(r) = 2 /\ r[1] <= 1 /\ r[2] <= 5
                       [] type = PUBACK  -> Len(r) = 2
                       [] type = SUBACK  -> Len(r) >= 3
                       [] type \in {PUBLISH0, PUBLISH1} -> Len(r) >= 4
                       [] type = PINGRESP -> TRUE
Decoded(type, r) ==
    LET topic == Value16(r, 1)
    IN  CASE type = PINGRESP -> [type |-> type]
          [] type = CONNACK  -> [type |-> type, session_present |-> r[1], return_code |-> r[2]]
          [] type = PUBACK   -> [type |-> type, packet_id |-> Value16(r, 1)]
          [] type = SUBACK   -> [type |-> type, packet_id |-> Value16(r, 1),
                                 return_codes |-> From(r, 3)]
          [] type = PUBLISH0 -> [type |-> type, topic_name |-> SubSeq(r, 3, 2 + topic),
                                 application_message |-> From(r, 3 + topic)]
          [] type = PUBLISH1 -> [type |-> type, topic_name |-> SubSeq(r, 3, 2 + topic),
                                 packet_id |-> Value16(r, 3 + topic),
                                 application_message |-> From(r, 5 + topic)]

\* What the broker sends: a packet with all its fields, or bytes that are none,
\* because of their type, for an unpacker, or by their number.  The unpacker of
\* a PUBLISH takes one of less than four bytes for malformed (mqtt.c:1358).  A
\* PUBLISH whose topic is longer than its rest is neither Legal nor NoPacket:
\* mqtt.c:1363-1380 takes it without a check, and nothing is said of it here.
Byte == 0 .. 2 * Base - 1
Word == 0 .. 4 * Base * Base - 1
Legal(p) ==
    \/ p \in [type : {PINGRESP}]
    \/ p \in [type : {CONNACK}, session_present : 0 .. 1, return_code : 0 .. 5]
    \/ p \in [type : {PUBACK}, packet_id : Word]
    \/ p \in [type : {SUBACK}, packet_id : Word, return_codes : Seq(Byte) \ {<< >>}]
    \/ /\ \/ p \in [type : {PUBLISH0}, topic_name : Seq(Byte), application_message : Seq(Byte)]
          \/ p \in [type : {PUBLISH1}, topic_name : Seq(Byte), packet_id : Word,
                     application_message : Seq(Byte)]
       /\ Len(p.topic_name) \in Word /\ Len(Rest(p)) >= 4
Fits(p) == Len(Pack(p)) <= RecvSize
NoPacket(p) == /\ p \in [type : FORBIDDEN .. PUBLISH1, raw : Seq(Byte)]
               /\ ~Fits(p) \/ p.type = FORBIDDEN \/ ~Accepted(p.type, p.raw)

\* The length of what fits the buffer has few enough digits: 512 has two of
\* base 128.
ASSUME PacketsAssumption == /\ \A p \in Packets : Legal(p) \/ NoPacket(p)
                            /\ \A n \in 0 .. RecvSize : Len(Digits[n]) <= MaxDigits

\* Mutant: one more byte is waited for.
Complete_More(b, from, n) == Len(b) > from + n

\* remaining_length, whose digits are bytes 2 to last.
Number[d \in Seq(Nat)] == IF d = << >> THEN 0 ELSE (Head(d) % Base) + Base * Number[Tail(d)]
Remaining(b, last)     == Number[SubSeq(b, 2, last)]
Complete(b, from, n) == Len(b) >= from + n

Malformed(e)         == [kind |-> "error", error |-> e]
Incomplete           == [kind |-> "incomplete"]
Unpacked(n, packet)  == [kind |-> "packet", consumed |-> n, packet |-> packet]

\* mqtt_unpack_response on the bytes b of the buffer.  The rest of a PINGRESP
\* must have arrived but is not skipped.
Unpack(b) ==
    LET ends == {i \in 2 .. Len(b) : b[i] < Base}
        last == CHOOSE i \in ends : \A j \in ends : i <= j
        n    == Remaining(b, last)
        rest == SubSeq(b, last + 1, last + n)
    IN  IF ends = {} \/ last > MaxDigits + 1
        THEN IF Len(b) > MaxDigits THEN Malformed("INVALID_REMAINING_LENGTH") ELSE Incomplete
        ELSE IF b[1] = FORBIDDEN THEN Malformed("CONTROL_FORBIDDEN_TYPE")
        ELSE IF ~Complete(b, last, n) THEN Incomplete
        ELSE IF ~Accepted(b[1], rest) THEN Malformed("MALFORMED_RESPONSE")
        ELSE Unpacked(last + (IF b[1] = PINGRESP THEN 0 ELSE n), Decoded(b[1], rest))
-----------------------------------------------------------------------------
\* mqtt_pal_recvall: k bytes, as many as there is room for or as have arrived.
Received(k) == recv_buffer \o SubSeq(wire, 1, k)
Arrives(k)  == /\ Len(recv_buffer) < RecvSize
               /\ k <= RecvSize - Len(recv_buffer)
               /\ wire' = SubSeq(wire, k + 1, Len(wire))
               /\ wire = << >> => ~closed
               /\ UNCHANGED closed

\* Mutant: what follows the packet is moved one byte too far.
Leftover_Off(b, n) == SubSeq(b, n + 2, Len(b))

\* memmove of what follows the packet.
Leftover(b, n) == SubSeq(b, n + 1, Len(b))

\* One pass of the loop with b in the buffer, of which mqtt_unpack_response
\* makes r: a packet is handled, ...
Hand(b, r) == /\ r.kind = "packet"
              /\ recv_buffer' = Leftover(b, r.consumed)
              /\ response' = r.packet
              /\ expected' = IF expected = << >> THEN << >> ELSE Tail(expected)
              /\ UNCHANGED recv_error

\* Mutant: the buffer is taken to be full one byte early.
TooSmall_Early(b) == Len(b) >= RecvSize - 1
TooSmall(b) == Len(b) = RecvSize

\* ... or there is none yet, or none will ever fit, or it is malformed.
Wait(b, r) == /\ r.kind = "incomplete"
              /\ recv_buffer' = b
              /\ recv_error' = IF TooSmall(b) THEN "RECV_BUFFER_TOO_SMALL" ELSE recv_error
              /\ UNCHANGED <<response, expected>>

Refuse(b, r) == /\ r.kind = "error"
                /\ recv_buffer' = b
                /\ recv_error' = r.error
                /\ UNCHANGED <<response, expected>>

Pass(k) == /\ Arrives(k)
           /\ LET b == Received(k)
                  r == Unpack(b)
              IN  Hand(b, r) \/ Wait(b, r) \/ Refuse(b, r)

\* recv() finds the connection closed, also when packets that have arrived
\* are still in the buffer; with no room left it returns 0 as well.
SocketError == /\ (closed /\ wire = << >>) \/ Len(recv_buffer) = RecvSize
               /\ recv_error' = "SOCKET_ERROR"
               /\ UNCHANGED <<wire, closed, recv_buffer, response, expected>>

\* The broker.
Send(p) == /\ ~closed
           /\ Len(expected) < MaxPackets
           /\ wire' = wire \o Pack(p)
           /\ expected' = Append(expected, p)
           /\ UNCHANGED <<closed, recv_buffer, recv_error, response>>
Close == /\ ~closed
         /\ closed' = TRUE
         /\ UNCHANGED <<wire, recv_buffer, recv_error, response, expected>>

RInit == /\ wire = << >> /\ closed = FALSE
         /\ recv_buffer = << >> /\ recv_error = "OK"
         /\ response = [type |-> FORBIDDEN]
         /\ expected = << >>

RNext == \/ \E k \in 0 .. Len(wire) : Pass(k)
         \/ SocketError
         \/ \E p \in Packets : Send(p)
         \/ Close

\* mqtt_sync is called for ever and TCP delivers what was sent.
Delivers == \E k \in 0 .. Len(wire) : Pass(k) /\ (wire = << >> \/ k > 0)
RFair == WF_rvars(Delivers \/ SocketError)
RSpec == RInit /\ [][RNext]_rvars
-----------------------------------------------------------------------------

\* The buffer and the wire together hold the packets that are not handled yet,
\* so that the buffer starts with the first byte of one: no packet is cut, run
\* into the next or taken from the middle of another (mqtt.c:884-893).
Aligned == recv_error = "OK" =>
             recv_buffer \o wire = Stream[expected]

\* What is handled is what the broker sent, in its order, whatever the pieces
\* it arrived in (mqtt.c:664-692, 998-1017, 1700-1744).
AsSent == [][response' # response /\ recv_error = "OK" =>
               expected # << >> /\ response' = Head(expected)]_rvars

\* The client gives up only for the reasons mqtt.h names: the connection is
\* closed, or the first packet is larger than the buffer or malformed
\* (mqtt.c:669-690).
NoFalseError == recv_error # "OK" =>
                  \/ closed
                  \/ expected # << >> /\ ~(Legal(Head(expected)) /\ Fits(Head(expected)))

\* Packets are handled for as long as there are any and the client has not
\* given up.  When the broker closes the connection, complete packets that
\* wait in the buffer are lost with it (mqtt.c:655-690).
AllHanded == \/ []<>(expected = << >> \/ recv_error # "OK")
             \/ []<><<expected # << >> /\ expected' = Tail(expected)>>_rvars
=============================================================================
