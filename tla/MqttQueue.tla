------------------------------ MODULE MqttQueue ------------------------------
(***************************************************************************)
(* The send queue of the MQTT client (mqtt.c, mqtt.h) in its one buffer:   *)
(* the bytes of the messages grow up from mem_start, the array of their    *)
(* headers grows down from mem_end.  Pointers are offsets from mem_start.  *)
(* The buffer is modelled byte by byte; a header marks the bytes it        *)
(* occupies, so an overlap destroys one or the other.                      *)
(***************************************************************************)
EXTENDS Naturals, Sequences

CONSTANTS
    BufSize,    \* the size of the buffer (SEND_SIZE, 256)
    HdrSize,    \* sizeof(struct mqtt_queued_message) (24)
    MaxSize,    \* bound on the size of a message
    Bytes,      \* the bytes of messages
    HdrByte     \* a byte of a header

ASSUME MqttQueueAssumption ==
    /\ BufSize \in Nat /\ HdrSize \in Nat \ {0} /\ MaxSize \in Nat \ {0}
    /\ HdrSize <= BufSize
    /\ HdrByte \notin Bytes

VARIABLES
    mq,     \* [buf, curr, curr_sz, hdr]; hdr[i] is the header of index i - 1
    full    \* client->error = MQTT_ERROR_SEND_BUFFER_IS_FULL

vars == <<mq, full>>

Offsets == 0 .. BufSize - 1
States  == {"UNSENT", "AWAITING_ACK", "COMPLETE"}
-----------------------------------------------------------------------------
\* The macros of mqtt.h: the address of the header of index i, the tail of the
\* array when it holds n headers, and the room that is left for a message.
mqtt_mq_get(i) == BufSize - HdrSize * (i + 1)
queue_tail(n)  == BufSize - HdrSize * n

\* Mutants: the difference of the pointers is taken even when it is negative;
\* no room is kept for the next header.
mqtt_mq_currsz_Neg(curr, n)  == queue_tail(n) - HdrSize - curr
mqtt_mq_currsz_NoHdr(curr, n) == IF curr >= queue_tail(n) THEN 0 ELSE queue_tail(n) - curr

mqtt_mq_currsz(curr, n) ==
    IF curr + HdrSize >= queue_tail(n) THEN 0 ELSE queue_tail(n) - HdrSize - curr

mqtt_mq_init(b) == [buf |-> b, curr |-> 0, curr_sz |-> mqtt_mq_currsz(0, 0), hdr |-> << >>]

\* A packer writes its bytes at curr, or returns 0 when curr_sz is too small.
Packed(q, d) ==
    [q EXCEPT !.buf = [o \in Offsets |-> IF o \in q.curr .. q.curr + Len(d) - 1
                                         THEN d[o - q.curr + 1] ELSE @[o]]]

mqtt_mq_register(q, n) ==
    LET tail == mqtt_mq_get(Len(q.hdr))
    IN  [buf     |-> [o \in Offsets |-> IF o \in tail .. tail + HdrSize - 1
                                        THEN HdrByte ELSE q.buf[o]],
         curr    |-> q.curr + n,
         curr_sz |-> mqtt_mq_currsz(q.curr + n, Len(q.hdr) + 1),
         hdr     |-> Append(q.hdr, [start |-> q.curr, size |-> n, state |-> "UNSENT"])]

\* Mutant: only a message that awaits its answer stops the cleaning.
Kept_Awaiting(q) == {i \in 1 .. Len(q.hdr) : \E j \in 1 .. i : q.hdr[j].state = "AWAITING_ACK"}

\* The headers that survive are those from the first that is not complete;
\* their bytes move to the start of the buffer, and their starts with them.
Kept(q) == {i \in 1 .. Len(q.hdr) : \E j \in 1 .. i : q.hdr[j].state # "COMPLETE"}

mqtt_mq_clean(q) ==
    IF Kept(q) = {} THEN mqtt_mq_init(q.buf)
    ELSE LET head     == CHOOSE i \in Kept(q) : \A j \in Kept(q) : i <= j
             removing == q.hdr[head].start
             n        == q.curr - removing
             left     == Len(q.hdr) - head + 1
         IN  IF head = 1 THEN q
             ELSE [buf     |-> [o \in Offsets |-> IF o < n THEN q.buf[o + removing]
                                                  ELSE q.buf[o]],
                   curr    |-> n,
                   curr_sz |-> mqtt_mq_currsz(n, left),
                   hdr     |-> [i \in 1 .. left |->
                                  [q.hdr[i + head - 1] EXCEPT !.start = @ - removing]]]
-----------------------------------------------------------------------------
Sizes == 1 .. MaxSize
Data  == UNION {[1 .. n -> Bytes] : n \in Sizes}

\* MQTT_CLIENT_TRY_PACK: pack and register, after a clean when it does not fit.
TryPack(d) ==
    LET fits(q) == Len(d) <= q.curr_sz
        q1 == IF fits(mq) THEN mq ELSE mqtt_mq_clean(mq)
    IN  /\ ~full
        /\ IF fits(q1) THEN mq' = mqtt_mq_register(Packed(q1, d), Len(d)) /\ full' = FALSE
                       ELSE mq' = q1 /\ full' = TRUE

\* __mqtt_send and __mqtt_recv write to msg->state.
SetState(i, s) == /\ mq.hdr[i].state # "COMPLETE"
                  /\ s # "UNSENT"
                  /\ mq' = [mq EXCEPT !.hdr[i].state = s]
                  /\ UNCHANGED full

Init == /\ \E b \in Bytes : mq = mqtt_mq_init([o \in Offsets |-> b])
        /\ full = FALSE

Next == \/ \E d \in Data : TryPack(d)
        \/ \E i \in 1 .. Len(mq.hdr), s \in States : SetState(i, s)

Spec == Init /\ [][Next]_vars
-----------------------------------------------------------------------------
Header == [start : 0 .. BufSize, size : Sizes, state : States]

TypeOK == /\ mq.buf \in [Offsets -> Bytes \cup {HdrByte}]
          /\ mq.curr \in 0 .. BufSize
          /\ mq.curr_sz \in 0 .. BufSize
          /\ mq.hdr \in Seq(Header)
          /\ full \in BOOLEAN

\* The messages fill the buffer from its start to curr without a gap, curr
\* has not reached the headers, and no byte of a header has been overwritten
\* by a message packed next to it (mqtt.c:1625-1684).
HeadersIntact ==
    LET n == Len(mq.hdr)
    IN  /\ mq.curr <= queue_tail(n)
        /\ \A i \in 1 .. n : mq.hdr[i].start + mq.hdr[i].size =
                                IF i = n THEN mq.curr ELSE mq.hdr[i + 1].start
        /\ n > 0 => mq.hdr[1].start = 0
        /\ \A o \in Offsets : o >= queue_tail(n) => mq.buf[o] = HdrByte

\* The buffer implements a queue of messages: packing, registering, cleaning
\* and compacting never change a message that is still queued, lose one that
\* is not complete or change the order (mqtt.c:1612-1684).
Queue == INSTANCE MessageQueue WITH
           queue <- [i \in 1 .. Len(mq.hdr) |->
                       [data  |-> [k \in 1 .. mq.hdr[i].size |-> mq.buf[mq.hdr[i].start + k - 1]],
                        state |-> mq.hdr[i].state]]

MessagesKept == Queue!QSpec
=============================================================================
