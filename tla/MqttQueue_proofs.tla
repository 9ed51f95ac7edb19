-------------------------- MODULE MqttQueue_proofs --------------------------
(***************************************************************************)
(* Proofs about MqttQueue, for any sizes of the buffer, of a header and of *)
(* the messages.                                                           *)
(***************************************************************************)
EXTENDS MqttQueue, WellFoundedInduction, SequenceTheorems, TLAPS

\* A set of natural numbers that is not empty has a least element: what CHOOSE
\* finds where the code stops at the first match.
LEMMA LeastOfNat ==
  ASSUME NEW S \in SUBSET Nat, S # {}
  PROVE  \E i \in S : \A j \in S : i <= j
<1>1. IsWellFoundedOn(OpToRel(<, Nat), Nat)
  BY NatLessThanWellFounded
<1>2. PICK x \in S : \A y \in S : ~(<<y, x>> \in OpToRel(<, Nat))
  BY <1>1, WFMin
<1>3. \A y \in S : ~(y < x)
  BY <1>2 DEF OpToRel
<1>4. x \in Nat /\ S \subseteq Nat
  OBVIOUS
<1>5. \A y \in S : x <= y
  BY <1>3, <1>4
<1> QED BY <1>5

\* What the fields of one queue satisfy: the types, the layout, and the order
\* of the messages that the cleaning relies on.
Typed(q) == /\ q \in [buf : [Offsets -> Bytes \cup {HdrByte}], curr : 0 .. BufSize,
                      curr_sz : 0 .. BufSize, hdr : Seq(Header)]
Laid(q)  == /\ q.curr <= queue_tail(Len(q.hdr))
            /\ \A i \in 1 .. Len(q.hdr) : q.hdr[i].start + q.hdr[i].size =
                                 IF i = Len(q.hdr) THEN q.curr ELSE q.hdr[i + 1].start
            /\ Len(q.hdr) > 0 => q.hdr[1].start = 0
            /\ \A o \in Offsets : o >= queue_tail(Len(q.hdr)) => q.buf[o] = HdrByte
Rising(q) == /\ \A i, j \in 1 .. Len(q.hdr) : i <= j => q.hdr[i].start <= q.hdr[j].start
             /\ \A i \in 1 .. Len(q.hdr) : q.hdr[i].start + q.hdr[i].size <= q.curr
Sized(q)  == q.curr_sz = mqtt_mq_currsz(q.curr, Len(q.hdr))
Empty(q)  == q.hdr = << >> => q.curr = 0
Good(q)   == Typed(q) /\ Laid(q) /\ Rising(q) /\ Sized(q) /\ Empty(q)

IInv == Good(mq) /\ full \in BOOLEAN
-----------------------------------------------------------------------------
\* The array of headers: one more header takes HdrSize bytes off its tail.
LEMMA Tail0 == queue_tail(0) = BufSize
  BY MqttQueueAssumption DEF queue_tail

LEMMA TailStep ==
  ASSUME NEW n \in Nat
  PROVE  /\ queue_tail(n) \in Int
         /\ queue_tail(n + 1) = queue_tail(n) - HdrSize
         /\ mqtt_mq_get(n) = queue_tail(n + 1)
         /\ queue_tail(n) <= BufSize
<1>1. HdrSize \in Nat /\ BufSize \in Nat
  BY MqttQueueAssumption
<1>2. HdrSize * n \in Nat /\ HdrSize * (n + 1) = HdrSize * n + HdrSize
  BY <1>1
<1> QED BY <1>1, <1>2 DEF queue_tail, mqtt_mq_get

LEMMA TailFalls ==
  ASSUME NEW m \in Nat, NEW n \in Nat, m <= n
  PROVE  queue_tail(n) <= queue_tail(m)
<1>1. HdrSize \in Nat /\ BufSize \in Nat /\ n - m \in Nat
  BY MqttQueueAssumption
<1>2. HdrSize * n = HdrSize * m + HdrSize * (n - m)
  BY <1>1
<1>3. HdrSize * m \in Nat /\ HdrSize * (n - m) \in Nat /\ HdrSize * n \in Nat
  BY <1>1
<1> QED BY <1>1, <1>2, <1>3 DEF queue_tail

\* The room for a message: none, or what lies between curr and the next header.
LEMMA CurrszBounds ==
  ASSUME NEW c \in 0 .. BufSize, NEW n \in Nat
  PROVE  /\ mqtt_mq_currsz(c, n) \in 0 .. BufSize
         /\ \A l \in Nat \ {0} : l <= mqtt_mq_currsz(c, n) => c + l <= queue_tail(n + 1)
<1>1. HdrSize \in Nat /\ BufSize \in Nat
  BY MqttQueueAssumption
<1>2. /\ queue_tail(n) \in Int
      /\ queue_tail(n + 1) = queue_tail(n) - HdrSize
      /\ queue_tail(n) <= BufSize
  BY TailStep
<1> QED BY <1>1, <1>2 DEF mqtt_mq_currsz
-----------------------------------------------------------------------------
\* The queue of messages that the buffer stands for.
Message(q, i) == [data  |-> [k \in 1 .. q.hdr[i].size |-> q.buf[q.hdr[i].start + k - 1]],
                  state |-> q.hdr[i].state]
Abstract(q)   == [i \in 1 .. Len(q.hdr) |-> Message(q, i)]

\* An empty queue.
LEMMA EmptyGood ==
  ASSUME NEW b \in [Offsets -> Bytes \cup {HdrByte}]
  PROVE  Good(mqtt_mq_init(b)) /\ Abstract(mqtt_mq_init(b)) = << >>
<1> DEFINE q == mqtt_mq_init(b)
<1>1. q = [buf |-> b, curr |-> 0, curr_sz |-> mqtt_mq_currsz(0, 0), hdr |-> << >>]
  BY DEF mqtt_mq_init
<1>2. BufSize \in Nat /\ 0 \in 0 .. BufSize
  BY MqttQueueAssumption
<1>3. mqtt_mq_currsz(0, 0) \in 0 .. BufSize
  BY <1>2, CurrszBounds
<1>4. << >> \in Seq(Header) /\ Len(<< >>) = 0
  OBVIOUS
<1> HIDE DEF q
<1>5. q.buf = b /\ q.curr = 0 /\ q.curr_sz = mqtt_mq_currsz(0, 0) /\ q.hdr = << >>
  BY <1>1
<1>6. Typed(q)
  BY <1>1, <1>2, <1>3, <1>4 DEF Typed
<1>7. Laid(q)
  BY <1>2, <1>4, <1>5, Tail0 DEF Laid, Offsets
<1>8. Rising(q) /\ Sized(q) /\ Empty(q)
  BY <1>4, <1>5 DEF Rising, Sized, Empty
<1>9. Abstract(q) = << >>
  BY <1>4, <1>5 DEF Abstract
<1> QED BY <1>6, <1>7, <1>8, <1>9 DEF Good, q
-----------------------------------------------------------------------------
\* Packing a message that fits and registering it: the layout holds, and the
\* message is appended to the queue.
LEMMA RegisterGood ==
  ASSUME NEW q, Good(q), NEW d \in Data, Len(d) <= q.curr_sz
  PROVE  LET r == mqtt_mq_register(Packed(q, d), Len(d)) IN
         /\ Good(r)
         /\ Abstract(r) = Append(Abstract(q), [data |-> d, state |-> "UNSENT"])
<1> DEFINE n == Len(q.hdr)
           l == Len(d)
           tail == mqtt_mq_get(n)
           h == [start |-> q.curr, size |-> l, state |-> "UNSENT"]
           b == [o \in Offsets |-> IF o \in tail .. tail + HdrSize - 1 THEN HdrByte
                                   ELSE IF o \in q.curr .. q.curr + l - 1 THEN d[o - q.curr + 1]
                                   ELSE q.buf[o]]
           r == mqtt_mq_register(Packed(q, d), l)
<1>1. /\ q.buf \in [Offsets -> Bytes \cup {HdrByte}]
      /\ q.curr \in 0 .. BufSize /\ q.curr_sz \in 0 .. BufSize
      /\ q.hdr \in Seq(Header) /\ n \in Nat
      /\ BufSize \in Nat /\ HdrSize \in Nat /\ HdrSize > 0
  BY MqttQueueAssumption DEF Good, Typed
<1>2. /\ l \in Sizes /\ l \in Nat \ {0} /\ \A k \in 1 .. l : d[k] \in Bytes
      /\ d \in [1 .. l -> Bytes]
  <2>1. PICK m \in Sizes : d \in [1 .. m -> Bytes]
    BY DEF Data
  <2>2. m \in Nat \ {0}
    BY <2>1, MqttQueueAssumption DEF Sizes
  <2>3. l = m
    BY <2>1, <2>2
  <2> QED BY <2>1, <2>2, <2>3
<1>3. /\ queue_tail(n) \in Int /\ queue_tail(n + 1) = queue_tail(n) - HdrSize
      /\ tail = queue_tail(n + 1) /\ queue_tail(n) <= BufSize
  BY <1>1, TailStep
<1>4. q.curr + l <= tail
  <2>1. q.curr_sz = mqtt_mq_currsz(q.curr, n)
    BY DEF Good, Sized
  <2> QED BY <1>1, <1>2, <1>3, <2>1, CurrszBounds
<1>5. r = [buf |-> b, curr |-> q.curr + l, curr_sz |-> mqtt_mq_currsz(q.curr + l, n + 1),
           hdr |-> Append(q.hdr, h)]
  <2> DEFINE c == [o \in Offsets |-> IF o \in q.curr .. q.curr + l - 1
                                     THEN d[o - q.curr + 1] ELSE q.buf[o]]
             p == Packed(q, d)
  <2>1. /\ p.buf = c /\ p.curr = q.curr /\ p.hdr = q.hdr
    BY DEF Good, Typed, Packed
  <2>2. r = [buf     |-> [o \in Offsets |-> IF o \in tail .. tail + HdrSize - 1
                                            THEN HdrByte ELSE c[o]],
             curr    |-> q.curr + l,
             curr_sz |-> mqtt_mq_currsz(q.curr + l, n + 1),
             hdr     |-> Append(q.hdr, h)]
    BY <2>1 DEF mqtt_mq_register
  <2>3. [o \in Offsets |-> IF o \in tail .. tail + HdrSize - 1 THEN HdrByte ELSE c[o]] = b
    OBVIOUS
  <2> QED BY <2>2, <2>3
<1> HIDE DEF r
<1>6. r.buf = b /\ r.curr = q.curr + l /\ r.hdr = Append(q.hdr, h)
      /\ r.curr_sz = mqtt_mq_currsz(q.curr + l, n + 1)
  BY <1>5
<1>7. h \in Header
  BY <1>1, <1>2 DEF Header, States
<1>8. /\ r.hdr \in Seq(Header) /\ Len(r.hdr) = n + 1
      /\ r.hdr[n + 1] = h /\ \A i \in 1 .. n : r.hdr[i] = q.hdr[i]
  BY <1>1, <1>6, <1>7
<1>9. b \in [Offsets -> Bytes \cup {HdrByte}]
  <2>1. \A o \in Offsets : o \in q.curr .. q.curr + l - 1 => o - q.curr + 1 \in 1 .. l
    BY <1>1, <1>2 DEF Offsets
  <2> QED BY <1>1, <1>2, <2>1
<1>10. q.curr + l \in 0 .. BufSize
  BY <1>1, <1>2, <1>3, <1>4
<1> DEFINE cs == mqtt_mq_currsz(q.curr + l, n + 1)
<1>11. cs \in 0 .. BufSize
  <2> DEFINE c == q.curr + l
             m == n + 1
  <2>1. c \in 0 .. BufSize /\ m \in Nat
    BY <1>1, <1>10
  <2> HIDE DEF c, m, l
  <2>2. mqtt_mq_currsz(c, m) \in 0 .. BufSize
    BY <2>1, CurrszBounds
  <2> QED BY <2>2 DEF c, m
<1> HIDE DEF b, h, l, tail, cs
<1>12. Typed(r)
  BY <1>5, <1>6, <1>8, <1>9, <1>10, <1>11 DEF Typed, cs
<1>13. \A i \in 1 .. n : q.hdr[i].start + q.hdr[i].size = IF i = n THEN q.curr
                                                          ELSE q.hdr[i + 1].start
  BY DEF Good, Laid
<1>14. h.start = q.curr /\ h.size = l /\ h.state = "UNSENT"
  BY DEF h
<1>15. \A i \in 1 .. n + 1 : r.hdr[i].start + r.hdr[i].size =
                               IF i = n + 1 THEN r.curr ELSE r.hdr[i + 1].start
  <2> SUFFICES ASSUME NEW i \in 1 .. n + 1
               PROVE  r.hdr[i].start + r.hdr[i].size =
                               IF i = n + 1 THEN r.curr ELSE r.hdr[i + 1].start
    OBVIOUS
  <2>1. CASE i = n + 1
    BY <1>6, <1>8, <1>14, <2>1
  <2>2. CASE i = n /\ n > 0
    BY <1>1, <1>8, <1>13, <1>14, <2>2
  <2>3. CASE i < n
    <3>1. i \in 1 .. n /\ i + 1 \in 1 .. n /\ i # n /\ i # n + 1
      BY <1>1, <2>3
    <3> QED BY <1>8, <1>13, <3>1
  <2> QED BY <1>1, <2>1, <2>2, <2>3
<1>16. r.hdr[1].start = 0
  <2>1. CASE n = 0
    <3>1. q.curr = 0
      BY <2>1 DEF Good, Empty
    <3> QED BY <1>8, <1>14, <2>1, <3>1
  <2>2. CASE n > 0
    <3>1. q.hdr[1].start = 0 /\ 1 \in 1 .. n
      BY <1>1, <2>2 DEF Good, Laid
    <3> QED BY <1>8, <3>1
  <2> QED BY <1>1, <2>1, <2>2
<1>17. \A o \in Offsets : o >= queue_tail(n + 1) => r.buf[o] = HdrByte
  <2>1. \A o \in Offsets : o >= queue_tail(n) => q.buf[o] = HdrByte
    BY DEF Good, Laid
  <2>2. \A o \in Offsets : o >= tail => ~(o \in q.curr .. q.curr + l - 1)
    BY <1>1, <1>2, <1>3, <1>4 DEF Offsets
  <2>3. \A o \in Offsets : o >= tail /\ ~(o \in tail .. tail + HdrSize - 1) => o >= queue_tail(n)
    BY <1>1, <1>3 DEF Offsets
  <2>4. \A o \in Offsets : r.buf[o] = IF o \in tail .. tail + HdrSize - 1 THEN HdrByte
                                      ELSE IF o \in q.curr .. q.curr + l - 1
                                           THEN d[o - q.curr + 1] ELSE q.buf[o]
    BY <1>6 DEF b
  <2> QED BY <1>3, <2>1, <2>2, <2>3, <2>4
<1>18. Laid(r)
  BY <1>1, <1>3, <1>4, <1>6, <1>8, <1>15, <1>16, <1>17 DEF Laid
<1>19. Rising(r)
  <2>1. \A i, j \in 1 .. n : i <= j => q.hdr[i].start <= q.hdr[j].start
    BY DEF Good, Rising
  <2>2. \A i \in 1 .. n : q.hdr[i].start \in Nat /\ q.hdr[i].size \in Nat
                          /\ q.hdr[i].start + q.hdr[i].size <= q.curr
    <3> SUFFICES ASSUME NEW i \in 1 .. n
                 PROVE  q.hdr[i].start \in Nat /\ q.hdr[i].size \in Nat
                        /\ q.hdr[i].start + q.hdr[i].size <= q.curr
      OBVIOUS
    <3>1. q.hdr[i] \in Header
      BY <1>1
    <3> QED BY <1>1, <3>1, MqttQueueAssumption DEF Good, Rising, Header, Sizes
  <2>3. \A i \in 1 .. n + 1 : i = n + 1 \/ i \in 1 .. n
    BY <1>1
  <2>4. \A i \in 1 .. n + 1 : r.hdr[i].start + r.hdr[i].size <= r.curr
    <3>1. l \in Nat /\ q.curr \in Nat /\ r.curr = q.curr + l
      BY <1>1, <1>2, <1>6
    <3>2. r.hdr[n + 1].start + r.hdr[n + 1].size <= r.curr
      BY <1>8, <1>14, <3>1
    <3>3. \A i \in 1 .. n : r.hdr[i].start + r.hdr[i].size <= r.curr
      <4> SUFFICES ASSUME NEW i \in 1 .. n
                   PROVE  r.hdr[i].start + r.hdr[i].size <= r.curr
        OBVIOUS
      <4>1. r.hdr[i] = q.hdr[i]
        BY <1>8
      <4>2. /\ q.hdr[i].start \in Nat /\ q.hdr[i].size \in Nat
            /\ q.hdr[i].start + q.hdr[i].size <= q.curr
        BY <2>2
      <4>3. q.hdr[i].start + q.hdr[i].size <= r.curr
        BY <3>1, <4>2
      <4> QED BY <4>1, <4>3
    <3> QED BY <2>3, <3>2, <3>3
  <2>5. ASSUME NEW i \in 1 .. n + 1, NEW j \in 1 .. n + 1, i <= j
        PROVE  r.hdr[i].start <= r.hdr[j].start
    <3>1. CASE j = n + 1 /\ i = n + 1
      BY <1>1, <1>8, <1>14, <3>1
    <3>2. CASE j = n + 1 /\ i \in 1 .. n
      <4>1. q.hdr[i].start <= q.curr /\ r.hdr[i] = q.hdr[i] /\ r.hdr[j].start = q.curr
        <5>1. /\ q.hdr[i].start \in Nat /\ q.hdr[i].size \in Nat
              /\ q.hdr[i].start + q.hdr[i].size <= q.curr
          BY <2>2, <3>2
        <5>2. q.hdr[i].start <= q.curr
          <6> DEFINE a == q.hdr[i].start
                     z == q.hdr[i].size
                     c == q.curr
          <6>1. a \in Nat /\ z \in Nat /\ c \in Nat /\ a + z <= c
            BY <1>1, <5>1
          <6> HIDE DEF a, z, c
          <6>2. a <= c
            BY <6>1
          <6> QED BY <6>2 DEF a, c
        <5> QED BY <1>8, <1>14, <3>2, <5>2
      <4> QED BY <4>1
    <3>3. CASE j \in 1 .. n
      <4>1. i \in 1 .. n
        BY <1>1, <2>5, <3>3
      <4> QED BY <1>8, <2>1, <2>5, <3>3, <4>1
    <3> QED BY <2>3, <3>1, <3>2, <3>3
  <2> QED BY <1>8, <2>4, <2>5 DEF Rising
<1>20. Sized(r) /\ Empty(r)
  <2>1. Len(r.hdr) # 0 /\ r.hdr # << >>
    BY <1>1, <1>8
  <2> QED BY <1>6, <1>8, <2>1 DEF Sized, Empty
<1>21. \A o \in Offsets : /\ o < q.curr => r.buf[o] = q.buf[o]
                          /\ o \in q.curr .. q.curr + l - 1 => r.buf[o] = d[o - q.curr + 1]
  <2>1. \A o \in Offsets : o < q.curr + l => ~(o \in tail .. tail + HdrSize - 1)
    BY <1>1, <1>2, <1>3, <1>4 DEF Offsets
  <2>2. \A o \in Offsets : r.buf[o] = IF o \in tail .. tail + HdrSize - 1 THEN HdrByte
                                      ELSE IF o \in q.curr .. q.curr + l - 1
                                           THEN d[o - q.curr + 1] ELSE q.buf[o]
    BY <1>6 DEF b
  <2>3. \A o \in Offsets : o < q.curr => o < q.curr + l /\ ~(o \in q.curr .. q.curr + l - 1)
    BY <1>1, <1>2 DEF Offsets
  <2>4. \A o \in Offsets : o \in q.curr .. q.curr + l - 1 => o < q.curr + l
    BY <1>1, <1>2 DEF Offsets
  <2> QED BY <2>1, <2>2, <2>3, <2>4
<1>22. q.curr + l <= BufSize
  BY <1>1, <1>2, <1>10
<1>23. \A i \in 1 .. n : Message(r, i) = Message(q, i)
  <2> SUFFICES ASSUME NEW i \in 1 .. n PROVE Message(r, i) = Message(q, i)
    OBVIOUS
  <2>1. r.hdr[i] = q.hdr[i]
    BY <1>8
  <2>2. q.hdr[i] \in Header
    BY <1>1
  <2>3. q.hdr[i].start \in Nat /\ q.hdr[i].size \in Nat
        /\ q.hdr[i].start + q.hdr[i].size <= q.curr
    BY <1>1, <2>2, MqttQueueAssumption DEF Good, Rising, Header, Sizes
  <2>4. \A k \in 1 .. q.hdr[i].size : /\ q.hdr[i].start + k - 1 \in Offsets
                                      /\ q.hdr[i].start + k - 1 < q.curr
    <3> DEFINE a == q.hdr[i].start
               z == q.hdr[i].size
    <3>1. a \in Nat /\ z \in Nat /\ a + z <= q.curr /\ q.curr \in 0 .. BufSize
      BY <1>1, <2>3
    <3> HIDE DEF a, z
    <3>2. \A k \in 1 .. z : a + k - 1 \in 0 .. BufSize - 1 /\ a + k - 1 < q.curr
      BY <1>1, <3>1
    <3> QED BY <3>2 DEF Offsets, a, z
  <2>5. \A k \in 1 .. q.hdr[i].size : r.buf[q.hdr[i].start + k - 1] = q.buf[q.hdr[i].start + k - 1]
    BY <1>21, <2>4
  <2> QED BY <2>1, <2>5 DEF Message
<1>24. Message(r, n + 1) = [data |-> d, state |-> "UNSENT"]
  <2>1. \A k \in 1 .. l : /\ q.curr + k - 1 \in Offsets
                          /\ q.curr + k - 1 \in q.curr .. q.curr + l - 1
                          /\ (q.curr + k - 1) - q.curr + 1 = k
    BY <1>1, <1>2, <1>22 DEF Offsets
  <2>2. \A k \in 1 .. l : r.buf[q.curr + k - 1] = d[k]
    BY <1>21, <2>1
  <2>3. d = [k \in 1 .. l |-> r.buf[q.curr + k - 1]]
    BY <1>2, <2>2
  <2> QED BY <1>8, <1>14, <2>3 DEF Message
<1>25. Abstract(r) = Append(Abstract(q), [data |-> d, state |-> "UNSENT"])
  <2> DEFINE e == [data |-> d, state |-> "UNSENT"]
             Q == Abstract(q)
  <2>1. Abstract(r) = [i \in 1 .. n + 1 |-> IF i = n + 1 THEN e ELSE Message(q, i)]
    <3>1. \A i \in 1 .. n + 1 : i = n + 1 \/ i \in 1 .. n
      BY <1>1
    <3>2. \A i \in 1 .. n + 1 : Message(r, i) = IF i = n + 1 THEN e ELSE Message(q, i)
      BY <1>23, <1>24, <3>1
    <3> QED BY <1>8, <3>2 DEF Abstract
  <2> HIDE DEF e
  <2>2. Q = [i \in 1 .. n |-> Message(q, i)] /\ Len(Q) = n
    BY <1>1 DEF Abstract
  <2>3. Append(Q, e) = [i \in 1 .. n + 1 |-> IF i = n + 1 THEN e ELSE Message(q, i)]
    <3>1. \A i \in 1 .. n + 1 : i # n + 1 => i \in 1 .. n
      BY <1>1
    <3>2. Append(Q, e) = [i \in 1 .. n + 1 |-> IF i = n + 1 THEN e ELSE Q[i]]
      BY <1>1, <2>2
    <3> QED BY <2>2, <3>1, <3>2
  <2> QED BY <2>1, <2>3 DEF e
<1> QED BY <1>12, <1>18, <1>19, <1>20, <1>25 DEF Good, r, l
-----------------------------------------------------------------------------
\* Cleaning keeps the layout and drops complete messages from the front.
LEMMA CleanGood ==
  ASSUME NEW q, Good(q)
  PROVE  /\ Good(mqtt_mq_clean(q))
         /\ \/ mqtt_mq_clean(q) = q
            \/ \E k \in 1 .. Len(q.hdr) :
                  /\ \A i \in 1 .. k : q.hdr[i].state = "COMPLETE"
                  /\ Abstract(mqtt_mq_clean(q)) = SubSeq(Abstract(q), k + 1, Len(Abstract(q)))
<1> DEFINE N == Len(q.hdr)
           S == Kept(q)
           r == mqtt_mq_clean(q)
<1>1. /\ q.buf \in [Offsets -> Bytes \cup {HdrByte}]
      /\ q.curr \in 0 .. BufSize /\ q.curr \in Nat /\ q.curr_sz \in 0 .. BufSize
      /\ q.hdr \in Seq(Header) /\ N \in Nat
      /\ BufSize \in Nat
  BY MqttQueueAssumption DEF Good, Typed
<1>2. S \in SUBSET Nat /\ S \subseteq 1 .. N
  BY DEF Kept
<1>3. Len(Abstract(q)) = N /\ Abstract(q) = [i \in 1 .. N |-> Message(q, i)]
  BY <1>1 DEF Abstract
<1>4. CASE S = {}
  <2>1. r = mqtt_mq_init(q.buf)
    BY <1>4 DEF mqtt_mq_clean
  <2>2. Good(r) /\ Abstract(r) = << >>
    BY <1>1, <2>1, EmptyGood
  <2>3. CASE N = 0
    <3>1. q.hdr = << >>
      BY <1>1, <2>3
    <3>2. q.curr = 0 /\ q.curr_sz = mqtt_mq_currsz(0, 0)
      BY <2>3, <3>1 DEF Good, Empty, Sized
    <3>3. q = [buf |-> q.buf, curr |-> q.curr, curr_sz |-> q.curr_sz, hdr |-> q.hdr]
      BY DEF Good, Typed
    <3>4. r = q
      BY <2>1, <3>1, <3>2, <3>3 DEF mqtt_mq_init
    <3> QED BY <2>2, <3>4
  <2>4. CASE N > 0
    <3>1. \A i \in 1 .. N : i \notin S /\ i \in 1 .. i
      BY <1>4
    <3>2. \A i \in 1 .. N : q.hdr[i].state = "COMPLETE"
      BY <3>1 DEF Kept
    <3>3. SubSeq(Abstract(q), N + 1, N) = << >>
      BY <1>1, SubSeqEmpty
    <3>4. N \in 1 .. N
      BY <1>1, <2>4
    <3> QED BY <1>3, <2>2, <3>2, <3>3, <3>4
  <2> QED BY <1>1, <2>3, <2>4
<1>5. CASE S # {}
  <2> DEFINE head == CHOOSE i \in S : \A j \in S : i <= j
             z    == q.hdr[head].start
             n    == q.curr - z
             left == N - head + 1
             b    == [o \in Offsets |-> IF o < n THEN q.buf[o + z] ELSE q.buf[o]]
             hd   == [i \in 1 .. left |-> [q.hdr[i + head - 1] EXCEPT !.start = @ - z]]
  <2>1. r = IF head = 1 THEN q
            ELSE [buf |-> b, curr |-> n, curr_sz |-> mqtt_mq_currsz(n, left), hdr |-> hd]
    BY <1>5 DEF mqtt_mq_clean
  <2>2. \E i \in S : \A j \in S : i <= j
    BY <1>2, <1>5, LeastOfNat
  <2>3. head \in S /\ \A j \in S : head <= j
    <3> HIDE DEF S
    <3> QED BY <2>2
  <2> HIDE DEF head
  <2>4. head \in 1 .. N /\ head \in Nat
    BY <1>1, <1>2, <2>3
  <2>5. CASE head = 1
    BY <2>1, <2>5
  <2>6. CASE head # 1
    <3>1. r = [buf |-> b, curr |-> n, curr_sz |-> mqtt_mq_currsz(n, left), hdr |-> hd]
      BY <2>1, <2>6
    <3> HIDE DEF r
    <3>0. z = q.hdr[head].start
      OBVIOUS
    <3>2. /\ z \in Nat /\ n \in Nat /\ n + z = q.curr
          /\ left \in Nat /\ left <= N /\ left >= 1 /\ left + head - 1 = N
      <4>1. q.hdr[head] \in Header
        BY <1>1, <2>4
      <4>2. z \in Nat /\ q.hdr[head].size \in Nat /\ z + q.hdr[head].size <= q.curr
        BY <1>1, <2>4, <4>1, MqttQueueAssumption DEF Good, Rising, Header, Sizes
      <4> DEFINE y == q.hdr[head].size
      <4>3. z \in Nat /\ y \in Nat /\ q.curr \in Nat /\ z + y <= q.curr
        BY <1>1, <4>2
      <4> HIDE DEF z, y
      <4>4. n \in Nat /\ n + z = q.curr
        BY <4>3
      <4> QED BY <1>1, <2>4, <4>3, <4>4 DEF z
    <3> HIDE DEF z, n, left, b, hd
    <3>3. \A i \in 1 .. left :
             /\ i + head - 1 \in 1 .. N
             /\ q.hdr[i + head - 1].start \in Nat /\ q.hdr[i + head - 1].size \in Sizes
             /\ q.hdr[i + head - 1].state \in States
             /\ z <= q.hdr[i + head - 1].start
             /\ q.hdr[i + head - 1].start + q.hdr[i + head - 1].size <= q.curr
      <4> SUFFICES ASSUME NEW i \in 1 .. left
                   PROVE  /\ i + head - 1 \in 1 .. N
                          /\ q.hdr[i + head - 1].start \in Nat
                          /\ q.hdr[i + head - 1].size \in Sizes
                          /\ q.hdr[i + head - 1].state \in States
                          /\ z <= q.hdr[i + head - 1].start
                          /\ q.hdr[i + head - 1].start + q.hdr[i + head - 1].size <= q.curr
        OBVIOUS
      <4> DEFINE m == i + head - 1
      <4>1. m \in 1 .. N /\ head <= m
        BY <1>1, <2>4, <3>2
      <4> HIDE DEF m
      <4>2. q.hdr[m] \in Header
        BY <1>1, <4>1
      <4>3. q.hdr[m].start \in Nat /\ q.hdr[m].size \in Sizes /\ q.hdr[m].state \in States
        BY <1>1, <4>2 DEF Header
      <4>4. z <= q.hdr[m].start /\ q.hdr[m].start + q.hdr[m].size <= q.curr
        BY <2>4, <3>0, <4>1 DEF Good, Rising
      <4> QED BY <4>1, <4>3, <4>4 DEF m
    <3>4. \A i \in 1 .. left :
             /\ hd[i].start = q.hdr[i + head - 1].start - z
             /\ hd[i].size = q.hdr[i + head - 1].size
             /\ hd[i].state = q.hdr[i + head - 1].state
             /\ hd[i].start \in Nat /\ hd[i].start + hd[i].size <= n
             /\ hd[i] \in Header
      <4> SUFFICES ASSUME NEW i \in 1 .. left
                   PROVE  /\ hd[i].start = q.hdr[i + head - 1].start - z
                          /\ hd[i].size = q.hdr[i + head - 1].size
                          /\ hd[i].state = q.hdr[i + head - 1].state
                          /\ hd[i].start \in Nat /\ hd[i].start + hd[i].size <= n
                          /\ hd[i] \in Header
        OBVIOUS
      <4> DEFINE e  == q.hdr[i + head - 1]
                 st == e.start
                 sz == e.size
      <4>1. e \in Header
        BY <1>1, <3>3
      <4>2. hd[i] = [e EXCEPT !.start = @ - z]
        BY DEF hd
      <4>3. st \in Nat /\ sz \in Nat /\ z <= st /\ st + sz <= q.curr /\ z \in Nat /\ n \in Nat
            /\ n + z = q.curr
        BY <3>2, <3>3, MqttQueueAssumption DEF Sizes
      <4>5. hd[i] = [start |-> st - z, size |-> e.size, state |-> e.state]
        BY <4>1, <4>2 DEF Header
      <4>6. e.size \in Sizes /\ e.state \in States
        BY <3>3
      <4> HIDE DEF e, st, sz
      <4>4. st - z \in Nat /\ (st - z) + sz <= n /\ st - z <= BufSize
        BY <1>1, <4>3
      <4>7. hd[i] \in Header
        BY <1>1, <4>4, <4>5, <4>6 DEF Header
      <4> QED BY <4>4, <4>5, <4>7 DEF e, st, sz
    <3>5. hd \in Seq(Header) /\ Len(hd) = left /\ hd # << >>
      <4>1. DOMAIN hd = 1 .. left /\ hd = [i \in 1 .. left |-> hd[i]]
        BY DEF hd
      <4>2. hd \in Seq(Header)
        BY <3>2, <3>4, <4>1, IsASeq
      <4>3. Len(hd) = left
        BY <3>2, <4>1, <4>2
      <4> QED BY <3>2, <4>2, <4>3
    <3>6. r.buf = b /\ r.curr = n /\ r.hdr = hd /\ r.curr_sz = mqtt_mq_currsz(n, left)
      BY <3>1
    <3>7. b \in [Offsets -> Bytes \cup {HdrByte}]
      <4>1. \A o \in Offsets : o < n => o + z \in Offsets
        BY <1>1, <3>2 DEF Offsets
      <4> QED BY <1>1, <4>1 DEF b
    <3>8. n \in 0 .. BufSize
      BY <1>1, <3>2
    <3>9. mqtt_mq_currsz(n, left) \in 0 .. BufSize
      BY <3>2, <3>8, CurrszBounds
    <3>10. Typed(r)
      BY <3>1, <3>5, <3>7, <3>8, <3>9 DEF Typed
    <3>11. /\ queue_tail(N) <= queue_tail(left) /\ queue_tail(N) \in Int /\ queue_tail(left) \in Int
           /\ q.curr <= queue_tail(N)
      BY <1>1, <3>2, TailStep, TailFalls DEF Good, Laid
    <3>12. \A o \in Offsets : o >= queue_tail(left) => b[o] = HdrByte
      <4>1. \A o \in Offsets : o >= queue_tail(left) => o >= queue_tail(N) /\ ~(o < n)
        BY <1>1, <3>2, <3>11 DEF Offsets
      <4>2. \A o \in Offsets : o >= queue_tail(N) => q.buf[o] = HdrByte
        BY DEF Good, Laid
      <4> QED BY <4>1, <4>2 DEF b
    <3>13. \A i \in 1 .. left : hd[i].start + hd[i].size = IF i = left THEN n
                                                           ELSE hd[i + 1].start
      <4> SUFFICES ASSUME NEW i \in 1 .. left
                   PROVE  hd[i].start + hd[i].size = IF i = left THEN n ELSE hd[i + 1].start
        OBVIOUS
      <4> DEFINE m  == i + head - 1
                 st == q.hdr[m].start
                 sz == q.hdr[m].size
      <4>1. m \in 1 .. N /\ (m = N <=> i = left)
        BY <1>1, <2>4, <3>2
      <4>2. st + sz = IF m = N THEN q.curr ELSE q.hdr[m + 1].start
        BY <4>1 DEF Good, Laid
      <4>3. hd[i].start = st - z /\ hd[i].size = sz /\ st \in Nat /\ sz \in Nat
        BY <3>3, <3>4, MqttQueueAssumption DEF Sizes
      <4>4. CASE i = left
        <5>1. st + sz = q.curr
          BY <4>1, <4>2, <4>4
        <5> HIDE DEF st, sz
        <5>2. (st - z) + sz = n
          BY <3>2, <4>3, <5>1
        <5> QED BY <4>3, <4>4, <5>2
      <4>5. CASE i # left
        <5>1. i + 1 \in 1 .. left /\ (i + 1) + head - 1 = m + 1
          BY <2>4, <3>2, <4>5
        <5>2. hd[i + 1].start = q.hdr[m + 1].start - z
          BY <3>4, <5>1
        <5>3. st + sz = q.hdr[m + 1].start
          BY <4>1, <4>2, <4>5
        <5> HIDE DEF st, sz
        <5>4. (st - z) + sz = hd[i + 1].start
          BY <3>2, <4>3, <5>2, <5>3
        <5> QED BY <4>3, <4>5, <5>4
      <4> QED BY <4>4, <4>5
    <3>14. hd[1].start = 0
      <4>1. 1 \in 1 .. left /\ 1 + head - 1 = head
        BY <2>4, <3>2
      <4>2. hd[1].start = q.hdr[head].start - z
        BY <3>4, <4>1
      <4> QED BY <3>0, <3>2, <4>2
    <3>15. Laid(r)
      <4>1. n <= queue_tail(left)
        BY <1>1, <3>2, <3>11
      <4> QED BY <3>5, <3>6, <3>12, <3>13, <3>14, <4>1 DEF Laid
    <3>16. Rising(r)
      <4>1. ASSUME NEW i \in 1 .. left, NEW j \in 1 .. left, i <= j
            PROVE  hd[i].start <= hd[j].start
        <5> DEFINE a == q.hdr[i + head - 1].start
                   c == q.hdr[j + head - 1].start
        <5>1. i + head - 1 <= j + head - 1
          BY <2>4, <4>1
        <5>2. a <= c /\ a \in Nat /\ c \in Nat
          BY <3>3, <5>1 DEF Good, Rising
        <5>3. hd[i].start = a - z /\ hd[j].start = c - z
          BY <3>4
        <5> HIDE DEF a, c
        <5> QED BY <3>2, <5>2, <5>3
      <4> QED BY <3>4, <3>5, <3>6, <4>1 DEF Rising
    <3>17. Sized(r) /\ Empty(r)
      BY <3>5, <3>6 DEF Sized, Empty
    <3>18. Good(r)
      BY <3>10, <3>15, <3>16, <3>17 DEF Good
    <3>19. \A i \in 1 .. left : Message(r, i) = Message(q, i + head - 1)
      <4> SUFFICES ASSUME NEW i \in 1 .. left
                   PROVE  Message(r, i) = Message(q, i + head - 1)
        OBVIOUS
      <4> DEFINE st == q.hdr[i + head - 1].start
                 sz == q.hdr[i + head - 1].size
      <4>1. /\ r.hdr[i].start = st - z /\ r.hdr[i].size = sz
            /\ r.hdr[i].state = q.hdr[i + head - 1].state
        BY <3>4, <3>6
      <4>2. st \in Nat /\ sz \in Nat /\ z <= st /\ st + sz <= q.curr
        BY <3>3, MqttQueueAssumption DEF Sizes
      <4> HIDE DEF st, sz
      <4>3. \A k \in 1 .. sz : /\ (st - z) + k - 1 \in Offsets
                               /\ (st - z) + k - 1 < n
                               /\ ((st - z) + k - 1) + z = st + k - 1
        <5>1. z \in Nat /\ n \in Nat /\ n + z = q.curr /\ q.curr \in Nat /\ q.curr <= BufSize
              /\ BufSize \in Nat
          BY <1>1, <3>2
        <5> SUFFICES ASSUME NEW k \in 1 .. sz
                     PROVE  /\ (st - z) + k - 1 \in 0 .. BufSize - 1
                            /\ (st - z) + k - 1 < n
                            /\ ((st - z) + k - 1) + z = st + k - 1
          BY DEF Offsets
        <5> QED BY <4>2, <5>1
      <4>4. \A o \in Offsets : o < n => r.buf[o] = q.buf[o + z]
        BY <3>6 DEF b
      <4>5. \A k \in 1 .. sz : r.buf[(st - z) + k - 1] = q.buf[st + k - 1]
        BY <4>3, <4>4
      <4>6. Message(r, i) = [data  |-> [k \in 1 .. sz |-> r.buf[(st - z) + k - 1]],
                             state |-> q.hdr[i + head - 1].state]
        BY <4>1 DEF Message
      <4>7. Message(q, i + head - 1) = [data  |-> [k \in 1 .. sz |-> q.buf[st + k - 1]],
                                        state |-> q.hdr[i + head - 1].state]
        BY DEF Message, st, sz
      <4> QED BY <4>5, <4>6, <4>7
    <3>20. Abstract(r) = SubSeq(Abstract(q), head, N)
      <4> DEFINE Q == Abstract(q)
      <4>1. SubSeq(Q, head, N) = [i \in 1 .. left |-> Q[i + head - 1]]
        BY <1>1, <1>3, <2>4, <3>2 DEF left
      <4>2. \A i \in 1 .. left : Q[i + head - 1] = Message(q, i + head - 1)
        BY <1>3, <3>3
      <4>3. Abstract(r) = [i \in 1 .. left |-> Message(r, i)]
        BY <3>5, <3>6 DEF Abstract
      <4> QED BY <3>19, <4>1, <4>2, <4>3
    <3>21. \A i \in 1 .. head - 1 : q.hdr[i].state = "COMPLETE"
      <4> SUFFICES ASSUME NEW i \in 1 .. head - 1 PROVE q.hdr[i].state = "COMPLETE"
        OBVIOUS
      <4>1. i \in 1 .. N /\ i \in 1 .. i /\ ~(head <= i)
        BY <1>1, <2>4
      <4>2. i \notin S
        BY <2>3, <4>1
      <4> QED BY <4>1, <4>2 DEF Kept
    <3>22. head - 1 \in 1 .. N /\ (head - 1) + 1 = head
      BY <1>1, <2>4, <2>6
    <3> QED BY <1>3, <3>18, <3>20, <3>21, <3>22 DEF r
  <2> QED BY <2>5, <2>6
<1> QED BY <1>4, <1>5
-----------------------------------------------------------------------------
\* A message moves forward in the buffer as it does in the queue.
Moved(q, i, s) == [q EXCEPT !.hdr[i].state = s]

LEMMA SetStateGood ==
  ASSUME NEW q, Good(q), NEW i \in 1 .. Len(q.hdr), NEW s \in States
  PROVE  Good(Moved(q, i, s)) /\ Abstract(Moved(q, i, s)) = [Abstract(q) EXCEPT ![i].state = s]
<1> DEFINE r == Moved(q, i, s)
           e == [q.hdr[i] EXCEPT !.state = s]
           hd == [q.hdr EXCEPT ![i] = e]
           N == Len(q.hdr)
<1>1. /\ q.hdr \in Seq(Header) /\ N \in Nat /\ q.hdr[i] \in Header
      /\ q = [buf |-> q.buf, curr |-> q.curr, curr_sz |-> q.curr_sz, hdr |-> q.hdr]
  BY DEF Good, Typed
<1>2. e \in Header /\ e.start = q.hdr[i].start /\ e.size = q.hdr[i].size /\ e.state = s
  BY <1>1 DEF Header
<1>3. r = [q EXCEPT !.hdr = hd]
  BY DEF Moved
<1> HIDE DEF r, e
<1>4. /\ hd \in Seq(Header) /\ Len(hd) = N
      /\ \A j \in 1 .. N : hd[j] = IF j = i THEN e ELSE q.hdr[j]
  BY <1>1, <1>2, ExceptSeq
<1> HIDE DEF hd
<1>5. r.buf = q.buf /\ r.curr = q.curr /\ r.curr_sz = q.curr_sz /\ r.hdr = hd
  BY <1>1, <1>3
<1>6. \A j \in 1 .. N : /\ r.hdr[j].start = q.hdr[j].start
                        /\ r.hdr[j].size = q.hdr[j].size
                        /\ r.hdr[j].state = IF j = i THEN s ELSE q.hdr[j].state
  BY <1>2, <1>4, <1>5
<1>7. Typed(r)
  <2>1. r = [buf |-> q.buf, curr |-> q.curr, curr_sz |-> q.curr_sz, hdr |-> hd]
    BY <1>1, <1>3
  <2>2. /\ q.buf \in [Offsets -> Bytes \cup {HdrByte}]
        /\ q.curr \in 0 .. BufSize /\ q.curr_sz \in 0 .. BufSize
    BY DEF Good, Typed
  <2> QED BY <1>4, <2>1, <2>2 DEF Typed
<1>8. Laid(r)
  <2>1. \A j \in 1 .. N : j # N => j + 1 \in 1 .. N
    BY <1>1
  <2>2. \A j \in 1 .. N : r.hdr[j].start + r.hdr[j].size =
                             IF j = N THEN r.curr ELSE r.hdr[j + 1].start
    BY <1>5, <1>6, <2>1 DEF Good, Laid
  <2>3. N > 0 => r.hdr[1].start = 0
    BY <1>1, <1>6 DEF Good, Laid
  <2> QED BY <1>4, <1>5, <2>2, <2>3 DEF Good, Laid
<1>9. Rising(r)
  BY <1>4, <1>5, <1>6 DEF Good, Rising
<1>10. Sized(r) /\ Empty(r)
  <2>1. r.hdr # << >>
    BY <1>1, <1>4, <1>5
  <2> QED BY <1>4, <1>5, <2>1 DEF Good, Sized, Empty
<1>11. Abstract(r) = [Abstract(q) EXCEPT ![i].state = s]
  <2> DEFINE Q == Abstract(q)
  <2>1. Q = [j \in 1 .. N |-> Message(q, j)]
    BY DEF Abstract
  <2>2. \A j \in 1 .. N : Message(r, j) = [data |-> Message(q, j).data,
                                           state |-> IF j = i THEN s ELSE Message(q, j).state]
    BY <1>5, <1>6 DEF Message
  <2>3. \A j \in 1 .. N : Message(q, j) = [data |-> Message(q, j).data,
                                           state |-> Message(q, j).state]
    BY DEF Message
  <2>4. [Message(q, i) EXCEPT !.state = s] = [data |-> Message(q, i).data, state |-> s]
    BY <2>3
  <2>5. Abstract(r) = [j \in 1 .. N |-> Message(r, j)]
    BY <1>4, <1>5 DEF Abstract
  <2>6. [Q EXCEPT ![i].state = s] =
           [j \in 1 .. N |-> IF j = i THEN [Message(q, i) EXCEPT !.state = s] ELSE Message(q, j)]
    BY <2>1
  <2> QED BY <2>2, <2>3, <2>4, <2>5, <2>6
<1> QED BY <1>7, <1>8, <1>9, <1>10, <1>11 DEF Good, r
-----------------------------------------------------------------------------
LEMMA InitIInv == Init => IInv /\ Abstract(mq) = << >>
<1> SUFFICES ASSUME Init PROVE IInv /\ Abstract(mq) = << >>
  OBVIOUS
<1>1. PICK b \in Bytes : mq = mqtt_mq_init([o \in Offsets |-> b])
  BY DEF Init
<1>2. [o \in Offsets |-> b] \in [Offsets -> Bytes \cup {HdrByte}]
  OBVIOUS
<1> QED BY <1>1, <1>2, EmptyGood DEF Init, IInv

\* Every step keeps the invariant, and is a step of the abstract queue or none.
LEMMA StepGood ==
  ASSUME IInv, [Next]_vars
  PROVE  IInv' /\ [Queue!QNext]_(Abstract(mq))
<1> DEFINE Q == Abstract(mq)
<1>1. Good(mq) /\ mq.hdr \in Seq(Header) /\ Len(mq.hdr) \in Nat
  BY DEF IInv, Good, Typed
<1>2. Len(Q) = Len(mq.hdr) /\ DOMAIN Q = 1 .. Len(mq.hdr)
      /\ \A i \in 1 .. Len(mq.hdr) : Q[i].state = mq.hdr[i].state
  BY <1>1 DEF Abstract, Message
<1>3. Q = [i \in 1 .. Len(mq.hdr) |->
             [data  |-> [k \in 1 .. mq.hdr[i].size |-> mq.buf[mq.hdr[i].start + k - 1]],
              state |-> mq.hdr[i].state]]
  BY DEF Abstract, Message
<1>4. CASE \E d \in Data : TryPack(d)
  <2>1. PICK d \in Data : TryPack(d)
    BY <1>4
  <2> DEFINE q1 == IF Len(d) <= mq.curr_sz THEN mq ELSE mqtt_mq_clean(mq)
             r  == mqtt_mq_register(Packed(q1, d), Len(d))
             e  == [data |-> d, state |-> "UNSENT"]
  <2>2. IF Len(d) <= q1.curr_sz THEN mq' = r /\ full' = FALSE ELSE mq' = q1 /\ full' = TRUE
    BY <2>1 DEF TryPack
  <2>3. d \in Queue!Data
    BY DEF Data, Sizes, Queue!Data
  <2>4. /\ Good(q1)
        /\ \/ q1 = mq
           \/ \E k \in 1 .. Len(mq.hdr) : /\ \A i \in 1 .. k : mq.hdr[i].state = "COMPLETE"
                                          /\ Abstract(q1) = SubSeq(Q, k + 1, Len(Q))
    BY <1>1, CleanGood
  <2> HIDE DEF q1, Q
  <2>5. Len(d) <= q1.curr_sz => Good(r) /\ Abstract(r) = Append(Abstract(q1), e)
    BY <2>4, RegisterGood
  <2> HIDE DEF r, e
  <2>6. IInv'
    BY <2>2, <2>4, <2>5 DEF IInv
  <2>7. CASE q1 = mq
    <3>1. CASE Len(d) <= q1.curr_sz
      <4>1. Q' = Append(Q, e)
        BY <2>2, <2>5, <2>7, <3>1 DEF Q
      <4> QED BY <2>3, <2>6, <4>1 DEF Queue!QNext, Queue!Stage, e, Q, Abstract, Message
    <3>2. CASE ~(Len(d) <= q1.curr_sz)
      <4>1. Q' = Q
        BY <2>2, <2>7, <3>2 DEF Q
      <4> QED BY <2>6, <4>1 DEF Q
    <3> QED BY <3>1, <3>2
  <2>8. CASE \E k \in 1 .. Len(mq.hdr) : /\ \A i \in 1 .. k : mq.hdr[i].state = "COMPLETE"
                                         /\ Abstract(q1) = SubSeq(Q, k + 1, Len(Q))
    <3>1. PICK k \in 1 .. Len(mq.hdr) : /\ \A i \in 1 .. k : mq.hdr[i].state = "COMPLETE"
                                        /\ Abstract(q1) = SubSeq(Q, k + 1, Len(Q))
      BY <2>8
    <3>2. Q' = SubSeq(Q, k + 1, Len(Q)) \/ Q' = Append(SubSeq(Q, k + 1, Len(Q)), e)
      BY <2>2, <2>5, <3>1 DEF Q
    <3>3. k \in 1 .. Len(Q) /\ \A i \in 1 .. k : Q[i].state = "COMPLETE"
      <4>1. \A i \in 1 .. k : i \in 1 .. Len(mq.hdr)
        BY <1>1
      <4> QED BY <1>2, <3>1, <4>1
    <3>4. Queue!Drop(k)
      BY <2>3, <3>2, <3>3 DEF Queue!Drop, e, Q, Abstract, Message
    <3>5. Queue!QNext
      BY <3>3, <3>4 DEF Queue!QNext, Q, Abstract, Message
    <3> QED BY <2>6, <3>5
  <2> QED BY <2>4, <2>7, <2>8
<1>5. CASE \E i \in 1 .. Len(mq.hdr), s \in States : SetState(i, s)
  <2>1. PICK i \in 1 .. Len(mq.hdr), s \in States : SetState(i, s)
    BY <1>5
  <2>2. Good(mq') /\ Abstract(mq') = [Q EXCEPT ![i].state = s]
    <3> HIDE DEF Q
    <3>1. mq' = Moved(mq, i, s)
      BY <2>1 DEF SetState, Moved
    <3> QED BY <1>1, <3>1, SetStateGood DEF Q
  <2>3. Q' = [Q EXCEPT ![i].state = s]
    BY <2>2
  <2>4. IInv'
    BY <2>1, <2>2 DEF IInv, SetState
  <2> HIDE DEF Q
  <2>5. i \in 1 .. Len(Q) /\ Q[i].state # "COMPLETE" /\ s # "UNSENT" /\ s \in Queue!States
    BY <1>2, <2>1 DEF SetState, States, Queue!States
  <2>6. Queue!Advance(i, s)
    BY <2>3, <2>5 DEF Queue!Advance, Q, Abstract, Message
  <2> QED BY <2>4, <2>5, <2>6 DEF Queue!QNext, Q, Abstract, Message
<1>6. CASE UNCHANGED vars
  BY <1>6 DEF vars, IInv, Abstract, Message
<1> QED BY <1>4, <1>5, <1>6 DEF Next

LEMMA IInvHolds == Spec => []IInv
<1>1. Init => IInv
  BY InitIInv
<1>2. IInv /\ [Next]_vars => IInv'
  BY StepGood
<1> QED BY <1>1, <1>2, PTL DEF Spec

\* The offsets, sizes and headers of the send buffer stay in their ranges.
THEOREM TypeCorrect == Spec => []TypeOK
<1>1. IInv => TypeOK
  BY DEF IInv, Good, Typed, TypeOK
<1> QED BY <1>1, IInvHolds, PTL

\* Whatever is packed, answered and cleaned, the messages lie one after the
\* other from the start of the buffer and no header is overwritten, for every
\* size of the buffer, of the headers and of the messages (mqtt.c:1625-1684).
THEOREM HeadersIntactHolds == Spec => []HeadersIntact
<1>1. IInv => HeadersIntact
  BY DEF IInv, Good, Laid, HeadersIntact
<1> QED BY <1>1, IInvHolds, PTL

\* The buffer with its memmove and its two growing ends implements a queue of
\* messages (mqtt.c:1612-1684).
THEOREM MessagesKeptHolds == Spec => MessagesKept
<1>1. Init => Queue!QInit
  BY InitIInv DEF Queue!QInit, Abstract, Message
<1>2. IInv /\ [Next]_vars =>
        [Queue!QNext]_([i \in 1 .. Len(mq.hdr) |->
                       [data  |-> [k \in 1 .. mq.hdr[i].size |-> mq.buf[mq.hdr[i].start + k - 1]],
                        state |-> mq.hdr[i].state]])
  BY StepGood DEF Abstract, Message
<1> QED BY <1>1, <1>2, IInvHolds, PTL DEF Spec, MessagesKept, Queue!QSpec
=============================================================================
