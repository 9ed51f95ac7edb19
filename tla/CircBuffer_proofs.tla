-------------------------- MODULE CircBuffer_proofs --------------------------
(***************************************************************************)
(* Proofs about CircBuffer, for any set of buffers, any size and any set   *)
(* of sample values.                                                       *)
(***************************************************************************)
EXTENDS CircBuffer, TLAPS

\* Sums of two indices, which wrap at most once.
Sums == 0 .. 2 * Size - 1
Wrapped(n) == IF n < Size THEN n ELSE n - Size

LEMMA WrapOnce == \A n \in Sums : n % Size = Wrapped(n)
<1> SUFFICES ASSUME NEW n \in 0 .. 2 * Size - 1
             PROVE  n % Size = IF n < Size THEN n ELSE n - Size
  BY DEF Sums, Wrapped
<1>1. Size \in Nat /\ Size > 0 /\ n \in Nat
  BY CircBufferAssumption
<1>2. CASE n < Size
  BY <1>1, <1>2
<1>3. CASE n >= Size
  <2>1. n - Size \in 0 .. Size - 1 /\ n = 1 * Size + (n - Size)
    BY <1>1, <1>3
  <2> QED BY <1>1, <1>3, <2>1
<1> QED BY <1>1, <1>2, <1>3

\* The facts about one buffer that FieldsAgree states of each.
Agree(b) == /\ b \in Buffers
            /\ b.empty <=> b.n_el = 0
            /\ b.full <=> b.n_el = Size
            /\ b.full => b.head = b.tail
            /\ ~b.full => b.tail = 0 /\ b.head = b.n_el

\* What CB_put makes of the fields while there is room.
LEMMA PutRoom ==
  ASSUME NEW b, Agree(b), ~b.full, NEW d \in Byte
  PROVE  LET p == CB_put(b, d) IN
         /\ Agree(p)
         /\ p.n_el = b.n_el + 1
         /\ p.tail = 0 /\ b.tail = 0
         /\ p.buf = [b.buf EXCEPT ![b.n_el] = d]
<1> DEFINE p == CB_put(b, d)
           h == (b.head + 1) % Size
<1>1. /\ Size \in Nat /\ Size > 0 /\ b.n_el \in 0 .. Size /\ b.n_el # Size
      /\ b.head = b.n_el /\ b.tail = 0 /\ b.full = FALSE /\ b.buf \in [Index -> Byte]
  BY CircBufferAssumption DEF Agree, Buffers
<1>2. h = IF b.n_el + 1 < Size THEN b.n_el + 1 ELSE 0
  <2>1. b.head + 1 \in Sums
    BY <1>1 DEF Sums
  <2>2. h = Wrapped(b.head + 1)
    BY <2>1, WrapOnce
  <2> QED BY <1>1, <2>2 DEF Wrapped
<1>3. p = [buf |-> [b.buf EXCEPT ![b.head] = d], n_el |-> b.n_el + 1, head |-> h,
           tail |-> b.tail, empty |-> FALSE, full |-> h = b.tail]
  BY <1>1 DEF CB_put, Agree, Buffers
<1> HIDE DEF p, h
<1>4. p.empty = FALSE /\ (p.full <=> h = 0) /\ p.n_el = b.n_el + 1 /\ p.head = h
      /\ p.tail = 0 /\ p.buf = [b.buf EXCEPT ![b.n_el] = d]
  BY <1>1, <1>3
<1>5. p \in Buffers
  BY <1>1, <1>2, <1>3 DEF Buffers, Index
<1>6. Agree(p)
  BY <1>1, <1>2, <1>4, <1>5 DEF Agree
<1> QED BY <1>1, <1>4, <1>6 DEF p

\* And what it makes of them when the oldest sample is overwritten.
LEMMA PutFull ==
  ASSUME NEW b, Agree(b), b.full, NEW d \in Byte
  PROVE  LET p == CB_put(b, d) IN
         /\ Agree(p)
         /\ p.n_el = Size /\ b.n_el = Size
         /\ b.tail \in Index /\ p.tail = (b.tail + 1) % Size
         /\ p.buf = [b.buf EXCEPT ![b.tail] = d]
<1> DEFINE p == CB_put(b, d)
           h == (b.head + 1) % Size
<1>1. /\ Size \in Nat /\ Size > 0 /\ b.n_el = Size /\ b.head = b.tail
      /\ b.tail \in Index /\ b.full = TRUE /\ b.buf \in [Index -> Byte]
  BY CircBufferAssumption DEF Agree, Buffers
<1>2. h \in Index
  BY <1>1 DEF Index
<1>3. p = [buf |-> [b.buf EXCEPT ![b.head] = d], n_el |-> b.n_el, head |-> h,
           tail |-> h, empty |-> FALSE, full |-> TRUE]
  BY <1>1 DEF CB_put, Agree, Buffers
<1>4. p \in Buffers
  BY <1>1, <1>2, <1>3 DEF Buffers
<1> HIDE DEF p
<1>5. Agree(p)
  BY <1>1, <1>3, <1>4 DEF Agree
<1>6. /\ p.n_el = Size /\ p.tail = (b.tail + 1) % Size
      /\ p.buf = [b.buf EXCEPT ![b.tail] = d]
  BY <1>1, <1>3
<1> QED BY <1>1, <1>5, <1>6 DEF p
-----------------------------------------------------------------------------
LEMMA SamplesSeq ==
  ASSUME NEW b, Agree(b)
  PROVE  /\ Samples(b) \in Seq(Byte) /\ Len(Samples(b)) = b.n_el
         /\ \A i \in 1 .. b.n_el : /\ (b.tail + i - 1) % Size \in Index
                                  /\ Samples(b)[i] = b.buf[(b.tail + i - 1) % Size]
<1>1. /\ Size \in Nat /\ Size > 0 /\ b.n_el \in Nat /\ b.tail \in Nat
      /\ b.buf \in [Index -> Byte]
  BY CircBufferAssumption DEF Agree, Buffers, Index
<1>2. ASSUME NEW i \in 1 .. b.n_el PROVE (b.tail + i - 1) % Size \in Index
  BY <1>1 DEF Index
<1> QED BY <1>1, <1>2 DEF Samples

\* CB_put slides the window by one sample.
LEMMA PutSlides ==
  ASSUME NEW b, Agree(b), NEW d \in Byte
  PROVE  Agree(CB_put(b, d)) /\ Samples(CB_put(b, d)) = Window!Slide(Samples(b), d)
<1> DEFINE p == CB_put(b, d)
           w == Samples(b)
<1>0. /\ Size \in Nat /\ Size > 0 /\ b.n_el \in 0 .. Size /\ b.tail \in Index
      /\ b.buf \in [Index -> Byte]
  BY CircBufferAssumption DEF Agree, Buffers
<1>1. /\ w \in Seq(Byte) /\ Len(w) = b.n_el
      /\ \A i \in 1 .. b.n_el : /\ (b.tail + i - 1) % Size \in Index
                               /\ w[i] = b.buf[(b.tail + i - 1) % Size]
  BY SamplesSeq
<1> HIDE DEF w, p
<1>2. CASE ~b.full
  <2>1. /\ Agree(p) /\ p.n_el = b.n_el + 1 /\ p.tail = 0 /\ b.tail = 0
        /\ p.buf = [b.buf EXCEPT ![b.n_el] = d] /\ b.n_el < Size
    BY <1>0, <1>2, PutRoom DEF p, Agree
  <2>2. /\ Samples(p) \in Seq(Byte) /\ Len(Samples(p)) = b.n_el + 1
        /\ \A i \in 1 .. b.n_el + 1 : Samples(p)[i] = p.buf[(i - 1) % Size]
    <3>1. /\ Samples(p) \in Seq(Byte) /\ Len(Samples(p)) = p.n_el
          /\ \A i \in 1 .. p.n_el : Samples(p)[i] = p.buf[(p.tail + i - 1) % Size]
      BY <2>1, SamplesSeq
    <3>2. \A i \in 1 .. b.n_el + 1 : p.tail + i - 1 = i - 1
      BY <1>0, <2>1
    <3> QED BY <2>1, <3>1, <3>2
  <2>3. ASSUME NEW i \in 1 .. b.n_el + 1 PROVE Samples(p)[i] = Append(w, d)[i]
    <3>1. (i - 1) % Size = i - 1
      <4>1. i - 1 \in Sums /\ i - 1 < Size
        BY <1>0, <2>1 DEF Sums
      <4> QED BY <4>1, WrapOnce DEF Wrapped
    <3>2. CASE i = b.n_el + 1
      <4>1. b.n_el \in Index /\ i - 1 = b.n_el
        BY <1>0, <2>1, <3>2 DEF Index
      <4>2. p.buf[b.n_el] = d
        BY <1>0, <2>1, <4>1
      <4>3. Append(w, d)[i] = d
        BY <1>1, <3>2
      <4> QED BY <2>2, <3>1, <4>1, <4>2, <4>3
    <3>3. CASE i # b.n_el + 1
      <4>1. i \in 1 .. b.n_el /\ w[i] = b.buf[i - 1] /\ i - 1 # b.n_el
        BY <1>0, <1>1, <2>1, <3>1, <3>3
      <4> QED BY <1>0, <1>1, <2>1, <2>2, <3>1, <4>1 DEF Index
    <3> QED BY <3>2, <3>3
  <2>4. Append(w, d) \in Seq(Byte) /\ Len(Append(w, d)) = b.n_el + 1
    BY <1>1
  <2>5. Samples(p) = Append(w, d)
    BY <2>2, <2>3, <2>4
  <2> QED BY <1>1, <2>1, <2>5 DEF Window!Slide, p, w
<1>3. CASE b.full
  <2>1. /\ Agree(p) /\ p.n_el = Size /\ b.n_el = Size
        /\ p.tail = (b.tail + 1) % Size
        /\ p.buf = [b.buf EXCEPT ![b.tail] = d]
    BY <1>3, PutFull DEF p
  <2>2. /\ Samples(p) \in Seq(Byte) /\ Len(Samples(p)) = Size
        /\ \A i \in 1 .. Size : Samples(p)[i] = p.buf[(p.tail + i - 1) % Size]
    BY <2>1, SamplesSeq
  <2>3. w # <<>> /\ Tail(w) \in Seq(Byte) /\ Len(Tail(w)) = Size - 1
    BY <1>0, <1>1, <2>1
  <2>4. Append(Tail(w), d) \in Seq(Byte) /\ Len(Append(Tail(w), d)) = Size
    BY <1>0, <2>3
  <2>5. ASSUME NEW i \in 1 .. Size PROVE Samples(p)[i] = Append(Tail(w), d)[i]
    <3> DEFINE t == IF b.tail + 1 < Size THEN b.tail + 1 ELSE 0
    <3>1. p.tail = t /\ t \in Nat /\ t <= Size - 1
      <4>1. b.tail + 1 \in Sums
        BY <1>0 DEF Sums, Index
      <4>2. (b.tail + 1) % Size = Wrapped(b.tail + 1)
        BY <4>1, WrapOnce
      <4>3. p.tail = t
        BY <1>0, <2>1, <4>2 DEF Wrapped, Index
      <4> QED BY <1>0, <4>3 DEF Index
    <3> HIDE DEF t
    <3> DEFINE m == (t + i - 1) % Size
               k == (b.tail + i) % Size
    <3>2. m = IF t + i - 1 < Size THEN t + i - 1 ELSE t + i - 1 - Size
      <4>1. t + i - 1 \in Sums
        BY <1>0, <3>1 DEF Sums
      <4>2. m = Wrapped(t + i - 1)
        BY <4>1, WrapOnce
      <4> HIDE DEF m
      <4> QED BY <1>0, <3>1, <4>2 DEF Wrapped
    <3>3. CASE i = Size
      <4> HIDE DEF m
      <4>1. m = b.tail
        BY <1>0, <3>1, <3>2, <3>3 DEF Index, t
      <4>2. Samples(p)[i] = p.buf[m]
        BY <2>2, <3>1 DEF m
      <4>3. p.buf[b.tail] = d
        BY <1>0, <2>1
      <4>4. Append(Tail(w), d)[i] = d
        BY <1>0, <2>3, <3>3
      <4> QED BY <4>1, <4>2, <4>3, <4>4
    <3>4. CASE i # Size
      <4>1. k = IF b.tail + i < Size THEN b.tail + i ELSE b.tail + i - Size
        <5>1. b.tail + i \in Sums
          BY <1>0, <3>4 DEF Index, Sums
        <5>2. k = Wrapped(b.tail + i)
          BY <5>1, WrapOnce
        <5> HIDE DEF k
        <5> QED BY <1>0, <5>2 DEF Wrapped, Index
      <4>2. m = k /\ k # b.tail
        <5> HIDE DEF m, k
        <5>1. b.tail \in Nat /\ b.tail <= Size - 1 /\ i \in Nat /\ 1 <= i /\ i < Size
          BY <1>0, <3>4 DEF Index
        <5>2. CASE b.tail + 1 < Size
          <6>1. t = b.tail + 1
            BY <5>2 DEF t
          <6> QED BY <1>0, <3>2, <4>1, <5>1, <6>1
        <5>3. CASE b.tail + 1 = Size
          <6>1. t = 0
            BY <1>0, <5>1, <5>3 DEF t
          <6> QED BY <1>0, <3>2, <4>1, <5>1, <5>3, <6>1
        <5> QED BY <1>0, <5>1, <5>2, <5>3
      <4>3. i + 1 \in 1 .. b.n_el /\ b.tail + (i + 1) - 1 = b.tail + i
        BY <1>0, <2>1, <3>4 DEF Index
      <4>4. w[i + 1] = b.buf[(b.tail + i) % Size] /\ (b.tail + i) % Size \in Index
        BY <1>1, <4>3
      <4>5. Append(Tail(w), d)[i] = w[i + 1]
        BY <1>0, <1>1, <2>3, <3>4
      <4>6. Samples(p)[i] = p.buf[(b.tail + i) % Size]
        BY <2>2, <3>1, <4>2
      <4> QED BY <1>0, <2>1, <4>2, <4>4, <4>5, <4>6
    <3> QED BY <3>3, <3>4
  <2>6. Samples(p) = Append(Tail(w), d)
    BY <2>2, <2>4, <2>5
  <2> QED BY <1>0, <1>1, <2>1, <2>6 DEF Window!Slide, p, w
<1> QED BY <1>2, <1>3

\* send_CB writes the window padded with its newest sample: nothing of what
\* the shared array held before is left.
LEMMA SendPads ==
  ASSUME NEW b, Agree(b), b.n_el # 0, NEW out
  PROVE  /\ pad(CB_get_data(b, out), b.n_el) = Window!Padded(Samples(b))
         /\ pad(CB_get_data(b, out), b.n_el) \in [Index -> Byte]
<1> DEFINE got == CB_get_data(b, out)
           w == Samples(b)
<1>1. /\ Size \in Nat /\ Size > 0 /\ b.n_el \in 1 .. Size /\ b.tail \in Nat /\ ~b.empty
  BY CircBufferAssumption DEF Agree, Buffers, Index
<1>2. /\ w \in Seq(Byte) /\ Len(w) = b.n_el
      /\ \A i \in 1 .. b.n_el : w[i] = b.buf[(b.tail + i - 1) % Size]
  BY SamplesSeq
<1>3. ASSUME NEW i \in Index, i < b.n_el PROVE got[i] = w[i + 1] /\ w[i + 1] \in Byte
  <2>1. i + 1 \in 1 .. b.n_el /\ b.tail + (i + 1) - 1 = b.tail + i
    BY <1>1, <1>3 DEF Index
  <2>2. w[i + 1] = b.buf[(b.tail + i) % Size] /\ w[i + 1] \in Byte
    BY <1>2, <2>1
  <2>3. got[i] = b.buf[(b.tail + i) % Size]
    BY <1>1, <1>3 DEF CB_get_data
  <2> QED BY <2>2, <2>3
<1>4. b.n_el - 1 \in Index /\ b.n_el - 1 < b.n_el /\ b.n_el - 1 + 1 = b.n_el
  BY <1>1 DEF Index
<1>5. got[b.n_el - 1] = w[b.n_el] /\ w[b.n_el] \in Byte
  BY <1>3, <1>4
<1> HIDE DEF got, w
<1>6. \A i \in Index : pad(got, b.n_el)[i] = IF i < b.n_el THEN w[i + 1] ELSE w[b.n_el]
  BY <1>3, <1>5 DEF pad
<1>7. pad(got, b.n_el) = Window!Padded(w)
  BY <1>2, <1>6 DEF pad, Window!Padded, Index
<1>8. pad(got, b.n_el) \in [Index -> Byte]
  BY <1>3, <1>5, <1>6 DEF pad
<1> QED BY <1>7, <1>8 DEF got, w
-----------------------------------------------------------------------------
BInv == BTypeOK /\ FieldsAgree

LEMMA AgreeAll == BInv <=> /\ cb \in [Cbs -> Buffers]
                           /\ \A c \in Cbs : Agree(cb[c])
                           /\ cb_data \in [Index -> Byte]
                           /\ columns \in [Cbs -> [Index -> Byte]]
BY DEF BInv, BTypeOK, FieldsAgree, Agree

LEMMA InitBInv == BInit => BInv
<1> SUFFICES ASSUME BInit PROVE BInv
  OBVIOUS
<1>0. Size \in Nat /\ Size > 0 /\ 0 \in Byte
  BY CircBufferAssumption
<1>1. ASSUME NEW s \in [Index -> Byte] PROVE Agree(CB_new_circ_buff(s))
  BY <1>0 DEF CB_new_circ_buff, Agree, Buffers, Index
<1>2. \A c \in Cbs : Agree(cb[c])
  BY <1>1 DEF BInit
<1>3. cb \in [Cbs -> Buffers]
  <2>1. ASSUME NEW s \in [Index -> Byte] PROVE CB_new_circ_buff(s) \in Buffers
    BY <1>1 DEF Agree
  <2> QED BY <2>1 DEF BInit
<1> QED BY <1>0, <1>2, <1>3, AgreeAll DEF BInit

\* One sample: the fields stay in agreement and the window slides.
LEMMA SampleStep ==
  ASSUME BInv, NEW c \in Cbs, NEW d \in Byte, Sample(c, d)
  PROVE  /\ BInv'
         /\ Window!Sample(c, d)
<1> DEFINE b == CB_put(cb[c], d)
           out == pad(CB_get_data(b, cb_data), b.n_el)
<1>1. /\ cb \in [Cbs -> Buffers] /\ \A x \in Cbs : Agree(cb[x])
      /\ columns \in [Cbs -> [Index -> Byte]]
  BY AgreeAll
<1>2. /\ cb' = [cb EXCEPT ![c] = b] /\ cb_data' = out
      /\ columns' = [columns EXCEPT ![c] = out]
  BY DEF Sample
<1>3. Agree(b) /\ Samples(b) = Window!Slide(Samples(cb[c]), d)
  BY <1>1, PutSlides
<1>4. b.n_el # 0
  <2>1. b.empty = FALSE
    BY DEF CB_put
  <2> QED BY <1>3, <2>1 DEF Agree
<1>5. out = Window!Padded(Samples(b)) /\ out \in [Index -> Byte]
  BY <1>3, <1>4, SendPads
<1> HIDE DEF b, out
<1>6. BInv'
  <2>1. b \in Buffers
    BY <1>3 DEF Agree
  <2>2. cb' \in [Cbs -> Buffers] /\ \A x \in Cbs : Agree(cb'[x])
    BY <1>1, <1>2, <1>3, <2>1
  <2>3. cb_data' \in [Index -> Byte] /\ columns' \in [Cbs -> [Index -> Byte]]
    BY <1>1, <1>2, <1>5
  <2> QED BY <2>2, <2>3 DEF BInv, BTypeOK, FieldsAgree, Agree
<1>7. Window!Sample(c, d)
  <2> DEFINE win == [x \in Cbs |-> Samples(cb[x])]
             winNext == [x \in Cbs |-> Samples(cb'[x])]
  <2>1. winNext = [win EXCEPT ![c] = Window!Slide(win[c], d)]
    BY <1>1, <1>2, <1>3
  <2>2. columns' = [columns EXCEPT ![c] = Window!Padded(Window!Slide(win[c], d))]
    BY <1>2, <1>3, <1>5
  <2> QED BY <2>1, <2>2 DEF Window!Sample
<1> QED BY <1>6, <1>7

\* The fields of every buffer stay in their types and in agreement: the flags,
\* the count and the two indices never contradict each other.
THEOREM FieldsCorrect == BSpec => [](BTypeOK /\ FieldsAgree)
<1>1. BInit => BInv
  BY InitBInv
<1>2. BInv /\ [BNext]_bvars => BInv'
  <2> SUFFICES ASSUME BInv, [BNext]_bvars PROVE BInv'
    OBVIOUS
  <2>1. ASSUME NEW c \in Cbs, NEW d \in Byte, Sample(c, d) PROVE BInv'
    BY <2>1, SampleStep
  <2>2. CASE UNCHANGED bvars
    BY <2>2 DEF bvars, BInv, BTypeOK, FieldsAgree
  <2> QED BY <2>1, <2>2 DEF BNext
<1>3. BInv => BTypeOK /\ FieldsAgree
  BY DEF BInv
<1> QED BY <1>1, <1>2, <1>3, PTL DEF BSpec

\* No index leaves the array and no count exceeds it, whatever the size.
THEOREM BTypeCorrect == BSpec => []BTypeOK
  BY FieldsCorrect, PTL

\* The ring buffers with their shared array implement SlidingWindow.
THEOREM Slides == BSpec => SlidingWindows
<1>1. BInit => BInv /\ Window!WInit
  <2> SUFFICES ASSUME BInit PROVE BInv /\ Window!WInit
    OBVIOUS
  <2>1. BInv
    BY InitBInv
  <2>2. ASSUME NEW c \in Cbs PROVE Samples(cb[c]) = <<>>
    <3>1. Agree(cb[c]) /\ cb[c].n_el = 0
      BY <2>1, AgreeAll DEF BInit, CB_new_circ_buff
    <3>2. Samples(cb[c]) \in Seq(Byte) /\ Len(Samples(cb[c])) = 0
      BY <3>1, SamplesSeq
    <3> QED BY <3>2
  <2>3. Window!WInit
    BY <2>2 DEF BInit, Window!WInit, Index
  <2> QED BY <2>1, <2>3
<1>2. BInv /\ [BNext]_bvars => BInv' /\ [Window!WNext]_Window!wvars
  <2> SUFFICES ASSUME BInv, [BNext]_bvars PROVE BInv' /\ [Window!WNext]_Window!wvars
    OBVIOUS
  <2>1. ASSUME NEW c \in Cbs, NEW d \in Byte, Sample(c, d)
        PROVE  BInv' /\ Window!WNext
    BY <2>1, SampleStep DEF Window!WNext
  <2>2. CASE UNCHANGED bvars
    BY <2>2 DEF bvars, BInv, BTypeOK, FieldsAgree, Window!wvars
  <2> QED BY <2>1, <2>2 DEF BNext
<1> QED BY <1>1, <1>2, PTL DEF BSpec, SlidingWindows, Window!WSpec
=============================================================================
