------------------------- MODULE MqttRecv_proofs -------------------------
(***************************************************************************)
(* Proofs about MqttRecv: for any base of the length's digits, any size of *)
(* the receive buffer, any packets and any pieces they arrive in.          *)
(*                                                                         *)
(* Digits, Number and Stream are recursive.  The provers cannot            *)
(* instantiate the library's theorems about recursion and induction, whose *)
(* parameters are operators; CompleteInduction and Recursion are the same  *)
(* facts with a set and with functions as parameters.                      *)
(***************************************************************************)
EXTENDS MqttRecv, WellFoundedInduction, SequenceTheorems, TLAPS

\* What holds of a natural number whenever it holds of all below it holds of all.
LEMMA CompleteInduction ==
  ASSUME NEW S, \A n \in Nat : (\A k \in Nat : k < n => k \in S) => n \in S
  PROVE  \A n \in Nat : n \in S
<1> DEFINE B == Nat \ S
<1> SUFFICES ASSUME B # {} PROVE FALSE
  OBVIOUS
<1>1. PICK n \in B : \A y \in B : ~(<<y, n>> \in OpToRel(<, Nat))
  BY NatLessThanWellFounded, WFMin
<1>2. \A y \in B : ~(y < n)
  BY <1>1 DEF OpToRel
<1> QED BY <1>2

\* A function may be defined by recursion along pred when that lowers the
\* measure m.
Descends(D, T, m, pred, base, step) ==
    /\ m \in [D -> Nat] /\ pred \in [D -> D] /\ base \in [D -> T] /\ step \in [D \X T -> T]
    /\ \A d \in D : m[d] > 0 => m[pred[d]] < m[d]
Defined(D, T, m, pred, base, step) ==
    \E f \in [D -> T] : \A d \in D : f[d] = IF m[d] = 0 THEN base[d] ELSE step[<<d, f[pred[d]]>>]

LEMMA Recursion ==
  ASSUME NEW D, NEW T, NEW m, NEW pred, NEW base, NEW step, Descends(D, T, m, pred, base, step)
  PROVE  Defined(D, T, m, pred, base, step)
<1>0. /\ m \in [D -> Nat] /\ pred \in [D -> D] /\ base \in [D -> T] /\ step \in [D \X T -> T]
      /\ \A d \in D : m[d] > 0 => m[pred[d]] < m[d]
  BY DEF Descends
<1> DEFINE Low(n) == {d \in D : m[d] <= n}
           Val(f, d) == IF m[d] = 0 THEN base[d] ELSE step[<<d, f[pred[d]]>>]
           Solves(f, n) == f \in [Low(n) -> T] /\ \A d \in Low(n) : f[d] = Val(f, d)
<1>1. \A d \in D : m[d] \in Nat /\ pred[d] \in D
  BY <1>0
<1>2. \A n \in Nat : \A d \in Low(n) : m[d] > 0 => /\ pred[d] \in Low(n) /\ pred[d] \in Low(n - 1)
                                               /\ n # 0
  BY <1>0, <1>1
<1>3. ASSUME NEW n \in Nat, NEW k \in Nat, NEW f, NEW g, Solves(f, n), Solves(g, k)
      PROVE  \A d \in Low(n) \cap Low(k) : f[d] = g[d]
  <2> DEFINE S == {i \in Nat : \A d \in Low(n) \cap Low(k) : m[d] = i => f[d] = g[d]}
  <2>1. ASSUME NEW i \in Nat, \A j \in Nat : j < i => j \in S
        PROVE  i \in S
    <3> SUFFICES ASSUME NEW d \in Low(n) \cap Low(k), m[d] = i PROVE f[d] = g[d]
      OBVIOUS
    <3>1. f[d] = Val(f, d) /\ g[d] = Val(g, d)
      BY <1>3
    <3>2. CASE m[d] = 0
      BY <3>1, <3>2
    <3>3. CASE m[d] > 0
      <4>1. pred[d] \in Low(n) \cap Low(k) /\ m[pred[d]] \in Nat /\ m[pred[d]] < i
        BY <1>1, <1>2, <3>3
      <4>2. f[pred[d]] = g[pred[d]]
        BY <2>1, <4>1
      <4> QED BY <3>1, <4>2
    <3> QED BY <1>1, <3>2, <3>3
  <2> HIDE DEF S
  <2>2. \A i \in Nat : i \in S
    BY <2>1, CompleteInduction
  <2> QED BY <1>1, <2>2 DEF S
<1>4. \A n \in Nat : \E f : Solves(f, n)
  <2> DEFINE S == {n \in Nat : \E f : Solves(f, n)}
  <2>1. ASSUME NEW n \in Nat, \A k \in Nat : k < n => k \in S
        PROVE  n \in S
    <3>1. CASE n = 0
      <4> DEFINE f == [d \in Low(n) |-> base[d]]
      <4>1. \A d \in Low(n) : d \in D /\ m[d] = 0
        BY <1>1, <3>1
      <4>2. Solves(f, n)
        BY <1>0, <4>1
      <4> QED BY <4>2
    <3>2. CASE n > 0
      <4>1. n - 1 \in Nat /\ n - 1 < n
        BY <3>2
      <4>2. PICK g : Solves(g, n - 1)
        BY <2>1, <4>1
      <4> DEFINE f == [d \in Low(n) |-> Val(g, d)]
      <4>3. \A d \in Low(n) : m[d] > 0 => pred[d] \in Low(n - 1) /\ pred[d] \in Low(n)
        BY <1>2
      <4>4. \A d \in Low(n - 1) : g[d] \in T /\ g[d] = Val(g, d)
        BY <4>2
      <4>5. \A d \in Low(n) : Val(g, d) \in T
        <5> SUFFICES ASSUME NEW d \in Low(n) PROVE Val(g, d) \in T
          OBVIOUS
        <5>1. CASE m[d] = 0
          BY <1>0, <5>1
        <5>2. CASE m[d] > 0
          <6>1. g[pred[d]] \in T
            BY <5>2, <4>3, <4>4
          <6> QED BY <1>0, <6>1, <5>2
        <5> QED BY <1>1, <5>1, <5>2
      <4>6. \A d \in Low(n) : f[d] = Val(f, d)
        <5> SUFFICES ASSUME NEW d \in Low(n) PROVE f[d] = Val(f, d)
          OBVIOUS
        <5>1. f[d] = Val(g, d)
          OBVIOUS
        <5>2. CASE m[d] = 0
          BY <5>1, <5>2
        <5>3. CASE m[d] > 0
          <6>1. f[pred[d]] = Val(g, pred[d]) /\ g[pred[d]] = Val(g, pred[d])
            BY <5>3, <4>3, <4>4
          <6> QED BY <6>1, <5>1
        <5> QED BY <1>1, <5>2, <5>3
      <4>7. Solves(f, n)
        BY <4>5, <4>6
      <4> QED BY <4>7
    <3> HIDE DEF S
    <3> QED BY <3>1, <3>2
  <2> HIDE DEF S
  <2>2. \A n \in Nat : n \in S
    BY <2>1, CompleteInduction
  <2> QED BY <2>2 DEF S
<1> DEFINE F(n) == CHOOSE f : Solves(f, n)
           h == [d \in D |-> F(m[d])[d]]
<1>5. \A n \in Nat : Solves(F(n), n)
  BY <1>4
<1> HIDE DEF F
<1>6. \A d \in D : d \in Low(m[d])
  BY <1>1
<1>7. h \in [D -> T]
  <2>1. \A d \in D : F(m[d])[d] \in T
    BY <1>1, <1>5, <1>6
  <2> QED BY <2>1
<1>8. \A d \in D : h[d] = Val(h, d)
  <2> SUFFICES ASSUME NEW d \in D PROVE h[d] = Val(h, d)
    OBVIOUS
  <2>1. h[d] = Val(F(m[d]), d)
    BY <1>1, <1>5, <1>6
  <2>2. CASE m[d] = 0
    BY <2>1, <2>2
  <2>3. CASE m[d] > 0
    <3>1. pred[d] \in D /\ m[pred[d]] \in Nat /\ m[d] \in Nat /\ m[pred[d]] < m[d]
      BY <1>0, <1>1, <2>3
    <3>2. pred[d] \in Low(m[d]) \cap Low(m[pred[d]])
      BY <3>1
    <3>3. Solves(F(m[d]), m[d]) /\ Solves(F(m[pred[d]]), m[pred[d]])
      BY <1>5, <3>1
    <3>4. F(m[d])[pred[d]] = F(m[pred[d]])[pred[d]]
      <4> HIDE DEF Solves, Low
      <4> QED BY <1>3, <3>1, <3>2, <3>3
    <3>5. h[pred[d]] = F(m[d])[pred[d]]
      BY <3>1, <3>4
    <3> QED BY <2>1, <3>5
  <2> QED BY <1>1, <2>2, <2>3
<1> QED BY <1>7, <1>8 DEF Defined
-----------------------------------------------------------------------------
LEMMA Sizes == /\ Base \in Nat /\ Base >= 4 /\ 2 * Base \in Nat \ {0}
               /\ MaxDigits \in Nat /\ RecvSize \in Nat
BY MqttRecvAssumption DEF PUBLISH1

LEMMA DivMod == \A b \in Nat \ {0} : \A a \in Nat :
                   a = b * (a \div b) + (a % b) /\ a % b \in 0 .. b - 1 /\ a \div b \in Nat
OBVIOUS

LEMMA TimesMonotone ==
  ASSUME NEW a \in Nat, NEW b \in Nat, NEW c \in Nat, a <= b
  PROVE  a * c <= b * c /\ a * c \in Nat
OBVIOUS

LEMMA Division == \A n \in Nat : /\ n = Base * (n \div Base) + (n % Base)
                                 /\ n % Base \in 0 .. Base - 1 /\ n \div Base \in Nat
<1>1. Base \in Nat \ {0}
  BY Sizes
<1> QED BY <1>1, DivMod, Zenon

\* The number without its last digit is smaller.
LEMMA FewerDigits ==
  ASSUME NEW n \in Nat, n >= Base
  PROVE  n \div Base \in Nat /\ n \div Base < n
<1> DEFINE q == n \div Base
           r == n % Base
<1>1. q \in Nat /\ r \in 0 .. Base - 1 /\ n = Base * q + r
  BY Division
<1> HIDE DEF q, r
<1>2. 4 * q <= Base * q /\ Base * q \in Nat
  BY <1>1, Sizes, TimesMonotone
<1>3. q < n
  BY <1>1, <1>2, Sizes
<1> QED BY <1>1, <1>3 DEF q

\* The three recursive definitions have the functions they describe.
LEMMA DigitsDef ==
  \A n \in Nat : /\ Digits[n] = IF n < Base THEN <<n>> ELSE <<Base + (n % Base)>> \o Digits[n \div Base]
                 /\ Digits[n] \in Seq(Nat)
<1> DEFINE m    == [n \in Nat |-> IF n < Base THEN 0 ELSE n]
           pred == [n \in Nat |-> n \div Base]
           base == [n \in Nat |-> <<n>>]
           step == [x \in Nat \X Seq(Nat) |-> <<Base + (x[1] % Base)>> \o x[2]]
           Eq(f) == f = [n \in Nat |-> IF n < Base THEN <<n>>
                                       ELSE <<Base + (n % Base)>> \o f[n \div Base]]
<1>1. m \in [Nat -> Nat] /\ \A n \in Nat : m[n] = IF n < Base THEN 0 ELSE n
  BY Sizes
<1>2. \A n \in Nat : n \div Base \in Nat /\ n % Base \in Nat
  <2> SUFFICES ASSUME NEW n \in Nat PROVE n \div Base \in Nat /\ n % Base \in Nat
    OBVIOUS
  <2>1. n \div Base \in Nat /\ n % Base \in 0 .. Base - 1
    BY Division
  <2> QED BY <2>1, Sizes
<1>3. pred \in [Nat -> Nat] /\ \A n \in Nat : pred[n] = n \div Base
  BY <1>2
<1>4. base \in [Nat -> Seq(Nat)] /\ \A n \in Nat : base[n] = <<n>>
  OBVIOUS
<1>5. step \in [Nat \X Seq(Nat) -> Seq(Nat)]
      /\ \A n \in Nat, s \in Seq(Nat) : step[<<n, s>>] = <<Base + (n % Base)>> \o s
  <2>1. \A n \in Nat : Base + (n % Base) \in Nat
    BY <1>2, Sizes
  <2>2. \A n \in Nat, s \in Seq(Nat) : <<Base + (n % Base)>> \o s \in Seq(Nat)
    BY <2>1
  <2> QED BY <2>2
<1>6. \A n \in Nat : m[n] > 0 => m[pred[n]] < m[n]
  <2> SUFFICES ASSUME NEW n \in Nat, m[n] > 0 PROVE m[pred[n]] < m[n]
    OBVIOUS
  <2>1. n >= Base /\ m[n] = n
    BY <1>1, Sizes
  <2>2. n \div Base \in Nat /\ n \div Base < n
    BY <2>1, FewerDigits
  <2>3. m[n \div Base] <= n \div Base
    BY <1>1, <2>2
  <2> QED BY <1>1, <1>3, <2>1, <2>2, <2>3
<1> HIDE DEF m, pred, base, step
<1>7. PICK f \in [Nat -> Seq(Nat)] :
         \A n \in Nat : f[n] = IF m[n] = 0 THEN base[n] ELSE step[<<n, f[pred[n]]>>]
  <2>1. m \in [Nat -> Nat] /\ pred \in [Nat -> Nat] /\ base \in [Nat -> Seq(Nat)]
        /\ step \in [Nat \X Seq(Nat) -> Seq(Nat)]
    BY <1>1, <1>3, <1>4, <1>5
  <2>2. Descends(Nat, Seq(Nat), m, pred, base, step)
    BY <2>1, <1>6 DEF Descends
  <2>3. Defined(Nat, Seq(Nat), m, pred, base, step)
    BY <2>2, Recursion
  <2> QED BY <2>3 DEF Defined
<1>8. \A n \in Nat : f[n] = IF n < Base THEN <<n>> ELSE <<Base + (n % Base)>> \o f[n \div Base]
  <2> SUFFICES ASSUME NEW n \in Nat
               PROVE  f[n] = IF n < Base THEN <<n>> ELSE <<Base + (n % Base)>> \o f[n \div Base]
    OBVIOUS
  <2>1. m[n] = 0 <=> n < Base
    <3>1. m[n] = IF n < Base THEN 0 ELSE n
      BY <1>1
    <3> QED BY <3>1, Sizes
  <2>2. f[pred[n]] = f[n \div Base] /\ f[n \div Base] \in Seq(Nat)
    BY <1>2, <1>3
  <2>3. step[<<n, f[pred[n]]>>] = <<Base + (n % Base)>> \o f[n \div Base]
    BY <1>5, <2>2
  <2> QED BY <1>4, <1>7, <2>1, <2>3
<1>9. Eq(f)
  BY <1>7, <1>8
<1>10. Eq(Digits)
  <2>1. Digits = CHOOSE g : Eq(g)
    BY DEF Digits
  <2> HIDE DEF Eq
  <2> QED BY <1>9, <2>1
<1>11. \A n \in Nat : Digits[n] = IF n < Base THEN <<n>>
                                  ELSE <<Base + (n % Base)>> \o Digits[n \div Base]
  BY <1>10
<1> DEFINE S == {n \in Nat : Digits[n] \in Seq(Nat)}
<1>12. ASSUME NEW n \in Nat, \A k \in Nat : k < n => k \in S
       PROVE  n \in S
  <2>0. Digits[n] = IF n < Base THEN <<n>> ELSE <<Base + (n % Base)>> \o Digits[n \div Base]
    BY <1>11
  <2>1. CASE n < Base
    <3>1. <<n>> \in Seq(Nat)
      OBVIOUS
    <3> QED BY <2>0, <2>1, <3>1
  <2>2. CASE ~(n < Base)
    <3>1. n \div Base \in Nat /\ n \div Base < n
      BY <2>2, FewerDigits, Sizes
    <3>2. Digits[n \div Base] \in Seq(Nat)
      BY <1>12, <3>1
    <3>3. <<Base + (n % Base)>> \in Seq(Nat)
      <4>1. Base + (n % Base) \in Nat
        BY <1>2, Sizes
      <4> QED BY <4>1
    <3>4. <<Base + (n % Base)>> \o Digits[n \div Base] \in Seq(Nat)
      BY <3>2, <3>3
    <3> QED BY <2>0, <2>2, <3>4
  <2> QED BY <2>1, <2>2
<1> HIDE DEF S
<1>13. \A n \in Nat : n \in S
  BY <1>12, CompleteInduction
<1> QED BY <1>11, <1>13 DEF S

LEMMA NumberDef ==
  \A d \in Seq(Nat) : /\ Number[d] = IF d = << >> THEN 0 ELSE (Head(d) % Base) + Base * Number[Tail(d)]
                      /\ Number[d] \in Nat
<1> DEFINE D    == Seq(Nat)
           m    == [d \in D |-> Len(d)]
           pred == [d \in D |-> IF d = << >> THEN d ELSE Tail(d)]
           base == [d \in D |-> 0]
           step == [x \in D \X Nat |-> IF x[1] = << >> THEN 0 ELSE (Head(x[1]) % Base) + Base * x[2]]
           Eq(f) == f = [d \in D |-> IF d = << >> THEN 0 ELSE (Head(d) % Base) + Base * f[Tail(d)]]
<1>1. /\ m \in [D -> Nat] /\ \A d \in D : m[d] = Len(d) /\ Len(d) \in Nat
      /\ base \in [D -> Nat] /\ \A d \in D : base[d] = 0
  OBVIOUS
<1>2. \A d \in D : d # << >> => /\ Head(d) \in Nat /\ Tail(d) \in D
                                /\ Len(d) > 0 /\ Len(Tail(d)) = Len(d) - 1
  OBVIOUS
<1>3. pred \in [D -> D] /\ \A d \in D : d # << >> => pred[d] = Tail(d)
  BY <1>2
<1>4. \A d \in D, k \in Nat : d # << >> => (Head(d) % Base) + Base * k \in Nat
  <2> SUFFICES ASSUME NEW d \in D, NEW k \in Nat, d # << >>
               PROVE  (Head(d) % Base) + Base * k \in Nat
    OBVIOUS
  <2>1. Head(d) % Base \in 0 .. Base - 1
    BY <1>2, Division
  <2>2. Base * k \in Nat
    BY Sizes
  <2> QED BY <2>1, <2>2, Sizes
<1>5. step \in [D \X Nat -> Nat]
      /\ \A d \in D, k \in Nat : d # << >> => step[<<d, k>>] = (Head(d) % Base) + Base * k
  <2> HIDE DEF D
  <2> QED BY <1>4
<1>6. Descends(D, Nat, m, pred, base, step)
  <2>1. \A d \in D : m[d] > 0 => m[pred[d]] < m[d]
    <3> SUFFICES ASSUME NEW d \in D, m[d] > 0 PROVE m[pred[d]] < m[d]
      OBVIOUS
    <3>1. Len(d) > 0 /\ d # << >>
      BY <1>1
    <3>2. pred[d] = Tail(d) /\ Tail(d) \in D /\ Len(Tail(d)) = Len(d) - 1 /\ Len(d) \in Nat
      BY <1>1, <1>2, <1>3, <3>1
    <3>3. m[pred[d]] = Len(d) - 1 /\ m[d] = Len(d)
      BY <1>1, <3>2
    <3> QED BY <3>2, <3>3
  <2> HIDE DEF D, m, pred, base, step
  <2> QED BY <1>1, <1>3, <1>5, <2>1 DEF Descends
<1> HIDE DEF m, pred, base, step
<1>7. Defined(D, Nat, m, pred, base, step)
  BY <1>6, Recursion
<1>8. PICK f \in [D -> Nat] :
         \A d \in D : f[d] = IF m[d] = 0 THEN base[d] ELSE step[<<d, f[pred[d]]>>]
  BY <1>7 DEF Defined
<1>9. \A d \in D : f[d] = IF d = << >> THEN 0 ELSE (Head(d) % Base) + Base * f[Tail(d)]
  <2> SUFFICES ASSUME NEW d \in D
               PROVE  f[d] = IF d = << >> THEN 0 ELSE (Head(d) % Base) + Base * f[Tail(d)]
    OBVIOUS
  <2>1. CASE d = << >>
    <3>1. m[d] = 0 /\ base[d] = 0
      BY <1>1, <2>1
    <3> QED BY <1>8, <2>1, <3>1
  <2>2. CASE d # << >>
    <3>1. m[d] # 0 /\ pred[d] = Tail(d) /\ Tail(d) \in D
      BY <1>1, <1>2, <1>3, <2>2
    <3>2. f[Tail(d)] \in Nat
      BY <3>1
    <3>3. step[<<d, f[Tail(d)]>>] = (Head(d) % Base) + Base * f[Tail(d)]
      BY <1>5, <2>2, <3>2
    <3> QED BY <1>8, <2>2, <3>1, <3>3
  <2> QED BY <2>1, <2>2
<1>10. Eq(Number)
  <2>1. Eq(f)
    BY <1>9
  <2>2. Number = CHOOSE g : Eq(g)
    BY DEF Number
  <2> HIDE DEF Eq
  <2> QED BY <2>1, <2>2
<1>11. \A d \in D : Number[d] = IF d = << >> THEN 0 ELSE (Head(d) % Base) + Base * Number[Tail(d)]
  BY <1>10
<1> DEFINE S == {n \in Nat : \A d \in D : Len(d) = n => Number[d] \in Nat}
<1>12. ASSUME NEW n \in Nat, \A k \in Nat : k < n => k \in S
       PROVE  n \in S
  <2> SUFFICES ASSUME NEW d \in D, Len(d) = n PROVE Number[d] \in Nat
    OBVIOUS
  <2>1. CASE d = << >>
    BY <1>11, <2>1
  <2>2. CASE d # << >>
    <3>1. Tail(d) \in D /\ Len(Tail(d)) \in Nat /\ Len(Tail(d)) < n
      BY <1>2, <2>2
    <3>2. Number[Tail(d)] \in Nat
      BY <1>12, <3>1
    <3>3. (Head(d) % Base) + Base * Number[Tail(d)] \in Nat
      BY <1>4, <2>2, <3>2
    <3> QED BY <1>11, <2>2, <3>3
  <2> QED BY <2>1, <2>2
<1> HIDE DEF S
<1>13. \A n \in Nat : n \in S
  BY <1>12, CompleteInduction
<1>14. \A d \in D : Number[d] \in Nat
  <2> USE DEF S
  <2> QED BY <1>1, <1>13
<1> HIDE DEF D
<1>15. \A d \in D : /\ Number[d] = IF d = << >> THEN 0 ELSE (Head(d) % Base) + Base * Number[Tail(d)]
                    /\ Number[d] \in Nat
  BY <1>11, <1>14
<1> QED BY <1>15 DEF D

\* What the client adds up is what the broker has put into digits, of which the
\* last one alone is below Base.
DigitsOf(n, d) == /\ d \in Seq(Nat) /\ Len(d) >= 1
                  /\ \A i \in 1 .. Len(d) - 1 : d[i] >= Base
                  /\ d[Len(d)] < Base
                  /\ Number[d] = n

LEMMA DigitsShape == \A n \in Nat : DigitsOf(n, Digits[n])
<1> DEFINE S == {n \in Nat : DigitsOf(n, Digits[n])}
<1>1. ASSUME NEW n \in Nat, \A k \in Nat : k < n => k \in S
      PROVE  DigitsOf(n, Digits[n])
  <2>1. CASE n < Base
    <3> DEFINE d == <<n>>
    <3>1. Digits[n] = d
      BY <2>1, DigitsDef
    <3>2. d \in Seq(Nat) /\ Len(d) = 1 /\ d[1] = n /\ d # << >> /\ Head(d) = n /\ Tail(d) = << >>
      OBVIOUS
    <3> HIDE DEF d
    <3>3. Number[d] = (n % Base) + Base * Number[<< >>]
      BY <3>2, NumberDef
    <3>4. << >> \in Seq(Nat)
      OBVIOUS
    <3>5. Number[<< >>] = 0
      BY <3>4, NumberDef
    <3>6. n % Base = n
      <4>1. Base \in Nat \ {0} /\ n \in 0 .. Base - 1
        BY <2>1, Sizes
      <4>2. n = Base * (n \div Base) + (n % Base) /\ n % Base \in 0 .. Base - 1 /\ n \div Base \in Nat
        BY Division
      <4> QED BY <4>1, <2>1
    <3>7. Number[d] = n
      BY <3>3, <3>5, <3>6, Sizes
    <3> QED BY <2>1, <3>1, <3>2, <3>7 DEF DigitsOf
  <2>2. CASE ~(n < Base)
    <3> DEFINE q == n \div Base
               r == n % Base
               e == Digits[q]
               d == <<Base + r>> \o e
    <3>1. q \in Nat /\ q < n
      BY <2>2, FewerDigits, Sizes
    <3>2. r \in 0 .. Base - 1 /\ n = Base * q + r /\ r \in Nat
      BY Division, Sizes
    <3>3. Digits[n] = d
      BY <2>2, DigitsDef
    <3>4. DigitsOf(q, e)
      BY <1>1, <3>1
    <3> HIDE DEF q, r, e
    <3>5. e \in Seq(Nat) /\ Len(e) \in Nat /\ Len(e) >= 1 /\ Number[e] = q
          /\ (\A i \in 1 .. Len(e) - 1 : e[i] >= Base) /\ e[Len(e)] < Base
      BY <3>4 DEF DigitsOf
    <3>6. Base + r \in Nat /\ Base + r >= Base
      BY <3>2, Sizes
    <3>7. /\ d \in Seq(Nat) /\ Len(d) = Len(e) + 1 /\ d # << >> /\ d[1] = Base + r
          /\ Head(d) = Base + r /\ Tail(d) = e /\ \A i \in 1 .. Len(e) : d[i + 1] = e[i]
      BY <3>5, <3>6
    <3> HIDE DEF d
    <3>8. Number[d] = ((Base + r) % Base) + Base * q
      BY <3>5, <3>7, NumberDef
    <3>9. (Base + r) % Base = r
      <4>1. Base \in Nat /\ Base >= 4
        BY Sizes
      <4> QED BY <3>2, <4>1
    <3>10. Number[d] = n
      <4>1. Base * q \in Nat
        BY <3>1, Sizes
      <4> QED BY <3>2, <3>8, <3>9, <4>1
    <3>11. \A i \in 1 .. Len(d) - 1 : d[i] >= Base
      <4> SUFFICES ASSUME NEW i \in 1 .. Len(d) - 1 PROVE d[i] >= Base
        OBVIOUS
      <4>1. CASE i = 1
        BY <3>6, <3>7, <4>1
      <4>2. CASE i # 1
        <5>1. i - 1 \in 1 .. Len(e) - 1 /\ i - 1 \in 1 .. Len(e) /\ (i - 1) + 1 = i
          BY <3>5, <3>7, <4>2
        <5>2. d[i] = e[i - 1]
          BY <3>7, <5>1
        <5> QED BY <3>5, <5>1, <5>2
      <4> QED BY <4>1, <4>2
    <3>12. d[Len(d)] < Base
      <4>1. Len(e) \in 1 .. Len(e) /\ Len(d) = Len(e) + 1
        BY <3>5, <3>7
      <4>2. d[Len(d)] = e[Len(e)]
        BY <3>7, <4>1
      <4> QED BY <3>5, <4>2
    <3>13. DigitsOf(n, d)
      <4>1. Len(d) >= 1
        BY <3>5, <3>7
      <4> QED BY <3>7, <3>10, <3>11, <3>12, <4>1 DEF DigitsOf
    <3> QED BY <3>3, <3>13
  <2> QED BY <2>1, <2>2
<1>2. ASSUME NEW n \in Nat, \A k \in Nat : k < n => k \in S
      PROVE  n \in S
  BY <1>1, <1>2
<1> HIDE DEF S
<1>3. \A n \in Nat : n \in S
  BY <1>2, CompleteInduction
<1> QED BY <1>3 DEF S
-----------------------------------------------------------------------------
\* Two sequences one after the other, and one between two others.
LEMMA Joined ==
  ASSUME NEW S, NEW s \in Seq(S), NEW t \in Seq(S)
  PROVE  /\ s \o t \in Seq(S) /\ Len(s) \in Nat /\ Len(t) \in Nat
         /\ Len(s \o t) = Len(s) + Len(t)
         /\ \A i \in 1 .. Len(s) : (s \o t)[i] = s[i]
         /\ \A i \in 1 .. Len(t) : (s \o t)[Len(s) + i] = t[i]
         /\ SubSeq(s \o t, 1, Len(s)) = s
         /\ SubSeq(s \o t, Len(s) + 1, Len(s) + Len(t)) = t
<1> DEFINE r == s \o t
           m == Len(s)
           n == Len(t)
<1>1. m \in Nat /\ n \in Nat
  BY LenProperties
<1>2. /\ r \in Seq(S) /\ Len(r) = m + n
      /\ \A i \in 1 .. m + n : r[i] = IF i <= m THEN s[i] ELSE t[i - m]
  BY ConcatProperties
<1>3. \A i \in 1 .. m + n : r[i] \in S
  BY <1>2, ElementOfSeq
<1> HIDE DEF r, m, n
<1>4. \A i \in 1 .. m : r[i] = s[i]
  BY <1>1, <1>2
<1>5. \A i \in 1 .. n : r[m + i] = t[i]
  <2> SUFFICES ASSUME NEW i \in 1 .. n PROVE r[m + i] = t[i]
    OBVIOUS
  <2>1. m + i \in 1 .. m + n /\ ~(m + i <= m) /\ (m + i) - m = i
    BY <1>1
  <2> QED BY <1>2, <2>1
<1>6. SubSeq(r, 1, m) = s
  <2>1. /\ SubSeq(r, 1, m) \in Seq(S) /\ Len(SubSeq(r, 1, m)) = m
        /\ \A i \in 1 .. m : SubSeq(r, 1, m)[i] = r[i]
    <3>1. 1 \in Int /\ m \in Int /\ \A i \in 1 .. m : r[i] \in S
      BY <1>1, <1>3
    <3>2. /\ SubSeq(r, 1, m) \in Seq(S)
          /\ Len(SubSeq(r, 1, m)) = IF 1 <= m THEN m - 1 + 1 ELSE 0
          /\ \A i \in 1 .. m - 1 + 1 : SubSeq(r, 1, m)[i] = r[1 + i - 1]
      BY <3>1, SubSeqProperties
    <3> QED BY <1>1, <3>2
  <2>2. Len(s) = m
    BY DEF m
  <2> QED BY <1>4, <2>1, <2>2, SeqEqual
<1>7. SubSeq(r, m + 1, m + n) = t
  <2>1. /\ SubSeq(r, m + 1, m + n) \in Seq(S) /\ Len(SubSeq(r, m + 1, m + n)) = n
        /\ \A i \in 1 .. n : SubSeq(r, m + 1, m + n)[i] = r[m + i]
    <3>1. m + 1 \in Int /\ m + n \in Int /\ \A i \in m + 1 .. m + n : r[i] \in S
      BY <1>1, <1>3
    <3> DEFINE a == m + 1
               b == m + n
    <3>2. /\ SubSeq(r, a, b) \in Seq(S)
          /\ Len(SubSeq(r, a, b)) = IF a <= b THEN b - a + 1 ELSE 0
          /\ \A i \in 1 .. b - a + 1 : SubSeq(r, a, b)[i] = r[a + i - 1]
      <4> HIDE DEF a, b
      <4> QED BY <3>1, SubSeqProperties DEF a, b
    <3>3. b - a + 1 = n /\ \A i \in 1 .. n : a + i - 1 = m + i
      BY <1>1
    <3> QED BY <1>1, <3>2, <3>3
  <2>2. Len(t) = n
    BY DEF n
  <2> QED BY <1>5, <2>1, <2>2, SeqEqual
<1> QED BY <1>1, <1>2, <1>4, <1>5, <1>6, <1>7 DEF r, m, n

LEMMA Associative == \A s, t, u \in Seq(Nat) : (s \o t) \o u = s \o (t \o u)
<1> SUFFICES ASSUME NEW s \in Seq(Nat), NEW t \in Seq(Nat), NEW u \in Seq(Nat)
             PROVE  (s \o t) \o u = s \o (t \o u)
  OBVIOUS
<1> QED BY ConcatAssociative

LEMMA Middle ==
  ASSUME NEW S, NEW s \in Seq(S), NEW t \in Seq(S), NEW u \in Seq(S)
  PROVE  /\ \A i \in 1 .. Len(t) : (s \o t \o u)[Len(s) + i] = t[i]
         /\ SubSeq(s \o t \o u, Len(s) + 1, Len(s) + Len(t)) = t
<1> DEFINE h == s \o t
           r == h \o u
           m == Len(s)
           n == Len(t)
<1>1. /\ h \in Seq(S) /\ m \in Nat /\ n \in Nat /\ Len(h) = m + n
      /\ \A i \in 1 .. n : h[m + i] = t[i]
  BY Joined
<1>2. Len(t) = n
  OBVIOUS
<1> HIDE DEF h, m, n
<1>3. r \in Seq(S) /\ Len(r) = Len(h) + Len(u) /\ Len(u) \in Nat /\ \A i \in 1 .. Len(h) : r[i] = h[i]
  BY <1>1, Joined
<1> HIDE DEF r
<1>4. \A i \in 1 .. n : r[m + i] = t[i]
  <2> SUFFICES ASSUME NEW i \in 1 .. n PROVE r[m + i] = t[i]
    OBVIOUS
  <2>1. m + i \in 1 .. Len(h)
    BY <1>1
  <2> QED BY <1>1, <1>3, <2>1
<1> DEFINE a == m + 1
           b == m + n
<1>5. a \in Int /\ b \in Int /\ \A i \in a .. b : r[i] \in S
  <2>1. \A i \in a .. b : i \in 1 .. Len(r)
    BY <1>1, <1>3
  <2> QED BY <1>1, <1>3, <2>1, ElementOfSeq
<1>6. /\ SubSeq(r, a, b) \in Seq(S)
      /\ Len(SubSeq(r, a, b)) = IF a <= b THEN b - a + 1 ELSE 0
      /\ \A i \in 1 .. b - a + 1 : SubSeq(r, a, b)[i] = r[a + i - 1]
  <2> HIDE DEF a, b
  <2> QED BY <1>5, SubSeqProperties
<1>7. b - a + 1 = n /\ \A i \in 1 .. n : a + i - 1 = m + i
  BY <1>1
<1>8. Len(SubSeq(r, a, b)) = n /\ \A i \in 1 .. n : SubSeq(r, a, b)[i] = r[m + i]
  BY <1>1, <1>6, <1>7
<1>9. SubSeq(r, a, b) = t
  <2> HIDE DEF a, b
  <2> QED BY <1>2, <1>4, <1>6, <1>8, SeqEqual
<1> QED BY <1>4, <1>9 DEF r, h, m, n
-----------------------------------------------------------------------------
\* The unpackers undo the packers.
LEMMA Word16 ==
  ASSUME NEW n \in Word
  PROVE  /\ uint16(n) \in Seq(Byte) /\ Len(uint16(n)) = 2
         /\ uint16(n)[1] * 2 * Base + uint16(n)[2] = n
<1> DEFINE B == 2 * Base
           q == n \div B
           r == n % B
<1>1. B \in Nat \ {0} /\ B * B = 4 * Base * Base /\ Base \in Nat
  BY Sizes
<1>2. n \in Nat /\ n < B * B
  BY <1>1 DEF Word
<1> HIDE DEF B
<1>3. n = B * q + r /\ r \in 0 .. B - 1 /\ q \in Nat
  BY <1>1, <1>2, DivMod
<1> HIDE DEF q, r
<1>4. q < B
  <2> SUFFICES ASSUME q >= B PROVE FALSE
    BY <1>1, <1>3
  <2>1. B * B <= q * B /\ B * B \in Nat
    BY <1>1, <1>3, TimesMonotone
  <2>2. q * B = B * q
    BY <1>1, <1>3
  <2>3. B * q \in Nat
    BY <1>1, <1>3
  <2> QED BY <1>2, <1>3, <2>1, <2>2, <2>3
<1>5. q \in Byte /\ r \in Byte
  BY <1>1, <1>3, <1>4 DEF Byte, B
<1>6. uint16(n) = <<q, r>>
  BY DEF uint16, q, r, B
<1>7. q * 2 * Base = B * q
  BY <1>1, <1>3 DEF B
<1>8. uint16(n) \in Seq(Byte) /\ Len(uint16(n)) = 2 /\ uint16(n)[1] = q /\ uint16(n)[2] = r
  BY <1>5, <1>6
<1>9. uint16(n)[1] * 2 * Base + uint16(n)[2] = q * 2 * Base + r
  BY <1>8
<1>10. q * 2 * Base + r = n
  <2>1. B * q \in Nat
    BY <1>1, <1>3
  <2> QED BY <1>3, <1>7, <2>1
<1> QED BY <1>8, <1>9, <1>10

\* What the unpacker of a type takes and gives back, for every kind of packet.
Undone(p) == /\ p.type \in PINGRESP .. PUBLISH1
             /\ p.type = PINGRESP => Rest(p) = << >>
             /\ Rest(p) \in Seq(Byte)
             /\ Accepted(p.type, Rest(p))
             /\ Decoded(p.type, Rest(p)) = p

LEMMA PingUndone == ASSUME NEW p \in [type : {PINGRESP}] PROVE Undone(p)
<1>1. p = [type |-> PINGRESP] /\ "raw" \notin DOMAIN p /\ p.type = PINGRESP
  OBVIOUS
<1>2. Rest(p) = << >>
  BY <1>1 DEF Rest, FORBIDDEN, PINGRESP, CONNACK, PUBACK, SUBACK, PUBLISH0, PUBLISH1
<1>3. Accepted(p.type, << >>) /\ Decoded(p.type, << >>) = p
  BY <1>1 DEF Accepted, Decoded, FORBIDDEN, PINGRESP, CONNACK, PUBACK, SUBACK, PUBLISH0, PUBLISH1
<1> QED BY <1>1, <1>2, <1>3 DEF Undone, PINGRESP, PUBLISH1

LEMMA ConnackUndone ==
  ASSUME NEW p \in [type : {CONNACK}, session_present : 0 .. 1, return_code : 0 .. 5]
  PROVE  Undone(p)
<1>1. /\ p = [type |-> CONNACK, session_present |-> p.session_present, return_code |-> p.return_code]
      /\ "raw" \notin DOMAIN p /\ p.type = CONNACK
      /\ p.session_present \in 0 .. 1 /\ p.return_code \in 0 .. 5
  OBVIOUS
<1> DEFINE r == <<p.session_present, p.return_code>>
<1>2. Rest(p) = r
  BY <1>1 DEF Rest, FORBIDDEN, PINGRESP, CONNACK, PUBACK, SUBACK, PUBLISH0, PUBLISH1
<1>3. r \in Seq(Byte) /\ Len(r) = 2 /\ r[1] = p.session_present /\ r[2] = p.return_code
  <2>1. p.session_present \in Byte /\ p.return_code \in Byte
    BY <1>1, Sizes DEF Byte
  <2> QED BY <2>1
<1> HIDE DEF r
<1>4. Accepted(p.type, r)
  BY <1>1, <1>3 DEF Accepted, FORBIDDEN, PINGRESP, CONNACK, PUBACK, SUBACK, PUBLISH0, PUBLISH1
<1>5. Decoded(p.type, r) = p
  <2>1. Decoded(p.type, r) = [type |-> p.type, session_present |-> r[1], return_code |-> r[2]]
    BY <1>1 DEF Decoded, FORBIDDEN, PINGRESP, CONNACK, PUBACK, SUBACK, PUBLISH0, PUBLISH1
  <2> QED BY <1>1, <1>3, <2>1
<1> QED BY <1>1, <1>2, <1>3, <1>4, <1>5 DEF Undone, PINGRESP, CONNACK, PUBLISH1

LEMMA PubackUndone == ASSUME NEW p \in [type : {PUBACK}, packet_id : Word] PROVE Undone(p)
<1>1. /\ p = [type |-> PUBACK, packet_id |-> p.packet_id]
      /\ "raw" \notin DOMAIN p /\ p.type = PUBACK /\ p.packet_id \in Word
  OBVIOUS
<1> DEFINE r == uint16(p.packet_id)
<1>2. Rest(p) = r
  BY <1>1 DEF Rest, FORBIDDEN, PINGRESP, CONNACK, PUBACK, SUBACK, PUBLISH0, PUBLISH1
<1>3. r \in Seq(Byte) /\ Len(r) = 2 /\ r[1] * 2 * Base + r[2] = p.packet_id
  BY <1>1, Word16
<1> HIDE DEF r
<1>4. Accepted(p.type, r)
  BY <1>1, <1>3 DEF Accepted, FORBIDDEN, PINGRESP, CONNACK, PUBACK, SUBACK, PUBLISH0, PUBLISH1
<1>5. Decoded(p.type, r) = p
  <2>1. Decoded(p.type, r) = [type |-> p.type, packet_id |-> Value16(r, 1)]
    BY <1>1 DEF Decoded, FORBIDDEN, PINGRESP, CONNACK, PUBACK, SUBACK, PUBLISH0, PUBLISH1
  <2>2. Value16(r, 1) = p.packet_id
    BY <1>3 DEF Value16
  <2> QED BY <1>1, <2>1, <2>2
<1> QED BY <1>1, <1>2, <1>3, <1>4, <1>5 DEF Undone, PINGRESP, PUBACK, PUBLISH1

LEMMA SubackUndone ==
  ASSUME NEW p \in [type : {SUBACK}, packet_id : Word, return_codes : Seq(Byte) \ {<< >>}]
  PROVE  Undone(p)
<1>1. /\ p = [type |-> SUBACK, packet_id |-> p.packet_id, return_codes |-> p.return_codes]
      /\ "raw" \notin DOMAIN p /\ p.type = SUBACK /\ p.packet_id \in Word
      /\ p.return_codes \in Seq(Byte) /\ p.return_codes # << >>
  OBVIOUS
<1> DEFINE u == uint16(p.packet_id)
           c == p.return_codes
           r == u \o c
<1>2. Rest(p) = r
  BY <1>1 DEF Rest, FORBIDDEN, PINGRESP, CONNACK, PUBACK, SUBACK, PUBLISH0, PUBLISH1
<1>3. u \in Seq(Byte) /\ Len(u) = 2 /\ u[1] * 2 * Base + u[2] = p.packet_id
  BY <1>1, Word16
<1>4. c \in Seq(Byte) /\ c # << >>
  BY <1>1
<1> HIDE DEF u, c
<1>5. /\ r \in Seq(Byte) /\ Len(r) = 2 + Len(c) /\ Len(r) >= 3
      /\ r[1] = u[1] /\ r[2] = u[2] /\ SubSeq(r, 3, 2 + Len(c)) = c
  <2>1. Len(c) \in Nat /\ Len(c) > 0
    BY <1>4
  <2>2. u \in Seq(Byte) /\ c \in Seq(Byte)
    BY <1>3, <1>4
  <2>3. /\ r \in Seq(Byte) /\ Len(r) = Len(u) + Len(c) /\ \A i \in 1 .. Len(u) : r[i] = u[i]
        /\ SubSeq(r, Len(u) + 1, Len(u) + Len(c)) = c
    BY <2>2, Joined
  <2> HIDE DEF r
  <2> QED BY <1>3, <2>1, <2>3
<1>6. SubSeq(r, 3, Len(r)) = c
  BY <1>5
<1> HIDE DEF r
<1>7. Accepted(p.type, r)
  BY <1>1, <1>5 DEF Accepted, FORBIDDEN, PINGRESP, CONNACK, PUBACK, SUBACK, PUBLISH0, PUBLISH1
<1>8. Decoded(p.type, r) = p
  <2>1. Decoded(p.type, r) = [type |-> p.type, packet_id |-> Value16(r, 1), return_codes |-> From(r, 3)]
    BY <1>1 DEF Decoded, FORBIDDEN, PINGRESP, CONNACK, PUBACK, SUBACK, PUBLISH0, PUBLISH1
  <2>2. Value16(r, 1) = p.packet_id
    BY <1>3, <1>5 DEF Value16
  <2>3. From(r, 3) = p.return_codes
    BY <1>6 DEF From, c
  <2> QED BY <1>1, <2>1, <2>2, <2>3
<1> QED BY <1>1, <1>2, <1>5, <1>7, <1>8 DEF Undone, PINGRESP, SUBACK, PUBLISH1

LEMMA Publish0Undone ==
  ASSUME NEW p \in [type : {PUBLISH0}, topic_name : Seq(Byte), application_message : Seq(Byte)],
         Len(p.topic_name) \in Word, Len(Rest(p)) >= 4
  PROVE  Undone(p)
<1>1. /\ p = [type |-> PUBLISH0, topic_name |-> p.topic_name,
              application_message |-> p.application_message]
      /\ "raw" \notin DOMAIN p /\ p.type = PUBLISH0
      /\ p.topic_name \in Seq(Byte) /\ p.application_message \in Seq(Byte)
  OBVIOUS
<1> DEFINE t == p.topic_name
           m == p.application_message
           n == Len(t)
           u == uint16(n)
           h == u \o t
           r == h \o m
<1>2. Rest(p) = r
  BY <1>1 DEF Rest, str, FORBIDDEN, PINGRESP, CONNACK, PUBACK, SUBACK, PUBLISH0, PUBLISH1
<1>3. u \in Seq(Byte) /\ Len(u) = 2 /\ u[1] * 2 * Base + u[2] = n
  BY Word16
<1>4. t \in Seq(Byte) /\ m \in Seq(Byte) /\ u \in Seq(Byte)
  BY <1>1, <1>3
<1>5. Len(t) = n
  OBVIOUS
<1> HIDE DEF u, t, m, n
<1>6. /\ h \in Seq(Byte) /\ Len(t) \in Nat /\ Len(h) = Len(u) + Len(t)
      /\ \A i \in 1 .. Len(u) : h[i] = u[i]
  BY <1>4, Joined
<1>7. SubSeq(r, Len(u) + 1, Len(u) + Len(t)) = t
  BY <1>4, Middle
<1> HIDE DEF h
<1>8. /\ r \in Seq(Byte) /\ Len(m) \in Nat /\ Len(r) = Len(h) + Len(m)
      /\ \A i \in 1 .. Len(h) : r[i] = h[i]
      /\ SubSeq(r, Len(h) + 1, Len(h) + Len(m)) = m
  <2>1. h \in Seq(Byte) /\ m \in Seq(Byte)
    BY <1>4, <1>6
  <2> QED BY <2>1, Joined
<1> HIDE DEF r
<1>9. r[1] = u[1] /\ r[2] = u[2]
  BY <1>3, <1>6, <1>8
<1>10. Value16(r, 1) = n
  BY <1>3, <1>9 DEF Value16
<1>11. SubSeq(r, 3, 2 + n) = t
  BY <1>3, <1>5, <1>7
<1>12. From(r, 3 + n) = m
  <2>1. Len(h) + 1 = 3 + n /\ Len(h) + Len(m) = Len(r)
    BY <1>3, <1>5, <1>6, <1>8
  <2> QED BY <1>8, <2>1 DEF From
<1>13. Accepted(p.type, r)
  BY <1>1, <1>2 DEF Accepted, FORBIDDEN, PINGRESP, CONNACK, PUBACK, SUBACK, PUBLISH0, PUBLISH1
<1>14. Decoded(p.type, r) = p
  <2>1. Decoded(p.type, r) = [type |-> p.type, topic_name |-> SubSeq(r, 3, 2 + Value16(r, 1)),
                              application_message |-> From(r, 3 + Value16(r, 1))]
    BY <1>1 DEF Decoded, FORBIDDEN, PINGRESP, CONNACK, PUBACK, SUBACK, PUBLISH0, PUBLISH1
  <2> QED BY <1>1, <1>10, <1>11, <1>12, <2>1 DEF t, m
<1> QED BY <1>1, <1>2, <1>8, <1>13, <1>14 DEF Undone, PINGRESP, PUBLISH0, PUBLISH1

LEMMA Publish1Undone ==
  ASSUME NEW p \in [type : {PUBLISH1}, topic_name : Seq(Byte), packet_id : Word,
                    application_message : Seq(Byte)],
         Len(p.topic_name) \in Word, Len(Rest(p)) >= 4
  PROVE  Undone(p)
<1>1. /\ p = [type |-> PUBLISH1, topic_name |-> p.topic_name, packet_id |-> p.packet_id,
              application_message |-> p.application_message]
      /\ "raw" \notin DOMAIN p /\ p.type = PUBLISH1 /\ p.packet_id \in Word
      /\ p.topic_name \in Seq(Byte) /\ p.application_message \in Seq(Byte)
  OBVIOUS
<1> DEFINE t == p.topic_name
           m == p.application_message
           n == Len(t)
           u == uint16(n)
           v == uint16(p.packet_id)
           h == u \o t
           k == h \o v
           r == k \o m
<1>2. Rest(p) = r
  BY <1>1 DEF Rest, str, FORBIDDEN, PINGRESP, CONNACK, PUBACK, SUBACK, PUBLISH0, PUBLISH1
<1>3. /\ u \in Seq(Byte) /\ Len(u) = 2 /\ u[1] * 2 * Base + u[2] = n
      /\ v \in Seq(Byte) /\ Len(v) = 2 /\ v[1] * 2 * Base + v[2] = p.packet_id
  BY <1>1, Word16
<1>4. t \in Seq(Byte) /\ m \in Seq(Byte) /\ u \in Seq(Byte) /\ v \in Seq(Byte)
  BY <1>1, <1>3
<1>5. Len(t) = n
  OBVIOUS
<1> HIDE DEF u, t, m, n, v
<1>6. /\ h \in Seq(Byte) /\ Len(t) \in Nat /\ Len(h) = Len(u) + Len(t)
      /\ \A i \in 1 .. Len(u) : h[i] = u[i]
  BY <1>4, Joined
<1>7. SubSeq(k, Len(u) + 1, Len(u) + Len(t)) = t /\ \A i \in 1 .. Len(t) : k[Len(u) + i] = t[i]
  BY <1>4, Middle
<1> HIDE DEF h
<1>8. /\ k \in Seq(Byte) /\ Len(v) \in Nat /\ Len(k) = Len(h) + Len(v)
      /\ \A i \in 1 .. Len(h) : k[i] = h[i]
      /\ \A i \in 1 .. Len(v) : k[Len(h) + i] = v[i]
  <2>1. h \in Seq(Byte) /\ v \in Seq(Byte)
    BY <1>4, <1>6
  <2> QED BY <2>1, Joined
<1> HIDE DEF k
<1>9. /\ r \in Seq(Byte) /\ Len(m) \in Nat /\ Len(r) = Len(k) + Len(m)
      /\ \A i \in 1 .. Len(k) : r[i] = k[i]
      /\ SubSeq(r, 1, Len(k)) = k
      /\ SubSeq(r, Len(k) + 1, Len(k) + Len(m)) = m
  <2>1. k \in Seq(Byte) /\ m \in Seq(Byte)
    BY <1>4, <1>8
  <2> QED BY <2>1, Joined
<1> HIDE DEF r
<1>10. n \in Nat /\ Len(h) = 2 + n /\ Len(k) = 4 + n
  BY <1>3, <1>5, <1>6, <1>8
<1>11. r[1] = u[1] /\ r[2] = u[2] /\ r[3 + n] = v[1] /\ r[4 + n] = v[2]
  <2>1. r[1] = k[1] /\ r[2] = k[2] /\ r[3 + n] = k[3 + n] /\ r[4 + n] = k[4 + n]
    BY <1>9, <1>10
  <2>2. k[1] = u[1] /\ k[2] = u[2]
    BY <1>3, <1>6, <1>8, <1>10
  <2>3. k[3 + n] = v[1] /\ k[4 + n] = v[2]
    <3>1. Len(h) + 1 = 3 + n /\ Len(h) + 2 = 4 + n /\ 1 \in 1 .. Len(v) /\ 2 \in 1 .. Len(v)
      BY <1>3, <1>10
    <3>2. k[Len(h) + 1] = v[1] /\ k[Len(h) + 2] = v[2]
      BY <1>8, <3>1
    <3> QED BY <3>1, <3>2
  <2> QED BY <2>1, <2>2, <2>3
<1>12. Value16(r, 1) = n /\ Value16(r, 3 + n) = p.packet_id
  <2>1. (3 + n) + 1 = 4 + n
    BY <1>10
  <2> QED BY <1>3, <1>11, <2>1 DEF Value16
<1>13. SubSeq(r, 3, 2 + n) = t
  <2> DEFINE w == SubSeq(r, 3, 2 + n)
  <2>1. \A i \in 1 .. n : r[2 + i] = t[i]
    <3> SUFFICES ASSUME NEW i \in 1 .. n PROVE r[2 + i] = t[i]
      OBVIOUS
    <3>1. 2 + i \in 1 .. Len(k)
      BY <1>10
    <3> QED BY <1>3, <1>5, <1>7, <1>9, <3>1
  <2>2. \A i \in 3 .. 2 + n : r[i] \in Byte
    <3>1. \A i \in 3 .. 2 + n : i \in 1 .. Len(r)
      BY <1>9, <1>10
    <3> QED BY <1>9, <3>1, ElementOfSeq
  <2>3. /\ w \in Seq(Byte) /\ Len(w) = IF 3 <= 2 + n THEN (2 + n) - 3 + 1 ELSE 0
        /\ \A i \in 1 .. (2 + n) - 3 + 1 : w[i] = r[3 + i - 1]
    <3>1. 3 \in Int /\ 2 + n \in Int
      BY <1>10
    <3> QED BY <2>2, <3>1, SubSeqProperties
  <2> HIDE DEF w
  <2>4. Len(w) = n
    BY <1>10, <2>3
  <2>5. \A i \in 1 .. n : w[i] = r[2 + i]
    <3>1. \A i \in 1 .. n : i \in 1 .. (2 + n) - 3 + 1 /\ 3 + i - 1 = 2 + i
      BY <1>10
    <3> QED BY <2>3, <3>1
  <2>6. w = t
    BY <1>4, <1>5, <2>1, <2>3, <2>4, <2>5, SeqEqual
  <2> QED BY <2>6 DEF w
<1>14. From(r, 5 + n) = m
  <2>1. Len(k) + 1 = 5 + n /\ Len(k) + Len(m) = Len(r)
    BY <1>9, <1>10
  <2> QED BY <1>9, <2>1 DEF From
<1>15. Accepted(p.type, r)
  BY <1>1, <1>2 DEF Accepted, FORBIDDEN, PINGRESP, CONNACK, PUBACK, SUBACK, PUBLISH0, PUBLISH1
<1>16. Decoded(p.type, r) = p
  <2>1. Decoded(p.type, r) = [type |-> p.type, topic_name |-> SubSeq(r, 3, 2 + Value16(r, 1)),
                              packet_id |-> Value16(r, 3 + Value16(r, 1)),
                              application_message |-> From(r, 5 + Value16(r, 1))]
    BY <1>1 DEF Decoded, FORBIDDEN, PINGRESP, CONNACK, PUBACK, SUBACK, PUBLISH0, PUBLISH1
  <2> QED BY <1>1, <1>12, <1>13, <1>14, <2>1 DEF t, m
<1> QED BY <1>1, <1>2, <1>9, <1>15, <1>16 DEF Undone, PINGRESP, PUBLISH1

LEMMA LegalUndone == ASSUME NEW p, Legal(p) PROVE Undone(p)
BY PingUndone, ConnackUndone, PubackUndone, SubackUndone, Publish0Undone, Publish1Undone DEF Legal
-----------------------------------------------------------------------------
\* What the broker sends are bytes, packet after packet.
LEMMA PacketShape ==
  ASSUME NEW p \in Packets
  PROVE  /\ p.type \in FORBIDDEN .. PUBLISH1 /\ p.type \in Nat
         /\ Rest(p) \in Seq(Byte) /\ Rest(p) \in Seq(Nat)
         /\ ~Legal(p) => ~Fits(p) \/ p.type = FORBIDDEN \/ ~Accepted(p.type, Rest(p))
<1>1. Legal(p) \/ NoPacket(p)
  BY PacketsAssumption
<1>2. CASE Legal(p)
  <2>1. p.type \in PINGRESP .. PUBLISH1 /\ Rest(p) \in Seq(Byte)
    BY <1>2, LegalUndone DEF Undone
  <2> QED BY <1>2, <2>1, Sizes DEF FORBIDDEN, PINGRESP, PUBLISH1, Byte
<1>3. CASE NoPacket(p)
  <2>1. p \in [type : FORBIDDEN .. PUBLISH1, raw : Seq(Byte)]
    BY <1>3 DEF NoPacket
  <2>2. "raw" \in DOMAIN p /\ p.type \in FORBIDDEN .. PUBLISH1 /\ p.raw \in Seq(Byte)
    BY <2>1
  <2>3. Rest(p) = p.raw
    BY <2>2 DEF Rest
  <2>4. ~Fits(p) \/ p.type = FORBIDDEN \/ ~Accepted(p.type, Rest(p))
    BY <1>3, <2>3 DEF NoPacket
  <2>5. Rest(p) \in Seq(Nat)
    BY <2>2, <2>3, Sizes DEF Byte
  <2> QED BY <2>2, <2>3, <2>4, <2>5 DEF FORBIDDEN, PUBLISH1
<1> QED BY <1>1, <1>2, <1>3

LEMMA PackShape ==
  ASSUME NEW p \in Packets, NEW d, d = Digits[Len(Rest(p))]
  PROVE  /\ Len(Rest(p)) \in Nat /\ DigitsOf(Len(Rest(p)), d)
         /\ Pack(p) \in Seq(Nat) /\ Len(Pack(p)) = 1 + Len(d) + Len(Rest(p))
         /\ Pack(p)[1] = p.type
         /\ \A i \in 1 .. Len(d) : Pack(p)[i + 1] = d[i]
         /\ \A i \in 1 .. Len(Rest(p)) : Pack(p)[i + (Len(d) + 1)] = Rest(p)[i]
<1> DEFINE y == Rest(p)
           t == <<p.type>>
           h == t \o d
           q == h \o y
<1>1. y \in Seq(Nat) /\ Len(y) \in Nat /\ p.type \in Nat
  BY PacketShape
<1>2. DigitsOf(Len(y), d)
  BY <1>1, DigitsShape
<1>3. d \in Seq(Nat) /\ Len(d) \in Nat /\ Len(d) >= 1
  BY <1>2 DEF DigitsOf
<1>4. t \in Seq(Nat) /\ Len(t) = 1 /\ t[1] = p.type
  BY <1>1
<1>5. Pack(p) = q
  BY DEF Pack
<1> HIDE DEF t, y
<1>6. h \in Seq(Nat) /\ Len(h) = Len(t) + Len(d) /\ (\A i \in 1 .. Len(t) : h[i] = t[i])
      /\ \A i \in 1 .. Len(d) : h[Len(t) + i] = d[i]
  <2>1. t \in Seq(Nat) /\ d \in Seq(Nat)
    BY <1>3, <1>4
  <2> QED BY <2>1, Joined
<1> HIDE DEF h
<1>7. q \in Seq(Nat) /\ Len(q) = Len(h) + Len(y) /\ (\A i \in 1 .. Len(h) : q[i] = h[i])
      /\ \A i \in 1 .. Len(y) : q[Len(h) + i] = y[i]
  <2>1. h \in Seq(Nat) /\ y \in Seq(Nat)
    BY <1>1, <1>6
  <2> QED BY <2>1, Joined
<1> HIDE DEF q
<1>8. Len(h) = 1 + Len(d)
  BY <1>4, <1>6
<1>9. q[1] = p.type
  <2>1. 1 \in 1 .. Len(h) /\ 1 \in 1 .. Len(t)
    BY <1>3, <1>4, <1>8
  <2> QED BY <1>4, <1>6, <1>7, <2>1
<1>10. \A i \in 1 .. Len(d) : q[i + 1] = d[i]
  <2> SUFFICES ASSUME NEW i \in 1 .. Len(d) PROVE q[i + 1] = d[i]
    OBVIOUS
  <2>1. i + 1 = Len(t) + i /\ i + 1 \in 1 .. Len(h)
    BY <1>3, <1>4, <1>8
  <2> QED BY <1>6, <1>7, <2>1
<1>11. \A i \in 1 .. Len(y) : q[i + (Len(d) + 1)] = y[i]
  <2> SUFFICES ASSUME NEW i \in 1 .. Len(y) PROVE q[i + (Len(d) + 1)] = y[i]
    OBVIOUS
  <2>1. i + (Len(d) + 1) = Len(h) + i
    BY <1>1, <1>3, <1>8
  <2> QED BY <1>7, <2>1
<1>12. Len(q) = 1 + Len(d) + Len(y)
  BY <1>7, <1>8
<1> QED BY <1>1, <1>2, <1>5, <1>7, <1>9, <1>10, <1>11, <1>12 DEF y

LEMMA PackType ==
  ASSUME NEW p \in Packets
  PROVE  Pack(p) \in Seq(Nat) /\ Len(Pack(p)) \in Nat /\ Len(Pack(p)) >= 2
<1> DEFINE d == Digits[Len(Rest(p))]
<1>1. Len(Rest(p)) \in Nat /\ DigitsOf(Len(Rest(p)), d)
      /\ Pack(p) \in Seq(Nat) /\ Len(Pack(p)) = 1 + Len(d) + Len(Rest(p))
  BY PackShape
<1>2. Len(d) >= 1 /\ d \in Seq(Nat)
  BY <1>1 DEF DigitsOf
<1>3. Len(d) \in Nat
  BY <1>2
<1> HIDE DEF d
<1> QED BY <1>1, <1>2, <1>3

LEMMA StreamDef ==
  \A s \in Seq(Packets) :
     /\ Stream[s] = IF s = << >> THEN << >> ELSE Pack(Head(s)) \o Stream[Tail(s)]
     /\ Stream[s] \in Seq(Nat)
<1> DEFINE D    == Seq(Packets)
           T    == Seq(Nat)
           m    == [s \in D |-> Len(s)]
           pred == [s \in D |-> IF s = << >> THEN s ELSE Tail(s)]
           base == [s \in D |-> << >>]
           step == [x \in D \X T |-> IF x[1] = << >> THEN << >> ELSE Pack(Head(x[1])) \o x[2]]
           Eq(f) == f = [s \in D |-> IF s = << >> THEN << >> ELSE Pack(Head(s)) \o f[Tail(s)]]
<1>1. /\ m \in [D -> Nat] /\ \A s \in D : m[s] = Len(s) /\ Len(s) \in Nat
      /\ base \in [D -> T] /\ \A s \in D : base[s] = << >>
  OBVIOUS
<1>2. \A s \in D : s # << >> => /\ Head(s) \in Packets /\ Tail(s) \in D
                                /\ Len(s) > 0 /\ Len(Tail(s)) = Len(s) - 1
  OBVIOUS
<1>3. pred \in [D -> D] /\ \A s \in D : s # << >> => pred[s] = Tail(s)
  BY <1>2
<1>4. \A s \in D, t \in T : s # << >> => Pack(Head(s)) \o t \in T
  <2> SUFFICES ASSUME NEW s \in D, NEW t \in T, s # << >> PROVE Pack(Head(s)) \o t \in T
    OBVIOUS
  <2>1. Pack(Head(s)) \in Seq(Nat) /\ t \in Seq(Nat)
    BY <1>2, PackType
  <2> QED BY <2>1
<1>5. step \in [D \X T -> T]
      /\ \A s \in D, t \in T : s # << >> => step[<<s, t>>] = Pack(Head(s)) \o t
  <2>1. << >> \in T
    OBVIOUS
  <2> HIDE DEF D, T
  <2> QED BY <1>4, <2>1
<1>6. Descends(D, T, m, pred, base, step)
  <2>1. \A s \in D : m[s] > 0 => m[pred[s]] < m[s]
    <3> SUFFICES ASSUME NEW s \in D, m[s] > 0 PROVE m[pred[s]] < m[s]
      OBVIOUS
    <3>1. Len(s) > 0 /\ s # << >>
      BY <1>1
    <3>2. pred[s] = Tail(s) /\ Tail(s) \in D /\ Len(Tail(s)) = Len(s) - 1 /\ Len(s) \in Nat
      BY <1>1, <1>2, <1>3, <3>1
    <3>3. m[pred[s]] = Len(s) - 1 /\ m[s] = Len(s)
      BY <1>1, <3>2
    <3> QED BY <3>2, <3>3
  <2> HIDE DEF D, T, m, pred, base, step
  <2> QED BY <1>1, <1>3, <1>5, <2>1 DEF Descends
<1> HIDE DEF m, pred, base, step
<1>7. Defined(D, T, m, pred, base, step)
  BY <1>6, Recursion
<1>8. PICK f \in [D -> T] :
         \A s \in D : f[s] = IF m[s] = 0 THEN base[s] ELSE step[<<s, f[pred[s]]>>]
  BY <1>7 DEF Defined
<1>9. \A s \in D : f[s] = IF s = << >> THEN << >> ELSE Pack(Head(s)) \o f[Tail(s)]
  <2> SUFFICES ASSUME NEW s \in D
               PROVE  f[s] = IF s = << >> THEN << >> ELSE Pack(Head(s)) \o f[Tail(s)]
    OBVIOUS
  <2>1. CASE s = << >>
    <3>1. m[s] = 0 /\ base[s] = << >>
      BY <1>1, <2>1
    <3> QED BY <1>8, <2>1, <3>1
  <2>2. CASE s # << >>
    <3>1. m[s] # 0 /\ pred[s] = Tail(s) /\ Tail(s) \in D
      BY <1>1, <1>2, <1>3, <2>2
    <3>2. f[Tail(s)] \in T
      BY <3>1
    <3>3. step[<<s, f[Tail(s)]>>] = Pack(Head(s)) \o f[Tail(s)]
      BY <1>5, <2>2, <3>2
    <3> QED BY <1>8, <2>2, <3>1, <3>3
  <2> QED BY <2>1, <2>2
<1>10. Eq(Stream)
  <2>1. Eq(f)
    BY <1>9
  <2>2. Stream = CHOOSE g : Eq(g)
    BY DEF Stream
  <2> HIDE DEF Eq
  <2> QED BY <2>1, <2>2
<1>11. \A s \in D : Stream[s] = IF s = << >> THEN << >> ELSE Pack(Head(s)) \o Stream[Tail(s)]
  BY <1>10
<1> DEFINE S == {n \in Nat : \A s \in D : Len(s) = n => Stream[s] \in T}
<1>12. ASSUME NEW n \in Nat, \A k \in Nat : k < n => k \in S
       PROVE  n \in S
  <2> SUFFICES ASSUME NEW s \in D, Len(s) = n PROVE Stream[s] \in T
    OBVIOUS
  <2>1. CASE s = << >>
    <3>1. << >> \in T
      OBVIOUS
    <3> QED BY <1>11, <2>1, <3>1
  <2>2. CASE s # << >>
    <3>1. Tail(s) \in D /\ Len(Tail(s)) \in Nat /\ Len(Tail(s)) < n
      BY <1>2, <2>2
    <3>2. Stream[Tail(s)] \in T
      BY <1>12, <3>1
    <3>3. Pack(Head(s)) \o Stream[Tail(s)] \in T
      BY <1>4, <2>2, <3>2
    <3> QED BY <1>11, <2>2, <3>3
  <2> QED BY <2>1, <2>2
<1> HIDE DEF S
<1>13. \A n \in Nat : n \in S
  BY <1>12, CompleteInduction
<1>14. \A s \in D : Stream[s] \in T
  <2> USE DEF S
  <2> QED BY <1>1, <1>13
<1> HIDE DEF D, T
<1>15. \A s \in D : /\ Stream[s] = IF s = << >> THEN << >> ELSE Pack(Head(s)) \o Stream[Tail(s)]
                    /\ Stream[s] \in T
  BY <1>11, <1>14
<1> QED BY <1>15 DEF D, T

\* A packet that is sent comes last.
LEMMA StreamAppend ==
  \A s \in Seq(Packets), p \in Packets : Stream[Append(s, p)] = Stream[s] \o Pack(p)
<1> DEFINE D == Seq(Packets)
           S == {n \in Nat : \A s \in D, p \in Packets :
                                Len(s) = n => Stream[Append(s, p)] = Stream[s] \o Pack(p)}
<1>1. ASSUME NEW n \in Nat, \A k \in Nat : k < n => k \in S
      PROVE  n \in S
  <2> SUFFICES ASSUME NEW s \in D, NEW p \in Packets, Len(s) = n
               PROVE  Stream[Append(s, p)] = Stream[s] \o Pack(p)
    OBVIOUS
  <2> DEFINE a == Append(s, p)
  <2>1. a \in D /\ a # << >> /\ Head(a) = (IF s = << >> THEN p ELSE Head(s))
        /\ Tail(a) = IF s = << >> THEN << >> ELSE Append(Tail(s), p)
    BY HeadTailAppend, AppendProperties
  <2> HIDE DEF a
  <2>2. Stream[a] = Pack(Head(a)) \o Stream[Tail(a)]
    BY <2>1, StreamDef
  <2>3. Pack(p) \in Seq(Nat)
    BY PackType
  <2>4. CASE s = << >>
    <3>1. << >> \in D
      OBVIOUS
    <3>2. Stream[<< >>] = << >>
      BY <3>1, StreamDef
    <3>3. Stream[a] = Pack(p) \o << >> /\ Stream[s] \o Pack(p) = << >> \o Pack(p)
      BY <2>1, <2>2, <2>4, <3>2
    <3>4. Pack(p) \o << >> = Pack(p) /\ << >> \o Pack(p) = Pack(p)
      BY <2>3, ConcatEmptySeq
    <3> QED BY <3>3, <3>4 DEF a
  <2>5. CASE s # << >>
    <3> DEFINE h == Pack(Head(s))
               t == Tail(s)
    <3>1. Head(s) \in Packets /\ t \in D /\ Len(t) \in Nat /\ Len(t) < n
      BY <2>5
    <3>2. Stream[Append(t, p)] = Stream[t] \o Pack(p)
      <4> HIDE DEF t
      <4> QED BY <1>1, <3>1
    <3>3. Stream[s] = h \o Stream[t] /\ Stream[t] \in Seq(Nat)
      BY <2>5, <3>1, StreamDef
    <3>4. h \in Seq(Nat)
      BY <3>1, PackType
    <3>5. Stream[a] = h \o (Stream[t] \o Pack(p))
      BY <2>1, <2>2, <2>5, <3>2
    <3> DEFINE c == Stream[t]
               q == Pack(p)
    <3>6. h \in Seq(Nat) /\ c \in Seq(Nat) /\ q \in Seq(Nat)
      BY <2>3, <3>3, <3>4
    <3> HIDE DEF h, c, q
    <3>7. (h \o c) \o q = h \o (c \o q)
      BY <3>6, Associative
    <3> HIDE DEF t
    <3> QED BY <3>3, <3>5, <3>7 DEF a, c, q
  <2> QED BY <2>4, <2>5
<1> HIDE DEF S
<1>2. \A n \in Nat : n \in S
  BY <1>1, CompleteInduction
<1>3. \A s \in D : Len(s) \in Nat
  OBVIOUS
<1> QED BY <1>2, <1>3 DEF S
-----------------------------------------------------------------------------
\* b is in the buffer and w still on its way, and together they are the packet
\* q and what follows it.
LEMMA Prefix ==
  ASSUME NEW b \in Seq(Nat), NEW w \in Seq(Nat), NEW q \in Seq(Nat), NEW c \in Seq(Nat),
         b \o w = q \o c
  PROVE  \A i \in 1 .. Len(b) : i <= Len(q) => b[i] = q[i]
<1>1. \A i \in 1 .. Len(b) : (b \o w)[i] = b[i]
  BY Joined
<1>2. \A i \in 1 .. Len(q) : (q \o c)[i] = q[i]
  BY Joined
<1>3. Len(b) \in Nat /\ Len(q) \in Nat
  OBVIOUS
<1>4. \A i \in 1 .. Len(b) : i <= Len(q) => i \in 1 .. Len(q)
  BY <1>3
<1> QED BY <1>1, <1>2, <1>4

LEMMA Remainder ==
  ASSUME NEW b \in Seq(Nat), NEW w \in Seq(Nat), NEW q \in Seq(Nat), NEW c \in Seq(Nat),
         b \o w = q \o c, Len(q) <= Len(b)
  PROVE  /\ SubSeq(b, Len(q) + 1, Len(b)) \in Seq(Nat)
         /\ Len(SubSeq(b, Len(q) + 1, Len(b))) = Len(b) - Len(q)
         /\ SubSeq(b, Len(q) + 1, Len(b)) \o w = c
<1> DEFINE B == Len(b)
           Q == Len(q)
           r == SubSeq(b, Q + 1, B)
           x == b \o w
           y == r \o w
<1>1. B \in Nat /\ Q \in Nat /\ Len(w) \in Nat /\ Len(c) \in Nat /\ Q <= B
  OBVIOUS
<1>2. \A i \in 1 .. B : b[i] \in Nat
  BY ElementOfSeq
<1>3. /\ Len(x) = B + Len(w)
      /\ (\A i \in 1 .. B : x[i] = b[i]) /\ \A i \in 1 .. Len(w) : x[B + i] = w[i]
  <2>1. Len(x) = B + Len(w)
    BY Joined
  <2>2. \A i \in 1 .. B : x[i] = b[i]
    BY Joined
  <2>3. \A i \in 1 .. Len(w) : x[B + i] = w[i]
    BY Joined
  <2> QED BY <2>1, <2>2, <2>3
<1>4. Len(x) = Q + Len(c) /\ \A i \in 1 .. Len(c) : x[Q + i] = c[i]
  <2>1. Len(q \o c) = Q + Len(c) /\ \A i \in 1 .. Len(c) : (q \o c)[Q + i] = c[i]
    BY Joined
  <2> QED BY <2>1
<1> HIDE DEF x, B, Q
<1>5. r \in Seq(Nat) /\ Len(r) = B - Q /\ \A i \in 1 .. B - Q : r[i] = b[Q + i]
  <2> DEFINE a == Q + 1
  <2>1. a \in Int /\ B \in Int /\ \A i \in a .. B : b[i] \in Nat
    BY <1>1, <1>2
  <2>2. /\ SubSeq(b, a, B) \in Seq(Nat)
        /\ Len(SubSeq(b, a, B)) = IF a <= B THEN B - a + 1 ELSE 0
        /\ \A i \in 1 .. B - a + 1 : SubSeq(b, a, B)[i] = b[a + i - 1]
    <3> HIDE DEF a
    <3> QED BY <2>1, SubSeqProperties
  <2>3. B - a + 1 = B - Q /\ \A i \in 1 .. B - Q : a + i - 1 = Q + i
    BY <1>1
  <2>4. (IF a <= B THEN B - a + 1 ELSE 0) = B - Q
    BY <1>1
  <2> QED BY <2>2, <2>3, <2>4
<1> HIDE DEF r
<1>6. /\ y \in Seq(Nat) /\ Len(y) = Len(r) + Len(w)
      /\ (\A i \in 1 .. Len(r) : y[i] = r[i]) /\ \A i \in 1 .. Len(w) : y[Len(r) + i] = w[i]
  <2>1. r \in Seq(Nat) /\ w \in Seq(Nat)
    BY <1>5
  <2> QED BY <2>1, Joined
<1> HIDE DEF y
<1>7. Len(y) = Len(c)
  <2>1. B + Len(w) = Q + Len(c)
    BY <1>3, <1>4
  <2>2. Len(y) = (B - Q) + Len(w)
    BY <1>5, <1>6
  <2> QED BY <1>1, <2>1, <2>2
<1>8. \A i \in 1 .. Len(y) : y[i] = c[i]
  <2> SUFFICES ASSUME NEW i \in 1 .. Len(y) PROVE y[i] = c[i]
    OBVIOUS
  <2>1. i \in 1 .. Len(c) /\ i \in Nat
    BY <1>1, <1>7
  <2>2. x[Q + i] = c[i]
    BY <1>4, <2>1
  <2>3. CASE i <= B - Q
    <3>1. i \in 1 .. Len(r) /\ i \in 1 .. B - Q /\ Q + i \in 1 .. B
      BY <1>1, <1>5, <2>1, <2>3
    <3> QED BY <1>3, <1>5, <1>6, <2>2, <3>1
  <2>4. CASE ~(i <= B - Q)
    <3> DEFINE j == i - (B - Q)
    <3>1. j \in 1 .. Len(w) /\ Len(r) + j = i /\ B + j = Q + i
      BY <1>1, <1>3, <1>4, <1>5, <1>7, <2>1, <2>4
    <3> HIDE DEF j
    <3>2. y[Len(r) + j] = w[j] /\ x[B + j] = w[j]
      BY <1>3, <1>6, <3>1
    <3> QED BY <2>2, <3>1, <3>2
  <2> QED BY <2>3, <2>4
<1>9. y = c
  BY <1>6, <1>7, <1>8, SeqEqual
<1> QED BY <1>5, <1>9 DEF r, y, B, Q

\* What mqtt_unpack_response makes of a buffer that starts with the packet p:
\* it is handed over whole and as it was sent, or not at all; a packet with all
\* its fields that fits is never refused, and only waited for.
Right(b, p) ==
    /\ Unpack(b).kind = "packet" => /\ Legal(p) /\ Len(Pack(p)) <= Len(b)
                                    /\ Unpack(b).consumed = Len(Pack(p))
                                    /\ Unpack(b).packet = p
    /\ Legal(p) /\ Fits(p) => /\ Unpack(b).kind # "error"
                              /\ Unpack(b).kind = "incomplete" => Len(b) < Len(Pack(p))

LEMMA UnpackRight ==
  ASSUME NEW p \in Packets, NEW b \in Seq(Nat), NEW w \in Seq(Nat), NEW c \in Seq(Nat),
         b \o w = Pack(p) \o c, Len(b) <= RecvSize
  PROVE  Right(b, p)
<1> DEFINE y == Rest(p)
           d == Digits[Len(y)]
           k == Len(d)
           n == Len(y)
           q == Pack(p)
           ends == {i \in 2 .. Len(b) : b[i] < Base}
           last == CHOOSE i \in ends : \A j \in ends : i <= j
           u == Unpack(b)
           num == Remaining(b, last)
           rest == SubSeq(b, last + 1, last + num)
<1>1. /\ n \in Nat /\ DigitsOf(n, d) /\ q \in Seq(Nat) /\ Len(q) = 1 + k + n
      /\ q[1] = p.type /\ (\A i \in 1 .. k : q[i + 1] = d[i])
      /\ \A i \in 1 .. n : q[i + (k + 1)] = y[i]
  <2> HIDE DEF d
  <2>1. d = Digits[Len(Rest(p))]
    BY DEF d
  <2>2. /\ Len(Rest(p)) \in Nat /\ DigitsOf(Len(Rest(p)), d)
        /\ Pack(p) \in Seq(Nat) /\ Len(Pack(p)) = 1 + Len(d) + Len(Rest(p))
        /\ Pack(p)[1] = p.type
        /\ \A i \in 1 .. Len(d) : Pack(p)[i + 1] = d[i]
        /\ \A i \in 1 .. Len(Rest(p)) : Pack(p)[i + (Len(d) + 1)] = Rest(p)[i]
    BY <2>1, PackShape, Zenon
  <2> QED BY <2>2
<1>2. /\ d \in Seq(Nat) /\ k \in Nat /\ k >= 1 /\ (\A i \in 1 .. k - 1 : d[i] >= Base)
      /\ d[k] < Base /\ Number[d] = n
  <2>1. d \in Seq(Nat) /\ Len(d) >= 1 /\ (\A i \in 1 .. Len(d) - 1 : d[i] >= Base)
        /\ d[Len(d)] < Base /\ Number[d] = n
    <3> HIDE DEF n, y
    <3> QED BY <1>1 DEF DigitsOf
  <2> HIDE DEF d
  <2> QED BY <2>1
<1>3. \A i \in 1 .. Len(b) : i <= Len(q) => b[i] = q[i]
  <2> HIDE DEF q
  <2> QED BY <1>1, Prefix DEF q
<1>4. y \in Seq(Nat) /\ p.type \in Nat
  BY PacketShape
<1>5. Len(b) \in Nat /\ RecvSize \in Nat /\ MaxDigits \in Nat /\ Base \in Nat
  BY Sizes
<1>6. u = IF ends = {} \/ last > MaxDigits + 1
          THEN IF Len(b) > MaxDigits THEN Malformed("INVALID_REMAINING_LENGTH") ELSE Incomplete
          ELSE IF b[1] = FORBIDDEN THEN Malformed("CONTROL_FORBIDDEN_TYPE")
          ELSE IF ~Complete(b, last, num) THEN Incomplete
          ELSE IF ~Accepted(b[1], rest) THEN Malformed("MALFORMED_RESPONSE")
          ELSE Unpacked(last + (IF b[1] = PINGRESP THEN 0 ELSE num), Decoded(b[1], rest))
  BY DEF Unpack
<1>7. \A e : Malformed(e).kind = "error" /\ Malformed(e).kind # "packet"
  BY DEF Malformed
<1>8. Incomplete.kind = "incomplete" /\ Incomplete.kind # "packet" /\ Incomplete.kind # "error"
  BY DEF Incomplete
<1>9. Legal(p) /\ Fits(p) => k <= MaxDigits
  <2> SUFFICES ASSUME Fits(p) PROVE k <= MaxDigits
    OBVIOUS
  <2>1. n \in 0 .. RecvSize
    BY <1>1, <1>2, <1>5 DEF Fits
  <2> HIDE DEF n
  <2>2. Len(Digits[n]) <= MaxDigits
    BY <2>1, PacketsAssumption
  <2> QED BY <2>2 DEF n
<1>10. Legal(p) => Undone(p)
  BY LegalUndone
<1>11. ~Legal(p) => ~Fits(p) \/ p.type = FORBIDDEN \/ ~Accepted(p.type, y)
  BY PacketShape
<1>12. \A e, f : Unpacked(e, f).kind = "packet" /\ Unpacked(e, f).consumed = e /\ Unpacked(e, f).packet = f
  BY DEF Unpacked
<1>13. Fits(p) <=> Len(q) <= RecvSize
  BY DEF Fits
<1>14. Right(b, p) <=> /\ u.kind = "packet" => /\ Legal(p) /\ Len(q) <= Len(b)
                                               /\ u.consumed = Len(q) /\ u.packet = p
                       /\ Legal(p) /\ Fits(p) => /\ u.kind # "error"
                                                 /\ u.kind = "incomplete" => Len(b) < Len(q)
  BY DEF Right
<1> HIDE DEF y, d, k, n, q, u
<1>15. n \in Nat /\ k \in Nat /\ k >= 1 /\ Len(q) = 1 + k + n /\ Len(b) \in Nat /\ MaxDigits \in Nat
  BY <1>1, <1>2, <1>5
<1>16. CASE Len(b) < k + 1
  <2>1. \A i \in 2 .. Len(b) : ~(b[i] < Base)
    <3> SUFFICES ASSUME NEW i \in 2 .. Len(b) PROVE ~(b[i] < Base)
      OBVIOUS
    <3>1. i \in 1 .. Len(b) /\ i <= Len(q) /\ i - 1 \in 1 .. k - 1 /\ i - 1 \in 1 .. k
          /\ (i - 1) + 1 = i
      BY <1>1, <1>2, <1>5, <1>16
    <3>2. b[i] = d[i - 1] /\ d[i - 1] >= Base /\ d[i - 1] \in Nat
      <4>1. b[i] = q[i] /\ q[i] = d[i - 1] /\ d[i - 1] >= Base
        BY <1>1, <1>2, <1>3, <3>1
      <4>2. k = Len(d)
        BY DEF k
      <4>3. d[i - 1] \in Nat
        BY <1>2, <3>1, <4>2, ElementOfSeq
      <4> QED BY <4>1, <4>3
    <3> QED BY <1>5, <3>2
  <2>2. ends = {}
    BY <2>1
  <2> HIDE DEF ends, last
  <2>3. u = IF Len(b) > MaxDigits THEN Malformed("INVALID_REMAINING_LENGTH") ELSE Incomplete
    BY <1>6, <2>2
  <2>4. u.kind # "packet"
    BY <1>7, <1>8, <2>3
  <2>5. ASSUME Legal(p), Fits(p) PROVE u = Incomplete /\ Len(b) < Len(q)
    <3>1. ~(Len(b) > MaxDigits) /\ Len(b) < Len(q)
      <4>1. k <= MaxDigits
        BY <1>9, <2>5
      <4> QED BY <1>15, <1>16, <4>1
    <3> QED BY <2>3, <3>1
  <2> QED BY <1>8, <1>14, <2>4, <2>5
<1>17. CASE ~(Len(b) < k + 1)
  <2>1. k + 1 \in ends /\ \A j \in ends : k + 1 <= j
    <3>1. k + 1 \in 2 .. Len(b) /\ k + 1 <= Len(q) /\ k + 1 \in 1 .. Len(b) /\ k \in 1 .. k
      BY <1>15, <1>17
    <3>2. b[k + 1] = d[k]
      BY <1>1, <1>3, <3>1
    <3>3. \A j \in ends : k + 1 <= j
      <4> SUFFICES ASSUME NEW j \in 2 .. Len(b), b[j] < Base, j < k + 1 PROVE FALSE
        BY <1>2, <1>5
      <4>1. j \in 1 .. Len(b) /\ j <= Len(q) /\ j - 1 \in 1 .. k - 1 /\ j - 1 \in 1 .. k
            /\ (j - 1) + 1 = j
        BY <1>1, <1>2, <1>5
      <4>2. b[j] = d[j - 1] /\ d[j - 1] >= Base
        BY <1>1, <1>2, <1>3, <4>1
      <4>3. b[j] \in Nat
        BY <4>1, ElementOfSeq
      <4> QED BY <1>5, <4>2, <4>3
    <3> QED BY <1>2, <3>1, <3>2, <3>3
  <2>2. last = k + 1
    <3>1. ends \subseteq Nat
      BY <1>5
    <3>2. last \in ends /\ \A j \in ends : last <= j
      <4> HIDE DEF ends
      <4> QED BY <2>1
    <3> HIDE DEF ends, last
    <3>3. last <= k + 1 /\ k + 1 <= last /\ last \in Nat
      BY <2>1, <3>1, <3>2
    <3> QED BY <1>2, <3>3
  <2>3. ends # {}
    BY <2>1
  <2> HIDE DEF ends, last
  <2>4. SubSeq(b, 2, k + 1) = d
    <3> DEFINE s == SubSeq(b, 2, k + 1)
    <3>1. k + 1 \in Int /\ 2 \in Int /\ \A i \in 2 .. k + 1 : b[i] \in Nat
      <4>1. \A i \in 2 .. k + 1 : i \in 1 .. Len(b)
        BY <1>2, <1>5, <1>17
      <4> QED BY <1>2, <4>1, ElementOfSeq
    <3>2. /\ s \in Seq(Nat) /\ Len(s) = IF 2 <= k + 1 THEN (k + 1) - 2 + 1 ELSE 0
          /\ \A i \in 1 .. (k + 1) - 2 + 1 : s[i] = b[2 + i - 1]
      <4> DEFINE e == k + 1
      <4>1. e \in Int /\ 2 \in Int /\ \A i \in 2 .. e : b[i] \in Nat
        BY <3>1
      <4> HIDE DEF e
      <4>2. /\ SubSeq(b, 2, e) \in Seq(Nat) /\ Len(SubSeq(b, 2, e)) = IF 2 <= e THEN e - 2 + 1 ELSE 0
            /\ \A i \in 1 .. e - 2 + 1 : SubSeq(b, 2, e)[i] = b[2 + i - 1]
        BY <4>1, SubSeqProperties
      <4> QED BY <4>2 DEF e
    <3> HIDE DEF s
    <3>3. Len(s) = k
      BY <1>2, <3>2
    <3>4. \A i \in 1 .. k : s[i] = d[i]
      <4> SUFFICES ASSUME NEW i \in 1 .. k PROVE s[i] = d[i]
        OBVIOUS
      <4>1. i \in 1 .. (k + 1) - 2 + 1 /\ 2 + i - 1 = i + 1 /\ i + 1 \in 1 .. Len(b) /\ i + 1 <= Len(q)
        BY <1>15, <1>17
      <4>2. s[i] = b[i + 1] /\ b[i + 1] = q[i + 1] /\ q[i + 1] = d[i]
        BY <1>1, <1>3, <3>2, <4>1
      <4> QED BY <4>2
    <3>5. s = d
      <4>1. Len(d) = k
        BY DEF k
      <4> QED BY <1>2, <3>2, <3>3, <3>4, <4>1, SeqEqual
    <3> QED BY <3>5 DEF s
  <2>5. num = n
    BY <1>2, <2>2, <2>4 DEF Remaining
  <2> HIDE DEF num
  <2>6. b[1] = p.type
    <3>1. 1 \in 1 .. Len(b) /\ 1 <= Len(q)
      BY <1>15, <1>17
    <3> QED BY <1>1, <1>3, <3>1
  <2>7. Complete(b, last, num) <=> Len(q) <= Len(b)
    <3>1. last + num = Len(q)
      BY <1>1, <1>2, <2>2, <2>5
    <3> QED BY <1>1, <1>2, <1>5, <3>1 DEF Complete
  <2>8. Len(q) <= Len(b) => rest = y
    <3> SUFFICES ASSUME Len(q) <= Len(b) PROVE SubSeq(b, (k + 1) + 1, (k + 1) + n) = y
      BY <2>2, <2>5
    <3> DEFINE a == (k + 1) + 1
               e == (k + 1) + n
               s == SubSeq(b, a, e)
    <3>1. a \in Int /\ e \in Int /\ \A i \in a .. e : b[i] \in Nat
      <4>1. \A i \in a .. e : i \in 1 .. Len(b)
        BY <1>15
      <4> QED BY <1>15, <4>1, ElementOfSeq
    <3>2. /\ s \in Seq(Nat) /\ Len(s) = IF a <= e THEN e - a + 1 ELSE 0
          /\ \A i \in 1 .. e - a + 1 : s[i] = b[a + i - 1]
      <4> HIDE DEF a, e
      <4> QED BY <3>1, SubSeqProperties
    <3> HIDE DEF s
    <3>3. Len(s) = n
      BY <1>1, <1>2, <3>2
    <3>4. \A i \in 1 .. n : s[i] = y[i]
      <4> SUFFICES ASSUME NEW i \in 1 .. n PROVE s[i] = y[i]
        OBVIOUS
      <4>1. i \in 1 .. e - a + 1 /\ a + i - 1 = i + (k + 1) /\ i + (k + 1) \in 1 .. Len(b)
            /\ i + (k + 1) <= Len(q)
        BY <1>1, <1>2, <1>5
      <4>2. s[i] = b[i + (k + 1)]
        BY <3>2, <4>1
      <4>3. b[i + (k + 1)] = q[i + (k + 1)] /\ q[i + (k + 1)] = y[i]
        BY <1>1, <1>3, <4>1
      <4> QED BY <4>2, <4>3
    <3>5. s = y
      <4>1. Len(y) = n
        BY DEF n
      <4> QED BY <1>4, <3>2, <3>3, <3>4, <4>1, SeqEqual
    <3> QED BY <3>5 DEF s
  <2> HIDE DEF rest
  <2>9. CASE last > MaxDigits + 1
    <3>1. Len(b) > MaxDigits /\ ~(k <= MaxDigits)
      BY <1>2, <1>5, <1>17, <2>2, <2>9
    <3>2. u = Malformed("INVALID_REMAINING_LENGTH")
      BY <1>6, <2>9, <3>1
    <3> QED BY <1>7, <1>9, <1>14, <3>1, <3>2
  <2>10. CASE ~(last > MaxDigits + 1)
    <3>1. CASE b[1] = FORBIDDEN
      <4>1. u = Malformed("CONTROL_FORBIDDEN_TYPE")
        BY <1>6, <2>3, <2>10, <3>1
      <4>2. ~Legal(p)
        BY <1>10, <2>6, <3>1 DEF Undone, FORBIDDEN, PINGRESP, PUBLISH1
      <4> QED BY <1>7, <1>14, <4>1, <4>2
    <3>2. CASE b[1] # FORBIDDEN /\ ~Complete(b, last, num)
      <4>1. u = Incomplete
        BY <1>6, <2>3, <2>10, <3>2
      <4>2. Len(b) < Len(q)
        BY <1>1, <1>2, <1>5, <2>7, <3>2
      <4> QED BY <1>8, <1>14, <4>1, <4>2
    <3>3. CASE b[1] # FORBIDDEN /\ Complete(b, last, num) /\ ~Accepted(b[1], rest)
      <4>1. u = Malformed("MALFORMED_RESPONSE")
        BY <1>6, <2>3, <2>10, <3>3
      <4>2. ~Accepted(p.type, y)
        BY <2>6, <2>7, <2>8, <3>3
      <4>3. ~Legal(p)
        BY <1>10, <4>2 DEF Undone, y
      <4> QED BY <1>7, <1>14, <4>1, <4>3
    <3>4. CASE b[1] # FORBIDDEN /\ Complete(b, last, num) /\ Accepted(b[1], rest)
      <4>1. u = Unpacked(last + (IF b[1] = PINGRESP THEN 0 ELSE num), Decoded(b[1], rest))
        BY <1>6, <2>3, <2>10, <3>4
      <4>2. Len(q) <= Len(b) /\ rest = y /\ b[1] = p.type
        BY <2>6, <2>7, <2>8, <3>4
      <4>3. Fits(p)
        BY <1>1, <1>2, <1>5, <1>13, <4>2
      <4>4. Legal(p)
        BY <1>11, <3>4, <4>2, <4>3
      <4>5. Decoded(b[1], rest) = p
        BY <1>10, <4>2, <4>4 DEF Undone, y
      <4>6. last + (IF b[1] = PINGRESP THEN 0 ELSE num) = Len(q)
        <5>1. CASE b[1] = PINGRESP
          <6>1. y = << >>
            BY <1>10, <4>2, <4>4, <5>1 DEF Undone, y
          <6>2. n = 0
            BY <6>1 DEF n
          <6> QED BY <1>1, <1>2, <2>2, <5>1, <6>2
        <5>2. CASE b[1] # PINGRESP
          BY <1>1, <1>2, <2>2, <2>5, <5>2
        <5> QED BY <5>1, <5>2
      <4>7. u.kind = "packet" /\ u.consumed = Len(q) /\ u.packet = p
        BY <1>12, <4>1, <4>5, <4>6
      <4> QED BY <1>14, <4>2, <4>4, <4>7
    <3> QED BY <3>1, <3>2, <3>3, <3>4
  <2> QED BY <2>9, <2>10
<1> QED BY <1>16, <1>17
-----------------------------------------------------------------------------
\* The inductive invariant.  That the buffer starts a packet holds in error,
\* too: what is refused stays where it is.  A full buffer is an error.
RecvType == /\ wire \in Seq(Nat) /\ recv_buffer \in Seq(Nat) /\ expected \in Seq(Packets)
            /\ Len(recv_buffer) <= RecvSize
RecvInv  == /\ RecvType
            /\ recv_buffer \o wire = Stream[expected]
            /\ Len(recv_buffer) = RecvSize => recv_error # "OK"
            /\ NoFalseError

\* What recv() gives is moved from the wire to the buffer.
LEMMA ReceivedRight ==
  ASSUME RecvType, NEW k \in 0 .. Len(wire), Arrives(k)
  PROVE  /\ Received(k) \in Seq(Nat) /\ Len(Received(k)) \in Nat /\ Len(Received(k)) <= RecvSize
         /\ wire' \in Seq(Nat) /\ closed' = closed
         /\ Received(k) \o wire' = recv_buffer \o wire
<1> DEFINE f == SubSeq(wire, 1, k)
           g == SubSeq(wire, k + 1, Len(wire))
           r == recv_buffer
<1>1. /\ wire \in Seq(Nat) /\ r \in Seq(Nat) /\ Len(wire) \in Nat /\ Len(r) \in Nat
      /\ k \in Nat /\ k <= Len(wire) /\ k <= RecvSize - Len(r) /\ RecvSize \in Nat
      /\ wire' = g /\ closed' = closed
  BY Sizes DEF RecvType, Arrives
<1>2. f \o g = wire
  <2>1. 1 \in 1 .. Len(wire) + 1 /\ k \in 1 - 1 .. Len(wire) /\ Len(wire) \in k .. Len(wire)
    BY <1>1
  <2>2. f \o g = SubSeq(wire, 1, Len(wire))
    BY <1>1, <2>1, ConcatAdjacentSubSeq
  <2> QED BY <1>1, <2>2, SubSeqFull
<1>3. f \in Seq(Nat) /\ Len(f) = k
  <2>1. \A i \in 1 .. k : wire[i] \in Nat
    BY <1>1, ElementOfSeq
  <2>2. 1 \in Int /\ k \in Int
    BY <1>1
  <2>3. f \in Seq(Nat) /\ Len(f) = IF 1 <= k THEN k - 1 + 1 ELSE 0
    BY <2>1, <2>2, SubSeqProperties
  <2> QED BY <1>1, <2>3
<1>4. g \in Seq(Nat)
  <2> DEFINE a == k + 1
             b == Len(wire)
  <2>1. \A i \in a .. b : wire[i] \in Nat
    <3>1. \A i \in a .. b : i \in 1 .. Len(wire)
      BY <1>1
    <3> QED BY <1>1, <3>1, ElementOfSeq
  <2>2. a \in Int /\ b \in Int
    BY <1>1
  <2>3. SubSeq(wire, a, b) \in Seq(Nat)
    <3> HIDE DEF a, b
    <3> QED BY <2>1, <2>2, SubSeqProperties
  <2> QED BY <2>3
<1>5. Received(k) = r \o f
  BY DEF Received
<1> HIDE DEF f, g, r
<1>6. r \o f \in Seq(Nat) /\ Len(r \o f) = Len(r) + Len(f)
  BY <1>1, <1>3, ConcatProperties
<1>7. (r \o f) \o g = r \o wire
  <2>1. r \in Seq(Nat) /\ f \in Seq(Nat) /\ g \in Seq(Nat)
    BY <1>1, <1>3, <1>4
  <2>2. (r \o f) \o g = r \o (f \o g)
    BY <2>1, Associative
  <2> QED BY <1>2, <2>2
<1> QED BY <1>1, <1>3, <1>4, <1>5, <1>6, <1>7 DEF r

\* One pass of the loop: a packet is handed over as it was sent, or the client
\* waits, or it gives up with good reason.
LEMMA PassRight ==
  ASSUME RecvInv, NEW k \in 0 .. Len(wire), Pass(k)
  PROVE  RecvInv' /\ (response' # response => expected # << >> /\ response' = Head(expected))
<1> DEFINE b == Received(k)
           u == Unpack(b)
<1>1. /\ b \in Seq(Nat) /\ Len(b) \in Nat /\ Len(b) <= RecvSize
      /\ wire' \in Seq(Nat) /\ closed' = closed /\ b \o wire' = Stream[expected]
  <2>1. RecvType /\ Arrives(k) /\ recv_buffer \o wire = Stream[expected]
    BY DEF RecvInv, Pass
  <2> QED BY <2>1, ReceivedRight
<1>2. Hand(b, u) \/ Wait(b, u) \/ Refuse(b, u)
  BY DEF Pass
<1>3. expected \in Seq(Packets) /\ NoFalseError
  BY DEF RecvInv, RecvType
<1>4. RecvSize \in Nat /\ RecvSize > 0 /\ MaxDigits \in Nat
  BY MqttRecvAssumption
<1> HIDE DEF b
<1>5. CASE expected = << >>
  <2>1. b = << >>
    <3>1. Stream[expected] = << >>
      BY <1>3, <1>5, StreamDef
    <3>2. b \o wire' = << >>
      BY <1>1, <3>1
    <3>3. Len(b) = 0
      <4> DEFINE w == wire'
      <4>1. b \in Seq(Nat) /\ w \in Seq(Nat) /\ b \o w = << >>
        BY <1>1, <3>2
      <4> HIDE DEF w
      <4>2. b = << >>
        BY <4>1, ConcatEqualIffEmpty
      <4> QED BY <4>2
    <3> QED BY <1>1, <3>3
  <2>2. u = Incomplete
    <3>1. {i \in 2 .. Len(b) : b[i] < Base} = {} /\ ~(Len(b) > MaxDigits)
      BY <1>4, <2>1
    <3> QED BY <3>1 DEF Unpack
  <2>3. Wait(b, u)
    BY <1>2, <2>2 DEF Hand, Refuse, Incomplete
  <2>4. recv_buffer' = b /\ recv_error' = recv_error /\ response' = response /\ expected' = expected
    BY <1>4, <2>1, <2>3 DEF Wait, TooSmall
  <2>5. NoFalseError'
    BY <1>1, <1>3, <2>4 DEF NoFalseError
  <2>6. Len(recv_buffer') # RecvSize
    BY <1>4, <2>1, <2>4
  <2> QED BY <1>1, <1>3, <2>4, <2>5, <2>6 DEF RecvInv, RecvType
<1>6. CASE expected # << >>
  <2> DEFINE p == Head(expected)
             q == Pack(p)
             c == Stream[Tail(expected)]
  <2>1. p \in Packets /\ Tail(expected) \in Seq(Packets)
    BY <1>3, <1>6
  <2>2. q \in Seq(Nat) /\ Len(q) \in Nat /\ Len(q) >= 2
    BY <2>1, PackType
  <2>3. c \in Seq(Nat) /\ b \o wire' = q \o c
    BY <1>1, <1>3, <1>6, <2>1, StreamDef
  <2>4. Right(b, p)
    <3> HIDE DEF c, p
    <3> QED BY <1>1, <2>1, <2>3, UnpackRight DEF q
  <2>5. Fits(p) <=> Len(q) <= RecvSize
    BY DEF Fits
  <2>6. /\ u.kind = "packet" => /\ Legal(p) /\ Len(q) <= Len(b)
                                /\ u.consumed = Len(q) /\ u.packet = p
        /\ Legal(p) /\ Fits(p) => /\ u.kind # "error"
                                  /\ u.kind = "incomplete" => Len(b) < Len(q)
    BY <2>4 DEF Right
  <2>7. recv_error # "OK" => closed \/ ~(Legal(p) /\ Fits(p))
    BY <1>3, <1>6 DEF NoFalseError
  <2> HIDE DEF u, q, c
  <2>8. CASE Hand(b, u)
    <3>1. /\ u.kind = "packet" /\ recv_buffer' = SubSeq(b, u.consumed + 1, Len(b))
          /\ response' = u.packet /\ expected' = Tail(expected) /\ recv_error' = recv_error
      BY <1>6, <2>8 DEF Hand, Leftover
    <3>2. Legal(p) /\ Len(q) <= Len(b) /\ u.consumed = Len(q) /\ u.packet = p
      BY <2>6, <3>1
    <3>3. /\ SubSeq(b, Len(q) + 1, Len(b)) \in Seq(Nat)
          /\ Len(SubSeq(b, Len(q) + 1, Len(b))) = Len(b) - Len(q)
          /\ SubSeq(b, Len(q) + 1, Len(b)) \o wire' = c
      <4> DEFINE w == wire'
      <4>1. /\ b \in Seq(Nat) /\ w \in Seq(Nat) /\ q \in Seq(Nat) /\ c \in Seq(Nat)
            /\ b \o w = q \o c /\ Len(q) <= Len(b)
        BY <1>1, <2>2, <2>3, <3>2
      <4> HIDE DEF w
      <4>2. /\ SubSeq(b, Len(q) + 1, Len(b)) \in Seq(Nat)
            /\ Len(SubSeq(b, Len(q) + 1, Len(b))) = Len(b) - Len(q)
            /\ SubSeq(b, Len(q) + 1, Len(b)) \o w = c
        BY <4>1, Remainder
      <4> QED BY <4>2 DEF w
    <3>4. recv_buffer' \in Seq(Nat) /\ Len(recv_buffer') = Len(b) - Len(q)
          /\ recv_buffer' \o wire' = Stream[expected']
      BY <3>1, <3>2, <3>3 DEF c
    <3>5. Len(recv_buffer') < RecvSize /\ Len(recv_buffer') <= RecvSize /\ Len(recv_buffer') # RecvSize
      <4> DEFINE m == Len(recv_buffer')
      <4>1. m = Len(b) - Len(q) /\ Len(b) <= RecvSize
        BY <1>1, <3>4
      <4> HIDE DEF m
      <4>2. m < RecvSize
        BY <1>1, <1>4, <2>2, <3>2, <4>1
      <4>3. m <= RecvSize /\ m # RecvSize
        BY <1>1, <1>4, <2>2, <3>2, <4>1
      <4> QED BY <4>2, <4>3 DEF m
    <3>6. Fits(p)
      BY <1>1, <1>4, <2>2, <2>5, <3>2
    <3>7. recv_error' # "OK" => closed'
      BY <1>1, <2>7, <3>1, <3>2, <3>6
    <3>8. NoFalseError'
      BY <3>7 DEF NoFalseError
    <3>9. response' = p
      BY <3>1, <3>2
    <3>10. RecvType'
      BY <1>1, <2>1, <3>1, <3>4, <3>5 DEF RecvType
    <3> QED BY <1>6, <3>4, <3>5, <3>8, <3>9, <3>10 DEF RecvInv
  <2>9. CASE Wait(b, u)
    <3>1. /\ u.kind = "incomplete" /\ recv_buffer' = b /\ response' = response /\ expected' = expected
          /\ recv_error' = IF Len(b) = RecvSize THEN "RECV_BUFFER_TOO_SMALL" ELSE recv_error
      BY <2>9 DEF Wait, TooSmall
    <3>2. Len(b) = RecvSize => ~(Legal(p) /\ Fits(p))
      BY <1>1, <1>4, <2>2, <2>5, <2>6, <3>1
    <3>3. recv_error' # "OK" => closed' \/ ~(Legal(p) /\ Fits(p))
      BY <1>1, <2>7, <3>1, <3>2
    <3>4. NoFalseError'
      BY <1>6, <3>1, <3>3 DEF NoFalseError
    <3>5. Len(b) = RecvSize => recv_error' # "OK"
      BY <3>1
    <3> QED BY <1>1, <1>3, <3>1, <3>4, <3>5 DEF RecvInv, RecvType
  <2>10. CASE Refuse(b, u)
    <3>1. /\ u.kind = "error" /\ recv_buffer' = b /\ response' = response /\ expected' = expected
          /\ recv_error' = u.error
      BY <2>10 DEF Refuse
    <3>2. ~(Legal(p) /\ Fits(p))
      BY <2>6, <3>1
    <3>3. NoFalseError'
      BY <1>6, <3>1, <3>2 DEF NoFalseError
    <3>4. u.error # "OK"
      <4>1. Unpack(b).kind = "error" => Unpack(b).error # "OK"
        BY DEF Unpack, Malformed, Incomplete, Unpacked
      <4> QED BY <3>1, <4>1 DEF u
    <3> QED BY <1>1, <1>3, <3>1, <3>3, <3>4 DEF RecvInv, RecvType
  <2> QED BY <1>2, <2>8, <2>9, <2>10
<1> QED BY <1>5, <1>6

LEMMA RecvHolds == RSpec => []RecvInv
<1>1. RInit => RecvInv
  <2> SUFFICES ASSUME RInit PROVE RecvInv
    OBVIOUS
  <2>1. << >> \in Seq(Packets) /\ << >> \in Seq(Nat) /\ Len(<< >>) = 0 /\ << >> \o << >> = << >>
    OBVIOUS
  <2>2. Stream[<< >>] = << >>
    BY <2>1, StreamDef
  <2>3. RecvSize \in Nat /\ RecvSize > 0
    BY MqttRecvAssumption
  <2>4. wire = << >> /\ recv_buffer = << >> /\ expected = << >> /\ recv_error = "OK"
    BY DEF RInit
  <2> QED BY <2>1, <2>2, <2>3, <2>4 DEF RecvInv, RecvType, NoFalseError
<1>2. RecvInv /\ [RNext]_rvars => RecvInv'
  <2> SUFFICES ASSUME RecvInv, [RNext]_rvars PROVE RecvInv'
    OBVIOUS
  <2>1. CASE \E k \in 0 .. Len(wire) : Pass(k)
    BY <2>1, PassRight
  <2>2. CASE SocketError
    <3>1. /\ wire' = wire /\ closed' = closed /\ recv_buffer' = recv_buffer /\ expected' = expected
          /\ recv_error' = "SOCKET_ERROR" /\ (closed \/ Len(recv_buffer) = RecvSize)
      BY <2>2 DEF SocketError
    <3>2. closed \/ recv_error # "OK"
      BY <3>1 DEF RecvInv
    <3>3. NoFalseError'
      BY <3>1, <3>2 DEF RecvInv, NoFalseError
    <3> QED BY <3>1, <3>3 DEF RecvInv, RecvType
  <2>3. CASE \E p \in Packets : Send(p)
    <3>1. PICK p \in Packets : Send(p)
      BY <2>3
    <3> DEFINE q == Pack(p)
               e == expected
    <3>2. /\ wire' = wire \o q /\ expected' = Append(e, p) /\ closed' = closed
          /\ recv_buffer' = recv_buffer /\ recv_error' = recv_error
      BY <3>1 DEF Send
    <3>3. /\ wire \in Seq(Nat) /\ recv_buffer \in Seq(Nat) /\ e \in Seq(Packets)
          /\ recv_buffer \o wire = Stream[e]
      BY DEF RecvInv, RecvType
    <3>4. q \in Seq(Nat)
      BY PackType
    <3>5. Stream[Append(e, p)] = Stream[e] \o q
      BY <3>3, StreamAppend
    <3> HIDE DEF q, e
    <3>6. recv_buffer \o (wire \o q) = (recv_buffer \o wire) \o q
      <4> DEFINE r == recv_buffer
                 w == wire
      <4>1. r \in Seq(Nat) /\ w \in Seq(Nat) /\ q \in Seq(Nat)
        BY <3>3, <3>4
      <4> HIDE DEF r, w
      <4>2. (r \o w) \o q = r \o (w \o q)
        BY <4>1, Associative
      <4> QED BY <4>2 DEF r, w
    <3>7. wire \o q \in Seq(Nat)
      BY <3>3, <3>4, ConcatProperties
    <3>8. Append(e, p) \in Seq(Packets) /\ (e # << >> => Head(Append(e, p)) = Head(e))
          /\ Append(e, p) # << >>
      BY <3>3, AppendProperties, HeadTailAppend
    <3>9. NoFalseError'
      BY <3>2, <3>8 DEF RecvInv, NoFalseError, e
    <3>10. RecvType'
      BY <3>2, <3>7, <3>8 DEF RecvInv, RecvType
    <3>11. recv_buffer' \o wire' = Stream[expected']
      BY <3>2, <3>3, <3>5, <3>6
    <3> QED BY <3>2, <3>9, <3>10, <3>11 DEF RecvInv
  <2>4. CASE Close
    BY <2>4 DEF Close, RecvInv, RecvType, NoFalseError
  <2>5. CASE UNCHANGED rvars
    BY <2>5 DEF rvars, RecvInv, RecvType, NoFalseError
  <2> QED BY <2>1, <2>2, <2>3, <2>4, <2>5 DEF RNext
<1> QED BY <1>1, <1>2, PTL DEF RSpec

\* The receive buffer always starts with the first byte of a packet, and with
\* the bytes on their way holds the packets that are not handled yet, however
\* TCP cuts the stream (the memmove of __mqtt_recv, mqtt.c:884-893).
THEOREM AlignedHolds == RSpec => []Aligned
<1>1. RecvInv => Aligned
  BY DEF RecvInv, Aligned
<1> QED BY <1>1, RecvHolds, PTL

\* The client gives up only when the broker has closed the connection, or the
\* first packet is malformed or larger than the buffer (mqtt.c:669-690).
THEOREM NoFalseErrorHolds == RSpec => []NoFalseError
<1>1. RecvInv => NoFalseError
  BY DEF RecvInv
<1> QED BY <1>1, RecvHolds, PTL

\* What mqtt_unpack_response makes of the buffer is the packet the broker has
\* packed, the first that is not handled yet, with every field as it was.
THEOREM AsSentHolds == RSpec => AsSent
<1>1. RecvInv /\ [RNext]_rvars =>
        [response' # response /\ recv_error = "OK" =>
            expected # << >> /\ response' = Head(expected)]_rvars
  <2> SUFFICES ASSUME RecvInv, RNext, response' # response
               PROVE  expected # << >> /\ response' = Head(expected)
    BY DEF rvars
  <2>1. PICK k \in 0 .. Len(wire) : Pass(k)
    BY DEF RNext, SocketError, Send, Close
  <2> QED BY <2>1, PassRight
<1> QED BY <1>1, RecvHolds, PTL DEF RSpec, AsSent
=============================================================================
