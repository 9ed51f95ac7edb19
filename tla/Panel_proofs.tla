---------------------------- MODULE Panel_proofs ----------------------------
(***************************************************************************)
(* Proofs about Panel, for any size of the screen, any number of           *)
(* quantities and axes, any messages, modes, periods and room to send.     *)
(***************************************************************************)
EXTENDS Panel, SequenceTheorems, TLAPS

\* Remainders by a divisor that is not known.
LEMMA ModRange == \A a \in Nat, b \in Nat \ {0} : a % b \in 0 .. b - 1
OBVIOUS

LEMMA DivNat == \A a \in Nat, b \in Nat \ {0} : a \div b \in Nat
OBVIOUS

LEMMA DivSmall == \A b \in Nat \ {0} : \A a \in 0 .. b - 1 : a % b = a /\ a \div b = 0
OBVIOUS

\* A row number that has run past the end of the screen at most once.
Row(a) == IF a < V_CH THEN a ELSE a - V_CH

LEMMA RowMod == \A a \in 0 .. 2 * V_CH - 1 : a % V_CH = Row(a) /\ Row(a) \in Rows
<1> SUFFICES ASSUME NEW a \in 0 .. 2 * V_CH - 1
             PROVE  a % V_CH = Row(a) /\ Row(a) \in Rows
  OBVIOUS
<1>1. V_CH \in Nat /\ V_CH > 0 /\ a \in Nat
  BY TextCursorAssumption
<1>2. CASE a < V_CH
  BY <1>1, <1>2 DEF Row, Rows
<1>3. CASE a >= V_CH
  <2>1. a - V_CH \in 0 .. V_CH - 1 /\ a = 1 * V_CH + (a - V_CH)
    BY <1>1, <1>3
  <2> QED BY <1>1, <1>3, <2>1 DEF Row, Rows
<1> QED BY <1>1, <1>2, <1>3
-----------------------------------------------------------------------------
\* The text screen.  TextInv states what LastLinesShown says with the row
\* numbers written out.
TextInv == /\ TextTypeOK
           /\ \A i \in 1 .. Len(recent) : Shows(Row(cur_y + V_CH - i), recent[i])
           /\ fresh = 2 => Shows(cur_y, 0)
           /\ fresh >= 1 => Shows(Row(cur_y + 1), 0)

LEMMA TextFacts ==
  /\ H_CH \in Nat /\ H_CH > 0 /\ V_CH \in Nat /\ V_CH >= 3
  /\ XMod \in Nat /\ XMod > H_CH /\ GBase \in Nat
  BY TextCursorAssumption

LEMMA TextInvShown == TextInv => LastLinesShown
<1> SUFFICES ASSUME TextInv PROVE LastLinesShown
  OBVIOUS
<1>1. cur_y \in 0 .. V_CH - 1 /\ recent \in Seq(Cols) /\ Len(recent) <= V_CH - 2
  BY DEF TextInv, TextTypeOK, Rows
<1>2. ASSUME NEW i \in 1 .. Len(recent)
      PROVE  Shows((cur_y + V_CH - i) % V_CH, recent[i])
  <2>1. cur_y + V_CH - i \in 0 .. 2 * V_CH - 1
    BY <1>1, TextFacts
  <2>2. (cur_y + V_CH - i) % V_CH = Row(cur_y + V_CH - i)
    BY <2>1, RowMod
  <2> QED BY <2>2 DEF TextInv
<1>3. (cur_y + 1) % V_CH = Row(cur_y + 1)
  <2>1. cur_y + 1 \in 0 .. 2 * V_CH - 1
    BY <1>1, TextFacts
  <2> QED BY <2>1, RowMod
<1> QED BY <1>2, <1>3 DEF TextInv, LastLinesShown

\* The row that a line of n characters leaves the cursor in, and the one below.
LEMMA CursorEnters ==
  ASSUME TextTypeOK, NEW n \in Nat
  PROVE  LET e == Entered(n % XMod)
         IN  e \in 0 .. V_CH - 1 /\ Below(e) = Row(e + 1) /\ Below(e) \in Rows
<1> DEFINE x == n % XMod
           e == Entered(x)
           below == Below(e)
<1>0. x \in Nat
  <2>1. XMod \in Nat \ {0}
    BY TextFacts
  <2>2. x \in 0 .. XMod - 1
    BY <2>1, ModRange
  <2> QED BY <2>1, <2>2
<1> HIDE DEF x
<1>1. x \div H_CH \in Nat /\ cur_y \in 0 .. V_CH - 1
  <2>1. H_CH \in Nat \ {0}
    BY TextFacts
  <2> QED BY <1>0, <2>1, DivNat DEF TextTypeOK, Rows
<1>2. e \in 0 .. V_CH - 1
  <2> DEFINE d == x \div H_CH
             a == cur_y + 1 + d
  <2>1. a \in Nat
    BY <1>1
  <2>2. e = a % V_CH
    BY DEF Entered
  <2> HIDE DEF a
  <2> QED BY <2>1, <2>2, TextFacts, ModRange
<1> HIDE DEF e
<1>3. below = Row(e + 1) /\ below \in Rows
  <2>1. e + 1 \in 0 .. 2 * V_CH - 1
    BY <1>2, TextFacts
  <2> QED BY <2>1, RowMod DEF Below
<1> QED BY <1>2, <1>3 DEF e, x

\* Where the cursor goes and which row is cleared.
LEMMA CursorMoves ==
  ASSUME TextTypeOK, NEW n \in Nat, PrintLine(n)
  PROVE  /\ cur_y' \in Rows
         /\ \E below \in Rows : ink' = Cleared(Written(n), below) /\ below = Row(cur_y' + 1)
         /\ n < H_CH => /\ cur_y' = Row(cur_y + 1)
                        /\ ink' = Cleared(Written(n), Row(Row(cur_y + 1) + 1))
<1> DEFINE x == n % XMod
           e == Entered(x)
           below == Below(e)
<1>1. cur_y \in 0 .. V_CH - 1
  BY DEF TextTypeOK, Rows
<1>2. e \in 0 .. V_CH - 1 /\ below = Row(e + 1) /\ below \in Rows
  BY CursorEnters
<1>3. below = Row(e + 1) /\ below \in Rows
  BY <1>2
<1>4. cur_y' = Back(below) /\ ink' = Cleared(Written(n), below)
  BY DEF PrintLine
<1> HIDE DEF below, e, x
<1>5. Back(below) = e /\ cur_y' \in Rows /\ below = Row(cur_y' + 1)
  BY <1>2, <1>3, <1>4, TextFacts DEF Back, Row, Rows
<1>6. ASSUME n < H_CH
      PROVE  e = Row(cur_y + 1)
  <2>1. n \in 0 .. XMod - 1 /\ n \in 0 .. H_CH - 1 /\ H_CH \in Nat \ {0} /\ XMod \in Nat \ {0}
    BY <1>6, TextFacts
  <2>2. x = n
    BY <2>1, DivSmall DEF x
  <2>3. n \div H_CH = 0
    BY <2>1, DivSmall
  <2>4. cur_y + 1 + 0 = cur_y + 1 /\ cur_y + 1 \in 0 .. 2 * V_CH - 1
    BY <1>1, TextFacts
  <2>5. e = (cur_y + 1) % V_CH
    BY <2>2, <2>3, <2>4 DEF e, Entered
  <2> QED BY <2>4, <2>5, RowMod
<1> QED BY <1>3, <1>4, <1>5, <1>6

\* What a line of n characters writes in a row other than that of the cursor.
LEMMA OtherRows ==
  ASSUME TextTypeOK, NEW n \in 0 .. H_CH - 1, NEW r \in Rows, r # cur_y
  PROVE  Written(n)[r] = ink[r]
<1>1. cur_y \in 0 .. V_CH - 1 /\ r \in 0 .. V_CH - 1
  BY DEF TextTypeOK, Rows
<1>2. Reach(n) = n /\ n < H_CH
  BY TextFacts DEF Reach
<1>3. ASSUME NEW c \in Cols, r >= cur_y
      PROVE  ~((r - cur_y) * H_CH + c < n)
  <2> DEFINE d == r - cur_y
  <2>1. d \in Nat /\ d >= 1
    BY <1>1, <1>3
  <2> HIDE DEF d
  <2>2. d * H_CH \in Nat /\ d * H_CH >= H_CH
    BY <2>1, TextFacts
  <2>3. c \in Nat
    BY DEF Cols
  <2>4. ~(d * H_CH + c < n)
    <3> DEFINE e == d * H_CH
    <3>1. e \in Nat /\ e >= H_CH
      BY <2>2
    <3> HIDE DEF e
    <3>2. ~(e + c < n)
      BY <3>1, <2>3, <1>2, TextFacts
    <3> QED BY <3>2 DEF e
  <2> QED BY <2>4 DEF d
<1>4. Written(n)[r] = [c \in Cols |-> ink[r][c] \/ (r >= cur_y /\ (r - cur_y) * H_CH + c < Reach(n))]
  BY DEF Written
<1>5. ink[r] \in [Cols -> BOOLEAN]
  BY DEF TextTypeOK
<1>6. ASSUME NEW c \in Cols
      PROVE  Written(n)[r][c] = ink[r][c]
  <2>1. ~(r >= cur_y /\ (r - cur_y) * H_CH + c < Reach(n))
    BY <1>2, <1>3
  <2>2. ink[r][c] \in BOOLEAN
    BY <1>5
  <2> QED BY <1>4, <2>1, <2>2, Zenon
<1> QED BY <1>4, <1>5, <1>6, Zenon

\* ... and in the row of the cursor, when it is blank.
LEMMA OwnRow ==
  ASSUME TextTypeOK, NEW n \in 0 .. H_CH - 1, Shows(cur_y, 0)
  PROVE  Written(n)[cur_y] = [c \in Cols |-> c < n]
<1>1. cur_y \in 0 .. V_CH - 1
  BY DEF TextTypeOK, Rows
<1>2. Reach(n) = n
  BY TextFacts DEF Reach
<1>3. ASSUME NEW c \in Cols
      PROVE  /\ ink[cur_y][c] = (c < 0) /\ ~(c < 0)
             /\ (cur_y - cur_y) * H_CH + c = c
  <2>1. c \in Nat /\ ~(c < 0)
    BY DEF Cols
  <2>2. ink[cur_y][c] = (c < 0)
    BY DEF Shows
  <2>3. (cur_y - cur_y) * H_CH = 0
    BY <1>1, TextFacts
  <2> QED BY <2>1, <2>2, <2>3
<1>4. Written(n)[cur_y] = [c \in Cols |-> ink[cur_y][c]
                              \/ (cur_y >= cur_y /\ (cur_y - cur_y) * H_CH + c < Reach(n))]
  BY DEF Written, TextTypeOK
<1>5. ASSUME NEW c \in Cols
      PROVE  (ink[cur_y][c] \/ (cur_y >= cur_y /\ (cur_y - cur_y) * H_CH + c < Reach(n)))
               = (c < n)
  <2>1. cur_y >= cur_y
    BY <1>1
  <2>2. (c < n) \in BOOLEAN
    OBVIOUS
  <2> QED BY <1>2, <1>3, <2>1, <2>2
<1> QED BY <1>4, <1>5

\* The distances of the last lines from the cursor and from the row cleared,
\* once the cursor is in the next row.
LEMMA Moving ==
  ASSUME NEW y \in 0 .. V_CH - 1
  PROVE  LET z == Row(y + 1)
         IN  /\ z \in 0 .. V_CH - 1 /\ Row(z + 1) \in 0 .. V_CH - 1
             /\ Row(z + V_CH - 1) = y
             /\ Row(z + 1) # y /\ Row(z + 1) # z /\ z # y
             /\ \A i \in 2 .. V_CH - 2 :
                  /\ Row(z + V_CH - i) = Row(y + V_CH - (i - 1))
                  /\ Row(z + V_CH - i) \in 0 .. V_CH - 1
                  /\ Row(z + V_CH - i) # y
                  /\ Row(z + V_CH - i) # Row(z + 1)
<1>1. V_CH \in Nat /\ V_CH >= 3
  BY TextFacts
<1> DEFINE z == Row(y + 1)
<1>2. z = (IF y = V_CH - 1 THEN 0 ELSE y + 1)
  BY <1>1 DEF Row
<1>3. z \in 0 .. V_CH - 1
  BY <1>1, <1>2
<1> HIDE DEF z
<1>4. Row(z + 1) = (IF z = V_CH - 1 THEN 0 ELSE z + 1)
  BY <1>1, <1>3 DEF Row
<1>5. Row(z + V_CH - 1) = y
  BY <1>1, <1>2 DEF Row
<1>6. Row(z + 1) \in 0 .. V_CH - 1 /\ Row(z + 1) # y /\ Row(z + 1) # z /\ z # y
  BY <1>1, <1>2, <1>3, <1>4
<1>7. ASSUME NEW i \in 2 .. V_CH - 2
      PROVE  /\ Row(z + V_CH - i) = Row(y + V_CH - (i - 1))
             /\ Row(z + V_CH - i) \in 0 .. V_CH - 1
             /\ Row(z + V_CH - i) # y
             /\ Row(z + V_CH - i) # Row(z + 1)
  <2>1. i \in Nat /\ i >= 2 /\ i <= V_CH - 2
    BY <1>1
  <2>2. Row(z + V_CH - i) = (IF z < i THEN z + V_CH - i ELSE z - i)
    BY <1>1, <1>3, <2>1 DEF Row
  <2>3. Row(y + V_CH - (i - 1)) = (IF y + 1 < i THEN y + V_CH + 1 - i ELSE y + 1 - i)
    BY <1>1, <2>1 DEF Row
  <2>4. Row(z + V_CH - i) = Row(y + V_CH - (i - 1))
    BY <1>1, <1>2, <2>1, <2>2, <2>3
  <2>5. Row(z + V_CH - i) \in 0 .. V_CH - 1 /\ Row(z + V_CH - i) # y
    BY <1>1, <1>2, <1>3, <2>1, <2>2
  <2>6. Row(z + V_CH - i) # Row(z + 1)
    BY <1>1, <1>3, <1>4, <2>1, <2>2
  <2> QED BY <2>4, <2>5, <2>6
<1> QED BY <1>3, <1>5, <1>6, <1>7 DEF z

LEMMA NewestFacts ==
  ASSUME NEW s \in Seq(Cols), Len(s) <= V_CH - 2, NEW n \in Cols
  PROVE  LET t == Newest(<<n>> \o s)
         IN  /\ t \in Seq(Cols) /\ Len(t) \in 1 .. V_CH - 2 /\ Len(t) <= Len(s) + 1
             /\ t[1] = n
             /\ \A i \in 2 .. Len(t) : t[i] = s[i - 1]
<1> DEFINE u == <<n>> \o s
           k == IF Len(u) < V_CH - 2 THEN Len(u) ELSE V_CH - 2
           t == SubSeq(u, 1, k)
<1>1. <<n>> \in Seq(Cols) /\ Len(<<n>>) = 1 /\ <<n>>[1] = n
  OBVIOUS
<1>2. /\ u \in Seq(Cols) /\ Len(u) = Len(s) + 1
      /\ \A i \in 1 .. Len(u) : u[i] = IF i <= 1 THEN <<n>>[i] ELSE s[i - 1]
  BY <1>1, ConcatProperties
<1>3. Len(s) \in Nat
  OBVIOUS
<1> HIDE DEF u
<1>4. k \in 1 .. Len(u) /\ k <= V_CH - 2 /\ k <= Len(s) + 1
  BY <1>2, <1>3, TextFacts
<1> HIDE DEF k
<1>5. t \in Seq(Cols) /\ Len(t) = k /\ \A i \in 1 .. k : t[i] = u[i]
  <2>1. k \in Nat /\ Len(u) \in Nat
    BY <1>2, <1>3, <1>4
  <2>2. t = [i \in 1 .. k |-> u[i]]
    BY <1>2, <1>4, <2>1
  <2>3. \A i \in 1 .. k : u[i] \in Cols
    BY <1>2, <1>4, <2>1, ElementOfSeq
  <2> QED BY <2>1, <2>2, <2>3
<1> HIDE DEF t
<1>6. t[1] = n
  <2>1. 1 \in 1 .. k /\ 1 \in 1 .. Len(u)
    BY <1>2, <1>3, <1>4
  <2> QED BY <1>1, <1>2, <1>5, <2>1
<1>7. ASSUME NEW i \in 2 .. Len(t)
      PROVE  t[i] = s[i - 1]
  <2>1. i \in 1 .. k /\ i \in 1 .. Len(u) /\ ~(i <= 1)
    BY <1>2, <1>3, <1>4, <1>5
  <2> QED BY <1>2, <1>5, <2>1
<1>8. Len(t) \in 1 .. V_CH - 2 /\ Len(t) <= Len(s) + 1
  BY <1>2, <1>3, <1>4, <1>5, TextFacts
<1> QED BY <1>5, <1>6, <1>7, <1>8 DEF Newest, u, k, t

LEMMA WrittenType == ASSUME TextTypeOK, NEW n \in Nat
                     PROVE  Written(n) \in [Rows -> [Cols -> BOOLEAN]]
<1>1. ASSUME NEW q \in Rows, NEW c \in Cols
      PROVE  (ink[q][c] \/ (q >= cur_y /\ (q - cur_y) * H_CH + c < Reach(n))) \in BOOLEAN
  OBVIOUS
<1> QED BY <1>1 DEF Written

LEMMA ScreenType ==
  ASSUME TextTypeOK, NEW n \in Nat, NEW r \in Rows
  PROVE  /\ Cleared(Written(n), r) \in [Rows -> [Cols -> BOOLEAN]]
         /\ Cleared(Written(n), r)[r] = [c \in Cols |-> FALSE]
         /\ \A q \in Rows : q # r => Cleared(Written(n), r)[q] = Written(n)[q]
<1>1. Written(n) \in [Rows -> [Cols -> BOOLEAN]]
  BY WrittenType
<1>2. [c \in Cols |-> FALSE] \in [Cols -> BOOLEAN]
  OBVIOUS
<1> HIDE DEF Written
<1> QED BY <1>1, <1>2 DEF Cleared

LEMMA BlankRow == ASSUME NEW f, NEW r, f[r] = [c \in Cols |-> FALSE]
                  PROVE  f[r] = [c \in Cols |-> c < 0]
<1>1. \A c \in Cols : (c < 0) = FALSE
  BY DEF Cols
<1> QED BY <1>1

LEMMA TextStart == TextInit => TextInv
<1> SUFFICES ASSUME TextInit PROVE TextInv
  OBVIOUS
<1>1. TextTypeOK
  BY TextFacts DEF TextInit, TextTypeOK, Rows
<1>2. Len(recent) = 0 /\ fresh = 0
  BY DEF TextInit
<1> QED BY <1>1, <1>2 DEF TextInv

LEMMA TextStep ==
  ASSUME TextInv, NEW n \in Nat, PrintLine(n)
  PROVE  TextInv'
<1>1. TextTypeOK /\ cur_y \in 0 .. V_CH - 1 /\ recent \in Seq(Cols) /\ Len(recent) \in Nat
      /\ Len(recent) <= V_CH - 2 /\ fresh \in 0 .. 2
  BY DEF TextInv, TextTypeOK, Rows
<1>2. PICK below \in Rows : ink' = Cleared(Written(n), below) /\ below = Row(cur_y' + 1)
  BY <1>1, CursorMoves
<1>3. cur_y' \in Rows /\ ink' \in [Rows -> [Cols -> BOOLEAN]]
  BY <1>1, <1>2, CursorMoves, ScreenType
<1>4. Shows(Row(cur_y + 1), 0)'
  <2>1. ink'[below] = [c \in Cols |-> FALSE]
    BY <1>1, <1>2, ScreenType
  <2>2. ink'[below] = [c \in Cols |-> c < 0]
    BY <2>1, BlankRow
  <2> QED BY <1>2, <2>2 DEF Shows, Row
<1>5. CASE n >= H_CH
  <2>1. fresh' = 1 /\ recent' = << >>
    BY <1>5, TextFacts DEF PrintLine
  <2>2. Len(recent') = 0 /\ recent' \in Seq(Cols)
    BY <2>1
  <2> QED BY <1>3, <1>4, <2>1, <2>2, TextFacts DEF TextInv, TextTypeOK
<1>6. CASE n < H_CH
  <2> DEFINE z == Row(cur_y + 1)
             t == Newest(<<n>> \o recent)
  <2>1. n \in Cols /\ n \in 0 .. H_CH - 1
    BY <1>6, TextFacts DEF Cols
  <2>2. cur_y' = z /\ below = Row(z + 1) /\ ink' = Cleared(Written(n), Row(z + 1))
    BY <1>1, <1>2, <1>6, CursorMoves
  <2>3. fresh' = (IF fresh = 0 THEN 1 ELSE 2) /\ fresh' \in 0 .. 2
        /\ recent' = (IF fresh = 2 THEN t ELSE << >>)
    BY <1>1, <1>6 DEF PrintLine
  <2>4. /\ z \in Rows /\ Row(z + 1) \in Rows /\ Row(z + V_CH - 1) = cur_y
        /\ Row(z + 1) # cur_y /\ Row(z + 1) # z /\ z # cur_y
        /\ \A i \in 2 .. V_CH - 2 :
             /\ Row(z + V_CH - i) = Row(cur_y + V_CH - (i - 1))
             /\ Row(z + V_CH - i) \in Rows
             /\ Row(z + V_CH - i) # cur_y
             /\ Row(z + V_CH - i) # Row(z + 1)
    BY <1>1, Moving DEF Rows
  <2> HIDE DEF z, t
  <2>5. ASSUME NEW r \in Rows, r # cur_y, r # Row(z + 1)
        PROVE  ink'[r] = ink[r]
    <3>1. Cleared(Written(n), Row(z + 1))[r] = Written(n)[r]
      BY <1>1, <2>4, <2>5, ScreenType
    <3>2. Written(n)[r] = ink[r]
      BY <1>1, <2>1, <2>5, OtherRows
    <3> QED BY <2>2, <3>1, <3>2
  <2>6. recent' \in Seq(Cols) /\ Len(recent') <= V_CH - 2
    <3>1. CASE fresh = 2
      <4>1. t \in Seq(Cols) /\ Len(t) \in 1 .. V_CH - 2
        BY <1>1, <2>1, NewestFacts DEF t
      <4> QED BY <2>3, <3>1, <4>1, TextFacts
    <3>2. CASE fresh # 2
      BY <2>3, <3>2, TextFacts
    <3> QED BY <3>1, <3>2
  <2>7. TextTypeOK'
    BY <1>3, <2>3, <2>6 DEF TextTypeOK
  <2>8. fresh' = 2 => Shows(cur_y, 0)'
    <3> SUFFICES ASSUME fresh' = 2 PROVE Shows(cur_y, 0)'
      OBVIOUS
    <3>1. fresh >= 1
      BY <1>1, <2>3
    <3>2. Shows(z, 0)
      BY <3>1 DEF TextInv, z
    <3>3. ink'[z] = ink[z]
      BY <2>4, <2>5
    <3> QED BY <2>2, <3>2, <3>3 DEF Shows
  <2>9. ASSUME NEW i \in 1 .. Len(recent')
        PROVE  Shows(Row(cur_y + V_CH - i), recent[i])'
    <3>1. fresh = 2 /\ recent' = t
      <4>1. CASE fresh # 2
        <5>1. Len(recent') = 0
          BY <2>3, <4>1
        <5> QED BY <5>1
      <4> QED BY <2>3, <4>1
    <3>2. /\ Len(t) \in 1 .. V_CH - 2 /\ Len(t) <= Len(recent) + 1 /\ t[1] = n
          /\ \A j \in 2 .. Len(t) : t[j] = recent[j - 1]
      BY <1>1, <2>1, NewestFacts DEF t
    <3>3. CASE i = 1
      <4>1. Shows(cur_y, 0)
        BY <3>1 DEF TextInv
      <4>2. Written(n)[cur_y] = [c \in Cols |-> c < n]
        BY <1>1, <2>1, <4>1, OwnRow
      <4>3. ink'[cur_y] = Written(n)[cur_y]
        BY <1>1, <2>2, <2>4, ScreenType DEF Rows
      <4>4. Row(cur_y' + V_CH - i) = cur_y /\ recent'[i] = n
        BY <2>2, <2>4, <3>1, <3>2, <3>3
      <4>5. ink'[Row(cur_y' + V_CH - i)] = [c \in Cols |-> c < recent'[i]]
        BY <4>2, <4>3, <4>4
      <4> QED BY <4>5 DEF Shows, Row
    <3>4. CASE i # 1
      <4>1. i \in 2 .. Len(t) /\ i \in 2 .. V_CH - 2 /\ i - 1 \in 1 .. Len(recent)
        <5> DEFINE k == Len(t)
        <5>1. i \in 1 .. k /\ k \in 1 .. V_CH - 2 /\ k <= Len(recent) + 1
          BY <2>9, <3>1, <3>2
        <5> HIDE DEF k
        <5>2. i \in 2 .. k /\ i \in 2 .. V_CH - 2 /\ i - 1 \in 1 .. Len(recent)
          BY <1>1, <3>4, <5>1, TextFacts
        <5> QED BY <5>2 DEF k
      <4>2. Shows(Row(cur_y + V_CH - (i - 1)), recent[i - 1])
        BY <4>1 DEF TextInv
      <4> DEFINE r == Row(z + V_CH - i)
      <4>3. r = Row(cur_y + V_CH - (i - 1)) /\ r \in Rows /\ r # cur_y /\ r # Row(z + 1)
        BY <2>4, <4>1
      <4>4. Row(cur_y' + V_CH - i) = r
        BY <2>2
      <4> HIDE DEF r
      <4>5. ink'[r] = ink[r]
        BY <2>5, <4>3
      <4>6. recent'[i] = recent[i - 1]
        BY <3>1, <3>2, <4>1
      <4>7. ink'[Row(cur_y' + V_CH - i)] = [c \in Cols |-> c < recent'[i]]
        BY <4>2, <4>3, <4>4, <4>5, <4>6 DEF Shows
      <4> QED BY <4>7 DEF Shows, Row
    <3> QED BY <3>3, <3>4
  <2> QED BY <1>4, <2>7, <2>8, <2>9 DEF TextInv, Row
<1> QED BY <1>5, <1>6, TextFacts

\* A line that is never finished leaves nothing to be relied on.
LEMMA TextCut ==
  ASSUME TextInv, NEW n \in Nat, CutLine(n)
  PROVE  TextInv'
<1> DEFINE below == Below(Entered(n % XMod))
<1>1. TextTypeOK
  BY DEF TextInv
<1>2. below \in Rows /\ cur_y \in Rows
  BY <1>1, CursorEnters DEF TextTypeOK
<1>3. fresh' = 0 /\ recent' = << >> /\ (cur_y' = cur_y \/ cur_y' = below)
  BY DEF CutLine
<1>4. \/ \E k \in 0 .. n : ink' = Written(k)
      \/ \E k \in 0 .. H_CH :
            ink' = [Written(n) EXCEPT ![below] = [c \in Cols |-> c >= k /\ @[c]]]
  BY DEF CutLine
<1> HIDE DEF below
<1>5. ink' \in [Rows -> [Cols -> BOOLEAN]]
  <2>1. ASSUME NEW k \in 0 .. n, ink' = Written(k)
        PROVE  ink' \in [Rows -> [Cols -> BOOLEAN]]
    <3>1. k \in Nat
      OBVIOUS
    <3> QED BY <1>1, <2>1, <3>1, WrittenType
  <2>2. ASSUME NEW k \in 0 .. H_CH,
               ink' = [Written(n) EXCEPT ![below] = [c \in Cols |-> c >= k /\ @[c]]]
        PROVE  ink' \in [Rows -> [Cols -> BOOLEAN]]
    <3> DEFINE s == Written(n)
    <3>1. s \in [Rows -> [Cols -> BOOLEAN]]
      BY <1>1, WrittenType
    <3> HIDE DEF s
    <3>2. [c \in Cols |-> c >= k /\ s[below][c]] \in [Cols -> BOOLEAN]
      OBVIOUS
    <3> QED BY <1>2, <2>2, <3>1, <3>2 DEF s
  <2> QED BY <1>4, <2>1, <2>2
<1>6. Len(recent') = 0 /\ recent' \in Seq(Cols)
  BY <1>3
<1> QED BY <1>2, <1>3, <1>5, <1>6, TextFacts DEF TextInv, TextTypeOK

LEMMA TextStays == TextInv /\ UNCHANGED text => TextInv'
BY DEF TextInv, TextTypeOK, Shows, Row, text

LEMMA CursorAboveColumns == TextTypeOK => BelowColumns
<1> SUFFICES ASSUME TextTypeOK, NEW n \in 0 .. 2 * XMod
             PROVE  cur_y * H_CH + Reach(n) <= GBase
  BY DEF BelowColumns
<1>1. cur_y \in 0 .. V_CH - 1
  BY DEF TextTypeOK, Rows
<1>2. Reach(n) \in Nat /\ Reach(n) <= XMod
  BY TextFacts DEF Reach
<1> DEFINE d == V_CH - 1 - cur_y
<1>3. d \in Nat /\ cur_y \in Nat /\ V_CH - 1 = cur_y + d
  BY <1>1, TextFacts
<1> HIDE DEF d
<1>4. (V_CH - 1) * H_CH = cur_y * H_CH + d * H_CH
  BY <1>3, TextFacts
<1>5. cur_y * H_CH \in Nat /\ d * H_CH \in Nat
  BY <1>3, TextFacts
<1>6. GBase >= (V_CH - 1) * H_CH + XMod
  BY TextCursorAssumption
<1> DEFINE a == cur_y * H_CH
           b == d * H_CH
           e == (V_CH - 1) * H_CH
<1>7. a \in Nat /\ b \in Nat /\ e = a + b /\ GBase >= e + XMod
  BY <1>4, <1>5, <1>6
<1> HIDE DEF a, b, e
<1>8. a + Reach(n) <= GBase
  BY <1>2, <1>7, TextFacts
<1> QED BY <1>8 DEF a
-----------------------------------------------------------------------------
\* What a key may do: nothing that matters to main(), or the end of a line, of
\* the columns of a sample or of the trigger's write.
LEMMA KeyCases ==
  ASSUME Key
  PROVE  /\ UNCHANGED <<sel, scene, link, new_mode, old, beside, smashed, mqtt_callback_buffer,
                        todo, how>>
         /\ \/ UNCHANGED <<text, parsed, pc>>
            \/ /\ pc = "print" /\ pc' = "hung" /\ UNCHANGED parsed
               /\ todo # << >> /\ CutLine(Head(todo))
            \/ /\ pc = "parse" /\ pc' = "hung" /\ UNCHANGED text
               /\ CutSample \/ UNCHANGED parsed
         /\ UNCHANGED display \/ ResetGraphs
<1>1. UNCHANGED <<sel, scene, link>> /\ (Count \/ Reset)
  BY DEF Key
<1>2. CASE Count
  BY <1>1, <1>2 DEF Count, data, loop
<1>3. CASE Reset /\ UNCHANGED <<text, parsed, loop>>
  BY <1>1, <1>3 DEF Reset, loop
<1>4. CASE Reset /\ Hang
  <2>1. ResetGraphs
    BY <1>4 DEF Reset
  <2>2. UNCHANGED <<new_mode, old, beside, smashed, mqtt_callback_buffer, todo, how>>
    BY <1>4 DEF Hang
  <2>3. \/ /\ pc = "print" /\ pc' = "hung" /\ UNCHANGED parsed
           /\ todo # << >> /\ CutLine(Head(todo))
        \/ /\ pc = "parse" /\ pc' = "hung" /\ UNCHANGED text
           /\ CutSample \/ UNCHANGED parsed
    BY <1>4 DEF Hang
  <2> QED BY <1>1, <2>1, <2>2, <2>3
<1> QED BY <1>1, <1>2, <1>3, <1>4 DEF Reset

\* What main() has in hand: a scene, a message, the rows still to print.
SceneInv == /\ scene \in Scenes
            /\ mqtt_callback_buffer \in MessageRecord
            /\ mqtt_callback_buffer.head = "data" => mqtt_callback_buffer.fits
            /\ todo \in Seq(Nat)

LEMMA RowsPrinted ==
  ASSUME NEW m \in MessageRecord
  PROVE  PrintedRows(m) \in Seq(Nat)
<1>1. m.rows \in Seq(Nat) /\ Len(m.rows) \in Nat
  BY DEF MessageRecord
<1>2. CASE Len(m.rows) > 1 /\ m.rows[Len(m.rows)] = 0
  <2> DEFINE n == Len(m.rows)
             s == SubSeq(m.rows, 1, n - 1)
  <2>1. n - 1 \in Nat /\ n \in Nat
    BY <1>1, <1>2
  <2>2. s = [i \in 1 .. n - 1 |-> m.rows[i]]
    BY <1>1, <2>1
  <2>3. \A i \in 1 .. n - 1 : m.rows[i] \in Nat
    BY <1>1, <2>1, ElementOfSeq
  <2>4. s \in Seq(Nat)
    BY <2>1, <2>2, <2>3
  <2> QED BY <1>2, <2>4 DEF PrintedRows
<1>3. CASE ~(Len(m.rows) > 1 /\ m.rows[Len(m.rows)] = 0)
  BY <1>1, <1>3 DEF PrintedRows
<1> QED BY <1>2, <1>3

LEMMA SceneStart == PInit => SceneInv
<1> SUFFICES ASSUME PInit PROVE SceneInv
  OBVIOUS
<1>1. Empty \in MessageRecord /\ Empty.head = "none"
  <2>1. <<0>> \in Seq(Nat) \ {<< >>} /\ << >> \in Seq(LineRecord)
    OBVIOUS
  <2> HIDE DEF LineRecord
  <2> QED BY <2>1 DEF Empty, MessageRecord
<1>2. mqtt_callback_buffer = Empty /\ todo = << >> /\ scene \in Scenes
  BY DEF PInit
<1> QED BY <1>1, <1>2 DEF SceneInv

LEMMA SceneStep == SceneInv /\ [PNext]_pvars => SceneInv'
<1> SUFFICES ASSUME SceneInv, [PNext]_pvars PROVE SceneInv'
  OBVIOUS
<1>1. CASE UNCHANGED <<scene, mqtt_callback_buffer, todo>>
  BY <1>1 DEF SceneInv
<1>2. CASE Key \/ Switch \/ Copy \/ Connect \/ ReadMode \/ Announce \/ ReadPeriod \/ Parse
           \/ UNCHANGED pvars
  <2>1. UNCHANGED <<scene, mqtt_callback_buffer, todo>>
    BY <1>2, KeyCases DEF Switch, Copy, Connect, ReadMode, Announce, ReadPeriod, Parse,
                pvars, user, loop
  <2> QED BY <1>1, <2>1
<1>3. ASSUME NEW k \in 0 .. Len(queue), Poll(k)
      PROVE  SceneInv'
  <2>1. UNCHANGED <<scene, todo>>
    BY <1>3 DEF Poll, user
  <2>2. PICK m \in Received : mqtt_callback_buffer' = m
    BY <1>3 DEF Poll
  <2>3. CASE m = mqtt_callback_buffer
    BY <1>1, <2>1, <2>2, <2>3
  <2>4. CASE m \in scene.msgs
    <3>1. m \in MessageRecord /\ (m.head = "data" => m.fits)
      BY <2>4, PanelAssumption DEF SceneInv
    <3> QED BY <2>1, <2>2, <3>1 DEF SceneInv
  <2> QED BY <2>2, <2>3, <2>4 DEF Received
<1>4. CASE Show
  <2>1. UNCHANGED <<scene, mqtt_callback_buffer>>
    BY <1>4 DEF Show, user
  <2>2. todo' = todo \/ todo' = PrintedRows(mqtt_callback_buffer)
    BY <1>4 DEF Show
  <2>3. todo' \in Seq(Nat)
    BY <2>2, RowsPrinted DEF SceneInv
  <2> QED BY <2>1, <2>3 DEF SceneInv
<1>5. CASE PutLine
  <2>1. UNCHANGED <<scene, mqtt_callback_buffer>> /\ todo' = Tail(todo) /\ todo # << >>
    BY <1>5 DEF PutLine, user
  <2>2. todo' \in Seq(Nat)
    BY <2>1 DEF SceneInv
  <2> QED BY <2>1, <2>2 DEF SceneInv
<1> QED BY <1>2, <1>3, <1>4, <1>5 DEF PNext

LEMMA SceneHolds == PSpec => []SceneInv
BY SceneStart, SceneStep, PTL DEF PSpec

LEMMA TextNext == TextInv /\ SceneInv /\ [PNext]_pvars => TextInv'
<1> SUFFICES ASSUME TextInv, SceneInv, [PNext]_pvars PROVE TextInv'
  OBVIOUS
<1>1. CASE UNCHANGED text
  BY <1>1, TextStays
<1>2. CASE PutLine
  <2>1. Head(todo) \in Nat /\ PrintLine(Head(todo))
    BY <1>2 DEF PutLine, SceneInv
  <2> QED BY <2>1, TextStep
<1>3. CASE Key
  <2>1. CASE todo # << >> /\ CutLine(Head(todo))
    <3>1. Head(todo) \in Nat
      BY <2>1 DEF SceneInv
    <3> QED BY <2>1, <3>1, TextCut
  <2> QED BY <1>1, <1>3, <2>1, KeyCases
<1>4. CASE ~PutLine /\ ~Key
  <2>1. UNCHANGED text
    BY <1>4 DEF PNext, Switch, Copy, Connect, ReadMode, Announce, ReadPeriod, Poll, Show, Parse,
                pvars
  <2> QED BY <1>1, <2>1
<1> QED BY <1>2, <1>3, <1>4

LEMMA TextHolds == PSpec => []TextInv
<1>1. PInit => TextInv
  BY TextStart DEF PInit
<1> QED BY <1>1, TextNext, SceneHolds, PTL DEF PSpec

\* Whatever messages come, and however long their lines are, a text never
\* reaches the columns of the graphs (main.c:21, 278-302).
THEOREM BelowColumnsHolds == PSpec => []BelowColumns
<1>1. TextInv => BelowColumns
  BY CursorAboveColumns DEF TextInv
<1> QED BY <1>1, TextHolds, PTL

\* Whatever messages come, the screen shows the last lines and a blank row
\* below them, as long as they are shorter than a row (main.c:278-302).
THEOREM LastLinesHolds == PSpec => []LastLinesShown
BY TextInvShown, TextHolds, PTL
-----------------------------------------------------------------------------
\* The windows of the graphs, and the samples that wait to be plotted, which
\* there are only while a message is taken apart, or was when main() stopped.
Busy      == {"parse", "hung", "dead"}
Windows   == win \in [Cbs -> Seq(Byte)] /\ \A c \in Cbs : Len(win[c]) <= Size
Columns   == columns \in Heights
Planned   == plots \in Seq(Cbs \X (Byte \cup {Wild})) /\ lines \in Seq(LineRecord)
Idle      == pc \notin Busy => plots = << >> /\ lines = << >>
DataOnly  == plots # << >> \/ lines # << >> => mqtt_callback_buffer.head = "data"
DataInv   == Windows /\ Columns /\ Planned /\ Idle /\ DataOnly

LEMMA DataFacts ==
  /\ Size \in Nat /\ Size > 0 /\ 0 \in Byte
  /\ Len(Axes) \in Nat /\ Len(Axes) > 0
  /\ \A i \in 1 .. Len(Axes) : Axes[i] \in Cbs /\ Axes[i] \notin Scalars /\ Axes[i] \in AxisCbs
  /\ \A i, j \in 1 .. Len(Axes) : i # j => Axes[i] # Axes[j]
  /\ "axes" \notin Scalars /\ "other" \notin Scalars
<1>1. Axes \in Seq(STRING)
  BY DataMessageAssumption
<1>2. Len(Axes) \in Nat /\ DOMAIN Axes = 1 .. Len(Axes)
  BY <1>1
<1> QED BY <1>2, DataMessageAssumption DEF Cbs, AxisCbs

LEMMA AxisNotScalar == \A c \in AxisCbs : c \in Cbs /\ c \notin Scalars
BY DataMessageAssumption DEF AxisCbs, Cbs

\* The length of a window that takes one more sample.
Advance(l) == IF l < Size THEN l + 1 ELSE l

LEMMA SlideFacts ==
  ASSUME NEW S, NEW s \in Seq(S), Len(s) <= Size, NEW d \in S
  PROVE  /\ W!Slide(s, d) \in Seq(S)
         /\ Len(W!Slide(s, d)) = Advance(Len(s))
         /\ Len(W!Slide(s, d)) \in 1 .. Size
<1>1. Len(s) \in Nat
  OBVIOUS
<1>2. CASE Len(s) < Size
  <2>1. Append(s, d) \in Seq(S) /\ Len(Append(s, d)) = Len(s) + 1
    OBVIOUS
  <2> QED BY <1>1, <1>2, <2>1, DataFacts DEF Advance, W!Slide
<1>3. CASE Len(s) >= Size
  <2>1. s # << >>
    BY <1>1, <1>3, DataFacts
  <2>2. Tail(s) \in Seq(S) /\ Len(Tail(s)) = Len(s) - 1
    BY <2>1
  <2>3. Append(Tail(s), d) \in Seq(S) /\ Len(Append(Tail(s), d)) = Len(s) - 1 + 1
    BY <2>2
  <2>4. ~(Len(s) < Size)
    BY <1>1, <1>3, DataFacts
  <2> QED BY <1>1, <1>3, <2>3, <2>4, DataFacts DEF Advance, W!Slide
<1> QED BY <1>1, <1>2, <1>3, DataFacts

LEMMA PaddedFacts ==
  ASSUME NEW s \in Seq(Byte), Len(s) \in 1 .. Size
  PROVE  W!Padded(s) \in [0 .. Size - 1 -> Byte]
<1>1. ASSUME NEW i \in 0 .. Size - 1
      PROVE  (IF i < Len(s) THEN s[i + 1] ELSE s[Len(s)]) \in Byte
  <2>1. CASE i < Len(s)
    <3>1. i + 1 \in 1 .. Len(s)
      BY <2>1, DataFacts
    <3> QED BY <2>1, <3>1, ElementOfSeq
  <2>2. CASE ~(i < Len(s))
    <3>1. Len(s) \in 1 .. Len(s)
      BY DataFacts
    <3> QED BY <2>2, <3>1, ElementOfSeq
  <2> QED BY <2>1, <2>2
<1> QED BY <1>1 DEF W!Padded

LEMMA LineSampled ==
  ASSUME NEW l \in LineRecord
  PROVE  LineSamples(l) \in Seq(Cbs \X (Byte \cup {Wild}))
<1> DEFINE S == Byte \cup {Wild}
<1>1. l.values \in Seq(S)
  BY DEF LineRecord
<1>2. ASSUME NEW i \in Nat \ {0}
      PROVE  Value(l, i) \in S
  <2>1. CASE i <= Len(l.values)
    <3>1. i \in 1 .. Len(l.values)
      BY <1>1, <2>1
    <3>2. l.values[i] \in S
      BY <1>1, <3>1, ElementOfSeq
    <3> QED BY <2>1, <3>2 DEF Value
  <2>2. CASE ~(i <= Len(l.values))
    BY <2>2 DEF Value
  <2> QED BY <2>1, <2>2
<1> HIDE DEF S
<1>3. CASE l.of = "axes"
  <2>1. ASSUME NEW i \in 1 .. Len(Axes)
        PROVE  <<Axes[i], Value(l, i)>> \in Cbs \X S
    <3>1. i \in Nat \ {0}
      BY DataFacts
    <3> QED BY <1>2, <3>1, DataFacts
  <2>2. [i \in 1 .. Len(Axes) |-> <<Axes[i], Value(l, i)>>] \in Seq(Cbs \X S)
    BY <2>1, DataFacts
  <2> QED BY <1>3, <2>2 DEF LineSamples, S
<1>4. CASE l.of # "axes" /\ l.of \in Scalars
  <2>1. <<l.of, Value(l, 1)>> \in Cbs \X S
    BY <1>2, <1>4 DEF Cbs
  <2> HIDE DEF Value
  <2>2. << <<l.of, Value(l, 1)>> >> \in Seq(Cbs \X S)
    BY <2>1
  <2> QED BY <1>4, <2>2 DEF LineSamples, S
<1>5. CASE l.of # "axes" /\ l.of \notin Scalars
  BY <1>5 DEF LineSamples
<1> QED BY <1>3, <1>4, <1>5

\* One sample, whether or not all its columns are written: the window of its
\* quantity moves on, the others stay.
LEMMA SampleTaken ==
  ASSUME Windows, Planned, Plot \/ CutSample
  PROVE  LET c == Head(plots)[1]
             v == Head(plots)[2]
         IN  /\ plots # << >> /\ Head(plots) = plots[1] /\ plots' = Tail(plots) /\ lines' = lines
             /\ c \in Cbs /\ age' = Younger(c)
             /\ \E d \in Byte :
                  /\ v \in Byte => d = v
                  /\ win' = [win EXCEPT ![c] = W!Slide(win[c], d)]
                  /\ \/ columns' = [columns EXCEPT ![c] = W!Padded(W!Slide(win[c], d))]
                     \/ /\ CutSample
                        /\ \E k \in 0 .. Size : columns' = [columns EXCEPT ![c] =
                             [i \in 0 .. Size - 1 |->
                                IF i < k THEN W!Padded(W!Slide(win[c], d))[i] ELSE @[i]]]
<1> DEFINE S == Byte \cup {Wild}
           c == Head(plots)[1]
           v == Head(plots)[2]
<1>1. plots # << >> /\ plots' = Tail(plots) /\ lines' = lines /\ age' = Younger(Head(plots)[1])
  BY DEF Plot, CutSample
<1>2. plots[1] \in Cbs \X S /\ Head(plots) = plots[1]
  <2>1. 1 \in 1 .. Len(plots)
    BY <1>1 DEF Planned
  <2>2. plots[1] \in Cbs \X S
    BY <2>1, ElementOfSeq DEF Planned
  <2> QED BY <1>1, <2>2 DEF Planned
<1>3. c \in Cbs
  BY <1>2
<1>4. ASSUME NEW d \in Converted(v)
      PROVE  d \in Byte /\ (v \in Byte => d = v)
  BY <1>4 DEF Converted
<1>5. CASE Plot
  <2>1. PICK d \in Converted(v) : W!Sample(c, d)
    BY <1>2, <1>5 DEF Plot
  <2>2. d \in Byte /\ (v \in Byte => d = v)
    BY <1>4
  <2> HIDE DEF c, v
  <2>3. /\ win' = [win EXCEPT ![c] = W!Slide(win[c], d)]
        /\ columns' = [columns EXCEPT ![c] = W!Padded(W!Slide(win[c], d))]
    BY <2>1 DEF W!Sample
  <2> QED BY <1>1, <1>2, <1>3, <2>2, <2>3 DEF c, v
<1>6. CASE CutSample
  <2>1. PICK d \in Converted(v), k \in 0 .. Size :
          /\ win' = [win EXCEPT ![c] = W!Slide(win[c], d)]
          /\ columns' = [columns EXCEPT ![c] =
               [i \in 0 .. Size - 1 |->
                  IF i < k THEN W!Padded(W!Slide(win[c], d))[i] ELSE @[i]]]
    BY <1>6, Zenon DEF CutSample
  <2>2. d \in Byte /\ (v \in Byte => d = v)
    BY <1>4
  <2> HIDE DEF c, v
  <2> QED BY <1>1, <1>2, <1>3, <1>6, <2>1, <2>2 DEF c, v
<1> QED BY <1>5, <1>6

LEMMA SampleKeeps ==
  ASSUME DataInv, Plot \/ CutSample
  PROVE  Windows' /\ Columns' /\ Planned'
<1> DEFINE c == Head(plots)[1]
<1>1. Windows /\ Columns /\ Planned
  BY DEF DataInv
<1>2. plots # << >> /\ plots' = Tail(plots) /\ lines' = lines /\ c \in Cbs
  BY <1>1, SampleTaken
<1>3. PICK d \in Byte :
         /\ win' = [win EXCEPT ![c] = W!Slide(win[c], d)]
         /\ \/ columns' = [columns EXCEPT ![c] = W!Padded(W!Slide(win[c], d))]
            \/ \E k \in 0 .. Size : columns' = [columns EXCEPT ![c] =
                 [i \in 0 .. Size - 1 |->
                    IF i < k THEN W!Padded(W!Slide(win[c], d))[i] ELSE @[i]]]
  BY <1>1, SampleTaken
<1> HIDE DEF c
<1>4. win[c] \in Seq(Byte) /\ Len(win[c]) <= Size
  BY <1>1, <1>2 DEF Windows
<1> DEFINE s == W!Slide(win[c], d)
<1>5. s \in Seq(Byte) /\ Len(s) \in 1 .. Size /\ Len(s) <= Size
  <2>1. s \in Seq(Byte) /\ Len(s) \in 1 .. Size
    BY <1>4, SlideFacts
  <2> QED BY <2>1, DataFacts
<1>6. W!Padded(s) \in [0 .. Size - 1 -> Byte]
  BY <1>5, PaddedFacts
<1> HIDE DEF s
<1>7. Windows'
  BY <1>1, <1>2, <1>3, <1>5 DEF Windows, s
<1>8. Columns'
  <2> DEFINE f == W!Padded(s)
  <2>1. columns \in [Cbs -> [0 .. Size - 1 -> Byte]]
    BY <1>1 DEF Columns, Heights
  <2>2. f \in [0 .. Size - 1 -> Byte]
    BY <1>6
  <2>3. \/ columns' = [columns EXCEPT ![c] = f]
        \/ \E k \in 0 .. Size : columns' = [columns EXCEPT ![c] =
             [i \in 0 .. Size - 1 |-> IF i < k THEN f[i] ELSE @[i]]]
    BY <1>3 DEF s
  <2> HIDE DEF f
  <2>4. ASSUME NEW k \in 0 .. Size
        PROVE  [i \in 0 .. Size - 1 |-> IF i < k THEN f[i] ELSE columns[c][i]]
                  \in [0 .. Size - 1 -> Byte]
    BY <1>2, <2>1, <2>2
  <2>5. columns' \in [Cbs -> [0 .. Size - 1 -> Byte]]
    BY <1>2, <2>1, <2>2, <2>3, <2>4
  <2> QED BY <2>5 DEF Columns, Heights
<1>9. Planned'
  <2> DEFINE T == Cbs \X (Byte \cup {Wild})
  <2>1. plots \in Seq(T)
    BY <1>1 DEF Planned
  <2> HIDE DEF T
  <2>2. Tail(plots) \in Seq(T)
    BY <1>2, <2>1
  <2> QED BY <1>1, <1>2, <2>2 DEF Planned, T
<1> QED BY <1>7, <1>8, <1>9

LEMMA DataStart == PInit => DataInv
<1> SUFFICES ASSUME PInit PROVE DataInv
  OBVIOUS
<1>1. lines = << >> /\ plots = << >>
  BY DEF PInit, DataInit
<1>2. win = [c \in Cbs |-> << >>]
  BY DEF PInit, DataInit, W!WInit
<1>3. columns = Flat
  BY DEF PInit, DataInit
<1>4. Windows
  BY <1>2, DataFacts DEF Windows
<1>5. Columns
  BY <1>3, DataFacts DEF Columns, Heights, Flat
<1>6. Planned
  BY <1>1 DEF Planned
<1> QED BY <1>1, <1>4, <1>5, <1>6 DEF DataInv, Idle, DataOnly

LEMMA ShowStep ==
  ASSUME DataInv, SceneInv, Show
  PROVE  DataInv'
<1>1. pc = "message" /\ plots = << >> /\ lines = << >> /\ mqtt_callback_buffer' = mqtt_callback_buffer
  BY DEF Show, DataInv, Idle, Busy
<1>2. CASE UNCHANGED data
  BY <1>1, <1>2 DEF data, parsed, DataInv, Windows, Columns, Planned, Idle, DataOnly
<1>3. CASE StartParse(mqtt_callback_buffer) /\ ~UNCHANGED data
  <2> DEFINE m == mqtt_callback_buffer
  <2>1. UNCHANGED <<win, columns, plots>> /\ lines' = Body(m, head') /\ head' \in HeadAfter(m)
    BY <1>3 DEF StartParse
  <2>2. m \in MessageRecord /\ (m.head = "data" => m.fits)
    BY DEF SceneInv
  <2>3. lines' \in Seq(LineRecord) /\ (lines' # << >> => m.head = "data" /\ head' = "data")
    <3>1. m.lines \in Seq(LineRecord) /\ m.head \in {"data", "other", "none"}
      <4> HIDE DEF LineRecord
      <4> QED BY <2>2 DEF MessageRecord
    <3> HIDE DEF m, LineRecord
    <3> QED BY <2>1, <3>1 DEF Body, HeadAfter
  <2>4. Windows' /\ Columns' /\ Planned'
    BY <2>1, <2>3 DEF DataInv, Windows, Columns, Planned
  <2>5. pc' # "parse" => lines' = << >>
    <3> SUFFICES ASSUME pc' # "parse", lines' # << >> PROVE FALSE
      OBVIOUS
    <3>1. m.head = "data" /\ head' = "data" /\ m.fits
      BY <2>2, <2>3
    <3>2. HeadCopied(m.fits, IF head' = "data" THEN "parse" ELSE "loop")
      BY <1>3 DEF Show
    <3> QED BY <3>1, <3>2 DEF HeadCopied
  <2> QED BY <1>1, <2>1, <2>3, <2>4, <2>5 DEF DataInv, Idle, DataOnly, Busy
<1>4. UNCHANGED data \/ StartParse(mqtt_callback_buffer)
  BY DEF Show
<1> QED BY <1>2, <1>3, <1>4

\* When nothing is plotted and no line taken.
LEMMA DataStays ==
  ASSUME DataInv, UNCHANGED <<win, columns, lines, plots, mqtt_callback_buffer>>,
         pc' = pc \/ pc' \in Busy \/ (lines = << >> /\ plots = << >>)
  PROVE  DataInv'
BY DEF DataInv, Windows, Columns, Planned, Idle, DataOnly

\* When a sample or a line is, main() is still busy with it.
LEMMA SampleStep ==
  ASSUME DataInv, Plot \/ CutSample, mqtt_callback_buffer' = mqtt_callback_buffer, pc' \in Busy
  PROVE  DataInv'
<1>1. Windows' /\ Columns' /\ Planned'
  BY SampleKeeps
<1>2. plots # << >>
  BY DEF Plot, CutSample
<1>3. mqtt_callback_buffer.head = "data"
  BY <1>2 DEF DataInv, DataOnly
<1> QED BY <1>1, <1>3 DEF DataInv, Idle, DataOnly

LEMMA ParseStep ==
  ASSUME DataInv, Parse
  PROVE  DataInv'
<1>1. pc = "parse" /\ mqtt_callback_buffer' = mqtt_callback_buffer
  BY DEF Parse
<1>2. CASE TakeLine /\ pc' \in {"parse", "dead"}
  <2>1. /\ UNCHANGED <<win, columns>> /\ lines # << >> /\ plots = << >>
        /\ plots' = LineSamples(Head(lines)) /\ lines' = Tail(lines)
    BY <1>2 DEF TakeLine
  <2>2. Head(lines) \in LineRecord /\ Tail(lines) \in Seq(LineRecord)
    <3> HIDE DEF LineRecord
    <3> QED BY <2>1 DEF DataInv, Planned
  <2>3. Planned'
    <3> HIDE DEF LineRecord
    <3> QED BY <2>1, <2>2, LineSampled DEF Planned
  <2>4. Windows' /\ Columns'
    BY <2>1 DEF DataInv, Windows, Columns
  <2>5. mqtt_callback_buffer.head = "data"
    BY <2>1 DEF DataInv, DataOnly
  <2> QED BY <1>1, <1>2, <2>3, <2>4, <2>5 DEF DataInv, Idle, DataOnly, Busy
<1>3. CASE Plot /\ pc' = pc
  BY <1>1, <1>3, SampleStep DEF Busy
<1>4. CASE lines = << >> /\ plots = << >> /\ UNCHANGED <<win, columns, lines, plots>>
  BY <1>1, <1>4, DataStays
<1>5. \/ TakeLine /\ pc' \in {"parse", "dead"}
      \/ Plot /\ pc' = pc
      \/ lines = << >> /\ plots = << >> /\ UNCHANGED <<win, columns, lines, plots>>
  BY DEF Parse, HeadCopied, Trigger, parsed
<1> QED BY <1>2, <1>3, <1>4, <1>5

LEMMA KeyStep ==
  ASSUME DataInv, Key
  PROVE  DataInv'
<1>1. mqtt_callback_buffer' = mqtt_callback_buffer
  BY KeyCases
<1>2. CASE UNCHANGED parsed /\ (pc' = pc \/ pc' = "hung")
  BY <1>1, <1>2, DataStays DEF parsed, Busy
<1>3. CASE CutSample /\ pc' = "hung"
  BY <1>1, <1>3, SampleStep DEF Busy
<1> QED BY <1>2, <1>3, KeyCases

\* In the other actions there is nothing to plot, or nothing moves.
LEMMA OtherSteps ==
  ASSUME [PNext]_pvars, ~Show, ~Parse, ~Key
  PROVE  /\ UNCHANGED parsed
         /\ \/ pc' = pc /\ mqtt_callback_buffer' = mqtt_callback_buffer
            \/ pc \notin Busy
<1>1. CASE Switch \/ Copy \/ UNCHANGED pvars
  BY <1>1 DEF Switch, Copy, Copied, pvars, loop, data
<1>2. CASE Connect \/ ReadMode \/ Announce \/ ReadPeriod
  BY <1>2 DEF Connect, ReadMode, Announce, ReadPeriod, data, Busy
<1>3. CASE \E k \in 0 .. Len(queue) : Poll(k)
  BY <1>3 DEF Poll, data, Busy
<1>4. CASE PutLine
  BY <1>4 DEF PutLine, Busy
<1> QED BY <1>1, <1>2, <1>3, <1>4 DEF PNext

LEMMA DataStep == DataInv /\ SceneInv /\ [PNext]_pvars => DataInv'
<1> SUFFICES ASSUME DataInv, SceneInv, [PNext]_pvars PROVE DataInv'
  OBVIOUS
<1>1. CASE ~Show /\ ~Parse /\ ~Key
  <2>1. /\ UNCHANGED <<win, columns, lines, plots>>
        /\ \/ pc' = pc /\ mqtt_callback_buffer' = mqtt_callback_buffer
           \/ pc \notin Busy
    BY <1>1, OtherSteps DEF parsed
  <2> QED BY <2>1 DEF DataInv, Windows, Columns, Planned, Idle, DataOnly
<1> QED BY <1>1, ShowStep, ParseStep, KeyStep

LEMMA DataHolds == PSpec => []DataInv
BY DataStart, DataStep, SceneHolds, PTL DEF PSpec

\* Only data messages move the graphs, whatever msg_head holds when a message
\* has no head (main.c:144-158).
THEOREM PlotsOnlyDataHolds == PSpec => PlotsOnlyData
<1>1. DataInv /\ [PNext]_pvars => [win' # win => mqtt_callback_buffer.head = "data"]_pvars
  <2> SUFFICES ASSUME DataInv, [PNext]_pvars, win' # win
               PROVE  mqtt_callback_buffer.head = "data"
    OBVIOUS
  <2>1. CASE ~Show /\ ~Parse /\ ~Key
    BY <2>1, OtherSteps DEF parsed
  <2>2. CASE Show
    BY <2>2 DEF Show, StartParse, data, parsed
  <2>3. plots # << >> => mqtt_callback_buffer.head = "data"
    BY DEF DataInv, DataOnly
  <2>4. CASE Parse
    BY <2>3, <2>4 DEF Parse, TakeLine, Plot, Trigger, parsed
  <2>5. CASE Key
    <3>1. UNCHANGED parsed \/ CutSample
      BY <2>5, KeyCases
    <3> QED BY <2>3, <3>1 DEF CutSample, parsed
  <2> QED BY <2>1, <2>2, <2>4, <2>5
<1> QED BY <1>1, DataHolds, PTL DEF PSpec, PlotsOnlyData
-----------------------------------------------------------------------------
\* Every sample of an axis has its age.
Ages == age \in [AxisCbs -> Seq(Nat)] /\ \A c \in AxisCbs : Len(age[c]) = Len(win[c])

LEMMA SampleAges ==
  ASSUME DataInv, Ages, Plot \/ CutSample
  PROVE  Ages'
<1> DEFINE b == Head(plots)[1]
<1>1. Windows /\ Planned
  BY DEF DataInv
<1>2. b \in Cbs /\ age' = Younger(b)
  BY <1>1, SampleTaken
<1>3. PICK d \in Byte : win' = [win EXCEPT ![b] = W!Slide(win[b], d)]
  BY <1>1, SampleTaken
<1> HIDE DEF b
<1>4. win \in [Cbs -> Seq(Byte)] /\ \A c \in Cbs : Len(win[c]) <= Size
  BY <1>1 DEF Windows
<1>5. CASE b \notin AxisCbs
  <2>1. age' = age
    BY <1>2, <1>5 DEF Younger
  <2>2. \A c \in AxisCbs : win'[c] = win[c]
    BY <1>3, <1>4, <1>5, AxisNotScalar
  <2> QED BY <2>1, <2>2 DEF Ages
<1>6. CASE b \in AxisCbs
  <2> DEFINE a == W!Slide(age[b], 0)
             w == W!Slide(win[b], d)
  <2>1. age[b] \in Seq(Nat) /\ Len(age[b]) = Len(win[b]) /\ Len(age[b]) <= Size
    BY <1>2, <1>4, <1>6 DEF Ages
  <2>2. a \in Seq(Nat) /\ Len(a) = Advance(Len(age[b]))
    <3>1. 0 \in Nat
      OBVIOUS
    <3> QED BY <2>1, <3>1, SlideFacts
  <2>3. win[b] \in Seq(Byte) /\ Len(win[b]) <= Size
    BY <1>2, <1>4
  <2>4. Len(w) = Advance(Len(win[b]))
    BY <2>3, SlideFacts
  <2>5. age' = [age EXCEPT ![b] = a] /\ win' = [win EXCEPT ![b] = w]
    BY <1>2, <1>3, <1>6 DEF Younger
  <2> HIDE DEF a, w
  <2>6. age' \in [AxisCbs -> Seq(Nat)]
    BY <2>2, <2>5 DEF Ages
  <2>7. ASSUME NEW c \in AxisCbs PROVE Len(age'[c]) = Len(win'[c])
    <3>1. c \in Cbs
      BY AxisNotScalar
    <3>2. CASE c = b
      <4>1. age'[c] = a /\ win'[c] = w
        BY <1>2, <1>4, <1>6, <2>5, <3>2 DEF Ages
      <4> QED BY <2>1, <2>2, <2>4, <4>1
    <3>3. CASE c # b
      <4>1. age'[c] = age[c] /\ win'[c] = win[c]
        BY <1>4, <2>5, <3>1, <3>3 DEF Ages
      <4> QED BY <4>1 DEF Ages
    <3> QED BY <3>2, <3>3
  <2> QED BY <2>6, <2>7 DEF Ages
<1> QED BY <1>5, <1>6

LEMMA OlderAges ==
  ASSUME Ages
  PROVE  Older \in [AxisCbs -> Seq(Nat)] /\ \A c \in AxisCbs : Len(Older[c]) = Len(age[c])
<1>1. ASSUME NEW c \in AxisCbs
      PROVE  /\ [i \in 1 .. Len(age[c]) |-> age[c][i] + 1] \in Seq(Nat)
             /\ Len([i \in 1 .. Len(age[c]) |-> age[c][i] + 1]) = Len(age[c])
  <2> DEFINE a == age[c]
             n == Len(a)
  <2>1. a \in Seq(Nat) /\ n \in Nat
    BY DEF Ages
  <2>2. \A i \in 1 .. n : a[i] + 1 \in Nat
    BY <2>1, ElementOfSeq
  <2> HIDE DEF a, n
  <2>3. [i \in 1 .. n |-> a[i] + 1] \in Seq(Nat) /\ Len([i \in 1 .. n |-> a[i] + 1]) = n
    BY <2>1, <2>2
  <2> QED BY <2>3 DEF a, n
<1> QED BY <1>1 DEF Older

\* The actions that do not age or plot anything.
LEMMA AgesKept ==
  ASSUME [PNext]_pvars, ~(Parse /\ (TakeLine \/ Plot)), ~CutSample
  PROVE  UNCHANGED <<win, age, plots>>
<1>1. CASE ~Show /\ ~Parse /\ ~Key
  BY <1>1, OtherSteps DEF parsed
<1>2. CASE Show
  BY <1>2 DEF Show, StartParse, data, parsed
<1>3. CASE Parse
  BY <1>3 DEF Parse, Trigger, parsed
<1>4. CASE Key
  BY <1>4, KeyCases DEF parsed
<1> QED BY <1>1, <1>2, <1>3, <1>4

LEMMA AgesStart == PInit => Ages
BY DataMessageAssumption, AxisNotScalar DEF PInit, DataInit, W!WInit, Ages

LEMMA AgesStep == Ages /\ DataInv /\ [PNext]_pvars => Ages'
<1> SUFFICES ASSUME Ages, DataInv, [PNext]_pvars PROVE Ages'
  OBVIOUS
<1>1. CASE TakeLine
  <2>1. win' = win /\ (age' = Older \/ age' = age)
    BY <1>1 DEF TakeLine
  <2> QED BY <2>1, OlderAges DEF Ages
<1>2. CASE Plot \/ CutSample
  BY <1>2, SampleAges
<1>3. CASE ~TakeLine /\ ~Plot /\ ~CutSample
  BY <1>3, AgesKept DEF Ages
<1> QED BY <1>1, <1>2, <1>3

LEMMA AgesHold == PSpec => []Ages
BY AgesStart, AgesStep, DataHolds, PTL DEF PSpec

\* The axes of one measurement: the ages a in the window of every axis that
\* waits to be plotted, and one new sample in the others; or all have the ages a
\* and what waits is no axis.
InRun(a) == /\ Len(plots) <= Len(Axes)
            /\ \A i \in 1 .. Len(plots) : plots[i][1] = Axes[Len(Axes) - Len(plots) + i]
            /\ \A i \in 1 .. Len(Axes) : age[Axes[i]] = IF i <= Len(Axes) - Len(plots)
                                                        THEN W!Slide(a, 0) ELSE a
NoRun(a) == /\ Len(plots) <= 1
            /\ \A i \in 1 .. Len(plots) : plots[i][1] \in Scalars
            /\ \A i \in 1 .. Len(Axes) : age[Axes[i]] = a
AxesInv  == \E a : InRun(a) \/ NoRun(a)

LEMMA AllEqual ==
  ASSUME AxesInv, plots = << >>
  PROVE  \E a : \A i \in 1 .. Len(Axes) : age[Axes[i]] = a
<1>1. PICK a : InRun(a) \/ NoRun(a)
  BY DEF AxesInv
<1>2. Len(plots) = 0
  OBVIOUS
<1>3. CASE InRun(a)
  <2>1. ASSUME NEW i \in 1 .. Len(Axes)
        PROVE  age[Axes[i]] = W!Slide(a, 0)
    <3>1. i <= Len(Axes) - Len(plots)
      BY <1>2, DataFacts
    <3> QED BY <1>3, <3>1 DEF InRun
  <2> QED BY <2>1
<1>4. CASE NoRun(a)
  BY <1>4 DEF NoRun
<1> QED BY <1>1, <1>3, <1>4

LEMMA LineBegins ==
  ASSUME DataInv, AxesInv, TakeLine
  PROVE  AxesInv'
<1> DEFINE h == Head(lines)
<1>1. /\ plots = << >> /\ plots' = LineSamples(h) /\ lines # << >>
      /\ age' = IF h.of = "axes" THEN Older ELSE age
  BY DEF TakeLine
<1>2. PICK a : \A i \in 1 .. Len(Axes) : age[Axes[i]] = a
  BY <1>1, AllEqual
<1>3. CASE h.of = "axes"
  <2>1. plots' = [i \in 1 .. Len(Axes) |-> <<Axes[i], Value(h, i)>>]
    BY <1>1, <1>3 DEF LineSamples
  <2>2. Len(plots') = Len(Axes) /\ \A i \in 1 .. Len(Axes) : plots'[i][1] = Axes[i]
    BY <2>1, DataFacts
  <2>3. \A i \in 1 .. Len(plots') : plots'[i][1] = Axes[Len(Axes) - Len(plots') + i]
    <3> SUFFICES ASSUME NEW i \in 1 .. Len(plots')
                 PROVE  plots'[i][1] = Axes[Len(Axes) - Len(plots') + i]
      OBVIOUS
    <3>1. Len(Axes) - Len(plots') + i = i /\ i \in 1 .. Len(Axes)
      BY <2>2, DataFacts
    <3> QED BY <2>2, <3>1
  <2> DEFINE b == [k \in 1 .. Len(a) |-> a[k] + 1]
  <2>4. ASSUME NEW i \in 1 .. Len(Axes)
        PROVE  age'[Axes[i]] = b
    <3>1. age' = Older /\ Axes[i] \in AxisCbs /\ age[Axes[i]] = a
      BY <1>1, <1>2, <1>3, DataFacts
    <3> QED BY <3>1 DEF Older
  <2>5. \A i \in 1 .. Len(Axes) : ~(i <= Len(Axes) - Len(plots'))
    BY <2>2, DataFacts
  <2>6. Len(plots') <= Len(Axes)
    BY <2>2, DataFacts
  <2> HIDE DEF b
  <2>7. InRun(b)'
    BY <2>3, <2>4, <2>5, <2>6 DEF InRun
  <2> QED BY <2>7 DEF AxesInv
<1>4. CASE h.of # "axes" /\ h.of \in Scalars
  <2>1. plots' = << <<h.of, Value(h, 1)>> >>
    BY <1>1, <1>4 DEF LineSamples
  <2>2. age' = age
    BY <1>1, <1>4
  <2> HIDE DEF h
  <2>3. Len(plots') = 1 /\ plots'[1][1] = h.of
    BY <2>1
  <2>4. \A i \in 1 .. Len(plots') : plots'[i][1] \in Scalars
    BY <1>4, <2>3
  <2>5. Len(plots') <= 1
    BY <2>3
  <2>6. NoRun(a)'
    BY <1>2, <2>2, <2>4, <2>5 DEF NoRun
  <2> QED BY <2>6 DEF AxesInv
<1>5. CASE h.of # "axes" /\ h.of \notin Scalars
  <2>1. plots' = << >> /\ age' = age
    BY <1>1, <1>5 DEF LineSamples
  <2>2. Len(plots') = 0
    BY <2>1
  <2>3. NoRun(a)'
    BY <1>2, <2>1, <2>2 DEF NoRun
  <2> QED BY <2>3 DEF AxesInv
<1> QED BY <1>3, <1>4, <1>5

LEMMA SampleMoves ==
  ASSUME DataInv, Ages, AxesInv, Plot \/ CutSample
  PROVE  AxesInv'
<1> DEFINE K == Len(Axes)
           p == Len(plots)
           q == plots[1][1]
<1>1. PICK a : InRun(a) \/ NoRun(a)
  BY DEF AxesInv
<1>2. plots' = Tail(plots) /\ plots # << >> /\ q \in Cbs /\ age' = Younger(q)
  BY SampleTaken DEF DataInv
<1>3. /\ p \in Nat /\ p >= 1 /\ Len(plots') = p - 1
      /\ \A i \in 1 .. Len(plots') : plots'[i] = plots[i + 1]
  <2> DEFINE T == Cbs \X (Byte \cup {Wild})
  <2>1. plots \in Seq(T)
    BY DEF DataInv, Planned
  <2> HIDE DEF T
  <2> QED BY <1>2, <2>1, HeadTailProperties, EmptySeq
<1>4. K \in Nat /\ K > 0
  BY DataFacts
<1> HIDE DEF q
<1>5. ASSUME NEW i \in 1 .. K
      PROVE  age'[Axes[i]] = IF Axes[i] = q THEN W!Slide(age[Axes[i]], 0) ELSE age[Axes[i]]
  <2>1. Axes[i] \in AxisCbs /\ age \in [AxisCbs -> Seq(Nat)]
    BY DataFacts DEF Ages
  <2> QED BY <1>2, <2>1 DEF Younger
<1>6. CASE InRun(a)
  <2>1. /\ p <= K
        /\ \A i \in 1 .. p : plots[i][1] = Axes[K - p + i]
        /\ \A i \in 1 .. K : age[Axes[i]] = IF i <= K - p THEN W!Slide(a, 0) ELSE a
    BY <1>6 DEF InRun
  <2> HIDE DEF K, p
  <2> DEFINE r == Len(plots')
  <2>2. r = p - 1
    BY <1>3
  <2> HIDE DEF r
  <2>3. q = Axes[K - p + 1] /\ K - p + 1 \in 1 .. K
    BY <1>3, <1>4, <2>1 DEF q
  <2>4. r <= K
    BY <1>3, <1>4, <2>1, <2>2
  <2>5. ASSUME NEW i \in 1 .. r
        PROVE  plots'[i][1] = Axes[K - r + i]
    <3>1. i + 1 \in 1 .. p /\ K - p + (i + 1) = K - r + i
      BY <1>3, <1>4, <2>2
    <3>2. plots'[i] = plots[i + 1]
      BY <1>3 DEF r
    <3> QED BY <2>1, <3>1, <3>2
  <2>6. ASSUME NEW i \in 1 .. K
        PROVE  age'[Axes[i]] = IF i <= K - r THEN W!Slide(a, 0) ELSE a
    <3>1. CASE i = K - p + 1
      <4>1. i <= K - r /\ ~(i <= K - p)
        BY <1>3, <1>4, <2>2, <3>1
      <4>2. age[Axes[i]] = a /\ Axes[i] = q
        BY <2>1, <2>3, <3>1, <4>1
      <4>3. age'[Axes[i]] = W!Slide(a, 0)
        BY <1>5, <4>2 DEF K
      <4> QED BY <4>1, <4>3
    <3>2. CASE i # K - p + 1
      <4>1. (i <= K - r) = (i <= K - p)
        BY <1>3, <1>4, <2>2, <3>2
      <4>2. Axes[i] # q
        BY <2>3, <3>2, DataFacts DEF K
      <4>3. age'[Axes[i]] = age[Axes[i]]
        BY <1>5, <4>2 DEF K
      <4> QED BY <2>1, <4>1, <4>3
    <3> QED BY <3>1, <3>2
  <2>7. InRun(a)'
    BY <2>4, <2>5, <2>6 DEF InRun, K, r
  <2> QED BY <2>7 DEF AxesInv
<1>7. CASE NoRun(a)
  <2>1. p = 1 /\ q \in Scalars
    <3>1. p <= 1 /\ \A i \in 1 .. p : plots[i][1] \in Scalars
      BY <1>7 DEF NoRun
    <3> QED BY <1>3, <3>1 DEF q
  <2>2. Len(plots') = 0
    BY <1>3, <2>1
  <2>3. ASSUME NEW i \in 1 .. K
        PROVE  age'[Axes[i]] = a
    <3>1. Axes[i] # q
      BY <2>1, DataFacts
    <3> QED BY <1>5, <1>7, <3>1 DEF NoRun
  <2>4. NoRun(a)'
    BY <2>2, <2>3 DEF NoRun
  <2> QED BY <2>4 DEF AxesInv
<1> QED BY <1>1, <1>6, <1>7

LEMMA AxesStart == PInit => AxesInv
<1> SUFFICES ASSUME PInit PROVE AxesInv
  OBVIOUS
<1>1. plots = << >> /\ age = [c \in AxisCbs |-> << >>]
  BY DEF PInit, DataInit
<1>2. Len(plots) = 0 /\ \A i \in 1 .. Len(Axes) : age[Axes[i]] = << >>
  BY <1>1, DataFacts
<1>3. NoRun(<< >>)
  BY <1>2 DEF NoRun
<1> QED BY <1>3 DEF AxesInv

LEMMA AxesStep == AxesInv /\ Ages /\ DataInv /\ [PNext]_pvars => AxesInv'
<1> SUFFICES ASSUME AxesInv, Ages, DataInv, [PNext]_pvars PROVE AxesInv'
  OBVIOUS
<1>1. CASE TakeLine
  BY <1>1, LineBegins
<1>2. CASE Plot \/ CutSample
  BY <1>2, SampleMoves
<1>3. CASE ~TakeLine /\ ~Plot /\ ~CutSample
  <2>1. UNCHANGED <<age, plots>>
    BY <1>3, AgesKept
  <2> QED BY <2>1 DEF AxesInv, InRun, NoRun
<1> QED BY <1>1, <1>2, <1>3

\* However a Magneto line is cut off or malformed, when main() goes on, the
\* samples in the same column of the three graphs are from the same line
\* (main.c:167-181).
THEOREM AxesTogetherHolds == PSpec => []AxesTogether
<1>1. AxesInv /\ DataInv => AxesTogether
  <2> SUFFICES ASSUME AxesInv, DataInv, pc = "loop", NEW i \in DOMAIN Axes, NEW j \in DOMAIN Axes
               PROVE  age[Axes[i]] = age[Axes[j]]
    BY DEF AxesTogether
  <2>1. plots = << >>
    BY DEF DataInv, Idle, Busy
  <2>2. DOMAIN Axes = 1 .. Len(Axes)
    BY DataMessageAssumption
  <2> QED BY <2>1, <2>2, AllEqual
<1> QED BY <1>1, AxesStart, AxesStep, AgesHold, DataHolds, PTL DEF PSpec
-----------------------------------------------------------------------------
\* The settings, on the panel, in main() and on their way.
UserInv == /\ sens_mode \in 0 .. Modes - 1 /\ sens_t \in 0 .. LastT
           /\ new_mode \in 0 .. Modes - 1 /\ old.mode \in 0 .. Modes - 1
           /\ beside \in {"nothing", "old_mode", "old_period"}
QueueInv == queue \in Seq(Settings \cup {Ping}) /\ Len(queue) <= Cap

LEMMA SettingsFacts ==
  ASSUME NEW m \in 0 .. Modes - 1, NEW t \in 0 .. LastT
  PROVE  Setting(m, sens_t_mod(t)) \in Settings /\ Setting(m, sens_t_mod(t)).mode = m
BY DEF Setting, Settings

LEMMA UserStart == PInit => UserInv
<1> SUFFICES ASSUME PInit PROVE UserInv
  OBVIOUS
<1>1. scene \in Scenes /\ beside \in scene.beside
  BY DEF PInit
<1>2. PICK c \in scene.counters : sens_mode = c[1] /\ sens_t = c[2]
  BY DEF PInit
<1>3. c \in (0 .. Modes - 1) \X (0 .. LastT) /\ beside \in {"nothing", "old_mode", "old_period"}
  BY <1>1, PanelAssumption
<1>4. sens_mode \in 0 .. Modes - 1 /\ sens_t \in 0 .. LastT
  BY <1>2, <1>3
<1>5. new_mode = 0 /\ old.mode = 0 /\ 0 \in 0 .. Modes - 1
  BY PanelAssumption DEF PInit, Setting
<1> QED BY <1>3, <1>4, <1>5 DEF UserInv

LEMMA ModeKept ==
  ASSUME UserInv, NEW m \in 0 .. Modes - 1, NEW t, PublishSettings(Setting(m, t))
  PROVE  old'.mode \in 0 .. Modes - 1
<1> DEFINE s == Setting(m, t)
<1>1. s.mode = m /\ old' = Overflown(s) /\ beside \in {"nothing", "old_mode", "old_period"}
  BY DEF Setting, PublishSettings, UserInv
<1>2. 0 \in 0 .. Modes - 1
  BY PanelAssumption
<1> HIDE DEF s
<1>3. Overflown(s) \in {s, Setting(0, s.period), Setting(s.mode, 0)}
  BY <1>1 DEF Overflown
<1> QED BY <1>1, <1>2, <1>3 DEF Setting

LEMMA UserStep == UserInv /\ [PNext]_pvars => UserInv'
<1> SUFFICES ASSUME UserInv, [PNext]_pvars PROVE UserInv'
  OBVIOUS
<1>0. Modes \in Nat \ {0} /\ LastT \in Nat /\ 0 \in 0 .. Modes - 1 /\ 0 \in 0 .. LastT
  BY PanelAssumption
<1>1. CASE UNCHANGED <<sens_mode, sens_t, new_mode, old, beside>>
  BY <1>1 DEF UserInv
<1>2. CASE Key
  <2>1. UNCHANGED <<new_mode, old, beside>>
    BY <1>2, KeyCases
  <2>2. CNT(sens_mode, Modes) \in 0 .. Modes - 1
    <3>1. sens_mode + 1 \in Nat
      BY DEF UserInv
    <3> QED BY <1>0, <3>1, ModRange DEF CNT
  <2>3. UDL_CNT(sens_t) \in 0 .. LastT
    BY <1>0 DEF UDL_CNT, UserInv
  <2>4. sens_mode' \in 0 .. Modes - 1 /\ sens_t' \in 0 .. LastT
    BY <1>0, <1>2, <2>2, <2>3 DEF Key, Count, Reset, UserInv
  <2> QED BY <2>1, <2>4 DEF UserInv
<1>3. CASE Switch \/ Copy \/ Connect \/ PutLine \/ UNCHANGED pvars
  <2>1. UNCHANGED <<sens_mode, sens_t, new_mode, old, beside>>
    BY <1>3 DEF Switch, Copy, Connect, PutLine, pvars, user, loop
  <2> QED BY <1>1, <2>1
<1>4. CASE ReadMode
  <2>1. UNCHANGED <<sens_mode, sens_t, old, beside>> /\ new_mode' = sens_mode
    BY <1>4 DEF ReadMode, user
  <2> QED BY <2>1 DEF UserInv
<1>5. CASE Announce
  <2>1. UNCHANGED <<sens_mode, sens_t, new_mode, beside>>
    BY <1>5 DEF Announce, user
  <2>2. old'.mode \in 0 .. Modes - 1
    BY <1>5, ModeKept DEF Announce, UserInv
  <2> QED BY <2>1, <2>2 DEF UserInv
<1>6. CASE ReadPeriod
  <2>1. UNCHANGED <<sens_mode, sens_t, new_mode, beside>>
    BY <1>6 DEF ReadPeriod, user
  <2>2. old' = old \/ PublishSettings(Setting(new_mode, sens_t_mod(sens_t)))
    BY <1>6 DEF ReadPeriod
  <2>3. old'.mode \in 0 .. Modes - 1
    BY <2>2, ModeKept DEF UserInv
  <2> QED BY <2>1, <2>3 DEF UserInv
<1>7. CASE \E k \in 0 .. Len(queue) : Poll(k)
  <2>1. UNCHANGED <<sens_mode, sens_t, new_mode, old, beside>>
    BY <1>7 DEF Poll, user
  <2> QED BY <1>1, <2>1
<1>8. CASE Show \/ Parse
  <2>1. UNCHANGED <<sens_mode, sens_t, new_mode, beside>>
    BY <1>8 DEF Show, Parse, user
  <2>2. old' = old \/ old' \in Settings
    BY <1>8 DEF Show, Parse, HeadCopied
  <2>3. old'.mode \in 0 .. Modes - 1
    BY <2>2 DEF UserInv, Settings
  <2> QED BY <2>1, <2>3 DEF UserInv
<1> QED BY <1>2, <1>3, <1>4, <1>5, <1>6, <1>7, <1>8 DEF PNext

LEMMA StageKeeps ==
  ASSUME QueueInv, NEW p \in Settings \cup {Ping}, Stage(p)
  PROVE  QueueInv'
<1> DEFINE S == Settings \cup {Ping}
<1>1. queue \in Seq(S) /\ p \in S /\ Len(queue) <= Cap /\ Cap \in Nat
  BY PanelAssumption DEF QueueInv
<1> HIDE DEF S
<1>2. CASE queue' = queue
  BY <1>2 DEF QueueInv
<1>3. CASE queue' = Append(queue, p) /\ Len(queue) < Cap
  <2>1. queue' \in Seq(S) /\ Len(queue') = Len(queue) + 1
    BY <1>1, <1>3
  <2>2. Len(queue') <= Cap
    BY <1>1, <1>3, <2>1
  <2> QED BY <2>1, <2>2 DEF QueueInv, S
<1> QED BY <1>2, <1>3 DEF Stage

LEMMA SendKeeps ==
  ASSUME QueueInv, NEW k \in 0 .. Len(queue), Send(k)
  PROVE  QueueInv'
<1> DEFINE S == Settings \cup {Ping}
           n == Len(queue)
           s == SubSeq(queue, k + 1, n)
<1>1. queue \in Seq(S) /\ n \in Nat /\ n <= Cap /\ Cap \in Nat
  BY PanelAssumption DEF QueueInv
<1> HIDE DEF S
<1>2. CASE Stage(Ping)
  BY <1>2, StageKeeps
<1>3. CASE queue' = s
  <2>1. k + 1 \in Nat \ {0} /\ k + 1 <= n + 1
    BY <1>1
  <2>2. \A i \in k + 1 .. n : queue[i] \in S
    <3>1. \A i \in k + 1 .. n : i \in 1 .. n
      BY <1>1
    <3> QED BY <1>1, <3>1, ElementOfSeq
  <2>3. s \in Seq(S) /\ Len(s) <= n
    <3>1. s = [i \in 1 .. n - k |-> queue[i + k]]
      BY <1>1, <2>1
    <3>2. n - k \in Nat /\ n - k <= n
      BY <1>1
    <3>3. ASSUME NEW i \in 1 .. n - k
          PROVE  queue[i + k] \in S
      <4>1. i + k \in k + 1 .. n
        BY <1>1
      <4> QED BY <2>2, <4>1
    <3> HIDE DEF s
    <3> QED BY <3>1, <3>2, <3>3
  <2>4. Len(queue') <= Cap
    <3>1. Len(s) \in Nat
      BY <2>3
    <3> HIDE DEF s, n
    <3> QED BY <1>1, <1>3, <2>3, <3>1
  <2> QED BY <1>3, <2>3, <2>4 DEF QueueInv, S
<1> QED BY <1>2, <1>3 DEF Send

LEMMA QueueStart == PInit => QueueInv
<1> SUFFICES ASSUME PInit PROVE QueueInv
  OBVIOUS
<1>1. queue = << >>
  BY DEF PInit
<1>2. Len(queue) = 0 /\ Cap \in Nat
  BY <1>1, PanelAssumption
<1> QED BY <1>1, <1>2 DEF QueueInv

LEMMA QueueStep == QueueInv /\ UserInv /\ [PNext]_pvars => QueueInv'
<1> SUFFICES ASSUME QueueInv, UserInv, [PNext]_pvars PROVE QueueInv'
  OBVIOUS
<1>1. CASE queue' = queue
  BY <1>1 DEF QueueInv
<1>2. ASSUME NEW k \in 0 .. Len(queue), Poll(k)
      PROVE  QueueInv'
  <2>1. CASE Send(k)
    BY <2>1, SendKeeps
  <2>2. CASE Break \/ Silent
    BY <1>1, <2>2 DEF Break, Silent
  <2> QED BY <1>2, <2>1, <2>2 DEF Poll
<1>3. Setting(new_mode, sens_t_mod(sens_t)) \in Settings
  BY SettingsFacts DEF UserInv
<1>4. CASE Announce
  <2>1. Stage(Setting(new_mode, sens_t_mod(sens_t)))
    BY <1>4 DEF Announce, PublishSettings
  <2> QED BY <1>3, <2>1, StageKeeps
<1>5. CASE ReadPeriod
  <2>1. queue' = queue \/ Stage(Setting(new_mode, sens_t_mod(sens_t)))
    BY <1>5 DEF ReadPeriod, PublishSettings, link
  <2> QED BY <1>1, <1>3, <2>1, StageKeeps
<1>6. CASE Key \/ Switch \/ Copy \/ Connect \/ ReadMode \/ Show \/ PutLine \/ Parse
           \/ UNCHANGED pvars
  <2>1. queue' = queue
    BY <1>6 DEF Key, Switch, Copy, Connect, ReadMode, Show, PutLine, Parse, pvars, link
  <2> QED BY <1>1, <2>1
<1> QED BY <1>2, <1>4, <1>5, <1>6 DEF PNext

-----------------------------------------------------------------------------
\* The graphs.  After a copy that nothing has spoilt the registers are the
\* columns until one is written, and a data message ends with its trigger.
Drawn   == hs_buf \in Heights \cup {Spoilt}
CopyInv == /\ Drawn
           /\ trg_addr /\ ~refr /\ ~garbled => hs_buf = columns
           /\ how = "plotted" /\ pc \notin Busy /\ ~garbled => trg_addr
           /\ pc = "print" => how = "printed"

LEMMA FlatHeights == Flat \in Heights
BY DataFacts DEF Flat, Heights

\* What the steps of main() do that show nothing, and those of the environment.
LEMMA DisplayKept ==
  ASSUME [PNext]_pvars, ~Key, ~Switch, ~Copy, ~Show, ~PutLine, ~Parse
  PROVE  UNCHANGED <<data, how>> /\ (pc' = pc \/ (pc \notin Busy /\ pc' # "print"))
<1>1. CASE UNCHANGED pvars
  BY <1>1 DEF pvars, loop
<1>2. CASE Connect \/ ReadMode \/ Announce \/ ReadPeriod
  BY <1>2 DEF Connect, ReadMode, Announce, ReadPeriod, Busy
<1>3. CASE \E k \in 0 .. Len(queue) : Poll(k)
  BY <1>3 DEF Poll, Busy
<1> QED BY <1>1, <1>2, <1>3 DEF PNext

LEMMA CopyStart == PInit => CopyInv
BY FlatHeights DEF PInit, DataInit, CopyInv, Drawn

LEMMA CopyStep == CopyInv /\ DataInv /\ SceneInv /\ [PNext]_pvars => CopyInv'
<1> SUFFICES ASSUME CopyInv, DataInv, SceneInv, [PNext]_pvars PROVE CopyInv'
  OBVIOUS
<1>1. CASE Key
  <2>1. /\ UNCHANGED how /\ (UNCHANGED display \/ ResetGraphs)
        /\ pc' = pc \/ pc' = "hung"
    BY <1>1, KeyCases
  <2>2. CASE ResetGraphs
    BY <2>1, <2>2, FlatHeights DEF ResetGraphs, CopyInv, Drawn
  <2>3. CASE UNCHANGED display /\ ~ResetGraphs
    <3>1. Count
      BY <1>1, <2>3 DEF Key, Reset
    <3>2. UNCHANGED <<columns, trg_addr, refr, hs_buf, garbled, pc>>
      BY <3>1 DEF Count, data, parsed, display, loop
    <3> QED BY <2>1, <3>2 DEF CopyInv, Drawn
  <2> QED BY <2>1, <2>2, <2>3
<1>2. CASE Switch
  <2>1. /\ UNCHANGED <<columns, trg_addr, refr, hs_buf, pc, how>>
        /\ garbled' = (garbled \/ (refr /\ sel' # "graph"))
    BY <1>2 DEF Switch, Moved, parsed, loop
  <2> QED BY <2>1 DEF CopyInv, Drawn
<1>3. CASE Copy
  <2>1. /\ UNCHANGED <<columns, trg_addr, garbled, pc, how>>
        /\ hs_buf' = IF garbled THEN Spoilt ELSE columns
    BY <1>3 DEF Copy, Copied, parsed, loop
  <2> QED BY <2>1 DEF CopyInv, Drawn, DataInv, Columns
<1>4. CASE Show
  <2>1. UNCHANGED <<columns, display>>
    BY <1>4 DEF Show, StartParse, data, parsed
  <2>2. UNCHANGED <<columns, trg_addr, refr, hs_buf, garbled>>
    BY <2>1 DEF display
  <2>3. (how' = "plotted" => pc' \in Busy) /\ (pc' = "print" => how' = "printed")
    BY <1>4 DEF Show, HeadCopied, Busy
  <2> QED BY <2>2, <2>3 DEF CopyInv, Drawn
<1>5. CASE PutLine
  <2>1. UNCHANGED <<columns, refr, hs_buf, garbled, how>> /\ trg_addr' = FALSE
        /\ pc = "print"
    BY <1>5 DEF PutLine, parsed
  <2> QED BY <2>1 DEF CopyInv, Drawn
<1>6. CASE Parse
  <2>1. how' = how /\ pc = "parse"
    BY <1>6 DEF Parse
  <2>2. CASE TakeLine /\ HeadCopied(Head(lines).fits, "parse")
    <3>1. UNCHANGED <<columns, trg_addr, refr, hs_buf, garbled>> 
          /\ pc' \in {"parse", "dead"}
      BY <2>2 DEF TakeLine, display, HeadCopied
    <3> QED BY <2>1, <3>1 DEF CopyInv, Drawn, Busy
  <2>3. CASE Plot /\ pc' = pc
    <3>1. hs_buf' = hs_buf /\ trg_addr' = FALSE /\ pc' = "parse"
      BY <2>1, <2>3 DEF Plot
    <3> QED BY <2>1, <3>1 DEF CopyInv, Drawn, Busy
  <2>4. CASE Trigger(sel # "graph") /\ pc' = "loop"
    <3>1. UNCHANGED <<columns, hs_buf>> /\ trg_addr' = TRUE
      BY <2>4 DEF Trigger, parsed
    <3>2. (trg_addr /\ UNCHANGED <<refr, garbled>>) \/ refr' = TRUE
      BY <2>4 DEF Trigger
    <3> QED BY <2>1, <2>4, <3>1, <3>2 DEF CopyInv, Drawn
  <2> QED BY <1>6, <2>2, <2>3, <2>4 DEF Parse
<1>7. CASE ~Key /\ ~Switch /\ ~Copy /\ ~Show /\ ~PutLine /\ ~Parse
  <2>1. UNCHANGED <<data, how>> /\ (pc' = pc \/ (pc \notin Busy /\ pc' # "print"))
    BY <1>7, DisplayKept
  <2>2. UNCHANGED <<columns, trg_addr, refr, hs_buf, garbled>>
    BY <2>1 DEF data, parsed, display
  <2> QED BY <2>1, <2>2 DEF CopyInv, Drawn
<1> QED BY <1>1, <1>2, <1>3, <1>4, <1>5, <1>6, <1>7

LEMMA CopyHolds == PSpec => []CopyInv
BY CopyStart, CopyStep, DataHolds, SceneHolds, PTL DEF PSpec

LEMMA InvTyped == TextInv /\ DataInv /\ Ages /\ CopyInv /\ UserInv /\ QueueInv => PTypeOK
<1> SUFFICES ASSUME TextInv, DataInv, Ages, CopyInv, UserInv, QueueInv PROVE PTypeOK
  OBVIOUS
<1> DEFINE Wins == UNION {[1 .. n -> Byte] : n \in 0 .. Size}
<1>1. ASSUME NEW c \in Cbs
      PROVE  win[c] \in Wins
  <2>1. win[c] \in Seq(Byte) /\ Len(win[c]) <= Size
    BY DEF DataInv, Windows
  <2>2. Len(win[c]) \in 0 .. Size /\ win[c] \in [1 .. Len(win[c]) -> Byte]
    BY <2>1, DataFacts
  <2> QED BY <2>2
<1>2. win \in [Cbs -> Wins]
  <2> HIDE DEF Wins
  <2> QED BY <1>1 DEF DataInv, Windows
<1>3. Chosen \in Settings
  BY SettingsFacts DEF UserInv, Chosen
<1>4. ASSUME NEW i \in 1 .. Len(queue)
      PROVE  queue[i] \in Settings \cup {Ping}
  BY ElementOfSeq DEF QueueInv
<1>5. columns \in Heights /\ hs_buf \in Heights \cup {Spoilt}
  BY DEF DataInv, Columns, CopyInv, Drawn
<1>6. \A c \in AxisCbs : Len(age[c]) = Len(win[c])
  BY DEF Ages
<1> QED BY <1>2, <1>3, <1>4, <1>5, <1>6 DEF PTypeOK, TextInv, UserInv, QueueInv

\* Whatever the user does and whatever comes, the counters, the windows, the
\* columns, the cursor and the send buffer stay within their ranges
\* (Txt_Renderer.v:259-267, main.c:33-40, 113-199).
THEOREM PTypeCorrect == PSpec => []PTypeOK
<1>1. PSpec => []UserInv
  BY UserStart, UserStep, PTL DEF PSpec
<1>2. PSpec => []QueueInv
  BY <1>1, QueueStart, QueueStep, PTL DEF PSpec
<1> QED BY <1>1, <1>2, InvTyped, TextHolds, DataHolds, AgesHold, CopyHolds, PTL
-----------------------------------------------------------------------------
\* The last message on the screen.  While main() prints it, the rows printed
\* so far are the newest; while it takes it apart, every value of the lines
\* taken so far is the newest of its window or waits to be plotted.
Printing ==
    LET P == PrintedRows(mqtt_callback_buffer)
    IN  \E j \in Nat :
          /\ j + Len(todo) = Len(P)
          /\ \A i \in 1 .. Len(todo) : todo[i] = P[j + i]
          /\ (\A i \in 1 .. Len(P) : P[i] < H_CH) /\ Len(recent) >= j
               => \A i \in 1 .. j : recent[i] = P[j + 1 - i]

\* c takes value j of the lines of quantity q.
Takes(c, q, j) == \/ c \in Scalars /\ q = c /\ j = 1
                  \/ q = "axes" /\ j \in 1 .. Len(Axes) /\ c = Axes[j]

\* Line l is the last one of quantity q among the first t of m.
IsLast(m, q, t, l) == /\ l \in 1 .. t /\ m.lines[l].of = q
                      /\ \A k \in 1 .. t : m.lines[k].of = q => k <= l

\* The newest sample of c is value j of the last line of q among the first t.
Newer(m, w, c, q, j, t) ==
    (\E l \in 1 .. t : m.lines[l].of = q) =>
        \E l \in 1 .. t : /\ IsLast(m, q, t, l)
                          /\ LET v == Value(m.lines[l], j)
                             IN  v \in Byte => w[c] # << >> /\ w[c][Len(w[c])] = v

\* The first t lines of m are taken apart: ls are left, ps waits to be plotted.
Parsed(m, ls, ps, w, t) ==
    /\ t + Len(ls) = Len(m.lines)
    /\ \A i \in 1 .. Len(ls) : ls[i] = m.lines[t + i]
    /\ \A i \in 1 .. Len(ps) : \E q \in Scalars \cup {"axes"}, j \in Nat :
          /\ t > 0 /\ m.lines[t].of = q
          /\ Takes(ps[i][1], q, j) /\ ps[i][2] = Value(m.lines[t], j)
    /\ \A c \in Cbs, q \in Scalars \cup {"axes"}, j \in Nat : Takes(c, q, j) =>
          \/ \E i \in 1 .. Len(ps) : ps[i][1] = c
          \/ Newer(m, w, c, q, j, t)
Parsing == \E t \in Nat : Parsed(mqtt_callback_buffer, lines, plots, win, t)

Visible ==
    LET m == mqtt_callback_buffer
    IN  /\ how = "none" => m = Empty
        /\ how = "printed" => RowsAbove(m)
        /\ how = "plotted" /\ m.head = "data" =>
             \A c \in Cbs, q \in Scalars \cup {"axes"}, j \in Nat :
                 Takes(c, q, j) => Newer(m, win, c, q, j, Len(m.lines))

VisInv == /\ pc = "parse" => how = "plotted" /\ (mqtt_callback_buffer.head = "data" => Parsing)
          /\ pc = "print" => how = "printed" /\ Printing
          /\ pc \notin {"message", "print"} \cup Busy => Visible

\* The last column of a graph is the last sample of its window.
EndInv == pc # "hung" =>
            \A c \in Cbs : win[c] # << >> => columns[c][Size - 1] = win[c][Len(win[c])]

LEMMA RowsKept ==
  ASSUME NEW m \in MessageRecord
  PROVE  LET n == Len(m.rows)
             k == IF n > 1 /\ m.rows[n] = 0 THEN n - 1 ELSE n
         IN  /\ k \in Nat /\ k > 0 /\ Len(PrintedRows(m)) = k
             /\ \A i \in 1 .. k : PrintedRows(m)[i] = m.rows[i]
<1>1. m.rows \in Seq(Nat) /\ m.rows # << >>
  BY DEF MessageRecord
<1> DEFINE n == Len(m.rows)
           s == SubSeq(m.rows, 1, n - 1)
<1>2. n \in Nat /\ n > 0
  BY <1>1
<1>3. CASE n > 1 /\ m.rows[n] = 0
  <2>1. n - 1 \in Nat /\ n - 1 > 0
    BY <1>2, <1>3
  <2>2. s = [i \in 1 .. n - 1 |-> m.rows[i]]
    BY <1>1, <2>1
  <2>3. Len(s) = n - 1 /\ \A i \in 1 .. n - 1 : s[i] = m.rows[i]
    BY <2>1, <2>2
  <2>4. PrintedRows(m) = s
    BY <1>3 DEF PrintedRows
  <2> HIDE DEF s
  <2> QED BY <1>3, <2>1, <2>3, <2>4
<1>4. CASE ~(n > 1 /\ m.rows[n] = 0)
  <2>1. PrintedRows(m) = m.rows
    BY <1>4 DEF PrintedRows
  <2> QED BY <1>2, <1>4, <2>1
<1> QED BY <1>3, <1>4

\* When all the rows are printed they are above the cursor.
LEMMA AllPrinted ==
  ASSUME NEW m \in MessageRecord, NEW s,
         LET P == PrintedRows(m)
         IN  (\A i \in 1 .. Len(P) : P[i] < H_CH) /\ Len(s) >= Len(P)
               => \A i \in 1 .. Len(P) : s[i] = P[Len(P) + 1 - i]
  PROVE  LET n == Len(m.rows)
             k == IF n > 1 /\ m.rows[n] = 0 THEN n - 1 ELSE n
         IN  (\A i \in 1 .. k : m.rows[i] < H_CH) /\ Len(s) >= k
               => \A i \in 1 .. k : s[i] = m.rows[k + 1 - i]
<1> DEFINE n == Len(m.rows)
           k == IF n > 1 /\ m.rows[n] = 0 THEN n - 1 ELSE n
           P == PrintedRows(m)
<1>1. k \in Nat /\ Len(P) = k /\ \A i \in 1 .. k : P[i] = m.rows[i]
  BY RowsKept
<1> HIDE DEF k, P
<1>2. SUFFICES ASSUME \A i \in 1 .. k : m.rows[i] < H_CH, Len(s) >= k, NEW i \in 1 .. k
               PROVE  s[i] = m.rows[k + 1 - i]
  BY DEF k
<1>3. s[i] = P[k + 1 - i]
  BY <1>1, <1>2 DEF P
<1>4. k + 1 - i \in 1 .. k
  BY <1>1
<1> QED BY <1>1, <1>3, <1>4

LEMMA PrintStep ==
  ASSUME TextInv, SceneInv, Printing, PutLine
  PROVE  /\ pc' = "print" => Printing'
         /\ pc' # "print" => RowsAbove(mqtt_callback_buffer)'
<1> DEFINE m == mqtt_callback_buffer
           P == PrintedRows(m)
           n == Head(todo)
<1>1. PICK j \in Nat :
        /\ j + Len(todo) = Len(P)
        /\ \A i \in 1 .. Len(todo) : todo[i] = P[j + i]
        /\ (\A i \in 1 .. Len(P) : P[i] < H_CH) /\ Len(recent) >= j
             => \A i \in 1 .. j : recent[i] = P[j + 1 - i]
  BY DEF Printing
<1>2. /\ todo # << >> /\ todo' = Tail(todo) /\ PrintLine(n) /\ mqtt_callback_buffer' = m
      /\ pc' = IF Len(todo) = 1 THEN "loop" ELSE "print"
  BY DEF PutLine
<1>3. todo \in Seq(Nat) /\ m \in MessageRecord
  BY DEF SceneInv
<1>4. Len(todo) \in Nat /\ Len(todo) > 0 /\ n = todo[1] /\ n \in Nat
  BY <1>2, <1>3
<1>5. Len(todo') = Len(todo) - 1 /\ \A i \in 1 .. Len(todo') : todo'[i] = todo[i + 1]
  BY <1>2, <1>3, HeadTailProperties
<1>6. recent \in Seq(Cols) /\ Len(recent) \in Nat /\ Len(recent) <= V_CH - 2
  BY DEF TextInv, TextTypeOK
<1> HIDE DEF P, m, n
<1>7. Len(P) \in Nat /\ j + 1 \in 1 .. Len(P) /\ n = P[j + 1]
  BY <1>1, <1>4
<1>8. j + 1 + Len(todo') = Len(P)
  <2> DEFINE a == Len(todo)
             b == Len(todo')
  <2>1. a \in Nat /\ b = a - 1 /\ j + a = Len(P)
    BY <1>1, <1>4, <1>5
  <2> HIDE DEF a, b
  <2>2. j + 1 + b = j + a
    BY <2>1
  <2> QED BY <2>1, <2>2 DEF b
<1>9. ASSUME NEW i \in 1 .. Len(todo')
      PROVE  todo'[i] = P[j + 1 + i]
  <2>1. i + 1 \in 1 .. Len(todo) /\ j + (i + 1) = j + 1 + i
    BY <1>4, <1>5
  <2> QED BY <1>1, <1>5, <2>1
<1>10. ASSUME \A i \in 1 .. Len(P) : P[i] < H_CH, Len(recent') >= j + 1, NEW i \in 1 .. j + 1
       PROVE  recent'[i] = P[j + 1 + 1 - i]
  <2>1. n < H_CH /\ n \in Cols
    BY <1>4, <1>7, <1>10, TextFacts DEF Cols
  <2> DEFINE t == Newest(<<n>> \o recent)
  <2>2. /\ t \in Seq(Cols) /\ Len(t) \in 1 .. V_CH - 2 /\ Len(t) <= Len(recent) + 1
        /\ t[1] = n /\ \A k \in 2 .. Len(t) : t[k] = recent[k - 1]
    BY <1>6, <2>1, NewestFacts
  <2>3. recent' = IF fresh = 2 THEN t ELSE << >>
    BY <1>2, <2>1 DEF PrintLine
  <2> HIDE DEF t
  <2>4. recent' = t
    <3>1. CASE recent' = << >>
      <4>1. Len(recent') = 0
        BY <3>1
      <4> QED BY <1>10, <4>1
    <3> QED BY <2>3, <3>1
  <2>5. Len(recent) >= j
    BY <1>6, <1>10, <2>2, <2>4, TextFacts
  <2>6. CASE i = 1
    <3>1. j + 1 + 1 - i = j + 1
      BY <2>6
    <3> QED BY <1>7, <2>2, <2>4, <2>6, <3>1
  <2>7. CASE i # 1
    <3>1. i \in 2 .. Len(t) /\ i - 1 \in 1 .. j /\ j + 1 - (i - 1) = j + 1 + 1 - i
      BY <1>10, <2>2, <2>4, <2>7, TextFacts
    <3>2. recent[i - 1] = P[j + 1 - (i - 1)]
      BY <1>1, <1>10, <2>5, <3>1
    <3> QED BY <2>2, <2>4, <3>1, <3>2
  <2> QED BY <2>6, <2>7
<1>11. P' = P
  BY <1>2 DEF P, m
<1>12. Printing'
  <2>1. /\ j + 1 \in Nat /\ j + 1 + Len(todo') = Len(P')
        /\ \A i \in 1 .. Len(todo') : todo'[i] = P'[j + 1 + i]
        /\ (\A i \in 1 .. Len(P') : P'[i] < H_CH) /\ Len(recent') >= j + 1
             => \A i \in 1 .. j + 1 : recent'[i] = P'[j + 1 + 1 - i]
    BY <1>8, <1>9, <1>10, <1>11
  <2> QED BY <2>1 DEF Printing, P, m
<1>13. ASSUME pc' # "print"
       PROVE  RowsAbove(mqtt_callback_buffer)'
  <2>1. j + 1 = Len(P)
    BY <1>2, <1>4, <1>8, <1>5, <1>13
  <2>2. (\A i \in 1 .. Len(P) : P[i] < H_CH) /\ Len(recent') >= Len(P)
          => \A i \in 1 .. Len(P) : recent'[i] = P[Len(P) + 1 - i]
    BY <1>10, <2>1
  <2> DEFINE r == recent'
             l == Len(m.rows)
             k == IF l > 1 /\ m.rows[l] = 0 THEN l - 1 ELSE l
  <2>3. (\A i \in 1 .. k : m.rows[i] < H_CH) /\ Len(r) >= k
          => \A i \in 1 .. k : r[i] = m.rows[k + 1 - i]
    <3> HIDE DEF r
    <3> QED BY <1>3, <2>2, AllPrinted DEF P, r
  <2>4. RowsAbove(m)'
    BY <1>2, <2>3 DEF RowsAbove, m
  <2> QED BY <2>4 DEF m
<1> QED BY <1>12, <1>13

\* Each quantity plotted takes one value of one kind of line.
LEMMA TakesOne ==
  ASSUME NEW c, NEW q, NEW j, NEW p, NEW i, Takes(c, q, j), Takes(c, p, i)
  PROVE  p = q /\ i = j
BY DataFacts DEF Takes

\* The window that a sample enters ends in it.
LEMMA SlideEnds ==
  ASSUME NEW s \in Seq(Byte), Len(s) <= Size, NEW d \in Byte
  PROVE  W!Slide(s, d)[Len(W!Slide(s, d))] = d
<1>1. Len(s) \in Nat
  OBVIOUS
<1>2. ASSUME NEW u \in Seq(Byte)
      PROVE  Append(u, d)[Len(Append(u, d))] = d
  <2>1. Len(Append(u, d)) = Len(u) + 1 /\ Append(u, d)[Len(u) + 1] = d
    OBVIOUS
  <2> QED BY <2>1
<1>3. CASE Len(s) < Size
  BY <1>2, <1>3 DEF W!Slide
<1>4. CASE ~(Len(s) < Size)
  <2>1. s # << >>
    BY <1>1, <1>4, DataFacts
  <2>2. Tail(s) \in Seq(Byte)
    BY <2>1
  <2> QED BY <1>2, <1>4, <2>2 DEF W!Slide
<1> QED BY <1>3, <1>4

LEMMA PlotEnds ==
  ASSUME Windows, Columns, Planned, Plot
  PROVE  LET b == plots[1][1]
         IN  /\ win'[b] # << >> /\ columns'[b][Size - 1] = win'[b][Len(win'[b])]
             /\ plots[1][2] \in Byte => win'[b][Len(win'[b])] = plots[1][2]
             /\ \A c \in Cbs : c # b => win'[c] = win[c] /\ columns'[c] = columns[c]
<1> DEFINE c == Head(plots)[1]
           v == Head(plots)[2]
<1>1. Head(plots) = plots[1] /\ c \in Cbs
  BY SampleTaken
<1>2. PICK d \in Byte :
         /\ v \in Byte => d = v
         /\ win' = [win EXCEPT ![c] = W!Slide(win[c], d)]
         /\ \/ columns' = [columns EXCEPT ![c] = W!Padded(W!Slide(win[c], d))]
            \/ CutSample
  BY SampleTaken
<1>3. columns' = [columns EXCEPT ![c] = W!Padded(win'[c])]
  <2>1. PICK e \in Converted(v) : W!Sample(c, e)
    BY DEF Plot
  <2>2. win \in [Cbs -> Seq(Byte)] /\ c \in Cbs
    BY <1>1 DEF Windows
  <2> HIDE DEF c, v
  <2>3. /\ win' = [win EXCEPT ![c] = W!Slide(win[c], e)]
        /\ columns' = [columns EXCEPT ![c] = W!Padded(W!Slide(win[c], e))]
    BY <2>1 DEF W!Sample
  <2>4. win'[c] = W!Slide(win[c], e)
    BY <2>2, <2>3
  <2> QED BY <2>3, <2>4
<1> HIDE DEF c, v
<1>4. win \in [Cbs -> Seq(Byte)] /\ win[c] \in Seq(Byte) /\ Len(win[c]) <= Size
  BY <1>1 DEF Windows
<1> DEFINE s == W!Slide(win[c], d)
<1>5. s \in Seq(Byte) /\ Len(s) \in 1 .. Size /\ s[Len(s)] = d
  BY <1>4, SlideFacts, SlideEnds
<1>6. win' = [win EXCEPT ![c] = s]
  BY <1>2
<1> HIDE DEF s
<1>7. win'[c] = s /\ \A b \in Cbs : b # c => win'[b] = win[b]
  BY <1>1, <1>4, <1>6
<1>8. columns \in [Cbs -> [0 .. Size - 1 -> Byte]]
  BY DEF Columns, Heights
<1>9. /\ columns'[c] = W!Padded(s)
      /\ \A b \in Cbs : b # c => columns'[b] = columns[b]
  BY <1>1, <1>3, <1>7, <1>8
<1>10. s # << >> /\ W!Padded(s)[Size - 1] = s[Len(s)]
  <2>1. s # << >> /\ Size - 1 \in 0 .. Size - 1 /\ Len(s) \in Nat
    BY <1>5, DataFacts
  <2>2. CASE Size - 1 < Len(s)
    <3>1. Len(s) = Size /\ Size - 1 + 1 = Len(s)
      BY <1>5, <2>1, <2>2, DataFacts
    <3> QED BY <2>1, <2>2, <3>1 DEF W!Padded
  <2>3. CASE ~(Size - 1 < Len(s))
    BY <2>1, <2>3 DEF W!Padded
  <2> QED BY <2>1, <2>2, <2>3
<1> QED BY <1>1, <1>2, <1>5, <1>7, <1>9, <1>10 DEF c, v

\* A line more, of another quantity; or it is the last of its quantity.
LEMMA AnotherLine ==
  ASSUME NEW m, NEW w, NEW c, NEW q, NEW j, NEW t \in Nat,
         m.lines[t + 1].of # q, Newer(m, w, c, q, j, t)
  PROVE  Newer(m, w, c, q, j, t + 1)
<1>1. \A l \in 1 .. t + 1 : m.lines[l].of = q => l \in 1 .. t
  OBVIOUS
<1> SUFFICES ASSUME \E l \in 1 .. t + 1 : m.lines[l].of = q
             PROVE  \E l \in 1 .. t + 1 : /\ IsLast(m, q, t + 1, l)
                                          /\ LET v == Value(m.lines[l], j)
                                             IN  v \in Byte => w[c] # << >> /\ w[c][Len(w[c])] = v
  BY DEF Newer
<1>2. PICK l \in 1 .. t : /\ IsLast(m, q, t, l)
                          /\ LET v == Value(m.lines[l], j)
                             IN  v \in Byte => w[c] # << >> /\ w[c][Len(w[c])] = v
  BY <1>1 DEF Newer
<1>3. l \in 1 .. t + 1 /\ IsLast(m, q, t + 1, l)
  BY <1>1, <1>2 DEF IsLast
<1> QED BY <1>2, <1>3

LEMMA ItsLine ==
  ASSUME NEW m, NEW w, NEW c, NEW q, NEW j, NEW t \in Nat \ {0}, m.lines[t].of = q,
         LET v == Value(m.lines[t], j) IN v \in Byte => w[c] # << >> /\ w[c][Len(w[c])] = v
  PROVE  Newer(m, w, c, q, j, t)
<1>1. t \in 1 .. t /\ \A k \in 1 .. t : k <= t
  OBVIOUS
<1>2. IsLast(m, q, t, t)
  BY <1>1 DEF IsLast
<1> QED BY <1>1, <1>2 DEF Newer

LEMMA LineTaken ==
  ASSUME DataInv, SceneInv, Parsing, TakeLine, mqtt_callback_buffer' = mqtt_callback_buffer
  PROVE  Parsing'
<1> DEFINE m == mqtt_callback_buffer
           h == Head(lines)
           Q == Scalars \cup {"axes"}
<1>1. PICK t \in Nat :
        /\ t + Len(lines) = Len(m.lines)
        /\ \A i \in 1 .. Len(lines) : lines[i] = m.lines[t + i]
        /\ \A c \in Cbs, q \in Q, j \in Nat : Takes(c, q, j) =>
             \/ \E i \in 1 .. Len(plots) : plots[i][1] = c
             \/ Newer(m, win, c, q, j, t)
  BY DEF Parsing, Parsed
<1>2. /\ plots = << >> /\ lines # << >> /\ plots' = LineSamples(h) /\ lines' = Tail(lines)
      /\ win' = win /\ mqtt_callback_buffer' = m
  BY DEF TakeLine
<1>3. lines \in Seq(LineRecord)
  BY DEF DataInv, Planned
<1>4. /\ Len(lines) \in Nat /\ Len(lines) > 0 /\ h = lines[1]
      /\ Len(lines') = Len(lines) - 1 /\ \A i \in 1 .. Len(lines') : lines'[i] = lines[i + 1]
  <2> HIDE DEF LineRecord
  <2>1. Len(lines) \in Nat /\ Len(lines) > 0 /\ h = lines[1]
    BY <1>2, <1>3
  <2>2. Len(lines') = Len(lines) - 1 /\ \A i \in 1 .. Len(lines') : lines'[i] = lines[i + 1]
    BY <1>2, <1>3, HeadTailProperties
  <2> QED BY <2>1, <2>2
<1> HIDE DEF m, h, Q
<1> DEFINE a == Len(lines)
           b == Len(lines')
<1>5. /\ a \in Nat /\ a > 0 /\ b = a - 1 /\ t + a = Len(m.lines)
      /\ \A i \in 1 .. a : lines[i] = m.lines[t + i]
      /\ \A i \in 1 .. b : lines'[i] = lines[i + 1]
  BY <1>1, <1>4
<1> HIDE DEF a, b
<1>6. t + 1 + b = Len(m.lines) /\ \A i \in 1 .. b : lines'[i] = m.lines[t + 1 + i]
  <2>1. ASSUME NEW i \in 1 .. b PROVE lines'[i] = m.lines[t + 1 + i]
    <3>1. i + 1 \in 1 .. a /\ t + (i + 1) = t + 1 + i
      BY <1>5
    <3> QED BY <1>5, <3>1
  <2>2. t + 1 + b = t + a
    BY <1>5
  <2> QED BY <1>5, <2>1, <2>2
<1>7. h = m.lines[t + 1]
  BY <1>4, <1>5
<1>8. ASSUME NEW i \in 1 .. Len(plots')
      PROVE  \E q \in Q, j \in Nat : /\ t + 1 > 0 /\ m.lines[t + 1].of = q
                                     /\ Takes(plots'[i][1], q, j)
                                     /\ plots'[i][2] = Value(m.lines[t + 1], j)
  <2>1. CASE h.of = "axes"
    <3>1. plots' = [k \in 1 .. Len(Axes) |-> <<Axes[k], Value(h, k)>>]
      BY <1>2, <2>1 DEF LineSamples
    <3>2. i \in 1 .. Len(Axes) /\ plots'[i] = <<Axes[i], Value(h, i)>> /\ i \in Nat
      <4>1. Len(plots') = Len(Axes)
        BY <3>1, DataFacts
      <4> QED BY <1>8, <3>1, <4>1
    <3>3. Takes(plots'[i][1], "axes", i) /\ plots'[i][2] = Value(h, i)
      BY <3>2 DEF Takes
    <3> QED BY <1>7, <2>1, <3>2, <3>3 DEF Q
  <2>2. CASE h.of # "axes" /\ h.of \in Scalars
    <3>1. plots' = << <<h.of, Value(h, 1)>> >>
      BY <1>2, <2>2 DEF LineSamples
    <3>2. i = 1 /\ plots'[i] = <<h.of, Value(h, 1)>>
      <4> HIDE DEF Value
      <4>1. Len(plots') = 1 /\ plots'[1] = <<h.of, Value(h, 1)>>
        BY <3>1
      <4> QED BY <1>8, <4>1
    <3>3. Takes(plots'[i][1], h.of, 1) /\ plots'[i][2] = Value(h, 1)
      BY <2>2, <3>2 DEF Takes
    <3> QED BY <1>7, <2>2, <3>3 DEF Q
  <2>3. CASE h.of # "axes" /\ h.of \notin Scalars
    <3>1. plots' = << >>
      BY <1>2, <2>3 DEF LineSamples
    <3>2. Len(plots') = 0
      BY <3>1
    <3> QED BY <1>8, <3>2
  <2> QED BY <2>1, <2>2, <2>3
<1>9. ASSUME NEW c \in Cbs, NEW q \in Q, NEW j \in Nat, Takes(c, q, j)
      PROVE  \/ \E i \in 1 .. Len(plots') : plots'[i][1] = c
             \/ Newer(m, win', c, q, j, t + 1)
  <2>1. Newer(m, win, c, q, j, t)
    <3>1. Len(plots) = 0
      BY <1>2
    <3> QED BY <1>1, <1>9, <3>1
  <2>2. CASE h.of # q
    BY <1>2, <1>7, <2>1, <2>2, AnotherLine
  <2>3. CASE h.of = q /\ q = "axes"
    <3>1. plots' = [k \in 1 .. Len(Axes) |-> <<Axes[k], Value(h, k)>>]
      BY <1>2, <2>3 DEF LineSamples
    <3>2. j \in 1 .. Len(Axes) /\ c = Axes[j]
      BY <1>9, <2>3, DataFacts DEF Takes
    <3>3. Len(plots') = Len(Axes) /\ plots'[j] = <<Axes[j], Value(h, j)>>
      BY <3>1, <3>2, DataFacts
    <3> QED BY <3>2, <3>3
  <2>4. CASE h.of = q /\ q # "axes"
    <3>1. c = q /\ q \in Scalars
      BY <1>9, <2>4 DEF Takes
    <3>2. plots' = << <<h.of, Value(h, 1)>> >>
      BY <1>2, <2>4, <3>1 DEF LineSamples
    <3>3. Len(plots') = 1 /\ plots'[1] = <<h.of, Value(h, 1)>>
      <4> HIDE DEF Value
      <4> QED BY <3>2
    <3>4. 1 \in 1 .. Len(plots') /\ plots'[1][1] = c
      BY <2>4, <3>1, <3>3
    <3> QED BY <3>4
  <2> QED BY <2>2, <2>3, <2>4
<1>10. /\ t + 1 + Len(lines') = Len(m.lines)
       /\ \A i \in 1 .. Len(lines') : lines'[i] = m.lines[t + 1 + i]
       /\ \A i \in 1 .. Len(plots') : \E q \in Q, j \in Nat :
            /\ t + 1 > 0 /\ m.lines[t + 1].of = q
            /\ Takes(plots'[i][1], q, j) /\ plots'[i][2] = Value(m.lines[t + 1], j)
       /\ \A c \in Cbs, q \in Q, j \in Nat : Takes(c, q, j) =>
            \/ \E i \in 1 .. Len(plots') : plots'[i][1] = c
            \/ Newer(m, win', c, q, j, t + 1)
  BY <1>6, <1>8, <1>9 DEF b
<1>11. Parsed(m, lines', plots', win', t + 1) /\ t + 1 \in Nat
  BY <1>10 DEF Parsed, Q
<1> QED BY <1>2, <1>11 DEF Parsing, m

LEMMA SamplePlotted ==
  ASSUME DataInv, SceneInv, Parsing, Plot, mqtt_callback_buffer' = mqtt_callback_buffer
  PROVE  Parsing'
<1> DEFINE m == mqtt_callback_buffer
           Q == Scalars \cup {"axes"}
           p == Len(plots)
           r == Len(plots')
<1>1. PICK t \in Nat :
        /\ t + Len(lines) = Len(m.lines)
        /\ \A i \in 1 .. Len(lines) : lines[i] = m.lines[t + i]
        /\ \A i \in 1 .. p : \E q \in Q, j \in Nat :
             /\ t > 0 /\ m.lines[t].of = q
             /\ Takes(plots[i][1], q, j) /\ plots[i][2] = Value(m.lines[t], j)
        /\ \A c \in Cbs, q \in Q, j \in Nat : Takes(c, q, j) =>
             \/ \E i \in 1 .. p : plots[i][1] = c
             \/ Newer(m, win, c, q, j, t)
  BY DEF Parsing, Parsed
<1>2. plots # << >> /\ plots' = Tail(plots) /\ lines' = lines /\ mqtt_callback_buffer' = m
  BY DEF Plot
<1>3. plots \in Seq(Cbs \X (Byte \cup {Wild}))
  BY DEF DataInv, Planned
<1>4. p \in Nat /\ p > 0 /\ r = p - 1 /\ \A i \in 1 .. r : plots'[i] = plots[i + 1]
  <2> DEFINE T == Cbs \X (Byte \cup {Wild})
  <2>1. plots \in Seq(T)
    BY <1>3
  <2> HIDE DEF T
  <2> QED BY <1>2, <2>1, HeadTailProperties, EmptySeq
<1> HIDE DEF m, Q, p, r
<1>5. ASSUME NEW i \in 1 .. r
      PROVE  \E q \in Q, j \in Nat : /\ t > 0 /\ m.lines[t].of = q
                                     /\ Takes(plots'[i][1], q, j)
                                     /\ plots'[i][2] = Value(m.lines[t], j)
  <2>1. i + 1 \in 1 .. p /\ plots'[i] = plots[i + 1]
    BY <1>4
  <2> QED BY <1>1, <2>1
<1>6. /\ plots[1][2] \in Byte => win'[plots[1][1]][Len(win'[plots[1][1]])] = plots[1][2]
      /\ win'[plots[1][1]] # << >>
      /\ \A c \in Cbs : c # plots[1][1] => win'[c] = win[c]
  BY PlotEnds DEF DataInv
<1>7. ASSUME NEW c \in Cbs, NEW q \in Q, NEW j \in Nat, Takes(c, q, j)
      PROVE  \/ \E i \in 1 .. r : plots'[i][1] = c
             \/ Newer(m, win', c, q, j, t)
  <2>1. CASE plots[1][1] = c
    <3>1. 1 \in 1 .. p
      BY <1>4
    <3>2. PICK q1 \in Q, j1 \in Nat : /\ t > 0 /\ m.lines[t].of = q1
                                      /\ Takes(plots[1][1], q1, j1)
                                      /\ plots[1][2] = Value(m.lines[t], j1)
      BY <1>1, <3>1
    <3>3. q1 = q /\ j1 = j
      BY <1>7, <2>1, <3>2, TakesOne
    <3>4. Value(m.lines[t], j) \in Byte =>
             win'[c] # << >> /\ win'[c][Len(win'[c])] = Value(m.lines[t], j)
      BY <1>6, <2>1, <3>2, <3>3
    <3>5. t \in Nat \ {0} /\ m.lines[t].of = q
      BY <3>2, <3>3
    <3> DEFINE w == win'
    <3>6. Value(m.lines[t], j) \in Byte => w[c] # << >> /\ w[c][Len(w[c])] = Value(m.lines[t], j)
      BY <3>4
    <3> HIDE DEF w
    <3>7. Newer(m, w, c, q, j, t)
      BY <3>5, <3>6, ItsLine
    <3> QED BY <3>7 DEF w
  <2>2. CASE plots[1][1] # c
    <3>1. win'[c] = win[c]
      BY <1>6, <2>2
    <3>2. CASE Newer(m, win, c, q, j, t)
      BY <3>1, <3>2 DEF Newer
    <3>3. ASSUME NEW i \in 1 .. p, plots[i][1] = c
          PROVE  \E k \in 1 .. r : plots'[k][1] = c
      <4>1. i # 1
        BY <2>2, <3>3
      <4>2. i - 1 \in 1 .. r /\ (i - 1) + 1 = i
        BY <1>4, <4>1
      <4>3. plots'[i - 1][1] = c
        BY <1>4, <3>3, <4>2
      <4> QED BY <4>2, <4>3
    <3> QED BY <1>1, <1>7, <3>2, <3>3
  <2> QED BY <2>1, <2>2
<1>8. /\ t + Len(lines') = Len(m.lines)
      /\ \A i \in 1 .. Len(lines') : lines'[i] = m.lines[t + i]
      /\ \A i \in 1 .. Len(plots') : \E q \in Q, j \in Nat :
           /\ t > 0 /\ m.lines[t].of = q
           /\ Takes(plots'[i][1], q, j) /\ plots'[i][2] = Value(m.lines[t], j)
      /\ \A c \in Cbs, q \in Q, j \in Nat : Takes(c, q, j) =>
           \/ \E i \in 1 .. Len(plots') : plots'[i][1] = c
           \/ Newer(m, win', c, q, j, t)
  BY <1>1, <1>2, <1>5, <1>7 DEF r
<1>9. Parsed(m, lines', plots', win', t)
  BY <1>8 DEF Parsed, Q
<1> QED BY <1>2, <1>9 DEF Parsing, m

LEMMA NewerEnds ==
  ASSUME NEW m \in MessageRecord, NEW c, NEW q, NEW j, Newer(m, win, c, q, j, Len(m.lines)),
         win[c] # << >> => hs_buf[c][Size - 1] = win[c][Len(win[c])]
  PROVE  EndsIn(m, c, q, j)
<1> DEFINE n == Len(m.lines)
           L == LinesOf(m, q)
           last == CHOOSE i \in L : \A k \in L : k <= i
<1>1. n \in Nat /\ L \subseteq 1 .. n
  <2> HIDE DEF LineRecord
  <2> QED BY DEF MessageRecord, LinesOf
<1> SUFFICES ASSUME L # {}, Value(m.lines[last], j) \in Byte
             PROVE  hs_buf[c][Size - 1] = Value(m.lines[last], j)
  BY DEF EndsIn
<1>2. \E l \in 1 .. n : m.lines[l].of = q
  BY DEF LinesOf
<1>3. PICK l \in 1 .. n : /\ IsLast(m, q, n, l)
                          /\ LET v == Value(m.lines[l], j)
                             IN  v \in Byte => win[c] # << >> /\ win[c][Len(win[c])] = v
  BY <1>2 DEF Newer
<1>4. l \in L /\ \A k \in L : k <= l
  BY <1>1, <1>3 DEF IsLast, LinesOf
<1>5. last \in L /\ \A k \in L : k <= last
  BY <1>4
<1> HIDE DEF last, L, n
<1>6. last = l
  <2>1. last <= l /\ l <= last /\ last \in Nat /\ l \in Nat
    BY <1>1, <1>4, <1>5
  <2> QED BY <2>1
<1> QED BY <1>3, <1>6

LEMMA VisibleLast == VisInv /\ EndInv /\ CopyInv /\ SceneInv => LastIsVisible
<1> SUFFICES ASSUME VisInv, EndInv, CopyInv, SceneInv, pc = "loop" PROVE LastIsVisible
  BY DEF LastIsVisible
<1> DEFINE m == mqtt_callback_buffer
<1>1. Visible /\ m \in MessageRecord
  BY DEF VisInv, SceneInv, Busy
<1>2. (how = "none" => m = Empty) /\ (how = "printed" => RowsAbove(m))
  BY <1>1 DEF Visible
<1>3. ASSUME how = "plotted", m.head = "data", ~refr, ~garbled
      PROVE  /\ \A c \in Scalars : EndsIn(m, c, c, 1)
             /\ \A j \in 1 .. Len(Axes) : EndsIn(m, Axes[j], "axes", j)
  <2>1. \A c \in Cbs, q \in Scalars \cup {"axes"}, j \in Nat :
           Takes(c, q, j) => Newer(m, win, c, q, j, Len(m.lines))
    BY <1>1, <1>3 DEF Visible
  <2>0. \A c \in Cbs : win[c] # << >> => hs_buf[c][Size - 1] = win[c][Len(win[c])]
    BY <1>3 DEF CopyInv, EndInv, Busy
  <2> HIDE DEF m
  <2>2. ASSUME NEW c \in Scalars PROVE EndsIn(m, c, c, 1)
    <3>1. Takes(c, c, 1) /\ c \in Cbs
      BY DEF Takes, Cbs
    <3> QED BY <1>1, <2>0, <2>1, <3>1, NewerEnds
  <2>3. ASSUME NEW j \in 1 .. Len(Axes) PROVE EndsIn(m, Axes[j], "axes", j)
    <3>1. Takes(Axes[j], "axes", j) /\ Axes[j] \in Cbs /\ j \in Nat
      BY DataFacts DEF Takes
    <3> QED BY <1>1, <2>0, <2>1, <3>1, NewerEnds
  <2> QED BY <2>2, <2>3
<1> QED BY <1>2, <1>3 DEF LastIsVisible

LEMMA VisStart == PInit => VisInv
  BY DEF PInit, VisInv, Visible, Busy

\* Where a message is taken apart or printed from.
LEMMA ShownStarts ==
  ASSUME DataInv, SceneInv, VisInv, Show
  PROVE  VisInv'
<1> DEFINE m == mqtt_callback_buffer
<1>1. mqtt_callback_buffer' = m /\ m \in MessageRecord /\ plots = << >>
  BY DEF Show, SceneInv, DataInv, Idle, Busy
<1>2. CASE pc' = "print" /\ how' = "printed" /\ todo' = PrintedRows(m) /\ UNCHANGED text
  <2> DEFINE P == PrintedRows(m)
  <2>1. P \in Seq(Nat) /\ Len(P) \in Nat
    BY <1>1, RowsPrinted
  <2>2. /\ 0 + Len(P) = Len(P) /\ \A i \in 1 .. Len(P) : P[i] = P[0 + i]
        /\ \A i \in 1 .. 0 : recent'[i] = P[0 + 1 - i]
    <3> HIDE DEF P
    <3> QED BY <2>1
  <2>3. Printing'
    <3>1. /\ 0 + Len(todo') = Len(P)
          /\ \A i \in 1 .. Len(todo') : todo'[i] = P[0 + i]
          /\ (\A i \in 1 .. Len(P) : P[i] < H_CH) /\ Len(recent') >= 0
               => \A i \in 1 .. 0 : recent'[i] = P[0 + 1 - i]
      BY <1>2, <2>2
    <3>2. PrintedRows(mqtt_callback_buffer') = P
      BY <1>1
    <3> HIDE DEF P
    <3> QED BY <3>1, <3>2 DEF Printing
  <2> QED BY <1>2, <2>3 DEF VisInv
<1>3. CASE StartParse(m) /\ pc' = "parse" /\ how' = "plotted" /\ head' = "data"
  <2> SUFFICES ASSUME m.head = "data" PROVE Parsing'
    BY <1>1, <1>3 DEF VisInv, Busy
  <2>1. lines' = m.lines /\ plots' = << >> /\ win' = win
    BY <1>1, <1>3 DEF StartParse, Body
  <2>2. Len(m.lines) \in Nat /\ Len(plots') = 0
    <3> HIDE DEF LineRecord
    <3> QED BY <1>1, <2>1 DEF MessageRecord
  <2> DEFINE ls == m.lines
             ps == plots'
             w == win'
  <2>3. Parsed(m, ls, ps, w, 0)
    <3>1. 0 + Len(ls) = Len(m.lines) /\ \A i \in 1 .. Len(ls) : ls[i] = m.lines[0 + i]
      BY <2>2
    <3>2. Len(ps) = 0
      BY <2>2
    <3>3. \A c, q, j : Newer(m, w, c, q, j, 0)
      BY DEF Newer
    <3> HIDE DEF m, ls, ps, w
    <3> QED BY <3>1, <3>2, <3>3 DEF Parsed
  <2> QED BY <1>1, <2>1, <2>3 DEF Parsing
<1>4. CASE pc' \in {"dead", "loop"} /\ (pc' = "loop" => how' = "ignored")
  BY <1>4 DEF VisInv, Visible, Busy
<1>5. \/ pc' = "print" /\ how' = "printed" /\ todo' = PrintedRows(m) /\ UNCHANGED text
      \/ StartParse(m) /\ pc' = "parse" /\ how' = "plotted" /\ head' = "data"
      \/ pc' \in {"dead", "loop"} /\ (pc' = "loop" => how' = "ignored")
  BY DEF Show, HeadCopied
<1> QED BY <1>2, <1>3, <1>4, <1>5

LEMMA ParseShows ==
  ASSUME DataInv, SceneInv, VisInv, Parse
  PROVE  VisInv'
<1> DEFINE m == mqtt_callback_buffer
<1>1. pc = "parse" /\ how = "plotted" /\ how' = how /\ mqtt_callback_buffer' = m
  BY DEF Parse, VisInv
<1>2. m.head = "data" => Parsing
  BY <1>1 DEF VisInv
<1>3. CASE TakeLine /\ pc' \in {"parse", "dead"}
  <2>1. m.head = "data" => Parsing'
    BY <1>1, <1>2, <1>3, LineTaken
  <2> QED BY <1>1, <1>3, <2>1 DEF VisInv, Busy
<1>4. CASE Plot /\ pc' = pc
  <2>1. m.head = "data" => Parsing'
    BY <1>1, <1>2, <1>4, SamplePlotted
  <2> QED BY <1>1, <1>4, <2>1 DEF VisInv, Busy
<1>5. CASE lines = << >> /\ plots = << >> /\ win' = win /\ pc' = "loop"
  <2>1. ASSUME m.head = "data", NEW c \in Cbs, NEW q \in Scalars \cup {"axes"}, NEW j \in Nat,
               Takes(c, q, j)
        PROVE  Newer(m, win', c, q, j, Len(m.lines))
    <3>1. PICK t \in Nat : Parsed(m, lines, plots, win, t)
      BY <1>2, <2>1 DEF Parsing
    <3>2. Len(lines) = 0 /\ Len(plots) = 0
      BY <1>5
    <3>3. t = Len(m.lines) /\ Newer(m, win, c, q, j, t)
      BY <2>1, <3>1, <3>2 DEF Parsed
    <3> QED BY <1>5, <3>3
  <2>2. Visible'
    BY <1>1, <2>1 DEF Visible
  <2> QED BY <1>5, <2>2 DEF VisInv
<1>6. \/ TakeLine /\ pc' \in {"parse", "dead"}
      \/ Plot /\ pc' = pc
      \/ lines = << >> /\ plots = << >> /\ win' = win /\ pc' = "loop"
  BY DEF Parse, HeadCopied, Trigger, parsed
<1> QED BY <1>3, <1>4, <1>5, <1>6

LEMMA VisStep == VisInv /\ TextInv /\ DataInv /\ SceneInv /\ [PNext]_pvars => VisInv'
<1> SUFFICES ASSUME VisInv, TextInv, DataInv, SceneInv, [PNext]_pvars PROVE VisInv'
  OBVIOUS
<1> DEFINE Showing == {"message", "print"} \cup Busy
<1>1. CASE UNCHANGED <<mqtt_callback_buffer, how, recent, todo, parsed>>
           /\ (pc' = pc \/ {pc, pc'} \cap Showing = {})
  <2>1. UNCHANGED <<win, lines, plots>>
    BY <1>1 DEF parsed
  <2>2. Printing' = Printing /\ Parsing' = Parsing /\ Visible' = Visible
    BY <1>1, <2>1 DEF Printing, Parsing, Visible, RowsAbove
  <2> QED BY <1>1, <2>2 DEF VisInv, Busy
<1>2. CASE pc' \in {"hung", "dead"}
  BY <1>2 DEF VisInv, Busy
<1>3. CASE Key
  <2>1. CASE UNCHANGED <<text, parsed, pc>>
    <3>1. UNCHANGED <<mqtt_callback_buffer, how, recent, todo, parsed, pc>>
      BY <1>3, <2>1, KeyCases DEF text
    <3> QED BY <1>1, <3>1
  <2>2. CASE pc' = "hung"
    BY <1>2, <2>2
  <2> QED BY <1>3, <2>1, <2>2, KeyCases
<1>4. CASE Switch \/ Copy \/ Connect \/ ReadMode \/ Announce \/ ReadPeriod \/ UNCHANGED pvars
  <2>1. UNCHANGED <<mqtt_callback_buffer, how, recent, todo, parsed>>
    BY <1>4 DEF Switch, Copy, Copied, Connect, ReadMode, Announce, ReadPeriod, pvars, loop, text,
                data
  <2>2. pc' = pc \/ pc' = "dead" \/ {pc, pc'} \cap Showing = {}
    BY <1>4 DEF Switch, Copy, Connect, ReadMode, Announce, ReadPeriod, pvars, loop, Busy
  <2> QED BY <1>1, <1>2, <2>1, <2>2
<1>5. ASSUME NEW k \in 0 .. Len(queue), Poll(k)
      PROVE  VisInv'
  <2>1. pc = "poll" /\ UNCHANGED <<how, recent, todo, parsed>>
    BY <1>5 DEF Poll, text, data
  <2>2. PICK n \in Received : /\ mqtt_callback_buffer' = n
                              /\ pc' = IF Noticed(mqtt_callback_buffer, n) THEN "message" ELSE "loop"
    BY <1>5 DEF Poll
  <2>3. CASE pc' = "message"
    BY <2>3 DEF VisInv, Busy
  <2>4. CASE pc' = "loop" /\ n = mqtt_callback_buffer
    BY <1>1, <2>1, <2>2, <2>4 DEF Busy
  <2> QED BY <2>2, <2>3, <2>4 DEF Noticed
<1>6. CASE PutLine
  <2>1. pc = "print" /\ pc' \in {"print", "loop"} /\ how' = how
    BY <1>6 DEF PutLine
  <2>2. how = "printed" /\ Printing
    BY <2>1 DEF VisInv
  <2>3. /\ pc' = "print" => Printing'
        /\ pc' # "print" => RowsAbove(mqtt_callback_buffer)'
    BY <1>6, <2>2, PrintStep
  <2> QED BY <2>1, <2>2, <2>3 DEF VisInv, Visible
<1> QED BY <1>3, <1>4, <1>5, <1>6, ShownStarts, ParseShows DEF PNext

LEMMA EndStart == PInit => EndInv
BY DEF PInit, DataInit, W!WInit, EndInv

LEMMA EndStep == EndInv /\ DataInv /\ [PNext]_pvars => EndInv'
<1> SUFFICES ASSUME EndInv, DataInv, [PNext]_pvars PROVE EndInv'
  OBVIOUS
<1>1. CASE UNCHANGED <<win, columns>> /\ pc # "hung"
  BY <1>1 DEF EndInv
<1>2. CASE Parse /\ Plot
  <2> DEFINE b == plots[1][1]
  <2>1. pc # "hung"
    BY <1>2 DEF Parse
  <2>2. /\ columns'[b][Size - 1] = win'[b][Len(win'[b])]
        /\ \A c \in Cbs : c # b => win'[c] = win[c] /\ columns'[c] = columns[c]
    BY <1>2, PlotEnds DEF DataInv
  <2> HIDE DEF b
  <2>3. ASSUME NEW c \in Cbs, win'[c] # << >>
        PROVE  columns'[c][Size - 1] = win'[c][Len(win'[c])]
    <3>1. CASE c = b
      BY <2>2, <3>1
    <3>2. CASE c # b
      <4>1. win'[c] = win[c] /\ columns'[c] = columns[c]
        BY <2>2, <3>2
      <4> QED BY <2>1, <2>3, <4>1 DEF EndInv
    <3> QED BY <3>1, <3>2
  <2> QED BY <2>3 DEF EndInv
<1>3. CASE pc' = "hung"
  BY <1>3 DEF EndInv
<1>4. CASE ~(Parse /\ Plot) /\ pc' # "hung"
  <2>1. CASE ~Show /\ ~Parse /\ ~Key
    BY <1>1, <1>4, <2>1, OtherSteps DEF parsed, Busy
  <2>2. CASE Show
    <3>1. pc = "message" /\ UNCHANGED <<win, columns>>
      BY <2>2 DEF Show, StartParse, data, parsed
    <3> QED BY <1>1, <3>1
  <2>3. CASE Parse
    <3>1. pc = "parse" /\ UNCHANGED <<win, columns>>
      BY <1>4, <2>3 DEF Parse, TakeLine, Trigger, parsed
    <3> QED BY <1>1, <3>1
  <2>4. CASE Key
    <3>1. UNCHANGED parsed /\ pc' = pc
      BY <1>4, <2>4, KeyCases
    <3> QED BY <1>1, <1>4, <3>1 DEF parsed
  <2> QED BY <2>1, <2>2, <2>3, <2>4
<1> QED BY <1>2, <1>3, <1>4

\* When main() begins its loop again the last message received is on the
\* screen, although AMQTT_Poll only tells it of a message by comparing the
\* buffer with the copy it made before mqtt_sync: a message that goes
\* unnoticed is the one shown already (arm_mqtt.c:92-101).  A text is there as
\* the newest rows; of a data message the last value of each quantity is in
\* the last column of the registers the graphs are drawn from, once the copy is
\* over, in whatever order and however often the lines come, and unless a
\* switch or KEY[0] has spoilt the copy (main.c:134-199, Txt_Renderer.v:273-301).
THEOREM LastIsVisibleHolds == PSpec => []LastIsVisible
<1>1. PSpec => []VisInv
  BY VisStart, VisStep, TextHolds, DataHolds, SceneHolds, PTL DEF PSpec
<1>2. PSpec => []EndInv
  BY EndStart, EndStep, DataHolds, PTL DEF PSpec
<1> QED BY <1>1, <1>2, VisibleLast, CopyHolds, SceneHolds, PTL
=============================================================================
