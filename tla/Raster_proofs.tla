---------------------------- MODULE Raster_proofs ----------------------------
(***************************************************************************)
(* Proofs about Raster and LineInterpol, for any timing, any size of the   *)
(* screen, of its characters and of the graphs, and any font with margins. *)
(***************************************************************************)
EXTENDS Raster, LineInterpol, TLAPS

\* Division by a number that is not known.
LEMMA DivMod == \A b \in Nat \ {0} : \A a \in Nat :
                   a = b * (a \div b) + (a % b) /\ a % b \in 0 .. b - 1 /\ a \div b \in Nat
OBVIOUS

LEMMA DivIs ==
  ASSUME NEW b \in Nat \ {0}, NEW a \in Nat, NEW q \in Nat, NEW r \in 0 .. b - 1, a = b * q + r
  PROVE  a \div b = q /\ a % b = r
OBVIOUS

LEMMA TimesMonotone ==
  ASSUME NEW a \in Nat, NEW b \in Nat, NEW c \in Nat, a <= b
  PROVE  a * c <= b * c /\ a * c \in Nat /\ c * a <= c * b /\ c * a \in Nat
OBVIOUS

LEMMA FewTimes ==
  ASSUME NEW a \in Nat, NEW b \in Nat, NEW c \in Nat \ {0}, a * c <= b * c
  PROVE  a <= b
OBVIOUS
-----------------------------------------------------------------------------
\* The quotient that is added to a height, or taken from it.
LEMMA Share ==
  ASSUME NEW t \in 0 .. 255, NEW r \in 0 .. DW - 1
  PROVE  /\ Product(t, r) \div DW \in 0 .. t
         /\ (Product(t, r) \div DW) * DW <= t * r
         /\ t * r < (Product(t, r) \div DW) * DW + DW
         /\ t * r \in Nat
<1>1. DW \in Nat \ {0} /\ MulMod \in Nat /\ MulMod > 255 * (DW - 1) /\ r \in Nat /\ t \in Nat
      /\ DW - 1 \in Nat /\ r <= DW - 1 /\ r <= DW /\ t <= 255
  BY LineInterpolAssumption
<1> DEFINE p == t * r
<1>2. p \in Nat /\ p <= 255 * (DW - 1)
  <2>1. t * r <= 255 * r /\ t * r \in Nat
    BY <1>1, TimesMonotone
  <2>2. 255 * r <= 255 * (DW - 1)
    BY <1>1, TimesMonotone
  <2>3. 255 * r \in Nat /\ 255 * (DW - 1) \in Nat
    BY <1>1
  <2> QED BY <2>1, <2>2, <2>3
<1>3. p <= t * DW /\ t * DW \in Nat
  BY <1>1, TimesMonotone
<1> HIDE DEF p
<1>4. p % MulMod = p
  <2>1. p \in 0 .. MulMod - 1 /\ MulMod \in Nat \ {0} /\ p = MulMod * 0 + p
    BY <1>1, <1>2
  <2> QED BY <2>1, DivIs
<1> DEFINE q == p \div DW
<1>5. p = DW * q + (p % DW) /\ p % DW \in 0 .. DW - 1 /\ q \in Nat
  BY <1>1, <1>2, DivMod
<1>6. Product(t, r) \div DW = q
  BY <1>4 DEF Product, p
<1> HIDE DEF q
<1>7. q * DW <= p /\ p < q * DW + DW
  <2>1. DW * q = q * DW /\ q * DW \in Nat
    BY <1>1, <1>5
  <2> QED BY <1>1, <1>5, <2>1
<1>8. q <= t
  <2>1. q * DW <= t * DW
    <3>1. q * DW \in Nat
      BY <1>1, <1>5
    <3> QED BY <1>2, <1>3, <1>7, <3>1
  <2> QED BY <1>1, <1>5, <2>1, FewTimes
<1> QED BY <1>1, <1>2, <1>5, <1>6, <1>7, <1>8 DEF p

\* Between two samples.
LEMMA BetweenIs ==
  ASSUME NEW a \in Heights, NEW b \in Heights, NEW r \in 0 .. DW - 1
  PROVE  LET l     == Between(a, b, r)
             exact == a * (DW - r) + b * r
         IN  /\ (a <= l /\ l <= b) \/ (b <= l /\ l <= a)
             /\ l * DW - exact < DW /\ exact - l * DW < DW
<1>1. a \in 0 .. 255 /\ b \in 0 .. 255 /\ DW \in Nat /\ DW > 0 /\ r \in Nat /\ r < DW
  BY LineInterpolAssumption DEF Heights
<1> DEFINE l == Between(a, b, r)
           exact == a * (DW - r) + b * r
<1>2. CASE b >= a
  <2> DEFINE t == b - a
             q == Product(t, r) \div DW
  <2>1. t \in 0 .. 255 /\ b = a + t
    BY <1>1, <1>2
  <2>2. q \in 0 .. t /\ q * DW <= t * r /\ t * r < q * DW + DW /\ t * r \in Nat
    BY <2>1, Share
  <2>3. l = (q + a) % 256
    BY <1>2 DEF Between
  <2> HIDE DEF q, l, t
  <2>4. l = q + a /\ a <= l /\ l <= b
    <3>1. q + a \in 0 .. 255 /\ a <= q + a /\ q + a <= b
      BY <1>1, <2>1, <2>2
    <3> QED BY <2>3, <3>1
  <2>5. exact = a * DW + t * r /\ l * DW = q * DW + a * DW
    BY <1>1, <2>1, <2>2, <2>4
  <2>6. a * DW \in Nat /\ q * DW \in Nat
    BY <1>1, <2>1, <2>2
  <2> HIDE DEF exact
  <2>7. l * DW - exact < DW /\ exact - l * DW < DW
    <3> DEFINE u == a * DW
               w == q * DW
               z == t * r
               k == l * DW
    <3>1. u \in Nat /\ w \in Nat /\ z \in Nat /\ exact = u + z /\ k = w + u /\ w <= z /\ z < w + DW
      BY <2>2, <2>5, <2>6
    <3> HIDE DEF u, w, z, k
    <3>2. k - exact < DW /\ exact - k < DW
      BY <1>1, <3>1
    <3> QED BY <3>2 DEF k
  <2> QED BY <2>4, <2>7 DEF exact, l
<1>3. CASE ~(b >= a)
  <2> DEFINE t == a - b
             q == Product(t, r) \div DW
  <2>1. t \in 0 .. 255 /\ a = b + t
    BY <1>1, <1>3
  <2>2. q \in 0 .. t /\ q * DW <= t * r /\ t * r < q * DW + DW /\ t * r \in Nat
    BY <2>1, Share
  <2>3. l = a - q
    BY <1>3 DEF Between
  <2> HIDE DEF q, l, t
  <2>4. b <= l /\ l <= a /\ l \in Nat /\ a = l + q
    BY <1>1, <2>1, <2>2, <2>3
  <2>5. exact + t * r = a * DW /\ a * DW = l * DW + q * DW
    BY <1>1, <2>1, <2>2, <2>4
  <2>6. exact \in Nat /\ l * DW \in Nat /\ q * DW \in Nat
    <3>1. DW - r \in Nat /\ a \in Nat /\ b \in Nat /\ r \in Nat /\ l \in Nat /\ q \in Nat /\ DW \in Nat
      BY <1>1, <2>1, <2>2, <2>4
    <3>2. a * (DW - r) \in Nat /\ b * r \in Nat
      BY <3>1
    <3>3. l * DW \in Nat /\ q * DW \in Nat
      BY <3>1
    <3> QED BY <3>2, <3>3
  <2> HIDE DEF exact
  <2>7. l * DW - exact < DW /\ exact - l * DW < DW
    <3> DEFINE u == a * DW
               w == q * DW
               z == t * r
               k == l * DW
    <3>1. w \in Nat /\ z \in Nat /\ k \in Nat /\ exact + z = u /\ u = k + w /\ w <= z /\ z < w + DW
      BY <2>2, <2>5, <2>6
    <3> HIDE DEF u, w, z, k
    <3>2. k - exact < DW /\ exact - k < DW
      BY <1>1, <2>6, <3>1
    <3> QED BY <3>2 DEF k
  <2> QED BY <2>4, <2>7 DEF exact, l
<1> QED BY <1>2, <1>3

\* The line of a graph goes through its samples and between two of them stays
\* between their heights and less than one from the straight line, with
\* nothing lost in its 13 bits (PX_Lin_Interpol.v:45-63).
THEOREM LinesInterpolate ==
  \A col_hs \in [0 .. N_COLS - 1 -> Heights], px \in 0 .. X_MAX : OnLine(col_hs, px)
<1> SUFFICES ASSUME NEW col_hs \in [0 .. N_COLS - 1 -> Heights], NEW px \in 0 .. X_MAX
             PROVE  OnLine(col_hs, px)
  OBVIOUS
<1>1. DW \in Nat \ {0} /\ N_COLS \in Nat \ {0} /\ X_MAX = DW * (N_COLS - 1) /\ X_MAX \in Nat
      /\ px \in Nat /\ px <= X_MAX
  BY LineInterpolAssumption DEF X_MAX
<1> DEFINE i == px \div DW
           r == px % DW
<1>2. px = DW * i + r /\ r \in 0 .. DW - 1 /\ i \in Nat
  BY <1>1, DivMod
<1>3. CASE r = 0
  BY <1>3 DEF OnLine, px_liny
<1>4. CASE r # 0
  <2>1. i \in 0 .. N_COLS - 1 /\ i + 1 \in 0 .. N_COLS - 1
    <3> HIDE DEF i, r
    <3>1. i + 1 <= N_COLS - 1
      <4> SUFFICES ASSUME N_COLS - 1 <= i PROVE FALSE
        BY <1>1, <1>2
      <4>1. N_COLS - 1 \in Nat
        BY <1>1
      <4>2. DW * (N_COLS - 1) <= DW * i
        BY <1>1, <1>2, <4>1, TimesMonotone
      <4>3. DW * i \in Nat /\ r > 0
        BY <1>1, <1>2, <1>4
      <4> DEFINE z == DW * i
      <4>4. X_MAX <= z /\ px = z + r /\ z \in Nat
        BY <1>1, <1>2, <4>2, <4>3
      <4> HIDE DEF z
      <4> QED BY <1>1, <1>2, <4>3, <4>4
    <3> QED BY <1>1, <1>2, <3>1
  <2>2. col_hs[i] \in Heights /\ col_hs[i + 1] \in Heights
    BY <2>1
  <2>3. px_liny(col_hs, px) = Between(col_hs[i], col_hs[i + 1], r)
    BY <1>4 DEF px_liny
  <2> HIDE DEF Between
  <2> QED BY <1>2, <1>4, <2>2, <2>3, BetweenIs DEF OnLine
<1> QED BY <1>3, <1>4

\* To the left of the axis px is negative, which its 10 bits make larger than
\* any pixel of a graph: there is no line (Txt_Renderer.v:346, 356).
THEOREM LeftOfAxis ==
  ASSUME NEW r_shift \in 0 .. 7, NEW x \in Nat, x < r_shift + OFFSET
  PROVE  oob(graph_px(x, r_shift))
<1>1. OFFSET \in Nat /\ PxMod \in Nat /\ PxMod > X_MAX + OFFSET + 7 /\ X_MAX \in Nat
  <2>1. N_COLS - 1 \in Nat /\ DW \in Nat
    BY LineInterpolAssumption
  <2>2. DW * (N_COLS - 1) \in Nat
    BY <2>1
  <2> QED BY <2>2, LineInterpolAssumption DEF X_MAX
<1> DEFINE k == r_shift + OFFSET - x
<1>2. k \in 1 .. OFFSET + 7 /\ x - r_shift - OFFSET = - k
  BY <1>1
<1> HIDE DEF k
<1>3. (- k) % PxMod = PxMod - k
  BY <1>1, <1>2
<1>4. PxMod - k > X_MAX
  BY <1>1, <1>2
<1> QED BY <1>2, <1>3, <1>4 DEF oob, graph_px
-----------------------------------------------------------------------------
\* The scan.
LEMMA Sizes ==
  /\ SYNC_H \in Nat /\ SYNC_H > 0 /\ BP_H \in Nat /\ BP_H > 0 /\ FP_H \in Nat /\ FP_H > 0
  /\ SYNC_V \in Nat /\ SYNC_V > 0 /\ BP_V \in Nat /\ BP_V > 0 /\ FP_V \in Nat /\ FP_V > 0
  /\ DISP_V \in Nat /\ DISP_V > 0
  /\ SCREEN_W \in Nat /\ SCREEN_W > 0 /\ DISP_H = 2 * SCREEN_W
  /\ N_H \in Nat /\ N_H > 0 /\ N_V \in Nat /\ N_V > 0
<1>1. /\ SYNC_H \in Nat /\ SYNC_H > 0 /\ BP_H \in Nat /\ BP_H > 0 /\ FP_H \in Nat /\ FP_H > 0
      /\ SYNC_V \in Nat /\ SYNC_V > 0 /\ BP_V \in Nat /\ BP_V > 0 /\ FP_V \in Nat /\ FP_V > 0
      /\ DISP_V \in Nat /\ DISP_V > 0 /\ DISP_H \in Nat /\ DISP_H > 0 /\ DISP_H % 2 = 0
  BY RasterAssumption
<1>2. SCREEN_W \in Nat /\ SCREEN_W > 0 /\ DISP_H = 2 * SCREEN_W
  BY <1>1 DEF SCREEN_W
<1> QED BY <1>1, <1>2 DEF N_H, N_V

LEMMA StepRange ==
  ASSUME NEW n \in Nat, n > 0, NEW cnt \in 0 .. n - 1
  PROVE  /\ Step(cnt, n) \in 0 .. n - 1
         /\ Step(cnt, n) # 0 => Step(cnt, n) = cnt + 1
BY DEF Step

\* The column and the row of the picture at a count.
X(k) == coord(k, SYNC_H + BP_H, DISP_H) \div 2
Y(k) == coord(k, SYNC_V + BP_V, DISP_V)

LEMMA PixelRange ==
  ASSUME NEW k \in Nat, NEW m \in Nat
  PROVE  X(k) \in 0 .. SCREEN_W - 1 /\ Y(m) \in 0 .. DISP_V - 1
<1>1. coord(k, SYNC_H + BP_H, DISP_H) \in 0 .. 2 * SCREEN_W - 1
  BY Sizes DEF coord, d
<1>2. X(k) \in 0 .. SCREEN_W - 1
  BY <1>1, Sizes DEF X
<1>3. Y(m) \in 0 .. DISP_V - 1
  BY Sizes DEF Y, coord, d
<1> QED BY <1>2, <1>3

LEMMA PixelIs == px_x = X(h) /\ px_y = Y(v)
BY DEF px_x, px_y, X, Y

\* A character cell of the screen.
LEMMA CellRange ==
  ASSUME NEW x \in Nat, NEW y \in Nat
  PROVE  ci(x, y) \in Cells
<1>1. FONT_W \in Nat \ {0} /\ FONT_H \in Nat \ {0} /\ NCW \in Nat /\ NCH \in Nat
  <2>1. FONT_W \in Nat \ {0} /\ FONT_H \in Nat \ {0}
    BY RasterAssumption
  <2> QED BY <2>1, DivMod, Sizes DEF NCW, NCH
<1>2. CASE off_limits(x, y)
  <2>1. NCW > 0
    <3>1. SCREEN_W = FONT_W * NCW + (SCREEN_W % FONT_W) /\ SCREEN_W % FONT_W < FONT_W
      BY <1>1, DivMod, Sizes DEF NCW
    <3>2. SCREEN_W >= FONT_W
      BY RasterAssumption, Sizes
    <3> SUFFICES ASSUME NCW = 0 PROVE FALSE
      BY <1>1
    <3>3. FONT_W * NCW = 0 /\ SCREEN_W % FONT_W \in Nat
      BY <1>1, DivMod, Sizes
    <3> QED BY <1>1, <3>1, <3>2, <3>3, Sizes
  <2>2. NCH > 0
    <3>1. DISP_V = FONT_H * NCH + (DISP_V % FONT_H) /\ DISP_V % FONT_H < FONT_H
      BY <1>1, DivMod, Sizes DEF NCH
    <3>2. DISP_V >= FONT_H
      BY RasterAssumption
    <3> SUFFICES ASSUME NCH = 0 PROVE FALSE
      BY <1>1
    <3>3. FONT_H * NCH = 0 /\ DISP_V % FONT_H \in Nat
      BY <1>1, DivMod, Sizes
    <3> QED BY <1>1, <3>1, <3>2, <3>3, Sizes
  <2>3. NCW * NCH \in Nat /\ NCW * NCH > 0
    BY <1>1, <2>1, <2>2
  <2> QED BY <1>2, <2>3 DEF ci, Cells
<1>3. CASE ~off_limits(x, y)
  <2> DEFINE a == x \div FONT_W
             b == y \div FONT_H
  <2>1. /\ a \in Nat /\ x = FONT_W * a + (x % FONT_W) /\ x % FONT_W \in Nat
        /\ b \in Nat /\ y = FONT_H * b + (y % FONT_H) /\ y % FONT_H \in Nat
    BY <1>1, DivMod
  <2>2. x < NCW * FONT_W /\ y < NCH * FONT_H /\ ci(x, y) = NCW * b + a
    BY <1>1, <1>3, DivMod DEF off_limits, ci
  <2> HIDE DEF a, b
  <2>3. a < NCW
    <3> SUFFICES ASSUME NCW <= a PROVE FALSE
      BY <1>1, <2>1
    <3>1. NCW * FONT_W <= a * FONT_W /\ a * FONT_W = FONT_W * a /\ a * FONT_W \in Nat
      BY <1>1, <2>1, TimesMonotone
    <3>2. NCW * FONT_W \in Nat
      BY <1>1
    <3> QED BY <2>1, <2>2, <3>1, <3>2
  <2>4. b < NCH
    <3> SUFFICES ASSUME NCH <= b PROVE FALSE
      BY <1>1, <2>1
    <3>1. NCH * FONT_H <= b * FONT_H /\ b * FONT_H = FONT_H * b /\ b * FONT_H \in Nat
      BY <1>1, <2>1, TimesMonotone
    <3>2. NCH * FONT_H \in Nat
      BY <1>1
    <3> QED BY <2>1, <2>2, <3>1, <3>2
  <2>5. NCW * (b + 1) <= NCW * NCH /\ NCW * (b + 1) = NCW * b + NCW /\ NCW * b \in Nat
    <3>1. b + 1 <= NCH /\ b + 1 \in Nat
      BY <1>1, <2>1, <2>4
    <3> QED BY <1>1, <2>1, <3>1, TimesMonotone
  <2>6. NCW * b + a \in 0 .. NCW * NCH - 1
    <3> DEFINE u == NCW * b
               w == NCW * NCH
    <3>1. u \in Nat /\ u + NCW <= w /\ w \in Nat
      BY <1>1, <2>5
    <3> HIDE DEF u, w
    <3>2. u + a \in 0 .. w - 1
      BY <1>1, <2>1, <2>3, <3>1
    <3> QED BY <3>2 DEF u, w
  <2> QED BY <2>2, <2>6 DEF Cells
<1> QED BY <1>2, <1>3
-----------------------------------------------------------------------------
\* What the memories give: the character asked for an edge ago, and the glyph
\* of the one before it; while nothing disturbs them.
Asked(k) == char_mem[ci(X(k) + 1, Y(v))]
Glyphed(k) == IF ~off_limits(X(k + 1) + 1, Y(v)) /\ Asked(k) \in DOMAIN Font
              THEN Asked(k) ELSE Space
Delayed == /\ steady >= 1 /\ ~sw0 /\ sw9 /\ h >= 1 => p2_r = Asked(h - 1)
           /\ steady = 2 /\ ~sw0 /\ sw9 /\ h >= 2 => glyph = Glyphed(h - 2)

LEMMA TypeStart == RasInit => RasTypeOK /\ Delayed
<1> SUFFICES ASSUME RasInit PROVE RasTypeOK /\ Delayed
  OBVIOUS
<1>1. h \in 0 .. N_H - 1 /\ v \in 0 .. N_V - 1 /\ steady \in 0 .. 2
  BY Sizes DEF RasInit
<1>2. last \in (0 .. SCREEN_W - 1) \X (0 .. DISP_V - 1)
  BY Sizes DEF RasInit, Home
<1> QED BY <1>1, <1>2 DEF RasInit, RasTypeOK, Delayed

LEMMA ReadTypes ==
  ASSUME RasTypeOK, Read
  PROVE  p2_r' \in Chars /\ font_mem_addr \in DOMAIN Font
<1>1. h \in Nat /\ v \in Nat
  BY DEF RasTypeOK
<1>2. px_x_p1 \in Nat /\ px_y \in Nat
  BY <1>1, PixelRange, PixelIs DEF px_x_p1
<1>3. ci(px_x_p1, px_y) \in Cells
  BY <1>2, CellRange
<1>4. char_mem[ci(px_x_p1, px_y)] \in Chars
  BY <1>3 DEF RasTypeOK
<1>5. font_mem_addr \in DOMAIN Font
  BY RasterAssumption DEF font_mem_addr, Lit
<1> QED BY <1>4, <1>5 DEF Read

LEMMA ScanTypes ==
  ASSUME RasTypeOK, Scan
  PROVE  /\ h' \in 0 .. N_H - 1 /\ v' \in 0 .. N_V - 1
         /\ sw9 /\ h' # 0 => h' = h + 1 /\ v' = v
<1>1. h \in 0 .. N_H - 1 /\ v \in 0 .. N_V - 1
  BY DEF RasTypeOK
<1>2. /\ Step(h, N_H) \in 0 .. N_H - 1 /\ Step(v, N_V) \in 0 .. N_V - 1
      /\ Step(h, N_H) # 0 => Step(h, N_H) = h + 1
      /\ h = N_H - 1 => Step(h, N_H) = 0
  BY <1>1, StepRange, Sizes DEF Step
<1> QED BY <1>1, <1>2 DEF Scan

LEMMA ShownTypes ==
  ASSUME RasTypeOK, Shown, h' \in Nat, v' \in Nat
  PROVE  last' \in (0 .. SCREEN_W - 1) \X (0 .. DISP_V - 1)
<1>1. px_x' \in 0 .. SCREEN_W - 1 /\ px_y' \in 0 .. DISP_V - 1
  <2>1. px_x' = X(h') /\ px_y' = Y(v')
    BY DEF px_x, px_y, X, Y, coord, d
  <2> QED BY <2>1, PixelRange
<1>2. <<px_x, px_y>>' \in (0 .. SCREEN_W - 1) \X (0 .. DISP_V - 1)
  BY <1>1
<1> QED BY <1>2 DEF Shown, RasTypeOK

LEMMA EdgeTypes ==
  ASSUME RasTypeOK, NEW m \in [Cells -> Chars], NEW g \in BOOLEAN, NEW o \in BOOLEAN, Edge(m, g, o)
  PROVE  RasTypeOK'
<1>1. h' \in 0 .. N_H - 1 /\ v' \in 0 .. N_V - 1
  BY ScanTypes DEF Edge
<1>2. p2_r' \in Chars /\ glyph' \in DOMAIN Font
  BY ReadTypes DEF Edge
<1>3. last' \in (0 .. SCREEN_W - 1) \X (0 .. DISP_V - 1)
  <2>1. h' \in Nat /\ v' \in Nat
    BY <1>1
  <2> QED BY <2>1, ShownTypes DEF Edge
<1>4. steady' \in 0 .. 2
  BY DEF Edge, RasTypeOK
<1> QED BY <1>1, <1>2, <1>3, <1>4 DEF Edge, RasTypeOK

LEMMA TypeStep == RasTypeOK /\ [RasNext]_rasvars => RasTypeOK'
<1> SUFFICES ASSUME RasTypeOK, [RasNext]_rasvars PROVE RasTypeOK'
  OBVIOUS
<1>1. ASSUME NEW graph \in BOOLEAN, NEW on \in BOOLEAN, Edge(char_mem, graph, on)
      PROVE  RasTypeOK'
  BY <1>1, EdgeTypes DEF RasTypeOK
<1>2. ASSUME NEW i \in Cells, NEW c \in Chars, Edge([char_mem EXCEPT ![i] = c], sw0, sw9)
      PROVE  RasTypeOK'
  <2>1. [char_mem EXCEPT ![i] = c] \in [Cells -> Chars] /\ sw0 \in BOOLEAN /\ sw9 \in BOOLEAN
    BY DEF RasTypeOK
  <2> QED BY <1>2, <2>1, EdgeTypes
<1>3. CASE Reset
  <2>1. p2_r' \in Chars /\ glyph' \in DOMAIN Font
    BY <1>3, ReadTypes DEF Reset
  <2>2. last' \in (0 .. SCREEN_W - 1) \X (0 .. DISP_V - 1)
    BY <1>3, Sizes DEF Reset, Home
  <2>3. h' \in 0 .. N_H - 1 /\ v' \in 0 .. N_V - 1 /\ steady' \in 0 .. 2
    BY <1>3, Sizes DEF Reset
  <2> QED BY <1>3, <2>1, <2>2, <2>3 DEF Reset, RasTypeOK
<1>4. CASE UNCHANGED rasvars
  BY <1>4 DEF rasvars, RasTypeOK
<1> QED BY <1>1, <1>2, <1>3, <1>4 DEF RasNext

\* In any timing, with any font, the counters of the scan and what the
\* memories are asked for stay within their ranges (VGA_Sync.v:24-52, CI_Gen.v:23-43).
THEOREM RasTypeCorrect == RasSpec => []RasTypeOK
BY TypeStart, TypeStep, PTL DEF RasSpec

\* An edge makes the first delay from nothing, and the second from the first.
LEMMA DelayedEdge ==
  ASSUME RasTypeOK, Delayed, NEW m, NEW g, NEW o, Edge(m, g, o)
  PROVE  Delayed'
<1>1. h \in Nat /\ v \in Nat /\ h' \in Nat /\ steady \in 0 .. 2
  BY ScanTypes DEF RasTypeOK, Edge
<1>2. steady' >= 1 => char_mem' = char_mem /\ (~sw0' => ~sw0) /\ (sw9' => sw9)
  <2>1. CASE steady' >= 1
    <3>1. steady' # 0
      BY <2>1
    <3>2. m = char_mem /\ g = sw0 /\ o = sw9
      BY <3>1 DEF Edge
    <3>3. char_mem' = m /\ sw0' = g /\ sw9' = o
      BY DEF Edge
    <3> QED BY <3>2, <3>3, Zenon
  <2> QED BY <2>1
<1>3. steady' = 2 => steady >= 1
  BY <1>1 DEF Edge
<1>4. sw9 /\ h' >= 1 => h' = h + 1 /\ v' = v
  BY <1>1, ScanTypes DEF Edge
<1>5. ASSUME steady' >= 1, ~sw0', sw9', h' >= 1
      PROVE  p2_r' = Asked(h - 1)'
  <2>0. ~sw0 /\ sw9 /\ char_mem' = char_mem
    BY <1>2, <1>5
  <2>1. h' - 1 = h /\ v' = v
    BY <1>1, <1>4, <1>5, <2>0
  <2>2. p2_r' = char_mem[ci(px_x_p1, px_y)]
    BY <2>0 DEF Edge, Read
  <2>3. px_x_p1 = X(h) + 1 /\ px_y = Y(v)
    BY PixelIs DEF px_x_p1
  <2>4. p2_r' = char_mem'[ci(X(h' - 1) + 1, Y(v'))]
    BY <2>0, <2>1, <2>2, <2>3
  <2> QED BY <2>4 DEF Asked
<1>6. ASSUME steady' = 2, ~sw0', sw9', h' >= 2
      PROVE  glyph' = Glyphed(h - 2)'
  <2>0. steady' >= 1 /\ h' >= 1
    BY <1>1, <1>6
  <2>1. ~sw0 /\ sw9 /\ char_mem' = char_mem
    BY <1>2, <1>6, <2>0
  <2>7. h' = h + 1 /\ v' = v /\ steady >= 1
    BY <1>3, <1>4, <1>6, <2>0, <2>1
  <2>2. h' - 2 = h - 1 /\ (h - 1) + 1 = h /\ h >= 1
    BY <1>1, <1>6, <2>7
  <2>3. p2_r = Asked(h - 1)
    BY <2>1, <2>2, <2>7 DEF Delayed
  <2>4. px_x_p1 = X(h) + 1 /\ px_y = Y(v)
    BY PixelIs DEF px_x_p1
  <2>5. glyph' = Glyphed(h - 1)
    BY <2>1, <2>2, <2>3, <2>4 DEF Edge, font_mem_addr, Lit, Glyphed
  <2>6. Glyphed(h - 2)' = Glyphed(h - 1)
    BY <2>1, <2>2, <2>7 DEF Glyphed, Asked
  <2> QED BY <2>5, <2>6
<1> QED BY <1>5, <1>6 DEF Delayed

LEMMA DelayedStep == RasTypeOK /\ Delayed /\ [RasNext]_rasvars => Delayed'
<1> SUFFICES ASSUME RasTypeOK, Delayed, [RasNext]_rasvars PROVE Delayed'
  OBVIOUS
<1>1. ASSUME NEW m, NEW graph, NEW on, Edge(m, graph, on)
      PROVE  Delayed'
  BY <1>1, DelayedEdge
<1>2. CASE Reset
  BY <1>2 DEF Reset, Delayed
<1>3. CASE UNCHANGED rasvars
  BY <1>3 DEF rasvars, Delayed, Asked, Glyphed
<1> QED BY <1>1, <1>2, <1>3 DEF RasNext

\* The pixels that matter: what the memories were asked for, one and two edges
\* ago, when a pixel is visible.
LEMMA LookAhead ==
  ASSUME RasTypeOK, vga_blank_n
  PROVE  /\ h >= 2 /\ (h - 2) + 1 = h - 1
         /\ X(h - 1) + 1 \in {px_x, px_x + 1}
         /\ X(h - 2) + 1 \in {px_x, px_x + 1}
<1>1. h \in Nat /\ h >= SYNC_H + BP_H /\ h < SYNC_H + BP_H + DISP_H
  BY DEF RasTypeOK, vga_blank_n, d
<1>2. h >= 2 /\ (h - 2) + 1 = h - 1
  BY <1>1, Sizes
<1> DEFINE e == SYNC_H + BP_H
<1>3. /\ X(h) = (h - e) \div 2
      /\ X(h - 1) = IF h > e THEN (h - 1 - e) \div 2 ELSE 0
      /\ X(h - 2) = IF h > e + 1 THEN (h - 2 - e) \div 2 ELSE 0
  BY <1>1, Sizes DEF X, coord, d
<1>4. e \in Nat
  BY Sizes
<1> HIDE DEF e
<1>5. h >= e
  BY <1>1 DEF e
<1> QED BY <1>1, <1>2, <1>3, <1>4, <1>5, PixelIs

\* Two neighbours that are not on two sides of the border of a character.
LEMMA SameCell ==
  ASSUME NEW x \in Nat, NEW y \in Nat, ~off_limits(x + 1, y), (x + 1) % FONT_W # 0
  PROVE  ~off_limits(x, y) /\ ci(x, y) = ci(x + 1, y)
<1>1. FONT_W \in Nat \ {0} /\ x + 1 \in Nat
  BY RasterAssumption
<1> DEFINE q == (x + 1) \div FONT_W
           r == (x + 1) % FONT_W
<1>2. x + 1 = FONT_W * q + r /\ r \in 0 .. FONT_W - 1 /\ q \in Nat
  BY <1>1, DivMod
<1>3. FONT_W * q \in Nat
  BY <1>1, <1>2
<1> HIDE DEF q, r
<1>4. r # 0
  BY DEF r
<1>5. r - 1 \in 0 .. FONT_W - 1 /\ x = FONT_W * q + (r - 1)
  BY <1>1, <1>2, <1>3, <1>4
<1>6. x \div FONT_W = q
  BY <1>1, <1>2, <1>5, DivIs
<1>7. x \div FONT_W = (x + 1) \div FONT_W
  BY <1>6 DEF q
<1>8. ~off_limits(x, y)
  <2>1. NCW * FONT_W \in Nat
    <3>1. NCW \in Nat
      BY <1>1, DivMod, Sizes DEF NCW
    <3> QED BY <1>1, <3>1
  <2> DEFINE z == NCW * FONT_W
  <2>2. z \in Nat /\ ~(x + 1 >= z) /\ ~(y >= NCH * FONT_H)
    BY <2>1 DEF off_limits
  <2> HIDE DEF z
  <2>3. ~(x >= z)
    BY <2>2
  <2> QED BY <2>2, <2>3 DEF off_limits, z
<1> QED BY <1>7, <1>8 DEF ci

\* The first column of pixels of a character.
LEMMA Margin ==
  ASSUME NEW x \in Nat, NEW y \in Nat, x % FONT_W = 0, NEW c \in DOMAIN Font
  PROVE  Font[c][fi(x, y)] = FALSE
<1>1. FONT_W \in Nat /\ FONT_H \in Nat \ {0}
  BY RasterAssumption
<1>2. y % FONT_H \in 0 .. FONT_H - 1
  BY <1>1, DivMod
<1>3. FONT_W * (y % FONT_H) \in Nat
  BY <1>1, <1>2
<1>4. fi(x, y) = FONT_W * (y % FONT_H)
  BY <1>3 DEF fi
<1> QED BY <1>2, <1>4, FontAssumption

LEMMA PictureOf == RasTypeOK /\ Delayed => TextShown
<1> SUFFICES ASSUME RasTypeOK, Delayed, steady = 2, vga_blank_n, sw9, ~sw0
             PROVE  pxi = Text(px_x + 1, px_y)
  BY DEF TextShown
<1> DEFINE x == px_x
           y == px_y
           c == char_mem[ci(x + 1, y)]
<1>1. x \in Nat /\ y \in Nat /\ x + 1 \in Nat /\ y = Y(v)
  BY PixelRange, PixelIs DEF RasTypeOK
<1>2. glyph \in DOMAIN Font
  BY DEF RasTypeOK
<1>3. CASE off_limits(x + 1, y)
  BY <1>3 DEF pxi, Lit, Text, px_x_p1
<1>4. CASE (x + 1) % FONT_W = 0
  <2>1. Font[glyph][fi(x + 1, y)] = FALSE
    BY <1>1, <1>2, <1>4, Margin
  <2>2. c \in DOMAIN Font => Font[c][fi(x + 1, y)] = FALSE
    BY <1>1, <1>4, Margin
  <2>3. ~pxi
    BY <2>1 DEF pxi, px_x_p1
  <2>4. ~Text(x + 1, y)
    BY <2>2 DEF Text
  <2>5. pxi \in BOOLEAN /\ Text(x + 1, y) \in BOOLEAN
    BY DEF pxi, Text
  <2> QED BY <2>3, <2>4, <2>5
<1>5. CASE ~off_limits(x + 1, y) /\ (x + 1) % FONT_W # 0
  <2>1. ~off_limits(x, y) /\ ci(x, y) = ci(x + 1, y)
    BY <1>1, <1>5, SameCell
  <2>2. /\ h >= 2 /\ (h - 2) + 1 = h - 1
        /\ X(h - 1) + 1 \in {x, x + 1} /\ X(h - 2) + 1 \in {x, x + 1}
    BY LookAhead
  <2>3. Asked(h - 1) = c /\ Asked(h - 2) = c
    BY <1>1, <2>1, <2>2 DEF Asked
  <2>4. ~off_limits(X(h - 1) + 1, Y(v))
    BY <1>1, <1>5, <2>1, <2>2
  <2>5. p2_r = c
    <3>1. steady >= 1 /\ h >= 1
      BY <2>2 DEF RasTypeOK
    <3> QED BY <2>3, <3>1 DEF Delayed
  <2>6. glyph = IF c \in DOMAIN Font THEN c ELSE Space
    <3>1. glyph = Glyphed(h - 2)
      BY <2>2 DEF Delayed
    <3> QED BY <2>2, <2>3, <2>4, <3>1 DEF Glyphed
  <2>7. CASE c \in DOMAIN Font
    <3>1. glyph = c
      BY <2>6, <2>7
    <3>2. pxi <=> Font[c][fi(x + 1, y)]
      BY <1>5, <2>5, <2>7, <3>1 DEF pxi, Lit, px_x_p1
    <3>3. Text(x + 1, y) <=> Font[c][fi(x + 1, y)]
      BY <1>5, <2>7 DEF Text
    <3>4. pxi \in BOOLEAN /\ Text(x + 1, y) \in BOOLEAN
      BY DEF pxi, Text
    <3> QED BY <3>2, <3>3, <3>4
  <2>8. CASE c \notin DOMAIN Font
    BY <2>5, <2>8 DEF pxi, Lit, Text
  <2> QED BY <2>7, <2>8
<1> QED BY <1>3, <1>4, <1>5

\* In any timing and with any font whose glyphs have a margin, the picture is
\* the text: the delay of the two memories is made up for (Txt_Renderer.v:203).
THEOREM TextShownHolds == RasSpec => []TextShown
<1>1. RasInit => RasTypeOK /\ Delayed
  BY TypeStart
<1>2. (RasTypeOK /\ Delayed) /\ [RasNext]_rasvars => (RasTypeOK /\ Delayed)'
  BY TypeStep, DelayedStep
<1>3. RasTypeOK /\ Delayed => TextShown
  BY PictureOf
<1> QED BY <1>1, <1>2, <1>3, PTL DEF RasSpec
-----------------------------------------------------------------------------
\* The pixel that was shown last, from the counters alone.
InRow(k) == d(k, SYNC_H + BP_H, DISP_H)
InPicture(k) == d(k, SYNC_V + BP_V, DISP_V)
LastOf(a, b) == IF ~InPicture(b) THEN Home
                ELSE IF InRow(a) THEN <<X(a), Y(b)>>
                ELSE IF a >= SYNC_H + BP_H THEN <<SCREEN_W - 1, Y(b)>>
                ELSE IF Y(b) = 0 THEN Home
                ELSE <<SCREEN_W - 1, Y(b) - 1>>

\* Within a line.
LEMMA AlongRow ==
  ASSUME NEW a \in Nat, NEW b \in Nat
  PROVE  /\ ~(InRow(a + 1) /\ InPicture(b)) => LastOf(a + 1, b) = LastOf(a, b)
         /\ InRow(a + 1) /\ InPicture(b) =>
              LastOf(a + 1, b) \in {LastOf(a, b), After(LastOf(a, b))}
<1> DEFINE e == SYNC_H + BP_H
<1>1. e \in Nat /\ e > 0 /\ SCREEN_W \in Nat /\ SCREEN_W > 0 /\ DISP_V \in Nat /\ DISP_V > 0
  BY Sizes
<1>2. /\ InRow(a) <=> a >= e /\ a < e + 2 * SCREEN_W
      /\ InRow(a + 1) <=> a + 1 >= e /\ a + 1 < e + 2 * SCREEN_W
      /\ InRow(a) => X(a) = (a - e) \div 2
      /\ InRow(a + 1) => X(a + 1) = (a + 1 - e) \div 2
  BY Sizes DEF InRow, X, coord, d
<1>3. Y(b) \in 0 .. DISP_V - 1
  BY PixelRange
<1>4. CASE ~InPicture(b)
  BY <1>4 DEF LastOf
<1>5. CASE InPicture(b)
  <2>1. /\ LastOf(a, b) = IF InRow(a) THEN <<X(a), Y(b)>>
                          ELSE IF a >= e THEN <<SCREEN_W - 1, Y(b)>>
                          ELSE IF Y(b) = 0 THEN Home ELSE <<SCREEN_W - 1, Y(b) - 1>>
        /\ LastOf(a + 1, b) = IF InRow(a + 1) THEN <<X(a + 1), Y(b)>>
                              ELSE IF a + 1 >= e THEN <<SCREEN_W - 1, Y(b)>>
                              ELSE IF Y(b) = 0 THEN Home ELSE <<SCREEN_W - 1, Y(b) - 1>>
    BY <1>5 DEF LastOf
  <2> HIDE DEF e
  <2>2. CASE ~InRow(a + 1) /\ ~InRow(a)
    BY <1>1, <1>2, <2>1, <2>2
  <2>3. CASE ~InRow(a + 1) /\ InRow(a)
    <3>1. X(a) = SCREEN_W - 1 /\ a + 1 >= e
      BY <1>1, <1>2, <2>3
    <3> QED BY <2>1, <2>3, <3>1
  <2>4. CASE InRow(a + 1) /\ ~InRow(a)
    <3>1. X(a + 1) = 0 /\ ~(a >= e)
      BY <1>1, <1>2, <2>4
    <3>2. LastOf(a + 1, b) = <<0, Y(b)>>
      BY <2>1, <2>4, <3>1
    <3>3. CASE Y(b) = 0
      <4>1. LastOf(a, b) = <<SCREEN_W - 1, DISP_V - 1>>
        BY <2>1, <2>4, <3>1, <3>3 DEF Home
      <4>2. After(LastOf(a, b)) = <<0, 0>>
        BY <1>1, <4>1 DEF After
      <4> QED BY <1>5, <2>4, <3>2, <3>3, <4>2
    <3>4. CASE Y(b) # 0
      <4>1. LastOf(a, b) = <<SCREEN_W - 1, Y(b) - 1>>
        BY <2>1, <2>4, <3>1, <3>4
      <4>2. After(LastOf(a, b)) = <<0, Y(b)>>
        BY <1>1, <1>3, <3>4, <4>1 DEF After
      <4> QED BY <1>5, <2>4, <3>2, <4>2
    <3> QED BY <3>3, <3>4
  <2>5. CASE InRow(a + 1) /\ InRow(a)
    <3>1. LastOf(a + 1, b) = <<X(a + 1), Y(b)>> /\ LastOf(a, b) = <<X(a), Y(b)>>
      BY <2>1, <2>5
    <3>2. X(a + 1) = X(a) \/ (X(a + 1) = X(a) + 1 /\ X(a) < SCREEN_W - 1)
      BY <1>1, <1>2, <2>5
    <3>3. X(a) < SCREEN_W - 1 => After(LastOf(a, b)) = <<X(a) + 1, Y(b)>>
      BY <3>1 DEF After
    <3> QED BY <1>5, <2>5, <3>1, <3>2, <3>3
  <2> QED BY <2>2, <2>3, <2>4, <2>5
<1> QED BY <1>4, <1>5

\* From the end of a line to the beginning of the next.
LEMMA NextRow ==
  ASSUME NEW b \in 0 .. N_V - 1
  PROVE  LastOf(0, Step(b, N_V)) = LastOf(N_H - 1, b) /\ ~InRow(0)
<1> DEFINE f == SYNC_V + BP_V
<1>1. ~InRow(0) /\ ~InRow(N_H - 1) /\ N_H - 1 >= SYNC_H + BP_H /\ ~(0 >= SYNC_H + BP_H)
  BY Sizes DEF InRow, d, N_H
<1>2. f \in Nat /\ f > 0 /\ DISP_V \in Nat /\ DISP_V > 0 /\ b \in Nat
  BY Sizes
<1>3. \A k \in Nat : /\ InPicture(k) <=> k >= f /\ k < f + DISP_V
                     /\ InPicture(k) => Y(k) = k - f
  BY DEF InPicture, Y, coord, d
<1>4. LastOf(N_H - 1, b) = IF InPicture(b) THEN <<SCREEN_W - 1, Y(b)>> ELSE Home
  BY <1>1 DEF LastOf
<1>5. \A k : LastOf(0, k) = IF ~InPicture(k) \/ Y(k) = 0 THEN Home ELSE <<SCREEN_W - 1, Y(k) - 1>>
  BY <1>1 DEF LastOf
<1>6. N_V - 1 >= f + DISP_V
  BY Sizes DEF N_V
<1> HIDE DEF f
<1>7. CASE b = N_V - 1
  <2>1. Step(b, N_V) = 0 /\ ~InPicture(b) /\ ~InPicture(0)
    BY <1>2, <1>3, <1>6, <1>7 DEF Step
  <2> QED BY <1>1, <1>4, <1>5, <2>1
<1>8. CASE b # N_V - 1
  <2>1. Step(b, N_V) = b + 1 /\ b + 1 \in Nat
    BY <1>2, <1>8 DEF Step
  <2>2. CASE InPicture(b) /\ InPicture(b + 1)
    <3>1. Y(b + 1) - 1 = Y(b) /\ Y(b + 1) # 0
      BY <1>2, <1>3, <2>1, <2>2
    <3> QED BY <1>1, <1>4, <1>5, <2>1, <2>2, <3>1
  <2>3. CASE InPicture(b) /\ ~InPicture(b + 1)
    <3>1. Y(b) = DISP_V - 1
      BY <1>2, <1>3, <2>1, <2>3
    <3> QED BY <1>1, <1>4, <1>5, <2>1, <2>3, <3>1 DEF Home
  <2>4. CASE ~InPicture(b) /\ InPicture(b + 1)
    <3>1. Y(b + 1) = 0
      BY <1>2, <1>3, <2>1, <2>4
    <3> QED BY <1>1, <1>4, <1>5, <2>1, <2>4, <3>1
  <2>5. CASE ~InPicture(b) /\ ~InPicture(b + 1)
    BY <1>1, <1>4, <1>5, <2>1, <2>5
  <2> QED BY <2>2, <2>3, <2>4, <2>5
<1> QED BY <1>7, <1>8

\* An edge shows the pixel that is shown already, the one after it, or none.
LEMMA EdgeShows ==
  ASSUME RasTypeOK, last = LastOf(h, v), Scan, Shown
  PROVE  last' = LastOf(h', v') /\ last' \in {last, After(last)}
<1>1. h \in Nat /\ v \in 0 .. N_V - 1 /\ v \in Nat
  BY DEF RasTypeOK
<1>2. last' = IF InRow(h') /\ InPicture(v') THEN <<X(h'), Y(v')>> ELSE last
  <2>1. vga_blank_n' <=> InRow(h') /\ InPicture(v')
    BY DEF vga_blank_n, InRow, InPicture, d
  <2>2. px_x' = X(h') /\ px_y' = Y(v')
    BY DEF px_x, px_y, X, Y, coord, d
  <2>3. <<px_x, px_y>>' = <<X(h'), Y(v')>>
    BY <2>2
  <2> QED BY <2>1, <2>3 DEF Shown
<1>3. InRow(h') /\ InPicture(v') => LastOf(h', v') = <<X(h'), Y(v')>>
  BY DEF LastOf
<1>4. CASE h' = h /\ v' = v
  BY <1>2, <1>3, <1>4
<1>5. CASE h' = h + 1 /\ v' = v
  BY <1>1, <1>2, <1>3, <1>5, AlongRow
<1>6. CASE h = N_H - 1 /\ h' = 0 /\ v' = Step(v, N_V)
  BY <1>1, <1>2, <1>6, NextRow
<1>7. (h' = h /\ v' = v) \/ (h' = h + 1 /\ v' = v) \/ (h = N_H - 1 /\ h' = 0 /\ v' = Step(v, N_V))
  BY DEF Scan, Step
<1> QED BY <1>4, <1>5, <1>6, <1>7

LEMMA HomeFirst == LastOf(0, 0) = Home
<1>1. ~InPicture(0)
  BY Sizes DEF InPicture, d
<1> QED BY <1>1 DEF LastOf

LEMMA StepShows ==
  ASSUME RasTypeOK, last = LastOf(h, v), [RasNext]_rasvars
  PROVE  /\ last' = LastOf(h', v')
         /\ [last' \in {last, After(last)} \/ (h' = 0 /\ v' = 0)]_rasvars
<1>1. ASSUME NEW m, NEW graph, NEW on, Edge(m, graph, on)
      PROVE  last' = LastOf(h', v') /\ last' \in {last, After(last)}
  BY <1>1, EdgeShows DEF Edge
<1>2. CASE Reset
  BY <1>2, HomeFirst DEF Reset
<1>3. CASE UNCHANGED rasvars
  BY <1>3 DEF rasvars
<1> QED BY <1>1, <1>2, <1>3 DEF RasNext

\* In any timing the pixels of a frame are shown row by row, none left out and
\* none twice, however SW[9] stops and starts the scan (VGA_Sync.v:38-53).
THEOREM RowByRowHolds == RasSpec => RowByRow
<1>1. RasInit => last = LastOf(h, v)
  BY HomeFirst DEF RasInit
<1>2. RasTypeOK /\ last = LastOf(h, v) /\ [RasNext]_rasvars => (last = LastOf(h, v))'
  BY StepShows
<1>3. RasTypeOK /\ last = LastOf(h, v) /\ [RasNext]_rasvars
        => [last' \in {last, After(last)} \/ (h' = 0 /\ v' = 0)]_rasvars
  BY StepShows
<1> QED BY <1>1, <1>2, <1>3, RasTypeCorrect, PTL DEF RasSpec, RowByRow
=============================================================================
