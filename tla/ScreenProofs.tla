---------------------------- MODULE ScreenProofs -----------------------------
(***************************************************************************)
(* The picture and the window around it. First where the scroll registers  *)
(* point, proved for every geometry. Then a session, for any number of     *)
(* games and handlers and any capacity of the channel: the types, and that *)
(* the state is dumped of a paused emulator only.                          *)
(***************************************************************************)
EXTENDS MCScroll, Session, FiniteSetTheorems, SequenceTheorems, TLAPS

-----------------------------------------------------------------------------
(* Division.                                                               *)

LEMMA Split ==
  ASSUME NEW a \in Nat, NEW m \in Nat \ {0}
  PROVE  /\ a % m \in 0 .. m - 1 /\ a \div m \in Nat
         /\ a = m * (a \div m) + (a % m)
  OBVIOUS

LEMMA Unsplit ==
  ASSUME NEW m \in Nat \ {0}, NEW q \in Nat, NEW r \in 0 .. m - 1
  PROVE  (m * q + r) % m = r /\ (m * q + r) \div m = q
  OBVIOUS

LEMMA Successor ==
  ASSUME NEW a \in Nat, NEW m \in Nat \ {0}
  PROVE  /\ a % m = m - 1 => (a + 1) % m = 0 /\ (a + 1) \div m = (a \div m) + 1
         /\ a % m # m - 1 => (a + 1) % m = (a % m) + 1 /\ (a + 1) \div m = a \div m
<1> DEFINE q == a \div m
           r == a % m
<1>1. r \in 0 .. m - 1 /\ q \in Nat /\ a = m * q + r
  BY Split
<1> HIDE DEF q, r
<1>2. CASE r = m - 1
  <2>1. m * (q + 1) = m * q + m /\ q + 1 \in Nat /\ 0 \in 0 .. m - 1
    BY <1>1
  <2>2. a + 1 = m * (q + 1) + 0
    BY <1>1, <1>2, <2>1
  <2>3. (a + 1) % m = 0 /\ (a + 1) \div m = q + 1
    BY <2>1, <2>2, Unsplit
  <2> QED
    BY <1>2, <2>3 DEF q, r
<1>3. CASE r # m - 1
  <2>1. r + 1 \in 0 .. m - 1 /\ a + 1 = m * q + (r + 1)
    BY <1>1, <1>3
  <2>2. (a + 1) % m = r + 1 /\ (a + 1) \div m = q
    BY <1>1, <2>1, Unsplit
  <2> QED
    BY <1>3, <2>2 DEF q, r
<1> QED
  BY <1>2, <1>3

LEMMA Product ==
  ASSUME NEW a \in Nat, NEW b \in Nat, NEW c \in Nat, a <= b
  PROVE  a * c \in Nat /\ b * c \in Nat /\ a * c <= b * c
  OBVIOUS

LEMMA Quotient ==
  ASSUME NEW a \in Nat, NEW m \in Nat \ {0}, NEW k \in Nat, a < m * k
  PROVE  a \div m \in 0 .. k - 1
<1> DEFINE q == a \div m
           r == a % m
<1>1. r \in 0 .. m - 1 /\ q \in Nat /\ a = m * q + r
  BY Split
<1> HIDE DEF q, r
<1>2. ASSUME q >= k PROVE FALSE
  <2>1. k * m <= q * m
    BY <1>1, <1>2, Product
  <2>2. k * m = m * k /\ q * m = m * q
    BY <1>1
  <2> QED
    BY <1>1, <2>1, <2>2
<1>3. q \in 0 .. k - 1
  BY <1>1, <1>2
<1> QED
  BY <1>3 DEF q

(* A pair of digits is one number. *)
LEMMA Digits ==
  ASSUME NEW m \in Nat \ {0}, NEW a \in Nat, NEW b \in Nat,
         NEW r \in 0 .. m - 1, NEW s \in 0 .. m - 1, a * m + r = b * m + s
  PROVE  a = b /\ r = s
<1>1. m * a + r = a * m + r /\ m * b + s = b * m + s
  OBVIOUS
<1>2. (m * a + r) % m = r /\ (m * a + r) \div m = a
  BY Unsplit
<1>3. (m * b + s) % m = s /\ (m * b + s) \div m = b
  BY Unsplit
<1> QED
  BY <1>1, <1>2, <1>3

-----------------------------------------------------------------------------
(* The geometry.                                                           *)

LEMMA Sizes ==
  /\ Columns \in Nat \ {0} /\ Fine \in Nat \ {0} /\ TileDots \in Nat \ {0}
  /\ Rows \in Nat \ {0} /\ RowSlots \in Nat \ {0} /\ Rows < RowSlots
  /\ Prefetch \in Nat /\ Width \in Nat /\ PreRender \in Nat /\ ReadDelay \in Nat
  BY ScrollAssumption

LEMMA BeamSizes ==
  /\ Visible \in Nat \ {0} /\ Visible < PreRender
  /\ IncVertDot \in Nat \ {0} /\ HoriDot = IncVertDot + 1 /\ HoriDot < Prefetch
  /\ Prefetch + TileDots < Prefetch + 2 * TileDots
  /\ Prefetch + 2 * TileDots < Width - 1
  /\ \A dot \in CopyDots : dot \in Nat /\ HoriDot < dot
<1>1. Visible \in Nat \ {0} /\ IncVertDot \in Nat \ {0}
  BY Sizes DEF Visible, IncVertDot
<1>2. 2 * TileDots \in Nat /\ TileDots < 2 * TileDots
  BY Sizes
<1>3. HoriDot = IncVertDot + 1 /\ IncVertDot + 2 <= Prefetch
  BY Sizes, ScrollAssumption DEF HoriDot, IncVertDot
<1>4. ASSUME NEW dot \in CopyDots PROVE dot \in Nat /\ HoriDot < dot
  <2>1. dot \in IncVertDot + 2 .. Prefetch
    BY ScrollAssumption DEF IncVertDot
  <2> QED
    BY <1>1, <1>3, <2>1
<1>5. Visible < PreRender /\ Prefetch + 2 * TileDots < Width - 1
  BY ScrollAssumption DEF Visible
<1>6. HoriDot < Prefetch /\ Prefetch + TileDots < Prefetch + 2 * TileDots
  BY <1>1, <1>2, <1>3, Sizes
<1> QED
  BY <1>1, <1>3, <1>4, <1>5, <1>6

LEMMA TileEnds ==
  ASSUME NEW dot \in IncHorizDots
  PROVE  /\ dot \in Nat \ {0}
         /\ dot <= IncVertDot \/ dot = Prefetch + TileDots \/ dot = Prefetch + 2 * TileDots
<1>1. CASE dot \in {TileDots * tile : tile \in 1 .. Columns}
  <2>1. PICK tile \in 1 .. Columns : dot = TileDots * tile
    BY <1>1
  <2>2. tile \in Nat /\ tile <= Columns /\ tile # 0
    BY Sizes
  <2>3. tile * TileDots <= Columns * TileDots
    BY <2>2, Product, Sizes
  <2>4. TileDots * tile \in Nat \ {0} /\ TileDots * tile = tile * TileDots
    BY <2>2, Sizes
  <2> QED
    BY <2>1, <2>3, <2>4 DEF IncVertDot
<1>2. CASE dot \in {Prefetch + TileDots, Prefetch + 2 * TileDots}
  BY <1>2, Sizes
<1> QED
  BY <1>1, <1>2 DEF IncHorizDots

LEMMA Events ==
  /\ HoriDot \notin IncHorizDots /\ IncVertDot \in IncHorizDots
  /\ Prefetch + TileDots \in IncHorizDots /\ Prefetch + 2 * TileDots \in IncHorizDots
  /\ 0 \notin IncHorizDots /\ 0 # IncVertDot /\ 0 # HoriDot /\ 0 \notin CopyDots
  /\ HoriDot \notin CopyDots /\ IncVertDot \notin CopyDots
<1>1. HoriDot \notin IncHorizDots
  BY BeamSizes, TileEnds, Sizes
<1>2. IncVertDot \in IncHorizDots
  <2>1. IncVertDot = TileDots * Columns /\ Columns \in 1 .. Columns
    BY Sizes DEF IncVertDot
  <2> QED
    BY <2>1 DEF IncHorizDots
<1>3. Prefetch + TileDots \in IncHorizDots /\ Prefetch + 2 * TileDots \in IncHorizDots
  BY DEF IncHorizDots
<1> QED
  BY <1>1, <1>2, <1>3, BeamSizes, TileEnds

-----------------------------------------------------------------------------
(* Columns.                                                                *)

LEMMA Fields ==
  ASSUME NEW p \in Position
  PROVE  /\ p.fine_y \in 0 .. Fine - 1 /\ p.nt_y \in 0..1 /\ p.nt_x \in 0..1
         /\ p.coarse_y \in 0 .. RowSlots - 1 /\ p.coarse_x \in 0 .. Columns - 1
  BY DEF Position

Abscissa(p) == p.nt_x * Columns + p.coarse_x

NextColumn(c) == IF c = 2 * Columns - 1 THEN 0 ELSE c + 1

LEMMA AbscissaType ==
  ASSUME NEW p \in Position
  PROVE  Abscissa(p) \in 0 .. 2 * Columns - 1
<1>1. p.nt_x \in {0, 1} /\ p.coarse_x \in 0 .. Columns - 1
  BY Fields
<1>2. CASE p.nt_x = 0
  BY <1>1, <1>2, Sizes DEF Abscissa
<1>3. CASE p.nt_x = 1
  BY <1>1, <1>3, Sizes DEF Abscissa
<1> QED
  BY <1>1, <1>2, <1>3

LEMMA ColumnHere ==
  ASSUME NEW p \in Position
  PROVE  Column(p, 0) = Abscissa(p)
<1> DEFINE a == Abscissa(p)
           m == 2 * Columns
<1>1. a \in 0 .. m - 1 /\ m \in Nat \ {0}
  BY AbscissaType, Sizes
<1>2. Column(p, 0) = (a + 0) % m
  BY DEF Column, Abscissa
<1> HIDE DEF a, m
<1>3. (a + 0) % m = a
  <2>1. a + 0 = m * 0 + a
    BY <1>1
  <2> QED
    BY <1>1, <2>1, Unsplit
<1> QED
  BY <1>2, <1>3 DEF a

LEMMA ColumnNext ==
  ASSUME NEW p \in Position, NEW n \in Nat
  PROVE  Column(p, n + 1) = NextColumn(Column(p, n))
<1> DEFINE a == Abscissa(p)
           m == 2 * Columns
<1>1. a \in Nat /\ m \in Nat \ {0}
  BY AbscissaType, Sizes
<1>2. Column(p, n) = (a + n) % m /\ Column(p, n + 1) = (a + (n + 1)) % m
  BY DEF Column, Abscissa
<1> HIDE DEF a
<1>3. a + n \in Nat /\ a + (n + 1) = (a + n) + 1
  BY <1>1
<1>4. ((a + n) + 1) % m = NextColumn((a + n) % m)
  BY <1>1, <1>3, Successor DEF NextColumn
<1> QED
  BY <1>2, <1>3, <1>4

SameRow(p, q) == p.nt_y = q.nt_y /\ p.coarse_y = q.coarse_y /\ p.fine_y = q.fine_y

SameColumn(p, q) == p.nt_x = q.nt_x /\ p.coarse_x = q.coarse_x

LEMMA ColumnMoved ==
  ASSUME NEW p \in Position
  PROVE  LET q == increment_horiz_v(p)
         IN q \in Position /\ SameRow(q, p) /\ Column(q, 0) = NextColumn(Column(p, 0))
<1> DEFINE q == increment_horiz_v(p)
<1>1. p.nt_x \in {0, 1} /\ p.coarse_x \in 0 .. Columns - 1
  BY Fields
<1>2. CASE p.coarse_x = Columns - 1
  <2>1. 0 \in 0 .. Columns - 1 /\ 1 - p.nt_x \in 0..1
    BY <1>1, Sizes
  <2>2. q = [p EXCEPT !.coarse_x = 0, !.nt_x = 1 - @]
    BY <1>2 DEF increment_horiz_v
  <2>3. /\ q \in Position /\ SameRow(q, p)
        /\ q.coarse_x = 0 /\ q.nt_x = 1 - p.nt_x
    BY <2>1, <2>2 DEF Position, SameRow
  <2>4. Abscissa(q) = NextColumn(Abscissa(p))
    <3>1. CASE p.nt_x = 0
      BY <1>1, <1>2, <2>3, <3>1, Sizes DEF Abscissa, NextColumn
    <3>2. CASE p.nt_x = 1
      BY <1>1, <1>2, <2>3, <3>2, Sizes DEF Abscissa, NextColumn
    <3> QED
      BY <1>1, <3>1, <3>2
  <2> QED
    BY <2>3, <2>4, ColumnHere
<1>3. CASE p.coarse_x # Columns - 1
  <2>1. p.coarse_x + 1 \in 0 .. Columns - 1
    BY <1>1, <1>3, Sizes
  <2>2. q = [p EXCEPT !.coarse_x = @ + 1]
    BY <1>3 DEF increment_horiz_v
  <2>3. /\ q \in Position /\ SameRow(q, p)
        /\ q.coarse_x = p.coarse_x + 1 /\ q.nt_x = p.nt_x
    BY <2>1, <2>2 DEF Position, SameRow
  <2>4. Abscissa(q) = NextColumn(Abscissa(p))
    <3>1. CASE p.nt_x = 0
      BY <1>1, <1>3, <2>3, <3>1, Sizes DEF Abscissa, NextColumn
    <3>2. CASE p.nt_x = 1
      BY <1>1, <1>3, <2>3, <3>2, Sizes DEF Abscissa, NextColumn
    <3> QED
      BY <1>1, <3>1, <3>2
  <2> QED
    BY <2>3, <2>4, ColumnHere
<1> QED
  BY <1>2, <1>3

LEMMA ColumnKept ==
  ASSUME NEW p, NEW q, SameColumn(p, q)
  PROVE  Column(p, 0) = Column(q, 0)
  BY DEF Column, SameColumn

-----------------------------------------------------------------------------
(* Lines.                                                                  *)

Ordinate(p) == p.coarse_y * Fine + p.fine_y

NextLine(l) ==
  CASE l.line = Visible - 1 -> [nt_y |-> (l.nt_y + 1) % 2, line |-> 0]
    [] l.line # Visible - 1 /\ l.line = RowSlots * Fine - 1 -> [nt_y |-> l.nt_y, line |-> 0]
    [] OTHER -> [nt_y |-> l.nt_y, line |-> l.line + 1]

LEMMA Heights ==
  /\ Visible \in Nat \ {0} /\ RowSlots * Fine \in Nat /\ Visible <= RowSlots * Fine
  BY Sizes, Product DEF Visible

LEMMA OrdinateType ==
  ASSUME NEW p \in Position
  PROVE  Ordinate(p) \in 0 .. RowSlots * Fine - 1
<1>1. /\ p.coarse_y \in Nat /\ p.coarse_y + 1 <= RowSlots /\ p.coarse_y + 1 \in Nat
      /\ p.fine_y \in 0 .. Fine - 1
  BY Fields, Sizes
<1>2. (p.coarse_y + 1) * Fine <= RowSlots * Fine
  BY <1>1, Product, Sizes
<1>3. (p.coarse_y + 1) * Fine = p.coarse_y * Fine + Fine /\ p.coarse_y * Fine \in Nat
  BY <1>1, Sizes
<1> QED
  BY <1>1, <1>2, <1>3, Heights, Sizes DEF Ordinate

LEMMA LineHere ==
  ASSUME NEW p \in Position
  PROVE  Line(p, 0) = [nt_y |-> p.nt_y, line |-> Ordinate(p)]
<1> DEFINE first == Ordinate(p)
           attributes == IF first < Visible THEN 0 ELSE RowSlots * Fine - first
           from == IF first < Visible THEN first ELSE 0
           line == p.nt_y * Visible + from + 0 - attributes
<1>1. /\ first \in 0 .. RowSlots * Fine - 1 /\ p.nt_y \in {0, 1}
      /\ Visible \in Nat \ {0} /\ RowSlots * Fine \in Nat
  BY Fields, Heights, OrdinateType
<1>2. Line(p, 0) = IF 0 < attributes THEN [nt_y |-> p.nt_y, line |-> first + 0]
                   ELSE [nt_y |-> (line \div Visible) % 2, line |-> line % Visible]
  BY DEF Line, Ordinate
<1> HIDE DEF first
<1>3. CASE first < Visible
  <2>1. line = Visible * p.nt_y + first
    BY <1>1, <1>3
  <2>2. first \in 0 .. Visible - 1 /\ p.nt_y \in Nat
    BY <1>1, <1>3
  <2>3. line % Visible = first /\ line \div Visible = p.nt_y
    <3>1. (Visible * p.nt_y + first) % Visible = first
          /\ (Visible * p.nt_y + first) \div Visible = p.nt_y
      BY <1>1, <2>2, Unsplit
    <3> HIDE DEF line
    <3> QED
      BY <2>1, <3>1
  <2>4. p.nt_y % 2 = p.nt_y
    BY <1>1
  <2> QED
    BY <1>2, <1>3, <2>3, <2>4 DEF first
<1>4. CASE first >= Visible
  <2>1. attributes > 0 /\ first + 0 = first
    BY <1>1, <1>4
  <2> QED
    BY <1>2, <2>1 DEF first
<1> QED
  BY <1>1, <1>3, <1>4

(* The line of a number of lines, within two nametables. *)
LEMMA LineOf ==
  ASSUME NEW n \in Nat
  PROVE  [nt_y |-> ((n + 1) \div Visible) % 2, line |-> (n + 1) % Visible] =
           NextLine([nt_y |-> (n \div Visible) % 2, line |-> n % Visible])
<1> DEFINE q == n \div Visible
           r == n % Visible
<1>1. q \in Nat /\ r \in 0 .. Visible - 1 /\ Visible \in Nat \ {0}
  BY Split, Heights
<1>2. /\ r = Visible - 1 => (n + 1) % Visible = 0 /\ (n + 1) \div Visible = q + 1
      /\ r # Visible - 1 => (n + 1) % Visible = r + 1 /\ (n + 1) \div Visible = q
  BY <1>1, Successor
<1> HIDE DEF q, r
<1>3. (q + 1) % 2 = ((q % 2) + 1) % 2
  BY <1>1
<1>4. CASE r = Visible - 1
  BY <1>2, <1>3, <1>4 DEF NextLine, q, r
<1>5. CASE r # Visible - 1
  <2>1. r # RowSlots * Fine - 1
    BY <1>1, <1>5, Heights
  <2> QED
    BY <1>2, <1>5, <2>1 DEF NextLine, q, r
<1> QED
  BY <1>4, <1>5

LEMMA LineNext ==
  ASSUME NEW p \in Position, NEW n \in Nat
  PROVE  Line(p, n + 1) = NextLine(Line(p, n))
<1> DEFINE first == Ordinate(p)
           attributes == IF first < Visible THEN 0 ELSE RowSlots * Fine - first
           from == IF first < Visible THEN first ELSE 0
           line(k) == p.nt_y * Visible + from + k - attributes
           In(k) == [nt_y |-> (line(k) \div Visible) % 2, line |-> line(k) % Visible]
<1>1. /\ first \in 0 .. RowSlots * Fine - 1 /\ p.nt_y \in {0, 1}
      /\ Visible \in Nat \ {0} /\ RowSlots * Fine \in Nat
      /\ p.nt_y * Visible \in Nat
  BY Fields, Heights, OrdinateType
<1>2. ASSUME NEW k \in Nat
      PROVE  Line(p, k) = IF k < attributes THEN [nt_y |-> p.nt_y, line |-> first + k] ELSE In(k)
  BY DEF Line, Ordinate
<1> HIDE DEF first
<1>3. attributes \in Nat /\ from \in Nat
  BY <1>1
<1>4. n + 1 \in Nat
  OBVIOUS
<1>5. CASE n >= attributes
  <2>1. line(n) \in Nat /\ line(n + 1) = line(n) + 1
    BY <1>1, <1>3, <1>5
  <2>2. In(n + 1) = NextLine(In(n))
    <3> HIDE DEF line
    <3> QED
      BY <2>1, LineOf
  <2>3. Line(p, n) = In(n) /\ Line(p, n + 1) = In(n + 1)
    BY <1>2, <1>3, <1>4, <1>5
  <2> QED
    BY <2>2, <2>3
<1>6. CASE n + 1 < attributes
  <2>1. first >= Visible /\ first + n # RowSlots * Fine - 1 /\ first + n # Visible - 1
    BY <1>1, <1>6
  <2>2. /\ Line(p, n) = [nt_y |-> p.nt_y, line |-> first + n]
        /\ Line(p, n + 1) = [nt_y |-> p.nt_y, line |-> first + (n + 1)]
    BY <1>2, <1>3, <1>4, <1>6
  <2>3. first + (n + 1) = (first + n) + 1
    BY <1>1
  <2> QED
    BY <2>1, <2>2, <2>3 DEF NextLine
<1>7. CASE n + 1 = attributes
  <2>1. /\ first >= Visible /\ first + n = RowSlots * Fine - 1 /\ first + n # Visible - 1
    BY <1>1, <1>7
  <2>5. line(n + 1) = Visible * p.nt_y + 0
    <3>1. from = 0 /\ (n + 1) - attributes = 0 /\ p.nt_y * Visible = Visible * p.nt_y
      BY <1>1, <1>7, <2>1
    <3> HIDE DEF from, attributes
    <3> QED
      BY <1>1, <1>3, <1>7, <3>1
  <2>2. line(n + 1) % Visible = 0 /\ line(n + 1) \div Visible = p.nt_y
    <3>1. 0 \in 0 .. Visible - 1 /\ p.nt_y \in Nat
      BY <1>1
    <3>2. (Visible * p.nt_y + 0) % Visible = 0 /\ (Visible * p.nt_y + 0) \div Visible = p.nt_y
      BY <1>1, <3>1, Unsplit
    <3> HIDE DEF line
    <3> QED
      BY <2>5, <3>2
  <2>3. p.nt_y % 2 = p.nt_y
    BY <1>1
  <2>4. Line(p, n) = [nt_y |-> p.nt_y, line |-> first + n] /\ Line(p, n + 1) = In(n + 1)
    BY <1>2, <1>3, <1>4, <1>7
  <2> QED
    BY <2>1, <2>2, <2>3, <2>4 DEF NextLine
<1> QED
  BY <1>3, <1>5, <1>6, <1>7

LEMMA LineMoved ==
  ASSUME NEW p \in Position
  PROVE  LET q == increment_vert_v(p)
         IN q \in Position /\ SameColumn(q, p) /\ Line(q, 0) = NextLine(Line(p, 0))
<1> DEFINE q == increment_vert_v(p)
<1>1. /\ p.fine_y \in 0 .. Fine - 1 /\ p.nt_y \in {0, 1} /\ p.coarse_y \in 0 .. RowSlots - 1
      /\ p.coarse_y \in Nat /\ p.coarse_y * Fine \in Nat
  BY Fields, Sizes
<1>2. Line(p, 0) = [nt_y |-> p.nt_y, line |-> Ordinate(p)]
  BY LineHere
<1>3. ASSUME NEW k \in Nat \ {0}, Ordinate(p) = k * Fine - 1
      PROVE  p.coarse_y = k - 1 /\ p.fine_y = Fine - 1
  <2> DEFINE j == k - 1
             last == Fine - 1
  <2>1. j * Fine + last = k * Fine - 1 /\ j \in Nat /\ last \in 0 .. Fine - 1
    BY Sizes
  <2> HIDE DEF j, last
  <2>2. p.coarse_y * Fine + p.fine_y = j * Fine + last
    BY <1>3, <2>1 DEF Ordinate
  <2>3. p.coarse_y = j /\ p.fine_y = last
    BY <1>1, <2>1, <2>2, Digits, Sizes
  <2> QED
    BY <2>3 DEF j, last
<1> DEFINE Row(f, c, n) == [p EXCEPT !.fine_y = f, !.coarse_y = c, !.nt_y = n]
<1>8. ASSUME NEW f \in 0 .. Fine - 1, NEW c \in 0 .. RowSlots - 1, NEW n \in 0..1
      PROVE  /\ Row(f, c, n) \in Position /\ SameColumn(Row(f, c, n), p)
             /\ Row(f, c, n).fine_y = f /\ Row(f, c, n).coarse_y = c /\ Row(f, c, n).nt_y = n
  BY <1>8 DEF Position, SameColumn
<1>9. 0 * Fine + 0 = 0
  BY Sizes
<1>4. CASE p.fine_y < Fine - 1
  <2>1. p.fine_y + 1 \in 0 .. Fine - 1
    BY <1>1, <1>4, Sizes
  <2>2. q = [p EXCEPT !.fine_y = @ + 1]
    BY <1>1, <1>4, Sizes DEF increment_vert_v
  <2>3. q \in Position /\ SameColumn(q, p) /\ q.nt_y = p.nt_y /\ Ordinate(q) = Ordinate(p) + 1
    BY <1>1, <2>1, <2>2 DEF Position, SameColumn, Ordinate
  <2>4. Ordinate(p) # Visible - 1 /\ Ordinate(p) # RowSlots * Fine - 1
    BY <1>1, <1>3, <1>4, Sizes DEF Visible
  <2>5. NextLine(Line(p, 0)) = [nt_y |-> p.nt_y, line |-> Ordinate(p) + 1]
    BY <1>2, <2>4 DEF NextLine
  <2> QED
    BY <2>3, <2>5, LineHere
<1>5. CASE p.fine_y = Fine - 1 /\ p.coarse_y = Rows - 1
  <2>1. 0 \in 0 .. Fine - 1 /\ 0 \in 0 .. RowSlots - 1 /\ 1 - p.nt_y \in 0..1
    BY <1>1, Sizes
  <2>2. q = [p EXCEPT !.fine_y = 0, !.coarse_y = 0, !.nt_y = 1 - @]
    BY <1>1, <1>5, Sizes DEF increment_vert_v
  <2>3. q \in Position /\ SameColumn(q, p) /\ q.nt_y = 1 - p.nt_y /\ Ordinate(q) = 0
    <3> DEFINE n == 1 - p.nt_y
    <3>1. q = Row(0, 0, n)
      BY <2>2
    <3>2. n \in 0..1
      BY <2>1
    <3> HIDE DEF n, q, Row
    <3>3. /\ q \in Position /\ SameColumn(q, p) /\ q.nt_y = n
          /\ q.coarse_y = 0 /\ q.fine_y = 0
      BY <1>8, <2>1, <3>1, <3>2
    <3> QED
      BY <1>9, <3>3 DEF Ordinate, n, q
  <2>4. Ordinate(p) = Visible - 1 /\ (p.nt_y + 1) % 2 = 1 - p.nt_y
    BY <1>1, <1>5, Sizes DEF Visible, Ordinate
  <2>5. NextLine(Line(p, 0)) = [nt_y |-> 1 - p.nt_y, line |-> 0]
    BY <1>2, <2>4 DEF NextLine
  <2> QED
    BY <2>3, <2>5, LineHere
<1>6. CASE p.fine_y = Fine - 1 /\ p.coarse_y # Rows - 1 /\ p.coarse_y = RowSlots - 1
  <2>1. 0 \in 0 .. Fine - 1 /\ 0 \in 0 .. RowSlots - 1
    BY Sizes
  <2>2. q = [p EXCEPT !.fine_y = 0, !.coarse_y = 0]
    BY <1>1, <1>6, Sizes DEF increment_vert_v
  <2>3. q \in Position /\ SameColumn(q, p) /\ q.nt_y = p.nt_y /\ Ordinate(q) = 0
    <3>1. q \in Position /\ SameColumn(q, p) /\ q.nt_y = p.nt_y /\ q.coarse_y = 0 /\ q.fine_y = 0
      BY <2>1, <2>2 DEF Position, SameColumn
    <3> QED
      BY <1>9, <3>1 DEF Ordinate
  <2>4. Ordinate(p) = RowSlots * Fine - 1 /\ Ordinate(p) # Visible - 1
    BY <1>1, <1>3, <1>6, Sizes DEF Visible, Ordinate
  <2>5. NextLine(Line(p, 0)) = [nt_y |-> p.nt_y, line |-> 0]
    BY <1>2, <2>4 DEF NextLine
  <2> QED
    BY <2>3, <2>5, LineHere
<1>7. CASE p.fine_y = Fine - 1 /\ p.coarse_y # Rows - 1 /\ p.coarse_y # RowSlots - 1
  <2>1. 0 \in 0 .. Fine - 1 /\ p.coarse_y + 1 \in 0 .. RowSlots - 1
    BY <1>1, <1>7, Sizes
  <2>2. q = [p EXCEPT !.fine_y = 0, !.coarse_y = @ + 1]
    BY <1>1, <1>7, Sizes DEF increment_vert_v
  <2>3. q \in Position /\ SameColumn(q, p) /\ q.nt_y = p.nt_y /\ Ordinate(q) = Ordinate(p) + 1
    <3>1. /\ q \in Position /\ SameColumn(q, p) /\ q.nt_y = p.nt_y
          /\ q.coarse_y = p.coarse_y + 1 /\ q.fine_y = 0
      BY <2>1, <2>2 DEF Position, SameColumn
    <3>2. (p.coarse_y + 1) * Fine + 0 = p.coarse_y * Fine + (Fine - 1) + 1
      BY <1>1, Sizes
    <3> QED
      BY <1>7, <3>1, <3>2 DEF Ordinate
  <2>4. Ordinate(p) # Visible - 1 /\ Ordinate(p) # RowSlots * Fine - 1
    BY <1>1, <1>3, <1>7, Sizes DEF Visible
  <2>5. NextLine(Line(p, 0)) = [nt_y |-> p.nt_y, line |-> Ordinate(p) + 1]
    BY <1>2, <2>4 DEF NextLine
  <2> QED
    BY <2>3, <2>5, LineHere
<1> QED
  BY <1>1, <1>4, <1>5, <1>6, <1>7, Sizes

LEMMA LineKept ==
  ASSUME NEW p \in Position, NEW q \in Position, SameRow(p, q)
  PROVE  Line(p, 0) = Line(q, 0)
  BY LineHere DEF SameRow, Ordinate

-----------------------------------------------------------------------------
(* The events of a dot.                                                    *)

MovesDot(w, v, t, line, dot) ==
  /\ Column(w, 0) = IF dot \in IncHorizDots THEN NextColumn(Column(v, 0))
                    ELSE IF dot = HoriDot THEN Column(t, 0) ELSE Column(v, 0)
  /\ Line(w, 0) = IF dot = IncVertDot THEN NextLine(Line(v, 0))
                  ELSE IF line = PreRender /\ dot \in CopyDots THEN Line(t, 0)
                  ELSE Line(v, 0)

LEMMA AfterDot ==
  ASSUME NEW v \in Position, NEW t \in Position, NEW line \in 0 .. PreRender, NEW dot \in Nat
  PROVE  /\ AfterEvents(v, t, line, dot) \in Position
         /\ MovesDot(AfterEvents(v, t, line, dot), v, t, line, dot)
<1> DEFINE h == IF dot \in IncHorizDots THEN increment_horiz_v(v) ELSE v
           y == IF dot = IncVertDot THEN increment_vert_v(h) ELSE h
           c == IF dot = HoriDot THEN hori_v_equals_hori_t(y, t) ELSE y
           w == IF line = PreRender /\ dot \in CopyDots THEN vert_v_equals_vert_t(c, t) ELSE c
<1>1. AfterEvents(v, t, line, dot) = w
  BY DEF AfterEvents
<1>2. /\ h \in Position
      /\ Column(h, 0) = IF dot \in IncHorizDots THEN NextColumn(Column(v, 0)) ELSE Column(v, 0)
      /\ Line(h, 0) = Line(v, 0)
  <2>1. CASE dot \in IncHorizDots
    BY <2>1, ColumnMoved, LineKept
  <2>2. CASE dot \notin IncHorizDots
    BY <2>2
  <2> QED
    BY <2>1, <2>2
<1> HIDE DEF h
<1>3. /\ y \in Position /\ Column(y, 0) = Column(h, 0)
      /\ Line(y, 0) = IF dot = IncVertDot THEN NextLine(Line(v, 0)) ELSE Line(v, 0)
  <2>1. CASE dot = IncVertDot
    BY <1>2, <2>1, LineMoved, ColumnKept
  <2>2. CASE dot # IncVertDot
    BY <1>2, <2>2
  <2> QED
    BY <2>1, <2>2
<1> HIDE DEF y
<1>4. /\ c \in Position /\ Line(c, 0) = Line(y, 0)
      /\ Column(c, 0) = IF dot = HoriDot THEN Column(t, 0) ELSE Column(y, 0)
  <2>1. CASE dot = HoriDot
    <3>1. c \in Position /\ SameRow(c, y) /\ SameColumn(c, t)
      BY <1>3, <2>1, Fields DEF hori_v_equals_hori_t, Position, SameRow, SameColumn
    <3> QED
      BY <1>3, <2>1, <3>1, LineKept, ColumnKept
  <2>2. CASE dot # HoriDot
    BY <1>3, <2>2
  <2> QED
    BY <2>1, <2>2
<1> HIDE DEF c
<1>5. /\ w \in Position /\ Column(w, 0) = Column(c, 0)
      /\ Line(w, 0) = IF line = PreRender /\ dot \in CopyDots THEN Line(t, 0) ELSE Line(c, 0)
  <2>1. CASE line = PreRender /\ dot \in CopyDots
    <3>1. w \in Position /\ SameRow(w, t) /\ SameColumn(w, c)
      BY <1>4, <2>1, Fields DEF vert_v_equals_vert_t, Position, SameRow, SameColumn
    <3> QED
      BY <2>1, <3>1, LineKept, ColumnKept
  <2>2. CASE ~(line = PreRender /\ dot \in CopyDots)
    BY <1>4, <2>2
  <2> QED
    BY <2>1, <2>2
<1> HIDE DEF w
<1> QED
  BY <1>1, <1>2, <1>3, <1>4, <1>5, Events DEF MovesDot

-----------------------------------------------------------------------------
(* v and t as numbers.                                                     *)

LEMMA Quarter ==
  /\ Nametable \in Nat \ {0} /\ Low \in Nat \ {0} /\ Nametable = 4 * Low
  /\ AddressSize \in Nat \ {0} /\ AddressSize <= 4 * (Fine * Nametable)
  /\ Fine * Nametable \in Nat
<1>1. Nametable \in Nat \ {0} /\ Nametable % 4 = 0
  BY Sizes, ScrollAssumption DEF Nametable
<1>2. Low \in Nat \ {0} /\ Nametable = 4 * Low
  BY <1>1 DEF Low
<1>3. Fine * Nametable \in Nat \ {0} /\ (2 * Fine) * Nametable = 2 * (Fine * Nametable)
  BY <1>1, Sizes
<1> QED
  BY <1>1, <1>2, <1>3 DEF AddressSize

LEMMA PositionOfType ==
  ASSUME NEW n \in Nat, n < 4 * (Fine * Nametable)
  PROVE  PositionOf(n) \in Position
<1>1. 4 * Nametable \in Nat \ {0} /\ (4 * Nametable) * Fine = 4 * (Fine * Nametable)
  BY Quarter, Sizes
<1>2. n \div (4 * Nametable) \in 0 .. Fine - 1
  BY <1>1, Quotient, Sizes
<1>3. 2 * Nametable \in Nat \ {0}
  BY Quarter
<1>4. /\ n \div (2 * Nametable) \in Nat /\ n \div Nametable \in Nat
      /\ n \div Columns \in Nat /\ n % Columns \in 0 .. Columns - 1
  BY <1>3, Split, Quarter, Sizes
<1>5. (n \div (2 * Nametable)) % 2 \in 0..1 /\ (n \div Nametable) % 2 \in 0..1
  BY <1>4
<1>6. (n \div Columns) % RowSlots \in 0 .. RowSlots - 1
  BY <1>4, Split, Sizes
<1> QED
  BY <1>2, <1>4, <1>5, <1>6 DEF PositionOf, Position

LEMMA NumberType ==
  ASSUME NEW p \in Position
  PROVE  Number(p) \in Nat /\ Number(p) < 4 * (Fine * Nametable)
<1> DEFINE high == p.fine_y * 4 + p.nt_y * 2 + p.nt_x
           low == p.coarse_y * Columns + p.coarse_x
<1>1. /\ p.fine_y \in 0 .. Fine - 1 /\ p.nt_y \in 0..1 /\ p.nt_x \in 0..1
      /\ p.coarse_y \in 0 .. RowSlots - 1 /\ p.coarse_x \in 0 .. Columns - 1
  BY Fields
<1>2. high \in Nat /\ high + 1 <= 4 * Fine
  BY <1>1, Sizes
<1>3. low \in Nat /\ low < Nametable
  <2>1. p.coarse_y + 1 \in Nat /\ p.coarse_y + 1 <= RowSlots /\ p.coarse_y \in Nat
    BY <1>1, Sizes
  <2>2. (p.coarse_y + 1) * Columns <= RowSlots * Columns
    BY <2>1, Product, Sizes
  <2>3. /\ (p.coarse_y + 1) * Columns = p.coarse_y * Columns + Columns
        /\ p.coarse_y * Columns \in Nat
    <3>1. ASSUME NEW a \in Nat PROVE (a + 1) * Columns = a * Columns + Columns /\ a * Columns \in Nat
      BY Sizes
    <3> QED
      BY <2>1, <3>1
  <2>4. RowSlots * Columns = Nametable
    BY Sizes DEF Nametable
  <2> QED
    BY <1>1, <2>2, <2>3, <2>4, Sizes
<1>4. Number(p) = high * Nametable + low
  <2>1. Number(p) = high * Nametable + p.coarse_y * Columns + p.coarse_x
    BY DEF Number
  <2>2. high * Nametable \in Nat /\ p.coarse_y * Columns \in Nat /\ p.coarse_x \in Nat
    <3>1. p.coarse_y \in Nat /\ Columns \in Nat /\ p.coarse_x \in Nat /\ Nametable \in Nat
      BY <1>1, Sizes, Quarter
    <3> HIDE DEF high
    <3> QED
      BY <1>2, <3>1
  <2> HIDE DEF high
  <2> QED
    BY <2>1, <2>2
<1> HIDE DEF high, low
<1>5. (high + 1) * Nametable <= (4 * Fine) * Nametable
  BY <1>2, Product, Quarter, Sizes
<1>6. /\ (high + 1) * Nametable = high * Nametable + Nametable /\ high * Nametable \in Nat
      /\ (4 * Fine) * Nametable = 4 * (Fine * Nametable)
  BY <1>2, Quarter, Sizes
<1> QED
  BY <1>3, <1>4, <1>5, <1>6, Quarter

LEMMA IncrementType ==
  ASSUME NEW p \in Position, NEW inc \in Nat
  PROVE  increment_v(p, inc) \in Position
<1>1. Number(p) + inc \in Nat
  BY NumberType
<1>2. (Number(p) + inc) % AddressSize \in 0 .. AddressSize - 1
  BY <1>1, Split, Quarter
<1> DEFINE n == (Number(p) + inc) % AddressSize
<1>3. n \in Nat /\ n < 4 * (Fine * Nametable)
  BY <1>2, Quarter
<1> HIDE DEF n
<1>4. PositionOf(n) \in Position
  BY <1>3, PositionOfType
<1> QED
  BY <1>4 DEF increment_v, n

LEMMA AddressType ==
  ASSUME NEW p \in Position, NEW byte \in Nat
  PROVE  LET n == Number(p)
         IN /\ PositionOf((byte * Low + (n % Low)) % AddressSize) \in Position
            /\ PositionOf(n - (n % Low) + (byte % Low)) \in Position
<1> DEFINE n == Number(p)
           high == (byte * Low + (n % Low)) % AddressSize
           low == n - (n % Low) + (byte % Low)
<1>1. n \in Nat /\ n < 4 * (Fine * Nametable)
  BY NumberType
<1>2. n % Low \in 0 .. Low - 1 /\ byte % Low \in 0 .. Low - 1
  BY <1>1, Split, Quarter
<1>3. high \in Nat /\ high < 4 * (Fine * Nametable)
  <2>1. byte * Low + (n % Low) \in Nat
    BY <1>2, Quarter
  <2>2. high \in 0 .. AddressSize - 1
    BY <2>1, Split, Quarter
  <2> HIDE DEF high
  <2> QED
    BY <2>2, Quarter
<1>4. low \in Nat /\ low < 4 * (Fine * Nametable)
  <2> DEFINE q == n \div Low
             k == 16 * Fine
  <2>1. k \in Nat /\ Low * k = 4 * (Fine * Nametable)
    <3>1. Nametable = 4 * Low /\ Low \in Nat
      BY Quarter
    <3>2. Fine * (4 * Low) = 4 * (Fine * Low) /\ Low * (16 * Fine) = 16 * (Fine * Low)
      BY <3>1, Sizes
    <3> QED
      BY <3>1, <3>2, Sizes
  <2> HIDE DEF k
  <2>2. q \in 0 .. k - 1 /\ n = Low * q + (n % Low)
    BY <1>1, <2>1, Quotient, Split, Quarter
  <2> HIDE DEF n, q
  <2>3. q + 1 \in Nat /\ q + 1 <= k /\ q \in Nat
    BY <2>1, <2>2
  <2>4. (q + 1) * Low <= k * Low
    BY <2>1, <2>3, Product, Quarter
  <2>5. (q + 1) * Low = Low * q + Low /\ k * Low = Low * k /\ Low * q \in Nat
    BY <2>1, <2>3, Quarter
  <2>6. low = Low * q + (byte % Low)
    BY <1>2, <2>2, <2>5, Quarter
  <2> QED
    BY <1>2, <2>1, <2>4, <2>5, <2>6, Quarter
<1> HIDE DEF high, low
<1>5. PositionOf(high) \in Position /\ PositionOf(low) \in Position
  BY <1>3, <1>4, PositionOfType
<1> QED
  BY <1>5 DEF high, low

-----------------------------------------------------------------------------
(* Tiles since the horizontal bits were copied.                            *)

TilesAt(dot) ==
  IF dot >= HoriDot THEN Cardinality({d \in IncHorizDots : HoriDot < d /\ d <= dot})
  ELSE 2 + Cardinality({d \in IncHorizDots : d <= dot})

LEMMA DotsFinite ==
  ASSUME NEW S \in SUBSET IncHorizDots
  PROVE  IsFiniteSet(S) /\ Cardinality(S) \in Nat
<1>1. IncHorizDots \subseteq 0 .. Width
  BY TileEnds, BeamSizes, Sizes
<1>2. IsFiniteSet(0 .. Width)
  BY FS_Interval, Sizes
<1>3. IsFiniteSet(S)
  BY <1>1, <1>2, FS_Subset
<1> QED
  BY <1>3, FS_CardinalityType

LEMMA TilesNext ==
  ASSUME NEW dot \in Nat
  PROVE  /\ TilesAt(dot) \in Nat
         /\ dot + 1 = HoriDot => TilesAt(dot + 1) = 0
         /\ dot + 1 # HoriDot /\ dot + 1 \in IncHorizDots => TilesAt(dot + 1) = TilesAt(dot) + 1
         /\ dot + 1 # HoriDot /\ dot + 1 \notin IncHorizDots => TilesAt(dot + 1) = TilesAt(dot)
<1> DEFINE S(d) == {e \in IncHorizDots : HoriDot < e /\ e <= d}
           R(d) == {e \in IncHorizDots : e <= d}
<1>1. IncHorizDots \subseteq Nat /\ HoriDot \in Nat /\ dot + 1 \in Nat
  BY TileEnds, BeamSizes
<1>2. ASSUME NEW d \in Nat
      PROVE  /\ IsFiniteSet(S(d)) /\ Cardinality(S(d)) \in Nat
             /\ IsFiniteSet(R(d)) /\ Cardinality(R(d)) \in Nat
  BY DotsFinite
<1>3. ASSUME NEW d \in Nat
      PROVE  TilesAt(d) = IF d >= HoriDot THEN Cardinality(S(d)) ELSE 2 + Cardinality(R(d))
  BY DEF TilesAt
<1>8. \A e \in IncHorizDots : e \in Nat
  BY <1>1
<1>9. ASSUME NEW d, NEW e
      PROVE  /\ e \in S(d) <=> e \in IncHorizDots /\ HoriDot < e /\ e <= d
             /\ e \in R(d) <=> e \in IncHorizDots /\ e <= d
  OBVIOUS
<1>10. ASSUME NEW e \in IncHorizDots PROVE e <= dot + 1 <=> e <= dot \/ e = dot + 1
  BY <1>8
<1> HIDE DEF S, R
<1>4. TilesAt(dot) \in Nat
  BY <1>1, <1>2, <1>3
<1>5. CASE dot + 1 = HoriDot
  <2>1. ASSUME NEW e \in S(HoriDot) PROVE FALSE
    <3>1. e \in IncHorizDots /\ HoriDot < e /\ e <= HoriDot
      BY <1>9, <2>1
    <3> QED
      BY <1>1, <1>8, <3>1
  <2>2. Cardinality(S(HoriDot)) = 0
    BY <2>1, FS_EmptySet
  <2>3. HoriDot >= HoriDot
    BY <1>1
  <2> QED
    BY <1>1, <1>3, <1>4, <1>5, <2>2, <2>3
<1>6. CASE dot + 1 # HoriDot /\ dot + 1 \in IncHorizDots
  <2>1. CASE dot >= HoriDot
    <3>1. S(dot + 1) = S(dot) \cup {dot + 1} /\ dot + 1 \notin S(dot)
      <4>1. ASSUME NEW e PROVE e \in S(dot + 1) <=> e \in S(dot) \/ e = dot + 1
        <5>1. HoriDot < dot + 1 /\ dot + 1 \in IncHorizDots
          BY <1>1, <1>6, <2>1
        <5> QED
          BY <1>9, <1>10, <5>1
      <4>2. dot + 1 \notin S(dot)
        BY <1>1, <1>9
      <4> QED
        BY <4>1, <4>2
    <3>2. IsFiniteSet(S(dot)) /\ Cardinality(S(dot)) \in Nat
      BY <1>2
    <3>3. Cardinality(S(dot + 1)) = Cardinality(S(dot)) + 1
      BY <3>1, <3>2, FS_AddElement
    <3>4. dot + 1 >= HoriDot
      BY <1>1, <2>1
    <3>5. TilesAt(dot) = Cardinality(S(dot)) /\ TilesAt(dot + 1) = Cardinality(S(dot + 1))
      BY <1>1, <1>3, <2>1, <3>4
    <3> QED
      BY <1>4, <1>6, <3>3, <3>5
  <2>2. CASE dot < HoriDot
    <3>1. R(dot + 1) = R(dot) \cup {dot + 1} /\ dot + 1 \notin R(dot)
      <4>1. ASSUME NEW e PROVE e \in R(dot + 1) <=> e \in R(dot) \/ e = dot + 1
        BY <1>6, <1>9, <1>10
      <4>2. dot + 1 \notin R(dot)
        BY <1>1, <1>9
      <4> QED
        BY <4>1, <4>2
    <3>2. IsFiniteSet(R(dot)) /\ Cardinality(R(dot)) \in Nat
      BY <1>2
    <3>3. Cardinality(R(dot + 1)) = Cardinality(R(dot)) + 1
      BY <3>1, <3>2, FS_AddElement
    <3>4. ~(dot >= HoriDot) /\ ~(dot + 1 >= HoriDot)
      BY <1>1, <1>6, <2>2
    <3>5. TilesAt(dot) = 2 + Cardinality(R(dot)) /\ TilesAt(dot + 1) = 2 + Cardinality(R(dot + 1))
      BY <1>1, <1>3, <3>4
    <3> QED
      BY <1>4, <1>6, <3>2, <3>3, <3>5
  <2> QED
    BY <1>1, <2>1, <2>2
<1>7. CASE dot + 1 # HoriDot /\ dot + 1 \notin IncHorizDots
  <2>1. ASSUME NEW e PROVE (e \in S(dot + 1) <=> e \in S(dot)) /\ (e \in R(dot + 1) <=> e \in R(dot))
    <3>1. ASSUME NEW d \in IncHorizDots PROVE d # dot + 1
      BY <1>7
    <3> QED
      BY <1>9, <1>10, <3>1
  <2>2. S(dot + 1) = S(dot) /\ R(dot + 1) = R(dot)
    BY <2>1
  <2>3. dot + 1 >= HoriDot <=> dot >= HoriDot
    BY <1>1, <1>7
  <2> QED
    BY <1>1, <1>3, <1>4, <1>7, <2>2, <2>3
<1> QED
  BY <1>5, <1>6, <1>7

(* A line ends two tiles in, the line of an odd frame as well, and the     *)
(* next one begins there.                                                  *)
LEMMA TilesOfLine ==
  /\ TilesAt(0) = 2
  /\ \A last \in {Width - 2, Width - 1} : TilesAt(last) = 2
<1>1. ASSUME NEW last \in {Width - 2, Width - 1}
      PROVE  TilesAt(last) = 2
  <2> DEFINE S == {d \in IncHorizDots : HoriDot < d /\ d <= last}
             a == Prefetch + TileDots
             b == Prefetch + 2 * TileDots
  <2>0. last \in Nat /\ b <= last /\ last >= HoriDot
    BY <1>1, BeamSizes, Sizes
  <2>1. S = {a} \cup {b} /\ a # b
    <3>1. a \in IncHorizDots /\ b \in IncHorizDots /\ a # b
      BY Events, BeamSizes, Sizes
    <3>2. HoriDot < a /\ a <= last /\ HoriDot < b /\ b <= last
      BY <2>0, BeamSizes, Sizes
    <3>3. ASSUME NEW d \in IncHorizDots, HoriDot < d PROVE d = a \/ d = b
      BY <3>3, TileEnds, BeamSizes, Sizes
    <3> HIDE DEF a, b
    <3> QED
      BY <3>1, <3>2, <3>3
  <2>2. Cardinality(S) = 2
    <3>1. IsFiniteSet({a}) /\ Cardinality({a}) = 1
      BY FS_Singleton
    <3>2. Cardinality({a} \cup {b}) = 1 + 1
      BY <2>1, <3>1, FS_AddElement
    <3> HIDE DEF S
    <3> QED
      BY <2>1, <3>2
  <2> QED
    BY <2>0, <2>2 DEF TilesAt
<1>2. TilesAt(0) = 2
  <2> DEFINE R == {d \in IncHorizDots : d <= 0}
  <2>1. R = {}
    BY TileEnds
  <2>2. Cardinality(R) = 0
    BY <2>1, FS_EmptySet
  <2>3. ~(0 >= HoriDot)
    BY BeamSizes, Sizes
  <2> HIDE DEF R
  <2>4. TilesAt(0) = 2 + Cardinality(R)
    BY <2>3 DEF TilesAt, R
  <2> QED
    BY <2>2, <2>4
<1> QED
  BY <1>1, <1>2

-----------------------------------------------------------------------------
(* The beam.                                                               *)

Typed ==
  /\ ir.v \in Position /\ ir.t \in Position
  /\ ir = [v |-> ir.v, t |-> ir.t, w |-> ir.w]
  /\ vram_increment \in Nat /\ rendering \in BOOLEAN
  /\ scanline \in 0 .. PreRender /\ x \in 0 .. Width - 1 /\ transfer \in Nat
  /\ hori = None \/ hori \in Position
  /\ vert = None \/ vert \in Position

(* Between the last line and the pre-render line the beam stays where the  *)
(* last line left it.                                                      *)
Across ==
  hori # None =>
    Column(ir.v, 0) = Column(hori, IF Rendered(scanline) THEN TilesAt(x) ELSE 2)

Down ==
  /\ vert # None /\ Rendered(scanline) => Line(ir.v, 0) = Line(vert, Lines)
  /\ vert # None /\ scanline = PreRender => x > IncVertDot

BeamInv == Typed /\ Across /\ Down

(* A line ends with its last dot, or one before it. *)
LEMMA BeamMoves ==
  ASSUME Typed, Advance(FALSE) \/ Advance(rendering)
  PROVE  /\ \/ x + 1 < Width /\ x' = x + 1 /\ scanline' = scanline
            \/ /\ x \in {Width - 2, Width - 1} /\ x' = 0
               /\ scanline' = IF scanline = PreRender THEN 0 ELSE scanline + 1
         /\ scanline' \in 0 .. PreRender /\ x' \in 0 .. Width - 1
<1>1. \/ x # Width - 1 /\ x' = x + 1 /\ scanline' = scanline
      \/ /\ x \in {Width - 2, Width - 1} /\ x' = 0
         /\ scanline' = IF scanline = PreRender THEN 0 ELSE scanline + 1
  <2>1. CASE Advance(FALSE)
    BY <2>1 DEF Advance
  <2>2. CASE Advance(rendering)
    BY <2>2 DEF Advance
  <2> QED
    BY <2>1, <2>2
<1>2. x \in 0 .. Width - 1 /\ scanline \in 0 .. PreRender /\ Width \in Nat \ {0}
  BY BeamSizes, Sizes DEF Typed
<1> QED
  BY <1>1, <1>2, Sizes

Scrolling == rendering /\ transfer = 0 /\ Rendered(scanline')

(* What a dot does to v when no delayed read of $2007 moves it. *)
DotEvents(w) ==
  /\ Column(w, 0) =
       IF Scrolling /\ x' \in IncHorizDots THEN NextColumn(Column(ir.v, 0))
       ELSE IF Scrolling /\ x' = HoriDot THEN Column(ir.t, 0) ELSE Column(ir.v, 0)
  /\ Line(w, 0) =
       IF Scrolling /\ x' = IncVertDot THEN NextLine(Line(ir.v, 0))
       ELSE IF Scrolling /\ scanline' = PreRender /\ x' \in CopyDots THEN Line(ir.t, 0)
       ELSE Line(ir.v, 0)

(* v once the events of a dot have run. *)
Scrolled == IF Scrolling THEN AfterEvents(ir.v, ir.t, scanline', x') ELSE ir.v

LEMMA ScrolledMoves ==
  ASSUME Typed, scanline' \in 0 .. PreRender, x' \in 0 .. Width - 1
  PROVE  Scrolled \in Position /\ DotEvents(Scrolled)
<1> DEFINE v == ir.v
           t == ir.t
           line == scanline'
           dot == x'
           w == AfterEvents(v, t, line, dot)
<1>1. v \in Position /\ t \in Position /\ line \in 0 .. PreRender /\ dot \in Nat
  BY BeamSizes, Sizes DEF Typed
<1>2. CASE Scrolling
  <2>1. Scrolled = w
    BY <1>2 DEF Scrolled
  <2> HIDE DEF v, t, line, dot
  <2>2. w \in Position /\ MovesDot(w, v, t, line, dot)
    BY <1>1, AfterDot, Zenon
  <2> HIDE DEF w
  <2> QED
    BY <1>2, <2>1, <2>2 DEF MovesDot, DotEvents, v, t, line, dot
<1>3. CASE ~Scrolling
  <2>1. Scrolled = ir.v
    BY <1>3 DEF Scrolled
  <2> QED
    BY <1>1, <1>3, <2>1 DEF DotEvents
<1> QED
  BY <1>2, <1>3

DelayedMove == transfer = 0 /\ pending_2007_read_delay = 1

LEMMA DotMoves ==
  ASSUME Typed, ObserveDot
  PROVE  /\ \/ x + 1 < Width /\ x' = x + 1 /\ scanline' = scanline
            \/ /\ x \in {Width - 2, Width - 1} /\ x' = 0
               /\ scanline' = IF scanline = PreRender THEN 0 ELSE scanline + 1
         /\ scanline' \in 0 .. PreRender /\ x' \in 0 .. Width - 1
         /\ UNCHANGED <<vram_increment, rendering, transfer>>
         /\ ir' = [v |-> ir'.v, t |-> ir.t, w |-> ir.w] /\ ir'.v \in Position
         /\ ~DelayedMove => DotEvents(ir'.v)
<1>1. CASE Tick
  <2>1. Advance(rendering) /\ transfer = 0 /\ UNCHANGED <<vram_increment, rendering, transfer>>
    BY <1>1 DEF Tick
  <2>2. scanline' \in 0 .. PreRender /\ x' \in 0 .. Width - 1
    BY <2>1, BeamMoves
  <2>3. Scrolled \in Position /\ DotEvents(Scrolled)
    BY <2>2, ScrolledMoves
  <2> DEFINE s == rendering /\ Rendered(scanline')
             w == IF pending_2007_read_delay = 1 THEN Moved(Scrolled, s) ELSE Scrolled
  <2>4. ir' = [ir EXCEPT !.v = w]
    BY <1>1, <2>1 DEF Tick, Scrolled, Scrolling
  <2>5. w \in Position
    <3>1. vram_increment \in Nat
      BY DEF Typed
    <3> HIDE DEF s
    <3> QED
      BY <2>3, <3>1, ColumnMoved, LineMoved, IncrementType DEF Moved
  <2>6. ~DelayedMove => w = Scrolled
    BY <2>1 DEF DelayedMove
  <2> HIDE DEF w
  <2>7. ir' = [v |-> w, t |-> ir.t, w |-> ir.w]
    BY <2>4 DEF Typed
  <2>8. ir'.v = w
    BY <2>7
  <2> QED
    BY <2>1, <2>3, <2>5, <2>6, <2>7, <2>8, BeamMoves
<1>2. CASE UpdateBeam
  <2>1. /\ Advance(FALSE) \/ Advance(rendering)
        /\ UNCHANGED <<vram_increment, rendering, transfer>> /\ ir' = ir
        /\ transfer # 0
    <3>1. transfer > 0 /\ transfer \in Nat
      BY <1>2 DEF UpdateBeam, Typed
    <3>2. transfer # 0
      BY <3>1
    <3> QED
      BY <1>2, <3>2 DEF UpdateBeam
  <2>2. ir = [v |-> ir.v, t |-> ir.t, w |-> ir.w] /\ ir.v \in Position
    BY DEF Typed
  <2>3. DotEvents(ir.v)
    BY <2>1 DEF DotEvents, Scrolling
  <2> QED
    BY <2>1, <2>2, <2>3, BeamMoves
<1> QED
  BY <1>1, <1>2 DEF ObserveDot

LEMMA DotTyped ==
  ASSUME Typed, ObserveDot
  PROVE  Typed'
<1>1. hori' \in {None, ir.t, hori} /\ vert' \in {None, ir.t, vert}
  BY DEF ObserveDot
<1>2. None' = None /\ Position' = Position
  BY DEF None, Position
<1>3. /\ scanline' \in 0 .. PreRender /\ x' \in 0 .. Width - 1
      /\ UNCHANGED <<vram_increment, rendering, transfer>>
      /\ ir' = [v |-> ir'.v, t |-> ir.t, w |-> ir.w] /\ ir'.v \in Position
  BY DotMoves
<1>4. ir'.t = ir.t /\ ir'.w = ir.w
  BY <1>3
<1> QED
  BY <1>1, <1>2, <1>3, <1>4 DEF Typed

LEMMA DotAcross ==
  ASSUME Typed, Across, ObserveDot
  PROVE  hori' # None =>
           Column(ir'.v, 0) = Column(hori', IF Rendered(scanline') THEN TilesAt(x') ELSE 2)
<1> DEFINE unrun == ~Scrolling /\ Rendered(scanline')
<1> SUFFICES ASSUME hori' # None
             PROVE  Column(ir'.v, 0) = Column(hori', IF Rendered(scanline') THEN TilesAt(x') ELSE 2)
  OBVIOUS
<1>1. hori' = IF DelayedMove \/ (unrun /\ x' \in EventDots) THEN None
              ELSE IF Scrolling /\ x' = HoriDot THEN ir.t
              ELSE hori
  BY DEF ObserveDot, Scrolling, DelayedMove
<1>2. ~DelayedMove
  BY <1>1
<1>3. /\ \/ x + 1 < Width /\ x' = x + 1 /\ scanline' = scanline
         \/ /\ x \in {Width - 2, Width - 1} /\ x' = 0
            /\ scanline' = IF scanline = PreRender THEN 0 ELSE scanline + 1
      /\ Column(ir'.v, 0) =
           IF Scrolling /\ x' \in IncHorizDots THEN NextColumn(Column(ir.v, 0))
           ELSE IF Scrolling /\ x' = HoriDot THEN Column(ir.t, 0) ELSE Column(ir.v, 0)
  BY <1>2, DotMoves DEF DotEvents
<1>4. x \in Nat /\ rendering \in BOOLEAN
  BY Sizes DEF Typed
<1>5. CASE Scrolling /\ x' = HoriDot
  <2>1. hori' = ir.t /\ x' \notin IncHorizDots
    BY <1>1, <1>5, Events
  <2>2. x' = x + 1
    BY <1>3, <1>5, Events
  <2>3. TilesAt(x') = 0
    BY <1>4, <1>5, <2>2, TilesNext
  <2> QED
    BY <1>3, <1>5, <2>1, <2>3 DEF Scrolling
<1>6. CASE ~(Scrolling /\ x' = HoriDot)
  <2>1. /\ hori' = hori
        /\ Rendered(scanline') /\ x' \in EventDots => Scrolling
    BY <1>1, <1>2, <1>4, <1>6
  <2>2. Column(ir.v, 0) = Column(hori, IF Rendered(scanline) THEN TilesAt(x) ELSE 2)
    BY <2>1 DEF Across
  <2>3. hori \in Position
    BY <2>1 DEF Typed
  <2>4. CASE x' = 0
    <3>1. Column(ir'.v, 0) = Column(ir.v, 0)
      BY <1>3, <2>4, Events
    <3>2. x \in {Width - 2, Width - 1}
      BY <1>3, <1>4, <2>4
    <3> QED
      BY <2>1, <2>2, <2>4, <3>1, <3>2, TilesOfLine
  <2>5. CASE x' = x + 1 /\ scanline' = scanline
    <3>1. CASE ~Rendered(scanline)
      BY <1>3, <1>6, <2>1, <2>2, <2>5, <3>1 DEF Scrolling
    <3>2. CASE Rendered(scanline) /\ x' \in IncHorizDots
      <4>1. Scrolling /\ x' # HoriDot
        BY <2>1, <2>5, <3>2, Events DEF EventDots
      <4>2. TilesAt(x') = TilesAt(x) + 1 /\ TilesAt(x) \in Nat
        BY <1>4, <2>5, <3>2, <4>1, TilesNext
      <4>3. Column(ir'.v, 0) = NextColumn(Column(hori, TilesAt(x)))
        BY <1>3, <2>2, <3>2, <4>1
      <4> QED
        BY <2>1, <2>3, <2>5, <3>2, <4>2, <4>3, ColumnNext
    <3>3. CASE Rendered(scanline) /\ x' \notin IncHorizDots
      <4>1. x' # HoriDot
        BY <1>6, <2>1, <2>5, <3>3 DEF EventDots
      <4>2. TilesAt(x') = TilesAt(x)
        BY <1>4, <2>5, <3>3, <4>1, TilesNext
      <4> QED
        BY <1>3, <2>1, <2>2, <2>5, <3>3, <4>1, <4>2
    <3> QED
      BY <3>1, <3>2, <3>3
  <2> QED
    BY <1>3, <2>4, <2>5
<1> QED
  BY <1>5, <1>6

LinesAt(line, dot) ==
  IF line = PreRender THEN 0 ELSE line + (IF dot >= IncVertDot THEN 1 ELSE 0)

LEMMA DotDown ==
  ASSUME Typed, Down, ObserveDot
  PROVE  /\ vert' # None /\ Rendered(scanline') => Line(ir'.v, 0) = Line(vert', LinesAt(scanline', x'))
         /\ vert' # None /\ scanline' = PreRender => x' > IncVertDot
<1> DEFINE unrun == ~Scrolling /\ Rendered(scanline')
<1>0. Rendered(PreRender)
  BY DEF Rendered
<1> SUFFICES ASSUME vert' # None, Rendered(scanline')
             PROVE  /\ Line(ir'.v, 0) = Line(vert', LinesAt(scanline', x'))
                    /\ scanline' = PreRender => x' > IncVertDot
  BY <1>0
<1>1. vert' = IF DelayedMove \/ (unrun /\ x' = IncVertDot) THEN None
              ELSE IF scanline' = PreRender /\ x' = 0 THEN None
              ELSE IF Scrolling /\ scanline' = PreRender /\ x' \in CopyDots THEN ir.t
              ELSE vert
  BY DEF ObserveDot, Scrolling, DelayedMove
<1>2. ~DelayedMove
  BY <1>1
<1>3. /\ \/ x + 1 < Width /\ x' = x + 1 /\ scanline' = scanline
         \/ /\ x \in {Width - 2, Width - 1} /\ x' = 0
            /\ scanline' = IF scanline = PreRender THEN 0 ELSE scanline + 1
      /\ Line(ir'.v, 0) =
           IF Scrolling /\ x' = IncVertDot THEN NextLine(Line(ir.v, 0))
           ELSE IF Scrolling /\ scanline' = PreRender /\ x' \in CopyDots THEN Line(ir.t, 0)
           ELSE Line(ir.v, 0)
  BY <1>2, DotMoves DEF DotEvents
<1>4. /\ x \in Nat /\ scanline \in Nat /\ rendering \in BOOLEAN
      /\ IncVertDot \in Nat \ {0} /\ IncVertDot < Width - 1
      /\ Visible \in Nat /\ Visible < PreRender /\ PreRender \in Nat /\ Width \in Nat
  BY BeamSizes, Sizes DEF Typed
<1>5. CASE scanline' = PreRender
  <2>1. x' # 0
    BY <1>1, <1>5
  <2>2. x' = x + 1 /\ scanline = PreRender
    BY <1>3, <1>5, <2>1
  <2>3. CASE Scrolling /\ x' \in CopyDots
    <3>1. vert' = ir.t /\ x' # IncVertDot
      BY <1>1, <1>5, <2>3, Events
    <3>2. x' > IncVertDot
      BY <1>4, <2>3, BeamSizes
    <3> QED
      BY <1>3, <1>5, <2>3, <3>1, <3>2 DEF LinesAt
  <2>4. CASE ~(Scrolling /\ x' \in CopyDots)
    <3>1. vert' = vert
      BY <1>1, <2>1, <2>4
    <3>2. Line(ir.v, 0) = Line(vert, Lines) /\ x > IncVertDot
      BY <1>0, <2>2, <3>1 DEF Down
    <3>3. Lines = 0 /\ LinesAt(scanline', x') = 0
      BY <1>5, <2>2 DEF Lines, LinesAt
    <3>4. x' > IncVertDot /\ x' # IncVertDot
      BY <1>4, <2>2, <3>2
    <3> QED
      BY <1>3, <2>4, <3>1, <3>2, <3>3, <3>4
  <2> QED
    BY <2>3, <2>4
<1>6. CASE scanline' # PreRender
  <2>1. vert' = vert /\ (x' = IncVertDot => Scrolling)
    BY <1>1, <1>4, <1>6
  <2>2. vert \in Position
    BY <2>1 DEF Typed
  <2>3. scanline' < Visible
    BY <1>6 DEF Rendered
  <2>4. Lines = LinesAt(scanline, x)
    BY DEF Lines, LinesAt
  <2>5. CASE x' = x + 1 /\ scanline' = scanline
    <3>1. Line(ir.v, 0) = Line(vert, LinesAt(scanline, x))
      BY <2>1, <2>4, <2>5 DEF Down
    <3>2. CASE x' = IncVertDot
      <4>1. LinesAt(scanline, x) = scanline /\ LinesAt(scanline', x') = scanline + 1
        BY <1>4, <1>6, <2>5, <3>2 DEF LinesAt
      <4>2. Line(ir'.v, 0) = NextLine(Line(vert, scanline))
        BY <1>3, <2>1, <3>1, <3>2, <4>1
      <4> QED
        BY <1>4, <1>6, <2>1, <2>2, <4>1, <4>2, LineNext
    <3>3. CASE x' # IncVertDot
      <4>1. LinesAt(scanline', x') = LinesAt(scanline, x)
        BY <1>4, <2>5, <3>3 DEF LinesAt
      <4> QED
        BY <1>3, <1>6, <2>1, <3>1, <3>3, <4>1
    <3> QED
      BY <3>2, <3>3
  <2>6. CASE x \in {Width - 2, Width - 1} /\ x' = 0
    <3>1. scanline' = IF scanline = PreRender THEN 0 ELSE scanline + 1
      BY <1>3, <1>4, <2>6
    <3>2. Rendered(scanline)
      BY <1>4, <2>3, <3>1 DEF Rendered
    <3>3. Line(ir.v, 0) = Line(vert, LinesAt(scanline, x))
      BY <2>1, <2>4, <3>2 DEF Down
    <3>4. LinesAt(scanline', x') = LinesAt(scanline, x)
      BY <1>4, <1>6, <2>6, <3>1 DEF LinesAt
    <3> QED
      BY <1>3, <1>4, <1>6, <2>1, <2>6, <3>3, <3>4
  <2> QED
    BY <1>3, <2>5, <2>6
<1> QED
  BY <1>5, <1>6

LEMMA DotKeepsBeam ==
  ASSUME BeamInv, ObserveDot
  PROVE  BeamInv'
<1>1. Typed'
  BY DotTyped DEF BeamInv
<1>2. Across'
  BY DotAcross DEF BeamInv, Across
<1>3. Down'
  <2>1. Lines' = LinesAt(scanline', x')
    BY DEF Lines, LinesAt
  <2> QED
    BY <2>1, DotDown DEF BeamInv, Down
<1> QED
  BY <1>1, <1>2, <1>3 DEF BeamInv

-----------------------------------------------------------------------------
(* The accesses of the CPU.                                                *)

LEMMA AccessKeepsBeam ==
  ASSUME BeamInv, UNCHANGED <<scanline, x>>,
         NEW v \in Position, NEW t \in Position, NEW w, ir' = [v |-> v, t |-> t, w |-> w],
         vram_increment' \in Nat, rendering' \in BOOLEAN, transfer' \in Nat,
         \/ v = ir.v /\ UNCHANGED <<hori, vert>>
         \/ hori' = None /\ vert' = None
  PROVE  BeamInv'
<1>1. None' = None /\ Position' = Position
  BY DEF None, Position
<1>2. ir'.v = v /\ ir'.t = t /\ ir'.w = w
  OBVIOUS
<1>3. Typed'
  BY <1>1, <1>2 DEF BeamInv, Typed
<1>4. Across'
  BY <1>2 DEF BeamInv, Across
<1>5. Down'
  <2>1. Lines' = Lines
    BY DEF Lines
  <2> QED
    BY <1>2, <2>1 DEF BeamInv, Down
<1> QED
  BY <1>3, <1>4, <1>5 DEF BeamInv

(* Reads of $2007 and $2002, by the CPU or by a transfer. *)
LEMMA ReadsKeepBeam ==
  ASSUME BeamInv, UNCHANGED <<scanline, x>>, transfer' \in Nat,
         NEW reads \in Nat, NEW line, NEW status, Reads(reads, line, status),
         KeepingUnlessMoved
  PROVE  BeamInv'
<1>1. /\ ir.v \in Position /\ ir.t \in Position /\ ir = [v |-> ir.v, t |-> ir.t, w |-> ir.w]
      /\ vram_increment \in Nat /\ rendering \in BOOLEAN
  BY DEF BeamInv, Typed
<1> DEFINE step == reads * vram_increment
           moved == increment_v(ir.v, step)
           w == ir.w /\ ~status
<1>2. step \in Nat
  BY <1>1
<1> HIDE DEF step
<1>3. moved \in Position
  BY <1>1, <1>2, IncrementType
<1>4. PICK v \in {ir.v, moved} : ir' = [ir EXCEPT !.v = v, !.w = w]
  BY DEF Reads, step
<1> HIDE DEF moved, w
<1>5. ir' = [v |-> v, t |-> ir.t, w |-> w] /\ v \in Position
  BY <1>1, <1>3, <1>4
<1>6. ir'.v = v
  BY <1>5
<1>7. vram_increment' \in Nat /\ rendering' \in BOOLEAN
  BY <1>1 DEF Reads
<1> QED
  BY <1>1, <1>5, <1>6, <1>7, AccessKeepsBeam DEF KeepingUnlessMoved, Keeping

LEMMA NextBeamInv ==
  ASSUME BeamInv, [MCNext]_MCvars
  PROVE  BeamInv'
<1> /\ ir.v \in Position /\ ir.t \in Position /\ ir = [v |-> ir.v, t |-> ir.t, w |-> ir.w]
    /\ vram_increment \in Nat /\ rendering \in BOOLEAN /\ transfer \in Nat
  BY DEF BeamInv, Typed
<1> /\ ir.t.fine_y \in 0 .. Fine - 1 /\ ir.t.nt_y \in 0..1 /\ ir.t.nt_x \in 0..1
    /\ ir.t.coarse_y \in 0 .. RowSlots - 1 /\ ir.t.coarse_x \in 0 .. Columns - 1
  BY Fields
<1>1. CASE ObserveDot
  BY <1>1, DotKeepsBeam
<1>2. CASE NoAccess /\ UNCHANGED <<hori, vert, changed>>
  BY <1>2, AccessKeepsBeam DEF NoAccess, AnyCycle, CycleEnds, beamVars
<1>3. ASSUME NEW nametable \in Nametables, NEW inc \in {1, Columns},
             WriteControl(nametable, inc), Keeping
      PROVE  BeamInv'
  <2>1. nametable % 2 \in 0..1 /\ nametable \div 2 \in 0..1 /\ inc \in Nat
    <3>1. nametable \in 0 .. 3
      BY MCScrollAssumption
    <3> QED
      BY <3>1, Sizes
  <2> DEFINE t == [ir.t EXCEPT !.nt_x = nametable % 2, !.nt_y = nametable \div 2]
  <2>2. t \in Position
    BY <2>1 DEF Position
  <2>3. ir' = [v |-> ir.v, t |-> t, w |-> ir.w]
    BY <1>3 DEF WriteControl
  <2> HIDE DEF t
  <2> QED
    BY <1>3, <2>1, <2>2, <2>3, AccessKeepsBeam DEF WriteControl, CpuCycle, CycleEnds, beamVars, Keeping
<1>4. CASE SetRendering /\ Keeping
  BY <1>4, AccessKeepsBeam DEF SetRendering, CpuCycle, CycleEnds, beamVars, Keeping
<1>5. CASE ReadStatus /\ Keeping
  <2>1. AnyCycle /\ Reads(0, Seen, TRUE)
    BY <1>5 DEF ReadStatus
  <2>2. /\ ir' = [ir EXCEPT !.v = @, !.w = @ /\ ~TRUE]
        /\ UNCHANGED <<vram_increment, rendering>>
    BY <2>1, SMT DEF Reads
  <2>3. ir' = [v |-> ir.v, t |-> ir.t, w |-> FALSE]
    BY <2>2
  <2>4. transfer' \in Nat /\ UNCHANGED <<scanline, x>>
    BY <2>1 DEF AnyCycle, CycleEnds, beamVars
  <2> QED
    BY <1>5, <2>2, <2>3, <2>4, AccessKeepsBeam DEF Keeping
<1>6. ASSUME NEW coarse \in Coarse, NEW fine \in FineYs, WriteScroll(coarse, fine), Keeping
      PROVE  BeamInv'
  <2>1. /\ coarse \in 0 .. RowSlots - 1 /\ fine \in 0 .. Fine - 1
        /\ coarse % Columns \in 0 .. Columns - 1
    <3>1. coarse \in 0 .. RowSlots - 1 /\ fine \in 0 .. Fine - 1
      BY MCScrollAssumption
    <3>2. coarse \in Nat
      BY <3>1, Sizes
    <3> QED
      BY <3>1, <3>2, Split, Sizes
  <2>2. CASE ir.w
    <3> DEFINE t == [ir.t EXCEPT !.coarse_y = coarse, !.fine_y = fine]
    <3>1. t \in Position
      BY <2>1 DEF Position
    <3>2. ir' = [v |-> ir.v, t |-> t, w |-> FALSE]
      BY <1>6, <2>2 DEF WriteScroll
    <3> HIDE DEF t
    <3> QED
      BY <1>6, <3>1, <3>2, AccessKeepsBeam DEF WriteScroll, SetsIr, CpuCycle, CycleEnds, beamVars, Keeping
  <2>3. CASE ~ir.w
    <3> DEFINE t == [ir.t EXCEPT !.coarse_x = coarse % Columns]
    <3>1. t \in Position
      BY <2>1 DEF Position
    <3>2. ir' = [v |-> ir.v, t |-> t, w |-> TRUE]
      BY <1>6, <2>3 DEF WriteScroll
    <3> HIDE DEF t
    <3> QED
      BY <1>6, <3>1, <3>2, AccessKeepsBeam DEF WriteScroll, SetsIr, CpuCycle, CycleEnds, beamVars, Keeping
  <2> QED
    BY <2>2, <2>3
<1>7. ASSUME NEW byte \in Addresses, WriteAddress(byte),
             IF ir.w THEN hori' = None /\ vert' = None ELSE Keeping
      PROVE  BeamInv'
  <2> DEFINE n == Number(ir.t)
             high == PositionOf((byte * Low + (n % Low)) % AddressSize)
             low == PositionOf(n - (n % Low) + (byte % Low))
  <2>1. high \in Position /\ low \in Position
    BY MCScrollAssumption, AddressType
  <2>2. ir' = IF ir.w THEN [v |-> low, t |-> low, w |-> FALSE]
              ELSE [ir EXCEPT !.t = high, !.w = TRUE]
    BY <1>7 DEF WriteAddress
  <2> HIDE DEF high, low
  <2>3. CASE ir.w
    <3>1. ir' = [v |-> low, t |-> low, w |-> FALSE]
      BY <2>2, <2>3
    <3> QED
      BY <1>7, <2>1, <2>3, <3>1, AccessKeepsBeam DEF WriteAddress, SetsIr, CpuCycle, CycleEnds, beamVars
  <2>4. CASE ~ir.w
    <3>1. ir' = [v |-> ir.v, t |-> high, w |-> TRUE]
      BY <2>2, <2>4
    <3> QED
      BY <1>7, <2>1, <2>4, <3>1, AccessKeepsBeam DEF WriteAddress, SetsIr, CpuCycle, CycleEnds, beamVars, Keeping
  <2> QED
    BY <2>3, <2>4
<1> DEFINE moved == increment_v(ir.v, vram_increment)
<1>8. moved \in Position
  BY IncrementType
<1> HIDE DEF moved
<1>9. CASE ReadData /\ KeepingUnlessMoved
  <2>1. AnyCycle /\ Reads(1, Seen, FALSE)
    BY <1>9 DEF ReadData
  <2>2. transfer' \in Nat /\ UNCHANGED <<scanline, x>>
    BY <2>1 DEF AnyCycle, CycleEnds, beamVars
  <2> QED
    BY <1>9, <2>1, <2>2, ReadsKeepBeam
<1>10. CASE WriteData /\ hori' = None /\ vert' = None
  <2>1. ir' = [ir EXCEPT !.v = moved]
    BY <1>10 DEF WriteData, moved
  <2>2. ir' = [v |-> moved, t |-> ir.t, w |-> ir.w]
    BY <2>1
  <2> QED
    BY <1>8, <1>10, <2>2, AccessKeepsBeam DEF WriteData, SetsIr, CpuCycle, CycleEnds, beamVars
<1>11. ASSUME NEW page, NEW repeated, StartTransfer(page, repeated), KeepingUnlessMoved
       PROVE  BeamInv'
  <2> DEFINE reads == (IF page = "registers" THEN PageReads ELSE 0)
                      + (IF repeated = "$2007" THEN 1 ELSE 0)
  <2>1. reads \in Nat /\ Transfers \subseteq Nat
    BY ScrollAssumption
  <2>2. /\ CycleEnds /\ transfer' \in Transfers
        /\ Reads(reads, scanline, page = "registers" \/ repeated = "$2002")
    BY <1>11 DEF StartTransfer
  <2> HIDE DEF reads
  <2> QED
    BY <1>11, <2>1, <2>2, ReadsKeepBeam DEF CycleEnds, beamVars
<1>12. CASE UNCHANGED MCvars
  BY <1>12, AccessKeepsBeam DEF MCvars, vars, beamVars
<1> QED
  BY <1>1, <1>2, <1>3, <1>4, <1>5, <1>6, <1>7, <1>9, <1>10, <1>11, <1>12 DEF MCNext

LEMMA InitBeamInv ==
  ASSUME MCInit
  PROVE  BeamInv
<1>1. PICK t \in Scrolls : ir = [v |-> t, t |-> t, w |-> FALSE]
  BY DEF MCInit
<1>2. t \in Position
  BY MCScrollAssumption
<1>3. Typed
  BY <1>1, <1>2, BeamSizes, Sizes DEF MCInit, Typed
<1>4. Across /\ Down
  BY DEF MCInit, Across, Down
<1> QED
  BY <1>3, <1>4 DEF BeamInv

(* Through every frame, of either length, whatever the geometry and        *)
(* however the program writes $2000 and $2005, v names the tile and the    *)
(* line of the beam in the scroll copied last, until an access of $2006 or *)
(* $2007, rendering turned off or a sprite transfer that passes a dot      *)
(* which moves v parts them.                                               *)
THEOREM ScrollWhereBeamIs == MCSpec => []ScrollFollowsBeam
<1>1. MCInit => BeamInv
  BY InitBeamInv
<1>2. BeamInv /\ [MCNext]_MCvars => BeamInv'
  BY NextBeamInv
<1>3. BeamInv => ScrollFollowsBeam
  <2> SUFFICES ASSUME BeamInv, Rendered(scanline)
               PROVE  /\ hori # None => Column(ir.v, 0) = Column(hori, Tiles)
                      /\ vert # None => Line(ir.v, 0) = Line(vert, Lines)
    BY DEF ScrollFollowsBeam
  <2>1. Tiles = TilesAt(x)
    BY DEF Tiles, TilesAt
  <2> QED
    BY <2>1 DEF BeamInv, Across, Down
<1> QED
  BY <1>1, <1>2, <1>3, PTL DEF MCSpec

-----------------------------------------------------------------------------
(* The session between the window and the emulator                         *)

queue == channel.queue

IsPause(message) == message.kind = "Pause" /\ message.value

(* A request for a dump follows a pause, in the channel or before it.      *)
DumpsFollowPause ==
  \A k \in 1 .. Len(queue) :
    queue[k].kind = "Debug" => IF k = 1 THEN emulator.paused ELSE IsPause(queue[k - 1])

(* The window is about to ask for a dump right after it sent the pause.    *)
PauseIsLast ==
  window.pc = "debug" => IF Len(queue) = 0 THEN emulator.paused ELSE IsPause(queue[Len(queue)])

(* The channel dropped no pause.                                           *)
PausesKept == "Pause" \notin missed

IInv == SessionTypeOK /\ (PausesKept => DumpsFollowPause /\ PauseIsLast)

-----------------------------------------------------------------------------
(* The types                                                               *)

WindowState ==
  [pc : {"idle", "debug", "create", "write"}, is_paused : BOOLEAN,
   all_enabled : BOOLEAN, selected : Game]

EmulatorState ==
  [pc : {"new", "configure", "receive", "run", "dead"}, rom_info : Game,
   running : Game, reboot : BOOLEAN, paused : BOOLEAN, sound : BOOLEAN]

LEMMA FirstIsGame == First \in Game
BY SessionAssumption DEF Game

LEMMA Messages ==
  /\ \A rom \in Game : [kind |-> "Reboot", rom |-> rom] \in Message
  /\ \A value \in BOOLEAN : [kind |-> "Pause", value |-> value] \in Message
  /\ \A value \in BOOLEAN : [kind |-> "Sound", value |-> value] \in Message
  /\ [kind |-> "Debug"] \in Message
BY DEF Message

Kinds == {"Reboot", "Pause", "Sound", "Debug"}

LEMMA KindOfMessage ==
  ASSUME NEW message \in Message
  PROVE  message.kind \in Kinds /\ (message.kind = "Reboot" => message.rom \in Game)
BY DEF Message, Kinds

LEMMA SendFacts ==
  ASSUME SessionTypeOK, NEW message \in Message, Send(message)
  PROVE  /\ channel'.queue \in Seq(Message) /\ Len(channel'.queue) <= Capacity
         /\ channel'.lagged \in BOOLEAN /\ missed' \subseteq Kinds /\ asked' \in Game
         /\ missed \subseteq missed'
         /\ \/ channel'.queue = Append(queue, message)
            \/ /\ queue # <<>> /\ queue[1].kind \in missed'
               /\ channel'.queue = Append(Tail(queue), message)
<1>. DEFINE full == Len(queue) = Capacity
            kept == IF full THEN Tail(queue) ELSE queue
<1>1. /\ queue \in Seq(Message) /\ Len(queue) <= Capacity /\ channel.lagged \in BOOLEAN
      /\ missed \subseteq Kinds /\ Len(queue) \in Nat /\ Capacity \in Nat /\ Capacity > 0
  BY SessionAssumption DEF SessionTypeOK, queue, Kinds
<1>2. /\ channel' = [queue |-> Append(kept, message), lagged |-> channel.lagged \/ full]
      /\ missed' = missed \union Dropped(queue)
  BY Zenon DEF Send, queue
<1>3. kept \in Seq(Message) /\ Len(kept) \in Nat /\ Len(kept) < Capacity
  <2>1. CASE full
    <3>1. queue # <<>>
      BY <1>1, <2>1
    <3>. QED BY <1>1, <2>1, <3>1
  <2>2. CASE ~full
    BY <1>1, <2>2
  <2>. QED BY <2>1, <2>2
<1>4. \/ Dropped(queue) = {} /\ kept = queue
      \/ /\ queue # <<>> /\ Dropped(queue) = {queue[1].kind} /\ queue[1].kind \in Kinds
         /\ kept = Tail(queue)
  <2>1. CASE full
    <3>1. queue # <<>> /\ queue[1] \in Message
      BY <1>1, <2>1
    <3>. QED BY <2>1, <3>1, KindOfMessage DEF Dropped
  <2>2. CASE ~full
    BY <2>2 DEF Dropped
  <2>. QED BY <2>1, <2>2
<1>5. asked' \in Game
  <2>1. \/ asked' = message.rom /\ message.kind = "Reboot"
        \/ asked' = emulator.rom_info
        \/ asked' = asked
    BY DEF Send
  <2>. QED BY <2>1, KindOfMessage DEF SessionTypeOK
<1>. HIDE DEF kept, full
<1>6. Append(kept, message) \in Seq(Message) /\ Len(Append(kept, message)) = Len(kept) + 1
  BY <1>3
<1>7. channel'.queue = Append(kept, message) /\ channel'.lagged = (channel.lagged \/ full)
  BY <1>2
<1>8. channel'.lagged \in BOOLEAN
  BY <1>7, Zenon
<1>9. Len(channel'.queue) <= Capacity
  BY <1>1, <1>3, <1>6, <1>7
<1>10. missed' \subseteq Kinds /\ missed \subseteq missed'
  BY <1>1, <1>2, <1>4
<1>11. \/ channel'.queue = Append(queue, message)
       \/ /\ queue # <<>> /\ queue[1].kind \in missed'
          /\ channel'.queue = Append(Tail(queue), message)
  BY <1>2, <1>4, <1>7
<1>. QED BY <1>5, <1>6, <1>7, <1>8, <1>9, <1>10, <1>11

LEMMA AfterFacts ==
  ASSUME NEW e \in EmulatorState, NEW message \in Message
  PROVE  After(e, message) \in EmulatorState
<1>. USE DEF EmulatorState
<1>1. CASE message.kind = "Reboot"
  <2>1. message.rom \in Game
    BY <1>1 DEF Message
  <2>2. After(e, message) = [e EXCEPT !.reboot = TRUE, !.paused = FALSE, !.rom_info = message.rom]
    BY <1>1 DEF After
  <2>. QED BY <2>1, <2>2
<1>2. CASE message.kind = "Pause"
  <2>1. message.value \in BOOLEAN
    BY <1>2 DEF Message
  <2>2. After(e, message) = [e EXCEPT !.paused = message.value]
    BY <1>2 DEF After
  <2>. QED BY <2>1, <2>2
<1>3. CASE message.kind = "Sound"
  <2>1. message.value \in BOOLEAN
    BY <1>3 DEF Message
  <2>2. After(e, message) = [e EXCEPT !.sound = message.value]
    BY <1>3 DEF After
  <2>. QED BY <2>1, <2>2
<1>4. CASE message.kind = "Debug"
  BY <1>4 DEF After
<1>5. message.kind \in {"Reboot", "Pause", "Sound", "Debug"}
  BY DEF Message
<1>. QED BY <1>1, <1>2, <1>3, <1>4, <1>5

LEMMA AfterPause ==
  ASSUME NEW e \in EmulatorState, NEW message \in Message, IsPause(message)
  PROVE  After(e, message).paused
<1>1. After(e, message) = [e EXCEPT !.paused = message.value]
  BY DEF After, IsPause
<1>. QED BY <1>1 DEF EmulatorState, IsPause

-----------------------------------------------------------------------------
(* The window                                                              *)

(* What a handler does not touch.                                          *)
LEMMA SendKeeps ==
  ASSUME SessionTypeOK, NEW message \in Message, Send(message), UNCHANGED emulator,
         window' \in WindowState, config' \in [sound : BOOLEAN, whole : BOOLEAN],
         handled' \in 0 .. Handlers, UNCHANGED raced
  PROVE  SessionTypeOK'
BY SendFacts DEF SessionTypeOK, WindowState, Kinds

(* A request that a drop leaves in front had its pause dropped.            *)
LEMMA SendOrder ==
  ASSUME SessionTypeOK, NEW message \in Message, Send(message), UNCHANGED emulator,
         PausesKept => DumpsFollowPause,
         message.kind = "Debug" /\ PausesKept =>
           IF Len(queue) = 0 THEN emulator.paused ELSE IsPause(queue[Len(queue)])
  PROVE  /\ PausesKept' => DumpsFollowPause'
         /\ PausesKept' => queue' # <<>> /\ queue'[Len(queue')] = message
<1>. SUFFICES ASSUME PausesKept'
     PROVE  DumpsFollowPause' /\ Len(queue') # 0 /\ queue'[Len(queue')] = message
  BY DEF queue
<1>. DEFINE n == Len(queue)
<1>1. /\ PausesKept /\ queue \in Seq(Message) /\ n \in Nat
      /\ \/ queue' = Append(queue, message)
         \/ queue # <<>> /\ ~IsPause(queue[1]) /\ queue' = Append(Tail(queue), message)
  BY SendFacts DEF SessionTypeOK, queue, PausesKept, IsPause
<1>2. \A k \in 1 .. n : queue[k].kind = "Debug" =>
        IF k = 1 THEN emulator.paused ELSE IsPause(queue[k - 1])
  BY <1>1 DEF DumpsFollowPause
<1>3. message.kind = "Debug" => IF n = 0 THEN emulator.paused ELSE IsPause(queue[n])
  BY <1>1
<1>4. CASE queue' = Append(queue, message)
  <2>1. /\ Len(queue') = n + 1 /\ queue'[n + 1] = message
        /\ \A k \in 1 .. n : queue'[k] = queue[k]
    BY <1>1, <1>4
  <2>2. DumpsFollowPause'
    <3>. SUFFICES ASSUME NEW k \in 1 .. n + 1, queue'[k].kind = "Debug"
         PROVE  IF k = 1 THEN emulator'.paused ELSE IsPause(queue'[k - 1])
      BY <2>1 DEF DumpsFollowPause, IsPause
    <3>. HIDE DEF n
    <3>1. CASE k \in 1 .. n
      <4>1. IF k = 1 THEN emulator.paused ELSE IsPause(queue[k - 1])
        BY <1>2, <2>1, <3>1
      <4>2. k # 1 => queue'[k - 1] = queue[k - 1]
        BY <1>1, <2>1, <3>1
      <4>. QED BY <4>1, <4>2
    <3>2. CASE k = n + 1
      <4>1. IF n = 0 THEN emulator.paused ELSE IsPause(queue[n])
        BY <1>3, <2>1, <3>2
      <4>2. k - 1 = n /\ (k = 1 <=> n = 0) /\ (n # 0 => queue'[n] = queue[n])
        BY <1>1, <2>1, <3>2
      <4>. QED BY <4>1, <4>2
    <3>. QED BY <1>1, <3>1, <3>2
  <2>3. Len(queue') # 0
    BY <1>1, <2>1
  <2>. QED BY <2>1, <2>2, <2>3
<1>5. CASE queue # <<>> /\ ~IsPause(queue[1]) /\ queue' = Append(Tail(queue), message)
  <2>1. /\ n > 0 /\ Len(queue') = n /\ queue'[n] = message
        /\ \A k \in 1 .. n - 1 : queue'[k] = queue[k + 1]
    BY <1>1, <1>5
  <2>2. DumpsFollowPause'
    <3>. SUFFICES ASSUME NEW k \in 1 .. n, queue'[k].kind = "Debug"
         PROVE  k # 1 /\ IsPause(queue'[k - 1])
      BY <2>1 DEF DumpsFollowPause, IsPause
    <3>. HIDE DEF n
    <3>1. CASE k \in 1 .. n - 1
      <4>1. queue'[k] = queue[k + 1] /\ k + 1 \in 1 .. n /\ k + 1 # 1 /\ (k + 1) - 1 = k
        BY <1>1, <2>1, <3>1
      <4>2. IsPause(queue[k])
        BY <1>2, <4>1
      <4>3. k # 1
        BY <1>5, <4>2
      <4>4. queue'[k - 1] = queue[k]
        BY <1>1, <2>1, <3>1, <4>3
      <4>. QED BY <4>2, <4>3, <4>4
    <3>2. CASE k = n
      <4>1. IsPause(queue[n])
        BY <1>3, <2>1, <3>2
      <4>2. n # 1
        BY <1>5, <4>1
      <4>3. n - 1 \in 1 .. n - 1 /\ queue'[n - 1] = queue[n]
        BY <1>1, <2>1, <4>2
      <4>. QED BY <3>2, <4>1, <4>2, <4>3
    <3>. QED BY <1>1, <3>1, <3>2
  <2>. QED BY <2>1, <2>2
<1>. QED BY <1>1, <1>4, <1>5

LEMMA WindowTypes ==
  ASSUME SessionTypeOK
  PROVE  /\ window \in WindowState
         /\ \A rom \in Game : [window EXCEPT !.selected = rom] \in WindowState
         /\ [window EXCEPT !.is_paused = ~@] \in WindowState
         /\ [window EXCEPT !.is_paused = TRUE, !.pc = "debug"] \in WindowState
         /\ [window EXCEPT !.all_enabled = ~@, !.pc = "create"] \in WindowState
         /\ [window EXCEPT !.pc = "write"] \in WindowState
         /\ [window EXCEPT !.pc = "idle"] \in WindowState
<1>1. window \in WindowState
  BY DEF SessionTypeOK, WindowState
<1>2. (~window.is_paused) \in BOOLEAN /\ (~window.all_enabled) \in BOOLEAN
  BY Zenon
<1>. QED BY <1>1, <1>2 DEF WindowState

LEMMA WindowStep ==
  ASSUME IInv, Window
  PROVE  IInv'
<1>1. /\ SessionTypeOK /\ window \in WindowState
      /\ config \in [sound : BOOLEAN, whole : BOOLEAN] /\ asked \in Game
      /\ handled \in 0 .. Handlers /\ Roms \subseteq Game
  BY WindowTypes DEF IInv, SessionTypeOK, Game
<1>2. ASSUME NEW message \in Message, Send(message), UNCHANGED <<emulator, raced>>,
             window' \in WindowState, config' \in [sound : BOOLEAN, whole : BOOLEAN],
             handled' \in 0 .. Handlers,
             message.kind = "Debug" => window.pc = "debug",
             window'.pc = "debug" => IsPause(message)
      PROVE  IInv'
  <2>1. SessionTypeOK'
    BY <1>1, <1>2, SendKeeps
  <2>2. message.kind = "Debug" /\ PausesKept =>
          IF Len(queue) = 0 THEN emulator.paused ELSE IsPause(queue[Len(queue)])
    BY <1>2 DEF IInv, PauseIsLast
  <2>3. /\ PausesKept' => DumpsFollowPause'
        /\ PausesKept' => queue' # <<>> /\ queue'[Len(queue')] = message
    BY <1>1, <1>2, <2>2, SendOrder DEF IInv
  <2>4. PausesKept' => PauseIsLast'
    <3>1. queue' \in Seq(Message)
      BY <2>1 DEF SessionTypeOK, queue
    <3>2. queue' # <<>> => Len(queue') # 0
      BY <3>1
    <3>. QED BY <1>2, <2>3, <3>2 DEF PauseIsLast, IsPause
  <2>. QED BY <2>1, <2>3, <2>4 DEF IInv
<1>3. ASSUME Nothing, UNCHANGED <<emulator, raced>>, window' \in WindowState,
             config' \in [sound : BOOLEAN, whole : BOOLEAN], handled' \in 0 .. Handlers,
             window'.pc # "debug"
      PROVE  IInv'
  <2>1. UNCHANGED <<channel, asked, missed>> /\ queue' = queue
    BY <1>3 DEF Nothing, queue
  <2>2. SessionTypeOK'
    BY <1>1, <1>3, <2>1 DEF SessionTypeOK, WindowState
  <2>3. DumpsFollowPause => DumpsFollowPause'
    BY <1>3, <2>1 DEF DumpsFollowPause
  <2>. QED BY <1>3, <2>1, <2>2, <2>3 DEF IInv, PauseIsLast, PausesKept
<1>4. ASSUME Handler
      PROVE  handled' \in 0 .. Handlers /\ UNCHANGED <<emulator, raced>> /\ window.pc = "idle"
  BY <1>1, <1>4, SessionAssumption DEF Handler
<1>5. CASE SelectRom
  <2>1. PICK rom \in Roms : window' = [window EXCEPT !.selected = rom]
    BY <1>5 DEF SelectRom
  <2>2. window' \in WindowState
    BY <1>1, <2>1, WindowTypes
  <2>3. window'.pc # "debug"
    BY <1>1, <1>4, <1>5, <2>1 DEF SelectRom, WindowState
  <2>. QED BY <1>1, <1>3, <1>4, <1>5, <2>2, <2>3 DEF SelectRom
<1>6. ASSUME Handler, NEW rom \in Game, BootRom(rom), window' \in WindowState,
             window'.pc = window.pc
      PROVE  IInv'
  <2>. DEFINE message == [kind |-> "Reboot", rom |-> rom]
  <2>1. message \in Message /\ message.kind # "Debug"
    BY Messages
  <2>2. Send(message) /\ config' = config
    BY <1>6 DEF BootRom
  <2>3. window'.pc # "debug"
    BY <1>4, <1>6
  <2>. HIDE DEF message
  <2>. QED BY <1>1, <1>2, <1>4, <1>6, <2>1, <2>2, <2>3
<1>7. CASE PressReboot
  <2>1. window.selected \in Game
    BY <1>1 DEF WindowState
  <2>. QED BY <1>1, <1>6, <1>7, <2>1 DEF PressReboot
<1>8. CASE PressRandom
  <2>1. PICK rom \in Roms : BootRom(rom) /\ window' = [window EXCEPT !.selected = rom]
    BY <1>8 DEF PressRandom
  <2>2. window' \in WindowState /\ window'.pc = window.pc /\ rom \in Game
    BY <1>1, <2>1, WindowTypes DEF WindowState
  <2>. QED BY <1>6, <1>8, <2>1, <2>2 DEF PressRandom
<1>9. CASE PressPause
  <2>. DEFINE message == [kind |-> "Pause", value |-> ~window.is_paused]
  <2>1. message \in Message /\ message.kind # "Debug"
    BY <1>1, Messages DEF WindowState
  <2>2. window' \in WindowState
    BY <1>1, <1>9, WindowTypes DEF PressPause
  <2>3. window'.pc # "debug"
    BY <1>1, <1>4, <1>9 DEF PressPause, WindowState
  <2>4. Send(message) /\ config' = config
    BY <1>9 DEF PressPause
  <2>. HIDE DEF message
  <2>. QED BY <1>1, <1>2, <1>4, <1>9, <2>1, <2>2, <2>3, <2>4 DEF PressPause
<1>10. CASE PressDebug
  <2>. DEFINE message == [kind |-> "Pause", value |-> TRUE]
  <2>1. message \in Message /\ message.kind # "Debug" /\ IsPause(message)
    BY Messages DEF IsPause
  <2>2. window' \in WindowState
    BY <1>1, <1>10, WindowTypes DEF PressDebug
  <2>3. Send(message) /\ config' = config
    BY <1>10 DEF PressDebug
  <2>. HIDE DEF message
  <2>. QED BY <1>1, <1>2, <1>4, <1>10, <2>1, <2>2, <2>3 DEF PressDebug
<1>11. CASE SendDebug
  <2>. DEFINE message == [kind |-> "Debug"]
  <2>1. message \in Message
    BY Messages
  <2>2. window' \in WindowState
    BY <1>1, <1>11, WindowTypes DEF SendDebug
  <2>3. window'.pc # "debug" /\ window.pc = "debug"
    BY <1>1, <1>11 DEF SendDebug, WindowState
  <2>4. Send(message) /\ UNCHANGED <<config, emulator, handled, raced>>
    BY <1>11 DEF SendDebug
  <2>. HIDE DEF message
  <2>. QED BY <1>1, <1>2, <2>1, <2>2, <2>3, <2>4
<1>12. CASE PressSound
  <2>. DEFINE message == [kind |-> "Sound", value |-> ~window.all_enabled]
  <2>1. message \in Message /\ message.kind # "Debug"
    BY <1>1, Messages DEF WindowState
  <2>2. window' \in WindowState
    BY <1>1, <1>12, WindowTypes DEF PressSound
  <2>3. window'.pc # "debug"
    BY <1>1, <1>12 DEF PressSound, WindowState
  <2>4. Send(message) /\ config' = config
    BY <1>12 DEF PressSound
  <2>. HIDE DEF message
  <2>. QED BY <1>1, <1>2, <1>4, <1>12, <2>1, <2>2, <2>3, <2>4 DEF PressSound
<1>13. CASE CreateConfig
  <2>1. window' \in WindowState
    BY <1>1, <1>13, WindowTypes DEF CreateConfig
  <2>2. window'.pc # "debug"
    BY <1>1, <1>13 DEF CreateConfig, WindowState
  <2>3. config' \in [sound : BOOLEAN, whole : BOOLEAN]
    BY <1>1, <1>13 DEF CreateConfig
  <2>. QED BY <1>1, <1>3, <1>13, <2>1, <2>2, <2>3 DEF CreateConfig
<1>14. CASE WriteConfig
  <2>1. window' \in WindowState
    BY <1>1, <1>14, WindowTypes DEF WriteConfig
  <2>2. window'.pc # "debug"
    BY <1>1, <1>14 DEF WriteConfig, WindowState
  <2>3. config' \in [sound : BOOLEAN, whole : BOOLEAN]
    BY <1>1, <1>14 DEF WriteConfig, WindowState
  <2>. QED BY <1>1, <1>3, <1>14, <2>1, <2>2, <2>3 DEF WriteConfig
<1>. QED BY <1>5, <1>7, <1>8, <1>9, <1>10, <1>11, <1>12, <1>13, <1>14 DEF Window

-----------------------------------------------------------------------------
(* The emulator                                                            *)

LEMMA EmulatorOnly ==
  ASSUME SessionTypeOK, EmulatorStep, emulator' \in EmulatorState,
         channel'.queue \in Seq(Message), Len(channel'.queue) <= Capacity,
         channel'.lagged \in BOOLEAN, raced' \in BOOLEAN
  PROVE  SessionTypeOK'
BY DEF SessionTypeOK, EmulatorState, EmulatorStep

(* A step that takes no message changes nothing in the order of messages.  *)
LEMMA OrderKept ==
  ASSUME IInv, EmulatorStep, queue' = queue, emulator'.paused = emulator.paused, SessionTypeOK'
  PROVE  IInv'
<1>1. window' = window /\ missed' = missed
  BY DEF EmulatorStep
<1>2. DumpsFollowPause => DumpsFollowPause'
  BY DEF DumpsFollowPause
<1>3. PauseIsLast => PauseIsLast'
  BY <1>1 DEF PauseIsLast
<1>. QED BY <1>1, <1>2, <1>3 DEF IInv, PausesKept

LEMMA ReceiveStep ==
  ASSUME IInv, Receive
  PROVE  IInv'
<1>. DEFINE n == Len(queue)
            message == Head(queue)
<1>1. /\ SessionTypeOK /\ emulator \in EmulatorState /\ queue \in Seq(Message) /\ queue # <<>>
      /\ channel.lagged \in BOOLEAN /\ raced \in BOOLEAN /\ n <= Capacity
  BY DEF IInv, SessionTypeOK, EmulatorState, Receive, queue
<1>2. /\ n \in Nat /\ n > 0 /\ message \in Message /\ message = queue[1]
      /\ Tail(queue) \in Seq(Message) /\ Len(Tail(queue)) = n - 1
      /\ \A k \in 1 .. n - 1 : Tail(queue)[k] = queue[k + 1]
  BY <1>1
<1>3. channel'.queue = Tail(queue) /\ channel'.lagged = channel.lagged
  <2>1. channel' = [channel EXCEPT !.queue = Tail(channel.queue)] /\ ~channel.lagged
    BY DEF Receive
  <2>2. DOMAIN channel = DOMAIN channel'
    BY <2>1
  <2>. QED BY <1>1, <2>1 DEF IInv, SessionTypeOK, queue
<1>4. emulator' = After(emulator, message) /\ EmulatorStep /\ raced' = raced
  BY DEF Receive, queue
<1>5. emulator' \in EmulatorState /\ (IsPause(message) => emulator'.paused)
  BY <1>1, <1>2, <1>4, AfterFacts, AfterPause
<1>6. SessionTypeOK'
  <2>1. n - 1 <= Capacity
    BY <1>1, <1>2, SessionAssumption
  <2>. QED BY <1>1, <1>2, <1>3, <1>4, <1>5, <2>1, EmulatorOnly
<1>7. queue' = Tail(queue) /\ window' = window /\ missed' = missed
  BY <1>3, <1>4 DEF queue, EmulatorStep
<1>. HIDE DEF message
<1>8. ASSUME DumpsFollowPause PROVE DumpsFollowPause'
  <2>. SUFFICES ASSUME NEW k \in 1 .. n - 1, queue'[k].kind = "Debug"
       PROVE  IF k = 1 THEN emulator'.paused ELSE IsPause(queue'[k - 1])
    BY <1>2, <1>7 DEF DumpsFollowPause, IsPause
  <2>1. queue'[k] = queue[k + 1] /\ k + 1 \in 1 .. n /\ k + 1 # 1 /\ (k + 1) - 1 = k
    BY <1>2, <1>7
  <2>2. IsPause(queue[k])
    BY <1>8, <2>1 DEF DumpsFollowPause
  <2>3. k # 1 => queue'[k - 1] = queue[k]
    BY <1>2, <1>7
  <2>. QED BY <1>2, <1>5, <2>2, <2>3
<1>9. ASSUME PauseIsLast PROVE PauseIsLast'
  <2>. SUFFICES ASSUME window.pc = "debug"
       PROVE  IF n - 1 = 0 THEN emulator'.paused ELSE IsPause(queue'[n - 1])
    BY <1>2, <1>7 DEF PauseIsLast, IsPause
  <2>1. IsPause(queue[n])
    BY <1>2, <1>9 DEF PauseIsLast
  <2>2. n - 1 # 0 => queue'[n - 1] = queue[n]
    BY <1>2, <1>7
  <2>. HIDE DEF n
  <2>3. n - 1 = 0 => n = 1
    <3>1. n \in Nat
      BY <1>2
    <3>. QED BY <3>1
  <2>. QED BY <1>2, <1>5, <2>1, <2>2, <2>3
<1>. QED BY <1>6, <1>7, <1>8, <1>9 DEF IInv, PausesKept

LEMMA EmulatorTurn ==
  ASSUME IInv, Emulator
  PROVE  IInv'
<1>1. /\ SessionTypeOK /\ emulator \in EmulatorState /\ channel.queue \in Seq(Message)
      /\ Len(channel.queue) <= Capacity /\ channel.lagged \in BOOLEAN /\ raced \in BOOLEAN
      /\ config \in [sound : BOOLEAN, whole : BOOLEAN] /\ Roms \subseteq Game
  BY DEF IInv, SessionTypeOK, EmulatorState, Game
<1>2. CASE New
  <2>1. /\ emulator' \in EmulatorState /\ emulator'.paused = emulator.paused
    BY <1>1, <1>2 DEF New, EmulatorState
  <2>2. channel' = channel /\ raced' = raced /\ EmulatorStep
    BY <1>2 DEF New
  <2>3. SessionTypeOK'
    BY <1>1, <2>1, <2>2, EmulatorOnly
  <2>. QED BY <2>1, <2>2, <2>3, OrderKept DEF queue
<1>3. CASE Configure
  <2>1. config.sound \in BOOLEAN /\ config.whole \in BOOLEAN
    BY <1>1
  <2>2. \/ emulator' = [emulator EXCEPT !.pc = "receive", !.sound = config.sound]
        \/ emulator' = [emulator EXCEPT !.pc = "dead"]
    BY <1>3, <2>1, Zenon DEF Configure
  <2>3. /\ emulator' \in EmulatorState /\ emulator'.paused = emulator.paused
    BY <1>1, <2>1, <2>2, ZenonT(40) DEF EmulatorState
  <2>4. channel' = channel /\ EmulatorStep /\ raced' = (raced \/ window.pc = "create")
    BY <1>3 DEF Configure
  <2>5. raced' \in BOOLEAN
    BY <2>4, Zenon
  <2>6. SessionTypeOK'
    BY <1>1, <2>3, <2>4, <2>5, EmulatorOnly
  <2>. QED BY <2>3, <2>4, <2>6, OrderKept DEF queue
<1>4. CASE Receive
  BY <1>4, ReceiveStep
<1>5. CASE Drained
  <2>1. /\ emulator' \in EmulatorState /\ emulator'.paused = emulator.paused
    BY <1>1, <1>5 DEF Drained, EmulatorState
  <2>2. channel' = [channel EXCEPT !.lagged = FALSE] /\ raced' = raced /\ EmulatorStep
    BY <1>5, Zenon DEF Drained
  <2>3. channel'.queue = channel.queue /\ channel'.lagged \in BOOLEAN
    BY <1>1, <2>2
  <2>4. SessionTypeOK'
    BY <1>1, <2>1, <2>2, <2>3, EmulatorOnly
  <2>. QED BY <2>1, <2>2, <2>3, <2>4, OrderKept DEF queue
<1>6. CASE Run
  <2>1. /\ emulator' \in EmulatorState /\ emulator'.paused = emulator.paused
    BY <1>1, <1>6 DEF Run, EmulatorState
  <2>2. channel' = channel /\ raced' = raced /\ EmulatorStep
    BY <1>6 DEF Run
  <2>3. SessionTypeOK'
    BY <1>1, <2>1, <2>2, EmulatorOnly
  <2>. QED BY <2>1, <2>2, <2>3, OrderKept DEF queue
<1>. QED BY <1>2, <1>3, <1>4, <1>5, <1>6 DEF Emulator

-----------------------------------------------------------------------------
(* Theorems                                                                *)

LEMMA InitInv == Init => IInv
<1>. SUFFICES ASSUME Init PROVE IInv
  OBVIOUS
<1>1. channel.queue = <<>> /\ Len(channel.queue) = 0 /\ channel.lagged = FALSE
  BY DEF Init
<1>2. config \in [sound : BOOLEAN, whole : BOOLEAN] /\ config.sound \in BOOLEAN
  BY DEF Init
<1>3. /\ window = [pc |-> "idle", is_paused |-> FALSE, all_enabled |-> config.sound,
                   selected |-> Default]
      /\ emulator = [pc |-> "new", rom_info |-> First, running |-> First,
                     reboot |-> FALSE, paused |-> FALSE, sound |-> TRUE]
  BY DEF Init
<1>4. Default \in Game
  BY DEF Game
<1>5. window \in WindowState /\ emulator \in EmulatorState
  BY <1>2, <1>3, <1>4, FirstIsGame DEF WindowState, EmulatorState
<1>6. SessionTypeOK
  <2>1. channel.queue \in Seq(Message) /\ Len(channel.queue) <= Capacity
    BY <1>1, SessionAssumption
  <2>2. channel.lagged \in BOOLEAN
    BY <1>1
  <2>3. handled \in 0 .. Handlers /\ missed \subseteq Kinds /\ raced \in BOOLEAN /\ asked \in Game
    <3>1. handled = 0 /\ missed = {} /\ raced = FALSE /\ asked = First
      BY DEF Init
    <3>2. 0 \in 0 .. Handlers
      BY SessionAssumption
    <3>. QED BY <3>1, <3>2, FirstIsGame
  <2>. QED BY <1>2, <1>5, <2>1, <2>2, <2>3, Zenon DEF SessionTypeOK, WindowState, EmulatorState, Kinds
<1>7. DumpsFollowPause
  BY <1>1 DEF DumpsFollowPause, queue
<1>8. PauseIsLast
  BY <1>3 DEF PauseIsLast
<1>. QED BY <1>6, <1>7, <1>8 DEF IInv

LEMMA StepInv == IInv /\ [Next]_sessionVars => IInv'
<1>1. IInv /\ UNCHANGED sessionVars => IInv'
  BY DEF IInv, sessionVars, SessionTypeOK, DumpsFollowPause, PauseIsLast, PausesKept,
     queue
<1>. QED BY <1>1, WindowStep, EmulatorTurn DEF Next

LEMMA Invariance == Spec => []IInv
BY InitInv, StepInv, PTL DEF Spec

(* The channel never keeps more messages than its capacity, and both       *)
(* threads only ever hold games and switches of their kind.                *)
THEOREM TypeCorrect == Spec => []SessionTypeOK
<1>1. IInv => SessionTypeOK
  BY DEF IInv
<1>. QED BY <1>1, Invariance, PTL

(* The state of a running emulator is not dumped: the pause that goes with *)
(* a request is received right before it, unless the channel dropped one   *)
(* (the button of nes_vizia.rs, launch_emulator).                          *)
THEOREM DumpsOnlyPaused == Spec => DumpsPaused
<1>1. IInv /\ Receive /\ Head(channel.queue).kind = "Debug" =>
        emulator.paused \/ "Pause" \in missed
  <2>. SUFFICES ASSUME IInv, Receive, Head(channel.queue).kind = "Debug",
                      "Pause" \notin missed
       PROVE  emulator.paused
    OBVIOUS
  <2>1. queue \in Seq(Message) /\ queue # <<>>
    BY DEF IInv, SessionTypeOK, Receive, queue
  <2>2. 1 \in 1 .. Len(queue) /\ queue[1].kind = "Debug"
    BY <2>1 DEF queue
  <2>. QED BY <2>2 DEF IInv, DumpsFollowPause, PausesKept
<1>2. IInv /\ [Next]_sessionVars =>
        [Receive /\ Head(channel.queue).kind = "Debug"
           => emulator.paused \/ "Pause" \in missed]_sessionVars
  BY <1>1
<1>. QED BY <1>2, Invariance, PTL DEF Spec, DumpsPaused

=============================================================================
