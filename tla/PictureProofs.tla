--------------------------- MODULE PictureProofs ---------------------------
(***************************************************************************)
(* Theorems about PpuPicture, for every size of the picture and of a tile, *)
(* every length of a line and every moment the program uses a register at: *)
(* first of the background, then of the sprites.                           *)
(***************************************************************************)
EXTENDS PpuPicture, FiniteSetTheorems, WellFoundedInduction, TLAPS

-----------------------------------------------------------------------------
(* Arithmetic.  Quotient and remainder are unique. *)
LEMMA QuotientIs ==
  ASSUME NEW n, n \in Int, NEW d, d \in Nat \ {0}, NEW q, q \in Int, NEW r, r \in Int,
         n = d * q + r, 0 <= r, r < d
  PROVE  n \div d = q /\ n % d = r
<1>1. /\ n = d * (n \div d) + (n % d) /\ 0 <= n % d /\ n % d < d
      /\ n \div d \in Int /\ n % d \in Int
  OBVIOUS
<1>2. d * (q - (n \div d)) = (n % d) - r
  BY <1>1
<1>3. ~(q - (n \div d) >= 1)
  BY <1>1, <1>2
<1>4. ~(q - (n \div d) <= -1)
  BY <1>1, <1>2
<1> QED BY <1>1, <1>3, <1>4

LEMMA Quotient ==
  ASSUME NEW n \in Int, NEW d \in Nat \ {0}
  PROVE  /\ n \div d \in Int /\ n % d \in Int /\ 0 <= n % d /\ n % d < d
         /\ n = d * (n \div d) + (n % d)
         /\ 0 <= n => 0 <= n \div d
<1>1. /\ n = d * (n \div d) + (n % d) /\ 0 <= n % d /\ n % d < d
      /\ n \div d \in Int /\ n % d \in Int
  OBVIOUS
<1>2. 0 <= n => ~(n \div d <= -1)
  BY <1>1
<1> QED BY <1>1, <1>2

LEMMA Product ==
  ASSUME NEW a \in Int, NEW b \in Int, NEW c \in Nat, a <= b
  PROVE  a * c <= b * c
<1>1. (b - a) \in Nat /\ (b - a) * c \in Nat
  OBVIOUS
<1>2. (b - a) * c = b * c - a * c
  OBVIOUS
<1>3. a * c \in Int /\ b * c \in Int
  OBVIOUS
<1> QED BY <1>1, <1>2, <1>3

-----------------------------------------------------------------------------
(* An address has fields, and is made of them. *)
Address(x, y, r, l, f, u) ==
  x + y * RowUnit + r * NameX + l * NameY + f * FineUnit + u * (TILE * FineUnit)

NameAt(x, y, r, l) == x + y * RowUnit + r * NameX + l * NameY

LEMMA Sizes ==
  /\ TILE \in Nat /\ TILE >= 2 /\ COLS \in Nat \ {0} /\ ROWS \in Nat \ {0}
  /\ COARSE_Y \in Nat /\ ROWS < COARSE_Y /\ RowUnit = COLS
  /\ NameX = COLS * COARSE_Y /\ NameX \in Nat \ {0}
  /\ NameY = 2 * NameX /\ FineUnit = 4 * NameX
<1>1. /\ TILE \in Nat /\ TILE >= 2 /\ COLS \in Nat \ {0} /\ ROWS \in Nat \ {0}
      /\ COARSE_Y \in Nat /\ ROWS < COARSE_Y
  BY AddressAssumption
<1>2. COLS * COARSE_Y \in Nat /\ COLS * COARSE_Y # 0
  BY <1>1
<1> QED BY <1>1, <1>2 DEF RowUnit, NameX, NameY, FineUnit

LEMMA FieldsOf ==
  ASSUME NEW x, x \in 0 .. COLS - 1, NEW y, y \in 0 .. COARSE_Y - 1,
         NEW r, r \in {0, 1}, NEW l, l \in {0, 1}, NEW f, f \in 0 .. TILE - 1,
         NEW u, u \in Nat, NEW v, v = Address(x, y, r, l, f, u)
  PROVE  /\ v \in Nat
         /\ CoarseX(v) = x /\ CoarseY(v) = y /\ Right(v) = r /\ Lower(v) = l
         /\ FineY(v) = f
         /\ NameTableByte(v) = NameAt(x, y, r, l)
<1> DEFINE tu == TILE * u
           q4 == f + tu
           q3 == l + 2 * q4
           q2 == r + 2 * q3
           q1 == y + COARSE_Y * q2
           low == x + y * COLS
<1>1. /\ x \in Nat /\ y \in Nat /\ r \in Nat /\ l \in Nat /\ f \in Nat
      /\ x < COLS /\ y <= COARSE_Y - 1 /\ y < COARSE_Y /\ r < 2 /\ l < 2 /\ f < TILE
  BY Sizes
<1>2. tu \in Nat /\ q4 \in Nat /\ q3 \in Nat /\ q2 \in Nat
  BY <1>1, Sizes
<1>3. q1 \in Nat
  <2> HIDE DEF q2
  <2> QED BY <1>1, <1>2, Sizes
<1>4. low \in Nat /\ low < NameX
  <2>1. y * COLS <= (COARSE_Y - 1) * COLS
    BY <1>1, Product, Sizes
  <2>2. (COARSE_Y - 1) * COLS = NameX - COLS
    BY Sizes
  <2>3. y * COLS \in Nat
    BY <1>1, Sizes
  <2> QED BY <1>1, <2>1, <2>2, <2>3, Sizes
<1>5. v = low + NameX * q2
  <2>1. v = x + y * COLS + r * NameX + l * (2 * NameX) + f * (4 * NameX)
              + u * (TILE * (4 * NameX))
    BY Sizes DEF Address
  <2>2. u * (TILE * (4 * NameX)) = 4 * (NameX * tu)
    BY Sizes
  <2>3. NameX * q2 = r * NameX + l * (2 * NameX) + f * (4 * NameX) + 4 * (NameX * tu)
    <3> HIDE DEF tu
    <3> QED BY <1>1, <1>2, Sizes
  <2> HIDE DEF tu, q2
  <2>4. NameX * tu \in Nat /\ NameX * q2 \in Nat
    BY <1>2, Sizes
  <2> QED BY <1>1, <2>1, <2>2, <2>3, <2>4, Sizes
<1>6. v = COLS * q1 + x
  <2>1. COLS * q1 = y * COLS + NameX * q2
    <3> HIDE DEF q2
    <3> QED BY <1>1, <1>2, Sizes
  <2> HIDE DEF q1, q2
  <2>2. NameX * q2 \in Nat /\ y * COLS \in Nat
    BY <1>1, <1>2, Sizes
  <2> QED BY <1>1, <1>5, <2>1, <2>2
<1>7. v \in Nat
  <2> HIDE DEF q2, low
  <2>1. NameX * q2 \in Nat
    BY <1>2, Sizes
  <2> QED BY <1>4, <1>5, <2>1
<1>8. CoarseX(v) = x /\ v \div COLS = q1
  <2> HIDE DEF q1
  <2> QED BY <1>1, <1>3, <1>6, <1>7, QuotientIs, Sizes DEF CoarseX
<1>9. CoarseY(v) = y
  <2> HIDE DEF q2
  <2>1. q1 % COARSE_Y = y
    BY <1>1, <1>2, <1>3, QuotientIs, Sizes
  <2> QED BY <1>8, <2>1, Sizes DEF CoarseY
<1>10. v \div NameX = q2
  <2> HIDE DEF q2, low
  <2> QED BY <1>2, <1>4, <1>5, <1>7, QuotientIs, Sizes
<1>11. Right(v) = r
  <2> HIDE DEF q3
  <2> QED BY <1>1, <1>2, <1>10 DEF Right
<1>12. low + r * NameX \in Nat /\ low + r * NameX < NameY
       /\ v = NameY * q3 + (low + r * NameX)
  <2>1. r * NameX = IF r = 1 THEN NameX ELSE 0
    BY Sizes
  <2>2. NameX * q2 = r * NameX + NameY * q3
    <3> HIDE DEF q3
    <3> QED BY <1>1, <1>2, Sizes
  <2> HIDE DEF q2, q3, low
  <2>3. NameY * q3 \in Nat
    BY <1>2, Sizes
  <2> QED BY <1>4, <1>5, <2>1, <2>2, <2>3, Sizes
<1>13. Lower(v) = l
  <2> DEFINE rest == low + r * NameX
  <2>1. rest \in Nat /\ rest < NameY /\ v = NameY * q3 + rest
    BY <1>12
  <2> HIDE DEF q3, rest
  <2>2. v \div NameY = q3
    BY <1>2, <1>7, <2>1, QuotientIs, Sizes
  <2> HIDE DEF q4
  <2>3. q3 = l + 2 * q4
    BY DEF q3
  <2> QED BY <1>1, <1>2, <2>2, <2>3 DEF Lower
<1>14. low + r * NameX + l * NameY \in Nat /\ low + r * NameX + l * NameY < FineUnit
       /\ v = FineUnit * q4 + (low + r * NameX + l * NameY)
  <2> DEFINE rest == low + r * NameX
  <2>1. rest \in Nat /\ rest < NameY /\ v = NameY * q3 + rest
    BY <1>12
  <2>2. l * NameY = IF l = 1 THEN NameY ELSE 0
    BY Sizes
  <2>3. NameY * q3 = l * NameY + FineUnit * q4
    <3> HIDE DEF q4
    <3> QED BY <1>1, <1>2, Sizes
  <2>4. low + r * NameX + l * NameY = rest + l * NameY
    OBVIOUS
  <2> HIDE DEF q3, q4, rest, low
  <2>5. FineUnit * q4 \in Nat
    BY <1>2, Sizes
  <2>6. rest + l * NameY \in Nat /\ rest + l * NameY < FineUnit
        /\ v = FineUnit * q4 + (rest + l * NameY)
    BY <2>1, <2>2, <2>3, <2>5, Sizes
  <2> QED BY <2>4, <2>6
<1>15. v \div FineUnit = q4 /\ NameTableByte(v) = low + r * NameX + l * NameY
  <2> DEFINE rest == low + r * NameX + l * NameY
  <2> HIDE DEF q4, rest
  <2> QED BY <1>2, <1>7, <1>14, QuotientIs, Sizes DEF NameTableByte, rest
<1>16. FineY(v) = f
  <2>1. q4 = TILE * u + f
    BY <1>1, <1>2
  <2> HIDE DEF q4
  <2>2. q4 % TILE = f
    <3>1. TILE \in Nat \ {0} /\ q4 \in Int /\ u \in Int /\ f \in Int /\ 0 <= f
      BY <1>1, <1>2, Sizes
    <3> QED BY ONLY <1>1, <2>1, <3>1, QuotientIs
  <2> QED BY <1>15, <2>2 DEF FineY
<1>17. NameTableByte(v) = NameAt(x, y, r, l)
  BY <1>15, Sizes DEF NameAt
<1> QED BY <1>7, <1>8, <1>9, <1>11, <1>13, <1>16, <1>17

(* Every address is made of fields. *)
LEMMA IsAddress ==
  ASSUME NEW v \in Nat
  PROVE  \E x \in 0 .. COLS - 1, y \in 0 .. COARSE_Y - 1, r \in {0, 1}, l \in {0, 1},
            f \in 0 .. TILE - 1, u \in Nat : v = Address(x, y, r, l, f, u)
<1> DEFINE q1 == v \div COLS
           q2 == q1 \div COARSE_Y
           q3 == q2 \div 2
           q4 == q3 \div 2
           u  == q4 \div TILE
           x == v % COLS
           y == q1 % COARSE_Y
           r == q2 % 2
           l == q3 % 2
           f == q4 % TILE
<1>1. x \in 0 .. COLS - 1 /\ q1 \in Nat /\ v = COLS * q1 + x
  BY Quotient, Sizes
<1> HIDE DEF q1, x
<1>2. y \in 0 .. COARSE_Y - 1 /\ q2 \in Nat /\ q1 = COARSE_Y * q2 + y
  BY <1>1, Quotient, Sizes
<1> HIDE DEF q2, y
<1>3. r \in {0, 1} /\ q3 \in Nat /\ q2 = 2 * q3 + r
  BY <1>2
<1> HIDE DEF q3, r
<1>4. l \in {0, 1} /\ q4 \in Nat /\ q3 = 2 * q4 + l
  BY <1>3
<1> HIDE DEF q4, l
<1>5. f \in 0 .. TILE - 1 /\ u \in Nat /\ q4 = TILE * u + f
  BY <1>4, Quotient, Sizes
<1> HIDE DEF u, f
<1>6. x \in Int /\ y \in Int /\ r \in Int /\ l \in Int /\ f \in Int
  BY <1>1, <1>2, <1>3, <1>4, <1>5, Sizes
<1>7. q2 = r + 2 * (l + 2 * (f + TILE * u))
  BY <1>3, <1>4, <1>5, <1>6, Sizes
<1>8. v = x + COLS * (y + COARSE_Y * (r + 2 * (l + 2 * (f + TILE * u))))
  BY <1>1, <1>2, <1>7, <1>6, Sizes
<1>9. x + COLS * (y + COARSE_Y * (r + 2 * (l + 2 * (f + TILE * u))))
        = x + y * COLS + r * (COLS * COARSE_Y) + l * (2 * (COLS * COARSE_Y))
          + f * (4 * (COLS * COARSE_Y)) + u * (TILE * (4 * (COLS * COARSE_Y)))
  BY <1>5, <1>6, Sizes
<1>10. v = Address(x, y, r, l, f, u)
  BY <1>8, <1>9, Sizes DEF Address
<1> QED BY <1>1, <1>2, <1>3, <1>4, <1>5, <1>10

-----------------------------------------------------------------------------
(* Where an address is in the four nametables: the column of its tile and  *)
(* the row of its pixels.                                                  *)
ColumnOf(v) == CoarseX(v) + Right(v) * COLS
RowOf(v)    == CoarseY(v) * TILE + FineY(v) + Lower(v) * HEIGHT

(* The same row, and the same column. *)
SameRow(v, w)    == CoarseY(w) = CoarseY(v) /\ FineY(w) = FineY(v) /\ Lower(w) = Lower(v)
SameColumn(v, w) == CoarseX(w) = CoarseX(v) /\ Right(w) = Right(v)

(* The number after n, around a circle of m. *)
After(n, m) == IF n = m - 1 THEN 0 ELSE n + 1

LEMMA FieldTypes ==
  ASSUME NEW v \in Nat
  PROVE  /\ CoarseX(v) \in 0 .. COLS - 1 /\ CoarseY(v) \in 0 .. COARSE_Y - 1
         /\ Right(v) \in {0, 1} /\ Lower(v) \in {0, 1} /\ FineY(v) \in 0 .. TILE - 1
<1>1. PICK x \in 0 .. COLS - 1, y \in 0 .. COARSE_Y - 1, r \in {0, 1}, l \in {0, 1},
           f \in 0 .. TILE - 1, u \in Nat : v = Address(x, y, r, l, f, u)
  BY IsAddress
<1> QED BY <1>1, FieldsOf

LEMMA XIncrement ==
  ASSUME NEW v \in Nat
  PROVE  /\ x_increment(v) \in Nat /\ SameRow(v, x_increment(v))
         /\ ColumnOf(x_increment(v)) = After(ColumnOf(v), 2 * COLS)
<1>1. PICK x \in 0 .. COLS - 1, y \in 0 .. COARSE_Y - 1, r \in {0, 1}, l \in {0, 1},
           f \in 0 .. TILE - 1, u \in Nat : v = Address(x, y, r, l, f, u)
  BY IsAddress
<1>2. /\ CoarseX(v) = x /\ CoarseY(v) = y /\ Right(v) = r /\ Lower(v) = l
      /\ FineY(v) = f
  BY <1>1, FieldsOf
<1> DEFINE w == x_increment(v)
<1>3. /\ y * RowUnit \in Int /\ l * NameY \in Int /\ f * FineUnit \in Int
      /\ u * (TILE * FineUnit) \in Int
  BY Sizes
<1>4. CASE x < COLS - 1
  <2>1. x + 1 \in 0 .. COLS - 1
    BY <1>4, Sizes
  <2>2. w = Address(x + 1, y, r, l, f, u)
    BY <1>1, <1>2, <1>3, <1>4, Sizes DEF x_increment, Address
  <2> HIDE DEF w
  <2>3. /\ w \in Nat /\ CoarseX(w) = x + 1 /\ CoarseY(w) = y /\ Right(w) = r
        /\ Lower(w) = l /\ FineY(w) = f
    BY <2>1, <2>2, FieldsOf
  <2>4. x + r * COLS # 2 * COLS - 1 /\ x + 1 + r * COLS = x + r * COLS + 1
    BY <1>4, Sizes
  <2> QED BY <1>2, <2>3, <2>4 DEF w, SameRow, ColumnOf, After
<1>5. CASE ~(x < COLS - 1)
  <2>1. x = COLS - 1 /\ 0 \in 0 .. COLS - 1 /\ 1 - r \in {0, 1}
    BY <1>5, Sizes
  <2>2. v - x = Address(0, y, r, l, f, u)
    BY <1>1, <1>3, Sizes DEF Address
  <2>3. Right(v - x) = r
    BY <2>1, <2>2, FieldsOf
  <2>4. w = Address(0, y, 1 - r, l, f, u)
    BY <1>2, <1>3, <1>5, <2>2, <2>3, Sizes DEF x_increment, Address, FlipX
  <2> HIDE DEF w
  <2>5. /\ w \in Nat /\ CoarseX(w) = 0 /\ CoarseY(w) = y /\ Right(w) = 1 - r
        /\ Lower(w) = l /\ FineY(w) = f
    BY <2>1, <2>4, FieldsOf
  <2>6. 0 + (1 - r) * COLS = After(x + r * COLS, 2 * COLS)
    BY <2>1, Sizes DEF After
  <2> QED BY <1>2, <2>5, <2>6 DEF w, SameRow, ColumnOf
<1> QED BY <1>4, <1>5

LEMMA RowNext ==
  ASSUME NEW y \in Nat, y < ROWS, NEW f \in 0 .. TILE - 1, NEW l \in {0, 1}
  PROVE  After(y * TILE + f + l * HEIGHT, 2 * HEIGHT)
           = IF f < TILE - 1 THEN y * TILE + (f + 1) + l * HEIGHT
             ELSE IF y < ROWS - 1 THEN (y + 1) * TILE + 0 + l * HEIGHT
             ELSE 0 * TILE + 0 + (1 - l) * HEIGHT
<1>1. /\ TILE \in Nat /\ TILE >= 2 /\ ROWS \in Nat \ {0} /\ y <= ROWS - 1
      /\ f \in Nat /\ f <= TILE - 1
  BY Sizes
<1>2. HEIGHT \in Nat /\ HEIGHT = ROWS * TILE
  BY <1>1 DEF HEIGHT
<1>3. l * HEIGHT = IF l = 1 THEN HEIGHT ELSE 0
  BY <1>2
<1>4. y * TILE \in Nat /\ y * TILE <= HEIGHT - TILE
  <2>1. y * TILE <= (ROWS - 1) * TILE
    BY <1>1, Product
  <2>2. (ROWS - 1) * TILE = HEIGHT - TILE
    BY <1>1, <1>2
  <2> QED BY <1>1, <2>1, <2>2
<1>5. CASE f < TILE - 1
  BY <1>1, <1>2, <1>3, <1>4, <1>5 DEF After
<1>6. CASE ~(f < TILE - 1) /\ y < ROWS - 1
  <2>1. y * TILE <= (ROWS - 2) * TILE
    BY <1>1, <1>6, Product
  <2>2. (ROWS - 2) * TILE = HEIGHT - TILE - TILE /\ (y + 1) * TILE = y * TILE + TILE
    BY <1>1, <1>2
  <2> QED BY <1>1, <1>2, <1>3, <1>4, <1>6, <2>1, <2>2 DEF After
<1>7. CASE ~(f < TILE - 1) /\ ~(y < ROWS - 1)
  <2>1. y * TILE = HEIGHT - TILE
    <3>1. y = ROWS - 1
      BY <1>1, <1>7
    <3> QED BY <1>1, <1>2, <3>1
  <2>2. (1 - l) * HEIGHT = IF l = 1 THEN 0 ELSE HEIGHT
    BY <1>2
  <2> QED BY <1>1, <1>2, <1>3, <1>7, <2>1, <2>2 DEF After
<1> QED BY <1>5, <1>6, <1>7

LEMMA YIncrement ==
  ASSUME NEW v \in Nat
  PROVE  /\ y_increment(v) \in Nat /\ SameColumn(v, y_increment(v))
         /\ CoarseY(v) < ROWS =>
              /\ CoarseY(y_increment(v)) < ROWS
              /\ RowOf(y_increment(v)) = After(RowOf(v), 2 * HEIGHT)
<1>1. PICK x \in 0 .. COLS - 1, y \in 0 .. COARSE_Y - 1, r \in {0, 1}, l \in {0, 1},
           f \in 0 .. TILE - 1, u \in Nat : v = Address(x, y, r, l, f, u)
  BY IsAddress
<1>2. /\ CoarseX(v) = x /\ CoarseY(v) = y /\ Right(v) = r /\ Lower(v) = l
      /\ FineY(v) = f
  BY <1>1, FieldsOf
<1> DEFINE w == y_increment(v)
           top == Address(x, y, r, l, 0, u)
           edge == Address(x, 0, r, l, 0, u)
<1>3. /\ x \in Int /\ y \in Nat /\ y * RowUnit \in Int /\ r * NameX \in Int
      /\ l * NameY \in Int /\ f * FineUnit \in Int
      /\ u * (TILE * FineUnit) \in Int /\ RowUnit \in Int /\ FineUnit \in Int
      /\ NameY \in Int
  BY Sizes
<1>4. 0 \in 0 .. TILE - 1 /\ 0 \in 0 .. COARSE_Y - 1 /\ 1 - l \in {0, 1}
  BY Sizes
<1>5. v - f * FineUnit = top /\ top - y * RowUnit = edge
  <2>1. 0 * FineUnit = 0 /\ 0 * RowUnit = 0
    BY <1>3
  <2> QED BY <1>1, <1>3, <2>1 DEF Address
<1>6. Lower(edge) = l
  BY <1>4, FieldsOf
<1>7. FlipY(edge) = Address(x, 0, r, 1 - l, 0, u)
  <2>1. (1 - l) * NameY = IF l = 0 THEN l * NameY + NameY ELSE l * NameY - NameY
    BY <1>3
  <2>2. 0 * FineUnit = 0 /\ 0 * RowUnit = 0
    BY <1>3
  <2> QED BY <1>3, <1>6, <2>1, <2>2 DEF FlipY, Address
<1>8. w = IF f < TILE - 1 THEN v + FineUnit
          ELSE IF y < ROWS - 1 THEN top + RowUnit
          ELSE IF y # COARSE_Y - 1 THEN FlipY(edge) ELSE edge
  BY <1>2, <1>5 DEF y_increment
<1> HIDE DEF w
<1>9. y < ROWS =>
        After(RowOf(v), 2 * HEIGHT)
           = IF f < TILE - 1 THEN y * TILE + (f + 1) + l * HEIGHT
             ELSE IF y < ROWS - 1 THEN (y + 1) * TILE + 0 + l * HEIGHT
             ELSE 0 * TILE + 0 + (1 - l) * HEIGHT
  BY <1>2, <1>3, RowNext DEF RowOf
<1>10. ASSUME NEW j, j \in 0 .. COARSE_Y - 1, NEW m, m \in {0, 1},
              NEW k, k \in 0 .. TILE - 1, w = Address(x, j, r, m, k, u)
       PROVE  /\ w \in Nat /\ SameColumn(v, w)
              /\ CoarseY(w) = j /\ RowOf(w) = j * TILE + k + m * HEIGHT
  BY <1>2, <1>10, FieldsOf DEF SameColumn, RowOf
<1>11. CASE f < TILE - 1
  <2>1. f + 1 \in 0 .. TILE - 1
    BY <1>11, Sizes
  <2>2. w = Address(x, y, r, l, f + 1, u)
    <3>1. (f + 1) * FineUnit = f * FineUnit + FineUnit
      BY Sizes
    <3> QED BY <1>1, <1>3, <1>8, <1>11, <3>1 DEF Address
  <2>3. /\ w \in Nat /\ SameColumn(v, w)
        /\ CoarseY(w) = y /\ RowOf(w) = y * TILE + (f + 1) + l * HEIGHT
    BY <1>10, <2>1, <2>2
  <2> QED BY <1>2, <1>9, <1>11, <2>3 DEF w
<1>12. CASE ~(f < TILE - 1) /\ y < ROWS - 1
  <2>1. y + 1 \in 0 .. COARSE_Y - 1 /\ y + 1 < ROWS /\ y < ROWS
    BY <1>12, Sizes
  <2>2. w = Address(x, y + 1, r, l, 0, u)
    <3>1. (y + 1) * RowUnit = y * RowUnit + RowUnit /\ 0 * FineUnit = 0
      BY Sizes
    <3> QED BY <1>1, <1>3, <1>8, <1>12, <3>1 DEF Address
  <2> QED BY <1>2, <1>4, <1>9, <1>10, <1>12, <2>1, <2>2 DEF w
<1>13. CASE ~(f < TILE - 1) /\ ~(y < ROWS - 1) /\ y # COARSE_Y - 1
  <2>1. w = Address(x, 0, r, 1 - l, 0, u) /\ 0 < ROWS
    BY <1>7, <1>8, <1>13, Sizes
  <2> QED BY <1>2, <1>4, <1>9, <1>10, <1>13, <2>1 DEF w
<1>14. CASE ~(f < TILE - 1) /\ ~(y < ROWS - 1) /\ y = COARSE_Y - 1
  <2>1. w = edge /\ ~(y < ROWS)
    BY <1>8, <1>14, Sizes
  <2> QED BY <1>2, <1>4, <1>10, <2>1 DEF w
<1> QED BY <1>11, <1>12, <1>13, <1>14

(* What the reloads copy. *)
LEMMA Reloads ==
  ASSUME NEW v \in Nat, NEW t \in Nat
  PROVE  /\ x_reload(v, t) \in Nat /\ y_reload(v, t) \in Nat
         /\ SameColumn(t, x_reload(v, t)) /\ SameRow(v, x_reload(v, t))
         /\ SameColumn(v, y_reload(v, t)) /\ SameRow(t, y_reload(v, t))
<1>1. PICK x \in 0 .. COLS - 1, y \in 0 .. COARSE_Y - 1, r \in {0, 1}, l \in {0, 1},
           f \in 0 .. TILE - 1, u \in Nat : v = Address(x, y, r, l, f, u)
  BY IsAddress
<1>2. PICK tx \in 0 .. COLS - 1, ty \in 0 .. COARSE_Y - 1, tr \in {0, 1}, tl \in {0, 1},
           tf \in 0 .. TILE - 1, tu \in Nat : t = Address(tx, ty, tr, tl, tf, tu)
  BY IsAddress
<1>3. /\ CoarseX(v) = x /\ CoarseY(v) = y /\ Right(v) = r /\ Lower(v) = l
      /\ FineY(v) = f
  BY <1>1, FieldsOf
<1>4. /\ CoarseX(t) = tx /\ CoarseY(t) = ty /\ Right(t) = tr /\ Lower(t) = tl
      /\ FineY(t) = tf
  BY <1>2, FieldsOf
<1>5. /\ x \in Int /\ y * RowUnit \in Int /\ r * NameX \in Int
      /\ l * NameY \in Int /\ f * FineUnit \in Int
      /\ u * (TILE * FineUnit) \in Int
      /\ tx \in Int /\ ty * RowUnit \in Int /\ tr * NameX \in Int
      /\ tl * NameY \in Int /\ tf * FineUnit \in Int
  BY Sizes
<1>6. x_reload(v, t) = Address(tx, y, tr, l, f, u)
  BY <1>1, <1>3, <1>4, <1>5 DEF x_reload, HorizontalPart, Address
<1>7. y_reload(v, t) = Address(x, ty, r, tl, tf, u)
  BY <1>1, <1>3, <1>4, <1>5 DEF y_reload, VerticalPart, Address
<1>8. /\ x_reload(v, t) \in Nat /\ SameColumn(t, x_reload(v, t))
      /\ SameRow(v, x_reload(v, t))
  BY <1>3, <1>4, <1>6, FieldsOf DEF SameColumn, SameRow
<1>9. /\ y_reload(v, t) \in Nat /\ SameColumn(v, y_reload(v, t))
      /\ SameRow(t, y_reload(v, t))
  BY <1>3, <1>4, <1>7, FieldsOf DEF SameColumn, SameRow
<1> QED BY <1>8, <1>9

(* The registers change the fields they are for. *)
LEMMA Writes ==
  ASSUME NEW t \in Nat
  PROVE  /\ \A right \in {0, 1}, lower \in {0, 1} :
              LET w == SelectTable(t, right, lower)
              IN  w \in Nat /\ AsPosition(w) = [AsPosition(t) EXCEPT !.right = right,
                                                                    !.lower = lower]
         /\ \A data \in 0 .. WIDTH - 1 :
              LET w == ScrollX(t, data)
              IN  w \in Nat
                  /\ AsPosition(w) = [AsPosition(t) EXCEPT !.column = data \div TILE]
         /\ \A data \in 0 .. COARSE_Y * TILE - 1 :
              LET w == ScrollY(t, data)
              IN  w \in Nat /\ AsPosition(w) = [AsPosition(t) EXCEPT !.y = data]
<1>1. PICK x \in 0 .. COLS - 1, y \in 0 .. COARSE_Y - 1, r \in {0, 1}, l \in {0, 1},
           f \in 0 .. TILE - 1, u \in Nat : t = Address(x, y, r, l, f, u)
  BY IsAddress
<1>2. /\ CoarseX(t) = x /\ CoarseY(t) = y /\ Right(t) = r /\ Lower(t) = l
      /\ FineY(t) = f
  BY <1>1, FieldsOf
<1>3. /\ x \in Int /\ y * RowUnit \in Int /\ r * NameX \in Int
      /\ l * NameY \in Int /\ f * FineUnit \in Int
      /\ u * (TILE * FineUnit) \in Int
  BY Sizes
<1>4. AsPosition(t) = [column |-> x, y |-> y * TILE + f, right |-> r, lower |-> l]
  BY <1>2 DEF AsPosition
<1>5. ASSUME NEW right \in {0, 1}, NEW lower \in {0, 1}
      PROVE  LET w == SelectTable(t, right, lower)
             IN  w \in Nat /\ AsPosition(w) = [AsPosition(t) EXCEPT !.right = right,
                                                                   !.lower = lower]
  <2> DEFINE w == SelectTable(t, right, lower)
  <2>1. right * NameX \in Int /\ lower * NameY \in Int
    BY Sizes
  <2>2. w = Address(x, y, right, lower, f, u)
    BY <1>1, <1>2, <1>3, <2>1 DEF SelectTable, Address
  <2> HIDE DEF w
  <2>3. /\ w \in Nat /\ CoarseX(w) = x /\ CoarseY(w) = y /\ Right(w) = right
        /\ Lower(w) = lower /\ FineY(w) = f
    BY <2>2, FieldsOf
  <2>4. AsPosition(w) = [column |-> x, y |-> y * TILE + f, right |-> right, lower |-> lower]
    BY <2>3 DEF AsPosition
  <2>5. AsPosition(w) = [AsPosition(t) EXCEPT !.right = right, !.lower = lower]
    <3> DEFINE p == AsPosition(t)
               z == y * TILE + f
    <3>1. p = [column |-> x, y |-> z, right |-> r, lower |-> l]
      BY <1>4
    <3> HIDE DEF p, z
    <3>2. ASSUME NEW q, q = [p EXCEPT !.right = right, !.lower = lower]
          PROVE  q = [column |-> x, y |-> z, right |-> right, lower |-> lower]
      BY ONLY <3>1, <3>2
    <3> QED BY <2>4, <3>2 DEF p, z
  <2> QED BY ONLY <2>3, <2>5 DEF w
<1>6. ASSUME NEW data \in 0 .. WIDTH - 1
      PROVE  LET w == ScrollX(t, data)
             IN  w \in Nat
                 /\ AsPosition(w) = [AsPosition(t) EXCEPT !.column = data \div TILE]
  <2> DEFINE w == ScrollX(t, data)
             q == data \div TILE
  <2>1. q \in 0 .. COLS - 1
    <3>1. /\ data \in Int /\ 0 <= data /\ data <= COLS * TILE - 1
          /\ TILE \in Nat \ {0} /\ COLS \in Nat
      BY Sizes DEF WIDTH
    <3>2. q \in Nat /\ data = TILE * q + (data % TILE) /\ data % TILE \in Nat
      BY <3>1, Quotient
    <3> HIDE DEF q
    <3>3. ~(COLS <= q)
      <4> SUFFICES ASSUME COLS <= q PROVE FALSE
        OBVIOUS
      <4>1. COLS * TILE <= q * TILE
        BY <3>1, <3>2, Product
      <4> QED BY <3>1, <3>2, <4>1
    <3> QED BY <3>1, <3>2, <3>3
  <2> HIDE DEF q
  <2>2. w = Address(q, y, r, l, f, u)
    BY <1>1, <1>2, <1>3, <2>1, Sizes DEF ScrollX, Address, q
  <2> HIDE DEF w
  <2>3. /\ w \in Nat /\ CoarseX(w) = q /\ CoarseY(w) = y /\ Right(w) = r
        /\ Lower(w) = l /\ FineY(w) = f
    BY <2>1, <2>2, FieldsOf
  <2>4. AsPosition(w) = [column |-> q, y |-> y * TILE + f, right |-> r, lower |-> l]
    BY <2>3 DEF AsPosition
  <2>5. AsPosition(w) = [AsPosition(t) EXCEPT !.column = q]
    BY <1>4, <2>4
  <2> QED BY ONLY <2>3, <2>5 DEF w, q
<1>7. ASSUME NEW data \in 0 .. COARSE_Y * TILE - 1
      PROVE  LET w == ScrollY(t, data)
             IN  w \in Nat /\ AsPosition(w) = [AsPosition(t) EXCEPT !.y = data]
  <2> DEFINE w == ScrollY(t, data)
             q == data \div TILE
             m == data % TILE
  <2>1. q \in 0 .. COARSE_Y - 1 /\ m \in 0 .. TILE - 1 /\ data = q * TILE + m
    <3>1. /\ data \in Int /\ 0 <= data /\ data <= COARSE_Y * TILE - 1
          /\ TILE \in Nat \ {0} /\ COARSE_Y \in Nat
      BY Sizes
    <3>2. q \in Nat /\ data = TILE * q + m /\ m \in Nat /\ m < TILE
      BY <3>1, Quotient
    <3> HIDE DEF q, m
    <3>3. ~(COARSE_Y <= q)
      <4> SUFFICES ASSUME COARSE_Y <= q PROVE FALSE
        OBVIOUS
      <4>1. COARSE_Y * TILE <= q * TILE
        BY <3>1, <3>2, Product
      <4> QED BY <3>1, <3>2, <4>1
    <3> QED BY <3>1, <3>2, <3>3
  <2>2. ScrollY(t, data) = t - CoarseY(t) * RowUnit - FineY(t) * FineUnit
                             + q * RowUnit + m * FineUnit
    BY DEF ScrollY
  <2> HIDE DEF q, m
  <2>3. q * RowUnit \in Int /\ m * FineUnit \in Int
    BY <2>1, Sizes
  <2>4. w = Address(x, q, r, l, m, u)
    BY <1>1, <1>2, <1>3, <2>2, <2>3 DEF Address
  <2> HIDE DEF w
  <2>5. /\ w \in Nat /\ CoarseX(w) = x /\ CoarseY(w) = q /\ Right(w) = r
        /\ Lower(w) = l /\ FineY(w) = m
    BY <2>1, <2>4, FieldsOf
  <2>6. AsPosition(w) = [column |-> x, y |-> data, right |-> r, lower |-> l]
    BY <2>1, <2>5 DEF AsPosition
  <2> QED BY <1>4, <2>5, <2>6 DEF w
<1> QED BY <1>5, <1>6, <1>7

LEMMA OtherWrites ==
  ASSUME NEW t \in Nat
  PROVE  /\ \A data \in AddressBytes : HighByte(t, data) \in Nat /\ LowByte(t, data) \in Nat
         /\ \A step \in {1, RowUnit} : Stepped(t, step) \in Nat
<1>1. /\ LOW_BYTE \in Nat \ {0} /\ AddressBytes \subseteq Nat
  BY AddressAssumption, BackgroundAssumption
<1>2. t % LOW_BYTE \in Nat /\ t % LOW_BYTE <= t
  <2>1. /\ t = LOW_BYTE * (t \div LOW_BYTE) + (t % LOW_BYTE) /\ t % LOW_BYTE \in Nat
        /\ t \div LOW_BYTE \in Nat
    BY <1>1, Quotient
  <2>2. LOW_BYTE * (t \div LOW_BYTE) \in Nat
    BY <1>1, <2>1
  <2> QED BY <2>1, <2>2
<1>3. ASSUME NEW data \in AddressBytes
      PROVE  HighByte(t, data) \in Nat /\ LowByte(t, data) \in Nat
  <2>1. data \in Nat /\ data * LOW_BYTE \in Nat
    BY <1>1
  <2> QED BY <1>2, <2>1 DEF HighByte, LowByte
<1>4. ASSUME NEW step \in {1, RowUnit}
      PROVE  Stepped(t, step) \in Nat
  <2>1. step \in Nat /\ WORD \in Nat \ {0}
    BY Sizes DEF WORD
  <2> QED BY <2>1, Quotient DEF Stepped
<1> QED BY <1>3, <1>4

-----------------------------------------------------------------------------
(* The pixels of the background: of the tile in column c, in the row r of  *)
(* pixels, the one in column b.                                            *)
Spot(c, r) ==
  [tile |-> NameAt(c % COLS, (r \div TILE) % ROWS, c \div COLS, (r \div TILE) \div ROWS),
   row  |-> r % TILE]

Cell(c, r, b) == [low |-> Spot(c, r), high |-> Spot(c, r), palette |-> Spot(c, r).tile,
                  column |-> b]

(* An address reads what is at its place. *)
LEMMA SpotOf ==
  ASSUME NEW v \in Nat, CoarseY(v) < ROWS
  PROVE  /\ NameTableByte(v) = Spot(ColumnOf(v), RowOf(v)).tile
         /\ FineY(v) = Spot(ColumnOf(v), RowOf(v)).row
<1>1. PICK x \in 0 .. COLS - 1, y \in 0 .. COARSE_Y - 1, r \in {0, 1}, l \in {0, 1},
           f \in 0 .. TILE - 1, u \in Nat : v = Address(x, y, r, l, f, u)
  BY IsAddress
<1>2. /\ CoarseX(v) = x /\ CoarseY(v) = y /\ Right(v) = r /\ Lower(v) = l
      /\ FineY(v) = f /\ NameTableByte(v) = NameAt(x, y, r, l) /\ y < ROWS
  BY <1>1, FieldsOf
<1> DEFINE c == ColumnOf(v)
           p == RowOf(v)
           q == y + l * ROWS
<1>3. c = COLS * r + x /\ c \in Nat
  BY <1>2, Sizes DEF ColumnOf
<1>4. q = ROWS * l + y /\ q \in Nat
  BY Sizes
<1>5. p = TILE * q + f /\ p \in Nat
  <2>1. TILE * q = y * TILE + l * HEIGHT
    BY Sizes DEF HEIGHT
  <2> HIDE DEF q
  <2>2. TILE * q \in Nat
    BY <1>4, Sizes
  <2>3. p = y * TILE + f + l * HEIGHT
    BY <1>2 DEF RowOf
  <2>4. y * TILE \in Nat /\ l * HEIGHT \in Nat
    BY Sizes DEF HEIGHT
  <2> HIDE DEF p
  <2> QED BY <1>2, <2>1, <2>2, <2>3, <2>4, Sizes
<1> HIDE DEF c, p, q
<1>6. c % COLS = x /\ c \div COLS = r
  BY <1>3, QuotientIs, Sizes
<1>7. p % TILE = f /\ p \div TILE = q
  <2>1. /\ TILE \in Nat \ {0} /\ f \in Int /\ 0 <= f /\ f < TILE
        /\ p \in Int /\ q \in Int /\ p = TILE * q + f
    BY <1>4, <1>5, Sizes
  <2> QED BY ONLY <2>1, QuotientIs
<1>8. q % ROWS = y /\ q \div ROWS = l
  BY <1>2, <1>4, QuotientIs, Sizes
<1>9. Spot(c, p) = [tile |-> NameAt(x, y, r, l), row |-> f]
  BY <1>6, <1>7, <1>8 DEF Spot
<1> QED BY <1>2, <1>9 DEF c, p

-----------------------------------------------------------------------------
(* The pipeline n dots after the line it fetches begins, or before it, as  *)
(* it fetches two tiles ahead: the address is two tiles ahead of the line, *)
(* which begins at the tile c of the row r.                                *)
Column(c, n) == (c + n) % (2 * COLS)

Ahead(n, c, v) == ColumnOf(v) = Column(c, 2 + (n \div TILE))

Latched(n, c, r, read) ==
  LET here == Spot(Column(c, 2 + (n \div TILE)), r)
      last == Spot(Column(c, 1 + (n \div TILE)), r)
  IN  /\ n % TILE = 0 /\ n \div TILE >= -1 =>
           /\ read.name = last.tile /\ read.palette = last.tile
           /\ read.low = last /\ read.high = last
      /\ n % TILE >= 1 => read.name = here.tile
      /\ n % TILE >= ATTRIBUTE => read.palette = here.tile
      /\ n % TILE >= LOW => read.low = here
      /\ n % TILE >= HIGH => read.high = here

(* The register holds the pixel shown last, if there is one, and those to  *)
(* come, as far as they are loaded.                                        *)
LastLoaded(n) == IF n % TILE = 0 THEN TILE + 1 ELSE 2 * TILE + 1 - (n % TILE)

Shifts(n, c, r, register) ==
  \A i \in 1 .. LastLoaded(n) :
    n + i - 2 >= 0 =>
      register[i] = Cell(Column(c, (n + i - 2) \div TILE), r, (n + i - 2) % TILE)

LEMMA NextDot ==
  ASSUME NEW n \in Int
  PROVE  /\ n % TILE \in 0 .. TILE - 1 /\ n \div TILE \in Int
         /\ IF n % TILE = TILE - 1
            THEN (n + 1) % TILE = 0 /\ (n + 1) \div TILE = (n \div TILE) + 1
            ELSE (n + 1) % TILE = (n % TILE) + 1 /\ (n + 1) \div TILE = n \div TILE
<1> DEFINE q == n \div TILE
           p == n % TILE
<1>1. TILE \in Nat \ {0}
  BY Sizes
<1>2. q \in Int /\ p \in Int /\ 0 <= p /\ p < TILE /\ n = TILE * q + p
  BY <1>1, Quotient
<1> HIDE DEF q, p
<1>3. CASE p = TILE - 1
  <2>1. n + 1 = TILE * (q + 1) + 0
    BY <1>1, <1>2, <1>3
  <2>2. (n + 1) \div TILE = q + 1 /\ (n + 1) % TILE = 0
    BY <1>1, <1>2, <2>1, QuotientIs
  <2> QED BY <1>1, <1>2, <1>3, <2>2 DEF p, q
<1>4. CASE p # TILE - 1
  <2>1. n + 1 = TILE * q + (p + 1) /\ p + 1 < TILE /\ 0 <= p + 1
    <3>1. TILE * q \in Int
      BY <1>1, <1>2
    <3> QED BY <1>1, <1>2, <1>4, <3>1
  <2>2. (n + 1) \div TILE = q /\ (n + 1) % TILE = p + 1
    BY <1>1, <1>2, <2>1, QuotientIs
  <2> QED BY <1>1, <1>2, <1>4, <2>2 DEF p, q
<1> QED BY <1>3, <1>4

LEMMA NextAround ==
  ASSUME NEW n \in Nat, NEW m \in Nat \ {0}
  PROVE  (n + 1) % m = After(n % m, m)
<1> DEFINE q == n \div m
           p == n % m
<1>1. q \in Int /\ p \in Int /\ 0 <= p /\ p < m /\ n = m * q + p
  BY Quotient
<1> HIDE DEF q, p
<1>2. CASE p = m - 1
  <2>1. n + 1 = m * (q + 1) + 0
    BY <1>1, <1>2
  <2>2. (n + 1) % m = 0
    BY <1>1, <2>1, QuotientIs
  <2> QED BY <1>1, <1>2, <2>2 DEF p, After
<1>3. CASE p # m - 1
  <2>1. n + 1 = m * q + (p + 1) /\ p + 1 < m /\ 0 <= p + 1
    <3>1. m * q \in Int
      BY <1>1
    <3> QED BY <1>1, <1>3, <3>1
  <2>2. (n + 1) % m = p + 1
    BY ONLY <1>1, <2>1, QuotientIs, n + 1 \in Int, m \in Nat \ {0}, p + 1 \in Int
  <2> QED BY <1>1, <1>3, <2>2 DEF p, After
<1> QED BY <1>2, <1>3

LEMMA ColumnNext ==
  ASSUME NEW c \in Nat, NEW m \in Int, c + m >= 0
  PROVE  Column(c, m + 1) = After(Column(c, m), 2 * COLS)
<1> DEFINE k == c + m
<1>1. k \in Nat /\ 2 * COLS \in Nat \ {0} /\ c + (m + 1) = k + 1
  BY Sizes
<1> HIDE DEF k
<1>2. (k + 1) % (2 * COLS) = After(k % (2 * COLS), 2 * COLS)
  BY <1>1, NextAround
<1> QED BY <1>1, <1>2 DEF Column, k

(* The address moves on with the last dot of a tile. *)
LEMMA AheadStep ==
  ASSUME NEW n \in Int, n >= 0 - 2 * TILE, NEW c \in Nat, NEW v \in Nat, Ahead(n, c, v)
  PROVE  LET w == IF (n + 1) % TILE = 0 THEN x_increment(v) ELSE v
         IN  w \in Nat /\ SameRow(v, w) /\ Ahead(n + 1, c, w)
<1>1. CASE n % TILE = TILE - 1
  <2>1. (n + 1) % TILE = 0 /\ (n + 1) \div TILE = (n \div TILE) + 1 /\ n \div TILE \in Int
    BY <1>1, NextDot
  <2>2. n \div TILE >= -2
    <3>1. n = TILE * (n \div TILE) + (n % TILE) /\ n % TILE < TILE /\ n % TILE \in Int
      BY Quotient, Sizes
    <3> DEFINE q == n \div TILE
    <3>2. q \in Int
      BY <2>1
    <3> HIDE DEF q
    <3>3. ~(q <= -3)
      <4> SUFFICES ASSUME q <= -3 PROVE FALSE
        OBVIOUS
      <4>1. q * TILE <= (-3) * TILE
        BY <3>2, Product, Sizes
      <4>2. n = q * TILE + (n % TILE)
        BY <3>1, <3>2, Sizes DEF q
      <4> QED BY <3>1, <3>2, <4>1, <4>2, Sizes
    <3> QED BY <3>2, <3>3 DEF q
  <2>3. /\ x_increment(v) \in Nat /\ SameRow(v, x_increment(v))
        /\ ColumnOf(x_increment(v)) = After(ColumnOf(v), 2 * COLS)
    BY XIncrement
  <2>4. Column(c, (2 + (n \div TILE)) + 1) = After(Column(c, 2 + (n \div TILE)), 2 * COLS)
    BY <2>1, <2>2, ColumnNext
  <2>5. 2 + ((n + 1) \div TILE) = (2 + (n \div TILE)) + 1
    BY <2>1
  <2> QED BY <2>1, <2>3, <2>4, <2>5 DEF Ahead
<1>2. CASE n % TILE # TILE - 1
  <2>1. (n + 1) % TILE # 0 /\ (n + 1) \div TILE = n \div TILE
    <3>1. (n + 1) % TILE = (n % TILE) + 1 /\ n % TILE \in Nat
          /\ (n + 1) \div TILE = n \div TILE
      BY <1>2, NextDot
    <3> QED BY <3>1
  <2> QED BY <2>1 DEF Ahead, SameRow
<1> QED BY <1>1, <1>2

(* The latches read the tile the address is at, one after the other. *)
LEMMA LatchStep ==
  ASSUME NEW n \in Int, NEW c \in Nat, NEW r, cur_address \in Nat,
         Ahead(n, c, cur_address), CoarseY(cur_address) < ROWS, RowOf(cur_address) = r,
         FetchesTile, dot % TILE = (n + 1) % TILE, Latched(n, c, r, latches)
  PROVE  Latched(n + 1, c, r, LatchesAfter)
<1> DEFINE g == n \div TILE
           p == n % TILE
           here == Spot(Column(c, 2 + g), r)
           read == LatchesAfter
           phase == (n + 1) % TILE
           name == IF phase = 1 THEN NameTableByte(cur_address) ELSE latches.name
           pattern == [tile |-> name, row |-> FineY(cur_address)]
<1>1. NameTableByte(cur_address) = here.tile /\ FineY(cur_address) = here.row
  BY SpotOf DEF Ahead
<1>2. here = [tile |-> here.tile, row |-> here.row]
  BY DEF Spot
<1>3. /\ p >= 1 => latches.name = here.tile
      /\ p >= ATTRIBUTE => latches.palette = here.tile
      /\ p >= LOW => latches.low = here
      /\ p >= HIGH => latches.high = here
  BY DEF Latched
<1>4. /\ read.name = name
      /\ read.palette = IF phase = ATTRIBUTE THEN NameTableByte(cur_address)
                        ELSE latches.palette
      /\ read.low = IF phase = LOW THEN pattern ELSE latches.low
      /\ read.high = IF phase = HIGH THEN pattern ELSE latches.high
  BY DEF LatchesAfter
<1>5. /\ p \in Int /\ 0 <= p /\ p <= TILE - 1 /\ g \in Int
      /\ IF p = TILE - 1 THEN phase = 0 /\ (n + 1) \div TILE = g + 1
         ELSE phase = p + 1 /\ (n + 1) \div TILE = g
  <2>1. TILE \in Nat
    BY Sizes
  <2> QED BY <2>1, NextDot
<1>6. /\ TILE \in Nat /\ TILE >= 2
      /\ ATTRIBUTE \in Int /\ 1 <= ATTRIBUTE /\ ATTRIBUTE <= TILE - 1
      /\ LOW \in Int /\ 1 <= LOW /\ LOW <= TILE - 1
      /\ HIGH \in Int /\ 1 <= HIGH /\ HIGH <= TILE - 1
  BY Sizes, BackgroundAssumption
<1> HIDE DEF here, read, p, g, phase
<1>7. CASE p = TILE - 1
  <2>1. phase = 0 /\ read.name = here.tile /\ read.palette = here.tile
        /\ read.low = here /\ read.high = here
    BY <1>3, <1>4, <1>5, <1>6, <1>7
  <2>2. here = Spot(Column(c, 1 + ((n + 1) \div TILE)), r)
    <3>1. 2 + g = 1 + ((n + 1) \div TILE)
      BY <1>5, <1>7
    <3> QED BY <3>1 DEF here
  <2>3. ~(phase >= 1) /\ ~(phase >= ATTRIBUTE) /\ ~(phase >= LOW) /\ ~(phase >= HIGH)
    BY <1>6, <2>1
  <2> QED BY <2>1, <2>2, <2>3 DEF Latched, read, phase
<1>8. CASE p # TILE - 1
  <2>1. phase = p + 1 /\ phase >= 1 /\ phase # 0
    BY <1>5, <1>8
  <2>2. name = here.tile
    <3>1. phase = 1 \/ p >= 1
      BY <1>5, <2>1
    <3> QED BY <1>1, <1>3, <3>1
  <2>3. pattern = here
    BY <1>1, <1>2, <2>2
  <2> HIDE DEF name, pattern
  <2>4. /\ phase >= ATTRIBUTE => phase = ATTRIBUTE \/ p >= ATTRIBUTE
        /\ phase >= LOW => phase = LOW \/ p >= LOW
        /\ phase >= HIGH => phase = HIGH \/ p >= HIGH
    BY <1>5, <1>6, <2>1
  <2>5. /\ read.name = here.tile
        /\ phase >= ATTRIBUTE => read.palette = here.tile
        /\ phase >= LOW => read.low = here
        /\ phase >= HIGH => read.high = here
    BY <1>1, <1>3, <1>4, <2>2, <2>3, <2>4
  <2>6. here = Spot(Column(c, 2 + ((n + 1) \div TILE)), r)
    BY <1>5, <1>8 DEF here
  <2> QED BY <2>1, <2>5, <2>6 DEF Latched, read, phase
<1> QED BY <1>7, <1>8

(* The shift registers move by one, and the tile read last comes in behind. *)
LEMMA ShiftOne ==
  ASSUME NEW n \in Nat \ {0}, NEW s, s = [i \in 1 .. n |-> s[i]], NEW e
  PROVE  Append(Tail(s), e) = [i \in 1 .. n |-> IF i < n THEN s[i + 1] ELSE e]
<1> DEFINE S == {s[i] : i \in 1 .. n} \cup {e}
<1>1. s \in [1 .. n -> S]
  BY Zenon
<1>2. s \in Seq(S) /\ Len(s) = n
  <2> HIDE DEF S
  <2> QED BY <1>1
<1>3. e \in S
  OBVIOUS
<1> HIDE DEF S
<1>4. /\ Tail(s) \in Seq(S) /\ Len(Tail(s)) = n - 1
      /\ \A i \in 1 .. n - 1 : Tail(s)[i] = s[i + 1]
  BY <1>2
<1>5. /\ Append(Tail(s), e) \in Seq(S) /\ Len(Append(Tail(s), e)) = n
      /\ \A i \in 1 .. n : Append(Tail(s), e)[i] = IF i < n THEN s[i + 1] ELSE e
  BY <1>3, <1>4
<1>6. Append(Tail(s), e) = [i \in 1 .. n |-> Append(Tail(s), e)[i]]
  BY <1>5
<1> QED BY <1>5, <1>6

LEMMA ShiftStep ==
  ASSUME NEW n \in Int, n >= 0 - 2 * TILE, NEW c \in Nat, NEW r,
         shift = [i \in 1 .. 2 * TILE |-> shift[i]], raster.background,
         FetchesTile, dot % TILE = (n + 1) % TILE,
         Latched(n, c, r, latches), Shifts(n, c, r, shift)
  PROVE  Shifts(n + 1, c, r, ShiftAfter)
<1> DEFINE g == n \div TILE
           p == n % TILE
           next == ShiftAfter
           phase == (n + 1) % TILE
           top == LastLoaded(n + 1)
           end == LastLoaded(n)
<1>1. TILE \in Nat /\ TILE >= 2 /\ 2 * TILE \in Nat \ {0}
  BY ONLY Sizes
<1>2. /\ p \in Int /\ 0 <= p /\ p <= TILE - 1 /\ g \in Int /\ phase \in Int
      /\ phase = IF p = TILE - 1 THEN 0 ELSE p + 1
  <2>1. /\ p \in 0 .. TILE - 1 /\ g \in Int
        /\ IF p = TILE - 1 THEN phase = 0 ELSE phase = p + 1
    BY ONLY NextDot, n \in Int
  <2> HIDE DEF p, g, phase
  <2> QED BY ONLY <1>1, <2>1
<1>3. n = TILE * g + p
  BY ONLY <1>1, Quotient, n \in Int
<1>4. Shifted = [i \in 1 .. 2 * TILE |-> IF i < 2 * TILE THEN shift[i + 1] ELSE Blank]
  <2>1. Shifted = Append(Tail(shift), Blank)
    BY DEF Shifted
  <2>2. Append(Tail(shift), Blank) =
          [i \in 1 .. 2 * TILE |-> IF i < 2 * TILE THEN shift[i + 1] ELSE Blank]
    BY ONLY <1>1, ShiftOne, shift = [i \in 1 .. 2 * TILE |-> shift[i]]
  <2> QED BY ONLY <2>1, <2>2
<1>5. next = IF phase = 1 THEN Loaded(Shifted) ELSE Shifted
  BY DEF ShiftAfter
<1>6. end = IF p = 0 THEN TILE + 1 ELSE 2 * TILE + 1 - p
  BY DEF LastLoaded
<1>7. top = IF phase = 0 THEN TILE + 1 ELSE 2 * TILE + 1 - phase
  BY DEF LastLoaded
<1> HIDE DEF g, p, next, phase, top, end
<1>8. end \in Int /\ top \in Int /\ top <= 2 * TILE
  BY ONLY <1>1, <1>2, <1>6, <1>7
<1>9. SUFFICES ASSUME NEW i, i \in 1 .. top, (n + 1) + i - 2 >= 0
      PROVE  next[i] = Cell(Column(c, ((n + 1) + i - 2) \div TILE), r,
                            ((n + 1) + i - 2) % TILE)
  BY DEF Shifts, next, top
<1>10. i \in Int /\ 1 <= i /\ i <= 2 * TILE
  BY <1>1, <1>8, <1>9
<1>11. CASE ~(p = 0 /\ i > TILE)
  <2>1. i + 1 <= end /\ i < 2 * TILE /\ (phase = 1 => i <= TILE)
    BY ONLY <1>1, <1>2, <1>6, <1>7, <1>9, <1>10, <1>11
  <2>2. next[i] = Shifted[i]
    BY <1>5, <1>10, <2>1 DEF Loaded
  <2>3. Shifted[i] = shift[i + 1]
    BY <1>4, <1>10, <2>1
  <2>4. i + 1 \in 1 .. end /\ n + (i + 1) - 2 = (n + 1) + i - 2
    BY <1>8, <1>10, <2>1
  <2>5. shift[i + 1] = Cell(Column(c, (n + (i + 1) - 2) \div TILE), r,
                            (n + (i + 1) - 2) % TILE)
    BY <1>9, <2>4 DEF Shifts, end
  <2> QED BY <2>2, <2>3, <2>4, <2>5
<1>12. CASE p = 0 /\ i > TILE
  <2>1. phase = 1
    BY <1>1, <1>2, <1>12
  <2>2. next[i] = [low |-> latches.low, high |-> latches.high,
                   palette |-> latches.palette, column |-> i - TILE - 1]
    BY <1>1, <1>5, <1>10, <1>12, <2>1 DEF Loaded
  <2>3. (n + 1) + i - 2 = TILE * (g + 1) + (i - TILE - 1)
    <3>1. TILE * (g + 1) = n + TILE
      BY <1>1, <1>2, <1>3, <1>12
    <3> QED BY <1>1, <1>10, <3>1
  <2>4. ((n + 1) + i - 2) \div TILE = 1 + g /\ ((n + 1) + i - 2) % TILE = i - TILE - 1
    <3> DEFINE k == (n + 1) + i - 2
               b == i - TILE - 1
    <3>1. k \in Int /\ b \in Int /\ 0 <= b /\ b < TILE /\ g + 1 \in Int
          /\ TILE \in Nat \ {0} /\ k = TILE * (g + 1) + b
      BY ONLY <1>1, <1>2, <1>10, <1>12, <2>3, n \in Int
    <3> HIDE DEF k, b
    <3>2. k \div TILE = g + 1 /\ k % TILE = b
      BY ONLY <3>1, QuotientIs
    <3>3. g + 1 = 1 + g
      BY <1>2
    <3> QED BY <3>2, <3>3 DEF k, b
  <2>5. g >= -1
    <3> SUFFICES ASSUME g <= -2 PROVE FALSE
      BY <1>2
    <3>1. g * TILE <= (-2) * TILE
      <4>1. g \in Int /\ -2 \in Int /\ g <= -2 /\ TILE \in Nat
        BY <1>1, <1>2
      <4> QED BY ONLY <4>1, Product
    <3>2. n = g * TILE
      BY <1>1, <1>2, <1>3, <1>12
    <3> QED BY <1>1, <1>9, <1>10, <3>1, <3>2
  <2>6. /\ latches.palette = Spot(Column(c, 1 + g), r).tile
        /\ latches.low = Spot(Column(c, 1 + g), r)
        /\ latches.high = Spot(Column(c, 1 + g), r)
    BY <1>12, <2>5 DEF Latched, g, p
  <2> QED BY <2>2, <2>4, <2>6 DEF Cell
<1> QED BY <1>11, <1>12

LEMMA ShiftShape ==
  ASSUME shift = [i \in 1 .. 2 * TILE |-> shift[i]]
  PROVE  ShiftAfter = [i \in 1 .. 2 * TILE |-> ShiftAfter[i]]
<1>1. 2 * TILE \in Nat \ {0}
  BY Sizes
<1>2. Shifted = [i \in 1 .. 2 * TILE |-> Shifted[i]]
  <2>1. Append(Tail(shift), Blank)
          = [i \in 1 .. 2 * TILE |-> IF i < 2 * TILE THEN shift[i + 1] ELSE Blank]
    BY <1>1, ShiftOne
  <2> DEFINE moved == [i \in 1 .. 2 * TILE |-> IF i < 2 * TILE THEN shift[i + 1] ELSE Blank]
  <2>2. Shifted = moved \/ Shifted = shift
    BY <2>1 DEF Shifted
  <2>3. moved = [i \in 1 .. 2 * TILE |-> moved[i]]
    OBVIOUS
  <2> HIDE DEF moved
  <2> QED BY <2>2, <2>3
<1>3. Loaded(Shifted) = [i \in 1 .. 2 * TILE |-> Loaded(Shifted)[i]]
  BY DEF Loaded
<1> QED BY <1>2, <1>3 DEF ShiftAfter

-----------------------------------------------------------------------------
(* What one dot does to the pipeline. *)
LEMMA Layout ==
  /\ WIDTH \in Nat /\ WIDTH >= TILE /\ HEIGHT \in Nat \ {0} /\ VBLANK \in Nat
  /\ PRERENDER \in Nat /\ HEIGHT < VBLANK /\ VBLANK < PRERENDER
  /\ PREFETCH \in Nat /\ WIDTH + 2 < PREFETCH /\ PREFETCH % TILE = 1
  /\ LAST_DOT \in Nat /\ PREFETCH + 2 * TILE - 1 <= LAST_DOT
  /\ \A d \in RELOAD : d \in Nat /\ WIDTH + 2 <= d /\ d <= PREFETCH - 1
  /\ RELOAD # {}
<1>1. /\ WIDTH \in Nat /\ WIDTH >= TILE /\ HEIGHT \in Nat \ {0}
  <2>1. 1 * TILE <= COLS * TILE /\ 1 * TILE <= ROWS * TILE
    BY Product, Sizes
  <2>2. COLS * TILE \in Nat /\ ROWS * TILE \in Nat
    BY Sizes
  <2> QED BY <2>1, <2>2, Sizes DEF WIDTH, HEIGHT
<1>2. /\ PREFETCH \in Nat /\ PREFETCH % TILE = 1 /\ RELOAD # {}
      /\ RELOAD \subseteq WIDTH + 2 .. PREFETCH - 1 /\ HEIGHT < VBLANK
      /\ PREFETCH + 2 * TILE - 1 <= LAST_DOT
  BY BackgroundAssumption
<1>3. \A d \in RELOAD : d \in Nat /\ WIDTH + 2 <= d /\ d <= PREFETCH - 1
  BY <1>1, <1>2
<1>4. WIDTH + 2 < PREFETCH
  <2>1. PICK d \in RELOAD : TRUE
    BY <1>2
  <2> QED BY <1>1, <1>2, <1>3, <2>1
<1> QED BY <1>1, <1>2, <1>3, <1>4, PpuAssumption

(* The raster goes from dot to dot and from line to line. *)
LEMMA RasterStep ==
  ASSUME NEW p \in PpuType
  PROVE  /\ ppu_cycle(p) \in PpuType /\ ppu_cycle(p).background = p.background
         /\ p.dot # LAST_DOT => /\ ppu_cycle(p).dot = p.dot + 1
                                /\ ppu_cycle(p).scanline = p.scanline
         /\ p.dot = LAST_DOT =>
              /\ ppu_cycle(p).dot \in {0, 1}
              /\ IF p.scanline = PRERENDER
                 THEN ppu_cycle(p).scanline = 0
                 ELSE ppu_cycle(p).dot = 0 /\ ppu_cycle(p).scanline = p.scanline + 1
<1>1. /\ LAST_DOT \in Nat /\ LAST_DOT > 1 /\ PRERENDER \in Nat
  BY PpuAssumption
<1>2. p.dot \in 0 .. LAST_DOT /\ p.scanline \in 0 .. PRERENDER
  BY DEF PpuType
<1> DEFINE q == StatusAtDot(p)
<1>3. /\ q \in PpuType /\ q.dot = p.dot /\ q.scanline = p.scanline
      /\ q.background = p.background
  BY DEF PpuType, StatusAtDot
<1> HIDE DEF q
<1> DEFINE e == cycle_increment(q)
<1>4. /\ e.dot = IF SkipsDot(q) THEN 1 ELSE IF EndsLine(q) THEN 0 ELSE q.dot + 1
      /\ e.scanline = IF EndsFrame(q) THEN 0
                      ELSE IF EndsLine(q) THEN q.scanline + 1 ELSE q.scanline
      /\ e.background = q.background
  BY <1>3 DEF PpuType, cycle_increment
<1>5. e.dot \in 0 .. LAST_DOT /\ e.scanline \in 0 .. PRERENDER
  BY <1>1, <1>2, <1>3, <1>4 DEF SkipsDot, EndsFrame, EndsLine
<1>6. e \in PpuType
  <2>1. e = [q EXCEPT !.dot = e.dot, !.scanline = e.scanline, !.odd = e.odd]
        /\ e.odd \in BOOLEAN
    BY <1>3 DEF PpuType, cycle_increment
  <2> HIDE DEF e
  <2> QED BY <1>3, <1>5, <2>1 DEF PpuType
<1>7. ppu_cycle(p) = e
  BY DEF ppu_cycle, q
<1> HIDE DEF e
<1> QED BY <1>1, <1>2, <1>3, <1>4, <1>6, <1>7 DEF SkipsDot, EndsFrame, EndsLine

(* A dot that fetches. *)
LEMMA FetchStep ==
  ASSUME NEW n \in Int, n >= 0 - 2 * TILE, NEW c \in Nat, NEW r, cur_address \in Nat,
         shift = [i \in 1 .. 2 * TILE |-> shift[i]], raster.background,
         FetchesTile, dot % TILE = (n + 1) % TILE,
         Ahead(n, c, cur_address), CoarseY(cur_address) < ROWS, RowOf(cur_address) = r,
         Latched(n, c, r, latches), Shifts(n, c, r, shift)
  PROVE  /\ AddressAfter \in Nat /\ CoarseY(AddressAfter) < ROWS
         /\ RowOf(AddressAfter) = IF dot = WIDTH THEN After(r, 2 * HEIGHT) ELSE r
         /\ Ahead(n + 1, c, AddressAfter)
         /\ Latched(n + 1, c, r, LatchesAfter) /\ Shifts(n + 1, c, r, ShiftAfter)
<1> DEFINE x == IF (n + 1) % TILE = 0 THEN x_increment(cur_address) ELSE cur_address
<1>1. x \in Nat /\ SameRow(cur_address, x) /\ Ahead(n + 1, c, x)
  BY AheadStep
<1>2. CoarseY(x) < ROWS /\ RowOf(x) = r
  BY <1>1 DEF SameRow, RowOf
<1>3. AddressAfter = IF dot = WIDTH THEN y_increment(x) ELSE x
  <2>1. dot # WIDTH + 1 /\ dot \notin RELOAD
    <3>1. dot \in 1 .. WIDTH \/ dot \in PREFETCH .. PREFETCH + 2 * TILE - 1
      BY DEF FetchesTile
    <3>2. dot \in Int /\ (dot <= WIDTH \/ dot >= PREFETCH)
      BY ONLY <3>1, Layout, Sizes
    <3> QED BY ONLY <3>2, Layout
  <2> QED BY <2>1 DEF AddressAfter, OnX, OnY, FetchesTile, Rendering, ReloadsX, ReloadsY
<1> HIDE DEF x
<1>4. /\ y_increment(x) \in Nat /\ SameColumn(x, y_increment(x))
      /\ CoarseY(y_increment(x)) < ROWS
      /\ RowOf(y_increment(x)) = After(r, 2 * HEIGHT)
  BY <1>1, <1>2, YIncrement
<1>5. Ahead(n + 1, c, y_increment(x))
  BY <1>1, <1>4 DEF Ahead, SameColumn, ColumnOf
<1>6. Latched(n + 1, c, r, LatchesAfter) /\ Shifts(n + 1, c, r, ShiftAfter)
  BY LatchStep, ShiftStep
<1> QED BY <1>1, <1>2, <1>3, <1>4, <1>5, <1>6

-----------------------------------------------------------------------------
(* The invariant.  At dot d of line s the pipeline is Offset(d) dots into  *)
(* the line it fetches for, Line(s, d); it is at its column between the    *)
(* reload at the end of a line and the last pixel of the next one, and at  *)
(* its row from the reload of the pre-render line on.                      *)
Offset(d) == IF d <= WIDTH THEN (IF d = 0 THEN 0 ELSE d - 1)
             ELSE IF d <= PREFETCH THEN 0 - 2 * TILE
             ELSE IF d <= PREFETCH + 2 * TILE THEN d - PREFETCH - 2 * TILE ELSE 0

Line(s, d) == IF s = PRERENDER THEN 0 ELSE IF d <= WIDTH THEN s ELSE s + 1

HasColumn(s, d) == (s < HEIGHT /\ d # WIDTH + 1) \/ (s = PRERENDER /\ d > WIDTH + 1)
HasRow(s, d)    == s < HEIGHT \/ (s = PRERENDER /\ \E e \in RELOAD : e < d)

(* In the frame whose picture begins in the column c and the row r.        *)
Row(r, s, d) == (r + Line(s, d)) % (2 * HEIGHT)

Pipeline(c, r, s, d, v, read, register) ==
  /\ HasColumn(s, d) => Ahead(Offset(d), c, v)
  /\ HasRow(s, d) => CoarseY(v) < ROWS /\ RowOf(v) = Row(r, s, d)
  /\ HasColumn(s, d) /\ HasRow(s, d) =>
       Latched(Offset(d), c, Row(r, s, d), read) /\ Shifts(Offset(d), c, Row(r, s, d), register)

(* The column of tiles the picture begins in. *)
CameraTile == camera.column \div TILE

PipelineType ==
  /\ raster \in PpuType /\ steady \in BOOLEAN
  /\ cur_address \in Nat /\ tmp_address \in Nat /\ scroll_x_fine \in 0 .. TILE - 1
  /\ shift = [i \in 1 .. 2 * TILE |-> shift[i]]
  /\ asked = AsPosition(tmp_address)
  /\ CameraTile \in Nat /\ camera.column = TILE * CameraTile /\ camera.row \in Nat

PipelineInv ==
  /\ PipelineType
  /\ steady => /\ raster.background
               /\ Pipeline(CameraTile, camera.row, raster.scanline, dot,
                           cur_address, latches, shift)

(* The position taken over is a column of tiles and a row of pixels.       *)
LEMMA Position ==
  ASSUME NEW t \in Nat, asked = AsPosition(t)
  PROVE  /\ AskedColumn = TILE * ColumnOf(t) /\ ColumnOf(t) \in 0 .. 2 * COLS - 1
         /\ AskedRow = RowOf(t) /\ RowOf(t) \in Nat
         /\ asked.y < HEIGHT => CoarseY(t) < ROWS /\ RowOf(t) < 2 * HEIGHT
<1> DEFINE x == CoarseX(t)
           y == CoarseY(t)
           r == Right(t)
           l == Lower(t)
           f == FineY(t)
<1>1. /\ x \in 0 .. COLS - 1 /\ y \in 0 .. COARSE_Y - 1 /\ r \in {0, 1}
      /\ l \in {0, 1} /\ f \in 0 .. TILE - 1
  BY FieldTypes
<1>2. asked.column = x /\ asked.y = y * TILE + f /\ asked.right = r /\ asked.lower = l
  BY DEF AsPosition
<1>3. ColumnOf(t) = x + r * COLS /\ RowOf(t) = y * TILE + f + l * HEIGHT
  BY DEF ColumnOf, RowOf
<1> HIDE DEF x, y, r, l, f
<1>4. x \in Nat /\ y \in Nat /\ f \in Nat /\ r * COLS \in Nat /\ y * TILE \in Nat
      /\ l * HEIGHT \in Nat /\ r * COLS <= COLS /\ l * HEIGHT <= HEIGHT /\ HEIGHT \in Nat
      /\ x <= COLS - 1 /\ COLS \in Nat /\ TILE \in Nat
  BY <1>1, Sizes, Layout
<1>5. AskedColumn = TILE * ColumnOf(t) /\ ColumnOf(t) \in 0 .. 2 * COLS - 1
  <2>1. AskedColumn = (r * COLS + x) * TILE
    BY <1>2 DEF AskedColumn
  <2>2. x + r * COLS = r * COLS + x
    BY <1>4
  <2> DEFINE z == r * COLS + x
  <2>3. z \in 0 .. 2 * COLS - 1
    BY <1>4
  <2> HIDE DEF z
  <2>4. z * TILE = TILE * z
    BY <1>4, <2>3
  <2> QED BY <1>3, <2>1, <2>2, <2>3, <2>4 DEF z
<1>6. AskedRow = RowOf(t) /\ RowOf(t) \in Nat
  <2> DEFINE a == y * TILE
             b == l * HEIGHT
  <2>1. AskedRow = b + (a + f) /\ RowOf(t) = a + f + b
    BY <1>2, <1>3 DEF AskedRow
  <2>2. a \in Nat /\ b \in Nat
    BY <1>4
  <2> HIDE DEF a, b
  <2> QED BY <1>4, <2>1, <2>2
<1>7. ASSUME asked.y < HEIGHT
      PROVE  y < ROWS /\ RowOf(t) < 2 * HEIGHT
  <2>1. y < ROWS
    <3> SUFFICES ASSUME ROWS <= y PROVE FALSE
      BY <1>4, Sizes
    <3>1. ROWS * TILE <= y * TILE
      <4>1. ROWS \in Int /\ y \in Int /\ TILE \in Nat
        BY <1>4, Sizes
      <4> QED BY ONLY <4>1, Product, ROWS <= y
    <3> QED BY <1>2, <1>4, <1>7, <3>1 DEF HEIGHT
  <2>2. RowOf(t) < 2 * HEIGHT
    <3> DEFINE a == y * TILE
               b == l * HEIGHT
    <3>1. RowOf(t) = a + f + b /\ a + f < HEIGHT /\ b <= HEIGHT /\ a \in Nat /\ b \in Nat
      BY <1>2, <1>3, <1>4, <1>7
    <3> HIDE DEF a, b
    <3> QED BY <1>4, <3>1
  <2> QED BY <2>1, <2>2
<1> QED BY <1>5, <1>6, <1>7 DEF y

(* A register written, which leaves the raster, the address and the         *)
(* pipeline as they are, or unsettles the picture.                          *)
LEMMA Untouched ==
  ASSUME PipelineInv, PipelineType',
         raster'.dot = dot, raster'.scanline = raster.scanline,
         raster'.background = raster.background, camera' = camera,
         latches' = latches, shift' = shift,
         steady' => steady /\ cur_address' = cur_address
  PROVE  PipelineInv'
BY DEF PipelineInv, CameraTile, dot

-----------------------------------------------------------------------------
(* The next dot, and what the pipeline has then. *)
NextPlace(s, d, s2, d2) ==
  IF d # LAST_DOT THEN d2 = d + 1 /\ s2 = s
  ELSE IF s = PRERENDER THEN d2 \in {0, 1} /\ s2 = 0 ELSE d2 = 0 /\ s2 = s + 1

LEMMA Places ==
  ASSUME NEW s, s \in 0 .. PRERENDER, NEW d, d \in 0 .. LAST_DOT,
         NEW s2, NEW d2, NextPlace(s, d, s2, d2)
  PROVE  /\ s >= HEIGHT /\ (s # PRERENDER \/ d <= WIDTH) =>
              ~HasColumn(s2, d2) /\ ~HasRow(s2, d2)
         /\ s < HEIGHT /\ d = 0 =>
              /\ HasColumn(s, d) /\ HasRow(s, d)
              /\ Offset(d) = 0 /\ Offset(d2) = 0 /\ Line(s2, d2) = Line(s, d)
         /\ s < HEIGHT /\ d \in 1 .. WIDTH =>
              /\ HasColumn(s, d) /\ HasRow(s, d) /\ Offset(d) = d - 1
              /\ IF d = WIDTH
                 THEN ~HasColumn(s2, d2) /\ Line(s2, d2) = Line(s, d) + 1
                 ELSE Offset(d2) = Offset(d) + 1 /\ Line(s2, d2) = Line(s, d)
         /\ d = WIDTH + 1 =>
              /\ Offset(d2) = 0 - 2 * TILE
              /\ HasRow(s2, d2) => HasRow(s, d) /\ Line(s2, d2) = Line(s, d)
         /\ d \in WIDTH + 2 .. PREFETCH - 1 /\ (s < HEIGHT \/ s = PRERENDER) =>
              /\ HasColumn(s, d) /\ Line(s2, d2) = Line(s, d)
              /\ Offset(d) = 0 - 2 * TILE /\ Offset(d2) = 0 - 2 * TILE
              /\ HasRow(s2, d2) => HasRow(s, d) \/ (s = PRERENDER /\ d \in RELOAD)
         /\ d >= PREFETCH /\ (s < HEIGHT \/ s = PRERENDER) =>
              /\ HasColumn(s, d) /\ HasRow(s, d)
              /\ HasColumn(s2, d2) \/ HasRow(s2, d2) => Line(s2, d2) = Line(s, d)
              /\ IF d < PREFETCH + 2 * TILE
                 THEN /\ Offset(d) = d - PREFETCH - 2 * TILE
                      /\ Offset(d2) = Offset(d) + 1
                 ELSE Offset(d) = 0 /\ Offset(d2) = 0
<1> DEFINE lines == s \in Int /\ 0 <= s /\ s <= PRERENDER /\ d \in Int /\ 0 <= d /\ d <= LAST_DOT
<1>1. lines
  BY Layout
<1>2. d2 \in Int /\ s2 \in Int
  BY <1>1, Layout DEF NextPlace
<1>3. s >= HEIGHT /\ (s # PRERENDER \/ d <= WIDTH) => ~HasColumn(s2, d2) /\ ~HasRow(s2, d2)
  <2> SUFFICES ASSUME s >= HEIGHT, s # PRERENDER \/ d <= WIDTH
               PROVE  ~HasColumn(s2, d2) /\ ~HasRow(s2, d2)
    OBVIOUS
  <2>1. s2 >= HEIGHT /\ (s2 = PRERENDER => d2 <= WIDTH + 1)
    BY <1>1, Layout, Sizes DEF NextPlace
  <2>2. ~\E e \in RELOAD : e < WIDTH + 1
    BY Layout
  <2> QED BY <1>2, <2>1, <2>2, Layout DEF HasColumn, HasRow
<1>4. s < HEIGHT /\ d = 0 =>
        /\ HasColumn(s, d) /\ HasRow(s, d)
        /\ Offset(d) = 0 /\ Offset(d2) = 0 /\ Line(s2, d2) = Line(s, d)
  BY <1>1, Layout, Sizes DEF NextPlace, HasColumn, HasRow, Offset, Line
<1>5. s < HEIGHT /\ d \in 1 .. WIDTH =>
        /\ HasColumn(s, d) /\ HasRow(s, d) /\ Offset(d) = d - 1
        /\ IF d = WIDTH
           THEN ~HasColumn(s2, d2) /\ Line(s2, d2) = Line(s, d) + 1
           ELSE Offset(d2) = Offset(d) + 1 /\ Line(s2, d2) = Line(s, d)
  BY <1>1, Layout, Sizes DEF NextPlace, HasColumn, HasRow, Offset, Line
<1>6. d = WIDTH + 1 =>
        /\ Offset(d2) = 0 - 2 * TILE
        /\ HasRow(s2, d2) => HasRow(s, d) /\ Line(s2, d2) = Line(s, d)
  <2> SUFFICES ASSUME d = WIDTH + 1
               PROVE  /\ Offset(d2) = 0 - 2 * TILE
                      /\ HasRow(s2, d2) => HasRow(s, d) /\ Line(s2, d2) = Line(s, d)
    OBVIOUS
  <2>1. d2 = WIDTH + 2 /\ s2 = s
    BY Layout, Sizes DEF NextPlace
  <2>2. Offset(d2) = 0 - 2 * TILE
    BY <2>1, Layout DEF Offset
  <2>3. HasRow(s2, d2) => s < HEIGHT
    BY <2>1, Layout DEF HasRow
  <2> QED BY <1>1, <2>1, <2>2, <2>3, Layout DEF HasRow, Line
<1>7. d \in WIDTH + 2 .. PREFETCH - 1 /\ (s < HEIGHT \/ s = PRERENDER) =>
        /\ HasColumn(s, d) /\ Line(s2, d2) = Line(s, d)
        /\ Offset(d) = 0 - 2 * TILE /\ Offset(d2) = 0 - 2 * TILE
        /\ HasRow(s2, d2) => HasRow(s, d) \/ (s = PRERENDER /\ d \in RELOAD)
  BY <1>1, Layout, Sizes DEF NextPlace, HasColumn, HasRow, Offset, Line
<1>8. d >= PREFETCH /\ (s < HEIGHT \/ s = PRERENDER) =>
        /\ HasColumn(s, d) /\ HasRow(s, d)
        /\ HasColumn(s2, d2) \/ HasRow(s2, d2) => Line(s2, d2) = Line(s, d)
        /\ IF d < PREFETCH + 2 * TILE
           THEN /\ Offset(d) = d - PREFETCH - 2 * TILE
                /\ Offset(d2) = Offset(d) + 1
           ELSE Offset(d) = 0 /\ Offset(d2) = 0
  <2> SUFFICES ASSUME d >= PREFETCH, s < HEIGHT \/ s = PRERENDER
               PROVE  /\ HasColumn(s, d) /\ HasRow(s, d)
                      /\ HasColumn(s2, d2) \/ HasRow(s2, d2) => Line(s2, d2) = Line(s, d)
                      /\ IF d < PREFETCH + 2 * TILE
                         THEN /\ Offset(d) = d - PREFETCH - 2 * TILE
                              /\ Offset(d2) = Offset(d) + 1
                         ELSE Offset(d) = 0 /\ Offset(d2) = 0
    OBVIOUS
  <2>1. HasColumn(s, d) /\ HasRow(s, d)
    BY <1>1, Layout DEF HasColumn, HasRow
  <2>2. HasColumn(s2, d2) \/ HasRow(s2, d2) => Line(s2, d2) = Line(s, d)
    <3> SUFFICES ASSUME s2 < HEIGHT \/ s2 = PRERENDER
                 PROVE  Line(s2, d2) = Line(s, d)
      BY DEF HasColumn, HasRow
    <3>1. TILE \in Nat /\ TILE >= 2 /\ d > WIDTH
      BY <1>1, Layout, Sizes
    <3> QED BY <1>1, <1>2, <3>1, Layout DEF NextPlace, Line
  <2>3. IF d < PREFETCH + 2 * TILE
        THEN /\ Offset(d) = d - PREFETCH - 2 * TILE
             /\ Offset(d2) = Offset(d) + 1
        ELSE Offset(d) = 0 /\ Offset(d2) = 0
    <3>1. TILE \in Nat /\ TILE >= 2 /\ d > WIDTH
      BY <1>1, Layout, Sizes
    <3>2. CASE d < PREFETCH + 2 * TILE /\ d # LAST_DOT
      <4>1. d2 = d + 1
        BY <3>2 DEF NextPlace
      <4> QED BY <1>1, <3>1, <3>2, <4>1, Layout DEF Offset
    <3>3. CASE d < PREFETCH + 2 * TILE /\ d = LAST_DOT
      <4>1. Offset(d2) = 0
        BY <3>3, Layout, Sizes DEF NextPlace, Offset
      <4>2. d = PREFETCH + 2 * TILE - 1
        BY <1>1, <3>1, <3>3, Layout
      <4> QED BY <1>1, <3>1, <4>1, <4>2, Layout DEF Offset
    <3>4. CASE ~(d < PREFETCH + 2 * TILE)
      <4>1. Offset(d) = 0
        BY <1>1, <3>1, <3>4, Layout DEF Offset
      <4>2. Offset(d2) = 0
        BY <1>1, <3>1, <3>4, Layout DEF NextPlace, Offset
      <4> QED BY <3>4, <4>1, <4>2
    <3> QED BY <3>2, <3>3, <3>4
  <2> QED BY <2>1, <2>2, <2>3
<1> QED BY <1>3, <1>4, <1>5, <1>6, <1>7, <1>8

LEMMA Phase ==
  ASSUME NEW d, d \in Int
  PROVE  d % TILE = (d - PREFETCH - 2 * TILE + 1) % TILE
<1> DEFINE k == d - PREFETCH - 2 * TILE + 1
           a == k \div TILE
           b == k % TILE
           q == PREFETCH \div TILE
<1>1. TILE \in Nat \ {0} /\ PREFETCH \in Nat /\ k \in Int
  BY Sizes, Layout
<1>2. PREFETCH = TILE * q + 1 /\ q \in Int
  BY <1>1, Layout, Quotient
<1> HIDE DEF q
<1>3. d = k + PREFETCH + 2 * TILE - 1
  BY <1>1
<1> HIDE DEF k
<1>4. a \in Int /\ b \in Int /\ 0 <= b /\ b < TILE /\ k = TILE * a + b
  BY <1>1, Quotient
<1> HIDE DEF a, b
<1>5. d = TILE * (a + q + 2) + b
  BY <1>1, <1>2, <1>3, <1>4
<1>6. a + q + 2 \in Int
  BY <1>2, <1>4
<1> DEFINE e == a + q + 2
<1> HIDE DEF e
<1>7. d = TILE * e + b /\ e \in Int
  BY <1>5, <1>6 DEF e
<1>8. d % TILE = b
  BY ONLY <1>1, <1>4, <1>7, QuotientIs, d \in Int
<1> QED BY <1>8 DEF b, k

LEMMA DotType ==
  ASSUME PipelineType, Dot
  PROVE  /\ PipelineType'
         /\ NextPlace(raster.scanline, dot, raster'.scanline, raster'.dot)
         /\ raster'.background = raster.background
         /\ ReloadsX => CameraTile' = ColumnOf(tmp_address)
         /\ ~ReloadsX => CameraTile' = CameraTile
<1> USE DEF PipelineType
<1>1. raster' = ppu_cycle(raster)
  BY DEF Dot
<1>2. raster' \in PpuType /\ raster'.background = raster.background
  BY <1>1, RasterStep
<1>3. NextPlace(raster.scanline, dot, raster'.scanline, raster'.dot)
  BY <1>1, RasterStep DEF NextPlace, dot
<1>4. cur_address' \in Nat
  <2> DEFINE x == IF OnX /\ Rendering THEN x_increment(cur_address) ELSE cur_address
  <2>1. x \in Nat
    BY XIncrement
  <2>2. cur_address' = IF OnY /\ Rendering THEN y_increment(x)
                       ELSE IF ReloadsX THEN x_reload(x, tmp_address)
                       ELSE IF ReloadsY THEN y_reload(x, tmp_address) ELSE x
    BY DEF Dot, AddressAfter
  <2> HIDE DEF x
  <2>3. y_increment(x) \in Nat /\ x_reload(x, tmp_address) \in Nat
        /\ y_reload(x, tmp_address) \in Nat
    BY <2>1, YIncrement, Reloads
  <2> QED BY <2>1, <2>2, <2>3
<1>5. tmp_address' = tmp_address /\ scroll_x_fine' = scroll_x_fine /\ asked' = asked
  BY DEF Dot
<1>6. asked' = AsPosition(tmp_address')
  BY <1>5
<1>7. shift' = [i \in 1 .. 2 * TILE |-> shift'[i]]
  <2>1. shift' = ShiftAfter
    BY DEF Dot
  <2> QED BY <2>1, ShiftShape
<1>8. steady' \in BOOLEAN
  <2>1. raster.background \in BOOLEAN
    BY DEF PpuType
  <2> QED BY <2>1 DEF Dot
<1>9. /\ CameraTile' = IF ReloadsX THEN ColumnOf(tmp_address) ELSE CameraTile
      /\ CameraTile' \in Nat /\ camera'.column = TILE * CameraTile'
      /\ camera'.row \in Nat
  <2>1. camera' = [column |-> IF ReloadsX THEN AskedColumn ELSE camera.column,
                   row    |-> IF ReloadsY THEN AskedRow ELSE camera.row]
    BY DEF Dot
  <2>2. /\ AskedColumn = TILE * ColumnOf(tmp_address) /\ AskedRow \in Nat
        /\ ColumnOf(tmp_address) \in 0 .. 2 * COLS - 1
    BY Position
  <2> DEFINE tile == IF ReloadsX THEN ColumnOf(tmp_address) ELSE CameraTile
  <2>3. tile \in Nat
    <3>1. \A j \in 0 .. 2 * COLS - 1 : j \in Nat
      BY Sizes
    <3> QED BY <2>2, <3>1
  <2>4. camera'.column = TILE * tile /\ camera'.row \in Nat
    BY <2>1, <2>2
  <2> HIDE DEF tile
  <2>5. camera'.column \div TILE = tile
    <3>1. /\ TILE \in Nat \ {0} /\ TILE * tile \in Int /\ TILE * tile = TILE * tile + 0
          /\ tile \in Int /\ 0 < TILE /\ 0 \in Int /\ 0 <= 0
      <4>1. TILE \in Nat /\ TILE >= 2
        BY Sizes
      <4> QED BY ONLY <2>3, <4>1
    <3>2. (TILE * tile) \div TILE = tile
      BY ONLY <3>1, QuotientIs
    <3> QED BY <2>4, <3>2
  <2>6. CameraTile' = tile
    BY <2>5 DEF CameraTile
  <2> QED BY <2>3, <2>4, <2>6 DEF tile
<1> QED BY <1>2, <1>3, <1>4, <1>5, <1>6, <1>7, <1>8, <1>9

(* A dot that does not fetch. *)
LEMMA Idle ==
  ASSUME ~FetchesTile
  PROVE  /\ ShiftAfter = shift
         /\ \A n, c, r : Latched(n, c, r, latches) => Latched(n, c, r, LatchesAfter)
<1>1. ATTRIBUTE # 0 /\ LOW # 0 /\ HIGH # 0
  BY BackgroundAssumption
<1>2. /\ LatchesAfter.name = latches.name /\ LatchesAfter.palette = latches.palette
      /\ LatchesAfter.low = latches.low /\ LatchesAfter.high = latches.high
  BY <1>1 DEF LatchesAfter
<1> QED BY <1>2 DEF ShiftAfter, Latched

(* Before the first tile nothing is asked of the latches and the registers. *)
LEMMA Before ==
  ASSUME NEW n, n = 0 - 2 * TILE, NEW c, NEW r, NEW read, NEW register
  PROVE  Latched(n, c, r, read) /\ Shifts(n, c, r, register)
<1>1. TILE \in Nat /\ TILE >= 2 /\ TILE \in Nat \ {0}
  BY Sizes
<1>2. n \in Int /\ n = TILE * (-2) + 0 /\ -2 \in Int /\ 0 \in Int /\ 0 < TILE /\ 0 <= 0
  BY <1>1
<1>3. n \div TILE = -2 /\ n % TILE = 0
  BY ONLY <1>1, <1>2, QuotientIs
<1>4. ~(0 >= ATTRIBUTE) /\ ~(0 >= LOW) /\ ~(0 >= HIGH)
  BY <1>1, BackgroundAssumption
<1>5. Latched(n, c, r, read)
  BY <1>3, <1>4 DEF Latched
<1>6. \A i \in 1 .. LastLoaded(n) : ~(n + i - 2 >= 0)
  BY <1>1, <1>2, <1>3 DEF LastLoaded
<1> QED BY <1>5, <1>6 DEF Shifts

(* While the picture is steady, a dot keeps the pipeline in its place. *)
LEMMA DotStep ==
  ASSUME PipelineInv, Dot
  PROVE  PipelineInv'
<1> DEFINE s == raster.scanline
           d == dot
           s2 == raster'.scanline
           d2 == raster'.dot
           c == CameraTile
           r == camera.row
           row == Row(r, s, d)
           n == Offset(d)
           pipe == Pipeline(c, r, s, d, cur_address, latches, shift)
           pipe2 == Pipeline(CameraTile', camera'.row, s2, d2, cur_address', latches', shift')
<1>1. PipelineType /\ PipelineType' /\ NextPlace(s, d, s2, d2)
      /\ raster'.background = raster.background
      /\ (ReloadsX => CameraTile' = ColumnOf(tmp_address))
      /\ (~ReloadsX => CameraTile' = CameraTile)
  BY DotType DEF PipelineInv
<1>2. /\ cur_address' = AddressAfter /\ latches' = LatchesAfter /\ shift' = ShiftAfter
      /\ camera'.row = IF ReloadsY THEN AskedRow ELSE camera.row
      /\ steady' = IF PreRender /\ dot = WIDTH + 1 THEN raster.background
                   ELSE steady /\ (ReloadsY => asked.y < HEIGHT)
  BY DEF Dot
<1>3. s \in 0 .. PRERENDER /\ d \in 0 .. LAST_DOT
  BY <1>1 DEF PipelineType, PpuType, dot
<1>4. c \in Nat /\ r \in Nat /\ cur_address \in Nat /\ tmp_address \in Nat
      /\ asked = AsPosition(tmp_address) /\ shift = [i \in 1 .. 2 * TILE |-> shift[i]]
  BY <1>1 DEF PipelineType
<1>5. SUFFICES ASSUME steady'
      PROVE  raster'.background /\ pipe2
  BY <1>1 DEF PipelineInv, dot
<1>6. raster.background /\ (~(PreRender /\ d = WIDTH + 1) => pipe)
  BY <1>2, <1>5 DEF PipelineInv
<1>7. /\ PreRender <=> s = PRERENDER
      /\ Visible <=> s < HEIGHT
      /\ Rendering
  BY <1>6 DEF PreRender, Visible, Rendering
<1>8. /\ s \in Int /\ 0 <= s /\ s <= PRERENDER /\ d \in Int /\ 0 <= d /\ d <= LAST_DOT
  BY <1>3, Layout
<1> HIDE DEF c, r, row, n, pipe, pipe2, s, d, s2, d2
<1> SUFFICES pipe2
  BY <1>1, <1>6
<1>9. CASE s >= HEIGHT /\ (s # PRERENDER \/ d <= WIDTH)
  BY <1>1, <1>3, <1>9, Places DEF pipe2, Pipeline
<1>10. CASE \/ s < HEIGHT /\ d = 0
            \/ (s < HEIGHT \/ s = PRERENDER) /\ d >= PREFETCH + 2 * TILE
  <2>1. /\ HasColumn(s, d) /\ HasRow(s, d) /\ n = 0 /\ Offset(d2) = 0
        /\ HasColumn(s2, d2) \/ HasRow(s2, d2) => Line(s2, d2) = Line(s, d)
    <3>1. CASE s < HEIGHT /\ d = 0
      BY <1>1, <1>3, <3>1, Places DEF n
    <3>2. CASE (s < HEIGHT \/ s = PRERENDER) /\ d >= PREFETCH + 2 * TILE
      <4>1. d >= PREFETCH /\ ~(d < PREFETCH + 2 * TILE)
        BY ONLY <1>8, <3>2, Layout, Sizes
      <4> QED BY <1>1, <1>3, <3>2, <4>1, Places DEF n
    <3> QED BY <1>10, <3>1, <3>2
  <2>2. ~FetchesTile /\ ~OnX /\ ~OnY /\ ~ReloadsX /\ ~ReloadsY
    <3>1. d = 0 \/ d >= PREFETCH + 2 * TILE
      BY <1>10
    <3>2. d # WIDTH /\ d # WIDTH + 1 /\ d \notin RELOAD /\ d \notin 1 .. WIDTH
          /\ d \notin PREFETCH .. PREFETCH + 2 * TILE - 1
      BY ONLY <1>8, <3>1, Layout, Sizes
    <3> QED BY <3>2 DEF FetchesTile, OnX, OnY, ReloadsX, ReloadsY, d
  <2>3. /\ cur_address' = cur_address /\ shift' = shift
        /\ \A i, j, k : Latched(i, j, k, latches) => Latched(i, j, k, latches')
    BY <1>2, <2>2, Idle DEF AddressAfter
  <2>4. CameraTile' = c /\ camera'.row = r
    BY <1>1, <1>2, <2>2 DEF c, r
  <2>5. pipe
    <3>1. d # WIDTH + 1
      BY <1>8, <1>10, Layout, Sizes
    <3> QED BY <1>6, <3>1
  <2>6. /\ Ahead(0, c, cur_address) /\ CoarseY(cur_address) < ROWS
        /\ RowOf(cur_address) = row
        /\ Latched(0, c, row, latches) /\ Shifts(0, c, row, shift)
    BY <2>1, <2>5 DEF pipe, Pipeline, n, row
  <2>7. HasColumn(s2, d2) \/ HasRow(s2, d2) => Row(r, s2, d2) = row
    BY <2>1 DEF Row, row
  <2> QED BY <2>1, <2>3, <2>4, <2>6, <2>7 DEF pipe2, Pipeline
<1>11. CASE s < HEIGHT /\ d \in 1 .. WIDTH
  <2>1. /\ HasColumn(s, d) /\ HasRow(s, d) /\ n = d - 1
        /\ IF d = WIDTH
           THEN ~HasColumn(s2, d2) /\ Line(s2, d2) = Line(s, d) + 1
           ELSE Offset(d2) = n + 1 /\ Line(s2, d2) = Line(s, d)
    BY <1>1, <1>3, <1>11, Places DEF n
  <2>2. 1 <= d /\ d <= WIDTH /\ WIDTH \in Nat
    BY <1>11, Layout
  <2>3. FetchesTile /\ ~ReloadsX /\ ~ReloadsY
    <3>1. d # WIDTH + 1 /\ d \notin RELOAD
      BY <1>8, <2>2, Layout
    <3> QED BY <1>7, <1>11, <3>1 DEF FetchesTile, ReloadsX, ReloadsY, d
  <2>4. pipe
    <3>1. d # WIDTH + 1
      BY <1>8, <2>2
    <3> QED BY <1>6, <3>1
  <2>5. /\ Ahead(n, c, cur_address) /\ CoarseY(cur_address) < ROWS
        /\ RowOf(cur_address) = row
        /\ Latched(n, c, row, latches) /\ Shifts(n, c, row, shift)
    BY <2>1, <2>4 DEF pipe, Pipeline, n, row
  <2>6. n \in Int /\ n >= 0 - 2 * TILE /\ dot % TILE = (n + 1) % TILE
    <3>1. n \in Int /\ n >= 0 - 2 * TILE /\ n + 1 = d
      BY <1>8, <2>1, <2>2, Sizes
    <3> QED BY <3>1 DEF d
  <2>7. /\ cur_address' \in Nat /\ CoarseY(cur_address') < ROWS
        /\ RowOf(cur_address') = IF d = WIDTH THEN After(row, 2 * HEIGHT) ELSE row
        /\ Ahead(n + 1, c, cur_address')
        /\ Latched(n + 1, c, row, latches') /\ Shifts(n + 1, c, row, shift')
    BY <1>2, <1>4, <1>6, <2>3, <2>5, <2>6, FetchStep DEF d
  <2>8. CameraTile' = c /\ camera'.row = r
    BY <1>1, <1>2, <2>3 DEF c, r
  <2>9. Row(r, s2, d2) = IF d = WIDTH THEN After(row, 2 * HEIGHT) ELSE row
    <3>1. Line(s, d) = s
      BY <1>8, <1>11, <2>2, Layout DEF Line
    <3> DEFINE k == r + s
               m == 2 * HEIGHT
    <3>2. k \in Nat /\ m \in Nat \ {0} /\ r + (s + 1) = k + 1
      <4>1. r \in Nat /\ s \in Nat /\ HEIGHT \in Nat \ {0}
        BY <1>4, <1>8, Layout
      <4> QED BY ONLY <4>1
    <3> HIDE DEF k, m
    <3>3. (k + 1) % m = After(k % m, m)
      BY <3>2, NextAround
    <3> QED BY <2>1, <3>1, <3>2, <3>3 DEF Row, row, k, m
  <2> QED BY <2>1, <2>7, <2>8, <2>9 DEF pipe2, Pipeline
<1>12. CASE (s < HEIGHT \/ s = PRERENDER) /\ d = WIDTH + 1
  <2>1. /\ Offset(d2) = 0 - 2 * TILE
        /\ HasRow(s2, d2) => HasRow(s, d) /\ Line(s2, d2) = Line(s, d)
    BY <1>1, <1>3, <1>12, Places
  <2>2. ReloadsX /\ ~FetchesTile /\ ~OnX /\ ~OnY /\ ~ReloadsY
    <3>1. d # WIDTH /\ d \notin RELOAD /\ d \notin 1 .. WIDTH
          /\ d \notin PREFETCH .. PREFETCH + 2 * TILE - 1
      BY <1>12, Layout, Sizes
    <3> QED BY <1>7, <1>12, <3>1 DEF FetchesTile, OnX, OnY, ReloadsX, ReloadsY, d
  <2>3. cur_address' = x_reload(cur_address, tmp_address)
    BY <1>2, <2>2 DEF AddressAfter
  <2>4. /\ SameRow(cur_address, cur_address')
        /\ ColumnOf(cur_address') = ColumnOf(tmp_address)
    BY <1>4, <2>3, Reloads DEF SameColumn, ColumnOf
  <2>5. Ahead(Offset(d2), CameraTile', cur_address')
    <3> DEFINE z == ColumnOf(tmp_address)
    <3>1. z \in 0 .. 2 * COLS - 1
      BY <1>4, Position
    <3>2. CameraTile' = z
      BY <1>1, <2>2
    <3> HIDE DEF z
    <3>3. z % (2 * COLS) = z
      BY <3>1, Sizes
    <3>4. (0 - 2 * TILE) \div TILE = -2
      <4>1. /\ TILE \in Nat \ {0} /\ 0 - 2 * TILE = TILE * (-2) + 0 /\ 0 - 2 * TILE \in Int
            /\ -2 \in Int /\ 0 \in Int /\ 0 <= 0 /\ 0 < TILE
        BY Sizes
      <4> QED BY ONLY <4>1, QuotientIs
    <3>5. z + (2 + -2) = z
      BY <3>1, Sizes
    <3> QED BY <2>1, <2>4, <3>2, <3>3, <3>4, <3>5 DEF Ahead, Column, z
  <2>6. HasRow(s2, d2) => /\ CoarseY(cur_address') < ROWS
                         /\ RowOf(cur_address') = Row(r, s2, d2)
    <3> SUFFICES ASSUME HasRow(s2, d2)
                 PROVE  CoarseY(cur_address') < ROWS /\ RowOf(cur_address') = Row(r, s2, d2)
      OBVIOUS
    <3>1. s < HEIGHT
      <4>1. HasRow(s, d)
        BY <2>1
      <4> QED BY <1>12, <4>1, Layout DEF HasRow
    <3>2. pipe
      BY <1>6, <1>7, <1>8, <3>1, Layout
    <3>3. CoarseY(cur_address) < ROWS /\ RowOf(cur_address) = Row(r, s, d)
      BY <2>1, <3>2 DEF pipe, Pipeline
    <3>4. Row(r, s2, d2) = Row(r, s, d)
      BY <2>1 DEF Row
    <3> QED BY <2>4, <3>3, <3>4 DEF SameRow, RowOf
  <2>7. camera'.row = r
    BY <1>2, <2>2 DEF r
  <2>8. ASSUME NEW i, NEW j PROVE Latched(Offset(d2), i, j, latches')
                                  /\ Shifts(Offset(d2), i, j, shift')
    BY <2>1, Before
  <2> QED BY <2>5, <2>6, <2>7, <2>8 DEF pipe2, Pipeline
<1>13. CASE (s < HEIGHT \/ s = PRERENDER) /\ d \in WIDTH + 2 .. PREFETCH - 1
  <2>1. /\ HasColumn(s, d) /\ Line(s2, d2) = Line(s, d)
        /\ n = 0 - 2 * TILE /\ Offset(d2) = n
        /\ HasRow(s2, d2) => HasRow(s, d) \/ (s = PRERENDER /\ d \in RELOAD)
    BY <1>1, <1>3, <1>13, Places DEF n
  <2>2. d # WIDTH /\ d # WIDTH + 1 /\ d \notin 1 .. WIDTH
        /\ d \notin PREFETCH .. PREFETCH + 2 * TILE - 1
    BY ONLY <1>8, <1>13, Layout, Sizes
  <2>3. ~ReloadsX /\ ~FetchesTile /\ ~OnX /\ ~OnY
        /\ (ReloadsY <=> s = PRERENDER /\ d \in RELOAD)
    BY <1>7, <2>2 DEF FetchesTile, OnX, OnY, ReloadsX, ReloadsY, d
  <2>4. cur_address' = IF ReloadsY THEN y_reload(cur_address, tmp_address) ELSE cur_address
    BY <1>2, <2>3 DEF AddressAfter
  <2>5. pipe
    BY <1>6, <2>2
  <2>6. CameraTile' = c
    BY <1>1, <2>3 DEF c
  <2>7. Ahead(Offset(d2), CameraTile', cur_address')
    <3>1. Ahead(n, c, cur_address)
      BY <2>1, <2>5 DEF pipe, Pipeline, n
    <3>2. ColumnOf(cur_address') = ColumnOf(cur_address)
      BY <1>4, <2>4, Reloads DEF SameColumn, ColumnOf
    <3> QED BY <2>1, <2>6, <3>1, <3>2 DEF Ahead
  <2>8. HasRow(s2, d2) => /\ CoarseY(cur_address') < ROWS
                         /\ RowOf(cur_address') = Row(camera'.row, s2, d2)
    <3>1. CASE ReloadsY
      <4>1. SameRow(tmp_address, cur_address')
        BY <1>4, <2>4, <3>1, Reloads
      <4>2. asked.y < HEIGHT /\ camera'.row = AskedRow
        BY <1>2, <1>5, <2>2, <3>1 DEF d
      <4>3. CoarseY(tmp_address) < ROWS /\ RowOf(tmp_address) < 2 * HEIGHT
            /\ RowOf(tmp_address) \in Nat /\ camera'.row = RowOf(tmp_address)
        BY <1>4, <4>2, Position
      <4>4. Line(s2, d2) = 0
        BY <2>1, <2>3, <3>1 DEF Line
      <4> DEFINE z == RowOf(tmp_address)
      <4> HIDE DEF z
      <4>5. z \in Nat /\ z < 2 * HEIGHT
        BY <4>3 DEF z
      <4>6. (z + 0) % (2 * HEIGHT) = z
        BY <4>5, Layout
      <4>7. Row(camera'.row, s2, d2) = z
        BY <4>3, <4>4, <4>6 DEF Row, z
      <4>8. RowOf(cur_address') = z /\ CoarseY(cur_address') < ROWS
        BY <4>1, <4>3 DEF SameRow, RowOf, z
      <4> QED BY <4>7, <4>8
    <3>2. CASE ~ReloadsY
      <4>1. cur_address' = cur_address /\ camera'.row = r
        BY <1>2, <2>4, <3>2 DEF r
      <4>2. HasRow(s2, d2) => HasRow(s, d) /\ Row(r, s2, d2) = row
        BY <2>1, <2>3, <3>2 DEF Row, row
      <4>3. HasRow(s, d) => CoarseY(cur_address) < ROWS /\ RowOf(cur_address) = row
        BY <2>5 DEF pipe, Pipeline, row
      <4> QED BY <4>1, <4>2, <4>3
    <3> QED BY <3>1, <3>2
  <2>9. ASSUME NEW i, NEW j PROVE Latched(Offset(d2), i, j, latches')
                                  /\ Shifts(Offset(d2), i, j, shift')
    BY <2>1, Before
  <2> QED BY <2>7, <2>8, <2>9 DEF pipe2, Pipeline
<1>14. CASE (s < HEIGHT \/ s = PRERENDER) /\ d \in PREFETCH .. PREFETCH + 2 * TILE - 1
  <2>1. /\ HasColumn(s, d) /\ HasRow(s, d)
        /\ HasColumn(s2, d2) \/ HasRow(s2, d2) => Line(s2, d2) = Line(s, d)
        /\ n = d - PREFETCH - 2 * TILE /\ Offset(d2) = n + 1
    <3>1. d >= PREFETCH /\ d < PREFETCH + 2 * TILE
      BY ONLY <1>8, <1>14, Layout, Sizes
    <3> QED BY <1>1, <1>3, <1>14, <3>1, Places DEF n
  <2>2. d # WIDTH /\ d # WIDTH + 1 /\ d \notin RELOAD
        /\ n \in Int /\ n >= 0 - 2 * TILE /\ n + 1 = d - PREFETCH - 2 * TILE + 1
    BY ONLY <1>8, <1>14, <2>1, Layout, Sizes
  <2>3. FetchesTile /\ ~ReloadsX /\ ~ReloadsY
    BY <1>7, <1>14, <2>2 DEF FetchesTile, ReloadsX, ReloadsY, d
  <2>4. pipe
    BY <1>6, <2>2
  <2>5. /\ Ahead(n, c, cur_address) /\ CoarseY(cur_address) < ROWS
        /\ RowOf(cur_address) = row
        /\ Latched(n, c, row, latches) /\ Shifts(n, c, row, shift)
    BY <2>1, <2>4 DEF pipe, Pipeline, n, row
  <2>6. dot % TILE = (n + 1) % TILE
    BY <1>8, <2>2, Phase DEF d
  <2>7. /\ CoarseY(cur_address') < ROWS /\ RowOf(cur_address') = row
        /\ Ahead(n + 1, c, cur_address')
        /\ Latched(n + 1, c, row, latches') /\ Shifts(n + 1, c, row, shift')
    BY <1>2, <1>4, <1>6, <2>2, <2>3, <2>5, <2>6, FetchStep DEF d
  <2>8. CameraTile' = c /\ camera'.row = r
    BY <1>1, <1>2, <2>3 DEF c, r
  <2>9. HasColumn(s2, d2) \/ HasRow(s2, d2) => Row(r, s2, d2) = row
    BY <2>1 DEF Row, row
  <2> QED BY <2>1, <2>7, <2>8, <2>9 DEF pipe2, Pipeline
<1>15. \/ d = 0 \/ d \in 1 .. WIDTH \/ d = WIDTH + 1
       \/ d \in WIDTH + 2 .. PREFETCH - 1
       \/ d \in PREFETCH .. PREFETCH + 2 * TILE - 1 \/ d >= PREFETCH + 2 * TILE
  BY ONLY <1>8, Layout, Sizes
<1>16. s < HEIGHT \/ s >= HEIGHT
  BY ONLY <1>8, Layout
<1>17. d = 0 \/ d \in 1 .. WIDTH => d <= WIDTH
  BY Layout
<1> QED
  BY <1>9, <1>10, <1>11, <1>12, <1>13, <1>14, <1>15, <1>16, <1>17

-----------------------------------------------------------------------------
(* What the program does between two dots. *)
LEMMA ProgramStep ==
  ASSUME PipelineInv, Program
  PROVE  PipelineInv' /\ raster'.dot = dot
<1> DEFINE same == /\ raster'.dot = dot /\ raster'.scanline = raster.scanline
                   /\ raster'.background = raster.background
           kept == /\ camera' = camera /\ latches' = latches /\ shift' = shift
           CameraType == CameraTile' \in Nat /\ camera'.column = TILE * CameraTile'
                         /\ camera'.row \in Nat
<1>1. /\ raster \in PpuType /\ steady \in BOOLEAN
      /\ cur_address \in Nat /\ tmp_address \in Nat /\ scroll_x_fine \in 0 .. TILE - 1
      /\ shift = [i \in 1 .. 2 * TILE |-> shift[i]]
      /\ asked = AsPosition(tmp_address)
  BY DEF PipelineInv, PipelineType
<1>2. ASSUME kept
      PROVE  shift' = [i \in 1 .. 2 * TILE |-> shift'[i]] /\ CameraType
  BY <1>1, <1>2 DEF PipelineInv, PipelineType, CameraTile
<1>3. ASSUME NEW register, Uses(register)
      PROVE  kept
  BY <1>3 DEF Uses, pipeline
<1>4. /\ write_twice(raster) \in PpuType /\ write_twice(raster).dot = dot
      /\ write_twice(raster).scanline = raster.scanline
      /\ write_twice(raster).background = raster.background
  BY <1>1 DEF PpuType, write_twice, dot
<1> HIDE DEF CameraType
<1>5. ASSUME kept, same, raster' \in PpuType, steady' \in BOOLEAN,
             cur_address' \in Nat, tmp_address' \in Nat,
             scroll_x_fine' \in 0 .. TILE - 1, asked' = AsPosition(tmp_address'),
             steady' => steady /\ cur_address' = cur_address
      PROVE  PipelineInv' /\ raster'.dot = dot
  <2>1. PipelineType'
    BY <1>2, <1>5 DEF PipelineType, CameraType
  <2> QED BY <1>5, <2>1, Untouched
<1>6. CASE WritePpuCtrl
  <2>1. PICK table \in Tables :
          /\ Uses("ctrl")
          /\ tmp_address' = SelectTable(tmp_address, table[1], table[2])
          /\ asked' = [asked EXCEPT !.right = table[1], !.lower = table[2]]
          /\ UNCHANGED <<raster, foreground, cur_address, scroll_x_fine, steady>>
    BY <1>6 DEF WritePpuCtrl
  <2>2. table[1] \in {0, 1} /\ table[2] \in {0, 1}
    BY BackgroundAssumption
  <2>3. tmp_address' \in Nat /\ asked' = AsPosition(tmp_address')
    BY <1>1, <2>1, <2>2, Writes
  <2>4. kept
    BY <1>3, <2>1
  <2>5. same
    BY <2>1 DEF dot
  <2> QED BY <1>1, <1>5, <2>1, <2>3, <2>4, <2>5
<1>7. CASE WritePpuMask
  <2>1. PICK mask \in Masks :
          /\ Uses("mask") /\ raster' = write_ppumask(raster, mask[1])
          /\ steady' = FALSE /\ UNCHANGED <<addresses, asked>>
    BY <1>7 DEF WritePpuMask
  <2>2. kept
    BY <1>3, <2>1
  <2>3. raster' \in PpuType /\ raster'.dot = dot
    <3>1. mask[1] \in BOOLEAN
      BY BackgroundAssumption
    <3> QED BY <1>1, <2>1, <3>1 DEF PpuType, write_ppumask, dot
  <2>4. /\ cur_address' = cur_address /\ tmp_address' = tmp_address
        /\ scroll_x_fine' = scroll_x_fine /\ asked' = asked
    BY <2>1 DEF addresses
  <2>5. PipelineType'
    BY <1>1, <1>2, <2>1, <2>2, <2>3, <2>4 DEF PipelineType, CameraType
  <2> QED BY <2>1, <2>3, <2>5 DEF PipelineInv
<1>8. CASE WriteScrollX
  <2>1. PICK data \in ScrollXs :
          /\ Uses("scroll") /\ tmp_address' = ScrollX(tmp_address, data)
          /\ scroll_x_fine' = data % TILE /\ raster' = write_twice(raster)
          /\ asked' = [asked EXCEPT !.column = data \div TILE]
          /\ UNCHANGED <<foreground, cur_address, steady>>
    BY <1>8 DEF WriteScrollX
  <2>2. data \in 0 .. WIDTH - 1 /\ data \in Int
    BY BackgroundAssumption, Layout
  <2>3. tmp_address' \in Nat /\ asked' = AsPosition(tmp_address')
    BY <1>1, <2>1, <2>2, Writes
  <2>4. data % TILE \in 0 .. TILE - 1
    BY <2>2, Sizes, Quotient
  <2>5. kept
    BY <1>3, <2>1
  <2> QED BY <1>1, <1>4, <1>5, <2>1, <2>3, <2>4, <2>5
<1>9. CASE WriteScrollY
  <2>1. PICK data \in ScrollYs :
          /\ Uses("scroll") /\ tmp_address' = ScrollY(tmp_address, data)
          /\ raster' = write_twice(raster) /\ asked' = [asked EXCEPT !.y = data]
          /\ UNCHANGED <<foreground, cur_address, scroll_x_fine, steady>>
    BY <1>9 DEF WriteScrollY
  <2>2. data \in 0 .. COARSE_Y * TILE - 1
    BY BackgroundAssumption
  <2>3. tmp_address' \in Nat /\ asked' = AsPosition(tmp_address')
    BY <1>1, <2>1, <2>2, Writes
  <2>4. kept
    BY <1>3, <2>1
  <2> QED BY <1>1, <1>4, <1>5, <2>1, <2>3, <2>4
<1>10. CASE WriteAddressHigh
  <2>1. PICK data \in AddressBytes :
          /\ Uses("address") /\ tmp_address' = HighByte(tmp_address, data)
          /\ raster' = write_twice(raster) /\ asked' = AsPosition(tmp_address')
          /\ UNCHANGED <<foreground, cur_address, scroll_x_fine, steady>>
    BY <1>10 DEF WriteAddressHigh
  <2>2. tmp_address' \in Nat
    BY <1>1, <2>1, OtherWrites
  <2>3. kept
    BY <1>3, <2>1
  <2> QED BY <1>1, <1>4, <1>5, <2>1, <2>2, <2>3
<1>11. CASE WriteAddressLow
  <2>1. PICK data \in AddressBytes :
          /\ Uses("address") /\ tmp_address' = LowByte(tmp_address, data)
          /\ cur_address' = tmp_address'
          /\ raster' = write_twice(raster) /\ asked' = AsPosition(tmp_address')
          /\ steady' = FALSE /\ UNCHANGED <<foreground, scroll_x_fine>>
    BY <1>11 DEF WriteAddressLow
  <2>2. tmp_address' \in Nat
    BY <1>1, <2>1, OtherWrites
  <2>3. kept
    BY <1>3, <2>1
  <2> QED BY <1>1, <1>4, <1>5, <2>1, <2>2, <2>3
<1>12. CASE ReadPpuStatus
  <2>1. /\ Uses("status") /\ raster' = read_ppustatus(raster)
        /\ UNCHANGED <<foreground, addresses, asked, steady>>
    BY <1>12 DEF ReadPpuStatus
  <2>2. kept
    BY <1>3, <2>1
  <2>3. raster' \in PpuType /\ same
    BY <1>1, <2>1 DEF PpuType, read_ppustatus, dot
  <2>4. /\ cur_address' = cur_address /\ tmp_address' = tmp_address
        /\ scroll_x_fine' = scroll_x_fine /\ asked' = asked /\ steady' = steady
    BY <2>1 DEF addresses
  <2> QED BY <1>1, <1>5, <2>2, <2>3, <2>4
<1>13. CASE AccessData
  <2>1. PICK step \in {1, RowUnit} :
          /\ Uses("data") /\ cur_address' = Stepped(cur_address, step)
          /\ steady' = FALSE
          /\ UNCHANGED <<raster, foreground, tmp_address, scroll_x_fine, asked>>
    BY <1>13 DEF AccessData
  <2>2. cur_address' \in Nat
    BY <1>1, <2>1, OtherWrites
  <2>3. kept
    BY <1>3, <2>1
  <2>4. same
    BY <2>1 DEF dot
  <2> QED BY <1>1, <1>5, <2>1, <2>2, <2>3, <2>4
<1> QED BY <1>6, <1>7, <1>8, <1>9, <1>10, <1>11, <1>12, <1>13 DEF Program

-----------------------------------------------------------------------------
(* The pixel that leaves the register is the one of the place in the picture. *)
LEMMA Around ==
  ASSUME NEW c \in Nat, NEW k \in Nat, NEW m \in Nat \ {0}
  PROVE  /\ ((TILE * c + k) % (m * TILE)) \div TILE = (c + (k \div TILE)) % m
         /\ ((TILE * c + k) % (m * TILE)) % TILE = k % TILE
<1> DEFINE a == k \div TILE
           b == k % TILE
           e == (c + a) % m
           q == (c + a) \div m
           z == TILE * c + k
           w == TILE * e + b
<1>1. TILE \in Nat /\ TILE >= 2 /\ m * TILE \in Nat \ {0}
  BY Sizes
<1>2. a \in Nat /\ b \in Int /\ 0 <= b /\ b < TILE /\ k = TILE * a + b
  BY <1>1, Quotient
<1> HIDE DEF a, b
<1>3. e \in Int /\ 0 <= e /\ e <= m - 1 /\ q \in Int /\ c + a = m * q + e
  BY <1>2, Quotient
<1> HIDE DEF e, q
<1>4. z = (m * TILE) * q + w
  <2>1. z = TILE * (c + a) + b
    BY <1>1, <1>2
  <2>2. TILE * (c + a) = TILE * (m * q + e)
    BY <1>3
  <2>3. TILE * (m * q + e) = (m * TILE) * q + TILE * e
    BY <1>1, <1>3
  <2>4. TILE * e \in Int /\ (m * TILE) * q \in Int
    BY <1>1, <1>3
  <2> QED BY <1>2, <2>1, <2>2, <2>3, <2>4
<1>5. w \in Int /\ 0 <= w /\ w < m * TILE
  <2>1. e * TILE <= (m - 1) * TILE /\ 0 * TILE <= e * TILE
    BY <1>1, <1>3, Product
  <2>2. (m - 1) * TILE = m * TILE - TILE /\ 0 * TILE = 0 /\ e * TILE = TILE * e
    BY <1>1, <1>3
  <2>3. TILE * e \in Int /\ m * TILE \in Int
    BY <1>1, <1>3
  <2> QED BY <1>1, <1>2, <2>1, <2>2, <2>3
<1>6. z % (m * TILE) = w
  <2>1. z \in Int
    BY <1>1
  <2> HIDE DEF z, w
  <2> DEFINE d == m * TILE
  <2>2. d \in Nat \ {0} /\ z = d * q + w /\ w < d
    BY <1>1, <1>4, <1>5
  <2> HIDE DEF d
  <2>3. z % d = w
    BY ONLY <1>3, <1>5, <2>1, <2>2, QuotientIs
  <2> QED BY <2>3 DEF d
<1>7. w \div TILE = e /\ w % TILE = b
  <2>1. TILE \in Nat \ {0} /\ w = TILE * e + b
    BY <1>1
  <2> HIDE DEF w
  <2> QED BY ONLY <1>2, <1>3, <1>5, <2>1, QuotientIs
<1> QED BY <1>6, <1>7 DEF a, b, e, z

LEMMA PixelShown ==
  ASSUME PipelineInv, Dot, steady, Draws
  PROVE  pixel' = Expected
<1> DEFINE c == CameraTile
           r == camera.row
           f == scroll_x_fine
           s == raster.scanline
           n == dot - 1
           row == (r + s) % (2 * HEIGHT)
           k == dot + f - 1
           a == k \div TILE
           b == k % TILE
<1>1. /\ raster \in PpuType /\ cur_address \in Nat /\ f \in 0 .. TILE - 1
      /\ shift = [i \in 1 .. 2 * TILE |-> shift[i]] /\ c \in Nat /\ r \in Nat
      /\ camera.column = TILE * c
      /\ raster.background /\ Pipeline(c, r, s, dot, cur_address, latches, shift)
  BY DEF PipelineInv, PipelineType
<1>2. /\ s \in Nat /\ s < HEIGHT /\ dot \in Nat /\ 1 <= dot /\ dot <= WIDTH
  <2>1. s \in 0 .. PRERENDER /\ dot \in 0 .. LAST_DOT
    BY <1>1 DEF PpuType, dot
  <2>2. s < HEIGHT /\ dot \in 1 .. WIDTH
    BY DEF Draws, Visible
  <2> QED BY <2>1, <2>2, Layout
<1>3. TILE \in Nat /\ TILE >= 2 /\ f \in Nat /\ f <= TILE - 1
  BY <1>1, Sizes
<1>4. /\ Ahead(n, c, cur_address) /\ CoarseY(cur_address) < ROWS
      /\ RowOf(cur_address) = row /\ Latched(n, c, row, latches) /\ Shifts(n, c, row, shift)
  <2>1. /\ HasColumn(s, dot) /\ HasRow(s, dot) /\ Offset(dot) = n /\ Line(s, dot) = s
    BY <1>2, Layout DEF HasColumn, HasRow, Offset, Line
  <2> QED BY <1>1, <2>1 DEF Pipeline, Row
<1>5. Shifts(dot, c, row, ShiftAfter)
  <2>1. n \in Int /\ n >= 0 - 2 * TILE /\ n + 1 = dot
    BY <1>2, <1>3
  <2>2. FetchesTile
    BY <1>2 DEF Draws, FetchesTile
  <2> HIDE DEF n, row, c
  <2>3. Shifts(n + 1, c, row, ShiftAfter)
    BY <1>1, <1>4, <2>1, <2>2, FetchStep
  <2> QED BY <2>1, <2>3
<1>6. 1 + f \in 1 .. LastLoaded(dot)
  <2> DEFINE p == dot % TILE
  <2>1. p \in Int /\ 0 <= p /\ p <= TILE - 1
    BY <1>2, <1>3, Quotient
  <2> HIDE DEF p
  <2>2. LastLoaded(dot) = IF p = 0 THEN TILE + 1 ELSE 2 * TILE + 1 - p
    BY DEF LastLoaded, p
  <2> QED BY ONLY <1>3, <2>1, <2>2
<1>7. pixel' = ShiftAfter[1 + f]
  BY <1>1 DEF Dot, PixelAfter
<1>8. pixel' = Cell(Column(c, a), row, b)
  <2>1. dot + (1 + f) - 2 = k /\ k >= 0
    BY <1>2, <1>3
  <2> HIDE DEF row, c, k
  <2> QED BY <1>5, <1>6, <1>7, <2>1 DEF Shifts
<1>9. ExpectedColumn \div TILE = Column(c, a) /\ ExpectedColumn % TILE = b
  <2> DEFINE m == 2 * COLS
  <2>1. m \in Nat \ {0} /\ k \in Nat
    BY <1>2, <1>3, Sizes
  <2>2. ExpectedColumn = (TILE * c + k) % (m * TILE)
    <3>1. 2 * WIDTH = m * TILE
      BY Sizes DEF WIDTH
    <3>2. camera.column + f + dot - 1 = TILE * c + k
      <4> DEFINE e == TILE * c
      <4>1. e \in Int
        BY <1>1, <1>3
      <4> HIDE DEF e, c
      <4> QED BY <1>1, <1>2, <1>3, <4>1 DEF e
    <3> QED BY <3>1, <3>2 DEF ExpectedColumn
  <2> HIDE DEF m, k, c
  <2> QED BY <1>1, <2>1, <2>2, Around DEF Column, m, a, b
<1>10. ExpectedRow = row
  BY DEF ExpectedRow
<1> HIDE DEF a, b, c, row
<1>11. ExpectedTile = NameAt(Column(c, a) % COLS, (row \div TILE) % ROWS,
                            Column(c, a) \div COLS, (row \div TILE) \div ROWS)
  <2> DEFINE col == Column(c, a)
             line == row \div TILE
             x == col % COLS
             right == col \div COLS
             y == line % ROWS
             lower == line \div ROWS
  <2>1. col \in Int
    <3>1. c + a \in Int
      BY <1>1, <1>2, <1>3, Quotient DEF a
    <3> QED BY <3>1, Quotient, Sizes DEF Column
  <2>2. line \in Int
    <3>1. r + s \in Int
      BY <1>1, <1>2
    <3>2. row \in Int
      BY <3>1, Quotient, Layout DEF row
    <3> QED BY <3>2, Quotient, Sizes
  <2>3. ExpectedTile = x + right * NameX + y * RowUnit + lower * NameY
    BY <1>9, <1>10 DEF ExpectedTile
  <2> HIDE DEF col, line
  <2>4. x \in Int /\ right \in Int /\ y \in Int /\ lower \in Int
    BY <2>1, <2>2, Quotient, Sizes
  <2> HIDE DEF x, right, y, lower
  <2>5. right * NameX \in Int /\ y * RowUnit \in Int /\ lower * NameY \in Int
    BY <2>4, Sizes
  <2>6. ExpectedTile = x + y * RowUnit + right * NameX + lower * NameY
    BY <2>3, <2>4, <2>5
  <2> QED BY <2>6 DEF NameAt, x, right, y, lower, col, line
<1> QED BY <1>8, <1>9, <1>10, <1>11 DEF Expected, Cell, Spot

-----------------------------------------------------------------------------
(* The steps of the whole PPU. *)
pictureVars == <<vars, scene, sprites, front, scrolls>>

LEMMA InitialPipeline ==
  ASSUME PictureInit
  PROVE  PipelineInv
<1>1. /\ raster = NewPpu /\ cur_address = 0 /\ tmp_address = 0 /\ scroll_x_fine = 0
      /\ shift = [i \in 1 .. 2 * TILE |-> Blank]
      /\ asked = [column |-> 0, y |-> 0, right |-> 0, lower |-> 0]
      /\ camera = [column |-> 0, row |-> 0] /\ steady = FALSE
  BY DEF PictureInit, Init
<1>2. raster \in PpuType
  BY <1>1, PpuAssumption DEF NewPpu, PpuType
<1>3. asked = AsPosition(tmp_address)
  <2>1. 0 = Address(0, 0, 0, 0, 0, 0)
    BY Sizes DEF Address
  <2>2. 0 \in 0 .. COLS - 1 /\ 0 \in 0 .. COARSE_Y - 1 /\ 0 \in 0 .. TILE - 1
    BY Sizes
  <2>3. CoarseX(0) = 0 /\ CoarseY(0) = 0 /\ Right(0) = 0 /\ Lower(0) = 0 /\ FineY(0) = 0
    BY <2>1, <2>2, FieldsOf
  <2>4. 0 * TILE + 0 = 0
    BY Sizes
  <2> QED BY <1>1, <2>3, <2>4 DEF AsPosition
<1>4. CameraTile = 0 /\ camera.column = TILE * CameraTile /\ camera.row = 0
  <2>1. TILE \in Nat \ {0} /\ 0 = TILE * 0 + 0 /\ 0 \in Int /\ 0 <= 0 /\ 0 < TILE
    BY Sizes
  <2>2. 0 \div TILE = 0
    BY ONLY <2>1, QuotientIs
  <2> QED BY <1>1, <2>1, <2>2 DEF CameraTile
<1>5. 0 \in 0 .. TILE - 1
  BY Sizes
<1>6. shift = [i \in 1 .. 2 * TILE |-> shift[i]]
  BY <1>1
<1> QED BY <1>1, <1>2, <1>3, <1>4, <1>5, <1>6 DEF PipelineInv, PipelineType

LEMMA PictureStep ==
  ASSUME PipelineInv, [PictureNext]_pictureVars
  PROVE  /\ PipelineInv'
         /\ Dot \/ raster'.dot = dot
<1>1. CASE PictureDot
  BY <1>1, DotStep DEF PictureDot
<1>2. CASE PictureProgram
  <2>1. Program
    BY <1>2 DEF PictureProgram, Program
  <2> QED BY <2>1, ProgramStep
<1>3. CASE UploadSprites
  <2>1. /\ raster' = raster /\ cur_address' = cur_address /\ tmp_address' = tmp_address
        /\ scroll_x_fine' = scroll_x_fine /\ shift' = shift /\ latches' = latches
        /\ camera' = camera /\ asked' = asked /\ steady' = FALSE
    BY <1>3 DEF UploadSprites, Uses, addresses, pipeline
  <2>2. PipelineType'
    BY <2>1 DEF PipelineInv, PipelineType, CameraTile
  <2> QED BY <2>1, <2>2 DEF PipelineInv, dot
<1>4. CASE UNCHANGED pictureVars
  BY <1>4 DEF pictureVars, vars, addresses, pipeline, PipelineInv, PipelineType, CameraTile,
              dot
<1> QED BY <1>1, <1>2, <1>3, <1>4 DEF PictureNext

(* The pipeline is where the dot says, in every reachable state in which the *)
(* picture is steady (ppu.rs:164-242 and 505-557).                           *)
THEOREM PipelineCorrect == PictureSpec => []PipelineInv
<1>1. PictureInit => PipelineInv
  BY InitialPipeline
<1>2. PipelineInv /\ [PictureNext]_pictureVars => PipelineInv'
  BY PictureStep
<1> QED BY <1>1, <1>2, PTL DEF PictureSpec, pictureVars

(* Every pixel of the background is the one the scroll registers ask for,   *)
(* whatever the program writes in mid-frame (ppu.rs:164-242, 437-500,       *)
(* 505-557 and 645-657).                                                    *)
THEOREM PictureShown == PictureSpec => ShowsThePicture
<1>1. ASSUME PipelineInv, [PictureNext]_pictureVars
      PROVE  [steady /\ Draws /\ raster'.dot # dot => pixel' = Expected]_vars
  BY <1>1, PictureStep, PixelShown
<1> QED BY <1>1, PipelineCorrect, PTL DEF PictureSpec, pictureVars, ShowsThePicture

(* No dot moves the address outside the lines that fetch, or while          *)
(* rendering is off (ppu.rs:194-206, 506 and 532).                          *)
THEOREM UploadsStayInOrder == PictureSpec => UploadsInOrder
<1>1. ASSUME PipelineInv, [PictureNext]_pictureVars
      PROVE  [Quiet /\ raster'.dot # dot => UNCHANGED cur_address]_vars
  <2> SUFFICES ASSUME Dot, Quiet
               PROVE  UNCHANGED cur_address
    BY <1>1, PictureStep
  <2>1. (Visible \/ PreRender) => ~Rendering
    <3>1. raster.scanline \in HEIGHT .. PRERENDER - 1 => ~Visible /\ ~PreRender
      BY Layout DEF Visible, PreRender
    <3> QED BY <3>1 DEF Quiet
  <2>2. /\ ~(OnX /\ Rendering) /\ ~(OnY /\ Rendering) /\ ~ReloadsX /\ ~ReloadsY
    BY <2>1 DEF OnX, OnY, ReloadsX, ReloadsY, FetchesTile
  <2> QED BY <2>2 DEF Dot, AddressAfter
<1> QED BY <1>1, PipelineCorrect, PTL DEF PictureSpec, pictureVars, UploadsInOrder

-----------------------------------------------------------------------------
(* Sprites.  The slots, and what is in the records. *)
LEMMA SlotsAre ==
  /\ SLOTS \in Nat /\ Slots = 1 .. SLOTS /\ RESTART \in Nat /\ 1 <= RESTART /\ RESTART <= WIDTH
  /\ \A i \in Slots : /\ CLEAR[i] \in Nat /\ 1 <= CLEAR[i] /\ CLEAR[i] < RESTART
                      /\ FETCH[i] \in Nat /\ WIDTH + 1 <= FETCH[i] /\ FETCH[i] < PREFETCH
  /\ \A d \in EVALUATE : d \in Nat /\ RESTART < d /\ d <= WIDTH
<1> DEFINE A == 1 .. RESTART - 1
           B == WIDTH + 1 .. PREFETCH - 1
<1>1. /\ CLEAR \in Seq(A) /\ Len(FETCH) = Len(CLEAR)
      /\ FETCH \in Seq(B) /\ RESTART \in 1 .. WIDTH
      /\ EVALUATE \subseteq RESTART + 1 .. WIDTH
  BY PictureAssumption DEF SLOTS
<1>2. RESTART \in Nat /\ 1 <= RESTART /\ RESTART <= WIDTH
  BY <1>1, Layout
<1>3. \A d \in EVALUATE : d \in Nat /\ RESTART < d /\ d <= WIDTH
  BY <1>1, <1>2, Layout
<1>4. /\ \A d \in A : d \in Nat /\ 1 <= d /\ d < RESTART
      /\ \A d \in B : d \in Nat /\ WIDTH + 1 <= d /\ d < PREFETCH
  BY <1>2, Layout
<1> HIDE DEF A, B
<1>5. /\ SLOTS \in Nat /\ Slots = 1 .. SLOTS
      /\ \A i \in Slots : CLEAR[i] \in A /\ FETCH[i] \in B
  BY ONLY <1>1 DEF SLOTS, Slots
<1> QED BY <1>2, <1>3, <1>4, <1>5

IsRegister(q) ==
  /\ q = [cells |-> q.cells, offset |-> q.offset, palette |-> q.palette,
          behind |-> q.behind, zero |-> q.zero]
  /\ q.offset \in Nat /\ q.cells = [j \in 1 .. TILE |-> q.cells[j]]

IsSprites(q) ==
  /\ q = [secondary |-> q.secondary, found |-> q.found, index |-> q.index,
          past |-> q.past, registers |-> q.registers, overflow |-> q.overflow,
          hit |-> q.hit]
  /\ q.secondary = [i \in Slots |-> q.secondary[i]]
  /\ q.registers = [i \in Slots |-> q.registers[i]]
  /\ q.found \in 0 .. SLOTS /\ q.index \in 0 .. OAM - 1 /\ q.past \in BOOLEAN
  /\ q.overflow \in BOOLEAN /\ q.hit \in BOOLEAN
  /\ \A i \in Slots : IsRegister(q.registers[i])

(* A register moves: it comes nearer, or its cells go by. *)
LEMMA MovedIs ==
  ASSUME NEW q, IsRegister(q)
  PROVE  /\ IsRegister(Moved(q)) /\ Moved(q).palette = q.palette
         /\ Moved(q).behind = q.behind /\ Moved(q).zero = q.zero
         /\ IF q.offset > 0
            THEN Moved(q).offset = q.offset - 1 /\ Moved(q).cells = q.cells
            ELSE /\ Moved(q).offset = 0
                 /\ Moved(q).cells = [j \in 1 .. TILE |-> IF j < TILE THEN q.cells[j + 1]
                                                          ELSE Transparent]
<1> DEFINE c == q.cells
           o == q.offset
           a == q.palette
           b == q.behind
           z == q.zero
           w == Moved(q)
<1>1. q = [cells |-> c, offset |-> o, palette |-> a, behind |-> b, zero |-> z]
      /\ o \in Nat /\ c = [j \in 1 .. TILE |-> c[j]]
  BY DEF IsRegister
<1>2. w = IF o > 0 THEN [q EXCEPT !.offset = o - 1]
          ELSE [q EXCEPT !.cells = Append(Tail(c), Transparent)]
  BY DEF Moved
<1>3. Append(Tail(c), Transparent)
        = [j \in 1 .. TILE |-> IF j < TILE THEN c[j + 1] ELSE Transparent]
  <2> HIDE DEF c
  <2>1. TILE \in Nat \ {0}
    BY Sizes
  <2> QED BY ONLY <1>1, <2>1, ShiftOne
<1> HIDE DEF c, o, a, b, z, w
<1>4. CASE o > 0
  <2>1. w = [cells |-> c, offset |-> o - 1, palette |-> a, behind |-> b, zero |-> z]
    BY ONLY <1>1, <1>2, <1>4
  <2>2. o - 1 \in Nat
    BY <1>1, <1>4
  <2> QED BY <1>1, <1>4, <2>1, <2>2 DEF IsRegister, w, c, o, a, b, z
<1>5. CASE ~(o > 0)
  <2> DEFINE e == [j \in 1 .. TILE |-> IF j < TILE THEN c[j + 1] ELSE Transparent]
  <2>1. e = [j \in 1 .. TILE |-> e[j]]
    OBVIOUS
  <2>2. w = [q EXCEPT !.cells = e]
    BY <1>2, <1>3, <1>5
  <2> HIDE DEF e
  <2>3. w = [cells |-> e, offset |-> o, palette |-> a, behind |-> b, zero |-> z]
    BY ONLY <1>1, <2>2
  <2>4. o = 0
    BY <1>1, <1>5
  <2>5. IsRegister(w) /\ w.cells = e /\ w.offset = 0 /\ w.palette = a /\ w.behind = b
        /\ w.zero = z
    BY <1>1, <2>1, <2>3, <2>4 DEF IsRegister
  <2> QED BY <1>5, <2>4, <2>5 DEF w, a, b, z, o, c, e
<1> QED BY <1>4, <1>5

-----------------------------------------------------------------------------
(* How many there are up to a number. *)
Count(S, n) == Cardinality(S \cap 1 .. n)

LEMMA CountNext ==
  ASSUME NEW S, NEW n \in Nat
  PROVE  /\ IsFiniteSet(S \cap 1 .. n) /\ Count(S, n) \in Nat
         /\ Count(S, 0) = 0
         /\ Count(S, n + 1) = IF n + 1 \in S THEN Count(S, n) + 1 ELSE Count(S, n)
<1>1. IsFiniteSet(1 .. n)
  BY FS_Interval
<1>2. IsFiniteSet(S \cap 1 .. n)
  <2>1. S \cap 1 .. n \subseteq 1 .. n
    OBVIOUS
  <2> QED BY <1>1, <2>1, FS_Subset
<1>3. Count(S, n) \in Nat
  BY <1>2, FS_CardinalityType DEF Count
<1>4. Count(S, 0) = 0
  <2>1. S \cap 1 .. 0 = {}
    OBVIOUS
  <2> QED BY <2>1, FS_EmptySet DEF Count
<1>5. CASE n + 1 \in S
  <2>1. S \cap 1 .. n + 1 = (S \cap 1 .. n) \cup {n + 1} /\ n + 1 \notin S \cap 1 .. n
    BY <1>5
  <2>2. Count(S, n + 1) = Count(S, n) + 1
    BY <1>2, <2>1, FS_AddElement DEF Count
  <2> QED BY <1>2, <1>3, <1>4, <1>5, <2>2
<1>6. CASE n + 1 \notin S
  <2>1. S \cap 1 .. n + 1 = S \cap 1 .. n
    BY <1>6
  <2> QED BY <1>2, <1>3, <1>4, <1>6, <2>1 DEF Count
<1> QED BY <1>5, <1>6

LEMMA CountMonotone ==
  ASSUME NEW S, NEW m \in Nat, NEW n \in Nat, m <= n
  PROVE  Count(S, m) <= Count(S, n)
<1>1. S \cap 1 .. m \subseteq S \cap 1 .. n
  OBVIOUS
<1>2. IsFiniteSet(S \cap 1 .. n)
  BY CountNext
<1> QED BY <1>1, <1>2, FS_Subset DEF Count

(* Those that are in S have different ranks. *)
LEMMA Ranks ==
  ASSUME NEW S, NEW i \in Nat \ {0}, NEW j \in Nat, i \in S, i < j
  PROVE  /\ Count(S, i - 1) < Count(S, j - 1)
         /\ Count(S, i - 1) < Count(S, j)
<1>1. i - 1 \in Nat /\ j - 1 \in Nat /\ i - 1 + 1 = i /\ i <= j - 1 /\ i <= j
  OBVIOUS
<1>2. Count(S, i) = Count(S, i - 1) + 1
  <2> DEFINE m == i - 1
  <2>1. m \in Nat /\ m + 1 = i /\ m + 1 \in S
    BY <1>1
  <2> HIDE DEF m
  <2>2. Count(S, m + 1) = Count(S, m) + 1
    BY <2>1, CountNext
  <2> QED BY <2>1, <2>2 DEF m
<1>3. /\ Count(S, i) <= Count(S, j - 1) /\ Count(S, i) <= Count(S, j)
  BY <1>1, CountMonotone
<1>4. /\ Count(S, i - 1) \in Nat /\ Count(S, j - 1) \in Nat /\ Count(S, j) \in Nat
      /\ Count(S, i) \in Nat
  BY <1>1, CountNext
<1> QED BY <1>2, <1>3, <1>4

-----------------------------------------------------------------------------
(* The evaluation, of the sprites of S, after the first n of OAM.          *)
EntryOf(j) == [sprite |-> scene.sprites[j], zero |-> j = 1]

Examining(q, S, n) ==
  /\ q.found = IF Count(S, n) < SLOTS THEN Count(S, n) ELSE SLOTS
  /\ \A j \in S \cap 1 .. n :
       Count(S, j - 1) < SLOTS => q.secondary[Count(S, j - 1) + 1] = EntryOf(j)
  /\ \A k \in Slots : q.secondary[k] # Empty =>
       \E j \in S \cap 1 .. n : k = Count(S, j - 1) + 1 /\ q.secondary[k] = EntryOf(j)

Done(q) == IF q.past THEN OAM ELSE q.index

LEMMA OamSize ==
  OAM \in Nat /\ OAM >= 1 /\ OAM <= Cardinality(EVALUATE) /\ Cardinality(EVALUATE) \in Nat
<1>1. IsFiniteSet(EVALUATE)
  <2>1. EVALUATE \subseteq RESTART + 1 .. WIDTH
    BY PictureAssumption
  <2>2. IsFiniteSet(RESTART + 1 .. WIDTH)
    BY SlotsAre, Layout, FS_Interval
  <2> QED BY <2>1, <2>2, FS_Subset
<1>2. Cardinality(EVALUATE) \in Nat
  BY <1>1, FS_CardinalityType
<1> QED BY <1>2, SceneAssumption

LEMMA ExaminedIs ==
  ASSUME NEW S, IsSprites(sprites), NEW n, n = Done(sprites), Examining(sprites, S, n),
         ~sprites.past => (OnLine(scene.sprites[n + 1], raster.scanline) <=> n + 1 \in S)
  PROVE  /\ IsSprites(Examined)
         /\ n \in Nat /\ Done(Examined) = IF sprites.past THEN n ELSE n + 1
         /\ Examining(Examined, S, Done(Examined))
         /\ Examined.past \/ (~sprites.past /\ Examined.index = sprites.index + 1)
         /\ Examined.registers = sprites.registers /\ Examined.hit = sprites.hit
         /\ Examined.overflow <=>
              \/ sprites.overflow
              \/ Count(S, Done(Examined)) > Count(S, n) /\ Count(S, Done(Examined)) > SLOTS
<1> DEFINE q == sprites
           e == Examined
           next == (q.index + 1) % OAM
           past == q.past \/ next = 0
           room == Found /\ q.found < SLOTS
           secondary == IF room THEN [q.secondary EXCEPT ![q.found + 1] = Entry]
                        ELSE q.secondary
           found == IF room THEN q.found + 1 ELSE q.found
           overflow == q.overflow \/ (Found /\ q.found = SLOTS)
<1>1. /\ q.secondary = [i \in Slots |-> q.secondary[i]]
      /\ q.registers = [i \in Slots |-> q.registers[i]]
      /\ q.found \in 0 .. SLOTS /\ q.index \in 0 .. OAM - 1 /\ q.past \in BOOLEAN
      /\ q.overflow \in BOOLEAN /\ q.hit \in BOOLEAN
      /\ \A i \in Slots : IsRegister(q.registers[i])
      /\ q = [secondary |-> q.secondary, found |-> q.found, index |-> q.index,
              past |-> q.past, registers |-> q.registers, overflow |-> q.overflow,
              hit |-> q.hit]
  BY DEF IsSprites
<1>2. e = [secondary |-> secondary, found |-> found, index |-> next, past |-> past,
           registers |-> q.registers, overflow |-> overflow, hit |-> q.hit]
  <2>1. e = [q EXCEPT !.index = next, !.past = past, !.secondary = secondary,
                      !.found = found, !.overflow = overflow]
    BY DEF Examined
  <2> HIDE DEF e, next, past, secondary, found, overflow, q
  <2> QED BY ONLY <1>1, <2>1
<1>3. next = IF q.index = OAM - 1 THEN 0 ELSE q.index + 1
  <2>1. q.index \in Nat /\ q.index <= OAM - 1 /\ OAM \in Nat /\ OAM >= 1
    BY <1>1, OamSize
  <2> DEFINE k == q.index
  <2> HIDE DEF k, q
  <2>2. (k + 1) % OAM = IF k = OAM - 1 THEN 0 ELSE k + 1
    <3>1. k % OAM = k
      BY <2>1 DEF k
    <3>2. (k + 1) % OAM = After(k % OAM, OAM)
      BY <2>1, NextAround DEF k
    <3> QED BY <3>1, <3>2 DEF After
  <2> QED BY <2>2 DEF k
<1>4. n \in Nat /\ n = IF q.past THEN OAM ELSE q.index
  BY <1>1, OamSize DEF Done
<1>5. Found <=> ~q.past /\ n + 1 \in S
  BY <1>4 DEF Found
<1>6. Done(e) = IF q.past THEN n ELSE n + 1
  <2>1. e.past = past /\ e.index = next
    BY <1>2
  <2>2. past <=> q.past \/ q.index = OAM - 1
    BY <1>1, <1>3, OamSize
  <2> HIDE DEF e, next, past, q
  <2> QED BY <1>1, <1>3, <1>4, <2>1, <2>2, OamSize DEF Done
<1>7. /\ Count(S, n) \in Nat
      /\ Count(S, n + 1) = IF n + 1 \in S THEN Count(S, n) + 1 ELSE Count(S, n)
  BY <1>4, CountNext
<1>8. q.found = (IF Count(S, n) < SLOTS THEN Count(S, n) ELSE SLOTS) /\ SLOTS \in Nat
  BY SlotsAre DEF Examining
<1>9. room <=> ~q.past /\ n + 1 \in S /\ Count(S, n) < SLOTS
  BY <1>5, <1>7, <1>8
<1>10. IsSprites(e)
  <2>1. secondary = [i \in Slots |-> secondary[i]]
    BY <1>1
  <2>2. found \in 0 .. SLOTS
    BY <1>1, <1>8
  <2>3. next \in 0 .. OAM - 1 /\ past \in BOOLEAN /\ overflow \in BOOLEAN
    BY <1>1, <1>3, OamSize
  <2> HIDE DEF e, next, past, secondary, found, overflow, q
  <2> QED BY <1>1, <1>2, <2>1, <2>2, <2>3 DEF IsSprites
<1>11. Examining(e, S, Done(e))
  <2>1. CASE q.past \/ n + 1 \notin S
    <3>1. ~Found
      BY <1>5, <2>1
    <3>2. e.found = q.found /\ e.secondary = q.secondary
      BY <1>2, <3>1
    <3>3. Count(S, Done(e)) = Count(S, n) /\ S \cap 1 .. Done(e) = S \cap 1 .. n
      BY <1>4, <1>6, <1>7, <2>1
    <3> QED BY <3>2, <3>3 DEF Examining
  <2>2. CASE ~q.past /\ n + 1 \in S
    <3> DEFINE m == n + 1
    <3>1. Done(e) = m /\ Count(S, m) = Count(S, n) + 1 /\ m \in Nat \ {0} /\ m - 1 = n
          /\ m \in S
      BY <1>4, <1>6, <1>7, <2>2
    <3>2. \A j \in S \cap 1 .. n : j \in Nat \ {0} /\ j # m /\ j \in S \cap 1 .. m
                                  /\ Count(S, j - 1) < Count(S, n) /\ Count(S, j - 1) \in Nat
      <4> SUFFICES ASSUME NEW j \in S \cap 1 .. n
                   PROVE  j \in Nat \ {0} /\ j # m /\ j \in S \cap 1 .. m
                          /\ Count(S, j - 1) < Count(S, n) /\ Count(S, j - 1) \in Nat
        OBVIOUS
      <4>1. j \in Nat \ {0} /\ j \in S /\ j < m /\ j \in S \cap 1 .. m /\ j <= n
            /\ j - 1 \in Nat
        BY <1>4
      <4>2. Count(S, j - 1) < Count(S, m - 1)
        BY <3>1, <4>1, Ranks
      <4>3. Count(S, j - 1) \in Nat
        BY <4>1, CountNext
      <4> QED BY <3>1, <4>1, <4>2, <4>3
    <3>3. Entry = EntryOf(m)
      <4>1. q.index + 1 = m /\ (q.index = 0 <=> m = 1)
        BY <1>1, <1>4, <2>2, OamSize
      <4> HIDE DEF m
      <4> QED BY <4>1 DEF Entry, EntryOf
    <3>4. CASE Count(S, n) < SLOTS
      <4> DEFINE k == Count(S, n) + 1
      <4>1. k \in Slots /\ k = q.found + 1
        BY <1>7, <1>8, <3>4, SlotsAre
      <4>2. room
        BY <1>9, <2>2, <3>4
      <4>3. e.found = k /\ e.secondary = [q.secondary EXCEPT ![k] = EntryOf(m)]
        BY <1>2, <3>3, <4>1, <4>2
      <4> HIDE DEF m, e, q, k
      <4>4. e.secondary[k] = EntryOf(m)
            /\ \A i \in Slots : i # k => e.secondary[i] = q.secondary[i]
        BY <1>1, <4>1, <4>3
      <4>5. e.found = IF Count(S, m) < SLOTS THEN Count(S, m) ELSE SLOTS
        BY <1>7, <1>8, <3>1, <3>4, <4>3 DEF k
      <4>6. ASSUME NEW j \in S \cap 1 .. m, Count(S, j - 1) < SLOTS
            PROVE  e.secondary[Count(S, j - 1) + 1] = EntryOf(j)
        <5>1. CASE j = m
          BY <3>1, <4>4, <5>1 DEF k
        <5>2. CASE j # m
          <6>1. j \in S \cap 1 .. n
            BY <1>4, <5>2 DEF m
          <6>2. Count(S, j - 1) + 1 \in Slots /\ Count(S, j - 1) + 1 # k
            BY <1>7, <3>2, <4>6, <6>1, SlotsAre DEF k
          <6>3. q.secondary[Count(S, j - 1) + 1] = EntryOf(j)
            BY <4>6, <6>1 DEF Examining, q
          <6> QED BY <4>4, <6>2, <6>3
        <5> QED BY <5>1, <5>2
      <4>7. ASSUME NEW i \in Slots, e.secondary[i] # Empty
            PROVE  \E j \in S \cap 1 .. m : i = Count(S, j - 1) + 1
                                          /\ e.secondary[i] = EntryOf(j)
        <5>1. CASE i = k
          <6>1. m \in S \cap 1 .. m
            BY <3>1
          <6>2. k = Count(S, m - 1) + 1
            BY <3>1 DEF k
          <6> QED BY <4>4, <5>1, <6>1, <6>2
        <5>2. CASE i # k
          <6>1. q.secondary[i] # Empty /\ e.secondary[i] = q.secondary[i]
            BY <4>4, <4>7, <5>2
          <6>2. PICK j \in S \cap 1 .. n : i = Count(S, j - 1) + 1
                                          /\ q.secondary[i] = EntryOf(j)
            BY <6>1 DEF Examining, q
          <6> QED BY <3>2, <6>1, <6>2
        <5> QED BY <5>1, <5>2
      <4> QED BY <3>1, <4>5, <4>6, <4>7 DEF Examining
    <3>5. CASE ~(Count(S, n) < SLOTS)
      <4>1. e.found = q.found /\ e.secondary = q.secondary
        BY <1>2, <1>9, <3>5
      <4> HIDE DEF m, e, q
      <4>2. e.found = IF Count(S, m) < SLOTS THEN Count(S, m) ELSE SLOTS
        BY <1>7, <1>8, <3>1, <3>5, <4>1
      <4>3. ASSUME NEW j \in S \cap 1 .. m, Count(S, j - 1) < SLOTS
            PROVE  e.secondary[Count(S, j - 1) + 1] = EntryOf(j)
        <5>1. j # m
          BY <3>1, <3>5, <4>3
        <5>2. j \in S \cap 1 .. n
          BY <1>4, <5>1 DEF m
        <5> QED BY <4>1, <4>3, <5>2 DEF Examining, q
      <4>4. ASSUME NEW i \in Slots, e.secondary[i] # Empty
            PROVE  \E j \in S \cap 1 .. m : i = Count(S, j - 1) + 1
                                          /\ e.secondary[i] = EntryOf(j)
        <5>1. PICK j \in S \cap 1 .. n : i = Count(S, j - 1) + 1
                                        /\ q.secondary[i] = EntryOf(j)
          BY <4>1, <4>4 DEF Examining, q
        <5> QED BY <3>2, <4>1, <5>1
      <4> QED BY <3>1, <4>2, <4>3, <4>4 DEF Examining
    <3> QED BY <3>4, <3>5
  <2> QED BY <2>1, <2>2
<1>12. e.overflow <=>
          \/ q.overflow
          \/ Count(S, Done(e)) > Count(S, n) /\ Count(S, Done(e)) > SLOTS
  <2>1. e.overflow <=> q.overflow \/ (~q.past /\ n + 1 \in S /\ q.found = SLOTS)
    BY <1>2, <1>5
  <2> HIDE DEF e, q
  <2> QED BY <1>6, <1>7, <1>8, <2>1
<1> QED
  BY <1>2, <1>3, <1>4, <1>6, <1>10, <1>11, <1>12

-----------------------------------------------------------------------------
(* What one dot does to the sprites. *)
SpritesWell(s) == \A j \in 1 .. OAM : s.sprites[j].x \in Nat /\ s.sprites[j].y \in Nat

HasEntries(q) ==
  \A k \in Slots : q.secondary[k] # Empty => \E j \in 1 .. OAM : q.secondary[k] = EntryOf(j)

LEMMA LoadingIs ==
  ASSUME SpritesWell(scene), NEW j, j \in 1 .. OAM, NEW w, w = Loading(EntryOf(j))
  PROVE  /\ IsRegister(w)
         /\ w.cells = Pattern(scene.sprites[j], raster.scanline)
         /\ w.cells = [c \in 1 .. TILE |-> w.cells[c]]
         /\ w.offset = scene.sprites[j].x /\ w.palette = scene.sprites[j].palette
         /\ w.behind = scene.sprites[j].behind /\ w.zero = (j = 1)
<1> DEFINE s == scene.sprites[j]
           p == Pattern(s, raster.scanline)
<1>1. s.x \in Nat
  BY DEF SpritesWell
<1>2. p = [c \in 1 .. TILE |-> p[c]]
  BY DEF Pattern
<1>3. EntryOf(j).sprite = s /\ EntryOf(j).zero = (j = 1)
  BY DEF EntryOf
<1> HIDE DEF p, s
<1>4. w = [cells |-> p, offset |-> s.x, palette |-> s.palette, behind |-> s.behind,
           zero |-> (j = 1)]
  BY <1>3 DEF Loading, p
<1>5. /\ w.cells = p /\ w.offset = s.x /\ w.palette = s.palette /\ w.behind = s.behind
      /\ w.zero = (j = 1)
  BY ONLY <1>4
<1>6. IsRegister(w)
  BY ONLY <1>1, <1>2, <1>4, <1>5 DEF IsRegister
<1> QED BY <1>2, <1>5, <1>6 DEF p, s

LEMMA ClearedIs ==
  ASSUME NEW q, IsRegister(q), NEW w, w = [q EXCEPT !.cells = NoSprite.cells]
  PROVE  /\ IsRegister(w) /\ \A c \in 1 .. TILE : w.cells[c] = Transparent
<1> DEFINE e == NoSprite.cells
<1>1. e = [c \in 1 .. TILE |-> e[c]] /\ \A c \in 1 .. TILE : e[c] = Transparent
  BY DEF NoSprite
<1> HIDE DEF e
<1>2. /\ q = [cells |-> q.cells, offset |-> q.offset, palette |-> q.palette,
              behind |-> q.behind, zero |-> q.zero]
      /\ q.offset \in Nat
  BY DEF IsRegister
<1>3. w = [cells |-> e, offset |-> q.offset, palette |-> q.palette,
           behind |-> q.behind, zero |-> q.zero]
  <2> DEFINE o == q.offset
             a == q.palette
             b == q.behind
             z == q.zero
             c == q.cells
  <2>1. q = [cells |-> c, offset |-> o, palette |-> a, behind |-> b, zero |-> z]
        /\ w = [q EXCEPT !.cells = e]
    BY <1>2 DEF e
  <2> HIDE DEF o, a, b, z, c
  <2>2. w = [cells |-> e, offset |-> o, palette |-> a, behind |-> b, zero |-> z]
    BY ONLY <2>1
  <2> QED BY <2>2 DEF o, a, b, z
<1>4. w.cells = e /\ w.offset = q.offset /\ w.palette = q.palette /\ w.behind = q.behind
      /\ w.zero = q.zero
  BY ONLY <1>3
<1>5. IsRegister(w)
  BY ONLY <1>1, <1>2, <1>3, <1>4 DEF IsRegister
<1> QED BY <1>1, <1>4, <1>5

(* Other registers, and the hit flag. *)
AreRegisters(r) == r = [i \in Slots |-> r[i]] /\ \A i \in Slots : IsRegister(r[i])
With(q, e, r, h) == q = [e EXCEPT !.registers = r, !.hit = h]

LEMMA Composed ==
  ASSUME NEW e, IsSprites(e), NEW r, AreRegisters(r), NEW h, h \in BOOLEAN,
         NEW q, With(q, e, r, h)
  PROVE  /\ IsSprites(q) /\ q.registers = r /\ q.hit = h
         /\ q.secondary = e.secondary /\ q.found = e.found /\ q.index = e.index
         /\ q.past = e.past /\ q.overflow = e.overflow
<1> DEFINE a == e.secondary
           b == e.found
           c == e.index
           d == e.past
           f == e.registers
           g == e.overflow
           k == e.hit
<1>1. /\ e = [secondary |-> a, found |-> b, index |-> c, past |-> d, registers |-> f,
              overflow |-> g, hit |-> k]
      /\ a = [i \in Slots |-> a[i]] /\ b \in 0 .. SLOTS /\ c \in 0 .. OAM - 1
      /\ d \in BOOLEAN /\ g \in BOOLEAN
  BY DEF IsSprites
<1> HIDE DEF a, b, c, d, f, g, k
<1>2. q = [secondary |-> a, found |-> b, index |-> c, past |-> d, registers |-> r,
           overflow |-> g, hit |-> h]
  <2>1. q = [e EXCEPT !.registers = r, !.hit = h]
    BY DEF With
  <2> QED BY ONLY <1>1, <2>1
<1>3. /\ q.registers = r /\ q.hit = h /\ q.secondary = a /\ q.found = b /\ q.index = c
      /\ q.past = d /\ q.overflow = g
  BY ONLY <1>2
<1>4. IsSprites(q)
  BY <1>1, <1>2, <1>3 DEF IsSprites, AreRegisters
<1> QED BY <1>3, <1>4 DEF a, b, c, d, g

LEMMA RegistersAre ==
  ASSUME IsSprites(sprites)
  PROVE  /\ Registers = [i \in Slots |-> Registers[i]]
         /\ \A i \in Slots : /\ IsRegister(Registers[i])
                             /\ Registers[i] = IF Draws /\ foreground
                                               THEN Moved(sprites.registers[i])
                                               ELSE sprites.registers[i]
<1>1. /\ sprites.registers = [i \in Slots |-> sprites.registers[i]]
      /\ \A i \in Slots : IsRegister(sprites.registers[i])
  BY DEF IsSprites
<1> QED BY <1>1, MovedIs DEF Registers

(* A dot of a visible line's picture. *)
LEMMA VisibleDot ==
  ASSUME IsSprites(sprites), IsSprites(sprite_evaluation),
         sprite_evaluation.hit = sprites.hit,
         Visible, dot \in 1 .. WIDTH, NEW q, q = SpritesAfter
  PROVE  LET e == sprite_evaluation
         IN  /\ IsSprites(q) /\ q.registers = Registers /\ q.hit = (sprites.hit \/ HitsNow)
             /\ q.secondary = e.secondary /\ q.found = e.found /\ q.index = e.index
             /\ q.past = e.past /\ q.overflow = e.overflow
<1> DEFINE e == sprite_evaluation
           h == e.hit \/ HitsNow
           r == Registers
<1>1. FetchesTile
  BY DEF FetchesTile
<1>2. q = [e EXCEPT !.registers = r, !.hit = h]
  BY <1>1 DEF SpritesAfter
<1>3. h \in BOOLEAN
  BY DEF IsSprites
<1>4. r = [i \in Slots |-> r[i]] /\ \A i \in Slots : IsRegister(r[i])
  BY RegistersAre
<1>5. h = (sprites.hit \/ HitsNow)
  OBVIOUS
<1> HIDE DEF e, h, r
<1>6. IsSprites(e)
  BY DEF e
<1>7. /\ IsSprites(q) /\ q.registers = r /\ q.hit = h
      /\ q.secondary = e.secondary /\ q.found = e.found /\ q.index = e.index
      /\ q.past = e.past /\ q.overflow = e.overflow
  <2>1. With(q, e, r, h) /\ AreRegisters(r)
    BY <1>2, <1>4 DEF With, AreRegisters
  <2> QED BY ONLY <1>3, <1>6, <2>1, Composed
<1> QED BY <1>5, <1>7 DEF e, r

(* Any other dot: the fetch, the end of the blank, or nothing. *)
Loads(i) == (Visible \/ PreRender) /\ FETCH[i] = dot /\ sprites.secondary[i] # Empty

LEMMA OtherDot ==
  ASSUME IsSprites(sprites), SpritesWell(scene),
         raster.scanline \in 0 .. PRERENDER, dot \in 0 .. LAST_DOT,
         ~(Visible /\ dot \in 1 .. WIDTH),
         (Visible \/ PreRender) /\ dot > WIDTH => HasEntries(sprites),
         NEW q, q = SpritesAfter
  PROVE  /\ IsSprites(q) /\ q.secondary = sprites.secondary /\ q.found = sprites.found
         /\ q.index = sprites.index /\ q.past = sprites.past
         /\ q.overflow = IF PreRender /\ dot = 1 THEN FALSE ELSE sprites.overflow
         /\ \A i \in Slots : IF Loads(i) THEN q.registers[i] = Loading(sprites.secondary[i])
                             ELSE IF PreRender /\ dot = 1
                             THEN \A c \in 1 .. TILE : q.registers[i].cells[c] = Transparent
                             ELSE q.registers[i] = sprites.registers[i]
<1>1. /\ sprites = [secondary |-> sprites.secondary, found |-> sprites.found,
                    index |-> sprites.index, past |-> sprites.past,
                    registers |-> sprites.registers, overflow |-> sprites.overflow,
                    hit |-> sprites.hit]
      /\ sprites.secondary = [i \in Slots |-> sprites.secondary[i]]
      /\ AreRegisters(sprites.registers) /\ sprites.hit \in BOOLEAN
      /\ sprites.found \in 0 .. SLOTS /\ sprites.index \in 0 .. OAM - 1
      /\ sprites.past \in BOOLEAN
  BY DEF IsSprites, AreRegisters
<1>2. /\ WIDTH \in Nat /\ PREFETCH \in Nat /\ WIDTH < PREFETCH /\ WIDTH >= 1
      /\ HEIGHT \in Nat /\ HEIGHT < PRERENDER /\ dot \in Nat
      /\ raster.scanline \in Nat
  BY Layout, Sizes
<1>3. PreRender => ~Visible
  BY <1>2 DEF PreRender, Visible
<1>4. \A i \in Slots : Loads(i) => dot \in WIDTH + 1 .. PREFETCH - 1
  BY <1>2, SlotsAre DEF Loads
<1>5. CASE Visible /\ FetchesTile
  <2>1. dot >= PREFETCH
    BY <1>2, <1>5 DEF FetchesTile
  <2>2. dot # RESTART /\ dot \notin EVALUATE /\ \A i \in Slots : CLEAR[i] # dot
    BY <1>2, <2>1, SlotsAre
  <2>3. ~Draws
    BY <1>5 DEF Draws
  <2> DEFINE e == sprite_evaluation
             r == Registers
             h == e.hit \/ HitsNow
             f == [i \in Slots |-> IF CLEAR[i] = dot THEN Empty ELSE sprites.secondary[i]]
  <2>4. e = [sprites EXCEPT !.secondary = f]
    BY <2>2 DEF sprite_evaluation
  <2>5. f = sprites.secondary
    <3>1. f = [i \in Slots |-> sprites.secondary[i]]
      BY <2>2
    <3> QED BY <1>1, <3>1
  <2>6. e = sprites
    <3> HIDE DEF e, f
    <3> QED BY ONLY <1>1, <2>4, <2>5
  <2>7. LookedAt = {}
    BY <2>3 DEF LookedAt
  <2>8. ~HitsNow
    BY <2>7 DEF HitsNow, FrontAfter
  <2>9. r = sprites.registers /\ h = sprites.hit
    BY <1>1, <2>3, <2>6, <2>8 DEF Registers
  <2>10. q = [e EXCEPT !.registers = r, !.hit = h]
    BY <1>5 DEF SpritesAfter
  <2> HIDE DEF e, r, h
  <2>11. With(q, sprites, sprites.registers, sprites.hit)
    BY <2>6, <2>9, <2>10 DEF With
  <2>12. /\ IsSprites(q) /\ q.registers = sprites.registers /\ q.hit = sprites.hit
         /\ q.secondary = sprites.secondary /\ q.found = sprites.found
         /\ q.index = sprites.index /\ q.past = sprites.past
         /\ q.overflow = sprites.overflow
    BY ONLY <1>1, <2>11, IsSprites(sprites), Composed
  <2>13. \A i \in Slots : ~Loads(i)
    BY <1>2, <1>4, <2>1
  <2> QED BY <1>1, <1>3, <1>5, <2>12, <2>13
<1>6. CASE ~(Visible /\ FetchesTile) /\ (Visible \/ PreRender)
           /\ dot \in WIDTH + 1 .. PREFETCH - 1
  <2> DEFINE r == [i \in Slots |->
                     IF FETCH[i] = dot /\ sprites.secondary[i] # Empty
                     THEN Loading(sprites.secondary[i]) ELSE sprites.registers[i]]
  <2>1. q = [sprites EXCEPT !.registers = r]
    BY <1>6 DEF SpritesAfter, sprite_fetch
  <2>2. r = [i \in Slots |-> r[i]]
    OBVIOUS
  <2>3. \A i \in Slots : r[i] = IF Loads(i) THEN Loading(sprites.secondary[i])
                                ELSE sprites.registers[i]
    BY <1>6 DEF Loads
  <2>4. \A i \in Slots : IsRegister(r[i])
    <3> SUFFICES ASSUME NEW i \in Slots PROVE IsRegister(r[i])
      OBVIOUS
    <3> HIDE DEF r
    <3>1. CASE Loads(i)
      <4>1. HasEntries(sprites)
        BY <1>2, <1>6
      <4>2. PICK j \in 1 .. OAM : sprites.secondary[i] = EntryOf(j)
        BY <3>1, <4>1 DEF HasEntries, Loads
      <4>3. r[i] = Loading(EntryOf(j))
        BY <2>3, <3>1, <4>2
      <4> QED BY <4>2, <4>3, LoadingIs
    <3>2. CASE ~Loads(i)
      BY <1>1, <2>3, <3>2 DEF AreRegisters
    <3> QED BY <3>1, <3>2
  <2> HIDE DEF r
  <2>5. q = [secondary |-> sprites.secondary, found |-> sprites.found,
             index |-> sprites.index, past |-> sprites.past,
             registers |-> r, overflow |-> sprites.overflow, hit |-> sprites.hit]
    BY ONLY <1>1, <2>1
  <2>6. /\ q.secondary = sprites.secondary /\ q.found = sprites.found
        /\ q.index = sprites.index /\ q.past = sprites.past
        /\ q.registers = r /\ q.overflow = sprites.overflow /\ q.hit = sprites.hit
    BY ONLY <2>5
  <2>7. IsSprites(q)
    BY <1>1, <2>2, <2>4, <2>5, <2>6 DEF IsSprites
  <2>8. dot # 1
    BY <1>2, <1>6
  <2> QED BY <2>3, <2>6, <2>7, <2>8
<1>7. CASE PreRender /\ dot = 1
  <2> DEFINE r == [i \in Slots |-> [sprites.registers[i] EXCEPT !.cells = NoSprite.cells]]
  <2>1. ~(dot \in WIDTH + 1 .. PREFETCH - 1)
    BY <1>2, <1>7
  <2>2. q = vblank_end(sprites)
    BY <1>3, <1>7, <2>1 DEF SpritesAfter
  <2>3. q = [sprites EXCEPT !.hit = FALSE, !.overflow = FALSE, !.registers = r]
    BY <2>2 DEF vblank_end
  <2>4. r = [i \in Slots |-> r[i]]
    OBVIOUS
  <2>5. \A i \in Slots : IsRegister(r[i]) /\ \A c \in 1 .. TILE : r[i].cells[c] = Transparent
    <3> SUFFICES ASSUME NEW i \in Slots
                 PROVE  IsRegister(r[i]) /\ \A c \in 1 .. TILE : r[i].cells[c] = Transparent
      OBVIOUS
    <3> DEFINE w == r[i]
    <3>1. w = [sprites.registers[i] EXCEPT !.cells = NoSprite.cells]
      OBVIOUS
    <3>2. IsRegister(sprites.registers[i])
      BY <1>1 DEF AreRegisters
    <3> HIDE DEF w
    <3>3. IsRegister(w) /\ \A c \in 1 .. TILE : w.cells[c] = Transparent
      BY ONLY <3>1, <3>2, ClearedIs
    <3> QED BY <3>3 DEF w
  <2> HIDE DEF r
  <2>6. q = [secondary |-> sprites.secondary, found |-> sprites.found,
             index |-> sprites.index, past |-> sprites.past,
             registers |-> r, overflow |-> FALSE, hit |-> FALSE]
    BY ONLY <1>1, <2>3
  <2>7. /\ q.secondary = sprites.secondary /\ q.found = sprites.found
        /\ q.index = sprites.index /\ q.past = sprites.past
        /\ q.registers = r /\ q.overflow = FALSE /\ q.hit = FALSE
    BY ONLY <2>6
  <2>8. IsSprites(q)
    BY <1>1, <2>4, <2>5, <2>6, <2>7 DEF IsSprites
  <2>9. \A i \in Slots : ~Loads(i)
    BY <1>4, <2>1
  <2> QED BY <1>7, <2>5, <2>7, <2>8, <2>9
<1>8. CASE /\ ~(Visible /\ FetchesTile) /\ ~(PreRender /\ dot = 1)
           /\ ~((Visible \/ PreRender) /\ dot \in WIDTH + 1 .. PREFETCH - 1)
  <2>1. q = sprites
    BY <1>8 DEF SpritesAfter
  <2>2. \A i \in Slots : ~Loads(i)
    BY <1>4, <1>8 DEF Loads
  <2> QED BY <1>1, <1>8, <2>1, <2>2
<1> QED BY <1>5, <1>6, <1>7, <1>8

-----------------------------------------------------------------------------
(* The evaluation goes through OAM once a line; what is left of the last   *)
(* line stays through the blank.  The flag tells of the lines before.      *)
Evaluated(q, s, d) ==
  /\ s < HEIGHT /\ d <= RESTART =>
       \A k \in Slots : CLEAR[k] < d => q.secondary[k] = Empty
  /\ s < HEIGHT /\ d > RESTART =>
       /\ Examining(q, OnThisLine(s), Done(q))
       /\ q.past \/ q.index = Count(EVALUATE, d - 1)
  /\ s >= HEIGHT => \A k \in Slots : q.secondary[k] # Empty =>
       \E j \in OnThisLine(HEIGHT - 1) : q.secondary[k] = EntryOf(j)

Crowds(line) == Count(OnThisLine(line), OAM) > SLOTS

CrowdedBefore(line) == \E l \in 0 .. line - 1 : Crowds(l)

Overflows(q, s, d) ==
  /\ s < HEIGHT => (q.overflow <=> \/ CrowdedBefore(s)
                                   \/ d > RESTART /\ Count(OnThisLine(s), Done(q)) > SLOTS)
  /\ s = PRERENDER /\ d > 1 => ~q.overflow

LEMMA SameEvaluation ==
  ASSUME NEW q, NEW e, q.secondary = e.secondary, q.found = e.found, q.index = e.index,
         q.past = e.past, q.overflow = e.overflow, NEW s, NEW d,
         Evaluated(e, s, d), Overflows(e, s, d)
  PROVE  Evaluated(q, s, d) /\ Overflows(q, s, d)
<1>1. Done(q) = Done(e)
  BY DEF Done
<1>2. \A S, n : Examining(e, S, n) => Examining(q, S, n)
  BY DEF Examining
<1> QED BY <1>1, <1>2 DEF Evaluated, Overflows

LEMMA EvaluationStep ==
  ASSUME IsSprites(sprites), raster.scanline \in Nat, raster.scanline < HEIGHT,
         dot \in 1 .. WIDTH, Evaluated(sprites, raster.scanline, dot),
         Overflows(sprites, raster.scanline, dot), NEW e, e = sprite_evaluation
  PROVE  /\ IsSprites(e) /\ e.registers = sprites.registers /\ e.hit = sprites.hit
         /\ Evaluated(e, raster.scanline, dot + 1)
         /\ Overflows(e, raster.scanline, dot + 1)
<1> DEFINE s == raster.scanline
           S == OnThisLine(s)
           n == Done(sprites)
<1>1. /\ sprites = [secondary |-> sprites.secondary, found |-> sprites.found,
                    index |-> sprites.index, past |-> sprites.past,
                    registers |-> sprites.registers, overflow |-> sprites.overflow,
                    hit |-> sprites.hit]
      /\ sprites.secondary = [i \in Slots |-> sprites.secondary[i]]
      /\ AreRegisters(sprites.registers) /\ sprites.hit \in BOOLEAN
      /\ sprites.overflow \in BOOLEAN
      /\ sprites.found \in 0 .. SLOTS /\ sprites.index \in 0 .. OAM - 1
      /\ sprites.past \in BOOLEAN
  BY DEF IsSprites, AreRegisters
<1>2. /\ WIDTH \in Nat /\ dot \in Nat /\ 1 <= dot /\ dot <= WIDTH /\ s \in Nat
      /\ s < HEIGHT /\ HEIGHT \in Nat /\ HEIGHT < PRERENDER /\ PRERENDER \in Nat
  BY Layout
<1>3. ASSUME dot > RESTART
      PROVE  /\ Examining(sprites, S, n)
             /\ sprites.past \/ sprites.index = Count(EVALUATE, dot - 1)
             /\ sprites.overflow <=> CrowdedBefore(s) \/ Count(S, n) > SLOTS
  BY <1>1, <1>2, <1>3 DEF Evaluated, Overflows
<1>4. Count(EVALUATE, dot) = IF dot \in EVALUATE THEN Count(EVALUATE, dot - 1) + 1
                             ELSE Count(EVALUATE, dot - 1)
  <2>1. dot - 1 \in Nat /\ (dot - 1) + 1 = dot
    BY <1>2
  <2> HIDE DEF s, S, n
  <2> DEFINE m == dot - 1
  <2> HIDE DEF m
  <2>2. Count(EVALUATE, m + 1) = IF m + 1 \in EVALUATE THEN Count(EVALUATE, m) + 1
                                 ELSE Count(EVALUATE, m)
    BY <2>1, CountNext DEF m
  <2> QED BY <2>1, <2>2 DEF m
<1>5. CASE dot = RESTART
  <2>1. e = [sprites EXCEPT !.index = 0, !.found = 0, !.past = FALSE]
    BY <1>5 DEF sprite_evaluation
  <2>2. e = [secondary |-> sprites.secondary, found |-> 0, index |-> 0, past |-> FALSE,
             registers |-> sprites.registers, overflow |-> sprites.overflow,
             hit |-> sprites.hit]
    BY ONLY <1>1, <2>1
  <2>3. /\ e.secondary = sprites.secondary /\ e.found = 0 /\ e.index = 0
        /\ e.past = FALSE /\ e.registers = sprites.registers
        /\ e.overflow = sprites.overflow /\ e.hit = sprites.hit
    BY ONLY <2>2
  <2>4. IsSprites(e)
    <3>1. 0 \in 0 .. SLOTS /\ 0 \in 0 .. OAM - 1
      BY SlotsAre, OamSize
    <3> QED BY <1>1, <2>2, <2>3, <3>1 DEF IsSprites, AreRegisters
  <2>5. \A k \in Slots : e.secondary[k] = Empty
    BY <1>2, <1>5, <2>3, SlotsAre DEF Evaluated
  <2>6. Done(e) = 0
    BY <2>3 DEF Done
  <2>7. Count(S, 0) = 0 /\ S \cap 1 .. 0 = {}
    <3> HIDE DEF S
    <3>1. 0 \in Nat
      OBVIOUS
    <3>2. Count(S, 0) = 0
      BY ONLY <3>1, CountNext
    <3> QED BY <3>2
  <2>8. Examining(e, S, 0)
    BY <2>3, <2>5, <2>7, SlotsAre DEF Examining
  <2>9. Count(EVALUATE, RESTART) = 0
    <3>1. EVALUATE \cap 1 .. RESTART = {}
      BY SlotsAre
    <3> QED BY <3>1, FS_EmptySet DEF Count
  <2>10. Evaluated(e, s, dot + 1)
    <3>1. dot + 1 > RESTART /\ dot + 1 - 1 = RESTART
      BY <1>2, <1>5
    <3> QED BY <1>2, <2>3, <2>6, <2>8, <2>9, <3>1, SlotsAre DEF Evaluated
  <2>11. Overflows(e, s, dot + 1)
    <3>1. e.overflow <=> CrowdedBefore(s)
      BY <1>2, <1>5, <2>3, SlotsAre DEF Overflows
    <3>2. ~(Count(S, Done(e)) > SLOTS)
      BY <2>6, <2>7, SlotsAre
    <3> QED BY <1>2, <3>1, <3>2 DEF Overflows
  <2> QED BY <2>3, <2>4, <2>10, <2>11
<1>6. CASE dot \in EVALUATE
  <2>1. dot > RESTART /\ dot # RESTART /\ dot + 1 > RESTART /\ ~(dot + 1 <= RESTART)
    BY <1>2, <1>6, SlotsAre
  <2>2. e = Examined
    BY <1>6, <2>1 DEF sprite_evaluation
  <2>3. ~sprites.past => (OnLine(scene.sprites[n + 1], s) <=> n + 1 \in S)
    <3> SUFFICES ASSUME ~sprites.past
                 PROVE  OnLine(scene.sprites[n + 1], s) <=> n + 1 \in S
      OBVIOUS
    <3>1. n + 1 \in 1 .. OAM
      BY <1>1, OamSize DEF Done
    <3> QED BY <3>1 DEF OnThisLine
  <2>4. /\ IsSprites(e) /\ n \in Nat
        /\ Done(e) = IF sprites.past THEN n ELSE n + 1
        /\ Examining(e, S, Done(e))
        /\ e.past \/ (~sprites.past /\ e.index = sprites.index + 1)
        /\ e.registers = sprites.registers /\ e.hit = sprites.hit
        /\ e.overflow <=> \/ sprites.overflow
                          \/ Count(S, Done(e)) > Count(S, n) /\ Count(S, Done(e)) > SLOTS
    <3> HIDE DEF n, S, s
    <3>1. Examining(sprites, S, n) /\ n = Done(sprites)
      BY <1>3, <2>1 DEF n
    <3>2. ~sprites.past => (OnLine(scene.sprites[n + 1], raster.scanline) <=> n + 1 \in S)
      BY <2>3 DEF s
    <3> QED BY <2>2, <3>1, <3>2, ExaminedIs
  <2>5. e.past \/ e.index = Count(EVALUATE, dot)
    BY <1>3, <1>4, <1>6, <2>1, <2>4
  <2>6. Evaluated(e, s, dot + 1)
    <3>1. dot + 1 - 1 = dot
      BY <1>2
    <3> QED BY <1>2, <2>1, <2>4, <2>5, <3>1 DEF Evaluated
  <2>7. Overflows(e, s, dot + 1)
    <3> DEFINE k == Done(e)
    <3>1. k \in Nat /\ n <= k
      BY <2>4
    <3> HIDE DEF k, n, S
    <3>2. Count(S, n) <= Count(S, k) /\ Count(S, n) \in Nat /\ Count(S, k) \in Nat
      BY <2>4, <3>1, CountMonotone, CountNext
    <3>3. e.overflow <=> CrowdedBefore(s) \/ Count(S, k) > SLOTS
      BY <1>3, <2>1, <2>4, <3>2, SlotsAre DEF k
    <3> QED BY <1>2, <2>1, <3>3 DEF Overflows, k, S
  <2> QED BY <2>4, <2>6, <2>7
<1>7. CASE dot # RESTART /\ dot \notin EVALUATE
  <2> DEFINE f == [i \in Slots |-> IF CLEAR[i] = dot THEN Empty ELSE sprites.secondary[i]]
  <2>1. e = [sprites EXCEPT !.secondary = f]
    BY <1>7 DEF sprite_evaluation
  <2>2. f = [i \in Slots |-> f[i]]
    OBVIOUS
  <2>3. \A i \in Slots : f[i] = IF CLEAR[i] = dot THEN Empty ELSE sprites.secondary[i]
    OBVIOUS
  <2> HIDE DEF f
  <2>4. e = [secondary |-> f, found |-> sprites.found, index |-> sprites.index,
             past |-> sprites.past, registers |-> sprites.registers,
             overflow |-> sprites.overflow, hit |-> sprites.hit]
    BY ONLY <1>1, <2>1
  <2>5. /\ e.secondary = f /\ e.found = sprites.found /\ e.index = sprites.index
        /\ e.past = sprites.past /\ e.registers = sprites.registers
        /\ e.overflow = sprites.overflow /\ e.hit = sprites.hit
    BY ONLY <2>4
  <2>6. IsSprites(e)
    BY <1>1, <2>2, <2>4, <2>5 DEF IsSprites, AreRegisters
  <2>7. CASE dot < RESTART
    <3>1. \A k \in Slots : CLEAR[k] < dot + 1 => e.secondary[k] = Empty
      <4> SUFFICES ASSUME NEW k \in Slots, CLEAR[k] < dot + 1
                   PROVE  f[k] = Empty
        BY <2>5
      <4>1. CLEAR[k] = dot \/ CLEAR[k] < dot
        BY <1>2, SlotsAre
      <4>2. CLEAR[k] < dot => sprites.secondary[k] = Empty
        BY <1>2, <2>7, SlotsAre DEF Evaluated
      <4> QED BY <2>3, <4>1, <4>2
    <3>2. ~(dot + 1 > RESTART) /\ ~(dot > RESTART)
      BY <1>2, <2>7, SlotsAre
    <3>3. Evaluated(e, s, dot + 1)
      BY <1>2, <3>1, <3>2 DEF Evaluated
    <3>4. Overflows(e, s, dot + 1)
      BY <1>2, <2>5, <3>2 DEF Overflows
    <3> QED BY <2>5, <2>6, <3>3, <3>4
  <2>8. CASE ~(dot < RESTART)
    <3>1. dot > RESTART /\ dot + 1 > RESTART /\ ~(dot + 1 <= RESTART) /\ dot + 1 - 1 = dot
      BY <1>2, <1>7, <2>8, SlotsAre
    <3>2. f = sprites.secondary
      <4>1. \A i \in Slots : CLEAR[i] # dot
        BY <1>2, <3>1, SlotsAre
      <4>2. f = [i \in Slots |-> sprites.secondary[i]]
        BY <2>2, <2>3, <4>1
      <4> QED BY <1>1, <4>2
    <3>3. Done(e) = n /\ (Examining(e, S, n) <=> Examining(sprites, S, n))
      BY <2>5, <3>2 DEF Done, Examining
    <3>4. Evaluated(e, s, dot + 1)
      BY <1>2, <1>3, <1>4, <1>7, <2>5, <3>1, <3>3 DEF Evaluated
    <3>5. Overflows(e, s, dot + 1)
      BY <1>2, <1>3, <2>5, <3>1, <3>3 DEF Overflows
    <3> QED BY <2>5, <2>6, <3>4, <3>5
  <2> QED BY <2>7, <2>8
<1> QED BY <1>5, <1>6, <1>7

(* Every sprite has been examined before the fetches. *)
LEMMA AtTheEnd ==
  ASSUME NEW q, IsSprites(q), NEW s, s \in Nat, s < HEIGHT, NEW d, d \in Nat, d > WIDTH,
         Evaluated(q, s, d)
  PROVE  q.past /\ Done(q) = OAM /\ Examining(q, OnThisLine(s), OAM)
<1>1. q.past \in BOOLEAN /\ q.index \in 0 .. OAM - 1
  BY DEF IsSprites
<1>2. WIDTH \in Nat /\ d > RESTART
  BY Layout, SlotsAre
<1>3. Count(EVALUATE, d - 1) = Cardinality(EVALUATE)
  <2>1. EVALUATE \cap 1 .. d - 1 = EVALUATE
    BY <1>2, SlotsAre
  <2> QED BY <2>1 DEF Count
<1>4. Examining(q, OnThisLine(s), Done(q)) /\ (q.past \/ q.index = Count(EVALUATE, d - 1))
  BY <1>2 DEF Evaluated
<1>5. q.past
  <2>1. Cardinality(EVALUATE) # q.index
    BY <1>1, OamSize
  <2> QED BY <1>1, <1>3, <1>4, <2>1
<1> QED BY <1>4, <1>5 DEF Done

LEMMA EvaluatedNext ==
  ASSUME NEW s, s \in 0 .. PRERENDER, NEW d, d \in 0 .. LAST_DOT, NEW s2, NEW d2,
         NextPlace(s, d, s2, d2), ~(s < HEIGHT /\ d \in 1 .. WIDTH),
         NEW q, IsSprites(q), Evaluated(q, s, d)
  PROVE  Evaluated(q, s2, d2)
<1>1. /\ WIDTH \in Nat /\ s \in Nat /\ d \in Nat /\ d <= LAST_DOT /\ s <= PRERENDER
      /\ HEIGHT \in Nat \ {0} /\ HEIGHT < PRERENDER /\ PRERENDER \in Nat /\ LAST_DOT \in Nat
      /\ WIDTH + 1 < LAST_DOT /\ 1 <= WIDTH
  BY Layout, Sizes
<1>2. /\ RESTART \in Nat /\ 1 <= RESTART /\ RESTART <= WIDTH
      /\ \A k \in Slots : CLEAR[k] \in Nat /\ 1 <= CLEAR[k]
  BY SlotsAre
<1>3. CASE s < HEIGHT /\ d = 0
  <2>1. s2 = s /\ d2 = 1
    BY <1>1, <1>3 DEF NextPlace
  <2>2. ~(d2 > RESTART) /\ \A k \in Slots : ~(CLEAR[k] < d2)
    BY <1>2, <2>1
  <2> QED BY <1>1, <1>3, <2>1, <2>2 DEF Evaluated
<1>4. CASE s < HEIGHT /\ d > WIDTH
  <2>1. q.past /\ Done(q) = OAM /\ Examining(q, OnThisLine(s), OAM)
    BY <1>1, <1>4, AtTheEnd
  <2>2. CASE d # LAST_DOT
    <3>1. s2 = s /\ d2 = d + 1 /\ d2 > RESTART /\ ~(d2 <= RESTART)
      BY <1>1, <1>2, <1>4, <2>2 DEF NextPlace
    <3> QED BY <1>1, <1>4, <2>1, <3>1 DEF Evaluated
  <2>3. CASE d = LAST_DOT
    <3>1. s2 = s + 1 /\ d2 = 0
      BY <1>1, <1>4, <2>3 DEF NextPlace
    <3>2. ~(d2 > RESTART) /\ \A k \in Slots : ~(CLEAR[k] < d2)
      BY <1>2, <3>1
    <3>3. s2 >= HEIGHT => s = HEIGHT - 1
      BY <1>1, <1>4, <3>1
    <3> QED BY <2>1, <3>2, <3>3 DEF Evaluated, Examining
  <2> QED BY <2>2, <2>3
<1>5. CASE ~(s < HEIGHT)
  <2>1. CASE s = PRERENDER /\ d = LAST_DOT
    <3>1. s2 = 0 /\ d2 \in {0, 1}
      BY <2>1 DEF NextPlace
    <3>2. ~(d2 > RESTART) /\ (\A k \in Slots : ~(CLEAR[k] < d2)) /\ ~(s2 >= HEIGHT)
      BY <1>1, <1>2, <3>1
    <3> QED BY <3>2 DEF Evaluated
  <2>2. CASE ~(s = PRERENDER /\ d = LAST_DOT)
    <3>1. ~(s2 < HEIGHT) /\ s >= HEIGHT
      BY <1>1, <1>5, <2>2 DEF NextPlace
    <3> QED BY <3>1 DEF Evaluated
  <2> QED BY <2>1, <2>2
<1> QED BY <1>1, <1>3, <1>4, <1>5

LEMMA OverflowsNext ==
  ASSUME NEW s, s \in 0 .. PRERENDER, NEW d, d \in 0 .. LAST_DOT, NEW s2, NEW d2,
         NextPlace(s, d, s2, d2), ~(s < HEIGHT /\ d \in 1 .. WIDTH),
         NEW q, IsSprites(q), Evaluated(q, s, d), Overflows(q, s, d),
         NEW e, e.past = q.past, e.index = q.index,
         e.overflow = IF s = PRERENDER /\ d = 1 THEN FALSE ELSE q.overflow
  PROVE  Overflows(e, s2, d2)
<1>1. /\ WIDTH \in Nat /\ s \in Nat /\ d \in Nat /\ d <= LAST_DOT /\ s <= PRERENDER
      /\ HEIGHT \in Nat \ {0} /\ HEIGHT < PRERENDER /\ PRERENDER \in Nat /\ LAST_DOT \in Nat
      /\ WIDTH + 1 < LAST_DOT /\ 1 <= WIDTH
  BY Layout, Sizes
<1>2. RESTART \in Nat /\ 1 <= RESTART /\ RESTART <= WIDTH
  BY SlotsAre
<1>3. Done(e) = Done(q)
  BY DEF Done
<1>4. q.overflow \in BOOLEAN
  BY DEF IsSprites
<1>5. CASE s < HEIGHT /\ d = 0
  <2>1. s2 = s /\ d2 = 1 /\ s # PRERENDER
    BY <1>1, <1>5 DEF NextPlace
  <2>2. ~(d2 > RESTART) /\ ~(d > RESTART)
    BY <1>2, <1>5, <2>1
  <2> QED BY <1>3, <1>5, <2>1, <2>2 DEF Overflows
<1>6. CASE s < HEIGHT /\ d > WIDTH
  <2>1. Done(q) = OAM /\ s # PRERENDER /\ d > RESTART
    BY <1>1, <1>2, <1>6, AtTheEnd
  <2>2. CASE d # LAST_DOT
    <3>1. s2 = s /\ d2 > RESTART
      BY <1>1, <1>2, <1>6, <2>2 DEF NextPlace
    <3> QED BY <1>3, <1>6, <2>1, <3>1 DEF Overflows
  <2>3. CASE d = LAST_DOT
    <3>1. s2 = s + 1 /\ d2 = 0 /\ ~(d2 > 1) /\ ~(d2 > RESTART)
      BY <1>1, <1>2, <1>6, <2>1, <2>3 DEF NextPlace
    <3>2. e.overflow <=> CrowdedBefore(s) \/ Crowds(s)
      BY <1>6, <2>1 DEF Overflows, Crowds
    <3>3. CrowdedBefore(s2) <=> CrowdedBefore(s) \/ Crowds(s)
      <4>1. s2 - 1 = s /\ 0 .. s = 0 .. s - 1 \cup {s}
        BY <1>1, <3>1
      <4> QED BY <4>1 DEF CrowdedBefore
    <3> QED BY <3>1, <3>2, <3>3 DEF Overflows
  <2> QED BY <2>2, <2>3
<1>7. CASE ~(s < HEIGHT) /\ s # PRERENDER
  <2>1. ~(s2 < HEIGHT) /\ ~(s2 = PRERENDER /\ d2 > 1)
    BY <1>1, <1>7 DEF NextPlace
  <2> QED BY <2>1 DEF Overflows
<1>8. CASE s = PRERENDER
  <2>1. CASE d # LAST_DOT
    <3>1. s2 = s /\ d2 = d + 1 /\ ~(s2 < HEIGHT)
      BY <1>1, <1>8, <2>1 DEF NextPlace
    <3>2. d2 > 1 => ~e.overflow
      BY <1>1, <1>8, <3>1 DEF Overflows
    <3> QED BY <3>1, <3>2 DEF Overflows
  <2>2. CASE d = LAST_DOT
    <3>1. s2 = 0 /\ d2 \in {0, 1} /\ d > 1 /\ d # 1 /\ ~(d2 > RESTART) /\ s2 # PRERENDER
      BY <1>1, <1>2, <1>8, <2>2 DEF NextPlace
    <3>2. ~e.overflow
      BY <1>8, <3>1 DEF Overflows
    <3>3. ~CrowdedBefore(s2)
      BY <3>1 DEF CrowdedBefore
    <3> QED BY <3>1, <3>2, <3>3 DEF Overflows
  <2> QED BY <2>1, <2>2
<1> QED BY <1>1, <1>5, <1>6, <1>7, <1>8

(* What is left in a register ends within n dots. *)
Fits(q, n) == \A c \in 1 .. TILE : q.cells[c] # Transparent => q.offset + c <= n + 1

(* The end of the blank leaves nothing in the registers. *)
Ended(q, s, d) ==
  s = PRERENDER /\ 1 < d /\ d <= WIDTH + 1 => \A i \in Slots : Fits(q.registers[i], 0)

SpritesInv ==
  /\ IsSprites(sprites) /\ SpritesWell(scene)
  /\ Evaluated(sprites, raster.scanline, dot) /\ Overflows(sprites, raster.scanline, dot)
  /\ Ended(sprites, raster.scanline, dot)

(* As long as the scene stays. *)
LEMMA SameScene ==
  ASSUME scene' = scene
  PROVE  /\ \A l : OnThisLine(l)' = OnThisLine(l)
         /\ Evaluated(sprites', raster'.scanline, raster'.dot)
              => Evaluated(sprites, raster.scanline, dot)'
         /\ Overflows(sprites', raster'.scanline, raster'.dot)
              => Overflows(sprites, raster.scanline, dot)'
<1>1. \A l : OnThisLine(l)' = OnThisLine(l)
  BY DEF OnThisLine, OnLine, Height
<1>2. \A j : EntryOf(j)' = EntryOf(j)
  BY DEF EntryOf
<1>3. ASSUME Evaluated(sprites', raster'.scanline, raster'.dot)
      PROVE  Evaluated(sprites, raster.scanline, dot)'
  BY <1>1, <1>2, <1>3 DEF Evaluated, Examining, Done, dot
<1>4. ASSUME Overflows(sprites', raster'.scanline, raster'.dot)
      PROVE  Overflows(sprites, raster.scanline, dot)'
  BY <1>1, <1>4 DEF Overflows, CrowdedBefore, Crowds, Done, dot
<1> QED BY <1>1, <1>3, <1>4

LEMMA HasItsEntries ==
  ASSUME PipelineInv, SpritesInv, (Visible \/ PreRender) /\ dot > WIDTH
  PROVE  HasEntries(sprites)
<1> DEFINE s == raster.scanline
<1>1. s \in 0 .. PRERENDER /\ dot \in 0 .. LAST_DOT
  BY DEF PipelineInv, PipelineType, PpuType, dot
<1>2. s \in Nat /\ dot \in Nat /\ HEIGHT \in Nat /\ HEIGHT < PRERENDER /\ PRERENDER \in Nat
  BY <1>1, Layout
<1>3. \A l : OnThisLine(l) \subseteq 1 .. OAM
  BY DEF OnThisLine
<1>4. CASE s < HEIGHT
  <2>1. Examining(sprites, OnThisLine(s), OAM)
    BY <1>2, <1>4, AtTheEnd DEF SpritesInv
  <2> QED BY <1>3, <2>1 DEF Examining, HasEntries
<1>5. CASE s >= HEIGHT
  BY <1>3, <1>5 DEF SpritesInv, Evaluated, HasEntries
<1> QED BY <1>2, <1>4, <1>5

LEMMA DotSprites ==
  ASSUME PipelineInv, SpritesInv, PictureDot
  PROVE  SpritesInv'
<1> DEFINE s == raster.scanline
           q == sprites'
<1>1. /\ NextPlace(s, dot, raster'.scanline, raster'.dot)
      /\ s \in 0 .. PRERENDER /\ dot \in 0 .. LAST_DOT
  <2>1. PipelineType /\ Dot
    BY DEF PipelineInv, PictureDot
  <2> QED BY <2>1, DotType DEF PipelineType, PpuType, dot
<1>2. /\ IsSprites(sprites) /\ SpritesWell(scene) /\ Evaluated(sprites, s, dot)
      /\ Overflows(sprites, s, dot) /\ Ended(sprites, s, dot)
  BY DEF SpritesInv
<1>3. q = SpritesAfter /\ scene' = scene
  BY DEF PictureDot
<1>4. /\ WIDTH \in Nat /\ s \in Nat /\ dot \in Nat /\ dot <= LAST_DOT /\ s <= PRERENDER
      /\ HEIGHT \in Nat \ {0} /\ HEIGHT < PRERENDER /\ PRERENDER \in Nat /\ LAST_DOT \in Nat
      /\ WIDTH + 1 < LAST_DOT /\ 1 <= WIDTH
  BY <1>1, Layout, Sizes
<1>5. ASSUME IsSprites(q), Evaluated(q, raster'.scanline, raster'.dot),
             Overflows(q, raster'.scanline, raster'.dot),
             Ended(q, raster'.scanline, raster'.dot)
      PROVE  SpritesInv'
  <2>1. Evaluated(sprites, raster.scanline, dot)' /\ Overflows(sprites, raster.scanline, dot)'
    BY <1>3, <1>5, SameScene
  <2>2. SpritesWell(scene)'
    BY <1>2, <1>3 DEF SpritesWell
  <2>3. Ended(sprites, raster.scanline, dot)'
    BY <1>5 DEF Ended, dot, Fits
  <2> QED BY <1>5, <2>1, <2>2, <2>3 DEF SpritesInv, IsSprites, IsRegister
<1> HIDE DEF q
<1>6. CASE Visible /\ dot \in 1 .. WIDTH
  <2> DEFINE e == sprite_evaluation
  <2>1. s < HEIGHT
    BY <1>6 DEF Visible
  <2>2. /\ IsSprites(e) /\ e.hit = sprites.hit
        /\ Evaluated(e, s, dot + 1) /\ Overflows(e, s, dot + 1)
    BY <1>2, <1>4, <1>6, <2>1, EvaluationStep
  <2>3. /\ IsSprites(q) /\ q.secondary = e.secondary /\ q.found = e.found
        /\ q.index = e.index /\ q.past = e.past /\ q.overflow = e.overflow
    BY <1>2, <1>3, <1>6, <2>2, VisibleDot
  <2>4. raster'.scanline = s /\ raster'.dot = dot + 1
    BY <1>1, <1>4, <1>6 DEF NextPlace
  <2> HIDE DEF e, s
  <2>5. Evaluated(q, s, dot + 1) /\ Overflows(q, s, dot + 1)
    BY <2>2, <2>3, SameEvaluation
  <2>6. Ended(q, s, dot + 1)
    BY <1>4, <2>1 DEF Ended
  <2> QED BY <1>5, <2>3, <2>4, <2>5, <2>6
<1>7. CASE ~(Visible /\ dot \in 1 .. WIDTH)
  <2>1. (Visible \/ PreRender) /\ dot > WIDTH => HasEntries(sprites)
    BY HasItsEntries
  <2>2. /\ IsSprites(q) /\ q.secondary = sprites.secondary /\ q.found = sprites.found
        /\ q.index = sprites.index /\ q.past = sprites.past
        /\ q.overflow = IF PreRender /\ dot = 1 THEN FALSE ELSE sprites.overflow
        /\ \A i \in Slots : IF Loads(i) THEN q.registers[i] = Loading(sprites.secondary[i])
                            ELSE IF PreRender /\ dot = 1
                            THEN \A c \in 1 .. TILE : q.registers[i].cells[c] = Transparent
                            ELSE q.registers[i] = sprites.registers[i]
    BY <1>1, <1>2, <1>3, <1>7, <2>1, OtherDot
  <2>3. ~(s < HEIGHT /\ dot \in 1 .. WIDTH)
    BY <1>7 DEF Visible
  <2> DEFINE s2 == raster'.scanline
             d2 == raster'.dot
  <2>4. NextPlace(s, dot, s2, d2)
    BY <1>1
  <2>5. Evaluated(q, s2, d2)
    <3>1. Evaluated(q, s, dot)
      BY <1>2, <2>2 DEF Evaluated, Examining, Done
    <3> HIDE DEF s, s2, d2
    <3> QED BY <1>1, <2>2, <2>3, <2>4, <3>1, EvaluatedNext
  <2>6. Overflows(q, s2, d2)
    <3>1. q.overflow = IF s = PRERENDER /\ dot = 1 THEN FALSE ELSE sprites.overflow
      BY <2>2 DEF PreRender
    <3>2. q.past = sprites.past /\ q.index = sprites.index
      BY <2>2
    <3>3. IsSprites(sprites) /\ Evaluated(sprites, s, dot) /\ Overflows(sprites, s, dot)
      BY <1>2
    <3>4. s \in 0 .. PRERENDER /\ dot \in 0 .. LAST_DOT
      BY <1>1
    <3> HIDE DEF s, s2, d2
    <3> QED BY ONLY <2>3, <2>4, <3>1, <3>2, <3>3, <3>4, OverflowsNext
  <2>7. Ended(q, s2, d2)
    <3> SUFFICES ASSUME s2 = PRERENDER, 1 < d2, d2 <= WIDTH + 1, NEW i \in Slots
                 PROVE  Fits(q.registers[i], 0)
      BY DEF Ended
    <3>1. s = PRERENDER /\ d2 = dot + 1
      BY <1>4, <2>4 DEF NextPlace
    <3>2. dot < FETCH[i] /\ dot >= 1
      BY <1>4, <3>1, SlotsAre
    <3>3. ~Loads(i)
      BY <1>4, <3>2, SlotsAre DEF Loads
    <3>4. CASE dot = 1
      BY <2>2, <3>1, <3>3, <3>4 DEF Fits, PreRender
    <3>5. CASE dot # 1
      <4>1. q.registers[i] = sprites.registers[i]
        BY <2>2, <3>3, <3>5
      <4>2. Fits(sprites.registers[i], 0)
        BY <1>2, <1>4, <3>1, <3>2, <3>5 DEF Ended
      <4> QED BY <4>1, <4>2
    <3> QED BY <3>4, <3>5
  <2> QED BY <1>5, <2>2, <2>5, <2>6, <2>7
<1> QED BY <1>6, <1>7

-----------------------------------------------------------------------------
(* The other steps. *)
LEMMA ProgramKeeps ==
  ASSUME raster \in PpuType, Program
  PROVE  /\ raster'.dot = raster.dot /\ raster'.scanline = raster.scanline
         /\ steady' => steady /\ foreground' = foreground
<1>1. /\ write_twice(raster).dot = raster.dot
      /\ write_twice(raster).scanline = raster.scanline
      /\ read_ppustatus(raster).dot = raster.dot
      /\ read_ppustatus(raster).scanline = raster.scanline
      /\ \A b : /\ write_ppumask(raster, b).dot = raster.dot
                /\ write_ppumask(raster, b).scanline = raster.scanline
  BY DEF PpuType, write_twice, read_ppustatus, write_ppumask
<1>2. CASE WritePpuCtrl
  BY <1>2 DEF WritePpuCtrl
<1>3. CASE WritePpuMask
  BY <1>1, <1>3 DEF WritePpuMask
<1>4. CASE WriteScrollX
  BY <1>1, <1>4 DEF WriteScrollX
<1>5. CASE WriteScrollY
  BY <1>1, <1>5 DEF WriteScrollY
<1>6. CASE WriteAddressHigh
  BY <1>1, <1>6 DEF WriteAddressHigh
<1>7. CASE WriteAddressLow
  BY <1>1, <1>7 DEF WriteAddressLow
<1>8. CASE ReadPpuStatus
  BY <1>1, <1>8 DEF ReadPpuStatus
<1>9. CASE AccessData
  BY <1>9 DEF AccessData
<1> QED BY <1>2, <1>3, <1>4, <1>5, <1>6, <1>7, <1>8, <1>9 DEF Program

LEMMA InitialSprites ==
  ASSUME PictureInit
  PROVE  SpritesInv
<1>1. /\ raster = NewPpu /\ sprites = NewSprites /\ scene = PowerOn(OAM)
  BY DEF PictureInit, Init
<1>2. raster.scanline = 0 /\ dot = 0
  BY <1>1 DEF NewPpu, dot
<1>3. /\ sprites.secondary = [i \in Slots |-> Empty] /\ sprites.overflow = FALSE
  BY <1>1 DEF NewSprites
<1>4. IsSprites(sprites)
  <2>1. IsRegister(NoSprite)
    BY DEF IsRegister, NoSprite
  <2>2. 0 \in 0 .. SLOTS /\ 0 \in 0 .. OAM - 1
    BY SlotsAre, OamSize
  <2> QED BY <1>1, <2>1, <2>2 DEF IsSprites, NewSprites
<1>5. SpritesWell(scene)
  BY <1>1 DEF SpritesWell, PowerOn
<1>6. /\ 0 < HEIGHT /\ ~(0 >= HEIGHT) /\ ~(0 > RESTART) /\ 0 # PRERENDER
  BY Layout, SlotsAre
<1>7. Evaluated(sprites, raster.scanline, dot)
  BY <1>2, <1>3, <1>6 DEF Evaluated
<1>8. Overflows(sprites, raster.scanline, dot)
  <2>1. ~CrowdedBefore(0)
    BY DEF CrowdedBefore
  <2> QED BY <1>2, <1>3, <1>6, <2>1 DEF Overflows
<1>9. Ended(sprites, raster.scanline, dot)
  BY <1>2, <1>6 DEF Ended
<1> QED BY <1>4, <1>5, <1>7, <1>8, <1>9 DEF SpritesInv

(* OAM is filled in the blank, for the first time. *)
LEMMA UploadKeeps ==
  ASSUME PipelineInv, SpritesInv, UploadSprites
  PROVE  SpritesInv' /\ ~steady'
<1> DEFINE s == raster.scanline
<1>1. /\ <<s, dot>> \in Moments["oam"] /\ scene = PowerOn(OAM) /\ scene' \in Scenes
      /\ steady' = FALSE /\ raster' = raster /\ sprites' = sprites
  BY DEF UploadSprites, Uses
<1>2. s \in HEIGHT .. PRERENDER - 1
  <2>1. \A m \in Moments["oam"] : m[1] \in HEIGHT .. PRERENDER - 1
    BY SceneAssumption
  <2> QED BY <1>1, <2>1
<1>3. /\ HEIGHT \in Nat /\ PRERENDER \in Nat /\ s \in Int /\ s >= HEIGHT /\ ~(s < HEIGHT)
      /\ s # PRERENDER
  BY <1>2, Layout
<1>4. OnThisLine(HEIGHT - 1) = {}
  <2>1. HEIGHT - 1 >= TILE
    <3>1. 2 * TILE <= ROWS * TILE
      <4>1. 2 <= ROWS /\ 2 \in Int /\ ROWS \in Int /\ TILE \in Nat
        BY PictureAssumption, Sizes
      <4> QED BY ONLY <4>1, Product
    <3> QED BY <3>1, Sizes, Layout DEF HEIGHT
  <2>2. Height = TILE /\ \A i \in 1 .. OAM : scene.sprites[i].y = 0
    BY <1>1 DEF Height, PowerOn
  <2>3. \A i \in 1 .. OAM : ~OnLine(scene.sprites[i], HEIGHT - 1)
    BY <2>1, <2>2, <1>3, Sizes DEF OnLine
  <2> QED BY <2>3 DEF OnThisLine
<1>5. \A k \in Slots : sprites.secondary[k] = Empty
  BY <1>3, <1>4 DEF SpritesInv, Evaluated
<1>6. SpritesWell(scene)'
  BY <1>1, SceneAssumption DEF SpritesWell
<1>7. raster'.scanline = s /\ dot' = dot
  BY <1>1 DEF dot
<1>8. Evaluated(sprites, raster.scanline, dot)'
  BY <1>1, <1>3, <1>5, <1>7 DEF Evaluated
<1>9. Overflows(sprites, raster.scanline, dot)'
  BY <1>1, <1>3, <1>7 DEF Overflows
<1>10. Ended(sprites, raster.scanline, dot)'
  BY <1>1, <1>3, <1>7 DEF Ended
<1>11. IsSprites(sprites)'
  BY <1>1 DEF SpritesInv
<1> QED BY <1>1, <1>6, <1>8, <1>9, <1>10, <1>11 DEF SpritesInv

LEMMA SpritesStep ==
  ASSUME PipelineInv, SpritesInv, [PictureNext]_pictureVars
  PROVE  /\ SpritesInv'
         /\ \/ PictureDot
            \/ /\ raster'.dot = dot
               /\ steady' => /\ scene' = scene /\ sprites' = sprites /\ steady
                             /\ foreground' = foreground
                             /\ raster'.scanline = raster.scanline
<1>1. raster \in PpuType
  BY DEF PipelineInv, PipelineType
<1>2. ASSUME scene' = scene, sprites' = sprites, raster'.dot = raster.dot,
             raster'.scanline = raster.scanline
      PROVE  SpritesInv'
  <2>1. Evaluated(sprites, raster.scanline, dot)' /\ Overflows(sprites, raster.scanline, dot)'
    <3>1. /\ Evaluated(sprites', raster'.scanline, raster'.dot)
          /\ Overflows(sprites', raster'.scanline, raster'.dot)
      BY <1>2 DEF SpritesInv, dot
    <3> QED BY <1>2, <3>1, SameScene
  <2>2. SpritesWell(scene)' /\ IsSprites(sprites)' /\ Ended(sprites, raster.scanline, dot)'
    BY <1>2 DEF SpritesInv, Ended, dot, Fits
  <2> QED BY <2>1, <2>2 DEF SpritesInv
<1>3. CASE PictureDot
  BY <1>3, DotSprites
<1>4. CASE PictureProgram
  <2>1. scene' = scene /\ sprites' = sprites /\ Program
    BY <1>4 DEF PictureProgram, Program
  <2>2. /\ raster'.dot = raster.dot /\ raster'.scanline = raster.scanline
        /\ steady' => steady /\ foreground' = foreground
    BY <1>1, <2>1, ProgramKeeps
  <2> QED BY <1>2, <2>1, <2>2 DEF dot
<1>5. CASE UploadSprites
  <2>1. raster'.dot = dot
    BY <1>5 DEF UploadSprites, dot
  <2> QED BY <1>5, <2>1, UploadKeeps
<1>6. CASE UNCHANGED pictureVars
  <2>1. /\ scene' = scene /\ sprites' = sprites /\ raster' = raster /\ steady' = steady
        /\ foreground' = foreground
    BY <1>6 DEF pictureVars, vars
  <2> QED BY <1>2, <2>1 DEF dot
<1> QED BY <1>3, <1>4, <1>5, <1>6 DEF PictureNext

(* The evaluation, and the flag of the sprites of crowded lines, in every *)
(* reachable state (ppu.rs:326-395).                                      *)
THEOREM EvaluationCorrect == PictureSpec => []SpritesInv
<1>1. PictureInit => SpritesInv
  BY InitialSprites
<1>2. PipelineInv /\ SpritesInv /\ [PictureNext]_pictureVars => SpritesInv'
  BY SpritesStep
<1> QED BY <1>1, <1>2, PipelineCorrect, PTL DEF PictureSpec, pictureVars

-----------------------------------------------------------------------------
(* The registers.  After m dots of a line, a register with the sprite j of *)
(* the line before has come m dots nearer its place, or has lost as many   *)
(* cells as the line has gone beyond it.                                   *)
Beyond(a, b) == IF a > b THEN a - b ELSE 0

Carries(q, j, line, m) ==
  /\ q.offset = Beyond(scene.sprites[j].x, m)
  /\ \A c \in 1 .. TILE :
       q.cells[c] = IF c + Beyond(m, scene.sprites[j].x) <= TILE
                    THEN Pattern(scene.sprites[j], line)[c + Beyond(m, scene.sprites[j].x)]
                    ELSE Transparent
  /\ q.palette = scene.sprites[j].palette /\ q.behind = scene.sprites[j].behind
  /\ q.zero = (j = 1)

(* The slot of a sprite, if the line has one for it. *)
Rank(line, j) == Count(OnThisLine(line), j - 1) + 1

Holds(q, i, line, m) ==
  \/ \E j \in Chosen(line) : i = Rank(line, j) /\ Carries(q, j, line, m)
  \/ (\A j \in Chosen(line) : i # Rank(line, j)) /\ Fits(q, 0 - m)

LEMMA MovedFits ==
  ASSUME NEW q, IsRegister(q), NEW n, n \in Int, Fits(q, n)
  PROVE  Fits(Moved(q), n - 1) /\ IsRegister(Moved(q))
<1> DEFINE w == Moved(q)
<1>1. q.offset \in Nat /\ TILE \in Nat
  BY Sizes DEF IsRegister
<1>2. /\ IsRegister(w)
      /\ IF q.offset > 0
         THEN w.offset = q.offset - 1 /\ w.cells = q.cells
         ELSE /\ w.offset = 0
              /\ w.cells = [j \in 1 .. TILE |-> IF j < TILE THEN q.cells[j + 1]
                                                ELSE Transparent]
  BY MovedIs
<1> HIDE DEF w
<1>3. ASSUME NEW c \in 1 .. TILE, w.cells[c] # Transparent
      PROVE  w.offset + c <= n - 1 + 1
  <2>1. CASE q.offset > 0
    <3>1. q.offset + c <= n + 1
      BY <1>2, <1>3, <2>1 DEF Fits
    <3> QED BY <1>1, <1>2, <2>1, <3>1
  <2>2. CASE ~(q.offset > 0)
    <3>1. w.cells[c] = IF c < TILE THEN q.cells[c + 1] ELSE Transparent
      BY <1>2, <2>2
    <3>2. c < TILE /\ q.cells[c + 1] # Transparent /\ c + 1 \in 1 .. TILE
      BY <1>1, <1>3, <3>1
    <3>3. q.offset + (c + 1) <= n + 1
      BY <3>2 DEF Fits
    <3> QED BY <1>1, <1>2, <2>2, <3>3
  <2> QED BY <2>1, <2>2
<1> QED BY <1>2, <1>3 DEF Fits, w

LEMMA MovedCarries ==
  ASSUME NEW q, IsRegister(q), NEW j, scene.sprites[j].x \in Nat, NEW line,
         NEW m, m \in Nat, Carries(q, j, line, m)
  PROVE  Carries(Moved(q), j, line, m + 1)
<1> DEFINE w == Moved(q)
           x == scene.sprites[j].x
           p == Pattern(scene.sprites[j], line)
           g == Beyond(m, x)
           h == Beyond(m + 1, x)
<1>1. TILE \in Nat
  BY Sizes
<1>2. /\ w.palette = q.palette /\ w.behind = q.behind /\ w.zero = q.zero
      /\ IF q.offset > 0
         THEN w.offset = q.offset - 1 /\ w.cells = q.cells
         ELSE /\ w.offset = 0
              /\ w.cells = [c \in 1 .. TILE |-> IF c < TILE THEN q.cells[c + 1]
                                                ELSE Transparent]
  BY MovedIs
<1>3. /\ q.offset = Beyond(x, m)
      /\ \A c \in 1 .. TILE : q.cells[c] = IF c + g <= TILE THEN p[c + g] ELSE Transparent
      /\ q.palette = scene.sprites[j].palette /\ q.behind = scene.sprites[j].behind
      /\ q.zero = (j = 1)
  BY DEF Carries
<1>4. x \in Nat
  OBVIOUS
<1> HIDE DEF w, x, p
<1>5. w.offset = Beyond(x, m + 1)
  BY <1>2, <1>3, <1>4 DEF Beyond
<1>6. ASSUME NEW c \in 1 .. TILE
      PROVE  w.cells[c] = IF c + h <= TILE THEN p[c + h] ELSE Transparent
  <2>1. CASE q.offset > 0
    <3>1. g = 0 /\ h = 0
      BY <1>3, <1>4, <2>1 DEF Beyond
    <3> QED BY <1>2, <1>3, <2>1, <3>1
  <2>2. CASE ~(q.offset > 0)
    <3>1. g \in Nat /\ h = g + 1
      BY <1>3, <1>4, <2>2 DEF Beyond
    <3>2. w.cells[c] = IF c < TILE THEN q.cells[c + 1] ELSE Transparent
      BY <1>2, <2>2
    <3> HIDE DEF g, h
    <3>3. CASE c < TILE
      <4>1. c + 1 \in 1 .. TILE /\ c + 1 + g = c + h
        BY <1>1, <3>1, <3>3
      <4>2. q.cells[c + 1] = IF c + 1 + g <= TILE THEN p[c + 1 + g] ELSE Transparent
        BY <1>3, <4>1
      <4> QED BY <3>2, <3>3, <4>1, <4>2
    <3>4. CASE ~(c < TILE)
      <4>1. ~(c + h <= TILE)
        BY <1>1, <3>1, <3>4
      <4> QED BY <3>2, <3>4, <4>1
    <3> QED BY <3>3, <3>4
  <2> QED BY <2>1, <2>2
<1> QED BY <1>2, <1>3, <1>5, <1>6 DEF Carries, w, x, p

LEMMA MovedHolds ==
  ASSUME SpritesWell(scene), NEW q, IsRegister(q), NEW i, NEW line, NEW m, m \in Nat,
         Holds(q, i, line, m)
  PROVE  Holds(Moved(q), i, line, m + 1)
<1>1. \A j \in Chosen(line) : scene.sprites[j].x \in Nat
  BY DEF Chosen, OnThisLine, SpritesWell
<1>2. ASSUME NEW j \in Chosen(line), i = Rank(line, j), Carries(q, j, line, m)
      PROVE  Carries(Moved(q), j, line, m + 1)
  BY <1>1, <1>2, MovedCarries
<1>3. ASSUME Fits(q, 0 - m)
      PROVE  Fits(Moved(q), 0 - (m + 1))
  <2> DEFINE n == 0 - m
  <2>1. n \in Int /\ n - 1 = 0 - (m + 1)
    OBVIOUS
  <2> HIDE DEF n
  <2>2. Fits(Moved(q), n - 1)
    BY <1>3, <2>1, MovedFits DEF n
  <2> QED BY <2>1, <2>2
<1> QED BY <1>2, <1>3 DEF Holds

Within   == \A i \in 1 .. OAM : scene.sprites[i].x + TILE - 1 <= WIDTH
NoneLast == OnThisLine(HEIGHT - 1) = {}

LEMMA EntryIsSome == \A j : EntryOf(j) # Empty
<1> SUFFICES ASSUME NEW j, EntryOf(j) = Empty PROVE FALSE
  OBVIOUS
<1>1. DOMAIN EntryOf(j) = {"sprite", "zero"}
  BY DEF EntryOf
<1>2. DOMAIN Empty = {}
  BY DEF Empty
<1> QED BY <1>1, <1>2

LEMMA LoadingFits ==
  ASSUME SpritesWell(scene), Within, NEW j, j \in 1 .. OAM, NEW w, w = Loading(EntryOf(j))
  PROVE  /\ Fits(w, WIDTH) /\ IsRegister(w)
         /\ Carries(w, j, raster.scanline, 0)
<1>1. /\ IsRegister(w) /\ w.cells = Pattern(scene.sprites[j], raster.scanline)
      /\ w.offset = scene.sprites[j].x /\ w.palette = scene.sprites[j].palette
      /\ w.behind = scene.sprites[j].behind /\ w.zero = (j = 1)
  BY LoadingIs
<1>2. /\ scene.sprites[j].x \in Nat /\ scene.sprites[j].x + TILE - 1 <= WIDTH
      /\ WIDTH \in Nat /\ TILE \in Nat
  BY Layout, Sizes DEF SpritesWell, Within
<1>3. Fits(w, WIDTH)
  <2> DEFINE x == scene.sprites[j].x
  <2> HIDE DEF x
  <2>1. \A c \in 1 .. TILE : x + c <= WIDTH + 1
    BY <1>2 DEF x
  <2> QED BY <1>1, <2>1 DEF Fits, x
<1>4. Carries(w, j, raster.scanline, 0)
  <2>1. Beyond(scene.sprites[j].x, 0) = scene.sprites[j].x /\ Beyond(0, scene.sprites[j].x) = 0
    BY <1>2 DEF Beyond
  <2>2. \A c \in 1 .. TILE : c + 0 = c /\ c <= TILE
    BY <1>2
  <2> QED BY <1>1, <2>1, <2>2 DEF Carries
<1> QED BY <1>1, <1>3, <1>4

LEMMA SlotFetched ==
  ASSUME IsSprites(sprites), SpritesWell(scene), Within,
         Examining(sprites, OnThisLine(raster.scanline), OAM),
         NEW i, i \in Slots, Fits(sprites.registers[i], 0), NEW w,
         w = IF sprites.secondary[i] # Empty THEN Loading(sprites.secondary[i])
             ELSE sprites.registers[i]
  PROVE  Fits(w, WIDTH) /\ Holds(w, i, raster.scanline, 0)
<1> DEFINE s == raster.scanline
           S == OnThisLine(s)
<1>1. /\ \A j \in S \cap 1 .. OAM :
           Count(S, j - 1) < SLOTS => sprites.secondary[Count(S, j - 1) + 1] = EntryOf(j)
      /\ \A k \in Slots : sprites.secondary[k] # Empty =>
           \E j \in S \cap 1 .. OAM :
             k = Count(S, j - 1) + 1 /\ sprites.secondary[k] = EntryOf(j)
  BY DEF Examining
<1>2. \A j : j \in Chosen(s) <=> j \in S /\ Count(S, j - 1) < SLOTS
  BY DEF Chosen, Count
<1>3. S \subseteq 1 .. OAM /\ \A j \in 1 .. OAM : j - 1 \in Nat
  BY OamSize DEF OnThisLine
<1>4. \A j : Rank(s, j) = Count(S, j - 1) + 1
  BY DEF Rank
<1>5. CASE sprites.secondary[i] # Empty
  <2>1. PICK j \in S \cap 1 .. OAM : i = Count(S, j - 1) + 1
                                    /\ sprites.secondary[i] = EntryOf(j)
    BY <1>1, <1>5
  <2>2. w = Loading(EntryOf(j)) /\ j \in 1 .. OAM /\ j - 1 \in Nat
    BY <1>3, <1>5, <2>1
  <2>3. Fits(w, WIDTH) /\ Carries(w, j, s, 0)
    BY <2>2, LoadingFits
  <2> HIDE DEF s, S
  <2>4. j \in Chosen(s)
    <3>1. Count(S, j - 1) \in Nat
      BY <2>2, CountNext
    <3> QED BY <1>2, <2>1, <3>1, SlotsAre
  <2> QED BY <1>4, <2>1, <2>3, <2>4 DEF Holds, s
<1>6. CASE sprites.secondary[i] = Empty
  <2>1. w = sprites.registers[i]
    BY <1>6
  <2>2. Fits(w, WIDTH) /\ Fits(w, 0 - 0)
    <3>1. 0 - 0 = 0
      OBVIOUS
    <3>2. Fits(w, 0 - 0)
      BY <2>1, <3>1
    <3>3. w.offset \in Nat /\ WIDTH \in Nat /\ TILE \in Nat
      BY <2>1, Layout, Sizes DEF IsSprites, IsRegister
    <3>4. Fits(w, WIDTH)
      <4> SUFFICES ASSUME NEW c \in 1 .. TILE, w.cells[c] # Transparent
                   PROVE  w.offset + c <= WIDTH + 1
        BY DEF Fits
      <4>1. w.offset + c <= 0 + 1
        BY <2>1 DEF Fits
      <4> QED BY <3>3, <4>1
    <3> QED BY <3>2, <3>4
  <2>3. \A j \in Chosen(s) : i # Rank(s, j)
    <3> SUFFICES ASSUME NEW j \in Chosen(s), i = Rank(s, j) PROVE FALSE
      OBVIOUS
    <3>1. j \in S \cap 1 .. OAM /\ Count(S, j - 1) < SLOTS
      BY <1>2, <1>3
    <3>2. sprites.secondary[i] = EntryOf(j)
      BY <1>1, <1>4, <3>1
    <3> QED BY <1>6, <3>2, EntryIsSome
  <2> QED BY <2>2, <2>3 DEF Holds, s
<1> QED BY <1>5, <1>6

LEMMA NothingAbove ==
  ASSUME SpritesWell(scene)
  PROVE  Chosen(0 - 1) = {}
<1> SUFFICES ASSUME NEW j \in Chosen(0 - 1) PROVE FALSE
  OBVIOUS
<1>1. j \in 1 .. OAM /\ scene.sprites[j].y <= 0 - 1
  BY DEF Chosen, OnThisLine, OnLine
<1> QED BY <1>1 DEF SpritesWell

(* While the picture is steady the registers have the sprites of the line   *)
(* from their fetch on; before, they have nothing that still shows.  What   *)
(* the pre-render line fetches is of the last line, of which it has nothing. *)
Run(d) == IF d = 0 \/ d > WIDTH THEN 0 ELSE d - 1

Slot(q, i, s, d) ==
  IF d <= WIDTH \/ FETCH[i] < d
  THEN /\ Fits(q, WIDTH - Run(d))
       /\ Line(s, d) > 0 \/ NoneLast => Holds(q, i, Line(s, d) - 1, Run(d))
  ELSE Fits(q, 0)

Shown(s, d) == s < HEIGHT \/ (s = PRERENDER /\ d > WIDTH + 1)

RegistersInv ==
  steady /\ foreground /\ Within /\ Shown(raster.scanline, dot) =>
    \A i \in Slots : Slot(sprites.registers[i], i, raster.scanline, dot)

(* The dots of the picture. *)
LEMMA SlotMoves ==
  ASSUME SpritesWell(scene), NEW q, IsRegister(q), NEW i, i \in Slots,
         NEW s, s \in Nat, s < HEIGHT, NEW d, d \in 1 .. WIDTH, Slot(q, i, s, d)
  PROVE  Slot(Moved(q), i, s, d + 1)
<1>1. /\ WIDTH \in Nat /\ d \in Nat /\ 1 <= d /\ d <= WIDTH /\ s # PRERENDER
      /\ d # 0 /\ ~(d > WIDTH)
  BY Layout
<1>2. Run(d) = d - 1 /\ Line(s, d) = s
  BY <1>1 DEF Run, Line
<1>3. /\ Fits(q, WIDTH - (d - 1))
      /\ s > 0 \/ NoneLast => Holds(q, i, s - 1, d - 1)
  BY <1>1, <1>2 DEF Slot
<1>4. Fits(Moved(q), WIDTH - d)
  <2> DEFINE n == WIDTH - (d - 1)
  <2>1. n \in Int /\ n - 1 = WIDTH - d
    BY <1>1
  <2> HIDE DEF n
  <2>2. Fits(Moved(q), n - 1)
    BY <1>3, <2>1, MovedFits DEF n
  <2> QED BY <2>1, <2>2
<1>5. s > 0 \/ NoneLast => Holds(Moved(q), i, s - 1, d)
  <2> SUFFICES ASSUME s > 0 \/ NoneLast PROVE Holds(Moved(q), i, s - 1, d)
    OBVIOUS
  <2> DEFINE m == d - 1
             line == s - 1
  <2>1. m \in Nat /\ m + 1 = d /\ Holds(q, i, line, m)
    BY <1>1, <1>3
  <2> HIDE DEF m, line
  <2>2. Holds(Moved(q), i, line, m + 1)
    BY <2>1, MovedHolds
  <2> QED BY <2>1, <2>2 DEF line
<1>6. CASE d < WIDTH
  <2>1. /\ d + 1 <= WIDTH /\ Run(d + 1) = d /\ Line(s, d + 1) = s
    BY <1>1, <1>6 DEF Run, Line
  <2> QED BY <1>4, <1>5, <2>1 DEF Slot
<1>7. CASE d = WIDTH
  <2>1. ~(d + 1 <= WIDTH) /\ ~(FETCH[i] < d + 1) /\ WIDTH - d = 0
    BY <1>1, <1>7, SlotsAre
  <2> QED BY <1>4, <2>1 DEF Slot
<1> QED BY <1>1, <1>6, <1>7

(* The other dots: a register stays, or is filled. *)
LEMMA SlotStays ==
  ASSUME NEW q, NEW i, i \in Slots, NEW s, s \in 0 .. PRERENDER, NEW d, d \in 0 .. LAST_DOT,
         d = 0 \/ d > WIDTH, s < HEIGHT \/ s = PRERENDER, FETCH[i] # d, Slot(q, i, s, d),
         NEW s2, NEW d2, NextPlace(s, d, s2, d2), Shown(s2, d2)
  PROVE  Slot(q, i, s2, d2)
<1>1. /\ WIDTH \in Nat /\ s \in Nat /\ d \in Nat /\ d <= LAST_DOT /\ s <= PRERENDER
      /\ HEIGHT \in Nat \ {0} /\ HEIGHT < PRERENDER /\ PRERENDER \in Nat /\ LAST_DOT \in Nat
      /\ WIDTH + 1 < LAST_DOT /\ 1 <= WIDTH
  BY Layout, Sizes
<1>2. FETCH[i] \in Nat /\ FETCH[i] < LAST_DOT /\ WIDTH < FETCH[i]
  BY SlotsAre, Layout, Sizes
<1>3. Run(d) = 0
  BY DEF Run
<1>4. CASE d = 0
  <2>1. d2 = 1 /\ s2 = s
    BY <1>1, <1>4 DEF NextPlace
  <2>2. s # PRERENDER
    BY <1>1, <2>1 DEF Shown
  <2>3. Run(d2) = 0 /\ Line(s2, d2) = Line(s, d) /\ d2 <= WIDTH /\ d <= WIDTH
    BY <1>1, <1>4, <2>1, <2>2 DEF Run, Line
  <2> QED BY <1>3, <2>3 DEF Slot
<1>5. CASE d > WIDTH /\ d # LAST_DOT
  <2>1. d2 = d + 1 /\ s2 = s /\ d2 > WIDTH
    BY <1>1, <1>5 DEF NextPlace
  <2>2. Run(d2) = 0 /\ Line(s2, d2) = Line(s, d) /\ ~(d2 <= WIDTH) /\ ~(d <= WIDTH)
    BY <1>1, <1>5, <2>1 DEF Run, Line
  <2>3. FETCH[i] < d2 <=> FETCH[i] < d
    BY <1>1, <1>2, <2>1
  <2> QED BY <1>3, <2>2, <2>3 DEF Slot
<1>6. CASE d = LAST_DOT
  <2>1. d2 \in {0, 1} /\ s2 = IF s = PRERENDER THEN 0 ELSE s + 1
    BY <1>1, <1>6 DEF NextPlace
  <2>2. s2 < HEIGHT
    BY <1>1, <2>1 DEF Shown
  <2>3. Run(d2) = 0 /\ Line(s2, d2) = s2 /\ d2 <= WIDTH
    BY <1>1, <2>1, <2>2 DEF Run, Line
  <2>4. Line(s, d) = s2 /\ FETCH[i] < d
    BY <1>1, <1>2, <1>6, <2>1 DEF Line
  <2> QED BY <1>3, <2>3, <2>4 DEF Slot
<1> QED BY <1>4, <1>5, <1>6

(* Before its fetch. *)
LEMMA SlotWaits ==
  ASSUME NEW q, NEW i, i \in Slots, NEW s, NEW d, d \in Nat, d > WIDTH, FETCH[i] >= d
  PROVE  Slot(q, i, s, d) <=> Fits(q, 0)
<1>1. ~(d <= WIDTH) /\ ~(FETCH[i] < d)
  BY Layout, SlotsAre
<1> QED BY <1>1 DEF Slot

(* After it. *)
LEMMA SlotFilled ==
  ASSUME NEW w, NEW i, i \in Slots, NEW s, NEW d, d = FETCH[i], Fits(w, WIDTH),
         Line(s, d) > 0 \/ NoneLast => Holds(w, i, Line(s, d) - 1, 0)
  PROVE  Slot(w, i, s, d + 1)
<1>1. d \in Nat /\ d > WIDTH /\ WIDTH \in Nat
  BY Layout, SlotsAre
<1>2. /\ ~(d + 1 <= WIDTH) /\ FETCH[i] < d + 1 /\ Run(d + 1) = 0 /\ WIDTH - 0 = WIDTH
      /\ Line(s, d + 1) = Line(s, d)
  BY <1>1 DEF Run, Line
<1> QED BY <1>2 DEF Slot

LEMMA SameSlots ==
  ASSUME scene' = scene, NEW i, Slot(sprites'.registers[i], i, raster'.scanline, raster'.dot)
  PROVE  Slot(sprites.registers[i], i, raster.scanline, dot)'
<1>1. \A l : OnThisLine(l)' = OnThisLine(l)
  BY SameScene
<1>2. \A l : Chosen(l)' = Chosen(l)
  BY <1>1 DEF Chosen
<1>3. \A l, j : Rank(l, j)' = Rank(l, j)
  BY <1>1 DEF Rank
<1>4. \A l, j : Pattern(scene.sprites[j], l)' = Pattern(scene.sprites[j], l)
  BY DEF Pattern
<1>5. \A q, j, l, m : Carries(q, j, l, m)' <=> Carries(q, j, l, m)
  BY <1>4 DEF Carries
<1>6. Holds(sprites.registers[i], i, Line(raster.scanline, dot) - 1, Run(dot))'
        <=> Holds(sprites'.registers[i], i, Line(raster'.scanline, raster'.dot) - 1,
                  Run(raster'.dot))
  BY <1>2, <1>3, <1>5 DEF Holds, Fits, dot
<1> QED BY <1>1, <1>6 DEF Slot, NoneLast, Fits, dot

LEMMA DotRegisters ==
  ASSUME PipelineInv, SpritesInv, RegistersInv, PictureDot
  PROVE  RegistersInv'
<1> DEFINE s == raster.scanline
           s2 == raster'.scanline
           d2 == raster'.dot
           q == sprites'
<1>1. /\ NextPlace(s, dot, s2, d2) /\ s \in 0 .. PRERENDER /\ dot \in 0 .. LAST_DOT
  <2>1. PipelineType /\ Dot
    BY DEF PipelineInv, PictureDot
  <2> QED BY <2>1, DotType DEF PipelineType, PpuType, dot
<1>2. /\ IsSprites(sprites) /\ SpritesWell(scene) /\ Evaluated(sprites, s, dot)
      /\ Ended(sprites, s, dot)
  BY DEF SpritesInv
<1>3. /\ q = SpritesAfter /\ scene' = scene /\ foreground' = foreground
      /\ steady' => steady \/ (PreRender /\ dot = WIDTH + 1)
  BY DEF PictureDot, Dot
<1>4. /\ WIDTH \in Nat /\ s \in Nat /\ dot \in Nat /\ dot <= LAST_DOT /\ s <= PRERENDER
      /\ HEIGHT \in Nat \ {0} /\ HEIGHT < PRERENDER /\ PRERENDER \in Nat /\ LAST_DOT \in Nat
      /\ WIDTH + 1 < LAST_DOT /\ 1 <= WIDTH
  BY <1>1, Layout, Sizes
<1> SUFFICES ASSUME steady', foreground, Within, Shown(s2, d2), NEW i \in Slots
             PROVE  Slot(q.registers[i], i, s2, d2)
  <2>1. Within' <=> Within
    BY <1>3 DEF Within
  <2>2. Shown(raster.scanline, dot)' <=> Shown(s2, d2)
    BY DEF Shown, dot
  <2> QED BY <1>3, <2>1, <2>2, SameSlots DEF RegistersInv
<1> HIDE DEF q
<1>5. (Visible <=> s < HEIGHT) /\ (PreRender <=> s = PRERENDER)
  BY DEF Visible, PreRender
<1>6. Shown(s, dot) \/ (s = PRERENDER /\ dot = WIDTH + 1)
  BY <1>1, <1>4 DEF Shown, NextPlace
<1>7. Shown(s, dot) => Slot(sprites.registers[i], i, s, dot)
  <2>1. Shown(s, dot) => steady
    BY <1>3, <1>4, <1>5 DEF Shown
  <2> QED BY <2>1 DEF RegistersInv
<1>8. CASE s < HEIGHT /\ dot \in 1 .. WIDTH
  <2>1. Slot(sprites.registers[i], i, s, dot) /\ IsRegister(sprites.registers[i])
    BY <1>2, <1>7, <1>8 DEF Shown, IsSprites
  <2>2. s2 = s /\ d2 = dot + 1
    BY <1>1, <1>4, <1>8 DEF NextPlace
  <2>3. q.registers[i] = Moved(sprites.registers[i])
    <3>1. Draws
      BY <1>5, <1>8 DEF Draws
    <3>2. Registers[i] = Moved(sprites.registers[i])
      BY <1>2, <3>1, RegistersAre
    <3>3. IsSprites(sprite_evaluation) /\ sprite_evaluation.hit = sprites.hit
      <4>1. Overflows(sprites, s, dot)
        BY DEF SpritesInv
      <4> QED BY <1>2, <1>4, <1>8, <4>1, EvaluationStep
    <3>4. q.registers = Registers
      BY <1>2, <1>3, <1>5, <1>8, <3>3, VisibleDot
    <3> QED BY <3>2, <3>4
  <2>4. Slot(Moved(sprites.registers[i]), i, s, dot + 1)
    BY <1>2, <1>4, <1>8, <2>1, SlotMoves
  <2> QED BY <2>2, <2>3, <2>4
<1>9. CASE ~(s < HEIGHT /\ dot \in 1 .. WIDTH)
  <2>1. dot = 0 \/ dot > WIDTH
    BY <1>4, <1>6, <1>9 DEF Shown
  <2>2. s < HEIGHT \/ s = PRERENDER
    BY <1>6 DEF Shown
  <2>3. (Visible \/ PreRender) /\ dot > WIDTH => HasEntries(sprites)
    BY HasItsEntries
  <2>4. q.registers[i] = IF Loads(i) THEN Loading(sprites.secondary[i])
                         ELSE sprites.registers[i]
    <3>1. ~(Visible /\ dot \in 1 .. WIDTH)
      BY <1>5, <1>9
    <3>2. ~(PreRender /\ dot = 1)
      BY <1>4, <1>5, <1>6 DEF Shown
    <3> HIDE DEF s
    <3> QED BY <1>1, <1>2, <1>3, <2>3, <3>1, <3>2, OtherDot DEF s
  <2>5. CASE FETCH[i] = dot
    <3>1. dot > WIDTH /\ dot < LAST_DOT /\ s2 = s /\ d2 = dot + 1
      <4>1. dot > WIDTH /\ dot < LAST_DOT
        <5>1. FETCH[i] > WIDTH /\ FETCH[i] < PREFETCH /\ FETCH[i] \in Nat
          BY <1>4, SlotsAre
        <5>2. PREFETCH \in Nat /\ PREFETCH <= LAST_DOT
          BY Layout, Sizes
        <5> QED BY <1>4, <2>5, <5>1, <5>2
      <4> QED BY <1>1, <1>4, <4>1 DEF NextPlace
    <3>2. Fits(sprites.registers[i], 0)
      <4>1. CASE Shown(s, dot)
        <5>1. FETCH[i] >= dot
          BY <1>4, <2>5
        <5> HIDE DEF s
        <5> QED BY <1>4, <1>7, <3>1, <4>1, <5>1, SlotWaits
      <4>2. CASE s = PRERENDER /\ dot = WIDTH + 1
        BY <1>2, <1>4, <4>2 DEF Ended
      <4> QED BY <1>6, <4>1, <4>2
    <3>3. q.registers[i] = IF sprites.secondary[i] # Empty
                           THEN Loading(sprites.secondary[i]) ELSE sprites.registers[i]
      BY <1>5, <2>2, <2>4, <2>5 DEF Loads
    <3>4. CASE s < HEIGHT
      <4>1. Examining(sprites, OnThisLine(s), OAM)
        BY <1>2, <1>4, <3>1, <3>4, AtTheEnd
      <4>2. Fits(q.registers[i], WIDTH) /\ Holds(q.registers[i], i, s, 0)
        BY <1>2, <3>2, <3>3, <4>1, SlotFetched
      <4>3. Line(s, dot) - 1 = s
        BY <1>4, <3>1, <3>4 DEF Line
      <4> HIDE DEF s
      <4> QED BY <2>5, <3>1, <4>2, <4>3, SlotFilled
    <3>5. CASE s = PRERENDER
      <4>1. Line(s, dot) = 0
        BY <3>5 DEF Line
      <4>2. Fits(q.registers[i], WIDTH)
        <5>1. CASE sprites.secondary[i] # Empty
          <6>1. PICK j \in 1 .. OAM : sprites.secondary[i] = EntryOf(j)
            BY <1>5, <2>3, <3>1, <3>5, <5>1 DEF HasEntries
          <6> QED BY <1>2, <3>3, <5>1, <6>1, LoadingFits
        <5>2. CASE sprites.secondary[i] = Empty
          <6>1. q.registers[i] = sprites.registers[i]
            BY <3>3, <5>2
          <6>2. /\ sprites.registers[i].offset \in Nat /\ TILE \in Nat
            BY <1>2, Sizes DEF IsSprites, IsRegister
          <6> QED BY <1>4, <3>2, <6>1, <6>2 DEF Fits
        <5> QED BY <5>1, <5>2
      <4>3. NoneLast => Holds(q.registers[i], i, 0 - 1, 0)
        <5> SUFFICES ASSUME NoneLast PROVE Holds(q.registers[i], i, 0 - 1, 0)
          OBVIOUS
        <5>1. sprites.secondary[i] = Empty
          BY <1>2, <1>4, <3>5 DEF Evaluated, NoneLast
        <5>2. Fits(q.registers[i], 0 - 0)
          <6>1. 0 - 0 = 0
            OBVIOUS
          <6> QED BY <3>2, <3>3, <5>1, <6>1
        <5> QED BY <1>2, <5>2, NothingAbove DEF Holds
      <4> HIDE DEF s
      <4>4. Line(s, dot) > 0 \/ NoneLast => Holds(q.registers[i], i, Line(s, dot) - 1, 0)
        BY <4>1, <4>3
      <4> QED BY <2>5, <3>1, <4>2, <4>4, SlotFilled
    <3> QED BY <2>2, <3>4, <3>5
  <2>6. CASE FETCH[i] # dot
    <3>1. q.registers[i] = sprites.registers[i]
      BY <2>4, <2>6 DEF Loads
    <3>2. CASE Shown(s, dot)
      <4>1. Slot(sprites.registers[i], i, s, dot)
        BY <1>7, <3>2
      <4> HIDE DEF s, s2, d2
      <4> QED BY <1>1, <2>1, <2>2, <2>6, <3>1, <4>1, SlotStays
    <3>3. CASE s = PRERENDER /\ dot = WIDTH + 1
      <4>1. Fits(sprites.registers[i], 0)
        BY <1>2, <1>4, <3>3 DEF Ended
      <4>2. d2 = dot + 1 /\ d2 \in Nat /\ d2 > WIDTH /\ FETCH[i] >= d2
        BY <1>1, <1>4, <2>6, <3>3, SlotsAre DEF NextPlace
      <4> HIDE DEF s, s2, d2
      <4> QED BY <3>1, <4>1, <4>2, SlotWaits
    <3> QED BY <1>6, <3>2, <3>3
  <2> QED BY <2>5, <2>6
<1> QED BY <1>8, <1>9

LEMMA RegistersStep ==
  ASSUME PipelineInv, SpritesInv, RegistersInv, [PictureNext]_pictureVars
  PROVE  RegistersInv'
<1>1. CASE PictureDot
  BY <1>1, DotRegisters
<1>2. CASE ~PictureDot
  <2>1. /\ raster'.dot = dot
        /\ steady' => /\ scene' = scene /\ sprites' = sprites /\ steady
                      /\ foreground' = foreground /\ raster'.scanline = raster.scanline
    BY <1>2, SpritesStep
  <2>2. SUFFICES ASSUME steady', foreground', Within', Shown(raster.scanline, dot)',
                        NEW i \in Slots
                 PROVE  Slot(sprites.registers[i], i, raster.scanline, dot)'
    BY DEF RegistersInv
  <2>3. Within /\ Shown(raster.scanline, dot) /\ steady /\ foreground
    BY <2>1, <2>2 DEF Within, Shown, dot
  <2>4. Slot(sprites.registers[i], i, raster.scanline, dot)
    BY <2>3 DEF RegistersInv
  <2>5. Slot(sprites'.registers[i], i, raster'.scanline, raster'.dot)
    BY <2>1, <2>2, <2>4
  <2> QED BY <2>1, <2>2, <2>5, SameSlots
<1> QED BY <1>1, <1>2

(* The registers have the sprites of their line, where the line is, in every *)
(* reachable state in which the picture is steady (ppu.rs:397-500).          *)
THEOREM RegistersCorrect == PictureSpec => []RegistersInv
<1>1. PictureInit => RegistersInv
  BY DEF PictureInit, Init, RegistersInv
<1>2. PipelineInv /\ SpritesInv /\ RegistersInv /\ [PictureNext]_pictureVars => RegistersInv'
  BY RegistersStep
<1> QED BY <1>1, <1>2, PipelineCorrect, EvaluationCorrect, PTL DEF PictureSpec, pictureVars

-----------------------------------------------------------------------------
(* What the registers show at a dot of the picture. *)
LEMMA Smallest ==
  ASSUME NEW T, T \subseteq Nat, T # {}
  PROVE  \E n \in T : \A m \in T : n <= m
<1> DEFINE R == {p \in Nat \X Nat : p[1] < p[2]}
<1>1. IsWellFoundedOn(R, Nat)
  <2>1. R = OpToRel(<, Nat)
    BY DEF OpToRel
  <2> QED BY <2>1, NatLessThanWellFounded
<1> HIDE DEF R
<1>2. PICK n \in T : \A m \in T : <<m, n>> \notin R
  BY <1>1, WFMin
<1>3. \A m \in T : ~(m < n)
  BY <1>2 DEF R
<1> QED BY <1>3

LEMMA DrawnLine ==
  ASSUME PipelineInv, SpritesInv, RegistersInv, steady, foreground, Tidy, Draws
  PROVE  /\ dot \in Nat /\ 1 <= dot /\ dot <= WIDTH /\ SpritesWell(scene)
         /\ \A i \in Slots : /\ IsRegister(Registers[i])
                             /\ Holds(Registers[i], i, raster.scanline - 1, dot)
<1> DEFINE s == raster.scanline
<1>1. /\ s \in Nat /\ s < HEIGHT /\ dot \in Nat /\ 1 <= dot /\ dot <= WIDTH
      /\ s # PRERENDER /\ HEIGHT \in Nat
  <2>1. s \in 0 .. PRERENDER /\ dot \in 0 .. LAST_DOT
    BY DEF PipelineInv, PipelineType, PpuType, dot
  <2>2. s < HEIGHT /\ dot \in 1 .. WIDTH
    BY DEF Draws, Visible
  <2> QED BY <2>1, <2>2, Layout
<1>2. SpritesWell(scene) /\ IsSprites(sprites)
  BY DEF SpritesInv
<1>3. Within
  BY DEF Tidy, Within
<1>4. s > 0 \/ NoneLast
  BY <1>1 DEF Tidy, NoneLast, OnThisLine
<1>5. ASSUME NEW i \in Slots
      PROVE  Holds(Registers[i], i, s - 1, dot)
  <2> DEFINE q == sprites.registers[i]
             m == dot - 1
             line == s - 1
  <2>1. Slot(q, i, s, dot)
    BY <1>1, <1>3 DEF RegistersInv, Shown
  <2>2. Line(s, dot) = s /\ Run(dot) = m /\ m \in Nat /\ m + 1 = dot
    BY <1>1, Layout DEF Line, Run
  <2>3. Holds(q, i, line, m)
    <3> HIDE DEF q
    <3> QED BY <1>1, <1>4, <2>1, <2>2 DEF Slot
  <2>4. Registers[i] = Moved(q) /\ IsRegister(q)
    BY <1>2, RegistersAre DEF IsSprites
  <2> HIDE DEF q, m, line
  <2>5. Holds(Moved(q), i, line, m + 1)
    BY <1>2, <2>2, <2>3, <2>4, MovedHolds
  <2> QED BY <2>2, <2>4, <2>5 DEF line
<1> QED BY <1>1, <1>2, <1>5, RegistersAre

(* Sprites of a line have slots of their own, in their order. *)
LEMMA RanksAre ==
  ASSUME NEW line
  PROVE  /\ \A j \in Chosen(line) : /\ Rank(line, j) \in Slots /\ j \in 1 .. OAM
                                    /\ Rank(line, j) \in Nat /\ j \in Nat
         /\ \A j, k \in Chosen(line) : j < k => Rank(line, j) < Rank(line, k)
<1> DEFINE S == OnThisLine(line)
<1>1. \A j \in Chosen(line) : j \in S /\ j \in 1 .. OAM /\ Count(S, j - 1) < SLOTS
  BY DEF Chosen, OnThisLine, Count
<1>2. \A j : Rank(line, j) = Count(S, j - 1) + 1
  BY DEF Rank
<1> HIDE DEF S
<1>3. ASSUME NEW j \in Chosen(line)
      PROVE  Rank(line, j) \in Slots /\ j \in 1 .. OAM /\ Rank(line, j) \in Nat
             /\ j \in Nat \ {0} /\ j \in S
  <2>1. j \in 1 .. OAM /\ j \in Nat \ {0} /\ j - 1 \in Nat
    BY <1>1, OamSize
  <2>2. Count(S, j - 1) \in Nat
    BY <2>1, CountNext
  <2> QED BY <1>1, <1>2, <2>1, <2>2, SlotsAre
<1>4. ASSUME NEW j \in Chosen(line), NEW k \in Chosen(line), j < k
      PROVE  Rank(line, j) < Rank(line, k)
  <2>1. j \in Nat \ {0} /\ k \in Nat /\ j \in S /\ j - 1 \in Nat /\ k - 1 \in Nat
    BY <1>3
  <2>2. Count(S, j - 1) < Count(S, k - 1)
    BY <1>4, <2>1, Ranks
  <2>3. Count(S, j - 1) \in Nat /\ Count(S, k - 1) \in Nat
    BY <2>1, CountNext
  <2> QED BY <1>2, <2>2, <2>3
<1> QED BY <1>3, <1>4

(* A slot shows the cell its sprite has at this dot. *)
Shows(i, j) ==
  /\ Registers[i].cells[1] = CellAt(j) /\ Registers[i].palette = scene.sprites[j].palette
  /\ Registers[i].behind = scene.sprites[j].behind /\ Registers[i].zero = (j = 1)

LEMMA CarriedShows ==
  ASSUME SpritesWell(scene), dot \in Nat, NEW i, NEW j, j \in Chosen(raster.scanline - 1),
         Carries(Registers[i], j, raster.scanline - 1, dot)
  PROVE  /\ Opaque(i) <=> CellAt(j) \in Solid
         /\ Opaque(i) => Shows(i, j)
<1> DEFINE q == Registers[i]
           x == scene.sprites[j].x
           p == Pattern(scene.sprites[j], raster.scanline - 1)
           column == dot - x
           g == Beyond(dot, x)
<1>1. x \in Nat /\ TILE \in Nat /\ TILE >= 1
  BY Sizes DEF Chosen, OnThisLine, SpritesWell
<1>2. /\ q.offset = Beyond(x, dot)
      /\ q.cells[1] = IF 1 + g <= TILE THEN p[1 + g] ELSE Transparent
      /\ q.palette = scene.sprites[j].palette /\ q.behind = scene.sprites[j].behind
      /\ q.zero = (j = 1)
  BY <1>1 DEF Carries
<1>3. CellAt(j) = IF column \in 0 .. TILE - 1 THEN p[column + 1] ELSE Transparent
  <2>1. (dot - 1) - (x - EARLY) = column
    <3> HIDE DEF x
    <3> QED BY <1>1 DEF EARLY
  <2> QED BY <2>1 DEF CellAt
<1>4. Opaque(i) <=> q.offset = 0 /\ q.cells[1] \in Solid
  BY DEF Opaque, InPlace
<1>5. Transparent \notin Solid
  BY PictureAssumption
<1> HIDE DEF p, q, x
<1>6. CASE x <= dot
  <2>1. q.offset = 0 /\ g = column /\ column \in Nat /\ 1 + g = column + 1
    BY <1>1, <1>2, <1>6 DEF Beyond
  <2>2. 1 + g <= TILE <=> column \in 0 .. TILE - 1
    BY <1>1, <2>1
  <2>3. q.cells[1] = CellAt(j)
    BY <1>2, <1>3, <2>1, <2>2
  <2> QED BY <1>2, <1>4, <2>1, <2>3 DEF Shows, q
<1>7. CASE ~(x <= dot)
  <2>1. q.offset # 0 /\ ~(column \in 0 .. TILE - 1)
    BY <1>1, <1>2, <1>7 DEF Beyond
  <2> QED BY <1>3, <1>4, <1>5, <2>1
<1> QED BY <1>6, <1>7

LEMMA SlotsShow ==
  ASSUME PipelineInv, SpritesInv, RegistersInv, steady, foreground, Tidy, Draws
  PROVE  /\ \A j \in Showing : Rank(raster.scanline - 1, j) \in Slots
                               /\ Opaque(Rank(raster.scanline - 1, j))
                               /\ Shows(Rank(raster.scanline - 1, j), j)
                               /\ j \in Chosen(raster.scanline - 1)
         /\ \A i \in Slots : Opaque(i) =>
              \E j \in Showing : i = Rank(raster.scanline - 1, j)
<1> DEFINE line == raster.scanline - 1
<1>1. /\ dot \in Nat /\ 1 <= dot /\ SpritesWell(scene)
      /\ \A i \in Slots : IsRegister(Registers[i]) /\ Holds(Registers[i], i, line, dot)
  BY DrawnLine
<1>2. Transparent \notin Solid
  BY PictureAssumption
<1>3. \A j \in Showing : j \in Chosen(line) /\ CellAt(j) \in Solid /\ j \in 1 .. OAM
  BY <1>2 DEF Showing, CellAt
<1>4. \A j \in Chosen(line) : CellAt(j) \in Solid => j \in Showing
  BY DEF Showing, Chosen, OnThisLine
<1>5. \A i \in Slots, j \in Chosen(line) :
        Carries(Registers[i], j, line, dot) =>
          (Opaque(i) <=> CellAt(j) \in Solid) /\ (Opaque(i) => Shows(i, j))
  BY <1>1, CarriedShows
<1> HIDE DEF line
<1>6. \A j, k \in Chosen(line) : Rank(line, j) = Rank(line, k) => j = k
  <2> SUFFICES ASSUME NEW j \in Chosen(line), NEW k \in Chosen(line),
                      Rank(line, j) = Rank(line, k), j # k
               PROVE  FALSE
    OBVIOUS
  <2>1. j \in Nat /\ k \in Nat /\ Rank(line, j) \in Nat /\ Rank(line, k) \in Nat
    BY RanksAre
  <2>2. j < k => Rank(line, j) < Rank(line, k)
    BY RanksAre
  <2>3. k < j => Rank(line, k) < Rank(line, j)
    BY RanksAre
  <2> QED BY <2>1, <2>2, <2>3
<1>7. ASSUME NEW j \in Showing
      PROVE  Rank(line, j) \in Slots /\ Opaque(Rank(line, j)) /\ Shows(Rank(line, j), j)
  <2> DEFINE i == Rank(line, j)
  <2>1. i \in Slots /\ j \in Chosen(line) /\ CellAt(j) \in Solid
    BY <1>3, RanksAre
  <2>2. \E k \in Chosen(line) : i = Rank(line, k) /\ Carries(Registers[i], k, line, dot)
    BY <1>1, <2>1 DEF Holds
  <2>3. Carries(Registers[i], j, line, dot)
    BY <1>6, <2>1, <2>2
  <2> QED BY <1>5, <2>1, <2>3
<1>8. ASSUME NEW i \in Slots, Opaque(i)
      PROVE  \E j \in Showing : i = Rank(line, j)
  <2>1. ~Fits(Registers[i], 0 - dot)
    <3> DEFINE q == Registers[i]
    <3>1. q.offset \in Nat /\ q.cells[1] # Transparent /\ 1 \in 1 .. TILE
      <4>1. q.offset \in Nat
        BY <1>1 DEF IsRegister
      <4>2. q.cells[1] \in Solid
        BY <1>8 DEF Opaque
      <4> HIDE DEF q
      <4> QED BY <1>2, <4>1, <4>2, Sizes
    <3> HIDE DEF q
    <3>2. ~(q.offset + 1 <= 0 - dot + 1)
      <4>1. dot \in Nat /\ 1 <= dot
        BY <1>1
      <4> QED BY ONLY <3>1, <4>1
    <3> QED BY <3>1, <3>2 DEF Fits, q
  <2>2. PICK j \in Chosen(line) : i = Rank(line, j) /\ Carries(Registers[i], j, line, dot)
    BY <1>1, <2>1 DEF Holds
  <2> QED BY <1>4, <1>5, <1>8, <2>2
<1> QED BY <1>3, <1>7, <1>8 DEF line

(* The first opaque slot has the first sprite that shows. *)
LEMMA FrontShown ==
  ASSUME PipelineInv, SpritesInv, RegistersInv, steady, foreground, Tidy, Draws
  PROVE  FrontAfter = ExpectedFront
<1> DEFINE line == raster.scanline - 1
<1>1. /\ \A j \in Showing : Rank(line, j) \in Slots /\ Opaque(Rank(line, j))
                            /\ Shows(Rank(line, j), j) /\ j \in Chosen(line)
      /\ \A i \in Slots : Opaque(i) => \E j \in Showing : i = Rank(line, j)
  BY SlotsShow
<1>2. LookedAt = {i \in Slots : InPlace(i) /\ \A j \in 1 .. i - 1 : ~Opaque(j)}
  BY DEF LookedAt
<1> HIDE DEF line
<1>3. CASE Showing = {}
  <2>1. ~\E i \in LookedAt : Opaque(i)
    BY <1>1, <1>2, <1>3
  <2> QED BY <1>3, <2>1 DEF FrontAfter, ExpectedFront
<1>4. CASE Showing # {}
  <2>1. PICK j \in Showing : \A k \in Showing : j <= k
    <3>1. Showing \subseteq Nat
      BY OamSize DEF Showing
    <3> QED BY <1>4, <3>1, Smallest
  <2> DEFINE i == Rank(line, j)
  <2>2. i \in Slots /\ Opaque(i) /\ Shows(i, j) /\ j \in Chosen(line) /\ i \in Nat
    BY <1>1, RanksAre
  <2>3. \A k \in Slots : Opaque(k) => i <= k
    <3> SUFFICES ASSUME NEW k \in Slots, Opaque(k) PROVE i <= k
      OBVIOUS
    <3>1. PICK l \in Showing : k = Rank(line, l)
      BY <1>1
    <3>2. j <= l /\ l \in Chosen(line) /\ j \in Nat /\ l \in Nat /\ k \in Nat
      BY <1>1, <2>1, <2>2, <3>1, RanksAre
    <3>3. j = l \/ j < l
      BY <3>2
    <3>4. j < l => i < k
      BY <2>2, <3>1, <3>2, RanksAre
    <3> QED BY <2>2, <3>1, <3>2, <3>3, <3>4
  <2> HIDE DEF i
  <2>4. i \in LookedAt
    <3>1. \A k \in 1 .. i - 1 : ~Opaque(k)
      BY <2>2, <2>3, SlotsAre
    <3> QED BY <1>2, <2>2, <3>1 DEF Opaque
  <2>5. \A k \in LookedAt : Opaque(k) => k = i
    <3> SUFFICES ASSUME NEW k \in LookedAt, Opaque(k), k # i PROVE FALSE
      OBVIOUS
    <3>1. k \in Slots /\ (\A l \in 1 .. k - 1 : ~Opaque(l)) /\ i <= k /\ k \in Nat
      BY <1>2, <2>3, SlotsAre
    <3>2. i \in 1 .. k - 1
      BY <2>2, <3>1, SlotsAre
    <3> QED BY <2>2, <3>1, <3>2
  <2>6. (CHOOSE k \in LookedAt : Opaque(k)) = i
    BY <2>2, <2>4, <2>5
  <2>7. FrontAfter = [cell |-> Registers[i].cells[1], palette |-> Registers[i].palette,
                      behind |-> Registers[i].behind]
    BY <2>2, <2>4, <2>6 DEF FrontAfter
  <2>8. (CHOOSE k \in Showing : \A l \in Showing : k <= l) = j
    <3>1. \A k \in Showing : (\A l \in Showing : k <= l) => k = j
      BY <2>1, OamSize DEF Showing
    <3> QED BY <2>1, <3>1
  <2>9. ExpectedFront = [cell |-> CellAt(j), palette |-> scene.sprites[j].palette,
                         behind |-> scene.sprites[j].behind]
    BY <1>4, <2>8 DEF ExpectedFront
  <2> QED BY <2>2, <2>7, <2>9 DEF Shows
<1> QED BY <1>3, <1>4

-----------------------------------------------------------------------------
(* What the flags tell. *)
LEMMA OverflowTold ==
  ASSUME PipelineInv, SpritesInv, Visible, dot = WIDTH + 1
  PROVE  sprites.overflow <=> Crowded
<1> DEFINE s == raster.scanline
<1>1. /\ s \in Nat /\ s < HEIGHT /\ dot \in Nat /\ dot > WIDTH /\ dot > RESTART
  <2>1. s \in 0 .. PRERENDER /\ dot \in 0 .. LAST_DOT
    BY DEF PipelineInv, PipelineType, PpuType, dot
  <2> QED BY <2>1, Layout, SlotsAre DEF Visible
<1>2. IsSprites(sprites) /\ Evaluated(sprites, s, dot) /\ Overflows(sprites, s, dot)
  BY DEF SpritesInv
<1>3. Done(sprites) = OAM
  BY <1>1, <1>2, AtTheEnd
<1>4. sprites.overflow <=> CrowdedBefore(s) \/ Crowds(s)
  BY <1>1, <1>2, <1>3 DEF Overflows, Crowds
<1>5. \A l : Crowds(l) <=> Cardinality(OnThisLine(l)) > SLOTS
  <2> SUFFICES ASSUME NEW l PROVE Count(OnThisLine(l), OAM) = Cardinality(OnThisLine(l))
    BY DEF Crowds
  <2>1. OnThisLine(l) \cap 1 .. OAM = OnThisLine(l)
    BY DEF OnThisLine
  <2> QED BY <2>1 DEF Count
<1>6. 0 .. s = 0 .. s - 1 \cup {s}
  BY <1>1
<1> QED BY <1>4, <1>5, <1>6 DEF Crowded, CrowdedBefore

(* What is drawn in front is opaque if sprite zero is. *)
LEMMA ZeroShows ==
  ASSUME PipelineInv, SpritesInv, RegistersInv, steady, foreground, Tidy, Draws,
         CellAt(1) \in Solid
  PROVE  /\ Registers[1].zero /\ 1 \in LookedAt
         /\ FrontAfter.cell # Transparent
<1> DEFINE line == raster.scanline - 1
<1>1. 1 \in Showing
  BY OamSize DEF Showing
<1>2. /\ Rank(line, 1) \in Slots /\ Opaque(Rank(line, 1)) /\ Shows(Rank(line, 1), 1)
  BY <1>1, SlotsShow
<1>3. Rank(line, 1) = 1
  <2>1. Count(OnThisLine(line), 0) = 0
    <3>1. 0 \in Nat
      OBVIOUS
    <3> QED BY <3>1, CountNext
  <2> QED BY <2>1 DEF Rank
<1>4. Registers[1].zero /\ 1 \in LookedAt
  <2>1. /\ 1 \in Slots /\ Opaque(1) /\ Shows(1, 1)
    BY <1>2, <1>3
  <2>2. Registers[1].zero
    BY <2>1 DEF Shows
  <2>3. \A j \in 1 .. 1 - 1 : ~Opaque(j)
    OBVIOUS
  <2> QED BY <2>1, <2>2, <2>3 DEF LookedAt, Opaque
<1>5. FrontAfter.cell # Transparent
  <2>1. PICK j \in Showing : \A k \in Showing : j <= k
    <3>1. Showing \subseteq Nat
      BY OamSize DEF Showing
    <3> QED BY <1>1, <3>1, Smallest
  <2>2. PICK j2 \in Showing : ExpectedFront.cell = CellAt(j2)
    <3>1. (CHOOSE k \in Showing : \A l \in Showing : k <= l) \in Showing
      BY <2>1
    <3> QED BY <1>1, <3>1 DEF ExpectedFront
  <2>3. CellAt(j2) \in Solid
    BY DEF Showing
  <2> QED BY <2>2, <2>3, FrontShown, PictureAssumption
<1> QED BY <1>4, <1>5

(* The hit flag of the next state, and the place of the dot. *)
LEMMA HitNext ==
  ASSUME PipelineInv, SpritesInv, PictureDot, steady, Draws
  PROVE  /\ sprites'.hit = (sprites.hit \/ HitsNow)
         /\ PixelAfter = Expected
         /\ dot \in Nat /\ dot <= WIDTH
<1>1. /\ raster.scanline \in Nat /\ raster.scanline < HEIGHT /\ dot \in 1 .. WIDTH
      /\ dot \in Nat
  <2>1. raster.scanline \in 0 .. PRERENDER
    BY DEF PipelineInv, PipelineType, PpuType
  <2> QED BY <2>1, Layout DEF Draws, Visible
<1>2. /\ IsSprites(sprites) /\ Evaluated(sprites, raster.scanline, dot)
      /\ Overflows(sprites, raster.scanline, dot)
  BY DEF SpritesInv
<1>3. IsSprites(sprite_evaluation) /\ sprite_evaluation.hit = sprites.hit
  BY <1>1, <1>2, EvaluationStep
<1>4. sprites' = SpritesAfter /\ Dot /\ pixel' = PixelAfter
  BY DEF PictureDot, Dot
<1>5. sprites'.hit = (sprites.hit \/ HitsNow)
  BY <1>1, <1>2, <1>3, <1>4, VisibleDot DEF Draws
<1>6. PixelAfter = Expected
  BY <1>4, PixelShown
<1>7. dot <= WIDTH
  BY <1>1, Layout
<1> QED BY <1>1, <1>5, <1>6, <1>7

(* The flag comes up where they meet ... *)
LEMMA HitTold ==
  ASSUME PipelineInv, SpritesInv, RegistersInv, PictureDot, steady, foreground, Tidy, Draws,
         Meeting, dot # WIDTH - 1
  PROVE  sprites'.hit
<1>1. /\ CellAt(1) \in Solid /\ OpaqueGround(Expected) /\ dot < WIDTH
      /\ (dot > TILE \/ scene.left)
  <2>1. CellAt(1) \in Solid /\ OpaqueGround(Expected) /\ dot < WIDTH /\ ~Clipped
    BY DEF Meeting
  <2>2. dot \in Nat /\ TILE \in Nat
    BY HitNext, Sizes
  <2>3. ~(dot <= TILE) => dot > TILE
    BY <2>2
  <2> QED BY <2>1, <2>3 DEF Clipped
<1>2. dot < WIDTH - 1
  <2>1. dot \in Nat /\ WIDTH \in Nat
    BY HitNext, Layout
  <2> QED BY <1>1, <2>1
<1>3. /\ Registers[1].zero /\ 1 \in LookedAt /\ FrontAfter.cell # Transparent
  BY <1>1, ZeroShows
<1>4. sprites'.hit = (sprites.hit \/ HitsNow) /\ PixelAfter = Expected
  BY HitNext
<1>5. HitsNow
  BY <1>1, <1>2, <1>3, <1>4 DEF HitsNow
<1> QED BY <1>4, <1>5

(* ... and, where no other sprite shows, only there. *)
LEMMA HitMeant ==
  ASSUME PipelineInv, SpritesInv, RegistersInv, PictureDot, steady, foreground, Tidy, Draws,
         Showing \subseteq {1}, sprites'.hit
  PROVE  sprites.hit \/ Meeting
<1>1. /\ sprites'.hit = (sprites.hit \/ HitsNow) /\ PixelAfter = Expected
      /\ dot \in Nat /\ dot <= WIDTH
  BY HitNext
<1>2. SUFFICES ASSUME HitsNow PROVE Meeting
  BY <1>1
<1>3. /\ FrontAfter.cell # Transparent /\ OpaqueGround(Expected)
      /\ dot < WIDTH - 1 /\ (dot > TILE \/ scene.left)
  BY <1>1, <1>2 DEF HitsNow
<1>4. CellAt(1) \in Solid
  <2>1. Showing # {}
    <3>1. FrontAfter = ExpectedFront
      BY FrontShown
    <3> QED BY <1>3, <3>1 DEF ExpectedFront
  <2>2. 1 \in Showing
    BY <2>1
  <2> QED BY <2>2 DEF Showing
<1>5. dot < WIDTH
  <2>1. WIDTH \in Nat
    BY Layout
  <2> QED BY <1>1, <1>3, <2>1
<1>6. ~Clipped
  <2>1. TILE \in Nat
    BY Sizes
  <2>2. dot > TILE => ~(dot <= TILE)
    BY <1>1, <2>1
  <2> QED BY <1>3, <2>2 DEF Clipped
<1> QED BY <1>3, <1>4, <1>5, <1>6 DEF Meeting

(* Every sprite keeps its place on the screen, the first ones of a crowded  *)
(* line and no other, over or behind the background as it says, and nothing *)
(* of the line before (ppu.rs:326-500), outside the columns that the left   *)
(* bits of $2001 are for.                                                   *)
THEOREM SpritesAreShown == PictureSpec => SpritesShown
<1>1. ASSUME PipelineInv, SpritesInv, RegistersInv, [PictureNext]_pictureVars
      PROVE  [Drawing /\ ~Clipped
                => Screen(pixel', front') = Screen(Expected, ExpectedFront)]_vars
  <2> SUFFICES ASSUME Drawing
               PROVE  Screen(pixel', front') = Screen(Expected, ExpectedFront)
    OBVIOUS
  <2>1. steady /\ foreground /\ Tidy /\ Draws /\ PictureDot
    BY <1>1, SpritesStep DEF Drawing
  <2>2. pixel' = Expected
    BY <1>1, <2>1, PixelShown DEF PictureDot
  <2>3. front' = ExpectedFront
    BY <1>1, <2>1, FrontShown DEF PictureDot
  <2> QED BY <2>2, <2>3
<1> QED
  BY <1>1, PipelineCorrect, EvaluationCorrect, RegistersCorrect, PTL
  DEF PictureSpec, pictureVars, SpritesShown

(* The overflow flag tells a crowded line of a frame that is rendered, as   *)
(* long as the lines are straight; the hit flag comes up where sprite zero  *)
(* meets the background and, where no other sprite shows, only there        *)
(* (ppu.rs:349-369, 469-486 and 566-570).                                   *)
THEOREM FlagsAreRight == PictureSpec => FlagsTell
<1> DEFINE Told  == Visible /\ dot = WIDTH + 1 /\ steady /\ Straight
                      => (sprites.overflow <=> Crowded)
           Up    == Drawing /\ Meeting /\ dot # WIDTH - 1 => sprites'.hit
           Meant == Drawing /\ Showing \subseteq {1} /\ sprites'.hit
                      => sprites.hit \/ Meeting
<1>1. ASSUME PipelineInv, SpritesInv, RegistersInv, [PictureNext]_pictureVars
      PROVE  [Told /\ Up /\ Meant]_vars
  <2>1. Told
    BY <1>1, OverflowTold
  <2>2. Drawing => steady /\ foreground /\ Tidy /\ Draws /\ PictureDot
    BY <1>1, SpritesStep DEF Drawing
  <2>3. Up
    BY <1>1, <2>2, HitTold
  <2>4. Meant
    BY <1>1, <2>2, HitMeant
  <2> QED BY <2>1, <2>3, <2>4
<1> QED
  BY <1>1, PipelineCorrect, EvaluationCorrect, RegistersCorrect, PTL
  DEF PictureSpec, pictureVars, FlagsTell
=============================================================================
