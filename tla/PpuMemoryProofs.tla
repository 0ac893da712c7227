-------------------------- MODULE PpuMemoryProofs --------------------------
(***************************************************************************)
(* The memory of the PPU keeps its promise, for every size of its regions, *)
(* every program, and every cartridge that has the banks asked for, counted*)
(* in halves of a pattern table: but for the accesses of Divergent it      *)
(* implements VideoMemory, and none misses its chip but through a doubled  *)
(* window.                                                                 *)
(*                                                                         *)
(* The heart of it is that two ways of finding a byte agree.  The code     *)
(* masks an address and subtracts the start of a table; the promise splits *)
(* it into fields.  That is arithmetic on quotients and remainders, so the *)
(* module starts with that.                                                *)
(***************************************************************************)
EXTENDS PpuMemory, TLAPS

(* Quotient and remainder are unique. *)
LEMMA Quotient ==
  ASSUME NEW n \in Int, NEW d \in Nat \ {0}, NEW q \in Int, NEW r \in Int,
         n = d * q + r, 0 <= r, r < d
  PROVE  n \div d = q /\ n % d = r
<1>1. /\ n = d * (n \div d) + (n % d) /\ 0 <= n % d /\ n % d < d
      /\ n \div d \in Int /\ n % d \in Int
  OBVIOUS
<1>2. d * (q - (n \div d)) = (n % d) - r
  BY <1>1
<1>3. ~(q - (n \div d) >= 1)
  BY <1>1, <1>2
<1>4. ~(q - (n \div d) <= -1)
  BY <1>1, <1>2
<1> QED BY <1>1, <1>3, <1>4

LEMMA Division ==
  ASSUME NEW n \in Int, NEW d \in Nat \ {0}
  PROVE  /\ n \div d \in Int /\ n % d \in 0 .. d - 1
         /\ n = d * (n \div d) + (n % d)
         /\ n >= 0 => n \div d \in Nat
  OBVIOUS

(* A multiple of the divisor changes the quotient and not the remainder.   *)
LEMMA LessMultiple ==
  ASSUME NEW n \in Int, NEW m \in Int, NEW d \in Nat \ {0}, m % d = 0
  PROVE  /\ (n - m) % d = n % d
         /\ (n - m) \div d = (n \div d) - (m \div d)
<1>1. m = d * (m \div d) /\ m \div d \in Int
  BY Division
<1>2. /\ n \div d \in Int /\ n % d \in Int /\ 0 <= n % d /\ n % d < d
      /\ n = d * (n \div d) + (n % d)
  BY Division
<1> DEFINE q == (n \div d) - (m \div d)
<1>3. n - m = d * q + (n % d) /\ q \in Int /\ n - m \in Int
  BY <1>1, <1>2
<1> HIDE DEF q
<1>4. (n - m) \div d = q /\ (n - m) % d = n % d
  BY <1>2, <1>3, Quotient
<1> QED BY <1>4 DEF q

(* A remainder keeps the remainder by a divisor. *)
LEMMA Coarser ==
  ASSUME NEW n \in Int, NEW c \in Nat \ {0}, NEW d \in Nat \ {0}, c % d = 0
  PROVE  (n % c) % d = n % d
<1> DEFINE x == n \div c
           y == c \div d
           k == y * x
           m == d * k
<1>1. x \in Int /\ n % c \in Int /\ n = c * x + (n % c)
  BY Division
<1>2. y \in Int /\ c = d * y
  <2>1. c \in Int /\ c % d = 0
    OBVIOUS
  <2> QED BY <2>1, Division
<1> HIDE DEF x, y
<1>3. k \in Int /\ m \in Int /\ c * x = m
  BY <1>1, <1>2
<1>4. m % d = 0
  <2>1. m = d * k + 0 /\ 0 \in Int /\ 0 <= 0 /\ 0 < d
    BY <1>3
  <2> HIDE DEF k, m
  <2> QED BY <1>3, <2>1, Quotient
<1> HIDE DEF k, m
<1>5. n % c = n - m
  BY <1>1, <1>3
<1>6. (n - m) % d = n % d
  BY <1>3, <1>4, LessMultiple
<1> QED BY <1>5, <1>6

(* The quotient by the product of two divisors, in two steps: the digits   *)
(* of an address in a space of four tables.                                *)
LEMMA Digits ==
  ASSUME NEW n \in Int, NEW d \in Nat \ {0}, NEW k \in Nat \ {0}
  PROVE  /\ (n % (k * d)) \div d = (n \div d) % k
         /\ (n % (k * d)) % d = n % d
<1>1. k * d \in Nat \ {0}
  OBVIOUS
<1> DEFINE s == n % d
           t == n \div d
           u == t % k
           v == t \div k
           r == d * u + s
<1>2. s \in Int /\ t \in Int /\ 0 <= s /\ s < d /\ n = d * t + s
  BY Division
<1>3. u \in Int /\ v \in Int /\ 0 <= u /\ u < k /\ t = k * v + u
  BY <1>2, Division
<1> HIDE DEF s, t, u, v
<1>4. n = (k * d) * v + r
  BY <1>2, <1>3
<1>5. r \in Int /\ 0 <= r /\ r < k * d
  <2>1. d * u >= 0 /\ d * u <= d * (k - 1) /\ d * u \in Int
    BY <1>3
  <2>2. d * (k - 1) = k * d - d
    OBVIOUS
  <2> QED BY <1>2, <2>1, <2>2
<1>6. n % (k * d) = r
  BY <1>1, <1>3, <1>4, <1>5, Quotient
<1>7. r \div d = u /\ r % d = s
  BY <1>2, <1>3, <1>5, Quotient
<1> QED BY <1>6, <1>7 DEF s, t, u

-----------------------------------------------------------------------------
(* What the sizes of the regions are.                                      *)
LEMMA Regions ==
  /\ HALF \in Nat \ {0} /\ PATTERN \in Nat \ {0} /\ PATTERN = HALF + HALF
  /\ TABLE \in Nat \ {0} /\ PALETTE \in Nat /\ SPACE \in Nat \ {0}
  /\ WORD \in Nat \ {0} /\ COLORS \in Nat \ {0} /\ GROUP \in Nat \ {0} /\ ROW \in Nat
  /\ PATTERN < PALETTE /\ PALETTE < SPACE
  BY MemoryAssumption DEF HALF

(* The digits of an address: which of four tables, and where in it, with   *)
(* or without the start of the region.                                     *)
LEMMA TableDigits ==
  ASSUME NEW n \in Int, NEW p \in Int, NEW d \in Nat \ {0}, p % (4 * d) = 0
  PROVE  LET k == ((n - p) \div d) % 4
         IN  /\ k \in 0 .. 3 /\ n % d \in 0 .. d - 1
             /\ (n % (4 * d)) \div d = k
             /\ n % (4 * d) = (d * k) + (n % d)
<1>0. 4 \in Nat \ {0} /\ 4 * d \in Nat \ {0}
  OBVIOUS
<1>1. /\ (n % (4 * d)) \div d = (n \div d) % 4
      /\ (n % (4 * d)) % d = n % d
  BY <1>0, Digits, Zenon
<1>2. p % d = 0 /\ (p \div d) % 4 = 0
  <2>1. /\ (p % (4 * d)) \div d = (p \div d) % 4
        /\ (p % (4 * d)) % d = p % d
    BY <1>0, Digits, Zenon
  <2>2. 0 \div d = 0 /\ 0 % d = 0
    BY Quotient
  <2> QED BY <2>1, <2>2
<1>3. n \div d \in Int /\ p \div d \in Int /\ n % d \in 0 .. d - 1
  BY Division
<1>4. (n - p) \div d = (n \div d) - (p \div d)
  BY <1>2, LessMultiple, Zenon
<1>5. ((n \div d) - (p \div d)) % 4 = (n \div d) % 4
  <2>1. n \div d \in Int
    BY <1>3
  <2>2. p \div d \in Int
    BY <1>3
  <2>3. (p \div d) % 4 = 0
    BY <1>2
  <2>4. 4 \in Nat \ {0}
    OBVIOUS
  <2> QED BY <2>1, <2>2, <2>3, <2>4, LessMultiple, Zenon
<1>6. (n \div d) % 4 \in 0 .. 3
  BY <1>3
<1>7. n % (4 * d) = (d * ((n % (4 * d)) \div d)) + ((n % (4 * d)) % d)
  <2>1. n % (4 * d) \in Int
    BY <1>0, Division
  <2> QED BY <2>1, Division, Zenon
<1> QED BY <1>1, <1>3, <1>4, <1>5, <1>6, <1>7, Zenon

(* Ppu::mirror puts an address where the pages of the mirroring are.       *)
LEMMA MirrorPages ==
  ASSUME NEW a \in Nat, get_mirroring \in Mirrorings
  PROVE  LET page == Pages(get_mirroring)[1 + (((a - PATTERN) \div TABLE) % 4)]
         IN  /\ page \in {0, 1}
             /\ ~Upper => mirror(a) = (page * TABLE) + (a % TABLE)
             /\ mirror(a) \in 0 .. 2 * TABLE - 1
<1> DEFINE k == ((a - PATTERN) \div TABLE) % 4
           s == a % TABLE
           w == a % (4 * TABLE)
           page == Pages(get_mirroring)[1 + k]
           Folds(tables, pages) ==
             \A j \in 0 .. 3 : tables[1 + j] = j - pages[1 + j] /\ pages[1 + j] \in {0, 1}
<1>1. /\ k \in 0 .. 3 /\ k = Quadrant(a)
      /\ w = (TABLE * k) + s /\ s \in 0 .. TABLE - 1 /\ TABLE \in Nat \ {0}
  <2>1. /\ a \in Int /\ PATTERN \in Int /\ TABLE \in Nat \ {0}
        /\ PATTERN % (4 * TABLE) = 0
    BY MemoryAssumption
  <2> QED BY <2>1, TableDigits, Zenon DEF Quadrant
<1> HIDE DEF k, s, w
<1>2. ASSUME NEW tables, NEW pages, Folds(tables, pages),
             mirror(a) = w - (tables[1 + k] * TABLE)
      PROVE  pages[1 + k] \in {0, 1} /\ mirror(a) = (pages[1 + k] * TABLE) + s
  <2>1. tables[1 + k] = k - pages[1 + k] /\ pages[1 + k] \in {0, 1}
    BY <1>1, <1>2
  <2> QED BY <1>1, <1>2, <2>1
<1>3. ASSUME ~Upper
      PROVE  /\ page \in {0, 1}
             /\ mirror(a) = (page * TABLE) + s
  <2>1. CASE get_mirroring = "Horizontal"
    <3>1. mirror(a) = w - (<<0, 1, 1, 2>>[1 + k] * TABLE)
      BY <1>1, <2>1 DEF mirror, Less, w
    <3>2. page = <<0, 0, 1, 1>>[1 + k]
      BY <2>1 DEF Pages
    <3>3. Folds(<<0, 1, 1, 2>>, <<0, 0, 1, 1>>)
      OBVIOUS
    <3> HIDE DEF Folds, page
    <3> QED BY <1>2, <3>1, <3>2, <3>3, Zenon
  <2>2. CASE get_mirroring = "Vertical"
    <3>1. mirror(a) = w - (<<0, 0, 2, 2>>[1 + k] * TABLE)
      BY <1>1, <2>2 DEF mirror, Less, w
    <3>2. page = <<0, 1, 0, 1>>[1 + k]
      BY <2>2 DEF Pages
    <3>3. Folds(<<0, 0, 2, 2>>, <<0, 1, 0, 1>>)
      OBVIOUS
    <3> HIDE DEF Folds, page
    <3> QED BY <1>2, <3>1, <3>2, <3>3, Zenon
  <2>3. CASE get_mirroring = "OneScreenLower"
    <3>1. mirror(a) = s
      BY <2>3 DEF mirror, s
    <3>2. page = <<0, 0, 0, 0>>[1 + k]
      BY <2>3 DEF Pages
    <3>3. page = 0
      <4> HIDE DEF page
      <4>1. k = 0 \/ k = 1 \/ k = 2 \/ k = 3
        BY <1>1
      <4> QED BY <3>2, <4>1
    <3> HIDE DEF page
    <3> QED BY <1>1, <3>1, <3>3
  <2> QED BY <1>3, <2>1, <2>2, <2>3 DEF Upper, Mirrorings
<1>4. ASSUME Upper
      PROVE  page \in {0, 1} /\ mirror(a) = s
  <2>1. mirror(a) = s
    BY <1>4 DEF Upper, mirror, s
  <2>2. page = <<1, 1, 1, 1>>[1 + k]
    BY <1>4 DEF Upper, Pages
  <2> HIDE DEF page
  <2>3. k = 0 \/ k = 1 \/ k = 2 \/ k = 3
    BY <1>1
  <2> QED BY <2>1, <2>2, <2>3
<1> HIDE DEF page
<1>5. mirror(a) \in 0 .. 2 * TABLE - 1
  <2>1. CASE Upper
    BY <1>1, <1>4, <2>1
  <2>2. CASE ~Upper
    <3>1. mirror(a) = s \/ mirror(a) = TABLE + s
      BY <1>1, <1>3, <2>2
    <3>2. s \in 0 .. TABLE - 1 /\ TABLE \in Nat
      BY <1>1
    <3> QED BY ONLY <3>1, <3>2
  <2> QED BY <2>1, <2>2
<1> QED BY <1>3, <1>4, <1>5, Zenon DEF page, k, s

(* Ppu::mirror_palette folds a colour of the palette as the promise does.  *)
LEMMA MirrorPalette ==
  ASSUME NEW a \in Nat
  PROVE  /\ mirror_palette(a) = Promise!Color((a - PALETTE) % COLORS)
         /\ mirror_palette(a) \in 0 .. COLORS - 1
<1> DEFINE half == COLORS \div 2
           c == a % COLORS
<1>0. a \in Int /\ COLORS \in Nat \ {0} /\ GROUP \in Nat \ {0}
  BY Regions
<1>1. /\ half \in Nat \ {0} /\ COLORS = 2 * half
      /\ COLORS % GROUP = 0 /\ COLORS % half = 0
  <2> DEFINE n == COLORS \div (2 * GROUP)
  <2>0. COLORS \in Nat \ {0} /\ GROUP \in Nat \ {0}
    BY <1>0
  <2>1. n \in Int /\ COLORS = (2 * GROUP) * n
    <3> DEFINE m == 2 * GROUP
    <3>1. m \in Nat \ {0} /\ COLORS % m = 0 /\ COLORS \in Int
      BY <2>0, MemoryAssumption
    <3> HIDE DEF m
    <3>2. COLORS \div m \in Int /\ COLORS = m * (COLORS \div m) + (COLORS % m)
      BY <3>1, Division, Zenon
    <3>3. COLORS = m * (COLORS \div m)
      BY <3>1, <3>2
    <3> QED BY <3>2, <3>3, Zenon DEF m, n
  <2> HIDE DEF n
  <2>2. GROUP * n \in Int /\ COLORS = 2 * (GROUP * n) /\ COLORS = GROUP * (2 * n) + 0
    BY <2>0, <2>1
  <2>3. half = GROUP * n
    <3> DEFINE g == GROUP * n
    <3>1. g \in Int /\ COLORS = 2 * g
      BY <2>2
    <3> HIDE DEF g
    <3>2. COLORS \div 2 = g
      BY <3>1
    <3> QED BY <3>2 DEF g
  <2>4. half \in Nat \ {0} /\ COLORS = 2 * half /\ COLORS = half * 2 + 0
    BY <2>0, <2>2, <2>3
  <2>5. COLORS % GROUP = 0
    BY <2>0, <2>1, <2>2, Quotient
  <2>6. COLORS % half = 0
    <3> HIDE DEF half
    <3> QED BY <2>4, Quotient
  <2> QED BY <2>4, <2>5, <2>6
<1>2. c \in 0 .. COLORS - 1
  BY <1>0, Division
<1> HIDE DEF half, c
<1>3. c % GROUP = a % GROUP /\ c % half = a % half
  <2>1. GROUP \in Nat \ {0} /\ COLORS % GROUP = 0
    BY <1>0, <1>1
  <2>2. half \in Nat \ {0} /\ COLORS % half = 0
    BY <1>1
  <2>3. a \in Int /\ COLORS \in Nat \ {0}
    BY <1>0
  <2>4. c % GROUP = a % GROUP
    BY <2>1, <2>3, Coarser, Zenon DEF c
  <2>5. c % half = a % half
    BY <2>2, <2>3, Coarser, Zenon DEF c
  <2> QED BY <2>4, <2>5
<1>4. (a - PALETTE) % COLORS = c
  <2>1. PALETTE \in Int /\ PALETTE % COLORS = 0
    BY Regions, MemoryAssumption
  <2>2. a \in Int /\ COLORS \in Nat \ {0}
    BY <1>0
  <2> QED BY <2>1, <2>2, LessMultiple, Zenon DEF c
<1>5. c % half \in 0 .. half - 1
  <2>1. c \in Int
    BY <1>2
  <2> QED BY <1>1, <2>1, Division, Zenon
<1>6. mirror_palette(a) = IF a % GROUP = 0 THEN a % half ELSE c
  BY DEF mirror_palette, half, c
<1>7. Promise!Color(c) = IF c % GROUP = 0 THEN c % half ELSE c
  BY DEF Promise!Color, half
<1>8. mirror_palette(a) = Promise!Color(c)
  BY <1>3, <1>6, <1>7
<1>9. mirror_palette(a) \in 0 .. COLORS - 1
  BY <1>1, <1>2, <1>3, <1>5, <1>6
<1> QED BY <1>4, <1>8, <1>9

-----------------------------------------------------------------------------
(* What the registers of a mapper are in Settings.                         *)
LEMMA MapperFields ==
  ASSUME NEW c \in Cartridges, NEW m \in Settings(c.id)
  PROVE  /\ m.id = c.id /\ m.id \in Mappers
         /\ m.chr_bank_0 \in Nat /\ m.chr_bank_1 \in Nat
         /\ m.id \in {0, 2, 7} => m.chr_bank_0 = 0
         /\ m.large \in BOOLEAN
         /\ m.mirroring \in Mirrorings \cup {"None"}
<1>1. /\ c.id \in Mappers /\ Banks \subseteq Nat /\ Sizes \subseteq BOOLEAN
      /\ Screens \subseteq Mirrorings /\ AxScreens \subseteq Mirrorings \cup {"None"}
  BY MemoryAssumption DEF AxScreens, Mirrorings
<1>2. /\ m.id = c.id
      /\ m.chr_bank_0 \in IF c.id \in {1, 3, 66} THEN Banks ELSE {0}
      /\ m.chr_bank_1 \in IF c.id = 1 THEN Banks ELSE {0}
      /\ m.large \in IF c.id = 1 THEN Sizes ELSE {FALSE}
      /\ m.mirroring \in CASE c.id = 1 -> Screens
                           [] c.id = 7 -> AxScreens
                           [] OTHER    -> {"None"}
  BY DEF Settings
<1>3. m.mirroring \in Mirrorings \cup {"None"}
  <2>1. CASE c.id = 1
    BY <1>1, <1>2, <2>1
  <2>2. CASE c.id = 7
    BY <1>1, <1>2, <2>2
  <2>3. CASE c.id # 1 /\ c.id # 7
    BY <1>1, <1>2, <2>3
  <2> QED BY <2>1, <2>2, <2>3
<1>4. m.chr_bank_0 \in Nat /\ m.chr_bank_1 \in Nat
  BY <1>1, <1>2
<1>5. m.large \in BOOLEAN
  BY <1>1, <1>2
<1>6. m.id \in {0, 2, 7} => m.chr_bank_0 = 0
  BY <1>2
<1> QED BY <1>1, <1>2, <1>3, <1>4, <1>5, <1>6

(* The half of the pattern tables an address is in.                        *)
LEMMA HalfDigits ==
  ASSUME NEW a \in 0 .. PATTERN - 1
  PROVE  /\ a % PATTERN = a
         /\ \/ a < HALF /\ a \div HALF = 0 /\ a % HALF = a
            \/ a >= HALF /\ a \div HALF = 1 /\ a % HALF = a - HALF
<1>1. /\ a \in Int /\ 0 <= a /\ a < PATTERN /\ PATTERN = HALF + HALF
      /\ HALF \in Nat \ {0} /\ PATTERN \in Nat \ {0} /\ 0 \in Int /\ 1 \in Int
  BY Regions
<1>2. a = PATTERN * 0 + a
  BY <1>1
<1>3. a % PATTERN = a
  BY <1>1, <1>2, Quotient, Zenon
<1>4. CASE a < HALF
  <2>1. a = HALF * 0 + a
    BY <1>1
  <2> QED BY <1>1, <1>3, <1>4, <2>1, Quotient, Zenon
<1>5. CASE ~(a < HALF)
  <2>1. a = HALF * 1 + (a - HALF) /\ a - HALF \in Int /\ 0 <= a - HALF /\ a - HALF < HALF
    BY <1>1, <1>5
  <2>2. a \div HALF = 1 /\ a % HALF = a - HALF
    BY <1>1, <2>1, Quotient, Zenon
  <2>3. a >= HALF
    BY <1>1, <1>5
  <2> QED BY <1>3, <2>2, <2>3
<1> QED BY <1>4, <1>5

(* Each mapper puts an address of the pattern tables where its windows     *)
(* are, unless that of mapper 1 is doubled.                                *)
LEMMA MapperWindows ==
  ASSUME NEW c \in Cartridges, mapper \in Settings(c.id), NEW a \in 0 .. PATTERN - 1
  PROVE  LET half == 1 + (a \div HALF)
         IN  /\ half \in {1, 2} /\ a % HALF \in 0 .. HALF - 1
             /\ Windows(mapper)[half] \in Nat
             /\ ~Doubled => ChrCell(a) = (Windows(mapper)[half] * HALF) + (a % HALF)
<1> DEFINE half == 1 + (a \div HALF)
           b0 == mapper.chr_bank_0
           b1 == mapper.chr_bank_1
           There == ~Doubled => ChrCell(a) = (Windows(mapper)[half] * HALF) + (a % HALF)
<1>1. /\ a \in Int /\ 0 <= a /\ a < PATTERN /\ PATTERN = HALF + HALF
      /\ HALF \in Nat \ {0} /\ PATTERN \in Nat
  BY Regions
<1>2. /\ a % PATTERN = a
      /\ \/ a < HALF /\ half = 1 /\ a % HALF = a
         \/ a >= HALF /\ half = 2 /\ a % HALF = a - HALF
  <2>1. 1 + 0 = 1 /\ 1 + 1 = 2
    OBVIOUS
  <2> QED BY <2>1, HalfDigits, Zenon
<1>3. /\ mapper.id \in Mappers /\ b0 \in Nat /\ b1 \in Nat
      /\ mapper.id \in {0, 2, 7} => b0 = 0
      /\ mapper.large \in BOOLEAN
  BY MapperFields, Zenon
<1>4. half \in {1, 2} /\ a % HALF \in 0 .. HALF - 1
  BY <1>1, <1>2
<1> HIDE DEF half
<1>5. ASSUME mapper.id # 1
      PROVE  Windows(mapper)[half] \in Nat /\ There
  <2>1. Windows(mapper) = <<2 * b0, 2 * b0 + 1>>
    BY <1>5 DEF Windows
  <2>2. ChrCell(a) = IF mapper.id \in {0, 2, 7} THEN a ELSE (b0 * PATTERN) + (a % PATTERN)
    BY <1>3, <1>5 DEF ChrCell, Banked, Window, Mappers
  <2>3. ChrCell(a) = (b0 * PATTERN) + a
    BY <1>1, <1>2, <1>3, <2>2
  <2>4. /\ b0 * PATTERN = (2 * b0) * HALF /\ (2 * b0 + 1) * HALF = (b0 * PATTERN) + HALF
        /\ 2 * b0 \in Nat /\ 2 * b0 + 1 \in Nat /\ b0 * PATTERN \in Nat
    <3> HIDE DEF b0
    <3> QED BY <1>1, <1>3
  <2> HIDE DEF b0
  <2>5. CASE half = 1
    <3>1. Windows(mapper)[half] = 2 * b0 /\ a % HALF = a
      BY <1>2, <2>1, <2>5
    <3> QED BY <1>4, <2>3, <2>4, <3>1
  <2>6. CASE half = 2
    <3>1. Windows(mapper)[half] = 2 * b0 + 1 /\ a % HALF = a - HALF
      BY <1>2, <2>1, <2>6
    <3> QED BY <1>1, <1>4, <2>3, <2>4, <3>1
  <2> QED BY <1>4, <2>5, <2>6
<1>6. ASSUME mapper.id = 1, mapper.large
      PROVE  Windows(mapper)[half] \in Nat /\ There
  <2> DEFINE even == 2 * (b0 \div 2)
  <2>1. Windows(mapper) = <<even, even + 1>>
    BY <1>6 DEF Windows
  <2>2. even \in Nat
    <3> HIDE DEF b0
    <3> QED BY <1>3
  <2>3. Windows(mapper)[half] \in Nat
    <3> HIDE DEF even
    <3> QED BY <1>4, <2>1, <2>2
  <2>4. ASSUME ~Doubled
        PROVE  ChrCell(a) = (Windows(mapper)[half] * HALF) + (a % HALF)
    <3>1. ChrCell(a) = (even * PATTERN) + (a % PATTERN)
      <4>1. mapper.id \notin {0, 2, 7} /\ mapper.id \notin {3, 66}
        BY <1>6
      <4>2. ChrCell(a) = Mmc1(mapper, a)
        BY <1>6, <4>1 DEF ChrCell
      <4>3. Mmc1(mapper, a) = Window(even, PATTERN, a)
        BY <1>6 DEF Mmc1
      <4> QED BY <4>2, <4>3 DEF Window
    <3>2. even = 0
      <4>1. ~(b0 > 1)
        BY <1>6, <2>4 DEF Doubled
      <4> HIDE DEF b0
      <4>2. b0 = 0 \/ b0 = 1
        BY <1>3, <4>1
      <4> QED BY <4>2
    <3> HIDE DEF even
    <3>3. ChrCell(a) = a
      BY <1>1, <1>2, <3>1, <3>2
    <3>4. Windows(mapper)[half] = half - 1
      BY <1>4, <2>1, <3>2
    <3> QED BY <1>1, <1>2, <3>3, <3>4
  <2> QED BY <1>4, <2>3, <2>4
<1>7. ASSUME mapper.id = 1, ~mapper.large
      PROVE  Windows(mapper)[half] \in Nat /\ There
  <2>1. Windows(mapper) = <<b0, b1>>
    BY <1>7 DEF Windows
  <2>2. ChrCell(a) = IF a < HALF THEN (b0 * HALF) + (a % HALF)
                     ELSE (b1 * HALF) + (a % HALF)
    BY <1>1, <1>7 DEF ChrCell, Mmc1, Window
  <2> HIDE DEF b0, b1
  <2> QED BY <1>1, <1>2, <1>3, <1>4, <2>1, <2>2
<1>8. Windows(mapper)[half] \in Nat /\ There
  BY <1>5, <1>6, <1>7
<1> QED BY <1>4, <1>8 DEF half

-----------------------------------------------------------------------------
(* What the state is at any time: the memory of some cartridge, wired as   *)
(* one of the settings of its mapper, and perhaps an earlier such state.   *)
PpuType == [cur_address : 0 .. WORD - 1, read_buffer : Bytes, increment : BOOLEAN]

Blobs(c) ==
  [ppu : PpuType, nametables : [0 .. 2 * TABLE - 1 -> Bytes],
   palettes : [0 .. COLORS - 1 -> Bytes], chr : [DOMAIN c.chr -> Bytes],
   mapper : Settings(c.id)]

PutIn(c) ==
  /\ header = [mirroring |-> c.mirroring, ram |-> c.ram] /\ blob \in Blobs(c)
  /\ saved = <<>> \/ \E b \in Blobs(c) : saved = <<b>>

IInv == (panicked => Doubled) /\ \E c \in Cartridges : PutIn(c)

(* Each access finds the byte where the promise has it, and there is one,  *)
(* but for those that the promise leaves out.                              *)
LEMMA CellIsPlace ==
  ASSUME NEW c \in Cartridges, PutIn(c), NEW a \in 0 .. SPACE - 1
  PROVE  /\ Cell(a)[1] \in {"chr", "nametables", "palettes"}
         /\ InRange(Cell(a)) \/ (a < PATTERN /\ Doubled)
         /\ \/ Cell(a) = Promise!Place(a)
            \/ a < PATTERN /\ Doubled
            \/ a >= PATTERN /\ a < PALETTE /\ Upper
<1>1. /\ mapper \in Settings(c.id) /\ header = [mirroring |-> c.mirroring, ram |-> c.ram]
      /\ chr \in [DOMAIN c.chr -> Bytes]
      /\ nametables \in [0 .. 2 * TABLE - 1 -> Bytes]
      /\ palettes \in [0 .. COLORS - 1 -> Bytes]
  BY DEF PutIn, Blobs, blob
<1>2. header.mirroring \in Mirrorings
  BY <1>1, MemoryAssumption DEF Mirrorings
<1>3. get_mirroring \in Mirrorings
  <2>1. mapper.mirroring \in Mirrorings \cup {"None"}
    BY <1>1, MapperFields, Zenon
  <2> QED BY <1>2, <2>1 DEF get_mirroring, Mirrorings
<1>4. a \in Nat /\ a % SPACE = a
  <2>1. a \in Int /\ SPACE \in Nat \ {0} /\ 0 \in Int /\ a = SPACE * 0 + a /\ 0 <= a /\ a < SPACE
    BY Regions
  <2>2. a % SPACE = a
    BY <2>1, Quotient, Zenon
  <2> QED BY <2>1, <2>2
<1>5. CASE a < PATTERN
  <2> DEFINE half == 1 + (a \div HALF)
  <2>1. /\ half \in {1, 2} /\ a % HALF \in 0 .. HALF - 1
        /\ Windows(mapper)[half] \in Nat
        /\ ~Doubled => ChrCell(a) = (Windows(mapper)[half] * HALF) + (a % HALF)
    <3>1. a \in 0 .. PATTERN - 1
      BY <1>5, Regions
    <3> QED BY <1>1, <3>1, MapperWindows, Zenon
  <2>2. Cell(a) = <<"chr", ChrCell(a)>>
    BY <1>4, <1>5 DEF Cell
  <2>3. Promise!Place(a) = <<"chr", (Windows(mapper)[half] * HALF) + (a % HALF)>>
    <3>1. ~(a >= PALETTE) /\ ~(a >= PATTERN)
      BY <1>4, <1>5, Regions
    <3> QED BY <3>1 DEF Promise!Place, Wired, HALF
  <2>4. ASSUME ~Doubled PROVE ChrCell(a) \in DOMAIN c.chr
    <3> DEFINE first == Windows(mapper)[half] * HALF
    <3>1. first .. first + HALF - 1 \subseteq DOMAIN c.chr
      BY <1>1, <2>1, CartridgeAssumption, Zenon
    <3>2. first \in Int /\ ChrCell(a) = first + (a % HALF)
      <4> HIDE DEF half
      <4> QED BY <2>1, <2>4, Regions
    <3> HIDE DEF first, half
    <3>3. ChrCell(a) \in first .. first + HALF - 1
      BY <2>1, <3>2, Regions
    <3> QED BY <3>1, <3>3
  <2>5. CASE Doubled
    BY <1>5, <2>2, <2>5
  <2>6. CASE ~Doubled
    <3> HIDE DEF half
    <3>1. Cell(a) = Promise!Place(a)
      BY <2>1, <2>2, <2>3, <2>6
    <3>2. InRange(Cell(a))
      BY <1>1, <2>2, <2>4, <2>6 DEF InRange, chips
    <3> QED BY <2>2, <3>1, <3>2
  <2> QED BY <2>5, <2>6
<1>6. CASE a >= PATTERN /\ a < PALETTE
  <2>1. Cell(a) = <<"nametables", mirror(a)>>
    BY <1>4, <1>6, Regions DEF Cell
  <2>2. Promise!Place(a) =
          <<"nametables",
            (Pages(get_mirroring)[1 + (((a - PATTERN) \div TABLE) % 4)] * TABLE) + (a % TABLE)>>
    BY <1>4, <1>6, Regions DEF Promise!Place, Wired, get_mirroring
  <2>3. /\ ~Upper =>
             mirror(a) = (Pages(get_mirroring)[1 + (((a - PATTERN) \div TABLE) % 4)] * TABLE)
                          + (a % TABLE)
        /\ mirror(a) \in 0 .. 2 * TABLE - 1
    BY <1>3, <1>4, MirrorPages, Zenon
  <2>4. Cell(a)[1] = "nametables" /\ Cell(a)[2] \in DOMAIN nametables
    BY <1>1, <2>1, <2>3
  <2>5. chips["nametables"] = nametables
    BY DEF chips
  <2>6. InRange(Cell(a))
    BY <2>4, <2>5 DEF InRange
  <2>7. CASE Upper
    BY <1>6, <2>4, <2>6, <2>7
  <2>8. CASE ~Upper
    <3>1. Cell(a) = Promise!Place(a)
      BY <2>1, <2>2, <2>3, <2>8, Zenon
    <3> QED BY <2>4, <2>6, <3>1
  <2> QED BY <2>7, <2>8
<1>7. CASE a >= PALETTE
  <2>1. Cell(a) = <<"palettes", mirror_palette(a)>>
    BY <1>4, <1>7, Regions DEF Cell
  <2>2. Promise!Place(a) = <<"palettes", Promise!Color((a - PALETTE) % COLORS)>>
    BY <1>7 DEF Promise!Place
  <2>3. /\ mirror_palette(a) = Promise!Color((a - PALETTE) % COLORS)
        /\ mirror_palette(a) \in 0 .. COLORS - 1
    BY <1>4, MirrorPalette, Zenon
  <2>4. Cell(a)[1] = "palettes" /\ Cell(a)[2] \in DOMAIN palettes
    BY <1>1, <2>1, <2>3
  <2>5. chips["palettes"] = palettes
    BY DEF chips
  <2> QED BY <2>1, <2>2, <2>3, <2>4, <2>5 DEF InRange
<1>8. a < PATTERN \/ (a >= PATTERN /\ a < PALETTE) \/ a >= PALETTE
  BY <1>4, Regions
<1> QED BY <1>5, <1>6, <1>7, <1>8, Zenon

LEMMA InitIInv == Init => IInv
<1> SUFFICES ASSUME Init PROVE IInv
  OBVIOUS
<1>1. PICK c \in Cartridges :
        /\ header = [mirroring |-> c.mirroring, ram |-> c.ram] /\ chr = c.chr
        /\ mapper \in Settings(c.id)
  BY DEF Init
<1>2. ~panicked /\ saved = <<>>
  BY DEF Init
<1>3. 0 \in Bytes /\ 0 \in 0 .. WORD - 1
  BY MemoryAssumption, Regions
<1>4. /\ nametables \in [0 .. 2 * TABLE - 1 -> Bytes]
      /\ palettes \in [0 .. COLORS - 1 -> Bytes]
      /\ ppu \in PpuType
  BY <1>3 DEF Init, PpuType
<1>5. chr \in [DOMAIN c.chr -> Bytes]
  BY <1>1, CartridgeAssumption
<1>6. blob \in Blobs(c)
  BY <1>1, <1>4, <1>5 DEF blob, Blobs
<1> QED BY <1>1, <1>2, <1>6 DEF IInv, PutIn

(* Where the pointer is, and where it goes.                                *)
LEMMA Pointer ==
  ASSUME ppu \in PpuType
  PROVE  /\ ppu.cur_address % SPACE \in 0 .. SPACE - 1
         /\ Advanced \in 0 .. WORD - 1
         /\ Stretch(ppu.increment) \in {1, ROW}
         /\ ppu.cur_address < SPACE =>
              /\ ppu.cur_address % SPACE = ppu.cur_address
              /\ Advanced % SPACE
                   = ((ppu.cur_address % SPACE) + Stretch(ppu.increment)) % SPACE
<1> DEFINE a == ppu.cur_address
           s == Stretch(ppu.increment)
<1>1. /\ a \in Int /\ 0 <= a /\ s \in {1, ROW} /\ s \in Int
      /\ SPACE \in Nat \ {0} /\ WORD \in Nat \ {0} /\ WORD % SPACE = 0
      /\ Advanced = (a + s) % WORD
  BY Regions, MemoryAssumption DEF PpuType, Stretch, Advanced
<1> HIDE DEF a, s
<1>2. a + s \in Int
  BY <1>1
<1>3. a % SPACE \in 0 .. SPACE - 1 /\ Advanced \in 0 .. WORD - 1
  BY <1>1, <1>2, Division, Zenon
<1>4. Advanced % SPACE = (a + s) % SPACE
  BY <1>1, <1>2, Coarser, Zenon
<1>5. ASSUME a < SPACE PROVE a % SPACE = a
  <2>1. a = SPACE * 0 + a /\ 0 \in Int
    BY <1>1
  <2> QED BY <1>1, <1>5, <2>1, Quotient, Zenon
<1> QED BY <1>1, <1>3, <1>4, <1>5 DEF a, s

-----------------------------------------------------------------------------
(* The step of each operation: the state stays one of the cartridge, and   *)
(* the memory takes the step it has promised.                              *)
LEMMA PointStep ==
  ASSUME NEW c \in Cartridges, PutIn(c), ~panicked, PointAt
  PROVE  PutIn(c)' /\ ~panicked' /\ Promise!Point
<1>1. PICK a \in Addresses : ppu' = [ppu EXCEPT !.cur_address = a]
  BY DEF PointAt
<1>2. ppu \in PpuType /\ a \in 0 .. WORD - 1
  BY MemoryAssumption DEF PutIn, Blobs, blob
<1>3. /\ ppu' \in PpuType /\ ppu'.increment = ppu.increment
      /\ ppu'.read_buffer = ppu.read_buffer
  BY <1>1, <1>2 DEF PpuType
<1>4. PutIn(c)' /\ ~panicked'
  BY <1>3 DEF PutIn, Blobs, blob, PointAt
<1>5. ppu'.cur_address % SPACE \in 0 .. SPACE - 1
  <2>1. ppu'.cur_address \in Int /\ SPACE \in Nat \ {0}
    BY <1>3, Regions DEF PpuType
  <2> QED BY <2>1, Division, Zenon
<1>6. UNCHANGED <<chips, Wired(mapper), header, saved, mapper>>
  BY DEF PointAt, chips, Wired, Windows
<1> QED BY <1>3, <1>4, <1>5, <1>6
    DEF Promise!Point, Promise!Silent, Promise!NoAnswer, Silent, NoAnswer, PointAt, Wired, Windows

LEMMA StrideStep ==
  ASSUME NEW c \in Cartridges, PutIn(c), ~panicked, WriteCtrl
  PROVE  PutIn(c)' /\ ~panicked' /\ Promise!Stride
<1>1. PICK down \in BOOLEAN : ppu' = [ppu EXCEPT !.increment = down]
  BY DEF WriteCtrl
<1>2. ppu \in PpuType
  BY DEF PutIn, Blobs, blob
<1>3. /\ ppu' \in PpuType /\ ppu'.cur_address = ppu.cur_address
      /\ ppu'.read_buffer = ppu.read_buffer /\ Stretch(ppu'.increment) \in {1, ROW}
  BY <1>1, <1>2 DEF PpuType, Stretch
<1>4. PutIn(c)' /\ ~panicked'
  BY <1>3 DEF PutIn, Blobs, blob, WriteCtrl
<1>5. UNCHANGED <<chips, Wired(mapper), header, saved, mapper>>
  BY DEF WriteCtrl, chips, Wired, Windows
<1> QED BY <1>3, <1>4, <1>5
    DEF Promise!Stride, Promise!Silent, Promise!NoAnswer, Silent, NoAnswer, WriteCtrl,
        Wired, Windows, Stretch

(* An access that misses its chip ends the program in a doubled window.    *)
LEMMA PanicStep ==
  ASSUME NEW c \in Cartridges, PutIn(c), Doubled, Panic, UNCHANGED saved
  PROVE  PutIn(c)' /\ (panicked => Doubled)'
<1>1. UNCHANGED <<machine, saved>>
  BY DEF Panic
<1>2. Doubled'
  BY <1>1 DEF Doubled, machine
<1>3. PutIn(c)'
  BY <1>1 DEF PutIn, machine, blob
<1> QED BY <1>2, <1>3

LEMMA WriteStep ==
  ASSUME NEW c \in Cartridges, PutIn(c), ~panicked, WriteData
  PROVE  PutIn(c)' /\ (panicked => Doubled)' /\ (Divergent \/ Promise!Write)
<1> DEFINE a == ppu.cur_address
           cell == Cell(a)
<1>1. PICK data \in Data : Put(data)
  BY DEF WriteData
<1>2. /\ ppu \in PpuType /\ data \in Bytes
      /\ chr \in [DOMAIN c.chr -> Bytes]
      /\ nametables \in [0 .. 2 * TABLE - 1 -> Bytes]
      /\ palettes \in [0 .. COLORS - 1 -> Bytes]
  BY MemoryAssumption DEF PutIn, Blobs, blob
<1>3. /\ a % SPACE = a /\ a \in 0 .. SPACE - 1
      /\ Advanced \in 0 .. WORD - 1
      /\ Advanced % SPACE = ((a % SPACE) + Stretch(ppu.increment)) % SPACE
  <2>1. a < SPACE
    BY DEF WriteData, Access
  <2> QED BY <1>2, <2>1, Pointer
<1>4. /\ cell[1] \in {"chr", "nametables", "palettes"}
      /\ InRange(cell) \/ (a < PATTERN /\ Doubled)
      /\ \/ cell = Promise!Place(a)
         \/ a < PATTERN /\ Doubled
         \/ a >= PATTERN /\ a < PALETTE /\ Upper
  BY <1>3, CellIsPlace, Zenon
<1>5. CASE ~InRange(cell)
  <2>1. a < PATTERN /\ Doubled
    BY <1>4, <1>5, Zenon
  <2>2. Panic /\ UNCHANGED saved
    BY <1>1, <1>5 DEF Put, WriteData
  <2>3. Divergent
    BY <2>1 DEF Divergent
  <2> QED BY <2>1, <2>2, <2>3, PanicStep, Zenon
<1>6. CASE InRange(cell)
  <2> HIDE DEF cell
  <2>1. /\ chr' = IF cell[1] = "chr" THEN [chr EXCEPT ![cell[2]] = data] ELSE chr
        /\ nametables' = IF cell[1] = "nametables"
                         THEN [nametables EXCEPT ![cell[2]] = data] ELSE nametables
        /\ palettes' = IF cell[1] = "palettes"
                       THEN [palettes EXCEPT ![cell[2]] = data] ELSE palettes
        /\ ppu' = [ppu EXCEPT !.cur_address = Advanced]
        /\ Silent /\ UNCHANGED <<header, mapper, panicked, saved>>
    BY <1>1, <1>6 DEF Put, WriteData, cell
  <2>2. /\ chr' \in [DOMAIN c.chr -> Bytes]
        /\ nametables' \in [0 .. 2 * TABLE - 1 -> Bytes]
        /\ palettes' \in [0 .. COLORS - 1 -> Bytes]
    BY <1>2, <2>1
  <2>3. /\ ppu' \in PpuType /\ ppu'.cur_address = Advanced
        /\ ppu'.increment = ppu.increment /\ ppu'.read_buffer = ppu.read_buffer
    BY <1>2, <1>3, <2>1 DEF PpuType
  <2>4. PutIn(c)' /\ (panicked => Doubled)'
    BY <2>1, <2>2, <2>3 DEF PutIn, Blobs, blob
  <2>5. ASSUME ~Divergent PROVE Promise!Write
    <3>1. cell = Promise!Place(a)
      BY <1>4, <2>5, Zenon DEF Divergent
    <3>2. a >= PATTERN \/ header.ram
      <4>1. a < PATTERN \/ a >= PATTERN
        BY <1>3, Regions
      <4> QED BY <2>5, <4>1, Zenon DEF Divergent
    <3>3. Promise!Writable
      BY <1>3, <3>2 DEF Promise!Writable, Wired
    <3>4. chips' = [chips EXCEPT ![cell[1]][cell[2]] = data]
      BY <1>4, <2>1 DEF chips
    <3>5. chips' = [chips EXCEPT ![Promise!Place(a % SPACE)[1]]
                                [Promise!Place(a % SPACE)[2]] = data]
      BY <1>3, <3>1, <3>4
    <3>6. Promise!Onward
      BY <1>3, <2>3 DEF Promise!Onward
    <3>7. Promise!Silent
      BY <2>1 DEF Promise!Silent, Promise!NoAnswer, Silent, NoAnswer
    <3>8. UNCHANGED <<Wired(mapper), Stretch(ppu.increment), ppu.read_buffer>>
      BY <2>1, <2>3 DEF Wired, Windows
    <3>9. \E b \in Bytes :
            chips' = [chips EXCEPT ![Promise!Place(a % SPACE)[1]]
                                  [Promise!Place(a % SPACE)[2]] = b]
      BY ONLY <1>2, <3>5
    <3>10. UNCHANGED <<header, saved>>
      BY <2>1
    <3>11. UNCHANGED [i \in DOMAIN saved |->
            [memory |-> [chr |-> saved[i].chr, nametables |-> saved[i].nametables,
                         palettes |-> saved[i].palettes],
             wiring |-> Wired(saved[i].mapper),
             pointer |-> saved[i].ppu.cur_address % SPACE,
             stride |-> Stretch(saved[i].ppu.increment),
             ahead |-> saved[i].ppu.read_buffer]]
      BY ONLY <3>10 DEF Wired, Windows
    <3> QED BY ONLY <3>3, <3>6, <3>7, <3>8, <3>9, <3>11 DEF Promise!Write
  <2> QED BY <2>4, <2>5
<1> QED BY <1>5, <1>6

LEMMA ReadStep ==
  ASSUME NEW c \in Cartridges, PutIn(c), ~panicked, ReadData
  PROVE  PutIn(c)' /\ (panicked => Doubled)' /\ (Divergent \/ Promise!Read)
<1> DEFINE a == ppu.cur_address
           cell == Cell(a)
           byte == chips[cell[1]][cell[2]]
<1>1. /\ ppu \in PpuType
      /\ chr \in [DOMAIN c.chr -> Bytes]
      /\ nametables \in [0 .. 2 * TABLE - 1 -> Bytes]
      /\ palettes \in [0 .. COLORS - 1 -> Bytes]
  BY DEF PutIn, Blobs, blob
<1>2. /\ a % SPACE = a /\ a \in 0 .. SPACE - 1
      /\ Advanced \in 0 .. WORD - 1
      /\ Advanced % SPACE = ((a % SPACE) + Stretch(ppu.increment)) % SPACE
  <2>1. a < SPACE
    BY DEF ReadData, Access
  <2> QED BY <1>1, <2>1, Pointer
<1>3. /\ cell[1] \in {"chr", "nametables", "palettes"}
      /\ InRange(cell) \/ (a < PATTERN /\ Doubled)
      /\ \/ cell = Promise!Place(a)
         \/ a < PATTERN /\ Doubled
         \/ a >= PATTERN /\ a < PALETTE /\ Upper
  BY <1>2, CellIsPlace, Zenon
<1>4. CASE ~InRange(cell)
  <2>1. a < PATTERN /\ Doubled
    BY <1>3, <1>4, Zenon
  <2>2. Panic /\ UNCHANGED saved
    BY <1>4 DEF Get, ReadData
  <2>3. Divergent
    BY <2>1 DEF Divergent
  <2> QED BY <2>1, <2>2, <2>3, PanicStep, Zenon
<1>5. CASE InRange(cell)
  <2>1. /\ answer' = Answer(byte)
        /\ ppu' = [ppu EXCEPT !.read_buffer = byte, !.cur_address = Advanced]
        /\ UNCHANGED <<header, mapper, chr, nametables, palettes, panicked, saved>>
    BY <1>5 DEF ReadData, Get
  <2> HIDE DEF cell
  <2>2. byte \in Bytes
    <3>1. CASE cell[1] = "chr"
      BY <1>1, <1>5, <3>1 DEF InRange, chips
    <3>2. CASE cell[1] = "nametables"
      BY <1>1, <1>5, <3>2 DEF InRange, chips
    <3>3. CASE cell[1] = "palettes"
      BY <1>1, <1>5, <3>3 DEF InRange, chips
    <3> QED BY <1>3, <3>1, <3>2, <3>3
  <2>3. ASSUME ~Divergent PROVE Promise!Here = byte
    <3>1. cell = Promise!Place(a)
      BY <1>3, <2>3, Zenon DEF Divergent
    <3> QED BY <1>2, <3>1 DEF Promise!Here
  <2> HIDE DEF byte
  <2>4. /\ ppu' \in PpuType /\ ppu'.cur_address = Advanced
        /\ ppu'.increment = ppu.increment /\ ppu'.read_buffer = byte
    BY <1>1, <1>2, <2>1, <2>2 DEF PpuType
  <2>5. PutIn(c)' /\ (panicked => Doubled)'
    BY <2>1, <2>4 DEF PutIn, Blobs, blob
  <2>6. IF a % SPACE >= PALETTE THEN answer' = byte ELSE answer' = ppu.read_buffer
    BY <1>2, <2>1 DEF Answer
  <2>7. UNCHANGED <<chips, Wired(mapper), Stretch(ppu.increment)>>
    BY <2>1, <2>4 DEF chips, Wired, Windows
  <2>8. Promise!Onward
    BY <1>2, <2>4 DEF Promise!Onward
  <2>9. ASSUME ~Divergent PROVE Promise!Read
    BY <2>1, <2>2, <2>3, <2>4, <2>6, <2>7, <2>8, <2>9 DEF Promise!Read, Wired, Windows
  <2> QED BY <2>5, <2>9
<1> QED BY <1>4, <1>5

(* Whatever a mapper is set to is a wiring.                                *)
Wires == [pages : [1 .. 4 -> {0, 1}], windows : [1 .. 2 -> Nat], ram : BOOLEAN]

LEMMA WiredWires ==
  ASSUME NEW c \in Cartridges, NEW m \in Settings(c.id), header.ram \in BOOLEAN
  PROVE  Wired(m) \in Wires
<1>1. m.chr_bank_0 \in Nat /\ m.chr_bank_1 \in Nat
  BY MapperFields
<1>2. \A w : Pages(w) \in [1 .. 4 -> {0, 1}]
  BY DEF Pages
<1>3. Windows(m) \in [1 .. 2 -> Nat]
  <2> DEFINE even == 2 * (m.chr_bank_0 \div 2)
  <2>1. /\ even \in Nat /\ even + 1 \in Nat
        /\ 2 * m.chr_bank_0 \in Nat /\ 2 * m.chr_bank_0 + 1 \in Nat
    BY <1>1
  <2>2. \/ Windows(m) = <<even, even + 1>>
        \/ Windows(m) = <<m.chr_bank_0, m.chr_bank_1>>
        \/ Windows(m) = <<2 * m.chr_bank_0, 2 * m.chr_bank_0 + 1>>
    BY DEF Windows
  <2> HIDE DEF even
  <2> QED BY <1>1, <2>1, <2>2
<1> QED BY <1>2, <1>3 DEF Wired, Wires

LEMMA RewireStep ==
  ASSUME NEW c \in Cartridges, PutIn(c), ~panicked, WriteMapper
  PROVE  PutIn(c)' /\ ~panicked' /\ Promise!Rewire
<1>1. mapper \in Settings(c.id)
  BY DEF PutIn, Blobs, blob
<1>2. mapper.id = c.id
  BY <1>1, MapperFields, Zenon
<1>3. /\ mapper' \in Settings(c.id) /\ Silent
      /\ UNCHANGED <<header, chr, nametables, palettes, ppu, saved, panicked>>
  BY <1>2 DEF WriteMapper
<1>4. PutIn(c)' /\ ~panicked'
  BY <1>3 DEF PutIn, Blobs, blob
<1>5. Wired(mapper)' \in Wires
  <2>1. header.ram \in BOOLEAN
    BY CartridgeAssumption DEF PutIn
  <2>2. Wired(mapper') \in Wires
    BY <1>3, <2>1, WiredWires, Zenon
  <2> QED BY <1>3, <2>2 DEF Wired
<1>6. UNCHANGED <<chips, ppu>> /\ Wired(mapper)'.ram = Wired(mapper).ram
  BY <1>3 DEF chips, Wired
<1> QED BY <1>3, <1>4, <1>5, <1>6
    DEF Promise!Rewire, Promise!Silent, Promise!NoAnswer, Silent, NoAnswer, Wires, Wired, Windows

LEMMA KeepStep ==
  ASSUME NEW c \in Cartridges, PutIn(c), ~panicked, SaveState
  PROVE  PutIn(c)' /\ ~panicked' /\ Promise!Keep
<1>1. saved' = <<blob>> /\ Silent /\ UNCHANGED <<machine, panicked>>
  BY DEF SaveState
<1>2. PutIn(c)' /\ ~panicked'
  BY <1>1 DEF PutIn, machine, blob
<1>3. UNCHANGED <<header, mapper, chips, ppu, Wired(mapper)>>
  BY <1>1 DEF machine, chips, Wired, Windows
<1>4. /\ DOMAIN saved' = {1} /\ saved'[1] = blob
  BY <1>1
<1> QED BY <1>1, <1>2, <1>3, <1>4
    DEF Promise!Keep, Promise!state, Promise!Silent, Promise!NoAnswer, Silent, NoAnswer,
        Wired, Windows, blob, chips, machine

LEMMA GoBackStep ==
  ASSUME NEW c \in Cartridges, PutIn(c), ~panicked, LoadState
  PROVE  PutIn(c)' /\ ~panicked' /\ Promise!GoBack
<1>1. PICK b \in Blobs(c) : saved = <<b>>
  BY DEF LoadState, PutIn
<1>2. /\ ppu' = b.ppu /\ nametables' = b.nametables /\ palettes' = b.palettes
      /\ chr' = b.chr /\ mapper' = b.mapper
      /\ Silent /\ UNCHANGED <<header, saved, panicked>>
  BY <1>1 DEF LoadState
<1>3. PutIn(c)' /\ ~panicked'
  BY <1>1, <1>2 DEF PutIn, Blobs, blob
<1>4. DOMAIN saved = {1} /\ saved[1] = b
  BY <1>1
<1> QED BY <1>1, <1>2, <1>3, <1>4
    DEF Promise!GoBack, Promise!state, Promise!Silent, Promise!NoAnswer, Silent, NoAnswer,
        Wired, Windows, chips

-----------------------------------------------------------------------------
(* The invariant and the refinement, step by step.                         *)
LEMMA StepKeepsPromise ==
  ASSUME IInv, [Next]_vars
  PROVE  /\ IInv'
         /\ \/ Divergent \/ Promise!Next
            \/ UNCHANGED <<chips, Wired(mapper), ppu, answer, saved, header>>
<1>1. PICK c \in Cartridges : PutIn(c)
  BY DEF IInv
<1>2. CASE PointAt
  BY <1>1, <1>2, PointStep, Zenon DEF IInv, Promise!Next, PointAt, Operation
<1>3. CASE WriteCtrl
  BY <1>1, <1>3, StrideStep, Zenon DEF IInv, Promise!Next, WriteCtrl, Operation
<1>4. CASE WriteData
  BY <1>1, <1>4, WriteStep, Zenon DEF IInv, Promise!Next, WriteData, Access, Operation
<1>5. CASE ReadData
  BY <1>1, <1>5, ReadStep, Zenon DEF IInv, Promise!Next, ReadData, Access, Operation
<1>6. CASE WriteMapper
  BY <1>1, <1>6, RewireStep, Zenon DEF IInv, Promise!Next, WriteMapper, Operation
<1>7. CASE SaveState
  BY <1>1, <1>7, KeepStep, Zenon DEF IInv, Promise!Next, SaveState, Operation
<1>8. CASE LoadState
  BY <1>1, <1>8, GoBackStep, Zenon DEF IInv, Promise!Next, LoadState, Operation
<1>9. CASE UNCHANGED vars
  BY <1>1, <1>9 DEF IInv, PutIn, blob, vars, machine, chips, Wired, Windows, Doubled
<1> QED BY <1>2, <1>3, <1>4, <1>5, <1>6, <1>7, <1>8, <1>9 DEF Next, Elsewhere

(* Every reachable state is one of a cartridge that is put in.             *)
THEOREM MemoryInvariant == Spec => []IInv
<1>1. IInv /\ [Next]_vars => IInv'
  BY StepKeepsPromise
<1> QED BY InitIInv, <1>1, PTL DEF Spec

(* The address, the buffer and the chips hold what they can hold, and no   *)
(* access of any program misses its chip (ppu.rs:671-727), but through a   *)
(* doubled window of mapper 1 (_001.rs:25).                                *)
THEOREM MemoryTypeCorrect == Spec => []TypeOK
<1>1. IInv => TypeOK
  <2> SUFFICES ASSUME IInv PROVE TypeOK
    OBVIOUS
  <2>1. PICK c \in Cartridges : PutIn(c)
    BY DEF IInv
  <2>2. mapper \in Settings(c.id)
    BY <2>1 DEF PutIn, Blobs, blob
  <2>3. mapper.mirroring \in Mirrorings \cup {"None"}
    BY <2>2, MapperFields, Zenon
  <2>4. /\ ppu \in PpuType /\ chr \in [DOMAIN chr -> Bytes]
        /\ nametables \in [0 .. 2 * TABLE - 1 -> Bytes]
        /\ palettes \in [0 .. COLORS - 1 -> Bytes]
    BY <2>1 DEF PutIn, Blobs, blob
  <2> QED BY <2>3, <2>4 DEF TypeOK, PpuType, IInv
<1> QED BY MemoryInvariant, <1>1, PTL

(* The memory behind $2007 keeps its promise, for every program and every  *)
(* cartridge that has the banks asked for, but for the accesses that are   *)
(* left out of it (doubled windows, writes to ROM, the upper screen): a    *)
(* byte is where it was written, under each of the addresses that share    *)
(* it, through changes of banks and mirroring and the loading of states,   *)
(* and a read answers what the pointer was at before.                      *)
THEOREM MemoryKeepsPromise == Spec => MemoryRefines
<1>1. Init => Promise!Init
  <2> SUFFICES ASSUME Init PROVE Promise!Init
    OBVIOUS
  <2>1. PICK c \in Cartridges :
          /\ header = [mirroring |-> c.mirroring, ram |-> c.ram]
          /\ mapper \in Settings(c.id)
    BY DEF Init
  <2>2. Wired(mapper) \in Wires
    <3>1. header.ram \in BOOLEAN
      BY <2>1, CartridgeAssumption
    <3> QED BY <2>1, <3>1, WiredWires, Zenon
  <2>3. 0 \in Bytes /\ 0 % SPACE = 0
    BY MemoryAssumption, Regions
  <2> QED BY <2>2, <2>3 DEF Init, Promise!Init, Promise!NoAnswer, NoAnswer, Wires, Stretch
<1>2. IInv /\ [Next]_vars => [Divergent \/ Promise!Step]_vars
  <2> SUFFICES ASSUME IInv, [Next]_vars PROVE Divergent \/ Promise!Step
    OBVIOUS
  <2>1. \/ Divergent \/ Promise!Next
        \/ UNCHANGED <<chips, Wired(mapper), ppu, answer, saved, header>>
    BY StepKeepsPromise, Zenon
  <2>2. CASE UNCHANGED <<chips, Wired(mapper), ppu, answer, saved, header>>
    BY <2>2 DEF Promise!Step, Wired, Windows, Stretch
  <2> QED BY <2>1, <2>2 DEF Promise!Step
<1> QED BY MemoryInvariant, <1>1, <1>2, PTL DEF Spec, MemoryRefines
=============================================================================
