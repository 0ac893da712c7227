----------------------------- MODULE PpuAddress -----------------------------
(***************************************************************************)
(* The address registers of the PPU (backend/src/ppu/ppu.rs, cur_address   *)
(* and tmp_address).  Seen as a place in the background an address is, from *)
(* its low end, a tile column, a tile row, the two nametable bits, a pixel *)
(* row and an unused bit: 5, 5, 1, 1, 3 and 1 bits in the program.  A       *)
(* nametable has COLS columns (32) of ROWS rows (30); the row field holds   *)
(* COARSE_Y values (32), the last of which are the attribute table.         *)
(***************************************************************************)
EXTENDS Integers

CONSTANTS TILE, COLS, ROWS, COARSE_Y,
          LOW_BYTE   \* what the low byte of an address holds: 256

ASSUME AddressAssumption ==
  /\ TILE \in Nat \ {0, 1} /\ COLS \in Nat \ {0} /\ ROWS \in Nat \ {0}
  /\ COARSE_Y \in Nat /\ ROWS < COARSE_Y
  /\ LOW_BYTE \in Nat \ {0}

(* The weight of each field. *)
RowUnit  == COLS
NameX    == COLS * COARSE_Y
NameY    == 2 * NameX
FineUnit == 2 * NameY
WORD     == 2 * TILE * FineUnit

CoarseX(v) == v % COLS
CoarseY(v) == (v \div RowUnit) % COARSE_Y
Right(v)   == (v \div NameX) % 2
Lower(v)   == (v \div NameY) % 2
FineY(v)   == (v \div FineUnit) % TILE

(* The byte of the nametable an address stands for. *)
NameTableByte(v) == v % FineUnit

HorizontalPart(v) == CoarseX(v) + Right(v) * NameX
VerticalPart(v)   == CoarseY(v) * RowUnit + Lower(v) * NameY + FineY(v) * FineUnit

FlipX(v) == IF Right(v) = 0 THEN v + NameX ELSE v - NameX
FlipY(v) == IF Lower(v) = 0 THEN v + NameY ELSE v - NameY

-----------------------------------------------------------------------------
(* Moving through the picture. *)
x_increment(v) == IF CoarseX(v) < COLS - 1 THEN v + 1 ELSE FlipX(v - CoarseX(v))

y_increment_all_rows(v) ==                                        \* mutant
  IF FineY(v) < TILE - 1 THEN v + FineUnit
  ELSE LET top == v - FineY(v) * FineUnit
           edge == top - CoarseY(v) * RowUnit
       IN  IF CoarseY(v) < COARSE_Y - 1 THEN top + RowUnit ELSE FlipY(edge)

y_increment(v) ==
  IF FineY(v) < TILE - 1 THEN v + FineUnit
  ELSE LET top == v - FineY(v) * FineUnit
           edge == top - CoarseY(v) * RowUnit
       IN  IF CoarseY(v) < ROWS - 1 THEN top + RowUnit
           ELSE IF CoarseY(v) # COARSE_Y - 1 THEN FlipY(edge) ELSE edge

x_reload(v, t) == v - HorizontalPart(v) + HorizontalPart(t)
y_reload(v, t) == v - VerticalPart(v) + VerticalPart(t)

(* Access to $2007 moves on by one byte or by one row. *)
Stepped(v, step) == (v + step) % WORD

-----------------------------------------------------------------------------
(* Writes to the registers. *)
SelectTable(t, right, lower) ==                                   \* $2000
  t - Right(t) * NameX - Lower(t) * NameY + right * NameX + lower * NameY

ScrollX(t, data) == t - CoarseX(t) + data \div TILE               \* $2005
ScrollY(t, data) ==
  t - CoarseY(t) * RowUnit - FineY(t) * FineUnit
    + (data \div TILE) * RowUnit + (data % TILE) * FineUnit

HighByte(t, data) == (t % LOW_BYTE) + data * LOW_BYTE             \* $2006
LowByte(t, data)  == t - (t % LOW_BYTE) + data
=============================================================================
