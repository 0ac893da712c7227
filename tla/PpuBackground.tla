--------------------------- MODULE PpuBackground ---------------------------
(***************************************************************************)
(* The background of the picture (backend/src/ppu/ppu.rs): how the scroll  *)
(* registers travel through the two address registers, the fetches and the *)
(* shift registers to the pixels, dot by dot, under a program that writes  *)
(* the registers in mid-frame.  The data of a tile is abstracted to where  *)
(* it was fetched from.  Sprites are not part of it.                       *)
(*                                                                         *)
(* A line has its pixels in the dots 1 .. WIDTH (256), reloads the         *)
(* horizontal position at the next dot and fetches the first two tiles of  *)
(* the next line from dot PREFETCH (321) on; the vertical position is      *)
(* reloaded in the dots of RELOAD (280 .. 304) of the pre-render line.     *)
(***************************************************************************)
EXTENDS PpuUnit, PpuAddress, Sequences

CONSTANTS
  ATTRIBUTE, LOW, HIGH,  \* dots of a tile's fetches after the first: 3, 5, 7
  PREFETCH, RELOAD,
  Moments,               \* bound: raster positions each register is used at
  Tables,                \* bound: bits 0 and 1 of data of $2000
  Masks,                 \* bound: bits 3 and 4 of data of $2001
  ScrollXs, ScrollYs,    \* bound: data of $2005
  AddressBytes,          \* bound: data of $2006
  UPLOADS                \* bound: addresses $2007 is used at

WIDTH  == COLS * TILE
HEIGHT == ROWS * TILE

ASSUME BackgroundAssumption ==
  /\ HEIGHT < VBLANK /\ {ATTRIBUTE, LOW, HIGH} \subseteq 1 .. TILE - 1
  /\ PREFETCH \in Nat /\ WIDTH < PREFETCH /\ PREFETCH % TILE = 1
  /\ PREFETCH + 2 * TILE - 1 <= LAST_DOT
  /\ RELOAD \subseteq WIDTH + 2 .. PREFETCH - 1 /\ RELOAD # {}
  /\ Tables \subseteq {0, 1} \X {0, 1} /\ Masks \subseteq BOOLEAN \X BOOLEAN
  /\ ScrollXs \subseteq 0 .. WIDTH - 1
  /\ ScrollYs \subseteq 0 .. COARSE_Y * TILE - 1 /\ AddressBytes \subseteq Nat

VARIABLES
  raster,        \* dot, scanline, mask, write_latch ... (PpuUnit)
  foreground,    \* bit 4 of mask
  cur_address, tmp_address, scroll_x_fine,
  latches,       \* pattern_tile_id, palette_latch, pattern_latch_lo and _hi
  shift,         \* the shift registers, as one cell for each bit
  pixel,         \* the cell the last dot drew, or Blank
  asked,         \* history: the position in the picture the program asks for
  camera,        \* history: the position taken over from it
  steady         \* history: the picture is undisturbed since the pre-render line

addresses == <<cur_address, tmp_address, scroll_x_fine>>
pipeline  == <<latches, shift, pixel>>
vars == <<raster, foreground, addresses, pipeline, asked, camera, steady>>

Nowhere == [tile |-> 0 - 1, row |-> 0]
Blank   == [low |-> Nowhere, high |-> Nowhere, palette |-> 0 - 1, column |-> 0]

Init ==
  /\ raster = NewPpu /\ foreground = FALSE
  /\ cur_address = 0 /\ tmp_address = 0 /\ scroll_x_fine = 0
  /\ latches = [name |-> 0 - 1, palette |-> 0 - 1, low |-> Nowhere, high |-> Nowhere]
  /\ shift = [i \in 1 .. 2 * TILE |-> Blank] /\ pixel = Blank
  /\ asked = [column |-> 0, y |-> 0, right |-> 0, lower |-> 0]
  /\ camera = [column |-> 0, row |-> 0] /\ steady = FALSE

-----------------------------------------------------------------------------
(* One dot. *)
dot == raster.dot

Rendering   == raster.background \/ foreground
Visible     == raster.scanline < HEIGHT
PreRender   == raster.scanline = PRERENDER
FetchesTile == (Visible \/ PreRender)
               /\ dot \in 1 .. WIDTH \cup PREFETCH .. PREFETCH + 2 * TILE - 1

Shifted == IF raster.background THEN Append(Tail(shift), Blank) ELSE shift

Loaded(cells) ==
  [i \in 1 .. 2 * TILE |->
     IF i <= TILE THEN cells[i]
     ELSE [low |-> latches.low, high |-> latches.high,
           palette |-> latches.palette, column |-> i - TILE - 1]]

ShiftAfter == IF ~FetchesTile THEN shift
              ELSE IF dot % TILE = 1 THEN Loaded(Shifted) ELSE Shifted

(* background_fetch reads the name, then the palette, then the pattern. *)
LatchesAfter ==
  LET phase   == IF FetchesTile THEN dot % TILE ELSE 0
      name    == IF phase = 1 THEN NameTableByte(cur_address) ELSE latches.name
      pattern == [tile |-> name, row |-> FineY(cur_address)]
  IN  [ name    |-> name,
        palette |-> IF phase = ATTRIBUTE THEN NameTableByte(cur_address)
                    ELSE latches.palette,
        low     |-> IF phase = LOW THEN pattern ELSE latches.low,
        high    |-> IF phase = HIGH THEN pattern ELSE latches.high ]

Draws == Visible /\ dot \in 1 .. WIDTH

(* draw_pixel: the bit 7 - scroll_x_fine of the high byte. *)
PixelAfter == IF Draws /\ raster.background
              THEN ShiftAfter[1 + scroll_x_fine] ELSE Blank

OnX == FetchesTile /\ dot % TILE = 0
OnY == (Visible \/ PreRender) /\ dot = WIDTH
ReloadsX == (Visible \/ PreRender) /\ dot = WIDTH + 1 /\ Rendering
ReloadsY == PreRender /\ dot \in RELOAD /\ Rendering

AddressAfter_always_moving ==                                     \* mutant
  LET x == IF OnX THEN x_increment(cur_address) ELSE cur_address
  IN  IF OnY /\ Rendering THEN y_increment(x)
      ELSE IF ReloadsX THEN x_reload(x, tmp_address)
      ELSE IF ReloadsY THEN y_reload(x, tmp_address) ELSE x

AddressAfter ==
  LET x == IF OnX /\ Rendering THEN x_increment(cur_address) ELSE cur_address
  IN  IF OnY /\ Rendering THEN y_increment(x)
      ELSE IF ReloadsX THEN x_reload(x, tmp_address)
      ELSE IF ReloadsY THEN y_reload(x, tmp_address) ELSE x

(* Where the program wants the picture's left edge and top line. *)
AskedColumn == (asked.right * COLS + asked.column) * TILE
AskedRow    == asked.lower * HEIGHT + asked.y

Dot ==
  /\ raster' = ppu_cycle(raster)
  /\ shift' = ShiftAfter /\ latches' = LatchesAfter /\ pixel' = PixelAfter
  /\ cur_address' = AddressAfter
  /\ camera' = [column |-> IF ReloadsX THEN AskedColumn ELSE camera.column,
                row    |-> IF ReloadsY THEN AskedRow ELSE camera.row]
  /\ steady' = IF PreRender /\ dot = WIDTH + 1 THEN raster.background
               ELSE steady /\ (ReloadsY => asked.y < HEIGHT)
  /\ UNCHANGED <<foreground, tmp_address, scroll_x_fine, asked>>

-----------------------------------------------------------------------------
(* The program, between two dots. *)
Uses(register) == /\ <<raster.scanline, dot>> \in Moments[register]
                  /\ UNCHANGED <<pipeline, camera>>

WritePpuCtrl == \E table \in Tables :
  /\ Uses("ctrl")
  /\ tmp_address' = SelectTable(tmp_address, table[1], table[2])
  /\ asked' = [asked EXCEPT !.right = table[1], !.lower = table[2]]
  /\ UNCHANGED <<raster, foreground, cur_address, scroll_x_fine, steady>>

WritePpuMask == \E mask \in Masks :
  /\ Uses("mask")
  /\ raster' = write_ppumask(raster, mask[1]) /\ foreground' = mask[2]
  /\ steady' = FALSE
  /\ UNCHANGED <<addresses, asked>>

WriteScrollX == \E data \in ScrollXs :
  /\ Uses("scroll") /\ ~raster.write_latch
  /\ tmp_address' = ScrollX(tmp_address, data) /\ scroll_x_fine' = data % TILE
  /\ raster' = write_twice(raster)
  /\ asked' = [asked EXCEPT !.column = data \div TILE]
  /\ UNCHANGED <<foreground, cur_address, steady>>

WriteScrollY == \E data \in ScrollYs :
  /\ Uses("scroll") /\ raster.write_latch
  /\ tmp_address' = ScrollY(tmp_address, data)
  /\ raster' = write_twice(raster)
  /\ asked' = [asked EXCEPT !.y = data]
  /\ UNCHANGED <<foreground, cur_address, scroll_x_fine, steady>>

(* The position an address stands for. *)
AsPosition(t) ==
  [column |-> CoarseX(t), y |-> CoarseY(t) * TILE + FineY(t),
   right |-> Right(t), lower |-> Lower(t)]

WriteAddressHigh == \E data \in AddressBytes :
  /\ Uses("address") /\ ~raster.write_latch
  /\ tmp_address' = HighByte(tmp_address, data)
  /\ raster' = write_twice(raster) /\ asked' = AsPosition(tmp_address')
  /\ UNCHANGED <<foreground, cur_address, scroll_x_fine, steady>>

WriteAddressLow == \E data \in AddressBytes :
  /\ Uses("address") /\ raster.write_latch
  /\ tmp_address' = LowByte(tmp_address, data) /\ cur_address' = tmp_address'
  /\ raster' = write_twice(raster) /\ asked' = AsPosition(tmp_address')
  /\ steady' = FALSE
  /\ UNCHANGED <<foreground, scroll_x_fine>>

ReadPpuStatus ==
  /\ Uses("status")
  /\ raster' = read_ppustatus(raster)
  /\ UNCHANGED <<foreground, addresses, asked, steady>>

AccessData == \E step \in {1, RowUnit} :
  /\ Uses("data") /\ cur_address \in UPLOADS
  /\ cur_address' = Stepped(cur_address, step)
  /\ steady' = FALSE
  /\ UNCHANGED <<raster, foreground, tmp_address, scroll_x_fine, asked>>

Program == WritePpuCtrl \/ WritePpuMask \/ WriteScrollX \/ WriteScrollY
           \/ WriteAddressHigh \/ WriteAddressLow \/ ReadPpuStatus \/ AccessData

Next == Dot \/ Program

Spec == Init /\ [][Next]_vars

-----------------------------------------------------------------------------
(* The picture shows what the program asked for (ppu.rs:164-242, 437-500,  *)
(* 505-557 and 645-657).  In an undisturbed frame the pixel of a dot comes *)
(* from the row taken over in the pre-render line plus the line's number,  *)
(* and from the column taken over at the end of the line before plus the   *)
(* fine scroll and the pixel's number, around the four nametables; name,   *)
(* palette and both bits of the pattern come from one tile.  The tiles of  *)
(* a scroll written in mid-frame move the lines to come sideways, never    *)
(* this one, and nothing up or down before the next frame; its fine part   *)
(* (the low bits of the first $2005 write) acts at once.  That the left    *)
(* columns can be masked (ppu.rs:36) is outside this module.               *)
ExpectedColumn == (camera.column + scroll_x_fine + dot - 1) % (2 * WIDTH)
ExpectedRow    == (camera.row + raster.scanline) % (2 * HEIGHT)

ExpectedTile ==
  LET column == ExpectedColumn \div TILE
      row    == ExpectedRow \div TILE
  IN  (column % COLS) + (column \div COLS) * NameX
      + (row % ROWS) * RowUnit + (row \div ROWS) * NameY

Expected ==
  LET at == [tile |-> ExpectedTile, row |-> ExpectedRow % TILE]
  IN  [low |-> at, high |-> at, palette |-> at.tile, column |-> ExpectedColumn % TILE]

ShowsThePicture == [][steady /\ Draws /\ raster'.dot # dot => pixel' = Expected]_vars

(* What the program uploads through $2007 goes where it says: outside the  *)
(* lines that fetch, and anywhere while rendering is off, no dot moves the *)
(* address (ppu.rs:194-206, 506 and 532).                                  *)
Quiet == raster.scanline \in HEIGHT .. PRERENDER - 1 \/ ~Rendering

UploadsInOrder == [][Quiet /\ raster'.dot # dot => UNCHANGED cur_address]_vars
=============================================================================
