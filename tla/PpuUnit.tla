------------------------------ MODULE PpuUnit ------------------------------
(***************************************************************************)
(* The raster of the PPU (backend/src/ppu/ppu.rs): the dot and scanline    *)
(* counters, the parity of the frame, the vertical-blank flag and the      *)
(* register bits that act on them, as a record and one operator per        *)
(* method.  A scanline has dots 0 .. LAST_DOT (340 in the program), a      *)
(* frame scanlines 0 .. PRERENDER (261), and vertical blank starts at dot  *)
(* 1 of scanline VBLANK (241).  Pixels, scrolling and sprites are not      *)
(* part of the record.                                                     *)
(***************************************************************************)
EXTENDS Integers

CONSTANTS LAST_DOT, VBLANK, PRERENDER

ASSUME PpuAssumption ==
  /\ LAST_DOT \in Nat /\ LAST_DOT > 1
  /\ VBLANK \in Nat /\ PRERENDER \in Nat /\ VBLANK < PRERENDER

(* Ppu::new: the blank flag is up at power-on. *)
NewPpu ==
  [ dot         |-> 0,
    scanline    |-> 0,
    odd         |-> FALSE,     \* frame % 2 = 1
    vblank      |-> TRUE,      \* bit 7 of status
    nmi         |-> FALSE,     \* bit 7 of ctrl
    background  |-> FALSE,     \* bit 3 of mask
    write_latch |-> FALSE ]

PpuType ==
  [ dot : 0 .. LAST_DOT, scanline : 0 .. PRERENDER, odd : BOOLEAN,
    vblank : BOOLEAN, nmi : BOOLEAN, background : BOOLEAN,
    write_latch : BOOLEAN ]

AtVblankStart(p) == p.scanline = VBLANK /\ p.dot = 1
AtVblankEnd(p)   == p.scanline = PRERENDER /\ p.dot = 1

(* vblank_start asks the CPU for an NMI when ctrl enables it. *)
RaisesNmi(p) == AtVblankStart(p) /\ p.nmi

(* vblank_start and vblank_end, at their dots. *)
StatusAtDot(p) ==
  [p EXCEPT !.vblank = (@ \/ AtVblankStart(p)) /\ ~AtVblankEnd(p)]

EndsLine_one_late(p) == p.dot = LAST_DOT + 1                     \* mutant

EndsLine(p)  == p.dot = LAST_DOT
EndsFrame(p) == EndsLine(p) /\ p.scanline = PRERENDER

(* The frame that is starting is odd and its first dot is skipped. *)
SkipsDot(p) == EndsFrame(p) /\ p.background /\ ~p.odd

cycle_increment(p) ==
  [p EXCEPT
    !.dot      = IF SkipsDot(p) THEN 1 ELSE IF EndsLine(p) THEN 0 ELSE @ + 1,
    !.scanline = IF EndsFrame(p) THEN 0 ELSE IF EndsLine(p) THEN @ + 1 ELSE @,
    !.odd      = IF EndsFrame(p) THEN ~@ ELSE @]

ppu_cycle(p) == cycle_increment(StatusAtDot(p))

-----------------------------------------------------------------------------
(* The registers the program reaches the raster through. *)
write_ppuctrl(p, nmi)     == [p EXCEPT !.nmi = nmi]
write_ppumask(p, bg)      == [p EXCEPT !.background = bg]
write_twice(p)            == [p EXCEPT !.write_latch = ~@]
read_ppustatus(p)         == [p EXCEPT !.vblank = FALSE, !.write_latch = FALSE]
=============================================================================
