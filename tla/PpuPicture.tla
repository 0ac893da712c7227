----------------------------- MODULE PpuPicture -----------------------------
(***************************************************************************)
(* The picture (backend/src/ppu/ppu.rs): the background of PpuBackground   *)
(* with the sprites over it.  On every visible line the PPU copies the     *)
(* sprites of the line into the slots of secondary OAM, fetches them into  *)
(* shift registers at the end of the line, and draws them on the next one. *)
(*                                                                         *)
(* A pixel of a pattern is abstracted to its place, <<table, tile, row,    *)
(* column>>; Solid and Ground say which ones are opaque.  Both bytes of a  *)
(* pattern are fetched at one dot, and secondary OAM is written whole      *)
(* sprites at a time.                                                      *)
(***************************************************************************)
EXTENDS PpuBackground, FiniteSets

CONSTANTS
  CLEAR,      \* for each slot, the dot that empties it: 2, 10, ... 58
  RESTART,    \* the dot that starts the evaluation: 65
  EVALUATE,   \* the dots that examine a sprite: the even ones of 66 .. 256
  FETCH,      \* for each slot, the dot that fills its registers: 263 .. 319
  Solid,      \* the opaque places of the patterns of sprites
  Ground,     \* the opaque places of the background, <<tile, row, column>>
  Scenes      \* bound: what the program loads into OAM and the registers

Slots == DOMAIN CLEAR
SLOTS == Len(CLEAR)           \* 8

OAM == CHOOSE n \in {Len(s.sprites) : s \in Scenes} : TRUE     \* sprites: 64

Empty == <<>>
Transparent == <<>>

ASSUME PictureAssumption ==
  /\ CLEAR \in Seq(1 .. RESTART - 1)
  /\ FETCH \in Seq(WIDTH + 1 .. PREFETCH - 1) /\ Len(FETCH) = SLOTS
  /\ RESTART \in 1 .. WIDTH /\ EVALUATE \subseteq RESTART + 1 .. WIDTH
  /\ Transparent \notin Solid /\ ROWS > 1

ASSUME SceneAssumption ==
  /\ OAM \in 1 .. Cardinality(EVALUATE)
  /\ \A s \in Scenes : /\ Len(s.sprites) = OAM
                        /\ \A i \in 1 .. OAM : s.sprites[i].x \in Nat /\ s.sprites[i].y \in Nat
  /\ \A m \in Moments["oam"] : m[1] \in HEIGHT .. PRERENDER - 1   \* in the blank

VARIABLES
  scene,      \* oam, and of ctrl and mask: SpriteHeight, Sprite, the left bits
  sprites,    \* secondary OAM, its evaluation, the registers and the flags
  front,      \* the pixel of a sprite at the last dot, or Transparent
  scrolls     \* bound: the program scrolls, or else it has sprites

NoSprite == [cells |-> [i \in 1 .. TILE |-> Transparent], offset |-> 0,
             palette |-> 0, behind |-> FALSE, zero |-> FALSE]

(* Ppu::new: OAM is all zeros. *)
PowerOn(count) ==
  [sprites |-> [i \in 1 .. count |->
     [y |-> 0, tile |-> 0, x |-> 0, palette |-> 0, behind |-> FALSE,
      flip_x |-> FALSE, flip_y |-> FALSE]],
   tall |-> FALSE, table |-> 0, left |-> FALSE]

NewSprites ==
  [secondary |-> [i \in Slots |-> Empty], found |-> 0, index |-> 0, past |-> FALSE,
   registers |-> [i \in Slots |-> NoSprite], overflow |-> FALSE, hit |-> FALSE]

PictureInit ==
  /\ Init /\ scene = PowerOn(OAM) /\ sprites = NewSprites
  /\ front = [cell |-> Transparent, palette |-> 0, behind |-> FALSE]
  /\ scrolls \in BOOLEAN

-----------------------------------------------------------------------------
(* sprite_evaluation: the sprites of this line, for the next one.          *)
Height == IF scene.tall THEN 2 * TILE ELSE TILE

OnLine(sprite, line) == sprite.y <= line /\ line < sprite.y + Height

Found == /\ ~sprites.past
         /\ OnLine(scene.sprites[sprites.index + 1], raster.scanline)

Entry == [sprite |-> scene.sprites[sprites.index + 1], zero |-> sprites.index = 0]

(* With the flag up and the slots full, the code advances one byte more; a *)
(* position that makes no difference before the next line starts over.     *)
Examined ==
  LET next == (sprites.index + 1) % OAM
  IN  [sprites EXCEPT
         !.index = next, !.past = @ \/ next = 0,
         !.secondary = IF Found /\ sprites.found < SLOTS
                       THEN [@ EXCEPT ![sprites.found + 1] = Entry] ELSE @,
         !.found = IF Found /\ @ < SLOTS THEN @ + 1 ELSE @,
         !.overflow = @ \/ (Found /\ sprites.found = SLOTS)]

sprite_evaluation_without_clearing ==                             \* mutant
  IF dot = RESTART
  THEN [sprites EXCEPT !.index = 0, !.found = 0, !.past = FALSE]
  ELSE IF dot \in EVALUATE THEN Examined ELSE sprites

sprite_evaluation ==
  IF dot = RESTART
  THEN [sprites EXCEPT !.index = 0, !.found = 0, !.past = FALSE]
  ELSE IF dot \in EVALUATE THEN Examined
  ELSE [sprites EXCEPT !.secondary =
          [i \in Slots |-> IF CLEAR[i] = dot THEN Empty ELSE @[i]]]

-----------------------------------------------------------------------------
(* sprite_fetch.  A tall sprite has its table in bit 0 of the tile, and    *)
(* its lower half in the tile behind; flipped, each half is for itself.    *)
Pattern(sprite, line) ==
  LET down == line - sprite.y
      row  == IF sprite.flip_y THEN TILE - 1 - (down % TILE) ELSE down % TILE
      tile == IF scene.tall THEN sprite.tile - (sprite.tile % 2) + down \div TILE
              ELSE sprite.tile
      table == IF scene.tall THEN sprite.tile % 2 ELSE scene.table
  IN  [i \in 1 .. TILE |->
         <<table, tile, row, IF sprite.flip_x THEN TILE - i ELSE i - 1>>]

Loading(entry) ==
  [cells |-> Pattern(entry.sprite, raster.scanline), offset |-> entry.sprite.x,
   palette |-> entry.sprite.palette, behind |-> entry.sprite.behind,
   zero |-> entry.zero]

sprite_fetch ==
  [sprites EXCEPT !.registers =
     [i \in Slots |-> IF FETCH[i] = dot /\ sprites.secondary[i] # Empty
                      THEN Loading(sprites.secondary[i]) ELSE @[i]]]

-----------------------------------------------------------------------------
(* draw_pixel.  Every register moves; of those that have come to their     *)
(* place the first opaque one is drawn.                                    *)
Moved(register) ==
  IF register.offset > 0 THEN [register EXCEPT !.offset = @ - 1]
  ELSE [register EXCEPT !.cells = Append(Tail(@), Transparent)]

Registers == IF Draws /\ foreground THEN [i \in Slots |-> Moved(sprites.registers[i])]
             ELSE sprites.registers

InPlace(i) == Registers[i].offset = 0
Opaque(i)  == InPlace(i) /\ Registers[i].cells[1] \in Solid

(* The slots the loop looks at: up to the first opaque one. *)
LookedAt == IF Draws /\ foreground
            THEN {i \in Slots : InPlace(i) /\ \A j \in 1 .. i - 1 : ~Opaque(j)} ELSE {}

FrontAfter ==
  IF \E i \in LookedAt : Opaque(i)
  THEN LET r == Registers[CHOOSE i \in LookedAt : Opaque(i)]
       IN  [cell |-> r.cells[1], palette |-> r.palette, behind |-> r.behind]
  ELSE [cell |-> Transparent, palette |-> 0, behind |-> FALSE]

OpaqueGround(p) == <<p.low.tile, p.low.row, p.column>> \in Ground

HitsNow ==
  /\ FrontAfter.cell # Transparent /\ OpaqueGround(PixelAfter)
  /\ \E i \in LookedAt : Registers[i].zero
  /\ dot < WIDTH - 1 /\ (dot > TILE \/ scene.left)

(* What the screen shows of a pixel of the background and one of a sprite. *)
Screen(back, fore) ==
  IF fore.cell # Transparent /\ ~(fore.behind /\ OpaqueGround(back))
  THEN <<"sprite", fore.cell, fore.palette>>
  ELSE IF OpaqueGround(back) THEN <<"ground", back>> ELSE <<"backdrop">>

-----------------------------------------------------------------------------
(* vblank_end lowers the flags and clears the shift registers.             *)
vblank_end_keeping_flags(s) ==                                    \* mutant
  [s EXCEPT !.registers =
     [i \in Slots |-> [@[i] EXCEPT !.cells = NoSprite.cells]]]

vblank_end(s) ==
  [s EXCEPT !.hit = FALSE, !.overflow = FALSE, !.registers =
     [i \in Slots |-> [@[i] EXCEPT !.cells = NoSprite.cells]]]

SpritesAfter ==
  IF Visible /\ FetchesTile
  THEN [sprite_evaluation EXCEPT !.registers = Registers, !.hit = @ \/ HitsNow]
  ELSE IF (Visible \/ PreRender) /\ dot \in WIDTH + 1 .. PREFETCH - 1 THEN sprite_fetch
  ELSE IF PreRender /\ dot = 1 THEN vblank_end(sprites) ELSE sprites

PictureDot == /\ Dot /\ sprites' = SpritesAfter /\ front' = FrontAfter
              /\ UNCHANGED <<scene, scrolls>>

(* The program, whose registers PpuBackground has, fills OAM in the blank. *)
PictureProgram == /\ IF scrolls THEN Program ELSE WritePpuMask
                  /\ UNCHANGED <<scene, sprites, front, scrolls>>

UploadSprites == /\ ~scrolls /\ Uses("oam") /\ scene = PowerOn(OAM) /\ scene' \in Scenes
                 /\ steady' = FALSE
                 /\ UNCHANGED <<raster, foreground, addresses, asked,
                                sprites, front, scrolls>>

PictureNext == PictureDot \/ PictureProgram \/ UploadSprites

PictureSpec == PictureInit /\ [][PictureNext]_<<vars, scene, sprites, front, scrolls>>

-----------------------------------------------------------------------------
(* The sprites of a line, in the order of OAM, and the first of them, which *)
(* are as many as there are slots.                                         *)
OnThisLine(line) == {i \in 1 .. OAM : OnLine(scene.sprites[i], line)}

Chosen(line) ==
  {i \in OnThisLine(line) : Cardinality(OnThisLine(line) \cap 1 .. i - 1) < SLOTS}

(* What a sprite has at a dot of a line, which is column dot - 1 of the    *)
(* screen: the sprite is one line below its y, and, all sprites alike,     *)
(* EARLY columns left of its x.  That offset is the code's own place: the  *)
(* sprite tests have it at x ("Sprite should hit left side of bg tile",    *)
(* tests/roms/ppu/ppu_sprite_hit/readme.txt:28).  So is the row of a tall  *)
(* sprite that is flipped.  What the properties say is about the order of  *)
(* sprites, their priority, their holes and what is left behind.           *)
EARLY == 1

CellAt(i) ==
  LET column == (dot - 1) - (scene.sprites[i].x - EARLY)
  IN  IF i \in Chosen(raster.scanline - 1) /\ column \in 0 .. TILE - 1
      THEN Pattern(scene.sprites[i], raster.scanline - 1)[column + 1] ELSE Transparent

Showing == {i \in 1 .. OAM : CellAt(i) \in Solid}

ExpectedFront ==
  IF Showing = {} THEN [cell |-> Transparent, palette |-> 0, behind |-> FALSE]
  ELSE LET i == CHOOSE i \in Showing : \A j \in Showing : i <= j
       IN  [cell |-> CellAt(i), palette |-> scene.sprites[i].palette,
            behind |-> scene.sprites[i].behind]

(* Sprites that end within the line; one that reaches the last line leaves *)
(* pixels to the first line of the next frame.                             *)
Tidy == \A i \in 1 .. OAM :
  LET s == scene.sprites[i]
  IN  s.x + TILE - 1 <= WIDTH /\ (OnLine(s, HEIGHT - 1) => raster.scanline > 0)

Drawing == steady /\ foreground /\ Tidy /\ Draws /\ raster'.dot # dot

(* The left columns of the screen, where the bits "Enable sprites on       *)
(* leftmost 8 pixels of screen" (ppu.rs:36-37) may be down: the code draws *)
(* there all the same.  left stands for both bits, on or off together.     *)
Clipped == dot <= TILE /\ ~scene.left

(* Every sprite keeps its place, in every line it takes, alone or among    *)
(* others (ppu.rs:326-500): of the first SLOTS of the line the first opaque *)
(* one in the order of OAM shows, a sprite behind shows where the          *)
(* background lets it, and nothing is left of the lines before, though a   *)
(* slot that stays empty keeps its registers.  Nothing is said of Clipped  *)
(* columns, where the code does not do what its bits are named for.        *)
SpritesShown ==
  [][Drawing /\ ~Clipped => Screen(pixel', front') = Screen(Expected, ExpectedFront)]_vars

(* What the flags tell (ppu.rs:349-369, 469-486 and 566-570).  Overflow: a *)
(* line of this frame, rendered from its start, had more sprites than      *)
(* slots.  It is said of Straight lines, where the sprite after the one    *)
(* that fills the slots is on the line too: on others the search of the    *)
(* hardware goes astray (ppu_sprite_overflow/readme.txt:54-63), and the    *)
(* code's does not.  Nor is it said of lines with rendering off, where the *)
(* flag "Shouldn't" be set (readme.txt:11) and the code sets it.           *)
Crowded == \E line \in 0 .. raster.scanline : Cardinality(OnThisLine(line)) > SLOTS

Straight ==
  \A line \in 0 .. raster.scanline : \A i \in OnThisLine(line) :
    Cardinality(OnThisLine(line) \cap 1 .. i) = SLOTS /\ i < OAM
      => i + 1 \in OnThisLine(line)

(* Hit: sprite zero meets the background, short of the right edge.  It     *)
(* comes up where they meet, and, where no other sprite shows, nowhere     *)
(* else.  With another one in front the code takes that one's pixel for    *)
(* sprite zero's (ppu.rs:462-464), which "Should always miss"              *)
(* (ppu_sprite_hit/readme.txt:16).  The column before the last is left     *)
(* open: the code counts it to the edge.                                   *)
Meeting == CellAt(1) \in Solid /\ OpaqueGround(Expected) /\ dot < WIDTH /\ ~Clipped

FlagsTell ==
  [][/\ Visible /\ dot = WIDTH + 1 /\ steady /\ Straight => (sprites.overflow <=> Crowded)
     /\ Drawing /\ Meeting /\ dot # WIDTH - 1 => sprites'.hit
     /\ Drawing /\ Showing \subseteq {1} /\ sprites'.hit => sprites.hit \/ Meeting]_vars
=============================================================================
