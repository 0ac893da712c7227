----------------------------- MODULE PpuMemory -----------------------------
(***************************************************************************)
(* The memory of the PPU as a program reaches it through $2006 and $2007   *)
(* (backend/src/ppu/ppu.rs, read_vram and write_vram): pattern tables in   *)
(* the cartridge, by the banks of its mapper (cartridge/mapper), nametables *)
(* mirrored as the mapper or the header says, and the palette.  Rendering  *)
(* is off, so that nothing else moves the address.  A saved state can be   *)
(* made and loaded between any two steps.                                  *)
(*                                                                         *)
(* Of a mapper only what the PPU sees is kept: its banks of CHR, their     *)
(* size and the mirroring.  The five writes that load a register of mapper *)
(* 1 are one step here; Console has them one by one.                       *)
(***************************************************************************)
EXTENDS Integers

CONSTANTS
  PATTERN, TABLE, PALETTE, SPACE, WORD,  \* 2000, 400, 3F00, 4000, 10000 (hex)
  COLORS, GROUP, ROW,                    \* 32, 4, 32
  BANKS,        \* values of a bank register: 32, 4 for mappers 3 and 66
  Cartridges,   \* the cartridges put in: number of the mapper, mirroring, CHR
                \* and whether that is RAM, for want of any in the file
  Addresses,    \* what the program writes to $2006
  Banks, Sizes, Screens,   \* and to the registers of the mapper
  Bytes,        \* what memory holds
  Data,         \* what the program writes to $2007
  OPERATIONS, WRITES       \* bounds: what the program does; and one saved state

HALF == PATTERN \div 2

Mirrorings == {"OneScreenLower", "OneScreenUpper", "Horizontal", "Vertical"}
Mappers    == {0, 1, 2, 3, 7, 66}

ASSUME MemoryAssumption ==
  /\ {PATTERN, TABLE, PALETTE, SPACE, WORD, COLORS, GROUP, ROW, BANKS} \subseteq Nat
  /\ PATTERN = 2 * HALF /\ HALF > 0 /\ TABLE > 0
  /\ PATTERN % (4 * TABLE) = 0 /\ SPACE % (4 * TABLE) = 0
  /\ PATTERN + 4 * TABLE <= PALETTE /\ PALETTE < SPACE
  /\ WORD > 0 /\ WORD % SPACE = 0 /\ GROUP > 0
  /\ COLORS > 0 /\ COLORS % (2 * GROUP) = 0 /\ PALETTE % COLORS = 0
  /\ 0 \in Bytes /\ Data \subseteq Bytes
  /\ Addresses \subseteq 0 .. WORD - 1 /\ Banks \subseteq 0 .. BANKS - 1
  /\ Sizes \subseteq BOOLEAN /\ Screens \subseteq Mirrorings
  /\ \A c \in Cartridges : c.id \in Mappers /\ c.mirroring \in {"Horizontal", "Vertical"}

VARIABLES
  header,       \* of the cartridge: its mirroring, and whether its CHR is RAM
  mapper, chr, nametables, palettes,
  ppu,          \* cur_address, read_buffer and the increment of ctrl
  answer,       \* what this step has read, if it is a read
  saved,        \* the saved state, or none yet
  panicked,     \* an index was out of range
  operations, writes     \* history: how much of the bounds is used up

machine == <<header, mapper, chr, nametables, palettes, ppu>>
vars == <<machine, answer, saved, panicked, operations, writes>>

NoAnswer == -1
Silent == answer' = NoAnswer

(* The screens of mapper 7 are one or those of the header. *)
AxScreens == {"None", "OneScreenLower"}

(* What the program may have set a mapper to before it comes here.  At     *)
(* power-up banks are 0, those of mapper 1 are small and it has one screen. *)
Settings(id) ==
  [id : {id},
   chr_bank_0 : IF id \in {1, 3, 66} THEN Banks ELSE {0},
   chr_bank_1 : IF id = 1 THEN Banks ELSE {0},
   large      : IF id = 1 THEN Sizes ELSE {FALSE},
   mirroring  : CASE id = 1 -> Screens
                  [] id = 7 -> AxScreens
                  [] OTHER  -> {"None"}]

Init ==
  /\ \E c \in Cartridges :
       /\ header = [mirroring |-> c.mirroring, ram |-> c.ram] /\ chr = c.chr
       /\ mapper \in Settings(c.id)
  /\ nametables = [i \in 0 .. 2 * TABLE - 1 |-> 0]
  /\ palettes = [i \in 0 .. COLORS - 1 |-> 0]
  /\ ppu = [cur_address |-> 0, read_buffer |-> 0, increment |-> FALSE]
  /\ answer = NoAnswer /\ saved = <<>> /\ panicked = FALSE
  /\ operations = 0 /\ writes = 0

-----------------------------------------------------------------------------
(* Mappers: the cell of CHR an address stands for, and the mirroring.      *)
NoCell == -1

Window(bank, size, address) == (bank * size) + (address % size)

Mmc1(m, address) ==
  IF m.large THEN Window(2 * (m.chr_bank_0 \div 2), PATTERN, address)
  ELSE IF address < HALF THEN Window(m.chr_bank_0, HALF, address)
  ELSE IF address < PATTERN THEN Window(m.chr_bank_1, HALF, address)
  ELSE NoCell

Banked(m, address) == Window(m.chr_bank_0, PATTERN, address)

ChrCell(address) ==
  CASE mapper.id \in {0, 2, 7} -> address
    [] mapper.id \in {3, 66}   -> Banked(mapper, address)
    [] mapper.id = 1           -> Mmc1(mapper, address)

get_mirroring ==
  IF mapper.mirroring = "None" THEN header.mirroring ELSE mapper.mirroring

-----------------------------------------------------------------------------
(* Ppu::mirror and Ppu::mirror_palette, less the start of their regions.   *)
Quadrant(address) == (address % (4 * TABLE)) \div TABLE

Less(tables, address) ==
  (address % (4 * TABLE)) - tables[1 + Quadrant(address)] * TABLE

mirror_of_three(address) ==                                       \* mutant
  CASE get_mirroring = "Horizontal" -> Less(<<0, 1, 1, 1>>, address)
    [] get_mirroring = "Vertical"   -> Less(<<0, 0, 2, 2>>, address)
    [] OTHER                        -> address % TABLE

mirror(address) ==
  CASE get_mirroring = "Horizontal" -> Less(<<0, 1, 1, 2>>, address)
    [] get_mirroring = "Vertical"   -> Less(<<0, 0, 2, 2>>, address)
    [] OTHER                        -> address % TABLE

mirror_palette(address) ==
  IF address % GROUP = 0 THEN address % (COLORS \div 2) ELSE address % COLORS

(* The chip and the cell in it, for read_vram and write_vram. *)
Cell(address) ==
  LET a == address % SPACE
  IN  IF a < PATTERN THEN <<"chr", ChrCell(address)>>
      ELSE IF a < PALETTE THEN <<"nametables", mirror(address)>>
      ELSE <<"palettes", mirror_palette(address)>>

chips == [chr |-> chr, nametables |-> nametables, palettes |-> palettes]

InRange(cell) == cell[2] \in DOMAIN chips[cell[1]]

Advanced == (ppu.cur_address + IF ppu.increment THEN ROW ELSE 1) % WORD

-----------------------------------------------------------------------------
(* Registers.  A panic is the end of the program.                          *)
Operation == ~panicked /\ operations < OPERATIONS /\ operations' = operations + 1

PointAt ==                                                        \* $2006
  /\ \E a \in Addresses : ppu' = [ppu EXCEPT !.cur_address = a]
  /\ Operation /\ Silent
  /\ UNCHANGED <<header, mapper, chr, nametables, palettes, saved, panicked,
                 writes>>

WriteCtrl ==                                                      \* $2000
  /\ \E down \in BOOLEAN : ppu' = [ppu EXCEPT !.increment = down]
  /\ Operation /\ Silent
  /\ UNCHANGED <<header, mapper, chr, nametables, palettes, saved, panicked,
                 writes>>

(* Bound: a program does not run past the end of the space, where the      *)
(* address would have to wrap.                                             *)
Access == Operation /\ ppu.cur_address < SPACE

Panic ==
  /\ panicked' = TRUE /\ Silent
  /\ UNCHANGED machine

Put(data) ==
  LET cell == Cell(ppu.cur_address)
  IN  IF ~InRange(cell) THEN Panic
      ELSE /\ chr' = IF cell[1] = "chr" THEN [chr EXCEPT ![cell[2]] = data] ELSE chr
           /\ nametables' = IF cell[1] = "nametables"
                            THEN [nametables EXCEPT ![cell[2]] = data] ELSE nametables
           /\ palettes' = IF cell[1] = "palettes"
                          THEN [palettes EXCEPT ![cell[2]] = data] ELSE palettes
           /\ ppu' = [ppu EXCEPT !.cur_address = Advanced]
           /\ Silent /\ UNCHANGED <<header, mapper, panicked>>

WriteData ==                                                      \* $2007
  /\ Access /\ writes < WRITES /\ writes' = writes + 1
  /\ \E data \in Data : Put(data)
  /\ UNCHANGED saved

Answer_of_the_palette_late(byte) == ppu.read_buffer               \* mutant

Answer(byte) == IF ppu.cur_address >= PALETTE THEN byte ELSE ppu.read_buffer

Get ==
  LET cell == Cell(ppu.cur_address)
  IN  IF ~InRange(cell) THEN Panic
      ELSE LET byte == chips[cell[1]][cell[2]]
           IN  /\ answer' = Answer(byte)
               /\ ppu' = [ppu EXCEPT !.read_buffer = byte, !.cur_address = Advanced]
               /\ UNCHANGED <<header, mapper, chr, nametables, palettes, panicked>>

ReadData ==                                                       \* $2007
  /\ Access /\ Get
  /\ UNCHANGED <<saved, writes>>

(* A register of the mapper: banks of CHR for 1, 3 and 66, control for 1,  *)
(* the mirroring for 7.                                                    *)
WriteMapper ==
  /\ Operation /\ Silent
  /\ mapper' \in Settings(mapper.id)
  /\ \E r \in {{"chr_bank_0"}, {"chr_bank_1"}, {"large", "mirroring"}} :
       \A f \in DOMAIN mapper \ r : mapper'[f] = mapper[f]
  /\ UNCHANGED <<header, chr, nametables, palettes, ppu, saved, panicked, writes>>

-----------------------------------------------------------------------------
(* Saved states.                                                           *)
blob == [ppu |-> ppu, nametables |-> nametables, palettes |-> palettes,
         chr |-> chr, mapper |-> mapper]

SaveState ==
  /\ Operation /\ saved = <<>> /\ saved' = <<blob>>
  /\ Silent /\ UNCHANGED <<machine, panicked, writes>>

LoadState ==
  /\ saved # <<>> /\ Operation
  /\ ppu' = saved[1].ppu /\ nametables' = saved[1].nametables
  /\ palettes' = saved[1].palettes /\ chr' = saved[1].chr
  /\ mapper' = saved[1].mapper
  /\ Silent /\ UNCHANGED <<header, saved, panicked, writes>>

(* The program does something else. *)
Elsewhere == UNCHANGED vars

Next ==
  \/ PointAt \/ WriteCtrl \/ WriteData \/ ReadData \/ WriteMapper
  \/ SaveState \/ LoadState \/ Elsewhere

Spec == Init /\ [][Next]_vars

-----------------------------------------------------------------------------
(* The large window of mapper 1, of 8K: the code multiplies an even number *)
(* of a bank of 4K by 8K (_001.rs:25), so that all but the first one lie   *)
(* twice as far as they should, or behind the end of the chip.             *)
Doubled == mapper.id = 1 /\ mapper.large /\ mapper.chr_bank_0 > 1

(* Type invariant of the address, the buffer and the memory (ppu.rs:112-   *)
(* 150, _001.rs:7-13), and no access has missed its chip but through a     *)
(* doubled window.                                                         *)
TypeOK ==
  /\ ppu.cur_address \in 0 .. WORD - 1
  /\ ppu.read_buffer \in Bytes /\ ppu.increment \in BOOLEAN
  /\ chr \in [DOMAIN chr -> Bytes]
  /\ nametables \in [0 .. 2 * TABLE - 1 -> Bytes]
  /\ palettes \in [0 .. COLORS - 1 -> Bytes]
  /\ mapper.mirroring \in Mirrorings \cup {"None"}
  /\ panicked => Doubled

(* The wiring that the registers of a mapper ask for, banks counted in     *)
(* halves, 4K: the two of mapper 1 are numbers of such banks, and a large  *)
(* one is an even and the next ("step[s] through all the PRG and CHR bank  *)
(* numbers in each window", holy-mapperel-bin-0.02/README.md:127-130);     *)
(* those of the other mappers are numbers of 8K.                           *)
Pages(mirroring) ==
  CASE mirroring = "Horizontal"     -> <<0, 0, 1, 1>>
    [] mirroring = "Vertical"       -> <<0, 1, 0, 1>>
    [] mirroring = "OneScreenUpper" -> <<1, 1, 1, 1>>
    [] OTHER                        -> <<0, 0, 0, 0>>

Windows(m) ==
  CASE m.id = 1 /\ m.large  -> LET even == 2 * (m.chr_bank_0 \div 2)
                               IN  <<even, even + 1>>
    [] m.id = 1 /\ ~m.large -> <<m.chr_bank_0, m.chr_bank_1>>
    [] m.id # 1             -> <<2 * m.chr_bank_0, 2 * m.chr_bank_0 + 1>>

(* Every cartridge has the banks that the program asks it for: the code    *)
(* does not reduce the number of a bank to those that there are.           *)
ASSUME CartridgeAssumption ==
  \A c \in Cartridges :
    /\ c.ram \in BOOLEAN /\ c.chr \in [DOMAIN c.chr -> Bytes]
    /\ \A m \in Settings(c.id), half \in {1, 2} :
         LET first == Windows(m)[half] * HALF
         IN  first .. first + HALF - 1 \subseteq DOMAIN c.chr

Wired(m) ==
  [pages |-> Pages(IF m.mirroring = "None" THEN header.mirroring ELSE m.mirroring),
   windows |-> Windows(m), ram |-> header.ram]

Stretch(increment) == IF increment THEN ROW ELSE 1

Promise == INSTANCE VideoMemory WITH
  Strides <- {1, ROW},
  Wirings <- [pages : [1 .. 4 -> {0, 1}], windows : [1 .. 2 -> Nat], ram : BOOLEAN],
  memory <- chips, wiring <- Wired(mapper),
  pointer <- ppu.cur_address % SPACE, stride <- Stretch(ppu.increment),
  ahead <- ppu.read_buffer,
  kept <- [i \in DOMAIN saved |->
    [memory |-> [chr |-> saved[i].chr, nametables |-> saved[i].nametables,
                 palettes |-> saved[i].palettes],
     wiring |-> Wired(saved[i].mapper),
     pointer |-> saved[i].ppu.cur_address % SPACE,
     stride |-> Stretch(saved[i].ppu.increment),
     ahead |-> saved[i].ppu.read_buffer]]

(* The accesses that the code does differently, and that are left out of   *)
(* the promise: through a doubled window; a write to CHR ROM, which "must  *)
(* not be writable" (ppu_read_buffer/readme.txt:509-512) and is, there     *)
(* being "No distinction" (cartridge.rs:71); and any to a nametable under  *)
(* "One screen (upper)" (mirroring.rs:16), for which ppu.rs:743 takes the  *)
(* lower one.                                                              *)
Upper == get_mirroring = "OneScreenUpper"

Divergent ==
  LET a == ppu.cur_address
  IN  \/ a < PATTERN /\ Doubled /\ (ReadData \/ WriteData)
      \/ a < PATTERN /\ ~header.ram /\ WriteData
      \/ a >= PATTERN /\ a < PALETTE /\ Upper /\ (ReadData \/ WriteData)

(* But for these, the memory keeps its promise (ppu.rs:593-606, 671-765),  *)
(* before and after them: whatever the mapper is set to between two        *)
(* accesses, and whichever state is loaded, a byte is where it was         *)
(* written, under each of the addresses that share it, and a read answers  *)
(* what the pointer was at one read before.                                *)
MemoryRefines == Promise!Init /\ [][Divergent \/ Promise!Step]_vars
=============================================================================
