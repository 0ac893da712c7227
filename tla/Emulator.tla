------------------------------ MODULE Emulator ------------------------------
(***************************************************************************)
(* The cycle loop of the emulator (backend/src/emulator.rs, cycle): every  *)
(* step is one PPU dot, every third one also a CPU cycle, which either     *)
(* moves a sprite DMA on or runs the CPU, then clocks the APU, serves the  *)
(* DMC's memory reader and hands its interrupt to the CPU.                 *)
(*                                                                         *)
(* The CPU keeps what the loop turns on: the cycles its instruction has    *)
(* left, the single pending interrupt and the interrupt-disable flag.  An  *)
(* instruction is the number of cycles it takes and the one effect it has  *)
(* on the rest of the machine.  A byte of memory is named by its address,  *)
(* <<page, index>>, and a byte of sprite memory by where it came from.     *)
(***************************************************************************)
EXTENDS DmcUnit, PpuUnit

CONSTANTS
  INTERRUPT_LATENCY,   \* 7
  FETCH_STALL,         \* 4: CPU cycles a DMC fetch costs
  WORD,                \* 2^32: usize on wasm32
  PAGE,                \* 256: bytes of a page, and of sprite memory
  Pages,               \* pages the program copies to sprite memory
  InstructionCycles,   \* cycles an instruction takes
  Effects              \* effects the program's instructions have

ASSUME EmulatorAssumption ==
  /\ INTERRUPT_LATENCY \in Nat \ {0} /\ FETCH_STALL \in Nat
  /\ WORD \in Nat /\ WORD > INTERRUPT_LATENCY
  /\ PAGE \in Nat \ {0} /\ Pages \subseteq Nat
  /\ InstructionCycles \subseteq 1 .. WORD - 1
  /\ Effects \subseteq {"compute", "ppu_ctrl", "ppu_mask", "ppu_status",
                        "oam_addr", "oam_data", "oam_dma",
                        "dmc_ctrl", "dmc_sample", "apu_status"}

VARIABLES
  cpu,           \* cycles left, pending interrupt, I flag
  ppu,           \* the raster (PpuUnit)
  oam,           \* sprite memory and its address register
  dma,           \* the sprite DMA in progress, or NoDma
  dmc,           \* the delta modulation channel (DmcUnit)
  cpu_divider,   \* PPU dots since the last CPU cycle
  cpu_clock,     \* parity of cpu.clock.cycles
  entered,       \* history: the interrupt whose vector this step loaded
  stolen         \* history: CPU cycles the DMA in progress has taken

vars == <<cpu, ppu, oam, dma, dmc, cpu_divider, cpu_clock, entered, stolen>>

Interrupts == {"NMI", "IRQ", "RESET"}
None == "none"

OamAddresses == 0 .. PAGE - 1
Poked == <<0 - 1, 0>>                       \* a byte no DMA brought
MemoryBytes == (Pages \X OamAddresses) \cup {Poked}

NoDma == [active |-> FALSE, page |-> 0, wait |-> FALSE, count |-> 0,
          read_buffer |-> Poked]
NewDma_unaligned(page) == [NoDma EXCEPT !.active = TRUE, !.page = page] \* mutant

NewDma(page) == [NoDma EXCEPT !.active = TRUE, !.page = page, !.wait = TRUE]

(* Emulator::new: Cpu::new, then a reset. *)
Init ==
  /\ cpu = [cycles |-> 0, interrupt |-> "RESET", i_flag |-> FALSE]
  /\ ppu = NewPpu
  /\ oam = [address |-> 0, bytes |-> [i \in OamAddresses |-> Poked]]
  /\ dma = NoDma
  /\ dmc = NewDmc
  /\ cpu_divider = 0 /\ cpu_clock = 0
  /\ entered = None /\ stolen = 0

-----------------------------------------------------------------------------
interrupt_request(c, interrupt) == [c EXCEPT !.interrupt = interrupt]

(* `cycles -= 1` of Cpu::cycle: an unsigned word wraps below zero. *)
Spend_nothing(c) ==                                               \* mutant
  [c EXCEPT !.cycles = IF @ = 0 THEN WORD - 1 ELSE @]

Spend(c) == [c EXCEPT !.cycles = IF @ = 0 THEN WORD - 1 ELSE @ - 1]

(* saturating_add *)
Stall(cycles) ==
  IF cycles + FETCH_STALL < WORD THEN cycles + FETCH_STALL ELSE WORD - 1

write_oam_without_wrap(o, byte) ==                                \* mutant
  [address |-> o.address + 1, bytes |-> [o.bytes EXCEPT ![o.address] = byte]]

write_oam(o, byte) ==
  [address |-> IF o.address = PAGE - 1 THEN 0 ELSE o.address + 1,
   bytes   |-> [o.bytes EXCEPT ![o.address] = byte]]

(* The CPU as the PPU's dot leaves it. *)
CpuAfterDot == IF RaisesNmi(ppu) THEN interrupt_request(cpu, "NMI") ELSE cpu

(* A dot on which the CPU does not run. *)
DotOnly ==
  /\ cpu_divider < 2 /\ cpu_divider' = cpu_divider + 1
  /\ ppu' = ppu_cycle(ppu) /\ cpu' = CpuAfterDot /\ entered' = None
  /\ UNCHANGED <<oam, dma, dmc, cpu_clock, stolen>>

(* The DMC's part of a CPU cycle: a byte it wants is read and the          *)
(* interrupt of a finished sample takes the CPU's slot, once.              *)
Served_not_during_dma(d, byte) ==                                 \* mutant
  IF WantsByte(d) /\ ~dma.active THEN complete_fetch(d, byte) ELSE d

Served(d, byte) == IF WantsByte(d) THEN complete_fetch(d, byte) ELSE d

Interrupted_if_free(slot, d) ==                                   \* mutant
  IF d.irq_pending /\ slot = None THEN "IRQ" ELSE slot

Interrupted(slot, d) == IF d.irq_pending THEN "IRQ" ELSE slot

Accepted_for_ever(d) == d                                         \* mutant

Accepted(d) == [d EXCEPT !.irq_pending = FALSE]

(***************************************************************************)
(* A dot on which the CPU runs, given what its part of the cycle made of   *)
(* the CPU, the PPU and the DMC: the APU clocks the DMC, a byte it wants   *)
(* is read at the price of a stall, and its interrupt is handed on.        *)
(***************************************************************************)
CpuDot(c, p, m) ==
  LET clocked == cycle_timer(m) IN
  /\ cpu_divider = 2 /\ cpu_divider' = 0 /\ cpu_clock' = 1 - cpu_clock
  /\ ppu' = p
  /\ \E byte \in SampleBytes :
       LET served == Served(clocked, byte)
       IN  /\ dmc' = Accepted(served)
           /\ cpu' = [c EXCEPT
                !.cycles    = IF WantsByte(clocked) THEN Stall(@) ELSE @,
                !.interrupt = Interrupted(@, served)]

(* A CPU cycle that a sprite DMA takes: it waits for an odd cycle to end,  *)
(* then reads on even cycles and writes on odd ones.                       *)
DmaDot == /\ CpuDot(CpuAfterDot, ppu_cycle(ppu), dmc)
          /\ entered' = None
          /\ stolen' = IF dma'.active THEN stolen + 1 ELSE 0

DmaAlign == /\ dma.active /\ dma.wait
            /\ dma' = [dma EXCEPT !.wait = cpu_clock = 1]
            /\ DmaDot /\ UNCHANGED oam

DmaRead == /\ dma.active /\ ~dma.wait /\ cpu_clock = 1
           /\ dma' = [dma EXCEPT !.read_buffer = <<dma.page, dma.count>>]
           /\ DmaDot /\ UNCHANGED oam

DmaWrite_one_short ==                                             \* mutant
  /\ dma.active /\ ~dma.wait /\ cpu_clock = 0
  /\ oam' = write_oam(oam, dma.read_buffer)
  /\ dma' = IF dma.count + 1 < PAGE - 1 THEN [dma EXCEPT !.count = @ + 1] ELSE NoDma
  /\ DmaDot

DmaWrite_starting_over ==                                         \* mutant
  /\ dma.active /\ ~dma.wait /\ cpu_clock = 0
  /\ oam' = write_oam(oam, dma.read_buffer)
  /\ dma' = IF dma.count < PAGE - 1 THEN [dma EXCEPT !.count = @ + 1]
            ELSE NewDma(dma.page)
  /\ CpuDot(CpuAfterDot, ppu_cycle(ppu), dmc) /\ entered' = None
  /\ stolen' = IF dma.count < PAGE - 1 THEN stolen + 1 ELSE 0

DmaWrite == /\ dma.active /\ ~dma.wait /\ cpu_clock = 0
            /\ oam' = write_oam(oam, dma.read_buffer)
            /\ dma' = IF dma.count < PAGE - 1 THEN [dma EXCEPT !.count = @ + 1]
                      ELSE NoDma
            /\ DmaDot

-----------------------------------------------------------------------------
(* A CPU cycle of the CPU.  Ready is the moment between two instructions.  *)
Busy == /\ ~dma.active /\ cpu.cycles > 0
        /\ CpuDot(Spend(CpuAfterDot), ppu_cycle(ppu), dmc)
        /\ entered' = None /\ UNCHANGED <<oam, dma, stolen>>

Ready == ~dma.active /\ cpu.cycles = 0

(* Cpu::interrupt on an interrupt that is taken. *)
TakeInterrupt ==
  /\ Ready /\ CpuAfterDot.interrupt \in Interrupts
  /\ ~(CpuAfterDot.interrupt = "IRQ" /\ cpu.i_flag)
  /\ CpuDot(Spend([cycles |-> INTERRUPT_LATENCY, interrupt |-> None,
                   i_flag |-> TRUE]), ppu_cycle(ppu), dmc)
  /\ entered' = CpuAfterDot.interrupt
  /\ UNCHANGED <<oam, dma, stolen>>

(* Cpu::interrupt on a masked IRQ: it returns without setting cycles, and  *)
(* Cpu::cycle decrements them all the same.                                *)
IgnoreIrq ==
  /\ Ready /\ CpuAfterDot.interrupt = "IRQ" /\ cpu.i_flag
  /\ CpuDot(Spend(interrupt_request(cpu, None)), ppu_cycle(ppu), dmc)
  /\ entered' = None /\ UNCHANGED <<oam, dma, stolen>>

(* An instruction with the effect named, that ends with the I flag, the    *)
(* PPU and the DMC as given.                                               *)
Execute(effect, i_flag, p, m) ==
  /\ effect \in Effects /\ Ready /\ CpuAfterDot.interrupt = None
  /\ \E n \in InstructionCycles :
       CpuDot(Spend([cycles |-> n, interrupt |-> None, i_flag |-> i_flag]), p, m)
  /\ entered' = None

Keep == UNCHANGED <<oam, dma, stolen>>

(* Most instructions leave the rest of the machine alone; SEI, CLI, PLP,   *)
(* RTI and BRK set the I flag.                                             *)
Compute == /\ \E i_flag \in BOOLEAN :
                Execute("compute", i_flag, ppu_cycle(ppu), dmc)
           /\ Keep

(* An instruction that reaches the registers of the raster. *)
UsePpu(effect, p) == Execute(effect, cpu.i_flag, p, dmc) /\ Keep

WritePpuCtrl  == \E nmi \in BOOLEAN :
                   UsePpu("ppu_ctrl", write_ppuctrl(ppu_cycle(ppu), nmi))
WritePpuMask  == \E bg \in BOOLEAN :
                   UsePpu("ppu_mask", write_ppumask(ppu_cycle(ppu), bg))
ReadPpuStatus == UsePpu("ppu_status", read_ppustatus(ppu_cycle(ppu)))

(* An instruction that reaches sprite memory. *)
UseOam(effect) == Execute(effect, cpu.i_flag, ppu_cycle(ppu), dmc)

WriteOamAddr == /\ \E a \in OamAddresses : oam' = [oam EXCEPT !.address = a]
                /\ UseOam("oam_addr") /\ UNCHANGED <<dma, stolen>>
WriteOamData == /\ oam' = write_oam(oam, Poked)
                /\ UseOam("oam_data") /\ UNCHANGED <<dma, stolen>>
WriteOamDma  == /\ \E page \in Pages : dma' = NewDma(page)
                /\ UseOam("oam_dma") /\ UNCHANGED <<oam, stolen>>

(* An instruction that reaches the registers of the DMC. *)
UseDmc(effect, m) == Execute(effect, cpu.i_flag, ppu_cycle(ppu), m) /\ Keep

WriteDmcCtrl   == \E data \in CtrlData : UseDmc("dmc_ctrl", write_ctrl(dmc, data))
WriteDmcSample ==
  \/ \E data \in AddressData : UseDmc("dmc_sample", write_address(dmc, data))
  \/ \E data \in LengthData  : UseDmc("dmc_sample", write_length(dmc, data))
WriteApuStatus == \E on \in BOOLEAN : UseDmc("apu_status", write_status(dmc, on))

Instruction ==
  \/ Compute
  \/ WritePpuCtrl \/ WritePpuMask \/ ReadPpuStatus
  \/ WriteOamAddr \/ WriteOamData \/ WriteOamDma
  \/ WriteDmcCtrl \/ WriteDmcSample \/ WriteApuStatus

(* Emulator::cycle. *)
Cycle ==
  \/ DotOnly
  \/ DmaAlign \/ DmaRead \/ DmaWrite
  \/ Busy \/ TakeInterrupt \/ IgnoreIrq \/ Instruction

(* Emulator::reset, called by the page between two cycles. *)
Reset ==
  /\ cpu' = interrupt_request(cpu, "RESET")
  /\ dmc' = write_status(dmc, FALSE)
  /\ entered' = None
  /\ UNCHANGED <<ppu, oam, dma, cpu_divider, cpu_clock, stolen>>

(* Emulator::read, with which the page's debugger polls a watched address: *)
(* here the one register of the raster that reading changes.               *)
PageReadsStatus == /\ ppu' = read_ppustatus(ppu)
                   /\ entered' = None
                   /\ UNCHANGED <<cpu, oam, dma, dmc, cpu_divider, cpu_clock, stolen>>

Next == Cycle \/ Reset \/ PageReadsStatus

Spec == Init /\ [][Next]_vars

(* The page keeps calling cycle, a frame at a time, for as long as it runs *)
(* (frontend/index.ts, rafCallback).                                       *)
FairSpec == Spec /\ WF_vars(Cycle)

-----------------------------------------------------------------------------
(* Type invariant of the machine the cycle loop drives (emulator.rs:5-18,  *)
(* cpu.rs:25-35, dma.rs): counters stay within their widths.               *)
TypeOK ==
  /\ cpu \in [cycles : 0 .. WORD - 1, interrupt : Interrupts \cup {None},
              i_flag : BOOLEAN]
  /\ ppu \in PpuType
  /\ oam \in [address : OamAddresses, bytes : [OamAddresses -> MemoryBytes]]
  /\ dma \in [active : BOOLEAN, page : Pages \cup {0}, wait : BOOLEAN,
              count : OamAddresses, read_buffer : MemoryBytes]
  /\ dma.active => dma.page \in Pages
  /\ dmc \in DmcType
  /\ cpu_divider \in 0 .. 2 /\ cpu_clock \in 0 .. 1
  /\ entered \in Interrupts \cup {None} /\ stolen \in Nat

(* While a sprite DMA is under way the bytes it has brought lie in sprite  *)
(* memory in page order, right behind the address register: no byte is     *)
(* skipped, repeated or written before it was read (emulator.rs:58-74),    *)
(* whatever the raster, the DMC and the page's reset do meanwhile.         *)
Behind(address, k) == IF k <= address THEN address - k ELSE address - k + PAGE

CopiedSoFar(o, d, count) ==
  \A i \in 0 .. count - 1 :
    o.bytes[Behind(o.address, count - i)] = <<d.page, i>>

DmaInOrder == dma.active => CopiedSoFar(oam, dma, dma.count)

(* When the DMA ends, sprite memory is the page, starting at the address   *)
(* register, which is back where it was.                                   *)
DmaCopiesPage ==
  [][dma.active /\ ~dma'.active => CopiedSoFar(oam', dma, PAGE)]_vars

(* A sprite DMA takes two cycles a byte and one or two to get in step with *)
(* the clock: 513 or 514 in the program (cpu.rs:63, "Copy 256 bytes over   *)
(* 512 cycles", and the wait before them).                                 *)
DmaTime ==
  [][dma.active /\ ~dma'.active => stolen + 1 \in {2 * PAGE + 1, 2 * PAGE + 2}]_vars

(* The memory reader of the DMC is served in every CPU cycle, those of a   *)
(* sprite DMA, an interrupt or a stall included: between two cycles an     *)
(* active sample always has its next byte in the buffer.                   *)
DmcNeverStarved == active(dmc) => dmc.sample_buffer.full

(* An IRQ that waits for the CPU can still be explained: the flag the      *)
(* handler reads in $4015 is up for as long as the request is pending.     *)
IrqExplained == cpu.interrupt = "IRQ" => dmc.irq_flag

(* A sample that ends with interrupts enabled reaches the CPU's slot in    *)
(* the same cycle, whatever was in the slot (emulator.rs:95-99).           *)
IrqReachesCpu ==
  [][~dmc.irq_flag /\ dmc'.irq_flag => cpu'.interrupt = "IRQ"]_vars

(* A sprite DMA ends.                                                      *)
DmaEnds == dma.active ~> ~dma.active

(* The CPU comes to an instruction boundary again and again: neither DMC   *)
(* stalls nor sprite DMAs can keep it from there.                          *)
CpuComesBack == []<>Ready

-----------------------------------------------------------------------------
(* interrupt.rs:10 calls the IRQ "Maskable": a masked one must not cost    *)
(* the CPU more than an instruction or an interrupt does.                  *)
Longest == CHOOSE n \in InstructionCycles \cup {INTERRUPT_LATENCY} :
             \A k \in InstructionCycles \cup {INTERRUPT_LATENCY} : k <= n

ReadyCpuGoesOn ==
  [][Ready /\ cpu_divider = 2 /\ cpu_divider' = 0
       => cpu'.cycles <= Longest - 1 + FETCH_STALL]_vars
=============================================================================
