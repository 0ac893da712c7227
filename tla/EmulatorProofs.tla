--------------------------- MODULE EmulatorProofs ---------------------------
(***************************************************************************)
(* The safety properties of the cycle loop, for every page size, stall,    *)
(* latency, raster and program.                                            *)
(***************************************************************************)
EXTENDS Emulator, DmcUnitProofs

(* Between the read and the write of a DMA the buffer holds the byte the   *)
(* write is to store: the reads happen on one parity of the clock, the     *)
(* writes on the other.                                                    *)
DmaFresh == dma.active /\ ~dma.wait /\ cpu_clock = 0 =>
              dma.read_buffer = <<dma.page, dma.count>>

(* Where a DMA stands follows from the cycles it has taken: one or two to  *)
(* get in step, then two for every byte.                                   *)
DmaPace ==
  IF ~dma.active THEN stolen = 0
  ELSE IF dma.wait THEN dma.count = 0 /\ (stolen = 0 \/ (stolen = 1 /\ cpu_clock = 0))
  ELSE stolen \in {2 * dma.count + 1 + (1 - cpu_clock),
                     2 * dma.count + 2 + (1 - cpu_clock)}

NothingPending == ~dmc.irq_pending

IInv == /\ TypeOK /\ DmaInOrder /\ DmaFresh /\ DmaPace
        /\ DmcNeverStarved /\ IrqExplained /\ NothingPending

-----------------------------------------------------------------------------
(* The raster stays on the screen (ppu.rs:164-242). *)
LEMMA PpuCycleType ==
  ASSUME NEW p \in PpuType
  PROVE  ppu_cycle(p) \in PpuType
<1> DEFINE q == StatusAtDot(p)
<1>1. q \in PpuType /\ q.dot = p.dot /\ q.scanline = p.scanline
  BY DEF StatusAtDot, PpuType, AtVblankStart, AtVblankEnd
<1> HIDE DEF q
<1> DEFINE dot      == IF SkipsDot(q) THEN 1 ELSE IF EndsLine(q) THEN 0 ELSE q.dot + 1
           scanline == IF EndsFrame(q) THEN 0
                       ELSE IF EndsLine(q) THEN q.scanline + 1 ELSE q.scanline
           odd      == IF EndsFrame(q) THEN ~q.odd ELSE q.odd
<1>2. cycle_increment(q) \in PpuType
  <2>1. dot \in 0 .. LAST_DOT /\ scanline \in 0 .. PRERENDER
    BY <1>1, PpuAssumption DEF EndsFrame, EndsLine, PpuType
  <2>2. odd \in BOOLEAN
    BY <1>1 DEF PpuType
  <2>3. cycle_increment(q) = [q EXCEPT !.dot = dot, !.scanline = scanline, !.odd = odd]
    BY DEF cycle_increment
  <2> HIDE DEF dot, scanline, odd
  <2> QED BY <1>1, <2>1, <2>2, <2>3 DEF PpuType
<1> QED BY <1>2 DEF ppu_cycle, q

LEMMA InitIInv == Init => IInv
<1> SUFFICES ASSUME Init PROVE IInv
  OBVIOUS
<1>1. ppu \in PpuType
  BY PpuAssumption DEF Init, NewPpu, PpuType
<1>2. dmc \in DmcType
  BY NewDmcType DEF Init
<1>3. TypeOK
  BY <1>1, <1>2, EmulatorAssumption
  DEF Init, TypeOK, Interrupts, None, OamAddresses, MemoryBytes, NoDma
<1>4. ~dma.active /\ dmc.bytes_remaining = 0 /\ ~dmc.irq_pending /\ stolen = 0
  BY DEF Init, NoDma, NewDmc
<1> QED BY <1>3, <1>4
  DEF IInv, Init, DmaInOrder, DmaFresh, DmaPace, DmcNeverStarved, active,
      IrqExplained, NothingPending

-----------------------------------------------------------------------------
CpuType == [cycles : 0 .. WORD - 1, interrupt : Interrupts \cup {None},
            i_flag : BOOLEAN]

(* What a CPU cycle leaves behind, whatever the CPU did in it: the types   *)
(* of the CPU and the DMC, a full buffer, and no IRQ without its flag.     *)
LEMMA CpuDotGives ==
  ASSUME NEW c \in CpuType, NEW p \in PpuType, NEW m \in DmcType,
         ~m.irq_pending, c.interrupt = "IRQ" => m.irq_flag,
         CpuDot(c, p, m)
  PROVE  /\ cpu' \in CpuType /\ ppu' \in PpuType /\ dmc' \in DmcType
         /\ cpu_divider' = 0 /\ cpu_clock' = 1 - cpu_clock
         /\ DmcNeverStarved' /\ IrqExplained' /\ NothingPending'
         /\ cpu'.i_flag = c.i_flag
<1> DEFINE t == cycle_timer(m)
<1>1. t \in DmcType /\ ~t.irq_pending /\ t.irq_flag = m.irq_flag
  BY CycleTimerType, CycleTimerKeeps
<1> HIDE DEF t
<1>2. PICK byte \in SampleBytes :
        LET served == IF WantsByte(t) THEN complete_fetch(t, byte) ELSE t
        IN  /\ dmc' = [served EXCEPT !.irq_pending = FALSE]
            /\ cpu' = [c EXCEPT
                 !.cycles    = IF WantsByte(t) THEN Stall(@) ELSE @,
                 !.interrupt = IF served.irq_pending THEN "IRQ" ELSE @]
  BY DEF CpuDot, Served, Interrupted, Accepted, t
<1> DEFINE f == IF WantsByte(t) THEN complete_fetch(t, byte) ELSE t
<1>3. f \in DmcType
  BY <1>1, CompleteFetchType
<1>4. /\ f.irq_pending => f.irq_flag
      /\ m.irq_flag => f.irq_flag
      /\ active(f) => f.sample_buffer.full
  <2>1. CASE WantsByte(t)
    BY <1>1, <2>1, CompleteFetchGives
  <2>2. CASE ~WantsByte(t)
    BY <1>1, <2>2 DEF WantsByte, active
  <2> QED BY <2>1, <2>2
<1>5. f.irq_pending \in BOOLEAN
  BY <1>3 DEF DmcType
<1>6. dmc' = [f EXCEPT !.irq_pending = FALSE]
  BY <1>2
<1>7. cpu' = [c EXCEPT !.cycles    = IF WantsByte(t) THEN Stall(@) ELSE @,
                       !.interrupt = IF f.irq_pending THEN "IRQ" ELSE @]
  BY <1>2
<1> HIDE DEF f
<1>8. /\ dmc' \in DmcType /\ ~dmc'.irq_pending
      /\ dmc'.irq_flag = f.irq_flag
      /\ dmc'.sample_buffer = f.sample_buffer
      /\ dmc'.bytes_remaining = f.bytes_remaining
  BY <1>3, <1>6 DEF DmcType
<1>9. Stall(c.cycles) \in 0 .. WORD - 1
  BY EmulatorAssumption DEF Stall, CpuType
<1>10. /\ cpu' \in CpuType /\ cpu'.i_flag = c.i_flag
       /\ cpu'.interrupt = "IRQ" => f.irq_pending \/ c.interrupt = "IRQ"
  BY <1>5, <1>7, <1>9 DEF CpuType, Interrupts
<1>11. ppu' = p /\ cpu_divider' = 0 /\ cpu_clock' = 1 - cpu_clock
  BY DEF CpuDot
<1> QED BY <1>4, <1>8, <1>10, <1>11
  DEF DmcNeverStarved, IrqExplained, NothingPending, active

(* The CPU the PPU's dot leaves, and what a cycle spent makes of it. *)
LEMMA CpuAfterDotType ==
  ASSUME TypeOK
  PROVE  /\ CpuAfterDot \in CpuType
         /\ CpuAfterDot.cycles = cpu.cycles
         /\ CpuAfterDot.interrupt = "IRQ" => cpu.interrupt = "IRQ"
  BY DEF TypeOK, CpuType, CpuAfterDot, interrupt_request, Interrupts

LEMMA SpendType ==
  ASSUME NEW c \in CpuType
  PROVE  Spend(c) \in CpuType /\ Spend(c).interrupt = c.interrupt
  BY EmulatorAssumption DEF Spend, CpuType

OamType == [address : OamAddresses, bytes : [OamAddresses -> MemoryBytes]]

(* Sprite memory after a byte is stored. *)
Wrote(a, b, byte) == write_oam([address |-> a, bytes |-> b], byte)

(* Storing a byte moves the address register on and keeps what lies behind *)
(* it, up to the page's length.                                            *)
LEMMA WriteOamGives ==
  ASSUME NEW a \in OamAddresses, NEW b \in [OamAddresses -> MemoryBytes],
         NEW byte \in MemoryBytes
  PROVE  /\ Wrote(a, b, byte) \in OamType
         /\ Wrote(a, b, byte).bytes[Behind(Wrote(a, b, byte).address, 1)] = byte
         /\ \A k \in 1 .. PAGE - 1 :
              Wrote(a, b, byte).bytes[Behind(Wrote(a, b, byte).address, k + 1)]
                = b[Behind(a, k)]
<1> DEFINE w == Wrote(a, b, byte)
<1>1. PAGE \in Nat \ {0} /\ a \in 0 .. PAGE - 1
  BY EmulatorAssumption DEF OamAddresses
<1>2. w.address = IF a = PAGE - 1 THEN 0 ELSE a + 1
  BY DEF Wrote, write_oam
<1>3. w.bytes = [b EXCEPT ![a] = byte]
  BY DEF Wrote, write_oam
<1>4. w \in OamType
  BY <1>1 DEF Wrote, write_oam, OamAddresses, OamType
<1> HIDE DEF w
<1>5. w.bytes[Behind(w.address, 1)] = byte
  <2>1. Behind(w.address, 1) = a
    BY <1>1, <1>2 DEF Behind
  <2> QED BY <1>3, <2>1
<1>6. ASSUME NEW k \in 1 .. PAGE - 1
      PROVE  w.bytes[Behind(w.address, k + 1)] = b[Behind(a, k)]
  <2>1. Behind(w.address, k + 1) = Behind(a, k)
    BY <1>1, <1>2 DEF Behind
  <2>2. Behind(a, k) \in OamAddresses /\ Behind(a, k) # a
    BY <1>1 DEF Behind, OamAddresses
  <2> QED BY <1>3, <2>1, <2>2
<1> QED BY <1>4, <1>5, <1>6 DEF w

-----------------------------------------------------------------------------
(* A dot without the CPU only moves the raster, and at most asks for an    *)
(* NMI.                                                                    *)
LEMMA DotOnlyKeepsIInv ==
  ASSUME IInv, DotOnly
  PROVE  IInv'
<1>1. TypeOK
  BY DEF IInv
<1>2. ppu' \in PpuType /\ cpu' \in CpuType
      /\ (cpu'.interrupt = "IRQ" => cpu.interrupt = "IRQ")
  BY <1>1, PpuCycleType, CpuAfterDotType DEF DotOnly, TypeOK
<1>3. cpu_divider' \in 0 .. 2
  BY <1>1 DEF DotOnly, TypeOK
<1>4. TypeOK'
  BY <1>1, <1>2, <1>3 DEF DotOnly, TypeOK, CpuType
<1>5. IrqExplained'
  BY <1>2 DEF IInv, DotOnly, IrqExplained
<1> QED BY <1>4, <1>5
  DEF IInv, DotOnly, DmaInOrder, CopiedSoFar, DmaFresh, DmaPace,
      DmcNeverStarved, active, NothingPending

(* A CPU cycle in which the CPU may do anything to itself, the raster and  *)
(* the DMC, but starts no DMA and leaves sprite memory typed.              *)
LEMMA CpuCycleKeepsIInv ==
  ASSUME IInv, ~dma.active, ~dma'.active,
         NEW c \in CpuType, NEW p \in PpuType, NEW m \in DmcType,
         ~m.irq_pending, c.interrupt = "IRQ" => m.irq_flag,
         CpuDot(c, p, m),
         oam' \in [address : OamAddresses, bytes : [OamAddresses -> MemoryBytes]],
         UNCHANGED <<dma, stolen>>, entered' \in Interrupts \cup {None}
  PROVE  IInv'
<1>1. /\ cpu' \in CpuType /\ ppu' \in PpuType /\ dmc' \in DmcType
      /\ cpu_divider' = 0 /\ cpu_clock' = 1 - cpu_clock
      /\ DmcNeverStarved' /\ IrqExplained' /\ NothingPending'
  BY CpuDotGives
<1>2. TypeOK'
  BY <1>1 DEF IInv, TypeOK, CpuType
<1>3. DmaInOrder' /\ DmaFresh' /\ DmaPace'
  BY DEF IInv, DmaInOrder, DmaFresh, DmaPace
<1> QED BY <1>1, <1>2, <1>3 DEF IInv

LEMMA BusyKeepsIInv ==
  ASSUME IInv, Busy
  PROVE  IInv'
<1>1. TypeOK /\ ppu_cycle(ppu) \in PpuType /\ dmc \in DmcType /\ ~dmc.irq_pending
  BY PpuCycleType DEF IInv, TypeOK, NothingPending
<1>2. Spend(CpuAfterDot) \in CpuType
      /\ (Spend(CpuAfterDot).interrupt = "IRQ" => dmc.irq_flag)
  BY <1>1, CpuAfterDotType, SpendType DEF IInv, IrqExplained
<1> QED BY <1>1, <1>2, CpuCycleKeepsIInv DEF Busy, TypeOK, None

LEMMA TakeInterruptKeepsIInv ==
  ASSUME IInv, TakeInterrupt
  PROVE  IInv'
<1> DEFINE c == [cycles |-> INTERRUPT_LATENCY, interrupt |-> None, i_flag |-> TRUE]
<1>1. TypeOK /\ ppu_cycle(ppu) \in PpuType /\ dmc \in DmcType /\ ~dmc.irq_pending
  BY PpuCycleType DEF IInv, TypeOK, NothingPending
<1>2. c \in CpuType
  BY EmulatorAssumption DEF CpuType
<1>3. Spend(c) \in CpuType /\ Spend(c).interrupt = None
  BY <1>2, SpendType
<1>4. CpuDot(Spend(c), ppu_cycle(ppu), dmc) /\ ~dma.active
      /\ UNCHANGED <<oam, dma, stolen>> /\ entered' \in Interrupts \cup {None}
  BY DEF TakeInterrupt, Ready
<1> HIDE DEF c
<1> QED BY <1>1, <1>3, <1>4, CpuCycleKeepsIInv DEF TypeOK, None

LEMMA IgnoreIrqKeepsIInv ==
  ASSUME IInv, IgnoreIrq
  PROVE  IInv'
<1> DEFINE c == interrupt_request(cpu, None)
<1>1. TypeOK /\ ppu_cycle(ppu) \in PpuType /\ dmc \in DmcType /\ ~dmc.irq_pending
  BY PpuCycleType DEF IInv, TypeOK, NothingPending
<1>2. c \in CpuType /\ c.interrupt = None
  BY <1>1 DEF CpuType, TypeOK, interrupt_request
<1>3. Spend(c) \in CpuType /\ Spend(c).interrupt = None
  BY <1>2, SpendType
<1>4. CpuDot(Spend(c), ppu_cycle(ppu), dmc) /\ ~dma.active
      /\ UNCHANGED <<oam, dma, stolen>> /\ entered' \in Interrupts \cup {None}
  BY DEF IgnoreIrq, Ready
<1> HIDE DEF c
<1> QED BY <1>1, <1>3, <1>4, CpuCycleKeepsIInv DEF TypeOK, None

-----------------------------------------------------------------------------
(* What an instruction leaves the CPU as, before the APU's part. *)
LEMMA ExecuteGives ==
  ASSUME IInv, NEW effect, NEW i_flag \in BOOLEAN, NEW p, NEW m,
         Execute(effect, i_flag, p, m)
  PROVE  /\ ~dma.active /\ entered' = None
         /\ \E c \in CpuType : c.interrupt = None /\ CpuDot(c, p, m)
<1>1. PICK n \in InstructionCycles :
        CpuDot(Spend([cycles |-> n, interrupt |-> None, i_flag |-> i_flag]), p, m)
  BY DEF Execute
<1> DEFINE c == [cycles |-> n, interrupt |-> None, i_flag |-> i_flag]
<1>2. c \in CpuType /\ c.interrupt = None
  BY EmulatorAssumption DEF CpuType
<1>3. Spend(c) \in CpuType /\ Spend(c).interrupt = None
  BY <1>2, SpendType
<1>4. CpuDot(Spend(c), p, m)
  BY <1>1
<1> QED BY <1>3, <1>4 DEF Execute, Ready

(* An instruction that starts no DMA. *)
LEMMA EffectKeepsIInv ==
  ASSUME IInv, NEW effect, NEW i_flag \in BOOLEAN,
         NEW p \in PpuType, NEW m \in DmcType, ~m.irq_pending,
         Execute(effect, i_flag, p, m),
         oam' \in [address : OamAddresses, bytes : [OamAddresses -> MemoryBytes]],
         UNCHANGED <<dma, stolen>>
  PROVE  IInv'
<1>1. PICK c \in CpuType : c.interrupt = None /\ CpuDot(c, p, m)
  BY ExecuteGives
<1>2. ~dma.active /\ entered' = None /\ ~dma'.active
  BY ExecuteGives
<1>3. c.interrupt = "IRQ" => m.irq_flag
  BY <1>1 DEF None
<1> QED BY <1>1, <1>2, <1>3, CpuCycleKeepsIInv


LEMMA ComputeKeepsIInv ==
  ASSUME IInv, Compute
  PROVE  IInv'
<1>1. ppu_cycle(ppu) \in PpuType /\ dmc \in DmcType /\ ~dmc.irq_pending /\ oam \in OamType
  BY PpuCycleType DEF IInv, TypeOK, NothingPending, OamType
<1>2. PICK i_flag \in BOOLEAN : Execute("compute", i_flag, ppu_cycle(ppu), dmc)
  BY DEF Compute
<1>3. oam' \in OamType /\ UNCHANGED <<dma, stolen>>
  BY <1>1 DEF Compute, Keep
<1> QED BY <1>1, <1>2, <1>3, EffectKeepsIInv DEF OamType

LEMMA UsePpuKeepsIInv ==
  ASSUME IInv, NEW effect, NEW p \in PpuType, UsePpu(effect, p)
  PROVE  IInv'
<1>1. dmc \in DmcType /\ ~dmc.irq_pending /\ cpu.i_flag \in BOOLEAN /\ oam \in OamType
  BY DEF IInv, TypeOK, NothingPending, OamType
<1>2. Execute(effect, cpu.i_flag, p, dmc) /\ oam' \in OamType /\ UNCHANGED <<dma, stolen>>
  BY <1>1 DEF UsePpu, Keep
<1> QED BY <1>1, <1>2, EffectKeepsIInv DEF OamType

LEMMA PpuEffectKeepsIInv ==
  ASSUME IInv, WritePpuCtrl \/ WritePpuMask \/ ReadPpuStatus
  PROVE  IInv'
<1> DEFINE q == ppu_cycle(ppu)
<1>1. q \in PpuType
  BY PpuCycleType DEF IInv, TypeOK
<1> HIDE DEF q
<1>2. CASE WritePpuCtrl
  <2>1. PICK nmi \in BOOLEAN : UsePpu("ppu_ctrl", write_ppuctrl(q, nmi))
    BY <1>2 DEF WritePpuCtrl, q
  <2>2. write_ppuctrl(q, nmi) \in PpuType
    BY <1>1 DEF write_ppuctrl, PpuType
  <2> QED BY <2>1, <2>2, UsePpuKeepsIInv
<1>3. CASE WritePpuMask
  <2>1. PICK bg \in BOOLEAN : UsePpu("ppu_mask", write_ppumask(q, bg))
    BY <1>3 DEF WritePpuMask, q
  <2>2. write_ppumask(q, bg) \in PpuType
    BY <1>1 DEF write_ppumask, PpuType
  <2> QED BY <2>1, <2>2, UsePpuKeepsIInv
<1>4. CASE ReadPpuStatus
  <2>1. UsePpu("ppu_status", read_ppustatus(q))
    BY <1>4 DEF ReadPpuStatus, q
  <2>2. read_ppustatus(q) \in PpuType
    BY <1>1 DEF read_ppustatus, PpuType
  <2> QED BY <2>1, <2>2, UsePpuKeepsIInv
<1> QED BY <1>2, <1>3, <1>4

LEMMA UseDmcKeepsIInv ==
  ASSUME IInv, NEW effect, NEW m \in DmcType, ~m.irq_pending, UseDmc(effect, m)
  PROVE  IInv'
<1>1. ppu_cycle(ppu) \in PpuType /\ cpu.i_flag \in BOOLEAN /\ oam \in OamType
  BY PpuCycleType DEF IInv, TypeOK, OamType
<1>2. /\ Execute(effect, cpu.i_flag, ppu_cycle(ppu), m)
      /\ oam' \in OamType /\ UNCHANGED <<dma, stolen>>
  BY <1>1 DEF UseDmc, Keep
<1> QED BY <1>1, <1>2, EffectKeepsIInv DEF OamType

LEMMA DmcEffectKeepsIInv ==
  ASSUME IInv, WriteDmcCtrl \/ WriteDmcSample \/ WriteApuStatus
  PROVE  IInv'
<1>1. dmc \in DmcType /\ ~dmc.irq_pending
  BY DEF IInv, TypeOK, NothingPending
<1>2. CASE WriteDmcCtrl
  <2>1. PICK data \in CtrlData : UseDmc("dmc_ctrl", write_ctrl(dmc, data))
    BY <1>2 DEF WriteDmcCtrl
  <2>2. write_ctrl(dmc, data) \in DmcType /\ ~write_ctrl(dmc, data).irq_pending
    <3>1. write_ctrl(dmc, data) \in DmcType
      BY <1>1, WriteCtrlType
    <3>2. ~write_ctrl(dmc, data).irq_pending
      BY <1>1 DEF write_ctrl, clear_irq, DmcType
    <3> QED BY <3>1, <3>2
  <2> QED BY <2>1, <2>2, UseDmcKeepsIInv
<1>3. ASSUME NEW data \in AddressData, UseDmc("dmc_sample", write_address(dmc, data))
      PROVE  IInv'
  <2>1. write_address(dmc, data) \in DmcType /\ ~write_address(dmc, data).irq_pending
    BY <1>1, WriteAddressType DEF write_address, DmcType
  <2> QED BY <1>3, <2>1, UseDmcKeepsIInv
<1>4. ASSUME NEW data \in LengthData, UseDmc("dmc_sample", write_length(dmc, data))
      PROVE  IInv'
  <2>1. write_length(dmc, data) \in DmcType /\ ~write_length(dmc, data).irq_pending
    BY <1>1, WriteLengthType DEF write_length, DmcType
  <2> QED BY <1>4, <2>1, UseDmcKeepsIInv
<1>5. CASE WriteApuStatus
  <2>1. PICK on \in BOOLEAN : UseDmc("apu_status", write_status(dmc, on))
    BY <1>5 DEF WriteApuStatus
  <2>2. write_status(dmc, on) \in DmcType
    BY <1>1, WriteStatusType
  <2>3. ~write_status(dmc, on).irq_pending
    BY <1>1 DEF write_status, enable, disable, clear_irq, DmcType
  <2> QED BY <2>1, <2>2, <2>3, UseDmcKeepsIInv
<1> QED BY <1>2, <1>3, <1>4, <1>5 DEF WriteDmcSample

LEMMA OamEffectKeepsIInv ==
  ASSUME IInv, WriteOamAddr \/ WriteOamData
  PROVE  IInv'
<1>1. /\ ppu_cycle(ppu) \in PpuType /\ dmc \in DmcType /\ ~dmc.irq_pending
      /\ cpu.i_flag \in BOOLEAN
      /\ oam \in OamType
  BY PpuCycleType DEF IInv, TypeOK, NothingPending, OamType
<1>2. oam' \in OamType
  <2>1. CASE WriteOamAddr BY <1>1, <2>1 DEF WriteOamAddr, OamType
  <2>2. CASE WriteOamData
    <3>1. /\ oam.address \in OamAddresses /\ oam.bytes \in [OamAddresses -> MemoryBytes]
          /\ oam = [address |-> oam.address, bytes |-> oam.bytes]
      BY <1>1 DEF OamType
    <3>2. Poked \in MemoryBytes
      BY DEF MemoryBytes
    <3>3. oam' = Wrote(oam.address, oam.bytes, Poked)
      BY <2>2, <3>1 DEF WriteOamData, Wrote
    <3> QED BY <3>1, <3>2, <3>3, WriteOamGives
  <2> QED BY <2>1, <2>2
<1>3. PICK effect : Execute(effect, cpu.i_flag, ppu_cycle(ppu), dmc)
                    /\ UNCHANGED <<dma, stolen>>
  BY DEF WriteOamAddr, WriteOamData, UseOam
<1> QED BY <1>1, <1>2, <1>3, EffectKeepsIInv DEF OamType

(* The write to $4014 starts a DMA that has copied nothing yet. *)
LEMMA WriteOamDmaKeepsIInv ==
  ASSUME IInv, WriteOamDma
  PROVE  IInv'
<1>1. /\ ppu_cycle(ppu) \in PpuType /\ dmc \in DmcType /\ ~dmc.irq_pending
      /\ cpu.i_flag \in BOOLEAN
  BY PpuCycleType DEF IInv, TypeOK, NothingPending
<1>2. PICK page \in Pages : dma' = NewDma(page)
  BY DEF WriteOamDma
<1>3. Execute("oam_dma", cpu.i_flag, ppu_cycle(ppu), dmc) /\ UNCHANGED <<oam, stolen>>
  BY DEF WriteOamDma, UseOam
<1>4. PICK c \in CpuType : c.interrupt = None /\ CpuDot(c, ppu_cycle(ppu), dmc)
  BY <1>1, <1>3, ExecuteGives
<1>5. entered' = None /\ ~dma.active
  BY <1>1, <1>3, ExecuteGives
<1>6. /\ cpu' \in CpuType /\ ppu' \in PpuType /\ dmc' \in DmcType
      /\ cpu_divider' = 0 /\ cpu_clock' = 1 - cpu_clock
      /\ DmcNeverStarved' /\ IrqExplained' /\ NothingPending'
  BY <1>1, <1>4, CpuDotGives DEF None
<1>7. /\ dma'.active /\ dma'.wait /\ dma'.count = 0 /\ dma'.page \in Pages
      /\ dma' \in [active : BOOLEAN, page : Pages \cup {0}, wait : BOOLEAN,
                   count : OamAddresses, read_buffer : MemoryBytes]
  <2>1. Poked \in MemoryBytes /\ 0 \in OamAddresses /\ page \in Pages
    BY EmulatorAssumption DEF MemoryBytes, OamAddresses
  <2> QED BY <1>2, <2>1 DEF NewDma, NoDma
<1>8. TypeOK'
  BY <1>3, <1>5, <1>6, <1>7 DEF IInv, TypeOK, CpuType
<1>9. stolen' = 0
  BY <1>3, <1>5 DEF IInv, DmaPace
<1>10. DmaPace' /\ DmaFresh'
  <2>1. DmaPace'
    BY <1>7, <1>9 DEF DmaPace
  <2>2. DmaFresh'
    BY <1>7 DEF DmaFresh
  <2> QED BY <2>1, <2>2
<1>11. DmaInOrder'
  BY <1>7 DEF DmaInOrder, CopiedSoFar
<1> QED BY <1>6, <1>8, <1>10, <1>11 DEF IInv

-----------------------------------------------------------------------------
(* A cycle that a sprite DMA takes leaves the rest of the machine as every *)
(* CPU cycle does.                                                         *)
LEMMA DmaDotGives ==
  ASSUME IInv, DmaDot
  PROVE  /\ cpu' \in CpuType /\ ppu' \in PpuType /\ dmc' \in DmcType
         /\ cpu_divider' = 0 /\ cpu_clock' = 1 - cpu_clock
         /\ DmcNeverStarved' /\ IrqExplained' /\ NothingPending'
         /\ entered' = None
         /\ stolen' = IF dma'.active THEN stolen + 1 ELSE 0
<1>1. TypeOK /\ ppu_cycle(ppu) \in PpuType /\ dmc \in DmcType /\ ~dmc.irq_pending
  BY PpuCycleType DEF IInv, TypeOK, NothingPending
<1>2. CpuAfterDot \in CpuType /\ (CpuAfterDot.interrupt = "IRQ" => dmc.irq_flag)
  BY <1>1, CpuAfterDotType DEF IInv, IrqExplained
<1>3. CpuDot(CpuAfterDot, ppu_cycle(ppu), dmc)
  BY DEF DmaDot
<1>4. entered' = None /\ stolen' = IF dma'.active THEN stolen + 1 ELSE 0
  BY DEF DmaDot
<1> HIDE DEF DmaDot
<1> QED BY <1>1, <1>2, <1>3, <1>4, CpuDotGives

DmaType == [active : BOOLEAN, page : Pages \cup {0}, wait : BOOLEAN,
            count : OamAddresses, read_buffer : MemoryBytes]

LEMMA DmaAlignKeepsIInv ==
  ASSUME IInv, DmaAlign
  PROVE  IInv'
<1>1. DmaDot /\ oam' = oam /\ dma.active /\ dma.wait
      /\ dma' = [dma EXCEPT !.wait = cpu_clock = 1]
  BY DEF DmaAlign
<1>2. TypeOK /\ dma \in DmaType /\ dma.page \in Pages /\ cpu_clock \in 0 .. 1
      /\ stolen \in Nat
  BY <1>1 DEF IInv, TypeOK, DmaType
<1>3. /\ cpu' \in CpuType /\ ppu' \in PpuType /\ dmc' \in DmcType
      /\ cpu_divider' = 0 /\ cpu_clock' = 1 - cpu_clock
      /\ DmcNeverStarved' /\ IrqExplained' /\ NothingPending' /\ entered' = None
  BY <1>1, DmaDotGives
<1>4. /\ dma' \in DmaType /\ dma'.active /\ dma'.page = dma.page
      /\ dma'.count = dma.count /\ (dma'.wait <=> cpu_clock = 1)
  BY <1>1, <1>2 DEF DmaType
<1>5. stolen' = stolen + 1
  BY <1>1, <1>4, DmaDotGives
<1>6. TypeOK'
  BY <1>1, <1>2, <1>3, <1>4, <1>5 DEF TypeOK, CpuType, DmaType
<1>7. dma.count = 0 /\ (stolen = 0 \/ (stolen = 1 /\ cpu_clock = 0))
  BY <1>1 DEF IInv, DmaPace
<1>8. DmaPace'
  <2>1. CASE cpu_clock = 1
    <3>1. dma'.wait /\ stolen' = 1 /\ cpu_clock' = 0 /\ dma'.count = 0
      BY <1>3, <1>4, <1>5, <1>7, <2>1
    <3> QED BY <1>4, <3>1 DEF DmaPace
  <2>2. CASE cpu_clock = 0
    <3>1. ~dma'.wait /\ stolen' \in {1, 2} /\ cpu_clock' = 1 /\ dma'.count = 0
      BY <1>3, <1>4, <1>5, <1>7, <2>2
    <3> QED BY <1>4, <3>1 DEF DmaPace
  <2> QED BY <1>2, <2>1, <2>2
<1>9. DmaInOrder'
  <2>1. dma'.count = 0
    BY <1>4, <1>7
  <2> QED BY <2>1 DEF DmaInOrder, CopiedSoFar
<1>10. DmaFresh'
  BY <1>2, <1>3, <1>4 DEF DmaFresh
<1> QED BY <1>3, <1>6, <1>8, <1>9, <1>10 DEF IInv

LEMMA DmaReadKeepsIInv ==
  ASSUME IInv, DmaRead
  PROVE  IInv'
<1>1. DmaDot /\ oam' = oam /\ dma.active /\ ~dma.wait /\ cpu_clock = 1
      /\ dma' = [dma EXCEPT !.read_buffer = <<dma.page, dma.count>>]
  BY DEF DmaRead
<1>2. TypeOK /\ dma \in DmaType /\ dma.page \in Pages /\ stolen \in Nat
  BY <1>1 DEF IInv, TypeOK, DmaType
<1>3. /\ cpu' \in CpuType /\ ppu' \in PpuType /\ dmc' \in DmcType
      /\ cpu_divider' = 0 /\ cpu_clock' = 0
      /\ DmcNeverStarved' /\ IrqExplained' /\ NothingPending' /\ entered' = None
  BY <1>1, DmaDotGives
<1>4. /\ dma' \in DmaType /\ dma'.active /\ dma'.page = dma.page
      /\ dma'.count = dma.count /\ ~dma'.wait
      /\ dma'.read_buffer = <<dma.page, dma.count>>
  <2>1. <<dma.page, dma.count>> \in MemoryBytes
    BY <1>2 DEF MemoryBytes, DmaType
  <2> QED BY <1>1, <1>2, <2>1 DEF DmaType
<1>5. stolen' = stolen + 1
  BY <1>1, <1>4, DmaDotGives
<1>6. TypeOK'
  BY <1>1, <1>2, <1>3, <1>4, <1>5 DEF TypeOK, CpuType, DmaType
<1>7. stolen \in {2 * dma.count + 1, 2 * dma.count + 2}
  <2>1. dma.count \in Int
    BY <1>2, EmulatorAssumption DEF DmaType, OamAddresses
  <2> QED BY <1>1, <2>1 DEF IInv, DmaPace
<1>8. DmaPace'
  <2>1. dma.count \in Int
    BY <1>2, EmulatorAssumption DEF DmaType, OamAddresses
  <2> QED BY <1>2, <1>3, <1>4, <1>5, <1>7, <2>1 DEF DmaPace
<1>9. DmaFresh'
  BY <1>4 DEF DmaFresh
<1>10. DmaInOrder'
  BY <1>1, <1>4 DEF IInv, DmaInOrder, CopiedSoFar
<1> QED BY <1>3, <1>6, <1>8, <1>9, <1>10 DEF IInv

(* The write of the byte read: the bytes in sprite memory are now one more,*)
(* still in order behind the address register.                             *)
LEMMA DmaWriteCopies ==
  ASSUME IInv, DmaWrite
  PROVE  /\ oam' \in OamType /\ dma.count \in 0 .. PAGE - 1
         /\ CopiedSoFar(oam', dma, dma.count + 1)
<1> DEFINE a == oam.address
           b == oam.bytes
           byte == <<dma.page, dma.count>>
           w == Wrote(a, b, byte)
<1>1. dma.active /\ ~dma.wait /\ cpu_clock = 0 /\ oam' = write_oam(oam, dma.read_buffer)
  BY DEF DmaWrite
<1>2. dma.read_buffer = byte
  BY <1>1 DEF IInv, DmaFresh
<1>3. /\ a \in OamAddresses /\ b \in [OamAddresses -> MemoryBytes]
      /\ oam = [address |-> a, bytes |-> b]
      /\ byte \in MemoryBytes /\ dma.count \in 0 .. PAGE - 1
  BY <1>1 DEF IInv, TypeOK, MemoryBytes, OamAddresses
<1>4. oam' = w
  BY <1>1, <1>2, <1>3 DEF Wrote
<1>5. \A i \in 0 .. dma.count - 1 : b[Behind(a, dma.count - i)] = <<dma.page, i>>
  BY <1>1 DEF IInv, DmaInOrder, CopiedSoFar
<1> HIDE DEF a, b, byte, w
<1>6. /\ w \in OamType
      /\ w.bytes[Behind(w.address, 1)] = byte
      /\ \A k \in 1 .. PAGE - 1 : w.bytes[Behind(w.address, k + 1)] = b[Behind(a, k)]
  BY <1>3, WriteOamGives DEF w
<1>7. ASSUME NEW i \in 0 .. dma.count
      PROVE  w.bytes[Behind(w.address, dma.count + 1 - i)] = <<dma.page, i>>
  <2>0. PAGE \in Nat \ {0}
    BY EmulatorAssumption
  <2>1. CASE i = dma.count
    BY <1>3, <1>6, <2>0, <2>1 DEF byte
  <2>2. CASE i # dma.count
    <3> DEFINE k == dma.count - i
    <3>1. k \in 1 .. PAGE - 1 /\ dma.count + 1 - i = k + 1 /\ i \in 0 .. dma.count - 1
      BY <1>3, <2>0, <2>2
    <3>2. b[Behind(a, k)] = <<dma.page, i>>
      BY <1>5, <3>1
    <3> HIDE DEF k
    <3> QED BY <1>6, <3>1, <3>2
  <2> QED BY <2>1, <2>2
<1>8. dma.count + 1 - 1 = dma.count
  BY <1>3, EmulatorAssumption
<1> QED BY <1>3, <1>4, <1>6, <1>7, <1>8 DEF CopiedSoFar

LEMMA DmaWriteKeepsIInv ==
  ASSUME IInv, DmaWrite
  PROVE  IInv'
<1>1. DmaDot /\ dma.active /\ ~dma.wait /\ cpu_clock = 0
      /\ dma' = IF dma.count < PAGE - 1 THEN [dma EXCEPT !.count = @ + 1] ELSE NoDma
  BY DEF DmaWrite
<1>2. TypeOK /\ dma \in DmaType /\ dma.page \in Pages /\ stolen \in Nat
  BY <1>1 DEF IInv, TypeOK, DmaType
<1>3. /\ cpu' \in CpuType /\ ppu' \in PpuType /\ dmc' \in DmcType
      /\ cpu_divider' = 0 /\ cpu_clock' = 1
      /\ DmcNeverStarved' /\ IrqExplained' /\ NothingPending' /\ entered' = None
  BY <1>1, DmaDotGives
<1>4. /\ oam' \in OamType /\ dma.count \in 0 .. PAGE - 1
      /\ CopiedSoFar(oam', dma, dma.count + 1)
  BY DmaWriteCopies
<1>5. stolen \in {2 * dma.count + 2, 2 * dma.count + 3}
  BY <1>1, <1>4, EmulatorAssumption DEF IInv, DmaPace
<1>6. CASE dma.count < PAGE - 1
  <2>1. /\ dma' \in DmaType /\ dma'.active /\ dma'.page = dma.page
        /\ dma'.count = dma.count + 1 /\ ~dma'.wait
    BY <1>1, <1>2, <1>4, <1>6, EmulatorAssumption DEF DmaType, OamAddresses
  <2>2. stolen' = stolen + 1
    BY <1>1, <2>1, DmaDotGives
  <2>3. TypeOK'
    BY <1>2, <1>3, <1>4, <2>1, <2>2 DEF TypeOK, CpuType, DmaType, OamType
  <2>4. DmaPace'
    BY <1>2, <1>3, <1>4, <1>5, <2>1, <2>2, EmulatorAssumption DEF DmaPace
  <2>5. DmaInOrder'
    BY <1>4, <2>1 DEF DmaInOrder, CopiedSoFar
  <2>6. DmaFresh'
    BY <1>3 DEF DmaFresh
  <2> QED BY <1>3, <2>3, <2>4, <2>5, <2>6 DEF IInv
<1>7. CASE ~(dma.count < PAGE - 1)
  <2>1. dma' = NoDma /\ dma' \in DmaType /\ ~dma'.active
    BY <1>1, <1>7, EmulatorAssumption DEF NoDma, DmaType, OamAddresses, MemoryBytes
  <2>2. stolen' = 0
    BY <1>1, <2>1, DmaDotGives
  <2>3. TypeOK'
    BY <1>2, <1>3, <1>4, <2>1, <2>2 DEF TypeOK, CpuType, DmaType, OamType
  <2> QED BY <1>3, <2>1, <2>2, <2>3 DEF IInv, DmaPace, DmaInOrder, DmaFresh
<1> QED BY <1>6, <1>7

-----------------------------------------------------------------------------
(* What the page may do between two cycles. *)
LEMMA ResetKeepsIInv ==
  ASSUME IInv, Reset
  PROVE  IInv'
<1>1. dmc' \in DmcType /\ ~dmc'.irq_pending /\ ~active(dmc')
  <2>1. dmc \in DmcType /\ ~dmc.irq_pending /\ dmc' = write_status(dmc, FALSE)
    BY DEF IInv, TypeOK, NothingPending, Reset
  <2>2. dmc' \in DmcType
    BY <2>1, WriteStatusType
  <2> QED BY <2>1, <2>2 DEF write_status, disable, clear_irq, active, DmcType
<1>2. cpu' \in CpuType /\ cpu'.interrupt = "RESET"
  BY DEF IInv, TypeOK, Reset, interrupt_request, Interrupts, CpuType
<1>3. TypeOK'
  BY <1>1, <1>2 DEF IInv, TypeOK, Reset, CpuType
<1> QED BY <1>1, <1>2, <1>3
  DEF IInv, Reset, DmaInOrder, CopiedSoFar, DmaFresh, DmaPace, DmcNeverStarved,
      IrqExplained, NothingPending

LEMMA PageReadsStatusKeepsIInv ==
  ASSUME IInv, PageReadsStatus
  PROVE  IInv'
<1>1. ppu' \in PpuType
  BY DEF IInv, TypeOK, PageReadsStatus, read_ppustatus, PpuType
<1>2. TypeOK'
  BY <1>1 DEF IInv, TypeOK, PageReadsStatus
<1> QED BY <1>2
  DEF IInv, PageReadsStatus, DmaInOrder, CopiedSoFar, DmaFresh, DmaPace,
      DmcNeverStarved, active, IrqExplained, NothingPending

LEMMA StepKeepsIInv == IInv /\ [Next]_vars => IInv'
<1> SUFFICES ASSUME IInv, [Next]_vars PROVE IInv'
  OBVIOUS
<1>1. CASE DotOnly BY <1>1, DotOnlyKeepsIInv
<1>2. CASE DmaAlign BY <1>2, DmaAlignKeepsIInv
<1>3. CASE DmaRead BY <1>3, DmaReadKeepsIInv
<1>4. CASE DmaWrite BY <1>4, DmaWriteKeepsIInv
<1>5. CASE Busy BY <1>5, BusyKeepsIInv
<1>6. CASE TakeInterrupt BY <1>6, TakeInterruptKeepsIInv
<1>7. CASE IgnoreIrq BY <1>7, IgnoreIrqKeepsIInv
<1>8. CASE Instruction
  BY <1>8, ComputeKeepsIInv, PpuEffectKeepsIInv, OamEffectKeepsIInv,
     WriteOamDmaKeepsIInv, DmcEffectKeepsIInv DEF Instruction
<1>9. CASE Reset BY <1>9, ResetKeepsIInv
<1>10. CASE PageReadsStatus BY <1>10, PageReadsStatusKeepsIInv
<1>11. CASE UNCHANGED vars
  BY <1>11
  DEF IInv, vars, TypeOK, DmaInOrder, CopiedSoFar, DmaFresh, DmaPace,
      DmcNeverStarved, active, IrqExplained, NothingPending
<1> QED BY <1>1, <1>2, <1>3, <1>4, <1>5, <1>6, <1>7, <1>8, <1>9, <1>10, <1>11
  DEF Next, Cycle

(* The inductive invariant of the cycle loop. *)
THEOREM EmulatorInvariant == Spec => []IInv
  BY InitIInv, StepKeepsIInv, PTL DEF Spec

(* Every counter of the machine stays within its width (emulator.rs:5-18). *)
THEOREM EmulatorTypeCorrect == Spec => []TypeOK
  BY EmulatorInvariant, PTL DEF IInv

(* The bytes a sprite DMA has brought lie in page order behind the address *)
(* register (emulator.rs:58-74).                                           *)
THEOREM EmulatorDmaInOrder == Spec => []DmaInOrder
  BY EmulatorInvariant, PTL DEF IInv

(* An active sample of the DMC always has its next byte (emulator.rs:90-93).*)
THEOREM EmulatorDmcFed == Spec => []DmcNeverStarved
  BY EmulatorInvariant, PTL DEF IInv

(* A pending IRQ has its flag up (emulator.rs:95-99, dmc.rs:179-182). *)
THEOREM EmulatorIrqExplained == Spec => []IrqExplained
  BY EmulatorInvariant, PTL DEF IInv

(* Only the write of the last byte ends a DMA. *)
LEMMA DmaEndsWithAWrite ==
  ASSUME IInv, [Next]_vars, dma.active, ~dma'.active
  PROVE  DmaWrite /\ dma.count = PAGE - 1
<1>1. dma \in DmaType
  BY DEF IInv, TypeOK, DmaType
<1>2. DmaWrite
  <2>1. CASE DotOnly BY <2>1 DEF DotOnly
  <2>2. CASE DmaAlign BY <1>1, <2>2 DEF DmaAlign, DmaType
  <2>3. CASE DmaRead BY <1>1, <2>3 DEF DmaRead, DmaType
  <2>4. CASE Busy \/ TakeInterrupt \/ IgnoreIrq
    BY <2>4 DEF Busy, TakeInterrupt, IgnoreIrq, Ready
  <2>5. CASE Instruction
    BY <2>5 DEF Instruction, Compute, WritePpuCtrl, WritePpuMask, ReadPpuStatus,
                UsePpu, WriteOamAddr, WriteOamData, WriteOamDma, UseOam,
                WriteDmcCtrl, WriteDmcSample, WriteApuStatus, UseDmc, Execute, Ready
  <2>6. CASE Reset \/ PageReadsStatus
    BY <2>6 DEF Reset, PageReadsStatus
  <2>7. CASE UNCHANGED vars BY <2>7 DEF vars
  <2> QED BY <2>1, <2>2, <2>3, <2>4, <2>5, <2>6, <2>7 DEF Next, Cycle
<1>3. dma.count \in 0 .. PAGE - 1
  BY <1>1 DEF DmaType, OamAddresses
<1>4. ~(dma.count < PAGE - 1)
  BY <1>1, <1>2 DEF DmaWrite, DmaType
<1> QED BY <1>2, <1>3, <1>4, EmulatorAssumption

(* A sprite DMA that ends has copied the whole page, in order, starting at *)
(* the address register it leaves as it found it (emulator.rs:68-74).      *)
THEOREM EmulatorDmaCopiesPage == Spec => DmaCopiesPage
<1>1. ASSUME IInv, [Next]_vars
      PROVE  dma.active /\ ~dma'.active => CopiedSoFar(oam', dma, PAGE)
  <2> SUFFICES ASSUME dma.active, ~dma'.active
               PROVE  CopiedSoFar(oam', dma, PAGE)
    OBVIOUS
  <2>1. DmaWrite /\ dma.count = PAGE - 1
    BY <1>1, DmaEndsWithAWrite
  <2>2. CopiedSoFar(oam', dma, dma.count + 1)
    BY <1>1, <2>1, DmaWriteCopies
  <2>3. dma.count + 1 = PAGE
    BY <2>1, EmulatorAssumption
  <2> QED BY <2>2, <2>3
<1> QED BY <1>1, EmulatorInvariant, PTL DEF Spec, DmaCopiesPage

(* A sprite DMA takes two cycles a byte and one or two more, whatever the  *)
(* DMC and the raster do meanwhile (emulator.rs:55-76).                    *)
THEOREM EmulatorDmaTime == Spec => DmaTime
<1>1. ASSUME IInv, [Next]_vars
      PROVE  dma.active /\ ~dma'.active =>
               stolen + 1 \in {2 * PAGE + 1, 2 * PAGE + 2}
  <2> SUFFICES ASSUME dma.active, ~dma'.active
               PROVE  stolen + 1 \in {2 * PAGE + 1, 2 * PAGE + 2}
    OBVIOUS
  <2>1. DmaWrite /\ dma.count = PAGE - 1
    BY <1>1, DmaEndsWithAWrite
  <2>2. ~dma.wait /\ cpu_clock = 0
    BY <2>1 DEF DmaWrite
  <2>3. stolen \in {2 * dma.count + 2, 2 * dma.count + 3}
    BY <1>1, <2>1, <2>2, EmulatorAssumption DEF IInv, DmaPace
  <2> QED BY <2>1, <2>3, EmulatorAssumption
<1> QED BY <1>1, EmulatorInvariant, PTL DEF Spec, DmaTime

(* A cycle in which the flag comes up hands the interrupt on. *)
LEMMA CpuDotHandsOn ==
  ASSUME NEW c \in CpuType, NEW p, NEW m \in DmcType, CpuDot(c, p, m),
         ~m.irq_flag, dmc'.irq_flag
  PROVE  cpu'.interrupt = "IRQ"
<1> DEFINE t == cycle_timer(m)
<1>1. t \in DmcType /\ ~t.irq_flag
  BY CycleTimerType, CycleTimerKeeps
<1> HIDE DEF t
<1>2. PICK byte \in SampleBytes :
        LET served == IF WantsByte(t) THEN complete_fetch(t, byte) ELSE t
        IN  /\ dmc' = [served EXCEPT !.irq_pending = FALSE]
            /\ cpu' = [c EXCEPT
                 !.cycles    = IF WantsByte(t) THEN Stall(@) ELSE @,
                 !.interrupt = IF served.irq_pending THEN "IRQ" ELSE @]
  BY DEF CpuDot, Served, Interrupted, Accepted, t
<1> DEFINE f == IF WantsByte(t) THEN complete_fetch(t, byte) ELSE t
<1>3. f \in DmcType
  BY <1>1, CompleteFetchType
<1>4. f.irq_flag => f.irq_pending
  <2>1. CASE WantsByte(t)
    BY <1>1, <2>1, CompleteFetchGives
  <2>2. CASE ~WantsByte(t)
    BY <1>1, <2>2
  <2> QED BY <2>1, <2>2
<1>5. dmc' = [f EXCEPT !.irq_pending = FALSE]
  BY <1>2
<1>6. cpu' = [c EXCEPT !.cycles    = IF WantsByte(t) THEN Stall(@) ELSE @,
                       !.interrupt = IF f.irq_pending THEN "IRQ" ELSE @]
  BY <1>2
<1> HIDE DEF f
<1>7. f.irq_flag
  BY <1>3, <1>5 DEF DmcType
<1> QED BY <1>4, <1>6, <1>7 DEF CpuType

(* A step is a CPU cycle, before whose APU part no flag comes up, or it    *)
(* raises none at all.                                                     *)
LEMMA FlagNeedsCpuDot ==
  ASSUME IInv, [Next]_vars, ~dmc.irq_flag, dmc'.irq_flag
  PROVE  \E c \in CpuType, m \in DmcType : \E p : CpuDot(c, p, m) /\ ~m.irq_flag
<1>1. TypeOK /\ dmc \in DmcType /\ cpu.i_flag \in BOOLEAN
  BY DEF IInv, TypeOK
<1>2. CpuAfterDot \in CpuType /\ Spend(CpuAfterDot) \in CpuType
  BY <1>1, CpuAfterDotType, SpendType
<1>3. ~(DotOnly \/ PageReadsStatus \/ UNCHANGED vars)
  BY DEF DotOnly, PageReadsStatus, vars
<1>4. ~Reset
  BY <1>1 DEF Reset, write_status, disable, clear_irq, DmcType
<1>5. CASE DmaAlign \/ DmaRead \/ DmaWrite
  <2>1. CpuDot(CpuAfterDot, ppu_cycle(ppu), dmc)
    BY <1>5 DEF DmaAlign, DmaRead, DmaWrite, DmaDot
  <2> QED BY <1>1, <1>2, <2>1
<1>6. CASE Busy
  <2>1. CpuDot(Spend(CpuAfterDot), ppu_cycle(ppu), dmc)
    BY <1>6 DEF Busy
  <2> QED BY <1>1, <1>2, <2>1
<1>7. CASE TakeInterrupt
  <2> DEFINE c == [cycles |-> INTERRUPT_LATENCY, interrupt |-> None, i_flag |-> TRUE]
  <2>1. Spend(c) \in CpuType
    <3>1. c \in CpuType
      BY EmulatorAssumption DEF CpuType
    <3> HIDE DEF c
    <3> QED BY <3>1, SpendType
  <2>2. CpuDot(Spend(c), ppu_cycle(ppu), dmc)
    BY <1>7 DEF TakeInterrupt
  <2> HIDE DEF c
  <2> QED BY <1>1, <2>1, <2>2
<1>8. CASE IgnoreIrq
  <2> DEFINE c == interrupt_request(cpu, None)
  <2>1. Spend(c) \in CpuType
    <3>1. c \in CpuType
      BY <1>1 DEF CpuType, TypeOK, interrupt_request
    <3> HIDE DEF c
    <3> QED BY <3>1, SpendType
  <2>2. CpuDot(Spend(c), ppu_cycle(ppu), dmc)
    BY <1>8 DEF IgnoreIrq
  <2> HIDE DEF c
  <2> QED BY <1>1, <2>1, <2>2
<1>9. CASE Instruction
  <2>1. ASSUME NEW effect, NEW i_flag \in BOOLEAN, NEW p, NEW m \in DmcType,
               ~m.irq_flag, Execute(effect, i_flag, p, m)
        PROVE  \E c \in CpuType : CpuDot(c, p, m) /\ ~m.irq_flag
    BY <2>1, ExecuteGives
  <2>2. CASE Compute \/ WritePpuCtrl \/ WritePpuMask \/ ReadPpuStatus
             \/ WriteOamAddr \/ WriteOamData \/ WriteOamDma
    <3>1. PICK effect, i_flag, p : i_flag \in BOOLEAN /\ Execute(effect, i_flag, p, dmc)
      BY <1>1, <2>2 DEF Compute, WritePpuCtrl, WritePpuMask, ReadPpuStatus, UsePpu,
                 WriteOamAddr, WriteOamData, WriteOamDma, UseOam
    <3> QED BY <1>1, <2>1, <3>1
  <2>3. CASE WriteDmcCtrl \/ WriteDmcSample \/ WriteApuStatus
    <3>1. PICK effect, m : m \in DmcType /\ ~m.irq_flag /\ UseDmc(effect, m)
      <4>1. ASSUME NEW data \in CtrlData
            PROVE  write_ctrl(dmc, data) \in DmcType /\ ~write_ctrl(dmc, data).irq_flag
        <5>1. write_ctrl(dmc, data) \in DmcType
          BY <1>1, WriteCtrlType
        <5> QED BY <1>1, <5>1 DEF write_ctrl, DmcType
      <4>2. ASSUME NEW data \in AddressData
            PROVE  write_address(dmc, data) \in DmcType /\ ~write_address(dmc, data).irq_flag
        BY <1>1, WriteAddressType DEF write_address, DmcType
      <4>3. ASSUME NEW data \in LengthData
            PROVE  write_length(dmc, data) \in DmcType /\ ~write_length(dmc, data).irq_flag
        BY <1>1, WriteLengthType DEF write_length, DmcType
      <4>4. ASSUME NEW on \in BOOLEAN
            PROVE  write_status(dmc, on) \in DmcType /\ ~write_status(dmc, on).irq_flag
        <5>1. write_status(dmc, on) \in DmcType
          BY <1>1, WriteStatusType
        <5> QED BY <1>1, <5>1 DEF write_status, enable, disable, clear_irq, DmcType
      <4> QED BY <2>3, <4>1, <4>2, <4>3, <4>4
          DEF WriteDmcCtrl, WriteDmcSample, WriteApuStatus
    <3> QED BY <1>1, <2>1, <3>1 DEF UseDmc
  <2> QED BY <1>9, <2>2, <2>3 DEF Instruction
<1> QED BY <1>3, <1>4, <1>5, <1>6, <1>7, <1>8, <1>9 DEF Next, Cycle

(* A sample that ends with interrupts enabled asks the CPU for an IRQ in   *)
(* the same cycle, whatever was in the CPU's slot (emulator.rs:95-99).     *)
THEOREM EmulatorIrqReachesCpu == Spec => IrqReachesCpu
<1>1. ASSUME IInv, [Next]_vars, ~dmc.irq_flag, dmc'.irq_flag
      PROVE  cpu'.interrupt = "IRQ"
  BY <1>1, FlagNeedsCpuDot, CpuDotHandsOn
<1> QED BY <1>1, EmulatorInvariant, PTL DEF Spec, IrqReachesCpu
=============================================================================
