----------------------------- MODULE MCEmulator -----------------------------
(***************************************************************************)
(* Emulator on a small machine: pages of one or two bytes, one-bit sample  *)
(* bytes at three cycles a bit, a stall of one cycle, a raster of three    *)
(* dots by two lines.                                                      *)
(***************************************************************************)
EXTENDS Emulator

MCRates == [i \in 0 .. 0 |-> 3]
MCCtrlData == [irq : BOOLEAN, loop : BOOLEAN, rate : {0}]
MCLoop == [irq : {FALSE}, loop : BOOLEAN, rate : {0}]
MCPages == {0, 1}
MCLengthData == {1}
MCInstructionCycles == {1, 2}
MCSampleBytes == {1}
MCDmaEffects == {"oam_addr", "oam_data", "oam_dma", "dmc_ctrl", "apu_status"}
MCIrqEffects == {"compute", "ppu_ctrl", "ppu_mask", "ppu_status",
                 "dmc_ctrl", "dmc_sample", "apu_status"}
MCNothing == {}
=============================================================================
