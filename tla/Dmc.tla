-------------------------------- MODULE Dmc --------------------------------
(***************************************************************************)
(* The delta modulation channel at work.  In every CPU cycle the CPU may   *)
(* write one register, then the APU clocks the output unit, then the       *)
(* emulator serves the memory reader (emulator.rs, cycle): turn says whose *)
(* turn it is.                                                             *)
(***************************************************************************)
EXTENDS DmcUnit, Sequences

VARIABLES
  dmc,    \* the unit
  turn    \* "cpu", "apu" or "fetch"

vars == <<dmc, turn>>

Init == dmc = NewDmc /\ turn = "cpu"

(* The CPU's part of the cycle: a register write, or none. *)
CpuWrite(d) == turn = "cpu" /\ turn' = "apu" /\ dmc' = d

WriteCtrl    == \E data \in CtrlData : CpuWrite(write_ctrl(dmc, data))
WriteDac     == \E level \in 0 .. OUTPUT_MAX : CpuWrite(write_dac(dmc, level))
WriteAddress == \E data \in AddressData : CpuWrite(write_address(dmc, data))
WriteLength  == \E data \in LengthData : CpuWrite(write_length(dmc, data))
WriteStatus  == \E on \in BOOLEAN : CpuWrite(write_status(dmc, on))

Write == WriteCtrl \/ WriteDac \/ WriteAddress \/ WriteLength \/ WriteStatus

NoWrite == CpuWrite(dmc)

(* Apu::cycle clocks the output unit. *)
ClockTimer == /\ turn = "apu" /\ turn' = "fetch"
              /\ dmc' = cycle_timer(dmc)

(* Emulator::cycle serves the reader, then takes the pending interrupt. *)
Serve ==
  /\ turn = "fetch" /\ turn' = "cpu"
  /\ \E byte \in SampleBytes :
       dmc' = [IF WantsByte(dmc) THEN complete_fetch(dmc, byte) ELSE dmc
               EXCEPT !.irq_pending = FALSE]

Next == Write \/ NoWrite \/ ClockTimer \/ Serve

Spec == Init /\ [][Next]_vars

(* The emulator keeps cycling whatever the program does. *)
FairSpec == Spec /\ WF_vars(Write \/ NoWrite) /\ WF_vars(ClockTimer) /\ WF_vars(Serve)

-----------------------------------------------------------------------------
(* Type invariant of the unit (dmc.rs, struct Dmc): the level stays within *)
(* the DAC, the reader within memory, the bit counter within a byte.       *)
TypeOK == /\ dmc \in DmcType
          /\ turn \in {"cpu", "apu", "fetch"}

(* The memory reader keeps up: whenever a CPU cycle is over, a sample that *)
(* has bytes left has one of them in the buffer, so the output unit never  *)
(* finds the buffer empty in mid-sample (emulator.rs:89, fetch_address).   *)
NeverStarved == turn = "cpu" /\ active(dmc) => dmc.sample_buffer.full

(* The interrupt flag is a fact about a finished sample: it is up only     *)
(* while interrupts are enabled and nothing is left to read.  Restarting   *)
(* the sample or disabling the interrupt takes it down (dmc.rs:72-74,      *)
(* 175-185 and apu.rs:344-346).                                            *)
FlagMeansFinished == dmc.irq_flag => dmc.irq_enable /\ ~active(dmc)

(* Once the program leaves the channel alone it settles: a looping sample  *)
(* sounds for ever without a gap, any other one runs out and the output    *)
(* rests for good (dmc.rs:145-152 and 176-185).                            *)
LeftAlone == [][turn = "cpu" => UNCHANGED dmc]_vars

Settles ==
  <>LeftAlone => <>[](dmc.silence) \/ <>[](~dmc.silence /\ dmc.loop_flag)

-----------------------------------------------------------------------------
(* The channel implements the sample player: what is left to read is the   *)
(* walk from current_address, and what is left to play is the low end of   *)
(* the shift register, or rests.                                           *)
MovesLeft ==
  [i \in 1 .. dmc.bits_remaining |->
     IF dmc.silence THEN "rest"
     ELSE IF (dmc.shift_register \div 2 ^ (i - 1)) % 2 = 1 THEN "up" ELSE "down"]

Player == INSTANCE SamplePlayer WITH
  Starts  <- {SAMPLE_BASE} \cup {SAMPLE_BASE + a * ADDRESS_STEP : a \in AddressData},
  Lengths <- {1} \cup {n * LENGTH_STEP + 1 : n \in LengthData},
  script  <- Walk(dmc.current_address, dmc.bytes_remaining),
  waiting <- IF dmc.sample_buffer.full THEN <<dmc.sample_buffer.byte>> ELSE << >>,
  moves   <- MovesLeft,
  level   <- dmc.output

(* Bytes are read in the order of the sample fixed when it started, and    *)
(* every byte read is played once and whole, whatever the program writes   *)
(* to the registers meanwhile.                                             *)
PlaysSamples == Player!Spec
=============================================================================
