-------------------------------- MODULE Apu --------------------------------
(***************************************************************************)
(* The APU under a program: in every CPU cycle the program may reach one   *)
(* register, then the APU is clocked (emulator.rs, cycle).                 *)
(***************************************************************************)
EXTENDS ApuUnit

CONSTANTS
  EnvelopeReloads,   \* data of $4000, bits 0-3
  LinearReloads,     \* data of $4008, bits 0-6
  Registers          \* the registers the program writes

ASSUME RegistersAssumption ==
  /\ EnvelopeReloads \subseteq Nat /\ LinearReloads \subseteq Nat
  /\ Registers \subseteq {"tone", "triangle", "enable", "frame"}

VARIABLES
  apu,
  enabled      \* history: the channels $4015 has enabled last

apuVars == <<apu, enabled>>

ApuInit == apu = NewApu /\ enabled = {}

(* The program reaches a register that leaves the APU at a. *)
Reach(a) == apu' = cycle(a)

NoAccess == Reach(apu) /\ UNCHANGED enabled

WriteTone ==
  /\ "tone" \in Registers /\ UNCHANGED enabled
  /\ \/ \E halt \in BOOLEAN, n \in EnvelopeReloads : Reach(write_ctrl(apu, halt, n))
     \/ \E i \in DOMAIN LENGTH_TABLE : Reach(tone_write_hi(apu, i))

WriteTriangle ==
  /\ "triangle" \in Registers /\ UNCHANGED enabled
  /\ \/ \E halt \in BOOLEAN, n \in LinearReloads :
          Reach(write_triangle_ctrl(apu, halt, n))
     \/ \E i \in DOMAIN LENGTH_TABLE : Reach(write_triangle_hi(apu, i))

WriteEnable ==
  /\ "enable" \in Registers
  /\ \E channels \in SUBSET {"tone", "triangle"} :
       /\ Reach(write_enable(apu, "tone" \in channels, "triangle" \in channels))
       /\ enabled' = channels

WriteFrame ==
  /\ "frame" \in Registers /\ UNCHANGED enabled
  /\ \E mode \in {"FourStep", "FiveStep"}, inhibit \in BOOLEAN :
       Reach(write_frame(apu, mode, inhibit))

ReadStatus == Reach(read_status(apu)) /\ UNCHANGED enabled

(* Emulator::reset, between two cycles. *)
Reset == apu' = reset(apu) /\ enabled' = {}

Cycle == NoAccess \/ WriteTone \/ WriteTriangle \/ WriteEnable \/ WriteFrame \/ ReadStatus

ApuNext == Cycle \/ Reset

ApuSpec == ApuInit /\ [][ApuNext]_apuVars

(* The emulator keeps cycling. *)
FairApuSpec == ApuSpec /\ WF_apuVars(Cycle)

-----------------------------------------------------------------------------
(* Type invariant of the frame counter and the counters it clocks          *)
(* (apu.rs:89-109, pulse.rs:23-44, triangle.rs:14-24).                     *)
ApuTypeOK ==
  /\ apu.mode \in {"FourStep", "FiveStep"} /\ apu.irq_inhibit \in BOOLEAN
  /\ apu.frame_interrupt \in BOOLEAN /\ apu.odd \in BOOLEAN
  /\ apu.frame \in 0 .. LastStep(apu) - 1
  /\ apu.tone.length \in Nat /\ apu.tone.volume \in 0 .. VOLUME
  /\ apu.tone.envelope_timer \in Nat
  /\ apu.triangle.length \in Nat
  /\ apu.triangle.linear_counter \in Nat
  /\ enabled \subseteq {"tone", "triangle"}

(* apu_test/readme.txt:29 and 34: with interrupts inhibited the frame flag *)
(* is down, whichever of write, sequence and read came last                *)
(* (apu.rs:207-208 and 351-353).                                           *)
InhibitedIsDown == apu.irq_inhibit => ~apu.frame_interrupt

(* apu_test/readme.txt:30-31: the flag comes up at the end of a four-step  *)
(* sequence and at no other time, so never in the five-step mode.          *)
FlagAtTheEnd ==
  [][~apu.frame_interrupt /\ apu'.frame_interrupt =>
       apu'.mode = "FourStep" /\ apu'.frame = 0 /\ apu.frame = STEP_4 - 1]_apuVars

(* A four-step sequence that is not inhibited raises the flag again and    *)
(* again, however often the program reads it away (apu.rs:204-212).        *)
Uninhibited == apu.mode = "FourStep" /\ ~apu.irq_inhibit
SequenceLeftAlone ==
  <>[][apu'.frame = cycle(apu).frame /\ apu'.odd # apu.odd]_apuVars

FlagComesAgain ==
  <>[]Uninhibited /\ SequenceLeftAlone => []<>apu.frame_interrupt

(* Once the program leaves the registers alone every counter comes to its  *)
(* end: a note whose length counter runs goes silent for good, and an      *)
(* envelope without loop fades out, one with loop starts over for ever.    *)
LeftAlone == <>[][apu' \in {cycle(apu), cycle(read_status(apu))}]_apuVars

NotesEnd ==
  LeftAlone => /\ <>[](apu.tone.length_enabled => apu.tone.length = 0)
               /\ <>[](~apu.triangle.halt => apu.triangle.length = 0)

EnvelopeRuns ==
  LeftAlone => <>[](apu.tone.volume = 0) \/ (<>[]apu.tone.envelope_loop
                                             /\ []<>(apu.tone.volume = VOLUME))

=============================================================================
