------------------------------- MODULE Sound -------------------------------
(***************************************************************************)
(* What becomes of the sound between the registers and the page: a pulse   *)
(* under its sweep (PulseUnit), the noise (NoiseUnit) and the moments at   *)
(* which the emulator takes a sample (backend/src/emulator.rs, the end of  *)
(* cycle).  They share no state, so a behaviour looks at one part of them. *)
(*                                                                         *)
(* The program writes registers between any two clocks.  A pulse is clocked *)
(* by its timer and, when is left open, by the half frames of the frame    *)
(* counter (Apu).  The accumulator of samples gains the sample rate with   *)
(* every dot and loses the dots of a second with every sample; a saved     *)
(* state keeps it.                                                         *)
(***************************************************************************)
EXTENDS PulseUnit, NoiseUnit

CONSTANTS
  Lows, Highs, Shifts, Reloads,   \* what the program writes to a pulse
  NoisePeriods,                   \* NOISE_PERIODS_NTSC
  SAMPLE_THRESHOLD,               \* dots in a second: 5369318
  SampleRates,                    \* of the page's audio context
  LAST_DOT                        \* bound: dots since power-up

ASSUME SoundAssumption ==
  /\ Lows \subseteq 0 .. LOW - 1 /\ Highs \subseteq 0 .. (PERIODS \div LOW) - 1
  /\ Shifts \subseteq Nat /\ Reloads \subseteq Nat /\ NoisePeriods \subseteq Nat
  /\ SAMPLE_THRESHOLD \in Nat \ {0} /\ SampleRates \subseteq 1 .. SAMPLE_THRESHOLD
  /\ LAST_DOT \in Nat

VARIABLES
  part,             \* which part of the sound this behaviour looks at
  pulse, noise,
  emulator,         \* sample_rate and sample_accumulator
  dots, samples,    \* history: how many there have been
  saved             \* the saved state and the history it stands for, or none

vars == <<part, pulse, noise, emulator, dots, samples, saved>>

Init ==
  /\ part \in {"pulse", "noise", "samples"}
  /\ \E id \in IF part = "pulse" THEN {1, 2} ELSE {1} : pulse = NewPulse(id)
  /\ noise = NewNoise
  /\ emulator \in [sample_rate : SampleRates, sample_accumulator : {0}]
  /\ part = "samples" \/ \A rate \in SampleRates : rate <= emulator.sample_rate
  /\ dots = 0 /\ samples = 0 /\ saved = <<>>

-----------------------------------------------------------------------------
OfPulse(p) ==
  /\ part = "pulse" /\ pulse' = p
  /\ UNCHANGED <<part, noise, emulator, dots, samples, saved>>

CycleTimer == OfPulse(cycle_timer(pulse))
HalfFrame  == OfPulse(cycle_sweep(pulse))

WriteSweep ==
  \E enabled, negate \in BOOLEAN, reload \in Reloads, shift \in Shifts :
    OfPulse(write_sweep(pulse, enabled, negate, reload, shift))

WriteLow  == \E data \in Lows : OfPulse(write_lo(pulse, data))
WriteHigh == \E data \in Highs : OfPulse(write_hi(pulse, data))

OfNoise(n) ==
  /\ part = "noise" /\ noise' = n
  /\ UNCHANGED <<part, pulse, emulator, dots, samples, saved>>

(* A cycle in which the program may write the register first. *)
CycleNoise ==
  \/ OfNoise(noise_cycle_timer(noise))
  \/ \E short \in BOOLEAN, period \in NoisePeriods :
       OfNoise(noise_cycle_timer(write_mode(noise, short, period)))

Rest_forgotten(accumulator) == 0                                  \* mutant

Rest(accumulator) == accumulator - SAMPLE_THRESHOLD

CycleDot ==
  LET sum   == emulator.sample_accumulator + emulator.sample_rate
      fired == sum >= SAMPLE_THRESHOLD
  IN  /\ part = "samples" /\ dots < LAST_DOT /\ dots' = dots + 1
      /\ emulator' = [emulator EXCEPT
                        !.sample_accumulator = IF fired THEN Rest(sum) ELSE sum]
      /\ samples' = IF fired THEN samples + 1 ELSE samples
      /\ UNCHANGED <<part, pulse, noise, saved>>

SaveState ==
  /\ part = "samples"
  /\ saved' = <<[sample_accumulator |-> emulator.sample_accumulator,
                 dots |-> dots, samples |-> samples]>>
  /\ UNCHANGED <<part, pulse, noise, emulator, dots, samples>>

LoadState ==
  /\ saved # <<>>
  /\ emulator' = [emulator EXCEPT !.sample_accumulator = saved[1].sample_accumulator]
  /\ dots' = saved[1].dots /\ samples' = saved[1].samples
  /\ UNCHANGED <<part, pulse, noise, saved>>

Clocks == CycleTimer \/ HalfFrame

Next ==
  \/ Clocks \/ WriteSweep \/ WriteLow \/ WriteHigh
  \/ CycleNoise
  \/ CycleDot \/ SaveState \/ LoadState

(* The emulator goes on cycling, and the frame counter with it (Apu). *)
Spec ==
  /\ Init /\ [][Next]_vars
  /\ WF_vars(CycleTimer) /\ WF_vars(HalfFrame) /\ WF_vars(CycleNoise)

-----------------------------------------------------------------------------
(* Type invariant.  The period stays within its 11 bits, also when a sweep *)
(* changes it between the writes of its two parts (pulse.rs:105-120); no   *)
(* sequence of shifts in either mode comes to all zeros, "a dead state"    *)
(* (noise.rs:32); one sample a dot is always enough (emulator.rs:102-107). *)
TypeOK ==
  /\ pulse.timer_reload \in 0 .. PERIODS - 1
  /\ pulse.timer \in 0 .. PERIODS - 1 /\ pulse.step \in 0 .. STEPS - 1
  /\ pulse.sweep_timer \in {0} \cup UNION {0 .. r : r \in Reloads}
  /\ noise.lfsr \in 1 .. 2 ^ WIDTH - 1 /\ noise.mode \in BOOLEAN
  /\ noise.timer \in {0} \cup UNION {0 .. p : p \in NoisePeriods}
  /\ emulator.sample_accumulator \in 0 .. SAMPLE_THRESHOLD - 1

(* Left alone a sweep comes to an end: the period stays, as there is       *)
(* nothing left to add or the channel is mute (pulse.rs:128-146).          *)
SweepEnds ==
  <>[][Clocks]_vars => <>[][pulse'.timer_reload = pulse.timer_reload]_vars

(* The noise never freezes into silence or into a level, however often the *)
(* program changes its mode and its period (noise.rs:49-63 and 96-99).     *)
HissesOn ==
  part = "noise" => []<>(Bit(noise.lfsr, 0) = 0) /\ []<>(Bit(noise.lfsr, 0) = 1)

(* The sound keeps time to the dot, however long it runs and whichever     *)
(* states are loaded: after so many dots there have been exactly as many   *)
(* samples as the rate asks for (emulator.rs:13-16, 102-107).              *)
NoDrift == samples = (dots * emulator.sample_rate) \div SAMPLE_THRESHOLD
=============================================================================
