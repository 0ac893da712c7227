------------------------------ MODULE ApuUnit ------------------------------
(***************************************************************************)
(* The frame counter of the APU (backend/src/apu/apu.rs) and what it       *)
(* clocks in the channels: length counters and envelopes (pulse.rs,        *)
(* noise.rs; the two are the same code) and the linear counter of the      *)
(* triangle (triangle.rs).  An APU is a record, with one tone channel that *)
(* stands for both pulses and the noise.  Waveforms, sweeps, the DMC and   *)
(* the mixer are not part of it.                                           *)
(*                                                                         *)
(* The steps of the sequence are constants: 3729, 7457, 11186, 14915 and   *)
(* 18641 in the program; VOLUME = 15, and the lengths are those of         *)
(* LENGTH_TABLE.                                                           *)
(***************************************************************************)
EXTENDS Integers

CONSTANTS STEP_1, STEP_2, STEP_3, STEP_4, STEP_5, VOLUME, LENGTH_TABLE

Lengths == {LENGTH_TABLE[i] : i \in DOMAIN LENGTH_TABLE}

ASSUME ApuAssumption ==
  /\ {STEP_1, STEP_2, STEP_3, STEP_4, STEP_5} \subseteq Nat
  /\ 0 < STEP_1 /\ STEP_1 < STEP_2 /\ STEP_2 < STEP_3
  /\ STEP_3 < STEP_4 /\ STEP_4 < STEP_5
  /\ VOLUME \in Nat /\ Lengths \subseteq Nat \ {0}

NewTone ==
  [ length                |-> 0,
    length_enabled        |-> TRUE,
    volume                |-> 0,
    envelope_start        |-> FALSE,
    envelope_timer        |-> 0,
    envelope_timer_reload |-> 0,
    envelope_loop         |-> FALSE ]

NewTriangle ==
  [ length             |-> 0,
    length_enabled     |-> TRUE,
    halt               |-> FALSE,
    linear_counter     |-> 0,
    linear_reload      |-> 0,
    linear_reload_flag |-> FALSE ]

(* Apu::new. *)
NewApu ==
  [ mode            |-> "FiveStep",
    irq_inhibit     |-> FALSE,
    frame_interrupt |-> FALSE,      \* bit 6 of status
    frame           |-> 0,
    odd             |-> FALSE,      \* clock.cycles % 2 = 1
    tone            |-> NewTone,
    triangle        |-> NewTriangle ]

-----------------------------------------------------------------------------
(* Clocks of the channels. *)
tone_cycle_length(t) ==
  IF t.length_enabled /\ t.length > 0 THEN [t EXCEPT !.length = @ - 1] ELSE t

cycle_envelope_without_loop(t) ==                                 \* mutant
  IF t.envelope_start
  THEN [t EXCEPT !.volume         = VOLUME,
                 !.envelope_timer = t.envelope_timer_reload,
                 !.envelope_start = FALSE]
  ELSE IF t.envelope_timer > 0 THEN [t EXCEPT !.envelope_timer = @ - 1]
  ELSE [t EXCEPT !.envelope_timer = t.envelope_timer_reload,
                 !.volume         = IF @ > 0 THEN @ - 1 ELSE VOLUME]

cycle_envelope(t) ==
  IF t.envelope_start
  THEN [t EXCEPT !.volume         = VOLUME,
                 !.envelope_timer = t.envelope_timer_reload,
                 !.envelope_start = FALSE]
  ELSE IF t.envelope_timer > 0 THEN [t EXCEPT !.envelope_timer = @ - 1]
  ELSE [t EXCEPT !.envelope_timer = t.envelope_timer_reload,
                 !.volume         = IF @ > 0 THEN @ - 1
                                    ELSE IF t.envelope_loop THEN VOLUME ELSE 0]

triangle_cycle_length_with_linear(t) ==                           \* mutant
  IF ~t.halt /\ t.length > 0 /\ t.linear_counter > 0
  THEN [t EXCEPT !.length = @ - 1] ELSE t

triangle_cycle_length(t) ==
  IF ~t.halt /\ t.length > 0 THEN [t EXCEPT !.length = @ - 1] ELSE t

cycle_linear(t) ==
  [t EXCEPT !.linear_counter     = IF t.linear_reload_flag THEN t.linear_reload
                                   ELSE IF @ > 0 THEN @ - 1 ELSE 0,
            !.linear_reload_flag = @ /\ t.halt]

tick_quarter_frame(a) ==
  [a EXCEPT !.tone = cycle_envelope(@), !.triangle = cycle_linear(@)]

tick_half_frame(a) ==
  [a EXCEPT !.tone = tone_cycle_length(@), !.triangle = triangle_cycle_length(@)]

-----------------------------------------------------------------------------
(* The sequence. *)
LastStep(a) == IF a.mode = "FourStep" THEN STEP_4 ELSE STEP_5

IsQuarter(a) == a.frame \in {STEP_1, STEP_2, STEP_3, LastStep(a)}
IsHalf(a)    == a.frame \in {STEP_2, LastStep(a)}

EndSequence_in_both_modes(a) ==                                   \* mutant
  [a EXCEPT !.frame = 0, !.frame_interrupt = @ \/ ~a.irq_inhibit]

EndSequence_silent(a) == [a EXCEPT !.frame = 0]                   \* mutant

EndSequence(a) ==
  [a EXCEPT !.frame = 0,
            !.frame_interrupt = @ \/ (a.mode = "FourStep" /\ ~a.irq_inhibit)]

cycle_frame(a) ==
  LET quartered == IF IsQuarter(a) THEN tick_quarter_frame(a) ELSE a
      halved    == IF IsHalf(a) THEN tick_half_frame(quartered) ELSE quartered
  IN  IF a.frame = LastStep(a) THEN EndSequence(halved) ELSE halved

(* Apu::cycle: the sequence moves on every second CPU cycle. *)
cycle(a) ==
  LET clocked == [a EXCEPT !.odd = ~@]
  IN  IF clocked.odd THEN clocked
      ELSE cycle_frame([clocked EXCEPT !.frame = @ + 1])

-----------------------------------------------------------------------------
(* The registers. *)
write_ctrl(a, halt, reload) ==                                    \* $4000
  [a EXCEPT !.tone = [@ EXCEPT !.length_enabled        = ~halt,
                               !.envelope_loop         = halt,
                               !.envelope_timer_reload = reload]]

Loaded(t, i) == IF t.length_enabled THEN LENGTH_TABLE[i] ELSE t.length

tone_write_hi(a, i) ==                                            \* $4003
  [a EXCEPT !.tone = [@ EXCEPT !.length         = Loaded(a.tone, i),
                               !.envelope_start = TRUE]]

write_triangle_ctrl(a, halt, reload) ==                           \* $4008
  [a EXCEPT !.triangle = [@ EXCEPT !.halt           = halt,
                                   !.length_enabled = ~halt,
                                   !.linear_reload  = reload]]

write_triangle_hi(a, i) ==                                        \* $400B
  [a EXCEPT !.triangle = [@ EXCEPT !.length             = Loaded(a.triangle, i),
                                   !.linear_reload_flag = TRUE]]

Switched(t, on) ==
  [t EXCEPT !.length_enabled = on, !.length = IF on THEN @ ELSE 0]

write_enable(a, tone_on, triangle_on) ==                          \* $4015
  [a EXCEPT !.tone     = Switched(@, tone_on),
            !.triangle = Switched(@, triangle_on)]

write_frame_keeping_frame(a, mode, inhibit) ==                    \* mutant
  LET set == [a EXCEPT !.mode            = mode,
                       !.irq_inhibit     = inhibit,
                       !.frame_interrupt = @ /\ ~inhibit]
  IN  IF mode = "FiveStep" THEN tick_half_frame(tick_quarter_frame(set)) ELSE set

write_frame(a, mode, inhibit) ==                                  \* $4017
  LET set == [a EXCEPT !.mode            = mode,
                       !.irq_inhibit     = inhibit,
                       !.frame_interrupt = @ /\ ~inhibit,
                       !.frame           = 0]
  IN  IF mode = "FiveStep" THEN tick_half_frame(tick_quarter_frame(set)) ELSE set

read_status(a) == [a EXCEPT !.frame_interrupt = FALSE]            \* $4015

(* Apu::reset. *)
reset(a) ==
  write_enable([a EXCEPT !.frame_interrupt = FALSE, !.frame = 0], FALSE, FALSE)
=============================================================================
