----------------------------- MODULE PulseUnit -----------------------------
(***************************************************************************)
(* Period, sweep and sequencer of a pulse channel (backend/src/apu/pulse.rs) *)
(* as a record, an operator for each method.  Duty is left out; length and *)
(* envelope are those of ApuUnit's tone.                                   *)
(***************************************************************************)
EXTENDS Integers

CONSTANTS
  PERIODS, LOW,     \* what a period holds, and its low byte: 2048 and 256
  LOWEST,           \* a lower period is mute: 8
  STEPS             \* of the sequencer: 8

ASSUME PulseAssumption ==
  /\ LOW \in Nat \ {0} /\ PERIODS \in Nat /\ PERIODS % LOW = 0
  /\ LOWEST \in 1 .. PERIODS - 1 /\ STEPS \in Nat \ {0}

NewPulse(id) ==
  [id |-> id, step |-> 0, timer |-> 0, timer_reload |-> 0,
   sweep_timer |-> 0, sweep_negate |-> FALSE, sweep_reload |-> 0,
   sweep_shift |-> 0, sweep_enabled |-> FALSE, sweep_reload_flag |-> FALSE]

sweep_target(p) ==
  LET amount == p.timer_reload \div 2 ^ p.sweep_shift
  IN  IF ~p.sweep_negate THEN p.timer_reload + amount
      ELSE p.timer_reload - amount - (IF p.id = 1 THEN 1 ELSE 0)

sweep_muting_too_late(p) ==                                       \* mutant
  p.timer_reload < LOWEST \/ sweep_target(p) > PERIODS

sweep_muting(p) == p.timer_reload < LOWEST \/ sweep_target(p) >= PERIODS

Swept_wrapping(p) ==                                              \* mutant
  IF p.sweep_enabled /\ p.sweep_shift > 0
  THEN sweep_target(p) % PERIODS ELSE p.timer_reload

Swept(p) ==
  IF p.sweep_enabled /\ p.sweep_shift > 0 /\ ~sweep_muting(p)
  THEN sweep_target(p) ELSE p.timer_reload

cycle_sweep(p) ==
  [p EXCEPT
     !.timer_reload      = IF p.sweep_timer = 0 THEN Swept(p) ELSE @,
     !.sweep_timer       = IF @ = 0 \/ p.sweep_reload_flag THEN p.sweep_reload ELSE @ - 1,
     !.sweep_reload_flag = FALSE]

cycle_timer(p) ==
  IF p.timer > 0 THEN [p EXCEPT !.timer = @ - 1]
  ELSE [p EXCEPT !.timer = p.timer_reload, !.step = (@ + 1) % STEPS]

write_sweep(p, enabled, negate, reload, shift) ==                 \* $4001
  [p EXCEPT !.sweep_enabled = enabled, !.sweep_negate = negate,
            !.sweep_reload = reload, !.sweep_shift = shift,
            !.sweep_reload_flag = TRUE]

write_lo(p, data) ==                                              \* $4002
  [p EXCEPT !.timer_reload = @ - (@ % LOW) + data]

write_hi(p, data) ==                                              \* $4003
  LET period == (p.timer_reload % LOW) + data * LOW
  IN  [p EXCEPT !.timer_reload = period, !.timer = period, !.step = 0]
=============================================================================
