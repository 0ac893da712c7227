----------------------------- MODULE NoiseUnit -----------------------------
(***************************************************************************)
(* The shift register of the noise channel (backend/src/apu/noise.rs): 15  *)
(* bits, moved by a timer, with the exclusive or of two of them coming in  *)
(* at the top.  Length and envelope are those of ApuUnit's tone.           *)
(***************************************************************************)
EXTENDS Integers

CONSTANTS WIDTH, LONG, SHORT     \* 15 bits; the second tap, 1 or 6

ASSUME NoiseAssumption ==
  /\ WIDTH \in Nat /\ LONG \in 1 .. WIDTH - 1 /\ SHORT \in 1 .. WIDTH - 1

NewNoise == [lfsr |-> 1, mode |-> FALSE, timer |-> 0, timer_reload |-> 0]

Bit(value, i) == (value \div 2 ^ i) % 2

Feedback_any(a, b) == IF a = 1 \/ b = 1 THEN 1 ELSE 0             \* mutant

Feedback(a, b) == (a + b) % 2

Shifted(n) ==
  LET other == Bit(n.lfsr, IF n.mode THEN SHORT ELSE LONG)
  IN  n.lfsr \div 2 + Feedback(Bit(n.lfsr, 0), other) * 2 ^ (WIDTH - 1)

noise_cycle_timer(n) ==
  IF n.timer > 0 THEN [n EXCEPT !.timer = @ - 1]
  ELSE [n EXCEPT !.timer = n.timer_reload, !.lfsr = Shifted(n)]

write_mode(n, short, period) ==                                   \* $400E
  [n EXCEPT !.mode = short, !.timer_reload = period]
=============================================================================
