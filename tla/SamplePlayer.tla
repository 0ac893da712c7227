---------------------------- MODULE SamplePlayer ----------------------------
(***************************************************************************)
(* What the delta modulation channel promises, without registers, timers   *)
(* or counters.  A sample is the list of addresses still to be read (the   *)
(* script), fixed when it starts.  Bytes are read in the order of the      *)
(* script through a buffer of one byte, and every byte read is played as   *)
(* exactly BITS moves of the level, lowest bit first, with rests when no   *)
(* byte is waiting.                                                        *)
(***************************************************************************)
EXTENDS SampleWalk, Sequences

CONSTANTS BITS, OUTPUT_MAX, Starts, Lengths

VARIABLES
  script,   \* addresses still to be read, in order
  waiting,  \* the byte read and not yet played: <<>> or <<byte>>
  moves,    \* what is left of the byte being played
  level     \* the level of the DAC

vars == <<script, waiting, moves, level>>

Bytes == 0 .. 2 ^ BITS - 1

Samples == {Walk(a, n) : a \in Starts, n \in Lengths}

Rests == [i \in 1 .. BITS |-> "rest"]

Moves(byte) ==
  [i \in 1 .. BITS |-> IF (byte \div 2 ^ (i - 1)) % 2 = 1 THEN "up" ELSE "down"]

Moved(l, m) ==
  CASE m = "up"   /\ l <= OUTPUT_MAX - 2 -> l + 2
    [] m = "down" /\ l >= 2              -> l - 2
    [] OTHER                             -> l

Init == /\ script = << >> /\ waiting = << >> /\ level = 0
        /\ moves = Rests

(* A sample starts only when nothing is left to read. *)
Start == /\ script = << >>
         /\ script' \in Samples
         /\ UNCHANGED <<waiting, moves, level>>

Stop == script' = << >> /\ UNCHANGED <<waiting, moves, level>>

SetLevel == level' \in 0 .. OUTPUT_MAX /\ UNCHANGED <<script, waiting, moves>>

(* One byte is read; after the last one the sample may start again. *)
Read == /\ script # << >> /\ waiting = << >>
        /\ \E byte \in Bytes : waiting' = <<byte>>
        /\ \/ script' = Tail(script)
           \/ Len(script) = 1 /\ script' \in Samples
        /\ UNCHANGED <<moves, level>>

Move == /\ level' = Moved(level, Head(moves))
        /\ IF Len(moves) > 1
           THEN moves' = Tail(moves) /\ UNCHANGED waiting
           ELSE /\ moves' = IF waiting = << >> THEN Rests ELSE Moves(waiting[1])
                /\ waiting' = << >>
        /\ UNCHANGED script

Next == Start \/ Stop \/ SetLevel \/ Read \/ Move

Spec == Init /\ [][Next]_vars
=============================================================================
