----------------------------- MODULE SerialPort -----------------------------
(***************************************************************************)
(* What the serial port of a mapper promises: a register is filled by BITS *)
(* writes in a row, first bit lowest; the last of them names the register, *)
(* a reset starts over, and nothing is lost to a saved state: loading one  *)
(* goes on with the bits and registers of the moment it was made.          *)
(***************************************************************************)
EXTENDS Integers, Sequences

CONSTANTS BITS, Registers, Values, Fresh

VARIABLES received, registers, kept

port == <<received, registers, kept>>

Init == /\ received = <<>> /\ registers = Fresh /\ kept = <<>>

Receive(bit, r) ==
  /\ IF Len(received) + 1 < BITS
     THEN received' = Append(received, bit) /\ UNCHANGED registers
     ELSE /\ received' = <<>>
          /\ registers' = [registers EXCEPT ![r] = Append(received, bit)]
  /\ UNCHANGED kept

StartOver == received' = <<>> /\ UNCHANGED <<registers, kept>>

Keep == kept' = <<<<received, registers>>>> /\ UNCHANGED <<received, registers>>

GoBack == /\ kept # <<>>
          /\ received' = kept[1][1] /\ registers' = kept[1][2] /\ UNCHANGED kept

Next == \/ \E bit \in Values, r \in Registers : Receive(bit, r)
        \/ StartOver \/ Keep \/ GoBack

Spec == Init /\ [][Next]_port
=============================================================================
