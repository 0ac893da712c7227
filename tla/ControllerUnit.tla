--------------------------- MODULE ControllerUnit ---------------------------
(***************************************************************************)
(* A controller (backend/src/input/controller.rs): the page sets its state, *)
(* the program strobes it and shifts the buttons out, one bit a read.  The *)
(* shift register and the state are sequences of bits, bit 0 first; a      *)
(* controller has BUTTONS of them (8).                                     *)
(***************************************************************************)
EXTENDS Integers, Sequences

CONSTANT BUTTONS

ASSUME ButtonsAssumption == BUTTONS \in Nat \ {0}

Buttons  == 1 .. BUTTONS
Report   == [Buttons -> {0, 1}]
Released == [i \in Buttons |-> 0]

NewController == [shift |-> Released, state |-> Released, strobe |-> FALSE]

ControllerType == [shift : Report, state : Report, strobe : BOOLEAN]

(* One place towards bit 0, with a one behind. *)
MovedWith(bits, last) ==
  [i \in Buttons |-> IF i = BUTTONS THEN last ELSE bits[i + 1]]

(* The register a read shifts out, and what read returns of it. *)
Presented(p) == IF p.strobe THEN p.state ELSE p.shift

read_data(p) == Presented(p)[1]

read(p) == [p EXCEPT !.shift = MovedWith(Presented(p), 1)]

peek(p) == p.state

write(p, data) ==
  [p EXCEPT !.strobe = data % 2 = 1,
            !.shift = IF data % 2 = 1 THEN p.state ELSE @]

update_through(p, state) == [p EXCEPT !.state = state, !.shift = state] \* mutant

update(p, state) == [p EXCEPT !.state = state]
=============================================================================
