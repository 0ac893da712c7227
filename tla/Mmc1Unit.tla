------------------------------ MODULE Mmc1Unit ------------------------------
(***************************************************************************)
(* Mapper 1 (backend/src/cartridge/mapper/_001.rs): four registers behind  *)
(* a serial port.  Registers are sequences of SERIAL_BITS bits (5), bit 0  *)
(* first.  The load register holds a one that reaches bit 0 when all but   *)
(* the last bit of a register have come.                                   *)
(***************************************************************************)
EXTENDS Integers, Sequences

CONSTANT SERIAL_BITS

ASSUME SerialAssumption == SERIAL_BITS \in Nat \ {0}

Serial == [1 .. SERIAL_BITS -> {0, 1}]

(* The ranges of addresses that each register answers to. *)
Regions == {"ctrl", "chr_bank_0", "chr_bank_1", "prg_bank"}

Zero  == [i \in 1 .. SERIAL_BITS |-> 0]
Start == [i \in 1 .. SERIAL_BITS |-> IF i = SERIAL_BITS THEN 1 ELSE 0]
(* 16K banks, the last one fixed, 4K banks of CHR. *)
FirstCtrl == [i \in 1 .. SERIAL_BITS |-> IF i <= 2 THEN 0 ELSE 1]

NewMapper ==
  [load |-> Start,
   registers |-> [r \in Regions |-> IF r = "ctrl" THEN FirstCtrl ELSE Zero]]

MapperType == [load : Serial, registers : [Regions -> Serial]]

Taken(load, bit) ==
  [i \in 1 .. SERIAL_BITS |-> IF i = SERIAL_BITS THEN bit ELSE load[i + 1]]

write_prg_without_reset(m, region, data) ==                       \* mutant
  LET load == Taken(m.load, data % 2)
  IN  IF m.load[1] = 1
      THEN [load |-> Start, registers |-> [m.registers EXCEPT ![region] = load]]
      ELSE [m EXCEPT !.load = load]

write_prg(m, region, data) ==
  LET load == Taken(m.load, data % 2)
  IN  IF data >= 128 THEN [m EXCEPT !.load = Start]
      ELSE IF m.load[1] = 1
      THEN [load |-> Start, registers |-> [m.registers EXCEPT ![region] = load]]
      ELSE [m EXCEPT !.load = load]

save_state(m) == m
load_state(m, data) == data
=============================================================================
