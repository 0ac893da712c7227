------------------------------ MODULE DmcUnit ------------------------------
(***************************************************************************)
(* The delta modulation channel of the APU (backend/src/apu/dmc.rs) as a   *)
(* record and one operator per method of Dmc.  Dmc.tla runs the unit on    *)
(* its own; Emulator.tla drives it from the cycle loop.                    *)
(*                                                                         *)
(* A register's data byte is a small natural; the address, length and rate *)
(* it stands for are computed as the setters compute them.  The widths of  *)
(* the hardware are constants: BITS = 8, OUTPUT_MAX = 127,                 *)
(* SAMPLE_BASE = 0xC000, ADDRESS_STEP = 64, LENGTH_STEP = 16,              *)
(* ADDRESS_LAST = 0xFFFF and ADDRESS_WRAP = 0x8000 in the program.         *)
(***************************************************************************)
EXTENDS SampleWalk

CONSTANTS
  BITS,            \* bits of a sample byte, played lowest first
  OUTPUT_MAX,      \* largest level of the DAC
  RATE_TABLE,      \* CPU cycles per output bit, by rate index
  FIRST_RATE,      \* the index of the rate in force at power-up
  SAMPLE_BASE, ADDRESS_STEP, LENGTH_STEP,
  CtrlData,        \* what writes to $4010 set: records [irq, loop, rate]
  AddressData,     \* data bytes written to $4012
  LengthData,      \* data bytes written to $4013
  SampleBytes      \* bytes found in sample memory

Rates == DOMAIN RATE_TABLE
Bytes == 0 .. 2 ^ BITS - 1

(* Widths are positive and a sample address is one the reader can hold. *)
ASSUME DmcAssumption ==
  /\ BITS \in Nat \ {0}
  /\ OUTPUT_MAX \in Nat
  /\ RATE_TABLE \in [Rates -> Nat \ {0}]
  /\ FIRST_RATE \in Rates
  /\ CtrlData \subseteq [irq : BOOLEAN, loop : BOOLEAN, rate : Rates]
  /\ SAMPLE_BASE \in Nat /\ ADDRESS_STEP \in Nat /\ LENGTH_STEP \in Nat
  /\ ADDRESS_LAST \in Nat /\ ADDRESS_WRAP \in 0 .. ADDRESS_LAST
  /\ SAMPLE_BASE \in 0 .. ADDRESS_LAST
  /\ SampleBytes \subseteq Bytes /\ SampleBytes # {}
  /\ AddressData \subseteq Nat /\ LengthData \subseteq Nat
  /\ \A a \in AddressData : SAMPLE_BASE + a * ADDRESS_STEP \in 0 .. ADDRESS_LAST
  /\ \A n \in LengthData : n * LENGTH_STEP + 1 \in Nat

Addresses == 0 .. ADDRESS_LAST

Empty == [full |-> FALSE, byte |-> 0]                 \* Option<u8>: None
Holding(byte) == [full |-> TRUE, byte |-> byte]       \* Option<u8>: Some(byte)

(***************************************************************************)
(* Dmc::new.                                                               *)
(***************************************************************************)
NewDmc ==
  [ irq_enable      |-> FALSE,
    irq_flag        |-> FALSE,
    irq_pending     |-> FALSE,
    loop_flag       |-> FALSE,
    timer           |-> 0,
    timer_reload    |-> RATE_TABLE[FIRST_RATE] - 1,
    output          |-> 0,
    sample_address  |-> SAMPLE_BASE,
    sample_length   |-> 1,
    current_address |-> SAMPLE_BASE,
    bytes_remaining |-> 0,
    sample_buffer   |-> Empty,
    shift_register  |-> 0,
    bits_remaining  |-> BITS,
    silence         |-> TRUE ]

(* The values the fields range over. *)
DmcType ==
  [ irq_enable      : BOOLEAN,
    irq_flag        : BOOLEAN,
    irq_pending     : BOOLEAN,
    loop_flag       : BOOLEAN,
    timer           : Nat,
    timer_reload    : Nat,
    output          : 0 .. OUTPUT_MAX,
    sample_address  : Addresses,
    sample_length   : Nat \ {0},
    current_address : Addresses,
    bytes_remaining : Nat,
    sample_buffer   : [full : BOOLEAN, byte : Bytes],
    shift_register  : Bytes,
    bits_remaining  : 1 .. BITS,
    silence         : BOOLEAN ]

-----------------------------------------------------------------------------
(***************************************************************************)
(* The registers.                                                          *)
(***************************************************************************)
write_ctrl(d, data) ==
  [d EXCEPT !.irq_enable   = data.irq,
            !.loop_flag    = data.loop,
            !.timer_reload = RATE_TABLE[data.rate] - 1,
            !.irq_flag     = @ /\ data.irq]

write_dac(d, level) == [d EXCEPT !.output = level]

write_address(d, data) ==
  [d EXCEPT !.sample_address = SAMPLE_BASE + data * ADDRESS_STEP]

write_length(d, data) == [d EXCEPT !.sample_length = data * LENGTH_STEP + 1]

(* The in-flight sample goes on; an idle channel starts over. *)
enable(d) ==
  IF d.bytes_remaining = 0
  THEN [d EXCEPT !.current_address = d.sample_address,
                 !.bytes_remaining = d.sample_length]
  ELSE d

disable(d) == [d EXCEPT !.bytes_remaining = 0]

clear_irq(d) == [d EXCEPT !.irq_flag = FALSE]

active(d) == d.bytes_remaining > 0

(* The channel's part of a write to $4015 (Apu::write). *)
write_status_keeping_irq(d, on) == IF on THEN enable(d) ELSE disable(d) \* mutant

write_status(d, on) == clear_irq(IF on THEN enable(d) ELSE disable(d))

-----------------------------------------------------------------------------
(***************************************************************************)
(* The output unit: the timer divides CPU cycles into output bits, every   *)
(* bit moves the level by two and the register shifts, and after the last  *)
(* bit the buffered byte, if there is one, moves into the register.        *)
(***************************************************************************)
LevelAfter(d) ==
  CASE d.silence                                              -> d.output
    [] ~d.silence /\ d.shift_register % 2 = 1 /\
         d.output <= OUTPUT_MAX - 2                           -> d.output + 2
    [] ~d.silence /\ d.shift_register % 2 = 0 /\
         d.output >= 2                                        -> d.output - 2
    [] OTHER                                                  -> d.output

start_output_cycle_still_sounding(d) ==                             \* mutant
  [d EXCEPT !.bits_remaining = BITS,
            !.sample_buffer  = Empty,
            !.silence        = @ /\ ~d.sample_buffer.full,
            !.shift_register = IF d.sample_buffer.full
                               THEN d.sample_buffer.byte ELSE @]

start_output_cycle(d) ==
  [d EXCEPT !.bits_remaining = BITS,
            !.sample_buffer  = Empty,
            !.silence        = ~d.sample_buffer.full,
            !.shift_register = IF d.sample_buffer.full
                               THEN d.sample_buffer.byte ELSE @]

clock_output(d) ==
  LET shifted == [d EXCEPT !.output         = LevelAfter(d),
                           !.shift_register = @ \div 2,
                           !.bits_remaining = @ - 1]
  IN  IF shifted.bits_remaining = 0 THEN start_output_cycle(shifted) ELSE shifted

cycle_timer(d) ==
  IF d.timer = 0
  THEN clock_output([d EXCEPT !.timer = d.timer_reload])
  ELSE [d EXCEPT !.timer = @ - 1]

-----------------------------------------------------------------------------
(***************************************************************************)
(* The memory reader.  fetch_address is Some exactly when WantsByte holds; *)
(* the emulator reads the bus at current_address and calls complete_fetch. *)
(***************************************************************************)
WantsByte_but_the_last(d) ==                                        \* mutant
  ~d.sample_buffer.full /\ d.bytes_remaining > 1

WantsByte(d) == ~d.sample_buffer.full /\ d.bytes_remaining > 0

NextAddress_to_zero(a) == IF a = ADDRESS_LAST THEN 0 ELSE a + 1     \* mutant

NextAddress(a) == IF a = ADDRESS_LAST THEN ADDRESS_WRAP ELSE a + 1

complete_fetch(d, byte) ==
  LET last == d.bytes_remaining = 1
      ends == last /\ ~d.loop_flag /\ d.irq_enable
  IN  [d EXCEPT
        !.sample_buffer   = Holding(byte),
        !.current_address = IF last /\ d.loop_flag THEN d.sample_address
                            ELSE NextAddress(@),
        !.bytes_remaining = IF last /\ d.loop_flag THEN d.sample_length
                            ELSE @ - 1,
        !.irq_flag        = @ \/ ends,
        !.irq_pending     = @ \/ ends]
=============================================================================
