----------------------------- MODULE MCConsole -----------------------------
(***************************************************************************)
(* Console with a stack page of six bytes, controllers of two buttons      *)
(* and mapper registers of three bits.  Each program is one question: the  *)
(* calls and interrupts that nest, the sums, differences and shifts of two *)
(* bytes, what may come between their bytes, the polling of controllers    *)
(* and the writes to the mapper.                                           *)
(***************************************************************************)
EXTENDS Console

MCCells == {16}
MCVector == [NMI |-> 33022, IRQ |-> 33023, RESET |-> 33021]

(* Code lies around the end of a page, 33024. *)
Doing(instructions, last, room, operands, regions, keys) ==
  [does |-> instructions \cup {"JMP"}, code |-> 33021 .. last, targets |-> {33021},
   room |-> room, operands |-> operands, regions |-> regions, keys |-> keys]

Nesting  == Doing({"JSR", "RTS", "SEC", "NMI", "RTI"}, 33024, 6, {0}, {}, {})
Masking  == Doing({"SEI", "CLI", "IRQ", "RTI", "BRK", "NOP", "RESET"}, 33024, 6, {0}, {}, {})
Pulling  == Doing({"LDA", "PHA", "PLA", "PHP", "PLP"}, 33023, 3, {0, 128}, {}, {})
Moving   == Doing({"LDX", "TXS", "TSX", "JSR", "RTS"}, 33024, 6, {0, 1}, {}, {})
Keeping  == Doing({"JSR", "RTS", "SAVE"}, 33025, 6, {0}, {}, {})
Sums     == Doing({"CLC", "SEC", "ADC", "SBC", "LDA"}, 33024, 0, {0, 127, 128, 255}, {}, {})
Broken   == Doing({"CLC", "ADC", "CMP", "NMI", "RTI"}, 33023, 3, {0, 128}, {}, {})
Shifts   == Doing({"LDA", "ASL", "ROL", "LSR", "ROR", "STA"}, 33024, 0, {0, 1, 128, 255}, {}, {})
Between  == Doing({"CLC", "ADC", "STA", "LDX", "DEX", "INX", "BNE", "TXA"}, 33024, 0, {0, 1, 255}, {}, {})
Flagging == Doing({"LDA", "LDY", "CPY", "CMP", "BIT", "BCC", "BEQ", "BVS", "BMI", "CLV"},
                  33024, 0, {0, 64, 255}, {}, {})
Logic    == Doing({"LDA", "AND", "ORA", "EOR", "TAY", "TYA", "CPX", "STX", "STY", "BPL"},
                  33024, 0, {0, 85, 255}, {}, {})
Counting == Doing({"INC", "DEC", "INY", "DEY", "TAX", "BCS", "BVC", "SED", "CLD"},
                  33024, 0, {0, 1, 255}, {}, {})
Polling  == Doing({"LDA", "WRITE_JOY", "READ_JOY"}, 33024, 0, {0, 1}, {}, (0 .. 1) \X (1 .. 2))
Banking  == Doing({"LDA", "WRITE_PRG"}, 33024, 0, {0, 1, 128}, {"ctrl", "prg_bank"}, {})

(* Four times in a row LDA #, STA abs. *)
Turning  ==
  [Doing({"LDA", "WRITE_PRG", "SAVE"}, 33023, 0, {0, 1}, {"chr_bank_0"}, {})
   EXCEPT !.does = @ \ {"JMP"},
          !.code = @ \cup {33026, 33028, 33031, 33033, 33036, 33038, 33041}]

(* LDA #1, STA $4016, TYA, STA $4016, LDA $4016: a strobe and a read, each *)
(* access of the controllers a store or a load.                            *)
Resuming ==
  [Doing({"LDA", "TYA", "WRITE_JOY", "READ_JOY", "SAVE"}, 33023, 0, {0, 1}, {}, {<<0, 1>>})
   EXCEPT !.does = @ \ {"JMP"}, !.code = @ \cup {33026, 33027, 33030, 33033}]

MCPrograms == {Nesting, Masking, Pulling, Moving, Keeping, Sums, Broken, Shifts,
               Flagging, Between, Logic, Counting, Polling, Resuming, Banking, Turning}
=============================================================================
