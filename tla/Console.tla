------------------------------ MODULE Console ------------------------------
(***************************************************************************)
(* The CPU's instructions (CpuUnit) at work on the console: RAM with the   *)
(* stack, the two controllers (ControllerUnit) and the registers of        *)
(* mapper 1 (Mmc1Unit), with interrupts, the page's buttons and its saved  *)
(* states in between.  A step is an instruction or an event; how many      *)
(* cycles it takes is the business of Emulator.                            *)
(*                                                                         *)
(* Memory outside RAM is not modelled as data: an instruction at any place *)
(* of Code is any of those that the program of the behaviour consists of,  *)
(* with any of its operands.  A program pulls from the stack what it has   *)
(* pushed there, in the order of a stack.                                  *)
(***************************************************************************)
EXTENDS CpuUnit, ControllerUnit, Mmc1Unit

CONSTANT
  Programs    \* bound: what a program consists of, instructions and events,
              \* where its code lies and jumps to, the bytes it computes with,
              \* the registers it sets, the room it takes on the stack, and
              \* the keys the user has, each a button of a player

Players == 0 .. 1

ASSUME ConsoleAssumption ==
  \A p \in Programs :
    /\ p.code \subseteq Address /\ p.targets \subseteq p.code
    /\ \A interrupt \in Interrupts : Vector[interrupt] \in p.code
    /\ p.operands \subseteq Byte /\ 0 \in p.operands
    /\ p.regions \subseteq Regions /\ p.room \in 0 .. STACK
    /\ p.keys \subseteq Players \X Buttons

VARIABLES
  cpu, pads, mapper,
  saved,      \* the page's saved state, if it has one
  program,    \* what this behaviour's program consists of
  frames,     \* history: what is on the stack, last pushed first
  chain,      \* history: the number in the making, from CLC or SEC on
  polled      \* history: what each controller was last strobed with, the reads
              \* since, and whether a loaded state tore them apart

Code     == program.code
Targets  == program.targets
Operands == program.operands

machine == <<cpu, pads, mapper>>
history == <<frames, chain>>
vars    == <<machine, saved, program, history, polled>>

NewChain(kind) ==
  [kind |-> kind, weight |-> 1, total |-> 0, signed |-> 0, made |-> 0]

Nothing == NewChain("nothing")

NewPoll(buttons, reads) == [buttons |-> buttons, reads |-> reads, torn |-> FALSE]

Init ==
  /\ cpu = NewCpu /\ pads = [p \in Players |-> NewController]
  /\ mapper = NewMapper /\ saved = <<>> /\ program \in Programs
  /\ frames = <<>> /\ chain = Nothing
  /\ polled = [p \in Players |-> NewPoll(Released, 0)]

-----------------------------------------------------------------------------
(* Execution.  Fetched is the CPU behind an instruction of n bytes.        *)
Fetched(n) == [cpu EXCEPT !.pc = Later(@, n)]

Executes(name, c) ==
  /\ name \in program.does /\ cpu.pc \in Code /\ cpu.interrupt = None
  /\ cpu' = c /\ c.pc \in Code
  /\ UNCHANGED <<saved, program>>

(* The instructions that read a byte, immediate or from memory. *)
Reading == {"ADC", "SBC", "AND", "ORA", "EOR", "BIT", "CMP", "CPX", "CPY",
            "LDA", "LDX", "LDY"}

OnByte(name, c, byte) ==
  CASE name = "ADC" -> adc(c, byte) [] name = "SBC" -> sbc(c, byte)
    [] name = "AND" -> and(c, byte) [] name = "ORA" -> ora(c, byte)
    [] name = "EOR" -> eor(c, byte) [] name = "BIT" -> bit(c, byte)
    [] name = "CMP" -> cmp(c, byte) [] name = "CPX" -> cpx(c, byte)
    [] name = "CPY" -> cpy(c, byte) [] name = "LDA" -> lda(c, byte)
    [] name = "LDX" -> ldx(c, byte) [] name = "LDY" -> ldy(c, byte)

(* The instructions on registers and flags alone. *)
Implied == {"TAX", "TAY", "TXA", "TYA", "TSX", "INX", "INY", "DEX", "DEY",
            "CLC", "SEC", "CLI", "SEI", "CLD", "SED", "CLV", "NOP"}

OnRegisters(name, c) ==
  CASE name = "TAX" -> tax(c) [] name = "TAY" -> tay(c)
    [] name = "TXA" -> txa(c) [] name = "TYA" -> tya(c)
    [] name = "TSX" -> tsx(c) [] name = "NOP" -> nop(c)
    [] name = "INX" -> inx(c) [] name = "INY" -> iny(c)
    [] name = "DEX" -> dex(c) [] name = "DEY" -> dey(c)
    [] name = "CLC" -> clc(c) [] name = "SEC" -> sec(c)
    [] name = "CLI" -> cli(c) [] name = "SEI" -> sei(c)
    [] name = "CLD" -> cld(c) [] name = "SED" -> sed(c)
    [] name = "CLV" -> clv(c)

(* The instructions that make a byte of a byte: the byte and the flags. *)
Modifying == {"ASL", "ROL", "LSR", "ROR", "INC", "DEC"}

ModifiedByte(name, c, byte) ==
  CASE name = "ASL" -> asl_value(c, byte) [] name = "ROL" -> rol_value(c, byte)
    [] name = "LSR" -> lsr_value(c, byte) [] name = "ROR" -> ror_value(c, byte)
    [] name = "INC" -> inc_value(byte)    [] name = "DEC" -> dec_value(byte)

ModifiedFlags(name, c, byte) ==
  CASE name = "ASL" -> asl(c, byte) [] name = "ROL" -> rol(c, byte)
    [] name = "LSR" -> lsr(c, byte) [] name = "ROR" -> ror(c, byte)
    [] name = "INC" -> inc(c, byte) [] name = "DEC" -> dec(c, byte)

Branching == {"BCC", "BCS", "BEQ", "BNE", "BMI", "BPL", "BVC", "BVS"}

OnBranch(name, c, to) ==
  CASE name = "BCC" -> bcc(c, to) [] name = "BCS" -> bcs(c, to)
    [] name = "BEQ" -> beq(c, to) [] name = "BNE" -> bne(c, to)
    [] name = "BMI" -> bmi(c, to) [] name = "BPL" -> bpl(c, to)
    [] name = "BVC" -> bvc(c, to) [] name = "BVS" -> bvs(c, to)

-----------------------------------------------------------------------------
(* The history of a number in the making.  A program adds two numbers of   *)
(* several bytes by CLC and an ADC for each byte, lowest first, subtracts  *)
(* them by SEC and SBCs, doubles one by ASL and ROLs, and halves one, from *)
(* the highest byte down, by LSR and RORs.  total is the result as an      *)
(* integer, signed the same for numbers in two's complement, made what the *)
(* bytes made so far amount to, weight that of the next byte.              *)
Signed(byte) == IF byte >= 128 THEN byte - 256 ELSE byte

Upwards(k, value, signed, result) ==
  [k EXCEPT !.weight = 256 * @, !.made = @ + k.weight * result,
            !.total = @ + k.weight * value,
            !.signed = k.total + k.weight * signed]

Downwards(k, byte, result) ==
  [k EXCEPT !.weight = 256 * @, !.made = 256 * @ + result,
            !.total = 256 * @ + byte]

Continues(kind) == chain.kind = kind /\ chain.weight < 65536

ChainAfterReading(name, byte, result) ==
  CASE name = "ADC" -> IF Continues("sum")
         THEN Upwards(chain, cpu.a + byte, Signed(cpu.a) + Signed(byte), result)
         ELSE Nothing
    [] name = "SBC" -> IF Continues("difference")
         THEN Upwards(chain, cpu.a - byte, Signed(cpu.a) - Signed(byte), result)
         ELSE Nothing
    [] name \in {"BIT", "CMP", "CPX", "CPY"} -> Nothing
    [] OTHER -> chain

ChainAfterFlag(name) ==
  CASE name = "CLC" -> NewChain("sum") [] name = "SEC" -> NewChain("difference")
    [] name = "CLV" -> Nothing [] OTHER -> chain

ChainAfterModifying(name, byte, result) ==
  CASE name = "ASL" -> Upwards(NewChain("double"), 2 * byte, 0, result)
    [] name = "ROL" -> IF Continues("double") THEN Upwards(chain, 2 * byte, 0, result)
                       ELSE Nothing
    [] name = "LSR" -> Downwards(NewChain("half"), byte, result)
    [] name = "ROR" -> IF Continues("half") THEN Downwards(chain, byte, result)
                       ELSE Nothing
    [] OTHER -> chain

-----------------------------------------------------------------------------
(* Instructions that leave the stack and the rest of the console alone.    *)
Inner == UNCHANGED <<pads, mapper, polled, frames>>

(* Bound: arithmetic and index registers keep to the program's bytes. *)
Small(c) == cpu.a \in Operands /\ c.x \in Operands /\ c.y \in Operands

ReadByte(name, length, byte) ==
  LET c == OnByte(name, Fetched(length), byte)
  IN  /\ name = "LDA" \/ Small(c)
      /\ Executes(name, c) /\ Inner
      /\ chain' = ChainAfterReading(name, byte, c.a)

Immediate == \E name \in Reading \ {"BIT"}, byte \in Operands : ReadByte(name, 2, byte)
ReadCell  == \E name \in Reading, cell \in Cells : ReadByte(name, 3, cpu.ram[cell])

OnRegister == \E name \in Implied :
  LET c == OnRegisters(name, Fetched(1))
  IN  Small(c) /\ Executes(name, c) /\ Inner /\ chain' = ChainAfterFlag(name)

ModifyAccumulator == \E name \in Modifying \ {"INC", "DEC"} :
  LET byte == ModifiedByte(name, cpu, cpu.a)
      c    == [ModifiedFlags(name, Fetched(1), cpu.a) EXCEPT !.a = byte]
  IN  /\ Small(c) /\ Executes(name, c) /\ Inner
      /\ chain' = ChainAfterModifying(name, cpu.a, byte)

ModifyCell == \E name \in Modifying, cell \in Cells :
  LET old  == cpu.ram[cell]
      byte == ModifiedByte(name, cpu, old)
      c    == [ModifiedFlags(name, Fetched(3), old) EXCEPT
                 !.ram = [@ EXCEPT ![cell] = byte]]
  IN  /\ old \in Operands /\ Executes(name, c) /\ Inner
      /\ chain' = ChainAfterModifying(name, old, byte)

Store == \E cell \in Cells :
  /\ \/ Executes("STA", sta(Fetched(3), cell))
     \/ Executes("STX", stx(Fetched(3), cell))
     \/ Executes("STY", sty(Fetched(3), cell))
  /\ Inner /\ UNCHANGED chain

Jump == /\ \E to \in Targets :
             \/ Executes("JMP", jmp(Fetched(3), to))
             \/ \E name \in Branching : Executes(name, OnBranch(name, Fetched(2), to))
        /\ Inner /\ UNCHANGED chain

(* A new stack, by TXS, where nothing is left on the old one. *)
MoveStack == /\ frames = <<>> /\ Executes("TXS", txs(Fetched(1)))
             /\ Inner /\ UNCHANGED chain

-----------------------------------------------------------------------------
(* The stack.  A frame says what its bytes are for: where they lead back   *)
(* to, the status or the accumulator they bring back; and what is on the   *)
(* stack from its bytes on.                                                *)
OnStack == IF frames = <<>> THEN <<>> ELSE Head(frames).bytes

Frame(kind, bytes, back) ==
  [kind |-> kind, bytes |-> bytes \o OnStack, back |-> back, status |-> cpu.status,
   a |-> cpu.a, chain |-> chain]

Room(n) == Len(OnStack) + n <= program.room

Pushed(frame) == /\ Len(frame.bytes) <= program.room
                 /\ frames' = <<frame>> \o frames

Pulls(kind) == frames # <<>> /\ Head(frames).kind = kind /\ frames' = Tail(frames)

Outer == UNCHANGED <<pads, mapper, polled>>

(* The byte the stack holds for a status. *)
StatusByte(status, broken) ==
  Encoded((status \ {"break"}) \cup {"unused"} \cup (IF broken THEN {"break"} ELSE {}))

CallFrame(back) ==
  LET last == Later(back, ADDRESSES - 1)
  IN  Frame("call", <<Low(last), High(last)>>, back)

InterruptFrame(back, broken) ==
  Frame("interrupt", <<StatusByte(cpu.status, broken), Low(back), High(back)>>,
        back)

PushAccumulator == /\ Executes("PHA", pha(Fetched(1)))
                   /\ Pushed(Frame("byte", <<cpu.a>>, 0))
                   /\ Outer /\ UNCHANGED chain
PullAccumulator == /\ Executes("PLA", pla(Fetched(1))) /\ Pulls("byte")
                   /\ Outer /\ UNCHANGED chain

PushStatus == /\ Executes("PHP", php(Fetched(1)))
              /\ Pushed(Frame("status", <<StatusByte(cpu.status, TRUE)>>, 0))
              /\ Outer /\ UNCHANGED chain
PullStatus == /\ Executes("PLP", plp(Fetched(1))) /\ Pulls("status")
              /\ Outer /\ chain' = Head(frames).chain

Call == /\ \E to \in Targets : Executes("JSR", jsr(Fetched(3), to))
        /\ Pushed(CallFrame(Later(cpu.pc, 3)))
        /\ Outer /\ UNCHANGED chain
Return == /\ Executes("RTS", rts(Fetched(1))) /\ Pulls("call")
          /\ Outer /\ UNCHANGED chain

(* The code's own place to come back to: three bytes behind the opcode.    *)
Break == /\ Executes("BRK", brk(Fetched(1)))
         /\ Pushed(InterruptFrame(Later(cpu.pc, 3), TRUE))
         /\ Outer /\ chain' = Nothing
ReturnFromInterrupt == /\ Executes("RTI", rti(Fetched(1))) /\ Pulls("interrupt")
                       /\ Outer /\ chain' = Head(frames).chain

-----------------------------------------------------------------------------
(* Interrupts.  Who requests them is in Emulator; Reset is the page's.     *)
Event(name) == name \in program.does /\ UNCHANGED <<saved, program>>

RequestInterrupt == \E interrupt \in {"NMI", "IRQ"} :
  /\ Event(interrupt) /\ Room(3) /\ cpu' = interrupt_request(cpu, interrupt)
  /\ Outer /\ UNCHANGED history

Reset == /\ Event("RESET") /\ cpu' = interrupt_request(cpu, "RESET")
         /\ Outer /\ UNCHANGED history

TakeInterrupt ==
  /\ cpu.interrupt \in {"NMI", "IRQ"} /\ ~Masked(cpu)
  /\ cpu' = take_interrupt(cpu)
  /\ Pushed(InterruptFrame(cpu.pc, FALSE)) /\ chain' = Nothing
  /\ Outer /\ UNCHANGED <<saved, program>>

IgnoreIrq == /\ Masked(cpu) /\ cpu' = [cpu EXCEPT !.interrupt = None]
             /\ Outer /\ UNCHANGED <<saved, program, history>>

(* A reset gives up what is on the stack. *)
TakeReset == /\ cpu.interrupt = "RESET" /\ cpu' = take_interrupt(cpu)
             /\ frames' = <<>> /\ chain' = Nothing
             /\ Outer /\ UNCHANGED <<saved, program>>

-----------------------------------------------------------------------------
(* The controllers: $4016 strobes both, $4016 and $4017 read one each.     *)
StrobePads ==
  /\ Executes("WRITE_JOY", Fetched(3))
  /\ pads' = [p \in Players |-> write(pads[p], cpu.a)]
  /\ polled' = IF cpu.a % 2 = 1
               THEN [p \in Players |-> NewPoll(pads[p].state, 0)]
               ELSE polled
  /\ UNCHANGED <<mapper, history>>

ReadOnceMore(poll) ==
  [poll EXCEPT !.reads = IF @ < BUTTONS THEN @ + 1 ELSE @]

(* A read while the strobe is up takes the buttons anew. *)
ReadPad == \E p \in Players :
  /\ Executes("READ_JOY", lda(Fetched(3), read_data(pads[p])))
  /\ pads' = [pads EXCEPT ![p] = read(@)]
  /\ polled' = [polled EXCEPT ![p] =
       IF pads[p].strobe THEN NewPoll(pads[p].state, 1)
       ELSE ReadOnceMore(@)]
  /\ UNCHANGED <<mapper, history>>

(* Emulator::update_controller: the page presses or releases a key. *)
UpdateController == \E key \in program.keys, pressed \in {0, 1} :
  /\ pads' = [pads EXCEPT ![key[1]] = update(@, [peek(@) EXCEPT ![key[2]] = pressed])]
  /\ UNCHANGED <<cpu, mapper, saved, program, polled, history>>

(* The registers of the mapper, written with the accumulator. *)
WritePrg == \E region \in program.regions :
  /\ Executes("WRITE_PRG", Fetched(3))
  /\ mapper' = write_prg(mapper, region, cpu.a)
  /\ UNCHANGED <<pads, polled, history>>

-----------------------------------------------------------------------------
(* The page's saved state: of the controllers it has the buttons alone     *)
(* (emulator.rs:264 and 390), not the shift register and the strobe.  The  *)
(* histories are saved and go back with it; where that takes a controller  *)
(* to another place of its reads, the register, left behind, is torn from  *)
(* what the program has read.                                              *)
SavedMachine ==
  [cpu |-> cpu, buttons |-> [p \in Players |-> peek(pads[p])],
   mapper |-> save_state(mapper)]

LoadedPads(ps, blob) == [p \in Players |-> update(ps[p], blob.buttons[p])]

SaveState == /\ "SAVE" \in program.does
             /\ saved' = <<[blob |-> SavedMachine, frames |-> frames, chain |-> chain,
                            polled |-> polled]>>
             /\ UNCHANGED <<machine, program, history, polled>>

PollGoneBack(p) == LET before == saved[1].polled[p]
                   IN  [before EXCEPT !.torn = @ \/ before # polled[p]]

LoadState == /\ saved # <<>>
             /\ cpu' = saved[1].blob.cpu
             /\ pads' = LoadedPads(pads, saved[1].blob)
             /\ mapper' = load_state(mapper, saved[1].blob.mapper)
             /\ frames' = saved[1].frames /\ chain' = saved[1].chain
             /\ polled' = [p \in Players |-> PollGoneBack(p)]
             /\ UNCHANGED <<saved, program>>

Instruction ==
  \/ Immediate \/ ReadCell \/ OnRegister \/ ModifyAccumulator \/ ModifyCell
  \/ Store \/ Jump \/ MoveStack
  \/ PushAccumulator \/ PullAccumulator \/ PushStatus \/ PullStatus
  \/ Call \/ Return \/ Break \/ ReturnFromInterrupt
  \/ StrobePads \/ ReadPad \/ WritePrg

Next == \/ Instruction
        \/ RequestInterrupt \/ Reset \/ TakeInterrupt \/ IgnoreIrq \/ TakeReset
        \/ UpdateController \/ SaveState \/ LoadState

Spec == Init /\ [][Next]_vars

-----------------------------------------------------------------------------
(* Type invariant of the console (cpu.rs:25-35, controller.rs:17-21 and    *)
(* _001.rs:7-13): registers keep their widths, and nothing sets the break  *)
(* flag of the status itself.                                              *)
TypeOK ==
  /\ cpu \in CpuType /\ cpu.pc \in Code \cup {NewCpu.pc}
  /\ "break" \notin cpu.status /\ "unused" \in cpu.status
  /\ pads \in [Players -> ControllerType]
  /\ mapper \in MapperType

(* What is on the stack is in memory above the stack pointer, around the   *)
(* end of its page, whatever was pushed and pulled before (cpu.rs:103-149, *)
(* instruction.rs:720-734 and 976-1129): return addresses with their high  *)
(* byte first, one less than the address for a call, and in the status the *)
(* break flag as the one thing that tells BRK from an interrupt.           *)
StackHolds ==
  \A i \in 1 .. Len(OnStack) :
    cpu.ram[STACK_START + ((cpu.sp + i) % STACK)] = OnStack[i]

(* Whatever happened meanwhile, calls and interrupts within calls and      *)
(* interrupts, on a stack that wraps and through a saved state: what comes *)
(* back is what was there (instruction.rs:1105-1129 and 1186-1206).        *)
ComesBack ==
  [][LET top == Head(frames)
     IN  /\ Return => cpu'.pc = top.back
         /\ ReturnFromInterrupt => cpu'.pc = top.back /\ cpu'.status = top.status
         /\ PullStatus => cpu'.status = top.status
         /\ PullAccumulator => cpu'.a = top.a]_vars

(* Numbers of several bytes (instruction.rs:559-617, 1039-1060 and         *)
(* 1134-1219): the bytes made so far, with the carry, are the sum, the     *)
(* difference, the double or the half of the numbers they are made from,   *)
(* and the overflow flag says whether a signed result would fit; loads,    *)
(* stores, branches, counting and interrupts in between change nothing.    *)
Carry == CarryIn(cpu)

Fits(signed, weight) == signed \in 0 - (weight \div 2) .. (weight \div 2) - 1

WideNumbers ==
  /\ chain.kind \in {"sum", "double"} => chain.total = chain.made + Carry * chain.weight
  /\ chain.kind = "difference" => chain.total = chain.made - (1 - Carry) * chain.weight
  /\ chain.kind = "half" => chain.total = 2 * chain.made + Carry
  /\ chain.kind \in {"sum", "difference"} /\ chain.weight > 1
       => ("overflow" \in cpu.status <=> ~Fits(chain.signed, chain.weight))

(* A controller reports the buttons of one moment: what it will shift out  *)
(* is the rest of what the strobe, or the last read under it, took over,   *)
(* and ones behind, whatever the page presses meanwhile (controller.rs:    *)
(* 33-55 and bus.rs:86-89).  It does not hold of reads that a loaded state *)
(* has taken to another place: load_state gives back the buttons alone     *)
(* (emulator.rs:390), so that the program, gone back to its own place in   *)
(* the reads, shifts out what the register holds from after that place,    *)
(* until it strobes again, although emulator.rs:183 speaks of the          *)
(* "complete emulator state".                                              *)
PadReport ==
  \A p \in Players : ~polled[p].torn => \A i \in Buttons :
    pads[p].shift[i] = IF i + polled[p].reads <= BUTTONS
                       THEN polled[p].buttons[i + polled[p].reads] ELSE 1

(* Mapper 1 keeps the promise of a serial port (_001.rs:103-139 and        *)
(* 151-159): received are the bits above the marker of the load register.  *)
(* A write with bit 7 starts over, and what the page saves and loads is    *)
(* kept and gone back to.                                                  *)
Marker(m) == CHOOSE i \in 1 .. SERIAL_BITS :
               m.load[i] = 1 /\ \A j \in 1 .. i - 1 : m.load[j] = 0

Received(m) == SubSeq(m.load, Marker(m) + 1, SERIAL_BITS)

Port == INSTANCE SerialPort WITH
  BITS <- SERIAL_BITS, Values <- {0, 1}, Fresh <- NewMapper.registers,
  Registers <- Regions,
  received <- Received(mapper), registers <- mapper.registers,
  kept <- [i \in DOMAIN saved |-> <<Received(saved[i].blob.mapper),
                                    saved[i].blob.mapper.registers>>]

SerialRefines ==
  /\ Port!Spec
  /\ [][/\ WritePrg /\ cpu.a >= 128 => Port!StartOver
        /\ SaveState => Port!Keep
        /\ LoadState => Port!GoBack]_vars
=============================================================================
