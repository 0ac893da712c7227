------------------------------ MODULE CpuUnit ------------------------------
(***************************************************************************)
(* The CPU (backend/src/cpu/cpu.rs and instruction.rs) as a record, with   *)
(* one operator per instruction.  The record holds the registers, the      *)
(* pending interrupt and the RAM the instructions reach, the stack page    *)
(* with it.  The status register is the set of its flags; Encoded and      *)
(* Decoded turn it into the byte that the stack holds and back.            *)
(*                                                                         *)
(* Bytes and addresses have the width of the program, 256 and 65536        *)
(* values.  The stack page has STACK bytes (256 in the program) and the    *)
(* stack pointer wraps with it.  An operand is the byte that decode and    *)
(* the read behind it have come to; cycles are the cycle loop's            *)
(* (Emulator.tla) and are left out.                                        *)
(***************************************************************************)
EXTENDS Integers

CONSTANTS
  STACK,      \* bytes of the stack page: 256
  Cells,      \* the other bytes of RAM the program uses
  Vector      \* where the interrupts lead: NMI, IRQ and RESET

ADDRESSES == 65536

Byte    == 0 .. 255
Address == 0 .. ADDRESSES - 1
Interrupts == {"NMI", "IRQ", "RESET"}
None    == "none"

ASSUME CpuAssumption ==
  /\ STACK \in 1 .. 256 /\ STACK > 3
  /\ Cells \subseteq 0 .. 255
  /\ Vector \in [Interrupts -> Address]

STACK_START == 256

Offsets    == 0 .. STACK - 1
StackPage  == {STACK_START + i : i \in Offsets}

High(address)  == address \div 256
Low(address)   == address % 256
Word(hi, lo)   == hi * 256 + lo
Later(address, n) == (address + n) % ADDRESSES

-----------------------------------------------------------------------------
(* The status register and its byte. *)
Flags == {"carry", "zero", "disable", "decimal", "break", "unused",
          "overflow", "negative"}

Weight(flag) ==
  CASE flag = "carry"   -> 1  [] flag = "zero"     -> 2
    [] flag = "disable" -> 4  [] flag = "decimal"  -> 8
    [] flag = "break"   -> 16 [] flag = "unused"   -> 32
    [] flag = "overflow" -> 64 [] flag = "negative" -> 128

Bit(flag, status) == IF flag \in status THEN Weight(flag) ELSE 0

Encoded(status) ==
  Bit("carry", status) + Bit("zero", status) + Bit("disable", status)
    + Bit("decimal", status) + Bit("break", status) + Bit("unused", status)
    + Bit("overflow", status) + Bit("negative", status)

Decoded(byte) == {flag \in Flags : (byte \div Weight(flag)) % 2 = 1}

set_flag(status, flag, condition) ==
  IF condition THEN status \cup {flag} ELSE status \ {flag}

Negative(byte) == byte >= 128

ZeroNegative(status, byte) ==
  set_flag(set_flag(status, "zero", byte = 0), "negative", Negative(byte))

-----------------------------------------------------------------------------
(* Cpu::new, on cleared RAM, with the reset that Emulator::new asks for. *)
NewCpu ==
  [pc |-> 52, sp |-> 0, a |-> 0, x |-> 0, y |-> 0, status |-> {"unused"},
   interrupt |-> "RESET", ram |-> [i \in Cells \cup StackPage |-> 0]]

CpuType ==
  [pc : Address, sp : Offsets, a : Byte, x : Byte, y : Byte,
   status : SUBSET Flags, interrupt : Interrupts \cup {None},
   ram : [Cells \cup StackPage -> Byte]]

(* The stack pointer is the byte the next push fills. *)
Below(sp) == IF sp = 0 THEN STACK - 1 ELSE sp - 1
Above(sp) == IF sp = STACK - 1 THEN 0 ELSE sp + 1

push_stack_first_down(c, byte) ==                                 \* mutant
  [c EXCEPT !.ram = [@ EXCEPT ![STACK_START + Below(c.sp)] = byte],
            !.sp = Below(@)]

push_stack(c, byte) ==
  [c EXCEPT !.ram = [@ EXCEPT ![STACK_START + c.sp] = byte],
            !.sp = Below(@)]

pop_stack(c) == [c EXCEPT !.sp = Above(@)]
Popped(c)    == c.ram[STACK_START + Above(c.sp)]

push_word(c, address) == push_stack(push_stack(c, High(address)), Low(address))
pop_word(c)    == pop_stack(pop_stack(c))
PoppedWord(c)  == Word(Popped(pop_stack(c)), Popped(c))

-----------------------------------------------------------------------------
(* Interrupts.  The byte pushed for an interrupt has the break flag as the *)
(* status has it, the byte pushed by PHP and BRK has it set.               *)
interrupt_request(c, interrupt) == [c EXCEPT !.interrupt = interrupt]

Masked(c) == c.interrupt = "IRQ" /\ "disable" \in c.status

entered(c, interrupt) ==
  [c EXCEPT !.status = @ \cup {"disable"}, !.pc = Vector[interrupt],
            !.interrupt = None]

take_interrupt(c) ==
  IF c.interrupt = "RESET"
  THEN entered([c EXCEPT !.sp = Below(Below(Below(@)))], "RESET")
  ELSE entered(push_stack(push_word(c, c.pc),
                          Encoded(c.status \cup {"unused"})), c.interrupt)

brk(c) ==
  [push_stack(push_word(c, Later(c.pc, 2)),
              Encoded(c.status \cup {"break", "unused"}))
     EXCEPT !.status = @ \cup {"disable"}, !.pc = Vector["IRQ"]]

php(c) == push_stack(c, Encoded(c.status \cup {"break", "unused"}))

plp_taking_all(c) ==                                              \* mutant
  [pop_stack(c) EXCEPT !.status = Decoded(Popped(c))]

plp(c) ==
  [pop_stack(c) EXCEPT
     !.status = (Decoded(Popped(c)) \ {"break", "unused"})
                  \cup (@ \cap {"break", "unused"})]

rti(c) == [pop_word(plp(c)) EXCEPT !.pc = PoppedWord(plp(c))]

jmp(c, address) == [c EXCEPT !.pc = address]

jsr(c, address) == [push_word(c, Later(c.pc, ADDRESSES - 1)) EXCEPT !.pc = address]

rts_to_the_call(c) == [pop_word(c) EXCEPT !.pc = PoppedWord(c)]   \* mutant

rts(c) == [pop_word(c) EXCEPT !.pc = Later(PoppedWord(c), 1)]

pha(c) == push_stack(c, c.a)
pla(c) == [pop_stack(c) EXCEPT !.a = Popped(c),
                               !.status = ZeroNegative(@, Popped(c))]

-----------------------------------------------------------------------------
(* Registers. *)
lda(c, byte) == [c EXCEPT !.a = byte, !.status = ZeroNegative(@, byte)]
ldx(c, byte) == [c EXCEPT !.x = byte, !.status = ZeroNegative(@, byte)]
ldy(c, byte) == [c EXCEPT !.y = byte, !.status = ZeroNegative(@, byte)]

sta(c, cell) == [c EXCEPT !.ram = [@ EXCEPT ![cell] = c.a]]
stx(c, cell) == [c EXCEPT !.ram = [@ EXCEPT ![cell] = c.x]]
sty(c, cell) == [c EXCEPT !.ram = [@ EXCEPT ![cell] = c.y]]

tax(c) == ldx(c, c.a)
tay(c) == ldy(c, c.a)
txa(c) == lda(c, c.x)
tya(c) == lda(c, c.y)
tsx(c) == ldx(c, c.sp)
txs(c) == [c EXCEPT !.sp = c.x % STACK]

inx(c) == ldx(c, (c.x + 1) % 256)
iny(c) == ldy(c, (c.y + 1) % 256)
dex(c) == ldx(c, (c.x + 255) % 256)
dey(c) == ldy(c, (c.y + 255) % 256)

clc(c) == [c EXCEPT !.status = @ \ {"carry"}]
sec(c) == [c EXCEPT !.status = @ \cup {"carry"}]
cli(c) == [c EXCEPT !.status = @ \ {"disable"}]
sei(c) == [c EXCEPT !.status = @ \cup {"disable"}]
clv(c) == [c EXCEPT !.status = @ \ {"overflow"}]
cld(c) == [c EXCEPT !.status = @ \ {"decimal"}]
sed(c) == [c EXCEPT !.status = @ \cup {"decimal"}]
nop(c) == c

-----------------------------------------------------------------------------
(* Arithmetic.  The sum overflows when both terms have the sign the result *)
(* has not; a subtraction adds the complement.                             *)
CarryIn(c) == IF "carry" \in c.status THEN 1 ELSE 0

adc_overflow_on_any_change(c, byte) ==                            \* mutant
  LET res == c.a + byte + CarryIn(c)
  IN  [c EXCEPT
         !.a = res % 256,
         !.status = ZeroNegative(
           set_flag(set_flag(@, "carry", res \div 256 # 0), "overflow",
                    Negative(c.a) # Negative(res % 256)), res % 256)]

adc(c, byte) ==
  LET res == c.a + byte + CarryIn(c)
  IN  [c EXCEPT
         !.a = res % 256,
         !.status = ZeroNegative(
           set_flag(set_flag(@, "carry", res \div 256 # 0), "overflow",
                    /\ Negative(c.a) = Negative(byte)
                    /\ Negative(c.a) # Negative(res % 256)), res % 256)]

sbc(c, byte) == adc(c, 255 - byte)

Compared(c, left, right) ==
  [c EXCEPT !.status = set_flag(ZeroNegative(@, (left - right) % 256),
                                "carry", left >= right)]

cmp(c, byte) == Compared(c, c.a, byte)
cpx(c, byte) == Compared(c, c.x, byte)
cpy(c, byte) == Compared(c, c.y, byte)

(* A bit of the accumulator and a bit of the operand, combined. *)
Places == {1, 2, 4, 8, 16, 32, 64, 128}
Has(byte, place) == (byte \div place) % 2 = 1
Part(place, condition) == IF condition THEN place ELSE 0

Combined(Op(_, _), left, right) ==
  LET At(place) == Part(place, Op(Has(left, place), Has(right, place)))
  IN  At(1) + At(2) + At(4) + At(8) + At(16) + At(32) + At(64) + At(128)

Both(p, q)   == p /\ q
Either(p, q) == p \/ q
Differ(p, q) == p # q

and(c, byte) == lda(c, Combined(Both, c.a, byte))
ora(c, byte) == lda(c, Combined(Either, c.a, byte))
eor(c, byte) == lda(c, Combined(Differ, c.a, byte))

bit(c, byte) ==
  [c EXCEPT !.status =
     set_flag(set_flag(set_flag(@, "zero", Combined(Both, c.a, byte) = 0),
                       "overflow", Has(byte, 64)),
              "negative", Has(byte, 128))]

(* Shifts and counts work on the accumulator or on memory: the byte they   *)
(* make of a byte, and the flags.                                          *)
asl_value(c, byte) == (2 * byte) % 256
rol_value(c, byte) == ((2 * byte) % 256) + CarryIn(c)
lsr_value(c, byte) == byte \div 2
ror_value(c, byte) == (byte \div 2) + 128 * CarryIn(c)

Shifted(c, value, out) ==
  [c EXCEPT !.status = set_flag(ZeroNegative(@, value), "carry", out)]

asl(c, byte) == Shifted(c, asl_value(c, byte), Has(byte, 128))
rol(c, byte) == Shifted(c, rol_value(c, byte), Has(byte, 128))
lsr(c, byte) == Shifted(c, lsr_value(c, byte), Has(byte, 1))
ror(c, byte) == Shifted(c, ror_value(c, byte), Has(byte, 1))

inc_value(byte) == (byte + 1) % 256
dec_value(byte) == (byte + 255) % 256
inc(c, byte) == [c EXCEPT !.status = ZeroNegative(@, inc_value(byte))]
dec(c, byte) == [c EXCEPT !.status = ZeroNegative(@, dec_value(byte))]

-----------------------------------------------------------------------------
(* Branches: the condition that each takes. *)
branch(c, taken, address) == IF taken THEN [c EXCEPT !.pc = address] ELSE c

bcc(c, address) == branch(c, "carry" \notin c.status, address)
bcs(c, address) == branch(c, "carry" \in c.status, address)
bne(c, address) == branch(c, "zero" \notin c.status, address)
beq(c, address) == branch(c, "zero" \in c.status, address)
bpl(c, address) == branch(c, "negative" \notin c.status, address)
bmi(c, address) == branch(c, "negative" \in c.status, address)
bvc(c, address) == branch(c, "overflow" \notin c.status, address)
bvs(c, address) == branch(c, "overflow" \in c.status, address)
=============================================================================
