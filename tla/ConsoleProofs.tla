---------------------------- MODULE ConsoleProofs ----------------------------
(***************************************************************************)
(* Theorems about Console, for every set of programs, size of the stack    *)
(* page, number of buttons and width of the mapper's registers: first what *)
(* the operators of CpuUnit keep, then the types, the controllers and the  *)
(* mapper, then the stack and what comes back from it, and at last the     *)
(* numbers that programs make of several bytes.                            *)
(***************************************************************************)
EXTENDS Console, SequenceTheorems, TLAPS

-----------------------------------------------------------------------------
(* Numbers.  Eight bits are found again in the byte they make. *)
Sum(is) ==
  is["carry"] + 2 * is["zero"] + 4 * is["disable"] + 8 * is["decimal"]
    + 16 * is["break"] + 32 * is["unused"] + 64 * is["overflow"] + 128 * is["negative"]

LEMMA EightBits ==
  ASSUME NEW is \in [Flags -> {0, 1}]
  PROVE  /\ Sum(is) \in 0 .. 255
         /\ \A flag \in Flags : (Sum(is) \div Weight(flag)) % 2 = is[flag]
PROOF
  <1> DEFINE a == is["carry"]     b == is["zero"]      c == is["disable"]
             d == is["decimal"]   e == is["break"]     f == is["unused"]
             g == is["overflow"]  h == is["negative"]  n == Sum(is)
  <1>1. /\ a \in {0, 1} /\ b \in {0, 1} /\ c \in {0, 1} /\ d \in {0, 1}
        /\ e \in {0, 1} /\ f \in {0, 1} /\ g \in {0, 1} /\ h \in {0, 1}
    BY DEF Flags
  <1>2. n = a + 2 * b + 4 * c + 8 * d + 16 * e + 32 * f + 64 * g + 128 * h
    BY DEF Sum
  <1>3. /\ n \in 0 .. 255
        /\ (n \div 1) % 2 = a /\ (n \div 2) % 2 = b /\ (n \div 4) % 2 = c
        /\ (n \div 8) % 2 = d /\ (n \div 16) % 2 = e /\ (n \div 32) % 2 = f
        /\ (n \div 64) % 2 = g /\ (n \div 128) % 2 = h
    <2> HIDE DEF a, b, c, d, e, f, g, h, n
    <2> QED  BY <1>1, <1>2
  <1> QED  BY <1>3 DEF Flags, Weight

(* The byte that PHP, BRK and an interrupt push for a status tells all of  *)
(* it: decoded, as PLP and RTI do (instruction.rs:1120-1129 and            *)
(* 1186-1192), it is that status.                                          *)
THEOREM StatusComesBack ==
  ASSUME NEW status \in SUBSET Flags
  PROVE  Encoded(status) \in Byte /\ Decoded(Encoded(status)) = status
PROOF
  <1> DEFINE is == [flag \in Flags |-> IF flag \in status THEN 1 ELSE 0]
  <1>1. is \in [Flags -> {0, 1}]
    OBVIOUS
  <1>2. Encoded(status) = Sum(is)
    BY DEF Encoded, Bit, Weight, Sum, Flags
  <1> HIDE DEF is
  <1>3. /\ Encoded(status) \in 0 .. 255
        /\ \A flag \in Flags : (Encoded(status) \div Weight(flag)) % 2 = is[flag]
    BY <1>1, <1>2, EightBits
  <1> QED  BY <1>3 DEF is, Decoded, Byte

(* An address stays within its sixteen bits, and has two bytes. *)
LEMMA AddressesIsNat == ADDRESSES \in Nat \ {0}
PROOF
  BY DEF ADDRESSES

(* Address is a range of naturals; the lemmas on it hide its size.         *)
LEMMA AddressIsNat ==
  ASSUME NEW address \in Address
  PROVE  address \in Nat /\ address < ADDRESSES
PROOF
  BY AddressesIsNat DEF Address

(* And every natural below the number of addresses is one.                 *)
LEMMA NatIsAddress ==
  ASSUME NEW n \in Nat, n < ADDRESSES
  PROVE  n \in Address
PROOF
  BY AddressesIsNat DEF Address

(* The program counter wraps.                                              *)
LEMMA LaterIsAddress ==
  ASSUME NEW address \in Address, NEW n \in Nat
  PROVE  Later(address, n) \in Address
PROOF
  BY AddressIsNat, AddressesIsNat DEF Later, Address

(* The two bytes that JSR, BRK and an interrupt push.                      *)
LEMMA AddressHasBytes ==
  ASSUME NEW address \in Address
  PROVE  High(address) \in Byte /\ Low(address) \in Byte
PROOF
  <1>1. address \in Nat /\ address < 65536
    BY AddressIsNat DEF ADDRESSES
  <1> QED  BY <1>1 DEF High, Low, Byte

(* The address that RTS and RTI make of two bytes.                         *)
LEMMA BytesMakeAddress ==
  ASSUME NEW hi \in Byte, NEW lo \in Byte
  PROVE  Word(hi, lo) \in Address
PROOF
  <1>1. hi * 256 + lo \in Nat /\ hi * 256 + lo < 65536
    BY DEF Byte
  <1>2. hi * 256 + lo < ADDRESSES
    BY <1>1 DEF ADDRESSES
  <1> QED  BY <1>1, <1>2, NatIsAddress DEF Word

(* A bitwise combination of two bytes is a byte. *)
LEMMA CombinedIsByte ==
  ASSUME NEW left \in Byte, NEW right \in Byte
  PROVE  /\ Combined(Both, left, right) \in Byte
         /\ Combined(Either, left, right) \in Byte
         /\ Combined(Differ, left, right) \in Byte
PROOF
  <1>1. ASSUME NEW a \in {0, 1}, NEW b \in {0, 2}, NEW c \in {0, 4}, NEW d \in {0, 8},
               NEW e \in {0, 16}, NEW f \in {0, 32}, NEW g \in {0, 64}, NEW h \in {0, 128}
        PROVE  a + b + c + d + e + f + g + h \in Byte
    BY DEF Byte
  <1>2. \A place, condition : Part(place, condition) \in {0, place}
    BY DEF Part
  <1> HIDE DEF Part
  <1>3. Combined(Both, left, right) \in Byte
    BY <1>1, <1>2 DEF Combined
  <1>4. Combined(Either, left, right) \in Byte
    BY <1>1, <1>2 DEF Combined
  <1>5. Combined(Differ, left, right) \in Byte
    BY <1>1, <1>2 DEF Combined
  <1> QED  BY <1>3, <1>4, <1>5

-----------------------------------------------------------------------------
(* What every instruction keeps: the widths of the registers, and the two  *)
(* bits of the status that only exist on the stack.                        *)
SaneStatus(status) ==
  status \in SUBSET Flags /\ "break" \notin status /\ "unused" \in status

Sane(c) == c \in CpuType /\ SaneStatus(c.status)

(* Setting or clearing any of the other flags. *)
LEMMA SetFlagSane ==
  ASSUME NEW status, SaneStatus(status),
         NEW flag \in Flags \ {"break", "unused"}, NEW condition
  PROVE  SaneStatus(set_flag(status, flag, condition))
PROOF
  BY DEF SaneStatus, set_flag, Flags

(* The two flags that most instructions set from their result.             *)
LEMMA ZeroNegativeSane ==
  ASSUME NEW status, SaneStatus(status), NEW byte
  PROVE  SaneStatus(ZeroNegative(status, byte))
PROOF
  BY SetFlagSane DEF ZeroNegative, Flags

(* A new status, a new register. *)
LEMMA StatusSane ==
  ASSUME NEW c, Sane(c), NEW status, SaneStatus(status)
  PROVE  Sane([c EXCEPT !.status = status])
PROOF
  BY DEF Sane, SaneStatus, CpuType

(* Loading a register with a byte.                                         *)
LEMMA LoadSane ==
  ASSUME NEW c, Sane(c), NEW byte \in Byte
  PROVE  Sane(lda(c, byte)) /\ Sane(ldx(c, byte)) /\ Sane(ldy(c, byte))
PROOF
  <1>1. SaneStatus(ZeroNegative(c.status, byte))
    BY ZeroNegativeSane DEF Sane
  <1>2. \A status : SaneStatus(status) =>
          /\ Sane([c EXCEPT !.a = byte, !.status = status])
          /\ Sane([c EXCEPT !.x = byte, !.status = status])
          /\ Sane([c EXCEPT !.y = byte, !.status = status])
    BY DEF Sane, SaneStatus, CpuType
  <1> QED  BY <1>1, <1>2 DEF lda, ldx, ldy

(* Storing a register in a cell of RAM.                                    *)
LEMMA StoreSane ==
  ASSUME NEW c, Sane(c), NEW cell \in Cells
  PROVE  Sane(sta(c, cell)) /\ Sane(stx(c, cell)) /\ Sane(sty(c, cell))
PROOF
  BY DEF Sane, CpuType, sta, stx, sty

(* Transfers and counting. *)
LEMMA TransferSane ==
  ASSUME NEW c, Sane(c)
  PROVE  /\ Sane(tax(c)) /\ Sane(tay(c)) /\ Sane(txa(c)) /\ Sane(tya(c))
         /\ Sane(tsx(c)) /\ Sane(txs(c)) /\ Sane(nop(c))
         /\ Sane(inx(c)) /\ Sane(iny(c)) /\ Sane(dex(c)) /\ Sane(dey(c))
PROOF
  <1>1. c.a \in Byte /\ c.x \in Byte /\ c.y \in Byte /\ c.sp \in Byte
    BY CpuAssumption DEF Sane, CpuType, Offsets, Byte
  <1>2. \A n \in Byte : (n + 1) % 256 \in Byte /\ (n + 255) % 256 \in Byte
                        /\ n % STACK \in Offsets
    BY CpuAssumption DEF Byte, Offsets
  <1>3. Sane(txs(c))
    BY <1>1, <1>2 DEF txs, Sane, CpuType
  <1>4. Sane(tax(c)) /\ Sane(tay(c)) /\ Sane(txa(c)) /\ Sane(tya(c)) /\ Sane(tsx(c))
    BY <1>1, LoadSane DEF tax, tay, txa, tya, tsx
  <1>5. Sane(inx(c)) /\ Sane(iny(c)) /\ Sane(dex(c)) /\ Sane(dey(c))
    <2>1. /\ (c.x + 1) % 256 \in Byte /\ (c.x + 255) % 256 \in Byte
          /\ (c.y + 1) % 256 \in Byte /\ (c.y + 255) % 256 \in Byte
      BY <1>1, <1>2
    <2> QED  BY <2>1, LoadSane DEF inx, iny, dex, dey
  <1> QED  BY <1>3, <1>4, <1>5 DEF nop

(* The instructions that set or clear one flag.                            *)
LEMMA FlagSane ==
  ASSUME NEW c, Sane(c)
  PROVE  /\ Sane(clc(c)) /\ Sane(sec(c)) /\ Sane(cli(c)) /\ Sane(sei(c))
         /\ Sane(clv(c)) /\ Sane(cld(c)) /\ Sane(sed(c))
PROOF
  BY DEF clc, sec, cli, sei, clv, cld, sed, Sane, SaneStatus, CpuType, Flags

(* ADC and SBC.                                                            *)
LEMMA ArithmeticSane ==
  ASSUME NEW c, Sane(c), NEW byte \in Byte
  PROVE  Sane(adc(c, byte)) /\ Sane(sbc(c, byte))
PROOF
  <1>1. ASSUME NEW n \in Byte PROVE Sane(adc(c, n))
    <2> DEFINE res == c.a + n + CarryIn(c)
               status == ZeroNegative(
                 set_flag(set_flag(c.status, "carry", res \div 256 # 0), "overflow",
                          /\ Negative(c.a) = Negative(n)
                          /\ Negative(c.a) # Negative(res % 256)), res % 256)
    <2>1. res % 256 \in Byte
      <3>1. c.a \in 0 .. 255 /\ n \in 0 .. 255 /\ CarryIn(c) \in {0, 1}
        BY DEF Sane, CpuType, Byte, CarryIn
      <3>2. \A x, y \in 0 .. 255, z \in {0, 1} : (x + y + z) % 256 \in 0 .. 255
        OBVIOUS
      <3> QED  BY <3>1, <3>2, ZenonT(60) DEF Byte
    <2>2. SaneStatus(status)
      BY SetFlagSane, ZeroNegativeSane, ZenonT(60) DEF Sane, Flags
    <2>3. adc(c, n) = [c EXCEPT !.a = res % 256, !.status = status]
      BY DEF adc
    <2> HIDE DEF res, status
    <2> QED  BY <2>1, <2>2, <2>3, ZenonT(60) DEF Sane, SaneStatus, CpuType
  <1>2. 255 - byte \in Byte
    BY DEF Byte
  <1> QED  BY <1>1, <1>2 DEF sbc

(* AND, ORA, EOR and BIT.                                                  *)
LEMMA LogicSane ==
  ASSUME NEW c, Sane(c), NEW byte \in Byte
  PROVE  /\ Sane(and(c, byte)) /\ Sane(ora(c, byte)) /\ Sane(eor(c, byte))
         /\ Sane(bit(c, byte))
PROOF
  <1>1. c.a \in Byte
    BY DEF Sane, CpuType
  <1>2. SaneStatus(set_flag(set_flag(set_flag(
          c.status, "zero", Combined(Both, c.a, byte) = 0), "overflow", Has(byte, 64)),
          "negative", Has(byte, 128)))
    BY SetFlagSane DEF Sane, Flags
  <1>3. Sane(bit(c, byte))
    BY <1>2, StatusSane DEF bit
  <1> QED  BY <1>1, <1>3, CombinedIsByte, LoadSane DEF and, ora, eor

(* CMP, CPX and CPY.                                                       *)
LEMMA CompareSane ==
  ASSUME NEW c, Sane(c), NEW byte
  PROVE  Sane(cmp(c, byte)) /\ Sane(cpx(c, byte)) /\ Sane(cpy(c, byte))
PROOF
  <1>1. ASSUME NEW left PROVE Sane(Compared(c, left, byte))
    <2>1. SaneStatus(set_flag(ZeroNegative(c.status, (left - byte) % 256),
                              "carry", left >= byte))
      BY SetFlagSane, ZeroNegativeSane DEF Sane, Flags
    <2> QED  BY <2>1, StatusSane DEF Compared
  <1> QED  BY <1>1 DEF cmp, cpx, cpy

(* Shifts and counts make bytes of bytes. *)
LEMMA ModifiedIsByte ==
  ASSUME NEW c, NEW byte \in Byte
  PROVE  /\ asl_value(c, byte) \in Byte /\ rol_value(c, byte) \in Byte
         /\ lsr_value(c, byte) \in Byte /\ ror_value(c, byte) \in Byte
         /\ inc_value(byte) \in Byte /\ dec_value(byte) \in Byte
PROOF
  <1>1. CarryIn(c) \in {0, 1}
    BY DEF CarryIn
  <1>2. \A z \in {0, 1} : /\ ((2 * byte) % 256) + z \in Byte
                          /\ (byte \div 2) + 128 * z \in Byte
    BY DEF Byte
  <1>3. /\ (2 * byte) % 256 \in Byte /\ byte \div 2 \in Byte
        /\ (byte + 1) % 256 \in Byte /\ (byte + 255) % 256 \in Byte
    BY DEF Byte
  <1> QED  BY <1>1, <1>2, <1>3
        DEF asl_value, rol_value, lsr_value, ror_value, inc_value, dec_value

(* The flags of the shifts and counts.                                     *)
LEMMA ModifySane ==
  ASSUME NEW c, Sane(c), NEW byte
  PROVE  /\ Sane(asl(c, byte)) /\ Sane(rol(c, byte)) /\ Sane(lsr(c, byte))
         /\ Sane(ror(c, byte)) /\ Sane(inc(c, byte)) /\ Sane(dec(c, byte))
PROOF
  <1>1. ASSUME NEW value, NEW out PROVE Sane(Shifted(c, value, out))
    <2>1. SaneStatus(set_flag(ZeroNegative(c.status, value), "carry", out))
      BY SetFlagSane, ZeroNegativeSane DEF Sane, Flags
    <2> QED  BY <2>1, StatusSane DEF Shifted
  <1>2. ASSUME NEW value PROVE Sane([c EXCEPT !.status = ZeroNegative(@, value)])
    BY ZeroNegativeSane, StatusSane DEF Sane
  <1> QED  BY <1>1, <1>2 DEF asl, rol, lsr, ror, inc, dec

(* JMP and the branches.                                                   *)
LEMMA JumpSane ==
  ASSUME NEW c, Sane(c), NEW address \in Address
  PROVE  Sane(jmp(c, address)) /\ \A taken : Sane(branch(c, taken, address))
PROOF
  <1>1. Sane([c EXCEPT !.pc = address])
    BY DEF Sane, CpuType
  <1> QED  BY <1>1 DEF jmp, branch

(* Reading the bytes of an instruction.                                    *)
LEMMA FetchSane ==
  ASSUME NEW c, Sane(c), NEW n \in Nat
  PROVE  Sane([c EXCEPT !.pc = Later(@, n)])
PROOF
  <1>1. Later(c.pc, n) \in Address
    BY LaterIsAddress DEF Sane, CpuType
  <1> QED  BY <1>1 DEF Sane, CpuType

-----------------------------------------------------------------------------
(* The stack: the pointer wraps within its page. *)
LEMMA PushSane ==
  ASSUME NEW c, Sane(c), NEW byte \in Byte
  PROVE  /\ Sane(push_stack(c, byte)) /\ Sane(pop_stack(c)) /\ Popped(c) \in Byte
         /\ push_stack(c, byte).pc = c.pc /\ push_stack(c, byte).status = c.status
         /\ pop_stack(c).pc = c.pc /\ pop_stack(c).status = c.status
PROOF
  <1>1. c.sp \in Offsets /\ Below(c.sp) \in Offsets /\ Above(c.sp) \in Offsets
    BY CpuAssumption DEF Sane, CpuType, Offsets, Below, Above
  <1>2. STACK_START + c.sp \in StackPage /\ STACK_START + Above(c.sp) \in StackPage
    BY <1>1 DEF StackPage
  <1> QED  BY <1>1, <1>2 DEF push_stack, pop_stack, Popped, Sane, CpuType

(* Words pushed and popped, with the high byte first on the stack.         *)
LEMMA PushWordSane ==
  ASSUME NEW c, Sane(c), NEW address \in Address
  PROVE  /\ Sane(push_word(c, address)) /\ Sane(pop_word(c))
         /\ PoppedWord(c) \in Address
         /\ push_word(c, address).pc = c.pc /\ push_word(c, address).status = c.status
PROOF
  <1>1. High(address) \in Byte /\ Low(address) \in Byte
    BY AddressHasBytes
  <1>2. 0 \in Byte
    BY DEF Byte
  <1>3. Sane(pop_stack(c)) /\ Popped(c) \in Byte
    BY <1>2, PushSane
  <1>4. Sane(pop_word(c)) /\ Popped(pop_stack(c)) \in Byte
    BY <1>2, <1>3, PushSane DEF pop_word
  <1>5. \A hi, lo \in Byte : Word(hi, lo) \in Address
    BY BytesMakeAddress
  <1> QED  BY <1>1, <1>3, <1>4, <1>5, PushSane DEF push_word, PoppedWord

(* What comes from the stack: PLP leaves the two bits that exist only      *)
(* there as they are.                                                      *)
LEMMA PullSane ==
  ASSUME NEW c, Sane(c)
  PROVE  Sane(plp(c)) /\ Sane(pla(c)) /\ Sane(rti(c)) /\ Sane(rts(c))
PROOF
  <1>1. 0 \in Byte /\ 0 \in Address
    BY AddressesIsNat DEF Byte, Address
  <1>2. /\ Sane(pop_stack(c)) /\ Popped(c) \in Byte
        /\ pop_stack(c).status = c.status
    BY <1>1, PushSane
  <1>3. Sane(plp(c))
    <2>1. SaneStatus((Decoded(Popped(c)) \ {"break", "unused"})
                       \cup (c.status \cap {"break", "unused"}))
      BY DEF Sane, SaneStatus, Decoded, Flags
    <2> QED  BY <1>2, <2>1, StatusSane DEF plp
  <1>4. Sane(pla(c))
    <2>1. pla(c) = lda(pop_stack(c), Popped(c))
      BY <1>2 DEF pla, lda
    <2> QED  BY <1>2, <2>1, LoadSane
  <1>5. \A d : Sane(d) => /\ Sane([pop_word(d) EXCEPT !.pc = PoppedWord(d)])
                          /\ Sane([pop_word(d) EXCEPT !.pc = Later(PoppedWord(d), 1)])
    <2> SUFFICES ASSUME NEW d, Sane(d)
                 PROVE  /\ Sane([pop_word(d) EXCEPT !.pc = PoppedWord(d)])
                        /\ Sane([pop_word(d) EXCEPT !.pc = Later(PoppedWord(d), 1)])
      OBVIOUS
    <2>1. Sane(pop_word(d)) /\ PoppedWord(d) \in Address
      BY <1>1, PushWordSane
    <2>2. Later(PoppedWord(d), 1) \in Address
      BY <2>1, LaterIsAddress
    <2> QED  BY <2>1, <2>2 DEF Sane, CpuType
  <1> QED  BY <1>3, <1>4, <1>5 DEF rti, rts

(* The byte pushed for a status. *)
LEMMA PushStatusSane ==
  ASSUME NEW c, Sane(c), NEW more \in SUBSET Flags
  PROVE  Sane(push_stack(c, Encoded(c.status \cup more)))
PROOF
  <1>1. Encoded(c.status \cup more) \in Byte
    BY StatusComesBack DEF Sane, SaneStatus
  <1> QED  BY <1>1, PushSane

(* Entering an interrupt, for a reset too, and by BRK.                     *)
LEMMA EnterSane ==
  ASSUME NEW c, Sane(c)
  PROVE  /\ Sane(brk(c)) /\ brk(c).pc = Vector["IRQ"]
         /\ \A to \in Address : Sane(jsr(c, to))
         /\ Sane(php(c)) /\ Sane(pha(c))
         /\ c.interrupt \in Interrupts =>
              Sane(take_interrupt(c)) /\ take_interrupt(c).pc = Vector[c.interrupt]
PROOF
  <1>1. c.pc \in Address /\ c.a \in Byte
    BY DEF Sane, CpuType
  <1>2. Later(c.pc, 2) \in Address /\ Later(c.pc, ADDRESSES - 1) \in Address
    BY <1>1, LaterIsAddress, AddressesIsNat
  <1>3. \A d, interrupt : Sane(d) /\ interrupt \in Interrupts =>
          /\ Sane(entered(d, interrupt)) /\ entered(d, interrupt).pc = Vector[interrupt]
    BY CpuAssumption, ZenonT(60) DEF entered, Sane, SaneStatus, CpuType, Flags
  <1>4. Sane(brk(c)) /\ brk(c).pc = Vector["IRQ"]
    <2>1. Sane(push_word(c, Later(c.pc, 2)))
          /\ push_word(c, Later(c.pc, 2)).status = c.status
      BY <1>2, PushWordSane
    <2>2. Sane(push_stack(push_word(c, Later(c.pc, 2)),
                          Encoded(c.status \cup {"break", "unused"})))
      BY <2>1, PushStatusSane DEF Flags
    <2> QED  BY <2>2, CpuAssumption, ZenonT(60)
      DEF brk, Sane, SaneStatus, CpuType, Flags, Interrupts
  <1>5. \A to \in Address : Sane(jsr(c, to))
    BY <1>2, PushWordSane DEF jsr, Sane, CpuType
  <1>6. Sane(php(c)) /\ Sane(pha(c))
    BY <1>1, PushStatusSane, PushSane DEF php, pha, Flags
  <1>7. ASSUME c.interrupt \in Interrupts
        PROVE  Sane(take_interrupt(c)) /\ take_interrupt(c).pc = Vector[c.interrupt]
    <2>1. Sane([c EXCEPT !.sp = Below(Below(Below(@)))])
      BY CpuAssumption DEF Sane, CpuType, Offsets, Below
    <2>2. Sane(push_stack(push_word(c, c.pc), Encoded(c.status \cup {"unused"})))
      BY <1>1, PushWordSane, PushStatusSane DEF Flags
    <2> QED  BY <1>3, <1>7, <2>1, <2>2 DEF take_interrupt
  <1> QED  BY <1>4, <1>5, <1>6, <1>7

-----------------------------------------------------------------------------
(* Arithmetic. *)
OverflowRight(x, y, z) ==
  (Negative(x) = Negative(y) /\ Negative(x) # Negative((x + y + z) % 256))
    <=> Signed(x) + Signed(y) + z \notin -128 .. 127

(* The overflow flag of an addition with carry, from the signs of the      *)
(* terms and of the result, says that the signed result does not fit.      *)
LEMMA OverflowIsRight ==
  ASSUME NEW x \in 0 .. 255, NEW y \in 0 .. 255, NEW z \in {0, 1}
  PROVE  OverflowRight(x, y, z)
PROOF
  <1>1. x + y + z \in 0 .. 511
    OBVIOUS
  <1>2. (x + y + z) % 256 = IF x + y + z >= 256 THEN x + y + z - 256 ELSE x + y + z
    BY <1>1
  <1>3. CASE Negative(x) /\ Negative(y)
    BY <1>1, <1>2, <1>3 DEF Negative, Signed, OverflowRight
  <1>4. CASE Negative(x) /\ ~Negative(y)
    BY <1>1, <1>2, <1>4 DEF Negative, Signed, OverflowRight
  <1>5. CASE ~Negative(x) /\ Negative(y)
    BY <1>1, <1>2, <1>5 DEF Negative, Signed, OverflowRight
  <1>6. CASE ~Negative(x) /\ ~Negative(y)
    BY <1>1, <1>2, <1>6 DEF Negative, Signed, OverflowRight
  <1> QED  BY <1>1, <1>2, <1>3, <1>4, <1>5, <1>6

(* A sum of two bytes and a carry is a byte and a carry.                   *)
LEMMA Halves ==
  ASSUME NEW n \in 0 .. 511
  PROVE  /\ n % 256 \in 0 .. 255 /\ n \div 256 \in {0, 1}
         /\ n = (n % 256) + 256 * (n \div 256)
PROOF
  OBVIOUS

(* Carry and overflow survive the setting of zero and negative.            *)
LEMMA FlagsApart ==
  ASSUME NEW s, NEW n, NEW p \in BOOLEAN, NEW q \in BOOLEAN
  PROVE  /\ "carry" \in ZeroNegative(set_flag(set_flag(s, "carry", p), "overflow", q), n)
              <=> p
         /\ "overflow" \in ZeroNegative(set_flag(set_flag(s, "carry", p), "overflow", q), n)
              <=> q
PROOF
  <1>1. "carry" # "overflow" /\ "carry" # "zero" /\ "carry" # "negative"
        /\ "overflow" # "zero" /\ "overflow" # "negative"
    OBVIOUS
  <1> QED  BY <1>1 DEF ZeroNegative, set_flag

(* Numbers of one byte: ADC (instruction.rs:559-575) leaves the sum of the *)
(* accumulator, the operand and the carry in the accumulator and the new   *)
(* carry, whatever they are, and the overflow flag says that the sum of    *)
(* them as signed numbers does not fit.                                    *)
THEOREM AdcAdds ==
  ASSUME NEW c \in CpuType, NEW byte \in Byte
  PROVE  /\ adc(c, byte).a \in Byte
         /\ adc(c, byte).a + 256 * CarryIn(adc(c, byte)) = c.a + byte + CarryIn(c)
         /\ "overflow" \in adc(c, byte).status
              <=> Signed(c.a) + Signed(byte) + CarryIn(c) \notin -128 .. 127
PROOF
  <1>1. byte \in 0 .. 255
    BY DEF Byte
  <1>2. PICK x \in 0 .. 255 : c.a = x
    BY DEF CpuType, Byte
  <1>3. PICK z \in {0, 1} : CarryIn(c) = z
    BY DEF CarryIn
  <1> DEFINE res == x + byte + z
             p == res \div 256 # 0
             q == Negative(x) = Negative(byte) /\ Negative(x) # Negative(res % 256)
  <1>4. res \in 0 .. 511 /\ (q <=> Signed(x) + Signed(byte) + z \notin -128 .. 127)
    <2>1. res \in 0 .. 511
      BY <1>1
    <2>2. q <=> Signed(x) + Signed(byte) + z \notin -128 .. 127
      <3>1. OverflowRight(x, byte, z)
        BY <1>1, OverflowIsRight
      <3> QED  BY <3>1 DEF OverflowRight
    <2> QED  BY <2>1, <2>2
  <1>5. /\ adc(c, byte).a = res % 256
        /\ adc(c, byte).status = ZeroNegative(
             set_flag(set_flag(c.status, "carry", p), "overflow", q), res % 256)
    BY <1>2, <1>3 DEF adc, CpuType
  <1> HIDE DEF res
  <1>6. /\ "carry" \in adc(c, byte).status <=> p
        /\ "overflow" \in adc(c, byte).status <=> q
    <2>1. p \in BOOLEAN /\ q \in BOOLEAN
      OBVIOUS
    <2> HIDE DEF p, q
    <2> QED  BY <2>1, <1>5, FlagsApart
  <1>7. /\ res % 256 \in 0 .. 255 /\ res \div 256 \in {0, 1}
        /\ res = (res % 256) + 256 * (res \div 256)
    BY <1>4, Halves
  <1>8. adc(c, byte).a + 256 * CarryIn(adc(c, byte)) = res
    <2>1. CarryIn(adc(c, byte)) = res \div 256
      BY <1>6, <1>7 DEF CarryIn
    <2> QED  BY <2>1, <1>5, <1>7
  <1> QED  BY <1>2, <1>3, <1>4, <1>5, <1>6, <1>7, <1>8 DEF res, Byte

(* SBC (instruction.rs:1211-1219) leaves the difference, with the carry as *)
(* the borrow that has not happened, and the overflow flag says that the   *)
(* signed difference does not fit.                                         *)
THEOREM SbcSubtracts ==
  ASSUME NEW c \in CpuType, NEW byte \in Byte
  PROVE  /\ sbc(c, byte).a \in Byte
         /\ sbc(c, byte).a - 256 * (1 - CarryIn(sbc(c, byte)))
              = c.a - byte - (1 - CarryIn(c))
         /\ "overflow" \in sbc(c, byte).status
              <=> Signed(c.a) - Signed(byte) - (1 - CarryIn(c)) \notin -128 .. 127
PROOF
  <1>1. byte \in 0 .. 255 /\ 255 - byte \in Byte
    BY DEF Byte
  <1>2. PICK x \in 0 .. 255 : c.a = x
    BY DEF CpuType, Byte
  <1>3. PICK z \in {0, 1} : CarryIn(c) = z
    BY DEF CarryIn
  <1>4. PICK y \in 0 .. 255 : sbc(c, byte).a = y
    <2>1. adc(c, 255 - byte).a \in Byte
      BY <1>1, AdcAdds
    <2> QED  BY <2>1 DEF sbc, Byte
  <1>5. PICK v \in {0, 1} : CarryIn(sbc(c, byte)) = v
    BY DEF CarryIn
  <1>6. y + 256 * v = x + (255 - byte) + z
    BY <1>1, <1>2, <1>3, <1>4, <1>5, AdcAdds DEF sbc
  <1>7. "overflow" \in sbc(c, byte).status
          <=> Signed(x) + Signed(255 - byte) + z \notin -128 .. 127
    BY <1>1, <1>2, <1>3, AdcAdds DEF sbc
  <1>8. Signed(x) + Signed(255 - byte) + z = Signed(x) - Signed(byte) - (1 - z)
    BY <1>1 DEF Signed
  <1>9. y - 256 * (1 - v) = x - byte - (1 - z)
    BY <1>1, <1>6
  <1> QED  BY <1>2, <1>3, <1>4, <1>5, <1>7, <1>8, <1>9 DEF Byte

-----------------------------------------------------------------------------
(* The controllers.  What a controller will report depends on the shift    *)
(* register and the reads so far; the states of the buttons, the page's    *)
(* and the saved ones, only have to be reports.                            *)
PadsOK   == pads \in [Players -> ControllerType]
Polls    == [buttons : Report, reads : 0 .. BUTTONS, torn : BOOLEAN]
PolledOK == polled \in [Players -> Polls]
SavedOK  == \A i \in DOMAIN saved : /\ saved[i].blob.buttons \in [Players -> Report]
                                    /\ saved[i].polled \in [Players -> Polls]

PadInv == PadsOK /\ PolledOK /\ SavedOK /\ PadReport

(* A read of a controller moves its register by one, with the buttons      *)
(* taken anew under the strobe, and ones behind.                           *)
LEMMA ReadMoves ==
  ASSUME NEW p \in ControllerType
  PROVE  /\ read(p) \in ControllerType
         /\ \A i \in Buttons : read(p).shift[i] =
              IF i = BUTTONS THEN 1
              ELSE IF p.strobe THEN p.state[i + 1] ELSE p.shift[i + 1]
PROOF
  <1>1. \A i \in Buttons : i # BUTTONS => i + 1 \in Buttons
    BY ButtonsAssumption DEF Buttons
  <1>2. Presented(p) \in Report
    BY DEF ControllerType, Presented
  <1>3. MovedWith(Presented(p), 1) \in Report
    BY <1>1, <1>2 DEF MovedWith, Report
  <1> QED  BY <1>3 DEF read, MovedWith, Presented, ControllerType

(* At the start nothing is pressed and nothing read.                       *)
LEMMA PadInvInit == Init => PadInv
PROOF
  <1> SUFFICES ASSUME Init PROVE PadInv
    OBVIOUS
  <1>1. Released \in Report /\ \A i \in Buttons : Released[i] = 0
    BY DEF Released, Report
  <1>2. PadsOK /\ PolledOK /\ SavedOK
    BY <1>1, ButtonsAssumption
    DEF Init, PadsOK, PolledOK, Polls, NewPoll, SavedOK, NewController, ControllerType
  <1>3. \A i \in Buttons : i \in Nat /\ i <= BUTTONS
    BY ButtonsAssumption DEF Buttons
  <1> QED  BY <1>1, <1>2, <1>3 DEF Init, PadInv, PadReport, NewController, NewPoll

(* Only a strobe, a read, the page and a saved state touch a controller.   *)
LEMMA PadInvNext == PadInv /\ [Next]_vars => PadInv'
PROOF
  <1> SUFFICES ASSUME PadInv, [Next]_vars PROVE PadInv'
    OBVIOUS
  <1> USE DEF PadInv
  <1>1. CASE UNCHANGED <<pads, polled, saved>>
    BY <1>1 DEF PadsOK, PolledOK, SavedOK, PadReport
  <1>2. CASE StrobePads
    <2>1. UNCHANGED saved
      BY <1>2 DEF StrobePads, Executes
    <2>2. CASE cpu.a % 2 = 1
      <3>1. /\ pads' = [p \in Players |->
                 [pads[p] EXCEPT !.strobe = TRUE, !.shift = pads[p].state]]
            /\ polled' = [p \in Players |-> NewPoll(pads[p].state, 0)]
        BY <1>2, <2>2 DEF StrobePads, write, PadsOK, ControllerType
      <3>2. \A p \in Players : pads[p] \in ControllerType /\ pads[p].state \in Report
        BY DEF PadsOK, ControllerType
      <3>3. PadsOK'
        BY <3>1, <3>2 DEF PadsOK, ControllerType
      <3>4. PolledOK'
        <4>1. \A p \in Players : NewPoll(pads[p].state, 0) \in Polls
          BY <3>2, ButtonsAssumption DEF NewPoll, Polls
        <4> QED  BY <3>1, <4>1 DEF PolledOK
      <3>5. \A p \in Players : /\ pads'[p].shift = pads[p].state
                              /\ polled'[p].buttons = pads[p].state
                              /\ polled'[p].reads = 0
        BY <3>1, <3>2 DEF ControllerType, NewPoll
      <3>6. \A i \in Buttons : i + 0 = i /\ i <= BUTTONS
        BY ButtonsAssumption DEF Buttons
      <3> QED  BY <2>1, <3>3, <3>4, <3>5, <3>6 DEF SavedOK, PadReport
    <2>3. CASE cpu.a % 2 # 1
      <3>1. /\ pads' = [p \in Players |-> [pads[p] EXCEPT !.strobe = FALSE]]
            /\ polled' = polled
        BY <1>2, <2>3 DEF StrobePads, write, PadsOK, ControllerType
      <3> QED  BY <2>1, <3>1 DEF PadsOK, PolledOK, SavedOK, PadReport, ControllerType
    <2> QED  BY <2>2, <2>3
  <1>3. CASE ReadPad
    <2>1. PICK p \in Players :
            /\ pads' = [pads EXCEPT ![p] = read(@)]
            /\ polled' = [polled EXCEPT ![p] =
                 IF pads[p].strobe THEN NewPoll(pads[p].state, 1)
                 ELSE ReadOnceMore(polled[p])]
            /\ UNCHANGED saved
      BY <1>3 DEF ReadPad, Executes
    <2>2. pads[p] \in ControllerType
      BY DEF PadsOK
    <2>3. /\ read(pads[p]) \in ControllerType
          /\ \A i \in Buttons : read(pads[p]).shift[i] =
               IF i = BUTTONS THEN 1
               ELSE IF pads[p].strobe THEN pads[p].state[i + 1] ELSE pads[p].shift[i + 1]
      BY <2>2, ReadMoves
    <2>4. PadsOK' /\ SavedOK'
      BY <2>1, <2>3 DEF PadsOK, SavedOK
    <2> DEFINE next == IF pads[p].strobe THEN NewPoll(pads[p].state, 1)
                       ELSE [buttons |-> polled[p].buttons,
                             reads |-> IF polled[p].reads < BUTTONS THEN polled[p].reads + 1
                                       ELSE polled[p].reads,
                             torn |-> polled[p].torn]
    <2>5. polled' = [polled EXCEPT ![p] = next] /\ polled'[p] = next /\ PolledOK'
      <3>1. polled[p] \in Polls
        BY DEF PolledOK
      <3>2. polled' = [polled EXCEPT ![p] = next]
        <4>1. CASE pads[p].strobe
          BY <2>1, <4>1
        <4>2. CASE ~pads[p].strobe
          <5>1. ReadOnceMore(polled[p]) = next
            BY <3>1, <4>2 DEF ReadOnceMore, Polls
          <5> QED  BY <2>1, <4>2, <5>1
        <4> QED  BY <4>1, <4>2
      <3>3. CASE pads[p].strobe
        <4>1. next \in Polls
          BY <2>2, <3>3, ButtonsAssumption DEF ControllerType, NewPoll, Polls
        <4> QED  BY <3>2, <4>1 DEF PolledOK
      <3>4. CASE ~pads[p].strobe
        <4>1. next \in Polls
          BY <3>1, <3>4, ButtonsAssumption DEF Polls
        <4> QED  BY <3>2, <4>1 DEF PolledOK
      <3> QED  BY <3>3, <3>4, <3>2
    <2> HIDE DEF next
    <2>6. ASSUME ~polled'[p].torn, NEW i \in Buttons
          PROVE  pads'[p].shift[i] =
                   IF i + polled'[p].reads <= BUTTONS
                   THEN polled'[p].buttons[i + polled'[p].reads] ELSE 1
      <3>1. pads'[p].shift[i] = read(pads[p]).shift[i]
        BY <2>1 DEF PadsOK
      <3>2. i \in 1 .. BUTTONS /\ BUTTONS \in Nat
        BY ButtonsAssumption DEF Buttons
      <3>3. CASE pads[p].strobe
        <4>1. polled'[p].buttons = pads[p].state /\ polled'[p].reads = 1
          BY <2>5, <3>3 DEF next, NewPoll
        <4> QED  BY <2>3, <3>1, <3>2, <3>3, <4>1
      <3>4. CASE ~pads[p].strobe
        <4>1. PICK n \in 0 .. BUTTONS : polled[p].reads = n
          BY DEF PolledOK, Polls
        <4>2. /\ polled'[p].buttons = polled[p].buttons
              /\ polled'[p].reads = IF n < BUTTONS THEN n + 1 ELSE n
              /\ ~polled[p].torn
          BY <2>5, <2>6, <3>4, <4>1 DEF next
        <4>3. i # BUTTONS => pads[p].shift[i + 1] =
                IF i + 1 + n <= BUTTONS THEN polled[p].buttons[i + 1 + n] ELSE 1
          BY <3>2, <4>1, <4>2 DEF PadReport, Buttons
        <4>4. i + 1 + n = i + (n + 1)
          BY <3>2
        <4> QED  BY <2>3, <3>1, <3>2, <3>4, <4>1, <4>2, <4>3, <4>4
      <3> QED  BY <3>3, <3>4
    <2>7. \A q \in Players \ {p} : pads'[q] = pads[q] /\ polled'[q] = polled[q]
      BY <2>1, <2>5 DEF PadsOK, PolledOK
    <2>8. PadReport'
      BY <2>6, <2>7 DEF PadReport
    <2> QED  BY <2>4, <2>5, <2>8
  <1>4. CASE UpdateController
    <2>1. PICK key \in program.keys, pressed \in {0, 1} :
            pads' = [pads EXCEPT ![key[1]] =
                       update(@, [peek(@) EXCEPT ![key[2]] = pressed])]
      BY <1>4 DEF UpdateController
    <2>2. UNCHANGED <<polled, saved>>
      BY <1>4 DEF UpdateController
    <2>3. \A p \in Players : /\ pads'[p] \in ControllerType
                            /\ pads'[p].shift = pads[p].shift
      BY <2>1 DEF PadsOK, ControllerType, update, peek, Report
    <2>4. PadsOK'
      BY <2>1, <2>3 DEF PadsOK
    <2> QED  BY <2>2, <2>3, <2>4 DEF PolledOK, SavedOK, PadReport
  <1>5. CASE SaveState
    <2>1. /\ UNCHANGED <<pads, polled>>
          /\ saved' = <<[blob |-> SavedMachine, frames |-> frames, chain |-> chain,
                         polled |-> polled]>>
      BY <1>5 DEF SaveState, machine, history
    <2>2. SavedMachine.buttons \in [Players -> Report]
      BY DEF SavedMachine, peek, PadsOK, ControllerType
    <2> QED  BY <2>1, <2>2 DEF PadsOK, PolledOK, SavedOK, PadReport
  <1>6. CASE LoadState
    <2>1. /\ saved # <<>> /\ UNCHANGED saved
          /\ pads' = LoadedPads(pads, saved[1].blob)
          /\ polled' = [p \in Players |-> PollGoneBack(p)]
      BY <1>6 DEF LoadState
    <2>2. /\ saved[1].blob.buttons \in [Players -> Report]
          /\ saved[1].polled \in [Players -> Polls]
      BY <2>1 DEF SavedOK
    <2>3. \A p \in Players : /\ pads'[p] \in ControllerType
                            /\ pads'[p].shift = pads[p].shift
      BY <2>1, <2>2 DEF PadsOK, ControllerType, LoadedPads, update
    <2>4. PadsOK'
      BY <2>1, <2>3 DEF PadsOK, LoadedPads
    <2> DEFINE back == [p \in Players |-> PollGoneBack(p)]
    <2>5. \A p \in Players : back[p] \in Polls /\ (~back[p].torn => back[p] = polled[p])
      <3>1. SUFFICES ASSUME NEW p \in Players
                     PROVE  /\ PollGoneBack(p) \in Polls
                            /\ ~PollGoneBack(p).torn => PollGoneBack(p) = polled[p]
        BY Zenon
      <3>2. saved[1].polled[p] \in Polls
        BY <2>2
      <3>3. CASE saved[1].polled[p] = polled[p]
        BY <3>2, <3>3 DEF PollGoneBack, Polls
      <3>4. CASE saved[1].polled[p] # polled[p]
        BY <3>2, <3>4 DEF PollGoneBack, Polls
      <3> QED  BY <3>3, <3>4
    <2>6. polled' = back /\ back = [p \in Players |-> back[p]]
      BY <2>1
    <2> HIDE DEF back
    <2>7. PolledOK'
      BY <2>5, <2>6 DEF PolledOK
    <2>8. PadReport'
      <3>1. SUFFICES ASSUME NEW p \in Players, ~polled'[p].torn, NEW i \in Buttons
                     PROVE  pads'[p].shift[i]
                              = IF i + polled'[p].reads <= BUTTONS
                                THEN polled'[p].buttons[i + polled'[p].reads] ELSE 1
        BY DEF PadReport
      <3>2. pads'[p].shift = pads[p].shift
        BY <2>3
      <3>3. polled'[p] = polled[p] /\ ~polled[p].torn
        BY <2>5, <2>6, <3>1
      <3>4. /\ \A q \in Players : ~polled[q].torn => \A k \in Buttons :
                 pads[q].shift[k] = IF k + polled[q].reads <= BUTTONS
                                    THEN polled[q].buttons[k + polled[q].reads] ELSE 1
            /\ p \in Players /\ i \in Buttons
        BY <3>1 DEF PadReport
      <3>5. pads[p].shift[i] = IF i + polled[p].reads <= BUTTONS
                               THEN polled[p].buttons[i + polled[p].reads] ELSE 1
        BY ONLY <3>3, <3>4
      <3> QED  BY <3>2, <3>3, <3>5
    <2> QED  BY <2>1, <2>4, <2>7, <2>8 DEF SavedOK
  <1>7. CASE Instruction /\ ~StrobePads /\ ~ReadPad
    <2>1. UNCHANGED <<pads, polled, saved>>
      BY <1>7 DEF Instruction, Immediate, ReadCell, ReadByte, OnRegister, ModifyAccumulator,
        ModifyCell, Store, Jump, MoveStack, PushAccumulator, PullAccumulator, PushStatus,
        PullStatus, Call, Return, Break, ReturnFromInterrupt, WritePrg, Executes, Inner, Outer
    <2> QED  BY <1>1, <2>1
  <1>8. CASE RequestInterrupt \/ Reset \/ TakeInterrupt \/ IgnoreIrq \/ TakeReset
    <2>1. UNCHANGED <<pads, polled, saved>>
      BY <1>8 DEF RequestInterrupt, Reset, TakeInterrupt, IgnoreIrq, TakeReset, Event, Outer
    <2> QED  BY <1>1, <2>1
  <1>9. CASE UNCHANGED vars
    BY <1>1, <1>9 DEF vars, machine
  <1> QED
    BY <1>2, <1>3, <1>4, <1>5, <1>6, <1>7, <1>8, <1>9 DEF Next

(* What a controller will shift out (controller.rs:33-55, bus.rs:86-89) is *)
(* the rest of the buttons of one moment, for every number of buttons:     *)
(* keys pressed between the strobe and the reads do not mix with them.     *)
(* Reads that a loaded state has taken to another place are outside it,    *)
(* for the code does not save the register.                                *)
THEOREM ConsolePadReport == Spec => []PadReport
PROOF
  <1>1. PadInv => PadReport
    BY DEF PadInv
  <1> QED  BY <1>1, PadInvInit, PadInvNext, PTL DEF Spec

-----------------------------------------------------------------------------
(* The registers.  What an instruction makes of the CPU keeps its widths.  *)
CpuOK == Sane(cpu) /\ cpu.pc \in Code \cup {NewCpu.pc}

(* The instructions of the console keep the CPU within its widths.         *)
LEMMA OnByteSane ==
  ASSUME NEW c, Sane(c), NEW byte \in Byte, NEW name \in Reading
  PROVE  Sane(OnByte(name, c, byte))
PROOF
  <1>1. CASE name \in {"ADC", "SBC"}
    BY <1>1, ArithmeticSane DEF OnByte
  <1>2. CASE name \in {"AND", "ORA", "EOR", "BIT"}
    BY <1>2, LogicSane DEF OnByte
  <1>3. CASE name \in {"CMP", "CPX", "CPY"}
    BY <1>3, CompareSane DEF OnByte
  <1>4. CASE name \in {"LDA", "LDX", "LDY"}
    BY <1>4, LoadSane DEF OnByte
  <1> QED  BY <1>1, <1>2, <1>3, <1>4 DEF Reading

(* The instructions on registers and flags.                                *)
LEMMA OnRegistersSane ==
  ASSUME NEW c, Sane(c), NEW name \in Implied
  PROVE  Sane(OnRegisters(name, c))
PROOF
  <1>1. CASE name \in {"TAX", "TAY", "TXA", "TYA", "TSX", "NOP"}
    BY <1>1, TransferSane DEF OnRegisters
  <1>2. CASE name \in {"INX", "INY", "DEX", "DEY"}
    BY <1>2, TransferSane DEF OnRegisters
  <1>3. CASE name \in {"CLC", "SEC", "CLI", "SEI", "CLD", "SED", "CLV"}
    BY <1>3, FlagSane DEF OnRegisters
  <1> QED  BY <1>1, <1>2, <1>3 DEF Implied

(* The instructions that make a byte of a byte.                            *)
LEMMA ModifiedSane ==
  ASSUME NEW c, Sane(c), NEW d, NEW byte \in Byte, NEW name \in Modifying
  PROVE  Sane(ModifiedFlags(name, c, byte)) /\ ModifiedByte(name, d, byte) \in Byte
PROOF
  <1>1. Sane(ModifiedFlags(name, c, byte))
    BY ModifySane DEF ModifiedFlags, Modifying
  <1>2. ModifiedByte(name, d, byte) \in Byte
    BY ModifiedIsByte DEF ModifiedByte, Modifying
  <1> QED  BY <1>1, <1>2

(* The branches.                                                           *)
LEMMA OnBranchSane ==
  ASSUME NEW c, Sane(c), NEW to \in Address, NEW name \in Branching
  PROVE  Sane(OnBranch(name, c, to))
PROOF
  <1>1. \A taken : Sane(branch(c, taken, to))
    BY JumpSane
  <1> QED  BY <1>1 DEF OnBranch, Branching, bcc, bcs, bne, beq, bpl, bmi, bvc, bvs

(* What a controller answers is a byte.                                    *)
LEMMA PadReads ==
  ASSUME PadsOK, NEW p \in Players
  PROVE  read_data(pads[p]) \in Byte
PROOF
  <1>1. Presented(pads[p]) \in Report /\ 1 \in Buttons
    BY ButtonsAssumption DEF PadsOK, ControllerType, Presented, Buttons
  <1>2. read_data(pads[p]) \in {0, 1}
    BY <1>1 DEF read_data, Report
  <1> QED  BY <1>2 DEF Byte

(* No instruction leaves the code, breaks a width or touches a saved       *)
(* state.                                                                  *)
LEMMA InstructionKeepsCpu ==
  ASSUME Sane(cpu), program \in Programs, PadsOK, Instruction
  PROVE  CpuOK' /\ UNCHANGED <<program, saved>>
PROOF
  <1>1. \A name, c : Executes(name, c) /\ Sane(c) =>
          CpuOK' /\ UNCHANGED <<program, saved>>
    BY DEF Executes, CpuOK, Code
  <1>2. Sane(Fetched(1)) /\ Sane(Fetched(2)) /\ Sane(Fetched(3))
    BY FetchSane DEF Fetched
  <1>3. Operands \subseteq Byte /\ Targets \subseteq Address
    BY ConsoleAssumption DEF Operands, Targets
  <1>4. /\ cpu.a \in Byte /\ \A cell \in Cells : cpu.ram[cell] \in Byte
    BY DEF Sane, CpuType
  <1>5. CASE Immediate
    BY <1>1, <1>2, <1>3, <1>5, OnByteSane DEF Immediate, ReadByte
  <1>6. CASE ReadCell
    BY <1>1, <1>2, <1>4, <1>6, OnByteSane DEF ReadCell, ReadByte
  <1>7. CASE OnRegister
    BY <1>1, <1>2, <1>7, OnRegistersSane DEF OnRegister
  <1>8. CASE ModifyAccumulator
    <2>1. PICK name \in Modifying :
            Executes(name, [ModifiedFlags(name, Fetched(1), cpu.a)
                              EXCEPT !.a = ModifiedByte(name, cpu, cpu.a)])
      BY <1>8 DEF ModifyAccumulator
    <2>2. Sane(ModifiedFlags(name, Fetched(1), cpu.a))
          /\ ModifiedByte(name, cpu, cpu.a) \in Byte
      BY <1>2, <1>4, ModifiedSane
    <2>3. \A d, byte : Sane(d) /\ byte \in Byte => Sane([d EXCEPT !.a = byte])
      BY DEF Sane, CpuType
    <2> QED  BY <1>1, <2>1, <2>2, <2>3
  <1>9. CASE ModifyCell
    <2>1. PICK name \in Modifying, cell \in Cells :
            Executes(name, [ModifiedFlags(name, Fetched(3), cpu.ram[cell]) EXCEPT
              !.ram = [@ EXCEPT ![cell] = ModifiedByte(name, cpu, cpu.ram[cell])]])
      BY <1>9 DEF ModifyCell
    <2>2. Sane(ModifiedFlags(name, Fetched(3), cpu.ram[cell]))
          /\ ModifiedByte(name, cpu, cpu.ram[cell]) \in Byte
      BY <1>2, <1>4, ModifiedSane
    <2>3. \A d, byte : Sane(d) /\ byte \in Byte =>
            Sane([d EXCEPT !.ram = [@ EXCEPT ![cell] = byte]])
      BY DEF Sane, CpuType
    <2> QED  BY <1>1, <2>1, <2>2, <2>3
  <1>10. CASE Store
    BY <1>1, <1>2, <1>10, StoreSane DEF Store
  <1>11. CASE Jump
    BY <1>1, <1>2, <1>3, <1>11, JumpSane, OnBranchSane DEF Jump
  <1>12. CASE MoveStack
    BY <1>1, <1>2, <1>12, TransferSane DEF MoveStack
  <1>13. CASE PushAccumulator \/ PushStatus \/ Break
    BY <1>1, <1>2, <1>13, EnterSane DEF PushAccumulator, PushStatus, Break
  <1>14. CASE PullAccumulator \/ PullStatus \/ Return \/ ReturnFromInterrupt
    BY <1>1, <1>2, <1>14, PullSane
    DEF PullAccumulator, PullStatus, Return, ReturnFromInterrupt
  <1>15. CASE Call
    BY <1>1, <1>2, <1>3, <1>15, EnterSane DEF Call
  <1>16. CASE StrobePads \/ WritePrg
    BY <1>1, <1>2, <1>16 DEF StrobePads, WritePrg
  <1>17. CASE ReadPad
    <2>1. PICK p \in Players : Executes("READ_JOY", lda(Fetched(3), read_data(pads[p])))
      BY <1>17 DEF ReadPad
    <2> QED  BY <1>1, <1>2, <2>1, LoadSane, PadReads
  <1> QED  BY <1>5, <1>6, <1>7, <1>8, <1>9, <1>10, <1>11, <1>12, <1>13, <1>14, <1>15,
             <1>16, <1>17 DEF Instruction

-----------------------------------------------------------------------------
(* The mapper.  Below its marker the load register holds zeros, so the     *)
(* marker's place tells how many bits have come.                           *)
MarkerAt(m, k) == m.load[k] = 1 /\ \A j \in 1 .. k - 1 : m.load[j] = 0

MapperOK(m) == m \in MapperType /\ \E k \in 1 .. SERIAL_BITS : MarkerAt(m, k)

(* Where the marker of the load register is, the bits above it are what    *)
(* was received.                                                           *)
LEMMA ReceivedIs ==
  ASSUME NEW m \in MapperType, NEW k \in 1 .. SERIAL_BITS, MarkerAt(m, k)
  PROVE  /\ Received(m) = SubSeq(m.load, k + 1, SERIAL_BITS)
         /\ Received(m) \in Seq({0, 1}) /\ Len(Received(m)) = SERIAL_BITS - k
         /\ \A i \in 1 .. SERIAL_BITS - k : Received(m)[i] = m.load[k + i]
PROOF
  <1>1. Marker(m) = k
    <2>1. \A i \in 1 .. SERIAL_BITS : MarkerAt(m, i) => i = k
      BY SerialAssumption DEF MarkerAt
    <2> QED  BY <2>1 DEF Marker, MarkerAt
  <1>2. m.load \in Seq({0, 1}) /\ Len(m.load) = SERIAL_BITS
    BY SerialAssumption DEF MapperType, Serial
  <1>3. Received(m) = SubSeq(m.load, k + 1, SERIAL_BITS)
    BY <1>1 DEF Received
  <1>4. /\ SubSeq(m.load, k + 1, SERIAL_BITS) \in Seq({0, 1})
        /\ Len(SubSeq(m.load, k + 1, SERIAL_BITS)) = SERIAL_BITS - k
        /\ \A i \in 1 .. SERIAL_BITS - k :
             SubSeq(m.load, k + 1, SERIAL_BITS)[i] = m.load[k + i]
    BY <1>2, SerialAssumption, SubSeqProperties
  <1> QED  BY <1>3, <1>4

(* The load register is as at the start. *)
LEMMA StartReceivesNothing ==
  ASSUME NEW m, m.registers \in [Regions -> Serial],
         m = [load |-> Start, registers |-> m.registers]
  PROVE  MapperOK(m) /\ Received(m) = <<>>
PROOF
  <1>1. SERIAL_BITS \in 1 .. SERIAL_BITS /\ Start \in Serial
    BY SerialAssumption DEF Start, Serial
  <1>2. m.load = Start /\ m \in MapperType
    BY <1>1 DEF MapperType
  <1>3. MarkerAt(m, SERIAL_BITS)
    BY <1>1, <1>2, SerialAssumption DEF MarkerAt, Start
  <1>4. Received(m) \in Seq({0, 1}) /\ Len(Received(m)) = 0
    BY <1>1, <1>2, <1>3, ReceivedIs, SerialAssumption
  <1>5. Received(m) = <<>>
    BY <1>4, EmptySeq
  <1> QED  BY <1>1, <1>2, <1>3, <1>5 DEF MapperOK

(* A write of the program to the serial port does what Receive of the      *)
(* abstract port says, or starts over.                                     *)
StartsOver(m, n) == Received(n) = <<>> /\ n.registers = m.registers

Receives(m, n, digit, region) ==
  IF Len(Received(m)) + 1 < SERIAL_BITS
  THEN Received(n) = Append(Received(m), digit) /\ n.registers = m.registers
  ELSE /\ Received(n) = <<>>
       /\ n.registers = [m.registers EXCEPT ![region] = Append(Received(m), digit)]

(* A write to mapper 1 (_001.rs:103-139) is one step of a serial port: it  *)
(* starts over, receives a bit, or receives the last one and sets a        *)
(* register.                                                               *)
LEMMA WriteReceives ==
  ASSUME NEW m, MapperOK(m), NEW region \in Regions, NEW data \in Byte,
         NEW n, n = write_prg(m, region, data)
  PROVE  /\ MapperOK(n)
         /\ IF data >= 128 THEN StartsOver(m, n) ELSE Receives(m, n, data % 2, region)
PROOF
  <1> DEFINE digit == data % 2
             load == Taken(m.load, digit)
  <1>1. PICK k \in 1 .. SERIAL_BITS : MarkerAt(m, k)
    BY DEF MapperOK
  <1>2. m \in MapperType /\ m.load \in Serial /\ m.registers \in [Regions -> Serial]
        /\ m = [load |-> m.load, registers |-> m.registers]
    BY DEF MapperOK, MapperType
  <1>3. digit \in {0, 1}
    BY DEF Byte
  <1> HIDE DEF digit
  <1>4. load \in Serial
    BY <1>2, <1>3, SerialAssumption DEF Taken, Serial
  <1>5. Received(m) \in Seq({0, 1}) /\ Len(Received(m)) = SERIAL_BITS - k
        /\ \A i \in 1 .. SERIAL_BITS - k : Received(m)[i] = m.load[k + i]
    BY <1>1, <1>2, ReceivedIs
  <1>6. CASE data >= 128
    <2>1. n = [load |-> Start, registers |-> m.registers]
      BY <1>2, <1>6 DEF write_prg
    <2>2. MapperOK(n) /\ Received(n) = <<>> /\ n.registers = m.registers
      BY <1>2, <2>1, StartReceivesNothing
    <2> QED  BY <1>6, <2>2 DEF StartsOver
  <1>7. CASE data < 128 /\ m.load[1] = 1
    <2>1. k = 1
      BY <1>1, <1>7, SerialAssumption DEF MarkerAt
    <2>2. n = [load |-> Start, registers |-> [m.registers EXCEPT ![region] = load]]
      BY <1>7 DEF write_prg, digit, Byte
    <2>3. [m.registers EXCEPT ![region] = load] \in [Regions -> Serial]
      BY <1>2, <1>4
    <2>4. MapperOK(n) /\ Received(n) = <<>>
      BY <2>2, <2>3, StartReceivesNothing
    <2>5. load = Append(Received(m), digit)
      <3>1. Append(Received(m), digit) \in Seq({0, 1})
            /\ Len(Append(Received(m), digit)) = SERIAL_BITS
            /\ \A i \in 1 .. SERIAL_BITS :
                 Append(Received(m), digit)[i] =
                   IF i = SERIAL_BITS THEN digit ELSE m.load[i + 1]
        BY <1>3, <1>5, <2>1, SerialAssumption, AppendProperties
      <3>2. load \in Seq({0, 1}) /\ Len(load) = SERIAL_BITS
        BY <1>4, SerialAssumption DEF Serial
      <3>3. \A i \in 1 .. SERIAL_BITS : load[i] = Append(Received(m), digit)[i]
        BY <3>1 DEF Taken
      <3> HIDE DEF load
      <3> QED  BY <3>1, <3>2, <3>3, SeqEqual
    <2>6. ~(Len(Received(m)) + 1 < SERIAL_BITS)
      BY <1>5, <2>1, SerialAssumption
    <2> HIDE DEF load
    <2>7. Receives(m, n, digit, region)
      BY <2>2, <2>4, <2>5, <2>6 DEF Receives
    <2> QED  BY <1>7, <2>4, <2>7 DEF digit, Byte
  <1>8. CASE data < 128 /\ m.load[1] # 1
    <2>1. k > 1 /\ k - 1 \in 1 .. SERIAL_BITS
      BY <1>1, <1>8, SerialAssumption DEF MarkerAt
    <2>2. n = [load |-> load, registers |-> m.registers]
      BY <1>2, <1>8 DEF write_prg, digit, Byte
    <2>3. MarkerAt(n, k - 1)
      <3>1. \A i \in 1 .. SERIAL_BITS - 1 : n.load[i] = m.load[i + 1]
        BY <2>2, SerialAssumption DEF Taken
      <3>2. n.load[k - 1] = 1
        BY <1>1, <2>1, <3>1, SerialAssumption DEF MarkerAt
      <3>3. \A j \in 1 .. k - 2 : n.load[j] = 0
        BY <1>1, <2>1, <3>1, SerialAssumption DEF MarkerAt
      <3> QED  BY <2>1, <3>2, <3>3 DEF MarkerAt
    <2>4. n \in MapperType
      BY <1>2, <1>4, <2>2 DEF MapperType
    <2>5. Received(n) = Append(Received(m), digit)
      <3>1. /\ Received(n) \in Seq({0, 1}) /\ Len(Received(n)) = SERIAL_BITS - k + 1
            /\ \A i \in 1 .. SERIAL_BITS - k + 1 : Received(n)[i] = n.load[k - 1 + i]
        <4>1. PICK h \in 1 .. SERIAL_BITS : h = k - 1 /\ MarkerAt(n, h)
          BY <2>1, <2>3
        <4>2. /\ Received(n) \in Seq({0, 1}) /\ Len(Received(n)) = SERIAL_BITS - h
              /\ \A i \in 1 .. SERIAL_BITS - h : Received(n)[i] = n.load[h + i]
          BY <4>1, <2>4, ReceivedIs
        <4>3. SERIAL_BITS - h = SERIAL_BITS - k + 1
          BY <4>1, SerialAssumption
        <4> QED  BY <4>1, <4>2, <4>3
      <3>2. /\ Append(Received(m), digit) \in Seq({0, 1})
            /\ Len(Append(Received(m), digit)) = SERIAL_BITS - k + 1
            /\ \A i \in 1 .. SERIAL_BITS - k + 1 :
                 Append(Received(m), digit)[i] =
                   IF i = SERIAL_BITS - k + 1 THEN digit ELSE m.load[k + i]
        <4>1. PICK d \in Nat : d = SERIAL_BITS - k
          BY SerialAssumption
        <4>2. /\ Append(Received(m), digit) \in Seq({0, 1})
              /\ Len(Append(Received(m), digit)) = d + 1
              /\ \A i \in 1 .. d : Append(Received(m), digit)[i] = Received(m)[i]
              /\ Append(Received(m), digit)[d + 1] = digit
          BY <1>3, <1>5, <4>1, AppendProperties, SMTT(60)
        <4>3. \A i \in 1 .. d : Received(m)[i] = m.load[k + i]
          BY <1>5, <4>1
        <4> QED  BY <4>1, <4>2, <4>3
      <3>3. \A i \in 1 .. SERIAL_BITS - k + 1 :
              n.load[k - 1 + i] = IF i = SERIAL_BITS - k + 1 THEN digit ELSE m.load[k + i]
        BY <2>1, <2>2, SerialAssumption DEF Taken
      <3>4. \A i \in 1 .. SERIAL_BITS - k + 1 : Received(n)[i] = Append(Received(m), digit)[i]
        BY <3>1, <3>2, <3>3
      <3> QED  BY <3>1, <3>2, <3>4, SeqEqual
    <2>6. Len(Received(m)) + 1 < SERIAL_BITS
      BY <1>5, <2>1, SerialAssumption
    <2> HIDE DEF load
    <2>7. Receives(m, n, digit, region)
      BY <2>2, <2>5, <2>6 DEF Receives
    <2> QED  BY <1>8, <2>1, <2>3, <2>4, <2>7 DEF digit, MapperOK, Byte
  <1> QED  BY <1>6, <1>7, <1>8 DEF Byte

(* No other instruction writes to the mapper. *)
LEMMA OthersLeaveMapper ==
  ASSUME Instruction, ~WritePrg
  PROVE  UNCHANGED mapper
PROOF
  BY DEF Instruction, Immediate, ReadCell, ReadByte, OnRegister, ModifyAccumulator,
    ModifyCell, Store, Jump, MoveStack, PushAccumulator, PullAccumulator, PushStatus,
    PullStatus, Call, Return, Break, ReturnFromInterrupt, StrobePads, ReadPad, Inner, Outer

-----------------------------------------------------------------------------
(* What holds in every state: the widths of the registers, also of those   *)
(* in the saved state, and the marker in the load register.                *)
CpuFits(c) == Sane(c) /\ c.pc \in Code \cup {NewCpu.pc}

KeptOK ==
  saved = <<>> \/ /\ saved = <<saved[1]>>
                  /\ CpuFits(saved[1].blob.cpu) /\ MapperOK(saved[1].blob.mapper)

ConsoleInv ==
  /\ PadInv /\ program \in Programs /\ CpuFits(cpu) /\ MapperOK(mapper) /\ KeptOK

(* A new mapper has received nothing.                                      *)
LEMMA NewMapperStarts == MapperOK(NewMapper) /\ Received(NewMapper) = <<>>
PROOF
  <1>1. FirstCtrl \in Serial /\ Zero \in Serial
    BY SerialAssumption DEF FirstCtrl, Zero, Serial
  <1>2. NewMapper.registers \in [Regions -> Serial]
    BY <1>1 DEF NewMapper
  <1>3. NewMapper = [load |-> Start, registers |-> NewMapper.registers]
    BY DEF NewMapper
  <1> QED  BY <1>2, <1>3, StartReceivesNothing

(* A new console.                                                          *)
LEMMA ConsoleInvInit == Init => ConsoleInv
PROOF
  <1> SUFFICES ASSUME Init PROVE ConsoleInv
    OBVIOUS
  <1>1. PadInv
    BY PadInvInit
  <1>2. 52 \in Address /\ 0 \in Byte /\ 0 \in Offsets
    <2>1. 52 \in Nat /\ 52 < ADDRESSES
      BY DEF ADDRESSES
    <2> QED  BY <2>1, NatIsAddress, CpuAssumption DEF Byte, Offsets
  <1>3. CpuFits(cpu)
    BY <1>2 DEF Init, NewCpu, CpuFits, Sane, SaneStatus, CpuType, Flags, Interrupts
  <1>4. MapperOK(mapper)
    BY NewMapperStarts DEF Init
  <1> QED  BY <1>1, <1>3, <1>4 DEF Init, ConsoleInv, KeptOK

(* A loaded state is one that was saved, so that it fits as the running    *)
(* machine does.                                                           *)
LEMMA ConsoleInvNext == ConsoleInv /\ [Next]_vars => ConsoleInv'
PROOF
  <1> SUFFICES ASSUME ConsoleInv, [Next]_vars PROVE ConsoleInv'
    OBVIOUS
  <1>1. PadInv'
    BY PadInvNext DEF ConsoleInv
  <1>2. /\ PadsOK /\ program \in Programs /\ Sane(cpu)
        /\ cpu.pc \in Code \cup {NewCpu.pc} /\ MapperOK(mapper) /\ KeptOK
    BY DEF ConsoleInv, PadInv, CpuFits
  <1>3. ASSUME UNCHANGED <<program, saved>>, CpuFits(cpu'), MapperOK(mapper')
        PROVE  ConsoleInv'
    BY <1>1, <1>2, <1>3 DEF ConsoleInv, KeptOK, CpuFits, Code
  <1>4. CASE Instruction
    <2>1. CpuOK' /\ UNCHANGED <<program, saved>>
      BY <1>2, <1>4, InstructionKeepsCpu
    <2>2. MapperOK(mapper')
      <3>1. CASE WritePrg
        <4>1. PICK region \in Regions : mapper' = write_prg(mapper, region, cpu.a)
          BY <1>2, <3>1, ConsoleAssumption DEF WritePrg
        <4> QED  BY <1>2, <4>1, WriteReceives DEF Sane, CpuType
      <3>2. CASE ~WritePrg
        <4>1. UNCHANGED mapper
          BY <1>4, <3>2, OthersLeaveMapper
        <4> QED  BY <1>2, <4>1
      <3> QED  BY <3>1, <3>2
    <2> QED  BY <1>3, <2>1, <2>2 DEF CpuOK, CpuFits, Code
  <1>5. CASE RequestInterrupt \/ Reset \/ IgnoreIrq
    <2>1. UNCHANGED <<program, saved, mapper>>
      BY <1>5 DEF RequestInterrupt, Reset, IgnoreIrq, Event, Outer
    <2>2. \A interrupt \in Interrupts \cup {None} :
            CpuFits([cpu EXCEPT !.interrupt = interrupt])
      BY <1>2 DEF CpuFits, Sane, CpuType
    <2>3. CpuFits(cpu')
      BY <1>5, <2>2 DEF RequestInterrupt, Reset, IgnoreIrq, interrupt_request, Interrupts
    <2> QED  BY <1>2, <1>3, <2>1, <2>3
  <1>6. CASE TakeInterrupt \/ TakeReset
    <2>1. UNCHANGED <<program, saved, mapper>>
      BY <1>6 DEF TakeInterrupt, TakeReset, Outer
    <2>2. cpu.interrupt \in Interrupts /\ cpu' = take_interrupt(cpu)
      BY <1>6 DEF TakeInterrupt, TakeReset, Interrupts
    <2>3. CpuFits(cpu')
      BY <1>2, <2>1, <2>2, EnterSane, ConsoleAssumption DEF CpuFits, Code
    <2> QED  BY <1>2, <1>3, <2>1, <2>3
  <1>7. CASE UpdateController
    BY <1>2, <1>3, <1>7 DEF UpdateController, CpuFits
  <1>8. CASE SaveState
    <2>1. /\ UNCHANGED <<cpu, mapper, program>> /\ saved' = <<saved'[1]>>
          /\ saved'[1].blob.cpu = cpu /\ saved'[1].blob.mapper = mapper
      BY <1>8 DEF SaveState, machine, SavedMachine, save_state
    <2> QED  BY <1>1, <1>2, <2>1 DEF ConsoleInv, KeptOK, CpuFits, Code
  <1>9. CASE LoadState
    <2>1. /\ UNCHANGED <<program, saved>> /\ saved # <<>>
          /\ cpu' = saved[1].blob.cpu /\ mapper' = saved[1].blob.mapper
      BY <1>9 DEF LoadState, load_state
    <2>2. CpuFits(saved[1].blob.cpu) /\ MapperOK(saved[1].blob.mapper)
      BY <1>2, <2>1 DEF KeptOK
    <2> QED  BY <1>3, <2>1, <2>2
  <1>10. CASE UNCHANGED vars
    BY <1>2, <1>3, <1>10 DEF vars, machine, CpuFits
  <1> QED  BY <1>4, <1>5, <1>6, <1>7, <1>8, <1>9, <1>10 DEF Next

(* The registers of the CPU keep their widths (cpu.rs:25-35), its status   *)
(* never has the break flag, and controllers and mapper are well formed    *)
(* (controller.rs:17-21, _001.rs:7-13), through every instruction,         *)
(* interrupt and saved state.                                              *)
THEOREM ConsoleTypeCorrect == Spec => []TypeOK
PROOF
  <1>1. ConsoleInv => TypeOK
    BY DEF ConsoleInv, CpuFits, Sane, SaneStatus, PadInv, PadsOK, MapperOK, TypeOK
  <1> QED  BY <1>1, ConsoleInvInit, ConsoleInvNext, PTL DEF Spec

-----------------------------------------------------------------------------
(* The mapper keeps the promise of a serial port. *)
LEMMA PortStays ==
  ASSUME UNCHANGED <<mapper, saved>>
  PROVE  UNCHANGED Port!port
PROOF
  BY DEF Port!port, Received, Marker

(* The new mapper is the serial port at its start.                         *)
LEMMA PortInit == Init => Port!Init
PROOF
  <1> SUFFICES ASSUME Init PROVE Port!Init
    OBVIOUS
  <1>1. Received(mapper) = <<>>
    BY NewMapperStarts DEF Init
  <1>2. [i \in DOMAIN saved |-> <<Received(saved[i].blob.mapper),
                                  saved[i].blob.mapper.registers>>] = <<>>
    BY DEF Init
  <1> QED  BY <1>1, <1>2 DEF Init, Port!Init

(* Every step of the console is one of the serial port or leaves it alone. *)
LEMMA PortNext ==
  ASSUME ConsoleInv, [Next]_vars
  PROVE  /\ [Port!Next]_(Port!port)
         /\ [/\ WritePrg /\ cpu.a >= 128 => Port!StartOver
             /\ SaveState => Port!Keep
             /\ LoadState => Port!GoBack]_vars
PROOF
  <1> DEFINE kept == [i \in DOMAIN saved |-> <<Received(saved[i].blob.mapper),
                                               saved[i].blob.mapper.registers>>]
  <1>1. UNCHANGED saved => UNCHANGED kept
    BY DEF Received, Marker
  <1>2. ASSUME WritePrg
        PROVE  IF cpu.a >= 128 THEN Port!StartOver
               ELSE \E digit \in {0, 1}, r \in Regions : Port!Receive(digit, r)
    <2>1. PICK region \in Regions : mapper' = write_prg(mapper, region, cpu.a)
      BY <1>2, ConsoleAssumption DEF WritePrg, ConsoleInv
    <2>2. MapperOK(mapper) /\ cpu.a \in Byte /\ UNCHANGED saved
      BY <1>2 DEF ConsoleInv, CpuFits, Sane, CpuType, WritePrg, Executes
    <2>3. IF cpu.a >= 128 THEN StartsOver(mapper, mapper')
          ELSE Receives(mapper, mapper', cpu.a % 2, region)
      BY <2>1, <2>2, WriteReceives
    <2>4. cpu.a % 2 \in {0, 1}
      BY <2>2 DEF Byte
    <2>5. Received(mapper)' = Received(mapper')
      BY DEF Received, Marker
    <2> HIDE DEF kept
    <2>6. CASE cpu.a >= 128
      BY <1>1, <2>2, <2>3, <2>5, <2>6 DEF StartsOver, Port!StartOver, kept
    <2>7. CASE ~(cpu.a >= 128)
      BY <1>1, <2>2, <2>3, <2>4, <2>5, <2>7 DEF Receives, Port!Receive, kept
    <2> QED  BY <2>6, <2>7
  <1>3. SaveState => Port!Keep
    <2> SUFFICES ASSUME SaveState PROVE Port!Keep
      OBVIOUS
    <2>1. /\ UNCHANGED mapper /\ DOMAIN saved' = {1} /\ saved' = <<saved'[1]>>
          /\ saved'[1].blob.mapper = mapper
      BY DEF SaveState, machine, SavedMachine, save_state
    <2>2. Received(mapper)' = Received(mapper)
      BY <2>1 DEF Received, Marker
    <2>3. kept' = <<<<Received(mapper), mapper.registers>>>>
      <3>1. kept' = [i \in {1} |-> <<Received(mapper), mapper.registers>>]
        <4>1. kept' = [i \in DOMAIN saved' |-> <<Received(saved'[i].blob.mapper),
                                                 saved'[i].blob.mapper.registers>>]
          BY DEF Received, Marker
        <4>2. \A i \in DOMAIN saved' : saved'[i].blob.mapper = mapper
          BY <2>1
        <4> QED  BY <2>1, <4>1, <4>2
      <3>2. \A entry : [i \in {1} |-> entry] = <<entry>>
        OBVIOUS
      <3> HIDE DEF kept
      <3> QED  BY <3>1, <3>2
    <2> QED  BY <2>1, <2>2, <2>3 DEF Port!Keep
  <1>4. LoadState => Port!GoBack
    <2> SUFFICES ASSUME LoadState PROVE Port!GoBack
      OBVIOUS
    <2>1. /\ UNCHANGED saved /\ saved = <<saved[1]>> /\ DOMAIN saved = {1}
          /\ mapper' = saved[1].blob.mapper
      BY DEF LoadState, load_state, ConsoleInv, KeptOK
    <2>2. kept[1] = <<Received(saved[1].blob.mapper), saved[1].blob.mapper.registers>>
          /\ kept # <<>>
      BY <2>1
    <2>3. Received(mapper)' = Received(saved[1].blob.mapper)
      BY <2>1 DEF Received, Marker
    <2> QED  BY <1>1, <2>1, <2>2, <2>3 DEF Port!GoBack
  <1>5. ASSUME ~WritePrg, ~SaveState, ~LoadState
        PROVE  UNCHANGED Port!port
    <2>1. UNCHANGED <<mapper, saved>>
      <3>1. CASE Instruction
        <4>1. UNCHANGED saved
          BY <3>1, InstructionKeepsCpu DEF ConsoleInv, CpuFits, PadInv
        <4>2. UNCHANGED mapper
          BY <1>5, <3>1, OthersLeaveMapper
        <4> QED  BY <4>1, <4>2
      <3>2. CASE RequestInterrupt \/ Reset \/ TakeInterrupt \/ IgnoreIrq \/ TakeReset
                 \/ UpdateController
        BY <3>2 DEF RequestInterrupt, Reset, TakeInterrupt, IgnoreIrq, TakeReset,
          UpdateController, Event, Outer
      <3>3. CASE UNCHANGED vars
        BY <3>3 DEF vars, machine
      <3> QED  BY <1>5, <3>1, <3>2, <3>3 DEF Next
    <2> QED  BY <2>1, PortStays
  <1>6. [Port!Next]_(Port!port)
    BY <1>2, <1>3, <1>4, <1>5 DEF Port!Next
  <1> QED  BY <1>2, <1>3, <1>4, <1>6

(* Mapper 1 (_001.rs:103-159) implements the serial port of SerialPort,    *)
(* for every width of its registers: whatever else the program does        *)
(* between its writes, and whatever the page saves and loads.              *)
THEOREM ConsoleSerialRefines == Spec => SerialRefines
PROOF
  <1>1. ConsoleInv /\ [Next]_vars =>
          /\ [Port!Next]_(Port!port)
          /\ [/\ WritePrg /\ cpu.a >= 128 => Port!StartOver
              /\ SaveState => Port!Keep
              /\ LoadState => Port!GoBack]_vars
    BY PortNext
  <1> QED  BY <1>1, PortInit, ConsoleInvInit, ConsoleInvNext, PTL
        DEF Spec, SerialRefines, Port!Spec

-----------------------------------------------------------------------------
(* Sequences: one more in front, and one less. *)
LEMMA InFront ==
  ASSUME NEW S, NEW s \in Seq(S), NEW e \in S
  PROVE  /\ <<e>> \o s \in Seq(S) /\ Len(<<e>> \o s) = Len(s) + 1
         /\ (<<e>> \o s)[1] = e /\ \A i \in 1 .. Len(s) : (<<e>> \o s)[i + 1] = s[i]
         /\ <<e>> \o s # <<>> /\ Head(<<e>> \o s) = e /\ Tail(<<e>> \o s) = s
PROOF
  <1> DEFINE t == <<e>> \o s
  <1>1. <<e>> \in Seq(S) /\ Len(<<e>>) = 1 /\ <<e>>[1] = e
    OBVIOUS
  <1>2. Len(s) \in Nat
    BY LenProperties
  <1>3. /\ t \in Seq(S) /\ Len(t) = 1 + Len(s)
        /\ \A i \in 1 .. 1 + Len(s) : t[i] = IF i <= 1 THEN <<e>>[i] ELSE s[i - 1]
    BY <1>1, ConcatProperties
  <1> HIDE DEF t
  <1>4. t[1] = e /\ \A i \in 1 .. Len(s) : t[i + 1] = s[i]
    BY <1>1, <1>2, <1>3
  <1>5. t # <<>> /\ Len(t) = Len(s) + 1
    BY <1>2, <1>3
  <1>6. Head(t) = e
    BY <1>3, <1>4, <1>5
  <1>7. Tail(t) = s
    <2>1. /\ Tail(t) \in Seq(S) /\ Len(Tail(t)) = Len(s)
          /\ \A i \in 1 .. Len(Tail(t)) : Tail(t)[i] = t[i + 1]
      BY <1>2, <1>3, <1>5, HeadTailProperties
    <2> QED  BY <1>4, <2>1, SeqEqual
  <1> QED  BY <1>3, <1>4, <1>5, <1>6, <1>7 DEF t

(* Two elements in front are one in front of one in front.                 *)
LEMMA TwoInFront ==
  ASSUME NEW S, NEW s \in Seq(S), NEW d \in S, NEW e \in S
  PROVE  <<d, e>> \o s = <<d>> \o (<<e>> \o s)
PROOF
  <1>1. <<d>> \in Seq(S) /\ <<e>> \in Seq(S) /\ Len(<<e>>) = 1 /\ <<e>>[1] = e
    OBVIOUS
  <1>2. /\ <<d, e>> \in Seq(S) /\ Len(<<d, e>>) = 2
        /\ <<d, e>>[1] = d /\ <<d, e>>[2] = e
    OBVIOUS
  <1>3. <<d>> \o <<e>> = <<d, e>>
    <2> DEFINE t == <<d>> \o <<e>>
    <2>1. t \in Seq(S) /\ Len(t) = 2 /\ t[1] = d /\ t[2] = e
      BY <1>1, InFront
    <2> HIDE DEF t
    <2>2. \A i \in 1 .. 2 : t[i] = <<d, e>>[i]
      BY <1>2, <2>1
    <2> QED  BY <1>2, <2>1, <2>2, SeqEqual DEF t
  <1>4. (<<d>> \o <<e>>) \o s = <<d>> \o (<<e>> \o s)
    <2> DEFINE u == <<d>>
               v == <<e>>
    <2>1. u \in Seq(S) /\ v \in Seq(S)
      BY <1>1
    <2> HIDE DEF u, v
    <2>2. (u \o v) \o s = u \o (v \o s)
      BY <2>1, ConcatAssociative
    <2> QED  BY <2>2, Zenon DEF u, v
  <1> QED  BY <1>3, <1>4, Zenon

(* And so for three.                                                       *)
LEMMA ThreeInFront ==
  ASSUME NEW S, NEW s \in Seq(S), NEW c \in S, NEW d \in S, NEW e \in S
  PROVE  <<c, d, e>> \o s = <<c>> \o (<<d>> \o (<<e>> \o s))
PROOF
  <1>1. <<c>> \in Seq(S) /\ <<d, e>> \in Seq(S)
        /\ Len(<<d, e>>) = 2 /\ <<d, e>>[1] = d /\ <<d, e>>[2] = e
    OBVIOUS
  <1>2. /\ <<c, d, e>> \in Seq(S) /\ Len(<<c, d, e>>) = 3
        /\ <<c, d, e>>[1] = c /\ <<c, d, e>>[2] = d /\ <<c, d, e>>[3] = e
    OBVIOUS
  <1>3. <<c>> \o <<d, e>> = <<c, d, e>>
    <2> DEFINE t == <<c>> \o <<d, e>>
    <2>1. t \in Seq(S) /\ Len(t) = 3 /\ t[1] = c /\ t[2] = d /\ t[3] = e
      BY <1>1, InFront
    <2> HIDE DEF t
    <2>2. \A i \in 1 .. 3 : t[i] = <<c, d, e>>[i]
      BY <1>2, <2>1
    <2> QED  BY <1>2, <2>1, <2>2, SeqEqual DEF t
  <1>4. (<<c>> \o <<d, e>>) \o s = <<c>> \o (<<d, e>> \o s)
    <2> DEFINE u == <<c>>
               v == <<d, e>>
    <2>1. u \in Seq(S) /\ v \in Seq(S)
      BY <1>1
    <2> HIDE DEF u, v
    <2>2. (u \o v) \o s = u \o (v \o s)
      BY <2>1, ConcatAssociative
    <2> QED  BY <2>2, Zenon DEF u, v
  <1>5. <<d, e>> \o s = <<d>> \o (<<e>> \o s)
    BY TwoInFront
  <1> QED  BY <1>3, <1>4, <1>5, Zenon

(* The lengths.                                                            *)
LEMMA Longer ==
  ASSUME NEW S, NEW s \in Seq(S), NEW c \in S, NEW d \in S, NEW e \in S
  PROVE  /\ <<e>> \o s \in Seq(S) /\ Len(<<e>> \o s) = Len(s) + 1
         /\ <<d, e>> \o s \in Seq(S) /\ Len(<<d, e>> \o s) = Len(s) + 2
         /\ <<c, d, e>> \o s \in Seq(S) /\ Len(<<c, d, e>> \o s) = Len(s) + 3
PROOF
  <1>1. <<e>> \o s \in Seq(S) /\ Len(<<e>> \o s) = Len(s) + 1 /\ Len(s) \in Nat
    BY InFront, LenProperties
  <1>2. <<d, e>> \o s \in Seq(S) /\ Len(<<d, e>> \o s) = Len(s) + 2
    BY <1>1, InFront, TwoInFront
  <1>3. <<c>> \o (<<d>> \o (<<e>> \o s)) \in Seq(S)
        /\ Len(<<c>> \o (<<d>> \o (<<e>> \o s))) = Len(s) + 3
    BY <1>1, <1>2, InFront, TwoInFront
  <1> QED  BY <1>1, <1>2, <1>3, ThreeInFront

-----------------------------------------------------------------------------
(* The places above a stack pointer, around the end of the page. *)
Place(sp, i) == STACK_START + ((sp + i) % STACK)

(* A place at most once around the page.                                   *)
LEMMA Around ==
  ASSUME NEW n \in Nat
  PROVE  /\ n % STACK \in Offsets
         /\ n < STACK => n % STACK = n
         /\ n >= STACK /\ n < STACK + STACK => n % STACK = n - STACK
PROOF
  <1>1. STACK \in Nat \ {0}
    BY CpuAssumption
  <1> QED  BY <1>1 DEF Offsets

(* The places move by one with the stack pointer, and a push fills the one *)
(* that is free.                                                           *)
LEMMA PlacesAround ==
  ASSUME NEW sp \in Offsets
  PROVE  /\ Below(sp) \in Offsets /\ Above(sp) \in Offsets
         /\ Place(Below(sp), 1) = STACK_START + sp
         /\ Place(sp, 1) = STACK_START + Above(sp)
         /\ \A i \in 1 .. STACK - 1 :
              /\ Place(sp, i) # STACK_START + sp
              /\ Place(Below(sp), i + 1) = Place(sp, i)
              /\ Place(Above(sp), i) = Place(sp, i + 1)
         /\ \A i \in 1 .. STACK : Place(sp, i) \in StackPage
PROOF
  <1>1. STACK \in Nat /\ STACK > 3 /\ sp \in Nat /\ sp < STACK
    BY CpuAssumption DEF Offsets
  <1>2. Below(sp) \in Offsets /\ Above(sp) \in Offsets
    BY <1>1 DEF Below, Above, Offsets
  <1>3. Place(Below(sp), 1) = STACK_START + sp /\ Place(sp, 1) = STACK_START + Above(sp)
    <2>1. (Below(sp) + 1) % STACK = sp
      <3>1. CASE sp = 0
        BY <1>1, <3>1, Around DEF Below
      <3>2. CASE sp # 0
        BY <1>1, <3>2, Around DEF Below
      <3> QED  BY <3>1, <3>2
    <2>2. (sp + 1) % STACK = Above(sp)
      <3>1. CASE sp = STACK - 1
        BY <1>1, <3>1, Around DEF Above
      <3>2. CASE sp # STACK - 1
        BY <1>1, <3>2, Around DEF Above
      <3> QED  BY <3>1, <3>2
    <2> QED  BY <2>1, <2>2 DEF Place
  <1>4. ASSUME NEW i \in 1 .. STACK - 1
        PROVE  /\ Place(sp, i) # STACK_START + sp
               /\ Place(Below(sp), i + 1) = Place(sp, i)
               /\ Place(Above(sp), i) = Place(sp, i + 1)
    <2>1. Place(sp, i) = STACK_START + IF sp + i < STACK THEN sp + i ELSE sp + i - STACK
      BY <1>1, Around DEF Place
    <2>2. Place(sp, i) # STACK_START + sp
      BY <1>1, <2>1 DEF STACK_START
    <2>3. Place(Below(sp), i + 1) = Place(sp, i)
      BY <1>1, <2>1, Around, SMTT(60) DEF Place, Below
    <2>4. Place(Above(sp), i) = Place(sp, i + 1)
      BY <1>1, Around DEF Place, Above
    <2> QED  BY <2>2, <2>3, <2>4
  <1>5. \A i \in 1 .. STACK : Place(sp, i) \in StackPage
    BY <1>1, Around DEF Place, StackPage
  <1> QED  BY <1>2, <1>3, <1>4, <1>5

-----------------------------------------------------------------------------
(* A CPU holds bytes on its stack; pushing adds one, popping takes one. *)
Holds(c, bytes) ==
  /\ bytes \in Seq(Byte) /\ Len(bytes) <= STACK
  /\ \A i \in 1 .. Len(bytes) : c.ram[Place(c.sp, i)] = bytes[i]

(* A push (cpu.rs:103-106) adds a byte, if there is room for it.           *)
LEMMA PushHolds ==
  ASSUME NEW c, Sane(c), NEW bytes, Holds(c, bytes), NEW byte \in Byte,
         Len(bytes) < STACK
  PROVE  Holds(push_stack(c, byte), <<byte>> \o bytes)
PROOF
  <1> DEFINE d == push_stack(c, byte)
             more == <<byte>> \o bytes
  <1>1. c.sp \in Offsets /\ c.ram \in [Cells \cup StackPage -> Byte]
    BY DEF Sane, CpuType
  <1>2. bytes \in Seq(Byte) /\ Len(bytes) \in Nat /\ STACK \in Nat
    <2>1. bytes \in Seq(Byte)
      BY DEF Holds
    <2>2. Len(bytes) \in Nat
      BY <2>1, LenProperties
    <2> QED  BY <2>1, <2>2, CpuAssumption
  <1>3. /\ more \in Seq(Byte) /\ Len(more) = Len(bytes) + 1
        /\ more[1] = byte /\ \A i \in 1 .. Len(bytes) : more[i + 1] = bytes[i]
    BY <1>2, InFront
  <1>4. STACK_START + c.sp \in StackPage
    BY <1>1 DEF StackPage
  <1>5. d.sp = Below(c.sp) /\ d.ram = [c.ram EXCEPT ![STACK_START + c.sp] = byte]
    BY DEF push_stack, Sane, CpuType
  <1> HIDE DEF d, more
  <1>6. d.ram[Place(d.sp, 1)] = byte
    BY <1>1, <1>4, <1>5, PlacesAround
  <1>7. ASSUME NEW i \in 1 .. Len(bytes)
        PROVE  d.ram[Place(d.sp, i + 1)] = bytes[i]
    <2>1. i \in 1 .. STACK - 1
      BY <1>2
    <2>2. Place(d.sp, i + 1) = Place(c.sp, i) /\ Place(c.sp, i) # STACK_START + c.sp
      BY <1>1, <1>5, <2>1, PlacesAround
    <2> QED  BY <1>1, <1>5, <2>2 DEF Holds
  <1>8. \A i \in 1 .. Len(more) : d.ram[Place(d.sp, i)] = more[i]
    <2> TAKE i \in 1 .. Len(more)
    <2>1. i = 1 \/ \E j \in 1 .. Len(bytes) : i = j + 1
      <3>1. i # 1 => i - 1 \in 1 .. Len(bytes) /\ i = (i - 1) + 1
        BY <1>2, <1>3
      <3> QED  BY <3>1
    <2> QED  BY <1>3, <1>6, <1>7, <2>1
  <1>9. Len(more) <= STACK
    BY <1>2, <1>3
  <1> QED  BY <1>3, <1>8, <1>9 DEF Holds, d, more

(* A pop (cpu.rs:108-111) finds the byte that was pushed last.             *)
LEMMA PopHolds ==
  ASSUME NEW c, Sane(c), NEW bytes \in Seq(Byte), NEW byte \in Byte,
         Holds(c, <<byte>> \o bytes)
  PROVE  Popped(c) = byte /\ Holds(pop_stack(c), bytes)
PROOF
  <1> DEFINE d == pop_stack(c)
             more == <<byte>> \o bytes
  <1>1. c.sp \in Offsets /\ Len(bytes) \in Nat /\ STACK \in Nat
    BY CpuAssumption, LenProperties DEF Sane, CpuType
  <1>2. /\ more \in Seq(Byte) /\ Len(more) = Len(bytes) + 1
        /\ more[1] = byte /\ \A i \in 1 .. Len(bytes) : more[i + 1] = bytes[i]
    BY InFront
  <1>3. Len(more) <= STACK /\ \A i \in 1 .. Len(more) : c.ram[Place(c.sp, i)] = more[i]
    BY DEF Holds
  <1>4. d.sp = Above(c.sp) /\ d.ram = c.ram
    BY DEF pop_stack, Sane, CpuType
  <1> HIDE DEF d, more
  <1>5. Popped(c) = byte
    <2>1. 1 \in 1 .. Len(more)
      BY <1>1, <1>2
    <2> QED  BY <1>1, <1>2, <1>3, <2>1, PlacesAround DEF Popped
  <1>6. ASSUME NEW i \in 1 .. Len(bytes)
        PROVE  d.ram[Place(d.sp, i)] = bytes[i]
    <2>1. i \in 1 .. STACK - 1 /\ i + 1 \in 1 .. Len(more)
      BY <1>1, <1>2, <1>3
    <2>2. Place(d.sp, i) = Place(c.sp, i + 1)
      BY <1>1, <1>4, <2>1, PlacesAround
    <2> QED  BY <1>2, <1>3, <1>4, <2>1, <2>2
  <1>7. Len(bytes) <= STACK
    BY <1>1, <1>2, <1>3
  <1> QED  BY <1>5, <1>6, <1>7 DEF Holds, d

(* A word has its low byte above its high one. *)
LEMMA PushWordHolds ==
  ASSUME NEW c, Sane(c), NEW bytes, Holds(c, bytes), NEW address \in Address,
         Len(bytes) + 1 < STACK
  PROVE  Holds(push_word(c, address), <<Low(address), High(address)>> \o bytes)
PROOF
  <1>1. High(address) \in Byte /\ Low(address) \in Byte
    BY AddressHasBytes
  <1>2. bytes \in Seq(Byte) /\ Len(bytes) \in Nat /\ STACK \in Nat
    BY CpuAssumption, LenProperties DEF Holds
  <1>3. Holds(push_stack(c, High(address)), <<High(address)>> \o bytes)
        /\ Sane(push_stack(c, High(address)))
    BY <1>1, <1>2, PushHolds, PushSane
  <1>4. Len(<<High(address)>> \o bytes) < STACK
    BY <1>1, <1>2, InFront
  <1>5. Holds(push_word(c, address), <<Low(address)>> \o (<<High(address)>> \o bytes))
    BY <1>1, <1>3, <1>4, PushHolds DEF push_word
  <1> QED  BY <1>1, <1>2, <1>5, TwoInFront

(* An address is made of its bytes again.                                  *)
LEMMA BytesOfWord ==
  ASSUME NEW address \in Address
  PROVE  Word(High(address), Low(address)) = address
PROOF
  <1>1. address \in Nat
    BY AddressIsNat
  <1> QED  BY <1>1 DEF Word, High, Low

(* A word popped is the word that was pushed.                              *)
LEMMA PopWordHolds ==
  ASSUME NEW c, Sane(c), NEW bytes \in Seq(Byte), NEW address \in Address,
         Holds(c, <<Low(address), High(address)>> \o bytes)
  PROVE  PoppedWord(c) = address /\ Holds(pop_word(c), bytes)
PROOF
  <1>1. High(address) \in Byte /\ Low(address) \in Byte
    BY AddressHasBytes
  <1>2. <<High(address)>> \o bytes \in Seq(Byte)
    BY <1>1, InFront
  <1>3. Holds(c, <<Low(address)>> \o (<<High(address)>> \o bytes))
    BY <1>1, TwoInFront
  <1>4. Popped(c) = Low(address) /\ Holds(pop_stack(c), <<High(address)>> \o bytes)
        /\ Sane(pop_stack(c))
    BY <1>1, <1>2, <1>3, PopHolds, PushSane
  <1>5. Popped(pop_stack(c)) = High(address) /\ Holds(pop_word(c), bytes)
    BY <1>1, <1>4, PopHolds DEF pop_word
  <1> QED  BY <1>4, <1>5, BytesOfWord DEF PoppedWord
(* A push, of a byte, a word or a word and a byte, where there is room. *)
LEMMA PushOne ==
  ASSUME NEW c, Sane(c), NEW s, Holds(c, s), NEW byte \in Byte, Len(<<byte>> \o s) <= STACK
  PROVE  Holds(push_stack(c, byte), <<byte>> \o s)
PROOF
  <1>1. s \in Seq(Byte) /\ Len(s) \in Nat /\ STACK \in Nat
    BY CpuAssumption, LenProperties DEF Holds
  <1>2. Len(<<byte>> \o s) = Len(s) + 1
    BY <1>1, Longer
  <1>3. Len(s) < STACK
    BY <1>1, <1>2
  <1> QED  BY <1>3, PushHolds

(* Two bytes.                                                              *)
LEMMA PushTwo ==
  ASSUME NEW c, Sane(c), NEW s, Holds(c, s), NEW address \in Address,
         Len(<<Low(address), High(address)>> \o s) <= STACK
  PROVE  /\ Holds(push_word(c, address), <<Low(address), High(address)>> \o s)
         /\ Sane(push_word(c, address))
PROOF
  <1>1. s \in Seq(Byte) /\ Len(s) \in Nat /\ STACK \in Nat
    BY CpuAssumption, LenProperties DEF Holds
  <1>2. Len(<<Low(address), High(address)>> \o s) = Len(s) + 2
    BY <1>1, AddressHasBytes, Longer
  <1>3. Len(s) + 1 < STACK
    BY <1>1, <1>2
  <1>4. Holds(push_word(c, address), <<Low(address), High(address)>> \o s)
    BY <1>3, PushWordHolds
  <1> QED  BY <1>4, PushWordSane

(* Three bytes.                                                            *)
LEMMA PushThree ==
  ASSUME NEW c, Sane(c), NEW s, Holds(c, s), NEW address \in Address, NEW byte \in Byte,
         Len(<<byte, Low(address), High(address)>> \o s) <= STACK
  PROVE  /\ Holds(push_stack(push_word(c, address), byte),
                  <<byte, Low(address), High(address)>> \o s)
         /\ Sane(push_stack(push_word(c, address), byte))
PROOF
  <1>1. s \in Seq(Byte) /\ Len(s) \in Nat /\ STACK \in Nat
    <2>1. s \in Seq(Byte)
      BY DEF Holds
    <2> QED  BY <2>1, CpuAssumption, LenProperties
  <1> DEFINE lo == Low(address)
             hi == High(address)
             d  == push_word(c, address)
  <1>2. lo \in Byte /\ hi \in Byte
    BY AddressHasBytes
  <1>3. Len(<<lo, hi>> \o s) = Len(s) + 2 /\ Len(<<byte, lo, hi>> \o s) = Len(s) + 3
    <2> HIDE DEF lo, hi
    <2> QED  BY <1>1, <1>2, Longer
  <1>4. Len(<<lo, hi>> \o s) <= STACK
    <2>1. Len(<<byte, lo, hi>> \o s) <= STACK
      OBVIOUS
    <2> HIDE DEF lo, hi
    <2> QED  BY <1>1, <1>3, <2>1
  <1>5. Holds(d, <<lo, hi>> \o s) /\ Sane(d)
    BY <1>4, PushTwo
  <1>6. <<byte, lo, hi>> \o s = <<byte>> \o (<<lo, hi>> \o s)
    <2> HIDE DEF lo, hi
    <2>1. <<byte, lo, hi>> \o s = <<byte>> \o (<<lo>> \o (<<hi>> \o s))
      <3>1. s \in Seq(Byte) /\ byte \in Byte /\ lo \in Byte /\ hi \in Byte
        BY <1>1, <1>2
      <3> QED  BY <3>1, ThreeInFront, SMTT(60)
    <2>2. <<lo, hi>> \o s = <<lo>> \o (<<hi>> \o s)
      BY <1>1, <1>2, TwoInFront
    <2> QED  BY <2>1, <2>2, Zenon
  <1>7. Len(<<byte>> \o (<<lo, hi>> \o s)) <= STACK
    BY <1>6
  <1>8. Holds(push_stack(d, byte), <<byte>> \o (<<lo, hi>> \o s))
    <2> HIDE DEF d, lo, hi
    <2> QED  BY <1>5, <1>7, PushOne
  <1>9. Sane(push_stack(d, byte))
    <2> HIDE DEF d
    <2> QED  BY <1>5, PushSane
  <1> QED  BY <1>6, <1>8, <1>9

-----------------------------------------------------------------------------
(* Instructions that leave the stack alone. *)
Keeps(c, d) == d.sp = c.sp /\ d.ram = c.ram

Aside(c, d) == d.sp = c.sp /\ \A i \in StackPage : d.ram[i] = c.ram[i]

(* Such an instruction leaves what the stack holds.                        *)
LEMMA AsideHolds ==
  ASSUME NEW c, Sane(c), NEW d, Aside(c, d), NEW bytes, Holds(c, bytes)
  PROVE  Holds(d, bytes)
PROOF
  <1>1. c.sp \in Offsets /\ Len(bytes) \in Nat /\ Len(bytes) <= STACK /\ STACK \in Nat
    BY CpuAssumption, LenProperties DEF Sane, CpuType, Holds
  <1>2. \A i \in 1 .. Len(bytes) : Place(c.sp, i) \in StackPage
    <2>1. \A i \in 1 .. Len(bytes) : i \in 1 .. STACK
      BY <1>1
    <2> QED  BY <1>1, <2>1, PlacesAround
  <1> QED  BY <1>2 DEF Holds, Aside

(* The instructions that read a byte.                                      *)
LEMMA OnByteKeeps ==
  ASSUME NEW c \in CpuType, NEW byte, NEW name \in Reading
  PROVE  Keeps(c, OnByte(name, c, byte))
PROOF
  <1>1. CASE name \in {"ADC", "SBC"}
    BY <1>1, ZenonT(60) DEF CpuType, Keeps, OnByte, adc, sbc
  <1>2. CASE name \in {"AND", "ORA", "EOR", "BIT"}
    BY <1>2 DEF CpuType, Keeps, OnByte, and, ora, eor, bit, lda
  <1>3. CASE name \in {"CMP", "CPX", "CPY"}
    BY <1>3 DEF CpuType, Keeps, OnByte, cmp, cpx, cpy, Compared
  <1>4. CASE name \in {"LDA", "LDX", "LDY"}
    BY <1>4 DEF CpuType, Keeps, OnByte, lda, ldx, ldy
  <1> QED  BY <1>1, <1>2, <1>3, <1>4 DEF Reading

(* The instructions on registers and flags: TSX reads the stack pointer,   *)
(* none writes it.                                                         *)
LEMMA OnRegistersKeeps ==
  ASSUME NEW c \in CpuType, NEW name \in Implied
  PROVE  Keeps(c, OnRegisters(name, c))
PROOF
  <1>1. CASE name \in {"TAX", "TAY", "TXA", "TYA", "TSX", "NOP"}
    BY <1>1 DEF CpuType, Keeps, OnRegisters, tax, tay, txa, tya, tsx, nop, lda, ldx, ldy
  <1>2. CASE name \in {"INX", "INY", "DEX", "DEY"}
    BY <1>2, ZenonT(60) DEF CpuType, Keeps, OnRegisters, inx, iny, dex, dey, ldx, ldy
  <1>3. CASE name \in {"CLC", "SEC", "CLI", "SEI", "CLD", "SED", "CLV"}
    BY <1>3 DEF CpuType, Keeps, OnRegisters, clc, sec, cli, sei, cld, sed, clv
  <1> QED  BY <1>1, <1>2, <1>3 DEF Implied

(* The instructions that make a byte of a byte.                            *)
LEMMA ModifiedKeeps ==
  ASSUME NEW c \in CpuType, NEW byte, NEW name \in Modifying
  PROVE  Keeps(c, ModifiedFlags(name, c, byte))
PROOF
  BY DEF CpuType, Keeps, ModifiedFlags, Modifying, asl, rol, lsr, ror, inc, dec, Shifted

(* The branches.                                                           *)
LEMMA OnBranchKeeps ==
  ASSUME NEW c \in CpuType, NEW to, NEW name \in Branching
  PROVE  Keeps(c, OnBranch(name, c, to))
PROOF
  <1>1. \A taken : Keeps(c, branch(c, taken, to))
    BY DEF CpuType, Keeps, branch
  <1> QED  BY <1>1 DEF OnBranch, Branching, bcc, bcs, bne, beq, bpl, bmi, bvc, bvs

(* Reading the bytes of an instruction.                                    *)
LEMMA FetchedKeeps ==
  ASSUME Sane(cpu), NEW n \in Nat
  PROVE  /\ Sane(Fetched(n)) /\ Fetched(n) \in CpuType /\ Keeps(cpu, Fetched(n))
         /\ Fetched(n).a = cpu.a /\ Fetched(n).status = cpu.status
         /\ Fetched(n).pc = Later(cpu.pc, n)
PROOF
  <1>1. Sane(Fetched(n))
    BY FetchSane DEF Fetched
  <1> QED  BY <1>1 DEF Fetched, Keeps, Sane, CpuType

(* The cells that the program uses are not on the stack page.              *)
LEMMA CellsApart ==
  ASSUME NEW cell \in Cells
  PROVE  cell \notin StackPage
PROOF
  BY CpuAssumption DEF StackPage, STACK_START, Offsets

(* The stack at the execution of an instruction is that before it.         *)
LEMMA FetchedHolds ==
  ASSUME Sane(cpu), NEW n \in Nat, NEW bytes, Holds(cpu, bytes)
  PROVE  Holds(Fetched(n), bytes)
PROOF
  BY FetchedKeeps, AsideHolds DEF Keeps, Aside

(* The instructions that are not about the stack.                          *)
LEMMA OthersLeaveStack ==
  ASSUME Sane(cpu), program \in Programs,
         Immediate \/ ReadCell \/ OnRegister \/ ModifyAccumulator \/ ModifyCell
           \/ Store \/ Jump \/ StrobePads \/ ReadPad \/ WritePrg
  PROVE  Aside(cpu, cpu') /\ UNCHANGED <<frames, saved>>
PROOF
  <1>1. UNCHANGED <<frames, saved>>
    BY DEF Immediate, ReadCell, ReadByte, OnRegister, ModifyAccumulator, ModifyCell, Store,
      Jump, StrobePads, ReadPad, WritePrg, Executes, Inner, history
  <1>2. \A n \in {1, 2, 3} : Fetched(n) \in CpuType /\ Keeps(cpu, Fetched(n))
    BY FetchedKeeps
  <1>3. \A n \in {1, 2, 3} : \A d : Keeps(Fetched(n), d) => Aside(cpu, d)
    BY <1>2 DEF Keeps, Aside
  <1>4. CASE Immediate
    BY <1>1, <1>2, <1>3, <1>4, OnByteKeeps DEF Immediate, ReadByte, Executes
  <1>5. CASE ReadCell
    BY <1>1, <1>2, <1>3, <1>5, OnByteKeeps DEF ReadCell, ReadByte, Executes
  <1>6. CASE OnRegister
    BY <1>1, <1>2, <1>3, <1>6, OnRegistersKeeps DEF OnRegister, Executes
  <1>7. CASE ModifyAccumulator
    <2>1. PICK name \in Modifying :
            cpu' = [ModifiedFlags(name, Fetched(1), cpu.a)
                      EXCEPT !.a = ModifiedByte(name, cpu, cpu.a)]
      BY <1>7 DEF ModifyAccumulator, Executes
    <2> DEFINE d == ModifiedFlags(name, Fetched(1), cpu.a)
    <2>2. Keeps(Fetched(1), d) /\ d \in CpuType
      BY <1>2, ModifiedKeeps, FetchedKeeps, ModifySane DEF Sane, ModifiedFlags, Modifying
    <2> HIDE DEF d
    <2>3. \A byte : Keeps(Fetched(1), [d EXCEPT !.a = byte])
      BY <2>2 DEF Keeps, CpuType
    <2> QED  BY <1>1, <1>3, <2>1, <2>3 DEF d
  <1>8. CASE ModifyCell
    <2>1. PICK name \in Modifying, cell \in Cells :
            cpu' = [ModifiedFlags(name, Fetched(3), cpu.ram[cell]) EXCEPT
              !.ram = [@ EXCEPT ![cell] = ModifiedByte(name, cpu, cpu.ram[cell])]]
      BY <1>8 DEF ModifyCell, Executes
    <2> DEFINE d == ModifiedFlags(name, Fetched(3), cpu.ram[cell])
    <2>2. Keeps(Fetched(3), d) /\ d \in CpuType
      BY <1>2, ModifiedKeeps, FetchedKeeps, ModifySane DEF Sane, ModifiedFlags, Modifying
    <2> HIDE DEF d
    <2>3. cell \notin StackPage
      BY CellsApart
    <2>4. \A byte : Aside(cpu, [d EXCEPT !.ram = [@ EXCEPT ![cell] = byte]])
      BY <1>2, <2>2, <2>3 DEF Keeps, Aside, CpuType
    <2> QED  BY <1>1, <2>1, <2>4 DEF d
  <1>9. CASE Store
    <2>1. PICK cell \in Cells : cpu' = sta(Fetched(3), cell) \/ cpu' = stx(Fetched(3), cell)
                                \/ cpu' = sty(Fetched(3), cell)
      BY <1>9 DEF Store, Executes
    <2>2. cell \notin StackPage
      BY CellsApart
    <2>3. Aside(cpu, cpu')
      BY <1>2, <2>1, <2>2 DEF Keeps, Aside, CpuType, sta, stx, sty
    <2> QED  BY <1>1, <2>3
  <1>10. CASE Jump
    <2>1. \A to : Keeps(Fetched(3), jmp(Fetched(3), to))
      BY <1>2 DEF Keeps, jmp, CpuType
    <2> QED  BY <1>1, <1>2, <1>3, <1>10, <2>1, OnBranchKeeps DEF Jump, Executes
  <1>11. CASE StrobePads \/ WritePrg
    BY <1>1, <1>2, <1>11 DEF StrobePads, WritePrg, Executes, Keeps, Aside
  <1>12. CASE ReadPad
    <2>1. \A byte : Keeps(Fetched(3), lda(Fetched(3), byte))
      BY <1>2 DEF Keeps, lda, CpuType
    <2> QED  BY <1>1, <1>3, <1>12, <2>1 DEF ReadPad, Executes
  <1> QED  BY <1>4, <1>5, <1>6, <1>7, <1>8, <1>9, <1>10, <1>11, <1>12

-----------------------------------------------------------------------------
(* Frames.  Each one's bytes are those it was made for, and behind them    *)
(* the bytes of the frame below.                                           *)
Sequenced(fs) == fs \in Seq({fs[i] : i \in DOMAIN fs})

Top(fs)     == IF fs = <<>> THEN <<>> ELSE Head(fs).bytes
Rest(fs, i) == IF i = Len(fs) THEN <<>> ELSE fs[i + 1].bytes

FrameOK(f, rest) ==
  /\ f.bytes \in Seq(Byte) /\ rest \in Seq(Byte)
  /\ SaneStatus(f.status) /\ f.a \in Byte /\ f.back \in Address
  /\ f.kind = "byte" => f.bytes = <<f.a>> \o rest
  /\ f.kind = "status" => f.bytes = <<StatusByte(f.status, TRUE)>> \o rest
  /\ f.kind = "call" =>
       f.bytes = <<Low(Later(f.back, ADDRESSES - 1)),
                   High(Later(f.back, ADDRESSES - 1))>> \o rest
  /\ f.kind = "interrupt" =>
       \E broken \in BOOLEAN :
         f.bytes = <<StatusByte(f.status, broken), Low(f.back), High(f.back)>> \o rest

FramesOK(fs) == Sequenced(fs) /\ \A i \in 1 .. Len(fs) : FrameOK(fs[i], Rest(fs, i))

(* A sequence is one of its elements.                                      *)
LEMMA IsSequenced ==
  ASSUME NEW S, NEW fs \in Seq(S)
  PROVE  Sequenced(fs)
PROOF
  <1> DEFINE T == {fs[i] : i \in DOMAIN fs}
  <1>1. Len(fs) \in Nat /\ fs \in [1 .. Len(fs) -> S]
    BY LenProperties
  <1>2. fs \in [1 .. Len(fs) -> T]
    BY <1>1
  <1>3. fs \in Seq(T)
    BY <1>1, <1>2
  <1> QED  BY <1>3 DEF Sequenced

(* A frame on top.                                                         *)
LEMMA FramesPush ==
  ASSUME NEW fs, FramesOK(fs), NEW f, FrameOK(f, Top(fs))
  PROVE  FramesOK(<<f>> \o fs) /\ Top(<<f>> \o fs) = f.bytes
PROOF
  <1> DEFINE gs == <<f>> \o fs
             S == {fs[i] : i \in DOMAIN fs} \cup {f}
  <1>1. fs \in Seq(S) /\ Len(fs) \in Nat /\ f \in S
    BY LenProperties DEF FramesOK, Sequenced
  <1>2. /\ gs \in Seq(S) /\ Len(gs) = Len(fs) + 1 /\ gs # <<>> /\ Head(gs) = f
        /\ gs[1] = f /\ \A i \in 1 .. Len(fs) : gs[i + 1] = fs[i]
    BY <1>1, InFront
  <1> HIDE DEF gs, S
  <1>3. Sequenced(gs) /\ Top(gs) = f.bytes
    BY <1>2, IsSequenced DEF Top
  <1>4. FrameOK(gs[1], Rest(gs, 1))
    <2>1. CASE fs = <<>>
      <3>1. Len(gs) = 1
        BY <1>2, <2>1
      <3> QED  BY <1>2, <2>1, <3>1 DEF Rest, Top
    <2>2. CASE fs # <<>>
      <3>1. Len(fs) # 0 /\ Head(fs) = fs[1]
        BY <1>1, <2>2, EmptySeq
      <3>2. Rest(gs, 1) = fs[1].bytes
        BY <1>1, <1>2, <3>1 DEF Rest
      <3> QED  BY <1>2, <2>2, <3>1, <3>2 DEF Top
    <2> QED  BY <2>1, <2>2
  <1>5. ASSUME NEW i \in 1 .. Len(fs)
        PROVE  FrameOK(gs[i + 1], Rest(gs, i + 1))
    <2>1. FrameOK(fs[i], Rest(fs, i))
      BY DEF FramesOK
    <2>2. Rest(gs, i + 1) = Rest(fs, i)
      <3>1. CASE i = Len(fs)
        BY <1>1, <1>2, <3>1 DEF Rest
      <3>2. CASE i # Len(fs)
        <4>1. i + 1 \in 1 .. Len(fs) /\ gs[(i + 1) + 1] = fs[i + 1] /\ i + 1 # Len(gs)
          BY <1>1, <1>2, <3>2
        <4> QED  BY <3>2, <4>1 DEF Rest
      <3> QED  BY <3>1, <3>2
    <2> QED  BY <1>2, <2>1, <2>2
  <1>6. \A i \in 1 .. Len(gs) : FrameOK(gs[i], Rest(gs, i))
    <2> TAKE i \in 1 .. Len(gs)
    <2>1. i = 1 \/ \E j \in 1 .. Len(fs) : i = j + 1
      <3>1. i # 1 => i - 1 \in 1 .. Len(fs) /\ i = (i - 1) + 1
        BY <1>1, <1>2
      <3> QED  BY <3>1
    <2> QED  BY <1>4, <1>5, <2>1
  <1> QED  BY <1>3, <1>6 DEF FramesOK, gs

(* The frame on top is gone.                                               *)
LEMMA FramesPop ==
  ASSUME NEW fs, FramesOK(fs), fs # <<>>
  PROVE  FramesOK(Tail(fs)) /\ FrameOK(Head(fs), Top(Tail(fs)))
PROOF
  <1> DEFINE gs == Tail(fs)
             S == {fs[i] : i \in DOMAIN fs}
  <1>1. fs \in Seq(S) /\ Len(fs) \in Nat
    BY LenProperties DEF FramesOK, Sequenced
  <1>2. /\ gs \in Seq(S) /\ Len(gs) = Len(fs) - 1
        /\ \A i \in 1 .. Len(gs) : gs[i] = fs[i + 1]
    BY <1>1, HeadTailProperties
  <1>3. Len(fs) > 0 /\ Head(fs) = fs[1]
    BY <1>1, EmptySeq
  <1> HIDE DEF gs, S
  <1>4. Sequenced(gs)
    BY <1>2, IsSequenced
  <1>5. ASSUME NEW i \in 1 .. Len(gs)
        PROVE  FrameOK(gs[i], Rest(gs, i))
    <2>1. i + 1 \in 1 .. Len(fs) /\ gs[i] = fs[i + 1]
      BY <1>1, <1>2, <1>3
    <2>2. Rest(gs, i) = Rest(fs, i + 1)
      <3>1. CASE i = Len(gs)
        BY <1>1, <1>2, <3>1 DEF Rest
      <3>2. CASE i # Len(gs)
        <4>1. i + 1 \in 1 .. Len(gs) /\ gs[i + 1] = fs[(i + 1) + 1] /\ i + 1 # Len(fs)
          BY <1>1, <1>2, <3>2
        <4> QED  BY <3>2, <4>1 DEF Rest
      <3> QED  BY <3>1, <3>2
    <2> QED  BY <2>1, <2>2 DEF FramesOK
  <1>6. Top(gs) = Rest(fs, 1)
    <2>1. CASE gs = <<>>
      <3>1. Len(fs) = 1
        BY <1>1, <1>2, <2>1
      <3> QED  BY <2>1, <3>1 DEF Top, Rest
    <2>2. CASE gs # <<>>
      <3>1. Len(gs) # 0 /\ Len(gs) \in Nat /\ Head(gs) = gs[1]
        BY <1>2, <2>2, EmptySeq, LenProperties
      <3>2. gs[1] = fs[2] /\ 1 # Len(fs)
        BY <1>1, <1>2, <3>1
      <3> QED  BY <2>2, <3>1, <3>2 DEF Top, Rest
    <2> QED  BY <2>1, <2>2
  <1>7. FrameOK(fs[1], Rest(fs, 1))
    BY <1>1, <1>3 DEF FramesOK
  <1> QED  BY <1>3, <1>4, <1>5, <1>6, <1>7 DEF FramesOK, gs
-----------------------------------------------------------------------------
(* The stack in memory is the stack of the frames, in the saved state too. *)
StackInv ==
  /\ FramesOK(frames) /\ Holds(cpu, Top(frames))
  /\ saved # <<>> => /\ FramesOK(saved[1].frames)
                     /\ Holds(saved[1].blob.cpu, Top(saved[1].frames))

(* Every CPU holds nothing.                                                *)
LEMMA EmptyStack ==
  ASSUME NEW c
  PROVE  FramesOK(<<>>) /\ Holds(c, Top(<<>>))
PROOF
  <1>1. <<>> \in Seq(Byte) /\ Len(<<>>) = 0 /\ 0 <= STACK
    BY CpuAssumption
  <1>2. Sequenced(<<>>)
    BY DEF Sequenced
  <1> QED  BY <1>1, <1>2 DEF FramesOK, Holds, Top

(* At the start the stack is empty.                                        *)
LEMMA StackInvInit == Init => StackInv
PROOF
  BY EmptyStack DEF Init, StackInv

(* The byte that goes onto the stack for a status, and what PLP and RTI    *)
(* make of it.                                                             *)
LEMMA StatusBack ==
  ASSUME NEW status, SaneStatus(status), NEW other, SaneStatus(other),
         NEW broken \in BOOLEAN
  PROVE  /\ StatusByte(status, broken) \in Byte
         /\ (Decoded(StatusByte(status, broken)) \ {"break", "unused"})
              \cup (other \cap {"break", "unused"}) = status
         /\ StatusByte(status, TRUE) = Encoded(status \cup {"break", "unused"})
         /\ StatusByte(status, FALSE) = Encoded(status \cup {"unused"})
PROOF
  <1> DEFINE pushed == (status \ {"break"}) \cup {"unused"}
                         \cup (IF broken THEN {"break"} ELSE {})
  <1>1. pushed \in SUBSET Flags
    BY DEF SaneStatus, Flags
  <1>2. StatusByte(status, broken) \in Byte /\ Decoded(StatusByte(status, broken)) = pushed
    BY <1>1, StatusComesBack DEF StatusByte
  <1>3. (pushed \ {"break", "unused"}) \cup (other \cap {"break", "unused"}) = status
    BY DEF SaneStatus
  <1>4. /\ (status \ {"break"}) \cup {"unused"} \cup {"break"} = status \cup {"break", "unused"}
        /\ (status \ {"break"}) \cup {"unused"} \cup {} = status \cup {"unused"}
    BY DEF SaneStatus
  <1>5. /\ StatusByte(status, TRUE) = Encoded(status \cup {"break", "unused"})
        /\ StatusByte(status, FALSE) = Encoded(status \cup {"unused"})
    BY <1>4 DEF StatusByte
  <1> QED  BY <1>2, <1>3, <1>5

(* A place in the code, one further and back. *)
LEMMA LaterAgain ==
  ASSUME NEW address \in Address
  PROVE  /\ Later(Later(address, 1), 2) = Later(address, 3)
         /\ Later(Later(address, ADDRESSES - 1), 1) = address
PROOF
  <1>1. address \in Nat /\ address < 65536
    BY AddressIsNat DEF ADDRESSES
  <1> QED  BY <1>1 DEF Later, ADDRESSES

-----------------------------------------------------------------------------
(* Pushing.  StackOK is what an action has to bring about. *)
StackOK == FramesOK(frames) /\ Holds(cpu, Top(frames))

(* The bytes on the stack are those of the frame on top and those below.   *)
LEMMA OnStackIsTop == OnStack = Top(frames)
PROOF
  BY DEF OnStack, Top

(* What the invariants say of the CPU and its stack.                       *)
LEMMA StackFacts ==
  ASSUME ConsoleInv, StackInv
  PROVE  /\ Top(frames) \in Seq(Byte) /\ Len(Top(frames)) \in Nat /\ STACK \in Nat
         /\ Holds(cpu, Top(frames)) /\ FramesOK(frames)
         /\ Sane(cpu) /\ SaneStatus(cpu.status) /\ cpu.a \in Byte /\ cpu.pc \in Address
         /\ program.room \in 0 .. STACK
PROOF
  <1>1. Holds(cpu, Top(frames)) /\ FramesOK(frames)
    BY DEF StackInv
  <1>2. Top(frames) \in Seq(Byte) /\ Len(Top(frames)) \in Nat
    BY <1>1, LenProperties DEF Holds
  <1>3. Sane(cpu) /\ SaneStatus(cpu.status) /\ cpu.a \in Byte /\ cpu.pc \in Address
    BY DEF ConsoleInv, CpuFits, Sane, CpuType
  <1>4. STACK \in Nat /\ program.room \in 0 .. STACK
    BY ConsoleAssumption, CpuAssumption DEF ConsoleInv
  <1> QED  BY <1>1, <1>2, <1>3, <1>4

(* A frame put on top within the room that the program takes.              *)
LEMMA NewFrameOK ==
  ASSUME ConsoleInv, StackInv, NEW f, NEW bytes, f.bytes = bytes \o Top(frames),
         FrameOK(f, Top(frames)), Pushed(f)
  PROVE  FramesOK(frames') /\ Top(frames') = bytes \o Top(frames)
         /\ Len(bytes \o Top(frames)) <= STACK
PROOF
  <1>1. frames' = <<f>> \o frames /\ Len(f.bytes) <= program.room
    BY DEF Pushed
  <1>2. Len(f.bytes) \in Nat
    BY LenProperties DEF FrameOK
  <1>3. Len(f.bytes) <= STACK
    BY <1>1, <1>2, StackFacts
  <1>4. FramesOK(frames') /\ Top(frames') = f.bytes
    BY <1>1, FramesPush, StackFacts
  <1> QED  BY <1>3, <1>4

(* PHA.                                                                    *)
LEMMA PushAccumulatorOK ==
  ASSUME ConsoleInv, StackInv, PushAccumulator
  PROVE  StackOK'
PROOF
  <1> DEFINE f == Frame("byte", <<cpu.a>>, 0)
             bytes == <<cpu.a>> \o Top(frames)
  <1>1. bytes \in Seq(Byte) /\ Len(bytes) = Len(Top(frames)) + 1 /\ 0 \in Address
    BY StackFacts, Longer, AddressesIsNat DEF Address
  <1>2. /\ f.kind = "byte" /\ f.bytes = bytes /\ f.back = 0
        /\ f.status = cpu.status /\ f.a = cpu.a
    BY OnStackIsTop DEF Frame
  <1>3. Pushed(f) /\ cpu' = push_stack(Fetched(1), Fetched(1).a)
    BY DEF PushAccumulator, Executes, pha
  <1> HIDE DEF f
  <1>4. FrameOK(f, Top(frames))
    BY <1>1, <1>2, StackFacts DEF FrameOK
  <1>5. FramesOK(frames') /\ Top(frames') = bytes /\ Len(bytes) <= STACK
    BY <1>2, <1>3, <1>4, NewFrameOK
  <1>6. Holds(Fetched(1), Top(frames)) /\ Sane(Fetched(1)) /\ Fetched(1).a = cpu.a
    BY StackFacts, FetchedHolds, FetchedKeeps
  <1>7. Holds(cpu', bytes)
    BY <1>1, <1>3, <1>5, <1>6, StackFacts, PushHolds
  <1> QED  BY <1>5, <1>7 DEF StackOK

(* PHP.                                                                    *)
LEMMA PushStatusOK ==
  ASSUME ConsoleInv, StackInv, PushStatus
  PROVE  StackOK'
PROOF
  <1> DEFINE byte == StatusByte(cpu.status, TRUE)
             f    == Frame("status", <<byte>>, 0)
  <1>1. byte \in Byte /\ byte = Encoded(cpu.status \cup {"break", "unused"})
    BY StackFacts, StatusBack
  <1>2. Fetched(1).status = cpu.status /\ Sane(Fetched(1)) /\ Holds(Fetched(1), Top(frames))
    BY StackFacts, FetchedHolds, FetchedKeeps
  <1>3. Pushed(f) /\ cpu' = push_stack(Fetched(1), byte)
    BY <1>1, <1>2 DEF PushStatus, Executes, php
  <1>4. /\ f.kind = "status" /\ f.bytes = <<byte>> \o Top(frames) /\ f.back = 0
        /\ f.status = cpu.status /\ f.a = cpu.a
    BY OnStackIsTop DEF Frame
  <1> HIDE DEF f, byte
  <1>5. <<byte>> \o Top(frames) \in Seq(Byte) /\ 0 \in Address
    BY <1>1, StackFacts, Longer, AddressesIsNat DEF Address
  <1>6. FrameOK(f, Top(frames))
    BY <1>4, <1>5, StackFacts DEF FrameOK, byte
  <1>7. FramesOK(frames') /\ Top(frames') = <<byte>> \o Top(frames)
        /\ Len(<<byte>> \o Top(frames)) <= STACK
    BY <1>3, <1>4, <1>6, NewFrameOK
  <1>8. Holds(cpu', <<byte>> \o Top(frames))
    BY <1>1, <1>2, <1>3, <1>7, PushOne
  <1> QED  BY <1>7, <1>8 DEF StackOK

(* JSR.                                                                    *)
LEMMA CallOK ==
  ASSUME ConsoleInv, StackInv, Call
  PROVE  StackOK'
PROOF
  <1> DEFINE back == Later(cpu.pc, 3)
             last == Later(back, ADDRESSES - 1)
             f    == Frame("call", <<Low(last), High(last)>>, back)
             c    == push_word(Fetched(3), last)
  <1>1. /\ Sane(Fetched(3)) /\ Fetched(3).pc = back /\ back \in Address
        /\ Holds(Fetched(3), Top(frames))
    BY StackFacts, FetchedHolds, FetchedKeeps, LaterIsAddress
  <1>2. last \in Address /\ Low(last) \in Byte /\ High(last) \in Byte
    BY <1>1, LaterIsAddress, AddressesIsNat, AddressHasBytes
  <1>3. PICK to \in Targets : cpu' = [c EXCEPT !.pc = to]
    BY <1>1 DEF Call, Executes, jsr
  <1>4. Pushed(f)
    BY DEF Call, CallFrame
  <1>5. /\ f.kind = "call" /\ f.bytes = <<Low(last), High(last)>> \o Top(frames)
        /\ f.back = back /\ f.status = cpu.status /\ f.a = cpu.a
    BY OnStackIsTop DEF Frame
  <1> HIDE DEF back, last, f
  <1>6. <<Low(last), High(last)>> \o Top(frames) \in Seq(Byte)
    BY <1>2, StackFacts, Longer
  <1>7. FrameOK(f, Top(frames))
    BY <1>1, <1>5, <1>6, StackFacts DEF FrameOK, last
  <1>8. FramesOK(frames') /\ Top(frames') = <<Low(last), High(last)>> \o Top(frames)
        /\ Len(<<Low(last), High(last)>> \o Top(frames)) <= STACK
    BY <1>4, <1>5, <1>7, NewFrameOK
  <1>9. Holds(c, Top(frames')) /\ Sane(c)
    BY <1>1, <1>2, <1>8, PushTwo
  <1> HIDE DEF c
  <1>10. Aside(c, cpu')
    BY <1>3, <1>9 DEF Aside, Sane, CpuType
  <1>11. Holds(cpu', Top(frames'))
    BY <1>9, <1>10, AsideHolds
  <1> QED  BY <1>8, <1>11 DEF StackOK

(* BRK and the interrupts, that push a word and then a status. *)
LEMMA EnteringOK ==
  ASSUME ConsoleInv, StackInv, NEW broken \in BOOLEAN, NEW back \in Address,
         NEW c, Sane(c), Holds(c, Top(frames)),
         Pushed(InterruptFrame(back, broken)),
         Aside(push_stack(push_word(c, back), StatusByte(cpu.status, broken)), cpu')
  PROVE  StackOK'
PROOF
  <1> DEFINE byte == StatusByte(cpu.status, broken)
             f    == Frame("interrupt", <<byte, Low(back), High(back)>>, back)
             d    == push_stack(push_word(c, back), byte)
  <1>1. byte \in Byte /\ Low(back) \in Byte /\ High(back) \in Byte
    BY StackFacts, StatusBack, AddressHasBytes
  <1>2. Pushed(f)
    BY DEF InterruptFrame
  <1>3. /\ f.kind = "interrupt" /\ f.bytes = <<byte, Low(back), High(back)>> \o Top(frames)
        /\ f.back = back /\ f.status = cpu.status /\ f.a = cpu.a
    BY OnStackIsTop DEF Frame
  <1>4. Aside(d, cpu')
    OBVIOUS
  <1> HIDE DEF byte, f
  <1>5. <<byte, Low(back), High(back)>> \o Top(frames) \in Seq(Byte)
    BY <1>1, StackFacts, Longer
  <1>6. FrameOK(f, Top(frames))
    BY <1>3, <1>5, StackFacts DEF FrameOK, byte
  <1>7. /\ FramesOK(frames') /\ Top(frames') = <<byte, Low(back), High(back)>> \o Top(frames)
        /\ Len(<<byte, Low(back), High(back)>> \o Top(frames)) <= STACK
    BY <1>2, <1>3, <1>6, NewFrameOK
  <1>8. Holds(d, Top(frames')) /\ Sane(d)
    BY <1>1, <1>7, PushThree
  <1> HIDE DEF d
  <1>9. Holds(cpu', Top(frames'))
    BY <1>4, <1>8, AsideHolds
  <1> QED  BY <1>7, <1>9 DEF StackOK

(* BRK.                                                                    *)
LEMMA BreakOK ==
  ASSUME ConsoleInv, StackInv, Break
  PROVE  StackOK'
PROOF
  <1> DEFINE back == Later(cpu.pc, 3)
             c    == Fetched(1)
             d    == push_stack(push_word(c, back), StatusByte(cpu.status, TRUE))
  <1>1. Sane(cpu) /\ cpu.pc \in Address
    BY StackFacts
  <1>2. /\ Sane(c) /\ c.status = cpu.status /\ Holds(c, Top(frames))
        /\ Later(c.pc, 2) = back /\ back \in Address
    <2>1. /\ Sane(c) /\ c.status = cpu.status /\ Holds(c, Top(frames))
          /\ c.pc = Later(cpu.pc, 1)
      BY StackFacts, FetchedHolds, FetchedKeeps
    <2>2. Later(Later(cpu.pc, 1), 2) = back /\ back \in Address
      BY <1>1, LaterAgain, LaterIsAddress
    <2> QED  BY <2>1, <2>2
  <1>3. cpu' = [d EXCEPT !.status = @ \cup {"disable"}, !.pc = Vector["IRQ"]]
    BY <1>1, <1>2, StatusBack DEF Break, Executes, brk, Sane
  <1>4. Sane(d)
    BY <1>1, <1>2, StatusBack, PushWordSane, PushSane DEF Sane
  <1> HIDE DEF d
  <1>5. Aside(d, cpu')
    BY <1>3, <1>4 DEF Aside, Sane, CpuType
  <1>6. Pushed(InterruptFrame(back, TRUE))
    BY DEF Break
  <1> HIDE DEF back, c
  <1> QED  BY <1>2, <1>5, <1>6, EnteringOK DEF d

(* NMI and IRQ.                                                            *)
LEMMA TakeInterruptOK ==
  ASSUME ConsoleInv, StackInv, TakeInterrupt
  PROVE  StackOK'
PROOF
  <1> DEFINE d == push_stack(push_word(cpu, cpu.pc), StatusByte(cpu.status, FALSE))
  <1>1. Sane(cpu) /\ cpu.pc \in Address /\ Holds(cpu, Top(frames))
    BY DEF ConsoleInv, StackInv, CpuFits, Sane, CpuType
  <1>2. cpu' = entered(d, cpu.interrupt)
    BY <1>1, StatusBack DEF TakeInterrupt, take_interrupt, Sane
  <1>3. Sane(d)
    BY <1>1, StatusBack, PushWordSane, PushSane DEF Sane
  <1> HIDE DEF d
  <1>4. Aside(d, cpu')
    BY <1>2, <1>3 DEF Aside, Sane, CpuType, entered
  <1>5. Pushed(InterruptFrame(cpu.pc, FALSE))
    BY DEF TakeInterrupt
  <1> QED  BY <1>1, <1>4, <1>5, EnteringOK DEF d

-----------------------------------------------------------------------------
(* Pulling. *)
LEMMA PulledFrame ==
  ASSUME ConsoleInv, StackInv, NEW kind, Pulls(kind)
  PROVE  /\ FramesOK(frames') /\ FrameOK(Head(frames), Top(frames'))
         /\ Top(frames') \in Seq(Byte)
         /\ Head(frames).kind = kind /\ Holds(cpu, Head(frames).bytes)
PROOF
  <1>1. frames # <<>> /\ frames' = Tail(frames) /\ Head(frames).kind = kind
    BY DEF Pulls
  <1>2. FramesOK(frames') /\ FrameOK(Head(frames), Top(frames'))
    BY <1>1, FramesPop, StackFacts
  <1>3. Holds(cpu, Head(frames).bytes)
    BY <1>1, StackFacts DEF Top
  <1> QED  BY <1>1, <1>2, <1>3 DEF FrameOK

(* Pops change the stack pointer alone.                                    *)
LEMMA PopSane ==
  ASSUME NEW c, Sane(c)
  PROVE  /\ Sane(pop_stack(c)) /\ pop_stack(c).status = c.status
         /\ Sane(pop_word(c)) /\ pop_word(c).status = c.status
PROOF
  <1>1. 0 \in Byte
    BY DEF Byte
  <1>2. Sane(pop_stack(c)) /\ pop_stack(c).status = c.status
    BY <1>1, PushSane
  <1>3. Sane(pop_stack(pop_stack(c)))
        /\ pop_stack(pop_stack(c)).status = pop_stack(c).status
    BY <1>1, <1>2, PushSane
  <1> QED  BY <1>2, <1>3 DEF pop_word

(* PLA brings back the accumulator of its PHA.                             *)
LEMMA PullAccumulatorOK ==
  ASSUME ConsoleInv, StackInv, PullAccumulator
  PROVE  StackOK' /\ cpu'.a = Head(frames).a
PROOF
  <1> DEFINE f == Head(frames)
             c == Fetched(1)
             s == Top(frames')
  <1>1. cpu' = pla(c)
    BY DEF PullAccumulator, Executes
  <1>2. /\ FramesOK(frames') /\ FrameOK(f, s) /\ f.kind = "byte" /\ s \in Seq(Byte)
        /\ Holds(cpu, f.bytes)
    BY PulledFrame DEF PullAccumulator
  <1>3. Sane(c) /\ Holds(c, f.bytes)
    BY <1>2, StackFacts, FetchedHolds, FetchedKeeps
  <1> HIDE DEF f, c, s
  <1>4. f.bytes = <<f.a>> \o s /\ f.a \in Byte
    BY <1>2 DEF FrameOK
  <1>5. Popped(c) = f.a /\ Holds(pop_stack(c), s)
    BY <1>2, <1>3, <1>4, PopHolds
  <1>6. cpu'.a = f.a /\ Aside(pop_stack(c), cpu') /\ Sane(pop_stack(c))
    <2>1. Sane(pop_stack(c))
      BY <1>3, PopSane
    <2> QED  BY <1>1, <1>5, <2>1 DEF pla, Aside, Sane, CpuType
  <1>7. Holds(cpu', s)
    BY <1>5, <1>6, AsideHolds
  <1> QED  BY <1>2, <1>6, <1>7 DEF StackOK, f, s

(* Of a status pulled, all but the two bits that exist only on the stack   *)
(* is taken.                                                               *)
LEMMA PulledStatus ==
  ASSUME NEW c, Sane(c), NEW status, SaneStatus(status), NEW broken \in BOOLEAN,
         Popped(c) = StatusByte(status, broken)
  PROVE  plp(c).status = status /\ Aside(pop_stack(c), plp(c)) /\ Sane(pop_stack(c))
PROOF
  <1>1. Sane(pop_stack(c)) /\ pop_stack(c).status = c.status /\ SaneStatus(c.status)
    BY PopSane DEF Sane
  <1>2. (Decoded(Popped(c)) \ {"break", "unused"})
              \cup (c.status \cap {"break", "unused"}) = status
    <2>1. (Decoded(StatusByte(status, broken)) \ {"break", "unused"})
              \cup (c.status \cap {"break", "unused"}) = status
      BY <1>1, StatusBack
    <2> QED  BY <2>1
  <1>3. plp(c).status = (Decoded(Popped(c)) \ {"break", "unused"})
                           \cup (c.status \cap {"break", "unused"})
    BY <1>1 DEF plp, Sane, CpuType
  <1>4. Aside(pop_stack(c), plp(c))
    BY <1>1 DEF plp, Aside, Sane, CpuType
  <1> QED  BY <1>1, <1>2, <1>3, <1>4

(* PLP brings back the status of its PHP.                                  *)
LEMMA PullStatusOK ==
  ASSUME ConsoleInv, StackInv, PullStatus
  PROVE  StackOK' /\ cpu'.status = Head(frames).status
PROOF
  <1> DEFINE f == Head(frames)
             c == Fetched(1)
             s == Top(frames')
  <1>1. cpu' = plp(c)
    BY DEF PullStatus, Executes
  <1>2. /\ FramesOK(frames') /\ FrameOK(f, s) /\ f.kind = "status" /\ s \in Seq(Byte)
        /\ Holds(cpu, f.bytes)
    BY PulledFrame DEF PullStatus
  <1>3. Sane(c) /\ Holds(c, f.bytes)
    BY <1>2, StackFacts, FetchedHolds, FetchedKeeps
  <1> HIDE DEF f, c, s
  <1>4. f.bytes = <<StatusByte(f.status, TRUE)>> \o s /\ SaneStatus(f.status)
    BY <1>2 DEF FrameOK
  <1>5. StatusByte(f.status, TRUE) \in Byte
    BY <1>4, StatusBack
  <1>6. Popped(c) = StatusByte(f.status, TRUE) /\ Holds(pop_stack(c), s)
    <2> DEFINE byte == StatusByte(f.status, TRUE)
    <2>1. byte \in Byte /\ Holds(c, <<byte>> \o s)
      BY <1>3, <1>4, <1>5
    <2> HIDE DEF byte
    <2>2. Popped(c) = byte /\ Holds(pop_stack(c), s)
      BY <1>2, <1>3, <2>1, PopHolds
    <2> QED  BY <2>2 DEF byte
  <1>7. cpu'.status = f.status /\ Aside(pop_stack(c), cpu') /\ Sane(pop_stack(c))
    BY <1>1, <1>3, <1>4, <1>6, PulledStatus
  <1>8. Holds(cpu', s)
    BY <1>6, <1>7, AsideHolds
  <1> QED  BY <1>2, <1>7, <1>8 DEF StackOK, f, s

(* RTS goes back behind its JSR.                                           *)
LEMMA ReturnOK ==
  ASSUME ConsoleInv, StackInv, Return
  PROVE  StackOK' /\ cpu'.pc = Head(frames).back
PROOF
  <1> DEFINE f == Head(frames)
             c == Fetched(1)
             s == Top(frames')
             last == Later(f.back, ADDRESSES - 1)
  <1>1. cpu' = [pop_word(c) EXCEPT !.pc = Later(PoppedWord(c), 1)]
    BY DEF Return, Executes, rts
  <1>2. /\ FramesOK(frames') /\ FrameOK(f, s) /\ f.kind = "call" /\ s \in Seq(Byte)
        /\ Holds(cpu, f.bytes)
    BY PulledFrame DEF Return
  <1>3. Sane(c) /\ Holds(c, f.bytes)
    BY <1>2, StackFacts, FetchedHolds, FetchedKeeps
  <1> HIDE DEF f, c, s
  <1>4. f.bytes = <<Low(last), High(last)>> \o s /\ f.back \in Address
    BY <1>2 DEF FrameOK
  <1>5. last \in Address /\ Later(last, 1) = f.back
    BY <1>4, LaterIsAddress, LaterAgain, AddressesIsNat
  <1> HIDE DEF last
  <1>6. PoppedWord(c) = last /\ Holds(pop_word(c), s)
    BY <1>2, <1>3, <1>4, <1>5, PopWordHolds
  <1>7. Sane(pop_stack(c)) /\ Sane(pop_word(c))
    BY <1>3, PopSane
  <1>8. cpu'.pc = f.back /\ Aside(pop_word(c), cpu')
    BY <1>1, <1>5, <1>6, <1>7 DEF Aside, Sane, CpuType
  <1>9. Holds(cpu', s)
    BY <1>6, <1>7, <1>8, AsideHolds
  <1> QED  BY <1>2, <1>8, <1>9 DEF StackOK, f, s

(* RTI brings back the status and goes back to where the interrupt came.   *)
LEMMA ReturnFromInterruptOK ==
  ASSUME ConsoleInv, StackInv, ReturnFromInterrupt
  PROVE  StackOK' /\ cpu'.pc = Head(frames).back /\ cpu'.status = Head(frames).status
PROOF
  <1> DEFINE f == Head(frames)
             c == Fetched(1)
             s == Top(frames')
             d == plp(c)
  <1>1. cpu' = [pop_word(d) EXCEPT !.pc = PoppedWord(d)]
    BY DEF ReturnFromInterrupt, Executes, rti
  <1>2. /\ FramesOK(frames') /\ FrameOK(f, s) /\ f.kind = "interrupt" /\ s \in Seq(Byte)
        /\ Holds(cpu, f.bytes)
    BY PulledFrame DEF ReturnFromInterrupt
  <1>3. Sane(c) /\ Holds(c, f.bytes)
    BY <1>2, StackFacts, FetchedHolds, FetchedKeeps
  <1> HIDE DEF f, c, s
  <1>4. /\ SaneStatus(f.status) /\ f.back \in Address
        /\ \E broken \in BOOLEAN :
             f.bytes = <<StatusByte(f.status, broken), Low(f.back), High(f.back)>> \o s
    BY <1>2 DEF FrameOK
  <1>5. PICK broken \in BOOLEAN :
          f.bytes = <<StatusByte(f.status, broken), Low(f.back), High(f.back)>> \o s
    BY <1>4
  <1> DEFINE byte == StatusByte(f.status, broken)
             lo   == Low(f.back)
             hi   == High(f.back)
  <1>6. byte \in Byte /\ lo \in Byte /\ hi \in Byte
    BY <1>4, StatusBack, AddressHasBytes
  <1>7. Popped(c) = byte /\ Holds(pop_stack(c), <<lo, hi>> \o s)
    <2>1. <<byte, lo, hi>> \o s = <<byte>> \o (<<lo, hi>> \o s) /\ <<lo, hi>> \o s \in Seq(Byte)
      <3> HIDE DEF byte, lo, hi
      <3>1. <<byte, lo, hi>> \o s = <<byte>> \o (<<lo>> \o (<<hi>> \o s))
        BY <1>2, <1>6, ThreeInFront
      <3>2. <<lo, hi>> \o s = <<lo>> \o (<<hi>> \o s) /\ <<lo, hi>> \o s \in Seq(Byte)
        BY <1>2, <1>6, TwoInFront, Longer
      <3> QED  BY <3>1, <3>2, Zenon
    <2>2. Holds(c, <<byte>> \o (<<lo, hi>> \o s))
      BY <1>3, <1>5, <2>1
    <2> HIDE DEF byte, lo, hi
    <2> QED  BY <1>3, <1>6, <2>1, <2>2, PopHolds
  <1>8. d.status = f.status /\ Aside(pop_stack(c), d) /\ Sane(pop_stack(c)) /\ Sane(d)
    BY <1>3, <1>4, <1>7, PulledStatus, PullSane
  <1> HIDE DEF d
  <1>9. Holds(d, <<lo, hi>> \o s)
    BY <1>7, <1>8, AsideHolds
  <1>10. PoppedWord(d) = f.back /\ Holds(pop_word(d), s)
    BY <1>2, <1>4, <1>8, <1>9, PopWordHolds
  <1>11. Sane(pop_word(d)) /\ pop_word(d).status = d.status
    BY <1>8, PopSane
  <1>12. cpu'.pc = f.back /\ cpu'.status = f.status /\ Aside(pop_word(d), cpu')
    BY <1>1, <1>8, <1>10, <1>11 DEF Aside, Sane, CpuType
  <1>13. Holds(cpu', s)
    BY <1>10, <1>11, <1>12, AsideHolds
  <1> QED  BY <1>2, <1>12, <1>13 DEF StackOK, f, s

-----------------------------------------------------------------------------
(* Every step keeps the stack. *)
LEMMA StackKept ==
  ASSUME ConsoleInv, StackInv, StackOK', UNCHANGED saved
  PROVE  StackInv'
PROOF
  BY DEF StackInv, StackOK

(* The events that leave the stack alone.                                  *)
LEMMA EventsLeaveStack ==
  ASSUME ConsoleInv, StackInv,
         RequestInterrupt \/ Reset \/ IgnoreIrq \/ UpdateController
  PROVE  StackOK' /\ UNCHANGED saved
PROOF
  <1>1. UNCHANGED <<frames, saved>>
    BY DEF RequestInterrupt, Reset, IgnoreIrq, UpdateController, Event, history
  <1>2. Sane(cpu)
    BY StackFacts
  <1>3. Aside(cpu, cpu')
    BY <1>2 DEF RequestInterrupt, Reset, IgnoreIrq, UpdateController, interrupt_request,
      Aside, Sane, CpuType
  <1>4. Holds(cpu', Top(frames))
    BY <1>2, <1>3, StackFacts, AsideHolds
  <1> QED  BY <1>1, <1>4, StackFacts DEF StackOK

(* All instructions.                                                       *)
LEMMA InstructionsKeepStack ==
  ASSUME ConsoleInv, StackInv, Instruction
  PROVE  StackOK' /\ UNCHANGED saved
PROOF
  <1>1. UNCHANGED saved
    BY InstructionKeepsCpu DEF ConsoleInv, CpuFits, PadInv
  <1>2. CASE Immediate \/ ReadCell \/ OnRegister \/ ModifyAccumulator \/ ModifyCell
             \/ Store \/ Jump \/ StrobePads \/ ReadPad \/ WritePrg
    <2>1. Sane(cpu) /\ program \in Programs
      BY DEF ConsoleInv, CpuFits
    <2>2. Aside(cpu, cpu') /\ UNCHANGED frames
      BY <1>2, <2>1, OthersLeaveStack
    <2>3. Holds(cpu', Top(frames))
      BY <2>1, <2>2, StackFacts, AsideHolds
    <2> QED  BY <1>1, <2>2, <2>3, StackFacts DEF StackOK
  <1>3. CASE MoveStack
    <2>1. frames = <<>> /\ frames' = <<>>
      BY <1>3 DEF MoveStack, Inner
    <2> QED  BY <1>1, <2>1, EmptyStack DEF StackOK
  <1>4. CASE PushAccumulator \/ PushStatus \/ Call \/ Break
    BY <1>1, <1>4, PushAccumulatorOK, PushStatusOK, CallOK, BreakOK
  <1>5. CASE PullAccumulator \/ PullStatus \/ Return \/ ReturnFromInterrupt
    BY <1>1, <1>5, PullAccumulatorOK, PullStatusOK, ReturnOK, ReturnFromInterruptOK
  <1> QED  BY <1>2, <1>3, <1>4, <1>5 DEF Instruction

(* With the events, an interrupt, a reset that gives up the stack, and     *)
(* states saved and loaded.                                                *)
LEMMA StackInvNext == ConsoleInv /\ StackInv /\ [Next]_vars => StackInv'
PROOF
  <1> SUFFICES ASSUME ConsoleInv, StackInv, [Next]_vars PROVE StackInv'
    OBVIOUS
  <1>1. CASE Instruction
    BY <1>1, InstructionsKeepStack, StackKept
  <1>2. CASE RequestInterrupt \/ Reset \/ IgnoreIrq \/ UpdateController
    BY <1>2, EventsLeaveStack, StackKept
  <1>3. CASE TakeInterrupt
    <2>1. UNCHANGED saved
      BY <1>3 DEF TakeInterrupt
    <2> QED  BY <1>3, <2>1, TakeInterruptOK, StackKept
  <1>4. CASE TakeReset
    <2>1. frames' = <<>> /\ UNCHANGED saved
      BY <1>4 DEF TakeReset
    <2>2. StackOK'
      BY <2>1, EmptyStack DEF StackOK
    <2> QED  BY <2>1, <2>2, StackKept
  <1>5. CASE SaveState
    <2>1. /\ UNCHANGED <<cpu, frames>> /\ saved'[1].frames = frames
          /\ saved'[1].blob.cpu = cpu
      BY <1>5 DEF SaveState, SavedMachine, machine, history
    <2> QED  BY <2>1, StackFacts DEF StackInv
  <1>6. CASE LoadState
    <2>1. /\ saved # <<>> /\ UNCHANGED saved /\ frames' = saved[1].frames
          /\ cpu' = saved[1].blob.cpu
      BY <1>6 DEF LoadState
    <2> QED  BY <2>1 DEF StackInv
  <1>7. CASE UNCHANGED vars
    BY <1>7 DEF vars, machine, history, StackInv
  <1> QED  BY <1>1, <1>2, <1>3, <1>4, <1>5, <1>6, <1>7 DEF Next

(* The invariant is more than the property.                                *)
LEMMA StackIsHeld ==
  ASSUME StackInv
  PROVE  StackHolds
PROOF
  BY OnStackIsTop DEF StackInv, Holds, StackHolds, Place

(* What is on the stack is in memory above the stack pointer, around the   *)
(* end of its page (cpu.rs:103-149), in every state, for every page size   *)
(* and every set of programs that keep within the page: calls, interrupts  *)
(* and loads of a saved state included.                                    *)
THEOREM ConsoleStackHolds == Spec => []StackHolds
PROOF
  <1>1. StackInv => StackHolds
    BY StackIsHeld
  <1> QED  BY <1>1, ConsoleInvInit, ConsoleInvNext, StackInvInit, StackInvNext, PTL DEF Spec

(* RTS, RTI, PLP and PLA (instruction.rs:1105-1129 and 1186-1206) bring    *)
(* back the address, the status and the accumulator that were there at the *)
(* JSR, the interrupt or BRK, the PHP and the PHA, whatever happened in    *)
(* between.                                                                *)
THEOREM ConsoleComesBack == Spec => ComesBack
PROOF
  <1> DEFINE Back ==
        LET top == Head(frames)
        IN  /\ Return => cpu'.pc = top.back
            /\ ReturnFromInterrupt => cpu'.pc = top.back /\ cpu'.status = top.status
            /\ PullStatus => cpu'.status = top.status
            /\ PullAccumulator => cpu'.a = top.a
  <1>1. ConsoleInv /\ StackInv => Back
    BY ReturnOK, ReturnFromInterruptOK, PullStatusOK, PullAccumulatorOK
  <1>2. ConsoleInv /\ StackInv /\ [Next]_vars => [Back]_vars
    BY <1>1
  <1> HIDE DEF Back
  <1>3. Spec => [][Back]_vars
    BY <1>2, ConsoleInvInit, ConsoleInvNext, StackInvInit, StackInvNext, PTL DEF Spec
  <1> QED  BY <1>3 DEF Back, ComesBack

-----------------------------------------------------------------------------
(* Numbers of several bytes.  What the history says of a number in the     *)
(* making, with the status behind its last byte: WideNumbers, and that the *)
(* bytes made so far are digits, so that the overflow of the last byte is  *)
(* that of the number.  It holds of the number at work, of those that      *)
(* interrupts and PHP have put aside with the status, and of the saved.    *)
CarryOf(status) == IF "carry" \in status THEN 1 ELSE 0

Kinds == {"nothing", "sum", "difference", "double", "half"}

ChainType == [kind : Kinds, weight : {1, 256, 65536}, total : Int, signed : Int,
              made : Int]

Upward == {"sum", "difference", "double"}

(* What the carry stands for: a one, or for a difference no borrow.        *)
Due(k, status) == CarryOf(status) - (IF k.kind = "difference" THEN 1 ELSE 0)

Tells(k, status) ==
  /\ k \in ChainType
  /\ k.kind \in Upward => /\ 0 <= k.made /\ k.made < k.weight
                         /\ k.total = k.made + Due(k, status) * k.weight
  /\ k.kind = "half" => k.total = 2 * k.made + CarryOf(status)
  /\ k.kind \in {"sum", "difference"} /\ k.weight > 1
       => ("overflow" \in status <=> ~Fits(k.signed, k.weight))

AllTell(fs) == \A i \in 1 .. Len(fs) : Tells(fs[i].chain, fs[i].status)

WideInv ==
  /\ Tells(chain, cpu.status) /\ AllTell(frames)
  /\ saved # <<>> => /\ Tells(saved[1].chain, saved[1].blob.cpu.status)
                     /\ AllTell(saved[1].frames)

(* Of the status only these two flags count. *)
Alike(s, t) == /\ "carry" \in s <=> "carry" \in t
               /\ "overflow" \in s <=> "overflow" \in t

LEMMA AlikeTells ==
  ASSUME NEW k, NEW s, NEW t, Tells(k, s), Alike(s, t)
  PROVE  Tells(k, t)
PROOF
  <1>1. CarryOf(s) = CarryOf(t) /\ ("overflow" \in s <=> "overflow" \in t)
    BY DEF CarryOf, Alike
  <1> QED  BY <1>1 DEF Tells, Due

LEMMA ZeroNegativeAlike ==
  ASSUME NEW s, NEW n
  PROVE  Alike(s, ZeroNegative(s, n))
PROOF
  <1>1. "carry" # "zero" /\ "carry" # "negative" /\ "overflow" # "zero"
        /\ "overflow" # "negative"
    OBVIOUS
  <1> QED  BY <1>1 DEF Alike, ZeroNegative, set_flag

LEMMA NothingTells ==
  ASSUME NEW status
  PROVE  Tells(Nothing, status)
PROOF
  BY DEF Nothing, NewChain, Tells, ChainType, Kinds, Upward

(* A sum begins with CLC, a difference with SEC.                           *)
LEMMA BeginningTells ==
  ASSUME NEW status
  PROVE  /\ "carry" \notin status => Tells(NewChain("sum"), status)
         /\ "carry" \in status => Tells(NewChain("difference"), status)
PROOF
  <1>1. ASSUME NEW kind \in Kinds
        PROVE
          /\ NewChain(kind) \in ChainType /\ NewChain(kind).kind = kind /\ NewChain(kind).weight = 1
          /\ NewChain(kind).total = 0 /\ NewChain(kind).signed = 0
          /\ NewChain(kind).made = 0
    BY DEF NewChain, ChainType
  <1> "sum" \in Kinds /\ "difference" \in Kinds
    BY DEF Kinds
  <1>2. ASSUME "carry" \notin status PROVE Tells(NewChain("sum"), status)
    <2>1. CarryOf(status) = 0
      BY <1>2 DEF CarryOf
    <2> QED  BY <1>1, <2>1 DEF Tells, Due, Upward
  <1>3. ASSUME "carry" \in status PROVE Tells(NewChain("difference"), status)
    <2>1. CarryOf(status) = 1
      BY <1>3 DEF CarryOf
    <2> QED  BY <1>1, <2>1 DEF Tells, Due, Upward
  <1> QED  BY <1>2, <1>3

(* What Upwards and Downwards make of a number.                            *)
Larger(n, k, value, signed, result) ==
  /\ n \in ChainType /\ n.kind = k.kind /\ n.weight = 256 * k.weight
  /\ n.made = k.made + k.weight * result
  /\ n.total = k.total + k.weight * value
  /\ n.signed = k.total + k.weight * signed

LEMMA UpwardsIs ==
  ASSUME NEW k \in ChainType, k.weight # 65536,
         NEW value \in Int, NEW signed \in Int, NEW result \in Int
  PROVE  Larger(Upwards(k, value, signed, result), k, value, signed, result)
PROOF
  <1> DEFINE n == Upwards(k, value, signed, result)
             w == k.weight
             x == w * value
             y == w * result
             z == k.total + w * signed
             a == [k EXCEPT !.weight = 256 * k.weight]
             b == [a EXCEPT !.made = k.made + y]
             c == [b EXCEPT !.total = k.total + x]
             d == [c EXCEPT !.signed = z]
  <1>1. n = d
    BY DEF Upwards
  <1> HIDE DEF d
  <1>2. w \in {1, 256} /\ x \in Int /\ y \in Int /\ z \in Int
    <2>1. w \in {1, 256} /\ k.total \in Int
      BY DEF ChainType
    <2> HIDE DEF w
    <2> QED  BY <2>1
  <1>3. 256 * w \in {1, 256, 65536}
    <2> HIDE DEF w
    <2> QED  BY <1>2
  <1> HIDE DEF x, y, z
  <1>4. /\ a \in ChainType /\ a.kind = k.kind /\ a.weight = 256 * w
        /\ a.made = k.made /\ a.total = k.total
    BY <1>3 DEF ChainType
  <1> HIDE DEF a
  <1>5. /\ b \in ChainType /\ b.kind = k.kind /\ b.weight = 256 * w
        /\ b.made = k.made + y /\ b.total = k.total
    BY <1>2, <1>4 DEF ChainType
  <1> HIDE DEF b
  <1>6. /\ c \in ChainType /\ c.kind = k.kind /\ c.weight = 256 * w
        /\ c.made = k.made + y /\ c.total = k.total + x
    BY <1>2, <1>5 DEF ChainType
  <1> HIDE DEF c
  <1>7. /\ d \in ChainType /\ d.kind = k.kind /\ d.weight = 256 * w
        /\ d.made = k.made + y /\ d.total = k.total + x /\ d.signed = z
    BY <1>2, <1>6 DEF ChainType, d
  <1> QED  BY <1>1, <1>7 DEF x, y, z, Larger

Deeper(n, k, byte, result) ==
  /\ n \in ChainType /\ n.kind = k.kind
  /\ n.made = 256 * k.made + result
  /\ n.total = 256 * k.total + byte

LEMMA DownwardsIs ==
  ASSUME NEW k \in ChainType, k.weight # 65536, NEW byte \in Int, NEW result \in Int
  PROVE  Deeper(Downwards(k, byte, result), k, byte, result)
PROOF
  <1> DEFINE n == Downwards(k, byte, result)
             a == [k EXCEPT !.weight = 256 * k.weight]
             b == [a EXCEPT !.made = 256 * k.made + result]
             c == [b EXCEPT !.total = 256 * k.total + byte]
  <1>1. n = c
    BY DEF Downwards
  <1> HIDE DEF c
  <1>2. 256 * k.weight \in {1, 256, 65536}
    BY DEF ChainType
  <1>3. a \in ChainType /\ a.kind = k.kind /\ a.made = k.made /\ a.total = k.total
    BY <1>2 DEF ChainType
  <1> HIDE DEF a
  <1>4. /\ b \in ChainType /\ b.kind = k.kind /\ b.made = 256 * k.made + result
        /\ b.total = k.total
    BY <1>3 DEF ChainType
  <1> HIDE DEF b
  <1> QED  BY <1>1, <1>4 DEF ChainType, c, Deeper

(* The arithmetic of the next byte: behind m made so far, with a carry of u *)
(* times their weight w, x more comes to the byte r and a carry of v, and  *)
(* whether s more fits is a matter of the next byte alone.                 *)
NextFits(w, m, u, v, r, x, s) ==
  /\ 0 <= m + w * r /\ m + w * r < 256 * w
  /\ (m + u * w) + w * x = (m + w * r) + v * (256 * w)
  /\ Fits((m + u * w) + w * s, 256 * w) <=> -128 <= s + u /\ s + u <= 127

LEMMA FitsIs ==
  ASSUME NEW n \in Int, NEW w \in Int, NEW h \in Int, w \div 2 = h
  PROVE  Fits(n, w) <=> 0 - h <= n /\ n <= h - 1
PROOF
  BY DEF Fits

LEMMA NextByte ==
  ASSUME NEW w, w \in {1, 256}, NEW m, m \in Int, 0 <= m, m < w,
         NEW u, u \in Int, NEW v, v \in Int, NEW r, r \in Int, 0 <= r, r < 256,
         NEW x, x \in Int, NEW s, s \in Int, r + 256 * v = x + u
  PROVE  NextFits(w, m, u, v, r, x, s)
PROOF
  <1> DEFINE z == s + u
  <1>1. CASE w = 1
    <2> DEFINE n == (0 + u * 1) + 1 * s
    <2>1. m = 0 /\ 256 * 1 = 256 /\ 256 \div 2 = 128
      BY <1>1, SMT
    <2>2. 0 <= 0 + 1 * r /\ 0 + 1 * r < 256
      BY SMT
    <2>3. (0 + u * 1) + 1 * x = (0 + 1 * r) + v * 256
      BY SMT
    <2>4. n \in Int /\ n = z
      BY SMT
    <2> HIDE DEF n, z
    <2>5. Fits(n, 256) <=> 0 - 128 <= n /\ n <= 128 - 1
      BY <2>1, <2>4, FitsIs, SMT
    <2>6. Fits(n, 256) <=> -128 <= z /\ z <= 127
      BY <2>4, <2>5, SMT
    <2> QED  BY <1>1, <2>1, <2>2, <2>3, <2>6, SMT DEF n, z, NextFits
  <1>2. CASE w = 256
    <2> DEFINE n == (m + u * 256) + 256 * s
    <2>1. m < 256 /\ 256 * 256 = 65536 /\ 65536 \div 2 = 32768
      BY <1>2, SMT
    <2>2. 0 <= m + 256 * r /\ m + 256 * r < 65536
      BY <2>1, SMT
    <2>3. (m + u * 256) + 256 * x = (m + 256 * r) + v * 65536
      BY <2>1, SMT
    <2>4. z \in Int /\ n \in Int /\ n = m + 256 * z
      BY SMT
    <2> HIDE DEF n, z
    <2>5. Fits(n, 65536) <=> 0 - 32768 <= n /\ n <= 32768 - 1
      BY <2>1, <2>4, FitsIs, SMT
    <2>6. 0 - 32768 <= n <=> -128 <= z
      BY <2>1, <2>4, SMT
    <2>7. n <= 32768 - 1 <=> z <= 127
      BY <2>1, <2>4, SMT
    <2> QED  BY <1>2, <2>1, <2>2, <2>3, <2>5, <2>6, <2>7, SMT DEF n, z, NextFits
  <1> QED  BY <1>1, <1>2, SMT DEF NextFits

(* The next byte of a number from its lowest on: the carry and, for signed *)
(* numbers, the overflow are those of the number made so far.              *)
LEMMA NextTells ==
  ASSUME NEW k, NEW before, Tells(k, before), k.kind \in Upward, k.weight # 65536,
         NEW after, NEW r \in Byte, NEW x \in Int, NEW s \in Int,
         r + 256 * Due(k, after) = x + Due(k, before),
         k.kind # "double" =>
           ("overflow" \in after <=> s + Due(k, before) \notin -128 .. 127)
  PROVE  Tells(Upwards(k, x, s, r), after)
PROOF
  <1> DEFINE n == Upwards(k, x, s, r)
             u == Due(k, before)
             v == Due(k, after)
             w == k.weight
             m == k.made
             t == k.total
  <1>1. /\ k \in ChainType /\ 0 <= m /\ m < w /\ t = m + u * w
        /\ w \in {1, 256} /\ m \in Int /\ t \in Int
    BY DEF Tells, ChainType
  <1>2. u \in Int /\ v \in Int
    BY DEF Due, CarryOf
  <1>3. r \in Int /\ 0 <= r /\ r < 256 /\ r + 256 * v = x + u
    BY DEF Byte
  <1>4. k.kind # "double" => ("overflow" \in after <=> s + u \notin -128 .. 127)
    OBVIOUS
  <1>5. Larger(n, k, x, s, r) /\ Due(n, after) = v
    <2>1. Larger(n, k, x, s, r)
      BY <1>1, <1>3, UpwardsIs, SMT
    <2> QED  BY <2>1 DEF Due, Larger
  <1> HIDE DEF u, v, n, w, m, t
  <1>6. NextFits(w, m, u, v, r, x, s)
    <2>1. w \in {1, 256} /\ m \in Int /\ 0 <= m /\ m < w /\ x \in Int /\ s \in Int
          /\ u \in Int /\ v \in Int /\ r \in Int /\ 0 <= r /\ r < 256
      BY <1>1, <1>2, <1>3
    <2>2. r + 256 * v = x + u
      BY <1>3
    <2> QED  BY <2>1, <2>2, NextByte, SMT
  <1>12. k.kind # "double" =>
          ("overflow" \in after <=> ~(-128 <= s + u /\ s + u <= 127))
    BY <1>2, <1>4, SMT
  <1>7. /\ n \in ChainType /\ n.kind = k.kind /\ n.weight = 256 * w
        /\ n.made = m + w * r /\ n.total = t + w * x /\ n.signed = t + w * s
    BY <1>5, SMT DEF Larger, w, m, t
  <1>8. 0 <= n.made /\ n.made < n.weight
    BY <1>6, <1>7, SMT DEF NextFits
  <1>9. n.total = n.made + v * n.weight
    BY <1>1, <1>6, <1>7, SMT DEF NextFits
  <1>10. k.kind # "double" => ("overflow" \in after <=> ~Fits(n.signed, n.weight))
    BY <1>1, <1>12, <1>6, <1>7, SMT DEF NextFits
  <1>11. k.kind \in Upward
    OBVIOUS
  <1> QED  BY <1>5, <1>7, <1>8, <1>9, <1>10, <1>11 DEF Tells, n, Upward

(* What is made of the carry is 0 or 1.                                    *)
LEMMA CarryIsBit ==
  ASSUME NEW c
  PROVE  CarryIn(c) = CarryOf(c.status) /\ CarryOf(c.status) \in {0, 1}
PROOF
  BY DEF CarryIn, CarryOf

(* A number that goes on has room for one more byte.                       *)
LEMMA ContinuesIs ==
  ASSUME NEW kind, Continues(kind)
  PROVE  chain.kind = kind /\ chain.weight # 65536
PROOF
  <1>1. ~(65536 < 65536)
    BY SMT
  <1> QED  BY <1>1, SMT DEF Continues

(* ADC and SBC.                                                            *)
LEMMA ArithmeticTells ==
  ASSUME Tells(chain, cpu.status), NEW f \in CpuType, f.a = cpu.a,
         f.status = cpu.status, NEW byte \in Byte
  PROVE  /\ Continues("sum") =>
              Tells(Upwards(chain, cpu.a + byte, Signed(cpu.a) + Signed(byte), adc(f, byte).a),
                    adc(f, byte).status)
         /\ Continues("difference") =>
              Tells(Upwards(chain, cpu.a - byte, Signed(cpu.a) - Signed(byte), sbc(f, byte).a),
                    sbc(f, byte).status)
PROOF
  <1>1. /\ cpu.a + byte \in Int /\ Signed(cpu.a) + Signed(byte) \in Int
        /\ cpu.a - byte \in Int /\ Signed(cpu.a) - Signed(byte) \in Int
    <2>1. cpu.a \in Int /\ byte \in Int
      BY DEF CpuType, Byte
    <2>2. Signed(cpu.a) \in Int /\ Signed(byte) \in Int
      BY <2>1 DEF Signed
    <2> QED  BY <2>1, <2>2
  <1>2. CarryIn(f) = CarryOf(cpu.status) /\ CarryOf(cpu.status) \in {0, 1}
    BY CarryIsBit
  <1>3. ASSUME Continues("sum")
        PROVE  Tells(Upwards(chain, cpu.a + byte, Signed(cpu.a) + Signed(byte),
                             adc(f, byte).a), adc(f, byte).status)
    <2> DEFINE d == adc(f, byte)
               x == cpu.a + byte
               s == Signed(cpu.a) + Signed(byte)
    <2>1. /\ d.a \in Byte /\ d.a + 256 * CarryIn(d) = x + CarryIn(f)
          /\ "overflow" \in d.status <=> s + CarryIn(f) \notin -128 .. 127
      BY AdcAdds
    <2>2. CarryIn(d) = CarryOf(d.status) /\ CarryOf(d.status) \in {0, 1}
      BY CarryIsBit
    <2>3. chain.kind = "sum" /\ chain.weight # 65536
      BY <1>3, ContinuesIs
    <2>4. x \in Int /\ s \in Int
      BY <1>1
    <2> HIDE DEF d, x, s
    <2>5. Due(chain, cpu.status) = CarryIn(f) /\ Due(chain, d.status) = CarryIn(d)
      BY <1>2, <2>2, <2>3 DEF Due
    <2>6. /\ d.a + 256 * Due(chain, d.status) = x + Due(chain, cpu.status)
          /\ "overflow" \in d.status <=> s + Due(chain, cpu.status) \notin -128 .. 127
      BY <2>1, <2>5
    <2>7. chain.kind \in Upward
      BY <2>3 DEF Upward
    <2>8. Tells(Upwards(chain, x, s, d.a), d.status)
      BY <2>1, <2>3, <2>4, <2>6, <2>7, NextTells
    <2> QED  BY <2>8 DEF d, x, s
  <1>4. ASSUME Continues("difference")
        PROVE  Tells(Upwards(chain, cpu.a - byte, Signed(cpu.a) - Signed(byte),
                             sbc(f, byte).a), sbc(f, byte).status)
    <2> DEFINE d == sbc(f, byte)
               x == cpu.a - byte
               s == Signed(cpu.a) - Signed(byte)
    <2>1. /\ d.a \in Byte /\ d.a - 256 * (1 - CarryIn(d)) = x - (1 - CarryIn(f))
          /\ "overflow" \in d.status <=> s - (1 - CarryIn(f)) \notin -128 .. 127
      BY SbcSubtracts
    <2>2. CarryIn(d) = CarryOf(d.status) /\ CarryOf(d.status) \in {0, 1}
      BY CarryIsBit
    <2>3. chain.kind = "difference" /\ chain.weight # 65536
      BY <1>4, ContinuesIs
    <2>4. x \in Int /\ s \in Int /\ d.a \in Int
      BY <1>1, <2>1 DEF Byte
    <2> HIDE DEF d, x, s
    <2>5. /\ Due(chain, cpu.status) = CarryIn(f) - 1 /\ Due(chain, d.status) = CarryIn(d) - 1
          /\ CarryIn(f) \in Int /\ CarryIn(d) \in Int
      BY <1>2, <2>2, <2>3 DEF Due
    <2>6. d.a + 256 * Due(chain, d.status) = x + Due(chain, cpu.status)
      BY <2>1, <2>4, <2>5
    <2>7. "overflow" \in d.status <=> s + Due(chain, cpu.status) \notin -128 .. 127
      <3>1. s - (1 - CarryIn(f)) = s + Due(chain, cpu.status)
        BY <2>4, <2>5
      <3> QED  BY <2>1, <3>1
    <2>8. chain.kind \in Upward
      BY <2>3 DEF Upward
    <2>9. Tells(Upwards(chain, x, s, d.a), d.status)
      BY <2>1, <2>3, <2>4, <2>6, <2>7, <2>8, NextTells
    <2> QED  BY <2>9 DEF d, x, s
  <1> QED  BY <1>3, <1>4

(* The instructions that read a byte.                                      *)
LEMMA ReadingTells ==
  ASSUME Tells(chain, cpu.status), NEW f \in CpuType, f.a = cpu.a,
         f.status = cpu.status, NEW byte \in Byte, NEW name \in Reading
  PROVE  Tells(ChainAfterReading(name, byte, OnByte(name, f, byte).a),
               OnByte(name, f, byte).status)
PROOF
  <1>1. CASE name = "ADC"
    BY <1>1, ArithmeticTells, NothingTells DEF ChainAfterReading, OnByte
  <1>2. CASE name = "SBC"
    BY <1>2, ArithmeticTells, NothingTells DEF ChainAfterReading, OnByte
  <1>3. CASE name \in {"BIT", "CMP", "CPX", "CPY"}
    BY <1>3, NothingTells DEF ChainAfterReading
  <1>4. CASE name \in {"AND", "ORA", "EOR", "LDA", "LDX", "LDY"}
    <2>1. ChainAfterReading(name, byte, OnByte(name, f, byte).a) = chain
      BY <1>4 DEF ChainAfterReading
    <2>2. \E n : OnByte(name, f, byte).status = ZeroNegative(cpu.status, n)
      <3>1. \A n : /\ lda(f, n).status = ZeroNegative(cpu.status, n)
                   /\ ldx(f, n).status = ZeroNegative(cpu.status, n)
                   /\ ldy(f, n).status = ZeroNegative(cpu.status, n)
        BY DEF lda, ldx, ldy, CpuType
      <3> QED  BY <1>4, <3>1 DEF OnByte, and, ora, eor
    <2> QED  BY <2>1, <2>2, ZeroNegativeAlike, AlikeTells
  <1> QED  BY <1>1, <1>2, <1>3, <1>4 DEF Reading

(* The instructions on registers and flags.                                *)
LEMMA RegistersTell ==
  ASSUME Tells(chain, cpu.status), NEW f \in CpuType, f.status = cpu.status,
         NEW name \in Implied
  PROVE  Tells(ChainAfterFlag(name), OnRegisters(name, f).status)
PROOF
  <1>1. CASE name = "CLC"
    BY <1>1, BeginningTells DEF ChainAfterFlag, OnRegisters, clc, CpuType
  <1>2. CASE name = "SEC"
    BY <1>2, BeginningTells DEF ChainAfterFlag, OnRegisters, sec, CpuType
  <1>3. CASE name = "CLV"
    BY <1>3, NothingTells DEF ChainAfterFlag
  <1>4. CASE name \in {"TAX", "TAY", "TXA", "TYA", "TSX", "INX", "INY", "DEX", "DEY"}
    <2>1. \A n : /\ lda(f, n).status = ZeroNegative(cpu.status, n)
                 /\ ldx(f, n).status = ZeroNegative(cpu.status, n)
                 /\ ldy(f, n).status = ZeroNegative(cpu.status, n)
      BY DEF lda, ldx, ldy, CpuType
    <2>2. \E n : OnRegisters(name, f).status = ZeroNegative(cpu.status, n)
      BY <1>4, <2>1 DEF OnRegisters, tax, tay, txa, tya, tsx, inx, iny, dex, dey
    <2>3. ChainAfterFlag(name) = chain
      BY <1>4 DEF ChainAfterFlag
    <2> QED  BY <2>2, <2>3, ZeroNegativeAlike, AlikeTells
  <1>5. CASE name \in {"CLI", "SEI", "CLD", "SED", "NOP"}
    <2>1. Alike(cpu.status, OnRegisters(name, f).status)
      BY <1>5 DEF OnRegisters, cli, sei, cld, sed, nop, Alike, CpuType
    <2>2. ChainAfterFlag(name) = chain
      BY <1>5 DEF ChainAfterFlag
    <2> QED  BY <2>1, <2>2, AlikeTells
  <1> QED  BY <1>1, <1>2, <1>3, <1>4, <1>5 DEF Implied

(* The bit shifted out becomes the carry.                                  *)
LEMMA ShiftedOut ==
  ASSUME NEW f \in CpuType, NEW value, NEW out \in BOOLEAN
  PROVE  CarryOf(Shifted(f, value, out).status) = IF out THEN 1 ELSE 0
PROOF
  <1>1. Shifted(f, value, out).status
          = set_flag(ZeroNegative(f.status, value), "carry", out)
    BY DEF Shifted, CpuType
  <1>2. "carry" \in set_flag(ZeroNegative(f.status, value), "carry", out) <=> out
    BY DEF set_flag
  <1> QED  BY <1>1, <1>2 DEF CarryOf

(* The two ends of a byte.                                                 *)
LEMMA ByteEnds ==
  ASSUME NEW byte \in Byte
  PROVE  /\ 2 * byte = ((2 * byte) % 256) + 256 * (IF Has(byte, 128) THEN 1 ELSE 0)
         /\ byte = 2 * (byte \div 2) + (IF Has(byte, 1) THEN 1 ELSE 0)
         /\ Has(byte, 128) \in BOOLEAN /\ Has(byte, 1) \in BOOLEAN
PROOF
  <1>1. byte \in Int /\ 0 <= byte /\ byte < 256
    BY DEF Byte
  <1>2. CASE byte < 128
    <2>1. byte \div 128 = 0 /\ (2 * byte) % 256 = 2 * byte /\ 0 % 2 = 0
      BY <1>1, <1>2
    <2>2. byte \div 1 = byte /\ byte = 2 * (byte \div 2) + (byte % 2) /\ byte % 2 \in {0, 1}
      BY <1>1
    <2> QED  BY <1>1, <2>1, <2>2 DEF Has
  <1>3. CASE ~(byte < 128)
    <2>1. byte \div 128 = 1 /\ (2 * byte) % 256 = 2 * byte - 256 /\ 1 % 2 = 1
      BY <1>1, <1>3
    <2>2. byte \div 1 = byte /\ byte = 2 * (byte \div 2) + (byte % 2) /\ byte % 2 \in {0, 1}
      BY <1>1
    <2> QED  BY <1>1, <2>1, <2>2 DEF Has
  <1> QED  BY <1>2, <1>3

(* Where shifting begins. *)
LEMMA ShiftingBegins ==
  /\ Tells(NewChain("double"), {}) /\ Due(NewChain("double"), {}) = 0
  /\ NewChain("double").kind = "double" /\ NewChain("double").weight = 1
  /\ NewChain("half") \in ChainType /\ NewChain("half").kind = "half"
  /\ NewChain("half").weight = 1 /\ NewChain("half").made = 0 /\ NewChain("half").total = 0
PROOF
  <1>1. "carry" \notin {} /\ CarryOf({}) = 0
    BY DEF CarryOf
  <1>2. ASSUME NEW kind \in {"double", "half"}
        PROVE  /\ NewChain(kind) \in ChainType /\ NewChain(kind).kind = kind
               /\ NewChain(kind).weight = 1 /\ NewChain(kind).total = 0
               /\ NewChain(kind).made = 0
    BY DEF NewChain, ChainType, Kinds
  <1>3. Due(NewChain("double"), {}) = 0
    BY <1>1, <1>2 DEF Due
  <1> QED  BY <1>2, <1>3 DEF Tells, Upward

(* ASL and ROL. *)
LEMMA DoublingTells ==
  ASSUME NEW k, NEW before, Tells(k, before), k.kind = "double", k.weight # 65536,
         NEW byte \in Byte, NEW r \in Byte, r = ((2 * byte) % 256) + CarryOf(before),
         NEW after, CarryOf(after) = IF Has(byte, 128) THEN 1 ELSE 0
  PROVE  Tells(Upwards(k, 2 * byte, 0, r), after)
PROOF
  <1> DEFINE x == 2 * byte
             y == x % 256
  <1>1. x = y + 256 * CarryOf(after) /\ x \in Int /\ y \in Int
    BY ByteEnds DEF Byte
  <1>2. CarryOf(before) \in Int /\ CarryOf(after) \in Int
    BY DEF CarryOf
  <1>3. Due(k, before) = CarryOf(before) /\ Due(k, after) = CarryOf(after)
    BY <1>2 DEF Due
  <1>4. r = y + CarryOf(before)
    OBVIOUS
  <1> HIDE DEF x, y
  <1>5. r + 256 * Due(k, after) = x + Due(k, before)
    BY <1>1, <1>2, <1>3, <1>4
  <1>6. k.kind \in Upward /\ 0 \in Int
    BY DEF Upward
  <1>7. Tells(Upwards(k, x, 0, r), after)
    BY <1>1, <1>5, <1>6, NextTells
  <1> QED  BY <1>7 DEF x

(* LSR and ROR.                                                            *)
LEMMA HalvingTells ==
  ASSUME NEW k \in ChainType, k.kind = "half", k.weight # 65536, NEW u \in {0, 1},
         k.total = 2 * k.made + u, NEW byte \in Byte,
         NEW r \in Byte, r = (byte \div 2) + 128 * u,
         NEW after, CarryOf(after) = IF Has(byte, 1) THEN 1 ELSE 0
  PROVE  Tells(Downwards(k, byte, r), after)
PROOF
  <1> DEFINE n == Downwards(k, byte, r)
             h == byte \div 2
             v == CarryOf(after)
             m == k.made
             t == k.total
  <1>1. byte = 2 * h + v /\ byte \in Int /\ h \in Int /\ r \in Int
    BY ByteEnds DEF Byte
  <1>2. v \in Int /\ m \in Int /\ t = 2 * m + u
    BY DEF CarryOf, ChainType
  <1>3. Deeper(n, k, byte, r)
    BY <1>1, DownwardsIs
  <1>4. n \in ChainType /\ n.kind = "half" /\ n.made = 256 * m + r /\ n.total = 256 * t + byte
    BY <1>3 DEF Deeper
  <1>5. r = h + 128 * u
    OBVIOUS
  <1> HIDE DEF n, h, v, m, t
  <1>6. n.total = 2 * n.made + v
    BY <1>1, <1>2, <1>4, <1>5
  <1> QED  BY <1>4, <1>6 DEF Tells, n, v, Upward

(* The instructions that make a byte of a byte. *)
LEMMA ModifyingTells ==
  ASSUME Tells(chain, cpu.status), NEW f \in CpuType, f.status = cpu.status,
         NEW byte \in Byte, NEW name \in Modifying
  PROVE  Tells(ChainAfterModifying(name, byte, ModifiedByte(name, cpu, byte)),
               ModifiedFlags(name, f, byte).status)
PROOF
  <1>1. CarryIn(cpu) = CarryOf(cpu.status) /\ CarryOf(cpu.status) \in {0, 1}
    BY CarryIsBit
  <1>2. /\ asl_value(cpu, byte) \in Byte /\ rol_value(cpu, byte) \in Byte
        /\ lsr_value(cpu, byte) \in Byte /\ ror_value(cpu, byte) \in Byte
    BY ModifiedIsByte
  <1>3. /\ CarryOf(asl(f, byte).status) = IF Has(byte, 128) THEN 1 ELSE 0
        /\ CarryOf(rol(f, byte).status) = IF Has(byte, 128) THEN 1 ELSE 0
        /\ CarryOf(lsr(f, byte).status) = IF Has(byte, 1) THEN 1 ELSE 0
        /\ CarryOf(ror(f, byte).status) = IF Has(byte, 1) THEN 1 ELSE 0
    BY ByteEnds, ShiftedOut DEF asl, rol, lsr, ror
  <1>4. CASE name = "ASL"
    <2> DEFINE k == NewChain("double")
    <2>1. Tells(k, {}) /\ k.kind = "double" /\ k.weight # 65536
      BY ShiftingBegins
    <2>2. CarryOf({}) = 0
      BY DEF CarryOf
    <2>3. asl_value(cpu, byte) = ((2 * byte) % 256) + CarryOf({})
      BY <2>2 DEF asl_value, Byte
    <2> HIDE DEF k
    <2>4. Tells(Upwards(k, 2 * byte, 0, asl_value(cpu, byte)), asl(f, byte).status)
      BY <1>2, <1>3, <2>1, <2>3, DoublingTells
    <2> QED  BY <1>4, <2>4 DEF k, ChainAfterModifying, ModifiedByte, ModifiedFlags
  <1>5. CASE name = "ROL"
    <2>1. ASSUME Continues("double")
          PROVE  Tells(Upwards(chain, 2 * byte, 0, rol_value(cpu, byte)), rol(f, byte).status)
      <3>1. chain.kind = "double" /\ chain.weight # 65536
        BY <2>1, ContinuesIs
      <3>2. rol_value(cpu, byte) = ((2 * byte) % 256) + CarryOf(cpu.status)
        BY <1>1 DEF rol_value
      <3> QED  BY <1>2, <1>3, <3>1, <3>2, DoublingTells
    <2> QED  BY <1>5, <2>1, NothingTells DEF ChainAfterModifying, ModifiedByte, ModifiedFlags
  <1>6. CASE name = "LSR"
    <2> DEFINE k == NewChain("half")
    <2>1. k \in ChainType /\ k.kind = "half" /\ k.weight # 65536 /\ k.total = 2 * k.made + 0
      BY ShiftingBegins
    <2>2. lsr_value(cpu, byte) = (byte \div 2) + 128 * 0
      BY DEF lsr_value, Byte
    <2> HIDE DEF k
    <2>3. Tells(Downwards(k, byte, lsr_value(cpu, byte)), lsr(f, byte).status)
      BY <1>2, <1>3, <2>1, <2>2, HalvingTells
    <2> QED  BY <1>6, <2>3 DEF k, ChainAfterModifying, ModifiedByte, ModifiedFlags
  <1>7. CASE name = "ROR"
    <2>1. ASSUME Continues("half")
          PROVE  Tells(Downwards(chain, byte, ror_value(cpu, byte)), ror(f, byte).status)
      <3>1. chain.kind = "half" /\ chain.weight # 65536
        BY <2>1, ContinuesIs
      <3>2. chain \in ChainType /\ chain.total = 2 * chain.made + CarryOf(cpu.status)
        BY <3>1 DEF Tells
      <3>3. ror_value(cpu, byte) = (byte \div 2) + 128 * CarryOf(cpu.status)
        BY <1>1 DEF ror_value
      <3> QED  BY <1>1, <1>2, <1>3, <3>1, <3>2, <3>3, HalvingTells
    <2> QED  BY <1>7, <2>1, NothingTells DEF ChainAfterModifying, ModifiedByte, ModifiedFlags
  <1>8. CASE name \in {"INC", "DEC"}
    <2>1. \E n : ModifiedFlags(name, f, byte).status = ZeroNegative(cpu.status, n)
      BY <1>8 DEF ModifiedFlags, inc, dec, CpuType
    <2>2. ChainAfterModifying(name, byte, ModifiedByte(name, cpu, byte)) = chain
      BY <1>8 DEF ChainAfterModifying
    <2> QED  BY <2>1, <2>2, ZeroNegativeAlike, AlikeTells
  <1> QED  BY <1>4, <1>5, <1>6, <1>7, <1>8 DEF Modifying

-----------------------------------------------------------------------------
(* Steps.  What an action has to bring about for the number at work. *)
ChainTells == Tells(chain, cpu.status)

(* An instruction that has nothing to do with the number.                  *)
LEMMA AsideTells ==
  ASSUME ChainTells, UNCHANGED chain, Alike(cpu.status, cpu'.status)
  PROVE  ChainTells'
PROOF
  BY AlikeTells DEF ChainTells

(* The instructions that compute.                                          *)
LEMMA ComputingTells ==
  ASSUME ConsoleInv, ChainTells,
         Immediate \/ ReadCell \/ OnRegister \/ ModifyAccumulator \/ ModifyCell
  PROVE  ChainTells' /\ UNCHANGED frames
PROOF
  <1>1. Sane(cpu) /\ program \in Programs
    BY DEF ConsoleInv, CpuFits
  <1>2. \A n \in {1, 2, 3} : /\ Sane(Fetched(n)) /\ Fetched(n) \in CpuType
                             /\ Fetched(n).a = cpu.a /\ Fetched(n).status = cpu.status
    BY <1>1, FetchedKeeps
  <1>3. /\ Operands \subseteq Byte /\ cpu.a \in Byte /\ \A cell \in Cells : cpu.ram[cell] \in Byte
    BY <1>1, ConsoleAssumption DEF Sane, CpuType, Operands
  <1>4. UNCHANGED frames
    BY DEF Immediate, ReadCell, ReadByte, OnRegister, ModifyAccumulator, ModifyCell, Inner
  <1>5. ASSUME NEW name \in Reading, NEW n \in {2, 3}, NEW byte \in Byte,
               ReadByte(name, n, byte)
        PROVE  ChainTells'
    <2>1. /\ cpu' = OnByte(name, Fetched(n), byte)
          /\ chain' = ChainAfterReading(name, byte, OnByte(name, Fetched(n), byte).a)
      BY <1>5 DEF ReadByte, Executes
    <2>2. Tells(ChainAfterReading(name, byte, OnByte(name, Fetched(n), byte).a),
                OnByte(name, Fetched(n), byte).status)
      BY <1>2, ReadingTells DEF ChainTells
    <2> QED  BY <2>1, <2>2 DEF ChainTells
  <1>6. CASE Immediate
    BY <1>3, <1>4, <1>5, <1>6 DEF Immediate
  <1>7. CASE ReadCell
    BY <1>3, <1>4, <1>5, <1>7 DEF ReadCell
  <1>8. CASE OnRegister
    <2>1. PICK name \in Implied :
            cpu' = OnRegisters(name, Fetched(1)) /\ chain' = ChainAfterFlag(name)
      BY <1>8 DEF OnRegister, Executes
    <2>2. Tells(ChainAfterFlag(name), OnRegisters(name, Fetched(1)).status)
      BY <1>2, RegistersTell DEF ChainTells
    <2> QED  BY <1>4, <2>1, <2>2 DEF ChainTells
  <1>9. CASE ModifyAccumulator
    <2>1. PICK name \in Modifying :
            /\ cpu' = [ModifiedFlags(name, Fetched(1), cpu.a)
                         EXCEPT !.a = ModifiedByte(name, cpu, cpu.a)]
            /\ chain' = ChainAfterModifying(name, cpu.a, ModifiedByte(name, cpu, cpu.a))
      BY <1>9 DEF ModifyAccumulator, Executes
    <2> DEFINE d == ModifiedFlags(name, Fetched(1), cpu.a)
    <2>2. Tells(chain', d.status)
      BY <1>2, <1>3, <2>1, ModifyingTells DEF ChainTells
    <2>3. d \in CpuType
      BY <1>2, ModifySane DEF Sane, ModifiedFlags, Modifying
    <2>4. cpu' = [d EXCEPT !.a = ModifiedByte(name, cpu, cpu.a)]
      BY <2>1
    <2> HIDE DEF d
    <2>5. cpu'.status = d.status
      BY <2>3, <2>4 DEF CpuType
    <2> QED  BY <1>4, <2>2, <2>5 DEF ChainTells
  <1>10. CASE ModifyCell
    <2>1. PICK name \in Modifying, cell \in Cells :
            /\ cpu' = [ModifiedFlags(name, Fetched(3), cpu.ram[cell]) EXCEPT
                 !.ram = [@ EXCEPT ![cell] = ModifiedByte(name, cpu, cpu.ram[cell])]]
            /\ chain' = ChainAfterModifying(name, cpu.ram[cell],
                                            ModifiedByte(name, cpu, cpu.ram[cell]))
      BY <1>10 DEF ModifyCell, Executes
    <2> DEFINE d == ModifiedFlags(name, Fetched(3), cpu.ram[cell])
               ram == [d.ram EXCEPT ![cell] = ModifiedByte(name, cpu, cpu.ram[cell])]
    <2>2. Tells(chain', d.status)
      BY <1>2, <1>3, <2>1, ModifyingTells DEF ChainTells
    <2>3. d \in CpuType
      BY <1>2, ModifySane DEF Sane, ModifiedFlags, Modifying
    <2>4. cpu' = [d EXCEPT !.ram = ram]
      BY <2>1
    <2> HIDE DEF d, ram
    <2>5. cpu'.status = d.status
      BY <2>3, <2>4 DEF CpuType
    <2> QED  BY <1>4, <2>2, <2>5 DEF ChainTells
  <1> QED  BY <1>6, <1>7, <1>8, <1>9, <1>10

(* The instructions that leave carry and overflow alone.                   *)
LEMMA QuietTells ==
  ASSUME ConsoleInv, ChainTells,
         Store \/ Jump \/ MoveStack \/ StrobePads \/ ReadPad \/ WritePrg
  PROVE  ChainTells' /\ UNCHANGED frames
PROOF
  <1>1. Sane(cpu)
    BY DEF ConsoleInv, CpuFits
  <1>2. \A n \in {1, 2, 3} : Fetched(n) \in CpuType /\ Fetched(n).status = cpu.status
    BY <1>1, FetchedKeeps
  <1>3. UNCHANGED <<chain, frames>>
    BY DEF Store, Jump, MoveStack, StrobePads, ReadPad, WritePrg, Inner, history
  <1>4. CASE Store \/ MoveStack \/ StrobePads \/ WritePrg
    <2>1. cpu'.status = cpu.status
      BY <1>2, <1>4 DEF Store, MoveStack, StrobePads, WritePrg, Executes, sta, stx, sty,
        txs, CpuType
    <2> QED  BY <1>3, <2>1, AsideTells DEF Alike
  <1>5. CASE Jump
    <2>1. \A n \in {2, 3} : \A to :
            /\ jmp(Fetched(n), to).status = cpu.status
            /\ \A taken : branch(Fetched(n), taken, to).status = cpu.status
      BY <1>2 DEF jmp, branch, CpuType
    <2>2. cpu'.status = cpu.status
      <3>1. \A name \in Branching : \A to :
              \E taken : OnBranch(name, Fetched(2), to) = branch(Fetched(2), taken, to)
        BY DEF OnBranch, Branching, bcc, bcs, bne, beq, bpl, bmi, bvc, bvs
      <3> QED  BY <1>5, <2>1, <3>1 DEF Jump, Executes
    <2> QED  BY <1>3, <2>2, AsideTells DEF Alike
  <1>6. CASE ReadPad
    <2>1. \A n : lda(Fetched(3), n).status = ZeroNegative(cpu.status, n)
      BY <1>2 DEF lda, CpuType
    <2>2. \E n : cpu'.status = ZeroNegative(cpu.status, n)
      BY <1>6, <2>1 DEF ReadPad, Executes
    <2> QED  BY <1>3, <2>2, ZeroNegativeAlike, AsideTells
  <1> QED  BY <1>3, <1>4, <1>5, <1>6

-----------------------------------------------------------------------------
(* The numbers put aside.  A frame holds the one at work and its status.   *)
LEMMA PutAside ==
  ASSUME NEW fs, Sequenced(fs), AllTell(fs), NEW f, Tells(f.chain, f.status)
  PROVE  AllTell(<<f>> \o fs)
PROOF
  <1> DEFINE gs == <<f>> \o fs
             S == {fs[i] : i \in DOMAIN fs} \cup {f}
  <1>1. fs \in Seq(S) /\ Len(fs) \in Nat /\ f \in S
    BY LenProperties DEF Sequenced
  <1>2. /\ Len(gs) = Len(fs) + 1 /\ gs[1] = f
        /\ \A i \in 1 .. Len(fs) : gs[i + 1] = fs[i]
    BY <1>1, InFront
  <1> HIDE DEF gs, S
  <1>3. SUFFICES ASSUME NEW i \in 1 .. Len(gs) PROVE Tells(gs[i].chain, gs[i].status)
    BY DEF AllTell, gs
  <1>4. CASE i = 1
    BY <1>2, <1>4
  <1>5. CASE i # 1
    <2>1. PICK j \in 1 .. Len(fs) : i = j + 1
      <3>1. i - 1 \in 1 .. Len(fs) /\ i = (i - 1) + 1
        BY <1>1, <1>2, <1>5
      <3> QED  BY <3>1
    <2> QED  BY <1>2, <2>1 DEF AllTell
  <1> QED  BY <1>4, <1>5

(* It comes back with the frame.                                           *)
LEMMA TakenBack ==
  ASSUME NEW fs, Sequenced(fs), AllTell(fs), fs # <<>>
  PROVE  AllTell(Tail(fs)) /\ Tells(Head(fs).chain, Head(fs).status)
PROOF
  <1> DEFINE gs == Tail(fs)
             S == {fs[i] : i \in DOMAIN fs}
  <1>1. fs \in Seq(S) /\ Len(fs) \in Nat
    BY LenProperties DEF Sequenced
  <1>2. Len(gs) = Len(fs) - 1 /\ \A i \in 1 .. Len(gs) : gs[i] = fs[i + 1]
    BY <1>1, HeadTailProperties
  <1>3. Len(fs) > 0 /\ Head(fs) = fs[1]
    BY <1>1, EmptySeq
  <1> HIDE DEF gs, S
  <1>4. ASSUME NEW i \in 1 .. Len(gs) PROVE Tells(gs[i].chain, gs[i].status)
    <2>1. i + 1 \in 1 .. Len(fs) /\ gs[i] = fs[i + 1]
      BY <1>1, <1>2, <1>3
    <2> QED  BY <2>1 DEF AllTell
  <1>5. Tells(fs[1].chain, fs[1].status)
    BY <1>1, <1>3 DEF AllTell
  <1> QED  BY <1>3, <1>4, <1>5 DEF AllTell, gs

(* What the instructions on the stack have to bring about. *)
BothTell == ChainTells /\ AllTell(frames)

(* PHA, PHP, JSR, BRK and interrupts.                                      *)
LEMMA PushingTells ==
  ASSUME ConsoleInv, StackInv, BothTell,
         PushAccumulator \/ PushStatus \/ Call \/ Break \/ TakeInterrupt
  PROVE  BothTell'
PROOF
  <1>1. Sane(cpu) /\ Sequenced(frames) /\ cpu.a \in Byte
    BY DEF ConsoleInv, CpuFits, StackInv, FramesOK, Sane, CpuType
  <1>2. AllTell(frames')
    <2>1. \E kind, bytes, back : frames' = <<Frame(kind, bytes, back)>> \o frames
      BY DEF PushAccumulator, PushStatus, Call, Break, TakeInterrupt, Pushed, CallFrame,
        InterruptFrame
    <2>2. PICK kind, bytes, back : frames' = <<Frame(kind, bytes, back)>> \o frames
      BY <2>1
    <2> DEFINE f == Frame(kind, bytes, back)
    <2>3. f.chain = chain /\ f.status = cpu.status
      BY DEF Frame
    <2> HIDE DEF f
    <2>4. AllTell(<<f>> \o frames)
      BY <1>1, <2>3, PutAside DEF BothTell, ChainTells
    <2> QED  BY <2>2, <2>4 DEF f
  <1>3. \A n \in {1, 3} : /\ Sane(Fetched(n)) /\ Fetched(n).status = cpu.status
                          /\ Fetched(n).a = cpu.a /\ Fetched(n).pc \in Address
    BY <1>1, FetchedKeeps DEF CpuType
  <1>4. CASE PushAccumulator
    <2>1. cpu'.status = cpu.status
      BY <1>1, <1>3, <1>4, PushSane DEF PushAccumulator, Executes, pha
    <2>2. UNCHANGED chain
      BY <1>4 DEF PushAccumulator
    <2> QED  BY <1>2, <2>1, <2>2, AsideTells DEF BothTell, Alike
  <1>5. CASE PushStatus
    <2>1. cpu' = push_stack(Fetched(1), StatusByte(cpu.status, TRUE))
          /\ StatusByte(cpu.status, TRUE) \in Byte
      BY <1>1, <1>3, <1>5, StatusBack DEF PushStatus, Executes, php, Sane
    <2>2. cpu'.status = cpu.status
      BY <1>3, <2>1, PushSane
    <2>3. UNCHANGED chain
      BY <1>5 DEF PushStatus
    <2> QED  BY <1>2, <2>2, <2>3, AsideTells DEF BothTell, Alike
  <1>6. CASE Call
    <2> DEFINE last == Later(Fetched(3).pc, ADDRESSES - 1)
               d == push_word(Fetched(3), last)
    <2>1. PICK to : cpu' = [d EXCEPT !.pc = to]
      BY <1>6 DEF Call, Executes, jsr
    <2>2. last \in Address
      BY <1>3, LaterIsAddress, AddressesIsNat
    <2>3. Sane(d) /\ d.status = cpu.status
      BY <1>3, <2>2, PushWordSane
    <2> HIDE DEF d
    <2>4. cpu'.status = cpu.status
      BY <2>1, <2>3 DEF Sane, CpuType
    <2>5. UNCHANGED chain
      BY <1>6 DEF Call
    <2> QED  BY <1>2, <2>4, <2>5, AsideTells DEF BothTell, Alike
  <1>7. CASE Break \/ TakeInterrupt
    BY <1>2, <1>7, NothingTells DEF Break, TakeInterrupt, BothTell, ChainTells
  <1> QED  BY <1>4, <1>5, <1>6, <1>7

(* PLA, PLP, RTS and RTI.                                                  *)
LEMMA PullingTells ==
  ASSUME ConsoleInv, StackInv, BothTell,
         PullAccumulator \/ PullStatus \/ Return \/ ReturnFromInterrupt
  PROVE  BothTell'
PROOF
  <1>1. Sane(cpu) /\ Sequenced(frames)
    BY DEF ConsoleInv, CpuFits, StackInv, FramesOK
  <1>2. frames # <<>> /\ frames' = Tail(frames)
    BY DEF PullAccumulator, PullStatus, Return, ReturnFromInterrupt, Pulls
  <1>3. AllTell(frames') /\ Tells(Head(frames).chain, Head(frames).status)
    BY <1>1, <1>2, TakenBack DEF BothTell
  <1>4. Sane(Fetched(1)) /\ Fetched(1).status = cpu.status
    BY <1>1, FetchedKeeps
  <1>5. /\ Sane(pop_stack(Fetched(1))) /\ pop_stack(Fetched(1)).status = cpu.status
        /\ Sane(pop_word(Fetched(1))) /\ pop_word(Fetched(1)).status = cpu.status
    BY <1>4, PopSane
  <1>6. CASE PullAccumulator
    <2>1. cpu' = pla(Fetched(1)) /\ UNCHANGED chain
      BY <1>6 DEF PullAccumulator, Executes
    <2>2. cpu'.status = ZeroNegative(cpu.status, Popped(Fetched(1)))
      BY <1>5, <2>1 DEF pla, Sane, CpuType
    <2>3. Alike(cpu.status, cpu'.status)
      BY <2>2, ZeroNegativeAlike
    <2> QED  BY <1>3, <2>1, <2>3, AsideTells DEF BothTell
  <1>7. CASE PullStatus \/ ReturnFromInterrupt
    <2>1. cpu'.status = Head(frames).status /\ chain' = Head(frames).chain
      BY <1>7, PullStatusOK, ReturnFromInterruptOK DEF PullStatus, ReturnFromInterrupt
    <2> QED  BY <1>3, <2>1 DEF BothTell, ChainTells
  <1>8. CASE Return
    <2>1. cpu' = rts(Fetched(1)) /\ UNCHANGED chain
      BY <1>8 DEF Return, Executes
    <2>2. cpu'.status = cpu.status
      BY <1>5, <2>1 DEF rts, Sane, CpuType
    <2> QED  BY <1>3, <2>1, <2>2, AsideTells DEF BothTell, Alike
  <1> QED  BY <1>6, <1>7, <1>8

(* At the start there is no number. *)
LEMMA WideInvInit == Init => WideInv
PROOF
  <1>1. Len(<<>>) = 0
    OBVIOUS
  <1> QED  BY <1>1, NothingTells DEF Init, WideInv, AllTell

(* Every step keeps the numbers.                                           *)
LEMMA WideInvNext == ConsoleInv /\ StackInv /\ WideInv /\ [Next]_vars => WideInv'
PROOF
  <1> SUFFICES ASSUME ConsoleInv, StackInv, WideInv, [Next]_vars PROVE WideInv'
    OBVIOUS
  <1>1. BothTell
    BY DEF WideInv, BothTell, ChainTells
  <1>2. ASSUME BothTell', UNCHANGED saved PROVE WideInv'
    BY <1>2 DEF WideInv, BothTell, ChainTells
  <1>3. CASE Instruction
    <2>1. UNCHANGED saved
      BY <1>3, InstructionKeepsCpu DEF ConsoleInv, CpuFits, PadInv
    <2>2. CASE Immediate \/ ReadCell \/ OnRegister \/ ModifyAccumulator \/ ModifyCell
      BY <1>1, <1>2, <2>1, <2>2, ComputingTells DEF BothTell
    <2>3. CASE Store \/ Jump \/ MoveStack \/ StrobePads \/ ReadPad \/ WritePrg
      BY <1>1, <1>2, <2>1, <2>3, QuietTells DEF BothTell
    <2>4. CASE PushAccumulator \/ PushStatus \/ Call \/ Break
      BY <1>1, <1>2, <2>1, <2>4, PushingTells
    <2>5. CASE PullAccumulator \/ PullStatus \/ Return \/ ReturnFromInterrupt
      BY <1>1, <1>2, <2>1, <2>5, PullingTells
    <2> QED  BY <1>3, <2>2, <2>3, <2>4, <2>5 DEF Instruction
  <1>4. CASE RequestInterrupt \/ Reset \/ IgnoreIrq \/ UpdateController
    <2>1. UNCHANGED <<frames, chain, saved>>
      BY <1>4 DEF RequestInterrupt, Reset, IgnoreIrq, UpdateController, Event, history
    <2>2. cpu'.status = cpu.status
      BY <1>4 DEF RequestInterrupt, Reset, IgnoreIrq, UpdateController, interrupt_request,
        ConsoleInv, CpuFits, Sane, CpuType
    <2> QED  BY <1>1, <1>2, <2>1, <2>2 DEF BothTell, ChainTells
  <1>5. CASE TakeInterrupt
    <2>1. UNCHANGED saved
      BY <1>5 DEF TakeInterrupt
    <2> QED  BY <1>1, <1>2, <1>5, <2>1, PushingTells
  <1>6. CASE TakeReset
    <2>1. frames' = <<>> /\ chain' = Nothing /\ UNCHANGED saved
      BY <1>6 DEF TakeReset
    <2>2. Len(<<>>) = 0
      OBVIOUS
    <2> QED  BY <1>2, <2>1, <2>2, NothingTells DEF BothTell, ChainTells, AllTell
  <1>7. CASE SaveState
    <2>1. /\ UNCHANGED <<cpu, frames, chain>> /\ saved'[1].frames = frames
          /\ saved'[1].chain = chain /\ saved'[1].blob.cpu = cpu
      BY <1>7 DEF SaveState, SavedMachine, machine, history
    <2> QED  BY <2>1 DEF WideInv
  <1>8. CASE LoadState
    <2>1. /\ saved # <<>> /\ UNCHANGED saved /\ frames' = saved[1].frames
          /\ chain' = saved[1].chain /\ cpu' = saved[1].blob.cpu
      BY <1>8 DEF LoadState
    <2> QED  BY <2>1 DEF WideInv
  <1>9. CASE UNCHANGED vars
    BY <1>9 DEF vars, machine, history, WideInv
  <1> QED  BY <1>3, <1>4, <1>5, <1>6, <1>7, <1>8, <1>9 DEF Next

(* Numbers of several bytes (instruction.rs:559-617, 1039-1060 and         *)
(* 1134-1219): the bytes that CLC and ADC, SEC and SBC, ASL and ROL, LSR   *)
(* and ROR have made so far are, with the carry, the sum, the difference,  *)
(* the double or the half, and the overflow flag tells whether a signed    *)
(* result fits, whatever loads, stores, branches, calls, interrupts and    *)
(* saved states come in between, for every program.                        *)
THEOREM ConsoleWideNumbers == Spec => []WideNumbers
PROOF
  <1>1. WideInv => WideNumbers
    <2> SUFFICES ASSUME WideInv PROVE WideNumbers
      OBVIOUS
    <2>1. Tells(chain, cpu.status)
      BY DEF WideInv
    <2>2. Carry = CarryOf(cpu.status) /\ CarryOf(cpu.status) \in Int
      BY CarryIsBit DEF Carry
    <2>3. chain.kind = "difference" =>
            Due(chain, cpu.status) * chain.weight = 0 - (1 - Carry) * chain.weight
      <3>1. chain.weight \in {1, 256, 65536}
        BY <2>1 DEF Tells, ChainType
      <3>2. chain.kind = "difference" => Due(chain, cpu.status) = Carry - 1
        BY <2>2 DEF Due
      <3> QED  BY <2>2, <3>1, <3>2, SMT
    <2> QED  BY <2>1, <2>2, <2>3, SMT DEF Tells, WideNumbers, Due, Upward, ChainType
  <1> QED  BY <1>1, ConsoleInvInit, ConsoleInvNext, StackInvInit, StackInvNext,
           WideInvInit, WideInvNext, PTL DEF Spec
=============================================================================
