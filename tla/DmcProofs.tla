----------------------------- MODULE DmcProofs -----------------------------
(***************************************************************************)
(* The safety properties of the delta modulation channel, for every rate   *)
(* table, memory and sample.                                               *)
(***************************************************************************)
EXTENDS Dmc, DmcUnitProofs

IInv == TypeOK /\ NeverStarved /\ FlagMeansFinished

LEMMA InitIInv == Init => IInv
<1> SUFFICES ASSUME Init PROVE IInv
  OBVIOUS
<1>1. TypeOK
  BY NewDmcType DEF Init, TypeOK
<1>2. NeverStarved /\ FlagMeansFinished
  BY DEF Init, NeverStarved, FlagMeansFinished, active, NewDmc
<1> QED BY <1>1, <1>2 DEF IInv

(* A register write restarts or stops the sample only through $4015, which *)
(* also takes the flag down.                                               *)
LEMMA WriteKeepsIInv ==
  ASSUME IInv, Write \/ NoWrite
  PROVE  IInv'
<1> USE DEF IInv, TypeOK, CpuWrite
<1>1. dmc \in DmcType
  OBVIOUS
<1>2. turn' = "apu"
  BY DEF Write, NoWrite, WriteCtrl, WriteDac, WriteAddress, WriteLength, WriteStatus
<1>3. NeverStarved'
  BY <1>2 DEF NeverStarved
<1>4. CASE WriteCtrl
  <2>1. PICK data \in CtrlData : dmc' = write_ctrl(dmc, data)
    BY <1>4 DEF WriteCtrl
  <2>2. dmc' \in DmcType
    BY <1>1, <2>1, WriteCtrlType
  <2>3. data.irq \in BOOLEAN
    BY DmcAssumption
  <2>4. FlagMeansFinished'
    BY <1>1, <2>1, <2>3 DEF FlagMeansFinished, active, write_ctrl, DmcType
  <2> QED BY <1>2, <1>3, <2>2, <2>4
<1>5. CASE WriteDac
  <2>1. PICK level \in 0 .. OUTPUT_MAX : dmc' = write_dac(dmc, level)
    BY <1>5 DEF WriteDac
  <2>2. dmc' \in DmcType
    BY <1>1, <2>1, WriteDacType
  <2>3. FlagMeansFinished'
    BY <1>1, <2>1 DEF FlagMeansFinished, active, write_dac, DmcType
  <2> QED BY <1>2, <1>3, <2>2, <2>3
<1>6. CASE WriteAddress
  <2>1. PICK data \in AddressData : dmc' = write_address(dmc, data)
    BY <1>6 DEF WriteAddress
  <2>2. dmc' \in DmcType
    BY <1>1, <2>1, WriteAddressType
  <2>3. FlagMeansFinished'
    BY <1>1, <2>1 DEF FlagMeansFinished, active, write_address, DmcType
  <2> QED BY <1>2, <1>3, <2>2, <2>3
<1>7. CASE WriteLength
  <2>1. PICK data \in LengthData : dmc' = write_length(dmc, data)
    BY <1>7 DEF WriteLength
  <2>2. dmc' \in DmcType
    BY <1>1, <2>1, WriteLengthType
  <2>3. FlagMeansFinished'
    BY <1>1, <2>1 DEF FlagMeansFinished, active, write_length, DmcType
  <2> QED BY <1>2, <1>3, <2>2, <2>3
<1>8. CASE WriteStatus
  <2>1. PICK on \in BOOLEAN : dmc' = write_status(dmc, on)
    BY <1>8 DEF WriteStatus
  <2>2. dmc' \in DmcType
    BY <1>1, <2>1, WriteStatusType
  <2>3. ~dmc'.irq_flag
    BY <1>1, <2>1 DEF write_status, clear_irq, enable, disable, DmcType
  <2> QED BY <1>2, <1>3, <2>2, <2>3 DEF FlagMeansFinished
<1>9. CASE NoWrite
  BY <1>2, <1>3, <1>9 DEF NoWrite, FlagMeansFinished, active
<1> QED BY <1>4, <1>5, <1>6, <1>7, <1>8, <1>9 DEF Write

LEMMA ClockTimerKeepsIInv ==
  ASSUME IInv, ClockTimer
  PROVE  IInv'
<1>1. dmc \in DmcType /\ dmc' = cycle_timer(dmc)
  BY DEF IInv, TypeOK, ClockTimer
<1>2. TypeOK'
  BY <1>1, CycleTimerType DEF IInv, TypeOK, ClockTimer
<1>3. NeverStarved'
  BY DEF ClockTimer, NeverStarved
<1>4. FlagMeansFinished'
  BY <1>1, CycleTimerKeeps DEF IInv, FlagMeansFinished, active
<1> QED BY <1>2, <1>3, <1>4 DEF IInv

(* Serving the reader fills the buffer of every sample that has bytes      *)
(* left, and raises the flag only on the last byte.                        *)
LEMMA ServeKeepsIInv ==
  ASSUME IInv, Serve
  PROVE  IInv'
<1>1. dmc \in DmcType
  BY DEF IInv, TypeOK
<1>2. turn' = "cpu"
  BY DEF IInv, TypeOK, Serve
<1>3. PICK byte \in SampleBytes :
        dmc' = [IF WantsByte(dmc) THEN complete_fetch(dmc, byte) ELSE dmc
                EXCEPT !.irq_pending = FALSE]
  BY DEF Serve
<1>4. CASE WantsByte(dmc)
  <2> DEFINE f == complete_fetch(dmc, byte)
  <2>1. f \in DmcType
    BY <1>1, <1>4, CompleteFetchType
  <2>2. /\ f.sample_buffer.full
        /\ f.irq_enable = dmc.irq_enable
        /\ f.irq_flag /\ ~dmc.irq_flag => f.irq_enable /\ ~active(f)
    BY <1>1, <1>4, CompleteFetchGives
  <2>3. ~dmc.irq_flag
    BY <1>4 DEF IInv, FlagMeansFinished, WantsByte, active
  <2>4. dmc' = [f EXCEPT !.irq_pending = FALSE]
    BY <1>3, <1>4
  <2>5. /\ dmc' \in DmcType
        /\ dmc'.sample_buffer = f.sample_buffer
        /\ dmc'.irq_flag = f.irq_flag
        /\ dmc'.irq_enable = f.irq_enable
        /\ dmc'.bytes_remaining = f.bytes_remaining
    BY <2>1, <2>4 DEF DmcType
  <2> HIDE DEF f
  <2> QED BY <1>2, <2>2, <2>3, <2>5
      DEF IInv, TypeOK, NeverStarved, FlagMeansFinished, active
<1>5. CASE ~WantsByte(dmc)
  <2>1. dmc' = [dmc EXCEPT !.irq_pending = FALSE]
    BY <1>3, <1>5
  <2>2. dmc' \in DmcType
    BY <1>1, <2>1 DEF DmcType
  <2> QED BY <1>1, <1>2, <1>5, <2>1, <2>2
      DEF IInv, TypeOK, NeverStarved, FlagMeansFinished, active, WantsByte, DmcType
<1> QED BY <1>4, <1>5

LEMMA StepKeepsIInv == IInv /\ [Next]_vars => IInv'
<1> SUFFICES ASSUME IInv, [Next]_vars PROVE IInv'
  OBVIOUS
<1>1. CASE UNCHANGED vars
  BY <1>1 DEF vars, IInv, TypeOK, NeverStarved, FlagMeansFinished, active
<1> QED BY <1>1, WriteKeepsIInv, ClockTimerKeepsIInv, ServeKeepsIInv DEF Next

(* The invariant behind the three properties of the unit.                  *)
THEOREM DmcInvariant == Spec => []IInv
  BY InitIInv, StepKeepsIInv, PTL DEF Spec

(* The level, the read pointer, the byte count and the bit counter stay in *)
(* range for every program (dmc.rs, struct Dmc).                           *)
THEOREM DmcTypeCorrect == Spec => []TypeOK
  BY DmcInvariant, PTL DEF IInv

(* No sample, loop or rate lets the output unit outrun the memory reader.  *)
THEOREM DmcFed == Spec => []NeverStarved
  BY DmcInvariant, PTL DEF IInv

(* The interrupt flag always stands for a sample that is over.             *)
THEOREM DmcFlag == Spec => []FlagMeansFinished
  BY DmcInvariant, PTL DEF IInv

-----------------------------------------------------------------------------
(* The walk through sample memory: the sample that is left after a byte    *)
(* starts at the next address.                                             *)
LEMMA RemainderIs ==
  ASSUME NEW n \in Int, NEW m \in Nat \ {0}, NEW q \in Int, NEW r \in Int,
         n = m * q + r, 0 <= r, r < m
  PROVE  n % m = r
<1>1. /\ n = m * (n \div m) + (n % m) /\ 0 <= n % m /\ n % m < m
      /\ n \div m \in Int /\ n % m \in Int
  OBVIOUS
<1>2. m * (q - (n \div m)) = (n % m) - r
  BY <1>1
<1>3. ~(q - (n \div m) >= 1)
  BY <1>1, <1>2
<1>4. ~(q - (n \div m) <= -1)
  BY <1>1, <1>2
<1> QED BY <1>1, <1>3, <1>4

LEMMA RemainderGoesRound ==
  ASSUME NEW i \in Nat, NEW m \in Nat \ {0}
  PROVE  i % m = IF i < m THEN i ELSE (i - m) % m
<1>1. CASE i < m
  <2>1. i = m * 0 + i
    OBVIOUS
  <2>2. i % m = i
    BY ONLY <1>1, <2>1, RemainderIs, i \in Nat, m \in Nat \ {0}
  <2> QED BY ONLY <1>1, <2>2
<1>2. CASE ~(i < m)
  <2> DEFINE j == i - m
             q == j \div m
             r == j % m
  <2>1. j \in Int /\ q \in Int /\ r \in Int /\ j = m * q + r /\ 0 <= r /\ r < m
    OBVIOUS
  <2>2. i = j + m
    OBVIOUS
  <2> HIDE DEF j, q, r
  <2>3. i = m * (q + 1) + r /\ q + 1 \in Int
    BY <2>1, <2>2
  <2>4. i % m = r
    BY ONLY <2>1, <2>3, RemainderIs, i \in Nat, m \in Nat \ {0}
  <2>5. r = (i - m) % m
    BY DEF r, j
  <2> QED BY ONLY <1>2, <2>4, <2>5
<1> QED BY <1>1, <1>2

(* The place of the n-th address if memory did not end. *)
Wrapped(n) ==
  IF n <= ADDRESS_LAST THEN n
  ELSE ADDRESS_WRAP
       + ((n - ADDRESS_LAST - 1) % (ADDRESS_LAST - ADDRESS_WRAP + 1))

LEMMA WalkedOn ==
  ASSUME NEW a \in Addresses, NEW i \in Nat
  PROVE  Walked(NextAddress(a), i) = Walked(a, i + 1)
<1>1. /\ ADDRESS_LAST \in Nat /\ ADDRESS_WRAP \in Nat /\ a \in Nat
      /\ a <= ADDRESS_LAST /\ ADDRESS_WRAP <= ADDRESS_LAST
  BY DmcAssumption DEF Addresses
<1>2. ASSUME NEW b \in Nat, NEW k \in Nat
      PROVE  Walked(b, k) = Wrapped(b + k)
  BY <1>1 DEF Walked, Wrapped
<1>3. CASE a # ADDRESS_LAST
  <2>1. NextAddress(a) + i = a + (i + 1)
    BY <1>1, <1>3 DEF NextAddress
  <2>2. NextAddress(a) \in Nat /\ i + 1 \in Nat
    BY <1>1 DEF NextAddress
  <2> QED BY ONLY <1>1, <1>2, <2>1, <2>2, i \in Nat
<1>4. CASE a = ADDRESS_LAST
  <2> DEFINE m == ADDRESS_LAST - ADDRESS_WRAP + 1
  <2>1. NextAddress(a) = ADDRESS_WRAP
    BY <1>4 DEF NextAddress
  <2>2. m \in Nat \ {0} /\ (i < m <=> ADDRESS_WRAP + i <= ADDRESS_LAST)
        /\ ADDRESS_WRAP + i - ADDRESS_LAST - 1 = i - m
    BY <1>1
  <2>3. ~(a + (i + 1) <= ADDRESS_LAST) /\ a + (i + 1) - ADDRESS_LAST - 1 = i
    BY <1>1, <1>4
  <2>4. Wrapped(a + (i + 1)) = ADDRESS_WRAP + (i % m)
    BY ONLY <1>1, <2>3, i \in Nat DEF Wrapped, m
  <2>5. Wrapped(ADDRESS_WRAP + i) = IF i < m THEN ADDRESS_WRAP + i
                                    ELSE ADDRESS_WRAP + ((i - m) % m)
    BY ONLY <1>1, <2>2, i \in Nat DEF Wrapped, m
  <2>6. i % m = IF i < m THEN i ELSE (i - m) % m
    BY <2>2, RemainderGoesRound
  <2> HIDE DEF m
  <2>7. Wrapped(ADDRESS_WRAP + i) = Wrapped(a + (i + 1))
    BY ONLY <2>4, <2>5, <2>6
  <2> QED BY ONLY <1>1, <1>2, <2>1, <2>7, i \in Nat
<1> QED BY <1>3, <1>4

(* Functions on the first naturals are sequences. *)
LEMMA AsSequence ==
  ASSUME NEW n \in Nat, NEW s, s = [i \in 1 .. n |-> s[i]]
  PROVE  /\ Len(s) = n
         /\ n = 0 => s = << >>
         /\ n > 0 => /\ s # << >> /\ Head(s) = s[1]
                     /\ Tail(s) = [i \in 1 .. n - 1 |-> s[i + 1]]
<1> DEFINE S == {s[i] : i \in 1 .. n}
<1>1. s \in Seq(S) /\ Len(s) = n
  OBVIOUS
<1> QED BY <1>1

LEMMA WalkGives ==
  ASSUME NEW a, NEW n \in Nat
  PROVE  /\ Len(Walk(a, n)) = n
         /\ n = 0 => Walk(a, n) = << >>
         /\ n > 0 => Walk(a, n) # << >>
  BY AsSequence DEF Walk

LEMMA WalkTail ==
  ASSUME NEW a \in Addresses, NEW n \in Nat \ {0}
  PROVE  Tail(Walk(a, n)) = Walk(NextAddress(a), n - 1)
<1> DEFINE s == Walk(a, n)
<1>1. Tail(s) = [i \in 1 .. n - 1 |-> s[i + 1]]
  BY AsSequence DEF Walk
<1>2. ASSUME NEW i \in 1 .. n - 1
      PROVE  s[i + 1] = Walked(NextAddress(a), i - 1)
  <2>1. i + 1 \in 1 .. n /\ (i + 1) - 1 = (i - 1) + 1 /\ i - 1 \in Nat
    OBVIOUS
  <2> QED BY <2>1, WalkedOn DEF Walk
<1> HIDE DEF s
<1> QED BY <1>1, <1>2 DEF Walk, s

-----------------------------------------------------------------------------
(* The moves that are left: Bit i of what is in the shift register counts  *)
(* from the lowest.                                                        *)
LEMMA BitHalved ==
  ASSUME NEW b \in Nat, NEW i \in Nat
  PROVE  /\ b \div 2 ^ 0 = b
         /\ b \div 2 ^ (i + 1) = (b \div 2) \div 2 ^ i
<1>1. 2 ^ i \in Nat \ {0} /\ 2 ^ (i + 1) = 2 * 2 ^ i
  BY PowerCounts, PowerDoubles
<1>2. ASSUME NEW p \in Nat \ {0} PROVE (b \div 2) \div p = b \div (2 * p)
  OBVIOUS
<1>3. b \div 2 ^ (i + 1) = (b \div 2) \div 2 ^ i
  <2> DEFINE p == 2 ^ i
             q == 2 ^ (i + 1)
  <2>1. p \in Nat \ {0} /\ q = 2 * p
    BY <1>1
  <2> HIDE DEF p, q
  <2>2. b \div q = (b \div 2) \div p
    BY <1>2, <2>1
  <2> QED BY <2>2 DEF p, q
<1>4. b \div 2 ^ 0 = b
  BY 2 ^ 0 = 1
<1> QED BY <1>3, <1>4

MoveOf(silence, byte, i) ==
  IF silence THEN "rest"
  ELSE IF (byte \div 2 ^ (i - 1)) % 2 = 1 THEN "up" ELSE "down"

LEMMA MovesLeftIs ==
  ASSUME dmc \in DmcType
  PROVE  /\ Len(MovesLeft) = dmc.bits_remaining
         /\ Head(MovesLeft) = MoveOf(dmc.silence, dmc.shift_register, 1)
         /\ Tail(MovesLeft) = [i \in 1 .. dmc.bits_remaining - 1 |->
                                 MoveOf(dmc.silence, dmc.shift_register \div 2, i)]
<1> DEFINE n == dmc.bits_remaining
           b == dmc.shift_register
           s == [i \in 1 .. n |-> MoveOf(dmc.silence, b, i)]
<1>1. n \in Nat /\ n > 0 /\ b \in Nat
  BY ByteRange DEF DmcType, Bytes
<1>2. MovesLeft = s
  BY DEF MovesLeft, MoveOf
<1> HIDE DEF n, b
<1>3. Len(s) = n /\ Head(s) = s[1] /\ Tail(s) = [i \in 1 .. n - 1 |-> s[i + 1]]
  BY <1>1, AsSequence
<1>4. s[1] = MoveOf(dmc.silence, b, 1)
  BY <1>1
<1>5. ASSUME NEW i \in 1 .. n - 1
      PROVE  s[i + 1] = MoveOf(dmc.silence, b \div 2, i)
  <2>1. i + 1 \in 1 .. n /\ i - 1 \in Nat /\ (i - 1) + 1 = (i + 1) - 1
    BY <1>1
  <2>2. s[i + 1] = MoveOf(dmc.silence, b, i + 1)
    BY <2>1
  <2>3. b \div 2 ^ ((i + 1) - 1) = (b \div 2) \div 2 ^ (i - 1)
    <3>1. b \div 2 ^ ((i - 1) + 1) = (b \div 2) \div 2 ^ (i - 1)
      BY <1>1, <2>1, BitHalved
    <3> QED BY ONLY <2>1, <3>1
  <2> QED BY <2>2, <2>3 DEF MoveOf
<1> HIDE DEF s
<1> QED BY <1>2, <1>3, <1>4, <1>5 DEF n, b

-----------------------------------------------------------------------------
(* The refinement.  A sample starts where the registers can have put it.   *)
Registered == /\ dmc.sample_address \in
                   {SAMPLE_BASE} \cup {SAMPLE_BASE + a * ADDRESS_STEP : a \in AddressData}
              /\ dmc.sample_length \in {1} \cup {n * LENGTH_STEP + 1 : n \in LengthData}

PlayerInv == IInv /\ Registered

(* What is left of a sample, what waits and what is played, of a unit d. *)
Script(d) == Walk(d.current_address, d.bytes_remaining)
Waiting(d) == IF d.sample_buffer.full THEN <<d.sample_buffer.byte>> ELSE << >>
Left(d) == [i \in 1 .. d.bits_remaining |-> MoveOf(d.silence, d.shift_register, i)]

(* The fields of the unit that the player sees. *)
Unseen(d, e) == /\ e.current_address = d.current_address
                /\ e.bytes_remaining = d.bytes_remaining
                /\ e.sample_buffer = d.sample_buffer
                /\ e.bits_remaining = d.bits_remaining
                /\ e.silence = d.silence
                /\ e.shift_register = d.shift_register

LEMMA UnseenKeeps ==
  ASSUME NEW d, NEW e, Unseen(d, e)
  PROVE  Script(e) = Script(d) /\ Waiting(e) = Waiting(d) /\ Left(e) = Left(d)
  BY DEF Unseen, Script, Waiting, Left

(* The player's variables are these of dmc. *)
LEMMA PlayerSees ==
  /\ Script(dmc) = Walk(dmc.current_address, dmc.bytes_remaining)
  /\ Waiting(dmc) = IF dmc.sample_buffer.full THEN <<dmc.sample_buffer.byte>> ELSE << >>
  /\ Left(dmc) = MovesLeft
  BY DEF Script, Waiting, Left, MovesLeft, MoveOf

LEMMA PlayerInit == Init => Player!Init
<1> SUFFICES ASSUME Init PROVE Player!Init
  OBVIOUS
<1>1. Script(dmc) = << >>
  BY WalkGives DEF Init, NewDmc, Script
<1>2. Waiting(dmc) = << >> /\ dmc.output = 0
  BY DEF Init, NewDmc, Waiting, Empty
<1>3. Left(dmc) = Player!Rests
  BY DEF Init, NewDmc, Left, MoveOf, Player!Rests
<1> QED BY <1>1, <1>2, <1>3, PlayerSees DEF Player!Init

LEMMA RegisteredInit == Init => Registered
  BY DEF Init, NewDmc, Registered

LEMMA RegisteredStep == PlayerInv /\ [Next]_vars => Registered'
<1> SUFFICES ASSUME PlayerInv, [Next]_vars PROVE Registered'
  OBVIOUS
<1>1. dmc \in DmcType /\ Registered
  BY DEF PlayerInv, IInv, TypeOK
<1>2. ASSUME NEW data \in AddressData, CpuWrite(write_address(dmc, data))
      PROVE  Registered'
  <2>1. /\ dmc'.sample_address = SAMPLE_BASE + data * ADDRESS_STEP
        /\ dmc'.sample_length = dmc.sample_length
    BY <1>1, <1>2 DEF CpuWrite, write_address, DmcType
  <2> QED BY <1>1, <2>1 DEF Registered
<1>3. ASSUME NEW data \in LengthData, CpuWrite(write_length(dmc, data))
      PROVE  Registered'
  <2>1. /\ dmc'.sample_address = dmc.sample_address
        /\ dmc'.sample_length = data * LENGTH_STEP + 1
    BY <1>1, <1>3 DEF CpuWrite, write_length, DmcType
  <2> QED BY <1>1, <2>1 DEF Registered
<1>4. ASSUME dmc'.sample_address = dmc.sample_address,
             dmc'.sample_length = dmc.sample_length
      PROVE  Registered'
  BY <1>1, <1>4 DEF Registered
<1>5. CASE WriteCtrl \/ WriteDac \/ WriteStatus \/ NoWrite
  BY <1>1, <1>4, <1>5
  DEF WriteCtrl, WriteDac, WriteStatus, NoWrite, CpuWrite, write_ctrl, write_dac,
      write_status, clear_irq, enable, disable, DmcType
<1>6. CASE ClockTimer
  BY <1>1, <1>4, <1>6, CycleTimerKeeps DEF ClockTimer
<1>7. CASE Serve
  BY <1>1, <1>4, <1>7 DEF Serve, complete_fetch, DmcType
<1>8. CASE UNCHANGED vars
  BY <1>4, <1>8 DEF vars
<1> QED BY <1>2, <1>3, <1>5, <1>6, <1>7, <1>8
    DEF Next, Write, WriteAddress, WriteLength

(* The samples of the player are walks from the registers. *)
LEMMA SampleStarts ==
  ASSUME Registered
  PROVE  Walk(dmc.sample_address, dmc.sample_length) \in Player!Samples
<1>1. \A a, n : Player!Walk(a, n) = Walk(a, n)
  BY DEF Player!Walk, Player!Walked, Walk, Walked
<1> QED BY <1>1 DEF Registered, Player!Samples

(* A byte is served. *)
LEMMA ServeReads ==
  ASSUME PlayerInv, Serve
  PROVE  Player!Read \/ UNCHANGED Player!vars
<1>1. dmc \in DmcType /\ Registered
  BY DEF PlayerInv, IInv, TypeOK
<1>2. PICK byte \in SampleBytes :
        dmc' = [IF WantsByte(dmc) THEN complete_fetch(dmc, byte) ELSE dmc
                EXCEPT !.irq_pending = FALSE]
  BY DEF Serve
<1>3. CASE ~WantsByte(dmc)
  <2>1. Unseen(dmc, dmc') /\ dmc'.output = dmc.output
    BY <1>1, <1>2, <1>3 DEF Unseen, DmcType
  <2>2. /\ Script(dmc') = Script(dmc) /\ Waiting(dmc') = Waiting(dmc)
        /\ Left(dmc') = Left(dmc)
    BY <2>1, UnseenKeeps
  <2> QED BY <2>1, <2>2
      DEF Player!vars, Script, Waiting, Left, MovesLeft, MoveOf
<1>4. CASE WantsByte(dmc)
  <2> DEFINE a == dmc.current_address
             n == dmc.bytes_remaining
             last == n = 1 /\ dmc.loop_flag
  <2>1. a \in Addresses /\ n \in Nat \ {0} /\ ~dmc.sample_buffer.full
    BY <1>1, <1>4 DEF WantsByte, DmcType
  <2>2. /\ dmc'.sample_buffer = Holding(byte) /\ dmc'.output = dmc.output
        /\ dmc'.bits_remaining = dmc.bits_remaining /\ dmc'.silence = dmc.silence
        /\ dmc'.shift_register = dmc.shift_register
        /\ dmc'.current_address = IF last THEN dmc.sample_address ELSE NextAddress(a)
        /\ dmc'.bytes_remaining = IF last THEN dmc.sample_length ELSE n - 1
    BY <1>1, <1>2, <1>4 DEF complete_fetch, DmcType
  <2>3. Script(dmc) # << >> /\ Len(Script(dmc)) = n /\ Waiting(dmc) = << >>
    BY <2>1, WalkGives DEF Script, Waiting
  <2>4. byte \in Player!Bytes /\ Waiting(dmc') = <<byte>>
    BY <2>2, DmcAssumption DEF Player!Bytes, Bytes, Waiting, Holding
  <2>5. \/ Script(dmc') = Tail(Script(dmc))
        \/ Len(Script(dmc)) = 1 /\ Script(dmc') \in Player!Samples
    <3>1. CASE last
      <4>1. Script(dmc') = Walk(dmc.sample_address, dmc.sample_length)
        BY <2>2, <3>1 DEF Script
      <4>2. Script(dmc') \in Player!Samples
        BY <1>1, <4>1, SampleStarts
      <4> QED BY <2>3, <3>1, <4>2
    <3>2. CASE ~last
      BY <2>1, <2>2, <3>2, WalkTail DEF Script
    <3> QED BY <3>1, <3>2
  <2>6. Left(dmc') = Left(dmc)
    BY <2>2 DEF Left
  <2> HIDE DEF a, n, last
  <2>7. Player!Read
    BY <2>2, <2>3, <2>4, <2>5, <2>6
    DEF Player!Read, Script, Waiting, Left, MovesLeft, MoveOf
  <2> QED BY <2>7
<1> QED BY <1>3, <1>4

(* The level after a bit is the one that the first move gives. *)
LEMMA LevelMoves ==
  ASSUME dmc \in DmcType
  PROVE  LevelAfter(dmc) = Player!Moved(dmc.output, Head(MovesLeft))
<1> DEFINE h == Head(MovesLeft)
           b == dmc.shift_register
<1>1. h = MoveOf(dmc.silence, b, 1) /\ b \in Nat /\ dmc.output \in Nat
      /\ dmc.silence \in BOOLEAN
  BY MovesLeftIs, ByteRange, DmcAssumption DEF DmcType, Bytes
<1>2. b \div 2 ^ (1 - 1) = b
  BY <1>1, BitHalved, 1 - 1 = 0
<1> HIDE DEF h
<1>3. CASE dmc.silence
  <2>1. h = "rest"
    BY <1>1, <1>3 DEF MoveOf
  <2> QED BY <1>3, <2>1 DEF LevelAfter, Player!Moved, h
<1>4. CASE ~dmc.silence /\ b % 2 = 1
  <2>1. h = "up"
    BY <1>1, <1>2, <1>4 DEF MoveOf
  <2> QED BY <1>1, <1>4, <2>1, DmcAssumption DEF LevelAfter, Player!Moved, h
<1>5. CASE ~dmc.silence /\ b % 2 = 0
  <2>1. h = "down"
    BY <1>1, <1>2, <1>5 DEF MoveOf
  <2> QED BY <1>1, <1>5, <2>1, DmcAssumption DEF LevelAfter, Player!Moved, h
<1>6. b % 2 = 0 \/ b % 2 = 1
  BY <1>1
<1> QED BY <1>3, <1>4, <1>5, <1>6

(* A cycle of the timer is a move, or the level stays. *)
LEMMA ClockMoves ==
  ASSUME PlayerInv, ClockTimer
  PROVE  Player!Move \/ UNCHANGED Player!vars
<1>1. dmc \in DmcType /\ dmc' = cycle_timer(dmc)
  BY DEF PlayerInv, IInv, TypeOK, ClockTimer
<1>2. Script(dmc') = Script(dmc)
  BY <1>1, CycleTimerKeeps DEF Script
<1>3. CASE dmc.timer # 0
  <2>1. Unseen(dmc, dmc') /\ dmc'.output = dmc.output
    BY <1>1, <1>3 DEF cycle_timer, Unseen, DmcType
  <2>2. /\ Script(dmc') = Script(dmc) /\ Waiting(dmc') = Waiting(dmc)
        /\ Left(dmc') = Left(dmc)
    BY <2>1, UnseenKeeps
  <2> QED BY <2>1, <2>2
      DEF Player!vars, Script, Waiting, Left, MovesLeft, MoveOf
<1>4. CASE dmc.timer = 0
  <2> DEFINE t == [dmc EXCEPT !.timer = dmc.timer_reload]
             s == [t EXCEPT !.output         = LevelAfter(t),
                            !.shift_register = @ \div 2,
                            !.bits_remaining = @ - 1]
             n == dmc.bits_remaining
             b == dmc.shift_register
             full == dmc.sample_buffer.full
  <2>1. /\ dmc' = IF s.bits_remaining = 0 THEN start_output_cycle(s) ELSE s
        /\ LevelAfter(t) = LevelAfter(dmc)
    <3>1. dmc' = clock_output(t)
      BY <1>1, <1>4 DEF cycle_timer
    <3>2. LevelAfter(t) = LevelAfter(dmc)
      BY <1>1 DEF LevelAfter, DmcType
    <3> QED BY <3>1, <3>2 DEF clock_output
  <2>2. n \in Nat /\ n > 0 /\ b \in Nat /\ full \in BOOLEAN
    BY <1>1, ByteRange DEF DmcType, Bytes
  <2>3. /\ s.output = LevelAfter(dmc) /\ s.shift_register = b \div 2
        /\ s.bits_remaining = n - 1 /\ s.sample_buffer = dmc.sample_buffer
        /\ s.silence = dmc.silence
    BY <1>1, <2>1 DEF DmcType
  <2>4. CASE n > 1
    <3>1. dmc' = s
      BY <2>1, <2>2, <2>3, <2>4
    <3> HIDE DEF s
    <3>2. Waiting(dmc') = Waiting(dmc)
      BY <2>3, <3>1 DEF Waiting
    <3>3. Left(dmc') = Tail(MovesLeft) /\ Len(MovesLeft) > 1
      BY <1>1, <2>3, <2>4, <3>1, MovesLeftIs DEF Left
    <3>4. dmc'.output = Player!Moved(dmc.output, Head(MovesLeft))
      BY <1>1, <2>3, <3>1, LevelMoves
    <3> QED BY <1>2, <3>2, <3>3, <3>4
        DEF Player!Move, Script, Waiting, Left, MovesLeft, MoveOf
  <2>5. CASE ~(n > 1)
    <3>1. dmc' = start_output_cycle(s)
      BY <2>1, <2>2, <2>3, <2>5
    <3>2. /\ dmc'.output = LevelAfter(dmc) /\ dmc'.bits_remaining = BITS
          /\ dmc'.sample_buffer = Empty /\ dmc'.silence = ~full
          /\ full => dmc'.shift_register = dmc.sample_buffer.byte
      <4>1. /\ start_output_cycle(s).output = s.output
            /\ start_output_cycle(s).bits_remaining = BITS
            /\ start_output_cycle(s).sample_buffer = Empty
        BY <1>1 DEF start_output_cycle, DmcType
      <4>2. /\ start_output_cycle(s).silence = ~s.sample_buffer.full
            /\ start_output_cycle(s).shift_register =
                 IF s.sample_buffer.full THEN s.sample_buffer.byte
                 ELSE s.shift_register
        BY <1>1 DEF start_output_cycle, DmcType
      <4> HIDE DEF s
      <4> QED BY <2>3, <3>1, <4>1, <4>2
    <3> HIDE DEF s
    <3>3. Waiting(dmc') = << >> /\ ~(Len(MovesLeft) > 1)
      BY <1>1, <2>5, <3>2, MovesLeftIs DEF Waiting, Empty
    <3>4. Left(dmc') = IF Waiting(dmc) = << >> THEN Player!Rests
                       ELSE Player!Moves(Waiting(dmc)[1])
      <4>1. CASE full
        <5>1. Waiting(dmc) = <<dmc.sample_buffer.byte>>
          BY <4>1 DEF Waiting
        <5>2. Left(dmc') = Player!Moves(dmc.sample_buffer.byte)
          BY <3>2, <4>1 DEF Left, MoveOf, Player!Moves
        <5> QED BY <5>1, <5>2
      <4>2. CASE ~full
        <5>1. Waiting(dmc) = << >>
          BY <4>2 DEF Waiting
        <5>2. Left(dmc') = Player!Rests
          BY <3>2, <4>2 DEF Left, MoveOf, Player!Rests
        <5> QED BY <5>1, <5>2
      <4> QED BY <2>2, <4>1, <4>2
    <3>5. dmc'.output = Player!Moved(dmc.output, Head(MovesLeft))
      BY <1>1, <3>2, LevelMoves
    <3> QED BY <1>2, <3>3, <3>4, <3>5
        DEF Player!Move, Script, Waiting, Left, MovesLeft, MoveOf
  <2> QED BY <2>4, <2>5
<1> QED BY <1>3, <1>4

(* The registers start or stop a sample, or set the level, or nothing.     *)
LEMMA WritesPlay ==
  ASSUME PlayerInv, Write \/ NoWrite
  PROVE  Player!Start \/ Player!Stop \/ Player!SetLevel \/ UNCHANGED Player!vars
<1>1. dmc \in DmcType /\ Registered
  BY DEF PlayerInv, IInv, TypeOK
<1>2. ASSUME Unseen(dmc, dmc')
      PROVE  /\ Script(dmc') = Script(dmc) /\ Waiting(dmc') = Waiting(dmc)
             /\ Left(dmc') = Left(dmc)
  BY <1>2, UnseenKeeps
<1>3. ASSUME Unseen(dmc, dmc'), dmc'.output = dmc.output
      PROVE  UNCHANGED Player!vars
  BY <1>2, <1>3 DEF Player!vars, Script, Waiting, Left, MovesLeft, MoveOf
<1>4. CASE WriteCtrl \/ WriteAddress \/ WriteLength \/ NoWrite
  <2>1. \/ \E data : dmc' = write_ctrl(dmc, data)
        \/ \E data : dmc' = write_address(dmc, data)
        \/ \E data : dmc' = write_length(dmc, data)
        \/ dmc' = dmc
    BY <1>4 DEF WriteCtrl, WriteAddress, WriteLength, NoWrite, CpuWrite
  <2>2. ASSUME NEW data
        PROVE  /\ Unseen(dmc, write_ctrl(dmc, data))
               /\ write_ctrl(dmc, data).output = dmc.output
    BY <1>1 DEF write_ctrl, Unseen, DmcType
  <2>3. ASSUME NEW data
        PROVE  /\ Unseen(dmc, write_address(dmc, data))
               /\ write_address(dmc, data).output = dmc.output
    BY <1>1 DEF write_address, Unseen, DmcType
  <2>4. ASSUME NEW data
        PROVE  /\ Unseen(dmc, write_length(dmc, data))
               /\ write_length(dmc, data).output = dmc.output
    BY <1>1 DEF write_length, Unseen, DmcType
  <2>5. Unseen(dmc, dmc)
    BY DEF Unseen
  <2>6. Unseen(dmc, dmc') /\ dmc'.output = dmc.output
    BY <2>1, <2>2, <2>3, <2>4, <2>5
  <2> QED BY <1>3, <2>6
<1>5. CASE WriteDac
  <2>1. Unseen(dmc, dmc') /\ dmc'.output \in 0 .. OUTPUT_MAX
    BY <1>1, <1>5 DEF WriteDac, CpuWrite, write_dac, Unseen, DmcType
  <2>2. Player!SetLevel
    BY <1>2, <2>1 DEF Player!SetLevel, Script, Waiting, Left, MovesLeft, MoveOf
  <2> QED BY <2>2
<1>6. CASE WriteStatus
  <2>1. PICK on \in BOOLEAN : dmc' = write_status(dmc, on)
    BY <1>6 DEF WriteStatus, CpuWrite
  <2>2. /\ dmc'.sample_buffer = dmc.sample_buffer /\ dmc'.output = dmc.output
        /\ dmc'.bits_remaining = dmc.bits_remaining /\ dmc'.silence = dmc.silence
        /\ dmc'.shift_register = dmc.shift_register
    BY <1>1, <2>1 DEF write_status, clear_irq, enable, disable, DmcType
  <2>3. Waiting(dmc') = Waiting(dmc) /\ Left(dmc') = Left(dmc)
    BY <2>2 DEF Waiting, Left
  <2>4. CASE on /\ dmc.bytes_remaining = 0
    <3>1. /\ dmc'.current_address = dmc.sample_address
          /\ dmc'.bytes_remaining = dmc.sample_length
      BY <1>1, <2>1, <2>4 DEF write_status, clear_irq, enable, DmcType
    <3>2. Script(dmc') \in Player!Samples
      BY <1>1, <3>1, SampleStarts DEF Script
    <3>3. Script(dmc) = << >>
      BY <2>4, WalkGives DEF Script
    <3>4. Player!Start
      BY <2>2, <2>3, <3>2, <3>3
      DEF Player!Start, Script, Waiting, Left, MovesLeft, MoveOf
    <3> QED BY <3>4
  <2>5. CASE on /\ dmc.bytes_remaining # 0
    <3>1. Unseen(dmc, dmc')
      BY <1>1, <2>1, <2>2, <2>5 DEF write_status, clear_irq, enable, Unseen, DmcType
    <3> QED BY <1>3, <2>2, <3>1
  <2>6. CASE ~on
    <3>1. dmc'.bytes_remaining = 0
      BY <1>1, <2>1, <2>6 DEF write_status, clear_irq, disable, DmcType
    <3>2. Script(dmc') = << >>
      BY <3>1, WalkGives DEF Script
    <3>3. Player!Stop
      BY <2>2, <2>3, <3>2
      DEF Player!Stop, Script, Waiting, Left, MovesLeft, MoveOf
    <3> QED BY <3>3
  <2> QED BY <2>4, <2>5, <2>6
<1> QED BY <1>4, <1>5, <1>6 DEF Write

(* The channel implements the sample player: bytes are read in the order   *)
(* of the sample fixed when it started, through the end of memory, and     *)
(* every byte read is played once and whole, lowest bit first, whatever    *)
(* the program writes meanwhile (dmc.rs:67-186).                           *)
THEOREM DmcPlaysSamples == Spec => PlaysSamples
<1>1. Init => PlayerInv
  BY InitIInv, RegisteredInit DEF PlayerInv
<1>2. PlayerInv /\ [Next]_vars => PlayerInv'
  BY StepKeepsIInv, RegisteredStep DEF PlayerInv
<1>3. PlayerInv /\ [Next]_vars => [Player!Next]_(Player!vars)
  <2> SUFFICES ASSUME PlayerInv, [Next]_vars
               PROVE  Player!Next \/ UNCHANGED Player!vars
    OBVIOUS
  <2>1. CASE UNCHANGED vars
    BY <2>1 DEF vars, Player!vars, MovesLeft
  <2> QED BY <2>1, WritesPlay, ClockMoves, ServeReads DEF Next, Player!Next
<1> QED BY <1>1, <1>2, <1>3, PlayerInit, PTL DEF Spec, PlaysSamples, Player!Spec
=============================================================================
