--------------------------- MODULE DmcUnitProofs ---------------------------
(***************************************************************************)
(* What the methods of the delta modulation channel keep: the types of its *)
(* fields, and the facts about them that Dmc and Emulator rely on.         *)
(***************************************************************************)
EXTENDS DmcUnit, FiniteSetTheorems, TLAPS

(* A power of two is the number of the subsets of a set. *)
LEMMA PowerCounts ==
  ASSUME NEW n \in Nat
  PROVE  /\ IsFiniteSet(SUBSET (1 .. n))
         /\ 2 ^ n = Cardinality(SUBSET (1 .. n))
         /\ 2 ^ n \in Nat \ {0}
<1>1. IsFiniteSet(1 .. n) /\ Cardinality(1 .. n) = n
  BY FS_Interval
<1>2. IsFiniteSet(SUBSET (1 .. n)) /\ Cardinality(SUBSET (1 .. n)) = 2 ^ n
  BY <1>1, FS_SUBSET
<1>3. Cardinality(SUBSET (1 .. n)) \in Nat
  BY <1>2, FS_CardinalityType
<1>4. Cardinality(SUBSET (1 .. n)) # 0
  <2>1. SUBSET (1 .. n) # {}
    OBVIOUS
  <2> QED BY <1>2, <2>1, FS_EmptySet
<1> QED BY <1>2, <1>3, <1>4

(* Half of the subsets leave the last element out. *)
LEMMA PowerDoubles ==
  ASSUME NEW n \in Nat
  PROVE  2 ^ (n + 1) = 2 * 2 ^ n
<1> DEFINE A == SUBSET (1 .. n)
           B == {a \cup {n + 1} : a \in A}
           f == [a \in A |-> a \cup {n + 1}]
<1>1. SUBSET (1 .. n + 1) = A \cup B
  <2>1. ASSUME NEW s \in SUBSET (1 .. n + 1), n + 1 \in s
        PROVE  s \in B
    <3>1. s \ {n + 1} \in A
      OBVIOUS
    <3>2. s = (s \ {n + 1}) \cup {n + 1}
      BY <2>1
    <3> QED BY <3>1, <3>2
  <2>2. ASSUME NEW s \in SUBSET (1 .. n + 1), n + 1 \notin s
        PROVE  s \in A
    BY <2>2
  <2>3. A \subseteq SUBSET (1 .. n + 1)
    OBVIOUS
  <2>4. B \subseteq SUBSET (1 .. n + 1)
    <3>1. 1 .. n \subseteq 1 .. n + 1 /\ n + 1 \in 1 .. n + 1
      OBVIOUS
    <3> DEFINE N == 1 .. n + 1
               e == n + 1
    <3>2. N = 1 .. n + 1 /\ B = {a \cup {e} : a \in SUBSET (1 .. n)}
      OBVIOUS
    <3>3. 1 .. n \subseteq N /\ e \in N
      BY <3>1
    <3> HIDE DEF N, e, B
    <3>4. B \subseteq SUBSET N
      BY <3>2, <3>3
    <3> QED BY <3>2, <3>4
  <2> HIDE DEF A, B
  <2> QED BY <2>1, <2>2, <2>3, <2>4
<1>2. A \cap B = {}
  OBVIOUS
<1>3. ExistsBijection(A, B)
  <2>1. \A a, b \in A : f[a] = f[b] => a = b
    <3> SUFFICES ASSUME NEW a \in A, NEW b \in A, f[a] = f[b]
                 PROVE  a = b
      OBVIOUS
    <3>1. n + 1 \notin a /\ n + 1 \notin b
      OBVIOUS
    <3>2. a \cup {n + 1} = b \cup {n + 1}
      OBVIOUS
    <3> HIDE DEF A, f
    <3> QED BY <3>1, <3>2
  <2>2. f \in [A -> B] /\ \A t \in B : \E a \in A : f[a] = t
    OBVIOUS
  <2> HIDE DEF f, A, B
  <2>3. f \in Bijection(A, B)
    BY <2>1, <2>2 DEF Bijection, Injection, Surjection, IsInjective
  <2> QED BY <2>3 DEF ExistsBijection
<1>4. IsFiniteSet(A) /\ 2 ^ n = Cardinality(A) /\ 2 ^ n \in Nat
  BY PowerCounts
<1> HIDE DEF A, B
<1>5. IsFiniteSet(B) /\ Cardinality(B) = Cardinality(A)
  BY <1>3, <1>4, FS_Bijection
<1>6. Cardinality(A \cup B) = Cardinality(A) + Cardinality(B) - Cardinality({})
  BY <1>2, <1>4, <1>5, FS_Union
<1>7. Cardinality({}) = 0
  BY FS_EmptySet
<1>8. 2 ^ (n + 1) = Cardinality(A \cup B)
  BY <1>1, PowerCounts
<1> QED BY <1>4, <1>5, <1>6, <1>7, <1>8

(* What a byte holds, whatever its width. *)
LEMMA ByteRange == BITS \in Nat /\ 2 ^ BITS \in Nat \ {0} /\ 0 \in Bytes
<1> DEFINE w == 2 ^ BITS
<1>1. BITS \in Nat /\ w \in Nat \ {0} /\ Bytes = 0 .. w - 1
  BY DmcAssumption, PowerCounts DEF Bytes
<1> HIDE DEF w
<1>2. 0 \in 0 .. w - 1
  BY <1>1
<1> QED BY <1>1, <1>2 DEF w

-----------------------------------------------------------------------------

(* A record of the unit is determined by the types of its fields. *)
LEMMA NewDmcType == NewDmc \in DmcType
<1>1. BITS \in 1 .. BITS /\ RATE_TABLE[FIRST_RATE] - 1 \in Nat
      /\ SAMPLE_BASE \in Addresses /\ 0 \in 0 .. OUTPUT_MAX
  BY DmcAssumption DEF Addresses
<1> QED BY <1>1, ByteRange DEF NewDmc, DmcType, Empty

(* The register writes keep the types (dmc.rs:67-113). *)
LEMMA WriteCtrlType ==
  ASSUME NEW d \in DmcType, NEW data \in CtrlData
  PROVE  write_ctrl(d, data) \in DmcType
<1>1. data.irq \in BOOLEAN /\ data.loop \in BOOLEAN /\ data.rate \in Rates
  BY DmcAssumption
<1>2. RATE_TABLE[data.rate] - 1 \in Nat
  BY <1>1, DmcAssumption
<1> QED BY <1>1, <1>2 DEF write_ctrl, DmcType

LEMMA WriteDacType ==
  ASSUME NEW d \in DmcType, NEW level \in 0 .. OUTPUT_MAX
  PROVE  write_dac(d, level) \in DmcType
  BY DEF write_dac, DmcType

LEMMA WriteAddressType ==
  ASSUME NEW d \in DmcType, NEW data \in AddressData
  PROVE  write_address(d, data) \in DmcType
  BY DmcAssumption DEF write_address, DmcType, Addresses

LEMMA WriteLengthType ==
  ASSUME NEW d \in DmcType, NEW data \in LengthData
  PROVE  write_length(d, data) \in DmcType
<1>1. data * LENGTH_STEP + 1 \in Nat \ {0}
  BY DmcAssumption
<1> QED BY <1>1 DEF write_length, DmcType

LEMMA WriteStatusType ==
  ASSUME NEW d \in DmcType, NEW on \in BOOLEAN
  PROVE  write_status(d, on) \in DmcType
<1>1. enable(d) \in DmcType BY DEF enable, DmcType
<1>2. disable(d) \in DmcType BY DEF disable, DmcType
<1> QED BY <1>1, <1>2 DEF write_status, clear_irq, DmcType

(* The output unit keeps the types; in particular the level stays within   *)
(* the DAC and the bit counter within a byte (dmc.rs:115-154).             *)
LEMMA ClockOutputType ==
  ASSUME NEW d \in DmcType
  PROVE  clock_output(d) \in DmcType
<1> DEFINE s == [d EXCEPT !.output         = LevelAfter(d),
                          !.shift_register = @ \div 2,
                          !.bits_remaining = @ - 1]
<1>1. LevelAfter(d) \in 0 .. OUTPUT_MAX
  BY DmcAssumption DEF LevelAfter, DmcType
<1>2. d.shift_register \div 2 \in Bytes
  BY ByteRange DEF DmcType, Bytes
<1>3. s.bits_remaining = d.bits_remaining - 1 /\ d.bits_remaining \in 1 .. BITS
  BY DEF DmcType
<1>4. CASE s.bits_remaining = 0
  <2>1. clock_output(d) = start_output_cycle(s)
    BY <1>4 DEF clock_output
  <2> DEFINE e == [s EXCEPT !.bits_remaining = BITS]
  <2>2. e \in DmcType
    <3>1. e = [d EXCEPT !.output         = LevelAfter(d),
                        !.shift_register = @ \div 2,
                        !.bits_remaining = BITS]
      BY DEF DmcType
    <3>2. BITS \in 1 .. BITS
      BY DmcAssumption
    <3> QED BY <1>1, <1>2, <3>1, <3>2 DEF DmcType
  <2>3. /\ e.sample_buffer.byte \in Bytes /\ e.sample_buffer.full \in BOOLEAN
        /\ 0 \in Bytes
    BY <2>2, ByteRange DEF DmcType, Bytes
  <2>4. start_output_cycle(e) \in DmcType
    BY <2>2, <2>3, DmcAssumption, ZenonT(60) DEF start_output_cycle, DmcType, Empty
  <2>5. start_output_cycle(s) = start_output_cycle(e)
    BY DEF start_output_cycle, DmcType
  <2> QED BY <2>1, <2>4, <2>5
<1>5. CASE s.bits_remaining # 0
  <2>1. clock_output(d) = s
    BY <1>5 DEF clock_output
  <2>2. s.bits_remaining \in 1 .. BITS
    BY <1>3, <1>5, DmcAssumption
  <2>3. s \in DmcType
    BY <1>1, <1>2, <2>2 DEF DmcType
  <2> QED BY <2>1, <2>3
<1> QED BY <1>4, <1>5

LEMMA CycleTimerType ==
  ASSUME NEW d \in DmcType
  PROVE  cycle_timer(d) \in DmcType
<1>1. CASE d.timer = 0
  <2>1. [d EXCEPT !.timer = d.timer_reload] \in DmcType BY DEF DmcType
  <2> QED BY <1>1, <2>1, ClockOutputType DEF cycle_timer
<1>2. CASE d.timer # 0
  BY <1>2 DEF cycle_timer, DmcType
<1> QED BY <1>1, <1>2

(* The memory reader keeps the types: the read pointer wraps and the byte  *)
(* count does not go below zero (dmc.rs:169-186).                          *)
LEMMA CompleteFetchType ==
  ASSUME NEW d \in DmcType, WantsByte(d), NEW byte \in SampleBytes
  PROVE  complete_fetch(d, byte) \in DmcType
<1>1. byte \in Bytes
  BY DmcAssumption
<1>2. NextAddress(d.current_address) \in Addresses
  BY DmcAssumption DEF NextAddress, Addresses, DmcType
<1>3. d.bytes_remaining - 1 \in Nat
  BY DEF WantsByte, DmcType
<1> QED BY <1>1, <1>2, <1>3, ZenonT(60) DEF complete_fetch, Holding, DmcType

-----------------------------------------------------------------------------
(* Clocking the output unit touches neither the reader's counters nor the  *)
(* interrupt.                                                              *)
LEMMA CycleTimerKeeps ==
  ASSUME NEW d \in DmcType
  PROVE  /\ cycle_timer(d).bytes_remaining = d.bytes_remaining
         /\ cycle_timer(d).irq_flag = d.irq_flag
         /\ cycle_timer(d).irq_enable = d.irq_enable
         /\ cycle_timer(d).irq_pending = d.irq_pending
         /\ cycle_timer(d).loop_flag = d.loop_flag
         /\ cycle_timer(d).sample_length = d.sample_length
         /\ cycle_timer(d).sample_address = d.sample_address
         /\ cycle_timer(d).current_address = d.current_address
<1> DEFINE t == [d EXCEPT !.timer = d.timer_reload]
           s == [t EXCEPT !.output         = LevelAfter(t),
                          !.shift_register = @ \div 2,
                          !.bits_remaining = @ - 1]
           Kept(e) == /\ e.bytes_remaining = d.bytes_remaining
                      /\ e.irq_flag = d.irq_flag
                      /\ e.irq_enable = d.irq_enable
                      /\ e.irq_pending = d.irq_pending
                      /\ e.loop_flag = d.loop_flag
                      /\ e.sample_length = d.sample_length
                      /\ e.sample_address = d.sample_address
                      /\ e.current_address = d.current_address
<1>1. Kept(s) /\ Kept(start_output_cycle(s))
  BY DEF start_output_cycle, DmcType
<1>2. clock_output(t) = s \/ clock_output(t) = start_output_cycle(s)
  BY DEF clock_output
<1>3. Kept(clock_output(t))
  BY <1>1, <1>2
<1>4. Kept([d EXCEPT !.timer = @ - 1])
  BY DEF DmcType
<1> QED BY <1>3, <1>4 DEF cycle_timer

(* A byte the reader has fetched fills the buffer, and the interrupt flag  *)
(* goes up only with nothing left to read.                                 *)
LEMMA CompleteFetchGives ==
  ASSUME NEW d \in DmcType, WantsByte(d), NEW byte \in SampleBytes
  PROVE  LET f == complete_fetch(d, byte) IN
         /\ f.sample_buffer.full
         /\ f.irq_enable = d.irq_enable
         /\ d.irq_flag => f.irq_flag
         /\ f.irq_pending => d.irq_pending \/ f.irq_flag
         /\ f.irq_flag /\ ~d.irq_flag =>
              f.irq_pending /\ f.irq_enable /\ ~active(f)
         /\ f.irq_pending /\ ~d.irq_pending => f.irq_flag
<1>1. d.bytes_remaining \in Nat
  BY DEF DmcType
<1> QED BY <1>1 DEF complete_fetch, Holding, active, WantsByte, DmcType
=============================================================================
