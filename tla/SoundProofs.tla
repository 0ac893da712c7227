---------------------------- MODULE SoundProofs ----------------------------
(***************************************************************************)
(* Theorems about the sound.  Of Sound, for every width of a period and of *)
(* the shift register, every rate of the samples and everything the        *)
(* program writes: a sweep stays within the period, the noise is never     *)
(* dead, and the samples keep time with the dots.  Of Apu, which shares no *)
(* state with it, for every choice of steps, volumes and lengths: the      *)
(* frame counter stays within its sequence, and the frame flag comes up at *)
(* the end of a four-step sequence that is not inhibited and at no other   *)
(* time.                                                                   *)
(*                                                                         *)
(* The provers know no power of two but the small ones they can work out.  *)
(* That a power is positive, and twice the one before it, is proved here   *)
(* from the sets whose size it is.                                         *)
(***************************************************************************)
EXTENDS Sound, Apu, FiniteSetTheorems, TLAPS

-----------------------------------------------------------------------------
(* Arithmetic.  Quotient and remainder are unique. *)
LEMMA QuotientIs ==
  ASSUME NEW n \in Int, NEW d \in Nat \ {0}, NEW q \in Int, NEW r \in Int,
         n = d * q + r, 0 <= r, r < d
  PROVE  n \div d = q /\ n % d = r
<1>1. /\ n = d * (n \div d) + (n % d) /\ 0 <= n % d /\ n % d < d
      /\ n \div d \in Int /\ n % d \in Int
  OBVIOUS
<1>2. d * (q - (n \div d)) = (n % d) - r
  BY <1>1
<1>3. ~(q - (n \div d) >= 1)
  BY <1>1, <1>2
<1>4. ~(q - (n \div d) <= -1)
  BY <1>1, <1>2
<1> QED BY <1>1, <1>3, <1>4

(* A power of two is the number of the subsets of a set. *)
LEMMA PowerCounts ==
  ASSUME NEW n \in Nat
  PROVE  /\ IsFiniteSet(SUBSET (1 .. n))
         /\ 2 ^ n = Cardinality(SUBSET (1 .. n))
         /\ 2 ^ n \in Nat \ {0}
<1>1. IsFiniteSet(1 .. n) /\ Cardinality(1 .. n) = n
  BY FS_Interval
<1>2. IsFiniteSet(SUBSET (1 .. n)) /\ Cardinality(SUBSET (1 .. n)) = 2 ^ n
  BY <1>1, FS_SUBSET
<1>3. Cardinality(SUBSET (1 .. n)) \in Nat
  BY <1>2, FS_CardinalityType
<1>4. Cardinality(SUBSET (1 .. n)) # 0
  <2>1. SUBSET (1 .. n) # {}
    OBVIOUS
  <2> QED BY <1>2, <2>1, FS_EmptySet
<1> QED BY <1>2, <1>3, <1>4

(* Half of the subsets leave the last element out. *)
LEMMA PowerDoubles ==
  ASSUME NEW n \in Nat
  PROVE  2 ^ (n + 1) = 2 * 2 ^ n
<1> DEFINE A == SUBSET (1 .. n)
           B == {a \cup {n + 1} : a \in A}
           f == [a \in A |-> a \cup {n + 1}]
<1>1. SUBSET (1 .. n + 1) = A \cup B
  <2>1. ASSUME NEW s \in SUBSET (1 .. n + 1), n + 1 \in s
        PROVE  s \in B
    <3>1. s \ {n + 1} \in A
      OBVIOUS
    <3>2. s = (s \ {n + 1}) \cup {n + 1}
      BY <2>1
    <3> QED BY <3>1, <3>2
  <2>2. ASSUME NEW s \in SUBSET (1 .. n + 1), n + 1 \notin s
        PROVE  s \in A
    BY <2>2
  <2>3. A \subseteq SUBSET (1 .. n + 1)
    OBVIOUS
  <2>4. B \subseteq SUBSET (1 .. n + 1)
    <3>1. 1 .. n \subseteq 1 .. n + 1 /\ n + 1 \in 1 .. n + 1
      OBVIOUS
    <3> DEFINE N == 1 .. n + 1
               e == n + 1
    <3>2. N = 1 .. n + 1 /\ B = {a \cup {e} : a \in SUBSET (1 .. n)}
      OBVIOUS
    <3>3. 1 .. n \subseteq N /\ e \in N
      BY <3>1
    <3> HIDE DEF N, e, B
    <3>4. B \subseteq SUBSET N
      BY <3>2, <3>3
    <3> QED BY <3>2, <3>4
  <2> HIDE DEF A, B
  <2> QED BY <2>1, <2>2, <2>3, <2>4
<1>2. A \cap B = {}
  OBVIOUS
<1>3. ExistsBijection(A, B)
  <2>1. \A a, b \in A : f[a] = f[b] => a = b
    <3> SUFFICES ASSUME NEW a \in A, NEW b \in A, f[a] = f[b]
                 PROVE  a = b
      OBVIOUS
    <3>1. n + 1 \notin a /\ n + 1 \notin b
      OBVIOUS
    <3>2. a \cup {n + 1} = b \cup {n + 1}
      OBVIOUS
    <3> HIDE DEF A, f
    <3> QED BY <3>1, <3>2
  <2>2. f \in [A -> B] /\ \A t \in B : \E a \in A : f[a] = t
    OBVIOUS
  <2> HIDE DEF f, A, B
  <2>3. f \in Bijection(A, B)
    BY <2>1, <2>2 DEF Bijection, Injection, Surjection, IsInjective
  <2> QED BY <2>3 DEF ExistsBijection
<1>4. IsFiniteSet(A) /\ 2 ^ n = Cardinality(A) /\ 2 ^ n \in Nat
  BY PowerCounts
<1> HIDE DEF A, B
<1>5. IsFiniteSet(B) /\ Cardinality(B) = Cardinality(A)
  BY <1>3, <1>4, FS_Bijection
<1>6. Cardinality(A \cup B) = Cardinality(A) + Cardinality(B) - Cardinality({})
  BY <1>2, <1>4, <1>5, FS_Union
<1>7. Cardinality({}) = 0
  BY FS_EmptySet
<1>8. 2 ^ (n + 1) = Cardinality(A \cup B)
  BY <1>1, PowerCounts
<1> QED BY <1>4, <1>5, <1>6, <1>7, <1>8

LEMMA PowerGrows ==
  ASSUME NEW n \in Nat \ {0}
  PROVE  /\ 2 ^ (n - 1) \in Nat \ {0} /\ 2 ^ n = 2 * 2 ^ (n - 1)
         /\ 2 ^ n >= 2 /\ 2 ^ n \in Nat
<1>1. n - 1 \in Nat /\ (n - 1) + 1 = n
  OBVIOUS
<1>2. 2 ^ (n - 1) \in Nat \ {0} /\ 2 ^ ((n - 1) + 1) = 2 * 2 ^ (n - 1)
  BY <1>1, PowerCounts, PowerDoubles
<1> QED BY <1>1, <1>2

(* A number is at least halved by a power of two that is not the first. *)
LEMMA Halved ==
  ASSUME NEW t \in Nat, NEW s \in Nat \ {0}
  PROVE  /\ t \div 2 ^ s \in Nat /\ 2 * (t \div 2 ^ s) <= t
<1> DEFINE w == 2 ^ s
           q == t \div w
<1>1. w \in Nat /\ w >= 2
  BY PowerGrows
<1> HIDE DEF w
<1>2. q \in Int /\ t % w \in 0 .. w - 1 /\ t = w * q + (t % w)
  BY <1>1
<1> HIDE DEF q
<1>3. q >= 0
  <2>1. CASE q <= -1
    <3>1. w * q <= w * (-1)
      BY <1>1, <1>2, <2>1
    <3> QED BY <1>1, <1>2, <3>1
  <2> QED BY <1>2, <2>1
<1>4. w * q >= 2 * q
  BY <1>1, <1>2, <1>3
<1> QED BY <1>1, <1>2, <1>3, <1>4 DEF q, w

-----------------------------------------------------------------------------
(* The inductive invariant.  What a pulse and the noise hold, and how many *)
(* dots the accumulator stands for: those of the samples taken so far and  *)
(* what it has gained since, in this state and in the saved one.           *)
Periods == 0 .. PERIODS - 1

PulseType ==
  [id : {1, 2}, step : 0 .. STEPS - 1, timer : Periods, timer_reload : Periods,
   sweep_timer : {0} \cup UNION {0 .. r : r \in Reloads},
   sweep_negate : BOOLEAN, sweep_reload : {0} \cup Reloads,
   sweep_shift : {0} \cup Shifts, sweep_enabled : BOOLEAN,
   sweep_reload_flag : BOOLEAN]

NoiseType ==
  [lfsr : 1 .. 2 ^ WIDTH - 1, mode : BOOLEAN,
   timer : {0} \cup UNION {0 .. p : p \in NoisePeriods},
   timer_reload : {0} \cup NoisePeriods]

Counted(accumulator, d, s) ==
  /\ accumulator \in 0 .. SAMPLE_THRESHOLD - 1 /\ d \in Nat /\ s \in Nat
  /\ d * emulator.sample_rate = s * SAMPLE_THRESHOLD + accumulator

SavedCounted ==
  saved = <<>> \/ \E accumulator, d, s \in Nat :
    /\ saved = <<[sample_accumulator |-> accumulator, dots |-> d, samples |-> s]>>
    /\ Counted(accumulator, d, s)

SamplesInv ==
  /\ emulator \in [sample_rate : SampleRates, sample_accumulator : Nat]
  /\ Counted(emulator.sample_accumulator, dots, samples)
  /\ SavedCounted

IInv == pulse \in PulseType /\ noise \in NoiseType /\ SamplesInv

-----------------------------------------------------------------------------
(* The pulse. *)
LEMMA NewPulseType ==
  ASSUME NEW id \in {1, 2}
  PROVE  NewPulse(id) \in PulseType
<1>1. 0 \in Periods /\ 0 \in 0 .. STEPS - 1
  BY PulseAssumption DEF Periods
<1> QED BY <1>1 DEF NewPulse, PulseType

(* What a sweep leaves is a period (pulse.rs:128-146): upwards because a   *)
(* target beyond the periods is mute, downwards because a period that is   *)
(* not mute is more than its half and the 1 that pulse 1 takes besides.    *)
LEMMA SweptWithin ==
  ASSUME NEW p \in PulseType
  PROVE  Swept(p) \in Periods
<1> DEFINE t == p.timer_reload
           a == t \div 2 ^ p.sweep_shift
<1>1. /\ t \in Nat /\ t \in Periods /\ PERIODS \in Nat
      /\ LOWEST \in Nat /\ LOWEST >= 1
  BY PulseAssumption DEF PulseType, Periods
<1>2. CASE p.sweep_enabled /\ p.sweep_shift > 0 /\ ~sweep_muting(p)
  <2>1. p.sweep_shift \in Nat \ {0}
    <3>1. p.sweep_shift \in {0} \cup Shifts
      BY DEF PulseType
    <3>2. {0} \cup Shifts \subseteq Nat
      BY SoundAssumption
    <3> QED BY <1>2, <3>1, <3>2
  <2>2. a \in Nat /\ 2 * a <= t
    BY <1>1, <2>1, Halved
  <2>3. t >= LOWEST /\ sweep_target(p) < PERIODS
    <3>1. sweep_target(p) \in Int
      <4> HIDE DEF t, a
      <4>1. t + a \in Int /\ t - a - 1 \in Int /\ t - a - 0 \in Int
        BY <1>1, <2>2
      <4> QED BY <4>1 DEF sweep_target, t, a
    <3> QED BY <1>1, <1>2, <3>1 DEF sweep_muting
  <2>4. sweep_target(p) \in Int /\ sweep_target(p) >= 0
    <3>1. \/ sweep_target(p) = t + a
          \/ sweep_target(p) = t - a - 1
          \/ sweep_target(p) = t - a - 0
      BY DEF sweep_target
    <3> HIDE DEF t, a
    <3> QED BY <1>1, <2>2, <2>3, <3>1
  <2> QED BY <1>1, <1>2, <2>3, <2>4 DEF Swept, Periods
<1>3. CASE ~(p.sweep_enabled /\ p.sweep_shift > 0 /\ ~sweep_muting(p))
  <2>1. Swept(p) = t
    BY <1>3 DEF Swept
  <2> QED BY <1>1, <2>1
<1> QED BY <1>2, <1>3

(* A counter that is not at 0 goes down within the same bounds. *)
LEMMA Down ==
  ASSUME NEW S \in SUBSET Nat, NEW n \in {0} \cup UNION {0 .. r : r \in S}, n # 0
  PROVE  n - 1 \in {0} \cup UNION {0 .. r : r \in S}
<1>1. PICK r \in S : n \in 0 .. r
  OBVIOUS
<1>2. n - 1 \in 0 .. r
  BY <1>1
<1> QED BY <1>2

LEMMA CycleSweepType ==
  ASSUME NEW p \in PulseType
  PROVE  cycle_sweep(p) \in PulseType
<1> DEFINE T == {0} \cup UNION {0 .. r : r \in Reloads}
           v == IF p.sweep_timer = 0 THEN Swept(p) ELSE p.timer_reload
           w == IF p.sweep_timer = 0 \/ p.sweep_reload_flag
                THEN p.sweep_reload ELSE p.sweep_timer - 1
<1>1. v \in Periods
  BY SweptWithin DEF PulseType
<1>2. w \in T
  <2>1. p.sweep_reload \in T
    <3>1. p.sweep_reload \in {0} \cup Reloads
      BY DEF PulseType
    <3>2. \A r \in Reloads : r \in 0 .. r
      BY SoundAssumption
    <3> QED BY <3>1, <3>2
  <2>2. p.sweep_timer \in T
    BY DEF PulseType
  <2>3. p.sweep_timer # 0 => p.sweep_timer - 1 \in T
    <3>1. Reloads \in SUBSET Nat
      BY SoundAssumption
    <3> QED BY <2>2, <3>1, Down
  <2> HIDE DEF T
  <2> QED BY <2>1, <2>3
<1>3. cycle_sweep(p) = [p EXCEPT !.timer_reload = v, !.sweep_timer = w,
                                 !.sweep_reload_flag = FALSE]
  BY DEF cycle_sweep
<1> HIDE DEF v, w
<1> QED BY <1>1, <1>2, <1>3 DEF PulseType

LEMMA CyclePulseType ==
  ASSUME NEW p \in PulseType
  PROVE  cycle_timer(p) \in PulseType
<1>1. STEPS \in Nat \ {0} /\ p.step \in Nat /\ p.timer \in Nat
  BY PulseAssumption DEF PulseType, Periods
<1>2. (p.step + 1) % STEPS \in 0 .. STEPS - 1
  BY <1>1
<1>3. p.timer > 0 => p.timer - 1 \in Periods
  BY <1>1, PulseAssumption DEF PulseType, Periods
<1> QED BY <1>2, <1>3 DEF cycle_timer, PulseType

LEMMA WriteSweepType ==
  ASSUME NEW p \in PulseType, NEW on \in BOOLEAN, NEW negate \in BOOLEAN,
         NEW reload \in Reloads, NEW shift \in Shifts
  PROVE  write_sweep(p, on, negate, reload, shift) \in PulseType
BY DEF write_sweep, PulseType

(* A period is written in two parts, and is one of the periods after each  *)
(* of them, whatever a sweep has made of it between (pulse.rs:105-120).    *)
LEMMA WriteLowType ==
  ASSUME NEW p \in PulseType, NEW data \in Lows
  PROVE  write_lo(p, data) \in PulseType
<1> DEFINE t == p.timer_reload
           q == t \div LOW
           k == PERIODS \div LOW
           v == t - (t % LOW) + data
<1>1. /\ t \in Int /\ 0 <= t /\ t < PERIODS /\ PERIODS \in Int
      /\ LOW \in Nat \ {0} /\ data \in Int /\ 0 <= data /\ data < LOW
  BY PulseAssumption, SoundAssumption DEF PulseType, Periods
<1>2. PERIODS = LOW * k /\ k \in Int
  <2>1. PERIODS % LOW = 0
    BY PulseAssumption
  <2> QED BY <1>1, <2>1
<1>3. q \in Int /\ t = LOW * q + (t % LOW) /\ 0 <= t % LOW /\ t % LOW < LOW
      /\ t % LOW \in Int
  <2>1. t \in Int /\ LOW \in Nat \ {0}
    BY <1>1
  <2> HIDE DEF t
  <2> QED BY <2>1
<1> HIDE DEF t, q, k
<1>4. q >= 0
  BY <1>1, <1>3
<1>5. q < k
  BY <1>1, <1>2, <1>3
<1>6. LOW * q + LOW <= LOW * k /\ LOW * q >= 0 /\ LOW * q \in Int
  <2>1. LOW * (q + 1) <= LOW * k
    BY <1>1, <1>2, <1>3, <1>5
  <2> QED BY <1>1, <1>3, <1>4, <2>1
<1>7. v = LOW * q + data
  BY <1>1, <1>3, <1>6
<1> HIDE DEF v
<1>8. v \in Periods
  BY <1>1, <1>2, <1>6, <1>7 DEF Periods
<1>9. write_lo(p, data) = [p EXCEPT !.timer_reload = v]
  BY DEF write_lo, t, v
<1> QED BY <1>8, <1>9 DEF PulseType

LEMMA WriteHighType ==
  ASSUME NEW p \in PulseType, NEW data \in Highs
  PROVE  write_hi(p, data) \in PulseType
<1> DEFINE r == p.timer_reload % LOW
           k == PERIODS \div LOW
           v == r + data * LOW
<1>1. PERIODS \in Int /\ LOW \in Nat \ {0} /\ p.timer_reload \in Int
  BY PulseAssumption DEF PulseType, Periods
<1>2. PERIODS = LOW * k /\ k \in Int
  <2>1. PERIODS % LOW = 0
    BY PulseAssumption
  <2> QED BY <1>1, <2>1
<1>3. r \in Int /\ 0 <= r /\ r < LOW
  BY <1>1
<1>4. data \in Int /\ 0 <= data /\ data < k
  BY <1>2, SoundAssumption
<1> HIDE DEF r, k
<1>5. LOW * (data + 1) <= LOW * k /\ LOW * data >= 0 /\ LOW * data \in Int
  BY <1>1, <1>2, <1>4
<1>6. v \in Periods
  BY <1>1, <1>2, <1>3, <1>4, <1>5 DEF Periods
<1>7. write_hi(p, data) = [p EXCEPT !.timer_reload = v, !.timer = v, !.step = 0]
  BY DEF write_hi, r
<1>8. 0 \in 0 .. STEPS - 1
  BY PulseAssumption
<1> HIDE DEF v
<1> QED BY <1>6, <1>7, <1>8 DEF PulseType

-----------------------------------------------------------------------------
(* The noise.  "Initialised to 1, since 0 is a dead state" (noise.rs:32):  *)
(* whichever of the two taps is used, what the register is shifted to is   *)
(* never 0, as the only register whose shift loses its last 1 feeds that 1 *)
(* back at the top (noise.rs:49-63).                                       *)
LEMMA ShiftedAlive ==
  ASSUME NEW n \in NoiseType
  PROVE  Shifted(n) \in 1 .. 2 ^ WIDTH - 1
<1> DEFINE x == n.lfsr
           top == 2 ^ (WIDTH - 1)
           tap == IF n.mode THEN SHORT ELSE LONG
           f == Feedback(Bit(x, 0), Bit(x, tap))
           h == x \div 2
<1>1. /\ WIDTH \in Nat \ {0} /\ tap \in Nat \ {0}
  BY NoiseAssumption
<1>2. top \in Nat /\ top >= 1 /\ 2 ^ WIDTH = 2 * top
  BY <1>1, PowerGrows
<1>3. x \in Int /\ 1 <= x /\ x < 2 * top
  BY <1>2 DEF NoiseType
<1>4. Bit(x, 0) = x % 2 /\ Bit(x, tap) \in {0, 1}
  <2>1. x \div 2 ^ 0 = x
    BY <1>3
  <2>2. 2 ^ tap \in Nat \ {0}
    BY <1>1, PowerCounts
  <2> DEFINE w == 2 ^ tap
  <2>3. x \div w \in Int
    <3> HIDE DEF w
    <3>1. w \in Nat \ {0}
      BY <2>2 DEF w
    <3> QED BY <1>3, <3>1
  <2> DEFINE v == x \div w
  <2>4. v % 2 \in {0, 1}
    <3> HIDE DEF v
    <3>1. v \in Int
      BY <2>3 DEF v
    <3> QED BY <3>1
  <2> QED BY <2>1, <2>4 DEF Bit
<1>5. f \in {0, 1}
  <2> DEFINE b == Bit(x, 0)
             c == Bit(x, tap)
  <2>1. b \in {0, 1} /\ c \in {0, 1}
    BY <1>3, <1>4
  <2> HIDE DEF b, c
  <2>2. (b + c) % 2 \in {0, 1}
    BY <2>1
  <2> QED BY <2>2 DEF Feedback, b, c
<1>6. x = 1 => f = 1
  <2> SUFFICES ASSUME x = 1
               PROVE  f = 1
    OBVIOUS
  <2>1. Bit(x, 0) = 1
    BY <1>4
  <2>2. Bit(x, tap) = 0
    <3> DEFINE w == 2 ^ tap
    <3>1. w \in Nat /\ w >= 2
      BY <1>1, PowerGrows
    <3> HIDE DEF w
    <3>2. 1 \div w = 0
      BY <3>1
    <3> QED BY <3>2 DEF Bit, w
  <2> QED BY <2>1, <2>2 DEF Feedback
<1>7. h \in Int /\ 0 <= h /\ h < top /\ (x >= 2 => h >= 1)
  <2> HIDE DEF top, x
  <2> QED BY <1>2, <1>3
<1>8. Shifted(n) = h + f * top
  BY DEF Shifted
<1> HIDE DEF f, h, top, x, tap
<1>9. f * top \in {0, top} /\ (f = 1 => f * top = top)
  BY <1>2, <1>5
<1>10. Shifted(n) \in Int /\ 1 <= Shifted(n) /\ Shifted(n) < 2 * top
  BY <1>2, <1>3, <1>5, <1>6, <1>7, <1>8, <1>9
<1> QED BY <1>2, <1>10

LEMMA CycleNoiseType ==
  ASSUME NEW n \in NoiseType
  PROVE  noise_cycle_timer(n) \in NoiseType
<1> DEFINE T == {0} \cup UNION {0 .. p : p \in NoisePeriods}
<1>1. n.timer \in T /\ (n.timer # 0 => n.timer - 1 \in T)
  <2>1. n.timer \in T
    BY DEF NoiseType
  <2>2. NoisePeriods \in SUBSET Nat
    BY SoundAssumption
  <2> QED BY <2>1, <2>2, Down
<1>2. n.timer_reload \in T
  <2>1. n.timer_reload \in {0} \cup NoisePeriods
    BY DEF NoiseType
  <2>2. \A p \in NoisePeriods : p \in 0 .. p
    BY SoundAssumption
  <2> QED BY <2>1, <2>2
<1>3. n.timer > 0 => n.timer # 0
  OBVIOUS
<1>4. NoiseType = [lfsr : 1 .. 2 ^ WIDTH - 1, mode : BOOLEAN, timer : T,
                   timer_reload : {0} \cup NoisePeriods]
  BY DEF NoiseType
<1> HIDE DEF T
<1> DEFINE x == Shifted(n)
           top == 2 ^ WIDTH - 1
<1>5. x \in 1 .. top
  BY ShiftedAlive
<1> HIDE DEF x, top
<1>6. NoiseType = [lfsr : 1 .. top, mode : BOOLEAN, timer : T,
                   timer_reload : {0} \cup NoisePeriods]
  BY <1>4 DEF top
<1>7. noise_cycle_timer(n) =
        IF n.timer > 0 THEN [n EXCEPT !.timer = n.timer - 1]
        ELSE [n EXCEPT !.timer = n.timer_reload, !.lfsr = x]
  BY DEF noise_cycle_timer, x
<1> QED BY <1>1, <1>2, <1>3, <1>5, <1>6, <1>7

LEMMA WriteModeType ==
  ASSUME NEW n \in NoiseType, NEW short \in BOOLEAN, NEW period \in NoisePeriods
  PROVE  write_mode(n, short, period) \in NoiseType
BY DEF write_mode, NoiseType

LEMMA NewNoiseType == NewNoise \in NoiseType
<1>1. 2 ^ WIDTH \in Nat /\ 2 ^ WIDTH >= 2
  BY NoiseAssumption, PowerGrows
<1> DEFINE top == 2 ^ WIDTH
<1> HIDE DEF top
<1>2. 1 \in 1 .. top - 1
  BY <1>1 DEF top
<1> QED BY <1>2 DEF NewNoise, NoiseType, top

-----------------------------------------------------------------------------
(* The samples.  One sample a dot is always enough, as the rate is at most *)
(* the dots of a second (emulator.rs:102-107).                             *)
LEMMA DotCounted ==
  ASSUME SamplesInv, CycleDot
  PROVE  SamplesInv'
<1> DEFINE a == emulator.sample_accumulator
           r == emulator.sample_rate
           T == SAMPLE_THRESHOLD
           v == IF a + r >= T THEN (a + r) - T ELSE a + r
<1>1. /\ emulator \in [sample_rate : SampleRates, sample_accumulator : Nat]
      /\ r \in Nat /\ r <= T /\ T \in Nat \ {0}
      /\ a \in Nat /\ a < T /\ dots \in Nat /\ samples \in Nat
      /\ dots * r = samples * T + a
  <2>1. /\ emulator \in [sample_rate : SampleRates, sample_accumulator : Nat]
        /\ r \in SampleRates
    BY DEF SamplesInv
  <2>2. SampleRates \subseteq 1 .. T /\ T \in Nat \ {0}
    BY SoundAssumption
  <2>3. Counted(a, dots, samples)
    BY DEF SamplesInv
  <2> HIDE DEF a
  <2>4. /\ a \in 0 .. T - 1 /\ dots \in Nat /\ samples \in Nat
        /\ dots * r = samples * T + a
    BY <2>3 DEF Counted
  <2> HIDE DEF r
  <2> QED BY <2>1, <2>2, <2>4
<1>2. /\ emulator' = [emulator EXCEPT !.sample_accumulator = v]
      /\ dots' = dots + 1 /\ saved' = saved
      /\ samples' = IF a + r >= T THEN samples + 1 ELSE samples
  <2>1. Rest(a + r) = (a + r) - T
    BY DEF Rest
  <2>2. /\ emulator' = [emulator EXCEPT !.sample_accumulator =
                          IF a + r >= T THEN Rest(a + r) ELSE a + r]
        /\ dots' = dots + 1 /\ saved' = saved
        /\ samples' = IF a + r >= T THEN samples + 1 ELSE samples
    BY DEF CycleDot
  <2>3. v = IF a + r >= T THEN Rest(a + r) ELSE a + r
    BY <2>1
  <2> HIDE DEF a, r, T, v
  <2> QED BY <2>2, <2>3, Zenon
<1>3. v \in Nat /\ v < T
  <2> HIDE DEF a, r
  <2> QED BY <1>1
<1>4. /\ emulator' \in [sample_rate : SampleRates, sample_accumulator : Nat]
      /\ emulator'.sample_rate = r /\ emulator'.sample_accumulator = v
  <2> HIDE DEF v, r
  <2>1. emulator'.sample_rate = emulator.sample_rate
    BY <1>1, <1>2
  <2> QED BY <1>1, <1>2, <1>3, <2>1 DEF r
<1>5. dots' * r = samples' * T + v
  <2> HIDE DEF a, r
  <2>1. (dots + 1) * r = dots * r + r /\ (samples + 1) * T = samples * T + T
    BY <1>1
  <2>2. samples * T \in Int /\ dots * r \in Int
    BY <1>1
  <2>3. CASE a + r >= T
    <3>1. v = (a + r) - T
      BY <2>3
    <3> QED BY <1>1, <1>2, <2>1, <2>2, <2>3, <3>1
  <2>4. CASE ~(a + r >= T)
    BY <1>1, <1>2, <2>1, <2>2, <2>4
  <2> QED BY <2>3, <2>4
<1>6. dots' \in Nat /\ samples' \in Nat
  BY <1>1, <1>2
<1> HIDE DEF v
<1>7. Counted(emulator.sample_accumulator, dots, samples)'
  BY <1>1, <1>3, <1>4, <1>5, <1>6 DEF Counted, r
<1>8. SavedCounted'
  BY <1>2, <1>4 DEF SamplesInv, SavedCounted, Counted, r
<1> QED BY <1>4, <1>7, <1>8 DEF SamplesInv

LEMMA SaveCounted ==
  ASSUME SamplesInv, SaveState
  PROVE  SamplesInv'
<1>1. /\ saved' = <<[sample_accumulator |-> emulator.sample_accumulator,
                     dots |-> dots, samples |-> samples]>>
      /\ UNCHANGED <<emulator, dots, samples>>
  BY DEF SaveState
<1>2. /\ Counted(emulator.sample_accumulator, dots, samples)
      /\ emulator.sample_accumulator \in Nat /\ dots \in Nat /\ samples \in Nat
  BY DEF SamplesInv, Counted
<1>3. SavedCounted'
  BY <1>1, <1>2 DEF SavedCounted, Counted
<1> QED BY <1>1, <1>3 DEF SamplesInv, Counted

(* A loaded state brings its accumulator back, and what it stands for.     *)
LEMMA LoadCounted ==
  ASSUME SamplesInv, LoadState
  PROVE  SamplesInv'
<1>1. /\ saved # <<>> /\ saved' = saved
      /\ emulator' = [emulator EXCEPT
                        !.sample_accumulator = saved[1].sample_accumulator]
      /\ dots' = saved[1].dots /\ samples' = saved[1].samples
  BY DEF LoadState
<1>2. PICK accumulator, d, s \in Nat :
        /\ saved = <<[sample_accumulator |-> accumulator, dots |-> d, samples |-> s]>>
        /\ Counted(accumulator, d, s)
  BY <1>1 DEF SamplesInv, SavedCounted
<1>3. saved[1] = [sample_accumulator |-> accumulator, dots |-> d, samples |-> s]
  BY <1>2
<1>4. /\ emulator' \in [sample_rate : SampleRates, sample_accumulator : Nat]
      /\ emulator'.sample_rate = emulator.sample_rate
      /\ emulator'.sample_accumulator = accumulator
      /\ dots' = d /\ samples' = s
  BY <1>1, <1>3 DEF SamplesInv
<1>5. SavedCounted'
  BY <1>1, <1>4 DEF SamplesInv, SavedCounted, Counted
<1> QED BY <1>2, <1>4, <1>5 DEF SamplesInv, Counted

LEMMA SamplesKept ==
  ASSUME SamplesInv, UNCHANGED <<emulator, dots, samples, saved>>
  PROVE  SamplesInv'
BY DEF SamplesInv, SavedCounted, Counted

-----------------------------------------------------------------------------
LEMMA InitIInv == Init => IInv
<1> SUFFICES ASSUME Init
             PROVE  IInv
  OBVIOUS
<1>1. pulse \in PulseType
  BY NewPulseType DEF Init
<1>2. noise \in NoiseType
  BY NewNoiseType DEF Init
<1>3. SamplesInv
  <2>1. /\ emulator \in [sample_rate : SampleRates, sample_accumulator : {0}]
        /\ dots = 0 /\ samples = 0 /\ saved = <<>>
    BY DEF Init
  <2>2. emulator.sample_accumulator = 0 /\ emulator.sample_rate \in Nat
    <3>1. emulator.sample_accumulator = 0 /\ emulator.sample_rate \in SampleRates
      BY <2>1
    <3>2. SampleRates \subseteq Nat
      BY SoundAssumption
    <3> QED BY <3>1, <3>2
  <2>3. 0 \in 0 .. SAMPLE_THRESHOLD - 1 /\ SAMPLE_THRESHOLD \in Nat
    BY SoundAssumption
  <2>4. Counted(emulator.sample_accumulator, dots, samples)
    BY <2>1, <2>2, <2>3 DEF Counted
  <2> QED BY <2>1, <2>4 DEF SamplesInv, SavedCounted
<1> QED BY <1>1, <1>2, <1>3 DEF IInv

LEMMA StepIInv == IInv /\ [Next]_vars => IInv'
<1> SUFFICES ASSUME IInv, [Next]_vars
             PROVE  IInv'
  OBVIOUS
<1>1. pulse \in PulseType /\ noise \in NoiseType /\ SamplesInv
  BY DEF IInv
<1>2. ASSUME NEW p \in PulseType, OfPulse(p)
      PROVE  IInv'
  BY <1>1, <1>2, SamplesKept DEF IInv, OfPulse
<1>3. ASSUME NEW n \in NoiseType, OfNoise(n)
      PROVE  IInv'
  BY <1>1, <1>3, SamplesKept DEF IInv, OfNoise
<1>4. ASSUME SamplesInv', UNCHANGED <<pulse, noise>>
      PROVE  IInv'
  BY <1>1, <1>4 DEF IInv
<1>5. CASE CycleTimer
  BY <1>1, <1>2, <1>5, CyclePulseType DEF CycleTimer
<1>6. CASE HalfFrame
  BY <1>1, <1>2, <1>6, CycleSweepType DEF HalfFrame
<1>7. CASE WriteSweep
  BY <1>1, <1>2, <1>7, WriteSweepType DEF WriteSweep
<1>8. CASE WriteLow
  BY <1>1, <1>2, <1>8, WriteLowType DEF WriteLow
<1>9. CASE WriteHigh
  BY <1>1, <1>2, <1>9, WriteHighType DEF WriteHigh
<1>10. CASE CycleNoise
  <2>1. CASE OfNoise(noise_cycle_timer(noise))
    BY <1>1, <1>3, <2>1, CycleNoiseType
  <2>2. ASSUME NEW short \in BOOLEAN, NEW period \in NoisePeriods,
               OfNoise(noise_cycle_timer(write_mode(noise, short, period)))
        PROVE  IInv'
    <3>1. write_mode(noise, short, period) \in NoiseType
      BY <1>1, WriteModeType
    <3> QED BY <1>3, <2>2, <3>1, CycleNoiseType
  <2> QED BY <1>10, <2>1, <2>2 DEF CycleNoise
<1>11. CASE CycleDot
  BY <1>1, <1>4, <1>11, DotCounted DEF CycleDot
<1>12. CASE SaveState
  BY <1>1, <1>4, <1>12, SaveCounted DEF SaveState
<1>13. CASE LoadState
  BY <1>1, <1>4, <1>13, LoadCounted DEF LoadState
<1>14. CASE UNCHANGED vars
  BY <1>1, <1>4, <1>14, SamplesKept DEF vars
<1> QED BY <1>5, <1>6, <1>7, <1>8, <1>9, <1>10, <1>11, <1>12, <1>13, <1>14
        DEF Next, Clocks

(* Every state is within the invariant: the records of the channels have   *)
(* their types, and the accumulator stands for the dots since the last     *)
(* sample, also in the saved state (pulse.rs, noise.rs, emulator.rs).      *)
THEOREM SoundInvariant == Spec => []IInv
<1>1. Init => IInv
  BY InitIInv
<1>2. IInv /\ [Next]_vars => IInv'
  BY StepIInv
<1> QED BY <1>1, <1>2, PTL DEF Spec

(* The period stays within its bits under every sweep and every order of   *)
(* writes (pulse.rs:105-146), the noise never comes to the dead state 0    *)
(* (noise.rs:32), and one sample a dot keeps the accumulator below the     *)
(* dots of a second (emulator.rs:102-107).                                 *)
THEOREM SoundTypeCorrect == Spec => []TypeOK
<1>1. IInv => TypeOK
  BY DEF IInv, TypeOK, PulseType, NoiseType, Periods, SamplesInv, Counted
<1> QED BY <1>1, SoundInvariant, PTL

(* The sound keeps time to the dot: after any number of dots, and whatever *)
(* states have been loaded, there have been as many samples as the rate    *)
(* asks for (emulator.rs:13-16 and 102-107).                               *)
THEOREM SoundKeepsTime == Spec => []NoDrift
<1>1. ASSUME SamplesInv
      PROVE  NoDrift
  <2> DEFINE n == dots * emulator.sample_rate
             a == emulator.sample_accumulator
  <2>1. /\ SAMPLE_THRESHOLD \in Nat \ {0} /\ samples \in Int
        /\ n \in Int /\ a \in Int /\ 0 <= a /\ a < SAMPLE_THRESHOLD
        /\ n = SAMPLE_THRESHOLD * samples + a
    BY <1>1, SoundAssumption DEF SamplesInv, Counted
  <2> HIDE DEF n, a
  <2>2. n \div SAMPLE_THRESHOLD = samples
    BY <2>1, QuotientIs
  <2> QED BY <2>2 DEF NoDrift, n
<1> QED BY <1>1, SoundInvariant, PTL DEF IInv

-----------------------------------------------------------------------------
(* The frame counter. *)
USE ApuAssumption, RegistersAssumption

-----------------------------------------------------------------------------
(* The records. *)
ToneType ==
  [ length : Nat, length_enabled : BOOLEAN, volume : 0 .. VOLUME,
    envelope_start : BOOLEAN, envelope_timer : Nat,
    envelope_timer_reload : Nat, envelope_loop : BOOLEAN ]

TriangleType ==
  [ length : Nat, length_enabled : BOOLEAN, halt : BOOLEAN,
    linear_counter : Nat, linear_reload : Nat, linear_reload_flag : BOOLEAN ]

ApuType ==
  [ mode : {"FourStep", "FiveStep"}, irq_inhibit : BOOLEAN,
    frame_interrupt : BOOLEAN, frame : Nat, odd : BOOLEAN,
    tone : ToneType, triangle : TriangleType ]

(* The sequence is in range and an inhibited flag is down. *)
InSequence(a) == a.frame < LastStep(a)
FlagIsDown(a) == a.irq_inhibit => ~a.frame_interrupt

ApuOK(a) == a \in ApuType /\ InSequence(a) /\ FlagIsDown(a)

(* The part of the record that the counters' clocks leave alone. *)
SameSequence(a, b) ==
  /\ b.mode = a.mode /\ b.irq_inhibit = a.irq_inhibit
  /\ b.frame_interrupt = a.frame_interrupt /\ b.frame = a.frame /\ b.odd = a.odd

ApuInv == ApuOK(apu) /\ enabled \subseteq {"tone", "triangle"}

-----------------------------------------------------------------------------
(* The clocks of the channels keep the records well formed. *)
LEMMA EnvelopeType ==
  ASSUME NEW t \in ToneType
  PROVE  cycle_envelope(t) \in ToneType
<1> DEFINE volume == IF t.volume > 0 THEN t.volume - 1
                     ELSE IF t.envelope_loop THEN VOLUME ELSE 0
<1>1. CASE t.envelope_start
  <2>1. VOLUME \in 0 .. VOLUME /\ FALSE \in BOOLEAN
    OBVIOUS
  <2> QED BY <1>1, <2>1 DEF cycle_envelope, ToneType
<1>2. CASE ~t.envelope_start /\ t.envelope_timer > 0
  <2>1. t.envelope_timer - 1 \in Nat
    BY <1>2 DEF ToneType
  <2> QED BY <1>2, <2>1 DEF cycle_envelope, ToneType
<1>3. CASE ~t.envelope_start /\ ~(t.envelope_timer > 0)
  <2>1. volume \in 0 .. VOLUME
    BY DEF ToneType
  <2>2. cycle_envelope(t) = [t EXCEPT !.envelope_timer = t.envelope_timer_reload,
                                      !.volume = volume]
    BY <1>3 DEF cycle_envelope
  <2> HIDE DEF volume
  <2> QED BY <2>1, <2>2 DEF ToneType
<1> QED BY <1>1, <1>2, <1>3

LEMMA LengthType ==
  ASSUME NEW t \in ToneType
  PROVE  tone_cycle_length(t) \in ToneType
<1>1. CASE t.length_enabled /\ t.length > 0
  <2>1. t.length - 1 \in Nat
    BY <1>1 DEF ToneType
  <2> QED BY <1>1, <2>1 DEF tone_cycle_length, ToneType
<1>2. CASE ~(t.length_enabled /\ t.length > 0)
  BY <1>2 DEF tone_cycle_length
<1> QED BY <1>1, <1>2

LEMMA LinearType ==
  ASSUME NEW t \in TriangleType
  PROVE  cycle_linear(t) \in TriangleType
<1> DEFINE counter == IF t.linear_reload_flag THEN t.linear_reload
                      ELSE IF t.linear_counter > 0 THEN t.linear_counter - 1 ELSE 0
           flag    == t.linear_reload_flag /\ t.halt
<1>1. counter \in Nat
  BY DEF TriangleType
<1>2. flag \in BOOLEAN
  OBVIOUS
<1>3. cycle_linear(t) = [t EXCEPT !.linear_counter = counter,
                                  !.linear_reload_flag = flag]
  BY DEF cycle_linear
<1> HIDE DEF counter, flag
<1> QED BY <1>1, <1>2, <1>3 DEF TriangleType

LEMMA TriangleLengthType ==
  ASSUME NEW t \in TriangleType
  PROVE  triangle_cycle_length(t) \in TriangleType
<1>1. CASE ~t.halt /\ t.length > 0
  <2>1. t.length - 1 \in Nat
    BY <1>1 DEF TriangleType
  <2> QED BY <1>1, <2>1 DEF triangle_cycle_length, TriangleType
<1>2. CASE ~(~t.halt /\ t.length > 0)
  BY <1>2 DEF triangle_cycle_length
<1> QED BY <1>1, <1>2

LEMMA QuarterType ==
  ASSUME NEW a \in ApuType
  PROVE  tick_quarter_frame(a) \in ApuType /\ SameSequence(a, tick_quarter_frame(a))
<1>1. cycle_envelope(a.tone) \in ToneType /\ cycle_linear(a.triangle) \in TriangleType
  BY EnvelopeType, LinearType DEF ApuType
<1> QED BY <1>1 DEF tick_quarter_frame, ApuType, SameSequence

LEMMA HalfType ==
  ASSUME NEW a \in ApuType
  PROVE  tick_half_frame(a) \in ApuType /\ SameSequence(a, tick_half_frame(a))
<1>1. /\ tone_cycle_length(a.tone) \in ToneType
      /\ triangle_cycle_length(a.triangle) \in TriangleType
  BY LengthType, TriangleLengthType DEF ApuType
<1> QED BY <1>1 DEF tick_half_frame, ApuType, SameSequence

(* Clocking the sequence: it moves on by one, ends at its last step, and   *)
(* the flag comes up there only.                                           *)
LEMMA SequenceOK ==
  ASSUME NEW a, a \in ApuType, a.frame <= LastStep(a), FlagIsDown(a)
  PROVE  /\ ApuOK(cycle_frame(a))
         /\ cycle_frame(a).frame = IF a.frame = LastStep(a) THEN 0 ELSE a.frame
         /\ cycle_frame(a).mode = a.mode
         /\ ~a.frame_interrupt /\ cycle_frame(a).frame_interrupt =>
              a.mode = "FourStep" /\ a.frame = STEP_4
<1> DEFINE quartered == IF IsQuarter(a) THEN tick_quarter_frame(a) ELSE a
           halved    == IF IsHalf(a) THEN tick_half_frame(quartered) ELSE quartered
<1>1. quartered \in ApuType /\ SameSequence(a, quartered)
  BY QuarterType DEF SameSequence
<1>2. halved \in ApuType /\ SameSequence(a, halved)
  BY <1>1, HalfType DEF SameSequence
<1> HIDE DEF quartered
<1>3. cycle_frame(a) = IF a.frame = LastStep(a) THEN EndSequence(halved) ELSE halved
  BY DEF cycle_frame, quartered
<1> HIDE DEF halved
<1>4. LastStep(a) \in Nat \ {0} /\ (a.mode = "FourStep" => LastStep(a) = STEP_4)
  BY DEF LastStep
<1>5. LastStep(halved) = LastStep(a)
  BY <1>2 DEF LastStep, SameSequence
<1>6. CASE a.frame = LastStep(a)
  <2>1. cycle_frame(a) = EndSequence(halved)
    BY <1>3, <1>6
  <2>2. /\ EndSequence(halved) \in ApuType /\ EndSequence(halved).frame = 0
        /\ EndSequence(halved).mode = a.mode
        /\ EndSequence(halved).irq_inhibit = a.irq_inhibit
        /\ EndSequence(halved).frame_interrupt =
             (a.frame_interrupt \/ (a.mode = "FourStep" /\ ~a.irq_inhibit))
    BY <1>2 DEF EndSequence, ApuType, SameSequence
  <2>3. LastStep(EndSequence(halved)) = LastStep(a)
    BY <2>2 DEF LastStep
  <2>4. FlagIsDown(EndSequence(halved))
    BY <2>2 DEF FlagIsDown
  <2>5. InSequence(EndSequence(halved))
    BY <1>4, <2>2, <2>3 DEF InSequence
  <2>6. ~a.frame_interrupt /\ EndSequence(halved).frame_interrupt => a.mode = "FourStep"
    BY <2>2
  <2> QED BY <1>4, <1>6, <2>1, <2>2, <2>4, <2>5, <2>6 DEF ApuOK
<1>7. CASE a.frame # LastStep(a)
  <2>1. a.frame < LastStep(a)
    BY <1>4, <1>7 DEF ApuType
  <2> QED BY <1>2, <1>3, <1>5, <1>7, <2>1
          DEF ApuOK, InSequence, FlagIsDown, SameSequence
<1> QED BY <1>6, <1>7

(* One CPU cycle. *)
LEMMA ApuCycleOK ==
  ASSUME NEW a, ApuOK(a)
  PROVE  /\ ApuOK(cycle(a))
         /\ ~a.frame_interrupt /\ cycle(a).frame_interrupt =>
              /\ a.mode = "FourStep" /\ a.frame = STEP_4 - 1
              /\ cycle(a).mode = "FourStep" /\ cycle(a).frame = 0
<1> DEFINE clocked == [a EXCEPT !.odd = ~@]
           moved   == [clocked EXCEPT !.frame = @ + 1]
<1>1. a \in ApuType /\ a.frame < LastStep(a) /\ FlagIsDown(a)
  BY DEF ApuOK, InSequence
<1>2. /\ clocked \in ApuType /\ clocked.frame = a.frame /\ clocked.mode = a.mode
      /\ clocked.irq_inhibit = a.irq_inhibit
      /\ clocked.frame_interrupt = a.frame_interrupt
  BY <1>1 DEF ApuType
<1>3. /\ moved \in ApuType /\ moved.frame = a.frame + 1 /\ moved.mode = a.mode
      /\ moved.irq_inhibit = a.irq_inhibit
      /\ moved.frame_interrupt = a.frame_interrupt
  <2>1. clocked.frame + 1 \in Nat
    BY <1>2 DEF ApuType
  <2> HIDE DEF clocked
  <2> QED BY <1>2, <2>1 DEF ApuType
<1> HIDE DEF moved
<1>4. cycle(a) = IF clocked.odd THEN clocked ELSE cycle_frame(moved)
  BY DEF cycle, moved
<1> HIDE DEF clocked
<1>5. LastStep(clocked) = LastStep(a) /\ LastStep(moved) = LastStep(a)
  BY <1>2, <1>3 DEF LastStep
<1>6. CASE clocked.odd
  BY <1>1, <1>2, <1>4, <1>5, <1>6 DEF ApuOK, InSequence, FlagIsDown
<1>7. CASE ~clocked.odd
  <2>1. moved.frame <= LastStep(moved) /\ FlagIsDown(moved)
    <3>1. a.frame \in Nat /\ LastStep(a) \in Nat
      BY <1>1 DEF ApuType, LastStep
    <3> QED BY <1>1, <1>3, <1>5, <3>1 DEF FlagIsDown
  <2>2. /\ ApuOK(cycle_frame(moved))
        /\ cycle_frame(moved).mode = moved.mode
        /\ cycle_frame(moved).frame = IF moved.frame = LastStep(moved) THEN 0
                                      ELSE moved.frame
        /\ ~moved.frame_interrupt /\ cycle_frame(moved).frame_interrupt =>
             moved.mode = "FourStep" /\ moved.frame = STEP_4
    BY <1>3, <2>1, SequenceOK
  <2>3. moved.mode = "FourStep" => LastStep(moved) = STEP_4
    BY DEF LastStep
  <2>4. a.frame \in Nat
    BY <1>1 DEF ApuType
  <2> QED BY <1>3, <1>4, <1>7, <2>2, <2>3, <2>4
<1> QED BY <1>6, <1>7

-----------------------------------------------------------------------------
(* A register leaves a good APU good, does not raise the flag, and moves   *)
(* the sequence to its beginning or not at all.                            *)
Kept(a, b) ==
  /\ ApuOK(b) /\ b.frame \in {a.frame, 0}
  /\ b.frame_interrupt => a.frame_interrupt

LEMMA ChannelsKept ==
  ASSUME NEW a, ApuOK(a), NEW tone \in ToneType, NEW triangle \in TriangleType
  PROVE  Kept(a, [a EXCEPT !.tone = tone, !.triangle = triangle])
<1> DEFINE b == [a EXCEPT !.tone = tone, !.triangle = triangle]
<1>1. b \in ApuType /\ SameSequence(a, b)
  BY DEF ApuOK, ApuType, SameSequence
<1> HIDE DEF b
<1>2. LastStep(b) = LastStep(a)
  BY <1>1 DEF LastStep, SameSequence
<1>3. InSequence(b)
  BY <1>1, <1>2 DEF ApuOK, InSequence, SameSequence
<1>4. FlagIsDown(b) /\ (b.frame_interrupt => a.frame_interrupt)
  BY <1>1 DEF ApuOK, FlagIsDown, SameSequence
<1>5. b.frame \in {a.frame, 0}
  BY <1>1 DEF SameSequence
<1>6. Kept(a, b)
  BY <1>1, <1>3, <1>4, <1>5 DEF Kept, ApuOK
<1> QED BY <1>6 DEF b

LEMMA SwitchedType ==
  ASSUME NEW on \in BOOLEAN
  PROVE  /\ \A t \in ToneType : Switched(t, on) \in ToneType
         /\ \A t \in TriangleType : Switched(t, on) \in TriangleType
<1>1. \A n \in Nat : (IF on THEN n ELSE 0) \in Nat
  OBVIOUS
<1>2. ASSUME NEW t \in ToneType PROVE Switched(t, on) \in ToneType
  <2>1. (IF on THEN t.length ELSE 0) \in Nat
    BY <1>1 DEF ToneType
  <2> QED BY <2>1 DEF Switched, ToneType
<1>3. ASSUME NEW t \in TriangleType PROVE Switched(t, on) \in TriangleType
  <2>1. (IF on THEN t.length ELSE 0) \in Nat
    BY <1>1 DEF TriangleType
  <2> QED BY <2>1 DEF Switched, TriangleType
<1> QED BY <1>2, <1>3

LEMMA ToneKept ==
  ASSUME NEW a, ApuOK(a)
  PROVE  /\ \A halt \in BOOLEAN, n \in EnvelopeReloads : Kept(a, write_ctrl(a, halt, n))
         /\ \A i \in DOMAIN LENGTH_TABLE : Kept(a, tone_write_hi(a, i))
<1>1. a.tone \in ToneType /\ a.triangle \in TriangleType /\ a \in ApuType
  BY DEF ApuOK, ApuType
<1>2. \A tone \in ToneType : Kept(a, [a EXCEPT !.tone = tone])
  <2> TAKE tone \in ToneType
  <2> DEFINE b == [a EXCEPT !.tone = tone]
  <2>1. b = [b EXCEPT !.triangle = a.triangle]
    BY <1>1 DEF ApuType
  <2> QED BY <1>1, <2>1, ChannelsKept
<1>3. ASSUME NEW halt \in BOOLEAN, NEW n \in EnvelopeReloads
      PROVE  Kept(a, write_ctrl(a, halt, n))
  <2>1. (~halt) \in BOOLEAN /\ n \in Nat
    OBVIOUS
  <2>2. [a.tone EXCEPT !.length_enabled = ~halt, !.envelope_loop = halt,
                       !.envelope_timer_reload = n] \in ToneType
    BY <1>1, <2>1 DEF ToneType
  <2> QED BY <1>2, <2>2 DEF write_ctrl
<1>4. ASSUME NEW i \in DOMAIN LENGTH_TABLE
      PROVE  Kept(a, tone_write_hi(a, i))
  <2>1. Loaded(a.tone, i) \in Nat
    BY <1>1 DEF Loaded, Lengths, ToneType
  <2>2. [a.tone EXCEPT !.length = Loaded(a.tone, i), !.envelope_start = TRUE]
          \in ToneType
    BY <1>1, <2>1 DEF ToneType
  <2> QED BY <1>2, <2>2 DEF tone_write_hi
<1> QED BY <1>3, <1>4

LEMMA TriangleKept ==
  ASSUME NEW a, ApuOK(a)
  PROVE  /\ \A halt \in BOOLEAN, n \in LinearReloads :
              Kept(a, write_triangle_ctrl(a, halt, n))
         /\ \A i \in DOMAIN LENGTH_TABLE : Kept(a, write_triangle_hi(a, i))
<1>1. a.tone \in ToneType /\ a.triangle \in TriangleType /\ a \in ApuType
  BY DEF ApuOK, ApuType
<1>2. \A triangle \in TriangleType : Kept(a, [a EXCEPT !.triangle = triangle])
  <2> TAKE triangle \in TriangleType
  <2>1. [a EXCEPT !.triangle = triangle]
          = [a EXCEPT !.tone = a.tone, !.triangle = triangle]
    BY <1>1 DEF ApuType
  <2> QED BY <1>1, <2>1, ChannelsKept
<1>3. ASSUME NEW halt \in BOOLEAN, NEW n \in LinearReloads
      PROVE  Kept(a, write_triangle_ctrl(a, halt, n))
  <2>1. (~halt) \in BOOLEAN /\ n \in Nat
    OBVIOUS
  <2>2. [a.triangle EXCEPT !.halt = halt, !.length_enabled = ~halt,
                           !.linear_reload = n] \in TriangleType
    BY <1>1, <2>1 DEF TriangleType
  <2> QED BY <1>2, <2>2 DEF write_triangle_ctrl
<1>4. ASSUME NEW i \in DOMAIN LENGTH_TABLE
      PROVE  Kept(a, write_triangle_hi(a, i))
  <2>1. Loaded(a.triangle, i) \in Nat
    BY <1>1 DEF Loaded, Lengths, TriangleType
  <2>2. [a.triangle EXCEPT !.length = Loaded(a.triangle, i),
                           !.linear_reload_flag = TRUE] \in TriangleType
    BY <1>1, <2>1 DEF TriangleType
  <2> QED BY <1>2, <2>2 DEF write_triangle_hi
<1> QED BY <1>3, <1>4

LEMMA EnableKept ==
  ASSUME NEW a, ApuOK(a), NEW tone_on \in BOOLEAN, NEW triangle_on \in BOOLEAN
  PROVE  Kept(a, write_enable(a, tone_on, triangle_on))
<1>1. /\ Switched(a.tone, tone_on) \in ToneType
      /\ Switched(a.triangle, triangle_on) \in TriangleType
  BY SwitchedType DEF ApuOK, ApuType
<1> QED BY <1>1, ChannelsKept DEF write_enable
LEMMA FrameKept ==
  ASSUME NEW a, ApuOK(a), NEW mode \in {"FourStep", "FiveStep"}, NEW inhibit \in BOOLEAN
  PROVE  Kept(a, write_frame(a, mode, inhibit))
<1> DEFINE flag == a.frame_interrupt /\ ~inhibit
           set  == [a EXCEPT !.mode = mode, !.irq_inhibit = inhibit,
                             !.frame_interrupt = flag, !.frame = 0]
           half == tick_half_frame(tick_quarter_frame(set))
<1>1. flag \in BOOLEAN
  OBVIOUS
<1>2. /\ set \in ApuType /\ set.frame = 0 /\ set.irq_inhibit = inhibit
      /\ set.frame_interrupt = flag
  <2> HIDE DEF flag
  <2> QED BY <1>1 DEF ApuOK, ApuType
<1>3. write_frame(a, mode, inhibit) = IF mode = "FiveStep" THEN half ELSE set
  BY DEF write_frame
<1> HIDE DEF set
<1>4. half \in ApuType /\ SameSequence(set, half)
  BY <1>2, QuarterType, HalfType DEF SameSequence
<1> HIDE DEF half
<1>5. ASSUME NEW b \in ApuType, b.frame = 0, b.irq_inhibit = inhibit,
             b.frame_interrupt = flag
      PROVE  Kept(a, b)
  <2>1. 0 < LastStep(b)
    BY DEF LastStep
  <2> QED BY <1>5, <2>1 DEF Kept, ApuOK, InSequence, FlagIsDown
<1> QED BY <1>2, <1>3, <1>4, <1>5 DEF SameSequence

LEMMA StatusKept ==
  ASSUME NEW a, ApuOK(a)
  PROVE  Kept(a, read_status(a)) /\ Kept(a, a)
<1>1. /\ read_status(a) \in ApuType /\ read_status(a).frame = a.frame
      /\ read_status(a).mode = a.mode /\ ~read_status(a).frame_interrupt
  BY DEF ApuOK, ApuType, read_status
<1>2. LastStep(read_status(a)) = LastStep(a)
  BY <1>1 DEF LastStep
<1> QED BY <1>1, <1>2 DEF Kept, ApuOK, InSequence, FlagIsDown

LEMMA ResetKept ==
  ASSUME NEW a, ApuOK(a)
  PROVE  Kept(a, reset(a))
<1> DEFINE b == [a EXCEPT !.frame_interrupt = FALSE, !.frame = 0]
<1>1. /\ b \in ApuType /\ b.frame = 0 /\ ~b.frame_interrupt
  BY DEF ApuOK, ApuType
<1>2. reset(a) = write_enable(b, FALSE, FALSE)
  BY DEF reset
<1> HIDE DEF b
<1>3. 0 < LastStep(b)
  BY DEF LastStep
<1>4. ApuOK(b)
  BY <1>1, <1>3 DEF ApuOK, InSequence, FlagIsDown
<1>5. Kept(b, reset(a))
  BY <1>2, <1>4, EnableKept
<1> QED BY <1>1, <1>5 DEF Kept

-----------------------------------------------------------------------------
(* The system. *)
LEMMA ApuCycleStep ==
  ASSUME ApuInv, Cycle
  PROVE  /\ ApuInv'
         /\ \E b : Kept(apu, b) /\ apu' = cycle(b)
<1>1. ApuOK(apu)
  BY DEF ApuInv
<1>2. \E b : Kept(apu, b) /\ apu' = cycle(b)
  <2>1. CASE NoAccess
    BY <1>1, <2>1, StatusKept DEF NoAccess, Reach
  <2>2. CASE WriteTone
    BY <1>1, <2>2, ToneKept DEF WriteTone, Reach
  <2>3. CASE WriteTriangle
    BY <1>1, <2>3, TriangleKept DEF WriteTriangle, Reach
  <2>4. CASE WriteEnable
    <3>1. PICK channels \in SUBSET {"tone", "triangle"} :
            Reach(write_enable(apu, "tone" \in channels, "triangle" \in channels))
      BY <2>4 DEF WriteEnable
    <3>2. ("tone" \in channels) \in BOOLEAN /\ ("triangle" \in channels) \in BOOLEAN
      OBVIOUS
    <3> QED BY <1>1, <3>1, <3>2, EnableKept DEF Reach
  <2>5. CASE WriteFrame
    BY <1>1, <2>5, FrameKept DEF WriteFrame, Reach
  <2>6. CASE ReadStatus
    BY <1>1, <2>6, StatusKept DEF ReadStatus, Reach
  <2> QED BY <2>1, <2>2, <2>3, <2>4, <2>5, <2>6 DEF Cycle
<1>3. ApuOK(apu')
  BY <1>2, ApuCycleOK DEF Kept
<1>4. enabled' \subseteq {"tone", "triangle"}
  BY DEF ApuInv, Cycle, NoAccess, WriteTone, WriteTriangle, WriteEnable, WriteFrame,
         ReadStatus
<1> QED BY <1>2, <1>3, <1>4 DEF ApuInv

LEMMA ApuInitOK == ApuInit => ApuInv
<1> SUFFICES ASSUME ApuInit PROVE ApuInv
  OBVIOUS
<1>1. NewTone \in ToneType
  BY DEF NewTone, ToneType
<1>2. NewTriangle \in TriangleType
  BY DEF NewTriangle, TriangleType
<1>3. NewApu \in ApuType
  BY <1>1, <1>2 DEF NewApu, ApuType
<1>4. NewApu.frame = 0 /\ ~NewApu.frame_interrupt /\ 0 < LastStep(NewApu)
  BY DEF NewApu, LastStep
<1> QED BY <1>3, <1>4 DEF ApuInit, ApuInv, ApuOK, InSequence, FlagIsDown

LEMMA ApuStepOK == ApuInv /\ [ApuNext]_apuVars => ApuInv'
<1> SUFFICES ASSUME ApuInv, [ApuNext]_apuVars PROVE ApuInv'
  OBVIOUS
<1>1. CASE Cycle
  BY <1>1, ApuCycleStep
<1>2. CASE Reset
  BY <1>2, ResetKept DEF Reset, ApuInv, Kept
<1>3. CASE UNCHANGED apuVars
  BY <1>3 DEF apuVars, ApuInv
<1> QED BY <1>1, <1>2, <1>3 DEF ApuNext

LEMMA ApuInductive == ApuSpec => []ApuInv
<1> QED BY ApuInitOK, ApuStepOK, PTL DEF ApuSpec

(* The frame counter stays in its sequence and the counters it clocks in   *)
(* their ranges, for every choice of steps and every table of lengths.     *)
THEOREM ApuTypeCorrect == ApuSpec => []ApuTypeOK
<1>1. ApuInv => ApuTypeOK
  <2> SUFFICES ASSUME ApuInv PROVE ApuTypeOK
    OBVIOUS
  <2>1. /\ apu \in ApuType /\ apu.tone \in ToneType /\ apu.triangle \in TriangleType
        /\ apu.frame < LastStep(apu)
    BY DEF ApuInv, ApuOK, InSequence, ApuType
  <2>2. LastStep(apu) \in Nat /\ apu.frame \in Nat
    BY <2>1 DEF LastStep, ApuType
  <2>3. apu.frame \in 0 .. LastStep(apu) - 1
    BY <2>1, <2>2
  <2> QED BY <2>1, <2>3 DEF ApuInv, ApuTypeOK, ApuType, ToneType, TriangleType
<1> QED BY ApuInductive, <1>1, PTL

(* The frame flag is down while interrupts are inhibited (apu.rs:207-208   *)
(* and 351-353).                                                           *)
THEOREM ApuInhibited == ApuSpec => []InhibitedIsDown
<1>1. ApuInv => InhibitedIsDown
  BY DEF ApuInv, ApuOK, FlagIsDown, InhibitedIsDown
<1> QED BY ApuInductive, <1>1, PTL

(* The flag comes up at the end of a four-step sequence and at no other    *)
(* time (apu.rs:204-212).                                                  *)
THEOREM ApuFlagAtTheEnd == ApuSpec => FlagAtTheEnd
<1> DEFINE AtTheEnd ==
      ~apu.frame_interrupt /\ apu'.frame_interrupt =>
        apu'.mode = "FourStep" /\ apu'.frame = 0 /\ apu.frame = STEP_4 - 1
<1>1. ApuInv /\ [ApuNext]_apuVars => [AtTheEnd]_apuVars
  <2> SUFFICES ASSUME ApuInv, [ApuNext]_apuVars PROVE AtTheEnd \/ UNCHANGED apuVars
    BY DEF AtTheEnd
  <2>1. CASE Cycle
    <3>1. PICK b : Kept(apu, b) /\ apu' = cycle(b)
      BY <2>1, ApuCycleStep
    <3>2. 0 # STEP_4 - 1
      OBVIOUS
    <3> QED BY <3>1, <3>2, ApuCycleOK DEF Kept
  <2>2. CASE Reset
    BY <2>2, ResetKept DEF Reset, ApuInv, Kept
  <2> QED BY <2>1, <2>2 DEF ApuNext
<1> QED BY ApuInductive, <1>1, PTL DEF ApuSpec, FlagAtTheEnd
=============================================================================
