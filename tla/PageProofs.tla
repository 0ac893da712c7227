----------------------------- MODULE PageProofs -----------------------------
(***************************************************************************)
(* The two parts of the page, which share no state.  Of its sound: the     *)
(* worklet's ring buffer is well formed and implements a queue that drops  *)
(* its oldest sample, and no sample is lost, repeated or overtaken on its  *)
(* way from the page to the loudspeaker, for every capacity, block,        *)
(* preroll and chunk length.  Of its main loop: while the page is running  *)
(* a loop is scheduled or runs, under handles of their own, for every      *)
(* number of loops and every clock.                                        *)
(***************************************************************************)
EXTENDS AudioStream, RafLoop, SequenceTheorems, FiniteSetTheorems, TLAPS

USE RingAssumption

-----------------------------------------------------------------------------
(* Facts about the ring.                                                   *)
RingOK(r) == r \in RingType /\ r.writePos = From(r.readPos, r.size)

(* Counting on from a position stays in the ring, and two different counts *)
(* come to different positions.                                            *)
LEMMA FromPosition ==
  ASSUME NEW p \in 0 .. CAPACITY - 1, NEW i \in 0 .. CAPACITY
  PROVE  From(p, i) \in Positions
  BY DEF From, Positions

LEMMA FromApart ==
  ASSUME NEW p \in 0 .. CAPACITY - 1,
         NEW i \in 0 .. CAPACITY - 1, NEW j \in 0 .. CAPACITY - 1, i # j
  PROVE  From(p, i) # From(p, j)
<1>1. CASE p + i < CAPACITY
  BY <1>1 DEF From
<1>2. CASE ~(p + i < CAPACITY)
  BY <1>2 DEF From
<1> QED BY <1>1, <1>2

LEMMA NewRingOK == RingOK(NewRing)
  BY DEF RingOK, NewRing, RingType, Positions, From

LEMMA PushOK ==
  ASSUME NEW r, RingOK(r), NEW s \in Samples
  PROVE  RingOK(push(r, s))
<1> DEFINE q == push(r, s)
<1>1. /\ r.buffer \in [Positions -> Samples] /\ r.readPos \in 0 .. CAPACITY - 1
      /\ r.size \in 0 .. CAPACITY /\ r.writePos \in 0 .. CAPACITY - 1
      /\ r.writePos = From(r.readPos, r.size)
  BY DEF RingOK, RingType, Positions
<1>2. /\ q = [buffer |-> q.buffer, readPos |-> q.readPos,
              writePos |-> q.writePos, size |-> q.size]
      /\ q.buffer = [r.buffer EXCEPT ![r.writePos] = s]
      /\ q.writePos = After(r.writePos)
      /\ q.readPos = IF r.size = CAPACITY THEN After(r.readPos) ELSE r.readPos
      /\ q.size = IF r.size = CAPACITY THEN r.size ELSE r.size + 1
  BY DEF push, Full, RingOK, RingType
<1> HIDE DEF q
<1>3. q.buffer \in [Positions -> Samples]
  BY <1>1, <1>2
<1>4. /\ q.readPos \in 0 .. CAPACITY - 1 /\ q.writePos \in 0 .. CAPACITY - 1
      /\ q.size \in 0 .. CAPACITY /\ q.writePos = From(q.readPos, q.size)
  BY <1>1, <1>2 DEF From, After
<1> QED BY <1>2, <1>3, <1>4 DEF q, RingOK, RingType, Positions

LEMMA PullOK ==
  ASSUME NEW r, RingOK(r), ~Empty(r)
  PROVE  RingOK(pull(r))
<1> DEFINE q == pull(r)
<1>1. /\ r.buffer \in [Positions -> Samples] /\ r.readPos \in 0 .. CAPACITY - 1
      /\ r.size \in 1 .. CAPACITY /\ r.writePos \in 0 .. CAPACITY - 1
      /\ r.writePos = From(r.readPos, r.size)
  BY DEF RingOK, RingType, Positions, Empty
<1>2. /\ q = [buffer |-> q.buffer, readPos |-> q.readPos,
              writePos |-> q.writePos, size |-> q.size]
      /\ q.buffer = r.buffer /\ q.writePos = r.writePos
      /\ q.readPos = After(r.readPos) /\ q.size = r.size - 1
  BY DEF pull, RingOK, RingType
<1> HIDE DEF q
<1>3. /\ q.readPos \in 0 .. CAPACITY - 1 /\ q.size \in 0 .. CAPACITY
      /\ q.writePos = From(q.readPos, q.size)
  BY <1>1, <1>2 DEF From, After
<1> QED BY <1>1, <1>2, <1>3 DEF q, RingOK, RingType, Positions

(* The contents are a sequence as long as the size. *)
LEMMA ContentsType ==
  ASSUME NEW r, RingOK(r)
  PROVE  /\ Contents(r) \in Seq(Samples)
         /\ Len(Contents(r)) = r.size
         /\ \A i \in 1 .. r.size :
              Contents(r)[i] = r.buffer[From(r.readPos, i - 1)]
<1>1. \A i \in 1 .. r.size : From(r.readPos, i - 1) \in Positions
  <2> TAKE i \in 1 .. r.size
  <2>1. r.readPos \in 0 .. CAPACITY - 1 /\ i - 1 \in 0 .. CAPACITY
    BY DEF RingOK, RingType, Positions
  <2> QED BY <2>1, FromPosition
<1>2. \A i \in 1 .. r.size : r.buffer[From(r.readPos, i - 1)] \in Samples
  BY <1>1 DEF RingOK, RingType
<1>3. r.size \in Nat
  BY DEF RingOK, RingType
<1> QED BY <1>2, <1>3 DEF Contents

(* Pushing on a ring that is not full appends. *)
LEMMA PushAppends ==
  ASSUME NEW r, RingOK(r), ~Full(r), NEW s \in Samples
  PROVE  Contents(push(r, s)) = Append(Contents(r), s)
<1> DEFINE q == push(r, s)
<1>1. /\ q.size = r.size + 1 /\ q.readPos = r.readPos
      /\ q.buffer = [r.buffer EXCEPT ![r.writePos] = s]
      /\ r.size \in 0 .. CAPACITY - 1 /\ r.readPos \in Positions
      /\ r.buffer \in [Positions -> Samples]
      /\ r.writePos = From(r.readPos, r.size)
  BY DEF push, Full, RingOK, RingType
<1>2. RingOK(q)
  BY PushOK
<1> HIDE DEF q
<1>3. \A i \in 1 .. r.size : /\ From(r.readPos, i - 1) # r.writePos
                             /\ From(r.readPos, i - 1) \in Positions
  <2> TAKE i \in 1 .. r.size
  <2>1. /\ r.readPos \in 0 .. CAPACITY - 1 /\ r.size \in 0 .. CAPACITY - 1
        /\ i - 1 \in 0 .. CAPACITY - 1 /\ i - 1 # r.size
        /\ i - 1 \in 0 .. CAPACITY
    BY <1>1 DEF Positions
  <2>2. From(r.readPos, i - 1) # From(r.readPos, r.size)
    BY <2>1, FromApart
  <2>3. From(r.readPos, i - 1) \in Positions
    BY <2>1, FromPosition
  <2> QED BY <1>1, <2>2, <2>3
<1>4. r.writePos \in Positions
  <2>1. r.readPos \in 0 .. CAPACITY - 1 /\ r.size \in 0 .. CAPACITY
    BY <1>1 DEF Positions
  <2> QED BY <1>1, <2>1, FromPosition
<1>5. \A i \in 1 .. r.size : Contents(q)[i] = Contents(r)[i]
  BY <1>1, <1>2, <1>3, ContentsType, SMTT(60)
<1>6. Contents(q)[r.size + 1] = s
  <2>1. r.size + 1 \in 1 .. q.size /\ r.size + 1 - 1 = r.size
    BY <1>1
  <2>2. Contents(q)[r.size + 1] = q.buffer[From(q.readPos, r.size)]
    BY <1>2, <2>1, ContentsType
  <2> QED BY <1>1, <1>4, <2>2
<1>7. /\ Contents(q) \in Seq(Samples) /\ Len(Contents(q)) = r.size + 1
      /\ Contents(r) \in Seq(Samples) /\ Len(Contents(r)) = r.size
  BY <1>1, <1>2, ContentsType
<1> HIDE DEF Contents
<1> DEFINE longer == Append(Contents(r), s)
<1>8. /\ longer \in Seq(Samples) /\ Len(longer) = r.size + 1
      /\ \A i \in 1 .. r.size : longer[i] = Contents(r)[i]
      /\ longer[r.size + 1] = s
  BY <1>1, <1>7
<1> HIDE DEF longer
<1>9. \A i \in 1 .. r.size + 1 : Contents(q)[i] = longer[i]
  BY <1>1, <1>5, <1>6, <1>8
<1>10. Contents(q) = longer
  BY <1>7, <1>8, <1>9, SeqEqual
<1> QED BY <1>10 DEF q, longer

(* Pushing on a full ring drops the first sample and appends. *)
LEMMA PushDropsOldest ==
  ASSUME NEW r, RingOK(r), Full(r), NEW s \in Samples
  PROVE  Contents(push(r, s)) = Append(Tail(Contents(r)), s)
<1> DEFINE q == push(r, s)
<1>1. /\ q.size = CAPACITY /\ r.size = CAPACITY /\ q.readPos = After(r.readPos)
      /\ q.buffer = [r.buffer EXCEPT ![r.readPos] = s]
      /\ r.readPos \in Positions /\ r.buffer \in [Positions -> Samples]
  BY DEF push, Full, RingOK, RingType, From, Positions
<1>2. RingOK(q)
  BY PushOK
<1> HIDE DEF q
<1>3. \A i \in 1 .. CAPACITY - 1 :
        /\ From(q.readPos, i - 1) = From(r.readPos, i)
        /\ From(r.readPos, i) # r.readPos /\ From(r.readPos, i) \in Positions
  <2>1. r.readPos \in 0 .. CAPACITY - 1 /\ q.readPos = After(r.readPos)
    BY <1>1 DEF Positions
  <2> QED BY <2>1 DEF From, After, Positions
<1>4. From(q.readPos, CAPACITY - 1) = r.readPos
  <2>1. r.readPos \in 0 .. CAPACITY - 1 /\ q.readPos = After(r.readPos)
    BY <1>1 DEF Positions
  <2> QED BY <2>1 DEF From, After
<1>5. \A i \in 1 .. CAPACITY - 1 : Contents(q)[i] = Contents(r)[i + 1]
  <2> TAKE i \in 1 .. CAPACITY - 1
  <2>1. i \in 1 .. q.size /\ i + 1 \in 1 .. r.size /\ i + 1 - 1 = i
    BY <1>1
  <2>2. Contents(q)[i] = q.buffer[From(q.readPos, i - 1)]
    BY <1>2, <2>1, ContentsType
  <2>3. Contents(r)[i + 1] = r.buffer[From(r.readPos, i)]
    BY <2>1, ContentsType
  <2> QED BY <1>1, <1>3, <2>2, <2>3
<1>6. Contents(q)[CAPACITY] = s
  <2>0. CAPACITY \in 1 .. q.size
    BY <1>1
  <2>1. Contents(q)[CAPACITY] = q.buffer[From(q.readPos, CAPACITY - 1)]
    BY <1>2, <2>0, ContentsType
  <2> QED BY <1>1, <1>4, <2>1
<1>7. /\ Contents(q) \in Seq(Samples) /\ Len(Contents(q)) = CAPACITY
      /\ Contents(r) \in Seq(Samples) /\ Len(Contents(r)) = CAPACITY
  BY <1>1, <1>2, ContentsType
<1> HIDE DEF Contents
<1>8. /\ Tail(Contents(r)) \in Seq(Samples) /\ Len(Tail(Contents(r))) = CAPACITY - 1
      /\ \A i \in 1 .. CAPACITY - 1 : Tail(Contents(r))[i] = Contents(r)[i + 1]
  <2>1. Contents(r) # << >>
    BY <1>7
  <2> QED BY <1>7, <2>1, HeadTailProperties
<1> DEFINE rest == Tail(Contents(r))
           moved == Append(rest, s)
<1> HIDE DEF rest
<1>9. /\ rest \in Seq(Samples) /\ Len(rest) = CAPACITY - 1
      /\ \A i \in 1 .. CAPACITY - 1 : rest[i] = Contents(r)[i + 1]
  BY <1>8 DEF rest
<1>10. /\ moved \in Seq(Samples) /\ Len(moved) = CAPACITY
       /\ \A i \in 1 .. CAPACITY - 1 : moved[i] = rest[i]
       /\ moved[CAPACITY] = s
  BY <1>9
<1> HIDE DEF moved
<1>11. \A i \in 1 .. CAPACITY : Contents(q)[i] = moved[i]
  BY <1>5, <1>6, <1>9, <1>10
<1>12. Contents(q) = moved
  BY <1>7, <1>10, <1>11, SeqEqual
<1> QED BY <1>12 DEF q, moved, rest

(* Pulling takes the first sample. *)
LEMMA PullTakesFirst ==
  ASSUME NEW r, RingOK(r), ~Empty(r)
  PROVE  /\ Contents(r) # << >> /\ front(r) = Head(Contents(r))
         /\ Contents(pull(r)) = Tail(Contents(r))
<1> DEFINE q == pull(r)
<1>1. /\ q.size = r.size - 1 /\ q.readPos = After(r.readPos) /\ q.buffer = r.buffer
      /\ r.size \in 1 .. CAPACITY /\ r.readPos \in Positions
  BY DEF pull, Empty, RingOK, RingType
<1>2. RingOK(q)
  BY PullOK
<1>3. front(r) = r.buffer[From(r.readPos, 0)]
  BY <1>1 DEF front, From, Empty, Positions
<1> HIDE DEF q
<1>4. \A i \in 1 .. r.size - 1 : From(q.readPos, i - 1) = From(r.readPos, i)
  BY <1>1 DEF From, Positions, After
<1>5. \A i \in 1 .. r.size - 1 : Contents(q)[i] = Contents(r)[i + 1]
  <2> TAKE i \in 1 .. r.size - 1
  <2>1. i \in 1 .. q.size /\ i + 1 \in 1 .. r.size /\ i + 1 - 1 = i
    BY <1>1
  <2>2. Contents(q)[i] = q.buffer[From(q.readPos, i - 1)]
    BY <1>2, <2>1, ContentsType
  <2>3. Contents(r)[i + 1] = r.buffer[From(r.readPos, i)]
    BY <2>1, ContentsType
  <2> QED BY <1>1, <1>4, <2>2, <2>3
<1>6. Contents(r)[1] = r.buffer[From(r.readPos, 0)]
  BY <1>1, ContentsType
<1>7. /\ Contents(q) \in Seq(Samples) /\ Len(Contents(q)) = r.size - 1
      /\ Contents(r) \in Seq(Samples) /\ Len(Contents(r)) = r.size
  BY <1>1, <1>2, ContentsType
<1> HIDE DEF Contents
<1>8. Contents(r) # << >>
  BY <1>1, <1>7
<1>9. front(r) = Head(Contents(r))
  BY <1>3, <1>6, <1>7, <1>8
<1> DEFINE rest == Tail(Contents(r))
<1>10. /\ rest \in Seq(Samples) /\ Len(rest) = r.size - 1
       /\ \A i \in 1 .. r.size - 1 : rest[i] = Contents(r)[i + 1]
  BY <1>7, <1>8, HeadTailProperties
<1> HIDE DEF rest
<1>11. \A i \in 1 .. r.size - 1 : Contents(q)[i] = rest[i]
  BY <1>5, <1>10
<1>12. Contents(q) = rest
  BY <1>7, <1>10, <1>11, SeqEqual
<1> QED BY <1>8, <1>9, <1>12 DEF q, rest

LEMMA EmptyContents ==
  ASSUME NEW r, RingOK(r), Empty(r)
  PROVE  Contents(r) = << >> /\ front(r) = Silence
<1>1. Len(Contents(r)) = 0 /\ Contents(r) \in Seq(Samples)
  BY ContentsType DEF Empty
<1> HIDE DEF Contents
<1> QED BY <1>1 DEF front

-----------------------------------------------------------------------------
(* The inductive invariant: types and the agreement of the positions.      *)
IInv == TypeOK /\ RingConsistent

LEMMA IInvInit == Init => IInv
<1> SUFFICES ASSUME Init PROVE IInv
  OBVIOUS
<1>1. RingOK(ring)
  BY NewRingOK DEF Init
<1> QED BY <1>1, StreamAssumption DEF Init, IInv, TypeOK, RingConsistent, RingOK

LEMMA IInvNext == IInv /\ [Next]_vars => IInv'
<1> SUFFICES ASSUME IInv, [Next]_vars PROVE IInv'
  OBVIOUS
<1>1. RingOK(ring) /\ TypeOK
  BY DEF IInv, TypeOK, RingConsistent, RingOK
<1>2. CASE Start
  BY <1>1, <1>2 DEF Start, audioVars, IInv, TypeOK, RingConsistent
<1>3. CASE Ready
  <2>1. Preroll \in Seq(Samples)
    BY StreamAssumption DEF Preroll
  <2>2. port' \in Seq(Seq(Samples)) /\ pending' \in Seq(Seq(Samples))
    BY <1>1, <1>3, <2>1 DEF Ready, TypeOK
  <2> QED BY <1>1, <1>3, <2>2 DEF Ready, audioVars, IInv, TypeOK, RingConsistent
<1>4. CASE Fails
  BY <1>1, <1>4 DEF Fails, audioVars, IInv, TypeOK, RingConsistent
<1>5. CASE Queue
  <2>1. PICK n \in ChunkLengths :
          /\ queued + n <= LAST_SAMPLE /\ queued' = queued + n
          /\ IF worklet = "ready"
             THEN port' = Append(port, Chunk(n)) /\ UNCHANGED pending
             ELSE pending' = Append(pending, Chunk(n)) /\ UNCHANGED port
          /\ UNCHANGED worklet /\ UNCHANGED audioVars
    BY <1>5 DEF Queue
  <2>2. Chunk(n) \in Seq(Samples) /\ queued' \in 0 .. LAST_SAMPLE
    BY <1>1, <2>1, StreamAssumption DEF Chunk, TypeOK
  <2>3. port' \in Seq(Seq(Samples)) /\ pending' \in Seq(Seq(Samples))
    <3>1. port \in Seq(Seq(Samples)) /\ pending \in Seq(Seq(Samples))
      BY <1>1 DEF TypeOK
    <3> DEFINE c == Chunk(n)
    <3> HIDE DEF c
    <3>2. Append(port, c) \in Seq(Seq(Samples)) /\ Append(pending, c) \in Seq(Seq(Samples))
      BY <2>2, <3>1 DEF c
    <3> QED BY <2>1, <3>1, <3>2 DEF c
  <2> QED BY <1>1, <2>1, <2>2, <2>3 DEF audioVars, IInv, TypeOK, RingConsistent
<1>6. CASE Receive
  <2>1. arriving' \in Seq(Samples) /\ port' \in Seq(Seq(Samples))
    BY <1>1, <1>6 DEF Receive, TypeOK
  <2> QED BY <1>1, <1>6, <2>1 DEF Receive, IInv, TypeOK, RingConsistent
<1>7. CASE Store
  <2>1. Head(arriving) \in Samples /\ arriving' \in Seq(Samples)
    BY <1>1, <1>7 DEF Store, TypeOK
  <2>2. RingOK(ring')
    BY <1>1, <1>7, <2>1, PushOK DEF Store
  <2>3. taken' \in Nat
    BY <1>1, <1>7 DEF Store, TypeOK
  <2> QED BY <1>1, <1>7, <2>1, <2>2, <2>3
        DEF Store, mainVars, IInv, TypeOK, RingConsistent, RingOK
<1>8. CASE Process
  BY <1>1, <1>8, StreamAssumption DEF Process, mainVars, IInv, TypeOK, RingConsistent
<1>9. CASE PutOut
  <2>1. RingOK(ring') /\ taken' \in Nat
    BY <1>1, <1>9, PullOK DEF PutOut, TypeOK
  <2>2. front(ring) \in Samples
    BY <1>1 DEF front, RingOK, RingType
  <2>3. block' \in 0 .. BLOCK
    BY <1>1, <1>9, StreamAssumption DEF PutOut, TypeOK
  <2> QED BY <1>1, <1>9, <2>1, <2>2, <2>3
        DEF PutOut, mainVars, IInv, TypeOK, RingConsistent, RingOK
<1>10. CASE UNCHANGED vars
  BY <1>1, <1>10 DEF vars, IInv, TypeOK, RingConsistent
<1> QED BY <1>2, <1>3, <1>4, <1>5, <1>6, <1>7, <1>8, <1>9, <1>10 DEF Next

LEMMA StreamInvariant == Spec => []IInv
  BY IInvInit, IInvNext, PTL DEF Spec

(* Every queue, chunk and position stays within its range (audio.ts:14-27  *)
(* and 104-134), for every capacity.                                       *)
THEOREM StreamTypeCorrect == Spec => []TypeOK
<1>1. IInv => TypeOK
  BY DEF IInv
<1> QED BY <1>1, StreamInvariant, PTL

(* The writer is size places ahead of the reader (audio.ts:33-43), for     *)
(* every capacity.                                                         *)
THEOREM StreamRingConsistent == Spec => []RingConsistent
<1>1. IInv => RingConsistent
  BY DEF IInv
<1> QED BY <1>1, StreamInvariant, PTL

(* The worklet implements a queue that drops its oldest sample and plays   *)
(* silence when it is empty (audio.ts:4-8 and 29-60), for every capacity.  *)
THEOREM StreamDropsOldest == Spec => DropsOldest
<1>1. Init => Fifo!Init
  <2> SUFFICES ASSUME Init PROVE Fifo!Init
    OBVIOUS
  <2>1. RingOK(ring) /\ Empty(ring) /\ heard = Silence
    BY NewRingOK DEF Init, Empty, NewRing
  <2> QED BY <2>1, EmptyContents DEF Fifo!Init
<1>2. IInv /\ [Next]_vars => [Fifo!Next]_(Fifo!vars)
  <2> SUFFICES ASSUME IInv, [Next]_vars PROVE [Fifo!Next]_(Fifo!vars)
    OBVIOUS
  <2>1. RingOK(ring) /\ TypeOK
    BY DEF IInv, TypeOK, RingConsistent, RingOK
  <2>2. CASE Store
    <3> DEFINE s == Head(arriving)
    <3>1. s \in Samples /\ ring' = push(ring, s) /\ heard' = heard
      BY <2>1, <2>2 DEF Store, TypeOK
    <3>2. Len(Contents(ring)) = ring.size /\ ring.size \in 0 .. CAPACITY
      BY <2>1, ContentsType DEF RingOK, RingType
    <3> HIDE DEF s
    <3>3. Contents(ring)' = Contents(ring')
      BY DEF Contents
    <3>4. Contents(ring)' = IF Len(Contents(ring)) < CAPACITY
                            THEN Append(Contents(ring), s)
                            ELSE Append(Tail(Contents(ring)), s)
      <4>1. CASE Full(ring)
        BY <2>1, <3>1, <3>2, <3>3, <4>1, PushDropsOldest DEF Full
      <4>2. CASE ~Full(ring)
        BY <2>1, <3>1, <3>2, <3>3, <4>2, PushAppends DEF Full
      <4> QED BY <4>1, <4>2
    <3>5. Fifo!Push
      BY <3>1, <3>4 DEF Fifo!Push
    <3> QED BY <3>5 DEF Fifo!Next
  <2>3. CASE PutOut
    <3>0. Contents(ring)' = Contents(ring')
      BY DEF Contents
    <3>1. CASE Empty(ring)
      <4>1. Contents(ring) = << >> /\ heard' = Silence /\ ring' = ring
        BY <2>1, <2>3, <3>1, EmptyContents DEF PutOut
      <4>2. Fifo!HearNothing
        BY <3>0, <4>1 DEF Fifo!HearNothing
      <4> QED BY <4>2 DEF Fifo!Next
    <3>2. CASE ~Empty(ring)
      <4>1. heard' = front(ring) /\ ring' = pull(ring)
        BY <2>3, <3>2 DEF PutOut
      <4>2. Fifo!Hear
        BY <2>1, <3>0, <3>2, <4>1, PullTakesFirst DEF Fifo!Hear
      <4> QED BY <4>2 DEF Fifo!Next
    <3> QED BY <3>1, <3>2
  <2>4. CASE UNCHANGED <<ring, heard>>
    BY <2>4 DEF Fifo!vars, Contents
  <2>5. Start \/ Ready \/ Fails \/ Queue \/ Receive \/ Process \/ UNCHANGED vars
          => UNCHANGED <<ring, heard>>
    BY DEF Start, Ready, Fails, Queue, Receive, Process, vars, audioVars
  <2> QED BY <2>2, <2>3, <2>4, <2>5 DEF Next
<1> QED BY <1>1, <1>2, StreamInvariant, PTL DEF Spec, DropsOldest, Fifo!Spec

-----------------------------------------------------------------------------
(* Pieces joined: what FlattenSeq makes of one more piece at either end.   *)
(* A set of naturals has a least element. *)
LEMMA LeastNat ==
  ASSUME NEW T, T \subseteq Nat, T # {}
  PROVE  \E n \in T : \A m \in T : n <= m
<1> DEFINE R == {p \in Nat \X Nat : p[1] < p[2]}
<1>1. IsWellFoundedOn(R, Nat)
  <2>1. R = OpToRel(<, Nat)
    BY DEF OpToRel
  <2> QED BY <2>1, NatLessThanWellFounded
<1> HIDE DEF R
<1>2. PICK n \in T : \A m \in T : <<m, n>> \notin R
  BY <1>1, WFMin
<1>3. \A m \in T : ~(m < n)
  BY <1>2 DEF R
<1> QED BY <1>3

(* FlattenSeq joins the pieces one by one: f[i] is the first i of them.    *)
Joined(f, fs, n) ==
  f = [i \in 1 .. n |-> IF i = 1 THEN fs[i] ELSE f[i - 1] \o fs[i]]

LEMMA FlattenIs ==
  ASSUME NEW fs
  PROVE FlattenSeq(fs) = IF Len(fs) = 0 THEN fs ELSE (CHOOSE f : Joined(f, fs, Len(fs)))[Len(fs)]
  BY DEF FlattenSeq, Joined

LEMMA JoinedBy ==
  ASSUME NEW fs, NEW n, NEW g, g = [i \in 1 .. n |-> g[i]],
         \A i \in 1 .. n : g[i] = IF i = 1 THEN fs[i] ELSE g[i - 1] \o fs[i]
  PROVE  Joined(g, fs, n)
<1> DEFINE whole == [i \in 1 .. n |-> IF i = 1 THEN fs[i] ELSE g[i - 1] \o fs[i]]
<1>1. [i \in 1 .. n |-> g[i]] = whole
  OBVIOUS
<1> QED BY <1>1 DEF Joined

LEMMA JoinedAt ==
  ASSUME NEW fs, NEW n, NEW g, Joined(g, fs, n), NEW i \in 1 .. n
  PROVE  g[i] = IF i = 1 THEN fs[i] ELSE g[i - 1] \o fs[i]
  BY DEF Joined

(* Joining goes as far as there are pieces. *)
LEMMA JoinedExists ==
  ASSUME NEW S, NEW fs, fs \in Seq(Seq(S))
  PROVE  \A n \in 0 .. Len(fs) : \E f : f \in [1 .. n -> Seq(S)] /\ Joined(f, fs, n)
<1> DEFINE T == {n \in 0 .. Len(fs) : ~ \E f : f \in [1 .. n -> Seq(S)] /\ Joined(f, fs, n)}
<1> SUFFICES ASSUME T # {} PROVE FALSE
  OBVIOUS
<1>0. Len(fs) \in Nat /\ \A i \in 1 .. Len(fs) : fs[i] \in Seq(S)
  OBVIOUS
<1>1. T \subseteq Nat
  BY <1>0
<1>2. PICK n \in T : \A m \in T : n <= m
  BY <1>1, LeastNat
<1>3. n \in 0 .. Len(fs) /\ ~ \E f : f \in [1 .. n -> Seq(S)] /\ Joined(f, fs, n)
  BY <1>2
<1>4. n # 0
  <2>1. [i \in 1 .. 0 |-> << >>] \in [1 .. 0 -> Seq(S)]
    OBVIOUS
  <2>2. Joined([i \in 1 .. 0 |-> << >>], fs, 0)
    BY DEF Joined
  <2> QED BY <1>3, <2>1, <2>2
<1>5. n - 1 \in 0 .. Len(fs) /\ n - 1 \notin T /\ n - 1 \in Nat
  <2>1. n - 1 \in 0 .. Len(fs) /\ n - 1 \in Nat /\ ~(n <= n - 1)
    BY <1>0, <1>3, <1>4
  <2> HIDE DEF T
  <2> QED BY <1>2, <2>1
<1>6. PICK f : f \in [1 .. n - 1 -> Seq(S)] /\ Joined(f, fs, n - 1)
  BY <1>5
<1> DEFINE piece == IF n = 1 THEN fs[1] ELSE f[n - 1] \o fs[n]
           g == [i \in 1 .. n |-> IF i = n THEN piece ELSE f[i]]
<1>7. piece \in Seq(S)
  <2>1. CASE n = 1
    BY <1>0, <1>3, <2>1
  <2>2. CASE n # 1
    <3>1. n - 1 \in 1 .. n - 1 /\ n \in 1 .. Len(fs)
      BY <1>0, <1>3, <1>4, <2>2
    <3>2. f[n - 1] \in Seq(S) /\ fs[n] \in Seq(S)
      BY <1>0, <1>6, <3>1
    <3> QED BY <2>2, <3>2
  <2> QED BY <2>1, <2>2
<1>8. \A i \in 1 .. n - 1 : f[i] = IF i = 1 THEN fs[i] ELSE f[i - 1] \o fs[i]
  BY <1>6 DEF Joined
<1>9. g \in [1 .. n -> Seq(S)]
  <2> HIDE DEF piece
  <2>1. \A i \in 1 .. n : i # n => i \in 1 .. n - 1
    BY <1>0, <1>3
  <2> QED BY <1>6, <1>7, <2>1
<1>10. \A i \in 1 .. n : g[i] = IF i = 1 THEN fs[i] ELSE g[i - 1] \o fs[i]
  <2> TAKE i \in 1 .. n
  <2>1. CASE i = n
    <3>1. CASE n = 1
      BY <2>1, <3>1
    <3>2. CASE n # 1
      <4>1. n - 1 \in 1 .. n /\ n - 1 # n
        BY <1>0, <1>3, <1>4, <3>2
      <4>2. g[n - 1] = f[n - 1]
        BY <4>1
      <4>3. g[n] = f[n - 1] \o fs[n]
        BY <2>1, <3>2
      <4> QED BY <2>1, <3>2, <4>2, <4>3
    <3> QED BY <3>1, <3>2
  <2>2. CASE i # n
    <3>1. i \in 1 .. n - 1 /\ g[i] = f[i]
      BY <1>0, <1>3, <2>2
    <3>2. i # 1 => i - 1 \in 1 .. n /\ i - 1 # n
      BY <1>0, <1>3, <2>2
    <3>3. i # 1 => g[i - 1] = f[i - 1]
      BY <3>2
    <3> HIDE DEF g
    <3> QED BY <1>8, <3>1, <3>3
  <2> QED BY <2>1, <2>2
<1>11. Joined(g, fs, n)
  <2>1. g = [i \in 1 .. n |-> g[i]]
    OBVIOUS
  <2> HIDE DEF g
  <2> QED BY <1>10, <2>1, JoinedBy
<1> HIDE DEF g
<1> QED BY <1>3, <1>9, <1>11

(* Two joinings agree as far as both go. *)
LEMMA JoinedAgree ==
  ASSUME NEW fs, NEW gs, NEW n \in Nat, NEW m \in Nat, n <= m, NEW f, NEW g,
         Joined(f, fs, n), Joined(g, gs, m), \A i \in 1 .. n : fs[i] = gs[i]
  PROVE  \A i \in 1 .. n : f[i] = g[i]
<1> DEFINE T == {i \in 1 .. n : f[i] # g[i]}
<1> SUFFICES ASSUME T # {} PROVE FALSE
  OBVIOUS
<1>1. PICK i \in T : \A j \in T : i <= j
  <2>1. T \subseteq Nat
    OBVIOUS
  <2> QED BY <2>1, LeastNat
<1>2. i \in 1 .. n /\ i \in 1 .. m /\ f[i] # g[i]
  BY <1>1
<1>3. f[i] = IF i = 1 THEN fs[i] ELSE f[i - 1] \o fs[i]
  BY <1>2 DEF Joined
<1>4. g[i] = IF i = 1 THEN gs[i] ELSE g[i - 1] \o gs[i]
  BY <1>2 DEF Joined
<1>5. i # 1 => f[i - 1] = g[i - 1]
  <2>1. i # 1 => i - 1 \in 1 .. n /\ i - 1 \notin T
    BY <1>1, <1>2
  <2> QED BY <2>1
<1>6. fs[i] = gs[i]
  BY <1>2
<1> QED BY <1>2, <1>3, <1>4, <1>5, <1>6

(* What is chosen is what any joining comes to. *)
LEMMA FlattenJoined ==
  ASSUME NEW S, NEW fs, fs \in Seq(Seq(S)), Len(fs) # 0, NEW f, Joined(f, fs, Len(fs))
  PROVE  FlattenSeq(fs) = f[Len(fs)]
<1> DEFINE g == CHOOSE h : Joined(h, fs, Len(fs))
<1>0. Len(fs) \in Nat /\ Len(fs) <= Len(fs) /\ Len(fs) \in 1 .. Len(fs)
  OBVIOUS
<1>1. Joined(g, fs, Len(fs))
  OBVIOUS
<1>2. FlattenSeq(fs) = g[Len(fs)]
  BY FlattenIs
<1> HIDE DEF g
<1>3. \A i \in 1 .. Len(fs) : f[i] = g[i]
  BY <1>0, <1>1, JoinedAgree
<1> QED BY <1>0, <1>2, <1>3

LEMMA FlattenNothing == FlattenSeq(<< >>) = << >>
  BY FlattenIs

LEMMA FlattenType ==
  ASSUME NEW S, NEW fs, fs \in Seq(Seq(S))
  PROVE  FlattenSeq(fs) \in Seq(S)
<1>1. CASE Len(fs) = 0
  <2>1. fs = << >>
    BY <1>1
  <2>2. << >> \in Seq(S)
    OBVIOUS
  <2>3. FlattenSeq(fs) = << >>
    BY <2>1, FlattenNothing, Zenon
  <2> QED BY <2>2, <2>3, Zenon
<1>2. CASE Len(fs) # 0
  <2>1. Len(fs) \in 0 .. Len(fs) /\ Len(fs) \in 1 .. Len(fs)
    BY <1>2
  <2>2. PICK f : f \in [1 .. Len(fs) -> Seq(S)] /\ Joined(f, fs, Len(fs))
    BY <2>1, JoinedExists
  <2>3. FlattenSeq(fs) = f[Len(fs)]
    BY <1>2, <2>2, FlattenJoined
  <2> QED BY <2>1, <2>2, <2>3
<1> QED BY <1>1, <1>2

(* One more piece at the end is joined last. *)
LEMMA FlattenAppend ==
  ASSUME NEW S, NEW fs, fs \in Seq(Seq(S)), NEW c, c \in Seq(S)
  PROVE  FlattenSeq(Append(fs, c)) = FlattenSeq(fs) \o c
<1> DEFINE gs == Append(fs, c)
           n == Len(fs)
<1>1. /\ gs \in Seq(Seq(S)) /\ Len(gs) = n + 1 /\ gs[n + 1] = c /\ n \in Nat
      /\ \A i \in 1 .. n : gs[i] = fs[i]
  OBVIOUS
<1> HIDE DEF gs
<1>2. n + 1 \in 0 .. Len(gs) /\ Len(gs) # 0
  BY <1>1
<1>3. PICK g : g \in [1 .. n + 1 -> Seq(S)] /\ Joined(g, gs, n + 1)
  BY <1>1, <1>2, JoinedExists
<1>4. FlattenSeq(gs) = g[n + 1]
  BY <1>1, <1>2, <1>3, FlattenJoined
<1>5. g[n + 1] = IF n + 1 = 1 THEN gs[n + 1] ELSE g[n + 1 - 1] \o gs[n + 1]
  <2>1. n \in Nat /\ n + 1 \in 1 .. n + 1
    BY <1>1
  <2>2. Joined(g, gs, n + 1)
    BY <1>3
  <2> HIDE DEF n
  <2> QED BY <2>1, <2>2, JoinedAt
<1>6. CASE n = 0
  <2>1. fs = << >>
    BY <1>6
  <2>2. FlattenSeq(fs) \o c = c
    BY <2>1, FlattenNothing
  <2> QED BY <1>1, <1>4, <1>5, <1>6, <2>2 DEF gs
<1>7. CASE n # 0
  <2>1. n \in 0 .. n /\ n \in 1 .. n /\ n <= n + 1 /\ n + 1 \in Nat /\ n + 1 - 1 = n
    BY <1>1, <1>7
  <2>2. PICK f : f \in [1 .. n -> Seq(S)] /\ Joined(f, fs, n)
    BY <2>1, JoinedExists
  <2>3. FlattenSeq(fs) = f[n]
    BY <1>7, <2>2, FlattenJoined
  <2>4. \A i \in 1 .. n : f[i] = g[i]
    <3> DEFINE m == n + 1
    <3>1. n \in Nat /\ m \in Nat /\ n <= m
      BY <2>1
    <3>2. \A i \in 1 .. n : fs[i] = gs[i]
      BY <1>1
    <3>3. Joined(f, fs, n) /\ Joined(g, gs, m)
      BY <1>3, <2>2
    <3> HIDE DEF n, m
    <3> QED BY ONLY <3>1, <3>2, <3>3, JoinedAgree
  <2>5. f[n] = g[n]
    BY <2>1, <2>4
  <2> HIDE DEF n
  <2> QED BY <1>1, <1>4, <1>5, <1>7, <2>1, <2>3, <2>5 DEF gs
<1> QED BY <1>6, <1>7

(* One more piece in front comes first. *)
LEMMA FlattenCons ==
  ASSUME NEW S, NEW fs, fs \in Seq(Seq(S)), NEW h, h \in Seq(S)
  PROVE  FlattenSeq(<<h>> \o fs) = h \o FlattenSeq(fs)
<1> DEFINE gs == <<h>> \o fs
           n == Len(fs)
<1>1. /\ gs \in Seq(Seq(S)) /\ Len(gs) = n + 1 /\ gs[1] = h /\ n \in Nat
      /\ \A i \in 2 .. n + 1 : gs[i] = fs[i - 1]
  OBVIOUS
<1> HIDE DEF gs
<1>2. CASE n = 0
  <2>1. fs = << >> /\ 1 \in 0 .. Len(gs) /\ Len(gs) = 1 /\ Len(gs) # 0
    BY <1>1, <1>2
  <2>2. PICK g : g \in [1 .. 1 -> Seq(S)] /\ Joined(g, gs, 1)
    BY <1>1, <2>1, JoinedExists
  <2>3. FlattenSeq(gs) = g[1]
    <3>1. Joined(g, gs, Len(gs)) /\ gs \in Seq(Seq(S))
      BY <1>1, <2>1, <2>2
    <3> QED BY <2>1, <3>1, FlattenJoined
  <2>4. g[1] = h
    BY <1>1, <2>1, <2>2 DEF Joined
  <2>5. h \o FlattenSeq(fs) = h
    BY <2>1, FlattenNothing
  <2> QED BY <2>3, <2>4, <2>5 DEF gs
<1>3. CASE n # 0
  <2>1. n \in 0 .. n /\ n \in 1 .. n /\ Len(gs) # 0 /\ n + 1 \in 1 .. n + 1
    BY <1>1, <1>3
  <2>2. PICK f : f \in [1 .. n -> Seq(S)] /\ Joined(f, fs, n)
    BY <2>1, JoinedExists
  <2>3. FlattenSeq(fs) = f[n]
    BY <1>3, <2>2, FlattenJoined
  <2> DEFINE g == [i \in 1 .. n + 1 |-> IF i = 1 THEN h ELSE h \o f[i - 1]]
  <2>4. \A i \in 1 .. n + 1 : g[i] = IF i = 1 THEN gs[i] ELSE g[i - 1] \o gs[i]
    <3> TAKE i \in 1 .. n + 1
    <3>1. CASE i = 1
      BY <1>1, <3>1
    <3>2. CASE i # 1
      <4>1. i \in 2 .. n + 1 /\ i - 1 \in 1 .. n /\ i - 1 \in 1 .. n + 1
        BY <1>1, <3>2
      <4>2. gs[i] = fs[i - 1] /\ fs[i - 1] \in Seq(S) /\ f[i - 1] \in Seq(S)
        <5>1. \A j \in 1 .. n : fs[j] \in Seq(S)
          OBVIOUS
        <5> HIDE DEF n
        <5> QED BY <1>1, <2>2, <4>1, <5>1
      <4>3. g[i] = h \o f[i - 1]
        BY <3>2
      <4>4. f[i - 1] = IF i - 1 = 1 THEN fs[i - 1] ELSE f[i - 1 - 1] \o fs[i - 1]
        BY <2>2, <4>1 DEF Joined
      <4>5. g[i - 1] = IF i - 1 = 1 THEN h ELSE h \o f[i - 1 - 1]
        BY <4>1
      <4> HIDE DEF g
      <4>6. CASE i - 1 = 1
        BY <3>2, <4>2, <4>3, <4>4, <4>5, <4>6
      <4>7. CASE i - 1 # 1
        <5>1. i - 1 - 1 \in 1 .. n
          <6> HIDE DEF n
          <6> QED BY <1>1, <4>1, <4>7
        <5>2. f[i - 1 - 1] \in Seq(S)
          BY <2>2, <5>1
        <5> DEFINE before == f[i - 1 - 1]
                   piece == fs[i - 1]
        <5>3. before \in Seq(S) /\ piece \in Seq(S)
          BY <4>2, <5>2
        <5> HIDE DEF before, piece
        <5>4. h \o (before \o piece) = (h \o before) \o piece
          BY ONLY h \in Seq(S), <5>3
        <5> QED BY <3>2, <4>2, <4>3, <4>4, <4>5, <4>7, <5>4 DEF before, piece
      <4> QED BY <4>6, <4>7
    <3> QED BY <3>1, <3>2
  <2>5. Joined(g, gs, n + 1)
    <3>1. g = [i \in 1 .. n + 1 |-> g[i]]
      OBVIOUS
    <3> HIDE DEF g
    <3> QED BY <2>4, <3>1, JoinedBy
  <2>6. g[n + 1] = h \o f[n]
    BY <1>1, <1>3, <2>1
  <2> HIDE DEF g
  <2>7. FlattenSeq(gs) = g[n + 1]
    BY <1>1, <2>1, <2>5, FlattenJoined
  <2> QED BY <2>3, <2>6, <2>7 DEF gs
<1> QED BY <1>2, <1>3

-----------------------------------------------------------------------------
(* Nothing is lost.                                                        *)
(* A sample moved from the chunk to the ring stays where it is on the way. *)
LEMMA MovedOn ==
  ASSUME NEW c, NEW a, c \in Seq(Samples), a \in Seq(Samples), a # << >>
  PROVE  Append(c, Head(a)) \o Tail(a) = c \o a
  OBVIOUS

(* What is taken in front is taken of the whole. *)
LEMMA TailOfJoined ==
  ASSUME NEW c, NEW d, c \in Seq(Samples), d \in Seq(Samples), c # << >>
  PROVE  c \o d # << >> /\ Tail(c) \o d = Tail(c \o d)
  OBVIOUS

(* What is owed after t samples were taken of p of silence and q queued.   *)
Owed(p, q, t) ==
  [i \in 1 .. p + q - t |-> IF t + i <= p THEN Silence ELSE t + i - p]

LEMMA OwedTail ==
  ASSUME NEW p \in Nat, NEW q \in Nat, NEW t \in Nat, Owed(p, q, t) # << >>, t <= p + q
  PROVE  t + 1 <= p + q /\ Tail(Owed(p, q, t)) = Owed(p, q, t + 1)
<1>1. p + q - t \in Nat /\ t + 1 \in Nat
  OBVIOUS
<1>2. p + q - t # 0
  BY <1>1 DEF Owed
<1>3. t + 1 <= p + q /\ p + q - t - 1 = p + q - (t + 1) /\ p + q - (t + 1) \in Nat
  BY <1>1, <1>2
<1> DEFINE S == {Silence} \cup Nat
           s == Owed(p, q, t)
           u == Owed(p, q, t + 1)
<1>4. /\ s \in Seq(S) /\ Len(s) = p + q - t
      /\ \A i \in 1 .. p + q - t : s[i] = IF t + i <= p THEN Silence ELSE t + i - p
  BY <1>1 DEF Owed
<1>5. /\ u \in Seq(S) /\ Len(u) = p + q - (t + 1)
      /\ \A i \in 1 .. p + q - (t + 1) :
           u[i] = IF t + 1 + i <= p THEN Silence ELSE t + 1 + i - p
  BY <1>1, <1>3 DEF Owed
<1> HIDE DEF s, u, S
<1>6. /\ Tail(s) \in Seq(S) /\ Len(Tail(s)) = p + q - (t + 1)
      /\ \A i \in 1 .. p + q - (t + 1) : Tail(s)[i] = s[i + 1]
  BY <1>1, <1>2, <1>3, <1>4
<1>7. \A i \in 1 .. p + q - (t + 1) : Tail(s)[i] = u[i]
  <2> TAKE i \in 1 .. p + q - (t + 1)
  <2>1. i + 1 \in 1 .. p + q - t /\ t + (i + 1) = t + 1 + i
    BY <1>1, <1>3
  <2> QED BY <1>4, <1>5, <1>6, <2>1
<1>8. Tail(s) = u
  BY <1>5, <1>6, <1>7, SeqEqual
<1> QED BY <1>3, <1>8 DEF s, u

(* The samples from one after q up to z.                                   *)
Counted(q, z) == [i \in 1 .. z - q |-> q + i]

LEMMA OwedChunk ==
  ASSUME NEW p, NEW q, NEW t, NEW z,
         p \in Nat, q \in Nat, t \in Nat, z \in Nat, t <= p + q, q <= z
  PROVE  Owed(p, q, t) \o Counted(q, z) = Owed(p, z, t)
<1> DEFINE S == {Silence} \cup Nat
           s == Owed(p, q, t)
           c == Counted(q, z)
           u == Owed(p, z, t)
           m == p + q - t
           n == z - q
<1>1. n \in Nat /\ m \in Nat /\ p + z - t = m + n /\ m + n \in Nat
  OBVIOUS
<1>2. /\ s \in Seq(S) /\ Len(s) = m
      /\ \A i \in 1 .. m : s[i] = IF t + i <= p THEN Silence ELSE t + i - p
  BY <1>1 DEF Owed
<1>3. c \in Seq(S) /\ Len(c) = n /\ \A i \in 1 .. n : c[i] = q + i
  BY <1>1 DEF Counted
<1>4. /\ u \in Seq(S) /\ Len(u) = m + n
      /\ \A i \in 1 .. m + n : u[i] = IF t + i <= p THEN Silence ELSE t + i - p
  BY <1>1 DEF Owed
<1> HIDE DEF s, c, u, S
<1>5. /\ s \o c \in Seq(S) /\ Len(s \o c) = m + n
      /\ \A i \in 1 .. m + n : (s \o c)[i] = IF i <= m THEN s[i] ELSE c[i - m]
  <2> HIDE DEF m, n
  <2>1. /\ m \in Nat /\ n \in Nat /\ s \in Seq(S) /\ Len(s) = m
        /\ c \in Seq(S) /\ Len(c) = n
    BY <1>1, <1>2, <1>3
  <2> QED BY ONLY <2>1
<1>6. \A i \in 1 .. m + n : (s \o c)[i] = u[i]
  <2> TAKE i \in 1 .. m + n
  <2>1. CASE i <= m
    <3>1. i \in 1 .. m
      BY <1>1, <2>1
    <3> HIDE DEF m, n
    <3> QED BY <1>2, <1>4, <1>5, <2>1, <3>1
  <2>2. CASE ~(i <= m)
    <3>1. i - m \in 1 .. n /\ ~(t + i <= p) /\ t + i - p = q + (i - m)
      BY <1>1, <2>2
    <3> HIDE DEF m, n
    <3> QED BY <1>3, <1>4, <1>5, <2>2, <3>1
  <2> QED BY <2>1, <2>2
<1> HIDE DEF m, n
<1>7. s \o c = u
  BY <1>1, <1>4, <1>5, <1>6, SeqEqual
<1> QED BY <1>7 DEF s, c, u

LEMMA OwedPreroll ==
  ASSUME NEW q \in Nat
  PROVE  Preroll \o Owed(0, q, 0) = Owed(PREROLL, q, 0)
<1> USE StreamAssumption
<1> DEFINE S == {Silence} \cup Nat
           s == Owed(0, q, 0)
           u == Owed(PREROLL, q, 0)
           c == Preroll
<1>1. PREROLL \in Nat /\ PREROLL + q \in Nat
  OBVIOUS
<1>2. s \in Seq(S) /\ Len(s) = q /\ \A i \in 1 .. q : s[i] = i
  <2>1. \A i \in 1 .. q : ~(0 + i <= 0) /\ 0 + i - 0 = i
    OBVIOUS
  <2>2. 0 + q - 0 = q
    OBVIOUS
  <2> QED BY <2>1, <2>2 DEF Owed
<1>3. c \in Seq(S) /\ Len(c) = PREROLL /\ \A i \in 1 .. PREROLL : c[i] = Silence
  BY <1>1 DEF Preroll
<1>4. /\ u \in Seq(S) /\ Len(u) = PREROLL + q
      /\ \A i \in 1 .. PREROLL + q : u[i] = IF i <= PREROLL THEN Silence ELSE i - PREROLL
  <2>1. PREROLL + q - 0 = PREROLL + q /\ \A i \in 1 .. PREROLL + q : 0 + i = i
    BY <1>1
  <2> QED BY <1>1, <2>1 DEF Owed
<1> HIDE DEF s, c, u, S
<1>5. /\ c \o s \in Seq(S) /\ Len(c \o s) = PREROLL + q
      /\ \A i \in 1 .. PREROLL + q :
           (c \o s)[i] = IF i <= PREROLL THEN c[i] ELSE s[i - PREROLL]
  BY <1>1, <1>2, <1>3
<1>6. \A i \in 1 .. PREROLL + q : (c \o s)[i] = u[i]
  <2> TAKE i \in 1 .. PREROLL + q
  <2>1. CASE i <= PREROLL
    <3>1. i \in 1 .. PREROLL
      BY <1>1, <2>1
    <3> QED BY <1>3, <1>4, <1>5, <2>1, <3>1
  <2>2. CASE ~(i <= PREROLL)
    <3>1. i - PREROLL \in 1 .. q
      BY <1>1, <2>2
    <3> QED BY <1>2, <1>4, <1>5, <2>2, <3>1
  <2> QED BY <2>1, <2>2
<1>7. c \o s = u
  BY <1>1, <1>4, <1>5, <1>6, SeqEqual
<1> QED BY <1>7 DEF s, c, u

-----------------------------------------------------------------------------
(* Before the worklet is ready nothing has reached it, and nothing is left *)
(* in the list afterwards.                                                 *)
Early == worklet # "ready" => /\ port = << >> /\ arriving = << >>
                              /\ Empty(ring) /\ taken = 0
Late == worklet = "ready" => pending = << >>

LostInv == NothingLost /\ taken <= Primed + queued /\ Early /\ Late

LEMMA NothingLostIs == NothingLost <=> OnTheWay = Owed(Primed, queued, taken)
  BY DEF NothingLost, Owed

LEMMA LostInvInit == Init => LostInv
<1> SUFFICES ASSUME Init PROVE LostInv
  OBVIOUS
<1>1. RingOK(ring) /\ Empty(ring)
  BY NewRingOK DEF Init, Empty, NewRing
<1>2. Early /\ Late /\ taken = 0 /\ queued = 0 /\ Primed = 0
  BY <1>1 DEF Init, Early, Late, Primed
<1>3. OnTheWay = << >>
  <2>1. Contents(ring) = << >>
    BY <1>1, EmptyContents
  <2>2. port \o pending = << >> /\ arriving = << >>
    BY DEF Init
  <2>3. FlattenSeq(port \o pending) = << >>
    BY <2>2, FlattenNothing, Zenon
  <2> QED BY <2>1, <2>2, <2>3 DEF OnTheWay
<1>4. NothingLost
  <2>1. 1 .. Primed + queued - taken = 1 .. 0
    BY <1>2
  <2> QED BY <1>3, <2>1 DEF NothingLost
<1> QED BY <1>2, <1>4 DEF LostInv

LEMMA LostInvNext == IInv /\ LostInv /\ [Next]_vars => LostInv'
<1> SUFFICES ASSUME IInv, LostInv, [Next]_vars PROVE LostInv'
  OBVIOUS
<1> USE StreamAssumption
<1> DEFINE C == Contents(ring)
           A == arriving
           F == FlattenSeq(port \o pending)
           O == Owed(Primed, queued, taken)
<1>1. RingOK(ring) /\ TypeOK
  BY DEF IInv, TypeOK, RingConsistent, RingOK
<1>2. /\ C \in Seq(Samples) /\ A \in Seq(Samples)
      /\ port \o pending \in Seq(Seq(Samples)) /\ F \in Seq(Samples)
  <2>1. C \in Seq(Samples) /\ A \in Seq(Samples) /\ port \o pending \in Seq(Seq(Samples))
    BY <1>1, ContentsType DEF TypeOK
  <2> HIDE DEF C, A
  <2> QED BY <2>1, FlattenType
<1>3. Primed \in Nat /\ queued \in Nat /\ taken \in Nat /\ taken <= Primed + queued
  BY <1>1 DEF TypeOK, Primed, LostInv
<1>4. (C \o A) \o F = O /\ Early /\ Late
  BY NothingLostIs DEF LostInv, OnTheWay
<1>5. C' = Contents(ring') /\ A' = arriving' /\ F' = FlattenSeq(port' \o pending')
      /\ O' = Owed(Primed', queued', taken')
  BY DEF Contents
<1>6. ASSUME (C' \o A') \o F' = O', taken' <= Primed' + queued', Early', Late'
      PROVE  LostInv'
  BY <1>6 DEF LostInv, NothingLost, OnTheWay, Owed
<1> HIDE DEF C, A, F, O
(* Nothing on its way, nothing taken, no worklet. *)
<1>7. ASSUME UNCHANGED <<ring, arriving, port, pending, queued, taken>>,
             Primed' = Primed, Early', Late'
      PROVE  LostInv'
  <2>1. C' = C /\ A' = A /\ F' = F /\ O' = O
    BY <1>7 DEF C, A, F, O, Contents
  <2>2. taken' <= Primed' + queued'
    BY <1>3, <1>7
  <2> QED BY <1>4, <1>6, <1>7, <2>1, <2>2
<1>8. CASE Start
  <2>1. UNCHANGED <<ring, arriving, port, pending, queued, taken>> /\ Primed' = Primed
    BY <1>8 DEF Start, audioVars, Primed
  <2>2. Early' /\ Late'
    BY <1>4, <1>8 DEF Start, audioVars, Early, Late, Empty
  <2> QED BY <1>7, <2>1, <2>2
<1>9. CASE Fails
  <2>1. UNCHANGED <<ring, arriving, port, pending, queued, taken>> /\ Primed' = Primed
    BY <1>9 DEF Fails, audioVars, Primed
  <2>2. Early' /\ Late'
    BY <1>4, <1>9 DEF Fails, audioVars, Early, Late, Empty
  <2> QED BY <1>7, <2>1, <2>2
<1>10. CASE Process
  <2>1. UNCHANGED <<ring, arriving, port, pending, queued, taken>> /\ Primed' = Primed
    BY <1>10 DEF Process, mainVars, Primed
  <2>2. Early' /\ Late'
    BY <1>4, <1>10 DEF Process, mainVars, Early, Late, Empty
  <2> QED BY <1>7, <2>1, <2>2
<1>11. CASE UNCHANGED vars
  <2>1. UNCHANGED <<ring, arriving, port, pending, queued, taken>> /\ Primed' = Primed
    BY <1>11 DEF vars, Primed
  <2>2. Early' /\ Late'
    BY <1>4, <1>11 DEF vars, Early, Late, Empty
  <2> QED BY <1>7, <2>1, <2>2
<1>12. CASE Ready
  <2>1. /\ worklet = "loading" /\ worklet' = "ready"
        /\ port' = <<Preroll>> \o pending /\ pending' = << >>
        /\ UNCHANGED <<ring, arriving, queued, taken>>
    BY <1>12 DEF Ready, audioVars
  <2>2. /\ port = << >> /\ A = << >> /\ Empty(ring) /\ taken = 0 /\ Primed = 0
        /\ Primed' = PREROLL
    BY <1>4, <2>1 DEF Early, Primed, A
  <2>3. C = << >> /\ C' = C /\ A' = A
    BY <1>1, <2>1, <2>2, EmptyContents DEF C, A, Contents
  <2>4. Preroll \in Seq(Samples) /\ pending \in Seq(Seq(Samples))
    BY <1>1 DEF Preroll, TypeOK
  <2>5. F' = Preroll \o F
    <3>1. port \o pending = pending
      BY <2>2, <2>4
    <3>2. port' \o pending' = <<Preroll>> \o pending
      BY <2>1, <2>4
    <3>3. FlattenSeq(<<Preroll>> \o pending) = Preroll \o FlattenSeq(pending)
      BY <2>4, FlattenCons
    <3> QED BY <3>1, <3>2, <3>3, Zenon DEF F
  <2>6. F = Owed(0, queued, 0)
    BY <1>2, <1>4, <2>2, <2>3 DEF O
  <2>7. O' = Owed(PREROLL, queued, 0)
    BY <1>5, <2>1, <2>2
  <2>8. F' = O'
    BY <1>3, <2>5, <2>6, <2>7, OwedPreroll
  <2>9. F' \in Seq(Samples)
    BY <1>2, <2>4, <2>5
  <2>10. (C' \o A') \o F' = O'
    BY <2>2, <2>3, <2>8, <2>9
  <2>11. taken' <= Primed' + queued'
    BY <1>3, <2>1, <2>2
  <2>12. Early' /\ Late'
    BY <2>1 DEF Early, Late
  <2> QED BY <1>6, <2>10, <2>11, <2>12
<1>13. CASE Queue
  <2>1. PICK n \in ChunkLengths :
          /\ n > 0 /\ queued + n <= LAST_SAMPLE /\ queued' = queued + n
          /\ IF worklet = "ready"
             THEN port' = Append(port, Chunk(n)) /\ UNCHANGED pending
             ELSE pending' = Append(pending, Chunk(n)) /\ UNCHANGED port
          /\ UNCHANGED worklet /\ UNCHANGED audioVars
    BY <1>13 DEF Queue
  <2>2. n \in Nat /\ Chunk(n) \in Seq(Samples)
    BY <1>1, <2>1 DEF Chunk, TypeOK
  <2>3. port' \o pending' = Append(port \o pending, Chunk(n))
    <3> DEFINE c == Chunk(n)
    <3>1. port \in Seq(Seq(Samples)) /\ pending \in Seq(Seq(Samples)) /\ c \in Seq(Samples)
      BY <1>1, <2>2 DEF TypeOK
    <3> HIDE DEF c
    <3>2. CASE worklet = "ready"
      <4>1. pending = << >> /\ pending' = << >> /\ port' = Append(port, c)
        BY <1>4, <2>1, <3>2 DEF Late, c
      <4>2. port \o << >> = port /\ Append(port, c) \o << >> = Append(port, c)
        BY <3>1
      <4> QED BY <4>1, <4>2 DEF c
    <3>3. CASE worklet # "ready"
      <4>1. port = << >> /\ port' = << >> /\ pending' = Append(pending, c)
        BY <1>4, <2>1, <3>3 DEF Early, c
      <4>2. << >> \o pending = pending /\ << >> \o Append(pending, c) = Append(pending, c)
        BY <3>1
      <4> QED BY <4>1, <4>2 DEF c
    <3> QED BY <3>2, <3>3
  <2>4. F' = F \o Chunk(n)
    <3>1. FlattenSeq(Append(port \o pending, Chunk(n)))
            = FlattenSeq(port \o pending) \o Chunk(n)
      BY <1>2, <2>2, FlattenAppend
    <3> QED BY <2>3, <3>1, Zenon DEF F
  <2>5. C' = C /\ A' = A /\ taken' = taken /\ Primed' = Primed
    BY <2>1 DEF C, A, Contents, audioVars, Primed
  <2>6. O' = O \o Chunk(n)
    <3> DEFINE c == Chunk(n)
               z == queued'
    <3>1. c = Counted(queued, z) /\ z \in Nat /\ queued <= z
      <4>1. z - queued = n /\ z \in Nat /\ queued <= z
        BY <1>3, <2>1, <2>2
      <4> QED BY <4>1 DEF Chunk, Counted
    <3>2. O' = Owed(Primed, z, taken)
      BY <1>5, <2>5
    <3> HIDE DEF c, z
    <3>3. Owed(Primed, queued, taken) \o Counted(queued, z) = Owed(Primed, z, taken)
      BY ONLY <1>3, <3>1, OwedChunk
    <3> QED BY <3>1, <3>2, <3>3 DEF O, c
  <2>7. (C' \o A') \o F' = O'
    <3> DEFINE c == Chunk(n)
               b == C \o A
    <3>1. b \in Seq(Samples) /\ F \in Seq(Samples) /\ c \in Seq(Samples)
      BY <1>2, <2>2
    <3> HIDE DEF b, c
    <3>2. b \o (F \o c) = (b \o F) \o c
      BY ONLY <3>1
    <3> QED BY <1>4, <2>4, <2>5, <2>6, <3>2 DEF b, c
  <2>8. taken' <= Primed' + queued'
    BY <1>3, <2>1, <2>2, <2>5
  <2>9. Early' /\ Late'
    BY <1>4, <2>1 DEF Early, Late, Empty, audioVars
  <2> QED BY <1>6, <2>7, <2>8, <2>9
<1>14. CASE Receive
  <2>1. /\ A = << >> /\ port # << >> /\ A' = Head(port) /\ port' = Tail(port)
        /\ UNCHANGED <<worklet, pending, queued, ring, taken>>
    BY <1>14 DEF Receive, Idle, A
  <2>2. /\ port \in Seq(Seq(Samples)) /\ pending \in Seq(Seq(Samples))
        /\ Head(port) \in Seq(Samples) /\ Tail(port) \in Seq(Seq(Samples))
    BY <1>1, <2>1 DEF TypeOK
  <2>3. F = A' \o F'
    <3> DEFINE h == Head(port)
               r == Tail(port) \o pending
    <3>1. h \in Seq(Samples) /\ r \in Seq(Seq(Samples))
      BY <2>2
    <3>2. port \o pending = <<h>> \o r
      BY <2>1, <2>2
    <3> HIDE DEF h, r
    <3>3. FlattenSeq(<<h>> \o r) = h \o FlattenSeq(r)
      BY ONLY <3>1, FlattenCons
    <3>4. F' = FlattenSeq(r) /\ A' = h
      BY <1>5, <2>1 DEF h, r
    <3> QED BY <3>2, <3>3, <3>4 DEF F
  <2>4. F' \in Seq(Samples)
    <3>1. port' \o pending' \in Seq(Seq(Samples))
      BY <2>1, <2>2
    <3> QED BY <1>5, <3>1, FlattenType
  <2>5. C' = C /\ O' = O /\ Primed' = Primed
    BY <2>1 DEF C, O, Contents, Primed
  <2>6. (C' \o A') \o F' = O'
    <3>1. A' \in Seq(Samples) /\ C \in Seq(Samples)
      BY <1>2, <2>1, <2>2
    <3>2. (C \o A') \o F' = C \o (A' \o F')
      BY ONLY <2>4, <3>1
    <3>3. C \o A = C
      BY <2>1, <3>1
    <3> QED BY <1>4, <2>3, <2>5, <3>2, <3>3
  <2>7. taken' <= Primed' + queued'
    BY <1>3, <2>1, <2>5
  <2>8. Early' /\ Late'
    BY <1>4, <2>1 DEF Early, Late, Empty
  <2> QED BY <1>6, <2>6, <2>7, <2>8
<1>15. CASE Store
  <2>1. /\ A # << >> /\ ring' = push(ring, Head(A)) /\ A' = Tail(A)
        /\ taken' = IF Full(ring) THEN taken + 1 ELSE taken
        /\ UNCHANGED <<worklet, pending, port, queued>>
    BY <1>15 DEF Store, mainVars, A
  <2>2. F' = F /\ Primed' = Primed
    BY <2>1 DEF F, Primed
  <2>3. worklet = "ready" /\ Early' /\ Late'
    BY <1>4, <2>1 DEF Early, Late, A
  <2>4. Head(A) \in Samples /\ Tail(A) \in Seq(Samples) /\ C' = Contents(push(ring, Head(A)))
    BY <1>2, <1>5, <2>1
  <2>5. CASE ~Full(ring)
    <3>1. C' = Append(C, Head(A))
      BY <1>1, <2>4, <2>5, PushAppends DEF C
    <3>2. C' \o A' = C \o A
      BY <1>2, <2>1, <3>1, MovedOn
    <3>3. O' = O /\ taken' = taken
      BY <2>1, <2>2, <2>5 DEF O
    <3>4. taken' <= Primed' + queued'
      BY <1>3, <2>1, <2>2, <3>3
    <3> QED BY <1>4, <1>6, <2>2, <2>3, <3>2, <3>3, <3>4
  <2>6. CASE Full(ring)
    <3>1. C' = Append(Tail(C), Head(A))
      BY <1>1, <2>4, <2>6, PushDropsOldest DEF C
    <3>2. C # << >>
      <4>1. Len(C) = CAPACITY /\ CAPACITY # 0
        BY <1>1, <2>6, ContentsType DEF C, Full
      <4> QED BY <4>1
    <3>3. Tail(C) \in Seq(Samples)
      BY <1>2, <3>2
    <3>4. C' \o A' = Tail(C) \o A
      BY <1>2, <2>1, <3>1, <3>3, MovedOn
    <3>5. C \o A # << >> /\ Tail(C) \o A = Tail(C \o A)
      BY <1>2, <3>2, TailOfJoined
    <3>6. O # << >> /\ Tail(C \o A) \o F = Tail(O)
      <4>1. C \o A \in Seq(Samples)
        BY <1>2
      <4> QED BY <1>2, <1>4, <3>5, <4>1, TailOfJoined
    <3>7. taken + 1 <= Primed + queued /\ Tail(O) = Owed(Primed, queued, taken + 1)
      BY <1>3, <3>6, OwedTail DEF O
    <3>8. O' = Tail(O) /\ taken' = taken + 1
      BY <1>5, <2>1, <2>2, <2>6, <3>7
    <3>9. taken' <= Primed' + queued'
      BY <2>1, <2>2, <3>7, <3>8
    <3> QED BY <1>6, <2>2, <2>3, <3>4, <3>5, <3>6, <3>8, <3>9
  <2> QED BY <2>5, <2>6
<1>16. CASE PutOut
  <2>1. /\ IF Empty(ring) THEN UNCHANGED <<ring, taken>>
           ELSE ring' = pull(ring) /\ taken' = taken + 1
        /\ UNCHANGED <<arriving, worklet, pending, port, queued>>
    BY <1>16 DEF PutOut, mainVars
  <2>2. CASE Empty(ring)
    <3>1. UNCHANGED <<ring, arriving, port, pending, queued, taken>> /\ Primed' = Primed
      BY <2>1, <2>2 DEF Primed
    <3>2. Early' /\ Late'
      BY <1>4, <2>1, <2>2 DEF Early, Late, Empty
    <3> QED BY <1>7, <3>1, <3>2
  <2>3. CASE ~Empty(ring)
    <3>1. F' = F /\ A' = A /\ Primed' = Primed /\ taken' = taken + 1
      BY <2>1, <2>3 DEF F, A, Primed
    <3>2. worklet = "ready" /\ Early' /\ Late'
      BY <1>4, <2>1, <2>3 DEF Early, Late
    <3>3. C # << >> /\ C' = Tail(C)
      BY <1>1, <1>5, <2>1, <2>3, PullTakesFirst DEF C
    <3>4. C \o A # << >> /\ Tail(C) \o A = Tail(C \o A)
      BY <1>2, <3>3, TailOfJoined
    <3>5. O # << >> /\ Tail(C \o A) \o F = Tail(O)
      <4>1. C \o A \in Seq(Samples)
        BY <1>2
      <4> QED BY <1>2, <1>4, <3>4, <4>1, TailOfJoined
    <3>6. taken + 1 <= Primed + queued /\ Tail(O) = Owed(Primed, queued, taken + 1)
      BY <1>3, <3>5, OwedTail DEF O
    <3>7. O' = Tail(O)
      BY <1>5, <2>1, <3>1, <3>6
    <3>8. taken' <= Primed' + queued'
      BY <2>1, <3>1, <3>6
    <3> QED BY <1>6, <3>1, <3>2, <3>3, <3>4, <3>5, <3>7, <3>8
  <2> QED BY <2>2, <2>3
<1> QED BY <1>8, <1>9, <1>10, <1>11, <1>12, <1>13, <1>14, <1>15, <1>16 DEF Next

(* No sample is lost, repeated or overtaken between the page that queues   *)
(* it and the loudspeaker, but the oldest that a full ring drops, which is *)
(* counted (audio.ts:29-60, 165-172 and 196-205): for every capacity of    *)
(* the ring, every preroll, block and length of the chunks.                *)
THEOREM StreamNothingLost == Spec => []NothingLost
<1>1. LostInv => NothingLost
  BY DEF LostInv
<1> QED BY <1>1, LostInvInit, LostInvNext, StreamInvariant, PTL DEF Spec

-----------------------------------------------------------------------------
(* The main loop.                                                          *)
(* Fields and functions of the loop are what their names say.              *)
LoopType ==
  /\ made \subseteq Loops /\ lag \in [Loops -> Int]
  /\ requests \in [DOMAIN requests -> made]
  /\ DOMAIN requests \subseteq Handles /\ due \subseteq DOMAIN requests
  /\ running = [loop |-> running.loop, left |-> running.left, hook |-> running.hook]
  /\ running.left \in Nat /\ running.hook \in BOOLEAN
  /\ running # Nothing => running.loop \in made

(* A loop is asked for under one handle, and not while it runs.            *)
OneHandleEach ==
  /\ \A h, k \in DOMAIN requests : requests[h] = requests[k] => h = k
  /\ running # Nothing =>
       \A h \in DOMAIN requests : requests[h] # running.loop

LoopInv == LoopType /\ OneHandleEach /\ RunningIsScheduled

(* Handles never run out: there are as many as loops, one that is          *)
(* remembered and a new one.                                               *)
LEMMA FreshIsFree ==
  ASSUME LoopInv
  PROVE  Fresh \in Handles \ (DOMAIN requests \cup due \cup {rafHandle})
<1> DEFINE D == DOMAIN requests
           N == Cardinality(Loops)
           Used == D \cup due \cup {rafHandle}
           Left == Handles \ Used
<1>1. IsFiniteSet(Loops) /\ N \in Nat
  BY LoopAssumption, FS_CardinalityType DEF LoopAssumption
<1>2. IsFiniteSet(D) /\ Cardinality(D) <= N
  <2>1. requests \in Injection(D, Loops)
    BY DEF LoopInv, LoopType, OneHandleEach, Injection, IsInjective
  <2> HIDE DEF D
  <2> QED BY <1>1, <2>1, FS_Injection
<1>3. IsFiniteSet(Used) /\ Cardinality(Used) <= N + 1
  <2>1. Used = D \cup {rafHandle}
    BY DEF LoopInv, LoopType
  <2> HIDE DEF D, N
  <2>2. /\ IsFiniteSet(D \cup {rafHandle})
        /\ Cardinality(D \cup {rafHandle}) = Cardinality(D)
           \/ Cardinality(D \cup {rafHandle}) = Cardinality(D) + 1
    BY <1>2, FS_AddElement
  <2>3. Cardinality(D) \in Nat
    BY <1>2, FS_CardinalityType
  <2> HIDE DEF Used
  <2>4. /\ IsFiniteSet(Used)
        /\ Cardinality(Used) = Cardinality(D) \/ Cardinality(Used) = Cardinality(D) + 1
    BY ONLY <2>1, <2>2
  <2> QED BY ONLY <1>1, <1>2, <2>3, <2>4
<1>4. IsFiniteSet(Handles) /\ Cardinality(Handles) = N + 2
  <2> HIDE DEF N
  <2>1. 1 \in Int /\ N + 2 \in Int /\ ~(1 > N + 2) /\ N + 2 - 1 + 1 = N + 2
    BY <1>1
  <2>2. Cardinality(1 .. N + 2) = N + 2 /\ IsFiniteSet(1 .. N + 2)
    BY <2>1, FS_Interval
  <2> QED BY <2>2 DEF N, Handles
<1>5. Left # {}
  <2> SUFFICES ASSUME Handles \subseteq Used PROVE FALSE
    OBVIOUS
  <2> HIDE DEF Used, N
  <2>1. Cardinality(Handles) <= Cardinality(Used)
    BY <1>3, FS_Subset
  <2>2. Cardinality(Used) \in Nat
    BY <1>3, FS_CardinalityType
  <2> QED BY <1>1, <1>3, <1>4, <2>1, <2>2
<1>6. Left \subseteq Nat
  BY <1>1 DEF Handles
<1>7. Fresh = Min(Left)
  BY DEF Fresh
<1> HIDE DEF Left
<1>8. Min(Left) \in Left
  <2>1. PICK n \in Left : \A m \in Left : n <= m
    BY <1>5, <1>6, LeastNat
  <2> QED BY <2>1 DEF Min
<1> QED BY <1>7, <1>8 DEF Left

(* At least one frame is run.                                              *)
LEMMA ToRunSome ==
  ASSUME LoopType, NEW l \in Loops
  PROVE  ToRun(l) \in Nat /\ ToRun(l) >= 1
<1> DEFINE behind == lag[l] \div FRAME + 1
           few == Min({behind, MAX_CATCHUP})
<1>1. behind \in Int /\ MAX_CATCHUP \in Int
  BY LoopAssumption DEF LoopType, LoopAssumption
<1> HIDE DEF behind
<1>2. few \in Int
  <2>1. \E x \in {behind, MAX_CATCHUP} : \A y \in {behind, MAX_CATCHUP} : x <= y
    BY <1>1
  <2>2. few \in {behind, MAX_CATCHUP}
    BY <2>1 DEF Min
  <2> QED BY <1>1, <2>2
<1>3. ToRun(l) = Max({1, few})
  BY DEF ToRun, behind
<1> HIDE DEF few
<1>4. Max({1, few}) \in {1, few} /\ Max({1, few}) >= 1
  <2>1. \E x \in {1, few} : \A y \in {1, few} : x >= y
    BY <1>2
  <2> DEFINE m == CHOOSE x \in {1, few} : \A y \in {1, few} : x >= y
  <2>2. m \in {1, few} /\ \A y \in {1, few} : m >= y
    BY <2>1
  <2> HIDE DEF m
  <2>3. m \in {1, few} /\ m >= 1
    BY <2>2
  <2> QED BY <2>3 DEF m, Max
<1> QED BY <1>2, <1>3, <1>4

(* One more request, for a loop that has none. *)
LEMMA RequestedOnce ==
  ASSUME LoopInv, NEW l,
         \A h \in DOMAIN requests : requests[h] # l
  PROVE  LET r == Requested(l)
         IN  /\ DOMAIN r = DOMAIN requests \cup {Fresh}
             /\ r \in [DOMAIN r -> made \cup {l}]
             /\ DOMAIN r \subseteq Handles /\ due \subseteq DOMAIN r
             /\ r[Fresh] = l
             /\ \A h \in DOMAIN requests : r[h] = requests[h]
             /\ \A h, k \in DOMAIN r : r[h] = r[k] => h = k
<1> DEFINE r == Requested(l)
           D == DOMAIN requests
           new == Fresh
<1>1. new \in Handles /\ new \notin D /\ D \subseteq Handles /\ due \subseteq D
      /\ requests \in [D -> made]
      /\ \A h, k \in D : requests[h] = requests[k] => h = k
  BY FreshIsFree DEF LoopInv, LoopType, OneHandleEach
<1>2. r = [h \in D \cup {new} |-> IF h = new THEN l ELSE requests[h]]
  BY DEF Requested
<1> HIDE DEF r, new
<1>3. DOMAIN r = D \cup {new} /\ r[new] = l /\ \A h \in D : r[h] = requests[h]
  BY <1>1, <1>2
<1>4. r \in [D \cup {new} -> made \cup {l}]
  BY <1>1, <1>2
<1>5. \A h, k \in D \cup {new} : r[h] = r[k] => h = k
  <2> HIDE DEF D
  <2> QED BY <1>1, <1>3 DEF D
<1> QED BY <1>1, <1>3, <1>4, <1>5 DEF r, new

(* One request less. *)
LEMMA WithoutOne ==
  ASSUME LoopInv, NEW h
  PROVE  LET r == Without(requests, h)
         IN  /\ DOMAIN r = DOMAIN requests \ {h}
             /\ r \in [DOMAIN r -> made] /\ DOMAIN r \subseteq Handles
             /\ \A k \in DOMAIN r : r[k] = requests[k]
             /\ \A j, k \in DOMAIN r : r[j] = r[k] => j = k
  BY DEF LoopInv, LoopType, OneHandleEach, Without

LEMMA LoopInvInit == LoopInit => LoopInv
  BY DEF LoopInit, LoopInv, LoopType, OneHandleEach, Nothing, Null,
         RunningIsScheduled

LEMMA LoopInvNext ==
  LoopInv /\ [LoopNext]_loopVars => LoopInv'
<1> SUFFICES ASSUME LoopInv, [LoopNext]_loopVars PROVE LoopInv'
  OBVIOUS
<1> USE LoopAssumption
<1>1. LoopType /\ OneHandleEach /\ RunningIsScheduled
  BY DEF LoopInv
<1>2. CASE StartLoop
  <2>1. PICK l \in Loops \ made :
          /\ made' = made \cup {l}
          /\ requests' = Requested(l) /\ rafHandle' = Fresh
          /\ UNCHANGED <<lag, due, running>>
    BY <1>2 DEF StartLoop
  <2>2. \A h \in DOMAIN requests : requests[h] # l
    BY <1>1, <2>1 DEF LoopType
  <2> DEFINE r == Requested(l)
             new == Fresh
  <2>3. /\ DOMAIN r = DOMAIN requests \cup {new}
        /\ r \in [DOMAIN r -> made \cup {l}]
        /\ DOMAIN r \subseteq Handles /\ due \subseteq DOMAIN r
        /\ r[new] = l
        /\ \A h \in DOMAIN requests : r[h] = requests[h]
        /\ \A h, k \in DOMAIN r : r[h] = r[k] => h = k
    BY <2>2, RequestedOnce
  <2> HIDE DEF r, new
  <2>4. requests' = r /\ rafHandle' = new
    BY <2>1 DEF r, new
  <2>5. LoopType'
    BY <1>1, <2>1, <2>3, <2>4 DEF LoopType, Handles, Nothing, Null
  <2>6. OneHandleEach'
    <3>1. running # Nothing => running.loop # l
      BY <1>1, <2>1 DEF LoopType
    <3> QED BY <1>1, <2>1, <2>3, <2>4, <3>1 DEF OneHandleEach, Nothing, Null
  <2>7. RunningIsScheduled'
    BY <2>3, <2>4 DEF RunningIsScheduled
  <2> QED BY <2>5, <2>6, <2>7 DEF LoopInv
<1>3. CASE StopLoop
  <2> DEFINE r == Without(requests, rafHandle)
  <2>1. /\ requests' = r /\ due' = due \ {rafHandle} /\ rafHandle' = Null
        /\ UNCHANGED <<made, lag, running>>
    BY <1>3 DEF StopLoop
  <2>2. /\ DOMAIN r = DOMAIN requests \ {rafHandle}
        /\ r \in [DOMAIN r -> made] /\ DOMAIN r \subseteq Handles
        /\ \A k \in DOMAIN r : r[k] = requests[k]
        /\ \A j, k \in DOMAIN r : r[j] = r[k] => j = k
    BY WithoutOne
  <2> HIDE DEF r
  <2>3. LoopType'
    BY <1>1, <2>1, <2>2 DEF LoopType, Handles, Nothing, Null
  <2>4. OneHandleEach'
    BY <1>1, <2>1, <2>2 DEF OneHandleEach, Nothing, Null
  <2> QED BY <2>1, <2>3, <2>4 DEF LoopInv, RunningIsScheduled
(* An animation frame moves the clocks and makes the requests due. *)
<1>4. ASSUME NEW ticks \in Int, FrameBegins(ticks) PROVE LoopInv'
  <2>1. /\ lag' = [l \in Loops |-> IF l \in timed /\ Scheduled(l)
                                   THEN lag[l] + ticks ELSE lag[l]]
        /\ due' = DOMAIN requests /\ UNCHANGED <<made, requests, rafHandle, running>>
    BY <1>4 DEF FrameBegins
  <2>2. lag' \in [Loops -> Int]
    <3> DEFINE later == [l \in Loops |-> IF l \in timed /\ Scheduled(l)
                                         THEN lag[l] + ticks ELSE lag[l]]
    <3>1. \A l \in Loops : lag[l] \in Int /\ lag[l] + ticks \in Int
      BY <1>1 DEF LoopType
    <3>2. later \in [Loops -> Int]
      BY <3>1
    <3> QED BY <2>1, <3>2
  <2>3. LoopType'
    BY <1>1, <2>1, <2>2 DEF LoopType, Handles, Nothing, Null
  <2>4. OneHandleEach' /\ RunningIsScheduled'
    BY <1>1, <2>1 DEF OneHandleEach, RunningIsScheduled, Nothing, Null
  <2> QED BY <2>3, <2>4 DEF LoopInv
<1>5. CASE Refresh
  <2>1. PICK ticks \in Refreshes : FrameBegins(ticks)
    BY <1>5 DEF Refresh
  <2>2. ticks \in Int
    BY <2>1 DEF LoopAssumption
  <2> QED BY <1>4, <2>1, <2>2
<1>6. CASE Suspend
  <2>1. FrameBegins(SUSPENSION) /\ SUSPENSION \in Int
    BY <1>6 DEF Suspend, LoopAssumption
  <2> QED BY <1>4, <2>1
<1>7. CASE CallBack
  <2> DEFINE Begun(l) == [loop |-> l, left |-> ToRun(l), hook |-> FALSE]
  <2>1. PICK h \in due :
          /\ running = Nothing /\ running' = Begun(requests[h])
          /\ due' = due \ {h} /\ requests' = Without(requests, h)
          /\ UNCHANGED <<made, lag, rafHandle>>
    BY <1>7 DEF CallBack
  <2> DEFINE l == requests[h]
             r == Without(requests, h)
  <2>2. h \in DOMAIN requests /\ l \in made /\ l \in Loops
    BY <1>1, <2>1 DEF LoopType
  <2>3. ToRun(l) \in Nat /\ ToRun(l) >= 1
    BY <1>1, <2>2, ToRunSome
  <2>4. /\ DOMAIN r = DOMAIN requests \ {h}
        /\ r \in [DOMAIN r -> made] /\ DOMAIN r \subseteq Handles
        /\ \A k \in DOMAIN r : r[k] = requests[k]
        /\ \A j, k \in DOMAIN r : r[j] = r[k] => j = k
    BY WithoutOne
  <2>5. \A k \in DOMAIN r : r[k] # l
    BY <1>1, <2>2, <2>4 DEF OneHandleEach
  <2> DEFINE n == ToRun(l)
  <2>6. requests' = r /\ running' = [loop |-> l, left |-> n, hook |-> FALSE]
    BY <2>1
  <2>7. n \in Nat /\ n # 0
    BY <2>3
  <2> HIDE DEF l, r, n
  <2>8. /\ running' # Nothing /\ running'.loop = l /\ running'.left = n
        /\ running'.hook = FALSE
        /\ running' = [loop |-> running'.loop, left |-> running'.left,
                       hook |-> running'.hook]
    BY <2>6, <2>7 DEF Nothing
  <2>9. LoopType'
    <3>1. due' \subseteq DOMAIN r
      BY <1>1, <2>1, <2>4 DEF LoopType
    <3> QED BY <1>1, <2>1, <2>2, <2>4, <2>6, <2>7, <2>8, <3>1
            DEF LoopType, Handles
  <2>10. OneHandleEach'
    BY <2>4, <2>5, <2>6, <2>8 DEF OneHandleEach
  <2>11. RunningIsScheduled'
    BY <2>8 DEF RunningIsScheduled, Nothing, Null
  <2> QED BY <2>9, <2>10, <2>11 DEF LoopInv
<1>8. CASE RunFrame
  <2> DEFINE l == running.loop
             n == running.left
             k == running.hook
  <2>1. /\ n > 0 /\ running' = [running EXCEPT !.left = n - 1, !.hook = TRUE]
        /\ lag' = [lag EXCEPT ![l] = lag[l] - FRAME]
        /\ UNCHANGED <<made, requests, due, rafHandle>>
    BY <1>8 DEF RunFrame
  <2>2. running = [loop |-> l, left |-> n, hook |-> k] /\ n \in Nat
    BY <1>1 DEF LoopType
  <2>3. running # Nothing
    BY <2>1 DEF Nothing
  <2>4. l \in made /\ l \in Loops
    BY <1>1, <2>3 DEF LoopType
  <2> HIDE DEF l, n, k
  <2>5. running' = [loop |-> l, left |-> n - 1, hook |-> TRUE] /\ n - 1 \in Nat
    <3> DEFINE m == n - 1
    <3>1. m \in Nat /\ k \in BOOLEAN
      BY <1>1, <2>1, <2>2 DEF LoopType, k
    <3>2. running' = [running EXCEPT !.left = m, !.hook = TRUE]
      BY <2>1
    <3> HIDE DEF m
    <3>3. running' = [loop |-> l, left |-> m, hook |-> TRUE]
      BY <2>2, <3>1, <3>2
    <3> QED BY <3>1, <3>3 DEF m
  <2>6. /\ running' # Nothing /\ running'.loop = l /\ running'.left = n - 1
        /\ running'.hook = TRUE
        /\ running' = [loop |-> running'.loop, left |-> running'.left,
                       hook |-> running'.hook]
    BY <2>5 DEF Nothing
  <2>7. lag' \in [Loops -> Int]
    <3>1. lag \in [Loops -> Int] /\ FRAME \in Int
      BY <1>1 DEF LoopType, LoopAssumption
    <3>2. lag[l] - FRAME \in Int
      BY <2>4, <3>1
    <3> QED BY <2>1, <3>1, <3>2
  <2>8. LoopType'
    BY <1>1, <2>1, <2>4, <2>5, <2>6, <2>7 DEF LoopType, Handles
  <2>9. OneHandleEach'
    BY <1>1, <2>1, <2>3, <2>6 DEF OneHandleEach, l
  <2>10. RunningIsScheduled'
    BY <2>6 DEF RunningIsScheduled, Nothing, Null
  <2> QED BY <2>8, <2>9, <2>10 DEF LoopInv
<1>9. CASE EndCallback
  <2>1. /\ running # Nothing /\ running' = Nothing
        /\ IF rafHandle # Null
           THEN requests' = Requested(running.loop) /\ rafHandle' = Fresh
           ELSE UNCHANGED <<requests, rafHandle>>
        /\ UNCHANGED <<made, lag, due>>
    BY <1>9 DEF EndCallback
  <2>2. /\ running' = [loop |-> running'.loop, left |-> running'.left,
                       hook |-> running'.hook]
        /\ running'.left \in Nat /\ running'.hook \in BOOLEAN
    BY <2>1 DEF Nothing
  <2>3. CASE rafHandle = Null
    <3>1. UNCHANGED <<requests, rafHandle>>
      BY <2>1, <2>3
    <3>2. LoopType'
      BY <1>1, <2>1, <2>2, <3>1 DEF LoopType, Handles, Nothing, Null
    <3>3. OneHandleEach' /\ RunningIsScheduled'
      BY <1>1, <2>1, <2>3, <3>1
         DEF OneHandleEach, RunningIsScheduled, Nothing, Null
    <3> QED BY <3>2, <3>3 DEF LoopInv
  <2>4. CASE rafHandle # Null
    <3> DEFINE l == running.loop
               r == Requested(l)
               new == Fresh
    <3>1. l \in made /\ \A h \in DOMAIN requests : requests[h] # l
      BY <1>1, <2>1 DEF LoopType, OneHandleEach
    <3> HIDE DEF l
    <3>2. /\ DOMAIN r = DOMAIN requests \cup {new}
          /\ r \in [DOMAIN r -> made \cup {l}]
          /\ DOMAIN r \subseteq Handles /\ due \subseteq DOMAIN r
          /\ \A h, k \in DOMAIN r : r[h] = r[k] => h = k
      BY <3>1, RequestedOnce
    <3>3. requests' = r /\ rafHandle' = new
      BY <2>1, <2>4 DEF l
    <3> HIDE DEF r, new
    <3>4. made \cup {l} = made
      BY <3>1
    <3>5. LoopType'
      BY <1>1, <2>1, <2>2, <3>2, <3>3, <3>4 DEF LoopType, Handles, Nothing, Null
    <3>6. OneHandleEach' /\ RunningIsScheduled'
      BY <2>1, <3>2, <3>3 DEF OneHandleEach, RunningIsScheduled, Nothing, Null
    <3> QED BY <3>5, <3>6 DEF LoopInv
  <2> QED BY <2>3, <2>4
<1>10. CASE UNCHANGED loopVars
  BY <1>1, <1>10 DEF loopVars, LoopInv, LoopType, OneHandleEach, RunningIsScheduled,
     Handles, Nothing, Null
<1> QED BY <1>2, <1>3, <1>5, <1>6, <1>7, <1>8, <1>9, <1>10 DEF LoopNext, Browser

LEMMA LoopInvariant ==
  LoopSpec => []LoopInv
<1>1. LoopInv /\ [LoopNext]_loopVars => LoopInv'
  BY LoopInvNext
<1> QED BY <1>1, LoopInvInit, PTL DEF LoopSpec

(* While #rafHandle is set (index.ts:215-222) the loop is scheduled under  *)
(* the handle that stop would cancel, or is in the middle of its callback, *)
(* whatever start and stop are called and wherever from: for any number of *)
(* loops and refreshes of any length.                                      *)
THEOREM LoopRunningIsScheduled ==
  LoopSpec => []RunningIsScheduled
<1>1. LoopInv => RunningIsScheduled
  BY DEF LoopInv
<1> QED BY <1>1, LoopInvariant, PTL

(* A loop asks for its next animation frame once, and not before its       *)
(* callback has ended (index.ts:79-105): none is called twice in a frame.  *)
THEOREM LoopOneHandleEach ==
  LoopSpec => []OneHandleEach
<1>1. LoopInv => OneHandleEach
  BY DEF LoopInv
<1> QED BY <1>1, LoopInvariant, PTL
=============================================================================
