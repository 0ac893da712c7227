----------------------------- MODULE AudioRing -----------------------------
(***************************************************************************)
(* The ring buffer of the audio worklet (frontend/audio.ts,                *)
(* NesAudioProcessor): a record and one operator for each branch of its    *)
(* two loops.  CAPACITY is half a second of samples in the program.        *)
(***************************************************************************)
EXTENDS Integers

CONSTANTS
  CAPACITY,
  Samples,     \* the values a sample may have
  Silence      \* the sample 0

ASSUME RingAssumption == CAPACITY \in Nat \ {0} /\ Silence \in Samples

Positions == 0 .. CAPACITY - 1

NewRing ==
  [ buffer   |-> [i \in Positions |-> Silence],
    readPos  |-> 0,
    writePos |-> 0,
    size     |-> 0 ]

RingType ==
  [ buffer : [Positions -> Samples], readPos : Positions, writePos : Positions,
    size : 0 .. CAPACITY ]

(* (pos + 1) % capacity *)
After(pos) == IF pos = CAPACITY - 1 THEN 0 ELSE pos + 1

Full(r)  == r.size = CAPACITY
Empty(r) == r.size = 0

(* One turn of the loop in onmessage. *)
push_keeping_oldest(r, sample) ==                                 \* mutant
  [ buffer   |-> [r.buffer EXCEPT ![r.writePos] = sample],
    readPos  |-> r.readPos,
    writePos |-> After(r.writePos),
    size     |-> IF Full(r) THEN r.size ELSE r.size + 1 ]

push(r, sample) ==
  [ buffer   |-> [r.buffer EXCEPT ![r.writePos] = sample],
    readPos  |-> IF Full(r) THEN After(r.readPos) ELSE r.readPos,
    writePos |-> After(r.writePos),
    size     |-> IF Full(r) THEN r.size ELSE r.size + 1 ]

(* One turn of the loop in process on a ring that is not empty. *)
pull(r) ==
  [ buffer   |-> r.buffer,
    readPos  |-> After(r.readPos),
    writePos |-> r.writePos,
    size     |-> r.size - 1 ]

(* What is heard next. *)
front(r) == IF Empty(r) THEN Silence ELSE r.buffer[r.readPos]

(* The i-th position from pos, and the samples in the order of reading. *)
From(pos, i) == IF pos + i < CAPACITY THEN pos + i ELSE pos + i - CAPACITY

Contents(r) == [i \in 1 .. r.size |-> r.buffer[From(r.readPos, i - 1)]]
=============================================================================
