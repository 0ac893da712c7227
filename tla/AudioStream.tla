---------------------------- MODULE AudioStream ----------------------------
(***************************************************************************)
(* The way of a sample from the page to the loudspeaker (frontend/         *)
(* audio.ts).  The main thread queues chunks: into a list while the        *)
(* worklet is loading, then as messages through its port.  The audio       *)
(* thread runs one handler at a time, onmessage or process, each a loop    *)
(* over samples; the main thread goes on meanwhile.                        *)
(*                                                                         *)
(* Samples are numbered in the order they are queued, so that losing,      *)
(* repeating or reordering one shows; Silence is 0.                        *)
(***************************************************************************)
EXTENDS AudioRing, Sequences, SequencesExt

CONSTANTS
  PREROLL,        \* samples of silence the ring is primed with
  ChunkLengths,   \* lengths of the chunks queued, 0 among them
  BLOCK,          \* samples of an output block: 128
  LAST_SAMPLE     \* bound: the number of the last sample queued

ASSUME StreamAssumption ==
  /\ PREROLL \in Nat /\ ChunkLengths \subseteq Nat
  /\ BLOCK \in Nat \ {0} /\ LAST_SAMPLE \in Nat
  /\ Samples = 0 .. LAST_SAMPLE /\ Silence = 0

VARIABLES
  worklet,     \* "none", "loading", "ready" or "failed"
  pending,     \* chunks queued before the worklet was ready
  port,        \* chunks on their way to the worklet
  ring,        \* the worklet's buffer
  arriving,    \* what is left of the chunk onmessage works on
  block,       \* how much is left of the block process works on
  heard,       \* the sample last put out
  queued,      \* history: the number of the sample queued last
  taken        \* history: samples put out or dropped (totalConsumed + overflows)

vars == <<worklet, pending, port, ring, arriving, block, heard, queued, taken>>

mainVars == <<worklet, pending, port, queued>>
audioVars == <<ring, arriving, block, heard, taken>>

Init ==
  /\ worklet = "none" /\ pending = << >> /\ port = << >>
  /\ ring = NewRing /\ arriving = << >> /\ block = 0
  /\ heard = Silence /\ queued = 0 /\ taken = 0

-----------------------------------------------------------------------------
(* Main thread: start, which loads the worklet the first time.             *)
Start == /\ worklet' = IF worklet = "none" THEN "loading" ELSE worklet
         /\ UNCHANGED <<pending, port, queued>> /\ UNCHANGED audioVars

(* The module is there: silence first, then what was queued meanwhile.     *)
Preroll == [i \in 1 .. PREROLL |-> Silence]

Ready_keeping_pending ==                                          \* mutant
  /\ worklet = "loading" /\ worklet' = "ready"
  /\ port' = <<Preroll>>
  /\ UNCHANGED <<pending, queued>> /\ UNCHANGED audioVars

Ready == /\ worklet = "loading" /\ worklet' = "ready"
         /\ port' = <<Preroll>> \o pending /\ pending' = << >>
         /\ UNCHANGED queued /\ UNCHANGED audioVars

(* The module cannot be loaded: start has logged it, chunks are kept.      *)
Fails == /\ worklet = "loading" /\ worklet' = "failed"
         /\ UNCHANGED <<pending, port, queued>> /\ UNCHANGED audioVars

Chunk(n) == [i \in 1 .. n |-> queued + i]

(* queue: an empty chunk is left out.                                      *)
Queue ==
  \E n \in ChunkLengths :
    /\ n > 0 /\ queued + n <= LAST_SAMPLE
    /\ queued' = queued + n
    /\ IF worklet = "ready"
       THEN port' = Append(port, Chunk(n)) /\ UNCHANGED pending
       ELSE pending' = Append(pending, Chunk(n)) /\ UNCHANGED port
    /\ UNCHANGED worklet /\ UNCHANGED audioVars

-----------------------------------------------------------------------------
(* Audio thread.  A handler runs to its end before the next one starts.    *)
Idle == arriving = << >> /\ block = 0

Receive == /\ Idle /\ port # << >>
           /\ arriving' = Head(port) /\ port' = Tail(port)
           /\ UNCHANGED <<worklet, pending, queued, ring, block, heard, taken>>

Store == /\ arriving # << >>
         /\ ring' = push(ring, Head(arriving))
         /\ arriving' = Tail(arriving)
         /\ taken' = IF Full(ring) THEN taken + 1 ELSE taken
         /\ UNCHANGED <<block, heard>> /\ UNCHANGED mainVars

(* process is called once the node is connected.                           *)
Process == /\ Idle /\ worklet = "ready"
           /\ block' = BLOCK
           /\ UNCHANGED <<ring, arriving, heard, taken>> /\ UNCHANGED mainVars

PutOut_repeating ==                                               \* mutant
  /\ block > 0 /\ block' = block - 1
  /\ heard' = ring.buffer[ring.readPos]
  /\ IF Empty(ring) THEN UNCHANGED <<ring, taken>>
     ELSE ring' = pull(ring) /\ taken' = taken + 1
  /\ UNCHANGED arriving /\ UNCHANGED mainVars

PutOut_nothing_left ==                                            \* mutant
  /\ block > 0 /\ block' = block - 1
  /\ heard' = front(ring)
  /\ IF ring.size < 2 THEN UNCHANGED <<ring, taken>>
     ELSE ring' = pull(ring) /\ taken' = taken + 1
  /\ UNCHANGED arriving /\ UNCHANGED mainVars

PutOut == /\ block > 0 /\ block' = block - 1
          /\ heard' = front(ring)
          /\ IF Empty(ring) THEN UNCHANGED <<ring, taken>>
             ELSE ring' = pull(ring) /\ taken' = taken + 1
          /\ UNCHANGED arriving /\ UNCHANGED mainVars

Next == Start \/ Ready \/ Fails \/ Queue \/ Receive \/ Store \/ Process \/ PutOut

Spec == Init /\ [][Next]_vars

(* The browser delivers messages and asks for blocks, neither for ever at  *)
(* the cost of the other, and handlers run to their end.                   *)
FairSpec == /\ Spec
            /\ SF_vars(Receive) /\ SF_vars(Process)
            /\ WF_vars(Store) /\ WF_vars(PutOut)

-----------------------------------------------------------------------------
(* Type invariant of the page's audio state (audio.ts:14-27 and 104-134).  *)
TypeOK ==
  /\ worklet \in {"none", "loading", "ready", "failed"}
  /\ pending \in Seq(Seq(Samples)) /\ port \in Seq(Seq(Samples))
  /\ ring \in RingType /\ arriving \in Seq(Samples)
  /\ block \in 0 .. BLOCK /\ heard \in Samples
  /\ queued \in 0 .. LAST_SAMPLE /\ taken \in Nat

(* The three positions of the ring say the same thing: the writer is size  *)
(* places ahead of the reader (audio.ts:33-43 and 51-55).                  *)
RingConsistent == ring.writePos = From(ring.readPos, ring.size)

(* No sample is lost, repeated or overtaken on its way: what is stored, on *)
(* its way and pending, in this order, is what is left of the preroll and  *)
(* then every sample queued and not yet taken, in order (audio.ts:165-172  *)
(* and 196-205).  Only the drop of the oldest sample is a loss, and it is  *)
(* counted.                                                                *)
OnTheWay == Contents(ring) \o arriving \o FlattenSeq(port \o pending)

Primed == IF worklet = "ready" THEN PREROLL ELSE 0

NothingLost ==
  OnTheWay = [i \in 1 .. Primed + queued - taken |->
                IF taken + i <= Primed THEN Silence ELSE taken + i - Primed]

(* The worklet implements a queue that drops the oldest sample.            *)
Fifo == INSTANCE AudioFifo WITH queue <- Contents(ring)

DropsOldest == Fifo!Spec

(* Once the worklet is ready every sample queued, whenever that was, is    *)
(* heard or dropped.                                                       *)
Drains == \A n \in 1 .. LAST_SAMPLE :
            worklet = "ready" /\ queued = n ~> taken >= PREROLL + n
=============================================================================
