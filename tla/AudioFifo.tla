----------------------------- MODULE AudioFifo -----------------------------
(***************************************************************************)
(* What the sound buffer of the page promises (frontend/audio.ts, lines    *)
(* 4-8): samples are heard in the order they arrive, the oldest one makes  *)
(* room for a new one when the buffer is full, and silence is heard when   *)
(* it is empty.                                                            *)
(***************************************************************************)
EXTENDS Integers, Sequences

CONSTANTS CAPACITY, Samples, Silence

VARIABLES queue, heard

vars == <<queue, heard>>

Init == queue = << >> /\ heard = Silence

Push == /\ \E s \in Samples :
             queue' = IF Len(queue) < CAPACITY THEN Append(queue, s)
                      ELSE Append(Tail(queue), s)
        /\ UNCHANGED heard

Hear == /\ queue # << >>
        /\ heard' = Head(queue) /\ queue' = Tail(queue)

HearNothing == queue = << >> /\ heard' = Silence /\ UNCHANGED queue

Next == Push \/ Hear \/ HearNothing

Spec == Init /\ [][Next]_vars
=============================================================================
