---------------------------- MODULE VideoMemory ----------------------------
(***************************************************************************)
(* What the memory behind $2007 promises a program: chips of bytes, of     *)
(* which an address below SPACE reaches one byte, by the wiring of the     *)
(* moment; a pointer that moves on by itself; and an answer that is one    *)
(* read late, except in the palette.  An address is given in fields, not   *)
(* computed: nothing here knows how the program masks or subtracts, nor by *)
(* which size a mapper multiplies the number of a bank.                    *)
(***************************************************************************)
EXTENDS Integers

CONSTANTS
  SPACE, PATTERN, TABLE, PALETTE,   \* end of the space, and of its regions
  COLORS, GROUP,                    \* colours, and colours in a group
  Bytes, Wirings, Strides

VARIABLES
  memory,    \* chip, then cell, to byte
  wiring,    \* the page of each table, the bank of half a PATTERN behind each
             \* half of it, and whether these are RAM
  pointer, stride,
  ahead,     \* the byte read ahead
  answer,    \* what this step has read, if it is a read
  kept       \* the machine as it was saved, or none yet

state == [memory |-> memory, wiring |-> wiring, pointer |-> pointer,
          stride |-> stride, ahead |-> ahead]

(* The first colour of each group in the upper half is that of the lower. *)
Color(k) == IF k % GROUP = 0 THEN k % (COLORS \div 2) ELSE k

Place(a) ==
  IF a >= PALETTE THEN <<"palettes", Color((a - PALETTE) % COLORS)>>
  ELSE IF a >= PATTERN
  THEN <<"nametables",
         (wiring.pages[1 + (((a - PATTERN) \div TABLE) % 4)] * TABLE) + (a % TABLE)>>
  ELSE LET half == PATTERN \div 2
       IN  <<"chr", (wiring.windows[1 + (a \div half)] * half) + (a % half)>>

Writable == pointer >= PATTERN \/ wiring.ram

Here == memory[Place(pointer)[1]][Place(pointer)[2]]

Onward == pointer' = (pointer + stride) % SPACE

NoAnswer == -1
Silent == answer' = NoAnswer

Init ==
  /\ wiring \in Wirings /\ stride \in Strides /\ pointer = 0
  /\ ahead \in Bytes /\ answer = NoAnswer /\ kept = <<>>

Point ==
  /\ pointer' \in 0 .. SPACE - 1 /\ Silent
  /\ UNCHANGED <<memory, wiring, stride, ahead, kept>>

Stride ==
  /\ stride' \in Strides /\ Silent
  /\ UNCHANGED <<memory, wiring, pointer, ahead, kept>>

Rewire ==
  /\ wiring' \in Wirings /\ wiring'.ram = wiring.ram /\ Silent
  /\ UNCHANGED <<memory, pointer, stride, ahead, kept>>

(* ROM stays what it is. *)
Write ==
  /\ IF Writable
     THEN \E b \in Bytes :
            memory' = [memory EXCEPT ![Place(pointer)[1]][Place(pointer)[2]] = b]
     ELSE memory' = memory
  /\ Onward /\ Silent /\ UNCHANGED <<wiring, stride, ahead, kept>>

(* What a read of the palette leaves behind for the next one is open. *)
Read ==
  /\ IF pointer >= PALETTE THEN answer' = Here /\ ahead' \in Bytes
     ELSE answer' = ahead /\ ahead' = Here
  /\ Onward /\ UNCHANGED <<memory, wiring, stride, kept>>

Keep ==
  /\ kept' = <<state>> /\ Silent
  /\ UNCHANGED <<memory, wiring, pointer, stride, ahead>>

GoBack ==
  /\ kept # <<>> /\ state' = kept[1] /\ Silent
  /\ UNCHANGED kept

Next == Point \/ Stride \/ Rewire \/ Write \/ Read \/ Keep \/ GoBack

Step == Next \/ UNCHANGED <<memory, wiring, pointer, stride, ahead, answer, kept>>
=============================================================================
