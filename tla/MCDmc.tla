------------------------------- MODULE MCDmc -------------------------------
(***************************************************************************)
(* Dmc on a small unit: two-bit bytes, two rates, a memory of eight        *)
(* addresses whose last four are sample memory, samples of one and three   *)
(* bytes.                                                                  *)
(***************************************************************************)
EXTENDS Dmc

MCRates == [i \in 0 .. 1 |-> 2 - i]
MCCtrlData == [irq : BOOLEAN, loop : BOOLEAN, rate : 0 .. 1]
MCSampleBytes == Bytes
MCAddressData == {0, 1}
MCLengthData == {0, 1}
=============================================================================
