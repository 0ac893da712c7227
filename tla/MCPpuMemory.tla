---------------------------- MODULE MCPpuMemory ----------------------------
(***************************************************************************)
(* PpuMemory with pattern tables of 8 bytes, nametables of 2, a palette of *)
(* 4 colours in groups of 2.  Addresses are at the ends of the regions.    *)
(* Each half of a pattern table of the cartridges holds its own number.    *)
(***************************************************************************)
EXTENDS PpuMemory

Tagged(halves) == [i \in 0 .. halves * HALF - 1 |-> i \div HALF]

Cart(id, mirroring, ram, halves) ==
  [id |-> id, mirroring |-> mirroring, ram |-> ram, chr |-> Tagged(halves)]

(* The chip of mapper 1 has the banks asked for, and none where a doubled  *)
(* window looks for the second of 8K.                                      *)
MCCartridges ==
  {Cart(0, "Vertical", FALSE, 2), Cart(1, "Horizontal", FALSE, 4),
   Cart(2, "Horizontal", TRUE, 2), Cart(3, "Horizontal", FALSE, 8),
   Cart(7, "Vertical", TRUE, 2), Cart(66, "Vertical", FALSE, 8)}

MCBytes == 0 .. 8
MCData == {8}
MCBanks == {1, 3}
MCSizes == BOOLEAN
MCScreens == {"OneScreenUpper", "Vertical"}
MCAddresses ==
  {HALF - 1, PATTERN + 2 * TABLE, PALETTE - 1, PALETTE + COLORS + 1}
=============================================================================
