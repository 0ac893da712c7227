----------------------------- MODULE SampleWalk -----------------------------
(***************************************************************************)
(* The addresses a sample occupies.  Sample memory ends at ADDRESS_LAST    *)
(* and the reader goes on at ADDRESS_WRAP (dmc.rs, complete_fetch).        *)
(***************************************************************************)
EXTENDS Integers

CONSTANTS ADDRESS_LAST, ADDRESS_WRAP

(* The i-th address from a, counting from zero. *)
Walked(a, i) ==
  IF a + i <= ADDRESS_LAST THEN a + i
  ELSE ADDRESS_WRAP
       + ((a + i - ADDRESS_LAST - 1) % (ADDRESS_LAST - ADDRESS_WRAP + 1))

Walk(a, n) == [i \in 1 .. n |-> Walked(a, i - 1)]
=============================================================================
