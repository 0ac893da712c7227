----------------------------- MODULE MCRafLoop -----------------------------
(***************************************************************************)
(* RafLoop with frames of two ticks, on a display that refreshes every two *)
(* to five ticks.                                                          *)
(***************************************************************************)
EXTENDS RafLoop

MCSlow == {2, 3, 5}
=============================================================================
