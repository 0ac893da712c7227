--------------------------- MODULE MCAudioStream ---------------------------
(***************************************************************************)
(* AudioStream with a ring of three samples, blocks and prerolls of two,   *)
(* chunks of one to four and six samples in all.                          *)
(***************************************************************************)
EXTENDS AudioStream

MCChunkLengths == {0, 1, 2, 4}
MCSamples == 0 .. 6
=============================================================================
