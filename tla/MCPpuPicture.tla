---------------------------- MODULE MCPpuPicture ----------------------------
(***************************************************************************)
(* PpuPicture with nametables of two by two tiles of three by three        *)
(* pixels, two slots and an OAM of three sprites.  The program scrolls, in *)
(* the vertical blank and, with what is meant for a split screen, in the   *)
(* middle of a line, or it loads three sprites; rendering stays on once it *)
(* is.                                                                     *)
(***************************************************************************)
EXTENDS PpuPicture

MCReload == {8}
MCBlank == {<<7, 3>>}
MCMidFrame == {<<2, 4>>}
MCMoments == [ctrl |-> MCMidFrame, mask |-> MCBlank, scroll |-> MCBlank \cup MCMidFrame,
              address |-> MCBlank, data |-> MCBlank, status |-> MCBlank, oam |-> MCBlank]
MCTables == {<<0, 0>>, <<1, 1>>}
MCMasks == {<<TRUE, TRUE>>}
MCScrollXs == {4}
MCScrollYs == {4}
MCAddressBytes == {0}
MCUploads == {0, 2}

MCClear == <<1, 2>>
MCEvaluate == {4, 5, 6}
MCFetch == <<8, 9>>

(* Tiles 1 and 3 have a hole. *)
MCSolid == {<<t, n, r, c>> : t \in {0, 1}, n \in {0, 2}, r \in 0 .. 2, c \in 0 .. 2}
           \cup {<<t, n, r, c>> : t \in {0, 1}, n \in {1, 3}, r \in 0 .. 2, c \in {0, 2}}
MCGround == {<<t, r, 2>> : t \in {0, 2}, r \in 0 .. 2} \cup {<<t, r, 0>> : t \in {1, 3}, r \in {0, 1}}

Sprite(y, x, tile, palette, behind, flip_x, flip_y) ==
  [y |-> y, x |-> x, tile |-> tile, palette |-> palette, behind |-> behind,
   flip_x |-> flip_x, flip_y |-> flip_y]

MCSprites == {
  Sprite(0, 1, 1, 1, FALSE, FALSE, FALSE), Sprite(1, 2, 2, 2, TRUE, FALSE, FALSE),
  Sprite(2, 0, 1, 0, FALSE, TRUE, TRUE),   Sprite(1, 4, 3, 3, FALSE, FALSE, TRUE),
  Sprite(6, 1, 0, 0, FALSE, FALSE, FALSE)}

MCScenes ==
  {[sprites |-> s, tall |-> tall, table |-> 0, left |-> s[1].x # 2] :
     s \in [1 .. 3 -> MCSprites], tall \in BOOLEAN}
=============================================================================
