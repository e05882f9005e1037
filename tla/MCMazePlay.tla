----------------------------- MODULE MCMazePlay -----------------------------
(***************************************************************************)
(* Two levels of two and four open squares for TLC, blocks of two by two   *)
(* pixels, a window of four by five, a player with a hole, a text over the *)
(* player's head.                                                          *)
(***************************************************************************)
EXTENDS MazePlay

MCSpots == {<<1, 3>>, <<3, 3>>, <<1, 1>>}
MCMask == [d \in Dirs |-> IF d \in {DIR_UP, DIR_DOWN} THEN {<<0, 0>>, <<0, 1>>, <<1, 1>>}
                                                       ELSE {<<0, 0>>, <<1, 0>>, <<1, 1>>}]
MCText == {<<0, 0>>, <<1, 0>>, <<2, 1>>}
=============================================================================
