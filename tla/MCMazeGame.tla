----------------------------- MODULE MCMazeGame -----------------------------
(***************************************************************************)
(* A game of two levels for TLC: a square that holds the fruit and the     *)
(* exit, then a bend that the window has to follow right and down.         *)
(***************************************************************************)
EXTENDS MazeGame

MCOpen == <<{<<1, 1>>}, {<<1, 1>>, <<2, 1>>, <<3, 1>>, <<3, 2>>}>>
MCFruits == <<{<<1, 1>>}, {<<2, 1>>}>>
MCExit == <<<<1, 1>>, <<3, 2>>>>
=============================================================================
