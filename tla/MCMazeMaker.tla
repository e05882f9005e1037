---------------------------- MODULE MCMazeMaker -----------------------------
(* A maze of six spaces for TLC, where a fruit or the exit may be anywhere. *)
EXTENDS MazeMaker

MCSpots == {1, 3, 5} \X {1, 3}
=============================================================================
