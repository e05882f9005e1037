---------------------------- MODULE MCFileSystem ----------------------------
(***************************************************************************)
(* An image for TLC: blocks of two bytes, names of at most two characters, *)
(* a file whose name is a prefix of the one before it in the directory, a  *)
(* file that fills its last block, one that does not, a damaged one, and   *)
(* three programs: c is cat, l is ls and y any other.                      *)
(***************************************************************************)
EXTENDS Programs, TLC

CONSTANTS p1, p2

MCEntry(c0, c1, type, inode) ==
  [name |-> [j \in 0 .. 1 |-> IF j = 0 THEN c0 ELSE c1], type |-> type, inode |-> inode]

MCDentry ==
  (0 :> MCEntry(".", NUL, "dir", 0)) @@ (1 :> MCEntry("a", "b", "reg", 1)) @@
  (2 :> MCEntry("a", NUL, "reg", 0)) @@ (3 :> MCEntry("b", NUL, "reg", 2)) @@
  (4 :> MCEntry("r", NUL, "rtc", 0)) @@ (5 :> MCEntry("c", NUL, "reg", 3)) @@
  (6 :> MCEntry("l", NUL, "reg", 4)) @@ (7 :> MCEntry("y", NUL, "reg", 5))

MCFileLength == [i \in 0 .. 5 |-> IF i = 0 THEN 4 ELSE IF i < 3 THEN 3 ELSE 1]

\* Data block 5 does not exist; block 4 is that of the programs.
MCIdxBlock ==
  (0 :> ((0 :> 1) @@ (1 :> 0))) @@ (1 :> ((0 :> 2) @@ (1 :> 3))) @@
  (2 :> ((0 :> 3) @@ (1 :> 5))) @@ [i \in 3 .. 5 |-> [b \in 0 .. 1 |-> 4]]

MCData == [b \in 0 .. 4 |-> [j \in 0 .. 1 |-> 2 * b + j]]
MCMagic == <<8>>
MCProgramOf == [i \in 0 .. 5 |-> CASE i = 3 -> "cat" [] i = 4 -> "ls" [] OTHER -> "any"]

MCFNames == {<<".">>, <<"a">>, <<"a", "b">>, <<"b">>, <<"r">>, <<"b", "a">>, <<"a", "b", "a">>}

\* Both terminals run cat and ls, and the first any other program.
MCCommands == {
  <<"l", NL>>, <<SP, "c", SP, "a", NL>>, <<"c", SP, SP, "a", "b", SP>>, <<"c", SP, "b", SP, "a">>,
  <<"c", SP, ".">>, <<"c", SP, "r">>, <<"c", NL>>, <<"c", SP, "b", "a">>, <<"a", SP, "a">>,
  <<SP, SP, NL>>, <<"a", "b", "a">>, <<NL>>}
MCLines == (p1 :> MCCommands \cup {<<"y", NL>>}) @@ (p2 :> MCCommands)
=============================================================================
