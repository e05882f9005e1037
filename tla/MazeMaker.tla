----------------------------- MODULE MazeMaker ------------------------------
(***************************************************************************)
(* make_maze of src/mp2/maze.c.  Worms dig at random until every space is  *)
(* open; then walls are knocked down until every space is reachable from   *)
(* (1, 1); then the fruits and the exit are placed.  random() is a choice  *)
(* of anything it can return: every direction that stays inside has a      *)
(* positive weight.  The caller asks for dimensions in the allowed range.  *)
(***************************************************************************)
EXTENDS Maze

CONSTANTS XDim, YDim, StartFruits,   \* what the caller asks for
          ScanBelow,                 \* scan when fewer spaces remain: 20
          MaxTrials                  \* or after so many random trials: 100

ASSUME RequestAssumption ==
    /\ XDim \in MAZE_MIN_X_DIM .. MAZE_MAX_X_DIM /\ YDim \in MAZE_MIN_Y_DIM .. MAZE_MAX_Y_DIM
    /\ XDim * YDim > 1
    /\ StartFruits \in 0 .. XDim * YDim - 1
ASSUME TrialAssumption == ScanBelow \in Nat /\ MaxTrials \in Nat

VARIABLES place,      \* the loop make_maze is in
          maze,
          at,         \* the local variables x and y
          pref_dir, remaining, trials,
          idle        \* history: rounds of the second phase since one joined a space

makerVars == <<place, maze, at, pref_dir, remaining, trials, idle>>

MakerInit ==
    /\ place = "drop"
    /\ maze = Walls(XDim, YDim)
    /\ at = <<1, 1>>
    /\ pref_dir = DIR_UP
    /\ remaining = XDim * YDim
    /\ trials = 0
    /\ idle = 0

Index(p) == MAZE_INDEX(XDim, p[1], p[2])
IsWall(p) == maze.cell[Index(p)].wall
Reached(p) == maze.cell[Index(p)].reach

(* The space two lattice points on in a direction *)
Beyond(p, d) == Ahead(Ahead(p, d), d)
Inside(p, d) == Beyond(p, d) \in Points(maze)

----------------------------------------------------------------------------
(* The worm phase *)

DropWorm ==
    /\ place = "drop"
    /\ \E p \in Points(maze) :
         /\ IsWall(p)
         /\ at' = p
         /\ maze' = [maze EXCEPT !.cell[Index(p)] = MAZE_NONE]
    /\ remaining' = remaining - 1
    /\ pref_dir' \in Dirs
    /\ place' = "worm"
    /\ UNCHANGED <<trials, idle>>

\* Mistake: the wall between is dug, the space beyond left as it is.
Dug_Between(p, d) == {Index(Ahead(p, d))}

Dug(p, d) == {Index(Ahead(p, d)), Index(Beyond(p, d))}

WormMoves ==
    /\ place = "worm"
    /\ \E d \in Dirs :
         /\ Inside(at, d)
         /\ d # Reverse(pref_dir)
         /\ pref_dir' = d
         /\ at' = Beyond(at, d)
         /\ maze' = [maze EXCEPT !.cell = [i \in Indices |->
                        IF i \in Dug(at, d) THEN MAZE_NONE ELSE @[i]]]
         /\ remaining' = IF IsWall(Beyond(at, d)) THEN remaining - 1 ELSE remaining
    /\ UNCHANGED <<place, trials, idle>>

WormEnds ==
    /\ place = "worm"
    /\ Inside(at, Reverse(pref_dir))
    /\ place' = IF remaining > 0 THEN "drop" ELSE "mark"
    /\ UNCHANGED <<maze, at, pref_dir, remaining, trials, idle>>

----------------------------------------------------------------------------
(* The second phase *)

(* mark_maze_area: the spaces found from p, in as many rounds as there may *)
(* be spaces.  The search goes through openings to spaces not yet marked.  *)
Around(m, i) ==
    {<<i - 2 * XDim, i - 4 * XDim>>, <<i + 1, i + 2>>,
     <<i + 2 * XDim, i + 4 * XDim>>, <<i - 1, i - 2>>}

Found(m, p) ==
    LET found[n \in 0 .. XDim * YDim] ==
            IF n = 0 THEN {Index(p)}
            ELSE LET before == found[n - 1]
                 IN  before \cup {s[2] : s \in {t \in UNION {Around(m, i) : i \in before} :
                                          ~m.cell[t[1]].wall /\ ~m.cell[t[2]].reach}}
    IN  found[XDim * YDim]

MarkFrom(m, p) ==
    LET found == Found(m, p)
    IN  [m EXCEPT !.cell = [i \in Indices |->
            IF i \in found THEN [@[i] EXCEPT !.reach = TRUE] ELSE @[i]]]

Mark ==
    /\ place = "mark"
    /\ maze' = MarkFrom(maze, <<1, 1>>)
    /\ remaining' = XDim * YDim - Cardinality(Found(maze, <<1, 1>>))
    /\ trials' = 0
    /\ place' = "connect"
    /\ UNCHANGED <<at, pref_dir, idle>>

(* The next space of the scan, row by row *)
ScanNext ==
    IF at[1] + 2 <= 2 * XDim THEN <<at[1] + 2, at[2]>>
    ELSE <<at[1] + 2 - 2 * XDim, IF at[2] + 2 <= 2 * YDim THEN at[2] + 2 ELSE at[2] + 2 - 2 * YDim>>

KnockOrder == <<DIR_UP, DIR_LEFT, DIR_RIGHT, DIR_DOWN>>

\* Mistake: the space to the left is not tried.
CanKnock_NotLeft(p, d) == d # DIR_LEFT /\ Inside(p, d) /\ Reached(Beyond(p, d))

CanKnock(p, d) == Inside(p, d) /\ Reached(Beyond(p, d))

(* Join an unmarked space to a marked neighbour: the first of the four, if *)
(* there is one.                                                           *)
Connect(p) ==
    /\ at' = p
    /\ IF \E d \in Dirs : CanKnock(p, d)
       THEN LET k == CHOOSE k \in 1 .. 4 : /\ CanKnock(p, KnockOrder[k])
                                           /\ \A j \in 1 .. k - 1 : ~CanKnock(p, KnockOrder[j])
                opened == [maze EXCEPT !.cell[Index(Ahead(p, KnockOrder[k]))] = MAZE_NONE]
            IN  /\ maze' = MarkFrom(opened, p)
                /\ remaining' = remaining - Cardinality(Found(opened, p))
       ELSE UNCHANGED <<maze, remaining>>

LoopEnds ==
    /\ place' = IF remaining' > 0 THEN "connect" ELSE "clear"
    /\ idle' = IF remaining' < remaining THEN 0 ELSE idle + 1

Trial == trials' = IF remaining < ScanBelow THEN trials ELSE trials + 1
Scans == remaining < ScanBelow \/ trials + 1 > MaxTrials

ScanPasses ==
    /\ place = "connect"
    /\ Trial /\ Scans
    /\ Reached(ScanNext)
    /\ at' = ScanNext
    /\ UNCHANGED <<maze, remaining, pref_dir>>
    /\ LoopEnds

ScanConnects ==
    /\ place = "connect"
    /\ Trial /\ Scans
    /\ ~Reached(ScanNext)
    /\ Connect(ScanNext)
    /\ LoopEnds
    /\ UNCHANGED pref_dir

PickConnects ==
    /\ place = "connect"
    /\ Trial /\ ~Scans
    /\ \E p \in Points(maze) : ~Reached(p) /\ Connect(p)
    /\ LoopEnds
    /\ UNCHANGED pref_dir

----------------------------------------------------------------------------
(* The markers come off, and the local variables are used for other things. *)
Clear ==
    /\ place = "clear"
    /\ maze' = Cleared(maze)
    /\ place' = IF StartFruits > 0 THEN "fruits" ELSE "exit"
    /\ at' = <<1, 1>> /\ pref_dir' = DIR_UP /\ remaining' = 0 /\ trials' = 0
    /\ idle' = 0

AddFruit ==
    /\ place = "fruits"
    /\ \E p \in Unfruited(maze), type \in FruitTypes : maze' = WithFruit(maze, p, type)
    /\ place' = IF maze'.n_fruits < StartFruits THEN "fruits" ELSE "exit"
    /\ UNCHANGED <<at, pref_dir, remaining, trials, idle>>

PlaceExit ==
    /\ place = "exit"
    /\ \E p \in Unfruited(maze) : maze' = WithExit(maze, p)
    /\ place' = "made"
    /\ UNCHANGED <<at, pref_dir, remaining, trials, idle>>

MakerNext == \/ DropWorm \/ WormMoves \/ WormEnds
             \/ Mark \/ ScanPasses \/ ScanConnects \/ PickConnects
             \/ Clear \/ AddFruit \/ PlaceExit

MakerSpec == MakerInit /\ [][MakerNext]_makerVars

----------------------------------------------------------------------------
(* What the counter and the marks promise in each loop: remaining is the   *)
(* number of spaces still walls, and later of spaces not reached; the      *)
(* reached spaces hang together with (1, 1), and no opening leads from a   *)
(* reached space to one that is not; the boundary is never dug.            *)
Opening(m, p, d) == p \in Points(m) /\ Beyond(p, d) \in Points(m)
                        /\ ~m.cell[MAZE_INDEX(m.xd, Ahead(p, d)[1], Ahead(p, d)[2])].wall

(* Connectedness by cuts, not by search: every division of S is crossed. *)
HangsTogether(m, S) ==
    \A T \in SUBSET S : T # {} /\ T # S =>
        \E p \in T, d \in Dirs : Opening(m, p, d) /\ Beyond(p, d) \in S \ T

ReachedPoints == {p \in Points(maze) : Reached(p)}

CountsRight ==
    /\ place \in {"drop", "worm"} => remaining = Cardinality({p \in Points(maze) : IsWall(p)})
    /\ place = "connect" =>
         /\ remaining = Cardinality(Points(maze) \ ReachedPoints)
         /\ <<1, 1>> \in ReachedPoints
         /\ HangsTogether(maze, ReachedPoints)
         /\ \A p \in ReachedPoints, d \in Dirs :
                Opening(maze, p, d) => Beyond(p, d) \in ReachedPoints

(* The maze that is made: all spaces hang together before the walls are    *)
(* removed in GOD_MODE, and after; the boundary is whole; the fruits are   *)
(* as many as asked for, the exit is one space without a fruit.            *)
MazeMade ==
    /\ place \in {"clear", "fruits", "exit", "made"} =>
         /\ \A p \in Points(maze) : ~IsWall(p)
         /\ HangsTogether(maze, Points(maze))
    /\ \A i \in Indices : i \notin IndicesOf(maze, Interior(maze)) => maze.cell[i] = MAZE_WALL
    /\ place = "made" =>
         /\ Cardinality({p \in Points(maze) : maze.cell[Index(p)].fruit # 0}) = StartFruits
         /\ {p \in Interior(maze) : maze.cell[Index(p)].exit} = {maze.exit}
         /\ maze.cell[Index(maze.exit)].fruit = 0
         /\ \A i \in Indices : ~maze.cell[i].reach

(* However the worms went, the second phase ends: no more than the random  *)
(* trials and one scan of the maze pass without joining a space.           *)
ConnectEnds == idle <= MaxTrials + XDim * YDim
=============================================================================
