-------------------------------- MODULE Maze --------------------------------
(***************************************************************************)
(* The maze of src/mp2/maze.c as a value: an array of cells, its           *)
(* dimensions, the count of fruits and the exit.  A lattice point (x, y)   *)
(* is found at MAZE_INDEX; the right boundary of a row is the left one of  *)
(* the next.  A cell is a record with a field for every bit of maze_bit_t, *)
(* the fruit bits as a number with 0 for no fruit.                         *)
(***************************************************************************)
EXTENDS MazeView, FiniteSets

CONSTANTS GOD_MODE,       \* remove all walls inside: 1 in the code
          FruitTypes,     \* 1 .. NUM_FRUIT_TYPES
          Spots           \* the points random() picks for fruits and the exit

ASSUME GodModeAssumption == GOD_MODE \in BOOLEAN
ASSUME FruitAssumption == FruitTypes \subseteq Nat \ {0}

MAZE_NONE == [wall |-> FALSE, fruit |-> 0, exit |-> FALSE, reach |-> FALSE]
MAZE_WALL == [MAZE_NONE EXCEPT !.wall = TRUE]

Indices == 0 .. 2 * MAZE_MAX_X_DIM * (2 * MAZE_MAX_Y_DIM + 3)
MAZE_INDEX(xd, x, y) == x + (y + 1) * xd * 2
Cell(m, x, y) == m.cell[MAZE_INDEX(m.xd, x, y)]
WallAt(m, x, y) == Cell(m, x, y).wall

Walls(xd, yd) == [cell |-> [i \in Indices |-> MAZE_WALL], xd |-> xd, yd |-> yd,
                  n_fruits |-> 0, exit |-> <<0, 0>>]

Odd(n) == {k \in 1 .. 2 * n : k % 2 = 1}
Points(m) == Odd(m.xd) \X Odd(m.yd)          \* the spaces, where all is open
Interior(m) == (1 .. 2 * m.xd - 1) \X (1 .. 2 * m.yd - 1)

(* The indices of a set of lattice points *)
IndicesOf(m, S) == {MAZE_INDEX(m.xd, p[1], p[2]) : p \in S}

(* The end of make_maze: the markers off, and the walls in GOD_MODE *)
Cleared(m) ==
    [m EXCEPT !.n_fruits = 0,
              !.cell = [i \in Indices |->
                  IF GOD_MODE /\ i \in IndicesOf(m, Interior(m)) THEN MAZE_NONE
                  ELSE IF i \in IndicesOf(m, Points(m)) THEN [@[i] EXCEPT !.reach = FALSE]
                  ELSE @[i]]]

\* Mistake: a fruit may land on another, the exit on a fruit.
Unfruited_Any(m) == Points(m) \cap Spots

Unfruited(m) == {p \in Points(m) \cap Spots : Cell(m, p[1], p[2]).fruit = 0}

WithFruit(m, p, type) ==
    [m EXCEPT !.n_fruits = @ + 1, !.cell[MAZE_INDEX(m.xd, p[1], p[2])].fruit = type]

WithExit(m, p) ==
    [m EXCEPT !.exit = p, !.cell[MAZE_INDEX(m.xd, p[1], p[2])].exit = TRUE]

----------------------------------------------------------------------------
(* find_block: the name of the image of a lattice point *)

(* the four walls around a point, in the order of dir_t *)
Pattern(m, x, y) ==
    [d \in Dirs |-> LET a == Ahead(<<x, y>>, d) IN WallAt(m, a[1], a[2])]

FindBlock(m, x, y) ==
    LET c == Cell(m, x, y)
    IN  IF m.n_fruits = 0 /\ c.exit THEN <<"exit">>
        ELSE CASE ~c.reach /\ c.fruit # 0 -> <<"fruit shadow">>
               [] ~c.reach /\ c.fruit = 0 -> <<"shadow">>
               [] c.reach /\ c.fruit # 0 -> <<"fruit", c.fruit>>
               [] c.reach /\ c.fruit = 0 /\ ~c.wall -> <<"empty">>
               [] OTHER -> <<"wall", Pattern(m, x, y)>>

(* fill_horiz_buffer and fill_vert_buffer: the picture of a row and of a   *)
(* column of pixels from (x, y) on                                         *)
PixelAt(m, x, y) ==
    <<FindBlock(m, x \div BLOCK_X_DIM, y \div BLOCK_Y_DIM), x % BLOCK_X_DIM, y % BLOCK_Y_DIM>>

HorizLine(m, x, y) == [idx \in 0 .. SCROLL_X_DIM - 1 |-> PixelAt(m, x + idx, y)]
VertLine(m, x, y) == [idx \in 0 .. SCROLL_Y_DIM - 1 |-> PixelAt(m, x, y + idx)]

----------------------------------------------------------------------------
(* The player in the maze *)

OnMaze(m, x, y) == x >= 0 /\ x <= 2 * m.xd /\ y >= 0 /\ y <= 2 * m.yd
InFruitRange(m, x, y) == x >= 0 /\ x < 2 * m.xd /\ y >= 0 /\ y < 2 * m.yd

(* check_for_fruit *)
HasFruit(m, x, y) == InFruitRange(m, x, y) /\ Cell(m, x, y).fruit # 0
WithoutFruit(m, x, y) ==
    IF HasFruit(m, x, y)
    THEN [m EXCEPT !.n_fruits = @ - 1, !.cell[MAZE_INDEX(m.xd, x, y)].fruit = 0]
    ELSE m

(* unveil_space: the points of S that are unveiled, and the maze after.  A  *)
(* maze one space wide, where S holds both points of one cell, has the     *)
(* second unveiled too, which the code would pass over.                    *)
Unveiled(m, S) == {p \in S : OnMaze(m, p[1], p[2]) /\ ~Cell(m, p[1], p[2]).reach}
Unveil(m, S) ==
    [m EXCEPT !.cell = [i \in Indices |->
        IF i \in IndicesOf(m, Unveiled(m, S)) THEN [@[i] EXCEPT !.reach = TRUE] ELSE @[i]]]

CheckForWin(m, x, y) == InFruitRange(m, x, y) /\ m.n_fruits = 0 /\ Cell(m, x, y).exit

FindOpenDirections(m, x, y) == {d \in Dirs : ~Pattern(m, x, y)[d]}
=============================================================================
