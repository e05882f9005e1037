------------------------------ MODULE MazeView ------------------------------
(***************************************************************************)
(* The player and the view window of the maze game, in pixels of the maze: *)
(* the constants of src/mp2/modex.h, blocks.h and maze.h and the moves of  *)
(* src/mp2/mazegame.c.  A view is a record: the player's upper left pixel  *)
(* (x, y), play_x and play_y in the code, and the upper left pixel of the  *)
(* window, map_x and map_y of game_info.  A maze of dimensions (xd, yd)    *)
(* has lattice points 0 .. 2 xd and 0 .. 2 yd, one block each.             *)
(***************************************************************************)
EXTENDS Integers

CONSTANTS BLOCK_X_DIM, BLOCK_Y_DIM,   \* the pixels of a block
          IMAGE_X_DIM, IMAGE_Y_DIM,   \* the pixels of the screen
          BarHeight,                  \* the lines the status bar takes from it
          SHOW_MIN,                   \* the pixels of the boundary never shown
          PAN_BORDER,                 \* pan when the player is this close, in blocks
          MAZE_MAX_X_DIM, MAZE_MAX_Y_DIM

ASSUME BlockDimAssumption == BLOCK_X_DIM \in Nat \ {0} /\ BLOCK_Y_DIM \in Nat \ {0}
ASSUME ImageDimAssumption ==
    /\ IMAGE_X_DIM \in Nat \ {0} /\ IMAGE_X_DIM % 4 = 0
    /\ IMAGE_Y_DIM \in Nat /\ BarHeight \in Nat /\ BarHeight < IMAGE_Y_DIM
ASSUME BorderAssumption == SHOW_MIN \in Nat /\ PAN_BORDER \in Nat
ASSUME MaxDimAssumption == MAZE_MAX_X_DIM \in Nat /\ MAZE_MAX_Y_DIM \in Nat

SCROLL_X_DIM == IMAGE_X_DIM
SCROLL_Y_DIM == IMAGE_Y_DIM - BarHeight

MAZE_MIN_X_DIM == (SCROLL_X_DIM + (BLOCK_X_DIM - 1) + 2 * SHOW_MIN) \div (2 * BLOCK_X_DIM)
MAZE_MIN_Y_DIM == (SCROLL_Y_DIM + (BLOCK_Y_DIM - 1) + 2 * SHOW_MIN) \div (2 * BLOCK_Y_DIM)

(* A maze fills the screen, and the screen has room for the player, where  *)
(* it starts and where it is followed at the border.                       *)
ASSUME ViewAssumption ==
    /\ MAZE_MIN_X_DIM <= MAZE_MAX_X_DIM /\ MAZE_MIN_Y_DIM <= MAZE_MAX_Y_DIM
    /\ SHOW_MIN <= BLOCK_X_DIM /\ SHOW_MIN <= BLOCK_Y_DIM
    /\ BLOCK_X_DIM * (PAN_BORDER + 1) <= SCROLL_X_DIM
    /\ BLOCK_Y_DIM * (PAN_BORDER + 1) <= SCROLL_Y_DIM
    /\ 2 * BLOCK_X_DIM <= SHOW_MIN + SCROLL_X_DIM
    /\ 2 * BLOCK_Y_DIM <= SHOW_MIN + SCROLL_Y_DIM

AtMost(n, m) == IF n > m THEN m ELSE n

(* prepare_maze_level: what a level asks for *)
LevelX(level) == AtMost(MAZE_MIN_X_DIM + 2 * (level - 1), MAZE_MAX_X_DIM)
LevelY(level) == AtMost(MAZE_MIN_Y_DIM + 2 * (level - 1), MAZE_MAX_Y_DIM)
LevelFruits(level) == AtMost(1 + (level - 1) \div 2, 6)

----------------------------------------------------------------------------
(* The directions are numbered clockwise, as in dir_t. *)
DIR_UP == 0
DIR_RIGHT == 1
DIR_DOWN == 2
DIR_LEFT == 3
NUM_DIRS == 4
DIR_STOP == NUM_DIRS
Dirs == 0 .. NUM_DIRS - 1

Reverse(d) == (d + 2) % NUM_DIRS

StartView == [x |-> BLOCK_X_DIM, y |-> BLOCK_Y_DIM, map_x |-> SHOW_MIN, map_y |-> SHOW_MIN]

(* move_up, move_right, move_down, move_left: one pixel, and the window    *)
(* after the player when it comes within the border and the maze goes on.  *)
MoveUp(v) ==
    LET y == v.y - 1
        pan == y < v.map_y + BLOCK_Y_DIM * PAN_BORDER /\ v.map_y > SHOW_MIN
    IN  [v EXCEPT !.y = y, !.map_y = IF pan THEN @ - 1 ELSE @]

\* Mistake: the window may show all of the boundary.
MoreRight_All(v, xd) == v.map_x + SCROLL_X_DIM < (2 * xd + 1) * BLOCK_X_DIM

MoreRight(v, xd) == v.map_x + SCROLL_X_DIM < (2 * xd + 1) * BLOCK_X_DIM - SHOW_MIN

MoveRight(v, xd) ==
    LET x == v.x + 1
        pan == x > v.map_x + SCROLL_X_DIM - BLOCK_X_DIM * (PAN_BORDER + 1) /\ MoreRight(v, xd)
    IN  [v EXCEPT !.x = x, !.map_x = IF pan THEN @ + 1 ELSE @]

MoveDown(v, yd) ==
    LET y == v.y + 1
        pan == /\ y > v.map_y + SCROLL_Y_DIM - BLOCK_Y_DIM * (PAN_BORDER + 1)
               /\ v.map_y + SCROLL_Y_DIM < (2 * yd + 1) * BLOCK_Y_DIM - SHOW_MIN
    IN  [v EXCEPT !.y = y, !.map_y = IF pan THEN @ + 1 ELSE @]

MoveLeft(v) ==
    LET x == v.x - 1
        pan == x < v.map_x + BLOCK_X_DIM * PAN_BORDER /\ v.map_x > SHOW_MIN
    IN  [v EXCEPT !.x = x, !.map_x = IF pan THEN @ - 1 ELSE @]

Moved(v, d, xd, yd) ==
    CASE d = DIR_UP -> MoveUp(v)
      [] d = DIR_RIGHT -> MoveRight(v, xd)
      [] d = DIR_DOWN -> MoveDown(v, yd)
      [] OTHER -> MoveLeft(v)

(* The lattice point the player stands on, and the next one in a direction *)
Square(v) == <<v.x \div BLOCK_X_DIM, v.y \div BLOCK_Y_DIM>>
Ahead(s, d) ==
    CASE d = DIR_UP -> <<s[1], s[2] - 1>>
      [] d = DIR_RIGHT -> <<s[1] + 1, s[2]>>
      [] d = DIR_DOWN -> <<s[1], s[2] + 1>>
      [] OTHER -> <<s[1] - 1, s[2]>>

(* The pixels from one square to the next *)
BlockLength(d) == IF d \in {DIR_UP, DIR_DOWN} THEN BLOCK_Y_DIM ELSE BLOCK_X_DIM

(* A next direction that reverses the player's turns it at once, wherever  *)
(* it is between two squares; at a square the player leaves in the next    *)
(* direction where that is open, else straight on, else it stops.  The     *)
(* code reads open[DIR_STOP], one past the array, when next is DIR_STOP;   *)
(* dir is DIR_STOP then too, as nothing sets next back within a level, so  *)
(* either outcome leaves dir as it is.                                     *)
Turns(dir, next) == dir \in Dirs /\ next = Reverse(dir)
TurnedDir(dir, next) == IF Turns(dir, next) THEN next ELSE dir

\* Mistake: a reversal keeps the count of the way it turns from.
TurnedCount_Kept(dir, next, cnt) == cnt

TurnedCount(dir, next, cnt) ==
    IF Turns(dir, next) /\ cnt > 0 THEN BlockLength(dir) - cnt ELSE cnt

LeaveDir(dir, next, open) ==
    LET d == IF next \in open THEN next ELSE dir
    IN  IF d \in open THEN d ELSE DIR_STOP
=============================================================================
