--------------------------- MODULE MazeGameProofs ---------------------------
(***************************************************************************)
(* For every maze, size of block and of screen, and whatever the input     *)
(* threads do to the next direction: the player stays on its way and the   *)
(* window follows it.  For every size of maze and whatever random()        *)
(* returns: make_maze joins all spaces, and in a bounded number of rounds. *)
(***************************************************************************)
EXTENDS MazeGame, MazeMaker, FiniteSetTheorems, FunctionTheorems,
        WellFoundedInduction, TLAPS

Views == [x: Int, y: Int, map_x: Int, map_y: Int]

(* Arithmetic of squares and pixels. *)

LEMMA SquareOf ==
  ASSUME NEW b \in Nat \ {0}, NEW k \in Int
  PROVE  (b * k) \div b = k
OBVIOUS

LEMMA Between ==
  ASSUME NEW b \in Nat \ {0}, NEW k \in Int, NEW m \in Int, 1 <= k, k <= m
  PROVE  /\ b * k \in Int /\ b * m \in Int
         /\ b <= b * k /\ b * k <= b * m
<1>1. b * (k - 1) >= 0 /\ b * (m - k) >= 0
  OBVIOUS
<1>. QED
  BY <1>1

LEMMA NextProduct ==
  ASSUME NEW b \in Nat \ {0}, NEW k \in Int
  PROVE  /\ b * k \in Int
         /\ b * (k + 1) = b * k + b
         /\ b * (k - 1) = b * k - b
OBVIOUS

LEMMA Divided ==
  ASSUME NEW a \in Nat, NEW b \in Nat \ {0}
  PROVE  a \div b \in Int /\ a < b * (a \div b) + b
OBVIOUS

\* The least dimension of a maze is enough to fill the screen.
LEMMA Fills ==
  ASSUME NEW b \in Nat \ {0}, NEW s \in Nat, NEW n \in Int,
         (s + (b - 1)) \div (2 * b) <= n
  PROVE  s <= (2 * n + 1) * b
<1>. DEFINE a == s + (b - 1)
            m == a \div (2 * b)
<1>1. a \in Nat /\ 2 * b \in Nat \ {0}
  OBVIOUS
<1>2. m \in Int /\ a < (2 * b) * m + 2 * b
  BY <1>1, Divided
<1>. HIDE DEF m
<1>3. b * (n - m) >= 0
  <2>1. n - m \in Nat
    BY <1>2 DEF m
  <2>. QED
    BY <2>1
<1>4. (2 * n + 1) * b = 2 * (b * n) + b /\ (2 * b) * m = 2 * (b * m) /\ b * (n - m) = b * n - b * m
  BY <1>2
<1>. QED
  BY <1>2, <1>3, <1>4

----------------------------------------------------------------------------
(* What the moves do to a view. *)

LEMMA MovedXY ==
  ASSUME NEW v \in Views, NEW d \in Dirs, NEW xd, NEW yd
  PROVE  /\ Moved(v, d, xd, yd).x = CASE d = DIR_RIGHT -> v.x + 1 [] d = DIR_LEFT -> v.x - 1 [] OTHER -> v.x
         /\ Moved(v, d, xd, yd).y = CASE d = DIR_DOWN -> v.y + 1 [] d = DIR_UP -> v.y - 1 [] OTHER -> v.y
BY DEF Views, Dirs, NUM_DIRS, DIR_UP, DIR_RIGHT, DIR_DOWN, DIR_LEFT,
       Moved, MoveUp, MoveRight, MoveDown, MoveLeft

LEMMA ShiftedXY ==
  ASSUME NEW v \in Views, NEW d \in Dirs, NEW n \in Int
  PROVE  /\ Shifted(v, d, n).x = CASE d = DIR_RIGHT -> v.x + n [] d = DIR_LEFT -> v.x - n [] OTHER -> v.x
         /\ Shifted(v, d, n).y = CASE d = DIR_DOWN -> v.y + n [] d = DIR_UP -> v.y - n [] OTHER -> v.y
BY DEF Views, Dirs, NUM_DIRS, DIR_UP, DIR_RIGHT, DIR_DOWN, DIR_LEFT, Shifted

LEMMA Panned ==
  ASSUME NEW v \in Views, NEW n \in Int, NEW m \in Int
  PROVE  [v EXCEPT !.x = n, !.map_x = m] \in Views /\ [v EXCEPT !.y = n, !.map_y = m] \in Views
BY DEF Views

LEMMA MovedView ==
  ASSUME NEW v \in Views, NEW d \in Dirs, NEW xd, NEW yd
  PROVE  Moved(v, d, xd, yd) \in Views
<1>1. MoveUp(v) \in Views
  <2>. DEFINE to == v.y - 1
              map == IF to < v.map_y + BLOCK_Y_DIM * PAN_BORDER /\ v.map_y > SHOW_MIN THEN v.map_y - 1 ELSE v.map_y
  <2>1. to \in Int /\ map \in Int
    BY DEF Views
  <2>2. MoveUp(v) = [v EXCEPT !.y = to, !.map_y = map]
    BY DEF MoveUp
  <2>. HIDE DEF to, map
  <2>3. [v EXCEPT !.y = to, !.map_y = map] \in Views
    BY <2>1, Panned
  <2>. QED
    BY <2>2, <2>3
<1>2. MoveRight(v, xd) \in Views
  <2>. DEFINE to == v.x + 1
              map == IF to > v.map_x + SCROLL_X_DIM - BLOCK_X_DIM * (PAN_BORDER + 1) /\ MoreRight(v, xd) THEN v.map_x + 1 ELSE v.map_x
  <2>1. to \in Int /\ map \in Int
    BY DEF Views
  <2>2. MoveRight(v, xd) = [v EXCEPT !.x = to, !.map_x = map]
    BY DEF MoveRight
  <2>. HIDE DEF to, map
  <2>3. [v EXCEPT !.x = to, !.map_x = map] \in Views
    BY <2>1, Panned
  <2>. QED
    BY <2>2, <2>3
<1>3. MoveDown(v, yd) \in Views
  <2>. DEFINE to == v.y + 1
              map == IF /\ to > v.map_y + SCROLL_Y_DIM - BLOCK_Y_DIM * (PAN_BORDER + 1)
                        /\ v.map_y + SCROLL_Y_DIM < (2 * yd + 1) * BLOCK_Y_DIM - SHOW_MIN
                     THEN v.map_y + 1 ELSE v.map_y
  <2>1. to \in Int /\ map \in Int
    BY DEF Views
  <2>2. MoveDown(v, yd) = [v EXCEPT !.y = to, !.map_y = map]
    BY DEF MoveDown
  <2>. HIDE DEF to, map
  <2>3. [v EXCEPT !.y = to, !.map_y = map] \in Views
    BY <2>1, Panned
  <2>. QED
    BY <2>2, <2>3
<1>4. MoveLeft(v) \in Views
  <2>. DEFINE to == v.x - 1
              map == IF to < v.map_x + BLOCK_X_DIM * PAN_BORDER /\ v.map_x > SHOW_MIN THEN v.map_x - 1 ELSE v.map_x
  <2>1. to \in Int /\ map \in Int
    BY DEF Views
  <2>2. MoveLeft(v) = [v EXCEPT !.x = to, !.map_x = map]
    BY DEF MoveLeft
  <2>. HIDE DEF to, map
  <2>3. [v EXCEPT !.x = to, !.map_x = map] \in Views
    BY <2>1, Panned
  <2>. QED
    BY <2>2, <2>3
<1>. QED
  BY <1>1, <1>2, <1>3, <1>4 DEF Moved

LEMMA Reversed ==
  ASSUME NEW d \in Dirs
  PROVE  /\ Reverse(d) \in Dirs /\ Reverse(Reverse(d)) = d
         /\ Reverse(d) = CASE d = DIR_UP -> DIR_DOWN [] d = DIR_RIGHT -> DIR_LEFT
                           [] d = DIR_DOWN -> DIR_UP [] OTHER -> DIR_RIGHT
         /\ BlockLength(Reverse(d)) = BlockLength(d)
         /\ BlockLength(d) \in Nat \ {0}
BY BlockDimAssumption
   DEF Reverse, BlockLength, Dirs, NUM_DIRS, DIR_UP, DIR_RIGHT, DIR_DOWN, DIR_LEFT
LEMMA ShiftedView ==
  ASSUME NEW v \in Views, NEW d \in Dirs, NEW n \in Int
  PROVE  Shifted(v, d, n) \in Views
<1>1. /\ [v EXCEPT !.y = v.y - n] \in Views /\ [v EXCEPT !.x = v.x + n] \in Views
      /\ [v EXCEPT !.y = v.y + n] \in Views /\ [v EXCEPT !.x = v.x - n] \in Views
  BY DEF Views
<1>. QED
  BY <1>1 DEF Shifted

LEMMA SamePlace ==
  ASSUME NEW v, NEW w, v.x = w.x, v.y = w.y, OnSquare(v)
  PROVE  OnSquare(w)
BY DEF OnSquare, Square

\* One block ahead of an open square there is an open square, if the next
\* lattice point is open.
LEMMA AheadOpen ==
  ASSUME NEW v \in Views, OnSquare(v), NEW d \in Dirs, Ahead(Square(v), d) \in Open[level]
  PROVE  OnSquare(Shifted(v, d, BlockLength(d)))
<1>. DEFINE i == v.x \div BLOCK_X_DIM
            j == v.y \div BLOCK_Y_DIM
            w == Shifted(v, d, BlockLength(d))
<1>1. BLOCK_X_DIM \in Nat \ {0} /\ BLOCK_Y_DIM \in Nat \ {0} /\ v.x \in Int /\ v.y \in Int
  BY BlockDimAssumption DEF Views
<1>2. i \in Int /\ j \in Int /\ v.x = BLOCK_X_DIM * i /\ v.y = BLOCK_Y_DIM * j
  BY <1>1 DEF OnSquare, Square
<1>3. /\ w.x = CASE d = DIR_RIGHT -> v.x + BLOCK_X_DIM [] d = DIR_LEFT -> v.x - BLOCK_X_DIM [] OTHER -> v.x
      /\ w.y = CASE d = DIR_DOWN -> v.y + BLOCK_Y_DIM [] d = DIR_UP -> v.y - BLOCK_Y_DIM [] OTHER -> v.y
  <2>1. BlockLength(d) \in Int
    BY Reversed
  <2>. QED
    BY <2>1, ShiftedXY
       DEF BlockLength, Dirs, NUM_DIRS, DIR_UP, DIR_RIGHT, DIR_DOWN, DIR_LEFT
<1>. DEFINE p == CASE d = DIR_RIGHT -> i + 1 [] d = DIR_LEFT -> i - 1 [] OTHER -> i
            q == CASE d = DIR_DOWN -> j + 1 [] d = DIR_UP -> j - 1 [] OTHER -> j
<1>4. p \in Int /\ q \in Int /\ Ahead(Square(v), d) = <<p, q>>
  BY <1>2 DEF Ahead, Square, Dirs, NUM_DIRS, DIR_UP, DIR_RIGHT, DIR_DOWN, DIR_LEFT
<1>5. w.x = BLOCK_X_DIM * p /\ w.y = BLOCK_Y_DIM * q
  <2>1. /\ BLOCK_X_DIM * (i + 1) = BLOCK_X_DIM * i + BLOCK_X_DIM
        /\ BLOCK_X_DIM * (i - 1) = BLOCK_X_DIM * i - BLOCK_X_DIM
        /\ BLOCK_Y_DIM * (j + 1) = BLOCK_Y_DIM * j + BLOCK_Y_DIM
        /\ BLOCK_Y_DIM * (j - 1) = BLOCK_Y_DIM * j - BLOCK_Y_DIM
    BY <1>1, <1>2, NextProduct
  <2>. HIDE DEF i, j, w
  <2>2. CASE d = DIR_RIGHT
    BY <1>2, <1>3, <2>1, <2>2 DEF DIR_UP, DIR_RIGHT, DIR_DOWN, DIR_LEFT
  <2>3. CASE d = DIR_LEFT
    BY <1>2, <1>3, <2>1, <2>3 DEF DIR_UP, DIR_RIGHT, DIR_DOWN, DIR_LEFT
  <2>4. CASE d = DIR_DOWN
    BY <1>2, <1>3, <2>1, <2>4 DEF DIR_UP, DIR_RIGHT, DIR_DOWN, DIR_LEFT
  <2>5. CASE d = DIR_UP
    BY <1>2, <1>3, <2>1, <2>5 DEF DIR_UP, DIR_RIGHT, DIR_DOWN, DIR_LEFT
  <2>. QED
    BY <2>2, <2>3, <2>4, <2>5 DEF Dirs, NUM_DIRS, DIR_UP, DIR_RIGHT, DIR_DOWN, DIR_LEFT
<1>6. w.x \div BLOCK_X_DIM = p /\ w.y \div BLOCK_Y_DIM = q
  <2>. HIDE DEF p, q, w
  <2>. QED
    BY <1>1, <1>4, <1>5, SquareOf
<1>. HIDE DEF p, q, w
<1>7. Square(w) = <<p, q>>
  BY <1>6 DEF Square
<1>. QED
  BY <1>4, <1>5, <1>7 DEF OnSquare, w

----------------------------------------------------------------------------
(* The player in the maze and in the window. *)

LEMMA LevelDims ==
  ASSUME NEW n \in Nat \ {0}
  PROVE  /\ LevelX(n) \in Int /\ SCROLL_X_DIM + 2 * SHOW_MIN <= (2 * LevelX(n) + 1) * BLOCK_X_DIM
         /\ LevelY(n) \in Int /\ SCROLL_Y_DIM + 2 * SHOW_MIN <= (2 * LevelY(n) + 1) * BLOCK_Y_DIM
<1>1. /\ BLOCK_X_DIM \in Nat \ {0} /\ BLOCK_Y_DIM \in Nat \ {0} /\ SHOW_MIN \in Nat
      /\ SCROLL_X_DIM \in Nat /\ SCROLL_Y_DIM \in Nat
  BY BlockDimAssumption, BorderAssumption, ImageDimAssumption DEF SCROLL_X_DIM, SCROLL_Y_DIM
<1>2. /\ SCROLL_X_DIM + 2 * SHOW_MIN \in Nat /\ SCROLL_Y_DIM + 2 * SHOW_MIN \in Nat
      /\ MAZE_MIN_X_DIM = ((SCROLL_X_DIM + 2 * SHOW_MIN) + (BLOCK_X_DIM - 1)) \div (2 * BLOCK_X_DIM)
      /\ MAZE_MIN_Y_DIM = ((SCROLL_Y_DIM + 2 * SHOW_MIN) + (BLOCK_Y_DIM - 1)) \div (2 * BLOCK_Y_DIM)
  <2>1. /\ SCROLL_X_DIM + (BLOCK_X_DIM - 1) + 2 * SHOW_MIN
             = (SCROLL_X_DIM + 2 * SHOW_MIN) + (BLOCK_X_DIM - 1)
        /\ SCROLL_Y_DIM + (BLOCK_Y_DIM - 1) + 2 * SHOW_MIN
             = (SCROLL_Y_DIM + 2 * SHOW_MIN) + (BLOCK_Y_DIM - 1)
    BY <1>1
  <2>. QED
    BY <1>1, <2>1 DEF MAZE_MIN_X_DIM, MAZE_MIN_Y_DIM
<1>3. /\ MAZE_MIN_X_DIM \in Int /\ MAZE_MIN_Y_DIM \in Int
      /\ MAZE_MAX_X_DIM \in Int /\ MAZE_MAX_Y_DIM \in Int
  <2>1. /\ (SCROLL_X_DIM + 2 * SHOW_MIN) + (BLOCK_X_DIM - 1) \in Nat /\ 2 * BLOCK_X_DIM \in Nat \ {0}
        /\ (SCROLL_Y_DIM + 2 * SHOW_MIN) + (BLOCK_Y_DIM - 1) \in Nat /\ 2 * BLOCK_Y_DIM \in Nat \ {0}
    BY <1>1
  <2>. QED
    BY <1>2, <2>1, Divided, MaxDimAssumption
<1>4. /\ LevelX(n) \in Int /\ MAZE_MIN_X_DIM <= LevelX(n)
      /\ LevelY(n) \in Int /\ MAZE_MIN_Y_DIM <= LevelY(n)
  BY <1>3, ViewAssumption DEF LevelX, LevelY, AtMost
<1>. QED
  BY <1>1, <1>2, <1>4, Fills

\* The pixels of the interior of the maze, where the player stands.
LEMMA InInterior ==
  ASSUME NEW v \in Views, level \in 1 .. MAX_LEVEL, OnSquare(v)
  PROVE  /\ BLOCK_X_DIM <= v.x /\ v.x + 2 * BLOCK_X_DIM <= (2 * Xd + 1) * BLOCK_X_DIM
         /\ BLOCK_Y_DIM <= v.y /\ v.y + 2 * BLOCK_Y_DIM <= (2 * Yd + 1) * BLOCK_Y_DIM
<1>. DEFINE i == Square(v)[1]
            j == Square(v)[2]
            m == 2 * Xd - 1
            n == 2 * Yd - 1
<1>1. BLOCK_X_DIM \in Nat \ {0} /\ BLOCK_Y_DIM \in Nat \ {0} /\ Xd \in Int /\ Yd \in Int
  BY BlockDimAssumption, LevelDims, LevelAssumption DEF Xd, Yd
<1>2. /\ i \in 1 .. m /\ j \in 1 .. n
      /\ v.x = BLOCK_X_DIM * i /\ v.y = BLOCK_Y_DIM * j
  <2>1. Square(v) \in (1 .. m) \X (1 .. n)
    BY OpenAssumption DEF OnSquare, Xd, Yd
  <2>. QED
    BY <2>1 DEF OnSquare
<1>3. i \in Int /\ j \in Int /\ m \in Int /\ n \in Int /\ 1 <= i /\ i <= m /\ 1 <= j /\ j <= n
  BY <1>1, <1>2
<1>4. /\ (2 * Xd + 1) * BLOCK_X_DIM = BLOCK_X_DIM * m + 2 * BLOCK_X_DIM
      /\ (2 * Yd + 1) * BLOCK_Y_DIM = BLOCK_Y_DIM * n + 2 * BLOCK_Y_DIM
  BY <1>1
<1>. HIDE DEF i, j, m, n
<1>5. /\ BLOCK_X_DIM <= BLOCK_X_DIM * i /\ BLOCK_X_DIM * i <= BLOCK_X_DIM * m
      /\ BLOCK_Y_DIM <= BLOCK_Y_DIM * j /\ BLOCK_Y_DIM * j <= BLOCK_Y_DIM * n
      /\ BLOCK_X_DIM * m \in Int /\ BLOCK_X_DIM * i \in Int
      /\ BLOCK_Y_DIM * n \in Int /\ BLOCK_Y_DIM * j \in Int
  BY <1>1, <1>3, Between
<1>. QED
  BY <1>1, <1>2, <1>4, <1>5

\* ViewFollows for a view.
Framed(v) ==
  /\ v.map_x >= SHOW_MIN /\ v.map_y >= SHOW_MIN
  /\ v.map_x + SCROLL_X_DIM <= (2 * Xd + 1) * BLOCK_X_DIM - SHOW_MIN
  /\ v.map_y + SCROLL_Y_DIM <= (2 * Yd + 1) * BLOCK_Y_DIM - SHOW_MIN
  /\ v.x >= v.map_x /\ v.x + BLOCK_X_DIM <= v.map_x + SCROLL_X_DIM
  /\ v.y >= v.map_y /\ v.y + BLOCK_Y_DIM <= v.map_y + SCROLL_Y_DIM

\* The player goes one pixel of the n there are to the next square.
OnWay(v, d, n) ==
  /\ OnSquare(Shifted(v, d, n))
  /\ OnSquare(Shifted(v, Reverse(d), BlockLength(d) - n))

LEMMA StaysFramed ==
  ASSUME NEW v \in Views, level \in 1 .. MAX_LEVEL, Framed(v),
         NEW d \in Dirs, NEW n \in 1 .. BlockLength(d), OnWay(v, d, n)
  PROVE  Framed(Moved(v, d, Xd, Yd))
<1>. DEFINE right == (2 * Xd + 1) * BLOCK_X_DIM
            bottom == (2 * Yd + 1) * BLOCK_Y_DIM
            px == BLOCK_X_DIM * PAN_BORDER
            py == BLOCK_Y_DIM * PAN_BORDER
            w == Shifted(v, d, n)
<1>1. /\ BLOCK_X_DIM \in Nat \ {0} /\ BLOCK_Y_DIM \in Nat \ {0}
      /\ SHOW_MIN \in Nat /\ SHOW_MIN <= BLOCK_X_DIM /\ SHOW_MIN <= BLOCK_Y_DIM
      /\ SCROLL_X_DIM \in Nat /\ SCROLL_Y_DIM \in Nat
      /\ v.x \in Int /\ v.y \in Int /\ v.map_x \in Int /\ v.map_y \in Int
  BY BlockDimAssumption, BorderAssumption, ImageDimAssumption, ViewAssumption
     DEF SCROLL_X_DIM, SCROLL_Y_DIM, Views
<1>2. /\ px \in Nat /\ BLOCK_X_DIM * (PAN_BORDER + 1) = px + BLOCK_X_DIM
      /\ px + BLOCK_X_DIM <= SCROLL_X_DIM
      /\ py \in Nat /\ BLOCK_Y_DIM * (PAN_BORDER + 1) = py + BLOCK_Y_DIM
      /\ py + BLOCK_Y_DIM <= SCROLL_Y_DIM
  <2>1. PAN_BORDER \in Nat
    BY BorderAssumption
  <2>2. px \in Nat /\ py \in Nat
    BY <1>1, <2>1
  <2>. QED
    BY <1>1, <2>1, <2>2, NextProduct, ViewAssumption
<1>3. right \in Int /\ bottom \in Int
  <2>1. Xd \in Int /\ Yd \in Int
    BY LevelDims, LevelAssumption DEF Xd, Yd
  <2>. QED
    BY <1>1, <2>1
<1>4. /\ BLOCK_X_DIM <= w.x /\ w.x + 2 * BLOCK_X_DIM <= right
      /\ BLOCK_Y_DIM <= w.y /\ w.y + 2 * BLOCK_Y_DIM <= bottom
  <2>1. w \in Views
    BY ShiftedView
  <2>. QED
    BY <2>1, InInterior DEF OnWay
<1>5. /\ w.x = CASE d = DIR_RIGHT -> v.x + n [] d = DIR_LEFT -> v.x - n [] OTHER -> v.x
      /\ w.y = CASE d = DIR_DOWN -> v.y + n [] d = DIR_UP -> v.y - n [] OTHER -> v.y
      /\ n \in Int /\ n >= 1
  <2>1. n \in Int /\ n >= 1
    BY Reversed
  <2>. QED
    BY <2>1, ShiftedXY
<1>6. /\ v.map_x >= SHOW_MIN /\ v.map_y >= SHOW_MIN
      /\ v.map_x + SCROLL_X_DIM <= right - SHOW_MIN
      /\ v.map_y + SCROLL_Y_DIM <= bottom - SHOW_MIN
      /\ v.x >= v.map_x /\ v.x + BLOCK_X_DIM <= v.map_x + SCROLL_X_DIM
      /\ v.y >= v.map_y /\ v.y + BLOCK_Y_DIM <= v.map_y + SCROLL_Y_DIM
  BY DEF Framed
<1>7. CASE d = DIR_UP
  <2>. DEFINE to == v.y - 1
              map == IF to < v.map_y + py /\ v.map_y > SHOW_MIN THEN v.map_y - 1 ELSE v.map_y
  <2>1. MoveUp(v) = [v EXCEPT !.y = to, !.map_y = map]
    BY DEF MoveUp
  <2>2. Moved(v, d, Xd, Yd) = MoveUp(v)
    BY <1>7 DEF Moved, DIR_UP, DIR_RIGHT, DIR_DOWN, DIR_LEFT
  <2>3. w.y = v.y - n /\ w.x = v.x
    BY <1>5, <1>7 DEF DIR_UP, DIR_RIGHT, DIR_DOWN, DIR_LEFT
  <2>. HIDE DEF right, bottom, px, py, w
  <2>4. /\ map >= SHOW_MIN /\ map + SCROLL_Y_DIM <= bottom - SHOW_MIN
        /\ to >= map /\ to + BLOCK_Y_DIM <= map + SCROLL_Y_DIM
    BY <1>1, <1>2, <1>3, <1>4, <1>5, <1>6, <2>3
  <2>5. /\ MoveUp(v).x = v.x /\ MoveUp(v).map_x = v.map_x
        /\ MoveUp(v).y = to /\ MoveUp(v).map_y = map
    <3>. HIDE DEF to, map
    <3>. QED
      BY <2>1 DEF Views
  <2>. HIDE DEF to, map
  <2>. QED
    BY <1>6, <2>2, <2>4, <2>5 DEF Framed, right, bottom
<1>8. CASE d = DIR_RIGHT
  <2>. DEFINE to == v.x + 1
              map == IF /\ to > v.map_x + SCROLL_X_DIM - BLOCK_X_DIM * (PAN_BORDER + 1)
                        /\ v.map_x + SCROLL_X_DIM < right - SHOW_MIN
                     THEN v.map_x + 1 ELSE v.map_x
  <2>1. MoveRight(v, Xd) = [v EXCEPT !.x = to, !.map_x = map]
    BY DEF MoveRight, MoreRight
  <2>2. Moved(v, d, Xd, Yd) = MoveRight(v, Xd)
    BY <1>8 DEF Moved, DIR_UP, DIR_RIGHT, DIR_DOWN, DIR_LEFT
  <2>3. w.x = v.x + n /\ w.y = v.y
    BY <1>5, <1>8 DEF DIR_UP, DIR_RIGHT, DIR_DOWN, DIR_LEFT
  <2>. HIDE DEF right, bottom, px, py, w
  <2>4. /\ map >= SHOW_MIN /\ map + SCROLL_X_DIM <= right - SHOW_MIN
        /\ to >= map /\ to + BLOCK_X_DIM <= map + SCROLL_X_DIM
    BY <1>1, <1>2, <1>3, <1>4, <1>5, <1>6, <2>3
  <2>5. /\ MoveRight(v, Xd).y = v.y /\ MoveRight(v, Xd).map_y = v.map_y
        /\ MoveRight(v, Xd).x = to /\ MoveRight(v, Xd).map_x = map
    <3>. HIDE DEF to, map
    <3>. QED
      BY <2>1 DEF Views
  <2>. HIDE DEF to, map
  <2>. QED
    BY <1>6, <2>2, <2>4, <2>5 DEF Framed, right, bottom
<1>9. CASE d = DIR_DOWN
  <2>. DEFINE to == v.y + 1
              map == IF /\ to > v.map_y + SCROLL_Y_DIM - BLOCK_Y_DIM * (PAN_BORDER + 1)
                        /\ v.map_y + SCROLL_Y_DIM < bottom - SHOW_MIN
                     THEN v.map_y + 1 ELSE v.map_y
  <2>1. MoveDown(v, Yd) = [v EXCEPT !.y = to, !.map_y = map]
    BY DEF MoveDown
  <2>2. Moved(v, d, Xd, Yd) = MoveDown(v, Yd)
    BY <1>9 DEF Moved, DIR_UP, DIR_RIGHT, DIR_DOWN, DIR_LEFT
  <2>3. w.y = v.y + n /\ w.x = v.x
    BY <1>5, <1>9 DEF DIR_UP, DIR_RIGHT, DIR_DOWN, DIR_LEFT
  <2>. HIDE DEF right, bottom, px, py, w
  <2>4. /\ map >= SHOW_MIN /\ map + SCROLL_Y_DIM <= bottom - SHOW_MIN
        /\ to >= map /\ to + BLOCK_Y_DIM <= map + SCROLL_Y_DIM
    BY <1>1, <1>2, <1>3, <1>4, <1>5, <1>6, <2>3
  <2>5. /\ MoveDown(v, Yd).x = v.x /\ MoveDown(v, Yd).map_x = v.map_x
        /\ MoveDown(v, Yd).y = to /\ MoveDown(v, Yd).map_y = map
    <3>. HIDE DEF to, map
    <3>. QED
      BY <2>1 DEF Views
  <2>. HIDE DEF to, map
  <2>. QED
    BY <1>6, <2>2, <2>4, <2>5 DEF Framed, right, bottom
<1>10. CASE d = DIR_LEFT
  <2>. DEFINE to == v.x - 1
              map == IF to < v.map_x + px /\ v.map_x > SHOW_MIN THEN v.map_x - 1 ELSE v.map_x
  <2>1. MoveLeft(v) = [v EXCEPT !.x = to, !.map_x = map]
    BY DEF MoveLeft
  <2>2. Moved(v, d, Xd, Yd) = MoveLeft(v)
    BY <1>10 DEF Moved, DIR_UP, DIR_RIGHT, DIR_DOWN, DIR_LEFT
  <2>3. w.x = v.x - n /\ w.y = v.y
    BY <1>5, <1>10 DEF DIR_UP, DIR_RIGHT, DIR_DOWN, DIR_LEFT
  <2>. HIDE DEF right, bottom, px, py, w
  <2>4. /\ map >= SHOW_MIN /\ map + SCROLL_X_DIM <= right - SHOW_MIN
        /\ to >= map /\ to + BLOCK_X_DIM <= map + SCROLL_X_DIM
    BY <1>1, <1>2, <1>3, <1>4, <1>5, <1>6, <2>3
  <2>5. /\ MoveLeft(v).y = v.y /\ MoveLeft(v).map_y = v.map_y
        /\ MoveLeft(v).x = to /\ MoveLeft(v).map_x = map
    <3>. HIDE DEF to, map
    <3>. QED
      BY <2>1 DEF Views
  <2>. HIDE DEF to, map
  <2>. QED
    BY <1>6, <2>2, <2>4, <2>5 DEF Framed, right, bottom
<1>. QED
  BY <1>7, <1>8, <1>9, <1>10 DEF Dirs, NUM_DIRS, DIR_UP, DIR_RIGHT, DIR_DOWN, DIR_LEFT

LEMMA StaysOnWay ==
  ASSUME NEW v \in Views, NEW d \in Dirs, NEW n \in 1 .. BlockLength(d), OnWay(v, d, n),
         NEW xd, NEW yd
  PROVE  /\ OnSquare(Shifted(Moved(v, d, xd, yd), d, n - 1))
         /\ OnSquare(Shifted(Moved(v, d, xd, yd), Reverse(d), BlockLength(d) - (n - 1)))
<1>. DEFINE w == Moved(v, d, xd, yd)
            b == BlockLength(d)
            r == Reverse(d)
<1>1. w \in Views /\ r \in Dirs /\ b \in Int /\ n \in Int /\ v.x \in Int /\ v.y \in Int
  BY MovedView, Reversed DEF Views
<1>2. Shifted(w, d, n - 1).x = Shifted(v, d, n).x /\ Shifted(w, d, n - 1).y = Shifted(v, d, n).y
  <2>1. /\ w.x = CASE d = DIR_RIGHT -> v.x + 1 [] d = DIR_LEFT -> v.x - 1 [] OTHER -> v.x
        /\ w.y = CASE d = DIR_DOWN -> v.y + 1 [] d = DIR_UP -> v.y - 1 [] OTHER -> v.y
    BY MovedXY
  <2>. HIDE DEF w, b, r
  <2>2. n - 1 \in Int
    BY <1>1
  <2>3. /\ Shifted(w, d, n - 1).x = CASE d = DIR_RIGHT -> w.x + (n - 1) [] d = DIR_LEFT -> w.x - (n - 1) [] OTHER -> w.x
        /\ Shifted(w, d, n - 1).y = CASE d = DIR_DOWN -> w.y + (n - 1) [] d = DIR_UP -> w.y - (n - 1) [] OTHER -> w.y
    BY <1>1, <2>2, ShiftedXY
  <2>4. /\ Shifted(v, d, n).x = CASE d = DIR_RIGHT -> v.x + (n) [] d = DIR_LEFT -> v.x - (n) [] OTHER -> v.x
        /\ Shifted(v, d, n).y = CASE d = DIR_DOWN -> v.y + (n) [] d = DIR_UP -> v.y - (n) [] OTHER -> v.y
    BY <1>1, ShiftedXY
  <2>. QED
    BY <1>1, <2>1, <2>3, <2>4 DEF Dirs, NUM_DIRS, DIR_UP, DIR_RIGHT, DIR_DOWN, DIR_LEFT
<1>3. /\ Shifted(w, r, b - (n - 1)).x = Shifted(v, r, b - n).x
      /\ Shifted(w, r, b - (n - 1)).y = Shifted(v, r, b - n).y
  <2>1. /\ w.x = CASE d = DIR_RIGHT -> v.x + 1 [] d = DIR_LEFT -> v.x - 1 [] OTHER -> v.x
        /\ w.y = CASE d = DIR_DOWN -> v.y + 1 [] d = DIR_UP -> v.y - 1 [] OTHER -> v.y
    BY MovedXY
  <2>2. r = CASE d = DIR_UP -> DIR_DOWN [] d = DIR_RIGHT -> DIR_LEFT
              [] d = DIR_DOWN -> DIR_UP [] OTHER -> DIR_RIGHT
    BY Reversed
  <2>. HIDE DEF w, r, b
  <2>3. b - (n - 1) \in Int /\ b - n \in Int
    BY <1>1
  <2>4. /\ Shifted(w, r, b - (n - 1)).x = CASE r = DIR_RIGHT -> w.x + (b - (n - 1)) [] r = DIR_LEFT -> w.x - (b - (n - 1)) [] OTHER -> w.x
        /\ Shifted(w, r, b - (n - 1)).y = CASE r = DIR_DOWN -> w.y + (b - (n - 1)) [] r = DIR_UP -> w.y - (b - (n - 1)) [] OTHER -> w.y
    BY <1>1, <2>3, ShiftedXY
  <2>5. /\ Shifted(v, r, b - n).x = CASE r = DIR_RIGHT -> v.x + (b - n) [] r = DIR_LEFT -> v.x - (b - n) [] OTHER -> v.x
        /\ Shifted(v, r, b - n).y = CASE r = DIR_DOWN -> v.y + (b - n) [] r = DIR_UP -> v.y - (b - n) [] OTHER -> v.y
    BY <1>1, <2>3, ShiftedXY
  <2>. QED
    BY <1>1, <2>1, <2>2, <2>4, <2>5 DEF Dirs, NUM_DIRS, DIR_UP, DIR_RIGHT, DIR_DOWN, DIR_LEFT
<1>. HIDE DEF w, r, b
<1>4. OnSquare(Shifted(v, d, n)) /\ OnSquare(Shifted(v, r, b - n))
  BY DEF OnWay, r, b
<1>5. OnSquare(Shifted(w, d, n - 1)) /\ OnSquare(Shifted(w, r, b - (n - 1)))
  BY <1>2, <1>3, <1>4, SamePlace
<1>. QED
  BY <1>5 DEF w, r, b

\* A player that does not move is where it is.
LEMMA Unshifted ==
  ASSUME NEW v \in Views, NEW d \in Dirs
  PROVE  OnSquare(Shifted(v, d, 0)) <=> OnSquare(v)
<1>1. v.x \in Int /\ v.y \in Int
  BY DEF Views
<1>2. Shifted(v, d, 0).x = v.x /\ Shifted(v, d, 0).y = v.y
  BY <1>1, ShiftedXY
<1>. QED
  BY <1>2, SamePlace

----------------------------------------------------------------------------
(* The inductive invariant.  What the input threads write, next_dir with   *)
(* it, may have any value: a step of the rtc thread tests it.              *)

PositionOK ==
  /\ level \in 1 .. MAX_LEVEL + 1
  /\ view \in Views
  /\ dir \in Dirs \cup {DIR_STOP}
  /\ move_cnt \in Int

MazeInv ==
  /\ PositionOK
  /\ OnTrack
  /\ ViewFollows
  /\ InLevel => level \in 1 .. MAX_LEVEL

\* Between two squares, after a reversal or without one.
LEMMA WayOn ==
  ASSUME MazeInv, InLevel, Count # 0
  PROVE  Turned \in Dirs /\ Count \in 1 .. BlockLength(Turned) /\ OnWay(view, Turned, Count)
<1>1. view \in Views /\ move_cnt \in Int /\ dir \in Dirs \cup {DIR_STOP} /\ DIR_STOP \notin Dirs
  BY DEF MazeInv, PositionOK, Views, Dirs, DIR_STOP, NUM_DIRS
<1>2. CASE Turns(dir, next_dir)
  <2>1. /\ dir \in Dirs /\ next_dir = Reverse(dir) /\ Turned = next_dir
        /\ move_cnt > 0 /\ Count = BlockLength(dir) - move_cnt
    <3>1. dir \in Dirs /\ next_dir = Reverse(dir) /\ Turned = next_dir
      BY <1>2 DEF Turns, TurnedDir, Turned
    <3>2. move_cnt >= 0
      BY <1>1, <3>1, Reversed DEF MazeInv, OnTrack
    <3>. QED
      BY <1>1, <1>2, <3>1, <3>2 DEF Count, TurnedCount
  <2>2. /\ move_cnt \in 0 .. BlockLength(dir) - 1
        /\ OnSquare(Shifted(view, dir, move_cnt))
        /\ OnSquare(Shifted(view, Reverse(dir), BlockLength(dir) - move_cnt))
    BY <1>1, <2>1 DEF MazeInv, OnTrack
  <2>3. /\ Turned \in Dirs /\ Reverse(Turned) = dir
        /\ BlockLength(Turned) = BlockLength(dir) /\ BlockLength(dir) \in Nat
    BY <2>1, Reversed
  <2>4. BlockLength(Turned) - Count = move_cnt /\ Count \in 1 .. BlockLength(Turned)
    BY <1>1, <2>1, <2>2, <2>3
  <2>. QED
    BY <2>1, <2>2, <2>3, <2>4 DEF OnWay
<1>3. CASE ~Turns(dir, next_dir)
  <2>1. Turned = dir /\ Count = move_cnt
    BY <1>3 DEF Turned, TurnedDir, Count, TurnedCount
  <2>2. /\ dir \in Dirs /\ move_cnt \in 0 .. BlockLength(dir) - 1
        /\ OnSquare(Shifted(view, dir, move_cnt))
        /\ move_cnt > 0 => OnSquare(Shifted(view, Reverse(dir), BlockLength(dir) - move_cnt))
    BY <1>1, <2>1 DEF MazeInv, OnTrack
  <2>3. move_cnt \in 1 .. BlockLength(dir) /\ move_cnt > 0
    BY <1>1, <2>1, <2>2, Reversed
  <2>. QED
    BY <2>1, <2>2, <2>3 DEF OnWay
<1>. QED
  BY <1>2, <1>3

\* At a square.
LEMMA AtSquare ==
  ASSUME MazeInv, InLevel, Count = 0
  PROVE  OnSquare(view) /\ Turned \in Dirs \cup {DIR_STOP}
<1>1. view \in Views /\ move_cnt \in Int /\ dir \in Dirs \cup {DIR_STOP} /\ DIR_STOP \notin Dirs
  BY DEF MazeInv, PositionOK, Views, Dirs, DIR_STOP, NUM_DIRS
<1>2. Turned \in Dirs \cup {DIR_STOP}
  BY <1>1, Reversed DEF Turned, TurnedDir, Turns
<1>3. CASE dir = DIR_STOP
  BY <1>1, <1>2, <1>3 DEF MazeInv, OnTrack
<1>4. CASE dir \in Dirs
  <2>1. move_cnt \in 0 .. BlockLength(dir) - 1 /\ OnSquare(Shifted(view, dir, move_cnt))
    BY <1>1, <1>4 DEF MazeInv, OnTrack
  <2>2. move_cnt = 0
    BY <1>1, <1>4, <2>1, Reversed DEF Count, TurnedCount
  <2>. QED
    BY <1>1, <1>2, <1>4, <2>1, <2>2, Unshifted
<1>. QED
  BY <1>1, <1>3, <1>4

\* Leaving a square through an opening.
LEMMA WayFromSquare ==
  ASSUME MazeInv, OnSquare(view), Leave # DIR_STOP
  PROVE  /\ Leave \in Dirs /\ BlockLength(Leave) \in 1 .. BlockLength(Leave)
         /\ OnWay(view, Leave, BlockLength(Leave))
<1>1. view \in Views
  BY DEF MazeInv, PositionOK, Views
<1>2. Leave \in Dirs /\ Ahead(Square(view), Leave) \in Open[level]
  <2>1. Leave \in OpenDirs
    BY DEF Leave, LeaveDir
  <2>. QED
    BY <2>1 DEF OpenDirs
<1>3. BlockLength(Leave) \in Nat \ {0} /\ Reverse(Leave) \in Dirs
  BY <1>2, Reversed
<1>4. OnSquare(Shifted(view, Leave, BlockLength(Leave)))
  BY <1>1, <1>2, AheadOpen
<1>5. OnSquare(Shifted(view, Reverse(Leave), BlockLength(Leave) - BlockLength(Leave)))
  <2>1. BlockLength(Leave) - BlockLength(Leave) = 0
    BY <1>3
  <2>. QED
    BY <1>1, <1>3, <2>1, Unshifted
<1>. QED
  BY <1>2, <1>3, <1>4, <1>5 DEF OnWay

\* A step that leaves the player alone.
LEMMA Unmoved ==
  ASSUME MazeInv, UNCHANGED <<level, view, dir, move_cnt>>, InLevel' => InLevel
  PROVE  OnTrack' /\ ViewFollows' /\ (InLevel' => level' \in 1 .. MAX_LEVEL)
<1>1. OnTrack'
  BY DEF MazeInv, OnTrack, OnSquare, Square
<1>2. ViewFollows'
  BY DEF MazeInv, ViewFollows, Xd, Yd
<1>. QED
  BY <1>1, <1>2 DEF MazeInv

\* A step along the way.
LEMMA AdvanceOnWay ==
  ASSUME MazeInv, InLevel, NEW d \in Dirs, NEW n \in 1 .. BlockLength(d), OnWay(view, d, n),
         Advance(d, n), level' = level
  PROVE  OnTrack' /\ ViewFollows' /\ (InLevel' => level' \in 1 .. MAX_LEVEL)
<1>1. view \in Views /\ level \in 1 .. MAX_LEVEL /\ Framed(view)
  BY DEF MazeInv, PositionOK, Views, ViewFollows, Framed
<1>2. dir' = d /\ move_cnt' = n - 1 /\ view' = Moved(view, d, Xd, Yd)
  BY DEF Advance, Dirs, DIR_STOP, NUM_DIRS
<1>3. n - 1 \in 0 .. BlockLength(d) - 1
  BY Reversed
<1>4. OnSquare(Shifted(view', d, n - 1)) /\ OnSquare(Shifted(view', Reverse(d), BlockLength(d) - (n - 1)))
  BY <1>1, <1>2, StaysOnWay
<1>5. OnTrack'
  BY <1>2, <1>3, <1>4 DEF OnTrack, OnSquare, Square
<1>6. Framed(view')
  BY <1>1, <1>2, StaysFramed
<1>7. ViewFollows'
  BY <1>6 DEF ViewFollows, Framed, Xd, Yd
<1>. QED
  BY <1>1, <1>5, <1>7

LEMMA StepBetweenInv ==
  ASSUME MazeInv, StepBetween
  PROVE  OnTrack' /\ ViewFollows' /\ (InLevel' => level' \in 1 .. MAX_LEVEL)
<1>1. InLevel /\ Count # 0 /\ Advance(Turned, Count) /\ level' = level
  BY DEF StepBetween, InLevel
<1>. QED
  BY <1>1, WayOn, AdvanceOnWay

LEMMA StepFromSquareInv ==
  ASSUME MazeInv, StepFromSquare
  PROVE  OnTrack' /\ ViewFollows' /\ (InLevel' => level' \in 1 .. MAX_LEVEL)
<1>1. /\ InLevel /\ Count = 0 /\ level' = level
      /\ Advance(Leave, IF Leave = DIR_STOP THEN 0 ELSE BlockLength(Leave))
  BY DEF StepFromSquare, InLevel
<1>2. OnSquare(view)
  BY <1>1, AtSquare
<1>3. CASE Leave # DIR_STOP
  BY <1>1, <1>2, <1>3, WayFromSquare, AdvanceOnWay
<1>4. CASE Leave = DIR_STOP
  <2>1. dir' = DIR_STOP /\ move_cnt' = 0 /\ view' = view
    BY <1>1, <1>4 DEF Advance
  <2>2. OnTrack'
    BY <1>1, <1>2, <2>1 DEF OnTrack, OnSquare, Square
  <2>3. ViewFollows'
    BY <1>1, <2>1 DEF MazeInv, ViewFollows, Xd, Yd
  <2>. QED
    BY <1>1, <2>2, <2>3 DEF MazeInv
<1>. QED
  BY <1>3, <1>4

LEMMA StepWinsInv ==
  ASSUME MazeInv, StepWins
  PROVE  OnTrack' /\ ViewFollows' /\ (InLevel' => level' \in 1 .. MAX_LEVEL)
<1>1. /\ InLevel /\ Count = 0 /\ level' = level
      /\ dir' = Turned /\ move_cnt' = 0 /\ view' = view
  BY DEF StepWins, InLevel
<1>2. OnSquare(view) /\ Turned \in Dirs \cup {DIR_STOP}
  BY <1>1, AtSquare
<1>3. ViewFollows'
  BY <1>1 DEF MazeInv, ViewFollows, Xd, Yd
<1>4. CASE Turned = DIR_STOP
  <2>1. OnTrack'
    BY <1>1, <1>2, <1>4 DEF OnTrack, OnSquare, Square
  <2>. QED
    BY <1>1, <1>3, <2>1 DEF MazeInv
<1>5. CASE Turned \in Dirs
  <2>1. view \in Views
    BY DEF MazeInv, PositionOK, Views
  <2>2. OnSquare(Shifted(view, Turned, 0))
    BY <1>2, <1>5, <2>1, Unshifted
  <2>3. 0 \in 0 .. BlockLength(Turned) - 1
    BY <1>5, Reversed
  <2>4. OnTrack'
    BY <1>1, <1>5, <2>2, <2>3 DEF OnTrack, OnSquare, Square
  <2>. QED
    BY <1>1, <1>3, <2>4 DEF MazeInv
<1>. QED
  BY <1>2, <1>4, <1>5

LEMMA StartLevelInv ==
  ASSUME MazeInv, StartLevel
  PROVE  OnTrack' /\ ViewFollows' /\ (InLevel' => level' \in 1 .. MAX_LEVEL)
<1>1. /\ level \in 1 .. MAX_LEVEL /\ level' = level
      /\ view' = StartView /\ dir' = DIR_STOP /\ move_cnt' = 0
  BY LevelAssumption DEF StartLevel, MazeInv, PositionOK
<1>2. /\ BLOCK_X_DIM \in Nat \ {0} /\ BLOCK_Y_DIM \in Nat \ {0}
      /\ SHOW_MIN \in Nat /\ PAN_BORDER \in Nat
      /\ SHOW_MIN <= BLOCK_X_DIM /\ SHOW_MIN <= BLOCK_Y_DIM
      /\ SCROLL_X_DIM \in Nat /\ SCROLL_Y_DIM \in Nat
  BY BlockDimAssumption, BorderAssumption, ImageDimAssumption, ViewAssumption
     DEF SCROLL_X_DIM, SCROLL_Y_DIM
<1>3. OnSquare(StartView)
  <2>1. BLOCK_X_DIM \div BLOCK_X_DIM = 1 /\ BLOCK_Y_DIM \div BLOCK_Y_DIM = 1
    <3>1. BLOCK_X_DIM * 1 = BLOCK_X_DIM /\ BLOCK_Y_DIM * 1 = BLOCK_Y_DIM
      BY <1>2
    <3>2. (BLOCK_X_DIM * 1) \div BLOCK_X_DIM = 1 /\ (BLOCK_Y_DIM * 1) \div BLOCK_Y_DIM = 1
      BY <1>2, SquareOf
    <3>. QED
      BY <3>1, <3>2
  <2>2. Square(StartView) = <<1, 1>>
    BY <2>1 DEF Square, StartView
  <2>3. <<1, 1>> \in Open[level]
    BY <1>1, OpenAssumption
  <2>. QED
    BY <1>2, <2>2, <2>3 DEF OnSquare, StartView
<1>4. OnTrack'
  BY <1>1, <1>3 DEF OnTrack, OnSquare, Square
<1>5. /\ Xd \in Int /\ SCROLL_X_DIM + 2 * SHOW_MIN <= (2 * Xd + 1) * BLOCK_X_DIM
      /\ Yd \in Int /\ SCROLL_Y_DIM + 2 * SHOW_MIN <= (2 * Yd + 1) * BLOCK_Y_DIM
  BY <1>1, LevelDims, LevelAssumption DEF Xd, Yd
<1>6. ViewFollows'
  <2>. DEFINE right == (2 * Xd + 1) * BLOCK_X_DIM
              bottom == (2 * Yd + 1) * BLOCK_Y_DIM
  <2>1. right \in Int /\ bottom \in Int
    BY <1>2, <1>5
  <2>2. SCROLL_X_DIM + 2 * SHOW_MIN <= right /\ SCROLL_Y_DIM + 2 * SHOW_MIN <= bottom
    BY <1>5
  <2>3. right' = right /\ bottom' = bottom
    BY <1>1 DEF Xd, Yd
  <2>. HIDE DEF right, bottom
  <2>4. 2 * BLOCK_X_DIM <= SHOW_MIN + SCROLL_X_DIM /\ 2 * BLOCK_Y_DIM <= SHOW_MIN + SCROLL_Y_DIM
    BY ViewAssumption
  <2>. QED
    BY <1>1, <1>2, <2>1, <2>2, <2>3, <2>4 DEF ViewFollows, StartView, right, bottom
<1>. QED
  BY <1>1, <1>4, <1>6

LEMMA LoopInv ==
  ASSUME MazeInv, Loop
  PROVE  OnTrack' /\ ViewFollows' /\ (InLevel' => level' \in 1 .. MAX_LEVEL)
<1>1. CASE rtc' = "level"
  BY <1>1 DEF OnTrack, ViewFollows, InLevel
<1>2. CASE rtc' # "level"
  <2>1. UNCHANGED <<level, view, dir, move_cnt>> /\ InLevel
    BY <1>2 DEF Loop, InLevel
  <2>. QED
    BY <2>1, Unmoved
<1>. QED
  BY <1>1, <1>2

----------------------------------------------------------------------------
LEMMA InitInv == Init => MazeInv
<1>. SUFFICES ASSUME Init PROVE MazeInv
  OBVIOUS
<1>1. StartView \in Views
  BY BlockDimAssumption, BorderAssumption DEF Views, StartView
<1>2. PositionOK
  BY <1>1, LevelAssumption DEF Init, PositionOK
<1>3. ~InLevel
  BY DEF Init, InLevel
<1>. QED
  BY <1>2, <1>3 DEF MazeInv, OnTrack, ViewFollows

\* The steps that leave the player alone.
LEMMA Bystanders ==
  ASSUME MazeInv,
         \/ LeaveLevels \/ SetWinner \/ Poll \/ Publish \/ SignalTux \/ Draw
         \/ Keyboard \/ Tux \/ Main
  PROVE  MazeInv'
<1>1. UNCHANGED <<level, view, dir, move_cnt>> /\ (InLevel' => InLevel)
  <2>1. CASE LeaveLevels \/ SetWinner \/ Poll \/ Publish \/ SignalTux \/ Draw
    BY <2>1 DEF LeaveLevels, SetWinner, Poll, Publish, SignalTux, Draw, position, InLevel
  <2>2. CASE Keyboard
    BY <2>2 DEF Keyboard, ReadKey, KeyboardEnds, Quit, TurnByKey, position, InLevel
  <2>3. CASE Tux
    BY <2>3 DEF Tux, TuxTop, TuxLock, TuxWaits, TuxEnds, TuxGoesOn, TuxReset, TuxTurns,
                position, InLevel
  <2>4. CASE Main
    BY <2>4 DEF Main, position, InLevel
  <2>. QED
    BY <2>1, <2>2, <2>3, <2>4
<1>2. PositionOK'
  BY <1>1 DEF MazeInv, PositionOK
<1>. QED
  BY <1>1, <1>2, Unmoved DEF MazeInv

\* The types of what the steps of the rtc thread write.
LEMMA AdvancePosition ==
  ASSUME PositionOK, NEW d \in Dirs \cup {DIR_STOP}, NEW n \in Int, Advance(d, n), level' = level
  PROVE  PositionOK'
<1>1. dir' = d /\ move_cnt' \in Int
  BY DEF Advance
<1>2. view' \in Views
  <2>1. CASE d = DIR_STOP
    BY <2>1 DEF Advance, PositionOK
  <2>2. CASE d # DIR_STOP
    <3>1. d \in Dirs /\ view \in Views /\ view' = Moved(view, d, Xd, Yd)
      BY <2>2 DEF Advance, PositionOK
    <3>. QED
      BY <3>1, MovedView
  <2>. QED
    BY <2>1, <2>2
<1>. QED
  BY <1>1, <1>2 DEF PositionOK

LEMMA PositionStep ==
  ASSUME MazeInv, StartLevel \/ Loop \/ StepBetween \/ StepFromSquare \/ StepWins
  PROVE  PositionOK'
<1>1. PositionOK
  BY DEF MazeInv
<1>2. CASE StartLevel
  <2>1. StartView \in Views
    BY BlockDimAssumption, BorderAssumption DEF Views, StartView
  <2>. QED
    BY <1>1, <1>2, <2>1 DEF StartLevel, PositionOK
<1>3. CASE Loop
  <2>1. level \in 1 .. MAX_LEVEL
    BY <1>3 DEF Loop, InLevel, MazeInv
  <2>2. level' \in 1 .. MAX_LEVEL + 1
    BY <1>3, <2>1, LevelAssumption DEF Loop
  <2>. QED
    BY <1>1, <1>3, <2>2 DEF Loop, PositionOK
<1>4. CASE StepBetween
  <2>1. InLevel /\ Count # 0 /\ Advance(Turned, Count) /\ level' = level
    BY <1>4 DEF StepBetween, InLevel
  <2>2. Turned \in Dirs /\ Count \in Int
    <3>1. Turned \in Dirs /\ Count \in 1 .. BlockLength(Turned)
      BY <2>1, WayOn
    <3>. QED
      BY <3>1, Reversed
  <2>. QED
    BY <1>1, <2>1, <2>2, AdvancePosition
<1>5. CASE StepFromSquare
  <2>. DEFINE n == IF Leave = DIR_STOP THEN 0 ELSE BlockLength(Leave)
  <2>1. InLevel /\ Count = 0 /\ Advance(Leave, n) /\ level' = level
    BY <1>5 DEF StepFromSquare, InLevel
  <2>2. Leave \in Dirs \cup {DIR_STOP} /\ n \in Int
    <3>1. CASE Leave = DIR_STOP
      BY <3>1
    <3>2. CASE Leave # DIR_STOP
      <4>1. Leave \in Dirs
        BY <2>1, <3>2, AtSquare, WayFromSquare
      <4>. QED
        BY <3>2, <4>1, Reversed
    <3>. QED
      BY <3>1, <3>2
  <2>. HIDE DEF n
  <2>. QED
    BY <1>1, <2>1, <2>2, AdvancePosition
<1>6. CASE StepWins
  <2>1. InLevel /\ Count = 0
    BY <1>6 DEF StepWins, InLevel
  <2>2. Turned \in Dirs \cup {DIR_STOP}
    BY <2>1, AtSquare
  <2>. QED
    BY <1>1, <1>6, <2>2 DEF StepWins, PositionOK
<1>. QED
  BY <1>2, <1>3, <1>4, <1>5, <1>6

LEMMA NextInv == MazeInv /\ [Next]_vars => MazeInv'
<1>. SUFFICES ASSUME MazeInv, [Next]_vars PROVE MazeInv'
  OBVIOUS
<1>1. CASE \/ LeaveLevels \/ SetWinner \/ Poll \/ Publish \/ SignalTux \/ Draw
           \/ Keyboard \/ Tux \/ Main
  BY <1>1, Bystanders
<1>2. CASE StartLevel
  BY <1>2, StartLevelInv, PositionStep DEF MazeInv
<1>3. CASE Loop
  BY <1>3, LoopInv, PositionStep DEF MazeInv
<1>4. CASE StepBetween
  BY <1>4, StepBetweenInv, PositionStep DEF MazeInv
<1>5. CASE StepFromSquare
  BY <1>5, StepFromSquareInv, PositionStep DEF MazeInv
<1>6. CASE StepWins
  BY <1>6, StepWinsInv, PositionStep DEF MazeInv
<1>7. CASE UNCHANGED vars
  <2>1. UNCHANGED <<level, view, dir, move_cnt>> /\ (InLevel' => InLevel)
    BY <1>7 DEF vars, InLevel
  <2>2. PositionOK'
    BY <2>1 DEF MazeInv, PositionOK
  <2>. QED
    BY <2>1, <2>2, Unmoved DEF MazeInv
<1>. QED
  BY <1>1, <1>2, <1>3, <1>4, <1>5, <1>6, <1>7 DEF Next, Rtc

(* The player never enters a wall, and between two squares it is exactly   *)
(* move_cnt pixels from the one it moves to, whenever the keyboard and the *)
(* tux thread change next_dir (rtc_thread and the move functions).         *)
THEOREM OnTrackCorrect == Spec => []OnTrack
<1>1. MazeInv => OnTrack
  BY DEF MazeInv
<1>. QED
  BY <1>1, InitInv, NextInv, PTL DEF Spec

(* The window stays in the part of the maze that may be shown, and the     *)
(* whole of the player is always in it (move_up, move_right, move_down,    *)
(* move_left).                                                             *)
THEOREM ViewFollowsCorrect == Spec => []ViewFollows
<1>1. MazeInv => ViewFollows
  BY DEF MazeInv
<1>. QED
  BY <1>1, InitInv, NextInv, PTL DEF Spec

----------------------------------------------------------------------------
(* make_maze. *)

(* Searching a finite set in rounds. *)

\* A set of numbers has a least one.
LEMMA LeastNumber ==
  ASSUME NEW S \in SUBSET Nat, S # {}
  PROVE  \E n \in S : \A m \in S : n <= m
<1>. DEFINE R == {ss \in Nat \X Nat : ss[1] < ss[2]}
<1>1. IsWellFoundedOn(R, Nat)
  BY NatLessThanWellFounded DEF OpToRel
<1>2. PICK n \in S : \A m \in S : ~(<<m, n>> \in R)
  BY <1>1, WFMin
<1>3. \A m \in S : ~(m < n)
  BY <1>2
<1>. QED
  BY <1>3

\* A set that has 0 and goes on from every number before N has all up to N.
LEMMA CountsUp ==
  ASSUME NEW N \in Nat, NEW S, 0 \in S, \A n \in 0 .. N - 1 : n \in S => n + 1 \in S
  PROVE  0 .. N \subseteq S
<1>. DEFINE T == (0 .. N) \ S
<1>1. SUFFICES ASSUME T # {} PROVE FALSE
  OBVIOUS
<1>2. T \in SUBSET Nat
  OBVIOUS
<1>3. PICK n \in T : \A m \in T : n <= m
  BY <1>1, <1>2, LeastNumber
<1>4. n \in 1 .. N /\ n \notin S
  BY <1>3
<1>5. n - 1 \in 0 .. N - 1 /\ ~(n <= n - 1)
  BY <1>4
<1>6. n - 1 \notin T
  BY <1>3, <1>5
<1>7. n - 1 \in S
  BY <1>5, <1>6
<1>8. (n - 1) + 1 \in S
  BY <1>5, <1>7
<1>. QED
  BY <1>4, <1>8

\* The rounds of a search: A to begin with, and then what g makes of it.
Rounds(N, f, A, g) ==
    f = [n \in 0 .. N |-> IF n = 0 THEN A ELSE g[f[n - 1]]]

\* The recursive definition of the rounds defines them.
LEMMA RoundsExist ==
  ASSUME NEW N \in Nat, NEW U, NEW A \in U, NEW g \in [U -> U]
  PROVE  \E f \in [0 .. N -> U] : Rounds(N, f, A, g)
<1>. DEFINE S == {n \in 0 .. N : \E f \in [0 .. n -> U] : Rounds(n, f, A, g)}
<1>1. 0 \in S
  <2>. DEFINE f == [n \in 0 .. 0 |-> A]
  <2>1. f \in [0 .. 0 -> U]
    OBVIOUS
  <2>2. f = [n \in 0 .. 0 |-> IF n = 0 THEN A ELSE g[f[n - 1]]]
    OBVIOUS
  <2>3. Rounds(0, f, A, g)
    BY <2>2 DEF Rounds
  <2>. HIDE DEF f
  <2>4. \E e \in [0 .. 0 -> U] : Rounds(0, e, A, g)
    BY <2>1, <2>3
  <2>. QED
    BY <2>4
<1>2. ASSUME NEW n \in 0 .. N - 1, n \in S
      PROVE  n + 1 \in S
  <2>1. PICK f \in [0 .. n -> U] : Rounds(n, f, A, g)
    BY <1>2
  <2>. DEFINE h == [k \in 0 .. n + 1 |-> IF k = n + 1 THEN g[f[n]] ELSE f[k]]
  <2>2. f[n] \in U /\ g[f[n]] \in U
    OBVIOUS
  <2>3. h \in [0 .. n + 1 -> U]
    BY <2>2
  <2>4. \A k \in 0 .. n : f[k] = IF k = 0 THEN A ELSE g[f[k - 1]]
    BY <2>1 DEF Rounds
  <2>5. ASSUME NEW k \in 0 .. n + 1
        PROVE  h[k] = IF k = 0 THEN A ELSE g[h[k - 1]]
    <3>1. CASE k = n + 1
      <4>1. k # 0 /\ k - 1 = n /\ n \in 0 .. n + 1 /\ n # n + 1
        BY <3>1
      <4>. QED
        BY <3>1, <4>1
    <3>2. CASE k \in 0 .. n
      <4>1. h[k] = f[k]
        BY <3>2
      <4>2. k # 0 => k - 1 \in 0 .. n /\ h[k - 1] = f[k - 1]
        BY <3>2
      <4>. QED
        BY <2>4, <3>2, <4>1, <4>2
    <3>. QED
      BY <3>1, <3>2
  <2>6. h = [k \in 0 .. n + 1 |-> IF k = 0 THEN A ELSE g[h[k - 1]]]
    BY <2>5
  <2>7. Rounds(n + 1, h, A, g)
    BY <2>6 DEF Rounds
  <2>. HIDE DEF h
  <2>8. \E e \in [0 .. n + 1 -> U] : Rounds(n + 1, e, A, g)
    BY <2>3, <2>7
  <2>. QED
    BY <2>8
<1>3. 0 .. N \subseteq S
  BY <1>1, <1>2, CountsUp
<1>. QED
  BY <1>3

\* When every round keeps what the ones before found, and no more than N can
\* be found, the last of N rounds finds nothing new.
LEMMA RoundsSettle ==
  ASSUME NEW N \in Nat, NEW V, IsFiniteSet(V), Cardinality(V) <= N,
         NEW A \in SUBSET V, A # {},
         NEW g \in [SUBSET V -> SUBSET V], \A B \in SUBSET V : B \subseteq g[B],
         NEW f \in [0 .. N -> SUBSET V], Rounds(N, f, A, g)
  PROVE  g[f[N]] = f[N]
<1>1. f[0] = A /\ \A n \in 0 .. N - 1 : f[n + 1] = g[f[n]]
  BY DEF Rounds
<1>2. \A B \in SUBSET V : IsFiniteSet(B) /\ Cardinality(B) \in Nat /\ Cardinality(B) <= Cardinality(V)
  BY FS_Subset, FS_CardinalityType
<1>3. SUFFICES ASSUME g[f[N]] # f[N] PROVE FALSE
  OBVIOUS
<1>4. ASSUME NEW k \in 0 .. N, g[f[k]] = f[k]
      PROVE  FALSE
  <2>. DEFINE S == {n \in 0 .. N : n >= k => f[n] = f[k]}
  <2>1. S = {n \in 0 .. N : n >= k => f[n] = f[k]}
    OBVIOUS
  <2>. HIDE DEF S
  <2>2. 0 \in S
    BY <2>1
  <2>3. ASSUME NEW n \in 0 .. N - 1, n \in S
        PROVE  n + 1 \in S
    <3>1. f[n + 1] = g[f[n]]
      BY <1>1
    <3>2. CASE n + 1 = k
      BY <2>1, <3>2
    <3>3. CASE n >= k
      BY <1>4, <2>1, <2>3, <3>1, <3>3
    <3>4. CASE n + 1 < k
      BY <2>1, <3>4
    <3>. QED
      BY <3>2, <3>3, <3>4
  <2>4. 0 .. N \subseteq S
    BY <2>2, <2>3, CountsUp
  <2>5. f[N] = f[k]
    BY <2>1, <2>4
  <2>. QED
    BY <1>3, <1>4, <2>5
<1>. DEFINE S == {n \in 0 .. N : Cardinality(f[n]) >= n + 1}
<1>5. S = {n \in 0 .. N : Cardinality(f[n]) >= n + 1}
  OBVIOUS
<1>. HIDE DEF S
<1>6. 0 \in S
  <2>1. Cardinality(A) # 0
    BY <1>2, FS_EmptySet
  <2>. QED
    BY <1>1, <1>2, <1>5, <2>1
<1>7. ASSUME NEW n \in 0 .. N - 1, n \in S
      PROVE  n + 1 \in S
  <2>1. n \in 0 .. N /\ n + 1 \in 0 .. N
    OBVIOUS
  <2>2. f[n] \in SUBSET V /\ f[n + 1] \in SUBSET V /\ f[n + 1] = g[f[n]] /\ f[n] \subseteq f[n + 1]
    BY <1>1, <2>1
  <2>3. f[n] # f[n + 1]
    BY <1>4, <2>1, <2>2
  <2>4. Cardinality(f[n]) <= Cardinality(f[n + 1]) /\ Cardinality(f[n]) # Cardinality(f[n + 1])
    BY <1>2, <2>2, <2>3, FS_Subset
  <2>5. Cardinality(f[n]) \in Nat /\ Cardinality(f[n + 1]) \in Nat
    BY <1>2, <2>2
  <2>6. Cardinality(f[n]) >= n + 1
    BY <1>5, <1>7
  <2>7. Cardinality(f[n + 1]) >= (n + 1) + 1
    BY <2>4, <2>5, <2>6
  <2>. QED
    BY <1>5, <2>1, <2>7
<1>8. N \in S
  <2>1. 0 .. N \subseteq S
    BY <1>6, <1>7, CountsUp
  <2>. QED
    BY <2>1
<1>9. Cardinality(f[N]) >= N + 1 /\ Cardinality(f[N]) \in Nat /\ Cardinality(V) \in Nat
      /\ Cardinality(f[N]) <= Cardinality(V)
  BY <1>2, <1>5, <1>8
<1>. QED
  BY <1>9

----------------------------------------------------------------------------
(* The spaces of the maze and their places in the array. *)

Row == 2 * XDim
Spaces == Odd(XDim) \X Odd(YDim)
Grid == (1 .. 2 * XDim - 1) \X (1 .. 2 * YDim - 1)

LEMMA Sizes ==
  /\ XDim \in Nat \ {0} /\ YDim \in Nat \ {0} /\ XDim * YDim \in Nat
  /\ XDim <= MAZE_MAX_X_DIM /\ YDim <= MAZE_MAX_Y_DIM
  /\ MAZE_MAX_X_DIM \in Nat /\ MAZE_MAX_Y_DIM \in Nat
<1>1. ASSUME NEW s \in Nat, NEW b \in Nat \ {0}, NEW k \in Nat
      PROVE  (s + (b - 1) + 2 * k) \div (2 * b) \in Nat
  <2>1. s + (b - 1) + 2 * k \in Nat /\ 2 * b \in Nat \ {0}
    OBVIOUS
  <2>. QED
    BY <2>1
<1>2. SCROLL_X_DIM \in Nat /\ SCROLL_Y_DIM \in Nat
  BY ImageDimAssumption DEF SCROLL_X_DIM, SCROLL_Y_DIM
<1>3. MAZE_MIN_X_DIM \in Nat /\ MAZE_MIN_Y_DIM \in Nat
  BY <1>1, <1>2, BlockDimAssumption, BorderAssumption DEF MAZE_MIN_X_DIM, MAZE_MIN_Y_DIM
<1>4. /\ XDim \in Nat /\ YDim \in Nat /\ XDim * YDim > 1
      /\ XDim <= MAZE_MAX_X_DIM /\ YDim <= MAZE_MAX_Y_DIM
      /\ MAZE_MAX_X_DIM \in Nat /\ MAZE_MAX_Y_DIM \in Nat
  BY <1>3, RequestAssumption, MaxDimAssumption
<1>5. XDim # 0 /\ YDim # 0
  BY <1>4
<1>. QED
  BY <1>4, <1>5

LEMMA RowType == Row \in Nat \ {0, 1}
BY Sizes DEF Row

\* Places in rows of w: one row and one place in it for each.
LEMMA OnePlace ==
  ASSUME NEW w \in Nat \ {0}, NEW a \in 0 .. w - 1, NEW b \in 0 .. w - 1,
         NEW i \in Int, NEW j \in Int, a + i * w = b + j * w
  PROVE  a = b /\ i = j
<1>1. ASSUME NEW k \in Int, NEW l \in Int, k < l
      PROVE  k * w + w <= l * w
  <2>1. l - k - 1 \in Nat
    BY <1>1
  <2>2. (l - k - 1) * w >= 0
    BY <2>1
  <2>3. (l - k - 1) * w = l * w - k * w - w
    OBVIOUS
  <2>. QED
    BY <2>2, <2>3
<1>2. i * w \in Int /\ j * w \in Int
  OBVIOUS
<1>3. ~(i < j)
  BY <1>1, <1>2
<1>4. ~(j < i)
  BY <1>1, <1>2
<1>. QED
  BY <1>3, <1>4

LEMMA RowsIncrease ==
  ASSUME NEW w \in Nat, NEW k \in Int, NEW l \in Int, k <= l
  PROVE  k * w <= l * w /\ k * w \in Int /\ l * w \in Int
<1>1. (l - k) * w >= 0
  <2>1. l - k \in Nat
    OBVIOUS
  <2>. QED
    BY <2>1
<1>2. (l - k) * w = l * w - k * w
  OBVIOUS
<1>. QED
  BY <1>1, <1>2

LEMMA IndexIs ==
  ASSUME NEW x \in Int, NEW y \in Int
  PROVE  /\ Index(<<x, y>>) = x + (y + 1) * Row
         /\ MAZE_INDEX(XDim, x, y) = x + (y + 1) * Row
         /\ (y + 1) * Row \in Int
<1>1. XDim \in Int
  BY Sizes
<1>2. ((y + 1) * XDim) * 2 = (y + 1) * (2 * XDim)
  BY <1>1
<1>. QED
  BY <1>1, <1>2 DEF Index, MAZE_INDEX, Row

LEMMA IndexInt ==
  ASSUME NEW p \in Int \X Int
  PROVE  Index(p) \in Int /\ p = <<p[1], p[2]>> /\ p[1] \in Int /\ p[2] \in Int
         /\ Index(p) = p[1] + (p[2] + 1) * Row /\ (p[2] + 1) * Row \in Int
         /\ Index(p) = MAZE_INDEX(XDim, p[1], p[2])
<1>1. p = <<p[1], p[2]>> /\ p[1] \in Int /\ p[2] \in Int
  OBVIOUS
<1>2. Index(<<p[1], p[2]>>) = p[1] + (p[2] + 1) * Row /\ (p[2] + 1) * Row \in Int
  BY <1>1, IndexIs
<1>. QED
  BY <1>1, <1>2 DEF Index

LEMMA SpacesInGrid ==
  /\ Spaces \subseteq Grid
  /\ Grid \subseteq Int \X Int
  /\ Spaces \subseteq Int \X Int
BY Sizes DEF Spaces, Grid, Odd

LEMMA GridIndex ==
  ASSUME NEW p \in Grid, NEW q \in Grid, Index(p) = Index(q)
  PROVE  p = q
<1>1. p \in Int \X Int /\ q \in Int \X Int
  BY SpacesInGrid
<1>2. p[1] \in 0 .. Row - 1 /\ q[1] \in 0 .. Row - 1
  BY Sizes DEF Grid, Row
<1>3. p[1] + (p[2] + 1) * Row = q[1] + (q[2] + 1) * Row
  BY <1>1, IndexInt
<1>. DEFINE i == p[2] + 1
            j == q[2] + 1
<1>4. i \in Int /\ j \in Int /\ Row \in Nat \ {0} /\ p[1] + i * Row = q[1] + j * Row
  BY <1>1, <1>3, RowType
<1>. HIDE DEF i, j
<1>5. p[1] = q[1] /\ i = j
  BY <1>2, <1>4, OnePlace
<1>6. p[2] = q[2]
  BY <1>1, <1>5 DEF i, j
<1>. QED
  BY <1>1, <1>5, <1>6, IndexInt

\* Every lattice point, the boundary too, has its place in the array.
LEMMA IndexInArray ==
  ASSUME NEW p \in (0 .. 2 * XDim) \X (0 .. 2 * YDim)
  PROVE  Index(p) \in Indices
<1>. DEFINE mx == MAZE_MAX_X_DIM
            my == MAZE_MAX_Y_DIM
<1>1. XDim \in Nat /\ YDim \in Nat /\ mx \in Nat /\ my \in Nat /\ XDim <= mx /\ YDim <= my
  BY Sizes
<1>2. p \in Int \X Int /\ p[1] \in 0 .. 2 * XDim /\ p[2] \in 0 .. 2 * YDim
  BY <1>1
<1>3. Indices = 0 .. (2 * mx) * (2 * my + 3)
  BY DEF Indices
<1>. HIDE DEF mx, my
<1>4. Row \in Nat /\ Row = 2 * XDim
  BY <1>1 DEF Row
<1>5. 0 * Row <= (p[2] + 1) * Row /\ (p[2] + 1) * Row <= (2 * YDim + 1) * Row
  BY <1>1, <1>2, <1>4, RowsIncrease
<1>6. p[1] <= Row
  BY <1>2, <1>4
<1>7. (2 * YDim + 1) * Row + Row = (2 * YDim + 2) * Row
  BY <1>1, <1>4
<1>8. (2 * YDim + 2) * Row <= (2 * my + 3) * Row
  BY <1>1, <1>4, RowsIncrease
<1>9. Row * (2 * my + 3) <= (2 * mx) * (2 * my + 3)
  BY <1>1, <1>4, RowsIncrease
<1>10. (2 * my + 3) * Row = Row * (2 * my + 3)
  BY <1>1, <1>4
<1>11. (p[2] + 1) * Row \in Int /\ Index(p) = p[1] + (p[2] + 1) * Row
  BY <1>2, IndexInt
<1>12. (2 * YDim + 1) * Row \in Int /\ (2 * YDim + 2) * Row \in Int /\ (2 * my + 3) * Row \in Int
       /\ (2 * mx) * (2 * my + 3) \in Int
  BY <1>1, <1>4
<1>13. p[1] \in Nat
  BY <1>1, <1>2
<1>14. 0 <= (p[2] + 1) * Row
  BY <1>5, <1>11, <1>4
<1>15. p[1] + (p[2] + 1) * Row <= (2 * mx) * (2 * my + 3)
  BY <1>5, <1>6, <1>7, <1>8, <1>9, <1>10, <1>11, <1>12, <1>13, <1>4
<1>. QED
  BY <1>3, <1>11, <1>12, <1>13, <1>14, <1>15

LEMMA OddIs ==
  ASSUME NEW n \in Nat, NEW k \in Int
  PROVE  k \in Odd(n) <=> \E a \in 0 .. n - 1 : k = 2 * a + 1
<1>1. ASSUME k \in Odd(n)
      PROVE  \E a \in 0 .. n - 1 : k = 2 * a + 1
  <2>1. k \in 1 .. 2 * n /\ k % 2 = 1
    BY <1>1 DEF Odd
  <2>2. k = 2 * (k \div 2) + 1 /\ k \div 2 \in Int
    BY <2>1
  <2>3. k \div 2 \in 0 .. n - 1
    BY <2>1, <2>2
  <2>. QED
    BY <2>2, <2>3
<1>2. ASSUME NEW a \in 0 .. n - 1, k = 2 * a + 1
      PROVE  k \in Odd(n)
  BY <1>2 DEF Odd
<1>. QED
  BY <1>1, <1>2

LEMMA OddSteps ==
  ASSUME NEW n \in Nat, NEW k \in Odd(n)
  PROVE  /\ k \in 1 .. 2 * n - 1
         /\ k + 1 \notin Odd(n) /\ k - 1 \notin Odd(n)
         /\ k + 1 + 1 \in Odd(n) \/ k + 1 = 2 * n
         /\ k - 1 - 1 \in Odd(n) \/ k - 1 = 0
         /\ k + 1 + 1 \in Odd(n) => k + 1 \in 1 .. 2 * n - 1
         /\ k - 1 - 1 \in Odd(n) => k - 1 \in 1 .. 2 * n - 1
<1>1. k \in Int
  BY DEF Odd
<1>2. PICK a \in 0 .. n - 1 : k = 2 * a + 1
  BY <1>1, OddIs
<1>3. k + 1 \notin Odd(n) /\ k - 1 \notin Odd(n)
  BY <1>2 DEF Odd
<1>4. k + 1 + 1 \in Odd(n) \/ k + 1 = 2 * n
  <2>1. CASE a + 1 \in 0 .. n - 1
    <3>1. k + 1 + 1 = 2 * (a + 1) + 1
      BY <1>2
    <3>. QED
      BY <1>1, <2>1, <3>1, OddIs
  <2>2. CASE a + 1 = n
    BY <1>2, <2>2
  <2>. QED
    BY <2>1, <2>2
<1>5. k - 1 - 1 \in Odd(n) \/ k - 1 = 0
  <2>1. CASE a - 1 \in 0 .. n - 1
    <3>1. k - 1 - 1 = 2 * (a - 1) + 1
      BY <1>2
    <3>. QED
      BY <1>1, <2>1, <3>1, OddIs
  <2>2. CASE a = 0
    BY <1>2, <2>2
  <2>. QED
    BY <2>1, <2>2
<1>6. k + 1 + 1 \in Odd(n) => k + 1 \in 1 .. 2 * n - 1
  BY <1>2 DEF Odd
<1>7. k - 1 - 1 \in Odd(n) => k - 1 \in 1 .. 2 * n - 1
  BY <1>2 DEF Odd
<1>8. k \in 1 .. 2 * n - 1
  BY <1>2
<1>. QED
  BY <1>3, <1>4, <1>5, <1>6, <1>7, <1>8

LEMMA AheadIs ==
  ASSUME NEW p \in Int \X Int, NEW d \in Dirs
  PROVE  /\ Ahead(p, d) \in Int \X Int /\ Beyond(p, d) \in Int \X Int
         /\ d \in {DIR_UP, DIR_RIGHT, DIR_DOWN, DIR_LEFT}
         /\ d = DIR_UP => /\ Ahead(p, d) = <<p[1], p[2] - 1>>
                          /\ Beyond(p, d) = <<p[1], p[2] - 1 - 1>>
         /\ d = DIR_RIGHT => /\ Ahead(p, d) = <<p[1] + 1, p[2]>>
                             /\ Beyond(p, d) = <<p[1] + 1 + 1, p[2]>>
         /\ d = DIR_DOWN => /\ Ahead(p, d) = <<p[1], p[2] + 1>>
                            /\ Beyond(p, d) = <<p[1], p[2] + 1 + 1>>
         /\ d = DIR_LEFT => /\ Ahead(p, d) = <<p[1] - 1, p[2]>>
                            /\ Beyond(p, d) = <<p[1] - 1 - 1, p[2]>>
BY DEF Ahead, Beyond, Dirs, NUM_DIRS, DIR_UP, DIR_RIGHT, DIR_DOWN, DIR_LEFT

\* The four neighbours of a space in the array.
LEMMA AheadIndex ==
  ASSUME NEW p \in Int \X Int, NEW d \in Dirs
  PROVE  LET i == Index(p)
             j == Index(Ahead(p, d))
             k == Index(Beyond(p, d))
         IN  /\ d = DIR_UP => j = i - 2 * XDim /\ k = i - 4 * XDim
             /\ d = DIR_RIGHT => j = i + 1 /\ k = i + 2
             /\ d = DIR_DOWN => j = i + 2 * XDim /\ k = i + 4 * XDim
             /\ d = DIR_LEFT => j = i - 1 /\ k = i - 2
<1>1. PICK x \in Int, y \in Int : p = <<x, y>>
  OBVIOUS
<1>2. Row \in Int /\ Row = 2 * XDim /\ XDim \in Int
  BY Sizes DEF Row
<1>3. Index(p) = x + (y + 1) * Row
  BY <1>1, IndexIs
<1>4. (y + 1) * Row = y * Row + Row /\ y * Row \in Int
  BY <1>2
<1>5. CASE d = DIR_UP
  <2>1. Ahead(p, d) = <<x, y - 1>> /\ Beyond(p, d) = <<x, y - 1 - 1>>
    BY <1>1, <1>5, AheadIs
  <2>2. PICK v \in Int, w \in Int : v = y - 1 /\ w = y - 1 - 1
    OBVIOUS
  <2>3. Index(<<x, v>>) = x + (v + 1) * Row
    BY IndexIs
  <2>4. Index(<<x, w>>) = x + (w + 1) * Row
    BY IndexIs
  <2>5. Index(Ahead(p, d)) = x + (y - 1 + 1) * Row /\ Index(Beyond(p, d)) = x + (y - 1 - 1 + 1) * Row
    BY <2>1, <2>2, <2>3, <2>4
  <2>6. (y - 1 + 1) * Row = y * Row /\ (y - 1 - 1 + 1) * Row = y * Row - Row
    BY <1>2
  <2>. QED
    BY <1>2, <1>3, <1>4, <1>5, <2>5, <2>6 DEF DIR_UP, DIR_RIGHT, DIR_DOWN, DIR_LEFT
<1>6. CASE d = DIR_DOWN
  <2>1. Ahead(p, d) = <<x, y + 1>> /\ Beyond(p, d) = <<x, y + 1 + 1>>
    BY <1>1, <1>6, AheadIs
  <2>2. PICK v \in Int, w \in Int : v = y + 1 /\ w = y + 1 + 1
    OBVIOUS
  <2>3. Index(<<x, v>>) = x + (v + 1) * Row
    BY IndexIs
  <2>4. Index(<<x, w>>) = x + (w + 1) * Row
    BY IndexIs
  <2>5. Index(Ahead(p, d)) = x + (y + 1 + 1) * Row /\ Index(Beyond(p, d)) = x + (y + 1 + 1 + 1) * Row
    BY <2>1, <2>2, <2>3, <2>4
  <2>6. (y + 1 + 1) * Row = y * Row + 2 * Row /\ (y + 1 + 1 + 1) * Row = y * Row + 3 * Row
    BY <1>2
  <2>. QED
    BY <1>2, <1>3, <1>4, <1>6, <2>5, <2>6 DEF DIR_UP, DIR_RIGHT, DIR_DOWN, DIR_LEFT
<1>7. CASE d = DIR_RIGHT
  <2>1. Ahead(p, d) = <<x + 1, y>> /\ Beyond(p, d) = <<x + 1 + 1, y>>
    BY <1>1, <1>7, AheadIs
  <2>2. PICK v \in Int, w \in Int : v = x + 1 /\ w = x + 1 + 1
    OBVIOUS
  <2>3. Index(<<v, y>>) = v + (y + 1) * Row
    BY IndexIs
  <2>4. Index(<<w, y>>) = w + (y + 1) * Row
    BY IndexIs
  <2>5. Index(Ahead(p, d)) = x + 1 + (y + 1) * Row /\ Index(Beyond(p, d)) = x + 1 + 1 + (y + 1) * Row
    BY <2>1, <2>2, <2>3, <2>4
  <2>. QED
    BY <1>2, <1>3, <1>4, <1>7, <2>5 DEF DIR_UP, DIR_RIGHT, DIR_DOWN, DIR_LEFT
<1>8. CASE d = DIR_LEFT
  <2>1. Ahead(p, d) = <<x - 1, y>> /\ Beyond(p, d) = <<x - 1 - 1, y>>
    BY <1>1, <1>8, AheadIs
  <2>2. PICK v \in Int, w \in Int : v = x - 1 /\ w = x - 1 - 1
    OBVIOUS
  <2>3. Index(<<v, y>>) = v + (y + 1) * Row
    BY IndexIs
  <2>4. Index(<<w, y>>) = w + (y + 1) * Row
    BY IndexIs
  <2>5. Index(Ahead(p, d)) = x - 1 + (y + 1) * Row /\ Index(Beyond(p, d)) = x - 1 - 1 + (y + 1) * Row
    BY <2>1, <2>2, <2>3, <2>4
  <2>. QED
    BY <1>2, <1>3, <1>4, <1>8, <2>5 DEF DIR_UP, DIR_RIGHT, DIR_DOWN, DIR_LEFT
<1>. QED
  BY <1>5, <1>6, <1>7, <1>8, AheadIs

\* Around a space there is a wall to another one, or the boundary.
LEMMA AheadOfSpace ==
  ASSUME NEW p \in Spaces, NEW d \in Dirs
  PROVE  /\ Ahead(p, d) \in (0 .. 2 * XDim) \X (0 .. 2 * YDim)
         /\ Ahead(p, d) \notin Spaces
         /\ Beyond(p, d) \in Spaces => Ahead(p, d) \in Grid
         /\ \/ Beyond(p, d) \in Spaces
            \/ Ahead(p, d)[1] \in {0, 2 * XDim} \/ Ahead(p, d)[2] \in {0, 2 * YDim}
<1>1. PICK x \in Odd(XDim), y \in Odd(YDim) : p = <<x, y>>
  BY DEF Spaces
<1>2. XDim \in Nat /\ YDim \in Nat
  BY Sizes
<1>3. /\ x \in 1 .. 2 * XDim - 1
      /\ x + 1 \notin Odd(XDim) /\ x - 1 \notin Odd(XDim)
      /\ x + 1 + 1 \in Odd(XDim) \/ x + 1 = 2 * XDim
      /\ x - 1 - 1 \in Odd(XDim) \/ x - 1 = 0
      /\ x + 1 + 1 \in Odd(XDim) => x + 1 \in 1 .. 2 * XDim - 1
      /\ x - 1 - 1 \in Odd(XDim) => x - 1 \in 1 .. 2 * XDim - 1
  BY <1>2, OddSteps
<1>4. /\ y \in 1 .. 2 * YDim - 1
      /\ y + 1 \notin Odd(YDim) /\ y - 1 \notin Odd(YDim)
      /\ y + 1 + 1 \in Odd(YDim) \/ y + 1 = 2 * YDim
      /\ y - 1 - 1 \in Odd(YDim) \/ y - 1 = 0
      /\ y + 1 + 1 \in Odd(YDim) => y + 1 \in 1 .. 2 * YDim - 1
      /\ y - 1 - 1 \in Odd(YDim) => y - 1 \in 1 .. 2 * YDim - 1
  BY <1>2, OddSteps
<1>5. p \in Int \X Int
  BY SpacesInGrid
<1>6. CASE d = DIR_UP
  <2>1. Ahead(p, d) = <<x, y - 1>> /\ Beyond(p, d) = <<x, y - 1 - 1>>
    BY <1>1, <1>5, <1>6, AheadIs
  <2>. QED
    BY <1>2, <1>3, <1>4, <2>1 DEF Spaces, Grid
<1>7. CASE d = DIR_DOWN
  <2>1. Ahead(p, d) = <<x, y + 1>> /\ Beyond(p, d) = <<x, y + 1 + 1>>
    BY <1>1, <1>5, <1>7, AheadIs
  <2>. QED
    BY <1>2, <1>3, <1>4, <2>1 DEF Spaces, Grid
<1>8. CASE d = DIR_RIGHT
  <2>1. Ahead(p, d) = <<x + 1, y>> /\ Beyond(p, d) = <<x + 1 + 1, y>>
    BY <1>1, <1>5, <1>8, AheadIs
  <2>. QED
    BY <1>2, <1>3, <1>4, <2>1 DEF Spaces, Grid
<1>9. CASE d = DIR_LEFT
  <2>1. Ahead(p, d) = <<x - 1, y>> /\ Beyond(p, d) = <<x - 1 - 1, y>>
    BY <1>1, <1>5, <1>9, AheadIs
  <2>. QED
    BY <1>2, <1>3, <1>4, <2>1 DEF Spaces, Grid
<1>. QED
  BY <1>5, <1>6, <1>7, <1>8, <1>9, AheadIs

\* Beyond the grid the places of the array are those of the boundary.
LEMMA BoundaryIndex ==
  ASSUME NEW p \in Spaces, NEW d \in Dirs, Beyond(p, d) \notin Spaces, NEW q \in Grid
  PROVE  Index(q) # Index(Ahead(p, d))
<1>1. PICK u \in 0 .. 2 * XDim, v \in 0 .. 2 * YDim : Ahead(p, d) = <<u, v>>
  BY AheadOfSpace
<1>2. u \in {0, 2 * XDim} \/ v \in {0, 2 * YDim}
  BY <1>1, AheadOfSpace
<1>3. PICK x \in 1 .. 2 * XDim - 1, y \in 1 .. 2 * YDim - 1 : q = <<x, y>>
  BY DEF Grid
<1>4. XDim \in Nat \ {0} /\ YDim \in Nat \ {0} /\ Row = 2 * XDim /\ Row \in Nat \ {0}
  BY Sizes DEF Row
<1>5. x \in Int /\ y \in Int /\ u \in Int /\ v \in Int
  BY <1>4
<1>6. Index(q) = x + (y + 1) * Row /\ Index(Ahead(p, d)) = u + (v + 1) * Row
  BY <1>1, <1>3, <1>5, IndexIs
<1>7. SUFFICES ASSUME x + (y + 1) * Row = u + (v + 1) * Row
               PROVE  FALSE
  BY <1>6
<1>8. PICK j \in Int, k \in Int : j = y + 1 /\ k = v + 1
  BY <1>5
<1>9. x \in 0 .. Row - 1 /\ x # 0
  BY <1>4
<1>10. CASE u \in 0 .. Row - 1
  <2>1. x + j * Row = u + k * Row
    BY <1>7, <1>8
  <2>2. x = u /\ j = k
    BY <1>4, <1>9, <1>10, <2>1, OnePlace
  <2>. QED
    BY <1>2, <1>4, <1>5, <1>8, <1>9, <1>10, <2>2
<1>11. CASE u = Row
  <2>1. PICK l \in Int : l = k + 1
    OBVIOUS
  <2>2. l * Row = k * Row + Row
    BY <1>4, <2>1
  <2>3. x + j * Row = 0 + l * Row
    BY <1>4, <1>5, <1>7, <1>8, <1>11, <2>2
  <2>4. 0 \in 0 .. Row - 1
    BY <1>4
  <2>5. x = 0
    BY <1>4, <1>9, <2>3, <2>4, OnePlace
  <2>. QED
    BY <1>9, <2>5
<1>. QED
  BY <1>4, <1>5, <1>10, <1>11

\* A step and a step back.
LEMMA StepBack ==
  ASSUME NEW p \in Int \X Int, NEW d \in Dirs
  PROVE  /\ Reverse(d) \in Dirs
         /\ Ahead(Beyond(p, d), Reverse(d)) = Ahead(p, d)
         /\ Beyond(Beyond(p, d), Reverse(d)) = p
<1>1. Reverse(DIR_UP) = DIR_DOWN /\ Reverse(DIR_DOWN) = DIR_UP
      /\ Reverse(DIR_LEFT) = DIR_RIGHT /\ Reverse(DIR_RIGHT) = DIR_LEFT
  BY DEF Reverse, DIR_UP, DIR_RIGHT, DIR_DOWN, DIR_LEFT, NUM_DIRS
<1>2. DIR_UP \in Dirs /\ DIR_DOWN \in Dirs /\ DIR_LEFT \in Dirs /\ DIR_RIGHT \in Dirs
  BY DEF Dirs, NUM_DIRS, DIR_UP, DIR_RIGHT, DIR_DOWN, DIR_LEFT
<1>3. PICK x \in Int, y \in Int : p = <<x, y>>
  OBVIOUS
<1>4. d \in {DIR_UP, DIR_RIGHT, DIR_DOWN, DIR_LEFT}
  BY AheadIs
<1>5. PICK q \in Int \X Int : q = Beyond(p, d)
  BY AheadIs
<1>6. CASE d = DIR_UP
  <2>1. Ahead(p, d) = <<x, y - 1>> /\ q = <<x, y - 1 - 1>>
    BY <1>3, <1>5, <1>6, AheadIs
  <2>2. Ahead(q, DIR_DOWN) = <<q[1], q[2] + 1>> /\ Beyond(q, DIR_DOWN) = <<q[1], q[2] + 1 + 1>>
    BY <1>2, AheadIs
  <2>. QED
    BY <1>1, <1>2, <1>3, <1>5, <1>6, <2>1, <2>2
<1>7. CASE d = DIR_RIGHT
  <2>1. Ahead(p, d) = <<x + 1, y>> /\ q = <<x + 1 + 1, y>>
    BY <1>3, <1>5, <1>7, AheadIs
  <2>2. Ahead(q, DIR_LEFT) = <<q[1] - 1, q[2]>> /\ Beyond(q, DIR_LEFT) = <<q[1] - 1 - 1, q[2]>>
    BY <1>2, AheadIs
  <2>. QED
    BY <1>1, <1>2, <1>3, <1>5, <1>7, <2>1, <2>2
<1>8. CASE d = DIR_DOWN
  <2>1. Ahead(p, d) = <<x, y + 1>> /\ q = <<x, y + 1 + 1>>
    BY <1>3, <1>5, <1>8, AheadIs
  <2>2. Ahead(q, DIR_UP) = <<q[1], q[2] - 1>> /\ Beyond(q, DIR_UP) = <<q[1], q[2] - 1 - 1>>
    BY <1>2, AheadIs
  <2>. QED
    BY <1>1, <1>2, <1>3, <1>5, <1>8, <2>1, <2>2
<1>9. CASE d = DIR_LEFT
  <2>1. Ahead(p, d) = <<x - 1, y>> /\ q = <<x - 1 - 1, y>>
    BY <1>3, <1>5, <1>9, AheadIs
  <2>2. Ahead(q, DIR_RIGHT) = <<q[1] + 1, q[2]>> /\ Beyond(q, DIR_RIGHT) = <<q[1] + 1 + 1, q[2]>>
    BY <1>2, AheadIs
  <2>. QED
    BY <1>1, <1>2, <1>3, <1>5, <1>9, <2>1, <2>2
<1>. QED
  BY <1>4, <1>6, <1>7, <1>8, <1>9

\* The wall between two spaces is between no others.
LEMMA SameWall ==
  ASSUME NEW p \in Spaces, NEW e \in Dirs, NEW q \in Spaces, NEW d \in Dirs,
         Ahead(q, d) = Ahead(p, e)
  PROVE  Beyond(q, d) = p \/ Beyond(q, d) = Beyond(p, e)
<1>1. PICK x \in Odd(XDim), y \in Odd(YDim), u \in Odd(XDim), v \in Odd(YDim) :
        p = <<x, y>> /\ q = <<u, v>>
  BY DEF Spaces
<1>2. x \in Int /\ y \in Int /\ u \in Int /\ v \in Int
  BY DEF Odd
<1>3. x % 2 = 1 /\ y % 2 = 1 /\ u % 2 = 1 /\ v % 2 = 1
  BY DEF Odd
<1>4. /\ e = DIR_UP => /\ Ahead(p, e) = <<x, y - 1>>
                         /\ Beyond(p, e) = <<x, y - 1 - 1>>
      /\ e = DIR_RIGHT => /\ Ahead(p, e) = <<x + 1, y>>
                            /\ Beyond(p, e) = <<x + 1 + 1, y>>
      /\ e = DIR_DOWN => /\ Ahead(p, e) = <<x, y + 1>>
                           /\ Beyond(p, e) = <<x, y + 1 + 1>>
      /\ e = DIR_LEFT => /\ Ahead(p, e) = <<x - 1, y>>
                           /\ Beyond(p, e) = <<x - 1 - 1, y>>
      /\ e \in {DIR_UP, DIR_RIGHT, DIR_DOWN, DIR_LEFT}
  <2>1. p \in Int \X Int /\ p[1] = x /\ p[2] = y
    BY <1>1, <1>2
  <2>. QED
    BY <2>1, AheadIs
<1>5. /\ d = DIR_UP => /\ Ahead(q, d) = <<u, v - 1>>
                         /\ Beyond(q, d) = <<u, v - 1 - 1>>
      /\ d = DIR_RIGHT => /\ Ahead(q, d) = <<u + 1, v>>
                            /\ Beyond(q, d) = <<u + 1 + 1, v>>
      /\ d = DIR_DOWN => /\ Ahead(q, d) = <<u, v + 1>>
                           /\ Beyond(q, d) = <<u, v + 1 + 1>>
      /\ d = DIR_LEFT => /\ Ahead(q, d) = <<u - 1, v>>
                           /\ Beyond(q, d) = <<u - 1 - 1, v>>
      /\ d \in {DIR_UP, DIR_RIGHT, DIR_DOWN, DIR_LEFT}
  <2>1. q \in Int \X Int /\ q[1] = u /\ q[2] = v
    BY <1>1, <1>2
  <2>. QED
    BY <2>1, AheadIs
<1>6. CASE d \in {DIR_UP, DIR_DOWN} /\ e \in {DIR_LEFT, DIR_RIGHT}
  <2>1. u = x + 1 \/ u = x - 1
    BY <1>2, <1>4, <1>5, <1>6
  <2>. QED
    BY <1>2, <1>3, <2>1
<1>7. CASE d \in {DIR_LEFT, DIR_RIGHT} /\ e \in {DIR_UP, DIR_DOWN}
  <2>1. v = y + 1 \/ v = y - 1
    BY <1>2, <1>4, <1>5, <1>7
  <2>. QED
    BY <1>2, <1>3, <2>1
<1>8. CASE d \in {DIR_UP, DIR_DOWN} /\ e \in {DIR_UP, DIR_DOWN}
  BY <1>1, <1>2, <1>4, <1>5, <1>8
<1>9. CASE d \in {DIR_LEFT, DIR_RIGHT} /\ e \in {DIR_LEFT, DIR_RIGHT}
  BY <1>1, <1>2, <1>4, <1>5, <1>9
<1>. QED
  BY <1>4, <1>5, <1>6, <1>7, <1>8, <1>9

----------------------------------------------------------------------------
(* Mazes of the dimensions asked for. *)

GridAt == {Index(p) : p \in Grid}
SpacesAt == {Index(p) : p \in Spaces}

OfSize(m) == m.xd = XDim /\ m.yd = YDim
Bounded(m) == \A i \in Indices : i \notin GridAt => m.cell[i] = MAZE_WALL

LEMMA Places ==
  ASSUME NEW m, OfSize(m)
  PROVE  /\ Points(m) = Spaces /\ Interior(m) = Grid
         /\ IndicesOf(m, Spaces) = SpacesAt /\ IndicesOf(m, Grid) = GridAt
<1>1. Points(m) = Spaces /\ Interior(m) = Grid
  BY DEF OfSize, Points, Interior, Spaces, Grid
<1>2. ASSUME NEW S \in SUBSET (Int \X Int)
      PROVE  IndicesOf(m, S) = {Index(p) : p \in S}
  BY DEF OfSize, IndicesOf, Index
<1>. QED
  BY <1>1, <1>2, SpacesInGrid DEF GridAt, SpacesAt

LEMMA PlacesInArray ==
  SpacesAt \subseteq GridAt /\ GridAt \subseteq Indices
<1>1. Grid \subseteq (0 .. 2 * XDim) \X (0 .. 2 * YDim)
  BY Sizes DEF Grid
<1>. QED
  BY <1>1, IndexInArray, SpacesInGrid DEF SpacesAt, GridAt

LEMMA OpeningIs ==
  ASSUME NEW m, OfSize(m), NEW p, NEW d \in Dirs
  PROVE  Opening(m, p, d) <=> /\ p \in Spaces /\ Beyond(p, d) \in Spaces
                              /\ ~m.cell[Index(Ahead(p, d))].wall
BY Places DEF Opening, OfSize, Index

LEMMA OpeningBack ==
  ASSUME NEW m, OfSize(m), NEW p, NEW d \in Dirs, Opening(m, p, d)
  PROVE  Reverse(d) \in Dirs /\ Opening(m, Beyond(p, d), Reverse(d))
         /\ Beyond(Beyond(p, d), Reverse(d)) = p
<1>1. p \in Spaces /\ Beyond(p, d) \in Spaces /\ ~m.cell[Index(Ahead(p, d))].wall
  BY OpeningIs
<1>2. p \in Int \X Int
  BY <1>1, SpacesInGrid
<1>. QED
  BY <1>1, <1>2, StepBack, OpeningIs

\* The openings around a space are the pairs of places mark_maze_area tests.
LEMMA AroundSpace ==
  ASSUME NEW m, OfSize(m), Bounded(m), NEW p \in Spaces, NEW t
  PROVE  t \in Around(m, Index(p)) /\ ~m.cell[t[1]].wall
         <=> \E d \in Dirs : /\ Opening(m, p, d)
                             /\ t = <<Index(Ahead(p, d)), Index(Beyond(p, d))>>
<1>1. p \in Int \X Int
  BY SpacesInGrid
<1>2. DIR_UP \in Dirs /\ DIR_DOWN \in Dirs /\ DIR_LEFT \in Dirs /\ DIR_RIGHT \in Dirs
  BY DEF Dirs, NUM_DIRS, DIR_UP, DIR_RIGHT, DIR_DOWN, DIR_LEFT
<1>. DEFINE Pair(d) == <<Index(Ahead(p, d)), Index(Beyond(p, d))>>
<1>3. /\ Pair(DIR_UP) = <<Index(p) - 2 * XDim, Index(p) - 4 * XDim>>
      /\ Pair(DIR_RIGHT) = <<Index(p) + 1, Index(p) + 2>>
      /\ Pair(DIR_DOWN) = <<Index(p) + 2 * XDim, Index(p) + 4 * XDim>>
      /\ Pair(DIR_LEFT) = <<Index(p) - 1, Index(p) - 2>>
  BY <1>1, <1>2, AheadIndex
<1>4. Around(m, Index(p)) = {Pair(DIR_UP), Pair(DIR_RIGHT), Pair(DIR_DOWN), Pair(DIR_LEFT)}
  BY <1>3 DEF Around
<1>. HIDE DEF Pair
<1>5. \A d \in Dirs : d \in {DIR_UP, DIR_RIGHT, DIR_DOWN, DIR_LEFT}
  BY <1>1, AheadIs
<1>6. t \in Around(m, Index(p)) <=> \E d \in Dirs : t = Pair(d)
  BY <1>2, <1>4, <1>5
<1>7. ASSUME NEW d \in Dirs, t = Pair(d)
      PROVE  ~m.cell[t[1]].wall <=> Opening(m, p, d)
  <2>1. t[1] = Index(Ahead(p, d))
    BY <1>7 DEF Pair
  <2>2. CASE Beyond(p, d) \in Spaces
    BY <2>1, <2>2, OpeningIs
  <2>3. CASE Beyond(p, d) \notin Spaces
    <3>1. Index(Ahead(p, d)) \notin GridAt
      BY <2>3, BoundaryIndex DEF GridAt
    <3>2. Index(Ahead(p, d)) \in Indices
      BY AheadOfSpace, IndexInArray
    <3>3. m.cell[Index(Ahead(p, d))] = MAZE_WALL
      BY <3>1, <3>2 DEF Bounded
    <3>4. MAZE_WALL.wall
      BY DEF MAZE_WALL, MAZE_NONE
    <3>. QED
      BY <2>1, <2>3, <3>3, <3>4, OpeningIs
  <2>. QED
    BY <2>2, <2>3
<1>8. \A d \in Dirs : t = Pair(d) => (~m.cell[t[1]].wall <=> Opening(m, p, d))
  BY <1>7
<1>9. \A d : Pair(d) = <<Index(Ahead(p, d)), Index(Beyond(p, d))>>
  BY DEF Pair
<1>. QED
  BY <1>6, <1>8, <1>9

\* How many spaces there are.
LEMMA OddCount ==
  ASSUME NEW n \in Nat
  PROVE  IsFiniteSet(Odd(n)) /\ Cardinality(Odd(n)) = n
<1>. DEFINE f == [a \in 1 .. n |-> 2 * a - 1]
<1>1. f \in [1 .. n -> Odd(n)]
  BY DEF Odd
<1>2. ASSUME NEW k \in Odd(n)
      PROVE  \E a \in 1 .. n : f[a] = k
  <2>1. PICK b \in 0 .. n - 1 : k = 2 * b + 1
    BY OddIs DEF Odd
  <2>2. b + 1 \in 1 .. n /\ f[b + 1] = k
    BY <2>1
  <2>. QED
    BY <2>2
<1>3. \A a, b \in 1 .. n : f[a] = f[b] => a = b
  OBVIOUS
<1>4. f \in Bijection(1 .. n, Odd(n))
  BY <1>1, <1>2, <1>3, Fun_IsBij
<1>5. IsFiniteSet(1 .. n) /\ Cardinality(1 .. n) = n
  BY FS_Interval
<1>. QED
  BY <1>4, <1>5, FS_Bijection DEF ExistsBijection

LEMMA SpacesCount ==
  IsFiniteSet(Spaces) /\ Cardinality(Spaces) = XDim * YDim
BY Sizes, OddCount, FS_Product DEF Spaces

\* As many places as points, and a bijection between them.
LEMMA PlacesCount ==
  ASSUME NEW S \in SUBSET Grid, IsFiniteSet(S)
  PROVE  IsFiniteSet({Index(p) : p \in S}) /\ Cardinality({Index(p) : p \in S}) = Cardinality(S)
<1>. DEFINE T == {Index(p) : p \in S}
            f == [p \in S |-> Index(p)]
<1>1. f \in [S -> T] /\ (\A t \in T : \E p \in S : f[p] = t)
  OBVIOUS
<1>2. \A p, q \in S : f[p] = f[q] => p = q
  BY GridIndex
<1>3. f \in Bijection(S, T)
  BY <1>1, <1>2, Fun_IsBij
<1>4. ExistsBijection(S, T)
  BY <1>3 DEF ExistsBijection
<1>. HIDE DEF T
<1>5. IsFiniteSet(T) /\ Cardinality(T) = Cardinality(S)
  BY <1>4, FS_Bijection
<1>. QED
  BY <1>5 DEF T

----------------------------------------------------------------------------
(* What mark_maze_area finds. *)

\* The places a round adds to those of B.
Seen(m, B) ==
    {s[2] : s \in {t \in UNION {Around(m, i) : i \in B} : ~m.cell[t[1]].wall /\ ~m.cell[t[2]].reach}}

LEMMA SeenIs ==
  ASSUME NEW m, OfSize(m), Bounded(m), NEW S \in SUBSET Spaces, NEW k
  PROVE  k \in Seen(m, {Index(p) : p \in S})
         <=> \E p \in S, d \in Dirs : /\ Opening(m, p, d) /\ k = Index(Beyond(p, d))
                                      /\ ~m.cell[k].reach
<1>. DEFINE B == {Index(p) : p \in S}
<1>1. k \in Seen(m, B) <=> \E t : /\ \E i \in B : t \in Around(m, i)
                                  /\ ~m.cell[t[1]].wall /\ ~m.cell[t[2]].reach /\ k = t[2]
  BY DEF Seen
<1>2. ASSUME k \in Seen(m, B)
      PROVE  \E p \in S, d \in Dirs : /\ Opening(m, p, d) /\ k = Index(Beyond(p, d))
                                      /\ ~m.cell[k].reach
  <2>1. PICK t : /\ \E i \in B : t \in Around(m, i)
                 /\ ~m.cell[t[1]].wall /\ ~m.cell[t[2]].reach /\ k = t[2]
    BY <1>1, <1>2
  <2>2. PICK p \in S : t \in Around(m, Index(p))
    BY <2>1
  <2>3. PICK d \in Dirs : Opening(m, p, d) /\ t = <<Index(Ahead(p, d)), Index(Beyond(p, d))>>
    BY <2>1, <2>2, AroundSpace
  <2>. QED
    BY <2>1, <2>3
<1>3. ASSUME NEW p \in S, NEW d \in Dirs, Opening(m, p, d), k = Index(Beyond(p, d)), ~m.cell[k].reach
      PROVE  k \in Seen(m, B)
  <2>1. PICK t : t = <<Index(Ahead(p, d)), Index(Beyond(p, d))>>
    OBVIOUS
  <2>2. t \in Around(m, Index(p)) /\ ~m.cell[t[1]].wall
    BY <1>3, <2>1, AroundSpace
  <2>3. t[2] = k
    BY <1>3, <2>1
  <2>4. Index(p) \in B
    OBVIOUS
  <2>. HIDE DEF B
  <2>. QED
    BY <1>1, <1>3, <2>2, <2>3, <2>4
<1>. QED
  BY <1>2, <1>3

\* The last round finds nothing new, and every round what is one step from the
\* ones before.
LEMMA FoundRounds ==
  ASSUME NEW m, OfSize(m), Bounded(m), NEW p \in Spaces
  PROVE  \E f \in [0 .. XDim * YDim -> SUBSET SpacesAt] :
           /\ f[0] = {Index(p)}
           /\ \A n \in 0 .. XDim * YDim - 1 : f[n + 1] = f[n] \cup Seen(m, f[n])
           /\ Found(m, p) = f[XDim * YDim]
           /\ Seen(m, f[XDim * YDim]) \subseteq f[XDim * YDim]
<1>. DEFINE N == XDim * YDim
            A == {Index(p)}
            g == [B \in SUBSET SpacesAt |-> B \cup Seen(m, B)]
<1>1. N \in Nat
  BY Sizes
<1>2. A \in SUBSET SpacesAt /\ A # {}
  BY DEF SpacesAt
<1>3. ASSUME NEW B \in SUBSET SpacesAt
      PROVE  Seen(m, B) \subseteq SpacesAt
  <2>1. PICK S \in SUBSET Spaces : B = {Index(q) : q \in S}
    <3>. DEFINE S == {q \in Spaces : Index(q) \in B}
    <3>1. B = {Index(q) : q \in S}
      BY DEF SpacesAt
    <3>. QED
      BY <3>1
  <2>2. ASSUME NEW k \in Seen(m, B)
        PROVE  k \in SpacesAt
    <3>1. PICK q \in S, d \in Dirs : Opening(m, q, d) /\ k = Index(Beyond(q, d))
      BY <2>1, SeenIs
    <3>2. Beyond(q, d) \in Spaces
      BY <3>1, OpeningIs
    <3>. QED
      BY <3>1, <3>2 DEF SpacesAt
  <2>. QED
    BY <2>2
<1>4. g \in [SUBSET SpacesAt -> SUBSET SpacesAt]
  BY <1>3
<1>5. \A B \in SUBSET SpacesAt : B \subseteq g[B]
  OBVIOUS
<1>6. \E f \in [0 .. N -> SUBSET SpacesAt] : Rounds(N, f, A, g)
  <2>. HIDE DEF N, A, g
  <2>. QED
    BY <1>1, <1>2, <1>4, RoundsExist
<1>. DEFINE Is(f) == f = [n \in 0 .. N |-> IF n = 0 THEN A ELSE f[n - 1] \cup Seen(m, f[n - 1])]
            h == CHOOSE f : Is(f)
<1>7. \E f : Is(f)
  <2>1. PICK f \in [0 .. N -> SUBSET SpacesAt] : Rounds(N, f, A, g)
    BY <1>6
  <2>2. \A n \in 0 .. N : n # 0 => g[f[n - 1]] = f[n - 1] \cup Seen(m, f[n - 1])
    BY <1>1
  <2>3. f = [n \in 0 .. N |-> IF n = 0 THEN A ELSE f[n - 1] \cup Seen(m, f[n - 1])]
    BY <2>1, <2>2 DEF Rounds
  <2>. QED
    BY <2>3
<1>8. Is(h)
  BY <1>7
<1>9. Found(m, p) = h[N]
  BY DEF Found, Seen
<1>. HIDE DEF h
<1>10. h[0] = A /\ \A n \in 0 .. N - 1 : h[n + 1] = h[n] \cup Seen(m, h[n])
  <2>1. 0 \in 0 .. N /\ \A n \in 0 .. N - 1 : n + 1 \in 0 .. N /\ n + 1 # 0 /\ (n + 1) - 1 = n
    BY <1>1
  <2>. HIDE DEF N, A
  <2>. QED
    BY <1>8, <2>1
<1>11. \A n \in 0 .. N : h[n] \in SUBSET SpacesAt
  <2>. DEFINE S == {n \in 0 .. N : h[n] \in SUBSET SpacesAt}
  <2>1. 0 \in S
    BY <1>1, <1>2, <1>10
  <2>2. ASSUME NEW n \in 0 .. N - 1, n \in S
        PROVE  n + 1 \in S
    <3>1. h[n + 1] = h[n] \cup Seen(m, h[n]) /\ n + 1 \in 0 .. N
      BY <1>1, <1>10
    <3>2. h[n] \in SUBSET SpacesAt
      BY <2>2
    <3>. HIDE DEF N
    <3>. QED
      BY <1>3, <3>1, <3>2
  <2>3. 0 .. N \subseteq S
    <3>. HIDE DEF S, N
    <3>. QED
      BY <1>1, <2>1, <2>2, CountsUp
  <2>. QED
    BY <2>3
<1>12. h \in [0 .. N -> SUBSET SpacesAt]
  BY <1>8, <1>11
<1>13. Rounds(N, h, A, g)
  <2>1. \A n \in 0 .. N : n # 0 => n - 1 \in 0 .. N
    BY <1>1
  <2>2. \A n \in 0 .. N : n # 0 => g[h[n - 1]] = h[n - 1] \cup Seen(m, h[n - 1])
    BY <1>11, <2>1
  <2>. HIDE DEF N, A, g
  <2>3. h = [n \in 0 .. N |-> IF n = 0 THEN A ELSE g[h[n - 1]]]
    BY <1>8, <2>2
  <2>. QED
    BY <2>3 DEF Rounds
<1>14. IsFiniteSet(SpacesAt) /\ Cardinality(SpacesAt) <= N
  <2>1. Cardinality(SpacesAt) = N /\ IsFiniteSet(SpacesAt)
    BY SpacesCount, PlacesCount, SpacesInGrid DEF SpacesAt
  <2>. QED
    BY <1>1, <2>1
<1>15. g[h[N]] = h[N]
  <2>. HIDE DEF N, A, g
  <2>. QED
    BY <1>1, <1>2, <1>4, <1>5, <1>12, <1>13, <1>14, RoundsSettle
<1>16. Seen(m, h[N]) \subseteq h[N]
  <2>1. h[N] \in SUBSET SpacesAt
    BY <1>1, <1>11
  <2>2. g[h[N]] = h[N] \cup Seen(m, h[N])
    BY <2>1
  <2>. QED
    BY <1>15, <2>2
<1>. QED
  BY <1>9, <1>10, <1>12, <1>16

\* The search finds spaces; it goes through every opening to a space without
\* a mark, finds none that has one, and each is reached from where it starts.
LEMMA FoundIs ==
  ASSUME NEW m, OfSize(m), Bounded(m), NEW p \in Spaces
  PROVE  \E S \in SUBSET Spaces :
           /\ Found(m, p) = {Index(q) : q \in S}
           /\ p \in S
           /\ \A q \in S, d \in Dirs :
                Opening(m, q, d) /\ ~m.cell[Index(Beyond(q, d))].reach => Beyond(q, d) \in S
           /\ \A q \in S : q = p \/ ~m.cell[Index(q)].reach
           /\ \A T \in SUBSET S : p \in T /\ T # S =>
                \E q \in T, d \in Dirs : Opening(m, q, d) /\ Beyond(q, d) \in S \ T
<1>. DEFINE N == XDim * YDim
<1>1. N \in Nat
  BY Sizes
<1>2. PICK f \in [0 .. N -> SUBSET SpacesAt] :
           /\ f[0] = {Index(p)}
           /\ \A n \in 0 .. N - 1 : f[n + 1] = f[n] \cup Seen(m, f[n])
           /\ Found(m, p) = f[N]
           /\ Seen(m, f[N]) \subseteq f[N]
  BY FoundRounds
<1>. HIDE DEF N
<1>. DEFINE At(B) == {q \in Spaces : Index(q) \in B}
            S == At(f[N])
<1>3. ASSUME NEW n \in 0 .. N
      PROVE  /\ f[n] = {Index(q) : q \in At(f[n])} /\ At(f[n]) \in SUBSET Spaces
  BY DEF SpacesAt
<1>4. ASSUME NEW q \in Spaces, NEW r \in Spaces, Index(q) = Index(r)
      PROVE  q = r
  BY <1>4, GridIndex, SpacesInGrid
<1>5. ASSUME NEW n \in 0 .. N, NEW q \in Spaces, Index(q) \in Seen(m, f[n])
      PROVE  /\ ~m.cell[Index(q)].reach
             /\ \E r \in At(f[n]), d \in Dirs : Opening(m, r, d) /\ q = Beyond(r, d)
  <2>. DEFINE R == At(f[n])
  <2>1. R \in SUBSET Spaces /\ f[n] = {Index(r) : r \in R}
    BY <1>3
  <2>. HIDE DEF R
  <2>2. PICK r \in R, d \in Dirs : /\ Opening(m, r, d) /\ Index(q) = Index(Beyond(r, d))
                                   /\ ~m.cell[Index(q)].reach
    BY <1>5, <2>1, SeenIs
  <2>3. Beyond(r, d) \in Spaces
    BY <2>2, OpeningIs
  <2>4. q = Beyond(r, d)
    BY <1>4, <2>2, <2>3
  <2>. QED
    BY <2>2, <2>4 DEF R
<1>6. Found(m, p) = {Index(q) : q \in S} /\ S \in SUBSET Spaces
  BY <1>1, <1>2, <1>3
<1>7. ASSUME NEW q \in S, NEW d \in Dirs, Opening(m, q, d), ~m.cell[Index(Beyond(q, d))].reach
      PROVE  Beyond(q, d) \in S
  <2>1. Beyond(q, d) \in Spaces
    BY <1>7, OpeningIs
  <2>2. f[N] = {Index(r) : r \in S}
    BY <1>2, <1>6
  <2>. HIDE DEF S
  <2>3. Index(Beyond(q, d)) \in Seen(m, f[N])
    BY <1>6, <1>7, <2>2, SeenIs
  <2>. QED
    BY <1>2, <2>1, <2>3 DEF S
<1>8. \A n \in 0 .. N : Index(p) \in f[n] /\ \A q \in At(f[n]) : q = p \/ ~m.cell[Index(q)].reach
  <2>. DEFINE Good == {n \in 0 .. N : Index(p) \in f[n]
                          /\ \A q \in At(f[n]) : q = p \/ ~m.cell[Index(q)].reach}
  <2>1. 0 \in Good
    BY <1>1, <1>2, <1>4
  <2>2. ASSUME NEW n \in 0 .. N - 1, n \in Good
        PROVE  n + 1 \in Good
    <3>1. n \in 0 .. N /\ n + 1 \in 0 .. N /\ f[n + 1] = f[n] \cup Seen(m, f[n])
      BY <1>1, <1>2
    <3>2. Index(p) \in f[n] /\ \A q \in At(f[n]) : q = p \/ ~m.cell[Index(q)].reach
      BY <2>2
    <3>3. ASSUME NEW q \in At(f[n + 1])
          PROVE  q = p \/ ~m.cell[Index(q)].reach
      <4>1. q \in Spaces /\ (Index(q) \in f[n] \/ Index(q) \in Seen(m, f[n]))
        BY <3>1, <3>3
      <4>2. CASE Index(q) \in f[n]
        BY <3>2, <4>1, <4>2
      <4>3. CASE Index(q) \in Seen(m, f[n])
        BY <1>5, <3>1, <4>1, <4>3
      <4>. QED
        BY <4>1, <4>2, <4>3
    <3>. QED
      BY <3>1, <3>2, <3>3
  <2>3. 0 .. N \subseteq Good
    <3>. HIDE DEF Good
    <3>. QED
      BY <1>1, <2>1, <2>2, CountsUp
  <2>. QED
    BY <2>3
<1>9. ASSUME NEW T \in SUBSET S, p \in T, T # S
      PROVE  \E q \in T, d \in Dirs : Opening(m, q, d) /\ Beyond(q, d) \in S \ T
  <2>1. SUFFICES ASSUME \A q \in T, d \in Dirs : Opening(m, q, d) => Beyond(q, d) \notin S \ T
                 PROVE  FALSE
    OBVIOUS
  <2>. DEFINE Good == {n \in 0 .. N : At(f[n]) \subseteq T}
  <2>2. \A n \in 0 .. N : At(f[n]) \subseteq S
    <3>. DEFINE Low == {n \in 0 .. N : \A k \in 0 .. N : k >= N - n => f[N - n] \subseteq f[k]}
    <3>1. 0 \in Low
      BY <1>1
    <3>2. ASSUME NEW n \in 0 .. N - 1, n \in Low
          PROVE  n + 1 \in Low
      <4>1. n + 1 \in 0 .. N /\ N - (n + 1) \in 0 .. N - 1 /\ (N - (n + 1)) + 1 = N - n
        BY <1>1
      <4>2. f[N - n] = f[N - (n + 1)] \cup Seen(m, f[N - (n + 1)])
        BY <1>2, <4>1
      <4>3. ASSUME NEW k \in 0 .. N, k >= N - (n + 1)
            PROVE  f[N - (n + 1)] \subseteq f[k]
        <5>1. CASE k = N - (n + 1)
          BY <5>1
        <5>2. CASE k >= N - n
          BY <3>2, <4>2, <5>2
        <5>. QED
          BY <1>1, <4>3, <5>1, <5>2
      <4>. QED
        BY <4>1, <4>3
    <3>3. 0 .. N \subseteq Low
      <4>. HIDE DEF Low
      <4>. QED
        BY <1>1, <3>1, <3>2, CountsUp
    <3>4. ASSUME NEW n \in 0 .. N
          PROVE  f[n] \subseteq f[N]
      <4>1. N - n \in Low /\ N - (N - n) = n /\ N \in 0 .. N /\ N >= n
        BY <1>1, <3>3
      <4>. QED
        BY <4>1
    <3>. QED
      BY <3>4
  <2>3. 0 \in Good
    BY <1>1, <1>2, <1>4, <1>9
  <2>4. ASSUME NEW n \in 0 .. N - 1, n \in Good
        PROVE  n + 1 \in Good
    <3>1. n \in 0 .. N /\ n + 1 \in 0 .. N /\ f[n + 1] = f[n] \cup Seen(m, f[n])
      BY <1>1, <1>2
    <3>2. ASSUME NEW q \in At(f[n + 1])
          PROVE  q \in T
      <4>1. q \in Spaces /\ q \in S /\ (Index(q) \in f[n] \/ Index(q) \in Seen(m, f[n]))
        BY <2>2, <3>1, <3>2
      <4>2. CASE Index(q) \in f[n]
        BY <2>4, <4>1, <4>2
      <4>3. CASE Index(q) \in Seen(m, f[n])
        <5>1. PICK r \in At(f[n]), d \in Dirs : Opening(m, r, d) /\ q = Beyond(r, d)
          BY <1>5, <3>1, <4>1, <4>3
        <5>2. r \in T
          BY <2>4, <5>1
        <5>. QED
          BY <2>1, <4>1, <5>1, <5>2
      <4>. QED
        BY <4>1, <4>2, <4>3
    <3>. QED
      BY <3>1, <3>2
  <2>5. 0 .. N \subseteq Good
    <3>. HIDE DEF Good
    <3>. QED
      BY <1>1, <2>3, <2>4, CountsUp
  <2>6. S \subseteq T
    BY <1>1, <2>5
  <2>. QED
    BY <1>9, <2>6
<1>10. p \in S
  BY <1>1, <1>8
<1>11. \A q \in S : q = p \/ ~m.cell[Index(q)].reach
  BY <1>1, <1>8
<1>. HIDE DEF S
<1>. QED
  BY <1>6, <1>7, <1>9, <1>10, <1>11

----------------------------------------------------------------------------
(* The inductive invariant. *)

MakerPlaces == {"drop", "worm", "mark", "connect", "clear", "fruits", "exit", "made"}
Cells == [wall: BOOLEAN, fruit: Nat, exit: BOOLEAN, reach: BOOLEAN]
Mazes == [cell: [Indices -> Cells], xd: {XDim}, yd: {YDim}, n_fruits: Nat, exit: Int \X Int]

MakerTypeOK ==
    /\ place \in MakerPlaces
    /\ maze \in Mazes
    /\ at \in Int \X Int
    /\ remaining \in Int /\ trials \in Nat /\ idle \in Nat

WallSet(m) == {p \in Spaces : m.cell[Index(p)].wall}
MarkSet(m) == {p \in Spaces : m.cell[Index(p)].reach}
FruitSet(m) == {p \in Spaces : m.cell[Index(p)].fruit # 0}
ExitSet(m) == {p \in Grid : m.cell[Index(p)].exit}

NoMarks(m) == \A i \in Indices : ~m.cell[i].reach
MarksInside(m) == \A i \in Indices : m.cell[i].reach => i \in SpacesAt
Plain(m) == \A i \in Indices : m.cell[i].fruit = 0 /\ ~m.cell[i].exit

\* The marked spaces hang together, and no opening leads out of them.
Joined(m) ==
    /\ <<1, 1>> \in MarkSet(m)
    /\ HangsTogether(m, MarkSet(m))
    /\ \A p \in MarkSet(m), d \in Dirs : Opening(m, p, d) => Beyond(p, d) \in MarkSet(m)

\* No wall next to p can be knocked down.
Stuck(m, p) == p \in MarkSet(m) \/ \A d \in Dirs : Beyond(p, d) \notin MarkSet(m)

\* The places of the scan, row by row, and how many steps ago it was at p.
Rank(p) == (p[1] - 1) \div 2 + ((p[2] - 1) \div 2) * XDim
StepsSince(r, p) == IF Rank(p) <= r THEN r - Rank(p) ELSE r - Rank(p) + XDim * YDim

\* The rounds that joined nothing are trials, then steps of the scan since the
\* last join: the spaces those came to are stuck.
ScanRight ==
    /\ remaining > 0 \/ idle = 0
    /\ ~Scans => idle <= trials
    /\ Scans => \E s \in 0 .. XDim * YDim :
                  /\ idle <= MaxTrials + s
                  /\ \A p \in Spaces : StepsSince(Rank(at), p) < s => Stuck(maze, p)

DigInv ==
    /\ place \in {"drop", "worm"} => remaining = Cardinality(WallSet(maze))
    /\ place \in {"drop", "worm", "mark"} => NoMarks(maze) /\ idle = 0
    /\ place \in {"worm", "mark"} => at \in Spaces

ConnectInv ==
    place = "connect" =>
        /\ at \in Spaces
        /\ Joined(maze)
        /\ remaining = Cardinality(Spaces \ MarkSet(maze))
        /\ ScanRight

DoneInv ==
    /\ place \in {"fruits", "exit", "made"} =>
         NoMarks(maze) /\ maze.n_fruits = Cardinality(FruitSet(maze))
    /\ place \in {"exit", "made"} => maze.n_fruits = StartFruits
    /\ place = "fruits" => maze.n_fruits < StartFruits
    /\ place \in {"fruits", "exit"} => ExitSet(maze) = {}
    /\ place = "made" => /\ maze.exit \in Spaces /\ ExitSet(maze) = {maze.exit}
                         /\ maze.cell[Index(maze.exit)].fruit = 0

MakerInv ==
    /\ MakerTypeOK
    /\ Bounded(maze)
    /\ place \in {"drop", "worm", "mark", "connect", "clear"} => Plain(maze)
    /\ place \in {"connect", "clear"} => MarksInside(maze)
    /\ place \notin {"drop", "worm"} => WallSet(maze) = {}
    /\ place \in {"clear", "fruits", "exit", "made"} => HangsTogether(maze, Spaces)
    /\ idle <= MaxTrials + XDim * YDim
    /\ DigInv /\ ConnectInv /\ DoneInv

----------------------------------------------------------------------------
(* What the steps do to a maze. *)

LEMMA CellFacts ==
  /\ MAZE_NONE \in Cells /\ ~MAZE_NONE.wall /\ MAZE_NONE.fruit = 0 /\ ~MAZE_NONE.exit /\ ~MAZE_NONE.reach
  /\ MAZE_WALL \in Cells /\ MAZE_WALL.wall /\ MAZE_WALL.fruit = 0 /\ ~MAZE_WALL.exit /\ ~MAZE_WALL.reach
BY DEF Cells, MAZE_NONE, MAZE_WALL

LEMMA MazeFacts ==
  ASSUME NEW m \in Mazes
  PROVE  /\ OfSize(m) /\ m.cell \in [Indices -> Cells]
         /\ m.n_fruits \in Nat /\ m.exit \in Int \X Int
BY DEF Mazes, OfSize

LEMMA SpaceFacts ==
  ASSUME NEW p \in Spaces
  PROVE  /\ Index(p) \in SpacesAt /\ Index(p) \in GridAt /\ Index(p) \in Indices
         /\ p \in Grid /\ p \in Int \X Int
BY SpacesInGrid, PlacesInArray DEF SpacesAt

LEMMA SameSpace ==
  ASSUME NEW p \in Spaces, NEW q \in Spaces
  PROVE  Index(p) = Index(q) <=> p = q
BY GridIndex, SpacesInGrid

\* The cells of a maze replaced.
LEMMA WithCells ==
  ASSUME NEW m \in Mazes, NEW c \in [Indices -> Cells]
  PROVE  LET w == [m EXCEPT !.cell = c]
         IN  /\ w \in Mazes /\ w.cell = c
             /\ w.n_fruits = m.n_fruits /\ w.exit = m.exit
BY DEF Mazes

\* Digging makes places of the grid empty.
DugOut(m, D) == [i \in Indices |-> IF i \in D THEN MAZE_NONE ELSE m.cell[i]]

LEMMA DigOut ==
  ASSUME NEW m \in Mazes, Bounded(m), NEW D \in SUBSET GridAt
  PROVE  LET w == [m EXCEPT !.cell = DugOut(m, D)]
         IN  /\ w \in Mazes /\ Bounded(w)
             /\ w.cell = DugOut(m, D)
             /\ NoMarks(m) => NoMarks(w)
             /\ MarksInside(m) => MarksInside(w)
             /\ Plain(m) => Plain(w)
             /\ WallSet(w) = {p \in WallSet(m) : Index(p) \notin D}
             /\ D \cap SpacesAt = {} => MarkSet(w) = MarkSet(m)
<1>. DEFINE w == [m EXCEPT !.cell = DugOut(m, D)]
<1>1. m.cell \in [Indices -> Cells]
  BY MazeFacts
<1>2. DugOut(m, D) \in [Indices -> Cells]
  BY <1>1, CellFacts DEF DugOut
<1>3. w \in Mazes /\ w.cell = DugOut(m, D)
  BY <1>2, WithCells
<1>. HIDE DEF w
<1>4. \A i \in Indices : w.cell[i] = IF i \in D THEN MAZE_NONE ELSE m.cell[i]
  BY <1>3 DEF DugOut
<1>5. Bounded(w)
  BY <1>4 DEF Bounded
<1>6. NoMarks(m) => NoMarks(w)
  BY <1>4, CellFacts DEF NoMarks
<1>7. MarksInside(m) => MarksInside(w)
  BY <1>4, CellFacts DEF MarksInside
<1>8. Plain(m) => Plain(w)
  BY <1>4, CellFacts DEF Plain
<1>9. WallSet(w) = {p \in WallSet(m) : Index(p) \notin D}
  BY <1>4, CellFacts, SpaceFacts DEF WallSet
<1>10. D \cap SpacesAt = {} => MarkSet(w) = MarkSet(m)
  BY <1>4, SpaceFacts DEF MarkSet
<1>. QED
  BY <1>3, <1>5, <1>6, <1>7, <1>8, <1>9, <1>10 DEF w

\* One place dug.
LEMMA DigOne ==
  ASSUME NEW m \in Mazes, NEW k \in Indices
  PROVE  [m EXCEPT !.cell[k] = MAZE_NONE] = [m EXCEPT !.cell = DugOut(m, {k})]
<1>1. m.cell \in [Indices -> Cells]
  BY MazeFacts
<1>2. [m.cell EXCEPT ![k] = MAZE_NONE] = DugOut(m, {k})
  BY <1>1 DEF DugOut
<1>. QED
  BY <1>2

LEMMA WallSetFacts ==
  ASSUME NEW m
  PROVE  IsFiniteSet(WallSet(m)) /\ Cardinality(WallSet(m)) \in Nat
         /\ IsFiniteSet(MarkSet(m)) /\ IsFiniteSet(Spaces \ MarkSet(m))
         /\ Cardinality(Spaces \ MarkSet(m)) \in Nat
         /\ IsFiniteSet(FruitSet(m)) /\ Cardinality(FruitSet(m)) \in Nat
<1>1. WallSet(m) \in SUBSET Spaces /\ MarkSet(m) \in SUBSET Spaces /\ FruitSet(m) \in SUBSET Spaces
      /\ Spaces \ MarkSet(m) \in SUBSET Spaces
  BY DEF WallSet, MarkSet, FruitSet
<1>. QED
  BY <1>1, SpacesCount, FS_Subset, FS_CardinalityType

----------------------------------------------------------------------------
(* The worm phase keeps the invariant. *)

LEMMA MakerInitStep == MakerInit => MakerInv
<1>. SUFFICES ASSUME MakerInit PROVE MakerInv
  OBVIOUS
<1>. DEFINE m == Walls(XDim, YDim)
<1>1. m \in Mazes /\ m.cell = [i \in Indices |-> MAZE_WALL]
  BY CellFacts DEF Walls, Mazes
<1>2. maze = m
  BY DEF MakerInit
<1>. HIDE DEF m
<1>3. \A i \in Indices : maze.cell[i] = MAZE_WALL
  BY <1>1, <1>2
<1>4. Bounded(maze) /\ Plain(maze) /\ NoMarks(maze)
  BY <1>3, CellFacts DEF Bounded, Plain, NoMarks
<1>5. WallSet(maze) = Spaces
  BY <1>3, CellFacts, SpaceFacts DEF WallSet
<1>6. remaining = Cardinality(WallSet(maze)) /\ XDim * YDim \in Nat /\ remaining \in Int
  BY <1>5, SpacesCount, Sizes DEF MakerInit
<1>7. place = "drop" /\ idle = 0 /\ trials = 0 /\ at = <<1, 1>>
  BY DEF MakerInit
<1>8. idle <= MaxTrials + XDim * YDim
  BY <1>6, <1>7, TrialAssumption
<1>9. MakerTypeOK
  BY <1>1, <1>2, <1>6, <1>7 DEF MakerTypeOK, MakerPlaces
<1>. QED
  BY <1>4, <1>6, <1>7, <1>8, <1>9 DEF MakerInv, DigInv, ConnectInv, DoneInv

LEMMA DropStep == MakerInv /\ DropWorm => MakerInv'
<1>. SUFFICES ASSUME MakerInv, DropWorm PROVE MakerInv'
  OBVIOUS
<1>1. place = "drop" /\ place' = "worm" /\ remaining' = remaining - 1
      /\ trials' = trials /\ idle' = idle
  BY DEF DropWorm
<1>2. maze \in Mazes /\ Bounded(maze) /\ Plain(maze) /\ NoMarks(maze)
      /\ remaining = Cardinality(WallSet(maze)) /\ idle = 0 /\ trials \in Nat
      /\ idle <= MaxTrials + XDim * YDim
  BY <1>1 DEF MakerInv, MakerTypeOK, DigInv
<1>3. PICK p \in Points(maze) : /\ IsWall(p) /\ at' = p
                                /\ maze' = [maze EXCEPT !.cell[Index(p)] = MAZE_NONE]
  BY DEF DropWorm
<1>4. p \in Spaces /\ Index(p) \in Indices /\ Index(p) \in GridAt /\ p \in Int \X Int
  BY <1>2, <1>3, MazeFacts, Places, SpaceFacts
<1>5. maze' = [maze EXCEPT !.cell = DugOut(maze, {Index(p)})]
  BY <1>2, <1>3, <1>4, DigOne
<1>. DEFINE D == {Index(p)}
<1>6. D \in SUBSET GridAt
  BY <1>4
<1>7. /\ maze' \in Mazes /\ Bounded(maze') /\ NoMarks(maze') /\ Plain(maze')
      /\ WallSet(maze') = {q \in WallSet(maze) : Index(q) \notin D}
  BY <1>2, <1>5, <1>6, DigOut
<1>8. WallSet(maze') = WallSet(maze) \ {p} /\ p \in WallSet(maze)
  <2>1. p \in WallSet(maze)
    BY <1>3, <1>4 DEF IsWall, WallSet
  <2>2. \A q \in WallSet(maze) : Index(q) \in D <=> q = p
    BY <1>4, SameSpace DEF WallSet
  <2>. QED
    BY <1>7, <2>1, <2>2
<1>9. Cardinality(WallSet(maze')) = remaining' /\ remaining' \in Int
  <2>1. IsFiniteSet(WallSet(maze)) /\ Cardinality(WallSet(maze)) \in Nat
    BY WallSetFacts
  <2>2. Cardinality(WallSet(maze) \ {p}) = Cardinality(WallSet(maze)) - 1
    BY <1>8, <2>1, FS_RemoveElement
  <2>. QED
    BY <1>1, <1>2, <1>8, <2>1, <2>2
<1>10. MakerTypeOK'
  BY <1>1, <1>2, <1>3, <1>4, <1>7, <1>9 DEF MakerTypeOK, MakerPlaces
<1>. QED
  BY <1>1, <1>2, <1>3, <1>4, <1>7, <1>9, <1>10 DEF MakerInv, DigInv, ConnectInv, DoneInv

LEMMA WormStep == MakerInv /\ WormMoves => MakerInv'
<1>. SUFFICES ASSUME MakerInv, WormMoves PROVE MakerInv'
  OBVIOUS
<1>1. place = "worm" /\ place' = "worm" /\ trials' = trials /\ idle' = idle
  BY DEF WormMoves
<1>2. maze \in Mazes /\ Bounded(maze) /\ Plain(maze) /\ NoMarks(maze)
      /\ remaining = Cardinality(WallSet(maze)) /\ idle = 0 /\ trials \in Nat
      /\ idle <= MaxTrials + XDim * YDim /\ at \in Spaces
  BY <1>1 DEF MakerInv, MakerTypeOK, DigInv
<1>3. PICK d \in Dirs :
        /\ Inside(at, d) /\ at' = Beyond(at, d)
        /\ maze' = [maze EXCEPT !.cell = [i \in Indices |->
                        IF i \in Dug(at, d) THEN MAZE_NONE ELSE @[i]]]
        /\ remaining' = IF IsWall(Beyond(at, d)) THEN remaining - 1 ELSE remaining
  BY DEF WormMoves
<1>4. PICK q : q = Beyond(at, d)
  OBVIOUS
<1>5. q \in Spaces /\ Index(q) \in Indices /\ Index(q) \in GridAt /\ q \in Int \X Int
  BY <1>2, <1>3, <1>4, MazeFacts, Places, SpaceFacts DEF Inside
<1>6. Index(Ahead(at, d)) \in GridAt /\ Index(Ahead(at, d)) \notin SpacesAt
  <2>1. Ahead(at, d) \in Grid /\ Ahead(at, d) \notin Spaces
    BY <1>2, <1>4, <1>5, AheadOfSpace
  <2>. QED
    BY <2>1, GridIndex, SpacesInGrid DEF GridAt, SpacesAt
<1>7. PICK D \in SUBSET GridAt : D = {Index(Ahead(at, d)), Index(q)}
  BY <1>5, <1>6
<1>8. maze' = [maze EXCEPT !.cell = DugOut(maze, D)]
  BY <1>3, <1>4, <1>7 DEF Dug, DugOut
<1>9. /\ maze' \in Mazes /\ Bounded(maze') /\ NoMarks(maze') /\ Plain(maze')
      /\ WallSet(maze') = {r \in WallSet(maze) : Index(r) \notin D}
  BY <1>2, <1>8, DigOut
<1>10. WallSet(maze') = WallSet(maze) \ {q}
  <2>1. ASSUME NEW r \in WallSet(maze)
        PROVE  Index(r) \in D <=> r = q
    <3>1. r \in Spaces
      BY DEF WallSet
    <3>2. Index(r) \in SpacesAt
      BY <3>1, SpaceFacts
    <3>3. Index(r) = Index(q) <=> r = q
      BY <1>5, <3>1, SameSpace
    <3>. QED
      BY <1>6, <1>7, <3>2, <3>3
  <2>. QED
    BY <1>9, <2>1
<1>11. IsWall(q) <=> q \in WallSet(maze)
  BY <1>5 DEF IsWall, WallSet
<1>12. Cardinality(WallSet(maze')) = remaining' /\ remaining' \in Int
  <2>1. IsFiniteSet(WallSet(maze)) /\ Cardinality(WallSet(maze)) \in Nat
    BY WallSetFacts
  <2>2. Cardinality(WallSet(maze) \ {q}) = IF q \in WallSet(maze) THEN Cardinality(WallSet(maze)) - 1
                                            ELSE Cardinality(WallSet(maze))
    BY <2>1, FS_RemoveElement
  <2>3. remaining' = IF q \in WallSet(maze) THEN remaining - 1 ELSE remaining
    <3>1. CASE IsWall(q)
      BY <1>3, <1>4, <1>11, <3>1
    <3>2. CASE ~IsWall(q)
      BY <1>3, <1>4, <1>11, <3>2
    <3>. QED
      BY <3>1, <3>2
  <2>. QED
    BY <1>2, <1>10, <2>1, <2>2, <2>3
<1>13. MakerTypeOK'
  BY <1>1, <1>2, <1>3, <1>4, <1>5, <1>9, <1>12 DEF MakerTypeOK, MakerPlaces
<1>. QED
  BY <1>1, <1>2, <1>3, <1>4, <1>5, <1>9, <1>12, <1>13 DEF MakerInv, DigInv, ConnectInv, DoneInv

LEMMA WormEndStep == MakerInv /\ WormEnds => MakerInv'
<1>. SUFFICES ASSUME MakerInv, WormEnds PROVE MakerInv'
  OBVIOUS
<1>1. /\ place = "worm" /\ place' = IF remaining > 0 THEN "drop" ELSE "mark"
      /\ maze' = maze /\ at' = at /\ remaining' = remaining
      /\ trials' = trials /\ idle' = idle
  BY DEF WormEnds
<1>2. maze \in Mazes /\ Bounded(maze) /\ Plain(maze) /\ NoMarks(maze)
      /\ remaining = Cardinality(WallSet(maze)) /\ idle = 0 /\ trials \in Nat
      /\ idle <= MaxTrials + XDim * YDim /\ at \in Spaces /\ at \in Int \X Int /\ remaining \in Int
  BY <1>1 DEF MakerInv, MakerTypeOK, DigInv
<1>3. ~(remaining > 0) => WallSet(maze) = {}
  <2>1. IsFiniteSet(WallSet(maze)) /\ Cardinality(WallSet(maze)) \in Nat
    BY WallSetFacts
  <2>2. Cardinality(WallSet(maze)) = 0 <=> WallSet(maze) = {}
    BY <2>1, FS_EmptySet
  <2>. QED
    BY <1>2, <2>1, <2>2
<1>4. MakerTypeOK'
  BY <1>1, <1>2 DEF MakerTypeOK, MakerPlaces
<1>5. CASE remaining > 0
  BY <1>1, <1>2, <1>4, <1>5 DEF MakerInv, DigInv, ConnectInv, DoneInv
<1>6. CASE ~(remaining > 0)
  BY <1>1, <1>2, <1>3, <1>4, <1>6 DEF MakerInv, DigInv, ConnectInv, DoneInv
<1>. QED
  BY <1>5, <1>6

----------------------------------------------------------------------------
(* The second phase: marking and joining. *)

\* S hangs together from p: a part of it that has p can be left within S.
Spreads(m, S, p) ==
    \A T \in SUBSET S : p \in T /\ T # S =>
        \E q \in T, d \in Dirs : Opening(m, q, d) /\ Beyond(q, d) \in S \ T

LEMMA Marking ==
  ASSUME NEW m \in Mazes, Bounded(m), NEW p \in Spaces
  PROVE  \E S \in SUBSET Spaces : LET w == MarkFrom(m, p) IN
           /\ w \in Mazes /\ Bounded(w)
           /\ Plain(m) => Plain(w)
           /\ MarksInside(m) => MarksInside(w)
           /\ WallSet(w) = WallSet(m)
           /\ MarkSet(w) = MarkSet(m) \cup S
           /\ \A q : \A d \in Dirs : Opening(w, q, d) <=> Opening(m, q, d)
           /\ Cardinality(Found(m, p)) = Cardinality(S)
           /\ p \in S
           /\ \A q \in S, d \in Dirs : Opening(m, q, d) => Beyond(q, d) \in MarkSet(w)
           /\ \A q \in S : q = p \/ q \notin MarkSet(m)
           /\ Spreads(m, S, p)
<1>. DEFINE w == MarkFrom(m, p)
<1>1. OfSize(m) /\ m.cell \in [Indices -> Cells]
  BY MazeFacts
<1>2. PICK S \in SUBSET Spaces :
           /\ Found(m, p) = {Index(q) : q \in S}
           /\ p \in S
           /\ \A q \in S, d \in Dirs :
                Opening(m, q, d) /\ ~m.cell[Index(Beyond(q, d))].reach => Beyond(q, d) \in S
           /\ \A q \in S : q = p \/ ~m.cell[Index(q)].reach
           /\ \A T \in SUBSET S : p \in T /\ T # S =>
                \E q \in T, d \in Dirs : Opening(m, q, d) /\ Beyond(q, d) \in S \ T
  BY <1>1, FoundIs
<1>. DEFINE F == Found(m, p)
            c == [i \in Indices |-> IF i \in F THEN [m.cell[i] EXCEPT !.reach = TRUE] ELSE m.cell[i]]
<1>3. F \subseteq SpacesAt /\ \A q \in Spaces : Index(q) \in F <=> q \in S
  BY <1>2, SameSpace DEF SpacesAt
<1>4. w = [m EXCEPT !.cell = c]
  BY DEF MarkFrom
<1>. HIDE DEF F
<1>5. \A e \in Cells : /\ [e EXCEPT !.reach = TRUE] \in Cells
                       /\ [e EXCEPT !.reach = TRUE].wall = e.wall
                       /\ [e EXCEPT !.reach = TRUE].fruit = e.fruit
                       /\ [e EXCEPT !.reach = TRUE].exit = e.exit
                       /\ [e EXCEPT !.reach = TRUE].reach
  BY DEF Cells
<1>6. c \in [Indices -> Cells]
  BY <1>1, <1>5
<1>7. w \in Mazes /\ w.cell = c
  <2>. HIDE DEF c, w
  <2>. QED
    BY <1>4, <1>6, WithCells
<1>. HIDE DEF w
<1>8. \A i \in Indices : /\ w.cell[i].wall = m.cell[i].wall
                         /\ w.cell[i].fruit = m.cell[i].fruit
                         /\ w.cell[i].exit = m.cell[i].exit
                         /\ w.cell[i].reach <=> i \in F \/ m.cell[i].reach
                         /\ i \notin F => w.cell[i] = m.cell[i]
  BY <1>1, <1>5, <1>7
<1>9. Bounded(w)
  BY <1>3, <1>8, PlacesInArray DEF Bounded
<1>10. Plain(m) => Plain(w)
  BY <1>8 DEF Plain
<1>11. MarksInside(m) => MarksInside(w)
  BY <1>3, <1>8 DEF MarksInside
<1>12. WallSet(w) = WallSet(m)
  BY <1>8, SpaceFacts DEF WallSet
<1>13. MarkSet(w) = MarkSet(m) \cup S
  BY <1>3, <1>8, SpaceFacts DEF MarkSet
<1>14. ASSUME NEW q, NEW d \in Dirs
       PROVE  Opening(w, q, d) <=> Opening(m, q, d)
  <2>1. OfSize(w)
    BY <1>7, MazeFacts
  <2>2. q \in Spaces => Index(Ahead(q, d)) \in Indices
    BY AheadOfSpace, IndexInArray
  <2>. QED
    BY <1>1, <1>8, <2>1, <2>2, OpeningIs
<1>15. Cardinality(F) = Cardinality(S)
  <2>1. S \in SUBSET Grid /\ IsFiniteSet(S)
    BY SpacesInGrid, SpacesCount, FS_Subset
  <2>. QED
    BY <1>2, <2>1, PlacesCount DEF F
<1>16. ASSUME NEW q \in S, NEW d \in Dirs, Opening(m, q, d)
       PROVE  Beyond(q, d) \in MarkSet(w)
  <2>1. Beyond(q, d) \in Spaces
    BY <1>1, <1>16, OpeningIs
  <2>. QED
    BY <1>2, <1>13, <1>16, <2>1 DEF MarkSet
<1>17. \A q \in S : q = p \/ q \notin MarkSet(m)
  BY <1>2 DEF MarkSet
<1>18. Spreads(m, S, p)
  BY <1>2 DEF Spreads
<1>. QED
  BY <1>2, <1>7, <1>9, <1>10, <1>11, <1>12, <1>13, <1>14, <1>15, <1>16, <1>17, <1>18 DEF w, F

\* From either side: what hangs together from p has no part without a way out.
LEMMA SpreadsTogether ==
  ASSUME NEW m, OfSize(m), NEW S \in SUBSET Spaces, NEW p \in S, Spreads(m, S, p),
         NEW T \in SUBSET S, T # {}, T # S
  PROVE  \E q \in T, d \in Dirs : Opening(m, q, d) /\ Beyond(q, d) \in S \ T
<1>1. CASE p \in T
  BY <1>1 DEF Spreads
<1>2. CASE p \notin T
  <2>1. S \ T \in SUBSET S /\ p \in S \ T /\ S \ T # S
    BY <1>2
  <2>2. PICK q \in S \ T, d \in Dirs : Opening(m, q, d) /\ Beyond(q, d) \in S \ (S \ T)
    BY <2>1 DEF Spreads
  <2>3. Reverse(d) \in Dirs /\ Opening(m, Beyond(q, d), Reverse(d))
        /\ Beyond(Beyond(q, d), Reverse(d)) = q
    BY <2>2, OpeningBack
  <2>. QED
    BY <2>2, <2>3
<1>. QED
  BY <1>1, <1>2

\* What hangs together and what hangs together from p, with an opening from p
\* to it, hang together.
LEMMA JoinTogether ==
  ASSUME NEW m, OfSize(m), NEW R \in SUBSET Spaces, HangsTogether(m, R),
         NEW S \in SUBSET Spaces, NEW p \in S, Spreads(m, S, p),
         NEW e \in Dirs, Opening(m, p, e), Beyond(p, e) \in R
  PROVE  HangsTogether(m, R \cup S)
<1>. SUFFICES ASSUME NEW T \in SUBSET (R \cup S), T # {}, T # R \cup S
              PROVE  \E q \in T, d \in Dirs : Opening(m, q, d) /\ Beyond(q, d) \in (R \cup S) \ T
  BY DEF HangsTogether
<1>1. PICK k \in R : k = Beyond(p, e)
  OBVIOUS
<1>2. Reverse(e) \in Dirs /\ Opening(m, k, Reverse(e)) /\ Beyond(k, Reverse(e)) = p
  BY <1>1, OpeningBack
<1>3. CASE T \cap R # {} /\ T \cap R # R
  <2>1. PICK q \in T \cap R, d \in Dirs : Opening(m, q, d) /\ Beyond(q, d) \in R \ (T \cap R)
    BY <1>3 DEF HangsTogether
  <2>. QED
    BY <2>1
<1>4. CASE R \subseteq T
  <2>1. CASE p \notin T
    BY <1>2, <1>4, <2>1
  <2>2. CASE p \in T
    <3>1. PICK U \in SUBSET S : U = T \cap S
      OBVIOUS
    <3>2. U # S /\ U # {}
      BY <1>4, <2>2, <3>1
    <3>3. PICK q \in U, d \in Dirs : Opening(m, q, d) /\ Beyond(q, d) \in S \ U
      BY <3>2, SpreadsTogether
    <3>. QED
      BY <3>1, <3>3
  <2>. QED
    BY <2>1, <2>2
<1>5. CASE T \cap R = {}
  <2>1. T \in SUBSET S
    BY <1>5
  <2>2. CASE p \in T
    BY <1>1, <1>5, <2>2
  <2>3. CASE p \notin T
    <3>1. PICK q \in T, d \in Dirs : Opening(m, q, d) /\ Beyond(q, d) \in S \ T
      BY <2>1, <2>3, SpreadsTogether
    <3>. QED
      BY <3>1
  <2>. QED
    BY <2>2, <2>3
<1>. QED
  BY <1>3, <1>4, <1>5

\* Hanging together is a matter of the openings.
LEMMA SameTogether ==
  ASSUME NEW m, NEW w, NEW S,
         \A q : \A d \in Dirs : Opening(m, q, d) => Opening(w, q, d),
         HangsTogether(m, S)
  PROVE  HangsTogether(w, S)
BY DEF HangsTogether

\* Marking from (1, 1) when nothing is marked.
LEMMA MarkFirst ==
  ASSUME NEW m \in Mazes, Bounded(m), NoMarks(m), Plain(m), WallSet(m) = {},
         NEW p \in Spaces, p = <<1, 1>>
  PROVE  LET w == MarkFrom(m, p)
         IN  /\ w \in Mazes /\ Bounded(w) /\ Plain(w) /\ MarksInside(w) /\ WallSet(w) = {}
             /\ Joined(w)
             /\ Cardinality(Found(m, p)) = Cardinality(MarkSet(w))
<1>. DEFINE w == MarkFrom(m, p)
<1>1. PICK S \in SUBSET Spaces :
           /\ w \in Mazes /\ Bounded(w)
           /\ Plain(m) => Plain(w)
           /\ MarksInside(m) => MarksInside(w)
           /\ WallSet(w) = WallSet(m)
           /\ MarkSet(w) = MarkSet(m) \cup S
           /\ \A q : \A d \in Dirs : Opening(w, q, d) <=> Opening(m, q, d)
           /\ Cardinality(Found(m, p)) = Cardinality(S)
           /\ p \in S
           /\ \A q \in S, d \in Dirs : Opening(m, q, d) => Beyond(q, d) \in MarkSet(w)
           /\ \A q \in S : q = p \/ q \notin MarkSet(m)
           /\ Spreads(m, S, p)
  BY Marking
<1>. HIDE DEF w
<1>2. MarkSet(m) = {} /\ MarksInside(m)
  BY SpaceFacts DEF NoMarks, MarkSet, MarksInside
<1>3. MarkSet(w) = S
  BY <1>1, <1>2
<1>4. HangsTogether(m, S)
  <2>1. OfSize(m) /\ p \in S /\ Spreads(m, S, p)
    BY <1>1, MazeFacts
  <2>2. \A T \in SUBSET S : T # {} /\ T # S =>
          \E q \in T, d \in Dirs : Opening(m, q, d) /\ Beyond(q, d) \in S \ T
    BY <2>1, SpreadsTogether
  <2>. QED
    BY <2>2 DEF HangsTogether
<1>5. HangsTogether(w, S)
  BY <1>1, <1>4, SameTogether
<1>6. \A q \in S, d \in Dirs : Opening(w, q, d) => Beyond(q, d) \in MarkSet(w)
  BY <1>1
<1>7. Joined(w)
  BY <1>1, <1>3, <1>5, <1>6 DEF Joined
<1>. QED
  BY <1>1, <1>2, <1>3, <1>7 DEF w

\* Marking from a space that is not marked, after the wall to one that is.
LEMMA MarkNext ==
  ASSUME NEW m \in Mazes, Bounded(m), Plain(m), MarksInside(m), WallSet(m) = {}, Joined(m),
         NEW p \in Spaces \ MarkSet(m), NEW e \in Dirs, Beyond(p, e) \in MarkSet(m)
  PROVE  LET o == [m EXCEPT !.cell[Index(Ahead(p, e))] = MAZE_NONE]
             w == MarkFrom(o, p)
         IN  /\ w \in Mazes /\ Bounded(w) /\ Plain(w) /\ MarksInside(w) /\ WallSet(w) = {}
             /\ Joined(w)
             /\ MarkSet(m) \subseteq MarkSet(w)
             /\ Cardinality(Found(o, p)) = Cardinality(Spaces \ MarkSet(m)) - Cardinality(Spaces \ MarkSet(w))
             /\ Cardinality(Found(o, p)) \in Nat \ {0}
<1>. DEFINE k == Index(Ahead(p, e))
            o == [m EXCEPT !.cell[k] = MAZE_NONE]
            w == MarkFrom(o, p)
            R == MarkSet(m)
<1>1. R \in SUBSET Spaces /\ OfSize(m) /\ m.cell \in [Indices -> Cells]
  BY MazeFacts DEF MarkSet
<1>2. k \in GridAt /\ k \notin SpacesAt /\ k \in Indices
  <2>1. Ahead(p, e) \in Grid /\ Ahead(p, e) \notin Spaces
    BY <1>1, AheadOfSpace
  <2>. QED
    BY <2>1, GridIndex, SpacesInGrid, PlacesInArray DEF GridAt, SpacesAt
<1>3. PICK D \in SUBSET GridAt : D = {k} /\ D \cap SpacesAt = {}
  BY <1>2
<1>. HIDE DEF k
<1>4. o = [m EXCEPT !.cell = DugOut(m, D)]
  BY <1>2, <1>3, DigOne
<1>5. /\ o \in Mazes /\ Bounded(o) /\ o.cell = DugOut(m, D)
      /\ MarksInside(o) /\ Plain(o) /\ WallSet(o) = {} /\ MarkSet(o) = R
  BY <1>3, <1>4, DigOut
<1>. HIDE DEF o
<1>6. PICK S \in SUBSET Spaces :
           /\ w \in Mazes /\ Bounded(w)
           /\ Plain(o) => Plain(w)
           /\ MarksInside(o) => MarksInside(w)
           /\ WallSet(w) = WallSet(o)
           /\ MarkSet(w) = MarkSet(o) \cup S
           /\ \A q : \A d \in Dirs : Opening(w, q, d) <=> Opening(o, q, d)
           /\ Cardinality(Found(o, p)) = Cardinality(S)
           /\ p \in S
           /\ \A q \in S, d \in Dirs : Opening(o, q, d) => Beyond(q, d) \in MarkSet(w)
           /\ \A q \in S : q = p \/ q \notin MarkSet(o)
           /\ Spreads(o, S, p)
  BY <1>5, Marking
<1>. HIDE DEF w
<1>7. MarkSet(w) = R \cup S /\ R \cap S = {}
  BY <1>5, <1>6
<1>8. \A i \in Indices : o.cell[i] = IF i = k THEN MAZE_NONE ELSE m.cell[i]
  BY <1>3, <1>5 DEF DugOut
<1>9. OfSize(o)
  BY <1>5, MazeFacts
<1>10. Opening(o, p, e) /\ Beyond(p, e) \in R
  <2>1. o.cell[Index(Ahead(p, e))] = MAZE_NONE
    BY <1>2, <1>8 DEF k
  <2>. QED
    BY <1>1, <1>9, <2>1, CellFacts, OpeningIs
<1>11. ASSUME NEW q, NEW d \in Dirs, Opening(m, q, d)
       PROVE  Opening(o, q, d)
  <2>1. q \in Spaces /\ Index(Ahead(q, d)) \in Indices /\ Beyond(q, d) \in Spaces
        /\ ~m.cell[Index(Ahead(q, d))].wall
    BY <1>1, <1>11, OpeningIs, AheadOfSpace, IndexInArray
  <2>2. ~o.cell[Index(Ahead(q, d))].wall
    BY <1>8, <2>1, CellFacts
  <2>. QED
    BY <1>9, <2>1, <2>2, OpeningIs
<1>12. HangsTogether(o, R)
  BY <1>11, SameTogether DEF Joined
<1>13. HangsTogether(o, R \cup S)
  BY <1>1, <1>6, <1>9, <1>10, <1>12, JoinTogether
<1>14. HangsTogether(w, R \cup S)
  BY <1>6, <1>13, SameTogether
<1>15. ASSUME NEW q \in R \cup S, NEW d \in Dirs, Opening(w, q, d)
       PROVE  Beyond(q, d) \in R \cup S
  <2>1. Opening(o, q, d)
    BY <1>6, <1>15
  <2>2. CASE q \in S
    BY <1>6, <1>7, <2>1, <2>2
  <2>3. CASE q \in R
    <3>1. q \in Spaces /\ Beyond(q, d) \in Spaces /\ ~o.cell[Index(Ahead(q, d))].wall
          /\ Index(Ahead(q, d)) \in Indices
      BY <1>1, <1>9, <2>1, <2>3, OpeningIs, AheadOfSpace, IndexInArray
    <3>2. CASE Index(Ahead(q, d)) # k
      <4>1. Opening(m, q, d)
        BY <1>1, <1>8, <3>1, <3>2, OpeningIs
      <4>. QED
        BY <2>3, <4>1 DEF Joined
    <3>3. CASE Index(Ahead(q, d)) = k
      <4>1. Ahead(q, d) = Ahead(p, e)
        <5>1. Ahead(q, d) \in Grid /\ Ahead(p, e) \in Grid
          BY <1>1, <3>1, AheadOfSpace
        <5>. QED
          BY <3>3, <5>1, GridIndex DEF k
      <4>2. Beyond(q, d) = p \/ Beyond(q, d) = Beyond(p, e)
        BY <3>1, <4>1, SameWall
      <4>. QED
        BY <1>6, <1>10, <4>2
    <3>. QED
      BY <3>2, <3>3
  <2>. QED
    BY <2>2, <2>3
<1>16. Joined(w)
  BY <1>7, <1>14, <1>15 DEF Joined
<1>17. /\ Cardinality(S) = Cardinality(Spaces \ R) - Cardinality(Spaces \ MarkSet(w))
       /\ Cardinality(S) \in Nat \ {0}
  <2>1. IsFiniteSet(S) /\ S # {}
    BY <1>6, SpacesCount, FS_Subset
  <2>2. Cardinality(S) \in Nat \ {0}
    BY <2>1, FS_CardinalityType, FS_EmptySet
  <2>3. Spaces \ MarkSet(w) = (Spaces \ R) \ S /\ (Spaces \ R) \cap S = S
    BY <1>7
  <2>4. IsFiniteSet(Spaces \ R) /\ Cardinality(Spaces \ R) \in Nat
    BY WallSetFacts
  <2>5. Cardinality((Spaces \ R) \ S) = Cardinality(Spaces \ R) - Cardinality(S)
    BY <2>3, <2>4, FS_Difference
  <2>. HIDE DEF R
  <2>6. Cardinality(Spaces \ MarkSet(w)) = Cardinality(Spaces \ R) - Cardinality(S)
    BY <2>3, <2>5
  <2>. QED
    BY <2>2, <2>4, <2>6
<1>. QED
  BY <1>5, <1>6, <1>7, <1>16, <1>17 DEF w, o, k

----------------------------------------------------------------------------
(* The scan comes to every space. *)

LEMMA RankIs ==
  ASSUME NEW p \in Spaces
  PROVE  \E a \in 0 .. XDim - 1, b \in 0 .. YDim - 1 :
           /\ p = <<2 * a + 1, 2 * b + 1>>
           /\ Rank(p) = a + b * XDim
           /\ Rank(p) \in 0 .. XDim * YDim - 1
<1>1. PICK x \in Odd(XDim), y \in Odd(YDim) : p = <<x, y>>
  BY DEF Spaces
<1>2. XDim \in Nat \ {0} /\ YDim \in Nat \ {0}
  BY Sizes
<1>3. x \in Int /\ y \in Int
  BY DEF Odd
<1>4. PICK a \in 0 .. XDim - 1, b \in 0 .. YDim - 1 : x = 2 * a + 1 /\ y = 2 * b + 1
  <2>1. \E a \in 0 .. XDim - 1 : x = 2 * a + 1
    BY <1>2, <1>3, OddIs
  <2>2. \E b \in 0 .. YDim - 1 : y = 2 * b + 1
    BY <1>2, <1>3, OddIs
  <2>. QED
    BY <2>1, <2>2
<1>5. (x - 1) \div 2 = a /\ (y - 1) \div 2 = b
  BY <1>2, <1>4
<1>6. Rank(p) = a + b * XDim
  BY <1>1, <1>5 DEF Rank
<1>7. 0 * XDim <= b * XDim /\ b * XDim <= (YDim - 1) * XDim /\ b * XDim \in Int
  BY <1>2, RowsIncrease
<1>8. (YDim - 1) * XDim = XDim * YDim - XDim /\ 0 * XDim = 0 /\ XDim * YDim \in Int
  BY <1>2
<1>9. Rank(p) \in 0 .. XDim * YDim - 1
  BY <1>2, <1>6, <1>7, <1>8
<1>. QED
  BY <1>1, <1>4, <1>6, <1>9

LEMMA SameRank ==
  ASSUME NEW p \in Spaces, NEW q \in Spaces, Rank(p) = Rank(q)
  PROVE  p = q
<1>1. PICK a \in 0 .. XDim - 1, b \in 0 .. YDim - 1 :
        p = <<2 * a + 1, 2 * b + 1>> /\ Rank(p) = a + b * XDim
  BY RankIs
<1>2. PICK c \in 0 .. XDim - 1, d \in 0 .. YDim - 1 :
        q = <<2 * c + 1, 2 * d + 1>> /\ Rank(q) = c + d * XDim
  BY RankIs
<1>3. a + b * XDim = c + d * XDim
  BY <1>1, <1>2
<1>4. XDim \in Nat \ {0} /\ YDim \in Nat
  BY Sizes
<1>5. b \in Int /\ d \in Int
  BY <1>4
<1>6. a = c /\ b = d
  BY <1>3, <1>4, <1>5, OnePlace
<1>. QED
  BY <1>1, <1>2, <1>6

\* A step of the scan is one up in rank, from the last back to the first.
LEMMA ScanRank ==
  ASSUME at \in Spaces
  PROVE  /\ ScanNext \in Spaces
         /\ Rank(ScanNext) = IF Rank(at) = XDim * YDim - 1 THEN 0 ELSE Rank(at) + 1
<1>1. PICK a \in 0 .. XDim - 1, b \in 0 .. YDim - 1 :
        at = <<2 * a + 1, 2 * b + 1>> /\ Rank(at) = a + b * XDim
  BY RankIs
<1>2. XDim \in Nat \ {0} /\ YDim \in Nat \ {0}
  BY Sizes
<1>3. ASSUME NEW c \in 0 .. XDim - 1, NEW d \in 0 .. YDim - 1
      PROVE  <<2 * c + 1, 2 * d + 1>> \in Spaces /\ Rank(<<2 * c + 1, 2 * d + 1>>) = c + d * XDim
  <2>1. 2 * c + 1 \in Odd(XDim) /\ 2 * d + 1 \in Odd(YDim)
    BY <1>2, OddIs
  <2>2. ((2 * c + 1) - 1) \div 2 = c /\ ((2 * d + 1) - 1) \div 2 = d
    BY <1>2
  <2>. QED
    BY <2>1, <2>2 DEF Spaces, Rank
<1>4. 0 * XDim <= b * XDim /\ b * XDim <= (YDim - 1) * XDim /\ b * XDim \in Int
  BY <1>2, RowsIncrease
<1>5. (YDim - 1) * XDim = XDim * YDim - XDim /\ 0 * XDim = 0 /\ XDim * YDim \in Int
  BY <1>2
<1>6. CASE a < XDim - 1
  <2>1. ScanNext = <<2 * (a + 1) + 1, 2 * b + 1>>
    BY <1>1, <1>2, <1>6 DEF ScanNext
  <2>2. a + 1 \in 0 .. XDim - 1
    BY <1>2, <1>6
  <2>3. ScanNext \in Spaces /\ Rank(ScanNext) = (a + 1) + b * XDim
    BY <1>3, <2>1, <2>2
  <2>. QED
    BY <1>1, <1>2, <1>4, <1>5, <1>6, <2>3
<1>7. CASE a = XDim - 1 /\ b < YDim - 1
  <2>1. ScanNext = <<2 * 0 + 1, 2 * (b + 1) + 1>>
    BY <1>1, <1>2, <1>7 DEF ScanNext
  <2>2. b + 1 \in 0 .. YDim - 1 /\ 0 \in 0 .. XDim - 1
    BY <1>2, <1>7
  <2>3. ScanNext \in Spaces /\ Rank(ScanNext) = 0 + (b + 1) * XDim
    BY <1>3, <2>1, <2>2
  <2>4. (b + 1) * XDim = b * XDim + XDim
    BY <1>2
  <2>5. b * XDim + XDim <= (YDim - 1) * XDim
    <3>1. b + 1 <= YDim - 1
      BY <1>2, <1>7
    <3>2. PICK c \in Int : c = b + 1
      OBVIOUS
    <3>3. c * XDim <= (YDim - 1) * XDim
      BY <1>2, <3>1, <3>2, RowsIncrease
    <3>. QED
      BY <2>4, <3>2, <3>3
  <2>. QED
    BY <1>1, <1>2, <1>4, <1>5, <1>7, <2>3, <2>4, <2>5
<1>8. CASE a = XDim - 1 /\ b = YDim - 1
  <2>1. ScanNext = <<2 * 0 + 1, 2 * 0 + 1>>
    BY <1>1, <1>2, <1>8 DEF ScanNext
  <2>2. 0 \in 0 .. YDim - 1 /\ 0 \in 0 .. XDim - 1
    BY <1>2
  <2>3. ScanNext \in Spaces /\ Rank(ScanNext) = 0 + 0 * XDim
    BY <1>3, <2>1, <2>2
  <2>4. Rank(at) = XDim * YDim - 1
    BY <1>1, <1>2, <1>5, <1>8
  <2>. QED
    BY <1>5, <2>3, <2>4
<1>. QED
  BY <1>2, <1>6, <1>7, <1>8

\* At every moment the scan was at a space some steps ago.
LEMMA SinceRange ==
  ASSUME NEW p \in Spaces, NEW q \in Spaces
  PROVE  StepsSince(Rank(p), q) \in 0 .. XDim * YDim - 1
<1>. DEFINE N == XDim * YDim
<1>1. PICK r \in 0 .. N - 1 : r = Rank(p)
  BY RankIs
<1>2. PICK k \in 0 .. N - 1 : k = Rank(q)
  BY RankIs
<1>3. StepsSince(r, q) = IF k <= r THEN r - k ELSE r - k + N
  BY <1>2 DEF StepsSince
<1>4. N \in Int
  BY Sizes
<1>. HIDE DEF N
<1>5. StepsSince(r, q) \in 0 .. N - 1
  BY <1>3, <1>4
<1>. QED
  BY <1>1, <1>5 DEF N

\* After a step to a stuck space one more of the latest is stuck.
LEMMA ScanGoesOn ==
  ASSUME at \in Spaces, NEW m, NEW s \in Nat, Stuck(m, ScanNext),
         \A p \in Spaces : StepsSince(Rank(at), p) < s => Stuck(m, p)
  PROVE  \A p \in Spaces : StepsSince(Rank(ScanNext), p) < s + 1 => Stuck(m, p)
<1>. SUFFICES ASSUME NEW p \in Spaces, StepsSince(Rank(ScanNext), p) < s + 1
              PROVE  Stuck(m, p)
  OBVIOUS
<1>1. CASE p = ScanNext
  BY <1>1
<1>2. CASE p # ScanNext
  <2>. DEFINE N == XDim * YDim
  <2>1. PICK r \in 0 .. N - 1 : r = Rank(at)
    BY RankIs
  <2>2. PICK k \in 0 .. N - 1 : k = Rank(p)
    BY RankIs
  <2>3. PICK t \in Int : t = Rank(ScanNext) /\ t = IF r = N - 1 THEN 0 ELSE r + 1
    BY <2>1, ScanRank
  <2>4. k # t
    BY <1>2, <2>2, <2>3, SameRank, ScanRank
  <2>5. StepsSince(t, p) = IF k <= t THEN t - k ELSE t - k + N
    BY <2>2 DEF StepsSince
  <2>6. StepsSince(r, p) = IF k <= r THEN r - k ELSE r - k + N
    BY <2>2 DEF StepsSince
  <2>7. N \in Int
    BY Sizes
  <2>8. StepsSince(t, p) < s + 1
    BY <2>3
  <2>. HIDE DEF N
  <2>9. StepsSince(r, p) < s
    BY <2>1, <2>2, <2>3, <2>4, <2>5, <2>6, <2>7, <2>8
  <2>. QED
    BY <2>1, <2>9
<1>. QED
  BY <1>1, <1>2

\* While a space is not marked, one that is not has a marked one next to it.
LEMMA SomeJoin ==
  ASSUME NEW m, <<1, 1>> \in MarkSet(m), NEW p \in Spaces \ MarkSet(m)
  PROVE  \E q \in Spaces : ~Stuck(m, q)
<1>. DEFINE S == {q[1] + q[2] : q \in Spaces \ MarkSet(m)}
<1>1. S \in SUBSET Nat /\ S # {}
  <2>1. \A q \in Spaces : q[1] + q[2] \in Nat
    BY Sizes DEF Spaces, Odd
  <2>. QED
    BY <2>1
<1>2. PICK n \in S : \A k \in S : n <= k
  BY <1>1, LeastNumber
<1>3. PICK q \in Spaces \ MarkSet(m) : n = q[1] + q[2]
  BY <1>2
<1>4. PICK x \in Odd(XDim), y \in Odd(YDim) : q = <<x, y>>
  BY <1>3 DEF Spaces
<1>5. x \in Nat /\ y \in Nat /\ XDim \in Nat /\ YDim \in Nat
  BY Sizes DEF Odd
<1>6. q \in Int \X Int /\ q[1] = x /\ q[2] = y
  BY <1>4, <1>5
<1>7. x - 1 - 1 \in Odd(XDim) \/ x = 1
  BY <1>5, OddSteps
<1>8. y - 1 - 1 \in Odd(YDim) \/ y = 1
  BY <1>5, OddSteps
<1>9. DIR_UP \in Dirs /\ DIR_LEFT \in Dirs
  BY DEF Dirs, NUM_DIRS, DIR_UP, DIR_LEFT
<1>10. ASSUME NEW r \in Spaces, r[1] + r[2] < n
       PROVE  r \in MarkSet(m)
  <2>1. SUFFICES ASSUME r \notin MarkSet(m) PROVE FALSE
    OBVIOUS
  <2>2. r[1] + r[2] \in S
    BY <2>1
  <2>3. n <= r[1] + r[2]
    BY <1>2, <2>2
  <2>. QED
    BY <1>1, <1>2, <1>10, <2>2, <2>3
<1>11. CASE x - 1 - 1 \in Odd(XDim)
  <2>1. Beyond(q, DIR_LEFT) = <<x - 1 - 1, y>>
    BY <1>6, <1>9, AheadIs
  <2>2. <<x - 1 - 1, y>> \in Spaces
    BY <1>4, <1>11 DEF Spaces
  <2>3. <<x - 1 - 1, y>>[1] + <<x - 1 - 1, y>>[2] < n
    BY <1>3, <1>5, <1>6
  <2>4. Beyond(q, DIR_LEFT) \in MarkSet(m)
    BY <1>10, <2>1, <2>2, <2>3
  <2>. QED
    BY <1>3, <1>9, <2>4 DEF Stuck
<1>12. CASE y - 1 - 1 \in Odd(YDim)
  <2>1. Beyond(q, DIR_UP) = <<x, y - 1 - 1>>
    BY <1>6, <1>9, AheadIs
  <2>2. <<x, y - 1 - 1>> \in Spaces
    BY <1>4, <1>12 DEF Spaces
  <2>3. <<x, y - 1 - 1>>[1] + <<x, y - 1 - 1>>[2] < n
    BY <1>3, <1>5, <1>6
  <2>4. Beyond(q, DIR_UP) \in MarkSet(m)
    BY <1>10, <2>1, <2>2, <2>3
  <2>. QED
    BY <1>3, <1>9, <2>4 DEF Stuck
<1>13. CASE x = 1 /\ y = 1
  BY <1>3, <1>4, <1>13
<1>. QED
  BY <1>7, <1>8, <1>11, <1>12, <1>13

----------------------------------------------------------------------------
(* The second phase keeps the invariant. *)

LEMMA OneOne == <<1, 1>> \in Spaces
<1>1. 1 \in Odd(XDim) /\ 1 \in Odd(YDim)
  BY Sizes DEF Odd
<1>. QED
  BY <1>1 DEF Spaces

LEMMA MarkStep == MakerInv /\ Mark => MakerInv'
<1>. SUFFICES ASSUME MakerInv, Mark PROVE MakerInv'
  OBVIOUS
<1>. DEFINE p == <<1, 1>>
<1>1. /\ place = "mark" /\ place' = "connect" /\ trials' = 0 /\ at' = at /\ idle' = idle
      /\ maze' = MarkFrom(maze, p)
      /\ remaining' = XDim * YDim - Cardinality(Found(maze, p))
  BY DEF Mark
<1>2. /\ maze \in Mazes /\ Bounded(maze) /\ Plain(maze) /\ NoMarks(maze) /\ WallSet(maze) = {}
      /\ at \in Spaces /\ at \in Int \X Int /\ idle = 0 /\ idle <= MaxTrials + XDim * YDim
  BY <1>1 DEF MakerInv, MakerTypeOK, DigInv
<1>3. p \in Spaces
  BY OneOne
<1>4. /\ maze' \in Mazes /\ Bounded(maze') /\ Plain(maze') /\ MarksInside(maze') /\ WallSet(maze') = {}
      /\ Joined(maze')
      /\ Cardinality(Found(maze, p)) = Cardinality(MarkSet(maze'))
  BY <1>1, <1>2, <1>3, MarkFirst
<1>5. remaining' = Cardinality(Spaces \ MarkSet(maze')) /\ remaining' \in Int
  <2>1. Spaces \cap MarkSet(maze') = MarkSet(maze')
    BY DEF MarkSet
  <2>2. Cardinality(Spaces \ MarkSet(maze')) = Cardinality(Spaces) - Cardinality(MarkSet(maze'))
    BY <2>1, SpacesCount, FS_Difference
  <2>3. Cardinality(Spaces \ MarkSet(maze')) \in Nat
    BY WallSetFacts
  <2>. QED
    BY <1>1, <1>4, <2>2, <2>3, SpacesCount
<1>6. MakerTypeOK'
  BY <1>1, <1>2, <1>4, <1>5 DEF MakerTypeOK, MakerPlaces
<1>7. ScanRight'
  <2>1. XDim * YDim \in Nat
    BY Sizes
  <2>2. \A q \in Spaces : ~(StepsSince(Rank(at'), q) < 0)
    BY <1>1, <1>2, <2>1, SinceRange
  <2>3. idle' <= MaxTrials + 0 /\ idle' <= trials' /\ idle' = 0
    BY <1>1, <1>2, TrialAssumption
  <2>4. 0 \in 0 .. XDim * YDim
    BY <2>1
  <2>. QED
    BY <2>2, <2>3, <2>4 DEF ScanRight
<1>. QED
  BY <1>1, <1>2, <1>4, <1>5, <1>6, <1>7 DEF MakerInv, DigInv, ConnectInv, DoneInv

\* What a round leaves, whether it joined a space or not.
LEMMA RoundEnds ==
  ASSUME place = "connect", LoopEnds,
         maze' \in Mazes, Bounded(maze'), Plain(maze'), MarksInside(maze'), WallSet(maze') = {},
         Joined(maze'), at' \in Spaces, trials' \in Nat, idle' \in Nat,
         remaining' = Cardinality(Spaces \ MarkSet(maze')),
         idle' <= MaxTrials + XDim * YDim,
         remaining' > 0 => ScanRight'
  PROVE  MakerInv'
<1>1. remaining' \in Nat
  BY WallSetFacts
<1>2. place' = IF remaining' > 0 THEN "connect" ELSE "clear"
  BY DEF LoopEnds
<1>3. at' \in Int \X Int
  BY SpaceFacts
<1>4. MakerTypeOK'
  BY <1>1, <1>2, <1>3 DEF MakerTypeOK, MakerPlaces
<1>5. CASE remaining' > 0
  BY <1>2, <1>4, <1>5 DEF MakerInv, DigInv, ConnectInv, DoneInv
<1>6. CASE ~(remaining' > 0)
  <2>1. Spaces \ MarkSet(maze') = {}
    <3>1. Cardinality(Spaces \ MarkSet(maze')) = 0
      BY <1>1, <1>6
    <3>2. IsFiniteSet(Spaces \ MarkSet(maze'))
      BY WallSetFacts
    <3>. QED
      BY <3>1, <3>2, FS_EmptySet
  <2>2. MarkSet(maze') = Spaces
    BY <2>1 DEF MarkSet
  <2>3. HangsTogether(maze', Spaces)
    BY <2>2 DEF Joined
  <2>. QED
    BY <1>2, <1>4, <1>6, <2>3 DEF MakerInv, DigInv, ConnectInv, DoneInv
<1>. QED
  BY <1>5, <1>6

\* What the second phase knows when a round begins.
LEMMA RoundBegins ==
  ASSUME MakerInv, place = "connect"
  PROVE  /\ maze \in Mazes /\ Bounded(maze) /\ Plain(maze) /\ MarksInside(maze) /\ WallSet(maze) = {}
         /\ Joined(maze) /\ at \in Spaces /\ trials \in Nat /\ idle \in Nat
         /\ remaining = Cardinality(Spaces \ MarkSet(maze)) /\ remaining \in Nat
         /\ idle <= MaxTrials + XDim * YDim
         /\ ScanRight
         /\ XDim * YDim \in Nat /\ XDim * YDim > 0 /\ MaxTrials \in Nat /\ ScanBelow \in Nat
<1>1. remaining = Cardinality(Spaces \ MarkSet(maze))
  BY DEF MakerInv, ConnectInv
<1>2. remaining \in Nat
  BY <1>1, WallSetFacts
<1>3. XDim * YDim \in Nat /\ XDim * YDim > 0
  BY Sizes, RequestAssumption
<1>. QED
  BY <1>1, <1>2, <1>3, TrialAssumption DEF MakerInv, MakerTypeOK, ConnectInv

\* A round of the scan that joins nothing.
LEMMA IdleScan ==
  ASSUME MakerInv, place = "connect", Trial, Scans, at' = ScanNext, Stuck(maze, ScanNext),
         maze' = maze, remaining' = remaining, LoopEnds
  PROVE  MakerInv'
<1>. DEFINE N == XDim * YDim
<1>1. /\ maze \in Mazes /\ Bounded(maze) /\ Plain(maze) /\ MarksInside(maze) /\ WallSet(maze) = {}
      /\ Joined(maze) /\ at \in Spaces /\ trials \in Nat /\ idle \in Nat
      /\ remaining = Cardinality(Spaces \ MarkSet(maze)) /\ remaining \in Nat
      /\ idle <= MaxTrials + N
      /\ ScanRight
      /\ N \in Nat /\ N > 0 /\ MaxTrials \in Nat /\ ScanBelow \in Nat
  BY RoundBegins
<1>2. at' \in Spaces
  BY <1>1, ScanRank
<1>3. idle' = idle + 1 /\ idle' \in Nat
  BY <1>1 DEF LoopEnds
<1>4. trials' \in Nat /\ Scans'
  BY <1>1 DEF Trial, Scans
<1>5. PICK s \in 0 .. N - 1 :
         /\ idle <= MaxTrials + s
         /\ \A p \in Spaces : StepsSince(Rank(at), p) < s => Stuck(maze, p)
  <2>1. PICK s \in 0 .. N :
         /\ idle <= MaxTrials + s
         /\ \A p \in Spaces : StepsSince(Rank(at), p) < s => Stuck(maze, p)
    BY <1>1 DEF ScanRight
  <2>2. \A p \in Spaces : StepsSince(Rank(at), p) \in 0 .. N - 1
    BY <1>1, SinceRange
  <2>3. CASE s # N
    BY <1>1, <2>1, <2>3
  <2>4. CASE s = N
    <3>1. \A p \in Spaces : Stuck(maze, p)
      BY <1>1, <2>1, <2>2, <2>4
    <3>2. Spaces \ MarkSet(maze) = {}
      BY <1>1, <3>1, SomeJoin DEF Joined
    <3>3. remaining = 0
      BY <1>1, <3>2, FS_EmptySet
    <3>4. idle = 0
      BY <1>1, <3>3 DEF ScanRight
    <3>5. \A p \in Spaces : ~(StepsSince(Rank(at), p) < 0)
      BY <1>1, <2>2
    <3>6. 0 \in 0 .. N - 1 /\ idle <= MaxTrials + 0
      BY <1>1, <3>4
    <3>. QED
      BY <3>5, <3>6
  <2>. QED
    BY <2>3, <2>4
<1>6. s + 1 \in 0 .. N /\ s \in Nat /\ idle' <= MaxTrials + (s + 1) /\ idle' <= MaxTrials + N
  BY <1>1, <1>3, <1>5
<1>7. \A p \in Spaces : StepsSince(Rank(at'), p) < s + 1 => Stuck(maze', p)
  BY <1>1, <1>5, <1>6, ScanGoesOn
<1>8. remaining' > 0 => ScanRight'
  BY <1>4, <1>6, <1>7 DEF ScanRight
<1>. QED
  BY <1>1, <1>2, <1>3, <1>4, <1>6, <1>8, RoundEnds

\* A random trial that joins nothing.
LEMMA IdlePick ==
  ASSUME MakerInv, place = "connect", Trial, ~Scans, at' \in Spaces,
         maze' = maze, remaining' = remaining, LoopEnds
  PROVE  MakerInv'
<1>. DEFINE N == XDim * YDim
<1>1. /\ maze \in Mazes /\ Bounded(maze) /\ Plain(maze) /\ MarksInside(maze) /\ WallSet(maze) = {}
      /\ Joined(maze) /\ at \in Spaces /\ trials \in Nat /\ idle \in Nat
      /\ remaining = Cardinality(Spaces \ MarkSet(maze)) /\ remaining \in Nat
      /\ idle <= MaxTrials + N
      /\ ScanRight
      /\ N \in Nat /\ N > 0 /\ MaxTrials \in Nat /\ ScanBelow \in Nat
  BY RoundBegins
<1>2. idle' = idle + 1 /\ idle' \in Nat
  BY <1>1 DEF LoopEnds
<1>3. trials' = trials + 1 /\ trials' <= MaxTrials /\ trials' \in Nat
  BY <1>1 DEF Trial, Scans
<1>4. idle' <= trials' /\ idle' <= MaxTrials + 0 /\ idle' <= MaxTrials + N
  BY <1>1, <1>2, <1>3 DEF ScanRight
<1>5. \A q \in Spaces : ~(StepsSince(Rank(at'), q) < 0)
  BY <1>1, SinceRange
<1>6. 0 \in 0 .. N
  BY <1>1
<1>7. remaining' > 0 => ScanRight'
  BY <1>4, <1>5, <1>6 DEF ScanRight
<1>. QED
  BY <1>1, <1>2, <1>3, <1>4, <1>7, RoundEnds

\* A round that joins a space.
LEMMA Joins ==
  ASSUME MakerInv, place = "connect", Trial, LoopEnds,
         NEW p \in Spaces \ MarkSet(maze), at' = p,
         NEW e \in Dirs, Beyond(p, e) \in MarkSet(maze),
         NEW o, o = [maze EXCEPT !.cell[Index(Ahead(p, e))] = MAZE_NONE],
         maze' = MarkFrom(o, p),
         remaining' = remaining - Cardinality(Found(o, p))
  PROVE  MakerInv'
<1>. DEFINE N == XDim * YDim
<1>1. /\ maze \in Mazes /\ Bounded(maze) /\ Plain(maze) /\ MarksInside(maze) /\ WallSet(maze) = {}
      /\ Joined(maze) /\ at \in Spaces /\ trials \in Nat /\ idle \in Nat
      /\ remaining = Cardinality(Spaces \ MarkSet(maze)) /\ remaining \in Nat
      /\ idle <= MaxTrials + N
      /\ ScanRight
      /\ N \in Nat /\ N > 0 /\ MaxTrials \in Nat /\ ScanBelow \in Nat
  BY RoundBegins
<1>2. /\ maze' \in Mazes /\ Bounded(maze') /\ Plain(maze') /\ MarksInside(maze') /\ WallSet(maze') = {}
      /\ Joined(maze')
      /\ Cardinality(Found(o, p)) = Cardinality(Spaces \ MarkSet(maze)) - Cardinality(Spaces \ MarkSet(maze'))
      /\ Cardinality(Found(o, p)) \in Nat \ {0}
  BY <1>1, MarkNext
<1>3. Cardinality(Spaces \ MarkSet(maze')) \in Nat
  BY WallSetFacts
<1>4. remaining' = Cardinality(Spaces \ MarkSet(maze')) /\ remaining' < remaining /\ remaining' \in Nat
  BY <1>1, <1>2, <1>3
<1>5. idle' = 0
  BY <1>4 DEF LoopEnds
<1>6. trials' \in Nat
  BY <1>1 DEF Trial
<1>7. idle' <= MaxTrials + 0 /\ idle' <= MaxTrials + N /\ idle' <= trials'
  BY <1>1, <1>5, <1>6
<1>8. at' \in Spaces
  OBVIOUS
<1>9. \A q \in Spaces : ~(StepsSince(Rank(at'), q) < 0)
  BY <1>1, <1>8, SinceRange
<1>10. 0 \in 0 .. N
  BY <1>1
<1>11. remaining' > 0 => ScanRight'
  BY <1>5, <1>7, <1>9, <1>10 DEF ScanRight
<1>. QED
  BY <1>2, <1>4, <1>5, <1>6, <1>7, <1>8, <1>11, RoundEnds

\* Which wall make_maze knocks down for a space, if any.
LEMMA ConnectIs ==
  ASSUME MakerInv, place = "connect", NEW p \in Spaces \ MarkSet(maze), Connect(p)
  PROVE  /\ at' = p
         /\ \/ Stuck(maze, p) /\ maze' = maze /\ remaining' = remaining
            \/ \E e \in Dirs : \E o :
                 /\ Beyond(p, e) \in MarkSet(maze)
                 /\ o = [maze EXCEPT !.cell[Index(Ahead(p, e))] = MAZE_NONE]
                 /\ maze' = MarkFrom(o, p)
                 /\ remaining' = remaining - Cardinality(Found(o, p))
<1>1. maze \in Mazes /\ Points(maze) = Spaces
  BY RoundBegins, MazeFacts, Places
<1>2. ASSUME NEW d
      PROVE  CanKnock(p, d) <=> Beyond(p, d) \in MarkSet(maze)
  BY <1>1 DEF CanKnock, Inside, Reached, MarkSet
<1>. DEFINE Knocks(k) == /\ CanKnock(p, KnockOrder[k])
                        /\ \A j \in 1 .. k - 1 : ~CanKnock(p, KnockOrder[j])
            k == CHOOSE k \in 1 .. 4 : Knocks(k)
            o == [maze EXCEPT !.cell[Index(Ahead(p, KnockOrder[k]))] = MAZE_NONE]
<1>3. at' = p
  BY DEF Connect
<1>4. CASE \E d \in Dirs : CanKnock(p, d)
  <2>1. /\ KnockOrder[1] = DIR_UP /\ KnockOrder[2] = DIR_LEFT
        /\ KnockOrder[3] = DIR_RIGHT /\ KnockOrder[4] = DIR_DOWN
    BY DEF KnockOrder
  <2>2. PICK d \in Dirs : CanKnock(p, d)
    BY <1>4
  <2>3. d \in {DIR_UP, DIR_RIGHT, DIR_DOWN, DIR_LEFT}
    BY SpaceFacts, AheadIs
  <2>4. \E j \in 1 .. 4 : CanKnock(p, KnockOrder[j])
    BY <2>1, <2>2, <2>3
  <2>5. PICK j \in {i \in 1 .. 4 : CanKnock(p, KnockOrder[i])} :
            \A i \in {i \in 1 .. 4 : CanKnock(p, KnockOrder[i])} : j <= i
    <3>. DEFINE S == {i \in 1 .. 4 : CanKnock(p, KnockOrder[i])}
    <3>1. S \in SUBSET Nat /\ S # {}
      BY <2>4
    <3>. QED
      BY <3>1, LeastNumber
  <2>6. j \in 1 .. 4 /\ Knocks(j)
    <3>1. ASSUME NEW i \in 1 .. j - 1
          PROVE  ~CanKnock(p, KnockOrder[i])
      <4>1. i \in 1 .. 4 /\ ~(j <= i)
        OBVIOUS
      <4>. QED
        BY <2>5, <4>1
    <3>. QED
      BY <2>5, <3>1
  <2>7. k \in 1 .. 4 /\ Knocks(k)
    BY <2>6
  <2>8. maze' = MarkFrom(o, p) /\ remaining' = remaining - Cardinality(Found(o, p))
    BY <1>4 DEF Connect
  <2>. HIDE DEF k
  <2>9. PICK e : e = KnockOrder[k]
    OBVIOUS
  <2>10. e \in Dirs
    BY <2>1, <2>7, <2>9 DEF Dirs, NUM_DIRS, DIR_UP, DIR_RIGHT, DIR_DOWN, DIR_LEFT
  <2>11. Beyond(p, e) \in MarkSet(maze)
    BY <1>2, <2>7, <2>9
  <2>12. o = [maze EXCEPT !.cell[Index(Ahead(p, e))] = MAZE_NONE]
    BY <2>9
  <2>. HIDE DEF o
  <2>. QED
    BY <1>3, <2>8, <2>10, <2>11, <2>12
<1>5. CASE ~\E d \in Dirs : CanKnock(p, d)
  <2>1. Stuck(maze, p)
    BY <1>2, <1>5 DEF Stuck
  <2>2. maze' = maze /\ remaining' = remaining
    BY <1>5 DEF Connect
  <2>. QED
    BY <1>3, <2>1, <2>2
<1>. QED
  BY <1>4, <1>5

LEMMA ConnectStep ==
  ASSUME MakerInv, ScanPasses \/ ScanConnects \/ PickConnects
  PROVE  MakerInv'
<1>1. place = "connect" /\ Trial /\ LoopEnds
  BY DEF ScanPasses, ScanConnects, PickConnects
<1>2. maze \in Mazes /\ Points(maze) = Spaces /\ at \in Spaces
  BY <1>1, RoundBegins, MazeFacts, Places
<1>3. \A q \in Spaces : Reached(q) <=> q \in MarkSet(maze)
  BY DEF Reached, MarkSet
<1>4. ScanNext \in Spaces
  BY <1>2, ScanRank
<1>5. CASE ScanPasses
  <2>1. Scans /\ at' = ScanNext /\ maze' = maze /\ remaining' = remaining /\ Reached(ScanNext)
    BY <1>5 DEF ScanPasses
  <2>2. Stuck(maze, ScanNext)
    BY <1>3, <1>4, <2>1 DEF Stuck
  <2>. QED
    BY <1>1, <2>1, <2>2, IdleScan
<1>6. ASSUME NEW p \in Spaces \ MarkSet(maze), Connect(p), Scans => p = ScanNext
      PROVE  MakerInv'
  <2>1. at' = p
    BY <1>1, <1>6, ConnectIs
  <2>2. CASE Stuck(maze, p) /\ maze' = maze /\ remaining' = remaining
    <3>1. CASE Scans
      BY <1>1, <1>6, <2>1, <2>2, <3>1, IdleScan
    <3>2. CASE ~Scans
      BY <1>1, <2>1, <2>2, <3>2, IdlePick
    <3>. QED
      BY <3>1, <3>2
  <2>3. ASSUME NEW e \in Dirs, NEW o,
               Beyond(p, e) \in MarkSet(maze),
               o = [maze EXCEPT !.cell[Index(Ahead(p, e))] = MAZE_NONE],
               maze' = MarkFrom(o, p),
               remaining' = remaining - Cardinality(Found(o, p))
        PROVE  MakerInv'
    BY <1>1, <2>1, <2>3, Joins
  <2>. QED
    BY <1>1, <1>6, <2>2, <2>3, ConnectIs
<1>7. CASE ScanConnects
  <2>1. Scans /\ ~Reached(ScanNext) /\ Connect(ScanNext)
    BY <1>7 DEF ScanConnects
  <2>. QED
    BY <1>3, <1>4, <1>6, <2>1
<1>8. CASE PickConnects
  <2>1. ~Scans
    BY <1>8 DEF PickConnects
  <2>2. PICK p \in Points(maze) : ~Reached(p) /\ Connect(p)
    BY <1>8 DEF PickConnects
  <2>. QED
    BY <1>2, <1>3, <1>6, <2>1, <2>2
<1>. QED
  BY <1>5, <1>7, <1>8

----------------------------------------------------------------------------
(* The end of make_maze. *)

LEMMA ClearStep == MakerInv /\ Clear => MakerInv'
<1>. SUFFICES ASSUME MakerInv, Clear PROVE MakerInv'
  OBVIOUS
<1>1. /\ place = "clear" /\ maze' = Cleared(maze)
      /\ place' = IF StartFruits > 0 THEN "fruits" ELSE "exit"
      /\ at' = <<1, 1>> /\ remaining' = 0 /\ trials' = 0 /\ idle' = 0
  BY DEF Clear
<1>2. /\ maze \in Mazes /\ Bounded(maze) /\ Plain(maze) /\ MarksInside(maze) /\ WallSet(maze) = {}
      /\ HangsTogether(maze, Spaces)
  BY <1>1 DEF MakerInv, MakerTypeOK
<1>3. OfSize(maze) /\ maze.cell \in [Indices -> Cells]
  BY <1>2, MazeFacts
<1>4. IndicesOf(maze, Interior(maze)) = GridAt /\ IndicesOf(maze, Points(maze)) = SpacesAt
  BY <1>3, Places
<1>. DEFINE c == [i \in Indices |-> IF GOD_MODE /\ i \in GridAt THEN MAZE_NONE
                                    ELSE IF i \in SpacesAt THEN [maze.cell[i] EXCEPT !.reach = FALSE]
                                    ELSE maze.cell[i]]
<1>5. maze' = [maze EXCEPT !.n_fruits = 0, !.cell = c]
  BY <1>1, <1>4 DEF Cleared
<1>6. \A e \in Cells : /\ [e EXCEPT !.reach = FALSE] \in Cells
                       /\ [e EXCEPT !.reach = FALSE].wall = e.wall
                       /\ [e EXCEPT !.reach = FALSE].fruit = e.fruit
                       /\ [e EXCEPT !.reach = FALSE].exit = e.exit
                       /\ ~[e EXCEPT !.reach = FALSE].reach
  BY DEF Cells
<1>7. c \in [Indices -> Cells]
  BY <1>3, <1>6, CellFacts
<1>8. maze' \in Mazes /\ maze'.cell = c /\ maze'.n_fruits = 0
  <2>. HIDE DEF c
  <2>. QED
    BY <1>2, <1>5, <1>7 DEF Mazes
<1>9. \A i \in Indices : /\ maze'.cell[i].wall => maze.cell[i].wall
                         /\ maze'.cell[i].fruit # 0 => maze.cell[i].fruit # 0
                         /\ maze'.cell[i].exit => maze.cell[i].exit
                         /\ maze'.cell[i].reach => maze.cell[i].reach /\ i \notin SpacesAt
                         /\ i \notin GridAt => maze'.cell[i] = maze.cell[i]
  <2>1. SUFFICES ASSUME NEW i \in Indices
                 PROVE  /\ c[i].wall => maze.cell[i].wall
                        /\ c[i].fruit # 0 => maze.cell[i].fruit # 0
                        /\ c[i].exit => maze.cell[i].exit
                        /\ c[i].reach => maze.cell[i].reach /\ i \notin SpacesAt
                        /\ i \notin GridAt => c[i] = maze.cell[i]
    BY <1>8
  <2>2. maze.cell[i] \in Cells
    BY <1>3
  <2>3. CASE GOD_MODE /\ i \in GridAt
    <3>1. c[i] = MAZE_NONE
      BY <2>3
    <3>. QED
      BY <2>3, <3>1, CellFacts
  <2>4. CASE ~(GOD_MODE /\ i \in GridAt) /\ i \in SpacesAt
    <3>1. c[i] = [maze.cell[i] EXCEPT !.reach = FALSE]
      BY <2>4
    <3>2. i \in GridAt
      BY <2>4, PlacesInArray
    <3>. QED
      BY <1>6, <2>2, <3>1, <3>2
  <2>5. CASE ~(GOD_MODE /\ i \in GridAt) /\ i \notin SpacesAt
    <3>1. c[i] = maze.cell[i]
      BY <2>5
    <3>. QED
      BY <2>5, <3>1
  <2>. QED
    BY <2>3, <2>4, <2>5
<1>10. Bounded(maze')
  BY <1>2, <1>9 DEF Bounded
<1>11. NoMarks(maze')
  BY <1>2, <1>9 DEF NoMarks, MarksInside
<1>12. WallSet(maze') = {}
  BY <1>2, <1>9, SpaceFacts DEF WallSet
<1>13. FruitSet(maze') = {}
  BY <1>2, <1>9, SpaceFacts DEF FruitSet, Plain
<1>14. ExitSet(maze') = {}
  <2>1. \A q \in Grid : Index(q) \in Indices
    BY PlacesInArray DEF GridAt
  <2>. QED
    BY <1>2, <1>9, <2>1 DEF ExitSet, Plain
<1>15. HangsTogether(maze', Spaces)
  <2>1. OfSize(maze')
    BY <1>8, MazeFacts
  <2>2. ASSUME NEW q, NEW d \in Dirs, Opening(maze, q, d)
        PROVE  Opening(maze', q, d)
    <3>1. q \in Spaces /\ Beyond(q, d) \in Spaces /\ ~maze.cell[Index(Ahead(q, d))].wall
          /\ Index(Ahead(q, d)) \in Indices
      BY <1>3, <2>2, OpeningIs, AheadOfSpace, IndexInArray
    <3>. QED
      BY <1>9, <2>1, <3>1, OpeningIs
  <2>3. \A q : \A d \in Dirs : Opening(maze, q, d) => Opening(maze', q, d)
    BY <2>2
  <2>. QED
    BY <1>2, <2>3, SameTogether
<1>16. StartFruits \in Nat /\ XDim * YDim \in Nat /\ idle' <= MaxTrials + XDim * YDim
  BY <1>1, Sizes, RequestAssumption, TrialAssumption
<1>17. maze'.n_fruits = Cardinality(FruitSet(maze'))
  BY <1>8, <1>13, FS_EmptySet
<1>18. MakerTypeOK'
  BY <1>1, <1>8 DEF MakerTypeOK, MakerPlaces
<1>19. CASE StartFruits > 0
  BY <1>1, <1>8, <1>10, <1>11, <1>12, <1>14, <1>15, <1>16, <1>17, <1>18, <1>19
     DEF MakerInv, DigInv, ConnectInv, DoneInv
<1>20. CASE StartFruits = 0
  BY <1>1, <1>8, <1>10, <1>11, <1>12, <1>14, <1>15, <1>16, <1>17, <1>18, <1>20
     DEF MakerInv, DigInv, ConnectInv, DoneInv
<1>. QED
  BY <1>16, <1>19, <1>20

\* A fruit or the exit put into a space changes nothing else.
LEMMA PutInto ==
  ASSUME NEW m \in Mazes, Bounded(m), NoMarks(m), WallSet(m) = {}, HangsTogether(m, Spaces),
         NEW p \in Spaces, NEW w \in Mazes,
         NEW e \in Cells, e.wall = m.cell[Index(p)].wall, e.reach = m.cell[Index(p)].reach,
         w.cell = [m.cell EXCEPT ![Index(p)] = e]
  PROVE  /\ Bounded(w) /\ NoMarks(w) /\ WallSet(w) = {} /\ HangsTogether(w, Spaces)
         /\ FruitSet(w) = IF e.fruit # 0 THEN FruitSet(m) \cup {p} ELSE FruitSet(m) \ {p}
         /\ ExitSet(w) = IF e.exit THEN ExitSet(m) \cup {p} ELSE ExitSet(m) \ {p}
         /\ w.cell[Index(p)] = e
<1>1. m.cell \in [Indices -> Cells] /\ OfSize(m) /\ OfSize(w)
  BY MazeFacts
<1>2. Index(p) \in Indices /\ Index(p) \in GridAt /\ p \in Grid
  BY SpaceFacts
<1>3. \A i \in Indices : w.cell[i] = IF i = Index(p) THEN e ELSE m.cell[i]
  BY <1>1
<1>4. \A i \in Indices : w.cell[i].wall = m.cell[i].wall /\ w.cell[i].reach = m.cell[i].reach
  BY <1>3
<1>5. Bounded(w)
  BY <1>2, <1>3 DEF Bounded
<1>6. NoMarks(w)
  BY <1>4 DEF NoMarks
<1>7. WallSet(w) = {}
  BY <1>4, SpaceFacts DEF WallSet
<1>8. HangsTogether(w, Spaces)
  <2>1. ASSUME NEW q, NEW d \in Dirs, Opening(m, q, d)
        PROVE  Opening(w, q, d)
    <3>1. q \in Spaces /\ Beyond(q, d) \in Spaces /\ ~m.cell[Index(Ahead(q, d))].wall
          /\ Index(Ahead(q, d)) \in Indices
      BY <1>1, <2>1, OpeningIs, AheadOfSpace, IndexInArray
    <3>. QED
      BY <1>1, <1>4, <3>1, OpeningIs
  <2>2. \A q : \A d \in Dirs : Opening(m, q, d) => Opening(w, q, d)
    BY <2>1
  <2>. QED
    BY <2>2, SameTogether
<1>9. \A q \in Grid : /\ Index(q) \in Indices
                      /\ Index(q) = Index(p) <=> q = p
  BY <1>2, GridIndex, PlacesInArray DEF GridAt
<1>10. \A q \in Grid : w.cell[Index(q)] = IF q = p THEN e ELSE m.cell[Index(q)]
  BY <1>3, <1>9
<1>11. FruitSet(w) = IF e.fruit # 0 THEN FruitSet(m) \cup {p} ELSE FruitSet(m) \ {p}
  <2>1. \A q \in Spaces : w.cell[Index(q)] = IF q = p THEN e ELSE m.cell[Index(q)]
    BY <1>10, SpacesInGrid
  <2>2. CASE e.fruit # 0
    BY <2>1, <2>2 DEF FruitSet
  <2>3. CASE e.fruit = 0
    BY <2>1, <2>3 DEF FruitSet
  <2>. QED
    BY <2>2, <2>3
<1>12. ExitSet(w) = IF e.exit THEN ExitSet(m) \cup {p} ELSE ExitSet(m) \ {p}
  <2>1. CASE e.exit
    BY <1>2, <1>10, <2>1 DEF ExitSet
  <2>2. CASE ~e.exit
    BY <1>10, <2>2 DEF ExitSet
  <2>. QED
    BY <2>1, <2>2
<1>13. w.cell[Index(p)] = e
  BY <1>2, <1>3
<1>. QED
  BY <1>5, <1>6, <1>7, <1>8, <1>11, <1>12, <1>13

LEMMA CellWith ==
  ASSUME NEW a \in Cells, NEW t \in Nat
  PROVE  LET f == [a EXCEPT !.fruit = t]
             x == [a EXCEPT !.exit = TRUE]
         IN  /\ f \in Cells /\ f.wall = a.wall /\ f.reach = a.reach /\ f.exit = a.exit /\ f.fruit = t
             /\ x \in Cells /\ x.wall = a.wall /\ x.reach = a.reach /\ x.fruit = a.fruit /\ x.exit
BY DEF Cells

LEMMA FruitStep == MakerInv /\ AddFruit => MakerInv'
<1>. SUFFICES ASSUME MakerInv, AddFruit PROVE MakerInv'
  OBVIOUS
<1>1. /\ place = "fruits" /\ at' = at /\ remaining' = remaining /\ trials' = trials /\ idle' = idle
      /\ place' = IF maze'.n_fruits < StartFruits THEN "fruits" ELSE "exit"
  BY DEF AddFruit
<1>2. PICK p \in Unfruited(maze), type \in FruitTypes : maze' = WithFruit(maze, p, type)
  BY DEF AddFruit
<1>3. /\ maze \in Mazes /\ Bounded(maze) /\ WallSet(maze) = {} /\ HangsTogether(maze, Spaces)
      /\ NoMarks(maze) /\ maze.n_fruits = Cardinality(FruitSet(maze)) /\ maze.n_fruits < StartFruits
      /\ ExitSet(maze) = {} /\ idle <= MaxTrials + XDim * YDim
  BY <1>1 DEF MakerInv, MakerTypeOK, DoneInv
<1>4. maze.cell \in [Indices -> Cells] /\ OfSize(maze) /\ maze.n_fruits \in Nat /\ Points(maze) = Spaces
  BY <1>3, MazeFacts, Places
<1>5. p \in Spaces /\ Index(p) \in Indices /\ MAZE_INDEX(maze.xd, p[1], p[2]) = Index(p)
      /\ maze.cell[Index(p)].fruit = 0
  <2>1. p \in Spaces /\ Cell(maze, p[1], p[2]).fruit = 0
    BY <1>4 DEF Unfruited
  <2>2. MAZE_INDEX(maze.xd, p[1], p[2]) = Index(p)
    BY <1>4 DEF OfSize, Index
  <2>. QED
    BY <2>1, <2>2, SpaceFacts DEF Cell
<1>6. type \in Nat \ {0}
  BY FruitAssumption
<1>7. PICK e \in Cells : /\ e = [maze.cell[Index(p)] EXCEPT !.fruit = type]
                         /\ e.wall = maze.cell[Index(p)].wall /\ e.reach = maze.cell[Index(p)].reach
                         /\ e.exit = maze.cell[Index(p)].exit /\ e.fruit = type
  <2>1. PICK a \in Cells : a = maze.cell[Index(p)]
    BY <1>4, <1>5
  <2>2. PICK e \in Cells : /\ e = [a EXCEPT !.fruit = type]
                           /\ e.wall = a.wall /\ e.reach = a.reach
                           /\ e.exit = a.exit /\ e.fruit = type
    BY <1>6, CellWith
  <2>. QED
    BY <2>1, <2>2
<1>8. /\ maze' \in Mazes /\ maze'.cell = [maze.cell EXCEPT ![Index(p)] = e]
      /\ maze'.n_fruits = maze.n_fruits + 1
  <2>1. maze' = [maze EXCEPT !.n_fruits = @ + 1, !.cell[Index(p)].fruit = type]
    BY <1>2, <1>5 DEF WithFruit
  <2>2. PICK c \in [Indices -> Cells] : c = [maze.cell EXCEPT ![Index(p)] = e]
    BY <1>4, <1>5
  <2>3. maze' = [maze EXCEPT !.n_fruits = @ + 1, !.cell = c]
    BY <1>7, <2>1, <2>2
  <2>4. maze.n_fruits + 1 \in Nat
    BY <1>4
  <2>. QED
    BY <1>3, <2>2, <2>3, <2>4 DEF Mazes
<1>9. /\ Bounded(maze') /\ NoMarks(maze') /\ WallSet(maze') = {} /\ HangsTogether(maze', Spaces)
      /\ FruitSet(maze') = FruitSet(maze) \cup {p}
      /\ ExitSet(maze') = IF e.exit THEN ExitSet(maze) \cup {p} ELSE ExitSet(maze) \ {p}
  <2>1. PICK m \in Mazes, w \in Mazes : m = maze /\ w = maze'
    BY <1>3, <1>8
  <2>2. /\ Bounded(m) /\ NoMarks(m) /\ WallSet(m) = {} /\ HangsTogether(m, Spaces)
        /\ e.wall = m.cell[Index(p)].wall /\ e.reach = m.cell[Index(p)].reach
        /\ w.cell = [m.cell EXCEPT ![Index(p)] = e]
    BY <1>3, <1>7, <1>8, <2>1
  <2>3. /\ Bounded(w) /\ NoMarks(w) /\ WallSet(w) = {} /\ HangsTogether(w, Spaces)
        /\ FruitSet(w) = IF e.fruit # 0 THEN FruitSet(m) \cup {p} ELSE FruitSet(m) \ {p}
        /\ ExitSet(w) = IF e.exit THEN ExitSet(m) \cup {p} ELSE ExitSet(m) \ {p}
    BY <1>5, <2>2, PutInto
  <2>4. e.fruit # 0
    BY <1>6, <1>7
  <2>. QED
    BY <2>1, <2>3, <2>4
<1>10. ExitSet(maze') = {}
  <2>1. ~e.exit
    BY <1>3, <1>5, <1>7, SpaceFacts DEF ExitSet
  <2>. QED
    BY <1>3, <1>9, <2>1
<1>11. maze'.n_fruits = Cardinality(FruitSet(maze')) /\ maze'.n_fruits <= StartFruits /\ maze'.n_fruits \in Nat
  <2>1. p \notin FruitSet(maze)
    BY <1>5 DEF FruitSet
  <2>2. IsFiniteSet(FruitSet(maze))
    BY WallSetFacts
  <2>3. Cardinality(FruitSet(maze) \cup {p}) = Cardinality(FruitSet(maze)) + 1
    BY <2>1, <2>2, FS_AddElement
  <2>4. StartFruits \in Nat
    BY Sizes, RequestAssumption
  <2>. QED
    BY <1>3, <1>4, <1>8, <1>9, <2>3, <2>4
<1>12. MakerTypeOK'
  BY <1>1, <1>8 DEF MakerInv, MakerTypeOK, MakerPlaces
<1>13. StartFruits \in Nat
  BY Sizes, RequestAssumption
<1>14. CASE maze'.n_fruits < StartFruits
  BY <1>1, <1>3, <1>8, <1>9, <1>10, <1>11, <1>12, <1>14 DEF MakerInv, DigInv, ConnectInv, DoneInv
<1>15. CASE maze'.n_fruits = StartFruits
  <2>1. place' = "exit"
    BY <1>1, <1>13, <1>15
  <2>. QED
    BY <1>1, <1>3, <1>8, <1>9, <1>10, <1>11, <1>12, <1>15, <2>1 DEF MakerInv, DigInv, ConnectInv, DoneInv
<1>. QED
  BY <1>11, <1>13, <1>14, <1>15

LEMMA ExitStep == MakerInv /\ PlaceExit => MakerInv'
<1>. SUFFICES ASSUME MakerInv, PlaceExit PROVE MakerInv'
  OBVIOUS
<1>1. /\ place = "exit" /\ at' = at /\ remaining' = remaining /\ trials' = trials /\ idle' = idle
      /\ place' = "made"
  BY DEF PlaceExit
<1>2. PICK p \in Unfruited(maze) : maze' = WithExit(maze, p)
  BY DEF PlaceExit
<1>3. /\ maze \in Mazes /\ Bounded(maze) /\ WallSet(maze) = {} /\ HangsTogether(maze, Spaces)
      /\ NoMarks(maze) /\ maze.n_fruits = Cardinality(FruitSet(maze)) /\ maze.n_fruits = StartFruits
      /\ ExitSet(maze) = {} /\ idle <= MaxTrials + XDim * YDim
  BY <1>1 DEF MakerInv, MakerTypeOK, DoneInv
<1>4. maze.cell \in [Indices -> Cells] /\ OfSize(maze) /\ maze.n_fruits \in Nat /\ Points(maze) = Spaces
  BY <1>3, MazeFacts, Places
<1>5. p \in Spaces /\ Index(p) \in Indices /\ MAZE_INDEX(maze.xd, p[1], p[2]) = Index(p)
      /\ maze.cell[Index(p)].fruit = 0 /\ p \in Int \X Int
  <2>1. p \in Spaces /\ Cell(maze, p[1], p[2]).fruit = 0
    BY <1>4 DEF Unfruited
  <2>2. MAZE_INDEX(maze.xd, p[1], p[2]) = Index(p)
    BY <1>4 DEF OfSize, Index
  <2>. QED
    BY <2>1, <2>2, SpaceFacts DEF Cell
<1>6. PICK e \in Cells : /\ e = [maze.cell[Index(p)] EXCEPT !.exit = TRUE]
                         /\ e.wall = maze.cell[Index(p)].wall /\ e.reach = maze.cell[Index(p)].reach
                         /\ e.fruit = 0 /\ e.exit
  <2>1. PICK a \in Cells : a = maze.cell[Index(p)]
    BY <1>4, <1>5
  <2>2. PICK e \in Cells : /\ e = [a EXCEPT !.exit = TRUE]
                           /\ e.wall = a.wall /\ e.reach = a.reach
                           /\ e.fruit = a.fruit /\ e.exit
    BY CellWith
  <2>. QED
    BY <1>5, <2>1, <2>2
<1>7. /\ maze' \in Mazes /\ maze'.cell = [maze.cell EXCEPT ![Index(p)] = e]
      /\ maze'.n_fruits = maze.n_fruits /\ maze'.exit = p
  <2>1. maze' = [maze EXCEPT !.exit = p, !.cell[Index(p)].exit = TRUE]
    BY <1>2, <1>5 DEF WithExit
  <2>2. PICK c \in [Indices -> Cells] : c = [maze.cell EXCEPT ![Index(p)] = e]
    BY <1>4, <1>5
  <2>3. maze' = [maze EXCEPT !.exit = p, !.cell = c]
    BY <1>6, <2>1, <2>2
  <2>. QED
    BY <1>3, <1>5, <2>2, <2>3 DEF Mazes
<1>8. /\ Bounded(maze') /\ NoMarks(maze') /\ WallSet(maze') = {} /\ HangsTogether(maze', Spaces)
      /\ FruitSet(maze') = FruitSet(maze) \ {p}
      /\ ExitSet(maze') = ExitSet(maze) \cup {p}
      /\ maze'.cell[Index(p)] = e
  <2>1. PICK m \in Mazes, w \in Mazes : m = maze /\ w = maze'
    BY <1>3, <1>7
  <2>2. /\ Bounded(m) /\ NoMarks(m) /\ WallSet(m) = {} /\ HangsTogether(m, Spaces)
        /\ e.wall = m.cell[Index(p)].wall /\ e.reach = m.cell[Index(p)].reach
        /\ w.cell = [m.cell EXCEPT ![Index(p)] = e]
    BY <1>3, <1>6, <1>7, <2>1
  <2>3. /\ Bounded(w) /\ NoMarks(w) /\ WallSet(w) = {} /\ HangsTogether(w, Spaces)
        /\ FruitSet(w) = IF e.fruit # 0 THEN FruitSet(m) \cup {p} ELSE FruitSet(m) \ {p}
        /\ ExitSet(w) = IF e.exit THEN ExitSet(m) \cup {p} ELSE ExitSet(m) \ {p}
    <3>1. p \in Spaces
      BY <1>5
    <3>. QED
      BY <2>2, <3>1, PutInto
  <2>4. e.fruit = 0 /\ e.exit
    BY <1>6
  <2>5. w.cell[Index(p)] = e
    BY <1>4, <1>5, <2>1, <2>2
  <2>. QED
    BY <2>1, <2>3, <2>4, <2>5
<1>9. FruitSet(maze') = FruitSet(maze) /\ ExitSet(maze') = {p}
  BY <1>3, <1>5, <1>8 DEF FruitSet
<1>10. MakerTypeOK'
  BY <1>1, <1>7 DEF MakerInv, MakerTypeOK, MakerPlaces
<1>. QED
  BY <1>1, <1>3, <1>5, <1>6, <1>7, <1>8, <1>9, <1>10 DEF MakerInv, DigInv, ConnectInv, DoneInv

LEMMA MakerStep == MakerInv /\ [MakerNext]_makerVars => MakerInv'
<1>. SUFFICES ASSUME MakerInv, [MakerNext]_makerVars PROVE MakerInv'
  OBVIOUS
<1>1. CASE UNCHANGED makerVars
  BY <1>1 DEF makerVars, MakerInv, MakerTypeOK, DigInv, ConnectInv, DoneInv, ScanRight, Scans
<1>2. CASE MakerNext
  BY <1>2, DropStep, WormStep, WormEndStep, MarkStep, ConnectStep, ClearStep, FruitStep, ExitStep DEF MakerNext
<1>. QED
  BY <1>1, <1>2

\* make_maze keeps this, whatever random() returns.
THEOREM MakerInvariant == MakerSpec => []MakerInv
<1>. QED
  BY MakerInitStep, MakerStep, PTL DEF MakerSpec

LEMMA MakerInvCounts == MakerInv => CountsRight
<1>. SUFFICES ASSUME MakerInv PROVE CountsRight
  OBVIOUS
<1>1. maze \in Mazes /\ Points(maze) = Spaces
  BY MazeFacts, Places DEF MakerInv, MakerTypeOK
<1>2. {p \in Points(maze) : IsWall(p)} = WallSet(maze) /\ ReachedPoints = MarkSet(maze)
  BY <1>1 DEF IsWall, WallSet, ReachedPoints, Reached, MarkSet
<1>. QED
  BY <1>1, <1>2 DEF MakerInv, DigInv, ConnectInv, CountsRight, Joined

LEMMA MakerInvMade == MakerInv => MazeMade
<1>. SUFFICES ASSUME MakerInv PROVE MazeMade
  OBVIOUS
<1>1. maze \in Mazes /\ Points(maze) = Spaces /\ Interior(maze) = Grid
      /\ IndicesOf(maze, Interior(maze)) = GridAt
  BY MazeFacts, Places DEF MakerInv, MakerTypeOK
<1>2. Bounded(maze)
  BY DEF MakerInv
<1>3. place \in {"clear", "fruits", "exit", "made"} =>
         /\ \A p \in Points(maze) : ~IsWall(p)
         /\ HangsTogether(maze, Points(maze))
  BY <1>1 DEF MakerInv, IsWall, WallSet
<1>4. FruitSet(maze) = {p \in Points(maze) : maze.cell[Index(p)].fruit # 0}
      /\ ExitSet(maze) = {p \in Interior(maze) : maze.cell[Index(p)].exit}
  BY <1>1 DEF FruitSet, ExitSet
<1>5. place = "made" =>
         /\ Cardinality(FruitSet(maze)) = StartFruits
         /\ ExitSet(maze) = {maze.exit}
         /\ maze.cell[Index(maze.exit)].fruit = 0
         /\ \A i \in Indices : ~maze.cell[i].reach
  BY DEF MakerInv, DoneInv, NoMarks
<1>. QED
  BY <1>1, <1>2, <1>3, <1>4, <1>5 DEF MazeMade, Bounded

\* remaining counts the walls, then the unreached spaces; what is reached hangs
\* together with (1, 1), and no opening leads out of it.
THEOREM CountsRightCorrect == MakerSpec => []CountsRight
<1>. QED
  BY MakerInvariant, MakerInvCounts, PTL

\* In every maze made all spaces are open and hang together, its boundary is
\* whole, and it has the fruits asked for and one exit without a fruit.
THEOREM MazeMadeCorrect == MakerSpec => []MazeMade
<1>. QED
  BY MakerInvariant, MakerInvMade, PTL

\* However the worms went, the second phase ends: no more rounds pass without a
\* join than there are trials and spaces.
THEOREM ConnectEndsCorrect == MakerSpec => []ConnectEnds
<1>1. MakerInv => ConnectEnds
  BY DEF MakerInv, ConnectEnds
<1>. QED
  BY <1>1, MakerInvariant, PTL
=============================================================================
