------------------------------ MODULE MazePlay ------------------------------
(***************************************************************************)
(* The rtc thread of src/mp2/mazegame.c once more, this time with what it  *)
(* draws: the levels, the player's moves, the mist it lifts, the fruits it *)
(* eats, the window that follows it, and the frames it shows.  It composes *)
(* the maze (Maze), the window (ModeX) and the moves (MazeView); the other *)
(* threads are a free choice of the next direction at every tick, as       *)
(* MazeGame lets them choose it.  A level starts with any maze the end of  *)
(* MazeMaker can leave when the walls are removed.                         *)
(***************************************************************************)
EXTENDS Maze, ModeX

CONSTANTS MAX_LEVEL,
          MaxTicks,        \* the most ticks of a frame: 8
          PlayerMask,      \* the opaque pixels of the player, for every direction
          TextPixels,      \* the pixels a floating text draws
          TextLeft, TextUp, TextTop   \* where it floats: 150, 15 and 5

ASSUME LevelAssumption == MAX_LEVEL \in Nat \ {0} /\ MaxTicks \in 1 .. 8
ASSUME MaskAssumption == PlayerMask \in [Dirs -> SUBSET Block]
ASSUME TextAssumption ==
    /\ TextPixels \subseteq Nat \X Nat
    /\ TextLeft \in Nat /\ TextUp \in Nat /\ TextTop \in Nat
ASSUME WallsGoneAssumption == GOD_MODE

VARIABLES place,          \* where the thread is
          level, maze, w,
          view,           \* the player and game_info.map_x, map_y
          dir, last_dir, move_cnt,
          ticks, goto_next_level,
          num_fruit,      \* the fruits at the last interrupt
          text,           \* TranText_Dflage
          screen,         \* the display above the status bar
          bar             \* the level and the fruits the status bar tells

vars == <<place, level, maze, w, view, dir, last_dir, move_cnt, ticks,
          goto_next_level, num_fruit, text, screen, bar>>

Init ==
    /\ place = "level"
    /\ level = 1
    /\ maze = Walls(LevelX(1), LevelY(1))
    /\ w = FirstWindow
    /\ view = StartView
    /\ dir = DIR_STOP /\ last_dir = DIR_UP /\ move_cnt = 0
    /\ ticks = 0 /\ goto_next_level = FALSE
    /\ num_fruit = 0
    /\ text = FALSE
    /\ screen = [s \in Screen |-> Zero]
    /\ bar = <<0, 0>>

----------------------------------------------------------------------------
(* unveil_around_player: the fruit is eaten, the mist lifted.  The space   *)
(* of an eaten fruit and, with the last one, the exit are redrawn.         *)

Redraw(m, win, S) ==
    Paint(win, [p \in UNION {Visible(win, s[1] * BLOCK_X_DIM, s[2] * BLOCK_Y_DIM, Block) : s \in S}
                |-> PixelAt(m, p[1], p[2])])

Eat(m, s) == WithoutFruit(m, s[1], s[2])

Redrawn(m, s) ==
    IF ~HasFruit(m, s[1], s[2]) THEN {}
    ELSE IF Eat(m, s).n_fruits = 0 THEN {s, m.exit} ELSE {s}

SpacesAround(s) ==
    {<<s[1] + i, s[2] + j>> : i, j \in -1 .. 1}
        \cup {<<s[1], s[2] - 2>>, <<s[1] + 2, s[2]>>, <<s[1], s[2] + 2>>, <<s[1] - 2, s[2]>>}

MazeAround(m, s) == Unveil(Eat(m, s), SpacesAround(s))
WindowAround(m, win, s) ==
    Redraw(MazeAround(m, s), Redraw(Eat(m, s), win, Redrawn(m, s)),
           Unveiled(Eat(m, s), SpacesAround(s)))

----------------------------------------------------------------------------
(* The moves: a window that follows draws the line that comes into it. *)

FollowLine(m, win, v, d) ==
    LET now == SetViewWindow(win, v.map_x, v.map_y)
    IN  CASE d = DIR_UP -> DrawHorizLine(now, 0, HorizLine(m, now.x, now.y))
          [] d = DIR_RIGHT -> DrawVertLine(now, SCROLL_X_DIM - 1,
                                           VertLine(m, now.x + SCROLL_X_DIM - 1, now.y))
          [] d = DIR_DOWN -> DrawHorizLine(now, SCROLL_Y_DIM - 1,
                                           HorizLine(m, now.x, now.y + SCROLL_Y_DIM - 1))
          [] OTHER -> DrawVertLine(now, 0, VertLine(m, now.x, now.y))

Pans(v, d) == <<Moved(v, d, maze.xd, maze.yd).map_x, Moved(v, d, maze.xd, maze.yd).map_y>>
                  # <<v.map_x, v.map_y>>

----------------------------------------------------------------------------
(* The frames *)

GetPlayerBlock(d) == <<"player", d>>
DrawPlayer(win, v, d) ==
    DrawMaskedBlock(win, v.x, v.y, GetPlayerBlock(d), PlayerMask[d])

TextAt(v) == <<v.x - TextLeft, Larger(v.y - TextUp, TextTop)>>
DrawText(win, v, on) ==
    IF on THEN DrawFloatText(win, TextAt(v)[1], TextAt(v)[2], TextPixels) ELSE win

\* Mistake: the player goes before the text that was drawn over it.
Erased_PlayerFirst(win, v, d, on) ==
    LET drawn == DrawPlayer(win, v, d)
        texted == DrawText(drawn, v, on)
        bare == UndrawMaskedBlock(texted, v.x, v.y, PlayerMask[d], Covered(win, v.x, v.y, PlayerMask[d]))
    IN  IF on THEN UndrawFloatText(bare, TextAt(v)[1], TextAt(v)[2], TextPixels,
                                   Covered(drawn, TextAt(v)[1], TextAt(v)[2], TextPixels))
        ELSE bare

(* The window after the text, then the player, are taken out of it again. *)
Erased(win, v, d, on) ==
    LET drawn == DrawPlayer(win, v, d)
        texted == DrawText(drawn, v, on)
        untexted == IF on THEN UndrawFloatText(texted, TextAt(v)[1], TextAt(v)[2], TextPixels,
                                   Covered(drawn, TextAt(v)[1], TextAt(v)[2], TextPixels))
                    ELSE texted
    IN  UndrawMaskedBlock(untexted, v.x, v.y, PlayerMask[d], Covered(win, v.x, v.y, PlayerMask[d]))

ShowFrame(win, v, d, on) ==
    /\ screen' = ShowScreen(DrawText(DrawPlayer(win, v, d), v, on))
    /\ w' = Erased(win, v, d, on)

(* The bar is an image of its own at the foot of the display. *)
ShowBar(lvl, n) == bar' = <<lvl, n>>

----------------------------------------------------------------------------
(* prepare_maze_level and the start of a level *)

(* _add_a_fruit, once for every fruit: a point of its own for each *)
WithFruits(m, S, type) ==
    [m EXCEPT !.n_fruits = Cardinality(S), !.cell = [i \in Indices |->
        IF i \in IndicesOf(m, S) THEN [@[i] EXCEPT !.fruit = type[i]] ELSE @[i]]]

MadeMazes ==
    LET bare == Cleared(Walls(LevelX(level), LevelY(level)))
        fruits == {S \in SUBSET Unfruited(bare) : Cardinality(S) = LevelFruits(level)}
    IN  UNION {{WithExit(WithFruits(bare, S, type), p) :
                    type \in [IndicesOf(bare, S) -> FruitTypes], p \in Unfruited(bare) \ S}
               : S \in fruits}

LevelWindow(m) ==
    LET now == SetViewWindow(w, StartView.map_x, StartView.map_y)
    IN  Paint(now, [p \in Window(now) |-> HorizLine(m, now.x, p[2])[p[1] - now.x]])

(* The maze of the level, and the window on it, drawn line by line.        *)
(* make_maze refuses dimensions out of range, which no level has.          *)
PrepareMazeLevel == {<<m, LevelWindow(m)>> : m \in MadeMazes}

StartLevel ==
    /\ place = "level"
    /\ level <= MAX_LEVEL
    /\ goto_next_level' = FALSE
    /\ view' = StartView
    /\ move_cnt' = 0 /\ last_dir' = DIR_UP /\ dir' = DIR_STOP
    /\ \E made \in PrepareMazeLevel :
         /\ maze' = MazeAround(made[1], Square(StartView))
         /\ ShowFrame(WindowAround(made[1], made[2], Square(StartView)), StartView, DIR_UP, FALSE)
    /\ ShowBar(level, maze'.n_fruits)
    /\ num_fruit' = maze'.n_fruits
    /\ text' = FALSE
    /\ place' = "loop"
    /\ UNCHANGED <<level, ticks>>

(* A clock interrupt: a fruit less than at the last one starts a text. *)
Interrupt ==
    /\ place = "loop"
    /\ ~goto_next_level
    /\ ShowBar(level, maze.n_fruits)
    /\ text' = (text \/ maze.n_fruits < num_fruit)
    /\ num_fruit' = maze.n_fruits
    /\ ticks' \in 1 .. MaxTicks
    /\ place' = "ticks"
    /\ UNCHANGED <<level, maze, w, view, dir, last_dir, move_cnt, goto_next_level, screen>>

EndLevel ==
    /\ place = "loop"
    /\ goto_next_level
    /\ level' = level + 1
    /\ place' = "level"
    /\ UNCHANGED <<maze, w, view, dir, last_dir, move_cnt, ticks, goto_next_level,
                   num_fruit, text, screen, bar>>

(* clear_mode_X, which main calls when the game is over, says whether the *)
(* drawing has broken a fence. *)
ClearModeX ==
    /\ place = "level"
    /\ level > MAX_LEVEL
    /\ place' = IF FencesWhole(w) THEN "ended" ELSE "broken"
    /\ UNCHANGED <<level, maze, w, view, dir, last_dir, move_cnt, ticks, goto_next_level,
                   num_fruit, text, screen, bar>>

(* One pixel in direction d, with cnt pixels to the next square *)
Move(d, cnt, m, win) ==
    /\ dir' = d
    /\ ticks' = ticks - 1
    /\ IF d = DIR_STOP
       THEN /\ w' = win
            /\ move_cnt' = 0
            /\ UNCHANGED <<view, last_dir>>
       ELSE /\ last_dir' = d
            /\ move_cnt' = cnt - 1
            /\ view' = Moved(view, d, maze.xd, maze.yd)
            /\ w' = IF Pans(view, d) THEN FollowLine(m, win, view', d) ELSE win
    /\ UNCHANGED <<place, level, goto_next_level, num_fruit, text, screen, bar>>

(* What the other threads may have made of next_dir by this tick *)
NextDirs == IF dir = DIR_STOP THEN Dirs \cup {DIR_STOP} ELSE Dirs

TickBetween ==
    /\ place = "ticks" /\ ticks > 0
    /\ \E next \in NextDirs :
         /\ TurnedCount(dir, next, move_cnt) # 0
         /\ Move(TurnedDir(dir, next), TurnedCount(dir, next, move_cnt), maze, w)
    /\ UNCHANGED maze

TickAtSquare ==
    /\ place = "ticks" /\ ticks > 0
    /\ maze' = MazeAround(maze, Square(view))
    /\ ~CheckForWin(maze', Square(view)[1], Square(view)[2])
    /\ \E next \in NextDirs :
         /\ TurnedCount(dir, next, move_cnt) = 0
         /\ LET d == LeaveDir(TurnedDir(dir, next), next,
                              FindOpenDirections(maze', Square(view)[1], Square(view)[2]))
            IN  Move(d, IF d = DIR_STOP THEN 0 ELSE BlockLength(d), maze',
                     WindowAround(maze, w, Square(view)))

TickWins ==
    /\ place = "ticks" /\ ticks > 0
    /\ maze' = MazeAround(maze, Square(view))
    /\ CheckForWin(maze', Square(view)[1], Square(view)[2])
    /\ \E next \in NextDirs :
         /\ TurnedCount(dir, next, move_cnt) = 0
         /\ dir' = TurnedDir(dir, next)
    /\ w' = WindowAround(maze, w, Square(view))
    /\ goto_next_level' = TRUE
    /\ ticks' = 0
    /\ UNCHANGED <<place, level, view, last_dir, move_cnt, num_fruit, text, screen, bar>>

(* The text stays until its five seconds are over. *)
Frame ==
    /\ place = "ticks" /\ ticks = 0
    /\ ShowFrame(w, view, last_dir, text)
    /\ text' \in IF text THEN BOOLEAN ELSE {FALSE}
    /\ place' = "loop"
    /\ UNCHANGED <<level, maze, view, dir, last_dir, move_cnt, ticks, goto_next_level,
                   num_fruit, bar>>

Next == StartLevel \/ Interrupt \/ EndLevel \/ TickBetween \/ TickAtSquare \/ TickWins \/ Frame
        \/ ClearModeX

Spec == Init /\ [][Next]_vars

----------------------------------------------------------------------------
(* Between two frames the window in the build buffer is the maze as it is, *)
(* pixel for pixel, although only new lines and unveiled blocks are drawn, *)
(* the buffer is copied when the window reaches its end, and the player    *)
(* and the text are drawn into it and taken out.  The right boundary is    *)
(* the left one of the next row, and is redrawn only where it is unveiled: *)
(* the two are never both in the window.                                   *)
Playing == place \in {"loop", "ticks"}
BufferShowsMaze == Playing => \A p \in Window(w) : At(w, p) = PixelAt(maze, p[1], p[2])

(* The window stays within the buffer and the fences whole, so that the    *)
(* program never ends with the report that one is broken.                  *)
WindowInBuffer ==
    /\ FencesWhole(w)
    /\ place # "broken"
    /\ \A p \in Window(w) : Addr(w, p) \in Build \ Fences

(* A frame shows the maze of the window with the player and the text over  *)
(* it, in the columns of the screen they belong to; the status bar, drawn  *)
(* once an interrupt, is at most one fruit behind, as no frame's ticks     *)
(* take the player over two squares.                                       *)
Expected(s) ==
    LET p == <<s[1] + view.map_x, s[2] + view.map_y>>
        ofPlayer == <<p[1] - view.x, p[2] - view.y>>
        ofText == <<p[1] - TextAt(view)[1], p[2] - TextAt(view)[2]>>
        under == IF ofPlayer \in PlayerMask[last_dir]
                 THEN <<<<"player", last_dir>>, ofPlayer[1], ofPlayer[2]>>
                 ELSE PixelAt(maze, p[1], p[2])
    IN  IF text /\ ofText \in TextPixels THEN <<"text", under>> ELSE under

FrameShowsGame ==
    [][Frame => /\ \A s \in Screen : screen'[s] = Expected(s)
                /\ bar[1] = level /\ bar[2] - maze.n_fruits \in 0 .. 1]_vars
=============================================================================
