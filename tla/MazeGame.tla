------------------------------ MODULE MazeGame ------------------------------
(***************************************************************************)
(* The three threads of src/mp2/mazegame.c: the rtc thread, which polls    *)
(* the tux buttons and moves the player at every tick of the clock, the    *)
(* keyboard thread and the tux thread, which choose the next direction.    *)
(* They share a mutex, a condition variable and global variables, some of  *)
(* which the rtc thread writes without the mutex.                          *)
(*                                                                         *)
(* A piece of code that holds the mutex is one action when it touches      *)
(* nothing another thread touches without it.  The tux thread's is three,  *)
(* as the rtc thread writes tux_press_flag and button_press outside the    *)
(* mutex.  Drawing and the display of the time are left out; Maze and      *)
(* MazePlay model what a level is and what it looks like.                  *)
(***************************************************************************)
EXTENDS MazeView, FiniteSets

CONSTANTS MAX_LEVEL,
          MaxTicks,       \* the most ticks one read of the clock may report: 8
          Open,           \* the open lattice points of every level's maze
          Fruits, Exit,   \* its fruit and its exit
          Buttons,        \* the controller's buttons, lowest bit first
          Keys            \* what getc may return: see Key

ASSUME LevelAssumption == MAX_LEVEL \in Nat \ {0} /\ MaxTicks \in 1 .. 8
ASSUME OpenAssumption ==
    \A l \in 1 .. MAX_LEVEL :
        /\ Open[l] \subseteq (1 .. 2 * LevelX(l) - 1) \X (1 .. 2 * LevelY(l) - 1)
        /\ <<1, 1>> \in Open[l]

VARIABLES rtc, kbd, tux,          \* where each thread is
          main,                   \* the thread main waits for, or how the game ended
          mutex,                  \* "free" or "tux": who holds mtx between two actions
          level, view, fruits,    \* the level, the player and the window, the fruit left
          dir, move_cnt, next_dir,
          ticks, goto_next_level,
          quit_flag, winner,
          tux_press_flag, button_status, button_press_new, button_press,
          escape,                 \* the keyboard thread's state of the escape sequence
          press                   \* history: the newest press of a button, see Poll

position == <<level, view, fruits, dir, move_cnt>>
buttons == <<button_status, button_press_new, button_press>>
vars == <<rtc, kbd, tux, main, mutex, level, view, fruits, dir, move_cnt, next_dir, ticks,
          goto_next_level, quit_flag, winner, tux_press_flag, button_status,
          button_press_new, button_press, escape, press>>

NoButton == 0
ButtonDir == [b \in {16, 32, 64, 128} |->
    CASE b = 16 -> DIR_UP [] b = 32 -> DIR_DOWN [] b = 64 -> DIR_LEFT [] OTHER -> DIR_RIGHT]
ArrowDir == [k \in {"up", "down", "right", "left"} |->
    CASE k = "up" -> DIR_UP [] k = "down" -> DIR_DOWN [] k = "right" -> DIR_RIGHT [] OTHER -> DIR_LEFT]
Arrows == DOMAIN ArrowDir

Xd == LevelX(level)
Yd == LevelY(level)

Init ==
    /\ rtc = "level" /\ kbd = "read" /\ tux = "top" /\ main = "rtc"
    /\ mutex = "free"
    /\ level = 1
    /\ view = StartView
    /\ fruits = {}
    /\ dir = DIR_STOP /\ move_cnt = 0 /\ next_dir = DIR_STOP
    /\ ticks = 0 /\ goto_next_level = FALSE
    /\ quit_flag = FALSE /\ winner = FALSE
    /\ tux_press_flag = FALSE
    /\ button_status = {} /\ button_press_new = NoButton /\ button_press = NoButton
    /\ escape = 0
    /\ press = "none"

\* Mistake: the flag is set and nobody woken.
Signal_None == tux

(* pthread_cond_signal: the tux thread is the only one that waits. *)
Signal == IF tux = "waiting" THEN "woken" ELSE tux

----------------------------------------------------------------------------
(* rtc_thread *)

StartLevel ==
    /\ rtc = "level"
    /\ level <= MAX_LEVEL /\ ~quit_flag
    /\ goto_next_level' = FALSE
    /\ view' = StartView
    /\ move_cnt' = 0 /\ dir' = DIR_STOP /\ next_dir' = DIR_STOP
    /\ fruits' = Fruits[level] \ {Square(StartView)}
    /\ rtc' = "loop"
    /\ UNCHANGED <<kbd, tux, main, mutex, level, ticks, quit_flag, winner, tux_press_flag,
                   buttons, escape, press>>

(* The thread tests quit_flag and sets winner without the mutex. *)
LeaveLevels ==
    /\ rtc = "level"
    /\ level > MAX_LEVEL \/ quit_flag
    /\ rtc' = IF quit_flag THEN "end" ELSE "won"
    /\ UNCHANGED <<kbd, tux, main, mutex, position, next_dir, ticks, goto_next_level, quit_flag,
                   winner, tux_press_flag, buttons, escape, press>>

SetWinner ==
    /\ rtc = "won"
    /\ winner' = TRUE
    /\ rtc' = "end"
    /\ UNCHANGED <<kbd, tux, main, mutex, position, next_dir, ticks, goto_next_level, quit_flag,
                   tux_press_flag, buttons, escape, press>>

(* The test of the flags and the read of the clock that follows it. *)
Loop ==
    /\ rtc = "loop"
    /\ IF ~quit_flag /\ ~goto_next_level
       THEN rtc' = "poll" /\ ticks' \in 1 .. MaxTicks /\ UNCHANGED level
       ELSE rtc' = "level" /\ level' = level + 1 /\ UNCHANGED ticks
    /\ UNCHANGED <<kbd, tux, main, mutex, view, fruits, dir, move_cnt, next_dir,
                   goto_next_level, quit_flag, winner, tux_press_flag, buttons, escape, press>>

(* The first button that went from up to down is published in three steps, *)
(* the flag first.  press follows the newest press: "flagged" once the     *)
(* flag is set, "published" once button_press holds it, "none" when the    *)
(* tux thread has acted on it or has taken the flag too early.             *)
Pressed(now) == now \ button_status
First(S) == CHOOSE b \in S : \A c \in S : b <= c

Poll ==
    /\ rtc = "poll" /\ ticks > 0
    /\ \E now \in SUBSET Buttons :
         /\ button_status' = now
         /\ IF Pressed(now) # {}
            THEN /\ button_press_new' = First(Pressed(now))
                 /\ tux_press_flag' = TRUE
                 /\ press' = "flagged"
            ELSE UNCHANGED <<button_press_new, tux_press_flag, press>>
    /\ rtc' = "publish"
    /\ UNCHANGED <<kbd, tux, main, mutex, position, next_dir, ticks, goto_next_level, quit_flag,
                   winner, button_press, escape>>

Publish ==
    /\ rtc = "publish"
    /\ button_press' = button_press_new
    /\ press' = IF press = "flagged" THEN "published" ELSE press
    /\ rtc' = "signal"
    /\ UNCHANGED <<kbd, tux, main, mutex, position, next_dir, ticks, goto_next_level, quit_flag,
                   winner, tux_press_flag, button_status, button_press_new, escape>>

SignalTux ==
    /\ rtc = "signal"
    /\ mutex = "free"
    /\ tux' = IF tux_press_flag THEN Signal ELSE tux
    /\ rtc' = "step"
    /\ UNCHANGED <<kbd, main, mutex, position, next_dir, ticks, goto_next_level, quit_flag, winner,
                   tux_press_flag, buttons, escape, press>>

Turned == TurnedDir(dir, next_dir)
Count == TurnedCount(dir, next_dir, move_cnt)
OpenDirs == {d \in Dirs : Ahead(Square(view), d) \in Open[level]}
Leave == LeaveDir(Turned, next_dir, OpenDirs)

(* unveil_around_player eats the fruit and tells whether the level is won. *)
Eaten == fruits \ {Square(view)}
Won == Eaten = {} /\ Square(view) = Exit[level]

Advance(d, count) ==
    /\ dir' = d
    /\ IF d = DIR_STOP THEN move_cnt' = count /\ UNCHANGED view
       ELSE move_cnt' = count - 1 /\ view' = Moved(view, d, Xd, Yd)
    /\ ticks' = ticks - 1
    /\ rtc' = "poll"
    /\ UNCHANGED goto_next_level

(* Between two squares: go on, or turn back. *)
StepBetween ==
    /\ rtc = "step" /\ mutex = "free"
    /\ Count # 0
    /\ Advance(Turned, Count)
    /\ UNCHANGED <<kbd, tux, main, mutex, level, fruits, next_dir, quit_flag, winner,
                   tux_press_flag, buttons, escape, press>>

(* At a square: eat, turn where there is a way, leave or stop. *)
StepFromSquare ==
    /\ rtc = "step" /\ mutex = "free"
    /\ Count = 0 /\ ~Won
    /\ fruits' = Eaten
    /\ Advance(Leave, IF Leave = DIR_STOP THEN 0 ELSE BlockLength(Leave))
    /\ UNCHANGED <<kbd, tux, main, mutex, level, next_dir, quit_flag, winner,
                   tux_press_flag, buttons, escape, press>>

StepWins ==
    /\ rtc = "step" /\ mutex = "free"
    /\ Count = 0 /\ Won
    /\ fruits' = Eaten
    /\ dir' = Turned
    /\ move_cnt' = 0
    /\ goto_next_level' = TRUE
    /\ ticks' = ticks - 1
    /\ rtc' = "loop"
    /\ UNCHANGED <<kbd, tux, main, mutex, level, view, next_dir, quit_flag, winner,
                   tux_press_flag, buttons, escape, press>>

(* The frame is drawn and the next interrupt awaited. *)
Draw ==
    /\ rtc = "poll" /\ ticks = 0
    /\ rtc' = "loop"
    /\ UNCHANGED <<kbd, tux, main, mutex, position, next_dir, ticks, goto_next_level, quit_flag,
                   winner, tux_press_flag, buttons, escape, press>>

Rtc == \/ StartLevel \/ LeaveLevels \/ SetWinner \/ Loop
       \/ Poll \/ Publish \/ SignalTux
       \/ StepBetween \/ StepFromSquare \/ StepWins \/ Draw

----------------------------------------------------------------------------
(* keyboard_thread.  An arrow key comes as three characters; getc does not *)
(* wait, and a read that finds nothing ("none") breaks a sequence like any *)
(* other character does.                                                   *)
AfterKey(key) ==
    CASE key = "escape" -> 1
      [] key = "bracket" /\ escape = 1 -> 2
      [] OTHER -> 0

ReadKey ==
    /\ kbd = "read"
    /\ ~winner
    /\ \E key \in Keys :
         \/ /\ key = "backquote"
            /\ kbd' = "quit"
            /\ UNCHANGED escape
         \/ /\ key \in Arrows /\ escape = 2
            /\ kbd' = key
            /\ escape' = 0
         \/ /\ key # "backquote" /\ ~(key \in Arrows /\ escape = 2)
            /\ escape' = AfterKey(key)
            /\ UNCHANGED kbd
    /\ UNCHANGED <<rtc, tux, main, mutex, position, next_dir, ticks, goto_next_level, quit_flag,
                   winner, tux_press_flag, buttons, press>>

KeyboardEnds ==
    /\ kbd = "read"
    /\ winner
    /\ kbd' = "end"
    /\ UNCHANGED <<rtc, tux, main, mutex, position, next_dir, ticks, goto_next_level, quit_flag,
                   winner, tux_press_flag, buttons, escape, press>>

\* Mistake: the tux thread is woken and finds no flag.
FlagOnQuit_Unset == tux_press_flag

FlagOnQuit == TRUE

Quit ==
    /\ kbd = "quit"
    /\ mutex = "free"
    /\ quit_flag' = TRUE
    /\ tux_press_flag' = FlagOnQuit
    /\ tux' = Signal
    /\ kbd' = "end"
    /\ UNCHANGED <<rtc, main, mutex, position, next_dir, ticks, goto_next_level, winner, buttons,
                   escape, press>>

TurnByKey ==
    /\ kbd \in Arrows
    /\ mutex = "free"
    /\ next_dir' = ArrowDir[kbd]
    /\ kbd' = "read"
    /\ UNCHANGED <<rtc, tux, main, mutex, position, ticks, goto_next_level, quit_flag, winner,
                   tux_press_flag, buttons, escape, press>>

Keyboard == ReadKey \/ KeyboardEnds \/ Quit \/ TurnByKey

----------------------------------------------------------------------------
(* tux_thread *)

TuxTop ==
    /\ tux = "top"
    /\ tux' = IF winner THEN "end" ELSE "lock"
    /\ UNCHANGED <<rtc, kbd, main, mutex, position, next_dir, ticks, goto_next_level, quit_flag,
                   winner, tux_press_flag, buttons, escape, press>>

TuxLock ==
    /\ tux \in {"lock", "woken"}
    /\ mutex = "free"
    /\ mutex' = "tux"
    /\ tux' = "check"
    /\ UNCHANGED <<rtc, kbd, main, position, next_dir, ticks, goto_next_level, quit_flag, winner,
                   tux_press_flag, buttons, escape, press>>

TuxWaits ==
    /\ tux = "check"
    /\ ~tux_press_flag
    /\ mutex' = "free"
    /\ tux' = "waiting"
    /\ UNCHANGED <<rtc, kbd, main, position, next_dir, ticks, goto_next_level, quit_flag, winner,
                   tux_press_flag, buttons, escape, press>>

TuxEnds ==
    /\ tux = "check"
    /\ tux_press_flag /\ quit_flag
    /\ mutex' = "free"
    /\ tux' = "end"
    /\ UNCHANGED <<rtc, kbd, main, position, next_dir, ticks, goto_next_level, quit_flag, winner,
                   tux_press_flag, buttons, escape, press>>

TuxGoesOn ==
    /\ tux = "check"
    /\ tux_press_flag /\ ~quit_flag
    /\ tux' = "reset"
    /\ UNCHANGED <<rtc, kbd, main, mutex, position, next_dir, ticks, goto_next_level, quit_flag,
                   winner, tux_press_flag, buttons, escape, press>>

TuxReset ==
    /\ tux = "reset"
    /\ tux_press_flag' = FALSE
    /\ tux' = "turn"
    /\ UNCHANGED <<rtc, kbd, main, mutex, position, next_dir, ticks, goto_next_level, quit_flag,
                   winner, buttons, escape, press>>

TuxTurns ==
    /\ tux = "turn"
    /\ next_dir' = IF button_press \in DOMAIN ButtonDir THEN ButtonDir[button_press] ELSE next_dir
    /\ press' = IF press = "flagged" /\ tux_press_flag THEN press ELSE "none"
    /\ mutex' = "free"
    /\ tux' = "top"
    /\ UNCHANGED <<rtc, kbd, main, position, ticks, goto_next_level, quit_flag, winner,
                   tux_press_flag, buttons, escape>>

Tux == TuxTop \/ TuxLock \/ TuxWaits \/ TuxEnds \/ TuxGoesOn \/ TuxReset \/ TuxTurns

----------------------------------------------------------------------------
(* main waits for its three threads one after the other and tells how the  *)
(* game ended.                                                             *)
Outcome == CASE winner -> "won" [] ~winner /\ quit_flag -> "quit" [] OTHER -> "lost"

Main ==
    /\ \/ main = "rtc" /\ rtc = "end" /\ main' = "kbd"
       \/ main = "kbd" /\ kbd = "end" /\ main' = "tux"
       \/ main = "tux" /\ tux = "end" /\ main' = Outcome
    /\ UNCHANGED <<rtc, kbd, tux, mutex, position, next_dir, ticks, goto_next_level, quit_flag,
                   winner, tux_press_flag, buttons, escape, press>>

Next == Rtc \/ Keyboard \/ Tux \/ Main

(* Every thread runs, and one that keeps asking for the mutex gets it. *)
Spec == Init /\ [][Next]_vars /\ SF_vars(Rtc) /\ SF_vars(Keyboard) /\ SF_vars(Tux) /\ WF_vars(Main)

----------------------------------------------------------------------------
TypeOK ==
    /\ rtc \in {"level", "loop", "poll", "publish", "signal", "step", "won", "end"}
    /\ kbd \in {"read", "quit", "end"} \cup Arrows
    /\ tux \in {"top", "lock", "check", "waiting", "woken", "reset", "turn", "end"}
    /\ main \in {"rtc", "kbd", "tux", "won", "quit", "lost"}
    /\ mutex = IF tux \in {"check", "reset", "turn"} THEN "tux" ELSE "free"
    /\ level \in 1 .. MAX_LEVEL + 1
    /\ view \in [x: Int, y: Int, map_x: Int, map_y: Int]
    /\ dir \in Dirs \cup {DIR_STOP} /\ next_dir \in Dirs \cup {DIR_STOP}
    /\ move_cnt \in Int
    /\ ticks \in 0 .. MaxTicks
    /\ goto_next_level \in BOOLEAN /\ quit_flag \in BOOLEAN /\ winner \in BOOLEAN
    /\ tux_press_flag \in BOOLEAN
    /\ button_status \subseteq Buttons
    /\ button_press_new \in Buttons \cup {NoButton} /\ button_press \in Buttons \cup {NoButton}
    /\ escape \in 0 .. 2
    /\ press \in {"none", "flagged", "published"}

(* Whatever the two input threads do to next_dir between two ticks, and    *)
(* wherever a reversal finds the player, it never enters a wall: it stands *)
(* on an open lattice point, or between two neighbouring ones, on the line *)
(* between them, exactly move_cnt pixels from the one it moves to.         *)
Shifted(v, d, n) ==
    CASE d = DIR_UP -> [v EXCEPT !.y = @ - n]
      [] d = DIR_RIGHT -> [v EXCEPT !.x = @ + n]
      [] d = DIR_DOWN -> [v EXCEPT !.y = @ + n]
      [] OTHER -> [v EXCEPT !.x = @ - n]

OnSquare(v) ==
    /\ v.x = BLOCK_X_DIM * Square(v)[1] /\ v.y = BLOCK_Y_DIM * Square(v)[2]
    /\ Square(v) \in Open[level]

InLevel == rtc \in {"loop", "poll", "publish", "signal", "step"}
OnTrack ==
    InLevel =>
      \/ dir = DIR_STOP /\ move_cnt = 0 /\ OnSquare(view)
      \/ /\ dir \in Dirs /\ move_cnt \in 0 .. BlockLength(dir) - 1
         /\ OnSquare(Shifted(view, dir, move_cnt))
         /\ move_cnt > 0 => OnSquare(Shifted(view, Reverse(dir), BlockLength(dir) - move_cnt))

(* The window never leaves the part of the maze that may be shown, and the *)
(* whole of the player is always in it.                                    *)
ViewFollows ==
    InLevel =>
      /\ view.map_x >= SHOW_MIN /\ view.map_y >= SHOW_MIN
      /\ view.map_x + SCROLL_X_DIM <= (2 * Xd + 1) * BLOCK_X_DIM - SHOW_MIN
      /\ view.map_y + SCROLL_Y_DIM <= (2 * Yd + 1) * BLOCK_Y_DIM - SHOW_MIN
      /\ view.x >= view.map_x /\ view.x + BLOCK_X_DIM <= view.map_x + SCROLL_X_DIM
      /\ view.y >= view.map_y /\ view.y + BLOCK_Y_DIM <= view.map_y + SCROLL_Y_DIM

(* A button press that the rtc thread has published is acted on by the tux *)
(* thread, although the flag is set before the button is published and     *)
(* outside the mutex.  The one press that is lost is the press whose flag  *)
(* the tux thread takes before the button is there (press is "none" then). *)
PressTaken == press = "published" ~> (press # "published" \/ tux = "end")

(* Quitting ends the program, which never tells that the game was lost.    *)
(* Winning ends it too, unless the tux thread sleeps: nobody wakes it      *)
(* then, and main waits for it for ever.                                   *)
TuxStranded == winner /\ ~quit_flag /\ main = "tux" /\ tux = "waiting"
GameEnds ==
    /\ quit_flag ~> main \in {"won", "quit"}
    /\ winner ~> (main = "won" \/ TuxStranded)
=============================================================================
