------------------------------ MODULE Terminal ------------------------------
(***************************************************************************)
(* The terminals of the MP3 kernel: the keyboard interrupt, which edits    *)
(* the line of the displayed terminal and echoes, the read of stdin by the *)
(* foreground program of each terminal, its writes to stdout, the switch   *)
(* of the displayed terminal, and the scheduler that interleaves the       *)
(* programs.                                                               *)
(*                                                                         *)
(* read executes sti, so a program can be interrupted at any point of the  *)
(* loop in which terminal_read waits for Enter: the two tests of the loop  *)
(* and the step to cli are actions of their own.  terminal_write and the   *)
(* interrupt handlers run with interrupts disabled.                        *)
(*                                                                         *)
(* Abstracted: scan codes and modifier keys (module Keyboard; a key here   *)
(* is what the handler makes of it), the cursor, and the text on a screen, *)
(* of which a page only remembers whose it is and how recent.              *)
(***************************************************************************)
EXTENDS Integers, Sequences

CONSTANTS
  MAX_TM,         \* number of terminals (3 in scheduler.h)
  LINE_BUF_SIZE,  \* size of kb_buf (128 in terminal.h)
  NBYTES,         \* the nbytes that programs pass to read (1023 in the shell)
  Chars,          \* what the ordinary keys type
  MaxKeys         \* bound: keys pressed in a behaviour

NUL == "NUL"
NL  == "NL"

ASSUME SizeAssumption ==
  /\ MAX_TM \in Nat \ {0}
  /\ LINE_BUF_SIZE \in Nat
  /\ LINE_BUF_SIZE >= 3
ASSUME ReadAssumption == NBYTES \subseteq Nat
ASSUME CharsAssumption == NL \notin Chars
ASSUME KeysAssumption == MaxKeys \in Nat

Terms  == 0 .. MAX_TM - 1
Index  == 0 .. LINE_BUF_SIZE - 1
Blank  == [i \in Index |-> NUL]

\* What a video page shows: the output of terminal "of" up to version "ver", or
\* a mixture (of = MAX_TM).  Two versions tell a stale page from a current one.
Contents == [of : 0 .. MAX_TM, ver : {0, 1}]
Mixture  == [of |-> MAX_TM, ver |-> 0]

VARIABLES
  terminal_tick,     \* the terminal whose program has the processor
  terminal_display,  \* the terminal on the screen
  enter_flag,        \* an entered line waits to be read
  kb_buf,            \* the line buffer of each terminal
  num_char,          \* the number of characters typed into it
  k_vid,             \* page at the kernel's video address: 0 is the screen
  page,              \* the screen and, at t + 1, the store of terminal t
  pc,                \* where the program of each terminal is
  \* history, with no counterpart in the code
  typed,             \* the line being typed on each terminal
  entered,           \* the line that was completed last
  quiet,             \* nothing was typed since
  text,              \* version of the output of each terminal
  keys               \* keys pressed

lines == <<enter_flag, kb_buf, num_char, typed, entered, quiet>>
video == <<k_vid, page, text>>
vars  == <<terminal_tick, terminal_display, lines, video, pc, keys>>

-----------------------------------------------------------------------------
(* Helpers. *)

\* The page that shows terminal t's output while terminal d is displayed.
VidPage(d, t) == IF d = t THEN 0 ELSE t + 1

\* A character of terminal t written to page i (putc).
Putc(i, t) ==
  /\ text' = [text EXCEPT ![t] = 1 - @]
  /\ page' = [page EXCEPT ![i] = IF @ = [of |-> t, ver |-> text[t]]
                                 THEN [of |-> t, ver |-> 1 - text[t]]
                                 ELSE Mixture]

\* Mistake: the character goes to the page of the running terminal.
PutDisTer_Unmapped == Putc(k_vid, terminal_display) /\ UNCHANGED k_vid

\* put_dis_ter: echo on the screen, then map the running terminal's page again.
PutDisTer ==
  /\ Putc(0, terminal_display)
  /\ k_vid' = VidPage(terminal_display, terminal_tick)

Init ==
  /\ terminal_tick = 0
  /\ terminal_display = 0
  /\ enter_flag = FALSE
  /\ kb_buf = [t \in Terms |-> Blank]
  /\ num_char = [t \in Terms |-> 0]
  /\ k_vid = 0
  /\ page = [i \in 0 .. MAX_TM |-> IF i = 1 THEN Mixture
                                   ELSE [of |-> IF i = 0 THEN 0 ELSE i - 1, ver |-> 0]]
  /\ pc = [t \in Terms |-> "user"]
  /\ typed = [t \in Terms |-> <<>>]
  /\ entered = <<>>
  /\ quiet = TRUE
  /\ text = [t \in Terms |-> 0]
  /\ keys = 0

-----------------------------------------------------------------------------
(* The scheduler: every terminal has its program by now. *)

Scheduler ==
  /\ terminal_tick' = (terminal_tick + 1) % MAX_TM
  /\ k_vid' = VidPage(terminal_display, terminal_tick')
  /\ UNCHANGED <<terminal_display, lines, page, text, pc, keys>>

-----------------------------------------------------------------------------
(* The program that has the processor. *)

At(l) == pc[terminal_tick] = l
Goto(l) == pc' = [pc EXCEPT ![terminal_tick] = l]

\* terminal_write of a character.
TerminalWrite == Putc(k_vid, terminal_tick)

\* write to the standard output; the calls that fail change nothing.
Write ==
  /\ At("user")
  /\ TerminalWrite
  /\ UNCHANGED <<terminal_tick, terminal_display, lines, k_vid, pc, keys>>

\* terminal_read with a good buffer.  Its nbytes only says how much of the line it
\* takes: see Copied.
TerminalRead ==
  /\ At("user")
  /\ Goto("enter_flag")
  /\ UNCHANGED <<terminal_tick, terminal_display, lines, video, keys>>

\* The first test of the waiting loop; while it fails nothing changes.
TestFlag ==
  /\ At("enter_flag")
  /\ enter_flag
  /\ Goto("display")
  /\ UNCHANGED <<terminal_tick, terminal_display, lines, video, keys>>

\* The second test of the waiting loop.
TestDisplay ==
  /\ At("display")
  /\ Goto(IF terminal_tick = terminal_display THEN "copy" ELSE "enter_flag")
  /\ UNCHANGED <<terminal_tick, terminal_display, lines, video, keys>>

\* What the copying loop delivers from buffer b to a read of n bytes.
Copied(b, n) ==
  LET limit == IF n - 1 < LINE_BUF_SIZE THEN n - 1 ELSE LINE_BUF_SIZE
      ends  == {i \in Index : i < limit /\ b[i] = NL}
      count == IF ends = {} THEN (IF limit < 0 THEN 0 ELSE limit)
               ELSE 1 + (CHOOSE i \in ends : \A j \in ends : i <= j)
  IN [i \in 1 .. count |-> b[i - 1]]

\* Two mistakes: the flag left up, and the index left where it was.
LineBufClear_KeepFlag ==
  /\ kb_buf' = [kb_buf EXCEPT ![terminal_display] = Blank]
  /\ num_char' = [num_char EXCEPT ![terminal_display] = 0]
  /\ enter_flag' = enter_flag
LineBufClear_KeepBuffer ==
  /\ kb_buf' = kb_buf
  /\ num_char' = [num_char EXCEPT ![terminal_display] = 1]
  /\ enter_flag' = FALSE

\* line_buf_clear and the flag.
LineBufClear ==
  /\ kb_buf' = [kb_buf EXCEPT ![terminal_display] = Blank]
  /\ num_char' = [num_char EXCEPT ![terminal_display] = 0]
  /\ enter_flag' = FALSE

\* The rest of terminal_read, between cli and sti: it delivers
\* Copied(kb_buf[terminal_display], nbytes).
CopyLine ==
  /\ At("copy")
  /\ Goto("user")
  /\ LineBufClear
  /\ typed' = [typed EXCEPT ![terminal_display] = <<>>]
  /\ UNCHANGED <<terminal_tick, terminal_display, video, entered, quiet, keys>>

-----------------------------------------------------------------------------
(* The keyboard interrupt. *)

Press == keys < MaxKeys /\ keys' = keys + 1

\* The line is full when only the line feed and the final NUL fit.
IsFull(d) == num_char[d] >= LINE_BUF_SIZE - 2

\* line_buf_in of an ordinary character; a full line drops it.
TypeChar(c) ==
  LET d == terminal_display IN
  /\ Press
  /\ IF IsFull(d)
     THEN UNCHANGED <<lines, video>>
     ELSE /\ kb_buf' = [kb_buf EXCEPT ![d][num_char[d]] = c]
          /\ num_char' = [num_char EXCEPT ![d] = @ + 1]
          /\ typed' = [typed EXCEPT ![d] = Append(@, c)]
          /\ quiet' = FALSE
          /\ PutDisTer
          /\ UNCHANGED <<enter_flag, entered>>
  /\ UNCHANGED <<terminal_tick, terminal_display, pc>>

\* line_buf_in of a line feed; it is ignored while another line waits.
TypeEnter ==
  LET d == terminal_display IN
  /\ Press
  /\ IF enter_flag
     THEN UNCHANGED <<lines, video>>
     ELSE /\ kb_buf' = [kb_buf EXCEPT ![d][IF IsFull(d) THEN LINE_BUF_SIZE - 2
                                           ELSE num_char[d]] = NL]
          /\ enter_flag' = TRUE
          /\ num_char' = [num_char EXCEPT ![d] = 0]
          /\ typed' = [typed EXCEPT ![d] = <<>>]
          /\ entered' = typed[d]
          /\ quiet' = TRUE
          /\ PutDisTer
  /\ UNCHANGED <<terminal_tick, terminal_display, pc>>

\* line_buf_in of a backspace: a full line only moves its index back.
TypeBackspace ==
  LET d == terminal_display IN
  /\ Press
  /\ IF num_char[d] = 0
     THEN UNCHANGED <<lines, video>>
     ELSE /\ kb_buf' = [kb_buf EXCEPT ![d][IF IsFull(d) THEN LINE_BUF_SIZE - 1
                                           ELSE num_char[d] - 1] = NUL]
          /\ num_char' = [num_char EXCEPT ![d] = @ - 1]
          /\ typed' = [typed EXCEPT ![d] = SubSeq(@, 1, Len(@) - 1)]
          /\ quiet' = FALSE
          /\ PutDisTer
          /\ UNCHANGED <<enter_flag, entered>>
  /\ UNCHANGED <<terminal_tick, terminal_display, pc>>

\* Control-L: clear() wipes the screen of the displayed terminal.
ClearScreen ==
  LET d == terminal_display IN
  /\ Press
  /\ text' = [text EXCEPT ![d] = 1 - @]
  /\ page' = [page EXCEPT ![0] = [of |-> d, ver |-> 1 - text[d]]]
  /\ k_vid' = VidPage(d, terminal_tick)
  /\ UNCHANGED <<terminal_tick, terminal_display, lines, pc>>

\* Mistake: the flag of the old terminal left up.
DropEntered_Not == enter_flag' = enter_flag

DropEntered == enter_flag' = FALSE

\* switch_visible_terminal: it drops an entered line even if d is displayed.
SwitchVisibleTerminal(d) ==
  LET old == terminal_display IN
  /\ Press
  /\ DropEntered
  /\ terminal_display' = d
  /\ IF d = old
     THEN UNCHANGED <<k_vid, page>>
     ELSE /\ page' = [page EXCEPT ![old + 1] = page[0], ![0] = page[d + 1]]
          /\ k_vid' = VidPage(d, terminal_tick)
  /\ UNCHANGED <<terminal_tick, kb_buf, num_char, typed, entered, quiet, text, pc>>

Program  == TerminalRead \/ TestFlag \/ TestDisplay \/ CopyLine
Keyboard ==
  \/ \E c \in Chars : TypeChar(c)
  \/ TypeEnter
  \/ TypeBackspace
  \/ ClearScreen
  \/ \E d \in Terms : SwitchVisibleTerminal(d)

Next == Scheduler \/ Program \/ Write \/ Keyboard

\* The PIT interrupts again and again, and a slice of 15 ms is long enough for
\* the few instructions of a step, so that a program that has something to do
\* whenever it is scheduled does it.  Programs come back to read.
Fairness == WF_vars(Scheduler) /\ \A t \in Terms : SF_vars(terminal_tick = t /\ Program)

Spec == Init /\ [][Next]_vars /\ Fairness

-----------------------------------------------------------------------------
(* Invariants. *)

TypeOK ==
  /\ terminal_tick \in Terms
  /\ terminal_display \in Terms
  /\ enter_flag \in BOOLEAN
  /\ kb_buf \in [Terms -> [Index -> Chars \cup {NL, NUL}]]
  /\ num_char \in [Terms -> 0 .. LINE_BUF_SIZE - 2]
  /\ k_vid \in 0 .. MAX_TM
  /\ page \in [0 .. MAX_TM -> Contents]
  /\ pc \in [Terms -> {"user", "enter_flag", "display", "copy"}]
  /\ typed \in [Terms -> Seq(Chars)]
  /\ entered \in Seq(Chars)
  /\ quiet \in BOOLEAN
  /\ text \in [Terms -> {0, 1}]
  /\ keys \in 0 .. MaxKeys

\* Whatever is typed, erased, dropped at the limit or cleared, on whichever
\* terminal, the first num_char characters of a line buffer are the line as
\* its user sees it.
LineBuffered ==
  \A t \in Terms :
    /\ num_char[t] = Len(typed[t])
    /\ \A i \in 1 .. num_char[t] : kb_buf[t][i - 1] = typed[t][i]

\* While a line waits and nothing was typed after its Enter, a read delivers
\* just that line, cut to nbytes - 1, and the line belongs to the terminal on
\* the screen, however often the displayed terminal was switched.
EnteredLineDelivered ==
  enter_flag /\ quiet =>
    \A n \in NBYTES :
      LET line == Append(entered, NL)
          m    == IF n <= 1 THEN 0 ELSE IF n - 1 < Len(line) THEN n - 1 ELSE Len(line)
      IN Copied(kb_buf[terminal_display], n) = SubSeq(line, 1, m)

\* The output of a terminal and its echo, and nothing else, are on the page that
\* shows it, whichever terminal runs or is displayed.
PagesShowTerminals ==
  \A t \in Terms : page[VidPage(terminal_display, t)] = [of |-> t, ver |-> text[t]]

-----------------------------------------------------------------------------
(* What a step may never do, and what must happen. *)

\* A line that waits does not lock the keyboard's Enter for ever: the program of
\* the displayed terminal reads it (or a switch drops it).
EnteredLineTaken == enter_flag ~> ~enter_flag

=============================================================================
