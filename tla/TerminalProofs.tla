--------------------------- MODULE TerminalProofs ---------------------------
(***************************************************************************)
(* For any number of terminals, size of the line buffer and sizes of       *)
(* reads: the line buffers hold what is typed, an entered line is what a   *)
(* read delivers, and every page shows its terminal.  For every set of     *)
(* processes and every frequency that divides the chip's: the virtual      *)
(* clock keeps its period.                                                 *)
(***************************************************************************)
EXTENDS Keyboard, Rtc, SequenceTheorems, TLAPS

USE SizeAssumption, ReadAssumption, CharsAssumption, KeysAssumption

Bytes == Chars \cup {NL, NUL}
Lines == [Index -> Bytes]

(* The conjuncts of TypeOK about the lines and about the video pages. *)
LineTypes ==
  /\ terminal_display \in Terms
  /\ kb_buf \in [Terms -> Lines]
  /\ num_char \in [Terms -> 0 .. LINE_BUF_SIZE - 2]
  /\ typed \in [Terms -> Seq(Chars)]
  /\ entered \in Seq(Chars)

(* The line that was entered, in the buffer of the displayed terminal. *)
Holds(b, line) ==
  /\ Len(line) <= LINE_BUF_SIZE - 2
  /\ \A i \in 1 .. Len(line) : b[i - 1] = line[i]
  /\ b[Len(line)] = NL

LineInv ==
  /\ LineTypes
  /\ LineBuffered
  /\ enter_flag /\ quiet => Holds(kb_buf[terminal_display], entered)

----------------------------------------------------------------------------
(* Sequences. *)

\* A line and one more character.
LEMMA Longer ==
  ASSUME NEW s \in Seq(Chars), NEW c \in Chars
  PROVE  /\ Append(s, c) \in Seq(Chars)
         /\ Len(Append(s, c)) = Len(s) + 1
         /\ \A i \in 1 .. Len(s) : Append(s, c)[i] = s[i]
         /\ Append(s, c)[Len(s) + 1] = c
OBVIOUS

\* A line and one character less.
LEMMA Shorter ==
  ASSUME NEW s \in Seq(Chars), Len(s) > 0
  PROVE  /\ SubSeq(s, 1, Len(s) - 1) \in Seq(Chars)
         /\ Len(SubSeq(s, 1, Len(s) - 1)) = Len(s) - 1
         /\ \A i \in 1 .. Len(s) - 1 : SubSeq(s, 1, Len(s) - 1)[i] = s[i]
<1>. DEFINE k == Len(s)
            r == SubSeq(s, 1, k - 1)
<1>1. k \in Nat /\ k - 1 \in Int /\ \A i \in 1 .. k - 1 : s[i] \in Chars
  BY ElementOfSeq
<1>2. r \in Seq(Chars)
  BY <1>1, SubSeqProperties
<1>3. Len(r) = k - 1
  <2>1. Len(r) = IF 1 <= k - 1 THEN (k - 1) - 1 + 1 ELSE 0
    BY <1>1, SubSeqProperties
  <2>. HIDE DEF k, r
  <2>2. k > 0
    BY DEF k
  <2>. QED
    BY <1>1, <2>1, <2>2
<1>4. \A i \in 1 .. k - 1 : r[i] = s[i]
  BY <1>1, SubSeqProperties
<1>. QED
  BY <1>2, <1>3, <1>4

\* The least element of a set of numbers.
LEMMA LeastOf ==
  ASSUME NEW S \in SUBSET Int, NEW k \in S, \A j \in S : k <= j
  PROVE  (CHOOSE i \in S : \A j \in S : i <= j) = k
<1>1. \A i \in S : (\A j \in S : i <= j) => i = k
  OBVIOUS
<1>. QED
  BY <1>1, Zenon

----------------------------------------------------------------------------
(* The keyboard interrupt. *)

LEMMA TypeCharInv ==
  ASSUME LineInv, NEW c \in Chars, TypeChar(c)
  PROVE  LineInv'
<1>. DEFINE d == terminal_display
            n == num_char[d]
<1>0. LineTypes /\ LineBuffered /\ d \in Terms /\ n \in 0 .. LINE_BUF_SIZE - 2
  BY DEF LineInv, LineTypes
<1>1. CASE IsFull(d)
  BY <1>1 DEF LineInv, LineTypes, LineBuffered, TypeChar, lines
<1>2. CASE ~IsFull(d)
  <2>1. /\ kb_buf' = [kb_buf EXCEPT ![d][n] = c]
        /\ num_char' = [num_char EXCEPT ![d] = n + 1]
        /\ typed' = [typed EXCEPT ![d] = Append(typed[d], c)]
        /\ quiet' = FALSE /\ entered' = entered /\ terminal_display' = terminal_display
    BY <1>2 DEF TypeChar
  <2>2. n \in Index /\ n + 1 \in 0 .. LINE_BUF_SIZE - 2 /\ c \in Bytes
    BY <1>0, <1>2 DEF IsFull, Index, Bytes
  <2>. HIDE DEF d, n
  <2>3. /\ kb_buf' \in [Terms -> Lines] /\ kb_buf'[d][n] = c
        /\ \A j \in Index \ {n} : kb_buf'[d][j] = kb_buf[d][j]
        /\ \A t \in Terms \ {d} : kb_buf'[t] = kb_buf[t]
    <3>1. kb_buf \in [Terms -> Lines]
      BY <1>0 DEF LineTypes
    <3>. QED
      BY <1>0, <2>1, <2>2, <3>1 DEF Lines
  <2>4. typed[d] \in Seq(Chars) /\ n = Len(typed[d])
    BY <1>0 DEF LineTypes, LineBuffered, n
  <2>5. /\ typed'[d] \in Seq(Chars) /\ Len(typed'[d]) = n + 1
        /\ \A i \in 1 .. n : typed'[d][i] = typed[d][i]
        /\ typed'[d][n + 1] = c
    BY <1>0, <2>1, <2>4, Longer DEF LineTypes
  <2>6. LineTypes'
    BY <1>0, <2>1, <2>2, <2>3, <2>5 DEF LineTypes
  <2>7. ASSUME NEW t \in Terms
        PROVE  num_char'[t] = Len(typed'[t]) /\ \A i \in 1 .. num_char'[t] : kb_buf'[t][i - 1] = typed'[t][i]
    <3>1. CASE t = d
      <4>1. num_char'[d] = n + 1
        BY <1>0, <2>1 DEF LineTypes
      <4>2. ASSUME NEW i \in 1 .. n + 1 PROVE kb_buf'[d][i - 1] = typed'[d][i]
        <5>1. CASE i = n + 1
          BY <1>0, <2>3, <2>5, <5>1
        <5>2. CASE i # n + 1
          <6>1. i \in 1 .. n /\ i - 1 \in Index \ {n}
            BY <1>0, <5>2 DEF Index
          <6>2. kb_buf[d][i - 1] = typed[d][i]
            BY <1>0, <6>1 DEF LineBuffered, n
          <6>. QED
            BY <2>3, <2>5, <6>1, <6>2
        <5>. QED
          BY <5>1, <5>2
      <4>. QED
        BY <2>5, <3>1, <4>1, <4>2
    <3>2. CASE t # d
      BY <1>0, <2>1, <2>3, <3>2 DEF LineBuffered, LineTypes
    <3>. QED
      BY <3>1, <3>2
  <2>8. LineBuffered'
    BY <2>7 DEF LineBuffered
  <2>. QED
    BY <2>1, <2>6, <2>8 DEF LineInv
<1>. QED
  BY <1>1, <1>2

LEMMA TypeEnterInv ==
  ASSUME LineInv, TypeEnter
  PROVE  LineInv'
<1>. DEFINE d == terminal_display
            n == num_char[d]
<1>0. LineTypes /\ LineBuffered /\ d \in Terms /\ n \in 0 .. LINE_BUF_SIZE - 2
  BY DEF LineInv, LineTypes
<1>1. CASE enter_flag
  BY <1>1 DEF LineInv, LineTypes, LineBuffered, TypeEnter, lines
<1>2. CASE ~enter_flag
  <2>0. (IF IsFull(d) THEN LINE_BUF_SIZE - 2 ELSE n) = n
    BY <1>0 DEF IsFull
  <2>1. /\ kb_buf' = [kb_buf EXCEPT ![d][n] = NL]
        /\ num_char' = [num_char EXCEPT ![d] = 0]
        /\ typed' = [typed EXCEPT ![d] = <<>>]
        /\ entered' = typed[d] /\ terminal_display' = terminal_display
    BY <1>2, <2>0 DEF TypeEnter
  <2>2. n \in Index /\ NL \in Bytes
    BY <1>0 DEF Index, Bytes
  <2>. HIDE DEF d, n
  <2>3. /\ kb_buf' \in [Terms -> Lines] /\ kb_buf'[d][n] = NL
        /\ \A j \in Index \ {n} : kb_buf'[d][j] = kb_buf[d][j]
        /\ \A t \in Terms \ {d} : kb_buf'[t] = kb_buf[t]
    <3>1. kb_buf \in [Terms -> Lines]
      BY <1>0 DEF LineTypes
    <3>. QED
      BY <1>0, <2>1, <2>2, <3>1 DEF Lines
  <2>4. typed[d] \in Seq(Chars) /\ n = Len(typed[d])
    BY <1>0 DEF LineTypes, LineBuffered, n
  <2>5. LineTypes'
    BY <1>0, <2>1, <2>3, <2>4 DEF LineTypes
  <2>6. ASSUME NEW t \in Terms
        PROVE  num_char'[t] = Len(typed'[t]) /\ \A i \in 1 .. num_char'[t] : kb_buf'[t][i - 1] = typed'[t][i]
    <3>1. CASE t = d
      BY <1>0, <2>1, <3>1 DEF LineTypes
    <3>2. CASE t # d
      BY <1>0, <2>1, <2>3, <3>2 DEF LineBuffered, LineTypes
    <3>. QED
      BY <3>1, <3>2
  <2>7. LineBuffered'
    BY <2>6 DEF LineBuffered
  <2>8. Holds(kb_buf'[d], entered')
    <3>1. ASSUME NEW i \in 1 .. n PROVE kb_buf'[d][i - 1] = typed[d][i]
      <4>1. i - 1 \in Index \ {n}
        BY <1>0 DEF Index
      <4>2. kb_buf[d][i - 1] = typed[d][i]
        BY <1>0 DEF LineBuffered, n
      <4>. QED
        BY <2>3, <4>1, <4>2
    <3>. QED
      BY <1>0, <2>1, <2>3, <2>4, <3>1 DEF Holds
  <2>. QED
    BY <2>1, <2>5, <2>7, <2>8 DEF LineInv, d
<1>. QED
  BY <1>1, <1>2

LEMMA TypeBackspaceInv ==
  ASSUME LineInv, TypeBackspace
  PROVE  LineInv'
<1>. DEFINE d == terminal_display
            n == num_char[d]
            k == IF IsFull(d) THEN LINE_BUF_SIZE - 1 ELSE n - 1
<1>0. LineTypes /\ LineBuffered /\ d \in Terms /\ n \in 0 .. LINE_BUF_SIZE - 2
  BY DEF LineInv, LineTypes
<1>1. CASE n = 0
  BY <1>1 DEF LineInv, LineTypes, LineBuffered, TypeBackspace, lines
<1>2. CASE n # 0
  <2>1. /\ kb_buf' = [kb_buf EXCEPT ![d][k] = NUL]
        /\ num_char' = [num_char EXCEPT ![d] = n - 1]
        /\ typed' = [typed EXCEPT ![d] = SubSeq(typed[d], 1, Len(typed[d]) - 1)]
        /\ quiet' = FALSE /\ entered' = entered /\ terminal_display' = terminal_display
    BY <1>2 DEF TypeBackspace
  <2>2. /\ k \in Index /\ k >= n - 1 /\ k \in Int
        /\ n - 1 \in 0 .. LINE_BUF_SIZE - 2 /\ NUL \in Bytes
    BY <1>0, <1>2 DEF IsFull, Index, Bytes
  <2>. HIDE DEF d, n, k
  <2>3. /\ kb_buf' \in [Terms -> Lines]
        /\ \A j \in Index \ {k} : kb_buf'[d][j] = kb_buf[d][j]
        /\ \A t \in Terms \ {d} : kb_buf'[t] = kb_buf[t]
    <3>1. kb_buf \in [Terms -> Lines]
      BY <1>0 DEF LineTypes
    <3>. QED
      BY <1>0, <2>1, <2>2, <3>1 DEF Lines
  <2>4. typed[d] \in Seq(Chars) /\ n = Len(typed[d])
    BY <1>0 DEF LineTypes, LineBuffered, n
  <2>5. /\ typed'[d] \in Seq(Chars) /\ Len(typed'[d]) = n - 1
        /\ \A i \in 1 .. n - 1 : typed'[d][i] = typed[d][i]
    <3>1. typed'[d] = SubSeq(typed[d], 1, Len(typed[d]) - 1)
      BY <1>0, <2>1 DEF LineTypes
    <3>. QED
      BY <1>0, <1>2, <2>4, <3>1, Shorter
  <2>6. LineTypes'
    BY <1>0, <2>1, <2>2, <2>3, <2>5 DEF LineTypes
  <2>7. ASSUME NEW t \in Terms
        PROVE  num_char'[t] = Len(typed'[t]) /\ \A i \in 1 .. num_char'[t] : kb_buf'[t][i - 1] = typed'[t][i]
    <3>1. CASE t = d
      <4>1. num_char'[d] = n - 1
        BY <1>0, <2>1 DEF LineTypes
      <4>2. ASSUME NEW i \in 1 .. n - 1 PROVE kb_buf'[d][i - 1] = typed'[d][i]
        <5>1. i \in 1 .. n /\ i - 1 \in Index \ {k}
          BY <1>0, <2>2 DEF Index
        <5>2. kb_buf[d][i - 1] = typed[d][i]
          BY <1>0, <5>1 DEF LineBuffered, n
        <5>. QED
          BY <2>3, <2>5, <5>1, <5>2
      <4>. QED
        BY <2>5, <3>1, <4>1, <4>2
    <3>2. CASE t # d
      BY <1>0, <2>1, <2>3, <3>2 DEF LineBuffered, LineTypes
    <3>. QED
      BY <3>1, <3>2
  <2>8. LineBuffered'
    BY <2>7 DEF LineBuffered
  <2>. QED
    BY <2>1, <2>6, <2>8 DEF LineInv
<1>. QED
  BY <1>1, <1>2

----------------------------------------------------------------------------
(* The other steps. *)

\* A read takes the line and clears the buffer and the flag.
LEMMA CopyLineInv ==
  ASSUME LineInv, CopyLine
  PROVE  LineInv'
<1>. DEFINE d == terminal_display
<1>1. LineTypes /\ LineBuffered /\ d \in Terms
  BY DEF LineInv, LineTypes
<1>2. /\ kb_buf' = [kb_buf EXCEPT ![d] = Blank]
      /\ num_char' = [num_char EXCEPT ![d] = 0]
      /\ typed' = [typed EXCEPT ![d] = <<>>]
      /\ enter_flag' = FALSE /\ entered' = entered /\ terminal_display' = terminal_display
  BY DEF CopyLine, LineBufClear
<1>. HIDE DEF d
<1>3. Blank \in Lines /\ <<>> \in Seq(Chars) /\ Len(<<>>) = 0
  BY DEF Blank, Lines, Bytes
<1>4. LineTypes'
  BY <1>1, <1>2, <1>3 DEF LineTypes
<1>5. ASSUME NEW t \in Terms
      PROVE  num_char'[t] = Len(typed'[t]) /\ \A i \in 1 .. num_char'[t] : kb_buf'[t][i - 1] = typed'[t][i]
  <2>1. CASE t = d
    BY <1>1, <1>2, <1>3, <2>1 DEF LineTypes
  <2>2. CASE t # d
    BY <1>1, <1>2, <2>2 DEF LineBuffered, LineTypes
  <2>. QED
    BY <2>1, <2>2
<1>6. LineBuffered'
  BY <1>5 DEF LineBuffered
<1>. QED
  BY <1>2, <1>4, <1>6 DEF LineInv

\* A step that leaves the lines and the displayed terminal alone.
LEMMA SameLines ==
  ASSUME LineInv, UNCHANGED <<terminal_display, lines>>
  PROVE  LineInv'
BY DEF LineInv, LineTypes, LineBuffered, lines

LEMMA SwitchInv ==
  ASSUME LineInv, NEW d \in Terms, SwitchVisibleTerminal(d)
  PROVE  LineInv'
<1>1. /\ UNCHANGED <<kb_buf, num_char, typed, entered>>
      /\ terminal_display' \in Terms /\ enter_flag' = FALSE
  BY DEF SwitchVisibleTerminal, DropEntered
<1>. QED
  BY <1>1 DEF LineInv, LineTypes, LineBuffered

LEMMA LineNext == LineInv /\ [Next]_vars => LineInv'
<1>. SUFFICES ASSUME LineInv, [Next]_vars PROVE LineInv'
  OBVIOUS
<1>1. CASE Scheduler \/ TerminalRead \/ TestFlag \/ TestDisplay \/ Write \/ ClearScreen
  <2>1. UNCHANGED <<terminal_display, lines>>
    BY <1>1 DEF Scheduler, TerminalRead, TestFlag, TestDisplay, Write, ClearScreen
  <2>. QED
    BY <2>1, SameLines
<1>2. CASE CopyLine
  BY <1>2, CopyLineInv
<1>3. CASE \E c \in Chars : TypeChar(c)
  BY <1>3, TypeCharInv
<1>4. CASE TypeEnter
  BY <1>4, TypeEnterInv
<1>5. CASE TypeBackspace
  BY <1>5, TypeBackspaceInv
<1>6. CASE \E d \in Terms : SwitchVisibleTerminal(d)
  BY <1>6, SwitchInv
<1>7. CASE UNCHANGED vars
  BY <1>7, SameLines DEF vars
<1>. QED
  BY <1>1, <1>2, <1>3, <1>4, <1>5, <1>6, <1>7 DEF Next, Program, Keyboard

LEMMA LineInit == Init => LineInv
<1>. SUFFICES ASSUME Init PROVE LineInv
  OBVIOUS
<1>1. 0 \in Terms /\ Blank \in Lines /\ <<>> \in Seq(Chars) /\ Len(<<>>) = 0 /\ 0 \in 0 .. LINE_BUF_SIZE - 2
  BY DEF Terms, Blank, Lines, Bytes
<1>2. LineTypes
  BY <1>1 DEF Init, LineTypes
<1>3. LineBuffered
  BY <1>1 DEF Init, LineBuffered
<1>. QED
  BY <1>2, <1>3 DEF Init, LineInv

----------------------------------------------------------------------------
(* What a read delivers of a line that was entered. *)

LEMMA LineDelivered ==
  ASSUME NEW b, NEW line \in Seq(Chars), Holds(b, line), NEW n \in Nat
  PROVE  LET e == Append(line, NL)
             m == IF n <= 1 THEN 0 ELSE IF n - 1 < Len(e) THEN n - 1 ELSE Len(e)
         IN  Copied(b, n) = SubSeq(e, 1, m)
<1>. DEFINE e == Append(line, NL)
            k == Len(line)
            m == IF n <= 1 THEN 0 ELSE IF n - 1 < Len(e) THEN n - 1 ELSE Len(e)
            limit == IF n - 1 < LINE_BUF_SIZE THEN n - 1 ELSE LINE_BUF_SIZE
            ends == {i \in Index : i < limit /\ b[i] = NL}
            least == CHOOSE i \in ends : \A j \in ends : i <= j
            count == IF ends = {} THEN (IF limit < 0 THEN 0 ELSE limit) ELSE 1 + least
<1>1. /\ k \in Nat /\ k <= LINE_BUF_SIZE - 2 /\ limit \in Int
      /\ Len(e) = k + 1 /\ e[k + 1] = NL /\ b[k] = NL
      /\ \A i \in 1 .. k : e[i] = line[i]
  BY DEF Holds
<1>2. \A i \in 1 .. k : b[i - 1] = line[i] /\ b[i - 1] # NL
  <2>1. ASSUME NEW i \in 1 .. k PROVE line[i] \in Chars
    BY ElementOfSeq
  <2>. QED
    BY <2>1 DEF Holds
<1>. HIDE DEF k
<1>3. \A j \in ends : k <= j
  <2>1. ASSUME NEW j \in Index, j < k PROVE b[j] # NL
    <3>1. j + 1 \in 1 .. k /\ (j + 1) - 1 = j
      BY <1>1, <2>1 DEF Index
    <3>. QED
      BY <1>2, <3>1
  <2>. QED
    BY <1>1, <2>1 DEF Index
<1>. HIDE DEF e
<1>4. count = m /\ m \in 0 .. k + 1
  <2>1. CASE k < limit
    <3>1. k \in ends
      BY <1>1, <2>1 DEF Index
    <3>2. ends \subseteq Int
      BY DEF Index
    <3>. HIDE DEF ends
    <3>3. least = k
      BY <1>1, <1>3, <3>1, <3>2, LeastOf
    <3>. HIDE DEF least
    <3>4. count = k + 1
      BY <1>1, <3>1, <3>3
    <3>5. m = k + 1
      BY <1>1, <2>1
    <3>. QED
      BY <1>1, <3>4, <3>5
  <2>2. CASE ~(k < limit)
    <3>1. ends = {}
      BY <1>1, <1>3, <2>2 DEF Index
    <3>. HIDE DEF ends
    <3>. QED
      BY <1>1, <2>2, <3>1
  <2>. QED
    BY <2>1, <2>2
<1>5. ASSUME NEW i \in 1 .. k + 1 PROVE b[i - 1] = e[i]
  <2>1. CASE i = k + 1
    <3>1. i - 1 = k
      BY <1>1, <2>1
    <3>. QED
      BY <1>1, <2>1, <3>1
  <2>2. CASE i # k + 1
    <3>1. i \in 1 .. k
      BY <1>1, <2>2
    <3>. QED
      BY <1>1, <1>2, <3>1
  <2>. QED
    BY <2>1, <2>2
<1>6. Copied(b, n) = [i \in 1 .. count |-> b[i - 1]]
  BY DEF Copied
<1>7. SubSeq(e, 1, m) = [i \in 1 .. m |-> e[i]]
  <2>. HIDE DEF m
  <2>1. \A i \in 1 .. m : e[i] \in Chars \cup {NL}
    <3>1. \A i \in 1 .. k : line[i] \in Chars
      BY ElementOfSeq DEF k
    <3>. QED
      BY <1>1, <1>4, <3>1
  <2>2. /\ SubSeq(e, 1, m) \in Seq(Chars \cup {NL}) /\ Len(SubSeq(e, 1, m)) = m
    BY <1>1, <1>4, <2>1, SubSeqProperties
  <2>3. \A i \in 1 .. m : SubSeq(e, 1, m)[i] = e[i]
    BY <1>1, <1>4, <2>1, SubSeqProperties
  <2>. QED
    BY <2>2, <2>3
<1>. HIDE DEF count, m
<1>8. Copied(b, n) = SubSeq(e, 1, m)
  BY <1>1, <1>4, <1>5, <1>6, <1>7
<1>. QED
  BY <1>8 DEF m, e

----------------------------------------------------------------------------
(* The pages. *)

PageInv ==
  /\ terminal_tick \in Terms /\ terminal_display \in Terms
  /\ k_vid = VidPage(terminal_display, terminal_tick)
  /\ page \in [0 .. MAX_TM -> Contents]
  /\ text \in [Terms -> {0, 1}]
  /\ PagesShowTerminals

LEMMA PageOf ==
  ASSUME NEW d \in Terms, NEW t \in Terms
  PROVE  /\ VidPage(d, t) \in 0 .. MAX_TM
         /\ \A u \in Terms : VidPage(d, t) = VidPage(d, u) => t = u
         /\ VidPage(d, d) = 0
BY DEF VidPage, Terms

\* A character on the page that shows its terminal.
LEMMA PutcShows ==
  ASSUME PageInv, NEW t \in Terms, Putc(VidPage(terminal_display, t), t),
         UNCHANGED <<terminal_tick, terminal_display>>,
         k_vid' = VidPage(terminal_display, terminal_tick)
  PROVE  PageInv'
<1>. DEFINE p == VidPage(terminal_display, t)
            now == [of |-> t, ver |-> 1 - text[t]]
<1>1. /\ p \in 0 .. MAX_TM /\ text[t] \in {0, 1} /\ 1 - text[t] \in {0, 1}
      /\ page[p] = [of |-> t, ver |-> text[t]] /\ now \in Contents
  <2>1. /\ p \in 0 .. MAX_TM /\ page[p] = [of |-> t, ver |-> text[t]] /\ text[t] \in {0, 1}
    BY PageOf DEF PageInv, PagesShowTerminals
  <2>2. 1 - text[t] \in {0, 1}
    BY <2>1
  <2>3. t \in 0 .. MAX_TM
    BY DEF Terms
  <2>. QED
    BY <2>1, <2>2, <2>3 DEF Contents
<1>2. text' = [text EXCEPT ![t] = 1 - text[t]] /\ page' = [page EXCEPT ![p] = now]
  BY <1>1 DEF Putc
<1>. HIDE DEF p, now
<1>3. page' \in [0 .. MAX_TM -> Contents] /\ text' \in [Terms -> {0, 1}]
  BY <1>1, <1>2 DEF PageInv
<1>4. ASSUME NEW u \in Terms
      PROVE  page'[VidPage(terminal_display, u)] = [of |-> u, ver |-> text'[u]]
  <2>1. /\ VidPage(terminal_display, u) \in 0 .. MAX_TM
        /\ page[VidPage(terminal_display, u)] = [of |-> u, ver |-> text[u]]
        /\ u # t => VidPage(terminal_display, u) # p
    BY PageOf DEF PageInv, PagesShowTerminals, p
  <2>2. CASE u = t
    BY <1>1, <1>2, <2>2 DEF PageInv, p, now
  <2>3. CASE u # t
    BY <1>1, <1>2, <2>1, <2>3 DEF PageInv
  <2>. QED
    BY <2>2, <2>3
<1>5. PagesShowTerminals'
  BY <1>4 DEF PagesShowTerminals, VidPage
<1>. QED
  BY <1>3, <1>5 DEF PageInv, VidPage

\* The echo goes to the screen.
LEMMA EchoShows ==
  ASSUME PageInv, PutDisTer, UNCHANGED <<terminal_tick, terminal_display>>
  PROVE  PageInv'
<1>1. VidPage(terminal_display, terminal_display) = 0 /\ terminal_display \in Terms
  BY PageOf DEF PageInv
<1>. QED
  BY <1>1, PutcShows DEF PutDisTer

LEMMA ClearShows ==
  ASSUME PageInv, ClearScreen
  PROVE  PageInv'
<1>. DEFINE d == terminal_display
            now == [of |-> d, ver |-> 1 - text[d]]
<1>1. /\ d \in Terms /\ text' = [text EXCEPT ![d] = 1 - text[d]] /\ page' = [page EXCEPT ![0] = now]
      /\ UNCHANGED <<terminal_tick, terminal_display>> /\ k_vid' = VidPage(d, terminal_tick)
  BY DEF ClearScreen, PageInv
<1>2. 1 - text[d] \in {0, 1} /\ now \in Contents /\ 0 \in 0 .. MAX_TM
  <2>1. 1 - text[d] \in {0, 1}
    BY <1>1 DEF PageInv
  <2>2. d \in 0 .. MAX_TM
    BY <1>1 DEF Terms
  <2>. QED
    BY <2>1, <2>2 DEF Contents
<1>. HIDE DEF d, now
<1>3. page' \in [0 .. MAX_TM -> Contents] /\ text' \in [Terms -> {0, 1}]
  BY <1>1, <1>2 DEF PageInv
<1>4. ASSUME NEW u \in Terms
      PROVE  page'[VidPage(d, u)] = [of |-> u, ver |-> text'[u]]
  <2>1. /\ VidPage(d, u) \in 0 .. MAX_TM /\ page[VidPage(d, u)] = [of |-> u, ver |-> text[u]]
    BY <1>1, PageOf DEF PageInv, PagesShowTerminals, d
  <2>2. CASE u = d
    <3>1. VidPage(d, u) = 0
      BY <2>2 DEF VidPage
    <3>. QED
      BY <1>1, <1>2, <2>2, <3>1 DEF PageInv, now
  <2>3. CASE u # d
    <3>1. VidPage(d, u) # 0
      BY <2>3 DEF VidPage, Terms
    <3>. QED
      BY <1>1, <1>2, <2>1, <2>3, <3>1 DEF PageInv
  <2>. QED
    BY <2>2, <2>3
<1>5. PagesShowTerminals'
  BY <1>1, <1>4 DEF PagesShowTerminals, VidPage, d
<1>. QED
  BY <1>1, <1>3, <1>5 DEF PageInv, VidPage, d

\* The screen goes to the store of the old terminal, the store of the new one
\* to the screen.
LEMMA SwitchShows ==
  ASSUME PageInv, NEW d \in Terms, SwitchVisibleTerminal(d)
  PROVE  PageInv'
<1>. DEFINE old == terminal_display
<1>1. CASE d = old
  <2>1. UNCHANGED <<terminal_tick, terminal_display, k_vid, page, text>>
    BY <1>1 DEF SwitchVisibleTerminal
  <2>. QED
    BY <2>1 DEF PageInv, PagesShowTerminals, VidPage
<1>2. CASE d # old
  <2>1. /\ page' = [page EXCEPT ![old + 1] = page[0], ![0] = page[d + 1]]
        /\ terminal_display' = d /\ k_vid' = VidPage(d, terminal_tick)
        /\ UNCHANGED <<terminal_tick, text>>
    BY <1>2 DEF SwitchVisibleTerminal
  <2>2. /\ old \in Terms /\ old + 1 \in 1 .. MAX_TM /\ d + 1 \in 1 .. MAX_TM /\ 0 \in 0 .. MAX_TM
        /\ page[0] = [of |-> old, ver |-> text[old]]
        /\ page[d + 1] = [of |-> d, ver |-> text[d]]
    <3>1. old \in Terms /\ old + 1 \in 1 .. MAX_TM /\ d + 1 \in 1 .. MAX_TM /\ 0 \in 0 .. MAX_TM
      BY DEF PageInv, Terms
    <3>2. page[VidPage(old, old)] = [of |-> old, ver |-> text[old]]
      BY <3>1 DEF PageInv, PagesShowTerminals
    <3>3. page[VidPage(old, d)] = [of |-> d, ver |-> text[d]]
      BY DEF PageInv, PagesShowTerminals
    <3>. QED
      BY <1>2, <3>1, <3>2, <3>3 DEF VidPage
  <2>. HIDE DEF old
  <2>3. /\ page' \in [0 .. MAX_TM -> Contents]
        /\ page'[0] = page[d + 1] /\ page'[old + 1] = page[0]
        /\ \A i \in 1 .. MAX_TM : i # old + 1 => page'[i] = page[i]
    <3>1. page \in [0 .. MAX_TM -> Contents]
      BY DEF PageInv
    <3>. QED
      BY <2>1, <2>2, <3>1
  <2>4. ASSUME NEW u \in Terms
        PROVE  page'[VidPage(d, u)] = [of |-> u, ver |-> text[u]]
    <3>1. CASE u = d
      BY <2>2, <2>3, <3>1 DEF VidPage
    <3>2. CASE u = old /\ u # d
      BY <2>2, <2>3, <3>2 DEF VidPage
    <3>3. CASE u # old /\ u # d
      <4>1. VidPage(d, u) = u + 1 /\ u + 1 \in 1 .. MAX_TM /\ u + 1 # old + 1
        BY <2>2, <3>3 DEF VidPage, Terms
      <4>2. page[u + 1] = [of |-> u, ver |-> text[u]]
        BY <3>3 DEF PageInv, PagesShowTerminals, VidPage, old
      <4>. QED
        BY <2>3, <4>1, <4>2
    <3>. QED
      BY <3>1, <3>2, <3>3
  <2>5. PagesShowTerminals'
    BY <2>1, <2>4 DEF PagesShowTerminals, VidPage
  <2>. QED
    BY <2>1, <2>3, <2>5 DEF PageInv, VidPage
<1>. QED
  BY <1>1, <1>2

LEMMA PageNext == PageInv /\ [Next]_vars => PageInv'
<1>. SUFFICES ASSUME PageInv, [Next]_vars PROVE PageInv'
  OBVIOUS
<1>1. CASE Scheduler
  <2>1. terminal_tick' \in Terms
    <3>1. terminal_tick \in Terms
      BY DEF PageInv
    <3>. QED
      BY <1>1, <3>1 DEF Scheduler, Terms
  <2>. QED
    BY <1>1, <2>1 DEF Scheduler, PageInv, PagesShowTerminals, VidPage
<1>2. CASE Write
  <2>1. /\ Putc(VidPage(terminal_display, terminal_tick), terminal_tick)
        /\ UNCHANGED <<terminal_tick, terminal_display, k_vid>>
        /\ terminal_tick \in Terms /\ k_vid' = VidPage(terminal_display, terminal_tick)
    BY <1>2 DEF Write, TerminalWrite, PageInv
  <2>. QED
    BY <2>1, PutcShows
<1>3. CASE ClearScreen
  BY <1>3, ClearShows
<1>4. CASE \E d \in Terms : SwitchVisibleTerminal(d)
  BY <1>4, SwitchShows
<1>5. CASE (\E c \in Chars : TypeChar(c)) \/ TypeEnter \/ TypeBackspace
  <2>1. /\ UNCHANGED <<terminal_tick, terminal_display>>
        /\ PutDisTer \/ UNCHANGED video
    BY <1>5 DEF TypeChar, TypeEnter, TypeBackspace
  <2>2. CASE UNCHANGED video
    BY <2>1, <2>2 DEF video, PageInv, PagesShowTerminals, VidPage
  <2>. QED
    BY <2>1, <2>2, EchoShows
<1>6. CASE Program \/ UNCHANGED vars
  <2>1. UNCHANGED <<terminal_tick, terminal_display, video>>
    BY <1>6 DEF Program, TerminalRead, TestFlag, TestDisplay, CopyLine, vars
  <2>. QED
    BY <2>1 DEF video, PageInv, PagesShowTerminals, VidPage
<1>. QED
  BY <1>1, <1>2, <1>3, <1>4, <1>5, <1>6 DEF Next, Keyboard

LEMMA PageInit == Init => PageInv
<1>. SUFFICES ASSUME Init PROVE PageInv
  OBVIOUS
<1>1. 0 \in Terms /\ Mixture \in Contents
  BY DEF Terms, Mixture, Contents
<1>2. page \in [0 .. MAX_TM -> Contents]
  <2>1. \A i \in 0 .. MAX_TM : [of |-> IF i = 0 THEN 0 ELSE i - 1, ver |-> 0] \in Contents
    BY DEF Contents
  <2>. QED
    BY <1>1, <2>1 DEF Init
<1>3. ASSUME NEW t \in Terms PROVE page[VidPage(0, t)] = [of |-> t, ver |-> 0]
  BY <1>3 DEF Init, VidPage, Terms
<1>. QED
  BY <1>1, <1>2, <1>3 DEF Init, PageInv, PagesShowTerminals, VidPage

----------------------------------------------------------------------------
(* The first num_char characters of every line buffer are the line as its  *)
(* user sees it (line_buf_in, line_buf_clear, switch_visible_terminal).    *)
THEOREM LineBufferedCorrect == Spec => []LineBuffered
<1>1. LineInv => LineBuffered
  BY DEF LineInv
<1>. QED
  BY <1>1, LineInit, LineNext, PTL DEF Spec

(* A read delivers the line that was entered, cut to its size              *)
(* (terminal_read), however often the displayed terminal was switched.     *)
THEOREM EnteredLineDeliveredCorrect == Spec => []EnteredLineDelivered
<1>1. LineInv => EnteredLineDelivered
  <2>. SUFFICES ASSUME LineInv, enter_flag, quiet, NEW n \in NBYTES
                PROVE  LET line == Append(entered, NL)
                           m    == IF n <= 1 THEN 0 ELSE IF n - 1 < Len(line) THEN n - 1 ELSE Len(line)
                       IN Copied(kb_buf[terminal_display], n) = SubSeq(line, 1, m)
    BY DEF EnteredLineDelivered
  <2>1. Holds(kb_buf[terminal_display], entered) /\ entered \in Seq(Chars) /\ n \in Nat
    BY DEF LineInv, LineTypes
  <2>. QED
    BY <2>1, LineDelivered
<1>. QED
  BY <1>1, LineInit, LineNext, PTL DEF Spec

(* The output of every terminal, its echo and nothing else are on the page *)
(* that shows it (putc, put_dis_ter, clear, switch_visible_terminal).      *)
THEOREM PagesShowTerminalsCorrect == Spec => []PagesShowTerminals
<1>1. PageInv => PagesShowTerminals
  BY DEF PageInv
<1>. QED
  BY <1>1, PageInit, PageNext, PTL DEF Spec

(* Every scan code is a key of Terminal or none (keyboard_handler).        *)
LEMMA HandlerIsKey ==
  ASSUME NEW code \in ScanCodes, KeyboardHandler(code)
  PROVE  Keyboard \/ UNCHANGED vars
<1>1. CASE SpeKeyCheck(code) /\ UNCHANGED vars
  BY <1>1
<1>2. CASE \E t \in Terms \cap 0 .. 2 : SwitchesTo(code, t) /\ SwitchVisibleTerminal(t)
  BY <1>2 DEF Keyboard
<1>3. CASE Wipes(code) /\ ClearScreen
  BY <1>3 DEF Keyboard
<1>4. CASE ~IsSpecial(code) /\ Types(code) /\ LineBufIn(AsciiCode(code))
  <2>1. {LOWER[code + 1], HIGHER[code + 1]} \ {ENTER, BCKSPACE} \subseteq Chars
    BY <1>4, ScanCodesAssumption DEF Types
  <2>2. AsciiCode(code) \in {LOWER[code + 1], HIGHER[code + 1]}
    BY DEF AsciiCode
  <2>3. AsciiCode(code) \in Chars \cup {ENTER, BCKSPACE}
    BY <2>1, <2>2
  <2>. QED
    BY <1>4, <2>3 DEF LineBufIn, Keyboard
<1>. QED
  BY <1>1, <1>2, <1>3, <1>4 DEF KeyboardHandler

(* Whatever keys and modifiers are pressed and released, and even if a     *)
(* release is lost, the terminals behave as Terminal says.                 *)
THEOREM ScanCodesImplementKeys == KeyboardSpec => Spec
<1>1. KeyboardInit => Init
  BY DEF KeyboardInit
<1>2. [KeyboardNext]_<<vars, flag>> => [Next]_vars
  BY HandlerIsKey DEF KeyboardNext, Next
<1>. QED
  BY <1>1, <1>2, PTL DEF KeyboardSpec, Spec

(* So every line, read and page is right behind the scan codes too.        *)
THEOREM KeyboardCorrect ==
  KeyboardSpec => [](LineBuffered /\ EnteredLineDelivered /\ PagesShowTerminals)
<1>. QED
  BY ScanCodesImplementKeys, LineBufferedCorrect, EnteredLineDeliveredCorrect,
     PagesShowTerminalsCorrect, PTL

-----------------------------------------------------------------------------
(* The virtual clock *)

\* A read of frequency f that has not ended can wait for another whole step.
LEMMA StepFits ==
  ASSUME NEW f \in Freqs, NEW w \in Nat, w * f < MAX_FREQ
  PROVE  /\ f \in Nat \ {0} /\ w * f \in Nat
         /\ (w + 1) * f = w * f + f
         /\ (w + 1) * f <= MAX_FREQ
         /\ w < MAX_FREQ
<1>1. f \in 1 .. MAX_FREQ /\ MAX_FREQ \in Nat /\ MAX_FREQ % f = 0
  BY FreqAssumption
<1>2. PICK k \in Int : MAX_FREQ = k * f
  <2>1. MAX_FREQ = f * (MAX_FREQ \div f) + (MAX_FREQ % f)
    BY <1>1
  <2>. QED
    BY <1>1, <2>1
<1>3. f \in Nat /\ f >= 1
  BY <1>1
<1>4. w < k
  <2>. SUFFICES ASSUME w >= k PROVE FALSE
    BY <1>2
  <2>1. w * f >= k * f
    BY <1>2, <1>3
  <2>. QED
    BY <1>1, <1>2, <1>3, <2>1
<1>5. w + 1 <= k
  BY <1>2, <1>4
<1>6. (w + 1) * f <= k * f
  BY <1>2, <1>3, <1>5
<1>7. w <= w * f
  BY <1>3
<1>. QED
  BY <1>1, <1>2, <1>3, <1>6, <1>7

\* Where the count of a waiting process is: the part of the period that has not
\* been counted yet.  VirtualPeriod alone does not say that the next step of
\* the count cannot jump over zero.
Counting(p) ==
  /\ rtc_opened[p] = 1 => virtual_freq[p] \in Freqs
  /\ rtc_pc[p] = "read" /\ rtc_opened[p] = 1 =>
       /\ virtual_iqr_got[p] = 0 =>
            /\ waited[p] * virtual_freq[p] < MAX_FREQ
            /\ current_count[p] = MAX_FREQ - waited[p] * virtual_freq[p]
       /\ virtual_iqr_got[p] = 1 => waited[p] * virtual_freq[p] = MAX_FREQ

RtcInv == RtcTypeOK /\ \A p \in Procs : Counting(p)

LEMMA FreqRange ==
  ASSUME RtcTypeOK, NEW p \in Procs
  PROVE  virtual_freq[p] \in Nat /\ waited[p] \in Nat /\ current_count[p] \in Nat
<1>1. virtual_freq[p] \in Freqs \cup {0} /\ Freqs \subseteq 1 .. MAX_FREQ
  BY FreqAssumption DEF RtcTypeOK
<1>2. waited[p] \in 0 .. MAX_FREQ /\ current_count[p] \in 0 .. WIDTH - 1
  BY DEF RtcTypeOK
<1>3. virtual_freq[p] \in Nat
  <2>1. CASE virtual_freq[p] = 0
    BY <2>1
  <2>2. CASE virtual_freq[p] \in Freqs
    <3>1. virtual_freq[p] \in 1 .. MAX_FREQ
      BY <1>1, <2>2
    <3>. QED
      BY <3>1
  <2>. QED
    BY <1>1, <2>1, <2>2
<1>. QED
  BY <1>2, <1>3

LEMMA InitRtc == RtcInit => RtcInv
<1>. SUFFICES ASSUME RtcInit PROVE RtcInv
  OBVIOUS
<1>1. MAX_FREQ \in 0 .. WIDTH - 1 /\ 0 \in 0 .. MAX_FREQ /\ 0 \in 0 .. MaxFds
  BY FreqAssumption, WidthAssumption, FdsAssumption
<1>. QED
  BY <1>1 DEF RtcInit, RtcInv, RtcTypeOK, Counting

\* One interrupt of the chip: every count takes a step, and none passes zero.
LEMMA HandlerRtc ==
  ASSUME RtcInv, RtcHandler
  PROVE  RtcInv'
<1>. USE DEF RtcTypeOK, RtcInv
<1>1. \A p \in Procs : Counted(p).count \in 0 .. WIDTH - 1
  <2>. SUFFICES ASSUME NEW p \in Procs PROVE Counted(p).count \in 0 .. WIDTH - 1
    OBVIOUS
  <2>1. current_count[p] - virtual_freq[p] \in Int /\ WIDTH \in Nat \ {0}
    BY FreqRange, FreqAssumption, WidthAssumption
  <2>. QED
    BY <2>1 DEF Counted
<1>2. RtcTypeOK'
  <2>1. MAX_FREQ \in 0 .. WIDTH - 1
    BY FreqAssumption, WidthAssumption
  <2>2. current_count' \in [Procs -> 0 .. WIDTH - 1]
    BY <1>1, <2>1 DEF RtcHandler
  <2>3. waited' \in [Procs -> 0 .. MAX_FREQ]
    BY FreqAssumption DEF RtcHandler
  <2>4. virtual_iqr_got' \in [Procs -> {0, 1}]
    BY DEF RtcHandler
  <2>. QED
    BY <2>2, <2>3, <2>4 DEF RtcHandler
<1>3. ASSUME NEW p \in Procs PROVE Counting(p)'
  <2>. DEFINE f == virtual_freq[p]
              w == waited[p]
  <2>u. UNCHANGED <<rtc_opened, virtual_freq, rtc_pc>>
    BY DEF RtcHandler
  <2>1. CASE ~(rtc_pc[p] = "read" /\ rtc_opened[p] = 1)
    BY <2>u, <2>1 DEF Counting
  <2>2. CASE rtc_pc[p] = "read" /\ rtc_opened[p] = 1 /\ virtual_iqr_got[p] = 1
    <3>1. virtual_iqr_got'[p] = 1 /\ waited'[p] = waited[p]
      BY <2>2 DEF RtcHandler
    <3>. QED
      BY <2>u, <2>2, <3>1 DEF Counting
  <2>3. CASE rtc_pc[p] = "read" /\ rtc_opened[p] = 1 /\ virtual_iqr_got[p] = 0
    <3>1. /\ f \in Freqs /\ w \in Nat /\ w * f < MAX_FREQ
          /\ current_count[p] = MAX_FREQ - w * f
      BY <2>3 DEF Counting
    <3>2. /\ f \in Nat \ {0} /\ w * f \in Nat /\ (w + 1) * f = w * f + f
          /\ (w + 1) * f <= MAX_FREQ /\ w < MAX_FREQ
      BY <3>1, StepFits
    <3>3. /\ p \in TickedBy /\ waited'[p] = w + 1
      BY <2>3, <3>2 DEF RtcHandler, TickedBy
    <3>4. Counted(p).count = MAX_FREQ - (w + 1) * f
      <4>1. current_count[p] - f = MAX_FREQ - (w + 1) * f
        BY <3>1, <3>2, FreqAssumption
      <4>2. MAX_FREQ - (w + 1) * f \in 0 .. WIDTH - 1
        BY <3>2, FreqAssumption, WidthAssumption
      <4>3. (MAX_FREQ - (w + 1) * f) % WIDTH = MAX_FREQ - (w + 1) * f
        BY <4>2, WidthAssumption
      <4>. QED
        BY <4>1, <4>3 DEF Counted
    <3>5. Counted(p).zero <=> (w + 1) * f = MAX_FREQ
      <4>1. Counted(p).zero <=> Counted(p).count = 0
        BY DEF Counted
      <4>. QED
        BY <3>2, <3>4, <4>1, FreqAssumption
    <3>6. CASE Counted(p).zero
      <4>1. virtual_iqr_got'[p] = 1
        BY <3>3, <3>6 DEF RtcHandler
      <4>. QED
        BY <2>u, <2>3, <3>1, <3>3, <3>5, <3>6, <4>1 DEF Counting
    <3>7. CASE ~Counted(p).zero
      <4>1. virtual_iqr_got'[p] = 0 /\ current_count'[p] = MAX_FREQ - (w + 1) * f
        BY <2>3, <3>3, <3>4, <3>7 DEF RtcHandler
      <4>2. (w + 1) * f < MAX_FREQ
        BY <3>2, <3>5, <3>7, FreqAssumption
      <4>. QED
        BY <2>u, <2>3, <3>1, <3>3, <4>1, <4>2 DEF Counting
    <3>. QED
      BY <3>6, <3>7
  <2>. QED
    BY <2>1, <2>2, <2>3
<1>. QED
  BY <1>2, <1>3

LEMMA NextRtc == RtcInv /\ [RtcNext]_rtc_vars => RtcInv'
<1>. SUFFICES ASSUME RtcInv, [RtcNext]_rtc_vars PROVE RtcInv'
  OBVIOUS
<1>. USE DEF RtcInv, RtcTypeOK, Counting
<1>m. MAX_FREQ \in 0 .. WIDTH - 1 /\ 2 \in Freqs /\ MAX_FREQ \in Nat \ {0} /\ MaxFds \in Nat
  BY FreqAssumption, WidthAssumption, FdsAssumption
<1>1. CASE RtcHandler
  BY <1>1, HandlerRtc
<1>2. ASSUME NEW p \in Procs, Schedule(p) PROVE RtcInv'
  BY <1>2 DEF Schedule, fields
<1>3. CASE RtcOpen
  BY <1>3, <1>m DEF RtcOpen, InUser
<1>4. CASE RtcClose
  BY <1>4, <1>m DEF RtcClose, InUser
<1>5. ASSUME NEW f \in Freqs, RtcWrite(f) PROVE RtcInv'
  BY <1>5, <1>m DEF RtcWrite, InUser
<1>6. CASE RtcRead
  <2>1. RtcTypeOK'
    BY <1>6, <1>m DEF RtcRead, RestartCount
  <2>2. ASSUME NEW p \in Procs, p # pid PROVE Counting(p)'
    BY <1>6, <2>2 DEF RtcRead, RestartCount
  <2>3. ASSUME NEW p \in Procs, p = pid PROVE Counting(p)'
    <3>1. /\ rtc_opened'[p] = rtc_opened[p] /\ virtual_freq'[p] = virtual_freq[p]
          /\ waited'[p] = 0 /\ virtual_iqr_got'[p] = 0 /\ current_count'[p] = MAX_FREQ
      BY <1>6, <2>3 DEF RtcRead, RestartCount
    <3>2. waited'[p] * virtual_freq'[p] = 0
      BY <3>1, FreqRange
    <3>3. rtc_opened[p] = 1 => virtual_freq[p] \in Freqs
      OBVIOUS
    <3>. QED
      BY <1>m, <3>1, <3>2, <3>3
  <2>. QED
    BY <2>1, <2>2, <2>3
<1>7. CASE RtcReadReturns
  BY <1>7 DEF RtcReadReturns, fields
<1>8. CASE PCBSetting
  BY <1>8, <1>m DEF PCBSetting, InUser
<1>9. CASE UNCHANGED rtc_vars
  BY <1>9 DEF rtc_vars, fields
<1>. QED
  BY <1>1, <1>2, <1>3, <1>4, <1>5, <1>6, <1>7, <1>8, <1>9 DEF RtcNext, Syscall

LEMMA RtcInvariant == RtcSpec => []RtcInv
BY InitRtc, NextRtc, PTL DEF RtcSpec

\* A read ends after exactly MAX_FREQ / f interrupts, whatever frequencies were
\* written before and however many processes use the clock.
THEOREM VirtualPeriodCorrect == RtcSpec => []VirtualPeriod
<1>1. RtcInv => VirtualPeriod
  <2>. SUFFICES ASSUME RtcInv, NEW p \in Procs, rtc_pc[p] = "read", rtc_opened[p] = 1
                PROVE  /\ waited[p] * virtual_freq[p] <= MAX_FREQ
                       /\ virtual_iqr_got[p] = 1 <=> waited[p] * virtual_freq[p] = MAX_FREQ
    BY DEF VirtualPeriod
  <2>1. waited[p] * virtual_freq[p] \in Int /\ MAX_FREQ \in Int
    BY FreqRange, FreqAssumption DEF RtcInv
  <2>. QED
    BY <2>1 DEF RtcInv, RtcTypeOK, Counting
<1>. QED
  BY <1>1, RtcInvariant, PTL
=============================================================================
