------------------------------ MODULE Programs ------------------------------
(***************************************************************************)
(* Programs that use the file system: the shell of each terminal, which    *)
(* reads a line and executes it, the programs cat and ls, and any other    *)
(* program, which makes the calls of FileSystem in any order.              *)
(*                                                                         *)
(* A process of Procs stands for one terminal: its shell and the program   *)
(* that the shell waits for.  Who runs when, the pid and the halt of a     *)
(* shell are module Kernel's, the line is Terminal's.  execute does not    *)
(* enable interrupts, and parses, checks and loads in one step.            *)
(*                                                                         *)
(* Abstracted: what is in memory of a program, by its inode; the line feed *)
(* that ls writes after a name; the messages of the programs.              *)
(***************************************************************************)
EXTENDS FileStreams

CONSTANTS
  Lines,        \* the lines that are typed to the shell of each terminal
  FILENAME_LEN, \* 32
  MAGIC,        \* the bytes an executable begins with: 7F 45 4C 46
  ProgramOf,    \* the program in each inode, if it is one
  CAT_BUFSIZE,  \* 1024
  LS_BUFSIZE    \* 32

SP == " "
NL == "NL"
Typed == Chars \cup {SP, NL}

VARIABLE user   \* each terminal's program: see Shell

Shell == [at |-> "shell", program |-> "any", args |-> <<>>, fd |-> 0, output |-> <<>>, rval |-> 0]

ProgramsInit == Init /\ user = [p \in Procs |-> Shell]

-----------------------------------------------------------------------------
(* execute *)

\* The first place of c from k on that is not in S.
Past(c, k, S) ==
  CHOOSE n \in k .. Len(c) + 1 :
    (\A j \in k .. n - 1 : c[j] \in S) /\ (n <= Len(c) => c[n] \notin S)

\* _parse_cmd_: the first word, which a line feed ends too, and the second.
ParseCmd(c) ==
  LET first == Past(c, 1, {SP})
      end   == Past(c, first, Typed \ {SP, NL})
      arg   == Past(c, end, {SP})
  IN [ok       |-> first <= Len(c) /\ end - first <= FILENAME_LEN,
      filename |-> SubSeq(c, first, end - 1),
      args     |-> SubSeq(c, arg, Past(c, arg, Typed \ {SP}) - 1)]

\* _file_validation_ reads VALIDATION_READ_SIZE bytes of the first block, even of a
\* shorter file, and whatever the type of the entry is.
Executable(inode) ==
  /\ inode \in Inodes
  /\ FileLength[inode] > 0 /\ IdxBlock[inode][0] < n_data_block_b
  /\ \A k \in 1 .. Len(MAGIC) : Data[IdxBlock[inode][0]][k - 1] = MAGIC[k]

FileValidation(filename) ==
  \E e \in Entries : IsFound(filename, e) /\ Executable(Dentry[e].inode)

\* What execute makes of a command: the program begins, or the shell is told of a failure.
Executed(command) ==
  LET cmd == ParseCmd(command)
      e   == CHOOSE e \in Entries : IsFound(cmd.filename, e)
  IN IF cmd.ok /\ FileValidation(cmd.filename)
     THEN [Shell EXCEPT !.at = "begin", !.program = ProgramOf[Dentry[e].inode], !.args = cmd.args]
     ELSE [Shell EXCEPT !.rval = -1]

\* The line without its line feed.
Command(line) ==
  IF line # <<>> /\ line[Len(line)] = NL THEN SubSeq(line, 1, Len(line) - 1) ELSE line

\* The shell executes a line.  It reads on after an empty one; "exit" is Kernel's.
ShellExecutes(p) ==
  /\ user[p].at = "shell"
  /\ \E line \in Lines[p] : /\ Command(line) # <<>>
                            /\ user' = [user EXCEPT ![p] = Executed(Command(line))]
  /\ UNCHANGED vars

-----------------------------------------------------------------------------
(* The programs. *)

GoTo(p, place) == user' = [user EXCEPT ![p].at = place]
Ends(p, status) == user' = [user EXCEPT ![p].at = "halt", ![p].rval = status]

\* The file that the program reads: cat's comes from getargs, which fails without arguments.
NoArgs(u) == u.program = "cat" /\ u.args = <<>>
Wanted(u) == IF u.program = "cat" THEN u.args ELSE <<".">>
Request(u) == IF u.program = "cat" THEN CAT_BUFSIZE ELSE LS_BUFSIZE

Begins(p) ==
  LET u == user[p] IN
  /\ u.at = "begin" /\ u.program # "any"
  /\ \/ NoArgs(u) /\ Ends(p, 3) /\ UNCHANGED vars
     \/ /\ ~NoArgs(u) /\ ~\E e \in Entries : IsFound(Wanted(u), e)
        /\ Ends(p, 2) /\ UNCHANGED vars
     \/ /\ ~NoArgs(u) /\ Open(p, Wanted(u))
        /\ \E fd \in Fds : /\ file_array[p][fd].type = "unuse" /\ file_array'[p][fd].type # "unuse"
                           /\ user' = [user EXCEPT ![p].at = "read", ![p].fd = fd]

Written(u, items) == [u EXCEPT !.output = @ \o items, !.at = "read"]

\* Mistake: a read of less than was asked for is taken for the end of the file.
Got_Short(p, items) ==
  IF Len(items) < Request(user[p]) THEN Ends(p, 0) ELSE user' = [user EXCEPT ![p] = Written(@, items)]

\* The read returned: the program writes what it got, or comes to its end.
Got(p, items) ==
  IF items = <<>> THEN Ends(p, 0) ELSE user' = [user EXCEPT ![p] = Written(@, items)]

\* A read of a regular file begins; one of a directory returns, and one of the RTC
\* with 0 after some time.
ReadBegins(p) ==
  LET u == user[p] IN
  /\ u.at = "read"
  /\ \/ FileRead(p, u.fd, Request(u)) /\ GoTo(p, "reading")
     \/ DirectRead(p, u.fd, Request(u)) /\ Got(p, got'.items)
     \/ file_array[p][u.fd].type = "rtc" /\ Got(p, <<>>) /\ UNCHANGED vars

ReadGoesOn(p) ==
  /\ user[p].at = "reading"
  /\ \/ ReadBlock(p) /\ UNCHANGED user
     \/ ReadFails(p) /\ Ends(p, 3)
     \/ ReadReturns(p) /\ Got(p, local[p].buf)

\* Any other program.
Other(p) ==
  /\ user[p].at = "begin" /\ user[p].program = "any"
  /\ \/ Calls(p) /\ UNCHANGED user
     \/ pc[p] = "user" /\ Ends(p, 0) /\ UNCHANGED vars

\* halt closes the descriptors that are open; the shell gets the status.  The code goes through
\* the parent's instead, as Kernel models it.  Here this makes no difference, since the shell
\* has none open and the next program begins with none.
Halt(p) ==
  /\ user[p].at = "halt"
  /\ \/ \E fd \in Fds : Close(p, fd) /\ UNCHANGED user
     \/ /\ \A fd \in Fds : file_array[p][fd].type = "unuse"
        /\ user' = [user EXCEPT ![p] = [Shell EXCEPT !.rval = user[p].rval]]
        /\ UNCHANGED vars

ProgramsNext ==
  \E p \in Procs : ShellExecutes(p) \/ Begins(p) \/ ReadBegins(p) \/ ReadGoesOn(p) \/ Other(p) \/ Halt(p)

ProgramsSpec == ProgramsInit /\ [][ProgramsNext]_<<vars, user>>

ASSUME LinesAssumption ==
  /\ Lines \in [Procs -> SUBSET Seq(Typed)] /\ FILENAME_LEN \in Nat
  /\ \A p \in Procs : \A line \in Lines[p] :
       ParseCmd(Command(line)).args \in FNames \cup {<<>>}
  /\ <<".">> \in FNames
ASSUME ProgramAssumption ==
  /\ MAGIC \in Seq(Bytes) /\ Len(MAGIC) <= BLOCK_SIZE
  /\ ProgramOf \in [Inodes -> {"cat", "ls", "any"}]
  /\ CAT_BUFSIZE \in NBYTES \ {0} /\ LS_BUFSIZE \in NBYTES \ {0}

-----------------------------------------------------------------------------
\* However its reads are cut into blocks and interrupted by the reads of other
\* programs, cat prints the file it was asked for and ls the directory, from the first
\* item to the last, and they fail only without a name, without such a file or at a
\* damaged one.
CommandPrintsFile ==
  \A p \in Procs :
    LET u == user[p] IN
    u.at = "halt" /\ u.program # "any" =>
      \/ u.rval = 0 /\ Wanted(u) \in Listed /\ u.output = Items(EntryOf(Wanted(u)))
      \/ u.rval = 2 /\ Wanted(u) \notin Listed
      \/ u.rval = 3 /\ (NoArgs(u) \/ Wanted(u) \in damaged)
=============================================================================
