---------------------------- MODULE KernelProofs ----------------------------
(***************************************************************************)
(* What holds of process control for every number of pids, terminals and   *)
(* descriptors and every use of the system calls, provided no program      *)
(* calls execute before every terminal has its shell (~EarlyCommands):     *)
(* the table of processes and the jobs first, then what processes share,   *)
(* at last the refinement of the stacks of jobs.                           *)
(***************************************************************************)
EXTENDS KernelJobs, FiniteSetTheorems, SequenceTheorems, WellFoundedInduction, TLAPS

USE DEF TM_UNUSED, INI_FILES, UNUSE

\* The prime of the scheduler's position.
LEMMA NextTermFact ==
  ASSUME terminal_tick \in Terms
  PROVE  /\ NextTerm \in Terms
         /\ terminal_tick + 1 < MAX_TM => NextTerm = terminal_tick + 1
         /\ terminal_tick + 1 = MAX_TM => NextTerm = 0
BY SizeAssumption DEF NextTerm, Terms

\* The page numbers of the video mappings are those of the page table.
LEMMA VidPageType ==
  ASSUME NEW d \in Terms, NEW t \in Terms
  PROVE  VidPage(d, t) \in 0 .. MAX_TM
BY SizeAssumption DEF VidPage, Terms

LEMMA FdInitType == FdInit \in [Fds -> FileTypes \cup {"term", UNUSE}]
BY DEF FdInit

\* What a new process does to the typed variables.
LEMMA SpawnType ==
  ASSUME TypeOK, NEW new \in Pids, NEW t \in Terms, Spawn(new, t)
  PROVE  /\ task_array' \in [Pids -> {0, 1}]
         /\ pid' \in Pids
         /\ tm_pid' \in [Terms -> Pids \cup {TM_UNUSED}]
         /\ prev_pid' \in [Pids -> Pids]
         /\ kernel_exc' \in [Pids -> Frames]
         /\ file_array' \in [Pids -> [Fds -> FileTypes \cup {"term", UNUSE}]]
         /\ rtc_opened' \in [Pids -> {0, 1}]
         /\ esp0' \in Pids
         /\ user_page' \in Pids
         /\ k_vid' \in 0 .. MAX_TM
         /\ u_vid' \in 0 .. MAX_TM
         /\ home' \in [Pids -> Terms]
<1>1. [stack |-> pid, at |-> "execute"] \in Frames
  BY DEF TypeOK, Frames
<1>2. VidPage(terminal_display, t) \in 0 .. MAX_TM
  BY VidPageType DEF TypeOK
<1>. QED
  BY <1>1, <1>2, FdInitType DEF TypeOK, Spawn, PagingSetUserMapping

-----------------------------------------------------------------------------
(* Type correctness: inductive by itself. *)

LEMMA InitType == Init => TypeOK
<1>. SUFFICES ASSUME Init PROVE TypeOK
  OBVIOUS
<1>1. 0 \in Pids /\ 0 \in Terms /\ 0 \in 0 .. MAX_TM /\ 1 \in 1 .. MAX_PROC
  BY SizeAssumption DEF Pids, Terms
<1>2. [stack |-> 0, at |-> "execute"] \in Frames
  BY <1>1 DEF Frames
<1>. QED
  BY <1>1, <1>2, FdInitType DEF Init, PagingInit, TypeOK

LEMMA NextType == TypeOK /\ [Next]_vars => TypeOK'
<1>. SUFFICES ASSUME TypeOK, [Next]_vars PROVE TypeOK'
  OBVIOUS
<1>. USE DEF TypeOK
<1>v. \A d, t \in Terms : VidPage(d, t) \in 0 .. MAX_TM
  BY VidPageType
<1>n. NextTerm \in Terms
  BY NextTermFact
<1>1. CASE SwitchTask
  <2>1. tm_pid[NextTerm] \in Pids
    BY <1>1, <1>n DEF SwitchTask
  <2>. QED
    BY <1>1, <1>n, <1>v, <2>1 DEF SwitchTask, SwitchStack, PagingSetUserMapping
<1>2. CASE StartShell
  <2>1. CountTerminal \in 1 .. MAX_PROC
    BY SizeAssumption DEF CountTerminal
  <2>2. CASE TableFull
    BY <1>2, <1>n, <2>1, <2>2 DEF StartShell
  <2>3. CASE ~TableFull
    <3>1. PICK new \in Pids :
            /\ Spawn(new, NextTerm)
            /\ kernel_sch' = [kernel_sch EXCEPT ![pid] = TRUE, ![new] = FALSE]
            /\ root' = [root EXCEPT ![NextTerm] = new]
      BY <1>2, <2>3 DEF StartShell
    <3>. QED
      BY <1>2, <1>n, <2>1, <3>1, SpawnType DEF StartShell
  <2>. QED
    BY <2>2, <2>3
<1>3. CASE Execute
  <2>1. PICK new \in Pids :
          /\ Spawn(new, terminal_tick)
          /\ kernel_sch' = [kernel_sch EXCEPT ![new] = FALSE]
    BY <1>3 DEF Execute
  <2>. QED
    BY <1>3, <2>1, SpawnType DEF Execute
<1>4. CASE RestartTask
  <2>1. [stack |-> pid, at |-> "halt"] \in Frames
    BY DEF Frames
  <2>. QED
    BY <1>4, <2>1 DEF RestartTask, video
<1>5. CASE EndTask
  <2>. DEFINE q == prev_pid[pid]
  <2>1. q \in Pids
    OBVIOUS
  <2>2. /\ file_array' \in [Pids -> [Fds -> FileTypes \cup {"term", UNUSE}]]
        /\ rtc_opened' \in [Pids -> {0, 1}]
    BY <1>5, <2>1 DEF EndTask, CloseLoop, RtcAfterClose
  <2>3. /\ task_use_vidmem' \in SUBSET Terms
        /\ u_present' \in BOOLEAN
    BY <1>5 DEF EndTask, PagingRestoreVideo
  <2>. QED
    BY <1>5, <1>v, <2>1, <2>2, <2>3 DEF EndTask, ReleasePid, PagingSetUserMapping
<1>6. ASSUME NEW ft \in FileTypes, Open(ft) PROVE TypeOK'
  <2>1. /\ file_array' \in [Pids -> [Fds -> FileTypes \cup {"term", UNUSE}]]
        /\ rtc_opened' \in [Pids -> {0, 1}]
    BY <1>6 DEF Open
  <2>. QED
    BY <1>6, <2>1 DEF Open, video
<1>7. ASSUME NEW fd \in Fds, Close(fd) PROVE TypeOK'
  <2>1. /\ file_array' \in [Pids -> [Fds -> FileTypes \cup {"term", UNUSE}]]
        /\ rtc_opened' \in [Pids -> {0, 1}]
    BY <1>7 DEF Close, RtcAfterClose
  <2>. QED
    BY <1>7, <2>1 DEF Close, video
<1>8. CASE Vidmap
  <2>1. u_vid' \in 0 .. MAX_TM
    BY <1>8, SizeAssumption DEF Vidmap, PagingSetForVideo, Terms
  <2>. QED
    BY <1>8, <2>1 DEF Vidmap, PagingSetForVideo, pcbs
<1>9. ASSUME NEW d \in Terms, SwitchVisibleTerminal(d) PROVE TypeOK'
  BY <1>9, <1>v DEF SwitchVisibleTerminal, pcbs
<1>10. CASE UNCHANGED vars
  BY <1>10 DEF vars, pcbs, video
<1>. QED
  BY <1>1, <1>2, <1>3, <1>4, <1>5, <1>6, <1>7, <1>8, <1>9, <1>10
     DEF Next, Timer, Syscall, Halt, ExpHalt

\* Every state the kernel reaches is well typed, whatever programs call when.
THEOREM TypeCorrect == Spec => []TypeOK
BY InitType, NextType, PTL DEF Spec

-----------------------------------------------------------------------------
(* The process table.  OnlyShellsRefuseHalt, HaltReturnsToParent and the   *)
(* like are not inductive one by one: that the parent is alive when a      *)
(* program ends needs that nobody else waits for the same child, that pids *)
(* below running_terminal are the shells needs the order in which the      *)
(* scheduler starts terminals, and both need that the running process is   *)
(* the foreground process of the active terminal.                          *)

\* The terminals are started in order, each by a shell whose pid is the number
\* of the terminal; until the last one is started there is no other process,
\* and the scheduler is at the newest terminal.
Shells ==
  /\ running_terminal \in 1 .. MAX_TM
  /\ \A t \in Terms : root[t] = IF t < running_terminal THEN t ELSE TM_UNUSED
  /\ \A t \in Terms : tm_pid[t] = TM_UNUSED <=> t >= running_terminal
  /\ \A p \in Pids : p < running_terminal => Used(p) /\ home[p] = p
  /\ running_terminal < MAX_TM =>
       /\ terminal_tick = running_terminal - 1
       /\ \A p \in Pids : Used(p) => p < running_terminal

Child(p) == Used(p) /\ p >= running_terminal

\* The foreground process of a terminal is a live process of that terminal.
Foreground ==
  \A t \in Terms : tm_pid[t] # TM_UNUSED => Used(tm_pid[t]) /\ home[tm_pid[t]] = t

\* A process that is no shell was executed by a live process of its terminal.
Parents ==
  \A p \in Pids : Child(p) =>
    /\ Used(prev_pid[p])
    /\ prev_pid[p] # p
    /\ home[prev_pid[p]] = home[p]
    /\ kernel_exc[p] = [stack |-> prev_pid[p], at |-> "execute"]

\* No two processes wait for the same child.
OneChild == \A p, q \in Pids : Child(p) /\ Child(q) /\ prev_pid[p] = prev_pid[q] => p = q

\* The foreground process of a terminal waits for nobody, the others wait.
Leaves ==
  /\ \A p \in Pids : Child(p) => prev_pid[p] # tm_pid[home[p]]
  /\ \A p \in Pids : Used(p) /\ p # tm_pid[home[p]] => \E q \in Pids : Child(q) /\ prev_pid[q] = p

\* Where RunningTask and SuspendedHaveFrame meet the table.
TableInv ==
  /\ Shells
  /\ Foreground
  /\ Parents
  /\ OneChild
  /\ Leaves
  /\ RunningTask
  /\ SuspendedHaveFrame

LEMMA InitTable == Init => TableInv
<1>. SUFFICES ASSUME Init PROVE TableInv
  OBVIOUS
<1>1. 0 \in Pids /\ 0 \in Terms
  BY SizeAssumption DEF Pids, Terms
<1>2. Shells
  BY <1>1, SizeAssumption DEF Init, Shells, Used, Pids, Terms
<1>3. Foreground /\ RunningTask /\ SuspendedHaveFrame
  BY <1>1, SizeAssumption DEF Init, Foreground, RunningTask, SuspendedHaveFrame, Used, Terms
<1>4. \A p \in Pids : ~Child(p) /\ (Used(p) => p = 0)
  BY <1>1, SizeAssumption DEF Init, Child, Used, Pids
<1>5. Parents /\ OneChild /\ Leaves
  BY <1>1, <1>4 DEF Init, Parents, OneChild, Leaves
<1>. QED
  BY <1>2, <1>3, <1>5 DEF TableInv

\* A step that changes neither the table nor the scheduler keeps the invariant.
LEMMA QuietStep ==
  ASSUME TableInv,
         UNCHANGED <<task_array, pid, tm_pid, terminal_tick, running_terminal,
                     prev_pid, esp0, user_page, home, root, kernel_sch>>,
         \A p \in Pids : p >= running_terminal => kernel_exc'[p] = kernel_exc[p]
  PROVE  TableInv'
BY DEF TableInv, Shells, Foreground, Parents, OneChild, Leaves, Child, Used,
       RunningTask, SuspendedHaveFrame

\* A shell is what is below running_terminal.
LEMMA RootsAreLow ==
  ASSUME TypeOK, Shells, NEW p \in Pids
  PROVE  IsRoot(p) <=> p < running_terminal
<1>1. ASSUME p < running_terminal PROVE IsRoot(p)
  <2>1. p \in Terms
    BY <1>1, SizeAssumption DEF Shells, Pids, Terms
  <2>. QED
    BY <1>1, <2>1 DEF Shells, IsRoot
<1>2. ASSUME IsRoot(p) PROVE p < running_terminal
  <2>1. PICK t \in Terms : root[t] = p
    BY <1>2 DEF IsRoot
  <2>. QED
    BY <2>1 DEF Shells, Pids
<1>. QED
  BY <1>1, <1>2

\* The scheduler's switch: only who runs and who is suspended changes.
LEMMA SwitchTaskTable ==
  ASSUME TypeOK, TableInv, SwitchTask
  PROVE  TableInv'
<1>. DEFINE next == tm_pid[NextTerm]
<1>n. NextTerm \in Terms /\ terminal_tick \in Terms
  BY NextTermFact DEF TypeOK
<1>1. /\ next \in Pids /\ next # TM_UNUSED /\ pid \in Pids
      /\ terminal_tick' = NextTerm /\ pid' = next /\ esp0' = next /\ user_page' = next
      /\ UNCHANGED <<task_array, tm_pid, running_terminal, prev_pid, kernel_exc, home, root>>
      /\ kernel_sch' = [kernel_sch EXCEPT ![pid] = TRUE, ![next] = FALSE]
  BY <1>n DEF SwitchTask, SwitchStack, PagingSetUserMapping, TypeOK
<1>2. Shells'
  <2>1. running_terminal = MAX_TM
    <3>. SUFFICES ASSUME running_terminal < MAX_TM PROVE FALSE
      BY SizeAssumption DEF TableInv, Shells
    <3>1. NextTerm = running_terminal
      BY <1>n, NextTermFact, SizeAssumption DEF TableInv, Shells
    <3>. QED
      BY <1>n, <1>1, <3>1, SizeAssumption DEF TableInv, Shells
  <2>. QED
    BY <1>1, <2>1, SizeAssumption DEF TableInv, Shells, Used
<1>3. Foreground' /\ Parents' /\ OneChild' /\ Leaves'
  BY <1>1 DEF TableInv, Foreground, Parents, OneChild, Leaves, Child, Used
<1>4. RunningTask'
  BY <1>1, <1>n DEF TableInv, Foreground, RunningTask, Used
<1>5. SuspendedHaveFrame'
  <2>. SUFFICES ASSUME NEW t \in Terms \ {NextTerm}, tm_pid[t] # TM_UNUSED
                PROVE  Used(tm_pid[t]) /\ kernel_sch'[tm_pid[t]]
    BY <1>1 DEF SuspendedHaveFrame, Used
  <2>1. Used(tm_pid[t]) /\ tm_pid[t] \in Pids /\ tm_pid[t] # next
    BY <1>1, <1>n DEF TableInv, Foreground, TypeOK
  <2>2. CASE t = terminal_tick
    BY <1>1, <2>1, <2>2 DEF TableInv, RunningTask, TypeOK
  <2>3. CASE t # terminal_tick
    BY <1>1, <2>1, <2>3 DEF TableInv, SuspendedHaveFrame, TypeOK
  <2>. QED
    BY <2>1, <2>2, <2>3
<1>. QED
  BY <1>2, <1>3, <1>4, <1>5 DEF TableInv

\* What taking a free pid for a process of terminal t does to the table.
LEMMA SpawnTable ==
  ASSUME TypeOK, TableInv, NEW new \in Pids, NEW t \in Terms, ~Used(new), Spawn(new, t)
  PROVE  /\ new >= running_terminal
         /\ \A p \in Pids : Used(p)' <=> Used(p) \/ p = new
         /\ \A p \in Pids : p # new =>
              UNCHANGED <<prev_pid[p], kernel_exc[p], home[p]>>
         /\ prev_pid'[new] = pid /\ home'[new] = t
         /\ kernel_exc'[new] = [stack |-> pid, at |-> "execute"]
         /\ tm_pid' = [tm_pid EXCEPT ![t] = new]
         /\ pid' = new /\ esp0' = new /\ user_page' = new
<1>1. new >= running_terminal
  BY SizeAssumption DEF TableInv, Shells, Pids
<1>. QED
  BY <1>1 DEF Spawn, PagingSetUserMapping, TypeOK, Used

\* The scheduler's first visit to a terminal starts its shell with the pid
\* of that number.
LEMMA StartShellTable ==
  ASSUME TypeOK, TableInv, StartShell
  PROVE  TableInv'
<1>n. NextTerm \in Terms /\ terminal_tick \in Terms /\ pid \in Pids
  BY NextTermFact DEF TypeOK
<1>1. /\ running_terminal < MAX_TM
      /\ NextTerm = running_terminal
      /\ terminal_tick = running_terminal - 1
  <2>1. running_terminal < MAX_TM
    BY <1>n, SizeAssumption DEF StartShell, TableInv, Shells, Terms
  <2>. QED
    BY <1>n, <2>1, NextTermFact, SizeAssumption DEF TableInv, Shells
<1>2. \A p \in Pids : Used(p) <=> p < running_terminal
  BY <1>1 DEF TableInv, Shells
<1>3. running_terminal \in Pids /\ ~TableFull
  <2>1. running_terminal \in Pids
    BY <1>1, SizeAssumption DEF TableInv, Shells, Pids
  <2>2. task_array[running_terminal] # 1
    BY <2>1, <1>2 DEF Used, Pids
  <2>. QED
    BY <2>1, <2>2 DEF TableFull
<1>4. PICK new \in Pids :
        /\ IsFirstFree(new)
        /\ Spawn(new, NextTerm)
        /\ kernel_sch' = [kernel_sch EXCEPT ![pid] = TRUE, ![new] = FALSE]
        /\ root' = [root EXCEPT ![NextTerm] = new]
  BY <1>3 DEF StartShell
<1>5. new = running_terminal /\ ~Used(new)
  <2>1. ~Used(new)
    BY <1>4 DEF IsFirstFree, Used, TypeOK
  <2>2. new >= running_terminal
    BY <1>2, <2>1 DEF Pids, TypeOK
  <2>3. ~(new > running_terminal)
    <3>. SUFFICES ASSUME new > running_terminal PROVE FALSE
      OBVIOUS
    <3>1. running_terminal \in 0 .. new - 1
      BY <1>3 DEF Pids
    <3>2. Used(running_terminal)
      BY <1>4, <3>1 DEF IsFirstFree, Used
    <3>. QED
      BY <1>2, <1>3, <3>2 DEF Pids
  <2>. QED
    BY <1>3, <2>1, <2>2, <2>3 DEF Pids
<1>6. /\ running_terminal' = running_terminal + 1
      /\ terminal_tick' = NextTerm
  BY <1>1, SizeAssumption DEF StartShell, CountTerminal, TableInv, Shells
<1>7. /\ \A p \in Pids : Used(p)' <=> Used(p) \/ p = new
      /\ \A p \in Pids : p # new => UNCHANGED <<prev_pid[p], kernel_exc[p], home[p]>>
      /\ home'[new] = NextTerm
      /\ tm_pid' = [tm_pid EXCEPT ![NextTerm] = new]
      /\ pid' = new /\ esp0' = new /\ user_page' = new
  BY <1>n, <1>4, <1>5, SpawnTable
<1>8. Shells'
  <2>1. running_terminal' \in 1 .. MAX_TM
    BY <1>1, <1>6, SizeAssumption DEF TableInv, Shells
  <2>2. \A t \in Terms : root'[t] = IF t < running_terminal' THEN t ELSE TM_UNUSED
    BY <1>1, <1>4, <1>5, <1>6, SizeAssumption DEF TableInv, Shells, TypeOK, Terms
  <2>3. \A t \in Terms : tm_pid'[t] = TM_UNUSED <=> t >= running_terminal'
    <3>. SUFFICES ASSUME NEW t \in Terms
                  PROVE  tm_pid'[t] = TM_UNUSED <=> t >= running_terminal'
      OBVIOUS
    <3>1. NextTerm = running_terminal /\ new # TM_UNUSED
      BY <1>1, <1>4, <1>5 DEF Pids, TM_UNUSED
    <3>2. tm_pid'[t] = IF t = NextTerm THEN new ELSE tm_pid[t]
      BY <1>7 DEF TypeOK
    <3>3. tm_pid[t] = TM_UNUSED <=> t >= running_terminal
      BY DEF TableInv, Shells
    <3>4. t \in Int
      BY SizeAssumption DEF Terms
    <3>5. running_terminal \in Int
      BY SizeAssumption DEF TypeOK
    <3>. QED
      BY <1>6, <3>1, <3>2, <3>3, <3>4, <3>5
  <2>4. \A p \in Pids : p < running_terminal' => Used(p)' /\ home'[p] = p
    BY <1>1, <1>5, <1>6, <1>7, SizeAssumption DEF TableInv, Shells, Pids
  <2>5. terminal_tick' = running_terminal' - 1
    BY <1>1, <1>6, SizeAssumption DEF TableInv, Shells
  <2>6. \A p \in Pids : Used(p)' => p < running_terminal'
    BY <1>2, <1>5, <1>6, <1>7, SizeAssumption DEF TableInv, Shells, Pids
  <2>. QED
    BY <2>1, <2>2, <2>3, <2>4, <2>5, <2>6 DEF Shells, Used
<1>9. \A p \in Pids : ~Child(p)'
  BY <1>8, <1>6, <1>1, <1>2, <1>5, <1>7, SizeAssumption DEF Child, TableInv, Shells, Pids
<1>10. Parents' /\ OneChild'
  BY <1>9 DEF Parents, OneChild
<1>11. Foreground' /\ RunningTask'
  <2>1. \A t \in Terms : t # NextTerm /\ tm_pid[t] # TM_UNUSED =>
          /\ tm_pid'[t] = tm_pid[t] /\ tm_pid[t] \in Pids /\ tm_pid[t] # new
          /\ Used(tm_pid[t]) /\ home[tm_pid[t]] = t
    BY <1>5, <1>7 DEF TableInv, Foreground, TypeOK
  <2>2. tm_pid'[NextTerm] = new /\ Used(new)'
    BY <1>n, <1>7 DEF TypeOK
  <2>3. Foreground'
    BY <1>7, <2>1, <2>2 DEF Foreground, TypeOK
  <2>. QED
    BY <1>6, <1>7, <2>2, <2>3 DEF RunningTask
<1>12. Leaves'
  <2>. SUFFICES ASSUME NEW p \in Pids, Used(p)' PROVE p = tm_pid'[home'[p]]
    BY <1>9 DEF Leaves
  <2>1. CASE p = new
    BY <1>n, <1>7, <2>1 DEF TypeOK
  <2>2. CASE p # new
    <3>1. Used(p) /\ home'[p] = p /\ p < running_terminal
      BY <1>2, <1>7, <2>2 DEF TableInv, Shells
    <3>2. p = tm_pid[p]
      <4>1. \A q \in Pids : ~Child(q)
        BY <1>2, SizeAssumption DEF Child, TableInv, Shells, Pids
      <4>. QED
        BY <3>1, <4>1 DEF TableInv, Shells, Leaves
    <3>. QED
      BY <1>1, <1>5, <1>7, <3>1, <3>2, SizeAssumption DEF TableInv, Shells, TypeOK, Terms, Pids
  <2>. QED
    BY <2>1, <2>2
<1>13. SuspendedHaveFrame'
  <2>. SUFFICES ASSUME NEW t \in Terms \ {NextTerm}, tm_pid'[t] # TM_UNUSED
                PROVE  task_array'[tm_pid'[t]] = 1 /\ kernel_sch'[tm_pid'[t]]
    BY <1>6 DEF SuspendedHaveFrame, Used
  <2>1. /\ tm_pid'[t] = tm_pid[t] /\ Used(tm_pid[t])
        /\ tm_pid[t] \in Pids /\ tm_pid[t] # new
    BY <1>5, <1>7 DEF TableInv, Foreground, TypeOK
  <2>a. task_array'[tm_pid[t]] = 1
    BY <1>7, <2>1 DEF Used
  <2>2. CASE t = terminal_tick
    BY <1>n, <1>4, <1>7, <2>1, <2>a, <2>2 DEF TableInv, RunningTask, TypeOK
  <2>3. CASE t # terminal_tick
    BY <1>n, <1>4, <1>7, <2>1, <2>a, <2>3 DEF TableInv, SuspendedHaveFrame, TypeOK
  <2>. QED
    BY <2>2, <2>3
<1>. QED
  BY <1>8, <1>10, <1>11, <1>12, <1>13 DEF TableInv

\* The running process is the foreground process of the active terminal, and
\* waits for nobody.
LEMMA RunningTaskFact ==
  ASSUME TypeOK, TableInv
  PROVE  /\ terminal_tick \in Terms /\ pid \in Pids /\ Used(pid)
         /\ home[pid] = terminal_tick /\ tm_pid[terminal_tick] = pid
         /\ \A p \in Pids : Child(p) => prev_pid[p] # pid
<1>1. terminal_tick \in Terms /\ pid \in Pids /\ pid # TM_UNUSED
  BY DEF TypeOK, Pids
<1>2. Used(pid) /\ tm_pid[terminal_tick] = pid
  BY DEF TableInv, RunningTask
<1>3. home[pid] = terminal_tick
  BY <1>1, <1>2 DEF TableInv, Foreground
<1>4. ASSUME NEW p \in Pids, Child(p), prev_pid[p] = pid PROVE FALSE
  <2>1. home[p] = terminal_tick
    BY <1>3, <1>4 DEF TableInv, Parents
  <2>2. prev_pid[p] # tm_pid[home[p]]
    BY <1>4 DEF TableInv, Leaves
  <2>. QED
    BY <1>2, <1>4, <2>1, <2>2
<1>. QED
  BY <1>1, <1>2, <1>3, <1>4

\* A program executes another one: the caller waits, the new program is the
\* foreground process of their terminal.
LEMMA ExecuteTable ==
  ASSUME TypeOK, TableInv, ~EarlyCommands, Execute
  PROVE  TableInv'
<1>n. terminal_tick \in Terms /\ pid \in Pids /\ Used(pid) /\ home[pid] = terminal_tick
  BY RunningTaskFact
<1>1. running_terminal = MAX_TM
  BY SizeAssumption DEF Execute, TableInv, Shells
<1>2. PICK new \in Pids :
        /\ IsFirstFree(new)
        /\ Spawn(new, terminal_tick)
        /\ kernel_sch' = [kernel_sch EXCEPT ![new] = FALSE]
  BY DEF Execute
<1>3. ~Used(new) /\ new # pid
  BY <1>n, <1>2 DEF IsFirstFree, Used
<1>4. /\ new >= running_terminal
      /\ \A p \in Pids : Used(p)' <=> Used(p) \/ p = new
      /\ \A p \in Pids : p # new => UNCHANGED <<prev_pid[p], kernel_exc[p], home[p]>>
      /\ prev_pid'[new] = pid /\ home'[new] = terminal_tick
      /\ kernel_exc'[new] = [stack |-> pid, at |-> "execute"]
      /\ tm_pid' = [tm_pid EXCEPT ![terminal_tick] = new]
      /\ pid' = new /\ esp0' = new /\ user_page' = new
  BY <1>n, <1>2, <1>3, SpawnTable
<1>5. UNCHANGED <<terminal_tick, running_terminal, root>>
  BY DEF Execute
<1>6. /\ \A t \in Terms : t # terminal_tick => tm_pid'[t] = tm_pid[t]
      /\ tm_pid'[terminal_tick] = new
      /\ tm_pid[terminal_tick] = pid
  BY <1>n, <1>4 DEF TypeOK, TableInv, RunningTask
<1>7. Shells'
  <2>1. \A t \in Terms : tm_pid'[t] = TM_UNUSED <=> t >= running_terminal
    BY <1>1, <1>6 DEF Terms, Pids, TableInv, Shells
  <2>2. \A p \in Pids : p < running_terminal => Used(p)' /\ home'[p] = p
    BY <1>4, SizeAssumption DEF TableInv, Shells, Pids
  <2>. QED
    BY <1>1, <1>5, <2>1, <2>2, SizeAssumption DEF TableInv, Shells, Used
<1>8. \A p \in Pids : Child(p)' <=> Child(p) \/ p = new
  BY <1>4, <1>5 DEF Child
<1>9. Foreground'
  <2>1. \A t \in Terms : t # terminal_tick /\ tm_pid[t] # TM_UNUSED =>
          /\ tm_pid'[t] = tm_pid[t] /\ tm_pid[t] \in Pids /\ tm_pid[t] # new
          /\ Used(tm_pid[t]) /\ home[tm_pid[t]] = t
    BY <1>3, <1>6 DEF TableInv, Foreground, TypeOK
  <2>2. Used(new)'
    BY <1>4
  <2>. QED
    BY <1>4, <1>6, <2>1, <2>2 DEF Foreground, Used
<1>10. Parents'
  <2>. SUFFICES ASSUME NEW p \in Pids, Child(p)'
                PROVE  /\ task_array'[prev_pid'[p]] = 1
                       /\ prev_pid'[p] # p
                       /\ home'[prev_pid'[p]] = home'[p]
                       /\ kernel_exc'[p] = [stack |-> prev_pid'[p], at |-> "execute"]
    BY DEF Parents, Used
  <2>u. \A q \in Pids : Used(q) => task_array'[q] = 1 /\ home'[q] = home[q]
    BY <1>3, <1>4 DEF Used
  <2>1. CASE p = new
    BY <1>n, <1>3, <1>4, <2>1, <2>u
  <2>2. CASE p # new
    <3>1. /\ Used(prev_pid[p]) /\ prev_pid[p] # p /\ home[prev_pid[p]] = home[p]
          /\ kernel_exc[p] = [stack |-> prev_pid[p], at |-> "execute"]
          /\ prev_pid[p] \in Pids
      BY <1>8, <2>2 DEF TableInv, Parents, TypeOK
    <3>. QED
      BY <1>4, <2>2, <2>u, <3>1
  <2>. QED
    BY <2>1, <2>2
<1>11. \A p \in Pids : Child(p) => prev_pid[p] # pid
  BY RunningTaskFact
<1>12. OneChild'
  BY <1>3, <1>4, <1>8, <1>11 DEF TableInv, OneChild, Child
<1>13. Leaves'
  <2>1. ASSUME NEW p \in Pids, Child(p)' PROVE prev_pid'[p] # tm_pid'[home'[p]]
    <3>1. CASE p = new
      BY <1>3, <1>4, <1>6, <3>1
    <3>2. CASE p # new
      <4>1. /\ Child(p) /\ prev_pid'[p] = prev_pid[p] /\ home'[p] = home[p]
            /\ prev_pid[p] # tm_pid[home[p]] /\ Used(prev_pid[p]) /\ home[p] \in Terms
        BY <1>4, <1>8, <2>1, <3>2 DEF TableInv, Leaves, Parents, TypeOK
      <4>. QED
        BY <1>3, <1>6, <4>1
    <3>. QED
      BY <3>1, <3>2
  <2>2. ASSUME NEW p \in Pids, Used(p)', p # tm_pid'[home'[p]]
        PROVE  \E q \in Pids : Child(q)' /\ prev_pid'[q] = p
    <3>1. p # new
      BY <1>4, <1>6, <2>2
    <3>2. CASE p = pid
      BY <1>4, <1>8, <3>2
    <3>3. CASE p # pid
      <4>1. Used(p) /\ p # tm_pid[home[p]]
        BY <1>4, <1>6, <2>2, <3>1, <3>3 DEF TypeOK
      <4>2. PICK q \in Pids : Child(q) /\ prev_pid[q] = p
        BY <4>1 DEF TableInv, Leaves
      <4>3. q # new
        BY <1>3, <4>2 DEF Child
      <4>. QED
        BY <1>4, <1>8, <4>2, <4>3
    <3>. QED
      BY <3>2, <3>3
  <2>. QED
    BY <2>1, <2>2 DEF Leaves
<1>14. RunningTask'
  BY <1>4, <1>5, <1>6 DEF RunningTask
<1>15. SuspendedHaveFrame'
  <2>. SUFFICES ASSUME NEW t \in Terms \ {terminal_tick}, tm_pid'[t] # TM_UNUSED
                PROVE  task_array'[tm_pid'[t]] = 1 /\ kernel_sch'[tm_pid'[t]]
    BY <1>5 DEF SuspendedHaveFrame, Used
  <2>1. /\ tm_pid'[t] = tm_pid[t] /\ Used(tm_pid[t]) /\ kernel_sch[tm_pid[t]]
        /\ tm_pid[t] \in Pids /\ tm_pid[t] # new
    BY <1>3, <1>6 DEF TableInv, SuspendedHaveFrame, TypeOK
  <2>2. task_array'[tm_pid[t]] = 1
    BY <1>4, <2>1 DEF Used
  <2>. QED
    BY <1>2, <2>1, <2>2 DEF TypeOK
<1>. QED
  BY <1>7, <1>9, <1>10, <1>12, <1>13, <1>14, <1>15 DEF TableInv

\* A program ends: its parent is the foreground process of their terminal again.
LEMMA EndTaskTable ==
  ASSUME TypeOK, TableInv, EndTask
  PROVE  TableInv'
<1>. DEFINE q == prev_pid[pid]
<1>n. /\ terminal_tick \in Terms /\ pid \in Pids /\ Used(pid)
      /\ home[pid] = terminal_tick /\ tm_pid[terminal_tick] = pid
      /\ \A p \in Pids : Child(p) => prev_pid[p] # pid
  BY RunningTaskFact
<1>1. Child(pid)
  BY <1>n DEF EndTask, Child
<1>2. q \in Pids /\ Used(q) /\ q # pid /\ home[q] = terminal_tick
  BY <1>n, <1>1 DEF TableInv, Parents, TypeOK
<1>3. /\ task_array' = [task_array EXCEPT ![pid] = 0]
      /\ pid' = q /\ esp0' = q /\ user_page' = q
      /\ tm_pid' = [tm_pid EXCEPT ![terminal_tick] = q]
      /\ UNCHANGED <<terminal_tick, running_terminal, prev_pid, kernel_exc, kernel_sch,
                     home, root>>
  BY DEF EndTask, ReleasePid, PagingSetUserMapping
<1>4. \A p \in Pids : (Used(p)' <=> Used(p) /\ p # pid) /\ (Child(p)' <=> Child(p) /\ p # pid)
  BY <1>n, <1>3 DEF TypeOK, Used, Child
<1>5. /\ \A t \in Terms : t # terminal_tick => tm_pid'[t] = tm_pid[t]
      /\ tm_pid'[terminal_tick] = q
  BY <1>n, <1>3 DEF TypeOK
<1>6. running_terminal = MAX_TM
  BY <1>n, <1>1, SizeAssumption DEF Child, TableInv, Shells, Pids
<1>7. Shells'
  <2>1. \A t \in Terms : tm_pid'[t] = TM_UNUSED <=> t >= running_terminal
    BY <1>2, <1>5, <1>6 DEF Terms, Pids, TableInv, Shells
  <2>2. \A p \in Pids : p < running_terminal => Used(p)' /\ home'[p] = p
    BY <1>1, <1>3, <1>4, SizeAssumption DEF TableInv, Shells, Pids, Child
  <2>. QED
    BY <1>3, <1>6, <2>1, <2>2, SizeAssumption DEF TableInv, Shells, Used
<1>8. \A t \in Terms : t # terminal_tick /\ tm_pid[t] # TM_UNUSED =>
        /\ tm_pid'[t] = tm_pid[t] /\ tm_pid[t] \in Pids /\ tm_pid[t] # pid
        /\ Used(tm_pid[t]) /\ home[tm_pid[t]] = t
  BY <1>n, <1>5 DEF TableInv, Foreground, TypeOK
<1>9. Foreground'
  <2>1. ASSUME NEW t \in Terms, tm_pid'[t] # TM_UNUSED
        PROVE  task_array'[tm_pid'[t]] = 1 /\ home[tm_pid'[t]] = t
    BY <1>2, <1>4, <1>5, <1>8, <2>1 DEF Used
  <2>. QED
    BY <1>3, <2>1 DEF Foreground, Used
<1>10. Parents'
  <2>1. ASSUME NEW p \in Pids, Child(p)'
        PROVE  /\ task_array'[prev_pid[p]] = 1
               /\ prev_pid[p] # p
               /\ home[prev_pid[p]] = home[p]
               /\ kernel_exc[p] = [stack |-> prev_pid[p], at |-> "execute"]
    <3>1. Child(p) /\ prev_pid[p] \in Pids /\ prev_pid[p] # pid
      BY <1>n, <1>4, <2>1 DEF TypeOK
    <3>2. Used(prev_pid[p])
      BY <3>1 DEF TableInv, Parents
    <3>3. task_array'[prev_pid[p]] = 1
      BY <1>4, <3>1, <3>2 DEF Used
    <3>. QED
      BY <3>1, <3>3 DEF TableInv, Parents
  <2>. QED
    BY <1>3, <2>1 DEF Parents, Used
<1>11. OneChild'
  BY <1>3, <1>4 DEF TableInv, OneChild
<1>12. Leaves'
  <2>1. ASSUME NEW p \in Pids, Child(p)' PROVE prev_pid[p] # tm_pid'[home[p]]
    <3>1. Child(p) /\ p # pid /\ home[p] \in Terms
      BY <1>4, <2>1 DEF TypeOK
    <3>2. CASE home[p] = terminal_tick
      BY <1>n, <1>1, <1>5, <3>1, <3>2 DEF TableInv, OneChild
    <3>3. CASE home[p] # terminal_tick
      BY <1>5, <3>1, <3>3 DEF TableInv, Leaves
    <3>. QED
      BY <3>2, <3>3
  <2>2. ASSUME NEW p \in Pids, Used(p)', p # tm_pid'[home[p]]
        PROVE  \E c \in Pids : Child(c)' /\ prev_pid[c] = p
    <3>1. Used(p) /\ p # pid /\ home[p] \in Terms /\ p # q
      BY <1>2, <1>4, <1>5, <2>2 DEF TypeOK
    <3>2. p # tm_pid[home[p]]
      BY <1>n, <1>5, <2>2, <3>1
    <3>3. PICK c \in Pids : Child(c) /\ prev_pid[c] = p
      BY <3>1, <3>2 DEF TableInv, Leaves
    <3>. QED
      BY <1>4, <3>1, <3>3
  <2>. QED
    BY <1>3, <2>1, <2>2 DEF Leaves
<1>13. RunningTask'
  BY <1>2, <1>3, <1>4, <1>5 DEF RunningTask
<1>14. SuspendedHaveFrame'
  <2>1. ASSUME NEW t \in Terms \ {terminal_tick}, tm_pid'[t] # TM_UNUSED
        PROVE  task_array'[tm_pid'[t]] = 1 /\ kernel_sch[tm_pid'[t]]
    BY <1>4, <1>5, <1>8, <2>1 DEF TableInv, SuspendedHaveFrame, Used
  <2>. QED
    BY <1>3, <2>1 DEF SuspendedHaveFrame, Used
<1>. QED
  BY <1>7, <1>9, <1>10, <1>11, <1>12, <1>13, <1>14 DEF TableInv

LEMMA NextTable == ~EarlyCommands /\ TypeOK /\ TableInv /\ [Next]_vars => TableInv'
<1>. SUFFICES ASSUME ~EarlyCommands, TypeOK, TableInv, [Next]_vars PROVE TableInv'
  OBVIOUS
<1>1. CASE SwitchTask
  BY <1>1, SwitchTaskTable
<1>2. CASE StartShell
  BY <1>2, StartShellTable
<1>3. CASE Execute
  BY <1>3, ExecuteTable
<1>4. CASE RestartTask
  <2>1. \A p \in Pids : p >= running_terminal => kernel_exc'[p] = kernel_exc[p]
    BY <1>4 DEF RestartTask, TypeOK, Pids
  <2>2. esp0' = esp0
    BY <1>4 DEF RestartTask, TableInv, RunningTask
  <2>. QED
    BY <1>4, <2>1, <2>2, QuietStep DEF RestartTask
<1>5. CASE EndTask
  BY <1>5, EndTaskTable
<1>6. ASSUME NEW ft \in FileTypes, Open(ft) PROVE TableInv'
  BY <1>6, QuietStep DEF Open
<1>7. ASSUME NEW fd \in Fds, Close(fd) PROVE TableInv'
  BY <1>7, QuietStep DEF Close
<1>8. CASE Vidmap
  BY <1>8, QuietStep DEF Vidmap, PagingSetForVideo, pcbs
<1>9. ASSUME NEW d \in Terms, SwitchVisibleTerminal(d) PROVE TableInv'
  BY <1>9, QuietStep DEF SwitchVisibleTerminal, pcbs
<1>10. CASE UNCHANGED vars
  BY <1>10, QuietStep DEF vars, pcbs
<1>. QED
  BY <1>1, <1>2, <1>3, <1>4, <1>5, <1>6, <1>7, <1>8, <1>9, <1>10
     DEF Next, Timer, Syscall, Halt, ExpHalt

\* The assumption under which the table keeps its invariant.
LEMMA TableInvariant == ~EarlyCommands /\ Spec => [](TypeOK /\ TableInv)
<1>. SUFFICES ASSUME ~EarlyCommands PROVE Spec => [](TypeOK /\ TableInv)
  OBVIOUS
<1>1. Init => TypeOK /\ TableInv
  BY InitType, InitTable
<1>2. TypeOK /\ TableInv /\ [Next]_vars => (TypeOK /\ TableInv)'
  BY NextType, NextTable
<1>. QED
  BY <1>1, <1>2, PTL DEF Spec

\* The scheduler, execute and halt leave the processor, the terminal table, the
\* TSS and the page directory at the same live process.
THEOREM RunningTaskCorrect == ~EarlyCommands /\ Spec => []RunningTask
<1>1. TypeOK /\ TableInv => RunningTask
  BY DEF TableInv
<1>. QED
  BY <1>1, TableInvariant, PTL

\* The comparison of a pid with running_terminal in halt is right: it refuses
\* to end the terminals' shells and ends everything else.
THEOREM OnlyShellsRefuseHaltCorrect == ~EarlyCommands /\ Spec => []OnlyShellsRefuseHalt
<1>1. TypeOK /\ TableInv => OnlyShellsRefuseHalt
  BY RootsAreLow DEF TableInv, OnlyShellsRefuseHalt
<1>. QED
  BY <1>1, TableInvariant, PTL

\* halt returns through a frame its live parent's execute has written.
THEOREM HaltReturnsToParentCorrect == ~EarlyCommands /\ Spec => []HaltReturnsToParent
<1>1. TypeOK /\ TableInv => HaltReturnsToParent
  <2>. SUFFICES ASSUME TypeOK, TableInv PROVE HaltReturnsToParent
    OBVIOUS
  <2>1. \A p \in Pids : Used(p) /\ ~IsRoot(p) => Child(p)
    BY RootsAreLow DEF TableInv, Child, Shells, Pids
  <2>. QED
    BY <2>1 DEF TableInv, Parents, HaltReturnsToParent
<1>. QED
  BY <1>1, TableInvariant, PTL

\* One foreground process on each terminal; the others wait for one child each.
THEOREM OneWaiterPerChildCorrect == ~EarlyCommands /\ Spec => []OneWaiterPerChild
<1>1. TypeOK /\ TableInv => OneWaiterPerChild
  <2>. SUFFICES ASSUME TypeOK, TableInv PROVE OneWaiterPerChild
    OBVIOUS
  <2>1. \A p \in Pids : Used(p) /\ ~IsRoot(p) <=> Child(p)
    BY RootsAreLow DEF TableInv, Child, Shells, Pids
  <2>2. ASSUME NEW p \in Pids, NEW q \in Pids, Child(q), prev_pid[q] = p
        PROVE  p # tm_pid[home[p]]
    <3>1. home[p] = home[q]
      BY <2>2 DEF TableInv, Parents
    <3>. QED
      BY <2>2, <3>1 DEF TableInv, Leaves
  <2>. QED
    BY <2>1, <2>2 DEF TableInv, OneChild, Leaves, OneWaiterPerChild
<1>. QED
  BY <1>1, TableInvariant, PTL

\* The scheduler never loads a stack pointer it has not saved.
THEOREM SuspendedHaveFrameCorrect == ~EarlyCommands /\ Spec => []SuspendedHaveFrame
<1>1. TypeOK /\ TableInv => SuspendedHaveFrame
  BY DEF TableInv
<1>. QED
  BY <1>1, TableInvariant, PTL

-----------------------------------------------------------------------------
(* A terminal is touched by its own processes only.                        *)

\* A process that has no frame of the step's terminal keeps what is its own.
Keeps(p) ==
  /\ task_array'[p] = 1
  /\ tm_pid'[home[p]] = tm_pid[home[p]]
  /\ UNCHANGED <<prev_pid[p], kernel_exc[p], file_array[p], rtc_opened[p], home[p]>>

\* A free pid of the terminal's own is all that a new process takes.
LEMMA SpawnKeeps ==
  ASSUME TypeOK, NEW new \in Pids, NEW t \in Terms, IsFirstFree(new), Spawn(new, t),
         NEW p \in Pids, Used(p), home[p] # t
  PROVE  Keeps(p)
<1>1. p # new
  BY DEF IsFirstFree, Used
<1>. QED
  BY <1>1 DEF Keeps, Spawn, TypeOK, Used

LEMMA NextIsolates ==
  ASSUME ~EarlyCommands, TypeOK, TableInv, [Next]_vars,
         NEW p \in Pids, Used(p), home[p] # terminal_tick
  PROVE  Keeps(p)
<1>n. /\ terminal_tick \in Terms /\ pid \in Pids /\ Used(pid)
      /\ home[pid] = terminal_tick /\ p # pid
  BY RunningTaskFact
<1>1. CASE SwitchTask
  BY <1>1 DEF SwitchTask, SwitchStack, Keeps, Used
<1>2. CASE StartShell
  <2>1. tm_pid[NextTerm] = TM_UNUSED /\ NextTerm \in Terms
    BY <1>2, <1>n, NextTermFact DEF StartShell
  <2>2. home[p] # NextTerm
    <3>1. NextTerm >= running_terminal
      BY <2>1 DEF TableInv, Shells
    <3>2. running_terminal < MAX_TM
      BY <2>1, <3>1, SizeAssumption DEF TableInv, Shells, Terms
    <3>3. p < running_terminal
      BY <3>2 DEF TableInv, Shells
    <3>. QED
      BY <3>1, <3>3, SizeAssumption DEF TableInv, Shells, Pids, Terms
  <2>3. CASE TableFull
    BY <1>2, <2>3 DEF StartShell, Keeps, Used
  <2>4. CASE ~TableFull
    <3>1. PICK new \in Pids : IsFirstFree(new) /\ Spawn(new, NextTerm)
      BY <1>2, <2>4 DEF StartShell
    <3>. QED
      BY <2>1, <2>2, <3>1, SpawnKeeps
  <2>. QED
    BY <2>3, <2>4
<1>3. CASE Execute
  <2>1. PICK new \in Pids : IsFirstFree(new) /\ Spawn(new, terminal_tick)
    BY <1>3 DEF Execute
  <2>. QED
    BY <1>n, <2>1, SpawnKeeps
<1>4. CASE RestartTask
  BY <1>4, <1>n DEF RestartTask, Keeps, Used, TypeOK
<1>5. CASE EndTask
  <2>1. Child(pid)
    BY <1>5, <1>n DEF EndTask, Child
  <2>2. home[prev_pid[pid]] = terminal_tick /\ prev_pid[pid] \in Pids
    BY <1>n, <2>1 DEF TableInv, Parents, TypeOK
  <2>3. p # prev_pid[pid] /\ home[p] \in Terms
    BY <2>2 DEF TypeOK
  <2>4. task_array'[p] = 1 /\ tm_pid'[home[p]] = tm_pid[home[p]]
    BY <1>5, <1>n, <2>3 DEF EndTask, ReleasePid, TypeOK, Used
  <2>5. file_array'[p] = file_array[p] /\ rtc_opened'[p] = rtc_opened[p]
    BY <1>5, <1>n, <2>2, <2>3 DEF EndTask, CloseLoop, TypeOK
  <2>. QED
    BY <1>5, <2>4, <2>5 DEF EndTask, Keeps
<1>6. ASSUME NEW ft \in FileTypes, Open(ft) PROVE Keeps(p)
  <2>1. file_array'[p] = file_array[p] /\ rtc_opened'[p] = rtc_opened[p]
    BY <1>6, <1>n DEF Open, TypeOK
  <2>. QED
    BY <1>6, <2>1 DEF Open, Keeps, Used
<1>7. ASSUME NEW fd \in Fds, Close(fd) PROVE Keeps(p)
  <2>1. file_array'[p] = file_array[p] /\ rtc_opened'[p] = rtc_opened[p]
    BY <1>7, <1>n DEF Close, TypeOK
  <2>. QED
    BY <1>7, <2>1 DEF Close, Keeps, Used
<1>8. CASE Vidmap
  BY <1>8 DEF Vidmap, PagingSetForVideo, pcbs, Keeps, Used
<1>9. ASSUME NEW d \in Terms, SwitchVisibleTerminal(d) PROVE Keeps(p)
  BY <1>9 DEF SwitchVisibleTerminal, pcbs, Keeps, Used
<1>10. CASE UNCHANGED vars
  BY <1>10 DEF vars, pcbs, Keeps, Used
<1>. QED
  BY <1>1, <1>2, <1>3, <1>4, <1>5, <1>6, <1>7, <1>8, <1>9, <1>10
     DEF Next, Timer, Syscall, Halt, ExpHalt

\* No handler that runs on one terminal touches the processes of another, their
\* descriptors or the frames they return through.
THEOREM TerminalsIsolatedCorrect == ~EarlyCommands /\ Spec => TerminalsIsolated
<1>. SUFFICES ASSUME ~EarlyCommands PROVE Spec => TerminalsIsolated
  OBVIOUS
<1>1. TypeOK /\ TableInv /\ [Next]_vars =>
        [\A p \in Pids : Used(p) /\ home[p] # terminal_tick =>
           /\ task_array'[p] = 1
           /\ tm_pid'[home[p]] = tm_pid[home[p]]
           /\ UNCHANGED <<prev_pid[p], kernel_exc[p], file_array[p], rtc_opened[p],
                          home[p]>>]_vars
  BY NextIsolates DEF Keeps
<1>. QED
  BY <1>1, TableInvariant, PTL DEF Spec, TerminalsIsolated

-----------------------------------------------------------------------------
(* The video pages.  VideoUsersMapped by itself says nothing of the bitmap  *)
(* whose last bit takes the page away.                                      *)

\* A process that mapped the page is the foreground process of a terminal whose
\* bit is set, and the page is present while a bit is.
BitmapCoversUsers ==
  /\ \A p \in vid_user :
       Used(p) /\ p = tm_pid[home[p]] /\ home[p] \in task_use_vidmem
  /\ task_use_vidmem # {} => u_present

VideoInv == KernelVideo /\ BitmapCoversUsers

LEMMA InitVideo == Init => VideoInv
BY DEF Init, PagingInit, VideoInv, KernelVideo, BitmapCoversUsers, VidPage

\* A step of the foreground that maps the new process's pages keeps the bitmap.
LEMMA SpawnVideo ==
  ASSUME TypeOK, TableInv, VideoInv, NEW new \in Pids, NEW t \in Terms,
         ~Used(new), Spawn(new, t), \A p \in vid_user' : p \in vid_user /\ home[p] # t,
         UNCHANGED <<task_use_vidmem, u_present, terminal_display>>, terminal_tick' = t
  PROVE  VideoInv'
<1>1. KernelVideo'
  BY DEF Spawn, PagingSetUserMapping, KernelVideo, VidPage
<1>2. ASSUME NEW p \in vid_user'
      PROVE  Used(p)' /\ p = tm_pid'[home'[p]] /\ home'[p] \in task_use_vidmem
  <2>1. /\ Used(p) /\ p \in Pids /\ p # new /\ home[p] \in Terms /\ home[p] # t
        /\ p = tm_pid[home[p]] /\ home[p] \in task_use_vidmem
    BY <1>2 DEF VideoInv, BitmapCoversUsers, TypeOK
  <2>. QED
    BY <2>1 DEF Spawn, TypeOK, Used
<1>. QED
  BY <1>1, <1>2 DEF VideoInv, BitmapCoversUsers

\* A step that changes neither who runs nor the pages keeps them.
LEMMA QuietVideo ==
  ASSUME VideoInv,
         UNCHANGED <<task_array, tm_pid, terminal_tick, terminal_display, k_vid,
                     u_present, task_use_vidmem, home>>,
         vid_user' \subseteq vid_user
  PROVE  VideoInv'
BY DEF VideoInv, KernelVideo, BitmapCoversUsers, VidPage, Used

LEMMA NextVideo ==
  ~EarlyCommands /\ TypeOK /\ TableInv /\ VideoInv /\ [Next]_vars => VideoInv'
<1>. SUFFICES ASSUME ~EarlyCommands, TypeOK, TableInv, VideoInv, [Next]_vars
              PROVE  VideoInv'
  OBVIOUS
<1>n. /\ terminal_tick \in Terms /\ pid \in Pids /\ Used(pid)
      /\ home[pid] = terminal_tick /\ tm_pid[terminal_tick] = pid
      /\ \A p \in Pids : Child(p) => prev_pid[p] # pid
  BY RunningTaskFact
<1>1. CASE SwitchTask
  BY <1>1 DEF SwitchTask, PagingSetUserMapping, VideoInv, KernelVideo,
              BitmapCoversUsers, VidPage, Used
<1>2. CASE StartShell
  <2>1. /\ NextTerm \in Terms /\ NextTerm = running_terminal /\ running_terminal < MAX_TM
        /\ terminal_tick' = NextTerm
    <3>1. tm_pid[NextTerm] = TM_UNUSED /\ NextTerm \in Terms
      BY <1>2, <1>n, NextTermFact DEF StartShell
    <3>2. running_terminal < MAX_TM
      BY <3>1, SizeAssumption DEF TableInv, Shells, Terms
    <3>. QED
      BY <1>2, <1>n, <3>1, <3>2, NextTermFact, SizeAssumption DEF StartShell, TableInv, Shells
  <2>2. \A p \in Pids : Used(p) => p < running_terminal /\ home[p] = p
    BY <2>1 DEF TableInv, Shells
  <2>3. running_terminal \in Pids /\ ~Used(running_terminal)
    <3>1. running_terminal \in Pids
      BY <2>1, SizeAssumption DEF TableInv, Shells, Pids
    <3>. QED
      BY <2>2, <3>1 DEF Pids
  <2>4. ~TableFull
    BY <2>3 DEF TableFull, Used
  <2>5. PICK new \in Pids : IsFirstFree(new) /\ Spawn(new, NextTerm)
    BY <1>2, <2>4 DEF StartShell
  <2>6. ~Used(new)
    BY <2>5 DEF IsFirstFree, Used
  <2>7. \A p \in vid_user' : p \in vid_user /\ home[p] # NextTerm
    BY <1>2, <2>1, <2>2 DEF StartShell, VideoInv, BitmapCoversUsers, TypeOK, Pids
  <2>. QED
    BY <1>2, <2>1, <2>5, <2>6, <2>7, SpawnVideo DEF StartShell
<1>3. CASE Execute
  <2>1. PICK new \in Pids : IsFirstFree(new) /\ Spawn(new, terminal_tick)
    BY <1>3 DEF Execute
  <2>2. ~Used(new)
    BY <2>1 DEF IsFirstFree, Used
  <2>3. \A p \in vid_user' : p \in vid_user /\ home[p] # terminal_tick
    BY <1>3, <1>n DEF Execute, VideoInv, BitmapCoversUsers
  <2>. QED
    BY <1>3, <1>n, <2>1, <2>2, <2>3, SpawnVideo DEF Execute
<1>4. CASE RestartTask
  BY <1>4, QuietVideo DEF RestartTask, video
<1>5. CASE EndTask
  <2>1. KernelVideo'
    BY <1>5 DEF EndTask, PagingSetUserMapping, KernelVideo, VidPage
  <2>2. ASSUME NEW p \in vid_user'
        PROVE  Used(p)' /\ p = tm_pid'[home'[p]] /\ home'[p] \in task_use_vidmem'
    <3>1. /\ p \in vid_user /\ p \in Pids /\ p # pid /\ Used(p) /\ home[p] \in Terms
          /\ p = tm_pid[home[p]] /\ home[p] \in task_use_vidmem
      BY <1>5, <2>2 DEF EndTask, VideoInv, BitmapCoversUsers, TypeOK
    <3>2. home[p] # terminal_tick
      BY <1>n, <3>1
    <3>. QED
      BY <1>5, <1>n, <3>1, <3>2 DEF EndTask, ReleasePid, PagingRestoreVideo, Used, TypeOK
  <2>3. task_use_vidmem' # {} => u_present'
    BY <1>5 DEF EndTask, PagingRestoreVideo, VideoInv, BitmapCoversUsers
  <2>. QED
    BY <2>1, <2>2, <2>3 DEF VideoInv, BitmapCoversUsers
<1>6. ASSUME NEW ft \in FileTypes, Open(ft) PROVE VideoInv'
  BY <1>6, QuietVideo DEF Open, video
<1>7. ASSUME NEW fd \in Fds, Close(fd) PROVE VideoInv'
  BY <1>7, QuietVideo DEF Close, video
<1>8. CASE Vidmap
  BY <1>8, <1>n DEF Vidmap, PagingSetForVideo, pcbs, VideoInv, KernelVideo, BitmapCoversUsers, VidPage, Used
<1>9. ASSUME NEW d \in Terms, SwitchVisibleTerminal(d) PROVE VideoInv'
  BY <1>9 DEF SwitchVisibleTerminal, pcbs, VideoInv, KernelVideo, BitmapCoversUsers,
              VidPage, Used
<1>10. CASE UNCHANGED vars
  BY <1>10, QuietVideo DEF vars, video
<1>. QED
  BY <1>1, <1>2, <1>3, <1>4, <1>5, <1>6, <1>7, <1>8, <1>9, <1>10
     DEF Next, Timer, Syscall, Halt, ExpHalt

LEMMA VideoInvariant == ~EarlyCommands /\ Spec => [](TypeOK /\ TableInv /\ VideoInv)
<1>. SUFFICES ASSUME ~EarlyCommands PROVE Spec => [](TypeOK /\ TableInv /\ VideoInv)
  OBVIOUS
<1>1. Init => VideoInv
  BY InitVideo
<1>2. TypeOK /\ TableInv /\ VideoInv /\ [Next]_vars => VideoInv'
  BY NextVideo
<1>. QED
  BY <1>1, <1>2, TableInvariant, PTL DEF Spec

\* Kernel output of a terminal reaches the screen iff the terminal is displayed.
THEOREM KernelVideoCorrect == ~EarlyCommands /\ Spec => []KernelVideo
<1>1. TypeOK /\ TableInv /\ VideoInv => KernelVideo
  BY DEF VideoInv
<1>. QED
  BY <1>1, VideoInvariant, PTL

\* A foreground program that mapped the video page keeps it.
THEOREM VideoUsersMappedCorrect == ~EarlyCommands /\ Spec => []VideoUsersMapped
<1>1. TypeOK /\ TableInv /\ VideoInv => VideoUsersMapped
  BY DEF VideoInv, BitmapCoversUsers, VideoUsersMapped
<1>. QED
  BY <1>1, VideoInvariant, PTL

-----------------------------------------------------------------------------
(* The RTC: the flag and the descriptors of a process agree.                *)

LEMMA NextRtc ==
  ~EarlyCommands /\ TypeOK /\ TableInv /\ RtcTickedOnlyIfOpen /\ [Next]_vars
    => RtcTickedOnlyIfOpen'
<1>. SUFFICES ASSUME ~EarlyCommands, TypeOK, TableInv, RtcTickedOnlyIfOpen, [Next]_vars,
                     NEW p \in Pids, Used(p)', rtc_opened'[p] = 1
              PROVE  \E fd \in Fds : file_array'[p][fd] = "rtc"
  BY DEF RtcTickedOnlyIfOpen
<1>. DEFINE Agree == \E fd \in Fds : file_array'[p][fd] = "rtc"
<1>n. pid \in Pids /\ Used(pid)
  BY RunningTaskFact
<1>q. ASSUME Used(p), file_array'[p] = file_array[p], rtc_opened'[p] = rtc_opened[p]
      PROVE  Agree
  BY <1>q DEF RtcTickedOnlyIfOpen
<1>s. ASSUME NEW new \in Pids, NEW t \in Terms, Spawn(new, t) PROVE Agree
  <2>1. p # new
    BY <1>s DEF Spawn, TypeOK
  <2>2. Used(p) /\ file_array'[p] = file_array[p] /\ rtc_opened'[p] = rtc_opened[p]
    BY <1>s, <2>1 DEF Spawn, Used, TypeOK
  <2>. QED
    BY <1>q, <2>2
<1>1. CASE SwitchTask
  BY <1>1, <1>q DEF SwitchTask, Used
<1>2. CASE StartShell
  <2>1. CASE TableFull
    BY <1>2, <1>q, <2>1 DEF StartShell, Used
  <2>2. CASE ~TableFull
    <3>1. PICK new \in Pids : Spawn(new, NextTerm)
      BY <1>2, <2>2 DEF StartShell
    <3>2. NextTerm \in Terms
      BY NextTermFact DEF TypeOK
    <3>. QED
      BY <1>s, <3>1, <3>2
  <2>. QED
    BY <2>1, <2>2
<1>3. CASE Execute
  <2>1. PICK new \in Pids : Spawn(new, terminal_tick)
    BY <1>3 DEF Execute
  <2>. QED
    BY <1>s, <2>1 DEF TypeOK
<1>4. CASE RestartTask
  BY <1>4, <1>q DEF RestartTask, Used
<1>5. CASE EndTask
  <2>. DEFINE q == prev_pid[pid]
              closed == ClosedByLoop(pid, q)
  <2>1. q \in Pids /\ p # pid /\ Used(p)
    BY <1>5, <1>n DEF EndTask, ReleasePid, Used, TypeOK
  <2>2. /\ file_array'[p] = IF p = q THEN [fd \in Fds |-> IF fd \in closed THEN UNUSE
                                                          ELSE file_array[q][fd]]
                                    ELSE file_array[p]
        /\ rtc_opened'[p] = IF p = q THEN RtcAfterClose(q, closed) ELSE rtc_opened[p]
    BY <1>5, <1>n, <2>1 DEF EndTask, CloseLoop, TypeOK
  <2>3. CASE p = q
    <3>1. rtc_opened[q] = 1 /\ \A fd \in closed : file_array[q][fd] # "rtc"
      BY <2>2, <2>3 DEF RtcAfterClose
    <3>2. PICK fd \in Fds : file_array[q][fd] = "rtc"
      BY <2>1, <2>3, <3>1 DEF RtcTickedOnlyIfOpen
    <3>. QED
      BY <2>2, <2>3, <3>1, <3>2
  <2>. QED
    BY <1>q, <2>1, <2>2, <2>3
<1>6. ASSUME NEW ft \in FileTypes, Open(ft) PROVE Agree
  <2>1. PICK fd \in Fds : /\ file_array[pid][fd] = UNUSE
                          /\ file_array' = [file_array EXCEPT ![pid][fd] = ft]
    BY <1>6 DEF Open
  <2>2. Used(p) /\ rtc_opened' = [rtc_opened EXCEPT ![pid] = IF ft = "rtc" THEN 1 ELSE @]
    BY <1>6 DEF Open, Used
  <2>3. CASE p = pid /\ ft = "rtc"
    BY <1>n, <2>1, <2>3 DEF TypeOK
  <2>4. CASE p = pid /\ ft # "rtc"
    <3>1. PICK i \in Fds : file_array[pid][i] = "rtc"
      BY <1>n, <2>2, <2>4 DEF RtcTickedOnlyIfOpen, TypeOK
    <3>2. i # fd
      BY <2>1, <3>1 DEF UNUSE
    <3>3. file_array'[pid][i] = file_array[pid][i]
      BY <1>n, <2>1, <3>2 DEF TypeOK
    <3>. QED
      BY <2>4, <3>1, <3>3
  <2>5. CASE p # pid
    BY <1>q, <2>1, <2>2, <2>5 DEF TypeOK
  <2>. QED
    BY <2>3, <2>4, <2>5
<1>7. ASSUME NEW fd \in Fds, Close(fd) PROVE Agree
  <2>1. /\ file_array' = [file_array EXCEPT ![pid][fd] = UNUSE]
        /\ rtc_opened' = [rtc_opened EXCEPT ![pid] = RtcAfterClose(pid, {fd})]
        /\ Used(p)
    BY <1>7 DEF Close, Used
  <2>2. CASE p = pid
    <3>1. rtc_opened[pid] = 1 /\ file_array[pid][fd] # "rtc"
      BY <1>n, <2>1, <2>2 DEF RtcAfterClose, TypeOK
    <3>2. PICK i \in Fds : file_array[pid][i] = "rtc"
      BY <1>n, <3>1 DEF RtcTickedOnlyIfOpen
    <3>. QED
      BY <1>n, <2>1, <2>2, <3>1, <3>2 DEF TypeOK
  <2>3. CASE p # pid
    BY <1>q, <2>1, <2>3 DEF TypeOK
  <2>. QED
    BY <2>2, <2>3
<1>8. CASE Vidmap
  BY <1>8, <1>q DEF Vidmap, PagingSetForVideo, pcbs, Used
<1>9. ASSUME NEW d \in Terms, SwitchVisibleTerminal(d) PROVE Agree
  BY <1>9, <1>q DEF SwitchVisibleTerminal, pcbs, Used
<1>10. CASE UNCHANGED vars
  BY <1>10, <1>q DEF vars, pcbs, Used
<1>. QED
  BY <1>1, <1>2, <1>3, <1>4, <1>5, <1>6, <1>7, <1>8, <1>9, <1>10
     DEF Next, Timer, Syscall, Halt, ExpHalt

\* A process for which the RTC handler counts has an RTC descriptor.
THEOREM RtcTickedOnlyIfOpenCorrect == ~EarlyCommands /\ Spec => []RtcTickedOnlyIfOpen
<1>. SUFFICES ASSUME ~EarlyCommands PROVE Spec => []RtcTickedOnlyIfOpen
  OBVIOUS
<1>1. Init => RtcTickedOnlyIfOpen
  BY DEF Init, RtcTickedOnlyIfOpen
<1>2. TypeOK /\ TableInv /\ RtcTickedOnlyIfOpen /\ [Next]_vars => RtcTickedOnlyIfOpen'
  BY NextRtc
<1>. QED
  BY <1>1, <1>2, TableInvariant, PTL DEF Spec

-----------------------------------------------------------------------------
(* The stacks of jobs.  The stack of a terminal is its path: from its shell *)
(* to the foreground process, each the parent of the next.                 *)

\* A set that has 0 and goes on from every number below N has all up to N.
LEMMA CountsUp ==
  ASSUME NEW N \in Nat, NEW S, 0 \in S, \A n \in 0 .. N - 1 : n \in S => n + 1 \in S
  PROVE  0 .. N \subseteq S
<1>. DEFINE T == (0 .. N) \ S
            R == {ss \in Nat \X Nat : ss[1] < ss[2]}
<1>1. SUFFICES ASSUME T # {} PROVE FALSE
  OBVIOUS
<1>2. T \in SUBSET Nat
  OBVIOUS
<1>3. IsWellFoundedOn(R, Nat)
  BY NatLessThanWellFounded DEF OpToRel
<1>4. PICK n \in T : \A m \in T : ~(<<m, n>> \in R)
  BY <1>1, <1>2, <1>3, WFMin
<1>5. \A m \in T : ~(m < n)
  BY <1>2, <1>4
<1>6. n \in 1 .. N /\ n \notin S
  BY <1>5
<1>7. n - 1 \in 0 .. N - 1 /\ n - 1 < n
  BY <1>6
<1>8. n - 1 \in S
  BY <1>5, <1>7
<1>9. (n - 1) + 1 \in S
  BY <1>7, <1>8
<1>. QED
  BY <1>6, <1>9

\* Chain is f, when prev are the PCBs' prev_pid and the shells are below low.
IsChain(f, prev, low) ==
  f = [n \in 0 .. MAX_PROC |->
        [p \in Pids |-> IF n = 0 \/ p < low THEN <<p>> ELSE Append(f[n - 1][prev[p]], p)]]

Upto(f, k, prev, low) ==
  f = [n \in 0 .. k |->
        [p \in Pids |-> IF n = 0 \/ p < low THEN <<p>> ELSE Append(f[n - 1][prev[p]], p)]]

LEMMA ChainExists ==
  ASSUME NEW prev, NEW low
  PROVE  \E f : IsChain(f, prev, low)
<1>. DEFINE S == {k \in 0 .. MAX_PROC : \E f : Upto(f, k, prev, low)}
<1>1. MAX_PROC \in Nat
  BY SizeAssumption
<1>2. 0 \in S
  <2>. DEFINE f == [n \in 0 .. 0 |-> [p \in Pids |-> <<p>>]]
  <2>1. Upto(f, 0, prev, low)
    BY DEF Upto
  <2>. QED
    BY <1>1, <2>1
<1>3. ASSUME NEW k \in 0 .. MAX_PROC - 1, k \in S
      PROVE  k + 1 \in S
  <2>1. PICK f : Upto(f, k, prev, low)
    BY <1>3
  <2>. DEFINE h == [n \in 0 .. k + 1 |-> IF n <= k THEN f[n]
                      ELSE [p \in Pids |-> IF p < low THEN <<p>> ELSE Append(f[k][prev[p]], p)]]
  <2>2. \A n \in 0 .. k : f[n] = [p \in Pids |-> IF n = 0 \/ p < low THEN <<p>> ELSE Append(f[n - 1][prev[p]], p)]
    BY <2>1 DEF Upto
  <2>3. k \in Nat
    OBVIOUS
  <2>4. ASSUME NEW n \in 0 .. k + 1
        PROVE  h[n] = [p \in Pids |-> IF n = 0 \/ p < low THEN <<p>> ELSE Append(h[n - 1][prev[p]], p)]
    <3>1. CASE n = 0
      <4>1. h[n] = f[0]
        BY <2>3, <3>1
      <4>. QED
        BY <2>2, <2>3, <3>1, <4>1
    <3>2. CASE n \in 1 .. k
      <4>1. h[n] = f[n] /\ h[n - 1] = f[n - 1] /\ n \in 0 .. k
        BY <2>3, <3>2
      <4>. HIDE DEF h
      <4>. QED
        BY <2>2, <3>2, <4>1
    <3>3. CASE n = k + 1
      <4>1. /\ h[n] = [p \in Pids |-> IF p < low THEN <<p>> ELSE Append(f[k][prev[p]], p)]
            /\ h[n - 1] = f[k] /\ n # 0
        BY <2>3, <3>3
      <4>. HIDE DEF h
      <4>. QED
        BY <4>1
    <3>. QED
      BY <2>3, <3>1, <3>2, <3>3
  <2>5. DOMAIN h = 0 .. k + 1 /\ h = [n \in 0 .. k + 1 |-> h[n]]
    OBVIOUS
  <2>. HIDE DEF h
  <2>6. Upto(h, k + 1, prev, low)
    BY <2>4, <2>5 DEF Upto
  <2>. QED
    BY <1>1, <2>3, <2>6
<1>4. MAX_PROC \in S
  <2>. HIDE DEF S
  <2>1. 0 .. MAX_PROC \subseteq S
    BY <1>1, <1>2, <1>3, CountsUp
  <2>. QED
    BY <1>1, <2>1
<1>. QED
  BY <1>4 DEF IsChain, Upto

\* s goes from below low up to top, from parent to child.
Path(s, top, prev, low) ==
  /\ s \in Seq(Pids) /\ s # <<>> /\ s[Len(s)] = top
  /\ s[1] < low
  /\ \A i \in 2 .. Len(s) : s[i] >= low /\ prev[s[i]] = s[i - 1]

LEMMA PathTypes ==
  ASSUME NEW s, NEW top, NEW prev, NEW low, Path(s, top, prev, low)
  PROVE  Len(s) \in Nat \ {0} /\ \A i \in 1 .. Len(s) : s[i] \in Pids
BY EmptySeq, LenProperties, ElementOfSeq DEF Path

\* No process is twice in a path.
LEMMA PathOnce ==
  ASSUME NEW s, NEW top, NEW prev, NEW low \in Int, Path(s, top, prev, low),
         NEW i \in 1 .. Len(s), NEW j \in 1 .. Len(s), i < j
  PROVE  s[i] # s[j]
<1>. SUFFICES ASSUME s[i] = s[j] PROVE FALSE
  OBVIOUS
<1>. DEFINE S == {d \in 0 .. i - 1 : s[i - d] = s[j - d]}
<1>1. Len(s) \in Nat /\ \A n \in 1 .. Len(s) : s[n] \in Pids
  BY PathTypes
<1>2. 0 \in S
  BY <1>1
<1>3. ASSUME NEW d \in 0 .. (i - 1) - 1, d \in S
      PROVE  d + 1 \in S
  <2>1. i - d \in 2 .. Len(s) /\ j - d \in 2 .. Len(s)
    BY <1>1
  <2>2. prev[s[i - d]] = s[(i - d) - 1] /\ prev[s[j - d]] = s[(j - d) - 1]
    BY <2>1 DEF Path
  <2>3. s[i - d] = s[j - d]
    BY <1>3
  <2>4. s[i - (d + 1)] = s[j - (d + 1)]
    BY <2>2, <2>3
  <2>. QED
    BY <2>4
<1>4. i - 1 \in S
  <2>1. i - 1 \in Nat
    BY <1>1
  <2>. HIDE DEF S
  <2>2. 0 .. i - 1 \subseteq S
    BY <1>2, <1>3, <2>1, CountsUp
  <2>. QED
    BY <2>1, <2>2
<1>5. s[1] = s[j - (i - 1)] /\ j - (i - 1) \in 2 .. Len(s)
  BY <1>1, <1>4
<1>6. s[1] < low /\ s[j - (i - 1)] >= low /\ s[1] \in Int
  BY <1>1, <1>5 DEF Path, Pids
<1>. QED
  BY <1>5, <1>6

\* So it is no longer than the process table.
LEMMA PathShort ==
  ASSUME NEW s, NEW top, NEW prev, NEW low \in Int, Path(s, top, prev, low)
  PROVE  Len(s) <= MAX_PROC
<1>. SUFFICES ASSUME ~(Len(s) <= MAX_PROC) PROVE FALSE
  OBVIOUS
<1>1. Len(s) \in Nat /\ \A n \in 1 .. Len(s) : s[n] \in Pids
  BY PathTypes
<1>2. MAX_PROC \in Nat /\ Len(s) > MAX_PROC
  BY <1>1, SizeAssumption
<1>3. IsFiniteSet(Pids) /\ Cardinality(Pids) = MAX_PROC
  <2>1. PICK a \in Int, b \in Int : a = 0 /\ b = MAX_PROC - 1
    BY <1>2
  <2>2. IsFiniteSet(a .. b) /\ Cardinality(a .. b) = IF a > b THEN 0 ELSE b - a + 1
    BY FS_Interval
  <2>3. Pids = a .. b
    BY <2>1 DEF Pids
  <2>. QED
    BY <1>2, <2>1, <2>2, <2>3
<1>4. IsFiniteSet(1 .. Len(s)) /\ Cardinality(1 .. Len(s)) = Len(s)
  <2>1. PICK a \in Int, b \in Int : a = 1 /\ b = Len(s)
    BY <1>1
  <2>2. IsFiniteSet(a .. b) /\ Cardinality(a .. b) = IF a > b THEN 0 ELSE b - a + 1
    BY FS_Interval
  <2>. QED
    BY <1>2, <2>1, <2>2
<1>5. s \in [1 .. Len(s) -> Pids]
  BY LenProperties DEF Path
<1>6. PICK i \in 1 .. Len(s), j \in 1 .. Len(s) : i # j /\ s[i] = s[j]
  <2>1. Cardinality(Pids) < Cardinality(1 .. Len(s))
    BY <1>2, <1>3, <1>4
  <2>. QED
    BY <1>3, <1>4, <1>5, <2>1, FS_PigeonHole
<1>7. i < j \/ j < i
  BY <1>6
<1>. QED
  BY <1>6, <1>7, PathOnce

\* Following prev_pid from the top of a path gives the path.
LEMMA PathIsChain ==
  ASSUME NEW s, NEW top, NEW prev, NEW low \in Int, Path(s, top, prev, low), NEW f, IsChain(f, prev, low)
  PROVE  f[MAX_PROC][top] = s
<1>1. Len(s) \in Nat \ {0} /\ s \in Seq(Pids) /\ \A i \in 1 .. Len(s) : s[i] \in Pids
  BY PathTypes DEF Path
<1>2. MAX_PROC \in Nat /\ Len(s) <= MAX_PROC
  BY PathShort, SizeAssumption
<1>3. \A n \in 0 .. MAX_PROC, p \in Pids :
        f[n][p] = IF n = 0 \/ p < low THEN <<p>> ELSE Append(f[n - 1][prev[p]], p)
  <2>1. \A n \in 0 .. MAX_PROC :
          f[n] = [p \in Pids |-> IF n = 0 \/ p < low THEN <<p>> ELSE Append(f[n - 1][prev[p]], p)]
    BY Zenon DEF IsChain
  <2>. QED
    BY <2>1
<1>. DEFINE S == {d \in 0 .. Len(s) - 1 : \A n \in d .. MAX_PROC : f[n][s[d + 1]] = SubSeq(s, 1, d + 1)}
<1>4. 0 \in S
  <2>1. s[1] \in Pids /\ s[1] < low
    BY <1>1 DEF Path
  <2>2. \A n \in 0 .. MAX_PROC : f[n][s[1]] = <<s[1]>>
    BY <1>3, <2>1
  <2>3. SubSeq(s, 1, 1) = <<s[1]>>
    <3>1. PICK m \in 1 .. Len(s), n \in 1 .. Len(s) : m = 1 /\ n = 1 /\ n \in m .. Len(s)
      BY <1>1
    <3>2. SubSeq(s, m, n) = SubSeq(s, m, n - 1) \o <<s[n]>>
      BY <1>1, <3>1, SubSeqRecursiveSecond
    <3>3. SubSeq(s, m, n - 1) = <<>>
      BY <3>1, SubSeqEmpty
    <3>4. PICK z \in Seq(Pids) : z = <<s[1]>>
      <4>1. PICK e \in Pids : e = s[1]
        BY <2>1
      <4>2. <<e>> \in Seq(Pids)
        OBVIOUS
      <4>. QED
        BY <4>1, <4>2
    <3>5. <<>> \o z = z
      BY ConcatEmptySeq
    <3>. QED
      BY <3>1, <3>2, <3>3, <3>4, <3>5
  <2>. QED
    BY <1>1, <2>2, <2>3
<1>5. ASSUME NEW d \in 0 .. (Len(s) - 1) - 1, d \in S
      PROVE  d + 1 \in S
  <2>1. d + 2 \in 2 .. Len(s) /\ d + 1 \in 1 .. Len(s) /\ d \in Nat /\ d + 1 \in 0 .. Len(s) - 1
    BY <1>1
  <2>2. s[d + 2] \in Pids /\ s[d + 2] >= low /\ prev[s[d + 2]] = s[d + 1]
    <3>1. prev[s[d + 2]] = s[(d + 2) - 1] /\ s[d + 2] >= low
      BY <2>1 DEF Path
    <3>. QED
      BY <1>1, <2>1, <3>1
  <2>3. SubSeq(s, 1, d + 2) = Append(SubSeq(s, 1, d + 1), s[d + 2])
    BY <1>1, <2>1
  <2>4. ASSUME NEW n \in d + 1 .. MAX_PROC
        PROVE  f[n][s[d + 2]] = SubSeq(s, 1, d + 2)
    <3>1. n \in 0 .. MAX_PROC /\ n # 0 /\ n - 1 \in d .. MAX_PROC
      BY <1>2, <2>1
    <3>2. ~(s[d + 2] < low)
      BY <2>2 DEF Pids
    <3>3. f[n][s[d + 2]] = Append(f[n - 1][s[d + 1]], s[d + 2])
      BY <1>3, <2>2, <3>1, <3>2
    <3>4. f[n - 1][s[d + 1]] = SubSeq(s, 1, d + 1)
      BY <1>5, <3>1
    <3>. QED
      BY <2>3, <3>3, <3>4
  <2>5. (d + 1) + 1 = d + 2
    BY <2>1
  <2>. QED
    BY <2>1, <2>4, <2>5
<1>6. Len(s) - 1 \in S
  <2>1. Len(s) - 1 \in Nat
    BY <1>1
  <2>. HIDE DEF S
  <2>2. 0 .. Len(s) - 1 \subseteq S
    BY <1>4, <1>5, <2>1, CountsUp
  <2>. QED
    BY <2>1, <2>2
<1>7. MAX_PROC \in Len(s) - 1 .. MAX_PROC /\ (Len(s) - 1) + 1 = Len(s)
  BY <1>1, <1>2
<1>8. f[MAX_PROC][s[Len(s)]] = SubSeq(s, 1, Len(s))
  BY <1>6, <1>7
<1>9. SubSeq(s, 1, Len(s)) = s
  BY <1>1, SubSeqFull
<1>. QED
  BY <1>8, <1>9 DEF Path

\* The only path up to a process.
LEMMA PathUnique ==
  ASSUME NEW prev, NEW low \in Int, NEW s, NEW top, Path(s, top, prev, low),
         NEW z, Path(z, top, prev, low)
  PROVE  s = z
<1>1. PICK f : IsChain(f, prev, low)
  BY ChainExists
<1>2. f[MAX_PROC][top] = s
  BY <1>1, PathIsChain
<1>3. f[MAX_PROC][top] = z
  BY <1>1, PathIsChain
<1>. QED
  BY <1>2, <1>3

\* The shells, whatever terminals are started.
LEMMA LowRoots ==
  ASSUME NEW low \in 1 .. MAX_TM, NEW r, \A t \in Terms : r[t] = IF t < low THEN t ELSE TM_UNUSED,
         NEW p \in Pids
  PROVE  (\E t \in Terms : r[t] = p) <=> p < low
<1>1. ASSUME p < low PROVE \E t \in Terms : r[t] = p
  <2>1. p \in Terms
    BY <1>1, SizeAssumption DEF Pids, Terms
  <2>. QED
    BY <1>1, <2>1
<1>2. ASSUME NEW t \in Terms, r[t] = p PROVE p < low
  BY <1>2 DEF Pids, TM_UNUSED
<1>. QED
  BY <1>1, <1>2

LEMMA ChainNow ==
  ASSUME TypeOK, Shells
  PROVE  IsChain(Chain, prev_pid, running_terminal)
<1>1. \A p \in Pids : IsRoot(p) <=> p < running_terminal
  BY RootsAreLow
<1>2. PICK f : IsChain(f, prev_pid, running_terminal)
  BY ChainExists
<1>3. f = [n \in 0 .. MAX_PROC |->
            [p \in Pids |-> IF n = 0 \/ IsRoot(p) THEN <<p>> ELSE Append(f[n - 1][prev_pid[p]], p)]]
  BY <1>1, <1>2 DEF IsChain
<1>4. Chain = [n \in 0 .. MAX_PROC |->
            [p \in Pids |-> IF n = 0 \/ IsRoot(p) THEN <<p>> ELSE Append(Chain[n - 1][prev_pid[p]], p)]]
  BY <1>3 DEF Chain
<1>. QED
  BY <1>1, <1>4 DEF IsChain

LEMMA ChainNext ==
  ASSUME Shells'
  PROVE  IsChain(Chain', prev_pid', running_terminal')
<1>1. \A p \in Pids : IsRoot(p)' <=> p < running_terminal'
  <2>1. PICK low, r : low = running_terminal' /\ r = root'
    OBVIOUS
  <2>2. low \in 1 .. MAX_TM /\ \A t \in Terms : r[t] = IF t < low THEN t ELSE TM_UNUSED
    BY <2>1 DEF Shells
  <2>3. \A p \in Pids : (\E t \in Terms : r[t] = p) <=> p < low
    BY <2>2, LowRoots
  <2>. QED
    BY <2>1, <2>3 DEF IsRoot
<1>2. PICK f : IsChain(f, prev_pid', running_terminal')
  BY ChainExists
<1>3. f = [n \in 0 .. MAX_PROC |->
            [p \in Pids |-> IF n = 0 \/ IsRoot(p)' THEN <<p>> ELSE Append(f[n - 1][prev_pid'[p]], p)]]
  BY <1>1, <1>2 DEF IsChain
<1>4. Chain' = [n \in 0 .. MAX_PROC |->
            [p \in Pids |-> IF n = 0 \/ IsRoot(p)' THEN <<p>> ELSE Append(Chain'[n - 1][prev_pid'[p]], p)]]
  BY <1>3 DEF Chain
<1>. QED
  BY <1>1, <1>4 DEF IsChain

\* The stack of a terminal is its path.
LEMMA StackNow ==
  ASSUME TypeOK, Shells, NEW t \in Terms, NEW s, Path(s, tm_pid[t], prev_pid, running_terminal)
  PROVE  StackOf(t) = s
<1>1. tm_pid[t] # TM_UNUSED /\ running_terminal \in Int
  <2>1. s[Len(s)] \in Pids
    BY PathTypes
  <2>. QED
    BY <2>1 DEF Path, Pids, TypeOK, TM_UNUSED
<1>2. PICK f, p, prev, low : f = Chain /\ p = tm_pid[t] /\ prev = prev_pid /\ low = running_terminal
  OBVIOUS
<1>3. f[MAX_PROC][p] = s
  <2>1. IsChain(f, prev, low) /\ Path(s, p, prev, low) /\ low \in Int
    BY <1>1, <1>2, ChainNow
  <2>. QED
    BY <2>1, PathIsChain
<1>. QED
  BY <1>1, <1>2, <1>3 DEF StackOf

LEMMA StackNext ==
  ASSUME Shells', NEW t \in Terms, NEW s, Path(s, tm_pid'[t], prev_pid', running_terminal')
  PROVE  StackOf(t)' = s
<1>1. tm_pid'[t] # TM_UNUSED /\ running_terminal' \in Int
  <2>1. s[Len(s)] \in Pids
    BY PathTypes
  <2>2. s[Len(s)] = tm_pid'[t]
    BY DEF Path
  <2>3. running_terminal' \in 1 .. MAX_TM
    BY DEF Shells
  <2>. QED
    BY <2>1, <2>2, <2>3, SizeAssumption DEF Pids, TM_UNUSED
<1>2. PICK f, p, prev, low : f = Chain' /\ p = tm_pid'[t] /\ prev = prev_pid' /\ low = running_terminal'
  OBVIOUS
<1>3. f[MAX_PROC][p] = s
  <2>1. IsChain(f, prev, low) /\ Path(s, p, prev, low) /\ low \in Int
    BY <1>1, <1>2, ChainNext
  <2>. QED
    BY <2>1, PathIsChain
<1>. QED
  BY <1>1, <1>2, <1>3 DEF StackOf

\* s is the path of terminal t, of live processes of this terminal.
JobsOf(s, t) ==
  /\ Path(s, tm_pid[t], prev_pid, running_terminal)
  /\ \A i \in 1 .. Len(s) : Used(s[i]) /\ home[s[i]] = t

\* Every started terminal has such a path.
JobsInv == \A t \in Terms : tm_pid[t] # TM_UNUSED => \E s : JobsOf(s, t)

LEMMA JobsInit == Init => JobsInv
<1>. SUFFICES ASSUME Init, NEW t \in Terms, tm_pid[t] # TM_UNUSED PROVE \E s : JobsOf(s, t)
  BY DEF JobsInv
<1>1. 0 \in Pids /\ 0 \in Terms /\ t = 0 /\ tm_pid[t] = 0
  BY SizeAssumption DEF Init, Pids, Terms
<1>2. PICK s \in Seq(Pids) : s = <<0>>
  <2>1. <<0>> \in Seq(Pids)
    BY <1>1
  <2>. QED
    BY <2>1
<1>3. Len(s) = 1 /\ s[1] = 0 /\ s # <<>>
  BY <1>2
<1>4. Path(s, tm_pid[t], prev_pid, running_terminal)
  BY <1>1, <1>3 DEF Init, Path
<1>5. Used(0) /\ home[0] = t
  BY <1>1 DEF Init, Used
<1>. QED
  BY <1>3, <1>4, <1>5 DEF JobsOf

\* A step that leaves the processes of a terminal alone keeps its path.
Spares(t) ==
  /\ tm_pid'[t] = tm_pid[t]
  /\ \A p \in Pids : Used(p) /\ home[p] = t =>
       /\ Used(p)' /\ home'[p] = t /\ prev_pid'[p] = prev_pid[p]
       /\ p < running_terminal' <=> p < running_terminal

LEMMA SparedPath ==
  ASSUME TypeOK, Shells', NEW t \in Terms, Spares(t), NEW s, JobsOf(s, t)
  PROVE  JobsOf(s, t)'
<1>1. Len(s) \in Nat \ {0} /\ \A i \in 1 .. Len(s) : s[i] \in Pids /\ Used(s[i]) /\ home[s[i]] = t
  BY PathTypes DEF JobsOf
<1>2. \A i \in 1 .. Len(s) : /\ Used(s[i])' /\ home'[s[i]] = t /\ prev_pid'[s[i]] = prev_pid[s[i]]
                             /\ s[i] < running_terminal' <=> s[i] < running_terminal
  BY <1>1 DEF Spares
<1>3. running_terminal \in Int /\ running_terminal' \in Int /\ \A i \in 1 .. Len(s) : s[i] \in Int
  <2>1. running_terminal' \in 1 .. MAX_TM
    BY DEF Shells
  <2>. QED
    BY <1>1, <2>1 DEF TypeOK, Pids
<1>4. \A i \in 2 .. Len(s) : i \in 1 .. Len(s)
  BY <1>1
<1>5. Path(s, tm_pid[t], prev_pid, running_terminal)
  BY DEF JobsOf
<1>6. Path(s, tm_pid'[t], prev_pid', running_terminal')
  <2>1. s \in Seq(Pids) /\ s # <<>> /\ s[Len(s)] = tm_pid'[t]
    BY <1>5 DEF Path, Spares
  <2>2. s[1] < running_terminal'
    BY <1>1, <1>2, <1>5 DEF Path
  <2>3. \A i \in 2 .. Len(s) : s[i] >= running_terminal' /\ prev_pid'[s[i]] = s[i - 1]
    BY <1>2, <1>3, <1>4, <1>5 DEF Path
  <2>. QED
    BY <2>1, <2>2, <2>3 DEF Path
<1>. QED
  BY <1>2, <1>6 DEF JobsOf

LEMMA SparedStack ==
  ASSUME TypeOK, TableInv, JobsInv, Shells', NEW t \in Terms, Spares(t)
  PROVE  /\ StackOf(t)' = StackOf(t)
         /\ tm_pid'[t] # TM_UNUSED => \E s : JobsOf(s, t)'
<1>1. CASE tm_pid[t] = TM_UNUSED
  BY <1>1 DEF Spares, StackOf
<1>2. CASE tm_pid[t] # TM_UNUSED
  <2>1. PICK s : JobsOf(s, t)
    BY <1>2 DEF JobsInv
  <2>2. JobsOf(s, t)'
    BY <2>1, SparedPath
  <2>3. StackOf(t) = s
    BY <2>1, StackNow DEF JobsOf, TableInv
  <2>4. Path(s, tm_pid'[t], prev_pid', running_terminal')
    BY <2>2 DEF JobsOf
  <2>5. StackOf(t)' = s
    BY <2>4, StackNext
  <2>. QED
    BY <2>2, <2>3, <2>5
<1>. QED
  BY <1>1, <1>2

\* What the steps do to the stacks of jobs.
Pushes(t, j) ==
  /\ j \in Pids /\ \A u \in Terms : \A i \in 1 .. Len(StackOf(u)) : StackOf(u)[i] # j
  /\ StackOf(t)' = Append(StackOf(t), j)

SparesOthers(t) == \A u \in Terms \ {t} : StackOf(u)' = StackOf(u)

\* What a stack holds
LEMMA StackHolds ==
  ASSUME TypeOK, TableInv, JobsInv, NEW t \in Terms
  PROVE  /\ tm_pid[t] = TM_UNUSED => StackOf(t) = <<>>
         /\ tm_pid[t] # TM_UNUSED => JobsOf(StackOf(t), t) /\ StackOf(t) # <<>>
         /\ StackOf(t) \in Seq(Pids)
         /\ \A i \in 1 .. Len(StackOf(t)) : Used(StackOf(t)[i])
<1>1. CASE tm_pid[t] = TM_UNUSED
  <2>1. StackOf(t) = <<>>
    BY <1>1 DEF StackOf
  <2>. QED
    BY <1>1, <2>1
<1>2. CASE tm_pid[t] # TM_UNUSED
  <2>1. PICK s : JobsOf(s, t)
    BY <1>2 DEF JobsInv
  <2>2. StackOf(t) = s
    BY <2>1, StackNow DEF JobsOf, TableInv
  <2>. QED
    BY <1>2, <2>1, <2>2 DEF JobsOf, Path
<1>. QED
  BY <1>1, <1>2

\* A terminal that the step spares or that gets a path keeps the invariant.
LEMMA JobsKept ==
  ASSUME TypeOK, TableInv, JobsInv, Shells', NEW t \in Terms,
         \A u \in Terms \ {t} : Spares(u),
         tm_pid'[t] # TM_UNUSED => \E s : JobsOf(s, t)'
  PROVE  JobsInv' /\ SparesOthers(t)
<1>1. ASSUME NEW u \in Terms \ {t}
      PROVE  StackOf(u)' = StackOf(u) /\ (tm_pid'[u] # TM_UNUSED => \E s : JobsOf(s, u)')
  BY SparedStack
<1>. QED
  BY <1>1 DEF JobsInv, SparesOthers

LEMMA ExecuteStacks ==
  ASSUME TypeOK, TableInv, JobsInv, TableInv', ~EarlyCommands, Execute
  PROVE  JobsInv' /\ \E t, j : t = terminal_tick /\ Pushes(t, j) /\ SparesOthers(t)
<1>1. /\ terminal_tick \in Terms /\ pid \in Pids /\ Used(pid)
      /\ home[pid] = terminal_tick /\ tm_pid[terminal_tick] = pid /\ pid # TM_UNUSED
  BY RunningTaskFact DEF Pids, TM_UNUSED
<1>2. PICK new \in Pids : IsFirstFree(new) /\ Spawn(new, terminal_tick)
  BY DEF Execute
<1>3. ~Used(new)
  BY <1>2 DEF IsFirstFree, Used, TypeOK
<1>4. /\ new >= running_terminal /\ \A p \in Pids : Used(p)' <=> Used(p) \/ p = new
      /\ \A p \in Pids : p # new => UNCHANGED <<prev_pid[p], home[p]>>
      /\ prev_pid'[new] = pid /\ home'[new] = terminal_tick
      /\ tm_pid' = [tm_pid EXCEPT ![terminal_tick] = new]
      /\ running_terminal' = running_terminal
  BY <1>1, <1>2, <1>3, SpawnTable DEF Execute
<1>5. PICK t, s : t = terminal_tick /\ s = StackOf(t)
  OBVIOUS
<1>6. JobsOf(s, t) /\ s \in Seq(Pids) /\ s # <<>> /\ t \in Terms
  BY <1>1, <1>5, StackHolds
<1>7. /\ Len(s) \in Nat \ {0}
      /\ \A i \in 1 .. Len(s) : s[i] \in Pids /\ Used(s[i]) /\ home[s[i]] = t /\ s[i] # new
      /\ s[Len(s)] = pid /\ s[1] < running_terminal
      /\ \A i \in 2 .. Len(s) : s[i] >= running_terminal /\ prev_pid[s[i]] = s[i - 1]
  BY <1>1, <1>3, <1>5, <1>6, PathTypes DEF JobsOf, Path
<1>8. PICK z : z = Append(s, new)
  OBVIOUS
<1>9. /\ z \in Seq(Pids) /\ z # <<>> /\ Len(z) = Len(s) + 1 /\ z[Len(s) + 1] = new
      /\ \A i \in 1 .. Len(s) : z[i] = s[i]
  BY <1>2, <1>6, <1>8
<1>10. Path(z, tm_pid'[t], prev_pid', running_terminal')
  <2>1. z[Len(z)] = tm_pid'[t]
    BY <1>4, <1>5, <1>6, <1>9 DEF TypeOK
  <2>2. z[1] < running_terminal'
    BY <1>4, <1>7, <1>9
  <2>3. ASSUME NEW i \in 2 .. Len(z)
        PROVE  z[i] >= running_terminal' /\ prev_pid'[z[i]] = z[i - 1]
    <3>1. CASE i = Len(s) + 1
      BY <1>4, <1>7, <1>9, <3>1
    <3>2. CASE i \in 2 .. Len(s)
      <4>1. i \in 1 .. Len(s) /\ i - 1 \in 1 .. Len(s)
        BY <3>2
      <4>2. z[i] = s[i] /\ z[i - 1] = s[i - 1] /\ prev_pid'[s[i]] = prev_pid[s[i]]
        BY <1>4, <1>7, <1>9, <4>1
      <4>. QED
        BY <1>4, <1>7, <3>2, <4>2
    <3>. QED
      BY <1>7, <1>9, <3>1, <3>2
  <2>. QED
    BY <1>9, <2>1, <2>2, <2>3 DEF Path
<1>11. JobsOf(z, t)'
  <2>1. ASSUME NEW i \in 1 .. Len(z) PROVE Used(z[i])' /\ home'[z[i]] = t
    <3>1. CASE i = Len(s) + 1
      BY <1>2, <1>4, <1>5, <1>9, <3>1
    <3>2. CASE i \in 1 .. Len(s)
      <4>1. z[i] = s[i] /\ s[i] \in Pids /\ Used(s[i]) /\ home[s[i]] = t /\ s[i] # new
        BY <1>7, <1>9, <3>2
      <4>. QED
        BY <1>4, <4>1
    <3>. QED
      BY <1>7, <1>9, <3>1, <3>2
  <2>. QED
    BY <1>10, <2>1 DEF JobsOf
<1>12. Shells'
  BY DEF TableInv
<1>13. \A u \in Terms \ {t} : Spares(u)
  <2>. SUFFICES ASSUME NEW u \in Terms \ {t} PROVE Spares(u)
    OBVIOUS
  <2>1. tm_pid'[u] = tm_pid[u]
    BY <1>4, <1>5 DEF TypeOK
  <2>. QED
    BY <1>3, <1>4, <2>1 DEF Spares
<1>14. JobsInv' /\ SparesOthers(t)
  BY <1>6, <1>11, <1>12, <1>13, JobsKept
<1>15. StackOf(t)' = z
  BY <1>6, <1>10, <1>12, StackNext
<1>16. \A u \in Terms : \A i \in 1 .. Len(StackOf(u)) : StackOf(u)[i] # new
  BY <1>3, StackHolds
<1>. QED
  BY <1>2, <1>5, <1>8, <1>14, <1>15, <1>16 DEF Pushes

LEMMA EndTaskStacks ==
  ASSUME TypeOK, TableInv, JobsInv, TableInv', EndTask
  PROVE  /\ JobsInv'
         /\ \E t : /\ t = terminal_tick /\ SparesOthers(t) /\ Len(StackOf(t)) > 1
                   /\ StackOf(t)' = SubSeq(StackOf(t), 1, Len(StackOf(t)) - 1)
<1>1. /\ terminal_tick \in Terms /\ pid \in Pids /\ Used(pid)
      /\ home[pid] = terminal_tick /\ tm_pid[terminal_tick] = pid /\ pid # TM_UNUSED
      /\ \A p \in Pids : Child(p) => prev_pid[p] # pid
  BY RunningTaskFact DEF Pids, TM_UNUSED
<1>2. /\ pid >= running_terminal /\ task_array' = [task_array EXCEPT ![pid] = 0]
      /\ tm_pid' = [tm_pid EXCEPT ![terminal_tick] = prev_pid[pid]]
      /\ prev_pid' = prev_pid /\ home' = home /\ running_terminal' = running_terminal
  BY DEF EndTask, ReleasePid
<1>3. PICK t, s : t = terminal_tick /\ s = StackOf(t)
  OBVIOUS
<1>4. JobsOf(s, t) /\ s \in Seq(Pids) /\ s # <<>> /\ t \in Terms
  BY <1>1, <1>3, StackHolds
<1>5. /\ Len(s) \in Nat \ {0}
      /\ \A i \in 1 .. Len(s) : s[i] \in Pids /\ Used(s[i]) /\ home[s[i]] = t
      /\ s[Len(s)] = pid /\ s[1] < running_terminal
      /\ \A i \in 2 .. Len(s) : s[i] >= running_terminal /\ prev_pid[s[i]] = s[i - 1]
  BY <1>1, <1>3, <1>4, PathTypes DEF JobsOf, Path
<1>6. Len(s) > 1
  <2>1. running_terminal \in Int /\ pid \in Int
    BY <1>1 DEF TypeOK, Pids
  <2>2. Len(s) # 1
    BY <1>2, <1>5, <2>1
  <2>. QED
    BY <1>5, <2>2
<1>7. PICK n \in Nat \ {0} : n = Len(s) - 1
  BY <1>5, <1>6
<1>8. \A i \in 1 .. n : i \in 1 .. Len(s) /\ i + 1 \in 2 .. Len(s)
  BY <1>5, <1>7
<1>9. \A i \in 1 .. n : s[i] # pid
  <2>. SUFFICES ASSUME NEW i \in 1 .. n PROVE s[i] # pid
    OBVIOUS
  <2>1. i + 1 \in 2 .. Len(s) /\ i + 1 \in 1 .. Len(s)
    BY <1>5, <1>7
  <2>2. prev_pid[s[i + 1]] = s[i]
    <3>1. prev_pid[s[i + 1]] = s[(i + 1) - 1] /\ (i + 1) - 1 = i
      BY <1>5, <2>1
    <3>. QED
      BY <3>1
  <2>3. Child(s[i + 1]) /\ s[i + 1] \in Pids
    BY <1>5, <2>1 DEF Child
  <2>. QED
    BY <1>1, <2>2, <2>3
<1>10. PICK z : z = SubSeq(s, 1, n)
  OBVIOUS
<1>11. z \in Seq(Pids) /\ z # <<>> /\ Len(z) = n /\ \A i \in 1 .. n : z[i] = s[i]
  <2>1. PICK m \in Int : m = 1
    OBVIOUS
  <2>2. \A i \in m .. n : s[i] \in Pids
    BY <1>5, <1>8, <2>1
  <2>3. /\ SubSeq(s, m, n) \in Seq(Pids) /\ Len(SubSeq(s, m, n)) = IF m <= n THEN n - m + 1 ELSE 0
        /\ \A i \in 1 .. n - m + 1 : SubSeq(s, m, n)[i] = s[m + i - 1]
    BY <2>2, SubSeqProperties
  <2>4. z \in Seq(Pids) /\ Len(z) = n
    BY <1>10, <2>1, <2>3
  <2>5. ASSUME NEW i \in 1 .. n PROVE z[i] = s[i]
    <3>1. i \in 1 .. n - m + 1 /\ m + i - 1 = i
      BY <2>1
    <3>2. SubSeq(s, m, n)[i] = s[m + i - 1]
      BY <2>3, <3>1
    <3>. QED
      BY <1>10, <2>1, <3>1, <3>2
  <2>6. z # <<>>
    BY <2>4
  <2>. QED
    BY <2>4, <2>5, <2>6
<1>12. s[n] = prev_pid[pid]
  <2>1. Len(s) \in 2 .. Len(s)
    BY <1>5, <1>6
  <2>. QED
    BY <1>5, <1>7, <2>1
<1>13. Path(z, tm_pid'[t], prev_pid', running_terminal')
  <2>1. z[Len(z)] = tm_pid'[t]
    <3>1. tm_pid'[t] = prev_pid[pid]
      BY <1>2, <1>3, <1>4 DEF TypeOK
    <3>2. n \in 1 .. n
      OBVIOUS
    <3>. QED
      BY <1>11, <1>12, <3>1, <3>2
  <2>2. z[1] < running_terminal'
    BY <1>2, <1>5, <1>7, <1>11
  <2>3. ASSUME NEW i \in 2 .. Len(z)
        PROVE  z[i] >= running_terminal' /\ prev_pid'[z[i]] = z[i - 1]
    <3>1. i \in 2 .. Len(s) /\ i \in 1 .. n /\ i - 1 \in 1 .. n
      BY <1>5, <1>7, <1>11
    <3>. QED
      BY <1>2, <1>5, <1>11, <3>1
  <2>. QED
    BY <1>11, <2>1, <2>2, <2>3 DEF Path
<1>14. \A p \in Pids : Used(p) /\ p # pid => Used(p)'
  BY <1>2 DEF Used, TypeOK
<1>15. JobsOf(z, t)'
  <2>1. ASSUME NEW i \in 1 .. Len(z) PROVE Used(z[i])' /\ home'[z[i]] = t
    <3>1. z[i] = s[i] /\ s[i] \in Pids /\ Used(s[i]) /\ home[s[i]] = t /\ s[i] # pid
      BY <1>5, <1>8, <1>9, <1>11
    <3>. QED
      BY <1>2, <1>14, <3>1
  <2>. QED
    BY <1>13, <2>1 DEF JobsOf
<1>16. Shells'
  BY DEF TableInv
<1>17. \A u \in Terms \ {t} : Spares(u)
  <2>. SUFFICES ASSUME NEW u \in Terms \ {t} PROVE Spares(u)
    OBVIOUS
  <2>1. tm_pid'[u] = tm_pid[u]
    BY <1>2, <1>3 DEF TypeOK
  <2>. QED
    BY <1>1, <1>2, <1>3, <1>14, <2>1 DEF Spares
<1>18. JobsInv' /\ SparesOthers(t)
  BY <1>4, <1>15, <1>16, <1>17, JobsKept
<1>19. StackOf(t)' = z
  BY <1>4, <1>13, <1>16, StackNext
<1>. QED
  BY <1>3, <1>6, <1>7, <1>10, <1>18, <1>19

LEMMA StartShellStacks ==
  ASSUME TypeOK, TableInv, JobsInv, TableInv', StartShell
  PROVE  /\ JobsInv'
         /\ \E t, j : t = NextTerm /\ terminal_tick' = t /\ Pushes(t, j) /\ SparesOthers(t)
                      /\ StackOf(t) = <<>>
<1>1. /\ NextTerm \in Terms /\ terminal_tick \in Terms /\ pid \in Pids
      /\ tm_pid[NextTerm] = TM_UNUSED /\ terminal_tick' = NextTerm
  BY NextTermFact DEF TypeOK, StartShell
<1>2. running_terminal < MAX_TM /\ NextTerm = running_terminal
  <2>1. running_terminal < MAX_TM
    BY <1>1, SizeAssumption DEF TableInv, Shells, Terms
  <2>. QED
    BY <1>1, <2>1, NextTermFact, SizeAssumption DEF TableInv, Shells
<1>3. \A p \in Pids : Used(p) <=> p < running_terminal
  BY <1>2 DEF TableInv, Shells
<1>4. running_terminal \in Pids /\ ~TableFull
  <2>1. running_terminal \in Pids
    BY <1>2, SizeAssumption DEF TableInv, Shells, Pids
  <2>2. task_array[running_terminal] # 1
    BY <1>3, <2>1 DEF Used, Pids
  <2>. QED
    BY <2>1, <2>2 DEF TableFull
<1>5. PICK new \in Pids : IsFirstFree(new) /\ Spawn(new, NextTerm)
  BY <1>4 DEF StartShell
<1>6. ~Used(new)
  BY <1>5 DEF IsFirstFree, Used, TypeOK
<1>7. /\ new >= running_terminal /\ \A p \in Pids : Used(p)' <=> Used(p) \/ p = new
      /\ \A p \in Pids : p # new => UNCHANGED <<prev_pid[p], home[p]>>
      /\ home'[new] = NextTerm
      /\ tm_pid' = [tm_pid EXCEPT ![NextTerm] = new]
  BY <1>1, <1>5, <1>6, SpawnTable
<1>8. running_terminal' = running_terminal + 1
  BY <1>2, SizeAssumption DEF StartShell, CountTerminal, TableInv, Shells
<1>9. Shells' /\ \A p \in Pids : Used(p)' => p < running_terminal'
  <2>1. Shells'
    BY DEF TableInv
  <2>2. new < running_terminal'
    <3>1. new = running_terminal
      <4>1. ASSUME new > running_terminal PROVE FALSE
        <5>1. running_terminal \in 0 .. new - 1
          BY <1>4, <4>1 DEF Pids
        <5>2. task_array[running_terminal] = 1
          BY <1>5, <5>1 DEF IsFirstFree
        <5>. QED
          BY <1>3, <1>4, <5>2 DEF Used, Pids
      <4>. QED
        BY <1>4, <1>7, <4>1 DEF Pids
    <3>. QED
      BY <1>4, <1>8, <3>1 DEF Pids
  <2>3. \A p \in Pids : Used(p) => p < running_terminal'
    BY <1>3, <1>4, <1>8 DEF Pids
  <2>. QED
    BY <1>7, <2>1, <2>2, <2>3
<1>10. PICK t \in Terms, z \in Seq(Pids) : t = NextTerm /\ z = <<new>>
  <2>1. <<new>> \in Seq(Pids)
    BY <1>5
  <2>. QED
    BY <1>1, <2>1
<1>11. Len(z) = 1 /\ z[1] = new /\ z # <<>>
  BY <1>10
<1>12. Used(new)' /\ new < running_terminal'
  BY <1>5, <1>7, <1>9
<1>13. Path(z, tm_pid'[t], prev_pid', running_terminal')
  <2>1. z[Len(z)] = tm_pid'[t]
    BY <1>7, <1>10, <1>11 DEF TypeOK
  <2>. QED
    BY <1>11, <1>12, <2>1 DEF Path
<1>14. JobsOf(z, t)'
  BY <1>7, <1>10, <1>11, <1>12, <1>13 DEF JobsOf
<1>15. \A u \in Terms \ {t} : Spares(u)
  <2>. SUFFICES ASSUME NEW u \in Terms \ {t} PROVE Spares(u)
    OBVIOUS
  <2>1. tm_pid'[u] = tm_pid[u]
    BY <1>7, <1>10 DEF TypeOK
  <2>2. ASSUME NEW p \in Pids, Used(p), home[p] = u
        PROVE  /\ Used(p)' /\ home'[p] = u /\ prev_pid'[p] = prev_pid[p]
               /\ p < running_terminal' <=> p < running_terminal
    BY <1>3, <1>6, <1>7, <1>9, <2>2
  <2>. QED
    BY <2>1, <2>2 DEF Spares
<1>16. JobsInv' /\ SparesOthers(t)
  BY <1>9, <1>14, <1>15, JobsKept
<1>17. StackOf(t)' = z
  BY <1>9, <1>13, StackNext
<1>18. StackOf(t) = <<>>
  BY <1>1, <1>10 DEF StackOf
<1>19. \A u \in Terms : \A i \in 1 .. Len(StackOf(u)) : StackOf(u)[i] # new
  BY <1>6, StackHolds
<1>20. Pushes(t, new)
  BY <1>5, <1>10, <1>17, <1>18, <1>19 DEF Pushes
<1>. QED
  BY <1>1, <1>10, <1>16, <1>18, <1>20

\* A step that leaves the processes of every terminal alone.
LEMMA QuietStacks ==
  ASSUME TypeOK, TableInv, JobsInv, TableInv',
         UNCHANGED <<task_array, tm_pid, running_terminal, prev_pid, home>>
  PROVE  JobsInv' /\ \A t \in Terms : StackOf(t)' = StackOf(t)
<1>1. Shells'
  BY DEF TableInv
<1>2. \A t \in Terms : Spares(t)
  BY DEF Spares, Used
<1>3. ASSUME NEW t \in Terms
      PROVE  StackOf(t)' = StackOf(t) /\ (tm_pid'[t] # TM_UNUSED => \E s : JobsOf(s, t)')
  BY <1>1, <1>2, SparedStack
<1>. QED
  BY <1>3 DEF JobsInv

Stacks == [t \in Terms |-> StackOf(t)]

LEMMA JobsStep ==
  ASSUME ~EarlyCommands, TypeOK, TableInv, JobsInv, TypeOK', TableInv', [Next]_vars
  PROVE  JobsInv' /\ [JS!Next]_<<Stacks, terminal_tick>>
<1>1. PICK st, nst, a, b : st = Stacks /\ nst = Stacks' /\ a = terminal_tick /\ b = terminal_tick'
  OBVIOUS
<1>2. /\ st = [t \in Terms |-> StackOf(t)] /\ nst = [t \in Terms |-> StackOf(t)']
      /\ a \in Terms /\ b \in Terms
  BY <1>1 DEF Stacks, TypeOK
<1>3. CASE SwitchTask
  <2>1. /\ UNCHANGED <<task_array, tm_pid, running_terminal, prev_pid, home>>
        /\ tm_pid[NextTerm] # TM_UNUSED /\ terminal_tick' = NextTerm
    BY <1>3 DEF SwitchTask
  <2>2. JobsInv' /\ nst = st
    BY <1>2, <2>1, QuietStacks
  <2>3. st[b] # <<>>
    <3>1. tm_pid[b] # TM_UNUSED
      BY <1>1, <2>1
    <3>. QED
      BY <1>2, <3>1, StackHolds
  <2>4. JS!Preempt
    BY <1>1, <1>2, <2>2, <2>3 DEF JS!Preempt, Stacks
  <2>. QED
    BY <2>2, <2>4 DEF JS!Next
<1>4. CASE StartShell
  <2>1. PICK t, j : t = NextTerm /\ terminal_tick' = t /\ Pushes(t, j) /\ SparesOthers(t) /\ StackOf(t) = <<>>
    BY <1>4, StartShellStacks
  <2>2. JobsInv'
    BY <1>4, StartShellStacks
  <2>3. t = b /\ t \in Terms /\ st[b] = <<>>
    BY <1>1, <1>2, <2>1
  <2>4. nst = [st EXCEPT ![b] = <<j>>] /\ j \in Pids
    <3>1. \A u \in Terms : nst[u] = IF u = b THEN <<j>> ELSE st[u]
      BY <1>2, <2>1, <2>3 DEF Pushes, SparesOthers
    <3>. QED
      BY <1>2, <2>1, <2>3, <3>1 DEF Pushes
  <2>5. ~JS!InUse(j)
    BY <2>1, StackHolds, LenProperties DEF JS!InUse, Pushes
  <2>6. JS!Preempt
    BY <1>1, <1>2, <2>3, <2>4, <2>5 DEF JS!Preempt, Stacks
  <2>. QED
    BY <2>2, <2>6 DEF JS!Next
<1>5. CASE Execute
  <2>1. PICK t, j : t = terminal_tick /\ Pushes(t, j) /\ SparesOthers(t)
    BY <1>5, ExecuteStacks
  <2>2. JobsInv' /\ a = b
    BY <1>1, <1>5, ExecuteStacks DEF Execute
  <2>3. nst = [st EXCEPT ![a] = Append(st[a], j)] /\ j \in Pids
    <3>1. \A u \in Terms : nst[u] = IF u = a THEN Append(st[a], j) ELSE st[u]
      BY <1>1, <1>2, <2>1 DEF Pushes, SparesOthers
    <3>. QED
      BY <1>2, <2>1, <3>1 DEF Pushes
  <2>4. ~JS!InUse(j)
    BY <2>1, StackHolds, LenProperties DEF JS!InUse, Pushes
  <2>5. JS!Push
    BY <1>1, <1>2, <2>2, <2>3, <2>4 DEF JS!Push, Stacks
  <2>. QED
    BY <2>2, <2>5 DEF JS!Next
<1>6. CASE EndTask
  <2>1. PICK t : /\ t = terminal_tick /\ SparesOthers(t) /\ Len(StackOf(t)) > 1
                 /\ StackOf(t)' = SubSeq(StackOf(t), 1, Len(StackOf(t)) - 1)
    BY <1>6, EndTaskStacks
  <2>2. JobsInv' /\ a = b
    BY <1>1, <1>6, EndTaskStacks DEF EndTask
  <2>3. nst = [st EXCEPT ![a] = SubSeq(st[a], 1, Len(st[a]) - 1)] /\ Len(st[a]) > 1
    <3>1. \A u \in Terms : nst[u] = IF u = a THEN SubSeq(st[a], 1, Len(st[a]) - 1) ELSE st[u]
      BY <1>1, <1>2, <2>1 DEF SparesOthers
    <3>. QED
      BY <1>1, <1>2, <2>1, <3>1
  <2>4. JS!Pop
    BY <1>1, <1>2, <2>2, <2>3 DEF JS!Pop, Stacks
  <2>. QED
    BY <2>2, <2>4 DEF JS!Next
<1>7. ASSUME UNCHANGED <<task_array, tm_pid, running_terminal, prev_pid, home, terminal_tick>>
      PROVE  JobsInv' /\ [JS!Next]_<<Stacks, terminal_tick>>
  <2>1. JobsInv' /\ nst = st
    BY <1>2, <1>7, QuietStacks
  <2>. QED
    BY <1>1, <1>7, <2>1
<1>8. CASE RestartTask
  BY <1>7, <1>8 DEF RestartTask
<1>9. ASSUME NEW ft \in FileTypes, Open(ft) PROVE JobsInv' /\ [JS!Next]_<<Stacks, terminal_tick>>
  BY <1>7, <1>9 DEF Open
<1>10. ASSUME NEW fd \in Fds, Close(fd) PROVE JobsInv' /\ [JS!Next]_<<Stacks, terminal_tick>>
  BY <1>7, <1>10 DEF Close
<1>11. CASE Vidmap
  BY <1>7, <1>11 DEF Vidmap, pcbs
<1>12. ASSUME NEW d \in Terms, SwitchVisibleTerminal(d) PROVE JobsInv' /\ [JS!Next]_<<Stacks, terminal_tick>>
  BY <1>7, <1>12 DEF SwitchVisibleTerminal, pcbs
<1>13. CASE UNCHANGED vars
  BY <1>7, <1>13 DEF vars, pcbs
<1>. QED
  BY <1>3, <1>4, <1>5, <1>6, <1>8, <1>9, <1>10, <1>11, <1>12, <1>13
     DEF Next, Timer, Syscall, Halt, ExpHalt

LEMMA JobsStart == ~EarlyCommands /\ Init => JS!Init
<1>. SUFFICES ASSUME Init PROVE JS!Init
  OBVIOUS
<1>1. 0 \in Terms /\ 0 \in Pids /\ terminal_tick = 0
  BY SizeAssumption DEF Init, Terms, Pids
<1>2. TypeOK /\ TableInv
  BY InitType, InitTable
<1>3. ASSUME NEW t \in Terms PROVE StackOf(t) = IF t = 0 THEN <<0>> ELSE <<>>
  <2>1. CASE t # 0
    BY <2>1 DEF Init, StackOf
  <2>2. CASE t = 0
    <3>1. PICK s \in Seq(Pids) : s = <<0>>
      <4>1. <<0>> \in Seq(Pids)
        BY <1>1
      <4>. QED
        BY <4>1
    <3>2. Len(s) = 1 /\ s[1] = 0 /\ s # <<>>
      BY <3>1
    <3>3. Path(s, tm_pid[t], prev_pid, running_terminal)
      BY <1>1, <2>2, <3>2 DEF Init, Path
    <3>. QED
      BY <1>2, <2>2, <3>1, <3>3, StackNow DEF TableInv
  <2>. QED
    BY <2>1, <2>2
<1>4. [t \in Terms |-> StackOf(t)] = [t \in Terms |-> IF t = terminal_tick THEN <<0>> ELSE <<>>]
  BY <1>1, <1>3
<1>. QED
  BY <1>1, <1>4 DEF JS!Init

\* execute, halt, exceptions and the scheduler behave as one stack of jobs per
\* terminal: a program is pushed by execute, popped by halt, and the scheduler
\* gives an empty terminal its first.  That each terminal has its turn again and
\* again is left to the model checker.
THEOREM KernelImplementsJobStacks == ~EarlyCommands /\ Spec => JS!Safety
<1>. SUFFICES ASSUME ~EarlyCommands PROVE Spec => JS!Safety
  OBVIOUS
<1>1. Init => TypeOK /\ TableInv /\ JobsInv /\ JS!Init
  BY InitType, InitTable, JobsInit, JobsStart
<1>2. TypeOK /\ TableInv /\ JobsInv /\ [Next]_vars
        => (TypeOK /\ TableInv /\ JobsInv)' /\ [JS!Next]_<<Stacks, terminal_tick>>
  BY NextType, NextTable, JobsStep
<1>3. TypeOK /\ TableInv /\ JobsInv /\ [Next]_vars
        => (TypeOK /\ TableInv /\ JobsInv)' /\ [JS!Next]_<<[t \in Terms |-> StackOf(t)], terminal_tick>>
  BY <1>2 DEF Stacks
<1>. QED
  BY <1>1, <1>3, PTL DEF Spec, JS!Safety
=============================================================================
