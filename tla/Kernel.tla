------------------------------- MODULE Kernel -------------------------------
(***************************************************************************)
(* Process control of the MP3 kernel (src/mp3/student-distrib): the        *)
(* system calls execute, halt, open, close and vidmap, the exception exit  *)
(* exp_halt, the round-robin scheduler driven by the PIT interrupt, and    *)
(* the key that changes the displayed terminal.                            *)
(*                                                                         *)
(* Every system call enters through an interrupt gate and none of these    *)
(* handlers executes sti, so each handler is one action.  A program runs   *)
(* between actions; the PIT may preempt it at any such point.              *)
(*                                                                         *)
(* Abstracted: what programs compute, file contents, the screens and the   *)
(* keyboard line (module Terminal), the virtual RTC's counters (module     *)
(* Rtc).  A call that fails its argument checks changes nothing, so it is  *)
(* a stuttering step.                                                      *)
(***************************************************************************)
EXTENDS Integers

CONSTANTS
  MAX_PROC,       \* size of task_array (6 in sys_calls.h)
  MAX_TM,         \* number of terminals (3 in scheduler.h)
  N_FILES,        \* size of a PCB's file_array (8 in sys_calls.h)
  FileTypes,      \* f_type of the entries of the directory
  Calls,          \* the services the programs and the user of the instance use
  EarlyCommands   \* may a program call execute before every terminal has its shell?

TM_UNUSED == -1
INI_FILES == 2
UNUSE     == "UNUSE"
Services  == {"execute", "halt", "exception", "open", "close", "vidmap", "switch"}

ASSUME SizeAssumption ==
  /\ MAX_TM \in Nat \ {0}
  /\ MAX_PROC \in Nat
  /\ MAX_TM <= MAX_PROC
  /\ N_FILES \in Nat
  /\ N_FILES >= INI_FILES
ASSUME FilesAssumption == FileTypes \subseteq {"rtc", "dir", "reg"}
ASSUME CallsAssumption == Calls \subseteq Services
ASSUME EarlyAssumption == EarlyCommands \in BOOLEAN

Pids      == 0 .. MAX_PROC - 1
Terms     == 0 .. MAX_TM - 1
Fds       == 0 .. N_FILES - 1
Frames    == [stack : Pids, at : {"execute", "halt", "scheduler"}]

VARIABLES
  \* globals of sys_calls.c and scheduler.c
  task_array,       \* task_array[p] = 1 iff pid p is taken
  pid,              \* the running process
  tm_pid,           \* tm_array[t].tm_pid: the foreground process of terminal t
  terminal_tick,    \* the terminal whose process has the processor
  terminal_display, \* the terminal on the screen
  running_terminal, \* number of terminals started
  \* fields of the PCBs
  prev_pid,         \* the process that was running when this one was executed
  kernel_exc,       \* kernel_ebp_exc/esp_exc: whose kernel stack, saved by whom
  kernel_sch,       \* TRUE iff kernel_ebp_sch/esp_sch hold the frame in which
                    \* the process is suspended (FALSE: stale or never written)
  file_array,       \* type of the file behind each descriptor, or UNUSE
  rtc_opened,
  \* processor and paging
  esp0,             \* the pid whose kernel stack the TSS names
  user_page,        \* the pid whose 4MB image is mapped at 128MB
  k_vid, u_vid,     \* page behind the kernel's and the user's video address:
                    \* 0 is the physical screen, t + 1 the store of terminal t
  u_present,        \* the user's video page is present
  task_use_vidmem,  \* the bitmap, as a set of terminals
  \* history, with no counterpart in the code
  home,             \* the terminal a process was started on
  root,             \* the shell the boot or the scheduler started on a terminal
  vid_user          \* processes that called vidmap and have not since started
                    \* a child or been restarted

pcbs  == <<prev_pid, kernel_exc, kernel_sch, file_array, rtc_opened>>
video == <<k_vid, u_vid, u_present, task_use_vidmem>>
vars  == <<task_array, pid, tm_pid, terminal_tick, terminal_display,
           running_terminal, pcbs, esp0, user_page, video, home, root, vid_user>>

-----------------------------------------------------------------------------
(* Helpers of the handlers. *)

\* The page that shows terminal t's output while terminal d is displayed.
VidPage(d, t) == IF d = t THEN 0 ELSE t + 1

\* _fd_init_: stdin and stdout are open, the other descriptors are free.
FdInit == [fd \in Fds |-> IF fd < INI_FILES THEN "term" ELSE UNUSE]

\* Mistake: the image address set only with the other fields of the entry.
PagingSetUserMapping_FirstOnly(p, t) ==
  /\ user_page' = user_page
  /\ k_vid' = VidPage(terminal_display, t)
  /\ u_vid' = VidPage(terminal_display, t)

\* paging_set_user_mapping(p) while terminal t is the active one.
PagingSetUserMapping(p, t) ==
  /\ user_page' = p
  /\ k_vid' = VidPage(terminal_display, t)
  /\ u_vid' = VidPage(terminal_display, t)

\* paging_set_for_vedio_mem: page phys becomes the one present page of the
\* user's video table, for the running terminal among others.
PagingSetForVideo(phys) ==
  /\ u_vid' = phys
  /\ u_present' = TRUE
  /\ task_use_vidmem' = task_use_vidmem \cup {terminal_tick}

\* Mistake: the page goes away with any halt.
PagingRestoreVideo_Always ==
  /\ task_use_vidmem' = task_use_vidmem \ {terminal_tick}
  /\ u_present' = FALSE

\* paging_restore_for_vedio_mem: the page goes away with the last bit.
PagingRestoreVideo ==
  /\ task_use_vidmem' = task_use_vidmem \ {terminal_tick}
  /\ u_present' = (u_present /\ task_use_vidmem' # {})

\* Mistake: the entry after the running one, free or not.
IsFirstFree_Cursor(p) == p = (pid + 1) % MAX_PROC

\* The entry of task_array that _mem_setting_ takes, if there is one.
IsFirstFree(p) == task_array[p] = 0 /\ \A q \in 0 .. p - 1 : task_array[q] = 1

TableFull == \A p \in Pids : task_array[p] = 1

\* execute from _mem_setting_ to the iret, on terminal t, with new the pid
\* taken: the caller's kernel stack holds the frame that halt returns to.
Spawn(new, t) ==
  /\ task_array' = [task_array EXCEPT ![new] = 1]
  /\ tm_pid' = [tm_pid EXCEPT ![t] = new]
  /\ PagingSetUserMapping(new, t)
  /\ prev_pid' = [prev_pid EXCEPT ![new] = pid]
  /\ file_array' = [file_array EXCEPT ![new] = FdInit]
  /\ rtc_opened' = [rtc_opened EXCEPT ![new] = 0]
  /\ pid' = new
  /\ esp0' = new
  /\ kernel_exc' = [kernel_exc EXCEPT ![new] = [stack |-> pid, at |-> "execute"]]
  /\ home' = [home EXCEPT ![new] = t]

-----------------------------------------------------------------------------
(* The state in which entry's execute("shell") enters the first shell. *)

\* paging_init: the kernel's first 4 MB are mapped to themselves, the video page among
\* them, and no page of the user's video table is present.
PagingInit == k_vid = 0 /\ u_present = FALSE /\ task_use_vidmem = {}

Init ==
  /\ task_array = [p \in Pids |-> IF p = 0 THEN 1 ELSE 0]
  /\ pid = 0
  /\ tm_pid = [t \in Terms |-> IF t = 0 THEN 0 ELSE TM_UNUSED]
  /\ terminal_tick = 0
  /\ terminal_display = 0
  /\ running_terminal = 1
  /\ prev_pid = [p \in Pids |-> 0]
  /\ kernel_exc = [p \in Pids |-> [stack |-> 0, at |-> "execute"]]
  /\ kernel_sch = [p \in Pids |-> FALSE]
  /\ file_array = [p \in Pids |-> IF p = 0 THEN FdInit ELSE [fd \in Fds |-> UNUSE]]
  /\ rtc_opened = [p \in Pids |-> 0]
  /\ esp0 = 0
  /\ user_page = 0
  /\ u_vid = 0
  /\ PagingInit
  /\ home = [p \in Pids |-> 0]
  /\ root = [t \in Terms |-> IF t = 0 THEN 0 ELSE TM_UNUSED]
  /\ vid_user = {}

-----------------------------------------------------------------------------
(* The PIT interrupt: scheduler(). *)

\* Mistake: the last terminal left out of the rotation.
NextTerm_Short == (terminal_tick + 1) % (MAX_TM - 1)

NextTerm == (terminal_tick + 1) % MAX_TM

\* Mistake: the counter forgotten.
CountTerminal_Lost == running_terminal

\* The only test on running_terminal compares it with a pid, so values from
\* MAX_PROC on are indistinguishable.
CountTerminal == IF running_terminal < MAX_PROC THEN running_terminal + 1
                                                ELSE running_terminal

\* Two mistakes: the running process's frame not saved, and saved in the
\* fields of the PCB that belong to execute and halt.
SwitchStack_NoSave(next) ==
  /\ kernel_sch' = [kernel_sch EXCEPT ![next] = FALSE]
  /\ UNCHANGED kernel_exc
SwitchStack_SharedField(next) ==
  /\ kernel_sch' = [kernel_sch EXCEPT ![pid] = TRUE, ![next] = FALSE]
  /\ kernel_exc' = [kernel_exc EXCEPT ![pid] = [stack |-> pid, at |-> "scheduler"]]

\* Suspend the running process and continue next where it was suspended.
SwitchStack(next) ==
  /\ kernel_sch' = [kernel_sch EXCEPT ![pid] = TRUE, ![next] = FALSE]
  /\ UNCHANGED kernel_exc

\* The next terminal has a process: restore its TSS, pages and stack.
SwitchTask ==
  LET next == tm_pid[NextTerm] IN
  /\ next # TM_UNUSED
  /\ terminal_tick' = NextTerm
  /\ pid' = next
  /\ esp0' = next
  /\ PagingSetUserMapping(next, NextTerm)
  /\ SwitchStack(next)
  /\ UNCHANGED <<task_array, tm_pid, terminal_display, running_terminal, prev_pid,
                 file_array, rtc_opened, u_present, task_use_vidmem, home, root,
                 vid_user>>

\* The next terminal is unused: start its shell on top of the interrupted
\* process.  With no free pid, execute returns to scheduler, which returns to
\* the interrupted process although terminal_tick has moved on.
StartShell ==
  /\ tm_pid[NextTerm] = TM_UNUSED
  /\ terminal_tick' = NextTerm
  /\ running_terminal' = CountTerminal
  /\ UNCHANGED <<terminal_display, u_present, task_use_vidmem, vid_user>>
  /\ IF TableFull
     THEN /\ kernel_sch' = [kernel_sch EXCEPT ![pid] = FALSE]
          /\ UNCHANGED <<task_array, pid, tm_pid, prev_pid, kernel_exc, file_array,
                         rtc_opened, esp0, user_page, k_vid, u_vid, home, root>>
     ELSE \E new \in Pids :
            /\ IsFirstFree(new)
            /\ Spawn(new, NextTerm)
            /\ kernel_sch' = [kernel_sch EXCEPT ![pid] = TRUE, ![new] = FALSE]
            /\ root' = [root EXCEPT ![NextTerm] = new]

Timer == SwitchTask \/ StartShell

-----------------------------------------------------------------------------
(* System calls of the running process. *)

\* execute with a free pid (with none it returns 0 and changes nothing).
Execute ==
  /\ "execute" \in Calls
  /\ EarlyCommands \/ running_terminal >= MAX_TM
  /\ \E new \in Pids :
       /\ IsFirstFree(new)
       /\ Spawn(new, terminal_tick)
       /\ kernel_sch' = [kernel_sch EXCEPT ![new] = FALSE]
  /\ vid_user' = vid_user \ {pid}
  /\ UNCHANGED <<terminal_tick, terminal_display, running_terminal, u_present,
                 task_use_vidmem, root>>

\* halt of a process it takes for a root shell: restart the program.
RestartTask ==
  /\ pid < running_terminal
  /\ esp0' = pid
  /\ kernel_exc' = [kernel_exc EXCEPT ![pid] = [stack |-> pid, at |-> "halt"]]
  /\ vid_user' = vid_user \ {pid}
  /\ UNCHANGED <<task_array, pid, tm_pid, terminal_tick, terminal_display,
                 running_terminal, prev_pid, kernel_sch, file_array, rtc_opened,
                 user_page, video, home, root>>

\* Mistake: the close operation of the file's type not called.
RtcAfterClose_Skipped(p, closed) == rtc_opened[p]

\* rtc_opened of p after the close operations of the descriptors in closed.
RtcAfterClose(p, closed) ==
  IF \E fd \in closed : file_array[p][fd] = "rtc" THEN 0 ELSE rtc_opened[p]

\* The closing loop of halt: close(i) works on the running pid, which is the
\* parent q by then, for each descriptor i the child c has in use.
ClosedByLoop(c, q) ==
  {fd \in Fds : /\ fd >= INI_FILES
                /\ file_array[c][fd] # UNUSE
                /\ file_array[q][fd] # UNUSE}

CloseLoop(c, q) ==
  /\ file_array' =
       [file_array EXCEPT
          ![q] = [fd \in Fds |-> IF fd \in ClosedByLoop(c, q) THEN UNUSE ELSE @[fd]],
          ![c] = [fd \in Fds |-> IF fd < INI_FILES THEN UNUSE ELSE @[fd]]]
  /\ rtc_opened' = [rtc_opened EXCEPT ![q] = RtcAfterClose(q, ClosedByLoop(c, q))]

ReleasePid == task_array' = [task_array EXCEPT ![pid] = 0]

\* halt of any other process: resume the parent in its execute.
EndTask ==
  LET parent == prev_pid[pid] IN
  /\ pid >= running_terminal
  /\ ReleasePid
  /\ pid' = parent
  /\ tm_pid' = [tm_pid EXCEPT ![terminal_tick] = parent]
  /\ esp0' = parent
  /\ PagingSetUserMapping(parent, terminal_tick)
  /\ PagingRestoreVideo
  /\ CloseLoop(pid, parent)
  /\ vid_user' = vid_user \ {pid}
  /\ UNCHANGED <<terminal_tick, terminal_display, running_terminal, prev_pid,
                 kernel_exc, kernel_sch, home, root>>

Halt == "halt" \in Calls /\ (RestartTask \/ EndTask)

\* An exception ends the program the way halt does, with status 256.
ExpHalt == "exception" \in Calls /\ (RestartTask \/ EndTask)

\* open of a file of type ft takes the first free descriptor.
Open(ft) ==
  /\ "open" \in Calls
  /\ \E fd \in Fds :
       /\ fd >= INI_FILES
       /\ file_array[pid][fd] = UNUSE
       /\ \A i \in INI_FILES .. fd - 1 : file_array[pid][i] # UNUSE
       /\ file_array' = [file_array EXCEPT ![pid][fd] = ft]
  /\ rtc_opened' = [rtc_opened EXCEPT ![pid] = IF ft = "rtc" THEN 1 ELSE @]
  /\ UNCHANGED <<task_array, pid, tm_pid, terminal_tick, terminal_display,
                 running_terminal, prev_pid, kernel_exc, kernel_sch, esp0,
                 user_page, video, home, root, vid_user>>

\* close of a descriptor in use; stdin and stdout refuse.
Close(fd) ==
  /\ "close" \in Calls
  /\ fd >= INI_FILES
  /\ file_array[pid][fd] # UNUSE
  /\ file_array' = [file_array EXCEPT ![pid][fd] = UNUSE]
  /\ rtc_opened' = [rtc_opened EXCEPT ![pid] = RtcAfterClose(pid, {fd})]
  /\ UNCHANGED <<task_array, pid, tm_pid, terminal_tick, terminal_display,
                 running_terminal, prev_pid, kernel_exc, kernel_sch, esp0,
                 user_page, video, home, root, vid_user>>

\* vidmap with a good pointer: map the user's video page and note the terminal.
Vidmap ==
  /\ "vidmap" \in Calls
  /\ PagingSetForVideo(IF pid = tm_pid[terminal_tick] THEN 0 ELSE terminal_tick + 1)
  /\ vid_user' = vid_user \cup {pid}
  /\ UNCHANGED <<task_array, pid, tm_pid, terminal_tick, terminal_display,
                 running_terminal, pcbs, esp0, user_page, k_vid, home, root>>

\* The user displays terminal d: switch_visible_terminal remaps both pages.
SwitchVisibleTerminal(d) ==
  /\ "switch" \in Calls
  /\ d # terminal_display
  /\ terminal_display' = d
  /\ k_vid' = VidPage(d, terminal_tick)
  /\ u_vid' = VidPage(d, terminal_tick)
  /\ UNCHANGED <<task_array, pid, tm_pid, terminal_tick, running_terminal, pcbs,
                 esp0, user_page, u_present, task_use_vidmem, home, root, vid_user>>

Syscall ==
  \/ Execute
  \/ Halt
  \/ ExpHalt
  \/ \E ft \in FileTypes : Open(ft)
  \/ \E fd \in Fds : Close(fd)
  \/ Vidmap

Next == Timer \/ Syscall \/ \E d \in Terms : SwitchVisibleTerminal(d)

\* The PIT raises its interrupt every 15 ms and every program runs with
\* interrupts enabled, so the timer is served again and again.
Spec == Init /\ [][Next]_vars /\ WF_vars(Timer)

-----------------------------------------------------------------------------
(* Invariants. *)

TypeOK ==
  /\ task_array \in [Pids -> {0, 1}]
  /\ pid \in Pids
  /\ tm_pid \in [Terms -> Pids \cup {TM_UNUSED}]
  /\ terminal_tick \in Terms
  /\ terminal_display \in Terms
  /\ running_terminal \in 1 .. MAX_PROC
  /\ prev_pid \in [Pids -> Pids]
  /\ kernel_exc \in [Pids -> Frames]
  /\ kernel_sch \in [Pids -> BOOLEAN]
  /\ file_array \in [Pids -> [Fds -> FileTypes \cup {"term", UNUSE}]]
  /\ rtc_opened \in [Pids -> {0, 1}]
  /\ esp0 \in Pids
  /\ user_page \in Pids
  /\ k_vid \in 0 .. MAX_TM
  /\ u_vid \in 0 .. MAX_TM
  /\ u_present \in BOOLEAN
  /\ task_use_vidmem \in SUBSET Terms
  /\ home \in [Pids -> Terms]
  /\ root \in [Terms -> Pids \cup {TM_UNUSED}]
  /\ vid_user \in SUBSET Pids

Used(p)   == task_array[p] = 1
IsRoot(p) == \E t \in Terms : root[t] = p

\* The processor, the terminal table, the TSS and the page directory name the
\* same live process between any two handlers: halt, execute and scheduler
\* each update all of them.
RunningTask ==
  /\ Used(pid)
  /\ tm_pid[terminal_tick] = pid
  /\ esp0 = pid
  /\ user_page = pid

\* halt refuses the pids below running_terminal: these are the terminals'
\* shells and nothing else, although pids are reused in any order.
OnlyShellsRefuseHalt == \A p \in Pids : Used(p) => (p < running_terminal <=> IsRoot(p))

\* halt's way back: the frame in a program's kernel_*_exc was written by the
\* execute that its parent is still blocked in, on the parent's kernel stack,
\* and that parent is a live process of the same terminal.
HaltReturnsToParent ==
  \A p \in Pids : Used(p) /\ ~IsRoot(p) =>
    /\ kernel_exc[p] = [stack |-> prev_pid[p], at |-> "execute"]
    /\ Used(prev_pid[p])
    /\ prev_pid[p] # p
    /\ home[prev_pid[p]] = home[p]

\* A terminal runs one process; the others of that terminal each wait for
\* exactly one child.
OneWaiterPerChild ==
  /\ \A p, q \in Pids :
       /\ Used(p) /\ ~IsRoot(p) /\ Used(q) /\ ~IsRoot(q)
       /\ prev_pid[p] = prev_pid[q]
       => p = q
  /\ \A p \in Pids : Used(p) =>
       (p = tm_pid[home[p]] <=> ~\E q \in Pids : Used(q) /\ ~IsRoot(q) /\ prev_pid[q] = p)

\* The scheduler only switches to a stack it saved: the foreground process of
\* every other started terminal has its frame in kernel_*_sch.
SuspendedHaveFrame ==
  \A t \in Terms \ {terminal_tick} :
    tm_pid[t] # TM_UNUSED => Used(tm_pid[t]) /\ kernel_sch[tm_pid[t]]

\* Kernel output (putc) of the running terminal goes to the screen iff that
\* terminal is displayed, and to its own store otherwise.
KernelVideo == k_vid = VidPage(terminal_display, terminal_tick)

\* A program that mapped the video page and runs in the foreground keeps it,
\* whatever the programs of the other terminals do.
VideoUsersMapped == vid_user # {} => u_present

\* The RTC handler counts down only for a process with an RTC descriptor.
RtcTickedOnlyIfOpen ==
  \A p \in Pids : Used(p) /\ rtc_opened[p] = 1 => \E fd \in Fds : file_array[p][fd] = "rtc"

-----------------------------------------------------------------------------
(* What a step may never do. *)

\* A handler that runs on one terminal leaves the processes of the other
\* terminals, their descriptors and return frames alone.
TerminalsIsolated ==
  [][\A p \in Pids : Used(p) /\ home[p] # terminal_tick =>
       /\ task_array'[p] = 1
       /\ tm_pid'[home[p]] = tm_pid[home[p]]
       /\ UNCHANGED <<prev_pid[p], kernel_exc[p], file_array[p], rtc_opened[p], home[p]>>]_vars
=============================================================================
