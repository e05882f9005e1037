-------------------------------- MODULE Rtc --------------------------------
(***************************************************************************)
(* The virtual real-time clock of the MP3 kernel: the chip interrupts at   *)
(* MAX_FREQ and rtc_handler counts, for every process that opened the RTC, *)
(* down from MAX_FREQ in steps of the frequency the process chose; a read  *)
(* waits for the count to reach zero.                                      *)
(*                                                                         *)
(* The fields are in the PCB of each process.  Only the running process    *)
(* touches its own, and the handler touches everybody's; read waits with   *)
(* interrupts enabled, so the handler and the scheduler come in between.   *)
(* The steps of a read or a write before its cli touch nothing shared.     *)
(***************************************************************************)
EXTENDS Integers

CONSTANTS
  Procs,     \* the processes (one on each terminal)
  MAX_FREQ,  \* frequency of the chip (1024 in sys_calls.h)
  Freqs,     \* the powers of two in MIN_FREQ .. MAX_FREQ
  WIDTH,     \* current_count is an int: 2^32 values
  MaxFds     \* RTC descriptors a process may have (6 in the code)

ASSUME FreqAssumption ==
  /\ MAX_FREQ \in Nat \ {0}
  /\ Freqs \subseteq 1 .. MAX_FREQ
  /\ 2 \in Freqs
  /\ \A f \in Freqs : MAX_FREQ % f = 0
ASSUME WidthAssumption == WIDTH \in Nat /\ WIDTH > MAX_FREQ
ASSUME FdsAssumption == MaxFds \in Nat

VARIABLES
  pid,              \* the running process
  rtc_fds,          \* how many descriptors in use are the RTC's
  rtc_opened,       \* the fields of the PCBs
  virtual_freq,
  current_count,    \* modulo WIDTH: the code only compares it with 0
  virtual_iqr_got,
  rtc_pc,           \* "read" in the waiting loop of rtc_read
  waited            \* history: interrupts of the chip since the read began,
                    \* up to the one that ends it (at most MAX_FREQ)

fields   == <<rtc_opened, virtual_freq, current_count, virtual_iqr_got>>
rtc_vars == <<pid, rtc_fds, fields, rtc_pc, waited>>

RtcInit ==
  /\ pid \in Procs
  /\ rtc_fds = [p \in Procs |-> 0]
  /\ rtc_opened = [p \in Procs |-> 0]
  /\ virtual_freq = [p \in Procs |-> 0]
  /\ current_count = [p \in Procs |-> MAX_FREQ]
  /\ virtual_iqr_got = [p \in Procs |-> 0]
  /\ rtc_pc = [p \in Procs |-> "user"]
  /\ waited = [p \in Procs |-> 0]

-----------------------------------------------------------------------------
(* The interrupts. *)

\* Mistake: the count compared with zero before it is decremented.
Counted_Before(p) ==
  [count |-> (current_count[p] - virtual_freq[p]) % WIDTH, zero |-> current_count[p] = 0]

\* The count of p after an interrupt, before it is reset.
Counted(p) ==
  LET count == (current_count[p] - virtual_freq[p]) % WIDTH
  IN [count |-> count, zero |-> count = 0]

\* The processes that rtc_handler counts for.
TickedBy == {p \in Procs : rtc_opened[p] = 1}

RtcHandler ==
  /\ current_count' = [p \in Procs |->
       IF p \notin TickedBy THEN current_count[p]
       ELSE IF Counted(p).zero THEN MAX_FREQ ELSE Counted(p).count]
  /\ virtual_iqr_got' = [p \in Procs |->
       IF p \in TickedBy /\ Counted(p).zero THEN 1 ELSE virtual_iqr_got[p]]
  /\ waited' = [p \in Procs |->
       IF rtc_pc[p] = "read" /\ virtual_iqr_got[p] = 0 /\ waited[p] < MAX_FREQ
       THEN waited[p] + 1 ELSE waited[p]]
  /\ UNCHANGED <<pid, rtc_fds, rtc_opened, virtual_freq, rtc_pc>>

\* The scheduler gives the processor to another process.
Schedule(p) ==
  /\ p # pid
  /\ pid' = p
  /\ UNCHANGED <<rtc_fds, fields, rtc_pc, waited>>

-----------------------------------------------------------------------------
(* System calls of the running process. *)

InUser == rtc_pc[pid] = "user"

\* open("rtc") ends in rtc_open, which starts the clock of the process anew.
RtcOpen ==
  /\ InUser
  /\ rtc_fds[pid] < MaxFds
  /\ rtc_fds' = [rtc_fds EXCEPT ![pid] = @ + 1]
  /\ virtual_freq' = [virtual_freq EXCEPT ![pid] = 2]
  /\ current_count' = [current_count EXCEPT ![pid] = MAX_FREQ]
  /\ virtual_iqr_got' = [virtual_iqr_got EXCEPT ![pid] = 0]
  /\ rtc_opened' = [rtc_opened EXCEPT ![pid] = 1]
  /\ UNCHANGED <<pid, rtc_pc, waited>>

\* close of an RTC descriptor stops the clock of the process.
RtcClose ==
  /\ InUser
  /\ rtc_fds[pid] > 0
  /\ rtc_fds' = [rtc_fds EXCEPT ![pid] = @ - 1]
  /\ virtual_freq' = [virtual_freq EXCEPT ![pid] = 0]
  /\ current_count' = [current_count EXCEPT ![pid] = MAX_FREQ]
  /\ virtual_iqr_got' = [virtual_iqr_got EXCEPT ![pid] = 0]
  /\ rtc_opened' = [rtc_opened EXCEPT ![pid] = 0]
  /\ UNCHANGED <<pid, rtc_pc, waited>>

\* A write of a frequency that rtc_write accepts (it refuses the others).
RtcWrite(f) ==
  /\ InUser
  /\ rtc_fds[pid] > 0
  /\ virtual_freq' = [virtual_freq EXCEPT ![pid] = f]
  /\ UNCHANGED <<pid, rtc_fds, rtc_opened, current_count, virtual_iqr_got, rtc_pc, waited>>

\* Mistake: the count goes on from where it was.
RestartCount_Not == UNCHANGED current_count

RestartCount == current_count' = [current_count EXCEPT ![pid] = MAX_FREQ]

\* rtc_read up to its waiting loop.
RtcRead ==
  /\ InUser
  /\ rtc_fds[pid] > 0
  /\ virtual_iqr_got' = [virtual_iqr_got EXCEPT ![pid] = 0]
  /\ RestartCount
  /\ rtc_pc' = [rtc_pc EXCEPT ![pid] = "read"]
  /\ waited' = [waited EXCEPT ![pid] = 0]
  /\ UNCHANGED <<pid, rtc_fds, rtc_opened, virtual_freq>>

\* The loop ends.
RtcReadReturns ==
  /\ rtc_pc[pid] = "read"
  /\ virtual_iqr_got[pid] = 1
  /\ rtc_pc' = [rtc_pc EXCEPT ![pid] = "user"]
  /\ UNCHANGED <<pid, rtc_fds, fields, waited>>

\* _PCB_setting_ for a program that starts with this PCB.
PCBSetting ==
  /\ InUser
  /\ rtc_fds' = [rtc_fds EXCEPT ![pid] = 0]
  /\ rtc_opened' = [rtc_opened EXCEPT ![pid] = 0]
  /\ virtual_freq' = [virtual_freq EXCEPT ![pid] = 0]
  /\ current_count' = [current_count EXCEPT ![pid] = MAX_FREQ]
  /\ virtual_iqr_got' = [virtual_iqr_got EXCEPT ![pid] = 0]
  /\ UNCHANGED <<pid, rtc_pc, waited>>

Syscall ==
  \/ RtcOpen
  \/ RtcClose
  \/ \E f \in Freqs : RtcWrite(f)
  \/ RtcRead
  \/ RtcReadReturns
  \/ PCBSetting

RtcNext == RtcHandler \/ (\E p \in Procs : Schedule(p)) \/ Syscall

\* The chip and the PIT interrupt again and again; every process is scheduled
\* again and again, for long enough to leave a loop that it may leave.
RtcSpec ==
  /\ RtcInit /\ [][RtcNext]_rtc_vars
  /\ WF_rtc_vars(RtcHandler)
  /\ \A p \in Procs : SF_rtc_vars(Schedule(p)) /\ SF_rtc_vars(pid = p /\ RtcReadReturns)

-----------------------------------------------------------------------------
RtcTypeOK ==
  /\ pid \in Procs
  /\ rtc_fds \in [Procs -> 0 .. MaxFds]
  /\ rtc_opened \in [Procs -> {0, 1}]
  /\ virtual_freq \in [Procs -> Freqs \cup {0}]
  /\ current_count \in [Procs -> 0 .. WIDTH - 1]
  /\ virtual_iqr_got \in [Procs -> {0, 1}]
  /\ rtc_pc \in [Procs -> {"user", "read"}]
  /\ waited \in [Procs -> 0 .. MAX_FREQ]

\* A read of a process with frequency f ends after exactly MAX_FREQ / f
\* interrupts of the chip, whatever the process did before and whoever runs.
VirtualPeriod ==
  \A p \in Procs : rtc_pc[p] = "read" /\ rtc_opened[p] = 1 =>
    /\ waited[p] * virtual_freq[p] <= MAX_FREQ
    /\ virtual_iqr_got[p] = 1 <=> waited[p] * virtual_freq[p] = MAX_FREQ

\* A process that waits has a clock that is counted down to zero, so it is
\* never stuck: its read returns.
ReadReturns ==
  \A p \in Procs : (rtc_pc[p] = "read" /\ rtc_opened[p] = 1) ~> (rtc_pc[p] = "user")
=============================================================================
