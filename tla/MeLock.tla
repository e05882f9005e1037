------------------------------- MODULE MeLock -------------------------------
(***************************************************************************)
(* The synchronization interface of ps2/p3: melons and martians share a    *)
(* translator whose four routines must not run at the same time and do not *)
(* check their queues.  Inputs poll until their queue has room, outputs    *)
(* return at once.                                                         *)
(*                                                                         *)
(* The spin lock and the translator are external (no code in the           *)
(* repository); the lock excludes, and who waits for it gets it in the end.*)
(***************************************************************************)
EXTENDS Integers, Sequences, FiniteSets

CONSTANTS
  Threads, Messages,
  MAX_ENG,      \* 10
  MAX_MAR,      \* 4
  NoThread

ASSUME SizeAssumption == MAX_ENG \in Nat /\ MAX_MAR \in Nat
ASSUME ThreadAssumption == NoThread \notin Threads

Inputs  == {"melon_input", "martian_input"}
Outputs == {"melon_get_output", "martian_get_output"}

VARIABLES
  eng_num, mar_num,   \* the counters of me_lock
  splock,             \* who holds the spin lock
  op, message, pc,    \* the call each thread is in, its message, and where it is
  eng_queue, mar_queue, \* the queues of the translator
  heard               \* the last message the translator gave out

vars == <<eng_num, mar_num, splock, op, message, pc, eng_queue, mar_queue, heard>>
counters == <<eng_num, mar_num>>
calls    == <<op, message>>
hardware == <<eng_queue, mar_queue, heard>>

TR == INSTANCE Translator WITH eng <- eng_queue, mar <- mar_queue, heard <- heard

Init ==
  /\ eng_num = 0 /\ mar_num = 0
  /\ splock = NoThread
  /\ op = [t \in Threads |-> "none"]
  /\ message = [t \in Threads |-> "none"]
  /\ pc = [t \in Threads |-> "idle"]
  /\ eng_queue = <<>> /\ mar_queue = <<>> /\ heard = TR!Nobody

GoTo(t, place) == pc' = [pc EXCEPT ![t] = place]

\* A thread enters one of the four functions.
Call(t) ==
  /\ pc[t] = "idle"
  /\ \E o \in Inputs \cup Outputs, m \in Messages :
       /\ op' = [op EXCEPT ![t] = o]
       /\ message' = [message EXCEPT ![t] = IF o \in Inputs THEN m ELSE "none"]
       /\ GoTo(t, IF o \in Inputs THEN "poll" ELSE "lock")
  /\ UNCHANGED <<counters, splock, hardware>>

\* The polling loops test the counters without the lock, one after the other.
PollMartian(t) ==
  /\ pc[t] = "poll"
  /\ op[t] = "melon_input" => mar_num < MAX_MAR
  /\ GoTo(t, "poll_eng")
  /\ UNCHANGED <<counters, splock, calls, hardware>>

PollEnglish(t) ==
  /\ pc[t] = "poll_eng"
  /\ \/ op[t] = "melon_input" /\ GoTo(t, IF eng_num = 0 THEN "lock" ELSE "poll")
     \/ op[t] = "martian_input" /\ eng_num < MAX_ENG /\ GoTo(t, "lock")
  /\ UNCHANGED <<counters, splock, calls, hardware>>

\* Mistake: the test in the critical section left out, or half of it.
Admitted_Unchecked(t) == op[t] \in Inputs \/ (op[t] = "melon_get_output" /\ eng_num > 0)
                                          \/ (op[t] = "martian_get_output" /\ mar_num > 0)
Admitted_NotListening(t) ==
  CASE op[t] = "melon_input"        -> mar_num < MAX_MAR
    [] op[t] = "martian_input"      -> eng_num < MAX_ENG
    [] op[t] = "melon_get_output"   -> eng_num > 0
    [] op[t] = "martian_get_output" -> mar_num > 0

\* The test in the critical section.
Admitted(t) ==
  CASE op[t] = "melon_input"        -> mar_num < MAX_MAR /\ eng_num = 0
    [] op[t] = "martian_input"      -> eng_num < MAX_ENG
    [] op[t] = "melon_get_output"   -> eng_num > 0
    [] op[t] = "martian_get_output" -> mar_num > 0

Lock(t) ==
  /\ pc[t] = "lock"
  /\ splock = NoThread
  /\ splock' = t
  /\ GoTo(t, "test")
  /\ UNCHANGED <<counters, calls, hardware>>

Test(t) ==
  /\ pc[t] = "test"
  /\ GoTo(t, IF Admitted(t) THEN "translator" ELSE "unlock_failed")
  /\ UNCHANGED <<counters, splock, calls, hardware>>

\* The routine of the translator that the function calls, from "translator" to
\* here.  A queue that is full or empty is not checked.
Translate(t) ==
  /\ pc[t] = "translator"
  /\ CASE op[t] = "melon_input" ->
            mar_queue' = Append(mar_queue, message[t]) /\ UNCHANGED <<eng_queue, heard>>
       [] op[t] = "martian_input" ->
            eng_queue' = Append(eng_queue, message[t]) /\ UNCHANGED <<mar_queue, heard>>
       [] op[t] = "melon_get_output" ->
            /\ heard' = [by |-> t, message |-> Head(eng_queue)]
            /\ eng_queue' = Tail(eng_queue) /\ UNCHANGED mar_queue
       [] op[t] = "martian_get_output" ->
            /\ heard' = [by |-> t, message |-> Head(mar_queue)]
            /\ mar_queue' = Tail(mar_queue) /\ UNCHANGED eng_queue
  /\ GoTo(t, "count")
  /\ UNCHANGED <<counters, splock, calls>>

\* The ++ or -- of the function.
Change(t) == IF op[t] \in Inputs THEN 1 ELSE -1

Count(t) ==
  /\ pc[t] = "count"
  /\ IF op[t] \in {"melon_input", "martian_get_output"}
     THEN mar_num' = mar_num + Change(t) /\ UNCHANGED eng_num
     ELSE eng_num' = eng_num + Change(t) /\ UNCHANGED mar_num
  /\ GoTo(t, "unlock")
  /\ UNCHANGED <<splock, calls, hardware>>

\* Mistake: the early return keeps the lock.
Released_Early(t) == IF pc[t] = "unlock" THEN NoThread ELSE splock
Released(t) == NoThread

\* After the unlock, an input that was not admitted polls again; the other
\* functions return.
Unlock(t) ==
  /\ pc[t] \in {"unlock", "unlock_failed"}
  /\ splock' = Released(t)
  /\ IF pc[t] = "unlock_failed" /\ op[t] \in Inputs
     THEN GoTo(t, "poll") /\ UNCHANGED calls
     ELSE /\ GoTo(t, "idle")
          /\ op' = [op EXCEPT ![t] = "none"]
          /\ message' = [message EXCEPT ![t] = "none"]
  /\ UNCHANGED <<counters, hardware>>

Step(t) == Test(t) \/ Translate(t) \/ Count(t) \/ Unlock(t)

Next == \E t \in Threads :
  \/ Call(t) \/ PollMartian(t) \/ PollEnglish(t)
  \/ Lock(t) \/ Step(t)

\* The spin lock lets everyone in who waits, and its holder is not interrupted.
Fairness == \A t \in Threads : SF_vars(Lock(t)) /\ WF_vars(Step(t))

Spec == Init /\ [][Next]_vars /\ Fairness

-----------------------------------------------------------------------------
Places == {"idle", "poll", "poll_eng", "lock", "test", "translator", "count", "unlock",
           "unlock_failed"}
Holding == {"test", "translator", "count", "unlock", "unlock_failed"}

TypeOK ==
  /\ eng_num \in 0 .. MAX_ENG /\ mar_num \in 0 .. MAX_MAR
  /\ splock \in Threads \cup {NoThread}
  /\ op \in [Threads -> Inputs \cup Outputs \cup {"none"}]
  /\ message \in [Threads -> Messages \cup {"none"}]
  /\ pc \in [Threads -> Places]
  /\ eng_queue \in Seq(Messages) /\ mar_queue \in Seq(Messages)

\* "None of the four routines should be called simultaneously with any others",
\* nor with a full queue or an empty one.
TranslatorUsedRight ==
  \A t \in Threads : pc[t] = "translator" =>
    /\ \A u \in Threads : pc[u] = "translator" => u = t
    /\ op[t] = "melon_input" => Len(mar_queue) < MAX_MAR
    /\ op[t] = "martian_input" => Len(eng_queue) < MAX_ENG
    /\ op[t] = "melon_get_output" => eng_queue # <<>>
    /\ op[t] = "martian_get_output" => mar_queue # <<>>

\* The counters and the lock make the translator's queues two bounded queues
\* used in single steps, and melons listen before they speak.
ImplementsTranslator == TR!Spec

\* The functions that take an output never wait for anyone's messages.
OutputsReturn == \A t \in Threads :
  (pc[t] # "idle" /\ op[t] \in Outputs) ~> pc[t] = "idle"
=============================================================================
