---------------------------- MODULE MeLockProofs ----------------------------
(***************************************************************************)
(* For any threads, messages and queue sizes: the translator is used by    *)
(* one thread at a time and never with a full or an empty queue, and the   *)
(* lock implements Translator.                                             *)
(***************************************************************************)
EXTENDS MeLock, SequenceTheorems, TLAPS

\* A thread in a call is in one of the functions, with its message.
Calls == \A t \in Threads :
  /\ pc[t] # "idle" => op[t] \in Inputs \cup Outputs
  /\ pc[t] \in {"poll", "poll_eng"} => op[t] \in Inputs
  /\ pc[t] # "idle" /\ op[t] \in Inputs => message[t] \in Messages

\* Who is between lock and unlock holds the lock.
Holder == \A t \in Threads : pc[t] \in Holding <=> splock = t

\* What the test in the critical section found is still so.
Tested == \A t \in Threads : pc[t] = "translator" => Admitted(t)

\* The counters are the lengths of the queues, but for a message just moved.
\* At that point the test still bounds the counter that is to change.
Lengths(eng, mar) == Len(eng_queue) = eng_num + eng /\ Len(mar_queue) = mar_num + mar
Moved(t) ==
  /\ op[t] = "melon_input"        => Lengths(0, 1) /\ mar_num < MAX_MAR
  /\ op[t] = "martian_input"      => Lengths(1, 0) /\ eng_num < MAX_ENG
  /\ op[t] = "melon_get_output"   => Lengths(-1, 0)
  /\ op[t] = "martian_get_output" => Lengths(0, -1)
Counted ==
  /\ \A t \in Threads : pc[t] = "count" => Moved(t)
  /\ (\A t \in Threads : pc[t] # "count") => Lengths(0, 0)

LockInv == TypeOK /\ Calls /\ Holder /\ Tested /\ Counted

\* Two threads are never both inside.
LEMMA Exclusion ==
  ASSUME LockInv, NEW t \in Threads, NEW u \in Threads,
         pc[t] \in Holding, pc[u] \in Holding
  PROVE  t = u
BY DEF LockInv, Holder

LEMMA InitInv == Init => LockInv
<1>. SUFFICES ASSUME Init PROVE LockInv
  OBVIOUS
<1>1. TypeOK
  BY SizeAssumption DEF Init, TypeOK, Places
<1>2. Calls /\ Holder /\ Tested
  BY ThreadAssumption DEF Init, Calls, Holder, Holding, Tested
<1>3. Counted
  BY DEF Init, Counted, Lengths
<1>. QED
  BY <1>1, <1>2, <1>3 DEF LockInv

\* Outside the critical section, a thread moves without touching what the
\* invariant says of the others.
LEMMA OutsideInv ==
  ASSUME LockInv, NEW t \in Threads, NEW place \in Places \ Holding,
         pc[t] \notin Holding, GoTo(t, place), UNCHANGED <<counters, splock, hardware>>,
         op' \in [Threads -> Inputs \cup Outputs \cup {"none"}],
         message' \in [Threads -> Messages \cup {"none"}],
         \A u \in Threads : u # t => op'[u] = op[u] /\ message'[u] = message[u],
         place # "idle" => op'[t] \in Inputs \cup Outputs,
         place \in {"poll", "poll_eng"} => op'[t] \in Inputs,
         place # "idle" /\ op'[t] \in Inputs => message'[t] \in Messages
  PROVE  LockInv'
<1>1. /\ pc' \in [Threads -> Places] /\ pc'[t] = place
      /\ \A u \in Threads : u # t => pc'[u] = pc[u]
  BY DEF LockInv, TypeOK, GoTo
<1>2. TypeOK'
  BY <1>1 DEF LockInv, TypeOK, counters, hardware
<1>3. Calls'
  BY <1>1 DEF LockInv, Calls
<1>4. Holder'
  BY <1>1 DEF LockInv, Holder
<1>5. Tested'
  BY <1>1 DEF LockInv, Tested, Admitted, Holding, counters
<1>6. Counted'
  <2>1. \A u \in Threads : pc'[u] = "count" => u # t /\ pc[u] = "count"
    BY <1>1 DEF Holding
  <2>2. \A u \in Threads : pc[u] = "count" => u # t /\ pc'[u] = "count"
    BY <1>1 DEF Holding
  <2>. QED
    BY <2>1, <2>2 DEF LockInv, Counted, Moved, Lengths, counters, hardware
<1>. QED
  BY <1>2, <1>3, <1>4, <1>5, <1>6 DEF LockInv

LEMMA CallInv == ASSUME LockInv, NEW t \in Threads, Call(t) PROVE LockInv'
<1>1. PICK o \in Inputs \cup Outputs, m \in Messages :
        /\ op' = [op EXCEPT ![t] = o]
        /\ message' = [message EXCEPT ![t] = IF o \in Inputs THEN m ELSE "none"]
        /\ GoTo(t, IF o \in Inputs THEN "poll" ELSE "lock")
  BY DEF Call
<1>. DEFINE place == IF o \in Inputs THEN "poll" ELSE "lock"
<1>2. place \in Places \ Holding /\ place # "poll_eng" /\ (place = "poll" => o \in Inputs)
  BY DEF Places, Holding
<1>3. pc[t] \notin Holding /\ UNCHANGED <<counters, splock, hardware>>
  BY DEF Call, Holding
<1>4. /\ op' \in [Threads -> Inputs \cup Outputs \cup {"none"}] /\ op'[t] = o
      /\ message' \in [Threads -> Messages \cup {"none"}]
      /\ o \in Inputs => message'[t] \in Messages
      /\ \A u \in Threads : u # t => op'[u] = op[u] /\ message'[u] = message[u]
  BY <1>1 DEF LockInv, TypeOK
<1>. HIDE DEF place
<1>5. GoTo(t, place)
  BY <1>1 DEF place
<1>. QED
  BY <1>2, <1>3, <1>4, <1>5, OutsideInv

LEMMA PollInv ==
  ASSUME LockInv, NEW t \in Threads, PollMartian(t) \/ PollEnglish(t)
  PROVE  LockInv'
<1>1. pc[t] \in {"poll", "poll_eng"} /\ UNCHANGED <<counters, splock, calls, hardware>>
  BY DEF PollMartian, PollEnglish
<1>2. op[t] \in Inputs /\ message[t] \in Messages
  BY <1>1 DEF LockInv, Calls
<1>3. PICK place \in {"poll", "poll_eng", "lock"} : GoTo(t, place)
  BY DEF PollMartian, PollEnglish
<1>4. place \in Places \ Holding /\ pc[t] \notin Holding
  BY <1>1 DEF Places, Holding
<1>5. op' = op /\ message' = message /\ UNCHANGED <<counters, splock, hardware>>
  BY <1>1 DEF calls
<1>. QED
  BY <1>2, <1>3, <1>4, <1>5, OutsideInv DEF LockInv, TypeOK

\* A step of the holder of the lock: from one place in the critical section to
\* another.  Nobody else is there.
LEMMA HolderMoves ==
  ASSUME LockInv, NEW t \in Threads, pc[t] \in Holding, NEW place \in Places, GoTo(t, place)
  PROVE  /\ pc' \in [Threads -> Places] /\ pc'[t] = place
         /\ \A u \in Threads : u # t => pc'[u] = pc[u] /\ pc[u] \notin Holding
         /\ splock = t
BY Exclusion DEF LockInv, TypeOK, Holder, GoTo

LEMMA InsideInv ==
  ASSUME LockInv, NEW t \in Threads, pc[t] \in Holding, NEW place \in Holding,
         GoTo(t, place), UNCHANGED <<splock, calls>>, TypeOK',
         place = "translator" => Admitted(t)',
         place = "count" => Moved(t)',
         place # "count" => Lengths(0, 0)'
  PROVE  LockInv'
<1>. place \in Places /\ place # "idle" /\ place \notin {"poll", "poll_eng"} /\ pc[t] # "idle"
  BY DEF Holding, Places
<1>1. /\ pc'[t] = place /\ splock = t
      /\ \A u \in Threads : u # t => pc'[u] = pc[u] /\ pc[u] \notin Holding
  BY HolderMoves
<1>2. Calls'
  BY <1>1 DEF LockInv, Calls, calls
<1>3. Holder'
  BY <1>1 DEF LockInv, Holder
<1>4. Tested'
  BY <1>1 DEF Tested, Admitted, Holding
<1>5. Counted'
  <2>1. \A u \in Threads : u # t => pc'[u] # "count"
    BY <1>1 DEF Holding
  <2>. QED
    BY <1>1, <2>1 DEF Counted, Moved, Lengths
<1>. QED
  BY <1>2, <1>3, <1>4, <1>5 DEF LockInv

\* With its holder elsewhere in the critical section, the counters are right.
LEMMA HolderCounted ==
  ASSUME LockInv, NEW t \in Threads, pc[t] \in Holding, pc[t] # "count"
  PROVE  Lengths(0, 0)
<1>1. \A u \in Threads : pc[u] # "count"
  BY Exclusion DEF Holding
<1>. QED
  BY <1>1 DEF LockInv, Counted

LEMMA LockStepInv == ASSUME LockInv, NEW t \in Threads, Lock(t) PROVE LockInv'
<1>1. /\ pc' \in [Threads -> Places] /\ pc'[t] = "test" /\ splock' = t
      /\ \A u \in Threads : u # t => pc'[u] = pc[u]
      /\ pc[t] = "lock" /\ UNCHANGED <<counters, calls, hardware>>
  BY DEF Lock, GoTo, LockInv, TypeOK, Places
<1>2. \A u \in Threads : pc[u] \notin Holding
  BY ThreadAssumption DEF Lock, LockInv, Holder
<1>3. TypeOK'
  BY <1>1 DEF LockInv, TypeOK, counters, calls, hardware
<1>4. Calls'
  BY <1>1 DEF LockInv, Calls, calls
<1>5. Holder'
  BY <1>1, <1>2 DEF Holder, Holding
<1>6. Tested'
  BY <1>1, <1>2 DEF Tested, Holding
<1>7. Counted'
  BY <1>1, <1>2 DEF LockInv, Counted, Lengths, Holding, counters, hardware
<1>. QED
  BY <1>3, <1>4, <1>5, <1>6, <1>7 DEF LockInv

LEMMA TestInv == ASSUME LockInv, NEW t \in Threads, Test(t) PROVE LockInv'
<1>1. pc[t] = "test" /\ UNCHANGED <<counters, splock, calls, hardware>>
  BY DEF Test
<1>2. PICK place \in {"translator", "unlock_failed"} :
        GoTo(t, place) /\ (place = "translator" => Admitted(t))
  BY DEF Test
<1>3. pc[t] \in Holding /\ place \in Holding /\ place \in Places /\ place # "count"
  BY <1>1 DEF Holding, Places
<1>4. TypeOK'
  BY <1>1, <1>2, <1>3, HolderMoves DEF LockInv, TypeOK, counters, calls, hardware
<1>5. Lengths(0, 0)'
  BY <1>1, <1>3, HolderCounted DEF Lengths, counters, hardware
<1>6. place = "translator" => Admitted(t)'
  BY <1>1, <1>2 DEF Admitted, counters, calls
<1>. QED
  BY <1>1, <1>2, <1>3, <1>4, <1>5, <1>6, InsideInv

\* What taking a message out of a queue does.
LEMMA TailSteps ==
  ASSUME NEW q \in Seq(Messages), Len(q) > 0
  PROVE  Tail(q) \in Seq(Messages) /\ Len(Tail(q)) = Len(q) - 1 /\ q # <<>>
<1>1. q # <<>>
  BY EmptySeq
<1>. QED
  BY <1>1, HeadTailProperties

\* What the test in the critical section says of the queues.
LEMMA AdmittedQueues ==
  ASSUME LockInv, NEW t \in Threads, pc[t] = "translator"
  PROVE  /\ Lengths(0, 0) /\ op[t] \in Inputs \cup Outputs
         /\ op[t] = "melon_input" => Len(mar_queue) < MAX_MAR /\ Len(eng_queue) = 0
         /\ op[t] = "martian_input" => Len(eng_queue) < MAX_ENG
         /\ op[t] = "melon_get_output" => Len(eng_queue) > 0
         /\ op[t] = "martian_get_output" => Len(mar_queue) > 0
         /\ op[t] \in Inputs => message[t] \in Messages
<1>1. Admitted(t) /\ op[t] \in Inputs \cup Outputs
      /\ (op[t] \in Inputs => message[t] \in Messages)
  BY DEF LockInv, Tested, Calls
<1>2. Lengths(0, 0)
  BY HolderCounted DEF Holding
<1>3. eng_num \in Int /\ mar_num \in Int
  BY SizeAssumption DEF LockInv, TypeOK
<1>4. Len(eng_queue) = eng_num /\ Len(mar_queue) = mar_num
  BY <1>2, <1>3 DEF Lengths
<1>5. CASE op[t] = "melon_input"
  BY <1>1, <1>2, <1>4, <1>5 DEF Admitted
<1>6. CASE op[t] = "martian_input"
  BY <1>1, <1>2, <1>4, <1>6 DEF Admitted
<1>7. CASE op[t] = "melon_get_output"
  BY <1>1, <1>2, <1>4, <1>7 DEF Admitted
<1>8. CASE op[t] = "martian_get_output"
  BY <1>1, <1>2, <1>4, <1>8 DEF Admitted
<1>. QED
  BY <1>1, <1>5, <1>6, <1>7, <1>8 DEF Inputs, Outputs

LEMMA TranslateInv == ASSUME LockInv, NEW t \in Threads, Translate(t) PROVE LockInv'
<1>1. pc[t] = "translator" /\ GoTo(t, "count") /\ UNCHANGED <<counters, splock, calls>>
  BY DEF Translate
<1>2. pc[t] \in Holding /\ "count" \in Holding /\ "count" \in Places
  BY <1>1 DEF Holding, Places
<1>3. /\ eng_queue \in Seq(Messages) /\ mar_queue \in Seq(Messages)
      /\ eng_num \in Int /\ mar_num \in Int /\ op' = op
  BY <1>1, SizeAssumption DEF LockInv, TypeOK, calls
<1>4. Len(eng_queue) = eng_num /\ Len(mar_queue) = mar_num
  BY <1>1, <1>3, AdmittedQueues DEF Lengths
<1>5. eng_queue' \in Seq(Messages) /\ mar_queue' \in Seq(Messages) /\ Moved(t)'
  <2>1. CASE op[t] = "melon_input"
    <3>1. mar_queue' = Append(mar_queue, message[t]) /\ eng_queue' = eng_queue
      BY <2>1 DEF Translate
    <3>2. message[t] \in Messages /\ Len(mar_queue) < MAX_MAR
      BY <1>1, <2>1, AdmittedQueues DEF Inputs
    <3>3. mar_queue' \in Seq(Messages) /\ Len(mar_queue') = mar_num + 1
      BY <1>3, <1>4, <3>1, <3>2, AppendProperties
    <3>. QED
      BY <1>1, <1>3, <1>4, <2>1, <3>1, <3>2, <3>3 DEF Moved, Lengths, counters
  <2>2. CASE op[t] = "martian_input"
    <3>1. eng_queue' = Append(eng_queue, message[t]) /\ mar_queue' = mar_queue
      BY <2>2 DEF Translate
    <3>2. message[t] \in Messages /\ Len(eng_queue) < MAX_ENG
      BY <1>1, <2>2, AdmittedQueues DEF Inputs
    <3>3. eng_queue' \in Seq(Messages) /\ Len(eng_queue') = eng_num + 1
      BY <1>3, <1>4, <3>1, <3>2, AppendProperties
    <3>. QED
      BY <1>1, <1>3, <1>4, <2>2, <3>1, <3>2, <3>3 DEF Moved, Lengths, counters
  <2>3. CASE op[t] = "melon_get_output"
    <3>1. eng_queue' = Tail(eng_queue) /\ mar_queue' = mar_queue
      BY <2>3 DEF Translate
    <3>2. eng_queue' \in Seq(Messages) /\ Len(eng_queue') = eng_num - 1
      BY <1>1, <1>3, <1>4, <2>3, <3>1, AdmittedQueues, TailSteps
    <3>. QED
      BY <1>1, <1>3, <1>4, <2>3, <3>1, <3>2 DEF Moved, Lengths, counters
  <2>4. CASE op[t] = "martian_get_output"
    <3>1. mar_queue' = Tail(mar_queue) /\ eng_queue' = eng_queue
      BY <2>4 DEF Translate
    <3>2. mar_queue' \in Seq(Messages) /\ Len(mar_queue') = mar_num - 1
      BY <1>1, <1>3, <1>4, <2>4, <3>1, AdmittedQueues, TailSteps
    <3>. QED
      BY <1>1, <1>3, <1>4, <2>4, <3>1, <3>2 DEF Moved, Lengths, counters
  <2>. QED
    BY <1>1, <2>1, <2>2, <2>3, <2>4, AdmittedQueues DEF Inputs, Outputs
<1>6. TypeOK'
  BY <1>1, <1>2, <1>5, HolderMoves DEF LockInv, TypeOK, counters, calls
<1>. QED
  BY <1>1, <1>2, <1>5, <1>6, InsideInv

\* Counting makes good for the message just moved, and stays in bounds.
LEMMA CountInv == ASSUME LockInv, NEW t \in Threads, Count(t) PROVE LockInv'
<1>1. pc[t] = "count" /\ GoTo(t, "unlock") /\ UNCHANGED <<splock, calls, hardware>>
  BY DEF Count
<1>2. /\ pc[t] \in Holding /\ "unlock" \in Holding /\ "unlock" \in Places
      /\ "unlock" # "count" /\ "unlock" # "translator"
  BY <1>1 DEF Holding, Places
<1>3. /\ eng_queue \in Seq(Messages) /\ mar_queue \in Seq(Messages)
      /\ eng_num \in 0 .. MAX_ENG /\ mar_num \in 0 .. MAX_MAR
      /\ MAX_ENG \in Nat /\ MAX_MAR \in Nat
      /\ eng_queue' = eng_queue /\ mar_queue' = mar_queue
  BY <1>1, SizeAssumption DEF LockInv, TypeOK, hardware
<1>4. Len(eng_queue) \in Nat /\ Len(mar_queue) \in Nat
  BY <1>3, LenProperties
<1>5. Moved(t) /\ op[t] \in Inputs \cup Outputs
  BY <1>1 DEF LockInv, Counted, Calls
<1>6. eng_num' \in 0 .. MAX_ENG /\ mar_num' \in 0 .. MAX_MAR /\ Lengths(0, 0)'
  <2>1. CASE op[t] = "melon_input"
    <3>1. mar_num' = mar_num + 1 /\ eng_num' = eng_num
      BY <2>1 DEF Count, Change, Inputs
    <3>. QED
      BY <1>3, <1>4, <1>5, <2>1, <3>1 DEF Moved, Lengths
  <2>2. CASE op[t] = "martian_input"
    <3>1. eng_num' = eng_num + 1 /\ mar_num' = mar_num
      BY <2>2 DEF Count, Change, Inputs
    <3>. QED
      BY <1>3, <1>4, <1>5, <2>2, <3>1 DEF Moved, Lengths
  <2>3. CASE op[t] = "melon_get_output"
    <3>1. eng_num' = eng_num - 1 /\ mar_num' = mar_num
      BY <1>3, <2>3 DEF Count, Change, Inputs
    <3>. QED
      BY <1>3, <1>4, <1>5, <2>3, <3>1 DEF Moved, Lengths
  <2>4. CASE op[t] = "martian_get_output"
    <3>1. mar_num' = mar_num - 1 /\ eng_num' = eng_num
      BY <1>3, <2>4 DEF Count, Change, Inputs
    <3>. QED
      BY <1>3, <1>4, <1>5, <2>4, <3>1 DEF Moved, Lengths
  <2>. QED
    BY <1>5, <2>1, <2>2, <2>3, <2>4 DEF Inputs, Outputs
<1>7. TypeOK'
  BY <1>1, <1>2, <1>6, HolderMoves DEF LockInv, TypeOK, calls, hardware
<1>. QED
  BY <1>1, <1>2, <1>6, <1>7, InsideInv

LEMMA UnlockInv == ASSUME LockInv, NEW t \in Threads, Unlock(t) PROVE LockInv'
<1>1. pc[t] \in Holding /\ pc[t] # "count" /\ splock' = NoThread /\ UNCHANGED <<counters, hardware>>
  BY DEF Unlock, Released, Holding
<1>2. PICK place \in {"poll", "idle"} :
        /\ GoTo(t, place)
        /\ place = "poll" => op[t] \in Inputs /\ UNCHANGED calls
        /\ place = "idle" => /\ op' = [op EXCEPT ![t] = "none"]
                             /\ message' = [message EXCEPT ![t] = "none"]
  BY DEF Unlock
<1>3. place \in Places /\ place \notin Holding
  BY DEF Places, Holding
<1>4. /\ pc' \in [Threads -> Places] /\ pc'[t] = place
      /\ \A u \in Threads : u # t => pc'[u] = pc[u] /\ pc[u] \notin Holding
  BY <1>1, <1>2, <1>3, HolderMoves
<1>5. /\ op' \in [Threads -> Inputs \cup Outputs \cup {"none"}]
      /\ message' \in [Threads -> Messages \cup {"none"}]
      /\ \A u \in Threads : u # t => op'[u] = op[u] /\ message'[u] = message[u]
      /\ place = "poll" => op'[t] = op[t] /\ message'[t] = message[t]
  BY <1>2 DEF LockInv, TypeOK, calls
<1>6. TypeOK'
  BY <1>1, <1>4, <1>5 DEF LockInv, TypeOK, counters, hardware
<1>7. Calls'
  <2>1. pc[t] # "idle"
    BY <1>1 DEF Holding
  <2>. QED
    BY <1>2, <1>4, <1>5, <2>1 DEF LockInv, Calls
<1>8. \A u \in Threads : pc'[u] \notin Holding
  BY <1>3, <1>4
<1>9. Holder'
  BY <1>1, <1>8, ThreadAssumption DEF Holder
<1>10. Tested'
  BY <1>8 DEF Tested, Holding
<1>11. Counted'
  <2>1. Lengths(0, 0)'
    BY <1>1, HolderCounted DEF Lengths, counters, hardware
  <2>. QED
    BY <1>8, <2>1 DEF Counted, Holding
<1>. QED
  BY <1>6, <1>7, <1>9, <1>10, <1>11 DEF LockInv

LEMMA NextInv == LockInv /\ [Next]_vars => LockInv'
<1>. SUFFICES ASSUME LockInv, [Next]_vars PROVE LockInv'
  OBVIOUS
<1>1. CASE UNCHANGED vars
  BY <1>1 DEF vars, counters, calls, hardware, LockInv, TypeOK, Calls, Holder, Tested, Admitted,
              Counted, Moved, Lengths
<1>2. ASSUME NEW t \in Threads, Call(t) PROVE LockInv'
  BY <1>2, CallInv
<1>3. ASSUME NEW t \in Threads, PollMartian(t) \/ PollEnglish(t) PROVE LockInv'
  BY <1>3, PollInv
<1>4. ASSUME NEW t \in Threads, Lock(t) PROVE LockInv'
  BY <1>4, LockStepInv
<1>5. ASSUME NEW t \in Threads, Step(t) PROVE LockInv'
  BY <1>5, TestInv, TranslateInv, CountInv, UnlockInv DEF Step
<1>. QED
  BY <1>1, <1>2, <1>3, <1>4, <1>5 DEF Next

THEOREM LockInvariant == Spec => []LockInv
BY InitInv, NextInv, PTL DEF Spec

-----------------------------------------------------------------------------
\* The counters stay within the queues, every queue and call in its set.
THEOREM TypeCorrect == Spec => []TypeOK
<1>. LockInv => TypeOK
  BY DEF LockInv
<1>. QED
  BY LockInvariant, PTL

LEMMA UsedRight == LockInv => TranslatorUsedRight
<1>. SUFFICES ASSUME LockInv, NEW t \in Threads, pc[t] = "translator"
              PROVE  /\ \A u \in Threads : pc[u] = "translator" => u = t
                     /\ op[t] = "melon_input" => Len(mar_queue) < MAX_MAR
                     /\ op[t] = "martian_input" => Len(eng_queue) < MAX_ENG
                     /\ op[t] = "melon_get_output" => eng_queue # <<>>
                     /\ op[t] = "martian_get_output" => mar_queue # <<>>
  BY DEF TranslatorUsedRight
<1>1. \A u \in Threads : pc[u] = "translator" => u = t
  BY Exclusion DEF Holding
<1>2. eng_queue \in Seq(Messages) /\ mar_queue \in Seq(Messages)
  BY DEF LockInv, TypeOK
<1>. QED
  BY <1>1, <1>2, AdmittedQueues, TailSteps

\* The spin lock and the second test of the counters keep the four routines of the
\* translator apart, and away from full and empty queues.
THEOREM TranslatorUsedRightCorrect == Spec => []TranslatorUsedRight
BY LockInvariant, UsedRight, PTL

\* The call of the translator is the step of Translator; all else is invisible.
LEMMA TranslateStep ==
  ASSUME LockInv, NEW t \in Threads, Translate(t) PROVE TR!Next
<1>1. pc[t] = "translator"
  BY DEF Translate
<1>2. eng_queue \in Seq(Messages) /\ mar_queue \in Seq(Messages)
  BY DEF LockInv, TypeOK
<1>3. CASE op[t] = "melon_input"
  <2>1. eng_queue = <<>>
    BY <1>1, <1>2, <1>3, AdmittedQueues, EmptySeq
  <2>2. message[t] \in Messages /\ Len(mar_queue) < MAX_MAR
    BY <1>1, <1>3, AdmittedQueues DEF Inputs
  <2>3. TR!MelonSays(message[t])
    BY <1>3, <2>1, <2>2 DEF Translate, TR!MelonSays
  <2>. QED
    BY <2>2, <2>3 DEF TR!Next
<1>4. CASE op[t] = "martian_input"
  <2>1. message[t] \in Messages /\ Len(eng_queue) < MAX_ENG
    BY <1>1, <1>4, AdmittedQueues DEF Inputs
  <2>2. TR!MartianSays(message[t])
    BY <1>4, <2>1 DEF Translate, TR!MartianSays
  <2>. QED
    BY <2>1, <2>2 DEF TR!Next
<1>5. CASE op[t] = "melon_get_output"
  <2>1. eng_queue # <<>>
    BY <1>1, <1>2, <1>5, AdmittedQueues, TailSteps
  <2>2. TR!MelonHears(t)
    BY <1>5, <2>1 DEF Translate, TR!MelonHears
  <2>. QED
    BY <2>2 DEF TR!Next
<1>6. CASE op[t] = "martian_get_output"
  <2>1. mar_queue # <<>>
    BY <1>1, <1>2, <1>6, AdmittedQueues, TailSteps
  <2>2. TR!MartianHears(t)
    BY <1>6, <2>1 DEF Translate, TR!MartianHears
  <2>. QED
    BY <2>2 DEF TR!Next
<1>. QED
  BY <1>1, <1>3, <1>4, <1>5, <1>6, AdmittedQueues DEF Inputs, Outputs

LEMMA StepSimulated ==
  LockInv /\ [Next]_vars => [TR!Next]_<<eng_queue, mar_queue, heard>>
<1>. SUFFICES ASSUME LockInv, [Next]_vars
              PROVE  TR!Next \/ UNCHANGED <<eng_queue, mar_queue, heard>>
  OBVIOUS
<1>1. CASE UNCHANGED vars
  BY <1>1 DEF vars
<1>2. ASSUME NEW t \in Threads, Translate(t) PROVE TR!Next
  BY <1>2, TranslateStep
<1>3. ASSUME NEW t \in Threads,
             \/ Call(t) \/ PollMartian(t) \/ PollEnglish(t) \/ Lock(t)
             \/ Test(t) \/ Count(t) \/ Unlock(t)
      PROVE  UNCHANGED <<eng_queue, mar_queue, heard>>
  BY <1>3 DEF Call, PollMartian, PollEnglish, Lock, Test, Count, Unlock, hardware
<1>. QED
  BY <1>1, <1>2, <1>3 DEF Next, Step

\* The lock turns four routines that must not meet into two bounded queues, each used
\* in single steps and in order; melons speak only when no English message waits.
THEOREM MeLockImplementsTranslator == Spec => ImplementsTranslator
<1>1. Init => TR!Init
  BY DEF Init, TR!Init
<1>. QED
  BY <1>1, LockInvariant, StepSimulated, PTL DEF Spec, ImplementsTranslator, TR!Spec
=============================================================================
