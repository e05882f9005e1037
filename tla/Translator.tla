----------------------------- MODULE Translator -----------------------------
(***************************************************************************)
(* What the lock of ps2/p3 promises to melons and martians: two bounded    *)
(* queues of translated messages, each used in one step at a time, in      *)
(* order; nothing new is told to the martians while English messages wait  *)
(* to be heard.                                                            *)
(***************************************************************************)
EXTENDS Sequences, Naturals

CONSTANTS Threads, Messages, MAX_ENG, MAX_MAR

VARIABLES
  eng, mar,   \* translated messages that wait
  heard       \* the last message that was taken, and by whom

Nobody == [by |-> "nobody", message |-> "none"]

Init == eng = <<>> /\ mar = <<>> /\ heard = Nobody

MartianSays(m) ==
  /\ Len(eng) < MAX_ENG
  /\ eng' = Append(eng, m)
  /\ UNCHANGED <<mar, heard>>

MelonSays(m) ==
  /\ Len(mar) < MAX_MAR
  /\ eng = <<>>
  /\ mar' = Append(mar, m)
  /\ UNCHANGED <<eng, heard>>

MelonHears(t) ==
  /\ eng # <<>>
  /\ eng' = Tail(eng)
  /\ heard' = [by |-> t, message |-> Head(eng)]
  /\ UNCHANGED mar

MartianHears(t) ==
  /\ mar # <<>>
  /\ mar' = Tail(mar)
  /\ heard' = [by |-> t, message |-> Head(mar)]
  /\ UNCHANGED eng

Next ==
  \/ \E m \in Messages : MartianSays(m) \/ MelonSays(m)
  \/ \E t \in Threads : MelonHears(t) \/ MartianHears(t)

Spec == Init /\ [][Next]_<<eng, mar, heard>>
=============================================================================
