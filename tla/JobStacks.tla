----------------------------- MODULE JobStacks -----------------------------
(***************************************************************************)
(* What process control promises its users, without pids' bookkeeping,     *)
(* PCBs, stacks or pages: each terminal owns a stack of jobs.  Starting a  *)
(* program pushes a job that no terminal has, ending one pops back to the  *)
(* job that started it, the bottom job never ends, and the processor goes  *)
(* round the terminals.                                                    *)
(***************************************************************************)
EXTENDS Sequences, Naturals

CONSTANTS Jobs, Terminals

VARIABLES
  stack,    \* stack[t]: the jobs of terminal t, the running one last
  active    \* the terminal that has the processor

InUse(j) == \E t \in Terminals : \E i \in DOMAIN stack[t] : stack[t][i] = j

Init ==
  /\ active \in Terminals
  /\ \E j \in Jobs : stack = [t \in Terminals |-> IF t = active THEN <<j>> ELSE <<>>]

\* The processor moves on; a terminal that has no job gets its first.
Preempt ==
  /\ active' \in Terminals
  /\ \/ stack[active'] # <<>> /\ stack' = stack
     \/ /\ stack[active'] = <<>>
        /\ \E j \in Jobs : ~InUse(j) /\ stack' = [stack EXCEPT ![active'] = <<j>>]

Push ==
  /\ \E j \in Jobs : ~InUse(j) /\ stack' = [stack EXCEPT ![active] = Append(@, j)]
  /\ UNCHANGED active

Pop ==
  /\ Len(stack[active]) > 1
  /\ stack' = [stack EXCEPT ![active] = SubSeq(@, 1, Len(@) - 1)]
  /\ UNCHANGED active

Next == Preempt \/ Push \/ Pop

Turns == \A t \in Terminals : []<>(active = t /\ stack[t] # <<>>)

Safety == Init /\ [][Next]_<<stack, active>>

Spec == Safety /\ Turns
=============================================================================
