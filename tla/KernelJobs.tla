----------------------------- MODULE KernelJobs -----------------------------
(***************************************************************************)
(* The kernel implements the job stacks: the stack of terminal t is read   *)
(* off the PCBs by following prev_pid from tm_array[t].tm_pid down to the  *)
(* terminal's shell.                                                       *)
(***************************************************************************)
EXTENDS Kernel, Sequences

\* For each process, the chain of at most n + 1 waiting processes that ends in it.
Chain[n \in 0 .. MAX_PROC] ==
  [p \in Pids |-> IF n = 0 \/ IsRoot(p) THEN <<p>> ELSE Append(Chain[n - 1][prev_pid[p]], p)]

StackOf(t) == IF tm_pid[t] = TM_UNUSED THEN <<>> ELSE Chain[MAX_PROC][tm_pid[t]]

JS == INSTANCE JobStacks WITH
        Jobs      <- Pids,
        Terminals <- Terms,
        stack     <- [t \in Terms |-> StackOf(t)],
        active    <- terminal_tick

\* execute, halt, exceptions and the scheduler together behave as independent
\* LIFO stacks of jobs, one per terminal, served in turn.
ImplementsJobStacks == JS!Spec
=============================================================================
