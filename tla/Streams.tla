------------------------------ MODULE Streams ------------------------------
(***************************************************************************)
(* What the file system promises to programs: an open descriptor is a      *)
(* position in the items of the file it was opened by name for.  A read of *)
(* n items delivers the next n, or those that are left; a directory's      *)
(* items are its names, delivered one by one whatever n is.  A read of a   *)
(* damaged file may fail instead, and then delivers nothing.               *)
(***************************************************************************)
EXTENDS Sequences, Naturals

CONSTANTS
  Handles,
  Names,
  Closed,     \* not a name
  Content,    \* Content[nm]: the items of the file called nm
  OneByOne,   \* the names of directories
  Damaged,    \* the names of damaged files
  Requests    \* how many items a read may ask for

VARIABLES
  name,       \* name[h]: what h was opened for, or Closed
  pos,        \* pos[h]: how many items h has delivered
  got         \* what the last read that returned delivered, to whom

Nothing == [to |-> Closed, asked |-> 0, ok |-> TRUE, items |-> <<>>]

Init ==
  /\ name = [h \in Handles |-> Closed]
  /\ pos = [h \in Handles |-> 0]
  /\ got = Nothing

Open(h) ==
  /\ name[h] = Closed
  /\ \E nm \in Names : name' = [name EXCEPT ![h] = nm]
  /\ pos' = [pos EXCEPT ![h] = 0]
  /\ UNCHANGED got

Close(h) ==
  /\ name[h] # Closed
  /\ name' = [name EXCEPT ![h] = Closed]
  /\ pos' = [pos EXCEPT ![h] = 0]
  /\ UNCHANGED got

\* How many items a read of n gets.
Count(h, n) ==
  LET left == Len(Content[name[h]]) - pos[h]
      most == IF name[h] \in OneByOne THEN 1 ELSE n
  IN IF most < left THEN most ELSE left

Read(h, n) ==
  /\ name[h] # Closed
  /\ pos' = [pos EXCEPT ![h] = @ + Count(h, n)]
  /\ got' = [to |-> h, asked |-> n, ok |-> TRUE,
             items |-> SubSeq(Content[name[h]], pos[h] + 1, pos[h] + Count(h, n))]
  /\ UNCHANGED name

Fail(h, n) ==
  /\ name[h] \in Damaged
  /\ got' = [to |-> h, asked |-> n, ok |-> FALSE, items |-> <<>>]
  /\ UNCHANGED <<name, pos>>

Next == \E h \in Handles :
          \/ Open(h)
          \/ Close(h)
          \/ \E n \in Requests : Read(h, n) \/ Fail(h, n)

Spec == Init /\ [][Next]_<<name, pos, got>>
=============================================================================
