----------------------------- MODULE TuxBuffer -----------------------------
(***************************************************************************)
(* The ring buffers of the Tux line discipline (mp2, tuxctl-ld.c), one for *)
(* each direction.  One slot is always left free.                          *)
(***************************************************************************)
EXTENDS Integers

CONSTANT TUXCTL_BUFSIZE  \* 64

ASSUME BufferAssumption == TUXCTL_BUFSIZE \in Nat /\ TUXCTL_BUFSIZE > 1

Slots == 0 .. TUXCTL_BUFSIZE - 1
IncIdx(idx) == (idx + 1) % TUXCTL_BUFSIZE
Used(start, end) == IF start <= end THEN end - start ELSE TUXCTL_BUFSIZE + end - start
=============================================================================
