-------------------------------- MODULE Blink --------------------------------
(***************************************************************************)
(* The missile blinker of src/mp1/mp1.S.  Four ioctls keep a singly linked *)
(* list of blinking characters; a tasklet, run at every tick of the real   *)
(* time clock, walks the same list, counts every node down and repaints    *)
(* the ones whose count reaches zero.  The tasklet interrupts an ioctl     *)
(* between any two of its instructions and runs to its end before the      *)
(* ioctl goes on; one ioctl runs at a time.                                *)
(*                                                                         *)
(* An action is a piece of an ioctl whose outcome the tasklet can tell     *)
(* from what comes before and after it: one access to a listed node, the   *)
(* head or the screen.  A character is named by the node it belongs to and *)
(* the status it is shown for.  Calls that return before they change       *)
(* anything (a null argument, no memory, a bad command or location) are    *)
(* stuttering steps.                                                       *)
(***************************************************************************)
EXTENDS Integers, Sequences, FiniteSets

CONSTANTS Blocks,        \* the memory blocks mp1_malloc can hand out
          NULL,          \* the null pointer
          Wild,          \* what a user leaves in the next field of a structure
          Locations,     \* the locations on the screen, 0..1999
          BadLocation,   \* a location past the screen
          OnLengths, OffLengths,  \* the lengths users ask for
          Width          \* the values of a 16 bit word: 65536

ASSUME BlockAssumption ==
    /\ IsFiniteSet(Blocks)
    /\ NULL \notin Blocks /\ Wild \notin Blocks /\ NULL # Wild
ASSUME LocationAssumption == BadLocation \notin Locations
ASSUME LengthAssumption ==
    /\ Width \in Nat \ {0}
    /\ OnLengths \subseteq 0 .. Width - 1
    /\ OffLengths \subseteq 0 .. Width - 1

VARIABLES node,    \* the structure in every block
          alloc,   \* the blocks handed out and not freed
          head,    \* mp1_list_head
          screen,  \* the character last poked at every location
          op,      \* the running ioctl: where it is and its registers
          cursor,  \* EBX of the tasklet, NULL between two ticks
          order,   \* history: the listed nodes, first to last
          raced    \* history: the nodes a tick reached before their ioctl's poke

vars == <<node, alloc, head, screen, op, cursor, order, raced>>

Filled(l, on, off) == [location |-> l, on |-> on, off |-> off,
                       countdown |-> 0, status |-> 0, next |-> Wild]
Junk == Filled(BadLocation, 0, 0)     \* what memory holds that nobody owns
Blank == [of |-> NULL, status |-> 0]
Listed == {order[i] : i \in DOMAIN order}

(* "walk" looks for op.target in the list, "before" for the node before op.found. *)
NoOp == [at |-> "none", cmd |-> "none", target |-> BadLocation, second |-> BadLocation,
         temp |-> NULL, ebx |-> NULL, found |-> NULL, first |-> NULL, char |-> 0,
         parted |-> FALSE]  \* history: see Parts
Goto(place) == [op EXCEPT !.at = place]

Init ==
    /\ node = [b \in Blocks |-> Junk]
    /\ alloc = {}
    /\ head = NULL
    /\ screen = [l \in Locations |-> Blank]
    /\ op = NoOp
    /\ cursor = NULL
    /\ order = <<>>
    /\ raced = {}

----------------------------------------------------------------------------
(* mp1_rtc_tasklet *)

Poke(l, b, status) == screen' = [screen EXCEPT ![l] = [of |-> b, status |-> status]]

Tick ==
    /\ cursor = NULL
    /\ head # NULL
    /\ cursor' = head
    /\ UNCHANGED <<node, alloc, head, screen, op, order, raced>>

CountedDown(b) == (node[b].countdown + Width - 1) % Width

Length(b, status) == IF status = 1 THEN node[b].on ELSE node[b].off

(* The running ioctl has chosen the character of b and not poked it yet. *)
Unpoked(b) == op.at \in {"addPoke", "syncPoke"} /\ op.found = b

(* A flip of the first node of a sync between the copies of its count and its status. *)
Parts(b) == op.at = "syncStatus" /\ op.first = b

TickNode ==
    /\ cursor \in Blocks
    /\ cursor' = node[cursor].next
    /\ IF CountedDown(cursor) = 0 /\ node[cursor].status \in {0, 1}
       THEN LET now == 1 - node[cursor].status
            IN  /\ node' = [node EXCEPT ![cursor].status = now,
                                        ![cursor].countdown = Length(cursor, now)]
                /\ Poke(node[cursor].location, cursor, now)
                /\ raced' = IF Unpoked(cursor) THEN raced \cup {cursor} ELSE raced \ {cursor}
                /\ op' = [op EXCEPT !.parted = @ \/ Parts(cursor)]
       ELSE /\ node' = [node EXCEPT ![cursor].countdown = CountedDown(cursor)]
            /\ UNCHANGED <<screen, raced, op>>
    /\ UNCHANGED <<alloc, head, order>>

Tasklet == Tick \/ TickNode

----------------------------------------------------------------------------
(* The ioctls.  Each step needs the tasklet asleep. *)

(* mp1_malloc hands out some free block: one is as good as another. *)
Free == Blocks \ alloc
Fresh == CHOOSE b \in Free : TRUE

(* mp1_malloc and mp1_copy_from_user: a structure of a user's in a block of its own. *)
CopyIn(l, on, off) ==
    /\ Free # {}
    /\ alloc' = alloc \cup {Fresh}
    /\ node' = [node EXCEPT ![Fresh] = Filled(l, on, off)]

AddCall ==
    /\ op.at = "none"
    /\ \E l \in Locations, on \in OnLengths, off \in OffLengths : CopyIn(l, on, off)
    /\ op' = [NoOp EXCEPT !.at = "addLink", !.cmd = "add", !.found = Fresh]
    /\ UNCHANGED <<head, screen, order, raced>>

(* The user's pointer faults, or the location is past the screen: Add_fail. *)
AddFails ==
    /\ op.at = "none"
    /\ CopyIn(BadLocation, 0, 0)
    /\ op' = [NoOp EXCEPT !.at = "freeTemp", !.cmd = "add", !.temp = Fresh]
    /\ UNCHANGED <<head, screen, order, raced>>

\* Mistake: the new node does not point at the old head.
Successor_None == NULL

Successor == head

AddLink ==
    /\ op.at = "addLink"
    /\ node' = [node EXCEPT ![op.found].countdown = node[op.found].on,
                            ![op.found].status = 1,
                            ![op.found].next = Successor]
    /\ head' = op.found
    /\ order' = <<op.found>> \o order
    /\ op' = Goto("addPoke")
    /\ UNCHANGED <<alloc, screen, raced>>

AddPoke ==
    /\ op.at = "addPoke"
    /\ Poke(node[op.found].location, op.found, 1)
    /\ op' = NoOp
    /\ UNCHANGED <<node, alloc, head, order, raced>>

(* mp1_help_search, one node a step *)
Search(cmd, l, l2, temp) ==
    [NoOp EXCEPT !.at = "walk", !.cmd = cmd, !.target = l, !.second = l2,
                 !.temp = temp, !.ebx = head]

NotFound == IF op.temp = NULL THEN NoOp ELSE Goto("freeTemp")

Found(b) ==
    CASE op.cmd = "remove" -> IF b = head THEN [op EXCEPT !.at = "unlink", !.found = b]
                              ELSE [op EXCEPT !.at = "before", !.found = b, !.ebx = head]
      [] op.cmd = "find" -> [op EXCEPT !.at = "copyOut", !.found = b]
      [] op.cmd = "sync" /\ op.first = NULL -> [op EXCEPT !.first = b, !.target = op.second, !.ebx = head]
      [] OTHER -> [op EXCEPT !.at = "syncLengths", !.found = b]

Walk ==
    /\ op.at = "walk"
    /\ op' = IF op.ebx = NULL THEN NotFound
             ELSE IF node[op.ebx].location = op.target THEN Found(op.ebx)
             ELSE [op EXCEPT !.ebx = node[op.ebx].next]
    /\ UNCHANGED <<node, alloc, head, screen, order, raced>>

RemoveCall ==
    /\ op.at = "none"
    /\ \E l \in Locations : op' = Search("remove", l, l, NULL)
    /\ UNCHANGED <<node, alloc, head, screen, order, raced>>

\* s without its element b
Without(s, b) ==
    [i \in 1 .. Len(s) - 1 |-> IF \E j \in 1 .. i : s[j] = b THEN s[i + 1] ELSE s[i]]

UnlinkHead ==
    /\ op.at = "unlink"
    /\ head' = node[op.found].next
    /\ order' = Without(order, op.found)
    /\ op' = Goto("freeFound")
    /\ UNCHANGED <<node, alloc, screen, raced>>

StepBefore ==
    /\ op.at = "before"
    /\ node[op.ebx].next # op.found
    /\ op' = IF node[op.ebx].next = NULL THEN NoOp
             ELSE [op EXCEPT !.ebx = node[op.ebx].next]
    /\ UNCHANGED <<node, alloc, head, screen, order, raced>>

UnlinkAfter ==
    /\ op.at = "before"
    /\ node[op.ebx].next = op.found
    /\ node' = [node EXCEPT ![op.ebx].next = node[op.found].next]
    /\ order' = Without(order, op.found)
    /\ op' = Goto("freeFound")
    /\ UNCHANGED <<alloc, head, screen, raced>>

Release(b) ==
    /\ alloc' = alloc \ {b}
    /\ node' = [node EXCEPT ![b] = Junk]

FreeFound ==
    /\ op.at = "freeFound"
    /\ Release(op.found)
    /\ raced' = raced \ {op.found}
    /\ op' = NoOp
    /\ UNCHANGED <<head, screen, order>>

FreeTemp ==
    /\ op.at = "freeTemp"
    /\ Release(op.temp)
    /\ op' = NoOp
    /\ UNCHANGED <<head, screen, order, raced>>

FindCall ==
    /\ op.at = "none"
    /\ \E l \in Locations :
         /\ CopyIn(l, 0, 0)
         /\ op' = Search("find", l, l, Fresh)
    /\ UNCHANGED <<head, screen, order, raced>>

FindFails ==
    /\ op.at = "none"
    /\ CopyIn(BadLocation, 0, 0)
    /\ op' = [NoOp EXCEPT !.at = "freeTemp", !.cmd = "find", !.temp = Fresh]
    /\ UNCHANGED <<head, screen, order, raced>>

(* mp1_copy_to_user reads the node; a fault there changes the return value only. *)
CopyOut ==
    /\ op.at = "copyOut"
    /\ op' = Goto("freeTemp")
    /\ UNCHANGED <<node, alloc, head, screen, order, raced>>

SyncCall ==
    /\ op.at = "none"
    /\ \E l, l2 \in Locations : op' = Search("sync", l, l2, NULL)
    /\ UNCHANGED <<node, alloc, head, screen, order, raced>>

SyncLengths ==
    /\ op.at = "syncLengths"
    /\ node' = [node EXCEPT ![op.found].on = node[op.first].on,
                            ![op.found].off = node[op.first].off]
    /\ op' = Goto("syncCountdown")
    /\ UNCHANGED <<alloc, head, screen, order, raced>>

\* Mistake: the second node starts its period anew.
CopiedCount_Restart == node[op.found].on

CopiedCount == node[op.first].countdown

SyncCountdown ==
    /\ op.at = "syncCountdown"
    /\ node' = [node EXCEPT ![op.found].countdown = CopiedCount]
    /\ op' = Goto("syncStatus")
    /\ UNCHANGED <<alloc, head, screen, order, raced>>

SyncStatus ==
    /\ op.at = "syncStatus"
    /\ node' = [node EXCEPT ![op.found].status = node[op.first].status]
    /\ op' = Goto("syncChar")
    /\ UNCHANGED <<alloc, head, screen, order, raced>>

\* Mistake: the character is that of a node that is on, whatever the status.
CharOf_On(b) == 1

CharOf(b) == IF node[b].status = 0 THEN 0 ELSE 1

SyncChar ==
    /\ op.at = "syncChar"
    /\ op' = [op EXCEPT !.at = "syncPoke", !.char = CharOf(op.found)]
    /\ raced' = raced \ {op.found}
    /\ UNCHANGED <<node, alloc, head, screen, order>>

SyncPoke ==
    /\ op.at = "syncPoke"
    /\ Poke(node[op.found].location, op.found, op.char)
    /\ op' = NoOp
    /\ UNCHANGED <<node, alloc, head, order, raced>>

Ioctl ==
    /\ cursor = NULL
    /\ UNCHANGED cursor
    /\ \/ AddCall \/ AddFails \/ AddLink \/ AddPoke
       \/ Walk
       \/ RemoveCall \/ UnlinkHead \/ StepBefore \/ UnlinkAfter \/ FreeFound
       \/ FindCall \/ FindFails \/ CopyOut \/ FreeTemp
       \/ SyncCall \/ SyncLengths \/ SyncCountdown \/ SyncStatus \/ SyncChar \/ SyncPoke

Next == Tasklet \/ Ioctl

Spec == Init /\ [][Next]_vars

----------------------------------------------------------------------------
(* The list is whole at every point where the tasklet or an ioctl may look *)
(* at it: it runs from the head through every listed node once to NULL,    *)
(* every listed node is allocated memory, the two walks stand on listed    *)
(* nodes, and every other allocated block is the running ioctl's, which    *)
(* gives it back.                                                          *)
Chained ==
    /\ \A i, j \in DOMAIN order : order[i] = order[j] => i = j
    /\ head = IF order = <<>> THEN NULL ELSE order[1]
    /\ \A i \in DOMAIN order :
         node[order[i]].next = IF i = Len(order) THEN NULL ELSE order[i + 1]

Held == IF op.at \in {"addLink", "freeFound"} THEN {op.found}
        ELSE {op.temp} \ {NULL}

NoLeak == alloc = Listed \cup Held /\ Listed \cap Held = {}

ListSound ==
    /\ Chained
    /\ NoLeak
    /\ cursor \in Listed \cup {NULL}
    /\ op.at \in {"walk", "before"} => op.ebx \in Listed \cup {NULL}
    /\ op.at \notin {"none", "addLink", "walk", "freeTemp", "freeFound"} => op.found \in Listed

(* The screen shows a listed character in the state it is in.  Between an  *)
(* ioctl's choice of the character and its poke a tick may flip the node:  *)
(* then, and only then, the screen is wrong, until the node's next flip.   *)
Poking(b) == op.at \in {"addPoke", "syncChar", "syncPoke"} /\ op.found = b

ScreenFollows ==
    /\ \A l \in Locations :
         LET b == screen[l].of
         IN  b \in Listed /\ node[b].location = l /\ b \notin raced /\ ~Poking(b)
             => screen[l].status = node[b].status
    /\ \A b \in Listed : ~Poking(b) => screen[node[b].location] # Blank

(* A sync leaves the two nodes in step: same lengths, same count, same     *)
(* status, ticks that run while it copies included, unless a tick flips    *)
(* the first one between the copy of its countdown and of its status.      *)
Timing(b) == <<node[b].on, node[b].off, node[b].countdown, node[b].status>>
SyncedInStep ==
    op.at \in {"syncChar", "syncPoke"} /\ cursor = NULL /\ ~op.parted
        => Timing(op.first) = Timing(op.found)
=============================================================================
