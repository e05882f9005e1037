----------------------------- MODULE BlinkProofs -----------------------------
(***************************************************************************)
(* For every number of blocks, locations and lengths, and wherever a tick  *)
(* comes: the blinker's list stays whole, the screen shows the listed      *)
(* characters as they are, and a sync leaves two nodes in step.            *)
(***************************************************************************)
EXTENDS Blink, SequenceTheorems, TLAPS

Links  == Blocks \cup {NULL}
Places == {"none", "addLink", "addPoke", "walk", "unlink", "before", "freeFound", "freeTemp",
           "copyOut", "syncLengths", "syncCountdown", "syncStatus", "syncChar", "syncPoke"}
Structs == [location : Locations \cup {BadLocation}, on : 0 .. Width - 1, off : 0 .. Width - 1,
            countdown : 0 .. Width - 1, status : {0, 1}, next : Links \cup {Wild}]
Ops == [at : Places, cmd : {"none", "add", "remove", "find", "sync"},
        target : Locations \cup {BadLocation}, second : Locations \cup {BadLocation},
        temp : Links, ebx : Links, found : Links, first : Links, char : {0, 1}, parted : BOOLEAN]

TypeOK ==
    /\ node \in [Blocks -> Structs]
    /\ alloc \subseteq Blocks
    /\ head \in Links
    /\ screen \in [Locations -> [of : Links, status : {0, 1}]]
    /\ op \in Ops
    /\ cursor \in Links
    /\ order \in Seq(Blocks)
    /\ raced \subseteq Blocks

(* What an ioctl's registers hold at each of its places.                   *)
Syncing == {"syncLengths", "syncCountdown", "syncStatus", "syncChar", "syncPoke"}
Registers ==
    /\ op.at = "walk" => op.cmd \in {"remove", "find", "sync"} /\ op.ebx \in Listed \cup {NULL}
    /\ op.at = "walk" => (op.temp # NULL <=> op.cmd = "find")
    /\ op.at = "walk" => op.first \in Listed \cup {NULL}
    /\ op.at \in {"copyOut", "freeTemp"} => op.temp # NULL
    /\ op.at \notin {"walk", "copyOut", "freeTemp"} => op.temp = NULL
    /\ op.at \in {"addPoke", "unlink", "before", "copyOut"} \cup Syncing => op.found \in Listed
    /\ op.at \in {"addLink", "freeFound"} => op.found # NULL
    /\ op.at = "addLink" => node[op.found].location \in Locations
    /\ op.at = "unlink" => op.found = head
    /\ op.at = "before" => op.ebx \in Listed
    /\ op.at \in Syncing => op.first \in Listed

OnScreen == \A b \in Listed : node[b].location \in Locations

ListInv ==
    /\ TypeOK
    /\ Chained
    /\ NoLeak
    /\ cursor \in Listed \cup {NULL}
    /\ Registers
    /\ OnScreen

(* The character an ioctl is about to poke is that of the node, unless a   *)
(* tick has come first.                                                    *)
Chosen ==
    /\ op.at = "addPoke" /\ op.found \notin raced => node[op.found].status = 1
    /\ op.at = "syncPoke" /\ op.found \notin raced => node[op.found].status = op.char

(* The nodes that the running tick has counted down.                       *)
Passed(b) == cursor # NULL /\ \E i, j \in DOMAIN order : i < j /\ order[i] = b /\ order[j] = cursor

(* The timing of a node after its turn in a tick, if it has not had it yet. *)
Flips(b) == CountedDown(b) = 0
After(b) ==
    IF Flips(b) THEN <<node[b].on, node[b].off, Length(b, 1 - node[b].status), 1 - node[b].status>>
    ELSE <<node[b].on, node[b].off, CountedDown(b), node[b].status>>

(* Both nodes of a sync have had their turn in the running tick, or        *)
(* neither has, and they are alike; or one is what the other will be.      *)
Together == Passed(op.first) <=> Passed(op.found)
Ahead(a, b) == Passed(a) /\ ~Passed(b)

LengthsCopied == node[op.first].on = node[op.found].on /\ node[op.first].off = node[op.found].off

CountCopied ==
    /\ Together => node[op.first].countdown = node[op.found].countdown
    /\ Ahead(op.first, op.found) =>
         ~Flips(op.found) /\ node[op.first].countdown = CountedDown(op.found)
    /\ Ahead(op.found, op.first) =>
         Flips(op.first) \/ node[op.found].countdown = CountedDown(op.first)

InStep ==
    /\ Together => Timing(op.first) = Timing(op.found)
    /\ Ahead(op.first, op.found) => Timing(op.first) = After(op.found)
    /\ Ahead(op.found, op.first) => Timing(op.found) = After(op.first)

StepInv ==
    /\ op.at \in Syncing \ {"syncLengths"} => LengthsCopied
    /\ op.at = "syncStatus" /\ ~op.parted => CountCopied
    /\ op.at \in {"syncChar", "syncPoke"} /\ ~op.parted => InStep

----------------------------------------------------------------------------
(* The list. *)

LEMMA LinkFacts == NULL \notin Blocks /\ Wild \notin Links
BY BlockAssumption DEF Links

LEMMA FreshFree == Free # {} => Fresh \in Blocks /\ Fresh \notin alloc
BY DEF Free, Fresh

\* The sequence of listed nodes with one more in front.
LEMMA Pushed ==
  ASSUME NEW s \in Seq(Blocks), NEW b \in Blocks
  PROVE  /\ <<b>> \o s \in Seq(Blocks)
         /\ Len(<<b>> \o s) = Len(s) + 1
         /\ \A i \in 1 .. Len(s) + 1 : (<<b>> \o s)[i] = IF i = 1 THEN b ELSE s[i - 1]
<1>. DEFINE t == <<b>>
<1>1. t \in Seq(Blocks) /\ Len(t) = 1 /\ t[1] = b
  OBVIOUS
<1>. HIDE DEF t
<1>2. /\ t \o s \in Seq(Blocks)
      /\ Len(t \o s) = Len(t) + Len(s)
      /\ \A i \in 1 .. Len(t) + Len(s) : (t \o s)[i] = IF i <= Len(t) THEN t[i] ELSE s[i - Len(t)]
  BY <1>1, ConcatProperties
<1>3. Len(s) \in Nat
  BY LenProperties
<1>4. Len(t \o s) = Len(s) + 1
  BY <1>1, <1>2, <1>3
<1>5. ASSUME NEW i \in 1 .. Len(s) + 1
      PROVE  (t \o s)[i] = IF i = 1 THEN b ELSE s[i - 1]
  <2>1. (t \o s)[i] = IF i <= 1 THEN t[i] ELSE s[i - 1]
    BY <1>1, <1>2, <1>3
  <2>. QED
    BY <1>1, <1>3, <2>1
<1>. QED
  BY <1>2, <1>4, <1>5 DEF t

\* And with the k-th taken out.
LEMMA TakenOut ==
  ASSUME NEW s \in Seq(Blocks), NEW k \in 1 .. Len(s),
         \A i, j \in 1 .. Len(s) : s[i] = s[j] => i = j
  PROVE  /\ Without(s, s[k]) \in Seq(Blocks)
         /\ Len(Without(s, s[k])) = Len(s) - 1
         /\ \A i \in 1 .. Len(s) - 1 : Without(s, s[k])[i] = IF i < k THEN s[i] ELSE s[i + 1]
<1>1. Len(s) \in Nat /\ Len(s) - 1 \in Nat
  BY LenProperties
<1>2. ASSUME NEW i \in 1 .. Len(s) - 1
      PROVE  Without(s, s[k])[i] = IF i < k THEN s[i] ELSE s[i + 1]
  <2>1. i \in 1 .. Len(s)
    BY <1>1
  <2>2. (\E j \in 1 .. i : s[j] = s[k]) <=> k <= i
    BY <1>1, <2>1
  <2>. QED
    BY <1>1, <2>1, <2>2 DEF Without
<1>3. \A i \in 1 .. Len(s) - 1 : Without(s, s[k])[i] \in Blocks
  <2>. SUFFICES ASSUME NEW i \in 1 .. Len(s) - 1
                PROVE  Without(s, s[k])[i] \in Blocks
    OBVIOUS
  <2>1. i \in 1 .. Len(s) /\ i + 1 \in 1 .. Len(s)
    BY <1>1
  <2>2. s[i] \in Blocks /\ s[i + 1] \in Blocks
    BY <2>1, ElementOfSeq
  <2>. QED
    BY <1>2, <2>2
<1>4. Without(s, s[k]) \in [1 .. Len(s) - 1 -> Blocks]
  BY <1>3 DEF Without
<1>5. Without(s, s[k]) \in Seq(Blocks)
  BY <1>1, <1>4, IsASeq DEF Without
<1>6. Len(Without(s, s[k])) = Len(s) - 1
  BY <1>1, <1>4, <1>5, LenProperties
<1>. QED
  BY <1>2, <1>5, <1>6

\* Listed nodes are memory of their own, and links lead to listed nodes.
LEMMA ListFacts ==
  ASSUME ListInv
  PROVE  /\ Listed \subseteq Blocks /\ Listed \subseteq alloc /\ NULL \notin Listed
         /\ head \in Listed \cup {NULL}
         /\ \A b \in Listed : node[b].next \in Listed \cup {NULL}
<1>1. DOMAIN order = 1 .. Len(order) /\ Len(order) \in Nat
  BY LenProperties DEF ListInv, TypeOK
<1>2. \A i \in 1 .. Len(order) : order[i] \in Blocks
  BY ElementOfSeq DEF ListInv, TypeOK
<1>3. Listed \subseteq Blocks /\ NULL \notin Listed
  BY <1>1, <1>2, LinkFacts DEF Listed
<1>4. Listed \subseteq alloc
  BY DEF ListInv, NoLeak
<1>5. head \in Listed \cup {NULL}
  <2>1. CASE order = <<>>
    BY <2>1 DEF ListInv, Chained
  <2>2. CASE order # <<>>
    <3>1. Len(order) # 0
      BY <2>2, EmptySeq DEF ListInv, TypeOK
    <3>. QED
      BY <1>1, <2>2, <3>1 DEF ListInv, Chained, Listed
  <2>. QED
    BY <2>1, <2>2
<1>6. ASSUME NEW b \in Listed
      PROVE  node[b].next \in Listed \cup {NULL}
  <2>1. PICK i \in DOMAIN order : order[i] = b
    BY DEF Listed
  <2>2. node[b].next = IF i = Len(order) THEN NULL ELSE order[i + 1]
    BY <2>1 DEF ListInv, Chained
  <2>3. i # Len(order) => i + 1 \in DOMAIN order
    BY <1>1
  <2>. QED
    BY <2>2, <2>3 DEF Listed
<1>. QED
  BY <1>3, <1>4, <1>5, <1>6

\* A step that neither links nor takes out a node keeps the list.
LEMMA QuietList ==
  ASSUME Chained, OnScreen, UNCHANGED <<head, order>>,
         \A b \in Listed : node'[b].next = node[b].next /\ node'[b].location = node[b].location
  PROVE  Chained' /\ OnScreen' /\ Listed' = Listed
<1>1. Listed' = Listed
  BY DEF Listed
<1>2. \A i \in DOMAIN order : order[i] \in Listed
  BY DEF Listed
<1>. QED
  BY <1>1, <1>2 DEF Chained, OnScreen

LEMMA InitList == Init => ListInv /\ Chosen /\ StepInv
<1>. SUFFICES ASSUME Init PROVE ListInv /\ Chosen /\ StepInv
  OBVIOUS
<1>1. /\ \A b \in Blocks : node[b] \in Structs
      /\ node \in [Blocks -> Structs]
  BY LengthAssumption DEF Init, Junk, Filled, Structs, Links
<1>2. op \in Ops
  BY DEF Init, NoOp, Ops, Places, Links
<1>3. screen \in [Locations -> [of : Links, status : {0, 1}]]
  BY DEF Init, Blank, Links
<1>4. order = <<>> /\ order \in Seq(Blocks) /\ DOMAIN order = {} /\ Listed = {}
  BY EmptySeq DEF Init, Listed
<1>5. TypeOK
  BY <1>1, <1>2, <1>3, <1>4 DEF Init, TypeOK, Links
<1>6. Chained /\ OnScreen
  BY <1>4 DEF Chained, OnScreen, Init
<1>7. NoLeak /\ Registers /\ Chosen /\ StepInv
  BY <1>4 DEF NoLeak, Held, Registers, Chosen, StepInv, Syncing, Init, NoOp
<1>. QED
  BY <1>4, <1>5, <1>6, <1>7 DEF ListInv, Init

----------------------------------------------------------------------------
(* Every step keeps the list: first the steps that move an ioctl on.       *)

LEMMA QuietOp ==
  ASSUME ListInv, UNCHANGED <<node, alloc, head, screen, order, cursor>>, raced' \subseteq raced,
         op' \in Ops, Held' = Held, Registers'
  PROVE  ListInv'
<1>1. Chained' /\ OnScreen' /\ Listed' = Listed
  BY QuietList DEF ListInv
<1>2. TypeOK'
  BY DEF ListInv, TypeOK
<1>. QED
  BY <1>1, <1>2 DEF ListInv, NoLeak

\* The registers of a search that has begun.
LEMMA SearchList ==
  ASSUME ListInv, NEW cmd \in {"remove", "sync"}, NEW l \in Locations, NEW l2 \in Locations,
         op.at = "none", op' = Search(cmd, l, l2, NULL),
         UNCHANGED <<node, alloc, head, screen, order, cursor, raced>>
  PROVE  ListInv'
<1>1. op' \in Ops
  BY DEF ListInv, TypeOK, Search, NoOp, Ops, Places, Links
<1>2. /\ op'.at = "walk" /\ op'.cmd = cmd /\ op'.ebx = head /\ op'.temp = NULL
      /\ op'.first = NULL
  BY DEF Search, NoOp
<1>3. Held' = Held
  BY <1>2 DEF ListInv, Registers, Held
<1>4. Listed' = Listed
  BY DEF Listed
<1>5. Registers'
  BY <1>2, <1>4, ListFacts DEF Registers, Syncing
<1>. QED
  BY <1>1, <1>3, <1>5, QuietOp

LEMMA WalkList ==
  ASSUME ListInv, Walk, UNCHANGED cursor
  PROVE  ListInv'
<1>1. op \in Ops /\ op.at = "walk" /\ op.cmd \in {"remove", "find", "sync"}
      /\ op.ebx \in Listed \cup {NULL} /\ (op.temp # NULL <=> op.cmd = "find")
      /\ op.first \in Listed \cup {NULL}
      /\ UNCHANGED <<node, alloc, head, screen, order, cursor, raced>>
  BY DEF ListInv, TypeOK, Registers, Walk
<1>2. Listed' = Listed /\ Listed \subseteq Blocks /\ NULL \notin Listed
      /\ head \in Listed \cup {NULL}
  BY <1>1, ListFacts DEF Listed
<1>3. Held = {op.temp} \ {NULL}
  BY <1>1 DEF Held
<1>4. CASE op.ebx = NULL
  <2>1. op' = NotFound
    BY <1>4 DEF Walk
  <2>2. CASE op.temp = NULL
    <3>1. op' = NoOp
      BY <2>1, <2>2 DEF NotFound
    <3>2. op' \in Ops /\ Held' = {}
      BY <3>1 DEF NoOp, Ops, Places, Links, Held
    <3>3. Registers'
      BY <3>1 DEF NoOp, Registers, Syncing
    <3>. QED
      BY <1>1, <1>3, <2>2, <3>2, <3>3, QuietOp
  <2>3. CASE op.temp # NULL
    <3>1. op' = [op EXCEPT !.at = "freeTemp"]
      BY <2>1, <2>3 DEF NotFound, Goto
    <3>2. op' \in Ops /\ op'.at = "freeTemp" /\ op'.temp = op.temp
      BY <1>1, <3>1 DEF Ops, Places
    <3>3. Registers' /\ Held' = Held
      BY <1>3, <2>3, <3>2 DEF Registers, Syncing, Held
    <3>. QED
      BY <1>1, <3>2, <3>3, QuietOp
  <2>. QED
    BY <2>2, <2>3
<1>5. CASE op.ebx # NULL /\ node[op.ebx].location # op.target
  <2>1. op' = [op EXCEPT !.ebx = node[op.ebx].next]
    BY <1>5 DEF Walk
  <2>2. node[op.ebx].next \in Listed \cup {NULL}
    BY <1>1, <1>5, ListFacts
  <2>3. op' \in Ops /\ op'.ebx \in Listed \cup {NULL}
        /\ op'.at = op.at /\ op'.cmd = op.cmd /\ op'.temp = op.temp /\ op'.first = op.first
    BY <1>1, <1>2, <2>1, <2>2 DEF Ops, Links
  <2>4. Registers' /\ Held' = Held
    BY <1>1, <1>2, <1>3, <2>3 DEF Registers, Syncing, Held
  <2>. QED
    BY <1>1, <2>3, <2>4, QuietOp
<1>6. CASE op.ebx # NULL /\ node[op.ebx].location = op.target
  <2>. DEFINE b == op.ebx
  <2>1. b \in Listed /\ b \in Blocks /\ op' = Found(b)
    BY <1>1, <1>2, <1>6 DEF Walk
  <2>2. CASE op.cmd = "remove" /\ b = head
    <3>1. op' = [op EXCEPT !.at = "unlink", !.found = b]
      BY <2>1, <2>2 DEF Found
    <3>2. op' \in Ops /\ op'.at = "unlink" /\ op'.found = b /\ op'.temp = op.temp
      BY <1>1, <2>1, <3>1 DEF Ops, Places, Links
    <3>3. Registers' /\ Held' = Held
      BY <1>1, <1>2, <1>3, <2>1, <2>2, <3>2 DEF Registers, Syncing, Held
    <3>. QED
      BY <1>1, <3>2, <3>3, QuietOp
  <2>3. CASE op.cmd = "remove" /\ b # head
    <3>1. op' = [op EXCEPT !.at = "before", !.found = b, !.ebx = head]
      BY <2>1, <2>3 DEF Found
    <3>2. op' \in Ops /\ op'.at = "before" /\ op'.found = b /\ op'.temp = op.temp /\ op'.ebx = head
      BY ZenonT(60), <1>1, <1>2, <2>1, <3>1 DEF Ops, Places, Links
    <3>3. head # NULL
      <4>. SUFFICES ASSUME head = NULL PROVE FALSE
        OBVIOUS
      <4>1. order = <<>>
        <5>. SUFFICES ASSUME order # <<>> PROVE FALSE
          OBVIOUS
        <5>1. Len(order) # 0 /\ DOMAIN order = 1 .. Len(order) /\ Len(order) \in Nat
          BY EmptySeq, LenProperties DEF ListInv, TypeOK
        <5>2. order[1] = NULL /\ order[1] \in Listed
          BY <5>1 DEF Listed, ListInv, Chained
        <5>. QED
          BY <1>2, <5>2
      <4>. QED
        BY <2>1, <4>1 DEF Listed
    <3>4. Registers' /\ Held' = Held
      BY <1>1, <1>2, <1>3, <2>1, <2>3, <3>2, <3>3 DEF Registers, Syncing, Held
    <3>. QED
      BY <1>1, <3>2, <3>4, QuietOp
  <2>4. CASE op.cmd = "find"
    <3>1. op' = [op EXCEPT !.at = "copyOut", !.found = b]
      BY <2>1, <2>4 DEF Found
    <3>2. op' \in Ops /\ op'.at = "copyOut" /\ op'.found = b /\ op'.temp = op.temp
      BY <1>1, <2>1, <3>1 DEF Ops, Places, Links
    <3>3. Registers' /\ Held' = Held
      BY <1>1, <1>2, <1>3, <2>1, <2>4, <3>2 DEF Registers, Syncing, Held
    <3>. QED
      BY <1>1, <3>2, <3>3, QuietOp
  <2>5. CASE op.cmd = "sync" /\ op.first = NULL
    <3>1. op' = [op EXCEPT !.first = b, !.target = op.second, !.ebx = head]
      BY <2>1, <2>5 DEF Found
    <3>2. op' \in Ops /\ op'.at = "walk" /\ op'.cmd = "sync" /\ op'.first = b
          /\ op'.temp = op.temp /\ op'.ebx = head
      BY ZenonT(60), <1>1, <1>2, <2>1, <2>5, <3>1 DEF Ops, Places, Links
    <3>3. Registers' /\ Held' = Held
      BY <1>1, <1>2, <1>3, <2>1, <2>5, <3>2 DEF Registers, Syncing, Held
    <3>. QED
      BY <1>1, <3>2, <3>3, QuietOp
  <2>6. CASE op.cmd = "sync" /\ op.first # NULL
    <3>1. op' = [op EXCEPT !.at = "syncLengths", !.found = b]
      BY <2>1, <2>6 DEF Found
    <3>2. op' \in Ops /\ op'.at = "syncLengths" /\ op'.found = b /\ op'.first = op.first
          /\ op'.temp = op.temp
      BY <1>1, <2>1, <3>1 DEF Ops, Places, Links
    <3>3. Registers' /\ Held' = Held
      BY <1>1, <1>2, <1>3, <2>1, <2>6, <3>2 DEF Registers, Syncing, Held
    <3>. QED
      BY <1>1, <3>2, <3>3, QuietOp
  <2>. QED
    BY <1>1, <2>2, <2>3, <2>4, <2>5, <2>6
<1>. QED
  BY <1>4, <1>5, <1>6

\* The other steps that only move an ioctl on.
LEMMA MoveList ==
  ASSUME ListInv, UNCHANGED cursor, StepBefore \/ CopyOut \/ SyncChar
  PROVE  ListInv'
<1>1. op \in Ops /\ UNCHANGED <<node, alloc, head, screen, order, cursor>>
  BY DEF ListInv, TypeOK, StepBefore, CopyOut, SyncChar
<1>2. Listed' = Listed /\ Listed \subseteq Blocks /\ NULL \notin Listed
  BY <1>1, ListFacts DEF Listed
<1>3. CASE StepBefore
  <2>1. op.at = "before" /\ op.ebx \in Listed /\ op.found \in Listed /\ op.temp = NULL
        /\ raced' = raced
    BY <1>3 DEF StepBefore, ListInv, Registers
  <2>2. CASE node[op.ebx].next = NULL
    <3>1. op' = NoOp
      BY <1>3, <2>2 DEF StepBefore
    <3>2. op' \in Ops /\ Held' = Held
      BY <2>1, <3>1 DEF NoOp, Ops, Places, Links, Held
    <3>3. Registers'
      BY <3>1 DEF NoOp, Registers, Syncing
    <3>. QED
      BY <1>1, <2>1, <3>2, <3>3, QuietOp
  <2>3. CASE node[op.ebx].next # NULL
    <3>1. op' = [op EXCEPT !.ebx = node[op.ebx].next]
      BY <1>3, <2>3 DEF StepBefore
    <3>2. node[op.ebx].next \in Listed
      BY <2>1, <2>3, ListFacts
    <3>3. op' \in Ops /\ op'.at = "before" /\ op'.ebx \in Listed /\ op'.found = op.found
          /\ op'.temp = NULL
      BY <1>1, <1>2, <2>1, <3>1, <3>2 DEF Ops, Links
    <3>4. Registers' /\ Held' = Held
      BY <1>2, <2>1, <3>3 DEF Registers, Syncing, Held
    <3>. QED
      BY <1>1, <2>1, <3>3, <3>4, QuietOp
  <2>. QED
    BY <2>2, <2>3
<1>4. CASE CopyOut
  <2>1. op.at = "copyOut" /\ op' = [op EXCEPT !.at = "freeTemp"] /\ op.temp # NULL
        /\ raced' = raced
    BY <1>4 DEF CopyOut, Goto, ListInv, Registers
  <2>2. op' \in Ops /\ op'.at = "freeTemp" /\ op'.temp = op.temp
    BY <1>1, <2>1 DEF Ops, Places
  <2>3. Registers' /\ Held' = Held
    BY <2>1, <2>2 DEF Registers, Syncing, Held
  <2>. QED
    BY <1>1, <2>1, <2>2, <2>3, QuietOp
<1>5. CASE SyncChar
  <2>1. op.at = "syncChar" /\ op' = [op EXCEPT !.at = "syncPoke", !.char = CharOf(op.found)]
        /\ raced' \subseteq raced /\ CharOf(op.found) \in {0, 1}
        /\ op.first \in Listed /\ op.found \in Listed /\ op.temp = NULL
    BY <1>5 DEF SyncChar, CharOf, ListInv, Registers, Syncing
  <2>2. op' \in Ops /\ op'.at = "syncPoke" /\ op'.temp = NULL /\ op'.first = op.first
        /\ op'.found = op.found
    BY <1>1, <2>1 DEF Ops, Places
  <2>3. Registers' /\ Held' = Held
    BY <1>2, <2>1, <2>2 DEF Registers, Syncing, Held
  <2>. QED
    BY <1>1, <2>1, <2>2, <2>3, QuietOp
<1>. QED
  BY <1>3, <1>4, <1>5

\* The pokes: they end their ioctl.
LEMMA PokeList ==
  ASSUME ListInv, AddPoke \/ SyncPoke, UNCHANGED cursor
  PROVE  ListInv'
<1>1. op \in Ops /\ op.at \in {"addPoke", "syncPoke"} /\ op' = NoOp /\ op.found \in Listed
      /\ op.temp = NULL /\ UNCHANGED <<node, alloc, head, order, raced>>
  BY DEF ListInv, TypeOK, Registers, Syncing, AddPoke, SyncPoke
<1>2. op' \in Ops /\ Held' = Held
  BY <1>1 DEF NoOp, Ops, Places, Links, Held
<1>3. Registers'
  BY <1>1 DEF NoOp, Registers, Syncing
<1>4. PICK s \in {0, 1} : Poke(node[op.found].location, op.found, s)
  BY <1>1 DEF AddPoke, SyncPoke, Ops
<1>5. op.found \in Links
  BY <1>1, ListFacts DEF Links
<1>6. screen' \in [Locations -> [of : Links, status : {0, 1}]]
  BY <1>4, <1>5 DEF Poke, ListInv, TypeOK
<1>7. TypeOK'
  BY <1>1, <1>2, <1>6 DEF ListInv, TypeOK
<1>8. Chained' /\ OnScreen' /\ Listed' = Listed
  BY <1>1, QuietList DEF ListInv
<1>. QED
  BY <1>1, <1>2, <1>3, <1>7, <1>8 DEF ListInv, NoLeak

----------------------------------------------------------------------------
(* The steps that change a node of the list, but no link. *)

LEMMA QuietNode ==
  ASSUME ListInv, UNCHANGED <<alloc, head, order>>,
         node' \in [Blocks -> Structs], screen' \in [Locations -> [of : Links, status : {0, 1}]],
         raced' \subseteq Blocks, cursor' \in Listed \cup {NULL},
         \A b \in Listed : node'[b].next = node[b].next /\ node'[b].location = node[b].location,
         op' \in Ops, Held' = Held, Registers'
  PROVE  ListInv'
<1>1. Chained' /\ OnScreen' /\ Listed' = Listed
  BY QuietList DEF ListInv
<1>2. cursor' \in Links
  BY ListFacts DEF Links
<1>3. TypeOK'
  BY <1>2 DEF ListInv, TypeOK
<1>. QED
  BY <1>1, <1>3 DEF ListInv, NoLeak

LEMMA TickList ==
  ASSUME ListInv, Tick
  PROVE  ListInv'
<1>1. cursor' = head /\ UNCHANGED <<node, alloc, head, screen, order, op, raced>>
  BY DEF Tick
<1>2. head \in Listed \cup {NULL}
  BY ListFacts
<1>3. Listed' = Listed
  BY <1>1 DEF Listed
<1>4. Held' = Held /\ Registers'
  BY <1>1, <1>3 DEF Held, ListInv, Registers
<1>. QED
  BY <1>1, <1>2, <1>4, QuietNode DEF ListInv, TypeOK

\* What a tick may do to the node it is at.
LEMMA TickNodeFacts ==
  ASSUME ListInv, TickNode
  PROVE  /\ cursor \in Listed /\ cursor' = node[cursor].next /\ node[cursor] \in Structs
         /\ UNCHANGED <<alloc, head, order>>
         /\ \/ /\ Flips(cursor)
               /\ node' = [node EXCEPT ![cursor].status = 1 - node[cursor].status,
                             ![cursor].countdown = Length(cursor, 1 - node[cursor].status)]
               /\ Poke(node[cursor].location, cursor, 1 - node[cursor].status)
               /\ raced' = IF Unpoked(cursor) THEN raced \cup {cursor} ELSE raced \ {cursor}
               /\ op' = [op EXCEPT !.parted = op.parted \/ Parts(cursor)]
            \/ /\ ~Flips(cursor)
               /\ node' = [node EXCEPT ![cursor].countdown = CountedDown(cursor)]
               /\ UNCHANGED <<screen, raced, op>>
<1>1. cursor \in Blocks /\ cursor \in Listed
  BY LinkFacts DEF TickNode, ListInv
<1>2. node[cursor] \in Structs
  BY <1>1 DEF ListInv, TypeOK
<1>3. node[cursor].status \in {0, 1}
  BY <1>2 DEF Structs
<1>4. op \in Ops
  BY DEF ListInv, TypeOK
<1>. QED
  BY <1>1, <1>2, <1>3, <1>4 DEF TickNode, Flips

LEMMA TickNodeList ==
  ASSUME ListInv, TickNode
  PROVE  ListInv'
<1>. DEFINE c == cursor
<1>1. /\ c \in Listed /\ c \in Blocks /\ cursor' = node[c].next /\ node[c] \in Structs
      /\ UNCHANGED <<alloc, head, order>>
  BY TickNodeFacts, ListFacts
<1>2. cursor' \in Listed \cup {NULL}
  BY <1>1, ListFacts
<1>3. node[c].location \in Locations
  BY <1>1 DEF ListInv, OnScreen
<1>4. /\ CountedDown(c) \in 0 .. Width - 1
      /\ \A s \in {0, 1} : Length(c, s) \in 0 .. Width - 1
  BY <1>1, LengthAssumption DEF CountedDown, Length, Structs
<1>5. 1 - node[c].status \in {0, 1}
  BY <1>1 DEF Structs
<1>6. op \in Ops /\ raced \subseteq Blocks /\ node \in [Blocks -> Structs]
      /\ screen \in [Locations -> [of : Links, status : {0, 1}]]
  BY DEF ListInv, TypeOK
<1>7. CASE /\ node' = [node EXCEPT ![c].status = 1 - node[c].status,
                                   ![c].countdown = Length(c, 1 - node[c].status)]
           /\ Poke(node[c].location, c, 1 - node[c].status)
           /\ raced' = IF Unpoked(c) THEN raced \cup {c} ELSE raced \ {c}
           /\ op' = [op EXCEPT !.parted = op.parted \/ Parts(c)]
  <2>. DEFINE s == 1 - node[c].status
              n == Length(c, s)
  <2>1. s \in {0, 1} /\ n \in 0 .. Width - 1
    BY <1>4, <1>5
  <2>. HIDE DEF s, n
  <2>2. node' = [node EXCEPT ![c].status = s, ![c].countdown = n]
    BY <1>7 DEF s, n
  <2>3. node' \in [Blocks -> Structs]
    BY <1>1, <1>6, <2>1, <2>2 DEF Structs
  <2>4. \A b \in Blocks : node'[b].next = node[b].next /\ node'[b].location = node[b].location
    BY <1>1, <1>6, <2>2 DEF Structs
  <2>5. screen' = [screen EXCEPT ![node[c].location] = [of |-> c, status |-> s]]
    BY <1>7 DEF Poke, s
  <2>6. screen' \in [Locations -> [of : Links, status : {0, 1}]]
    BY <1>1, <1>3, <1>6, <2>1, <2>5 DEF Links
  <2>7. raced' \subseteq Blocks
    BY <1>1, <1>6, <1>7
  <2>8. (op.parted \/ Parts(c)) \in BOOLEAN
    BY <1>6 DEF Parts, Ops
  <2>9. /\ op' \in Ops
        /\ op'.at = op.at /\ op'.cmd = op.cmd /\ op'.temp = op.temp /\ op'.ebx = op.ebx
        /\ op'.found = op.found /\ op'.first = op.first
    BY <1>6, <1>7, <2>8 DEF Ops
  <2>10. Held' = Held
    BY <2>9 DEF Held
  <2>11. Registers'
    <3>1. Listed' = Listed /\ head' = head
      BY <1>1 DEF Listed
    <3>2. op.at = "addLink" => op.found \in Blocks /\ op.found \notin Listed
      BY <1>6, LinkFacts DEF ListInv, Registers, NoLeak, Held, Ops, Links
    <3>3. op.at = "addLink" => node'[op.found].location = node[op.found].location
      BY <1>1, <1>6, <2>2, <3>2
    <3>. QED
      BY <2>9, <3>1, <3>3 DEF ListInv, Registers
  <2>. QED
    BY <1>1, <1>2, <2>3, <2>4, <2>6, <2>7, <2>9, <2>10, <2>11, ListFacts, QuietNode
<1>8. CASE /\ node' = [node EXCEPT ![c].countdown = CountedDown(c)]
           /\ UNCHANGED <<screen, raced, op>>
  <2>1. node' \in [Blocks -> Structs]
    BY <1>1, <1>4, <1>6, <1>8 DEF Structs
  <2>2. \A b \in Blocks : node'[b].next = node[b].next /\ node'[b].location = node[b].location
    BY <1>1, <1>6, <1>8 DEF Structs
  <2>3. Held' = Held
    BY <1>8 DEF Held
  <2>4. Registers'
    <3>1. Listed' = Listed /\ head' = head
      BY <1>1 DEF Listed
    <3>2. op.at = "addLink" => op.found \in Blocks
      BY <1>6 DEF ListInv, Registers, Ops, Links
    <3>. QED
      BY <1>8, <2>2, <3>1, <3>2 DEF ListInv, Registers
  <2>. QED
    BY <1>1, <1>2, <1>6, <1>8, <2>1, <2>2, <2>3, <2>4, ListFacts, QuietNode
<1>. QED
  BY <1>7, <1>8, TickNodeFacts

\* The copies of a sync.
LEMMA CopyList ==
  ASSUME ListInv, UNCHANGED cursor, SyncLengths \/ SyncCountdown \/ SyncStatus
  PROVE  ListInv'
<1>. DEFINE f == op.found
            i == op.first
<1>1. /\ op \in Ops /\ op.at \in {"syncLengths", "syncCountdown", "syncStatus"}
      /\ f \in Listed /\ i \in Listed /\ op.temp = NULL
      /\ UNCHANGED <<alloc, head, screen, order, raced>>
  BY DEF ListInv, TypeOK, Registers, Syncing, SyncLengths, SyncCountdown, SyncStatus
<1>2. f \in Blocks /\ i \in Blocks /\ node \in [Blocks -> Structs] /\ cursor \in Listed \cup {NULL}
      /\ screen \in [Locations -> [of : Links, status : {0, 1}]] /\ raced \subseteq Blocks
  BY <1>1, ListFacts DEF ListInv, TypeOK
<1>3. node[i] \in Structs /\ node[f] \in Structs
  BY <1>2
<1>4. PICK p \in {"syncCountdown", "syncStatus", "syncChar"} : op' = Goto(p)
  BY DEF SyncLengths, SyncCountdown, SyncStatus
<1>5. op' \in Ops /\ op'.at = p /\ op'.found = f /\ op'.first = i /\ op'.temp = NULL
  BY <1>1, <1>4 DEF Goto, Ops, Places
<1>6. Listed' = Listed
  BY <1>1 DEF Listed
<1>7. Registers' /\ Held' = Held
  BY <1>1, <1>5, <1>6 DEF Registers, Syncing, Held
<1>8. /\ node' \in [Blocks -> Structs]
      /\ \A b \in Blocks : node'[b].next = node[b].next /\ node'[b].location = node[b].location
  <2>1. CASE SyncLengths
    <3>1. node' = [node EXCEPT ![f].on = node[i].on, ![f].off = node[i].off]
      BY <2>1 DEF SyncLengths
    <3>. QED
      BY <1>2, <1>3, <3>1 DEF Structs
  <2>2. CASE SyncCountdown
    <3>1. node' = [node EXCEPT ![f].countdown = node[i].countdown]
      BY <2>2 DEF SyncCountdown, CopiedCount
    <3>. QED
      BY <1>2, <1>3, <3>1 DEF Structs
  <2>3. CASE SyncStatus
    <3>1. node' = [node EXCEPT ![f].status = node[i].status]
      BY <2>3 DEF SyncStatus
    <3>. QED
      BY <1>2, <1>3, <3>1 DEF Structs
  <2>. QED
    BY <2>1, <2>2, <2>3
<1>. QED
  BY <1>1, <1>2, <1>5, <1>7, <1>8, ListFacts, QuietNode

----------------------------------------------------------------------------
(* The steps that take memory, link it, take it out and give it back. *)

LEMMA CopyInFacts ==
  ASSUME ListInv, NEW l \in Locations \cup {BadLocation}, NEW on \in 0 .. Width - 1,
         NEW off \in 0 .. Width - 1, CopyIn(l, on, off)
  PROVE  /\ Fresh \in Blocks /\ Fresh \notin alloc /\ alloc' = alloc \cup {Fresh}
         /\ node' \in [Blocks -> Structs] /\ node'[Fresh].location = l
         /\ \A b \in Blocks : b # Fresh => node'[b] = node[b]
<1>1. Fresh \in Blocks /\ Fresh \notin alloc
  BY FreshFree DEF CopyIn
<1>2. Filled(l, on, off) \in Structs /\ Filled(l, on, off).location = l
  BY LengthAssumption DEF Filled, Structs, Links
<1>. QED
  BY <1>1, <1>2 DEF CopyIn, ListInv, TypeOK

LEMMA CallList ==
  ASSUME ListInv, UNCHANGED cursor, AddCall \/ AddFails \/ FindCall \/ FindFails
  PROVE  ListInv'
<1>1. op.at = "none" /\ op \in Ops /\ op.temp = NULL /\ Held = {}
      /\ UNCHANGED <<head, screen, order, raced>>
  BY DEF ListInv, TypeOK, Registers, Held, AddCall, AddFails, FindCall, FindFails
<1>2. PICK l \in Locations \cup {BadLocation}, on \in 0 .. Width - 1, off \in 0 .. Width - 1 :
        /\ CopyIn(l, on, off)
        /\ \/ l \in Locations /\ op' = [NoOp EXCEPT !.at = "addLink", !.cmd = "add", !.found = Fresh]
           \/ op' = [NoOp EXCEPT !.at = "freeTemp", !.cmd = "add", !.temp = Fresh]
           \/ l \in Locations /\ op' = Search("find", l, l, Fresh)
           \/ op' = [NoOp EXCEPT !.at = "freeTemp", !.cmd = "find", !.temp = Fresh]
  <2>1. 0 \in 0 .. Width - 1
    BY LengthAssumption
  <2>2. CASE AddCall
    BY <2>2, LengthAssumption DEF AddCall
  <2>3. CASE AddFails
    BY <2>1, <2>3 DEF AddFails
  <2>4. CASE FindCall
    BY <2>1, <2>4 DEF FindCall
  <2>5. CASE FindFails
    BY <2>1, <2>5 DEF FindFails
  <2>. QED
    BY <2>2, <2>3, <2>4, <2>5
<1>3. /\ Fresh \in Blocks /\ Fresh \notin alloc /\ Fresh # NULL /\ alloc' = alloc \cup {Fresh}
      /\ node' \in [Blocks -> Structs] /\ node'[Fresh].location = l
      /\ \A b \in Blocks : b # Fresh => node'[b] = node[b]
  BY <1>2, CopyInFacts, LinkFacts
<1>4. Listed \subseteq Blocks /\ Fresh \notin Listed /\ head \in Listed \cup {NULL}
  BY <1>3, ListFacts
<1>5. Chained' /\ OnScreen' /\ Listed' = Listed
  BY <1>1, <1>3, <1>4, QuietList DEF ListInv
<1>6. op' \in Ops /\ Held' = {Fresh} /\ Registers'
  <2>1. CASE l \in Locations /\ op' = [NoOp EXCEPT !.at = "addLink", !.cmd = "add", !.found = Fresh]
    <3>1. op' \in Ops /\ op'.at = "addLink" /\ op'.found = Fresh /\ op'.temp = NULL
      BY <1>3, <2>1 DEF NoOp, Ops, Places, Links
    <3>. QED
      BY <1>3, <2>1, <3>1 DEF Held, Registers, Syncing
  <2>2. CASE \E cmd \in {"add", "find"} :
               op' = [NoOp EXCEPT !.at = "freeTemp", !.cmd = cmd, !.temp = Fresh]
    <3>1. op' \in Ops /\ op'.at = "freeTemp" /\ op'.temp = Fresh
      BY ZenonT(60), <1>3, <2>2 DEF NoOp, Ops, Places, Links
    <3>. QED
      BY <1>3, <3>1 DEF Held, Registers, Syncing
  <2>3. CASE l \in Locations /\ op' = Search("find", l, l, Fresh)
    <3>1. op' \in Ops /\ op'.at = "walk" /\ op'.cmd = "find" /\ op'.temp = Fresh
          /\ op'.ebx = head /\ op'.first = NULL
      BY ZenonT(60), <1>3, <2>3 DEF Search, NoOp, Ops, Places, Links, ListInv, TypeOK
    <3>. QED
      BY <1>3, <1>4, <1>5, <3>1 DEF Held, Registers, Syncing
  <2>. QED
    BY <1>2, <2>1, <2>2, <2>3
<1>7. NoLeak'
  BY <1>1, <1>3, <1>4, <1>5, <1>6 DEF ListInv, NoLeak
<1>8. TypeOK'
  BY <1>1, <1>3, <1>6 DEF ListInv, TypeOK
<1>. QED
  BY <1>5, <1>6, <1>7, <1>8 DEF ListInv

LEMMA FreeTempList ==
  ASSUME ListInv, FreeTemp, UNCHANGED cursor
  PROVE  ListInv'
<1>1. op.at = "freeTemp" /\ op \in Ops /\ op.temp # NULL /\ op.temp \in Blocks
      /\ Held = {op.temp} /\ op' = NoOp /\ UNCHANGED <<head, screen, order, raced>>
      /\ alloc' = alloc \ {op.temp} /\ node' = [node EXCEPT ![op.temp] = Junk]
  BY DEF FreeTemp, Release, ListInv, TypeOK, Registers, Held, Ops, Links
<1>2. Junk \in Structs
  BY LengthAssumption DEF Junk, Filled, Structs, Links
<1>3. node' \in [Blocks -> Structs] /\ \A b \in Blocks : b # op.temp => node'[b] = node[b]
  BY <1>1, <1>2 DEF ListInv, TypeOK
<1>4. Listed \subseteq Blocks /\ op.temp \notin Listed
  BY <1>1, ListFacts DEF ListInv, NoLeak
<1>5. Chained' /\ OnScreen' /\ Listed' = Listed
  BY <1>1, <1>3, <1>4, QuietList DEF ListInv
<1>6. op' \in Ops /\ Held' = {}
  BY <1>1 DEF NoOp, Ops, Places, Links, Held
<1>7. Registers'
  BY <1>1 DEF NoOp, Registers, Syncing
<1>8. NoLeak'
  BY <1>1, <1>4, <1>5, <1>6 DEF ListInv, NoLeak
<1>9. TypeOK'
  BY <1>1, <1>3, <1>6 DEF ListInv, TypeOK
<1>. QED
  BY <1>5, <1>7, <1>8, <1>9 DEF ListInv

LEMMA FreeFoundList ==
  ASSUME ListInv, FreeFound, UNCHANGED cursor
  PROVE  ListInv'
<1>1. op.at = "freeFound" /\ op \in Ops /\ op.found \in Blocks /\ raced' \subseteq raced
      /\ Held = {op.found} /\ op' = NoOp /\ UNCHANGED <<head, screen, order>>
      /\ alloc' = alloc \ {op.found} /\ node' = [node EXCEPT ![op.found] = Junk]
  BY DEF FreeFound, Release, ListInv, TypeOK, Registers, Held, Ops, Links
<1>2. Junk \in Structs
  BY LengthAssumption DEF Junk, Filled, Structs, Links
<1>3. node' \in [Blocks -> Structs] /\ \A b \in Blocks : b # op.found => node'[b] = node[b]
  BY <1>1, <1>2 DEF ListInv, TypeOK
<1>4. Listed \subseteq Blocks /\ op.found \notin Listed
  BY <1>1, ListFacts DEF ListInv, NoLeak
<1>5. Chained' /\ OnScreen' /\ Listed' = Listed
  BY <1>1, <1>3, <1>4, QuietList DEF ListInv
<1>6. op' \in Ops /\ Held' = {}
  BY <1>1 DEF NoOp, Ops, Places, Links, Held
<1>7. Registers'
  BY <1>1 DEF NoOp, Registers, Syncing
<1>8. NoLeak'
  BY <1>1, <1>4, <1>5, <1>6 DEF ListInv, NoLeak
<1>9. TypeOK'
  BY <1>1, <1>3, <1>6 DEF ListInv, TypeOK
<1>. QED
  BY <1>5, <1>7, <1>8, <1>9 DEF ListInv

\* A node linked in front of the list.
LEMMA LinkChain ==
  ASSUME ListInv, NEW f \in Blocks \ Listed, node[f].location \in Locations,
         head' = f, order' = <<f>> \o order, node'[f].next = head,
         \A b \in Listed : node'[b].next = node[b].next,
         \A b \in Listed \cup {f} : node'[b].location = node[b].location
  PROVE  Chained' /\ OnScreen' /\ Listed' = Listed \cup {f} /\ order' \in Seq(Blocks)
<1>. DEFINE n == Len(order)
<1>1. order \in Seq(Blocks) /\ n \in Nat /\ DOMAIN order = 1 .. n
  BY LenProperties DEF ListInv, TypeOK
<1>2. /\ order' \in Seq(Blocks) /\ Len(order') = n + 1
      /\ \A i \in 1 .. n + 1 : order'[i] = IF i = 1 THEN f ELSE order[i - 1]
  BY <1>1, Pushed
<1>3. DOMAIN order' = 1 .. n + 1
  BY <1>2, LenProperties
<1>4. /\ \A i, j \in 1 .. n : order[i] = order[j] => i = j
      /\ head = IF order = <<>> THEN NULL ELSE order[1]
      /\ \A i \in 1 .. n : node[order[i]].next = IF i = n THEN NULL ELSE order[i + 1]
      /\ \A i \in 1 .. n : order[i] \in Listed
  BY <1>1 DEF ListInv, Chained, Listed
<1>5. \A i \in 1 .. n : order[i] # f
  BY <1>4
<1>6. head = IF n = 0 THEN NULL ELSE order[1]
  BY <1>1, <1>4, EmptySeq
<1>. HIDE DEF n
<1>7. Listed' = Listed \cup {f}
  <2>1. Listed = {order[i] : i \in 1 .. n} /\ Listed' = {order'[i] : i \in 1 .. n + 1}
    BY <1>1, <1>3 DEF Listed
  <2>2. ASSUME NEW b \in Listed' PROVE b \in Listed \cup {f}
    <3>1. PICK i \in 1 .. n + 1 : b = order'[i]
      BY <2>1
    <3>2. i # 1 => i - 1 \in 1 .. n
      BY <1>1
    <3>. QED
      BY <1>2, <1>4, <3>1, <3>2
  <2>3. ASSUME NEW b \in Listed PROVE b \in Listed'
    <3>1. PICK i \in 1 .. n : b = order[i]
      BY <2>1
    <3>2. i + 1 \in 1 .. n + 1 /\ i + 1 # 1 /\ (i + 1) - 1 = i
      BY <1>1
    <3>3. order'[i + 1] = b
      BY <1>2, <3>1, <3>2
    <3>. QED
      BY <2>1, <3>2, <3>3
  <2>4. f \in Listed'
    <3>1. 1 \in 1 .. n + 1 /\ order'[1] = f
      BY <1>1, <1>2
    <3>. QED
      BY <2>1, <3>1
  <2>. QED
    BY <2>2, <2>3, <2>4
<1>8. \A i, j \in 1 .. n + 1 : order'[i] = order'[j] => i = j
  <2>. SUFFICES ASSUME NEW i \in 1 .. n + 1, NEW j \in 1 .. n + 1, order'[i] = order'[j]
                PROVE  i = j
    OBVIOUS
  <2>1. (i # 1 => i - 1 \in 1 .. n) /\ (j # 1 => j - 1 \in 1 .. n)
    BY <1>1
  <2>2. CASE i = 1 \/ j = 1
    BY <1>2, <1>5, <2>1, <2>2
  <2>3. CASE i # 1 /\ j # 1
    <3>1. order[i - 1] = order[j - 1] /\ i - 1 \in 1 .. n /\ j - 1 \in 1 .. n
      BY <1>2, <2>1, <2>3
    <3>2. i - 1 = j - 1
      BY <1>4, <3>1
    <3>. QED
      BY <3>2
  <2>. QED
    BY <2>2, <2>3
<1>9. ASSUME NEW i \in 1 .. n + 1
      PROVE  node'[order'[i]].next = IF i = n + 1 THEN NULL ELSE order'[i + 1]
  <2>1. CASE i = 1
    <3>1. order'[i] = f /\ node'[f].next = head
      BY <1>2, <2>1
    <3>2. n # 0 => 2 \in 1 .. n + 1 /\ order'[2] = order[1]
      BY <1>1, <1>2
    <3>. QED
      BY <1>1, <1>6, <2>1, <3>1, <3>2
  <2>2. CASE i # 1
    <3>1. i - 1 \in 1 .. n /\ order'[i] = order[i - 1]
      BY <1>1, <1>2, <2>2
    <3>2. node'[order[i - 1]].next = IF i - 1 = n THEN NULL ELSE order[(i - 1) + 1]
      BY <1>4, <3>1
    <3>3. i # n + 1 => i + 1 \in 1 .. n + 1 /\ i + 1 # 1 /\ order'[i + 1] = order[(i + 1) - 1]
      BY <1>1, <1>2
    <3>. QED
      BY <1>1, <3>1, <3>2, <3>3
  <2>. QED
    BY <2>1, <2>2
<1>10. order' # <<>> /\ head' = order'[1]
  <2>1. Len(order') # 0 /\ 1 \in 1 .. n + 1
    BY <1>1, <1>2
  <2>. QED
    BY <1>2, <2>1, EmptySeq
<1>11. Chained'
  BY ZenonT(60), <1>2, <1>3, <1>8, <1>9, <1>10 DEF Chained
<1>. QED
  BY <1>2, <1>7, <1>11 DEF ListInv, OnScreen

\* The k-th node taken out of the list: of the head, or of the node before it.
LEMMA UnlinkChain ==
  ASSUME ListInv, NEW k \in DOMAIN order, order' = Without(order, order[k]),
         head' = IF k = 1 THEN node[order[1]].next ELSE head,
         \A j \in DOMAIN order : j # k =>
           node'[order[j]].next = IF j + 1 = k THEN node[order[k]].next ELSE node[order[j]].next,
         \A b \in Listed : node'[b].location = node[b].location
  PROVE  Chained' /\ OnScreen' /\ Listed' = Listed \ {order[k]} /\ order' \in Seq(Blocks)
<1>. DEFINE n == Len(order)
            f == order[k]
<1>1. order \in Seq(Blocks) /\ n \in Nat /\ DOMAIN order = 1 .. n /\ k \in 1 .. n
  BY LenProperties DEF ListInv, TypeOK
<1>2. /\ \A i, j \in 1 .. n : order[i] = order[j] => i = j
      /\ head = IF order = <<>> THEN NULL ELSE order[1]
      /\ \A i \in 1 .. n : node[order[i]].next = IF i = n THEN NULL ELSE order[i + 1]
      /\ \A i \in 1 .. n : order[i] \in Listed
  BY <1>1 DEF ListInv, Chained, Listed
<1>3. /\ order' \in Seq(Blocks) /\ Len(order') = n - 1
      /\ \A i \in 1 .. n - 1 : order'[i] = IF i < k THEN order[i] ELSE order[i + 1]
  BY <1>1, <1>2, TakenOut
<1>4. DOMAIN order' = 1 .. n - 1
  BY <1>3, LenProperties
<1>5. head = order[1]
  <2>1. n # 0 /\ order # <<>>
    BY <1>1, EmptySeq
  <2>. QED
    BY <1>2, <2>1
<1>6. \A j \in 1 .. n : j # k =>
        node'[order[j]].next = IF j + 1 = k THEN node[order[k]].next ELSE node[order[j]].next
  BY <1>1
<1>. HIDE DEF n
<1>7. Listed' = Listed \ {f}
  <2>1. Listed = {order[i] : i \in 1 .. n} /\ Listed' = {order'[i] : i \in 1 .. n - 1}
    BY <1>1, <1>4 DEF Listed
  <2>2. ASSUME NEW b \in Listed' PROVE b \in Listed \ {f}
    <3>1. PICK i \in 1 .. n - 1 : b = order'[i]
      BY <2>1
    <3>2. i \in 1 .. n /\ i + 1 \in 1 .. n
      BY <1>1
    <3>3. CASE i < k
      BY <1>1, <1>2, <1>3, <3>1, <3>2, <3>3
    <3>4. CASE ~(i < k)
      <4>1. b = order[i + 1] /\ i + 1 # k
        BY <1>1, <1>3, <3>1, <3>4
      <4>. QED
        BY <1>1, <1>2, <3>2, <4>1
    <3>. QED
      BY <3>3, <3>4
  <2>3. ASSUME NEW b \in Listed, b # f PROVE b \in Listed'
    <3>1. PICK i \in 1 .. n : b = order[i]
      BY <2>1
    <3>2. i # k
      BY <2>3, <3>1
    <3>3. CASE i < k
      <4>1. i \in 1 .. n - 1
        BY <1>1, <3>3
      <4>. QED
        BY <1>3, <2>1, <3>1, <3>3, <4>1
    <3>4. CASE i > k
      <4>1. i - 1 \in 1 .. n - 1 /\ ~(i - 1 < k) /\ (i - 1) + 1 = i
        BY <1>1, <3>4
      <4>2. order'[i - 1] = b
        BY <1>3, <3>1, <4>1
      <4>. QED
        BY <2>1, <4>1, <4>2
    <3>. QED
      BY <1>1, <3>2, <3>3, <3>4
  <2>. QED
    BY <2>2, <2>3
<1>8. \A i, j \in 1 .. n - 1 : order'[i] = order'[j] => i = j
  <2>. SUFFICES ASSUME NEW i \in 1 .. n - 1, NEW j \in 1 .. n - 1, order'[i] = order'[j]
                PROVE  i = j
    OBVIOUS
  <2>. DEFINE p == IF i < k THEN i ELSE i + 1
              q == IF j < k THEN j ELSE j + 1
  <2>1. p \in 1 .. n /\ q \in 1 .. n
    BY <1>1
  <2>2. order[p] = order[q]
    BY <1>3
  <2>3. p = q
    BY <1>2, <2>1, <2>2
  <2>. QED
    BY <1>1, <2>3
<1>9. ASSUME NEW i \in 1 .. n - 1
      PROVE  node'[order'[i]].next = IF i = n - 1 THEN NULL ELSE order'[i + 1]
  <2>1. i \in 1 .. n /\ i + 1 \in 1 .. n /\ (i # n - 1 => i + 1 \in 1 .. n - 1)
    BY <1>1
  <2>2. CASE i + 1 < k
    <3>1. order'[i] = order[i] /\ i # k /\ i # n - 1 /\ order'[i + 1] = order[i + 1]
      BY <1>1, <1>3, <2>1, <2>2
    <3>2. node'[order[i]].next = node[order[i]].next
      BY <1>1, <1>6, <2>1, <2>2, <3>1
    <3>3. node[order[i]].next = order[i + 1]
      BY <1>1, <1>2, <2>1, <3>1
    <3>. QED
      BY <3>1, <3>2, <3>3
  <2>3. CASE i + 1 = k
    <3>1. order'[i] = order[i] /\ i # k
      BY <1>1, <1>3, <2>3
    <3>2. node'[order[i]].next = node[order[k]].next
      BY <1>6, <2>1, <2>3, <3>1
    <3>3. node[order[k]].next = IF k = n THEN NULL ELSE order[k + 1]
      BY <1>1, <1>2
    <3>4. (k = n <=> i = n - 1) /\ (i # n - 1 => order'[i + 1] = order[k + 1])
      BY <1>1, <1>3, <2>1, <2>3
    <3>. QED
      BY <3>1, <3>2, <3>3, <3>4
  <2>4. CASE i + 1 > k
    <3>1. order'[i] = order[i + 1] /\ i + 1 # k /\ (i + 1) + 1 # k
      BY <1>1, <1>3, <2>4
    <3>2. node'[order[i + 1]].next = node[order[i + 1]].next
      BY <1>6, <2>1, <3>1
    <3>3. node[order[i + 1]].next = IF i + 1 = n THEN NULL ELSE order[(i + 1) + 1]
      BY <1>2, <2>1
    <3>4. (i + 1 = n <=> i = n - 1) /\ (i # n - 1 => order'[i + 1] = order[(i + 1) + 1])
      BY <1>1, <1>3, <2>1, <2>4
    <3>. QED
      BY <3>1, <3>2, <3>3, <3>4
  <2>. QED
    BY <1>1, <2>2, <2>3, <2>4
<1>10. head' = IF order' = <<>> THEN NULL ELSE order'[1]
  <2>1. order' = <<>> <=> n = 1
    BY <1>1, <1>3, EmptySeq
  <2>2. CASE k = 1
    <3>1. head' = IF 1 = n THEN NULL ELSE order[1 + 1]
      BY <1>1, <1>2, <2>2
    <3>2. n # 1 => 1 \in 1 .. n - 1 /\ order'[1] = order[1 + 1]
      BY <1>1, <1>3, <2>2
    <3>. QED
      BY <2>1, <3>1, <3>2
  <2>3. CASE k # 1
    <3>1. n # 1 /\ 1 \in 1 .. n - 1 /\ 1 < k
      BY <1>1, <2>3
    <3>2. order'[1] = order[1]
      BY <1>3, <3>1
    <3>. QED
      BY <1>5, <2>1, <2>3, <3>1, <3>2
  <2>. QED
    BY <2>2, <2>3
<1>11. Chained'
  BY <1>3, <1>4, <1>8, <1>9, <1>10 DEF Chained
<1>. QED
  BY <1>3, <1>7, <1>11 DEF ListInv, OnScreen

LEMMA AddLinkList ==
  ASSUME ListInv, AddLink, UNCHANGED cursor
  PROVE  ListInv' /\ Listed' = Listed \cup {op.found}
<1>. DEFINE f == op.found
<1>1. /\ op \in Ops /\ op.at = "addLink" /\ f \in Blocks /\ op.temp = NULL /\ f # NULL
      /\ node[f].location \in Locations /\ f \notin Listed /\ alloc = Listed \cup {f}
  BY LinkFacts DEF AddLink, ListInv, TypeOK, Registers, NoLeak, Held, Ops, Links
<1>2. /\ node' = [node EXCEPT ![f].countdown = node[f].on, ![f].status = 1, ![f].next = head]
      /\ head' = f /\ order' = <<f>> \o order /\ op' = [op EXCEPT !.at = "addPoke"]
      /\ UNCHANGED <<alloc, screen, raced>>
  BY DEF AddLink, Successor, Goto
<1>3. Listed \subseteq Blocks /\ head \in Links /\ node[f] \in Structs /\ node \in [Blocks -> Structs]
  BY <1>1, ListFacts DEF ListInv, TypeOK
<1>4. /\ node' \in [Blocks -> Structs]
      /\ node'[f].next = head /\ node'[f].location = node[f].location
      /\ \A b \in Blocks : b # f => node'[b] = node[b]
  BY <1>1, <1>2, <1>3 DEF Structs
<1>5. Chained' /\ OnScreen' /\ Listed' = Listed \cup {f} /\ order' \in Seq(Blocks)
  BY SMTT(30), <1>1, <1>2, <1>3, <1>4, LinkChain
<1>6. op' \in Ops /\ op'.at = "addPoke" /\ op'.found = f /\ op'.temp = NULL
  BY <1>1, <1>2 DEF Ops, Places
<1>7. Held' = {} /\ Registers'
  BY <1>5, <1>6 DEF Held, Registers, Syncing
<1>8. NoLeak'
  BY <1>1, <1>2, <1>5, <1>7 DEF NoLeak
<1>9. TypeOK'
  BY <1>1, <1>2, <1>4, <1>5, <1>6 DEF ListInv, TypeOK, Links
<1>. QED
  BY <1>5, <1>7, <1>8, <1>9 DEF ListInv

\* A node taken out is the running ioctl's to free.
LEMMA OutList ==
  ASSUME ListInv, cursor = NULL, UNCHANGED <<cursor, alloc, screen, raced>>,
         op.at \in {"unlink", "before"}, op' = Goto("freeFound"),
         node' \in [Blocks -> Structs], head' \in Links,
         Chained', OnScreen', Listed' = Listed \ {op.found}, order' \in Seq(Blocks)
  PROVE  ListInv'
<1>1. op \in Ops /\ op.found \in Listed /\ op.temp = NULL /\ Held = {}
  BY DEF ListInv, TypeOK, Registers, Held
<1>2. op' \in Ops /\ op'.at = "freeFound" /\ op'.found = op.found /\ op'.temp = NULL
  BY <1>1 DEF Goto, Ops, Places
<1>3. op.found # NULL
  BY <1>1, ListFacts
<1>4. Held' = {op.found} /\ Registers'
  BY <1>2, <1>3 DEF Held, Registers, Syncing
<1>5. NoLeak'
  BY <1>1, <1>4 DEF ListInv, NoLeak
<1>6. TypeOK'
  BY <1>2 DEF ListInv, TypeOK
<1>. QED
  BY <1>4, <1>5, <1>6 DEF ListInv

LEMMA UnlinkHeadList ==
  ASSUME ListInv, UnlinkHead, cursor = NULL, UNCHANGED cursor
  PROVE  ListInv' /\ Listed' = Listed \ {op.found}
<1>1. /\ op.at = "unlink" /\ op.found \in Listed /\ op.found = head
      /\ head' = node[op.found].next /\ order' = Without(order, op.found)
      /\ op' = Goto("freeFound") /\ UNCHANGED <<node, alloc, screen, raced>>
  BY DEF UnlinkHead, ListInv, Registers
<1>2. DOMAIN order = 1 .. Len(order) /\ Len(order) \in Nat
  BY LenProperties DEF ListInv, TypeOK
<1>3. 1 \in DOMAIN order /\ op.found = order[1]
  <2>1. order # <<>>
    BY <1>1, <1>2, ListFacts DEF ListInv, Chained
  <2>2. PICK i \in DOMAIN order : TRUE
    BY <1>1 DEF Listed
  <2>. QED
    BY <1>1, <1>2, <2>1, <2>2 DEF ListInv, Chained
<1>4. \A j \in DOMAIN order : j # 1 => j + 1 # 1
  BY <1>2
<1>5. Chained' /\ OnScreen' /\ Listed' = Listed \ {op.found} /\ order' \in Seq(Blocks)
  <2>. DEFINE k == 1
  <2>1. k \in DOMAIN order /\ order' = Without(order, order[k])
        /\ head' = IF k = 1 THEN node[order[1]].next ELSE head
    BY <1>1, <1>3
  <2>2. \A j \in DOMAIN order : j # k =>
          node'[order[j]].next = IF j + 1 = k THEN node[order[k]].next ELSE node[order[j]].next
    BY <1>1, <1>4
  <2>3. \A b \in Listed : node'[b].location = node[b].location
    BY <1>1
  <2>. HIDE DEF k
  <2>4. Chained' /\ OnScreen' /\ Listed' = Listed \ {order[k]} /\ order' \in Seq(Blocks)
    BY <2>1, <2>2, <2>3, UnlinkChain
  <2>. QED
    BY <1>3, <2>4 DEF k
<1>6. head' \in Links /\ node' \in [Blocks -> Structs]
  BY <1>1, ListFacts DEF Links, ListInv, TypeOK
<1>. QED
  BY <1>1, <1>5, <1>6, OutList

LEMMA UnlinkAfterList ==
  ASSUME ListInv, UnlinkAfter, cursor = NULL, UNCHANGED cursor
  PROVE  ListInv' /\ Listed' = Listed \ {op.found}
<1>. DEFINE e == op.ebx
            f == op.found
<1>1. /\ op.at = "before" /\ f \in Listed /\ e \in Listed /\ node[e].next = f
      /\ node' = [node EXCEPT ![e].next = node[f].next] /\ order' = Without(order, f)
      /\ op' = Goto("freeFound") /\ UNCHANGED <<alloc, head, screen, raced>>
  BY DEF UnlinkAfter, ListInv, Registers
<1>2. /\ DOMAIN order = 1 .. Len(order) /\ Len(order) \in Nat
      /\ node \in [Blocks -> Structs] /\ head \in Links /\ e \in Blocks /\ f \in Blocks
  BY <1>1, LenProperties, ListFacts DEF ListInv, TypeOK
<1>3. PICK i \in DOMAIN order : order[i] = e
  BY <1>1 DEF Listed
<1>4. i + 1 \in DOMAIN order /\ f = order[i + 1]
  <2>1. f = IF i = Len(order) THEN NULL ELSE order[i + 1]
    BY <1>1, <1>3 DEF ListInv, Chained
  <2>2. f # NULL
    BY <1>1, ListFacts
  <2>. QED
    BY <1>2, <2>1, <2>2
<1>5. node' \in [Blocks -> Structs]
  <2>1. node[f] \in Structs /\ node[e] \in Structs
    BY <1>2
  <2>2. [node[e] EXCEPT !.next = node[f].next] \in Structs
    BY <2>1 DEF Structs
  <2>3. node' = [node EXCEPT ![e] = [node[e] EXCEPT !.next = node[f].next]]
    BY <1>1
  <2>. QED
    BY <1>2, <2>2, <2>3
<1>6. \A b \in Blocks : node'[b].location = node[b].location
  BY <1>1, <1>2 DEF Structs
<1>7. \A b \in Blocks : node'[b].next = IF b = e THEN node[f].next ELSE node[b].next
  BY <1>1, <1>2 DEF Structs
<1>8. Chained' /\ OnScreen' /\ Listed' = Listed \ {f} /\ order' \in Seq(Blocks)
  <2>. DEFINE k == i + 1
  <2>1. k \in DOMAIN order /\ f = order[k] /\ k # 1
    BY <1>2, <1>4
  <2>2. ASSUME NEW j \in DOMAIN order
        PROVE  node'[order[j]].next =
                 IF j + 1 = k THEN node[order[k]].next ELSE node[order[j]].next
    <3>1. order[j] \in Blocks
      BY ListFacts DEF Listed
    <3>2. order[j] = e <=> j = i
      BY <1>3 DEF ListInv, Chained
    <3>3. j = i <=> j + 1 = k
      BY <1>2
    <3>. QED
      BY <1>7, <2>1, <3>1, <3>2, <3>3
  <2>3. \A b \in Listed : node'[b].location = node[b].location
    BY <1>6, ListFacts
  <2>4. order' = Without(order, order[k]) /\ head' = IF k = 1 THEN node[order[1]].next ELSE head
    BY <1>1, <2>1
  <2>. HIDE DEF k
  <2>5. Chained' /\ OnScreen' /\ Listed' = Listed \ {order[k]} /\ order' \in Seq(Blocks)
    BY <2>1, <2>2, <2>3, <2>4, UnlinkChain
  <2>. QED
    BY <2>1, <2>5
<1>. QED
  BY <1>1, <1>2, <1>5, <1>8, OutList

LEMMA NextList == ListInv /\ [Next]_vars => ListInv'
<1>. SUFFICES ASSUME ListInv, [Next]_vars PROVE ListInv'
  OBVIOUS
<1>1. CASE Tasklet
  BY <1>1, TickList, TickNodeList DEF Tasklet
<1>2. CASE Ioctl
  <2>1. cursor = NULL /\ UNCHANGED cursor
    BY <1>2 DEF Ioctl
  <2>2. CASE RemoveCall
    BY <2>1, <2>2, SearchList DEF RemoveCall
  <2>3. CASE SyncCall
    BY <2>1, <2>3, SearchList DEF SyncCall
  <2>. QED
    BY <1>2, <2>1, <2>2, <2>3, CallList, AddLinkList, PokeList, WalkList, MoveList, UnlinkHeadList,
       UnlinkAfterList, FreeFoundList, FreeTempList, CopyList DEF Ioctl
<1>3. CASE UNCHANGED vars
  BY <1>3, QuietOp DEF vars, Held, Registers, Listed, ListInv, TypeOK
<1>. QED
  BY <1>1, <1>2, <1>3 DEF Next

LEMMA ListInvariant == Spec => []ListInv
BY InitList, NextList, PTL DEF Spec

\* Wherever the tasklet interrupts an ioctl, the list is whole: each listed node once,
\* to NULL, in allocated memory; the two walks stand on listed nodes and no memory is lost.
THEOREM ListSoundCorrect == Spec => []ListSound
<1>1. ListInv => ListSound
  <2>. SUFFICES ASSUME ListInv PROVE ListSound
    OBVIOUS
  <2>1. op \in Ops
    BY DEF ListInv, TypeOK
  <2>2. op.at \in {"walk", "before"} => op.ebx \in Listed \cup {NULL}
    BY DEF ListInv, Registers
  <2>3. op.at \notin {"none", "addLink", "walk", "freeTemp", "freeFound"} => op.found \in Listed
    BY <2>1 DEF ListInv, Registers, Syncing, Ops, Places
  <2>. QED
    BY <2>2, <2>3 DEF ListInv, ListSound
<1>. QED
  BY <1>1, ListInvariant, PTL

----------------------------------------------------------------------------
(* The screen.  Chosen is what makes ScreenFollows inductive: a poke shows *)
(* what the ioctl chose some steps before.                                 *)

\* A step that pokes nothing.
LEMMA SameScreen ==
  ASSUME ScreenFollows, screen' = screen,
         \A b \in Listed' :
           \/ Poking(b)'
           \/ /\ b \in Listed /\ ~Poking(b) /\ (b \in raced => b \in raced')
              /\ node'[b].location = node[b].location /\ node'[b].status = node[b].status
  PROVE  ScreenFollows'
BY DEF ScreenFollows

\* A poke of the character of node f.
LEMMA PokeScreen ==
  ASSUME ListInv, ScreenFollows, NEW f \in Listed', f # NULL, NEW s,
         node'[f].location \in Locations, Poke(node'[f].location, f, s),
         f \notin raced' /\ ~Poking(f)' => node'[f].status = s,
         \A b \in Listed' \ {f} :
           \/ Poking(b)'
           \/ /\ b \in Listed /\ ~Poking(b) /\ (b \in raced => b \in raced')
              /\ node'[b].location = node[b].location /\ node'[b].status = node[b].status
  PROVE  ScreenFollows'
<1>. DEFINE l0 == node'[f].location
<1>1. screen' = [screen EXCEPT ![l0] = [of |-> f, status |-> s]] /\ l0 \in Locations
  BY DEF Poke
<1>2. \A l \in Locations : l # l0 => screen'[l] = screen[l]
  BY <1>1 DEF ListInv, TypeOK
<1>3. screen'[l0].of = f /\ screen'[l0].status = s
  BY <1>1 DEF ListInv, TypeOK
<1>4. ASSUME NEW l \in Locations, NEW b \in Listed', b = screen'[l].of, node'[b].location = l,
             b \notin raced', ~Poking(b)'
      PROVE  screen'[l].status = node'[b].status
  <2>1. CASE l = l0
    BY <1>3, <1>4, <2>1
  <2>2. CASE l # l0
    <3>1. screen'[l] = screen[l] /\ b # f
      BY <1>2, <1>4, <2>2
    <3>2. /\ b \in Listed /\ ~Poking(b) /\ b \notin raced
          /\ node[b].location = l /\ node'[b].status = node[b].status
      BY <1>4, <3>1
    <3>3. b = screen[l].of
      BY <1>4, <3>1
    <3>. QED
      BY <3>1, <3>2, <3>3 DEF ScreenFollows
  <2>. QED
    BY <2>1, <2>2
<1>5. ASSUME NEW b \in Listed', ~Poking(b)'
      PROVE  screen'[node'[b].location] # Blank
  <2>1. CASE node'[b].location = l0
    BY <1>3, <2>1 DEF Blank
  <2>2. CASE node'[b].location # l0
    <3>1. b # f
      BY <2>2
    <3>2. b \in Listed /\ ~Poking(b) /\ node'[b].location = node[b].location
      BY <1>5, <3>1
    <3>3. node[b].location \in Locations /\ screen[node[b].location] # Blank
      BY <3>2 DEF ListInv, OnScreen, ScreenFollows
    <3>. QED
      BY <1>2, <2>2, <3>2, <3>3
  <2>. QED
    BY <2>1, <2>2
<1>. QED
  BY <1>4, <1>5 DEF ScreenFollows

\* Most steps of an ioctl change no listed node and poke nothing.
LEMMA QuietIoctl ==
  ASSUME ListInv, cursor = NULL, UNCHANGED cursor,
         \/ AddCall \/ AddFails \/ Walk \/ RemoveCall \/ UnlinkHead \/ StepBefore \/ UnlinkAfter
         \/ FreeFound \/ FindCall \/ FindFails \/ CopyOut \/ FreeTemp \/ SyncCall
  PROVE  /\ screen' = screen /\ Listed' \subseteq Listed
         /\ op.at \notin {"addPoke", "syncChar", "syncPoke"}
         /\ op'.at \notin {"addPoke", "syncCountdown", "syncStatus", "syncChar", "syncPoke"}
         /\ \A b \in Listed' :
              /\ b \in raced => b \in raced'
              /\ node'[b].location = node[b].location /\ node'[b].status = node[b].status
<1>0. /\ node \in [Blocks -> Structs] /\ Listed \subseteq Blocks /\ Listed \subseteq alloc
      /\ op \in Ops
  BY ListFacts DEF ListInv, TypeOK
<1>1. CASE AddCall \/ AddFails \/ FindCall \/ FindFails
  <2>1. Listed' = Listed
    BY <1>1 DEF AddCall, AddFails, FindCall, FindFails, Listed
  <2>2. Fresh \notin Listed /\ \A b \in Blocks : b # Fresh => node'[b] = node[b]
    BY <1>0, <1>1, FreshFree DEF AddCall, AddFails, FindCall, FindFails, CopyIn
  <2>3. /\ screen' = screen /\ raced' = raced /\ op.at = "none"
        /\ op'.at \in {"addLink", "freeTemp", "walk"}
    BY <1>1 DEF AddCall, AddFails, FindCall, FindFails, Search, NoOp
  <2>. QED
    BY <1>0, <2>1, <2>2, <2>3
<1>2. CASE Walk
  <2>1. op.at = "walk" /\ UNCHANGED <<node, order, screen, raced>> /\ Listed' = Listed
    BY <1>2 DEF Walk, Listed
  <2>2. op.cmd \in {"remove", "find", "sync"}
    BY <2>1 DEF ListInv, Registers
  <2>3. \A b : Found(b).at \in {"walk", "unlink", "before", "copyOut", "syncLengths"}
    BY <1>0, <2>1, <2>2 DEF Found, Ops
  <2>4. NotFound.at \in {"none", "freeTemp"}
    BY <1>0 DEF NotFound, Goto, NoOp, Ops
  <2>5. op'.at \in {"none", "freeTemp", "walk", "unlink", "before", "copyOut", "syncLengths"}
    BY <1>0, <1>2, <2>1, <2>3, <2>4 DEF Walk, Ops
  <2>. QED
    BY <2>1, <2>5
<1>3. CASE RemoveCall \/ SyncCall
  <2>1. op.at = "none" /\ op'.at = "walk" /\ UNCHANGED <<node, order, screen, raced>>
    BY <1>3 DEF RemoveCall, SyncCall, Search, NoOp
  <2>. QED
    BY <2>1 DEF Listed
<1>4. CASE UnlinkHead
  <2>1. /\ op.at = "unlink" /\ op' = Goto("freeFound") /\ UNCHANGED <<node, screen, raced>>
        /\ Listed' \subseteq Listed
    BY <1>4, UnlinkHeadList DEF UnlinkHead
  <2>. QED
    BY <1>0, <2>1 DEF Goto, Ops
<1>5. CASE UnlinkAfter
  <2>1. /\ op.at = "before" /\ op' = Goto("freeFound") /\ UNCHANGED <<screen, raced>>
        /\ Listed' \subseteq Listed
        /\ node' = [node EXCEPT ![op.ebx].next = node[op.found].next]
    BY <1>5, UnlinkAfterList DEF UnlinkAfter
  <2>2. \A b \in Blocks : node'[b].location = node[b].location /\ node'[b].status = node[b].status
    BY <1>0, <2>1 DEF Structs
  <2>3. op'.at = "freeFound"
    BY <1>0, <2>1 DEF Goto, Ops
  <2>. QED
    BY <1>0, <2>1, <2>2, <2>3
<1>6. CASE StepBefore \/ CopyOut
  <2>1. /\ op.at \in {"before", "copyOut"} /\ op'.at \in {"none", "before", "freeTemp"}
        /\ UNCHANGED <<node, order, screen, raced>>
    BY <1>0, <1>6 DEF StepBefore, CopyOut, Goto, NoOp, Ops
  <2>. QED
    BY <2>1 DEF Listed
<1>7. CASE FreeFound \/ FreeTemp
  <2>1. PICK b0 \in {op.found, op.temp} :
          /\ b0 \notin Listed /\ node' = [node EXCEPT ![b0] = Junk]
          /\ raced \ {b0} \subseteq raced'
    BY <1>7 DEF FreeFound, FreeTemp, Release, ListInv, Registers, NoLeak, Held
  <2>2. op.at \in {"freeFound", "freeTemp"} /\ op'.at = "none" /\ UNCHANGED <<order, screen>>
    BY <1>7 DEF FreeFound, FreeTemp, NoOp
  <2>3. Listed' = Listed
    BY <2>2 DEF Listed
  <2>. QED
    BY <1>0, <2>1, <2>2, <2>3
<1>. QED
  BY <1>1, <1>2, <1>3, <1>4, <1>5, <1>6, <1>7

LEMMA AddScreen ==
  ASSUME ListInv, ScreenFollows, Chosen, cursor = NULL, UNCHANGED cursor, AddLink \/ AddPoke
  PROVE  ScreenFollows' /\ Chosen'
<1>. DEFINE f == op.found
<1>0. /\ node \in [Blocks -> Structs] /\ Listed \subseteq Blocks /\ op \in Ops
  BY ListFacts DEF ListInv, TypeOK
<1>1. CASE AddLink
  <2>1. /\ op.at = "addLink" /\ op' = [op EXCEPT !.at = "addPoke"] /\ f \in Blocks
        /\ node' = [node EXCEPT ![f].countdown = node[f].on, ![f].status = 1, ![f].next = head]
        /\ UNCHANGED <<screen, raced>>
    BY <1>0, <1>1, LinkFacts DEF AddLink, Successor, Goto, ListInv, Registers, Ops, Links
  <2>2. Listed' = Listed \cup {f}
    BY <1>1, AddLinkList
  <2>3. op'.at = "addPoke" /\ op'.found = f /\ Poking(f)'
    BY <1>0, <2>1 DEF Ops, Poking
  <2>4. node'[f].status = 1
    BY <1>0, <2>1 DEF Structs
  <2>5. \A b \in Listed : b # f => node'[b] = node[b] /\ ~Poking(b)
    BY <1>0, <2>1 DEF Poking
  <2>6. ScreenFollows'
    BY <2>1, <2>2, <2>3, <2>5, SameScreen
  <2>. QED
    BY <2>3, <2>4, <2>6 DEF Chosen
<1>2. CASE AddPoke
  <2>1. /\ op.at = "addPoke" /\ op' = NoOp /\ UNCHANGED <<node, order, raced>>
        /\ Poke(node[f].location, f, 1) /\ f \in Listed /\ op'.at = "none"
    BY <1>2 DEF AddPoke, ListInv, Registers, NoOp
  <2>2. Listed' = Listed
    BY <2>1 DEF Listed
  <2>3. f \notin raced => node[f].status = 1
    BY <2>1 DEF Chosen
  <2>4. \A b \in Listed : b # f => ~Poking(b)
    BY <2>1 DEF Poking
  <2>5. f # NULL /\ node[f].location \in Locations
    BY <2>1, ListFacts DEF ListInv, OnScreen
  <2>6. ScreenFollows'
    BY <2>1, <2>2, <2>3, <2>4, <2>5, PokeScreen
  <2>. QED
    BY <2>1, <2>6 DEF Chosen
<1>. QED
  BY <1>1, <1>2

LEMMA SyncScreen ==
  ASSUME ListInv, ScreenFollows, Chosen, cursor = NULL, UNCHANGED cursor,
         SyncLengths \/ SyncCountdown \/ SyncStatus \/ SyncChar \/ SyncPoke
  PROVE  ScreenFollows' /\ Chosen'
<1>. DEFINE f == op.found
            i == op.first
<1>0. /\ node \in [Blocks -> Structs] /\ Listed \subseteq Blocks /\ op \in Ops
      /\ f \in Listed /\ UNCHANGED order /\ Listed' = Listed
  BY ListFacts DEF ListInv, TypeOK, Registers, Syncing, Listed,
                   SyncLengths, SyncCountdown, SyncStatus, SyncChar, SyncPoke
<1>1. CASE SyncLengths
  <2>1. /\ op.at = "syncLengths" /\ op' = Goto("syncCountdown") /\ UNCHANGED <<screen, raced>>
        /\ node' = [node EXCEPT ![f].on = node[i].on, ![f].off = node[i].off]
    BY <1>1 DEF SyncLengths
  <2>2. \A b \in Blocks : node'[b].location = node[b].location /\ node'[b].status = node[b].status
    BY <1>0, <2>1 DEF Structs
  <2>3. op'.at = "syncCountdown" /\ \A b : ~Poking(b)
    BY <1>0, <2>1 DEF Goto, Ops, Poking
  <2>4. ScreenFollows'
    BY <1>0, <2>1, <2>2, <2>3, SameScreen
  <2>. QED
    BY <2>3, <2>4 DEF Chosen
<1>2. CASE SyncCountdown
  <2>1. /\ op.at = "syncCountdown" /\ op' = Goto("syncStatus") /\ UNCHANGED <<screen, raced>>
        /\ node' = [node EXCEPT ![f].countdown = node[i].countdown]
    BY <1>2 DEF SyncCountdown, CopiedCount
  <2>2. \A b \in Blocks : node'[b].location = node[b].location /\ node'[b].status = node[b].status
    BY <1>0, <2>1 DEF Structs
  <2>3. op'.at = "syncStatus" /\ \A b : ~Poking(b)
    BY <1>0, <2>1 DEF Goto, Ops, Poking
  <2>4. ScreenFollows'
    BY <1>0, <2>1, <2>2, <2>3, SameScreen
  <2>. QED
    BY <2>3, <2>4 DEF Chosen
<1>3. CASE SyncStatus
  <2>1. /\ op.at = "syncStatus" /\ op' = Goto("syncChar") /\ UNCHANGED <<screen, raced>>
        /\ node' = [node EXCEPT ![f].status = node[i].status]
    BY <1>3 DEF SyncStatus
  <2>2. \A b \in Blocks : b # f => node'[b] = node[b]
    BY <1>0, <2>1
  <2>3. op'.at = "syncChar" /\ op'.found = f /\ Poking(f)' /\ \A b : ~Poking(b)
    BY <1>0, <2>1 DEF Goto, Ops, Poking
  <2>4. ScreenFollows'
    BY <1>0, <2>1, <2>2, <2>3, SameScreen
  <2>. QED
    BY <2>3, <2>4 DEF Chosen
<1>4. CASE SyncChar
  <2>1. /\ op.at = "syncChar" /\ op' = [op EXCEPT !.at = "syncPoke", !.char = CharOf(f)]
        /\ UNCHANGED <<node, screen>> /\ raced' = raced \ {f}
    BY <1>4 DEF SyncChar
  <2>2. op'.at = "syncPoke" /\ op'.found = f /\ Poking(f)' /\ op'.char = CharOf(f)
    BY <1>0, <2>1 DEF Ops, Poking
  <2>3. \A b : b # f => ~Poking(b)
    BY <2>1 DEF Poking
  <2>4. node[f].status = CharOf(f)
    BY <1>0 DEF CharOf, Structs
  <2>5. ScreenFollows'
    BY <1>0, <2>1, <2>2, <2>3, SameScreen
  <2>. QED
    BY <2>1, <2>2, <2>4, <2>5 DEF Chosen
<1>5. CASE SyncPoke
  <2>1. /\ op.at = "syncPoke" /\ op' = NoOp /\ UNCHANGED <<node, raced>>
        /\ Poke(node[f].location, f, op.char) /\ op'.at = "none"
    BY <1>5 DEF SyncPoke, NoOp
  <2>2. f \notin raced => node[f].status = op.char
    BY <2>1 DEF Chosen
  <2>3. \A b : b # f => ~Poking(b)
    BY <2>1 DEF Poking
  <2>4. f # NULL /\ node[f].location \in Locations
    BY <1>0, ListFacts DEF ListInv, OnScreen
  <2>5. ScreenFollows'
    BY <1>0, <2>1, <2>2, <2>3, <2>4, PokeScreen
  <2>. QED
    BY <2>1, <2>5 DEF Chosen
<1>. QED
  BY <1>1, <1>2, <1>3, <1>4, <1>5

LEMMA TickNodeScreen ==
  ASSUME ListInv, ScreenFollows, Chosen, TickNode
  PROVE  ScreenFollows' /\ Chosen'
<1>. DEFINE c == cursor
            s == 1 - node[c].status
<1>0. /\ node \in [Blocks -> Structs] /\ Listed \subseteq Blocks /\ op \in Ops /\ raced \subseteq Blocks
      /\ c \in Listed /\ c # NULL /\ Listed' = Listed
      /\ op.at \in {"addPoke", "syncPoke"} => op.found \in Listed
  BY ListFacts, TickNodeFacts DEF ListInv, TypeOK, Registers, Syncing, Listed
<1>1. CASE /\ node' = [node EXCEPT ![c].status = s, ![c].countdown = Length(c, s)]
           /\ Poke(node[c].location, c, s)
           /\ raced' = IF Unpoked(c) THEN raced \cup {c} ELSE raced \ {c}
           /\ op' = [op EXCEPT !.parted = op.parted \/ Parts(c)]
  <2>1. op'.at = op.at /\ op'.found = op.found /\ op'.char = op.char
    BY <1>0, <1>1 DEF Ops
  <2>2. \A b : Poking(b)' <=> Poking(b)
    BY <2>1 DEF Poking
  <2>3. \A b \in Blocks : b # c => node'[b] = node[b]
    BY <1>0, <1>1
  <2>4. node'[c].location = node[c].location /\ node'[c].status = s
    BY <1>0, <1>1 DEF Structs
  <2>5. node[c].location \in Locations
    BY <1>0 DEF ListInv, OnScreen
  <2>6. \A b : b # c /\ b \in raced => b \in raced'
    BY <1>1
  <2>. HIDE DEF s
  <2>7. Poke(node'[c].location, c, s) /\ node'[c].location \in Locations
    BY <1>1, <2>4, <2>5
  <2>8. \A b \in Listed' \ {c} :
           \/ Poking(b)'
           \/ /\ b \in Listed /\ ~Poking(b) /\ (b \in raced => b \in raced')
              /\ node'[b].location = node[b].location /\ node'[b].status = node[b].status
    BY <1>0, <2>2, <2>3, <2>6
  <2>9. ScreenFollows'
    BY <1>0, <2>4, <2>7, <2>8, PokeScreen
  <2>10. Chosen'
    <3>1. op.at \in {"addPoke", "syncPoke"} /\ op.found = c => c \in raced'
      BY <1>1 DEF Unpoked
    <3>2. op.at \in {"addPoke", "syncPoke"} /\ op.found # c =>
            node'[op.found] = node[op.found] /\ (op.found \in raced => op.found \in raced')
      BY <1>0, <2>3, <2>6
    <3>. QED
      BY <2>1, <3>1, <3>2 DEF Chosen
  <2>. QED
    BY <2>9, <2>10
<1>2. CASE /\ node' = [node EXCEPT ![c].countdown = CountedDown(c)]
           /\ UNCHANGED <<screen, raced, op>>
  <2>1. \A b \in Blocks : node'[b].location = node[b].location /\ node'[b].status = node[b].status
    BY <1>0, <1>2 DEF Structs
  <2>2. \A b : Poking(b)' <=> Poking(b)
    BY <1>2 DEF Poking
  <2>3. \A b \in Listed : ~Poking(b) \/ Poking(b)'
    BY <2>2
  <2>4. ScreenFollows'
    BY <1>0, <1>2, <2>1, <2>3, SameScreen
  <2>5. Chosen'
    BY <1>0, <1>2, <2>1 DEF Chosen
  <2>. QED
    BY <2>4, <2>5
<1>. QED
  BY <1>1, <1>2, TickNodeFacts

LEMMA NextScreen ==
  ListInv /\ ScreenFollows /\ Chosen /\ [Next]_vars => ScreenFollows' /\ Chosen'
<1>. SUFFICES ASSUME ListInv, ScreenFollows, Chosen, [Next]_vars
              PROVE  ScreenFollows' /\ Chosen'
  OBVIOUS
<1>1. CASE Tick \/ UNCHANGED vars
  <2>1. UNCHANGED <<node, screen, order, op, raced>>
    BY <1>1 DEF Tick, vars
  <2>2. Listed' = Listed /\ \A b : Poking(b)' <=> Poking(b)
    BY <2>1 DEF Listed, Poking
  <2>3. \A b \in Listed : ~Poking(b) \/ Poking(b)'
    BY <2>2
  <2>4. ScreenFollows'
    BY <2>1, <2>2, <2>3, SameScreen
  <2>. QED
    BY <2>1, <2>4 DEF Chosen
<1>2. CASE Ioctl
  <2>1. cursor = NULL /\ UNCHANGED cursor
    BY <1>2 DEF Ioctl
  <2>2. CASE \/ AddCall \/ AddFails \/ Walk \/ RemoveCall \/ UnlinkHead \/ StepBefore \/ UnlinkAfter
             \/ FreeFound \/ FindCall \/ FindFails \/ CopyOut \/ FreeTemp \/ SyncCall
    <3>1. /\ screen' = screen /\ Listed' \subseteq Listed
          /\ op.at \notin {"addPoke", "syncChar", "syncPoke"}
          /\ op'.at \notin {"addPoke", "syncPoke"}
          /\ \A b \in Listed' :
               /\ b \in raced => b \in raced'
               /\ node'[b].location = node[b].location /\ node'[b].status = node[b].status
      BY <2>1, <2>2, QuietIoctl
    <3>2. \A b : ~Poking(b)
      BY <3>1 DEF Poking
    <3>3. ScreenFollows'
      BY <3>1, <3>2, SameScreen
    <3>. QED
      BY <3>1, <3>3 DEF Chosen
  <2>. QED
    BY <1>2, <2>1, <2>2, AddScreen, SyncScreen DEF Ioctl
<1>. QED
  BY <1>1, <1>2, TickNodeScreen DEF Next, Tasklet

\* Between ioctls the screen shows each listed character in the state it is in; while one
\* pokes, only a tick that came between its choice of the character and the poke excuses it.
THEOREM ScreenFollowsCorrect == Spec => []ScreenFollows
<1>1. Init => ScreenFollows
  BY LinkFacts DEF Init, ScreenFollows, Listed
<1>. QED
  BY <1>1, InitList, NextScreen, ListInvariant, PTL DEF Spec

----------------------------------------------------------------------------
(* The two nodes of a sync.  A tick reaches one of them before the other:  *)
(* until it has reached both, they are compared as they will be then.      *)

LEMMA NonePassed ==
  ASSUME NEW b
  PROVE  cursor = NULL => ~Passed(b)
BY DEF Passed

\* A tick begins in front of all nodes.
LEMMA TickPasses ==
  ASSUME ListInv, Tick, NEW b
  PROVE  ~Passed(b)'
<1>1. DOMAIN order = 1 .. Len(order) /\ Len(order) \in Nat /\ cursor' = head /\ order' = order
      /\ head # NULL
  BY LenProperties DEF ListInv, TypeOK, Tick
<1>2. order # <<>> /\ head = order[1]
  BY <1>1 DEF ListInv, Chained
<1>3. 1 \in DOMAIN order
  BY <1>1, <1>2, EmptySeq DEF ListInv, TypeOK
<1>4. \A j \in DOMAIN order : order[j] = head => j = 1
  BY <1>2, <1>3 DEF ListInv, Chained
<1>. QED
  BY <1>1, <1>4 DEF Passed

\* A step of it passes the node it is at, and the last one ends it.
LEMMA TickNodePasses ==
  ASSUME ListInv, TickNode
  PROVE  /\ ~Passed(cursor)
         /\ \/ cursor' # NULL /\ \A b \in Listed : Passed(b)' <=> Passed(b) \/ b = cursor
            \/ /\ cursor' = NULL /\ \A b \in Listed : Passed(b) \/ b = cursor
               /\ \A b \in Listed : ~Passed(b)'
<1>. DEFINE n == Len(order)
<1>1. DOMAIN order = 1 .. n /\ n \in Nat /\ order' = order /\ cursor' = node[cursor].next
      /\ cursor \in Listed /\ cursor # NULL /\ NULL \notin Listed
  BY LenProperties, TickNodeFacts, ListFacts DEF ListInv, TypeOK
<1>2. PICK k \in 1 .. n : order[k] = cursor
  BY <1>1 DEF Listed
<1>3. \A i, j \in 1 .. n : order[i] = order[j] => i = j
  BY <1>1 DEF ListInv, Chained
<1>4. cursor' = IF k = n THEN NULL ELSE order[k + 1]
  BY <1>1, <1>2 DEF ListInv, Chained
<1>. HIDE DEF n
<1>5. \A i \in 1 .. n : Passed(order[i]) <=> i < k
  BY <1>1, <1>2, <1>3 DEF Passed
<1>6. \A b \in Listed : \E i \in 1 .. n : order[i] = b
  BY <1>1 DEF Listed
<1>7. ~Passed(cursor)
  BY <1>1, <1>2, <1>5
<1>8. CASE k = n
  <2>1. cursor' = NULL
    BY <1>4, <1>8
  <2>2. \A b \in Listed : Passed(b) \/ b = cursor
    BY <1>1, <1>2, <1>5, <1>6, <1>8
  <2>3. \A b \in Listed : ~Passed(b)'
    BY <2>1 DEF Passed
  <2>. QED
    BY <1>7, <2>1, <2>2, <2>3
<1>9. CASE k # n
  <2>1. k + 1 \in 1 .. n /\ cursor' = order[k + 1]
    BY <1>1, <1>4, <1>9
  <2>2. cursor' \in Listed /\ cursor' # NULL
    BY <1>1, <2>1 DEF Listed
  <2>3. \A i \in 1 .. n : Passed(order[i])' <=> i < k + 1
    <3>. SUFFICES ASSUME NEW i \in 1 .. n PROVE Passed(order[i])' <=> i < k + 1
      OBVIOUS
    <3>1. \A j \in 1 .. n : order[j] = cursor' <=> j = k + 1
      BY <1>3, <2>1
    <3>2. \A j \in 1 .. n : order[j] = order[i] <=> j = i
      BY <1>3
    <3>. QED
      BY <1>1, <2>1, <2>2, <3>1, <3>2 DEF Passed
  <2>4. ASSUME NEW b \in Listed PROVE Passed(b)' <=> Passed(b) \/ b = cursor
    <3>1. PICK i \in 1 .. n : order[i] = b
      BY <1>6
    <3>2. b = cursor <=> i = k
      BY <1>2, <1>3, <3>1
    <3>3. Passed(b) <=> i < k
      BY <1>5, <3>1
    <3>4. Passed(order[i])' <=> i < k + 1
      BY <2>3
    <3>5. order[i]' = b
      BY <1>1, <3>1
    <3>6. Passed(b)' <=> i < k + 1
      BY <3>4, <3>5 DEF Passed
    <3>7. i < k + 1 <=> i < k \/ i = k
      BY <1>1
    <3>. QED
      BY <3>2, <3>3, <3>6, <3>7
  <2>. QED
    BY <1>7, <2>2, <2>4
<1>. QED
  BY <1>8, <1>9

LEMMA SameAfter ==
  ASSUME NEW a \in Blocks, NEW b \in Blocks
  PROVE  /\ Timing(a) = Timing(b) => After(a) = After(b)
         /\ node[a].countdown = node[b].countdown =>
              CountedDown(a) = CountedDown(b) /\ (Flips(a) <=> Flips(b))
BY DEF Timing, After, Flips, CountedDown, Length

\* What a step of a tick does to the timing of the nodes.
LEMMA TickNodeTiming ==
  ASSUME ListInv, TickNode
  PROVE  /\ \A b \in Blocks : node'[b].on = node[b].on /\ node'[b].off = node[b].off
         /\ \A b \in Blocks : b # cursor => node'[b] = node[b]
         /\ <<node'[cursor].on, node'[cursor].off, node'[cursor].countdown, node'[cursor].status>>
              = After(cursor)
<1>. DEFINE c == cursor
<1>1. node \in [Blocks -> Structs] /\ c \in Blocks /\ node[c] \in Structs
  BY TickNodeFacts, ListFacts DEF ListInv, TypeOK
<1>2. CASE /\ Flips(c)
           /\ node' = [node EXCEPT ![c].status = 1 - node[c].status,
                                   ![c].countdown = Length(c, 1 - node[c].status)]
  <2>. DEFINE s == 1 - node[c].status
              m == Length(c, s)
  <2>1. node' = [node EXCEPT ![c].status = s, ![c].countdown = m] /\ After(c) = <<node[c].on, node[c].off, m, s>>
    BY <1>2 DEF After
  <2>. HIDE DEF s, m
  <2>. QED
    BY <1>1, <2>1 DEF Structs
<1>3. CASE ~Flips(c) /\ node' = [node EXCEPT ![c].countdown = CountedDown(c)]
  BY <1>1, <1>3 DEF Structs, After
<1>. QED
  BY <1>2, <1>3, TickNodeFacts

LEMMA TickNodeStep ==
  ASSUME ListInv, StepInv, TickNode
  PROVE  StepInv'
<1>. DEFINE c == cursor
            Done(b) == Passed(b) \/ b = c
<1>0. PICK i, f : i = op.first /\ f = op.found
  OBVIOUS
<1>1. /\ op \in Ops /\ op'.at = op.at /\ op'.first = i /\ op'.found = f
      /\ op.parted => op'.parted
      /\ Flips(c) /\ op.at = "syncStatus" /\ c = i => op'.parted
  BY <1>0, TickNodeFacts DEF ListInv, TypeOK, Ops, Parts
<1>2. SUFFICES ASSUME op.at \in Syncing \ {"syncLengths"} PROVE StepInv'
  BY <1>1 DEF StepInv, Syncing
<1>3. i \in Listed /\ f \in Listed /\ i \in Blocks /\ f \in Blocks /\ c \in Blocks
  BY <1>0, <1>2, ListFacts, TickNodeFacts DEF ListInv, Registers, Syncing
<1>4. /\ \A b \in Blocks : node'[b].on = node[b].on /\ node'[b].off = node[b].off
      /\ \A b \in Blocks : b # c => node'[b] = node[b]
      /\ <<node'[c].on, node'[c].off, node'[c].countdown, node'[c].status>> = After(c)
  BY TickNodeTiming
<1>5. LengthsCopied'
  BY <1>0, <1>1, <1>2, <1>3, <1>4 DEF StepInv, LengthsCopied
<1>6. ~Passed(c)
  BY TickNodePasses
<1>7. /\ (Together <=> (Passed(i) <=> Passed(f))) /\ (Together' <=> (Passed(i)' <=> Passed(f)'))
      /\ (Ahead(op.first, op.found) <=> Passed(i) /\ ~Passed(f))
      /\ (Ahead(op.found, op.first) <=> Passed(f) /\ ~Passed(i))
      /\ (Ahead(op.first, op.found)' <=> Passed(i)' /\ ~Passed(f)')
      /\ (Ahead(op.found, op.first)' <=> Passed(f)' /\ ~Passed(i)')
  BY <1>0, <1>1 DEF Together, Ahead, Passed
<1>8. /\ Together' => (Done(i) <=> Done(f))
      /\ Ahead(op.first, op.found)' => Done(i) /\ ~Done(f)
      /\ Ahead(op.found, op.first)' => Done(f) /\ ~Done(i)
  <2>1. CASE \A b \in Listed : Passed(b)' <=> Done(b)
    <3>1. (Passed(i)' <=> Done(i)) /\ (Passed(f)' <=> Done(f))
      BY <1>3, <2>1
    <3>. QED
      BY <1>7, <3>1
  <2>2. CASE /\ \A b \in Listed : Done(b)
             /\ \A b \in Listed : ~Passed(b)'
    <3>1. Done(i) /\ Done(f) /\ ~Passed(i)' /\ ~Passed(f)'
      BY <1>3, <2>2
    <3>. QED
      BY <1>7, <3>1
  <2>. QED
    BY <2>1, <2>2, TickNodePasses
\* The nodes a step has not come to are as they were, the other is as after its turn.
<1>9. \A b \in {i, f} :
        /\ Timing(b)' = IF b = c THEN After(b) ELSE Timing(b)
        /\ b # c => After(b)' = After(b) /\ CountedDown(b)' = CountedDown(b)
                    /\ (Flips(b)' <=> Flips(b)) /\ node'[b].countdown = node[b].countdown
        /\ b = c /\ ~Flips(b) => node'[b].countdown = CountedDown(b)
  <2>. SUFFICES ASSUME NEW b \in {i, f}
                PROVE  /\ Timing(b)' = IF b = c THEN After(b) ELSE Timing(b)
                       /\ b # c => After(b)' = After(b) /\ CountedDown(b)' = CountedDown(b)
                            /\ (Flips(b)' <=> Flips(b)) /\ node'[b].countdown = node[b].countdown
                       /\ b = c /\ ~Flips(b) => node'[b].countdown = CountedDown(b)
    OBVIOUS
  <2>1. CASE b = c
    <3>1. Timing(b)' = After(b)
      BY <1>4, <2>1 DEF Timing
    <3>2. ~Flips(b) => node'[b].countdown = CountedDown(b)
      BY <1>4, <2>1 DEF After
    <3>. QED
      BY <2>1, <3>1, <3>2
  <2>2. CASE b # c
    <3>1. node'[b] = node[b]
      BY <1>3, <1>4, <2>2
    <3>. QED
      BY <2>2, <3>1 DEF Timing, After, Flips, CountedDown, Length
  <2>. QED
    BY <2>1, <2>2
<1>10. ASSUME op.at = "syncStatus", ~op'.parted PROVE CountCopied'
  <2>1. CountCopied /\ ~op.parted /\ (c = i => ~Flips(i))
    BY <1>1, <1>10 DEF StepInv
  <2>2. /\ (Passed(i) <=> Passed(f)) => node[i].countdown = node[f].countdown
        /\ Passed(i) /\ ~Passed(f) => ~Flips(f) /\ node[i].countdown = CountedDown(f)
        /\ Passed(f) /\ ~Passed(i) => Flips(i) \/ node[f].countdown = CountedDown(i)
    BY <1>0, <1>7, <2>1 DEF CountCopied
  <2>3. node[i].countdown = node[f].countdown =>
          CountedDown(i) = CountedDown(f) /\ (Flips(i) <=> Flips(f))
    BY <1>3, SameAfter
  <2>4. Flips(i) => CountedDown(i) = 0
    BY DEF Flips
  <2>5. Flips(f) => CountedDown(f) = 0
    BY DEF Flips
  <2>6. /\ (Done(i) <=> Done(f)) => node'[i].countdown = node'[f].countdown
        /\ Done(i) /\ ~Done(f) => ~Flips(f)' /\ node'[i].countdown = CountedDown(f)'
        /\ Done(f) /\ ~Done(i) => Flips(i)' \/ node'[f].countdown = CountedDown(i)'
    <3>1. CASE i = f
      BY <3>1
    <3>2. CASE i # f /\ c = i
      BY <1>6, <1>9, <2>1, <2>2, <2>3, <2>4, <2>5, <3>2
    <3>3. CASE i # f /\ c = f
      BY <1>6, <1>9, <2>1, <2>2, <2>3, <2>4, <2>5, <3>3
    <3>4. CASE c # i /\ c # f
      BY <1>9, <2>2, <3>4
    <3>. QED
      BY <3>1, <3>2, <3>3, <3>4
  <2>. QED
    BY <1>1, <1>7, <1>8, <2>6 DEF CountCopied, Flips, CountedDown
<1>11. ASSUME op.at \in {"syncChar", "syncPoke"}, ~op'.parted PROVE InStep'
  <2>1. InStep
    BY <1>1, <1>11 DEF StepInv
  <2>2. /\ (Passed(i) <=> Passed(f)) => Timing(i) = Timing(f)
        /\ Passed(i) /\ ~Passed(f) => Timing(i) = After(f)
        /\ Passed(f) /\ ~Passed(i) => Timing(f) = After(i)
    BY <1>0, <1>7, <2>1 DEF InStep
  <2>3. Timing(i) = Timing(f) => After(i) = After(f)
    BY <1>3, SameAfter
  <2>4. /\ (Done(i) <=> Done(f)) => Timing(i)' = Timing(f)'
        /\ Done(i) /\ ~Done(f) => Timing(i)' = After(f)'
        /\ Done(f) /\ ~Done(i) => Timing(f)' = After(i)'
    <3>1. CASE i = f
      BY <3>1
    <3>2. CASE i # f /\ c = i
      BY <1>6, <1>9, <2>2, <2>3, <3>2
    <3>3. CASE i # f /\ c = f
      BY <1>6, <1>9, <2>2, <2>3, <3>3
    <3>4. CASE c # i /\ c # f
      BY <1>9, <2>2, <3>4
    <3>. QED
      BY <3>1, <3>2, <3>3, <3>4
  <2>. QED
    BY <1>1, <1>7, <1>8, <2>4 DEF InStep, Timing, After, Flips, CountedDown, Length
<1>. QED
  BY <1>1, <1>5, <1>10, <1>11 DEF StepInv

\* An ioctl between its copies; no tick runs, so both nodes have had their turn or neither.
LEMMA SyncStep ==
  ASSUME ListInv, StepInv, cursor = NULL, UNCHANGED cursor,
         SyncLengths \/ SyncCountdown \/ SyncStatus \/ SyncChar
  PROVE  StepInv'
<1>. PICK i, f : i = op.first /\ f = op.found
  OBVIOUS
<1>1. /\ node \in [Blocks -> Structs] /\ op \in Ops /\ i \in Blocks /\ f \in Blocks
      /\ node[i] \in Structs /\ node[f] \in Structs
  <2>1. i \in Listed /\ f \in Listed
    BY DEF ListInv, Registers, Syncing, SyncLengths, SyncCountdown, SyncStatus, SyncChar
  <2>2. node \in [Blocks -> Structs] /\ op \in Ops
    BY DEF ListInv, TypeOK
  <2>. QED
    BY <2>1, <2>2, ListFacts
<1>2. op'.first = i /\ op'.found = f /\ op'.parted = op.parted
  BY <1>1 DEF Ops, Goto, SyncLengths, SyncCountdown, SyncStatus, SyncChar
<1>3. Together /\ Together' /\ ~Ahead(op.first, op.found)' /\ ~Ahead(op.found, op.first)'
  <2>1. cursor' = NULL
    OBVIOUS
  <2>. QED
    BY <2>1 DEF Together, Ahead, Passed
<1>4. CASE SyncLengths
  <2>1. op'.at = "syncCountdown" /\ node' = [node EXCEPT ![f].on = node[i].on, ![f].off = node[i].off]
    BY <1>1, <1>4 DEF SyncLengths, Goto, Ops
  <2>2. node'[i].on = node'[f].on /\ node'[i].off = node'[f].off
    BY <1>1, <2>1 DEF Structs
  <2>3. LengthsCopied'
    BY <1>2, <2>2 DEF LengthsCopied
  <2>. QED
    BY <2>1, <2>3 DEF StepInv
<1>5. CASE SyncCountdown
  <2>1. /\ op.at = "syncCountdown" /\ op'.at = "syncStatus"
        /\ node' = [node EXCEPT ![f].countdown = node[i].countdown]
    BY <1>1, <1>5 DEF SyncCountdown, CopiedCount, Goto, Ops
  <2>2. node[i].on = node[f].on /\ node[i].off = node[f].off
    BY <2>1 DEF StepInv, Syncing, LengthsCopied
  <2>3. /\ node'[i].on = node'[f].on /\ node'[i].off = node'[f].off
        /\ node'[i].countdown = node'[f].countdown
    BY <1>1, <2>1, <2>2 DEF Structs
  <2>4. LengthsCopied' /\ CountCopied'
    BY <1>2, <1>3, <2>3 DEF LengthsCopied, CountCopied
  <2>. QED
    BY <2>1, <2>4 DEF StepInv
<1>6. CASE SyncStatus
  <2>1. /\ op.at = "syncStatus" /\ op'.at = "syncChar"
        /\ node' = [node EXCEPT ![f].status = node[i].status]
    BY <1>1, <1>6 DEF SyncStatus, Goto, Ops
  <2>2. node[i].on = node[f].on /\ node[i].off = node[f].off
    BY <2>1 DEF StepInv, Syncing, LengthsCopied
  <2>3. ~op.parted => node[i].countdown = node[f].countdown
    BY <1>3, <2>1 DEF StepInv, CountCopied
  <2>4. /\ node'[i].on = node'[f].on /\ node'[i].off = node'[f].off
        /\ node'[i].status = node'[f].status
        /\ ~op.parted => node'[i].countdown = node'[f].countdown
    BY <1>1, <2>1, <2>2, <2>3 DEF Structs
  <2>5. LengthsCopied' /\ (~op.parted => InStep')
    BY <1>2, <1>3, <2>4 DEF LengthsCopied, InStep, Timing
  <2>. QED
    BY <1>2, <2>1, <2>5 DEF StepInv
<1>7. CASE SyncChar
  <2>1. op.at = "syncChar" /\ op'.at = "syncPoke" /\ node' = node
    BY <1>1, <1>7 DEF SyncChar, Ops
  <2>2. LengthsCopied /\ (~op.parted => InStep)
    BY <2>1 DEF StepInv, Syncing
  <2>3. LengthsCopied'
    BY <1>2, <2>1, <2>2 DEF LengthsCopied
  <2>4. ~op.parted => InStep'
    BY <1>2, <1>3, <2>1, <2>2 DEF InStep, Timing
  <2>. QED
    BY <1>2, <2>1, <2>3, <2>4 DEF StepInv
<1>. QED
  BY <1>4, <1>5, <1>6, <1>7

LEMMA NextStep == ListInv /\ StepInv /\ [Next]_vars => StepInv'
<1>. SUFFICES ASSUME ListInv, StepInv, [Next]_vars
              PROVE  StepInv'
  OBVIOUS
<1>1. CASE UNCHANGED vars
  BY SMTT(30), <1>1 DEF vars, StepInv, Syncing, LengthsCopied, CountCopied, InStep, Together, Ahead, Passed,
              Flips, After, Timing, CountedDown, Length
<1>2. CASE Tick
  <2>. PICK i, f : i = op.first /\ f = op.found
    OBVIOUS
  <2>1. cursor = NULL /\ op' = op /\ node' = node
    BY <1>2 DEF Tick
  <2>2. ~Passed(i)' /\ ~Passed(f)'
    BY <1>2, TickPasses
  <2>3. Together /\ Together' /\ ~Ahead(op.first, op.found)' /\ ~Ahead(op.found, op.first)'
    BY <2>1, <2>2 DEF Together, Ahead, Passed
  <2>. QED
    BY <2>1, <2>3 DEF StepInv, LengthsCopied, CountCopied, InStep, Timing
<1>3. CASE Ioctl
  <2>1. cursor = NULL /\ UNCHANGED cursor
    BY <1>3 DEF Ioctl
  <2>2. CASE \/ AddCall \/ AddFails \/ Walk \/ RemoveCall \/ UnlinkHead \/ StepBefore \/ UnlinkAfter
             \/ FreeFound \/ FindCall \/ FindFails \/ CopyOut \/ FreeTemp \/ SyncCall
    <3>1. op'.at \notin {"syncCountdown", "syncStatus", "syncChar", "syncPoke"}
      BY <2>1, <2>2, QuietIoctl
    <3>. QED
      BY <3>1 DEF StepInv, Syncing
  <2>3. CASE AddLink \/ AddPoke \/ SyncPoke
    <3>1. op \in Ops
      BY DEF ListInv, TypeOK
    <3>2. op'.at \in {"addPoke", "none"}
      BY <2>3, <3>1 DEF AddLink, AddPoke, SyncPoke, Goto, NoOp, Ops
    <3>. QED
      BY <3>2 DEF StepInv, Syncing
  <2>. QED
    BY <1>3, <2>1, <2>2, <2>3, SyncStep DEF Ioctl
<1>. QED
  BY <1>1, <1>2, <1>3, TickNodeStep DEF Next, Tasklet

\* A sync leaves its two nodes with the same lengths, count and status wherever in it ticks
\* come, but for the tick that flips the first one between the copies of count and status.
THEOREM SyncedInStepCorrect == Spec => []SyncedInStep
<1>1. StepInv => SyncedInStep
  BY DEF StepInv, SyncedInStep, InStep, Together, Passed
<1>. QED
  BY <1>1, InitList, NextStep, ListInvariant, PTL DEF Spec
=============================================================================
