------------------------------- MODULE TuxCtl -------------------------------
(***************************************************************************)
(* The Tux controller driver (mp2): the ioctls of a program against the    *)
(* packets of the controller, with the sending half of the line discipline *)
(* between them.                                                           *)
(*                                                                         *)
(* Interrupt handlers run to their end (one processor); the ioctl is       *)
(* interrupted wherever it holds no lock.  The controller, as mtcp.h       *)
(* describes it, and the serial driver are external.  TuxLine shows that   *)
(* packets come once and in order, and whole or not at all; here a packet  *)
(* is one element, and may be lost.  What TuxLine allows besides, two      *)
(* packets that both lost bytes and are taken for one, is left out.        *)
(***************************************************************************)
EXTENDS TuxBuffer, Sequences, FiniteSets

CONSTANTS
  N_LEDS,          \* 4
  Times,           \* the seconds that the game shows
  Buttons,         \* the buttons that are pressed, among those of BitOf
  DRIVER_ROOM,     \* bytes that the serial driver holds
  MAX_UNDERWAY,    \* bounds the bytes and packets underway when an ioctl or an event begins
  MAX_RESETS,      \* bounds the resets of the controller
  MAX_DROPS        \* bounds the packets that lose a byte

Leds == 0 .. N_LEDS - 1
Words == [Leds -> 0 .. 255]    \* what the LEDs show: a byte each, a bit for every segment
Off == [l \in Leds |-> 0]

ASSUME SizeAssumption == /\ N_LEDS \in 1 .. 4
                         /\ Times \subseteq 0 .. 256 * 60 - 1
                         /\ DRIVER_ROOM \in Nat
                         /\ MAX_UNDERWAY \in Nat /\ MAX_RESETS \in Nat /\ MAX_DROPS \in Nat

\* The longest two commands fit into the ring, and the serial driver, which has a page, has
\* room for all that is ever underway.
ASSUME RoomAssumption == /\ TUXCTL_BUFSIZE > 6
                         /\ DRIVER_ROOM >= MAX_UNDERWAY + 4 * (MAX_RESETS + 1)

VARIABLES
  is_busy, LED_status, button_status,
  tx_buf,                          \* the ring buffer of the line discipline
  pc, cmd, arg, led, room, buf,    \* the ioctl: its place, command, value, loop and locals
  out,                             \* external: bytes the serial driver has for the controller
  packets,                         \* external: packets on their way back
  leds, mode, bioc, pressed,       \* external: the controller
  drops, dropped,                  \* history: how many packets were lost, and see below
  resets, missed, unseen           \* history, see below

\* missed: the program's last value was dropped or not restored since it was sent.
\* unseen: the buttons changed while the controller was not to tell, or the packet was lost.
\* dropped: the types of the packets lost since the driver last sent the modes, which it does
\* whether busy or not.

ioctl == <<pc, cmd, arg, led, room, buf>>
driver == <<is_busy, LED_status, button_status>>
controller == <<leds, mode, bioc, pressed, resets, unseen>>
loss == <<drops, dropped>>
vars == <<is_busy, LED_status, button_status, tx_buf, pc, cmd, arg, led, room, buf, out, packets,
          leds, mode, bioc, pressed, drops, dropped, resets, missed, unseen>>

\* A byte for the controller; the mask and the digits that follow MTCP_LED_SET are one.
Byte(b) == [byte |-> b, word |-> Off]
SetLeds(w) == <<Byte("MTCP_LED_SET"), [byte |-> "digits", word |-> w]>>
TurnOn == <<Byte("MTCP_BIOC_ON"), Byte("MTCP_LED_USR")>>

\* The bits of TUX_BUTTONS, as mazegame.c names them, and those of MTCP_BIOC_EVENT, as
\* <<byte, bit>>, clear when the button is down.
BitOf == [start |-> 1, a |-> 2, b |-> 4, c |-> 8, up |-> 16, down |-> 32, left |-> 64,
          right |-> 128]
WireBit == [start |-> <<1, 1>>, a |-> <<1, 2>>, b |-> <<1, 4>>, c |-> <<1, 8>>,
            up |-> <<2, 1>>, left |-> <<2, 2>>, down |-> <<2, 4>>, right |-> <<2, 8>>]
HasBit(n, bit) == (n \div bit) % 2 = 1

ASSUME ButtonsAssumption == Buttons \subseteq DOMAIN BitOf

\* The argument with which the game shows a time: minutes and seconds on the first three
\* LEDs, with the point behind the minutes.
DisplayTime(time) ==
  LET ss == time % 60
      mm == time \div 60
  IN (4 * 2 ^ 24) + (7 * 2 ^ 16) + (256 * mm) + (16 * (ss \div 10)) + (ss % 10)

\* The segments of LED i for an argument of TUX_SET_LED: digit, mask bit and point.
LED == <<231, 6, 203, 143, 46, 173, 237, 134, 239, 175, 238, 109, 225, 79, 233, 232>>
Digit(a, i) == IF HasBit(a, 2 ^ (16 + i)) THEN LED[((a \div 16 ^ i) % 16) + 1] ELSE 0
Point(a, i) == IF HasBit(a, 2 ^ (24 + i)) THEN 16 ELSE 0
LedByte(a, i) == Digit(a, i) + Point(a, i)

Event(down) ==
  LET Clear(byte, bit) == IF \E n \in down : WireBit[n] = <<byte, bit>> THEN 0 ELSE bit
      ByteOf(byte) == 240 + Clear(byte, 1) + Clear(byte, 2) + Clear(byte, 4) + Clear(byte, 8)
  IN [type |-> "MTCP_BIOC_EVENT", b |-> ByteOf(1), c |-> ByteOf(2)]
Packet(t) == [type |-> t, b |-> 128, c |-> 128]

Init ==
  /\ is_busy = FALSE /\ LED_status = Off /\ button_status = 0
  /\ tx_buf = <<>>
  /\ pc = "opened" /\ cmd = "none" /\ arg = 0 /\ led = 0 /\ room = 0 /\ buf = <<>>
  /\ out = <<>> /\ packets = <<>>
  /\ leds = Off /\ mode = "clock" /\ bioc = FALSE /\ pressed = {}
  /\ drops = 0 /\ dropped = {} /\ resets = 0 /\ missed = TRUE /\ unseen = TRUE

CanBegin == Len(out) + Len(packets) <= MAX_UNDERWAY

GoTo(place) == pc' = place

\* The locals of a call end with it.
Return == pc' = "idle" /\ cmd' = "none" /\ arg' = 0 /\ led' = 0 /\ room' = 0 /\ buf' = <<>>

-----------------------------------------------------------------------------
(* The sending half of the line discipline. *)

AtMost(m, n) == IF m < n THEN m ELSE n

\* tuxctl_ldisc_put: the bytes that fit; its callers ignore how many do not.
Put(tx, bytes) == tx \o SubSeq(bytes, 1, AtMost(Len(bytes), TUXCTL_BUFSIZE - 1 - Len(tx)))

WriteRoom(o) == DRIVER_ROOM - Len(o)

\* Mistake: one byte at a time is taken, so that the lock does not cover a command.
Taken_One(tx, r) == AtMost(Len(tx), 1)
\* tuxctl_ldisc_write_wakeup takes bytes while n <= room.
Taken(tx, r) == AtMost(Len(tx), r + 1)

\* The driver writes what it has room for.
Written(o, bytes) == o \o SubSeq(bytes, 1, AtMost(Len(bytes), WriteRoom(o)))

\* put and write_wakeup without an interrupt between them: <<tx_buf, out>> afterwards.
Wakeup(tx, o) ==
  LET n == Taken(tx, WriteRoom(o))
  IN <<SubSeq(tx, n + 1, Len(tx)), Written(o, SubSeq(tx, 1, n))>>

-----------------------------------------------------------------------------
(* The ioctls. *)

\* The program initializes the controller, again in each game.
TuxInit ==
  /\ pc \in {"opened", "idle"} /\ CanBegin
  /\ cmd' = "TUX_INIT"
  /\ is_busy' = TRUE
  /\ GoTo("put")
  /\ UNCHANGED <<LED_status, button_status, tx_buf, arg, led, room, buf, out, packets, controller,
                 missed, loss>>

TuxSetLed ==
  /\ pc = "idle" /\ CanBegin
  /\ cmd' = "TUX_SET_LED"
  /\ \E time \in Times : arg' = DisplayTime(time)
  /\ GoTo("convert") /\ led' = 0
  /\ UNCHANGED <<driver, tx_buf, room, buf, out, packets, controller, missed, loss>>

ConvertEnds == led >= N_LEDS

\* One round of the loop that fills buf[] and LED_status writes the digit, then the point.
ConvertLed ==
  /\ pc = "convert" /\ ~ConvertEnds
  /\ LED_status' = [LED_status EXCEPT ![led] = Digit(arg, led)]
  /\ GoTo("point")
  /\ UNCHANGED <<is_busy, button_status, tx_buf, cmd, arg, led, room, buf, out, packets,
                 controller, missed, loss>>

AddPoint ==
  /\ pc = "point"
  /\ LED_status' = [LED_status EXCEPT ![led] = @ + Point(arg, led)]
  /\ led' = led + 1
  /\ GoTo("convert")
  /\ UNCHANGED <<is_busy, button_status, tx_buf, cmd, arg, room, buf, out, packets, controller,
                 missed, loss>>

\* A busy controller is left alone, and the program not told.
TestBusy ==
  /\ pc = "convert" /\ ConvertEnds
  /\ is_busy' = TRUE
  /\ IF is_busy THEN Return /\ missed' = TRUE
                ELSE GoTo("put") /\ UNCHANGED <<cmd, arg, led, room, buf, missed>>
  /\ UNCHANGED <<LED_status, button_status, tx_buf, out, packets, controller, loss>>

Command == IF cmd = "TUX_INIT" THEN TurnOn \o SetLeds(Off) ELSE SetLeds([l \in Leds |-> LedByte(arg, l)])

PutCommand ==
  /\ pc = "put"
  /\ tx_buf' = Put(tx_buf, Command)
  /\ missed' = FALSE
  /\ dropped' = IF cmd = "TUX_INIT" THEN {} ELSE dropped
  /\ GoTo("room")
  /\ UNCHANGED <<driver, cmd, arg, led, room, buf, out, packets, controller, drops>>

\* write_wakeup asks the driver before it takes the lock.
AskRoom ==
  /\ pc = "room"
  /\ room' = WriteRoom(out)
  /\ GoTo("take")
  /\ UNCHANGED <<driver, tx_buf, cmd, arg, led, buf, out, packets, controller, missed, loss>>

TakeBytes ==
  /\ pc = "take"
  /\ LET n == Taken(tx_buf, room) IN
       buf' = SubSeq(tx_buf, 1, n) /\ tx_buf' = SubSeq(tx_buf, n + 1, Len(tx_buf))
  /\ GoTo("write")
  /\ UNCHANGED <<driver, cmd, arg, led, room, out, packets, controller, missed, loss>>

WriteBytes ==
  /\ pc = "write"
  /\ out' = Written(out, buf)
  /\ IF cmd = "TUX_INIT" THEN GoTo("clear") /\ UNCHANGED <<cmd, arg, led, room, buf>>
                         ELSE Return
  /\ UNCHANGED <<driver, tx_buf, packets, controller, missed, loss>>

ClearStatus ==
  /\ pc = "clear"
  /\ LED_status' = Off
  /\ Return
  /\ UNCHANGED <<is_busy, button_status, tx_buf, out, packets, controller, missed, loss>>

-----------------------------------------------------------------------------
(* The interrupt handlers. *)

\* Mistake: an ACK does not free the controller.
AfterAck_Busy == is_busy
AfterAck == FALSE

HandleAck ==
  /\ packets # <<>> /\ Head(packets).type = "MTCP_ACK"
  /\ packets' = Tail(packets)
  /\ is_busy' = AfterAck
  /\ UNCHANGED <<LED_status, button_status, tx_buf, ioctl, out, controller, missed, loss>>

\* Mistake: left and down are not swapped.
StatusOf_Straight(b, c) == ((c * 16) % 256) + (b % 16)
\* The nibbles of the event in one byte, left and down swapped.
StatusOf(b, c) ==
  LET Nibbles == ((c * 16) % 256) + (b % 16)
      Without(n, bit) == IF HasBit(n, bit) THEN n - bit ELSE n
      bit_down == ((c \div 4) % 2) * 32
      bit_left == ((c \div 2) % 2) * 64
  IN Without(Without(Nibbles, 32) + bit_down, 64) + bit_left

HandleEvent ==
  /\ packets # <<>> /\ Head(packets).type = "MTCP_BIOC_EVENT"
  /\ packets' = Tail(packets)
  /\ button_status' = StatusOf(Head(packets).b, Head(packets).c)
  /\ UNCHANGED <<is_busy, LED_status, tx_buf, ioctl, out, controller, missed, loss>>

\* Mistake: the LEDs are not restored but cleared.
Restored_Off == Off
Restored == LED_status

\* A reset is answered with the modes, and the LEDs unless the controller is busy.
\* A reset that falls into TUX_INIT restores the word that TUX_INIT is about to clear.
HandleReset ==
  /\ packets # <<>> /\ Head(packets).type = "MTCP_RESET"
  /\ packets' = Tail(packets)
  /\ LET on == Wakeup(Put(tx_buf, TurnOn), out)
         restored == Wakeup(Put(on[1], SetLeds(Restored)), on[2])
         after == IF is_busy THEN on ELSE restored
     IN tx_buf' = after[1] /\ out' = after[2]
  /\ missed' = (is_busy \/ (cmd = "TUX_INIT" /\ pc \in {"room", "take", "write", "clear"}))
  /\ dropped' = {}
  /\ is_busy' = TRUE
  /\ UNCHANGED <<LED_status, button_status, ioctl, controller, drops>>

\* The line or the ring loses a byte of a packet, and the callback passes over the rest.
DropPacket ==
  /\ packets # <<>> /\ drops < MAX_DROPS
  /\ packets' = Tail(packets)
  /\ drops' = drops + 1
  /\ dropped' = dropped \cup {packets[1].type}
  /\ unseen' = (unseen \/ (packets[1].type = "MTCP_BIOC_EVENT" /\
                            \A j \in 2 .. Len(packets) : packets[j].type # "MTCP_BIOC_EVENT"))
  /\ UNCHANGED <<driver, tx_buf, ioctl, out, leds, mode, bioc, pressed, resets, missed>>

\* The serial driver has room again.
DriverWakeup ==
  /\ tx_buf # <<>> /\ WriteRoom(out) > 0
  /\ LET after == Wakeup(tx_buf, out) IN tx_buf' = after[1] /\ out' = after[2]
  /\ UNCHANGED <<driver, ioctl, packets, controller, missed, loss>>

-----------------------------------------------------------------------------
(* The controller. *)

\* It carries out a command and acknowledges it.  Digits without a command, which a
\* reset may leave, are nothing to it.
Execute ==
  /\ out # <<>>
  /\ LET b == Head(out).byte IN
     /\ b = "MTCP_LED_SET" => Len(out) > 1
     /\ out' = IF b = "MTCP_LED_SET" THEN Tail(Tail(out)) ELSE Tail(out)
     /\ leds' = IF b = "MTCP_LED_SET" THEN out[2].word ELSE leds
     /\ mode' = IF b = "MTCP_LED_USR" THEN "user" ELSE mode
     /\ bioc' = (bioc \/ b = "MTCP_BIOC_ON")
     /\ packets' = IF b = "digits" THEN packets ELSE Append(packets, Packet("MTCP_ACK"))
  /\ UNCHANGED <<driver, tx_buf, ioctl, pressed, resets, missed, unseen, loss>>

\* It is reset, shows its clock, and may not hear some of the bytes on the line.
Reset ==
  /\ resets < MAX_RESETS
  /\ resets' = resets + 1
  /\ \E n \in 0 .. Len(out) : out' = SubSeq(out, n + 1, Len(out))
  /\ leds' = Off /\ mode' = "clock" /\ bioc' = FALSE
  /\ packets' = Append(packets, Packet("MTCP_RESET"))
  /\ UNCHANGED <<driver, tx_buf, ioctl, pressed, missed, unseen, loss>>

\* A button goes down or up.
Press ==
  /\ \E n \in Buttons :
       pressed' = IF n \in pressed THEN pressed \ {n} ELSE pressed \cup {n}
  /\ CanBegin
  /\ packets' = IF bioc THEN Append(packets, Event(pressed')) ELSE packets
  /\ unseen' = ~bioc
  /\ UNCHANGED <<driver, tx_buf, ioctl, out, leds, mode, bioc, resets, missed, loss>>

\* An ioctl once it has begun; TUX_BUTTONS reads a byte, the other commands nothing.
Step == \/ ConvertLed \/ AddPoint \/ TestBusy \/ PutCommand \/ AskRoom \/ TakeBytes
        \/ WriteBytes \/ ClearStatus
tuxctl_ioctl == TuxInit \/ TuxSetLed \/ Step

\* Any other packet is ignored.
tuxctl_handle_packet == HandleAck \/ HandleEvent \/ HandleReset
Handler == tuxctl_handle_packet \/ DriverWakeup

Next ==
  \/ tuxctl_ioctl
  \/ Handler
  \/ Execute \/ Reset \/ Press \/ DropPacket

\* An ioctl runs on, packets that came are handled, the controller obeys.  Nothing says that
\* a packet is lost, nor that the controller is ever reset.
Fairness == WF_vars(Step) /\ WF_vars(Handler) /\ WF_vars(Execute)

Spec == Init /\ [][Next]_vars /\ Fairness

-----------------------------------------------------------------------------
ByteSet == [byte : {"MTCP_BIOC_ON", "MTCP_LED_USR", "MTCP_LED_SET", "digits"}, word : Words]
PacketTypes == {"MTCP_ACK", "MTCP_BIOC_EVENT", "MTCP_RESET"}
PacketSet == [type : PacketTypes, b : 0 .. 255, c : 0 .. 255]

TypeOK ==
  /\ is_busy \in BOOLEAN /\ LED_status \in Words /\ button_status \in 0 .. 255
  /\ tx_buf \in Seq(ByteSet) /\ Len(tx_buf) < TUXCTL_BUFSIZE
  /\ pc \in {"opened", "idle", "convert", "point", "put", "room", "take", "write", "clear"}
  /\ cmd \in {"none", "TUX_INIT", "TUX_SET_LED"} /\ arg \in Nat
  /\ led \in 0 .. N_LEDS /\ room \in 0 .. DRIVER_ROOM
  /\ buf \in Seq(ByteSet)
  /\ out \in Seq(ByteSet) /\ Len(out) <= DRIVER_ROOM
  /\ packets \in Seq(PacketSet)
  /\ leds \in Words /\ mode \in {"clock", "user"} /\ bioc \in BOOLEAN /\ pressed \subseteq Buttons
  /\ drops \in 0 .. MAX_DROPS /\ dropped \subseteq PacketTypes
  /\ resets \in 0 .. MAX_RESETS /\ missed \in BOOLEAN /\ unseen \in BOOLEAN

\* The two contexts that send never mix their bytes: what the driver is given is whole
\* commands, but for a first one that the controller is reading or was reset in.
CommandsWhole ==
  \A j \in 1 .. Len(out) :
    /\ out[j].byte = "MTCP_LED_SET" => j < Len(out) /\ out[j + 1].byte = "digits"
    /\ out[j].byte = "digits" /\ j > 1 => out[j - 1].byte = "MTCP_LED_SET"

\* When everything is done, the LEDs show what the program last asked for, resets or
\* not, unless the driver was busy at the time or was never told of a reset.
Quiet == pc = "idle" /\ tx_buf = <<>> /\ out = <<>> /\ packets = <<>>
LedsFollow == Quiet /\ ~missed /\ "MTCP_RESET" \notin dropped => mode = "user" /\ leds = LED_status

\* And TUX_BUTTONS tells which buttons are down.
ButtonsFollow ==
  packets = <<>> /\ ~unseen =>
    \A n \in DOMAIN BitOf : HasBit(button_status, BitOf[n]) <=> n \notin pressed

\* What frees a busy driver in the end: a command on its way, its acknowledgement, or a
\* reset, which is answered with commands.
AnswerDue ==
  \/ pc = "put" \/ tx_buf # <<>> \/ (pc = "write" /\ buf # <<>>)
  \/ \E j \in 1 .. Len(out) : out[j].byte # "digits"
  \/ \E j \in 1 .. Len(packets) : packets[j].type \in {"MTCP_ACK", "MTCP_RESET"}

\* A busy driver has such an answer to come, or it was lost.
AnswerLost == dropped \cap {"MTCP_ACK", "MTCP_RESET"} # {}
BusyAnswered == is_busy => AnswerDue \/ AnswerLost

\* A driver that is busy, and refuses commands, will not be so for ever, unless the line lost
\* the acknowledgement (or the news of the reset in which the command was lost) and nothing
\* is on its way: there is no timeout, and only the next reset or TUX_INIT ends this.
BusyEnds == is_busy ~> ~is_busy \/ (AnswerLost /\ ~AnswerDue)
=============================================================================
