------------------------------ MODULE TuxLine ------------------------------
(***************************************************************************)
(* The receiving half of the Tux line discipline (mp2, tuxctl-ld.c): bytes *)
(* of the controller go into a ring buffer and, a few at a time, through a *)
(* loop that finds the packets of three bytes by their framing bits.       *)
(*                                                                         *)
(* Bytes are numbered as the controller sends them: byte b is byte b % 3   *)
(* of packet b \div 3.  The serial line is external; it may lose any byte. *)
(***************************************************************************)
EXTENDS TuxBuffer, Sequences, FiniteSets

CONSTANTS
  PACKET_ROOM,     \* the size of packet[], 12
  MAX_BYTES,       \* bounds the bytes sent
  MAX_LOST         \* bounds the bytes that the line loses

ASSUME PacketAssumption == PACKET_ROOM \in Nat /\ PACKET_ROOM >= 3
ASSUME BoundAssumption == MAX_BYTES \in Nat /\ MAX_LOST \in Nat

VARIABLES
  disc_data,                  \* the line discipline has its buffers
  rx_buf, rx_start, rx_end,
  packet, i,                  \* the bytes that the callback looks at, and how many it has passed
  saved,                      \* leftovers of the last callback
  stage,                      \* where the interrupt handler is
  handled,                    \* history: the packets given to tuxctl_handle_packet
  arrived,                    \* history: how many bytes have left the line
  lost,                       \* history: the bytes that got lost
  passed                      \* history: the bytes before this one are done with

ring == <<rx_buf, rx_start, rx_end>>
callback == <<packet, i, saved>>
line == <<arrived, lost>>
lineVars == <<disc_data, rx_buf, rx_start, rx_end, packet, i, saved, stage, handled, arrived,
              lost, passed>>

\* The framing bit: clear in the first byte of a packet only.
IsFirst(b) == b % 3 = 0

BufEmpty == rx_start = rx_end

\* Mistake: no slot is left free.
BufFull_Never == FALSE
BufFull == IncIdx(rx_end) = rx_start

\* The bytes in the ring, oldest first.
Count == Used(rx_start, rx_end)
RingAt(k) == rx_buf[(rx_start + k) % TUXCTL_BUFSIZE]
Waiting == {RingAt(k) : k \in 0 .. Count - 1}

LineInit ==
  /\ disc_data = TRUE
  /\ rx_buf = [s \in Slots |-> 0] /\ rx_start = 0 /\ rx_end = 0
  /\ packet = <<>> /\ i = 0 /\ saved = <<>>
  /\ stage = "idle"
  /\ handled = <<>>
  /\ arrived = 0 /\ lost = {} /\ passed = 0

\* The serial driver comes with bytes.
Interrupt ==
  /\ stage = "idle"
  /\ stage' = "receive"
  /\ UNCHANGED <<disc_data, ring, callback, handled, line, passed>>

\* The line loses a byte.
LoseByte ==
  /\ stage = "receive" /\ arrived < MAX_BYTES /\ Cardinality(lost) < MAX_LOST
  /\ arrived' = arrived + 1
  /\ lost' = lost \cup {arrived}
  /\ UNCHANGED <<disc_data, ring, callback, stage, handled, passed>>

\* One round of the loop in rcv_buf; what does not fit is dropped.
ReceiveByte ==
  /\ stage = "receive" /\ arrived < MAX_BYTES
  /\ arrived' = arrived + 1
  /\ IF disc_data /\ ~BufFull
     THEN /\ rx_buf' = [rx_buf EXCEPT ![rx_end] = arrived]
          /\ rx_end' = IncIdx(rx_end)
          /\ UNCHANGED <<rx_start, lost>>
     ELSE /\ lost' = lost \cup {arrived}
          /\ UNCHANGED ring
  /\ UNCHANGED <<disc_data, callback, stage, handled, passed>>

\* rcv_buf calls the callback if there is a buffer, which begins with the
\* leftovers.
CallBack ==
  /\ stage = "receive"
  /\ IF disc_data THEN stage' = "get" /\ packet' = saved
                  ELSE stage' = "idle" /\ UNCHANGED packet
  /\ UNCHANGED <<disc_data, ring, i, saved, handled, line, passed>>

PacketFull == Len(packet) = PACKET_ROOM

\* One round of tuxctl_ldisc_get.
GetByte ==
  /\ stage = "get" /\ ~PacketFull /\ ~BufEmpty
  /\ packet' = Append(packet, rx_buf[rx_start])
  /\ rx_start' = IncIdx(rx_start)
  /\ UNCHANGED <<disc_data, rx_buf, rx_end, i, saved, stage, handled, line, passed>>

GetReturns ==
  /\ stage = "get" /\ (PacketFull \/ BufEmpty)
  /\ stage' = "look"
  /\ UNCHANGED <<disc_data, ring, callback, handled, line, passed>>

\* Mistake: only the first framing bit is checked.
IsPacket_FirstBit == IsFirst(packet[i + 1])
IsPacket == /\ IsFirst(packet[i + 1])
            /\ ~IsFirst(packet[i + 2])
            /\ ~IsFirst(packet[i + 3])

\* One round of the loop over packet[].
LookAt ==
  /\ stage = "look" /\ i < Len(packet) - 2
  /\ IF IsPacket
     THEN /\ handled' = Append(handled, <<packet[i + 1], packet[i + 2], packet[i + 3]>>)
          /\ i' = i + 3
     ELSE UNCHANGED handled /\ i' = i + 1
  /\ passed' = packet[i'] + 1
  /\ UNCHANGED <<disc_data, ring, packet, saved, stage, line>>

\* Mistake: the first bytes are kept instead of the last.
Leftovers_Head == SubSeq(packet, 1, Len(packet) - i)

Leftovers == SubSeq(packet, i + 1, Len(packet))

SaveLeftovers ==
  /\ stage = "look" /\ i >= Len(packet) - 2
  /\ saved' = Leftovers
  /\ packet' = <<>> /\ i' = 0
  /\ stage' = "idle"
  /\ UNCHANGED <<disc_data, ring, handled, line, passed>>

\* The program leaves the line discipline, what is in the buffer is lost, or
\* enters it with a new one.  The leftovers stay.
CloseLine ==
  /\ stage = "idle" /\ disc_data
  /\ disc_data' = FALSE
  /\ lost' = lost \cup Waiting
  /\ rx_end' = rx_start
  /\ UNCHANGED <<rx_buf, rx_start, callback, stage, handled, arrived, passed>>

OpenLine ==
  /\ stage = "idle" /\ ~disc_data
  /\ disc_data' = TRUE
  /\ rx_start' = 0 /\ rx_end' = 0
  /\ UNCHANGED <<rx_buf, callback, stage, handled, line, passed>>

LineNext ==
  \/ Interrupt \/ LoseByte \/ ReceiveByte \/ CallBack
  \/ GetByte \/ GetReturns \/ LookAt \/ SaveLeftovers
  \/ CloseLine \/ OpenLine

LineSpec == LineInit /\ [][LineNext]_lineVars

-----------------------------------------------------------------------------
Bytes == Nat

\* packet[] and saved[] are not overrun, the indices stay in the ring.
LineTypeOK ==
  /\ disc_data \in BOOLEAN
  /\ rx_buf \in [Slots -> Bytes] /\ rx_start \in Slots /\ rx_end \in Slots
  /\ packet \in Seq(Bytes) /\ Len(packet) <= PACKET_ROOM /\ i \in 0 .. Len(packet)
  /\ saved \in Seq(Bytes) /\ Len(saved) <= 2
  /\ stage \in {"idle", "receive", "get", "look"}
  /\ handled \in Seq(Bytes \X Bytes \X Bytes)
  /\ arrived \in Nat /\ lost \subseteq Nat /\ passed \in Nat

\* No byte is handled twice, and packets are handled in the order they were sent.
PacketsInOrder ==
  \A j, k \in 1 .. Len(handled) : j < k => handled[j][3] < handled[k][1]

\* A packet is handled as it was sent, unless two losses fell together: a byte of the
\* packet it begins with, and the first byte of the packet it ends with.
BytesOf(p) == {3 * p, 3 * p + 1, 3 * p + 2}
FramesTell ==
  \A j \in 1 .. Len(handled) :
    LET p == handled[j][1] \div 3  q == handled[j][3] \div 3 IN
    \/ handled[j] = <<3 * p, 3 * p + 1, 3 * p + 2>>
    \/ p < q /\ BytesOf(p) \cap lost # {} /\ 3 * q \in lost

\* Whatever is lost around it, a packet that comes whole is handled, once the callback
\* has passed its first byte.
WholePacketsHandled ==
  \A p \in 0 .. passed \div 3 :
    3 * p < passed /\ BytesOf(p) \cap lost = {} =>
      \E j \in 1 .. Len(handled) : handled[j] = <<3 * p, 3 * p + 1, 3 * p + 2>>
=============================================================================
