----------------------------- MODULE TuxProofs -----------------------------
(***************************************************************************)
(* For any sizes of the ring and of packet[], any losses and any number of *)
(* bytes: packets are handled in order, a packet that comes whole is       *)
(* handled, and one that is handled but was not sent betrays two losses    *)
(* (TuxLine).  And for any numbers of LEDs, resets, lost packets and bytes *)
(* underway that the serial driver has room for: the bytes of two commands *)
(* never mix, the LEDs and the buttons are in the end as the driver has    *)
(* them, and a busy driver is freed unless the packet that would do it is  *)
(* lost (TuxCtl).                                                          *)
(***************************************************************************)
EXTENDS TuxLine, TuxCtl, SequenceTheorems, FiniteSetTheorems, TLAPS

\* What the callback holds between interrupts is in saved, then in packet from i on.
Resting == stage \in {"idle", "receive"}
Kept == IF Resting THEN saved ELSE packet
Gone == IF Resting THEN 0 ELSE i

Stages ==
  /\ Resting => packet = <<>>
  /\ stage # "look" => i = 0
  /\ ~disc_data => BufEmpty /\ Resting

\* The bytes on their way, from the first that was not passed to the last that came.
Rising ==
  /\ \A j, k \in 1 .. Len(Kept) : j < k => Kept[j] < Kept[k]
  /\ \A j, k \in 0 .. Count - 1 : j < k => RingAt(j) < RingAt(k)
  /\ \A j \in 1 .. Len(Kept), k \in 0 .. Count - 1 : Kept[j] < RingAt(k)
  /\ \A j \in 1 .. Len(Kept) : Kept[j] < arrived
  /\ \A k \in 0 .. Count - 1 : RingAt(k) < arrived
  /\ passed <= arrived
  /\ \A j \in Gone + 1 .. Len(Kept) : passed <= Kept[j]
  /\ \A k \in 0 .. Count - 1 : passed <= RingAt(k)

OnItsWay(b) == \/ \E j \in Gone + 1 .. Len(Kept) : Kept[j] = b
               \/ \E k \in 0 .. Count - 1 : RingAt(k) = b
Accounted == \A b \in Nat : passed <= b /\ b < arrived => b \in lost \/ OnItsWay(b)

HandledPassed == \A j \in 1 .. Len(handled) : handled[j][3] < passed

LineInv ==
  /\ LineTypeOK /\ Stages /\ Rising /\ Accounted /\ HandledPassed
  /\ PacketsInOrder /\ FramesTell /\ WholePacketsHandled

\* The ring: indices without the modulus, and what putting and getting a byte does.
LEMMA SlotOf ==
  ASSUME NEW s \in Slots, NEW k \in Slots
  PROVE  /\ (s + k) % TUXCTL_BUFSIZE \in Slots
         /\ s + k < TUXCTL_BUFSIZE => (s + k) % TUXCTL_BUFSIZE = s + k
         /\ s + k >= TUXCTL_BUFSIZE => (s + k) % TUXCTL_BUFSIZE = s + k - TUXCTL_BUFSIZE
BY BufferAssumption DEF Slots

LEMMA NextSlot ==
  ASSUME NEW s \in Slots
  PROVE  /\ IncIdx(s) \in Slots
         /\ s # TUXCTL_BUFSIZE - 1 => IncIdx(s) = s + 1
         /\ s = TUXCTL_BUFSIZE - 1 => IncIdx(s) = 0
BY BufferAssumption DEF Slots, IncIdx

LEMMA CountType ==
  ASSUME rx_start \in Slots, rx_end \in Slots
  PROVE  Count \in Slots /\ (Count = 0 <=> BufEmpty)
BY BufferAssumption DEF Slots, Count, Used, BufEmpty

LEMMA PutByte ==
  ASSUME rx_buf \in [Slots -> Bytes], rx_start \in Slots, rx_end \in Slots, ~BufFull,
         NEW b \in Bytes, rx_buf' = [rx_buf EXCEPT ![rx_end] = b], rx_end' = IncIdx(rx_end),
         rx_start' = rx_start
  PROVE  /\ rx_buf' \in [Slots -> Bytes] /\ rx_end' \in Slots
         /\ Count' = Count + 1
         /\ \A k \in 0 .. Count - 1 : RingAt(k)' = RingAt(k)
         /\ \A k \in 0 .. Count' - 1 : k >= Count => RingAt(k)' = b
<1>1. rx_buf' \in [Slots -> Bytes] /\ rx_end' \in Slots
  BY NextSlot
<1>. /\ rx_start \in Nat /\ rx_end \in Nat /\ TUXCTL_BUFSIZE \in Nat
     /\ rx_start < TUXCTL_BUFSIZE /\ rx_end < TUXCTL_BUFSIZE
  BY BufferAssumption DEF Slots
<1>2. Count' = Count + 1 /\ Count \in Nat /\ Count + 1 < TUXCTL_BUFSIZE
  <2>1. /\ rx_end' # rx_start
        /\ rx_end # TUXCTL_BUFSIZE - 1 => rx_end' = rx_end + 1
        /\ rx_end = TUXCTL_BUFSIZE - 1 => rx_end' = 0
    BY NextSlot DEF BufFull
  <2>2. CASE rx_end = TUXCTL_BUFSIZE - 1
    BY <2>1, <2>2 DEF Count, Used
  <2>3. CASE rx_end # TUXCTL_BUFSIZE - 1
    BY <2>1, <2>3 DEF Count, Used
  <2>. QED
    BY <2>2, <2>3
<1>3. ASSUME NEW k \in Slots, k <= Count
      PROVE  (rx_start + k) % TUXCTL_BUFSIZE = rx_end <=> k = Count
  <2>1. k \in Nat /\ k < TUXCTL_BUFSIZE
    BY DEF Slots
  <2>2. /\ rx_start + k < TUXCTL_BUFSIZE => (rx_start + k) % TUXCTL_BUFSIZE = rx_start + k
        /\ rx_start + k >= TUXCTL_BUFSIZE
             => (rx_start + k) % TUXCTL_BUFSIZE = rx_start + k - TUXCTL_BUFSIZE
    BY SlotOf
  <2>. QED
    BY <1>3, <2>1, <2>2 DEF Count, Used
<1>4. ASSUME NEW k \in 0 .. Count - 1 PROVE RingAt(k)' = RingAt(k)
  <2>1. k \in Slots /\ k <= Count /\ k # Count
    BY <1>2, BufferAssumption DEF Slots
  <2>. QED
    BY <1>3, <2>1, SlotOf DEF RingAt
<1>5. ASSUME NEW k \in 0 .. Count' - 1, k >= Count PROVE RingAt(k)' = b
  <2>1. k \in Slots /\ k = Count
    BY <1>2, <1>5, BufferAssumption DEF Slots
  <2>. QED
    BY <1>3, <2>1 DEF RingAt
<1>. QED
  BY <1>1, <1>2, <1>4, <1>5

LEMMA TakeByte ==
  ASSUME rx_buf \in [Slots -> Bytes], rx_start \in Slots, rx_end \in Slots, ~BufEmpty,
         rx_start' = IncIdx(rx_start), rx_end' = rx_end, rx_buf' = rx_buf
  PROVE  /\ rx_start' \in Slots
         /\ Count' = Count - 1 /\ Count > 0
         /\ rx_buf[rx_start] = RingAt(0)
         /\ \A k \in 0 .. Count' - 1 : RingAt(k)' = RingAt(k + 1)
<1>1. /\ rx_start' \in Slots
      /\ rx_start # TUXCTL_BUFSIZE - 1 => rx_start' = rx_start + 1
      /\ rx_start = TUXCTL_BUFSIZE - 1 => rx_start' = 0
  BY NextSlot
<1>. /\ rx_start \in Nat /\ rx_end \in Nat /\ TUXCTL_BUFSIZE \in Nat
     /\ rx_start < TUXCTL_BUFSIZE /\ rx_end < TUXCTL_BUFSIZE
  BY BufferAssumption DEF Slots
<1>2. Count' = Count - 1 /\ Count > 0 /\ Count \in Nat /\ Count < TUXCTL_BUFSIZE
  <2>1. CASE rx_start = TUXCTL_BUFSIZE - 1
    BY <1>1, <2>1 DEF Count, Used, BufEmpty
  <2>2. CASE rx_start # TUXCTL_BUFSIZE - 1
    BY <1>1, <2>2 DEF Count, Used, BufEmpty
  <2>. QED
    BY <2>1, <2>2
<1>3. rx_buf[rx_start] = RingAt(0)
  <2>1. rx_start % TUXCTL_BUFSIZE = rx_start /\ rx_start + 0 = rx_start
    OBVIOUS
  <2>. QED
    BY <2>1 DEF RingAt
<1>4. ASSUME NEW k \in 0 .. Count' - 1 PROVE RingAt(k)' = RingAt(k + 1)
  <2>1. k \in Slots /\ k + 1 \in Slots /\ k \in Nat
    BY <1>2, BufferAssumption DEF Slots
  <2>2. (rx_start' + k) % TUXCTL_BUFSIZE = (rx_start + (k + 1)) % TUXCTL_BUFSIZE
    <3>1. /\ rx_start + (k + 1) < TUXCTL_BUFSIZE
               => (rx_start + (k + 1)) % TUXCTL_BUFSIZE = rx_start + (k + 1)
          /\ rx_start + (k + 1) >= TUXCTL_BUFSIZE
               => (rx_start + (k + 1)) % TUXCTL_BUFSIZE = rx_start + (k + 1) - TUXCTL_BUFSIZE
      BY <2>1, SlotOf
    <3>2. /\ rx_start' + k < TUXCTL_BUFSIZE
               => (rx_start' + k) % TUXCTL_BUFSIZE = rx_start' + k
          /\ rx_start' + k >= TUXCTL_BUFSIZE
               => (rx_start' + k) % TUXCTL_BUFSIZE = rx_start' + k - TUXCTL_BUFSIZE
      BY <1>1, <2>1, SlotOf
    <3>3. k < TUXCTL_BUFSIZE - 1
      BY <1>2
    <3>. QED
      BY <1>1, <2>1, <3>1, <3>2, <3>3
  <2>. QED
    BY <2>2 DEF RingAt
<1>. QED
  BY <1>1, <1>2, <1>3, <1>4

LEMMA RingBytes ==
  ASSUME rx_buf \in [Slots -> Bytes], rx_start \in Slots, rx_end \in Slots,
         NEW k \in 0 .. Count - 1
  PROVE  RingAt(k) \in Bytes
<1>1. k \in Slots
  BY CountType, BufferAssumption DEF Slots
<1>. QED
  BY <1>1, SlotOf DEF RingAt

-----------------------------------------------------------------------------
\* What is said of the handled packets stays when no packet is handled.
LEMMA NoneHandled ==
  ASSUME LineInv, handled' = handled, passed' = passed, lost \subseteq lost'
  PROVE  HandledPassed' /\ PacketsInOrder' /\ FramesTell' /\ WholePacketsHandled'
<1>1. HandledPassed' /\ PacketsInOrder'
  BY DEF LineInv, HandledPassed, PacketsInOrder
<1>2. FramesTell'
  BY DEF LineInv, FramesTell, BytesOf
<1>3. WholePacketsHandled'
  BY DEF LineInv, WholePacketsHandled, BytesOf
<1>. QED
  BY <1>1, <1>2, <1>3

\* Steps that move the handler on and leave the bytes where they are.
LEMMA SameBytes ==
  ASSUME LineInv, Kept' = Kept, Gone' = Gone, UNCHANGED <<ring, line, handled, passed>>,
         LineTypeOK', Stages'
  PROVE  LineInv'
<1>1. Count' = Count /\ \A k : RingAt(k)' = RingAt(k)
  BY DEF ring, Count, RingAt
<1>2. Rising'
  BY <1>1 DEF LineInv, Rising, line
<1>3. Accounted'
  BY <1>1 DEF LineInv, Accounted, OnItsWay, line
<1>. QED
  BY <1>2, <1>3, NoneHandled DEF LineInv, line

LEMMA InitInv == LineInit => LineInv
<1>. SUFFICES ASSUME LineInit PROVE LineInv
  OBVIOUS
<1>1. 0 \in Slots /\ Count = 0
  BY BufferAssumption DEF LineInit, Slots, Count, Used
<1>2. LineTypeOK
  BY <1>1, PacketAssumption DEF LineInit, LineTypeOK, Bytes
<1>3. Stages
  BY DEF LineInit, Stages, Resting, BufEmpty
<1>4. Rising /\ Accounted
  BY <1>1 DEF LineInit, Rising, Accounted, Kept, Gone, Resting
<1>5. HandledPassed /\ PacketsInOrder /\ FramesTell /\ WholePacketsHandled
  BY DEF LineInit, HandledPassed, PacketsInOrder, FramesTell, WholePacketsHandled
<1>. QED
  BY <1>2, <1>3, <1>4, <1>5 DEF LineInv

LEMMA InterruptInv == ASSUME LineInv, Interrupt PROVE LineInv'
<1>1. LineTypeOK'
  BY DEF LineInv, LineTypeOK, Interrupt, ring, callback, line
<1>2. Stages'
  BY DEF LineInv, Stages, Interrupt, Resting, BufEmpty, ring, callback
<1>3. Kept' = Kept /\ Gone' = Gone
  BY DEF Interrupt, Kept, Gone, Resting, callback
<1>. QED
  BY <1>1, <1>2, <1>3, SameBytes DEF Interrupt

LEMMA CallBackInv == ASSUME LineInv, CallBack PROVE LineInv'
<1>1. LineTypeOK'
  <2>1. /\ saved \in Seq(Bytes) /\ Len(saved) <= 2 /\ Len(saved) \in Nat /\ i = 0
        /\ Len(saved) <= PACKET_ROOM /\ 0 \in 0 .. Len(saved)
    BY PacketAssumption DEF CallBack, LineInv, LineTypeOK, Stages
  <2>2. packet' \in Seq(Bytes) /\ Len(packet') <= PACKET_ROOM /\ i' \in 0 .. Len(packet')
    BY <2>1 DEF CallBack, LineInv, LineTypeOK
  <2>. QED
    BY <2>2 DEF LineInv, LineTypeOK, CallBack, ring, line
<1>2. Stages'
  BY DEF LineInv, Stages, CallBack, Resting, BufEmpty, ring
<1>3. Kept' = Kept /\ Gone' = Gone
  BY DEF LineInv, Stages, CallBack, Kept, Gone, Resting
<1>. QED
  BY <1>1, <1>2, <1>3, SameBytes DEF CallBack

LEMMA GetReturnsInv == ASSUME LineInv, GetReturns PROVE LineInv'
<1>1. LineTypeOK'
  BY DEF LineInv, LineTypeOK, GetReturns, ring, callback, line
<1>2. Stages'
  BY DEF LineInv, Stages, GetReturns, Resting, BufEmpty, ring, callback
<1>3. Kept' = Kept /\ Gone' = Gone
  BY DEF LineInv, Stages, GetReturns, Kept, Gone, Resting, callback
<1>. QED
  BY <1>1, <1>2, <1>3, SameBytes DEF GetReturns

LEMMA LoseByteInv == ASSUME LineInv, LoseByte PROVE LineInv'
<1>1. /\ arrived' = arrived + 1 /\ lost' = lost \cup {arrived}
      /\ UNCHANGED <<disc_data, ring, callback, stage, handled, passed>>
  BY DEF LoseByte
<1>2. LineTypeOK' /\ Stages'
  BY <1>1 DEF LineInv, LineTypeOK, Stages, Resting, BufEmpty, ring, callback
<1>3. Kept' = Kept /\ Gone' = Gone /\ Count' = Count /\ \A k : RingAt(k)' = RingAt(k)
  BY <1>1 DEF Kept, Gone, Resting, Count, RingAt, ring, callback
<1>4. Kept \in Seq(Bytes) /\ arrived \in Nat /\ passed \in Nat
      /\ \A k \in 0 .. Count - 1 : RingAt(k) \in Nat
  BY RingBytes DEF LineInv, LineTypeOK, Kept, Bytes
<1>5. Rising'
  <2>1. \A j \in 1 .. Len(Kept) : Kept[j] \in Nat
    BY <1>4 DEF Bytes
  <2>. QED
    BY <1>1, <1>3, <1>4, <2>1 DEF LineInv, Rising
<1>6. Accounted'
  BY <1>1, <1>3, <1>4 DEF LineInv, Accounted, OnItsWay
<1>. QED
  BY <1>1, <1>2, <1>5, <1>6, NoneHandled DEF LineInv

LEMMA ReceiveByteInv == ASSUME LineInv, ReceiveByte PROVE LineInv'
<1>1. /\ stage = "receive" /\ arrived' = arrived + 1
      /\ UNCHANGED <<disc_data, callback, stage, handled, passed>>
  BY DEF ReceiveByte
<1>2. Kept' = Kept /\ Gone' = Gone
  BY <1>1 DEF Kept, Gone, Resting, callback
<1>3. Kept \in Seq(Bytes) /\ arrived \in Nat /\ passed \in Nat
      /\ (\A k \in 0 .. Count - 1 : RingAt(k) \in Nat)
      /\ (\A j \in 1 .. Len(Kept) : Kept[j] \in Nat)
      /\ rx_buf \in [Slots -> Bytes] /\ rx_start \in Slots /\ rx_end \in Slots
  BY RingBytes DEF LineInv, LineTypeOK, Kept, Bytes
<1>4. CASE disc_data /\ ~BufFull
  <2>1. /\ rx_buf' = [rx_buf EXCEPT ![rx_end] = arrived] /\ rx_end' = IncIdx(rx_end)
        /\ rx_start' = rx_start /\ lost' = lost
    BY <1>4 DEF ReceiveByte
  <2>2. /\ rx_buf' \in [Slots -> Bytes] /\ rx_end' \in Slots /\ Count' = Count + 1
        /\ \A k \in 0 .. Count - 1 : RingAt(k)' = RingAt(k)
        /\ \A k \in 0 .. Count' - 1 : k >= Count => RingAt(k)' = arrived
    BY <1>3, <1>4, <2>1, PutByte DEF Bytes
  <2>3. Count \in Nat
    BY <1>3, CountType DEF Slots
  <2>4. LineTypeOK' /\ Stages'
    BY <1>1, <1>4, <2>1, <2>2 DEF LineInv, LineTypeOK, Stages, Resting, callback
  <2>5. \A k \in 0 .. Count' - 1 : \/ k \in 0 .. Count - 1 /\ RingAt(k)' = RingAt(k)
                                   \/ k = Count /\ RingAt(k)' = arrived
    BY <2>2, <2>3
  <2>6. Rising'
    BY <1>1, <1>2, <1>3, <2>2, <2>3, <2>5 DEF LineInv, Rising
  <2>7. Accounted'
    <3>. SUFFICES ASSUME NEW b \in Nat, passed <= b, b < arrived + 1
                  PROVE  b \in lost \/ OnItsWay(b)'
      BY <1>1, <2>1 DEF Accounted
    <3>1. CASE b = arrived
      BY <2>2, <2>3, <3>1 DEF OnItsWay
    <3>2. CASE b # arrived
      <4>1. b \in lost \/ OnItsWay(b)
        BY <1>3, <3>2 DEF LineInv, Accounted
      <4>. QED
        BY <1>2, <2>2, <2>3, <4>1 DEF OnItsWay
    <3>. QED
      BY <3>1, <3>2
  <2>. QED
    BY <1>1, <2>1, <2>4, <2>6, <2>7, NoneHandled DEF LineInv
<1>5. CASE ~(disc_data /\ ~BufFull)
  <2>1. lost' = lost \cup {arrived} /\ UNCHANGED ring
    BY <1>5 DEF ReceiveByte
  <2>2. Count' = Count /\ \A k : RingAt(k)' = RingAt(k)
    BY <2>1 DEF Count, RingAt, ring
  <2>3. LineTypeOK' /\ Stages'
    BY <1>1, <2>1 DEF LineInv, LineTypeOK, Stages, Resting, BufEmpty, ring, callback
  <2>4. Rising'
    BY <1>1, <1>2, <1>3, <2>2 DEF LineInv, Rising
  <2>5. Accounted'
    BY <1>1, <1>2, <1>3, <2>1, <2>2 DEF LineInv, Accounted, OnItsWay
  <2>. QED
    BY <1>1, <2>1, <2>3, <2>4, <2>5, NoneHandled DEF LineInv
<1>. QED
  BY <1>4, <1>5

\* The oldest byte of the ring becomes the youngest of packet[].
LEMMA GetByteInv == ASSUME LineInv, GetByte PROVE LineInv'
<1>1. /\ stage = "get" /\ ~BufEmpty /\ ~PacketFull
      /\ packet' = Append(packet, rx_buf[rx_start])
      /\ rx_start' = IncIdx(rx_start) /\ rx_end' = rx_end /\ rx_buf' = rx_buf
      /\ UNCHANGED <<disc_data, i, saved, stage, handled, passed, arrived, lost>>
  BY DEF GetByte, line
<1>2. /\ rx_buf \in [Slots -> Bytes] /\ rx_start \in Slots /\ rx_end \in Slots
      /\ packet \in Seq(Bytes) /\ arrived \in Nat /\ passed \in Nat /\ i = 0
  BY <1>1 DEF LineInv, LineTypeOK, Stages
<1>3. /\ rx_start' \in Slots /\ Count' = Count - 1 /\ Count > 0 /\ Count \in Nat
      /\ rx_buf[rx_start] = RingAt(0) /\ RingAt(0) \in Bytes
      /\ \A k \in 0 .. Count' - 1 : RingAt(k)' = RingAt(k + 1)
  <2>1. Count \in Nat
    BY <1>2, CountType DEF Slots
  <2>2. /\ rx_start' \in Slots /\ Count' = Count - 1 /\ Count > 0
        /\ rx_buf[rx_start] = RingAt(0)
        /\ \A k \in 0 .. Count' - 1 : RingAt(k)' = RingAt(k + 1)
    BY <1>1, <1>2, TakeByte
  <2>3. RingAt(0) \in Bytes
    BY <1>2, <2>1, <2>2, RingBytes
  <2>. QED
    BY <2>1, <2>2, <2>3
<1>4. Kept = packet /\ Gone = 0 /\ Kept' = packet' /\ Gone' = 0
  BY <1>1, <1>2 DEF Kept, Gone, Resting
<1>5. /\ packet' \in Seq(Bytes) /\ Len(packet') = Len(packet) + 1 /\ Len(packet) \in Nat
      /\ \A j \in 1 .. Len(packet) : packet'[j] = packet[j]
      /\ packet'[Len(packet) + 1] = RingAt(0)
  BY <1>1, <1>2, <1>3, AppendProperties
<1>6. LineTypeOK' /\ Stages'
  <2>1. Len(packet') <= PACKET_ROOM
    BY <1>1, <1>5, PacketAssumption DEF PacketFull, LineInv, LineTypeOK
  <2>2. disc_data
    BY <1>1 DEF LineInv, Stages
  <2>. QED
    BY <1>1, <1>2, <1>3, <1>5, <2>1, <2>2 DEF LineInv, LineTypeOK, Stages, Resting
<1>7. \A j \in 1 .. Len(packet') : \/ j \in 1 .. Len(packet) /\ packet'[j] = packet[j]
                                   \/ j = Len(packet) + 1 /\ packet'[j] = RingAt(0)
  BY <1>5
<1>8. /\ \A j \in 1 .. Len(packet) : packet[j] \in Nat
      /\ \A k \in 0 .. Count - 1 : RingAt(k) \in Nat
  BY <1>2, RingBytes DEF Bytes
<1>9. /\ \A j, k \in 1 .. Len(packet) : j < k => packet[j] < packet[k]
      /\ \A j, k \in 0 .. Count - 1 : j < k => RingAt(j) < RingAt(k)
      /\ \A j \in 1 .. Len(packet), k \in 0 .. Count - 1 : packet[j] < RingAt(k)
      /\ \A j \in 1 .. Len(packet) : packet[j] < arrived
      /\ \A k \in 0 .. Count - 1 : RingAt(k) < arrived /\ passed <= RingAt(k)
      /\ \A j \in 1 .. Len(packet) : passed <= packet[j]
      /\ passed <= arrived
  BY <1>4 DEF LineInv, Rising
<1>10. Rising'
  <2>1. \A j, k \in 1 .. Len(packet') : j < k => packet'[j] < packet'[k]
    BY <1>3, <1>5, <1>7, <1>9
  <2>2. \A j, k \in 0 .. Count' - 1 : j < k => RingAt(j)' < RingAt(k)'
    BY <1>3, <1>9
  <2>3. \A j \in 1 .. Len(packet'), k \in 0 .. Count' - 1 : packet'[j] < RingAt(k)'
    BY <1>3, <1>5, <1>7, <1>9, SMTT(30)
  <2>4. \A j \in 1 .. Len(packet') : packet'[j] < arrived /\ passed <= packet'[j]
    BY <1>3, <1>5, <1>7, <1>9
  <2>5. \A k \in 0 .. Count' - 1 : RingAt(k)' < arrived /\ passed <= RingAt(k)'
    BY <1>3, <1>9
  <2>. QED
    BY <1>1, <1>4, <1>9, <2>1, <2>2, <2>3, <2>4, <2>5 DEF Rising
<1>11. Accounted'
  <2>. SUFFICES ASSUME NEW b \in Nat, OnItsWay(b) PROVE OnItsWay(b)'
    BY <1>1 DEF LineInv, Accounted
  <2>1. CASE \E j \in 1 .. Len(packet) : packet[j] = b
    BY <1>4, <1>5, <2>1 DEF OnItsWay
  <2>2. ASSUME NEW k \in 0 .. Count - 1, RingAt(k) = b PROVE OnItsWay(b)'
    <3>1. CASE k = 0
      BY <1>4, <1>5, <2>2, <3>1 DEF OnItsWay
    <3>2. CASE k # 0
      <4>1. k - 1 \in 0 .. Count' - 1 /\ RingAt(k - 1)' = RingAt(k)
        BY <1>3, <3>2
      <4>. QED
        BY <2>2, <4>1 DEF OnItsWay
    <3>. QED
      BY <3>1, <3>2
  <2>. QED
    BY <1>4, <2>1, <2>2 DEF OnItsWay
<1>. QED
  BY <1>1, <1>6, <1>10, <1>11, NoneHandled DEF LineInv

\* The leftovers are the bytes that the loop has not passed.
LEMMA SaveLeftoversInv == ASSUME LineInv, SaveLeftovers PROVE LineInv'
<1>1. /\ stage = "look" /\ i >= Len(packet) - 2 /\ saved' = SubSeq(packet, i + 1, Len(packet))
      /\ packet' = <<>> /\ i' = 0 /\ stage' = "idle"
      /\ UNCHANGED <<disc_data, ring, handled, line, passed>>
  BY DEF SaveLeftovers, Leftovers
<1>2. packet \in Seq(Bytes) /\ i \in 0 .. Len(packet) /\ Len(packet) \in Nat
  BY DEF LineInv, LineTypeOK
<1>3. /\ saved' \in Seq(Bytes) /\ Len(saved') = Len(packet) - i
      /\ \A j \in 1 .. Len(packet) - i : saved'[j] = packet[i + j]
  <2>1. saved' \in Seq(Bytes) /\ Len(saved') = Len(packet) - i
    BY <1>1, <1>2, SubSeqProperties
  <2>2. \A j \in 1 .. Len(packet) - i : saved'[j] = packet[i + j]
    BY <1>1, <1>2, SubSeqProperties
  <2>. QED
    BY <2>1, <2>2
<1>4. Kept = packet /\ Gone = i /\ Kept' = saved' /\ Gone' = 0
  BY <1>1 DEF Kept, Gone, Resting
<1>5. Count' = Count /\ \A k : RingAt(k)' = RingAt(k)
  BY <1>1 DEF ring, Count, RingAt
<1>6. LineTypeOK' /\ Stages'
  <2>1. packet' \in Seq(Bytes) /\ Len(packet') <= PACKET_ROOM /\ i' \in 0 .. Len(packet')
    BY <1>1, PacketAssumption, EmptySeq
  <2>2. Len(saved') <= 2
    BY <1>1, <1>2, <1>3
  <2>. QED
    BY <1>1, <1>3, <2>1, <2>2 DEF LineInv, LineTypeOK, Stages, Resting, BufEmpty, ring, line
<1>7. Rising'
  <2>1. \A j \in 1 .. Len(saved') : i + j \in 1 .. Len(packet) /\ i + j \in i + 1 .. Len(packet)
                                    /\ saved'[j] = packet[i + j]
    BY <1>2, <1>3
  <2>2. /\ \A j, k \in 1 .. Len(saved') : j < k => saved'[j] < saved'[k]
        /\ \A j \in 1 .. Len(saved'), k \in 0 .. Count - 1 : saved'[j] < RingAt(k)
        /\ \A j \in 1 .. Len(saved') : saved'[j] < arrived /\ passed <= saved'[j]
    <3>1. \A j, k \in 1 .. Len(saved') : j < k => i + j < i + k
      BY <1>2
    <3>. QED
      BY <1>4, <2>1, <3>1 DEF LineInv, Rising
  <2>3. \A j \in Gone' + 1 .. Len(saved') : passed <= saved'[j]
    BY <1>3, <1>4, <2>2
  <2>. QED
    BY <1>1, <1>4, <1>5, <2>2, <2>3 DEF LineInv, Rising, line
<1>8. Accounted'
  <2>. SUFFICES ASSUME NEW b \in Nat, OnItsWay(b) PROVE OnItsWay(b)'
    BY <1>1 DEF LineInv, Accounted, line
  <2>1. ASSUME NEW j \in i + 1 .. Len(packet), packet[j] = b PROVE OnItsWay(b)'
    <3>1. j - i \in 1 .. Len(saved') /\ saved'[j - i] = packet[i + (j - i)] /\ i + (j - i) = j
      BY <1>2, <1>3
    <3>. QED
      BY <1>4, <2>1, <3>1 DEF OnItsWay
  <2>2. CASE \E k \in 0 .. Count - 1 : RingAt(k) = b
    BY <1>5, <2>2 DEF OnItsWay
  <2>. QED
    BY <1>4, <2>1, <2>2 DEF OnItsWay
<1>. QED
  BY <1>1, <1>6, <1>7, <1>8, NoneHandled DEF LineInv, line

LEMMA CloseLineInv == ASSUME LineInv, CloseLine PROVE LineInv'
<1>1. /\ stage = "idle" /\ lost' = lost \cup Waiting /\ rx_end' = rx_start /\ disc_data' = FALSE
      /\ UNCHANGED <<rx_buf, rx_start, callback, stage, handled, arrived, passed>>
  BY DEF CloseLine
<1>2. rx_start \in Slots /\ rx_end \in Slots /\ rx_buf \in [Slots -> Bytes]
  BY DEF LineInv, LineTypeOK
<1>3. Count' = 0 /\ BufEmpty' /\ Waiting \subseteq Nat
  BY <1>1, <1>2, RingBytes DEF Count, Used, BufEmpty, Slots, Waiting, Bytes
<1>4. Kept' = Kept /\ Gone' = Gone
  BY <1>1 DEF Kept, Gone, Resting, callback
<1>5. LineTypeOK' /\ Stages'
  BY <1>1, <1>2, <1>3 DEF LineInv, LineTypeOK, Stages, Resting, callback
<1>6. Rising'
  BY <1>1, <1>3, <1>4 DEF LineInv, Rising
<1>7. Accounted'
  BY <1>1, <1>4 DEF LineInv, Accounted, OnItsWay, Waiting
<1>. QED
  BY <1>1, <1>5, <1>6, <1>7, NoneHandled DEF LineInv

LEMMA OpenLineInv == ASSUME LineInv, OpenLine PROVE LineInv'
<1>1. /\ stage = "idle" /\ ~disc_data /\ disc_data' = TRUE /\ rx_start' = 0 /\ rx_end' = 0
      /\ UNCHANGED <<rx_buf, callback, stage, handled, line, passed>>
  BY DEF OpenLine
<1>2. Count = 0 /\ Count' = 0 /\ 0 \in Slots
  BY <1>1, CountType, BufferAssumption DEF LineInv, LineTypeOK, Stages, Count, Used, Slots
<1>3. Kept' = Kept /\ Gone' = Gone
  BY <1>1 DEF Kept, Gone, Resting, callback
<1>4. LineTypeOK' /\ Stages'
  BY <1>1, <1>2 DEF LineInv, LineTypeOK, Stages, Resting, callback, line
<1>5. Rising' /\ Accounted'
  BY <1>1, <1>2, <1>3 DEF LineInv, Rising, Accounted, OnItsWay, line
<1>. QED
  BY <1>1, <1>4, <1>5, NoneHandled DEF LineInv, line

\* The three bytes in front of the loop are the next that are left.
LEMMA NextThree ==
  ASSUME LineInv, stage = "look", i < Len(packet) - 2,
         NEW a, NEW b, NEW c, a = packet[i + 1], b = packet[i + 2], c = packet[i + 3]
  PROVE  /\ a \in Nat /\ b \in Nat /\ c \in Nat
         /\ passed <= a /\ a < b /\ b < c /\ c < arrived
         /\ \A x \in Nat : passed <= x /\ x <= c /\ x # a /\ x # b /\ x # c => x \in lost
<1>1. packet \in Seq(Bytes) /\ i \in Nat /\ Len(packet) \in Nat /\ arrived \in Nat
      /\ passed \in Nat
  BY DEF LineInv, LineTypeOK
<1>2. Kept = packet /\ Gone = i
  BY DEF Kept, Gone, Resting
<1>3. /\ i + 1 \in 1 .. Len(packet) /\ i + 2 \in 1 .. Len(packet) /\ i + 3 \in 1 .. Len(packet)
      /\ i + 1 \in i + 1 .. Len(packet)
  BY <1>1
<1>4. a \in Nat /\ b \in Nat /\ c \in Nat
  <2>1. \A j \in 1 .. Len(packet) : packet[j] \in Bytes
    BY <1>1, ElementOfSeq
  <2>. QED
    BY <1>3, <2>1 DEF Bytes
<1>5. passed <= a /\ a < b /\ b < c /\ c < arrived
  <2>1. i + 1 < i + 2 /\ i + 2 < i + 3
    BY <1>1
  <2>. QED
    BY <1>2, <1>3, <2>1 DEF LineInv, Rising
<1>6. ASSUME NEW x \in Nat, passed <= x, x <= c, x # a, x # b, x # c PROVE x \in lost
  <2>1. x < arrived
    BY <1>1, <1>4, <1>5, <1>6
  <2>2. SUFFICES ASSUME OnItsWay(x) PROVE FALSE
    BY <1>6, <2>1 DEF LineInv, Accounted
  <2>3. ASSUME NEW j \in i + 1 .. Len(packet), packet[j] = x PROVE FALSE
    <3>1. j # i + 1 /\ j # i + 2 /\ j # i + 3
      BY <1>6, <2>3
    <3>2. j \in 1 .. Len(packet) /\ i + 3 < j
      BY <1>1, <3>1
    <3>3. c < packet[j]
      BY <1>2, <1>3, <3>2 DEF LineInv, Rising
    <3>. QED
      BY <1>4, <1>6, <2>3, <3>3
  <2>4. ASSUME NEW k \in 0 .. Count - 1, RingAt(k) = x PROVE FALSE
    <3>1. c < RingAt(k)
      BY <1>2, <1>3 DEF LineInv, Rising
    <3>. QED
      BY <1>4, <1>6, <2>4, <3>1
  <2>. QED
    BY <1>2, <2>2, <2>3, <2>4 DEF OnItsWay
<1>. QED
  BY <1>4, <1>5, <1>6

\* Three bytes in a row that belong together are the next three.
LEMMA WholeIsNext ==
  ASSUME LineInv, stage = "look", i < Len(packet) - 2,
         NEW a, NEW b, NEW c, a = packet[i + 1], b = packet[i + 2], c = packet[i + 3],
         NEW p \in Nat, 3 * p = a, BytesOf(p) \cap lost = {}
  PROVE  b = 3 * p + 1 /\ c = 3 * p + 2
<1>1. /\ a \in Nat /\ b \in Nat /\ c \in Nat
      /\ passed <= a /\ a < b /\ b < c /\ passed \in Nat
      /\ \A x \in Nat : passed <= x /\ x <= c /\ x # a /\ x # b /\ x # c => x \in lost
  <2>1. passed \in Nat
    BY DEF LineInv, LineTypeOK
  <2>. QED
    BY <2>1, NextThree
<1>2. 3 * p + 1 \notin lost /\ 3 * p + 2 \notin lost
  BY DEF BytesOf
<1>3. 3 * p + 1 <= b /\ 3 * p + 2 <= c
  BY <1>1
<1>4. b = 3 * p + 1
  <2>1. SUFFICES ASSUME 3 * p + 1 < b PROVE FALSE
    BY <1>1, <1>3
  <2>2. /\ 3 * p + 1 \in Nat
        /\ passed <= 3 * p + 1 /\ 3 * p + 1 <= c
        /\ 3 * p + 1 # a /\ 3 * p + 1 # b /\ 3 * p + 1 # c
    BY <1>1, <2>1, SMTT(30)
  <2>. QED
    BY <1>1, <1>2, <2>2
<1>5. c = 3 * p + 2
  <2>1. SUFFICES ASSUME 3 * p + 2 < c PROVE FALSE
    BY <1>1, <1>3
  <2>2. /\ 3 * p + 2 \in Nat
        /\ passed <= 3 * p + 2 /\ 3 * p + 2 <= c
        /\ 3 * p + 2 # a /\ 3 * p + 2 # b /\ 3 * p + 2 # c
    BY <1>1, <1>4, <2>1
  <2>. QED
    BY <1>1, <1>2, <2>2
<1>. QED
  BY <1>4, <1>5

LEMMA Thirds ==
  ASSUME NEW n \in Nat
  PROVE  /\ n \div 3 \in Nat /\ n % 3 \in 0 .. 2
         /\ n = 3 * (n \div 3) + (n % 3)
OBVIOUS

\* The bytes on their way after the loop has passed the first few of packet[].
LEMMA PassedOver ==
  ASSUME LineInv, stage = "look", i < Len(packet) - 2,
         NEW n \in 1 .. 3, i' = i + n, passed' = packet[i + n] + 1,
         UNCHANGED <<disc_data, ring, packet, saved, stage, line>>
  PROVE  Rising' /\ Accounted' /\ passed' \in Nat /\ passed <= passed'
<1>1. packet \in Seq(Bytes) /\ i \in Nat /\ Len(packet) \in Nat /\ arrived \in Nat
      /\ passed \in Nat
  BY DEF LineInv, LineTypeOK
<1>2. Kept = packet /\ Gone = i /\ Kept' = packet /\ Gone' = i + n
  BY DEF Kept, Gone, Resting
<1>3. Count' = Count /\ \A k : RingAt(k)' = RingAt(k)
  BY DEF ring, Count, RingAt
<1>4. /\ \A j \in 1 .. Len(packet) : packet[j] \in Nat
      /\ \A k \in 0 .. Count - 1 : RingAt(k) \in Nat
      /\ i + n \in 1 .. Len(packet) /\ i + n \in i + 1 .. Len(packet)
  <2>1. \A j \in 1 .. Len(packet) : packet[j] \in Bytes
    BY <1>1, ElementOfSeq
  <2>2. \A k \in 0 .. Count - 1 : RingAt(k) \in Bytes
    BY RingBytes DEF LineInv, LineTypeOK
  <2>3. i + n \in 1 .. Len(packet) /\ i + n \in i + 1 .. Len(packet)
    BY <1>1
  <2>. QED
    BY <2>1, <2>2, <2>3 DEF Bytes
<1>5. passed' \in Nat /\ passed <= packet[i + n] /\ passed <= passed'
  BY <1>1, <1>2, <1>4 DEF LineInv, Rising
<1>6. Rising'
  <2>1. \A j \in i + n + 1 .. Len(packet) : packet[i + n] < packet[j]
    <3>1. \A j \in i + n + 1 .. Len(packet) : j \in 1 .. Len(packet) /\ i + n < j
      BY <1>1
    <3>. QED
      BY <1>2, <1>4, <3>1 DEF LineInv, Rising
  <2>2. \A j \in i + n + 1 .. Len(packet) : packet[i + n] + 1 <= packet[j]
    BY <1>1, <1>4, <2>1
  <2>3. \A k \in 0 .. Count - 1 : packet[i + n] + 1 <= RingAt(k)
    BY <1>2, <1>4 DEF LineInv, Rising
  <2>4. packet[i + n] + 1 <= arrived
    BY <1>1, <1>2, <1>4 DEF LineInv, Rising
  <2>. QED
    BY <1>2, <1>3, <2>2, <2>3, <2>4 DEF LineInv, Rising, line
<1>7. Accounted'
  <2>. SUFFICES ASSUME NEW b \in Nat, packet[i + n] + 1 <= b, OnItsWay(b)
                PROVE  OnItsWay(b)'
    BY <1>1, <1>4, <1>5 DEF LineInv, Accounted, line
  <2>1. ASSUME NEW j \in i + 1 .. Len(packet), packet[j] = b PROVE OnItsWay(b)'
    <3>1. j > i + n
      <4>1. CASE j = i + n
        BY <1>4, <2>1, <4>1
      <4>2. CASE j < i + n
        <5>1. j \in 1 .. Len(packet)
          BY <1>1
        <5>2. packet[j] < packet[i + n]
          BY <1>2, <1>4, <4>2, <5>1 DEF LineInv, Rising
        <5>. QED
          BY <1>4, <2>1, <5>1, <5>2
      <4>. QED
        BY <1>1, <4>1, <4>2
    <3>2. j \in i + n + 1 .. Len(packet)
      BY <1>1, <3>1
    <3>. QED
      BY <1>2, <2>1, <3>2 DEF OnItsWay
  <2>2. CASE \E k \in 0 .. Count - 1 : RingAt(k) = b
    BY <1>3, <2>2 DEF OnItsWay
  <2>. QED
    BY <1>2, <2>1, <2>2 DEF OnItsWay
<1>. QED
  BY <1>5, <1>6, <1>7

LEMMA LookAtInv == ASSUME LineInv, LookAt PROVE LineInv'
<1>. DEFINE a == packet[i + 1]
            b == packet[i + 2]
            c == packet[i + 3]
<1>1. /\ stage = "look" /\ i < Len(packet) - 2
      /\ UNCHANGED <<disc_data, ring, packet, saved, stage, line>>
  BY DEF LookAt
<1>2. /\ a \in Nat /\ b \in Nat /\ c \in Nat
      /\ passed <= a /\ a < b /\ b < c /\ c < arrived
      /\ \A x \in Nat : passed <= x /\ x <= c /\ x # a /\ x # b /\ x # c => x \in lost
  BY <1>1, NextThree
<1>3. passed \in Nat /\ i \in Nat /\ Len(packet) \in Nat
      /\ handled \in Seq(Bytes \X Bytes \X Bytes) /\ lost' = lost
  BY <1>1 DEF LineInv, LineTypeOK, line
<1>4. Stages'
  BY <1>1 DEF LineInv, Stages, Resting, BufEmpty, ring
<1>5. CASE IsPacket
  <2>1. i' = i + 3 /\ passed' = c + 1 /\ handled' = Append(handled, <<a, b, c>>)
    BY <1>5 DEF LookAt
  <2>2. IsFirst(a) /\ ~IsFirst(b) /\ ~IsFirst(c)
    BY <1>5 DEF IsPacket
  <2>3. Rising' /\ Accounted' /\ passed' \in Nat
    BY <1>1, <2>1, PassedOver
  <2>4. <<a, b, c>> \in Bytes \X Bytes \X Bytes
    BY <1>2 DEF Bytes
  <2>. HIDE DEF a, b, c
  <2>5. /\ handled' \in Seq(Bytes \X Bytes \X Bytes) /\ Len(handled) \in Nat
        /\ Len(handled') = Len(handled) + 1
        /\ \A j \in 1 .. Len(handled) : handled'[j] = handled[j]
        /\ handled'[Len(handled) + 1] = <<a, b, c>>
    BY <1>3, <2>1, <2>4, AppendProperties
  <2>6. LineTypeOK'
    BY <1>1, <1>3, <2>1, <2>3, <2>5 DEF LineInv, LineTypeOK, ring, line
  <2>7. \A j \in 1 .. Len(handled') : \/ j \in 1 .. Len(handled) /\ handled'[j] = handled[j]
                                      \/ j = Len(handled) + 1 /\ handled'[j] = <<a, b, c>>
    BY <2>5
  <2>8. \A j \in 1 .. Len(handled) : handled[j][3] < passed /\ handled[j][3] \in Nat
    <3>1. \A j \in 1 .. Len(handled) : handled[j] \in Bytes \X Bytes \X Bytes
      BY <1>3
    <3>. QED
      BY <3>1 DEF LineInv, HandledPassed, Bytes
  <2>9. HandledPassed'
    BY <1>2, <1>3, <2>1, <2>7, <2>8 DEF HandledPassed
  <2>10. PacketsInOrder'
    <3>1. ASSUME NEW j \in 1 .. Len(handled'), NEW k \in 1 .. Len(handled'), j < k
          PROVE  handled'[j][3] < handled'[k][1]
      <4>1. j \in 1 .. Len(handled) /\ handled'[j] = handled[j]
        BY <2>5, <2>7, <3>1
      <4>2. CASE k \in 1 .. Len(handled) /\ handled'[k] = handled[k]
        BY <3>1, <4>1, <4>2 DEF LineInv, PacketsInOrder
      <4>3. CASE handled'[k] = <<a, b, c>>
        BY <1>2, <1>3, <2>8, <4>1, <4>3
      <4>. QED
        BY <2>7, <4>2, <4>3
    <3>. QED
      BY <3>1 DEF PacketsInOrder
  <2>11. LET p == a \div 3  q == c \div 3 IN
           \/ <<a, b, c>> = <<3 * p, 3 * p + 1, 3 * p + 2>>
           \/ p < q /\ BytesOf(p) \cap lost # {} /\ 3 * q \in lost
    <3>. DEFINE p == a \div 3
                q == c \div 3
    <3>1. /\ p \in Nat /\ q \in Nat /\ a = 3 * p /\ b # 3 * q
          /\ 3 * q < c /\ c <= 3 * q + 2
      BY <1>2, <2>2, Thirds DEF IsFirst
    <3>. HIDE DEF p, q
    <3>2. CASE q <= p
      <4>1. b = 3 * p + 1 /\ c = 3 * p + 2
        BY <1>2, <3>1, <3>2
      <4>. QED
        BY <3>1, <4>1 DEF p, q
    <3>3. CASE p < q
      <4>1. 3 * q \in lost
        <5>1. 3 * q \in Nat /\ passed <= 3 * q /\ 3 * q <= c /\ 3 * q # a /\ 3 * q # c
          BY <1>2, <1>3, <3>1, <3>3
        <5>. QED
          BY <1>2, <3>1, <5>1
      <4>2. 3 * p + 1 \in lost \/ 3 * p + 2 \in lost
        <5>1. /\ 3 * p + 1 \in Nat /\ passed <= 3 * p + 1 /\ 3 * p + 1 < c /\ 3 * p + 1 # a
              /\ 3 * p + 2 \in Nat /\ passed <= 3 * p + 2 /\ 3 * p + 2 < c /\ 3 * p + 2 # a
              /\ (b # 3 * p + 1 \/ b # 3 * p + 2)
          BY <1>2, <1>3, <3>1, <3>3
        <5>. QED
          BY <1>2, <5>1
      <4>. QED
        BY <3>3, <4>1, <4>2 DEF p, q, BytesOf
    <3>. QED
      BY <3>1, <3>2, <3>3
  <2>12. FramesTell'
    <3>1. ASSUME NEW j \in 1 .. Len(handled')
          PROVE  LET p == handled'[j][1] \div 3  q == handled'[j][3] \div 3 IN
                 \/ handled'[j] = <<3 * p, 3 * p + 1, 3 * p + 2>>
                 \/ p < q /\ BytesOf(p) \cap lost # {} /\ 3 * q \in lost
      <4>1. CASE j \in 1 .. Len(handled) /\ handled'[j] = handled[j]
        BY <4>1 DEF LineInv, FramesTell
      <4>2. CASE handled'[j] = <<a, b, c>>
        BY <2>11, <4>2
      <4>. QED
        BY <2>7, <4>1, <4>2
    <3>. QED
      BY <1>3, <3>1 DEF FramesTell, BytesOf
  <2>13. WholePacketsHandled'
    <3>1. ASSUME NEW p \in 0 .. passed' \div 3, 3 * p < passed', BytesOf(p) \cap lost = {}
          PROVE  \E j \in 1 .. Len(handled') : handled'[j] = <<3 * p, 3 * p + 1, 3 * p + 2>>
      <4>1. p \in Nat /\ 3 * p \in Nat /\ 3 * p \notin lost
        BY <2>3, <3>1, Thirds DEF BytesOf
      <4>2. CASE 3 * p < passed
        <5>1. p \in 0 .. passed \div 3
          BY <1>3, <4>1, <4>2, Thirds
        <5>2. PICK j \in 1 .. Len(handled) : handled[j] = <<3 * p, 3 * p + 1, 3 * p + 2>>
          BY <3>1, <4>2, <5>1 DEF LineInv, WholePacketsHandled
        <5>3. handled'[j] = handled[j]
          BY <2>5
        <5>4. j \in 1 .. Len(handled')
          BY <2>5
        <5>. QED
          BY <5>2, <5>3, <5>4
      <4>3. CASE ~(3 * p < passed)
        <5>1. passed <= 3 * p /\ 3 * p <= c
          BY <1>2, <1>3, <2>1, <3>1, <4>1, <4>3
        <5>2. 3 * p # b /\ 3 * p # c
          BY <2>2, <4>1 DEF IsFirst
        <5>3. 3 * p = a
          BY <1>2, <4>1, <5>1, <5>2
        <5>4. b = 3 * p + 1 /\ c = 3 * p + 2
          BY <1>1, <3>1, <4>1, <5>3, WholeIsNext DEF a, b, c
        <5>. QED
          BY <2>5, <5>3, <5>4
      <4>. QED
        BY <4>2, <4>3
    <3>. QED
      BY <1>3, <3>1 DEF WholePacketsHandled, BytesOf
  <2>. QED
    BY <1>4, <2>3, <2>6, <2>9, <2>10, <2>12, <2>13 DEF LineInv
<1>6. CASE ~IsPacket
  <2>1. i' = i + 1 /\ passed' = a + 1 /\ handled' = handled
    BY <1>6 DEF LookAt
  <2>2. Rising' /\ Accounted' /\ passed' \in Nat /\ passed <= passed'
    BY <1>1, <2>1, PassedOver
  <2>3. LineTypeOK'
    BY <1>1, <1>3, <2>1, <2>2 DEF LineInv, LineTypeOK, ring, line
  <2>4. HandledPassed'
    <3>1. \A j \in 1 .. Len(handled) : handled[j] \in Bytes \X Bytes \X Bytes
      BY <1>3
    <3>2. \A j \in 1 .. Len(handled) : handled[j][3] < passed /\ handled[j][3] \in Nat
      BY <3>1 DEF LineInv, HandledPassed, Bytes
    <3>. QED
      BY <1>3, <2>1, <2>2, <3>2 DEF HandledPassed
  <2>5. PacketsInOrder' /\ FramesTell'
    BY <1>3, <2>1 DEF LineInv, PacketsInOrder, FramesTell, BytesOf
  <2>6. WholePacketsHandled'
    <3>1. ASSUME NEW p \in 0 .. passed' \div 3, 3 * p < passed', BytesOf(p) \cap lost = {}
          PROVE  \E j \in 1 .. Len(handled) : handled[j] = <<3 * p, 3 * p + 1, 3 * p + 2>>
      <4>1. p \in Nat /\ 3 * p \in Nat /\ 3 * p \notin lost
        BY <2>2, <3>1, Thirds DEF BytesOf
      <4>2. 3 * p < passed
        <5>. SUFFICES ASSUME passed <= 3 * p PROVE FALSE
          BY <1>3, <4>1
        <5>1. 3 * p <= a
          BY <1>2, <2>1, <3>1, <4>1
        <5>. HIDE DEF a, b, c
        <5>2. 3 * p = a
          BY <1>2, <4>1, <5>1
        <5>3. b = 3 * p + 1 /\ c = 3 * p + 2
          BY <1>1, <3>1, <4>1, <5>2, WholeIsNext DEF a, b, c
        <5>4. IsFirst(a) /\ ~IsFirst(b) /\ ~IsFirst(c)
          BY <4>1, <5>2, <5>3 DEF IsFirst
        <5>. QED
          BY <1>6, <5>4 DEF IsPacket, a, b, c
      <4>3. p \in 0 .. passed \div 3
        BY <1>3, <4>1, <4>2, Thirds
      <4>. QED
        BY <3>1, <4>2, <4>3 DEF LineInv, WholePacketsHandled
    <3>. QED
      BY <1>3, <2>1, <3>1 DEF WholePacketsHandled, BytesOf
  <2>. QED
    BY <1>4, <2>2, <2>3, <2>4, <2>5, <2>6 DEF LineInv
<1>. QED
  BY <1>5, <1>6

LEMMA NextInv == LineInv /\ [LineNext]_lineVars => LineInv'
<1>. SUFFICES ASSUME LineInv, [LineNext]_lineVars PROVE LineInv'
  OBVIOUS
<1>1. CASE UNCHANGED lineVars
  <2>1. Kept' = Kept /\ Gone' = Gone
    BY <1>1 DEF lineVars, Kept, Gone, Resting
  <2>2. LineTypeOK' /\ Stages'
    BY <1>1 DEF lineVars, LineInv, LineTypeOK, Stages, Resting, BufEmpty
  <2>. QED
    BY <1>1, <2>1, <2>2, SameBytes DEF lineVars, ring, line
<1>2. CASE LineNext
  BY <1>2, InterruptInv, LoseByteInv, ReceiveByteInv, CallBackInv, GetByteInv, GetReturnsInv,
     LookAtInv, SaveLeftoversInv, CloseLineInv, OpenLineInv DEF LineNext
<1>. QED
  BY <1>1, <1>2

THEOREM LineInvariant == LineSpec => []LineInv
BY InitInv, NextInv, PTL DEF LineSpec

-----------------------------------------------------------------------------
\* packet[] and saved[] are never overrun, and the ring's indices stay in it.
THEOREM LineTypeCorrect == LineSpec => []LineTypeOK
<1>. LineInv => LineTypeOK
  BY DEF LineInv
<1>. QED
  BY LineInvariant, PTL

\* Packets come to tuxctl_handle_packet once and in order.
THEOREM PacketsInOrderCorrect == LineSpec => []PacketsInOrder
<1>. LineInv => PacketsInOrder
  BY DEF LineInv
<1>. QED
  BY LineInvariant, PTL

\* The framing bits tell every loss but two that fall together.
THEOREM FramesTellCorrect == LineSpec => []FramesTell
<1>. LineInv => FramesTell
  BY DEF LineInv
<1>. QED
  BY LineInvariant, PTL

\* No loss costs a packet that came whole.
THEOREM WholePacketsHandledCorrect == LineSpec => []WholePacketsHandled
<1>. LineInv => WholePacketsHandled
  BY DEF LineInv
<1>. QED
  BY LineInvariant, PTL

-----------------------------------------------------------------------------
(* The sending half, the ioctls and the packets: TuxCtl. *)

IsSet(b) == b.byte = "MTCP_LED_SET"
Digits(w) == [byte |-> "digits", word |-> w]

\* What a context sends, whole commands, and what is left of it on the line.
Chunk(s) ==
  \A j \in 1 .. Len(s) :
    /\ IsSet(s[j]) => j < Len(s) /\ s[j + 1].byte = "digits"
    /\ s[j].byte = "digits" => j > 1 /\ IsSet(s[j - 1])
Joined(s) ==
  \A j \in 1 .. Len(s) :
    /\ IsSet(s[j]) => j < Len(s) /\ s[j + 1].byte = "digits"
    /\ s[j].byte = "digits" /\ j > 1 => IsSet(s[j - 1])

\* A controller that shows w and hears s shows W in the end.
Ends(s, w, W) ==
  \/ w = W /\ \A j \in 1 .. Len(s) : ~IsSet(s[j])
  \/ \E j \in 1 .. Len(s) :
       /\ IsSet(s[j]) /\ s[j + 1].word = W
       /\ \A k \in j + 1 .. Len(s) : ~IsSet(s[k])

LEMMA SetLedsBytes ==
  ASSUME NEW w \in Words
  PROVE  /\ SetLeds(w) = <<Byte("MTCP_LED_SET"), Digits(w)>>
         /\ SetLeds(w) \in Seq(ByteSet) /\ Len(SetLeds(w)) = 2
         /\ SetLeds(w)[1] = Byte("MTCP_LED_SET") /\ SetLeds(w)[2] = Digits(w)
<1>1. Off \in Words
  BY DEF Off, Words
<1>2. Byte("MTCP_LED_SET") \in ByteSet /\ Digits(w) \in ByteSet
  BY <1>1 DEF Byte, Digits, ByteSet
<1>. QED
  BY <1>2 DEF SetLeds, Digits

LEMMA TurnOnBytes ==
  /\ TurnOn \in Seq(ByteSet) /\ Len(TurnOn) = 2
  /\ TurnOn[1] = Byte("MTCP_BIOC_ON") /\ TurnOn[2] = Byte("MTCP_LED_USR")
<1>1. Off \in Words
  BY DEF Off, Words
<1>2. Byte("MTCP_BIOC_ON") \in ByteSet /\ Byte("MTCP_LED_USR") \in ByteSet
  BY <1>1 DEF Byte, ByteSet
<1>. QED
  BY <1>2 DEF TurnOn

\* A concatenation, by its two parts.
LEMMA Parts ==
  ASSUME NEW S, NEW s \in Seq(S), NEW c \in Seq(S)
  PROVE  /\ Len(s) \in Nat /\ Len(c) \in Nat
         /\ s \o c \in Seq(S) /\ Len(s \o c) = Len(s) + Len(c)
         /\ \A j \in 1 .. Len(s) : (s \o c)[j] = s[j]
         /\ \A j \in 1 .. Len(c) : (s \o c)[Len(s) + j] = c[j]
<1>. DEFINE t == s \o c
<1>1. /\ Len(s) \in Nat /\ Len(c) \in Nat /\ t \in Seq(S) /\ Len(t) = Len(s) + Len(c)
      /\ \A j \in 1 .. Len(s) + Len(c) : t[j] = IF j <= Len(s) THEN s[j] ELSE c[j - Len(s)]
  BY ConcatProperties, LenProperties
<1>. HIDE DEF t
<1>2. ASSUME NEW j \in 1 .. Len(s) PROVE t[j] = s[j]
  <2>1. j \in 1 .. Len(s) + Len(c) /\ j <= Len(s)
    BY <1>1
  <2>. QED
    BY <1>1, <2>1
<1>3. ASSUME NEW j \in 1 .. Len(c) PROVE t[Len(s) + j] = c[j]
  <2>1. /\ Len(s) + j \in 1 .. Len(s) + Len(c) /\ ~(Len(s) + j <= Len(s))
        /\ (Len(s) + j) - Len(s) = j
    BY <1>1
  <2>2. t[Len(s) + j] = c[(Len(s) + j) - Len(s)]
    BY <1>1, <2>1
  <2>. QED
    BY <2>1, <2>2
<1>. QED
  BY <1>1, <1>2, <1>3 DEF t

\* What TUX_INIT sends.
Initial(w) == TurnOn \o SetLeds(w)

LEMMA InitialBytes ==
  ASSUME NEW w \in Words
  PROVE  /\ Initial(w) \in Seq(ByteSet) /\ Len(Initial(w)) = 4
         /\ Initial(w)[1] = Byte("MTCP_BIOC_ON") /\ Initial(w)[2] = Byte("MTCP_LED_USR")
         /\ Initial(w)[3] = Byte("MTCP_LED_SET") /\ Initial(w)[4] = Digits(w)
<1>1. /\ TurnOn \in Seq(ByteSet) /\ Len(TurnOn) = 2
      /\ TurnOn[1] = Byte("MTCP_BIOC_ON") /\ TurnOn[2] = Byte("MTCP_LED_USR")
  BY TurnOnBytes
<1>2. /\ SetLeds(w) \in Seq(ByteSet) /\ Len(SetLeds(w)) = 2
      /\ SetLeds(w)[1] = Byte("MTCP_LED_SET") /\ SetLeds(w)[2] = Digits(w)
  BY SetLedsBytes
<1>3. /\ Initial(w) \in Seq(ByteSet) /\ Len(Initial(w)) = Len(TurnOn) + Len(SetLeds(w))
      /\ \A j \in 1 .. Len(TurnOn) : Initial(w)[j] = TurnOn[j]
      /\ \A j \in 1 .. Len(SetLeds(w)) : Initial(w)[Len(TurnOn) + j] = SetLeds(w)[j]
  <2>1. TurnOn \in Seq(ByteSet) /\ SetLeds(w) \in Seq(ByteSet)
    BY <1>1, <1>2
  <2>. QED
    BY <2>1, Parts DEF Initial
<1>4. Initial(w)[1] = TurnOn[1] /\ Initial(w)[2] = TurnOn[2]
  BY <1>1, <1>3
<1>5. Initial(w)[2 + 1] = SetLeds(w)[1] /\ Initial(w)[2 + 2] = SetLeds(w)[2]
  BY <1>1, <1>2, <1>3
<1>. QED
  BY <1>1, <1>2, <1>3, <1>4, <1>5

\* The commands are chunks that end with their digits.
LEMMA Chunks ==
  ASSUME NEW w \in Words
  PROVE  /\ Chunk(<<>>) /\ Chunk(TurnOn) /\ Chunk(SetLeds(w)) /\ Chunk(Initial(w))
         /\ \A v : Ends(SetLeds(w), v, w) /\ Ends(Initial(w), v, w)
<1>1. Chunk(<<>>)
  BY DEF Chunk
<1>2. Chunk(TurnOn)
  BY TurnOnBytes DEF Chunk, Byte, IsSet
<1>3. /\ Len(SetLeds(w)) = 2 /\ SetLeds(w)[1].byte = "MTCP_LED_SET"
      /\ SetLeds(w)[2].byte = "digits" /\ SetLeds(w)[2].word = w
  <2>1. /\ Len(SetLeds(w)) = 2
        /\ SetLeds(w)[1] = Byte("MTCP_LED_SET") /\ SetLeds(w)[2] = Digits(w)
    BY SetLedsBytes
  <2>. QED
    BY <2>1 DEF Byte, Digits
<1>4. /\ Len(Initial(w)) = 4
      /\ Initial(w)[1].byte = "MTCP_BIOC_ON" /\ Initial(w)[2].byte = "MTCP_LED_USR"
      /\ Initial(w)[3].byte = "MTCP_LED_SET" /\ Initial(w)[4].byte = "digits"
      /\ Initial(w)[4].word = w
  <2>1. /\ Len(Initial(w)) = 4
        /\ Initial(w)[1] = Byte("MTCP_BIOC_ON") /\ Initial(w)[2] = Byte("MTCP_LED_USR")
        /\ Initial(w)[3] = Byte("MTCP_LED_SET") /\ Initial(w)[4] = Digits(w)
    BY InitialBytes
  <2>. QED
    BY <2>1 DEF Byte, Digits
<1>5. Chunk(SetLeds(w)) /\ Chunk(Initial(w))
  BY <1>3, <1>4 DEF Chunk, IsSet
<1>6. ASSUME NEW v PROVE Ends(Initial(w), v, w)
  <2>1. 3 \in 1 .. Len(Initial(w)) /\ IsSet(Initial(w)[3]) /\ Initial(w)[3 + 1].word = w
    BY <1>4 DEF IsSet
  <2>2. \A k \in 3 + 1 .. Len(Initial(w)) : ~IsSet(Initial(w)[k])
    BY <1>4 DEF IsSet
  <2>. QED
    BY <2>1, <2>2 DEF Ends
<1>7. ASSUME NEW v PROVE Ends(SetLeds(w), v, w)
  <2>1. 1 \in 1 .. Len(SetLeds(w)) /\ IsSet(SetLeds(w)[1]) /\ SetLeds(w)[1 + 1].word = w
    BY <1>3 DEF IsSet
  <2>2. \A k \in 1 + 1 .. Len(SetLeds(w)) : ~IsSet(SetLeds(w)[k])
    BY <1>3 DEF IsSet
  <2>. QED
    BY <2>1, <2>2 DEF Ends
<1>. QED
  BY <1>1, <1>2, <1>5, <1>6, <1>7

\* Commands appended to whole ones leave whole ones, and decide what is shown.
LEMMA ChunkJoins ==
  ASSUME NEW s \in Seq(ByteSet), NEW c \in Seq(ByteSet), Joined(s), Chunk(c)
  PROVE  Joined(s \o c)
<1>. DEFINE t == s \o c
<1>1. /\ Len(s) \in Nat /\ Len(c) \in Nat /\ Len(t) = Len(s) + Len(c)
      /\ \A j \in 1 .. Len(s) : t[j] = s[j]
      /\ \A j \in 1 .. Len(c) : t[Len(s) + j] = c[j]
  BY Parts
<1>. HIDE DEF t
<1>2. ASSUME NEW j \in 1 .. Len(t), IsSet(t[j])
      PROVE  j < Len(t) /\ t[j + 1].byte = "digits"
  <2>1. CASE j <= Len(s)
    <3>1. j \in 1 .. Len(s) /\ IsSet(s[j])
      BY <1>1, <1>2, <2>1
    <3>2. j < Len(s) /\ s[j + 1].byte = "digits"
      BY <3>1 DEF Joined
    <3>3. j + 1 \in 1 .. Len(s) /\ j < Len(t)
      BY <1>1, <3>1, <3>2
    <3>. QED
      BY <1>1, <3>2, <3>3
  <2>2. CASE j > Len(s)
    <3>1. PICK k \in 1 .. Len(c) : j = Len(s) + k
      <4>1. j - Len(s) \in 1 .. Len(c) /\ j = Len(s) + (j - Len(s))
        BY <1>1, <2>2
      <4>. QED
        BY <4>1
    <3>2. IsSet(c[k])
      BY <1>1, <1>2, <3>1
    <3>3. k < Len(c) /\ c[k + 1].byte = "digits"
      BY <3>2 DEF Chunk
    <3>4. k + 1 \in 1 .. Len(c) /\ j + 1 = Len(s) + (k + 1) /\ j < Len(t)
      BY <1>1, <3>1, <3>3
    <3>. QED
      BY <1>1, <3>3, <3>4
  <2>. QED
    BY <1>1, <2>1, <2>2
<1>3. ASSUME NEW j \in 1 .. Len(t), t[j].byte = "digits", j > 1
      PROVE  IsSet(t[j - 1])
  <2>1. CASE j <= Len(s)
    <3>1. j \in 1 .. Len(s) /\ s[j].byte = "digits" /\ j - 1 \in 1 .. Len(s)
      BY <1>1, <1>3, <2>1
    <3>2. IsSet(s[j - 1])
      BY <1>3, <3>1 DEF Joined
    <3>. QED
      BY <1>1, <3>1, <3>2
  <2>2. CASE j > Len(s)
    <3>1. PICK k \in 1 .. Len(c) : j = Len(s) + k
      <4>1. j - Len(s) \in 1 .. Len(c) /\ j = Len(s) + (j - Len(s))
        BY <1>1, <2>2
      <4>. QED
        BY <4>1
    <3>2. c[k].byte = "digits"
      BY <1>1, <1>3, <3>1
    <3>3. k > 1 /\ IsSet(c[k - 1])
      BY <3>2 DEF Chunk
    <3>4. k - 1 \in 1 .. Len(c) /\ j - 1 = Len(s) + (k - 1)
      BY <1>1, <3>1, <3>3
    <3>. QED
      BY <1>1, <3>3, <3>4
  <2>. QED
    BY <1>1, <2>1, <2>2
<1>4. Joined(t)
  BY <1>2, <1>3 DEF Joined
<1>. QED
  BY <1>4 DEF t

LEMMA LastDecides ==
  ASSUME NEW s \in Seq(ByteSet), NEW c \in Seq(ByteSet), NEW v, NEW w, NEW W,
         Chunk(c), Ends(c, v, W), \E j \in 1 .. Len(c) : IsSet(c[j])
  PROVE  Ends(s \o c, w, W)
<1>. DEFINE t == s \o c
<1>1. /\ Len(s) \in Nat /\ Len(c) \in Nat /\ Len(t) = Len(s) + Len(c)
      /\ \A j \in 1 .. Len(c) : t[Len(s) + j] = c[j]
  BY Parts
<1>2. PICK j \in 1 .. Len(c) : /\ IsSet(c[j]) /\ c[j + 1].word = W
                               /\ \A k \in j + 1 .. Len(c) : ~IsSet(c[k])
  BY DEF Ends
<1>. HIDE DEF t
<1>3. Len(s) + j \in 1 .. Len(t) /\ IsSet(t[Len(s) + j])
  BY <1>1, <1>2
<1>4. ASSUME NEW k \in (Len(s) + j) + 1 .. Len(t) PROVE ~IsSet(t[k])
  <2>1. k - Len(s) \in j + 1 .. Len(c) /\ k - Len(s) \in 1 .. Len(c) /\ k = Len(s) + (k - Len(s))
    BY <1>1, <1>2
  <2>2. t[Len(s) + (k - Len(s))] = c[k - Len(s)]
    BY <1>1, <2>1
  <2>. QED
    BY <1>2, <2>1, <2>2
<1>5. t[(Len(s) + j) + 1].word = W
  <2>1. j + 1 \in 1 .. Len(c) /\ (Len(s) + j) + 1 = Len(s) + (j + 1)
    BY <1>1, <1>2 DEF Chunk
  <2>. QED
    BY <1>1, <1>2, <2>1
<1>6. Ends(t, w, W)
  BY <1>3, <1>4, <1>5 DEF Ends
<1>. QED
  BY <1>6 DEF t

\* A suffix of what is on the line is still whole commands, but for the first.
LEMMA SuffixJoined ==
  ASSUME NEW s \in Seq(ByteSet), Joined(s), NEW n \in 0 .. Len(s)
  PROVE  /\ SubSeq(s, n + 1, Len(s)) \in Seq(ByteSet)
         /\ Len(SubSeq(s, n + 1, Len(s))) = Len(s) - n
         /\ Joined(SubSeq(s, n + 1, Len(s)))
<1>. DEFINE t == SubSeq(s, n + 1, Len(s))
<1>1. /\ Len(s) \in Nat /\ t \in Seq(ByteSet) /\ Len(t) = Len(s) - n
      /\ \A j \in 1 .. Len(t) : t[j] = s[n + j]
  <2>1. Len(s) \in Nat /\ \A j \in n + 1 .. Len(s) : s[j] \in ByteSet
    BY LenProperties, ElementOfSeq
  <2>2. /\ t \in Seq(ByteSet) /\ Len(t) = IF n + 1 <= Len(s) THEN Len(s) - (n + 1) + 1 ELSE 0
        /\ \A j \in 1 .. Len(s) - (n + 1) + 1 : t[j] = s[n + 1 + j - 1]
    BY <2>1, SubSeqProperties
  <2>. HIDE DEF t
  <2>. QED
    BY <2>1, <2>2
<1>. HIDE DEF t
<1>2. ASSUME NEW j \in 1 .. Len(t) PROVE n + j \in 1 .. Len(s) /\ t[j] = s[n + j]
  BY <1>1
<1>3. ASSUME NEW j \in 1 .. Len(t), IsSet(t[j])
      PROVE  j < Len(t) /\ t[j + 1].byte = "digits"
  <2>1. IsSet(s[n + j]) /\ n + j \in 1 .. Len(s)
    BY <1>2, <1>3
  <2>2. n + j < Len(s) /\ s[(n + j) + 1].byte = "digits"
    BY <2>1 DEF Joined
  <2>3. j < Len(t) /\ j + 1 \in 1 .. Len(t) /\ (n + j) + 1 = n + (j + 1)
    BY <1>1, <2>2
  <2>. QED
    BY <1>2, <2>2, <2>3
<1>4. ASSUME NEW j \in 1 .. Len(t), t[j].byte = "digits", j > 1
      PROVE  IsSet(t[j - 1])
  <2>1. s[n + j].byte = "digits" /\ n + j \in 1 .. Len(s) /\ n + j > 1
    BY <1>2, <1>4
  <2>2. IsSet(s[(n + j) - 1])
    BY <2>1 DEF Joined
  <2>3. j - 1 \in 1 .. Len(t) /\ (n + j) - 1 = n + (j - 1)
    BY <1>1, <1>4
  <2>. QED
    BY <1>2, <2>2, <2>3
<1>5. Joined(t)
  BY <1>3, <1>4 DEF Joined
<1>. QED
  BY <1>1, <1>5 DEF t

\* The controller carries out the first byte, or the first command.
LEMMA HeardByte ==
  ASSUME NEW s \in Seq(ByteSet), s # <<>>, Joined(s)
  PROVE  /\ Tail(s) \in Seq(ByteSet) /\ Len(Tail(s)) = Len(s) - 1 /\ Joined(Tail(s))
         /\ \A j \in 1 .. Len(s) - 1 : Tail(s)[j] = s[j + 1]
         /\ ~IsSet(s[1]) => \A w, W : Ends(s, w, W) => Ends(Tail(s), w, W)
<1>1. Len(s) \in Nat \ {0}
  BY EmptySeq
<1>2. /\ Tail(s) \in Seq(ByteSet) /\ Len(Tail(s)) = Len(s) - 1
      /\ \A j \in 1 .. Len(Tail(s)) : Tail(s)[j] = s[j + 1]
  BY HeadTailProperties
<1>3. Joined(Tail(s))
  <2>1. Tail(s) = SubSeq(s, 1 + 1, Len(s)) /\ 1 \in 0 .. Len(s)
    BY <1>1, TailIsSubSeq
  <2>. QED
    BY <2>1, SuffixJoined
<1>4. ASSUME ~IsSet(s[1]), NEW w, NEW W, Ends(s, w, W) PROVE Ends(Tail(s), w, W)
  <2>1. CASE w = W /\ \A j \in 1 .. Len(s) : ~IsSet(s[j])
    <3>1. ASSUME NEW j \in 1 .. Len(Tail(s)) PROVE ~IsSet(Tail(s)[j])
      <4>1. j + 1 \in 1 .. Len(s) /\ Tail(s)[j] = s[j + 1]
        BY <1>1, <1>2
      <4>. QED
        BY <2>1, <4>1
    <3>. QED
      BY <2>1, <3>1 DEF Ends
  <2>2. CASE \E j \in 1 .. Len(s) : /\ IsSet(s[j]) /\ s[j + 1].word = W
                                    /\ \A k \in j + 1 .. Len(s) : ~IsSet(s[k])
    <3>1. PICK j \in 1 .. Len(s) : /\ IsSet(s[j]) /\ s[j + 1].word = W
                                   /\ \A k \in j + 1 .. Len(s) : ~IsSet(s[k])
      BY <2>2
    <3>2. j > 1 /\ j < Len(s)
      BY <1>4, <3>1 DEF Joined
    <3>3. /\ j - 1 \in 1 .. Len(Tail(s)) /\ (j - 1) + 1 = j
          /\ j \in 1 .. Len(Tail(s))
      BY <1>1, <1>2, <3>2
    <3>4. Tail(s)[j - 1] = s[j] /\ Tail(s)[(j - 1) + 1] = s[j + 1]
      BY <1>2, <3>3
    <3>5. ASSUME NEW k \in (j - 1) + 1 .. Len(Tail(s)) PROVE ~IsSet(Tail(s)[k])
      <4>1. k + 1 \in j + 1 .. Len(s) /\ k \in 1 .. Len(Tail(s))
        BY <1>1, <1>2, <3>3
      <4>. QED
        BY <1>2, <3>1, <4>1
    <3>. QED
      BY <3>1, <3>3, <3>4, <3>5 DEF Ends
  <2>. QED
    BY <1>4, <2>1, <2>2 DEF Ends
<1>. QED
  BY <1>2, <1>3, <1>4

LEMMA HeardCommand ==
  ASSUME NEW s \in Seq(ByteSet), s # <<>>, Joined(s), IsSet(s[1])
  PROVE  /\ Len(s) > 1 /\ s[2] \in ByteSet
         /\ Tail(Tail(s)) \in Seq(ByteSet) /\ Len(Tail(Tail(s))) = Len(s) - 2
         /\ Joined(Tail(Tail(s)))
         /\ \A j \in 1 .. Len(s) - 2 : Tail(Tail(s))[j] = s[j + 2]
         /\ \A w, W : Ends(s, w, W) => Ends(Tail(Tail(s)), s[2].word, W)
<1>1. Len(s) \in Nat \ {0} /\ 1 \in 1 .. Len(s)
  BY EmptySeq
<1>2. Len(s) > 1 /\ s[2].byte = "digits"
  BY <1>1 DEF Joined
<1>3. s[2] \in ByteSet
  <2>1. 2 \in 1 .. Len(s)
    BY <1>1, <1>2
  <2>. QED
    BY <2>1, ElementOfSeq
<1>4. /\ Tail(s) \in Seq(ByteSet) /\ Len(Tail(s)) = Len(s) - 1 /\ Joined(Tail(s))
      /\ \A j \in 1 .. Len(s) - 1 : Tail(s)[j] = s[j + 1]
  BY HeardByte
<1>5. Tail(s) # <<>>
  <2>1. Len(Tail(s)) # 0
    BY <1>1, <1>2, <1>4
  <2>2. Len(<<>>) = 0
    OBVIOUS
  <2>. QED
    BY <2>1, <2>2, Zenon
<1>6. Tail(s)[1] = s[2] /\ ~IsSet(Tail(s)[1])
  <2>1. 1 \in 1 .. Len(s) - 1 /\ 1 + 1 = 2
    BY <1>1, <1>2
  <2>2. Tail(s)[1] = s[1 + 1]
    BY <1>4, <2>1
  <2>. QED
    BY <1>2, <2>1, <2>2 DEF IsSet
<1>7. /\ Tail(Tail(s)) \in Seq(ByteSet) /\ Len(Tail(Tail(s))) = Len(Tail(s)) - 1
      /\ Joined(Tail(Tail(s)))
      /\ \A j \in 1 .. Len(Tail(s)) - 1 : Tail(Tail(s))[j] = Tail(s)[j + 1]
      /\ \A w, W : Ends(Tail(s), w, W) => Ends(Tail(Tail(s)), w, W)
  BY <1>4, <1>5, <1>6, HeardByte
<1>8. ASSUME NEW j \in 1 .. Len(s) - 2 PROVE Tail(Tail(s))[j] = s[j + 2]
  <2>1. j \in 1 .. Len(Tail(s)) - 1 /\ j + 1 \in 1 .. Len(s) - 1 /\ (j + 1) + 1 = j + 2
    BY <1>1, <1>4
  <2>. QED
    BY <1>4, <1>7, <2>1
<1>9. ASSUME NEW w, NEW W, Ends(s, w, W) PROVE Ends(Tail(s), s[2].word, W)
  <2>1. PICK j \in 1 .. Len(s) : /\ IsSet(s[j]) /\ s[j + 1].word = W
                                 /\ \A k \in j + 1 .. Len(s) : ~IsSet(s[k])
    BY <1>1, <1>9 DEF Ends
  <2>2. CASE j = 1
    <3>1. ASSUME NEW k \in 1 .. Len(Tail(s)) PROVE ~IsSet(Tail(s)[k])
      <4>1. k + 1 \in j + 1 .. Len(s) /\ k \in 1 .. Len(s) - 1
        BY <1>1, <1>4, <2>2
      <4>. QED
        BY <1>4, <2>1, <4>1
    <3>2. s[2].word = W
      BY <2>1, <2>2
    <3>. QED
      BY <3>1, <3>2 DEF Ends
  <2>3. CASE j # 1
    <3>1. j < Len(s)
      BY <2>1 DEF Joined
    <3>2. /\ j - 1 \in 1 .. Len(Tail(s)) /\ (j - 1) + 1 = j
          /\ j - 1 \in 1 .. Len(s) - 1 /\ j \in 1 .. Len(s) - 1
      BY <1>1, <1>4, <2>3, <3>1
    <3>3. Tail(s)[j - 1] = s[j] /\ Tail(s)[(j - 1) + 1] = s[j + 1]
      BY <1>4, <3>2
    <3>4. ASSUME NEW k \in (j - 1) + 1 .. Len(Tail(s)) PROVE ~IsSet(Tail(s)[k])
      <4>1. k + 1 \in j + 1 .. Len(s) /\ k \in 1 .. Len(s) - 1
        BY <1>1, <1>4, <3>2
      <4>. QED
        BY <1>4, <2>1, <4>1
    <3>. QED
      BY <2>1, <3>2, <3>3, <3>4 DEF Ends
  <2>. QED
    BY <2>2, <2>3
<1>10. Len(Tail(Tail(s))) = Len(s) - 2
  BY <1>1, <1>4, <1>7
<1>. QED
  BY <1>2, <1>3, <1>7, <1>8, <1>9, <1>10

\* With room enough nothing is cut off.
LEMMA AllTaken ==
  ASSUME NEW tx \in Seq(ByteSet), NEW r \in Nat, Len(tx) <= r
  PROVE  /\ SubSeq(tx, 1, Taken(tx, r)) = tx
         /\ SubSeq(tx, Taken(tx, r) + 1, Len(tx)) = <<>>
<1>1. Len(tx) \in Nat /\ Taken(tx, r) = Len(tx)
  BY LenProperties DEF Taken, AtMost
<1>2. SubSeq(tx, 1, Len(tx)) = tx
  BY SubSeqFull
<1>3. SubSeq(tx, Len(tx) + 1, Len(tx)) = <<>>
  BY <1>1, SubSeqEmpty
<1>. QED
  BY <1>1, <1>2, <1>3

LEMMA AllWritten ==
  ASSUME NEW o \in Seq(ByteSet), NEW bytes \in Seq(ByteSet),
         Len(o) + Len(bytes) <= DRIVER_ROOM
  PROVE  Written(o, bytes) = o \o bytes
<1>1. /\ Len(o) \in Nat /\ Len(bytes) \in Nat /\ DRIVER_ROOM \in Nat
      /\ AtMost(Len(bytes), WriteRoom(o)) = Len(bytes)
  <2>1. Len(o) \in Nat /\ Len(bytes) \in Nat
    BY LenProperties
  <2>2. DRIVER_ROOM \in Nat
    BY SizeAssumption
  <2>. QED
    BY <2>1, <2>2 DEF AtMost, WriteRoom
<1>2. SubSeq(bytes, 1, Len(bytes)) = bytes
  BY SubSeqFull
<1>. QED
  BY <1>1, <1>2 DEF Written

LEMMA AllPut ==
  ASSUME NEW tx \in Seq(ByteSet), NEW bytes \in Seq(ByteSet),
         Len(tx) + Len(bytes) < TUXCTL_BUFSIZE
  PROVE  Put(tx, bytes) = tx \o bytes
<1>1. /\ Len(tx) \in Nat /\ Len(bytes) \in Nat
      /\ AtMost(Len(bytes), TUXCTL_BUFSIZE - 1 - Len(tx)) = Len(bytes)
  BY LenProperties, BufferAssumption DEF AtMost
<1>2. SubSeq(bytes, 1, Len(bytes)) = bytes
  BY SubSeqFull
<1>. QED
  BY <1>1, <1>2 DEF Put

LEMMA AllWoken ==
  ASSUME NEW tx \in Seq(ByteSet), NEW o \in Seq(ByteSet), Len(o) + Len(tx) <= DRIVER_ROOM
  PROVE  Wakeup(tx, o)[1] = <<>> /\ Wakeup(tx, o)[2] = o \o tx
<1>1. WriteRoom(o) \in Nat /\ Len(tx) <= WriteRoom(o)
  <2>1. Len(o) \in Nat /\ Len(tx) \in Nat
    BY LenProperties
  <2>2. DRIVER_ROOM \in Nat
    BY SizeAssumption
  <2>. QED
    BY <2>1, <2>2 DEF WriteRoom
<1>2. /\ SubSeq(tx, 1, Taken(tx, WriteRoom(o))) = tx
      /\ SubSeq(tx, Taken(tx, WriteRoom(o)) + 1, Len(tx)) = <<>>
  BY <1>1, AllTaken
<1>3. Written(o, tx) = o \o tx
  BY AllWritten
<1>. QED
  BY <1>2, <1>3 DEF Wakeup

\* The resets among the packets: how many there are, and what the first and a new one add.
Resetting(p) == p.type = "MTCP_RESET"
Awaits(p) == \E j \in 1 .. Len(p) : Resetting(p[j])
ResetsIn(p) == {j \in 1 .. Len(p) : Resetting(p[j])}
Pending(p) == Cardinality(ResetsIn(p))

LEMMA PendingType ==
  ASSUME NEW p \in Seq(PacketSet)
  PROVE  IsFiniteSet(ResetsIn(p)) /\ Pending(p) \in Nat
<1>1. Len(p) \in Nat
  BY LenProperties
<1>2. IsFiniteSet(1 .. Len(p))
  BY <1>1, FS_Interval
<1>3. ResetsIn(p) \subseteq 1 .. Len(p)
  BY DEF ResetsIn
<1>4. IsFiniteSet(ResetsIn(p))
  BY <1>2, <1>3, FS_Subset
<1>. QED
  BY <1>4, FS_CardinalityType DEF Pending

LEMMA PendingAppend ==
  ASSUME NEW p \in Seq(PacketSet), NEW x \in PacketSet
  PROVE  /\ Append(p, x) \in Seq(PacketSet)
         /\ Pending(Append(p, x)) = IF Resetting(x) THEN Pending(p) + 1 ELSE Pending(p)
         /\ Awaits(Append(p, x)) <=> Awaits(p) \/ Resetting(x)
<1>. DEFINE q == Append(p, x)
<1>1. /\ q \in Seq(PacketSet) /\ Len(p) \in Nat /\ Len(q) = Len(p) + 1
      /\ \A j \in 1 .. Len(p) : q[j] = p[j]
      /\ q[Len(p) + 1] = x
  BY AppendProperties, LenProperties
<1>. HIDE DEF q
<1>2. \A j : j \in 1 .. Len(q) <=> j \in 1 .. Len(p) \/ j = Len(p) + 1
  BY <1>1
<1>3. Len(p) + 1 \notin ResetsIn(p)
  BY <1>1 DEF ResetsIn
<1>4. Resetting(x) => ResetsIn(q) = ResetsIn(p) \cup {Len(p) + 1}
  BY <1>1, <1>2 DEF ResetsIn
<1>5. ~Resetting(x) => ResetsIn(q) = ResetsIn(p)
  BY <1>1, <1>2 DEF ResetsIn
<1>6. Pending(q) = IF Resetting(x) THEN Pending(p) + 1 ELSE Pending(p)
  <2>1. Cardinality(ResetsIn(p) \cup {Len(p) + 1}) = Cardinality(ResetsIn(p)) + 1
    BY <1>3, PendingType, FS_AddElement
  <2>. QED
    BY <1>4, <1>5, <2>1 DEF Pending
<1>7. Awaits(q) <=> Awaits(p) \/ Resetting(x)
  BY <1>1, <1>2 DEF Awaits
<1>. QED
  BY <1>1, <1>6, <1>7 DEF q

LEMMA PendingTail ==
  ASSUME NEW p \in Seq(PacketSet), p # <<>>
  PROVE  /\ Head(p) \in PacketSet /\ Head(p) = p[1] /\ Tail(p) \in Seq(PacketSet)
         /\ Len(Tail(p)) = Len(p) - 1 /\ Len(p) \in Nat \ {0}
         /\ \A j \in 1 .. Len(p) - 1 : Tail(p)[j] = p[j + 1]
         /\ Pending(Tail(p)) = IF Resetting(p[1]) THEN Pending(p) - 1 ELSE Pending(p)
         /\ Awaits(Tail(p)) => Awaits(p)
         /\ ~Resetting(p[1]) /\ Awaits(p) => Awaits(Tail(p))
<1>. DEFINE q == Tail(p)
            M == ResetsIn(p) \ {1}
<1>1. /\ Head(p) \in PacketSet /\ Head(p) = p[1] /\ q \in Seq(PacketSet)
      /\ Len(q) = Len(p) - 1 /\ Len(p) \in Nat \ {0}
      /\ \A j \in 1 .. Len(p) - 1 : q[j] = p[j + 1]
  <2>1. /\ Head(p) \in PacketSet /\ q \in Seq(PacketSet) /\ Len(q) = Len(p) - 1
        /\ \A j \in 1 .. Len(q) : q[j] = p[j + 1]
    BY HeadTailProperties
  <2>2. Len(p) \in Nat \ {0}
    BY EmptySeq
  <2>3. Head(p) = p[1]
    OBVIOUS
  <2>. QED
    BY <2>1, <2>2, <2>3
<1>. HIDE DEF q
<1>2. \A j \in 1 .. Len(q) : j + 1 \in 1 .. Len(p) /\ j + 1 # 1 /\ q[j] = p[j + 1]
  BY <1>1
<1>3. \A j \in 1 .. Len(p) : j # 1 => j - 1 \in 1 .. Len(q) /\ q[j - 1] = p[j]
  <2>. TAKE j \in 1 .. Len(p)
  <2>. HAVE j # 1
  <2>1. j - 1 \in 1 .. Len(q) /\ j - 1 \in 1 .. Len(p) - 1 /\ (j - 1) + 1 = j
    BY <1>1
  <2>. QED
    BY <1>1, <2>1
<1>4. ExistsBijection(M, ResetsIn(q))
  <2>. DEFINE f == [j \in M |-> j - 1]
  <2>1. f \in [M -> ResetsIn(q)]
    <3>1. ASSUME NEW j \in M PROVE j - 1 \in ResetsIn(q)
      BY <1>3 DEF ResetsIn
    <3>. QED
      BY <3>1
  <2>2. \A j, k \in M : f[j] = f[k] => j = k
    BY DEF ResetsIn
  <2>3. \A j \in ResetsIn(q) : \E k \in M : f[k] = j
    <3>. TAKE j \in ResetsIn(q)
    <3>1. j + 1 \in M /\ (j + 1) - 1 = j
      BY <1>2 DEF ResetsIn
    <3>. QED
      BY <3>1
  <2>. HIDE DEF f
  <2>4. f \in Bijection(M, ResetsIn(q))
    BY <2>1, <2>2, <2>3 DEF Bijection, Injection, Surjection, IsInjective
  <2>. QED
    BY <2>4 DEF ExistsBijection
<1>5. /\ IsFiniteSet(M)
      /\ Cardinality(M) = IF Resetting(p[1]) THEN Pending(p) - 1 ELSE Pending(p)
  <2>1. /\ IsFiniteSet(M)
        /\ Cardinality(M) = IF 1 \in ResetsIn(p) THEN Pending(p) - 1 ELSE Pending(p)
    BY PendingType, FS_RemoveElement DEF Pending
  <2>2. 1 \in ResetsIn(p) <=> Resetting(p[1])
    BY <1>1 DEF ResetsIn
  <2>. QED
    BY <2>1, <2>2
<1>6. Pending(q) = Cardinality(M)
  BY <1>4, <1>5, FS_Bijection DEF Pending
<1>7. Awaits(q) => Awaits(p)
  BY <1>2 DEF Awaits
<1>8. ~Resetting(p[1]) /\ Awaits(p) => Awaits(q)
  BY <1>3 DEF Awaits
<1>. QED
  BY <1>1, <1>5, <1>6, <1>7, <1>8 DEF q

\* Events: buttons holds when the last event among the packets tells e, or none is left and
\* the driver has it.
IsEvent(p) == p.type = "MTCP_BIOC_EVENT"
Tells(p, status, e) ==
  \/ status = StatusOf(e.b, e.c) /\ \A j \in 1 .. Len(p) : ~IsEvent(p[j])
  \/ \E j \in 1 .. Len(p) :
       /\ p[j] = e
       /\ \A k \in j + 1 .. Len(p) : ~IsEvent(p[k])

LEMMA TellsAppend ==
  ASSUME NEW p \in Seq(PacketSet), NEW x \in PacketSet, NEW status, NEW e
  PROVE  /\ x = e => Tells(Append(p, x), status, e)
         /\ ~IsEvent(x) /\ Tells(p, status, e) => Tells(Append(p, x), status, e)
<1>. DEFINE q == Append(p, x)
<1>1. /\ Len(p) \in Nat /\ Len(q) = Len(p) + 1
      /\ \A j \in 1 .. Len(p) : q[j] = p[j]
      /\ q[Len(p) + 1] = x
  BY AppendProperties, LenProperties
<1>. HIDE DEF q
<1>2. \A j \in 1 .. Len(q) : j \in 1 .. Len(p) \/ j = Len(p) + 1
  BY <1>1
<1>3. Len(p) + 1 \in 1 .. Len(q) /\ \A j \in 1 .. Len(p) : j \in 1 .. Len(q)
  BY <1>1
<1>4. x = e => Tells(q, status, e)
  <2>1. \A k \in (Len(p) + 1) + 1 .. Len(q) : ~IsEvent(q[k])
    BY <1>1
  <2>. QED
    BY <1>1, <1>3, <2>1 DEF Tells
<1>5. ASSUME ~IsEvent(x), Tells(p, status, e) PROVE Tells(q, status, e)
  <2>1. CASE status = StatusOf(e.b, e.c) /\ \A j \in 1 .. Len(p) : ~IsEvent(p[j])
    BY <1>1, <1>2, <1>5, <2>1 DEF Tells
  <2>2. CASE \E j \in 1 .. Len(p) : p[j] = e /\ \A k \in j + 1 .. Len(p) : ~IsEvent(p[k])
    <3>1. PICK j \in 1 .. Len(p) : p[j] = e /\ \A k \in j + 1 .. Len(p) : ~IsEvent(p[k])
      BY <2>2
    <3>2. ASSUME NEW k \in j + 1 .. Len(q) PROVE ~IsEvent(q[k])
      <4>1. k = Len(p) + 1 \/ (k \in j + 1 .. Len(p) /\ k \in 1 .. Len(p))
        BY <1>1
      <4>. QED
        BY <1>1, <1>5, <3>1, <4>1
    <3>3. j \in 1 .. Len(q) /\ q[j] = e
      BY <1>1, <1>3, <3>1
    <3>. QED
      BY <3>2, <3>3 DEF Tells
  <2>. QED
    BY <1>5, <2>1, <2>2 DEF Tells
<1>. QED
  BY <1>4, <1>5 DEF q

\* The driver takes the first packet, and its buttons if it is an event.
LEMMA TellsTail ==
  ASSUME NEW p \in Seq(PacketSet), p # <<>>, NEW status, NEW status2, NEW e,
         Tells(p, status, e),
         status2 = IF IsEvent(p[1]) THEN StatusOf(p[1].b, p[1].c) ELSE status,
         IsEvent(e)
  PROVE  Tells(Tail(p), status2, e)
<1>. DEFINE q == Tail(p)
<1>1. /\ Len(p) \in Nat \ {0} /\ Len(q) = Len(p) - 1
      /\ \A j \in 1 .. Len(p) - 1 : q[j] = p[j + 1]
  BY PendingTail
<1>. HIDE DEF q
<1>2. ASSUME NEW k \in 1 .. Len(q) PROVE k + 1 \in 1 .. Len(p) /\ q[k] = p[k + 1]
  BY <1>1
<1>3. CASE status = StatusOf(e.b, e.c) /\ \A j \in 1 .. Len(p) : ~IsEvent(p[j])
  <2>1. ~IsEvent(p[1])
    BY <1>1, <1>3
  <2>2. status2 = status
    BY <2>1
  <2>3. \A j \in 1 .. Len(q) : ~IsEvent(q[j])
    BY <1>2, <1>3
  <2>. QED
    BY <1>3, <2>2, <2>3 DEF Tells, q
<1>4. CASE \E j \in 1 .. Len(p) : p[j] = e /\ \A k \in j + 1 .. Len(p) : ~IsEvent(p[k])
  <2>1. PICK j \in 1 .. Len(p) : p[j] = e /\ \A k \in j + 1 .. Len(p) : ~IsEvent(p[k])
    BY <1>4
  <2>2. CASE j = 1
    <3>1. status2 = StatusOf(e.b, e.c)
      BY <2>1, <2>2
    <3>2. ASSUME NEW k \in 1 .. Len(q) PROVE ~IsEvent(q[k])
      <4>1. k + 1 \in j + 1 .. Len(p)
        BY <1>1, <2>2
      <4>. QED
        BY <1>2, <2>1, <4>1
    <3>. QED
      BY <3>1, <3>2 DEF Tells, q
  <2>3. CASE j # 1
    <3>1. j - 1 \in 1 .. Len(q) /\ (j - 1) + 1 = j
      BY <1>1, <2>3
    <3>2. q[j - 1] = e
      BY <1>2, <2>1, <3>1
    <3>3. ASSUME NEW k \in (j - 1) + 1 .. Len(q) PROVE ~IsEvent(q[k])
      <4>1. k \in 1 .. Len(q) /\ k + 1 \in j + 1 .. Len(p)
        BY <1>1, <3>1
      <4>. QED
        BY <1>2, <2>1, <4>1
    <3>. QED
      BY <3>1, <3>2, <3>3 DEF Tells, q
  <2>. QED
    BY <2>2, <2>3
<1>. QED
  BY <1>3, <1>4 DEF Tells

LEMMA LedByteType ==
  ASSUME NEW a \in Nat, NEW l \in Leds
  PROVE  /\ Digit(a, l) \in 0 .. 239 /\ Point(a, l) \in {0, 16}
         /\ LedByte(a, l) = Digit(a, l) + Point(a, l) /\ LedByte(a, l) \in 0 .. 255
<1>1. l \in 0 .. 3
  BY SizeAssumption, SMTT(30) DEF Leds
<1>2. (a \div 16 ^ l) % 16 \in 0 .. 15
  BY <1>1
<1>3. ((a \div 16 ^ l) % 16) + 1 \in 1 .. 16
  BY <1>2
<1>4. \A n \in 1 .. 16 : LED[n] \in 0 .. 239
  BY DEF LED
<1>5. LED[((a \div 16 ^ l) % 16) + 1] \in 0 .. 239
  BY <1>3, <1>4
<1>. DEFINE d == LED[((a \div 16 ^ l) % 16) + 1]
            mask == HasBit(a, 2 ^ (16 + l))
            point == HasBit(a, 2 ^ (24 + l))
<1>6. Digit(a, l) = (IF mask THEN d ELSE 0) /\ Point(a, l) = (IF point THEN 16 ELSE 0)
  BY DEF Digit, Point
<1>7. d \in 0 .. 239
  BY <1>5
<1>. HIDE DEF d, mask, point
<1>8. Digit(a, l) \in 0 .. 239 /\ Point(a, l) \in {0, 16}
  BY <1>6, <1>7
<1>9. LedByte(a, l) = Digit(a, l) + Point(a, l)
  BY DEF LedByte
<1>. QED
  BY <1>8, <1>9

LEMMA DisplayTimeType == ASSUME NEW time \in Times PROVE DisplayTime(time) \in Nat
<1>1. time \in 0 .. 256 * 60 - 1
  BY SizeAssumption
<1>2. 2 ^ 24 \in Nat /\ 2 ^ 16 \in Nat
  OBVIOUS
<1>. QED
  BY <1>1, <1>2, SMTT(30) DEF DisplayTime

\* The bits of an event, a nibble a byte, and of the status that the driver makes of them.
Bit(x) == IF x THEN 1 ELSE 0

LEMMA EventBits ==
  ASSUME NEW down \in SUBSET DOMAIN BitOf
  PROVE  /\ Event(down) = [type |-> "MTCP_BIOC_EVENT", b |-> Event(down).b, c |-> Event(down).c]
         /\ Event(down).b = 240 + Bit("start" \notin down) + 2 * Bit("a" \notin down)
                              + 4 * Bit("b" \notin down) + 8 * Bit("c" \notin down)
         /\ Event(down).c = 240 + Bit("up" \notin down) + 2 * Bit("left" \notin down)
                              + 4 * Bit("down" \notin down) + 8 * Bit("right" \notin down)
<1>. DEFINE Clear(byte, bit) == IF \E n \in down : WireBit[n] = <<byte, bit>> THEN 0 ELSE bit
            ByteOf(byte) == 240 + Clear(byte, 1) + Clear(byte, 2) + Clear(byte, 4) + Clear(byte, 8)
<1>1. down \subseteq {"start", "a", "b", "c", "up", "down", "left", "right"}
  BY DEF BitOf
<1>2. /\ WireBit["start"] = <<1, 1>> /\ WireBit["a"] = <<1, 2>>
      /\ WireBit["b"] = <<1, 4>> /\ WireBit["c"] = <<1, 8>>
      /\ WireBit["up"] = <<2, 1>> /\ WireBit["left"] = <<2, 2>>
      /\ WireBit["down"] = <<2, 4>> /\ WireBit["right"] = <<2, 8>>
  BY DEF WireBit
<1>3. /\ (\E n \in down : WireBit[n] = <<1, 1>>) <=> "start" \in down
      /\ (\E n \in down : WireBit[n] = <<1, 2>>) <=> "a" \in down
      /\ (\E n \in down : WireBit[n] = <<1, 4>>) <=> "b" \in down
      /\ (\E n \in down : WireBit[n] = <<1, 8>>) <=> "c" \in down
  BY <1>1, <1>2
<1>4. /\ (\E n \in down : WireBit[n] = <<2, 1>>) <=> "up" \in down
      /\ (\E n \in down : WireBit[n] = <<2, 2>>) <=> "left" \in down
      /\ (\E n \in down : WireBit[n] = <<2, 4>>) <=> "down" \in down
      /\ (\E n \in down : WireBit[n] = <<2, 8>>) <=> "right" \in down
  BY <1>1, <1>2
<1>5. /\ Clear(1, 1) = Bit("start" \notin down) /\ Clear(1, 2) = 2 * Bit("a" \notin down)
      /\ Clear(1, 4) = 4 * Bit("b" \notin down) /\ Clear(1, 8) = 8 * Bit("c" \notin down)
  BY <1>3 DEF Bit
<1>6. /\ Clear(2, 1) = Bit("up" \notin down) /\ Clear(2, 2) = 2 * Bit("left" \notin down)
      /\ Clear(2, 4) = 4 * Bit("down" \notin down) /\ Clear(2, 8) = 8 * Bit("right" \notin down)
  BY <1>4 DEF Bit
<1>7. Event(down) = [type |-> "MTCP_BIOC_EVENT", b |-> ByteOf(1), c |-> ByteOf(2)]
  BY DEF Event
<1>. HIDE DEF Clear
<1>. QED
  BY <1>5, <1>6, <1>7

LEMMA StatusBits ==
  ASSUME NEW x1 \in 0 .. 1, NEW x2 \in 0 .. 1, NEW x4 \in 0 .. 1, NEW x8 \in 0 .. 1,
         NEW y1 \in 0 .. 1, NEW y2 \in 0 .. 1, NEW y4 \in 0 .. 1, NEW y8 \in 0 .. 1
  PROVE  StatusOf(240 + x1 + 2 * x2 + 4 * x4 + 8 * x8, 240 + y1 + 2 * y2 + 4 * y4 + 8 * y8)
           = x1 + 2 * x2 + 4 * x4 + 8 * x8 + 16 * y1 + 32 * y4 + 64 * y2 + 128 * y8
<1>. DEFINE b == 240 + x1 + 2 * x2 + 4 * x4 + 8 * x8
            c == 240 + y1 + 2 * y2 + 4 * y4 + 8 * y8
            low == x1 + 2 * x2 + 4 * x4 + 8 * x8
            Without(n, bit) == IF HasBit(n, bit) THEN n - bit ELSE n
<1>1. b % 16 = low
  OBVIOUS
<1>2. (c * 16) % 256 = 16 * y1 + 32 * y2 + 64 * y4 + 128 * y8
  OBVIOUS
<1>3. (c \div 4) % 2 = y4 /\ (c \div 2) % 2 = y2
  OBVIOUS
<1>4. low \in 0 .. 15
  OBVIOUS
<1>. HIDE DEF b, c, low
<1>. DEFINE n1 == low + 16 * y1 + 32 * y2 + 64 * y4 + 128 * y8
            n2 == low + 16 * y1 + 64 * y4 + 128 * y8 + 32 * y4
            n3 == low + 16 * y1 + 128 * y8 + 32 * y4 + 64 * y2
<1>5. Without(n1, 32) = n1 - 32 * y2
  <2>1. (n1 \div 32) % 2 = y2
    BY <1>4
  <2>. QED
    BY <2>1, <1>4 DEF HasBit
<1>6. Without(n2, 64) = n2 - 64 * y4
  <2>1. (n2 \div 64) % 2 = y4
    BY <1>4
  <2>. QED
    BY <2>1, <1>4 DEF HasBit
<1>7. StatusOf(b, c) = Without(Without(((c * 16) % 256) + (b % 16), 32) + ((c \div 4) % 2) * 32, 64)
                         + ((c \div 2) % 2) * 64
  BY DEF StatusOf
<1>8. ((c * 16) % 256) + (b % 16) = n1
  BY <1>1, <1>2, <1>4
<1>9. Without(n1, 32) + y4 * 32 = n2
  BY <1>4, <1>5
<1>10. Without(n2, 64) + y2 * 64 = n3
  BY <1>4, <1>6
<1>11. StatusOf(b, c) = n3
  <2>. HIDE DEF Without, n1, n2, n3
  <2>. QED
    BY <1>3, <1>7, <1>8, <1>9, <1>10
<1>12. n3 = x1 + 2 * x2 + 4 * x4 + 8 * x8 + 16 * y1 + 32 * y4 + 64 * y2 + 128 * y8
  BY DEF low
<1>. QED
  BY <1>11, <1>12 DEF b, c

\* The status after an event has the bit of a button if the button is up.
LEMMA StatusTells ==
  ASSUME NEW down \in SUBSET DOMAIN BitOf
  PROVE  /\ Event(down) \in PacketSet /\ IsEvent(Event(down))
         /\ \A n \in DOMAIN BitOf :
              HasBit(StatusOf(Event(down).b, Event(down).c), BitOf[n]) <=> n \notin down
<1>. DEFINE s == Bit("start" \notin down)
            a == Bit("a" \notin down)
            b == Bit("b" \notin down)
            c == Bit("c" \notin down)
            u == Bit("up" \notin down)
            d == Bit("down" \notin down)
            l == Bit("left" \notin down)
            r == Bit("right" \notin down)
            status == s + 2 * a + 4 * b + 8 * c + 16 * u + 32 * d + 64 * l + 128 * r
<1>1. /\ s \in 0 .. 1 /\ a \in 0 .. 1 /\ b \in 0 .. 1 /\ c \in 0 .. 1
      /\ u \in 0 .. 1 /\ d \in 0 .. 1 /\ l \in 0 .. 1 /\ r \in 0 .. 1
  BY DEF Bit
<1>2. /\ Event(down) = [type |-> "MTCP_BIOC_EVENT", b |-> Event(down).b, c |-> Event(down).c]
      /\ Event(down).b = 240 + s + 2 * a + 4 * b + 8 * c
      /\ Event(down).c = 240 + u + 2 * l + 4 * d + 8 * r
  BY EventBits
<1>3. /\ s = 1 <=> "start" \notin down
      /\ a = 1 <=> "a" \notin down
      /\ b = 1 <=> "b" \notin down
      /\ c = 1 <=> "c" \notin down
      /\ u = 1 <=> "up" \notin down
      /\ d = 1 <=> "down" \notin down
      /\ l = 1 <=> "left" \notin down
      /\ r = 1 <=> "right" \notin down
  BY DEF Bit
<1>. HIDE DEF s, a, b, c, u, d, l, r
<1>4. Event(down).b \in 0 .. 255 /\ Event(down).c \in 0 .. 255
  BY <1>1, <1>2
<1>5. Event(down) \in PacketSet /\ IsEvent(Event(down))
  BY <1>2, <1>4 DEF PacketSet, PacketTypes, IsEvent
<1>6. StatusOf(Event(down).b, Event(down).c) = status
  <2>1. StatusOf(240 + s + 2 * a + 4 * b + 8 * c, 240 + u + 2 * l + 4 * d + 8 * r)
          = s + 2 * a + 4 * b + 8 * c + 16 * u + 32 * d + 64 * l + 128 * r
    BY <1>1, StatusBits
  <2>. QED
    BY <1>2, <2>1
<1>7. /\ (status \div 1) % 2 = s /\ (status \div 2) % 2 = a
      /\ (status \div 4) % 2 = b /\ (status \div 8) % 2 = c
  BY <1>1
<1>8. /\ (status \div 16) % 2 = u /\ (status \div 32) % 2 = d
      /\ (status \div 64) % 2 = l /\ (status \div 128) % 2 = r
  BY <1>1
<1>9. /\ BitOf["start"] = 1 /\ BitOf["a"] = 2 /\ BitOf["b"] = 4 /\ BitOf["c"] = 8
      /\ BitOf["up"] = 16 /\ BitOf["down"] = 32 /\ BitOf["left"] = 64 /\ BitOf["right"] = 128
      /\ DOMAIN BitOf = {"start", "a", "b", "c", "up", "down", "left", "right"}
  BY DEF BitOf
<1>10. ASSUME NEW n \in DOMAIN BitOf PROVE HasBit(status, BitOf[n]) <=> n \notin down
  <2>. HIDE DEF status
  <2>1. CASE n \in {"start", "a", "b", "c"}
    BY <1>3, <1>7, <1>9, <2>1 DEF HasBit
  <2>2. CASE n \in {"up", "down", "left", "right"}
    BY <1>3, <1>8, <1>9, <2>2 DEF HasBit
  <2>. QED
    BY <1>9, <2>1, <2>2
<1>. QED
  BY <1>5, <1>6, <1>10

LEMMA StatusType ==
  ASSUME NEW b \in 0 .. 255, NEW c \in 0 .. 255
  PROVE  StatusOf(b, c) \in 0 .. 255
<1>. DEFINE Without(n, bit) == IF HasBit(n, bit) THEN n - bit ELSE n
            n1 == ((c * 16) % 256) + (b % 16)
            d == ((c \div 4) % 2) * 32
            l == ((c \div 2) % 2) * 64
<1>1. n1 \in 0 .. 255 /\ d \in {0, 32} /\ l \in {0, 64}
  OBVIOUS
<1>2. StatusOf(b, c) = Without(Without(n1, 32) + d, 64) + l
  BY DEF StatusOf
<1>. HIDE DEF n1, d, l
<1>3. Without(n1, 32) \in 0 .. 223 /\ (Without(n1, 32) \div 32) % 2 = 0
  BY <1>1 DEF HasBit
<1>. DEFINE n2 == Without(n1, 32) + d
<1>4. n2 \in 0 .. 255
  BY <1>1, <1>3
<1>. HIDE DEF n2
<1>5. Without(n2, 64) \in 0 .. 191
  BY <1>4 DEF HasBit
<1>6. StatusOf(b, c) = Without(n2, 64) + l
  BY <1>2 DEF n2
<1>. QED
  BY <1>1, <1>5, <1>6

\* The word that the running ioctl sends, and its bytes after TakeBytes.
Word == IF cmd = "TUX_INIT" THEN Off ELSE [l \in Leds |-> LedByte(arg, l)]
Sending == pc \in {"put", "room", "take", "write"}
Going == IF pc = "write" THEN buf ELSE <<>>
Unsent == pc = "put" \/ tx_buf # <<>> \/ Going # <<>>

Places ==
  /\ pc \in {"opened", "idle"} => cmd = "none"
  /\ pc \in {"convert", "point"} => cmd = "TUX_SET_LED"
  /\ Sending => cmd \in {"TUX_INIT", "TUX_SET_LED"}
  /\ pc = "clear" => cmd = "TUX_INIT"
  /\ tx_buf = <<>> \/ (pc \in {"room", "take"} /\ tx_buf = Command)
  /\ Going = <<>> \/ Going = Command

\* Nothing is cut off: a call and each reset that the driver has answered bring four bytes.
Handled == resets - Pending(packets)
Load == Len(out) + Len(tx_buf) + Len(Going) + (IF pc \in {"convert", "point", "put"} THEN 4 ELSE 0)
RoomLeft ==
  /\ Handled \in 0 .. MAX_RESETS
  /\ Load <= MAX_UNDERWAY + 4 + 4 * Handled
  /\ pc = "take" => Len(tx_buf) <= room

\* What the conversion has done, and that LED_status is the word that is sent.
Converted ==
  /\ pc \in {"convert", "point"} => \A l \in 0 .. led - 1 : LED_status[l] = LedByte(arg, l)
  /\ pc = "point" => led \in Leds /\ LED_status[led] = Digit(arg, led)
  /\ cmd = "TUX_SET_LED" /\ Sending => LED_status = Word

\* The modes and the LEDs that the controller has, or will have when it has heard all that
\* is on its way, unless it was reset.
UserModeIn(s) == \E j \in 1 .. Len(s) : s[j].byte = "MTCP_LED_USR"
ResetUnanswered == Awaits(packets) \/ "MTCP_RESET" \in dropped
ModeComes ==
  \/ ResetUnanswered \/ pc = "opened"
  \/ mode = "user" \/ UserModeIn(out)
  \/ cmd = "TUX_INIT" /\ Unsent
LedsCome ==
  ~missed /\ ~ResetUnanswered =>
    /\ pc = "idle" => Ends(out, leds, LED_status)
    /\ pc = "clear" => Ends(out, leds, Off)
    /\ pc \in {"room", "take", "write"} /\ ~Unsent => Ends(out, leds, Word)

EventsTell == ~unseen => Tells(packets, button_status, Event(pressed))

\* What frees a busy driver, as AnswerDue has it.
Freeing == {"MTCP_ACK", "MTCP_RESET"}
Commanding(s) == \E j \in 1 .. Len(s) : s[j].byte # "digits"
Answering(p) == \E j \in 1 .. Len(p) : p[j].type \in Freeing
AnswerComes ==
  is_busy => Unsent \/ Commanding(out) \/ Answering(packets) \/ AnswerLost

CtlInv ==
  /\ TypeOK /\ Places /\ RoomLeft /\ Converted
  /\ Joined(out) /\ ModeComes /\ LedsCome /\ EventsTell /\ AnswerComes

\* The first byte or packet takes what frees the driver with it only if it is that itself.
LEMMA CommandingTail ==
  ASSUME NEW p \in Seq(ByteSet), p # <<>>, Commanding(p), p[1].byte = "digits"
  PROVE  Commanding(Tail(p))
<1>1. PICK j \in 1 .. Len(p) : p[j].byte # "digits"
  BY DEF Commanding
<1>2. /\ Len(Tail(p)) = Len(p) - 1 /\ Len(p) \in Nat
      /\ \A k \in 1 .. Len(Tail(p)) : Tail(p)[k] = p[k + 1]
  BY HeadTailProperties, LenProperties
<1>3. j - 1 \in 1 .. Len(Tail(p)) /\ (j - 1) + 1 = j
  BY <1>1, <1>2
<1>4. Tail(p)[j - 1].byte # "digits"
  BY <1>1, <1>2, <1>3
<1>. QED
  BY <1>3, <1>4 DEF Commanding

LEMMA AnsweringTail ==
  ASSUME NEW p \in Seq(PacketSet), p # <<>>, Answering(p)
  PROVE  p[1].type \in Freeing \/ Answering(Tail(p))
<1>. SUFFICES ASSUME p[1].type \notin Freeing PROVE Answering(Tail(p))
  OBVIOUS
<1>1. PICK j \in 1 .. Len(p) : p[j].type \in Freeing
  BY DEF Answering
<1>2. /\ Len(Tail(p)) = Len(p) - 1 /\ Len(p) \in Nat
      /\ \A k \in 1 .. Len(p) - 1 : Tail(p)[k] = p[k + 1]
  BY PendingTail
<1>3. j - 1 \in 1 .. Len(Tail(p)) /\ (j - 1) + 1 = j
  BY <1>1, <1>2
<1>4. Tail(p)[j - 1].type \in Freeing
  BY <1>1, <1>2, <1>3
<1>. QED
  BY <1>3, <1>4 DEF Answering

LEMMA AnsweringAppend ==
  ASSUME NEW p \in Seq(PacketSet), NEW x \in PacketSet, Answering(p) \/ x.type \in Freeing
  PROVE  Answering(Append(p, x))
<1>. DEFINE q == Append(p, x)
<1>1. /\ Len(p) \in Nat /\ Len(q) = Len(p) + 1
      /\ \A j \in 1 .. Len(p) : q[j] = p[j]
      /\ q[Len(p) + 1] = x
  BY AppendProperties, LenProperties
<1>. HIDE DEF q
<1>2. Len(p) + 1 \in 1 .. Len(q) /\ \A j \in 1 .. Len(p) : j \in 1 .. Len(q)
  BY <1>1
<1>3. Answering(q)
  BY <1>1, <1>2 DEF Answering
<1>. QED
  BY <1>3 DEF q

LEMMA CommandFacts ==
  ASSUME TypeOK, cmd \in {"TUX_INIT", "TUX_SET_LED"}
  PROVE  /\ Word \in Words
         /\ Command \in Seq(ByteSet) /\ Len(Command) \in 2 .. 4 /\ Command # <<>>
         /\ Chunk(Command) /\ \E j \in 1 .. Len(Command) : IsSet(Command[j])
         /\ \A v : Ends(Command, v, Word)
         /\ cmd = "TUX_INIT" => UserModeIn(Command)
<1>1. Off \in Words
  BY DEF Off, Words
<1>2. Word \in Words
  <2>1. \A l \in Leds : LedByte(arg, l) \in 0 .. 255
    BY LedByteType DEF TypeOK
  <2>. QED
    BY <1>1, <2>1 DEF Word, Words
<1>3. CASE cmd = "TUX_INIT"
  <2>1. Command = Initial(Off) /\ Word = Off
    BY <1>3 DEF Command, Initial, Word
  <2>2. /\ Initial(Off) \in Seq(ByteSet) /\ Len(Initial(Off)) = 4
        /\ Initial(Off)[2] = Byte("MTCP_LED_USR") /\ Initial(Off)[3] = Byte("MTCP_LED_SET")
    BY <1>1, InitialBytes
  <2>3. Chunk(Initial(Off)) /\ \A v : Ends(Initial(Off), v, Off)
    BY <1>1, Chunks
  <2>4. Initial(Off)[2].byte = "MTCP_LED_USR" /\ IsSet(Initial(Off)[3])
    BY <2>2 DEF Byte, IsSet
  <2>5. UserModeIn(Initial(Off)) /\ \E j \in 1 .. Len(Initial(Off)) : IsSet(Initial(Off)[j])
    <3>1. 2 \in 1 .. Len(Initial(Off)) /\ 3 \in 1 .. Len(Initial(Off))
      BY <2>2
    <3>. QED
      BY <2>4, <3>1 DEF UserModeIn
  <2>6. Initial(Off) # <<>>
    <3>1. Len(Initial(Off)) # Len(<<>>)
      BY <2>2
    <3>. QED
      BY <3>1, Zenon
  <2>. QED
    BY <1>2, <2>1, <2>2, <2>3, <2>5, <2>6
<1>4. CASE cmd = "TUX_SET_LED"
  <2>1. Command = SetLeds(Word)
    BY <1>4 DEF Command, Word
  <2>2. /\ SetLeds(Word) \in Seq(ByteSet) /\ Len(SetLeds(Word)) = 2
        /\ SetLeds(Word)[1] = Byte("MTCP_LED_SET")
    BY <1>2, SetLedsBytes
  <2>3. Chunk(SetLeds(Word)) /\ \A v : Ends(SetLeds(Word), v, Word)
    BY <1>2, Chunks
  <2>4. \E j \in 1 .. Len(SetLeds(Word)) : IsSet(SetLeds(Word)[j])
    BY <2>2 DEF Byte, IsSet
  <2>5. SetLeds(Word) # <<>>
    <3>1. Len(SetLeds(Word)) # Len(<<>>)
      BY <2>2
    <3>. QED
      BY <3>1, Zenon
  <2>. QED
    BY <1>2, <1>4, <2>1, <2>2, <2>3, <2>4, <2>5
<1>. QED
  BY <1>3, <1>4

LEMMA CtlFacts ==
  ASSUME CtlInv
  PROVE  /\ out \in Seq(ByteSet) /\ Len(out) \in Nat
         /\ tx_buf \in Seq(ByteSet) /\ Len(tx_buf) \in 0 .. 4
         /\ Going \in Seq(ByteSet) /\ Len(Going) \in 0 .. 4
         /\ packets \in Seq(PacketSet) /\ Len(packets) \in Nat /\ Pending(packets) \in Nat
         /\ resets \in 0 .. MAX_RESETS /\ Handled \in 0 .. MAX_RESETS
         /\ MAX_UNDERWAY \in Nat /\ MAX_RESETS \in Nat /\ DRIVER_ROOM \in Nat
         /\ TUXCTL_BUFSIZE \in Nat /\ TUXCTL_BUFSIZE > 6
         /\ DRIVER_ROOM >= MAX_UNDERWAY + 4 * (MAX_RESETS + 1)
<1>1. /\ out \in Seq(ByteSet) /\ tx_buf \in Seq(ByteSet) /\ packets \in Seq(PacketSet)
      /\ resets \in 0 .. MAX_RESETS
  BY DEF CtlInv, TypeOK
<1>2. Len(out) \in Nat /\ Len(packets) \in Nat /\ Pending(packets) \in Nat
  BY <1>1, LenProperties, PendingType
<1>3. <<>> \in Seq(ByteSet) /\ Len(<<>>) = 0
  BY EmptySeq
<1>4. \/ tx_buf = <<>>
      \/ tx_buf = Command /\ cmd \in {"TUX_INIT", "TUX_SET_LED"}
  BY DEF CtlInv, Places, Sending
<1>5. \/ Going = <<>>
      \/ Going = Command /\ cmd \in {"TUX_INIT", "TUX_SET_LED"}
  <2>1. pc # "write" => Going = <<>>
    BY DEF Going
  <2>. QED
    BY <2>1 DEF CtlInv, Places, Sending
<1>6. TypeOK
  BY DEF CtlInv
<1>7. Len(tx_buf) \in 0 .. 4
  BY <1>3, <1>4, <1>6, CommandFacts
<1>8. Going \in Seq(ByteSet) /\ Len(Going) \in 0 .. 4
  <2>1. CASE Going = <<>>
    BY <1>3, <2>1
  <2>2. CASE Going = Command /\ cmd \in {"TUX_INIT", "TUX_SET_LED"}
    <3>1. Command \in Seq(ByteSet) /\ Len(Command) \in 2 .. 4
      BY <1>6, <2>2, CommandFacts
    <3>. QED
      BY <2>2, <3>1
  <2>. QED
    BY <1>5, <2>1, <2>2
<1>. QED
  BY <1>1, <1>2, <1>7, <1>8, SizeAssumption, BufferAssumption, RoomAssumption DEF CtlInv, RoomLeft

LEMMA Sizes ==
  /\ N_LEDS \in 1 .. 4 /\ 0 \in 0 .. N_LEDS /\ N_LEDS \in 0 .. N_LEDS
  /\ DRIVER_ROOM \in Nat /\ 0 \in 0 .. DRIVER_ROOM /\ 0 <= DRIVER_ROOM
  /\ MAX_RESETS \in Nat /\ 0 \in 0 .. MAX_RESETS /\ MAX_UNDERWAY \in Nat
  /\ MAX_DROPS \in Nat /\ 0 \in 0 .. MAX_DROPS
  /\ TUXCTL_BUFSIZE \in Nat /\ 0 < TUXCTL_BUFSIZE
<1>1. N_LEDS \in 1 .. 4
  BY SizeAssumption
<1>2. DRIVER_ROOM \in Nat /\ MAX_RESETS \in Nat /\ MAX_UNDERWAY \in Nat /\ MAX_DROPS \in Nat
  BY SizeAssumption
<1>3. TUXCTL_BUFSIZE \in Nat /\ 0 < TUXCTL_BUFSIZE
  BY BufferAssumption
<1>4. 0 \in 0 .. N_LEDS /\ N_LEDS \in 0 .. N_LEDS
  BY <1>1
<1>5. 0 \in 0 .. DRIVER_ROOM /\ 0 <= DRIVER_ROOM /\ 0 \in 0 .. MAX_RESETS /\ 0 \in 0 .. MAX_DROPS
  BY <1>2
<1>. QED
  BY <1>1, <1>2, <1>3, <1>4, <1>5

LEMMA CtlInit == Init => CtlInv
<1>. SUFFICES ASSUME Init PROVE CtlInv
  OBVIOUS
<1>1. Off \in Words /\ <<>> \in Seq(ByteSet) /\ <<>> \in Seq(PacketSet) /\ Len(<<>>) = 0
  BY EmptySeq DEF Off, Words
<1>2. TypeOK
  <2>1. /\ is_busy \in BOOLEAN /\ LED_status \in Words /\ button_status \in 0 .. 255
        /\ leds \in Words /\ mode \in {"clock", "user"} /\ bioc \in BOOLEAN
        /\ pressed \subseteq Buttons /\ missed \in BOOLEAN /\ unseen \in BOOLEAN
    <3>1. /\ is_busy = FALSE /\ LED_status = Off /\ button_status = 0 /\ leds = Off
          /\ mode = "clock" /\ bioc = FALSE /\ pressed = {} /\ missed = TRUE /\ unseen = TRUE
      BY DEF Init
    <3>2. button_status \in 0 .. 255 /\ mode \in {"clock", "user"} /\ pressed \subseteq Buttons
      BY <3>1
    <3>3. is_busy \in BOOLEAN /\ bioc \in BOOLEAN /\ missed \in BOOLEAN /\ unseen \in BOOLEAN
      BY <3>1, Zenon
    <3>4. LED_status \in Words /\ leds \in Words
      BY <1>1, <3>1, Zenon
    <3>. QED
      BY <3>2, <3>3, <3>4, Zenon
  <2>2. /\ tx_buf \in Seq(ByteSet) /\ Len(tx_buf) < TUXCTL_BUFSIZE
        /\ buf \in Seq(ByteSet) /\ out \in Seq(ByteSet) /\ Len(out) <= DRIVER_ROOM
        /\ packets \in Seq(PacketSet)
    <3>1. tx_buf = <<>> /\ buf = <<>> /\ out = <<>> /\ packets = <<>>
      BY DEF Init
    <3>. QED
      BY <1>1, <3>1, Sizes
  <2>3. /\ pc \in {"opened", "idle", "convert", "point", "put", "room", "take", "write", "clear"}
        /\ cmd \in {"none", "TUX_INIT", "TUX_SET_LED"} /\ arg \in Nat
        /\ led \in 0 .. N_LEDS /\ room \in 0 .. DRIVER_ROOM /\ resets \in 0 .. MAX_RESETS
        /\ drops \in 0 .. MAX_DROPS /\ dropped \subseteq PacketTypes
    BY Sizes DEF Init
  <2>. QED
    BY <2>1, <2>2, <2>3 DEF TypeOK
<1>3. Pending(<<>>) = 0
  <2>1. ResetsIn(<<>>) = {}
    BY <1>1 DEF ResetsIn
  <2>. QED
    BY <2>1, FS_EmptySet DEF Pending
<1>4. RoomLeft
  <2>1. Handled = 0 /\ Load = 0
    BY <1>1, <1>3 DEF Init, Handled, Load, Going
  <2>2. pc # "take"
    BY DEF Init
  <2>. QED
    BY <2>1, <2>2, Sizes DEF RoomLeft
<1>5. Places /\ Converted /\ ModeComes /\ LedsCome /\ EventsTell /\ AnswerComes
  BY DEF Init, Places, Converted, ModeComes, LedsCome, EventsTell, AnswerComes, Sending, Going
<1>6. Joined(out)
  BY <1>1 DEF Init, Joined
<1>. QED
  BY <1>2, <1>4, <1>5, <1>6 DEF CtlInv

-----------------------------------------------------------------------------
(* The ioctls. *)

LEMMA TuxInitInv == ASSUME CtlInv, TuxInit PROVE CtlInv'
<1>1. /\ pc \in {"opened", "idle"} /\ Len(out) + Len(packets) <= MAX_UNDERWAY
      /\ cmd' = "TUX_INIT" /\ is_busy' = TRUE /\ pc' = "put"
      /\ UNCHANGED <<LED_status, button_status, tx_buf, arg, led, room, buf, out, packets, leds,
                     mode, bioc, pressed, resets, unseen, missed, drops, dropped>>
  BY DEF TuxInit, CanBegin, GoTo, controller, loss
<1>2. tx_buf = <<>> /\ Len(<<>>) = 0
  BY <1>1 DEF CtlInv, Places
<1>3. TypeOK'
  BY <1>1 DEF CtlInv, TypeOK
<1>4. Places'
  BY <1>1, <1>2 DEF Places, Sending, Going
<1>5. RoomLeft'
  <2>1. Handled' = Handled /\ Load' = Len(out) + 4
    BY <1>1, <1>2, CtlFacts DEF Handled, Load, Going
  <2>2. Len(out) <= MAX_UNDERWAY /\ Handled \in 0 .. MAX_RESETS /\ MAX_UNDERWAY \in Nat
    BY <1>1, CtlFacts
  <2>. QED
    BY <1>1, <2>1, <2>2 DEF RoomLeft
<1>6. Converted'
  BY <1>1 DEF Converted
<1>7. ModeComes' /\ LedsCome' /\ AnswerComes'
  BY <1>1 DEF ModeComes, LedsCome, AnswerComes, Unsent
<1>8. Joined(out)' /\ EventsTell'
  BY <1>1 DEF CtlInv, EventsTell
<1>. QED
  BY <1>3, <1>4, <1>5, <1>6, <1>7, <1>8 DEF CtlInv

LEMMA TuxSetLedInv == ASSUME CtlInv, TuxSetLed PROVE CtlInv'
<1>1. /\ pc = "idle" /\ Len(out) + Len(packets) <= MAX_UNDERWAY
      /\ cmd' = "TUX_SET_LED" /\ pc' = "convert" /\ led' = 0
      /\ UNCHANGED <<is_busy, LED_status, button_status, tx_buf, room, buf, out, packets, leds,
                     mode, bioc, pressed, resets, unseen, missed, drops, dropped>>
  BY DEF TuxSetLed, CanBegin, GoTo, controller, driver, loss
<1>2. arg' \in Nat
  BY DisplayTimeType DEF TuxSetLed
<1>3. tx_buf = <<>> /\ Len(<<>>) = 0 /\ cmd = "none"
  BY <1>1 DEF CtlInv, Places
<1>4. TypeOK'
  BY <1>1, <1>2, Sizes DEF CtlInv, TypeOK
<1>5. Places'
  BY <1>1, <1>3 DEF Places, Sending, Going
<1>6. RoomLeft'
  <2>1. Handled' = Handled /\ Load' = Len(out) + 4
    BY <1>1, <1>3, CtlFacts DEF Handled, Load, Going
  <2>2. Len(out) <= MAX_UNDERWAY /\ Handled \in 0 .. MAX_RESETS /\ MAX_UNDERWAY \in Nat
    BY <1>1, CtlFacts
  <2>. QED
    BY <1>1, <2>1, <2>2 DEF RoomLeft
<1>7. Converted'
  BY <1>1 DEF Converted, Sending
<1>8. ModeComes' /\ LedsCome'
  BY <1>1, <1>3 DEF CtlInv, ModeComes, LedsCome, ResetUnanswered
<1>9. Joined(out)' /\ EventsTell'
  BY <1>1 DEF CtlInv, EventsTell
<1>10. AnswerComes'
  BY <1>1, <1>3 DEF CtlInv, AnswerComes, AnswerLost, Unsent, Going
<1>. QED
  BY <1>4, <1>5, <1>6, <1>7, <1>8, <1>9, <1>10 DEF CtlInv

LEMMA ConvertLedInv == ASSUME CtlInv, ConvertLed PROVE CtlInv'
<1>1. /\ pc = "convert" /\ led < N_LEDS
      /\ LED_status' = [LED_status EXCEPT ![led] = Digit(arg, led)]
      /\ pc' = "point"
      /\ UNCHANGED <<is_busy, button_status, tx_buf, cmd, arg, led, room, buf, out, packets, leds,
                     mode, bioc, pressed, resets, unseen, missed, drops, dropped>>
  <2>1. led \in 0 .. N_LEDS /\ N_LEDS \in Nat
    BY Sizes DEF CtlInv, TypeOK
  <2>. QED
    BY <2>1 DEF ConvertLed, ConvertEnds, GoTo, controller, loss
<1>2. cmd = "TUX_SET_LED" /\ tx_buf = <<>>
  BY <1>1 DEF CtlInv, Places
<1>3. led \in Leds /\ LED_status \in Words /\ Digit(arg, led) \in 0 .. 255
  <2>1. led \in 0 .. N_LEDS /\ N_LEDS \in Nat /\ LED_status \in Words /\ arg \in Nat
    BY Sizes DEF CtlInv, TypeOK
  <2>2. led \in Leds
    BY <1>1, <2>1 DEF Leds
  <2>3. Digit(arg, led) \in 0 .. 239
    BY <2>1, <2>2, LedByteType
  <2>. QED
    BY <2>1, <2>2, <2>3
<1>4. LED_status' \in Words
  BY <1>1, <1>3 DEF Words
<1>5. TypeOK'
  BY <1>1, <1>4 DEF CtlInv, TypeOK
<1>6. Places' /\ RoomLeft'
  BY <1>1, <1>2 DEF CtlInv, Places, RoomLeft, Handled, Load, Sending, Going, Command
<1>7. Converted'
  <2>1. ASSUME NEW l \in 0 .. led - 1 PROVE LED_status'[l] = LedByte(arg, l)
    <3>1. l \in Leds /\ l # led
      <4>1. led \in 0 .. N_LEDS - 1 /\ N_LEDS \in Nat
        BY <1>3, Sizes DEF Leds
      <4>. QED
        BY <4>1 DEF Leds
    <3>2. LED_status[l] = LedByte(arg, l)
      BY <1>1 DEF CtlInv, Converted
    <3>. QED
      BY <1>1, <1>3, <3>1, <3>2 DEF Words
  <2>2. LED_status'[led] = Digit(arg, led)
    BY <1>1, <1>3 DEF Words
  <2>. QED
    BY <1>1, <1>3, <2>1, <2>2 DEF Converted, Sending
<1>8. ModeComes' /\ LedsCome' /\ AnswerComes'
  BY <1>1, <1>2 DEF CtlInv, ModeComes, LedsCome, ResetUnanswered, AnswerComes, AnswerLost, Unsent,
                    Going
<1>9. Joined(out)' /\ EventsTell'
  BY <1>1 DEF CtlInv, EventsTell
<1>. QED
  BY <1>5, <1>6, <1>7, <1>8, <1>9 DEF CtlInv

LEMMA AddPointInv == ASSUME CtlInv, AddPoint PROVE CtlInv'
<1>1. /\ pc = "point" /\ pc' = "convert" /\ led' = led + 1
      /\ LED_status' = [LED_status EXCEPT ![led] = LED_status[led] + Point(arg, led)]
      /\ UNCHANGED <<is_busy, button_status, tx_buf, cmd, arg, room, buf, out, packets, leds,
                     mode, bioc, pressed, resets, unseen, missed, drops, dropped>>
  BY DEF AddPoint, GoTo, controller, loss
<1>2. cmd = "TUX_SET_LED" /\ tx_buf = <<>>
  BY <1>1 DEF CtlInv, Places
<1>3. /\ led \in Leds /\ LED_status \in Words /\ led + 1 \in 0 .. N_LEDS
      /\ LED_status[led] + Point(arg, led) = LedByte(arg, led) /\ LedByte(arg, led) \in 0 .. 255
  <2>1. led \in Leds /\ LED_status[led] = Digit(arg, led) /\ LED_status \in Words /\ arg \in Nat
    BY <1>1 DEF CtlInv, Converted, TypeOK
  <2>2. led + 1 \in 0 .. N_LEDS
    BY <2>1, Sizes DEF Leds
  <2>. QED
    BY <2>1, <2>2, LedByteType
<1>4. LED_status' \in Words /\ LED_status'[led] = LedByte(arg, led)
  BY <1>1, <1>3 DEF Words
<1>5. TypeOK'
  BY <1>1, <1>3, <1>4 DEF CtlInv, TypeOK
<1>6. Places' /\ RoomLeft'
  BY <1>1, <1>2 DEF CtlInv, Places, RoomLeft, Handled, Load, Sending, Going, Command
<1>7. Converted'
  <2>1. ASSUME NEW l \in 0 .. (led + 1) - 1 PROVE LED_status'[l] = LedByte(arg, l)
    <3>1. l \in Leds /\ (l = led \/ l \in 0 .. led - 1)
      <4>1. led \in 0 .. N_LEDS - 1 /\ N_LEDS \in Nat
        BY <1>3, Sizes DEF Leds
      <4>. QED
        BY <4>1 DEF Leds
    <3>2. \A k \in 0 .. led - 1 : LED_status[k] = LedByte(arg, k)
      BY <1>1 DEF CtlInv, Converted
    <3>3. l # led => LED_status'[l] = LED_status[l]
      BY <1>1, <1>3, <3>1 DEF Words
    <3>. QED
      BY <1>4, <3>1, <3>2, <3>3
  <2>. QED
    BY <1>1, <2>1 DEF Converted, Sending
<1>8. ModeComes' /\ LedsCome' /\ AnswerComes'
  BY <1>1, <1>2 DEF CtlInv, ModeComes, LedsCome, ResetUnanswered, AnswerComes, AnswerLost, Unsent,
                    Going
<1>9. Joined(out)' /\ EventsTell'
  BY <1>1 DEF CtlInv, EventsTell
<1>. QED
  BY <1>5, <1>6, <1>7, <1>8, <1>9 DEF CtlInv

LEMMA TestBusyInv == ASSUME CtlInv, TestBusy PROVE CtlInv'
<1>1. /\ pc = "convert" /\ led = N_LEDS /\ is_busy' = TRUE
      /\ UNCHANGED <<LED_status, button_status, tx_buf, out, packets, leds, mode, bioc, pressed,
                     resets, unseen, drops, dropped>>
  <2>1. led \in 0 .. N_LEDS /\ N_LEDS \in Nat
    BY Sizes DEF CtlInv, TypeOK
  <2>. QED
    BY <2>1 DEF TestBusy, ConvertEnds, controller, loss
<1>2. cmd = "TUX_SET_LED" /\ tx_buf = <<>> /\ <<>> \in Seq(ByteSet) /\ Len(<<>>) = 0
  BY <1>1, EmptySeq DEF CtlInv, Places
<1>3. Joined(out)' /\ EventsTell'
  BY <1>1 DEF CtlInv, EventsTell
<1>4. CASE is_busy
  <2>1. /\ pc' = "idle" /\ cmd' = "none" /\ arg' = 0 /\ led' = 0 /\ room' = 0 /\ buf' = <<>>
        /\ missed' = TRUE
    BY <1>4 DEF TestBusy, Return
  <2>2. TypeOK'
    BY <1>1, <1>2, <2>1, Sizes DEF CtlInv, TypeOK
  <2>3. Places' /\ Converted'
    BY <1>1, <1>2, <2>1 DEF Places, Sending, Going, Converted
  <2>4. RoomLeft'
    <3>1. Handled' = Handled /\ Load' = Len(out) /\ Load = Len(out) + 4
      BY <1>1, <1>2, <2>1, CtlFacts DEF Handled, Load, Going
    <3>2. Len(out) + 4 <= MAX_UNDERWAY + 4 + 4 * Handled
      BY <3>1 DEF CtlInv, RoomLeft
    <3>3. Len(out) \in Nat /\ Handled \in 0 .. MAX_RESETS /\ MAX_UNDERWAY \in Nat
      BY CtlFacts
    <3>. QED
      BY <2>1, <3>1, <3>2, <3>3 DEF RoomLeft
  <2>5. ModeComes' /\ LedsCome' /\ AnswerComes'
    BY <1>1, <1>2, <1>4, <2>1 DEF CtlInv, ModeComes, LedsCome, ResetUnanswered, AnswerComes,
                                  AnswerLost, Unsent, Going
  <2>. QED
    BY <1>3, <2>2, <2>3, <2>4, <2>5 DEF CtlInv
<1>5. CASE ~is_busy
  <2>1. pc' = "put" /\ UNCHANGED <<cmd, arg, led, room, buf, missed>>
    BY <1>5 DEF TestBusy, GoTo
  <2>2. TypeOK'
    BY <1>1, <2>1 DEF CtlInv, TypeOK
  <2>3. Places' /\ RoomLeft'
    BY <1>1, <1>2, <2>1 DEF CtlInv, Places, RoomLeft, Handled, Load, Sending, Going
  <2>4. Converted'
    <3>1. LED_status \in [Leds -> 0 .. 255]
      BY DEF CtlInv, TypeOK, Words
    <3>2. \A l \in Leds : LED_status[l] = LedByte(arg, l)
      BY <1>1 DEF CtlInv, Converted, Leds
    <3>3. LED_status = [l \in Leds |-> LedByte(arg, l)]
      BY <3>1, <3>2
    <3>. QED
      BY <1>1, <1>2, <2>1, <3>3 DEF Converted, Word
  <2>5. ModeComes' /\ LedsCome' /\ AnswerComes'
    BY <1>1, <1>2, <2>1 DEF CtlInv, ModeComes, LedsCome, ResetUnanswered, AnswerComes, Unsent
  <2>. QED
    BY <1>3, <2>2, <2>3, <2>4, <2>5 DEF CtlInv
<1>. QED
  BY <1>4, <1>5

LEMMA PutCommandInv == ASSUME CtlInv, PutCommand PROVE CtlInv'
<1>1. /\ pc = "put" /\ tx_buf' = Put(tx_buf, Command) /\ missed' = FALSE /\ pc' = "room"
      /\ dropped' = IF cmd = "TUX_INIT" THEN {} ELSE dropped
      /\ UNCHANGED <<is_busy, LED_status, button_status, cmd, arg, led, room, buf, out, packets,
                     leds, mode, bioc, pressed, resets, unseen, drops>>
  BY DEF PutCommand, GoTo, driver, controller
<1>2. tx_buf = <<>> /\ cmd \in {"TUX_INIT", "TUX_SET_LED"} /\ Going = <<>> /\ Going' = <<>>
  BY <1>1 DEF CtlInv, Places, Sending, Going
<1>3. <<>> \in Seq(ByteSet) /\ Len(<<>>) = 0
  BY EmptySeq
<1>4. Command \in Seq(ByteSet) /\ Len(Command) \in 2 .. 4 /\ Command # <<>>
  <2>1. TypeOK
    BY DEF CtlInv
  <2>. QED
    BY <1>2, <2>1, CommandFacts
<1>5. Command' = Command /\ Word' = Word
  BY <1>1 DEF Command, Word
<1>. DEFINE n == Len(Command)
<1>0. n \in Nat /\ 0 < n /\ n <= 4 /\ n < TUXCTL_BUFSIZE
  <2>1. n \in 2 .. 4
    BY <1>4
  <2>2. TUXCTL_BUFSIZE \in Nat /\ TUXCTL_BUFSIZE > 6
    BY BufferAssumption, RoomAssumption
  <2>. HIDE DEF n
  <2>. QED
    BY <2>1, <2>2
<1>6. tx_buf' = Command
  <2>1. Len(<<>>) + n < TUXCTL_BUFSIZE
    <3>. HIDE DEF n
    <3>. QED
      BY <1>3, <1>0
  <2>2. Put(<<>>, Command) = <<>> \o Command
    BY <1>3, <1>4, <2>1, AllPut
  <2>3. <<>> \o Command = Command
    BY <1>4, ConcatEmptySeq
  <2>. QED
    BY <1>1, <1>2, <2>2, <2>3
<1>7. TypeOK'
  <2>1. tx_buf' \in Seq(ByteSet) /\ Len(tx_buf') < TUXCTL_BUFSIZE
    <3>1. Command \in Seq(ByteSet) /\ Len(Command) < TUXCTL_BUFSIZE
      BY <1>4, <1>0
    <3>. QED
      BY <1>6, <3>1, Zenon
  <2>. QED
    <3>1. dropped' \subseteq PacketTypes
      BY <1>1 DEF CtlInv, TypeOK
    <3>. QED
      BY <1>1, <2>1, <3>1 DEF CtlInv, TypeOK
<1>8. Places'
  BY <1>1, <1>2, <1>5, <1>6 DEF Places, Sending
<1>9. RoomLeft'
  <2>1. /\ Handled' = Handled /\ Load' = Len(out) + n + Len(<<>>) + 0
        /\ Load = Len(out) + Len(<<>>) + Len(<<>>) + 4
    BY <1>1, <1>2, <1>6 DEF Handled, Load
  <2>2. /\ Len(out) \in Nat /\ MAX_UNDERWAY \in Nat /\ Handled \in 0 .. MAX_RESETS
        /\ Load <= MAX_UNDERWAY + 4 + 4 * Handled
    BY CtlFacts DEF CtlInv, RoomLeft
  <2>. HIDE DEF n
  <2>3. Load' <= Load
    BY <1>3, <1>0, <2>1, <2>2
  <2>4. Load \in Nat /\ Load' \in Nat
    BY <1>3, <1>0, <2>1, <2>2
  <2>5. Load' <= MAX_UNDERWAY + 4 + 4 * Handled'
    BY <2>1, <2>2, <2>3, <2>4
  <2>6. Handled' \in 0 .. MAX_RESETS /\ pc' # "take"
    BY <1>1, <2>1, <2>2
  <2>. QED
    BY <2>5, <2>6 DEF RoomLeft
<1>10. Converted'
  BY <1>1, <1>5 DEF CtlInv, Converted, Sending
<1>11. ModeComes' /\ LedsCome' /\ AnswerComes'
  <2>1. Unsent'
    BY <1>4, <1>6 DEF Unsent
  <2>2. cmd = "TUX_INIT" \/ dropped' = dropped
    BY <1>1
  <2>. QED
    BY <1>1, <2>1, <2>2 DEF CtlInv, ModeComes, LedsCome, ResetUnanswered, AnswerComes
<1>12. Joined(out)' /\ EventsTell'
  BY <1>1 DEF CtlInv, EventsTell
<1>. QED
  BY <1>7, <1>8, <1>9, <1>10, <1>11, <1>12 DEF CtlInv

LEMMA AskRoomInv == ASSUME CtlInv, AskRoom PROVE CtlInv'
<1>1. /\ pc = "room" /\ room' = WriteRoom(out) /\ pc' = "take"
      /\ UNCHANGED <<is_busy, LED_status, button_status, tx_buf, cmd, arg, led, buf, out, packets,
                     leds, mode, bioc, pressed, resets, unseen, missed, drops, dropped>>
  BY DEF AskRoom, GoTo, driver, controller, loss
<1>2. Going = <<>> /\ Going' = <<>> /\ Command' = Command /\ Word' = Word
  BY <1>1 DEF Going, Command, Word
<1>3. Len(out) <= DRIVER_ROOM
  BY DEF CtlInv, TypeOK
<1>4. room' \in 0 .. DRIVER_ROOM /\ Len(tx_buf) <= room'
  <2>1. Len(<<>>) = 0
    BY EmptySeq
  <2>2. Load = Len(out) + Len(tx_buf) + Len(<<>>) + 0
    BY <1>1, <1>2 DEF Load
  <2>3. Load <= MAX_UNDERWAY + 4 + 4 * Handled
    BY DEF CtlInv, RoomLeft
  <2>4. /\ Len(out) \in Nat /\ Len(tx_buf) \in 0 .. 4 /\ Handled \in 0 .. MAX_RESETS
        /\ MAX_UNDERWAY \in Nat /\ MAX_RESETS \in Nat /\ DRIVER_ROOM \in Nat
        /\ DRIVER_ROOM >= MAX_UNDERWAY + 4 * (MAX_RESETS + 1)
    BY CtlFacts
  <2>5. Len(out) + Len(tx_buf) <= DRIVER_ROOM
    BY <2>1, <2>2, <2>3, <2>4
  <2>. QED
    BY <1>1, <1>3, <2>4, <2>5 DEF WriteRoom
<1>5. TypeOK'
  BY <1>1, <1>4 DEF CtlInv, TypeOK
<1>6. Places'
  BY <1>1, <1>2 DEF CtlInv, Places, Sending
<1>7. RoomLeft'
  BY <1>1, <1>2, <1>4 DEF CtlInv, RoomLeft, Handled, Load
<1>8. Converted'
  BY <1>1, <1>2 DEF CtlInv, Converted, Sending
<1>9. ModeComes' /\ LedsCome' /\ AnswerComes'
  BY <1>1, <1>2 DEF CtlInv, ModeComes, LedsCome, ResetUnanswered, AnswerComes, AnswerLost, Unsent
<1>10. Joined(out)' /\ EventsTell'
  BY <1>1 DEF CtlInv, EventsTell
<1>. QED
  BY <1>5, <1>6, <1>7, <1>8, <1>9, <1>10 DEF CtlInv

LEMMA TakeBytesInv == ASSUME CtlInv, TakeBytes PROVE CtlInv'
<1>1. /\ pc = "take" /\ pc' = "write"
      /\ buf' = SubSeq(tx_buf, 1, Taken(tx_buf, room))
      /\ tx_buf' = SubSeq(tx_buf, Taken(tx_buf, room) + 1, Len(tx_buf))
      /\ UNCHANGED <<is_busy, LED_status, button_status, cmd, arg, led, room, out, packets,
                     leds, mode, bioc, pressed, resets, unseen, missed, drops, dropped>>
  BY DEF TakeBytes, GoTo, driver, controller, loss
<1>2. buf' = tx_buf /\ tx_buf' = <<>>
  <2>1. tx_buf \in Seq(ByteSet) /\ room \in Nat /\ Len(tx_buf) <= room
    <3>1. room \in 0 .. DRIVER_ROOM /\ tx_buf \in Seq(ByteSet)
      BY DEF CtlInv, TypeOK
    <3>2. Len(tx_buf) <= room
      BY <1>1 DEF CtlInv, RoomLeft
    <3>. QED
      BY <3>1, <3>2
  <2>. QED
    BY <1>1, <2>1, AllTaken
<1>3. Going = <<>> /\ Going' = tx_buf /\ Command' = Command /\ Word' = Word
  BY <1>1, <1>2 DEF Going, Command, Word
<1>4. <<>> \in Seq(ByteSet) /\ Len(<<>>) = 0
  BY EmptySeq
<1>5. TypeOK'
  <2>1. buf' \in Seq(ByteSet) /\ tx_buf' \in Seq(ByteSet) /\ Len(tx_buf') < TUXCTL_BUFSIZE
    BY <1>2, <1>4, CtlFacts
  <2>. QED
    BY <1>1, <2>1 DEF CtlInv, TypeOK
<1>6. Places'
  BY <1>1, <1>2, <1>3 DEF CtlInv, Places, Sending
<1>7. RoomLeft'
  <2>1. /\ Handled' = Handled /\ Load' = Len(out) + Len(<<>>) + Len(tx_buf) + 0
        /\ Load = Len(out) + Len(tx_buf) + Len(<<>>) + 0
    BY <1>1, <1>2, <1>3 DEF Handled, Load
  <2>2. Len(out) \in Nat /\ Len(tx_buf) \in 0 .. 4
    BY CtlFacts
  <2>3. Load' = Load
    BY <1>4, <2>1, <2>2
  <2>. QED
    BY <1>1, <2>1, <2>3 DEF CtlInv, RoomLeft
<1>8. Converted'
  BY <1>1, <1>3 DEF CtlInv, Converted, Sending
<1>9. ModeComes' /\ LedsCome' /\ AnswerComes'
  BY <1>1, <1>2, <1>3 DEF CtlInv, ModeComes, LedsCome, ResetUnanswered, AnswerComes, AnswerLost,
                          Unsent
<1>10. Joined(out)' /\ EventsTell'
  BY <1>1 DEF CtlInv, EventsTell
<1>. QED
  BY <1>5, <1>6, <1>7, <1>8, <1>9, <1>10 DEF CtlInv

\* Bytes that are appended to out: a command of the running ioctl, or nothing.
LEMMA CommandAppended ==
  ASSUME CtlInv, cmd \in {"TUX_INIT", "TUX_SET_LED"}
  PROVE  /\ out \o Command \in Seq(ByteSet) /\ Len(out \o Command) = Len(out) + Len(Command)
         /\ Joined(out \o Command)
         /\ \A w : Ends(out \o Command, w, Word)
         /\ cmd = "TUX_INIT" \/ UserModeIn(out) => UserModeIn(out \o Command)
         /\ Commanding(out \o Command)
<1>1. /\ out \in Seq(ByteSet) /\ Joined(out) /\ TypeOK
  BY CtlFacts DEF CtlInv
<1>2. /\ Command \in Seq(ByteSet) /\ Chunk(Command)
      /\ \E j \in 1 .. Len(Command) : IsSet(Command[j])
      /\ \A v : Ends(Command, v, Word)
      /\ cmd = "TUX_INIT" => UserModeIn(Command)
  BY <1>1, CommandFacts
<1>3. /\ Len(out) \in Nat /\ Len(Command) \in Nat
      /\ out \o Command \in Seq(ByteSet) /\ Len(out \o Command) = Len(out) + Len(Command)
      /\ \A j \in 1 .. Len(out) : (out \o Command)[j] = out[j]
      /\ \A j \in 1 .. Len(Command) : (out \o Command)[Len(out) + j] = Command[j]
  BY <1>1, <1>2, Parts
<1>4. Joined(out \o Command)
  BY <1>1, <1>2, ChunkJoins
<1>5. ASSUME NEW w PROVE Ends(out \o Command, w, Word)
  BY <1>1, <1>2, LastDecides
<1>6. UserModeIn(out) => UserModeIn(out \o Command)
  <2>1. \A j \in 1 .. Len(out) : j \in 1 .. Len(out \o Command)
    BY <1>3
  <2>. QED
    BY <1>3, <2>1 DEF UserModeIn
<1>7. UserModeIn(Command) => UserModeIn(out \o Command)
  <2>1. \A j \in 1 .. Len(Command) : Len(out) + j \in 1 .. Len(out \o Command)
    BY <1>3
  <2>. QED
    BY <1>3, <2>1 DEF UserModeIn
<1>8. Commanding(out \o Command)
  <2>1. PICK j \in 1 .. Len(Command) : IsSet(Command[j])
    BY <1>2
  <2>2. Len(out) + j \in 1 .. Len(out \o Command) /\ IsSet((out \o Command)[Len(out) + j])
    BY <1>3, <2>1
  <2>. QED
    BY <2>2 DEF Commanding, IsSet
<1>. QED
  BY <1>2, <1>3, <1>4, <1>5, <1>6, <1>7, <1>8

LEMMA WriteBytesInv == ASSUME CtlInv, WriteBytes PROVE CtlInv'
<1>1. /\ pc = "write" /\ out' = Written(out, buf)
      /\ UNCHANGED <<is_busy, LED_status, button_status, tx_buf, packets, leds, mode, bioc,
                     pressed, resets, unseen, missed, drops, dropped>>
  BY DEF WriteBytes, driver, controller, loss
<1>2. \/ /\ cmd = "TUX_INIT" /\ pc' = "clear" /\ UNCHANGED <<cmd, arg, led, room, buf>>
      \/ /\ cmd = "TUX_SET_LED" /\ pc' = "idle" /\ cmd' = "none" /\ arg' = 0 /\ led' = 0
         /\ room' = 0 /\ buf' = <<>>
  <2>1. cmd \in {"TUX_INIT", "TUX_SET_LED"}
    BY <1>1 DEF CtlInv, Places, Sending
  <2>. QED
    BY <2>1 DEF WriteBytes, GoTo, Return
<1>3. tx_buf = <<>> /\ Going = buf /\ Going' = <<>> /\ (buf = <<>> \/ buf = Command)
  BY <1>1, <1>2 DEF CtlInv, Places, Going
<1>4. <<>> \in Seq(ByteSet) /\ Len(<<>>) = 0 /\ buf \in Seq(ByteSet) /\ Len(buf) \in 0 .. 4
  BY <1>3, CtlFacts, EmptySeq
<1>5. Load = Len(out) + Len(buf) /\ Load <= MAX_UNDERWAY + 4 + 4 * Handled
  <2>1. Load = Len(out) + Len(<<>>) + Len(buf) + 0
    BY <1>1, <1>3 DEF Load
  <2>2. Len(out) \in Nat
    BY CtlFacts
  <2>. QED
    BY <1>4, <2>1, <2>2 DEF CtlInv, RoomLeft
<1>6. out' = out \o buf /\ Len(out) + Len(buf) <= DRIVER_ROOM
  <2>1. /\ Len(out) \in Nat /\ Handled \in 0 .. MAX_RESETS /\ out \in Seq(ByteSet)
        /\ MAX_UNDERWAY \in Nat /\ MAX_RESETS \in Nat /\ DRIVER_ROOM \in Nat
        /\ DRIVER_ROOM >= MAX_UNDERWAY + 4 * (MAX_RESETS + 1)
    BY CtlFacts
  <2>2. Len(out) + Len(buf) <= DRIVER_ROOM
    BY <1>4, <1>5, <2>1
  <2>. QED
    BY <1>1, <1>4, <2>1, <2>2, AllWritten
<1>7. /\ out' \in Seq(ByteSet) /\ Len(out') = Len(out) + Len(buf) /\ Joined(out')
      /\ (cmd = "TUX_INIT" /\ Unsent) \/ UserModeIn(out) => UserModeIn(out')
      /\ Unsent => Ends(out', leds, Word) /\ Commanding(out')
      /\ ~Unsent => out' = out
  <2>1. CASE buf = <<>>
    <3>1. out' = out
      BY <1>6, <2>1, CtlFacts, ConcatEmptySeq
    <3>2. ~Unsent
      BY <1>1, <1>3, <2>1 DEF Unsent
    <3>. QED
      BY <1>4, <2>1, <3>1, <3>2, CtlFacts DEF CtlInv
  <2>2. CASE buf = Command /\ buf # <<>>
    <3>1. cmd \in {"TUX_INIT", "TUX_SET_LED"} /\ Unsent
      BY <1>2, <1>3, <2>2 DEF Unsent
    <3>. QED
      BY <1>6, <2>2, <3>1, CommandAppended
  <2>. QED
    BY <1>3, <2>1, <2>2
<1>8. TypeOK'
  <2>1. out' \in Seq(ByteSet) /\ Len(out') <= DRIVER_ROOM
    BY <1>6, <1>7
  <2>. QED
    <3>1. /\ pc' \in {"idle", "clear"} /\ cmd' \in {"none", "TUX_INIT"} /\ arg' \in Nat
          /\ led' \in 0 .. N_LEDS /\ room' \in 0 .. DRIVER_ROOM /\ buf' \in Seq(ByteSet)
      <4>1. arg \in Nat /\ led \in 0 .. N_LEDS /\ room \in 0 .. DRIVER_ROOM
        BY DEF CtlInv, TypeOK
      <4>. QED
        <5>1. CASE cmd = "TUX_INIT" /\ pc' = "clear" /\ UNCHANGED <<cmd, arg, led, room, buf>>
          BY <1>4, <4>1, <5>1
        <5>2. CASE pc' = "idle" /\ cmd' = "none" /\ arg' = 0 /\ led' = 0 /\ room' = 0 /\ buf' = <<>>
          BY <1>4, <5>2, Sizes
        <5>. QED
          BY <1>2, <5>1, <5>2
    <3>. QED
      BY <1>1, <2>1, <3>1 DEF CtlInv, TypeOK
<1>9. Places'
  BY <1>1, <1>2, <1>3 DEF Places, Sending
<1>10. RoomLeft'
  <2>1. Handled' = Handled /\ Load' = Len(out') + Len(<<>>) + Len(<<>>) + 0 /\ pc' # "take"
    BY <1>1, <1>2, <1>3 DEF Handled, Load
  <2>2. Len(out) \in Nat
    BY CtlFacts
  <2>3. Load' = Load
    BY <1>4, <1>5, <1>7, <2>1, <2>2
  <2>. QED
    BY <2>1, <2>3, Sizes DEF CtlInv, RoomLeft
<1>11. Converted'
  BY <1>2 DEF Converted, Sending
<1>12. ModeComes'
  BY <1>1, <1>7 DEF CtlInv, ModeComes, ResetUnanswered
<1>13. LedsCome'
  <2>1. ~missed /\ ~ResetUnanswered => Ends(out', leds, Word)
    BY <1>1, <1>7 DEF CtlInv, LedsCome
  <2>2. cmd = "TUX_SET_LED" => LED_status = Word
    BY <1>1 DEF CtlInv, Converted, Sending
  <2>3. cmd = "TUX_INIT" => Word = Off
    BY DEF Word
  <2>. QED
    BY <1>1, <1>2, <2>1, <2>2, <2>3 DEF LedsCome, ResetUnanswered
<1>14. EventsTell'
  BY <1>1 DEF CtlInv, EventsTell
<1>15. AnswerComes'
  BY <1>1, <1>7 DEF CtlInv, AnswerComes, AnswerLost
<1>. QED
  BY <1>7, <1>8, <1>9, <1>10, <1>11, <1>12, <1>13, <1>14, <1>15 DEF CtlInv

LEMMA ClearStatusInv == ASSUME CtlInv, ClearStatus PROVE CtlInv'
<1>1. /\ pc = "clear" /\ LED_status' = Off
      /\ pc' = "idle" /\ cmd' = "none" /\ arg' = 0 /\ led' = 0 /\ room' = 0 /\ buf' = <<>>
      /\ UNCHANGED <<is_busy, button_status, tx_buf, out, packets, leds, mode, bioc, pressed,
                     resets, unseen, missed, drops, dropped>>
  BY DEF ClearStatus, Return, controller, loss
<1>2. tx_buf = <<>> /\ Going = <<>> /\ Going' = <<>> /\ <<>> \in Seq(ByteSet) /\ Off \in Words
  BY <1>1, EmptySeq DEF CtlInv, Places, Going, Off, Words
<1>3. TypeOK'
  BY <1>1, <1>2, Sizes DEF CtlInv, TypeOK
<1>4. Places' /\ RoomLeft' /\ Converted'
  BY <1>1, <1>2 DEF CtlInv, Places, RoomLeft, Handled, Load, Sending, Converted
<1>5. ModeComes' /\ LedsCome' /\ AnswerComes'
  BY <1>1, <1>2 DEF CtlInv, ModeComes, LedsCome, ResetUnanswered, AnswerComes, AnswerLost, Unsent
<1>6. Joined(out)' /\ EventsTell'
  BY <1>1 DEF CtlInv, EventsTell
<1>. QED
  BY <1>3, <1>4, <1>5, <1>6 DEF CtlInv

-----------------------------------------------------------------------------
(* The interrupt handlers and the controller. *)

LEMMA PressedTells ==
  ASSUME TypeOK
  PROVE  /\ Event(pressed) \in PacketSet /\ IsEvent(Event(pressed))
         /\ \A n \in DOMAIN BitOf :
              HasBit(StatusOf(Event(pressed).b, Event(pressed).c), BitOf[n]) <=> n \notin pressed
<1>1. pressed \in SUBSET DOMAIN BitOf
  BY ButtonsAssumption DEF TypeOK
<1>. QED
  BY <1>1, StatusTells

\* An ACK or an event is taken from the packets.
LEMMA PacketTaken ==
  ASSUME CtlInv, packets # <<>>, ~Resetting(packets[1]), packets' = Tail(packets),
         button_status' = IF IsEvent(packets[1]) THEN StatusOf(packets[1].b, packets[1].c)
                                                 ELSE button_status,
         is_busy' \in BOOLEAN, is_busy' => is_busy /\ IsEvent(packets[1]),
         UNCHANGED <<LED_status, tx_buf, pc, cmd, arg, led, room, buf, out, leds, mode, bioc,
                     pressed, resets, missed, unseen, drops, dropped>>
  PROVE  CtlInv'
<1>1. packets \in Seq(PacketSet) /\ button_status \in 0 .. 255
  BY DEF CtlInv, TypeOK
<1>2. /\ Head(packets) \in PacketSet /\ Head(packets) = packets[1] /\ Tail(packets) \in Seq(PacketSet)
      /\ Pending(Tail(packets)) = Pending(packets)
      /\ Awaits(Tail(packets)) <=> Awaits(packets)
  BY <1>1, PendingTail
<1>3. button_status' \in 0 .. 255
  <2>1. packets[1].b \in 0 .. 255 /\ packets[1].c \in 0 .. 255
    BY <1>2 DEF PacketSet
  <2>2. StatusOf(packets[1].b, packets[1].c) \in 0 .. 255
    BY <2>1, StatusType
  <2>. QED
    BY <1>1, <2>2
<1>4. TypeOK'
  <2>1. TypeOK /\ packets' \in Seq(PacketSet)
    BY <1>2 DEF CtlInv
  <2>. QED
    BY <1>3, <2>1, SMTT(30) DEF TypeOK
<1>5. Going' = Going /\ Command' = Command /\ Word' = Word /\ Sending' = Sending
  BY DEF Going, Command, Word, Sending
<1>6. Places' /\ Converted'
  BY <1>5 DEF CtlInv, Places, Converted
<1>7. RoomLeft'
  BY <1>2, <1>5 DEF CtlInv, RoomLeft, Handled, Load
<1>8. ModeComes' /\ LedsCome'
  BY <1>2, <1>5 DEF CtlInv, ModeComes, LedsCome, Unsent, ResetUnanswered
<1>9. EventsTell'
  <2>1. IsEvent(Event(pressed))
    BY PressedTells DEF CtlInv
  <2>2. ASSUME Tells(packets, button_status, Event(pressed))
        PROVE  Tells(Tail(packets), button_status', Event(pressed))
    BY <1>1, <2>1, <2>2, TellsTail
  <2>. QED
    BY <2>2 DEF CtlInv, EventsTell
<1>10. Joined(out)'
  BY DEF CtlInv
<1>11. AnswerComes'
  <2>1. is_busy' /\ Answering(packets) => Answering(packets')
    BY <1>1, AnsweringTail DEF IsEvent, Freeing
  <2>. QED
    BY <1>5, <2>1 DEF CtlInv, AnswerComes, AnswerLost, Unsent
<1>. QED
  BY <1>4, <1>6, <1>7, <1>8, <1>9, <1>10, <1>11 DEF CtlInv

LEMMA HandleAckInv == ASSUME CtlInv, HandleAck PROVE CtlInv'
<1>1. /\ packets # <<>> /\ Head(packets).type = "MTCP_ACK" /\ packets' = Tail(packets)
      /\ is_busy' = FALSE
      /\ UNCHANGED <<LED_status, button_status, tx_buf, pc, cmd, arg, led, room, buf, out, leds,
                     mode, bioc, pressed, resets, missed, unseen, drops, dropped>>
  BY DEF HandleAck, AfterAck, ioctl, controller, loss
<1>2. packets \in Seq(PacketSet)
  BY DEF CtlInv, TypeOK
<1>3. Head(packets) = packets[1]
  BY <1>1, <1>2, PendingTail
<1>4. ~Resetting(packets[1]) /\ ~IsEvent(packets[1])
  BY <1>1, <1>3 DEF Resetting, IsEvent
<1>5. is_busy' \in BOOLEAN /\ ~is_busy'
  BY <1>1, Zenon
<1>. QED
  BY <1>1, <1>4, <1>5, PacketTaken

LEMMA HandleEventInv == ASSUME CtlInv, HandleEvent PROVE CtlInv'
<1>1. /\ packets # <<>> /\ Head(packets).type = "MTCP_BIOC_EVENT" /\ packets' = Tail(packets)
      /\ button_status' = StatusOf(Head(packets).b, Head(packets).c)
      /\ UNCHANGED <<is_busy, LED_status, tx_buf, pc, cmd, arg, led, room, buf, out, leds,
                     mode, bioc, pressed, resets, missed, unseen, drops, dropped>>
  BY DEF HandleEvent, ioctl, controller, loss
<1>2. packets \in Seq(PacketSet) /\ is_busy \in BOOLEAN
  BY DEF CtlInv, TypeOK
<1>3. Head(packets) = packets[1]
  BY <1>1, <1>2, PendingTail
<1>4. ~Resetting(packets[1]) /\ IsEvent(packets[1])
  BY <1>1, <1>3 DEF Resetting, IsEvent
<1>5. /\ is_busy' \in BOOLEAN /\ (is_busy' => is_busy)
      /\ button_status' = StatusOf(packets[1].b, packets[1].c)
  BY <1>1, <1>2, <1>3, Zenon
<1>. QED
  BY <1>1, <1>4, <1>5, PacketTaken

\* Three chunks in a row.
InARow(o, tx, c) ==
  /\ o \o (tx \o c) = (o \o tx) \o c
  /\ tx \o c \in Seq(ByteSet) /\ Len(tx \o c) = Len(tx) + Len(c)
  /\ (o \o tx) \o c \in Seq(ByteSet) /\ Len((o \o tx) \o c) = Len(o) + Len(tx) + Len(c)
  /\ Joined((o \o tx) \o c)
  /\ \A j \in 1 .. Len(c) : ((o \o tx) \o c)[Len(o) + Len(tx) + j] = c[j]

LEMMA ThreeParts ==
  ASSUME NEW o \in Seq(ByteSet), NEW tx \in Seq(ByteSet), NEW c \in Seq(ByteSet),
         Joined(o), Chunk(tx), Chunk(c)
  PROVE  InARow(o, tx, c)
<1>1. /\ tx \o c \in Seq(ByteSet) /\ Len(tx \o c) = Len(tx) + Len(c)
      /\ o \o tx \in Seq(ByteSet) /\ Len(o \o tx) = Len(o) + Len(tx)
  BY Parts
<1>2. o \o (tx \o c) = (o \o tx) \o c
  BY ConcatAssociative
<1>3. PICK q \in Seq(ByteSet) : q = o \o tx
  BY <1>1
<1>4. Joined(q)
  BY <1>3, ChunkJoins
<1>5. /\ q \o c \in Seq(ByteSet) /\ Len(q \o c) = Len(q) + Len(c) /\ Joined(q \o c)
      /\ \A j \in 1 .. Len(c) : (q \o c)[Len(q) + j] = c[j]
  BY <1>4, Parts, ChunkJoins
<1>. QED
  BY <1>1, <1>2, <1>3, <1>5 DEF InARow

\* A chunk put into the ring and sent at once is appended to out, behind what was there.
Fits(o, tx, c) == Len(tx) <= 4 /\ Len(c) <= 2 /\ Len(o) + Len(tx) + Len(c) <= DRIVER_ROOM

LEMMA SentAtOnce ==
  ASSUME NEW tx \in Seq(ByteSet), NEW o \in Seq(ByteSet), NEW c \in Seq(ByteSet),
         Chunk(tx), Chunk(c), Joined(o), Fits(o, tx, c)
  PROVE  /\ Wakeup(Put(tx, c), o)[1] = <<>>
         /\ Wakeup(Put(tx, c), o)[2] = (o \o tx) \o c
<1>1. /\ o \o (tx \o c) = (o \o tx) \o c
      /\ tx \o c \in Seq(ByteSet) /\ Len(tx \o c) = Len(tx) + Len(c)
  BY ThreeParts DEF InARow
<1>2. PICK m \in Seq(ByteSet) : m = tx \o c
  BY <1>1
<1>3. Len(tx) \in Nat /\ Len(c) \in Nat /\ Len(o) \in Nat /\ Len(m) = Len(tx) + Len(c)
  BY <1>1, <1>2, LenProperties
<1>4. Put(tx, c) = m
  <2>1. TUXCTL_BUFSIZE \in Nat /\ TUXCTL_BUFSIZE > 6
    BY BufferAssumption, RoomAssumption
  <2>2. Len(tx) + Len(c) < TUXCTL_BUFSIZE
    BY <1>3, <2>1 DEF Fits
  <2>. QED
    BY <1>2, <2>2, AllPut
<1>5. Wakeup(m, o)[1] = <<>> /\ Wakeup(m, o)[2] = o \o m
  <2>1. Len(o) + Len(m) <= DRIVER_ROOM
    <3>1. DRIVER_ROOM \in Nat
      BY SizeAssumption
    <3>. QED
      BY <1>3, <3>1 DEF Fits
  <2>. QED
    BY <2>1, AllWoken
<1>. QED
  BY <1>1, <1>2, <1>4, <1>5

LEMMA EmptyChunk == <<>> \in Seq(ByteSet) /\ Len(<<>>) = 0 /\ Chunk(<<>>)
BY EmptySeq DEF Chunk

\* The answer to a reset: the modes, behind a command that is still in the ring.
Answer(o, tx) == (o \o tx) \o TurnOn

LEMMA AnswerFacts ==
  ASSUME NEW tx \in Seq(ByteSet), NEW o \in Seq(ByteSet),
         Chunk(tx), Joined(o), Fits(o, tx, TurnOn)
  PROVE  /\ Answer(o, tx) \in Seq(ByteSet) /\ Len(Answer(o, tx)) = Len(o) + Len(tx) + 2
         /\ Joined(Answer(o, tx)) /\ UserModeIn(Answer(o, tx))
         /\ Wakeup(Put(tx, TurnOn), o)[1] = <<>>
         /\ Wakeup(Put(tx, TurnOn), o)[2] = Answer(o, tx)
<1>1. /\ TurnOn \in Seq(ByteSet) /\ Len(TurnOn) = 2 /\ Chunk(TurnOn)
      /\ TurnOn[2].byte = "MTCP_LED_USR"
  <2>1. Off \in Words
    BY DEF Off, Words
  <2>. QED
    BY <2>1, TurnOnBytes, Chunks DEF Byte
<1>2. PICK c \in Seq(ByteSet) : c = TurnOn
  BY <1>1
<1>3. Len(c) = 2 /\ Chunk(c) /\ c[2].byte = "MTCP_LED_USR" /\ Fits(o, tx, c)
  BY <1>1, <1>2
<1>4. /\ Wakeup(Put(tx, c), o)[1] = <<>> /\ Wakeup(Put(tx, c), o)[2] = (o \o tx) \o c
  BY <1>3, SentAtOnce
<1>5. /\ (o \o tx) \o c \in Seq(ByteSet) /\ Len((o \o tx) \o c) = Len(o) + Len(tx) + Len(c)
      /\ Joined((o \o tx) \o c)
      /\ \A j \in 1 .. Len(c) : ((o \o tx) \o c)[Len(o) + Len(tx) + j] = c[j]
  <2>1. InARow(o, tx, c)
    BY <1>3, ThreeParts
  <2>. QED
    BY <2>1 DEF InARow
<1>6. PICK r \in Seq(ByteSet) : r = (o \o tx) \o c
  BY <1>5
<1>7. UserModeIn(r)
  <2>1. Len(o) \in Nat /\ Len(tx) \in Nat
    BY LenProperties
  <2>2. Len(r) = Len(o) + Len(tx) + 2 /\ \A j \in 1 .. 2 : r[Len(o) + Len(tx) + j] = c[j]
    BY <1>3, <1>5, <1>6
  <2>3. r[Len(o) + Len(tx) + 2] = c[2] /\ Len(o) + Len(tx) + 2 \in 1 .. Len(r)
    BY <2>1, <2>2
  <2>. QED
    BY <1>3, <2>3 DEF UserModeIn
<1>. QED
  BY <1>2, <1>3, <1>4, <1>5, <1>6, <1>7 DEF Answer

\* And then the LEDs.
LEMMA RestoredFacts ==
  ASSUME NEW o \in Seq(ByteSet), NEW w \in Words, Joined(o), Fits(o, <<>>, SetLeds(w))
  PROVE  /\ o \o SetLeds(w) \in Seq(ByteSet) /\ Len(o \o SetLeds(w)) = Len(o) + 2
         /\ Joined(o \o SetLeds(w))
         /\ UserModeIn(o) => UserModeIn(o \o SetLeds(w))
         /\ \A v : Ends(o \o SetLeds(w), v, w)
         /\ Wakeup(Put(<<>>, SetLeds(w)), o)[1] = <<>>
         /\ Wakeup(Put(<<>>, SetLeds(w)), o)[2] = o \o SetLeds(w)
<1>1. /\ SetLeds(w) \in Seq(ByteSet) /\ Len(SetLeds(w)) = 2 /\ IsSet(SetLeds(w)[1])
      /\ Chunk(SetLeds(w)) /\ Ends(SetLeds(w), w, w)
  <2>1. /\ SetLeds(w) \in Seq(ByteSet) /\ Len(SetLeds(w)) = 2
        /\ SetLeds(w)[1] = Byte("MTCP_LED_SET")
    BY SetLedsBytes
  <2>. QED
    BY <2>1, Chunks DEF Byte, IsSet
<1>2. PICK c \in Seq(ByteSet) : c = SetLeds(w)
  BY <1>1
<1>3. /\ Len(c) = 2 /\ IsSet(c[1]) /\ Chunk(c) /\ Ends(c, w, w) /\ Fits(o, <<>>, c)
      /\ \E j \in 1 .. Len(c) : IsSet(c[j])
  BY <1>1, <1>2
<1>4. PICK e \in Seq(ByteSet) : e = <<>>
  BY EmptyChunk
<1>5. Wakeup(Put(e, c), o)[1] = <<>> /\ Wakeup(Put(e, c), o)[2] = (o \o e) \o c
  <2>1. Chunk(e) /\ Fits(o, e, c)
    BY <1>3, <1>4, EmptyChunk
  <2>. QED
    BY <1>3, <2>1, SentAtOnce
<1>6. o \o e = o
  BY <1>4, ConcatEmptySeq
<1>7. /\ o \o c \in Seq(ByteSet) /\ Len(o \o c) = Len(o) + Len(c) /\ Len(o) \in Nat
      /\ \A j \in 1 .. Len(o) : (o \o c)[j] = o[j]
  BY Parts
<1>8. Joined(o \o c)
  BY <1>3, ChunkJoins
<1>9. ASSUME NEW v PROVE Ends(o \o c, v, w)
  BY <1>3, LastDecides
<1>10. UserModeIn(o) => UserModeIn(o \o c)
  <2>1. \A j \in 1 .. Len(o) : j \in 1 .. Len(o \o c)
    BY <1>3, <1>7
  <2>. QED
    BY <1>7, <2>1 DEF UserModeIn
<1>. QED
  BY <1>2, <1>3, <1>4, <1>5, <1>6, <1>7, <1>8, <1>9, <1>10

LEMMA HandleResetInv == ASSUME CtlInv, HandleReset PROVE CtlInv'
<1>1. /\ packets # <<>> /\ Head(packets).type = "MTCP_RESET" /\ packets' = Tail(packets)
      /\ missed' = (is_busy \/ (cmd = "TUX_INIT" /\ pc \in {"room", "take", "write", "clear"}))
      /\ is_busy' = TRUE /\ dropped' = {}
      /\ UNCHANGED <<LED_status, button_status, pc, cmd, arg, led, room, buf, leds, mode, bioc,
                     pressed, resets, unseen, drops>>
  BY DEF HandleReset, ioctl, controller
<1>2. /\ packets \in Seq(PacketSet) /\ out \in Seq(ByteSet) /\ LED_status \in Words
      /\ is_busy \in BOOLEAN /\ resets \in Nat /\ resets <= MAX_RESETS
  BY Sizes DEF CtlInv, TypeOK
<1>3. Head(packets) = packets[1] /\ Resetting(packets[1]) /\ ~IsEvent(packets[1])
  <2>1. Head(packets) = packets[1]
    BY <1>1, <1>2, PendingTail
  <2>. QED
    BY <1>1, <2>1 DEF Resetting, IsEvent
<1>4. /\ Tail(packets) \in Seq(PacketSet) /\ Pending(Tail(packets)) = Pending(packets) - 1
      /\ Awaits(packets)
  <2>1. 1 \in 1 .. Len(packets)
    <3>1. Len(packets) \in Nat \ {0}
      BY <1>1, <1>2, PendingTail
    <3>. QED
      BY <3>1
  <2>2. Awaits(packets)
    BY <1>3, <2>1 DEF Awaits
  <2>. QED
    BY <1>1, <1>2, <1>3, <2>2, PendingTail
<1>5. Handled' = Handled + 1 /\ Handled \in Nat /\ Handled + 1 <= MAX_RESETS
  <2>1. Pending(packets) \in Nat /\ Pending(Tail(packets)) \in Nat
    BY <1>2, <1>4, PendingType
  <2>2. Handled = resets - Pending(packets) /\ Handled' = resets - Pending(Tail(packets))
    BY <1>1 DEF Handled
  <2>3. Handled \in Nat /\ MAX_RESETS \in Nat
    BY CtlFacts
  <2>. QED
    BY <1>2, <1>4, <2>1, <2>2, <2>3
<1>. DEFINE Rest == Len(Going) + (IF pc \in {"convert", "point", "put"} THEN 4 ELSE 0)
            sent == Answer(out, tx_buf)
            restored == sent \o SetLeds(LED_status)
<1>6. /\ Rest \in Nat /\ Len(out) \in Nat /\ Len(tx_buf) \in 0 .. 4 /\ MAX_UNDERWAY \in Nat
      /\ MAX_RESETS \in Nat /\ DRIVER_ROOM \in Nat
      /\ DRIVER_ROOM >= MAX_UNDERWAY + 4 * (MAX_RESETS + 1)
  BY CtlFacts, SMTT(30)
<1>7. Len(out) + Len(tx_buf) + Rest <= MAX_UNDERWAY + 4 + 4 * Handled
  <2>1. Load = Len(out) + Len(tx_buf) + Len(Going)
                 + (IF pc \in {"convert", "point", "put"} THEN 4 ELSE 0)
    BY DEF Load
  <2>2. Load = Len(out) + Len(tx_buf) + Rest
    <3>1. PICK g \in 0 .. 4 : g = Len(Going)
      BY CtlFacts
    <3>2. PICK k \in 0 .. 4 : k = IF pc \in {"convert", "point", "put"} THEN 4 ELSE 0
      OBVIOUS
    <3>3. Load = Len(out) + Len(tx_buf) + g + k /\ Rest = g + k
      BY <2>1, <3>1, <3>2
    <3>. HIDE DEF Rest
    <3>4. Len(out) \in Nat /\ Len(tx_buf) \in Nat
      BY <1>6
    <3>. QED
      BY <3>3, <3>4
  <2>. QED
    BY <2>2 DEF CtlInv, RoomLeft
<1>8. Len(out) + Len(tx_buf) + 4 <= DRIVER_ROOM
  <2>. HIDE DEF Rest
  <2>. QED
    BY <1>5, <1>6, <1>7
<1>9. /\ sent \in Seq(ByteSet) /\ Len(sent) = Len(out) + Len(tx_buf) + 2
      /\ Joined(sent) /\ UserModeIn(sent)
      /\ Wakeup(Put(tx_buf, TurnOn), out)[1] = <<>>
      /\ Wakeup(Put(tx_buf, TurnOn), out)[2] = sent
  <2>1. \/ tx_buf = <<>>
        \/ tx_buf = Command /\ cmd \in {"TUX_INIT", "TUX_SET_LED"}
    BY DEF CtlInv, Places, Sending
  <2>2. cmd \in {"TUX_INIT", "TUX_SET_LED"} => Chunk(Command)
    BY CommandFacts DEF CtlInv
  <2>3. Chunk(tx_buf) /\ Joined(out) /\ tx_buf \in Seq(ByteSet) /\ out \in Seq(ByteSet)
    BY <2>1, <2>2, EmptyChunk, CtlFacts DEF CtlInv
  <2>4. Fits(out, tx_buf, TurnOn)
    <3>. HIDE DEF Rest
    <3>1. PICK x \in Nat, y \in 0 .. 4 : x = Len(out) /\ y = Len(tx_buf)
      BY <1>6
    <3>2. x + y + 4 <= DRIVER_ROOM /\ DRIVER_ROOM \in Nat
      BY <1>6, <1>8, <3>1
    <3>3. y <= 4 /\ x + y + 2 <= DRIVER_ROOM
      BY <3>2
    <3>4. Len(TurnOn) = 2
      BY TurnOnBytes
    <3>. QED
      BY <3>1, <3>3, <3>4 DEF Fits
  <2>. QED
    BY <2>3, <2>4, AnswerFacts
<1>10. Len(sent) \in Nat /\ Fits(sent, <<>>, SetLeds(LED_status))
  <2>. HIDE DEF sent, Rest
  <2>1. Len(sent) \in Nat
    BY <1>9, LenProperties
  <2>2. PICK z \in Nat : z = Len(sent)
    BY <2>1
  <2>3. z + 2 <= DRIVER_ROOM
    <3>1. PICK x \in Nat, y \in 0 .. 4 : x = Len(out) /\ y = Len(tx_buf)
      BY <1>6
    <3>2. x + y + 4 <= DRIVER_ROOM /\ DRIVER_ROOM \in Nat /\ z = x + y + 2
      BY <1>6, <1>8, <1>9, <2>2, <3>1
    <3>. QED
      BY <3>2
  <2>4. Len(<<>>) = 0 /\ Len(SetLeds(LED_status)) = 2
    BY <1>2, SetLedsBytes, EmptyChunk
  <2>. QED
    BY <2>2, <2>3, <2>4 DEF Fits
<1>11. /\ restored \in Seq(ByteSet) /\ Len(restored) = Len(sent) + 2
       /\ Joined(restored) /\ UserModeIn(restored)
       /\ \A v : Ends(restored, v, LED_status)
       /\ Wakeup(Put(<<>>, SetLeds(LED_status)), sent)[1] = <<>>
       /\ Wakeup(Put(<<>>, SetLeds(LED_status)), sent)[2] = restored
  <2>. HIDE DEF sent
  <2>1. PICK s \in Seq(ByteSet) : s = sent
    BY <1>9
  <2>2. PICK w \in Words : w = LED_status
    BY <1>2
  <2>3. Joined(s) /\ UserModeIn(s) /\ Fits(s, <<>>, SetLeds(w))
    BY <1>9, <1>10, <2>1, <2>2
  <2>4. /\ s \o SetLeds(w) \in Seq(ByteSet) /\ Len(s \o SetLeds(w)) = Len(s) + 2
        /\ Joined(s \o SetLeds(w)) /\ UserModeIn(s \o SetLeds(w))
        /\ \A v : Ends(s \o SetLeds(w), v, w)
        /\ Wakeup(Put(<<>>, SetLeds(w)), s)[1] = <<>>
        /\ Wakeup(Put(<<>>, SetLeds(w)), s)[2] = s \o SetLeds(w)
    BY <2>3, RestoredFacts
  <2>. QED
    BY <2>1, <2>2, <2>4
<1>15. tx_buf' = <<>> /\ out' = IF is_busy THEN sent ELSE restored
  <2>. DEFINE on == Wakeup(Put(tx_buf, TurnOn), out)
              more == Wakeup(Put(on[1], SetLeds(LED_status)), on[2])
  <2>1. tx_buf' = (IF is_busy THEN on ELSE more)[1] /\ out' = (IF is_busy THEN on ELSE more)[2]
    BY DEF HandleReset, Restored
  <2>. HIDE DEF sent, restored
  <2>2. on[1] = <<>> /\ on[2] = sent
    BY <1>9
  <2>3. more[1] = <<>> /\ more[2] = restored
    BY <1>11, <2>2
  <2>. HIDE DEF on, more
  <2>4. CASE is_busy
    BY <2>1, <2>2, <2>4, Zenon
  <2>5. CASE ~is_busy
    BY <2>1, <2>3, <2>5, Zenon
  <2>. QED
    BY <2>4, <2>5
<1>. HIDE DEF sent, restored
<1>16. /\ out' \in Seq(ByteSet) /\ Joined(out') /\ UserModeIn(out')
       /\ Len(out') \in Nat /\ Len(out') <= Len(out) + Len(tx_buf) + 4
       /\ ~is_busy => \A w : Ends(out', w, LED_status)
  <2>1. CASE is_busy
    <3>1. out' = sent
      BY <1>15, <2>1
    <3>2. Len(out') \in Nat /\ Len(out') <= Len(out) + Len(tx_buf) + 4
      BY <1>6, <1>9, <3>1
    <3>. QED
      BY <1>9, <2>1, <3>1, <3>2
  <2>2. CASE ~is_busy
    <3>1. out' = restored
      BY <1>15, <2>2
    <3>2. Len(out') \in Nat /\ Len(out') <= Len(out) + Len(tx_buf) + 4
      BY <1>6, <1>9, <1>11, <3>1
    <3>. QED
      BY <1>11, <3>1, <3>2
  <2>. QED
    BY <2>1, <2>2
<1>17. Len(out') <= DRIVER_ROOM
  BY <1>6, <1>8, <1>16
<1>18. <<>> \in Seq(ByteSet) /\ Len(<<>>) = 0
  BY EmptySeq
<1>19. Going' = Going /\ Command' = Command /\ Word' = Word /\ Sending' = Sending
  BY <1>1 DEF Going, Command, Word, Sending
<1>20. TypeOK'
  <2>1. missed' \in BOOLEAN /\ is_busy' \in BOOLEAN
    BY <1>1, <1>2, Zenon
  <2>2. Len(tx_buf') < TUXCTL_BUFSIZE /\ tx_buf' \in Seq(ByteSet)
    BY <1>15, <1>18, Sizes
  <2>3. packets' \in Seq(PacketSet)
    BY <1>1, <1>4
  <2>. QED
    BY <1>1, <1>16, <1>17, <2>1, <2>2, <2>3 DEF CtlInv, TypeOK
<1>21. Places' /\ Converted'
  BY <1>1, <1>15, <1>19 DEF CtlInv, Places, Converted
<1>22. RoomLeft'
  <2>1. Load' = Len(out') + Len(<<>>) + Len(Going)
                  + (IF pc \in {"convert", "point", "put"} THEN 4 ELSE 0)
    BY <1>1, <1>15, <1>19 DEF Load
  <2>2. Len(Going) \in 0 .. 4
    BY CtlFacts
  <2>3. Load' = Len(out') + Rest
    BY <1>16, <1>18, <2>1, <2>2
  <2>. HIDE DEF Rest
  <2>4. Load' <= MAX_UNDERWAY + 4 + 4 * (Handled + 1)
    BY <1>5, <1>6, <1>7, <1>16, <2>3
  <2>5. Handled' \in 0 .. MAX_RESETS
    BY <1>5, <1>6
  <2>6. pc' = "take" => Len(tx_buf') <= room'
    <3>1. room \in 0 .. DRIVER_ROOM
      BY DEF CtlInv, TypeOK
    <3>. QED
      BY <1>1, <1>15, <1>18, <3>1, Sizes
  <2>. QED
    BY <1>5, <2>4, <2>5, <2>6 DEF RoomLeft
<1>23. ModeComes'
  BY <1>16 DEF ModeComes
<1>24. LedsCome'
  <2>. SUFFICES ASSUME ~missed'
                PROVE  /\ pc = "idle" => Ends(out', leds, LED_status)
                       /\ pc # "clear"
                       /\ pc \in {"room", "take", "write"} => Ends(out', leds, Word)
    <3>1. pc' = pc /\ leds' = leds /\ LED_status' = LED_status /\ Word' = Word
      BY <1>1, <1>19
    <3>. QED
      BY <3>1, Zenon DEF LedsCome
  <2>2. ~is_busy /\ ~(cmd = "TUX_INIT" /\ pc \in {"room", "take", "write", "clear"})
    BY <1>1, Zenon
  <2>3. pc = "clear" => cmd = "TUX_INIT"
    BY DEF CtlInv, Places
  <2>4. Sending => cmd \in {"TUX_INIT", "TUX_SET_LED"}
    BY DEF CtlInv, Places
  <2>5. pc \in {"room", "take", "write"} => Word = LED_status
    BY <2>2, <2>4 DEF CtlInv, Converted, Sending
  <2>. QED
    BY <1>16, <2>2, <2>3, <2>5
<1>25. EventsTell'
  <2>1. IsEvent(Event(pressed))
    BY PressedTells DEF CtlInv
  <2>2. ASSUME Tells(packets, button_status, Event(pressed))
        PROVE  Tells(Tail(packets), button_status, Event(pressed))
    BY <1>1, <1>2, <1>3, <2>1, <2>2, TellsTail
  <2>. QED
    BY <1>1, <2>2 DEF CtlInv, EventsTell
<1>26. AnswerComes'
  <2>1. Commanding(out')
    BY <1>16 DEF UserModeIn, Commanding
  <2>. QED
    BY <2>1 DEF AnswerComes
<1>. QED
  BY <1>16, <1>20, <1>21, <1>22, <1>23, <1>24, <1>25, <1>26 DEF CtlInv

\* A packet is lost: a reset then counts as answered, for it brings no bytes any more.
LEMMA DropPacketInv == ASSUME CtlInv, DropPacket PROVE CtlInv'
<1>1. /\ packets # <<>> /\ drops < MAX_DROPS
      /\ packets' = Tail(packets) /\ drops' = drops + 1
      /\ dropped' = dropped \cup {packets[1].type}
      /\ unseen' = (unseen \/ (packets[1].type = "MTCP_BIOC_EVENT" /\
                                 \A j \in 2 .. Len(packets) : packets[j].type # "MTCP_BIOC_EVENT"))
      /\ UNCHANGED <<is_busy, LED_status, button_status, tx_buf, pc, cmd, arg, led, room, buf, out,
                     leds, mode, bioc, pressed, resets, missed>>
  BY DEF DropPacket, driver, ioctl
<1>2. /\ packets \in Seq(PacketSet) /\ drops \in 0 .. MAX_DROPS /\ dropped \subseteq PacketTypes
      /\ unseen \in BOOLEAN
  BY DEF CtlInv, TypeOK
<1>3. /\ packets[1] \in PacketSet /\ Tail(packets) \in Seq(PacketSet) /\ Len(packets) \in Nat \ {0}
      /\ Pending(Tail(packets)) = IF Resetting(packets[1]) THEN Pending(packets) - 1
                                                           ELSE Pending(packets)
      /\ Awaits(Tail(packets)) => Awaits(packets)
      /\ ~Resetting(packets[1]) /\ Awaits(packets) => Awaits(Tail(packets))
  BY <1>1, <1>2, PendingTail
<1>4. TypeOK'
  <2>1. drops' \in 0 .. MAX_DROPS /\ dropped' \subseteq PacketTypes
    BY <1>1, <1>2, <1>3, Sizes DEF PacketSet
  <2>2. unseen' \in BOOLEAN
    BY <1>1, <1>2, Zenon
  <2>. QED
    BY <1>1, <1>3, <2>1, <2>2 DEF CtlInv, TypeOK
<1>5. Going' = Going /\ Command' = Command /\ Word' = Word /\ Sending' = Sending
  BY <1>1 DEF Going, Command, Word, Sending
<1>6. Places' /\ Converted' /\ Joined(out)'
  BY <1>1, <1>5 DEF CtlInv, Places, Converted
<1>7. RoomLeft'
  <2>1. /\ Handled' \in 0 .. MAX_RESETS /\ Handled' \in Nat
        /\ Handled' >= Handled /\ Handled \in Nat
    <3>1. Pending(packets) \in Nat /\ Pending(Tail(packets)) \in Nat
      BY <1>2, <1>3, PendingType
    <3>2. Handled = resets - Pending(packets) /\ Handled' = resets - Pending(Tail(packets))
      BY <1>1 DEF Handled
    <3>3. resets \in 0 .. MAX_RESETS /\ Handled \in 0 .. MAX_RESETS /\ MAX_RESETS \in Nat
      BY CtlFacts
    <3>. QED
      BY <1>3, <3>1, <3>2, <3>3
  <2>2. Load' = Load
    BY <1>1, <1>5 DEF Load
  <2>3. Load \in Nat /\ MAX_UNDERWAY \in Nat /\ Load <= MAX_UNDERWAY + 4 + 4 * Handled
    <3>1. PICK x \in Nat, y \in 0 .. 4, g \in 0 .. 4 :
                 x = Len(out) /\ y = Len(tx_buf) /\ g = Len(Going)
      BY CtlFacts
    <3>2. PICK d \in 0 .. 4 : d = IF pc \in {"convert", "point", "put"} THEN 4 ELSE 0
      OBVIOUS
    <3>3. Load = x + y + g + d
      BY <3>1, <3>2 DEF Load
    <3>. QED
      BY <3>3, Sizes DEF CtlInv, RoomLeft
  <2>4. Load' <= MAX_UNDERWAY + 4 + 4 * Handled'
    <3>1. PICK h \in Nat, k \in Nat : h = Handled /\ k = Handled'
      BY <2>1
    <3>2. h <= k /\ Load <= MAX_UNDERWAY + 4 + 4 * h
      BY <2>1, <2>3, <3>1
    <3>3. MAX_UNDERWAY + 4 + 4 * h <= MAX_UNDERWAY + 4 + 4 * k
      BY <2>3, <3>2
    <3>4. Load <= MAX_UNDERWAY + 4 + 4 * k
      BY <2>3, <3>2, <3>3
    <3>. QED
      BY <2>2, <3>1, <3>4
  <2>. QED
    BY <1>1, <2>1, <2>4 DEF CtlInv, RoomLeft
<1>8. ModeComes' /\ LedsCome'
  <2>1. ResetUnanswered => ResetUnanswered'
    BY <1>1, <1>3 DEF ResetUnanswered, Resetting
  <2>. QED
    BY <1>1, <1>5, <2>1 DEF CtlInv, ModeComes, LedsCome, Unsent
<1>9. EventsTell'
  <2>. SUFFICES ASSUME ~unseen' PROVE Tells(Tail(packets), button_status, Event(pressed))
    BY <1>1 DEF EventsTell
  <2>1. ~unseen /\ (IsEvent(packets[1]) => \E j \in 2 .. Len(packets) : IsEvent(packets[j]))
    BY <1>1 DEF IsEvent
  <2>2. IsEvent(Event(pressed)) /\ Tells(packets, button_status, Event(pressed))
    BY <2>1, PressedTells DEF CtlInv, EventsTell
  <2>3. CASE ~IsEvent(packets[1])
    BY <1>1, <1>2, <2>2, <2>3, TellsTail
  <2>4. CASE IsEvent(packets[1])
    <3>1. PICK j \in 2 .. Len(packets) : IsEvent(packets[j])
      BY <2>1, <2>4
    <3>2. Tells(Tail(packets), StatusOf(packets[1].b, packets[1].c), Event(pressed))
      BY <1>1, <1>2, <2>2, <2>4, TellsTail
    <3>3. j - 1 \in 1 .. Len(Tail(packets)) /\ Tail(packets)[j - 1] = packets[j]
      <4>1. /\ Len(Tail(packets)) = Len(packets) - 1
            /\ \A k \in 1 .. Len(packets) - 1 : Tail(packets)[k] = packets[k + 1]
        BY <1>1, <1>2, PendingTail
      <4>2. j - 1 \in 1 .. Len(packets) - 1 /\ (j - 1) + 1 = j
        BY <1>3
      <4>. QED
        BY <4>1, <4>2
    <3>. QED
      BY <3>1, <3>2, <3>3 DEF Tells
  <2>. QED
    BY <2>3, <2>4
<1>10. AnswerComes'
  <2>1. AnswerLost => AnswerLost'
    BY <1>1 DEF AnswerLost
  <2>2. Answering(packets) => Answering(packets') \/ AnswerLost'
    BY <1>1, <1>2, AnsweringTail DEF Freeing, AnswerLost
  <2>. QED
    BY <1>1, <1>5, <2>1, <2>2 DEF CtlInv, AnswerComes, Unsent
<1>. QED
  BY <1>4, <1>6, <1>7, <1>8, <1>9, <1>10 DEF CtlInv

LEMMA DriverWakeupInv == ASSUME CtlInv, DriverWakeup PROVE CtlInv'
<1>1. /\ tx_buf # <<>> /\ tx_buf' = Wakeup(tx_buf, out)[1] /\ out' = Wakeup(tx_buf, out)[2]
      /\ UNCHANGED <<is_busy, LED_status, button_status, pc, cmd, arg, led, room, buf, packets,
                     leds, mode, bioc, pressed, resets, missed, unseen, drops, dropped>>
  BY DEF DriverWakeup, driver, ioctl, controller, loss
<1>2. /\ pc \in {"room", "take"} /\ tx_buf = Command /\ cmd \in {"TUX_INIT", "TUX_SET_LED"}
      /\ Going = <<>> /\ Going' = <<>> /\ Command' = Command /\ Word' = Word /\ Sending' = Sending
  BY <1>1 DEF CtlInv, Places, Sending, Going, Command, Word
<1>3. /\ out \in Seq(ByteSet) /\ tx_buf \in Seq(ByteSet) /\ Len(out) \in Nat /\ Len(tx_buf) \in 0 .. 4
  BY CtlFacts
<1>4. Load = Len(out) + Len(tx_buf) /\ Load <= MAX_UNDERWAY + 4 + 4 * Handled
  <2>1. Load = Len(out) + Len(tx_buf) + Len(<<>>) + 0
    BY <1>2 DEF Load
  <2>2. Len(<<>>) = 0
    BY EmptySeq
  <2>. QED
    BY <1>3, <2>1, <2>2 DEF CtlInv, RoomLeft
<1>5. Len(out) + Len(tx_buf) <= DRIVER_ROOM
  <2>1. /\ Handled \in 0 .. MAX_RESETS /\ MAX_UNDERWAY \in Nat /\ MAX_RESETS \in Nat
        /\ DRIVER_ROOM \in Nat /\ DRIVER_ROOM >= MAX_UNDERWAY + 4 * (MAX_RESETS + 1)
    BY CtlFacts
  <2>2. Load <= DRIVER_ROOM
    BY <1>3, <1>4, <2>1
  <2>. QED
    BY <1>4, <2>2
<1>6. tx_buf' = <<>> /\ out' = out \o Command
  <2>1. Wakeup(tx_buf, out)[1] = <<>> /\ Wakeup(tx_buf, out)[2] = out \o tx_buf
    BY <1>3, <1>5, AllWoken
  <2>. QED
    BY <1>1, <1>2, <2>1
<1>7. /\ out' \in Seq(ByteSet) /\ Len(out') = Len(out) + Len(tx_buf) /\ Joined(out')
      /\ \A w : Ends(out', w, Word)
      /\ cmd = "TUX_INIT" \/ UserModeIn(out) => UserModeIn(out')
      /\ Commanding(out')
  BY <1>2, <1>6, CommandAppended
<1>8. <<>> \in Seq(ByteSet) /\ Len(<<>>) = 0
  BY EmptySeq
<1>9. TypeOK'
  <2>1. tx_buf' \in Seq(ByteSet) /\ Len(tx_buf') < TUXCTL_BUFSIZE /\ Len(out') <= DRIVER_ROOM
    BY <1>5, <1>6, <1>7, <1>8, Sizes
  <2>. QED
    BY <1>1, <1>7, <2>1 DEF CtlInv, TypeOK
<1>10. Places' /\ Converted'
  BY <1>1, <1>2, <1>6 DEF CtlInv, Places, Converted
<1>11. RoomLeft'
  <2>1. Load' = Len(out') + Len(<<>>) + Len(<<>>) + 0 /\ Handled' = Handled
    BY <1>1, <1>2, <1>6 DEF Load, Handled
  <2>2. Load' = Load
    BY <1>3, <1>4, <1>7, <1>8, <2>1
  <2>3. room \in 0 .. DRIVER_ROOM /\ DRIVER_ROOM \in Nat
    BY Sizes DEF CtlInv, TypeOK
  <2>4. Len(tx_buf') <= room'
    BY <1>1, <1>6, <1>8, <2>3
  <2>. QED
    BY <2>1, <2>2, <2>4 DEF CtlInv, RoomLeft
<1>12. ModeComes'
  BY <1>1, <1>7 DEF CtlInv, ModeComes, ResetUnanswered
<1>13. LedsCome'
  BY <1>1, <1>2, <1>7 DEF LedsCome, ResetUnanswered
<1>14. EventsTell'
  BY <1>1 DEF CtlInv, EventsTell
<1>15. AnswerComes'
  BY <1>7 DEF AnswerComes
<1>. QED
  BY <1>7, <1>9, <1>10, <1>11, <1>12, <1>13, <1>14, <1>15 DEF CtlInv

\* What the controller hears is a byte, or a command with its digits; what it then has to
\* hear still makes it show the same, and in the same mode.
Heard(s, rest, l, l2, m, m2) ==
  /\ rest \in Seq(ByteSet) /\ Len(rest) <= Len(s) /\ Joined(rest) /\ l2 \in Words
  /\ \A W : Ends(s, l, W) => Ends(rest, l2, W)
  /\ m2 \in {"clock", "user"}
  /\ m = "user" \/ UserModeIn(s) => m2 = "user" \/ UserModeIn(rest)

LEMMA HeardFacts ==
  ASSUME NEW s \in Seq(ByteSet), s # <<>>, Joined(s), NEW l \in Words,
         NEW m \in {"clock", "user"}, NEW rest, NEW l2, NEW m2,
         rest = IF IsSet(s[1]) THEN Tail(Tail(s)) ELSE Tail(s),
         l2 = IF IsSet(s[1]) THEN s[2].word ELSE l,
         m2 = IF s[1].byte = "MTCP_LED_USR" THEN "user" ELSE m
  PROVE  Heard(s, rest, l, l2, m, m2)
<1>1. Len(s) \in Nat
  BY LenProperties
<1>2. CASE IsSet(s[1])
  <2>1. /\ Len(s) > 1 /\ s[2] \in ByteSet
        /\ Tail(Tail(s)) \in Seq(ByteSet) /\ Len(Tail(Tail(s))) = Len(s) - 2
        /\ Joined(Tail(Tail(s)))
        /\ \A j \in 1 .. Len(s) - 2 : Tail(Tail(s))[j] = s[j + 2]
        /\ \A w, W : Ends(s, w, W) => Ends(Tail(Tail(s)), s[2].word, W)
    BY <1>2, HeardCommand
  <2>2. rest = Tail(Tail(s)) /\ l2 = s[2].word /\ l2 \in Words /\ m2 = m
    BY <1>2, <2>1 DEF ByteSet, IsSet
  <2>3. UserModeIn(s) => UserModeIn(rest)
    <3>1. SUFFICES ASSUME NEW j \in 1 .. Len(s), s[j].byte = "MTCP_LED_USR"
                   PROVE  UserModeIn(rest)
      BY DEF UserModeIn
    <3>2. j # 1
      BY <1>2, <3>1 DEF IsSet
    <3>3. s[1 + 1].byte = "digits"
      BY <1>1, <1>2, <2>1 DEF Joined
    <3>4. j # 2
      BY <3>1, <3>3
    <3>5. j - 2 \in 1 .. Len(s) - 2 /\ (j - 2) + 2 = j
      BY <1>1, <3>2, <3>4
    <3>6. rest[j - 2] = s[(j - 2) + 2] /\ j - 2 \in 1 .. Len(rest)
      BY <2>1, <2>2, <3>5
    <3>. QED
      BY <3>1, <3>5, <3>6 DEF UserModeIn
  <2>4. Len(rest) <= Len(s)
    <3>1. Len(Tail(Tail(s))) <= Len(s)
      BY <1>1, <2>1
    <3>. QED
      BY <2>2, <3>1, Zenon
  <2>. QED
    BY <2>1, <2>2, <2>3, <2>4 DEF Heard
<1>3. CASE ~IsSet(s[1])
  <2>1. /\ Tail(s) \in Seq(ByteSet) /\ Len(Tail(s)) = Len(s) - 1 /\ Joined(Tail(s))
        /\ \A j \in 1 .. Len(s) - 1 : Tail(s)[j] = s[j + 1]
        /\ \A w, W : Ends(s, w, W) => Ends(Tail(s), w, W)
    BY <1>3, HeardByte
  <2>2. rest = Tail(s) /\ l2 = l /\ m2 \in {"clock", "user"}
    BY <1>3
  <2>3. m = "user" => m2 = "user"
    OBVIOUS
  <2>4. UserModeIn(s) => m2 = "user" \/ UserModeIn(rest)
    <3>1. SUFFICES ASSUME NEW j \in 1 .. Len(s), s[j].byte = "MTCP_LED_USR", m2 # "user"
                   PROVE  UserModeIn(rest)
      BY DEF UserModeIn
    <3>2. j # 1
      BY <3>1
    <3>5. j - 1 \in 1 .. Len(s) - 1 /\ (j - 1) + 1 = j
      BY <1>1, <3>2
    <3>6. rest[j - 1] = s[(j - 1) + 1] /\ j - 1 \in 1 .. Len(rest)
      BY <2>1, <2>2, <3>5
    <3>. QED
      BY <3>1, <3>5, <3>6 DEF UserModeIn
  <2>5. Len(rest) <= Len(s)
    <3>1. Len(Tail(s)) <= Len(s)
      BY <1>1, <2>1
    <3>. QED
      BY <2>2, <3>1, Zenon
  <2>. QED
    BY <2>1, <2>2, <2>3, <2>4, <2>5 DEF Heard
<1>. QED
  BY <1>2, <1>3

LEMMA AckPacket ==
  LET ack == Packet("MTCP_ACK")
  IN ack \in PacketSet /\ ~Resetting(ack) /\ ~IsEvent(ack) /\ ack.type \in Freeing
BY DEF Packet, PacketSet, PacketTypes, Resetting, IsEvent, Freeing

LEMMA ResetPacket ==
  LET reset == Packet("MTCP_RESET")
  IN reset \in PacketSet /\ Resetting(reset) /\ ~IsEvent(reset) /\ reset.type \in Freeing
BY DEF Packet, PacketSet, PacketTypes, Resetting, IsEvent, Freeing

LEMMA ExecuteInv == ASSUME CtlInv, Execute PROVE CtlInv'
<1>1. /\ out \in Seq(ByteSet) /\ Joined(out) /\ leds \in Words /\ mode \in {"clock", "user"}
      /\ packets \in Seq(PacketSet) /\ bioc \in BOOLEAN
  BY DEF CtlInv, TypeOK
<1>2. out # <<>> /\ Head(out) = out[1]
  <2>1. out # <<>>
    BY DEF Execute
  <2>. QED
    BY <1>1, <2>1, HeadTailProperties
<1>3. /\ out' = IF IsSet(out[1]) THEN Tail(Tail(out)) ELSE Tail(out)
      /\ leds' = IF IsSet(out[1]) THEN out[2].word ELSE leds
      /\ mode' = IF out[1].byte = "MTCP_LED_USR" THEN "user" ELSE mode
      /\ bioc' = (bioc \/ out[1].byte = "MTCP_BIOC_ON")
      /\ packets' = IF out[1].byte = "digits" THEN packets ELSE Append(packets, Packet("MTCP_ACK"))
      /\ UNCHANGED <<is_busy, LED_status, button_status, tx_buf, pc, cmd, arg, led, room, buf,
                     pressed, resets, missed, unseen, drops, dropped>>
  BY <1>2 DEF Execute, IsSet, driver, ioctl, loss
<1>4. Heard(out, out', leds, leds', mode, mode')
  BY <1>1, <1>2, <1>3, HeardFacts
<1>5. /\ packets' \in Seq(PacketSet) /\ Pending(packets') = Pending(packets)
      /\ Awaits(packets') <=> Awaits(packets)
      /\ \A status, e : Tells(packets, status, e) => Tells(packets', status, e)
  <2>1. CASE packets' = packets
    BY <1>1, <2>1
  <2>2. CASE packets' = Append(packets, Packet("MTCP_ACK"))
    <3>1. PICK ack \in PacketSet : ack = Packet("MTCP_ACK") /\ ~Resetting(ack) /\ ~IsEvent(ack)
      BY AckPacket
    <3>2. /\ Append(packets, ack) \in Seq(PacketSet)
          /\ Pending(Append(packets, ack)) = Pending(packets)
          /\ Awaits(Append(packets, ack)) <=> Awaits(packets)
      BY <1>1, <3>1, PendingAppend
    <3>3. ASSUME NEW status, NEW e, Tells(packets, status, e)
          PROVE  Tells(Append(packets, ack), status, e)
      BY <1>1, <3>1, <3>3, TellsAppend
    <3>. QED
      BY <2>2, <3>1, <3>2, <3>3
  <2>. QED
    BY <1>3, <2>1, <2>2
<1>6. Going' = Going /\ Command' = Command /\ Word' = Word /\ Sending' = Sending /\ Unsent' = Unsent
  BY <1>3 DEF Going, Command, Word, Sending, Unsent
<1>7. /\ out' \in Seq(ByteSet) /\ Len(out') <= Len(out) /\ Joined(out') /\ leds' \in Words
      /\ \A W : Ends(out, leds, W) => Ends(out', leds', W)
      /\ mode' \in {"clock", "user"}
      /\ mode = "user" \/ UserModeIn(out) => mode' = "user" \/ UserModeIn(out')
  BY <1>4 DEF Heard
<1>8. Len(out') \in Nat /\ Len(out) \in Nat
  BY <1>1, <1>7, LenProperties
<1>9. TypeOK'
  <2>1. Len(out') <= DRIVER_ROOM
    <3>1. Len(out) <= DRIVER_ROOM /\ DRIVER_ROOM \in Nat
      BY Sizes DEF CtlInv, TypeOK
    <3>. QED
      BY <1>7, <1>8, <3>1
  <2>2. bioc' \in BOOLEAN
    BY <1>1, <1>3, Zenon
  <2>. QED
    BY <1>3, <1>5, <1>7, <2>1, <2>2 DEF CtlInv, TypeOK
<1>10. Places' /\ Converted'
  BY <1>3, <1>6 DEF CtlInv, Places, Converted
<1>11. RoomLeft'
  <2>1. Handled' = Handled
    BY <1>3, <1>5 DEF Handled
  <2>. DEFINE k == Len(tx_buf) + Len(Going) + (IF pc \in {"convert", "point", "put"} THEN 4 ELSE 0)
  <2>2. k \in Nat /\ Load = Len(out) + k /\ Load' = Len(out') + k
    <3>1. PICK a \in 0 .. 4, g \in 0 .. 4 : a = Len(tx_buf) /\ g = Len(Going)
      BY CtlFacts
    <3>2. PICK d \in 0 .. 4 : d = IF pc \in {"convert", "point", "put"} THEN 4 ELSE 0
      OBVIOUS
    <3>3. k = a + g + d
      BY <3>1, <3>2
    <3>4. Load = Len(out) + a + g + d /\ Load' = Len(out') + a + g + d
      BY <1>3, <1>6, <3>1, <3>2 DEF Load
    <3>. HIDE DEF k
    <3>. QED
      BY <1>8, <3>3, <3>4
  <2>3. MAX_UNDERWAY \in Nat /\ Handled \in 0 .. MAX_RESETS /\ Load <= MAX_UNDERWAY + 4 + 4 * Handled
    BY CtlFacts DEF CtlInv, RoomLeft
  <2>. HIDE DEF k
  <2>4. Load' <= MAX_UNDERWAY + 4 + 4 * Handled
    BY <1>7, <1>8, <2>2, <2>3
  <2>. QED
    BY <1>3, <2>1, <2>3, <2>4 DEF CtlInv, RoomLeft
<1>12. ModeComes'
  BY <1>3, <1>5, <1>6, <1>7 DEF CtlInv, ModeComes, ResetUnanswered
<1>13. LedsCome'
  BY <1>3, <1>5, <1>6, <1>7 DEF CtlInv, LedsCome, ResetUnanswered
<1>14. EventsTell'
  BY <1>3, <1>5 DEF CtlInv, EventsTell
<1>15. AnswerComes'
  <2>1. CASE out[1].byte = "digits"
    <3>1. packets' = packets /\ out' = Tail(out)
      BY <1>3, <2>1 DEF IsSet
    <3>2. Commanding(out) => Commanding(out')
      BY <1>1, <1>2, <2>1, <3>1, CommandingTail
    <3>. QED
      BY <1>3, <1>6, <3>1, <3>2 DEF CtlInv, AnswerComes, AnswerLost
  <2>2. CASE out[1].byte # "digits"
    <3>1. PICK ack \in PacketSet : ack = Packet("MTCP_ACK") /\ ack.type \in Freeing
      BY AckPacket
    <3>2. Answering(Append(packets, ack))
      BY <1>1, <3>1, AnsweringAppend
    <3>. QED
      BY <1>3, <2>2, <3>1, <3>2 DEF AnswerComes
  <2>. QED
    BY <2>1, <2>2
<1>. QED
  BY <1>7, <1>9, <1>10, <1>11, <1>12, <1>13, <1>14, <1>15 DEF CtlInv

LEMMA ResetInv == ASSUME CtlInv, Reset PROVE CtlInv'
<1>1. /\ resets < MAX_RESETS /\ resets' = resets + 1
      /\ \E n \in 0 .. Len(out) : out' = SubSeq(out, n + 1, Len(out))
      /\ leds' = Off /\ mode' = "clock" /\ bioc' = FALSE
      /\ packets' = Append(packets, Packet("MTCP_RESET"))
      /\ UNCHANGED <<is_busy, LED_status, button_status, tx_buf, pc, cmd, arg, led, room, buf,
                     pressed, missed, unseen, drops, dropped>>
  BY DEF Reset, driver, ioctl, loss
<1>2. /\ out \in Seq(ByteSet) /\ Joined(out) /\ packets \in Seq(PacketSet) /\ Len(out) \in Nat
      /\ resets \in 0 .. MAX_RESETS /\ Pending(packets) \in Nat /\ MAX_RESETS \in Nat
  BY CtlFacts DEF CtlInv
<1>3. /\ out' \in Seq(ByteSet) /\ Joined(out') /\ Len(out') \in Nat /\ Len(out') <= Len(out)
  <2>1. PICK n \in 0 .. Len(out) : out' = SubSeq(out, n + 1, Len(out))
    BY <1>1
  <2>2. /\ SubSeq(out, n + 1, Len(out)) \in Seq(ByteSet)
        /\ Len(SubSeq(out, n + 1, Len(out))) = Len(out) - n
        /\ Joined(SubSeq(out, n + 1, Len(out)))
    BY <1>2, SuffixJoined
  <2>. QED
    BY <1>2, <2>1, <2>2
<1>4. PICK x \in PacketSet : x = Packet("MTCP_RESET") /\ Resetting(x) /\ ~IsEvent(x)
                            /\ x.type \in Freeing
  BY ResetPacket
<1>5. /\ packets' \in Seq(PacketSet) /\ Pending(packets') = Pending(packets) + 1 /\ Awaits(packets')
  <2>1. /\ Append(packets, x) \in Seq(PacketSet)
        /\ Pending(Append(packets, x)) = Pending(packets) + 1
        /\ Awaits(Append(packets, x))
    BY <1>2, <1>4, PendingAppend
  <2>. QED
    BY <1>1, <1>4, <2>1
<1>6. Going' = Going /\ Command' = Command /\ Word' = Word /\ Sending' = Sending
  BY <1>1 DEF Going, Command, Word, Sending
<1>7. TypeOK'
  <2>1. Len(out') <= DRIVER_ROOM /\ resets' \in 0 .. MAX_RESETS
    <3>1. Len(out) <= DRIVER_ROOM /\ DRIVER_ROOM \in Nat
      BY Sizes DEF CtlInv, TypeOK
    <3>. QED
      BY <1>1, <1>2, <1>3, <3>1
  <2>2. leds' \in Words /\ mode' \in {"clock", "user"}
    BY <1>1 DEF Off, Words
  <2>3. bioc' \in BOOLEAN
    BY <1>1, Zenon
  <2>. QED
    BY <1>1, <1>3, <1>5, <2>1, <2>2, <2>3 DEF CtlInv, TypeOK
<1>8. Places' /\ Converted'
  BY <1>1, <1>6 DEF CtlInv, Places, Converted
<1>9. RoomLeft'
  <2>1. Handled' = Handled
    BY <1>1, <1>2, <1>5 DEF Handled
  <2>. DEFINE k == Len(tx_buf) + Len(Going) + (IF pc \in {"convert", "point", "put"} THEN 4 ELSE 0)
  <2>2. k \in Nat /\ Load = Len(out) + k /\ Load' = Len(out') + k
    <3>1. PICK a \in 0 .. 4, g \in 0 .. 4 : a = Len(tx_buf) /\ g = Len(Going)
      BY CtlFacts
    <3>2. PICK d \in 0 .. 4 : d = IF pc \in {"convert", "point", "put"} THEN 4 ELSE 0
      OBVIOUS
    <3>3. k = a + g + d
      BY <3>1, <3>2
    <3>4. Load = Len(out) + a + g + d /\ Load' = Len(out') + a + g + d
      BY <1>1, <1>6, <3>1, <3>2 DEF Load
    <3>. HIDE DEF k
    <3>. QED
      BY <1>2, <1>3, <3>3, <3>4
  <2>3. MAX_UNDERWAY \in Nat /\ Handled \in 0 .. MAX_RESETS /\ Load <= MAX_UNDERWAY + 4 + 4 * Handled
    BY CtlFacts DEF CtlInv, RoomLeft
  <2>. HIDE DEF k
  <2>4. Load' <= MAX_UNDERWAY + 4 + 4 * Handled
    BY <1>2, <1>3, <2>2, <2>3
  <2>. QED
    BY <1>1, <2>1, <2>3, <2>4 DEF CtlInv, RoomLeft
<1>10. ModeComes' /\ LedsCome'
  BY <1>5 DEF ModeComes, LedsCome, ResetUnanswered
<1>11. EventsTell'
  <2>1. ASSUME Tells(packets, button_status, Event(pressed))
        PROVE  Tells(Append(packets, x), button_status, Event(pressed))
    BY <1>2, <1>4, <2>1, TellsAppend
  <2>. QED
    BY <1>1, <1>4, <2>1 DEF CtlInv, EventsTell
<1>12. AnswerComes'
  <2>1. Answering(Append(packets, x))
    BY <1>2, <1>4, AnsweringAppend
  <2>. QED
    BY <1>1, <1>4, <2>1 DEF AnswerComes
<1>. QED
  BY <1>3, <1>7, <1>8, <1>9, <1>10, <1>11, <1>12 DEF CtlInv

LEMMA PressInv == ASSUME CtlInv, Press PROVE CtlInv'
<1>1. /\ \E n \in Buttons : pressed' = IF n \in pressed THEN pressed \ {n} ELSE pressed \cup {n}
      /\ packets' = IF bioc THEN Append(packets, Event(pressed')) ELSE packets
      /\ unseen' = ~bioc
      /\ UNCHANGED <<is_busy, LED_status, button_status, tx_buf, pc, cmd, arg, led, room, buf,
                     out, leds, mode, bioc, resets, missed, drops, dropped>>
  BY DEF Press, driver, ioctl, loss
<1>2. packets \in Seq(PacketSet) /\ pressed \subseteq Buttons /\ bioc \in BOOLEAN
  BY DEF CtlInv, TypeOK
<1>3. pressed' \subseteq Buttons
  BY <1>1, <1>2
<1>4. PICK d \in SUBSET DOMAIN BitOf : d = pressed'
  BY <1>3, ButtonsAssumption
<1>5. PICK e \in PacketSet : e = Event(d) /\ IsEvent(e) /\ ~Resetting(e)
  <2>1. Event(d) \in PacketSet /\ IsEvent(Event(d))
    BY StatusTells
  <2>. QED
    BY <2>1 DEF IsEvent, Resetting
<1>6. bioc => packets' = Append(packets, e)
  BY <1>1, <1>4, <1>5
<1>7. /\ Append(packets, e) \in Seq(PacketSet) /\ Pending(Append(packets, e)) = Pending(packets)
      /\ Awaits(Append(packets, e)) <=> Awaits(packets)
  BY <1>2, <1>5, PendingAppend
<1>8. /\ packets' \in Seq(PacketSet) /\ Pending(packets') = Pending(packets)
      /\ Awaits(packets') <=> Awaits(packets)
  BY <1>1, <1>2, <1>6, <1>7
<1>9. Going' = Going /\ Command' = Command /\ Word' = Word /\ Sending' = Sending /\ Unsent' = Unsent
  BY <1>1 DEF Going, Command, Word, Sending, Unsent
<1>10. TypeOK'
  <2>1. unseen' \in BOOLEAN
    BY <1>1, <1>2, Zenon
  <2>. QED
    BY <1>1, <1>3, <1>8, <2>1 DEF CtlInv, TypeOK
<1>11. Places' /\ Converted'
  BY <1>1, <1>9 DEF CtlInv, Places, Converted
<1>12. RoomLeft'
  BY <1>1, <1>8, <1>9 DEF CtlInv, RoomLeft, Handled, Load
<1>13. ModeComes' /\ LedsCome'
  BY <1>1, <1>8, <1>9 DEF CtlInv, ModeComes, LedsCome, ResetUnanswered
<1>14. EventsTell'
  <2>1. Tells(Append(packets, e), button_status, e)
    BY <1>2, TellsAppend
  <2>2. bioc => Tells(packets', button_status', Event(pressed'))
    BY <1>1, <1>4, <1>5, <1>6, <2>1
  <2>. QED
    BY <1>1, <2>2 DEF EventsTell
<1>15. Joined(out)'
  BY <1>1 DEF CtlInv
<1>16. AnswerComes'
  <2>1. Answering(packets) => Answering(Append(packets, e))
    BY <1>2, AnsweringAppend
  <2>2. Answering(packets) => Answering(packets')
    BY <1>1, <1>2, <1>6, <2>1
  <2>. QED
    BY <1>1, <1>9, <2>2 DEF CtlInv, AnswerComes, AnswerLost
<1>. QED
  BY <1>10, <1>11, <1>12, <1>13, <1>14, <1>15, <1>16 DEF CtlInv

-----------------------------------------------------------------------------
LEMMA CtlStep == CtlInv /\ [Next]_vars => CtlInv'
<1>. SUFFICES ASSUME CtlInv, [Next]_vars PROVE CtlInv'
  OBVIOUS
<1>1. CASE TuxInit
  BY <1>1, TuxInitInv
<1>2. CASE TuxSetLed
  BY <1>2, TuxSetLedInv
<1>3. CASE ConvertLed
  BY <1>3, ConvertLedInv
<1>4. CASE TestBusy
  BY <1>4, TestBusyInv
<1>5. CASE PutCommand
  BY <1>5, PutCommandInv
<1>6. CASE AskRoom
  BY <1>6, AskRoomInv
<1>7. CASE TakeBytes
  BY <1>7, TakeBytesInv
<1>8. CASE WriteBytes
  BY <1>8, WriteBytesInv
<1>9. CASE ClearStatus
  BY <1>9, ClearStatusInv
<1>10. CASE HandleAck
  BY <1>10, HandleAckInv
<1>11. CASE HandleEvent
  BY <1>11, HandleEventInv
<1>12. CASE HandleReset
  BY <1>12, HandleResetInv
<1>13. CASE DriverWakeup
  BY <1>13, DriverWakeupInv
<1>14. CASE Execute
  BY <1>14, ExecuteInv
<1>15. CASE Reset
  BY <1>15, ResetInv
<1>16. CASE Press
  BY <1>16, PressInv
<1>17. CASE AddPoint
  BY <1>17, AddPointInv
<1>18. CASE DropPacket
  BY <1>18, DropPacketInv
<1>19. CASE UNCHANGED vars
  <2>1. UNCHANGED <<is_busy, LED_status, button_status, tx_buf, pc, cmd, arg, led, room, buf, out,
                    packets, leds, mode, bioc, pressed, resets, missed, unseen, drops, dropped>>
    BY <1>19 DEF vars
  <2>2. Going' = Going /\ Command' = Command /\ Word' = Word /\ Sending' = Sending /\ Unsent' = Unsent
    BY <2>1 DEF Going, Command, Word, Sending, Unsent
  <2>3. TypeOK' /\ Places' /\ Converted'
    BY <2>1, <2>2 DEF CtlInv, TypeOK, Places, Converted
  <2>4. RoomLeft'
    BY <2>1, <2>2 DEF CtlInv, RoomLeft, Handled, Load
  <2>5. ModeComes' /\ LedsCome' /\ EventsTell' /\ Joined(out)' /\ AnswerComes'
    BY <2>1, <2>2 DEF CtlInv, ModeComes, LedsCome, EventsTell, ResetUnanswered, AnswerComes,
                      AnswerLost
  <2>. QED
    BY <2>3, <2>4, <2>5 DEF CtlInv
<1>. QED
  BY <1>1, <1>2, <1>3, <1>4, <1>5, <1>6, <1>7, <1>8, <1>9, <1>10, <1>11, <1>12, <1>13, <1>14,
     <1>15, <1>16, <1>17, <1>18, <1>19 DEF Next, tuxctl_ioctl, Step, Handler, tuxctl_handle_packet

\* The inductive invariant of the driver and its line discipline: where the bytes of a command
\* are while tuxctl_ioctl, the handlers and the serial driver pass them on, that none is cut
\* off, and what the controller will show and tell when it has heard them.
THEOREM CtlInvCorrect == Spec => []CtlInv
BY CtlInit, CtlStep, PTL DEF Spec

\* The driver's and the controller's variables keep their types: what is put into tx_buf by
\* tuxctl_ldisc_put fits, and so does what is written to the serial driver.
THEOREM TypeCorrect == Spec => []TypeOK
<1>1. CtlInv => TypeOK
  BY DEF CtlInv
<1>. QED
  BY <1>1, CtlInvCorrect, PTL

\* tuxctl_ioctl and the answer to a reset never mix the bytes of their commands, though the
\* handler interrupts the ioctl between tuxctl_ldisc_put and its write.
THEOREM CommandsWholeCorrect == Spec => []CommandsWhole
<1>1. CtlInv => CommandsWhole
  BY DEF CtlInv, Joined, IsSet, CommandsWhole
<1>. QED
  BY <1>1, CtlInvCorrect, PTL

\* When all is done the LEDs show what the program last asked TUX_SET_LED for, whenever the
\* controller was reset, unless the driver refused the call as busy, answered the reset
\* without the LEDs or was never told of it.
THEOREM LedsFollowCorrect == Spec => []LedsFollow
<1>1. ASSUME CtlInv, Quiet, ~missed, "MTCP_RESET" \notin dropped
      PROVE  mode = "user" /\ leds = LED_status
  <2>1. pc = "idle" /\ tx_buf = <<>> /\ out = <<>> /\ packets = <<>>
    BY <1>1 DEF Quiet
  <2>2. Len(<<>>) = 0
    BY EmptySeq
  <2>3. ~ResetUnanswered /\ ~UserModeIn(out)
    BY <1>1, <2>1, <2>2 DEF ResetUnanswered, Awaits, UserModeIn
  <2>4. cmd = "none" /\ ~Unsent
    BY <1>1, <2>1 DEF CtlInv, Places, Unsent, Going
  <2>5. mode = "user"
    BY <1>1, <2>1, <2>3, <2>4 DEF CtlInv, ModeComes
  <2>6. Ends(out, leds, LED_status)
    BY <1>1, <2>1, <2>3 DEF CtlInv, LedsCome
  <2>7. leds = LED_status
    BY <2>1, <2>2, <2>6 DEF Ends
  <2>. QED
    BY <2>5, <2>7
<1>2. CtlInv => LedsFollow
  BY <1>1 DEF LedsFollow
<1>. QED
  BY <1>2, CtlInvCorrect, PTL

\* When the packets are handled, TUX_BUTTONS tells of each button whether it is down, unless it
\* changed while the controller was not to send events, or the event was lost.
THEOREM ButtonsFollowCorrect == Spec => []ButtonsFollow
<1>1. ASSUME CtlInv, packets = <<>>, ~unseen, NEW n \in DOMAIN BitOf
      PROVE  HasBit(button_status, BitOf[n]) <=> n \notin pressed
  <2>1. Tells(packets, button_status, Event(pressed)) /\ Len(<<>>) = 0
    BY <1>1, EmptySeq DEF CtlInv, EventsTell
  <2>2. button_status = StatusOf(Event(pressed).b, Event(pressed).c)
    BY <1>1, <2>1 DEF Tells
  <2>3. HasBit(StatusOf(Event(pressed).b, Event(pressed).c), BitOf[n]) <=> n \notin pressed
    BY <1>1, PressedTells DEF CtlInv
  <2>. QED
    BY <2>2, <2>3
<1>2. CtlInv => ButtonsFollow
  BY <1>1 DEF ButtonsFollow
<1>. QED
  BY <1>2, CtlInvCorrect, PTL

\* A busy driver, which refuses TUX_SET_LED, has something to come that frees it: a command, an
\* acknowledgement or a reset, in tx_buf, at the serial driver or among the packets.  Only a
\* packet that was lost leaves it busy with nothing to come.
THEOREM BusyAnsweredCorrect == Spec => []BusyAnswered
<1>1. CtlInv => BusyAnswered
  BY DEF CtlInv, AnswerComes, BusyAnswered, AnswerDue, Unsent, Going, Commanding, Answering, Freeing
<1>. QED
  BY <1>1, CtlInvCorrect, PTL
=============================================================================
