----------------------------- MODULE FileProofs -----------------------------
(***************************************************************************)
(* The file system implements Streams for every image, block size, set of  *)
(* processes and sequence of calls: the arithmetic of read_data's blocks,  *)
(* the invariant of its loop, and the refinement.  Programs that cat and   *)
(* ls files get what they asked for: the invariant of their loops, which   *)
(* rests on Streams and not on blocks.                                     *)
(***************************************************************************)
EXTENDS Programs, SequenceTheorems, WellFoundedInduction, TLAPS

(* Arithmetic of blocks. *)

LEMMA DivMod ==
  ASSUME NEW B \in Nat \ {0}, NEW x \in Nat
  PROVE  /\ x \div B \in Nat
         /\ x % B \in 0 .. B - 1
         /\ x = (x \div B) * B + (x % B)
OBVIOUS

LEMMA DivModUnique ==
  ASSUME NEW B \in Nat \ {0}, NEW i \in Nat, NEW m \in 0 .. B - 1
  PROVE  /\ (i * B + m) \div B = i
         /\ (i * B + m) % B = m
OBVIOUS

LEMMA MulLess ==
  ASSUME NEW B \in Nat \ {0}, NEW i \in Nat, NEW j \in Nat, i < j
  PROVE  i * B + B <= j * B
<1>1. (j - i - 1) * B >= 0
  OBVIOUS
<1>. QED
  BY <1>1

LEMMA DivMonotonic ==
  ASSUME NEW B \in Nat \ {0}, NEW x \in Nat, NEW y \in Nat, x <= y
  PROVE  x \div B <= y \div B
<1>. SUFFICES ASSUME y \div B < x \div B PROVE FALSE
  BY DivMod
<1>1. (y \div B) * B + B <= (x \div B) * B
  BY DivMod, MulLess
<1>. QED
  BY <1>1, DivMod

\* The blocks that a read of len bytes from off begins and ends in.
LEMMA Span ==
  ASSUME NEW off \in Nat, NEW len \in Nat
  PROVE  /\ off \div BLOCK_SIZE \in Nat
         /\ off % BLOCK_SIZE \in 0 .. BLOCK_SIZE - 1
         /\ off = (off \div BLOCK_SIZE) * BLOCK_SIZE + (off % BLOCK_SIZE)
         /\ (len + off) \div BLOCK_SIZE \in Nat
         /\ (len + off) % BLOCK_SIZE \in 0 .. BLOCK_SIZE - 1
         /\ len + off = ((len + off) \div BLOCK_SIZE) * BLOCK_SIZE + ((len + off) % BLOCK_SIZE)
         /\ off \div BLOCK_SIZE <= (len + off) \div BLOCK_SIZE
<1>1. BLOCK_SIZE \in Nat \ {0} /\ len + off \in Nat /\ off <= len + off
  BY SizeAssumption
<1>2. off \div BLOCK_SIZE <= (len + off) \div BLOCK_SIZE
  BY <1>1, DivMonotonic
<1>. QED
  BY <1>1, <1>2, DivMod

\* Products of block numbers, as far as comparisons of the numbers decide them.
LEMMA Products ==
  ASSUME NEW i \in Nat, NEW j \in Nat
  PROVE  /\ i * BLOCK_SIZE \in Nat
         /\ (i + 1) * BLOCK_SIZE = i * BLOCK_SIZE + BLOCK_SIZE
         /\ i = j => i * BLOCK_SIZE = j * BLOCK_SIZE
         /\ i < j => i * BLOCK_SIZE + BLOCK_SIZE <= j * BLOCK_SIZE
<1>1. BLOCK_SIZE \in Nat \ {0}
  BY SizeAssumption
<1>2. i < j => i * BLOCK_SIZE + BLOCK_SIZE <= j * BLOCK_SIZE
  BY <1>1, MulLess
<1>. QED
  BY <1>1, <1>2

\* How many bytes a read of len bytes from off has when it comes to block i.
DoneAt(off, len, i) ==
  IF i = off \div BLOCK_SIZE THEN 0
  ELSE IF i > (len + off) \div BLOCK_SIZE THEN len
  ELSE i * BLOCK_SIZE - off

\* The part of block i that a round delivers.
Lo(off, i) == IF i = off \div BLOCK_SIZE THEN off % BLOCK_SIZE ELSE 0
Hi(off, len, i) ==
  IF i = (len + off) \div BLOCK_SIZE THEN (len + off) % BLOCK_SIZE ELSE BLOCK_SIZE

\* A round goes on where the last one ended.
LEMMA RoundCounts ==
  ASSUME NEW off \in Nat, NEW len \in Nat, NEW i \in Nat,
         off \div BLOCK_SIZE <= i, i <= (len + off) \div BLOCK_SIZE
  PROVE  /\ Lo(off, i) \in 0 .. BLOCK_SIZE /\ Hi(off, len, i) \in 0 .. BLOCK_SIZE
         /\ Lo(off, i) <= Hi(off, len, i)
         /\ DoneAt(off, len, i) \in Nat
         /\ off + DoneAt(off, len, i) = i * BLOCK_SIZE + Lo(off, i)
         /\ DoneAt(off, len, i + 1) = DoneAt(off, len, i) + (Hi(off, len, i) - Lo(off, i))
<1>. DEFINE s == off \div BLOCK_SIZE
            e == (len + off) \div BLOCK_SIZE
            x == off % BLOCK_SIZE
            y == (len + off) % BLOCK_SIZE
            SB == s * BLOCK_SIZE
            EB == e * BLOCK_SIZE
            IB == i * BLOCK_SIZE
            NB == (i + 1) * BLOCK_SIZE
<1>1. BLOCK_SIZE \in Nat \ {0} /\ s <= i /\ i <= e
  BY SizeAssumption
<1>2. /\ s \in Nat /\ x \in 0 .. BLOCK_SIZE - 1 /\ off = SB + x
      /\ e \in Nat /\ y \in 0 .. BLOCK_SIZE - 1 /\ len + off = EB + y
  BY Span
<1>3. /\ IB \in Nat /\ SB \in Nat /\ EB \in Nat /\ NB = IB + BLOCK_SIZE
      /\ i = s => IB = SB
      /\ i = e => IB = EB
      /\ s < i => SB + BLOCK_SIZE <= IB
      /\ i < e => IB + BLOCK_SIZE <= EB
  BY <1>2, Products
<1>4. /\ Lo(off, i) = IF i = s THEN x ELSE 0
      /\ Hi(off, len, i) = IF i = e THEN y ELSE BLOCK_SIZE
      /\ DoneAt(off, len, i) = IF i = s THEN 0 ELSE IF i > e THEN len ELSE IB - off
      /\ DoneAt(off, len, i + 1) =
           IF i + 1 = s THEN 0 ELSE IF i + 1 > e THEN len ELSE NB - off
  BY DEF Lo, Hi, DoneAt
<1>5. /\ Lo(off, i) \in 0 .. BLOCK_SIZE /\ Hi(off, len, i) \in 0 .. BLOCK_SIZE
      /\ Lo(off, i) <= Hi(off, len, i)
      /\ DoneAt(off, len, i) \in Nat
      /\ off + DoneAt(off, len, i) = IB + Lo(off, i)
      /\ DoneAt(off, len, i + 1) = DoneAt(off, len, i) + (Hi(off, len, i) - Lo(off, i))
  <2>. HIDE DEF s, e, x, y, SB, EB, IB, NB
  <2>1. CASE i = s /\ i = e
    BY <1>1, <1>2, <1>3, <1>4, <2>1
  <2>2. CASE i = s /\ i < e
    BY <1>1, <1>2, <1>3, <1>4, <2>2
  <2>3. CASE s < i /\ i = e
    BY <1>1, <1>2, <1>3, <1>4, <2>3
  <2>4. CASE s < i /\ i < e
    BY <1>1, <1>2, <1>3, <1>4, <2>4
  <2>. QED
    BY <1>1, <1>2, <2>1, <2>2, <2>3, <2>4
<1>. QED
  BY <1>5

\* Block i of a file begins before its end.
LEMMA BlockInFile ==
  ASSUME NEW inode \in Inodes, NEW i \in Nat
  PROVE  /\ FileLength[inode] \in Nat
         /\ FileSize(inode) \in Nat
         /\ i < FileSize(inode) <=> i * BLOCK_SIZE < FileLength[inode]
         /\ i < FileSize(inode) => i \in 0 .. N_BLOCKS - 1
<1>. DEFINE L == FileLength[inode]
            d == L \div BLOCK_SIZE
            m == L % BLOCK_SIZE
            IB == i * BLOCK_SIZE
            DB == d * BLOCK_SIZE
            MB == N_BLOCKS * BLOCK_SIZE
<1>1. BLOCK_SIZE \in Nat \ {0} /\ L \in Nat /\ N_BLOCKS \in Nat /\ L <= MB
  BY SizeAssumption, ImageAssumption
<1>2. d \in Nat /\ m \in 0 .. BLOCK_SIZE - 1 /\ L = DB + m
  BY <1>1, DivMod
<1>3. /\ IB \in Nat /\ DB \in Nat /\ MB \in Nat
      /\ i < d => IB + BLOCK_SIZE <= DB
      /\ i = d => IB = DB
      /\ d < i => DB + BLOCK_SIZE <= IB
      /\ N_BLOCKS = i => MB = IB
      /\ N_BLOCKS < i => MB + BLOCK_SIZE <= IB
  BY <1>1, <1>2, Products
<1>4. FileSize(inode) = d + (IF m # 0 THEN 1 ELSE 0)
  BY DEF FileSize
<1>5. /\ L \in Nat
      /\ FileSize(inode) \in Nat
      /\ i < FileSize(inode) <=> IB < L
      /\ i < FileSize(inode) => i \in 0 .. N_BLOCKS - 1
  <2>. HIDE DEF L, d, m, IB, DB, MB
  <2>. QED
    BY <1>1, <1>2, <1>3, <1>4
<1>. QED
  BY <1>5

\* When the loop ends, for either reason, everything has been delivered.
LEMMA LoopDone ==
  ASSUME NEW inode \in Inodes, NEW off \in Nat, NEW len \in Nat, NEW i \in Nat,
         off + len <= FileLength[inode], off \div BLOCK_SIZE <= i,
         i > (len + off) \div BLOCK_SIZE \/ i >= FileSize(inode)
  PROVE  DoneAt(off, len, i) = len
<1>. DEFINE s == off \div BLOCK_SIZE
            e == (len + off) \div BLOCK_SIZE
            SB == s * BLOCK_SIZE
            EB == e * BLOCK_SIZE
            IB == i * BLOCK_SIZE
<1>1. /\ s \in Nat /\ off % BLOCK_SIZE \in 0 .. BLOCK_SIZE - 1 /\ off = SB + (off % BLOCK_SIZE)
      /\ e \in Nat /\ (len + off) % BLOCK_SIZE \in 0 .. BLOCK_SIZE - 1
      /\ len + off = EB + ((len + off) % BLOCK_SIZE) /\ s <= e /\ s <= i
  BY Span
<1>2. /\ BLOCK_SIZE \in Nat /\ SB \in Nat /\ EB \in Nat /\ IB \in Nat
      /\ i = s => IB = SB
      /\ i = e => IB = EB
      /\ i < e => IB + BLOCK_SIZE <= EB
  BY <1>1, Products, SizeAssumption
<1>3. i > e \/ FileLength[inode] <= IB
  BY BlockInFile, <1>2
<1>4. FileLength[inode] \in Nat /\ (i > e \/ i <= e)
  BY BlockInFile, <1>1
<1>5. DoneAt(off, len, i) = IF i = s THEN 0 ELSE IF i > e THEN len ELSE IB - off
  BY DEF DoneAt
<1>. HIDE DEF s, e, SB, EB, IB
<1>. QED
  BY <1>1, <1>2, <1>3, <1>4, <1>5

\* Before that it is never too much.
LEMMA DoneBounded ==
  ASSUME NEW off \in Nat, NEW len \in Nat, NEW i \in Nat, off \div BLOCK_SIZE <= i
  PROVE  DoneAt(off, len, i) \in Nat /\ DoneAt(off, len, i) <= len
<1>. DEFINE s == off \div BLOCK_SIZE
            e == (len + off) \div BLOCK_SIZE
            SB == s * BLOCK_SIZE
            EB == e * BLOCK_SIZE
            IB == i * BLOCK_SIZE
<1>1. /\ s \in Nat /\ off % BLOCK_SIZE \in 0 .. BLOCK_SIZE - 1 /\ off = SB + (off % BLOCK_SIZE)
      /\ e \in Nat /\ (len + off) % BLOCK_SIZE \in 0 .. BLOCK_SIZE - 1
      /\ len + off = EB + ((len + off) % BLOCK_SIZE) /\ s <= i
  BY Span
<1>2. /\ BLOCK_SIZE \in Nat /\ SB \in Nat /\ EB \in Nat /\ IB \in Nat
      /\ s < i => SB + BLOCK_SIZE <= IB
      /\ i = e => IB = EB
      /\ i < e => IB + BLOCK_SIZE <= EB
  BY <1>1, Products, SizeAssumption
<1>3. DoneAt(off, len, i) = IF i = s THEN 0 ELSE IF i > e THEN len ELSE IB - off
  BY DEF DoneAt
<1>. HIDE DEF s, e, SB, EB, IB
<1>. QED
  BY <1>1, <1>2, <1>3

-----------------------------------------------------------------------------
(* Names. *)

\* A string that read_dentry_by_name accepts for an entry is the entry's name.
LEMMA MatchesName ==
  ASSUME NEW e \in Entries, NEW fname \in Seq(Chars), Matches(fname, e)
  PROVE  fname = NameOf(e)
<1>. DEFINE n == Len(fname)
<1>1. n \in 0 .. STR_LEN
  BY SizeAssumption DEF Matches
<1>2. \A k \in 0 .. n - 1 : fname[k + 1] \in Chars /\ Dentry[e].name[k] = fname[k + 1]
  BY <1>1 DEF Matches
<1>3. EndsAt(e, n)
  <2>1. n = STR_LEN \/ Dentry[e].name[n] = NUL
    BY <1>1, SizeAssumption DEF Matches
  <2>2. \A k \in 0 .. n - 1 : Dentry[e].name[k] # NUL
    BY <1>2, NamesAssumption
  <2>. QED
    BY <2>1, <2>2 DEF EndsAt
<1>4. ASSUME NEW m \in 0 .. STR_LEN, EndsAt(e, m) PROVE m = n
  <2>1. ~(m < n)
    <3>. SUFFICES ASSUME m < n PROVE FALSE
      OBVIOUS
    <3>1. m \in 0 .. n - 1 /\ m # STR_LEN
      BY <1>1
    <3>. QED
      BY <1>2, <1>4, <3>1, NamesAssumption DEF EndsAt
  <2>2. ~(n < m)
    <3>. SUFFICES ASSUME n < m PROVE FALSE
      OBVIOUS
    <3>1. n \in 0 .. m - 1 /\ n # STR_LEN
      BY <1>1
    <3>. QED
      BY <1>3, <1>4, <3>1 DEF EndsAt
  <2>. QED
    BY <1>1, <2>1, <2>2
<1>5. (CHOOSE m \in 0 .. STR_LEN : EndsAt(e, m)) = n
  BY <1>1, <1>3, <1>4
<1>6. NameOf(e) = [k \in 1 .. n |-> Dentry[e].name[k - 1]]
  BY <1>5 DEF NameOf
<1>7. \A k \in 1 .. n : fname[k] = Dentry[e].name[k - 1]
  <2>. SUFFICES ASSUME NEW k \in 1 .. n PROVE fname[k] = Dentry[e].name[k - 1]
    OBVIOUS
  <2>1. k - 1 \in 0 .. n - 1 /\ (k - 1) + 1 = k
    BY <1>1
  <2>. QED
    BY <1>2, <2>1
<1>8. fname = [k \in 1 .. n |-> fname[k]]
  BY LenProperties
<1>. QED
  BY <1>6, <1>7, <1>8

\* A round delivers the bytes of the file from where the last one ended.
LEMMA SegmentBytes ==
  ASSUME NEW inode \in Inodes, NEW off \in Nat, NEW len \in Nat, NEW i \in Nat,
         off \div BLOCK_SIZE <= i, i <= (len + off) \div BLOCK_SIZE,
         i < FileSize(inode), IdxBlock[inode][i] < n_data_block_b
  PROVE  \A k \in 1 .. Hi(off, len, i) - Lo(off, i) :
           /\ Data[IdxBlock[inode][i]][Lo(off, i) + k - 1] \in Bytes
           /\ Data[IdxBlock[inode][i]][Lo(off, i) + k - 1]
                = ByteAt(inode, off + (DoneAt(off, len, i) + k) - 1)
<1>. DEFINE b == IdxBlock[inode][i]
            lo == Lo(off, i)
            hi == Hi(off, len, i)
            done == DoneAt(off, len, i)
<1>1. b \in Blocks /\ Data[b] \in [0 .. BLOCK_SIZE - 1 -> Bytes]
  <2>1. i \in 0 .. N_BLOCKS - 1
    BY BlockInFile
  <2>2. IdxBlock[inode] \in [0 .. N_BLOCKS - 1 -> Nat]
    BY ImageAssumption
  <2>3. b \in Nat
    BY <2>1, <2>2
  <2>4. b \in Blocks
    BY <2>3, SizeAssumption DEF Blocks
  <2>. QED
    BY <2>4, ImageAssumption
<1>2. /\ lo \in 0 .. BLOCK_SIZE /\ hi \in 0 .. BLOCK_SIZE
      /\ done \in Nat /\ off + done = i * BLOCK_SIZE + lo
  BY RoundCounts
<1>3. BLOCK_SIZE \in Nat \ {0} /\ i * BLOCK_SIZE \in Nat
  BY SizeAssumption
<1>. SUFFICES ASSUME NEW k \in 1 .. hi - lo
              PROVE  /\ Data[b][lo + k - 1] \in Bytes
                     /\ Data[b][lo + k - 1] = ByteAt(inode, off + (done + k) - 1)
  OBVIOUS
<1>. HIDE DEF b, lo, hi, done
<1>4. lo + k - 1 \in 0 .. BLOCK_SIZE - 1 /\ off + (done + k) - 1 = i * BLOCK_SIZE + (lo + k - 1)
  BY <1>2, <1>3
<1>5. /\ (i * BLOCK_SIZE + (lo + k - 1)) \div BLOCK_SIZE = i
      /\ (i * BLOCK_SIZE + (lo + k - 1)) % BLOCK_SIZE = lo + k - 1
  BY <1>3, <1>4, DivModUnique
<1>6. ByteAt(inode, off + (done + k) - 1) = Data[b][lo + k - 1]
  BY <1>4, <1>5 DEF ByteAt, b
<1>. QED
  BY <1>1, <1>4, <1>6

LEMMA Extended ==
  ASSUME NEW S, NEW buf \in Seq(S), NEW seg \in Seq(S)
  PROVE  /\ buf \o seg \in Seq(S)
         /\ Len(buf \o seg) = Len(buf) + Len(seg)
         /\ \A k \in 1 .. Len(buf) : (buf \o seg)[k] = buf[k]
         /\ \A k \in 1 .. Len(seg) : (buf \o seg)[Len(buf) + k] = seg[k]
<1>1. Len(buf) \in Nat /\ Len(seg) \in Nat
  OBVIOUS
<1>2. /\ buf \o seg \in Seq(S)
      /\ Len(buf \o seg) = Len(buf) + Len(seg)
      /\ \A k \in 1 .. Len(buf) + Len(seg) :
           (buf \o seg)[k] = IF k <= Len(buf) THEN buf[k] ELSE seg[k - Len(buf)]
  BY ConcatProperties
<1>3. ASSUME NEW k \in 1 .. Len(seg) PROVE (buf \o seg)[Len(buf) + k] = seg[k]
  <2>1. /\ Len(buf) + k \in 1 .. Len(buf) + Len(seg)
        /\ ~(Len(buf) + k <= Len(buf)) /\ (Len(buf) + k) - Len(buf) = k
    BY <1>1
  <2>. QED
    BY <1>2, <2>1
<1>. QED
  BY <1>1, <1>2, <1>3

-----------------------------------------------------------------------------
(* The invariant. *)

\* A descriptor in use belongs to the entry it was opened by name for.
GoodDescriptor(f) ==
  /\ f.type = "unuse" => f = Free
  /\ f.type # "unuse" =>
       /\ f.name \in Seq(Chars)
       /\ \E e \in Entries : /\ f.name = NameOf(e)
                             /\ f.type = Dentry[e].type
                             /\ f.inode = Dentry[e].inode
  /\ f.type = "reg" => f.pos <= FileLength[f.inode]
  /\ f.type = "dir" => f.pos <= n_dentry_b

\* A read in progress: how much it may deliver, how much it has delivered when
\* it comes to block i, and that these are the bytes of the file.
\* BufferFollowsFile alone does not say how far the buffer is at a block, so
\* the next round could leave a gap.
GoodRead(r, f) ==
  /\ f.type = "reg" /\ r.fd \in Fds /\ r.asked \in NBYTES
  /\ r.offset = f.pos
  /\ r.length = Clip(f.inode, f.pos, r.asked)
  /\ r.offset \div BLOCK_SIZE <= r.i
  /\ Len(r.buf) = DoneAt(r.offset, r.length, r.i)
  /\ \A k \in 1 .. Len(r.buf) : r.buf[k] = ByteAt(f.inode, r.offset + k - 1)

Descriptors == \A p \in Procs, fd \in Fds : GoodDescriptor(file_array[p][fd])
Reads == \A p \in Procs : pc[p] = "loop" => GoodRead(local[p], file_array[p][local[p].fd])

FileInv == TypeOK /\ Descriptors /\ Reads

LEMMA RegFact ==
  ASSUME NEW f \in Descriptor, GoodDescriptor(f), f.type = "reg"
  PROVE  /\ f.inode \in Inodes /\ FileLength[f.inode] \in Nat
         /\ f.pos \in Nat /\ f.pos <= FileLength[f.inode]
<1>1. f.inode \in Inodes
  BY ImageAssumption DEF GoodDescriptor
<1>. QED
  BY <1>1, ImageAssumption DEF GoodDescriptor, Descriptor

\* file_read asks read_data for what the caller wants or the file has left.
LEMMA ClipFact ==
  ASSUME NEW inode \in Inodes, NEW pos \in Nat, pos <= FileLength[inode], NEW n \in NBYTES
  PROVE  /\ n \in Nat
         /\ Clip(inode, pos, n) \in Nat
         /\ pos + Clip(inode, pos, n) <= FileLength[inode]
         /\ Clip(inode, pos, n) = IF n < FileLength[inode] - pos THEN n
                                  ELSE FileLength[inode] - pos
<1>1. n \in Nat /\ FileLength[inode] \in Nat
  BY RequestAssumption, ImageAssumption
<1>. QED
  BY <1>1 DEF Clip

LEMMA NulNotName == <<NUL>> \in Seq(Chars \cup {NUL}) /\ <<NUL>> \notin Seq(Chars)
<1>1. <<NUL>> \in Seq(Chars \cup {NUL})
  OBVIOUS
<1>2. <<NUL>> \notin Seq(Chars)
  <2>. SUFFICES ASSUME <<NUL>> \in Seq(Chars) PROVE FALSE
    OBVIOUS
  <2>1. <<NUL>>[1] \in Chars
    OBVIOUS
  <2>. QED
    BY <2>1, NamesAssumption
<1>. QED
  BY <1>1, <1>2

LEMMA FreeFact == Free \in Descriptor /\ GoodDescriptor(Free)
  BY NulNotName DEF Free, Descriptor, GoodDescriptor, Types

\* Storing a good descriptor.
LEMMA DescriptorStored ==
  ASSUME TypeOK, Descriptors, NEW p \in Procs, NEW fd \in Fds,
         NEW f \in Descriptor, GoodDescriptor(f),
         file_array' = [file_array EXCEPT ![p][fd] = f]
  PROVE  /\ file_array' \in [Procs -> [Fds -> Descriptor]]
         /\ Descriptors'
         /\ \A q \in Procs : q # p => file_array'[q] = file_array[q]
         /\ file_array'[p][fd] = f
<1>1. file_array' \in [Procs -> [Fds -> Descriptor]]
  BY DEF TypeOK
<1>2. \A q \in Procs, d \in Fds :
        file_array'[q][d] = IF q = p /\ d = fd THEN f ELSE file_array[q][d]
  BY DEF TypeOK
<1>3. \A q \in Procs : q # p => file_array'[q] = file_array[q]
  BY DEF TypeOK
<1>4. \A q \in Procs, d \in Fds : GoodDescriptor(file_array'[q][d])
  BY <1>2 DEF Descriptors
<1>. QED
  BY <1>1, <1>2, <1>3, <1>4 DEF Descriptors

\* A read moves the position inside the file.
LEMMA Moved ==
  ASSUME NEW f \in Descriptor, GoodDescriptor(f), f.type # "unuse", NEW n \in Nat,
         f.type = "reg" => n <= FileLength[f.inode],
         f.type = "dir" => n <= n_dentry_b
  PROVE  [f EXCEPT !.pos = n] \in Descriptor /\ GoodDescriptor([f EXCEPT !.pos = n])
<1>. DEFINE g == [f EXCEPT !.pos = n]
<1>1. g.type = f.type /\ g.name = f.name /\ g.inode = f.inode /\ g.pos = n
  BY DEF Descriptor
<1>2. g \in Descriptor
  BY DEF Descriptor
<1>. HIDE DEF g
<1>3. GoodDescriptor(g)
  BY <1>1 DEF GoodDescriptor
<1>. QED
  BY <1>2, <1>3 DEF g

LEMMA DeadFact ==
  Dead \in [fd : Fds \cup {0}, asked : NBYTES \cup {0}, offset : Nat,
            length : Nat, i : Nat, buf : Seq(Bytes)]
<1>1. <<>> \in Seq(Bytes)
  OBVIOUS
<1>. QED
  BY <1>1 DEF Dead

LEMMA InitInv == Init => FileInv
<1>. SUFFICES ASSUME Init PROVE FileInv
  OBVIOUS
<1>1. TypeOK
  BY FreeFact, SizeAssumption DEF Init, TypeOK, Dead
<1>2. Descriptors
  BY FreeFact DEF Init, Descriptors
<1>3. Reads
  BY DEF Init, Reads
<1>. QED
  BY <1>1, <1>2, <1>3 DEF FileInv

LEMMA OpenInv ==
  ASSUME FileInv, NEW p \in Procs, NEW fname \in FNames, Open(p, fname)
  PROVE  FileInv'
<1>1. PICK e \in Entries, fd \in Fds :
        /\ Matches(fname, e)
        /\ file_array' = [file_array EXCEPT ![p][fd] =
             [type |-> Dentry[e].type, name |-> fname, inode |-> Dentry[e].inode, pos |-> 0]]
  BY DEF Open, IsFound
<1>. DEFINE f == [type |-> Dentry[e].type, name |-> fname, inode |-> Dentry[e].inode, pos |-> 0]
<1>2. /\ fname \in Seq(Chars) /\ fname \in Seq(Chars \cup {NUL})
      /\ fname = NameOf(e)
      /\ Dentry[e].type \in Types /\ Dentry[e].inode \in Nat
  <2>1. fname \in Seq(Chars)
    BY NamesAssumption
  <2>2. fname \in Seq(Chars \cup {NUL})
    BY <2>1, SeqMonotonic
  <2>3. fname = NameOf(e)
    BY <1>1, <2>1, MatchesName
  <2>. QED
    BY <2>1, <2>2, <2>3, ImageAssumption
<1>3. f \in Descriptor
  BY <1>2 DEF Descriptor
<1>4. Dentry[e].type = "reg" => FileLength[Dentry[e].inode] >= 0
  BY ImageAssumption
<1>5. GoodDescriptor(f)
  BY <1>2, <1>4, SizeAssumption DEF GoodDescriptor, Types
<1>6. /\ file_array' \in [Procs -> [Fds -> Descriptor]]
      /\ Descriptors'
      /\ \A q \in Procs : q # p => file_array'[q] = file_array[q]
  BY <1>1, <1>3, <1>5, DescriptorStored DEF FileInv
<1>7. TypeOK'
  BY <1>6 DEF FileInv, TypeOK, Open
<1>8. Reads'
  BY <1>6 DEF FileInv, Reads, Open
<1>. QED
  BY <1>6, <1>7, <1>8 DEF FileInv

LEMMA CloseInv ==
  ASSUME FileInv, NEW p \in Procs, NEW fd \in Fds, Close(p, fd)
  PROVE  FileInv'
<1>1. /\ file_array' \in [Procs -> [Fds -> Descriptor]]
      /\ Descriptors'
      /\ \A q \in Procs : q # p => file_array'[q] = file_array[q]
  BY FreeFact, DescriptorStored DEF FileInv, Close
<1>2. TypeOK'
  BY <1>1 DEF FileInv, TypeOK, Close
<1>3. Reads'
  BY <1>1 DEF FileInv, Reads, Close
<1>. QED
  BY <1>1, <1>2, <1>3 DEF FileInv

LEMMA DescriptorOf ==
  ASSUME FileInv, NEW p \in Procs, NEW fd \in Fds
  PROVE  file_array[p][fd] \in Descriptor /\ GoodDescriptor(file_array[p][fd])
BY DEF FileInv, TypeOK, Descriptors

\* The read of a process that runs alone leaves the others' reads alone.
LEMMA ReadsKept ==
  ASSUME FileInv, NEW p \in Procs, UNCHANGED file_array,
         \A q \in Procs : q # p => pc'[q] = pc[q] /\ local'[q] = local[q],
         pc'[p] = "loop" => GoodRead(local'[p], file_array[p][local'[p].fd])
  PROVE  Reads'
<1>1. \A q \in Procs : pc'[q] = "loop" => GoodRead(local'[q], file_array'[q][local'[q].fd])
  BY DEF FileInv, Reads
<1>. QED
  BY <1>1 DEF Reads

LEMMA FileReadInv ==
  ASSUME FileInv, NEW p \in Procs, NEW fd \in Fds, NEW nbytes \in NBYTES,
         FileRead(p, fd, nbytes)
  PROVE  FileInv'
<1>. DEFINE f == file_array[p][fd]
            r == [fd |-> fd, asked |-> nbytes, offset |-> f.pos,
                  length |-> Clip(f.inode, f.pos, nbytes), i |-> f.pos \div BLOCK_SIZE,
                  buf |-> <<>>]
<1>1. /\ f.type = "reg" /\ UNCHANGED <<file_array, got>>
      /\ local' = [local EXCEPT ![p] = r] /\ pc' = [pc EXCEPT ![p] = "loop"]
  BY DEF FileRead
<1>2. /\ f.inode \in Inodes /\ f.pos \in Nat /\ f.pos <= FileLength[f.inode]
      /\ Clip(f.inode, f.pos, nbytes) \in Nat
      /\ f.pos \div BLOCK_SIZE \in Nat
  BY <1>1, DescriptorOf, RegFact, ClipFact, DivMod, SizeAssumption
<1>3. r \in [fd : Fds \cup {0}, asked : NBYTES \cup {0}, offset : Nat,
             length : Nat, i : Nat, buf : Seq(Bytes)]
  BY <1>2
<1>4. GoodRead(r, f)
  BY <1>1, <1>2 DEF GoodRead, DoneAt
<1>. HIDE DEF r
<1>5. /\ local'[p] = r /\ r.fd = fd
      /\ \A q \in Procs : q # p => pc'[q] = pc[q] /\ local'[q] = local[q]
  BY <1>1 DEF FileInv, TypeOK, r
<1>6. TypeOK'
  BY <1>1, <1>3 DEF FileInv, TypeOK
<1>7. Descriptors'
  BY <1>1 DEF FileInv, Descriptors
<1>8. Reads'
  BY <1>1, <1>4, <1>5, ReadsKept
<1>. QED
  BY <1>6, <1>7, <1>8 DEF FileInv

LEMMA ReadFact ==
  ASSUME FileInv, NEW p \in Procs, pc[p] = "loop"
  PROVE  /\ local[p].fd \in Fds /\ local[p].asked \in NBYTES /\ local[p].offset \in Nat
         /\ local[p].length \in Nat /\ local[p].i \in Nat /\ local[p].buf \in Seq(Bytes)
         /\ GoodRead(local[p], file_array[p][local[p].fd])
         /\ file_array[p][local[p].fd].type = "reg"
         /\ InodeOf(p) \in Inodes /\ FileLength[InodeOf(p)] \in Nat
         /\ local[p].offset = file_array[p][local[p].fd].pos
         /\ local[p].length = Clip(InodeOf(p), local[p].offset, local[p].asked)
         /\ local[p].offset + local[p].length <= FileLength[InodeOf(p)]
         /\ LoopEnds(p) => Len(local[p].buf) = local[p].length
<1>. DEFINE r == local[p]
            f == file_array[p][r.fd]
<1>1. r \in [fd : Fds \cup {0}, asked : NBYTES \cup {0}, offset : Nat,
             length : Nat, i : Nat, buf : Seq(Bytes)]
  BY DEF FileInv, TypeOK
<1>2. GoodRead(r, f)
  BY DEF FileInv, Reads
<1>3. r.fd \in Fds /\ r.asked \in NBYTES /\ f.type = "reg"
  BY <1>2 DEF GoodRead
<1>4. f.inode \in Inodes /\ FileLength[f.inode] \in Nat /\ f.pos \in Nat /\ f.pos <= FileLength[f.inode]
  BY <1>3, DescriptorOf, RegFact
<1>5. /\ r.offset = f.pos /\ r.length = Clip(f.inode, f.pos, r.asked)
      /\ r.offset \div BLOCK_SIZE <= r.i
      /\ Len(r.buf) = DoneAt(r.offset, r.length, r.i)
  BY <1>2 DEF GoodRead
<1>6. r.offset + r.length <= FileLength[f.inode]
  BY SMTT(30), <1>3, <1>4, <1>5, ClipFact
<1>7. LoopEnds(p) => Len(r.buf) = r.length
  BY <1>1, <1>4, <1>5, <1>6, LoopDone DEF LoopEnds, InodeOf
<1>. QED
  BY <1>1, <1>2, <1>3, <1>4, <1>5, <1>6, <1>7 DEF InodeOf

Local == [fd : Fds \cup {0}, asked : NBYTES \cup {0}, offset : Nat,
          length : Nat, i : Nat, buf : Seq(Bytes)]

\* What a round does to the locals of read_data.
Grown(r, seg) == [r EXCEPT !.i = @ + 1, !.buf = @ \o seg]

LEMMA GrownFact ==
  ASSUME NEW r \in Local, NEW seg, r.buf \o seg \in Seq(Bytes)
  PROVE  /\ Grown(r, seg) \in Local
         /\ Grown(r, seg).fd = r.fd /\ Grown(r, seg).asked = r.asked
         /\ Grown(r, seg).offset = r.offset /\ Grown(r, seg).length = r.length
         /\ Grown(r, seg).i = r.i + 1 /\ Grown(r, seg).buf = r.buf \o seg
<1>. DEFINE buf == r.buf \o seg
            g == [r EXCEPT !.i = @ + 1, !.buf = buf]
<1>1. r.i + 1 \in Nat /\ buf \in Seq(Bytes)
  BY DEF Local
<1>. HIDE DEF buf
<1>2. g \in Local /\ g.fd = r.fd /\ g.asked = r.asked /\ g.offset = r.offset
      /\ g.length = r.length /\ g.i = r.i + 1 /\ g.buf = buf
  BY <1>1 DEF Local
<1>. QED
  BY <1>2, Zenon DEF Grown, buf

\* The bytes that a round appends to the buffer.
Segment(r, inode) ==
  [k \in 1 .. EndIdx(r) - StartIdx(r) |-> Data[IdxBlock[inode][r.i]][StartIdx(r) + k - 1]]

LEMMA SegmentFact ==
  ASSUME NEW r \in Local, NEW inode \in Inodes,
         r.offset \div BLOCK_SIZE <= r.i, r.i <= (r.length + r.offset) \div BLOCK_SIZE,
         r.i < FileSize(inode), IdxBlock[inode][r.i] < n_data_block_b
  PROVE  /\ Segment(r, inode) \in Seq(Bytes)
         /\ Len(Segment(r, inode)) = Hi(r.offset, r.length, r.i) - Lo(r.offset, r.i)
         /\ \A k \in 1 .. Len(Segment(r, inode)) :
              Segment(r, inode)[k] = Data[IdxBlock[inode][r.i]][Lo(r.offset, r.i) + k - 1]
<1>1. r.offset \in Nat /\ r.length \in Nat /\ r.i \in Nat
  BY DEF Local
<1>. DEFINE lo == Lo(r.offset, r.i)
            hi == Hi(r.offset, r.length, r.i)
            byte(k) == Data[IdxBlock[inode][r.i]][lo + k - 1]
            seg == [k \in 1 .. hi - lo |-> byte(k)]
<1>2. Segment(r, inode) = seg
  BY DEF Segment, StartIdx, EndIdx, Lo, Hi
<1>3. lo \in Nat /\ hi - lo \in Nat
  <2>1. lo \in 0 .. BLOCK_SIZE /\ hi \in 0 .. BLOCK_SIZE /\ lo <= hi
    BY <1>1, RoundCounts
  <2>. QED
    BY <2>1, SizeAssumption
<1>4. \A k \in 1 .. hi - lo : byte(k) \in Bytes
  BY <1>1, SegmentBytes
<1>. HIDE DEF lo, hi, byte
<1>5. seg \in [1 .. hi - lo -> Bytes]
  BY <1>4
<1>6. seg \in Seq(Bytes) /\ Len(seg) = hi - lo
  BY ONLY <1>3, <1>5
<1>7. \A k \in 1 .. Len(seg) : seg[k] = byte(k)
  BY <1>6
<1>. HIDE DEF seg
<1>. QED
  BY <1>2, <1>6, <1>7 DEF lo, hi, byte

\* A round keeps what the invariant says of a read.
LEMMA RoundRead ==
  ASSUME NEW r \in Local, NEW inode \in Inodes,
         r.offset \div BLOCK_SIZE <= r.i, r.i <= (r.length + r.offset) \div BLOCK_SIZE,
         r.i < FileSize(inode), IdxBlock[inode][r.i] < n_data_block_b,
         Len(r.buf) = DoneAt(r.offset, r.length, r.i),
         \A k \in 1 .. Len(r.buf) : r.buf[k] = ByteAt(inode, r.offset + k - 1)
  PROVE  LET buf == r.buf \o Segment(r, inode) IN
         /\ buf \in Seq(Bytes)
         /\ Len(buf) = DoneAt(r.offset, r.length, r.i + 1)
         /\ \A k \in 1 .. Len(buf) : buf[k] = ByteAt(inode, r.offset + k - 1)
<1>. DEFINE off == r.offset
            len == r.length
            i == r.i
            buf == r.buf
            seg == Segment(r, inode)
<1>1. /\ off \in Nat /\ len \in Nat /\ i \in Nat /\ buf \in Seq(Bytes)
      /\ seg \in Seq(Bytes)
      /\ Len(seg) = Hi(off, len, i) - Lo(off, i)
      /\ \A k \in 1 .. Len(seg) : seg[k] = Data[IdxBlock[inode][i]][Lo(off, i) + k - 1]
  BY SegmentFact DEF Local
<1>2. /\ off \div BLOCK_SIZE <= i /\ i <= (len + off) \div BLOCK_SIZE
      /\ i < FileSize(inode) /\ IdxBlock[inode][i] < n_data_block_b
      /\ Len(buf) = DoneAt(off, len, i)
      /\ \A k \in 1 .. Len(buf) : buf[k] = ByteAt(inode, off + k - 1)
  OBVIOUS
<1>. HIDE DEF off, len, i, buf, seg
<1>3. DoneAt(off, len, i + 1) = Len(buf) + Len(seg)
  <2>1. DoneAt(off, len, i + 1) = DoneAt(off, len, i) + (Hi(off, len, i) - Lo(off, i))
    BY <1>1, <1>2, RoundCounts
  <2>. QED
    BY <1>1, <1>2, <2>1
<1>4. \A k \in 1 .. Len(seg) : seg[k] = ByteAt(inode, off + (Len(buf) + k) - 1)
  <2>1. \A k \in 1 .. Len(seg) : Data[IdxBlock[inode][i]][Lo(off, i) + k - 1]
                                   = ByteAt(inode, off + (DoneAt(off, len, i) + k) - 1)
    BY <1>1, <1>2, SegmentBytes
  <2>. QED
    BY <1>1, <1>2, <2>1
<1>5. buf \in Seq(Bytes) /\ seg \in Seq(Bytes) /\ Len(buf) \in Nat /\ Len(seg) \in Nat
  BY <1>1
<1>6. /\ buf \o seg \in Seq(Bytes)
      /\ Len(buf \o seg) = Len(buf) + Len(seg)
      /\ \A k \in 1 .. Len(buf) : (buf \o seg)[k] = buf[k]
      /\ \A k \in 1 .. Len(seg) : (buf \o seg)[Len(buf) + k] = seg[k]
  BY ONLY <1>5, Extended
<1>7. ASSUME NEW k \in 1 .. Len(buf) + Len(seg)
      PROVE  (buf \o seg)[k] = ByteAt(inode, off + k - 1)
  <2>1. CASE k \in 1 .. Len(buf)
    BY <1>6, <1>2, <2>1
  <2>2. CASE k \notin 1 .. Len(buf)
    <3>1. PICK j \in 1 .. Len(seg) : k = Len(buf) + j
      <4>1. k - Len(buf) \in 1 .. Len(seg) /\ k = Len(buf) + (k - Len(buf))
        BY <1>5, <2>2
      <4>. QED
        BY <4>1
    <3>. QED
      BY <1>4, <1>6, <3>1
  <2>. QED
    BY <2>1, <2>2
<1>8. /\ buf \o seg \in Seq(Bytes)
      /\ Len(buf \o seg) = DoneAt(off, len, i + 1)
      /\ \A k \in 1 .. Len(buf \o seg) : (buf \o seg)[k] = ByteAt(inode, off + k - 1)
  BY <1>3, <1>6, <1>7
<1>. QED
  BY <1>8, Zenon DEF off, len, i, buf, seg

LEMMA ReadBlockInv ==
  ASSUME FileInv, NEW p \in Procs, ReadBlock(p)
  PROVE  FileInv'
<1>. DEFINE r == local[p]
            inode == InodeOf(p)
            r2 == Grown(r, Segment(r, inode))
<1>1. /\ pc[p] = "loop" /\ ~LoopEnds(p) /\ BlockExists(p)
      /\ UNCHANGED <<file_array, pc, got>>
  BY DEF ReadBlock
<1>2. /\ r.fd \in Fds /\ r.asked \in NBYTES /\ r.offset \in Nat
      /\ r.length \in Nat /\ r.i \in Nat
      /\ GoodRead(r, file_array[p][r.fd])
      /\ inode \in Inodes
  BY <1>1, ReadFact
<1>3. r \in Local
  BY DEF FileInv, TypeOK, Local
<1>4. local' = [local EXCEPT ![p] = r2]
  BY <1>3 DEF ReadBlock, FileInv, TypeOK, Grown, Segment
<1>5. /\ r.offset \div BLOCK_SIZE <= r.i
      /\ r.i <= (r.length + r.offset) \div BLOCK_SIZE
      /\ r.i < FileSize(inode)
      /\ IdxBlock[inode][r.i] < n_data_block_b
  <2>1. (r.length + r.offset) \div BLOCK_SIZE \in Nat /\ FileSize(inode) \in Nat
    BY <1>2, Span, BlockInFile
  <2>2. r.offset \div BLOCK_SIZE <= r.i
    BY <1>2 DEF GoodRead
  <2>. QED
    BY <1>1, <1>2, <2>1, <2>2 DEF LoopEnds, BlockExists
<1>6. /\ Len(r.buf) = DoneAt(r.offset, r.length, r.i)
      /\ \A k \in 1 .. Len(r.buf) : r.buf[k] = ByteAt(inode, r.offset + k - 1)
  BY <1>2 DEF GoodRead, InodeOf
<1>7. file_array[p][r.fd].inode = inode
  BY DEF InodeOf
<1>. HIDE DEF r, inode
<1>8. LET buf == r.buf \o Segment(r, inode) IN
      /\ buf \in Seq(Bytes)
      /\ Len(buf) = DoneAt(r.offset, r.length, r.i + 1)
      /\ \A k \in 1 .. Len(buf) : buf[k] = ByteAt(inode, r.offset + k - 1)
  BY <1>2, <1>3, <1>5, <1>6, RoundRead
<1>9. /\ r2 \in Local /\ r2.fd = r.fd /\ r2.asked = r.asked /\ r2.offset = r.offset
      /\ r2.length = r.length /\ r2.i = r.i + 1 /\ r2.buf = r.buf \o Segment(r, inode)
  BY <1>3, <1>8, GrownFact, Zenon
<1>. HIDE DEF r2
<1>10. GoodRead(r2, file_array[p][r2.fd])
  <2>1. file_array[p][r2.fd].inode = inode
    BY <1>7, <1>9
  <2>2. r.offset \div BLOCK_SIZE <= r.i + 1
    BY <1>2, <1>5, Span
  <2>. QED
    BY <1>2, <1>8, <1>9, <2>1, <2>2 DEF GoodRead
<1>11. /\ local'[p] = r2
       /\ \A q \in Procs : q # p => pc'[q] = pc[q] /\ local'[q] = local[q]
  BY <1>1, <1>4 DEF FileInv, TypeOK
<1>12. TypeOK'
  BY <1>1, <1>4, <1>9 DEF FileInv, TypeOK, Local
<1>13. Descriptors'
  BY <1>1 DEF FileInv, Descriptors
<1>14. Reads'
  BY <1>1, <1>10, <1>11, ReadsKept
<1>. QED
  BY <1>12, <1>13, <1>14 DEF FileInv

LEMMA ReadFailsInv ==
  ASSUME FileInv, NEW p \in Procs, ReadFails(p)
  PROVE  FileInv'
<1>1. /\ UNCHANGED file_array /\ pc' = [pc EXCEPT ![p] = "user"]
      /\ local' = [local EXCEPT ![p] = Dead] /\ got'.ok = FALSE
  BY DEF ReadFails
<1>2. TypeOK'
  BY <1>1, DeadFact DEF FileInv, TypeOK
<1>3. Descriptors'
  BY <1>1 DEF FileInv, Descriptors
<1>4. /\ pc'[p] # "loop"
      /\ \A q \in Procs : q # p => pc'[q] = pc[q] /\ local'[q] = local[q]
  BY <1>1 DEF FileInv, TypeOK
<1>5. Reads'
  BY <1>1, <1>4, ReadsKept
<1>. QED
  BY <1>2, <1>3, <1>5 DEF FileInv

LEMMA ReadReturnsInv ==
  ASSUME FileInv, NEW p \in Procs, ReadReturns(p)
  PROVE  FileInv'
<1>. DEFINE r == local[p]
            f == file_array[p][r.fd]
            f2 == Advance(f, r)
<1>1. /\ pc[p] = "loop" /\ LoopEnds(p)
      /\ pc' = [pc EXCEPT ![p] = "user"]
      /\ file_array' = [file_array EXCEPT ![p][r.fd] = f2]
      /\ local' = [local EXCEPT ![p] = Dead] /\ got'.ok = TRUE
  BY DEF ReadReturns
<1>2. /\ r.fd \in Fds /\ f.type = "reg" /\ f.inode \in Inodes /\ FileLength[f.inode] \in Nat
      /\ r.offset = f.pos /\ r.offset + r.length <= FileLength[f.inode]
      /\ r.length \in Nat /\ r.offset \in Nat
      /\ Len(r.buf) = r.length
  BY <1>1, ReadFact DEF InodeOf
<1>3. f \in Descriptor /\ GoodDescriptor(f)
  BY <1>2, DescriptorOf
<1>4. f2 = [f EXCEPT !.pos = f.pos + r.length]
  BY <1>2 DEF Advance
<1>5. f2 \in Descriptor /\ GoodDescriptor(f2)
  <2>1. f.pos + r.length \in Nat /\ f.pos + r.length <= FileLength[f.inode]
    BY <1>2
  <2>. QED
    BY <1>2, <1>3, <1>4, <2>1, Moved
<1>. HIDE DEF f2
<1>6. /\ file_array' \in [Procs -> [Fds -> Descriptor]]
      /\ Descriptors'
      /\ \A q \in Procs : q # p => file_array'[q] = file_array[q]
  BY <1>1, <1>2, <1>5, DescriptorStored DEF FileInv
<1>7. TypeOK'
  BY <1>1, <1>6, DeadFact DEF FileInv, TypeOK
<1>8. \A q \in Procs : /\ q # p => pc'[q] = pc[q] /\ local'[q] = local[q]
                       /\ q = p => pc'[q] # "loop"
  BY <1>1 DEF FileInv, TypeOK
<1>9. Reads'
  BY <1>6, <1>8 DEF FileInv, Reads
<1>. QED
  BY <1>6, <1>7, <1>9 DEF FileInv

LEMMA DirectReadInv ==
  ASSUME FileInv, NEW p \in Procs, NEW fd \in Fds, NEW nbytes \in NBYTES,
         DirectRead(p, fd, nbytes)
  PROVE  FileInv'
<1>. DEFINE f == file_array[p][fd]
<1>1. pc[p] = "user" /\ f.type = "dir" /\ UNCHANGED <<pc, local>> /\ got'.ok = TRUE
  BY DEF DirectRead
<1>2. f \in Descriptor /\ GoodDescriptor(f)
  BY DescriptorOf
<1>3. CASE f.pos >= n_dentry_b
  <2>1. UNCHANGED file_array
    BY <1>3 DEF DirectRead
  <2>. QED
    BY <1>1, <2>1 DEF FileInv, TypeOK, Descriptors, Reads
<1>4. CASE ~(f.pos >= n_dentry_b)
  <2>. DEFINE f2 == [f EXCEPT !.pos = f.pos + 1]
  <2>1. file_array' = [file_array EXCEPT ![p][fd] = f2]
    BY <1>4 DEF DirectRead, FileInv, TypeOK
  <2>2. f2 \in Descriptor /\ GoodDescriptor(f2)
    <3>1. f.pos + 1 \in Nat /\ f.pos + 1 <= n_dentry_b
      BY SMTT(30), <1>2, <1>4, SizeAssumption DEF Descriptor
    <3>. QED
      BY <1>1, <1>2, <3>1, Moved
  <2>. HIDE DEF f2
  <2>3. /\ file_array' \in [Procs -> [Fds -> Descriptor]]
        /\ Descriptors'
        /\ \A q \in Procs : q # p => file_array'[q] = file_array[q]
    BY <2>1, <2>2, DescriptorStored DEF FileInv
  <2>4. TypeOK'
    BY <1>1, <2>3 DEF FileInv, TypeOK
  <2>5. Reads'
    BY <1>1, <2>3 DEF FileInv, Reads
  <2>. QED
    BY <2>3, <2>4, <2>5 DEF FileInv
<1>. QED
  BY <1>3, <1>4

LEMMA NextInv == FileInv /\ [Next]_vars => FileInv'
<1>. SUFFICES ASSUME FileInv, [Next]_vars PROVE FileInv'
  OBVIOUS
<1>1. CASE UNCHANGED vars
  BY <1>1 DEF FileInv, TypeOK, Descriptors, Reads, vars
<1>2. CASE Next
  <2>. PICK p \in Procs :
         \/ \E fname \in FNames : Open(p, fname)
         \/ \E fd \in Fds : Close(p, fd)
         \/ \E fd \in Fds, nbytes \in NBYTES : FileRead(p, fd, nbytes) \/ DirectRead(p, fd, nbytes)
         \/ ReadBlock(p)
         \/ ReadFails(p)
         \/ ReadReturns(p)
    BY <1>2 DEF Next, Calls, read_data
  <2>. QED
    BY OpenInv, CloseInv, FileReadInv, DirectReadInv, ReadBlockInv, ReadFailsInv, ReadReturnsInv
<1>. QED
  BY <1>1, <1>2

THEOREM FileInvariant == Spec => []FileInv
<1>. QED
  BY InitInv, NextInv, PTL DEF Spec

\* Every variable stays in its set.
THEOREM TypeCorrect == Spec => []TypeOK
<1>1. FileInv => TypeOK
  BY DEF FileInv
<1>. QED
  BY <1>1, FileInvariant, PTL

\* No sequence of reads, of any sizes, moves the position of a regular file out of
\* the file, and whatever block boundaries a read crosses, its buffer holds the bytes
\* of the file that follow the position.
THEOREM ReadsInFileCorrect == Spec => []ReadsInFile
<1>1. FileInv => PositionInFile
  BY DEF FileInv, Descriptors, GoodDescriptor, PositionInFile
<1>2. FileInv => BufferFollowsFile
  <2>. SUFFICES ASSUME FileInv, NEW p \in Procs, pc[p] = "loop"
                PROVE  LET r == local[p] IN
                       /\ Len(r.buf) <= r.length
                       /\ LoopEnds(p) => Len(r.buf) = r.length
                       /\ \A k \in 1 .. Len(r.buf) : r.buf[k] = ByteAt(InodeOf(p), r.offset + k - 1)
    BY DEF BufferFollowsFile
  <2>1. /\ LoopEnds(p) => Len(local[p].buf) = local[p].length
        /\ \A k \in 1 .. Len(local[p].buf) :
             local[p].buf[k] = ByteAt(InodeOf(p), local[p].offset + k - 1)
    BY ReadFact DEF GoodRead, InodeOf
  <2>2. Len(local[p].buf) <= local[p].length
    BY ReadFact, DoneBounded DEF GoodRead
  <2>. QED
    BY <2>1, <2>2
<1>3. FileInv => ReadsInFile
  BY <1>1, <1>2 DEF ReadsInFile
<1>. QED
  BY <1>3, FileInvariant, PTL

-----------------------------------------------------------------------------
(* The refinement of Streams. *)

\* A name in the image stands for one entry.
LEMMA EntryFact ==
  ASSUME NEW e \in Entries
  PROVE  /\ NameOf(e) \in Listed
         /\ EntryOf(NameOf(e)) = e
         /\ contents[NameOf(e)] = Items(e)
         /\ NameOf(e) \in oneByOne <=> Dentry[e].type = "dir"
         /\ Dentry[e].type = "reg" /\ ~Intact(e) => NameOf(e) \in damaged
<1>1. \A d \in Entries : NameOf(d) = NameOf(e) => d = e
  BY ImageAssumption
<1>2. NameOf(e) \in Listed
  BY DEF Listed
<1>3. EntryOf(NameOf(e)) = e
  BY <1>1 DEF EntryOf
<1>4. contents[NameOf(e)] = Items(e)
  BY <1>2, <1>3 DEF contents
<1>5. NameOf(e) \in oneByOne <=> Dentry[e].type = "dir"
  BY <1>1 DEF oneByOne
<1>6. Dentry[e].type = "reg" /\ ~Intact(e) => NameOf(e) \in damaged
  BY DEF damaged
<1>. QED
  BY <1>2, <1>3, <1>4, <1>5, <1>6

\* A descriptor in use is a handle on the items of its entry.
LEMMA HandleFact ==
  ASSUME NEW f \in Descriptor, GoodDescriptor(f), f.type # "unuse"
  PROVE  \E e \in Entries :
           /\ f.name = NameOf(e) /\ f.type = Dentry[e].type /\ f.inode = Dentry[e].inode
           /\ f.name # <<NUL>> /\ f.name \in Listed
           /\ contents[f.name] = Items(e)
           /\ f.name \in oneByOne <=> f.type = "dir"
<1>1. f.name # <<NUL>>
  BY NulNotName DEF GoodDescriptor
<1>2. PICK e \in Entries : f.name = NameOf(e) /\ f.type = Dentry[e].type /\ f.inode = Dentry[e].inode
  BY DEF GoodDescriptor
<1>. QED
  BY <1>1, <1>2, EntryFact

\* A step that gives handle h a name and a position.
Sets(h, nm, ps) ==
  /\ names' = [names EXCEPT ![h] = nm]
  /\ positions' = [positions EXCEPT ![h] = ps]

\* Storing a descriptor changes one handle.
LEMMA HandleStored ==
  ASSUME TypeOK, NEW p \in Procs, NEW fd \in Fds, NEW f \in Descriptor,
         file_array' = [file_array EXCEPT ![p][fd] = f]
  PROVE  /\ <<p, fd>> \in Handles
         /\ Sets(<<p, fd>>, f.name, f.pos)
         /\ names[<<p, fd>>] = file_array[p][fd].name
         /\ positions[<<p, fd>>] = file_array[p][fd].pos
<1>1. \A h \in Handles : h[1] \in Procs /\ h[2] \in Fds /\ h = <<h[1], h[2]>>
  BY DEF Handles
<1>2. \A q \in Procs, d \in Fds :
        file_array'[q][d] = IF q = p /\ d = fd THEN f ELSE file_array[q][d]
  BY DEF TypeOK
<1>3. \A h \in Handles :
        file_array'[h[1]][h[2]] = IF h = <<p, fd>> THEN f ELSE file_array[h[1]][h[2]]
  BY <1>1, <1>2
<1>4. <<p, fd>> \in Handles
  BY DEF Handles
<1>5. names' = [names EXCEPT ![<<p, fd>>] = f.name]
  <2>1. \A h \in Handles : file_array'[h[1]][h[2]].name
                           = IF h = <<p, fd>> THEN f.name ELSE names[h]
    BY <1>3 DEF names
  <2>2. names' = [h \in Handles |-> file_array'[h[1]][h[2]].name]
    BY DEF names, Handles
  <2>3. [names EXCEPT ![<<p, fd>>] = f.name]
          = [h \in Handles |-> IF h = <<p, fd>> THEN f.name ELSE names[h]]
    BY DEF names
  <2>. QED
    BY <2>1, <2>2, <2>3
<1>6. positions' = [positions EXCEPT ![<<p, fd>>] = f.pos]
  <2>1. \A h \in Handles : file_array'[h[1]][h[2]].pos
                           = IF h = <<p, fd>> THEN f.pos ELSE positions[h]
    BY <1>3 DEF positions
  <2>2. positions' = [h \in Handles |-> file_array'[h[1]][h[2]].pos]
    BY DEF positions, Handles
  <2>3. [positions EXCEPT ![<<p, fd>>] = f.pos]
          = [h \in Handles |-> IF h = <<p, fd>> THEN f.pos ELSE positions[h]]
    BY DEF positions
  <2>. QED
    BY <2>1, <2>2, <2>3
<1>7. Sets(<<p, fd>>, f.name, f.pos)
  BY <1>5, <1>6 DEF Sets
<1>. QED
  BY <1>4, <1>7 DEF names, positions

\* What a read leaves of the handles when it moves one position.
LEMMA InitStep == Init => ST!Init
<1>. SUFFICES ASSUME Init PROVE ST!Init
  OBVIOUS
<1>1. \A h \in Handles : file_array[h[1]][h[2]] = Free
  BY DEF Init, Handles
<1>2. names = [h \in Handles |-> <<NUL>>] /\ positions = [h \in Handles |-> 0]
  BY <1>1 DEF names, positions, Free
<1>3. got = ST!Nothing
  BY DEF Init, ST!Nothing
<1>. QED
  BY <1>2, <1>3 DEF ST!Init

LEMMA OpenStep ==
  ASSUME FileInv, NEW p \in Procs, NEW fname \in FNames, Open(p, fname)
  PROVE  \E h \in Handles : ST!Open(h)
<1>1. PICK e \in Entries, fd \in Fds :
        /\ Matches(fname, e)
        /\ file_array[p][fd].type = "unuse"
        /\ file_array' = [file_array EXCEPT ![p][fd] =
             [type |-> Dentry[e].type, name |-> fname, inode |-> Dentry[e].inode, pos |-> 0]]
  BY DEF Open, IsFound
<1>. DEFINE f == [type |-> Dentry[e].type, name |-> fname, inode |-> Dentry[e].inode, pos |-> 0]
            h == <<p, fd>>
<1>2. fname \in Seq(Chars) /\ fname \in Seq(Chars \cup {NUL}) /\ fname \in Listed
  <2>1. fname \in Seq(Chars)
    BY NamesAssumption
  <2>2. fname = NameOf(e)
    BY <1>1, <2>1, MatchesName
  <2>. QED
    BY <2>1, <2>2, SeqMonotonic, EntryFact
<1>3. f \in Descriptor /\ f.name = fname /\ f.pos = 0
  BY <1>2, ImageAssumption DEF Descriptor
<1>. HIDE DEF f
<1>4. file_array[p][fd].name = <<NUL>>
  BY <1>1, DescriptorOf DEF GoodDescriptor, Free
<1>5. /\ h \in Handles /\ names[h] = <<NUL>>
      /\ names' = [names EXCEPT ![h] = fname] /\ positions' = [positions EXCEPT ![h] = 0]
  <2>1. TypeOK /\ file_array' = [file_array EXCEPT ![p][fd] = f]
    BY <1>1 DEF FileInv, f
  <2>2. /\ h \in Handles
        /\ Sets(h, f.name, f.pos)
        /\ names[h] = file_array[p][fd].name
    BY <1>3, <2>1, HandleStored
  <2>. QED
    BY <1>3, <1>4, <2>2 DEF Sets
<1>6. UNCHANGED got
  BY DEF Open
<1>. QED
  BY <1>2, <1>5, <1>6 DEF ST!Open

LEMMA CloseStep ==
  ASSUME FileInv, NEW p \in Procs, NEW fd \in Fds, Close(p, fd)
  PROVE  \E h \in Handles : ST!Close(h)
<1>. DEFINE h == <<p, fd>>
<1>1. /\ file_array[p][fd].type # "unuse"
      /\ file_array' = [file_array EXCEPT ![p][fd] = Free] /\ UNCHANGED got
  BY DEF Close
<1>2. file_array[p][fd].name # <<NUL>>
  BY <1>1, DescriptorOf, HandleFact
<1>3. Free \in Descriptor /\ Free.name = <<NUL>> /\ Free.pos = 0
  BY FreeFact DEF Free
<1>4. /\ h \in Handles /\ names[h] # <<NUL>>
      /\ names' = [names EXCEPT ![h] = <<NUL>>] /\ positions' = [positions EXCEPT ![h] = 0]
  <2>1. TypeOK /\ file_array' = [file_array EXCEPT ![p][fd] = Free]
    BY <1>1 DEF FileInv
  <2>2. /\ h \in Handles
        /\ Sets(h, Free.name, Free.pos)
        /\ names[h] = file_array[p][fd].name
    BY <1>3, <2>1, HandleStored
  <2>. QED
    BY <1>2, <1>3, <2>2 DEF Sets
<1>. QED
  BY <1>1, <1>4 DEF ST!Close

\* What a handle gets: reading n items moves one position and delivers them.
LEMMA ReadStep ==
  ASSUME FileInv, NEW p \in Procs, NEW fd \in Fds, NEW n \in NBYTES, NEW c \in Nat,
         NEW items,
         file_array[p][fd].type # "unuse",
         file_array' = [file_array EXCEPT
           ![p][fd] = [file_array[p][fd] EXCEPT !.pos = file_array[p][fd].pos + c]],
         c = ST!Count(<<p, fd>>, n),
         items = SubSeq(contents[file_array[p][fd].name],
                        file_array[p][fd].pos + 1, file_array[p][fd].pos + c),
         got' = [to |-> <<p, fd>>, asked |-> n, ok |-> TRUE, items |-> items]
  PROVE  ST!Read(<<p, fd>>, n)
<1>. DEFINE f == file_array[p][fd]
            h == <<p, fd>>
            g == [f EXCEPT !.pos = f.pos + c]
<1>1. f \in Descriptor /\ f.pos \in Nat /\ f.name # <<NUL>>
  BY DescriptorOf, HandleFact DEF Descriptor
<1>. HIDE DEF f
<1>2. g \in Descriptor /\ g.name = f.name /\ g.pos = f.pos + c
  <2>1. f.pos + c \in Nat
    BY <1>1
  <2>. QED
    BY <1>1, <2>1 DEF Descriptor
<1>. HIDE DEF g
<1>3. /\ h \in Handles
      /\ names' = [names EXCEPT ![h] = f.name]
      /\ positions' = [positions EXCEPT ![h] = f.pos + c]
      /\ names[h] = f.name /\ positions[h] = f.pos
  <2>1. TypeOK /\ file_array' = [file_array EXCEPT ![p][fd] = g]
    BY DEF FileInv, f, g
  <2>2. /\ h \in Handles
        /\ Sets(h, g.name, g.pos)
        /\ names[h] = file_array[p][fd].name /\ positions[h] = file_array[p][fd].pos
    BY ZenonT(60), <1>2, <2>1, HandleStored
  <2>. QED
    BY <1>2, <2>2 DEF f, Sets
<1>4. names' = names
  BY <1>3 DEF names
<1>5. positions' = [positions EXCEPT ![h] = @ + c]
  BY <1>3
<1>6. /\ got' = [to |-> h, asked |-> n, ok |-> TRUE, items |-> items]
      /\ items = SubSeq(contents[names[h]], positions[h] + 1, positions[h] + c)
  BY <1>3 DEF f
<1>7. names[h] # <<NUL>>
  BY <1>1, <1>3
<1>. QED
  BY <1>4, <1>5, <1>6, <1>7 DEF ST!Read

\* The items of a function on 1 .. n.
LEMMA ItemsLen ==
  ASSUME NEW n \in Nat, NEW g(_)
  PROVE  Len([k \in 1 .. n |-> g(k)]) = n
<1>. DEFINE c == [k \in 1 .. n |-> g(k)]
            S == {g(k) : k \in 1 .. n}
<1>1. c \in [1 .. n -> S]
  OBVIOUS
<1>. HIDE DEF c, S
<1>2. Len(c) = n
  BY ONLY <1>1
<1>. QED
  BY <1>2 DEF c

\* What follows the first off items of s begins with buf.
Follows(buf, s, off) == \A k \in 1 .. Len(buf) : s[off + k] = buf[k]

LEMMA IsSubSeq ==
  ASSUME NEW S, NEW s, NEW buf \in Seq(S), NEW off \in Nat,
         Follows(buf, s, off)
  PROVE  buf = SubSeq(s, off + 1, off + Len(buf))
<1>. DEFINE t == SubSeq(s, off + 1, off + Len(buf))
<1>1. Len(buf) \in Nat /\ \A k \in 1 .. Len(buf) : buf[k] \in S
  OBVIOUS
<1>2. \A i \in off + 1 .. off + Len(buf) : s[i] \in S
  <2>. SUFFICES ASSUME NEW i \in off + 1 .. off + Len(buf) PROVE s[i] \in S
    OBVIOUS
  <2>1. i - off \in 1 .. Len(buf) /\ off + (i - off) = i
    BY <1>1
  <2>. QED
    BY <1>1, <2>1 DEF Follows
<1>3. /\ t \in Seq(S)
      /\ Len(t) = IF off + 1 <= off + Len(buf) THEN (off + Len(buf)) - (off + 1) + 1 ELSE 0
      /\ \A i \in 1 .. (off + Len(buf)) - (off + 1) + 1 : t[i] = s[(off + 1) + i - 1]
  BY <1>1, <1>2, SubSeqProperties
<1>. HIDE DEF t
<1>4. Len(t) = Len(buf)
  BY <1>1, <1>3
<1>5. ASSUME NEW i \in 1 .. Len(buf) PROVE t[i] = buf[i]
  <2>1. i \in 1 .. (off + Len(buf)) - (off + 1) + 1 /\ (off + 1) + i - 1 = off + i
    BY <1>1
  <2>. QED
    BY <1>3, <2>1 DEF Follows
<1>6. t = buf
  BY <1>3, <1>4, <1>5, SeqEqual
<1>. QED
  BY <1>6 DEF t

\* How much a read of a regular file gets.
LEMMA CountOfFile ==
  ASSUME FileInv, NEW p \in Procs, NEW fd \in Fds, file_array[p][fd].type = "reg",
         NEW n \in NBYTES
  PROVE  LET f == file_array[p][fd] IN
         /\ contents[f.name] = BytesOf(f.inode)
         /\ ST!Count(<<p, fd>>, n) = Clip(f.inode, f.pos, n)
<1>. DEFINE f == file_array[p][fd]
<1>1. f \in Descriptor /\ GoodDescriptor(f)
  BY DescriptorOf
<1>2. f.inode \in Inodes /\ FileLength[f.inode] \in Nat /\ f.pos \in Nat
      /\ f.pos <= FileLength[f.inode]
  BY <1>1, RegFact
<1>3. PICK e \in Entries :
        /\ f.type = Dentry[e].type /\ f.inode = Dentry[e].inode
        /\ contents[f.name] = Items(e)
        /\ f.name \in oneByOne <=> f.type = "dir"
  BY <1>1, HandleFact
<1>4. contents[f.name] = BytesOf(f.inode)
  BY <1>3 DEF Items
<1>5. Len(BytesOf(f.inode)) = FileLength[f.inode]
  BY <1>2, ItemsLen DEF BytesOf
<1>6. names[<<p, fd>>] = f.name /\ positions[<<p, fd>>] = f.pos
  BY DEF names, positions, Handles
<1>7. f.name \notin oneByOne
  BY <1>3
<1>. HIDE DEF f
<1>8. ST!Count(<<p, fd>>, n) = IF n < FileLength[f.inode] - f.pos THEN n
                               ELSE FileLength[f.inode] - f.pos
  BY <1>4, <1>5, <1>6, <1>7 DEF ST!Count
<1>9. file_array[p][fd] = f
  BY DEF f
<1>. QED
  BY <1>2, <1>4, <1>8, <1>9, ClipFact

\* A read of a regular file delivers the bytes that follow the position.
LEMMA ReturnStep ==
  ASSUME FileInv, NEW p \in Procs, ReadReturns(p)
  PROVE  ST!Read(<<p, local[p].fd>>, local[p].asked)
<1>. DEFINE r == local[p]
            f == file_array[p][r.fd]
            c == r.length
<1>1. /\ pc[p] = "loop" /\ LoopEnds(p)
      /\ file_array' = [file_array EXCEPT ![p][r.fd] = Advance(f, r)]
      /\ got' = [to |-> <<p, r.fd>>, asked |-> r.asked, ok |-> TRUE, items |-> r.buf]
  BY DEF ReadReturns
<1>2. /\ r.fd \in Fds /\ r.asked \in NBYTES /\ f.type = "reg" /\ f.inode \in Inodes
      /\ FileLength[f.inode] \in Nat /\ r.buf \in Seq(Bytes)
      /\ r.offset = f.pos /\ r.offset + r.length <= FileLength[f.inode]
      /\ r.length = Clip(f.inode, r.offset, r.asked)
      /\ r.length \in Nat /\ r.offset \in Nat
      /\ Len(r.buf) = r.length
  BY <1>1, ReadFact DEF InodeOf
<1>3. \A k \in 1 .. Len(r.buf) : r.buf[k] = ByteAt(f.inode, r.offset + k - 1)
  BY <1>1, ReadFact DEF GoodRead
<1>4. /\ contents[f.name] = BytesOf(f.inode)
      /\ ST!Count(<<p, r.fd>>, r.asked) = c
  <2>1. ST!Count(<<p, r.fd>>, r.asked) = Clip(f.inode, f.pos, r.asked)
    BY <1>2, CountOfFile
  <2>2. contents[f.name] = BytesOf(f.inode)
    BY <1>2, CountOfFile
  <2>. QED
    BY <1>2, <2>1, <2>2
<1>5. r.buf = SubSeq(contents[f.name], f.pos + 1, f.pos + c)
  <2>1. ASSUME NEW k \in 1 .. Len(r.buf) PROVE BytesOf(f.inode)[f.pos + k] = r.buf[k]
    <3>. HIDE DEF r, f
    <3>a. /\ r.offset = f.pos /\ r.offset \in Nat /\ r.length \in Nat /\ Len(r.buf) = r.length
          /\ r.offset + r.length <= FileLength[f.inode] /\ FileLength[f.inode] \in Nat
      BY <1>2
    <3>1. f.pos + k \in 1 .. FileLength[f.inode] /\ r.offset + k - 1 = (f.pos + k) - 1
      BY <3>a
    <3>2. r.buf[k] = ByteAt(f.inode, (f.pos + k) - 1)
      BY <1>3, <3>1
    <3>. QED
      BY <3>1, <3>2 DEF BytesOf
  <2>2. Follows(r.buf, BytesOf(f.inode), f.pos)
    BY <2>1 DEF Follows
  <2>3. r.buf = SubSeq(BytesOf(f.inode), f.pos + 1, f.pos + Len(r.buf))
    BY ZenonT(60), <1>2, <2>2, IsSubSeq
  <2>. QED
    BY <1>2, <1>4, <2>3
<1>6. file_array' = [file_array EXCEPT ![p][r.fd] = [f EXCEPT !.pos = f.pos + c]]
  BY <1>1, <1>2 DEF Advance
<1>7. ST!Read(<<p, r.fd>>, r.asked)
  BY <1>1, <1>2, <1>4, <1>5, <1>6, ReadStep
<1>. QED
  BY <1>7

\* A read of the directory delivers the next name, if there is one.
LEMMA DirectStep ==
  ASSUME FileInv, NEW p \in Procs, NEW fd \in Fds, NEW n \in NBYTES, DirectRead(p, fd, n)
  PROVE  ST!Read(<<p, fd>>, n)
<1>. DEFINE f == file_array[p][fd]
            content == [k \in 1 .. n_dentry_b |-> NameOf(k - 1)]
            c == IF f.pos >= n_dentry_b THEN 0 ELSE 1
<1>1. f.type = "dir"
  BY DEF DirectRead
<1>2. f \in Descriptor /\ GoodDescriptor(f)
  BY DescriptorOf
<1>3. f.pos \in Nat /\ f.pos <= n_dentry_b /\ n_dentry_b \in Nat
  BY <1>1, <1>2, SizeAssumption DEF Descriptor, GoodDescriptor
<1>4. contents[f.name] = content /\ f.name \in oneByOne
  <2>1. PICK e \in Entries :
          /\ f.type = Dentry[e].type
          /\ contents[f.name] = Items(e)
          /\ f.name \in oneByOne <=> f.type = "dir"
    BY <1>1, <1>2, HandleFact
  <2>. QED
    BY <1>1, <2>1 DEF Items
<1>5. Len(content) = n_dentry_b
  BY <1>3, ItemsLen
<1>6. names[<<p, fd>>] = f.name /\ positions[<<p, fd>>] = f.pos /\ <<p, fd>> \in Handles
  BY DEF names, positions, Handles
<1>7. ST!Count(<<p, fd>>, n) = c
  <2>. HIDE DEF f, content
  <2>. QED
    BY <1>3, <1>4, <1>5, <1>6 DEF ST!Count
<1>8. CASE f.pos >= n_dentry_b
  <2>1. /\ got' = [to |-> <<p, fd>>, asked |-> n, ok |-> TRUE, items |-> <<>>]
        /\ UNCHANGED file_array
    BY <1>8 DEF DirectRead
  <2>2. f.pos + c < f.pos + 1
    BY <1>3, <1>8
  <2>3. SubSeq(contents[f.name], f.pos + 1, f.pos + c) = <<>>
    BY <1>3, <2>2, SubSeqEmpty
  <2>4. file_array' = [file_array EXCEPT ![p][fd] = [f EXCEPT !.pos = f.pos + c]]
    BY <1>2, <1>3, <1>8, <2>1 DEF FileInv, TypeOK, Descriptor
  <2>. QED
    BY <1>1, <1>7, <1>8, <2>1, <2>3, <2>4, ReadStep
<1>9. CASE ~(f.pos >= n_dentry_b)
  <2>1. /\ got' = [to |-> <<p, fd>>, asked |-> n, ok |-> TRUE, items |-> <<NameOf(f.pos)>>]
        /\ file_array' = [file_array EXCEPT ![p][fd] = [f EXCEPT !.pos = f.pos + c]]
    BY <1>9 DEF DirectRead, FileInv, TypeOK
  <2>2. f.pos + 1 \in 1 .. n_dentry_b /\ (f.pos + 1) - 1 = f.pos
    BY <1>3, <1>9
  <2>3. Follows(<<NameOf(f.pos)>>, content, f.pos)
    BY <2>2 DEF Follows
  <2>4. <<NameOf(f.pos)>> = SubSeq(content, f.pos + 1, f.pos + Len(<<NameOf(f.pos)>>))
    <3>1. <<NameOf(f.pos)>> \in Seq({NameOf(f.pos)})
      OBVIOUS
    <3>. HIDE DEF content
    <3>. QED
      BY ZenonT(60), <1>3, <2>3, <3>1, IsSubSeq
  <2>5. <<NameOf(f.pos)>> = SubSeq(contents[f.name], f.pos + 1, f.pos + c)
    BY <1>4, <1>9, <2>4
  <2>. QED
    BY <1>1, <1>7, <1>9, <2>1, <2>5, ReadStep
<1>. QED
  BY <1>8, <1>9

\* Only a read of a damaged file fails.
LEMMA FailsDamaged ==
  ASSUME FileInv, NEW p \in Procs, ReadFails(p)
  PROVE  /\ local[p].fd \in Fds /\ local[p].asked \in NBYTES
         /\ file_array[p][local[p].fd].name \in damaged
<1>. DEFINE r == local[p]
            f == file_array[p][r.fd]
<1>1. pc[p] = "loop" /\ ~LoopEnds(p) /\ ~BlockExists(p)
  BY DEF ReadFails
<1>2. /\ r.fd \in Fds /\ r.asked \in NBYTES /\ f.type = "reg" /\ f.inode \in Inodes
      /\ r.i \in Nat
  BY <1>1, ReadFact DEF InodeOf
<1>3. f \in Descriptor /\ GoodDescriptor(f)
  BY <1>2, DescriptorOf
<1>4. PICK e \in Entries :
        f.name = NameOf(e) /\ f.type = Dentry[e].type /\ f.inode = Dentry[e].inode
  BY <1>2, <1>3, HandleFact
<1>5. ~Intact(e)
  <2>1. r.i < FileSize(f.inode) /\ ~(IdxBlock[f.inode][r.i] < n_data_block_b)
    <3>1. FileSize(f.inode) \in Nat
      BY <1>2, BlockInFile
    <3>. QED
      BY SMTT(30), <1>1, <1>2, <3>1 DEF LoopEnds, BlockExists, InodeOf
  <2>2. r.i \in 0 .. N_BLOCKS - 1 /\ r.i * BLOCK_SIZE < FileLength[f.inode]
    BY <1>2, <2>1, BlockInFile
  <2>. QED
    BY <1>4, <2>1, <2>2 DEF Intact
<1>6. f.name \in damaged
  BY <1>2, <1>4, <1>5, EntryFact
<1>. QED
  BY <1>2, <1>6

\* It changes nothing.
LEMMA FailStep ==
  ASSUME FileInv, NEW p \in Procs, ReadFails(p)
  PROVE  \E h \in Handles, n \in NBYTES : ST!Fail(h, n)
<1>. DEFINE r == local[p]
            nm == file_array[p][r.fd].name
<1>1. /\ got' = [to |-> <<p, r.fd>>, asked |-> r.asked, ok |-> FALSE, items |-> <<>>]
      /\ UNCHANGED file_array
  BY DEF ReadFails
<1>2. r.fd \in Fds /\ r.asked \in NBYTES /\ nm \in damaged
  BY FailsDamaged
<1>3. names[<<p, r.fd>>] = nm /\ <<p, r.fd>> \in Handles
  BY <1>2 DEF names, Handles
<1>4. UNCHANGED <<names, positions>>
  BY <1>1 DEF names, positions
<1>5. ST!Fail(<<p, r.fd>>, r.asked)
  BY <1>1, <1>2, <1>3, <1>4 DEF ST!Fail
<1>. QED
  BY <1>2, <1>3, <1>5

\* Every step is a step of Streams or changes nothing that Streams sees.
LEMMA StepRefines == FileInv /\ [Next]_vars => [ST!Next]_<<names, positions, got>>
<1>. SUFFICES ASSUME FileInv, [Next]_vars
              PROVE  ST!Next \/ UNCHANGED <<names, positions, got>>
  OBVIOUS
<1>1. ASSUME UNCHANGED <<file_array, got>> PROVE UNCHANGED <<names, positions, got>>
  BY <1>1 DEF names, positions
<1>2. CASE UNCHANGED vars
  BY <1>1, <1>2 DEF vars
<1>3. ASSUME NEW p \in Procs, NEW fname \in FNames, Open(p, fname) PROVE ST!Next
  BY <1>3, OpenStep DEF ST!Next
<1>4. ASSUME NEW p \in Procs, NEW fd \in Fds, Close(p, fd) PROVE ST!Next
  BY <1>4, CloseStep DEF ST!Next
<1>5. ASSUME NEW p \in Procs, NEW fd \in Fds, NEW n \in NBYTES, FileRead(p, fd, n)
      PROVE  UNCHANGED <<names, positions, got>>
  BY <1>1, <1>5 DEF FileRead
<1>6. ASSUME NEW p \in Procs, NEW fd \in Fds, NEW n \in NBYTES, DirectRead(p, fd, n)
      PROVE  ST!Next
  <2>1. ST!Read(<<p, fd>>, n) /\ <<p, fd>> \in Handles
    BY <1>6, DirectStep DEF Handles
  <2>. QED
    BY <2>1 DEF ST!Next
<1>7. ASSUME NEW p \in Procs, ReadBlock(p) PROVE UNCHANGED <<names, positions, got>>
  BY <1>1, <1>7 DEF ReadBlock
<1>8. ASSUME NEW p \in Procs, ReadFails(p) PROVE ST!Next
  BY <1>8, FailStep DEF ST!Next
<1>9. ASSUME NEW p \in Procs, ReadReturns(p) PROVE ST!Next
  <2>1. local[p].fd \in Fds /\ local[p].asked \in NBYTES
    BY <1>9, ReadFact DEF ReadReturns
  <2>2. ST!Read(<<p, local[p].fd>>, local[p].asked) /\ <<p, local[p].fd>> \in Handles
    BY <1>9, <2>1, ReturnStep DEF Handles
  <2>. QED
    BY <2>1, <2>2 DEF ST!Next
<1>. QED
  BY <1>2, <1>3, <1>4, <1>5, <1>6, <1>7, <1>8, <1>9 DEF Next, Calls, read_data

\* Whatever programs open, read and close, and however their reads interleave,
\* each descriptor delivers its file as one stream.
THEOREM FilesImplementStreams == Spec => ImplementsStreams
<1>. QED
  BY InitStep, FileInvariant, StepRefines, PTL DEF Spec, ImplementsStreams, ST!Spec

-----------------------------------------------------------------------------
(* The programs cat and ls. *)

\* A set of numbers has a least one.
LEMMA LeastNumber ==
  ASSUME NEW S \in SUBSET Nat, S # {}
  PROVE  \E n \in S : \A m \in S : n <= m
<1>. DEFINE R == {ss \in Nat \X Nat : ss[1] < ss[2]}
<1>1. IsWellFoundedOn(R, Nat)
  BY NatLessThanWellFounded DEF OpToRel
<1>2. PICK n \in S : \A m \in S : ~(<<m, n>> \in R)
  BY <1>1, WFMin
<1>3. \A m \in S : ~(m < n)
  BY <1>2
<1>. QED
  BY <1>3

\* Only one entry is found for a string.
LEMMA FoundOnce ==
  ASSUME NEW fname, NEW d \in Entries, NEW e \in Entries, IsFound(fname, d), IsFound(fname, e)
  PROVE  d = e
<1>1. d \in 0 .. e - 1 \/ e \in 0 .. d - 1 \/ d = e
  BY SizeAssumption DEF Entries
<1>. QED
  BY <1>1 DEF IsFound

\* The name of an entry, wherever its NUL is.
LEMMA NameEnds ==
  ASSUME NEW e \in Entries
  PROVE  \E n \in 0 .. STR_LEN :
           EndsAt(e, n) /\ NameOf(e) = [k \in 1 .. n |-> Dentry[e].name[k - 1]]
<1>. DEFINE S == {n \in 0 .. STR_LEN : n = STR_LEN \/ Dentry[e].name[n] = NUL}
<1>1. STR_LEN \in S /\ S \in SUBSET Nat
  BY SizeAssumption
<1>2. PICK n \in S : \A m \in S : n <= m
  BY <1>1, LeastNumber
<1>3. EndsAt(e, n)
  <2>1. \A k \in 0 .. n - 1 : k \notin S /\ k \in 0 .. STR_LEN
    BY <1>1, <1>2
  <2>. QED
    BY <1>2, <2>1 DEF EndsAt
<1>4. EndsAt(e, CHOOSE m \in 0 .. STR_LEN : EndsAt(e, m))
      /\ (CHOOSE m \in 0 .. STR_LEN : EndsAt(e, m)) \in 0 .. STR_LEN
  BY <1>2, <1>3
<1>. QED
  BY <1>4 DEF NameOf

\* open finds every name of the image.
LEMMA NameIsFound ==
  ASSUME NEW fname \in Seq(Chars), fname \in Listed
  PROVE  \E e \in Entries : IsFound(fname, e)
<1>1. PICK e \in Entries : fname = NameOf(e)
  BY DEF Listed
<1>2. PICK n \in 0 .. STR_LEN :
        EndsAt(e, n) /\ NameOf(e) = [k \in 1 .. n |-> Dentry[e].name[k - 1]]
  BY NameEnds
<1>3. Len(fname) = n
  <2>1. fname \in [1 .. n -> Chars]
    <3>1. DOMAIN fname = 1 .. n
      BY <1>1, <1>2
    <3>. QED
      BY <3>1, LenProperties
  <2>. QED
    BY <2>1, <1>2, SizeAssumption, LenProperties
<1>4. \A j \in 0 .. n - 1 : fname[j + 1] = Dentry[e].name[j]
  <2>. SUFFICES ASSUME NEW j \in 0 .. n - 1 PROVE fname[j + 1] = Dentry[e].name[j]
    OBVIOUS
  <2>1. j + 1 \in 1 .. n /\ (j + 1) - 1 = j
    BY <1>2, SizeAssumption
  <2>. QED
    BY <1>1, <1>2, <2>1
<1>5. Matches(fname, e)
  <2>1. n <= STR_LEN /\ (n < STR_LEN => Dentry[e].name[n] = NUL)
    BY <1>2, SizeAssumption DEF EndsAt
  <2>. QED
    BY <1>3, <1>4, <2>1 DEF Matches
<1>6. \A d \in 0 .. e - 1 : ~Matches(fname, d)
  <2>. SUFFICES ASSUME NEW d \in 0 .. e - 1, Matches(fname, d) PROVE FALSE
    OBVIOUS
  <2>1. d \in Entries /\ d # e
    BY SizeAssumption DEF Entries
  <2>2. fname = NameOf(d)
    BY <2>1, MatchesName
  <2>. QED
    BY <1>1, <2>1, <2>2, ImageAssumption
<1>. QED
  BY <1>5, <1>6 DEF IsFound

\* A call of one program leaves the descriptors and the read of the others alone.
LEMMA OwnCall ==
  ASSUME FileInv, NEW p \in Procs, Calls(p), NEW q \in Procs, q # p
  PROVE  file_array'[q] = file_array[q] /\ local'[q] = local[q]
<1>1. /\ file_array \in [Procs -> [Fds -> Descriptor]]
      /\ local \in [Procs -> Local]
  BY DEF FileInv, TypeOK, Local
<1>2. ASSUME NEW fname \in FNames, Open(p, fname)
      PROVE  file_array'[q] = file_array[q] /\ local'[q] = local[q]
  BY <1>1, <1>2 DEF Open
<1>3. ASSUME NEW fd \in Fds, Close(p, fd)
      PROVE  file_array'[q] = file_array[q] /\ local'[q] = local[q]
  BY <1>1, <1>3 DEF Close
<1>4. ASSUME NEW fd \in Fds, NEW n \in NBYTES, FileRead(p, fd, n)
      PROVE  file_array'[q] = file_array[q] /\ local'[q] = local[q]
  BY <1>1, <1>4 DEF FileRead
<1>5. ASSUME NEW fd \in Fds, NEW n \in NBYTES, DirectRead(p, fd, n)
      PROVE  file_array'[q] = file_array[q] /\ local'[q] = local[q]
  BY <1>1, <1>5 DEF DirectRead
<1>6. CASE ReadBlock(p)
  BY <1>1, <1>6 DEF ReadBlock
<1>7. CASE ReadFails(p)
  BY <1>1, <1>7 DEF ReadFails
<1>8. CASE ReadReturns(p)
  BY <1>1, <1>8 DEF ReadReturns
<1>. QED
  BY <1>2, <1>3, <1>4, <1>5, <1>6, <1>7, <1>8 DEF Calls, read_data

\* A function on 1 .. n is a sequence of what it yields.
LEMMA ContentIsSeq ==
  ASSUME NEW n \in Nat, NEW c, c = [k \in 1 .. n |-> c[k]]
  PROVE  Len(c) = n /\ c \in Seq(Range(c))
<1>1. DOMAIN c = 1 .. n
  OBVIOUS
<1>2. \A k \in 1 .. n : c[k] \in Range(c)
  BY <1>1 DEF Range
<1>3. c \in [1 .. n -> Range(c)]
  BY <1>1, <1>2
<1>. QED
  BY <1>3

\* The contents of a file are a sequence, and a descriptor never stands behind it.
LEMMA ContentFact ==
  ASSUME FileInv, NEW p \in Procs, NEW fd \in Fds, file_array[p][fd].type \in {"reg", "dir"}
  PROVE  LET f == file_array[p][fd]
             c == contents[f.name] IN
         /\ f.name \in Listed
         /\ c \in Seq(Range(c)) /\ Len(c) \in Nat
         /\ f.pos \in Nat /\ f.pos <= Len(c)
<1>. DEFINE f == file_array[p][fd]
            c == contents[f.name]
<1>1. f \in Descriptor /\ GoodDescriptor(f)
  BY DescriptorOf
<1>2. PICK e \in Entries : f.type = Dentry[e].type /\ f.inode = Dentry[e].inode
                           /\ f.name \in Listed /\ c = Items(e)
  BY <1>1, HandleFact
<1>3. CASE f.type = "reg"
  <2>1. /\ c = [k \in 1 .. FileLength[f.inode] |-> ByteAt(f.inode, k - 1)]
        /\ FileLength[f.inode] \in Nat /\ f.pos \in Nat /\ f.pos <= FileLength[f.inode]
    BY <1>1, <1>2, <1>3, RegFact DEF Items, BytesOf
  <2>. HIDE DEF c
  <2>2. c = [k \in 1 .. FileLength[f.inode] |-> c[k]]
    BY <2>1
  <2>3. Len(c) = FileLength[f.inode] /\ c \in Seq(Range(c))
    BY <2>1, <2>2, ContentIsSeq
  <2>. QED
    BY <1>2, <2>1, <2>3 DEF c
<1>4. CASE f.type = "dir"
  <2>1. /\ c = [k \in 1 .. n_dentry_b |-> NameOf(k - 1)]
        /\ n_dentry_b \in Nat /\ f.pos \in Nat /\ f.pos <= n_dentry_b
    BY <1>1, <1>2, <1>4, SizeAssumption DEF Items, GoodDescriptor, Descriptor
  <2>. HIDE DEF c
  <2>2. c = [k \in 1 .. n_dentry_b |-> c[k]]
    BY <2>1
  <2>3. Len(c) = n_dentry_b /\ c \in Seq(Range(c))
    BY <2>1, <2>2, ContentIsSeq
  <2>. QED
    BY <1>2, <2>1, <2>3 DEF c
<1>. QED
  BY <1>3, <1>4

\* Reading what Streams delivers to what was read before.
LEMMA StreamGoesOn ==
  ASSUME FileInv, NEW p \in Procs, NEW fd \in Fds, file_array[p][fd].type \in {"reg", "dir"},
         NEW n \in NBYTES \ {0}, ST!Read(<<p, fd>>, n)
  PROVE  LET f == file_array[p][fd]
             c == contents[f.name]
             pos == file_array'[p][fd].pos IN
         /\ file_array'[p][fd].name = f.name
         /\ pos \in Nat
         /\ SubSeq(c, 1, f.pos) \o got'.items = SubSeq(c, 1, pos)
         /\ got'.items = <<>> => SubSeq(c, 1, f.pos) = c
<1>. DEFINE f == file_array[p][fd]
            c == contents[f.name]
            h == <<p, fd>>
            count == ST!Count(h, n)
<1>1. h \in Handles /\ names[h] = f.name /\ positions[h] = f.pos
  BY DEF names, positions, Handles
<1>2. /\ file_array'[p][fd].name = names'[h] /\ file_array'[p][fd].pos = positions'[h]
  BY <1>1 DEF names, positions, Handles
<1>3. names' = names /\ positions' = [positions EXCEPT ![h] = @ + count]
      /\ got'.items = SubSeq(c, f.pos + 1, f.pos + count)
  BY <1>1 DEF ST!Read
<1>4. positions'[h] = f.pos + count
  BY <1>1, <1>3 DEF positions
<1>5. /\ c \in Seq(Range(c)) /\ Len(c) \in Nat
      /\ f.pos \in Nat /\ f.pos <= Len(c)
  BY ContentFact
<1>6. count = LET left == Len(c) - f.pos
                  most == IF f.name \in oneByOne THEN 1 ELSE n
              IN IF most < left THEN most ELSE left
  BY <1>1 DEF ST!Count
<1>7. n \in Nat /\ n > 0
  BY RequestAssumption
<1>. HIDE DEF f, c, h, count
<1>8. count \in Nat /\ f.pos + count <= Len(c) /\ (count = 0 => f.pos = Len(c))
  BY <1>5, <1>6, <1>7
<1>9. SubSeq(c, 1, f.pos) \o SubSeq(c, f.pos + 1, f.pos + count) = SubSeq(c, 1, f.pos + count)
  <2>1. /\ 1 \in 1 .. Len(c) + 1 /\ f.pos \in 1 - 1 .. Len(c)
        /\ f.pos + count \in f.pos .. Len(c)
    BY <1>5, <1>8
  <2>. QED
    BY <1>5, <2>1, ConcatAdjacentSubSeq
<1>10. ASSUME got'.items = <<>> PROVE SubSeq(c, 1, f.pos) = c
  <2>1. \A i \in f.pos + 1 .. f.pos + count : c[i] \in Range(c)
    BY <1>5, <1>8
  <2>2. Len(got'.items) = IF f.pos + 1 <= f.pos + count THEN (f.pos + count) - (f.pos + 1) + 1 ELSE 0
    BY <1>3, <1>5, <1>8, <2>1, SubSeqProperties
  <2>3. Len(got'.items) = 0
    BY <1>10
  <2>4. count = 0
    BY <1>5, <1>8, <2>2, <2>3
  <2>. QED
    BY <1>5, <1>8, <2>4, SubSeqFull
<1>11. /\ file_array'[p][fd].name = f.name
       /\ file_array'[p][fd].pos = f.pos + count
  BY <1>1, <1>2, <1>3, <1>4
<1>12. f.pos + count \in Nat
  BY <1>5, <1>8
<1>13. SubSeq(c, 1, f.pos) \o got'.items = SubSeq(c, 1, f.pos + count)
  BY <1>3, <1>9
<1>. QED
  BY <1>10, <1>11, <1>12, <1>13 DEF f, c

\* What a program has written is the beginning of a file.
Outputs == {<<>>} \cup UNION {{SubSeq(Items(e), 1, n) : n \in Nat} : e \in Entries}

UserRec == [at : {"shell", "begin", "read", "reading", "halt"}, program : {"cat", "ls", "any"},
            args : FNames \cup {<<>>}, fd : Fds \cup {0}, output : Outputs, rval : Int]

\* How cat and ls may come to their end.
Ended(u) ==
  \/ u.rval = 0 /\ Wanted(u) \in Listed /\ u.output = Items(EntryOf(Wanted(u)))
  \/ u.rval = 2 /\ Wanted(u) \notin Listed
  \/ u.rval = 3 /\ (NoArgs(u) \/ Wanted(u) \in damaged)

\* A program that reads has an open descriptor on its file, and has written what
\* is before the descriptor's position.
Opened(u, f) ==
  /\ f.type # "unuse" /\ f.name = Wanted(u)
  /\ f.type = "rtc" => f.pos = 0
  /\ u.output = SubSeq(contents[Wanted(u)], 1, f.pos)

\* A program u whose descriptors are fa and whose read in progress is r.
UserGood(u, fa, r) ==
  /\ u.at \in {"shell", "begin"} => u.output = <<>>
  /\ u.at \in {"read", "reading"} =>
       u.program # "any" /\ ~NoArgs(u) /\ u.fd \in Fds /\ Opened(u, fa[u.fd])
  /\ u.at = "reading" => r.fd = u.fd /\ r.asked = Request(u)
  /\ u.at = "halt" /\ u.program # "any" => Ended(u)

\* CommandPrintsFile speaks of the end only; the programs' loop needs that what is
\* written and the position agree at every round.
ProgInv ==
  /\ FileInv
  /\ user \in [Procs -> UserRec]
  /\ \A p \in Procs : UserGood(user[p], file_array[p], local[p])

LEMMA ShellFact == Shell \in UserRec /\ Shell.at = "shell" /\ Shell.output = <<>>
<1>1. <<>> \in Outputs
  BY DEF Outputs
<1>. QED
  BY <1>1 DEF Shell, UserRec

\* The shell is told of a failure, or of the end of a program.
LEMMA ToldFact ==
  ASSUME NEW n \in Int
  PROVE  LET v == [Shell EXCEPT !.rval = n] IN
         v \in UserRec /\ v.at = "shell" /\ v.output = <<>>
  BY ShellFact DEF UserRec

\* A program begins.
LEMMA BegunFact ==
  ASSUME NEW prog \in {"cat", "ls", "any"}, NEW args \in FNames \cup {<<>>}
  PROVE  LET v == [Shell EXCEPT !.at = "begin", !.program = prog, !.args = args] IN
         v \in UserRec /\ v.at = "begin" /\ v.output = <<>>
  BY ShellFact DEF UserRec

\* What execute makes of a typed line.
LEMMA ExecutedFact ==
  ASSUME NEW p \in Procs, NEW line \in Lines[p]
  PROVE  LET u == Executed(Command(line)) IN
         u \in UserRec /\ u.at \in {"shell", "begin"} /\ u.output = <<>>
<1>. DEFINE cmd == ParseCmd(Command(line))
            e == CHOOSE e \in Entries : IsFound(cmd.filename, e)
            u == Executed(Command(line))
<1>1. cmd.args \in FNames \cup {<<>>}
  BY LinesAssumption
<1>2. u = IF cmd.ok /\ FileValidation(cmd.filename)
          THEN [Shell EXCEPT !.at = "begin", !.program = ProgramOf[Dentry[e].inode], !.args = cmd.args]
          ELSE [Shell EXCEPT !.rval = -1]
  BY DEF Executed
<1>. HIDE DEF cmd, u
<1>3. ASSUME cmd.ok, FileValidation(cmd.filename)
      PROVE  u \in UserRec /\ u.at \in {"shell", "begin"} /\ u.output = <<>>
  <2>1. PICK d \in Entries : IsFound(cmd.filename, d) /\ Dentry[d].inode \in Inodes
    BY <1>3 DEF FileValidation, Executable
  <2>2. e \in Entries /\ IsFound(cmd.filename, e)
    BY <2>1
  <2>3. e = d
    BY <2>1, <2>2, FoundOnce
  <2>. HIDE DEF e
  <2>4. ProgramOf[Dentry[e].inode] \in {"cat", "ls", "any"}
    BY <2>1, <2>3, ProgramAssumption
  <2>5. u = [Shell EXCEPT !.at = "begin", !.program = ProgramOf[Dentry[e].inode], !.args = cmd.args]
    BY <1>2, <1>3, Zenon
  <2>. DEFINE prog == ProgramOf[Dentry[e].inode]
              args == cmd.args
  <2>6. /\ prog \in {"cat", "ls", "any"} /\ args \in FNames \cup {<<>>}
        /\ u = [Shell EXCEPT !.at = "begin", !.program = prog, !.args = args]
    BY <1>1, <2>4, <2>5
  <2>. HIDE DEF prog, args
  <2>7. /\ [Shell EXCEPT !.at = "begin", !.program = prog, !.args = args] \in UserRec
        /\ [Shell EXCEPT !.at = "begin", !.program = prog, !.args = args].at = "begin"
        /\ [Shell EXCEPT !.at = "begin", !.program = prog, !.args = args].output = <<>>
    BY <2>6, BegunFact
  <2>. QED
    BY <2>6, <2>7
<1>4. ASSUME ~(cmd.ok /\ FileValidation(cmd.filename))
      PROVE  u \in UserRec /\ u.at \in {"shell", "begin"} /\ u.output = <<>>
  <2>1. u = [Shell EXCEPT !.rval = -1]
    BY <1>2, <1>4, Zenon
  <2>2. -1 \in Int
    OBVIOUS
  <2>. QED
    BY <2>1, <2>2, ToldFact
<1>. QED
  BY <1>3, <1>4 DEF u

\* What cat and ls open and how much they ask for.
LEMMA WantedFact ==
  ASSUME NEW u \in UserRec
  PROVE  /\ ~NoArgs(u) => Wanted(u) \in FNames /\ Wanted(u) \in Seq(Chars)
         /\ Request(u) \in NBYTES \ {0}
<1>1. Request(u) \in NBYTES \ {0}
  BY ProgramAssumption DEF Request
<1>2. ~NoArgs(u) => Wanted(u) \in FNames
  BY LinesAssumption DEF UserRec, NoArgs, Wanted
<1>. QED
  BY <1>1, <1>2, NamesAssumption

\* What a program reads is known by its name and its argument.
LEMMA SameFile ==
  ASSUME NEW u, NEW v, v.program = u.program, v.args = u.args
  PROVE  Wanted(v) = Wanted(u) /\ (NoArgs(v) <=> NoArgs(u)) /\ Request(v) = Request(u)
  BY DEF Wanted, NoArgs, Request

LEMMA OutputFact ==
  ASSUME NEW e \in Entries, NEW n \in Nat
  PROVE  SubSeq(Items(e), 1, n) \in Outputs
<1>. DEFINE S == {SubSeq(Items(e), 1, m) : m \in Nat}
<1>1. SubSeq(Items(e), 1, n) \in S
  OBVIOUS
<1>2. S \in {{SubSeq(Items(d), 1, m) : m \in Nat} : d \in Entries}
  OBVIOUS
<1>. HIDE DEF S
<1>. QED
  BY <1>1, <1>2 DEF Outputs

\* A step of one program that makes its own state good keeps the invariant.
LEMMA OwnStep ==
  ASSUME ProgInv, FileInv', NEW p \in Procs,
         NEW v \in UserRec, user' = [user EXCEPT ![p] = v],
         \A q \in Procs : q # p => file_array'[q] = file_array[q] /\ local'[q] = local[q],
         UserGood(v, file_array'[p], local'[p])
  PROVE  ProgInv'
<1>1. user' \in [Procs -> UserRec] /\ \A q \in Procs : user'[q] = IF q = p THEN v ELSE user[q]
  BY DEF ProgInv
<1>2. \A q \in Procs : UserGood(user'[q], file_array'[q], local'[q])
  BY <1>1 DEF ProgInv
<1>. QED
  BY <1>1, <1>2 DEF ProgInv

\* The end of a program.
LEMMA EndsStep ==
  ASSUME ProgInv, FileInv', NEW p \in Procs, NEW status \in Int, Ends(p, status),
         \A q \in Procs : q # p => file_array'[q] = file_array[q] /\ local'[q] = local[q],
         LET u == user[p] IN
         \/ u.program = "any"
         \/ status = 0 /\ Wanted(u) \in Listed /\ u.output = Items(EntryOf(Wanted(u)))
         \/ status = 2 /\ Wanted(u) \notin Listed
         \/ status = 3 /\ (NoArgs(u) \/ Wanted(u) \in damaged)
  PROVE  ProgInv'
<1>. DEFINE u == user[p]
            v == [u EXCEPT !.at = "halt", !.rval = status]
<1>1. u \in UserRec
  BY DEF ProgInv
<1>2. user' = [user EXCEPT ![p] = v]
  BY DEF Ends, ProgInv
<1>3. /\ v \in UserRec /\ v.at = "halt" /\ v.rval = status
      /\ v.program = u.program /\ v.args = u.args /\ v.output = u.output
  BY <1>1 DEF UserRec
<1>. HIDE DEF v
<1>4. Wanted(v) = Wanted(u) /\ (NoArgs(v) <=> NoArgs(u))
  BY <1>3, SameFile
<1>5. v.program # "any" => Ended(v)
  BY <1>3, <1>4 DEF Ended
<1>6. UserGood(v, file_array'[p], local'[p])
  BY <1>3, <1>5 DEF UserGood
<1>. QED
  BY <1>2, <1>3, <1>6, OwnStep

\* A read delivered items from descriptor fd, whose file it leaves at their end.
Delivered(p, fd, items) ==
  LET f == file_array[p][fd]
      g == file_array'[p][fd]
      c == contents[f.name]
  IN /\ f.name \in Listed /\ g.name = f.name /\ g.type = f.type /\ g.pos \in Nat
     /\ items # <<>> => f.type # "rtc" /\ SubSeq(c, 1, f.pos) \o items = SubSeq(c, 1, g.pos)
     /\ items = <<>> => SubSeq(c, 1, f.pos) = c

\* What a read delivered is good for the program.
LEMMA GotStep ==
  ASSUME ProgInv, FileInv', NEW p \in Procs, NEW items, Got(p, items),
         user[p].at \in {"read", "reading"},
         \A q \in Procs : q # p => file_array'[q] = file_array[q] /\ local'[q] = local[q],
         Delivered(p, user[p].fd, items)
  PROVE  ProgInv'
<1>. DEFINE u == user[p]
            f == file_array[p][u.fd]
            g == file_array'[p][u.fd]
            c == contents[f.name]
<1>1. /\ u \in UserRec /\ u.program # "any" /\ ~NoArgs(u) /\ u.fd \in Fds
      /\ f.type # "unuse" /\ f.name = Wanted(u)
      /\ u.output = SubSeq(c, 1, f.pos)
  BY DEF ProgInv, UserGood, Opened
<1>2. /\ f.name \in Listed /\ g.name = f.name /\ g.type = f.type /\ g.pos \in Nat
      /\ items # <<>> => f.type # "rtc" /\ SubSeq(c, 1, f.pos) \o items = SubSeq(c, 1, g.pos)
      /\ items = <<>> => SubSeq(c, 1, f.pos) = c
  BY DEF Delivered
<1>3. c = Items(EntryOf(Wanted(u)))
  BY <1>1, <1>2 DEF contents
<1>4. c = contents[Wanted(u)] /\ Wanted(u) \in Listed
  BY <1>1, <1>2
<1>. HIDE DEF f, g, c
<1>5. CASE items = <<>>
  <2>1. Ends(p, 0)
    BY <1>5 DEF Got
  <2>2. u.output = Items(EntryOf(Wanted(u)))
    BY <1>1, <1>2, <1>5, <1>3
  <2>. QED
    BY <1>4, <2>1, <2>2, EndsStep
<1>6. CASE items # <<>>
  <2>. DEFINE out == u.output \o items
              v == [u EXCEPT !.output = out, !.at = "read"]
  <2>1. user' = [user EXCEPT ![p] = v]
    BY <1>6 DEF Got, Written, ProgInv
  <2>2. out = SubSeq(c, 1, g.pos)
    BY <1>1, <1>2, <1>6
  <2>. HIDE DEF out
  <2>3. out \in Outputs
    <3>1. PICK e \in Entries : Wanted(u) = NameOf(e)
      BY <1>4 DEF Listed
    <3>2. EntryOf(Wanted(u)) \in Entries
      BY <3>1, EntryFact
    <3>3. SubSeq(Items(EntryOf(Wanted(u))), 1, g.pos) \in Outputs
      BY <1>2, <3>2, OutputFact
    <3>. QED
      BY <1>3, <2>2, <3>3
  <2>4. /\ v \in UserRec /\ v.at = "read" /\ v.output = out /\ v.program = u.program
        /\ v.args = u.args /\ v.fd = u.fd
    BY <1>1, <2>3 DEF UserRec
  <2>. HIDE DEF v
  <2>5. Wanted(v) = Wanted(u) /\ (NoArgs(v) <=> NoArgs(u))
    BY <2>4, SameFile
  <2>6. Opened(v, g)
    BY <1>1, <1>2, <1>6, <1>4, <2>2, <2>4, <2>5 DEF Opened
  <2>7. UserGood(v, file_array'[p], local'[p])
    BY <1>1, <2>4, <2>5, <2>6 DEF UserGood, g
  <2>. QED
    BY <2>1, <2>4, <2>7, OwnStep
<1>. QED
  BY <1>5, <1>6

\* A read does not change what a descriptor is.
LEMMA TypeKept ==
  ASSUME FileInv, NEW p \in Procs, NEW fd \in Fds
  PROVE  /\ \A n \in NBYTES : DirectRead(p, fd, n) => file_array'[p][fd].type = file_array[p][fd].type
         /\ ReadReturns(p) => file_array'[p][fd].type = file_array[p][fd].type
<1>. DEFINE f == file_array[p][fd]
<1>1. file_array \in [Procs -> [Fds -> Descriptor]] /\ f \in Descriptor
  BY DEF FileInv, TypeOK
<1>2. ASSUME NEW n \in NBYTES, DirectRead(p, fd, n) PROVE file_array'[p][fd].type = f.type
  <2>1. CASE f.pos >= n_dentry_b
    BY <1>2, <2>1 DEF DirectRead
  <2>2. CASE ~(f.pos >= n_dentry_b)
    <3>1. file_array' = [file_array EXCEPT ![p][fd].pos = @ + 1]
      BY <1>2, <2>2 DEF DirectRead
    <3>. QED
      BY <1>1, <3>1 DEF Descriptor
  <2>. QED
    BY <2>1, <2>2
<1>3. ASSUME ReadReturns(p) PROVE file_array'[p][fd].type = f.type
  <2>. DEFINE r == local[p]
              g == Advance(file_array[p][r.fd], r)
  <2>1. r.fd \in Fds
    BY <1>3, ReadFact DEF ReadReturns
  <2>2. g.type = file_array[p][r.fd].type
    BY <1>1, <2>1 DEF Advance, Descriptor
  <2>3. file_array' = [file_array EXCEPT ![p][r.fd] = g]
    BY <1>3 DEF ReadReturns
  <2>. HIDE DEF r, g
  <2>. QED
    BY <1>1, <2>1, <2>2, <2>3
<1>. QED
  BY <1>2, <1>3

\* A read of an open descriptor that Streams describes is good for the program.
LEMMA StreamStep ==
  ASSUME ProgInv, FileInv', NEW p \in Procs,
         user[p].at \in {"read", "reading"},
         file_array[p][user[p].fd].type \in {"reg", "dir"},
         file_array'[p][user[p].fd].type = file_array[p][user[p].fd].type,
         ST!Read(<<p, user[p].fd>>, Request(user[p])),
         Got(p, got'.items),
         \A q \in Procs : q # p => file_array'[q] = file_array[q] /\ local'[q] = local[q]
  PROVE  ProgInv'
<1>. DEFINE u == user[p]
            fd == u.fd
            n == Request(u)
            f == file_array[p][fd]
            c == contents[f.name]
<1>1. u \in UserRec /\ fd \in Fds /\ FileInv
  BY DEF ProgInv, UserGood
<1>2. n \in NBYTES \ {0}
  BY <1>1, WantedFact
<1>3. /\ file_array'[p][fd].name = f.name
      /\ file_array'[p][fd].pos \in Nat
      /\ SubSeq(c, 1, f.pos) \o got'.items = SubSeq(c, 1, file_array'[p][fd].pos)
      /\ got'.items = <<>> => SubSeq(c, 1, f.pos) = c
  BY <1>1, <1>2, StreamGoesOn
<1>4. f.name \in Listed
  BY <1>1, ContentFact
<1>5. Delivered(p, fd, got'.items)
  BY <1>3, <1>4 DEF Delivered
<1>. HIDE DEF n, f, c
<1>. QED
  BY <1>5, GotStep

\* The state of another program is not touched.
LEMMA OthersKept ==
  ASSUME FileInv, NEW p \in Procs, Calls(p) \/ UNCHANGED vars
  PROVE  \A q \in Procs : q # p => file_array'[q] = file_array[q] /\ local'[q] = local[q]
<1>1. CASE Calls(p)
  BY <1>1, OwnCall
<1>2. CASE UNCHANGED vars
  BY <1>2 DEF vars
<1>. QED
  BY <1>1, <1>2

\* Each call is a step of the file system.
LEMMA CallInv ==
  ASSUME FileInv, NEW p \in Procs, Calls(p) \/ UNCHANGED vars
  PROVE  FileInv'
<1>1. CASE Calls(p)
  <2>1. Next
    BY <1>1 DEF Next
  <2>. QED
    BY <2>1, NextInv
<1>2. CASE UNCHANGED vars
  BY <1>2, NextInv
<1>. QED
  BY <1>1, <1>2

LEMMA ProgInitInv == ProgramsInit => ProgInv
<1>. SUFFICES ASSUME ProgramsInit PROVE ProgInv
  OBVIOUS
<1>1. FileInv
  BY InitInv DEF ProgramsInit
<1>2. user = [p \in Procs |-> Shell]
  BY DEF ProgramsInit
<1>3. ASSUME NEW p \in Procs PROVE UserGood(user[p], file_array[p], local[p])
  BY <1>2, ShellFact DEF UserGood
<1>. QED
  BY <1>1, <1>2, <1>3, ShellFact DEF ProgInv

LEMMA ShellExecutesInv ==
  ASSUME ProgInv, NEW p \in Procs, ShellExecutes(p)
  PROVE  ProgInv'
<1>1. PICK line \in Lines[p] : user' = [user EXCEPT ![p] = Executed(Command(line))]
  BY DEF ShellExecutes
<1>2. UNCHANGED vars
  BY DEF ShellExecutes
<1>. DEFINE v == Executed(Command(line))
<1>3. v \in UserRec /\ v.at \in {"shell", "begin"} /\ v.output = <<>>
  BY ExecutedFact
<1>4. user' = [user EXCEPT ![p] = v]
  BY <1>1
<1>. HIDE DEF v
<1>5. UserGood(v, file_array'[p], local'[p])
  BY <1>3 DEF UserGood
<1>6. FileInv' /\ \A q \in Procs : q # p => file_array'[q] = file_array[q] /\ local'[q] = local[q]
  BY <1>2, CallInv, OthersKept DEF ProgInv
<1>. QED
  BY <1>3, <1>4, <1>5, <1>6, OwnStep

LEMMA BeginsInv ==
  ASSUME ProgInv, NEW p \in Procs, Begins(p)
  PROVE  ProgInv'
<1>. DEFINE u == user[p]
<1>1. u \in UserRec /\ FileInv /\ u.at = "begin" /\ u.program # "any" /\ u.output = <<>>
  BY DEF ProgInv, Begins, UserGood
<1>2. ~NoArgs(u) => Wanted(u) \in FNames /\ Wanted(u) \in Seq(Chars)
  BY <1>1, WantedFact
<1>3. CASE NoArgs(u) /\ Ends(p, 3) /\ UNCHANGED vars
  <2>1. FileInv' /\ \A q \in Procs : q # p => file_array'[q] = file_array[q] /\ local'[q] = local[q]
    BY <1>1, <1>3, CallInv, OthersKept
  <2>. QED
    BY <1>3, <2>1, EndsStep
<1>4. CASE ~NoArgs(u) /\ (~\E e \in Entries : IsFound(Wanted(u), e)) /\ Ends(p, 2) /\ UNCHANGED vars
  <2>1. FileInv' /\ \A q \in Procs : q # p => file_array'[q] = file_array[q] /\ local'[q] = local[q]
    BY <1>1, <1>4, CallInv, OthersKept
  <2>2. Wanted(u) \notin Listed
    BY <1>2, <1>4, NameIsFound
  <2>. QED
    BY <1>4, <2>1, <2>2, EndsStep
<1>5. ASSUME ~NoArgs(u), Open(p, Wanted(u)), NEW fd \in Fds,
             file_array[p][fd].type = "unuse", file_array'[p][fd].type # "unuse",
             user' = [user EXCEPT ![p].at = "read", ![p].fd = fd]
      PROVE  ProgInv'
  <2>1. Calls(p)
    BY <1>2, <1>5 DEF Calls
  <2>2. FileInv' /\ \A q \in Procs : q # p => file_array'[q] = file_array[q] /\ local'[q] = local[q]
    BY <1>1, <2>1, CallInv, OthersKept
  <2>. DEFINE v == [u EXCEPT !.at = "read", !.fd = fd]
  <2>3. user' = [user EXCEPT ![p] = v]
    BY <1>5 DEF ProgInv
  <2>4. /\ v \in UserRec /\ v.at = "read" /\ v.fd = fd
        /\ v.program = u.program /\ v.args = u.args /\ v.output = u.output
    BY <1>1 DEF UserRec
  <2>. HIDE DEF v
  <2>5. Wanted(v) = Wanted(u) /\ (NoArgs(v) <=> NoArgs(u))
    BY <2>4, SameFile
  <2>6. PICK e \in Entries, d \in Fds :
          file_array' = [file_array EXCEPT ![p][d] =
            [type |-> Dentry[e].type, name |-> Wanted(u), inode |-> Dentry[e].inode, pos |-> 0]]
    BY <1>5 DEF Open
  <2>7. d = fd
    BY <1>1, <1>5, <2>6 DEF FileInv, TypeOK
  <2>8. file_array'[p][fd].name = Wanted(u) /\ file_array'[p][fd].pos = 0
    BY <1>1, <2>6, <2>7 DEF FileInv, TypeOK
  <2>9. SubSeq(contents[Wanted(u)], 1, 0) = <<>>
    BY SubSeqEmpty
  <2>10. Opened(v, file_array'[p][fd])
    BY <1>1, <1>5, <2>4, <2>5, <2>8, <2>9 DEF Opened
  <2>11. UserGood(v, file_array'[p], local'[p])
    BY <1>1, <1>5, <2>4, <2>5, <2>10 DEF UserGood
  <2>. QED
    BY <2>2, <2>3, <2>4, <2>11, OwnStep
<1>. QED
  BY <1>3, <1>4, <1>5 DEF Begins

\* A program that reads has an open descriptor.
LEMMA OpenedFact ==
  ASSUME ProgInv, NEW p \in Procs, user[p].at \in {"read", "reading"}
  PROVE  LET u == user[p]
             f == file_array[p][u.fd] IN
         /\ FileInv /\ u \in UserRec /\ u.program # "any" /\ ~NoArgs(u)
         /\ u.fd \in Fds /\ Request(u) \in NBYTES \ {0}
         /\ f \in Descriptor /\ f.type # "unuse" /\ f.name = Wanted(u)
         /\ f.type = "rtc" => f.pos = 0
<1>. DEFINE u == user[p]
            f == file_array[p][u.fd]
<1>1. /\ FileInv /\ u \in UserRec /\ u.program # "any" /\ ~NoArgs(u) /\ u.fd \in Fds
      /\ f.type # "unuse" /\ f.name = Wanted(u) /\ (f.type = "rtc" => f.pos = 0)
  BY DEF ProgInv, UserGood, Opened
<1>2. Request(u) \in NBYTES \ {0}
  BY <1>1, WantedFact
<1>3. f \in Descriptor
  BY <1>1, DescriptorOf
<1>. QED
  BY <1>1, <1>2, <1>3

LEMMA ReadBeginsInv ==
  ASSUME ProgInv, NEW p \in Procs, ReadBegins(p)
  PROVE  ProgInv'
<1>. DEFINE u == user[p]
            f == file_array[p][u.fd]
<1>1. u.at = "read"
  BY DEF ReadBegins
<1>2. /\ FileInv /\ u \in UserRec /\ u.program # "any" /\ ~NoArgs(u)
      /\ u.fd \in Fds /\ Request(u) \in NBYTES \ {0}
      /\ f \in Descriptor /\ f.type # "unuse" /\ f.name = Wanted(u)
      /\ f.type = "rtc" => f.pos = 0
  BY <1>1, OpenedFact
<1>3. ASSUME FileRead(p, u.fd, Request(u)), GoTo(p, "reading") PROVE ProgInv'
  <2>1. Calls(p)
    BY <1>2, <1>3 DEF Calls
  <2>2. FileInv' /\ \A q \in Procs : q # p => file_array'[q] = file_array[q] /\ local'[q] = local[q]
    BY <1>2, <2>1, CallInv, OthersKept
  <2>. DEFINE v == [u EXCEPT !.at = "reading"]
  <2>3. user' = [user EXCEPT ![p] = v]
    BY <1>3 DEF GoTo, ProgInv
  <2>4. /\ v \in UserRec /\ v.at = "reading" /\ v.fd = u.fd
        /\ v.program = u.program /\ v.args = u.args /\ v.output = u.output
    BY <1>2 DEF UserRec
  <2>. HIDE DEF v
  <2>5. Wanted(v) = Wanted(u) /\ (NoArgs(v) <=> NoArgs(u)) /\ Request(v) = Request(u)
    BY <2>4, SameFile
  <2>6. file_array' = file_array /\ local'[p].fd = u.fd /\ local'[p].asked = Request(u)
    BY <1>2, <1>3 DEF FileRead, FileInv, TypeOK
  <2>7. Opened(u, f)
    BY <1>1 DEF ProgInv, UserGood
  <2>8. Opened(v, file_array'[p][v.fd])
    BY <2>4, <2>5, <2>6, <2>7 DEF Opened
  <2>9. UserGood(v, file_array'[p], local'[p])
    BY <1>2, <2>4, <2>5, <2>6, <2>8 DEF UserGood
  <2>. QED
    BY <2>2, <2>3, <2>4, <2>9, OwnStep
<1>4. ASSUME DirectRead(p, u.fd, Request(u)), Got(p, got'.items) PROVE ProgInv'
  <2>1. Calls(p)
    BY <1>2, <1>4 DEF Calls
  <2>2. FileInv' /\ \A q \in Procs : q # p => file_array'[q] = file_array[q] /\ local'[q] = local[q]
    BY <1>2, <2>1, CallInv, OthersKept
  <2>3. f.type = "dir" /\ file_array'[p][u.fd].type = f.type
    BY <1>2, <1>4, TypeKept DEF DirectRead
  <2>4. ST!Read(<<p, u.fd>>, Request(u))
    BY <1>2, <1>4, DirectStep
  <2>. QED
    BY <1>1, <1>4, <2>2, <2>3, <2>4, StreamStep
<1>5. ASSUME f.type = "rtc", Got(p, <<>>), UNCHANGED vars PROVE ProgInv'
  <2>1. FileInv' /\ \A q \in Procs : q # p => file_array'[q] = file_array[q] /\ local'[q] = local[q]
    BY <1>2, <1>5, CallInv, OthersKept
  <2>2. file_array'[p][u.fd] = f /\ f.pos = 0
    BY <1>2, <1>5 DEF vars
  <2>3. PICK e \in Entries : f.type = Dentry[e].type /\ f.name \in Listed /\ contents[f.name] = Items(e)
    BY <1>2, DescriptorOf, HandleFact
  <2>4. contents[f.name] = <<>>
    BY <1>5, <2>3 DEF Items
  <2>5. SubSeq(contents[f.name], 1, 0) = <<>>
    BY SubSeqEmpty
  <2>6. SubSeq(contents[f.name], 1, f.pos) = contents[f.name]
    BY <2>2, <2>4, <2>5
  <2>7. Delivered(p, u.fd, <<>>)
    <3>1. 0 \in Nat
      OBVIOUS
    <3>. QED
      BY <2>2, <2>3, <2>6, <3>1 DEF Delivered
  <2>. QED
    BY <1>1, <1>5, <2>1, <2>7, GotStep
<1>. QED
  BY <1>3, <1>4, <1>5 DEF ReadBegins

LEMMA ReadGoesOnInv ==
  ASSUME ProgInv, NEW p \in Procs, ReadGoesOn(p)
  PROVE  ProgInv'
<1>. DEFINE u == user[p]
            f == file_array[p][u.fd]
<1>1. u.at = "reading"
  BY DEF ReadGoesOn
<1>2. /\ FileInv /\ u \in UserRec /\ u.program # "any" /\ ~NoArgs(u)
      /\ u.fd \in Fds /\ Request(u) \in NBYTES \ {0}
      /\ f \in Descriptor /\ f.type # "unuse" /\ f.name = Wanted(u)
  BY <1>1, OpenedFact
<1>3. local[p].fd = u.fd /\ local[p].asked = Request(u) /\ UserGood(u, file_array[p], local[p])
  BY <1>1 DEF ProgInv, UserGood
<1>4. read_data(p) => /\ FileInv'
                      /\ \A q \in Procs : q # p => file_array'[q] = file_array[q] /\ local'[q] = local[q]
  BY <1>2, CallInv, OthersKept DEF Calls
<1>5. ASSUME ReadBlock(p), UNCHANGED user PROVE ProgInv'
  <2>1. file_array' = file_array /\ local'[p].fd = local[p].fd /\ local'[p].asked = local[p].asked
    <3>1. local \in [Procs -> Local]
      BY <1>2 DEF FileInv, TypeOK, Local
    <3>2. file_array' = file_array /\ local' = [local EXCEPT ![p].i = @ + 1, ![p].buf = local'[p].buf]
      BY <1>5, <3>1 DEF ReadBlock, Local
    <3>. QED
      BY <3>1, <3>2 DEF Local
  <2>2. UserGood(u, file_array'[p], local'[p])
    BY <1>3, <2>1 DEF UserGood
  <2>3. user' = [user EXCEPT ![p] = u]
    BY <1>5 DEF ProgInv
  <2>. QED
    BY <1>2, <1>4, <1>5, <2>2, <2>3, OwnStep DEF read_data
<1>6. ASSUME ReadFails(p), Ends(p, 3) PROVE ProgInv'
  <2>1. Wanted(u) \in damaged
    BY <1>2, <1>3, <1>6, FailsDamaged
  <2>. QED
    BY <1>4, <1>6, <2>1, EndsStep DEF read_data
<1>7. ASSUME ReadReturns(p), Got(p, local[p].buf) PROVE ProgInv'
  <2>1. got'.items = local[p].buf
    BY <1>7 DEF ReadReturns
  <2>2. f.type = "reg" /\ file_array'[p][u.fd].type = f.type
    BY <1>2, <1>3, <1>7, ReadFact, TypeKept DEF ReadReturns
  <2>3. ST!Read(<<p, u.fd>>, Request(u))
    BY <1>2, <1>3, <1>7, ReturnStep
  <2>. QED
    BY <1>1, <1>4, <1>7, <2>1, <2>2, <2>3, StreamStep DEF read_data
<1>. QED
  BY <1>5, <1>6, <1>7 DEF ReadGoesOn

\* A step that leaves the programs' records alone.
LEMMA UserKept ==
  ASSUME ProgInv, NEW p \in Procs, Calls(p) \/ UNCHANGED vars, UNCHANGED user,
         user[p].at \in {"begin", "halt"}
  PROVE  ProgInv'
<1>. DEFINE u == user[p]
<1>1. FileInv /\ u \in UserRec /\ UserGood(u, file_array[p], local[p])
  BY DEF ProgInv
<1>2. UserGood(u, file_array'[p], local'[p])
  BY <1>1 DEF UserGood
<1>3. user' = [user EXCEPT ![p] = u]
  BY DEF ProgInv
<1>. QED
  BY <1>1, <1>2, <1>3, CallInv, OthersKept, OwnStep

LEMMA OtherInv ==
  ASSUME ProgInv, NEW p \in Procs, Other(p)
  PROVE  ProgInv'
<1>1. CASE Calls(p) /\ UNCHANGED user
  BY <1>1, UserKept DEF Other
<1>2. CASE Ends(p, 0) /\ UNCHANGED vars
  <2>1. FileInv' /\ \A q \in Procs : q # p => file_array'[q] = file_array[q] /\ local'[q] = local[q]
    BY <1>2, CallInv, OthersKept DEF ProgInv
  <2>2. user[p].program = "any"
    BY DEF Other
  <2>. QED
    BY <1>2, <2>1, <2>2, EndsStep
<1>. QED
  BY <1>1, <1>2 DEF Other

LEMMA HaltInv ==
  ASSUME ProgInv, NEW p \in Procs, Halt(p)
  PROVE  ProgInv'
<1>1. ASSUME NEW fd \in Fds, Close(p, fd), UNCHANGED user PROVE ProgInv'
  BY <1>1, UserKept DEF Calls, Halt
<1>2. ASSUME user' = [user EXCEPT ![p] = [Shell EXCEPT !.rval = user[p].rval]], UNCHANGED vars
      PROVE  ProgInv'
  <2>. DEFINE n == user[p].rval
              v == [Shell EXCEPT !.rval = n]
  <2>1. n \in Int
    BY DEF ProgInv, UserRec
  <2>2. user' = [user EXCEPT ![p] = v]
    BY <1>2
  <2>. HIDE DEF n
  <2>3. v \in UserRec /\ v.at = "shell" /\ v.output = <<>>
    BY <2>1, ToldFact
  <2>. HIDE DEF v
  <2>4. UserGood(v, file_array'[p], local'[p])
    BY <2>3 DEF UserGood
  <2>5. FileInv' /\ \A q \in Procs : q # p => file_array'[q] = file_array[q] /\ local'[q] = local[q]
    BY <1>2, CallInv, OthersKept DEF ProgInv
  <2>. QED
    BY <2>2, <2>3, <2>4, <2>5, OwnStep
<1>. QED
  BY <1>1, <1>2 DEF Halt

LEMMA ProgNextInv == ProgInv /\ [ProgramsNext]_<<vars, user>> => ProgInv'
<1>. SUFFICES ASSUME ProgInv, [ProgramsNext]_<<vars, user>> PROVE ProgInv'
  OBVIOUS
<1>1. CASE UNCHANGED <<vars, user>>
  BY <1>1, NextInv DEF ProgInv, vars
<1>2. CASE ProgramsNext
  BY <1>2, ShellExecutesInv, BeginsInv, ReadBeginsInv, ReadGoesOnInv, OtherInv, HaltInv
  DEF ProgramsNext
<1>. QED
  BY <1>1, <1>2

THEOREM ProgramsInvariant == ProgramsSpec => []ProgInv
<1>. QED
  BY ProgInitInv, ProgNextInv, PTL DEF ProgramsSpec

\* What the shells, cat, ls and any other program do is what FileSystem allows: they
\* open names, and read descriptors that they have opened, with the sizes it knows.
LEMMA ProgramCalls ==
  ProgInv /\ [ProgramsNext]_<<vars, user>> => [Next]_vars
<1>. SUFFICES ASSUME ProgInv, [ProgramsNext]_<<vars, user>> PROVE [Next]_vars
  OBVIOUS
<1>1. CASE UNCHANGED <<vars, user>>
  BY <1>1
<1>2. CASE ProgramsNext
  <2>. PICK p \in Procs : ShellExecutes(p) \/ Begins(p) \/ ReadBegins(p) \/ ReadGoesOn(p)
                            \/ Other(p) \/ Halt(p)
    BY <1>2 DEF ProgramsNext
  <2>1. CASE ShellExecutes(p)
    BY <2>1 DEF ShellExecutes
  <2>2. CASE Begins(p)
    <3>1. ~NoArgs(user[p]) => Wanted(user[p]) \in FNames
      BY WantedFact DEF ProgInv
    <3>. QED
      BY <2>2, <3>1 DEF Begins, Next, Calls
  <2>3. CASE ReadBegins(p)
    <3>1. user[p].fd \in Fds /\ Request(user[p]) \in NBYTES
      BY <2>3, OpenedFact DEF ReadBegins
    <3>. QED
      BY <2>3, <3>1 DEF ReadBegins, Next, Calls
  <2>4. CASE ReadGoesOn(p)
    BY <2>4 DEF ReadGoesOn, Next, Calls, read_data
  <2>5. CASE Other(p)
    BY <2>5 DEF Other, Next
  <2>6. CASE Halt(p)
    BY <2>6 DEF Halt, Next, Calls
  <2>. QED
    BY <2>1, <2>2, <2>3, <2>4, <2>5, <2>6
<1>. QED
  BY <1>1, <1>2

\* The programs use the file system as its specification says, so that what is
\* proved of every sequence of calls holds of them.
THEOREM ProgramsUseFiles == ProgramsSpec => Spec
<1>1. ProgramsInit => Init
  BY DEF ProgramsInit
<1>. QED
  BY <1>1, ProgramCalls, ProgramsInvariant, PTL DEF ProgramsSpec, Spec

\* Hence no read of theirs leaves its file, and each of their descriptors delivers
\* its file as one stream.
THEOREM ProgramsRead == ProgramsSpec => []ReadsInFile /\ ImplementsStreams
<1>. QED
  BY ProgramsUseFiles, ReadsInFileCorrect, FilesImplementStreams, PTL

\* cat prints the file it was asked for and ls the directory, from the first item to
\* the last, whatever the other programs do meanwhile.
THEOREM CommandPrintsFileCorrect == ProgramsSpec => []CommandPrintsFile
<1>1. ProgInv => CommandPrintsFile
  BY DEF ProgInv, UserGood, Ended, CommandPrintsFile
<1>. QED
  BY <1>1, ProgramsInvariant, PTL
=============================================================================
