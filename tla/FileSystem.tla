----------------------------- MODULE FileSystem -----------------------------
(***************************************************************************)
(* The read-only file system of the MP3 kernel: open by name, the read of  *)
(* a regular file block by block, the read of the directory, and the file  *)
(* position of each descriptor.                                            *)
(*                                                                         *)
(* The image (boot block, inodes, data blocks) is in memory and never      *)
(* changes.  read executes sti, so a program may be preempted between any  *)
(* two rounds of the loop of read_data; each round is an action.  Lengths  *)
(* and offsets are far below 2^32, so unsigned sums do not wrap.           *)
(*                                                                         *)
(* Abstracted: which of the processes runs (module Kernel: each touches    *)
(* its own PCB), and reading an RTC descriptor (module Rtc).               *)
(***************************************************************************)
EXTENDS Integers, Sequences

CONSTANTS
  Procs,           \* the processes that read files
  N_FILES,         \* size of a PCB's file_array (8 in sys_calls.h)
  BLOCK_SIZE,      \* 4096
  N_BLOCKS,        \* size of idx_block (1023 in types.h)
  STR_LEN,         \* size of f_name (32)
  Bytes, Chars,    \* what files and names are made of
  n_dentry_b, n_inode_b, n_data_block_b,
  Dentry,          \* p_dentry: name, type and inode of each entry
  FileLength,      \* the length of each inode
  IdxBlock,        \* the idx_block of each inode
  Data,            \* p_data: the bytes of each data block
  FNames,          \* the names that programs pass to open
  NBYTES           \* the nbytes that programs pass to read

NUL == "NUL"
INI_FILES == 2

Fds     == INI_FILES .. N_FILES - 1
Entries == 0 .. n_dentry_b - 1
Inodes  == 0 .. n_inode_b - 1
Blocks  == 0 .. n_data_block_b - 1
Types   == {"rtc", "dir", "reg"}

\* The name in an entry: up to the first NUL, if there is one.
EndsAt(e, n) ==
  /\ n = STR_LEN \/ Dentry[e].name[n] = NUL
  /\ \A k \in 0 .. n - 1 : Dentry[e].name[k] # NUL
NameOf(e) ==
  [k \in 1 .. (CHOOSE n \in 0 .. STR_LEN : EndsAt(e, n)) |-> Dentry[e].name[k - 1]]

ASSUME SizeAssumption ==
  /\ BLOCK_SIZE \in Nat \ {0}
  /\ N_FILES \in Nat /\ N_BLOCKS \in Nat /\ STR_LEN \in Nat
  /\ n_dentry_b \in Nat /\ n_inode_b \in Nat /\ n_data_block_b \in Nat
ASSUME NamesAssumption ==
  /\ NUL \notin Chars
  /\ FNames \subseteq Seq(Chars)
ASSUME RequestAssumption == NBYTES \subseteq Nat
\* What the tool that writes the image guarantees; a data block may be missing.
ASSUME ImageAssumption ==
  /\ Dentry \in [Entries -> [name  : [0 .. STR_LEN - 1 -> Chars \cup {NUL}],
                             type  : Types,
                             inode : Nat]]
  /\ \A e \in Entries : Dentry[e].type = "reg" => Dentry[e].inode \in Inodes
  /\ \A e, d \in Entries : NameOf(e) = NameOf(d) => e = d
  /\ FileLength \in [Inodes -> Nat]
  /\ \A i \in Inodes : FileLength[i] <= N_BLOCKS * BLOCK_SIZE
  /\ IdxBlock \in [Inodes -> [0 .. N_BLOCKS - 1 -> Nat]]
  /\ Data \in [Blocks -> [0 .. BLOCK_SIZE - 1 -> Bytes]]

VARIABLES
  file_array,   \* the dynamic descriptors of each process
  pc,           \* "loop" in the loop of read_data
  local,        \* the locals of file_read and read_data
  got           \* the value and the buffer that the last read returned

vars == <<file_array, pc, local, got>>

Dead == [fd |-> 0, asked |-> 0, offset |-> 0, length |-> 0, i |-> 0, buf |-> <<>>]
Free == [type |-> "unuse", name |-> <<NUL>>, inode |-> 0, pos |-> 0]

Init ==
  /\ file_array = [p \in Procs |-> [fd \in Fds |-> Free]]
  /\ pc = [p \in Procs |-> "user"]
  /\ local = [p \in Procs |-> Dead]
  /\ got = [to |-> <<NUL>>, asked |-> 0, ok |-> TRUE, items |-> <<>>]

-----------------------------------------------------------------------------
(* open and close. *)

\* Mistake: an entry whose name begins with the string.
Matches_Prefix(fname, e) ==
  /\ Len(fname) <= STR_LEN
  /\ \A j \in 0 .. Len(fname) - 1 : fname[j + 1] = Dentry[e].name[j]

\* The comparison of read_dentry_by_name.
Matches(fname, e) ==
  /\ Len(fname) <= STR_LEN
  /\ \A j \in 0 .. Len(fname) - 1 : fname[j + 1] = Dentry[e].name[j]
  /\ Len(fname) < STR_LEN => Dentry[e].name[Len(fname)] = NUL

\* read_dentry_by_name finds the first entry that matches.
IsFound(fname, e) ==
  Matches(fname, e) /\ \A d \in 0 .. e - 1 : ~Matches(fname, d)

\* open takes the first free descriptor.  The name in it is history.  What else
\* a free descriptor holds is never read (open sets every field), so close
\* leaves Free.
Open(p, fname) ==
  /\ pc[p] = "user"
  /\ \E e \in Entries, fd \in Fds :
       /\ IsFound(fname, e)
       /\ file_array[p][fd].type = "unuse"
       /\ \A i \in INI_FILES .. fd - 1 : file_array[p][i].type # "unuse"
       /\ file_array' = [file_array EXCEPT ![p][fd] =
            [type |-> Dentry[e].type, name |-> fname, inode |-> Dentry[e].inode, pos |-> 0]]
  /\ UNCHANGED <<pc, local, got>>

Close(p, fd) ==
  /\ pc[p] = "user"
  /\ file_array[p][fd].type # "unuse"
  /\ file_array' = [file_array EXCEPT ![p][fd] = Free]
  /\ UNCHANGED <<pc, local, got>>

-----------------------------------------------------------------------------
(* read of a regular file. *)

\* Mistake: the end of the file compared with the wrong sum.
Clip_Late(inode, offset, nbytes) ==
  IF nbytes > FileLength[inode] THEN FileLength[inode] - offset ELSE nbytes

\* file_read does not read past the end of the file.
Clip(inode, offset, nbytes) ==
  IF offset + nbytes > FileLength[inode] THEN FileLength[inode] - offset ELSE nbytes

\* file_read, and read_data up to its loop.
FileRead(p, fd, nbytes) ==
  LET f == file_array[p][fd] IN
  /\ pc[p] = "user"
  /\ f.type = "reg"
  /\ local' = [local EXCEPT ![p] =
       [fd |-> fd, asked |-> nbytes, offset |-> f.pos,
        length |-> Clip(f.inode, f.pos, nbytes), i |-> f.pos \div BLOCK_SIZE, buf |-> <<>>]]
  /\ pc' = [pc EXCEPT ![p] = "loop"]
  /\ UNCHANGED <<file_array, got>>

InodeOf(p) == file_array[p][local[p].fd].inode

\* The size of a file in blocks.
FileSize(inode) ==
  FileLength[inode] \div BLOCK_SIZE + (IF FileLength[inode] % BLOCK_SIZE # 0 THEN 1 ELSE 0)

\* The loop ends behind the last block of the read or of the file.
LoopEnds(p) ==
  LET r == local[p] IN
  \/ r.i > (r.length + r.offset) \div BLOCK_SIZE
  \/ r.i >= FileSize(InodeOf(p))

BlockExists(p) == IdxBlock[InodeOf(p)][local[p].i] < n_data_block_b

\* Mistake: every block read from its start.
StartIdx_Zero(r) == 0

\* The bytes of block i that the round delivers: start_idx and end_idx count in
\* the first and the last block only.
StartIdx(r) == IF r.i = r.offset \div BLOCK_SIZE THEN r.offset % BLOCK_SIZE ELSE 0
EndIdx(r) ==
  IF r.i = (r.length + r.offset) \div BLOCK_SIZE THEN (r.length + r.offset) % BLOCK_SIZE
  ELSE BLOCK_SIZE

\* A round of the loop of read_data.
ReadBlock(p) ==
  LET r == local[p] IN
  /\ pc[p] = "loop"
  /\ ~LoopEnds(p)
  /\ BlockExists(p)
  /\ local' = [local EXCEPT
       ![p].i = @ + 1,
       ![p].buf = @ \o [k \in 1 .. EndIdx(r) - StartIdx(r) |->
                          Data[IdxBlock[InodeOf(p)][r.i]][StartIdx(r) + k - 1]]]
  /\ UNCHANGED <<file_array, pc, got>>

\* A round that meets a missing data block: the read fails.
ReadFails(p) ==
  /\ pc[p] = "loop"
  /\ ~LoopEnds(p)
  /\ ~BlockExists(p)
  /\ pc' = [pc EXCEPT ![p] = "user"]
  /\ got' = [to |-> <<p, local[p].fd>>, asked |-> local[p].asked, ok |-> FALSE, items |-> <<>>]
  /\ local' = [local EXCEPT ![p] = Dead]
  /\ UNCHANGED file_array

Advance(f, r) == [f EXCEPT !.pos = @ + Len(r.buf)]

\* The loop ends and file_read advances the position.
ReadReturns(p) ==
  LET r == local[p] IN
  /\ pc[p] = "loop"
  /\ LoopEnds(p)
  /\ pc' = [pc EXCEPT ![p] = "user"]
  /\ file_array' = [file_array EXCEPT ![p][r.fd] = Advance(@, r)]
  /\ got' = [to |-> <<p, r.fd>>, asked |-> r.asked, ok |-> TRUE, items |-> r.buf]
  /\ local' = [local EXCEPT ![p] = Dead]

\* read_data from its loop on.
read_data(p) == ReadBlock(p) \/ ReadFails(p) \/ ReadReturns(p)

\* read of the directory: the next name, whatever nbytes is.
DirectRead(p, fd, nbytes) ==
  LET f == file_array[p][fd] IN
  /\ pc[p] = "user"
  /\ f.type = "dir"
  /\ IF f.pos >= n_dentry_b
     THEN /\ got' = [to |-> <<p, fd>>, asked |-> nbytes, ok |-> TRUE, items |-> <<>>]
          /\ UNCHANGED file_array
     ELSE /\ got' = [to |-> <<p, fd>>, asked |-> nbytes, ok |-> TRUE,
                     items |-> <<NameOf(f.pos)>>]
          /\ file_array' = [file_array EXCEPT ![p][fd].pos = @ + 1]
  /\ UNCHANGED <<pc, local>>

\* The system calls of a process.
Calls(p) ==
  \/ \E fname \in FNames : Open(p, fname)
  \/ \E fd \in Fds : Close(p, fd)
  \/ \E fd \in Fds, nbytes \in NBYTES : FileRead(p, fd, nbytes) \/ DirectRead(p, fd, nbytes)
  \/ read_data(p)

Next == \E p \in Procs : Calls(p)

Spec == Init /\ [][Next]_vars

-----------------------------------------------------------------------------
Descriptor == [type : Types \cup {"unuse"}, name : Seq(Chars \cup {NUL}), inode : Nat, pos : Nat]

TypeOK ==
  /\ file_array \in [Procs -> [Fds -> Descriptor]]
  /\ pc \in [Procs -> {"user", "loop"}]
  /\ local \in [Procs -> [fd : Fds \cup {0}, asked : NBYTES \cup {0}, offset : Nat,
                          length : Nat, i : Nat, buf : Seq(Bytes)]]
  /\ got.ok \in BOOLEAN

\* The byte of a file at an offset (any byte where the data block is missing).
ByteAt(inode, n) ==
  LET block == IdxBlock[inode][n \div BLOCK_SIZE] IN
  IF block < n_data_block_b THEN Data[block][n % BLOCK_SIZE] ELSE CHOOSE b \in Bytes : TRUE

\* The position of a regular file never leaves it: file_read computes how much
\* is left with an unsigned difference.
PositionInFile ==
  \A p \in Procs, fd \in Fds :
    file_array[p][fd].type = "reg" => file_array[p][fd].pos <= FileLength[file_array[p][fd].inode]

\* Whatever block boundaries a read crosses, its buffer holds the bytes of the
\* file that follow the position, in order and without a gap, and no more than
\* it may.
BufferFollowsFile ==
  \A p \in Procs : pc[p] = "loop" =>
    LET r == local[p] IN
    /\ Len(r.buf) <= r.length
    /\ LoopEnds(p) => Len(r.buf) = r.length
    /\ \A k \in 1 .. Len(r.buf) : r.buf[k] = ByteAt(InodeOf(p), r.offset + k - 1)

\* The two together: neither a position nor a buffer of any descriptor leaves its file.
ReadsInFile == PositionInFile /\ BufferFollowsFile
=============================================================================
