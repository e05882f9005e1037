---------------------------- MODULE FileStreams ----------------------------
(***************************************************************************)
(* The file system implements Streams: the items of a regular file are its *)
(* bytes, those of the directory the names of all entries.                 *)
(***************************************************************************)
EXTENDS FileSystem

Listed == {NameOf(e) : e \in Entries}

EntryOf(nm) == CHOOSE e \in Entries : NameOf(e) = nm

BytesOf(inode) == [k \in 1 .. FileLength[inode] |-> ByteAt(inode, k - 1)]

\* What is behind an entry.  Nothing is read of the RTC here.
Items(e) ==
  LET inode == Dentry[e].inode IN
  CASE Dentry[e].type = "reg" -> BytesOf(inode)
    [] Dentry[e].type = "dir" -> [k \in 1 .. n_dentry_b |-> NameOf(k - 1)]
    [] OTHER -> <<>>

Intact(e) == \A b \in 0 .. N_BLOCKS - 1 :
  b * BLOCK_SIZE < FileLength[Dentry[e].inode] =>
    IdxBlock[Dentry[e].inode][b] < n_data_block_b

Handles == Procs \X Fds

contents  == [nm \in Listed |-> Items(EntryOf(nm))]
oneByOne  == {NameOf(e) : e \in {d \in Entries : Dentry[d].type = "dir"}}
damaged   == {NameOf(e) : e \in {d \in Entries : Dentry[d].type = "reg" /\ ~Intact(d)}}
names     == [h \in Handles |-> file_array[h[1]][h[2]].name]
positions == [h \in Handles |-> file_array[h[1]][h[2]].pos]

ST == INSTANCE Streams WITH
        Names    <- Listed,
        Closed   <- <<NUL>>,
        Content  <- contents,
        OneByOne <- oneByOne,
        Damaged  <- damaged,
        Requests <- NBYTES,
        name     <- names,
        pos      <- positions,
        got      <- got

\* Opens, reads and closes of any programs deliver every file as one stream.
ImplementsStreams == ST!Spec
=============================================================================
