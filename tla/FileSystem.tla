----------------------------- MODULE FileSystem -----------------------------
(***************************************************************************)
(* The read-only file system image and the functions of filesys.c that     *)
(* look entries up and copy bytes out of it.  A byte is named by its place *)
(* in the image, <<data block, offset in it>>, so that two bytes are equal *)
(* only if they are the same byte of the same block.                       *)
(***************************************************************************)
EXTENDS Integers, Sequences, SequencesExt

CONSTANTS
  Dentries,       \* the directory: records [name, type, inode] in order
  Inodes,         \* inode number -> [length, blocks]
  BlockSize,      \* BLOCK_SIZE
  MaxDataBlocks   \* MAX_DATA_BLOCKS

(* The file types of the image.                                            *)
Device    == 0
Directory == 1
File      == 2

ASSUME BlockSizeAssumption == BlockSize \in Nat \ {0}
ASSUME DentriesAssumption ==
  Dentries \in Seq([name : STRING, type : {Device, Directory, File}, inode : Int])
ASSUME InodesAssumption ==
  \A n \in DOMAIN Inodes : /\ Inodes[n].length \in Nat
                           /\ Inodes[n].blocks \in Seq(Nat)
                           /\ Len(Inodes[n].blocks) * BlockSize >= Inodes[n].length

Missing == [name |-> "", type |-> -1, inode |-> -1]

(* read_dentry_by_name: the first entry of that name.                      *)
DentryByName(name) ==
  LET found == {i \in DOMAIN Dentries : Dentries[i].name = name} IN
  IF found = {} THEN Missing ELSE Dentries[Min(found)]

FileLength(inode) == Inodes[inode].length

(* An entry of an inode's block array; the image fills it up with zeros.   *)
DataBlock(inode, i) ==
  IF i < Len(Inodes[inode].blocks) THEN Inodes[inode].blocks[i + 1] ELSE 0

-----------------------------------------------------------------------------
(* read_data.  The loop keeps the number of the block it believes to be in *)
(* (blockIdx), the block it copies from (cur), the offset in it and the    *)
(* position since it entered the block; both ways it may return are marked *)
(* in end.                                                                 *)
CopyByte(s) ==
  [s EXCEPT !.data = Append(@, <<s.cur, s.tmp + s.pos>>), !.pos = @ + 1]

(* Wrong on purpose: the block of the offset is ignored.                   *)
FirstBlockAlways(inode, offset) == DataBlock(inode, 0)

FirstBlock(inode, offset) == DataBlock(inode, offset \div BlockSize)

NextBlock(inode, s) ==
  [s EXCEPT !.blockIdx = @ + 1, !.cur = DataBlock(inode, s.blockIdx + 1),
            !.tmp = 0, !.pos = 0]

(* Wrong on purpose: only the number of bytes read tells the end.          *)
ReadBytePastEnd(inode, offset, s) ==
  IF Len(s.data) >= FileLength(inode) THEN [s EXCEPT !.end = "eof"]
  ELSE IF s.pos + s.tmp < BlockSize THEN CopyByte(s)
  ELSE CopyByte(NextBlock(inode, s))

ReadByte(inode, offset, s) ==
  LET next == NextBlock(inode, s) IN
  CASE s.end # "no" -> s
    [] s.end = "no" /\ (\/ Len(s.data) >= FileLength(inode)
                        \/ offset + s.pos >= FileLength(inode)) ->
         [s EXCEPT !.end = "eof"]
    [] OTHER ->
         CASE s.pos + s.tmp < BlockSize -> CopyByte(s)
           [] s.pos + s.tmp >= BlockSize /\ next.cur # 0
                                         /\ next.blockIdx <= MaxDataBlocks ->
                CopyByte(next)
           [] OTHER -> [s EXCEPT !.end = "bad"]

ReadLoop(inode, offset, length) ==
  LET loop[i \in 0 .. length] ==
        IF i = 0
          THEN [blockIdx |-> 0, cur |-> FirstBlock(inode, offset),
                tmp |-> offset % BlockSize, pos |-> 0, data |-> <<>>,
                end |-> "no"]
          ELSE ReadByte(inode, offset, loop[i - 1])
  IN loop[length]

(* What read_data returns, and the bytes it has copied.                    *)
ReadData(inode, offset, length) ==
  LET s == ReadLoop(inode, offset, length) IN
  [ret |-> IF s.end = "bad" THEN -1 ELSE Len(s.data), data |-> s.data]

-----------------------------------------------------------------------------
(* What a file is: the bytes of its blocks in order, up to its length; and *)
(* what reading it should give.                                            *)
FileBytes(inode) ==
  [i \in 1 .. FileLength(inode) |->
     <<DataBlock(inode, (i - 1) \div BlockSize), (i - 1) % BlockSize>>]

Extract(bytes, offset, length) == SubSeq(bytes, offset + 1,
  IF offset + length < Len(bytes) THEN offset + length ELSE Len(bytes))

(* An image that read_data can read: every block after the first that      *)
(* holds bytes of the file has a number that it takes for good.            *)
Readable(inode) ==
  \A i \in 1 .. FileLength(inode) :
    i * BlockSize < FileLength(inode) =>
      DataBlock(inode, i) # 0 /\ i <= MaxDataBlocks
=============================================================================
