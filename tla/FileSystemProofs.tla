-------------------------- MODULE FileSystemProofs --------------------------
(***************************************************************************)
(* What read_data computes, for every image, offset and length.  The loop  *)
(* is a recursive function; a fact about all its iterations is proved from *)
(* the first iteration that would break it, with WFMin, because the        *)
(* induction theorems of the library take an operator.                     *)
(***************************************************************************)
EXTENDS FileSystem, InductionProofs, SequenceTheorems

-----------------------------------------------------------------------------
(* Looking up names.                                                       *)

DentryType == [name : STRING, type : {Device, Directory, File}, inode : Int]

(* What read_dentry_by_name finds is a directory entry of that name; if it *)
(* finds none, there is none.                                              *)
THEOREM DentryFound ==
  ASSUME NEW name
  PROVE  /\ DentryByName(name) # Missing =>
              DentryByName(name) \in DentryType /\ DentryByName(name).name = name
         /\ DentryByName(name) = Missing =>
              \A i \in DOMAIN Dentries : Dentries[i].name # name
<1> DEFINE found == {i \in DOMAIN Dentries : Dentries[i].name = name}
<1>1. DentryByName(name) = IF found = {} THEN Missing ELSE Dentries[Min(found)]
  BY DEF DentryByName
<1>2. \A k \in DOMAIN Dentries : Dentries[k] \in DentryType /\ k \in Nat
  <2>1. Dentries \in Seq(DentryType)
    BY DentriesAssumption DEF DentryType
  <2>2. \A k \in 1 .. Len(Dentries) : Dentries[k] \in DentryType
    BY <2>1, ElementOfSeq
  <2>3. DOMAIN Dentries = 1 .. Len(Dentries) /\ Len(Dentries) \in Nat
    BY <2>1, LenProperties
  <2> QED BY <2>2, <2>3
<1>3. ASSUME found # {}
      PROVE  Min(found) \in found
  <2>1. found \subseteq Nat
    BY <1>2
  <2>2. Min(found) = CHOOSE x \in found : \A y \in found : x <= y
    BY DEF Min
  <2> HIDE DEF found
  <2>3. \E n \in found : \A m \in found : n <= m
    BY <1>3, <2>1, LeastNatural
  <2> QED BY <2>2, <2>3
<1>4. ASSUME found # {}
      PROVE  /\ DentryByName(name) \in DentryType /\ DentryByName(name).name = name
             /\ DentryByName(name) # Missing
  <2>1. DentryByName(name) = Dentries[Min(found)]
    BY <1>1, <1>4
  <2>2. Dentries[Min(found)] \in DentryType /\ Dentries[Min(found)].name = name
    BY <1>2, <1>3, <1>4
  <2>3. Dentries[Min(found)].type # -1
    BY <2>2 DEF DentryType, Device, Directory, File
  <2>4. Missing.type = -1
    BY DEF Missing
  <2> QED BY <2>1, <2>2, <2>3, <2>4
<1>5. CASE found = {}
  BY <1>1, <1>5
<1> QED BY <1>4, <1>5

-----------------------------------------------------------------------------
(* The loop of read_data, iteration by iteration.                          *)

LoopStart(inode, offset) ==
  [blockIdx |-> 0, cur |-> FirstBlock(inode, offset),
   tmp |-> offset % BlockSize, pos |-> 0, data |-> <<>>, end |-> "no"]

(* f holds the states of the loop after 0, 1, ..., n iterations.           *)
IsLoop(f, inode, offset, n) ==
  f = [i \in 0 .. n |-> IF i = 0 THEN LoopStart(inode, offset)
                                 ELSE ReadByte(inode, offset, f[i - 1])]

(* There is such a function for every number of iterations.                *)
LEMMA LoopExists ==
  ASSUME NEW inode, NEW offset
  PROVE  \A n \in Nat : \E f : IsLoop(f, inode, offset, n)
<1> DEFINE S == {n \in Nat : \E f : IsLoop(f, inode, offset, n)}
<1>1. 0 \in S
  <2> DEFINE f == [i \in 0 .. 0 |-> LoopStart(inode, offset)]
  <2>1. f = [i \in 0 .. 0 |-> IF i = 0 THEN LoopStart(inode, offset)
                              ELSE ReadByte(inode, offset, f[i - 1])]
    OBVIOUS
  <2> QED BY <2>1 DEF IsLoop
<1>2. ASSUME NEW n \in Nat, n \in S PROVE n + 1 \in S
  <2>1. PICK f : IsLoop(f, inode, offset, n)
    BY <1>2
  <2> DEFINE g == [i \in 0 .. n + 1 |->
                     IF i = n + 1 THEN ReadByte(inode, offset, f[n]) ELSE f[i]]
  <2>2. ASSUME NEW i \in 0 .. n + 1
        PROVE  g[i] = IF i = 0 THEN LoopStart(inode, offset)
                               ELSE ReadByte(inode, offset, g[i - 1])
    <3>1. CASE i = n + 1
      <4>1. i # 0 /\ i - 1 = n /\ n \in 0 .. n + 1 /\ n # n + 1
        BY <3>1
      <4> QED BY <3>1, <4>1
    <3>2. CASE i # n + 1
      <4>1. i \in 0 .. n /\ g[i] = f[i]
        BY <3>2
      <4>2. f[i] = IF i = 0 THEN LoopStart(inode, offset)
                            ELSE ReadByte(inode, offset, f[i - 1])
        BY <2>1, <4>1 DEF IsLoop
      <4>3. i # 0 => i - 1 \in 0 .. n + 1 /\ i - 1 # n + 1
        BY <4>1
      <4> QED BY <4>1, <4>2, <4>3
    <3> QED BY <3>1, <3>2
  <2>3. IsLoop(g, inode, offset, n + 1)
    BY <2>2 DEF IsLoop
  <2> HIDE DEF g
  <2> QED BY <2>3
<1> HIDE DEF S
<1>3. \A n \in Nat : n \in S
  BY <1>1, <1>2, Induction
<1> QED BY <1>3 DEF S

(* Two such functions agree where both are defined.                        *)
LEMMA LoopUnique ==
  ASSUME NEW inode, NEW offset, NEW n \in Nat, NEW m \in Nat, NEW f, NEW g,
         IsLoop(f, inode, offset, n), IsLoop(g, inode, offset, m)
  PROVE  \A i \in Nat : i <= n /\ i <= m => f[i] = g[i]
<1> DEFINE S == {i \in Nat : i <= n /\ i <= m => f[i] = g[i]}
<1>a. /\ \A i \in 0 .. n : f[i] = IF i = 0 THEN LoopStart(inode, offset)
                                  ELSE ReadByte(inode, offset, f[i - 1])
      /\ \A i \in 0 .. m : g[i] = IF i = 0 THEN LoopStart(inode, offset)
                                  ELSE ReadByte(inode, offset, g[i - 1])
  BY DEF IsLoop
<1>1. 0 \in S
  <2>1. 0 \in 0 .. n /\ 0 \in 0 .. m
    OBVIOUS
  <2> QED BY <1>a, <2>1
<1>2. ASSUME NEW i \in Nat, i \in S PROVE i + 1 \in S
  <2>1. CASE i + 1 <= n /\ i + 1 <= m
    <3>1. /\ i + 1 \in 0 .. n /\ i + 1 \in 0 .. m /\ i + 1 # 0
          /\ (i + 1) - 1 = i /\ i <= n /\ i <= m
      BY <2>1
    <3>2. f[i] = g[i]
      BY <1>2, <3>1
    <3> QED BY <1>a, <3>1, <3>2
  <2>2. CASE ~(i + 1 <= n /\ i + 1 <= m)
    BY <2>2
  <2> QED BY <2>1, <2>2
<1> HIDE DEF S
<1>3. \A i \in Nat : i \in S
  BY <1>1, <1>2, Induction
<1> QED BY <1>3 DEF S

(* ReadLoop is the last state of the loop.                                 *)
LEMMA ReadLoopValue ==
  ASSUME NEW inode, NEW offset, NEW n \in Nat
  PROVE  \E f : IsLoop(f, inode, offset, n) /\ ReadLoop(inode, offset, n) = f[n]
<1> DEFINE f == CHOOSE f : IsLoop(f, inode, offset, n)
<1>1. ReadLoop(inode, offset, n) = f[n]
  BY DEF ReadLoop, IsLoop, LoopStart
<1>2. IsLoop(f, inode, offset, n)
  BY LoopExists
<1> HIDE DEF f
<1> QED BY <1>1, <1>2

(* The recursion equations of read_data's loop: one more iteration is one  *)
(* more step from the state that the iterations before it have left.       *)
THEOREM ReadLoopSteps ==
  ASSUME NEW inode, NEW offset
  PROVE  /\ ReadLoop(inode, offset, 0) = LoopStart(inode, offset)
         /\ \A n \in Nat : ReadLoop(inode, offset, n + 1) =
                             ReadByte(inode, offset, ReadLoop(inode, offset, n))
<1>1. ReadLoop(inode, offset, 0) = LoopStart(inode, offset)
  <2>1. PICK f : IsLoop(f, inode, offset, 0) /\ ReadLoop(inode, offset, 0) = f[0]
    BY ReadLoopValue
  <2> QED BY <2>1 DEF IsLoop
<1>2. ASSUME NEW n \in Nat
      PROVE  ReadLoop(inode, offset, n + 1) =
               ReadByte(inode, offset, ReadLoop(inode, offset, n))
  <2>1. PICK f : IsLoop(f, inode, offset, n) /\ ReadLoop(inode, offset, n) = f[n]
    BY ReadLoopValue
  <2>2. PICK g : /\ IsLoop(g, inode, offset, n + 1)
                 /\ ReadLoop(inode, offset, n + 1) = g[n + 1]
    BY ReadLoopValue
  <2>3. f[n] = g[n]
    <3>1. n + 1 \in Nat /\ n <= n /\ n <= n + 1
      OBVIOUS
    <3> QED BY <2>1, <2>2, <3>1, LoopUnique
  <2>4. g[n + 1] = ReadByte(inode, offset, g[n])
    <3>1. n + 1 \in 0 .. n + 1 /\ n + 1 # 0 /\ (n + 1) - 1 = n
      OBVIOUS
    <3> QED BY <2>2, <3>1 DEF IsLoop
  <2> QED BY <2>1, <2>2, <2>3, <2>4
<1> QED BY <1>1, <1>2

-----------------------------------------------------------------------------
(* One iteration.                                                          *)

Byte == Nat \X Nat

LoopType == [blockIdx : Nat, cur : Nat, tmp : Nat, pos : Nat,
             data : Seq(Byte), end : {"no", "eof", "bad"}]

AtEnd(inode, offset, s) ==
  \/ Len(s.data) >= FileLength(inode)
  \/ offset + s.pos >= FileLength(inode)

(* The quotient and the remainder that a product and a rest determine.     *)
LEMMA DivModOf ==
  ASSUME NEW b \in Nat \ {0}, NEW q \in Nat, NEW r \in 0 .. b - 1
  PROVE  (q * b + r) \div b = q /\ (q * b + r) % b = r
OBVIOUS

(* Every number is its quotient times the divisor and the remainder.       *)
LEMMA DivMod ==
  ASSUME NEW b \in Nat \ {0}, NEW a \in Nat
  PROVE  \E q \in Nat, r \in 0 .. b - 1 : a = q * b + r /\ a \div b = q /\ a % b = r
<1>1. a \div b \in Nat /\ a % b \in 0 .. b - 1
  OBVIOUS
<1>2. a % b = a - b * (a \div b)
  OBVIOUS
<1>3. PICK q \in Nat : q = a \div b
  BY <1>1
<1>4. b * q \in Nat /\ b * q = q * b
  OBVIOUS
<1>5. PICK m \in Nat : m = b * q
  BY <1>4
<1>6. PICK r \in Nat : r = a % b
  BY <1>1
<1>7. a = m + r
  <2>1. r = a - m
    BY <1>2, <1>3, <1>5, <1>6
  <2> QED BY <2>1
<1>8. a = q * b + r
  BY <1>7, <1>5, <1>4
<1>9. r \in 0 .. b - 1
  BY <1>1, <1>6
<1> QED BY <1>3, <1>6, <1>8, <1>9

(* The numbers of data blocks and the length of a file are naturals.       *)
LEMMA InodeTypes ==
  ASSUME NEW inode \in DOMAIN Inodes
  PROVE  /\ FileLength(inode) \in Nat
         /\ Inodes[inode].blocks \in Seq(Nat)
         /\ Len(Inodes[inode].blocks) \in Nat
         /\ \A i \in Nat : DataBlock(inode, i) \in Nat
<1>1. FileLength(inode) \in Nat /\ Inodes[inode].blocks \in Seq(Nat)
  BY InodesAssumption DEF FileLength
<1>2. Len(Inodes[inode].blocks) \in Nat
  BY <1>1
<1>3. ASSUME NEW i \in Nat
      PROVE  DataBlock(inode, i) \in Nat
  <2>1. CASE i < Len(Inodes[inode].blocks)
    <3>1. i + 1 \in 1 .. Len(Inodes[inode].blocks)
      BY <1>2, <2>1
    <3>2. Inodes[inode].blocks[i + 1] \in Nat
      BY <1>1, <3>1, ElementOfSeq
    <3> QED BY <2>1, <3>2 DEF DataBlock
  <2>2. CASE ~(i < Len(Inodes[inode].blocks))
    BY <2>2 DEF DataBlock
  <2> QED BY <2>1, <2>2
<1> QED BY <1>1, <1>2, <1>3

LoopState(b, c, t, p, d, e) ==
  [blockIdx |-> b, cur |-> c, tmp |-> t, pos |-> p, data |-> d, end |-> e]

(* A state of the loop is the record of its fields.                        *)
LEMMA LoopFields ==
  ASSUME NEW s \in LoopType
  PROVE  \E b, c, t, p \in Nat, d \in Seq(Byte), e \in {"no", "eof", "bad"} :
           s = LoopState(b, c, t, p, d, e)
<1>1. s = LoopState(s.blockIdx, s.cur, s.tmp, s.pos, s.data, s.end)
  BY DEF LoopType, LoopState
<1>2. /\ s.blockIdx \in Nat /\ s.cur \in Nat /\ s.tmp \in Nat /\ s.pos \in Nat
      /\ s.data \in Seq(Byte) /\ s.end \in {"no", "eof", "bad"}
  BY DEF LoopType
<1> QED BY <1>1, <1>2

(* Such a record is a state of the loop.                                   *)
LEMMA LoopStateType ==
  ASSUME NEW b \in Nat, NEW c \in Nat, NEW t \in Nat, NEW p \in Nat,
         NEW d \in Seq(Byte), NEW e \in {"no", "eof", "bad"}
  PROVE  LoopState(b, c, t, p, d, e) \in LoopType
BY DEF LoopState, LoopType

(* What one copied byte changes.                                           *)
LEMMA CopyByteFields ==
  ASSUME NEW s \in LoopType
  PROVE  /\ CopyByte(s) \in LoopType
         /\ CopyByte(s).data = Append(s.data, <<s.cur, s.tmp + s.pos>>)
         /\ CopyByte(s).pos = s.pos + 1
         /\ CopyByte(s).blockIdx = s.blockIdx /\ CopyByte(s).cur = s.cur
         /\ CopyByte(s).tmp = s.tmp /\ CopyByte(s).end = s.end
         /\ Len(CopyByte(s).data) = Len(s.data) + 1
         /\ \A j \in 1 .. Len(s.data) : CopyByte(s).data[j] = s.data[j]
         /\ CopyByte(s).data[Len(s.data) + 1] = <<s.cur, s.tmp + s.pos>>
<1>1. s.data \in Seq(Byte) /\ <<s.cur, s.tmp + s.pos>> \in Byte
  BY DEF LoopType, Byte
<1>2. /\ Append(s.data, <<s.cur, s.tmp + s.pos>>) \in Seq(Byte)
      /\ Len(Append(s.data, <<s.cur, s.tmp + s.pos>>)) = Len(s.data) + 1
      /\ \A j \in 1 .. Len(s.data) : Append(s.data, <<s.cur, s.tmp + s.pos>>)[j] = s.data[j]
      /\ Append(s.data, <<s.cur, s.tmp + s.pos>>)[Len(s.data) + 1] = <<s.cur, s.tmp + s.pos>>
  <2> DEFINE e == <<s.cur, s.tmp + s.pos>>
  <2> HIDE DEF e
  <2> SUFFICES /\ Append(s.data, e) \in Seq(Byte)
               /\ Len(Append(s.data, e)) = Len(s.data) + 1
               /\ \A j \in 1 .. Len(s.data) : Append(s.data, e)[j] = s.data[j]
               /\ Append(s.data, e)[Len(s.data) + 1] = e
    BY DEF e
  <2> QED BY <1>1 DEF e
<1>3. PICK b, c, t, p \in Nat, d \in Seq(Byte), e \in {"no", "eof", "bad"} :
        s = LoopState(b, c, t, p, d, e)
  BY LoopFields
<1>4. /\ s.blockIdx = b /\ s.cur = c /\ s.tmp = t /\ s.pos = p
      /\ s.data = d /\ s.end = e
  BY <1>3 DEF LoopState
<1>5. PICK x \in Seq(Byte) : x = Append(s.data, <<s.cur, s.tmp + s.pos>>)
  BY <1>2
<1>6. PICK y \in Nat : y = s.pos + 1
  BY <1>4
<1>7. CopyByte(s) = [s EXCEPT !.data = x, !.pos = y]
  BY <1>5, <1>6 DEF CopyByte
<1>8. CopyByte(s) = LoopState(b, c, t, y, x, e)
  <2>1. [s EXCEPT !.data = x] = LoopState(b, c, t, p, x, e)
    BY <1>3 DEF LoopState
  <2>2. [LoopState(b, c, t, p, x, e) EXCEPT !.pos = y] = LoopState(b, c, t, y, x, e)
    BY DEF LoopState
  <2>3. [[s EXCEPT !.data = x] EXCEPT !.pos = y] = LoopState(b, c, t, y, x, e)
    BY <2>1, <2>2
  <2>4. [s EXCEPT !.data = x, !.pos = y] = [[s EXCEPT !.data = x] EXCEPT !.pos = y]
    OBVIOUS
  <2> QED BY <1>7, <2>3, <2>4
<1>9. CopyByte(s) \in LoopType
  BY <1>8, LoopStateType
<1>10. /\ CopyByte(s).data = x /\ CopyByte(s).pos = y
       /\ CopyByte(s).blockIdx = b /\ CopyByte(s).cur = c
       /\ CopyByte(s).tmp = t /\ CopyByte(s).end = e
  BY <1>8 DEF LoopState
<1> QED BY <1>2, <1>4, <1>5, <1>6, <1>9, <1>10

(* Where the loop goes on when a block is used up.                         *)
LEMMA NextBlockFields ==
  ASSUME NEW inode \in DOMAIN Inodes, NEW s \in LoopType
  PROVE  /\ NextBlock(inode, s) \in LoopType
         /\ NextBlock(inode, s).data = s.data
         /\ NextBlock(inode, s).pos = 0 /\ NextBlock(inode, s).tmp = 0
         /\ NextBlock(inode, s).blockIdx = s.blockIdx + 1
         /\ NextBlock(inode, s).cur = DataBlock(inode, s.blockIdx + 1)
         /\ NextBlock(inode, s).end = s.end
<1>1. PICK b, c, t, p \in Nat, d \in Seq(Byte), e \in {"no", "eof", "bad"} :
        s = LoopState(b, c, t, p, d, e)
  BY LoopFields
<1>2. s.blockIdx = b /\ s.data = d /\ s.end = e
  BY <1>1 DEF LoopState
<1>3. NextBlock(inode, s) = LoopState(b + 1, DataBlock(inode, b + 1), 0, 0, d, e)
  <2> DEFINE x == DataBlock(inode, b + 1)
             r1 == [s EXCEPT !.blockIdx = s.blockIdx + 1]
             r2 == [r1 EXCEPT !.cur = DataBlock(inode, s.blockIdx + 1)]
             r3 == [r2 EXCEPT !.tmp = 0]
  <2>1. NextBlock(inode, s) = [r3 EXCEPT !.pos = 0]
    BY DEF NextBlock
  <2>2. r1 = LoopState(b + 1, c, t, p, d, e)
    BY <1>1, <1>2 DEF LoopState
  <2> HIDE DEF r1, x
  <2>3. r2 = LoopState(b + 1, x, t, p, d, e)
    <3>1. [LoopState(b + 1, c, t, p, d, e) EXCEPT !.cur = x] = LoopState(b + 1, x, t, p, d, e)
      BY DEF LoopState
    <3>2. x = DataBlock(inode, s.blockIdx + 1)
      BY <1>2 DEF x
    <3> QED BY <2>2, <3>1, <3>2
  <2> HIDE DEF r2
  <2>4. r3 = LoopState(b + 1, x, 0, p, d, e)
    BY <2>3 DEF LoopState
  <2> HIDE DEF r3
  <2>5. [LoopState(b + 1, x, 0, p, d, e) EXCEPT !.pos = 0] = LoopState(b + 1, x, 0, 0, d, e)
    BY DEF LoopState
  <2> QED BY <2>1, <2>4, <2>5 DEF x
<1>4. b + 1 \in Nat /\ DataBlock(inode, b + 1) \in Nat
  BY InodeTypes
<1>5. NextBlock(inode, s) \in LoopType
  BY <1>3, <1>4, LoopStateType
<1> QED BY <1>2, <1>3, <1>5 DEF LoopState

(* The five outcomes of an iteration.                                      *)
LEMMA ReadByteCases ==
  ASSUME NEW inode \in DOMAIN Inodes, NEW offset \in Nat, NEW s \in LoopType
  PROVE  \/ s.end # "no" /\ ReadByte(inode, offset, s) = s
         \/ /\ s.end = "no" /\ AtEnd(inode, offset, s)
            /\ ReadByte(inode, offset, s) = [s EXCEPT !.end = "eof"]
         \/ /\ s.end = "no" /\ ~AtEnd(inode, offset, s)
            /\ s.pos + s.tmp < BlockSize
            /\ ReadByte(inode, offset, s) = CopyByte(s)
         \/ /\ s.end = "no" /\ ~AtEnd(inode, offset, s)
            /\ s.pos + s.tmp >= BlockSize
            /\ ReadByte(inode, offset, s) = CopyByte(NextBlock(inode, s))
         \/ /\ s.end = "no" /\ ~AtEnd(inode, offset, s)
            /\ s.pos + s.tmp >= BlockSize
            /\ \/ DataBlock(inode, s.blockIdx + 1) = 0
               \/ ~(s.blockIdx + 1 <= MaxDataBlocks)
            /\ ReadByte(inode, offset, s) = [s EXCEPT !.end = "bad"]
<1> DEFINE r == ReadByte(inode, offset, s)
<1>1. CASE s.end # "no"
  BY <1>1 DEF ReadByte
<1>2. CASE s.end = "no" /\ AtEnd(inode, offset, s)
  BY <1>2 DEF ReadByte, AtEnd
<1>3. CASE s.end = "no" /\ ~AtEnd(inode, offset, s)
  <2>1. ReadByte(inode, offset, s) =
          CASE s.pos + s.tmp < BlockSize -> CopyByte(s)
            [] s.pos + s.tmp >= BlockSize /\ NextBlock(inode, s).cur # 0
                      /\ NextBlock(inode, s).blockIdx <= MaxDataBlocks ->
                 CopyByte(NextBlock(inode, s))
            [] OTHER -> [s EXCEPT !.end = "bad"]
    BY <1>3 DEF ReadByte, AtEnd
  <2>2. s.pos + s.tmp \in Nat /\ BlockSize \in Nat
    BY BlockSizeAssumption DEF LoopType
  <2> QED BY <1>3, <2>1, <2>2, NextBlockFields
<1> QED BY <1>1, <1>2, <1>3

(* Ending the loop changes nothing else.                                   *)
LEMMA EndFields ==
  ASSUME NEW s \in LoopType, NEW how \in {"eof", "bad"},
         NEW r, r = [s EXCEPT !.end = how]
  PROVE  /\ r \in LoopType /\ r.end = how
         /\ r.blockIdx = s.blockIdx /\ r.cur = s.cur /\ r.tmp = s.tmp
         /\ r.pos = s.pos /\ r.data = s.data
<1>1. PICK b, c, t, p \in Nat, d \in Seq(Byte), e \in {"no", "eof", "bad"} :
        s = LoopState(b, c, t, p, d, e)
  BY LoopFields
<1>2. r = LoopState(b, c, t, p, d, how)
  BY <1>1 DEF LoopState
<1>3. r \in LoopType
  BY <1>2, LoopStateType
<1> QED BY <1>1, <1>2, <1>3 DEF LoopState

-----------------------------------------------------------------------------
(* Reading from the start of a file, across as many blocks as it takes.    *)

(* The byte that lies i bytes behind the start of a file.                  *)
ByteAt(inode, i) == <<DataBlock(inode, i \div BlockSize), i % BlockSize>>

(* Where the loop stops for a bad block number.                            *)
NoNextBlock(inode, s) ==
  \/ DataBlock(inode, s.blockIdx + 1) = 0
  \/ ~(s.blockIdx + 1 <= MaxDataBlocks)

(* The invariant of the loop after n iterations: blockIdx and pos are the  *)
(* quotient and the remainder of the number of bytes copied, except that a *)
(* block that has just been used up is left only for the next byte.        *)
WholeInv(inode, n, s) ==
  /\ s \in LoopType
  /\ s.tmp = 0 /\ s.pos <= BlockSize
  /\ s.cur = DataBlock(inode, s.blockIdx)
  /\ Len(s.data) = s.blockIdx * BlockSize + s.pos
  /\ Len(s.data) <= FileLength(inode) /\ Len(s.data) <= n
  /\ \A j \in 1 .. Len(s.data) : s.data[j] = ByteAt(inode, j - 1)
  /\ s.end = "no" => Len(s.data) = n
  /\ s.end = "eof" => Len(s.data) = FileLength(inode)
  /\ s.end = "bad" => /\ s.pos = BlockSize /\ NoNextBlock(inode, s)
                      /\ Len(s.data) < FileLength(inode)

(* A byte copied from inside a block.                                      *)
LEMMA WholeCopy ==
  ASSUME NEW inode \in DOMAIN Inodes, NEW n \in Nat, NEW s \in LoopType,
         s.tmp = 0, s.pos < BlockSize, s.cur = DataBlock(inode, s.blockIdx),
         Len(s.data) = s.blockIdx * BlockSize + s.pos,
         Len(s.data) < FileLength(inode), Len(s.data) = n, s.end = "no",
         \A j \in 1 .. Len(s.data) : s.data[j] = ByteAt(inode, j - 1)
  PROVE  WholeInv(inode, n + 1, CopyByte(s))
<1> DEFINE r == CopyByte(s)
<1>1. /\ r \in LoopType
      /\ r.pos = s.pos + 1 /\ r.blockIdx = s.blockIdx /\ r.cur = s.cur
      /\ r.tmp = s.tmp /\ r.end = s.end /\ Len(r.data) = Len(s.data) + 1
      /\ \A j \in 1 .. Len(s.data) : r.data[j] = s.data[j]
      /\ r.data[Len(s.data) + 1] = <<s.cur, s.tmp + s.pos>>
  BY CopyByteFields
<1> HIDE DEF r
<1>2. PICK b \in Nat, p \in Nat, l \in Nat :
        b = s.blockIdx /\ p = s.pos /\ l = Len(s.data)
  BY DEF LoopType
<1>3. PICK B \in Nat \ {0} : B = BlockSize
  BY BlockSizeAssumption
<1>4. p \in 0 .. B - 1 /\ l = b * B + p
  BY <1>2, <1>3
<1>5. ByteAt(inode, l) = <<s.cur, s.tmp + s.pos>>
  <2>1. l \div B = b /\ l % B = p
    BY <1>4, DivModOf
  <2> QED BY <1>2, <1>3, <2>1 DEF ByteAt
<1>6. \A j \in 1 .. Len(r.data) : r.data[j] = ByteAt(inode, j - 1)
  <2> TAKE j \in 1 .. Len(r.data)
  <2>1. CASE j = l + 1
    <3>1. j - 1 = l
      BY <2>1
    <3> QED BY <1>1, <1>2, <1>5, <2>1, <3>1
  <2>2. CASE j # l + 1
    <3>1. j \in 1 .. Len(s.data)
      BY <1>1, <1>2, <2>2
    <3> QED BY <1>1, <3>1
  <2> QED BY <2>1, <2>2
<1>7. FileLength(inode) \in Nat
  BY InodeTypes
<1>8. Len(r.data) = r.blockIdx * BlockSize + r.pos
  <2>1. l + 1 = b * B + (p + 1)
    <3>1. PICK m \in Nat : m = b * B
      OBVIOUS
    <3> QED BY <1>4, <3>1
  <2> QED BY <1>1, <1>2, <1>3, <2>1
<1>9. r.pos <= BlockSize
  BY <1>1, <1>2, <1>3, <1>4
<1>10. Len(r.data) <= FileLength(inode) /\ Len(r.data) = n + 1
  BY <1>1, <1>2, <1>7
<1>11. WholeInv(inode, n + 1, r)
  BY <1>1, <1>6, <1>8, <1>9, <1>10 DEF WholeInv
<1> QED BY <1>11 DEF r

(* Every iteration keeps the invariant.                                    *)
LEMMA WholeStep ==
  ASSUME NEW inode \in DOMAIN Inodes, NEW n \in Nat, NEW s,
         WholeInv(inode, n, s)
  PROVE  WholeInv(inode, n + 1, ReadByte(inode, 0, s))
<1> DEFINE r == ReadByte(inode, 0, s)
<1>0. s \in LoopType /\ 0 \in Nat
  BY DEF WholeInv
<1>1. /\ s.pos \in Nat /\ s.tmp \in Nat /\ s.blockIdx \in Nat /\ Len(s.data) \in Nat
      /\ s.end \in {"no", "eof", "bad"}
  BY <1>0 DEF LoopType
<1>2. FileLength(inode) \in Nat /\ BlockSize \in Nat \ {0}
  BY InodeTypes, BlockSizeAssumption
<1>3. s.blockIdx * BlockSize \in Nat
  BY <1>1, <1>2
<1>4. s.pos <= Len(s.data)
  <2>1. PICK m \in Nat : m = s.blockIdx * BlockSize
    BY <1>3
  <2> QED BY <1>1, <2>1 DEF WholeInv
<1>5. CASE s.end # "no" /\ r = s
  <2>1. Len(s.data) <= n + 1
    BY <1>1 DEF WholeInv
  <2>2. WholeInv(inode, n + 1, s)
    BY <1>5, <2>1 DEF WholeInv
  <2> QED BY <1>5, <2>2
<1>6. CASE /\ s.end = "no" /\ AtEnd(inode, 0, s)
           /\ r = [s EXCEPT !.end = "eof"]
  <2>1. /\ r \in LoopType /\ r.end = "eof"
        /\ r.blockIdx = s.blockIdx /\ r.cur = s.cur /\ r.tmp = s.tmp
        /\ r.pos = s.pos /\ r.data = s.data
    BY <1>0, <1>6, EndFields
  <2>2. Len(s.data) = FileLength(inode)
    BY <1>1, <1>2, <1>4, <1>6 DEF AtEnd, WholeInv
  <2>3. Len(s.data) <= n + 1
    BY <1>1 DEF WholeInv
  <2> HIDE DEF r
  <2>4. WholeInv(inode, n + 1, r)
    BY <2>1, <2>2, <2>3 DEF WholeInv
  <2> QED BY <2>4 DEF r
<1>7. CASE /\ s.end = "no" /\ ~AtEnd(inode, 0, s)
           /\ s.pos + s.tmp < BlockSize /\ r = CopyByte(s)
  <2>1. Len(s.data) < FileLength(inode) /\ s.pos < BlockSize
    BY <1>1, <1>2, <1>7 DEF AtEnd, WholeInv
  <2>2. WholeInv(inode, n + 1, CopyByte(s))
    BY <1>0, <1>7, <2>1, WholeCopy DEF WholeInv
  <2> QED BY <1>7, <2>2
<1>8. CASE /\ s.end = "no" /\ ~AtEnd(inode, 0, s)
           /\ s.pos + s.tmp >= BlockSize /\ r = CopyByte(NextBlock(inode, s))
  <2> DEFINE t == NextBlock(inode, s)
  <2>1. /\ t \in LoopType /\ t.data = s.data
        /\ t.pos = 0 /\ t.tmp = 0 /\ t.blockIdx = s.blockIdx + 1
        /\ t.cur = DataBlock(inode, s.blockIdx + 1) /\ t.end = s.end
    BY <1>0, NextBlockFields
  <2> HIDE DEF t
  <2>2. Len(s.data) < FileLength(inode) /\ s.pos = BlockSize
    BY <1>1, <1>2, <1>8 DEF AtEnd, WholeInv
  <2>3. Len(t.data) = t.blockIdx * BlockSize + t.pos
    <3>1. (s.blockIdx + 1) * BlockSize = s.blockIdx * BlockSize + BlockSize
      BY <1>1, <1>2
    <3>2. (s.blockIdx + 1) * BlockSize + 0 = (s.blockIdx + 1) * BlockSize
      BY <1>1, <1>2
    <3>3. Len(s.data) = s.blockIdx * BlockSize + BlockSize
      BY <2>2 DEF WholeInv
    <3> QED BY <2>1, <3>1, <3>2, <3>3
  <2>4. t.pos < BlockSize
    BY <1>2, <2>1
  <2>5. /\ Len(t.data) < FileLength(inode) /\ Len(t.data) = n /\ t.end = "no"
        /\ t.cur = DataBlock(inode, t.blockIdx)
        /\ \A j \in 1 .. Len(t.data) : t.data[j] = ByteAt(inode, j - 1)
    BY <1>8, <2>1, <2>2 DEF WholeInv
  <2>6. WholeInv(inode, n + 1, CopyByte(t))
    BY <2>1, <2>3, <2>4, <2>5, WholeCopy
  <2> QED BY <1>8, <2>6 DEF t
<1>9. CASE /\ s.end = "no" /\ ~AtEnd(inode, 0, s)
           /\ s.pos + s.tmp >= BlockSize /\ NoNextBlock(inode, s)
           /\ r = [s EXCEPT !.end = "bad"]
  <2>1. /\ r \in LoopType /\ r.end = "bad"
        /\ r.blockIdx = s.blockIdx /\ r.cur = s.cur /\ r.tmp = s.tmp
        /\ r.pos = s.pos /\ r.data = s.data
    BY <1>0, <1>9, EndFields
  <2>2. Len(s.data) < FileLength(inode) /\ s.pos = BlockSize
    BY <1>1, <1>2, <1>9 DEF AtEnd, WholeInv
  <2>3. Len(s.data) <= n + 1
    BY <1>1 DEF WholeInv
  <2> HIDE DEF r
  <2>4. NoNextBlock(inode, r)
    BY <1>9, <2>1 DEF NoNextBlock
  <2>5. WholeInv(inode, n + 1, r)
    BY <2>1, <2>2, <2>3, <2>4 DEF WholeInv
  <2> QED BY <2>5 DEF r
<1> QED BY <1>0, <1>5, <1>6, <1>7, <1>8, <1>9, ReadByteCases DEF NoNextBlock

(* It holds after every number of iterations.                              *)
LEMMA WholeLoop ==
  ASSUME NEW inode \in DOMAIN Inodes
  PROVE  \A n \in Nat : WholeInv(inode, n, ReadLoop(inode, 0, n))
<1> DEFINE S == {n \in Nat : WholeInv(inode, n, ReadLoop(inode, 0, n))}
<1>1. 0 \in S
  <2>1. BlockSize \in Nat \ {0} /\ FileLength(inode) \in Nat
    BY BlockSizeAssumption, InodeTypes
  <2>2. 0 \div BlockSize = 0 /\ 0 % BlockSize = 0 /\ 0 * BlockSize + 0 = 0
    BY <2>1
  <2>3. DataBlock(inode, 0) \in Nat
    BY InodeTypes
  <2>4. LoopStart(inode, 0) = LoopState(0, DataBlock(inode, 0), 0, 0, <<>>, "no")
    BY <2>2 DEF LoopStart, LoopState, FirstBlock
  <2>5. PICK d \in Seq(Byte) : d = <<>> /\ Len(d) = 0
    <3>1. <<>> \in Seq(Byte) /\ Len(<<>>) = 0
      BY EmptySeq
    <3> QED BY <3>1
  <2>6. LoopStart(inode, 0) \in LoopType
    <3>1. LoopState(0, DataBlock(inode, 0), 0, 0, d, "no") \in LoopType
      BY <2>3, LoopStateType
    <3> QED BY <2>4, <2>5, <3>1
  <2>7. WholeInv(inode, 0, LoopStart(inode, 0))
    BY <2>1, <2>2, <2>4, <2>5, <2>6 DEF WholeInv, LoopState
  <2> QED BY <2>7, ReadLoopSteps
<1>2. ASSUME NEW n \in Nat, n \in S PROVE n + 1 \in S
  <2>1. WholeInv(inode, n, ReadLoop(inode, 0, n))
    BY <1>2
  <2>2. WholeInv(inode, n + 1, ReadByte(inode, 0, ReadLoop(inode, 0, n)))
    BY <2>1, WholeStep
  <2>3. ReadLoop(inode, 0, n + 1) = ReadByte(inode, 0, ReadLoop(inode, 0, n))
    BY ReadLoopSteps
  <2> QED BY <2>2, <2>3
<1> HIDE DEF S
<1>3. \A n \in Nat : n \in S
  BY <1>1, <1>2, Induction
<1> QED BY <1>3 DEF S

-----------------------------------------------------------------------------
(* The bytes of a file as a sequence.                                      *)
LEMMA FileBytesType ==
  ASSUME NEW inode \in DOMAIN Inodes
  PROVE  /\ FileBytes(inode) \in Seq(Byte)
         /\ Len(FileBytes(inode)) = FileLength(inode)
         /\ \A j \in 1 .. FileLength(inode) : FileBytes(inode)[j] = ByteAt(inode, j - 1)
<1>1. PICK l \in Nat : l = FileLength(inode)
  BY InodeTypes
<1>2. FileBytes(inode) = [i \in 1 .. l |-> ByteAt(inode, i - 1)]
  BY <1>1 DEF FileBytes, ByteAt
<1>3. ASSUME NEW i \in 1 .. l PROVE ByteAt(inode, i - 1) \in Byte
  <2>1. i - 1 \in Nat /\ BlockSize \in Nat \ {0}
    BY BlockSizeAssumption
  <2>2. (i - 1) \div BlockSize \in Nat /\ (i - 1) % BlockSize \in Nat
    BY <2>1
  <2> QED BY <2>2, InodeTypes DEF ByteAt, Byte
<1>4. FileBytes(inode) \in [1 .. l -> Byte]
  BY <1>2, <1>3
<1>5. FileBytes(inode) \in Seq(Byte)
  BY <1>4, SeqDef
<1>6. Len(FileBytes(inode)) = l
  BY <1>2, <1>5, LenProperties
<1> QED BY <1>1, <1>2, <1>5, <1>6

(* What lies in a file at an offset, byte by byte.                         *)
LEMMA ExtractBytes ==
  ASSUME NEW inode \in DOMAIN Inodes, NEW offset \in 0 .. FileLength(inode),
         NEW m \in Nat, NEW d \in Seq(Byte),
         Len(d) = IF offset + m < FileLength(inode)
                    THEN m ELSE FileLength(inode) - offset,
         \A j \in 1 .. Len(d) : d[j] = ByteAt(inode, offset + j - 1)
  PROVE  d = Extract(FileBytes(inode), offset, m)
<1>1. PICK l \in Nat : l = FileLength(inode)
  BY InodeTypes
<1>2. PICK f \in Seq(Byte) : f = FileBytes(inode)
  BY FileBytesType
<1>3. Len(f) = l /\ \A j \in 1 .. l : f[j] = ByteAt(inode, j - 1)
  BY <1>1, <1>2, FileBytesType
<1>4. PICK o \in Nat : o = offset /\ o <= l
  BY <1>1
<1>5. PICK z \in Nat : z = o + Len(d) /\ z <= l
  BY <1>1, <1>4
<1>6. z = IF o + m < l THEN o + m ELSE l
  BY <1>1, <1>4, <1>5
<1>7. Extract(FileBytes(inode), offset, m) = SubSeq(f, o + 1, z)
  BY <1>2, <1>3, <1>4, <1>6 DEF Extract
<1>8. CASE Len(d) = 0
  <2>1. z < o + 1 /\ o + 1 \in Int /\ z \in Int
    BY <1>4, <1>5, <1>8
  <2>2. SubSeq(f, o + 1, z) = <<>>
    BY <2>1, SubSeqEmpty
  <2>3. d = <<>>
    BY <1>8, EmptySeq
  <2> QED BY <1>7, <2>2, <2>3
<1>9. CASE Len(d) # 0
  <2>1. o + 1 <= z /\ \A i \in o + 1 .. z : i \in 1 .. Len(f)
    BY <1>3, <1>4, <1>5, <1>9
  <2>2. /\ SubSeq(f, o + 1, z) \in Seq(Byte)
        /\ Len(SubSeq(f, o + 1, z)) = Len(d)
        /\ \A j \in 1 .. Len(d) : SubSeq(f, o + 1, z)[j] = f[o + j]
    <3>1. \A i \in o + 1 .. z : f[i] \in Byte
      BY <1>2, <2>1, ElementOfSeq
    <3>2. o + 1 \in Int /\ z \in Int /\ o + 1 <= z /\ z - (o + 1) + 1 = Len(d)
      BY <1>4, <1>5, <2>1
    <3>3. /\ SubSeq(f, o + 1, z) \in Seq(Byte)
          /\ Len(SubSeq(f, o + 1, z)) = z - (o + 1) + 1
          /\ \A j \in 1 .. z - (o + 1) + 1 : SubSeq(f, o + 1, z)[j] = f[(o + 1) + j - 1]
      BY <3>1, <3>2, SubSeqProperties
    <3>4. \A j \in 1 .. Len(d) : (o + 1) + j - 1 = o + j
      BY <1>4
    <3> QED BY <3>2, <3>3, <3>4
  <2>3. ASSUME NEW j \in 1 .. Len(d) PROVE SubSeq(f, o + 1, z)[j] = d[j]
    <3>1. o + j \in 1 .. l /\ offset + j - 1 = (o + j) - 1
      BY <1>4, <1>5
    <3> QED BY <1>3, <2>2, <3>1
  <2>4. SubSeq(f, o + 1, z) = d
    BY <2>2, <2>3, SeqEqual
  <2> QED BY <1>7, <2>4
<1> QED BY <1>8, <1>9

(* What read_data returns for a state of its loop.                         *)
LEMMA ReadDataValue ==
  ASSUME NEW inode, NEW offset, NEW n,
         NEW s, s = ReadLoop(inode, offset, n)
  PROVE  /\ ReadData(inode, offset, n).data = s.data
         /\ ReadData(inode, offset, n).ret = IF s.end = "bad" THEN -1 ELSE Len(s.data)
BY DEF ReadData

(* A read from the start of a file delivers its first bytes, never more    *)
(* than it has; if the numbers of its blocks are good, it does not fail    *)
(* and delivers all that was asked for or all that there are.              *)
THEOREM ReadFromStart ==
  ASSUME NEW inode \in DOMAIN Inodes, NEW n \in Nat
  PROVE  LET read == ReadData(inode, 0, n) IN
         /\ read.data \in Seq(Byte) /\ Len(read.data) <= FileLength(inode)
         /\ read.ret \in {-1, Len(read.data)}
         /\ Readable(inode) => /\ read.ret = Len(read.data)
                               /\ read.data = Extract(FileBytes(inode), 0, n)
<1> DEFINE s == ReadLoop(inode, 0, n)
<1>1. WholeInv(inode, n, s)
  BY WholeLoop
<1>2. /\ ReadData(inode, 0, n).data = s.data
      /\ ReadData(inode, 0, n).ret = IF s.end = "bad" THEN -1 ELSE Len(s.data)
  BY ReadDataValue
<1> HIDE DEF s
<1>3. s.data \in Seq(Byte) /\ Len(s.data) \in Nat /\ s.blockIdx \in Nat /\ s.end \in {"no", "eof", "bad"}
  BY <1>1 DEF WholeInv, LoopType
<1>4. PICK l \in Nat : l = FileLength(inode)
  BY InodeTypes
<1>5. ASSUME Readable(inode)
      PROVE  s.end # "bad" /\ s.data = Extract(FileBytes(inode), 0, n)
  <2>1. ASSUME s.end = "bad" PROVE FALSE
    <3>1. /\ s.pos = BlockSize /\ NoNextBlock(inode, s)
          /\ Len(s.data) < l /\ Len(s.data) = s.blockIdx * BlockSize + BlockSize
      BY <1>1, <1>4, <2>1 DEF WholeInv
    <3>2. /\ s.blockIdx + 1 \in Nat \ {0}
          /\ (s.blockIdx + 1) * BlockSize = s.blockIdx * BlockSize + BlockSize
      BY <1>3, BlockSizeAssumption
    <3>3. (s.blockIdx + 1) * BlockSize < FileLength(inode)
      BY <1>4, <3>1, <3>2
    <3>4. s.blockIdx + 1 \in 1 .. FileLength(inode)
      <4>1. PICK k \in Nat \ {0}, B \in Nat \ {0} : k = s.blockIdx + 1 /\ B = BlockSize
        BY <3>2, BlockSizeAssumption
      <4>2. k <= k * B
        OBVIOUS
      <4> QED BY <1>4, <3>3, <4>1, <4>2
    <3>5. DataBlock(inode, s.blockIdx + 1) # 0 /\ s.blockIdx + 1 <= MaxDataBlocks
      BY <1>5, <3>3, <3>4 DEF Readable
    <3> QED BY <3>1, <3>5 DEF NoNextBlock
  <2>2. Len(s.data) = IF 0 + n < l THEN n ELSE l - 0
    BY <1>1, <1>3, <1>4, <2>1 DEF WholeInv
  <2>3. \A j \in 1 .. Len(s.data) : s.data[j] = ByteAt(inode, 0 + j - 1)
    <3>1. \A j \in 1 .. Len(s.data) : 0 + j - 1 = j - 1
      BY <1>3
    <3> QED BY <1>1, <3>1 DEF WholeInv
  <2>4. 0 \in 0 .. FileLength(inode)
    BY <1>4
  <2>5. s.data = Extract(FileBytes(inode), 0, n)
    BY <1>3, <1>4, <2>2, <2>3, <2>4, ExtractBytes
  <2> QED BY <2>1, <2>5
<1> QED BY <1>1, <1>2, <1>3, <1>5 DEF WholeInv

-----------------------------------------------------------------------------
(* Reading from anywhere, as far as the end of the block it starts in.     *)

(* Either the loop has left its first block, or it has copied the bytes    *)
(* from the offset on and ended for one of three reasons.                  *)
InFirstBlock(inode, offset, n, s) ==
  /\ (offset % BlockSize) + Len(s.data) <= BlockSize
  /\ s.cur = FirstBlock(inode, offset) /\ s.tmp = offset % BlockSize
  /\ s.pos = Len(s.data) /\ offset + Len(s.data) <= FileLength(inode)
  /\ \A j \in 1 .. Len(s.data) : s.data[j] = ByteAt(inode, offset + j - 1)
  /\ s.end = "no" => Len(s.data) = n
  /\ s.end = "eof" => offset + Len(s.data) = FileLength(inode)
  /\ s.end = "bad" => Len(s.data) < n /\ (offset % BlockSize) + Len(s.data) = BlockSize

BlockInv(inode, offset, n, s) ==
  /\ s \in LoopType
  /\ Len(s.data) <= n
  /\ s.end = "no" => Len(s.data) = n
  /\ \/ (offset % BlockSize) + Len(s.data) > BlockSize
     \/ InFirstBlock(inode, offset, n, s)

(* Every iteration keeps the invariant.                                    *)
LEMMA BlockStep ==
  ASSUME NEW inode \in DOMAIN Inodes, NEW offset \in 0 .. FileLength(inode),
         NEW n \in Nat, NEW s, BlockInv(inode, offset, n, s)
  PROVE  BlockInv(inode, offset, n + 1, ReadByte(inode, offset, s))
<1> DEFINE r == ReadByte(inode, offset, s)
<1>0. s \in LoopType /\ offset \in Nat
  BY InodeTypes DEF BlockInv
<1>1. /\ s.pos \in Nat /\ s.tmp \in Nat /\ Len(s.data) \in Nat
      /\ s.end \in {"no", "eof", "bad"}
  BY <1>0 DEF LoopType
<1>2. PICK l \in Nat, B \in Nat \ {0} : l = FileLength(inode) /\ B = BlockSize
  BY InodeTypes, BlockSizeAssumption
<1>3. PICK q \in Nat, o \in 0 .. B - 1 :
        offset = q * B + o /\ offset \div B = q /\ offset % B = o
  BY <1>0, DivMod
<1>4. PICK k \in Nat : k = Len(s.data) /\ k <= n
  BY <1>1 DEF BlockInv
<1>5. CASE s.end # "no" /\ r = s
  <2>1. Len(s.data) <= n + 1 /\ (k < n => k < n + 1)
    BY <1>4
  <2>2. BlockInv(inode, offset, n + 1, s)
    BY <1>4, <1>5, <2>1 DEF BlockInv, InFirstBlock
  <2> QED BY <1>5, <2>2
<1>6. CASE /\ s.end = "no" /\ AtEnd(inode, offset, s)
           /\ r = [s EXCEPT !.end = "eof"]
  <2>1. /\ r \in LoopType /\ r.end = "eof"
        /\ r.blockIdx = s.blockIdx /\ r.cur = s.cur /\ r.tmp = s.tmp
        /\ r.pos = s.pos /\ r.data = s.data
    BY <1>0, <1>6, EndFields
  <2> HIDE DEF r
  <2>2. Len(r.data) <= n + 1
    BY <1>4, <2>1
  <2>3. CASE o + k > B
    <3>1. (offset % BlockSize) + Len(r.data) > BlockSize
      BY <1>2, <1>3, <1>4, <2>1, <2>3
    <3>2. BlockInv(inode, offset, n + 1, r)
      BY <2>1, <2>2, <3>1 DEF BlockInv
    <3> QED BY <3>2 DEF r
  <2>4. CASE ~(o + k > B)
    <3>1. InFirstBlock(inode, offset, n, s)
      BY <1>2, <1>3, <1>4, <2>4 DEF BlockInv
    <3>2. offset + Len(s.data) = FileLength(inode)
      <4>1. s.pos = k /\ offset + k <= l /\ (k >= l \/ offset + s.pos >= l)
        BY <1>2, <1>4, <1>6, <3>1 DEF InFirstBlock, AtEnd
      <4> QED BY <1>0, <1>2, <1>4, <4>1
    <3>3. InFirstBlock(inode, offset, n + 1, r)
      BY <2>1, <3>1, <3>2 DEF InFirstBlock
    <3>4. BlockInv(inode, offset, n + 1, r)
      BY <2>1, <2>2, <3>3 DEF BlockInv
    <3> QED BY <3>4 DEF r
  <2> QED BY <2>3, <2>4
<1>7. CASE /\ s.end = "no" /\ ~AtEnd(inode, offset, s)
           /\ s.pos + s.tmp < BlockSize /\ r = CopyByte(s)
  <2>1. /\ r \in LoopType
        /\ r.pos = s.pos + 1 /\ r.cur = s.cur
        /\ r.tmp = s.tmp /\ r.end = s.end /\ Len(r.data) = Len(s.data) + 1
        /\ \A j \in 1 .. Len(s.data) : r.data[j] = s.data[j]
        /\ r.data[Len(s.data) + 1] = <<s.cur, s.tmp + s.pos>>
    BY <1>0, <1>7, CopyByteFields
  <2> HIDE DEF r
  <2>2. k = n /\ Len(r.data) = n + 1 /\ r.end = "no"
    BY <1>4, <1>7, <2>1 DEF BlockInv
  <2>3. CASE o + k > B
    <3>1. (offset % BlockSize) + Len(r.data) > BlockSize
      BY <1>2, <1>3, <2>2, <2>3
    <3>2. BlockInv(inode, offset, n + 1, r)
      BY <2>1, <2>2, <3>1 DEF BlockInv
    <3> QED BY <3>2 DEF r
  <2>4. CASE ~(o + k > B)
    <3>1. InFirstBlock(inode, offset, n, s)
      BY <1>2, <1>3, <1>4, <2>4 DEF BlockInv
    <3>2. s.pos = k /\ s.tmp = o /\ s.cur = FirstBlock(inode, offset)
      BY <1>2, <1>3, <1>4, <3>1 DEF InFirstBlock
    <3>3. o + k < B /\ offset + k < l
      <4>1. k + o < B /\ ~(offset + k >= l)
        BY <1>2, <1>7, <3>2 DEF AtEnd
      <4> QED BY <1>0, <1>2, <4>1
    <3>4. ByteAt(inode, offset + k) = <<s.cur, s.tmp + s.pos>>
      <4>1. o + k \in 0 .. B - 1 /\ offset + k = q * B + (o + k)
        <5>1. PICK m \in Nat : m = q * B
          OBVIOUS
        <5> QED BY <1>3, <3>3, <5>1
      <4>2. (offset + k) \div B = q /\ (offset + k) % B = o + k
        BY <4>1, DivModOf
      <4> QED BY <1>2, <1>3, <3>2, <4>2 DEF ByteAt, FirstBlock
    <3>5. \A j \in 1 .. Len(r.data) : r.data[j] = ByteAt(inode, offset + j - 1)
      <4> TAKE j \in 1 .. Len(r.data)
      <4>1. CASE j = k + 1
        <5>1. offset + j - 1 = offset + k
          BY <1>0, <4>1
        <5> QED BY <1>4, <2>1, <3>4, <4>1, <5>1
      <4>2. CASE j # k + 1
        <5>1. j \in 1 .. Len(s.data)
          BY <1>4, <2>2, <4>2
        <5> QED BY <2>1, <3>1, <5>1 DEF InFirstBlock
      <4> QED BY <4>1, <4>2
    <3>6. /\ (offset % BlockSize) + Len(r.data) <= BlockSize
          /\ r.pos = Len(r.data) /\ offset + Len(r.data) <= FileLength(inode)
      <4>1. Len(r.data) = k + 1 /\ r.pos = k + 1
        BY <2>1, <2>2, <3>2
      <4>2. o + (k + 1) <= B /\ offset + (k + 1) <= l
        BY <1>0, <3>3
      <4> QED BY <1>2, <1>3, <4>1, <4>2
    <3>7. r.tmp = offset % BlockSize /\ r.cur = FirstBlock(inode, offset)
      BY <1>2, <1>3, <2>1, <3>2
    <3>8. InFirstBlock(inode, offset, n + 1, r)
      BY <2>2, <3>5, <3>6, <3>7 DEF InFirstBlock
    <3>9. BlockInv(inode, offset, n + 1, r)
      BY <2>1, <2>2, <3>8 DEF BlockInv
    <3> QED BY <3>9 DEF r
  <2> QED BY <2>3, <2>4
<1>8. CASE /\ s.end = "no" /\ ~AtEnd(inode, offset, s)
           /\ s.pos + s.tmp >= BlockSize /\ r = CopyByte(NextBlock(inode, s))
  <2> DEFINE t == NextBlock(inode, s)
  <2>1. t \in LoopType /\ t.data = s.data /\ t.end = s.end
    BY <1>0, NextBlockFields
  <2> HIDE DEF t
  <2>2. /\ CopyByte(t) \in LoopType /\ CopyByte(t).end = t.end
        /\ Len(CopyByte(t).data) = Len(t.data) + 1
    BY <2>1, CopyByteFields
  <2>3. r \in LoopType /\ r.end = "no" /\ Len(r.data) = k + 1
    BY <1>4, <1>8, <2>1, <2>2 DEF t
  <2> HIDE DEF r
  <2>4. k = n
    BY <1>4, <1>8 DEF BlockInv
  <2>5. o + k >= B
    <3>1. CASE o + k > B
      BY <1>2, <3>1
    <3>2. CASE ~(o + k > B)
      <4>1. InFirstBlock(inode, offset, n, s)
        BY <1>2, <1>3, <1>4, <3>2 DEF BlockInv
      <4>2. s.pos = k /\ s.tmp = o
        BY <1>2, <1>3, <1>4, <4>1 DEF InFirstBlock
      <4> QED BY <1>2, <1>8, <4>2
    <3> QED BY <3>1, <3>2
  <2>6. (offset % BlockSize) + Len(r.data) > BlockSize
    BY <1>2, <1>3, <2>3, <2>5
  <2>7. BlockInv(inode, offset, n + 1, r)
    BY <2>3, <2>4, <2>6 DEF BlockInv
  <2> QED BY <2>7 DEF r
<1>9. CASE /\ s.end = "no" /\ ~AtEnd(inode, offset, s)
           /\ s.pos + s.tmp >= BlockSize
           /\ r = [s EXCEPT !.end = "bad"]
  <2>1. /\ r \in LoopType /\ r.end = "bad"
        /\ r.blockIdx = s.blockIdx /\ r.cur = s.cur /\ r.tmp = s.tmp
        /\ r.pos = s.pos /\ r.data = s.data
    BY <1>0, <1>9, EndFields
  <2> HIDE DEF r
  <2>2. k = n /\ Len(r.data) < n + 1 /\ Len(r.data) <= n + 1
    BY <1>4, <1>9, <2>1 DEF BlockInv
  <2>3. CASE o + k > B
    <3>1. (offset % BlockSize) + Len(r.data) > BlockSize
      BY <1>2, <1>3, <1>4, <2>1, <2>3
    <3>2. BlockInv(inode, offset, n + 1, r)
      BY <2>1, <2>2, <3>1 DEF BlockInv
    <3> QED BY <3>2 DEF r
  <2>4. CASE ~(o + k > B)
    <3>1. InFirstBlock(inode, offset, n, s)
      BY <1>2, <1>3, <1>4, <2>4 DEF BlockInv
    <3>2. s.pos = k /\ s.tmp = o
      BY <1>2, <1>3, <1>4, <3>1 DEF InFirstBlock
    <3>3. o + k = B
      <4>1. k + o >= B
        BY <1>2, <1>9, <3>2
      <4> QED BY <2>4, <4>1
    <3>4. (offset % BlockSize) + Len(r.data) = BlockSize
      BY <1>2, <1>3, <1>4, <2>1, <3>3
    <3>5. InFirstBlock(inode, offset, n + 1, r)
      BY <2>1, <2>2, <3>1, <3>4 DEF InFirstBlock
    <3>6. BlockInv(inode, offset, n + 1, r)
      BY <2>1, <2>2, <3>5 DEF BlockInv
    <3> QED BY <3>6 DEF r
  <2> QED BY <2>3, <2>4
<1> QED BY <1>0, <1>5, <1>6, <1>7, <1>8, <1>9, ReadByteCases

(* The loop satisfies the invariant after every number of iterations.      *)
LEMMA BlockLoop ==
  ASSUME NEW inode \in DOMAIN Inodes, NEW offset \in 0 .. FileLength(inode)
  PROVE  \A n \in Nat : BlockInv(inode, offset, n, ReadLoop(inode, offset, n))
<1> DEFINE S == {n \in Nat : BlockInv(inode, offset, n, ReadLoop(inode, offset, n))}
<1>1. 0 \in S
  <2>1. PICK B \in Nat \ {0} : B = BlockSize
    BY BlockSizeAssumption
  <2>2. FileLength(inode) \in Nat /\ offset \in Nat
    BY InodeTypes
  <2>3. offset \div B \in Nat /\ offset % B \in 0 .. B - 1
    BY <2>2
  <2>4. PICK c \in Nat, o \in Nat :
          c = FirstBlock(inode, offset) /\ o = offset % BlockSize /\ o < BlockSize
    <3>1. FirstBlock(inode, offset) \in Nat
      BY <2>1, <2>3, InodeTypes DEF FirstBlock
    <3>2. offset % BlockSize \in Nat /\ offset % BlockSize < BlockSize
      BY <2>1, <2>3
    <3> QED BY <3>1, <3>2
  <2>5. PICK d \in Seq(Byte) : d = <<>> /\ Len(d) = 0
    <3>1. <<>> \in Seq(Byte) /\ Len(<<>>) = 0
      BY EmptySeq
    <3> QED BY <3>1
  <2>6. LoopStart(inode, offset) = LoopState(0, c, o, 0, d, "no")
    BY <2>4, <2>5 DEF LoopStart, LoopState
  <2>7. LoopState(0, c, o, 0, d, "no") \in LoopType
    <3>1. 0 \in Nat /\ "no" \in {"no", "eof", "bad"}
      OBVIOUS
    <3> QED BY <3>1, LoopStateType
  <2>8. PICK s : s = LoopStart(inode, offset)
    OBVIOUS
  <2>9. /\ s \in LoopType /\ s.cur = c /\ s.tmp = o /\ s.pos = 0 /\ Len(s.data) = 0
        /\ s.end = "no"
    BY <2>5, <2>6, <2>7, <2>8 DEF LoopState
  <2>10. /\ (offset % BlockSize) + Len(s.data) <= BlockSize
         /\ offset + Len(s.data) <= FileLength(inode)
    BY <2>1, <2>2, <2>4, <2>9
  <2>11. InFirstBlock(inode, offset, 0, s)
    BY <2>4, <2>9, <2>10 DEF InFirstBlock
  <2>12. BlockInv(inode, offset, 0, s)
    BY <2>9, <2>11 DEF BlockInv
  <2> QED BY <2>8, <2>12, ReadLoopSteps
<1>2. ASSUME NEW n \in Nat, n \in S PROVE n + 1 \in S
  <2>1. BlockInv(inode, offset, n, ReadLoop(inode, offset, n))
    BY <1>2
  <2>2. BlockInv(inode, offset, n + 1, ReadByte(inode, offset, ReadLoop(inode, offset, n)))
    BY <2>1, BlockStep
  <2>3. ReadLoop(inode, offset, n + 1) = ReadByte(inode, offset, ReadLoop(inode, offset, n))
    BY ReadLoopSteps
  <2> QED BY <2>2, <2>3
<1> HIDE DEF S
<1>3. \A n \in Nat : n \in S
  BY <1>1, <1>2, Induction
<1> QED BY <1>3 DEF S

(* A read from any offset within a file that does not leave the block it   *)
(* starts in: it fails only where the next byte would be in another block, *)
(* and otherwise delivers the bytes of the file that follow the offset.    *)
THEOREM ReadInBlock ==
  ASSUME NEW inode \in DOMAIN Inodes, NEW offset \in 0 .. FileLength(inode),
         NEW n \in Nat
  PROVE  LET read == ReadData(inode, offset, n) IN
         /\ read.data \in Seq(Byte) /\ Len(read.data) <= n
         /\ read.ret \in {-1, Len(read.data)}
         /\ (offset % BlockSize) + Len(read.data) <= BlockSize =>
              /\ offset + Len(read.data) <= FileLength(inode)
              /\ read.ret = -1 => /\ Len(read.data) < n
                                  /\ (offset % BlockSize) + Len(read.data) = BlockSize
              /\ read.ret # -1 => read.data = Extract(FileBytes(inode), offset, n)
<1> DEFINE s == ReadLoop(inode, offset, n)
<1>1. BlockInv(inode, offset, n, s)
  BY BlockLoop
<1>2. /\ ReadData(inode, offset, n).data = s.data
      /\ ReadData(inode, offset, n).ret = IF s.end = "bad" THEN -1 ELSE Len(s.data)
  BY ReadDataValue
<1> HIDE DEF s
<1>3. s.data \in Seq(Byte) /\ Len(s.data) \in Nat /\ s.end \in {"no", "eof", "bad"}
  BY <1>1 DEF BlockInv, LoopType
<1>4. PICK l \in Nat : l = FileLength(inode)
  BY InodeTypes
<1>5. PICK o \in Nat, B \in Nat : B = BlockSize /\ o = offset % BlockSize
  BY <1>4, BlockSizeAssumption
<1>6. ASSUME (offset % BlockSize) + Len(s.data) <= BlockSize
      PROVE  /\ InFirstBlock(inode, offset, n, s)
             /\ s.end # "bad" => s.data = Extract(FileBytes(inode), offset, n)
  <2>1. InFirstBlock(inode, offset, n, s)
    <3>1. ~(o + Len(s.data) > B)
      BY <1>3, <1>5, <1>6
    <3> QED BY <1>1, <1>5, <3>1 DEF BlockInv
  <2>2. ASSUME s.end # "bad" PROVE s.data = Extract(FileBytes(inode), offset, n)
    <3>1. /\ offset + Len(s.data) <= l /\ Len(s.data) <= n
          /\ Len(s.data) = n \/ offset + Len(s.data) = l
      BY <1>1, <1>3, <1>4, <2>1, <2>2 DEF InFirstBlock, BlockInv
    <3>2. Len(s.data) = IF offset + n < l THEN n ELSE l - offset
      BY <1>3, <1>4, <3>1
    <3>3. \A j \in 1 .. Len(s.data) : s.data[j] = ByteAt(inode, offset + j - 1)
      BY <2>1 DEF InFirstBlock
    <3> QED BY <1>3, <1>4, <3>2, <3>3, ExtractBytes
  <2> QED BY <2>1, <2>2
<1>7. Len(s.data) <= n
  BY <1>1 DEF BlockInv
<1>8. (IF s.end = "bad" THEN -1 ELSE Len(s.data)) = -1 <=> s.end = "bad"
  BY <1>3
<1> QED BY <1>2, <1>3, <1>6, <1>7, <1>8 DEF InFirstBlock

(* The loop only makes states of its type, wherever it starts.             *)
LEMMA LoopTypes ==
  ASSUME NEW inode \in DOMAIN Inodes, NEW offset \in Nat
  PROVE  \A n \in Nat : ReadLoop(inode, offset, n) \in LoopType
<1> DEFINE S == {n \in Nat : ReadLoop(inode, offset, n) \in LoopType}
<1>1. 0 \in S
  <2>1. BlockSize \in Nat \ {0}
    BY BlockSizeAssumption
  <2>2. offset \div BlockSize \in Nat /\ offset % BlockSize \in Nat
    BY <2>1
  <2>3. PICK c \in Nat, o \in Nat : c = FirstBlock(inode, offset) /\ o = offset % BlockSize
    BY <2>2, InodeTypes DEF FirstBlock
  <2>4. PICK d \in Seq(Byte) : d = <<>>
    <3>1. <<>> \in Seq(Byte)
      BY EmptySeq
    <3> QED BY <3>1
  <2>5. LoopStart(inode, offset) = LoopState(0, c, o, 0, d, "no")
    BY <2>3, <2>4 DEF LoopStart, LoopState
  <2>6. LoopState(0, c, o, 0, d, "no") \in LoopType
    <3>1. 0 \in Nat /\ "no" \in {"no", "eof", "bad"}
      OBVIOUS
    <3> QED BY <3>1, LoopStateType
  <2> QED BY <2>5, <2>6, ReadLoopSteps
<1>2. ASSUME NEW n \in Nat, n \in S PROVE n + 1 \in S
  <2>1. PICK s \in LoopType : s = ReadLoop(inode, offset, n)
    BY <1>2
  <2>2. ReadByte(inode, offset, s) \in LoopType
    <3>1. NextBlock(inode, s) \in LoopType
      BY NextBlockFields
    <3>2. CopyByte(s) \in LoopType /\ CopyByte(NextBlock(inode, s)) \in LoopType
      BY <3>1, CopyByteFields
    <3>3. [s EXCEPT !.end = "eof"] \in LoopType
      <4>1. PICK r : r = [s EXCEPT !.end = "eof"]
        OBVIOUS
      <4> QED BY <4>1, EndFields
    <3>4. [s EXCEPT !.end = "bad"] \in LoopType
      <4>1. PICK r : r = [s EXCEPT !.end = "bad"]
        OBVIOUS
      <4> QED BY <4>1, EndFields
    <3> QED BY <3>2, <3>3, <3>4, ReadByteCases
  <2>3. ReadLoop(inode, offset, n + 1) = ReadByte(inode, offset, s)
    BY <2>1, ReadLoopSteps
  <2> QED BY <2>2, <2>3
<1> HIDE DEF S
<1>3. \A n \in Nat : n \in S
  BY <1>1, <1>2, Induction
<1> QED BY <1>3 DEF S

(* What read_data returns, and what it has copied, by their types.         *)
LEMMA ReadTypes ==
  ASSUME NEW inode \in DOMAIN Inodes, NEW offset \in Nat, NEW n \in Nat,
         NEW read, read = ReadData(inode, offset, n)
  PROVE  /\ read.data \in Seq(Byte) /\ Len(read.data) \in Nat
         /\ read.ret \in {-1, Len(read.data)}
<1>1. PICK s \in LoopType : s = ReadLoop(inode, offset, n)
  BY LoopTypes
<1>2. read.data = s.data /\ read.ret = IF s.end = "bad" THEN -1 ELSE Len(s.data)
  BY <1>1, ReadDataValue
<1>3. s.data \in Seq(Byte) /\ Len(s.data) \in Nat
  BY DEF LoopType
<1> QED BY <1>2, <1>3

(* A read that starts at the start of the file, or does not ask for more   *)
(* than its block has left, stays within the file; with good block numbers *)
(* it succeeds and delivers the bytes of the file that follow the offset.  *)
THEOREM ReadCorrect ==
  ASSUME NEW inode \in DOMAIN Inodes, NEW offset \in 0 .. FileLength(inode),
         NEW n \in Nat, offset = 0 \/ (offset % BlockSize) + n <= BlockSize,
         NEW read, read = ReadData(inode, offset, n)
  PROVE  /\ read.ret # -1 => offset + read.ret \in 0 .. FileLength(inode)
         /\ Readable(inode) => /\ read.ret = Len(read.data)
                               /\ read.data = Extract(FileBytes(inode), offset, n)
<1>0. PICK l \in Nat : l = FileLength(inode) /\ offset \in 0 .. l
  BY InodeTypes
<1>1. Len(read.data) \in Nat /\ read.ret \in {-1, Len(read.data)}
  BY <1>0, ReadTypes
<1>2. CASE offset = 0
  <2>1. /\ Len(read.data) <= l
        /\ Readable(inode) => /\ read.ret = Len(read.data)
                              /\ read.data = Extract(FileBytes(inode), 0, n)
    BY <1>0, <1>2, ReadFromStart
  <2> QED BY <1>0, <1>1, <1>2, <2>1
<1>3. CASE (offset % BlockSize) + n <= BlockSize
  <2>1. PICK o \in Nat, B \in Nat : o = offset % BlockSize /\ B = BlockSize
    BY <1>0, BlockSizeAssumption
  <2>2. Len(read.data) <= n
    BY <1>0, ReadInBlock
  <2>3. o + Len(read.data) <= B
    BY <1>1, <1>3, <2>1, <2>2
  <2>4. /\ offset + Len(read.data) <= l
        /\ read.ret = -1 => Len(read.data) < n /\ o + Len(read.data) = B
        /\ read.ret # -1 => read.data = Extract(FileBytes(inode), offset, n)
    BY <1>0, <2>1, <2>3, ReadInBlock
  <2>5. read.ret # -1
    BY <1>1, <1>3, <2>1, <2>4
  <2> QED BY <1>0, <1>1, <2>4, <2>5
<1> QED BY <1>2, <1>3

=============================================================================
