---------------------------- MODULE ScreenProofs ----------------------------
(***************************************************************************)
(* Proofs about modules Screen and MCScreen, for screens of every size and *)
(* any number of terminals: what user programs reach, the types, the       *)
(* cursor, the text on the screens, the keyboard for sequences of events   *)
(* of every length, and the inputs of the library.                         *)
(***************************************************************************)
EXTENDS MCScreen, LibraryProofs, FiniteSetTheorems

-----------------------------------------------------------------------------
(* Part 1.  Positions, and the cells of a screen.                          *)

(* The size of a screen, of which the products of Rows and Cols are        *)
(* multiples or parts.                                                     *)
Size == Rows * Cols

(* Products of Rows and Cols, so that no other proof has to multiply.      *)
LEMMA Sizes ==
  /\ Rows \in Nat \ {0} /\ Cols \in Nat \ {0} /\ Size \in Nat /\ Cols <= Size
  /\ 2 * Rows * Cols = 2 * Size
  /\ 2 * Cols * (Rows - 1) = 2 * (Size - Cols)
  /\ Cols * (Rows - 1) = Size - Cols
<1>1. Rows \in Nat \ {0} /\ Cols \in Nat \ {0}
  BY ScreenAssumption
<1>2. PICK r \in Nat : r = Rows - 1
  BY <1>1
<1>3. Size \in Nat /\ Size = Cols * r + Cols /\ Cols * r \in Nat
  BY <1>1, <1>2 DEF Size
<1>4. Cols <= Size /\ Cols * (Rows - 1) = Size - Cols
  BY <1>1, <1>2, <1>3
<1>5. 2 * Rows * Cols = 2 * Size
  BY <1>1 DEF Size
<1>6. 2 * Cols * r = 2 * (Cols * r)
  BY <1>1
<1>7. 2 * Cols * (Rows - 1) = 2 * (Size - Cols)
  BY <1>1, <1>2, <1>3, <1>6
<1> QED BY <1>1, <1>3, <1>4, <1>5, <1>7

(* The positions of row y.                                                 *)
LEMMA RowBounds ==
  ASSUME NEW y \in 0 .. Rows - 1
  PROVE  /\ Cols * y \in Nat /\ Cols * y + Cols <= Size /\ Cols * (y + 1) = Cols * y + Cols
         /\ y + 1 = Rows => Cols * y + Cols = Size
<1>1. PICK r \in Nat : r = Rows - 1 - y
  BY Sizes
<1>2. Rows = y + r + 1
  BY <1>1, Sizes
<1>3. Size = Cols * y + Cols * r + Cols
  BY <1>2, Sizes DEF Size
<1>4. Cols * y \in Nat /\ Cols * r \in Nat /\ Cols * (y + 1) = Cols * y + Cols
  BY Sizes
<1>5. y + 1 = Rows => Cols * r = 0
  BY <1>1, Sizes
<1> QED BY <1>3, <1>4, <1>5, Sizes

(* The column of a position.                                               *)
LEMMA ColumnOf ==
  ASSUME NEW y \in Nat, NEW x \in 0 .. Cols - 1
  PROVE  (Cols * y + x) % Cols = x
BY Sizes

Mem == [0 .. 2 * Size - 1 -> Nat]

(* What a memory shows of a text of p characters.                          *)
ShowsAt(mem, p, text, colour) ==
  /\ mem \in Mem /\ p \in 0 .. Size /\ text \in Seq(Nat) /\ Len(text) = p
  /\ \A i \in 0 .. Size - 1 : /\ mem[2 * i] = IF i < p THEN text[i + 1] ELSE SPACE
                              /\ mem[2 * i + 1] = colour

(* Writing a character puts it and its colour into its cell.               *)
Stored(mem, p, c, colour) == Store(mem, 2 * p, <<c, colour>>)

IsStored(s, mem, p, c, colour) ==
  /\ s \in Mem
  /\ \A i \in 0 .. Size - 1 : /\ s[2 * i] = IF i = p THEN c ELSE mem[2 * i]
                              /\ s[2 * i + 1] = IF i = p THEN colour ELSE mem[2 * i + 1]

(* No other cell changes.                                                  *)
LEMMA StoredCell ==
  ASSUME NEW mem \in Mem, NEW p \in 0 .. Size - 1, NEW c \in Nat, NEW colour \in Nat
  PROVE  IsStored(Stored(mem, p, c, colour), mem, p, c, colour)
<1>1. PICK b : b = <<c, colour>>
  OBVIOUS
<1>2. Len(b) = 2 /\ b[1] = c /\ b[2] = colour
  BY <1>1
<1>3. PICK q \in Nat : q = 2 * p
  OBVIOUS
<1>4. PICK s : s = Stored(mem, p, c, colour)
  OBVIOUS
<1>5. s = [a \in 0 .. 2 * Size - 1 |-> IF a \in q .. q + Len(b) - 1 THEN b[a - q + 1] ELSE mem[a]]
  <2>1. DOMAIN mem = 0 .. 2 * Size - 1
    BY DEF Mem
  <2>2. s = Store(mem, q, b)
    BY <1>1, <1>3, <1>4 DEF Stored
  <2> QED BY <2>1, <2>2 DEF Store
<1>6. ASSUME NEW a \in 0 .. 2 * Size - 1
      PROVE  s[a] = IF a = q THEN c ELSE IF a = q + 1 THEN colour ELSE mem[a]
  <2>1. s[a] = IF a \in q .. q + Len(b) - 1 THEN b[a - q + 1] ELSE mem[a]
    BY <1>5
  <2>2. a = q => a - q + 1 = 1
    OBVIOUS
  <2>3. a = q + 1 => a - q + 1 = 2
    OBVIOUS
  <2>4. a \in q .. q + Len(b) - 1 <=> a = q \/ a = q + 1
    BY <1>2
  <2> QED BY <1>2, <2>1, <2>2, <2>3, <2>4, Sizes
<1>7. s \in Mem
  <2>1. \A a \in 0 .. 2 * Size - 1 : s[a] \in Nat
    BY <1>6 DEF Mem
  <2> QED BY <1>5, <2>1 DEF Mem
<1>8. ASSUME NEW i \in 0 .. Size - 1
      PROVE  /\ s[2 * i] = IF i = p THEN c ELSE mem[2 * i]
             /\ s[2 * i + 1] = IF i = p THEN colour ELSE mem[2 * i + 1]
  <2>1. PICK a \in 0 .. 2 * Size - 1, e \in 0 .. 2 * Size - 1 : a = 2 * i /\ e = 2 * i + 1
    BY Sizes
  <2>2. /\ a = q <=> i = p
        /\ e = q + 1 <=> i = p
        /\ a # q + 1 /\ e # q
    BY <1>3, <2>1, Sizes
  <2>3. s[a] = IF i = p THEN c ELSE mem[a]
    BY <1>6, <2>2
  <2>4. s[e] = IF i = p THEN colour ELSE mem[e]
    BY <1>6, <2>2
  <2> QED BY <2>1, <2>3, <2>4
<1> QED BY <1>4, <1>7, <1>8 DEF IsStored

(* A character written behind the text is shown behind it.                 *)
LEMMA StoreShows ==
  ASSUME NEW mem, NEW p \in Nat, NEW text, NEW colour \in Nat, NEW c \in Nat,
         ShowsAt(mem, p, text, colour), p < Size
  PROVE  ShowsAt(Stored(mem, p, c, colour), p + 1, Append(text, c), colour)
<1>1. /\ mem \in Mem /\ text \in Seq(Nat) /\ Len(text) = p
      /\ \A i \in 0 .. Size - 1 : /\ mem[2 * i] = IF i < p THEN text[i + 1] ELSE SPACE
                                  /\ mem[2 * i + 1] = colour
  BY DEF ShowsAt
<1>2. PICK s : s = Stored(mem, p, c, colour)
  OBVIOUS
<1>3. /\ s \in Mem
      /\ \A i \in 0 .. Size - 1 : /\ s[2 * i] = IF i = p THEN c ELSE mem[2 * i]
                                  /\ s[2 * i + 1] = IF i = p THEN colour ELSE mem[2 * i + 1]
  <2>1. p \in 0 .. Size - 1
    BY Sizes
  <2>2. IsStored(s, mem, p, c, colour)
    BY <1>1, <1>2, <2>1, StoredCell
  <2> QED BY <2>2 DEF IsStored
<1>4. PICK longer : longer = Append(text, c)
  OBVIOUS
<1>5. /\ longer \in Seq(Nat) /\ Len(longer) = p + 1 /\ longer[p + 1] = c
      /\ \A i \in 1 .. p : longer[i] = text[i]
  BY <1>1, <1>4, AppendProperties
<1>6. ASSUME NEW i \in 0 .. Size - 1
      PROVE  s[2 * i] = (IF i < p + 1 THEN longer[i + 1] ELSE SPACE) /\ s[2 * i + 1] = colour
  <2>1. CASE i < p
    <3>1. i + 1 \in 1 .. p /\ i # p /\ i < p + 1
      BY <2>1, Sizes
    <3> QED BY <1>1, <1>3, <1>5, <2>1, <3>1
  <2>2. CASE i = p
    <3>1. i < p + 1 /\ longer[i + 1] = c
      BY <1>5, <2>2
    <3> QED BY <1>3, <2>2, <3>1
  <2>3. CASE i > p
    <3>1. ~(i < p + 1) /\ ~(i < p) /\ i # p
      BY <2>3, Sizes
    <3> QED BY <1>1, <1>3, <3>1
  <2> QED BY <2>1, <2>2, <2>3, Sizes
<1>7. p + 1 \in 0 .. Size
  BY Sizes
<1> QED BY <1>2, <1>3, <1>4, <1>5, <1>6, <1>7 DEF ShowsAt

(* A newline leaves the memory alone: the text goes on behind spaces.      *)
Spaced(text, q) == text \o [i \in 1 .. q |-> SPACE]

(* The cells that a newline skips are blank.                               *)
LEMMA NewlineShows ==
  ASSUME NEW mem, NEW p \in Nat, NEW text, NEW colour \in Nat, NEW q \in Nat,
         ShowsAt(mem, p, text, colour), p + q <= Size
  PROVE  ShowsAt(mem, p + q, Spaced(text, q), colour)
<1>1. /\ mem \in Mem /\ text \in Seq(Nat) /\ Len(text) = p
      /\ \A i \in 0 .. Size - 1 : /\ mem[2 * i] = IF i < p THEN text[i + 1] ELSE SPACE
                                  /\ mem[2 * i + 1] = colour
  BY DEF ShowsAt
<1>2. PICK b : b = [i \in 1 .. q |-> SPACE]
  OBVIOUS
<1>3. b \in Seq(Nat) /\ Len(b) = q /\ \A i \in 1 .. q : b[i] = SPACE
  <2>1. b \in [1 .. q -> Nat]
    BY <1>2 DEF SPACE
  <2>2. b \in Seq(Nat)
    BY <2>1, SeqDef
  <2> QED BY <1>2, <2>1, <2>2, LenProperties
<1>4. PICK longer : longer = text \o b
  OBVIOUS
<1>5. /\ longer \in Seq(Nat) /\ Len(longer) = p + q
      /\ \A i \in 1 .. p + q : longer[i] = IF i <= p THEN text[i] ELSE b[i - p]
  BY <1>1, <1>3, <1>4, ConcatProperties
<1>6. ASSUME NEW i \in 0 .. Size - 1
      PROVE  mem[2 * i] = IF i < p + q THEN longer[i + 1] ELSE SPACE
  <2>1. CASE i < p
    <3>1. i + 1 \in 1 .. p + q /\ i + 1 <= p /\ i < p + q
      BY <2>1, Sizes
    <3> QED BY <1>1, <1>5, <2>1, <3>1
  <2>2. CASE ~(i < p) /\ i < p + q
    <3>1. i + 1 \in 1 .. p + q /\ ~(i + 1 <= p) /\ i + 1 - p \in 1 .. q
      BY <2>2, Sizes
    <3>2. longer[i + 1] = SPACE
      BY <1>3, <1>5, <3>1
    <3> QED BY <1>1, <2>2, <3>2
  <2>3. CASE ~(i < p + q)
    <3>1. ~(i < p)
      BY <2>3, Sizes
    <3> QED BY <1>1, <2>3, <3>1
  <2> QED BY <2>1, <2>2, <2>3
<1>7. p + q \in 0 .. Size
  BY Sizes
<1> QED BY <1>1, <1>2, <1>4, <1>5, <1>6, <1>7 DEF ShowsAt, Spaced

(* scroll_down: the rows move up.                                          *)
LEMMA ScrolledCell ==
  ASSUME NEW mem \in Mem
  PROVE  /\ ScrollDown(mem) \in Mem
         /\ \A i \in 0 .. Size - 1 :
              /\ ScrollDown(mem)[2 * i] = IF i < Size - Cols THEN mem[2 * (i + Cols)] ELSE SPACE
              /\ ScrollDown(mem)[2 * i + 1] =
                   IF i < Size - Cols THEN mem[2 * (i + Cols) + 1] ELSE mem[2 * i + 1]
<1>1. PICK n \in Nat : n = 2 * (Size - Cols) /\ n + 2 * Cols = 2 * Size
  BY Sizes
<1>2. PICK w \in Nat : w = 2 * Cols
  BY Sizes
<1>3. PICK up : up = memcpy(mem, 0, w, n)
  OBVIOUS
<1>4. PICK s : s = ScrollDown(mem)
  OBVIOUS
<1>5. PICK D : D = 0 .. 2 * Size - 1
  OBVIOUS
<1>6. s = [i \in D |-> IF i >= n /\ i % 2 = 0 THEN SPACE ELSE up[i]]
  <2>1. DOMAIN mem = D
    BY <1>5 DEF Mem
  <2>2. 2 * Cols * (Rows - 1) = n
    BY <1>1, Sizes
  <2> QED BY <1>2, <1>3, <1>4, <2>1, <2>2, Zenon DEF ScrollDown
<1>7. up = Copied(mem, 0, w, n)
  <2>1. mem = [a \in D |-> mem[a]] /\ D \subseteq Int
    BY <1>5 DEF Mem
  <2>2. w .. w + n - 1 \subseteq D
    BY <1>1, <1>2, <1>5, Sizes
  <2>3. Holds(D, mem, w, n)
    BY <2>1, <2>2 DEF Holds
  <2>4. 0 <= w
    BY <1>2
  <2> QED BY <1>3, <2>3, <2>4, MemcpyIsCopy
<1>8. ASSUME NEW a \in D PROVE up[a] = IF a < n THEN mem[a + w] ELSE mem[a]
  <2>1. up[a] = IF a \in 0 .. 0 + n - 1 THEN mem[w + a - 0] ELSE mem[a]
    BY <1>5, <1>7 DEF Copied, Mem
  <2>2. a \in 0 .. 0 + n - 1 <=> a < n
    BY <1>5
  <2>3. w + a - 0 = a + w
    BY <1>5
  <2> QED BY <2>1, <2>2, <2>3
<1>9. s \in Mem
  <2>1. ASSUME NEW a \in D PROVE up[a] \in Nat
    <3>1. a < n => a + w \in D
      BY <1>1, <1>2, <1>5
    <3> QED BY <1>5, <1>8, <3>1 DEF Mem
  <2>2. s \in [D -> Nat]
    BY <1>6, <2>1 DEF SPACE
  <2> QED BY <1>5, <2>2 DEF Mem
<1>10. ASSUME NEW i \in 0 .. Size - 1
       PROVE  /\ s[2 * i] = IF i < Size - Cols THEN mem[2 * (i + Cols)] ELSE SPACE
              /\ s[2 * i + 1] = IF i < Size - Cols THEN mem[2 * (i + Cols) + 1] ELSE mem[2 * i + 1]
  <2>1. PICK a \in Int, e \in Int : a = 2 * i /\ e = 2 * i + 1
    OBVIOUS
  <2>2. a \in D /\ e \in D /\ a % 2 = 0 /\ e % 2 = 1
    BY <1>5, <2>1, Sizes
  <2>3. /\ a < n <=> i < Size - Cols
        /\ e < n <=> i < Size - Cols
        /\ a >= n <=> ~(i < Size - Cols)
        /\ a + w = 2 * (i + Cols) /\ e + w = 2 * (i + Cols) + 1
    BY <1>1, <1>2, <2>1, Sizes
  <2>4. s[a] = IF i < Size - Cols THEN mem[a + w] ELSE SPACE
    BY <1>6, <1>8, <2>2, <2>3
  <2>5. s[e] = IF i < Size - Cols THEN mem[e + w] ELSE mem[e]
    BY <1>6, <1>8, <2>2, <2>3
  <2> QED BY <2>1, <2>3, <2>4, <2>5
<1> QED BY <1>4, <1>9, <1>10

(* Scrolling cuts the first row off the text.                              *)
LEMMA ScrollShows ==
  ASSUME NEW mem, NEW text, NEW colour \in Nat, ShowsAt(mem, Size, text, colour)
  PROVE  ShowsAt(ScrollDown(mem), Size - Cols, SubSeq(text, Cols + 1, Size), colour)
<1>1. /\ mem \in Mem /\ text \in Seq(Nat) /\ Len(text) = Size
      /\ \A i \in 0 .. Size - 1 : mem[2 * i] = text[i + 1] /\ mem[2 * i + 1] = colour
  BY Sizes DEF ShowsAt
<1>2. PICK s : s = ScrollDown(mem)
  OBVIOUS
<1>3. /\ s \in Mem
      /\ \A i \in 0 .. Size - 1 :
           /\ s[2 * i] = IF i < Size - Cols THEN mem[2 * (i + Cols)] ELSE SPACE
           /\ s[2 * i + 1] = IF i < Size - Cols THEN mem[2 * (i + Cols) + 1] ELSE mem[2 * i + 1]
  BY <1>1, <1>2, ScrolledCell
<1>4. PICK rest : rest = SubSeq(text, Cols + 1, Size)
  OBVIOUS
<1>5. /\ rest \in Seq(Nat) /\ Len(rest) = Size - Cols
      /\ \A i \in 1 .. Size - Cols : rest[i] = text[i + Cols]
  <2>1. PICK u \in Nat, v \in Nat : u = Cols + 1 /\ v = Size
    BY <1>1, Sizes
  <2>2. /\ SubSeq(text, u, v) \in Seq(Nat) /\ Len(SubSeq(text, u, v)) = v - u + 1
        /\ \A i \in 1 .. v - u + 1 : SubSeq(text, u, v)[i] = text[u + i - 1]
    <3>1. \A i \in u .. v : text[i] \in Nat
      <4>1. \A i \in u .. v : i \in 1 .. Len(text)
        BY <1>1, <2>1, Sizes
      <4> QED BY <1>1, <4>1, ElementOfSeq
    <3>2. u \in Int /\ v \in Int
      OBVIOUS
    <3>3. /\ SubSeq(text, u, v) \in Seq(Nat)
          /\ Len(SubSeq(text, u, v)) = IF u <= v THEN v - u + 1 ELSE 0
          /\ \A i \in 1 .. v - u + 1 : SubSeq(text, u, v)[i] = text[u + i - 1]
      BY <3>1, <3>2, SubSeqProperties
    <3>4. u <= v \/ v - u + 1 = 0
      BY <2>1, Sizes
    <3> QED BY <3>3, <3>4
  <2>3. v - u + 1 = Size - Cols
    BY <2>1, Sizes
  <2>4. \A i \in 1 .. Size - Cols : u + i - 1 = i + Cols
    BY <2>1, Sizes
  <2> QED BY <1>4, <2>1, <2>2, <2>3, <2>4
<1>6. ASSUME NEW i \in 0 .. Size - 1
      PROVE  s[2 * i] = (IF i < Size - Cols THEN rest[i + 1] ELSE SPACE) /\ s[2 * i + 1] = colour
  <2>1. CASE i < Size - Cols
    <3>1. PICK j \in 0 .. Size - 1 : j = i + Cols /\ i + 1 \in 1 .. Size - Cols /\ i + 1 + Cols = j + 1
      BY <2>1, Sizes
    <3>2. mem[2 * j] = text[j + 1] /\ mem[2 * j + 1] = colour
      BY <1>1
    <3>3. rest[i + 1] = text[j + 1]
      BY <1>5, <3>1
    <3> QED BY <1>3, <2>1, <3>1, <3>2, <3>3
  <2>2. CASE ~(i < Size - Cols)
    BY <1>1, <1>3, <2>2
  <2> QED BY <2>1, <2>2
<1>7. Size - Cols \in 0 .. Size
  BY Sizes
<1> QED BY <1>2, <1>3, <1>4, <1>5, <1>6, <1>7 DEF ShowsAt

(* deletec: a blank in the place of the last character.                    *)
LEMMA DeleteShows ==
  ASSUME NEW mem, NEW p \in Nat \ {0}, NEW text, NEW colour \in Nat, ShowsAt(mem, p, text, colour)
  PROVE  ShowsAt([mem EXCEPT ![2 * (p - 1)] = SPACE], p - 1, SubSeq(text, 1, p - 1), colour)
<1>1. /\ mem \in Mem /\ p \in 0 .. Size /\ text \in Seq(Nat) /\ Len(text) = p
      /\ \A i \in 0 .. Size - 1 : /\ mem[2 * i] = IF i < p THEN text[i + 1] ELSE SPACE
                                  /\ mem[2 * i + 1] = colour
  BY DEF ShowsAt
<1>2. PICK q \in Nat : q = p - 1 /\ q < Size /\ q < p /\ q + 1 = p
  BY <1>1, Sizes
<1>3. PICK s : s = [mem EXCEPT ![2 * q] = SPACE]
  OBVIOUS
<1>4. s \in Mem /\ \A a \in 0 .. 2 * Size - 1 : s[a] = IF a = 2 * q THEN SPACE ELSE mem[a]
  BY <1>1, <1>3 DEF Mem, SPACE
<1>5. PICK rest : rest = SubSeq(text, 1, q)
  OBVIOUS
<1>6. /\ rest \in Seq(Nat) /\ Len(rest) = q
      /\ \A i \in 1 .. q : rest[i] = text[i]
  <2>1. PICK u \in Nat, v \in Nat : u = 1 /\ v = q
    BY <1>1, <1>2, Sizes
  <2>2. /\ SubSeq(text, u, v) \in Seq(Nat) /\ Len(SubSeq(text, u, v)) = v - u + 1
        /\ \A i \in 1 .. v - u + 1 : SubSeq(text, u, v)[i] = text[u + i - 1]
    <3>1. \A i \in u .. v : text[i] \in Nat
      <4>1. \A i \in u .. v : i \in 1 .. Len(text)
        BY <1>1, <1>2, <2>1, Sizes
      <4> QED BY <1>1, <4>1, ElementOfSeq
    <3>2. u \in Int /\ v \in Int
      OBVIOUS
    <3>3. /\ SubSeq(text, u, v) \in Seq(Nat)
          /\ Len(SubSeq(text, u, v)) = IF u <= v THEN v - u + 1 ELSE 0
          /\ \A i \in 1 .. v - u + 1 : SubSeq(text, u, v)[i] = text[u + i - 1]
      BY <3>1, <3>2, SubSeqProperties
    <3>4. u <= v \/ v - u + 1 = 0
      BY <1>2, <2>1, Sizes
    <3> QED BY <3>3, <3>4
  <2>3. v - u + 1 = q
    BY <2>1
  <2>4. \A i \in 1 .. q : u + i - 1 = i
    BY <2>1
  <2> QED BY <1>5, <2>1, <2>2, <2>3, <2>4
<1>7. ASSUME NEW i \in 0 .. Size - 1
      PROVE  s[2 * i] = (IF i < q THEN rest[i + 1] ELSE SPACE) /\ s[2 * i + 1] = colour
  <2>1. 2 * i \in 0 .. 2 * Size - 1 /\ 2 * i + 1 \in 0 .. 2 * Size - 1 /\ 2 * i + 1 # 2 * q
    BY Sizes
  <2>2. s[2 * i + 1] = colour
    BY <1>1, <1>4, <2>1
  <2>3. CASE i < q
    <3>1. i < p /\ i + 1 \in 1 .. q /\ 2 * i # 2 * q
      BY <1>2, <2>3
    <3> QED BY <1>1, <1>4, <1>6, <2>1, <2>2, <2>3, <3>1
  <2>4. CASE i = q
    BY <1>4, <2>1, <2>2, <2>4
  <2>5. CASE i > q
    <3>1. ~(i < p) /\ ~(i < q) /\ 2 * i # 2 * q
      BY <1>2, <2>5
    <3> QED BY <1>1, <1>4, <2>1, <2>2, <3>1
  <2> QED BY <1>2, <2>3, <2>4, <2>5
<1>8. q \in 0 .. Size
  BY <1>2, Sizes
<1>9. ShowsAt(s, q, rest, colour)
  BY <1>4, <1>6, <1>7, <1>8 DEF ShowsAt
<1> QED BY <1>2, <1>3, <1>5, <1>9

(* A cleared screen shows nothing.                                         *)
LEMMA WipedShows ==
  ASSUME NEW colour \in Nat
  PROVE  ShowsAt(Wiped(colour), 0, <<>>, colour)
<1>1. PICK w : w = Wiped(colour)
  OBVIOUS
<1>2. w = [i \in 0 .. 2 * Size - 1 |-> IF i % 2 = 0 THEN SPACE ELSE colour]
  BY <1>1, Sizes DEF Wiped
<1>3. w \in Mem
  BY <1>2 DEF Mem, SPACE
<1>4. ASSUME NEW i \in 0 .. Size - 1 PROVE w[2 * i] = SPACE /\ w[2 * i + 1] = colour
  <2>1. PICK a \in 0 .. 2 * Size - 1, e \in 0 .. 2 * Size - 1 : a = 2 * i /\ e = 2 * i + 1
    BY Sizes
  <2>2. a % 2 = 0 /\ e % 2 # 0
    BY <2>1
  <2> QED BY <1>2, <2>1, <2>2
<1>5. <<>> \in Seq(Nat) /\ Len(<<>>) = 0 /\ \A i \in 0 .. Size - 1 : ~(i < 0)
  OBVIOUS
<1> QED BY <1>1, <1>3, <1>4, <1>5, Sizes DEF ShowsAt

-----------------------------------------------------------------------------
(* Part 2.  Printing a character.                                          *)

(* A screen, as far as putc and terminal_putc use it.                      *)
IsScreen(s) ==
  /\ s.mem \in Mem /\ s.x \in 0 .. Cols - 1 /\ s.y \in 0 .. Rows - 1
  /\ {"mem", "x", "y"} \subseteq DOMAIN s

(* The end of a row, with its character or with a newline.                 *)
RowEnds(s, c) == c = NEWLINE \/ s.x + 1 = Cols

IsAdvance(a, s, c, colour) ==
  /\ DOMAIN a = DOMAIN s /\ a = [f \in DOMAIN a |-> a[f]]
  /\ a.x = IF RowEnds(s, c) THEN 0 ELSE s.x + 1
  /\ a.y = IF RowEnds(s, c) THEN s.y + 1 ELSE s.y
  /\ a.mem = IF c = NEWLINE THEN s.mem ELSE Stored(s.mem, Cols * s.y + s.x, c, colour)
  /\ "save_y" \in DOMAIN s => a.save_y = s.save_y

(* What Advanced computes, field by field.                                 *)
LEMMA AdvancedParts ==
  ASSUME NEW s, IsScreen(s), NEW c \in Nat, NEW colour \in Nat
  PROVE  IsAdvance(Advanced(s, c, colour), s, c, colour)
<1>1. PICK a : a = Advanced(s, c, colour)
  OBVIOUS
<1>2. PICK m : m = Stored(s.mem, Cols * s.y + s.x, c, colour)
  OBVIOUS
<1>3. PICK w : w = [s EXCEPT !.mem = m]
  OBVIOUS
<1>4. a = IF c = NEWLINE THEN [s EXCEPT !.x = 0, !.y = @ + 1]
          ELSE IF s.x + 1 = Cols THEN [w EXCEPT !.x = 0, !.y = @ + 1] ELSE [w EXCEPT !.x = @ + 1]
  BY <1>1, <1>2, <1>3, Zenon DEF Advanced, Stored, Position
<1>5. CASE c = NEWLINE
  <2>1. PICK u : u = [s EXCEPT !.x = 0]
    OBVIOUS
  <2>2. a = [u EXCEPT !.y = @ + 1]
    BY <1>4, <1>5, <2>1, Zenon
  <2> QED BY <1>1, <1>5, <2>1, <2>2 DEF IsAdvance, IsScreen, RowEnds
<1>6. CASE c # NEWLINE /\ s.x + 1 = Cols
  <2>1. PICK u : u = [w EXCEPT !.x = 0]
    OBVIOUS
  <2>2. a = [u EXCEPT !.y = @ + 1]
    BY <1>4, <1>6, <2>1, Zenon
  <2> QED BY <1>1, <1>2, <1>3, <1>6, <2>1, <2>2 DEF IsAdvance, IsScreen, RowEnds
<1>7. CASE c # NEWLINE /\ s.x + 1 # Cols
  <2>1. a = [w EXCEPT !.x = @ + 1]
    BY <1>4, <1>7, Zenon
  <2> QED BY <1>1, <1>2, <1>3, <1>7, <2>1 DEF IsAdvance, IsScreen, RowEnds
<1> QED BY <1>5, <1>6, <1>7

(* The text before the screen may be full.                                 *)
Longer(text, c) ==
  IF c = NEWLINE THEN Spaced(text, Cols - (Len(text) % Cols)) ELSE Append(text, c)

(* The screen after a character, and whatever text it showed before.       *)
PrintsOn(mem, x, y, s, c, colour) ==
  /\ mem \in Mem /\ x \in 0 .. Cols - 1 /\ y \in 0 .. Rows - 1
  /\ \A text : ShowsAt(s.mem, Cols * s.y + s.x, text, colour)
                 => ShowsAt(mem, Cols * y + x, Printed(text, c), colour)

(* Before the scrolling the screen shows the longer text.                  *)
LEMMA AdvancedShows ==
  ASSUME NEW s, IsScreen(s), NEW c \in Nat, NEW colour \in Nat,
         NEW a, IsAdvance(a, s, c, colour)
  PROVE  /\ a.mem \in Mem /\ a.x \in 0 .. Cols - 1 /\ a.y \in 0 .. Rows
         /\ a.y = Rows => a.x = 0
         /\ \A text : ShowsAt(s.mem, Cols * s.y + s.x, text, colour)
                        => ShowsAt(a.mem, Cols * a.y + a.x, Longer(text, c), colour)
<1>1. PICK x \in 0 .. Cols - 1, y \in 0 .. Rows - 1 : x = s.x /\ y = s.y
  BY DEF IsScreen
<1>2. PICK row \in Nat : row = Cols * y
  BY RowBounds
<1>3. row + Cols <= Size /\ Cols * (y + 1) = row + Cols
  BY <1>2, RowBounds
<1>4. PICK p \in Nat : p = row + x
  BY <1>2
<1>5. p \in 0 .. Size - 1 /\ s.mem \in Mem /\ Cols * s.y + s.x = p
  BY <1>1, <1>2, <1>3, <1>4, Sizes DEF IsScreen
<1>6. a.mem \in Mem
  <2>1. IsStored(Stored(s.mem, p, c, colour), s.mem, p, c, colour)
    BY <1>5, StoredCell
  <2> QED BY <1>5, <2>1 DEF IsStored, IsAdvance
<1>7. a.x \in 0 .. Cols - 1 /\ a.y \in 0 .. Rows /\ (a.y = Rows => a.x = 0)
  <2>1. CASE RowEnds(s, c)
    <3>1. a.x = 0 /\ a.y = y + 1
      BY <1>1, <2>1 DEF IsAdvance
    <3> QED BY <3>1, Sizes
  <2>2. CASE ~RowEnds(s, c)
    <3>1. a.x = x + 1 /\ a.y = y /\ x + 1 # Cols
      BY <1>1, <2>2 DEF IsAdvance, RowEnds
    <3>2. x + 1 \in 0 .. Cols - 1 /\ y \in 0 .. Rows /\ y # Rows
      BY <3>1, Sizes
    <3> QED BY <3>1, <3>2
  <2> QED BY <2>1, <2>2
<1>8. ASSUME NEW text, ShowsAt(s.mem, Cols * s.y + s.x, text, colour)
      PROVE  ShowsAt(a.mem, Cols * a.y + a.x, Longer(text, c), colour)
  <2>1. ShowsAt(s.mem, p, text, colour) /\ Len(text) = p
    BY <1>5, <1>8 DEF ShowsAt
  <2>2. CASE c = NEWLINE
    <3>1. p % Cols = x
      <4>1. y \in Nat
        BY Sizes
      <4>2. (Cols * y + x) % Cols = x
        BY <4>1, ColumnOf
      <4> QED BY <1>2, <1>4, <4>2
    <3>2. PICK q \in Nat : q = Cols - (Len(text) % Cols) /\ q = Cols - x
      BY <2>1, <3>1, Sizes
    <3>3. p + q <= Size /\ p + q = row + Cols
      BY <1>3, <1>4, <3>2, Sizes
    <3>4. ShowsAt(s.mem, p + q, Spaced(text, q), colour)
      BY <2>1, <3>3, NewlineShows
    <3>5. a.mem = s.mem /\ a.x = 0 /\ a.y = y + 1
      BY <1>1, <2>2 DEF IsAdvance, RowEnds
    <3>6. Cols * a.y + a.x = p + q
      BY <1>3, <3>3, <3>5, Sizes
    <3> QED BY <2>2, <3>2, <3>4, <3>5, <3>6 DEF Longer
  <2>3. CASE c # NEWLINE
    <3>1. ShowsAt(Stored(s.mem, p, c, colour), p + 1, Append(text, c), colour)
      <4>1. p < Size
        BY <1>5, Sizes
      <4> QED BY <2>1, <4>1, StoreShows
    <3>2. a.mem = Stored(s.mem, p, c, colour)
      BY <1>5, <2>3 DEF IsAdvance
    <3>3. Cols * a.y + a.x = p + 1
      <4>1. CASE x + 1 = Cols
        <5>1. a.x = 0 /\ a.y = y + 1
          BY <1>1, <4>1 DEF IsAdvance, RowEnds
        <5> QED BY <1>3, <1>4, <4>1, <5>1, Sizes
      <4>2. CASE x + 1 # Cols
        <5>1. a.x = x + 1 /\ a.y = y
          BY <1>1, <2>3, <4>2 DEF IsAdvance, RowEnds
        <5> QED BY <1>2, <1>4, <5>1
      <4> QED BY <4>1, <4>2
    <3> QED BY <2>3, <3>1, <3>2, <3>3 DEF Longer
  <2> QED BY <2>2, <2>3
<1> QED BY <1>6, <1>7, <1>8

(* With the scrolling at the end of the screen.                            *)
LEMMA PutPrints ==
  ASSUME NEW s, IsScreen(s), NEW c \in Nat, NEW colour \in Nat,
         NEW a, IsAdvance(a, s, c, colour)
  PROVE  /\ a.y = Rows => PrintsOn(ScrollDown(a.mem), 0, Rows - 1, s, c, colour)
         /\ a.y # Rows => PrintsOn(a.mem, a.x, a.y, s, c, colour)
<1>1. /\ a.mem \in Mem /\ a.x \in 0 .. Cols - 1 /\ a.y \in 0 .. Rows
      /\ a.y = Rows => a.x = 0
      /\ \A text : ShowsAt(s.mem, Cols * s.y + s.x, text, colour)
                     => ShowsAt(a.mem, Cols * a.y + a.x, Longer(text, c), colour)
  BY AdvancedShows
<1>2. ASSUME NEW text
      PROVE  Printed(text, c) = IF Len(Longer(text, c)) = Size
                                THEN SubSeq(Longer(text, c), Cols + 1, Len(Longer(text, c)))
                                ELSE Longer(text, c)
  BY Zenon DEF Printed, Longer, Spaced, Size
<1>3. CASE a.y = Rows
  <2>1. Cols * a.y + a.x = Size
    BY <1>1, <1>3, Sizes DEF Size
  <2>2. Cols * (Rows - 1) + 0 = Size - Cols
    BY Sizes
  <2>3. ASSUME NEW text, ShowsAt(s.mem, Cols * s.y + s.x, text, colour)
        PROVE  ShowsAt(ScrollDown(a.mem), Size - Cols, Printed(text, c), colour)
    <3>1. PICK l : l = Longer(text, c)
      OBVIOUS
    <3>2. ShowsAt(a.mem, Size, l, colour)
      BY <1>1, <2>1, <2>3, <3>1
    <3>3. Printed(text, c) = SubSeq(l, Cols + 1, Size)
      <4>1. Len(l) = Size
        BY <3>2 DEF ShowsAt
      <4> QED BY <1>2, <3>1, <4>1
    <3> QED BY <3>2, <3>3, ScrollShows
  <2>4. ScrollDown(a.mem) \in Mem /\ 0 \in 0 .. Cols - 1 /\ Rows - 1 \in 0 .. Rows - 1
    BY <1>1, ScrolledCell, Sizes
  <2> QED BY <1>3, <2>2, <2>3, <2>4 DEF PrintsOn
<1>4. CASE a.y # Rows
  <2>1. PICK x \in 0 .. Cols - 1, y \in 0 .. Rows - 1 : x = a.x /\ y = a.y
    BY <1>1, <1>4, Sizes
  <2>2. Cols * a.y + a.x # Size
    <3>1. Cols * y \in Nat /\ Cols * y + Cols <= Size
      BY RowBounds
    <3> QED BY <2>1, <3>1, Sizes
  <2>3. ASSUME NEW text, ShowsAt(s.mem, Cols * s.y + s.x, text, colour)
        PROVE  ShowsAt(a.mem, Cols * a.y + a.x, Printed(text, c), colour)
    <3>1. PICK l : l = Longer(text, c)
      OBVIOUS
    <3>2. ShowsAt(a.mem, Cols * a.y + a.x, l, colour)
      BY <1>1, <2>3, <3>1
    <3>3. Printed(text, c) = l
      <4>1. Len(l) # Size
        BY <2>2, <3>2 DEF ShowsAt
      <4> QED BY <1>2, <3>1, <4>1
    <3> QED BY <3>2, <3>3
  <2> QED BY <1>1, <1>4, <2>1, <2>3 DEF PrintsOn
<1> QED BY <1>3, <1>4

Screens == [mem : Mem, x : 0 .. Cols - 1, y : 0 .. Rows - 1, save_y : 0 .. Rows - 1]

ScreenShows(s, text, colour) == ShowsAt(s.mem, Cols * s.y + s.x, text, colour)

(* putc keeps a screen a screen.                                           *)
LEMMA PutcScreen ==
  ASSUME NEW s \in Screens, NEW c \in Nat, NEW colour \in Nat
  PROVE  /\ putc(s, c, colour) \in Screens
         /\ PrintsOn(putc(s, c, colour).mem, putc(s, c, colour).x, putc(s, c, colour).y, s, c, colour)
<1>1. PICK a : a = Advanced(s, c, colour)
  OBVIOUS
<1>2. IsScreen(s)
  BY DEF IsScreen, Screens
<1>3. IsAdvance(a, s, c, colour)
  BY <1>1, <1>2, AdvancedParts
<1>4. /\ a.y = Rows => PrintsOn(ScrollDown(a.mem), 0, Rows - 1, s, c, colour)
      /\ a.y # Rows => PrintsOn(a.mem, a.x, a.y, s, c, colour)
  BY <1>2, <1>3, PutPrints
<1>5. PICK d : d = putc(s, c, colour)
  OBVIOUS
<1>6. d = IF a.y = Rows THEN [a EXCEPT !.mem = ScrollDown(@), !.x = 0, !.y = Rows - 1] ELSE a
  BY <1>1, <1>5, Zenon DEF putc
<1>7. DOMAIN a = {"mem", "x", "y", "save_y"} /\ a.save_y = s.save_y /\ s.save_y \in 0 .. Rows - 1
  BY <1>3 DEF IsAdvance, Screens
<1>8. CASE a.y = Rows
  <2>1. PICK m : m = ScrollDown(a.mem)
    OBVIOUS
  <2>2. PICK u : u = [a EXCEPT !.mem = m]
    OBVIOUS
  <2>3. PICK v : v = [u EXCEPT !.x = 0]
    OBVIOUS
  <2>4. d = [v EXCEPT !.y = Rows - 1]
    BY <1>6, <1>8, <2>1, <2>2, <2>3, Zenon
  <2>5. d.mem = m /\ d.x = 0 /\ d.y = Rows - 1 /\ d.save_y = s.save_y
    BY <1>7, <2>2, <2>3, <2>4
  <2>6. d = [mem |-> m, x |-> 0, y |-> Rows - 1, save_y |-> s.save_y]
    BY <1>7, <2>2, <2>3, <2>4
  <2>7. m \in Mem /\ 0 \in 0 .. Cols - 1 /\ Rows - 1 \in 0 .. Rows - 1
    BY <1>4, <1>8, <2>1 DEF PrintsOn
  <2>8. d \in Screens
    BY <1>7, <2>6, <2>7 DEF Screens
  <2> QED BY <1>4, <1>5, <1>8, <2>1, <2>5, <2>8
<1>9. CASE a.y # Rows
  <2>1. d = a
    BY <1>6, <1>9
  <2>2. a.mem \in Mem /\ a.x \in 0 .. Cols - 1 /\ a.y \in 0 .. Rows - 1
    BY <1>4, <1>9 DEF PrintsOn
  <2>3. a = [mem |-> a.mem, x |-> a.x, y |-> a.y, save_y |-> a.save_y]
    <3>1. a = [f \in {"mem", "x", "y", "save_y"} |-> a[f]]
      BY <1>3, <1>7 DEF IsAdvance
    <3> QED BY <3>1
  <2>4. d \in Screens
    BY <1>7, <2>1, <2>2, <2>3 DEF Screens
  <2> QED BY <1>4, <1>5, <1>9, <2>1, <2>4
<1> QED BY <1>8, <1>9

-----------------------------------------------------------------------------
(* Part 3.  Printing a text, on the screen and on paper.                   *)

(* A text of characters.                                                   *)
Chars(text, n) == n \in Nat /\ text \in Seq(Nat) /\ DOMAIN text = 1 .. n

(* Every sequence of numbers is one.                                       *)
LEMMA CharsOf ==
  ASSUME NEW text \in Seq(Nat)
  PROVE  Len(text) \in Nat /\ Chars(text, Len(text)) /\ \A k \in 1 .. Len(text) : text[k] \in Nat
BY LenProperties, ElementOfSeq DEF Chars

(* putAll prints one character after the other,                            *)
PutsTo(v, s, text, colour, n) ==
  \E r : /\ r \in [0 .. n -> Screens] /\ r[0] = s /\ r[n] = v
         /\ \A k \in 1 .. n : r[k] = putc(r[k - 1], text[k], colour)

(* It does so in order.                                                    *)
LEMMA PutAllRun ==
  ASSUME NEW s \in Screens, NEW text \in Seq(Nat), NEW colour \in Nat, NEW n \in Nat, n = Len(text)
  PROVE  PutsTo(putAll(s, text, colour), s, text, colour, n)
<1>1. PICK T : T = Screens
  OBVIOUS
<1>2. DOMAIN text = 1 .. n
  BY CharsOf DEF Chars
<1> DEFINE op(v, k) == putc(v, text[k], colour)
<1>3. ASSUME NEW k \in 1 .. n, NEW v \in T PROVE op(v, k) \in T
  <2>1. text[k] \in Nat
    BY CharsOf
  <2> QED BY <1>1, <2>1, PutcScreen
<1>4. PICK step : step = [k \in 1 .. n |-> [v \in T |-> op(v, k)]]
  OBVIOUS
<1>5. \A k \in 1 .. n : \A v \in T : op(v, k) \in T
  BY <1>3
<1> HIDE DEF op
<1>6. \A k \in 1 .. n : \A v \in T : step[k][v] = op(v, k)
  BY <1>4
<1>7. s \in T /\ Steps(step, n, T)
  BY <1>5, <1>6, <1>1 DEF Steps
<1>8. PICK f : IsFold(f, s, n, step, T)
  BY <1>7, FoldExists
<1> DEFINE Is(g) == g = [q \in SUBSET (1 .. n) |-> IF q = {} THEN s ELSE op(g[q \ {Max(q)}], Max(q))]
<1>9. Is(f)
  <2>1. f \in [SUBSET (1 .. n) -> T] /\ f[{}] = s
    BY <1>8 DEF IsFold
  <2>2. ASSUME NEW q \in SUBSET (1 .. n), q # {}
        PROVE  f[q] = op(f[q \ {Max(q)}], Max(q))
    <3>1. Max(q) \in 1 .. n /\ q \ {Max(q)} \in SUBSET (1 .. n)
      BY <2>2, MaxOf
    <3>2. f[q \ {Max(q)}] \in T
      BY <2>1, <3>1
    <3>3. f[q] = step[Max(q)][f[q \ {Max(q)}]]
      BY <1>8, <2>2 DEF IsFold
    <3> QED BY <1>6, <3>1, <3>2, <3>3
  <2>3. \A q \in SUBSET (1 .. n) : f[q] = IF q = {} THEN s ELSE op(f[q \ {Max(q)}], Max(q))
    BY <2>1, <2>2, Zenon
  <2>4. f = [q \in SUBSET (1 .. n) |-> f[q]]
    BY <2>1
  <2> QED BY <2>3, <2>4, Zenon
<1>10. putAll(s, text, colour) = (CHOOSE g : Is(g))[1 .. n]
  BY <1>2, Zenon DEF putAll, FoldLeft, MapThenFoldSet, op
<1>11. PICK g : Is(g) /\ putAll(s, text, colour) = g[1 .. n]
  BY <1>9, <1>10
<1>12. g[{}] = s /\ \A k \in 1 .. n : g[1 .. k] = op(g[1 .. k - 1], k)
  <2>1. g[{}] = s
    BY <1>11
  <2>2. ASSUME NEW k \in 1 .. n PROVE g[1 .. k] = op(g[1 .. k - 1], k)
    <3>1. /\ Max(1 .. k) = k /\ (1 .. k) \ {k} = 1 .. k - 1
          /\ 1 .. k \in SUBSET (1 .. n) /\ 1 .. k # {}
      BY MaxInterval
    <3> QED BY <1>11, <3>1
  <2> QED BY <2>1, <2>2
<1>13. Follows(g, s, n, step, T)
  BY <1>6, <1>12 DEF Follows
<1>14. PICK r : IsRun(r, s, n, step, T) /\ r[n] = g[1 .. n]
  BY <1>7, <1>13, FoldRun
<1>15. r \in [0 .. n -> T] /\ r[0] = s /\ r[n] = putAll(s, text, colour)
  BY <1>11, <1>14 DEF IsRun
<1>16. ASSUME NEW k \in 1 .. n PROVE r[k] = op(r[k - 1], k)
  <2>1. k - 1 \in 0 .. n
    OBVIOUS
  <2> QED BY <1>6, <1>14, <1>15, <2>1 DEF IsRun
<1> QED BY <1>1, <1>15, <1>16 DEF PutsTo, op

(* and so does the paper.                                                  *)
LEMMA PrintedText ==
  ASSUME NEW p \in Seq(Nat), NEW c \in Nat
  PROVE  Printed(p, c) \in Seq(Nat)
<1>1. PICK l : l = Longer(p, c)
  OBVIOUS
<1>2. l \in Seq(Nat)
  <2>1. PICK q \in Nat : q = Cols - (Len(p) % Cols)
    <3>1. PICK k \in Nat : k = Len(p)
      BY LenProperties
    <3>2. k % Cols \in 0 .. Cols - 1
      BY Sizes
    <3>3. Cols - (k % Cols) \in Nat
      BY <3>2, Sizes
    <3> QED BY <3>1, <3>3, Zenon
  <2>2. [i \in 1 .. q |-> SPACE] \in Seq(Nat)
    BY SeqDef DEF SPACE
  <2>3. p \o [i \in 1 .. q |-> SPACE] \in Seq(Nat)
    BY <2>2, ConcatProperties
  <2>4. Append(p, c) \in Seq(Nat)
    BY AppendProperties
  <2> QED BY <1>1, <2>1, <2>3, <2>4 DEF Longer, Spaced
<1>3. Printed(p, c) = IF Len(l) = Size THEN SubSeq(l, Cols + 1, Len(l)) ELSE l
  BY <1>1, Zenon DEF Printed, Longer, Spaced, Size
<1>4. SubSeq(l, Cols + 1, Len(l)) \in Seq(Nat)
  <2>1. PICK u \in Nat, v \in Nat : u = Cols + 1 /\ v = Len(l)
    <3>1. Len(l) \in Nat
      BY <1>2, LenProperties
    <3>2. Cols + 1 \in Nat
      BY Sizes
    <3> QED BY <3>1, <3>2, Zenon
  <2>2. u \in Int /\ v \in Int
    OBVIOUS
  <2>3. \A i \in u .. v : l[i] \in Nat
    <3>1. \A i \in u .. v : i \in 1 .. Len(l)
      BY <2>1, Sizes
    <3> QED BY <1>2, <3>1, ElementOfSeq
  <2>4. SubSeq(l, u, v) \in Seq(Nat)
    BY <2>2, <2>3, SubSeqProperties
  <2> QED BY <2>1, <2>4
<1> QED BY <1>2, <1>3, <1>4

PrintsTo(v, p, text, n) ==
  \E r : /\ r[0] = p /\ r[n] = v /\ r \in [0 .. n -> Seq(Nat)]
         /\ \A k \in 1 .. n : r[k] = Printed(r[k - 1], text[k])

(* It prints one character after the other as well.                        *)
LEMMA PrintedRun ==
  ASSUME NEW p \in Seq(Nat), NEW text \in Seq(Nat), NEW n \in Nat, n = Len(text)
  PROVE  PrintsTo(FoldLeft(Printed, p, text), p, text, n)
<1>1. PICK T : T = Seq(Nat)
  OBVIOUS
<1>2. DOMAIN text = 1 .. n
  BY CharsOf DEF Chars
<1> DEFINE op(v, k) == Printed(v, text[k])
<1>3. ASSUME NEW k \in 1 .. n, NEW v \in T PROVE op(v, k) \in T
  <2>1. text[k] \in Nat
    BY CharsOf
  <2> QED BY <1>1, <2>1, PrintedText
<1>4. PICK step : step = [k \in 1 .. n |-> [v \in T |-> op(v, k)]]
  OBVIOUS
<1>5. \A k \in 1 .. n : \A v \in T : op(v, k) \in T
  BY <1>3
<1> HIDE DEF op
<1>6. \A k \in 1 .. n : \A v \in T : step[k][v] = op(v, k)
  BY <1>4
<1>7. p \in T /\ Steps(step, n, T)
  BY <1>5, <1>6, <1>1 DEF Steps
<1>8. PICK f : IsFold(f, p, n, step, T)
  BY <1>7, FoldExists
<1> DEFINE Is(g) == g = [q \in SUBSET (1 .. n) |-> IF q = {} THEN p ELSE op(g[q \ {Max(q)}], Max(q))]
<1>9. Is(f)
  <2>1. f \in [SUBSET (1 .. n) -> T] /\ f[{}] = p
    BY <1>8 DEF IsFold
  <2>2. ASSUME NEW q \in SUBSET (1 .. n), q # {}
        PROVE  f[q] = op(f[q \ {Max(q)}], Max(q))
    <3>1. Max(q) \in 1 .. n /\ q \ {Max(q)} \in SUBSET (1 .. n)
      BY <2>2, MaxOf
    <3>2. f[q \ {Max(q)}] \in T
      BY <2>1, <3>1
    <3>3. f[q] = step[Max(q)][f[q \ {Max(q)}]]
      BY <1>8, <2>2 DEF IsFold
    <3> QED BY <1>6, <3>1, <3>2, <3>3
  <2>3. \A q \in SUBSET (1 .. n) : f[q] = IF q = {} THEN p ELSE op(f[q \ {Max(q)}], Max(q))
    BY <2>1, <2>2, Zenon
  <2>4. f = [q \in SUBSET (1 .. n) |-> f[q]]
    BY <2>1
  <2> QED BY <2>3, <2>4, Zenon
<1>10. FoldLeft(Printed, p, text) = (CHOOSE g : Is(g))[1 .. n]
  BY <1>2, Zenon DEF FoldLeft, MapThenFoldSet, op
<1>11. PICK g : Is(g) /\ FoldLeft(Printed, p, text) = g[1 .. n]
  BY <1>9, <1>10
<1>12. g[{}] = p /\ \A k \in 1 .. n : g[1 .. k] = op(g[1 .. k - 1], k)
  <2>1. g[{}] = p
    BY <1>11
  <2>2. ASSUME NEW k \in 1 .. n PROVE g[1 .. k] = op(g[1 .. k - 1], k)
    <3>1. /\ Max(1 .. k) = k /\ (1 .. k) \ {k} = 1 .. k - 1
          /\ 1 .. k \in SUBSET (1 .. n) /\ 1 .. k # {}
      BY MaxInterval
    <3> QED BY <1>11, <3>1
  <2> QED BY <2>1, <2>2
<1>13. Follows(g, p, n, step, T)
  BY <1>6, <1>12 DEF Follows
<1>14. PICK r : IsRun(r, p, n, step, T) /\ r[n] = g[1 .. n]
  BY <1>7, <1>13, FoldRun
<1>15. r \in [0 .. n -> T] /\ r[0] = p /\ r[n] = FoldLeft(Printed, p, text)
  BY <1>11, <1>14 DEF IsRun
<1>16. ASSUME NEW k \in 1 .. n PROVE r[k] = op(r[k - 1], k)
  <2>1. k - 1 \in 0 .. n
    OBVIOUS
  <2> QED BY <1>6, <1>14, <1>15, <2>1 DEF IsRun
<1> QED BY <1>1, <1>15, <1>16 DEF PrintsTo, op

(* Together they show the same.                                            *)
LEMMA PutAllShows ==
  ASSUME NEW s \in Screens, NEW text \in Seq(Nat), NEW colour \in Nat
  PROVE  /\ putAll(s, text, colour) \in Screens
         /\ \A p : ScreenShows(s, p, colour)
                     => ScreenShows(putAll(s, text, colour), FoldLeft(Printed, p, text), colour)
<1>1. PICK n \in Nat : n = Len(text)
  BY CharsOf
<1>2. PutsTo(putAll(s, text, colour), s, text, colour, n)
  BY <1>1, PutAllRun
<1>3. PICK r : /\ r \in [0 .. n -> Screens] /\ r[0] = s /\ r[n] = putAll(s, text, colour)
               /\ \A k \in 1 .. n : r[k] = putc(r[k - 1], text[k], colour)
  BY <1>2 DEF PutsTo
<1>4. putAll(s, text, colour) \in Screens
  BY <1>3
<1>5. ASSUME NEW p, ScreenShows(s, p, colour)
      PROVE  ScreenShows(putAll(s, text, colour), FoldLeft(Printed, p, text), colour)
  <2>1. p \in Seq(Nat)
    BY <1>5 DEF ScreenShows, ShowsAt
  <2>2. PrintsTo(FoldLeft(Printed, p, text), p, text, n)
    BY <1>1, <2>1, PrintedRun
  <2>3. PICK e : e = FoldLeft(Printed, p, text)
    OBVIOUS
  <2>4. PICK q : /\ q[0] = p /\ q[n] = e
                 /\ \A k \in 1 .. n : q[k] = Printed(q[k - 1], text[k])
    BY <2>2, <2>3 DEF PrintsTo
  <2> DEFINE S == {k \in Nat : k <= n => ScreenShows(r[k], q[k], colour)}
  <2>5. 0 \in S
    BY <1>3, <1>5, <2>4
  <2>6. ASSUME NEW k \in Nat, k \in S PROVE k + 1 \in S
    <3>1. PICK j \in Nat : j = k + 1 /\ j - 1 = k
      OBVIOUS
    <3>2. ASSUME j <= n PROVE ScreenShows(r[j], q[j], colour)
      <4>1. j \in 1 .. n /\ k \in 0 .. n /\ k <= n
        BY <3>1, <3>2
      <4>2. PICK c \in Nat : c = text[j]
        BY <1>1, <4>1, CharsOf
      <4>3. PICK v \in Screens : v = r[k]
        BY <1>3, <4>1
      <4>4. r[j] = putc(v, c, colour) /\ q[j] = Printed(q[k], c)
        BY <1>3, <2>4, <3>1, <4>1, <4>2, <4>3
      <4>5. ScreenShows(v, q[k], colour)
        BY <2>6, <4>1, <4>3
      <4>6. PrintsOn(putc(v, c, colour).mem, putc(v, c, colour).x, putc(v, c, colour).y, v, c, colour)
        BY PutcScreen
      <4> QED BY <4>4, <4>5, <4>6 DEF PrintsOn, ScreenShows
    <3> QED BY <3>1, <3>2
  <2> HIDE DEF S
  <2>7. n \in S
    BY <2>5, <2>6, Induction
  <2> QED BY <1>3, <2>3, <2>4, <2>7 DEF S
<1> QED BY <1>4, <1>5

-----------------------------------------------------------------------------
(* Part 4.  Deleting.                                                      *)

(* Deletions, and how many characters may go.                              *)
Room(s) == s.x + (IF s.y > s.save_y THEN Cols * (s.y - s.save_y) ELSE 0)

FrontOf(text, m) == SubSeq(text, 1, m)

(* What deletec leaves of a screen on which it is not stuck.               *)
OneLess(d, s) ==
  /\ d.save_y = s.save_y /\ Room(d) = Room(s) - 1
  /\ \A p : p = Cols * s.y + s.x
             => /\ p > 0 /\ Cols * d.y + d.x = p - 1
                /\ d.mem = [s.mem EXCEPT ![2 * (p - 1)] = SPACE]

(* Where it is not stuck, deletec takes the last character and one of the  *)
(* room.                                                                   *)
LEMMA DeletecScreen ==
  ASSUME NEW s \in Screens
  PROVE  /\ deletec(s) \in Screens
         /\ Room(s) > 0 => OneLess(deletec(s), s)
<1>1. PICK d : d = IF s.x > 0 THEN [s EXCEPT !.x = @ - 1]
                   ELSE IF s.y > s.save_y THEN [s EXCEPT !.x = Cols - 1, !.y = @ - 1]
                   ELSE s
  OBVIOUS
<1>2. PICK e : e = [d EXCEPT !.mem = [@ EXCEPT ![2 * Position(d)] = SPACE]]
  OBVIOUS
<1>3. deletec(s) = e
  BY <1>1, <1>2, Zenon DEF deletec
<1>4. PICK x \in 0 .. Cols - 1, y \in 0 .. Rows - 1, z \in 0 .. Rows - 1 :
        x = s.x /\ y = s.y /\ z = s.save_y
  BY DEF Screens
<1>5. /\ d \in Screens /\ d.mem = s.mem /\ d.save_y = z
      /\ d.x = IF x > 0 THEN x - 1 ELSE IF y > z THEN Cols - 1 ELSE 0
      /\ d.y = IF x > 0 THEN y ELSE IF y > z THEN y - 1 ELSE y
  <2>1. CASE x > 0
    <3>1. d = [s EXCEPT !.x = x - 1]
      BY <1>1, <1>4, <2>1
    <3>2. x - 1 \in 0 .. Cols - 1
      BY <2>1, Sizes
    <3> QED BY <1>4, <2>1, <3>1, <3>2 DEF Screens
  <2>2. CASE ~(x > 0) /\ y > z
    <3>1. PICK u : u = [s EXCEPT !.x = Cols - 1]
      OBVIOUS
    <3>2. d = [u EXCEPT !.y = @ - 1]
      BY <1>1, <1>4, <2>2, <3>1, Zenon
    <3>3. Cols - 1 \in 0 .. Cols - 1 /\ y - 1 \in 0 .. Rows - 1
      BY <2>2, Sizes
    <3>4. u \in Screens /\ u.y = y /\ u.x = Cols - 1 /\ u.mem = s.mem /\ u.save_y = z
      BY <1>4, <3>1, <3>3 DEF Screens
    <3> QED BY <2>2, <3>2, <3>3, <3>4 DEF Screens
  <2>3. CASE ~(x > 0) /\ ~(y > z)
    <3>1. d = s
      BY <1>1, <1>4, <2>3
    <3>2. x = 0
      BY <2>3, Sizes
    <3> QED BY <1>4, <2>3, <3>1, <3>2
  <2> QED BY <2>1, <2>2, <2>3
<1>6. PICK p \in Nat : p = Cols * y + x /\ Cols * y \in Nat
  BY <1>4, RowBounds, Sizes
<1>7. PICK q : q = 2 * Position(d)
  OBVIOUS
<1>8. PICK m : m = [s.mem EXCEPT ![q] = SPACE]
  OBVIOUS
<1>9. e = [d EXCEPT !.mem = m]
  BY <1>2, <1>5, <1>7, <1>8, Zenon
<1>10. m \in Mem
  BY <1>8 DEF Screens, Mem, SPACE
<1>11. e \in Screens /\ e.x = d.x /\ e.y = d.y /\ e.save_y = d.save_y /\ e.mem = m
  BY <1>5, <1>9, <1>10 DEF Screens
<1>12. ASSUME Room(s) > 0 PROVE OneLess(e, s)
  <2>1. CASE x > 0
    <3>1. e.x = x - 1 /\ e.y = y /\ e.save_y = z
      BY <1>5, <1>11, <2>1
    <3>2. PICK w \in Int : w = IF y > z THEN Cols * (y - z) ELSE 0
      BY Sizes
    <3>3. Room(s) = x + w /\ Room(e) = x - 1 + w
      BY <1>4, <3>1, <3>2 DEF Room
    <3>4. Cols * e.y + e.x = p - 1 /\ p > 0
      BY <1>6, <2>1, <3>1
    <3>5. q = 2 * (p - 1)
      BY <1>7, <1>11, <3>4 DEF Position
    <3> QED BY <1>4, <1>6, <1>8, <1>11, <3>1, <3>3, <3>4, <3>5 DEF OneLess
  <2>2. CASE ~(x > 0)
    <3>1. x = 0 /\ y > z
      BY <1>4, <1>12, <2>2, Sizes DEF Room
    <3>2. e.x = Cols - 1 /\ e.y = y - 1 /\ e.save_y = z
      BY <1>5, <1>11, <2>2, <3>1
    <3>3. PICK k \in Nat : k = y - 1 - z
      BY <3>1
    <3>4. y - z = k + 1 /\ Cols * (k + 1) = Cols * k + Cols /\ Cols * k \in Nat
      BY <3>3, Sizes
    <3>5. Room(s) = Cols * k + Cols
      BY <1>4, <3>1, <3>4, Sizes DEF Room
    <3>6. Room(e) = Cols - 1 + Cols * k
      <4>1. CASE y - 1 > z
        <5>1. y - 1 - z = k
          BY <3>3
        <5> QED BY <3>2, <4>1, <5>1 DEF Room
      <4>2. CASE ~(y - 1 > z)
        <5>1. k = 0
          BY <3>3, <4>2
        <5>2. Cols * k = 0
          BY <5>1, Sizes
        <5> QED BY <3>2, <4>2, <5>2, Sizes DEF Room
      <4> QED BY <4>1, <4>2
    <3>7. PICK l \in Nat : l = y - 1 /\ y = l + 1 /\ l \in 0 .. Rows - 1
      <4>1. y - 1 \in Nat /\ y - 1 \in 0 .. Rows - 1 /\ y = (y - 1) + 1
        BY <3>1, Sizes
      <4> QED BY <4>1, Zenon
    <3>8. Cols * y = Cols * l + Cols /\ Cols * l \in Nat
      BY <3>7, RowBounds
    <3>9. Cols * e.y + e.x = p - 1 /\ p > 0
      BY <1>6, <3>1, <3>2, <3>7, <3>8, Sizes
    <3>10. q = 2 * (p - 1)
      BY <1>7, <1>11, <3>9 DEF Position
    <3>11. Room(e) = Room(s) - 1
      BY <3>4, <3>5, <3>6, Sizes
    <3> QED BY <1>4, <1>6, <1>8, <1>11, <3>2, <3>9, <3>10, <3>11 DEF OneLess
  <2> QED BY <2>1, <2>2
<1> QED BY <1>3, <1>11, <1>12

(* deleteAll is deletec, n times.                                          *)
DeletesTo(v, s, n) ==
  \E r : /\ r \in [0 .. n -> Screens] /\ r[0] = s /\ r[n] = v
         /\ \A k \in 1 .. n : r[k] = deletec(r[k - 1])

(* It does so one after the other.                                         *)
LEMMA DeleteAllRun ==
  ASSUME NEW s \in Screens, NEW n \in Nat
  PROVE  DeletesTo(deleteAll(s, n), s, n)
<1>1. PICK T : T = Screens
  OBVIOUS
<1>2. DOMAIN [i \in 1 .. n |-> i] = 1 .. n
  OBVIOUS
<1> DEFINE op(v, k) == deletec(v)
<1>3. ASSUME NEW k \in 1 .. n, NEW v \in T PROVE op(v, k) \in T
  BY <1>1, DeletecScreen
<1>4. PICK step : step = [k \in 1 .. n |-> [v \in T |-> op(v, k)]]
  OBVIOUS
<1>5. \A k \in 1 .. n : \A v \in T : op(v, k) \in T
  BY <1>3
<1> HIDE DEF op
<1>6. \A k \in 1 .. n : \A v \in T : step[k][v] = op(v, k)
  BY <1>4
<1>7. s \in T /\ Steps(step, n, T)
  BY <1>5, <1>6, <1>1 DEF Steps
<1>8. PICK f : IsFold(f, s, n, step, T)
  BY <1>7, FoldExists
<1> DEFINE Is(g) == g = [q \in SUBSET (1 .. n) |-> IF q = {} THEN s ELSE op(g[q \ {Max(q)}], Max(q))]
<1>9. Is(f)
  <2>1. f \in [SUBSET (1 .. n) -> T] /\ f[{}] = s
    BY <1>8 DEF IsFold
  <2>2. ASSUME NEW q \in SUBSET (1 .. n), q # {}
        PROVE  f[q] = op(f[q \ {Max(q)}], Max(q))
    <3>1. Max(q) \in 1 .. n /\ q \ {Max(q)} \in SUBSET (1 .. n)
      BY <2>2, MaxOf
    <3>2. f[q \ {Max(q)}] \in T
      BY <2>1, <3>1
    <3>3. f[q] = step[Max(q)][f[q \ {Max(q)}]]
      BY <1>8, <2>2 DEF IsFold
    <3> QED BY <1>6, <3>1, <3>2, <3>3
  <2>3. \A q \in SUBSET (1 .. n) : f[q] = IF q = {} THEN s ELSE op(f[q \ {Max(q)}], Max(q))
    BY <2>1, <2>2, Zenon
  <2>4. f = [q \in SUBSET (1 .. n) |-> f[q]]
    BY <2>1
  <2> QED BY <2>3, <2>4, Zenon
<1>10. deleteAll(s, n) = (CHOOSE g : Is(g))[1 .. n]
  BY <1>2, Zenon DEF deleteAll, FoldLeft, MapThenFoldSet, op
<1>11. PICK g : Is(g) /\ deleteAll(s, n) = g[1 .. n]
  BY <1>9, <1>10
<1>12. g[{}] = s /\ \A k \in 1 .. n : g[1 .. k] = op(g[1 .. k - 1], k)
  <2>1. g[{}] = s
    BY <1>11
  <2>2. ASSUME NEW k \in 1 .. n PROVE g[1 .. k] = op(g[1 .. k - 1], k)
    <3>1. /\ Max(1 .. k) = k /\ (1 .. k) \ {k} = 1 .. k - 1
          /\ 1 .. k \in SUBSET (1 .. n) /\ 1 .. k # {}
      BY MaxInterval
    <3> QED BY <1>11, <3>1
  <2> QED BY <2>1, <2>2
<1>13. Follows(g, s, n, step, T)
  BY <1>6, <1>12 DEF Follows
<1>14. PICK r : IsRun(r, s, n, step, T) /\ r[n] = g[1 .. n]
  BY <1>7, <1>13, FoldRun
<1>15. r \in [0 .. n -> T] /\ r[0] = s /\ r[n] = deleteAll(s, n)
  BY <1>11, <1>14 DEF IsRun
<1>16. ASSUME NEW k \in 1 .. n PROVE r[k] = op(r[k - 1], k)
  <2>1. k - 1 \in 0 .. n
    OBVIOUS
  <2> QED BY <1>6, <1>14, <1>15, <2>1 DEF IsRun
<1> QED BY <1>1, <1>15, <1>16 DEF DeletesTo, op

(* Cutting m characters off and then one more.                             *)
LEMMA FrontSteps ==
  ASSUME NEW text \in Seq(Nat), NEW m \in Nat, m <= Len(text)
  PROVE  /\ FrontOf(text, m) \in Seq(Nat) /\ Len(FrontOf(text, m)) = m
         /\ m > 0 => SubSeq(FrontOf(text, m), 1, m - 1) = FrontOf(text, m - 1)
<1>1. PICK l \in Nat : l = Len(text)
  BY LenProperties
<1>2. ASSUME NEW w \in Seq(Nat), NEW j \in Nat, j <= Len(w)
      PROVE  /\ SubSeq(w, 1, j) \in Seq(Nat) /\ Len(SubSeq(w, 1, j)) = j
             /\ \A i \in 1 .. j : SubSeq(w, 1, j)[i] = w[i]
  <2>1. \A i \in 1 .. j : w[i] \in Nat
    <3>1. \A i \in 1 .. j : i \in 1 .. Len(w)
      BY <1>2, LenProperties
    <3> QED BY <3>1, ElementOfSeq
  <2>2. PICK u \in Int, v \in Int : u = 1 /\ v = j
    OBVIOUS
  <2>3. /\ SubSeq(w, u, v) \in Seq(Nat)
        /\ Len(SubSeq(w, u, v)) = IF u <= v THEN v - u + 1 ELSE 0
        /\ \A i \in 1 .. v - u + 1 : SubSeq(w, u, v)[i] = w[u + i - 1]
    BY <2>1, <2>2, SubSeqProperties
  <2>4. v - u + 1 = j /\ (u <= v \/ j = 0) /\ \A i \in 1 .. j : u + i - 1 = i
    BY <2>2
  <2> QED BY <2>2, <2>3, <2>4
<1>3. PICK f : f = FrontOf(text, m)
  OBVIOUS
<1>4. f \in Seq(Nat) /\ Len(f) = m /\ \A i \in 1 .. m : f[i] = text[i]
  BY <1>2, <1>3 DEF FrontOf
<1>5. ASSUME m > 0 PROVE SubSeq(f, 1, m - 1) = FrontOf(text, m - 1)
  <2>1. PICK j \in Nat : j = m - 1 /\ j <= m /\ j <= Len(text)
    BY <1>1, <1>5
  <2>2. PICK a, b : a = SubSeq(f, 1, j) /\ b = SubSeq(text, 1, j)
    OBVIOUS
  <2>3. a \in Seq(Nat) /\ Len(a) = j /\ \A i \in 1 .. j : a[i] = f[i]
    BY <1>2, <1>4, <2>1, <2>2
  <2>4. b \in Seq(Nat) /\ Len(b) = j /\ \A i \in 1 .. j : b[i] = text[i]
    BY <1>2, <2>1, <2>2
  <2>5. \A i \in 1 .. Len(a) : a[i] = b[i]
    <3>1. \A i \in 1 .. j : i \in 1 .. m
      BY <2>1
    <3> QED BY <1>4, <2>3, <2>4, <3>1
  <2>6. a = b
    BY <2>3, <2>4, <2>5, SeqEqual
  <2> QED BY <2>1, <2>2, <2>6 DEF FrontOf
<1> QED BY <1>3, <1>4, <1>5

(* Deletions take as many characters from the text.                        *)
LEMMA DeleteAllShows ==
  ASSUME NEW s \in Screens, NEW n \in Nat
  PROVE  /\ deleteAll(s, n) \in Screens
         /\ n <= Room(s) =>
              \A text : \A colour \in Nat : ScreenShows(s, text, colour)
                => ScreenShows(deleteAll(s, n), SubSeq(text, 1, Len(text) - n), colour)
<1>1. DeletesTo(deleteAll(s, n), s, n)
  BY DeleteAllRun
<1>2. PICK r : /\ r \in [0 .. n -> Screens] /\ r[0] = s /\ r[n] = deleteAll(s, n)
               /\ \A k \in 1 .. n : r[k] = deletec(r[k - 1])
  BY <1>1 DEF DeletesTo
<1>3. deleteAll(s, n) \in Screens
  BY <1>2
<1>4. ASSUME n <= Room(s), NEW text, NEW colour \in Nat, ScreenShows(s, text, colour)
      PROVE  ScreenShows(deleteAll(s, n), SubSeq(text, 1, Len(text) - n), colour)
  <2>1. text \in Seq(Nat)
    BY <1>4 DEF ScreenShows, ShowsAt
  <2>2. PICK len \in Nat : len = Len(text)
    BY <2>1, LenProperties
  <2>3. PICK room \in Int : room = Room(s)
    <3>1. PICK x \in Int, y \in Int, z \in Int : x = s.x /\ y = s.y /\ z = s.save_y
      BY DEF Screens
    <3> QED BY <3>1, Sizes DEF Room
  <2> DEFINE At(k) == /\ k <= len /\ Room(r[k]) = room - k
                      /\ ScreenShows(r[k], FrontOf(text, len - k), colour)
             S == {k \in Nat : k <= n => At(k)}
  <2>4. 0 \in S
    <3>1. FrontOf(text, len - 0) = text
      BY <2>1, <2>2, SubSeqFull DEF FrontOf
    <3> QED BY <1>2, <1>4, <2>3, <3>1
  <2>5. ASSUME NEW k \in Nat, k \in S PROVE k + 1 \in S
    <3>1. PICK j \in Nat : j = k + 1 /\ j - 1 = k
      OBVIOUS
    <3>2. ASSUME j <= n PROVE At(j)
      <4>1. j \in 1 .. n /\ k \in 0 .. n /\ k <= n
        BY <3>1, <3>2
      <4>2. At(k)
        BY <2>5, <4>1
      <4>3. PICK v \in Screens : v = r[k]
        BY <1>2, <4>1
      <4>4. PICK d : d = r[j] /\ d = deletec(v)
        BY <1>2, <3>1, <4>1, <4>3
      <4>5. Room(v) = room - k /\ Room(v) > 0
        BY <1>4, <2>3, <3>1, <3>2, <4>2, <4>3
      <4>6. OneLess(d, v)
        BY <4>4, <4>5, DeletecScreen
      <4>7. PICK p \in Nat : p = Cols * v.y + v.x /\ p > 0
        <5>1. PICK x \in Int, y \in Int : x = v.x /\ y = v.y
          BY DEF Screens
        <5>2. Cols * y + x \in Int
          BY Sizes
        <5>3. PICK p \in Int : p = Cols * v.y + v.x
          BY <5>1, <5>2
        <5>4. p > 0
          BY <4>6, <5>3 DEF OneLess
        <5> QED BY <5>3, <5>4
      <4>8. PICK m \in Nat : m = len - k
        BY <4>2
      <4>9. PICK f : f = FrontOf(text, m)
        OBVIOUS
      <4>10. ShowsAt(v.mem, p, f, colour)
        BY <4>2, <4>3, <4>7, <4>8, <4>9 DEF ScreenShows
      <4>11. p = m
        <5>1. m <= Len(text)
          BY <2>2, <4>8
        <5>2. Len(f) = m
          BY <2>1, <4>9, <5>1, FrontSteps
        <5> QED BY <4>10, <5>2 DEF ShowsAt
      <4>12. SubSeq(f, 1, p - 1) = FrontOf(text, m - 1)
        <5>1. m <= Len(text) /\ m > 0
          BY <2>2, <4>7, <4>8, <4>11
        <5> QED BY <2>1, <4>9, <4>11, <5>1, FrontSteps
      <4>13. ShowsAt([v.mem EXCEPT ![2 * (p - 1)] = SPACE], p - 1, SubSeq(f, 1, p - 1), colour)
        <5>1. p \in Nat \ {0}
          BY <4>7
        <5> QED BY <4>10, <5>1, DeleteShows
      <4>14. d.mem = [v.mem EXCEPT ![2 * (p - 1)] = SPACE] /\ Cols * d.y + d.x = p - 1
             /\ Room(d) = Room(v) - 1
        BY <4>6, <4>7 DEF OneLess
      <4>15. ScreenShows(d, FrontOf(text, m - 1), colour)
        BY <4>12, <4>13, <4>14 DEF ScreenShows
      <4>16. m - 1 = len - j /\ j <= len
        BY <3>1, <4>7, <4>8, <4>11
      <4>17. Room(d) = room - j
        BY <3>1, <4>5, <4>14
      <4> QED BY <4>4, <4>15, <4>16, <4>17
    <3> HIDE DEF At
    <3> QED BY <3>1, <3>2
  <2>6. n \in S
    <3> HIDE DEF S
    <3> QED BY <2>4, <2>5, Induction
  <2>7. At(n)
    BY <2>6
  <2> QED BY <1>2, <2>2, <2>7 DEF FrontOf
<1> QED BY <1>3, <1>4

(* keyboard_puts prints nothing of a line.                                 *)
Keyed == {TAB, SPACE + 1}

(* Its break always comes at the first character.                          *)
LEMMA NothingPut ==
  ASSUME NEW s \in Seq(Keyed)
  PROVE  keyboard_puts(s) = <<>>
<1>1. PICK n \in Nat : n = Len(s)
  BY LenProperties
<1> DEFINE breaks == {i \in 1 .. Len(s) : s[(IF i - 1 = 10 THEN 1 ELSE 0) + 1] # NUL}
<1>2. keyboard_puts(s) = IF breaks = {} THEN s
                         ELSE SubSeq(s, 1, (CHOOSE i \in breaks : \A j \in breaks : i <= j) - 1)
  BY Zenon DEF keyboard_puts
<1>3. breaks = {i \in 1 .. Len(s) : s[(IF i - 1 = 10 THEN 1 ELSE 0) + 1] # NUL}
  OBVIOUS
<1> HIDE DEF breaks
<1>4. CASE n = 0
  <2>1. breaks = {}
    BY <1>1, <1>3, <1>4
  <2>2. s = <<>>
    BY <1>1, <1>4, EmptySeq
  <2> QED BY <1>2, <2>1, <2>2
<1>5. CASE n # 0
  <2>1. s[1] \in Keyed
    BY <1>1, <1>5, ElementOfSeq
  <2>2. s[1] # NUL
    BY <2>1 DEF Keyed, TAB, SPACE, NUL
  <2>3. 1 \in breaks
    BY <1>1, <1>3, <1>5, <2>2
  <2>4. \A j \in breaks : j \in 1 .. n
    BY <1>1, <1>3
  <2>5. \A i \in breaks : (\A j \in breaks : i <= j) <=> i = 1
    BY <2>3, <2>4
  <2>6. (CHOOSE i \in breaks : \A j \in breaks : i <= j) = 1
    BY <2>3, <2>5
  <2>7. SubSeq(s, 1, 0) = <<>>
    BY SubSeqEmpty
  <2>8. (CHOOSE i \in breaks : \A j \in breaks : i <= j) - 1 = 0 /\ breaks # {}
    BY <2>3, <2>6
  <2> QED BY <1>2, <2>7, <2>8, Zenon
<1> QED BY <1>4, <1>5

(* What a program writes is a text.                                        *)
LEMMA ExpandedText ==
  ASSUME NEW text \in Seq(Nat)
  PROVE  Expanded(text) \in Seq(Nat)
<1>1. PICK T : T = Seq(Nat)
  OBVIOUS
<1>2. PICK n \in Nat : n = Len(text) /\ DOMAIN text = 1 .. n
  BY CharsOf DEF Chars
<1>3. <<>> \in Seq(Nat)
  BY EmptySeq
<1> DEFINE op(v, k) == v \o (IF text[k] = NUL THEN <<>>
                            ELSE IF text[k] = TAB THEN <<SPACE, SPACE, SPACE, SPACE>> ELSE <<text[k]>>)
<1>4. ASSUME NEW k \in 1 .. n, NEW v \in T PROVE op(v, k) \in T
  <2>1. PICK c \in Nat : c = text[k]
    BY <1>2, CharsOf
  <2>2. <<SPACE, SPACE, SPACE, SPACE>> \in Seq(Nat) /\ <<c>> \in Seq(Nat)
    BY DEF SPACE
  <2>3. PICK w \in Seq(Nat) : w = IF c = NUL THEN <<>>
                                 ELSE IF c = TAB THEN <<SPACE, SPACE, SPACE, SPACE>> ELSE <<c>>
    BY <1>3, <2>2
  <2>4. v \o w \in Seq(Nat)
    BY <1>1, ConcatProperties
  <2> QED BY <1>1, <2>1, <2>3, <2>4
<1>5. PICK step : step = [k \in 1 .. n |-> [v \in T |-> op(v, k)]]
  OBVIOUS
<1>6. \A k \in 1 .. n : \A v \in T : op(v, k) \in T
  BY <1>4
<1> HIDE DEF op
<1>7. \A k \in 1 .. n : \A v \in T : step[k][v] = op(v, k)
  BY <1>5
<1>8. <<>> \in T /\ Steps(step, n, T)
  BY <1>6, <1>7, <1>1, <1>3 DEF Steps
<1>9. PICK f : IsFold(f, <<>>, n, step, T)
  BY <1>8, FoldExists
<1> DEFINE Is(g) == g = [q \in SUBSET (1 .. n) |-> IF q = {} THEN <<>> ELSE op(g[q \ {Max(q)}], Max(q))]
<1>10. Is(f)
  <2>1. f \in [SUBSET (1 .. n) -> T] /\ f[{}] = <<>>
    BY <1>9 DEF IsFold
  <2>2. ASSUME NEW q \in SUBSET (1 .. n), q # {}
        PROVE  f[q] = op(f[q \ {Max(q)}], Max(q))
    <3>1. Max(q) \in 1 .. n /\ q \ {Max(q)} \in SUBSET (1 .. n)
      BY <2>2, MaxOf
    <3>2. f[q \ {Max(q)}] \in T
      BY <2>1, <3>1
    <3>3. f[q] = step[Max(q)][f[q \ {Max(q)}]]
      BY <1>9, <2>2 DEF IsFold
    <3> QED BY <1>7, <3>1, <3>2, <3>3
  <2>3. \A q \in SUBSET (1 .. n) : f[q] = IF q = {} THEN <<>> ELSE op(f[q \ {Max(q)}], Max(q))
    BY <2>1, <2>2, Zenon
  <2>4. f = [q \in SUBSET (1 .. n) |-> f[q]]
    BY <2>1
  <2> QED BY <2>3, <2>4, Zenon
<1>11. Expanded(text) = (CHOOSE g : Is(g))[1 .. n]
  BY <1>2, Zenon DEF Expanded, FoldLeft, MapThenFoldSet, op
<1>12. PICK g : Is(g) /\ Expanded(text) = g[1 .. n]
  BY <1>10, <1>11
<1>13. g[{}] = <<>> /\ \A k \in 1 .. n : g[1 .. k] = op(g[1 .. k - 1], k)
  <2>1. g[{}] = <<>>
    BY <1>12
  <2>2. ASSUME NEW k \in 1 .. n PROVE g[1 .. k] = op(g[1 .. k - 1], k)
    <3>1. /\ Max(1 .. k) = k /\ (1 .. k) \ {k} = 1 .. k - 1
          /\ 1 .. k \in SUBSET (1 .. n) /\ 1 .. k # {}
      BY MaxInterval
    <3> QED BY <1>12, <3>1
  <2> QED BY <2>1, <2>2
<1>14. Follows(g, <<>>, n, step, T)
  BY <1>7, <1>13 DEF Follows
<1>15. PICK r : IsRun(r, <<>>, n, step, T) /\ r[n] = g[1 .. n]
  BY <1>8, <1>14, FoldRun
<1>16. r \in [0 .. n -> T] /\ r[0] = <<>> /\ r[n] = Expanded(text)
  BY <1>12, <1>15 DEF IsRun
<1>17. ASSUME NEW k \in 1 .. n PROVE r[k] = op(r[k - 1], k)
  <2>1. k - 1 \in 0 .. n
    OBVIOUS
  <2> QED BY <1>7, <1>15, <1>16, <2>1 DEF IsRun
<1> QED BY <1>1, <1>16

-----------------------------------------------------------------------------
(* Part 5.  Paging.                                                        *)

(* The constants, and the memories.                                        *)
LEMMA Constants ==
  /\ NumTerminals \in Nat \ {0} /\ 0 \in Terminals /\ Terminals \subseteq Nat
  /\ VIDEO \in Memories /\ VIDEO \notin Terminals /\ Terminals \subseteq Memories
  /\ \A t \in Terminals : t # -1
  /\ FirstPage \notin Memories /\ FirstPage \in Pages /\ Pages = Memories \cup {FirstPage}
BY NumTerminalsAssumption DEF Terminals, VIDEO, Memories, FirstPage, Pages

(* The table maps every memory for the kernel alone, and its first page    *)
(* for whoever was last; only the slot above the programs is for users.    *)
TableOK(p) ==
  /\ p.pd \in [Slots -> [to : {"none", "table", "kernel"}, us : BOOLEAN]]
  /\ DOMAIN p.pt = Pages
  /\ p.pd["low"] = TheTable(FALSE)
  /\ p.pd["above"] \in {NotPresent, TheTable(TRUE)}
  /\ \A m \in Memories : p.pt[m] = Page(m, FALSE)

(* The page of the user memory is mapped to memory m.                      *)
MapsTo(p, m) == p.pd["above"] = TheTable(TRUE) /\ p.pt[FirstPage] = Page(m, TRUE)

(* Remapping the first page leaves the memories alone.                     *)
LEMMA MapTableOK ==
  ASSUME NEW p, TableOK(p), NEW m
  PROVE  TableOK(Map4kbPage(p, m)) /\ MapsTo(Map4kbPage(p, m), m)
BY Constants DEF TableOK, Map4kbPage, MapsTo, Slots, TheTable, NotPresent

(* What the processor finds then.                                          *)
LEMMA TableReach ==
  ASSUME NEW p, TableOK(p)
  PROVE  /\ Reaches(p, "low", TRUE) = {}
         /\ Memories \subseteq Reaches(p, "low", FALSE)
         /\ \A m \in Memories : MapsTo(p, m) => Reaches(p, "above", TRUE) = {m}
<1>1. Reaches(p, "low", TRUE) = {}
  BY DEF TableOK, Reaches, TheTable
<1>2. ASSUME NEW m \in Memories PROVE m \in Reaches(p, "low", FALSE)
  <2>1. m \in Pages /\ p.pt[m] = Page(m, FALSE) /\ p.pd["low"] = TheTable(FALSE)
    BY Constants DEF TableOK
  <2> QED BY <2>1 DEF Reaches, TheTable, Page
<1>3. ASSUME NEW m \in Memories, MapsTo(p, m) PROVE Reaches(p, "above", TRUE) = {m}
  <2>0. ASSUME NEW g \in Memories PROVE p.pt[g].us = FALSE
    <3>1. p.pt[g] = Page(g, FALSE)
      BY DEF TableOK
    <3> QED BY <3>1 DEF Page
  <2>1. \A g \in Pages : p.pt[g].us => g = FirstPage
    BY <2>0, Constants, Zenon
  <2>2. p.pt[FirstPage].to = m /\ p.pt[FirstPage].us /\ p.pd["above"].us /\ p.pd["above"].to = "table"
    BY <1>3 DEF MapsTo, Page, TheTable
  <2> QED BY <2>1, <2>2, Constants DEF Reaches
<1> QED BY <1>1, <1>2, <1>3

(* What init_paging has mapped after the terminals below n.                *)
Mapped(p, n) ==
  /\ p.pd \in [Slots -> [to : {"none", "table", "kernel"}, us : BOOLEAN]]
  /\ DOMAIN p.pt = Pages
  /\ p.pd["low"] = TheTable(FALSE) /\ p.pd["above"] = NotPresent
  /\ p.pt[VIDEO] = Page(VIDEO, FALSE)
  /\ \A t \in Terminals : t < n => p.pt[t] = Page(t, FALSE)

(* Before the first memory is mapped.                                      *)
LEMMA MappedStart == Mapped(Cleared, 0)
<1>1. PICK p : p = Cleared
  OBVIOUS
<1>2. /\ p.pd = [[s \in Slots |-> NotPresent] EXCEPT
                     !["low"] = TheTable(FALSE), !["kernel"] = [to |-> "kernel", us |-> FALSE]]
      /\ p.pt = [g \in Pages |-> IF g = VIDEO THEN Page(VIDEO, FALSE) ELSE Absent]
  BY <1>1 DEF Cleared
<1>3. /\ p.pd \in [Slots -> [to : {"none", "table", "kernel"}, us : BOOLEAN]]
      /\ p.pd["low"] = TheTable(FALSE) /\ p.pd["above"] = NotPresent
  <2>1. PICK none : none = [s \in Slots |-> NotPresent]
    OBVIOUS
  <2>2. PICK k : k = [to |-> "kernel", us |-> FALSE]
    OBVIOUS
  <2>3. PICK l : l = [none EXCEPT !["low"] = TheTable(FALSE)]
    OBVIOUS
  <2>4. p.pd = [l EXCEPT !["kernel"] = k]
    BY <1>2, <2>1, <2>2, <2>3, Zenon
  <2>5. l \in [Slots -> [to : {"none", "table", "kernel"}, us : BOOLEAN]]
    BY <2>1, <2>3 DEF TheTable, NotPresent
  <2>6. l["low"] = TheTable(FALSE) /\ l["above"] = NotPresent
    BY <2>1, <2>3 DEF Slots
  <2>7. k \in [to : {"none", "table", "kernel"}, us : BOOLEAN]
    BY <2>2
  <2> QED BY <2>4, <2>5, <2>6, <2>7 DEF Slots
<1>4. VIDEO \in Pages
  BY Constants DEF Pages, VIDEO
<1>5. DOMAIN p.pt = Pages /\ p.pt[VIDEO] = Page(VIDEO, FALSE)
  BY <1>2, <1>4
<1>6. \A t \in Terminals : ~(t < 0)
  BY Constants
<1> QED BY <1>1, <1>3, <1>5, <1>6 DEF Mapped

(* Mapping one more memory.                                                *)
LEMMA MappedNext ==
  ASSUME NEW p, NEW n \in Terminals, Mapped(p, n)
  PROVE  Mapped(MapTerminalVidmem(p, n), n + 1)
<1>1. PICK q : q = MapTerminalVidmem(p, n)
  OBVIOUS
<1>2. q.pd = [p.pd EXCEPT !["low"] = TheTable(FALSE)] /\ q.pt = [p.pt EXCEPT ![n] = Page(n, FALSE)]
  BY <1>1 DEF MapTerminalVidmem
<1>3. n \in Pages /\ n # VIDEO /\ n \in Nat /\ VIDEO \in Pages
  BY Constants DEF Memories, Pages, VIDEO
<1>4. /\ q.pd \in [Slots -> [to : {"none", "table", "kernel"}, us : BOOLEAN]]
      /\ q.pd["low"] = TheTable(FALSE) /\ q.pd["above"] = NotPresent
  BY <1>2 DEF Mapped, Slots, TheTable
<1>5. DOMAIN q.pt = Pages /\ q.pt[VIDEO] = Page(VIDEO, FALSE)
  BY <1>2, <1>3 DEF Mapped
<1>6. \A t \in Terminals : t < n + 1 => t = n \/ t < n
  BY <1>3, Constants
<1>7. \A t \in Terminals : t < n + 1 => q.pt[t] = Page(t, FALSE)
  BY <1>2, <1>3, <1>6, Constants DEF Mapped
<1> QED BY <1>1, <1>4, <1>5, <1>7 DEF Mapped


(* MapAll is a function that satisfies its recursion: the paging after the *)
(* first n terminals.                                                      *)
LEMMA MapAllSteps ==
  /\ MapAll[0] = Cleared
  /\ \A n \in Terminals : MapAll[n + 1] = MapTerminalVidmem(MapAll[n], n)
<1> DEFINE IsMap(f, n) == f = [t \in 0 .. n |-> IF t = 0 THEN Cleared
                                                ELSE MapTerminalVidmem(f[t - 1], t - 1)]
           S == {n \in Nat : \E f : IsMap(f, n)}
<1>1. 0 \in S
  <2> DEFINE f == [t \in 0 .. 0 |-> Cleared]
  <2>1. IsMap(f, 0)
    OBVIOUS
  <2> QED BY <2>1
<1>2. ASSUME NEW n \in Nat, n \in S PROVE n + 1 \in S
  <2>1. PICK f : IsMap(f, n)
    BY <1>2
  <2> DEFINE g == [t \in 0 .. n + 1 |->
                     IF t = n + 1 THEN MapTerminalVidmem(f[n], n) ELSE f[t]]
  <2>2. ASSUME NEW t \in 0 .. n + 1
        PROVE  g[t] = IF t = 0 THEN Cleared ELSE MapTerminalVidmem(g[t - 1], t - 1)
    <3>1. CASE t = n + 1
      <4>1. t # 0 /\ t - 1 = n /\ n \in 0 .. n + 1 /\ n # n + 1
        BY <3>1
      <4> QED BY <3>1, <4>1
    <3>2. CASE t # n + 1
      <4>1. t \in 0 .. n /\ g[t] = f[t]
        BY <3>2
      <4>2. f[t] = IF t = 0 THEN Cleared ELSE MapTerminalVidmem(f[t - 1], t - 1)
        BY <2>1, <4>1
      <4>3. t # 0 => t - 1 \in 0 .. n + 1 /\ t - 1 # n + 1
        BY <4>1
      <4> QED BY <4>1, <4>2, <4>3
    <3> QED BY <3>1, <3>2
  <2>3. IsMap(g, n + 1)
    BY <2>2
  <2> HIDE DEF g
  <2> QED BY <2>3
<1> HIDE DEF S
<1>3. \A n \in Nat : n \in S
  BY <1>1, <1>2, Induction
<1>4. \E f : IsMap(f, NumTerminals)
  BY <1>3, Constants DEF S
<1>5. MapAll = CHOOSE f : IsMap(f, NumTerminals)
  BY DEF MapAll
<1>6. IsMap(MapAll, NumTerminals)
  BY <1>4, <1>5
<1>7. 0 \in 0 .. NumTerminals /\ \A n \in Terminals : /\ n + 1 \in 0 .. NumTerminals
                                                      /\ n + 1 # 0 /\ (n + 1) - 1 = n
  BY Constants DEF Terminals
<1> HIDE DEF IsMap
<1>8. \A t \in 0 .. NumTerminals :
        MapAll[t] = IF t = 0 THEN Cleared ELSE MapTerminalVidmem(MapAll[t - 1], t - 1)
  BY <1>6 DEF IsMap
<1> QED BY <1>7, <1>8

(* init_paging leaves a table in order.                                    *)
LEMMA InitPagingOK == TableOK(InitPaging)
<1> DEFINE S == {n \in Nat : n <= NumTerminals => Mapped(MapAll[n], n)}
<1>1. 0 \in S
  BY MapAllSteps, MappedStart
<1>2. ASSUME NEW n \in Nat, n \in S PROVE n + 1 \in S
  <2>1. CASE n + 1 <= NumTerminals
    <3>1. n \in Terminals /\ n <= NumTerminals
      BY <2>1, Constants DEF Terminals
    <3> QED BY <1>2, <3>1, MapAllSteps, MappedNext
  <2>2. CASE ~(n + 1 <= NumTerminals)
    BY <2>2
  <2> QED BY <2>1, <2>2
<1> HIDE DEF S
<1>3. \A n \in Nat : n \in S
  BY <1>1, <1>2, Induction
<1>4. Mapped(InitPaging, NumTerminals)
  BY <1>3, Constants DEF S, InitPaging
<1>5. \A m \in Memories : m = VIDEO \/ (m \in Terminals /\ m < NumTerminals)
  BY Constants DEF Memories, VIDEO, Terminals
<1> QED BY <1>4, <1>5 DEF Mapped, TableOK
-----------------------------------------------------------------------------
(* Part 6.  What user programs reach.                                      *)

Switches == {NoSwitch} \cup [on : Terminals, to : Terminals]

TurnsOK ==
  /\ cur_display_terminal \in Terminals /\ cur_execute_terminal \in Terminals
  /\ switching \in Switches

(* A page that no switch or vidmap has made stale is that of the screen of *)
(* the terminal that has the turn.                                         *)
ReachInv ==
  /\ TurnsOK
  /\ TableOK(paging)
  /\ ~stale => MapsTo(paging, MemoryOf(cur_execute_terminal))

KeyPressed == CharKey \/ TabKey \/ EnterKey \/ BackspaceKey \/ ClearKey

(* The keys leave the turns, the programs and the paging alone.            *)
LEMMA KeysIrq == KeyPressed => KeyboardIrq
BY DEF KeyPressed, CharKey, TabKey, EnterKey, BackspaceKey, ClearKey

(* Turns and switches stay typed.                                          *)
LEMMA TurnsStep == TurnsOK /\ [Next]_vars => TurnsOK'
<1> SUFFICES ASSUME TurnsOK, [Next]_vars PROVE TurnsOK'
  OBVIOUS
<1>1. CASE KeyPressed
  BY <1>1, KeysIrq DEF KeyboardIrq, TurnsOK, turns
<1>2. ASSUME NEW to \in Terminals, FunctionKey(to) PROVE TurnsOK'
  BY <1>2 DEF FunctionKey, TurnsOK, turns, Switches
<1>3. CASE SetDisplayTerm
  <2>1. switching # NoSwitch
    BY <1>3, Constants DEF SetDisplayTerm, NoSwitch, TurnsOK
  <2>2. switching.to \in Terminals
    BY <2>1 DEF TurnsOK, Switches
  <2> QED BY <1>3, <2>2 DEF SetDisplayTerm, TurnsOK, Switches
<1>4. CASE Tick
  <2>1. cur_execute_terminal' = (cur_execute_terminal + 1) % NumTerminals
    BY <1>4 DEF Tick
  <2>2. (cur_execute_terminal + 1) % NumTerminals \in Terminals
    BY Constants DEF TurnsOK, Terminals
  <2> QED BY <1>4, <2>1, <2>2 DEF Tick, TurnsOK
<1>5. ASSUME NEW t \in Terminals,
             WriteChar(t) \/ WriteReturns(t) \/ Vidmap(t) \/ \E text \in Outputs : Write(t, text)
      PROVE  TurnsOK'
  BY <1>5 DEF WriteChar, WriteReturns, Vidmap, Write, TurnsOK, turns
<1>6. CASE UNCHANGED vars
  BY <1>6 DEF vars, TurnsOK
<1> QED BY <1>1, <1>2, <1>3, <1>4, <1>5, <1>6 DEF Next, KeyPressed

(* Every action keeps the invariant, as long as the timer does not fire    *)
(* within a switch.                                                        *)
LEMMA ReachStep == "tick" \notin Races /\ ReachInv /\ [Next]_vars => ReachInv'
<1> SUFFICES ASSUME "tick" \notin Races, ReachInv, [Next]_vars PROVE ReachInv'
  OBVIOUS
<1>1. TurnsOK'
  BY TurnsStep DEF ReachInv
<1>2. ASSUME UNCHANGED <<paging, cur_execute_terminal>>, Shown' = Shown, stale' = stale
      PROVE  ReachInv'
  BY <1>1, <1>2 DEF ReachInv, MemoryOf
<1>3. ASSUME TableOK(paging'), stale' PROVE ReachInv'
  BY <1>1, <1>3 DEF ReachInv
<1>4. CASE KeyPressed
  <2>1. KeyboardIrq
    BY <1>4, KeysIrq
  <2> QED BY <1>2, <2>1 DEF KeyboardIrq, turns, Shown
<1>5. ASSUME NEW to \in Terminals, FunctionKey(to) PROVE ReachInv'
  BY <1>3, <1>5 DEF FunctionKey, ReachInv
<1>6. CASE SetDisplayTerm
  <2>1. switching # NoSwitch
    BY <1>6, Constants DEF SetDisplayTerm, NoSwitch, ReachInv, TurnsOK
  <2> QED BY <1>2, <1>6, <2>1 DEF SetDisplayTerm, Shown
<1>7. CASE Tick
  <2>1. PICK next : next = (cur_execute_terminal + 1) % NumTerminals
    OBVIOUS
  <2>2. /\ switching = NoSwitch /\ UNCHANGED <<cur_display_terminal, switching>>
        /\ cur_execute_terminal' = next
        /\ paging' = Map4kbPage(paging, IF cur_display_terminal = next THEN VIDEO ELSE next)
    BY <1>7, <2>1 DEF Tick
  <2>3. MemoryOf(cur_execute_terminal)' = IF cur_display_terminal = next THEN VIDEO ELSE next
    BY <2>2 DEF MemoryOf, Shown
  <2>4. TableOK(paging') /\ MapsTo(paging', MemoryOf(cur_execute_terminal)')
    BY <2>2, <2>3, MapTableOK DEF ReachInv
  <2> QED BY <1>1, <2>4 DEF ReachInv
<1>8. ASSUME NEW t \in Terminals, Vidmap(t) PROVE ReachInv'
  <2>1. TableOK(paging')
    BY <1>8, MapTableOK DEF Vidmap, ReachInv
  <2> QED BY <1>3, <1>8, <2>1 DEF Vidmap
<1>9. ASSUME NEW t \in Terminals,
             WriteChar(t) \/ WriteReturns(t) \/ \E text \in Outputs : Write(t, text)
      PROVE  ReachInv'
  BY <1>2, <1>9 DEF WriteChar, WriteReturns, Write, turns, Shown
<1>10. CASE UNCHANGED vars
  BY <1>2, <1>10 DEF vars, Shown
<1> QED BY <1>4, <1>5, <1>6, <1>7, <1>8, <1>9, <1>10 DEF Next, KeyPressed

(* At the start nothing is being switched.                                 *)
LEMMA TurnsInit == Init => TurnsOK /\ Shown = 0
BY Constants DEF Init, TurnsOK, Switches, Shown

(* The table that boot leaves behind is as it should be.                   *)
LEMMA ReachInit == Init => ReachInv
BY TurnsInit, InitPagingOK DEF Init, ReachInv

(* The screens that programs reach: from a timer tick to the next switch   *)
(* or vidmap a program reaches no video memory but its own screen; the     *)
(* table that both slots share never lets user mode reach the others, and  *)
(* the kernel always does, for any number of terminals (paging.c:94, :110, *)
(* scheduler.c:70).                                                        *)
THEOREM UserReachHolds == ASSUME "tick" \notin Races PROVE Spec => []UserReach
<1>1. ReachInv => UserReach
  <2> SUFFICES ASSUME ReachInv PROVE UserReach
    OBVIOUS
  <2>1. MemoryOf(cur_execute_terminal) \in Memories
    BY Constants DEF ReachInv, TurnsOK, MemoryOf, VIDEO, Memories
  <2> QED BY <2>1, TableReach DEF ReachInv, UserReach
<1>2. ReachInv /\ [Next]_vars => ReachInv'
  BY ReachStep
<1> QED BY <1>1, <1>2, ReachInit, PTL DEF Spec

-----------------------------------------------------------------------------
(* Part 7.  Types.                                                         *)

Data     == [x : 0 .. Cols - 1, y : 0 .. Rows - 1, save_y : 0 .. Rows - 1]
Programs == [pc : {"user", "write"}, left : Seq(Nat)]

(* TypeOK, with the types of what it leaves open.                          *)
TypeInv ==
  /\ TurnsOK
  /\ video \in [Memories -> Mem]
  /\ terminal_data \in [Terminals -> Data]
  /\ cursor \in 0 .. Size - 1
  /\ line \in [Terminals -> Seq(Keyed)]
  /\ program \in [Terminals -> Programs]

(* Colours are bytes.                                                      *)
LEMMA ColoursAre == \A t \in Terminals : colors[t] \in Nat
<1> SUFFICES ASSUME NEW t \in Terminals PROVE colors[t] \in Nat
  OBVIOUS
<1>1. PICK i \in 1 .. 3 : i = (t % 3) + 1
  BY Constants
<1>2. <<23, 78, 159>>[i] \in Nat
  OBVIOUS
<1> QED BY <1>1, <1>2 DEF colors

(* A position within the screen.                                           *)
LEMMA PositionBounds ==
  ASSUME NEW d, d.x \in 0 .. Cols - 1, d.y \in 0 .. Rows - 1
  PROVE  Position(d) \in 0 .. Size - 1
<1>1. PICK x \in 0 .. Cols - 1, y \in 0 .. Rows - 1 : x = d.x /\ y = d.y
  OBVIOUS
<1>2. Cols * y \in Nat /\ Cols * y + Cols <= Size
  BY RowBounds
<1>3. Cols * y + x \in 0 .. Size - 1
  BY <1>2, Sizes
<1> QED BY <1>1, <1>3 DEF Position

(* What a key does to the screen, and to the paper if it deletes no more   *)
(* than it may.                                                            *)
KeyEffect(s, p) ==
  /\ s \in Screens /\ SetScreen(s) /\ SetPaper(p)
  /\ LET colour == colors[cur_display_terminal]
     IN  "limit" \notin Races /\ ScreenShows(DisplayScreen, Paper, colour)
           => ScreenShows(s, p, colour)

(* The screen that the keyboard interrupt echoes on.                       *)
LEMMA DisplayIsScreen ==
  ASSUME TypeInv
  PROVE  /\ DisplayScreen \in Screens
         /\ colors[cur_display_terminal] \in Nat
         /\ Typed \in Seq(Keyed)
         /\ DisplayScreen.x = Display.x /\ DisplayScreen.y = Display.y
         /\ DisplayScreen.save_y = Display.save_y
<1>1. Display \in Data
  BY DEF TypeInv, TurnsOK, Display
<1>2. video[VIDEO] \in Mem
  BY Constants DEF TypeInv
<1>3. DisplayScreen \in Screens
  BY <1>1, <1>2 DEF DisplayScreen, Screens, Data
<1>4. cur_display_terminal \in Terminals /\ Typed \in Seq(Keyed)
  BY DEF TypeInv, TurnsOK, Typed
<1> QED BY <1>3, <1>4, ColoursAre DEF DisplayScreen

(* Characters and tabs.                                                    *)
LEMMA EchoEffect ==
  ASSUME TypeInv, NEW text \in Seq(Nat), Echo(text)
  PROVE  \E s, p : KeyEffect(s, p)
<1>1. PICK s : s = putAll(DisplayScreen, text, colors[cur_display_terminal])
  OBVIOUS
<1>2. PICK p : p = FoldLeft(Printed, Paper, text)
  OBVIOUS
<1>3. SetScreen(s) /\ SetPaper(p)
  BY <1>1, <1>2, Zenon DEF Echo
<1>4. s \in Screens
  BY <1>1, DisplayIsScreen, PutAllShows
<1>5. ScreenShows(DisplayScreen, Paper, colors[cur_display_terminal])
        => ScreenShows(s, p, colors[cur_display_terminal])
  BY <1>1, <1>2, DisplayIsScreen, PutAllShows, Zenon
<1>6. KeyEffect(s, p)
  BY <1>3, <1>4, <1>5, Zenon DEF KeyEffect
<1> QED BY <1>6

(* With another limit of deletions a screen shows the same.                *)
LEMMA SaveY ==
  ASSUME NEW s \in Screens, NEW y \in 0 .. Rows - 1
  PROVE  /\ [s EXCEPT !.save_y = y] \in Screens
         /\ \A text, colour : ScreenShows(s, text, colour)
                                => ScreenShows([s EXCEPT !.save_y = y], text, colour)
<1>1. PICK e : e = [s EXCEPT !.save_y = y]
  OBVIOUS
<1>2. e \in Screens /\ e.mem = s.mem /\ e.x = s.x /\ e.y = s.y
  BY <1>1 DEF Screens
<1> QED BY <1>1, <1>2, Zenon DEF ScreenShows

(* The newline.                                                            *)
LEMMA EnterEffect ==
  ASSUME TypeInv, EnterKey
  PROVE  \E s, p : KeyEffect(s, p)
<1>1. PICK colour \in Nat : colour = colors[cur_display_terminal]
  BY DisplayIsScreen
<1>2. PICK s : s = putc(DisplayScreen, NEWLINE, colour)
  OBVIOUS
<1>3. PICK e : e = [s EXCEPT !.save_y = s.y]
  OBVIOUS
<1>4. PICK p : p = Printed(Paper, NEWLINE)
  OBVIOUS
<1>5. SetScreen(e) /\ SetPaper(p)
  BY <1>1, <1>2, <1>3, <1>4, Zenon DEF EnterKey
<1>6. NEWLINE \in Nat
  BY DEF NEWLINE
<1>7. s \in Screens /\ PrintsOn(s.mem, s.x, s.y, DisplayScreen, NEWLINE, colour)
  BY <1>2, <1>6, DisplayIsScreen, PutcScreen
<1>8. ScreenShows(DisplayScreen, Paper, colour) => ScreenShows(s, p, colour)
  BY <1>4, <1>7 DEF PrintsOn, ScreenShows
<1>9. e \in Screens /\ (ScreenShows(s, p, colour) => ScreenShows(e, p, colour))
  <2>1. s.y \in 0 .. Rows - 1
    BY <1>7 DEF Screens
  <2> QED BY <1>3, <1>7, <2>1, SaveY
<1>10. KeyEffect(e, p)
  BY <1>1, <1>5, <1>8, <1>9, Zenon DEF KeyEffect
<1> QED BY <1>10

(* A deletion that is not stuck deletes what the paper loses.              *)
LEMMA BackspaceEffect ==
  ASSUME TypeInv, BackspaceKey
  PROVE  \E s, p : KeyEffect(s, p)
<1>1. PICK n : n = IF Last(Typed) = TAB THEN 4 ELSE 1
  OBVIOUS
<1>2. n \in Nat
  BY <1>1
<1>3. PICK s : s = deleteAll(DisplayScreen, n)
  OBVIOUS
<1>4. PICK p : p = SubSeq(Paper, 1, Len(Paper) - n)
  OBVIOUS
<1>5. ("limit" \in Races \/ ~Stuck(Display, n)) /\ SetScreen(s) /\ SetPaper(p)
  BY <1>1, <1>3, <1>4, Zenon DEF BackspaceKey
<1>6. s \in Screens
  BY <1>2, <1>3, DisplayIsScreen, DeleteAllShows
<1>7. ASSUME "limit" \notin Races, ScreenShows(DisplayScreen, Paper, colors[cur_display_terminal])
      PROVE  ScreenShows(s, p, colors[cur_display_terminal])
  <2>1. PICK room \in Int : room = Room(DisplayScreen) /\ (Stuck(Display, n) <=> n > room)
    <3>1. Stuck(Display, n) <=> n > Room(DisplayScreen)
      BY DisplayIsScreen, Zenon DEF Stuck, Room
    <3>2. Room(DisplayScreen) \in Int
      <4>1. PICK x \in Int, y \in Int, z \in Int :
              x = DisplayScreen.x /\ y = DisplayScreen.y /\ z = DisplayScreen.save_y
        BY DisplayIsScreen DEF Screens
      <4> QED BY <4>1, Sizes DEF Room
    <3> QED BY <3>1, <3>2, Zenon
  <2>2. n <= Room(DisplayScreen)
    BY <1>2, <1>5, <1>7, <2>1
  <2> QED BY <1>2, <1>3, <1>4, <1>7, <2>2, DisplayIsScreen, DeleteAllShows
<1>8. KeyEffect(s, p)
  BY <1>5, <1>6, <1>7, Zenon DEF KeyEffect
<1> QED BY <1>8

(* Ctrl-L.                                                                 *)
LEMMA ClearEffect ==
  ASSUME TypeInv, ClearKey
  PROVE  \E s, p : KeyEffect(s, p)
<1>1. PICK colour \in Nat : colour = colors[cur_display_terminal]
  BY DisplayIsScreen
<1>2. PICK b : b = [mem |-> Wiped(colour), x |-> 0, y |-> 0, save_y |-> 0]
  OBVIOUS
<1>3. PICK s : s = putAll(b, Prompt, colour)
  OBVIOUS
<1>4. PICK e : e = [s EXCEPT !.save_y = 0]
  OBVIOUS
<1>5. PICK p : p = FoldLeft(Printed, <<>>, Prompt)
  OBVIOUS
<1>6. Prompt \in Seq(Nat) /\ Prompt \o keyboard_puts(Typed) = Prompt
  BY DisplayIsScreen, NothingPut, TextsAssumption, ConcatEmptySeq
<1>7. SetScreen(e) /\ SetPaper(p)
  BY <1>1, <1>2, <1>3, <1>4, <1>5, <1>6, Zenon DEF ClearKey
<1>8. ScreenShows(b, <<>>, colour) /\ b \in Screens
  <2>1. ShowsAt(Wiped(colour), 0, <<>>, colour)
    BY WipedShows
  <2>2. b.mem = Wiped(colour) /\ Cols * b.y + b.x = 0
    BY <1>2, Sizes
  <2>3. Wiped(colour) \in Mem /\ 0 \in 0 .. Cols - 1 /\ 0 \in 0 .. Rows - 1
    BY <2>1, Sizes DEF ShowsAt
  <2> QED BY <1>2, <2>1, <2>2, <2>3 DEF ScreenShows, Screens
<1>9. s \in Screens /\ ScreenShows(s, p, colour)
  BY <1>3, <1>5, <1>6, <1>8, PutAllShows
<1>10. e \in Screens /\ ScreenShows(e, p, colour)
  <2>1. 0 \in 0 .. Rows - 1
    BY Sizes
  <2> QED BY <1>4, <1>9, <2>1, SaveY
<1>11. KeyEffect(e, p)
  BY <1>1, <1>7, <1>10, Zenon DEF KeyEffect
<1> QED BY <1>11

(* Every key has such an effect, and its line is typed.                    *)
LEMMA KeysEffect ==
  ASSUME TypeInv, KeyPressed
  PROVE  /\ \E s, p : KeyEffect(s, p)
         /\ line' \in [Terminals -> Seq(Keyed)]
<1>1. ASSUME NEW l \in Seq(Keyed), SetLine(l) PROVE line' \in [Terminals -> Seq(Keyed)]
  BY <1>1 DEF SetLine, TypeInv
<1>2. CASE CharKey
  <2>1. <<SPACE + 1>> \in Seq(Nat) /\ SPACE + 1 \in Keyed
    BY DEF SPACE, Keyed
  <2>2. Append(Typed, SPACE + 1) \in Seq(Keyed)
    BY <2>1, DisplayIsScreen, AppendProperties
  <2> QED BY <1>1, <1>2, <2>1, <2>2, EchoEffect DEF CharKey
<1>3. CASE TabKey
  <2>1. <<SPACE, SPACE, SPACE, SPACE>> \in Seq(Nat) /\ TAB \in Keyed
    BY DEF SPACE, Keyed
  <2>2. Append(Typed, TAB) \in Seq(Keyed)
    BY <2>1, DisplayIsScreen, AppendProperties
  <2> QED BY <1>1, <1>3, <2>1, <2>2, EchoEffect DEF TabKey
<1>4. <<>> \in Seq(Keyed)
  BY EmptySeq
<1>5. CASE EnterKey
  BY <1>1, <1>4, <1>5, EnterEffect DEF EnterKey
<1>6. CASE BackspaceKey
  <2>1. Front(Typed) \in Seq(Keyed)
    <3>1. PICK s \in Seq(Keyed) : s = Typed
      BY DisplayIsScreen
    <3>2. PICK u \in Int, v \in Int : u = 1 /\ v = Len(s) - 1
      BY LenProperties
    <3>3. \A i \in u .. v : s[i] \in Keyed
      <4>1. \A i \in u .. v : i \in 1 .. Len(s)
        BY <3>2, LenProperties
      <4> QED BY <4>1, ElementOfSeq
    <3>4. SubSeq(s, u, v) \in Seq(Keyed)
      BY <3>3, SubSeqProperties
    <3> QED BY <3>1, <3>2, <3>4 DEF Front
  <2> QED BY <1>1, <1>6, <2>1, BackspaceEffect DEF BackspaceKey
<1>7. CASE ClearKey
  BY <1>1, <1>4, <1>7, ClearEffect DEF ClearKey
<1> QED BY <1>2, <1>3, <1>5, <1>6, <1>7 DEF KeyPressed

-----------------------------------------------------------------------------
(* Part 8.  What a program writes.                                         *)

(* Two fields of a terminal's data set one after the other.                *)
Row(x, y, s) == [x |-> x, y |-> y, save_y |-> s]

HasRow(f, t, a, b, s)    == DOMAIN f = Terminals /\ f[t] = Row(a, b, s)
MovedTo(g, f, t, v, w)   == g = [f EXCEPT ![t].x = v, ![t].y = w]
Placed(g, f, t, v, w, s) == g = [f EXCEPT ![t] = Row(v, w, s)]

LEMMA SetPosition ==
  ASSUME NEW f, NEW t \in Terminals, NEW a, NEW b, NEW s, NEW v, NEW w, NEW h,
         HasRow(f, t, a, b, s), MovedTo(h, f, t, v, w)
  PROVE  Placed(h, f, t, v, w, s)
<1>1. PICK g : g = [f EXCEPT ![t].x = v]
  OBVIOUS
<1>2. [f[t] EXCEPT !.x = v] = Row(v, b, s)
  BY DEF Row, HasRow
<1>3. g = [f EXCEPT ![t] = Row(v, b, s)]
  BY <1>1, <1>2, Zenon
<1>4. g[t] = Row(v, b, s) /\ DOMAIN g = Terminals
  BY <1>3 DEF HasRow
<1>5. [g[t] EXCEPT !.y = w] = Row(v, w, s)
  BY <1>4 DEF Row
<1>6. [g EXCEPT ![t].y = w] = [g EXCEPT ![t] = Row(v, w, s)]
  BY <1>5, Zenon
<1>7. [g EXCEPT ![t] = Row(v, w, s)] = [f EXCEPT ![t] = Row(v, w, s)]
  <2>1. PICK r, q : r = Row(v, w, s) /\ q = Row(v, b, s)
    OBVIOUS
  <2>2. [g EXCEPT ![t] = r] = [f EXCEPT ![t] = r]
    BY <1>3, <2>1 DEF HasRow
  <2> QED BY <2>1, <2>2
<1> QED BY <1>1, <1>6, <1>7, Zenon DEF MovedTo, Placed

(* A character that a program writes.                                      *)
Writes(t, m, c, mem, x, y) ==
  /\ m = IF t = cur_display_terminal THEN VIDEO ELSE t
  /\ c \in Nat /\ program[t].left # <<>> /\ c = Head(program[t].left)
  /\ PrintsOn(mem, x, y, [mem |-> video[m], x |-> terminal_data[t].x, y |-> terminal_data[t].y],
              c, colors[t])
  /\ video' = [video EXCEPT ![m] = mem]
  /\ terminal_data' =
       [terminal_data EXCEPT ![t] = [x |-> x, y |-> y, save_y |-> terminal_data[t].save_y]]
  /\ paper' = [paper EXCEPT ![t] = Printed(@, c)]

(* terminal_putc, with the scrolling at the end of the screen.             *)
LEMMA WriteEffect ==
  ASSUME "putc" \notin Races, TypeInv, NEW t \in Terminals, WriteChar(t)
  PROVE  \E m, c, mem, x, y : Writes(t, m, c, mem, x, y)
<1>1. PICK m : /\ m = IF t = cur_display_terminal THEN VIDEO ELSE t
               /\ m \in Chosen(t)
               /\ LET c == Head(program[t].left)
                      d == terminal_data[t]
                      a == Advanced([mem |-> video[m], x |-> d.x, y |-> d.y], c, colors[t])
                      moved == [terminal_data EXCEPT ![t].x = a.x, ![t].y = a.y]
                      owner == IF m = VIDEO THEN cur_display_terminal ELSE t
                  IN  /\ IF a.y = Rows
                           THEN /\ video' = [video EXCEPT ![m] = ScrollDown(a.mem)]
                                /\ terminal_data' = [moved EXCEPT ![owner].x = 0, ![owner].y = Rows - 1]
                           ELSE /\ video' = [video EXCEPT ![m] = a.mem]
                                /\ terminal_data' = moved
                      /\ paper' = [paper EXCEPT ![t] = Printed(@, c)]
  <2>1. Chosen(t) = {IF t = cur_display_terminal THEN VIDEO ELSE t}
    BY DEF Chosen
  <2> QED BY <2>1, Zenon DEF WriteChar
<1>2. PICK c : c = Head(program[t].left)
  OBVIOUS
<1>3. PICK d : d = terminal_data[t]
  OBVIOUS
<1>4. PICK s : s = [mem |-> video[m], x |-> d.x, y |-> d.y]
  OBVIOUS
<1>5. PICK a : a = Advanced(s, c, colors[t])
  OBVIOUS
<1>6. PICK moved : moved = [terminal_data EXCEPT ![t].x = a.x, ![t].y = a.y]
  OBVIOUS
<1>7. (IF m = VIDEO THEN cur_display_terminal ELSE t) = t
  BY <1>1, Constants
<1>8. /\ a.y = Rows => /\ video' = [video EXCEPT ![m] = ScrollDown(a.mem)]
                       /\ terminal_data' = [moved EXCEPT ![t].x = 0, ![t].y = Rows - 1]
      /\ a.y # Rows => video' = [video EXCEPT ![m] = a.mem] /\ terminal_data' = moved
      /\ paper' = [paper EXCEPT ![t] = Printed(@, c)]
  BY <1>1, <1>2, <1>3, <1>4, <1>5, <1>6, <1>7, Zenon
<1>9. program[t].left # <<>> /\ program[t].left \in Seq(Nat) /\ c \in Nat
  <2>1. program[t].left # <<>>
    BY DEF WriteChar
  <2>2. program[t].left \in Seq(Nat)
    BY DEF TypeInv, Programs
  <2> QED BY <1>2, <2>1, <2>2, HeadTailProperties
<1>10. IsScreen(s) /\ s.mem = video[m] /\ s.x = d.x /\ s.y = d.y /\ d \in Data
  <2>1. m \in Memories
    BY <1>1, Constants
  <2>2. video[m] \in Mem /\ d \in Data
    BY <1>3, <2>1 DEF TypeInv
  <2>3. d.x \in 0 .. Cols - 1 /\ d.y \in 0 .. Rows - 1
    BY <2>2 DEF Data
  <2> QED BY <1>4, <2>2, <2>3 DEF IsScreen
<1>11. IsAdvance(a, s, c, colors[t])
  BY <1>5, <1>9, <1>10, ColoursAre, AdvancedParts
<1>12. /\ a.y = Rows => PrintsOn(ScrollDown(a.mem), 0, Rows - 1, s, c, colors[t])
       /\ a.y # Rows => PrintsOn(a.mem, a.x, a.y, s, c, colors[t])
  BY <1>9, <1>10, <1>11, ColoursAre, PutPrints
<1>13. terminal_data \in [Terminals -> Data]
  BY DEF TypeInv
<1>14. DOMAIN terminal_data = Terminals /\ terminal_data[t] = Row(d.x, d.y, d.save_y)
  BY <1>3, <1>10, <1>13 DEF Data, Row
<1>15. moved = [terminal_data EXCEPT ![t] = Row(a.x, a.y, d.save_y)]
  <2>1. PICK x, y, dx, dy, sy : x = a.x /\ y = a.y /\ dx = d.x /\ dy = d.y /\ sy = d.save_y
    OBVIOUS
  <2>2. HasRow(terminal_data, t, dx, dy, sy)
    BY <1>14, <2>1, Zenon DEF HasRow
  <2>3. MovedTo(moved, terminal_data, t, x, y)
    BY <1>6, <2>1, Zenon DEF MovedTo
  <2>4. Placed(moved, terminal_data, t, x, y, sy)
    BY <2>2, <2>3, SetPosition, Zenon
  <2> QED BY <2>1, <2>4, Zenon DEF Placed
<1>16. CASE a.y = Rows
  <2>1. PICK mem : mem = ScrollDown(a.mem)
    OBVIOUS
  <2>2. terminal_data' = [moved EXCEPT ![t].x = 0, ![t].y = Rows - 1]
    BY <1>8, <1>16
  <2>3. PICK x, y, sy, last : x = a.x /\ y = a.y /\ sy = d.save_y /\ last = Rows - 1
    OBVIOUS
  <2>4. DOMAIN moved = Terminals /\ moved[t] = Row(x, y, sy)
    BY <1>14, <1>15, <2>3
  <2>5. HasRow(moved, t, x, y, sy) /\ MovedTo(terminal_data', moved, t, 0, last)
    BY <2>2, <2>3, <2>4, Zenon DEF HasRow, MovedTo
  <2>6. Placed(terminal_data', moved, t, 0, last, sy)
    BY <2>5, SetPosition, Zenon
  <2>7. PICK p, q : p = Row(0, Rows - 1, d.save_y) /\ q = Row(a.x, a.y, d.save_y)
    OBVIOUS
  <2>8. terminal_data' = [moved EXCEPT ![t] = p] /\ moved = [terminal_data EXCEPT ![t] = q]
    BY <1>15, <2>3, <2>7, <2>6, Zenon DEF Placed
  <2>9. terminal_data' = [terminal_data EXCEPT ![t] = p]
    BY <1>13, <2>8
  <2>10. Writes(t, m, c, mem, 0, Rows - 1)
    BY <1>1, <1>2, <1>3, <1>4, <1>8, <1>9, <1>12, <1>16, <2>1, <2>7, <2>9, Zenon DEF Writes, Row
  <2> QED BY <2>10
<1>17. CASE a.y # Rows
  <2>1. Writes(t, m, c, a.mem, a.x, a.y)
    BY <1>1, <1>2, <1>3, <1>4, <1>8, <1>9, <1>12, <1>17, <1>15, Zenon DEF Writes, Row
  <2> QED BY <2>1
<1> QED BY <1>16, <1>17

(* The types hold at boot.                                                 *)
LEMMA TypeInit == Init => TypeInv
<1> SUFFICES ASSUME Init PROVE TypeInv
  OBVIOUS
<1>1. TurnsOK
  BY TurnsInit
<1>2. video \in [Memories -> Mem]
  <2>1. ASSUME NEW m \in Memories PROVE Wiped(colors[IF m = VIDEO THEN 0 ELSE m]) \in Mem
    <3>1. (IF m = VIDEO THEN 0 ELSE m) \in Terminals
      BY Constants DEF Memories, VIDEO, Terminals
    <3> QED BY <3>1, ColoursAre, WipedShows DEF ShowsAt
  <2> QED BY <2>1 DEF Init
<1>3. terminal_data \in [Terminals -> Data]
  <2>1. 0 \in 0 .. Cols - 1 /\ 0 \in 0 .. Rows - 1
    BY Sizes
  <2> QED BY <2>1 DEF Init, Data
<1>4. cursor \in 0 .. Size - 1
  BY Sizes DEF Init
<1>5. line \in [Terminals -> Seq(Keyed)]
  BY EmptySeq DEF Init
<1>6. program \in [Terminals -> Programs]
  <2>1. User \in Programs
    BY EmptySeq DEF User, Programs
  <2> QED BY <2>1 DEF Init
<1> QED BY <1>1, <1>2, <1>3, <1>4, <1>5, <1>6 DEF TypeInv

(* Every step keeps them.                                                  *)
LEMMA TypeStep == "putc" \notin Races /\ TypeInv /\ [Next]_vars => TypeInv'
<1> SUFFICES ASSUME "putc" \notin Races, TypeInv, [Next]_vars PROVE TypeInv'
  OBVIOUS
<1>1. TurnsOK'
  BY TurnsStep DEF TypeInv
<1>2. CASE KeyPressed
  <2>1. PICK s, p : KeyEffect(s, p)
    BY <1>2, KeysEffect
  <2>2. s \in Screens /\ SetScreen(s)
    BY <2>1 DEF KeyEffect
  <2>3. /\ s.mem \in Mem /\ s.x \in 0 .. Cols - 1 /\ s.y \in 0 .. Rows - 1
        /\ [x |-> s.x, y |-> s.y, save_y |-> s.save_y] \in Data
    BY <2>2 DEF Screens, Data
  <2>4. video' \in [Memories -> Mem]
    BY <2>2, <2>3 DEF SetScreen, TypeInv
  <2>5. terminal_data' \in [Terminals -> Data]
    BY <2>2, <2>3 DEF SetScreen, TypeInv
  <2>6. cursor' \in 0 .. Size - 1
    BY <2>2, <2>3, PositionBounds DEF SetScreen
  <2>7. line' \in [Terminals -> Seq(Keyed)] /\ UNCHANGED program
    BY <1>2, KeysEffect, KeysIrq DEF KeyboardIrq
  <2> QED BY <1>1, <2>4, <2>5, <2>6, <2>7 DEF TypeInv
<1>3. ASSUME NEW to \in Terminals, FunctionKey(to) PROVE TypeInv'
  <2>1. video' = [video EXCEPT ![cur_display_terminal] = video[VIDEO], ![VIDEO] = video[to]]
    BY <1>3 DEF FunctionKey, ExchangeMemories
  <2>2. video[VIDEO] \in Mem /\ video[to] \in Mem
    BY Constants DEF TypeInv
  <2>3. video' \in [Memories -> Mem]
    BY <2>1, <2>2 DEF TypeInv
  <2> QED BY <1>1, <1>3, <2>3 DEF FunctionKey, TypeInv, turns
<1>4. CASE SetDisplayTerm
  <2>1. switching.to \in Terminals
    BY <1>4, Constants DEF SetDisplayTerm, TypeInv, TurnsOK, Switches, NoSwitch
  <2>2. terminal_data[switching.to] \in Data
    BY <2>1 DEF TypeInv
  <2>3. cursor' \in 0 .. Size - 1
    BY <1>4, <2>2, PositionBounds DEF SetDisplayTerm, Data
  <2> QED BY <1>1, <1>4, <2>3 DEF SetDisplayTerm, TypeInv
<1>5. CASE Tick
  BY <1>1, <1>5 DEF Tick, TypeInv
<1>6. ASSUME NEW t \in Terminals, NEW text \in Outputs, Write(t, text) PROVE TypeInv'
  <2>1. [pc |-> "write", left |-> Expanded(text)] \in Programs
    BY TextsAssumption, ExpandedText DEF Programs
  <2>2. program' \in [Terminals -> Programs]
    BY <1>6, <2>1 DEF Write, TypeInv
  <2> QED BY <1>1, <1>6, <2>2 DEF Write, TypeInv
<1>7. ASSUME NEW t \in Terminals, WriteChar(t) PROVE TypeInv'
  <2>1. PICK m, c, mem, x, y : Writes(t, m, c, mem, x, y)
    BY <1>7, WriteEffect
  <2>2. mem \in Mem /\ x \in 0 .. Cols - 1 /\ y \in 0 .. Rows - 1
    BY <2>1 DEF Writes, PrintsOn
  <2>3. video' \in [Memories -> Mem]
    BY <2>1, <2>2 DEF Writes, TypeInv
  <2>4. terminal_data' \in [Terminals -> Data]
    <3>1. [x |-> x, y |-> y, save_y |-> terminal_data[t].save_y] \in Data
      BY <2>2 DEF TypeInv, Data
    <3> QED BY <2>1, <3>1 DEF Writes, TypeInv
  <2>5. program' \in [Terminals -> Programs]
    <3>1. program[t].left # <<>> /\ program[t].left \in Seq(Nat) /\ program[t] \in Programs
      BY <2>1 DEF Writes, TypeInv, Programs
    <3>2. Tail(program[t].left) \in Seq(Nat)
      BY <3>1, HeadTailProperties
    <3>3. program' = [program EXCEPT ![t].left = Tail(@)]
      BY <1>7 DEF WriteChar
    <3> QED BY <3>1, <3>2, <3>3 DEF TypeInv, Programs
  <2> QED BY <1>1, <1>7, <2>3, <2>4, <2>5 DEF WriteChar, TypeInv
<1>8. ASSUME NEW t \in Terminals, WriteReturns(t) PROVE TypeInv'
  <2>1. Display \in Data /\ cur_display_terminal \in Terminals
    BY DEF TypeInv, TurnsOK, Display
  <2>2. Display.x \in 0 .. Cols - 1 /\ Display.y \in 0 .. Rows - 1
    BY <2>1 DEF Data
  <2>3. terminal_data' \in [Terminals -> Data]
    BY <1>8, <2>1, <2>2 DEF WriteReturns, TypeInv, Data
  <2>4. cursor' \in 0 .. Size - 1
    BY <1>8, <2>2, PositionBounds DEF WriteReturns
  <2>5. program' \in [Terminals -> Programs]
    <3>1. User \in Programs
      BY EmptySeq DEF User, Programs
    <3> QED BY <1>8, <3>1 DEF WriteReturns, TypeInv
  <2> QED BY <1>1, <1>8, <2>3, <2>4, <2>5 DEF WriteReturns, TypeInv
<1>9. ASSUME NEW t \in Terminals, Vidmap(t) PROVE TypeInv'
  BY <1>1, <1>9 DEF Vidmap, TypeInv
<1>10. CASE UNCHANGED vars
  BY <1>1, <1>10 DEF vars, TypeInv
<1> QED BY <1>2, <1>3, <1>4, <1>5, <1>6, <1>7, <1>8, <1>9, <1>10 DEF Next, KeyPressed

(* The screen's type invariant, for screens of any size and any number of  *)
(* terminals: as long as no switch comes between terminal_putc's choice of *)
(* a memory and its last write, no position leaves its screen, so that     *)
(* neither echo nor output, scrolling or deletion writes behind a memory   *)
(* (lib.c:182, :218, :274).                                                *)
THEOREM TypeOKHolds == ASSUME "putc" \notin Races PROVE Spec => []TypeOK
<1>1. TypeInv => TypeOK
  <2> SUFFICES ASSUME TypeInv PROVE TypeOK
    OBVIOUS
  <2>1. {cur_display_terminal, cur_execute_terminal} \subseteq Terminals
    BY DEF TypeInv, TurnsOK
  <2>2. DOMAIN video = Memories /\ \A m \in Memories : video[m] \in [0 .. 2 * Size - 1 -> Nat]
    BY DEF TypeInv, Mem
  <2>3. cursor \in 0 .. Size - 1 /\ \A t \in Terminals : program[t].pc \in {"user", "write"}
    BY DEF TypeInv, Programs
  <2>4. terminal_data \in [Terminals -> Data]
    BY DEF TypeInv
  <2>5. 2 * Rows * Cols = 2 * Size /\ Rows * Cols = Size
    BY Sizes DEF Size
  <2> QED BY <2>1, <2>2, <2>3, <2>4, <2>5, Zenon DEF TypeOK, Data
<1>2. TypeInv /\ [Next]_vars => TypeInv'
  BY TypeStep
<1> QED BY <1>1, <1>2, TypeInit, PTL DEF Spec

-----------------------------------------------------------------------------
(* Part 9.  The cursor.                                                    *)

(* No step leaves the cursor behind.                                       *)
LEMMA CursorStep ==
  "putc" \notin Races /\ TypeInv /\ CursorShown /\ [Next]_vars => CursorShown'
<1> SUFFICES ASSUME "putc" \notin Races, TypeInv, CursorShown, [Next]_vars,
                    switching' = NoSwitch, program'[cur_display_terminal'].pc = "user"
             PROVE  cursor' = Position(Display')
  BY DEF CursorShown, NoSwitch, Position, Display
<1>1. cur_display_terminal \in Terminals /\ cur_execute_terminal \in Terminals
      /\ DOMAIN terminal_data = Terminals /\ DOMAIN program = Terminals
  BY DEF TypeInv, TurnsOK
<1>2. CASE KeyPressed
  <2>1. PICK s, p : KeyEffect(s, p)
    BY <1>2, KeysEffect
  <2>2. cur_display_terminal' = cur_display_terminal
    BY <1>2, KeysIrq DEF KeyboardIrq, turns
  <2>3. Display' = [x |-> s.x, y |-> s.y, save_y |-> s.save_y] /\ cursor' = Position(s)
    BY <1>1, <2>1, <2>2 DEF KeyEffect, SetScreen, Display
  <2> QED BY <2>3 DEF Position
<1>3. ASSUME NEW to \in Terminals, FunctionKey(to) PROVE FALSE
  <2>1. switching'.on = cur_execute_terminal /\ switching'.on = -1
    BY <1>3 DEF FunctionKey, NoSwitch
  <2> QED BY <1>1, <2>1 DEF Terminals
<1>4. CASE SetDisplayTerm
  BY <1>4 DEF SetDisplayTerm, Display
<1>5. CASE UNCHANGED <<cur_display_terminal, cursor, terminal_data, switching, program>>
  BY <1>5 DEF CursorShown, Display
<1>6. CASE Tick
  BY <1>5, <1>6 DEF Tick
<1>7. ASSUME NEW t \in Terminals, NEW text \in Outputs, Write(t, text)
      PROVE  cursor' = Position(Display')
  <2>1. /\ UNCHANGED <<cur_display_terminal, cursor, terminal_data, switching>>
        /\ program' = [program EXCEPT ![t] = [pc |-> "write", left |-> Expanded(text)]]
    BY <1>7 DEF Write, turns
  <2>2. cur_display_terminal # t
    BY <1>1, <2>1
  <2>3. program'[cur_display_terminal] = program[cur_display_terminal]
    BY <1>1, <2>1, <2>2
  <2> QED BY <2>1, <2>3 DEF CursorShown, Display
<1>8. ASSUME NEW t \in Terminals, WriteChar(t) PROVE cursor' = Position(Display')
  <2>1. PICK m, c, mem, x, y : Writes(t, m, c, mem, x, y)
    BY <1>8, WriteEffect
  <2>2. /\ UNCHANGED <<cur_display_terminal, cursor, switching>>
        /\ program[t].pc = "write" /\ program' = [program EXCEPT ![t].left = Tail(@)]
    BY <1>8 DEF WriteChar, Runs, turns
  <2>3. program \in [Terminals -> Programs]
    BY DEF TypeInv
  <2>4. cur_display_terminal # t
    BY <1>1, <2>2, <2>3 DEF Programs
  <2>5. /\ program'[cur_display_terminal] = program[cur_display_terminal]
        /\ terminal_data'[cur_display_terminal] = terminal_data[cur_display_terminal]
    BY <1>1, <2>1, <2>2, <2>4 DEF Writes
  <2> QED BY <2>2, <2>5 DEF CursorShown, Display
<1>9. ASSUME NEW t \in Terminals, WriteReturns(t) PROVE cursor' = Position(Display')
  <2>1. /\ cur_display_terminal' = cur_display_terminal
        /\ terminal_data' = [terminal_data EXCEPT ![cur_display_terminal].save_y = Display.y]
        /\ cursor' = Position(Display)
    BY <1>9 DEF WriteReturns, turns
  <2>2. Display \in Data
    BY <1>1 DEF TypeInv, Display
  <2>3. Display'.x = Display.x /\ Display'.y = Display.y
    BY <1>1, <2>1, <2>2 DEF Display, Data
  <2> QED BY <2>1, <2>3 DEF Position
<1>10. ASSUME NEW t \in Terminals, Vidmap(t) PROVE cursor' = Position(Display')
  BY <1>5, <1>10 DEF Vidmap, turns
<1>11. CASE UNCHANGED vars
  BY <1>5, <1>11 DEF vars
<1> QED BY <1>2, <1>3, <1>4, <1>6, <1>7, <1>8, <1>9, <1>10, <1>11 DEF Next, KeyPressed

(* The hardware cursor shows the position of the terminal on the screen,   *)
(* whatever the terminals in the background write, except while its        *)
(* program writes or the screen is being switched (lib.c:307,              *)
(* Terminal.c:89).                                                         *)
THEOREM CursorShownHolds == ASSUME "putc" \notin Races PROVE Spec => []CursorShown
<1>1. Init => CursorShown
  <2> SUFFICES ASSUME Init PROVE CursorShown
    OBVIOUS
  <2>1. 0 \in Terminals
    BY Constants
  <2>2. Display.x = 0 /\ Display.y = 0 /\ cursor = 0
    BY <2>1 DEF Init, Display
  <2>3. Position(Display) = 0
    BY <2>2, ScreenAssumption DEF Position
  <2> QED BY <2>2, <2>3 DEF CursorShown
<1>2. TypeInv /\ [Next]_vars => TypeInv'
  BY TypeStep
<1>3. TypeInv /\ CursorShown /\ [Next]_vars => CursorShown'
  BY CursorStep
<1> QED BY <1>1, <1>2, <1>3, TypeInit, PTL DEF Spec

-----------------------------------------------------------------------------
(* Part 10.  The text on the screens.                                      *)

Sees(t) == ShowsAt(video[MemoryOf(t)], Position(terminal_data[t]), paper[t], colors[t])

(* The terminal that a switch interrupted keeps the turn.                  *)
TextInv ==
  /\ switching # NoSwitch => switching.on = cur_execute_terminal
  /\ DOMAIN paper = Terminals
  /\ \A t \in Terminals : Sees(t)

(* A program runs only outside switches.                                   *)
LEMMA RunsAlone ==
  ASSUME TextInv, NEW t, NEW pc, Runs(t, pc)
  PROVE  switching = NoSwitch /\ Shown = cur_display_terminal
BY DEF TextInv, Runs, Shown

(* Keys change the screen that is displayed and its paper alone.           *)
LEMMA TextKeys ==
  ASSUME "limit" \notin Races, TypeInv, TextInv, KeyPressed
  PROVE  TextInv'
<1>1. PICK s, p : KeyEffect(s, p)
  BY KeysEffect
<1>2. switching = NoSwitch /\ UNCHANGED <<cur_display_terminal, cur_execute_terminal, switching>>
  BY KeysIrq DEF KeyboardIrq, turns
<1>3. Shown = cur_display_terminal /\ Shown' = cur_display_terminal
  BY <1>2 DEF Shown
<1>4. /\ cur_display_terminal \in Terminals
      /\ DOMAIN video = Memories /\ DOMAIN terminal_data = Terminals
  BY DEF TypeInv, TurnsOK
<1>5. /\ video' = [video EXCEPT ![VIDEO] = s.mem]
      /\ terminal_data' = [terminal_data EXCEPT ![cur_display_terminal] =
                             [x |-> s.x, y |-> s.y, save_y |-> s.save_y]]
      /\ paper' = [paper EXCEPT ![cur_display_terminal] = p]
  BY <1>1 DEF KeyEffect, SetScreen, SetPaper
<1>6. ASSUME NEW t \in Terminals, t # cur_display_terminal PROVE Sees(t)'
  <2>1. MemoryOf(t) = t /\ MemoryOf(t)' = t /\ t # VIDEO
    BY <1>3, <1>6, Constants DEF MemoryOf
  <2>2. video'[t] = video[t] /\ terminal_data'[t] = terminal_data[t] /\ paper'[t] = paper[t]
    BY <1>4, <1>5, <1>6, <2>1, Constants DEF TextInv
  <2>3. Sees(t)
    BY DEF TextInv
  <2> QED BY <2>1, <2>2, <2>3 DEF Sees
<1>7. ASSUME NEW t, t = cur_display_terminal PROVE Sees(t)'
  <2>1. MemoryOf(t) = VIDEO /\ MemoryOf(t)' = VIDEO
    BY <1>3, <1>7 DEF MemoryOf
  <2>2. ShowsAt(video[VIDEO], Position(Display), Paper, colors[t])
    BY <1>4, <1>7, <2>1 DEF TextInv, Sees, Display, Paper
  <2>3. Position(Display) = Cols * DisplayScreen.y + DisplayScreen.x /\ DisplayScreen.mem = video[VIDEO]
    BY DisplayIsScreen DEF Position, DisplayScreen
  <2>4. ScreenShows(DisplayScreen, Paper, colors[cur_display_terminal])
    BY <1>7, <2>2, <2>3 DEF ScreenShows
  <2>5. ScreenShows(s, p, colors[t])
    BY <1>1, <1>7, <2>4 DEF KeyEffect
  <2>6. video'[VIDEO] = s.mem /\ paper'[t] = p
        /\ terminal_data'[t] = [x |-> s.x, y |-> s.y, save_y |-> s.save_y]
    BY <1>4, <1>5, <1>7, Constants DEF TextInv
  <2>7. Position(terminal_data'[t]) = Cols * s.y + s.x
    BY <2>6 DEF Position
  <2> QED BY <2>1, <2>5, <2>6, <2>7 DEF Sees, ScreenShows, Position
<1>8. DOMAIN paper' = Terminals
  BY <1>5 DEF TextInv
<1> QED BY <1>2, <1>6, <1>7, <1>8 DEF TextInv

(* The exchange of memories takes every screen along.                      *)
LEMMA TextSwitch ==
  ASSUME TypeInv, TextInv, NEW to \in Terminals, FunctionKey(to)
  PROVE  TextInv'
<1>1. /\ switching = NoSwitch /\ switching' = [on |-> cur_execute_terminal, to |-> to]
      /\ to # cur_display_terminal
      /\ video' = [video EXCEPT ![cur_display_terminal] = video[VIDEO], ![VIDEO] = video[to]]
      /\ UNCHANGED <<cur_display_terminal, cur_execute_terminal, terminal_data, paper>>
  BY DEF FunctionKey, ExchangeMemories, turns
<1>2. /\ cur_display_terminal \in Terminals /\ cur_execute_terminal \in Terminals
      /\ DOMAIN video = Memories
  BY DEF TypeInv, TurnsOK
<1>3. switching'.on = cur_execute_terminal /\ switching'.to = to
  BY <1>1
<1>4. switching' # NoSwitch
  BY <1>2, <1>3, Constants DEF NoSwitch
<1>5. Shown = cur_display_terminal /\ Shown' = to
  BY <1>1, <1>3, <1>4 DEF Shown
<1>6. ASSUME NEW t \in Terminals PROVE video'[MemoryOf(t)'] = video[MemoryOf(t)]
  <2>1. CASE t = to
    <3>1. MemoryOf(t)' = VIDEO /\ MemoryOf(t) = t
      BY <1>1, <1>5, <2>1 DEF MemoryOf
    <3> QED BY <1>1, <1>2, <2>1, <3>1, Constants
  <2>2. CASE t = cur_display_terminal
    <3>1. MemoryOf(t)' = t /\ MemoryOf(t) = VIDEO /\ t # VIDEO
      BY <1>1, <1>5, <2>2, Constants DEF MemoryOf
    <3>2. video'[t] = video[VIDEO]
      BY <1>1, <1>2, <2>2, <3>1, Constants
    <3> QED BY <3>1, <3>2
  <2>3. CASE t # to /\ t # cur_display_terminal
    <3>1. MemoryOf(t)' = t /\ MemoryOf(t) = t /\ t # VIDEO
      BY <1>5, <2>3, Constants DEF MemoryOf
    <3> QED BY <1>1, <1>2, <2>3, <3>1, Constants
  <2> QED BY <2>1, <2>2, <2>3
<1>7. ASSUME NEW t \in Terminals PROVE Sees(t)'
  <2>1. Sees(t)
    BY DEF TextInv
  <2> QED BY <1>1, <1>6, <2>1 DEF Sees
<1> QED BY <1>1, <1>3, <1>7 DEF TextInv

(* Output changes the screen of its terminal and its paper alone.          *)
LEMMA TextWrite ==
  ASSUME "putc" \notin Races, TypeInv, TextInv, NEW t \in Terminals, WriteChar(t)
  PROVE  TextInv'
<1>1. PICK m, c, mem, x, y : Writes(t, m, c, mem, x, y)
  BY WriteEffect
<1>2. /\ Runs(t, "write")
      /\ UNCHANGED <<cur_display_terminal, cur_execute_terminal, switching>>
  BY DEF WriteChar, turns
<1>3. Shown = cur_display_terminal /\ Shown' = cur_display_terminal
  BY <1>2, RunsAlone DEF Shown
<1>4. MemoryOf(t) = m /\ \A u : MemoryOf(u)' = MemoryOf(u)
  BY <1>1, <1>3 DEF MemoryOf, Writes
<1>5. DOMAIN video = Memories /\ DOMAIN terminal_data = Terminals /\ m \in Memories
  BY <1>1, Constants DEF TypeInv, Writes
<1>6. /\ video' = [video EXCEPT ![m] = mem]
      /\ terminal_data' = [terminal_data EXCEPT ![t] =
                             [x |-> x, y |-> y, save_y |-> terminal_data[t].save_y]]
      /\ paper' = [paper EXCEPT ![t] = Printed(@, c)]
  BY <1>1 DEF Writes
<1>7. ASSUME NEW u \in Terminals, u # t PROVE Sees(u)'
  <2>1. MemoryOf(u) # m
    BY <1>1, <1>3, <1>7, Constants DEF MemoryOf, Writes
  <2>2. /\ video'[MemoryOf(u)] = video[MemoryOf(u)]
        /\ terminal_data'[u] = terminal_data[u] /\ paper'[u] = paper[u]
    BY <1>5, <1>6, <1>7, <2>1 DEF TextInv
  <2>3. Sees(u)
    BY DEF TextInv
  <2> QED BY <1>4, <2>2, <2>3 DEF Sees
<1>8. Sees(t)'
  <2>1. PICK s : s = [mem |-> video[m], x |-> terminal_data[t].x, y |-> terminal_data[t].y]
    OBVIOUS
  <2>2. PrintsOn(mem, x, y, s, c, colors[t])
    BY <1>1, <2>1, Zenon DEF Writes
  <2>3. s.mem = video[m] /\ Cols * s.y + s.x = Position(terminal_data[t])
    BY <2>1 DEF Position
  <2>4. ShowsAt(s.mem, Cols * s.y + s.x, paper[t], colors[t])
    BY <1>4, <2>3 DEF TextInv, Sees
  <2>5. ShowsAt(mem, Cols * y + x, Printed(paper[t], c), colors[t])
    BY <2>2, <2>4 DEF PrintsOn
  <2>6. video'[m] = mem /\ paper'[t] = Printed(paper[t], c)
        /\ terminal_data'[t] = [x |-> x, y |-> y, save_y |-> terminal_data[t].save_y]
    BY <1>5, <1>6 DEF TextInv
  <2>7. Position(terminal_data'[t]) = Cols * y + x
    BY <2>6 DEF Position
  <2> QED BY <1>4, <2>5, <2>6, <2>7 DEF Sees, Position
<1>9. DOMAIN paper' = Terminals
  BY <1>6 DEF TextInv
<1> QED BY <1>2, <1>7, <1>8, <1>9 DEF TextInv

(* Every step keeps screens and papers together.                           *)
LEMMA TextStep == Races = {} /\ TypeInv /\ TextInv /\ [Next]_vars => TextInv'
<1> SUFFICES ASSUME Races = {}, TypeInv, TextInv, [Next]_vars PROVE TextInv'
  OBVIOUS
<1>1. ASSUME UNCHANGED <<video, paper, cur_execute_terminal, switching>>, Shown' = Shown,
             \A t \in Terminals : Position(terminal_data[t])' = Position(terminal_data[t])
      PROVE  TextInv'
  <2>1. ASSUME NEW t \in Terminals PROVE Sees(t)'
    <3>1. MemoryOf(t)' = MemoryOf(t) /\ Position(terminal_data[t])' = Position(terminal_data[t])
      BY <1>1 DEF MemoryOf
    <3>2. Sees(t)
      BY DEF TextInv
    <3> QED BY <1>1, <3>1, <3>2 DEF Sees
  <2> QED BY <1>1, <2>1 DEF TextInv
<1>2. ASSUME UNCHANGED <<video, paper, terminal_data, turns, switching>> PROVE TextInv'
  <2>1. UNCHANGED <<cur_display_terminal, cur_execute_terminal>>
    BY <1>2 DEF turns
  <2> QED BY <1>1, <1>2, <2>1 DEF Shown, Position
<1>3. CASE KeyPressed
  BY <1>3, TextKeys
<1>4. ASSUME NEW to \in Terminals, FunctionKey(to) PROVE TextInv'
  BY <1>4, TextSwitch
<1>5. CASE SetDisplayTerm
  <2>1. switching # NoSwitch
    BY <1>5, Constants DEF SetDisplayTerm, NoSwitch, TypeInv, TurnsOK
  <2>2. /\ switching' = NoSwitch /\ Shown' = Shown
        /\ UNCHANGED <<video, paper, terminal_data>>
    BY <1>5, <2>1 DEF SetDisplayTerm, Shown
  <2>3. ASSUME NEW t \in Terminals PROVE Sees(t)'
    <3>1. Sees(t) /\ MemoryOf(t)' = MemoryOf(t)
      BY <2>2 DEF TextInv, MemoryOf
    <3> QED BY <2>2, <3>1 DEF Sees
  <2> QED BY <2>2, <2>3 DEF TextInv
<1>6. CASE Tick
  <2>1. /\ switching = NoSwitch
        /\ UNCHANGED <<cur_display_terminal, video, terminal_data, switching, paper>>
    BY <1>6 DEF Tick
  <2>2. Shown' = Shown
    BY <2>1 DEF Shown
  <2>3. ASSUME NEW t \in Terminals PROVE Sees(t)'
    <3>1. Sees(t) /\ MemoryOf(t)' = MemoryOf(t)
      BY <2>2 DEF TextInv, MemoryOf
    <3> QED BY <2>1, <3>1 DEF Sees
  <2> QED BY <2>1, <2>3 DEF TextInv
<1>7. ASSUME NEW t \in Terminals, NEW text \in Outputs, Write(t, text) PROVE TextInv'
  BY <1>2, <1>7 DEF Write
<1>8. ASSUME NEW t \in Terminals, WriteChar(t) PROVE TextInv'
  BY <1>8, TextWrite
<1>9. ASSUME NEW t \in Terminals, WriteReturns(t) PROVE TextInv'
  <2>1. /\ terminal_data' = [terminal_data EXCEPT ![cur_display_terminal].save_y = Display.y]
        /\ UNCHANGED <<cur_display_terminal, cur_execute_terminal, video, switching, paper>>
    BY <1>9 DEF WriteReturns, turns
  <2>2. terminal_data \in [Terminals -> Data]
    BY DEF TypeInv
  <2>3. ASSUME NEW u \in Terminals
        PROVE  Position(terminal_data[u])' = Position(terminal_data[u])
    <3>1. terminal_data'[u].x = terminal_data[u].x /\ terminal_data'[u].y = terminal_data[u].y
      BY <2>1, <2>2 DEF Data
    <3> QED BY <3>1 DEF Position
  <2> QED BY <1>1, <2>1, <2>3 DEF Shown
<1>10. ASSUME NEW t \in Terminals, Vidmap(t) PROVE TextInv'
  BY <1>2, <1>10 DEF Vidmap
<1>11. CASE UNCHANGED vars
  <2>1. UNCHANGED <<video, paper, terminal_data, turns, switching>>
    BY <1>11 DEF vars, turns
  <2> QED BY <1>2, <2>1
<1> QED BY <1>3, <1>4, <1>5, <1>6, <1>7, <1>8, <1>9, <1>10, <1>11 DEF Next, KeyPressed

(* At boot all of them are blank.                                          *)
LEMMA TextInit == Init => TextInv
<1> SUFFICES ASSUME Init PROVE TextInv
  OBVIOUS
<1>1. switching = NoSwitch /\ Shown = 0 /\ 0 \in Terminals
  BY Constants DEF Init, Shown
<1>2. ASSUME NEW t \in Terminals PROVE Sees(t)
  <2>1. MemoryOf(t) \in Memories /\ (IF MemoryOf(t) = VIDEO THEN 0 ELSE MemoryOf(t)) = t
    BY <1>1, Constants DEF MemoryOf
  <2>2. video[MemoryOf(t)] = Wiped(colors[t])
    <3>1. video[MemoryOf(t)] = Wiped(colors[IF MemoryOf(t) = VIDEO THEN 0 ELSE MemoryOf(t)])
      BY <2>1 DEF Init
    <3> QED BY <2>1, <3>1
  <2>3. Position(terminal_data[t]) = 0
    BY ScreenAssumption DEF Init, Position
  <2>4. paper[t] = <<>>
    BY DEF Init
  <2>5. ShowsAt(Wiped(colors[t]), 0, <<>>, colors[t])
    BY ColoursAre, WipedShows
  <2> QED BY <2>2, <2>3, <2>4, <2>5 DEF Sees
<1> QED BY <1>1, <1>2 DEF TextInv, Init

(* Where none of the races happens, the screen of every terminal,          *)
(* displayed or not, shows the end of what was typed and written there,    *)
(* however output, echo, scrolling, deletion and switches interleave, on   *)
(* screens of any size and with any number of terminals (lib.c:182, :218,  *)
(* :274, :330, system_call.c:529).                                         *)
THEOREM ShowsTextHolds == ASSUME Races = {} PROVE Spec => []ShowsText
<1>1. TextInv => ShowsText
  <2> SUFFICES ASSUME TextInv PROVE ShowsText
    OBVIOUS
  <2>1. Rows * Cols = Size
    BY Sizes DEF Size
  <2>2. ASSUME NEW t \in Terminals, NEW i \in 0 .. Rows * Cols - 1
        PROVE  /\ video[MemoryOf(t)][2 * i] = IF i < Len(paper[t]) THEN paper[t][i + 1] ELSE SPACE
               /\ video[MemoryOf(t)][2 * i + 1] = colors[t]
    <3>1. PICK mem, p, text :
            mem = video[MemoryOf(t)] /\ p = Position(terminal_data[t]) /\ text = paper[t]
      OBVIOUS
    <3>2. ShowsAt(mem, p, text, colors[t])
      BY <3>1 DEF TextInv, Sees
    <3>3. /\ mem[2 * i] = IF i < p THEN text[i + 1] ELSE SPACE
          /\ mem[2 * i + 1] = colors[t]
          /\ Len(text) = p
      BY <2>1, <3>2 DEF ShowsAt
    <3>4. mem[2 * i] = IF i < Len(text) THEN text[i + 1] ELSE SPACE
      BY <3>3, Zenon
    <3> QED BY <3>1, <3>3, <3>4, Zenon
  <2>3. ASSUME NEW t \in Terminals PROVE Position(terminal_data[t]) = Len(paper[t])
    BY DEF TextInv, Sees, ShowsAt
  <2> QED BY <2>2, <2>3, Zenon DEF ShowsText
<1>2. Races = {} /\ TypeInv /\ [Next]_vars => TypeInv'
  BY TypeStep
<1>3. Races = {} /\ TypeInv /\ TextInv /\ [Next]_vars => TextInv'
  BY TextStep
<1> QED BY <1>1, <1>2, <1>3, TypeInit, TextInit, PTL DEF Spec

-----------------------------------------------------------------------------
(* Part 11.  The copies that the run checks.                               *)

(* The copies that CopyCorrect asks for.                                   *)
LEMMA AreasCopied ==
  ASSUME NEW n \in 0 .. MemBytes, NEW dest \in 0 .. MemBytes, NEW src \in 0 .. MemBytes,
         src + n <= MemBytes
  PROVE  MemcpyCopies(n, dest, src) /\ MemmoveCopies(n, dest, src) /\ MemsetFills(n, dest)
<1>1. PICK D : D = 0 .. MemBytes - 1
  OBVIOUS
<1>2. n \in Nat /\ dest \in Nat /\ src \in Nat /\ D \subseteq Int /\ src .. src + n - 1 \subseteq D
  BY <1>1, MemBytesAssumption
<1>3. Bytes \in [D -> Int] /\ Bytes = [a \in D |-> Bytes[a]]
  BY <1>1, <1>2 DEF Bytes
<1>4. Holds(D, Bytes, src, n)
  BY <1>2, <1>3 DEF Holds
<1>5. MemcpyCopies(n, dest, src)
  BY <1>2, <1>4, MemcpyIsCopy DEF MemcpyCopies
<1>6. MemmoveCopies(n, dest, src)
  BY <1>2, <1>4, MemmoveIsCopy DEF MemmoveCopies
<1>7. MemsetFills(n, dest)
  <2>1. ASSUME NEW c \in Int
        PROVE  memset(Bytes, dest, c, n) = Store(Bytes, dest, [i \in 1 .. n |-> c % 256])
    <3>1. memset(Bytes, dest, c, n) = Filled(Bytes, dest, c, n)
      BY <1>2, <1>3, MemsetIsFill
    <3>2. Store(Bytes, dest, [i \in 1 .. n |-> c % 256]) = Filled(Bytes, dest, c, n)
      <4>1. dest \in Int
        BY <1>2
      <4> QED BY <1>2, <4>1, StoreFills
    <3> QED BY <3>1, <3>2
  <2>2. {7, -1, 256} \subseteq Int
    OBVIOUS
  <2> QED BY <2>1, <2>2, Zenon DEF MemsetFills
<1> QED BY <1>5, <1>6, <1>7

CopyInput == input.kind = "copy" => input.of \in Areas

(* memcpy is right for areas that do not overlap and for a destination     *)
(* below the source, memmove for all of them, and memset fills what it     *)
(* should, in memories of every size, for every size and alignment         *)
(* (lib.c:457, :540, :586).                                                *)
THEOREM CopyCorrectHolds == MCSpec => []CopyCorrect
<1>1. MCInit => CopyInput
  BY DEF MCInit, Input, CopyInput
<1>2. CopyInput /\ [MCNext]_<<vars, input>> => CopyInput'
  BY DEF CopyInput, MCNext
<1>3. CopyInput => CopyCorrect
  <2> SUFFICES ASSUME CopyInput, input.kind = "copy",
                      NEW n, NEW dest, NEW src,
                      n = input.of[1], dest = input.of[2], src = input.of[3]
               PROVE  MemcpyCopies(n, dest, src) /\ MemmoveCopies(n, dest, src) /\ MemsetFills(n, dest)
    BY Zenon DEF CopyCorrect
  <2>1. /\ n \in 0 .. MemBytes /\ dest \in 0 .. MemBytes /\ src \in 0 .. MemBytes
        /\ src + n <= MemBytes
    BY DEF CopyInput, Areas
  <2> QED BY <2>1, AreasCopied
<1> QED BY <1>1, <1>2, <1>3, PTL DEF MCSpec

-----------------------------------------------------------------------------
(* Part 12.  The strings that the run checks.                              *)

(* Strings over a set of characters are sequences of them.                 *)
LEMMA StringsAreSequences ==
  ASSUME NEW chars, NEW n \in Nat, NEW s \in StringsOver(chars, n)
  PROVE  s \in Seq(chars) /\ Len(s) \in 0 .. n
<1>1. PICK k \in 0 .. n : s \in [1 .. k -> chars]
  BY DEF StringsOver
<1>2. k \in Nat
  OBVIOUS
<1>3. s \in Seq(chars)
  BY <1>1, <1>2, SeqDef
<1>4. Len(s) = k
  BY <1>1, <1>2, <1>3, LenProperties
<1> QED BY <1>3, <1>4

(* The command lines and the strings are the library's.                    *)
StringsInput ==
  /\ input.kind = "command" => input.of[1] \in Commands
  /\ input.kind = "strings" =>
       input.of[1] \in Strings /\ input.of[2] \in Strings /\ input.of[3] \in 0 .. MaxString + 1

(* A command line comes apart into its command and its arguments, getargs  *)
(* hands out exactly the arguments, if they fit, and comparing up to n     *)
(* characters is comparing the prefixes, for strings of every length       *)
(* (system_call.c:158, :432; lib.c:617, :654).                             *)
THEOREM StringsCorrectHolds == MCSpec => []StringsCorrect
<1>1. MCInit => StringsInput
  <2> SUFFICES ASSUME MCInit PROVE StringsInput
    OBVIOUS
  <2>1. \/ input.kind \notin {"command", "strings"}
        \/ \E s \in Commands : Input("command", <<s>>)
        \/ \E s, r \in Strings, n \in 0 .. MaxString + 1 : Input("strings", <<s, r, n>>)
    BY DEF MCInit, Input
  <2>2. CASE input.kind \notin {"command", "strings"}
    BY <2>2 DEF StringsInput
  <2>3. CASE \E s \in Commands : Input("command", <<s>>)
    BY <2>3 DEF StringsInput, Input
  <2>4. CASE \E s, r \in Strings, n \in 0 .. MaxString + 1 : Input("strings", <<s, r, n>>)
    BY <2>4 DEF StringsInput, Input
  <2> QED BY <2>1, <2>2, <2>3, <2>4
<1>2. StringsInput /\ [MCNext]_<<vars, input>> => StringsInput'
  BY DEF StringsInput, MCNext
<1>3. StringsInput => StringsCorrect
  <2>1. ASSUME NEW s \in Commands PROVE CommandParsed(s)
    <3>1. {SPACE, 65} \subseteq Nat /\ MaxString + 2 \in Nat
      BY MaxStringAssumption DEF SPACE
    <3>2. s \in Seq({SPACE, 65})
      BY <3>1, StringsAreSequences DEF Commands
    <3>3. s \in Seq(Nat)
      BY <3>1, <3>2, SeqMonotonic
    <3> QED BY <3>3, CommandsParsed
  <2>2. ASSUME NEW s \in Strings PROVE s \in Seq(Nat \ {0}) /\ Len(s) <= MaxString
    <3>1. {65, 66} \subseteq Nat \ {0} /\ MaxString \in Nat
      BY MaxStringAssumption
    <3>2. s \in Seq({65, 66}) /\ Len(s) \in 0 .. MaxString
      BY <3>1, StringsAreSequences DEF Strings
    <3>3. s \in Seq(Nat \ {0})
      BY <3>1, <3>2, SeqMonotonic
    <3> QED BY <3>1, <3>2, <3>3
  <2>3. \A n \in 0 .. MaxString + 1 : n \in Nat
    BY MaxStringAssumption
  <2>4. ASSUME NEW s \in Strings, NEW r \in Strings, NEW n \in 0 .. MaxString + 1
        PROVE  StringsCompared(s, r, n) /\ ArgumentsDelivered(s, n)
    <3>1. n \in Nat
      BY <2>3
    <3>2. StringsCompared(s, r, n)
      BY <2>2, <3>1, PrefixesCompared
    <3>3. ArgumentsDelivered(s, n)
      BY <2>2, <3>1, ArgumentsFit
    <3> QED BY <3>2, <3>3
  <2> QED BY <2>1, <2>4 DEF StringsInput, StringsCorrect
<1> QED BY <1>1, <1>2, <1>3, PTL DEF MCSpec

-----------------------------------------------------------------------------
(* Part 13.  The numbers that the run checks.                              *)

(* The words are the library's.                                            *)
WordInput == input.kind = "word" => input.of[1] \in Word

(* Every word is printed as the number it is, and each conversion takes    *)
(* its own argument, for words of every width (lib.c:45, :389).            *)
THEOREM NumbersPrintedHolds == MCSpec => []NumbersPrinted
<1>1. MCInit => WordInput
  <2> SUFFICES ASSUME MCInit PROVE WordInput
    OBVIOUS
  <2>1. input.kind # "word" \/ \E w \in Word : Input("word", <<w>>)
    BY DEF MCInit, Input
  <2>2. CASE input.kind # "word"
    BY <2>2 DEF WordInput
  <2>3. CASE \E w \in Word : Input("word", <<w>>)
    BY <2>3 DEF WordInput, Input
  <2> QED BY <2>1, <2>2, <2>3
<1>2. WordInput /\ [MCNext]_<<vars, input>> => WordInput'
  BY DEF WordInput, MCNext
<1>3. WordInput => NumbersPrinted
  BY HexIsNumber, DecimalIsNumber DEF WordInput, NumbersPrinted
<1> QED BY <1>1, <1>2, <1>3, PTL DEF MCSpec

-----------------------------------------------------------------------------
(* Part 14.  The keyboard.  The held keys and the flags are folds over the *)
(* events; over every prefix of a usual sequence they agree.               *)

(* The keys that are held after each event.                                *)
HeldThen(h, e) ==
  IF e[1] \notin Keys THEN h ELSE IF e[2] = "down" THEN h \cup {e[1]} ELSE h \ {e[1]}

IsHolding(r, s, n) ==
  /\ r \in [0 .. n -> SUBSET Keys] /\ r[0] = {}
  /\ \A k \in 1 .. n : r[k] = HeldThen(r[k - 1], s[k])

(* Held is the last of them.                                               *)
LEMMA HeldRun ==
  ASSUME NEW s \in Seq(Events), NEW n \in Nat, n = Len(s)
  PROVE  \E r : IsHolding(r, s, n) /\ r[n] = Held(s)
<1>1. PICK T : T = SUBSET Keys
  OBVIOUS
<1>2. DOMAIN s = 1 .. n
  BY LenProperties
<1> DEFINE op(v, k) == IF s[k][1] \notin Keys THEN v
                       ELSE IF s[k][2] = "down" THEN v \cup {s[k][1]} ELSE v \ {s[k][1]}
<1>3. ASSUME NEW k \in 1 .. n, NEW v \in T PROVE op(v, k) \in T
  <2>1. PICK e : e = s[k]
    OBVIOUS
  <2>2. (IF e[1] \notin Keys THEN v ELSE IF e[2] = "down" THEN v \cup {e[1]} ELSE v \ {e[1]}) \in T
    BY <1>1
  <2> QED BY <2>1, <2>2
<1>4. PICK step : step = [k \in 1 .. n |-> [v \in T |-> op(v, k)]]
  OBVIOUS
<1>5. \A k \in 1 .. n : \A v \in T : op(v, k) \in T
  BY <1>3
<1>6. \A v, k : op(v, k) = HeldThen(v, s[k])
  BY DEF HeldThen
<1> HIDE DEF op
<1>7. \A k \in 1 .. n : \A v \in T : step[k][v] = op(v, k)
  BY <1>4
<1>8. {} \in T /\ Steps(step, n, T)
  BY <1>5, <1>7, <1>1 DEF Steps
<1>9. PICK f : IsFold(f, {}, n, step, T)
  BY <1>8, FoldExists
<1> DEFINE Is(g) == g = [q \in SUBSET (1 .. n) |-> IF q = {} THEN {} ELSE op(g[q \ {Max(q)}], Max(q))]
<1>10. Is(f)
  <2>1. f \in [SUBSET (1 .. n) -> T] /\ f[{}] = {}
    BY <1>9 DEF IsFold
  <2>2. ASSUME NEW q \in SUBSET (1 .. n), q # {}
        PROVE  f[q] = op(f[q \ {Max(q)}], Max(q))
    <3>1. Max(q) \in 1 .. n /\ q \ {Max(q)} \in SUBSET (1 .. n)
      BY <2>2, MaxOf
    <3>2. f[q \ {Max(q)}] \in T
      BY <2>1, <3>1
    <3>3. f[q] = step[Max(q)][f[q \ {Max(q)}]]
      BY <1>9, <2>2 DEF IsFold
    <3> QED BY <1>7, <3>1, <3>2, <3>3
  <2>3. \A q \in SUBSET (1 .. n) : f[q] = IF q = {} THEN {} ELSE op(f[q \ {Max(q)}], Max(q))
    BY <2>1, <2>2, Zenon
  <2>4. f = [q \in SUBSET (1 .. n) |-> f[q]]
    BY <2>1
  <2> QED BY <2>3, <2>4, Zenon
<1>11. Held(s) = (CHOOSE g : Is(g))[1 .. n]
  BY <1>2, Zenon DEF Held, FoldLeft, MapThenFoldSet, op
<1>12. PICK g : Is(g) /\ Held(s) = g[1 .. n]
  BY <1>10, <1>11
<1>13. g[{}] = {} /\ \A k \in 1 .. n : g[1 .. k] = op(g[1 .. k - 1], k)
  <2>1. g[{}] = {}
    BY <1>12
  <2>2. ASSUME NEW k \in 1 .. n PROVE g[1 .. k] = op(g[1 .. k - 1], k)
    <3>1. /\ Max(1 .. k) = k /\ (1 .. k) \ {k} = 1 .. k - 1
          /\ 1 .. k \in SUBSET (1 .. n) /\ 1 .. k # {}
      BY MaxInterval
    <3> QED BY <1>12, <3>1
  <2> QED BY <2>1, <2>2
<1>14. Follows(g, {}, n, step, T)
  BY <1>7, <1>13 DEF Follows
<1>15. PICK r : IsRun(r, {}, n, step, T) /\ r[n] = g[1 .. n]
  BY <1>8, <1>14, FoldRun
<1>16. r \in [0 .. n -> T] /\ r[0] = {} /\ r[n] = Held(s)
  BY <1>12, <1>15 DEF IsRun
<1>17. ASSUME NEW k \in 1 .. n PROVE r[k] = HeldThen(r[k - 1], s[k])
  <2>1. k - 1 \in 0 .. n
    OBVIOUS
  <2>2. r[k] = op(r[k - 1], k)
    BY <1>7, <1>15, <1>16, <2>1 DEF IsRun
  <2> QED BY <1>6, <2>2
<1>18. IsHolding(r, s, n)
  BY <1>1, <1>16, <1>17 DEF IsHolding
<1> QED BY <1>16, <1>18

(* Events that begin in the same way hold the same keys so far.            *)
LEMMA HeldAgree ==
  ASSUME NEW m \in Nat, NEW n \in Nat, m <= n, NEW c, NEW d, NEW r, NEW s,
         IsHolding(r, c, m), IsHolding(s, d, n), \A k \in 1 .. m : c[k] = d[k]
  PROVE  \A k \in 0 .. m : r[k] = s[k]
<1> DEFINE S == {k \in Nat : k <= m => r[k] = s[k]}
<1>1. /\ r[0] = {} /\ s[0] = {}
      /\ \A k \in 1 .. m : r[k] = HeldThen(r[k - 1], c[k])
      /\ \A k \in 1 .. n : s[k] = HeldThen(s[k - 1], d[k])
  BY DEF IsHolding
<1>2. 0 \in S
  BY <1>1
<1>3. ASSUME NEW k \in Nat, k \in S PROVE k + 1 \in S
  <2>1. PICK j \in Nat : j = k + 1 /\ j - 1 = k
    OBVIOUS
  <2>2. j <= m => j \in 1 .. m /\ j \in 1 .. n /\ r[k] = s[k] /\ c[j] = d[j]
    BY <1>3, <2>1
  <2>3. j <= m => r[j] = HeldThen(r[k], c[j]) /\ s[j] = HeldThen(s[k], d[j])
    BY <1>1, <2>1, <2>2
  <2>4. j <= m => r[j] = s[j]
    BY <2>2, <2>3
  <2> QED BY <2>1, <2>4
<1> HIDE DEF S
<1>4. \A k \in Nat : k \in S
  BY <1>2, <1>3, Induction
<1> QED BY <1>4 DEF S

(* The keys that are held after the first k events.                        *)
LEMMA HeldAt ==
  ASSUME NEW s \in Seq(Events), NEW n \in Nat, n = Len(s)
  PROVE  \E r : /\ IsHolding(r, s, n) /\ r[n] = Held(s)
                /\ \A k \in 0 .. n : Held(SubSeq(s, 1, k)) = r[k]
<1>1. PICK r : IsHolding(r, s, n) /\ r[n] = Held(s)
  BY HeldRun
<1>2. ASSUME NEW k \in 0 .. n PROVE Held(SubSeq(s, 1, k)) = r[k]
  <2>1. PICK c : c = SubSeq(s, 1, k)
    OBVIOUS
  <2>2. c \in Seq(Events) /\ Len(c) = k /\ \A i \in 1 .. k : c[i] = s[i]
    <3>1. k \in Nat /\ k <= Len(s)
      OBVIOUS
    <3>2. c = [i \in 1 .. k |-> s[i]]
      BY <2>1, <3>1
    <3>3. \A i \in 1 .. k : s[i] \in Events
      BY <3>1
    <3> QED BY <3>1, <3>2, <3>3
  <2>3. k \in Nat /\ k <= n /\ k \in 0 .. k
    OBVIOUS
  <2>4. PICK q : IsHolding(q, c, k) /\ q[k] = Held(c)
    BY <2>2, <2>3, HeldRun
  <2>5. q[k] = r[k]
    BY <1>1, <2>2, <2>3, <2>4, HeldAgree
  <2> QED BY <2>1, <2>4, <2>5
<1> QED BY <1>1, <1>2

Modifiers == [control : BOOLEAN, caps : BOOLEAN, shift : BOOLEAN, alt : BOOLEAN]

(* What a scan code does to the flags.                                     *)
Turned(f, g, key, way) ==
  /\ g \in Modifiers
  /\ g.control <=> \/ key = "ctrl" /\ way = "down"
                   \/ ~(key = "ctrl" /\ way = "up") /\ ~(key = "extended" /\ way = "") /\ f.control
  /\ g.alt <=> \/ key = "alt" /\ way = "down"
               \/ ~(key = "alt" /\ way = "up") /\ ~(key = "extended" /\ way = "") /\ f.alt
  /\ g.shift <=> \/ key \in {"lshift", "rshift"} /\ way = "down"
                 \/ ~(key \in {"lshift", "rshift"} /\ way = "up") /\ f.shift
  /\ g.caps <=> ((key = "caps" /\ way = "down") <=> ~f.caps)

(* A scan code turns the flags as keyboard_handler does.                   *)
LEMMA ModifiedIs ==
  ASSUME NEW f \in Modifiers, NEW key, NEW way, NEW code, code = <<key, way>>
  PROVE  Turned(f, Modified(f, code), key, way)
<1>1. PICK g : g = Modified(f, code)
  OBVIOUS
<1>2. \A K, w : code \in K \X {w} <=> key \in K /\ way = w
  OBVIOUS
<1>3. code = Extended <=> key = "extended" /\ way = ""
  BY DEF Extended
<1>4. /\ code \in {"ctrl"} \X {"down"} <=> key = "ctrl" /\ way = "down"
      /\ code \in {"ctrl"} \X {"up"} <=> key = "ctrl" /\ way = "up"
      /\ code \in {"alt"} \X {"down"} <=> key = "alt" /\ way = "down"
      /\ code \in {"alt"} \X {"up"} <=> key = "alt" /\ way = "up"
      /\ code \in {"caps"} \X {"down"} <=> key = "caps" /\ way = "down"
      /\ code \in {"lshift", "rshift"} \X {"down"} <=> key \in {"lshift", "rshift"} /\ way = "down"
      /\ code \in {"lshift", "rshift"} \X {"up"} <=> key \in {"lshift", "rshift"} /\ way = "up"
  BY <1>2
<1>5. g = [control |-> Set(f.control, code \in {"ctrl"} \X {"down"} \/ code = Extended,
                                      code \in {"ctrl"} \X {"up"} \/ code = Extended),
           caps    |-> f.caps # (code \in {"caps"} \X {"down"}),
           shift   |-> Set(f.shift, code \in {"lshift", "rshift"} \X {"down"},
                                    code \in {"lshift", "rshift"} \X {"up"}),
           alt     |-> Set(f.alt, code \in {"alt"} \X {"down"} \/ code = Extended,
                                  code \in {"alt"} \X {"up"} \/ code = Extended)]
  BY <1>1, Zenon DEF Modified
<1>6. g.control <=> \/ key = "ctrl" /\ way = "down"
                    \/ ~(key = "ctrl" /\ way = "up") /\ ~(key = "extended" /\ way = "") /\ f.control
  <2>1. g.control <=> Set(f.control, code \in {"ctrl"} \X {"down"} \/ code = Extended,
                                     code \in {"ctrl"} \X {"up"} \/ code = Extended)
    BY <1>5
  <2> QED BY <1>3, <1>4, <2>1 DEF Set
<1>7. g.alt <=> \/ key = "alt" /\ way = "down"
                \/ ~(key = "alt" /\ way = "up") /\ ~(key = "extended" /\ way = "") /\ f.alt
  <2>1. g.alt <=> Set(f.alt, code \in {"alt"} \X {"down"} \/ code = Extended,
                             code \in {"alt"} \X {"up"} \/ code = Extended)
    BY <1>5
  <2> QED BY <1>3, <1>4, <2>1 DEF Set
<1>8. g.shift <=> \/ key \in {"lshift", "rshift"} /\ way = "down"
                  \/ ~(key \in {"lshift", "rshift"} /\ way = "up") /\ f.shift
  <2>1. g.shift <=> Set(f.shift, code \in {"lshift", "rshift"} \X {"down"},
                                 code \in {"lshift", "rshift"} \X {"up"})
    BY <1>5
  <2> QED BY <1>4, <2>1 DEF Set
<1>9. g.caps <=> ((key = "caps" /\ way = "down") <=> ~f.caps)
  <2> DEFINE pressed == code \in {"caps"} \X {"down"}
  <2>1. g.caps = (f.caps # pressed)
    BY <1>5
  <2>2. f.caps \in BOOLEAN /\ pressed \in BOOLEAN
    BY DEF Modifiers
  <2>3. pressed <=> key = "caps" /\ way = "down"
    BY <1>4
  <2> HIDE DEF pressed
  <2>4. CASE pressed = TRUE
    <3>1. g.caps = (f.caps # TRUE)
      BY <2>1, <2>4
    <3> QED BY <2>2, <2>3, <2>4, <3>1
  <2>5. CASE pressed = FALSE
    <3>1. g.caps = (f.caps # FALSE)
      BY <2>1, <2>5
    <3> QED BY <2>2, <2>3, <2>5, <3>1
  <2> QED BY <2>2, <2>4, <2>5
<1>10. g \in Modifiers
  <2> DEFINE a == Set(f.control, code \in {"ctrl"} \X {"down"} \/ code = Extended,
                                 code \in {"ctrl"} \X {"up"} \/ code = Extended)
             b == f.caps # (code \in {"caps"} \X {"down"})
             c == Set(f.shift, code \in {"lshift", "rshift"} \X {"down"},
                               code \in {"lshift", "rshift"} \X {"up"})
             d == Set(f.alt, code \in {"alt"} \X {"down"} \/ code = Extended,
                             code \in {"alt"} \X {"up"} \/ code = Extended)
  <2>1. a \in BOOLEAN /\ b \in BOOLEAN /\ c \in BOOLEAN /\ d \in BOOLEAN
    BY DEF Set
  <2>2. g = [control |-> a, caps |-> b, shift |-> c, alt |-> d]
    BY <1>5
  <2> HIDE DEF a, b, c, d
  <2> QED BY <2>1, <2>2 DEF Modifiers
<1> QED BY <1>1, <1>6, <1>7, <1>8, <1>9, <1>10 DEF Turned

(* The scan codes.                                                         *)
ScanCodes == {"ctrl", "alt", "lshift", "rshift", "caps", "arrow", "extended"} \X {"down", "up", ""}

(* The flags after each scan code.                                         *)
IsReading(r, f, s, n) ==
  /\ r \in [0 .. n -> Modifiers] /\ r[0] = f
  /\ \A k \in 1 .. n : r[k] = Modified(r[k - 1], s[k])

(* The driver's flags after a sequence of scan codes are the last of them. *)
LEMMA ReadingRun ==
  ASSUME NEW f \in Modifiers, NEW s \in Seq(ScanCodes), NEW n \in Nat, n = Len(s)
  PROVE  \E r : IsReading(r, f, s, n) /\ r[n] = FoldLeft(Modified, f, s)
<1>1. PICK T : T = Modifiers
  OBVIOUS
<1>2. DOMAIN s = 1 .. n
  BY LenProperties
<1> DEFINE op(v, k) == Modified(v, s[k])
<1>3. ASSUME NEW k \in 1 .. n, NEW v \in T PROVE op(v, k) \in T
  <2>1. s[k] \in ScanCodes
    BY <1>2
  <2>2. PICK c \in ScanCodes : c = s[k]
    BY <2>1
  <2>3. PICK key, way : c = <<key, way>>
    <3>1. PICK A, B : ScanCodes = A \X B
      BY DEF ScanCodes
    <3>2. PICK d \in A \X B : d = c
      BY <3>1
    <3>3. d = <<d[1], d[2]>>
      OBVIOUS
    <3> QED BY <3>2, <3>3
  <2>4. v \in Modifiers
    BY <1>1
  <2>5. Turned(v, Modified(v, c), key, way)
    BY <2>3, <2>4, ModifiedIs
  <2> QED BY <1>1, <2>2, <2>5 DEF Turned
<1>4. PICK step : step = [k \in 1 .. n |-> [v \in T |-> op(v, k)]]
  OBVIOUS
<1>5. \A k \in 1 .. n : \A v \in T : op(v, k) \in T
  BY <1>3
<1> HIDE DEF op
<1>6. \A k \in 1 .. n : \A v \in T : step[k][v] = op(v, k)
  BY <1>4
<1>7. f \in T /\ Steps(step, n, T)
  BY <1>5, <1>6, <1>1 DEF Steps
<1>8. PICK h : IsFold(h, f, n, step, T)
  BY <1>7, FoldExists
<1> DEFINE Is(g) == g = [q \in SUBSET (1 .. n) |-> IF q = {} THEN f ELSE op(g[q \ {Max(q)}], Max(q))]
<1>9. Is(h)
  <2>1. h \in [SUBSET (1 .. n) -> T] /\ h[{}] = f
    BY <1>8 DEF IsFold
  <2>2. ASSUME NEW q \in SUBSET (1 .. n), q # {}
        PROVE  h[q] = op(h[q \ {Max(q)}], Max(q))
    <3>1. Max(q) \in 1 .. n /\ q \ {Max(q)} \in SUBSET (1 .. n)
      BY <2>2, MaxOf
    <3>2. h[q \ {Max(q)}] \in T
      BY <2>1, <3>1
    <3>3. h[q] = step[Max(q)][h[q \ {Max(q)}]]
      BY <1>8, <2>2 DEF IsFold
    <3> QED BY <1>6, <3>1, <3>2, <3>3
  <2>3. \A q \in SUBSET (1 .. n) : h[q] = IF q = {} THEN f ELSE op(h[q \ {Max(q)}], Max(q))
    BY <2>1, <2>2, Zenon
  <2>4. h = [q \in SUBSET (1 .. n) |-> h[q]]
    BY <2>1
  <2> QED BY <2>3, <2>4, Zenon
<1>10. FoldLeft(Modified, f, s) = (CHOOSE g : Is(g))[1 .. n]
  BY <1>2, Zenon DEF FoldLeft, MapThenFoldSet, op
<1>11. PICK g : Is(g) /\ FoldLeft(Modified, f, s) = g[1 .. n]
  BY <1>9, <1>10
<1>12. g[{}] = f /\ \A k \in 1 .. n : g[1 .. k] = op(g[1 .. k - 1], k)
  <2>1. g[{}] = f
    BY <1>11
  <2>2. ASSUME NEW k \in 1 .. n PROVE g[1 .. k] = op(g[1 .. k - 1], k)
    <3>1. /\ Max(1 .. k) = k /\ (1 .. k) \ {k} = 1 .. k - 1
          /\ 1 .. k \in SUBSET (1 .. n) /\ 1 .. k # {}
      BY MaxInterval
    <3> QED BY <1>11, <3>1
  <2> QED BY <2>1, <2>2
<1>13. Follows(g, f, n, step, T)
  BY <1>6, <1>12 DEF Follows
<1>14. PICK r : IsRun(r, f, n, step, T) /\ r[n] = g[1 .. n]
  BY <1>7, <1>13, FoldRun
<1>15. r \in [0 .. n -> T] /\ r[0] = f /\ r[n] = FoldLeft(Modified, f, s)
  BY <1>11, <1>14 DEF IsRun
<1>16. ASSUME NEW k \in 1 .. n PROVE r[k] = Modified(r[k - 1], s[k])
  <2>1. k - 1 \in 0 .. n
    OBVIOUS
  <2> QED BY <1>6, <1>14, <1>15, <2>1 DEF IsRun, op
<1>17. IsReading(r, f, s, n)
  BY <1>1, <1>15, <1>16 DEF IsReading
<1> QED BY <1>15, <1>17

(* A key sends one scan code, or two of which the first is 0xE0.           *)
LEMMA OneCode ==
  ASSUME NEW f \in Modifiers, NEW c \in ScanCodes
  PROVE  FoldLeft(Modified, f, <<c>>) = Modified(f, c) /\ Modified(f, c) \in Modifiers
<1>1. PICK s : s = <<c>>
  OBVIOUS
<1>2. PICK n \in Nat : n = 1 /\ n - 1 = 0 /\ n \in 1 .. n /\ n \in 0 .. n
  OBVIOUS
<1>3. s \in Seq(ScanCodes) /\ n = Len(s) /\ s[n] = c
  BY <1>1, <1>2
<1>4. PICK r : IsReading(r, f, s, n) /\ r[n] = FoldLeft(Modified, f, s)
  BY <1>3, ReadingRun
<1>5. r[n] = Modified(f, c) /\ r[n] \in Modifiers
  BY <1>2, <1>3, <1>4 DEF IsReading
<1> QED BY <1>1, <1>4, <1>5

(* Two scan codes change the flags one after the other.                    *)
LEMMA TwoCodes ==
  ASSUME NEW f \in Modifiers, NEW c \in ScanCodes, NEW d \in ScanCodes
  PROVE  FoldLeft(Modified, f, <<c, d>>) = Modified(Modified(f, c), d)
<1>1. PICK s : s = <<c, d>>
  OBVIOUS
<1>2. PICK n \in Nat : n = 2 /\ n - 1 = 1 /\ 1 - 1 = 0 /\ n \in 1 .. n /\ 1 \in 1 .. n
  OBVIOUS
<1>3. s \in Seq(ScanCodes) /\ n = Len(s) /\ s[n] = d /\ s[1] = c
  BY <1>1, <1>2
<1>4. PICK r : IsReading(r, f, s, n) /\ r[n] = FoldLeft(Modified, f, s)
  BY <1>3, ReadingRun
<1>5. r[1] = Modified(f, c) /\ r[n] = Modified(r[1], d)
  BY <1>2, <1>3, <1>4 DEF IsReading
<1> QED BY <1>1, <1>4, <1>5

(* What an event of the keyboard does to the flags.                        *)
Effect(f, g, key, way) ==
  /\ g \in Modifiers
  /\ key \in {"lctrl", "rctrl"} => (g.control <=> way = "down")
  /\ key \in {"ralt", "arrow"} => ~g.control
  /\ key \in {"lalt", "lshift", "rshift", "caps"} => (g.control <=> f.control)
  /\ key \in {"lalt", "ralt"} => (g.alt <=> way = "down")
  /\ key \in {"rctrl", "arrow"} => ~g.alt
  /\ key \in {"lctrl", "lshift", "rshift", "caps"} => (g.alt <=> f.alt)
  /\ key \in {"lshift", "rshift"} => (g.shift <=> way = "down")
  /\ key \notin {"lshift", "rshift"} => (g.shift <=> f.shift)
  /\ g.caps <=> (key = "caps" <=> ~f.caps)

(* The flags after all scan codes of one event.                            *)
LEMMA EventIs ==
  ASSUME NEW f \in Modifiers, NEW e \in Events, NEW key, NEW way, key = e[1], way = e[2]
  PROVE  Effect(f, FoldLeft(Modified, f, Codes(e)), key, way)
<1>1. /\ \/ key \in Keys /\ way \in {"down", "up"}
         \/ key \in {"caps", "arrow"} /\ way = "down"
      /\ e = <<key, way>>
  <2>1. CASE e \in Keys \X {"down", "up"}
    <3>1. PICK d \in Keys \X {"down", "up"} : d = e
      BY <2>1
    <3>2. d = <<d[1], d[2]>> /\ d[1] \in Keys /\ d[2] \in {"down", "up"}
      OBVIOUS
    <3> QED BY <3>1, <3>2
  <2>2. CASE e = <<"caps", "down">> \/ e = <<"arrow", "down">>
    BY <2>2
  <2> QED BY <2>1, <2>2 DEF Events
<1>2. PICK g : g = FoldLeft(Modified, f, Codes(e))
  OBVIOUS
<1>3. PICK h : h = Modified(f, Extended)
  OBVIOUS
<1>4. Extended \in ScanCodes
  BY DEF Extended, ScanCodes
<1>5. h \in Modifiers /\ ~h.control /\ ~h.alt /\ (h.shift <=> f.shift) /\ (h.caps <=> f.caps)
  <2>1. PICK k, w : k = "extended" /\ w = "" /\ Extended = <<k, w>>
    BY DEF Extended
  <2>2. Turned(f, h, k, w)
    BY <1>3, <2>1, ModifiedIs
  <2> QED BY <2>1, <2>2 DEF Turned
<1>6. CASE key = "lctrl"
  <2>1. Codes(e) = <<<<"ctrl", way>>>>
    BY <1>1, <1>6 DEF Codes
  <2>2. PICK k, c : k = "ctrl" /\ c = <<k, way>>
    OBVIOUS
  <2>3. c \in ScanCodes
    <3>1. k \in {"ctrl", "alt", "arrow"} /\ way \in {"down", "up", ""}
      BY <1>1, <1>6, <2>2
    <3> QED BY <2>2, <3>1 DEF ScanCodes
  <2>4. g = Modified(f, c)
    BY <1>2, <2>1, <2>2, <2>3, OneCode
  <2>5. Turned(f, g, k, way)
    BY <2>2, <2>4, ModifiedIs
  <2>6. way \in {"down", "up"}
    BY <1>1, <1>6
  <2> QED BY <1>2, <1>6, <2>2, <2>5, <2>6 DEF Turned, Effect
<1>7. CASE key = "lalt"
  <2>1. Codes(e) = <<<<"alt", way>>>>
    BY <1>1, <1>7 DEF Codes
  <2>2. PICK k, c : k = "alt" /\ c = <<k, way>>
    OBVIOUS
  <2>3. c \in ScanCodes
    <3>1. k \in {"ctrl", "alt", "arrow"} /\ way \in {"down", "up", ""}
      BY <1>1, <1>7, <2>2
    <3> QED BY <2>2, <3>1 DEF ScanCodes
  <2>4. g = Modified(f, c)
    BY <1>2, <2>1, <2>2, <2>3, OneCode
  <2>5. Turned(f, g, k, way)
    BY <2>2, <2>4, ModifiedIs
  <2>6. way \in {"down", "up"}
    BY <1>1, <1>7
  <2> QED BY <1>2, <1>7, <2>2, <2>5, <2>6 DEF Turned, Effect
<1>8. CASE key = "rctrl"
  <2>1. Codes(e) = <<Extended, <<"ctrl", way>>>>
    BY <1>1, <1>8 DEF Codes
  <2>2. PICK k, c : k = "ctrl" /\ c = <<k, way>>
    OBVIOUS
  <2>3. c \in ScanCodes
    <3>1. k \in {"ctrl", "alt", "arrow"} /\ way \in {"down", "up", ""}
      BY <1>1, <1>8, <2>2
    <3> QED BY <2>2, <3>1 DEF ScanCodes
  <2>4. g = Modified(h, c)
    <3>1. FoldLeft(Modified, f, <<Extended, c>>) = Modified(Modified(f, Extended), c)
      BY <1>4, <2>3, TwoCodes
    <3> QED BY <1>2, <1>3, <2>1, <2>2, <3>1
  <2>5. Turned(h, g, k, way)
    BY <1>5, <2>2, <2>4, ModifiedIs
  <2>6. way \in {"down", "up"}
    BY <1>1, <1>8
  <2> QED BY <1>2, <1>5, <1>8, <2>2, <2>5, <2>6 DEF Turned, Effect
<1>9. CASE key = "ralt"
  <2>1. Codes(e) = <<Extended, <<"alt", way>>>>
    BY <1>1, <1>9 DEF Codes
  <2>2. PICK k, c : k = "alt" /\ c = <<k, way>>
    OBVIOUS
  <2>3. c \in ScanCodes
    <3>1. k \in {"ctrl", "alt", "arrow"} /\ way \in {"down", "up", ""}
      BY <1>1, <1>9, <2>2
    <3> QED BY <2>2, <3>1 DEF ScanCodes
  <2>4. g = Modified(h, c)
    <3>1. FoldLeft(Modified, f, <<Extended, c>>) = Modified(Modified(f, Extended), c)
      BY <1>4, <2>3, TwoCodes
    <3> QED BY <1>2, <1>3, <2>1, <2>2, <3>1
  <2>5. Turned(h, g, k, way)
    BY <1>5, <2>2, <2>4, ModifiedIs
  <2>6. way \in {"down", "up"}
    BY <1>1, <1>9
  <2> QED BY <1>2, <1>5, <1>9, <2>2, <2>5, <2>6 DEF Turned, Effect
<1>10. CASE key = "arrow"
  <2>1. Codes(e) = <<Extended, <<key, way>>>>
    BY <1>1, <1>10 DEF Codes
  <2>2. PICK k, c : k = key /\ c = <<k, way>>
    OBVIOUS
  <2>3. c \in ScanCodes
    <3>1. k \in {"ctrl", "alt", "arrow"} /\ way \in {"down", "up", ""}
      BY <1>1, <1>10, <2>2
    <3> QED BY <2>2, <3>1 DEF ScanCodes
  <2>4. g = Modified(h, c)
    <3>1. FoldLeft(Modified, f, <<Extended, c>>) = Modified(Modified(f, Extended), c)
      BY <1>4, <2>3, TwoCodes
    <3> QED BY <1>2, <1>3, <2>1, <2>2, <3>1
  <2>5. Turned(h, g, k, way)
    BY <1>5, <2>2, <2>4, ModifiedIs
  <2>6. way \in {"down", "up"}
    BY <1>1, <1>10
  <2> QED BY <1>2, <1>5, <1>10, <2>2, <2>5, <2>6 DEF Turned, Effect
<1>11. CASE key \in {"lshift", "rshift", "caps"}
  <2>1. Codes(e) = <<e>>
    BY <1>1, <1>11 DEF Codes
  <2>2. e \in ScanCodes /\ way \in {"down", "up"} /\ (key = "caps" => way = "down")
    BY <1>1, <1>11 DEF ScanCodes, Keys
  <2>3. g = Modified(f, e)
    BY <1>2, <2>1, <2>2, OneCode
  <2>4. Turned(f, g, key, way)
    BY <1>1, <2>3, ModifiedIs
  <2> QED BY <1>2, <1>11, <2>2, <2>4 DEF Turned, Effect
<1> QED BY <1>1, <1>6, <1>7, <1>8, <1>9, <1>10, <1>11 DEF Keys

(* The flags after each event.                                             *)
IsFlagged(r, s, n) ==
  /\ r \in [0 .. n -> Modifiers] /\ r[0] = NoModifiers
  /\ \A k \in 1 .. n : Effect(r[k - 1], r[k], s[k][1], s[k][2])

(* Flags is the last of them.                                              *)
LEMMA FlagsRun ==
  ASSUME NEW s \in Seq(Events), NEW n \in Nat, n = Len(s)
  PROVE  \E r : IsFlagged(r, s, n) /\ r[n] = Flags(s)
<1>1. PICK T : T = Modifiers
  OBVIOUS
<1>2. DOMAIN s = 1 .. n
  BY LenProperties
<1> DEFINE op(v, k) == FoldLeft(Modified, v, Codes(s[k]))
<1>3. ASSUME NEW k \in 1 .. n, NEW v \in T
      PROVE  Effect(v, op(v, k), s[k][1], s[k][2]) /\ op(v, k) \in T
  <2>1. PICK e \in Events : e = s[k]
    BY <1>2
  <2>2. v \in Modifiers
    BY <1>1
  <2>3. PICK key, way : key = e[1] /\ way = e[2]
    OBVIOUS
  <2>4. Effect(v, FoldLeft(Modified, v, Codes(e)), key, way)
    BY <2>2, <2>3, EventIs
  <2>5. FoldLeft(Modified, v, Codes(e)) \in Modifiers
    BY <2>4 DEF Effect
  <2> QED BY <1>1, <2>1, <2>3, <2>4, <2>5
<1>4. PICK step : step = [k \in 1 .. n |-> [v \in T |-> op(v, k)]]
  OBVIOUS
<1>5. \A k \in 1 .. n : \A v \in T : op(v, k) \in T
  BY <1>3
<1> HIDE DEF op
<1>6. \A k \in 1 .. n : \A v \in T : step[k][v] = op(v, k)
  BY <1>4
<1>7. NoModifiers \in T /\ Steps(step, n, T)
  <2>1. NoModifiers \in Modifiers
    BY DEF NoModifiers, Modifiers
  <2> QED BY <1>1, <1>5, <1>6, <2>1 DEF Steps
<1>8. PICK h : IsFold(h, NoModifiers, n, step, T)
  BY <1>7, FoldExists
<1> DEFINE Is(g) == g = [q \in SUBSET (1 .. n) |-> IF q = {} THEN NoModifiers ELSE op(g[q \ {Max(q)}], Max(q))]
<1>9. Is(h)
  <2>1. h \in [SUBSET (1 .. n) -> T] /\ h[{}] = NoModifiers
    BY <1>8 DEF IsFold
  <2>2. ASSUME NEW q \in SUBSET (1 .. n), q # {}
        PROVE  h[q] = op(h[q \ {Max(q)}], Max(q))
    <3>1. Max(q) \in 1 .. n /\ q \ {Max(q)} \in SUBSET (1 .. n)
      BY <2>2, MaxOf
    <3>2. h[q \ {Max(q)}] \in T
      BY <2>1, <3>1
    <3>3. h[q] = step[Max(q)][h[q \ {Max(q)}]]
      BY <1>8, <2>2 DEF IsFold
    <3> QED BY <1>6, <3>1, <3>2, <3>3
  <2>3. \A q \in SUBSET (1 .. n) : h[q] = IF q = {} THEN NoModifiers ELSE op(h[q \ {Max(q)}], Max(q))
    BY <2>1, <2>2, Zenon
  <2>4. h = [q \in SUBSET (1 .. n) |-> h[q]]
    BY <2>1
  <2> QED BY <2>3, <2>4, Zenon
<1>10. Flags(s) = (CHOOSE g : Is(g))[1 .. n]
  BY <1>2, Zenon DEF Flags, FoldLeft, MapThenFoldSet, op
<1>11. PICK g : Is(g) /\ Flags(s) = g[1 .. n]
  BY <1>9, <1>10
<1>12. g[{}] = NoModifiers /\ \A k \in 1 .. n : g[1 .. k] = op(g[1 .. k - 1], k)
  <2>1. g[{}] = NoModifiers
    BY <1>11
  <2>2. ASSUME NEW k \in 1 .. n PROVE g[1 .. k] = op(g[1 .. k - 1], k)
    <3>1. /\ Max(1 .. k) = k /\ (1 .. k) \ {k} = 1 .. k - 1
          /\ 1 .. k \in SUBSET (1 .. n) /\ 1 .. k # {}
      BY MaxInterval
    <3> QED BY <1>11, <3>1
  <2> QED BY <2>1, <2>2
<1>13. Follows(g, NoModifiers, n, step, T)
  BY <1>6, <1>12 DEF Follows
<1>14. PICK r : IsRun(r, NoModifiers, n, step, T) /\ r[n] = g[1 .. n]
  BY <1>7, <1>13, FoldRun
<1>15. r \in [0 .. n -> T] /\ r[0] = NoModifiers /\ r[n] = Flags(s)
  BY <1>11, <1>14 DEF IsRun
<1>16. ASSUME NEW k \in 1 .. n PROVE Effect(r[k - 1], r[k], s[k][1], s[k][2])
  <2>1. k - 1 \in 0 .. n
    OBVIOUS
  <2>2. r[k] = op(r[k - 1], k) /\ r[k - 1] \in T
    BY <1>6, <1>14, <1>15, <2>1 DEF IsRun
  <2> QED BY <1>3, <2>2
<1>17. IsFlagged(r, s, n)
  BY <1>1, <1>15, <1>16 DEF IsFlagged
<1> QED BY <1>15, <1>17

(* The presses of caps lock among the first k events.                      *)
CapsAmong(s, k) == {i \in 1 .. k : s[i][1] = "caps"}

(* One event more, and at most one press of caps lock more.                *)
LEMMA CapsCounted ==
  ASSUME NEW s, NEW k \in Nat
  PROVE  /\ IsFiniteSet(CapsAmong(s, k)) /\ Cardinality(CapsAmong(s, k)) \in Nat
         /\ CapsAmong(s, 0) = {}
         /\ k > 0 => Cardinality(CapsAmong(s, k))
                       = Cardinality(CapsAmong(s, k - 1)) + IF s[k][1] = "caps" THEN 1 ELSE 0
<1>1. ASSUME NEW j \in Nat PROVE IsFiniteSet(CapsAmong(s, j)) /\ Cardinality(CapsAmong(s, j)) \in Nat
  <2>1. IsFiniteSet(1 .. j)
    BY FS_Interval
  <2>2. CapsAmong(s, j) \subseteq 1 .. j
    BY DEF CapsAmong
  <2>3. IsFiniteSet(CapsAmong(s, j))
    BY <2>1, <2>2, FS_Subset
  <2> QED BY <2>3, FS_CardinalityType
<1>2. CapsAmong(s, 0) = {}
  BY DEF CapsAmong
<1>3. ASSUME k > 0
      PROVE  Cardinality(CapsAmong(s, k)) = Cardinality(CapsAmong(s, k - 1)) + IF s[k][1] = "caps" THEN 1 ELSE 0
  <2>1. PICK j \in Nat : j = k - 1 /\ 1 .. k = (1 .. j) \cup {k} /\ k \notin 1 .. j
    BY <1>3
  <2>2. IsFiniteSet(CapsAmong(s, j)) /\ Cardinality(CapsAmong(s, j)) \in Nat
    BY <1>1
  <2>3. CASE s[k][1] = "caps"
    <3>1. CapsAmong(s, k) = CapsAmong(s, j) \cup {k} /\ k \notin CapsAmong(s, j)
      BY <2>1, <2>3 DEF CapsAmong
    <3>2. Cardinality(CapsAmong(s, k)) = Cardinality(CapsAmong(s, j)) + 1
      BY <2>2, <3>1, FS_AddElement
    <3> QED BY <2>1, <2>3, <3>2
  <2>4. CASE s[k][1] # "caps"
    <3>1. CapsAmong(s, k) = CapsAmong(s, j)
      BY <2>1, <2>4 DEF CapsAmong
    <3> QED BY <2>1, <2>2, <2>4, <3>1
  <2> QED BY <2>3, <2>4
<1> QED BY <1>1, <1>2, <1>3

(* The flags say which keys are held, and no two of a kind are.            *)
FlagsSay(f, h) ==
  /\ h \subseteq Keys
  /\ f.control <=> "lctrl" \in h \/ "rctrl" \in h
  /\ f.alt <=> "lalt" \in h \/ "ralt" \in h
  /\ f.shift <=> "lshift" \in h \/ "rshift" \in h
  /\ ~("lctrl" \in h /\ "rctrl" \in h) /\ ~("lalt" \in h /\ "ralt" \in h)
  /\ ~("lshift" \in h /\ "rshift" \in h)

(* A usual sequence may go on with this event.                             *)
MayFollow(h, key, way) ==
  /\ way = "up" <=> key \in h
  /\ key = "rctrl" => "lctrl" \notin h /\ "lalt" \notin h /\ "ralt" \notin h
  /\ key = "ralt" => "lctrl" \notin h /\ "rctrl" \notin h /\ "lalt" \notin h
  /\ key = "arrow" => "lctrl" \notin h /\ "rctrl" \notin h /\ "lalt" \notin h /\ "ralt" \notin h
  /\ key = "lctrl" => "rctrl" \notin h
  /\ key = "lalt" => "ralt" \notin h
  /\ key = "lshift" => "rshift" \notin h
  /\ key = "rshift" => "lshift" \notin h

(* An event keeps the flags and the held keys in agreement.                *)
LEMMA FlagsStay ==
  ASSUME NEW f, NEW g, NEW h, NEW key, NEW way, NEW e \in Events, key = e[1], way = e[2],
         FlagsSay(f, h), Effect(f, g, key, way), MayFollow(h, key, way)
  PROVE  FlagsSay(g, HeldThen(h, e))
<1>1. \/ key \in Keys /\ way \in {"down", "up"}
      \/ key \in {"caps", "arrow"} /\ way = "down"
  <2>1. CASE e \in Keys \X {"down", "up"}
    <3>1. PICK d \in Keys \X {"down", "up"} : d = e
      BY <2>1
    <3>2. d[1] \in Keys /\ d[2] \in {"down", "up"}
      OBVIOUS
    <3> QED BY <3>1, <3>2
  <2>2. CASE e = <<"caps", "down">> \/ e = <<"arrow", "down">>
    BY <2>2
  <2> QED BY <2>1, <2>2 DEF Events
<1>2. PICK i : i = HeldThen(h, e)
  OBVIOUS
<1>3. h \subseteq Keys
  BY DEF FlagsSay
<1>4. i \subseteq Keys /\ \A x \in Keys : x \in i <=> (IF x = key THEN way = "down" ELSE x \in h)
  <2>1. CASE key \notin Keys
    BY <1>2, <1>3, <2>1 DEF HeldThen
  <2>2. CASE key \in Keys /\ way = "down"
    BY <1>2, <1>3, <2>2 DEF HeldThen
  <2>3. CASE key \in Keys /\ way = "up"
    BY <1>2, <1>3, <2>3 DEF HeldThen
  <2> QED BY <1>1, <2>1, <2>2, <2>3
<1>5. /\ "lctrl" \in Keys /\ "rctrl" \in Keys /\ "lalt" \in Keys /\ "ralt" \in Keys
      /\ "lshift" \in Keys /\ "rshift" \in Keys /\ "caps" \notin Keys /\ "arrow" \notin Keys
  BY DEF Keys
<1>6. /\ "lctrl" \in i <=> (IF "lctrl" = key THEN way = "down" ELSE "lctrl" \in h)
      /\ "rctrl" \in i <=> (IF "rctrl" = key THEN way = "down" ELSE "rctrl" \in h)
      /\ "lalt" \in i <=> (IF "lalt" = key THEN way = "down" ELSE "lalt" \in h)
      /\ "ralt" \in i <=> (IF "ralt" = key THEN way = "down" ELSE "ralt" \in h)
      /\ "lshift" \in i <=> (IF "lshift" = key THEN way = "down" ELSE "lshift" \in h)
      /\ "rshift" \in i <=> (IF "rshift" = key THEN way = "down" ELSE "rshift" \in h)
  BY <1>4, <1>5
<1>7. CASE key = "lctrl"
  <2>1. g.control <=> "lctrl" \in i \/ "rctrl" \in i
    BY <1>1, <1>6, <1>7 DEF FlagsSay, Effect, MayFollow
  <2>2. g.alt <=> "lalt" \in i \/ "ralt" \in i
    BY <1>1, <1>6, <1>7 DEF FlagsSay, Effect, MayFollow
  <2>3. g.shift <=> "lshift" \in i \/ "rshift" \in i
    BY <1>1, <1>6, <1>7 DEF FlagsSay, Effect, MayFollow
  <2>4. ~("lctrl" \in i /\ "rctrl" \in i) /\ ~("lalt" \in i /\ "ralt" \in i)
        /\ ~("lshift" \in i /\ "rshift" \in i)
    BY <1>1, <1>6, <1>7 DEF FlagsSay, MayFollow
  <2> QED BY <1>2, <1>4, <2>1, <2>2, <2>3, <2>4 DEF FlagsSay
<1>8. CASE key = "rctrl"
  <2>1. g.control <=> "lctrl" \in i \/ "rctrl" \in i
    BY <1>1, <1>6, <1>8 DEF FlagsSay, Effect, MayFollow
  <2>2. g.alt <=> "lalt" \in i \/ "ralt" \in i
    BY <1>1, <1>6, <1>8 DEF FlagsSay, Effect, MayFollow
  <2>3. g.shift <=> "lshift" \in i \/ "rshift" \in i
    BY <1>1, <1>6, <1>8 DEF FlagsSay, Effect, MayFollow
  <2>4. ~("lctrl" \in i /\ "rctrl" \in i) /\ ~("lalt" \in i /\ "ralt" \in i)
        /\ ~("lshift" \in i /\ "rshift" \in i)
    BY <1>1, <1>6, <1>8 DEF FlagsSay, MayFollow
  <2> QED BY <1>2, <1>4, <2>1, <2>2, <2>3, <2>4 DEF FlagsSay
<1>9. CASE key = "lalt"
  <2>1. g.control <=> "lctrl" \in i \/ "rctrl" \in i
    BY <1>1, <1>6, <1>9 DEF FlagsSay, Effect, MayFollow
  <2>2. g.alt <=> "lalt" \in i \/ "ralt" \in i
    BY <1>1, <1>6, <1>9 DEF FlagsSay, Effect, MayFollow
  <2>3. g.shift <=> "lshift" \in i \/ "rshift" \in i
    BY <1>1, <1>6, <1>9 DEF FlagsSay, Effect, MayFollow
  <2>4. ~("lctrl" \in i /\ "rctrl" \in i) /\ ~("lalt" \in i /\ "ralt" \in i)
        /\ ~("lshift" \in i /\ "rshift" \in i)
    BY <1>1, <1>6, <1>9 DEF FlagsSay, MayFollow
  <2> QED BY <1>2, <1>4, <2>1, <2>2, <2>3, <2>4 DEF FlagsSay
<1>10. CASE key = "ralt"
  <2>1. g.control <=> "lctrl" \in i \/ "rctrl" \in i
    BY <1>1, <1>6, <1>10 DEF FlagsSay, Effect, MayFollow
  <2>2. g.alt <=> "lalt" \in i \/ "ralt" \in i
    BY <1>1, <1>6, <1>10 DEF FlagsSay, Effect, MayFollow
  <2>3. g.shift <=> "lshift" \in i \/ "rshift" \in i
    BY <1>1, <1>6, <1>10 DEF FlagsSay, Effect, MayFollow
  <2>4. ~("lctrl" \in i /\ "rctrl" \in i) /\ ~("lalt" \in i /\ "ralt" \in i)
        /\ ~("lshift" \in i /\ "rshift" \in i)
    BY <1>1, <1>6, <1>10 DEF FlagsSay, MayFollow
  <2> QED BY <1>2, <1>4, <2>1, <2>2, <2>3, <2>4 DEF FlagsSay
<1>11. CASE key = "lshift"
  <2>1. g.control <=> "lctrl" \in i \/ "rctrl" \in i
    BY <1>1, <1>6, <1>11 DEF FlagsSay, Effect, MayFollow
  <2>2. g.alt <=> "lalt" \in i \/ "ralt" \in i
    BY <1>1, <1>6, <1>11 DEF FlagsSay, Effect, MayFollow
  <2>3. g.shift <=> "lshift" \in i \/ "rshift" \in i
    BY <1>1, <1>6, <1>11 DEF FlagsSay, Effect, MayFollow
  <2>4. ~("lctrl" \in i /\ "rctrl" \in i) /\ ~("lalt" \in i /\ "ralt" \in i)
        /\ ~("lshift" \in i /\ "rshift" \in i)
    BY <1>1, <1>6, <1>11 DEF FlagsSay, MayFollow
  <2> QED BY <1>2, <1>4, <2>1, <2>2, <2>3, <2>4 DEF FlagsSay
<1>12. CASE key = "rshift"
  <2>1. g.control <=> "lctrl" \in i \/ "rctrl" \in i
    BY <1>1, <1>6, <1>12 DEF FlagsSay, Effect, MayFollow
  <2>2. g.alt <=> "lalt" \in i \/ "ralt" \in i
    BY <1>1, <1>6, <1>12 DEF FlagsSay, Effect, MayFollow
  <2>3. g.shift <=> "lshift" \in i \/ "rshift" \in i
    BY <1>1, <1>6, <1>12 DEF FlagsSay, Effect, MayFollow
  <2>4. ~("lctrl" \in i /\ "rctrl" \in i) /\ ~("lalt" \in i /\ "ralt" \in i)
        /\ ~("lshift" \in i /\ "rshift" \in i)
    BY <1>1, <1>6, <1>12 DEF FlagsSay, MayFollow
  <2> QED BY <1>2, <1>4, <2>1, <2>2, <2>3, <2>4 DEF FlagsSay
<1>13. CASE key = "caps"
  <2>1. g.control <=> "lctrl" \in i \/ "rctrl" \in i
    BY <1>1, <1>6, <1>13 DEF FlagsSay, Effect, MayFollow
  <2>2. g.alt <=> "lalt" \in i \/ "ralt" \in i
    BY <1>1, <1>6, <1>13 DEF FlagsSay, Effect, MayFollow
  <2>3. g.shift <=> "lshift" \in i \/ "rshift" \in i
    BY <1>1, <1>6, <1>13 DEF FlagsSay, Effect, MayFollow
  <2>4. ~("lctrl" \in i /\ "rctrl" \in i) /\ ~("lalt" \in i /\ "ralt" \in i)
        /\ ~("lshift" \in i /\ "rshift" \in i)
    BY <1>1, <1>6, <1>13 DEF FlagsSay, MayFollow
  <2> QED BY <1>2, <1>4, <2>1, <2>2, <2>3, <2>4 DEF FlagsSay
<1>14. CASE key = "arrow"
  <2>1. g.control <=> "lctrl" \in i \/ "rctrl" \in i
    BY <1>1, <1>6, <1>14 DEF FlagsSay, Effect, MayFollow
  <2>2. g.alt <=> "lalt" \in i \/ "ralt" \in i
    BY <1>1, <1>6, <1>14 DEF FlagsSay, Effect, MayFollow
  <2>3. g.shift <=> "lshift" \in i \/ "rshift" \in i
    BY <1>1, <1>6, <1>14 DEF FlagsSay, Effect, MayFollow
  <2>4. ~("lctrl" \in i /\ "rctrl" \in i) /\ ~("lalt" \in i /\ "ralt" \in i)
        /\ ~("lshift" \in i /\ "rshift" \in i)
    BY <1>1, <1>6, <1>14 DEF FlagsSay, MayFollow
  <2> QED BY <1>2, <1>4, <2>1, <2>2, <2>3, <2>4 DEF FlagsSay
<1>15. key \in {"lctrl", "rctrl", "lalt", "ralt", "lshift", "rshift", "caps", "arrow"}
  BY <1>1 DEF Keys
<1> QED BY <1>7, <1>8, <1>9, <1>10, <1>11, <1>12, <1>13, <1>14, <1>15

(* What a usual sequence promises of each of its events.                   *)
LEMMA UsualFollows ==
  ASSUME NEW s \in Seq(Events), Usual(s), NEW n \in Nat, n = Len(s), NEW k \in 1 .. n,
         NEW h, h = Held(SubSeq(s, 1, k - 1)), NEW key, NEW way, key = s[k][1], way = s[k][2]
  PROVE  MayFollow(h, key, way)
<1>1. /\ way = "up" <=> key \in h
      /\ \A p \in Pairs : ~(p \subseteq h \cup {key})
      /\ key \in {"arrow", "rctrl", "ralt"}
           => h \cap ({"lctrl", "rctrl", "lalt", "ralt"} \ {key}) = {}
  BY DEF Usual
<1>2. /\ ~({"lctrl", "rctrl"} \subseteq h \cup {key}) /\ ~({"lalt", "ralt"} \subseteq h \cup {key})
      /\ ~({"lshift", "rshift"} \subseteq h \cup {key})
  BY <1>1 DEF Pairs
<1>3. /\ key = "lctrl" => "rctrl" \notin h
      /\ key = "lalt" => "ralt" \notin h
      /\ key = "lshift" => "rshift" \notin h
      /\ key = "rshift" => "lshift" \notin h
  BY <1>2
<1>4. ASSUME key \in {"arrow", "rctrl", "ralt"}
      PROVE  \A x : x \in h /\ x \in {"lctrl", "rctrl", "lalt", "ralt"} => x = key
  BY <1>1, <1>4
<1>5. /\ key = "rctrl" => "lctrl" \notin h /\ "lalt" \notin h /\ "ralt" \notin h
      /\ key = "ralt" => "lctrl" \notin h /\ "rctrl" \notin h /\ "lalt" \notin h
      /\ key = "arrow" => "lctrl" \notin h /\ "rctrl" \notin h /\ "lalt" \notin h /\ "ralt" \notin h
  BY <1>4
<1> QED BY <1>1, <1>3, <1>5 DEF MayFollow

(* An odd number of presses of caps lock among the first k events.         *)
Odd(s, k) == Cardinality(CapsAmong(s, k)) % 2 = 1

(* A press of caps lock makes an odd number of presses even and an even    *)
(* number odd.                                                             *)
LEMMA OddTurns ==
  ASSUME NEW s, NEW k \in Nat, k > 0
  PROVE  Odd(s, k) <=> (s[k][1] = "caps" <=> ~Odd(s, k - 1))
<1>1. PICK j \in Nat : j = k - 1
  OBVIOUS
<1>2. PICK c \in Nat : c = Cardinality(CapsAmong(s, j))
  BY CapsCounted
<1>3. Cardinality(CapsAmong(s, k)) = c + IF s[k][1] = "caps" THEN 1 ELSE 0
  BY <1>1, <1>2, CapsCounted
<1>4. CASE s[k][1] = "caps"
  <2>1. Cardinality(CapsAmong(s, k)) = c + 1
    BY <1>3, <1>4
  <2>2. (c + 1) % 2 = 1 <=> ~(c % 2 = 1)
    OBVIOUS
  <2> QED BY <1>1, <1>2, <1>4, <2>1, <2>2 DEF Odd
<1>5. CASE s[k][1] # "caps"
  <2>1. Cardinality(CapsAmong(s, k)) = c
    BY <1>3, <1>5
  <2> QED BY <1>1, <1>2, <1>5, <2>1 DEF Odd
<1> QED BY <1>4, <1>5

(* After a usual sequence of any length the flags say which keys are held, *)
(* and caps is on when caps lock was pressed an odd number of times.       *)
LEMMA FlagsAreRight ==
  ASSUME NEW s \in Seq(Events), Usual(s)
  PROVE  Flags(s) \in Modifiers /\ FlagsSay(Flags(s), Held(s)) /\ (Flags(s).caps <=> CapsLocked(s))
<1>1. PICK n \in Nat : n = Len(s) /\ DOMAIN s = 1 .. n
  BY LenProperties
<1>2. PICK h : /\ IsHolding(h, s, n) /\ h[n] = Held(s)
               /\ \A k \in 0 .. n : Held(SubSeq(s, 1, k)) = h[k]
  BY <1>1, HeldAt
<1>3. PICK f : IsFlagged(f, s, n) /\ f[n] = Flags(s)
  BY <1>1, FlagsRun
<1> DEFINE S == {k \in Nat : k <= n => FlagsSay(f[k], h[k]) /\ (f[k].caps <=> Odd(s, k))}
<1>4. 0 \in S
  <2>1. f[0] = NoModifiers /\ h[0] = {}
    BY <1>2, <1>3 DEF IsFlagged, IsHolding
  <2>2. FlagsSay(f[0], h[0])
    BY <2>1 DEF FlagsSay, NoModifiers
  <2>3. ~Odd(s, 0)
    <3>1. CapsAmong(s, 0) = {}
      BY DEF CapsAmong
    <3>2. Cardinality(CapsAmong(s, 0)) = 0
      BY <3>1, FS_EmptySet
    <3> QED BY <3>2 DEF Odd
  <2>4. ~f[0].caps
    BY <2>1 DEF NoModifiers
  <2> QED BY <2>2, <2>3, <2>4
<1>5. ASSUME NEW j \in Nat, j \in S PROVE j + 1 \in S
  <2>1. SUFFICES ASSUME j + 1 <= n
                 PROVE  FlagsSay(f[j + 1], h[j + 1]) /\ (f[j + 1].caps <=> Odd(s, j + 1))
    OBVIOUS
  <2>2. PICK k \in 1 .. n : k = j + 1 /\ k \in Nat /\ k > 0 /\ j = k - 1 /\ j \in 0 .. n
    BY <2>1
  <2>3. FlagsSay(f[j], h[j]) /\ (f[j].caps <=> Odd(s, j))
    BY <1>5, <2>1
  <2>4. PICK e \in Events : e = s[k]
    BY <1>1
  <2>5. PICK key, way : key = e[1] /\ way = e[2]
    OBVIOUS
  <2>6. PICK a, b, c : a = f[j] /\ b = f[k] /\ c = h[j]
    OBVIOUS
  <2>7. Effect(a, b, key, way)
    BY <1>3, <2>2, <2>4, <2>5, <2>6 DEF IsFlagged
  <2>8. c = Held(SubSeq(s, 1, k - 1))
    BY <1>2, <2>2, <2>6
  <2>9. key = s[k][1] /\ way = s[k][2]
    BY <2>4, <2>5
  <2>10. MayFollow(c, key, way)
    BY <1>1, <2>8, <2>9, UsualFollows
  <2>11. FlagsSay(a, c)
    BY <2>3, <2>6
  <2>12. FlagsSay(b, HeldThen(c, e))
    BY <2>5, <2>7, <2>10, <2>11, FlagsStay
  <2>13. h[k] = HeldThen(c, e)
    BY <1>2, <2>2, <2>4, <2>6 DEF IsHolding
  <2>14. b.caps <=> (key = "caps" <=> ~a.caps)
    BY <2>7 DEF Effect
  <2>15. Odd(s, k) <=> (key = "caps" <=> ~Odd(s, j))
    BY <2>2, <2>9, OddTurns
  <2>16. b.caps <=> Odd(s, k)
    BY <2>3, <2>6, <2>14, <2>15
  <2> QED BY <2>2, <2>6, <2>12, <2>13, <2>16
<1>6. n \in S
  <2> HIDE DEF S
  <2> QED BY <1>4, <1>5, Induction
<1>7. FlagsSay(f[n], h[n]) /\ (f[n].caps <=> Odd(s, n))
  BY <1>6
<1>8. Odd(s, n) <=> CapsLocked(s)
  BY <1>1 DEF Odd, CapsLocked, CapsAmong
<1>9. f[n] \in Modifiers
  BY <1>3 DEF IsFlagged
<1> QED BY <1>2, <1>3, <1>7, <1>8, <1>9

(* After every usual sequence of presses and releases, of whatever length, *)
(* the flags of the driver say which keys are held, and a key gives the    *)
(* character a typist expects (keyboard.c:129, :203).                      *)
THEOREM KeyboardDecodes ==
  ASSUME NEW s \in Seq(Events), Usual(s)
  PROVE  ModifiersFollowKeys(s) /\ CharactersFollowKeys(s)
<1>1. PICK f : f = Flags(s)
  OBVIOUS
<1>2. PICK h : h = Held(s)
  OBVIOUS
<1>3. f \in Modifiers /\ FlagsSay(f, h) /\ (f.caps <=> CapsLocked(s))
  BY <1>1, <1>2, FlagsAreRight
<1>4. /\ f.control <=> h \cap {"lctrl", "rctrl"} # {}
      /\ f.alt <=> h \cap {"lalt", "ralt"} # {}
      /\ f.shift <=> h \cap {"lshift", "rshift"} # {}
  <2>1. \A x, y : h \cap {x, y} # {} <=> x \in h \/ y \in h
    OBVIOUS
  <2> QED BY <1>3, <2>1 DEF FlagsSay
<1>5. ModifiersFollowKeys(s)
  BY <1>1, <1>2, <1>4 DEF ModifiersFollowKeys
<1> DEFINE shifted == h \cap {"lshift", "rshift"} # {}
<1>6. /\ f.shift <=> shifted
      /\ shifted \in BOOLEAN /\ CapsLocked(s) \in BOOLEAN
  BY <1>4 DEF CapsLocked
<1> HIDE DEF shifted
<1>7. /\ Character(f, "letter") = IF shifted # CapsLocked(s) THEN "upper" ELSE "lower"
      /\ Character(f, "sign") = IF shifted THEN "shifted" ELSE "plain"
  <2>1. CASE f.shift /\ f.caps
    <3>1. Character(f, "letter") = "lower" /\ Character(f, "sign") = "shifted"
      BY <2>1 DEF Character, keyboard_map_shift_caps
    <3> QED BY <1>3, <1>6, <2>1, <3>1
  <2>2. CASE f.shift /\ ~f.caps
    <3>1. Character(f, "letter") = "upper" /\ Character(f, "sign") = "shifted"
      BY <2>2 DEF Character, keyboard_map_shift
    <3> QED BY <1>3, <1>6, <2>2, <3>1
  <2>3. CASE ~f.shift /\ f.caps
    <3>1. Character(f, "letter") = "upper" /\ Character(f, "sign") = "plain"
      BY <2>3 DEF Character, keyboard_map_caps
    <3> QED BY <1>3, <1>6, <2>3, <3>1
  <2>4. CASE ~f.shift /\ ~f.caps
    <3>1. Character(f, "letter") = "lower" /\ Character(f, "sign") = "plain"
      BY <2>4 DEF Character, keyboard_map
    <3> QED BY <1>3, <1>6, <2>4, <3>1
  <2> QED BY <2>1, <2>2, <2>3, <2>4
<1>8. CharactersFollowKeys(s)
  BY <1>1, <1>2, <1>7 DEF CharactersFollowKeys, shifted
<1> QED BY <1>5, <1>8

(* The keys are those of a usual sequence.                                 *)
KeysInput == input.kind = "keys" => input.of[1] \in UsualEvents

(* The keyboard decodes every usual sequence of the run, whatever length   *)
(* the run allows (keyboard.c:129, :203).                                  *)
THEOREM DecodingHolds == MCSpec => []Decoding
<1>1. MCInit => KeysInput
  <2> SUFFICES ASSUME MCInit PROVE KeysInput
    OBVIOUS
  <2>1. input.kind # "keys" \/ \E events \in UsualEvents : Input("keys", <<events>>)
    BY DEF MCInit, Input
  <2>2. CASE input.kind # "keys"
    BY <2>2 DEF KeysInput
  <2>3. CASE \E events \in UsualEvents : Input("keys", <<events>>)
    BY <2>3 DEF KeysInput, Input
  <2> QED BY <2>1, <2>2, <2>3
<1>2. KeysInput /\ [MCNext]_<<vars, input>> => KeysInput'
  BY DEF KeysInput, MCNext
<1>3. KeysInput => Decoding
  <2>1. ASSUME NEW s \in UsualEvents PROVE s \in Seq(Events) /\ Usual(s)
    <3>1. Usual(s) /\ \E n \in 0 .. MaxEvents : s \in [1 .. n -> Events]
      BY DEF UsualEvents
    <3>2. PICK n \in 0 .. MaxEvents : s \in [1 .. n -> Events]
      BY <3>1
    <3>3. n \in Nat
      BY MaxEventsAssumption
    <3> QED BY <3>1, <3>2, <3>3, SeqDef
  <2> QED BY <2>1, KeyboardDecodes DEF KeysInput, Decoding
<1> QED BY <1>1, <1>2, <1>3, PTL DEF MCSpec
=============================================================================
