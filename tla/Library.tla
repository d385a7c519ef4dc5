------------------------------ MODULE Library ------------------------------
(***************************************************************************)
(* The library functions of FuzzyOS (lib.c) that the rest of the kernel    *)
(* relies on, the parsing of a command line and getargs (system_call.c).   *)
(* Memory is a function from addresses to bytes.  A C string is the        *)
(* sequence of its characters without the terminating NUL; a buffer has    *)
(* every byte of it.                                                       *)
(***************************************************************************)
EXTENDS Integers, Sequences, Folds, SequencesExt

CONSTANTS
  WordBits,    \* width of an int, a multiple of 4: 32
  MemBytes,    \* bytes of the memory in which copies are checked
  MaxString    \* length of the checked strings

ASSUME WordBitsAssumption == WordBits \in Nat \ {0} /\ WordBits % 4 = 0
ASSUME MemBytesAssumption == MemBytes \in Nat
ASSUME MaxStringAssumption == MaxString \in Nat

NUL == 0

-----------------------------------------------------------------------------
(* Memory *)

Least(a, b) == IF a < b THEN a ELSE b

(* One instruction that moves n bytes: it has read all of them before it   *)
(* writes.                                                                 *)
Move(m, dest, src, n) ==
  [a \in DOMAIN m |-> IF a \in dest .. dest + n - 1 THEN m[src + a - dest] ELSE m[a]]

Store(m, dest, bytes) ==
  [a \in DOMAIN m |-> IF a \in dest .. dest + Len(bytes) - 1 THEN bytes[a - dest + 1] ELSE m[a]]

(* Wrong on purpose: the rest of a count that is no multiple of 4 is lost. *)
ChunksWithoutTail(dest, n) ==
  LET head == Least(n, (4 - (dest % 4)) % 4)
  IN  [i \in 1 .. head |-> <<i - 1, 1>>]
        \o [i \in 1 .. (n - head) \div 4 |-> <<head + 4 * (i - 1), 4>>]

(* The offsets and sizes of the moves of memcpy and memset: bytes until    *)
(* dest is aligned, double words, and the bytes that are left.             *)
Chunks(dest, n) ==
  LET head   == Least(n, (4 - (dest % 4)) % 4)
      dwords == (n - head) \div 4
      tail   == (n - head) % 4
  IN  [i \in 1 .. head |-> <<i - 1, 1>>]
        \o [i \in 1 .. dwords |-> <<head + 4 * (i - 1), 4>>]
        \o [i \in 1 .. tail |-> <<n - tail + i - 1, 1>>]

memcpy(m, dest, src, n) ==
  FoldLeft(LAMBDA mem, c : Move(mem, dest + c[1], src + c[1], c[2]), m, Chunks(dest, n))

(* Upwards unless the source lies below the destination.                   *)
memmove(m, dest, src, n) ==
  FoldLeft(LAMBDA mem, i : Move(mem, dest + i, src + i, 1), m,
           [i \in 1 .. n |-> IF src >= dest THEN i - 1 ELSE n - i])

memset(m, s, c, n) ==
  FoldLeft(LAMBDA mem, k : Store(mem, s + k[1], [i \in 1 .. k[2] |-> c % 256]), m, Chunks(s, n))

memset_word(m, s, c, n) ==
  FoldLeft(LAMBDA mem, i : Store(mem, s + 2 * (i - 1), <<c % 256, (c \div 256) % 256>>), m,
           [i \in 1 .. n |-> i])

memset_dword(m, s, c, n) ==
  FoldLeft(LAMBDA mem, i : Store(mem, s + 4 * (i - 1),
             [k \in 1 .. 4 |-> (c \div 256 ^ (k - 1)) % 256]), m,
           [i \in 1 .. n |-> i])

(* What a copy should do, whatever the order of its moves.                 *)
Copied(m, dest, src, n) ==
  [a \in DOMAIN m |-> IF a \in dest .. dest + n - 1 THEN m[src + a - dest] ELSE m[a]]

(* A size, a destination and a source.                                     *)
Areas == {a \in (0 .. MemBytes) \X (0 .. MemBytes) \X (0 .. MemBytes) :
            a[2] + a[1] <= MemBytes /\ a[3] + a[1] <= MemBytes}
Bytes == [a \in 0 .. MemBytes - 1 |-> a]

(* memcpy is right for areas that do not overlap and for a destination     *)
(* below the source, which scroll_down relies on; memmove for all.         *)
MemcpyCopies(n, dest, src) ==
  (dest <= src \/ src + n <= dest) => memcpy(Bytes, dest, src, n) = Copied(Bytes, dest, src, n)

MemmoveCopies(n, dest, src) == memmove(Bytes, dest, src, n) = Copied(Bytes, dest, src, n)

MemsetFills(n, s) ==
  \A c \in {7, -1, 256} : memset(Bytes, s, c, n) = Store(Bytes, s, [i \in 1 .. n |-> c % 256])

-----------------------------------------------------------------------------
(* Numbers *)

(* 2 ^ n, as a function that the proofs can unfold.                        *)
TwoTo[n \in Nat] == IF n = 0 THEN 1 ELSE 2 * TwoTo[n - 1]

Word == 0 .. TwoTo[WordBits] - 1

Negative(w) == w >= TwoTo[WordBits - 1]

(* -value, of an int.                                                      *)
Minus(w) == (TwoTo[WordBits] - w) % TwoTo[WordBits]

(* Wrong on purpose: one swap too many, which undoes the last one.         *)
strrevTooFar(s) ==
  FoldLeft(LAMBDA r, beg : [r EXCEPT ![beg] = r[Len(s) + 1 - beg], ![Len(s) + 1 - beg] = r[beg]],
           s, [i \in 1 .. Least(Len(s), Len(s) \div 2 + 1) |-> i])

strrev(s) ==
  FoldLeft(LAMBDA r, beg : [r EXCEPT ![beg] = r[Len(s) + 1 - beg], ![Len(s) + 1 - beg] = r[beg]],
           s, [i \in 1 .. Len(s) \div 2 |-> i])

(* Digits from the lowest place value on, then reversed.                   *)
itoa(value, radix) ==
  LET lowest[v \in Nat] == IF v = 0 THEN <<>> ELSE <<v % radix>> \o lowest[v \div radix]
  IN  IF value = 0 THEN <<0>> ELSE strrev(lowest[value])

(* %#x: conv_buf is filled up with zeros in front of its middle.           *)
Padded(digits) == [i \in 1 .. WordBits \div 4 - Len(digits) |-> 0] \o digits

puts(s) == s

(* What keyboard_puts prints: the condition of its break is                *)
(* s[index == '\n'], with the comparison inside the brackets.              *)
keyboard_puts(s) ==
  LET breaks == {i \in 1 .. Len(s) : s[(IF i - 1 = 10 THEN 1 ELSE 0) + 1] # NUL}
  IN  IF breaks = {} THEN s
      ELSE SubSeq(s, 1, (CHOOSE i \in breaks : \A j \in breaks : i <= j) - 1)

(* printf, one character of the format after the other.  A format does not *)
(* end behind a %: printf would go on behind its NUL.                      *)
Conversion(p, c, w) ==
  CASE c = "x" /\ ~p.alternate -> puts(itoa(w, 16))
    [] c = "x" /\ p.alternate  -> puts(Padded(itoa(w, 16)))
    [] c = "u"                 -> puts(itoa(w, 10))
    [] c = "d" /\ Negative(w)  -> puts(<<"-">> \o itoa(Minus(w), 10))
    [] c = "d" /\ ~Negative(w) -> puts(itoa(w, 10))
    [] c = "c"                 -> <<w>>
    [] c = "s"                 -> puts(w)

Conversions == {"x", "u", "d", "c", "s"}

PrintfStep(p, c) ==
  CASE ~p.percent /\ c = "%" -> [p EXCEPT !.percent = TRUE, !.alternate = FALSE]
    [] ~p.percent /\ c # "%" -> [p EXCEPT !.out = Append(@, c)]
    [] p.percent /\ c = "#"  -> [p EXCEPT !.alternate = TRUE]
    [] p.percent /\ c = "%"  -> [p EXCEPT !.percent = FALSE, !.out = Append(@, "%")]
    [] p.percent /\ c \in Conversions ->
         [p EXCEPT !.percent = FALSE, !.out = @ \o Conversion(p, c, Head(p.args)), !.args = Tail(@)]
    [] OTHER -> [p EXCEPT !.percent = FALSE]

printf(format, args) ==
  FoldLeft(PrintfStep, [percent |-> FALSE, alternate |-> FALSE, args |-> args, out |-> <<>>], format).out

(* The number that a sequence of digits stands for.                        *)
Value(digits, radix) == FoldLeft(LAMBDA v, d : radix * v + d, 0, digits)

HexPrinted(w) ==
  LET hex  == printf(<<"%", "x">>, <<w>>)
      full == printf(<<"%", "#", "x">>, <<w>>)
  IN  /\ Value(hex, 16) = w /\ (w # 0 => hex[1] # 0)
      /\ Value(full, 16) = w /\ Len(full) = WordBits \div 4

DecimalPrinted(w) ==
  LET unsigned == printf(<<"%", "u">>, <<w>>)
      sign     == IF Negative(w) THEN <<"-">> ELSE <<>>
      absolute == printf(<<"%", "u">>, <<IF Negative(w) THEN TwoTo[WordBits] - w ELSE w>>)
  IN  /\ Value(unsigned, 10) = w
      /\ printf(<<"%", "d", "%", "%", "%", "q", "%", "u">>, <<w, w>>)
           = sign \o absolute \o <<"%">> \o unsigned

-----------------------------------------------------------------------------
(* Strings.  A character is a small number, so that it can be compared.    *)

strlen(buf) == CHOOSE n \in 0 .. Len(buf) : buf[n + 1] = NUL /\ \A i \in 1 .. n : buf[i] # NUL

(* A string in memory.                                                     *)
C(s) == Append(s, NUL)

Text(buf) == SubSeq(buf, 1, strlen(buf))

strncmp(s1, s2, n) ==
  LET stops == {i \in 1 .. n : /\ i <= Len(s1) /\ i <= Len(s2)
                               /\ s1[i] # s2[i] \/ s1[i] = NUL}
  IN  IF stops = {} THEN 0
      ELSE LET i == CHOOSE k \in stops : \A j \in stops : k <= j IN s1[i] - s2[i]

strcpy(dest, src) ==
  [i \in DOMAIN dest |-> IF i <= strlen(src) THEN src[i]
                         ELSE IF i = strlen(src) + 1 THEN NUL ELSE dest[i]]

strncpy(dest, src, n) ==
  [i \in DOMAIN dest |-> IF i <= n THEN (IF i <= strlen(src) THEN src[i] ELSE NUL) ELSE dest[i]]

(* The first word of a command line and what follows it.                   *)
SPACE == 32

SkipSpaces(s) ==
  LET n == CHOOSE k \in 0 .. Len(s) :
             /\ \A i \in 1 .. k : s[i] = SPACE
             /\ k < Len(s) => s[k + 1] # SPACE
  IN  SubSeq(s, n + 1, Len(s))

WordLength(s) ==
  CHOOSE k \in 0 .. Len(s) : (\A i \in 1 .. k : s[i] # SPACE) /\ (k < Len(s) => s[k + 1] = SPACE)

ParseCommand(command) ==
  LET rest == SkipSpaces(command)
      n    == WordLength(rest)
  IN  [command |-> SubSeq(rest, 1, n), args |-> SkipSpaces(SubSeq(rest, n + 1, Len(rest)))]

(* Wrong on purpose: an argument as long as the buffer is refused.         *)
getargsTooShort(params, buf, nbytes) ==
  IF params = <<>> \/ Len(params) >= nbytes THEN [result |-> -1, buf |-> buf]
  ELSE [result |-> 0, buf |-> strncpy(buf, C(params), nbytes)]

getargs(params, buf, nbytes) ==
  IF params = <<>> \/ Len(params) > nbytes THEN [result |-> -1, buf |-> buf]
  ELSE [result |-> 0, buf |-> strncpy(buf, C(params), nbytes)]

StringsOver(chars, n) == UNION {[1 .. k -> chars] : k \in 0 .. n}

Spaces(s) == \A i \in 1 .. Len(s) : s[i] = SPACE

(* s is spaces, the command, spaces, the arguments.                        *)
Splits(s, p) ==
  \E i, j \in 0 .. Len(s) :
    LET k == i + Len(p.command)
    IN  /\ k <= j
        /\ Spaces(SubSeq(s, 1, i)) /\ SubSeq(s, i + 1, k) = p.command
        /\ Spaces(SubSeq(s, k + 1, j)) /\ SubSeq(s, j + 1, Len(s)) = p.args
        /\ p.args # <<>> => j > k

CommandParsed(s) ==
  LET p == ParseCommand(s)
  IN  /\ Splits(s, p)
      /\ \A i \in 1 .. Len(p.command) : p.command[i] # SPACE
      /\ p.args # <<>> => p.args[1] # SPACE /\ p.command # <<>>

Commands == StringsOver({SPACE, 65}, MaxString + 2)

Strings == StringsOver({65, 66}, MaxString)
Prefix(s, n) == SubSeq(s, 1, Least(n, Len(s)))
Before(a, b) ==
  \E k \in 0 .. Len(a) : /\ k < Len(b) /\ Prefix(a, k) = Prefix(b, k)
                         /\ k = Len(a) \/ a[k + 1] < b[k + 1]

(* Comparing up to n characters is comparing the prefixes.                 *)
StringsCompared(s, r, n) ==
  LET d == strncmp(C(s), C(r), n)
  IN  /\ d = 0 <=> Prefix(s, n) = Prefix(r, n)
      /\ d < 0 <=> Before(Prefix(s, n), Prefix(r, n))

(* Through the pcb into a buffer of n bytes.                               *)
ArgumentsDelivered(s, n) ==
  LET Old == [i \in 1 .. MaxString + 2 |-> 9]
      got == getargs(Text(strcpy(Old, C(s))), Old, n)
  IN  /\ got.result = 0 <=> s # <<>> /\ Len(s) <= n
      /\ got.result = 0 => Prefix(got.buf, Len(s)) = s
      /\ got.result = 0 /\ Len(s) < n => Text(got.buf) = s
      /\ \A i \in n + 1 .. MaxString + 2 : got.buf[i] = Old[i]
=============================================================================
