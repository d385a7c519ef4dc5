--------------------------- MODULE LibraryProofs ---------------------------
(***************************************************************************)
(* Proofs about module Library: memcpy, memmove and memset for memories,   *)
(* sizes and alignments of every kind, the functions on strings for        *)
(* strings of every length, and the printing of numbers for words of every *)
(* width.  The loops of the first three are folds, which the first part    *)
(* makes runs of steps, for induction.                                     *)
(***************************************************************************)
EXTENDS Library, InductionProofs, SequenceTheorems

-----------------------------------------------------------------------------
(* Part 1.  Folds.  A fold is a function on the sets of positions; its run *)
(* is the sequence of its values on 1 .. 0, 1 .. 1, and so on.             *)

(* The largest element of a set of positions.                              *)
LEMMA MaxOf ==
  ASSUME NEW n \in Nat, NEW q \in SUBSET (1 .. n), q # {}
  PROVE  Max(q) \in q /\ \A y \in q : Max(q) >= y
<1> DEFINE B == {m \in Nat : \A y \in q : m >= y}
<1>1. n \in B
  OBVIOUS
<1>2. PICK m \in B : \A k \in B : m <= k
  BY <1>1, LeastNatural
<1>3. m \in q
  <2>1. ASSUME m \notin q PROVE FALSE
    <3>1. \A y \in q : y \in Nat \ {0} /\ m >= y /\ m # y
      BY <1>2, <2>1
    <3>2. m \in Nat \ {0}
      <4>1. m \in Nat
        BY <1>2
      <4>2. PICK y \in q : TRUE
        OBVIOUS
      <4> QED BY <3>1, <4>1, <4>2
    <3>3. m - 1 \in B
      BY <3>1, <3>2
    <3> QED BY <1>2, <3>2, <3>3
  <2> QED BY <2>1
<1>4. \E x \in q : \A y \in q : x >= y
  BY <1>2, <1>3
<1> QED BY <1>4 DEF Max

(* The positions that a fold has behind it.                                *)
LEMMA MaxInterval ==
  ASSUME NEW n \in Nat, NEW k \in 1 .. n
  PROVE  /\ Max(1 .. k) = k /\ (1 .. k) \ {k} = 1 .. k - 1
         /\ 1 .. k \in SUBSET (1 .. n) /\ 1 .. k # {}
<1>1. 1 .. k \in SUBSET (1 .. n) /\ 1 .. k # {} /\ k \in 1 .. k
  OBVIOUS
<1>2. Max(1 .. k) \in 1 .. k /\ Max(1 .. k) >= k
  BY <1>1, MaxOf
<1> QED BY <1>1, <1>2

(* A fold over the positions 1 .. n: it starts with a, and every step      *)
(* stays within a set.                                                     *)
Steps(step, n, T) == \A k \in 1 .. n : \A v \in T : step[k][v] \in T

IsFold(f, a, n, step, T) ==
  /\ f \in [SUBSET (1 .. n) -> T] /\ f[{}] = a
  /\ \A q \in SUBSET (1 .. n) : q # {} => f[q] = step[Max(q)][f[q \ {Max(q)}]]

(* Such a fold exists.                                                     *)
LEMMA FoldExists ==
  ASSUME NEW T, NEW a \in T, NEW n \in Nat, NEW step, Steps(step, n, T)
  PROVE  \E f : IsFold(f, a, n, step, T)
<1> USE DEF Steps
<1> DEFINE Is(f, k) == \A q \in SUBSET (1 .. k) :
                             f[q] = IF q = {} THEN a ELSE step[Max(q)][f[q \ {Max(q)}]]
           S == {k \in Nat : k <= n => \E f \in [SUBSET (1 .. k) -> T] : Is(f, k)}
<1>1. 0 \in S
  <2> DEFINE f == [q \in SUBSET (1 .. 0) |-> a]
  <2>1. f \in [SUBSET (1 .. 0) -> T]
    OBVIOUS
  <2>2. \A q \in SUBSET (1 .. 0) : q = {}
    OBVIOUS
  <2>3. Is(f, 0)
    BY <2>2
  <2> QED BY <2>1, <2>3
<1>2. ASSUME NEW k \in Nat, k \in S, k + 1 <= n PROVE \E f \in [SUBSET (1 .. k + 1) -> T] : Is(f, k + 1)
  <2>1. PICK f \in [SUBSET (1 .. k) -> T] : Is(f, k)
    <3>1. k <= n
      BY <1>2
    <3> HIDE DEF Is
    <3> QED BY <1>2, <3>1
  <2>2. PICK g : g = [q \in SUBSET (1 .. k + 1) |->
                        IF k + 1 \in q THEN step[k + 1][f[q \ {k + 1}]] ELSE f[q]]
    OBVIOUS
  <2>3. \A q \in SUBSET (1 .. k + 1) : /\ q \ {k + 1} \in SUBSET (1 .. k)
                                       /\ k + 1 \notin q => q \in SUBSET (1 .. k)
    OBVIOUS
  <2>4. \A v \in T : step[k + 1][v] \in T
    <3>1. k + 1 \in 1 .. n
      BY <1>2
    <3> QED BY <3>1
  <2>5. g \in [SUBSET (1 .. k + 1) -> T]
    BY <2>1, <2>2, <2>3, <2>4
  <2>6. ASSUME NEW q \in SUBSET (1 .. k + 1), q # {}
        PROVE  g[q] = step[Max(q)][g[q \ {Max(q)}]]
    <3>1. Max(q) \in q /\ (\A y \in q : Max(q) >= y) /\ Max(q) \in 1 .. k + 1
      <4>1. k + 1 \in Nat
        OBVIOUS
      <4>2. Max(q) \in q /\ \A y \in q : Max(q) >= y
        BY <2>6, <4>1, MaxOf
      <4> QED BY <4>2
    <3>2. CASE k + 1 \in q
      <4>1. Max(q) = k + 1
        BY <3>1, <3>2
      <4>2. q \ {k + 1} \in SUBSET (1 .. k + 1) /\ k + 1 \notin q \ {k + 1}
        OBVIOUS
      <4>3. g[q \ {k + 1}] = f[q \ {k + 1}]
        BY <2>2, <4>2
      <4> QED BY <2>2, <3>2, <4>1, <4>3
    <3>3. CASE k + 1 \notin q
      <4>1. q \in SUBSET (1 .. k) /\ q \ {Max(q)} \in SUBSET (1 .. k + 1)
        BY <2>3, <3>3
      <4>2. g[q] = f[q] /\ g[q \ {Max(q)}] = f[q \ {Max(q)}]
        BY <2>2, <3>3, <4>1
      <4>3. f[q] = step[Max(q)][f[q \ {Max(q)}]]
        BY <2>1, <2>6, <4>1
      <4> QED BY <4>2, <4>3
    <3> QED BY <3>2, <3>3
  <2>7. g[{}] = a
    <3>1. {} \in SUBSET (1 .. k + 1) /\ {} \in SUBSET (1 .. k) /\ k + 1 \notin {}
      OBVIOUS
    <3>2. f[{}] = a
      BY <2>1, <3>1
    <3> QED BY <2>2, <3>1, <3>2
  <2>8. Is(g, k + 1)
    BY <2>6, <2>7
  <2> QED BY <2>5, <2>8
<1>3. ASSUME NEW k \in Nat, k \in S PROVE k + 1 \in S
  <2>1. k + 1 <= n => \E f \in [SUBSET (1 .. k + 1) -> T] : Is(f, k + 1)
    BY <1>2, <1>3
  <2>2. PICK j \in Nat : j = k + 1
    OBVIOUS
  <2>3. j <= n => \E f \in [SUBSET (1 .. j) -> T] : Is(f, j)
    BY <2>1, <2>2
  <2> HIDE DEF Is
  <2>4. j \in S
    BY <2>3
  <2> QED BY <2>2, <2>4
<1> HIDE DEF S
<1>4. \A k \in Nat : k \in S
  BY <1>1, <1>3, Induction
<1> HIDE DEF Is
<1>5. \E f \in [SUBSET (1 .. n) -> T] : Is(f, n)
  <2>1. n \in S /\ n <= n
    BY <1>4
  <2> QED BY <2>1 DEF S
<1>6. PICK f \in [SUBSET (1 .. n) -> T] : Is(f, n)
  BY <1>5
<1>7. {} \in SUBSET (1 .. n)
  OBVIOUS
<1> QED BY <1>6, <1>7 DEF Is, IsFold

(* A run of steps.                                                         *)
IsRun(r, a, n, step, T) ==
  /\ r \in [0 .. n -> T] /\ r[0] = a
  /\ \A k \in 1 .. n : r[k] = step[k][r[k - 1]]

(* What follows the steps as long as it is in the set.                     *)
Follows(g, a, n, step, T) ==
  /\ g[{}] = a
  /\ \A k \in 1 .. n : g[1 .. k - 1] \in T => g[1 .. k] = step[k][g[1 .. k - 1]]

(* It is in the set, and makes a run.                                      *)
LEMMA FoldRun ==
  ASSUME NEW T, NEW a \in T, NEW n \in Nat, NEW step, Steps(step, n, T),
         NEW g, Follows(g, a, n, step, T)
  PROVE  \E r : IsRun(r, a, n, step, T) /\ r[n] = g[1 .. n]
<1> DEFINE S == {k \in Nat : k <= n => g[1 .. k] \in T}
<1>1. 1 .. 0 = {} /\ g[{}] = a
  BY DEF Follows
<1>2. 0 \in S
  BY <1>1
<1>3. ASSUME NEW k \in Nat, k \in S PROVE k + 1 \in S
  <2>1. PICK j : j = k + 1
    OBVIOUS
  <2>2. j \in Nat /\ j - 1 = k
    BY <2>1
  <2>3. ASSUME j <= n PROVE g[1 .. j] \in T
    <3>1. j \in 1 .. n /\ k <= n
      BY <2>1, <2>2, <2>3
    <3>2. g[1 .. k] \in T
      BY <1>3, <3>1
    <3>3. g[1 .. j] = step[j][g[1 .. k]]
      BY <2>2, <3>1, <3>2 DEF Follows
    <3> QED BY <3>1, <3>2, <3>3 DEF Steps
  <2> QED BY <2>1, <2>2, <2>3
<1> HIDE DEF S
<1>4. \A k \in Nat : k \in S
  BY <1>2, <1>3, Induction
<1>5. \A k \in 0 .. n : g[1 .. k] \in T
  BY <1>4 DEF S
<1>6. PICK r : r = [k \in 0 .. n |-> g[1 .. k]]
  OBVIOUS
<1>7. r \in [0 .. n -> T] /\ r[0] = a /\ r[n] = g[1 .. n]
  BY <1>1, <1>5, <1>6
<1>8. \A k \in 1 .. n : r[k] = step[k][r[k - 1]]
  <2>1. \A k \in 1 .. n : k \in 0 .. n /\ k - 1 \in 0 .. n
    OBVIOUS
  <2>2. \A k \in 1 .. n : r[k] = g[1 .. k] /\ r[k - 1] = g[1 .. k - 1] /\ g[1 .. k - 1] \in T
    BY <1>5, <1>6, <2>1
  <2>3. \A k \in 1 .. n : g[1 .. k] = step[k][g[1 .. k - 1]]
    BY <2>2 DEF Follows
  <2> QED BY <2>2, <2>3
<1> QED BY <1>7, <1>8 DEF IsRun

-----------------------------------------------------------------------------
(* Part 2.  memcpy.                                                        *)

(* Chunks that cut 0 .. n at the places of cut.                            *)
ChunksAt(c, l, cut, n) ==
  /\ DOMAIN c = 1 .. l
  /\ cut \in [0 .. l -> 0 .. n] /\ cut[0] = 0 /\ cut[l] = n
  /\ \A k \in 1 .. l : /\ c[k][1] = cut[k - 1] /\ c[k][2] = cut[k] - cut[k - 1]
                       /\ cut[k - 1] <= cut[k]

(* The chunks of a copy follow one another: the next one begins where      *)
(* those before it end.                                                    *)
LEMMA ChunksFollow ==
  ASSUME NEW dest \in Nat, NEW n \in Nat
  PROVE  \E l \in Nat : \E cut : ChunksAt(Chunks(dest, n), l, cut, n)
<1>1. PICK c : c = Chunks(dest, n)
  OBVIOUS
<1>2. PICK h \in Nat : h = Least(n, (4 - (dest % 4)) % 4) /\ h <= n
  BY DEF Least
<1>3. PICK d \in Nat, t \in Nat : /\ d = (n - h) \div 4 /\ t = (n - h) % 4
                                  /\ h + 4 * d + t = n
  <2>1. PICK l \in Nat : l = n - h
    BY <1>2
  <2>2. l \div 4 \in Nat /\ l % 4 \in Nat /\ 4 * (l \div 4) + (l % 4) = l
    OBVIOUS
  <2> QED BY <2>1, <2>2
<1>4. PICK a : a = [i \in 1 .. h |-> <<i - 1, 1>>]
  OBVIOUS
<1>5. PICK b : b = [i \in 1 .. d |-> <<h + 4 * (i - 1), 4>>]
  OBVIOUS
<1>6. PICK e : e = [i \in 1 .. t |-> <<n - t + i - 1, 1>>]
  OBVIOUS
<1>7. PICK P : P = Nat \X Nat
  OBVIOUS
<1>8. c = a \o b \o e
  BY <1>2, <1>3, <1>4, <1>5, <1>6, <1>1, Zenon DEF Chunks
<1>9. /\ a \in Seq(P) /\ Len(a) = h
      /\ b \in Seq(P) /\ Len(b) = d
      /\ e \in Seq(P) /\ Len(e) = t
  <2>1. a \in [1 .. h -> P]
    BY <1>4, <1>7
  <2>2. b \in [1 .. d -> P]
    BY <1>5, <1>7
  <2>3. e \in [1 .. t -> P]
    BY <1>3, <1>6, <1>7
  <2>4. a \in Seq(P) /\ b \in Seq(P) /\ e \in Seq(P)
    BY <2>1, <2>2, <2>3, SeqDef
  <2> QED BY <2>1, <2>2, <2>3, <2>4, LenProperties
<1>10. PICK u : u = a \o b
  OBVIOUS
<1>11. /\ u \in Seq(P) /\ Len(u) = h + d
      /\ \A i \in 1 .. h + d : u[i] = IF i <= h THEN a[i] ELSE b[i - h]
  BY <1>9, <1>10, ConcatProperties
<1>12. /\ c \in Seq(P) /\ Len(c) = h + d + t
       /\ \A i \in 1 .. h + d + t : c[i] = IF i <= h + d THEN u[i] ELSE e[i - (h + d)]
  <2>1. c = u \o e
    BY <1>8, <1>10, Zenon
  <2>2. PICK w \in Nat : w = h + d /\ Len(u) = w
    BY <1>11
  <2>3. /\ c \in Seq(P) /\ Len(c) = Len(u) + Len(e)
        /\ \A i \in 1 .. Len(u) + Len(e) : c[i] = IF i <= Len(u) THEN u[i] ELSE e[i - Len(u)]
    <3>1. u \in Seq(P) /\ e \in Seq(P)
      BY <1>9, <1>11, Zenon
    <3>2. /\ u \o e \in Seq(P) /\ Len(u \o e) = Len(u) + Len(e)
          /\ \A i \in 1 .. Len(u) + Len(e) :
               (u \o e)[i] = IF i <= Len(u) THEN u[i] ELSE e[i - Len(u)]
      BY <3>1, ConcatProperties
    <3> QED BY <2>1, <3>2, Zenon
  <2> QED BY <1>9, <2>2, <2>3
<1>13. ASSUME NEW k \in 1 .. h + d + t
       PROVE  /\ k <= h => c[k][1] = k - 1 /\ c[k][2] = 1
              /\ k > h /\ k <= h + d => c[k][1] = h + 4 * (k - h - 1) /\ c[k][2] = 4
              /\ k > h + d => c[k][1] = n - t + (k - (h + d)) - 1 /\ c[k][2] = 1
  <2>1. CASE k <= h
    <3>1. k \in 1 .. h /\ k \in 1 .. h + d /\ k <= h + d
      BY <2>1
    <3>2. c[k] = a[k]
      BY <1>11, <1>12, <2>1, <3>1
    <3>3. a[k] = <<k - 1, 1>>
      BY <1>4, <3>1
    <3> QED BY <2>1, <3>1, <3>2, <3>3
  <2>2. CASE k > h /\ k <= h + d
    <3>1. PICK i \in 1 .. d : i = k - h
      BY <2>2
    <3>2. k \in 1 .. h + d /\ ~(k <= h)
      BY <2>2
    <3>3. c[k] = b[i]
      BY <1>11, <1>12, <2>2, <3>1, <3>2
    <3>4. b[i] = <<h + 4 * (i - 1), 4>>
      BY <1>5
    <3> QED BY <2>2, <3>1, <3>2, <3>3, <3>4
  <2>3. CASE k > h + d
    <3>1. PICK i \in 1 .. t : i = k - (h + d)
      BY <2>3
    <3>2. ~(k <= h + d) /\ ~(k <= h)
      BY <2>3
    <3>3. c[k] = e[i]
      BY <1>12, <3>1, <3>2
    <3>4. e[i] = <<n - t + i - 1, 1>>
      BY <1>6
    <3> QED BY <3>1, <3>2, <3>3, <3>4
  <2> QED BY <2>1, <2>2, <2>3
<1>14. PICK cut : cut = [k \in 0 .. h + d + t |->
                           IF k <= h THEN k
                           ELSE IF k <= h + d THEN h + 4 * (k - h)
                           ELSE n - t + (k - (h + d))]
  OBVIOUS
<1>15. ASSUME NEW k \in 0 .. h + d + t
       PROVE  /\ k <= h => cut[k] = k
              /\ k > h /\ k <= h + d => cut[k] = h + 4 * (k - h)
              /\ k > h + d => cut[k] = n - t + (k - (h + d))
              /\ cut[k] \in 0 .. n
  <2>1. CASE k <= h
    <3>1. cut[k] = k
      BY <1>14, <2>1
    <3> QED BY <1>2, <2>1, <3>1
  <2>2. CASE k > h /\ k <= h + d
    <3>1. cut[k] = h + 4 * (k - h)
      BY <1>14, <2>2
    <3> QED BY <1>3, <2>2, <3>1
  <2>3. CASE k > h + d
    <3>1. cut[k] = n - t + (k - (h + d))
      BY <1>14, <2>3
    <3> QED BY <1>3, <2>3, <3>1
  <2> QED BY <2>1, <2>2, <2>3
<1>16. cut \in [0 .. h + d + t -> 0 .. n]
  BY <1>14, <1>15
<1>17. cut[0] = 0 /\ cut[h + d + t] = n
  <2>1. cut[0] = 0
    BY <1>15
  <2>2. cut[h + d + t] = n
    BY <1>3, <1>15
  <2> QED BY <2>1, <2>2
<1>18. ASSUME NEW k \in 1 .. h + d + t
       PROVE  c[k][1] = cut[k - 1] /\ cut[k] = cut[k - 1] + c[k][2]
  <2>1. PICK j \in 0 .. h + d + t : j = k - 1 /\ k \in 1 .. h + d + t /\ k \in 0 .. h + d + t
    OBVIOUS
  <2>2. CASE k <= h
    BY <1>13, <1>15, <2>1, <2>2
  <2>3. CASE k > h /\ k <= h + d
    BY <1>13, <1>15, <2>1, <2>3
  <2>4. CASE k > h + d
    <3>1. cut[j] = n - t + (j - (h + d))
      <4>1. CASE j > h + d
        BY <1>15, <4>1
      <4>2. CASE j <= h
        <5>1. j = h /\ d = 0 /\ cut[j] = j
          BY <1>15, <2>1, <2>4, <4>2
        <5> QED BY <1>3, <5>1
      <4>3. CASE j > h /\ j <= h + d
        <5>1. j = h + d /\ cut[j] = h + 4 * (j - h)
          BY <1>15, <2>1, <2>4, <4>3
        <5> QED BY <1>3, <5>1
      <4> QED BY <4>1, <4>2, <4>3
    <3>2. cut[k] = n - t + (k - (h + d)) /\ c[k][1] = n - t + (k - (h + d)) - 1 /\ c[k][2] = 1
      BY <1>13, <1>15, <2>1, <2>4
    <3> QED BY <2>1, <3>1, <3>2
  <2> QED BY <2>1, <2>2, <2>3, <2>4
<1>19. DOMAIN c = 1 .. h + d + t
  BY <1>12, LenProperties
<1>20. \A k \in 1 .. h + d + t : cut[k - 1] \in 0 .. n /\ cut[k] \in 0 .. n
  <2>1. \A k \in 1 .. h + d + t : k \in 0 .. h + d + t /\ k - 1 \in 0 .. h + d + t
    OBVIOUS
  <2> QED BY <1>16, <2>1
<1>21. ASSUME NEW k \in 1 .. h + d + t
       PROVE  c[k][1] = cut[k - 1] /\ c[k][2] = cut[k] - cut[k - 1] /\ cut[k - 1] <= cut[k]
  <2>1. PICK x \in Nat, y \in Nat : x = cut[k - 1] /\ y = cut[k]
    BY <1>20
  <2>2. c[k][2] \in Nat
    BY <1>13
  <2>3. c[k][1] = x /\ y = x + c[k][2]
    BY <1>18, <2>1
  <2> QED BY <2>1, <2>2, <2>3
<1>22. PICK l \in Nat : l = h + d + t
  OBVIOUS
<1>23. ChunksAt(c, l, cut, n)
  BY <1>16, <1>17, <1>19, <1>21, <1>22 DEF ChunksAt
<1> QED BY <1>1, <1>23

(* A move within the memory keeps it one.                                  *)
LEMMA MoveTyped ==
  ASSUME NEW D, D \subseteq Int, NEW V, NEW m \in [D -> V],
         NEW dest \in Int, NEW src \in Int, NEW n \in Nat, src .. src + n - 1 \subseteq D
  PROVE  Move(m, dest, src, n) \in [D -> V]
<1>1. ASSUME NEW a \in D, a \in dest .. dest + n - 1 PROVE m[src + a - dest] \in V
  <2>1. src + a - dest \in src .. src + n - 1
    BY <1>1
  <2> QED BY <2>1
<1> QED BY <1>1 DEF Move

(* The moves of a copy, chunk by chunk.                                    *)
IsCopy(r, m, l, cut, dest, src) ==
  /\ r[0] = m
  /\ \A k \in 1 .. l :
       r[k] = Move(r[k - 1], dest + cut[k - 1], src + cut[k - 1], cut[k] - cut[k - 1])

(* It ends with v.                                                         *)
CopiesTo(v, m, dest, src, n) ==
  \E l \in Nat : \E c, cut, r :
    ChunksAt(c, l, cut, n) /\ IsCopy(r, m, l, cut, dest, src) /\ r[l] = v

(* memcpy moves one chunk after the other.                                 *)
LEMMA MemcpyRun ==
  ASSUME NEW D, NEW V, NEW m \in [D -> V],
         NEW dest \in Nat, NEW src \in Nat, NEW n \in Nat, src .. src + n - 1 \subseteq D,
         D \subseteq Int
  PROVE  CopiesTo(memcpy(m, dest, src, n), m, dest, src, n)
<1>1. PICK l \in Nat : \E cut : ChunksAt(Chunks(dest, n), l, cut, n)
  BY ChunksFollow
<1>2. PICK cut : ChunksAt(Chunks(dest, n), l, cut, n)
  BY <1>1
<1>3. PICK c : c = Chunks(dest, n)
  OBVIOUS
<1>4. PICK T : T = [D -> V]
  OBVIOUS
<1> DEFINE op(v, k) == Move(v, dest + c[k][1], src + c[k][1], c[k][2])
<1>5. ASSUME NEW k \in 1 .. l
      PROVE  /\ cut[k - 1] \in 0 .. n /\ cut[k] \in 0 .. n /\ cut[k - 1] <= cut[k]
             /\ c[k][1] = cut[k - 1] /\ c[k][2] = cut[k] - cut[k - 1]
  <2>1. k \in 0 .. l /\ k - 1 \in 0 .. l
    OBVIOUS
  <2>2. cut[k - 1] \in 0 .. n /\ cut[k] \in 0 .. n
    BY <1>2, <2>1 DEF ChunksAt
  <2> QED BY <1>2, <1>3, <2>2 DEF ChunksAt
<1>6. ASSUME NEW k \in 1 .. l, NEW v \in T PROVE op(v, k) \in T
  <2>1. PICK o \in Nat, w \in Nat : o = c[k][1] /\ w = c[k][2] /\ o + w <= n
    BY <1>5
  <2>2. PICK x \in Int, y \in Int : x = dest + o /\ y = src + o
    OBVIOUS
  <2>3. y .. y + w - 1 \subseteq D
    BY <2>1, <2>2
  <2>4. Move(v, x, y, w) \in [D -> V]
    BY <1>4, <2>3, MoveTyped
  <2> QED BY <1>4, <2>1, <2>2, <2>4
<1>7. PICK step : step = [k \in 1 .. l |-> [v \in T |-> op(v, k)]]
  OBVIOUS
<1>8. \A k \in 1 .. l : \A v \in T : op(v, k) \in T
  BY <1>6
<1> HIDE DEF op
<1>9. \A k \in 1 .. l : \A v \in T : step[k][v] = op(v, k)
  BY <1>7
<1>10. Steps(step, l, T)
  BY <1>8, <1>9 DEF Steps
<1>11. m \in T
  BY <1>4
<1>12. PICK f : IsFold(f, m, l, step, T)
  BY <1>10, <1>11, FoldExists
<1> DEFINE Is(g) == g = [q \in SUBSET (1 .. l) |-> IF q = {} THEN m ELSE op(g[q \ {Max(q)}], Max(q))]
<1>13. Is(f)
  <2>1. f \in [SUBSET (1 .. l) -> T] /\ f[{}] = m
    BY <1>12 DEF IsFold
  <2>2. ASSUME NEW q \in SUBSET (1 .. l), q # {}
        PROVE  f[q] = op(f[q \ {Max(q)}], Max(q))
    <3>1. Max(q) \in 1 .. l /\ q \ {Max(q)} \in SUBSET (1 .. l)
      BY <2>2, MaxOf
    <3>2. f[q \ {Max(q)}] \in T
      BY <2>1, <3>1
    <3>3. f[q] = step[Max(q)][f[q \ {Max(q)}]]
      BY <1>12, <2>2 DEF IsFold
    <3> QED BY <1>9, <3>1, <3>2, <3>3
  <2>3. \A q \in SUBSET (1 .. l) : f[q] = IF q = {} THEN m ELSE op(f[q \ {Max(q)}], Max(q))
    BY <2>1, <2>2, Zenon
  <2>4. f = [q \in SUBSET (1 .. l) |-> f[q]]
    BY <2>1
  <2> QED BY <2>3, <2>4, Zenon
<1>14. DOMAIN c = 1 .. l
  BY <1>2, <1>3 DEF ChunksAt
<1>15. memcpy(m, dest, src, n) = (CHOOSE g : Is(g))[1 .. l]
  BY <1>3, <1>14, Zenon DEF memcpy, FoldLeft, MapThenFoldSet, op
<1>16. PICK g : Is(g) /\ memcpy(m, dest, src, n) = g[1 .. l]
  BY <1>13, <1>15
<1>17. g[{}] = m /\ \A k \in 1 .. l : g[1 .. k] = op(g[1 .. k - 1], k)
  <2>1. g[{}] = m
    BY <1>16
  <2>2. ASSUME NEW k \in 1 .. l PROVE g[1 .. k] = op(g[1 .. k - 1], k)
    <3>1. /\ Max(1 .. k) = k /\ (1 .. k) \ {k} = 1 .. k - 1
          /\ 1 .. k \in SUBSET (1 .. l) /\ 1 .. k # {}
      BY MaxInterval
    <3> QED BY <1>16, <3>1
  <2> QED BY <2>1, <2>2
<1>18. Follows(g, m, l, step, T)
  BY <1>9, <1>17 DEF Follows
<1>19. PICK r : IsRun(r, m, l, step, T) /\ r[l] = g[1 .. l]
  BY <1>10, <1>11, <1>18, FoldRun
<1>20. r \in [0 .. l -> T] /\ r[0] = m
  BY <1>19 DEF IsRun
<1>21. ASSUME NEW k \in 1 .. l
       PROVE  r[k] = Move(r[k - 1], dest + cut[k - 1], src + cut[k - 1], cut[k] - cut[k - 1])
  <2>1. k - 1 \in 0 .. l
    OBVIOUS
  <2>2. r[k] = op(r[k - 1], k)
    BY <1>9, <1>19, <1>20, <2>1 DEF IsRun
  <2> QED BY <1>5, <2>2 DEF op
<1>22. IsCopy(r, m, l, cut, dest, src)
  BY <1>20, <1>21 DEF IsCopy
<1>23. ChunksAt(c, l, cut, n) /\ r[l] = memcpy(m, dest, src, n)
  BY <1>2, <1>3, <1>16, <1>19
<1> QED BY <1>22, <1>23 DEF CopiesTo

(* A memory with the n bytes from src on.                                  *)
Within(D, m, src, n) == D \subseteq Int /\ DOMAIN m = D /\ src .. src + n - 1 \subseteq D

(* The move that continues a copy from its first p bytes to its first q.   *)
Continues(m, dest, src, p, q) ==
  Move(Copied(m, dest, src, p), dest + p, src + p, q - p) = Copied(m, dest, src, q)

(* A chunk that is read from what no chunk before it has overwritten: the  *)
(* destination lies below the source or behind it.                         *)
LEMMA MoveCopied ==
  ASSUME NEW D, NEW m, NEW dest \in Nat, NEW src \in Nat, NEW n \in Nat, Within(D, m, src, n),
         dest <= src \/ src + n <= dest,
         NEW p \in 0 .. n, NEW q \in 0 .. n, p <= q
  PROVE  Continues(m, dest, src, p, q)
<1>0. D \subseteq Int /\ DOMAIN m = D /\ src .. src + n - 1 \subseteq D
  BY DEF Within
<1> USE <1>0
<1>1. PICK c : c = Copied(m, dest, src, p)
  OBVIOUS
<1>2. DOMAIN c = D /\ \A a \in D : c[a] = IF a \in dest .. dest + p - 1 THEN m[src + a - dest] ELSE m[a]
  BY <1>1 DEF Copied
<1>3. ASSUME NEW a \in D
      PROVE  (IF a \in dest + p .. dest + p + (q - p) - 1 THEN c[src + p + a - (dest + p)] ELSE c[a])
               = (IF a \in dest .. dest + q - 1 THEN m[src + a - dest] ELSE m[a])
  <2>0. a \in Int
    OBVIOUS
  <2>1. CASE a \in dest + p .. dest + q - 1
    <3>1. PICK b \in Int : b = src + a - dest
      BY <2>0
    <3>2. b \in src .. src + n - 1 /\ b \notin dest .. dest + p - 1
      BY <2>0, <2>1, <3>1
    <3>3. c[b] = m[b]
      BY <1>2, <3>2
    <3>4. src + p + a - (dest + p) = b /\ dest + p + (q - p) - 1 = dest + q - 1
      BY <2>0, <3>1
    <3>5. a \in dest .. dest + q - 1
      BY <2>0, <2>1
    <3> QED BY <2>1, <3>1, <3>3, <3>4, <3>5
  <2>2. CASE a \notin dest + p .. dest + q - 1
    <3>1. dest + p + (q - p) - 1 = dest + q - 1
      OBVIOUS
    <3>2. a \in dest .. dest + p - 1 <=> a \in dest .. dest + q - 1
      BY <2>0, <2>2
    <3> QED BY <1>2, <2>2, <3>1, <3>2
  <2> QED BY <2>1, <2>2
<1>4. Move(c, dest + p, src + p, q - p)
        = [a \in D |-> IF a \in dest + p .. dest + p + (q - p) - 1
                       THEN c[src + p + a - (dest + p)] ELSE c[a]]
  BY <1>2 DEF Move
<1>5. Copied(m, dest, src, q) = [a \in D |-> IF a \in dest .. dest + q - 1
                                             THEN m[src + a - dest] ELSE m[a]]
  BY DEF Copied
<1>6. Move(c, dest + p, src + p, q - p) = Copied(m, dest, src, q)
  BY <1>3, <1>4, <1>5, Zenon
<1> QED BY <1>1, <1>6 DEF Continues

(* A copy by chunks from the first to the last is a copy.                  *)
LEMMA ChunksCopied ==
  ASSUME NEW D, D \subseteq Int, NEW m, m = [a \in D |-> m[a]],
         NEW dest \in Nat, NEW src \in Nat, NEW n \in Nat, src .. src + n - 1 \subseteq D,
         dest <= src \/ src + n <= dest,
         NEW l \in Nat, NEW c, NEW cut, ChunksAt(c, l, cut, n),
         NEW r, IsCopy(r, m, l, cut, dest, src)
  PROVE  r[l] = Copied(m, dest, src, n)
<1> DEFINE S == {k \in Nat : k <= l => r[k] = Copied(m, dest, src, cut[k])}
<1>0. cut \in [0 .. l -> 0 .. n] /\ cut[0] = 0 /\ cut[l] = n
  BY DEF ChunksAt
<1>1. 0 \in S
  <2>1. \A a : a \notin dest .. dest + 0 - 1
    OBVIOUS
  <2>2. Copied(m, dest, src, 0) = [a \in D |-> m[a]]
    BY <2>1 DEF Copied
  <2> QED BY <1>0, <2>2 DEF IsCopy
<1>2. ASSUME NEW k \in Nat, k \in S PROVE k + 1 \in S
  <2>1. PICK j \in Nat : j = k + 1 /\ j - 1 = k
    OBVIOUS
  <2>2. ASSUME j <= l PROVE r[j] = Copied(m, dest, src, cut[j])
    <3>1. j \in 1 .. l /\ k \in 0 .. l /\ j \in 0 .. l /\ k <= l
      BY <2>1, <2>2
    <3>2. PICK p \in 0 .. n, q \in 0 .. n : p = cut[k] /\ q = cut[j] /\ p <= q
      <4>1. cut[j - 1] <= cut[j]
        BY <3>1 DEF ChunksAt
      <4> QED BY <1>0, <2>1, <3>1, <4>1
    <3>3. r[j] = Move(r[k], dest + p, src + p, q - p)
      BY <2>1, <3>1, <3>2 DEF IsCopy
    <3>4. r[k] = Copied(m, dest, src, p)
      BY <1>2, <3>1, <3>2
    <3>5. Within(D, m, src, n)
      BY DEF Within
    <3>6. Continues(m, dest, src, p, q)
      BY <3>2, <3>5, MoveCopied
    <3> QED BY <3>2, <3>3, <3>4, <3>6 DEF Continues
  <2> QED BY <2>1, <2>2
<1> HIDE DEF S
<1>3. \A k \in Nat : k \in S
  BY <1>1, <1>2, Induction
<1> QED BY <1>0, <1>3 DEF S

(* The n bytes from src on lie in the memory m.                            *)
Holds(D, m, src, n) == D \subseteq Int /\ m = [a \in D |-> m[a]] /\ src .. src + n - 1 \subseteq D

(* memcpy copies, for every alignment and remainder, as long as the        *)
(* destination does not begin within the source (lib.c:540).               *)
THEOREM MemcpyIsCopy ==
  ASSUME NEW D, NEW m, NEW dest \in Nat, NEW src \in Nat, NEW n \in Nat, Holds(D, m, src, n),
         dest <= src \/ src + n <= dest
  PROVE  memcpy(m, dest, src, n) = Copied(m, dest, src, n)
<1>0. D \subseteq Int /\ m = [a \in D |-> m[a]] /\ src .. src + n - 1 \subseteq D
  BY DEF Holds
<1> USE <1>0
<1>1. PICK V : V = {m[a] : a \in D}
  OBVIOUS
<1>2. m \in [D -> V]
  BY <1>1
<1>3. CopiesTo(memcpy(m, dest, src, n), m, dest, src, n)
  BY <1>2, MemcpyRun
<1>4. PICK l \in Nat : \E c, cut, r :
        ChunksAt(c, l, cut, n) /\ IsCopy(r, m, l, cut, dest, src) /\ r[l] = memcpy(m, dest, src, n)
  BY <1>3 DEF CopiesTo
<1> QED BY <1>4, ChunksCopied

-----------------------------------------------------------------------------
(* Part 3.  memmove.                                                       *)

(* The moves of memmove: byte by byte, at the offsets of at.               *)
MovesTo(v, m, dest, src, n, at) ==
  \E r : /\ r[0] = m /\ r[n] = v
         /\ \A k \in 1 .. n : r[k] = Move(r[k - 1], dest + at[k], src + at[k], 1)

Offsets(at, dest, src, n) == at = [i \in 1 .. n |-> IF src >= dest THEN i - 1 ELSE n - i]

(* memmove moves one byte after the other.                                 *)
LEMMA MemmoveRun ==
  ASSUME NEW D, NEW V, NEW m \in [D -> V], D \subseteq Int,
         NEW dest \in Nat, NEW src \in Nat, NEW n \in Nat, src .. src + n - 1 \subseteq D
  PROVE  \E at : /\ Offsets(at, dest, src, n)
                 /\ MovesTo(memmove(m, dest, src, n), m, dest, src, n, at)
<1>1. PICK T : T = [D -> V]
  OBVIOUS
<1> DEFINE c == [i \in 1 .. n |-> IF src >= dest THEN i - 1 ELSE n - i]
<1>2. c = [i \in 1 .. n |-> IF src >= dest THEN i - 1 ELSE n - i]
  OBVIOUS
<1>3. DOMAIN c = 1 .. n
  BY <1>2
<1> DEFINE op(v, k) == Move(v, dest + c[k], src + c[k], 1)
<1>4. ASSUME NEW k \in 1 .. n, NEW v \in T PROVE op(v, k) \in T
  <2>1. PICK o \in 0 .. n - 1 : o = c[k]
    <3>1. (IF src >= dest THEN k - 1 ELSE n - k) \in 0 .. n - 1
      OBVIOUS
    <3> QED BY <1>2, <3>1
  <2>2. PICK x \in Int, y \in Int : x = dest + o /\ y = src + o
    OBVIOUS
  <2>3. y .. y + 1 - 1 \subseteq D
    BY <2>1, <2>2
  <2>4. Move(v, x, y, 1) \in [D -> V]
    BY <1>1, <2>3, MoveTyped
  <2> QED BY <1>1, <2>1, <2>2, <2>4
<1>5. PICK step : step = [k \in 1 .. n |-> [v \in T |-> op(v, k)]]
  OBVIOUS
<1>6. \A k \in 1 .. n : \A v \in T : op(v, k) \in T
  BY <1>4
<1> HIDE DEF op
<1>7. \A k \in 1 .. n : \A v \in T : step[k][v] = op(v, k)
  BY <1>5
<1>8. m \in T /\ Steps(step, n, T)
  BY <1>6, <1>7, <1>1 DEF Steps
<1>9. PICK f : IsFold(f, m, n, step, T)
  BY <1>8, FoldExists
<1> DEFINE Is(g) == g = [q \in SUBSET (1 .. n) |-> IF q = {} THEN m ELSE op(g[q \ {Max(q)}], Max(q))]
<1>10. Is(f)
  <2>1. f \in [SUBSET (1 .. n) -> T] /\ f[{}] = m
    BY <1>9 DEF IsFold
  <2>2. ASSUME NEW q \in SUBSET (1 .. n), q # {}
        PROVE  f[q] = op(f[q \ {Max(q)}], Max(q))
    <3>1. Max(q) \in 1 .. n /\ q \ {Max(q)} \in SUBSET (1 .. n)
      BY <2>2, MaxOf
    <3>2. f[q \ {Max(q)}] \in T
      BY <2>1, <3>1
    <3>3. f[q] = step[Max(q)][f[q \ {Max(q)}]]
      BY <1>9, <2>2 DEF IsFold
    <3> QED BY <1>7, <3>1, <3>2, <3>3
  <2>3. \A q \in SUBSET (1 .. n) : f[q] = IF q = {} THEN m ELSE op(f[q \ {Max(q)}], Max(q))
    BY <2>1, <2>2, Zenon
  <2>4. f = [q \in SUBSET (1 .. n) |-> f[q]]
    BY <2>1
  <2> QED BY <2>3, <2>4, Zenon
<1>11. memmove(m, dest, src, n) = (CHOOSE g : Is(g))[1 .. n]
  BY <1>3, Zenon DEF memmove, FoldLeft, MapThenFoldSet, op
<1>12. PICK g : Is(g) /\ memmove(m, dest, src, n) = g[1 .. n]
  BY <1>10, <1>11
<1>13. g[{}] = m /\ \A k \in 1 .. n : g[1 .. k] = op(g[1 .. k - 1], k)
  <2>1. g[{}] = m
    BY <1>12
  <2>2. ASSUME NEW k \in 1 .. n PROVE g[1 .. k] = op(g[1 .. k - 1], k)
    <3>1. /\ Max(1 .. k) = k /\ (1 .. k) \ {k} = 1 .. k - 1
          /\ 1 .. k \in SUBSET (1 .. n) /\ 1 .. k # {}
      BY MaxInterval
    <3> QED BY <1>12, <3>1
  <2> QED BY <2>1, <2>2
<1>14. Follows(g, m, n, step, T)
  BY <1>7, <1>13 DEF Follows
<1>15. PICK r : IsRun(r, m, n, step, T) /\ r[n] = g[1 .. n]
  BY <1>8, <1>14, FoldRun
<1>16. r \in [0 .. n -> T] /\ r[0] = m /\ r[n] = memmove(m, dest, src, n)
  BY <1>12, <1>15 DEF IsRun
<1>17. ASSUME NEW k \in 1 .. n PROVE r[k] = op(r[k - 1], k)
  <2>1. k - 1 \in 0 .. n
    OBVIOUS
  <2> QED BY <1>7, <1>15, <1>16, <2>1 DEF IsRun
<1>18. MovesTo(memmove(m, dest, src, n), m, dest, src, n, c)
  BY <1>16, <1>17 DEF MovesTo, op
<1> QED BY <1>18 DEF Offsets

(* The moves from the first byte to the last one, for a source above it.   *)
LEMMA MoveCopiedUp ==
  ASSUME NEW D, NEW m, NEW dest \in Nat, NEW src \in Nat, NEW n \in Nat, Within(D, m, src, n),
         dest <= src, NEW p \in 0 .. n - 1, NEW q \in Nat, q = p + 1
  PROVE  Move(Copied(m, dest, src, p), dest + p, src + p, 1) = Copied(m, dest, src, q)
<1>1. PICK u \in 0 .. n, w \in 0 .. n : u = p /\ w = q /\ u <= w /\ w - u = 1
  OBVIOUS
<1>2. Continues(m, dest, src, u, w)
  BY <1>1, MoveCopied
<1>3. Move(Copied(m, dest, src, u), dest + u, src + u, w - u) = Copied(m, dest, src, w)
  BY <1>2 DEF Continues
<1> QED BY <1>1, <1>3, Zenon

(* The moves from the last byte to the first one, for a source below the   *)
(* destination.                                                            *)
LEMMA MoveCopiedDown ==
  ASSUME NEW D, NEW m, NEW dest \in Nat, NEW src \in Nat, NEW n \in Nat, Within(D, m, src, n),
         src < dest, NEW p \in 0 .. n - 1, NEW q \in Nat, q = p + 1
  PROVE  Move(Copied(m, dest + q, src + q, n - q), dest + p, src + p, 1)
           = Copied(m, dest + p, src + p, n - p)
<1>0. D \subseteq Int /\ DOMAIN m = D /\ src .. src + n - 1 \subseteq D
  BY DEF Within
<1> USE <1>0
<1>1. PICK c : c = Copied(m, dest + q, src + q, n - q)
  OBVIOUS
<1>2. /\ DOMAIN c = D
      /\ \A a \in D : c[a] = IF a \in dest + q .. dest + n - 1 THEN m[src + a - dest] ELSE m[a]
  <2>1. /\ DOMAIN c = D
        /\ \A a \in D : c[a] = IF a \in dest + q .. dest + q + (n - q) - 1
                               THEN m[src + q + a - (dest + q)] ELSE m[a]
    BY <1>1 DEF Copied
  <2>2. dest + q + (n - q) - 1 = dest + n - 1
    OBVIOUS
  <2>3. \A a \in D : src + q + a - (dest + q) = src + a - dest
    OBVIOUS
  <2> QED BY <2>1, <2>2, <2>3
<1>3. ASSUME NEW a \in D
      PROVE  (IF a \in dest + p .. dest + p + 1 - 1 THEN c[src + p + a - (dest + p)] ELSE c[a])
               = (IF a \in dest + p .. dest + p + (n - p) - 1 THEN m[src + p + a - (dest + p)] ELSE m[a])
  <2>0. a \in Int /\ dest + p + (n - p) - 1 = dest + n - 1 /\ dest + p + 1 - 1 = dest + p
        /\ src + p + a - (dest + p) = src + a - dest
    OBVIOUS
  <2>1. CASE a = dest + p
    <3>1. PICK b \in Int : b = src + p
      OBVIOUS
    <3>2. b \in src .. src + n - 1 /\ b \notin dest + q .. dest + n - 1
      BY <3>1
    <3>3. c[b] = m[b]
      BY <1>2, <3>2
    <3>4. src + a - dest = b /\ a \in dest + p .. dest + n - 1
      BY <2>1, <3>1
    <3> QED BY <2>0, <2>1, <3>3, <3>4
  <2>2. CASE a # dest + p
    <3>1. a \in dest + p .. dest + n - 1 <=> a \in dest + q .. dest + n - 1
      BY <2>0, <2>2
    <3> QED BY <1>2, <2>0, <2>2, <3>1
  <2> QED BY <2>1, <2>2
<1>4. Move(c, dest + p, src + p, 1)
        = [a \in D |-> IF a \in dest + p .. dest + p + 1 - 1
                       THEN c[src + p + a - (dest + p)] ELSE c[a]]
  BY <1>2 DEF Move
<1>5. Copied(m, dest + p, src + p, n - p)
        = [a \in D |-> IF a \in dest + p .. dest + p + (n - p) - 1
                       THEN m[src + p + a - (dest + p)] ELSE m[a]]
  BY DEF Copied
<1>6. Move(c, dest + p, src + p, 1) = Copied(m, dest + p, src + p, n - p)
  BY <1>3, <1>4, <1>5, Zenon
<1> QED BY <1>1, <1>6

(* A copy by such moves is a copy.                                         *)
LEMMA MovesCopied ==
  ASSUME NEW D, D \subseteq Int, NEW m, m = [a \in D |-> m[a]],
         NEW dest \in Nat, NEW src \in Nat, NEW n \in Nat, src .. src + n - 1 \subseteq D,
         NEW at, Offsets(at, dest, src, n),
         NEW v, MovesTo(v, m, dest, src, n, at)
  PROVE  v = Copied(m, dest, src, n)
<1>1. PICK r : /\ r[0] = m /\ r[n] = v
               /\ \A k \in 1 .. n : r[k] = Move(r[k - 1], dest + at[k], src + at[k], 1)
  BY DEF MovesTo
<1>2. DOMAIN m = D /\ Within(D, m, src, n)
  BY DEF Within
<1>3. ASSUME NEW x \in Nat, NEW y \in Nat PROVE Copied(m, x, y, 0) = m
  <2>1. \A a : a \notin x .. x + 0 - 1
    OBVIOUS
  <2>2. Copied(m, x, y, 0) = [a \in D |-> m[a]]
    BY <1>2, <2>1 DEF Copied
  <2> QED BY <1>2, <2>2
<1>4. CASE src >= dest
  <2> DEFINE S == {k \in Nat : k <= n => r[k] = Copied(m, dest, src, k)}
  <2>1. 0 \in S
    BY <1>1, <1>3
  <2>2. ASSUME NEW k \in Nat, k \in S PROVE k + 1 \in S
    <3>1. PICK j \in Nat : j = k + 1 /\ j - 1 = k
      OBVIOUS
    <3>2. ASSUME j <= n PROVE r[j] = Copied(m, dest, src, j)
      <4>1. j \in 1 .. n /\ k <= n /\ k \in 0 .. n /\ j \in 0 .. n /\ k \in 0 .. n - 1
        BY <3>1, <3>2
      <4>2. at[j] = k
        BY <1>4, <3>1, <4>1 DEF Offsets
      <4>3. r[j] = Move(r[k], dest + k, src + k, 1)
        BY <1>1, <3>1, <4>1, <4>2
      <4>4. r[k] = Copied(m, dest, src, k)
        BY <2>2, <4>1
      <4>5. Move(Copied(m, dest, src, k), dest + k, src + k, 1) = Copied(m, dest, src, j)
        <5>1. PICK p \in 0 .. n - 1, q \in Nat : p = k /\ q = j /\ q = p + 1
          BY <3>1, <4>1
        <5> HIDE DEF S
        <5>2. Move(Copied(m, dest, src, p), dest + p, src + p, 1) = Copied(m, dest, src, q)
          <6>1. dest <= src /\ q = p + 1
            BY <1>4, <5>1
          <6> QED BY <1>2, <6>1, MoveCopiedUp
        <5> QED BY <5>1, <5>2
      <4> QED BY <4>1, <4>3, <4>4, <4>5, Zenon
    <3> QED BY <3>1, <3>2
  <2> HIDE DEF S
  <2>3. \A k \in Nat : k \in S
    BY <2>1, <2>2, Induction
  <2> QED BY <1>1, <2>3 DEF S
<1>5. CASE src < dest
  <2> DEFINE S == {k \in Nat : k <= n => r[k] = Copied(m, dest + (n - k), src + (n - k), k)}
  <2>1. 0 \in S
    <3>1. dest + (n - 0) \in Nat /\ src + (n - 0) \in Nat
      OBVIOUS
    <3> QED BY <1>1, <1>3, <3>1
  <2>2. ASSUME NEW k \in Nat, k \in S PROVE k + 1 \in S
    <3>1. PICK j \in Nat : j = k + 1 /\ j - 1 = k
      OBVIOUS
    <3>2. ASSUME j <= n PROVE r[j] = Copied(m, dest + (n - j), src + (n - j), j)
      <4>1. PICK p \in 0 .. n - 1, q \in Nat : p = n - j /\ q = p + 1 /\ n - k = q /\ n - q = k /\ n - p = j
        BY <3>1, <3>2
      <4>2. j \in 1 .. n /\ ~(src >= dest)
        BY <1>5, <3>1, <3>2
      <4>3. at[j] = p
        BY <4>1, <4>2 DEF Offsets
      <4>4. r[j] = Move(r[k], dest + p, src + p, 1)
        BY <1>1, <3>1, <4>2, <4>3
      <4>5. r[k] = Copied(m, dest + q, src + q, k)
        BY <2>2, <3>1, <3>2, <4>1
      <4>6. Move(Copied(m, dest + q, src + q, n - q), dest + p, src + p, 1)
              = Copied(m, dest + p, src + p, n - p)
        <5>1. src < dest /\ Within(D, m, src, n) /\ q = p + 1
          BY <1>2, <1>5, <4>1
        <5> HIDE DEF S
        <5> QED BY <5>1, MoveCopiedDown
      <4> QED BY <4>1, <4>4, <4>5, <4>6, Zenon
    <3> QED BY <3>1, <3>2
  <2> HIDE DEF S
  <2>3. r[n] = Copied(m, dest + (n - n), src + (n - n), n)
    <3>1. n \in S /\ n <= n
      BY <2>1, <2>2, Induction
    <3> QED BY <3>1 DEF S
  <2>4. dest + (n - n) = dest /\ src + (n - n) = src
    OBVIOUS
  <2> QED BY <1>1, <2>3, <2>4
<1> QED BY <1>4, <1>5

(* memmove copies, however the areas overlap (lib.c:586).                  *)
THEOREM MemmoveIsCopy ==
  ASSUME NEW D, NEW m, NEW dest \in Nat, NEW src \in Nat, NEW n \in Nat, Holds(D, m, src, n)
  PROVE  memmove(m, dest, src, n) = Copied(m, dest, src, n)
<1>0. D \subseteq Int /\ m = [a \in D |-> m[a]] /\ src .. src + n - 1 \subseteq D
  BY DEF Holds
<1> USE <1>0
<1>1. PICK V : V = {m[a] : a \in D}
  OBVIOUS
<1>2. m \in [D -> V]
  BY <1>1
<1>3. PICK at : /\ Offsets(at, dest, src, n)
                /\ MovesTo(memmove(m, dest, src, n), m, dest, src, n, at)
  BY <1>2, MemmoveRun
<1> QED BY <1>3, MovesCopied

-----------------------------------------------------------------------------
(* Part 4.  memset.                                                        *)

(* n bytes of the value of c.                                              *)
Filled(m, s, c, n) == [a \in DOMAIN m |-> IF a \in s .. s + n - 1 THEN c % 256 ELSE m[a]]

(* Filling is storing that many bytes.                                     *)
LEMMA StoreFills ==
  ASSUME NEW m, NEW s \in Int, NEW c \in Int, NEW n \in Nat
  PROVE  Store(m, s, [i \in 1 .. n |-> c % 256]) = Filled(m, s, c, n)
<1>1. PICK b : b = [i \in 1 .. n |-> c % 256]
  OBVIOUS
<1>2. b \in Seq(Int) /\ Len(b) = n
  <2>1. b \in [1 .. n -> Int]
    BY <1>1
  <2>2. b \in Seq(Int)
    BY <2>1, SeqDef
  <2> QED BY <2>1, <2>2, LenProperties
<1>3. ASSUME NEW a \in DOMAIN m
      PROVE  (IF a \in s .. s + Len(b) - 1 THEN b[a - s + 1] ELSE m[a])
               = (IF a \in s .. s + n - 1 THEN c % 256 ELSE m[a])
  <2>1. CASE a \in s .. s + n - 1
    <3>1. a - s + 1 \in 1 .. n
      BY <2>1
    <3> QED BY <1>1, <1>2, <2>1, <3>1
  <2>2. CASE a \notin s .. s + n - 1
    BY <1>2, <2>2
  <2> QED BY <2>1, <2>2
<1>4. Store(m, s, b) = Filled(m, s, c, n)
  BY <1>3, Zenon DEF Store, Filled
<1> QED BY <1>1, <1>4

(* The stores of memset, chunk by chunk.                                   *)
IsFill(r, m, l, cut, s, c) ==
  /\ r[0] = m
  /\ \A k \in 1 .. l : r[k] = Filled(r[k - 1], s + cut[k - 1], c, cut[k] - cut[k - 1])

FillsTo(v, m, s, c, n) ==
  \E l \in Nat : \E ch, cut, r : ChunksAt(ch, l, cut, n) /\ IsFill(r, m, l, cut, s, c) /\ r[l] = v

(* memset stores one chunk after the other.                                *)
LEMMA MemsetRun ==
  ASSUME NEW D, NEW m \in [D -> Int], NEW s \in Nat, NEW c \in Int, NEW n \in Nat
  PROVE  FillsTo(memset(m, s, c, n), m, s, c, n)
<1>1. PICK T : T = [D -> Int]
  OBVIOUS
<1>2. PICK l \in Nat : \E cut : ChunksAt(Chunks(s, n), l, cut, n)
  BY ChunksFollow
<1>3. PICK cut : ChunksAt(Chunks(s, n), l, cut, n)
  BY <1>2
<1>4. PICK ch : ch = Chunks(s, n)
  OBVIOUS
<1>5. DOMAIN ch = 1 .. l
  BY <1>3, <1>4 DEF ChunksAt
<1> DEFINE op(v, k) == Store(v, s + ch[k][1], [i \in 1 .. ch[k][2] |-> c % 256])
<1>6. ASSUME NEW k \in 1 .. l, NEW v
      PROVE  op(v, k) = Filled(v, s + cut[k - 1], c, cut[k] - cut[k - 1])
  <2>1. k \in 0 .. l /\ k - 1 \in 0 .. l
    OBVIOUS
  <2>2. cut[k - 1] \in 0 .. n /\ cut[k] \in 0 .. n
    BY <1>3, <2>1 DEF ChunksAt
  <2>3. ch[k][1] = cut[k - 1] /\ ch[k][2] = cut[k] - cut[k - 1] /\ cut[k - 1] <= cut[k]
    BY <1>3, <1>4 DEF ChunksAt
  <2>4. PICK o \in Int, w \in Nat : o = s + ch[k][1] /\ w = ch[k][2]
    BY <2>2, <2>3
  <2>5. Store(v, o, [i \in 1 .. w |-> c % 256]) = Filled(v, o, c, w)
    BY StoreFills
  <2> QED BY <2>3, <2>4, <2>5
<1>7. ASSUME NEW k \in 1 .. l, NEW v \in T PROVE op(v, k) \in T
  <2>1. PICK o, w : o = s + cut[k - 1] /\ w = cut[k] - cut[k - 1]
    OBVIOUS
  <2>2. Filled(v, o, c, w) \in [D -> Int]
    BY <1>1 DEF Filled
  <2> QED BY <1>1, <1>6, <2>1, <2>2
<1>8. PICK step : step = [k \in 1 .. l |-> [v \in T |-> op(v, k)]]
  OBVIOUS
<1>9. \A k \in 1 .. l : \A v \in T : op(v, k) \in T
  BY <1>6, <1>7
<1> HIDE DEF op
<1>10. \A k \in 1 .. l : \A v \in T : step[k][v] = op(v, k)
  BY <1>8
<1>11. m \in T /\ Steps(step, l, T)
  BY <1>9, <1>10, <1>1 DEF Steps
<1>12. PICK f : IsFold(f, m, l, step, T)
  BY <1>11, FoldExists
<1> DEFINE Is(g) == g = [q \in SUBSET (1 .. l) |-> IF q = {} THEN m ELSE op(g[q \ {Max(q)}], Max(q))]
<1>13. Is(f)
  <2>1. f \in [SUBSET (1 .. l) -> T] /\ f[{}] = m
    BY <1>12 DEF IsFold
  <2>2. ASSUME NEW q \in SUBSET (1 .. l), q # {}
        PROVE  f[q] = op(f[q \ {Max(q)}], Max(q))
    <3>1. Max(q) \in 1 .. l /\ q \ {Max(q)} \in SUBSET (1 .. l)
      BY <2>2, MaxOf
    <3>2. f[q \ {Max(q)}] \in T
      BY <2>1, <3>1
    <3>3. f[q] = step[Max(q)][f[q \ {Max(q)}]]
      BY <1>12, <2>2 DEF IsFold
    <3> QED BY <1>10, <3>1, <3>2, <3>3
  <2>3. \A q \in SUBSET (1 .. l) : f[q] = IF q = {} THEN m ELSE op(f[q \ {Max(q)}], Max(q))
    BY <2>1, <2>2, Zenon
  <2>4. f = [q \in SUBSET (1 .. l) |-> f[q]]
    BY <2>1
  <2> QED BY <2>3, <2>4, Zenon
<1>14. memset(m, s, c, n) = (CHOOSE g : Is(g))[1 .. l]
  BY <1>4, <1>5, Zenon DEF memset, FoldLeft, MapThenFoldSet, op
<1>15. PICK g : Is(g) /\ memset(m, s, c, n) = g[1 .. l]
  BY <1>13, <1>14
<1>16. g[{}] = m /\ \A k \in 1 .. l : g[1 .. k] = op(g[1 .. k - 1], k)
  <2>1. g[{}] = m
    BY <1>15
  <2>2. ASSUME NEW k \in 1 .. l PROVE g[1 .. k] = op(g[1 .. k - 1], k)
    <3>1. /\ Max(1 .. k) = k /\ (1 .. k) \ {k} = 1 .. k - 1
          /\ 1 .. k \in SUBSET (1 .. l) /\ 1 .. k # {}
      BY MaxInterval
    <3> QED BY <1>15, <3>1
  <2> QED BY <2>1, <2>2
<1>17. Follows(g, m, l, step, T)
  BY <1>10, <1>16 DEF Follows
<1>18. PICK r : IsRun(r, m, l, step, T) /\ r[l] = g[1 .. l]
  BY <1>11, <1>17, FoldRun
<1>19. r \in [0 .. l -> T] /\ r[0] = m /\ r[l] = memset(m, s, c, n)
  BY <1>15, <1>18 DEF IsRun
<1>20. ASSUME NEW k \in 1 .. l PROVE r[k] = op(r[k - 1], k)
  <2>1. k - 1 \in 0 .. l
    OBVIOUS
  <2> QED BY <1>10, <1>18, <1>19, <2>1 DEF IsRun
<1>21. IsFill(r, m, l, cut, s, c)
  <2>1. ASSUME NEW k \in 1 .. l
        PROVE  r[k] = Filled(r[k - 1], s + cut[k - 1], c, cut[k] - cut[k - 1])
    BY <1>6, <1>20
  <2> QED BY <1>19, <2>1 DEF IsFill
<1> QED BY <1>3, <1>21, <1>19 DEF FillsTo

(* Filling chunk after chunk fills.                                        *)
FillContinues(m, s, c, p, q) == Filled(Filled(m, s, c, p), s + p, c, q - p) = Filled(m, s, c, q)

(* The store that continues a filling from its first p bytes to its first  *)
(* q.                                                                      *)
LEMMA FillChunk ==
  ASSUME NEW m, DOMAIN m \subseteq Int, NEW s \in Nat, NEW c \in Int, NEW n \in Nat,
         NEW p \in 0 .. n, NEW q \in 0 .. n, p <= q
  PROVE  FillContinues(m, s, c, p, q)
<1>1. PICK f : f = Filled(m, s, c, p)
  OBVIOUS
<1>2. /\ DOMAIN f = DOMAIN m
      /\ \A a \in DOMAIN m : f[a] = IF a \in s .. s + p - 1 THEN c % 256 ELSE m[a]
  BY <1>1 DEF Filled
<1>3. ASSUME NEW a \in DOMAIN m
      PROVE  (IF a \in s + p .. s + p + (q - p) - 1 THEN c % 256 ELSE f[a])
               = (IF a \in s .. s + q - 1 THEN c % 256 ELSE m[a])
  <2>1. /\ s + p + (q - p) - 1 = s + q - 1
        /\ a \in s .. s + q - 1 <=> (a \in s + p .. s + q - 1 \/ a \in s .. s + p - 1)
    OBVIOUS
  <2> QED BY <1>2, <2>1
<1>4. Filled(f, s + p, c, q - p) = Filled(m, s, c, q)
  BY <1>2, <1>3, Zenon DEF Filled
<1> QED BY <1>1, <1>4 DEF FillContinues

(* memset fills, for every alignment and remainder (lib.c:457).            *)
THEOREM MemsetIsFill ==
  ASSUME NEW D, D \subseteq Int, NEW m \in [D -> Int], NEW s \in Nat, NEW c \in Int, NEW n \in Nat
  PROVE  memset(m, s, c, n) = Filled(m, s, c, n)
<1>1. FillsTo(memset(m, s, c, n), m, s, c, n)
  BY MemsetRun
<1>2. PICK l \in Nat : \E ch, cut, r :
        ChunksAt(ch, l, cut, n) /\ IsFill(r, m, l, cut, s, c) /\ r[l] = memset(m, s, c, n)
  BY <1>1 DEF FillsTo
<1>3. PICK ch, cut, r :
        ChunksAt(ch, l, cut, n) /\ IsFill(r, m, l, cut, s, c) /\ r[l] = memset(m, s, c, n)
  BY <1>2
<1>4. cut \in [0 .. l -> 0 .. n] /\ cut[0] = 0 /\ cut[l] = n
  BY <1>3 DEF ChunksAt
<1> DEFINE S == {k \in Nat : k <= l => r[k] = Filled(m, s, c, cut[k])}
<1>5. 0 \in S
  <2>1. \A a : a \notin s .. s + 0 - 1
    OBVIOUS
  <2>2. Filled(m, s, c, 0) = m
    BY <2>1 DEF Filled
  <2> QED BY <1>3, <1>4, <2>2 DEF IsFill
<1>6. ASSUME NEW k \in Nat, k \in S PROVE k + 1 \in S
  <2>1. PICK j \in Nat : j = k + 1 /\ j - 1 = k
    OBVIOUS
  <2>2. ASSUME j <= l PROVE r[j] = Filled(m, s, c, cut[j])
    <3>1. j \in 1 .. l /\ k \in 0 .. l /\ j \in 0 .. l /\ k <= l
      BY <2>1, <2>2
    <3>2. PICK p \in 0 .. n, q \in 0 .. n : p = cut[k] /\ q = cut[j] /\ p <= q
      <4>1. cut[j - 1] <= cut[j]
        BY <1>3, <3>1 DEF ChunksAt
      <4> QED BY <1>4, <2>1, <3>1, <4>1
    <3>3. r[j] = Filled(r[k], s + p, c, q - p)
      BY <1>3, <2>1, <3>1, <3>2 DEF IsFill
    <3>4. r[k] = Filled(m, s, c, p)
      BY <1>6, <3>1, <3>2
    <3>5. DOMAIN m \subseteq Int
      OBVIOUS
    <3>6. FillContinues(m, s, c, p, q)
      BY <3>2, <3>5, FillChunk
    <3> QED BY <3>2, <3>3, <3>4, <3>6 DEF FillContinues
  <2> QED BY <2>1, <2>2
<1> HIDE DEF S
<1>7. l \in S
  BY <1>5, <1>6, Induction
<1>8. r[l] = Filled(m, s, c, n)
  BY <1>4, <1>7 DEF S
<1> QED BY <1>3, <1>8

-----------------------------------------------------------------------------
(* Part 5.  Strings.                                                       *)

(* u is what s has behind its first a characters, up to the b-th.          *)
IsSlice(u, s, a, b) ==
  u \in Seq(Nat) /\ Len(u) = b - a /\ \A i \in 1 .. b - a : u[i] = s[a + i]

(* SubSeq cuts such slices,                                                *)
LEMMA SliceOf ==
  ASSUME NEW s \in Seq(Nat), NEW a \in Nat, NEW b \in Nat, a <= b, b <= Len(s)
  PROVE  IsSlice(SubSeq(s, a + 1, b), s, a, b)
<1>1. PICK c \in Int : c = a + 1
  OBVIOUS
<1>2. Len(s) \in Nat
  BY LenProperties
<1>3. ASSUME NEW i \in c .. b PROVE s[i] \in Nat
  <2>1. i \in 1 .. Len(s)
    BY <1>1, <1>2
  <2> QED BY <2>1, ElementOfSeq
<1>4. PICK u : u = SubSeq(s, c, b)
  OBVIOUS
<1>5. /\ u \in Seq(Nat) /\ Len(u) = IF c <= b THEN b - c + 1 ELSE 0
      /\ \A i \in 1 .. b - c + 1 : u[i] = s[c + i - 1]
  BY <1>3, <1>4, SubSeqProperties
<1>6. b - c + 1 = b - a /\ Len(u) = b - a
  BY <1>1, <1>5
<1>7. \A i \in 1 .. b - a : c + i - 1 = a + i
  BY <1>1
<1> QED BY <1>1, <1>4, <1>5, <1>6, <1>7 DEF IsSlice

(* of which there is one each,                                             *)
LEMMA SliceUnique ==
  ASSUME NEW u, NEW v, NEW s, NEW a, NEW b, IsSlice(u, s, a, b), IsSlice(v, s, a, b)
  PROVE  u = v
<1>1. u \in Seq(Nat) /\ v \in Seq(Nat) /\ Len(u) = Len(v) /\ \A i \in 1 .. Len(u) : u[i] = v[i]
  BY DEF IsSlice
<1> QED BY <1>1, SeqEqual

(* and slices of slices are slices.                                        *)
LEMMA SliceOfSlice ==
  ASSUME NEW s, NEW u, NEW v, NEW a \in Nat, NEW b \in Nat, NEW c \in Nat, NEW d \in Nat,
         IsSlice(u, s, a, b), IsSlice(v, u, c, d), d <= b - a, NEW e, NEW f, e = a + c, f = a + d
  PROVE  IsSlice(v, s, e, f)
<1>1. \A i \in 1 .. d - c : c + i \in 1 .. b - a /\ a + (c + i) = e + i
  OBVIOUS
<1>2. f - e = d - c
  OBVIOUS
<1> QED BY <1>1, <1>2 DEF IsSlice

(* s starts with exactly n characters of the set P;                        *)
Leads(n, s, P) ==
  /\ n \in 0 .. Len(s) /\ \A i \in 1 .. n : s[i] \in P
  /\ n < Len(s) => s[n + 1] \notin P

(* every sequence starts with some number of them.                         *)
LEMMA LeadsExist ==
  ASSUME NEW s \in Seq(Nat), NEW P
  PROVE  \E n \in 0 .. Len(s) : Leads(n, s, P)
<1>1. PICK l \in Nat : l = Len(s)
  BY LenProperties
<1>2. PICK E : E = {n \in Nat : n = l \/ s[n + 1] \notin P}
  OBVIOUS
<1>3. E \subseteq Nat /\ l \in E /\ E # {}
  BY <1>2
<1>4. PICK n \in E : \A m \in E : n <= m
  BY <1>3, LeastNatural
<1>5. n \in 0 .. l /\ (n < l => s[n + 1] \notin P)
  BY <1>2, <1>3, <1>4
<1>6. ASSUME NEW i \in 1 .. n PROVE s[i] \in P
  <2>1. PICK k \in Nat : k = i - 1 /\ k + 1 = i /\ k < n
    BY <1>5
  <2>2. k \notin E
    BY <1>4, <1>5, <2>1
  <2> QED BY <1>2, <2>1, <2>2
<1> QED BY <1>1, <1>5, <1>6 DEF Leads

(* Spaces in front go.                                                     *)
LEMMA SkipSpacesCuts ==
  ASSUME NEW s \in Seq(Nat)
  PROVE  \E n \in 0 .. Len(s) : Leads(n, s, {SPACE}) /\ IsSlice(SkipSpaces(s), s, n, Len(s))
<1>1. PICK l \in Nat : l = Len(s)
  BY LenProperties
<1> DEFINE OK(k) == /\ \A i \in 1 .. k : s[i] = SPACE
                    /\ k < Len(s) => s[k + 1] # SPACE
<1>2. \E k \in 0 .. Len(s) : OK(k)
  <2>1. PICK k \in 0 .. Len(s) : Leads(k, s, {SPACE})
    BY LeadsExist
  <2>2. OK(k)
    BY <2>1 DEF Leads
  <2> QED BY <2>2
<1>3. PICK n : n = CHOOSE k \in 0 .. Len(s) : OK(k)
  OBVIOUS
<1>4. n \in 0 .. Len(s) /\ OK(n)
  BY <1>2, <1>3
<1>5. SkipSpaces(s) = SubSeq(s, n + 1, Len(s))
  <2>1. SkipSpaces(s) = SubSeq(s, (CHOOSE k \in 0 .. Len(s) :
                                     /\ \A i \in 1 .. k : s[i] = SPACE
                                     /\ k < Len(s) => s[k + 1] # SPACE) + 1, Len(s))
    BY DEF SkipSpaces
  <2> QED BY <1>3, <2>1
<1>6. IsSlice(SkipSpaces(s), s, n, Len(s))
  <2>1. n \in Nat /\ l \in Nat /\ n <= l /\ l <= Len(s)
    BY <1>1, <1>4
  <2>2. IsSlice(SubSeq(s, n + 1, l), s, n, l)
    BY <2>1, SliceOf
  <2> QED BY <1>1, <1>5, <2>2
<1> QED BY <1>4, <1>6 DEF Leads

(* A word ends before a space or with the line.                            *)
LEMMA WordLengthLeads ==
  ASSUME NEW s \in Seq(Nat)
  PROVE  Leads(WordLength(s), s, Nat \ {SPACE})
<1>1. \A i \in 1 .. Len(s) : s[i] \in Nat
  BY ElementOfSeq
<1>2. Len(s) \in Nat
  BY LenProperties
<1> DEFINE OK(k) == (\A i \in 1 .. k : s[i] # SPACE) /\ (k < Len(s) => s[k + 1] = SPACE)
<1>3. ASSUME NEW k \in 0 .. Len(s) PROVE OK(k) <=> Leads(k, s, Nat \ {SPACE})
  <2>1. \A i \in 1 .. k : s[i] \in Nat
    BY <1>1, <1>2
  <2>2. k < Len(s) => s[k + 1] \in Nat
    BY <1>1, <1>2
  <2> QED BY <2>1, <2>2 DEF Leads, SPACE
<1>4. \E k \in 0 .. Len(s) : OK(k)
  BY <1>3, LeadsExist
<1>5. PICK n : n = CHOOSE k \in 0 .. Len(s) : OK(k)
  OBVIOUS
<1>6. n \in 0 .. Len(s) /\ OK(n)
  BY <1>4, <1>5
<1>7. WordLength(s) = n
  BY <1>5, Zenon DEF WordLength
<1> QED BY <1>3, <1>6, <1>7

(* A command line comes apart into its command and its arguments, whatever *)
(* spaces surround them (system_call.c:158).                               *)
THEOREM CommandsParsed ==
  ASSUME NEW s \in Seq(Nat)
  PROVE  CommandParsed(s)
<1>1. PICK l \in Nat : l = Len(s)
  BY LenProperties
<1>2. PICK i \in 0 .. l : Leads(i, s, {SPACE}) /\ IsSlice(SkipSpaces(s), s, i, l)
  BY <1>1, SkipSpacesCuts
<1>3. PICK rest \in Seq(Nat) : rest = SkipSpaces(s)
  BY <1>2 DEF IsSlice
<1>4. PICK n : n = WordLength(rest)
  OBVIOUS
<1>5. Len(rest) = l - i /\ Leads(n, rest, Nat \ {SPACE}) /\ n \in 0 .. l - i
  <2>1. Leads(n, rest, Nat \ {SPACE})
    BY <1>4, WordLengthLeads
  <2> QED BY <1>2, <1>3, <2>1 DEF IsSlice, Leads
<1>6. PICK after : after = SubSeq(rest, n + 1, Len(rest))
  OBVIOUS
<1>7. IsSlice(after, rest, n, l - i) /\ after \in Seq(Nat) /\ Len(after) = l - i - n
  <2>1. PICK b \in Nat : b = l - i /\ n <= b
    BY <1>5
  <2>2. n \in Nat /\ b <= Len(rest)
    BY <1>5, <2>1
  <2>3. IsSlice(SubSeq(rest, n + 1, b), rest, n, b)
    BY <2>1, <2>2, SliceOf
  <2> QED BY <1>5, <1>6, <2>1, <2>3 DEF IsSlice
<1>8. PICK m \in 0 .. l - i - n : Leads(m, after, {SPACE}) /\ IsSlice(SkipSpaces(after), after, m, l - i - n)
  BY <1>7, SkipSpacesCuts
<1>9. PICK command : command = SubSeq(rest, 1, n)
  OBVIOUS
<1>10. IsSlice(command, rest, 0, n)
  <2>1. n \in Nat /\ 0 \in Nat /\ 0 <= n /\ n <= Len(rest) /\ 0 + 1 = 1
    BY <1>5
  <2>2. IsSlice(SubSeq(rest, 0 + 1, n), rest, 0, n)
    BY <2>1, SliceOf
  <2> QED BY <1>9, <2>1, <2>2
<1>11. PICK args : args = SkipSpaces(after)
  OBVIOUS
<1>12. PICK p : p = ParseCommand(s)
  OBVIOUS
<1>13. p.command = command /\ p.args = args
  <2>1. p = [command |-> command, args |-> args]
    BY <1>3, <1>4, <1>6, <1>9, <1>11, <1>12, Zenon DEF ParseCommand
  <2> QED BY <2>1
<1>14. PICK k \in Nat, j \in Nat : k = i + n /\ j = i + n + m /\ i <= k /\ k <= j /\ j <= l
  BY <1>5, <1>8
<1>15. /\ IsSlice(rest, s, i, l) /\ IsSlice(command, s, i, k)
       /\ IsSlice(after, s, k, l) /\ IsSlice(args, s, j, l)
  <2>1. IsSlice(rest, s, i, l)
    BY <1>2, <1>3
  <2>2. IsSlice(command, s, i, k)
    <3>1. n \in Nat /\ i \in Nat /\ n <= l - i /\ i = i + 0 /\ k = i + n
      BY <1>5, <1>14
    <3> QED BY <1>10, <2>1, <3>1, SliceOfSlice
  <2>3. IsSlice(after, s, k, l)
    <3>1. PICK d \in Nat : d = l - i /\ l = i + d /\ d <= l - i
      BY <1>5
    <3>2. n \in Nat /\ i \in Nat /\ k = i + n /\ IsSlice(after, rest, n, d)
      BY <1>5, <1>7, <1>14, <3>1
    <3> QED BY <2>1, <3>1, <3>2, SliceOfSlice
  <2>4. IsSlice(args, s, j, l)
    <3>1. PICK d \in Nat : d = l - i - n /\ l = k + d /\ d <= l - k
      BY <1>5, <1>14
    <3>2. m \in Nat /\ k \in Nat /\ l \in Nat /\ j = k + m
      BY <1>5, <1>8, <1>14
    <3>3. IsSlice(args, after, m, d)
      BY <1>8, <1>11, <3>1
    <3>4. PICK q \in Nat : q = m
      BY <3>2
    <3>5. j = k + q /\ IsSlice(args, after, q, d)
      BY <3>2, <3>3, <3>4
    <3>6. l = k + d /\ d <= l - k
      BY <3>1
    <3> QED BY <2>3, <3>5, <3>6, SliceOfSlice
  <2> QED BY <2>1, <2>2, <2>3, <2>4
<1>16. Len(command) = n /\ Len(args) = l - j
  <2>1. Len(command) = k - i /\ Len(args) = l - j
    BY <1>15, Zenon DEF IsSlice
  <2> QED BY <1>5, <1>14, <2>1
<1>17. \A x \in 1 .. l : /\ x <= i => s[x] = SPACE
                         /\ x > i /\ x <= k => s[x] # SPACE
                         /\ x > k /\ x <= j => s[x] = SPACE
                         /\ x = i + 1 => s[x] # SPACE
                         /\ x = k + 1 => s[x] = SPACE
                         /\ x = j + 1 => s[x] # SPACE
  <2> SUFFICES ASSUME NEW x \in 1 .. l
               PROVE  /\ x <= i => s[x] = SPACE
                      /\ x > i /\ x <= k => s[x] # SPACE
                      /\ x > k /\ x <= j => s[x] = SPACE
                      /\ x = i + 1 => s[x] # SPACE
                      /\ x = k + 1 => s[x] = SPACE
                      /\ x = j + 1 => s[x] # SPACE
    OBVIOUS
  <2>1. x <= i => s[x] = SPACE
    BY <1>2 DEF Leads
  <2>2. x = i + 1 => s[x] # SPACE
    BY <1>1, <1>2 DEF Leads
  <2>3. x > i => x - i \in 1 .. l - i /\ s[x] = rest[x - i]
    <3>1. PICK y \in Int : y = x - i /\ x = i + y
      OBVIOUS
    <3>2. \A z \in 1 .. l - i : rest[z] = s[i + z]
      BY <1>15 DEF IsSlice
    <3>3. x > i => y \in 1 .. l - i
      BY <3>1
    <3> QED BY <3>1, <3>2, <3>3
  <2>4. x > k => x - k \in 1 .. l - k /\ s[x] = after[x - k]
    <3>1. PICK y \in Int : y = x - k /\ x = k + y
      OBVIOUS
    <3>2. \A z \in 1 .. l - k : after[z] = s[k + z]
      BY <1>15 DEF IsSlice
    <3>3. x > k => y \in 1 .. l - k
      BY <3>1
    <3> QED BY <3>1, <3>2, <3>3
  <2>5. x > i /\ x <= k => s[x] # SPACE
    BY <1>5, <1>14, <2>3 DEF Leads
  <2>6. x = k + 1 => s[x] = SPACE
    <3>1. SUFFICES ASSUME x = k + 1 PROVE s[x] = SPACE
      OBVIOUS
    <3>2. n + 1 = x - i /\ n < Len(rest) /\ x > i
      BY <1>5, <1>14, <3>1
    <3>3. rest[n + 1] \notin Nat \ {SPACE}
      BY <1>5, <3>2 DEF Leads
    <3>4. s[x] \in Nat
      BY <1>1, ElementOfSeq
    <3> QED BY <2>3, <3>2, <3>3, <3>4
  <2>7. x > k /\ x <= j => s[x] = SPACE
    BY <1>8, <1>14, <2>4 DEF Leads
  <2>8. x = j + 1 => s[x] # SPACE
    <3>1. SUFFICES ASSUME x = j + 1 PROVE s[x] # SPACE
      OBVIOUS
    <3>2. m + 1 = x - k /\ m < Len(after) /\ x > k
      <4>1. m \in Nat /\ j = k + m /\ k \in Nat /\ l \in Nat /\ x <= l
        BY <1>5, <1>8, <1>14
      <4>2. Len(after) = l - k
        BY <1>5, <1>7, <1>14
      <4> QED BY <3>1, <4>1, <4>2
    <3> QED BY <1>8, <2>4, <3>2 DEF Leads
  <2> QED BY <2>1, <2>2, <2>5, <2>6, <2>7, <2>8
<1>18. /\ Spaces(SubSeq(s, 1, i)) /\ SubSeq(s, i + 1, k) = command
       /\ Spaces(SubSeq(s, k + 1, j)) /\ SubSeq(s, j + 1, Len(s)) = args
  <2>1. /\ IsSlice(SubSeq(s, 1, i), s, 0, i) /\ IsSlice(SubSeq(s, i + 1, k), s, i, k)
        /\ IsSlice(SubSeq(s, k + 1, j), s, k, j) /\ IsSlice(SubSeq(s, j + 1, l), s, j, l)
    <3>1. 0 \in Nat /\ i \in Nat /\ l <= Len(s) /\ i <= Len(s) /\ k <= Len(s) /\ j <= Len(s) /\ 0 <= i /\ 0 + 1 = 1
      BY <1>1, <1>14
    <3>2. IsSlice(SubSeq(s, 0 + 1, i), s, 0, i)
      BY <3>1, SliceOf
    <3>3. IsSlice(SubSeq(s, i + 1, k), s, i, k) /\ IsSlice(SubSeq(s, k + 1, j), s, k, j)
          /\ IsSlice(SubSeq(s, j + 1, l), s, j, l)
      BY <1>14, <3>1, SliceOf
    <3> QED BY <3>1, <3>2, <3>3
  <2>2. Spaces(SubSeq(s, 1, i))
    BY <1>14, <1>17, <2>1 DEF Spaces, IsSlice
  <2>3. Spaces(SubSeq(s, k + 1, j))
    <3>1. PICK u : u = SubSeq(s, k + 1, j)
      OBVIOUS
    <3>2. Len(u) = j - k /\ \A y \in 1 .. j - k : u[y] = s[k + y]
      BY <2>1, <3>1 DEF IsSlice
    <3>3. j <= l
      BY <1>14
    <3>4. ASSUME NEW y \in 1 .. j - k PROVE u[y] = SPACE
      <4>1. PICK x \in Int : x = k + y
        OBVIOUS
      <4>2. x \in 1 .. l /\ x > k /\ x <= j
        BY <3>3, <4>1
      <4>3. u[y] = s[x]
        BY <3>2, <4>1
      <4> QED BY <1>17, <4>2, <4>3
    <3> QED BY <3>1, <3>2, <3>4 DEF Spaces
  <2>4. SubSeq(s, i + 1, k) = command /\ SubSeq(s, j + 1, l) = args
    BY <1>15, <2>1, SliceUnique
  <2> QED BY <1>1, <2>2, <2>3, <2>4
<1>19. ASSUME args # <<>> PROVE j < l /\ j > k /\ n # 0 /\ args[1] # SPACE
  <2>1. args \in Seq(Nat)
    BY <1>15 DEF IsSlice
  <2>2. Len(args) # 0
    BY <1>19, <2>1, EmptySeq
  <2>3. j < l
    BY <1>14, <1>16, <2>2
  <2>4. s[j + 1] # SPACE /\ args[1] = s[j + 1]
    <3>1. j + 1 \in 1 .. l /\ 1 \in 1 .. l - j
      BY <1>14, <2>3
    <3>2. \A y \in 1 .. l - j : args[y] = s[j + y]
      BY <1>15 DEF IsSlice
    <3> QED BY <1>17, <3>1, <3>2
  <2>5. j # k
    <3>1. k < l => k + 1 \in 1 .. l
      BY <1>14
    <3>2. k < l => s[k + 1] = SPACE
      BY <1>17, <3>1
    <3> QED BY <2>3, <2>4, <3>2
  <2>6. k # i
    <3>1. i + 1 \in 1 .. l
      BY <1>14, <2>3
    <3> QED BY <1>17, <3>1
  <2> QED BY <1>14, <2>3, <2>4, <2>5, <2>6
<1>20. Splits(s, p)
  <2>1. i \in 0 .. Len(s) /\ j \in 0 .. Len(s) /\ k = i + Len(p.command)
    BY <1>1, <1>13, <1>14, <1>16
  <2> QED BY <1>13, <1>14, <1>18, <1>19, <2>1, Zenon DEF Splits
<1>21. \A x \in 1 .. Len(command) : command[x] # SPACE
  <2>1. \A x \in 1 .. n : i + x \in 1 .. l /\ i + x > i /\ i + x <= k /\ command[x] = s[i + x]
    <3>1. k - i = n /\ \A x \in 1 .. n : i + x \in 1 .. l /\ i + x > i /\ i + x <= k
      BY <1>5, <1>14
    <3>2. \A x \in 1 .. k - i : command[x] = s[i + x]
      BY <1>15 DEF IsSlice
    <3> QED BY <3>1, <3>2
  <2> QED BY <1>16, <1>17, <2>1
<1>22. args # <<>> => args[1] # SPACE /\ command # <<>>
  <2>1. Len(<<>>) = 0
    BY EmptySeq
  <2> QED BY <1>16, <1>19, <2>1
<1> QED BY <1>12, <1>13, <1>20, <1>21, <1>22, Zenon DEF CommandParsed

(* Prefixes.                                                               *)
LEMMA PrefixOf ==
  ASSUME NEW s \in Seq(Nat), NEW k \in Nat, NEW l, l = Least(k, Len(s))
  PROVE  l \in 0 .. Len(s) /\ IsSlice(Prefix(s, k), s, 0, l)
<1>1. Len(s) \in Nat
  BY LenProperties
<1>2. l \in Nat /\ l <= Len(s) /\ 0 \in Nat /\ 0 <= l /\ 0 + 1 = 1
  BY <1>1 DEF Least
<1>3. IsSlice(SubSeq(s, 0 + 1, l), s, 0, l)
  BY <1>2, SliceOf
<1>4. Prefix(s, k) = SubSeq(s, 1, l)
  BY DEF Prefix
<1> QED BY <1>1, <1>2, <1>3, <1>4

(* Prefixes of a length that both have are compared by character.          *)
LEMMA PrefixesEqual ==
  ASSUME NEW u \in Seq(Nat), NEW v \in Seq(Nat), NEW k \in Nat, k <= Len(u), k <= Len(v)
  PROVE  Prefix(u, k) = Prefix(v, k) <=> \A j \in 1 .. k : u[j] = v[j]
<1>1. Len(u) \in Nat /\ Len(v) \in Nat
  BY LenProperties
<1>2. k = Least(k, Len(u)) /\ k = Least(k, Len(v))
  BY <1>1 DEF Least
<1>3. IsSlice(Prefix(u, k), u, 0, k) /\ IsSlice(Prefix(v, k), v, 0, k)
  BY <1>2, PrefixOf
<1>4. PICK p \in Seq(Nat), q \in Seq(Nat) : p = Prefix(u, k) /\ q = Prefix(v, k)
  BY <1>3 DEF IsSlice
<1>5. Len(p) = k /\ Len(q) = k /\ \A j \in 1 .. k : p[j] = u[j] /\ q[j] = v[j]
  <2>1. k - 0 = k /\ \A j \in 1 .. k : 0 + j = j
    OBVIOUS
  <2> QED BY <1>3, <1>4, <2>1 DEF IsSlice
<1>6. ASSUME \A j \in 1 .. k : u[j] = v[j] PROVE p = q
  <2>1. \A j \in 1 .. Len(p) : p[j] = q[j]
    BY <1>5, <1>6
  <2> QED BY <1>5, <2>1, SeqEqual
<1> QED BY <1>4, <1>5, <1>6

(* The i-th character of a string, which ends with NUL.                    *)
CharAt(u, i) == IF i <= Len(u) THEN u[i] ELSE NUL

(* Two strings that are the same in front of the i-th character.           *)
Agree(u, v, i) ==
  /\ u \in Seq(Nat \ {0}) /\ v \in Seq(Nat \ {0})
  /\ i \in Nat \ {0} /\ i <= Len(u) + 1 /\ i <= Len(v) + 1
  /\ \A j \in 1 .. i - 1 : u[j] = v[j]

(* Where two strings first differ, the order is that of the characters.    *)
LEMMA Differ ==
  ASSUME NEW u, NEW v, NEW i, Agree(u, v, i), CharAt(u, i) # CharAt(v, i)
  PROVE  u # v /\ (Before(u, v) <=> CharAt(u, i) < CharAt(v, i))
<1>1. /\ u \in Seq(Nat \ {0}) /\ v \in Seq(Nat \ {0})
      /\ u \in Seq(Nat) /\ v \in Seq(Nat)
      /\ \A j \in 1 .. i - 1 : u[j] = v[j]
  <2>1. Seq(Nat \ {0}) \subseteq Seq(Nat)
    BY SeqMonotonic
  <2> QED BY <2>1 DEF Agree
<1>2. PICK a \in Nat, b \in Nat : a = Len(u) /\ b = Len(v)
  BY <1>1, LenProperties
<1>3. PICK h \in Nat : h = i - 1 /\ i = h + 1 /\ h <= a /\ h <= b
  BY <1>2 DEF Agree
<1>4. (\A j \in 1 .. a : u[j] \in Nat \ {0}) /\ (\A j \in 1 .. b : v[j] \in Nat \ {0})
  BY <1>1, <1>2, ElementOfSeq
<1>5. u # v
  <2>1. SUFFICES ASSUME u = v PROVE FALSE
    OBVIOUS
  <2> QED BY <2>1
<1>6. /\ CharAt(u, i) = IF i <= a THEN u[i] ELSE 0
      /\ CharAt(v, i) = IF i <= b THEN v[i] ELSE 0
  BY <1>2 DEF CharAt, NUL
<1>7. ASSUME NEW k \in 0 .. a, k <= b
      PROVE  Prefix(u, k) = Prefix(v, k) <=> \A j \in 1 .. k : u[j] = v[j]
  <2>1. k \in Nat /\ k <= Len(u) /\ k <= Len(v)
    BY <1>2, <1>7
  <2> QED BY <1>1, <2>1, PrefixesEqual, Zenon
<1>8. ASSUME CharAt(u, i) < CharAt(v, i) PROVE Before(u, v)
  <2>1. i <= b
    <3>1. SUFFICES ASSUME ~(i <= b) PROVE FALSE
      OBVIOUS
    <3>2. CharAt(v, i) = 0
      BY <1>6, <3>1
    <3>3. i \in 1 .. a => u[i] \in Nat
      BY <1>4
    <3> QED BY <1>3, <1>6, <1>8, <3>2, <3>3
  <2>2. h \in 0 .. a /\ h < b
    BY <1>3, <2>1
  <2>3. Prefix(u, h) = Prefix(v, h)
    BY <1>1, <1>3, <1>7, <2>2
  <2>4. h = a \/ u[h + 1] < v[h + 1]
    BY <1>3, <1>6, <1>8, <2>1
  <2> QED BY <1>2, <2>2, <2>3, <2>4, Zenon DEF Before
<1>9. ASSUME Before(u, v) PROVE CharAt(u, i) < CharAt(v, i)
  <2>1. PICK k \in 0 .. a : /\ k < b /\ Prefix(u, k) = Prefix(v, k)
                            /\ k = a \/ u[k + 1] < v[k + 1]
    BY <1>2, <1>9, Zenon DEF Before
  <2>2. \A j \in 1 .. k : u[j] = v[j]
    BY <1>7, <2>1
  <2>3. k <= h
    <3>1. SUFFICES ASSUME i <= k PROVE FALSE
      BY <1>3
    <3>2. i \in 1 .. k /\ i <= a /\ i <= b
      BY <1>3, <2>1, <3>1
    <3> QED BY <1>6, <2>2, <3>2
  <2>4. CASE k < h
    <3>1. k + 1 \in 1 .. i - 1 /\ k + 1 \in 1 .. a /\ k # a
      BY <1>3, <2>4
    <3> QED BY <1>1, <1>4, <2>1, <3>1
  <2>5. CASE k = h
    <3>1. i = k + 1 /\ i <= b /\ i \in 1 .. b
      BY <1>3, <2>1, <2>5
    <3>2. CASE k = a
      <4>1. CharAt(u, i) = 0 /\ CharAt(v, i) = v[i] /\ v[i] \in Nat \ {0}
        BY <1>4, <1>6, <3>1, <3>2
      <4> QED BY <4>1
    <3>3. CASE k # a
      <4>1. i <= a
        BY <3>1, <3>3
      <4> QED BY <1>6, <2>1, <3>1, <3>3, <4>1
    <3> QED BY <3>2, <3>3
  <2> QED BY <2>3, <2>4, <2>5
<1> QED BY <1>5, <1>8, <1>9

(* A string is not in front of itself.                                     *)
LEMMA NotBeforeItself ==
  ASSUME NEW u \in Seq(Nat)
  PROVE  ~Before(u, u)
<1>1. SUFFICES ASSUME Before(u, u) PROVE FALSE
  OBVIOUS
<1>2. PICK k \in 0 .. Len(u) : k < Len(u) /\ (k = Len(u) \/ u[k + 1] < u[k + 1])
  BY <1>1, Zenon DEF Before
<1>3. Len(u) \in Nat /\ k + 1 \in 1 .. Len(u)
  BY <1>2, LenProperties
<1>4. u[k + 1] \in Nat
  BY <1>3, ElementOfSeq
<1> QED BY <1>2, <1>3, <1>4

(* A string in memory.                                                     *)
LEMMA StringInMemory ==
  ASSUME NEW s \in Seq(Nat \ {0})
  PROVE  /\ s \in Seq(Nat) /\ Len(s) \in Nat /\ C(s) \in Seq(Nat) /\ Len(C(s)) = Len(s) + 1
         /\ \A i \in 1 .. Len(s) + 1 : C(s)[i] = CharAt(s, i)
         /\ \A i \in 1 .. Len(s) : s[i] \in Nat \ {0} /\ CharAt(s, i) = s[i]
         /\ CharAt(s, Len(s) + 1) = 0
<1>1. s \in Seq(Nat)
  <2>1. Seq(Nat \ {0}) \subseteq Seq(Nat)
    BY SeqMonotonic
  <2> QED BY <2>1
<1>2. PICK l \in Nat : l = Len(s)
  BY LenProperties
<1>3. \A i \in 1 .. l : s[i] \in Nat \ {0}
  BY <1>2, ElementOfSeq
<1>4. PICK c : c = Append(s, 0)
  OBVIOUS
<1>5. c \in Seq(Nat) /\ Len(c) = l + 1 /\ (\A i \in 1 .. l : c[i] = s[i]) /\ c[l + 1] = 0
  BY <1>1, <1>2, <1>4, AppendProperties
<1>6. C(s) = c
  BY <1>4 DEF C, NUL
<1>7. \A i \in 1 .. l : CharAt(s, i) = s[i]
  BY <1>2 DEF CharAt
<1>8. CharAt(s, l + 1) = 0
  BY <1>2 DEF CharAt, NUL
<1>9. \A i \in 1 .. l + 1 : c[i] = CharAt(s, i)
  BY <1>5, <1>7, <1>8
<1> QED BY <1>1, <1>2, <1>3, <1>5, <1>6, <1>7, <1>8, <1>9

(* A prefix has the same first characters.                                 *)
LEMMA PrefixAt ==
  ASSUME NEW s \in Seq(Nat \ {0}), NEW n \in Nat, NEW i \in 1 .. n, i <= Len(s) + 1,
         NEW u, u = Prefix(s, n)
  PROVE  /\ u \in Seq(Nat \ {0}) /\ i <= Len(u) + 1 /\ CharAt(u, i) = CharAt(s, i)
         /\ \A j \in 1 .. i - 1 : u[j] = s[j]
<1>1. PICK l \in Nat : l = Len(s)
  BY LenProperties
<1>2. PICK m \in Nat : m = Least(n, l) /\ m <= n /\ m <= l /\ (m = n \/ m = l)
  BY DEF Least
<1>3. IsSlice(u, s, 0, m)
  BY <1>1, <1>2, StringInMemory, PrefixOf
<1>4. u \in Seq(Nat) /\ Len(u) = m /\ \A j \in 1 .. m : u[j] = s[j]
  <2>1. m - 0 = m /\ \A j \in 1 .. m : 0 + j = j
    OBVIOUS
  <2> QED BY <1>3, <2>1 DEF IsSlice
<1>5. u \in Seq(Nat \ {0})
  <2>1. u \in [1 .. m -> Nat] 
    BY <1>4, LenProperties
  <2>2. \A j \in 1 .. m : u[j] \in Nat \ {0}
    <3>1. \A j \in 1 .. l : s[j] \in Nat \ {0}
      BY <1>1, StringInMemory
    <3> QED BY <1>2, <1>4, <3>1
  <2>3. u \in [1 .. m -> Nat \ {0}]
    BY <2>1, <2>2
  <2> QED BY <2>3, SeqDef
<1>6. i <= m + 1 /\ i <= l + 1
  BY <1>1, <1>2
<1>7. CharAt(u, i) = CharAt(s, i)
  <2>1. CASE i <= m
    BY <1>1, <1>2, <1>4, <2>1 DEF CharAt
  <2>2. CASE ~(i <= m)
    <3>1. ~(i <= l)
      BY <1>2, <1>6, <2>2
    <3> QED BY <1>1, <1>4, <2>2, <3>1 DEF CharAt
  <2> QED BY <2>1, <2>2
<1>8. \A j \in 1 .. i - 1 : j \in 1 .. m
  BY <1>6
<1> QED BY <1>4, <1>5, <1>6, <1>7, <1>8

(* strncmp compares the prefixes, as it should (lib.c:654).                *)
THEOREM PrefixesCompared ==
  ASSUME NEW s \in Seq(Nat \ {0}), NEW r \in Seq(Nat \ {0}), NEW n \in Nat
  PROVE  StringsCompared(s, r, n)
<1>1. PICK a \in Seq(Nat), b \in Seq(Nat) : a = C(s) /\ b = C(r)
  BY StringInMemory
<1>2. PICK ls \in Nat, lr \in Nat : ls = Len(s) /\ lr = Len(r)
  BY StringInMemory
<1>3. /\ Len(a) = ls + 1 /\ \A i \in 1 .. ls + 1 : a[i] = CharAt(s, i)
      /\ Len(b) = lr + 1 /\ \A i \in 1 .. lr + 1 : b[i] = CharAt(r, i)
  BY <1>1, <1>2, StringInMemory
<1>4. /\ \A i \in 1 .. ls : s[i] \in Nat \ {0} /\ CharAt(s, i) = s[i]
      /\ \A i \in 1 .. lr : r[i] \in Nat \ {0} /\ CharAt(r, i) = r[i]
      /\ CharAt(s, ls + 1) = 0 /\ CharAt(r, lr + 1) = 0
  BY <1>2, StringInMemory
<1> DEFINE stops == {i \in 1 .. n : /\ i <= Len(a) /\ i <= Len(b)
                                    /\ a[i] # b[i] \/ a[i] = NUL}
<1>5. PICK d : d = strncmp(a, b, n)
  OBVIOUS
<1>6. d = IF stops = {} THEN 0
          ELSE a[CHOOSE k \in stops : \A j \in stops : k <= j]
                 - b[CHOOSE k \in stops : \A j \in stops : k <= j]
  BY <1>5, Zenon DEF strncmp
<1>7. \A i : i \in stops <=> /\ i \in 1 .. n /\ i <= ls + 1 /\ i <= lr + 1
                             /\ CharAt(s, i) # CharAt(r, i) \/ CharAt(s, i) = 0
  BY <1>3 DEF NUL
<1> HIDE DEF stops
<1>8. PICK u, v : u = Prefix(s, n) /\ v = Prefix(r, n)
  OBVIOUS
<1>9. CASE stops = {}
  <2>1. n <= ls /\ n <= lr
    <3>1. PICK m \in Nat : m = Least(ls, lr) /\ m <= ls /\ m <= lr /\ (m = ls \/ m = lr)
      BY DEF Least
    <3>2. SUFFICES ASSUME m < n PROVE FALSE
      BY <3>1
    <3>3. PICK i \in Nat : i = m + 1
      OBVIOUS
    <3>4. i \in 1 .. n /\ i <= ls + 1 /\ i <= lr + 1
      BY <3>1, <3>2, <3>3
    <3>5. CharAt(s, i) = CharAt(r, i) /\ CharAt(s, i) # 0
      BY <1>7, <1>9, <3>4
    <3>6. i # ls + 1 /\ i # lr + 1
      BY <1>4, <3>5
    <3> QED BY <3>1, <3>3, <3>6
  <2>2. \A j \in 1 .. n : s[j] = r[j]
    <3>1. SUFFICES ASSUME NEW j \in 1 .. n PROVE s[j] = r[j]
      OBVIOUS
    <3>2. j \in 1 .. n /\ j <= ls + 1 /\ j <= lr + 1 /\ j \in 1 .. ls /\ j \in 1 .. lr
      BY <2>1
    <3>3. j \notin stops
      BY <1>9
    <3>4. CharAt(s, j) = CharAt(r, j)
      BY <1>7, <3>2, <3>3, Zenon
    <3> QED BY <1>4, <3>2, <3>4
  <2>3. u = v /\ u \in Seq(Nat)
    <3>1. s \in Seq(Nat) /\ r \in Seq(Nat) /\ n <= Len(s) /\ n <= Len(r)
      BY <1>2, <2>1, StringInMemory
    <3>2. u = v
      BY <1>8, <2>2, <3>1, PrefixesEqual
    <3>3. PICK l : l = Least(n, Len(s))
      OBVIOUS
    <3>4. IsSlice(u, s, 0, l)
      BY <1>8, <3>1, <3>3, PrefixOf
    <3> QED BY <3>2, <3>4 DEF IsSlice
  <2>4. d = 0 /\ ~Before(u, v)
    BY <1>6, <1>9, <2>3, NotBeforeItself
  <2> QED BY <1>1, <1>5, <1>8, <2>3, <2>4 DEF StringsCompared
<1>10. CASE stops # {}
  <2>1. stops \subseteq Nat
    BY <1>7
  <2>2. PICK i \in stops : \A j \in stops : i <= j
    BY <1>10, <2>1, LeastNatural
  <2>3. (CHOOSE k \in stops : \A j \in stops : k <= j) = i
    <3>1. \A k \in stops : (\A j \in stops : k <= j) => k = i
      BY <2>1, <2>2
    <3> QED BY <2>2, <3>1
  <2>4. /\ i \in 1 .. n /\ i <= ls + 1 /\ i <= lr + 1
        /\ CharAt(s, i) # CharAt(r, i) \/ CharAt(s, i) = 0
    BY <1>7, <2>2
  <2>5. d = CharAt(s, i) - CharAt(r, i)
    <3>1. a[i] = CharAt(s, i) /\ b[i] = CharAt(r, i)
      BY <1>3, <2>4
    <3> QED BY <1>6, <1>10, <2>3, <3>1
  <2>6. \A j \in 1 .. i - 1 : s[j] = r[j]
    <3>1. ASSUME NEW j \in 1 .. i - 1 PROVE s[j] = r[j]
      <4>1. /\ j \in 1 .. n /\ j <= ls + 1 /\ j <= lr + 1 /\ j \in 1 .. ls /\ j \in 1 .. lr
            /\ ~(i <= j)
        BY <2>4
      <4>2. j \notin stops
        BY <2>2, <4>1, Zenon
      <4>3. CharAt(s, j) = CharAt(r, j)
        BY <1>7, <4>1, <4>2, Zenon
      <4> QED BY <1>4, <4>1, <4>3
    <3> QED BY <3>1
  <2>7. /\ u \in Seq(Nat \ {0}) /\ i <= Len(u) + 1 /\ CharAt(u, i) = CharAt(s, i)
        /\ \A j \in 1 .. i - 1 : u[j] = s[j]
    <3>1. i \in 1 .. n /\ i <= Len(s) + 1
      BY <1>2, <2>4, Zenon
    <3> QED BY <1>8, <3>1, PrefixAt, Zenon
  <2>8. /\ v \in Seq(Nat \ {0}) /\ i <= Len(v) + 1 /\ CharAt(v, i) = CharAt(r, i)
        /\ \A j \in 1 .. i - 1 : v[j] = r[j]
    <3>1. i \in 1 .. n /\ i <= Len(r) + 1
      BY <1>2, <2>4, Zenon
    <3> QED BY <1>8, <3>1, PrefixAt, Zenon
  <2>9. /\ CharAt(s, i) \in Nat /\ CharAt(r, i) \in Nat
        /\ CharAt(s, i) = 0 => i = ls + 1
        /\ CharAt(r, i) = 0 => i = lr + 1
    <3>1. (i \in 1 .. ls \/ i = ls + 1) /\ (i \in 1 .. lr \/ i = lr + 1)
      BY <2>4
    <3>2. CharAt(s, i) \in Nat /\ (CharAt(s, i) = 0 => i = ls + 1)
      <4>1. i \in 1 .. ls => CharAt(s, i) \in Nat \ {0}
        BY <1>4
      <4> QED BY <1>4, <3>1, <4>1
    <3>3. CharAt(r, i) \in Nat /\ (CharAt(r, i) = 0 => i = lr + 1)
      <4>1. i \in 1 .. lr => CharAt(r, i) \in Nat \ {0}
        BY <1>4
      <4> QED BY <1>4, <3>1, <4>1
    <3> QED BY <3>2, <3>3
  <2>10. CASE CharAt(s, i) # CharAt(r, i)
    <3>1. Agree(u, v, i)
      BY <2>4, <2>6, <2>7, <2>8 DEF Agree
    <3>2. u # v /\ (Before(u, v) <=> CharAt(s, i) < CharAt(r, i))
      BY <2>7, <2>8, <2>10, <3>1, Differ
    <3>3. d # 0 /\ (d < 0 <=> CharAt(s, i) < CharAt(r, i))
      BY <2>5, <2>9, <2>10
    <3> QED BY <1>1, <1>5, <1>8, <3>2, <3>3 DEF StringsCompared
  <2>11. CASE CharAt(s, i) = CharAt(r, i)
    <3>1. CharAt(s, i) = 0 /\ CharAt(r, i) = 0
      BY <2>4, <2>11
    <3>2. i = ls + 1 /\ i = lr + 1
      BY <2>9, <3>1
    <3>3. s = r
      <4>1. Len(s) = Len(r) /\ \A j \in 1 .. Len(s) : s[j] = r[j]
        BY <1>2, <2>6, <3>2
      <4> QED BY <4>1, SeqEqual
    <3>4. u = v /\ u \in Seq(Nat)
      BY <1>8, <2>7, <3>3, StringInMemory
    <3>5. d = 0 /\ ~Before(u, v)
      BY <2>5, <3>1, <3>4, NotBeforeItself
    <3> QED BY <1>1, <1>5, <1>8, <3>4, <3>5 DEF StringsCompared
  <2> QED BY <2>10, <2>11
<1> QED BY <1>9, <1>10

(* A buffer with a string in it, terminated.                               *)
HasString(buf, s, l) ==
  /\ l \in Nat /\ buf \in [1 .. l -> Nat] /\ s \in Seq(Nat \ {0}) /\ Len(s) < l
  /\ \A i \in 1 .. Len(s) + 1 : buf[i] = CharAt(s, i)

(* The code reads that string in it;                                       *)
LEMMA StringOfBuffer ==
  ASSUME NEW buf, NEW s, NEW l, HasString(buf, s, l)
  PROVE  strlen(buf) = Len(s) /\ Text(buf) = s
<1>1. l \in Nat /\ buf \in [1 .. l -> Nat] /\ s \in Seq(Nat \ {0}) /\ s \in Seq(Nat)
  BY StringInMemory DEF HasString
<1>2. PICK k \in Nat : k = Len(s) /\ k < l
  BY <1>1, StringInMemory DEF HasString
<1>3. buf \in Seq(Nat) /\ Len(buf) = l
  <2>1. buf \in Seq(Nat)
    BY <1>1, SeqDef
  <2> QED BY <1>1, <2>1, LenProperties
<1>4. /\ \A i \in 1 .. k + 1 : buf[i] = CharAt(s, i)
      /\ \A i \in 1 .. k : s[i] \in Nat \ {0} /\ CharAt(s, i) = s[i]
      /\ CharAt(s, k + 1) = 0
  BY <1>1, <1>2, StringInMemory DEF HasString
<1>5. buf[k + 1] = 0 /\ \A i \in 1 .. k : buf[i] = s[i] /\ buf[i] # 0
  <2>1. buf[k + 1] = 0
    BY <1>4
  <2>2. ASSUME NEW i \in 1 .. k PROVE buf[i] = s[i] /\ buf[i] # 0
    <3>1. i \in 1 .. k + 1
      OBVIOUS
    <3> QED BY <1>4, <3>1
  <2> QED BY <2>1, <2>2
<1>6. strlen(buf) = k
  <2>1. ASSUME NEW n \in 0 .. l, buf[n + 1] = 0, \A i \in 1 .. n : buf[i] # 0
        PROVE  n = k
    <3>1. ~(n < k)
      <4>1. n < k => n + 1 \in 1 .. k
        OBVIOUS
      <4> QED BY <1>5, <2>1, <4>1
    <3>2. ~(k < n)
      <4>1. k < n => k + 1 \in 1 .. n
        OBVIOUS
      <4> QED BY <1>5, <2>1, <4>1
    <3> QED BY <3>1, <3>2
  <2>2. k \in 0 .. l
    BY <1>1, <1>2
  <2>3. strlen(buf) = CHOOSE n \in 0 .. l : buf[n + 1] = 0 /\ \A i \in 1 .. n : buf[i] # 0
    BY <1>3, Zenon DEF strlen, NUL
  <2> QED BY <1>5, <2>1, <2>2, <2>3
<1>7. Text(buf) = s
  <2>1. PICK u : u = SubSeq(buf, 1, k)
    OBVIOUS
  <2>2. IsSlice(u, buf, 0, k)
    <3>1. 0 \in Nat /\ 0 <= k /\ k <= Len(buf) /\ 0 + 1 = 1
      BY <1>2, <1>3
    <3>2. IsSlice(SubSeq(buf, 0 + 1, k), buf, 0, k)
      BY <1>3, <3>1, SliceOf
    <3> QED BY <2>1, <3>1, <3>2
  <2>3. u \in Seq(Nat) /\ Len(u) = k /\ \A i \in 1 .. k : u[i] = buf[i]
    <3>1. k - 0 = k /\ \A j \in 1 .. k : 0 + j = j
      OBVIOUS
    <3> QED BY <2>2, <3>1 DEF IsSlice
  <2>4. u = s
    BY <1>1, <1>2, <1>5, <2>3, SeqEqual
  <2> QED BY <1>6, <2>1, <2>4 DEF Text
<1> QED BY <1>2, <1>6, <1>7

(* and C(s) is the smallest such buffer.                                   *)
LEMMA CHasString ==
  ASSUME NEW s \in Seq(Nat \ {0})
  PROVE  HasString(C(s), s, Len(s) + 1)
<1>1. /\ Len(s) \in Nat /\ C(s) \in Seq(Nat) /\ Len(C(s)) = Len(s) + 1
      /\ \A i \in 1 .. Len(s) + 1 : C(s)[i] = CharAt(s, i)
  BY StringInMemory
<1>2. C(s) \in [1 .. Len(s) + 1 -> Nat]
  BY <1>1, LenProperties
<1> QED BY <1>1, <1>2 DEF HasString

(* getargs hands out the arguments if they fit, terminated if there is     *)
(* room for the NUL, and leaves the rest of the buffer alone               *)
(* (system_call.c:432).                                                    *)
THEOREM ArgumentsFit ==
  ASSUME NEW s \in Seq(Nat \ {0}), Len(s) <= MaxString, NEW n \in Nat
  PROVE  ArgumentsDelivered(s, n)
<1>1. PICK ls \in Nat : ls = Len(s)
  BY StringInMemory
<1>2. PICK l \in Nat : l = MaxString + 2 /\ ls + 1 < l
  BY <1>1, MaxStringAssumption
<1>3. PICK Old : Old = [i \in 1 .. l |-> 9]
  OBVIOUS
<1>4. PICK c : c = C(s)
  OBVIOUS
<1>5. HasString(c, s, ls + 1) /\ strlen(c) = ls
  BY <1>1, <1>4, CHasString, StringOfBuffer
<1>6. /\ \A i \in 1 .. ls + 1 : c[i] = CharAt(s, i)
      /\ \A i \in 1 .. ls : s[i] \in Nat \ {0} /\ CharAt(s, i) = s[i]
      /\ CharAt(s, ls + 1) = 0
  BY <1>1, <1>5, StringInMemory DEF HasString
<1>7. \A i \in 1 .. ls : c[i] = s[i] /\ c[i] \in Nat
  BY <1>6
<1>8. PICK pcb : pcb = strcpy(Old, c)
  OBVIOUS
<1>9. pcb = [i \in 1 .. l |-> IF i <= ls THEN c[i] ELSE IF i = ls + 1 THEN 0 ELSE Old[i]]
  <2>1. DOMAIN Old = 1 .. l
    BY <1>3
  <2> QED BY <1>5, <1>8, <2>1, Zenon DEF strcpy, NUL
<1>10. HasString(pcb, s, l)
  <2>1. pcb \in [1 .. l -> Nat]
    BY <1>3, <1>7, <1>9
  <2>2. ASSUME NEW i \in 1 .. ls + 1 PROVE pcb[i] = CharAt(s, i)
    BY <1>2, <1>6, <1>7, <1>9
  <2> QED BY <1>1, <1>2, <2>1, <2>2 DEF HasString
<1>11. Text(pcb) = s
  BY <1>10, StringOfBuffer
<1>12. PICK buf : buf = strncpy(Old, c, n)
  OBVIOUS
<1>13. buf = [i \in 1 .. l |-> IF i <= n THEN (IF i <= ls THEN c[i] ELSE 0) ELSE Old[i]]
  <2>1. DOMAIN Old = 1 .. l
    BY <1>3
  <2> QED BY <1>5, <1>12, <2>1, Zenon DEF strncpy, NUL
<1>14. buf \in [1 .. l -> Nat] /\ buf \in Seq(Nat) /\ Len(buf) = l
  <2>1. buf \in [1 .. l -> Nat]
    BY <1>3, <1>7, <1>13
  <2>2. buf \in Seq(Nat)
    BY <2>1, SeqDef
  <2> QED BY <2>1, <2>2, LenProperties
<1>15. PICK got : got = getargs(s, Old, n)
  OBVIOUS
<1>16. got = IF s = <<>> \/ ls > n THEN [result |-> -1, buf |-> Old] ELSE [result |-> 0, buf |-> buf]
  BY <1>1, <1>4, <1>12, <1>15, Zenon DEF getargs
<1>17. /\ s = <<>> \/ ls > n => got.result = -1 /\ got.buf = Old
       /\ ~(s = <<>> \/ ls > n) => got.result = 0 /\ got.buf = buf
  BY <1>16
<1>18. got.result = 0 <=> s # <<>> /\ ls <= n
  BY <1>17
<1>19. ASSUME ls <= n PROVE Prefix(buf, ls) = s
  <2>1. \A i \in 1 .. ls : buf[i] = s[i]
    BY <1>2, <1>7, <1>13, <1>19
  <2>2. s \in Seq(Nat) /\ ls <= Len(s) /\ ls <= Len(buf)
    BY <1>1, <1>2, <1>14, StringInMemory
  <2>3. Prefix(buf, ls) = Prefix(s, ls)
    BY <1>14, <2>1, <2>2, PrefixesEqual
  <2>4. Prefix(s, ls) = s
    <3>1. Least(ls, Len(s)) = ls
      BY <1>1 DEF Least
    <3>2. SubSeq(s, 1, Len(s)) = s
      BY <2>2, SubSeqFull
    <3> QED BY <1>1, <3>1, <3>2 DEF Prefix
  <2> QED BY <2>3, <2>4
<1>20. ASSUME ls < n PROVE Text(buf) = s
  <2>1. ASSUME NEW i \in 1 .. ls + 1 PROVE buf[i] = CharAt(s, i)
    BY <1>2, <1>6, <1>7, <1>13, <1>20
  <2>2. HasString(buf, s, l)
    BY <1>1, <1>2, <1>14, <2>1 DEF HasString
  <2> QED BY <2>2, StringOfBuffer
<1>21. \A i \in n + 1 .. l : buf[i] = Old[i]
  BY <1>13
<1>22. /\ got.result = 0 <=> s # <<>> /\ Len(s) <= n
       /\ got.result = 0 => Prefix(got.buf, Len(s)) = s
       /\ got.result = 0 /\ Len(s) < n => Text(got.buf) = s
       /\ \A i \in n + 1 .. l : got.buf[i] = Old[i]
  BY <1>1, <1>17, <1>18, <1>19, <1>20, <1>21
<1>23. Old = [i \in 1 .. MaxString + 2 |-> 9] /\ got = getargs(Text(strcpy(Old, C(s))), Old, n)
  BY <1>2, <1>3, <1>4, <1>8, <1>11, <1>15
<1> QED BY <1>2, <1>22, <1>23, Zenon DEF ArgumentsDelivered

-----------------------------------------------------------------------------
(* Part 6.  Numbers: itoa and printf, for words of every width.            *)

(* TwoTo is what its equation says.                                        *)
IsPower(f, n) == f \in [0 .. n -> Nat] /\ \A k \in 0 .. n : f[k] = IF k = 0 THEN 1 ELSE 2 * f[k - 1]

(* There is such a function up to every number ...                          *)
LEMMA PowerExists == \A n \in Nat : \E f : IsPower(f, n)
<1> DEFINE S == {n \in Nat : \E f : IsPower(f, n)}
<1>1. 0 \in S
  <2>1. PICK f : f = [k \in 0 .. 0 |-> 1]
    OBVIOUS
  <2>2. IsPower(f, 0)
    BY <2>1 DEF IsPower
  <2> QED BY <2>2
<1>2. ASSUME NEW n \in Nat, n \in S PROVE n + 1 \in S
  <2>1. PICK f : IsPower(f, n)
    BY <1>2
  <2>2. PICK j \in Nat : j = n + 1
    OBVIOUS
  <2>3. PICK g : g = [k \in 0 .. j |-> IF k = j THEN 2 * f[n] ELSE f[k]]
    OBVIOUS
  <2>4. f \in [0 .. n -> Nat] /\ n \in 0 .. n
    BY <2>1 DEF IsPower
  <2>5. g \in [0 .. j -> Nat]
    BY <2>2, <2>3, <2>4
  <2>6. ASSUME NEW k \in 0 .. j PROVE g[k] = IF k = 0 THEN 1 ELSE 2 * g[k - 1]
    <3>1. k = j => g[k] = 2 * f[n] /\ g[k - 1] = f[n] /\ k # 0
      BY <2>2, <2>3
    <3>2. k # j => k \in 0 .. n /\ g[k] = f[k] /\ (k # 0 => k - 1 \in 0 .. n /\ g[k - 1] = f[k - 1])
      BY <2>2, <2>3
    <3>3. k # j => f[k] = IF k = 0 THEN 1 ELSE 2 * f[k - 1]
      BY <2>1, <3>2 DEF IsPower
    <3> QED BY <3>1, <3>2, <3>3
  <2>7. IsPower(g, j)
    BY <2>5, <2>6 DEF IsPower
  <2> HIDE DEF IsPower
  <2> QED BY <2>2, <2>7
<1> HIDE DEF S
<1>3. \A n \in Nat : n \in S
  BY <1>1, <1>2, Induction
<1> QED BY <1>3 DEF S

(* ... two of them agree ...                                               *)
LEMMA PowersAgree ==
  ASSUME NEW m \in Nat, NEW n \in Nat, NEW f, NEW g, IsPower(f, m), IsPower(g, n), m <= n
  PROVE  \A k \in 0 .. m : f[k] = g[k]
<1> DEFINE S == {k \in Nat : k <= m => f[k] = g[k]}
<1>1. /\ \A k \in 0 .. m : f[k] = IF k = 0 THEN 1 ELSE 2 * f[k - 1]
      /\ \A k \in 0 .. n : g[k] = IF k = 0 THEN 1 ELSE 2 * g[k - 1]
  BY DEF IsPower
<1>2. 0 \in S
  <2>1. 0 \in 0 .. m /\ 0 \in 0 .. n
    OBVIOUS
  <2> QED BY <1>1, <2>1
<1>3. ASSUME NEW k \in Nat, k \in S PROVE k + 1 \in S
  <2>1. PICK j \in Nat : j = k + 1 /\ j - 1 = k /\ j # 0
    OBVIOUS
  <2>2. j <= m => f[j] = 2 * f[k] /\ g[j] = 2 * g[k] /\ f[k] = g[k]
    BY <1>1, <1>3, <2>1
  <2> QED BY <2>1, <2>2
<1> HIDE DEF S
<1>4. \A k \in Nat : k \in S
  BY <1>2, <1>3, Induction
<1> QED BY <1>4 DEF S

(* ... and TwoTo is one of them everywhere.                                *)
LEMMA TwoToIs ==
  /\ TwoTo \in [Nat -> Nat \ {0}]
  /\ TwoTo[0] = 1
  /\ \A n \in Nat : TwoTo[n + 1] = 2 * TwoTo[n]
<1> DEFINE f == [n \in Nat |-> (CHOOSE g : IsPower(g, n))[n]]
<1>1. ASSUME NEW n \in Nat
      PROVE  \E g : IsPower(g, n) /\ f[n] = g[n]
  <2>1. IsPower(CHOOSE g : IsPower(g, n), n)
    BY PowerExists
  <2> QED BY <2>1
<1> HIDE DEF f
<1>2. ASSUME NEW n \in Nat PROVE f[n] \in Nat /\ f[n] = IF n = 0 THEN 1 ELSE 2 * f[n - 1]
  <2>1. PICK g : IsPower(g, n) /\ f[n] = g[n]
    BY <1>1
  <2>2. n \in 0 .. n
    OBVIOUS
  <2>3. f[n] \in Nat /\ f[n] = IF n = 0 THEN 1 ELSE 2 * g[n - 1]
    BY <2>1, <2>2 DEF IsPower
  <2>4. n # 0 => g[n - 1] = f[n - 1]
    <3>1. SUFFICES ASSUME n # 0 PROVE g[n - 1] = f[n - 1]
      OBVIOUS
    <3>2. PICK m \in Nat : m = n - 1 /\ m <= n /\ m \in 0 .. m
      BY <3>1
    <3>3. PICK h : IsPower(h, m) /\ f[m] = h[m]
      BY <1>1
    <3>4. h[m] = g[m]
      BY <2>1, <3>2, <3>3, PowersAgree
    <3> QED BY <3>2, <3>3, <3>4
  <2> QED BY <2>3, <2>4
<1> DEFINE Is(g) == g = [n \in Nat |-> IF n = 0 THEN 1 ELSE 2 * g[n - 1]]
<1>3. Is(f)
  <2>1. f = [n \in Nat |-> f[n]]
    BY DEF f
  <2> QED BY <1>2, <2>1, Zenon
<1>4. TwoTo = CHOOSE g : Is(g)
  BY DEF TwoTo
<1>5. Is(TwoTo)
  BY <1>3, <1>4
<1>6. \A n \in Nat : TwoTo[n] = IF n = 0 THEN 1 ELSE 2 * TwoTo[n - 1]
  BY <1>5
<1> HIDE DEF Is
<1>7. TwoTo[0] = 1
  BY <1>6
<1>8. ASSUME NEW n \in Nat PROVE TwoTo[n + 1] = 2 * TwoTo[n]
  <2>1. n + 1 \in Nat /\ n + 1 # 0 /\ n + 1 - 1 = n
    OBVIOUS
  <2> QED BY <1>6, <2>1
<1> DEFINE S == {n \in Nat : TwoTo[n] \in Nat \ {0}}
<1>9. 0 \in S
  BY <1>7
<1>10. ASSUME NEW n \in Nat, n \in S PROVE n + 1 \in S
  BY <1>8, <1>10
<1> HIDE DEF S
<1>11. \A n \in Nat : n \in S
  BY <1>9, <1>10, Induction
<1>12. TwoTo = [n \in Nat |-> IF n = 0 THEN 1 ELSE 2 * TwoTo[n - 1]]
  BY <1>5 DEF Is
<1>13. \A n \in Nat : TwoTo[n] \in Nat \ {0}
  BY <1>11 DEF S
<1>14. TwoTo \in [Nat -> Nat \ {0}]
  BY <1>12, <1>13
<1> QED BY <1>7, <1>8, <1>14

(* The values of the first digits, of the first two, and so on.            *)
IsValues(r, d, n, radix) ==
  /\ r \in [0 .. n -> Nat] /\ r[0] = 0
  /\ \A k \in 1 .. n : r[k] = radix * r[k - 1] + d[k]

(* Value is the last of them.                                              *)
LEMMA ValueRun ==
  ASSUME NEW d \in Seq(Nat), NEW n \in Nat, n = Len(d), NEW radix \in Nat
  PROVE  \E r : IsValues(r, d, n, radix) /\ r[n] = Value(d, radix)
<1>1. PICK T : T = Nat
  OBVIOUS
<1>2. d \in [1 .. n -> Nat] /\ DOMAIN d = 1 .. n
  BY LenProperties
<1> DEFINE op(v, k) == radix * v + d[k]
<1>3. ASSUME NEW k \in 1 .. n, NEW v \in T PROVE op(v, k) \in T
  <2>1. d[k] \in Nat /\ v \in Nat
    BY <1>1, <1>2
  <2>2. radix * v \in Nat
    BY <2>1
  <2> QED BY <1>1, <2>1, <2>2
<1>4. PICK step : step = [k \in 1 .. n |-> [v \in T |-> op(v, k)]]
  OBVIOUS
<1>5. \A k \in 1 .. n : \A v \in T : op(v, k) \in T
  BY <1>3
<1> HIDE DEF op
<1>6. \A k \in 1 .. n : \A v \in T : step[k][v] = op(v, k)
  BY <1>4
<1>7. 0 \in T /\ Steps(step, n, T)
  BY <1>5, <1>6, <1>1 DEF Steps
<1>8. PICK f : IsFold(f, 0, n, step, T)
  BY <1>7, FoldExists
<1> DEFINE Is(g) == g = [q \in SUBSET (1 .. n) |-> IF q = {} THEN 0 ELSE op(g[q \ {Max(q)}], Max(q))]
<1>9. Is(f)
  <2>1. f \in [SUBSET (1 .. n) -> T] /\ f[{}] = 0
    BY <1>8 DEF IsFold
  <2>2. ASSUME NEW q \in SUBSET (1 .. n), q # {}
        PROVE  f[q] = op(f[q \ {Max(q)}], Max(q))
    <3>1. Max(q) \in 1 .. n /\ q \ {Max(q)} \in SUBSET (1 .. n)
      BY <2>2, MaxOf
    <3>2. f[q \ {Max(q)}] \in T
      BY <2>1, <3>1
    <3>3. f[q] = step[Max(q)][f[q \ {Max(q)}]]
      BY <1>8, <2>2 DEF IsFold
    <3> QED BY <1>6, <3>1, <3>2, <3>3
  <2>3. \A q \in SUBSET (1 .. n) : f[q] = IF q = {} THEN 0 ELSE op(f[q \ {Max(q)}], Max(q))
    BY <2>1, <2>2, Zenon
  <2>4. f = [q \in SUBSET (1 .. n) |-> f[q]]
    BY <2>1
  <2> QED BY <2>3, <2>4, Zenon
<1>10. Value(d, radix) = (CHOOSE g : Is(g))[1 .. n]
  BY <1>2, Zenon DEF Value, FoldLeft, MapThenFoldSet, op
<1>11. PICK g : Is(g) /\ Value(d, radix) = g[1 .. n]
  BY <1>9, <1>10
<1>12. g[{}] = 0 /\ \A k \in 1 .. n : g[1 .. k] = op(g[1 .. k - 1], k)
  <2>1. g[{}] = 0
    BY <1>11
  <2>2. ASSUME NEW k \in 1 .. n PROVE g[1 .. k] = op(g[1 .. k - 1], k)
    <3>1. /\ Max(1 .. k) = k /\ (1 .. k) \ {k} = 1 .. k - 1
          /\ 1 .. k \in SUBSET (1 .. n) /\ 1 .. k # {}
      BY MaxInterval
    <3> QED BY <1>11, <3>1
  <2> QED BY <2>1, <2>2
<1>13. Follows(g, 0, n, step, T)
  BY <1>6, <1>12 DEF Follows
<1>14. PICK r : IsRun(r, 0, n, step, T) /\ r[n] = g[1 .. n]
  BY <1>7, <1>13, FoldRun
<1>15. r \in [0 .. n -> T] /\ r[0] = 0 /\ r[n] = Value(d, radix)
  BY <1>11, <1>14 DEF IsRun
<1>16. ASSUME NEW k \in 1 .. n PROVE r[k] = op(r[k - 1], k)
  <2>1. k - 1 \in 0 .. n
    OBVIOUS
  <2> QED BY <1>6, <1>14, <1>15, <2>1 DEF IsRun
<1>17. IsValues(r, d, n, radix)
  BY <1>1, <1>15, <1>16 DEF IsValues, op
<1> QED BY <1>15, <1>17

(* Digits that begin in the same way have the same values so far.          *)
LEMMA ValuesAgree ==
  ASSUME NEW m \in Nat, NEW n \in Nat, m <= n, NEW radix \in Nat, NEW c, NEW d, NEW r, NEW s,
         IsValues(r, c, m, radix), IsValues(s, d, n, radix), \A k \in 1 .. m : c[k] = d[k]
  PROVE  \A k \in 0 .. m : r[k] = s[k]
<1> DEFINE S == {k \in Nat : k <= m => r[k] = s[k]}
<1>1. /\ r[0] = 0 /\ s[0] = 0
      /\ \A k \in 1 .. m : r[k] = radix * r[k - 1] + c[k]
      /\ \A k \in 1 .. n : s[k] = radix * s[k - 1] + d[k]
  BY DEF IsValues
<1>2. 0 \in S
  BY <1>1
<1>3. ASSUME NEW k \in Nat, k \in S PROVE k + 1 \in S
  <2>1. PICK j \in Nat : j = k + 1 /\ j - 1 = k
    OBVIOUS
  <2>2. j <= m => j \in 1 .. m /\ j \in 1 .. n /\ r[k] = s[k] /\ c[j] = d[j]
    BY <1>3, <2>1
  <2>3. j <= m => r[j] = radix * r[k] + c[j] /\ s[j] = radix * s[k] + d[j]
    BY <1>1, <2>1, <2>2
  <2>4. j <= m => r[j] = s[j]
    BY <2>2, <2>3
  <2> QED BY <2>1, <2>4
<1> HIDE DEF S
<1>4. \A k \in Nat : k \in S
  BY <1>2, <1>3, Induction
<1> QED BY <1>4 DEF S

(* The value of no digits, and of one digit more.                          *)
LEMMA ValueIs ==
  ASSUME NEW radix \in Nat
  PROVE  /\ Value(<<>>, radix) = 0
         /\ \A d \in Seq(Nat), x \in Nat :
              /\ Value(d, radix) \in Nat
              /\ Value(Append(d, x), radix) = radix * Value(d, radix) + x
<1>1. Value(<<>>, radix) = 0
  <2>1. <<>> \in Seq(Nat) /\ Len(<<>>) = 0 /\ 0 \in Nat
    OBVIOUS
  <2>2. PICK r : IsValues(r, <<>>, 0, radix) /\ r[0] = Value(<<>>, radix)
    BY <2>1, ValueRun
  <2> QED BY <2>2 DEF IsValues
<1>2. ASSUME NEW d \in Seq(Nat), NEW x \in Nat
      PROVE  /\ Value(d, radix) \in Nat
             /\ Value(Append(d, x), radix) = radix * Value(d, radix) + x
  <2>1. PICK n \in Nat, m \in Nat : n = Len(d) /\ m = n + 1 /\ m - 1 = n /\ n <= m
    BY LenProperties
  <2>2. PICK e : e = Append(d, x)
    OBVIOUS
  <2>3. e \in Seq(Nat) /\ Len(e) = m /\ e[m] = x /\ \A k \in 1 .. n : e[k] = d[k]
    BY <2>1, <2>2, AppendProperties
  <2>4. PICK r : IsValues(r, d, n, radix) /\ r[n] = Value(d, radix)
    BY <2>1, ValueRun
  <2>5. PICK s : IsValues(s, e, m, radix) /\ s[m] = Value(e, radix)
    BY <2>3, ValueRun
  <2>6. r[n] = s[n]
    <3>1. \A k \in 1 .. n : d[k] = e[k]
      BY <2>3
    <3>2. \A k \in 0 .. n : r[k] = s[k]
      BY <2>1, <2>4, <2>5, <3>1, ValuesAgree
    <3> QED BY <2>1, <3>2
  <2>7. s[m] = radix * s[n] + e[m]
    <3>1. m \in 1 .. m
      BY <2>1
    <3> QED BY <2>1, <2>5, <3>1 DEF IsValues
  <2>8. r[n] \in Nat
    BY <2>1, <2>4 DEF IsValues
  <2> QED BY <2>2, <2>3, <2>4, <2>5, <2>6, <2>7, <2>8
<1> QED BY <1>1, <1>2

(* A swap of the k-th digit from the left with the k-th from the right.    *)
Swapped(v, n, k) == [v EXCEPT ![k] = v[n + 1 - k], ![n + 1 - k] = v[k]]

IsSwaps(r, s, n, h) ==
  /\ r \in [0 .. h -> [1 .. n -> Nat]] /\ r[0] = s
  /\ \A k \in 1 .. h : r[k] = Swapped(r[k - 1], n, k)

(* strrev makes these swaps up to the middle.                              *)
LEMMA StrrevRun ==
  ASSUME NEW s \in Seq(Nat), NEW n \in Nat, n = Len(s), NEW h \in Nat, h = n \div 2
  PROVE  \E r : IsSwaps(r, s, n, h) /\ r[h] = strrev(s)
<1>1. PICK T : T = [1 .. n -> Nat]
  OBVIOUS
<1>2. s \in T /\ h <= n
  BY <1>1, LenProperties
<1> DEFINE c == [i \in 1 .. Len(s) \div 2 |-> i]
<1>3. DOMAIN c = 1 .. h /\ \A k \in 1 .. h : c[k] = k
  OBVIOUS
<1> DEFINE op(v, k) == [v EXCEPT ![c[k]] = v[Len(s) + 1 - c[k]], ![Len(s) + 1 - c[k]] = v[c[k]]]
<1>4. ASSUME NEW k \in 1 .. h, NEW v \in T PROVE op(v, k) = Swapped(v, n, k) /\ op(v, k) \in T
  <2>1. op(v, k) = Swapped(v, n, k)
    BY <1>3 DEF Swapped
  <2>2. k \in 1 .. n /\ n + 1 - k \in 1 .. n
    BY <1>2
  <2>3. PICK i \in 1 .. n, j \in 1 .. n : i = k /\ j = n + 1 - k
    BY <2>2
  <2>4. [v EXCEPT ![i] = v[j], ![j] = v[i]] \in T
    BY <1>1
  <2> QED BY <2>1, <2>3, <2>4 DEF Swapped
<1>5. PICK step : step = [k \in 1 .. h |-> [v \in T |-> op(v, k)]]
  OBVIOUS
<1>6. \A k \in 1 .. h : \A v \in T : op(v, k) \in T
  BY <1>4
<1> HIDE DEF op
<1>7. \A k \in 1 .. h : \A v \in T : step[k][v] = op(v, k)
  BY <1>5
<1>8. Steps(step, h, T)
  BY <1>6, <1>7 DEF Steps
<1>9. PICK f : IsFold(f, s, h, step, T)
  BY <1>2, <1>8, FoldExists
<1> DEFINE Is(g) == g = [q \in SUBSET (1 .. h) |-> IF q = {} THEN s ELSE op(g[q \ {Max(q)}], Max(q))]
<1>10. Is(f)
  <2>1. f \in [SUBSET (1 .. h) -> T] /\ f[{}] = s
    BY <1>9 DEF IsFold
  <2>2. ASSUME NEW q \in SUBSET (1 .. h), q # {}
        PROVE  f[q] = op(f[q \ {Max(q)}], Max(q))
    <3>1. Max(q) \in 1 .. h /\ q \ {Max(q)} \in SUBSET (1 .. h)
      BY <2>2, MaxOf
    <3>2. f[q \ {Max(q)}] \in T
      BY <2>1, <3>1
    <3>3. f[q] = step[Max(q)][f[q \ {Max(q)}]]
      BY <1>9, <2>2 DEF IsFold
    <3> QED BY <1>7, <3>1, <3>2, <3>3
  <2>3. \A q \in SUBSET (1 .. h) : f[q] = IF q = {} THEN s ELSE op(f[q \ {Max(q)}], Max(q))
    BY <2>1, <2>2, Zenon
  <2>4. f = [q \in SUBSET (1 .. h) |-> f[q]]
    BY <2>1
  <2> QED BY <2>3, <2>4, Zenon
<1>11. strrev(s) = (CHOOSE g : Is(g))[1 .. h]
  BY <1>3, Zenon DEF strrev, FoldLeft, MapThenFoldSet, op
<1>12. PICK g : Is(g) /\ strrev(s) = g[1 .. h]
  BY <1>10, <1>11
<1>13. g[{}] = s /\ \A k \in 1 .. h : g[1 .. k] = op(g[1 .. k - 1], k)
  <2>1. g[{}] = s
    BY <1>12
  <2>2. ASSUME NEW k \in 1 .. h PROVE g[1 .. k] = op(g[1 .. k - 1], k)
    <3>1. /\ Max(1 .. k) = k /\ (1 .. k) \ {k} = 1 .. k - 1
          /\ 1 .. k \in SUBSET (1 .. h) /\ 1 .. k # {}
      BY MaxInterval
    <3> QED BY <1>12, <3>1
  <2> QED BY <2>1, <2>2
<1>14. Follows(g, s, h, step, T)
  BY <1>7, <1>13 DEF Follows
<1>15. PICK r : IsRun(r, s, h, step, T) /\ r[h] = g[1 .. h]
  BY <1>2, <1>8, <1>14, FoldRun
<1>16. r \in [0 .. h -> T] /\ r[0] = s /\ r[h] = strrev(s)
  BY <1>12, <1>15 DEF IsRun
<1>17. ASSUME NEW k \in 1 .. h PROVE r[k] = Swapped(r[k - 1], n, k)
  <2>1. k - 1 \in 0 .. h
    OBVIOUS
  <2>2. r[k] = op(r[k - 1], k) /\ r[k - 1] \in T
    BY <1>7, <1>15, <1>16, <2>1 DEF IsRun
  <2> QED BY <1>4, <2>2
<1>18. IsSwaps(r, s, n, h)
  BY <1>1, <1>16, <1>17 DEF IsSwaps
<1> QED BY <1>16, <1>18

(* The digits from the last to the first.                                  *)
Backwards(s, n) == [i \in 1 .. n |-> s[n + 1 - i]]

(* The places i and o are as far from one end as from the other.           *)
Opposite(n, i, o) == i \in 1 .. n /\ o \in 1 .. n /\ i + o = n + 1

(* Every place has an opposite one.                                        *)
LEMMA OppositeOf ==
  ASSUME NEW n \in Nat, NEW i \in 1 .. n
  PROVE  \E o \in 1 .. n : o = n + 1 - i /\ Opposite(n, i, o)
<1>1. n + 1 - i \in 1 .. n /\ i + (n + 1 - i) = n + 1
  OBVIOUS
<1> QED BY <1>1 DEF Opposite

(* The two digits that a swap of k with j exchanges, and the others.       *)
Exchanged(w, v, k, i, o) == w[i] = IF i = k \/ o = k THEN v[o] ELSE v[i]

(* A swap exchanges two opposite places.                                   *)
LEMMA SwappedAt ==
  ASSUME NEW n \in Nat, NEW v \in [1 .. n -> Nat], NEW k \in 1 .. n, NEW j, Opposite(n, k, j), j # k,
         NEW i, NEW o, Opposite(n, i, o), NEW w, w = Swapped(v, n, k)
  PROVE  Exchanged(w, v, k, i, o)
<1>1. i \in 1 .. n /\ o \in 1 .. n /\ j \in 1 .. n /\ j = n + 1 - k
  BY DEF Opposite
<1>2. w = [v EXCEPT ![k] = v[j], ![j] = v[k]]
  BY <1>1 DEF Swapped
<1>3. w[i] = IF i = j THEN v[k] ELSE IF i = k THEN v[j] ELSE v[i]
  BY <1>1, <1>2
<1>4. (o = k <=> i = j) /\ (i = k => o = j)
  BY <1>1 DEF Opposite
<1> QED BY <1>3, <1>4 DEF Exchanged

(* Swapping up to the middle turns the digits around.                      *)
LEMMA StrrevReverses ==
  ASSUME NEW s \in Seq(Nat), NEW n \in Nat, n = Len(s)
  PROVE  strrev(s) = Backwards(s, n)
<1>1. PICK h \in Nat : h = n \div 2 /\ (n = 2 * h \/ n = 2 * h + 1)
  OBVIOUS
<1>2. PICK r : IsSwaps(r, s, n, h) /\ r[h] = strrev(s)
  BY <1>1, StrrevRun
<1> DEFINE Half(k) == \A i, o : Opposite(n, i, o) =>
                                 r[k][i] = IF i <= k \/ o <= k THEN s[o] ELSE s[i]
           S == {k \in Nat : k <= h => Half(k)}
<1>3. 0 \in S
  BY <1>2 DEF IsSwaps, Opposite
<1>4. ASSUME NEW k \in Nat, k \in S PROVE k + 1 \in S
  <2>1. PICK j \in Nat : j = k + 1 /\ j - 1 = k
    OBVIOUS
  <2>2. ASSUME j <= h, NEW i, NEW o, Opposite(n, i, o)
        PROVE  r[j][i] = IF i <= j \/ o <= j THEN s[o] ELSE s[i]
    <3>1. j \in 1 .. h /\ j \in 1 .. n /\ k <= h /\ k \in 0 .. h
      BY <1>1, <2>1, <2>2
    <3>2. PICK v \in [1 .. n -> Nat] : v = r[k]
      BY <1>2, <3>1 DEF IsSwaps
    <3>3. PICK w : w = r[j] /\ w = Swapped(v, n, j)
      BY <1>2, <2>1, <3>1, <3>2 DEF IsSwaps
    <3>4. PICK q \in 1 .. n : Opposite(n, j, q)
      BY <3>1, OppositeOf
    <3>5. j < q
      BY <1>1, <2>2, <3>4 DEF Opposite
    <3>6. w[i] = IF i = j \/ o = j THEN v[o] ELSE v[i]
      <4>1. q # j
        BY <3>5
      <4>2. Opposite(n, j, q) /\ Opposite(n, i, o) /\ w = Swapped(v, n, j)
        BY <2>2, <3>3, <3>4
      <4>3. j \in 1 .. n
        BY <3>1
      <4>4. Exchanged(w, v, j, i, o)
        BY <4>1, <4>2, <4>3, SwappedAt
      <4> QED BY <4>4 DEF Exchanged
    <3>7. /\ v[o] = IF o <= k \/ i <= k THEN s[i] ELSE s[o]
          /\ v[i] = IF i <= k \/ o <= k THEN s[o] ELSE s[i]
      <4>1. Opposite(n, o, i)
        BY <2>2 DEF Opposite
      <4> QED BY <1>4, <2>2, <3>1, <3>2, <4>1
    <3>8. i \in Nat /\ o \in Nat /\ (i = j => o = q) /\ (o = j => i = q)
      BY <2>2, <3>4 DEF Opposite
    <3>9. CASE i = j \/ o = j
      <4>1. ~(i <= k \/ o <= k)
        BY <2>1, <3>5, <3>8, <3>9
      <4> QED BY <3>3, <3>6, <3>7, <3>8, <3>9, <4>1
    <3>10. CASE ~(i = j \/ o = j)
      <4>1. (i <= j <=> i <= k) /\ (o <= j <=> o <= k)
        BY <2>1, <3>8, <3>10
      <4> QED BY <3>3, <3>6, <3>7, <3>10, <4>1
    <3> QED BY <3>9, <3>10
  <2>3. j <= h => Half(j)
    BY <2>2
  <2> QED BY <2>1, <2>3
<1> HIDE DEF S
<1>5. h \in S
  BY <1>3, <1>4, Induction
<1>6. ASSUME NEW i \in 1 .. n PROVE r[h][i] = s[n + 1 - i]
  <2>1. PICK o \in 1 .. n : o = n + 1 - i /\ Opposite(n, i, o)
    BY OppositeOf
  <2>2. r[h][i] = IF i <= h \/ o <= h THEN s[o] ELSE s[i]
    BY <1>5, <2>1 DEF S
  <2>3. ~(i <= h \/ o <= h) => o = i
    BY <1>1, <2>1 DEF Opposite
  <2> QED BY <2>1, <2>2, <2>3
<1>7. r[h] \in [1 .. n -> Nat]
  <2>1. h \in 0 .. h
    OBVIOUS
  <2> QED BY <1>2, <2>1 DEF IsSwaps
<1> QED BY <1>2, <1>6, <1>7 DEF Backwards

(* A number is its last digit and the number in front of it.               *)
LEMMA Division ==
  ASSUME NEW v \in Nat, NEW radix \in Nat, radix >= 2
  PROVE  \E q \in Nat, d \in 0 .. radix - 1 :
           /\ q = v \div radix /\ d = v % radix /\ v = radix * q + d
           /\ v # 0 => q < v
<1>1. PICK q : q = v \div radix
  OBVIOUS
<1>2. PICK d : d = v % radix
  OBVIOUS
<1>3. q \in Int /\ d \in 0 .. radix - 1 /\ v = radix * q + d
  BY <1>1, <1>2
<1>4. q >= 0
  BY <1>3
<1>5. v # 0 => q < v
  <2>1. q = 0 \/ radix * q >= 2 * q
    BY <1>3, <1>4
  <2> QED BY <1>3, <1>4, <2>1
<1> QED BY <1>1, <1>2, <1>3, <1>4, <1>5

(* The digits of the numbers up to m, from the lowest place value on.      *)
IsLowest(f, m, radix) ==
  /\ f \in [0 .. m -> Seq(Nat)]
  /\ \A v \in 0 .. m : f[v] = IF v = 0 THEN <<>> ELSE <<v % radix>> \o f[v \div radix]

(* There is such a function up to every number ...                         *)
LEMMA LowestExists ==
  ASSUME NEW radix \in Nat, radix >= 2
  PROVE  \A m \in Nat : \E f : IsLowest(f, m, radix)
<1> DEFINE S == {m \in Nat : \E f : IsLowest(f, m, radix)}
<1>1. 0 \in S
  <2>1. PICK f : f = [v \in 0 .. 0 |-> <<>>]
    OBVIOUS
  <2>2. f \in [0 .. 0 -> Seq(Nat)]
    BY <2>1
  <2>3. IsLowest(f, 0, radix)
    BY <2>1, <2>2 DEF IsLowest
  <2> QED BY <2>3
<1>2. ASSUME NEW m \in Nat, m \in S PROVE m + 1 \in S
  <2>1. PICK f : IsLowest(f, m, radix)
    BY <1>2
  <2>2. PICK j \in Nat : j = m + 1 /\ j # 0
    OBVIOUS
  <2>3. PICK e \in Nat, d \in 0 .. radix - 1 : e = j \div radix /\ d = j % radix /\ e < j
    BY <2>2, Division
  <2>4. PICK g : g = [v \in 0 .. j |-> IF v = j THEN <<d>> \o f[e] ELSE f[v]]
    OBVIOUS
  <2>5. f \in [0 .. m -> Seq(Nat)] /\ e \in 0 .. m /\ d \in Nat
    BY <2>1, <2>2, <2>3 DEF IsLowest
  <2>6. <<d>> \o f[e] \in Seq(Nat)
    <3>1. <<d>> \in Seq(Nat) /\ f[e] \in Seq(Nat)
      BY <2>5
    <3> QED BY <3>1, ConcatProperties
  <2>7. g \in [0 .. j -> Seq(Nat)]
    BY <2>2, <2>4, <2>5, <2>6
  <2>8. ASSUME NEW v \in 0 .. j PROVE g[v] = IF v = 0 THEN <<>> ELSE <<v % radix>> \o g[v \div radix]
    <3>1. CASE v = j
      <4>1. g[v] = <<d>> \o f[e] /\ g[e] = f[e]
        BY <2>2, <2>3, <2>4, <2>5, <3>1
      <4> QED BY <2>2, <2>3, <3>1, <4>1
    <3>2. CASE v # j
      <4>1. v \in 0 .. m /\ g[v] = f[v]
        BY <2>2, <2>4, <3>2
      <4>2. f[v] = IF v = 0 THEN <<>> ELSE <<v % radix>> \o f[v \div radix]
        BY <2>1, <4>1 DEF IsLowest
      <4>3. v # 0 => v \div radix \in 0 .. j /\ v \div radix # j
        <5>1. PICK q \in Nat : q = v \div radix /\ (v # 0 => q < v)
          BY Division
        <5> QED BY <2>2, <4>1, <5>1
      <4>4. v # 0 => g[v \div radix] = f[v \div radix]
        BY <2>4, <4>3
      <4> QED BY <4>1, <4>2, <4>4
    <3> QED BY <3>1, <3>2
  <2>9. IsLowest(g, j, radix)
    BY <2>7, <2>8 DEF IsLowest
  <2> HIDE DEF IsLowest
  <2> QED BY <2>2, <2>9
<1> HIDE DEF S
<1>3. \A m \in Nat : m \in S
  BY <1>1, <1>2, Induction
<1> QED BY <1>3 DEF S

(* ... and two of them agree on the numbers that both know.                *)
LEMMA LowestAgree ==
  ASSUME NEW radix \in Nat, radix >= 2, NEW m \in Nat, NEW n \in Nat, NEW f, NEW g,
         IsLowest(f, m, radix), IsLowest(g, n, radix), m <= n
  PROVE  \A v \in 0 .. m : f[v] = g[v]
<1> DEFINE S == {k \in Nat : \A v \in 0 .. k : v <= m => f[v] = g[v]}
<1>1. /\ \A v \in 0 .. m : f[v] = IF v = 0 THEN <<>> ELSE <<v % radix>> \o f[v \div radix]
      /\ \A v \in 0 .. n : g[v] = IF v = 0 THEN <<>> ELSE <<v % radix>> \o g[v \div radix]
  BY DEF IsLowest
<1>2. 0 \in S
  <2>1. 0 \in 0 .. m /\ 0 \in 0 .. n /\ \A v \in 0 .. 0 : v = 0
    OBVIOUS
  <2>2. f[0] = g[0]
    BY <1>1, <2>1
  <2> QED BY <2>1, <2>2
<1>3. ASSUME NEW k \in Nat, k \in S PROVE k + 1 \in S
  <2>1. PICK j \in Nat : j = k + 1 /\ j # 0
    OBVIOUS
  <2>2. PICK e \in Nat : e = j \div radix /\ e < j
    BY <2>1, Division
  <2>3. j <= m => f[j] = g[j]
    <3>1. SUFFICES ASSUME j <= m PROVE f[j] = g[j]
      OBVIOUS
    <3>2. j \in 0 .. m /\ j \in 0 .. n /\ e \in 0 .. k /\ e <= m
      BY <2>1, <2>2, <3>1
    <3>3. f[e] = g[e]
      BY <1>3, <3>2
    <3>4. f[j] = <<j % radix>> \o f[e] /\ g[j] = <<j % radix>> \o g[e]
      BY <1>1, <2>1, <2>2, <3>2
    <3> QED BY <3>3, <3>4
  <2>4. ASSUME NEW v \in 0 .. j, v <= m PROVE f[v] = g[v]
    <3>1. v = j \/ v \in 0 .. k
      BY <2>1
    <3> QED BY <1>3, <2>3, <2>4, <3>1
  <2> QED BY <2>1, <2>4
<1> HIDE DEF S
<1>4. \A k \in Nat : k \in S
  BY <1>2, <1>3, Induction
<1>5. m \in S
  BY <1>4
<1> QED BY <1>5 DEF S

(* The digits of every number, and what itoa makes of them.                *)
IsDigits(f, radix) ==
  /\ f \in [Nat -> Seq(Nat)]
  /\ f[0] = <<>>
  /\ \A v \in Nat \ {0} : f[v] = <<v % radix>> \o f[v \div radix]

(* itoa turns them around.                                                 *)
LEMMA ItoaReverses ==
  ASSUME NEW radix \in Nat, radix >= 2
  PROVE  \E f : /\ IsDigits(f, radix)
                /\ \A v \in Nat : itoa(v, radix) = IF v = 0 THEN <<0>> ELSE strrev(f[v])
<1> DEFINE f == [v \in Nat |-> (CHOOSE g : IsLowest(g, v, radix))[v]]
<1>1. ASSUME NEW v \in Nat
      PROVE  \E g : IsLowest(g, v, radix) /\ f[v] = g[v]
  <2>1. IsLowest(CHOOSE g : IsLowest(g, v, radix), v, radix)
    BY LowestExists
  <2> QED BY <2>1
<1> DEFINE Is(g) == g = [v \in Nat |-> IF v = 0 THEN <<>> ELSE <<v % radix>> \o g[v \div radix]]
<1>2. f = [v \in Nat |-> f[v]]
  OBVIOUS
<1> HIDE DEF f
<1>3. ASSUME NEW v \in Nat
      PROVE  f[v] \in Seq(Nat) /\ f[v] = IF v = 0 THEN <<>> ELSE <<v % radix>> \o f[v \div radix]
  <2>1. PICK g : IsLowest(g, v, radix) /\ f[v] = g[v]
    BY <1>1
  <2>2. v \in 0 .. v
    OBVIOUS
  <2>3. f[v] \in Seq(Nat) /\ f[v] = IF v = 0 THEN <<>> ELSE <<v % radix>> \o g[v \div radix]
    BY <2>1, <2>2 DEF IsLowest
  <2>4. v # 0 => g[v \div radix] = f[v \div radix]
    <3>1. SUFFICES ASSUME v # 0 PROVE g[v \div radix] = f[v \div radix]
      OBVIOUS
    <3>2. PICK q \in Nat : q = v \div radix /\ q < v
      BY <3>1, Division
    <3>3. PICK h : IsLowest(h, q, radix) /\ f[q] = h[q]
      BY <1>1
    <3>4. q <= v /\ q \in 0 .. q
      BY <3>2
    <3>5. h[q] = g[q]
      BY <2>1, <3>3, <3>4, LowestAgree
    <3> QED BY <3>2, <3>3, <3>5
  <2> QED BY <2>3, <2>4
<1>4. Is(f)
  BY <1>2, <1>3, Zenon
<1> DEFINE low == CHOOSE g : Is(g)
<1>5. \A v : itoa(v, radix) = IF v = 0 THEN <<0>> ELSE strrev(low[v])
  BY Zenon DEF itoa
<1>6. Is(low)
  BY <1>4
<1> HIDE DEF low
<1>7. low = [v \in Nat |-> low[v]] /\ \A v \in Nat : low[v] = IF v = 0 THEN <<>> ELSE <<v % radix>> \o low[v \div radix]
  BY <1>6
<1> HIDE DEF Is
<1> DEFINE S == {k \in Nat : \A v \in 0 .. k : low[v] \in Seq(Nat)}
<1>8. 0 \in S
  <2>1. low[0] = <<>>
    BY <1>7
  <2>2. \A v \in 0 .. 0 : v = 0
    OBVIOUS
  <2>3. <<>> \in Seq(Nat)
    OBVIOUS
  <2>4. low[0] \in Seq(Nat)
    BY <2>1, <2>3
  <2> QED BY <2>2, <2>4
<1>9. ASSUME NEW k \in Nat, k \in S PROVE k + 1 \in S
  <2>1. PICK j \in Nat : j = k + 1 /\ j # 0
    OBVIOUS
  <2>2. PICK e \in Nat, d \in 0 .. radix - 1 : e = j \div radix /\ d = j % radix /\ e < j
    BY <2>1, Division
  <2>3. low[j] = <<d>> \o low[e]
    BY <1>7, <2>1, <2>2
  <2>4. <<d>> \in Seq(Nat) /\ low[e] \in Seq(Nat)
    <3>1. d \in Nat /\ e \in 0 .. k
      BY <2>1, <2>2
    <3> QED BY <1>9, <3>1
  <2>5. low[j] \in Seq(Nat)
    BY <2>3, <2>4, ConcatProperties
  <2>6. \A v \in 0 .. j : v = j \/ v \in 0 .. k
    BY <2>1
  <2>7. \A v \in 0 .. j : low[v] \in Seq(Nat)
    BY <1>9, <2>5, <2>6
  <2> QED BY <2>1, <2>7
<1> HIDE DEF S
<1>10. \A k \in Nat : k \in S
  BY <1>8, <1>9, Induction
<1>11. \A v \in Nat : low[v] \in Seq(Nat)
  <2>1. SUFFICES ASSUME NEW v \in Nat PROVE low[v] \in Seq(Nat)
    OBVIOUS
  <2>2. v \in S /\ v \in 0 .. v
    BY <1>10
  <2> QED BY <2>2 DEF S
<1>12. low \in [Nat -> Seq(Nat)]
  BY <1>7, <1>11
<1>13. IsDigits(low, radix)
  BY <1>7, <1>12 DEF IsDigits
<1>14. \A v \in Nat : itoa(v, radix) = IF v = 0 THEN <<0>> ELSE strrev(low[v])
  BY <1>5
<1> QED BY <1>13, <1>14

(* Turned around, the first digit comes last.                              *)
LEMMA StrrevCons ==
  ASSUME NEW s \in Seq(Nat), NEW x \in Nat
  PROVE  /\ strrev(s) \in Seq(Nat) /\ Len(strrev(s)) = Len(s)
         /\ strrev(<<x>> \o s) = Append(strrev(s), x)
<1>1. PICK n \in Nat, m \in Nat : n = Len(s) /\ m = n + 1
  BY LenProperties
<1>2. PICK c : c = <<x>> \o s
  OBVIOUS
<1>3. c \in Seq(Nat) /\ Len(c) = m /\ c[1] = x /\ \A i \in 1 .. n : c[i + 1] = s[i]
  <2>1. <<x>> \in Seq(Nat) /\ Len(<<x>>) = 1 /\ <<x>>[1] = x
    OBVIOUS
  <2>2. /\ <<x>> \o s \in Seq(Nat) /\ Len(<<x>> \o s) = 1 + Len(s)
        /\ \A i \in 1 .. 1 + Len(s) : (<<x>> \o s)[i] = IF i <= 1 THEN <<x>>[i] ELSE s[i - 1]
    BY <2>1, ConcatProperties
  <2>3. c \in Seq(Nat) /\ Len(c) = m
    BY <1>1, <1>2, <2>2
  <2>4. \A i \in 1 .. m : c[i] = IF i <= 1 THEN x ELSE s[i - 1]
    BY <1>1, <1>2, <2>1, <2>2
  <2> QED BY <1>1, <2>3, <2>4
<1>4. PICK b : b = Backwards(s, n)
  OBVIOUS
<1>5. b \in [1 .. n -> Nat] /\ \A i \in 1 .. n : b[i] = s[n + 1 - i]
  <2>1. s \in [1 .. n -> Nat]
    BY <1>1, LenProperties
  <2> QED BY <1>4, <2>1 DEF Backwards
<1>6. b \in Seq(Nat) /\ Len(b) = n
  BY <1>5
<1>7. PICK a : a = Append(b, x)
  OBVIOUS
<1>8. a \in Seq(Nat) /\ Len(a) = m /\ a[m] = x /\ \A i \in 1 .. n : a[i] = b[i]
  BY <1>1, <1>6, <1>7, AppendProperties
<1>9. Backwards(c, m) = a
  <2>1. ASSUME NEW i \in 1 .. m PROVE a[i] = c[m + 1 - i]
    <3>1. CASE i = m
      <4>1. m + 1 - i = 1
        BY <1>1, <3>1
      <4> QED BY <1>3, <1>8, <3>1, <4>1
    <3>2. CASE i # m
      <4>1. PICK o \in 1 .. n : o = n + 1 - i /\ i \in 1 .. n /\ o + 1 = m + 1 - i
        <5>1. n + 1 - i \in 1 .. n /\ i \in 1 .. n /\ (n + 1 - i) + 1 = m + 1 - i
          BY <1>1, <3>2
        <5> QED BY <5>1
      <4> QED BY <1>3, <1>5, <1>8, <4>1
    <3> QED BY <3>1, <3>2
  <2>2. a = [i \in 1 .. m |-> a[i]]
    BY <1>8
  <2> QED BY <2>1, <2>2, Zenon DEF Backwards
<1>10. strrev(s) = b /\ strrev(c) = Backwards(c, m)
  BY <1>1, <1>3, <1>4, StrrevReverses
<1> QED BY <1>1, <1>2, <1>6, <1>7, <1>9, <1>10

(* The digits of a number: each is below the radix, together they stand    *)
(* for the number, and a number other than 0 does not begin with 0.        *)
AreDigits(s, v, radix) ==
  /\ s \in Seq(Nat)
  /\ \A i \in 1 .. Len(s) : s[i] < radix
  /\ Value(s, radix) = v
  /\ v # 0 => Len(s) > 0 /\ s[1] # 0

(* The digits from the lowest place value on, turned around, stand for     *)
(* their number.                                                           *)
LEMMA DigitsReversed ==
  ASSUME NEW radix \in Nat, radix >= 2, NEW f, IsDigits(f, radix)
  PROVE  \A v \in Nat : AreDigits(strrev(f[v]), v, radix)
<1> DEFINE S == {n \in Nat : \A v \in 0 .. n : AreDigits(strrev(f[v]), v, radix)}
<1>1. /\ f \in [Nat -> Seq(Nat)] /\ f[0] = <<>>
      /\ \A v \in Nat \ {0} : f[v] = <<v % radix>> \o f[v \div radix]
  BY DEF IsDigits
<1>2. 0 \in S
  <2>1. PICK s : s = strrev(<<>>)
    OBVIOUS
  <2>2. <<>> \in Seq(Nat) /\ Len(<<>>) = 0 /\ 0 \in Nat
    OBVIOUS
  <2>3. s \in Seq(Nat) /\ Len(s) = 0
    BY <2>1, <2>2, StrrevCons
  <2>4. s = <<>>
    BY <2>3, EmptySeq
  <2>5. Value(s, radix) = 0
    BY <2>4, ValueIs
  <2>6. AreDigits(s, 0, radix)
    BY <2>3, <2>5 DEF AreDigits
  <2>7. \A v \in 0 .. 0 : v = 0
    OBVIOUS
  <2> HIDE DEF AreDigits
  <2> QED BY <1>1, <2>1, <2>6, <2>7
<1>3. ASSUME NEW n \in Nat, n \in S PROVE n + 1 \in S
  <2>1. PICK j \in Nat : j = n + 1 /\ j # 0
    OBVIOUS
  <2>2. PICK q \in Nat, d \in 0 .. radix - 1 :
          q = j \div radix /\ d = j % radix /\ j = radix * q + d /\ q < j
    BY <2>1, Division
  <2>3. PICK s : s = strrev(f[q])
    OBVIOUS
  <2>4. AreDigits(s, q, radix)
    <3>1. q \in 0 .. n
      BY <2>1, <2>2
    <3> QED BY <1>3, <2>3, <3>1
  <2>5. d \in Nat /\ d < radix
    BY <2>2
  <2>6. f[j] = <<d>> \o f[q] /\ f[q] \in Seq(Nat)
    BY <1>1, <2>1, <2>2
  <2>7. strrev(f[j]) = Append(s, d)
    BY <2>3, <2>5, <2>6, StrrevCons
  <2>8. PICK m \in Nat, k \in Nat : m = Len(s) /\ k = m + 1
    <3>1. s \in Seq(Nat)
      BY <2>4 DEF AreDigits
    <3> QED BY <3>1, LenProperties
  <2>9. PICK a : a = Append(s, d)
    OBVIOUS
  <2>10. a \in Seq(Nat) /\ Len(a) = k /\ a[k] = d /\ \A i \in 1 .. m : a[i] = s[i]
    BY <2>4, <2>5, <2>8, <2>9, AppendProperties DEF AreDigits
  <2>11. Value(a, radix) = j
    <3>1. s \in Seq(Nat) /\ Value(s, radix) = q
      BY <2>4 DEF AreDigits
    <3>2. Value(a, radix) = radix * Value(s, radix) + d
      BY <2>5, <2>9, <3>1, ValueIs
    <3> QED BY <2>2, <3>1, <3>2
  <2>12. \A i \in 1 .. k : a[i] < radix
    <3>1. SUFFICES ASSUME NEW i \in 1 .. k PROVE a[i] < radix
      OBVIOUS
    <3>2. i = k \/ i \in 1 .. m
      BY <2>8
    <3>3. \A l \in 1 .. m : s[l] < radix
      BY <2>4, <2>8 DEF AreDigits
    <3> QED BY <2>5, <2>10, <3>2, <3>3
  <2>13. a[1] # 0
    <3>1. CASE q = 0
      <4>1. f[q] = <<>> /\ Len(<<>>) = 0
        BY <1>1, <3>1
      <4>2. m = 0
        BY <2>3, <2>5, <2>6, <2>8, <4>1, StrrevCons
      <4>3. a[1] = d /\ d = j
        BY <2>2, <2>8, <2>10, <3>1, <4>2
      <4> QED BY <2>1, <4>3
    <3>2. CASE q # 0
      <4>1. m > 0 /\ s[1] # 0
        BY <2>4, <2>8, <3>2 DEF AreDigits
      <4>2. 1 \in 1 .. m
        BY <4>1
      <4> QED BY <2>10, <4>1, <4>2
    <3> QED BY <3>1, <3>2
  <2>14. AreDigits(a, j, radix)
    <3>1. Len(a) > 0
      BY <2>8, <2>10
    <3> QED BY <2>10, <2>11, <2>12, <2>13, <3>1 DEF AreDigits
  <2> HIDE DEF AreDigits
  <2>15. ASSUME NEW v \in 0 .. j PROVE AreDigits(strrev(f[v]), v, radix)
    <3>1. v = j \/ v \in 0 .. n
      BY <2>1
    <3> QED BY <1>3, <2>7, <2>9, <2>14, <3>1
  <2> QED BY <2>1, <2>15
<1> HIDE DEF S
<1>4. \A n \in Nat : n \in S
  BY <1>2, <1>3, Induction
<1>5. ASSUME NEW v \in Nat PROVE AreDigits(strrev(f[v]), v, radix)
  <2>1. v \in S /\ v \in 0 .. v
    BY <1>4
  <2> HIDE DEF AreDigits
  <2> QED BY <2>1 DEF S
<1> QED BY <1>5

(* itoa (lib.c:389) writes digits below the radix that stand for the       *)
(* number, and no 0 in front of a number other than 0, for every number    *)
(* and every radix.                                                        *)
THEOREM ItoaWritesNumber ==
  ASSUME NEW v \in Nat, NEW radix \in Nat, radix >= 2
  PROVE  AreDigits(itoa(v, radix), v, radix)
<1>1. PICK f : /\ IsDigits(f, radix)
               /\ \A w \in Nat : itoa(w, radix) = IF w = 0 THEN <<0>> ELSE strrev(f[w])
  BY ItoaReverses
<1>2. CASE v # 0
  <2>1. itoa(v, radix) = strrev(f[v])
    BY <1>1, <1>2
  <2> QED BY <1>1, <2>1, DigitsReversed
<1>3. CASE v = 0
  <2>1. PICK s : s = <<0>>
    OBVIOUS
  <2>2. itoa(v, radix) = s
    BY <1>1, <1>3, <2>1
  <2>3. s = Append(<<>>, 0) /\ <<>> \in Seq(Nat) /\ 0 \in Nat
    BY <2>1
  <2>4. Value(s, radix) = radix * Value(<<>>, radix) + 0 /\ Value(<<>>, radix) = 0
    BY <2>3, ValueIs
  <2>5. Value(s, radix) = 0
    BY <2>4
  <2>6. s \in Seq(Nat) /\ Len(s) = 1 /\ s[1] = 0
    BY <2>1
  <2>7. AreDigits(s, v, radix)
    BY <1>3, <2>5, <2>6 DEF AreDigits
  <2> QED BY <2>2, <2>7
<1> QED BY <1>2, <1>3

(* A number below 16 ^ k has at most k hexadecimal digits.                 *)
LEMMA HexLength ==
  ASSUME NEW f, IsDigits(f, 16)
  PROVE  \A k \in Nat : \A v \in Nat : v < TwoTo[4 * k] => Len(f[v]) <= k
<1> DEFINE S == {k \in Nat : \A v \in Nat : v < TwoTo[4 * k] => Len(f[v]) <= k}
<1>1. /\ f \in [Nat -> Seq(Nat)] /\ f[0] = <<>>
      /\ \A v \in Nat \ {0} : f[v] = <<v % 16>> \o f[v \div 16]
  BY DEF IsDigits
<1>2. 0 \in S
  <2>1. 4 * 0 = 0 /\ TwoTo[0] = 1 /\ \A v \in Nat : v < 1 => v = 0
    BY TwoToIs
  <2>2. Len(<<>>) = 0
    OBVIOUS
  <2>3. ASSUME NEW v \in Nat, v < TwoTo[4 * 0] PROVE Len(f[v]) <= 0
    <3>1. v = 0
      BY <2>1, <2>3
    <3>2. Len(f[v]) = 0
      BY <1>1, <2>2, <3>1
    <3> QED BY <3>2
  <2> QED BY <2>3
<1>3. ASSUME NEW k \in Nat, k \in S PROVE k + 1 \in S
  <2>1. PICK j \in Nat : j = k + 1
    OBVIOUS
  <2>2. PICK a \in Nat, b \in Nat : a = 4 * k /\ b = 4 * j
    OBVIOUS
  <2>3. b = (((a + 1) + 1) + 1) + 1
    BY <2>1, <2>2
  <2>4. TwoTo[a] \in Nat /\ TwoTo[b] = 16 * TwoTo[a]
    <3>1. PICK c \in Nat, d \in Nat, e \in Nat : c = a + 1 /\ d = c + 1 /\ e = d + 1 /\ b = e + 1
      BY <2>3
    <3>2. /\ TwoTo[c] = 2 * TwoTo[a] /\ TwoTo[d] = 2 * TwoTo[c]
          /\ TwoTo[e] = 2 * TwoTo[d] /\ TwoTo[b] = 2 * TwoTo[e]
      BY <3>1, TwoToIs
    <3>3. TwoTo[a] \in Nat
      BY TwoToIs
    <3> QED BY <3>2, <3>3
  <2>5. ASSUME NEW v \in Nat, v < TwoTo[b] PROVE Len(f[v]) <= j
    <3>1. CASE v = 0
      BY <1>1, <2>1, <3>1
    <3>2. CASE v # 0
      <4>1. 16 \in Nat /\ 16 >= 2
        OBVIOUS
      <4>2. PICK q \in Nat, d \in 0 .. 16 - 1 :
              q = v \div 16 /\ d = v % 16 /\ v = 16 * q + d
        BY <4>1, Division
      <4>3. q < TwoTo[a]
        BY <2>4, <2>5, <4>2
      <4>4. Len(f[q]) <= k
        BY <1>3, <2>2, <4>3
      <4>5. <<d>> \in Seq(Nat) /\ Len(<<d>>) = 1 /\ f[q] \in Seq(Nat)
        BY <1>1
      <4>6. Len(<<d>> \o f[q]) = Len(<<d>>) + Len(f[q])
        BY <4>5, ConcatProperties
      <4>7. f[v] = <<d>> \o f[q]
        BY <1>1, <3>2, <4>2
      <4>8. Len(f[q]) \in Nat
        BY <4>5, LenProperties
      <4> QED BY <2>1, <4>4, <4>5, <4>6, <4>7, <4>8
    <3> QED BY <3>1, <3>2
  <2> QED BY <2>1, <2>2, <2>5
<1> HIDE DEF S
<1>4. \A k \in Nat : k \in S
  BY <1>2, <1>3, Induction
<1> QED BY <1>4 DEF S

(* Every word fits into the buffer of %#x.                                 *)
LEMMA HexFits ==
  ASSUME NEW w \in Word
  PROVE  w \in Nat /\ Len(itoa(w, 16)) \in 0 .. WordBits \div 4
<1>1. PICK k \in Nat : k = WordBits \div 4 /\ WordBits = 4 * k /\ k > 0
  BY WordBitsAssumption
<1>2. w \in Nat /\ w < TwoTo[WordBits]
  <2>1. TwoTo[WordBits] \in Nat
    BY WordBitsAssumption, TwoToIs
  <2> QED BY <2>1 DEF Word
<1>3. 16 \in Nat /\ 16 >= 2
  OBVIOUS
<1>4. PICK f : /\ IsDigits(f, 16)
               /\ \A v \in Nat : itoa(v, 16) = IF v = 0 THEN <<0>> ELSE strrev(f[v])
  BY <1>3, ItoaReverses
<1>5. f[w] \in Seq(Nat)
  BY <1>2, <1>4 DEF IsDigits
<1>6. Len(strrev(f[w])) = Len(f[w]) /\ Len(f[w]) \in Nat
  <2>1. 0 \in Nat
    OBVIOUS
  <2>2. Len(strrev(f[w])) = Len(f[w])
    BY <1>5, <2>1, StrrevCons
  <2> QED BY <1>5, <2>2, LenProperties
<1>7. Len(f[w]) <= k
  BY <1>1, <1>2, <1>4, HexLength
<1>8. Len(<<0>>) = 1
  OBVIOUS
<1>9. Len(itoa(w, 16)) \in 0 .. k
  <2>1. w = 0 => Len(itoa(w, 16)) = 1
    BY <1>2, <1>4, <1>8
  <2>2. w # 0 => Len(itoa(w, 16)) = Len(f[w])
    BY <1>2, <1>4, <1>6
  <2>3. PICK l \in Nat : l = Len(f[w]) /\ l <= k
    BY <1>6, <1>7
  <2>4. l \in 0 .. k /\ 1 \in 0 .. k
    BY <1>1, <2>3
  <2> QED BY <2>1, <2>2, <2>3, <2>4
<1> QED BY <1>1, <1>2, <1>9

(* Zeros in front change the length of the digits and not their value.     *)
LEMMA ZerosInFront ==
  ASSUME NEW s \in Seq(Nat), NEW n \in Nat, NEW radix \in Nat, NEW z, z = [i \in 1 .. n |-> 0] \o s
  PROVE  Value(z, radix) = Value(s, radix) /\ z \in Seq(Nat) /\ Len(z) = n + Len(s)
<1>1. PICK m \in Nat, l \in Nat : m = Len(s) /\ l = n + m
  BY LenProperties
<1>2. PICK o : o = [i \in 1 .. n |-> 0]
  OBVIOUS
<1>3. o \in Seq(Nat) /\ Len(o) = n /\ \A i \in 1 .. n : o[i] = 0
  BY <1>2
<1>4. z \in Seq(Nat) /\ Len(z) = l /\ \A i \in 1 .. l : z[i] = IF i <= n THEN 0 ELSE s[i - n]
  <2>1. /\ o \o s \in Seq(Nat) /\ Len(o \o s) = Len(o) + Len(s)
        /\ \A i \in 1 .. Len(o) + Len(s) : (o \o s)[i] = IF i <= Len(o) THEN o[i] ELSE s[i - Len(o)]
    BY <1>3, ConcatProperties
  <2>2. z = o \o s
    BY <1>2
  <2>3. \A i \in 1 .. l : z[i] = IF i <= n THEN o[i] ELSE s[i - n]
    BY <1>1, <1>3, <2>1, <2>2
  <2> QED BY <1>1, <1>3, <2>1, <2>2, <2>3
<1>5. PICK r : IsValues(r, z, l, radix) /\ r[l] = Value(z, radix)
  BY <1>4, ValueRun
<1>6. PICK q : IsValues(q, s, m, radix) /\ q[m] = Value(s, radix)
  BY <1>1, ValueRun
<1>7. /\ r[0] = 0 /\ q[0] = 0
      /\ \A k \in 1 .. l : r[k] = radix * r[k - 1] + z[k]
      /\ \A k \in 1 .. m : q[k] = radix * q[k - 1] + s[k]
      /\ \A k \in 0 .. m : q[k] \in Nat
  BY <1>5, <1>6 DEF IsValues
<1> DEFINE S == {k \in Nat : k <= l => r[k] = IF k <= n THEN 0 ELSE q[k - n]}
<1>8. 0 \in S
  BY <1>7
<1>9. ASSUME NEW k \in Nat, k \in S PROVE k + 1 \in S
  <2>1. PICK j \in Nat : j = k + 1 /\ j - 1 = k
    OBVIOUS
  <2>2. ASSUME j <= l PROVE r[j] = IF j <= n THEN 0 ELSE q[j - n]
    <3>1. j \in 1 .. l /\ r[k] = IF k <= n THEN 0 ELSE q[k - n]
      BY <1>9, <2>1, <2>2
    <3>2. r[j] = radix * r[k] + z[j] /\ z[j] = IF j <= n THEN 0 ELSE s[j - n]
      BY <1>4, <1>7, <2>1, <3>1
    <3>3. CASE j <= n
      <4>1. r[k] = 0 /\ z[j] = 0
        BY <2>1, <3>1, <3>2, <3>3
      <4>2. radix * 0 + 0 = 0
        OBVIOUS
      <4> QED BY <3>2, <3>3, <4>1, <4>2
    <3>4. CASE j > n
      <4>1. PICK i \in 1 .. m : i = j - n /\ i - 1 = k - n
        <5>1. j - n \in 1 .. m /\ (j - n) - 1 = k - n
          BY <1>1, <2>1, <2>2, <3>4
        <5> QED BY <5>1
      <4>2. r[k] = q[i - 1]
        <5>1. k = n => k <= n /\ i - 1 = 0
          BY <4>1
        <5>2. k # n => k > n
          BY <2>1, <3>4
        <5> QED BY <1>7, <3>1, <4>1, <5>1, <5>2
      <4>3. q[i] = radix * q[i - 1] + s[i]
        BY <1>7
      <4>4. z[j] = s[i]
        <5>1. ~(j <= n)
          BY <3>4
        <5>2. z[j] = s[j - n]
          BY <3>2, <5>1
        <5> QED BY <4>1, <5>2
      <4>5. r[j] = q[i]
        BY <3>2, <4>2, <4>3, <4>4
      <4>6. ~(j <= n) /\ q[j - n] = q[i]
        BY <3>4, <4>1
      <4> QED BY <4>5, <4>6
    <3> QED BY <3>3, <3>4
  <2> QED BY <2>1, <2>2
<1> HIDE DEF S
<1>10. l \in S
  BY <1>8, <1>9, Induction
<1>11. r[l] = q[m]
  <2>1. r[l] = IF l <= n THEN 0 ELSE q[l - n]
    BY <1>10 DEF S
  <2>2. l - n = m /\ (l <= n <=> m = 0)
    BY <1>1
  <2> QED BY <1>7, <2>1, <2>2
<1> QED BY <1>1, <1>4, <1>5, <1>6, <1>11

(* printf as it goes from one character of the format to the next.         *)
Begun(args) == [percent |-> FALSE, alternate |-> FALSE, args |-> args, out |-> <<>>]

IsPrinting(r, format, args, n) ==
  /\ r[0] = Begun(args)
  /\ \A k \in 1 .. n : r[k] = PrintfStep(r[k - 1], format[k])

(* printf goes through the whole format.                                   *)
LEMMA PrintfRun ==
  ASSUME NEW format, NEW args, NEW n \in Nat, DOMAIN format = 1 .. n
  PROVE  \E r : IsPrinting(r, format, args, n) /\ printf(format, args) = r[n].out
<1> DEFINE a == Begun(args)
           op(v, k) == PrintfStep(v, format[k])
<1> HIDE DEF a, op
<1> DEFINE Is(f, k) == f = [q \in SUBSET (1 .. k) |-> IF q = {} THEN a ELSE op(f[q \ {Max(q)}], Max(q))]
           S == {k \in Nat : \E f : Is(f, k)}
<1>1. 0 \in S
  <2>1. PICK f : f = [q \in SUBSET (1 .. 0) |-> a]
    OBVIOUS
  <2>2. \A q \in SUBSET (1 .. 0) : q = {}
    OBVIOUS
  <2>3. f = [q \in SUBSET (1 .. 0) |-> IF q = {} THEN a ELSE op(f[q \ {Max(q)}], Max(q))]
    BY <2>1, <2>2
  <2> QED BY <2>3
<1>2. ASSUME NEW k \in Nat, k \in S PROVE k + 1 \in S
  <2>1. PICK f : Is(f, k)
    BY <1>2
  <2>2. PICK j \in Nat : j = k + 1
    OBVIOUS
  <2>3. PICK g : g = [q \in SUBSET (1 .. j) |-> IF j \in q THEN op(f[q \ {j}], j) ELSE f[q]]
    OBVIOUS
  <2>4. \A q \in SUBSET (1 .. j) : /\ q \ {j} \in SUBSET (1 .. k)
                                   /\ j \notin q => q \in SUBSET (1 .. k)
    BY <2>2
  <2>5. \A q \in SUBSET (1 .. k) : f[q] = IF q = {} THEN a ELSE op(f[q \ {Max(q)}], Max(q))
    BY <2>1
  <2>6. ASSUME NEW q \in SUBSET (1 .. j)
        PROVE  g[q] = IF q = {} THEN a ELSE op(g[q \ {Max(q)}], Max(q))
    <3>1. CASE q = {}
      <4>1. j \notin q /\ q \in SUBSET (1 .. k)
        BY <3>1
      <4>2. g[q] = f[q] /\ f[q] = a
        BY <2>3, <2>5, <3>1, <4>1
      <4> QED BY <3>1, <4>2
    <3>2. CASE q # {} /\ j \in q
      <4>1. Max(q) \in q /\ (\A y \in q : Max(q) >= y)
        BY <3>2, MaxOf
      <4>2. Max(q) = j
        <5>1. PICK x \in 1 .. j : x = Max(q) /\ x >= j
          BY <3>2, <4>1
        <5> QED BY <5>1
      <4>3. q \ {j} \in SUBSET (1 .. j) /\ j \notin q \ {j}
        OBVIOUS
      <4>4. g[q \ {j}] = f[q \ {j}] /\ g[q] = op(f[q \ {j}], j)
        BY <2>3, <3>2, <4>3
      <4> QED BY <3>2, <4>2, <4>4
    <3>3. CASE q # {} /\ j \notin q
      <4>1. q \in SUBSET (1 .. k)
        BY <2>4, <3>3
      <4>2. q \ {Max(q)} \in SUBSET (1 .. j) /\ j \notin q \ {Max(q)}
        BY <3>3
      <4>3. g[q] = f[q] /\ g[q \ {Max(q)}] = f[q \ {Max(q)}]
        BY <2>3, <3>3, <4>2
      <4>4. f[q] = op(f[q \ {Max(q)}], Max(q))
        BY <2>5, <3>3, <4>1
      <4> QED BY <3>3, <4>3, <4>4
    <3> QED BY <3>1, <3>2, <3>3
  <2>7. g = [q \in SUBSET (1 .. j) |-> g[q]]
    BY <2>3
  <2>8. Is(g, j)
    BY <2>6, <2>7, Zenon
  <2> HIDE DEF Is
  <2> QED BY <2>2, <2>8
<1> HIDE DEF S
<1>3. n \in S
  BY <1>1, <1>2, Induction
<1>4. \E f : Is(f, n)
  BY <1>3 DEF S
<1>5. printf(format, args) = (CHOOSE f : Is(f, n))[1 .. n].out
  BY Zenon DEF printf, FoldLeft, MapThenFoldSet, op, a, Begun
<1>6. PICK g : Is(g, n) /\ printf(format, args) = g[1 .. n].out
  BY <1>4, <1>5
<1>7. PICK r : r = [k \in 0 .. n |-> g[1 .. k]]
  OBVIOUS
<1>8. r[0] = a
  <2>1. 1 .. 0 = {} /\ {} \in SUBSET (1 .. n) /\ 0 \in 0 .. n
    OBVIOUS
  <2> QED BY <1>6, <1>7, <2>1
<1>9. ASSUME NEW k \in 1 .. n PROVE r[k] = op(r[k - 1], k)
  <2>1. /\ Max(1 .. k) = k /\ (1 .. k) \ {k} = 1 .. k - 1
        /\ 1 .. k \in SUBSET (1 .. n) /\ 1 .. k # {}
    BY MaxInterval
  <2>2. k \in 0 .. n /\ k - 1 \in 0 .. n
    OBVIOUS
  <2>3. g[1 .. k] = op(g[1 .. k - 1], k)
    BY <1>6, <2>1
  <2> QED BY <1>7, <2>2, <2>3
<1>10. r[n] = g[1 .. n]
  <2>1. n \in 0 .. n
    OBVIOUS
  <2> QED BY <1>7, <2>1
<1>11. IsPrinting(r, format, args, n)
  BY <1>8, <1>9 DEF IsPrinting, op, a
<1> QED BY <1>6, <1>10, <1>11

(* What printf has done outside a conversion, behind a %, and behind a %#. *)
Outside(args, out)   == [percent |-> FALSE, alternate |-> FALSE, args |-> args, out |-> out]
Behind(args, out)    == [percent |-> TRUE, alternate |-> FALSE, args |-> args, out |-> out]
Alternate(args, out) == [percent |-> TRUE, alternate |-> TRUE, args |-> args, out |-> out]

(* Each character of a format, where it can stand.                         *)
LEMMA PrintfSteps ==
  ASSUME NEW args, NEW out
  PROVE  /\ Begun(args) = Outside(args, <<>>)
         /\ PrintfStep(Outside(args, out), "%") = Behind(args, out)
         /\ PrintfStep(Behind(args, out), "#") = Alternate(args, out)
         /\ PrintfStep(Behind(args, out), "%") = Outside(args, Append(out, "%"))
         /\ PrintfStep(Behind(args, out), "q") = Outside(args, out)
         /\ \A c \in {"x", "u", "d"} :
              PrintfStep(Behind(args, out), c)
                = Outside(Tail(args), out \o Conversion(Behind(args, out), c, Head(args)))
         /\ PrintfStep(Alternate(args, out), "x").out
              = out \o Conversion(Alternate(args, out), "x", Head(args))
<1>1. PICK p : p = Behind(args, out)
  OBVIOUS
<1>2. p.percent = TRUE /\ p.args = args /\ p.out = out
  BY <1>1 DEF Behind
<1>3. Begun(args) = Outside(args, <<>>)
  BY DEF Begun, Outside
<1>4. PrintfStep(Outside(args, out), "%") = Behind(args, out)
  BY DEF Outside, Behind, PrintfStep
<1>5. PrintfStep(p, "#") = Alternate(args, out)
  <2>1. PrintfStep(p, "#") = [p EXCEPT !.alternate = TRUE]
    BY <1>2 DEF PrintfStep, Conversions
  <2> QED BY <1>1, <2>1 DEF Behind, Alternate
<1>6. PrintfStep(p, "%") = Outside(args, Append(out, "%"))
  <2>1. PrintfStep(p, "%") = [p EXCEPT !.percent = FALSE, !.out = Append(@, "%")]
    BY <1>2 DEF PrintfStep, Conversions
  <2>2. PICK o : o = Append(out, "%")
    OBVIOUS
  <2>3. PICK p1 : p1 = [p EXCEPT !.percent = FALSE]
    OBVIOUS
  <2>4. PICK p2 : p2 = [p1 EXCEPT !.out = o]
    OBVIOUS
  <2>5. [p EXCEPT !.percent = FALSE, !.out = Append(@, "%")] = [p EXCEPT !.percent = FALSE, !.out = o]
    BY <1>2, <2>2
  <2>6. [p EXCEPT !.percent = FALSE, !.out = o] = p2
    BY <2>3, <2>4
  <2>7. p1 = Outside(args, out)
    BY <1>1, <2>3 DEF Behind, Outside
  <2>8. p2 = Outside(args, o)
    BY <2>4, <2>7 DEF Outside
  <2> QED BY <2>1, <2>2, <2>5, <2>6, <2>8
<1>7. PrintfStep(p, "q") = Outside(args, out)
  BY <1>1 DEF Behind, Outside, PrintfStep, Conversions
<1>8. ASSUME NEW c \in {"x", "u", "d"}
      PROVE  PrintfStep(p, c) = Outside(Tail(args), out \o Conversion(p, c, Head(args)))
  <2>1. c \in Conversions /\ c # "#" /\ c # "%"
    BY DEF Conversions
  <2>2. PrintfStep(p, c)
          = [p EXCEPT !.percent = FALSE, !.out = @ \o Conversion(p, c, Head(p.args)), !.args = Tail(@)]
    BY <1>2, <2>1 DEF PrintfStep
  <2>3. PICK o, b : o = out \o Conversion(p, c, Head(args)) /\ b = Tail(args)
    OBVIOUS
  <2>4. [p EXCEPT !.percent = FALSE, !.out = @ \o Conversion(p, c, Head(p.args)), !.args = Tail(@)]
          = [p EXCEPT !.percent = FALSE, !.out = o, !.args = b]
    BY <1>2, <2>3
  <2>5. PICK p1 : p1 = [p EXCEPT !.percent = FALSE]
    OBVIOUS
  <2>6. PICK p2 : p2 = [p1 EXCEPT !.out = o]
    OBVIOUS
  <2>7. PICK p3 : p3 = [p2 EXCEPT !.args = b]
    OBVIOUS
  <2>8. [p EXCEPT !.percent = FALSE, !.out = o, !.args = b] = p3
    BY <2>5, <2>6, <2>7
  <2>9. p1 = Outside(args, out)
    BY <1>1, <2>5 DEF Behind, Outside
  <2>10. p2 = Outside(args, o)
    BY <2>6, <2>9 DEF Outside
  <2>11. p3 = Outside(b, o)
    BY <2>7, <2>10 DEF Outside
  <2> QED BY <2>2, <2>3, <2>4, <2>8, <2>11
<1>9. PrintfStep(Alternate(args, out), "x").out = out \o Conversion(Alternate(args, out), "x", Head(args))
  <2>1. PICK a : a = Alternate(args, out)
    OBVIOUS
  <2>2. a.percent = TRUE /\ a.args = args /\ a.out = out
    BY <2>1 DEF Alternate
  <2>3. PrintfStep(a, "x")
          = [a EXCEPT !.percent = FALSE, !.out = @ \o Conversion(a, "x", Head(a.args)), !.args = Tail(@)]
    BY <2>2 DEF PrintfStep, Conversions
  <2>4. PICK o, b : o = out \o Conversion(a, "x", Head(args)) /\ b = Tail(args)
    OBVIOUS
  <2>5. [a EXCEPT !.percent = FALSE, !.out = @ \o Conversion(a, "x", Head(a.args)), !.args = Tail(@)]
          = [a EXCEPT !.percent = FALSE, !.out = o, !.args = b]
    BY <2>2, <2>4
  <2>6. [a EXCEPT !.percent = FALSE, !.out = o, !.args = b].out = o
    BY <2>1 DEF Alternate
  <2> QED BY <2>1, <2>3, <2>4, <2>5, <2>6
<1> QED BY <1>1, <1>3, <1>4, <1>5, <1>6, <1>7, <1>8, <1>9

(* What the four conversions of numbers print.                             *)
LEMMA ConversionIs ==
  ASSUME NEW w, NEW args, NEW out
  PROVE  /\ Conversion(Behind(args, out), "x", w) = itoa(w, 16)
         /\ Conversion(Alternate(args, out), "x", w) = Padded(itoa(w, 16))
         /\ Conversion(Behind(args, out), "u", w) = itoa(w, 10)
         /\ Conversion(Behind(args, out), "d", w)
              = IF Negative(w) THEN <<"-">> \o itoa(Minus(w), 10) ELSE itoa(w, 10)
<1>1. PICK p : p = Behind(args, out)
  OBVIOUS
<1>2. PICK q : q = Alternate(args, out)
  OBVIOUS
<1>3. p.alternate = FALSE /\ q.alternate = TRUE
  BY <1>1, <1>2 DEF Behind, Alternate
<1>4. Conversion(p, "x", w) = itoa(w, 16)
  BY <1>3 DEF Conversion, puts
<1>5. Conversion(q, "x", w) = Padded(itoa(w, 16))
  BY <1>3 DEF Conversion, puts
<1>6. Conversion(p, "u", w) = itoa(w, 10)
  BY DEF Conversion, puts
<1>7. Conversion(p, "d", w) = IF Negative(w) THEN <<"-">> \o itoa(Minus(w), 10) ELSE itoa(w, 10)
  BY DEF Conversion, puts
<1> QED BY <1>1, <1>2, <1>4, <1>5, <1>6, <1>7

(* A format of one conversion.                                             *)
LEMMA OnePrinted ==
  ASSUME NEW w
  PROVE  /\ printf(<<"%", "x">>, <<w>>) = <<>> \o itoa(w, 16)
         /\ printf(<<"%", "u">>, <<w>>) = <<>> \o itoa(w, 10)
<1>1. ASSUME NEW c \in {"x", "u"}
      PROVE  printf(<<"%", c>>, <<w>>) = <<>> \o itoa(w, IF c = "x" THEN 16 ELSE 10)
  <2>1. PICK format : format = <<"%", c>>
    OBVIOUS
  <2>2. DOMAIN format = 1 .. 2 /\ format[1] = "%" /\ format[2] = c
    BY <2>1
  <2>3. PICK args : args = <<w>> /\ Head(args) = w
    <3>1. Head(<<w>>) = w
      OBVIOUS
    <3> QED BY <3>1
  <2>4. 2 \in Nat
    OBVIOUS
  <2>5. PICK r : IsPrinting(r, format, args, 2) /\ printf(format, args) = r[2].out
    <3>1. PICK n \in Nat : n = 2 /\ DOMAIN format = 1 .. n
      BY <2>2, <2>4
    <3>2. PICK r : IsPrinting(r, format, args, n) /\ printf(format, args) = r[n].out
      BY <3>1, PrintfRun
    <3> QED BY <3>1, <3>2
  <2>6. r[0] = Begun(args) /\ r[1] = PrintfStep(r[0], "%") /\ r[2] = PrintfStep(r[1], c)
    <3>1. 1 \in 1 .. 2 /\ 2 \in 1 .. 2 /\ 1 - 1 = 0 /\ 2 - 1 = 1
      OBVIOUS
    <3> QED BY <2>2, <2>5, <3>1 DEF IsPrinting
  <2>7. r[0] = Outside(args, <<>>)
    BY <2>6, PrintfSteps
  <2>8. r[1] = Behind(args, <<>>)
    <3>1. PrintfStep(Outside(args, <<>>), "%") = Behind(args, <<>>)
      BY PrintfSteps
    <3> QED BY <2>6, <2>7, <3>1
  <2>9. r[2] = Outside(Tail(args), <<>> \o Conversion(r[1], c, w))
    <3>1. c \in {"x", "u", "d"}
      OBVIOUS
    <3>2. PrintfStep(Behind(args, <<>>), c)
            = Outside(Tail(args), <<>> \o Conversion(Behind(args, <<>>), c, Head(args)))
      BY <3>1, PrintfSteps
    <3> QED BY <2>3, <2>6, <2>8, <3>2
  <2>10. r[2].out = <<>> \o Conversion(r[1], c, w)
    BY <2>9 DEF Outside
  <2>11. Conversion(r[1], c, w) = itoa(w, IF c = "x" THEN 16 ELSE 10)
    <3>1. /\ Conversion(Behind(args, <<>>), "x", w) = itoa(w, 16)
          /\ Conversion(Behind(args, <<>>), "u", w) = itoa(w, 10)
      BY ConversionIs
    <3> QED BY <2>8, <3>1
  <2> QED BY <2>1, <2>3, <2>5, <2>10, <2>11
<1> QED BY <1>1

(* The full width.                                                         *)
LEMMA FullPrinted ==
  ASSUME NEW w
  PROVE  printf(<<"%", "#", "x">>, <<w>>) = <<>> \o Padded(itoa(w, 16))
<1>1. PICK format : format = <<"%", "#", "x">>
  OBVIOUS
<1>2. DOMAIN format = 1 .. 3 /\ format[1] = "%" /\ format[2] = "#" /\ format[3] = "x"
  BY <1>1
<1>3. PICK args : args = <<w>> /\ Head(args) = w
  <2>1. Head(<<w>>) = w
    OBVIOUS
  <2> QED BY <2>1
<1>4. 3 \in Nat
  OBVIOUS
<1>5. PICK r : IsPrinting(r, format, args, 3) /\ printf(format, args) = r[3].out
  <2>1. PICK n \in Nat : n = 3 /\ DOMAIN format = 1 .. n
    BY <1>2, <1>4
  <2>2. PICK r : IsPrinting(r, format, args, n) /\ printf(format, args) = r[n].out
    BY <2>1, PrintfRun
  <2> QED BY <2>1, <2>2
<1>6. /\ r[0] = Begun(args) /\ r[1] = PrintfStep(r[0], "%")
      /\ r[2] = PrintfStep(r[1], "#") /\ r[3] = PrintfStep(r[2], "x")
  <2>1. 1 \in 1 .. 3 /\ 2 \in 1 .. 3 /\ 3 \in 1 .. 3 /\ 1 - 1 = 0 /\ 2 - 1 = 1 /\ 3 - 1 = 2
    OBVIOUS
  <2> QED BY <1>2, <1>5, <2>1 DEF IsPrinting
<1>7. r[0] = Outside(args, <<>>)
  BY <1>6, PrintfSteps
<1>8. r[1] = Behind(args, <<>>)
  <2>1. PrintfStep(Outside(args, <<>>), "%") = Behind(args, <<>>)
    BY PrintfSteps
  <2> QED BY <1>6, <1>7, <2>1
<1>9. r[2] = Alternate(args, <<>>)
  <2>1. PrintfStep(Behind(args, <<>>), "#") = Alternate(args, <<>>)
    BY PrintfSteps
  <2> QED BY <1>6, <1>8, <2>1
<1>10. r[3].out = <<>> \o Conversion(r[2], "x", w)
  <2>1. PrintfStep(Alternate(args, <<>>), "x").out
          = <<>> \o Conversion(Alternate(args, <<>>), "x", Head(args))
    BY PrintfSteps
  <2> QED BY <1>3, <1>6, <1>9, <2>1
<1>11. Conversion(r[2], "x", w) = Padded(itoa(w, 16))
  <2>1. Conversion(Alternate(args, <<>>), "x", w) = Padded(itoa(w, 16))
    BY ConversionIs
  <2> QED BY <1>9, <2>1
<1> QED BY <1>1, <1>3, <1>5, <1>10, <1>11

(* A conversion behind another, which takes the next argument.             *)
LEMMA TwoPrinted ==
  ASSUME NEW w
  PROVE  printf(<<"%", "d", "%", "%", "%", "q", "%", "u">>, <<w, w>>)
           = Append(<<>> \o (IF Negative(w) THEN <<"-">> \o itoa(Minus(w), 10) ELSE itoa(w, 10)), "%")
               \o itoa(w, 10)
<1>1. PICK format : format = <<"%", "d", "%", "%", "%", "q", "%", "u">>
  OBVIOUS
<1>2. /\ DOMAIN format = 1 .. 8 /\ format[1] = "%" /\ format[2] = "d" /\ format[3] = "%"
      /\ format[4] = "%" /\ format[5] = "%" /\ format[6] = "q" /\ format[7] = "%" /\ format[8] = "u"
  BY <1>1
<1>3. PICK args : args = <<w, w>>
  OBVIOUS
<1>4. PICK rest : rest = Tail(args)
  OBVIOUS
<1>5. Head(args) = w /\ Head(rest) = w
  <2>1. rest = <<w>>
    BY <1>3, <1>4
  <2> QED BY <1>3, <2>1
<1>6. 8 \in Nat
  OBVIOUS
<1>7. PICK r : IsPrinting(r, format, args, 8) /\ printf(format, args) = r[8].out
  <2>1. PICK n \in Nat : n = 8 /\ DOMAIN format = 1 .. n
    BY <1>2, <1>6
  <2>2. PICK r : IsPrinting(r, format, args, n) /\ printf(format, args) = r[n].out
    BY <2>1, PrintfRun
  <2> QED BY <2>1, <2>2
<1>8. /\ r[0] = Begun(args) /\ r[1] = PrintfStep(r[0], "%") /\ r[2] = PrintfStep(r[1], "d")
      /\ r[3] = PrintfStep(r[2], "%") /\ r[4] = PrintfStep(r[3], "%") /\ r[5] = PrintfStep(r[4], "%")
      /\ r[6] = PrintfStep(r[5], "q") /\ r[7] = PrintfStep(r[6], "%") /\ r[8] = PrintfStep(r[7], "u")
  <2>1. \A k \in 1 .. 8 : r[k] = PrintfStep(r[k - 1], format[k])
    BY <1>7 DEF IsPrinting
  <2>2. /\ 1 \in 1 .. 8 /\ 2 \in 1 .. 8 /\ 3 \in 1 .. 8 /\ 4 \in 1 .. 8
        /\ 5 \in 1 .. 8 /\ 6 \in 1 .. 8 /\ 7 \in 1 .. 8 /\ 8 \in 1 .. 8
        /\ 1 - 1 = 0 /\ 2 - 1 = 1 /\ 3 - 1 = 2 /\ 4 - 1 = 3
        /\ 5 - 1 = 4 /\ 6 - 1 = 5 /\ 7 - 1 = 6 /\ 8 - 1 = 7
    OBVIOUS
  <2>3. r[1] = PrintfStep(r[0], "%") /\ r[2] = PrintfStep(r[1], "d") /\ r[3] = PrintfStep(r[2], "%")
    BY <1>2, <2>1, <2>2
  <2>4. r[4] = PrintfStep(r[3], "%") /\ r[5] = PrintfStep(r[4], "%") /\ r[6] = PrintfStep(r[5], "q")
    BY <1>2, <2>1, <2>2
  <2>5. r[7] = PrintfStep(r[6], "%") /\ r[8] = PrintfStep(r[7], "u")
    BY <1>2, <2>1, <2>2
  <2> QED BY <1>7, <2>3, <2>4, <2>5 DEF IsPrinting
<1>9. PICK number : number = IF Negative(w) THEN <<"-">> \o itoa(Minus(w), 10) ELSE itoa(w, 10)
  OBVIOUS
<1>10. PICK o : o = <<>> \o number
  OBVIOUS
<1>11. r[0] = Outside(args, <<>>)
  BY <1>8, PrintfSteps
<1>12. r[1] = Behind(args, <<>>)
  <2>1. PrintfStep(Outside(args, <<>>), "%") = Behind(args, <<>>)
    BY PrintfSteps
  <2> QED BY <1>8, <1>11, <2>1
<1>13. Conversion(r[1], "d", w) = number
  <2>1. Conversion(Behind(args, <<>>), "d", w)
          = IF Negative(w) THEN <<"-">> \o itoa(Minus(w), 10) ELSE itoa(w, 10)
    BY ConversionIs
  <2> QED BY <1>9, <1>12, <2>1
<1>14. r[2] = Outside(rest, o)
  <2>1. PrintfStep(Behind(args, <<>>), "d")
          = Outside(Tail(args), <<>> \o Conversion(Behind(args, <<>>), "d", Head(args)))
    BY PrintfSteps
  <2> QED BY <1>4, <1>5, <1>8, <1>10, <1>12, <1>13, <2>1
<1>15. r[3] = Behind(rest, o)
  <2>1. PrintfStep(Outside(rest, o), "%") = Behind(rest, o)
    BY PrintfSteps
  <2> QED BY <1>8, <1>14, <2>1
<1>16. PICK a : a = Append(o, "%")
  OBVIOUS
<1>17. r[4] = Outside(rest, a)
  <2>1. PrintfStep(Behind(rest, o), "%") = Outside(rest, Append(o, "%"))
    BY PrintfSteps
  <2> QED BY <1>8, <1>15, <1>16, <2>1
<1>18. r[5] = Behind(rest, a)
  <2>1. PrintfStep(Outside(rest, a), "%") = Behind(rest, a)
    BY PrintfSteps
  <2> QED BY <1>8, <1>17, <2>1
<1>19. r[6] = Outside(rest, a)
  <2>1. PrintfStep(Behind(rest, a), "q") = Outside(rest, a)
    BY PrintfSteps
  <2> QED BY <1>8, <1>18, <2>1
<1>20. r[7] = Behind(rest, a)
  <2>1. PrintfStep(Outside(rest, a), "%") = Behind(rest, a)
    BY PrintfSteps
  <2> QED BY <1>8, <1>19, <2>1
<1>21. r[8] = Outside(Tail(rest), a \o Conversion(r[7], "u", w))
  <2>1. PrintfStep(Behind(rest, a), "u")
          = Outside(Tail(rest), a \o Conversion(Behind(rest, a), "u", Head(rest)))
    BY PrintfSteps
  <2> QED BY <1>5, <1>8, <1>20, <2>1
<1>22. r[8].out = a \o Conversion(r[7], "u", w)
  BY <1>21 DEF Outside
<1>23. Conversion(r[7], "u", w) = itoa(w, 10)
  <2>1. Conversion(Behind(rest, a), "u", w) = itoa(w, 10)
    BY ConversionIs
  <2> QED BY <1>20, <2>1
<1>24. printf(format, args) = a \o itoa(w, 10)
  BY <1>7, <1>22, <1>23
<1> QED BY <1>1, <1>3, <1>9, <1>10, <1>16, <1>24

(* A number alone is printed as its digits.                                *)
LEMMA NumberAlone ==
  ASSUME NEW v \in Nat
  PROVE  /\ AreDigits(printf(<<"%", "x">>, <<v>>), v, 16)
         /\ printf(<<"%", "x">>, <<v>>) = itoa(v, 16)
         /\ AreDigits(printf(<<"%", "u">>, <<v>>), v, 10)
         /\ printf(<<"%", "u">>, <<v>>) = itoa(v, 10)
<1>1. 16 \in Nat /\ 16 >= 2 /\ 10 \in Nat /\ 10 >= 2
  OBVIOUS
<1>2. AreDigits(itoa(v, 16), v, 16) /\ AreDigits(itoa(v, 10), v, 10)
  BY <1>1, ItoaWritesNumber
<1>3. itoa(v, 16) \in Seq(Nat) /\ itoa(v, 10) \in Seq(Nat)
  BY <1>2 DEF AreDigits
<1>4. <<>> \o itoa(v, 16) = itoa(v, 16) /\ <<>> \o itoa(v, 10) = itoa(v, 10)
  BY <1>3, ConcatEmptySeq
<1> QED BY <1>2, <1>4, OnePrinted

(* printf (lib.c:45) prints every word as the number it is: in hexadecimal *)
(* without a 0 in front of it, and with %#x in its full width ...          *)
THEOREM HexIsNumber ==
  ASSUME NEW w \in Word
  PROVE  HexPrinted(w)
<1>1. w \in Nat /\ Len(itoa(w, 16)) \in 0 .. WordBits \div 4
  BY HexFits
<1>2. PICK d : d = itoa(w, 16)
  OBVIOUS
<1>3. PICK hex, full : hex = printf(<<"%", "x">>, <<w>>) /\ full = printf(<<"%", "#", "x">>, <<w>>)
  OBVIOUS
<1>4. hex = d /\ AreDigits(d, w, 16)
  BY <1>1, <1>2, <1>3, NumberAlone
<1>5. Value(hex, 16) = w /\ (w # 0 => hex[1] # 0)
  BY <1>4 DEF AreDigits
<1>6. PICK n \in Nat : n = WordBits \div 4 - Len(d) /\ n + Len(d) = WordBits \div 4
  <2>1. PICK l \in Nat, k \in Nat : l = Len(d) /\ k = WordBits \div 4 /\ l <= k
    BY <1>1, <1>2, WordBitsAssumption
  <2>2. k - l \in Nat /\ (k - l) + l = k
    BY <2>1
  <2> QED BY <2>1, <2>2
<1>7. PICK z : z = [i \in 1 .. n |-> 0] \o d
  OBVIOUS
<1>8. Value(z, 16) = w /\ z \in Seq(Nat) /\ Len(z) = WordBits \div 4
  <2>1. d \in Seq(Nat) /\ Value(d, 16) = w
    BY <1>4 DEF AreDigits
  <2>2. 16 \in Nat
    OBVIOUS
  <2>3. Value(z, 16) = Value(d, 16) /\ z \in Seq(Nat) /\ Len(z) = n + Len(d)
    BY <1>7, <2>1, <2>2, ZerosInFront
  <2> QED BY <1>6, <2>1, <2>3
<1>9. full = z
  <2>1. Padded(d) = z
    BY <1>6, <1>7 DEF Padded
  <2>2. <<>> \o z = z
    BY <1>8, ConcatEmptySeq
  <2> QED BY <1>2, <1>3, <2>1, <2>2, FullPrinted
<1> QED BY <1>3, <1>5, <1>8, <1>9 DEF HexPrinted

(* ... and in decimal with its sign, the most negative one too, a second   *)
(* conversion behind it with the argument that follows.                    *)
THEOREM DecimalIsNumber ==
  ASSUME NEW w \in Word
  PROVE  DecimalPrinted(w)
<1> DEFINE O == Nat \cup {"-", "%"}
<1>1. PICK t \in Nat : t = TwoTo[WordBits]
  BY WordBitsAssumption, TwoToIs
<1>2. w \in Nat /\ w < t
  BY <1>1 DEF Word
<1>3. PICK value \in Nat : /\ value = IF Negative(w) THEN t - w ELSE w
                           /\ Negative(w) => Minus(w) = value
  <2>1. PICK h \in Nat : h = TwoTo[WordBits - 1] /\ h # 0
    <3>1. WordBits - 1 \in Nat
      BY WordBitsAssumption
    <3> QED BY <3>1, TwoToIs
  <2>2. Negative(w) => w # 0
    BY <1>2, <2>1 DEF Negative
  <2>3. t - w \in Nat /\ (w # 0 => (t - w) % t = t - w)
    <3>1. t - w \in Nat /\ (w # 0 => t - w < t)
      BY <1>2
    <3>2. PICK u \in Nat : u = t - w /\ (w # 0 => u < t)
      BY <3>1
    <3>3. u < t => u % t = u
      OBVIOUS
    <3> QED BY <3>2, <3>3
  <2>4. Minus(w) = (t - w) % t
    BY <1>1 DEF Minus
  <2> QED BY <1>2, <2>2, <2>3, <2>4
<1>4. PICK unsigned : unsigned = itoa(w, 10)
  OBVIOUS
<1>5. PICK absolute : absolute = itoa(value, 10)
  OBVIOUS
<1>6. PICK sign : sign = IF Negative(w) THEN <<"-">> ELSE <<>>
  OBVIOUS
<1>7. /\ printf(<<"%", "u">>, <<w>>) = unsigned /\ AreDigits(unsigned, w, 10)
      /\ printf(<<"%", "u">>, <<value>>) = absolute /\ AreDigits(absolute, value, 10)
  BY <1>2, <1>4, <1>5, NumberAlone
<1>8. unsigned \in Seq(O) /\ absolute \in Seq(O) /\ sign \in Seq(O) /\ <<"%">> \in Seq(O)
  <2>1. unsigned \in Seq(Nat) /\ absolute \in Seq(Nat)
    BY <1>7 DEF AreDigits
  <2>2. unsigned \in Seq(O) /\ absolute \in Seq(O)
    BY <2>1
  <2>3. <<"-">> \in Seq(O) /\ <<"%">> \in Seq(O) /\ <<>> \in Seq(O)
    OBVIOUS
  <2> QED BY <1>6, <2>2, <2>3
<1> HIDE DEF O
<1>9. PICK number : number = sign \o absolute
  OBVIOUS
<1>10. number \in Seq(O)
  BY <1>8, <1>9, ConcatProperties
<1>11. number = IF Negative(w) THEN <<"-">> \o itoa(Minus(w), 10) ELSE itoa(w, 10)
  <2>1. CASE Negative(w)
    BY <1>3, <1>5, <1>6, <1>9, <2>1
  <2>2. CASE ~Negative(w)
    <3>1. <<>> \o absolute = absolute
      BY <1>8, ConcatEmptySeq
    <3> QED BY <1>3, <1>5, <1>6, <1>9, <2>2, <3>1
  <2> QED BY <2>1, <2>2
<1>12. <<>> \o number = number
  BY <1>10, ConcatEmptySeq
<1>13. Append(number, "%") = number \o <<"%">>
  <2>1. "%" \in O
    BY DEF O
  <2> QED BY <1>10, <2>1, AppendIsConcat
<1>14. printf(<<"%", "d", "%", "%", "%", "q", "%", "u">>, <<w, w>>) = (number \o <<"%">>) \o unsigned
  BY <1>4, <1>11, <1>12, <1>13, TwoPrinted
<1>15. Value(unsigned, 10) = w
  BY <1>7 DEF AreDigits
<1>16. value = IF Negative(w) THEN TwoTo[WordBits] - w ELSE w
  BY <1>1, <1>3
<1> QED BY <1>6, <1>7, <1>9, <1>14, <1>15, <1>16 DEF DecimalPrinted
=============================================================================
