--------------------------- MODULE LibraryProofs ---------------------------
(***************************************************************************)
(* The library routines compute what they are for, for every input: memmove, *)
(* memcpy, bcopy and memset for every memory, number of bytes and size of a  *)
(* word; the division of a word and of a double word for every dividend and  *)
(* divisor, whatever the size of a word; the decimal digits of every number. *)
(***************************************************************************)
EXTENDS LibraryCalls, FiniteSetTheorems, SequenceTheorems, TLAPS

-----------------------------------------------------------------------------
(* Induction, for sets of numbers.                                         *)
LEMMA Minimal ==
  ASSUME NEW T \in SUBSET Nat, T # {}
  PROVE  \E n \in T : \A m \in T : ~(m < n)
<1>0. PICK b \in T : TRUE
  OBVIOUS
<1> DEFINE D == {0 .. k : k \in T \cap (0 .. b)}
           R == StrictSubsetOrdering(0 .. b)
<1>1. IsFiniteSet(0 .. b)
  BY FS_Interval
<1>7. FiniteSubsetsOf(0 .. b) = SUBSET (0 .. b)
  BY <1>1, FS_FiniteSubsetsOfFinite
<1>8. IsWellFoundedOn(StrictSubsetOrdering(0 .. b), FiniteSubsetsOf(0 .. b))
  BY FS_StrictSubsetOrderingWellFounded
<1>2. IsWellFoundedOn(R, SUBSET (0 .. b))
  BY <1>7, <1>8
<1>3. D \subseteq SUBSET (0 .. b) /\ D # {}
  BY <1>0
<1> HIDE DEF R
<1>4. \E x \in D : \A y \in D : <<y, x>> \notin R
  BY <1>2, <1>3, WFMin
<1>5. PICK k \in T \cap (0 .. b) : \A y \in D : <<y, 0 .. k>> \notin R
  BY <1>4
<1>6. ASSUME NEW m \in T, m < k PROVE FALSE
  <2>1. m \in 0 .. b /\ 0 .. m \in D /\ 0 .. k \in SUBSET (0 .. b) /\ 0 .. m \in SUBSET (0 .. b)
    BY <1>6
  <2>2. 0 .. m \subseteq 0 .. k /\ k \in 0 .. k /\ k \notin 0 .. m
    BY <1>6
  <2>3. 0 .. m # 0 .. k
    BY <2>2
  <2>4. <<0 .. m, 0 .. k>> \in R
    BY <2>1, <2>2, <2>3 DEF R, StrictSubsetOrdering
  <2> QED
    BY <1>5, <2>1, <2>4
<1> QED
  BY <1>6

LEMMA Induction ==
  ASSUME NEW T, 0 \in T, \A n \in Nat : n \in T => n + 1 \in T
  PROVE  Nat \subseteq T
<1> SUFFICES ASSUME Nat \ T # {} PROVE FALSE
  OBVIOUS
<1>1. PICK n \in Nat \ T : \A m \in Nat \ T : ~(m < n)
  BY Minimal
<1>2. n # 0 /\ n - 1 \in Nat /\ n - 1 < n
  BY <1>1
<1>3. n - 1 \in T
  BY <1>1, <1>2
<1> QED
  BY <1>1, <1>2, <1>3

(* Two sequences of states that start alike and go on alike end alike. *)
LEMMA SameLoop ==
  ASSUME NEW f, NEW g, NEW count \in Nat, f[0] = g[0],
         \A n \in 1 .. count : f[n - 1] = g[n - 1] => f[n] = g[n]
  PROVE  f[count] = g[count]
<1> DEFINE T == {n \in Nat : n <= count => f[n] = g[n]}
<1>1. 0 \in T
  OBVIOUS
<1>2. ASSUME NEW n \in Nat, n \in T PROVE n + 1 \in T
  <2>1. CASE n + 1 <= count
    <3>1. f[n] = g[n] /\ n + 1 \in 1 .. count /\ (n + 1) - 1 = n
      BY <1>2, <2>1
    <3>2. f[n + 1] = g[n + 1]
      BY <3>1
    <3> QED
      BY <3>2
  <2> QED
    BY <2>1
<1> HIDE DEF T
<1>3. Nat \subseteq T
  BY <1>1, <1>2, Induction
<1> QED
  BY <1>3 DEF T

-----------------------------------------------------------------------------
(* The loops.                                                              *)

(* A memory holds a byte at each of some addresses; an area lies in it. *)
IsMemory(mem) == DOMAIN mem \subseteq Int /\ mem = [a \in DOMAIN mem |-> mem[a]]
Holds(mem, p, count) == p .. p + count - 1 \subseteq DOMAIN mem

LEMMA MovedIsMemory ==
  ASSUME NEW mem, IsMemory(mem), NEW dest, NEW src, NEW count
  PROVE  IsMemory(Moved(mem, dest, src, count)) /\ DOMAIN Moved(mem, dest, src, count) = DOMAIN mem
  BY DEF IsMemory, Moved

LEMMA Units ==
  ASSUME NEW count \in Nat, NEW size \in Nat, NEW n \in 1 .. count
  PROVE  /\ (n - 1) * size \in Nat /\ n * size \in Nat /\ count * size \in Nat
         /\ n * size = (n - 1) * size + size
         /\ n * size <= count * size
<1>1. \A x, y \in Int : (x + 1) * y = x * y + y
  BY SMT
<1>2. \A x, y \in Nat : x * y \in Nat
  BY SMT
<1>3. \A x, y, z \in Nat : (x + y) * z = x * z + y * z
  BY SMT
<1>4. n * size = (n - 1) * size + size
  <2>1. n - 1 \in Int /\ (n - 1) + 1 = n
    OBVIOUS
  <2>2. ((n - 1) + 1) * size = (n - 1) * size + size
    BY <1>1, <2>1
  <2> QED
    BY <2>1, <2>2
<1>5. count * size = n * size + (count - n) * size
  <2>1. n \in Nat /\ count - n \in Nat /\ n + (count - n) = count
    OBVIOUS
  <2>2. (n + (count - n)) * size = n * size + (count - n) * size
    BY <1>3, <2>1
  <2> QED
    BY <2>1, <2>2
<1>6. n - 1 \in Nat /\ n \in Nat /\ count - n \in Nat
  OBVIOUS
<1>7. (n - 1) * size \in Nat /\ n * size \in Nat /\ count * size \in Nat /\ (count - n) * size \in Nat
  BY <1>2, <1>6
<1> QED
  BY <1>4, <1>5, <1>7

LEMMA CopyUpMoves ==
  ASSUME NEW mem, NEW dest \in Int, NEW src \in Int, NEW count \in Nat, NEW size \in Nat,
         IsMemory(mem),
         Holds(mem, src, count * size), Apart(dest, src, count * size)
  PROVE  CopyUp(mem, dest, src, count, size) = Moved(mem, dest, src, count * size)
<1> USE DEF IsMemory, Holds, Apart
<1> DEFINE Body(n, m) == [a \in DOMAIN mem |-> IF a - dest \in (n - 1) * size .. n * size - 1
                                               THEN m[a - dest + src] ELSE m[a]]
           Turns(f) == [n \in 0 .. count |-> IF n = 0 THEN mem ELSE Body(n, f[n - 1])]
           f == CHOOSE f : f = Turns(f)
           g == [n \in 0 .. count |-> Moved(mem, dest, src, n * size)]
<1>1. CopyUp(mem, dest, src, count, size) = f[count]
  BY Zenon DEF CopyUp
<1>2. ASSUME NEW n \in 1 .. count
      PROVE  Moved(mem, dest, src, n * size) = Body(n, Moved(mem, dest, src, (n - 1) * size))
  <2> DEFINE p == (n - 1) * size
             q == n * size
             m == Moved(mem, dest, src, p)
  <2>1. p \in Nat /\ q \in Nat /\ q = p + size /\ q <= count * size
    BY Units
  <2> HIDE DEF p, q
  <2>2. ASSUME NEW a \in DOMAIN mem
        PROVE  (IF a - dest \in 0 .. q - 1 THEN mem[a - dest + src] ELSE mem[a])
                 = IF a - dest \in p .. q - 1 THEN m[a - dest + src] ELSE m[a]
    <3>1. m[a] = IF a - dest \in 0 .. p - 1 THEN mem[a - dest + src] ELSE mem[a]
      BY DEF Moved
    <3>2. CASE a - dest \in p .. q - 1
      <4>1. a \in Int /\ count * size \in Nat
        BY <2>1, <2>2
      <4>2. a - dest + src \in DOMAIN mem
        BY <2>1, <3>2, <4>1
      <4>3. (a - dest + src) - dest \notin 0 .. p - 1
        BY <2>1, <3>2, <4>1
      <4>4. m[a - dest + src] = mem[a - dest + src]
        BY <4>2, <4>3 DEF Moved
      <4> QED
        BY <2>1, <3>2, <4>4
    <3>3. CASE a - dest \notin p .. q - 1
      BY <2>1, <3>1, <3>3
    <3> QED
      BY <3>2, <3>3
  <2> QED
    BY <2>2, Zenon DEF Moved, p, q
<1>3. Moved(mem, dest, src, 0 * size) = mem
  <2>1. 0 * size = 0
    OBVIOUS
  <2> QED
    BY <2>1 DEF Moved
<1>4. g = Turns(g)
  <2>1. ASSUME NEW n \in 0 .. count
        PROVE  Moved(mem, dest, src, n * size) = IF n = 0 THEN mem ELSE Body(n, g[n - 1])
    <3>1. CASE n = 0
      BY <1>3, <3>1
    <3>2. CASE n # 0
      <4>1. n \in 1 .. count /\ n - 1 \in 0 .. count
        BY <3>2
      <4>2. g[n - 1] = Moved(mem, dest, src, (n - 1) * size)
        BY <4>1
      <4> HIDE DEF Body, g
      <4> QED
        BY <1>2, <3>2, <4>1, <4>2
    <3> QED
      BY <3>1, <3>2
  <2> HIDE DEF Body
  <2> QED
    BY <2>1, Zenon DEF g
<1> HIDE DEF Body, g
<1>5. f = Turns(f)
  BY <1>4, Zenon
<1> HIDE DEF f
<1>6. f[0] = mem /\ g[0] = mem
  <2>1. 0 \in 0 .. count
    OBVIOUS
  <2> QED
    BY <1>4, <1>5, <2>1
<1>7. ASSUME NEW n \in 1 .. count, f[n - 1] = g[n - 1] PROVE f[n] = g[n]
  <2>1. n \in 0 .. count /\ n # 0
    OBVIOUS
  <2>2. f[n] = Body(n, f[n - 1]) /\ g[n] = Body(n, g[n - 1])
    BY <1>4, <1>5, <2>1
  <2> QED
    BY <1>7, <2>2
<1>8. f[count] = g[count]
  BY <1>6, <1>7, SameLoop
<1> QED
  BY <1>1, <1>8 DEF g

(* Moving count bytes and then the more bytes behind them is moving all of them. *)
LEMMA MovedOn ==
  ASSUME NEW mem, NEW dest \in Int, NEW src \in Int, NEW count \in Nat, NEW more \in Nat,
         IsMemory(mem), Holds(mem, src, count + more), Apart(dest, src, count + more)
  PROVE  Moved(Moved(mem, dest, src, count), dest + count, src + count, more)
           = Moved(mem, dest, src, count + more)
<1> USE DEF IsMemory, Holds, Apart
<1> DEFINE m == Moved(mem, dest, src, count)
<1>1. DOMAIN m = DOMAIN mem
  BY DEF Moved
<1>2. ASSUME NEW a \in DOMAIN mem
      PROVE  (IF a - (dest + count) \in 0 .. more - 1
              THEN m[a - (dest + count) + (src + count)] ELSE m[a])
               = IF a - dest \in 0 .. (count + more) - 1 THEN mem[a - dest + src] ELSE mem[a]
  <2>0. a \in Int
    BY <1>2
  <2>1. m[a] = IF a - dest \in 0 .. count - 1 THEN mem[a - dest + src] ELSE mem[a]
    BY DEF Moved
  <2>2. CASE a - (dest + count) \in 0 .. more - 1
    <3>1. a - (dest + count) + (src + count) = a - dest + src
      BY <2>0
    <3>2. a - dest + src \in DOMAIN mem /\ (a - dest + src) - dest \notin 0 .. count - 1
      BY <2>0, <2>2
    <3>3. m[a - dest + src] = mem[a - dest + src]
      BY <3>2 DEF Moved
    <3>4. a - dest \in 0 .. (count + more) - 1
      BY <2>0, <2>2
    <3> QED
      BY <2>2, <3>1, <3>3, <3>4
  <2>3. CASE a - (dest + count) \notin 0 .. more - 1
    <3>1. a - dest \in 0 .. (count + more) - 1 <=> a - dest \in 0 .. count - 1
      BY <2>0, <2>3
    <3> QED
      BY <2>1, <2>3, <3>1
  <2> QED
    BY <2>2, <2>3
<1> HIDE DEF m
<1>3. Moved(m, dest + count, src + count, more)
        = [a \in DOMAIN mem |-> IF a - (dest + count) \in 0 .. more - 1
                                THEN m[a - (dest + count) + (src + count)] ELSE m[a]]
  BY <1>1, Zenon DEF Moved
<1>4. Moved(mem, dest, src, count + more)
        = [a \in DOMAIN mem |-> IF a - dest \in 0 .. (count + more) - 1
                                THEN mem[a - dest + src] ELSE mem[a]]
  BY Zenon DEF Moved
<1> HIDE DEF IsMemory, Holds, Apart
<1>5. Moved(m, dest + count, src + count, more) = Moved(mem, dest, src, count + more)
  BY <1>2, <1>3, <1>4, Zenon
<1> QED
  BY <1>5 DEF m

(* From the last byte downwards no byte is read that has been written, if the destination
   begins behind the source. *)
LEMMA CopyDownMoves ==
  ASSUME NEW mem, NEW dest \in Int, NEW src \in Int, NEW count \in Nat,
         IsMemory(mem),
         Holds(mem, src, count), src < dest
  PROVE  CopyDown(mem, dest, src, count) = Moved(mem, dest, src, count)
<1> USE DEF IsMemory, Holds, Apart
<1> DEFINE Body(n, m) == [m EXCEPT ![dest + count - n] = m[src + count - n]]
           Turns(f) == [n \in 0 .. count |-> IF n = 0 THEN mem ELSE Body(n, f[n - 1])]
           f == CHOOSE f : f = Turns(f)
           Part(n) == [a \in DOMAIN mem |-> IF a - dest \in count - n .. count - 1
                                            THEN mem[a - dest + src] ELSE mem[a]]
           g == [n \in 0 .. count |-> Part(n)]
<1>1. CopyDown(mem, dest, src, count) = f[count]
  BY Zenon DEF CopyDown
<1>2. ASSUME NEW n \in 1 .. count PROVE Part(n) = Body(n, Part(n - 1))
  <2> DEFINE m == Part(n - 1)
  <2>1. DOMAIN m = DOMAIN mem
    OBVIOUS
  <2>2. m[src + count - n] = mem[src + count - n]
    <3>1. src + count - n \in DOMAIN mem
      OBVIOUS
    <3>2. (src + count - n) - dest \notin count - (n - 1) .. count - 1
      OBVIOUS
    <3> QED
      BY <3>1, <3>2
  <2>3. ASSUME NEW a \in DOMAIN mem
        PROVE  (IF a - dest \in count - n .. count - 1 THEN mem[a - dest + src] ELSE mem[a])
                 = IF a = dest + count - n THEN m[src + count - n] ELSE m[a]
    <3>0. a \in Int
      BY <2>3
    <3>1. m[a] = IF a - dest \in count - (n - 1) .. count - 1 THEN mem[a - dest + src] ELSE mem[a]
      OBVIOUS
    <3> HIDE DEF m
    <3>2. CASE a = dest + count - n
      <4>1. a - dest \in count - n .. count - 1 /\ a - dest + src = src + count - n
        BY <3>2
      <4> QED
        BY <2>2, <3>2, <4>1
    <3>3. CASE a # dest + count - n
      <4>1. a - dest \in count - n .. count - 1 <=> a - dest \in count - (n - 1) .. count - 1
        BY <3>0, <3>3
      <4> QED
        BY <3>1, <3>3, <4>1
    <3> QED
      BY <3>2, <3>3
  <2> HIDE DEF m
  <2>4. Body(n, m) = [a \in DOMAIN mem |-> IF a = dest + count - n THEN m[src + count - n] ELSE m[a]]
    BY <2>1
  <2> HIDE DEF Body
  <2>5. Part(n) = Body(n, m)
    BY <2>3, <2>4, Zenon
  <2> QED
    BY <2>5 DEF m
<1>3. Part(0) = mem
  <2>1. \A a \in DOMAIN mem : a - dest \notin count - 0 .. count - 1
    OBVIOUS
  <2> QED
    BY <2>1, Zenon
<1>9. Part(count) = Moved(mem, dest, src, count)
  <2>1. count - count = 0
    OBVIOUS
  <2> QED
    BY <2>1, Zenon DEF Moved
<1> HIDE DEF Part
<1>4. g = Turns(g)
  <2>1. ASSUME NEW n \in 0 .. count
        PROVE  Part(n) = IF n = 0 THEN mem ELSE Body(n, g[n - 1])
    <3>1. CASE n = 0
      BY <1>3, <3>1
    <3>2. CASE n # 0
      <4>1. n \in 1 .. count /\ n - 1 \in 0 .. count
        BY <3>2
      <4>2. g[n - 1] = Part(n - 1)
        BY <4>1
      <4> HIDE DEF Body, g
      <4> QED
        BY <1>2, <3>2, <4>1, <4>2
    <3> QED
      BY <3>1, <3>2
  <2> HIDE DEF Body
  <2> QED
    BY <2>1, Zenon DEF g
<1> HIDE DEF Body, g
<1>5. f = Turns(f)
  BY <1>4, Zenon
<1> HIDE DEF f
<1>6. f[0] = mem /\ g[0] = mem
  <2>1. 0 \in 0 .. count
    OBVIOUS
  <2> QED
    BY <1>4, <1>5, <2>1
<1>7. ASSUME NEW n \in 1 .. count, f[n - 1] = g[n - 1] PROVE f[n] = g[n]
  <2>1. n \in 0 .. count /\ n # 0
    OBVIOUS
  <2>2. f[n] = Body(n, f[n - 1]) /\ g[n] = Body(n, g[n - 1])
    BY <1>4, <1>5, <2>1
  <2> QED
    BY <1>7, <2>2
<1>8. f[count] = g[count]
  BY <1>6, <1>7, SameLoop
<1>10. count \in 0 .. count
  OBVIOUS
<1> QED
  BY <1>1, <1>8, <1>9, <1>10 DEF g

LEMMA FillUpFills ==
  ASSUME NEW mem, NEW s \in Int, NEW c, NEW count \in Nat, NEW size \in Nat,
         IsMemory(mem)
  PROVE  FillUp(mem, s, c, count, size) = Filled(mem, s, c, count * size)
<1> USE DEF IsMemory
<1> DEFINE Body(n, m) == [a \in DOMAIN mem |-> IF a - s \in (n - 1) * size .. n * size - 1
                                               THEN c % Bytes ELSE m[a]]
           Turns(f) == [n \in 0 .. count |-> IF n = 0 THEN mem ELSE Body(n, f[n - 1])]
           f == CHOOSE f : f = Turns(f)
           g == [n \in 0 .. count |-> Filled(mem, s, c, n * size)]
<1>1. FillUp(mem, s, c, count, size) = f[count]
  BY Zenon DEF FillUp
<1>2. ASSUME NEW n \in 1 .. count
      PROVE  Filled(mem, s, c, n * size) = Body(n, Filled(mem, s, c, (n - 1) * size))
  <2> DEFINE p == (n - 1) * size
             q == n * size
             m == Filled(mem, s, c, p)
             b == c % Bytes
  <2>1. p \in Nat /\ q \in Nat /\ q = p + size
    BY Units
  <2> HIDE DEF p, q, b
  <2>2. ASSUME NEW a \in DOMAIN mem
        PROVE  (IF a - s \in 0 .. q - 1 THEN b ELSE mem[a])
                 = IF a - s \in p .. q - 1 THEN b ELSE m[a]
    <3>1. m[a] = IF a - s \in 0 .. p - 1 THEN b ELSE mem[a]
      BY Zenon DEF Filled, b
    <3> HIDE DEF m
    <3>2. CASE a - s \in p .. q - 1
      <4>1. a - s \in 0 .. q - 1
        BY <2>1, <3>2
      <4> QED
        BY <3>2, <4>1, Zenon
    <3>3. CASE a - s \notin p .. q - 1
      <4>1. a \in Int
        BY <2>2
      <4>2. a - s \in 0 .. q - 1 <=> a - s \in 0 .. p - 1
        BY <2>1, <3>3, <4>1
      <4> QED
        BY <3>1, <3>3, <4>2, Zenon
    <3> QED
      BY <3>2, <3>3
  <2> QED
    BY <2>2, Zenon DEF Filled, p, q, b
<1>3. Filled(mem, s, c, 0 * size) = mem
  <2>1. 0 * size = 0
    OBVIOUS
  <2>2. \A a \in DOMAIN mem : a - s \notin 0 .. 0 - 1
    OBVIOUS
  <2> QED
    BY <2>1, <2>2, Zenon DEF Filled
<1>4. g = Turns(g)
  <2>1. ASSUME NEW n \in 0 .. count
        PROVE  Filled(mem, s, c, n * size) = IF n = 0 THEN mem ELSE Body(n, g[n - 1])
    <3>1. CASE n = 0
      BY <1>3, <3>1, Zenon
    <3>2. CASE n # 0
      <4>1. n \in 1 .. count /\ n - 1 \in 0 .. count
        BY <3>2
      <4> HIDE DEF Body
      <4>2. g[n - 1] = Filled(mem, s, c, (n - 1) * size)
        BY <4>1
      <4> HIDE DEF g
      <4> QED
        BY <1>2, <3>2, <4>1, <4>2, Zenon
    <3> QED
      BY <3>1, <3>2
  <2> HIDE DEF Body
  <2> QED
    BY <2>1, Zenon DEF g
<1> HIDE DEF Body, g
<1>5. f = Turns(f)
  BY <1>4, Zenon
<1> HIDE DEF f
<1>6. f[0] = mem /\ g[0] = mem
  <2>1. 0 \in 0 .. count
    OBVIOUS
  <2> QED
    BY <1>4, <1>5, <2>1
<1>7. ASSUME NEW n \in 1 .. count, f[n - 1] = g[n - 1] PROVE f[n] = g[n]
  <2>1. n \in 0 .. count /\ n # 0
    OBVIOUS
  <2>2. f[n] = Body(n, f[n - 1]) /\ g[n] = Body(n, g[n - 1])
    BY <1>4, <1>5, <2>1
  <2> QED
    BY <1>7, <2>2
<1>8. f[count] = g[count]
  BY <1>6, <1>7, SameLoop
<1>10. count \in 0 .. count
  OBVIOUS
<1> QED
  BY <1>1, <1>8, <1>10, Zenon DEF g

LEMMA FilledOn ==
  ASSUME NEW mem, NEW s \in Int, NEW c, NEW count \in Nat, NEW more \in Nat,
         IsMemory(mem)
  PROVE  Filled(Filled(mem, s, c, count), s + count, c, more) = Filled(mem, s, c, count + more)
<1> USE DEF IsMemory
<1> DEFINE m == Filled(mem, s, c, count)
           b == c % Bytes
<1>1. DOMAIN m = DOMAIN mem
  BY DEF Filled
<1>2. ASSUME NEW a \in DOMAIN mem
      PROVE  (IF a - (s + count) \in 0 .. more - 1 THEN b ELSE m[a])
               = IF a - s \in 0 .. (count + more) - 1 THEN b ELSE mem[a]
  <2>1. m[a] = IF a - s \in 0 .. count - 1 THEN b ELSE mem[a]
    BY Zenon DEF Filled
  <2> HIDE DEF m, b
  <2>2. a \in Int
    BY <1>2
  <2>3. CASE a - (s + count) \in 0 .. more - 1
    <3>1. a - s \in 0 .. (count + more) - 1
      BY <2>2, <2>3
    <3> QED
      BY <2>3, <3>1, Zenon
  <2>4. CASE a - (s + count) \notin 0 .. more - 1
    <3>1. a - s \in 0 .. (count + more) - 1 <=> a - s \in 0 .. count - 1
      BY <2>2, <2>4
    <3> QED
      BY <2>1, <2>4, <3>1, Zenon
  <2> QED
    BY <2>3, <2>4
<1> HIDE DEF m, b
<1>3. Filled(m, s + count, c, more)
        = [a \in DOMAIN mem |-> IF a - (s + count) \in 0 .. more - 1 THEN b ELSE m[a]]
  BY <1>1, Zenon DEF Filled, b
<1>4. Filled(mem, s, c, count + more)
        = [a \in DOMAIN mem |-> IF a - s \in 0 .. (count + more) - 1 THEN b ELSE mem[a]]
  BY Zenon DEF Filled, b
<1> HIDE DEF IsMemory
<1>5. Filled(m, s + count, c, more) = Filled(mem, s, c, count + more)
  BY <1>2, <1>3, <1>4, Zenon
<1> QED
  BY <1>5 DEF m

LEMMA WordsAndRest ==
  ASSUME NEW count \in Nat
  PROVE  /\ Words(count) \in Nat /\ InWords(count) \in Nat /\ count % WordBytes \in Nat
         /\ InWords(count) + (count % WordBytes) = count
<1>1. \A x \in Nat, y \in Nat \ {0} :
        x \div y \in Nat /\ (x \div y) * y \in Nat /\ x % y \in Nat /\ (x \div y) * y + (x % y) = x
  BY SMT
<1>2. WordBytes \in Nat \ {0}
  BY MemoryAssumption
<1> QED
  BY <1>1, <1>2, Zenon DEF Words, InWords

LEMMA ByBytes == ASSUME NEW count \in Nat PROVE count * 1 = count
  OBVIOUS

LEMMA BytesMove ==
  ASSUME NEW mem, NEW dest \in Int, NEW src \in Int, NEW count \in Nat,
         IsMemory(mem), Holds(mem, src, count), Apart(dest, src, count)
  PROVE  CopyUp(mem, dest, src, count, 1) = Moved(mem, dest, src, count)
<1>1. count * 1 = count
  BY ByBytes
<1>2. Holds(mem, src, count * 1) /\ Apart(dest, src, count * 1) /\ 1 \in Nat
  BY <1>1
<1>3. CopyUp(mem, dest, src, count, 1) = Moved(mem, dest, src, count * 1)
  BY <1>2, CopyUpMoves, Zenon
<1> QED
  BY <1>1, <1>3

LEMMA MemcpyMoves ==
  ASSUME NEW mem, NEW dest \in Int, NEW src \in Int, NEW count \in Nat,
         IsMemory(mem), Holds(mem, src, count), Apart(dest, src, count)
  PROVE  Memcpy(mem, dest, src, count) = Moved(mem, dest, src, count)
<1> DEFINE w == Words(count)
           q == InWords(count)
           r == count % WordBytes
           m == Moved(mem, dest, src, q)
           d == dest + q
           e == src + q
<1>1. w \in Nat /\ q \in Nat /\ r \in Nat /\ q + r = count /\ q = w * WordBytes
  BY WordsAndRest, Zenon DEF InWords
<1>2. WordBytes \in Nat
  BY MemoryAssumption
<1> HIDE DEF w, q, r
<1>3. Holds(mem, src, q) /\ Apart(dest, src, q)
  <2>1. src .. src + q - 1 \subseteq src .. src + count - 1
    BY <1>1
  <2>2. Apart(dest, src, q)
    BY <1>1 DEF Apart
  <2> QED
    BY <2>1, <2>2 DEF Holds
<1>4. CopyUp(mem, dest, src, w, WordBytes) = m
  <2>1. Holds(mem, src, w * WordBytes) /\ Apart(dest, src, w * WordBytes)
    BY <1>1, <1>3
  <2>2. CopyUp(mem, dest, src, w, WordBytes) = Moved(mem, dest, src, w * WordBytes)
    BY <1>1, <1>2, <2>1, CopyUpMoves
  <2> QED
    BY <1>1, <2>2
<1>5. IsMemory(m) /\ DOMAIN m = DOMAIN mem
  BY MovedIsMemory
<1> HIDE DEF m
<1>6. d \in Int /\ e \in Int
  BY <1>1
<1>7. Holds(m, e, r) /\ Apart(d, e, r)
  <2>1. e .. e + r - 1 \subseteq src .. src + count - 1
    BY <1>1
  <2>2. Apart(d, e, r)
    BY <1>1 DEF Apart
  <2> HIDE DEF e
  <2> QED
    BY <1>5, <2>1, <2>2 DEF Holds
<1>8. Moved(m, d, e, r) = Moved(mem, dest, src, count)
  <2>1. Holds(mem, src, q + r) /\ Apart(dest, src, q + r)
    BY <1>1
  <2>2. Moved(Moved(mem, dest, src, q), dest + q, src + q, r) = Moved(mem, dest, src, q + r)
    BY <1>1, <2>1, MovedOn
  <2> QED
    BY <1>1, <2>2, Zenon DEF m
<1> HIDE DEF d, e
<1>9. CopyUp(m, d, e, r, 1) = Moved(m, d, e, r)
  BY <1>1, <1>5, <1>6, <1>7, BytesMove, Zenon
<1>10. CASE Aligned(dest) /\ Aligned(src)
  <2>1. Memcpy(mem, dest, src, count)
          = CopyUp(CopyUp(mem, dest, src, w, WordBytes), d, e, r, 1)
    BY <1>10, Zenon DEF Memcpy, w, q, r, d, e
  <2> QED
    BY <1>4, <1>8, <1>9, <2>1
<1>11. CASE ~(Aligned(dest) /\ Aligned(src))
  <2>1. Memcpy(mem, dest, src, count) = CopyUp(mem, dest, src, count, 1)
    BY <1>11, Zenon DEF Memcpy
  <2> QED
    BY <2>1, BytesMove
<1> QED
  BY <1>10, <1>11

-----------------------------------------------------------------------------
(* memmove copes with every overlap, memcpy and bcopy with a destination that does not begin
   inside the source, aligned or not: afterwards the destination holds what the source held
   and no other byte has changed, whatever the memory, the number of bytes and the size of a
   word. *)
THEOREM MovesAlwaysRight ==
  ASSUME NEW mem, NEW dest \in Int, NEW src \in Int, NEW count \in Nat,
         IsMemory(mem),
         Holds(mem, src, count)
  PROVE  MovesRight(mem, dest, src, count)
<1>1. Memmove(mem, dest, src, count) = Moved(mem, dest, src, count)
  <2>1. CASE dest <= src
    <3>1. Memmove(mem, dest, src, count) = CopyUp(mem, dest, src, count, 1)
      BY <2>1, Zenon DEF Memmove
    <3>2. Apart(dest, src, count)
      BY <2>1 DEF Apart
    <3> QED
      BY <3>1, <3>2, BytesMove
  <2>2. CASE ~(dest <= src)
    <3>1. Memmove(mem, dest, src, count) = CopyDown(mem, dest, src, count)
      BY <2>2, Zenon DEF Memmove
    <3>2. src < dest
      BY <2>2
    <3> QED
      BY <3>1, <3>2, CopyDownMoves
  <2> QED
    BY <2>1, <2>2
<1>2. ASSUME Apart(dest, src, count)
      PROVE  /\ Memcpy(mem, dest, src, count) = Moved(mem, dest, src, count)
             /\ Bcopy(mem, src, dest, count) = Moved(mem, dest, src, count)
  BY <1>2, BytesMove, MemcpyMoves, Zenon DEF Bcopy
<1> QED
  BY <1>1, <1>2, Zenon DEF MovesRight

(* memset leaves the low byte of c in every byte of the area and no other byte changed, whether
   it fills words first or not. *)
THEOREM FillsAlwaysRight ==
  ASSUME NEW mem, NEW s \in Int, NEW c, NEW count \in Nat,
         IsMemory(mem)
  PROVE  FillsRight(mem, s, c, count)
<1> DEFINE w == Words(count)
           q == InWords(count)
           r == count % WordBytes
           m == Filled(mem, s, c, q)
<1>1. w \in Nat /\ q \in Nat /\ r \in Nat /\ q + r = count /\ q = w * WordBytes
  BY WordsAndRest, Zenon DEF InWords
<1>2. WordBytes \in Nat /\ 1 \in Nat
  BY MemoryAssumption
<1>3. FillUp(mem, s, c, count, 1) = Filled(mem, s, c, count)
  <2>1. FillUp(mem, s, c, count, 1) = Filled(mem, s, c, count * 1)
    BY <1>2, FillUpFills
  <2> QED
    BY <2>1, ByBytes
<1> HIDE DEF w, q, r
<1>4. FillUp(mem, s, c, w, WordBytes) = m
  <2>1. FillUp(mem, s, c, w, WordBytes) = Filled(mem, s, c, w * WordBytes)
    BY <1>1, <1>2, FillUpFills
  <2> QED
    BY <1>1, <2>1
<1>5. IsMemory(m)
  BY Zenon DEF IsMemory, Filled
<1> HIDE DEF m
<1>6. FillUp(m, s + q, c, r, 1) = Filled(m, s + q, c, r)
  <2>1. s + q \in Int
    BY <1>1
  <2>2. FillUp(m, s + q, c, r, 1) = Filled(m, s + q, c, r * 1)
    BY <1>1, <1>2, <1>5, <2>1, FillUpFills
  <2> QED
    BY <1>1, <2>2, ByBytes
<1>7. Filled(m, s + q, c, r) = Filled(mem, s, c, count)
  <2>1. Filled(m, s + q, c, r) = Filled(mem, s, c, q + r)
    BY <1>1, FilledOn DEF m
  <2> QED
    BY <1>1, <2>1
<1>8. CASE Aligned(s)
  <2>1. Memset(mem, s, c, count) = FillUp(FillUp(mem, s, c, w, WordBytes), s + q, c, r, 1)
    BY <1>8, Zenon DEF Memset, w, q, r
  <2> QED
    BY <1>4, <1>6, <1>7, <2>1 DEF FillsRight
<1>9. CASE ~Aligned(s)
  <2>1. Memset(mem, s, c, count) = FillUp(mem, s, c, count, 1)
    BY <1>9, Zenon DEF Memset
  <2> QED
    BY <1>3, <2>1 DEF FillsRight
<1> QED
  BY <1>8, <1>9
-----------------------------------------------------------------------------
(* Loops.                                                                  *)

(* Each turn of a loop lowers the measure m of its states. *)
Measured(S, G, step, m) ==
  /\ m \in [S -> Nat]
  /\ \A x \in S : x \in G => step[x] \in S /\ m[step[x]] < m[x]

Ends(S, G, step) == \E f : f = [x \in S |-> IF x \in G THEN f[step[x]] ELSE x]

(* Such a loop ends: there is a function that gives the state it ends in. *)
LEMMA LoopEnds ==
  ASSUME NEW S, NEW G, NEW step, NEW m, Measured(S, G, step, m)
  PROVE  Ends(S, G, step)
<1> USE DEF Measured, Ends
<1> DEFINE Solves(f, n) == \A x \in S : m[x] < n => f[x] = IF x \in G THEN f[step[x]] ELSE x
           T == {n \in Nat : \E f : f = [x \in S |-> f[x]] /\ Solves(f, n)}
<1>1. 0 \in T
  <2> DEFINE f == [x \in S |-> x]
  <2>1. f = [x \in S |-> f[x]]
    OBVIOUS
  <2>2. Solves(f, 0)
    OBVIOUS
  <2> QED
    BY <2>1, <2>2
<1>2. ASSUME NEW n \in Nat, n \in T PROVE n + 1 \in T
  <2>1. PICK f : f = [x \in S |-> f[x]] /\ Solves(f, n)
    BY <1>2
  <2> DEFINE g == [x \in S |-> IF x \in G THEN f[step[x]] ELSE x]
  <2>2. ASSUME NEW x \in S, m[x] < n PROVE g[x] = f[x]
    BY <2>1, <2>2
  <2>3. ASSUME NEW x \in S, m[x] < n + 1 PROVE g[x] = IF x \in G THEN g[step[x]] ELSE x
    <3>1. CASE x \in G
      <4>1. step[x] \in S /\ m[step[x]] < n
        BY <2>3, <3>1
      <4>2. g[step[x]] = f[step[x]]
        BY <2>2, <4>1
      <4>3. g[x] = f[step[x]]
        BY <3>1
      <4> HIDE DEF g
      <4> QED
        BY <3>1, <4>2, <4>3
    <3>2. CASE x \notin G
      BY <3>2
    <3> QED
      BY <3>1, <3>2
  <2>4. g = [x \in S |-> g[x]]
    OBVIOUS
  <2> HIDE DEF g
  <2>5. Solves(g, n + 1)
    BY <2>3
  <2> HIDE DEF Solves
  <2> QED
    BY <2>4, <2>5
<1>3. Nat \subseteq T
  <2> HIDE DEF T
  <2> QED
    BY <1>1, <1>2, Induction
<1> DEFINE F(n) == CHOOSE f : f = [x \in S |-> f[x]] /\ Solves(f, n)
<1> HIDE DEF Solves
<1>4. ASSUME NEW n \in Nat PROVE Solves(F(n), n)
  <2>1. \E f : f = [x \in S |-> f[x]] /\ Solves(f, n)
    BY <1>3
  <2> QED
    BY <2>1, Zenon
<1> HIDE DEF F
<1>5. ASSUME NEW n \in Nat, NEW x \in S, m[x] < n
      PROVE  F(n)[x] = IF x \in G THEN F(n)[step[x]] ELSE x
  BY <1>4, <1>5 DEF Solves
<1> DEFINE U == {n \in Nat : \A x \in S, k, l \in Nat :
                   m[x] < n /\ m[x] < k /\ m[x] < l => F(k)[x] = F(l)[x]}
<1>6. 0 \in U
  OBVIOUS
<1>7. ASSUME NEW n \in Nat, n \in U PROVE n + 1 \in U
  <2>1. ASSUME NEW x \in S, NEW k \in Nat, NEW l \in Nat,
               m[x] < n + 1, m[x] < k, m[x] < l
        PROVE  F(k)[x] = F(l)[x]
    <3>1. CASE x \in G
      <4>1. step[x] \in S /\ m[step[x]] < n /\ m[step[x]] < k /\ m[step[x]] < l
        BY <2>1, <3>1
      <4>2. F(k)[step[x]] = F(l)[step[x]]
        BY <1>7, <4>1
      <4> QED
        BY <1>5, <2>1, <3>1, <4>2
    <3>2. CASE x \notin G
      BY <1>5, <2>1, <3>2
    <3> QED
      BY <3>1, <3>2
  <2> QED
    BY <2>1
<1>8. Nat \subseteq U
  <2> HIDE DEF U
  <2> QED
    BY <1>6, <1>7, Induction
<1> DEFINE f == [x \in S |-> F(m[x] + 1)[x]]
<1>9. ASSUME NEW x \in S PROVE f[x] = IF x \in G THEN f[step[x]] ELSE x
  <2>1. m[x] \in Nat /\ m[x] < m[x] + 1 /\ m[x] + 1 \in Nat
    OBVIOUS
  <2>2. f[x] = IF x \in G THEN F(m[x] + 1)[step[x]] ELSE x
    BY <1>5, <2>1
  <2>3. ASSUME x \in G PROVE f[step[x]] = F(m[x] + 1)[step[x]]
    <3>1. /\ step[x] \in S /\ m[step[x]] \in Nat /\ m[step[x]] < m[x] + 1
          /\ m[step[x]] < m[step[x]] + 1 /\ m[step[x]] + 1 \in Nat
      BY <2>3
    <3>2. F(m[step[x]] + 1)[step[x]] = F(m[x] + 1)[step[x]]
      BY <1>8, <2>1, <3>1
    <3> QED
      BY <3>1, <3>2
  <2> HIDE DEF f
  <2> QED
    BY <2>2, <2>3
<1> HIDE DEF U
<1>10. f = [x \in S |-> f[x]]
  OBVIOUS
<1> HIDE DEF f
<1>11. [x \in S |-> f[x]] = [x \in S |-> IF x \in G THEN f[step[x]] ELSE x]
  BY <1>9, Zenon
<1> QED
  BY <1>10, <1>11, Zenon

(* What holds at the beginning and is kept by each turn holds at the end, where nothing is
   more to do. *)
LEMMA LoopResult ==
  ASSUME NEW S, NEW G, NEW step, NEW m,
         Measured(S, G, step, m),
         NEW I \in SUBSET S,
         \A x \in I : x \in G => step[x] \in I,
         NEW s \in I
  PROVE  Loop(S, G, step, s) \in I \ G
<1> DEFINE Turn(f) == [x \in S |-> IF x \in G THEN f[step[x]] ELSE x]
           f == CHOOSE f : f = Turn(f)
<1>1. Loop(S, G, step, s) = f[s]
  BY Zenon DEF Loop
<1>2. \E g : g = Turn(g)
  <2>1. Ends(S, G, step)
    BY LoopEnds
  <2> QED
    BY <2>1, Zenon DEF Ends
<1>3. f = Turn(f)
  BY <1>2, Zenon
<1> HIDE DEF f
<1> USE DEF Measured
<1>4. \A x \in S : f[x] = IF x \in G THEN f[step[x]] ELSE x
  BY <1>3
<1> DEFINE T == {n \in Nat : \A x \in I : m[x] < n => f[x] \in I \ G}
<1>5. 0 \in T
  OBVIOUS
<1>6. ASSUME NEW n \in Nat, n \in T PROVE n + 1 \in T
  <2>1. ASSUME NEW x \in I, m[x] < n + 1 PROVE f[x] \in I \ G
    <3>1. CASE x \in G
      <4>1. step[x] \in I /\ m[step[x]] < n
        BY <2>1, <3>1
      <4>2. f[x] = f[step[x]]
        BY <1>4, <3>1
      <4> QED
        BY <1>6, <4>1, <4>2
    <3>2. CASE x \notin G
      BY <1>4, <3>2
    <3> QED
      BY <3>1, <3>2
  <2> QED
    BY <2>1
<1>7. Nat \subseteq T
  <2> HIDE DEF T
  <2> QED
    BY <1>5, <1>6, Induction
<1>8. m[s] + 1 \in T /\ m[s] < m[s] + 1
  BY <1>7
<1>9. f[s] \in I \ G
  BY <1>8
<1> QED
  BY <1>1, <1>9

-----------------------------------------------------------------------------
(* Powers of two.                                                          *)

Closed(X) == 1 \in X /\ \A x \in X : 2 * x \in X
Powers == {x \in Nat \ {0} : \A X \in SUBSET Nat : Closed(X) => x \in X}

LEMMA PowersClosed == 1 \in Powers /\ (\A x \in Powers : 2 * x \in Powers)
BY DEF Powers, Closed

LEMMA PowersHalve ==
  ASSUME NEW x \in Powers, x # 1
  PROVE  \E y \in Powers : x = 2 * y
<1> DEFINE X == {1} \cup {2 * y : y \in Powers}
<1>1. X \in SUBSET Nat
  BY DEF Powers
<1>2. Closed(X)
  <2>1. \A z \in X : z \in Powers
    BY PowersClosed
  <2>2. \A z \in X : 2 * z \in X
    BY <2>1
  <2> QED
    BY <2>2 DEF Closed
<1> HIDE DEF X
<1>3. x \in X
  BY <1>1, <1>2 DEF Powers
<1> QED
  BY <1>3 DEF X

(* A weight has been shifted so far that the next pass is the last one, or it has room for
   four more bits. *)
LEMMA PowersBy16 ==
  ASSUME NEW x \in Powers
  PROVE  x \in {1, 2, 4, 8} \/ \E y \in Powers : x = 16 * y
<1>1. CASE x # 1
  <2>1. PICK a \in Powers : x = 2 * a
    BY <1>1, PowersHalve
  <2>2. CASE a # 1
    <3>1. PICK b \in Powers : a = 2 * b
      BY <2>2, PowersHalve
    <3>2. CASE b # 1
      <4>1. PICK c \in Powers : b = 2 * c
        BY <3>2, PowersHalve
      <4>2. CASE c # 1
        <5>1. PICK e \in Powers : c = 2 * e
          BY <4>2, PowersHalve
        <5>2. x = 16 * e
          <6>1. e \in Nat
            BY DEF Powers
          <6> QED
            BY <2>1, <3>1, <4>1, <5>1, <6>1
        <5> QED
          BY <5>2
      <4> QED
        BY <2>1, <3>1, <4>1, <4>2
    <3> QED
      BY <2>1, <3>1, <3>2
  <2> QED
    BY <2>1, <2>2
<1> QED
  BY <1>1

-----------------------------------------------------------------------------
(* Quotients.                                                              *)

LEMMA Products ==
  /\ \A a, b, c \in Nat : (a + b) * c = a * c + b * c
  /\ \A a, b \in Nat : a * b \in Nat /\ a * b = b * a /\ 1 * a = a /\ 0 * a = 0
  /\ \A a, b \in Nat : (2 * a) * b = 2 * (a * b)
BY SMT

LEMMA ProductGrows ==
  ASSUME NEW a \in Nat, NEW b \in Nat, NEW c \in Nat, a < b
  PROVE  a * c + c <= b * c
<1>1. b - a - 1 \in Nat /\ a + 1 \in Nat /\ (a + 1) + (b - a - 1) = b
  OBVIOUS
<1>2. ((a + 1) + (b - a - 1)) * c = (a + 1) * c + (b - a - 1) * c
  BY <1>1, Products
<1>3. (a + 1) * c = a * c + 1 * c
  BY Products
<1>4. (b - a - 1) * c \in Nat /\ 1 * c = c /\ a * c \in Nat
  BY <1>1, Products
<1> QED
  BY <1>1, <1>2, <1>3, <1>4

LEMMA QuotientIs ==
  ASSUME NEW n \in Nat, NEW d \in Nat \ {0}, NEW q \in Nat, NEW r \in Nat,
         n = q * d + r, r < d
  PROVE  n \div d = q /\ n % d = r
<1> DEFINE t == n \div d
           u == n % d
<1>1. t \in Nat /\ u \in Nat /\ u < d /\ n = t * d + u
  <2>1. \A x \in Nat, y \in Nat \ {0} :
          x \div y \in Nat /\ x % y \in Nat /\ x % y < y /\ x = (x \div y) * y + (x % y)
    BY SMT
  <2> QED
    BY <2>1
<1> HIDE DEF t, u
<1>2. t * d \in Nat /\ q * d \in Nat
  BY <1>1, Products
<1>3. ~(t < q)
  <2>1. ASSUME t < q PROVE t * d + d <= q * d
    BY <1>1, <2>1, ProductGrows
  <2> QED
    BY <1>1, <1>2, <2>1
<1>4. ~(q < t)
  <2>1. ASSUME q < t PROVE q * d + d <= t * d
    BY <1>1, <2>1, ProductGrows
  <2> QED
    BY <1>1, <1>2, <2>1
<1>5. t = q
  BY <1>1, <1>3, <1>4
<1>6. u = r
  BY <1>1, <1>2, <1>5
<1> QED
  BY <1>5, <1>6 DEF t, u

Multiple(q, e) == \E u \in Nat : q = u * e

LEMMA SetBitAdds ==
  ASSUME NEW q \in Nat, NEW e \in Nat \ {0}, Multiple(q, 2 * e)
  PROVE  SetBit(q, e) = q + e /\ Multiple(q + e, e) /\ Multiple(q, e)
<1>1. PICK u \in Nat : q = u * (2 * e)
  BY DEF Multiple
<1>2. q = (2 * u) * e
  <2>1. u * (2 * e) = (2 * e) * u /\ (2 * e) * u = 2 * (e * u) /\ e * u = u * e
        /\ (2 * u) * e = 2 * (u * e)
    BY Products
  <2> QED
    BY <1>1, <2>1
<1>3. q = (2 * u) * e + 0
  BY <1>2
<1>4. q \div e = 2 * u
  BY <1>3, QuotientIs
<1>5. (2 * u) % 2 = 0
  OBVIOUS
<1>6. SetBit(q, e) = q + e
  BY <1>4, <1>5 DEF SetBit
<1>7. q + e = (2 * u + 1) * e
  <2>1. (2 * u + 1) * e = (2 * u) * e + 1 * e /\ 1 * e = e
    BY Products
  <2> QED
    BY <1>2, <2>1
<1>8. 2 * u \in Nat /\ 2 * u + 1 \in Nat
  OBVIOUS
<1> QED
  BY <1>2, <1>6, <1>7, <1>8 DEF Multiple

-----------------------------------------------------------------------------
(* The passes of __udivsi3.                                                *)

(* Before the bit of weight e is decided the quotient has none below 2 * e, and the dividend
   is less than twice the divisor at that weight; after it, less than once. *)
Before(num, den, s, e) ==
  num = s.q * den + s.n /\ s.n < 2 * (e * den) /\ Multiple(s.q, 2 * e)
After(num, den, s, e) ==
  num = s.q * den + s.n /\ s.n < e * den /\ Multiple(s.q, e)

LEMMA AfterBefore ==
  ASSUME NEW num, NEW den \in Nat, NEW s, NEW e \in Nat, After(num, den, s, 2 * e)
  PROVE  Before(num, den, s, e)
BY Products DEF After, Before

LEMMA AfterLast ==
  ASSUME NEW num \in Nat, NEW den \in Nat \ {0}, NEW s \in Dividing, After(num, den, s, 1)
  PROVE  s.q = num \div den
<1>1. s.q \in Nat /\ s.n \in Nat /\ num = s.q * den + s.n /\ s.n < 1 * den
  BY DEF Dividing, After
<1>2. 1 * den = den
  BY Products
<1>3. s.n < den
  BY <1>1, <1>2
<1>4. num \div den = s.q
  BY <1>1, <1>3, QuotientIs
<1> QED
  BY <1>4

LEMMA AfterNothing ==
  ASSUME NEW num \in Nat, NEW den \in Nat \ {0}, NEW s \in Dividing, NEW e \in Nat,
         After(num, den, s, e), s.n = 0
  PROVE  s.q = num \div den
<1>1. s.q \in Nat /\ s.n \in Nat /\ num = s.q * den + s.n /\ s.n < den
  BY DEF Dividing, After
<1> QED
  BY <1>1, QuotientIs

Shifts == {1, 2, 4, 8}

LEMMA SubtractKeeps ==
  ASSUME NEW s \in Dividing, NEW by \in Shifts
  PROVE  /\ Subtract(s, by) \in Dividing
         /\ Subtract(s, by).d = s.d /\ Subtract(s, by).bit = s.bit
         /\ s.bit \div by = 0 => Subtract(s, by).q = s.q
<1> DEFINE x == s.d \div by
           b == s.bit \div by
<1>1. x \in Nat /\ b \in Nat /\ s.n \in Nat /\ s.q \in Nat
  <2>1. s.d \in Nat /\ s.bit \in Nat /\ s.n \in Nat /\ s.q \in Nat
    BY LimitAssumption DEF Dividing, Word, Values
  <2> QED
    BY <2>1 DEF Shifts
<1>2. SetBit(s.q, b) \in Nat /\ (b = 0 => SetBit(s.q, b) = s.q)
  BY <1>1 DEF SetBit
<1>3. s = [n |-> s.n, d |-> s.d, q |-> s.q, bit |-> s.bit]
  BY DEF Dividing
<1> HIDE DEF x, b
<1>4. CASE s.n < x
  <2>1. Subtract(s, by) = s
    BY <1>4 DEF Subtract, x
  <2> QED
    BY <2>1
<1>5. CASE ~(s.n < x)
  <2>1. Subtract(s, by) = [s EXCEPT !.n = s.n - x, !.q = SetBit(s.q, b)]
    BY <1>5 DEF Subtract, x, b
  <2>2. s.n - x \in Nat
    BY <1>1, <1>5
  <2>3. Subtract(s, by) \in Dividing
    BY <1>2, <2>1, <2>2 DEF Dividing
  <2> QED
    BY <1>2, <1>3, <2>1, <2>3 DEF b
<1> QED
  BY <1>4, <1>5

LEMMA SubtractDecides ==
  ASSUME NEW num \in Nat, NEW den \in Nat \ {0}, NEW s \in Dividing, NEW by \in Shifts,
         NEW e \in Nat \ {0}, s.bit \div by = e, s.d \div by = e * den,
         Before(num, den, s, e)
  PROVE  After(num, den, Subtract(s, by), e)
<1> DEFINE x == e * den
           t == Subtract(s, by)
<1>1. s.n \in Nat /\ s.q \in Nat /\ x \in Nat /\ s.q * den \in Nat
  BY Products DEF Dividing
<1>2. num = s.q * den + s.n /\ s.n < 2 * x /\ Multiple(s.q, 2 * e)
  BY DEF Before
<1>3. SetBit(s.q, e) = s.q + e /\ Multiple(s.q + e, e) /\ Multiple(s.q, e)
  BY <1>1, <1>2, SetBitAdds
<1>4. (s.q + e) * den = s.q * den + x
  BY <1>1, Products
<1>5. s = [n |-> s.n, d |-> s.d, q |-> s.q, bit |-> s.bit]
  BY DEF Dividing
<1> HIDE DEF x
<1>6. CASE s.n < x
  <2>1. t = s
    BY <1>6 DEF Subtract, x
  <2> QED
    BY <1>2, <1>3, <1>6, <2>1 DEF After, x
<1>7. CASE ~(s.n < x)
  <2>1. t = [s EXCEPT !.n = s.n - x, !.q = s.q + e]
    BY <1>3, <1>7 DEF Subtract, x
  <2>2. t.n = s.n - x /\ t.q = s.q + e
    BY <1>5, <2>1
  <2>3. num = (s.q + e) * den + (s.n - x)
    BY <1>1, <1>2, <1>4
  <2>4. s.n - x < x
    BY <1>1, <1>2
  <2> HIDE DEF t
  <2>5. After(num, den, t, e)
    BY <1>3, <2>2, <2>3, <2>4 DEF After, x
  <2> QED
    BY <2>5 DEF t
<1> QED
  BY <1>6, <1>7

(* The divisor as shifted so far, by its weight. *)
Weighted(den, s) == s \in Dividing /\ s.bit # 0 /\ s.d = s.bit * den

LEMMA ShiftedRight ==
  ASSUME NEW den \in Nat, NEW s, Weighted(den, s), NEW by \in Shifts, NEW e \in Nat,
         s.bit = by * e
  PROVE  s.bit \div by = e /\ s.d \div by = e * den
<1> DEFINE x == e * den
<1>1. x \in Nat /\ by \in Nat
  BY Products DEF Shifts
<1>2. s.d = by * x
  BY <1>1, Products DEF Weighted
<1> HIDE DEF x
<1>3. \A z \in Nat : (by * z) \div by = z
  <2>1. \A z \in Nat : /\ (1 * z) \div 1 = z /\ (2 * z) \div 2 = z
                       /\ (4 * z) \div 4 = z /\ (8 * z) \div 8 = z
    BY SMT
  <2> QED
    BY <2>1 DEF Shifts
<1>4. s.bit \div by = e
  BY <1>3
<1>5. s.d \div by = x
  BY <1>1, <1>2, <1>3
<1> QED
  BY <1>4, <1>5 DEF x

LEMMA SubtractWeighted ==
  ASSUME NEW den \in Nat, NEW s, Weighted(den, s), NEW by \in Shifts
  PROVE  /\ Weighted(den, Subtract(s, by)) /\ Subtract(s, by).bit = s.bit
         /\ s.bit < by => Subtract(s, by).q = s.q
<1>1. s \in Dividing /\ s.bit \in Nat
  BY LimitAssumption DEF Weighted, Dividing, Word, Values
<1>2. s.bit < by => s.bit \div by = 0
  BY <1>1 DEF Shifts
<1>3. /\ Subtract(s, by) \in Dividing /\ Subtract(s, by).bit = s.bit
      /\ Subtract(s, by).d = s.d
      /\ s.bit \div by = 0 => Subtract(s, by).q = s.q
  BY <1>1, SubtractKeeps
<1> QED
  BY <1>2, <1>3 DEF Weighted

LEMMA SubtractAt ==
  ASSUME NEW num \in Nat, NEW den \in Nat \ {0}, NEW s, Weighted(den, s),
         NEW by \in Shifts, NEW e \in Nat \ {0}, s.bit = by * e, Before(num, den, s, e)
  PROVE  After(num, den, Subtract(s, by), e)
<1>1. s \in Dividing
  BY DEF Weighted
<1>2. s.bit \div by = e /\ s.d \div by = e * den
  BY ShiftedRight
<1> QED
  BY <1>1, <1>2, SubtractDecides

(* A pass decides four bits, or those that are left: a bit that has been shifted out at the
   bottom spoils the dividend but not the quotient. *)
LEMMA PassDecides ==
  ASSUME NEW num \in Nat, NEW den \in Nat \ {0}, NEW s, Weighted(den, s),
         Before(num, den, s, s.bit)
  PROVE  /\ Weighted(den, Pass(s)) /\ Pass(s).bit = s.bit
         /\ s.bit \in Shifts => Pass(s).q = num \div den
         /\ \A y \in Nat \ {0} : s.bit = 16 * y => After(num, den, Pass(s), 2 * y)
<1> DEFINE s1 == Subtract(s, 1)
           s2 == Subtract(s1, 2)
           s3 == Subtract(s2, 4)
           s4 == Subtract(s3, 8)
<1>0. 1 \in Shifts /\ 2 \in Shifts /\ 4 \in Shifts /\ 8 \in Shifts
  BY DEF Shifts
<1>1. Pass(s) = s4
  BY DEF Pass
<1>2. s.bit \in Nat \ {0} /\ s.bit = 1 * s.bit
  BY LimitAssumption DEF Weighted, Dividing, Word, Values
<1>3. Weighted(den, s1) /\ s1.bit = s.bit
  BY <1>0, SubtractWeighted
<1>4. After(num, den, s1, s.bit)
  BY <1>0, <1>2, SubtractAt
<1> HIDE DEF s1
<1>5. Weighted(den, s2) /\ s2.bit = s.bit /\ (s.bit < 2 => s2.q = s1.q)
  BY <1>0, <1>3, SubtractWeighted
<1>6. ASSUME NEW e \in Nat \ {0}, s.bit = 2 * e PROVE After(num, den, s2, e)
  <2>1. Before(num, den, s1, e)
    BY <1>4, <1>6, AfterBefore
  <2>2. s1.bit = 2 * e
    BY <1>3, <1>6
  <2> QED
    BY <1>0, <1>3, <2>1, <2>2, SubtractAt
<1> HIDE DEF s2
<1>7. Weighted(den, s3) /\ s3.bit = s.bit /\ (s.bit < 4 => s3.q = s2.q)
  BY <1>0, <1>5, SubtractWeighted
<1>8. ASSUME NEW e \in Nat \ {0}, s.bit = 4 * e PROVE After(num, den, s3, e)
  <2>1. After(num, den, s2, 2 * e)
    BY <1>6, <1>8
  <2>2. Before(num, den, s2, e)
    BY <2>1, AfterBefore
  <2>3. s2.bit = 4 * e
    BY <1>5, <1>8
  <2> QED
    BY <1>0, <1>5, <2>2, <2>3, SubtractAt
<1> HIDE DEF s3
<1>9. Weighted(den, s4) /\ s4.bit = s.bit /\ (s.bit < 8 => s4.q = s3.q)
  BY <1>0, <1>7, SubtractWeighted
<1>10. ASSUME NEW e \in Nat \ {0}, s.bit = 8 * e PROVE After(num, den, s4, e)
  <2>1. After(num, den, s3, 2 * e)
    BY <1>8, <1>10
  <2>2. Before(num, den, s3, e)
    BY <2>1, AfterBefore
  <2>3. s3.bit = 8 * e
    BY <1>7, <1>10
  <2> QED
    BY <1>0, <1>7, <2>2, <2>3, SubtractAt
<1> HIDE DEF s4
<1>11. s1 \in Dividing /\ s2 \in Dividing /\ s3 \in Dividing /\ s4 \in Dividing
  BY <1>3, <1>5, <1>7, <1>9 DEF Weighted
<1>12. ASSUME s.bit \in Shifts PROVE s4.q = num \div den
  <2>1. CASE s.bit = 1
    <3>1. s1.q = num \div den
      BY <1>4, <1>11, <2>1, AfterLast
    <3> QED
      BY <1>5, <1>7, <1>9, <2>1, <3>1
  <2>2. CASE s.bit = 2
    <3>1. After(num, den, s2, 1)
      BY <1>6, <2>2
    <3>2. s2.q = num \div den
      BY <1>11, <3>1, AfterLast
    <3> QED
      BY <1>7, <1>9, <2>2, <3>2
  <2>3. CASE s.bit = 4
    <3>1. After(num, den, s3, 1)
      BY <1>8, <2>3
    <3>2. s3.q = num \div den
      BY <1>11, <3>1, AfterLast
    <3> QED
      BY <1>9, <2>3, <3>2
  <2>4. CASE s.bit = 8
    <3>1. After(num, den, s4, 1)
      BY <1>10, <2>4
    <3> QED
      BY <1>11, <3>1, AfterLast
  <2> QED
    BY <1>12, <2>1, <2>2, <2>3, <2>4 DEF Shifts
<1>13. ASSUME NEW y \in Nat \ {0}, s.bit = 16 * y PROVE After(num, den, s4, 2 * y)
  <2>1. 2 * y \in Nat \ {0} /\ s.bit = 8 * (2 * y)
    BY <1>13
  <2> QED
    BY <1>10, <2>1
<1> QED
  BY <1>1, <1>9, <1>12, <1>13

(* What a pass leaves when bits are left: they are decided in the passes to come. *)
Undecided(num, den, s) ==
  \E y \in Powers : s.bit = 16 * y /\ After(num, den, s, 2 * y)

(* Passes(s) is the quotient if the bit is a power of two and all bits from twice it on are
   decided. *)
LEMMA PassesDivide ==
  ASSUME NEW num \in Nat, NEW den \in Nat \ {0}, NEW s, Weighted(den, s),
         s.bit \in Powers, Before(num, den, s, s.bit)
  PROVE  Passes(s).q = num \div den
<1> DEFINE More == {x \in Dividing : x.n # 0 /\ x.bit \div 16 # 0}
           step == [x \in Dividing |-> Pass(Lowered(x))]
           m == [x \in Dividing |-> x.bit]
           I == {x \in Dividing : /\ Weighted(den, x)
                                  /\ \/ x.q = num \div den /\ x.bit \in Shifts
                                     \/ Undecided(num, den, x)}
<1>0. Values \in Nat /\ Powers \subseteq Nat \ {0}
  BY LimitAssumption DEF Values, Powers
<1>1. ASSUME NEW x, Weighted(den, x), x.bit \in Powers, Before(num, den, x, x.bit)
      PROVE  Pass(x) \in I
  <2>1. /\ Weighted(den, Pass(x)) /\ Pass(x).bit = x.bit
        /\ x.bit \in Shifts => Pass(x).q = num \div den
        /\ \A y \in Nat \ {0} : x.bit = 16 * y => After(num, den, Pass(x), 2 * y)
    BY <1>1, PassDecides
  <2>2. x.bit \in Shifts \/ \E y \in Powers : x.bit = 16 * y
    BY <1>1, PowersBy16 DEF Shifts
  <2>3. CASE x.bit \in Shifts
    BY <2>1, <2>3 DEF Weighted
  <2>4. CASE \E y \in Powers : x.bit = 16 * y
    <3>1. PICK y \in Powers : x.bit = 16 * y
      BY <2>4
    <3>2. After(num, den, Pass(x), 2 * y)
      BY <1>0, <2>1, <3>1
    <3>3. Undecided(num, den, Pass(x))
      BY <2>1, <3>1, <3>2 DEF Undecided
    <3> QED
      BY <2>1, <3>3 DEF Weighted
  <2> QED
    BY <2>2, <2>3, <2>4
<1>2. ASSUME NEW x \in I, x \in More PROVE step[x] \in I
  <2>1. /\ x \in Dividing /\ Weighted(den, x) /\ x.bit \div 16 # 0 /\ x.bit \in Nat
        /\ (x.q = num \div den /\ x.bit \in Shifts) \/ Undecided(num, den, x)
    BY <1>0, <1>2 DEF Dividing, Word
  <2>2. x.bit \notin Shifts
    BY <2>1 DEF Shifts
  <2>3. PICK y \in Powers : x.bit = 16 * y /\ After(num, den, x, 2 * y)
    BY <2>1, <2>2 DEF Undecided
  <2> DEFINE z == Lowered(x)
  <2>4. y \in Nat \ {0} /\ y * den \in Nat
    BY <1>0, Products
  <2>5. x.d = 16 * (y * den)
    BY <2>1, <2>3, <2>4, Products DEF Weighted
  <2>6. x.bit \div 16 = y /\ x.d \div 16 = y * den
    <3>1. \A v \in Nat : (16 * v) \div 16 = v
      BY SMT
    <3> QED
      BY <2>3, <2>4, <2>5, <3>1
  <2>7. /\ z = [x EXCEPT !.d = y * den, !.bit = y]
        /\ x = [n |-> x.n, d |-> x.d, q |-> x.q, bit |-> x.bit]
    BY <2>1, <2>6 DEF Lowered, Dividing
  <2>8. z.n = x.n /\ z.q = x.q /\ z.bit = y /\ z.d = y * den
    BY <2>7
  <2>9. y \in Word /\ x.n \in Nat /\ x.q \in Nat /\ x.bit \in Word
    BY <1>0, <2>1, <2>3, <2>4 DEF Dividing, Word
  <2>10. z \in Dividing
    BY <2>4, <2>7, <2>9 DEF Dividing
  <2> HIDE DEF z
  <2>11. Weighted(den, z)
    BY <2>4, <2>8, <2>10 DEF Weighted
  <2>12. Before(num, den, z, y)
    <3>1. Before(num, den, x, y)
      BY <2>3, <2>4, AfterBefore
    <3> QED
      BY <2>8, <3>1 DEF Before
  <2> HIDE DEF I
  <2>13. Pass(z) \in I
    BY <1>1, <2>8, <2>11, <2>12
  <2> QED
    BY <2>1, <2>13 DEF z
<1>3. ASSUME NEW x \in Dividing, x \in More PROVE step[x] \in Dividing /\ m[step[x]] < m[x]
  <2> DEFINE z == Lowered(x)
  <2>1. x.bit \in Nat /\ x.d \in Nat /\ x.bit < Values /\ x.bit \div 16 # 0
    BY <1>0, <1>3 DEF Dividing, Word
  <2>2. x.bit \div 16 \in Word /\ x.bit \div 16 < x.bit /\ x.d \div 16 \in Nat
    BY <1>0, <2>1 DEF Word
  <2>3. z \in Dividing /\ z.bit = x.bit \div 16
    BY <2>2 DEF Lowered, Dividing
  <2> HIDE DEF z
  <2>4. Pass(z) \in Dividing /\ Pass(z).bit = z.bit
    <3>1. 1 \in Shifts /\ 2 \in Shifts /\ 4 \in Shifts /\ 8 \in Shifts
      BY DEF Shifts
    <3>2. Subtract(z, 1) \in Dividing /\ Subtract(z, 1).bit = z.bit
      BY <2>3, <3>1, SubtractKeeps
    <3>3. /\ Subtract(Subtract(z, 1), 2) \in Dividing
          /\ Subtract(Subtract(z, 1), 2).bit = z.bit
      BY <3>1, <3>2, SubtractKeeps
    <3>4. /\ Subtract(Subtract(Subtract(z, 1), 2), 4) \in Dividing
          /\ Subtract(Subtract(Subtract(z, 1), 2), 4).bit = z.bit
      BY <3>1, <3>3, SubtractKeeps
    <3> QED
      BY <3>1, <3>4, SubtractKeeps DEF Pass
  <2>5. step[x] = Pass(z)
    BY DEF z
  <2> HIDE DEF step
  <2> QED
    BY <2>2, <2>3, <2>4, <2>5
<1>4. m \in [Dividing -> Nat]
  BY <1>0 DEF Dividing, Word
<1>5. Pass(s) \in I
  BY <1>1
<1>6. I \in SUBSET Dividing
  OBVIOUS
<1>7. Passes(s) = Loop(Dividing, More, step, Pass(s))
  BY DEF Passes
<1> DEFINE out == Loop(Dividing, More, step, Pass(s))
<1> HIDE DEF I, m, step, More
<1>8. Measured(Dividing, More, step, m)
  BY <1>3, <1>4 DEF Measured
<1>9. out \in I \ More
  <2>1. \A x \in I : x \in More => step[x] \in I
    BY <1>2
  <2> QED
    BY <1>0, <1>5, <1>6, <1>8, <2>1, LoopResult
<1> HIDE DEF out
<1>10. /\ out \in Dividing
       /\ out.q = num \div den \/ Undecided(num, den, out)
       /\ out.n = 0 \/ out.bit \div 16 = 0
  BY <1>9 DEF I, More
<1>11. out.q = num \div den
  <2>1. CASE Undecided(num, den, out)
    <3>1. PICK y \in Powers : out.bit = 16 * y /\ After(num, den, out, 2 * y)
      BY <2>1 DEF Undecided
    <3>2. y \in Nat \ {0}
      BY <1>0
    <3>3. out.bit \div 16 # 0
      BY <3>1, <3>2
    <3>4. out.n = 0 /\ 2 * y \in Nat /\ out \in Dividing
      BY <1>10, <3>2, <3>3
    <3>5. After(num, den, out, 2 * y)
      BY <3>1
    <3> QED
      BY <3>4, <3>5, AfterNothing, Zenon
  <2> QED
    BY <1>10, <2>1
<1> QED
  BY <1>7, <1>11 DEF out

-----------------------------------------------------------------------------
(* Raising the divisor.                                                    *)

(* Nothing is subtracted yet, and no bit has been shifted out. *)
Rising(num, den, s) ==
  /\ s \in Raising /\ s.n = num /\ s.q = 0
  /\ s.bit \in Powers /\ s.d = s.bit * den /\ s.d < Values

LEMMA RaiseKeeps ==
  ASSUME NEW num \in Nat, NEW den \in Nat \ {0}, NEW s, Rising(num, den, s),
         NEW factor \in {2, 16}, NEW limit \in Nat, factor * limit = Values
  PROVE  /\ Rising(num, den, RaiseBy(s, factor, limit))
         /\ ~(RaiseBy(s, factor, limit).d < limit /\ RaiseBy(s, factor, limit).d < num)
<1> DEFINE More == {x \in Raising : x.d < limit /\ x.d < x.n}
           step == [x \in Raising |-> [x EXCEPT !.d = (x.d * factor) % Values,
                                                !.bit = (x.bit * factor) % Values]]
           m == [x \in Raising |-> IF x.d < limit THEN limit - x.d ELSE 0]
           I == {x \in Raising : Rising(num, den, x)}
<1>0. Values \in Nat \ {0} /\ Powers \subseteq Nat \ {0} /\ Word = 0 .. Values - 1
  BY LimitAssumption DEF Values, Powers, Word
<1>1. \A x \in Nat : x < limit => x * factor < Values /\ x * factor \in Nat
  BY <1>0
<1>2. \A x \in Nat : x < Values => (x % Values) = x
  BY <1>0
<1>3. ASSUME NEW x \in Raising, x.d < limit
      PROVE  /\ step[x] \in Raising /\ step[x].d = x.d * factor
             /\ step[x].bit = (x.bit * factor) % Values
             /\ step[x].n = x.n /\ step[x].q = x.q
  <2>1. x.d \in Nat \ {0} /\ x.bit \in Nat /\ x.n \in Nat /\ x.q \in Nat
    BY <1>0 DEF Raising
  <2>2. x.d * factor \in Nat \ {0} /\ (x.d * factor) % Values = x.d * factor
    BY <1>1, <1>2, <1>3, <2>1
  <2>3. (x.bit * factor) % Values \in Word
    <3>1. \A v \in Nat : v % Values \in Word
      BY <1>0
    <3> QED
      BY <2>1, <3>1
  <2>4. /\ step[x] = [x EXCEPT !.d = x.d * factor, !.bit = (x.bit * factor) % Values]
        /\ x = [n |-> x.n, d |-> x.d, q |-> x.q, bit |-> x.bit]
    BY <2>2 DEF Raising
  <2>5. step[x] = [n |-> x.n, d |-> x.d * factor, q |-> x.q,
                   bit |-> (x.bit * factor) % Values]
    BY <2>4
  <2> HIDE DEF step
  <2> QED
    BY <2>1, <2>2, <2>3, <2>5 DEF Raising
<1>4. ASSUME NEW x \in I, x \in More PROVE step[x] \in I
  <2>1. /\ x \in Raising /\ x.n = num /\ x.q = 0 /\ x.bit \in Powers
        /\ x.d = x.bit * den /\ x.d < limit /\ x.bit \in Nat /\ x.d \in Nat
    BY <1>0, <1>4 DEF Rising, Raising
  <2>2. x.bit <= x.d
    <3>1. \A a \in Nat, b \in Nat \ {0} : a <= a * b
      BY SMT
    <3> QED
      BY <2>1, <3>1
  <2>3. (x.bit * factor) % Values = x.bit * factor
    BY <1>1, <1>2, <2>1, <2>2
  <2>4. x.bit * factor \in Powers
    <3>1. \A a \in Powers : 2 * a \in Powers /\ 2 * (2 * (2 * (2 * a))) \in Powers
      BY PowersClosed
    <3>2. 2 * (2 * (2 * (2 * x.bit))) = x.bit * 16 /\ 2 * x.bit = x.bit * 2
      BY <2>1
    <3> QED
      BY <2>1, <3>1, <3>2
  <2>5. x.d * factor = (x.bit * factor) * den
    <3>1. \A a, b \in Nat : (a * b) * 2 = (a * 2) * b /\ (a * b) * 16 = (a * 16) * b
      BY SMT
    <3> QED
      BY <2>1, <3>1
  <2>6. x.d * factor < Values
    BY <1>1, <2>1
  <2> HIDE DEF step
  <2> QED
    BY <1>3, <2>1, <2>3, <2>4, <2>5, <2>6 DEF Rising
<1>5. ASSUME NEW x \in Raising, x \in More PROVE step[x] \in Raising /\ m[step[x]] < m[x]
  <2>1. x.d \in Nat \ {0} /\ x.d < limit /\ x.d < x.d * factor /\ x.d * factor \in Nat
    BY <1>5 DEF Raising
  <2>2. step[x] \in Raising /\ step[x].d = x.d * factor
    BY <1>3, <2>1
  <2> HIDE DEF step
  <2>3. m[x] = limit - x.d
    BY <2>1
  <2>4. m[step[x]] = IF x.d * factor < limit THEN limit - x.d * factor ELSE 0
    BY <2>2
  <2> HIDE DEF m
  <2> QED
    BY <2>1, <2>2, <2>3, <2>4
<1>6. m \in [Raising -> Nat]
  BY DEF Raising
<1>7. s \in I
  BY DEF Rising
<1>8. I \in SUBSET Raising
  OBVIOUS
<1>9. RaiseBy(s, factor, limit) = Loop(Raising, More, step, s)
  BY DEF RaiseBy
<1> HIDE DEF I, m, step, More
<1>10. Measured(Raising, More, step, m)
  BY <1>5, <1>6 DEF Measured
<1>11. RaiseBy(s, factor, limit) \in I \ More
  <2>1. \A x \in I : x \in More => step[x] \in I
    BY <1>4
  <2> QED
    BY <1>7, <1>8, <1>9, <1>10, <2>1, LoopResult
<1> DEFINE out == RaiseBy(s, factor, limit)
<1> HIDE DEF out
<1>12. out \in I \ More
  BY <1>11 DEF out
<1>13. Rising(num, den, out) /\ ~(out.d < limit /\ out.d < num)
  BY <1>12 DEF I, More, Rising
<1> QED
  BY <1>13 DEF out

(* The divisor is raised so far that the dividend is less than twice it. *)
LEMMA RaisedFar ==
  ASSUME NEW num \in Word, NEW den \in Nat \ {0}, NEW s, Rising(num, den, s)
  PROVE  /\ Weighted(den, Raised(s)) /\ Raised(s).bit \in Powers
         /\ Before(num, den, Raised(s), Raised(s).bit)
<1>1. /\ Limit \in Nat /\ Top \in Nat /\ 16 * Limit = Values /\ 2 * Top = Values
      /\ Powers \subseteq Nat \ {0} /\ num \in Nat /\ num < Values
  BY LimitAssumption DEF Values, Top, Powers, Word
<1> DEFINE t == RaiseBy(s, 16, Limit)
           u == RaiseBy(t, 2, Top)
<1>2. Rising(num, den, t)
  BY <1>1, RaiseKeeps
<1> HIDE DEF t
<1>3. Rising(num, den, u) /\ ~(u.d < Top /\ u.d < num)
  BY <1>1, <1>2, RaiseKeeps
<1>4. Raised(s) = u
  BY DEF Raised, t
<1> HIDE DEF u
<1>5. /\ u \in Raising /\ u.n = num /\ u.q = 0 /\ u.bit \in Powers /\ u.d = u.bit * den
      /\ u.d \in Nat \ {0} /\ u.bit \in Nat \ {0}
  BY <1>1, <1>3 DEF Rising, Raising
<1>6. num < 2 * u.d
  BY <1>1, <1>3, <1>5
<1>7. Weighted(den, u)
  BY <1>5 DEF Weighted, Raising, Dividing
<1>8. Multiple(0, 2 * u.bit)
  <2>1. 0 = 0 * (2 * u.bit)
    BY <1>5
  <2> QED
    BY <2>1 DEF Multiple
<1>9. num = 0 * den + num
  BY <1>1
<1>10. Before(num, den, u, u.bit)
  BY <1>5, <1>6, <1>8, <1>9 DEF Before
<1> QED
  BY <1>4, <1>5, <1>7, <1>10

Quotients == \A n \in Word, d \in Word \ {0} : UDiv(n, d) = n \div d

(* __udivsi3 divides. *)
LEMMA UDivDivides == Quotients
<1> SUFFICES ASSUME NEW n \in Word, NEW d \in Word \ {0} PROVE UDiv(n, d) = n \div d
  BY DEF Quotients
<1>1. n \in Nat /\ d \in Nat \ {0} /\ d < Values /\ 1 \in Word
  BY LimitAssumption DEF Word, Values
<1>2. CASE n < d
  <2>1. n = 0 * d + n
    BY <1>1
  <2>2. n \div d = 0
    BY <1>1, <1>2, <2>1, QuotientIs
  <2> QED
    BY <1>2, <2>2 DEF UDiv
<1>3. CASE ~(n < d)
  <2> DEFINE s == Start(n, d)
  <2>1. Rising(n, d, s)
    BY <1>1, PowersClosed DEF Start, Rising, Raising
  <2> HIDE DEF s
  <2>2. /\ Weighted(d, Raised(s)) /\ Raised(s).bit \in Powers
        /\ Before(n, d, Raised(s), Raised(s).bit)
    BY <1>1, <2>1, RaisedFar
  <2>3. Passes(Raised(s)).q = n \div d
    BY <1>1, <2>2, PassesDivide
  <2> QED
    BY <1>3, <2>3 DEF UDiv, s
<1> QED
  BY <1>2, <1>3

(* ARM_DIV_BODY divides. *)
LEMMA DivBodyDivides ==
  ASSUME NEW n \in Word, NEW d \in Word \ {0}
  PROVE  DivBody(n, d) = n \div d
<1>1. /\ n \in Nat /\ d \in Nat \ {0} /\ d < Values /\ Limit \in Nat /\ Values = 16 * Limit
      /\ 1 \in Word /\ 8 \in Word
  BY LimitAssumption DEF Word, Values
<1> DEFINE s == IF d < 2 * Limit THEN [Start(n, d * 8) EXCEPT !.bit = 8] ELSE Start(n, d)
<1>2. Rising(n, d, s)
  <2>1. 8 \in Powers /\ 1 \in Powers
    <3>1. \A a \in Powers : 2 * (2 * (2 * a)) \in Powers
      BY PowersClosed
    <3>2. 2 * (2 * (2 * 1)) = 8
      OBVIOUS
    <3> QED
      BY <3>1, <3>2, PowersClosed
  <2>2. CASE d < 2 * Limit
    <3>1. s = [n |-> n, d |-> d * 8, q |-> 0, bit |-> 8]
      BY <2>2 DEF Start
    <3>2. d * 8 \in Nat \ {0} /\ d * 8 = 8 * d /\ d * 8 < Values
      BY <1>1, <2>2
    <3> HIDE DEF s
    <3> QED
      BY <1>1, <2>1, <3>1, <3>2 DEF Rising, Raising
  <2>3. CASE ~(d < 2 * Limit)
    <3>1. s = [n |-> n, d |-> d, q |-> 0, bit |-> 1]
      BY <2>3 DEF Start
    <3> HIDE DEF s
    <3> QED
      BY <1>1, <2>1, <3>1 DEF Rising, Raising
  <2> QED
    BY <2>2, <2>3
<1> HIDE DEF s
<1>3. /\ Weighted(d, Raised(s)) /\ Raised(s).bit \in Powers
      /\ Before(n, d, Raised(s), Raised(s).bit)
  BY <1>1, <1>2, RaisedFar
<1>4. Passes(Raised(s)).q = n \div d
  BY <1>1, <1>3, PassesDivide
<1> QED
  BY <1>4 DEF DivBody, s

(* The remainder that is found by multiplying back. *)
LEMMA ModOfIs ==
  ASSUME NEW n \in Word, NEW d \in Word \ {0}
  PROVE  ModOf(n, d, n \div d) = n % d
<1> DEFINE p == (n \div d) * d
<1>1. n \in Nat /\ d \in Nat \ {0} /\ n < Values /\ Values \in Nat \ {0}
  BY LimitAssumption DEF Word, Values
<1>2. /\ n \div d \in Nat /\ n % d \in Nat /\ p \in Nat
      /\ n = p + (n % d)
  <2>1. \A x \in Nat, y \in Nat \ {0} :
          x \div y \in Nat /\ x % y \in Nat /\ x = (x \div y) * y + (x % y)
    BY SMT
  <2> QED
    BY <1>1, <2>1, Products
<1>3. ModOf(n, d, n \div d) = (n - (p % Values)) % Values
  BY DEF ModOf
<1> HIDE DEF p
<1>4. \A x \in Nat : x < Values => (x % Values) = x
  BY <1>1
<1>5. p % Values = p
  BY <1>1, <1>2, <1>4
<1>6. n - p = n % d /\ n % d < Values
  BY <1>1, <1>2
<1> QED
  BY <1>2, <1>3, <1>4, <1>5, <1>6

(* The division of words: the quotient of __udivsi3 and what __aeabi_uidivmod and
   __aeabi_idivmod leave by multiplying it back are quotient and remainder, and so is what
   __divsi3 computes of the magnitudes, for every dividend and every divisor but 0. *)
THEOREM WordDivisionAlwaysExact ==
  ASSUME NEW n \in Word, NEW d \in Word \ {0}
  PROVE  /\ UDiv(n, d) = n \div d /\ ModOf(n, d, UDiv(n, d)) = n % d
         /\ DivBody(n, d) = n \div d
<1>1. UDiv(n, d) = n \div d
  BY UDivDivides DEF Quotients
<1>2. ModOf(n, d, n \div d) = n % d
  BY ModOfIs
<1> QED
  BY <1>1, <1>2, DivBodyDivides

-----------------------------------------------------------------------------
(* Division of a double word.                                              *)

Wide == Values * Values

LEMMA WideIs ==
  /\ Wide \in Nat \ {0} /\ Values \in Nat \ {0} /\ Values <= Wide
  /\ SignBit \in Nat /\ 2 * SignBit = Wide
  /\ DoubleWord = 0 .. Wide - 1 /\ Word = 0 .. Values - 1
  /\ Powers \subseteq Nat \ {0}
<1>1. Limit \in Nat \ {0} /\ Values \in Nat \ {0} /\ Values = 16 * Limit
  BY LimitAssumption DEF Values
<1>2. Wide \in Nat \ {0} /\ Values <= Wide
  <2>1. \A a, b \in Nat \ {0} : a * b \in Nat \ {0} /\ a <= a * b
    BY SMT
  <2> QED
    BY <1>1, <2>1 DEF Wide
<1>3. Limit * Values \in Nat /\ Wide = 16 * (Limit * Values)
  <2>1. \A a, b \in Nat : a * b \in Nat /\ (16 * a) * b = 16 * (a * b)
    BY SMT
  <2> QED
    BY <1>1, <2>1 DEF Wide
<1>4. SignBit \in Nat /\ 2 * SignBit = Wide
  BY <1>3 DEF SignBit
<1> QED
  BY <1>1, <1>2, <1>4 DEF Wide, DoubleWord, Word, Powers

(* What has been taken off the dividend is in the quotient, and the rest is less than twice
   the divisor at its weight. *)
Open(num, den, s) ==
  /\ s \in Reducing /\ num = s.res * den + s.rem
  /\ s.d \in Powers /\ s.b = s.d * den /\ s.rem < 2 * s.b
Closing(num, den, s) ==
  /\ s \in Reducing /\ num = s.res * den + s.rem
  /\ s.d = 0 /\ s.rem < den

(* The same while the divisor is doubled, the rest still being any double word. *)
Growing(num, den, s) ==
  /\ s \in Reducing /\ num = s.res * den + s.rem
  /\ s.d \in Powers /\ s.b = s.d * den /\ s.rem < Wide

LEMMA DoubledFar ==
  ASSUME NEW num \in Nat, NEW den \in Nat \ {0}, NEW s, Growing(num, den, s)
  PROVE  Open(num, den, Doubled(s))
<1> DEFINE More == {x \in Reducing : x.b \in 1 .. SignBit - 1 /\ x.b < x.rem}
           step == [x \in Reducing |-> [x EXCEPT !.b = 2 * x.b,
                                                 !.d = (2 * x.d) % (Values * Values)]]
           m == [x \in Reducing |-> Wide - 1 - x.b]
           I == {x \in Reducing : Growing(num, den, x)}
<1>0. \A v \in Nat : v % Wide \in DoubleWord
  BY WideIs
<1>1. ASSUME NEW x \in Reducing, x \in More
      PROVE  /\ step[x] \in Reducing /\ step[x].b = 2 * x.b /\ step[x].rem = x.rem
             /\ step[x].res = x.res /\ step[x].d = (2 * x.d) % Wide
             /\ x.b \in Nat \ {0} /\ 2 * x.b < Wide /\ x.d \in Nat
  <2>1. /\ x.b \in Nat \ {0} /\ x.b < SignBit /\ x.d \in Nat /\ x.rem \in Nat /\ x.res \in Nat
        /\ x = [rem |-> x.rem, b |-> x.b, res |-> x.res, d |-> x.d]
    BY <1>1, WideIs DEF Reducing
  <2>2. 2 * x.b \in DoubleWord /\ 2 * x.b < Wide
    BY <2>1, WideIs
  <2>3. (2 * x.d) % Wide \in DoubleWord
    BY <1>0, <2>1
  <2>4. step[x] = [x EXCEPT !.b = 2 * x.b, !.d = (2 * x.d) % Wide]
    BY DEF Wide
  <2>5. step[x] = [rem |-> x.rem, b |-> 2 * x.b, res |-> x.res, d |-> (2 * x.d) % Wide]
    BY <2>1, <2>4
  <2> HIDE DEF step
  <2> QED
    BY <2>1, <2>2, <2>3, <2>5 DEF Reducing
<1>2. ASSUME NEW x \in I, x \in More PROVE step[x] \in I
  <2>1. /\ x \in Reducing /\ num = x.res * den + x.rem /\ x.d \in Powers
        /\ x.b = x.d * den /\ x.rem < Wide
    BY <1>2 DEF Growing
  <2>2. /\ step[x] \in Reducing /\ step[x].b = 2 * x.b /\ step[x].rem = x.rem
        /\ step[x].res = x.res /\ step[x].d = (2 * x.d) % Wide
        /\ x.b \in Nat \ {0} /\ 2 * x.b < Wide /\ x.d \in Nat
    BY <1>1, <1>2
  <2> HIDE DEF step
  <2>3. x.d <= x.b
    <3>1. \A a \in Nat, b \in Nat \ {0} : a <= a * b
      BY SMT
    <3> QED
      BY <2>1, <2>2, <3>1
  <2>4. (2 * x.d) % Wide = 2 * x.d
    <3>1. \A v \in Nat : v < Wide => (v % Wide) = v
      BY WideIs
    <3>2. x.d \in Nat /\ x.b \in Nat /\ 2 * x.b < Wide
      BY <2>2
    <3>3. 2 * x.d \in Nat /\ 2 * x.d < Wide
      BY <2>3, <3>2, WideIs
    <3> QED
      BY <3>1, <3>3
  <2>5. 2 * x.d \in Powers
    BY <2>1, PowersClosed
  <2>6. 2 * x.b = (2 * x.d) * den
    <3>1. (2 * x.d) * den = 2 * (x.d * den)
      BY <2>2, Products
    <3> QED
      BY <2>1, <3>1
  <2> QED
    BY <2>1, <2>2, <2>4, <2>5, <2>6 DEF Growing
<1>3. ASSUME NEW x \in Reducing, x \in More PROVE step[x] \in Reducing /\ m[step[x]] < m[x]
  <2>1. /\ step[x] \in Reducing /\ step[x].b = 2 * x.b /\ x.b \in Nat \ {0}
    BY <1>1, <1>3
  <2> HIDE DEF step
  <2>2. m[x] = Wide - 1 - x.b /\ m[step[x]] = Wide - 1 - 2 * x.b
    BY <2>1
  <2> HIDE DEF m
  <2> QED
    BY <2>1, <2>2, WideIs
<1>4. m \in [Reducing -> Nat]
  BY WideIs DEF Reducing
<1>5. s \in I
  BY DEF Growing
<1>6. I \in SUBSET Reducing
  OBVIOUS
<1>7. Doubled(s) = Loop(Reducing, More, step, s)
  BY DEF Doubled
<1> DEFINE out == Doubled(s)
<1> HIDE DEF I, m, step, More
<1>8. Measured(Reducing, More, step, m)
  BY <1>3, <1>4 DEF Measured
<1>9. out \in I \ More
  <2>1. \A x \in I : x \in More => step[x] \in I
    BY <1>2
  <2>2. Wide \in Nat
    BY WideIs
  <2> QED
    BY <1>5, <1>6, <1>7, <1>8, <2>1, <2>2, LoopResult
<1> HIDE DEF out
<1>10. /\ out \in Reducing /\ num = out.res * den + out.rem
       /\ out.d \in Powers /\ out.b = out.d * den /\ out.rem < Wide
       /\ ~(out.b \in 1 .. SignBit - 1 /\ out.b < out.rem)
  BY <1>9 DEF I, More, Growing
<1>11. out.b \in Nat \ {0} /\ out.rem \in Nat
  <2>1. out.d \in Nat \ {0} /\ out.rem \in Nat
    BY <1>10, WideIs DEF Reducing
  <2>2. \A a, b \in Nat \ {0} : a * b \in Nat \ {0}
    BY SMT
  <2> QED
    BY <1>10, <2>1, <2>2
<1>12. out.rem < 2 * out.b
  BY <1>10, <1>11, WideIs
<1> QED
  BY <1>10, <1>12 DEF out, Open

LEMMA HalveOpen ==
  ASSUME NEW num \in Nat, NEW den \in Nat \ {0}, NEW s, Open(num, den, s)
  PROVE  /\ Open(num, den, Halve(s)) \/ Closing(num, den, Halve(s))
         /\ Halve(s).d < s.d
<1> DEFINE fits == s.rem >= s.b
           r == IF fits THEN s.rem - s.b ELSE s.rem
           q == IF fits THEN s.res + s.d ELSE s.res
           t == Halve(s)
<1>1. /\ s \in Reducing /\ num = s.res * den + s.rem /\ s.d \in Powers
      /\ s.b = s.d * den /\ s.rem < 2 * s.b
      /\ s.rem \in Nat /\ s.res \in Nat /\ s.b \in Nat /\ s.d \in Nat \ {0}
      /\ s.b < Wide /\ s.d < Wide
  BY WideIs DEF Open, Reducing
<1>2. t = [rem |-> r, b |-> s.b \div 2, res |-> q, d |-> s.d \div 2]
  BY DEF Halve
<1>3. r \in Nat /\ q \in Nat /\ r < s.b
  BY <1>1
<1>4. num = q * den + r
  <2>1. (s.res + s.d) * den = s.res * den + s.b /\ s.res * den \in Nat
    BY <1>1, Products
  <2>2. CASE fits
    <3>1. q = s.res + s.d /\ r = s.rem - s.b
      BY <2>2
    <3> HIDE DEF q, r
    <3> QED
      BY <1>1, <2>1, <3>1
  <2>3. CASE ~fits
    BY <1>1, <2>3
  <2> QED
    BY <2>2, <2>3
<1>5. s.b \div 2 \in DoubleWord /\ s.d \div 2 \in DoubleWord /\ s.d \div 2 < s.d
  <2>1. \A v \in Nat : v < Wide => v \div 2 \in DoubleWord /\ (v # 0 => v \div 2 < v)
    BY WideIs
  <2> QED
    BY <1>1, <2>1
<1> HIDE DEF r, q, t
<1>6. t.rem = r /\ t.b = s.b \div 2 /\ t.res = q /\ t.d = s.d \div 2 /\ t \in Reducing
  BY <1>2, <1>3, <1>5 DEF Reducing
<1>7. CASE s.d = 1
  <2>1. s.d \div 2 = 0 /\ s.b = den
    BY <1>1, <1>7, Products
  <2>2. Closing(num, den, t)
    BY <1>3, <1>4, <1>6, <2>1 DEF Closing
  <2> QED
    BY <1>5, <1>6, <2>2 DEF t
<1>8. CASE s.d # 1
  <2>1. PICK y \in Powers : s.d = 2 * y
    BY <1>1, <1>8, PowersHalve
  <2>2. y \in Nat /\ y * den \in Nat /\ s.b = 2 * (y * den)
    BY <1>1, <2>1, WideIs, Products
  <2>3. \A v \in Nat : (2 * v) \div 2 = v
    OBVIOUS
  <2>4. s.d \div 2 = y /\ s.b \div 2 = y * den
    BY <2>1, <2>2, <2>3
  <2>5. r < 2 * (y * den)
    BY <1>3, <2>2
  <2>6. Open(num, den, t)
    BY <1>4, <1>6, <2>1, <2>4, <2>5 DEF Open
  <2> QED
    BY <1>5, <1>6, <2>6 DEF t
<1> QED
  BY <1>7, <1>8

LEMMA HalvedDivides ==
  ASSUME NEW num \in Nat, NEW den \in Word \ {0}, NEW s, Open(num, den, s)
  PROVE  Halved(s).res = num \div den /\ Halved(s).rem % Values = num % den
<1> DEFINE More == {x \in Reducing : x.d # 0}
           step == [x \in Reducing |-> Halve(x)]
           m == [x \in Reducing |-> x.d]
           I == {x \in Reducing : Open(num, den, x) \/ Closing(num, den, x)}
<1>0. den \in Nat \ {0} /\ den < Values
  BY WideIs
<1>1. ASSUME NEW x, Open(num, den, x) PROVE Halve(x) \in I
  <2>1. Open(num, den, Halve(x)) \/ Closing(num, den, Halve(x))
    BY <1>0, <1>1, HalveOpen
  <2>2. Halve(x) \in Reducing
    BY <2>1 DEF Open, Closing
  <2> QED
    BY <2>1, <2>2
<1>2. ASSUME NEW x \in I, x \in More PROVE step[x] \in I
  <2>1. Open(num, den, x)
    BY <1>2 DEF Closing
  <2> HIDE DEF I
  <2>2. Halve(x) \in I
    BY <1>1, <2>1
  <2> QED
    BY <1>2, <2>2
<1>3. ASSUME NEW x \in Reducing, x \in More PROVE step[x] \in Reducing /\ m[step[x]] < m[x]
  <2> DEFINE r == IF x.rem >= x.b THEN x.rem - x.b ELSE x.rem
             q == IF x.rem >= x.b THEN x.res + x.d ELSE x.res
  <2>1. x.rem \in Nat /\ x.res \in Nat /\ x.b \in DoubleWord /\ x.d \in DoubleWord /\ x.d # 0
    BY <1>3 DEF Reducing
  <2>2. Halve(x) = [rem |-> r, b |-> x.b \div 2, res |-> q, d |-> x.d \div 2]
    BY DEF Halve
  <2>3. r \in Nat /\ q \in Nat
    BY <2>1, WideIs
  <2>4. x.b \div 2 \in DoubleWord /\ x.d \div 2 \in DoubleWord /\ x.d \div 2 < x.d
    <3>1. \A v \in DoubleWord : v \div 2 \in DoubleWord /\ (v # 0 => v \div 2 < v)
      BY WideIs
    <3> QED
      BY <2>1, <3>1
  <2> HIDE DEF r, q
  <2>5. Halve(x) \in Reducing /\ Halve(x).d < x.d
    BY <2>2, <2>3, <2>4 DEF Reducing
  <2> QED
    BY <2>5
<1>4. m \in [Reducing -> Nat]
  BY WideIs DEF Reducing
<1>5. Halve(s) \in I
  BY <1>1
<1>6. I \in SUBSET Reducing
  OBVIOUS
<1>7. Halved(s) = Loop(Reducing, More, step, Halve(s))
  BY DEF Halved
<1> DEFINE out == Halved(s)
<1> HIDE DEF I, m, step, More
<1>8. Measured(Reducing, More, step, m)
  BY <1>3, <1>4 DEF Measured
<1>9. out \in I \ More
  <2>1. \A x \in I : x \in More => step[x] \in I
    BY <1>2
  <2>2. Wide \in Nat
    BY WideIs
  <2> QED
    BY <1>5, <1>6, <1>7, <1>8, <2>1, <2>2, LoopResult
<1> HIDE DEF out
<1>10. Closing(num, den, out)
  BY <1>9, WideIs DEF I, More, Open
<1>11. /\ out.res \in Nat /\ out.rem \in Nat /\ num = out.res * den + out.rem
       /\ out.rem < den
  BY <1>10 DEF Closing, Reducing
<1>12. num \div den = out.res /\ num % den = out.rem
  BY <1>0, <1>11, QuotientIs
<1>13. out.rem % Values = out.rem
  <2>1. \A v \in Nat : v < Values => (v % Values) = v
    BY WideIs
  <2>2. out.rem < Values
    BY <1>0, <1>11, WideIs
  <2> QED
    BY <1>11, <2>1, <2>2
<1> QED
  BY <1>12, <1>13 DEF out

(* __div64_32 divides, whether the high word is divided first or not. *)
LEMMA Div64Divides ==
  ASSUME NEW n \in DoubleWord, NEW base \in Word \ {0}
  PROVE  Div64(n, base) = [quot |-> n \div base, rem |-> n % base]
<1> DEFINE h == n \div Values
           s == IF h >= base THEN Reduced(n, base)
                ELSE [res |-> 0, rem |-> n, b |-> base, d |-> 1]
           t == Halved(Doubled(s))
<1>1. /\ n \in Nat /\ n < Wide /\ base \in Nat \ {0} /\ base < Values /\ base \in DoubleWord
      /\ 1 \in DoubleWord /\ 1 \in Powers
  BY WideIs, PowersClosed
<1>2. h \in Word /\ h * Values <= n /\ h * Values \in Nat
  <2>1. \A x \in Nat, y \in Nat \ {0} : x \div y \in Nat /\ (x \div y) * y <= x
    BY SMT
  <2>2. h \in Nat /\ h * Values <= n
    BY <1>1, <2>1, WideIs
  <2>3. h < Values
    <3>1. ASSUME Values <= h PROVE Wide <= h * Values
      <4>1. \A a, b, c \in Nat : a <= b => a * c <= b * c
        BY SMT
      <4> QED
        BY <2>2, <3>1, <4>1, WideIs DEF Wide
    <3>2. h * Values \in Nat
      BY <2>2, WideIs, Products
    <3> HIDE DEF h
    <3> QED
      BY <1>1, <2>2, <3>1, <3>2, WideIs
  <2> HIDE DEF h
  <2> QED
    BY <2>2, <2>3, WideIs, Products
<1>3. Growing(n, base, s)
  <2>1. base = 1 * base
    BY <1>1
  <2>2. CASE h >= base
    <3> DEFINE q == UDiv(h, base)
               r == n - (q * base) * Values
    <3>1. q \in Nat /\ q * base <= h /\ q * base \in Nat
      <4>1. q = h \div base
        BY <1>2, UDivDivides DEF Quotients
      <4>2. \A x \in Nat, y \in Nat \ {0} : x \div y \in Nat /\ (x \div y) * y <= x
        BY SMT
      <4>3. h \in Nat
        BY <1>2, WideIs
      <4> HIDE DEF q, h
      <4> QED
        BY <1>1, <4>1, <4>2, <4>3, Products
    <3>2. s = [res |-> q * Values, rem |-> r, b |-> base, d |-> 1]
      BY <2>2 DEF Reduced
    <3> HIDE DEF q, h, s
    <3>3. (q * base) * Values \in Nat /\ (q * base) * Values <= h * Values
      <4>1. \A a, b, c \in Nat : a <= b => a * c <= b * c
        BY SMT
      <4>2. h \in Nat /\ Values \in Nat
        BY <1>2, WideIs
      <4> QED
        BY <3>1, <4>1, <4>2, Products
    <3>4. r \in Nat /\ r <= n /\ r < Wide
      BY <1>1, <1>2, <3>3, WideIs
    <3>5. (q * Values) * base = (q * base) * Values /\ q * Values \in Nat
      <4>1. \A a, b, c \in Nat : (a * b) * c = (a * c) * b /\ a * b \in Nat
        BY SMT
      <4> QED
        BY <1>1, <3>1, <4>1, WideIs
    <3>6. n = (q * Values) * base + r
      BY <1>1, <3>3, <3>5
    <3> HIDE DEF r
    <3> QED
      BY <1>1, <2>1, <3>2, <3>4, <3>5, <3>6 DEF Growing, Reducing
  <2>3. CASE ~(h >= base)
    <3>1. s = [res |-> 0, rem |-> n, b |-> base, d |-> 1]
      BY <2>3
    <3>2. n = 0 * base + n
      BY <1>1
    <3> HIDE DEF s
    <3> QED
      BY <1>1, <2>1, <3>1, <3>2 DEF Growing, Reducing
  <2> QED
    BY <2>2, <2>3
<1>4. Div64(n, base) = [quot |-> t.res, rem |-> t.rem % Values]
  BY DEF Div64
<1> HIDE DEF s
<1>5. Open(n, base, Doubled(s))
  BY <1>1, <1>3, DoubledFar
<1>6. t.res = n \div base /\ t.rem % Values = n % base
  BY <1>1, <1>5, HalvedDivides
<1> QED
  BY <1>4, <1>6

(* do_div divides. *)
LEMMA DoDivDivides ==
  ASSUME NEW n \in DoubleWord, NEW base \in Word \ {0}
  PROVE  DoDiv(n, base) = [quot |-> n \div base, rem |-> n % base]
<1>1. CASE n < Values
  <2>1. n \in Word
    BY <1>1, WideIs
  <2>2. UDiv(n, base) = n \div base
    BY <2>1, UDivDivides DEF Quotients
  <2>3. ModOf(n, base, n \div base) = n % base
    BY <2>1, ModOfIs
  <2> QED
    BY <1>1, <2>2, <2>3 DEF DoDiv
<1>2. CASE ~(n < Values)
  BY <1>2, Div64Divides DEF DoDiv
<1> QED
  BY <1>1, <1>2

-----------------------------------------------------------------------------
(* Decimal digits.                                                         *)

(* The digits of n down to where m is left; r has what is left after each. *)
SpellsBy(digits, r) ==
  /\ digits \in Seq(0..9)
  /\ r \in [0 .. Len(digits) -> Nat]
  /\ \A i \in 1 .. Len(digits) : digits[i] = r[i - 1] % 10 /\ r[i] = r[i - 1] \div 10

Spells(digits, n, m) == \E r : SpellsBy(digits, r) /\ r[0] = n /\ r[Len(digits)] = m

LEMMA SpellsDenotes ==
  ASSUME NEW digits, NEW n \in Nat, Spells(digits, n, 0)
  PROVE  Denotes(digits, n)
<1> DEFINE k == Len(digits)
           Turn(f) == [i \in 0 .. k |-> IF i = 0 THEN n ELSE f[i - 1] \div 10]
           f == CHOOSE f : f = Turn(f)
<1>1. PICK r : SpellsBy(digits, r) /\ r[0] = n /\ r[k] = 0
  BY DEF Spells
<1>2. /\ digits \in Seq(0..9) /\ k \in Nat /\ r \in [0 .. k -> Nat]
      /\ \A i \in 1 .. k : digits[i] = r[i - 1] % 10 /\ r[i] = r[i - 1] \div 10
  BY <1>1, LenProperties DEF SpellsBy
<1> HIDE DEF k
<1>3. r = Turn(r)
  <2>1. r = [i \in 0 .. k |-> r[i]]
    BY <1>2
  <2>2. \A i \in 0 .. k : r[i] = IF i = 0 THEN n ELSE r[i - 1] \div 10
    BY <1>1, <1>2
  <2>3. [i \in 0 .. k |-> r[i]] = Turn(r)
    BY <2>2, Zenon
  <2> QED
    BY <2>1, <2>3
<1>4. f = Turn(f)
  BY <1>3, Zenon
<1> HIDE DEF f
<1>5. ASSUME NEW j \in 0 .. k PROVE f[j] = r[j]
  <2>1. f[0] = r[0]
    BY <1>1, <1>2, <1>4
  <2>2. ASSUME NEW i \in 1 .. j, f[i - 1] = r[i - 1] PROVE f[i] = r[i]
    <3>1. i \in 0 .. k /\ i # 0 /\ i \in 1 .. k
      BY <1>2
    <3>2. f[i] = IF i = 0 THEN n ELSE f[i - 1] \div 10
      BY <1>4, <3>1, Zenon
    <3>3. r[i] = r[i - 1] \div 10
      BY <1>2, <3>1, Zenon
    <3> QED
      BY <2>2, <3>1, <3>2, <3>3, Zenon
  <2>3. j \in Nat
    BY <1>2
  <2> QED
    BY <2>1, <2>2, <2>3, SameLoop
<1>6. f[k] = 0 /\ \A i \in 1 .. k : digits[i] = f[i - 1] % 10
  <2>1. f[k] = 0
    BY <1>1, <1>2, <1>5
  <2>2. ASSUME NEW i \in 1 .. k PROVE digits[i] = f[i - 1] % 10
    <3>1. i - 1 \in 0 .. k
      BY <1>2
    <3>2. f[i - 1] = r[i - 1]
      BY <1>5, <3>1, Zenon
    <3> QED
      BY <1>2, <3>2, Zenon
  <2> QED
    BY <2>1, <2>2
<1> QED
  BY <1>2, <1>6, Zenon DEF Denotes, f, k

LEMMA SpellsAppend ==
  ASSUME NEW a, NEW b, NEW n, NEW m, NEW p, Spells(a, n, m), Spells(b, m, p)
  PROVE  Spells(a \o b, n, p)
<1>1. PICK r : SpellsBy(a, r) /\ r[0] = n /\ r[Len(a)] = m
  BY DEF Spells
<1>2. PICK t : SpellsBy(b, t) /\ t[0] = m /\ t[Len(b)] = p
  BY DEF Spells
<1> DEFINE k == Len(a)
           l == Len(b)
           c == a \o b
           u == [i \in 0 .. k + l |-> IF i <= k THEN r[i] ELSE t[i - k]]
<1>3. /\ a \in Seq(0..9) /\ k \in Nat /\ r \in [0 .. k -> Nat]
      /\ \A i \in 1 .. k : a[i] = r[i - 1] % 10 /\ r[i] = r[i - 1] \div 10
  BY <1>1, LenProperties DEF SpellsBy
<1>4. /\ b \in Seq(0..9) /\ l \in Nat /\ t \in [0 .. l -> Nat]
      /\ \A i \in 1 .. l : b[i] = t[i - 1] % 10 /\ t[i] = t[i - 1] \div 10
  BY <1>2, LenProperties DEF SpellsBy
<1>5. /\ c \in Seq(0..9) /\ Len(c) = k + l
      /\ \A i \in 1 .. k + l : c[i] = IF i <= k THEN a[i] ELSE b[i - k]
  BY <1>3, <1>4, ConcatProperties
<1> HIDE DEF c
<1>6. u \in [0 .. k + l -> Nat] /\ u[0] = n /\ u[k + l] = p
  <2> HIDE DEF k, l
  <2>1. \A i \in 0 .. k + l : i > k => i - k \in 0 .. l
    BY <1>3, <1>4
  <2>2. u[k + l] = p
    <3>1. CASE l = 0
      BY <1>1, <1>2, <1>3, <3>1 DEF k, l
    <3>2. CASE l # 0
      BY <1>2, <1>3, <1>4, <3>2 DEF l
    <3> QED
      BY <3>1, <3>2
  <2>3. u[0] = n
    BY <1>1, <1>3, <1>4
  <2>4. ASSUME NEW i \in 0 .. k + l PROVE (IF i <= k THEN r[i] ELSE t[i - k]) \in Nat
    <3>1. i <= k => i \in 0 .. k
      BY <1>3, <1>4
    <3>2. i <= k => r[i] \in Nat
      BY <1>3, <3>1
    <3>3. ~(i <= k) => i - k \in 0 .. l
      BY <1>3, <1>4, <2>1
    <3>4. ~(i <= k) => t[i - k] \in Nat
      BY <1>4, <3>3
    <3> QED
      BY <3>2, <3>4
  <2>5. u \in [0 .. k + l -> Nat]
    BY <2>4, Zenon
  <2> QED
    BY <2>2, <2>3, <2>5
<1>7. ASSUME NEW i \in 1 .. k + l PROVE c[i] = u[i - 1] % 10 /\ u[i] = u[i - 1] \div 10
  <2>0. t[0] = r[k]
    BY <1>1, <1>2
  <2> HIDE DEF k, l
  <2>1. CASE i <= k
    <3>1. u[i - 1] = r[i - 1] /\ u[i] = r[i] /\ i \in 1 .. k
      BY <1>3, <1>4, <2>1
    <3>2. c[i] = a[i]
      BY <1>5, <2>1
    <3> HIDE DEF u
    <3> QED
      BY <1>3, <3>1, <3>2
  <2>2. CASE i = k + 1
    <3>0. /\ i - 1 = k /\ i - k = 1 /\ ~(i <= k) /\ i - 1 <= k /\ 1 \in 1 .. l
          /\ i - 1 \in 0 .. k + l /\ i \in 0 .. k + l
      BY <1>3, <1>4, <2>2
    <3>1. u[i - 1] = t[0] /\ u[i] = t[1] /\ c[i] = b[1] /\ 1 \in 1 .. l
      BY <1>5, <2>0, <3>0
    <3> HIDE DEF u
    <3> QED
      BY <1>4, <3>1
  <2>3. CASE i > k + 1
    <3>0. /\ i - k \in 1 .. l /\ (i - 1) - k = (i - k) - 1 /\ ~(i <= k) /\ ~(i - 1 <= k)
          /\ i - 1 \in 0 .. k + l /\ i \in 0 .. k + l
      BY <1>3, <1>4, <2>3
    <3>1. u[i - 1] = t[(i - k) - 1] /\ u[i] = t[i - k] /\ c[i] = b[i - k] /\ i - k \in 1 .. l
      BY <1>5, <3>0
    <3> HIDE DEF u
    <3> QED
      BY <1>4, <3>1
  <2> QED
    BY <1>3, <2>1, <2>2, <2>3
<1> HIDE DEF u
<1>8. SpellsBy(c, u)
  BY <1>5, <1>6, <1>7 DEF SpellsBy
<1> QED
  BY <1>5, <1>6, <1>8 DEF Spells, c

LEMMA SpellsPrefix ==
  ASSUME NEW digits, NEW r, SpellsBy(digits, r), NEW k \in 0 .. Len(digits)
  PROVE  /\ Spells(SubSeq(digits, 1, k), r[0], r[k])
         /\ Len(SubSeq(digits, 1, k)) = k
         /\ k > 0 => SubSeq(digits, 1, k)[k] = digits[k]
<1> DEFINE d == SubSeq(digits, 1, k)
           u == [i \in 0 .. k |-> r[i]]
<1>1. /\ digits \in Seq(0..9) /\ Len(digits) \in Nat /\ r \in [0 .. Len(digits) -> Nat]
      /\ \A i \in 1 .. Len(digits) : digits[i] = r[i - 1] % 10 /\ r[i] = r[i - 1] \div 10
  BY LenProperties DEF SpellsBy
<1>2. \A i \in 1 .. k : digits[i] \in 0..9
  BY <1>1, ElementOfSeq
<1>3. d \in Seq(0..9) /\ Len(d) = k /\ \A i \in 1 .. k : d[i] = digits[i]
  BY <1>1, <1>2, SubSeqProperties
<1> HIDE DEF d
<1>4. SpellsBy(d, u)
  <2>1. u \in [0 .. k -> Nat]
    <3>1. \A i \in 0 .. k : i \in 0 .. Len(digits)
      BY <1>1
    <3>2. \A i \in 0 .. k : r[i] \in Nat
      BY <1>1, <3>1
    <3> QED
      BY <3>2
  <2>2. ASSUME NEW i \in 1 .. k PROVE d[i] = u[i - 1] % 10 /\ u[i] = u[i - 1] \div 10
    <3>1. u[i - 1] = r[i - 1] /\ u[i] = r[i] /\ i \in 1 .. Len(digits)
      BY <1>1
    <3> HIDE DEF u
    <3> QED
      BY <1>1, <1>3, <3>1
  <2> HIDE DEF u
  <2> QED
    BY <1>3, <2>1, <2>2 DEF SpellsBy
<1>5. u[0] = r[0] /\ u[k] = r[k]
  BY <1>1
<1> QED
  BY <1>1, <1>3, <1>4, <1>5 DEF Spells, d

-----------------------------------------------------------------------------
(* put_dec.                                                                *)

(* e is the last digit of n, and q what is left without it. *)
Split(n, q, e) == n = 10 * q + e /\ q \in Nat /\ e \in 0..9

LEMMA Splits == \A n \in Nat : \A q, e : Split(n, q, e) => n \div 10 = q /\ n % 10 = e
<1> SUFFICES ASSUME NEW n \in Nat, NEW q \in Nat, NEW e \in 0..9, n = 10 * q + e
             PROVE  n \div 10 = q /\ n % 10 = e
  BY DEF Split
<1> QED
  OBVIOUS

(* The reciprocals are exact as far as the sums go: 13/128 only up to 68. *)
LEMMA Reciprocals ==
  /\ \A s \in 0..340 : Tenth(s) \in Nat /\ s - 10 * Tenth(s) \in 0..9
  /\ \A s \in 0..68 : ShortTenth(s) \in Nat /\ s - 10 * ShortTenth(s) \in 0..9
BY SMT DEF Tenth, ShortTenth

LEMMA TenthIs ==
  ASSUME NEW s \in Nat, s <= 340
  PROVE  Tenth(s) \in Nat /\ s - 10 * Tenth(s) \in 0..9
<1>1. s \in 0..340
  OBVIOUS
<1> QED
  BY <1>1, Reciprocals

LEMMA ShortTenthIs ==
  ASSUME NEW s \in Nat, s <= 68
  PROVE  ShortTenth(s) \in Nat /\ s - 10 * ShortTenth(s) \in 0..9
<1>1. s \in 0..68
  OBVIOUS
<1> QED
  BY <1>1, Reciprocals

LEMMA GroupIs == Group \in Nat \ {0}
<1>1. \A a, b \in Nat \ {0} : a * b \in Nat \ {0}
  BY SMT
<1>2. 10 \in Nat \ {0}
  OBVIOUS
<1> QED
  BY <1>1, <1>2, Zenon DEF Group

(* Numbers of at most five digits, and their nibbles. *)
LEMMA BelowGroup ==
  ASSUME NEW q \in 0 .. Group - 1
  PROVE  q \in Nat /\ q < 10 * 10 * 10 * 10 * 10
<1>1. Group \in Nat
  BY GroupIs
<1>2. q \in Nat /\ q < Group
  BY <1>1
<1> QED
  BY <1>2, Zenon DEF Group

LEMMA Nibbles ==
  ASSUME NEW q \in 0 .. Group - 1
  PROVE  /\ N0(q) \in Nat /\ N1(q) \in Nat /\ N2(q) \in Nat /\ N3(q) \in Nat /\ q \in Nat
         /\ N0(q) <= 15 /\ N1(q) <= 15 /\ N2(q) <= 15 /\ N3(q) <= 24
         /\ q = N0(q) + 16 * (N1(q) + 16 * (N2(q) + 16 * N3(q)))
<1> DEFINE a == q \div 16
           b == a \div 16
           c == b \div 16
<1>0. \A x \in Nat : /\ x \div 16 \in Nat /\ x % 16 \in Nat /\ x % 16 <= 15
                     /\ x = (x % 16) + 16 * (x \div 16)
  BY SMT
<1>1. \A x \in Nat : /\ x \div (16 * 16) = (x \div 16) \div 16
                     /\ x \div (16 * 16 * 16) = ((x \div 16) \div 16) \div 16
  BY SMT
<1>2. q \in Nat
  BY BelowGroup
<1>3. N0(q) = q % 16 /\ N1(q) = a % 16 /\ N2(q) = b % 16 /\ N3(q) = c
  BY <1>1, <1>2 DEF N0, N1, N2, N3
<1>4. /\ a \in Nat /\ N0(q) \in Nat /\ N0(q) <= 15 /\ q = N0(q) + 16 * a
  BY <1>0, <1>2, <1>3
<1> HIDE DEF a
<1>5. /\ b \in Nat /\ N1(q) \in Nat /\ N1(q) <= 15 /\ a = N1(q) + 16 * b
  BY <1>0, <1>3, <1>4
<1> HIDE DEF b
<1>6. /\ c \in Nat /\ N2(q) \in Nat /\ N2(q) <= 15 /\ b = N2(q) + 16 * c
  BY <1>0, <1>3, <1>5
<1> HIDE DEF c
<1>7. q < 10 * 10 * 10 * 10 * 10
  BY BelowGroup, Zenon
<1>8. c <= 24
  BY <1>2, <1>4, <1>5, <1>6, <1>7
<1> QED
  BY <1>2, <1>3, <1>4, <1>5, <1>6, <1>8

(* What is left of q after each digit. *)
L1(q) == S1(q) + 10 * (2 * N2(q)) + 100 * (4 * N3(q))
L2(q) == S2(q) + 10 * (4 * N3(q))

LEMMA SumsAre ==
  ASSUME NEW q \in 0 .. Group - 1
  PROVE  /\ Split(q, L1(q), S0(q) - 10 * C0(q)) /\ Split(L1(q), L2(q), S1(q) - 10 * C1(q))
         /\ Split(L2(q), S3(q), S2(q) - 10 * C2(q)) /\ Split(S3(q), C3(q), S3(q) - 10 * C3(q))
         /\ C3(q) \in 0..9
         /\ (S1(q) = 0) <=> (L1(q) = 0)
         /\ (S2(q) = 0 /\ N3(q) = 0) <=> (L2(q) = 0)
<1> DEFINE n0 == N0(q)
           n1 == N1(q)
           n2 == N2(q)
           n3 == N3(q)
           s0 == S0(q)
           s1 == S1(q)
           s2 == S2(q)
           s3 == S3(q)
           c0 == C0(q)
           c1 == C1(q)
           c2 == C2(q)
           c3 == C3(q)
           l1 == L1(q)
           l2 == L2(q)
<1>1. /\ n0 \in Nat /\ n1 \in Nat /\ n2 \in Nat /\ n3 \in Nat /\ q \in Nat
      /\ n0 <= 15 /\ n1 <= 15 /\ n2 <= 15 /\ n3 <= 24
      /\ q = n0 + 16 * (n1 + 16 * (n2 + 16 * n3))
  BY Nibbles
<1>2. /\ s0 = 6 * (n3 + n2 + n1) + n0 /\ c0 = Tenth(s0)
      /\ s1 = c0 + 9 * n3 + 5 * n2 + n1 /\ c1 = Tenth(s1)
      /\ s2 = c1 + 2 * n2 /\ c2 = ShortTenth(s2)
      /\ s3 = c2 + 4 * n3 /\ c3 = Tenth(s3)
      /\ l1 = s1 + 10 * (2 * n2) + 100 * (4 * n3) /\ l2 = s2 + 10 * (4 * n3)
  BY Zenon DEF S0, C0, S1, C1, S2, C2, S3, C3, L1, L2
<1>3. q < 10 * 10 * 10 * 10 * 10
  BY BelowGroup, Zenon
<1> HIDE DEF n0, n1, n2, n3, s0, s1, s2, s3, c0, c1, c2, c3, l1, l2
<1>4. s0 \in Nat /\ s0 <= 340
  BY <1>1, <1>2
<1>5. c0 \in Nat /\ s0 - 10 * c0 \in 0..9
  BY <1>2, <1>4, TenthIs
<1>6. s1 \in Nat /\ s1 <= 340
  BY <1>1, <1>2, <1>4, <1>5
<1>7. c1 \in Nat /\ s1 - 10 * c1 \in 0..9
  BY <1>2, <1>6, TenthIs
<1>8. s2 \in Nat /\ s2 <= 68
  BY <1>1, <1>2, <1>6, <1>7
<1>9. c2 \in Nat /\ s2 - 10 * c2 \in 0..9
  BY <1>2, <1>8, ShortTenthIs
<1>10. s3 \in Nat /\ s3 <= 340
  BY <1>1, <1>2, <1>8, <1>9
<1>11. c3 \in Nat /\ s3 - 10 * c3 \in 0..9
  BY <1>2, <1>10, TenthIs
<1>12. l1 \in Nat /\ l2 \in Nat
  BY <1>1, <1>2, <1>6, <1>8
<1>13. Split(q, l1, s0 - 10 * c0)
  <2>1. q = 10 * l1 + (s0 - 10 * c0)
    BY <1>1, <1>2, <1>4, <1>5
  <2> QED
    BY <1>5, <1>12, <2>1 DEF Split
<1>14. Split(l1, l2, s1 - 10 * c1)
  <2>1. l1 = 10 * l2 + (s1 - 10 * c1)
    BY <1>1, <1>2, <1>6, <1>7
  <2> QED
    BY <1>7, <1>12, <2>1 DEF Split
<1>15. Split(l2, s3, s2 - 10 * c2)
  <2>1. l2 = 10 * s3 + (s2 - 10 * c2)
    BY <1>1, <1>2, <1>8, <1>9
  <2> QED
    BY <1>9, <1>10, <2>1 DEF Split
<1>16. Split(s3, c3, s3 - 10 * c3)
  BY <1>10, <1>11 DEF Split
<1>17. c3 \in 0..9
  <2>1. q >= 10 * l1 /\ l1 >= 10 * l2 /\ l2 >= 10 * s3 /\ s3 >= 10 * c3
    BY <1>1, <1>10, <1>11, <1>12, <1>13, <1>14, <1>15, <1>16 DEF Split
  <2> QED
    BY <1>1, <1>3, <1>10, <1>11, <1>12, <2>1
<1>18. (s1 = 0) <=> (l1 = 0)
  <2>1. ASSUME s1 = 0 PROVE l1 = 0
    <3>1. 9 * n3 = 0 /\ 5 * n2 = 0
      BY <1>1, <1>2, <1>5, <2>1
    <3> QED
      BY <1>1, <1>2, <2>1, <3>1
  <2>2. ASSUME l1 = 0 PROVE s1 = 0
    BY <1>1, <1>2, <1>6, <2>2
  <2> QED
    BY <2>1, <2>2
<1>19. (s2 = 0 /\ n3 = 0) <=> (l2 = 0)
  <2>1. ASSUME s2 = 0, n3 = 0 PROVE l2 = 0
    BY <1>2, <2>1
  <2>2. ASSUME l2 = 0 PROVE s2 = 0 /\ n3 = 0
    <3>1. s2 + 40 * n3 = 0
      BY <1>1, <1>2, <1>8, <2>2
    <3> QED
      BY <1>1, <1>8, <3>1
  <2> QED
    BY <2>1, <2>2
<1> QED
  BY <1>13, <1>14, <1>15, <1>16, <1>17, <1>18, <1>19
     DEF n3, s0, s1, s2, s3, c0, c1, c2, c3, l1, l2

(* A digit e and what is left, if k stands before them. *)
Leaves(n, q, e, k) == (n + 10 * k) \div 10 = q + k /\ (n + 10 * k) % 10 = e

LEMMA SplitAt == \A n, k \in Nat : \A q, e : Split(n, q, e) => Leaves(n, q, e, k)
<1> SUFFICES ASSUME NEW n \in Nat, NEW k \in Nat, NEW q, NEW e, Split(n, q, e)
             PROVE  Leaves(n, q, e, k)
  BY Zenon
<1>1. q \in Nat /\ e \in 0..9 /\ n = 10 * q + e
  BY DEF Split
<1>2. Split(n + 10 * k, q + k, e)
  BY <1>1 DEF Split
<1>3. n + 10 * k \in Nat /\ q + k \in Nat
  BY <1>1
<1> QED
  BY <1>2, <1>3, Splits DEF Leaves

(* What is left after each digit of put_dec_full, if k stands before the five digits. *)
Rests(q, k) ==
  [i \in 0..5 |-> IF i = 0 THEN q + 10 * (10 * (10 * (10 * (10 * k))))
                  ELSE IF i = 1 THEN L1(q) + 10 * (10 * (10 * (10 * k)))
                  ELSE IF i = 2 THEN L2(q) + 10 * (10 * (10 * k))
                  ELSE IF i = 3 THEN S3(q) + 10 * (10 * k)
                  ELSE IF i = 4 THEN C3(q) + 10 * k ELSE k]

LEMMA FullSpells ==
  ASSUME NEW q \in 0 .. Group - 1, NEW k \in Nat
  PROVE  SpellsBy(PutDecFull(q), Rests(q, k)) /\ Len(PutDecFull(q)) = 5
<1> DEFINE d == PutDecFull(q)
           r == Rests(q, k)
<1>1. /\ Split(q, L1(q), S0(q) - 10 * C0(q)) /\ Split(L1(q), L2(q), S1(q) - 10 * C1(q))
      /\ Split(L2(q), S3(q), S2(q) - 10 * C2(q)) /\ Split(S3(q), C3(q), S3(q) - 10 * C3(q))
      /\ C3(q) \in 0..9
  BY SumsAre
<1>2. /\ q \in Nat /\ L1(q) \in Nat /\ L2(q) \in Nat /\ S3(q) \in Nat /\ C3(q) \in Nat
      /\ S0(q) - 10 * C0(q) \in 0..9 /\ S1(q) - 10 * C1(q) \in 0..9
      /\ S2(q) - 10 * C2(q) \in 0..9 /\ S3(q) - 10 * C3(q) \in 0..9
  BY <1>1 DEF Split
<1>3. d \in Seq(0..9) /\ Len(d) = 5
  BY <1>1, <1>2 DEF PutDecFull
<1>4. /\ d[1] = S0(q) - 10 * C0(q) /\ d[2] = S1(q) - 10 * C1(q) /\ d[3] = S2(q) - 10 * C2(q)
      /\ d[4] = S3(q) - 10 * C3(q) /\ d[5] = C3(q)
  BY DEF PutDecFull
<1>5. /\ r[0] = q + 10 * (10 * (10 * (10 * (10 * k))))
      /\ r[1] = L1(q) + 10 * (10 * (10 * (10 * k))) /\ r[2] = L2(q) + 10 * (10 * (10 * k))
      /\ r[3] = S3(q) + 10 * (10 * k) /\ r[4] = C3(q) + 10 * k /\ r[5] = k
  BY DEF Rests
<1>6. r \in [0 .. 5 -> Nat]
  <2>1. \A i \in 0 .. 5 : r[i] \in Nat
    BY <1>2, <1>5
  <2> QED
    BY <2>1 DEF Rests
<1> HIDE DEF d, r
<1>7. /\ 10 * k \in Nat /\ 10 * (10 * k) \in Nat /\ 10 * (10 * (10 * k)) \in Nat
      /\ 10 * (10 * (10 * (10 * k))) \in Nat
  OBVIOUS
<1>8. d[1] = r[0] % 10 /\ r[1] = r[0] \div 10
  <2>1. Leaves(q, L1(q), S0(q) - 10 * C0(q), 10 * (10 * (10 * (10 * k))))
    BY <1>1, <1>2, <1>7, SplitAt, Zenon
  <2> QED
    BY <1>4, <1>5, <2>1, Zenon DEF Leaves
<1>9. d[2] = r[1] % 10 /\ r[2] = r[1] \div 10
  <2>1. Leaves(L1(q), L2(q), S1(q) - 10 * C1(q), 10 * (10 * (10 * k)))
    BY <1>1, <1>2, <1>7, SplitAt, Zenon
  <2> QED
    BY <1>4, <1>5, <2>1, Zenon DEF Leaves
<1>10. d[3] = r[2] % 10 /\ r[3] = r[2] \div 10
  <2>1. Leaves(L2(q), S3(q), S2(q) - 10 * C2(q), 10 * (10 * k))
    BY <1>1, <1>2, <1>7, SplitAt, Zenon
  <2> QED
    BY <1>4, <1>5, <2>1, Zenon DEF Leaves
<1>11. d[4] = r[3] % 10 /\ r[4] = r[3] \div 10
  <2>1. Leaves(S3(q), C3(q), S3(q) - 10 * C3(q), 10 * k)
    BY <1>1, <1>2, <1>7, SplitAt, Zenon
  <2> QED
    BY <1>4, <1>5, <2>1, Zenon DEF Leaves
<1>12. d[5] = r[4] % 10 /\ r[5] = r[4] \div 10
  BY <1>1, <1>4, <1>5
<1>13. \A i \in 1 .. 5 : d[i] = r[i - 1] % 10 /\ r[i] = r[i - 1] \div 10
  <2>1. \A i \in 1 .. 5 : i \in {1, 2, 3, 4, 5}
    OBVIOUS
  <2> SUFFICES ASSUME NEW i \in {1, 2, 3, 4, 5}
               PROVE  d[i] = r[i - 1] % 10 /\ r[i] = r[i - 1] \div 10
    BY <2>1
  <2> QED
    BY <1>8, <1>9, <1>10, <1>11, <1>12
<1> QED
  BY <1>3, <1>6, <1>13 DEF SpellsBy, d, r

(* put_dec_trunc leaves out the zeros in front, but not the last digit. *)
LEMMA TruncSpells ==
  ASSUME NEW q \in 0 .. Group - 1
  PROVE  /\ Spells(PutDecTrunc(q), q, 0)
         /\ Len(PutDecTrunc(q)) \in 1..5
         /\ Len(PutDecTrunc(q)) > 1 \/ q # 0 => PutDecTrunc(q)[Len(PutDecTrunc(q))] # 0
<1> DEFINE d == PutDecFull(q)
           r == Rests(q, 0)
           n == IF S1(q) = 0 THEN 1
                ELSE IF S2(q) = 0 /\ N3(q) = 0 THEN 2
                ELSE IF S3(q) = 0 THEN 3
                ELSE IF C3(q) = 0 THEN 4 ELSE 5
           t == SubSeq(d, 1, n)
<1>1. PutDecTrunc(q) = t
  BY DEF PutDecTrunc
<1>2. SpellsBy(d, r) /\ Len(d) = 5
  BY FullSpells
<1>3. /\ Split(L1(q), L2(q), S1(q) - 10 * C1(q)) /\ Split(L2(q), S3(q), S2(q) - 10 * C2(q))
      /\ Split(S3(q), C3(q), S3(q) - 10 * C3(q)) /\ Split(q, L1(q), S0(q) - 10 * C0(q))
      /\ C3(q) \in 0..9
      /\ (S1(q) = 0) <=> (L1(q) = 0)
      /\ (S2(q) = 0 /\ N3(q) = 0) <=> (L2(q) = 0)
  BY SumsAre
<1>4. /\ d[1] = S0(q) - 10 * C0(q) /\ d[2] = S1(q) - 10 * C1(q) /\ d[3] = S2(q) - 10 * C2(q)
      /\ d[4] = S3(q) - 10 * C3(q) /\ d[5] = C3(q)
  BY DEF PutDecFull
<1>5. /\ r[0] = q /\ r[1] = L1(q) /\ r[2] = L2(q) /\ r[3] = S3(q) /\ r[4] = C3(q) /\ r[5] = 0
  <2>1. /\ r[0] = q + 10 * (10 * (10 * (10 * (10 * 0))))
        /\ r[1] = L1(q) + 10 * (10 * (10 * (10 * 0))) /\ r[2] = L2(q) + 10 * (10 * (10 * 0))
        /\ r[3] = S3(q) + 10 * (10 * 0) /\ r[4] = C3(q) + 10 * 0 /\ r[5] = 0
    BY DEF Rests
  <2>2. q \in Nat /\ L1(q) \in Nat /\ L2(q) \in Nat /\ S3(q) \in Nat /\ C3(q) \in Nat
    <3>1. q \in Nat
      BY Nibbles
    <3> QED
      BY <1>3, <3>1 DEF Split
  <2> HIDE DEF r
  <2> QED
    BY <2>1, <2>2
<1>6. n \in 1..5 /\ r[n] = 0 /\ (n > 1 \/ q # 0 => d[n] # 0)
  <2> HIDE DEF d, r
  <2>1. CASE L1(q) = 0
    <3>1. n = 1
      BY <1>3, <2>1
    <3>2. q # 0 => S0(q) - 10 * C0(q) # 0
      BY <1>3, <2>1 DEF Split
    <3> HIDE DEF n
    <3> QED
      BY <1>4, <1>5, <2>1, <3>1, <3>2
  <2>2. CASE L1(q) # 0 /\ L2(q) = 0
    <3>1. n = 2
      BY <1>3, <2>2
    <3>2. S1(q) - 10 * C1(q) # 0
      BY <1>3, <2>2 DEF Split
    <3> HIDE DEF n
    <3> QED
      BY <1>4, <1>5, <2>2, <3>1, <3>2
  <2>3. CASE L1(q) # 0 /\ L2(q) # 0 /\ S3(q) = 0
    <3>1. n = 3
      BY <1>3, <2>3
    <3>2. S2(q) - 10 * C2(q) # 0
      BY <1>3, <2>3 DEF Split
    <3> HIDE DEF n
    <3> QED
      BY <1>4, <1>5, <2>3, <3>1, <3>2
  <2>4. CASE L1(q) # 0 /\ L2(q) # 0 /\ S3(q) # 0 /\ C3(q) = 0
    <3>1. n = 4
      BY <1>3, <2>4
    <3>2. S3(q) - 10 * C3(q) # 0
      BY <1>3, <2>4 DEF Split
    <3> HIDE DEF n
    <3>3. r[n] = 0
      BY <1>5, <2>4, <3>1, Zenon
    <3>4. d[n] # 0
      BY <1>4, <3>1, <3>2, Zenon
    <3> QED
      BY <3>1, <3>3, <3>4
  <2>5. CASE L1(q) # 0 /\ L2(q) # 0 /\ S3(q) # 0 /\ C3(q) # 0
    <3>1. n = 5
      BY <1>3, <2>5
    <3>2. C3(q) # 0
      BY <1>3, <2>5 DEF Split
    <3> HIDE DEF n
    <3> QED
      BY <1>4, <1>5, <2>5, <3>1, <3>2
  <2> QED
    BY <2>1, <2>2, <2>3, <2>4, <2>5
<1> HIDE DEF d, r, n
<1>7. Spells(t, r[0], r[n]) /\ Len(t) = n /\ (n > 0 => t[n] = d[n])
  <2>1. n \in 0 .. Len(d)
    BY <1>2, <1>6
  <2> QED
    BY <1>2, <2>1, SpellsPrefix, Zenon
<1> QED
  BY <1>1, <1>5, <1>6, <1>7

(* put_dec_full alone: all the digits, and nothing left. *)
LEMMA FullIsDenoted ==
  ASSUME NEW q \in 0 .. Group - 1
  PROVE  Denotes(PutDecFull(q), q)
<1> DEFINE r == Rests(q, 0)
<1>1. SpellsBy(PutDecFull(q), r) /\ Len(PutDecFull(q)) = 5
  BY FullSpells
<1>2. q \in Nat
  BY Nibbles
<1>3. r[0] = q /\ r[5] = 0
  <2>1. r[0] = q + 10 * (10 * (10 * (10 * (10 * 0)))) /\ r[5] = 0
    BY DEF Rests
  <2> HIDE DEF r
  <2> QED
    BY <1>2, <2>1
<1>4. Spells(PutDecFull(q), q, 0)
  BY <1>1, <1>3, Zenon DEF Spells
<1> QED
  BY <1>2, <1>4, SpellsDenotes

(* One turn of put_dec's loop. *)
LEMMA GroupSpells ==
  ASSUME NEW n \in Nat
  PROVE  /\ n \div Group \in Nat /\ n % Group \in 0 .. Group - 1
         /\ n >= Group => n \div Group < n /\ n \div Group # 0
         /\ Spells(PutDecFull(n % Group), n, n \div Group)
<1> DEFINE k == n \div Group
           q == n % Group
           r == Rests(q, k)
<1>1. \A x \in Nat, c \in Nat \ {0} :
        x \div c \in Nat /\ x % c \in 0 .. c - 1 /\ x = c * (x \div c) + (x % c)
  BY SMT
<1>2. Group \in Nat \ {0}
  BY GroupIs
<1>3. k \in Nat /\ q \in 0 .. Group - 1 /\ n = Group * k + q
  BY <1>1, <1>2, Zenon
<1> HIDE DEF k, q
<1>4. q \in Nat
  BY <1>3, Nibbles
<1>5. n = q + 10 * (10 * (10 * (10 * (10 * k))))
  <2>1. \A x \in Nat : (10 * 10 * 10 * 10 * 10) * x = 10 * (10 * (10 * (10 * (10 * x))))
    BY SMT
  <2>2. Group * k = 10 * (10 * (10 * (10 * (10 * k))))
    BY <1>3, <2>1, Zenon DEF Group
  <2> DEFINE g == Group * k
  <2>3. g \in Nat /\ n = g + q
    BY <1>2, <1>3, <1>4
  <2>4. g = 10 * (10 * (10 * (10 * (10 * k))))
    BY <2>2
  <2> HIDE DEF g
  <2> QED
    BY <1>4, <2>3, <2>4
<1>6. SpellsBy(PutDecFull(q), r) /\ Len(PutDecFull(q)) = 5
  BY <1>3, FullSpells
<1>7. r[0] = n /\ r[5] = k
  <2>1. r[0] = q + 10 * (10 * (10 * (10 * (10 * k)))) /\ r[5] = k
    BY DEF Rests
  <2> QED
    BY <1>5, <2>1, Zenon
<1>8. Spells(PutDecFull(q), n, k)
  BY <1>6, <1>7, Zenon DEF Spells
<1>9. n >= Group => k < n /\ k # 0
  <2>1. \A c \in Nat : k < 1 => c * k = 0
    BY <1>3
  <2> QED
    BY <1>2, <1>3, <1>4, <1>5, <2>1
<1> QED
  BY <1>3, <1>8, <1>9 DEF k, q

(* put_dec writes every number of any size: group after group is taken off at the low end, and
   what is left has its leading digit in front. *)
THEOREM NumbersAlwaysRight ==
  ASSUME NEW num \in Nat
  PROVE  Numeral(PutDec(num), num)
<1> DEFINE G == {x \in Splitting : x.num >= Group}
           step == [x \in Splitting |-> [num |-> x.num \div Group,
                                         digits |-> x.digits \o PutDecFull(x.num % Group)]]
           m == [x \in Splitting |-> x.num]
           I == {x \in Splitting : Spells(x.digits, num, x.num) /\ (x.digits # <<>> => x.num # 0)}
           s0 == [num |-> num, digits |-> <<>>]
           s == Loop(Splitting, G, step, s0)
           t == PutDecTrunc(s.num)
<1>1. ASSUME NEW x \in Splitting, x \in G
      PROVE  /\ step[x] \in Splitting /\ m[step[x]] < m[x]
             /\ x \in I => step[x] \in I
  <2>1. x.num \in Nat /\ x.digits \in Seq(0..9) /\ x.num >= Group
    BY <1>1 DEF Splitting
  <2>2. /\ x.num \div Group \in Nat /\ x.num \div Group < x.num /\ x.num \div Group # 0
        /\ Spells(PutDecFull(x.num % Group), x.num, x.num \div Group)
    BY <2>1, GroupSpells
  <2>3. PutDecFull(x.num % Group) \in Seq(0..9)
    BY <2>2 DEF Spells, SpellsBy
  <2>4. x.digits \o PutDecFull(x.num % Group) \in Seq(0..9)
    BY <2>1, <2>3, ConcatProperties
  <2> DEFINE y == [num |-> x.num \div Group, digits |-> x.digits \o PutDecFull(x.num % Group)]
  <2>5. step[x] = y
    OBVIOUS
  <2>6. /\ y \in Splitting /\ y.num = x.num \div Group
        /\ y.digits = x.digits \o PutDecFull(x.num % Group)
    BY <2>2, <2>4, Zenon DEF Splitting
  <2> HIDE DEF y, step
  <2>7. m[step[x]] < m[x]
    BY <2>2, <2>5, <2>6
  <2>8. ASSUME x \in I PROVE y \in I
    <3>1. Spells(x.digits, num, x.num)
      BY <2>8
    <3>2. Spells(y.digits, num, y.num)
      BY <2>2, <2>6, <3>1, SpellsAppend, Zenon
    <3> QED
      BY <2>2, <2>6, <3>2
  <2> HIDE DEF I
  <2> QED
    BY <2>5, <2>6, <2>7, <2>8
<1>2. Measured(Splitting, G, step, m)
  <2>1. m \in [Splitting -> Nat]
    BY DEF Splitting
  <2> HIDE DEF m, step, G
  <2> QED
    BY <1>1, <2>1 DEF Measured
<1>3. s0 \in I
  <2>1. s0 \in Splitting /\ s0.num = num /\ s0.digits = <<>>
    BY EmptySeq DEF Splitting
  <2>2. Spells(<<>>, num, num)
    <3>1. SpellsBy(<<>>, [i \in 0..0 |-> num])
      BY EmptySeq DEF SpellsBy
    <3> QED
      BY <3>1, EmptySeq DEF Spells
  <2> HIDE DEF s0
  <2> QED
    BY <2>1, <2>2
<1>4. s \in I \ G
  <2>1. I \in SUBSET Splitting /\ \A x \in I : x \in G => step[x] \in I
    BY <1>1
  <2> HIDE DEF I, G, step, m, s0
  <2> QED
    BY <1>2, <1>3, <2>1, LoopResult, Zenon
<1> HIDE DEF s
<1>5. /\ s.num \in 0 .. Group - 1 /\ s.digits \in Seq(0..9) /\ Spells(s.digits, num, s.num)
      /\ (s.digits # <<>> => s.num # 0)
  <2>1. /\ s \in Splitting /\ ~(s.num >= Group) /\ Spells(s.digits, num, s.num)
        /\ (s.digits # <<>> => s.num # 0)
    BY <1>4
  <2> QED
    <3>1. s.num \in Nat /\ s.digits \in Seq(0..9)
      BY <2>1, Zenon DEF Splitting
    <3>2. Group \in Nat
      BY GroupIs
    <3> QED
      BY <2>1, <3>1, <3>2
<1>6. /\ Spells(t, s.num, 0) /\ Len(t) \in 1..5
      /\ Len(t) > 1 \/ s.num # 0 => t[Len(t)] # 0
  BY <1>5, TruncSpells
<1> HIDE DEF t
<1>7. Spells(s.digits \o t, num, 0)
  BY <1>5, <1>6, SpellsAppend, Zenon
<1>8. Denotes(s.digits \o t, num)
  BY <1>7, SpellsDenotes
<1>9. t \in Seq(0..9) /\ Len(t) \in Nat
  BY <1>6, LenProperties DEF Spells, SpellsBy
<1>10. Len(s.digits) \in Nat /\ (Len(s.digits) > 0 => s.digits # <<>>)
  BY <1>5, LenProperties, EmptySeq
<1> DEFINE k == Len(s.digits)
           l == Len(t)
           c == s.digits \o t
<1>11. Len(c) = k + l /\ \A i \in 1 .. k + l : c[i] = IF i <= k THEN s.digits[i] ELSE t[i - k]
  BY <1>5, <1>9, ConcatProperties
<1> HIDE DEF c, k, l
<1>12. l \in 1..5 /\ k \in Nat
  BY <1>6, <1>10 DEF k, l
<1>13. c[k + l] = t[l]
  <2>1. k + l \in 1 .. k + l /\ ~(k + l <= k) /\ (k + l) - k = l
    BY <1>12
  <2> QED
    BY <1>11, <2>1
<1>14. Len(c) > 0 /\ (Len(c) > 1 => c[Len(c)] # 0)
  <2>1. k + l > 1 => l > 1 \/ k > 0
    BY <1>12
  <2>2. k > 0 => s.num # 0
    BY <1>5, <1>10 DEF k
  <2>3. k + l > 1 => t[l] # 0
    BY <1>6, <2>1, <2>2 DEF l
  <2>4. k + l > 0
    BY <1>12
  <2> QED
    BY <1>11, <1>13, <2>3, <2>4
<1>15. PutDec(num) = c
  BY Zenon DEF PutDec, s, t, c
<1> QED
  BY <1>8, <1>14, <1>15 DEF Numeral, c

-----------------------------------------------------------------------------
(* What is proved of the calls.                                            *)

Called ==
  /\ probe.of = "wide" => probe.n \in Word
  /\ probe.of = "move" => /\ probe.d \in 1..Cells /\ probe.s \in 1..Cells /\ probe.n \in 0..Cells
                          /\ probe.d + probe.n <= Cells + 1 /\ probe.s + probe.n <= Cells + 1
  /\ probe.of = "decimal" => probe.n \in 0..999

LEMMA AlwaysCalled == CallsSpec => []Called
<1>1. (\E r \in {"wide", "move", "decimal", "compare", "find", "split", "string"} : Ready(r)) => Called
  BY DEF Ready, Called
<1>2. Called /\ [Calls]_probe => Called'
  <2> SUFFICES ASSUME Called, [Calls]_probe PROVE Called'
    OBVIOUS
  <2>1. CASE DivideWide
    BY <2>1 DEF DivideWide, Called
  <2>2. CASE Move
    BY <2>2 DEF Move, Called
  <2>3. CASE Show
    BY <2>3 DEF Show, Called
  <2>4. CASE Compare
    <3>1. PICK s, t \in Texts(Alphabet, MaxText) : probe' = [of |-> "compare", s |-> s, t |-> t]
      BY <2>4, Zenon DEF Compare
    <3>2. probe'.of = "compare"
      BY <3>1, Zenon
    <3> QED
      BY <3>2 DEF Called
  <2>5. CASE Describe
    <3>1. PICK u \in Texts(CodeUnits, MaxUnits), a \in Schedules, known \in BOOLEAN,
               broken \in BOOLEAN, junk \in {0, 65} :
            probe' = [of |-> "string", u |-> u, a |-> a, known |-> known, broken |-> broken,
                      junk |-> junk]
      BY <2>5, Zenon DEF Describe
    <3>2. probe'.of = "string"
      BY <3>1, Zenon
    <3> QED
      BY <3>2 DEF Called
  <2>6. CASE Find
    <3>1. PICK s \in Texts(Symbols, MaxLine), t \in Texts(Symbols, MaxText) :
            probe' = [of |-> "find", s |-> s, t |-> t]
      BY <2>6, Zenon DEF Find
    <3>2. probe'.of = "find"
      BY <3>1, Zenon
    <3> QED
      BY <3>2 DEF Called
  <2>7. CASE Tokenize
    <3>1. PICK s \in Texts(Symbols \cup Delimiters, MaxLine), f \in {"strtok", "strsep"} :
            probe' = [of |-> "split", s |-> s, by |-> f, mem |-> Laid(s, <<>>), out |-> <<>>,
                      done |-> FALSE, arg |-> 1, rest |-> IF f = "strtok" THEN NULL ELSE 1]
      BY <2>7, Zenon DEF Tokenize
    <3>2. probe'.of = "split"
      BY <3>1, Zenon
    <3> QED
      BY <3>2 DEF Called
  <2>8. CASE AskToken
    <3>1. probe'.of = "split"
      BY <2>8, Zenon DEF AskToken
    <3> QED
      BY <3>1 DEF Called
  <2>9. CASE UNCHANGED probe
    BY <2>9 DEF Called
  <2> QED
    BY <2>1, <2>2, <2>3, <2>4, <2>5, <2>6, <2>7, <2>8, <2>9 DEF Calls
<1> QED
  BY <1>1, <1>2, PTL DEF CallsSpec

(* do_div: quotient and remainder of every double word by every word. *)
THEOREM WideDivisionAlwaysExact == CallsSpec => []WideDivisionExact
<1>1. Called => WideDivisionExact
  <2> SUFFICES ASSUME Called, probe.of = "wide", NEW lo \in Word, NEW d \in Divisors
               PROVE  LET n == probe.n * Values + lo
                      IN DoDiv(n, d) = [quot |-> n \div d, rem |-> n % d]
    BY DEF WideDivisionExact
  <2>1. probe.n \in Word /\ d \in Word \ {0}
    BY CallsAssumption DEF Called
  <2>2. probe.n * Values + lo \in DoubleWord
    <3> DEFINE h == probe.n
               v == Values
    <3>1. /\ h \in Nat /\ h < v /\ lo \in Nat /\ lo < v /\ v \in Nat /\ Wide = v * v
          /\ DoubleWord = 0 .. Wide - 1 /\ Wide \in Nat
      BY <2>1, WideIs DEF Wide
    <3> HIDE DEF h, v
    <3>2. h * v + v <= v * v /\ h * v \in Nat
      BY <3>1, ProductGrows, Products
    <3>3. h * v + lo \in DoubleWord
      BY <3>1, <3>2
    <3> QED
      BY <3>3 DEF h, v
  <2> QED
    BY <2>1, <2>2, DoDivDivides
<1> QED
  BY <1>1, AlwaysCalled, PTL

(* memmove, memcpy, bcopy and memset on an area of any size, moved within itself. *)
THEOREM MovesAlwaysExact == CallsSpec => []MovesExact
<1>1. Called => MovesExact
  <2> DEFINE mem == [a \in 1..Cells |-> a]
             d == probe.d
             s == probe.s
             n == probe.n
  <2> SUFFICES ASSUME Called, probe.of = "move"
               PROVE  MovesRight(mem, d, s, n) /\ FillsRight(mem, d, Bytes + 77, n)
    BY Zenon DEF MovesExact
  <2>1. /\ d \in Int /\ s \in Int /\ s >= 1 /\ n \in Nat /\ s + n <= Cells + 1 /\ Cells \in Nat
    BY CallsAssumption DEF Called
  <2>2. IsMemory(mem)
    <3>1. DOMAIN mem = 1..Cells /\ 1..Cells \subseteq Int
      BY <2>1
    <3> QED
      BY <3>1 DEF IsMemory
  <2>3. Holds(mem, s, n)
    <3> HIDE DEF s, n
    <3>1. s .. s + n - 1 \subseteq 1..Cells
      BY <2>1
    <3> QED
      BY <3>1 DEF Holds
  <2> HIDE DEF mem, d, s, n
  <2> QED
    BY <2>1, <2>2, <2>3, MovesAlwaysRight, FillsAlwaysRight
<1> QED
  BY <1>1, AlwaysCalled, PTL

(* put_dec, put_dec_full and put_dec_trunc: the decimal digits, for whatever stands before the
   last five. *)
THEOREM DecimalAlwaysExact == CallsSpec => []DecimalExact
<1>1. Called => DecimalExact
  <2> SUFFICES ASSUME Called, probe.of = "decimal", NEW r \in 0..99
               PROVE  LET q == 100 * probe.n + r
                      IN /\ Numeral(PutDecTrunc(q), q)
                         /\ Denotes(PutDecFull(q), q) /\ Len(PutDecFull(q)) = 5
                         /\ \A h \in Heads : Numeral(PutDec(Group * h + q), Group * h + q)
    BY DEF DecimalExact
  <2> DEFINE q == 100 * probe.n + r
             t == PutDecTrunc(q)
  <2>1. q \in 0 .. Group - 1
    <3> DEFINE m == probe.n
    <3>0. m \in 0..999
      BY Zenon DEF Called
    <3> HIDE DEF m
    <3>1. m \in Nat /\ m <= 999 /\ r \in Nat /\ r <= 99
      BY <3>0
    <3>2. 100 * m + r \in Nat /\ 100 * m + r < 10 * 10 * 10 * 10 * 10
      BY <3>1
    <3>3. Group \in Nat /\ 100 * m + r < Group
      BY <3>2, GroupIs, Zenon DEF Group
    <3> DEFINE x == 100 * m + r
    <3>4. x \in Nat /\ x < Group
      BY <3>2, <3>3
    <3> HIDE DEF x
    <3>5. x \in 0 .. Group - 1
      BY <3>3, <3>4
    <3> QED
      BY <3>5 DEF m, x
  <2> HIDE DEF q
  <2>2. q \in Nat
    BY <2>1, Nibbles
  <2>3. Numeral(t, q)
    <3>1. /\ Spells(t, q, 0) /\ Len(t) \in 1..5 /\ (Len(t) > 1 => t[Len(t)] # 0)
      BY <2>1, TruncSpells
    <3>2. Denotes(t, q)
      BY <2>2, <3>1, SpellsDenotes
    <3> HIDE DEF t
    <3>3. \A x \in 1..5 : x > 0
      OBVIOUS
    <3>4. Len(t) > 0
      BY <3>1, <3>3, Zenon
    <3> QED
      BY <3>1, <3>2, <3>4, Zenon DEF Numeral
  <2>4. Denotes(PutDecFull(q), q) /\ Len(PutDecFull(q)) = 5
    <3>1. 0 \in Nat
      OBVIOUS
    <3>2. Len(PutDecFull(q)) = 5
      BY <2>1, <3>1, FullSpells, Zenon
    <3> QED
      BY <2>1, <3>2, FullIsDenoted
  <2>5. ASSUME NEW h \in Heads PROVE Numeral(PutDec(Group * h + q), Group * h + q)
    <3>1. h \in Nat /\ Group \in Nat
      BY CallsAssumption, GroupIs
    <3>2. Group * h + q \in Nat
      BY <2>2, <3>1, Products
    <3> QED
      BY <3>2, NumbersAlwaysRight
  <2> QED
    BY <2>3, <2>4, <2>5 DEF q
<1> QED
  BY <1>1, AlwaysCalled, PTL
=============================================================================
