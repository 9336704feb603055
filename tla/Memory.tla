------------------------------- MODULE Memory -------------------------------
(***************************************************************************)
(* memmove, memcpy, bcopy and memset of string.c.  Memory is a function     *)
(* from addresses to bytes; each function returns the memory it leaves.     *)
(***************************************************************************)
EXTENDS Integers

CONSTANTS
  Bytes,      \* values of a char, 256 in C
  WordBytes   \* sizeof(unsigned long), 4 on ARM

ASSUME MemoryAssumption == Bytes \in Nat \ {0} /\ WordBytes \in Nat \ {0}

(* The loops that copy count units of size bytes upwards: each reads a unit and writes it. *)
CopyUp(mem, dest, src, count, size) ==
  LET after[n \in 0 .. count] ==
        IF n = 0 THEN mem
        ELSE LET m == after[n - 1]
             IN [a \in DOMAIN mem |-> IF a - dest \in (n - 1) * size .. n * size - 1
                                      THEN m[a - dest + src] ELSE m[a]]
  IN after[count]

(* The loop of memmove that copies bytes from the last one downwards. *)
CopyDown(mem, dest, src, count) ==
  LET after[n \in 0 .. count] ==
        IF n = 0 THEN mem
        ELSE LET m == after[n - 1] IN [m EXCEPT ![dest + count - n] = m[src + count - n]]
  IN after[count]

(* The loops of memset: the byte of c in every byte of a unit. *)
FillUp(mem, s, c, count, size) ==
  LET after[n \in 0 .. count] ==
        IF n = 0 THEN mem
        ELSE LET m == after[n - 1]
             IN [a \in DOMAIN mem |-> IF a - s \in (n - 1) * size .. n * size - 1
                                      THEN c % Bytes ELSE m[a]]
  IN after[count]

Bcopy(mem, src, dest, count) == CopyUp(mem, dest, src, count, 1)

(* Seeded fault: always upwards. *)
MoveUp(mem, dest, src, count) == CopyUp(mem, dest, src, count, 1)
Memmove(mem, dest, src, count) ==
  IF dest <= src THEN CopyUp(mem, dest, src, count, 1) ELSE CopyDown(mem, dest, src, count)

(* memcpy and memset: words as long as a whole one is left, if the pointers are aligned;
   then bytes. *)
Aligned(p) == p % WordBytes = 0
Words(count) == count \div WordBytes
InWords(count) == Words(count) * WordBytes

Memcpy(mem, dest, src, count) ==
  IF Aligned(dest) /\ Aligned(src)
  THEN CopyUp(CopyUp(mem, dest, src, Words(count), WordBytes),
              dest + InWords(count), src + InWords(count), count % WordBytes, 1)
  ELSE CopyUp(mem, dest, src, count, 1)

Memset(mem, s, c, count) ==
  IF Aligned(s)
  THEN FillUp(FillUp(mem, s, c, Words(count), WordBytes),
              s + InWords(count), c, count % WordBytes, 1)
  ELSE FillUp(mem, s, c, count, 1)
-----------------------------------------------------------------------------
(* What they are for. *)

Moved(mem, dest, src, count) ==
  [a \in DOMAIN mem |-> IF a - dest \in 0 .. count - 1 THEN mem[a - dest + src] ELSE mem[a]]

Filled(mem, s, c, count) ==
  [a \in DOMAIN mem |-> IF a - s \in 0 .. count - 1 THEN c % Bytes ELSE mem[a]]

(* The destination does not begin inside the source. *)
Apart(dest, src, count) == dest <= src \/ src + count <= dest

(* "Unlike memcpy(), memmove() copes with overlapping areas" (string.c:495); memcpy and bcopy
   are right unless the destination begins inside the source, aligned or not; none touches
   another byte. *)
MovesRight(mem, dest, src, count) ==
  /\ Memmove(mem, dest, src, count) = Moved(mem, dest, src, count)
  /\ Apart(dest, src, count) =>
       /\ Memcpy(mem, dest, src, count) = Moved(mem, dest, src, count)
       /\ Bcopy(mem, src, dest, count) = Moved(mem, dest, src, count)

(* memset fills the bytes it is told to and no other. *)
FillsRight(mem, s, c, count) == Memset(mem, s, c, count) = Filled(mem, s, c, count)
=============================================================================
