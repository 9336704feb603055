------------------------------ MODULE CStrings ------------------------------
(***************************************************************************)
(* The string functions and the searches of string.c, on a memory as in     *)
(* Memory: a string at p is the bytes from p up to a 0, and 0 as a pointer  *)
(* is NULL.  Each function returns the memory it leaves or the pointer it   *)
(* returns, or both.                                                        *)
(***************************************************************************)
EXTENDS Memory, FiniteSets, Loops

NULL == 0

(* How often a loop goes round that counts and goes on at the counts in more. *)
Onward == [k \in Nat |-> k + 1]
Rounds(more) == Loop(Nat, more, Onward, 0)

(* strlen and strnlen *)
Strlen(mem, s) == Rounds({k \in Nat : mem[s + k] # 0})
Strnlen(mem, s, count) == Rounds({k \in Nat : k < count /\ mem[s + k] # 0})

(* strcpy and strncpy stop behind the 0 they copy; strncpy does not pad. *)
Copied(mem, dest, src, k) == CopyUp(mem, dest, src, k, 1)
Counted(mem, dest, src, count) ==
  Rounds({k \in Nat : k < count /\ Copied(mem, dest, src, k)[src + k] # 0})

Strcpy(mem, dest, src) ==
  Copied(mem, dest, src, Rounds({k \in Nat : Copied(mem, dest, src, k)[src + k] # 0}) + 1)
Strncpy(mem, dest, src, count) ==
  LET n == Counted(mem, dest, src, count)
  IN Copied(mem, dest, src, IF n = count THEN n ELSE n + 1)

Strcat(mem, dest, src) == Strcpy(mem, dest + Strlen(mem, dest), src)

(* Seeded fault: strncat leaves the result of a full copy without its 0. *)
CatUnterminated(mem, dest, src, count) ==
  Strncpy(mem, dest + Strlen(mem, dest), src, count)

(* strncat: a 0 after the last byte counted. *)
Strncat(mem, dest, src, count) ==
  LET end == dest + Strlen(mem, dest)
      m == Strncpy(mem, end, src, count)
  IN IF count # 0 /\ Counted(mem, end, src, count) = count THEN [m EXCEPT ![end + count] = 0] ELSE m

(* The result of strcmp and strncmp is kept in a signed char. *)
SignedChar(x) == ((x + Bytes \div 2) % Bytes) - Bytes \div 2
Compared(mem, cs, ct, k) == SignedChar(mem[cs + k] - mem[ct + k])

(* Seeded fault: the end of the first string is looked for one character ahead. *)
ComparePast(mem, cs, ct, count) ==
  LET k == Rounds({i \in Nat : i < count /\ mem[cs + i] = mem[ct + i] /\ mem[cs + i + 1] # 0})
  IN IF k = count THEN 0 ELSE Compared(mem, cs, ct, k)

(* strncmp goes on while the characters are equal, not the final 0 and within the limit; no
   string is longer than the memory. *)
Strncmp(mem, cs, ct, count) ==
  LET k == Rounds({i \in Nat : i < count /\ mem[cs + i] = mem[ct + i] /\ mem[cs + i] # 0})
  IN IF k = count THEN 0 ELSE Compared(mem, cs, ct, k)
Strcmp(mem, cs, ct) == Strncmp(mem, cs, ct, Cardinality(DOMAIN mem))

(* memcmp: the first difference of unsigned bytes. *)
Memcmp(mem, cs, ct, count) ==
  LET k == Rounds({i \in Nat : i < count /\ mem[cs + i] = mem[ct + i]})
  IN IF k = count THEN 0 ELSE mem[cs + k] - mem[ct + k]

(* strchr finds the 0 as well; strrchr searches from it downwards. *)
Strchr(mem, s, c) ==
  LET k == Rounds({i \in Nat : mem[s + i] # c % Bytes /\ mem[s + i] # 0})
  IN IF mem[s + k] = c % Bytes THEN s + k ELSE NULL
Strrchr(mem, s, c) ==
  LET n == Strlen(mem, s)
      k == Rounds({i \in Nat : i <= n /\ mem[s + n - i] # c % Bytes})
  IN IF k <= n THEN s + n - k ELSE NULL

(* memchr and memscan: not found is NULL for the one, the end of the area for the other. *)
Memscan(mem, addr, c, size) == addr + Rounds({i \in Nat : i < size /\ mem[addr + i] # c})
Memchr(mem, s, c, n) ==
  LET p == Memscan(mem, s, c % Bytes, n) IN IF p = s + n THEN NULL ELSE p

(* strstr: memcmp at each place from which the second string still fits. *)
Strstr(mem, s1, s2) ==
  LET l1 == Strlen(mem, s1)
      l2 == Strlen(mem, s2)
      k == Rounds({i \in Nat : i + l2 <= l1 /\ Memcmp(mem, s1 + i, s2, l2) # 0})
  IN IF l2 = 0 THEN s1 ELSE IF k + l2 <= l1 THEN s1 + k ELSE NULL

(* strspn and strpbrk, with the second string as the set of its characters. *)
Strspn(mem, s, accept) == Rounds({k \in Nat : mem[s + k] # 0 /\ mem[s + k] \in accept})
Strpbrk(mem, cs, ct) ==
  LET k == Rounds({i \in Nat : mem[cs + i] # 0 /\ mem[cs + i] \notin ct})
  IN IF mem[cs + k] = 0 THEN NULL ELSE cs + k
(* strtok: rest is the static ___strtok; s is NULL to go on.  The delimiter behind the token
   is overwritten, and rest is where the next call goes on. *)
Strtok(mem, rest, s, ct) ==
  LET from == IF s # NULL THEN s ELSE rest
      begin == from + Strspn(mem, from, ct)
      end == Strpbrk(mem, begin, ct)
  IN IF from = NULL THEN [token |-> NULL, mem |-> mem, rest |-> rest]
     ELSE IF mem[begin] = 0 THEN [token |-> NULL, mem |-> mem, rest |-> NULL]
     ELSE IF end = NULL THEN [token |-> begin, mem |-> mem, rest |-> NULL]
     ELSE [token |-> begin, mem |-> [mem EXCEPT ![end] = 0], rest |-> end + 1]

(* Seeded fault: the delimiter is left in the string. *)
SepKept(mem, s, ct) ==
  LET end == Strpbrk(mem, s, ct)
  IN IF s = NULL THEN [token |-> NULL, mem |-> mem, rest |-> NULL]
     ELSE [token |-> s, mem |-> mem, rest |-> IF end = NULL THEN NULL ELSE end + 1]
(* strsep: the same without skipping, so that tokens may be empty. *)
Strsep(mem, s, ct) ==
  LET end == Strpbrk(mem, s, ct)
  IN IF s = NULL THEN [token |-> NULL, mem |-> mem, rest |-> NULL]
     ELSE IF end = NULL THEN [token |-> s, mem |-> mem, rest |-> NULL]
     ELSE [token |-> s, mem |-> [mem EXCEPT ![end] = 0], rest |-> end + 1]

(* strswab: the bytes of each pair before the end change places.  No pair meets another, so
   all are exchanged at once. *)
Strswab(mem, s) ==
  LET n == Rounds({k \in Nat : mem[s + 2 * k] # 0 /\ mem[s + 2 * k + 1] # 0})
  IN [a \in DOMAIN mem |->
        IF a - s \in 0 .. 2 * n - 1 THEN mem[IF (a - s) % 2 = 0 THEN a + 1 ELSE a - 1] ELSE mem[a]]
=============================================================================
