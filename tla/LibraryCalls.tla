---------------------------- MODULE LibraryCalls ----------------------------
(***************************************************************************)
(* The routines of Memory, CStrings, Division, Decimal and UsbString: the   *)
(* calls that are made and what they are to compute.                        *)
(***************************************************************************)
EXTENDS Memory, CStrings, Division, Decimal, UsbString

CONSTANTS
  Cells,     \* bytes of an area that is moved within itself
  Divisors,  \* of the divisions of a double word
  Heads,     \* what stands before the last five digits of a number
  Alphabet,  \* the characters of strings that are compared, and
  MaxText,   \*   how many of them one has at most
  Symbols,   \* the characters of strings that are searched, copied and split, and
  MaxLine,   \*   how many of them one has at most
  Delimiters,\*   those between the tokens of a string
  CodeUnits, \* the code units, each of two bytes, and
  MaxUnits,  \*   how many of them a string descriptor has at most
  Schedules, \* which of the messages of a call succeed
  Sizes      \* of the buffer a string is written to

(* A call of usb_string sends at most 18 messages. *)
ASSUME CallsAssumption ==
  /\ Cells \in Nat /\ Divisors \subseteq Word \ {0} /\ Heads \subseteq Nat
  /\ Alphabet \subseteq 1 .. Bytes - 1 /\ MaxText \in Nat
  /\ Symbols \subseteq 1 .. Bytes - 1 /\ Delimiters \subseteq 1 .. Bytes - 1 /\ MaxLine \in Nat
  /\ CodeUnits \subseteq (0..255) \X (0..255)
  /\ MaxAsk \in 4..255 /\ MaxUnits \in Nat /\ 2 * MaxUnits + 2 <= MaxAsk
  /\ Schedules \subseteq [1..18 -> BOOLEAN] /\ Sizes \subseteq Nat \ {0}

VARIABLE probe   \* the routine and its input

Ready(r) == probe = [of |-> "ready", next |-> r]

(* Division of the double words with one high word. *)
DivideWide == \E n \in Word : probe' = [of |-> "wide", n |-> n]

Move == \E d, s \in 1..Cells, n \in 0..Cells :
  d + n <= Cells + 1 /\ s + n <= Cells + 1 /\ probe' = [of |-> "move", d |-> d, s |-> s, n |-> n]

(* Formatting of a hundred numbers. *)
Show == \E n \in 0..999 : probe' = [of |-> "decimal", n |-> n]

(* Strings. *)
Texts(A, n) == UNION {[1..k -> A] : k \in 0..n}
Compare == \E s, t \in Texts(Alphabet, MaxText) : probe' = [of |-> "compare", s |-> s, t |-> t]

Find == \E s \in Texts(Symbols, MaxLine), t \in Texts(Symbols, MaxText) :
  probe' = [of |-> "find", s |-> s, t |-> t]

(* A memory with s at 1, t behind it and room for a copy of both after them. *)
Laid(s, t) ==
  s \o <<0>> \o t \o <<0>> \o [i \in 1 .. Len(s) + Len(t) + 2 |-> 99] \o <<0>>

(* A string is split by calls of strtok or strsep until one returns NULL; out has the tokens
   so far and what they read.  The first call of strtok has the string as its argument. *)
Tokenize == \E s \in Texts(Symbols \cup Delimiters, MaxLine), f \in {"strtok", "strsep"} :
  probe' = [of |-> "split", s |-> s, by |-> f, mem |-> Laid(s, <<>>), out |-> <<>>, done |-> FALSE,
            arg |-> 1, rest |-> IF f = "strtok" THEN NULL ELSE 1]

TextAt(mem, p) == SubSeq(mem, p, p + Strlen(mem, p) - 1)
NextToken ==
  IF probe.by = "strtok" THEN Strtok(probe.mem, probe.rest, probe.arg, Delimiters)
  ELSE Strsep(probe.mem, probe.rest, Delimiters)
AskToken ==
  LET r == NextToken
  IN probe' = [of |-> "split", s |-> probe.s, by |-> probe.by, mem |-> r.mem, arg |-> NULL,
               rest |-> r.rest, done |-> r.token = NULL,
               out |-> IF r.token = NULL THEN probe.out
                       ELSE Append(probe.out, <<r.token, TextAt(r.mem, r.token)>>)]

(* String descriptors: the code units, the messages that succeed, whether the language is
   known, whether the device leaves out the length, and what is left in the buffer. *)
Describe ==
  \E u \in Texts(CodeUnits, MaxUnits), a \in Schedules, known, broken \in BOOLEAN, junk \in {0, 65} :
    probe' = [of |-> "string", u |-> u, a |-> a, known |-> known, broken |-> broken, junk |-> junk]

Calls ==
  \/ Ready("wide") /\ DivideWide
  \/ Ready("move") /\ Move
  \/ Ready("decimal") /\ Show
  \/ Ready("compare") /\ Compare
  \/ Ready("find") /\ Find
  \/ Ready("split") /\ Tokenize
  \/ (probe.of = "split" /\ ~probe.done) /\ AskToken
  \/ Ready("string") /\ Describe
CallsSpec ==
  /\ \E r \in {"wide", "move", "decimal", "compare", "find", "split", "string"} : Ready(r)
  /\ [][Calls]_probe

(* do_div leaves quotient and remainder of a double word by a word, the high word taken off
   first or not, and whatever the doubled divisor runs into. *)
WideDivisionExact ==
  probe.of = "wide" =>
    \A lo \in Word, d \in Divisors :
      LET n == probe.n * Values + lo IN DoDiv(n, d) = [quot |-> n \div d, rem |-> n % d]

(* Copies and fills within an area are right: memmove copes with every overlap, memcpy and
   bcopy with a destination that does not begin inside the source, aligned or not; memset
   fills what it is told to; none touches another byte. *)
MovesExact ==
  probe.of = "move" =>
    LET mem == [a \in 1..Cells |-> a]
    IN /\ MovesRight(mem, probe.d, probe.s, probe.n)
       /\ FillsRight(mem, probe.d, Bytes + 77, probe.n)

(* vsprintf.c:137 "Formats correctly any integer in [0,99999]", and "Always emits five
   digits"; put_dec formats the numbers beyond that, zeros within included. *)
DecimalExact ==
  probe.of = "decimal" =>
    \A r \in 0..99 :
      LET q == 100 * probe.n + r
      IN /\ Numeral(PutDecTrunc(q), q)
         /\ Denotes(PutDecFull(q), q) /\ Len(PutDecFull(q)) = 5
         /\ \A h \in Heads : Numeral(PutDec(Group * h + q), Group * h + q)

Prefix(s, n) == SubSeq(s, 1, IF n < Len(s) THEN n ELSE Len(s))
Ascii(s) == \A i \in DOMAIN s : s[i] < Bytes \div 2
Less(s, t) == \E i \in 1 .. Len(s) + 1 :
  /\ Prefix(s, i - 1) = Prefix(t, i - 1) /\ Len(t) >= i
  /\ Len(s) < i \/ s[i] < t[i]
Agrees(r, s, t) ==
  /\ r = 0 <=> s = t
  /\ Ascii(s) /\ Ascii(t) => (r < 0 <=> Less(s, t))

(* strcmp is 0 for equal strings only, and orders strings of seven-bit characters by their
   first difference; strncmp does so for what its limit leaves of them. *)
CompareOrders ==
  probe.of = "compare" =>
    LET mem == Laid(probe.s, probe.t)
        p == Len(probe.s) + 2
    IN /\ Agrees(Strcmp(mem, 1, p), probe.s, probe.t)
       /\ \A n \in 0 .. MaxText + 1 :
            Agrees(Strncmp(mem, 1, p, n), Prefix(probe.s, n), Prefix(probe.t, n))

(* The least (the greatest) of some places, or 0 if there are none, as NULL stands for none. *)
Lowest(S) == IF S = {} THEN 0 ELSE CHOOSE i \in S : \A j \in S : i <= j
Highest(S) == IF S = {} THEN 0 ELSE CHOOSE i \in S : \A j \in S : i >= j
At(s, C) == {i \in 1..Len(s) : s[i] \in C}
Inside(s, t) == {i \in 1 .. Len(s) + 1 - Len(t) : SubSeq(s, i, i + Len(t) - 1) = t}

(* The memory with some bytes at p. *)
Put(mem, x, p) == [a \in DOMAIN mem |-> IF a - p + 1 \in DOMAIN x THEN x[a - p + 1] ELSE mem[a]]

FindsRight(mem, s, t, p) ==
  /\ Strlen(mem, 1) = Len(s) /\ \A n \in 0 .. MaxText + 1 : Strnlen(mem, 1, n) = Len(Prefix(s, n))
  /\ Strstr(mem, 1, p) = Lowest(Inside(s, t))
  /\ Strchr(mem, 1, 0) = Len(s) + 1 /\ Strrchr(mem, 1, 0) = Len(s) + 1
  /\ \A c \in Symbols :
       /\ Strchr(mem, 1, c) = Lowest(At(s, {c})) /\ Strrchr(mem, 1, c) = Highest(At(s, {c}))
       /\ Memchr(mem, 1, c, Len(s)) = Lowest(At(s, {c}))
       /\ Memscan(mem, 1, c, Len(s)) = Lowest(At(s, {c}) \cup {Len(s) + 1})
  /\ \A C \in SUBSET Symbols :
       /\ Strspn(mem, 1, C) = Lowest(At(s, Symbols \ C) \cup {Len(s) + 1}) - 1
       /\ Strpbrk(mem, 1, C) = Lowest(At(s, C))

CopiesRight(mem, s, t, p, free) ==
  LET copy == Strcpy(mem, free, 1)
  IN /\ copy = Put(mem, s \o <<0>>, free)
     /\ Strcat(copy, free, p) = Put(mem, s \o t \o <<0>>, free)
     /\ \A n \in 0 .. MaxText + 1 :
          /\ Strncpy(mem, free, 1, n) = Put(mem, Prefix(s \o <<0>>, n), free)
          /\ Strncat(copy, free, p, n) = Put(mem, s \o Prefix(t, n) \o <<0>>, free)
     /\ Strswab(mem, 1) =
          Put(mem, [i \in 1 .. 2 * (Len(s) \div 2) |-> s[IF i % 2 = 1 THEN i + 1 ELSE i - 1]], 1)

(* The searches return the first (strrchr: the last) place, or NULL, or the end, when there
   is none; a copy and a concatenation are what they should be, terminated whichever limit
   ends them (strncpy is not), and leave every other byte alone. *)
SearchExact ==
  probe.of = "find" =>
    LET mem == Laid(probe.s, probe.t)
        p == Len(probe.s) + 2
    IN /\ FindsRight(mem, probe.s, probe.t, p)
       /\ CopiesRight(mem, probe.s, probe.t, p, Len(probe.s) + Len(probe.t) + 3)

(* The pieces between the delimiters, each with the place where it begins. *)
Piece(s, D, a, b) ==
  /\ a = 1 \/ s[a - 1] \in D
  /\ b = Len(s) + 1 \/ s[b] \in D
  /\ \A i \in a .. b - 1 : s[i] \notin D
Pieces(s, D) ==
  {<<x[1], SubSeq(s, x[1], x[2] - 1)>> :
     x \in {y \in (1 .. Len(s) + 1) \X (1 .. Len(s) + 1) : y[1] <= y[2] /\ Piece(s, D, y[1], y[2])}}

(* string.c:350 "It returns empty tokens, too": strsep returns the pieces between the
   delimiters, strtok those that are not empty, each once and in their order, whatever
   delimiters come first, last and next to each other. *)
TokensExact ==
  probe.of = "split" /\ probe.done =>
    LET all == Pieces(probe.s, Delimiters)
        out == probe.out
    IN /\ {out[i] : i \in DOMAIN out} =
            (IF probe.by = "strsep" THEN all ELSE {x \in all : x[2] # <<>>})
       /\ \A i, j \in DOMAIN out : i < j => out[i][1] < out[j][1]

(* What a string descriptor says: the units that can be read - those before the first that
   cannot be a character, if the device leaves the length out - and the bytes they become. *)
Plain(unit) == IsPrint(unit[1]) /\ unit[2] = 0
Readable(u, broken) ==
  IF broken THEN CHOOSE n \in 0 .. Len(u) : /\ \A i \in 1..n : Plain(u[i])
                                            /\ n < Len(u) => ~Plain(u[n + 1])
  ELSE Len(u)
Bytewise(u, n) == [i \in 1..n |-> IF u[i][2] # 0 THEN 63 ELSE u[i][1]]
Descriptor(u, broken) ==
  [i \in 1 .. 2 * Len(u) + 2 |->
     IF i = 1 THEN (IF broken THEN 0 ELSE 2 * Len(u) + 2)
     ELSE IF i = 2 THEN (IF broken THEN 0 ELSE 3)
     ELSE u[(i - 1) \div 2][IF i % 2 = 1 THEN 1 ELSE 2]]
Languages == <<4, 3, 9, 4>>
FailsThrice(a) == \E i \in DOMAIN a : i + 2 \in DOMAIN a /\ \A j \in i .. i + 2 : ~a[j]

(* usb_string: what it returns are the characters the device describes, as many as fit into
   the buffer beside the final 0, whatever was in the buffer and whichever messages failed;
   a device that leaves the length out is read up to the first character that cannot be one,
   or on into what was in the buffer.  It fails only if three messages in a row did, or
   nothing can be read. *)
StringFits ==
  probe.of = "string" =>
    LET n == Readable(probe.u, probe.broken)
        text == Bytewise(probe.u, n)
        s == [buf |-> [i \in 1..MaxAsk |-> probe.junk], rc |-> 0, sent |-> 0,
              answers |-> probe.a, have_langid |-> probe.known]
        desc == Descriptor(probe.u, probe.broken)
    IN \A size \in Sizes : \A out \in {UsbString(s, Languages, desc, size)} :
         IF out = Failed THEN FailsThrice(probe.a) \/ (probe.broken /\ n = 0)
         ELSE /\ Len(out) < size /\ Prefix(out, n) = Prefix(text, size - 1)
              /\ ~probe.broken \/ n < Len(probe.u) => Len(out) <= n
=============================================================================
