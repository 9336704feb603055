----------------------------- MODULE MCLibrary -----------------------------
(***************************************************************************)
(* The library routines against what they are to compute.  A step picks one *)
(* routine and an input, or a row of inputs; the invariants compare the     *)
(* routine with its definition for that input.                              *)
(***************************************************************************)
EXTENDS LibraryCalls, ArmArithmetic, FiniteSets, Sequences, SequencesExt

CONSTANTS ShortBits, IntBits, NumBits

V == INSTANCE Vsprintf

Routines == {"divide", "wide", "shift", "decimal", "read", "format", "move", "find", "compare",
             "split", "string"}
Init == \E r \in Routines : Ready(r)

(* Division and shifts: one dividend, or one high word. *)
Divide == \E n \in Word : probe' = [of |-> "divide", n |-> n]
Shift == \E n \in Word : probe' = [of |-> "shift", n |-> n]

(* Formatting: one directive; reading: 64 numbers. *)
Read == \E n \in 0 .. 2^IntBits \div 64 - 1 : probe' = [of |-> "read", n |-> n]
Format ==
  \E conv \in {"d", "u", "x", "X", "o"}, q \in {"", "h", "l", "L", "t", "z"},
     flags \in SUBSET {"LEFT", "ZEROPAD", "PLUS", "SPECIAL"},
     width \in {<<"none">>, <<"is", 6>>, <<"star">>}, precision \in {<<"none">>, <<"is", 4>>} :
    /\ (conv = "d") => q # "z"
    /\ (conv # "d") => q # "t"
    /\ probe' = [of |-> "format", flags |-> flags, width |-> width, precision |-> precision,
                 qualifier |-> q, conv |-> conv]

(* Code units, one of them with a control character and one that is no byte; nine answers,
   and then the same again. *)
MCUnits == {<<65, 0>>, <<7, 0>>, <<65, 4>>}
MCSchedules == {a \o a : a \in [1..9 -> BOOLEAN]}

Next ==
  \/ Calls \/ (Ready("divide") /\ Divide) \/ (Ready("shift") /\ Shift)
  \/ (Ready("read") /\ Read) \/ (Ready("format") /\ Format)

Spec == Init /\ [][Next]_probe

(* Words as signed numbers, and division that truncates. *)
Signed(x) == IF x >= Top THEN x - 2^W ELSE x
Abs(x) == IF x < 0 THEN -x ELSE x
Truncated(n, d) == LET q == Abs(n) \div Abs(d) IN IF n < 0 <=> d < 0 THEN q ELSE -q

(* Division of words is division, for every dividend and divisor: the quotient and what
   multiplying back leaves, signed ones truncated towards 0 and the most negative number by
   -1 wrapped.  __umodsi3 is exact for quotients of less than W - 3 bits. *)
DivisionExact ==
  probe.of = "divide" =>
    /\ \A d \in Word \ {0} :
         LET n == probe.n
             q == Truncated(Signed(n), Signed(d))
         IN /\ UDiv(n, d) = n \div d
            /\ ModOf(n, d, UDiv(n, d)) = n % d
            /\ n \div d < 2^(W - 3) => UMod(n, d) = n % d
            /\ SDiv(n, d) = q % 2^W
            /\ SMod(n, d) = (Signed(n) - q * Signed(d)) % 2^W
            /\ ModOf(n, d, SDiv(n, d)) = SMod(n, d)
    /\ \A k \in 0..30 : Order(2^k) = k

(* Shifts of a double word are multiplication and division by a power of two, for every
   count from 0 to the last bit, with the sign kept by the arithmetic one. *)
ShiftExact ==
  probe.of = "shift" =>
    \A lo \in {0, 1, 2^W - 1, Top, Top - 1, 85}, k \in 0 .. 2 * W - 1 :
      LET x == probe.n * 2^W + lo
          pair(y) == <<y \div 2^W, y % 2^W>>
          signed == IF probe.n >= Top THEN x - 4^W ELSE x
      IN /\ Ashldi3(probe.n, lo, k) = pair((x * 2^k) % 4^W)
         /\ Lshrdi3(probe.n, lo, k) = pair(x \div 2^k)
         /\ Ashrdi3(probe.n, lo, k) = pair((signed \div 2^k) % 4^W)

NumDigits(n, base) == CHOOSE k \in 1..20 : n < base^k /\ (k > 1 => n >= base^(k - 1))

Arguments == {0, 1, 8, 127, 128, 2^ShortBits - 1, 2^(IntBits - 1), 2^IntBits - 1, 2^IntBits + 9,
              100000, 2^(NumBits - 1), 2^NumBits - 1}
BitsOf(q) == IF q = "L" THEN NumBits ELSE IF q = "h" THEN ShortBits ELSE IntBits
BaseFor(conv) == IF conv = "o" THEN 8 ELSE IF conv \in {"x", "X"} THEN 16 ELSE 10
Spaces(s) == Len(SelectSeq(s, LAMBDA c : c = " "))

(* What a directive prints is the number it is given, in the type its qualifier names: a sign
   if there is one to show, the prefix, digits that denote the magnitude, and padding on the
   side the flags ask for up to the width and no further. *)
FieldExact ==
  probe.of = "format" =>
    \A x \in Arguments :
    \A out \in {V!Sprintf(<< <<"%", probe>> >>,
                         IF probe.width = <<"star">> THEN <<-6, x>> ELSE <<x>>)} :
      LET star == probe.width = <<"star">>
          base == BaseFor(probe.conv)
          size == 2^BitsOf(probe.qualifier)
          v == x % size
          value == IF probe.conv = "d" /\ v >= size \div 2 THEN v - size ELSE v
          left == star \/ "LEFT" \in probe.flags
          body == SelectSeq(out, LAMBDA c : c # " ")
          sign == IF value < 0 THEN <<"-">>
                  ELSE IF probe.conv = "d" /\ "PLUS" \in probe.flags THEN <<"+">> ELSE <<>>
          prefix == IF "SPECIAL" \notin probe.flags \/ base = 10 THEN <<>>
                    ELSE IF base = 8 THEN <<"0">> ELSE <<"0", probe.conv>>
          head == sign \o prefix
          digits == SubSeq(body, Len(head) + 1, Len(body))
          denoted == FoldLeft(LAMBDA a, c : a * base + V!DigitOf(c), 0, digits)
          least == LET k == NumDigits(Abs(value), base)
                   IN IF probe.precision # <<"none">> /\ k < 4 THEN 4 ELSE k
          width == IF probe.width = <<"none">> THEN 0 ELSE 6
      IN /\ SubSeq(body, 1, Len(head)) = head
         /\ denoted = Abs(value)
         /\ Len(out) = (IF Len(head) + least < width THEN width ELSE Len(head) + least)
         /\ Len(digits) > least => "ZEROPAD" \in probe.flags /\ ~left
         /\ out = (IF left THEN body \o [i \in 1..Spaces(out) |-> " "]
                   ELSE [i \in 1..Spaces(out) |-> " "] \o body)

(* The parsers read back what number writes, in every base and with its prefix (the upper
   case one of base 16 is not understood), up to the first character that is not part of it;
   a suffix multiplies. *)
ReadsBack ==
  probe.of = "read" =>
    \A r \in 0..63, base \in {8, 10, 16}, type \in SUBSET {"SPECIAL", "SMALL"} :
    \A text \in {V!Number(64 * probe.n + r, base, 0, 0, type)} :
      LET n == 64 * probe.n + r
          given == IF "SPECIAL" \in type THEN 0 ELSE base
          K(x) == (1024 * x) % 2^IntBits
      IN type # {"SPECIAL"} =>
           /\ V!Strtoul(text \o <<"x">>, given, IntBits) = [value |-> n, end |-> Len(text)]
           /\ V!Strtol(<<"-">> \o text, given) =
                [value |-> (2^IntBits - n) % 2^IntBits, end |-> Len(text) + 1]
           /\ V!UStrtoul(text \o <<"K", "i", "B">>, given) = [value |-> K(n), end |-> Len(text) + 3]
           /\ V!UStrtoul(text \o <<"M">>, given) = [value |-> K(K(n)), end |-> Len(text)]

(* arm/_umodsi3.S:65 "If we terminated early, because dividend became zero, then none of the
   below will match, since the bit in ip will not be in the bottom nibble." *)
EarlyEndNeedsNoFixup ==
  probe.of = "divide" => \A d \in Word \ {0} : UMod(probe.n, d) = probe.n % d
=============================================================================
