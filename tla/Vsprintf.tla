------------------------------ MODULE Vsprintf ------------------------------
(***************************************************************************)
(* Formatted output and number parsing (vsprintf.c).  A text is a sequence  *)
(* of characters; a character is a string of length one.  A directive is    *)
(* the record its characters are parsed into, and a format is a sequence of *)
(* characters and directives.  Numbers are unsigned: a negative argument is *)
(* its two's complement in the width of its type.                           *)
(***************************************************************************)
EXTENDS Decimal, SequencesExt

CONSTANTS
  ShortBits,  \* 16 in C
  IntBits,    \* 32: int, long, size_t, ptrdiff_t and pointers
  NumBits     \* 64: NUM_TYPE, long long

Flags == {"ZEROPAD", "SIGN", "PLUS", "SPACE", "LEFT", "SMALL", "SPECIAL"}

Hex == <<"0", "1", "2", "3", "4", "5", "6", "7", "8", "9", "A", "B", "C", "D", "E", "F">>
hex == <<"0", "1", "2", "3", "4", "5", "6", "7", "8", "9", "a", "b", "c", "d", "e", "f">>

Copies(c, n) == [i \in 1..n |-> c]   \* none if n is negative
Chars(digits) == [i \in DOMAIN digits |-> Hex[digits[i] + 1]]
NULL == <<"NULL">>                   \* the string argument that is no string

RECURSIVE PutBits(_, _)
PutBits(num, base) ==
  <<num % base>> \o (IF num < base THEN <<>> ELSE PutBits(num \div base, base))

(* number: sign, prefix, zeros up to the precision and digits, padded to the size.  The sign
   and the prefix count for the size; the side and the kind of the padding are the flags'. *)
Sign(num, type) ==
  IF "SIGN" \notin type THEN <<>>
  ELSE IF num >= 2^(NumBits - 1) THEN <<"-">>
  ELSE IF "PLUS" \in type THEN <<"+">>
  ELSE IF "SPACE" \in type THEN <<" ">> ELSE <<>>

Prefix(base, type) ==
  IF "SPECIAL" \notin type \/ base = 10 THEN <<>>
  ELSE IF base = 8 THEN <<"0">>
  ELSE <<"0", IF "SMALL" \in type THEN "x" ELSE "X">>

NumberDigits(num, base, type) ==
  LET neg == "SIGN" \in type /\ num >= 2^(NumBits - 1)
      mag == IF neg THEN 2^NumBits - num ELSE num
      digits == Reverse(IF base = 10 THEN PutDec(mag) ELSE PutBits(mag, base))
  IN [i \in DOMAIN digits |-> (IF "SMALL" \in type THEN hex ELSE Hex)[digits[i] + 1]]

(* Seeded fault: the size is not charged for the sign and the prefix. *)
PaddedAround(head, body, size, type) ==
  LET pad == size - Len(body)
  IN IF "LEFT" \in type THEN head \o body \o Copies(" ", pad)
     ELSE IF "ZEROPAD" \in type THEN head \o Copies("0", pad) \o body
     ELSE Copies(" ", pad) \o head \o body

Padded(head, body, size, type) ==
  LET pad == size - Len(head) - Len(body)
  IN IF "LEFT" \in type THEN head \o body \o Copies(" ", pad)
     ELSE IF "ZEROPAD" \in type THEN head \o Copies("0", pad) \o body
     ELSE Copies(" ", pad) \o head \o body

Number(num, base, size, precision, type) ==
  LET digits == NumberDigits(num, base, type)
  IN Padded(Sign(num, type) \o Prefix(base, type),
            Copies("0", precision - Len(digits)) \o digits, size, type)

(* string: at most precision characters (all of them if it is -1), padded to the width. *)
String(s, width, precision, flags) ==
  LET text == IF s = NULL THEN <<"<", "N", "U", "L", "L", ">">> ELSE s
      body == IF precision \in 0..Len(text) THEN SubSeq(text, 1, precision) ELSE text
  IN Padded(<<>>, body, width, flags \ {"ZEROPAD"})

(* pointer: digits in lower case, eight of them unless a width is given. *)
Pointer(ptr, width, precision, flags) ==
  IF ptr = 0 THEN String(<<"(", "n", "u", "l", "l", ")">>, width, precision, flags)
  ELSE IF width = -1
       THEN Number(ptr, 16, IntBits \div 4, precision, flags \cup {"SMALL", "ZEROPAD"})
       ELSE Number(ptr, 16, width, precision, flags \cup {"SMALL"})

Extend(x, bits) == IF x >= 2^(bits - 1) THEN x + 2^NumBits - 2^bits ELSE x

(* The integer argument, narrowed to the type the qualifier names and extended with its
   sign: "t" always, "z" never. *)
Arg(x, qualifier, signed) ==
  CASE qualifier = "L" -> x
    [] qualifier = "z" -> x % 2^IntBits
    [] qualifier = "t" -> Extend(x % 2^IntBits, IntBits)
    [] qualifier = "h" -> IF signed THEN Extend(x % 2^ShortBits, ShortBits) ELSE x % 2^ShortBits
    [] OTHER -> IF signed THEN Extend(x % 2^IntBits, IntBits) ELSE x % 2^IntBits

(* A directive: flags, width and precision ("none", "star" or a number), qualifier and
   conversion.  A width or a precision that is a star takes an argument of its own; a
   negative one means LEFT for the width and 0 for the precision. *)
Width(d, star) ==
  IF d.width = <<"none">> THEN [width |-> -1, flags |-> d.flags]
  ELSE IF d.width = <<"star">> /\ star < 0
       THEN [width |-> -star, flags |-> d.flags \cup {"LEFT"}]
  ELSE [width |-> IF d.width = <<"star">> THEN star ELSE d.width[2], flags |-> d.flags]

Precision(d, star) ==
  IF d.precision = <<"none">> THEN -1
  ELSE IF d.precision # <<"star">> THEN d.precision[2]
  ELSE IF star < 0 THEN 0 ELSE star

Integer(d, x, width, precision, flags) ==
  LET signed == d.conv \in {"d", "i"}
      base == IF d.conv = "o" THEN 8 ELSE IF d.conv \in {"x", "X"} THEN 16 ELSE 10
      type == flags \cup (IF signed THEN {"SIGN"} ELSE {})
                    \cup (IF d.conv = "x" THEN {"SMALL"} ELSE {})
  IN Number(Arg(x, d.qualifier, signed), base, width, precision, type)

(* vsprintf: the text so far and the arguments left.  The character that %n stores the
   length through is left out; an unknown conversion is copied and takes no argument. *)
Convert(s, d) ==
  LET w == Width(d, s.args[1])
      args1 == IF d.width = <<"star">> THEN Tail(s.args) ELSE s.args
      p == Precision(d, args1[1])
      args == IF d.precision = <<"star">> THEN Tail(args1) ELSE args1
      text ==
        CASE d.conv = "%" -> <<"%">>
          [] d.conv = "c" -> Padded(<<>>, <<args[1]>>, w.width, w.flags \ {"ZEROPAD"})
          [] d.conv = "s" -> String(args[1], w.width, p, w.flags)
          [] d.conv = "p" -> Pointer(args[1], w.width, p, w.flags)
          [] d.conv \in {"o", "x", "X", "d", "i", "u"} -> Integer(d, args[1], w.width, p, w.flags)
          [] OTHER -> <<"%", d.conv>>
  IN [text |-> s.text \o text,
      args |-> IF d.conv \in {"c", "s", "p", "o", "x", "X", "d", "i", "u"} THEN Tail(args) ELSE args]

(* Letters and digits after %p are taken for its suffix. *)
Letters == {hex[i] : i \in 1..16} \cup {Hex[i] : i \in 1..16} \cup {"x", "K", "M", "G", "k", "i"}
RECURSIVE WithoutSuffix(_)
WithoutSuffix(fmt) ==
  IF fmt # <<>> /\ Len(fmt[1]) = 1 /\ fmt[1][1] \in Letters THEN WithoutSuffix(Tail(fmt)) ELSE fmt

RECURSIVE Formatted(_, _)
Formatted(s, fmt) ==
  IF fmt = <<>> THEN s.text
  ELSE IF Len(fmt[1]) = 1 THEN Formatted([s EXCEPT !.text = @ \o fmt[1]], Tail(fmt))
  ELSE Formatted(Convert(s, fmt[1][2]),
                 IF fmt[1][2].conv = "p" THEN WithoutSuffix(Tail(fmt)) ELSE Tail(fmt))

Sprintf(fmt, args) == Formatted([text |-> <<>>, args |-> args], fmt)

(* simple_strtoul and simple_strtoull: the value, modulo 2^bits, and the characters read.
   "0x" before a hexadecimal digit makes the base 16, another "0" makes it 8 if none is
   given.  A digit counts if it is below the base. *)
CharAt(s, i) == IF i \in DOMAIN s THEN s[i] ELSE "NUL"
DigitOf(c) == IF \E v \in 1..16 : c \in {hex[v], Hex[v]}
              THEN (CHOOSE v \in 1..16 : c \in {hex[v], Hex[v]}) - 1 ELSE 99

(* Seeded fault: the prefix is skipped and the base kept. *)
BaseKept(s, base) ==
  IF CharAt(s, 1) = "0" /\ CharAt(s, 2) = "x" /\ DigitOf(CharAt(s, 3)) < 16
  THEN [base |-> IF base = 0 THEN 8 ELSE base, from |-> 3]
  ELSE IF CharAt(s, 1) = "0" THEN [base |-> IF base = 0 THEN 8 ELSE base, from |-> 2]
  ELSE [base |-> IF base = 0 THEN 10 ELSE base, from |-> 1]

BaseOf(s, base) ==
  IF CharAt(s, 1) = "0" /\ CharAt(s, 2) = "x" /\ DigitOf(CharAt(s, 3)) < 16
  THEN [base |-> 16, from |-> 3]
  ELSE IF CharAt(s, 1) = "0" THEN [base |-> IF base = 0 THEN 8 ELSE base, from |-> 2]
  ELSE [base |-> IF base = 0 THEN 10 ELSE base, from |-> 1]

RECURSIVE ReadDigits(_, _, _, _, _)
ReadDigits(s, i, base, value, bits) ==
  IF DigitOf(CharAt(s, i)) < base
  THEN ReadDigits(s, i + 1, base, (value * base + DigitOf(s[i])) % 2^bits, bits)
  ELSE [value |-> value, end |-> i - 1]

Strtoul(s, base, bits) ==
  LET b == BaseOf(s, base) IN ReadDigits(s, b.from, b.base, 0, bits)

(* simple_strtol *)
Strtol(s, base) ==
  IF CharAt(s, 1) # "-" THEN Strtoul(s, base, IntBits)
  ELSE LET r == Strtoul(Tail(s), base, IntBits)
       IN [value |-> (2^IntBits - r.value) % 2^IntBits, end |-> r.end + 1]

(* ustrtoul: G is 1024 M, M is 1024 K, K is 1024.  Only a suffix that goes on with "i" is
   skipped. *)
UStrtoul(s, base) ==
  LET r == Strtoul(s, base, IntBits)
      c == CharAt(s, r.end + 1)
      power == IF c = "G" THEN 3 ELSE IF c = "M" THEN 2 ELSE IF c \in {"K", "k"} THEN 1 ELSE 0
      skip == IF power = 0 \/ CharAt(s, r.end + 2) # "i" THEN 0
              ELSE IF CharAt(s, r.end + 3) = "B" THEN 3 ELSE 2
      K[n \in 0..3] == IF n = 0 THEN r.value ELSE (K[n - 1] * 1024) % 2^IntBits
  IN [value |-> K[power], end |-> r.end + skip]
=============================================================================
