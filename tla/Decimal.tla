------------------------------ MODULE Decimal ------------------------------
(***************************************************************************)
(* The decimal digits of a number (put_dec and its helpers in vsprintf.c),  *)
(* least significant first.                                                 *)
(***************************************************************************)
EXTENDS Integers, Sequences, Loops

(* A tenth, rounded down, as a multiplication and a shift; the short one is enough for the
   third digit. *)
ShortTenth(s) == (s * 13) \div 128
Tenth(s) == (s * 205) \div 2048

(* The nibbles of q, and what put_dec_full makes of them: each sum leaves a digit, and its
   tenth is carried. *)
N0(q) == q % 16
N1(q) == (q \div 16) % 16
N2(q) == (q \div (16 * 16)) % 16
N3(q) == q \div (16 * 16 * 16)
S0(q) == 6 * (N3(q) + N2(q) + N1(q)) + N0(q)
C0(q) == Tenth(S0(q))
S1(q) == C0(q) + 9 * N3(q) + 5 * N2(q) + N1(q)
C1(q) == Tenth(S1(q))
S2(q) == C1(q) + 2 * N2(q)
C2(q) == ShortTenth(S2(q))
S3(q) == C2(q) + 4 * N3(q)
C3(q) == Tenth(S3(q))

PutDecFull(q) ==
  <<S0(q) - 10 * C0(q), S1(q) - 10 * C1(q), S2(q) - 10 * C2(q), S3(q) - 10 * C3(q), C3(q)>>

(* put_dec_trunc: the same digits, ending where nothing is left. *)
PutDecTrunc(q) ==
  LET n == IF S1(q) = 0 THEN 1
           ELSE IF S2(q) = 0 /\ N3(q) = 0 THEN 2
           ELSE IF S3(q) = 0 THEN 3
           ELSE IF C3(q) = 0 THEN 4 ELSE 5
  IN SubSeq(PutDecFull(q), 1, n)

(* put_dec: five digits at a time while there are more than five. *)
Group == 10 * 10 * 10 * 10 * 10
Splitting == [num : Nat, digits : Seq(0..9)]
PutDec(num) ==
  LET s == Loop(Splitting, {x \in Splitting : x.num >= Group},
                [x \in Splitting |-> [num |-> x.num \div Group,
                                      digits |-> x.digits \o PutDecFull(x.num % Group)]],
                [num |-> num, digits |-> <<>>])
  IN s.digits \o PutDecTrunc(s.num)
-----------------------------------------------------------------------------
(* What they are for. *)

(* The digits are those of n: each is what the division by ten of the rest leaves. *)
Denotes(digits, n) ==
  LET rest[i \in 0 .. Len(digits)] == IF i = 0 THEN n ELSE rest[i - 1] \div 10
  IN /\ digits \in Seq(0..9)
     /\ rest[Len(digits)] = 0
     /\ \A i \in 1 .. Len(digits) : digits[i] = rest[i - 1] % 10

(* As it is written: at least one digit, and no leading zero. *)
Numeral(digits, n) ==
  /\ Denotes(digits, n)
  /\ Len(digits) > 0
  /\ Len(digits) > 1 => digits[Len(digits)] # 0
=============================================================================
