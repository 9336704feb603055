------------------------------ MODULE Division ------------------------------
(***************************************************************************)
(* Division of a word by a word as the processor does it (arm/_udivsi3.S,   *)
(* for an architecture without clz) and of a double word by a word          *)
(* (arm/div64.c, div64.h).  The divisor is not 0 (__div0).                  *)
(***************************************************************************)
EXTENDS Integers, Loops

CONSTANT Limit   \* 0x10000000, a sixteenth of the number of words

ASSUME LimitAssumption == Limit \in Nat \ {0}

Values == 16 * Limit
Word == 0 .. Values - 1
Top == 8 * Limit   \* the weight of the top bit

(* The loops of __udivsi3 work on the dividend n, the divisor d as shifted so far, the
   quotient q and the weight of d in it (curbit). *)
Start(n, d) == [n |-> n, d |-> d, q |-> 0, bit |-> 1]
Dividing == [n : Nat, d : Nat, q : Nat, bit : Word]
Raising == [n : Nat, d : Nat \ {0}, q : Nat, bit : Word]

(* The divisor is multiplied until it reaches the limit or the dividend. *)
RaiseBy(s, factor, limit) ==
  Loop(Raising, {x \in Raising : x.d < limit /\ x.d < x.n},
       [x \in Raising |-> [x EXCEPT !.d = (@ * factor) % Values, !.bit = (@ * factor) % Values]],
       s)
Raised(s) == RaiseBy(RaiseBy(s, 16, Limit), 2, Top)

(* q with the bit of this weight set; a weight of 0 has been shifted out. *)
SetBit(q, bit) == IF bit = 0 \/ (q \div bit) % 2 = 1 THEN q ELSE q + bit

(* One conditional subtraction of a pass, of the divisor shifted right. *)
Subtract(s, by) ==
  IF s.n < s.d \div by THEN s
  ELSE [s EXCEPT !.n = @ - s.d \div by, !.q = SetBit(@, s.bit \div by)]

(* Seeded fault: a pass leaves out the last of its four subtractions. *)
PassOfThree(s) == Subtract(Subtract(Subtract(s, 1), 2), 4)

Pass(s) == Subtract(Subtract(Subtract(Subtract(s, 1), 2), 4), 8)

(* Passes until the dividend is used up or no bit is left. *)
Lowered(s) == [s EXCEPT !.d = @ \div 16, !.bit = @ \div 16]
Passes(s) ==
  Loop(Dividing, {x \in Dividing : x.n # 0 /\ x.bit \div 16 # 0},
       [x \in Dividing |-> Pass(Lowered(x))], Pass(s))

(* __udivsi3; __aeabi_uidivmod and __aeabi_idivmod multiply back. *)
UDiv(n, d) == IF n < d THEN 0 ELSE Passes(Raised(Start(n, d))).q
ModOf(n, d, q) == (n - ((q * d) % Values)) % Values

(* ARM_DIV_BODY of __divsi3: the same, from a divisor shifted by three where there is room. *)
DivBody(n, d) ==
  LET s == IF d < 2 * Limit THEN [Start(n, d * 8) EXCEPT !.bit = 8] ELSE Start(n, d)
  IN Passes(Raised(s)).q
-----------------------------------------------------------------------------
(* __div64_32: b is the divisor and d its weight, doubled until b reaches the remainder or
   the sign bit, and halved again with a subtraction where it fits. *)
DoubleWord == 0 .. Values * Values - 1
SignBit == 8 * (Limit * Values)
Reducing == [rem : Nat, b : DoubleWord, res : Nat, d : DoubleWord]

Doubled(s) ==
  Loop(Reducing, {x \in Reducing : x.b \in 1 .. SignBit - 1 /\ x.b < x.rem},
       [x \in Reducing |-> [x EXCEPT !.b = 2 * @, !.d = (2 * @) % (Values * Values)]], s)

Halve(s) ==
  LET fits == s.rem >= s.b
  IN [rem |-> IF fits THEN s.rem - s.b ELSE s.rem, b |-> s.b \div 2,
      res |-> IF fits THEN s.res + s.d ELSE s.res, d |-> s.d \div 2]
Halved(s) ==
  Loop(Reducing, {x \in Reducing : x.d # 0}, [x \in Reducing |-> Halve(x)], Halve(s))

(* Seeded fault: the high word is divided and its remainder forgotten. *)
ReducedAll(n, base) ==
  [res |-> UDiv(n \div Values, base) * Values, rem |-> n % Values, b |-> base, d |-> 1]
Reduced(n, base) ==
  LET high == UDiv(n \div Values, base)
  IN [res |-> high * Values, rem |-> n - (high * base) * Values, b |-> base, d |-> 1]

Div64(n, base) ==
  LET s == IF n \div Values >= base THEN Reduced(n, base)
           ELSE [res |-> 0, rem |-> n, b |-> base, d |-> 1]
      t == Halved(Doubled(s))
  IN [quot |-> t.res, rem |-> t.rem % Values]

(* do_div: a dividend of one word takes the short way. *)
DoDiv(n, base) ==
  IF n < Values THEN LET q == UDiv(n, base) IN [quot |-> q, rem |-> ModOf(n, base, q)]
  ELSE Div64(n, base)
=============================================================================
