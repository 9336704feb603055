---------------------------- MODULE ArmArithmetic ----------------------------
(***************************************************************************)
(* More arithmetic the processor has no instruction for: modulo and signed  *)
(* division (arm/_umodsi3.S, _divsi3.S, _modsi3.S, in the form for an       *)
(* architecture without clz) and shifts of double words (arm/_ashldi3.S,    *)
(* _ashrdi3.S, _lshrdi3.S).  A word has W bits; a double word is a pair of  *)
(* words.  The divisor is not 0 (__div0).                                   *)
(*                                                                         *)
(* The loops of the modulo work on a record: n the dividend, d the divisor  *)
(* as shifted so far, bit the weight of d (curbit), order its logarithm,    *)
(* over the subtractions of the last pass (overdone).                       *)
(***************************************************************************)
EXTENDS Division, Bitwise

CONSTANT W  \* bits of a word, 32 on ARM

ASSUME WAssumption == W \in Nat /\ W > 4 /\ 2^W = Values

Lsl(x, k) == IF k >= W THEN 0 ELSE (x * 2^k) % 2^W
Lsr(x, k) == x \div 2^k
Asr(x, k) == IF x < Top THEN Lsr(x, k) ELSE 2^W - 1 - Lsr(2^W - 1 - x, k)
Ror(x, k) == Lsr(x, k) + Lsl(x, W - k)
Neg(x) == (2^W - x) % 2^W
IsNeg(x) == x >= Top
Magnitude(x) == IF IsNeg(x) THEN Neg(x) ELSE x

(* The divisor is shifted by k bits until it reaches the limit or the dividend. *)
RECURSIVE ShiftedUp(_, _, _)
ShiftedUp(s, k, limit) ==
  IF s.d < limit /\ s.d < s.n
  THEN ShiftedUp([s EXCEPT !.d = Lsl(@, k), !.bit = Lsl(@, k), !.order = @ + k], k, limit)
  ELSE s

Aimed(n, d) ==
  LET start == [n |-> n, d |-> d, bit |-> 1, order |-> 0, over |-> 0]
  IN ShiftedUp(ShiftedUp(start, 4, Limit), 1, Top)

(* One conditional subtraction of a pass, of the divisor shifted right by k. *)
TakeOff(s, k) ==
  IF s.n >= Lsr(s.d, k)
  THEN [s EXCEPT !.n = @ - Lsr(s.d, k), !.over = IF k = 0 THEN @ ELSE @ | Ror(s.bit, k)]
  ELSE s

ModPass(s) == TakeOff(TakeOff(TakeOff(TakeOff([s EXCEPT !.over = 0], 0), 1), 2), 3)

RECURSIVE LastPass(_)
LastPass(s) ==
  LET t == ModPass(s) IN
  IF t.n = 0 \/ Lsr(t.bit, 4) = 0 THEN t
  ELSE LastPass([t EXCEPT !.bit = Lsr(@, 4), !.d = Lsr(@, 4)])

(* __umodsi3: the subtractions of the last pass whose bit was shifted out at the bottom
   are added back. *)
AddBack(s, k) ==
  IF s.over & Ror(s.bit, k) & (Top + Top \div 2 + Top \div 4) # 0
  THEN [s EXCEPT !.n = @ + Lsr(s.d, k)] ELSE s

UMod(n, d) ==
  IF n < d THEN n
  ELSE AddBack(AddBack(AddBack(LastPass(Aimed(n, d)), 3), 2), 1).n

(* ARM_DIV2_ORDER: the logarithm of a power of two. *)
HalveFrom(s, k) == IF s.d >= 2^k THEN [d |-> Lsr(s.d, k), order |-> s.order + k] ELSE s
Order(d) ==
  LET s == HalveFrom(HalveFrom(HalveFrom([d |-> d, order |-> 0], 16), 8), 4)
  IN s.order + (IF s.d > 4 THEN 3 ELSE Lsr(s.d, 1))

IsPower(d) == d & (d - 1) = 0

(* __divsi3 *)
SDiv(n, d) ==
  LET a == Magnitude(n)
      b == Magnitude(d)
      q == IF a < b THEN 0
           ELSE IF a = b THEN 1
           ELSE IF IsPower(b) THEN Lsr(a, Order(b))
           ELSE DivBody(a, b)
  IN IF b = 1 THEN (IF IsNeg(d) THEN Neg(n) ELSE n)
     ELSE IF IsNeg(n) # IsNeg(d) THEN Neg(q) ELSE q

(* ARM_MOD_BODY: passes while four bits of order are left and a dividend that is positive
   as a signed number, then the one, two or three subtractions that remain. *)
RECURSIVE ModPasses(_)
ModPasses(s) ==
  LET t == [ModPass(s) EXCEPT !.d = Lsr(@, 4)]
      positive == t.n \in 1 .. Top - 1
      u == IF positive THEN [t EXCEPT !.order = @ - 4] ELSE t
  IN IF positive /\ u.order >= 0 THEN ModPasses(u) ELSE u

Rest(s) ==
  LET one(t) == [TakeOff(t, 0) EXCEPT !.d = Lsr(@, 1)]
  IN IF s.order < -2 THEN one(s)
     ELSE IF s.order = -2 THEN one(one(s)) ELSE one(one(one(s)))

ModBody(n, d) ==
  LET r == Aimed(n, d)
      s == [r EXCEPT !.order = @ - 3]
      t == ModPasses(s)
  IN IF s.order < 0 THEN Rest(s).n
     ELSE IF t.order % 4 = 0 \/ t.n = 0 THEN t.n ELSE Rest(t).n

(* __modsi3 *)
SMod(n, d) ==
  LET a == Magnitude(n)
      b == Magnitude(d)
      r == IF b = 1 \/ a = b THEN 0
           ELSE IF a < b THEN a
           ELSE IF IsPower(b) THEN a & (b - 1)
           ELSE ModBody(a, b)
  IN IF IsNeg(n) THEN Neg(r) ELSE r

(* Shifts of the double word hi, lo by k: each half is shifted as a word, and what leaves
   one enters the other; from W on the halves change places. *)
Ashldi3(hi, lo, k) ==
  <<IF k < W THEN Lsl(hi, k) | Lsr(lo, W - k) ELSE Lsl(lo, k - W), Lsl(lo, k)>>
Lshrdi3(hi, lo, k) ==
  <<Lsr(hi, k), IF k < W THEN Lsr(lo, k) | Lsl(hi, W - k) ELSE Lsr(hi, k - W)>>
(* Seeded fault: the sign is lost where the high half moves down. *)
AshrUnsigned(hi, lo, k) ==
  <<Asr(hi, k), IF k < W THEN Lsr(lo, k) | Lsl(hi, W - k) ELSE Lsr(hi, k - W)>>
Ashrdi3(hi, lo, k) ==
  <<Asr(hi, k), IF k < W THEN Lsr(lo, k) | Lsl(hi, W - k) ELSE Asr(hi, k - W)>>
=============================================================================
