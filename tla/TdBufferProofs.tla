-------------------------- MODULE TdBufferProofs --------------------------
(***************************************************************************)
(* Theorems about TdBuffer, for every page size, number of pointers and    *)
(* buffer.                                                                 *)
(***************************************************************************)
EXTENDS TdBuffer, TLAPS

USE TdBufferAssumption

-----------------------------------------------------------------------------
(* Arithmetic of pages.                                                    *)

LEMMA ModPage ==
  ASSUME NEW q \in Nat, NEW r \in Offsets
  PROVE  (PageSize * q + r) % PageSize = r
BY SMT DEF Offsets

LEMMA ModSmall ==
  ASSUME NEW w \in Nat, NEW r \in 0 .. w - 1
  PROVE  r % w = r
BY SMT

LEMMA ModWrap ==
  ASSUME NEW w \in Nat, NEW r \in 0 .. w - 1
  PROVE  (w + r) % w = r
BY SMT

LEMMA ModNegative ==
  ASSUME NEW w \in Nat, NEW r \in 1 .. w - 1
  PROVE  (0 - r) % w = w - r
BY SMT

LEMMA PageMonotone ==
  ASSUME NEW q \in Nat, NEW s \in Nat, q < s
  PROVE  PageSize * q + PageSize <= PageSize * s
BY SMT

LEMMA AddressSplit ==
  ASSUME NEW a \in Addresses
  PROVE  \E q \in 0 .. WordPages - 1, r \in Offsets :
           /\ a = PageSize * q + r
           /\ a % PageSize = r
           /\ PageOf(a) = PageSize * q
           /\ a \in 0 .. Word - 1
<1>1. PICK q \in 0 .. WordPages - 1, r \in Offsets : a = PageSize * q + r
  BY DEF Addresses
<1>3. q \in Nat /\ PageSize * q \in Nat /\ r \in Nat
  BY <1>1, SMT DEF Offsets
<1>2. a % PageSize = r
  BY <1>1, <1>3, ModPage
<1>4. PageSize * q + PageSize <= PageSize * WordPages
  BY <1>1, PageMonotone
<1>5. a \in 0 .. Word - 1
  BY <1>1, <1>3, <1>4, SMT DEF Word, Offsets
<1>6. PageOf(a) = PageSize * q
  <2>1. PageOf(a) = a - r
    BY <1>2 DEF PageOf
  <2> QED
    BY <1>1, <1>3, <2>1, SMT
<1> QED
  BY <1>1, <1>2, <1>5, <1>6

(* The next page of an address, and the distance to it, also at the end of the memory. *)
LEMMA NextPageIs ==
  ASSUME NEW q \in 0 .. WordPages - 1, NEW r \in Offsets
  PROVE  LET a == PageSize * q + r IN
         /\ (NextPage(a) - a) % Word = PageSize - r
         /\ q + 1 < WordPages => NextPage(a) = PageSize * (q + 1)
         /\ NextPage(a) \in 0 .. Word - 1
<1> DEFINE a == PageSize * q + r
           n == (a + PageSize) % Word
<1>1. /\ q \in Nat /\ PageSize * q \in Nat /\ r \in Nat /\ Word \in Nat /\ r < PageSize
      /\ PageSize * (q + 1) = PageSize * q + PageSize
  BY SMT DEF Offsets, Word
<1>2. PageSize * 1 + PageSize <= Word
  <2>1. CASE WordPages = 2
    BY <2>1, SMT DEF Word
  <2>2. CASE 2 < WordPages
    BY <2>2, PageMonotone, SMT DEF Word
  <2> QED
    BY <2>1, <2>2, SMT
<1>3. PageSize - r \in 1 .. Word - 1
  BY <1>1, <1>2, SMT
<1>4. CASE q + 1 < WordPages
  <2>1. PageSize * (q + 1) + PageSize <= Word
    BY <1>4, PageMonotone, SMT DEF Word
  <2>2. a + PageSize \in 0 .. Word - 1
    BY <1>1, <2>1, SMT
  <2>3. n = PageSize * (q + 1) + r
    <3>1. n = a + PageSize
      BY <1>1, <2>2, ModSmall
    <3> QED
      BY <1>1, <3>1, SMT
  <2>4. n % PageSize = r
    <3>1. q + 1 \in Nat
      BY <1>1, SMT
    <3>2. (PageSize * (q + 1) + r) % PageSize = r
      BY <3>1, ModPage
    <3> HIDE DEF n
    <3> QED
      BY <2>3, <3>2
  <2>5. NextPage(a) = PageSize * (q + 1)
    BY <1>1, <2>3, <2>4, SMT DEF NextPage
  <2>6. NextPage(a) - a = PageSize - r
    BY <1>1, <2>5, SMT
  <2>7. (PageSize - r) % Word = PageSize - r
    BY <1>1, <1>3, SMT
  <2> QED
    BY <1>1, <2>1, <2>5, <2>6, <2>7, SMT
<1>5. CASE q + 1 = WordPages
  <2>1. PageSize * (q + 1) = Word
    BY <1>5 DEF Word
  <2>2. a + PageSize = Word + r
    BY <1>1, <2>1, SMT
  <2>3. n = r
    <3>1. r \in 0 .. Word - 1
      BY <1>1, <1>2, SMT
    <3> QED
      BY <1>1, <2>2, <3>1, ModWrap
  <2>4. n % PageSize = r
    <3>1. r % PageSize = r
      BY <1>1, ModSmall DEF Offsets
    <3> HIDE DEF n
    <3> QED
      BY <2>3, <3>1
  <2>5. NextPage(a) = 0
    BY <1>1, <2>3, <2>4, SMT DEF NextPage
  <2>6. NextPage(a) - a = 0 - a /\ a = Word - (PageSize - r)
    BY <1>1, <2>1, <2>5, SMT
  <2>7. a \in 1 .. Word - 1
    BY <1>1, <1>3, <2>6, SMT
  <2>8. (0 - a) % Word = Word - a
    BY <1>1, <2>7, SMT
  <2> QED
    BY <1>1, <1>5, <2>5, <2>6, <2>7, <2>8, SMT
<1> QED
  BY <1>4, <1>5, SMT

-----------------------------------------------------------------------------
(* The loop.                                                               *)

LEMMA InitLoop == Init => TypeOK /\ LoopInv
<1> SUFFICES ASSUME Init PROVE TypeOK /\ LoopInv
  OBVIOUS
<1>1. buf \in 0 .. Word - 1
  BY AddressSplit DEF Init
<1>2. /\ idx = 0 /\ addr = buf /\ sz = size /\ ret = "running" /\ size \in 0 .. MaxSize
      /\ buf \in Addresses
  BY DEF Init
<1>3. ptr \in [0 .. Pages - 1 -> 0 .. Word - 1]
  <2>1. 0 \in 0 .. Word - 1
    BY <1>1, SMT DEF Word
  <2> QED
    BY <2>1 DEF Init
<1>4. TypeOK
  BY <1>1, <1>2, <1>3, SMT DEF TypeOK
<1>5. LoopInv
  BY <1>2, SMT DEF LoopInv
<1> QED
  BY <1>4, <1>5

(* A buffer that does not wrap: kept by every step, since the arguments are. *)
NoWrap == buf + size <= Word

LEMMA FillLoop ==
  ASSUME TypeOK, LoopInv, NoWrap, Fill
  PROVE  TypeOK' /\ LoopInv'
<1>1. PICK q \in 0 .. WordPages - 1, r \in Offsets :
         buf = PageSize * q + r /\ FirstPage = PageSize * q /\ buf \in 0 .. Word - 1
  BY AddressSplit DEF TypeOK, FirstPage
<1>2. /\ q \in Nat /\ PageSize * q \in Nat /\ r \in 0 .. PageSize - 1 /\ Word \in Nat
      /\ idx \in 0 .. Pages - 1 /\ sz \in 0 .. MaxSize /\ size \in 0 .. MaxSize
      /\ PageSize * idx \in Nat /\ PageSize * (q + idx) = PageSize * q + PageSize * idx
      /\ PageSize * (q + idx + 1) = PageSize * q + PageSize * idx + PageSize
      /\ PageSize * (idx + 1) = PageSize * idx + PageSize
  BY <1>1, SMT DEF Fill, TypeOK, Offsets, Word
<1>3. /\ addr + sz = buf + size
      /\ addr = PageSize * (q + idx) + (IF idx = 0 THEN r ELSE 0)
      /\ addr \in 0 .. Word - 1
  <2>1. CASE idx = 0
    BY <1>1, <1>2, <2>1, SMT DEF LoopInv
  <2>2. CASE idx > 0
    BY <1>1, <1>2, <2>2, SMT DEF LoopInv, TypeOK
  <2> QED
    BY <1>2, <2>1, <2>2, SMT
<1> DEFINE s == IF idx = 0 THEN r ELSE 0
<1>4. s \in Offsets
  BY <1>1, <1>2, SMT DEF Offsets
<1>5. q + idx \in 0 .. WordPages - 1
  <2>1. CASE q + idx >= WordPages
    <3>1. PageSize * WordPages <= PageSize * (q + idx)
      <4>1. CASE q + idx = WordPages
        BY <4>1, <1>2, SMT
      <4>2. CASE q + idx > WordPages
        BY <4>2, <1>2, PageMonotone, SMT
      <4> QED
        BY <2>1, <1>2, <4>1, <4>2, SMT
    <3> QED
      BY <1>2, <1>3, <1>4, <3>1, SMT DEF Word, Offsets
  <2> QED
    BY <1>2, <2>1, SMT
<1>6. /\ Delta = PageSize - s /\ NextPage(addr) \in 0 .. Word - 1
      /\ q + idx + 1 < WordPages => NextPage(addr) = PageSize * (q + idx + 1)
  BY <1>3, <1>4, <1>5, NextPageIs DEF Delta
<1> HIDE DEF s
<1>7. /\ ptr \in [0 .. Pages - 1 -> 0 .. Word - 1]
      /\ ptr' = [ptr EXCEPT ![idx] = addr] /\ buf' = buf /\ size' = size
  BY DEF Fill, TypeOK
<1>8. /\ ptr' \in [0 .. Pages - 1 -> 0 .. Word - 1] /\ ptr'[idx] = addr
      /\ \A i \in 0 .. Pages - 1 : i # idx => ptr'[i] = ptr[i]
  BY <1>2, <1>3, <1>7
<1>9. CASE IsLast
  <2>1. ret' = "ok" /\ sz' = sz /\ addr' = addr /\ idx' = idx
    BY <1>9 DEF Fill
  <2>2. TypeOK'
    BY <1>7, <1>8, <2>1 DEF TypeOK
  <2>3. PageSize - s >= sz
    BY <1>6, <1>9 DEF IsLast
  <2>4. addr = PageSize * (q + idx) + s
    BY <1>3 DEF s
  <2>5. buf + size <= PageSize * q + PageSize * (idx + 1)
    BY <1>2, <1>3, <1>4, <2>3, <2>4, SMT DEF Offsets
  <2>6. FirstPage' = FirstPage
    BY <1>7 DEF FirstPage, PageOf
  <2>7. (idx > 0 => ptr'[0] = ptr[0]) /\ \A i \in 1 .. Pages - 1 : i < idx => ptr'[i] = ptr[i]
    BY <1>2, <1>8, SMT
  <2> QED
    BY <1>1, <1>2, <1>7, <1>8, <2>1, <2>2, <2>5, <2>6, <2>7, SMTT(30) DEF LoopInv
<1>10. CASE ~IsLast
  <2>1. ret' = ret /\ ret = "running" /\ sz' = sz - Delta /\ addr' = NextPage(addr) /\ idx' = idx + 1
    BY <1>10 DEF Fill
  <2>2. addr = PageSize * (q + idx) + s
    BY <1>3 DEF s
  <2>3. s \in 0 .. PageSize - 1 /\ PageSize - s < sz
    BY <1>2, <1>4, <1>6, <1>10, SMT DEF IsLast, Offsets
  <2>4. q + idx + 1 < WordPages
    <3>1. PageSize * (q + idx + 1) < Word
      BY <1>2, <1>3, <2>2, <2>3, SMT DEF NoWrap
    <3>2. CASE q + idx + 1 = WordPages
      BY <3>1, <3>2 , <1>2, SMT DEF Word
    <3> QED
      BY <1>2, <1>5, <3>2, SMT
  <2>5. addr' = PageSize * q + PageSize * (idx + 1) /\ addr' \in 0 .. Word - 1
    BY <1>2, <1>6, <2>1, <2>4, SMT
  <2>6. addr' + sz' = buf' + size' /\ sz' > 0 /\ sz' \in 0 .. MaxSize /\ idx' \in 0 .. Pages
    <3>1. addr' = PageSize * (q + idx) + PageSize
      BY <1>2, <2>5, SMT
    <3>2. sz' = sz - (PageSize - s)
      BY <1>6, <2>1
    <3>3. addr' + sz' = addr + sz
      BY <1>2, <2>2, <2>3, <3>1, <3>2, SMT
    <3> QED
      BY <1>2, <1>3, <1>7, <2>1, <2>3, <3>2, <3>3, SMTT(30)
  <2>7. TypeOK'
    BY <1>7, <1>8, <2>1, <2>5, <2>6 DEF TypeOK
  <2>8. FirstPage' = FirstPage
    BY <1>7 DEF FirstPage, PageOf
  <2>9. ptr'[0] = buf
    <3>1. CASE idx = 0
      BY <1>8, <3>1 DEF LoopInv
    <3>2. CASE idx > 0
      BY <1>2, <1>8, <3>2, SMT DEF LoopInv
    <3> QED
      BY <1>2, <3>1, <3>2, SMT
  <2>10. \A i \in 1 .. Pages - 1 : i < idx + 1 => ptr'[i] = FirstPage + PageSize * i
    <3> SUFFICES ASSUME NEW i \in 1 .. Pages - 1, i < idx + 1
                 PROVE  ptr'[i] = FirstPage + PageSize * i
      OBVIOUS
    <3>3. idx \in 0 .. Pages - 1
      BY <1>2
    <3>1. CASE i = idx
      <4>1. ptr'[i] = addr /\ idx > 0
        BY <1>8, <3>1, SMT
      <4> QED
        BY <3>1, <3>3, <4>1 DEF LoopInv
    <3>2. CASE i < idx
      <4>1. ptr'[i] = ptr[i]
        BY <1>8, <3>2, <3>3, SMT
      <4> QED
        BY <3>2, <4>1 DEF LoopInv
    <3> QED
      BY <3>1, <3>2, <3>3, SMT
  <2> QED
    BY <1>1, <1>2, <1>7, <2>1, <2>5, <2>6, <2>7, <2>8, <2>9, <2>10, SMT DEF LoopInv
<1> QED
  BY <1>9, <1>10

LEMMA OutOfPointersLoop ==
  ASSUME TypeOK, LoopInv, OutOfPointers
  PROVE  TypeOK' /\ LoopInv'
<1>1. /\ UNCHANGED <<buf, size, addr, sz, idx, ptr>>
      /\ ret' = "failed" /\ idx = Pages
  BY DEF OutOfPointers, LoopResult
<1>2. TypeOK'
  BY <1>1 DEF TypeOK
<1>3. LoopInv'
  BY <1>1 DEF LoopInv, FirstPage, PageOf
<1> QED
  BY <1>2, <1>3

LEMMA Loop == Spec => [](TypeOK /\ LoopInv /\ NoWrap)
<1>1. Init => TypeOK /\ LoopInv /\ NoWrap
  BY InitLoop DEF Init, NoWrap
<1>2. TypeOK /\ LoopInv /\ NoWrap /\ [Next]_vars => (TypeOK /\ LoopInv /\ NoWrap)'
  <2> SUFFICES ASSUME TypeOK, LoopInv, NoWrap, [Next]_vars
               PROVE  (TypeOK /\ LoopInv /\ NoWrap)'
    OBVIOUS
  <2>1. CASE Fill
    <3>1. NoWrap'
      BY <2>1 DEF Fill, NoWrap
    <3> QED
      BY <2>1, <3>1, FillLoop
  <2>2. CASE OutOfPointers
    <3>1. NoWrap'
      BY <2>2 DEF OutOfPointers, NoWrap
    <3> QED
      BY <2>2, <3>1, OutOfPointersLoop
  <2>3. CASE UNCHANGED vars
    BY <2>3 DEF vars, TypeOK, LoopInv, NoWrap, FirstPage, PageOf
  <2> QED
    BY <2>1, <2>2, <2>3 DEF Next
<1> QED
  BY <1>1, <1>2, PTL DEF Spec

-----------------------------------------------------------------------------
(* What the loop's invariant says of the result.                             *)

LEMMA LastPage ==
  ASSUME TypeOK, LoopInv, ret = "ok"
  PROVE  /\ idx \in 0 .. Pages - 1
         /\ buf + size <= FirstPage + PageSize * (idx + 1)
         /\ PageSize * (idx + 1) \in Nat
         /\ PageSize * (idx + 1) <= PageSize * Pages
<1>1. idx \in 0 .. Pages - 1 /\ buf + size <= FirstPage + PageSize * (idx + 1)
  BY SMT DEF TypeOK, LoopInv
<1>2. PageSize * idx + PageSize <= PageSize * Pages
  BY <1>1, PageMonotone
<1>3. PageSize * (idx + 1) = PageSize * idx + PageSize /\ PageSize * idx \in Nat
  BY <1>1, SMT
<1> QED
  BY <1>1, <1>2, <1>3, SMT

(* The types of every variable of the loop are kept. *)
THEOREM TypeCorrect == Spec => []TypeOK
  BY Loop, PTL

(* ehci_td_buffer gives up only on a buffer that its pointers cannot reach. *)
THEOREM FailsOnly == Spec => []FailsOnlyIfTooLong
<1>1. TypeOK /\ LoopInv => FailsOnlyIfTooLong
  <2> SUFFICES ASSUME TypeOK, LoopInv, ret = "failed"
               PROVE  (buf % PageSize) + size > PageSize * Pages
    BY DEF FailsOnlyIfTooLong
  <2>1. PICK q \in 0 .. WordPages - 1, r \in Offsets :
          /\ buf = PageSize * q + r /\ buf % PageSize = r /\ FirstPage = PageSize * q
    BY AddressSplit DEF TypeOK, FirstPage
  <2>2. idx = Pages /\ idx > 0 /\ size \in Nat /\ sz \in Nat
    BY SMT DEF LoopInv, TypeOK
  <2>3. addr = PageSize * q + PageSize * Pages /\ addr + sz = buf + size /\ sz > 0
    BY <2>1, <2>2 DEF LoopInv
  <2>4. PageSize * q \in Nat /\ PageSize * Pages \in Nat /\ r \in Nat
    BY SMT DEF Offsets
  <2> QED
    BY <2>1, <2>2, <2>3, <2>4, SMT
<1> QED
  BY <1>1, Loop, PTL

(* The length that was put into the token of a transfer leaves bit 31, the toggle, alone
   whenever the transfer is started: a buffer that reaches so far gets no pointers. *)
THEOREM LengthStaysInItsField == Spec => []LengthFits
<1>1. TypeOK /\ LoopInv => LengthFits
  <2> SUFFICES ASSUME TypeOK, LoopInv, ret = "ok" PROVE size < LengthLimit
    BY DEF LengthFits
  <2>1. PICK q \in 0 .. WordPages - 1, r \in Offsets :
          /\ buf = PageSize * q + r /\ FirstPage = PageSize * q
    BY AddressSplit DEF TypeOK, FirstPage
  <2>2. /\ PageSize * q \in Nat /\ PageSize * Pages \in Nat /\ r \in Nat /\ size \in Nat
    BY SMT DEF Offsets, TypeOK
  <2>3. PageSize * q + r + size <= PageSize * q + PageSize * Pages
    BY <2>1, <2>2, LastPage, SMT
  <2> QED
    BY <2>2, <2>3, SMT
<1> QED
  BY <1>1, Loop, PTL

(* The pointers of a successful call name the buffer, all of it and in order. *)
THEOREM PointersReachBuffer == Spec => []Reaches
<1>1. TypeOK /\ LoopInv => Reaches
  <2> SUFFICES ASSUME TypeOK, LoopInv, ret = "ok" PROVE
        /\ (buf % PageSize) + size <= PageSize * Pages
        /\ \A j \in 0 .. Pages - 1, t \in Offsets :
             LET k == PageSize * j + t - (buf % PageSize)
             IN  k \in 0 .. size - 1 => PageOf(ptr[j]) + t = buf + k
    BY DEF Reaches
  <2>1. PICK q \in 0 .. WordPages - 1, r \in Offsets :
          /\ buf = PageSize * q + r /\ buf % PageSize = r
          /\ PageOf(buf) = PageSize * q /\ FirstPage = PageSize * q
    BY AddressSplit DEF TypeOK, FirstPage
  <2>2. /\ q \in Nat /\ PageSize * q \in Nat /\ PageSize * Pages \in Nat /\ r \in Nat
        /\ size \in Nat /\ idx \in 0 .. Pages - 1
    BY LastPage, SMT DEF Offsets, TypeOK
  <2>3. buf + size <= PageSize * q + PageSize * (idx + 1) /\ PageSize * (idx + 1) \in Nat
        /\ PageSize * (idx + 1) <= PageSize * Pages
    BY <2>1, LastPage
  <2>4. r + size <= PageSize * (idx + 1)
    BY <2>1, <2>2, <2>3, SMT
  <2>5. r + size <= PageSize * Pages
    BY <2>2, <2>3, <2>4, SMT
  <2>6. ASSUME NEW j \in 0 .. Pages - 1, NEW t \in Offsets,
               PageSize * j + t - r \in 0 .. size - 1
        PROVE  PageOf(ptr[j]) + t = buf + (PageSize * j + t - r)
    <3>1. /\ j \in Nat /\ PageSize * j \in Nat /\ t \in Nat
          /\ PageSize * (q + j) = PageSize * q + PageSize * j
          /\ q + j \in Nat
      BY <2>2, SMT DEF Offsets
    <3>2. PageSize * j < PageSize * (idx + 1)
      BY <2>2, <2>3, <2>4, <2>6, <3>1, SMT
    <3>3. j <= idx
      <4>1. CASE idx + 1 < j
        <5>1. PageSize * (idx + 1) + PageSize <= PageSize * j
          BY <2>2, <3>1, <4>1, PageMonotone
        <5> QED
          BY <2>3, <3>1, <3>2, <5>1, SMT
      <4>2. CASE idx + 1 = j
        BY <2>3, <3>2, <4>2, SMT
      <4> QED
        BY <2>2, <3>1, <4>1, <4>2, SMT
    <3>4. PageOf(ptr[j]) = PageSize * q + PageSize * j
      <4>1. CASE j = 0
        <5>1. ptr[0] = buf
          BY <2>2, SMT DEF LoopInv
        <5>2. PageSize * j = 0
          BY <4>1, SMT
        <5> QED
          BY <2>1, <2>2, <4>1, <5>1, <5>2, SMT
      <4>2. CASE j > 0
        <5>1. ptr[j] = PageSize * q + PageSize * j
          <6>1. CASE j = idx
            BY <2>1, <4>2, <6>1, SMT DEF LoopInv
          <6>2. CASE j < idx
            BY <2>1, <3>1, <4>2, <6>2, SMT DEF LoopInv
          <6> QED
            BY <2>2, <3>1, <3>3, <6>1, <6>2, SMT
        <5>2. 0 \in Offsets
          BY SMT DEF Offsets
        <5>3. (PageSize * (q + j) + 0) % PageSize = 0
          BY <3>1, <5>2, ModPage
        <5>4. ptr[j] % PageSize = 0
          BY <2>2, <3>1, <5>1, <5>3, SMT
        <5> QED
          BY <2>2, <3>1, <5>1, <5>4, SMT DEF PageOf
      <4> QED
        BY <3>1, <4>1, <4>2, SMT
    <3> QED
      BY <2>1, <2>2, <3>1, <3>4, SMT
  <2> QED
    BY <2>1, <2>5, <2>6
<1> QED
  BY <1>1, Loop, PTL
=============================================================================
