------------------------------ MODULE TdBuffer ------------------------------
(***************************************************************************)
(* ehci_td_buffer of ehci-hcd.c: the page pointers of a qTD for a buffer   *)
(* of sz bytes at buf.  The controller reads the offset into the first     *)
(* page from pointer 0 and goes on at the start of the page each further   *)
(* pointer names (EHCI 3.5.4).  Addresses are uint32_t and wrap.           *)
(***************************************************************************)
EXTENDS Integers

CONSTANTS
  PageSize,   \* 4096 in C
  Pages,      \* pointers of a qTD, 5 in C
  WordPages,  \* pages of the address space, 2^32 / 4096 in C
  LengthLimit, \* what the 15 bits of the length in qt_token hold, 2^15
  MaxSize     \* bound: the largest buffer asked for

ASSUME TdBufferAssumption ==
  /\ PageSize \in Nat \ {0} /\ Pages \in Nat \ {0} /\ WordPages \in Nat \ {0, 1}
  /\ MaxSize \in Nat
  /\ LengthLimit \in Nat /\ PageSize * Pages < LengthLimit

Word == PageSize * WordPages    \* 2^32
Offsets == 0 .. PageSize - 1
Addresses == {PageSize * q + r : q \in 0 .. WordPages - 1, r \in Offsets}

VARIABLES
  buf, size,  \* the arguments
  addr, sz,   \* the part of the buffer that still needs a pointer
  idx,
  ptr,        \* td->qt_buffer
  ret         \* "running", or what the function returns

vars == <<buf, size, addr, sz, idx, ptr, ret>>

(* A buffer is an object of the program: it does not wrap around the address space. *)
Init ==
  /\ buf \in Addresses /\ size \in 0 .. MaxSize /\ buf + size <= Word
  /\ addr = buf /\ sz = size /\ idx = 0
  /\ ptr = [i \in 0 .. Pages - 1 |-> 0]
  /\ ret = "running"

(* Seeded fault: the mask ~4095 is forgotten. *)
NextAddress(a) == (a + PageSize) % Word
(* (addr + 4096) & ~4095 *)
NextPage(a) == LET n == (a + PageSize) % Word IN n - (n % PageSize)

Delta == (NextPage(addr) - addr) % Word

(* Seeded fault: delta > sz. *)
IsLastStrict == Delta > sz
(* Seeded fault: delta == sz, so that the loop runs past the end of the buffer. *)
IsLastExact == Delta = sz
IsLast == Delta >= sz

Fill ==
  /\ ret = "running" /\ idx < Pages
  /\ ptr' = [ptr EXCEPT ![idx] = addr]
  /\ \/ IsLast /\ ret' = "ok" /\ UNCHANGED <<sz, addr, idx>>
     \/ /\ ~IsLast
        /\ sz' = sz - Delta /\ addr' = NextPage(addr) /\ idx' = idx + 1
        /\ UNCHANGED ret
  /\ UNCHANGED <<buf, size>>

(* Seeded fault: the test idx == 5 after the loop is forgotten. *)
AnyIsOk == "ok"
LoopResult == "failed"

OutOfPointers ==
  /\ ret = "running" /\ idx = Pages
  /\ ret' = LoopResult
  /\ UNCHANGED <<buf, size, addr, sz, idx, ptr>>

Next == Fill \/ OutOfPointers
Spec == Init /\ [][Next]_vars
----------------------------------------------------------------------------
TypeOK ==
  /\ buf \in Addresses /\ size \in 0 .. MaxSize
  /\ addr \in 0 .. Word - 1 /\ sz \in 0 .. MaxSize
  /\ idx \in 0 .. Pages /\ ptr \in [0 .. Pages - 1 -> 0 .. Word - 1]
  /\ ret \in {"running", "ok", "failed"}

(* When ehci_td_buffer succeeds the pointers name the whole buffer and nothing else: byte t
   of the page in pointer j is the byte of the buffer that the controller puts there, and
   there is a pointer for every byte. *)
PageOf(a) == a - (a % PageSize)
Reaches ==
  ret = "ok" =>
    /\ (buf % PageSize) + size <= PageSize * Pages
    /\ \A j \in 0 .. Pages - 1, t \in Offsets :
         LET k == PageSize * j + t - (buf % PageSize)  \* the k-th byte of the transfer
         IN  k \in 0 .. size - 1 => PageOf(ptr[j]) + t = buf + k

(* It fails only for a buffer that does not fit: a buffer that ends with the last page does. *)
FailsOnlyIfTooLong == ret = "failed" => (buf % PageSize) + size > PageSize * Pages

(* The length ehci_submit_async has put into bits 16 to 30 of qt_token did not reach into
   the toggle, bit 31, if the buffer got its pointers. *)
LengthFits == ret = "ok" => size < LengthLimit

(* The invariant of the loop: the pointers filled so far are the buffer's start and the
   starts of the pages after it, and what is left begins where they end. *)
FirstPage == PageOf(buf)
LoopInv ==
  /\ idx = 0 => addr = buf /\ sz = size
  /\ idx > 0 => /\ addr = FirstPage + PageSize * idx
                /\ addr + sz = buf + size /\ sz > 0
                /\ ptr[0] = buf
  /\ \A i \in 1 .. Pages - 1 : i < idx => ptr[i] = FirstPage + PageSize * i
  /\ ret = "ok" => /\ idx < Pages /\ ptr[idx] = addr
                   /\ buf + size <= FirstPage + PageSize * (idx + 1)
  /\ ret = "failed" => idx = Pages
=============================================================================
