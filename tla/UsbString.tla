----------------------------- MODULE UsbString -----------------------------
(***************************************************************************)
(* String descriptors (usb.c): usb_get_string, usb_string_sub,              *)
(* usb_try_string_workarounds and usb_string.  A device has a string of     *)
(* code units, each a pair of bytes; it fails some of the requests, as the  *)
(* schedule of a call says, one Boolean per control message.  A message     *)
(* that succeeds overwrites the start of the buffer and reports the number  *)
(* of bytes asked for, since the EHCI driver takes the length of the        *)
(* acknowledge stage.                                                       *)
(***************************************************************************)
EXTENDS Integers, Sequences, Loops

CONSTANT MaxAsk   \* the bytes usb_string_sub asks for first, 255 in C

IsPrint(b) == b \in 32..126 \cup 160..255

(* What the device sends when it is asked for size bytes. *)
Sent(desc, size) == SubSeq(desc, 1, IF size < Len(desc) THEN size ELSE Len(desc))
Overwritten(buf, data) == [i \in DOMAIN buf |-> IF i \in DOMAIN data THEN data[i] ELSE buf[i]]

(* s: the buffer, the result, the messages sent so far and the answers to all of them. *)
Message(s, desc, size) ==
  IF s.answers[s.sent + 1]
  THEN [s EXCEPT !.buf = Overwritten(@, Sent(desc, size)), !.rc = size, !.sent = @ + 1]
  ELSE [s EXCEPT !.rc = -1, !.sent = @ + 1]

(* Three tries, while the result is not positive. *)
Again(s, desc, size) == IF s.rc > 0 THEN s ELSE Message(s, desc, size)
UsbGetString(s, desc, size) == Again(Again(Message(s, desc, size), desc, size), desc, size)

(* usb_try_string_workarounds: a descriptor that begins with two zeros is as long as the
   characters in it go on. *)
NewLength(buf, old) ==
  Loop(Nat, {n \in Nat : n + 1 < old /\ IsPrint(buf[n + 1]) /\ buf[n + 2] = 0},
       [n \in Nat |-> n + 2], 2)

Workaround(s) ==
  LET n == NewLength(s.buf, s.rc)
  IN IF n > 2 THEN [s EXCEPT !.buf[1] = n, !.rc = n] ELSE s

(* usb_string_sub *)
Asked(s, desc) ==
  LET all == UsbGetString(s, desc, MaxAsk)
      two == UsbGetString(all, desc, 2)
  IN IF all.rc >= 2 THEN all
     ELSE IF two.rc = 2 THEN UsbGetString(two, desc, two.buf[1]) ELSE two

(* Seeded fault: the length the descriptor states is not looked at. *)
Uncut(s) == IF s.rc < 2 THEN [s EXCEPT !.rc = -1] ELSE [s EXCEPT !.rc = @ - (@ % 2)]

Cut(s) ==
  LET rc == IF s.buf[1] < s.rc THEN s.buf[1] ELSE s.rc
      even == rc - (rc % 2)
  IN IF s.rc < 2 \/ even < 2 THEN [s EXCEPT !.rc = -1] ELSE [s EXCEPT !.rc = even]

UsbStringSub(s, desc) ==
  LET t == Asked(s, desc)
  IN Cut(IF t.rc >= 2 /\ t.buf[1] = 0 /\ t.buf[2] = 0 THEN Workaround(t) ELSE t)

(* The conversion at the end of usb_string: one character for each code unit, at most size
   of them, and "?" for one that is not in a byte.  63 is "?". *)
Converted(s, size) ==
  LET n == IF (s.rc - 2) \div 2 < size THEN (s.rc - 2) \div 2 ELSE size
  IN [i \in 1..n |-> IF s.buf[2 * i + 2] # 0 THEN 63 ELSE s.buf[2 * i + 1]]

(* usb_string, with the language table read first if it is not known yet.  Returns -1 or
   the characters written; the buffer also gets a 0 behind them. *)
Failed == <<-1>>
StringOf(s, desc, size) ==
  LET t == UsbStringSub(s, desc) IN IF t.rc < 0 THEN Failed ELSE Converted(t, size - 1)

UsbString(s, langs, desc, size) ==
  LET t == UsbStringSub(s, langs)
  IN IF size = 0 THEN Failed
     ELSE IF s.have_langid THEN StringOf(s, desc, size)
     ELSE IF t.rc < 0 \/ t.buf[1] < 4 THEN Failed
     ELSE StringOf(t, desc, size)
=============================================================================
