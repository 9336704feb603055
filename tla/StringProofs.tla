---------------------------- MODULE StringProofs ----------------------------
(***************************************************************************)
(* Strings: usb_string returns what the device describes, for every string, *)
(* buffer, size and sequence of messages that fail; the comparisons, the    *)
(* searches, the copies and the splitters of string.c are right for strings *)
(* of any length over any characters.                                       *)
(***************************************************************************)
EXTENDS LibraryProofs

-----------------------------------------------------------------------------
(* Reading a string descriptor.                                            *)

Talks == [buf : [1..MaxAsk -> Nat], rc : Int, sent : Nat, answers : [1..18 -> BOOLEAN],
          have_langid : BOOLEAN]

(* t comes after s in the same call, at most k messages later. *)
Follows(s, t, k) == /\ t \in Talks /\ t.sent <= s.sent + k
                    /\ t.answers = s.answers /\ t.have_langid = s.have_langid

(* At most size bytes of desc are in the buffer, in front of what was there. *)
Holding(buf, desc, size, old) ==
  \A i \in 1..MaxAsk : buf[i] = IF i <= size /\ i <= Len(desc) THEN desc[i] ELSE old[i]

LEMMA OverwrittenHolds ==
  ASSUME NEW buf \in [1..MaxAsk -> Nat], NEW desc \in Seq(Nat), NEW size \in Nat
  PROVE  /\ Overwritten(buf, Sent(desc, size)) \in [1..MaxAsk -> Nat]
         /\ Holding(Overwritten(buf, Sent(desc, size)), desc, size, buf)
<1> DEFINE l == IF size < Len(desc) THEN size ELSE Len(desc)
           d == Sent(desc, size)
<1>1. Len(desc) \in Nat /\ \A i \in 1..Len(desc) : desc[i] \in Nat
  BY LenProperties, ElementOfSeq
<1>2. l \in Nat /\ l <= size /\ l <= Len(desc) /\ (l = size \/ l = Len(desc))
  BY <1>1
<1> HIDE DEF l
<1>3. \A i \in 1..l : desc[i] \in Nat
  BY <1>1, <1>2
<1>4. d \in Seq(Nat) /\ Len(d) = l /\ \A i \in 1..l : d[i] = desc[i]
  <2>1. /\ SubSeq(desc, 1, l) \in Seq(Nat) /\ Len(SubSeq(desc, 1, l)) = IF 1 <= l THEN l - 1 + 1 ELSE 0
        /\ \A i \in 1 .. l - 1 + 1 : SubSeq(desc, 1, l)[i] = desc[1 + i - 1]
    BY <1>2, <1>3, SubSeqProperties
  <2>2. d = SubSeq(desc, 1, l)
    BY DEF Sent, l
  <2> HIDE DEF d
  <2> QED
    BY <1>2, <2>1, <2>2
<1>5. DOMAIN d = 1..l
  BY <1>4, LenProperties
<1> HIDE DEF d
<1>6. DOMAIN buf = 1..MaxAsk
  OBVIOUS
<1>7. ASSUME NEW i \in 1..MaxAsk
      PROVE  /\ (IF i \in DOMAIN d THEN d[i] ELSE buf[i]) \in Nat
             /\ (IF i \in DOMAIN d THEN d[i] ELSE buf[i])
                  = IF i <= size /\ i <= Len(desc) THEN desc[i] ELSE buf[i]
  <2>0. i \in Int /\ i >= 1 /\ buf[i] \in Nat
    BY CallsAssumption
  <2>1. CASE i <= l
    <3>1. i \in 1..l
      BY <1>2, <2>0, <2>1
    <3> QED
      BY <1>2, <1>3, <1>4, <1>5, <2>0, <2>1, <3>1
  <2>2. CASE ~(i <= l)
    <3>1. i \notin 1..l
      BY <1>2, <2>0, <2>2
    <3>2. ~(i <= size /\ i <= Len(desc))
      BY <1>1, <1>2, <2>0, <2>2
    <3> QED
      BY <1>5, <2>0, <3>1, <3>2
  <2> QED
    BY <2>1, <2>2
<1>8. Overwritten(buf, d) = [i \in 1..MaxAsk |-> IF i \in DOMAIN d THEN d[i] ELSE buf[i]]
  BY <1>6, Zenon DEF Overwritten
<1>9. Overwritten(buf, d) \in [1..MaxAsk -> Nat]
  BY <1>7, <1>8
<1>10. Holding(Overwritten(buf, d), desc, size, buf)
  BY <1>7, <1>8 DEF Holding
<1> QED
  BY <1>9, <1>10 DEF d

(* One message. *)
LEMMA MessageIs ==
  ASSUME NEW s \in Talks, s.sent + 1 <= 18, NEW desc \in Seq(Nat), NEW size \in Nat
  PROVE  /\ Follows(s, Message(s, desc, size), 1)
         /\ Message(s, desc, size).sent = s.sent + 1
         /\ \/ /\ s.answers[s.sent + 1] /\ Message(s, desc, size).rc = size
               /\ Holding(Message(s, desc, size).buf, desc, size, s.buf)
            \/ /\ ~s.answers[s.sent + 1] /\ Message(s, desc, size).rc = -1
               /\ Message(s, desc, size).buf = s.buf
<1> DEFINE o == Overwritten(s.buf, Sent(desc, size))
           n == s.sent + 1
           good == [s EXCEPT !.buf = o, !.rc = size, !.sent = n]
           bad == [s EXCEPT !.rc = -1, !.sent = n]
           m == Message(s, desc, size)
<1>1. s.buf \in [1..MaxAsk -> Nat] /\ s.sent \in Nat
  BY Zenon DEF Talks
<1>2. o \in [1..MaxAsk -> Nat] /\ Holding(o, desc, size, s.buf)
  BY <1>1, OverwrittenHolds
<1>3. n \in Nat /\ n <= n /\ -1 \in Int /\ size \in Int
  BY <1>1
<1>4. m = IF s.answers[n] THEN good ELSE bad
  BY Zenon DEF Message
<1>5. n = s.sent + 1
  OBVIOUS
<1> HIDE DEF o, n, m
<1>6. /\ good \in Talks /\ good.sent = n /\ good.answers = s.answers
      /\ good.have_langid = s.have_langid /\ good.rc = size /\ good.buf = o
  BY <1>2, <1>3, Zenon DEF Talks
<1>7. /\ bad \in Talks /\ bad.sent = n /\ bad.answers = s.answers
      /\ bad.have_langid = s.have_langid /\ bad.rc = -1 /\ bad.buf = s.buf
  BY <1>3, Zenon DEF Talks
<1> HIDE DEF good, bad
<1>8. CASE s.answers[n]
  <2>1. Follows(s, m, 1)
    BY <1>3, <1>4, <1>5, <1>6, <1>8, Zenon DEF Follows
  <2> QED
    BY <1>2, <1>4, <1>5, <1>6, <1>8, <2>1, Zenon DEF m
<1>9. CASE ~s.answers[n]
  <2>1. Follows(s, m, 1)
    BY <1>3, <1>4, <1>5, <1>7, <1>9, Zenon DEF Follows
  <2> QED
    BY <1>4, <1>5, <1>7, <1>9, <2>1, Zenon DEF m
<1> QED
  BY <1>8, <1>9, Zenon

(* What is known after k tries: one of them brought size bytes, or all of them failed. *)
Tried(s, t, desc, size, k) ==
  /\ Follows(s, t, k)
  /\ t.rc > 0 => t.rc = size /\ Holding(t.buf, desc, size, s.buf)
  /\ ~(t.rc > 0) /\ size > 0 =>
       t.sent = s.sent + k /\ t.buf = s.buf /\ \A i \in 1..k : ~s.answers[s.sent + i]

LEMMA TriedOnce ==
  ASSUME NEW s \in Talks, s.sent + 1 <= 18, NEW desc \in Seq(Nat), NEW size \in Nat
  PROVE  Tried(s, Message(s, desc, size), desc, size, 1)
<1> DEFINE t == Message(s, desc, size)
<1>1. /\ Follows(s, t, 1) /\ t.sent = s.sent + 1
      /\ \/ s.answers[s.sent + 1] /\ t.rc = size /\ Holding(t.buf, desc, size, s.buf)
         \/ ~s.answers[s.sent + 1] /\ t.rc = -1 /\ t.buf = s.buf
  BY MessageIs
<1> HIDE DEF t
<1>2. ~(-1 > 0) /\ \A i \in 1..1 : i = 1
  OBVIOUS
<1>5. Follows(s, t, 1) /\ t.sent = s.sent + 1
  BY <1>1
<1> DEFINE yes == s.answers[s.sent + 1]
<1>3. CASE yes
  <2>1. t.rc = size /\ Holding(t.buf, desc, size, s.buf)
    BY <1>1, <1>3, Zenon
  <2>2. ~(t.rc > 0) => ~(size > 0)
    BY <2>1, Zenon
  <2> QED
    BY <1>5, <2>1, <2>2, Zenon DEF Tried, t
<1>4. CASE ~yes
  <2>1. t.rc = -1 /\ t.buf = s.buf
    BY <1>1, <1>4, Zenon
  <2>2. \A i \in 1..1 : ~s.answers[s.sent + i]
    BY <1>2, <1>4, Zenon
  <2>3. ~(t.rc > 0)
    BY <1>2, <2>1, Zenon
  <2> QED
    BY <1>5, <2>1, <2>2, <2>3, Zenon DEF Tried, t
<1> QED
  BY <1>3, <1>4, Zenon DEF t

LEMMA TriedAgain ==
  ASSUME NEW s \in Talks, NEW desc \in Seq(Nat), NEW size \in Nat, NEW k \in 1..2,
         s.sent + k + 1 <= 18, NEW t, Tried(s, t, desc, size, k)
  PROVE  Tried(s, Again(t, desc, size), desc, size, k + 1)
<1>1. /\ t \in Talks /\ t.sent <= s.sent + k /\ t.answers = s.answers
      /\ t.have_langid = s.have_langid
  BY Zenon DEF Tried, Follows
<1>2. s.sent \in Nat /\ t.sent \in Nat /\ t.rc \in Int
  BY <1>1, Zenon DEF Talks
<1>3. k \in Nat /\ t.sent + 1 <= 18 /\ t.sent <= s.sent + (k + 1) /\ s.sent + (k + 1) = s.sent + k + 1
  <2>1. \A x, y, z \in Nat : x + z + 1 <= 18 /\ y <= x + z =>
          y + 1 <= 18 /\ y <= x + (z + 1) /\ x + (z + 1) = x + z + 1
    OBVIOUS
  <2>2. k \in Nat
    OBVIOUS
  <2> QED
    BY <1>1, <1>2, <2>1, <2>2, Zenon
<1>4. CASE t.rc > 0
  <2>1. Again(t, desc, size) = t
    BY <1>4 DEF Again
  <2>2. Follows(s, t, k + 1)
    BY <1>1, <1>3, Zenon DEF Follows
  <2> QED
    BY <1>4, <2>1, <2>2, Zenon DEF Tried
<1>5. CASE ~(t.rc > 0)
  <2> DEFINE r == Message(t, desc, size)
  <2>1. Again(t, desc, size) = r
    BY <1>5 DEF Again
  <2>2. /\ Follows(t, r, 1) /\ r.sent = t.sent + 1
        /\ \/ t.answers[t.sent + 1] /\ r.rc = size /\ Holding(r.buf, desc, size, t.buf)
           \/ ~t.answers[t.sent + 1] /\ r.rc = -1 /\ r.buf = t.buf
    BY <1>1, <1>3, MessageIs
  <2> HIDE DEF r
  <2>3. Follows(s, r, k + 1)
    <3>1. r.sent <= s.sent + (k + 1)
      BY <1>1, <1>2, <1>3, <2>2
    <3> QED
      BY <1>1, <2>2, <3>1, Zenon DEF Follows
  <2>4. CASE size > 0
    <3>1. t.sent = s.sent + k /\ t.buf = s.buf /\ \A i \in 1..k : ~s.answers[s.sent + i]
      BY <1>5, <2>4, Zenon DEF Tried
    <3>2. t.sent + 1 = s.sent + (k + 1)
      BY <1>2, <1>3, <3>1
    <3>3. CASE t.answers[t.sent + 1]
      <4>1. r.rc > 0
        BY <2>2, <2>4, <3>3
      <4> QED
        BY <2>1, <2>2, <2>3, <3>1, <3>3, <4>1, Zenon DEF Tried
    <3>4. CASE ~t.answers[t.sent + 1]
      <4>1. ~s.answers[s.sent + (k + 1)]
        BY <1>1, <3>2, <3>4
      <4>2. \A i \in 1 .. k + 1 : i \in 1..k \/ i = k + 1
        BY <1>3
      <4>3. \A i \in 1 .. k + 1 : ~s.answers[s.sent + i]
        BY <3>1, <4>1, <4>2, Zenon
      <4>4. r.rc = -1 /\ ~(r.rc > 0) /\ r.buf = s.buf /\ r.sent = s.sent + (k + 1)
        BY <2>2, <3>1, <3>2, <3>4
      <4> QED
        BY <2>1, <2>3, <4>3, <4>4, Zenon DEF Tried
    <3> QED
      BY <3>3, <3>4
  <2>5. CASE ~(size > 0)
    <3>1. ~(r.rc > 0)
      BY <2>2, <2>5
    <3> QED
      BY <2>1, <2>3, <2>5, <3>1, Zenon DEF Tried
  <2> QED
    BY <2>4, <2>5
<1> QED
  BY <1>4, <1>5

(* usb_get_string *)
LEMMA UsbGetStringTries ==
  ASSUME NEW s \in Talks, s.sent + 3 <= 18, NEW desc \in Seq(Nat), NEW size \in Nat
  PROVE  /\ Follows(s, UsbGetString(s, desc, size), 3)
         /\ UsbGetString(s, desc, size).rc > 0 =>
              /\ UsbGetString(s, desc, size).rc = size
              /\ Holding(UsbGetString(s, desc, size).buf, desc, size, s.buf)
         /\ ~(UsbGetString(s, desc, size).rc > 0) /\ size > 0 => FailsThrice(s.answers)
<1> DEFINE a == Message(s, desc, size)
           b == Again(a, desc, size)
           t == Again(b, desc, size)
<1>1. s.sent \in Nat /\ s.answers \in [1..18 -> BOOLEAN]
  BY Zenon DEF Talks
<1>0. s.sent \in Nat
  BY <1>1
<1>2. s.sent + 1 <= 18 /\ s.sent + 1 + 1 <= 18 /\ s.sent + 2 + 1 <= 18 /\ 1 \in 1..2 /\ 2 \in 1..2
      /\ 1 + 1 = 2 /\ 2 + 1 = 3
  BY <1>0
<1>3. Tried(s, a, desc, size, 1)
  BY <1>2, TriedOnce
<1> HIDE DEF a
<1>4. Tried(s, b, desc, size, 2)
  <2>1. Tried(s, b, desc, size, 1 + 1)
    BY <1>2, <1>3, TriedAgain, Zenon
  <2> QED
    BY <1>2, <2>1, Zenon
<1> HIDE DEF b
<1>5. Tried(s, t, desc, size, 3)
  <2>1. Tried(s, t, desc, size, 2 + 1)
    BY <1>2, <1>4, TriedAgain, Zenon
  <2> QED
    BY <1>2, <2>1, Zenon
<1> HIDE DEF t
<1>6. UsbGetString(s, desc, size) = t
  BY DEF UsbGetString, a, b, t
<1>7. ASSUME ~(t.rc > 0), size > 0 PROVE FailsThrice(s.answers)
  <2>1. \A i \in 1..3 : ~s.answers[s.sent + i]
    BY <1>5, <1>7, Zenon DEF Tried
  <2> DEFINE i == s.sent + 1
  <2>2. i \in 1..18 /\ i + 2 \in 1..18
    <3>1. \A n \in Nat : n + 3 <= 18 => n + 1 \in 1..18 /\ (n + 1) + 2 \in 1..18
      OBVIOUS
    <3> QED
      BY <1>0, <3>1, Zenon
  <2>3. \A j \in i .. i + 2 : j - s.sent \in 1..3 /\ s.sent + (j - s.sent) = j
    <3>1. \A n \in Nat : \A j \in n + 1 .. (n + 1) + 2 : j - n \in 1..3 /\ n + (j - n) = j
      OBVIOUS
    <3> QED
      BY <1>0, <3>1, Zenon
  <2>4. \A j \in i .. i + 2 : ~s.answers[j]
    BY <2>1, <2>3, Zenon
  <2>5. DOMAIN s.answers = 1..18
    BY <1>1
  <2> HIDE DEF i
  <2> QED
    BY <2>2, <2>4, <2>5, Zenon DEF FailsThrice
<1> QED
  BY <1>5, <1>6, <1>7, Zenon DEF Tried

(* usb_string_sub asks for all of the descriptor and, if that fails, for its length first. *)
LEMMA AskedTells ==
  ASSUME NEW s \in Talks, s.sent + 9 <= 18, NEW desc \in Seq(Nat),
         Len(desc) >= 2, Len(desc) <= MaxAsk, desc[1] \in {0, Len(desc)}
  PROVE  /\ Follows(s, Asked(s, desc), 9)
         /\ Asked(s, desc).rc < 2 => FailsThrice(s.answers)
         /\ Asked(s, desc).rc >= 2 =>
              /\ Asked(s, desc).rc = MaxAsk \/ Asked(s, desc).rc = desc[1]
              /\ \A i \in 1..Len(desc) : Asked(s, desc).buf[i] = desc[i]
<1> DEFINE all == UsbGetString(s, desc, MaxAsk)
           two == UsbGetString(all, desc, 2)
           third == UsbGetString(two, desc, two.buf[1])
           l == Len(desc)
<1>0. l \in Nat /\ l >= 2 /\ l <= MaxAsk /\ MaxAsk \in Nat /\ MaxAsk >= 4
  BY CallsAssumption, LenProperties
<1>1. s.sent \in Nat
  BY Zenon DEF Talks
<1>2. /\ s.sent + 3 <= 18 /\ MaxAsk > 0 /\ 2 \in Nat /\ 2 > 0 /\ ~(MaxAsk < 2) /\ ~(2 < 2)
  BY <1>0, <1>1
<1>3. /\ Follows(s, all, 3)
      /\ all.rc > 0 => all.rc = MaxAsk /\ Holding(all.buf, desc, MaxAsk, s.buf)
      /\ ~(all.rc > 0) => FailsThrice(s.answers)
  BY <1>0, <1>2, UsbGetStringTries, Zenon
<1> HIDE DEF all
<1>4. all \in Talks /\ all.sent <= s.sent + 3 /\ all.answers = s.answers
  BY <1>3, Zenon DEF Follows
<1>5. all.sent \in Nat /\ all.rc \in Int
  BY <1>4, Zenon DEF Talks
<1>6. all.sent + 3 <= 18
  BY <1>1, <1>4, <1>5
<1>7. /\ Follows(all, two, 3)
      /\ two.rc > 0 => two.rc = 2 /\ Holding(two.buf, desc, 2, all.buf)
  BY <1>2, <1>4, <1>6, UsbGetStringTries, Zenon
<1> HIDE DEF two
<1>8. two \in Talks /\ two.sent <= all.sent + 3 /\ two.answers = s.answers
  BY <1>4, <1>7, Zenon DEF Follows
<1>9. two.sent \in Nat /\ two.rc \in Int /\ two.buf \in [1..MaxAsk -> Nat]
  BY <1>8, Zenon DEF Talks
<1>22. \A x, y, z, w \in Nat :
         /\ x + 9 <= 18 /\ y <= x + 3 /\ z <= y + 3 => z + 3 <= 18
         /\ y <= x + 3 /\ z <= y + 3 /\ w <= z + 3 => y <= x + 9 /\ z <= x + 9 /\ w <= x + 9
  OBVIOUS
<1>10. two.sent + 3 <= 18
  BY <1>1, <1>4, <1>5, <1>8, <1>9, <1>22, Zenon
<1>11. 1 \in 1..MaxAsk /\ two.buf[1] \in Nat
  BY <1>0, <1>9
<1>12. /\ Follows(two, third, 3)
       /\ third.rc > 0 => third.rc = two.buf[1] /\ Holding(third.buf, desc, two.buf[1], two.buf)
  BY <1>8, <1>10, <1>11, UsbGetStringTries, Zenon
<1> HIDE DEF third
<1>13. third \in Talks /\ third.sent <= two.sent + 3 /\ third.answers = s.answers
  BY <1>8, <1>12, Zenon DEF Follows
<1>14. third.sent \in Nat /\ third.rc \in Int
  BY <1>13, Zenon DEF Talks
<1>15. /\ all.have_langid = s.have_langid /\ two.have_langid = s.have_langid
       /\ third.have_langid = s.have_langid
  BY <1>3, <1>7, <1>12, Zenon DEF Follows
<1>16. all.sent <= s.sent + 9 /\ two.sent <= s.sent + 9 /\ third.sent <= s.sent + 9
  BY <1>1, <1>4, <1>5, <1>8, <1>9, <1>13, <1>14, <1>22, Zenon
<1>17. Follows(s, all, 9) /\ Follows(s, two, 9) /\ Follows(s, third, 9)
  BY <1>4, <1>8, <1>13, <1>15, <1>16, Zenon DEF Follows
<1> DEFINE a == Asked(s, desc)
<1>18. a = IF all.rc >= 2 THEN all ELSE IF two.rc = 2 THEN third ELSE two
  BY Zenon DEF Asked, all, two, third
<1> HIDE DEF a
<1>19. CASE all.rc >= 2
  <2>1. a = all /\ all.rc > 0 /\ ~(all.rc < 2)
    BY <1>5, <1>18, <1>19
  <2>2. all.rc = MaxAsk /\ Holding(all.buf, desc, MaxAsk, s.buf)
    BY <1>3, <2>1
  <2>3. \A i \in 1..l : i \in 1..MaxAsk /\ i <= MaxAsk /\ i <= l
    BY <1>0
  <2>4. \A i \in 1..l : all.buf[i] = desc[i]
    BY <2>2, <2>3, Zenon DEF Holding
  <2> QED
    BY <1>17, <2>1, <2>2, <2>4, Zenon DEF a
<1>20. CASE ~(all.rc >= 2) /\ two.rc = 2
  <2>1. a = third
    BY <1>18, <1>20
  <2>2. FailsThrice(s.answers)
    BY <1>0, <1>3, <1>5, <1>20
  <2>3. ASSUME third.rc >= 2
        PROVE  third.rc = desc[1] /\ \A i \in 1..l : third.buf[i] = desc[i]
    <3>1. two.rc > 0 /\ third.rc > 0
      BY <1>14, <1>20, <2>3
    <3>2. Holding(two.buf, desc, 2, all.buf)
      BY <1>7, <3>1, Zenon
    <3>3. 1 <= 2 /\ 1 <= l
      BY <1>0
    <3>4. two.buf[1] = desc[1]
      BY <1>11, <3>2, <3>3, Zenon DEF Holding
    <3>5. third.rc = desc[1] /\ Holding(third.buf, desc, desc[1], two.buf)
      BY <1>12, <3>1, <3>4, Zenon
    <3>6. desc[1] = l
      BY <1>0, <2>3, <3>5
    <3>7. \A i \in 1..l : i \in 1..MaxAsk /\ i <= desc[1] /\ i <= l
      BY <1>0, <3>6
    <3> QED
      BY <3>5, <3>7, Zenon DEF Holding
  <2> QED
    BY <1>17, <2>1, <2>2, <2>3, Zenon DEF a
<1>21. CASE ~(all.rc >= 2) /\ two.rc # 2
  <2>1. a = two
    BY <1>18, <1>21
  <2>2. FailsThrice(s.answers)
    BY <1>0, <1>3, <1>5, <1>21
  <2>3. ~(two.rc >= 2)
    BY <1>7, <1>9, <1>21
  <2> QED
    BY <1>17, <2>1, <2>2, <2>3, Zenon DEF a
<1> QED
  BY <1>19, <1>20, <1>21

(* usb_try_string_workarounds: the units in the buffer up to the first that is no character. *)
Clean(buf, i) == IsPrint(buf[2 * i + 1]) /\ buf[2 * i + 2] = 0

LEMMA NewLengthStops ==
  ASSUME NEW buf, NEW old \in Nat, old >= 2
  PROVE  \E k \in Nat : /\ NewLength(buf, old) = 2 * k + 2 /\ 2 * k + 2 <= old
                        /\ \A i \in 1..k : Clean(buf, i)
                        /\ 2 * k + 3 < old => ~Clean(buf, k + 1)
<1> DEFINE G == {n \in Nat : n + 1 < old /\ IsPrint(buf[n + 1]) /\ buf[n + 2] = 0}
           step == [n \in Nat |-> n + 2]
           m == [n \in Nat |-> IF n < old THEN old - n ELSE 0]
           I == {n \in Nat : \E k \in Nat : /\ n = 2 * k + 2 /\ n <= old
                                            /\ \A i \in 1..k : Clean(buf, i)}
           two == 2
           e == Loop(Nat, G, step, two)
<1>1. Measured(Nat, G, step, m)
  <2>1. m \in [Nat -> Nat]
    OBVIOUS
  <2>2. ASSUME NEW x \in Nat, x \in G PROVE step[x] \in Nat /\ m[step[x]] < m[x]
    <3>1. x + 1 < old
      BY <2>2
    <3>2. step[x] = x + 2 /\ x + 2 \in Nat
      OBVIOUS
    <3>3. m[x] = old - x /\ m[x + 2] = (IF x + 2 < old THEN old - (x + 2) ELSE 0)
      BY <3>1
    <3> HIDE DEF m, step
    <3> QED
      BY <3>1, <3>2, <3>3
  <2> HIDE DEF G, step, m
  <2> QED
    BY <2>1, <2>2 DEF Measured
<1>2. ASSUME NEW x \in I, x \in G PROVE step[x] \in I
  <2>1. PICK k \in Nat : x = 2 * k + 2 /\ x <= old /\ \A i \in 1..k : Clean(buf, i)
    BY <1>2, Zenon
  <2>2. x + 1 < old /\ IsPrint(buf[x + 1]) /\ buf[x + 2] = 0
    BY <1>2, Zenon
  <2>3. x + 1 = 2 * (k + 1) + 1 /\ x + 2 = 2 * (k + 1) + 2
    BY <2>1
  <2>4. Clean(buf, k + 1)
    BY <2>2, <2>3, Zenon DEF Clean
  <2>5. \A i \in 1 .. k + 1 : i \in 1..k \/ i = k + 1
    BY <2>1
  <2>6. \A i \in 1 .. k + 1 : Clean(buf, i)
    BY <2>1, <2>4, <2>5, Zenon
  <2>7. k + 1 \in Nat /\ x + 2 \in Nat /\ x + 2 = 2 * (k + 1) + 2 /\ x + 2 <= old
    BY <2>1, <2>2
  <2>8. step[x] = x + 2
    BY <2>1
  <2> HIDE DEF step
  <2> QED
    BY <2>6, <2>7, <2>8, Zenon
<1>3. two \in I
  <2>1. 0 \in Nat /\ 2 \in Nat /\ 2 = 2 * 0 + 2 /\ 2 <= old /\ \A i \in 1..0 : Clean(buf, i)
    OBVIOUS
  <2> QED
    BY <2>1, Zenon
<1>4. e \in I \ G
  <2>1. I \in SUBSET Nat
    OBVIOUS
  <2>2. \A x \in I : x \in G => step[x] \in I
    BY <1>2
  <2> HIDE DEF I, G, step, m, two
  <2> QED
    BY <1>1, <1>3, <2>1, <2>2, LoopResult, Zenon
<1>5. NewLength(buf, old) = e
  BY Zenon DEF NewLength
<1> HIDE DEF e
<1>6. PICK k \in Nat : e = 2 * k + 2 /\ e <= old /\ \A i \in 1..k : Clean(buf, i)
  BY <1>4, Zenon
<1>7. ~(e + 1 < old /\ IsPrint(buf[e + 1]) /\ buf[e + 2] = 0)
  BY <1>4, Zenon
<1>8. e + 1 = 2 * (k + 1) + 1 /\ e + 2 = 2 * (k + 1) + 2 /\ e + 1 = 2 * k + 3
  BY <1>6
<1>9. 2 * k + 3 < old => ~Clean(buf, k + 1)
  BY <1>7, <1>8, Zenon DEF Clean
<1> QED
  BY <1>5, <1>6, <1>9, Zenon

(* What the device describes. *)
LEMMA FunctionIsSeq ==
  ASSUME NEW S, NEW n \in Nat, NEW f \in [1..n -> S]
  PROVE  f \in Seq(S) /\ Len(f) = n
<1>1. f \in Seq(S)
  BY SeqDef
<1>2. Len(f) \in Nat /\ DOMAIN f = 1..Len(f)
  BY <1>1, LenProperties
<1>3. DOMAIN f = 1..n
  OBVIOUS
<1>4. \A a, b \in Nat : 1..a = 1..b => a = b
  <2> SUFFICES ASSUME NEW a \in Nat, NEW b \in Nat, 1..a = 1..b PROVE a = b
    OBVIOUS
  <2>1. ~(a < b)
    <3>1. a < b => b \in 1..b /\ b \notin 1..a
      OBVIOUS
    <3> QED
      BY <3>1
  <2>2. ~(b < a)
    <3>1. b < a => a \in 1..a /\ a \notin 1..b
      OBVIOUS
    <3> QED
      BY <3>1
  <2> QED
    BY <2>1, <2>2
<1> QED
  BY <1>1, <1>2, <1>3, <1>4

LEMMA TextIs ==
  ASSUME NEW A, NEW n \in Nat, NEW u \in Texts(A, n)
  PROVE  /\ u \in Seq(A) /\ Len(u) \in Nat /\ Len(u) <= n
         /\ \A i \in 1..Len(u) : u[i] \in A
<1>1. PICK k \in 0..n : u \in [1..k -> A]
  BY DEF Texts
<1>2. k \in Nat /\ k <= n
  BY <1>1
<1>3. u \in Seq(A) /\ Len(u) = k
  BY <1>1, <1>2, FunctionIsSeq
<1> QED
  BY <1>2, <1>3, ElementOfSeq

Pairs == (0..255) \X (0..255)
Described == {u \in Seq(Pairs) : 2 * Len(u) + 2 <= MaxAsk}

LEMMA DescriptorIs ==
  ASSUME NEW u \in Described, NEW broken \in BOOLEAN
  PROVE  /\ Descriptor(u, broken) \in Seq(Nat)
         /\ Len(Descriptor(u, broken)) = 2 * Len(u) + 2 /\ Len(u) \in Nat /\ 2 * Len(u) + 2 <= MaxAsk
         /\ Descriptor(u, broken)[1] = IF broken THEN 0 ELSE 2 * Len(u) + 2
         /\ Descriptor(u, broken)[2] = IF broken THEN 0 ELSE 3
         /\ \A i \in 1..Len(u) : /\ Descriptor(u, broken)[2 * i + 1] = u[i][1]
                                 /\ Descriptor(u, broken)[2 * i + 2] = u[i][2]
<1> DEFINE l == Len(u)
           byte(i) == IF i = 1 THEN (IF broken THEN 0 ELSE 2 * l + 2)
                      ELSE IF i = 2 THEN (IF broken THEN 0 ELSE 3)
                      ELSE u[(i - 1) \div 2][IF i % 2 = 1 THEN 1 ELSE 2]
           d == [i \in 1 .. 2 * l + 2 |-> byte(i)]
<1>1. MaxAsk \in Nat
  BY CallsAssumption
<1>2. l \in Nat /\ 2 * l + 2 <= MaxAsk /\ \A i \in 1..l : u[i] \in Pairs
  BY LenProperties, ElementOfSeq DEF Described
<1> HIDE DEF l
<1>3. \A i \in 1..l : u[i][1] \in Nat /\ u[i][2] \in Nat
  <2>1. \A p \in Pairs : p[1] \in 0..255 /\ p[2] \in 0..255
    BY Zenon DEF Pairs
  <2>2. \A n \in 0..255 : n \in Nat
    OBVIOUS
  <2> QED
    BY <1>2, <2>1, <2>2, Zenon
<1>4. ASSUME NEW i \in 1 .. 2 * l + 2 PROVE byte(i) \in Nat
  <2>1. CASE i = 1
    <3>1. 0 \in Nat /\ 2 * l + 2 \in Nat
      BY <1>2
    <3> QED
      BY <2>1, <3>1, Zenon
  <2>2. CASE i = 2
    <3>1. 0 \in Nat /\ 3 \in Nat /\ i # 1
      BY <2>2
    <3> QED
      BY <2>2, <3>1, Zenon
  <2>3. CASE i # 1 /\ i # 2
    <3> DEFINE j == (i - 1) \div 2
    <3>1. j \in 1..l
      BY <1>2, <2>3
    <3> HIDE DEF j
    <3>2. u[j][1] \in Nat /\ u[j][2] \in Nat
      BY <1>3, <3>1
    <3>3. byte(i) = u[j][IF i % 2 = 1 THEN 1 ELSE 2]
      BY <2>3, Zenon DEF j
    <3> HIDE DEF byte
    <3> QED
      BY <3>2, <3>3, Zenon
  <2> QED
    BY <2>1, <2>2, <2>3
<1>5. Descriptor(u, broken) = d
  BY Zenon DEF Descriptor, l
<1>6. \A i \in 1 .. 2 * l + 2 : d[i] = byte(i)
  BY Zenon
<1>7. d \in Seq(Nat) /\ Len(d) = 2 * l + 2
  <2>1. 2 * l + 2 \in Nat
    BY <1>2
  <2> HIDE DEF byte
  <2>2. d \in [1 .. 2 * l + 2 -> Nat]
    BY <1>4
  <2> HIDE DEF d
  <2> QED
    BY <2>1, <2>2, FunctionIsSeq
<1> HIDE DEF d
<1>8. 1 \in 1 .. 2 * l + 2 /\ 2 \in 1 .. 2 * l + 2 /\ 2 # 1 /\ 2 * l + 2 <= MaxAsk
  BY <1>1, <1>2
<1>9. d[1] = (IF broken THEN 0 ELSE 2 * l + 2) /\ d[2] = IF broken THEN 0 ELSE 3
  BY <1>6, <1>8, Zenon
<1>10. ASSUME NEW i \in 1..l PROVE d[2 * i + 1] = u[i][1] /\ d[2 * i + 2] = u[i][2]
  <2> DEFINE a == 2 * i + 1
             b == 2 * i + 2
  <2>1. /\ a \in 1 .. 2 * l + 2 /\ a # 1 /\ a # 2 /\ (a - 1) \div 2 = i /\ a % 2 = 1
        /\ b \in 1 .. 2 * l + 2 /\ b # 1 /\ b # 2 /\ (b - 1) \div 2 = i /\ b % 2 # 1
    BY <1>2
  <2> HIDE DEF a, b
  <2>2. d[a] = u[i][1]
    BY <1>6, <2>1, Zenon
  <2>3. d[b] = u[i][2]
    BY <1>6, <2>1, Zenon
  <2> QED
    BY <2>2, <2>3 DEF a, b
<1> QED
  BY <1>2, <1>5, <1>7, <1>8, <1>9, <1>10, Zenon DEF l

LEMMA ReadableIs ==
  ASSUME NEW u, Len(u) \in Nat, NEW broken \in BOOLEAN
  PROVE  /\ Readable(u, broken) \in Nat /\ Readable(u, broken) <= Len(u)
         /\ broken => /\ \A i \in 1..Readable(u, broken) : Plain(u[i])
                      /\ Readable(u, broken) < Len(u) => ~Plain(u[Readable(u, broken) + 1])
         /\ ~broken => Readable(u, broken) = Len(u)
<1> DEFINE l == Len(u)
           Right(n) == (\A i \in 1..n : Plain(u[i])) /\ (n < l => ~Plain(u[n + 1]))
           T == {n \in Nat : n <= l /\ (n < l => ~Plain(u[n + 1]))}
           r == CHOOSE n \in 0..l : Right(n)
<1>1. l \in Nat
  OBVIOUS
<1>9. broken => Readable(u, broken) = r
  BY Zenon DEF Readable
<1>10. ~broken => Readable(u, broken) = l
  BY Zenon DEF Readable
<1> HIDE DEF l
<1>2. l \in T
  BY <1>1
<1>3. PICK n \in T : \A m \in T : ~(m < n)
  <2>1. T \in SUBSET Nat /\ T # {}
    BY <1>2
  <2> HIDE DEF T
  <2> QED
    BY <2>1, Minimal
<1>4. n \in Nat /\ n <= l /\ (n < l => ~Plain(u[n + 1]))
  BY <1>3, Zenon
<1>5. ASSUME NEW i \in 1..n PROVE Plain(u[i])
  <2>1. i - 1 \in Nat /\ i - 1 < n /\ i - 1 < l /\ i - 1 <= l /\ (i - 1) + 1 = i
    BY <1>1, <1>4
  <2>2. i - 1 \notin T
    BY <1>3, <2>1
  <2> QED
    BY <2>1, <2>2, Zenon
<1>6. n \in 0..l /\ Right(n)
  <2>1. n \in 0..l
    BY <1>1, <1>4
  <2> QED
    BY <1>4, <1>5, <2>1, Zenon
<1>7. r \in 0..l /\ Right(r)
  BY <1>6, Zenon
<1> HIDE DEF r, T
<1>8. r \in Nat /\ r <= l /\ l <= l
  BY <1>1, <1>7
<1> QED
  BY <1>1, <1>7, <1>8, <1>9, <1>10, Zenon DEF l

(* usb_string_sub: the result is a length of whole units, those that can be read among them. *)
LEMMA CutKeeps ==
  ASSUME NEW w \in Talks
  PROVE  /\ Cut(w) \in Talks /\ Cut(w).sent = w.sent /\ Cut(w).answers = w.answers
         /\ Cut(w).have_langid = w.have_langid /\ Cut(w).buf = w.buf
         /\ \E rc \in Int : /\ rc = IF w.buf[1] < w.rc THEN w.buf[1] ELSE w.rc
                            /\ Cut(w).rc = IF w.rc < 2 \/ rc - (rc % 2) < 2 THEN -1 ELSE rc - (rc % 2)
<1> DEFINE rc == IF w.buf[1] < w.rc THEN w.buf[1] ELSE w.rc
           even == rc - (rc % 2)
           low == w.rc < 2 \/ even < 2
           good == [w EXCEPT !.rc = even]
           bad == [w EXCEPT !.rc = -1]
           c == Cut(w)
<1>1. w.buf \in [1..MaxAsk -> Nat] /\ w.rc \in Int
  BY Zenon DEF Talks
<1>2. 1 \in 1..MaxAsk /\ -1 \in Int
  BY CallsAssumption
<1>3. w.buf[1] \in Int
  <2>1. w.buf[1] \in Nat
    BY <1>1, <1>2
  <2> QED
    BY <2>1
<1>4. rc \in Int
  BY <1>1, <1>3
<1>5. c = IF low THEN bad ELSE good
  BY Zenon DEF Cut
<1>6. rc = IF w.buf[1] < w.rc THEN w.buf[1] ELSE w.rc
  OBVIOUS
<1> HIDE DEF rc
<1>7. even \in Int
  BY <1>4
<1>8. low <=> w.rc < 2 \/ rc - (rc % 2) < 2
  BY Zenon
<1>9. even = rc - (rc % 2)
  OBVIOUS
<1> HIDE DEF even, c, low
<1>10. /\ good \in Talks /\ good.sent = w.sent /\ good.answers = w.answers
       /\ good.have_langid = w.have_langid /\ good.buf = w.buf /\ good.rc = even
  BY <1>7, Zenon DEF Talks
<1>11. /\ bad \in Talks /\ bad.sent = w.sent /\ bad.answers = w.answers
       /\ bad.have_langid = w.have_langid /\ bad.buf = w.buf /\ bad.rc = -1
  BY <1>2, Zenon DEF Talks
<1> HIDE DEF good, bad
<1>12. CASE low
  <2>1. c = bad
    BY <1>5, <1>12, Zenon
  <2>2. c.rc = IF w.rc < 2 \/ rc - (rc % 2) < 2 THEN -1 ELSE rc - (rc % 2)
    BY <1>8, <1>11, <1>12, <2>1, Zenon
  <2> QED
    BY <1>4, <1>6, <1>11, <2>1, <2>2, Zenon DEF c
<1>13. CASE ~low
  <2>1. c = good
    BY <1>5, <1>13, Zenon
  <2>2. c.rc = IF w.rc < 2 \/ rc - (rc % 2) < 2 THEN -1 ELSE rc - (rc % 2)
    BY <1>8, <1>9, <1>10, <1>13, <2>1, Zenon
  <2> QED
    BY <1>4, <1>6, <1>10, <2>1, <2>2, Zenon DEF c
<1> QED
  BY <1>12, <1>13

LEMMA WorkaroundSets ==
  ASSUME NEW t \in Talks, NEW n \in Nat, n = NewLength(t.buf, t.rc), n > 2
  PROVE  /\ Workaround(t) \in Talks /\ Workaround(t).sent = t.sent
         /\ Workaround(t).answers = t.answers /\ Workaround(t).have_langid = t.have_langid
         /\ Workaround(t).rc = n /\ Workaround(t).buf[1] = n
         /\ \A i \in 2..MaxAsk : Workaround(t).buf[i] = t.buf[i]
<1> DEFINE b == [t.buf EXCEPT ![1] = n]
           r == [t EXCEPT !.buf = b, !.rc = n]
<1>1. t.buf \in [1..MaxAsk -> Nat]
  BY Zenon DEF Talks
<1>2. 1 \in 1..MaxAsk /\ n \in Int /\ \A i \in 2..MaxAsk : i \in 1..MaxAsk /\ i # 1
  BY CallsAssumption
<1>3. b \in [1..MaxAsk -> Nat] /\ b[1] = n /\ \A i \in 2..MaxAsk : b[i] = t.buf[i]
  BY <1>1, <1>2
<1>4. Workaround(t) = r
  BY Zenon DEF Workaround
<1> HIDE DEF b
<1>5. /\ r \in Talks /\ r.sent = t.sent /\ r.answers = t.answers
      /\ r.have_langid = t.have_langid /\ r.rc = n /\ r.buf = b
  BY <1>2, <1>3, Zenon DEF Talks
<1> QED
  BY <1>3, <1>4, <1>5, Zenon

Reads(s, t, u, broken) ==
  LET n == Readable(u, broken)
  IN /\ Follows(s, t, 9)
     /\ t.rc < 0 => FailsThrice(s.answers) \/ (broken /\ n = 0)
     /\ ~(t.rc < 0) =>
          /\ ~broken => t.buf[1] = 2 * Len(u) + 2
          /\ \E k \in Nat : /\ t.rc = 2 * k + 2 /\ 2 * k + 2 <= MaxAsk /\ n <= k
                            /\ ~broken \/ n < Len(u) => k = n
          /\ \A i \in 1..n : t.buf[2 * i + 1] = u[i][1] /\ t.buf[2 * i + 2] = u[i][2]

LEMMA SubReads ==
  ASSUME NEW s \in Talks, s.sent + 9 <= 18, NEW u \in Described, NEW broken \in BOOLEAN
  PROVE  Reads(s, UsbStringSub(s, Descriptor(u, broken)), u, broken)
<1> DEFINE desc == Descriptor(u, broken)
           l == Len(u)
           n == Readable(u, broken)
           t == Asked(s, desc)
           w == IF t.rc >= 2 /\ t.buf[1] = 0 /\ t.buf[2] = 0 THEN Workaround(t) ELSE t
           c == Cut(w)
<1>0. c = UsbStringSub(s, desc)
  BY Zenon DEF UsbStringSub
<1>1. /\ desc \in Seq(Nat) /\ Len(desc) = 2 * l + 2 /\ l \in Nat /\ 2 * l + 2 <= MaxAsk
      /\ desc[1] = (IF broken THEN 0 ELSE 2 * l + 2) /\ desc[2] = (IF broken THEN 0 ELSE 3)
      /\ \A i \in 1..l : desc[2 * i + 1] = u[i][1] /\ desc[2 * i + 2] = u[i][2]
  BY DescriptorIs, Zenon
<1>2. /\ n \in Nat /\ n <= l /\ (~broken => n = l)
      /\ broken => (\A i \in 1..n : Plain(u[i])) /\ (n < l => ~Plain(u[n + 1]))
  BY <1>1, ReadableIs, Zenon
<1> HIDE DEF desc, l, n, w, c
<1>3. MaxAsk \in Nat /\ MaxAsk >= 4 /\ 1 \in 1..MaxAsk /\ 2 \in 1..MaxAsk
  BY CallsAssumption
<1>4. Len(desc) >= 2 /\ Len(desc) <= MaxAsk /\ desc[1] \in {0, Len(desc)}
  BY <1>1
<1>5. /\ Follows(s, t, 9)
      /\ t.rc < 2 => FailsThrice(s.answers)
      /\ t.rc >= 2 => /\ t.rc = MaxAsk \/ t.rc = desc[1]
                      /\ \A i \in 1..Len(desc) : t.buf[i] = desc[i]
  BY <1>1, <1>4, AskedTells, Zenon
<1> HIDE DEF t
<1>6. t \in Talks
  BY <1>5, Zenon DEF Follows
<1>7. t.buf \in [1..MaxAsk -> Nat] /\ t.rc \in Int
  BY <1>6, Zenon DEF Talks
<1>8. t.buf[1] \in Nat /\ t.buf[2] \in Nat
  BY <1>3, <1>7
<1>9. ASSUME w = t PROVE Follows(s, c, 9) /\ c.buf = t.buf
  <2>1. /\ c \in Talks /\ c.sent = t.sent /\ c.answers = t.answers
        /\ c.have_langid = t.have_langid /\ c.buf = t.buf
    BY <1>6, <1>9, CutKeeps, Zenon DEF c
  <2> QED
    BY <1>5, <2>1, Zenon DEF Follows
<1>10. ASSUME w = t
       PROVE  \E rc \in Int : /\ rc = IF t.buf[1] < t.rc THEN t.buf[1] ELSE t.rc
                              /\ c.rc = IF t.rc < 2 \/ rc - (rc % 2) < 2 THEN -1 ELSE rc - (rc % 2)
  BY <1>6, <1>10, CutKeeps, Zenon DEF c
<1>11. CASE t.rc < 2
  <2>1. w = t
    BY <1>7, <1>11 DEF w
  <2>2. c.rc = -1
    BY <1>10, <1>11, <2>1, Zenon
  <2>3. c.rc < 0
    BY <2>2
  <2>4. FailsThrice(s.answers)
    BY <1>5, <1>11, Zenon
  <2> QED
    BY <1>0, <1>9, <2>1, <2>3, <2>4, Zenon DEF Reads, desc
<1>12. CASE ~(t.rc < 2)
  <2>1. /\ t.rc >= 2 /\ (t.rc = MaxAsk \/ t.rc = desc[1])
        /\ \A i \in 1..Len(desc) : t.buf[i] = desc[i]
    BY <1>5, <1>7, <1>12
  <2>2. t.buf[1] = desc[1] /\ t.buf[2] = desc[2]
    <3>1. 1 \in 1..Len(desc) /\ 2 \in 1..Len(desc)
      BY <1>1
    <3> QED
      BY <2>1, <3>1, Zenon
  <2>3. ASSUME NEW i \in 1..l
        PROVE  t.buf[2 * i + 1] = u[i][1] /\ t.buf[2 * i + 2] = u[i][2]
    <3>1. 2 * i + 1 \in 1..Len(desc) /\ 2 * i + 2 \in 1..Len(desc)
      BY <1>1
    <3> QED
      BY <1>1, <2>1, <3>1, Zenon
  <2>4. CASE ~broken
    <3>1. desc[1] = 2 * l + 2 /\ n = l
      BY <1>1, <1>2, <2>4, Zenon
    <3>2. t.buf[1] = 2 * l + 2 /\ t.buf[1] # 0
      BY <1>1, <2>2, <3>1
    <3>3. w = t
      BY <3>2, Zenon DEF w
    <3>4. PICK rc \in Int :
            /\ rc = IF t.buf[1] < t.rc THEN t.buf[1] ELSE t.rc
            /\ c.rc = IF t.rc < 2 \/ rc - (rc % 2) < 2 THEN -1 ELSE rc - (rc % 2)
      BY <1>10, <3>3, Zenon
    <3>5. rc = 2 * l + 2
      BY <1>1, <1>3, <2>1, <3>1, <3>2, <3>4
    <3>6. \A x \in Nat : (2 * x + 2) % 2 = 0
      OBVIOUS
    <3>7. rc - (rc % 2) = 2 * l + 2 /\ ~(2 * l + 2 < 2) /\ ~(2 * l + 2 < 0) /\ l <= l
      BY <1>1, <3>5, <3>6
    <3>8. c.rc = 2 * l + 2
      BY <1>12, <3>4, <3>7, Zenon
    <3>9. Follows(s, c, 9) /\ c.buf = t.buf
      BY <1>9, <3>3
    <3>10. \A i \in 1..n : c.buf[2 * i + 1] = u[i][1] /\ c.buf[2 * i + 2] = u[i][2]
      BY <2>3, <3>1, <3>9, Zenon
    <3>11. \E k \in Nat : /\ c.rc = 2 * k + 2 /\ 2 * k + 2 <= MaxAsk /\ n <= k
                          /\ ~broken \/ n < l => k = n
      BY <1>1, <3>1, <3>7, <3>8, Zenon
    <3> QED
      BY <1>0, <3>2, <3>7, <3>8, <3>9, <3>10, <3>11, Zenon DEF Reads, desc, l, n
  <2>5. CASE broken
    <3>1. desc[1] = 0 /\ desc[2] = 0
      BY <1>1, <2>5, Zenon
    <3>2. t.rc = MaxAsk /\ t.buf[1] = 0 /\ t.buf[2] = 0 /\ MaxAsk >= 2
      BY <1>3, <1>12, <2>1, <2>2, <3>1
    <3>3. w = Workaround(t)
      BY <2>1, <3>2, Zenon DEF w
    <3>4. PICK k \in Nat : /\ NewLength(t.buf, MaxAsk) = 2 * k + 2 /\ 2 * k + 2 <= MaxAsk
                           /\ \A i \in 1..k : Clean(t.buf, i)
                           /\ 2 * k + 3 < MaxAsk => ~Clean(t.buf, k + 1)
      BY <1>3, <3>2, NewLengthStops
    <3>5. \A i \in 1..l : Clean(t.buf, i) <=> Plain(u[i])
      BY <2>3, Zenon DEF Clean, Plain
    <3>6. ~(k < n)
      <4>1. k < n => k + 1 \in 1..l /\ k + 1 \in 1..n /\ 2 * k + 3 < MaxAsk
        <5>1. \A x, y, z, m \in Nat : x < y /\ y <= z /\ 2 * z + 2 <= m =>
                x + 1 \in 1..z /\ x + 1 \in 1..y /\ 2 * x + 3 < m
          OBVIOUS
        <5> QED
          BY <1>1, <1>2, <1>3, <5>1, Zenon
      <4> QED
        BY <1>2, <2>5, <3>4, <3>5, <4>1, Zenon
    <3>7. n < l => ~(n < k)
      <4>1. n < l /\ n < k => n + 1 \in 1..l /\ n + 1 \in 1..k
        <5>1. \A x, y, z \in Nat : x < y /\ x < z => x + 1 \in 1..y /\ x + 1 \in 1..z
          OBVIOUS
        <5> QED
          BY <1>1, <1>2, <5>1, Zenon
      <4> QED
        BY <1>2, <2>5, <3>4, <3>5, <4>1, Zenon
    <3>8. n <= k /\ (n < l => k = n)
      BY <1>2, <3>6, <3>7
    <3>9. CASE k = 0
      <4>1. ~(2 * k + 2 > 2)
        BY <3>9
      <4>2. w = t
        BY <3>2, <3>3, <3>4, <4>1, Zenon DEF Workaround
      <4>3. PICK rc \in Int :
              /\ rc = IF t.buf[1] < t.rc THEN t.buf[1] ELSE t.rc
              /\ c.rc = IF t.rc < 2 \/ rc - (rc % 2) < 2 THEN -1 ELSE rc - (rc % 2)
        BY <1>10, <4>2, Zenon
      <4>4. rc = 0
        BY <1>3, <3>2, <4>3
      <4>5. rc - (rc % 2) < 2
        BY <4>4
      <4>6. c.rc = -1
        BY <4>3, <4>5, Zenon
      <4>7. c.rc < 0 /\ n = 0
        BY <1>2, <3>8, <3>9, <4>6
      <4> QED
        BY <1>0, <1>9, <2>5, <4>2, <4>7, Zenon DEF Reads, desc, n
    <3>10. CASE k # 0
      <4> DEFINE e == 2 * k + 2
      <4>1. e \in Nat /\ e > 2 /\ ~(e < 0) /\ ~(e < 2)
        BY <3>10
      <4>2. e = NewLength(t.buf, t.rc)
        BY <3>2, <3>4, Zenon
      <4>3. e % 2 = 0 /\ e - 0 = e
        OBVIOUS
      <4>9. e <= MaxAsk
        BY <3>4
      <4>10. e = 2 * k + 2
        OBVIOUS
      <4> HIDE DEF e
      <4>4. /\ w \in Talks /\ w.sent = t.sent /\ w.answers = t.answers
            /\ w.have_langid = t.have_langid /\ w.rc = e /\ w.buf[1] = e
            /\ \A i \in 2..MaxAsk : w.buf[i] = t.buf[i]
        BY <1>6, <3>3, <4>1, <4>2, WorkaroundSets, Zenon
      <4>5. /\ c \in Talks /\ c.sent = w.sent /\ c.answers = w.answers
            /\ c.have_langid = w.have_langid /\ c.buf = w.buf
        BY <4>4, CutKeeps, Zenon DEF c
      <4>6. PICK rc \in Int :
              /\ rc = IF w.buf[1] < w.rc THEN w.buf[1] ELSE w.rc
              /\ c.rc = IF w.rc < 2 \/ rc - (rc % 2) < 2 THEN -1 ELSE rc - (rc % 2)
        BY <4>4, CutKeeps, Zenon DEF c
      <4>7. rc = e
        BY <4>4, <4>6, Zenon
      <4>8. c.rc = e
        <5>1. rc - (rc % 2) = e
          BY <4>1, <4>3, <4>7
        <5> QED
          BY <4>1, <4>4, <4>6, <5>1, Zenon
      <4>11. Follows(s, c, 9)
        BY <1>5, <4>4, <4>5, Zenon DEF Follows
      <4>12. ASSUME NEW i \in 1..n PROVE c.buf[2 * i + 1] = u[i][1] /\ c.buf[2 * i + 2] = u[i][2]
        <5>1. i \in 1..l /\ 2 * i + 1 \in 2..MaxAsk /\ 2 * i + 2 \in 2..MaxAsk
          BY <1>1, <1>2, <1>3
        <5> QED
          BY <2>3, <4>4, <4>5, <5>1, Zenon
      <4>13. \E x \in Nat : /\ c.rc = 2 * x + 2 /\ 2 * x + 2 <= MaxAsk /\ n <= x
                            /\ ~broken \/ n < l => x = n
        BY <2>5, <3>8, <4>8, <4>9, <4>10, Zenon
      <4> QED
        BY <1>0, <2>5, <4>1, <4>8, <4>11, <4>12, <4>13, Zenon DEF Reads, desc, l, n
    <3> QED
      BY <3>9, <3>10
  <2> QED
    BY <2>4, <2>5
<1> QED
  BY <1>11, <1>12

(* The first n elements. *)
LEMMA PrefixIs ==
  ASSUME NEW S, NEW s \in Seq(S), NEW n \in Nat
  PROVE  /\ Prefix(s, n) \in Seq(S) /\ Len(s) \in Nat
         /\ Len(Prefix(s, n)) = IF n < Len(s) THEN n ELSE Len(s)
         /\ \A i \in 1..Len(Prefix(s, n)) : Prefix(s, n)[i] = s[i]
<1> DEFINE l == Len(s)
           m == IF n < l THEN n ELSE l
           p == SubSeq(s, 1, m)
<1>1. l \in Nat /\ \A i \in 1..l : s[i] \in S
  BY LenProperties, ElementOfSeq
<1>2. p = Prefix(s, n)
  BY Zenon DEF Prefix
<1>3. m \in Nat /\ m <= l
  BY <1>1
<1> HIDE DEF m
<1>4. \A i \in 1..m : s[i] \in S
  BY <1>1, <1>3
<1>5. /\ p \in Seq(S) /\ Len(p) = (IF 1 <= m THEN m - 1 + 1 ELSE 0)
      /\ \A i \in 1 .. m - 1 + 1 : p[i] = s[1 + i - 1]
  BY <1>3, <1>4, SubSeqProperties
<1> HIDE DEF p
<1>6. Len(p) = m
  BY <1>3, <1>5
<1>7. \A i \in 1..m : p[i] = s[i]
  BY <1>3, <1>5
<1> QED
  BY <1>1, <1>2, <1>5, <1>6, <1>7, Zenon DEF m

(* usb_string, once the language is known. *)
Fits(out, u, broken, size, a) ==
  LET n == Readable(u, broken)
  IN IF out = Failed THEN FailsThrice(a) \/ (broken /\ n = 0)
     ELSE /\ Len(out) < size /\ Prefix(out, n) = Prefix(Bytewise(u, n), size - 1)
          /\ ~broken \/ n < Len(u) => Len(out) <= n

LEMMA StringOfFits ==
  ASSUME NEW s \in Talks, s.sent + 9 <= 18, NEW u \in Described,
         NEW broken \in BOOLEAN, NEW size \in Nat \ {0}
  PROVE  Fits(StringOf(s, Descriptor(u, broken), size), u, broken, size, s.answers)
<1> DEFINE t == UsbStringSub(s, Descriptor(u, broken))
           out == StringOf(s, Descriptor(u, broken), size)
           l == Len(u)
           n == Readable(u, broken)
           z == size - 1
           low == t.rc < 0
<1>1. Reads(s, t, u, broken)
  BY SubReads
<1>2. out = IF low THEN Failed ELSE Converted(t, z)
  BY Zenon DEF StringOf
<1>3. l \in Nat /\ \A i \in 1..l : u[i] \in Pairs
  BY LenProperties, ElementOfSeq DEF Described
<1>4. n \in Nat /\ n <= l
  BY <1>3, ReadableIs, Zenon
<1>5. z \in Nat /\ z < size
  OBVIOUS
<1>6. /\ low => FailsThrice(s.answers) \/ (broken /\ n = 0)
      /\ ~low => /\ \E k \in Nat : /\ t.rc = 2 * k + 2 /\ 2 * k + 2 <= MaxAsk /\ n <= k
                                   /\ ~broken \/ n < l => k = n
                 /\ \A i \in 1..n : t.buf[2 * i + 1] = u[i][1] /\ t.buf[2 * i + 2] = u[i][2]
      /\ t \in Talks
  BY <1>1, Zenon DEF Reads, Follows
<1>7. t.buf \in [1..MaxAsk -> Nat]
  BY <1>6, Zenon DEF Talks
<1> HIDE DEF t, l, n, z, out, low
<1>8. CASE low
  <2>1. out = Failed
    BY <1>2, <1>8, Zenon
  <2> QED
    BY <1>6, <1>8, <2>1, Zenon DEF Fits, out, n
<1>9. CASE ~low
  <2>1. PICK k \in Nat : /\ t.rc = 2 * k + 2 /\ 2 * k + 2 <= MaxAsk /\ n <= k
                         /\ ~broken \/ n < l => k = n
    BY <1>6, <1>9, Zenon
  <2> DEFINE c == IF k < z THEN k ELSE z
             char(i) == IF t.buf[2 * i + 2] # 0 THEN 63 ELSE t.buf[2 * i + 1]
             text == Bytewise(u, n)
             p == IF n < z THEN n ELSE z
  <2>2. (t.rc - 2) \div 2 = k
    BY <2>1
  <2>3. out = [i \in 1..c |-> char(i)]
    BY <1>2, <1>9, <2>2, Zenon DEF Converted
  <2>4. c \in Nat /\ c <= k /\ c <= z /\ p \in Nat /\ p <= n /\ p <= c
    BY <1>4, <1>5, <2>1
  <2>5. /\ (IF n < c THEN n ELSE c) = p
        /\ (IF z < n THEN z ELSE n) = p
    BY <1>4, <1>5, <2>1
  <2>6. k = n => c <= n
    BY <2>4
  <2> HIDE DEF c, p
  <2>7. ASSUME NEW i \in 1..c PROVE char(i) \in Nat
    <3>1. 2 * i + 1 \in 1..MaxAsk /\ 2 * i + 2 \in 1..MaxAsk
      <4>1. MaxAsk \in Nat
        BY CallsAssumption
      <4> QED
        BY <2>1, <2>4, <4>1
    <3>2. t.buf[2 * i + 1] \in Nat
      BY <1>7, <3>1
    <3> QED
      BY <3>2
  <2>8. out \in Seq(Nat) /\ Len(out) = c /\ \A i \in 1..c : out[i] = char(i) /\ out[i] \in Nat
    <3> HIDE DEF char
    <3>1. out \in [1..c -> Nat]
      BY <2>3, <2>7
    <3>2. \A i \in 1..c : out[i] = char(i)
      BY <2>3
    <3> QED
      BY <2>4, <2>7, <3>1, <3>2, FunctionIsSeq
  <2>9. out # Failed
    <3>1. Len(Failed) = 1 /\ Failed[1] = -1 /\ -1 \notin Nat
      BY DEF Failed
    <3>2. c = 1 => 1 \in 1..c
      OBVIOUS
    <3> QED
      BY <2>8, <3>1, <3>2, Zenon
  <2>10. text \in Seq(Nat) /\ Len(text) = n /\ \A i \in 1..n : text[i] = IF u[i][2] # 0 THEN 63 ELSE u[i][1]
    <3> DEFINE byte(i) == IF u[i][2] # 0 THEN 63 ELSE u[i][1]
    <3>1. text = [i \in 1..n |-> byte(i)]
      BY Zenon DEF Bytewise
    <3>2. ASSUME NEW i \in 1..n PROVE byte(i) \in Nat
      <4>1. i \in 1..l
        BY <1>3, <1>4
      <4>2. u[i] \in Pairs
        BY <1>3, <4>1
      <4>3. u[i][1] \in 0..255
        BY <4>2, Zenon DEF Pairs
      <4>4. u[i][1] \in Nat
        BY <4>3
      <4> QED
        BY <4>4
    <3> HIDE DEF byte, text
    <3>3. text \in [1..n -> Nat] /\ \A i \in 1..n : text[i] = byte(i)
      BY <3>1, <3>2
    <3>4. text \in Seq(Nat) /\ Len(text) = n
      BY <1>4, <3>3, FunctionIsSeq
    <3> QED
      BY <3>3, <3>4, Zenon DEF byte
  <2> HIDE DEF text
  <2>11. ASSUME NEW i \in 1..p PROVE out[i] = text[i]
    <3>1. i \in 1..n /\ i \in 1..c
      BY <1>4, <2>4
    <3>2. t.buf[2 * i + 1] = u[i][1] /\ t.buf[2 * i + 2] = u[i][2]
      BY <1>6, <1>9, <3>1, Zenon
    <3> QED
      BY <2>8, <2>10, <3>1, <3>2, Zenon
  <2> HIDE DEF char
  <2>12. /\ Prefix(out, n) \in Seq(Nat) /\ Len(Prefix(out, n)) = p
         /\ \A i \in 1..p : Prefix(out, n)[i] = out[i]
    <3>1. /\ Prefix(out, n) \in Seq(Nat)
          /\ Len(Prefix(out, n)) = (IF n < Len(out) THEN n ELSE Len(out))
          /\ \A i \in 1..Len(Prefix(out, n)) : Prefix(out, n)[i] = out[i]
      BY <1>4, <2>8, PrefixIs
    <3>2. Len(out) = c /\ (IF n < c THEN n ELSE c) = p
      BY <2>5, <2>8
    <3>3. Len(Prefix(out, n)) = p
      BY <3>1, <3>2, Zenon
    <3> QED
      BY <3>1, <3>3, Zenon
  <2>13. /\ Prefix(text, z) \in Seq(Nat) /\ Len(Prefix(text, z)) = p
         /\ \A i \in 1..p : Prefix(text, z)[i] = text[i]
    <3>1. /\ Prefix(text, z) \in Seq(Nat)
          /\ Len(Prefix(text, z)) = (IF z < Len(text) THEN z ELSE Len(text))
          /\ \A i \in 1..Len(Prefix(text, z)) : Prefix(text, z)[i] = text[i]
      BY <1>5, <2>10, PrefixIs
    <3>2. Len(Prefix(text, z)) = p
      BY <2>5, <2>10, <3>1, Zenon
    <3> QED
      BY <3>1, <3>2, Zenon
  <2>14. Prefix(out, n) = Prefix(text, z)
    <3> DEFINE a == Prefix(out, n)
               b == Prefix(text, z)
    <3>1. a \in Seq(Nat) /\ b \in Seq(Nat) /\ Len(a) = Len(b) /\ \A i \in 1..Len(a) : a[i] = b[i]
      BY <2>11, <2>12, <2>13, Zenon
    <3> HIDE DEF a, b
    <3>2. a = b
      BY <3>1, SeqEqual, Zenon
    <3> QED
      BY <3>2 DEF a, b
  <2>15. Len(out) < size
    BY <1>5, <2>4, <2>8
  <2>16. ~broken \/ n < l => Len(out) <= n
    <3>1. ~broken \/ n < l => k = n
      BY <2>1, Zenon
    <3> QED
      BY <2>6, <2>8, <3>1, Zenon
  <2> QED
    BY <2>9, <2>14, <2>15, <2>16, Zenon DEF Fits, out, n, text, z, l
<1> QED
  BY <1>8, <1>9

LEMMA LanguagesAre ==
  /\ << <<9, 4>> >> \in Described /\ Len(<< <<9, 4>> >>) = 1
  /\ Languages = Descriptor(<< <<9, 4>> >>, FALSE)
<1> DEFINE u == << <<9, 4>> >>
           d == Descriptor(u, FALSE)
<1>1. u \in Seq(Pairs) /\ Len(u) = 1 /\ u[1] = <<9, 4>>
  BY DEF Pairs
<1>2. u \in Described
  <2>1. 2 * Len(u) + 2 <= MaxAsk
    BY <1>1, CallsAssumption
  <2> QED
    BY <1>1, <2>1, Zenon DEF Described
<1>3. u[1][1] = 9 /\ u[1][2] = 4
  BY <1>1
<1> HIDE DEF u
<1>4. /\ d \in Seq(Nat) /\ Len(d) = 2 * Len(u) + 2 /\ d[1] = 2 * Len(u) + 2 /\ d[2] = 3
      /\ \A i \in 1..Len(u) : d[2 * i + 1] = u[i][1] /\ d[2 * i + 2] = u[i][2]
  BY <1>2, DescriptorIs, Zenon
<1> HIDE DEF d
<1>5. 1 \in 1..1 /\ 2 * 1 + 1 = 3 /\ 2 * 1 + 2 = 4
  OBVIOUS
<1>6. Len(d) = 4 /\ d[1] = 4 /\ d[2] = 3 /\ d[3] = 9 /\ d[4] = 4
  BY <1>1, <1>3, <1>4, <1>5, Zenon
<1>7. /\ Languages \in Seq(Nat) /\ Len(Languages) = 4 /\ Languages[1] = 4 /\ Languages[2] = 3
      /\ Languages[3] = 9 /\ Languages[4] = 4
  BY DEF Languages
<1>8. \A i \in 1..4 : i = 1 \/ i = 2 \/ i = 3 \/ i = 4
  OBVIOUS
<1>9. \A i \in 1 .. Len(Languages) : Languages[i] = d[i]
  BY <1>6, <1>7, <1>8, Zenon
<1>10. Len(Languages) = Len(d)
  BY <1>6, <1>7, Zenon
<1>11. Languages = d
  BY <1>4, <1>7, <1>9, <1>10, SeqEqual, Zenon
<1> QED
  BY <1>1, <1>2, <1>11, Zenon DEF u, d

(* usb_string: for every descriptor that fits into one request, every content of the buffer,
   every size and every sequence of failures. *)
THEOREM StringsAlwaysFit ==
  ASSUME NEW s \in Talks, s.sent = 0, NEW u \in Described, NEW broken \in BOOLEAN,
         NEW size \in Nat \ {0}
  PROVE  Fits(UsbString(s, Languages, Descriptor(u, broken), size), u, broken, size, s.answers)
<1> DEFINE desc == Descriptor(u, broken)
           t == UsbStringSub(s, Languages)
           out == UsbString(s, Languages, desc, size)
<1>1. s.sent + 9 <= 18 /\ size # 0
  OBVIOUS
<1>2. out = IF s.have_langid THEN StringOf(s, desc, size)
            ELSE IF t.rc < 0 \/ t.buf[1] < 4 THEN Failed ELSE StringOf(t, desc, size)
  BY <1>1, Zenon DEF UsbString
<1>3. Fits(StringOf(s, desc, size), u, broken, size, s.answers)
  BY <1>1, StringOfFits, Zenon
<1> DEFINE lu == << <<9, 4>> >>
<1>4. lu \in Described /\ Len(lu) = 1 /\ Languages = Descriptor(lu, FALSE)
  BY LanguagesAre
<1> HIDE DEF lu
<1>5. Reads(s, t, lu, FALSE)
  BY <1>1, <1>4, SubReads, Zenon
<1> HIDE DEF t
<1>6. /\ t \in Talks /\ t.sent <= s.sent + 9 /\ t.answers = s.answers
      /\ t.rc < 0 => FailsThrice(s.answers)
      /\ ~(t.rc < 0) => t.buf[1] = 2 * Len(lu) + 2
  BY <1>5, Zenon DEF Reads, Follows
<1>7. t.sent \in Nat
  BY <1>6, Zenon DEF Talks
<1>8. t.sent + 9 <= 18
  BY <1>6, <1>7
<1>9. Fits(StringOf(t, desc, size), u, broken, size, s.answers)
  BY <1>6, <1>8, StringOfFits, Zenon
<1>10. ~(t.rc < 0) => ~(t.buf[1] < 4)
  <2>1. 2 * 1 + 2 = 4 /\ ~(4 < 4)
    OBVIOUS
  <2> QED
    BY <1>4, <1>6, <2>1, Zenon
<1>11. t.rc < 0 => Fits(Failed, u, broken, size, s.answers)
  BY <1>6, Zenon DEF Fits
<1> HIDE DEF desc, out
<1>12. CASE s.have_langid
  BY <1>2, <1>3, <1>12, Zenon DEF out, desc
<1>13. CASE ~s.have_langid /\ t.rc < 0
  <2>1. out = Failed
    BY <1>2, <1>13, Zenon
  <2> QED
    BY <1>11, <1>13, <2>1, Zenon DEF out, desc
<1>14. CASE ~s.have_langid /\ ~(t.rc < 0)
  <2>1. out = StringOf(t, desc, size)
    BY <1>2, <1>10, <1>14, Zenon
  <2> QED
    BY <1>9, <2>1, Zenon DEF out, desc
<1> QED
  BY <1>12, <1>13, <1>14

-----------------------------------------------------------------------------
(* The calls.                                                              *)

LEMMA MoreTexts ==
  ASSUME NEW A, NEW B, A \subseteq B, NEW n \in Nat, NEW u \in Texts(A, n)
  PROVE  u \in Seq(B) /\ Len(u) \in Nat /\ Len(u) <= n
<1>1. u \in Seq(A) /\ Len(u) \in Nat /\ Len(u) <= n
  BY TextIs
<1> QED
  BY <1>1, SeqMonotonic

Given ==
  /\ probe.of = "compare" => probe.s \in Texts(Alphabet, MaxText) /\ probe.t \in Texts(Alphabet, MaxText)
  /\ probe.of = "string" =>
       /\ probe.u \in Texts(CodeUnits, MaxUnits) /\ probe.a \in Schedules
       /\ probe.known \in BOOLEAN /\ probe.broken \in BOOLEAN /\ probe.junk \in {0, 65}
  /\ probe.of = "find" => probe.s \in Texts(Symbols, MaxLine) /\ probe.t \in Texts(Symbols, MaxText)

LEMMA AlwaysGiven == CallsSpec => []Given
<1>1. (\E r \in {"wide", "move", "decimal", "compare", "find", "split", "string"} : Ready(r)) => Given
  BY DEF Ready, Given
<1>2. Given /\ [Calls]_probe => Given'
  <2> SUFFICES ASSUME Given, [Calls]_probe PROVE Given'
    OBVIOUS
  <2>1. CASE DivideWide
    BY <2>1 DEF DivideWide, Given
  <2>2. CASE Move
    BY <2>2 DEF Move, Given
  <2>3. CASE Show
    BY <2>3 DEF Show, Given
  <2>4. CASE Compare
    <3>1. PICK x, y \in Texts(Alphabet, MaxText) : probe' = [of |-> "compare", s |-> x, t |-> y]
      BY <2>4, Zenon DEF Compare
    <3>2. probe'.of = "compare" /\ probe'.s = x /\ probe'.t = y
      BY <3>1
    <3> QED
      BY <3>2 DEF Given
  <2>5. CASE Describe
    <3>1. PICK u \in Texts(CodeUnits, MaxUnits), a \in Schedules, known \in BOOLEAN,
               broken \in BOOLEAN, junk \in {0, 65} :
            probe' = [of |-> "string", u |-> u, a |-> a, known |-> known, broken |-> broken,
                      junk |-> junk]
      BY <2>5, Zenon DEF Describe
    <3>2. /\ probe'.of = "string" /\ probe'.u = u /\ probe'.a = a /\ probe'.known = known
          /\ probe'.broken = broken /\ probe'.junk = junk
      BY <3>1, Zenon
    <3>3. "string" # "compare"
      OBVIOUS
    <3> QED
      BY <3>2, <3>3, Zenon DEF Given
  <2>6. CASE Find
    <3>1. PICK x \in Texts(Symbols, MaxLine), y \in Texts(Symbols, MaxText) :
            probe' = [of |-> "find", s |-> x, t |-> y]
      BY <2>6, Zenon DEF Find
    <3>2. probe'.of = "find" /\ probe'.s = x /\ probe'.t = y
      BY <3>1
    <3>3. "find" # "compare" /\ "find" # "string"
      OBVIOUS
    <3> QED
      BY <3>1, <3>2, <3>3, Zenon DEF Given
  <2>7. CASE Tokenize
    <3>1. PICK x \in Texts(Symbols \cup Delimiters, MaxLine), f \in {"strtok", "strsep"} :
            probe' = [of |-> "split", s |-> x, by |-> f, mem |-> Laid(x, <<>>), out |-> <<>>,
                      done |-> FALSE, arg |-> 1, rest |-> IF f = "strtok" THEN NULL ELSE 1]
      BY <2>7, Zenon DEF Tokenize
    <3>2. probe'.of = "split"
      BY <3>1, Zenon
    <3> QED
      BY <3>2 DEF Given
  <2>8. CASE AskToken
    <3>1. probe'.of = "split"
      BY <2>8, Zenon DEF AskToken
    <3> QED
      BY <3>1 DEF Given
  <2>9. CASE UNCHANGED probe
    BY <2>9 DEF Given
  <2> QED
    BY <2>1, <2>2, <2>3, <2>4, <2>5, <2>6, <2>7, <2>8, <2>9 DEF Calls
<1> QED
  BY <1>1, <1>2, PTL DEF CallsSpec

(* usb_string returns the characters the device describes, as many as fit, whatever was in the
   buffer and whichever messages failed; it fails only if three messages in a row did, or
   nothing can be read. *)
THEOREM StringAlwaysFits == CallsSpec => []StringFits
<1>1. Given => StringFits
  <2> DEFINE u == probe.u
             broken == probe.broken
             s == [buf |-> [i \in 1..MaxAsk |-> probe.junk], rc |-> 0, sent |-> 0,
                   answers |-> probe.a, have_langid |-> probe.known]
             desc == Descriptor(u, broken)
  <2> SUFFICES ASSUME Given, probe.of = "string", NEW size \in Sizes
               PROVE  Fits(UsbString(s, Languages, desc, size), u, broken, size, probe.a)
    BY Zenon DEF StringFits, Fits
  <2>1. /\ u \in Texts(CodeUnits, MaxUnits) /\ probe.a \in Schedules
        /\ probe.known \in BOOLEAN /\ broken \in BOOLEAN /\ probe.junk \in {0, 65}
    BY Zenon DEF Given
  <2>2. /\ CodeUnits \subseteq Pairs /\ MaxUnits \in Nat /\ 2 * MaxUnits + 2 <= MaxAsk
        /\ MaxAsk \in Nat /\ Schedules \subseteq [1..18 -> BOOLEAN] /\ size \in Nat \ {0}
    BY CallsAssumption DEF Pairs
  <2> HIDE DEF u, broken
  <2>3. u \in Described
    <3>1. u \in Seq(Pairs) /\ Len(u) \in Nat /\ Len(u) <= MaxUnits
      BY <2>1, <2>2, MoreTexts
    <3>2. 2 * Len(u) + 2 <= MaxAsk
      BY <2>2, <3>1
    <3> QED
      BY <3>1, <3>2, Zenon DEF Described
  <2>4. s \in Talks /\ s.sent = 0 /\ s.answers = probe.a
    <3>1. 0 \in Nat /\ 0 \in Int /\ \A x \in {0, 65} : x \in Nat
      OBVIOUS
    <3>2. [i \in 1..MaxAsk |-> probe.junk] \in [1..MaxAsk -> Nat]
      BY <2>1, <3>1, Zenon
    <3>3. probe.a \in [1..18 -> BOOLEAN]
      BY <2>1, <2>2, Zenon
    <3> QED
      BY <2>1, <3>1, <3>2, <3>3, Zenon DEF Talks
  <2> HIDE DEF s
  <2>5. Fits(UsbString(s, Languages, desc, size), u, broken, size, s.answers)
    <3>1. s \in Talks /\ s.sent = 0 /\ broken \in BOOLEAN /\ size \in Nat \ {0}
      BY <2>1, <2>2, <2>4
    <3> HIDE DEF desc
    <3>2. Fits(UsbString(s, Languages, Descriptor(u, broken), size), u, broken, size, s.answers)
      BY <2>3, <3>1, StringsAlwaysFit
    <3> QED
      BY <3>2 DEF desc
  <2> QED
    BY <2>4, <2>5, Zenon
<1> QED
  BY <1>1, AlwaysGiven, PTL

-----------------------------------------------------------------------------
(* Comparisons.                                                            *)

LEMMA Remainders ==
  ASSUME NEW d \in Nat \ {0}, NEW y \in Int
  PROVE  /\ -d <= y /\ y < 0 => y % d = y + d
         /\ 0 <= y /\ y < d => y % d = y
         /\ d <= y /\ y < d + d => y % d = y - d
<1> DEFINE q == y \div d
           r == y % d
<1>1. q \in Int /\ r \in Int /\ 0 <= r /\ r < d /\ y = d * q + r
  <2>1. \A a \in Int, b \in Nat \ {0} :
          a \div b \in Int /\ a % b \in Int /\ 0 <= a % b /\ a % b < b /\ a = b * (a \div b) + (a % b)
    BY SMT
  <2> QED
    BY <2>1
<1> HIDE DEF q, r
<1>2. /\ q >= 0 => d * q >= 0
      /\ q >= 1 => d * q >= d
      /\ q >= 2 => d * q >= d + d
      /\ q <= -1 => d * q <= -d
      /\ q <= -2 => d * q <= -(d + d)
  <2>1. \A a, b \in Nat : a * b \in Nat
    BY SMT
  <2>2. \A a, b, c \in Int : a * (b + c) = a * b + a * c
    BY SMT
  <2>3. \A a \in Int : a * 1 = a /\ a * 2 = a + a /\ a * (-1) = -a /\ a * (-2) = -(a + a) /\ a * 0 = 0
    OBVIOUS
  <2>4. \A a, b \in Int : a * (-b) = -(a * b)
    BY SMT
  <2>5. d \in Nat /\ d \in Int
    OBVIOUS
  <2>6. ASSUME NEW c \in Nat PROVE (q >= c => d * q >= d * c) /\ (q <= -c => d * q <= d * (-c))
    <3>1. ASSUME q >= c PROVE d * q >= d * c
      <4>1. q - c \in Nat /\ q - c \in Int /\ c \in Int /\ q = c + (q - c)
        BY <1>1, <3>1
      <4>2. d * (q - c) \in Nat /\ d * c \in Nat
        BY <2>1, <2>5, <4>1
      <4>3. d * (c + (q - c)) = d * c + d * (q - c)
        BY <2>2, <2>5, <4>1, Zenon
      <4>4. d * q = d * c + d * (q - c)
        BY <4>1, <4>3
      <4> HIDE DEF r
      <4> QED
        BY <4>2, <4>4
    <3>2. ASSUME q <= -c PROVE d * q <= d * (-c)
      <4> DEFINE e == -c - q
      <4>1. e \in Nat /\ e \in Int /\ q \in Int /\ -c = q + e
        BY <1>1, <3>2
      <4> HIDE DEF e
      <4>2. d * e \in Nat
        BY <2>1, <2>5, <4>1
      <4>3. d * (q + e) = d * q + d * e
        BY <2>2, <2>5, <4>1, Zenon
      <4>4. d * (-c) = d * q + d * e
        BY <4>1, <4>3
      <4>5. d * q \in Int
        BY <1>1, <2>5
      <4> QED
        BY <4>2, <4>4, <4>5
    <3> QED
      BY <3>1, <3>2
  <2>7. 0 \in Nat /\ 1 \in Nat /\ 2 \in Nat
    OBVIOUS
  <2> QED
    BY <1>1, <2>3, <2>5, <2>6, <2>7
<1> DEFINE z == d * q
<1>3. z \in Int /\ y = z + r
  BY <1>1
<1>4. /\ q >= 0 => z >= 0
      /\ q >= 1 => z >= d
      /\ q >= 2 => z >= d + d
      /\ q <= -1 => z <= -d
      /\ q <= -2 => z <= -(d + d)
      /\ q = 0 => z = 0
      /\ q = 1 => z = d
      /\ q = -1 => z = -d
  BY <1>1, <1>2
<1> HIDE DEF z
<1>5. -d <= y /\ y < 0 => r = y + d
  BY <1>1, <1>3, <1>4
<1>6. 0 <= y /\ y < d => r = y
  BY <1>1, <1>3, <1>4
<1>7. d <= y /\ y < d + d => r = y - d
  BY <1>1, <1>3, <1>4
<1> QED
  BY <1>5, <1>6, <1>7 DEF r

(* The difference of two bytes keeps being 0 or not in a signed char, and its sign if it is
   small. *)
LEMMA SignedCharIs ==
  ASSUME NEW x \in Int, -Bytes < x, x < Bytes
  PROVE  /\ SignedChar(x) = 0 <=> x = 0
         /\ -(Bytes \div 2) < x /\ x < Bytes \div 2 => SignedChar(x) = x
<1> DEFINE h == Bytes \div 2
           y == x + h
<1>1. Bytes \in Nat \ {0} /\ h \in Nat /\ h < Bytes /\ h + h <= Bytes
  BY MemoryAssumption
<1> HIDE DEF h
<1>2. y \in Int
  BY <1>1
<1>3. /\ -Bytes <= y /\ y < 0 => y % Bytes = y + Bytes
      /\ 0 <= y /\ y < Bytes => y % Bytes = y
      /\ Bytes <= y /\ y < Bytes + Bytes => y % Bytes = y - Bytes
  BY <1>1, <1>2, Remainders
<1> DEFINE r == y % Bytes
<1>4. SignedChar(x) = r - h
  BY Zenon DEF SignedChar, h
<1>5. r = IF y < 0 THEN y + Bytes ELSE IF y < Bytes THEN y ELSE y - Bytes
  BY <1>1, <1>2, <1>3
<1> HIDE DEF r
<1>6. r - h = 0 <=> x = 0
  BY <1>1, <1>5
<1>7. -h < x /\ x < h => r - h = x
  BY <1>1, <1>5
<1> QED
  BY <1>4, <1>6, <1>7 DEF h

(* A string as memory holds it: its characters and a 0. *)
Chars == 1 .. Bytes - 1
Char(s, i) == IF i <= Len(s) THEN s[i] ELSE 0

LEMMA CharIs ==
  ASSUME NEW s \in Seq(Chars)
  PROVE  /\ Len(s) \in Nat
         /\ \A i \in Nat \ {0} : /\ Char(s, i) \in Nat /\ Char(s, i) < Bytes
                                 /\ Char(s, i) = 0 <=> ~(i <= Len(s))
                                 /\ Ascii(s) /\ Bytes > 1 => Char(s, i) < Bytes \div 2
<1>1. Len(s) \in Nat /\ DOMAIN s = 1..Len(s) /\ \A i \in 1..Len(s) : s[i] \in Chars
  BY LenProperties, ElementOfSeq
<1> SUFFICES ASSUME NEW i \in Nat \ {0}
             PROVE  /\ Char(s, i) \in Nat /\ Char(s, i) < Bytes
                    /\ Char(s, i) = 0 <=> ~(i <= Len(s))
                    /\ Ascii(s) /\ Bytes > 1 => Char(s, i) < Bytes \div 2
  BY <1>1
<1>2. Bytes \in Nat \ {0}
  BY MemoryAssumption
<1>3. CASE i <= Len(s)
  <2>1. i \in 1..Len(s)
    BY <1>1, <1>3
  <2>2. Char(s, i) = s[i] /\ s[i] \in Chars
    BY <1>1, <1>3, <2>1 DEF Char
  <2>3. Ascii(s) => s[i] < Bytes \div 2
    BY <1>1, <2>1, Zenon DEF Ascii
  <2>4. s[i] \in Nat /\ s[i] < Bytes /\ s[i] # 0
    BY <1>2, <2>2 DEF Chars
  <2> QED
    BY <1>3, <2>2, <2>3, <2>4
<1>4. CASE ~(i <= Len(s))
  <2>1. Char(s, i) = 0
    BY <1>4, Zenon DEF Char
  <2>2. 0 \in Nat /\ 0 < Bytes /\ (Bytes > 1 => 0 < Bytes \div 2)
    BY <1>2
  <2> QED
    BY <1>4, <2>1, <2>2, Zenon
<1> QED
  BY <1>3, <1>4

(* Behind a common beginning, the next characters decide. *)
LEMMA NextDecides ==
  ASSUME NEW a \in Seq(Chars), NEW b \in Seq(Chars), NEW k \in Nat,
         k <= Len(a), k <= Len(b), \A i \in 1..k : a[i] = b[i],
         Char(a, k + 1) # Char(b, k + 1) \/ Char(a, k + 1) = 0
  PROVE  /\ a = b <=> Char(a, k + 1) = Char(b, k + 1)
         /\ Less(a, b) <=> Char(a, k + 1) < Char(b, k + 1)
<1> DEFINE x == Char(a, k + 1)
           y == Char(b, k + 1)
           la == Len(a)
           lb == Len(b)
<1>1. k + 1 \in Nat \ {0}
  OBVIOUS
<1>2. /\ la \in Nat /\ lb \in Nat /\ x \in Nat /\ y \in Nat
      /\ x = 0 <=> ~(k + 1 <= la)
      /\ y = 0 <=> ~(k + 1 <= lb)
  BY <1>1, CharIs, Zenon
<1>3. (k + 1 <= la => x = a[k + 1]) /\ (k + 1 <= lb => y = b[k + 1])
  BY Zenon DEF Char
<1>9. x # y \/ x = 0
  OBVIOUS
<1>10. k <= la /\ k <= lb
  OBVIOUS
<1> HIDE DEF x, y, la, lb
<1>4. ASSUME x = y PROVE a = b
  <2>1. x = 0 /\ y = 0
    BY <1>4, <1>9
  <2>2. la = k /\ lb = k
    BY <1>2, <1>10, <2>1
  <2> QED
    BY <2>2, SeqEqual DEF la, lb
<1>5. ASSUME a = b PROVE x = y
  BY <1>5 DEF x, y
<1>6. ASSUME NEW n \in Nat, n > k, Prefix(a, n) = Prefix(b, n) PROVE x = y
  <2> DEFINE p == Prefix(a, n)
             ma == IF n < la THEN n ELSE la
             mb == IF n < lb THEN n ELSE lb
  <2>1. Len(p) = ma /\ \A i \in 1..Len(p) : p[i] = a[i]
    BY PrefixIs, Zenon DEF la
  <2>2. Len(p) = mb /\ \A i \in 1..Len(p) : p[i] = b[i]
    <3> DEFINE q == Prefix(b, n)
    <3>1. Len(q) = mb /\ \A i \in 1..Len(q) : q[i] = b[i]
      BY PrefixIs, Zenon DEF lb
    <3>2. p = q
      BY <1>6
    <3> QED
      BY <3>1, <3>2, Zenon
  <2> HIDE DEF p
  <2>3. ma = mb
    BY <2>1, <2>2
  <2>4. k + 1 <= la <=> k + 1 <= lb
    BY <1>2, <1>6, <2>3
  <2>5. CASE k + 1 <= la
    <3>1. k + 1 \in 1..ma
      BY <1>2, <1>6, <2>5
    <3>2. a[k + 1] = b[k + 1]
      BY <2>1, <2>2, <3>1, Zenon
    <3> QED
      BY <1>3, <2>4, <2>5, <3>2, Zenon
  <2>6. CASE ~(k + 1 <= la)
    BY <1>2, <2>4, <2>6, Zenon
  <2> QED
    BY <2>5, <2>6
<1>7. ASSUME Less(a, b) PROVE x < y
  <2>1. PICK i \in 1 .. la + 1 : /\ Prefix(a, i - 1) = Prefix(b, i - 1) /\ lb >= i
                                 /\ la < i \/ a[i] < b[i]
    BY <1>7, Zenon DEF Less, la, lb
  <2>2. i \in Nat /\ i >= 1 /\ i - 1 \in Nat
    BY <1>2
  <2>3. ~(i <= k)
    <3>1. i <= k => i \in 1..k /\ ~(la < i) /\ i \in 1..la
      BY <1>2, <1>10, <2>2
    <3>2. i \in 1..la => a[i] \in Nat
      <4>1. i \in 1..la => a[i] \in Chars
        BY ElementOfSeq DEF la
      <4> QED
        BY <4>1, MemoryAssumption DEF Chars
    <3>3. i \in 1..k => a[i] = b[i]
      OBVIOUS
    <3>4. i \in 1..la => ~(a[i] < a[i])
      BY <3>2
    <3> QED
      BY <2>1, <3>1, <3>3, <3>4
  <2>4. x # y
    <3>1. CASE i = k + 1
      <4>1. y # 0
        BY <1>2, <2>1, <2>2, <3>1
      <4>2. la < k + 1 => x = 0
        BY <1>2
      <4>3. ~(la < k + 1) => x < y
        <5>1. ~(la < k + 1) => k + 1 <= la /\ k + 1 <= lb
          BY <1>2, <2>1, <2>2, <3>1
        <5> QED
          BY <1>3, <2>1, <3>1, <5>1, Zenon
      <4> QED
        BY <1>2, <4>1, <4>2, <4>3
    <3>2. CASE i # k + 1
      <4>1. i - 1 > k /\ lb > k
        BY <1>2, <2>1, <2>2, <2>3, <3>2
      <4>2. x = y
        BY <1>6, <2>1, <2>2, <4>1
      <4>3. y # 0
        BY <1>2, <4>1
      <4> QED
        BY <1>9, <4>2, <4>3
    <3> QED
      BY <3>1, <3>2
  <2>5. i = k + 1
    <3>1. i - 1 > k => x = y
      BY <1>6, <2>1, <2>2
    <3> QED
      BY <2>2, <2>3, <2>4, <3>1
  <2>6. y # 0
    BY <1>2, <2>1, <2>2, <2>5
  <2>7. CASE la < i
    <3>1. x = 0
      BY <1>2, <2>5, <2>7
    <3> QED
      BY <1>2, <2>6, <3>1
  <2>8. CASE ~(la < i)
    <3>1. k + 1 <= la /\ k + 1 <= lb
      BY <1>2, <2>1, <2>2, <2>5, <2>8
    <3> QED
      BY <1>3, <2>1, <2>5, <2>8, <3>1, Zenon
  <2> QED
    BY <2>7, <2>8
<1>8. ASSUME x < y PROVE Less(a, b)
  <2>1. y # 0 /\ k + 1 <= lb /\ lb >= k + 1
    BY <1>2, <1>8
  <2>2. k + 1 \in 1 .. la + 1 /\ (k + 1) - 1 = k
    BY <1>2, <1>10
  <2>3. Prefix(a, k) = Prefix(b, k)
    <3> DEFINE p == Prefix(a, k)
               q == Prefix(b, k)
    <3>1. p \in Seq(Chars) /\ Len(p) = (IF k < la THEN k ELSE la) /\ \A i \in 1..Len(p) : p[i] = a[i]
      BY PrefixIs, Zenon DEF la
    <3>2. q \in Seq(Chars) /\ Len(q) = (IF k < lb THEN k ELSE lb) /\ \A i \in 1..Len(q) : q[i] = b[i]
      BY PrefixIs, Zenon DEF lb
    <3> HIDE DEF p, q
    <3>3. (IF k < la THEN k ELSE la) = k /\ (IF k < lb THEN k ELSE lb) = k
      BY <1>2, <1>10
    <3>4. Len(p) = k /\ Len(q) = k
      BY <3>1, <3>2, <3>3
    <3>5. \A i \in 1..Len(p) : p[i] = q[i]
      BY <3>1, <3>2, <3>4
    <3>6. p = q
      BY <3>1, <3>2, <3>4, <3>5, SeqEqual
    <3> QED
      BY <3>6 DEF p, q
  <2>4. la < k + 1 \/ a[k + 1] < b[k + 1]
    <3>1. ~(la < k + 1) => k + 1 <= la
      BY <1>2
    <3> QED
      BY <1>3, <1>8, <2>1, <3>1, Zenon
  <2> QED
    BY <2>1, <2>2, <2>3, <2>4, Zenon DEF Less, la, lb
<1> QED
  BY <1>4, <1>5, <1>7, <1>8, Zenon DEF x, y

(* The result of a comparison that ends behind a common beginning. *)
LEMMA DifferenceAgrees ==
  ASSUME NEW a \in Seq(Chars), NEW b \in Seq(Chars), NEW k \in Nat,
         k <= Len(a), k <= Len(b), \A i \in 1..k : a[i] = b[i],
         Char(a, k + 1) # Char(b, k + 1) \/ Char(a, k + 1) = 0
  PROVE  Agrees(SignedChar(Char(a, k + 1) - Char(b, k + 1)), a, b)
<1> DEFINE x == Char(a, k + 1)
           y == Char(b, k + 1)
           h == Bytes \div 2
           r == SignedChar(x - y)
<1>1. k + 1 \in Nat \ {0}
  OBVIOUS
<1>2. /\ x \in Nat /\ x < Bytes /\ y \in Nat /\ y < Bytes
      /\ Ascii(a) /\ Bytes > 1 => x < h
      /\ Ascii(b) /\ Bytes > 1 => y < h
  BY <1>1, CharIs, Zenon
<1>3. /\ a = b <=> x = y
      /\ Less(a, b) <=> x < y
  BY NextDecides, Zenon
<1> HIDE DEF x, y
<1>4. Bytes \in Nat \ {0}
  BY MemoryAssumption
<1>5. x - y \in Int /\ -Bytes < x - y /\ x - y < Bytes
  BY <1>2, <1>4
<1>6. /\ r = 0 <=> x - y = 0
      /\ -h < x - y /\ x - y < h => r = x - y
  BY <1>5, SignedCharIs, Zenon
<1> HIDE DEF r
<1>7. r = 0 <=> a = b
  BY <1>2, <1>3, <1>6
<1>8. ASSUME Ascii(a), Ascii(b) PROVE r < 0 <=> Less(a, b)
  <2>1. CASE Bytes > 1
    <3>1. x < h /\ y < h /\ h \in Nat
      BY <1>2, <1>4, <1>8, <2>1
    <3>2. r = x - y
      <4> HIDE DEF h
      <4> QED
        BY <1>2, <1>6, <3>1
    <3>3. r < 0 <=> x < y
      BY <1>2, <3>2
    <3> QED
      BY <1>3, <3>3, Zenon
  <2>2. CASE ~(Bytes > 1)
    <3>1. x = 0 /\ y = 0
      BY <1>2, <1>4, <2>2
    <3>2. r = 0
      BY <1>6, <3>1
    <3>3. ~(r < 0) /\ ~(x < y)
      BY <3>1, <3>2
    <3> QED
      BY <1>3, <3>3, Zenon
  <2> QED
    BY <2>1, <2>2
<1> QED
  BY <1>7, <1>8, Zenon DEF Agrees, r, x, y

(* A string of memory at p. *)
StringAt(mem, p, s) == \A i \in 0..Len(s) : mem[p + i] = Char(s, i + 1)

(* strncmp, for two strings anywhere in memory. *)
THEOREM ComparisonsAlwaysRight ==
  ASSUME NEW mem, NEW cs \in Int, NEW ct \in Int, NEW s \in Seq(Chars), NEW t \in Seq(Chars),
         StringAt(mem, cs, s), StringAt(mem, ct, t), NEW count \in Nat
  PROVE  Agrees(Strncmp(mem, cs, ct, count), Prefix(s, count), Prefix(t, count))
<1> DEFINE G == {i \in Nat : i < count /\ mem[cs + i] = mem[ct + i] /\ mem[cs + i] # 0}
           m == [i \in Nat |-> IF i < count THEN count - i ELSE 0]
           Same(k) == \A i \in Nat : i < k => mem[cs + i] = mem[ct + i] /\ mem[cs + i] # 0
           I == {k \in Nat : k <= count /\ Same(k)}
           zero == 0
           k == Loop(Nat, G, Onward, zero)
           a == Prefix(s, count)
           b == Prefix(t, count)
           r == Strncmp(mem, cs, ct, count)
<1>1. Measured(Nat, G, Onward, m)
  <2>1. m \in [Nat -> Nat]
    OBVIOUS
  <2>2. ASSUME NEW x \in Nat, x \in G PROVE Onward[x] \in Nat /\ m[Onward[x]] < m[x]
    <3>1. x < count
      BY <2>2
    <3>2. Onward[x] = x + 1 /\ x + 1 \in Nat
      BY DEF Onward
    <3>3. m[x] = count - x /\ m[x + 1] = (IF x + 1 < count THEN count - (x + 1) ELSE 0)
      BY <3>1
    <3> HIDE DEF m
    <3> QED
      BY <3>1, <3>2, <3>3
  <2> HIDE DEF G, m
  <2> QED
    BY <2>1, <2>2 DEF Measured
<1>2. \A x \in I : x \in G => Onward[x] \in I
  <2> SUFFICES ASSUME NEW x \in I, x \in G PROVE Onward[x] \in I
    OBVIOUS
  <2>1. x \in Nat /\ Same(x) /\ x < count /\ mem[cs + x] = mem[ct + x] /\ mem[cs + x] # 0
    BY Zenon
  <2>2. Onward[x] = x + 1 /\ x + 1 \in Nat /\ x + 1 <= count
    BY <2>1 DEF Onward
  <2>3. \A i \in Nat : i < x + 1 => i < x \/ i = x
    BY <2>1
  <2>4. Same(x + 1)
    BY <2>1, <2>3, Zenon
  <2> QED
    BY <2>2, <2>4, Zenon
<1>3. zero \in I
  <2>1. 0 \in Nat /\ 0 <= count /\ \A i \in Nat : ~(i < 0)
    OBVIOUS
  <2> QED
    BY <2>1, Zenon
<1>4. k \in I \ G
  <2>1. I \in SUBSET Nat
    OBVIOUS
  <2> HIDE DEF I, G, m, zero
  <2> QED
    BY <1>1, <1>2, <1>3, <2>1, LoopResult, Zenon
<1>5. r = IF k = count THEN 0 ELSE SignedChar(mem[cs + k] - mem[ct + k])
  BY Zenon DEF Strncmp, Compared, Rounds
<1> HIDE DEF k, r
<1>6. /\ k \in Nat /\ k <= count /\ Same(k)
      /\ ~(k < count) \/ mem[cs + k] # mem[ct + k] \/ mem[cs + k] = 0
  BY <1>4, Zenon
<1>7. Len(s) \in Nat /\ Len(t) \in Nat
  BY CharIs
<1>8. ~(Len(s) < k) /\ ~(Len(t) < k)
  <2>1. Len(s) < k => Len(s) \in 0..Len(s) /\ ~(Len(s) + 1 <= Len(s))
    BY <1>7
  <2>2. Len(t) < k => Len(t) \in 0..Len(t) /\ ~(Len(t) + 1 <= Len(t))
    BY <1>7
  <2>3. Len(s) < k => mem[cs + Len(s)] = 0
    BY <2>1, Zenon DEF StringAt, Char
  <2>4. Len(t) < k => mem[ct + Len(t)] = 0
    BY <2>2, Zenon DEF StringAt, Char
  <2> QED
    BY <1>6, <1>7, <2>3, <2>4, Zenon
<1>9. /\ a \in Seq(Chars) /\ Len(a) = (IF count < Len(s) THEN count ELSE Len(s))
      /\ \A i \in 1..Len(a) : a[i] = s[i]
  BY PrefixIs, Zenon
<1>10. /\ b \in Seq(Chars) /\ Len(b) = (IF count < Len(t) THEN count ELSE Len(t))
       /\ \A i \in 1..Len(b) : b[i] = t[i]
  BY PrefixIs, Zenon
<1> HIDE DEF a, b
<1>11. k <= Len(a) /\ k <= Len(b)
  BY <1>6, <1>7, <1>8, <1>9, <1>10
<1>12. ASSUME NEW i \in 1..k PROVE a[i] = b[i]
  <2>1. i - 1 \in Nat /\ i - 1 < k /\ i - 1 \in 0..Len(s) /\ i - 1 \in 0..Len(t) /\ (i - 1) + 1 = i
    BY <1>6, <1>7, <1>8
  <2>2. i <= Len(s) /\ i <= Len(t) /\ i \in 1..Len(a) /\ i \in 1..Len(b)
    BY <1>6, <1>7, <1>8, <1>9, <1>10, <1>11
  <2>3. mem[cs + (i - 1)] = s[i] /\ mem[ct + (i - 1)] = t[i]
    BY <2>1, <2>2, Zenon DEF StringAt, Char
  <2>4. s[i] = t[i]
    BY <1>6, <2>1, <2>3, Zenon
  <2> QED
    BY <1>9, <1>10, <2>2, <2>4, Zenon
<1>13. k \in 0..Len(s) /\ k \in 0..Len(t)
  BY <1>6, <1>7, <1>8
<1>14. mem[cs + k] = Char(s, k + 1) /\ mem[ct + k] = Char(t, k + 1)
  BY <1>13, Zenon DEF StringAt
<1>15. CASE k = count
  <2>1. ~(k + 1 <= Len(a)) /\ ~(k + 1 <= Len(b))
    BY <1>6, <1>7, <1>9, <1>10, <1>15
  <2>2. Char(a, k + 1) = 0 /\ Char(b, k + 1) = 0
    BY <2>1, Zenon DEF Char
  <2>3. r = 0
    BY <1>5, <1>15, Zenon
  <2>4. SignedChar(0 - 0) = 0
    <3>1. Bytes \in Nat \ {0}
      BY MemoryAssumption
    <3>2. 0 - 0 = 0 /\ 0 \in Int /\ -Bytes < 0 /\ 0 < Bytes
      BY <3>1
    <3> QED
      BY <3>2, SignedCharIs
  <2>5. r = SignedChar(Char(a, k + 1) - Char(b, k + 1))
    BY <2>2, <2>3, <2>4, Zenon
  <2>6. Agrees(SignedChar(Char(a, k + 1) - Char(b, k + 1)), a, b)
    BY <1>6, <1>9, <1>10, <1>11, <1>12, <2>2, DifferenceAgrees
  <2> QED
    BY <2>5, <2>6, Zenon DEF r, a, b
<1>16. CASE k # count
  <2>1. /\ k < count /\ (k + 1 <= Len(a) <=> k + 1 <= Len(s)) /\ (k + 1 <= Len(b) <=> k + 1 <= Len(t))
    BY <1>6, <1>7, <1>9, <1>10, <1>16
  <2>2. k + 1 <= Len(a) => k + 1 \in 1..Len(a)
    BY <1>6, <1>7, <1>9
  <2>3. k + 1 <= Len(b) => k + 1 \in 1..Len(b)
    BY <1>6, <1>7, <1>10
  <2>4. Char(a, k + 1) = Char(s, k + 1)
    BY <1>9, <2>1, <2>2, Zenon DEF Char
  <2>5. Char(b, k + 1) = Char(t, k + 1)
    BY <1>10, <2>1, <2>3, Zenon DEF Char
  <2>6. r = SignedChar(Char(a, k + 1) - Char(b, k + 1))
    BY <1>5, <1>14, <1>16, <2>4, <2>5, Zenon
  <2>7. Char(a, k + 1) # Char(b, k + 1) \/ Char(a, k + 1) = 0
    BY <1>6, <1>14, <2>1, <2>4, <2>5, Zenon
  <2>8. Agrees(SignedChar(Char(a, k + 1) - Char(b, k + 1)), a, b)
    BY <1>6, <1>9, <1>10, <1>11, <1>12, <2>7, DifferenceAgrees
  <2> QED
    BY <2>6, <2>8, Zenon DEF r, a, b
<1> QED
  BY <1>15, <1>16

(* m is a sequence of length a and then one of length b. *)
Joins(m, x, y, a, b) ==
  /\ m \in Seq(Nat) /\ Len(m) = a + b
  /\ \A i \in 1 .. a + b : m[i] = IF i <= a THEN x[i] ELSE y[i - a]

LEMMA ConcatIs ==
  ASSUME NEW x \in Seq(Nat), NEW y \in Seq(Nat), NEW a, NEW b, Len(x) = a, Len(y) = b
  PROVE  Joins(x \o y, x, y, a, b)
<1>1. /\ x \o y \in Seq(Nat) /\ Len(x \o y) = Len(x) + Len(y)
      /\ \A i \in 1 .. Len(x) + Len(y) : (x \o y)[i] = IF i <= Len(x) THEN x[i] ELSE y[i - Len(x)]
  BY ConcatProperties
<1> QED
  BY <1>1, Zenon DEF Joins

LEMMA LaidHolds ==
  ASSUME NEW s \in Seq(Chars), NEW t \in Seq(Chars)
  PROVE  /\ StringAt(Laid(s, t), 1, s) /\ StringAt(Laid(s, t), Len(s) + 2, t)
         /\ Laid(s, t) \in Seq(Nat) /\ Len(Laid(s, t)) = 2 * (Len(s) + Len(t)) + 5
<1> DEFINE z == <<0>>
           tail == [i \in 1 .. Len(s) + Len(t) + 2 |-> 99]
           m1 == s \o z
           m2 == m1 \o t
           m3 == m2 \o z
           m4 == m3 \o tail
           m5 == m4 \o z
           l == Len(s)
           n == Len(t)
<1>1. l \in Nat /\ n \in Nat
  BY CharIs
<1>0. Len(s) = l /\ Len(t) = n
  OBVIOUS
<1> HIDE DEF l, n
<1>2. s \in Seq(Nat) /\ t \in Seq(Nat)
  <2>1. Chars \subseteq Nat
    BY MemoryAssumption DEF Chars
  <2> QED
    BY <2>1, SeqMonotonic
<1>3. z \in Seq(Nat) /\ Len(z) = 1 /\ z[1] = 0
  OBVIOUS
<1> DEFINE r == l + n + 2
<1>4. tail \in Seq(Nat) /\ Len(tail) = r
  <2>1. r \in Nat
    BY <1>1
  <2>2. tail \in [1..r -> Nat]
    BY <1>0
  <2> HIDE DEF tail, r
  <2> QED
    BY <2>1, <2>2, FunctionIsSeq, Zenon
<1>20. r \in Nat /\ r >= 0
  BY <1>1
<1> HIDE DEF r
<1> HIDE DEF z, tail
<1>5. /\ m1 \in Seq(Nat) /\ Len(m1) = l + 1
      /\ \A i \in 1 .. l + 1 : m1[i] = IF i <= l THEN s[i] ELSE z[i - l]
  <2>1. Joins(m1, s, z, l, 1)
    BY <1>0, <1>2, <1>3, ConcatIs
  <2> QED
    BY <2>1, Zenon DEF Joins
<1> HIDE DEF m1
<1>6. /\ m2 \in Seq(Nat) /\ Len(m2) = l + 1 + n
      /\ \A i \in 1 .. l + 1 + n : m2[i] = IF i <= l + 1 THEN m1[i] ELSE t[i - (l + 1)]
  <2>1. Joins(m2, m1, t, l + 1, n)
    BY <1>0, <1>2, <1>5, ConcatIs
  <2> QED
    BY <2>1, Zenon DEF Joins
<1> HIDE DEF m2
<1>7. /\ m3 \in Seq(Nat) /\ Len(m3) = l + 1 + n + 1
      /\ \A i \in 1 .. l + 1 + n + 1 : m3[i] = IF i <= l + 1 + n THEN m2[i] ELSE z[i - (l + 1 + n)]
  <2>1. Joins(m3, m2, z, l + 1 + n, 1)
    BY <1>3, <1>6, ConcatIs
  <2> QED
    BY <2>1, Zenon DEF Joins
<1> HIDE DEF m3
<1> DEFINE k == l + 1 + n + 1
<1>8. /\ m4 \in Seq(Nat) /\ Len(m4) = k + r
      /\ \A i \in 1 .. k + r : m4[i] = IF i <= k THEN m3[i] ELSE tail[i - k]
  <2>1. Joins(m4, m3, tail, k, r)
    BY <1>4, <1>7, ConcatIs
  <2> QED
    BY <2>1, Zenon DEF Joins
<1> HIDE DEF m4
<1>9. /\ m5 \in Seq(Nat) /\ Len(m5) = k + r + 1
      /\ \A i \in 1 .. k + r + 1 : m5[i] = IF i <= k + r THEN m4[i] ELSE z[i - (k + r)]
  <2>1. Joins(m5, m4, z, k + r, 1)
    BY <1>3, <1>8, ConcatIs
  <2> QED
    BY <2>1, Zenon DEF Joins
<1> HIDE DEF m5
<1>10. Laid(s, t) = m5
  BY Zenon DEF Laid, m5, m4, m3, m2, m1, z, tail
<1>11. \A i \in 1..k : m5[i] = m3[i]
  BY <1>20, <1>1, <1>8, <1>9
<1>12. ASSUME NEW i \in 0..l PROVE m5[1 + i] = Char(s, i + 1)
  <2>1. /\ 1 + i \in 1..k /\ 1 + i \in 1 .. l + 1 + n + 1 /\ 1 + i <= l + 1 + n /\ 1 + i <= l + 1
        /\ 1 + i \in 1 .. l + 1 + n /\ 1 + i \in 1 .. l + 1 /\ 1 + i = i + 1
    BY <1>1
  <2>2. m5[1 + i] = m1[1 + i]
    BY <1>6, <1>7, <1>11, <2>1, Zenon
  <2>3. CASE i < l
    <3>1. i + 1 <= l
      BY <1>1, <2>3
    <3> QED
      BY <1>5, <2>1, <2>2, <3>1, Zenon DEF Char, l
  <2>4. CASE ~(i < l)
    <3>1. ~(i + 1 <= l) /\ (1 + i) - l = 1
      BY <1>1, <2>4
    <3> QED
      BY <1>3, <1>5, <2>1, <2>2, <3>1, Zenon DEF Char, l
  <2> QED
    BY <2>3, <2>4
<1>13. ASSUME NEW i \in 0..n PROVE m5[(l + 2) + i] = Char(t, i + 1)
  <2> DEFINE j == (l + 2) + i
  <2>1. j \in 1..k /\ j \in 1 .. l + 1 + n + 1 /\ ~(j <= l + 1) /\ j - (l + 1) = i + 1
    BY <1>1
  <2>2. CASE i < n
    <3>1. i + 1 <= n /\ j <= l + 1 + n /\ j \in 1 .. l + 1 + n
      BY <1>1, <2>2
    <3> HIDE DEF j
    <3>2. m5[j] = t[i + 1]
      BY <1>6, <1>7, <1>11, <2>1, <3>1, Zenon
    <3> QED
      BY <3>1, <3>2, Zenon DEF Char, n, j
  <2>3. CASE ~(i < n)
    <3>1. ~(i + 1 <= n) /\ ~(j <= l + 1 + n) /\ j - (l + 1 + n) = 1
      BY <1>1, <2>3
    <3> HIDE DEF j
    <3>2. m5[j] = 0
      BY <1>3, <1>7, <1>11, <2>1, <3>1, Zenon
    <3> QED
      BY <3>1, <3>2, Zenon DEF Char, n, j
  <2> QED
    BY <2>2, <2>3
<1>14. StringAt(m5, 1, s) /\ StringAt(m5, l + 2, t)
  BY <1>12, <1>13, Zenon DEF StringAt, l, n
<1>15. k + r + 1 = 2 * (l + n) + 5
  BY <1>1 DEF r
<1> QED
  BY <1>9, <1>10, <1>14, <1>15, Zenon DEF l, n

(* strcmp and strncmp tell two strings over any characters apart, of any length, and order
   seven-bit ones. *)
THEOREM CompareAlwaysOrders == CallsSpec => []CompareOrders
<1>1. Given => CompareOrders
  <2> DEFINE s == probe.s
             t == probe.t
             mem == Laid(s, t)
             p == Len(s) + 2
             c == Cardinality(DOMAIN mem)
  <2> SUFFICES ASSUME Given, probe.of = "compare"
               PROVE  /\ Agrees(Strcmp(mem, 1, p), s, t)
                      /\ \A n \in 0 .. MaxText + 1 :
                           Agrees(Strncmp(mem, 1, p, n), Prefix(s, n), Prefix(t, n))
    BY Zenon DEF CompareOrders
  <2>1. s \in Texts(Alphabet, MaxText) /\ t \in Texts(Alphabet, MaxText)
    BY Zenon DEF Given
  <2>2. Alphabet \subseteq Chars /\ MaxText \in Nat
    BY CallsAssumption DEF Chars
  <2> HIDE DEF s, t
  <2>3. s \in Seq(Chars) /\ Len(s) \in Nat /\ t \in Seq(Chars) /\ Len(t) \in Nat
    BY <2>1, <2>2, MoreTexts
  <2>4. /\ StringAt(mem, 1, s) /\ StringAt(mem, p, t)
        /\ mem \in Seq(Nat) /\ Len(mem) >= Len(s) + Len(t)
    BY <2>3, LaidHolds
  <2> HIDE DEF mem
  <2>5. 1 \in Int /\ p \in Int
    BY <2>3
  <2> HIDE DEF p
  <2>6. \A n \in Nat : Agrees(Strncmp(mem, 1, p, n), Prefix(s, n), Prefix(t, n))
    BY <2>3, <2>4, <2>5, ComparisonsAlwaysRight
  <2>7. c \in Nat /\ c >= Len(s) /\ c >= Len(t)
    <3>1. Len(mem) \in Nat /\ DOMAIN mem = 1..Len(mem)
      BY <2>4, LenProperties
    <3>2. Cardinality(1..Len(mem)) = IF 1 > Len(mem) THEN 0 ELSE Len(mem) - 1 + 1
      BY <3>1, FS_Interval
    <3>3. c = Len(mem)
      BY <3>1, <3>2
    <3> HIDE DEF c
    <3> QED
      BY <2>3, <2>4, <3>1, <3>3
  <2> HIDE DEF c
  <2>8. ASSUME NEW u \in Seq(Chars), c >= Len(u) PROVE Prefix(u, c) = u
    <3> DEFINE q == Prefix(u, c)
    <3>1. /\ q \in Seq(Chars) /\ Len(u) \in Nat /\ Len(q) = (IF c < Len(u) THEN c ELSE Len(u))
          /\ \A i \in 1..Len(q) : q[i] = u[i]
      BY <2>7, PrefixIs
    <3> HIDE DEF q
    <3>2. Len(q) = Len(u)
      BY <2>7, <2>8, <3>1
    <3>3. q = u
      BY <3>1, <3>2, SeqEqual
    <3> QED
      BY <3>3 DEF q
  <2>9. Agrees(Strcmp(mem, 1, p), s, t)
    <3>1. Prefix(s, c) = s /\ Prefix(t, c) = t
      BY <2>3, <2>7, <2>8
    <3>2. Strcmp(mem, 1, p) = Strncmp(mem, 1, p, c)
      BY Zenon DEF Strcmp, c
    <3>3. Agrees(Strncmp(mem, 1, p, c), Prefix(s, c), Prefix(t, c))
      BY <2>6, <2>7
    <3> QED
      BY <3>1, <3>2, <3>3, Zenon
  <2>10. ASSUME NEW n \in 0 .. MaxText + 1
         PROVE  Agrees(Strncmp(mem, 1, p, n), Prefix(s, n), Prefix(t, n))
    <3>1. n \in Nat
      BY <2>2
    <3> QED
      BY <2>6, <3>1
  <2> QED
    BY <2>9, <2>10
<1> QED
  BY <1>1, AlwaysGiven, PTL

-----------------------------------------------------------------------------
(* Searches.                                                               *)

(* A loop that counts stops at the first count at which it does not go on. *)
LEMMA RoundsAre ==
  ASSUME NEW more, NEW n \in Nat, n \notin more, \A i \in Nat : i < n => i \in more
  PROVE  Rounds(more) = n
<1> DEFINE Turn(h) == [x \in Nat |-> IF x \in more THEN h[Onward[x]] ELSE x]
           f == CHOOSE h : h = Turn(h)
           S(x) == {y \in Nat : x <= y /\ y \notin more}
           Least(X) == CHOOSE y : y \in X /\ \A z \in X : y <= z
           g == [x \in Nat |-> Least(S(x))]
<1>1. Rounds(more) = f[0]
  BY Zenon DEF Rounds, Loop
<1>2. \A x \in Nat : Onward[x] = x + 1 /\ x + 1 \in Nat
  BY DEF Onward
<1>3. g = Turn(g)
  <2>1. ASSUME NEW x \in Nat, x \in more PROVE g[x] = g[Onward[x]]
    <3>1. S(x) = S(x + 1)
      BY <2>1
    <3>2. g[x] = Least(S(x)) /\ g[x + 1] = Least(S(x + 1))
      BY <1>2
    <3> QED
      BY <1>2, <3>1, <3>2, Zenon
  <2>2. ASSUME NEW x \in Nat, x \notin more PROVE g[x] = x
    <3>1. x \in S(x) /\ \A z \in S(x) : x <= z
      BY <2>2
    <3>2. \A y : y \in S(x) /\ (\A z \in S(x) : y <= z) => y = x
      BY <3>1
    <3>3. Least(S(x)) = x
      BY <3>1, <3>2, Zenon
    <3> QED
      BY <3>3
  <2>3. g = [x \in Nat |-> g[x]]
    OBVIOUS
  <2> HIDE DEF g
  <2>4. [x \in Nat |-> g[x]] = Turn(g)
    BY <2>1, <2>2, Zenon
  <2> QED
    BY <2>3, <2>4, Zenon
<1> HIDE DEF g
<1>4. f = Turn(f)
  BY <1>3, Zenon
<1> HIDE DEF f
<1>5. \A x \in Nat : f[x] = IF x \in more THEN f[Onward[x]] ELSE x
  BY <1>4, Zenon
<1> DEFINE T == {k \in Nat : k <= n => f[n - k] = n}
<1>6. 0 \in T
  <2>1. n - 0 = n
    OBVIOUS
  <2> QED
    BY <1>5, <2>1
<1>7. ASSUME NEW k \in Nat, k \in T PROVE k + 1 \in T
  <2> SUFFICES ASSUME k + 1 <= n PROVE f[n - (k + 1)] = n
    OBVIOUS
  <2> DEFINE x == n - (k + 1)
  <2>1. x \in Nat /\ x < n /\ x + 1 = n - k /\ k <= n
    OBVIOUS
  <2> HIDE DEF x
  <2>2. f[x] = f[x + 1]
    BY <1>2, <1>5, <2>1, Zenon
  <2>3. f[n - k] = n
    BY <1>7, <2>1
  <2> QED
    BY <2>1, <2>2, <2>3, Zenon DEF x
<1>8. Nat \subseteq T
  <2> HIDE DEF T
  <2> QED
    BY <1>6, <1>7, Induction
<1>9. n \in T /\ n - n = 0 /\ n <= n
  BY <1>8
<1>10. f[0] = n
  BY <1>9
<1> QED
  BY <1>1, <1>10

LEMMA LowestIs ==
  ASSUME NEW S \in SUBSET Int, NEW k \in S, \A j \in S : k <= j
  PROVE  Lowest(S) = k
<1>1. \A i \in S : (\A j \in S : i <= j) => i = k
  OBVIOUS
<1>2. S # {}
  OBVIOUS
<1> QED
  BY <1>1, <1>2, Zenon DEF Lowest

LEMMA HighestIs ==
  ASSUME NEW S \in SUBSET Int, NEW k \in S, \A j \in S : k >= j
  PROVE  Highest(S) = k
<1>1. \A i \in S : (\A j \in S : i >= j) => i = k
  OBVIOUS
<1>2. S # {}
  OBVIOUS
<1> QED
  BY <1>1, <1>2, Zenon DEF Highest

(* The first place of a string with a character of C, or the one behind the string. *)
First(s, C, k) ==
  /\ k \in 1 .. Len(s) + 1
  /\ \A j \in 1 .. k - 1 : s[j] \notin C
  /\ k <= Len(s) => s[k] \in C

LEMMA FirstIs ==
  ASSUME NEW s \in Seq(Chars), NEW C
  PROVE  \E k \in Nat : /\ First(s, C, k)
                        /\ Lowest(At(s, C) \cup {Len(s) + 1}) = k
                        /\ Lowest(At(s, C)) = IF k <= Len(s) THEN k ELSE 0
<1>1. Len(s) \in Nat /\ Len(s) + 1 \in Nat
  BY LenProperties
<1> DEFINE A == At(s, C)
           S == A \cup {Len(s) + 1}
<1>2. \A i : i \in A <=> i \in 1..Len(s) /\ s[i] \in C
  BY DEF At
<1> HIDE DEF A
<1>3. S \subseteq Nat /\ S # {} /\ Nat \subseteq Int
  BY <1>1, <1>2
<1>4. PICK k \in S : \A m \in S : ~(m < k)
  BY <1>3, Minimal
<1>5. \A m \in S : k <= m
  BY <1>3, <1>4
<1>6. Lowest(S) = k
  BY <1>3, <1>5, LowestIs
<1>7. First(s, C, k)
  <2>1. k \in 1 .. Len(s) + 1
    BY <1>1, <1>2
  <2>2. ASSUME NEW j \in 1 .. k - 1 PROVE s[j] \notin C
    <3>1. j \in 1..Len(s) /\ ~(k <= j)
      BY <1>1, <2>1
    <3>2. j \notin A
      BY <1>5, <3>1
    <3> QED
      BY <1>2, <3>1, <3>2
  <2>3. k <= Len(s) => s[k] \in C
    BY <1>1, <1>2
  <2> QED
    BY <2>1, <2>2, <2>3 DEF First
<1>8. Lowest(A) = IF k <= Len(s) THEN k ELSE 0
  <2>1. CASE k <= Len(s)
    <3>1. k \in A /\ A \subseteq Int /\ \A j \in A : k <= j
      BY <1>1, <1>3, <1>5, <2>1
    <3>2. Lowest(A) = k
      BY <3>1, LowestIs
    <3> QED
      BY <2>1, <3>2
  <2>2. CASE ~(k <= Len(s))
    <3>1. A = {}
      BY <1>1, <1>2, <1>5, <2>2
    <3>2. Lowest(A) = 0
      BY <3>1, Zenon DEF Lowest
    <3> QED
      BY <2>2, <3>2
  <2> QED
    BY <2>1, <2>2
<1>9. k \in Nat
  BY <1>3
<1> QED
  BY <1>6, <1>7, <1>8, <1>9, Zenon DEF A

(* Memory as a search of a string at p meets it up to that place. *)
Met(mem, p, s, C, k) ==
  /\ k - 1 \in Nat /\ (k - 1) + 1 = k
  /\ \A i \in Nat : i < k - 1 => /\ i < Len(s) /\ mem[p + i] \in Chars
                                 /\ mem[p + i] \notin C /\ mem[p + i] # 0
  /\ k <= Len(s) => /\ k - 1 < Len(s) /\ mem[p + (k - 1)] \in Chars
                    /\ mem[p + (k - 1)] \in C /\ mem[p + (k - 1)] # 0
  /\ ~(k <= Len(s)) => k - 1 = Len(s) /\ mem[p + (k - 1)] = 0

LEMMA FirstMet ==
  ASSUME NEW mem, NEW p \in Int, NEW s \in Seq(Chars), StringAt(mem, p, s),
         NEW C, NEW k \in Nat, First(s, C, k)
  PROVE  Met(mem, p, s, C, k)
<1>1. Len(s) \in Nat /\ \A i \in 1..Len(s) : s[i] \in Chars /\ s[i] # 0
  <2>1. Len(s) \in Nat /\ \A i \in 1..Len(s) : s[i] \in Chars
    BY LenProperties, ElementOfSeq
  <2>2. \A c \in Chars : c # 0
    BY MemoryAssumption DEF Chars
  <2> QED
    BY <2>1, <2>2, Zenon
<1>2. /\ k \in 1 .. Len(s) + 1 /\ \A j \in 1 .. k - 1 : s[j] \notin C
      /\ k <= Len(s) => s[k] \in C
  BY Zenon DEF First
<1>3. k - 1 \in Nat /\ (k - 1) + 1 = k
  BY <1>1, <1>2
<1>4. ASSUME NEW i \in Nat, i < Len(s)
      PROVE  mem[p + i] = s[i + 1]
  <2>1. i \in 0..Len(s) /\ i + 1 <= Len(s)
    BY <1>1, <1>4
  <2> QED
    BY <2>1, Zenon DEF StringAt, Char
<1>5. ASSUME NEW i \in Nat, i < k - 1
      PROVE  i < Len(s) /\ mem[p + i] \in Chars /\ mem[p + i] \notin C /\ mem[p + i] # 0
  <2>1. i < Len(s) /\ i + 1 \in 1 .. k - 1 /\ i + 1 \in 1..Len(s)
    BY <1>1, <1>2, <1>5
  <2> QED
    BY <1>1, <1>2, <1>4, <2>1, Zenon
<1>6. ASSUME k <= Len(s)
      PROVE  /\ k - 1 < Len(s) /\ mem[p + (k - 1)] \in Chars
             /\ mem[p + (k - 1)] \in C /\ mem[p + (k - 1)] # 0
  <2>1. k - 1 < Len(s) /\ k \in 1..Len(s)
    BY <1>1, <1>2, <1>6
  <2> QED
    BY <1>1, <1>2, <1>3, <1>4, <1>6, <2>1, Zenon
<1>7. ASSUME ~(k <= Len(s)) PROVE k - 1 = Len(s) /\ mem[p + (k - 1)] = 0
  <2>1. k - 1 = Len(s) /\ k - 1 \in 0..Len(s)
    BY <1>1, <1>2, <1>7
  <2> QED
    BY <1>3, <1>7, <2>1, Zenon DEF StringAt, Char
<1> QED
  BY <1>3, <1>5, <1>6, <1>7, Zenon DEF Met

LEMMA StrlenIs ==
  ASSUME NEW mem, NEW p \in Int, NEW s \in Seq(Chars), StringAt(mem, p, s)
  PROVE  Strlen(mem, p) = Len(s)
<1> DEFINE more == {k \in Nat : mem[p + k] # 0}
<1>1. PICK k \in Nat : First(s, {}, k)
  BY FirstIs
<1>2. Met(mem, p, s, {}, k)
  BY <1>1, FirstMet
<1>3. k - 1 \in Nat /\ k - 1 \notin more /\ \A i \in Nat : i < k - 1 => i \in more
  BY <1>2, Zenon DEF Met
<1>4. k - 1 = Len(s)
  BY <1>2, Zenon DEF Met
<1>5. Rounds(more) = k - 1
  BY <1>3, RoundsAre
<1> QED
  BY <1>4, <1>5, Zenon DEF Strlen

LEMMA StrnlenIs ==
  ASSUME NEW mem, NEW p \in Int, NEW s \in Seq(Chars), StringAt(mem, p, s), NEW count \in Nat
  PROVE  Strnlen(mem, p, count) = IF count < Len(s) THEN count ELSE Len(s)
<1> DEFINE more == {k \in Nat : k < count /\ mem[p + k] # 0}
           n == IF count < Len(s) THEN count ELSE Len(s)
<1>1. PICK k \in Nat : First(s, {}, k)
  BY FirstIs
<1>2. Met(mem, p, s, {}, k)
  BY <1>1, FirstMet
<1>3. k - 1 = Len(s) /\ Len(s) \in Nat
  BY <1>2, Zenon DEF Met
<1>4. mem[p + Len(s)] = 0 /\ \A i \in Nat : i < Len(s) => mem[p + i] # 0
  BY <1>2, <1>3, Zenon DEF Met
<1>5. /\ n \in Nat /\ (n < count => n = Len(s)) /\ \A i \in Nat : i < n => i < count /\ i < Len(s)
  BY <1>3
<1> HIDE DEF n
<1>6. n \notin more /\ \A i \in Nat : i < n => i \in more
  BY <1>4, <1>5, Zenon
<1>7. Rounds(more) = n
  BY <1>5, <1>6, RoundsAre
<1> QED
  BY <1>7, Zenon DEF Strnlen, n

(* The pointer a search returns: to the place k, or NULL behind the string. *)
Found(p, s, k) == IF k <= Len(s) THEN p + (k - 1) ELSE 0

LEMMA CharMod ==
  ASSUME NEW c \in Chars
  PROVE  c % Bytes = c /\ c # 0 /\ 0 % Bytes = 0
<1>1. \A x \in Nat, b \in Nat : x < b => x % b = x
  BY SMT
<1>2. Bytes \in Nat /\ c \in Nat /\ c < Bytes /\ c # 0 /\ 0 \in Nat /\ 0 < Bytes
  BY MemoryAssumption DEF Chars
<1> QED
  BY <1>1, <1>2, Zenon

LEMMA StrchrIs ==
  ASSUME NEW mem, NEW p \in Int, NEW s \in Seq(Chars), StringAt(mem, p, s),
         NEW c \in Chars, NEW k \in Nat, First(s, {c}, k)
  PROVE  Strchr(mem, p, c) = Found(p, s, k)
<1> DEFINE more == {i \in Nat : mem[p + i] # c % Bytes /\ mem[p + i] # 0}
           n == k - 1
<1>1. Met(mem, p, s, {c}, k)
  BY FirstMet
<1>2. c % Bytes = c /\ c # 0
  BY CharMod
<1>3. n \in Nat /\ n \notin more /\ \A i \in Nat : i < n => i \in more
  BY <1>1, <1>2, Zenon DEF Met
<1> HIDE DEF n
<1>4. Rounds(more) = n
  BY <1>3, RoundsAre
<1>5. Strchr(mem, p, c) = IF mem[p + n] = c THEN p + n ELSE 0
  BY <1>2, <1>4, Zenon DEF Strchr, NULL
<1>6. mem[p + n] = c <=> k <= Len(s)
  BY <1>1, <1>2, Zenon DEF Met, n
<1> QED
  BY <1>5, <1>6, Zenon DEF Found, n

LEMMA StrchrEnd ==
  ASSUME NEW mem, NEW p \in Int, NEW s \in Seq(Chars), StringAt(mem, p, s)
  PROVE  Strchr(mem, p, 0) = p + Len(s)
<1> DEFINE more == {i \in Nat : mem[p + i] # 0 % Bytes /\ mem[p + i] # 0}
           n == Len(s)
<1>1. PICK k \in Nat : First(s, {}, k)
  BY FirstIs
<1>2. Met(mem, p, s, {}, k)
  BY <1>1, FirstMet
<1>3. 0 % Bytes = 0
  <2>1. \A b \in Nat \ {0} : 0 % b = 0
    BY SMT
  <2> QED
    BY <2>1, MemoryAssumption
<1>4. n \in Nat /\ mem[p + n] = 0 /\ \A i \in Nat : i < n => mem[p + i] # 0
  BY <1>2, Zenon DEF Met
<1> HIDE DEF n
<1>5. n \notin more /\ \A i \in Nat : i < n => i \in more
  BY <1>3, <1>4, Zenon
<1>6. Rounds(more) = n
  BY <1>4, <1>5, RoundsAre
<1> QED
  BY <1>3, <1>4, <1>6, Zenon DEF Strchr, n

LEMMA MemscanIs ==
  ASSUME NEW mem, NEW p \in Int, NEW s \in Seq(Chars), StringAt(mem, p, s),
         NEW c \in Chars, NEW k \in Nat, First(s, {c}, k)
  PROVE  /\ Memscan(mem, p, c, Len(s)) = p + (k - 1)
         /\ Memchr(mem, p, c, Len(s)) = Found(p, s, k)
<1> DEFINE more == {i \in Nat : i < Len(s) /\ mem[p + i] # c}
           n == k - 1
<1>1. Met(mem, p, s, {c}, k)
  BY FirstMet
<1>2. Len(s) \in Nat /\ c % Bytes = c
  BY CharMod, LenProperties
<1>3. ~(Len(s) < Len(s))
  BY <1>2
<1>4. n \in Nat /\ n \notin more /\ \A i \in Nat : i < n => i \in more
  BY <1>1, <1>3, Zenon DEF Met
<1>5. k <= Len(s) <=> n # Len(s)
  BY <1>1, <1>3, Zenon DEF Met
<1> HIDE DEF n
<1>6. Rounds(more) = n
  BY <1>4, RoundsAre
<1>7. Memscan(mem, p, c, Len(s)) = p + n
  BY <1>6, Zenon DEF Memscan
<1>8. p + n = p + Len(s) <=> n = Len(s)
  BY <1>2, <1>4
<1>9. Memchr(mem, p, c, Len(s)) = Found(p, s, k)
  BY <1>2, <1>5, <1>7, <1>8, Zenon DEF Memchr, NULL, Found, n
<1> QED
  BY <1>7, <1>9 DEF n

LEMMA StrspnIs ==
  ASSUME NEW mem, NEW p \in Int, NEW s \in Seq(Chars), StringAt(mem, p, s),
         NEW C, NEW E, \A i \in 1..Len(s) : s[i] \in C <=> s[i] \notin E,
         NEW k \in Nat, First(s, E, k)
  PROVE  Strspn(mem, p, C) = k - 1
<1> DEFINE more == {i \in Nat : mem[p + i] # 0 /\ mem[p + i] \in C}
           n == k - 1
<1>1. Met(mem, p, s, E, k) /\ Len(s) \in Nat
  BY FirstMet, LenProperties
<1>2. ASSUME NEW i \in Nat, i < Len(s) PROVE mem[p + i] \in C <=> mem[p + i] \notin E
  <2>1. i \in 0..Len(s) /\ i + 1 \in 1..Len(s) /\ i + 1 <= Len(s)
    BY <1>1, <1>2
  <2>2. mem[p + i] = s[i + 1]
    BY <2>1, Zenon DEF StringAt, Char
  <2> QED
    BY <2>1, <2>2, Zenon
<1>3. n \in Nat /\ n \notin more /\ \A i \in Nat : i < n => i \in more
  BY <1>1, <1>2, Zenon DEF Met
<1>4. Rounds(more) = n
  BY <1>3, RoundsAre
<1> QED
  BY <1>4, Zenon DEF Strspn

LEMMA StrpbrkIs ==
  ASSUME NEW mem, NEW p \in Int, NEW s \in Seq(Chars), StringAt(mem, p, s),
         NEW C, NEW k \in Nat, First(s, C, k)
  PROVE  Strpbrk(mem, p, C) = Found(p, s, k)
<1> DEFINE more == {i \in Nat : mem[p + i] # 0 /\ mem[p + i] \notin C}
           n == k - 1
<1>1. Met(mem, p, s, C, k)
  BY FirstMet
<1>2. n \in Nat /\ n \notin more /\ \A i \in Nat : i < n => i \in more
  BY <1>1, Zenon DEF Met
<1> HIDE DEF n
<1>3. Rounds(more) = n
  BY <1>2, RoundsAre
<1>4. Strpbrk(mem, p, C) = IF mem[p + n] = 0 THEN 0 ELSE p + n
  BY <1>3, Zenon DEF Strpbrk, NULL
<1>5. mem[p + n] = 0 <=> ~(k <= Len(s))
  BY <1>1, Zenon DEF Met, n
<1> QED
  BY <1>4, <1>5, Zenon DEF Found, n

(* The last place of a string with a character c, counted from the end. *)
LEMMA StrrchrIs ==
  ASSUME NEW mem, NEW p \in Int, NEW s \in Seq(Chars), StringAt(mem, p, s), NEW c \in Chars
  PROVE  \E r \in Nat : /\ Strrchr(mem, p, c) = IF r <= Len(s) THEN p + Len(s) - r ELSE 0
                        /\ Highest(At(s, {c})) = Len(s) + 1 - r
                        /\ r <= Len(s) + 1
<1> DEFINE n == Len(s)
           A == At(s, {c})
           T == {r \in Nat : r = n + 1 \/ (r <= n /\ mem[p + n - r] = c)}
           more == {i \in Nat : i <= n /\ mem[p + n - i] # c % Bytes}
<1>1. n \in Nat /\ n + 1 \in Nat
  BY LenProperties
<1>2. c % Bytes = c /\ c # 0
  BY CharMod
<1>3. Strlen(mem, p) = n
  BY StrlenIs
<1>4. \A i : i \in A <=> i \in 1..n /\ s[i] = c
  BY DEF At
<1> HIDE DEF A
<1>5. mem[p + n] = 0 /\ \A i \in Nat : i < n => mem[p + i] = s[i + 1]
  <2>1. n \in 0..n /\ ~(n + 1 <= n)
    BY <1>1
  <2>2. \A i \in Nat : i < n => i \in 0..n /\ i + 1 <= n
    BY <1>1
  <2> QED
    BY <2>1, <2>2, Zenon DEF StringAt, Char
<1>6. \A r \in Nat : r <= n => (mem[p + n - r] = c <=> r >= 1 /\ n + 1 - r \in A)
  <2> SUFFICES ASSUME NEW r \in Nat, r <= n
               PROVE  mem[p + n - r] = c <=> r >= 1 /\ n + 1 - r \in A
    OBVIOUS
  <2>1. CASE r = 0
    <3>1. p + n - r = p + n /\ ~(r >= 1)
      BY <1>1, <2>1
    <3> QED
      BY <1>2, <1>5, <3>1, Zenon
  <2>2. CASE r # 0
    <3> DEFINE i == n - r
    <3>1. i \in Nat /\ i < n /\ p + n - r = p + i /\ i + 1 = n + 1 - r /\ r >= 1 /\ n + 1 - r \in 1..n
      BY <1>1, <2>2
    <3> HIDE DEF i
    <3>2. mem[p + i] = s[n + 1 - r]
      BY <1>5, <3>1, Zenon
    <3> QED
      BY <1>4, <3>1, <3>2, Zenon
  <2> QED
    BY <2>1, <2>2
<1> HIDE DEF n
<1>7. T \subseteq Nat /\ T # {}
  BY <1>1
<1>8. PICK r \in T : \A m \in T : ~(m < r)
  BY <1>7, Minimal
<1>9. r \in Nat /\ (r = n + 1 \/ (r <= n /\ mem[p + n - r] = c)) /\ r <= n + 1
  BY <1>1, <1>8
<1>10. ASSUME NEW i \in Nat, i < r PROVE i <= n /\ mem[p + n - i] # c
  <2>1. i \notin T
    BY <1>8, <1>10
  <2>2. i <= n
    BY <1>1, <1>9, <1>10
  <2> QED
    BY <2>1, <2>2
<1> HIDE DEF T
<1>11. ~(n + 1 <= n)
  BY <1>1
<1>12. r \notin more /\ \A i \in Nat : i < r => i \in more
  BY <1>2, <1>9, <1>10, <1>11, Zenon
<1>13. Rounds(more) = r
  BY <1>9, <1>12, RoundsAre
<1>14. Strrchr(mem, p, c) = IF r <= n THEN p + n - r ELSE 0
  BY <1>3, <1>13, Zenon DEF Strrchr, NULL
<1>15. Highest(A) = n + 1 - r
  <2>1. A \subseteq Int
    BY <1>4
  <2>2. ASSUME NEW j \in A PROVE n + 1 - j \in Nat /\ n + 1 - j <= n /\ n + 1 - (n + 1 - j) = j /\ n + 1 - j >= 1
    BY <1>1, <1>4, <2>2
  <2>3. ASSUME NEW j \in A PROVE n + 1 - r >= j
    <3> DEFINE i == n + 1 - j
    <3>1. i \in Nat /\ i <= n /\ n + 1 - i = j /\ i >= 1
      BY <2>2, <2>3
    <3> HIDE DEF i
    <3>2. mem[p + n - i] = c
      BY <1>6, <2>3, <3>1, Zenon
    <3>3. ~(i < r)
      BY <1>10, <3>1, <3>2, Zenon
    <3>4. j \in Int
      BY <2>1, <2>3
    <3> QED
      BY <1>1, <1>9, <3>1, <3>3, <3>4
  <2>4. CASE r = n + 1
    <3>1. n + 1 - r = 0
      BY <1>1, <2>4
    <3>2. A = {}
      BY <1>4, <2>3, <3>1
    <3> QED
      BY <3>1, <3>2, Zenon DEF Highest
  <2>5. CASE r # n + 1
    <3>1. r <= n /\ mem[p + n - r] = c
      BY <1>9, <2>5
    <3>2. n + 1 - r \in A
      BY <1>6, <1>9, <3>1, Zenon
    <3> QED
      BY <2>1, <2>3, <3>2, HighestIs
  <2> QED
    BY <2>4, <2>5
<1> QED
  BY <1>9, <1>14, <1>15, Zenon DEF n, A

LEMMA StrrchrEnd ==
  ASSUME NEW mem, NEW p \in Int, NEW s \in Seq(Chars), StringAt(mem, p, s)
  PROVE  Strrchr(mem, p, 0) = p + Len(s)
<1> DEFINE n == Len(s)
           z == 0
           more == {i \in Nat : i <= n /\ mem[p + n - i] # z % Bytes}
<1>1. n \in Nat /\ n \in 0..n /\ ~(n + 1 <= n) /\ 0 <= n /\ p + n - 0 = p + n
  BY LenProperties
<1>2. 0 % Bytes = 0
  <2>1. \A b \in Nat \ {0} : 0 % b = 0
    BY SMT
  <2> QED
    BY <2>1, MemoryAssumption
<1>3. Strlen(mem, p) = n
  BY StrlenIs
<1>4. mem[p + n - 0] = 0
  <2>1. mem[p + n] = 0
    BY <1>1, Zenon DEF StringAt, Char
  <2> QED
    BY <1>1, <2>1
<1>5. 0 \in Nat /\ \A i \in Nat : ~(i < 0)
  OBVIOUS
<1> HIDE DEF n
<1>6. 0 \notin more /\ \A i \in Nat : i < 0 => i \in more
  BY <1>2, <1>4, <1>5, Zenon
<1>7. Rounds(more) = 0
  BY <1>5, <1>6, RoundsAre
<1>8. Strrchr(mem, p, 0) = p + n - 0
  BY <1>1, <1>3, <1>7, Zenon DEF Strrchr
<1> QED
  BY <1>1, <1>8 DEF n

Numbers(mem, p, count) == \A i \in Nat : i < count => mem[p + i] \in Int
Alike(mem, a, b, count) == \A i \in Nat : i < count => mem[a + i] = mem[b + i]

LEMMA MemcmpIs ==
  ASSUME NEW mem, NEW a \in Int, NEW b \in Int, NEW count \in Nat,
         Numbers(mem, a, count), Numbers(mem, b, count)
  PROVE  Memcmp(mem, a, b, count) = 0 <=> Alike(mem, a, b, count)
<1> DEFINE T == {i \in Nat : i = count \/ (i < count /\ mem[a + i] # mem[b + i])}
           more == {i \in Nat : i < count /\ mem[a + i] = mem[b + i]}
<1>1. T \subseteq Nat /\ T # {}
  OBVIOUS
<1>2. PICK k \in T : \A m \in T : ~(m < k)
  BY <1>1, Minimal
<1>3. k \in Nat /\ k <= count /\ (k = count \/ (k < count /\ mem[a + k] # mem[b + k])) /\ ~(count < count)
  BY <1>2
<1>4. ASSUME NEW i \in Nat, i < k PROVE i < count /\ mem[a + i] = mem[b + i]
  <2>1. i \notin T /\ i < count
    BY <1>2, <1>3, <1>4
  <2> QED
    BY <2>1
<1> HIDE DEF T
<1>5. k \notin more /\ \A i \in Nat : i < k => i \in more
  BY <1>3, <1>4, Zenon
<1>6. Rounds(more) = k
  BY <1>3, <1>5, RoundsAre
<1> DEFINE x == mem[a + k]
           y == mem[b + k]
<1>7. Memcmp(mem, a, b, count) = IF k = count THEN 0 ELSE x - y
  BY <1>6, Zenon DEF Memcmp
<1>8. CASE k = count
  BY <1>4, <1>7, <1>8, Zenon DEF Alike
<1>9. CASE k # count
  <2>1. k < count /\ x # y /\ x \in Int /\ y \in Int
    BY <1>3, <1>9, Zenon DEF Numbers
  <2>2. \A u, v \in Int : u # v => u - v # 0
    OBVIOUS
  <2>3. x - y # 0
    BY <2>1, <2>2, Zenon
  <2>4. Memcmp(mem, a, b, count) # 0
    BY <1>7, <1>9, <2>3, Zenon
  <2>5. ~Alike(mem, a, b, count)
    BY <1>3, <2>1, Zenon DEF Alike
  <2> QED
    BY <2>4, <2>5
<1> QED
  BY <1>8, <1>9

(* n elements behind the first k. *)
LEMMA SliceIs ==
  ASSUME NEW S, NEW s \in Seq(S), NEW k \in Nat, NEW n \in Nat, k + n <= Len(s)
  PROVE  /\ SubSeq(s, k + 1, k + n) \in Seq(S) /\ Len(SubSeq(s, k + 1, k + n)) = n
         /\ \A i \in 1..n : SubSeq(s, k + 1, k + n)[i] = s[k + i]
<1> DEFINE u == k + 1
           v == k + n
           x == SubSeq(s, u, v)
<1>1. Len(s) \in Nat /\ \A i \in 1..Len(s) : s[i] \in S
  BY LenProperties, ElementOfSeq
<1>2. u \in Int /\ v \in Int /\ \A i \in u..v : s[i] \in S
  BY <1>1
<1>3. v - u + 1 = n /\ (IF u <= v THEN v - u + 1 ELSE 0) = n /\ \A i \in 1..n : u + i - 1 = k + i
  OBVIOUS
<1> HIDE DEF u, v
<1>4. /\ x \in Seq(S) /\ Len(x) = (IF u <= v THEN v - u + 1 ELSE 0)
      /\ \A i \in 1 .. v - u + 1 : x[i] = s[u + i - 1]
  BY <1>2, SubSeqProperties
<1>5. Len(x) = n /\ \A i \in 1..n : x[i] = s[k + i]
  <2> HIDE DEF x
  <2> QED
    BY <1>3, <1>4, Zenon
<1> QED
  BY <1>4, <1>5, Zenon DEF u, v

(* t stands in s behind k characters. *)
LEMMA InsideIs ==
  ASSUME NEW s \in Seq(Chars), NEW t \in Seq(Chars), NEW k \in Nat, k + Len(t) <= Len(s)
  PROVE  k + 1 \in Inside(s, t) <=> \A j \in Nat : j < Len(t) => s[k + 1 + j] = t[j + 1]
<1> DEFINE l == Len(s)
           n == Len(t)
           x == SubSeq(s, k + 1, k + n)
<1>1. l \in Nat /\ n \in Nat /\ (\A i \in 1..l : s[i] \in Chars) /\ k + n <= l
  BY LenProperties, ElementOfSeq
<1>2. k + 1 \in 1 .. l + 1 - n /\ (k + 1) + n - 1 = k + n
  BY <1>1
<1>3. k + 1 \in Inside(s, t) <=> x = t
  BY <1>2, Zenon DEF Inside
<1>4. /\ x \in Seq(Chars) /\ Len(x) = n
      /\ \A i \in 1..n : x[i] = s[k + i]
  <2>1. n \in Nat /\ k + n <= Len(s)
    BY <1>1
  <2> HIDE DEF l, n
  <2> QED
    BY <2>1, SliceIs, Zenon DEF x
<1> HIDE DEF x
<1>5. x = t <=> \A i \in 1..n : x[i] = t[i]
  <2>1. (\A i \in 1..Len(x) : x[i] = t[i]) => x = t
    BY <1>4, SeqEqual
  <2> QED
    BY <1>4, <2>1, Zenon
<1> HIDE DEF l, n
<1>6. (\A i \in 1..n : s[k + i] = t[i]) <=> (\A j \in Nat : j < n => s[k + 1 + j] = t[j + 1])
  <2>1. ASSUME \A i \in 1..n : s[k + i] = t[i], NEW j \in Nat, j < n PROVE s[k + 1 + j] = t[j + 1]
    <3>1. \A h, m \in Nat, i \in Nat : i < m => i + 1 \in 1..m /\ h + (i + 1) = h + 1 + i
      OBVIOUS
    <3>2. n \in Nat /\ j < n
      BY <1>1, <2>1, Zenon
    <3>3. j + 1 \in 1..n /\ k + (j + 1) = k + 1 + j
      BY <3>1, <3>2, Zenon
    <3> QED
      BY <2>1, <3>3, Zenon
  <2>2. ASSUME \A j \in Nat : j < n => s[k + 1 + j] = t[j + 1], NEW i \in 1..n PROVE s[k + i] = t[i]
    <3>1. i - 1 \in Nat /\ i - 1 < n /\ k + 1 + (i - 1) = k + i /\ (i - 1) + 1 = i
      BY <1>1, <2>2
    <3> QED
      BY <2>2, <3>1, Zenon
  <2> QED
    BY <2>1, <2>2
<1>7. x = t <=> \A j \in Nat : j < n => s[k + 1 + j] = t[j + 1]
  BY <1>4, <1>5, <1>6, Zenon
<1> QED
  BY <1>3, <1>7, Zenon DEF n

(* strstr, for two strings anywhere in memory. *)
LEMMA StrstrIs ==
  ASSUME NEW mem, NEW p \in Int, NEW q \in Int, NEW s \in Seq(Chars), NEW t \in Seq(Chars),
         StringAt(mem, p, s), StringAt(mem, q, t)
  PROVE  Strstr(mem, p, q) = LET i == Lowest(Inside(s, t)) IN IF i = 0 THEN 0 ELSE p + i - 1
<1> DEFINE l == Len(s)
           n == Len(t)
           A == Inside(s, t)
           Same(k) == Memcmp(mem, p + k, q, n) = 0
           T == {k \in Nat : ~(k + n <= l) \/ Same(k)}
           more == {k \in Nat : k + n <= l /\ ~Same(k)}
<1>1. l \in Nat /\ n \in Nat /\ Len(s) = l /\ Len(t) = n
  BY LenProperties
<1>2. Strlen(mem, p) = l /\ Strlen(mem, q) = n
  BY StrlenIs
<1>3. Chars \subseteq Int
  BY MemoryAssumption DEF Chars
<1>4. \A i \in Nat : i < l => mem[p + i] = s[i + 1] /\ s[i + 1] \in Int
  <2>1. \A i \in Nat : i < l => i \in 0..l /\ i + 1 <= l /\ i + 1 \in 1..l
    BY <1>1
  <2>2. \A i \in 1..l : s[i] \in Chars
    BY ElementOfSeq
  <2> QED
    BY <1>3, <2>1, <2>2, Zenon DEF StringAt, Char
<1>5. \A i \in Nat : i < n => mem[q + i] = t[i + 1] /\ t[i + 1] \in Int
  <2>1. \A i \in Nat : i < n => i \in 0..n /\ i + 1 <= n /\ i + 1 \in 1..n
    BY <1>1
  <2>2. \A i \in 1..n : t[i] \in Chars
    BY ElementOfSeq
  <2> QED
    BY <1>3, <2>1, <2>2, Zenon DEF StringAt, Char
<1> HIDE DEF l, n
<1>6. ASSUME NEW k \in Nat, k + n <= l PROVE Same(k) <=> k + 1 \in A
  <2>1. \A j \in Nat : j < n => k + j \in Nat /\ k + j < l /\ (p + k) + j = p + (k + j) /\ (k + j) + 1 = k + 1 + j
    BY <1>1, <1>6
  <2>2. \A j \in Nat : j < n => mem[(p + k) + j] = s[k + 1 + j] /\ s[k + 1 + j] \in Int
    BY <1>4, <2>1, Zenon
  <2> DEFINE a == p + k
  <2>3. a \in Int /\ \A j \in Nat : j < n => mem[a + j] \in Int /\ mem[q + j] \in Int
    BY <1>5, <2>2
  <2>4. Memcmp(mem, a, q, n) = 0 <=> Alike(mem, a, q, n)
    <3> HIDE DEF a
    <3>1. Numbers(mem, a, n) /\ Numbers(mem, q, n)
      BY <2>3, Zenon DEF Numbers
    <3> QED
      BY <1>1, <2>3, <3>1, MemcmpIs, Zenon
  <2>5. k + Len(t) <= Len(s)
    BY <1>1, <1>6
  <2>6. k + 1 \in A <=> \A j \in Nat : j < Len(t) => s[k + 1 + j] = t[j + 1]
    BY <2>5, InsideIs
  <2> HIDE DEF A
  <2> QED
    BY <1>1, <1>5, <2>2, <2>4, <2>6, Zenon DEF Alike
<1>7. \A i : i \in A => i \in Nat /\ i - 1 \in Nat /\ (i - 1) + 1 = i /\ (i - 1) + n <= l /\ i # 0
  <2>1. \A i : i \in A => i \in 1 .. l + 1 - n
    BY <1>1, Zenon DEF Inside
  <2> HIDE DEF A
  <2> QED
    BY <1>1, <2>1
<1> HIDE DEF Same, A
<1>8. T \subseteq Nat /\ T # {}
  <2>1. l + 1 \in Nat /\ ~((l + 1) + n <= l)
    BY <1>1
  <2> QED
    BY <2>1
<1>9. PICK k \in T : \A m \in T : ~(m < k)
  BY <1>8, Minimal
<1>10. k \in Nat /\ (~(k + n <= l) \/ Same(k))
  BY <1>9
<1>11. ASSUME NEW i \in Nat, i < k PROVE i + n <= l /\ ~Same(i)
  <2>1. i \notin T
    BY <1>9, <1>11
  <2> QED
    BY <2>1
<1> HIDE DEF T
<1>12. k \notin more /\ \A i \in Nat : i < k => i \in more
  BY <1>10, <1>11, Zenon
<1>13. Rounds(more) = k
  BY <1>10, <1>12, RoundsAre
<1>14. Strstr(mem, p, q) = IF n = 0 THEN p ELSE IF k + n <= l THEN p + k ELSE 0
  BY <1>2, <1>13, Zenon DEF Strstr, NULL, Same
<1>15. Lowest(A) = IF k + n <= l THEN k + 1 ELSE 0
  <2>1. A \subseteq Int
    BY <1>7
  <2>2. ASSUME NEW j \in A PROVE k + 1 <= j
    <3>1. j - 1 \in Nat /\ (j - 1) + 1 = j /\ (j - 1) + n <= l /\ j \in Nat
      BY <1>7
    <3>2. Same(j - 1)
      BY <1>6, <3>1
    <3>3. ~(j - 1 < k)
      BY <1>11, <3>1, <3>2
    <3> QED
      BY <1>10, <3>1, <3>3
  <2>3. CASE k + n <= l
    <3>1. k + 1 \in A
      BY <1>6, <1>10, <2>3
    <3>2. Lowest(A) = k + 1
      BY <2>1, <2>2, <3>1, LowestIs
    <3> QED
      BY <2>3, <3>2
  <2>4. CASE ~(k + n <= l)
    <3>1. ASSUME NEW j \in A PROVE FALSE
      <4>1. j \in Nat /\ (j - 1) + n <= l /\ k + 1 <= j
        BY <1>7, <2>2
      <4> QED
        BY <1>1, <1>10, <2>4, <4>1
    <3>2. A = {}
      BY <3>1
    <3>3. Lowest(A) = 0
      BY <3>2, Zenon DEF Lowest
    <3> QED
      BY <2>4, <3>3
  <2> QED
    BY <2>3, <2>4
<1>16. n = 0 => k = 0 /\ k + n <= l
  <2> SUFFICES ASSUME n = 0 PROVE k = 0 /\ k + n <= l
    OBVIOUS
  <2>1. 0 \in Nat /\ 0 + n <= l
    BY <1>1
  <2>2. 0 + 1 \in A
    <3>1. \A j \in Nat : ~(j < Len(t))
      BY <1>1
    <3>2. 0 + Len(t) <= Len(s)
      BY <1>1
    <3> QED
      BY <2>1, <3>1, <3>2, InsideIs DEF A
  <2>3. Same(0)
    BY <1>6, <2>1, <2>2
  <2>4. ~(0 < k)
    BY <1>11, <2>1, <2>3
  <2> QED
    BY <1>10, <2>1, <2>4
<1>17. Strstr(mem, p, q) = IF Lowest(A) = 0 THEN 0 ELSE p + Lowest(A) - 1
  <2>1. k + n <= l => k + 1 # 0 /\ p + (k + 1) - 1 = p + k
    BY <1>10
  <2>2. n = 0 => p = p + k
    BY <1>10, <1>16
  <2>3. Strstr(mem, p, q) = IF k + n <= l THEN p + k ELSE 0
    BY <1>14, <1>16, <2>2, Zenon
  <2> QED
    BY <1>15, <2>1, <2>3, Zenon
<1> QED
  BY <1>17, Zenon DEF A

LEMMA SymbolsAre == Symbols \subseteq Chars /\ Delimiters \subseteq Chars /\ MaxText \in Nat /\ MaxLine \in Nat
BY CallsAssumption DEF Chars

(* The searches, in a memory with s at 1 and t at p. *)
LEMMA FindsHold ==
  ASSUME NEW mem, NEW p \in Int, NEW s \in Seq(Symbols), NEW t \in Seq(Symbols),
         StringAt(mem, 1, s), StringAt(mem, p, t)
  PROVE  FindsRight(mem, s, t, p)
<1> DEFINE one == 1
           l == Len(s)
<1>1. s \in Seq(Chars) /\ t \in Seq(Chars)
  BY SymbolsAre, SeqMonotonic
<1>2. /\ l \in Nat /\ one \in Int /\ one + l = l + 1 /\ (\A k : one + k - 1 = 1 + k - 1)
      /\ \A k \in Nat : one + (k - 1) = k /\ one + k - 1 = k
  BY LenProperties
<1>3. StringAt(mem, one, s)
  OBVIOUS
<1>4. \A i \in 1..l : s[i] \in Symbols
  BY ElementOfSeq
<1> HIDE DEF one
<1>5. Strlen(mem, one) = l
  BY <1>1, <1>2, <1>3, StrlenIs
<1>6. ASSUME NEW n \in 0 .. MaxText + 1 PROVE Strnlen(mem, one, n) = Len(Prefix(s, n))
  <2>1. n \in Nat
    BY SymbolsAre
  <2>2. Strnlen(mem, one, n) = IF n < l THEN n ELSE l
    BY <1>1, <1>2, <1>3, <2>1, StrnlenIs
  <2>3. Len(Prefix(s, n)) = IF n < Len(s) THEN n ELSE Len(s)
    <3>1. s \in Seq(Chars)
      BY <1>1
    <3> DEFINE q == Prefix(s, n)
    <3>2. /\ q \in Seq(Chars) /\ Len(s) \in Nat /\ Len(q) = (IF n < Len(s) THEN n ELSE Len(s))
          /\ \A i \in 1..Len(q) : q[i] = s[i]
      BY <2>1, <3>1, PrefixIs
    <3> QED
      BY <3>2, Zenon
  <2> QED
    BY <2>2, <2>3
<1>7. Strstr(mem, one, p) = Lowest(Inside(s, t))
  <2> DEFINE i == Lowest(Inside(s, t))
  <2>1. Strstr(mem, one, p) = IF i = 0 THEN 0 ELSE one + i - 1
    BY <1>1, <1>2, <1>3, StrstrIs
  <2>2. i \in Nat
    <3> DEFINE A == Inside(s, t)
    <3>1. A \subseteq Nat
      <4>1. Len(t) \in Nat
        BY LenProperties
      <4>2. \A j \in A : j \in 1 .. Len(s) + 1 - Len(t)
        BY Zenon DEF Inside
      <4> HIDE DEF A
      <4> QED
        BY <1>2, <4>1, <4>2
    <3> HIDE DEF A
    <3>2. CASE A = {}
      BY <3>2 DEF Lowest, A
    <3>3. CASE A # {}
      <4>1. PICK k \in A : \A m \in A : ~(m < k)
        BY <3>1, <3>3, Minimal
      <4>2. \A m \in A : k <= m
        BY <3>1, <4>1
      <4>3. A \in SUBSET Int
        BY <3>1
      <4>4. Lowest(A) = k
        BY <4>2, <4>3, LowestIs
      <4> QED
        BY <3>1, <4>4, Zenon DEF A
    <3> QED
      BY <3>2, <3>3
  <2> HIDE DEF i
  <2> QED
    BY <1>2, <2>1, <2>2, Zenon DEF i
<1>8. Strchr(mem, one, 0) = l + 1 /\ Strrchr(mem, one, 0) = l + 1
  BY <1>1, <1>2, <1>3, StrchrEnd, StrrchrEnd
<1>9. ASSUME NEW c \in Symbols
      PROVE  /\ Strchr(mem, one, c) = Lowest(At(s, {c})) /\ Strrchr(mem, one, c) = Highest(At(s, {c}))
             /\ Memchr(mem, one, c, l) = Lowest(At(s, {c}))
             /\ Memscan(mem, one, c, l) = Lowest(At(s, {c}) \cup {l + 1})
  <2>1. c \in Chars
    BY SymbolsAre
  <2>2. PICK k \in Nat : /\ First(s, {c}, k)
                         /\ Lowest(At(s, {c}) \cup {l + 1}) = k
                         /\ Lowest(At(s, {c})) = IF k <= l THEN k ELSE 0
    BY <1>1, FirstIs
  <2>3. Found(one, s, k) = IF k <= l THEN k ELSE 0
    BY <1>2, Zenon DEF Found
  <2>4. Strchr(mem, one, c) = Found(one, s, k)
    BY <1>1, <1>2, <1>3, <2>1, <2>2, StrchrIs
  <2>5. Memscan(mem, one, c, l) = one + (k - 1) /\ Memchr(mem, one, c, l) = Found(one, s, k)
    BY <1>1, <1>2, <1>3, <2>1, <2>2, MemscanIs
  <2>6. PICK r \in Nat : /\ Strrchr(mem, one, c) = IF r <= l THEN one + l - r ELSE 0
                         /\ Highest(At(s, {c})) = l + 1 - r
                         /\ r <= l + 1
    BY <1>1, <1>2, <1>3, <2>1, StrrchrIs
  <2>7. Strrchr(mem, one, c) = Highest(At(s, {c}))
    <3>1. one + l - r = l + 1 - r /\ (~(r <= l) => l + 1 - r = 0)
      BY <1>2, <2>6
    <3> QED
      BY <2>6, <3>1, Zenon
  <2> QED
    BY <1>2, <2>2, <2>3, <2>4, <2>5, <2>7, Zenon
<1>10. ASSUME NEW C \in SUBSET Symbols
       PROVE  /\ Strspn(mem, one, C) = Lowest(At(s, Symbols \ C) \cup {l + 1}) - 1
              /\ Strpbrk(mem, one, C) = Lowest(At(s, C))
  <2> DEFINE E == Symbols \ C
  <2>1. \A i \in 1..l : s[i] \in C <=> s[i] \notin E
    BY <1>4
  <2> HIDE DEF E
  <2>2. PICK k \in Nat : First(s, E, k) /\ Lowest(At(s, E) \cup {l + 1}) = k
    BY <1>1, FirstIs
  <2>3. Strspn(mem, one, C) = k - 1
    BY <1>1, <1>2, <1>3, <2>1, <2>2, StrspnIs
  <2>4. PICK j \in Nat : First(s, C, j) /\ Lowest(At(s, C)) = IF j <= l THEN j ELSE 0
    BY <1>1, FirstIs
  <2>5. Strpbrk(mem, one, C) = Found(one, s, j)
    BY <1>1, <1>2, <1>3, <2>4, StrpbrkIs
  <2>6. Found(one, s, j) = IF j <= l THEN j ELSE 0
    BY <1>2, Zenon DEF Found
  <2> QED
    BY <2>2, <2>3, <2>4, <2>5, <2>6, Zenon DEF E
<1> QED
  BY <1>5, <1>6, <1>7, <1>8, <1>9, <1>10, Zenon DEF FindsRight, one

-----------------------------------------------------------------------------
(* Copies.                                                                 *)

(* The n bytes at p are x. *)
HasBytes(mem, p, x, n) == DOMAIN x = 1..n /\ \A i \in 1..n : mem[p + i - 1] = x[i]

LEMMA PutIs ==
  ASSUME NEW mem, IsMemory(mem), NEW p \in Int, NEW x
  PROVE  /\ IsMemory(Put(mem, x, p)) /\ DOMAIN Put(mem, x, p) = DOMAIN mem
         /\ \A a \in DOMAIN mem :
              Put(mem, x, p)[a] = IF a - p + 1 \in DOMAIN x THEN x[a - p + 1] ELSE mem[a]
<1> DEFINE f == Put(mem, x, p)
<1>1. f = [a \in DOMAIN mem |-> IF a - p + 1 \in DOMAIN x THEN x[a - p + 1] ELSE mem[a]]
  BY Zenon DEF Put
<1>2. DOMAIN mem \subseteq Int
  BY DEF IsMemory
<1> HIDE DEF f
<1>3. DOMAIN f = DOMAIN mem /\ f = [a \in DOMAIN f |-> f[a]]
  BY <1>1
<1>4. IsMemory(f)
  BY <1>2, <1>3, Zenon DEF IsMemory
<1> QED
  BY <1>1, <1>3, <1>4, Zenon DEF f

LEMMA MovedIsPut ==
  ASSUME NEW mem, IsMemory(mem), NEW dest \in Int, NEW src \in Int, NEW x, NEW n \in Nat,
         HasBytes(mem, src, x, n)
  PROVE  Moved(mem, dest, src, n) = Put(mem, x, dest)
<1>1. \A a \in DOMAIN mem :
        (IF a - dest \in 0 .. n - 1 THEN mem[a - dest + src] ELSE mem[a])
          = (IF a - dest + 1 \in DOMAIN x THEN x[a - dest + 1] ELSE mem[a])
  <2> SUFFICES ASSUME NEW a \in DOMAIN mem
               PROVE  (IF a - dest \in 0 .. n - 1 THEN mem[a - dest + src] ELSE mem[a])
                        = (IF a - dest + 1 \in DOMAIN x THEN x[a - dest + 1] ELSE mem[a])
    OBVIOUS
  <2> DEFINE i == a - dest + 1
             b == a - dest + src
  <2>1. a \in Int
    BY DEF IsMemory
  <2>2. (a - dest \in 0 .. n - 1 <=> i \in 1..n) /\ b = src + i - 1
    BY <2>1
  <2> HIDE DEF i, b
  <2>3. i \in 1..n => mem[b] = x[i]
    BY <2>2, Zenon DEF HasBytes
  <2>4. DOMAIN x = 1..n
    BY DEF HasBytes
  <2> QED
    BY <2>2, <2>3, <2>4, Zenon DEF i, b
<1> QED
  BY <1>1, Zenon DEF Moved, Put

(* A string with its 0. *)
LEMMA TerminatedIs ==
  ASSUME NEW s \in Seq(Chars)
  PROVE  /\ s \o <<0>> \in Seq(Nat) /\ Len(s) \in Nat /\ Len(s \o <<0>>) = Len(s) + 1
         /\ DOMAIN (s \o <<0>>) = 1 .. Len(s) + 1
         /\ \A i \in 1 .. Len(s) + 1 : (s \o <<0>>)[i] = Char(s, i)
<1> DEFINE z == <<0>>
           l == Len(s)
           x == s \o z
<1>1. s \in Seq(Nat) /\ l \in Nat
  <2>1. Chars \subseteq Nat
    BY MemoryAssumption DEF Chars
  <2> QED
    BY <2>1, SeqMonotonic, LenProperties
<1>2. z \in Seq(Nat) /\ Len(z) = 1 /\ z[1] = 0
  OBVIOUS
<1>3. Joins(x, s, z, l, 1)
  BY <1>1, <1>2, ConcatIs
<1> HIDE DEF x, z
<1>4. /\ x \in Seq(Nat) /\ Len(x) = l + 1
      /\ \A i \in 1 .. l + 1 : x[i] = IF i <= l THEN s[i] ELSE z[i - l]
  BY <1>3, Zenon DEF Joins
<1>5. DOMAIN x = 1 .. l + 1
  BY <1>4, LenProperties
<1>6. \A i \in 1 .. l + 1 : ~(i <= l) => i - l = 1
  BY <1>1
<1>7. \A i \in 1 .. l + 1 : x[i] = Char(s, i)
  BY <1>2, <1>4, <1>6, Zenon DEF Char
<1> QED
  BY <1>1, <1>4, <1>5, <1>7, Zenon DEF x, z

LEMMA StringReads ==
  ASSUME NEW mem, NEW p \in Int, NEW s \in Seq(Chars), StringAt(mem, p, s),
         NEW k \in Nat, k <= Len(s) + 1
  PROVE  HasBytes(mem, p, Prefix(s \o <<0>>, k), k)
<1> DEFINE l == Len(s)
           x == s \o <<0>>
           y == Prefix(x, k)
<1>1. /\ x \in Seq(Nat) /\ l \in Nat /\ Len(x) = l + 1
      /\ \A i \in 1 .. l + 1 : x[i] = Char(s, i)
  BY TerminatedIs
<1> HIDE DEF x
<1>2. /\ y \in Seq(Nat) /\ Len(y) = (IF k < Len(x) THEN k ELSE Len(x))
      /\ \A i \in 1..Len(y) : y[i] = x[i]
  BY <1>1, PrefixIs
<1> HIDE DEF y
<1>3. Len(y) = k
  BY <1>1, <1>2
<1>4. DOMAIN y = 1..k
  BY <1>2, <1>3, LenProperties
<1>5. ASSUME NEW i \in 1..k PROVE mem[p + i - 1] = y[i]
  <2>1. i \in 1 .. l + 1 /\ i - 1 \in 0..l /\ (i - 1) + 1 = i /\ p + i - 1 = p + (i - 1)
    BY <1>1
  <2>2. mem[p + (i - 1)] = Char(s, i)
    BY <2>1, Zenon DEF StringAt
  <2> QED
    BY <1>1, <1>2, <1>3, <2>1, <2>2, Zenon
<1> QED
  BY <1>4, <1>5, Zenon DEF HasBytes, y, x

(* A string at src whose copy does not reach it. *)
Copyable(mem, dest, src, s) ==
  /\ IsMemory(mem) /\ dest \in Int /\ src \in Int /\ s \in Seq(Chars)
  /\ StringAt(mem, src, s) /\ Holds(mem, src, Len(s) + 1) /\ src + Len(s) + 1 <= dest

LEMMA CopiedIs ==
  ASSUME NEW mem, NEW dest, NEW src, NEW s, Copyable(mem, dest, src, s), NEW k \in Nat
  PROVE  /\ k <= Len(s) + 1 => Copied(mem, dest, src, k) = Put(mem, Prefix(s \o <<0>>, k), dest)
         /\ k <= Len(s) => Copied(mem, dest, src, k)[src + k] = Char(s, k + 1)
<1>1. /\ IsMemory(mem) /\ dest \in Int /\ src \in Int /\ s \in Seq(Chars) /\ StringAt(mem, src, s)
      /\ Holds(mem, src, Len(s) + 1) /\ src + Len(s) + 1 <= dest
  BY Zenon DEF Copyable
<1>2. Len(s) \in Nat
  BY <1>1, LenProperties
<1> DEFINE l == Len(s)
           c == Copied(mem, dest, src, k)
<1>3. ASSUME k <= l + 1 PROVE c = Moved(mem, dest, src, k)
  <2>1. src .. src + k - 1 \subseteq src .. src + (l + 1) - 1 /\ src + k <= dest
    BY <1>1, <1>2, <1>3
  <2>2. Holds(mem, src, k) /\ Apart(dest, src, k)
    BY <1>1, <2>1, Zenon DEF Holds, Apart
  <2> QED
    BY <1>1, <2>2, BytesMove, Zenon DEF Copied
<1>4. ASSUME k <= l + 1 PROVE c = Put(mem, Prefix(s \o <<0>>, k), dest)
  <2>1. HasBytes(mem, src, Prefix(s \o <<0>>, k), k)
    BY <1>1, <1>4, StringReads
  <2>2. Moved(mem, dest, src, k) = Put(mem, Prefix(s \o <<0>>, k), dest)
    BY <1>1, <2>1, MovedIsPut, Zenon
  <2> QED
    BY <1>3, <1>4, <2>2, Zenon
<1>5. ASSUME k <= l PROVE c[src + k] = Char(s, k + 1)
  <2>1. /\ k <= l + 1 /\ k \in 0..l /\ src + k \in src .. src + (l + 1) - 1
        /\ ~((src + k) - dest \in 0 .. k - 1)
    BY <1>1, <1>2, <1>5
  <2>2. src + k \in DOMAIN mem
    BY <1>1, <2>1, Zenon DEF Holds
  <2>3. Moved(mem, dest, src, k)[src + k] = mem[src + k]
    BY <2>1, <2>2, Zenon DEF Moved
  <2>4. mem[src + k] = Char(s, k + 1)
    BY <1>1, <2>1, Zenon DEF StringAt
  <2> QED
    BY <1>3, <2>1, <2>3, <2>4, Zenon
<1> QED
  BY <1>4, <1>5, Zenon DEF c, l

(* strcpy and strncpy *)
LEMMA CharEnds ==
  ASSUME NEW s \in Seq(Chars), NEW k \in Nat, k <= Len(s)
  PROVE  Char(s, k + 1) # 0 <=> k < Len(s)
<1>1. Len(s) \in Nat
  BY LenProperties
<1>2. k + 1 \in Nat \ {0} /\ (k + 1 <= Len(s) <=> k < Len(s))
  BY <1>1
<1> QED
  BY <1>2, CharIs, Zenon

LEMMA StrcpyPuts ==
  ASSUME NEW mem, NEW dest, NEW src, NEW s, Copyable(mem, dest, src, s)
  PROVE  Strcpy(mem, dest, src) = Put(mem, s \o <<0>>, dest)
<1> DEFINE l == Len(s)
           more == {k \in Nat : Copied(mem, dest, src, k)[src + k] # 0}
           x == s \o <<0>>
<1>1. s \in Seq(Chars)
  BY Zenon DEF Copyable
<1>2. l \in Nat /\ x \in Seq(Nat) /\ Len(x) = l + 1
  BY <1>1, TerminatedIs
<1>3. ASSUME NEW k \in Nat, k <= l PROVE Copied(mem, dest, src, k)[src + k] # 0 <=> k < l
  <2>1. Copied(mem, dest, src, k)[src + k] = Char(s, k + 1)
    BY <1>3, CopiedIs, Zenon
  <2>2. Char(s, k + 1) # 0 <=> k < l
    BY <1>1, <1>3, CharEnds
  <2> QED
    BY <2>1, <2>2, Zenon
<1>4. l <= l /\ ~(l < l) /\ (\A k \in Nat : k < l => k <= l) /\ l + 1 \in Nat /\ l + 1 <= l + 1
  BY <1>2
<1> HIDE DEF x
<1>5. l \notin more /\ \A i \in Nat : i < l => i \in more
  BY <1>2, <1>3, <1>4, Zenon
<1>6. Rounds(more) = l
  BY <1>2, <1>5, RoundsAre
<1>7. Copied(mem, dest, src, l + 1) = Put(mem, Prefix(x, l + 1), dest)
  BY <1>4, CopiedIs, Zenon DEF x
<1>8. Prefix(x, l + 1) = x
  <2> DEFINE q == Prefix(x, l + 1)
  <2>1. q \in Seq(Nat) /\ Len(q) = (IF l + 1 < Len(x) THEN l + 1 ELSE Len(x))
        /\ \A i \in 1..Len(q) : q[i] = x[i]
    BY <1>2, <1>4, PrefixIs
  <2> HIDE DEF q
  <2>2. Len(q) = Len(x)
    BY <1>2, <2>1
  <2>3. q = x
    BY <1>2, <2>1, <2>2, SeqEqual
  <2> QED
    BY <2>3 DEF q
<1> QED
  BY <1>6, <1>7, <1>8, Zenon DEF Strcpy, x

LEMMA StrncpyPuts ==
  ASSUME NEW mem, NEW dest, NEW src, NEW s, Copyable(mem, dest, src, s), NEW count \in Nat
  PROVE  /\ Strncpy(mem, dest, src, count) = Put(mem, Prefix(s \o <<0>>, count), dest)
         /\ Counted(mem, dest, src, count) = count <=> count <= Len(s)
<1> DEFINE l == Len(s)
           n == IF count < l THEN count ELSE l
           more == {k \in Nat : k < count /\ Copied(mem, dest, src, k)[src + k] # 0}
           x == s \o <<0>>
<1>1. s \in Seq(Chars)
  BY Zenon DEF Copyable
<1>2. l \in Nat /\ x \in Seq(Nat) /\ Len(x) = l + 1
  BY <1>1, TerminatedIs
<1>3. ASSUME NEW k \in Nat, k <= l PROVE Copied(mem, dest, src, k)[src + k] # 0 <=> k < l
  <2>1. Copied(mem, dest, src, k)[src + k] = Char(s, k + 1)
    BY <1>3, CopiedIs, Zenon
  <2>2. Char(s, k + 1) # 0 <=> k < l
    BY <1>1, <1>3, CharEnds
  <2> QED
    BY <2>1, <2>2, Zenon
<1>4. /\ n \in Nat /\ n <= l /\ (n < count => n = l) /\ ~(l < l)
      /\ \A k \in Nat : k < n => k <= l /\ k < l /\ k < count
  BY <1>2
<1>5. (n = count <=> count <= l) /\ (count <= l => count <= l + 1) /\ (n # count => n = l)
      /\ l + 1 \in Nat /\ l + 1 <= l + 1
      /\ (~(count <= l) => ~(count < l + 1))
  BY <1>2
<1> HIDE DEF x, n
<1>6. n \notin more /\ \A i \in Nat : i < n => i \in more
  BY <1>2, <1>3, <1>4, Zenon
<1>7. Rounds(more) = n
  BY <1>4, <1>6, RoundsAre
<1>8. Counted(mem, dest, src, count) = n
  BY <1>7, Zenon DEF Counted
<1>9. CASE count <= l
  <2>1. Strncpy(mem, dest, src, count) = Copied(mem, dest, src, count)
    BY <1>5, <1>8, <1>9, Zenon DEF Strncpy
  <2>2. Copied(mem, dest, src, count) = Put(mem, Prefix(x, count), dest)
    BY <1>5, <1>9, CopiedIs, Zenon DEF x
  <2> QED
    BY <1>5, <1>8, <1>9, <2>1, <2>2, Zenon DEF x
<1>10. CASE ~(count <= l)
  <2>1. Strncpy(mem, dest, src, count) = Copied(mem, dest, src, l + 1)
    BY <1>5, <1>8, <1>10, Zenon DEF Strncpy
  <2>2. Copied(mem, dest, src, l + 1) = Put(mem, Prefix(x, l + 1), dest)
    BY <1>5, CopiedIs, Zenon DEF x
  <2>3. Prefix(x, l + 1) = Prefix(x, count)
    <3>1. ~(l + 1 < Len(x)) /\ ~(count < Len(x))
      BY <1>2, <1>5, <1>10
    <3> QED
      BY <3>1, Zenon DEF Prefix
  <2> QED
    BY <1>5, <1>8, <1>10, <2>1, <2>2, <2>3, Zenon DEF x
<1> QED
  BY <1>9, <1>10

(* Bytes written over the end of others and on. *)
Joined(x, y, z, k, l, n) ==
  /\ k \in Nat /\ l \in Nat /\ n \in Nat /\ k <= l /\ l <= k + n
  /\ DOMAIN x = 1..l /\ DOMAIN y = 1..n /\ DOMAIN z = 1 .. k + n
  /\ \A i \in 1..k : z[i] = x[i]
  /\ \A i \in 1..n : z[k + i] = y[i]

LEMMA PutAppend ==
  ASSUME NEW mem, IsMemory(mem), NEW a \in Int, NEW k, NEW l, NEW n, NEW x, NEW y, NEW z,
         Joined(x, y, z, k, l, n)
  PROVE  Put(Put(mem, x, a), y, a + k) = Put(mem, z, a)
<1> DEFINE one == Put(mem, x, a)
           b == a + k
           two == Put(one, y, b)
<1>0. k \in Nat /\ l \in Nat /\ n \in Nat /\ k <= l /\ l <= k + n
  BY Zenon DEF Joined
<1>1. /\ IsMemory(one) /\ DOMAIN one = DOMAIN mem
      /\ \A c \in DOMAIN mem : one[c] = IF c - a + 1 \in DOMAIN x THEN x[c - a + 1] ELSE mem[c]
  BY PutIs
<1>2. b \in Int
  BY <1>0
<1>3. two = [c \in DOMAIN mem |-> IF c - b + 1 \in DOMAIN y THEN y[c - b + 1] ELSE one[c]]
  BY <1>1, Zenon DEF Put
<1>4. /\ DOMAIN x = 1..l /\ DOMAIN y = 1..n /\ DOMAIN z = 1 .. k + n
      /\ \A i \in 1..k : z[i] = x[i]
      /\ \A i \in 1..n : z[k + i] = y[i]
  BY Zenon DEF Joined
<1>5. ASSUME NEW c \in DOMAIN mem
      PROVE  (IF c - b + 1 \in DOMAIN y THEN y[c - b + 1] ELSE one[c])
               = IF c - a + 1 \in DOMAIN z THEN z[c - a + 1] ELSE mem[c]
  <2> DEFINE i == c - a + 1
             j == c - b + 1
  <2>1. c \in Int
    BY DEF IsMemory
  <2>2. i \in Int /\ j \in Int /\ i = k + j
    BY <1>0, <2>1
  <2>3. /\ j \in 1..n => i \in 1 .. k + n
        /\ j \notin 1..n /\ i \in 1..l => i \in 1..k /\ i \in 1 .. k + n
        /\ j \notin 1..n /\ i \notin 1..l => i \notin 1 .. k + n
    BY <1>0, <2>2
  <2> HIDE DEF i, j, one, b
  <2>4. one[c] = IF i \in 1..l THEN x[i] ELSE mem[c]
    BY <1>1, <1>4, Zenon DEF i
  <2>5. (IF j \in 1..n THEN y[j] ELSE one[c]) = IF i \in 1 .. k + n THEN z[i] ELSE mem[c]
    <3>1. CASE j \in 1..n
      BY <1>4, <2>2, <2>3, <3>1, Zenon
    <3>2. CASE j \notin 1..n /\ i \in 1..l
      BY <1>4, <2>3, <2>4, <3>2, Zenon
    <3>3. CASE j \notin 1..n /\ i \notin 1..l
      BY <1>4, <2>3, <2>4, <3>3, Zenon
    <3> QED
      BY <3>1, <3>2, <3>3
  <2> QED
    BY <1>4, <2>5, Zenon DEF i, j
<1>6. two = Put(mem, z, a)
  BY <1>3, <1>5, Zenon DEF Put
<1> QED
  BY <1>6

(* Bytes put behind a string in memory, from its 0 on. *)
LEMMA PutBehind ==
  ASSUME NEW mem, IsMemory(mem), NEW a \in Int, NEW s \in Seq(Chars), NEW y \in Seq(Nat),
         Len(y) >= 1
  PROVE  Put(Put(mem, s \o <<0>>, a), y, a + Len(s)) = Put(mem, s \o y, a)
<1> DEFINE x == s \o <<0>>
           z == s \o y
           k == Len(s)
           n == Len(y)
<1>1. /\ k \in Nat /\ DOMAIN x = 1 .. k + 1 /\ \A i \in 1 .. k + 1 : x[i] = Char(s, i)
  BY TerminatedIs, Zenon
<1>2. s \in Seq(Nat) /\ n \in Nat /\ DOMAIN y = 1..n
  <2>1. Chars \subseteq Nat
    BY MemoryAssumption DEF Chars
  <2> QED
    BY <2>1, SeqMonotonic, LenProperties
<1>3. Joins(z, s, y, k, n)
  BY <1>2, ConcatIs
<1> HIDE DEF x, z
<1>4. /\ z \in Seq(Nat) /\ Len(z) = k + n
      /\ \A i \in 1 .. k + n : z[i] = IF i <= k THEN s[i] ELSE y[i - k]
  BY <1>3, Zenon DEF Joins
<1>5. DOMAIN z = 1 .. k + n
  BY <1>4, LenProperties
<1>6. n >= 1
  OBVIOUS
<1> HIDE DEF k, n
<1>7. ASSUME NEW i \in 1..k PROVE z[i] = x[i]
  <2>1. i <= k /\ i \in 1 .. k + n /\ i \in 1 .. k + 1
    BY <1>1, <1>2
  <2> QED
    BY <1>1, <1>4, <2>1, Zenon DEF Char, k
<1>8. ASSUME NEW i \in 1..n PROVE z[k + i] = y[i]
  <2>1. ~(k + i <= k) /\ k + i \in 1 .. k + n /\ (k + i) - k = i
    BY <1>1, <1>2
  <2> QED
    BY <1>4, <2>1, Zenon
<1>9. k + 1 \in Nat /\ k <= k + 1 /\ k + 1 <= k + n
  BY <1>1, <1>2, <1>6
<1>10. Joined(x, y, z, k, k + 1, n)
  BY <1>1, <1>2, <1>5, <1>7, <1>8, <1>9, Zenon DEF Joined
<1>11. Put(Put(mem, x, a), y, a + k) = Put(mem, z, a)
  BY <1>10, PutAppend
<1> QED
  BY <1>11, Zenon DEF x, z, k

(* Bytes put behind a string leave it, and a string put somewhere stands there. *)
LEMMA PutString ==
  ASSUME NEW mem, IsMemory(mem), NEW a \in Int, NEW s \in Seq(Chars), Holds(mem, a, Len(s) + 1)
  PROVE  StringAt(Put(mem, s \o <<0>>, a), a, s)
<1> DEFINE x == s \o <<0>>
           f == Put(mem, x, a)
           l == Len(s)
<1>1. l \in Nat /\ DOMAIN x = 1 .. l + 1 /\ \A i \in 1 .. l + 1 : x[i] = Char(s, i)
  BY TerminatedIs, Zenon
<1>2. \A c \in DOMAIN mem : f[c] = IF c - a + 1 \in DOMAIN x THEN x[c - a + 1] ELSE mem[c]
  BY PutIs
<1> HIDE DEF f, x
<1>3. ASSUME NEW i \in 0..l PROVE f[a + i] = Char(s, i + 1)
  <2>1. /\ a + i \in a .. a + (l + 1) - 1 /\ (a + i) - a + 1 = i + 1
        /\ i + 1 \in 1 .. l + 1
    BY <1>1
  <2>2. a + i \in DOMAIN mem
    BY <2>1, Zenon DEF Holds
  <2> QED
    BY <1>1, <1>2, <2>1, <2>2, Zenon
<1> QED
  BY <1>3, Zenon DEF StringAt, f, x

LEMMA PutElsewhere ==
  ASSUME NEW mem, IsMemory(mem), NEW a \in Int, NEW x, NEW n, DOMAIN x = 1..n,
         NEW p \in Int, NEW t \in Seq(Chars), StringAt(mem, p, t), Holds(mem, p, Len(t) + 1),
         p + Len(t) < a
  PROVE  StringAt(Put(mem, x, a), p, t)
<1> DEFINE f == Put(mem, x, a)
           l == Len(t)
<1>1. l \in Nat /\ p + l < a
  BY LenProperties
<1>2. \A c \in DOMAIN mem : f[c] = IF c - a + 1 \in DOMAIN x THEN x[c - a + 1] ELSE mem[c]
  BY PutIs, Zenon
<1> HIDE DEF f
<1>3. ASSUME NEW i \in 0..l PROVE f[p + i] = Char(t, i + 1)
  <2>1. /\ p + i \in p .. p + (l + 1) - 1 /\ (p + i) - a + 1 \notin 1..n
    BY <1>1
  <2>2. p + i \in DOMAIN mem
    BY <2>1, Zenon DEF Holds
  <2>3. mem[p + i] = Char(t, i + 1)
    BY Zenon DEF StringAt
  <2> QED
    BY <1>2, <2>1, <2>2, <2>3, Zenon
<1> QED
  BY <1>3, Zenon DEF StringAt, f

(* strncat puts what its limit leaves of the string, and a 0, over the final 0. *)
Extends(m, a, p, s, t) ==
  a \in Int /\ s \in Seq(Chars) /\ StringAt(m, a, s) /\ Copyable(m, a + Len(s), p, t)

LEMMA StrncatPuts ==
  ASSUME NEW m, NEW a, NEW p, NEW s, NEW t, Extends(m, a, p, s, t), NEW count \in Nat
  PROVE  Strncat(m, a, p, count) = Put(m, Prefix(t, count) \o <<0>>, a + Len(s))
<1> DEFINE end == a + Len(s)
           l == Len(t)
           x == t \o <<0>>
           u == Prefix(t, count)
           v == Prefix(x, count)
           w == u \o <<0>>
           q == Put(m, v, end)
           c == Len(u)
           r == Strncat(m, a, p, count)
<1>0. a \in Int /\ s \in Seq(Chars) /\ StringAt(m, a, s) /\ Copyable(m, end, p, t)
  BY Zenon DEF Extends
<1>1. t \in Seq(Chars) /\ IsMemory(m) /\ end \in Int
  BY <1>0, Zenon DEF Copyable
<1>2. Strlen(m, a) = Len(s) /\ Len(s) \in Nat
  BY <1>0, StrlenIs, LenProperties
<1>3. /\ x \in Seq(Nat) /\ l \in Nat /\ Len(x) = l + 1
      /\ \A i \in 1 .. l + 1 : x[i] = Char(t, i)
  BY <1>1, TerminatedIs
<1>4. /\ Strncpy(m, end, p, count) = q
      /\ Counted(m, end, p, count) = count <=> count <= l
  BY <1>0, StrncpyPuts, Zenon
<1>5. r = IF count # 0 /\ Counted(m, end, p, count) = count
          THEN [Strncpy(m, end, p, count) EXCEPT ![end + count] = 0]
          ELSE Strncpy(m, end, p, count)
  BY <1>2, Zenon DEF Strncat
<1>6. r = IF count # 0 /\ count <= l THEN [q EXCEPT ![end + count] = 0] ELSE q
  BY <1>4, <1>5, Zenon
<1>7. /\ u \in Seq(Chars) /\ c = (IF count < l THEN count ELSE l)
      /\ \A i \in 1..c : u[i] = t[i]
  BY <1>1, PrefixIs
<1> HIDE DEF x
<1>8. /\ v \in Seq(Nat) /\ Len(v) = (IF count < Len(x) THEN count ELSE Len(x))
      /\ \A i \in 1..Len(v) : v[i] = x[i]
  BY <1>3, PrefixIs
<1> HIDE DEF u, v, r
<1>9. /\ w \in Seq(Nat) /\ Len(w) = c + 1 /\ DOMAIN w = 1 .. c + 1
      /\ \A i \in 1 .. c + 1 : w[i] = Char(u, i)
  BY <1>7, TerminatedIs
<1>10. c \in Nat /\ c <= l /\ \A i \in 1 .. c + 1 : i <= c <=> i \in 1..c
  BY <1>3, <1>7
<1> HIDE DEF w, c
<1>11. \A i \in 1 .. c + 1 : w[i] = IF i <= c THEN t[i] ELSE 0
  BY <1>7, <1>9, <1>10, Zenon DEF Char, c
<1>12. CASE ~(count <= l)
  <2>1. c = l /\ Len(v) = l + 1
    BY <1>3, <1>7, <1>8, <1>12
  <2>2. ASSUME NEW i \in 1 .. l + 1 PROVE v[i] = w[i]
    BY <1>3, <1>8, <1>11, <2>1, Zenon DEF Char
  <2>3. v = w
    BY <1>8, <1>9, <2>1, <2>2, SeqEqual
  <2> QED
    BY <1>6, <1>12, <2>3, Zenon DEF r, w, u
<1>13. CASE count <= l
  <2>1. c = count /\ Len(v) = count /\ DOMAIN v = 1..count
    <3>1. c = count /\ Len(v) = count
      BY <1>3, <1>7, <1>8, <1>13
    <3> QED
      BY <1>8, <3>1, LenProperties
  <2>2. ASSUME NEW i \in 1..count PROVE v[i] = w[i]
    <3>1. i \in 1 .. l + 1 /\ i <= l /\ i <= c /\ i \in 1 .. c + 1
      BY <1>3, <1>13, <2>1
    <3> QED
      BY <1>3, <1>8, <1>11, <2>1, <3>1, Zenon DEF Char
  <2>3. w[count + 1] = 0
    <3>1. count + 1 \in 1 .. c + 1 /\ ~(count + 1 <= c)
      BY <2>1
    <3> QED
      BY <1>11, <3>1, Zenon
  <2> DEFINE g == [b \in DOMAIN m |-> IF b - end + 1 \in DOMAIN w THEN w[b - end + 1] ELSE m[b]]
  <2>4. q = [b \in DOMAIN m |-> IF b - end + 1 \in DOMAIN v THEN v[b - end + 1] ELSE m[b]]
    BY Zenon DEF Put
  <2>5. m[end] = 0
    <3>1. Len(s) \in 0..Len(s) /\ ~(Len(s) + 1 <= Len(s))
      BY <1>2
    <3> QED
      BY <1>0, <3>1, Zenon DEF StringAt, Char
  <2> HIDE DEF q, end
  <2>6. ASSUME NEW b \in DOMAIN m
        PROVE  g[b] = IF b = end + count THEN 0 ELSE q[b]
    <3> DEFINE i == b - end + 1
    <3>1. b \in Int
      BY <1>1 DEF IsMemory
    <3>2. /\ b = end + count <=> i = count + 1
          /\ i \in 1 .. count + 1 <=> i \in 1..count \/ i = count + 1
          /\ i \in 1..count => i # count + 1
      BY <1>1, <3>1
    <3>3. /\ q[b] = IF i \in 1..count THEN v[i] ELSE m[b]
          /\ g[b] = IF i \in 1 .. count + 1 THEN w[i] ELSE m[b]
      BY <1>9, <2>1, <2>4, Zenon
    <3> HIDE DEF i, g
    <3> QED
      BY <2>2, <2>3, <3>2, <3>3, Zenon
  <2>7. r = g
    <3>1. CASE count # 0
      <4>1. r = [q EXCEPT ![end + count] = 0] /\ DOMAIN q = DOMAIN m
        BY <1>6, <1>13, <2>4, <3>1
      <4>2. r = [b \in DOMAIN m |-> IF b = end + count THEN 0 ELSE q[b]]
        BY <4>1
      <4>3. g = [b \in DOMAIN m |-> g[b]]
        OBVIOUS
      <4> HIDE DEF g
      <4> QED
        BY <2>6, <4>2, <4>3, Zenon
    <3>2. CASE count = 0
      <4>1. r = q /\ end + count = end
        BY <1>1, <1>6, <3>2
      <4>2. 1..count = {} /\ q = [b \in DOMAIN m |-> q[b]]
        BY <2>4, <3>2
      <4>3. \A b \in DOMAIN m : q[b] = m[b]
        BY <2>1, <2>4, <4>2, Zenon
      <4>4. \A b \in DOMAIN m : g[b] = q[b]
        BY <2>5, <2>6, <4>1, <4>3, Zenon
      <4>5. g = [b \in DOMAIN m |-> g[b]]
        OBVIOUS
      <4> HIDE DEF g
      <4> QED
        BY <4>1, <4>2, <4>4, <4>5, Zenon
    <3> QED
      BY <3>1, <3>2
  <2>8. g = Put(m, w, end)
    BY Zenon DEF Put
  <2> QED
    BY <2>7, <2>8, Zenon DEF r, w, u, end
<1> QED
  BY <1>12, <1>13

Associates(x, y, z) == x \o (y \o z) = (x \o y) \o z
LEMMA JoinedAlike ==
  ASSUME NEW x \in Seq(Nat), NEW y \in Seq(Nat), NEW z \in Seq(Nat)
  PROVE  Associates(x, y, z)
<1>1. (x \o y) \o z = x \o (y \o z)
  BY ConcatAssociative, SMTT(60)
<1> QED
  BY <1>1, Zenon DEF Associates

LEMMA StrswabPuts ==
  ASSUME NEW mem, IsMemory(mem), NEW s \in Seq(Chars), StringAt(mem, 1, s)
  PROVE  Strswab(mem, 1)
           = Put(mem, [i \in 1 .. 2 * (Len(s) \div 2) |-> s[IF i % 2 = 1 THEN i + 1 ELSE i - 1]], 1)
<1> DEFINE l == Len(s)
           n == l \div 2
           one == 1
           more == {k \in Nat : mem[one + 2 * k] # 0 /\ mem[one + 2 * k + 1] # 0}
           x == [i \in 1 .. 2 * n |-> s[IF i % 2 = 1 THEN i + 1 ELSE i - 1]]
<1>1. l \in Nat /\ n \in Nat /\ (l = 2 * n \/ l = 2 * n + 1)
  <2>1. l \in Nat
    BY LenProperties
  <2> HIDE DEF l
  <2>2. \A k \in Nat : k \div 2 \in Nat /\ (k = 2 * (k \div 2) \/ k = 2 * (k \div 2) + 1)
    BY SMT
  <2> QED
    BY <2>1, <2>2
<1> HIDE DEF n
<1>2. (\A b \in 1..l : mem[b] = s[b] /\ mem[b] # 0) /\ mem[l + 1] = 0
  <2>1. ASSUME NEW b \in 1..l PROVE mem[b] = s[b] /\ mem[b] # 0
    <3>1. b - 1 \in 0..l /\ 1 + (b - 1) = b /\ (b - 1) + 1 = b /\ b <= l
      BY <1>1
    <3>2. mem[b] = s[b]
      BY <3>1, Zenon DEF StringAt, Char
    <3>3. s[b] \in Chars /\ \A c \in Chars : c # 0
      BY ElementOfSeq, MemoryAssumption DEF Chars
    <3> QED
      BY <3>2, <3>3
  <2>2. l \in 0..l /\ 1 + l = l + 1 /\ ~(l + 1 <= l)
    BY <1>1
  <2>3. mem[1 + l] = Char(s, l + 1)
    BY <2>2, Zenon DEF StringAt
  <2>4. Char(s, l + 1) = 0
    BY <2>2, Zenon DEF Char
  <2> QED
    BY <2>1, <2>2, <2>3, <2>4
<1> HIDE DEF l
<1>3. n \notin more /\ \A i \in Nat : i < n => i \in more
  <2>1. ASSUME NEW i \in Nat, i < n PROVE i \in more
    <3>1. one + 2 * i \in 1..l /\ one + 2 * i + 1 \in 1..l
      BY <1>1, <2>1
    <3> QED
      BY <1>2, <3>1, Zenon
  <2>2. one + 2 * n = l + 1 \/ one + 2 * n + 1 = l + 1
    BY <1>1
  <2>3. n \notin more
    BY <1>2, <2>2, Zenon
  <2> QED
    BY <2>1, <2>3
<1>4. Rounds(more) = n
  BY <1>1, <1>3, RoundsAre
<1>5. Strswab(mem, one) = [a \in DOMAIN mem |->
        IF a - one \in 0 .. 2 * n - 1 THEN mem[IF (a - one) % 2 = 0 THEN a + 1 ELSE a - 1] ELSE mem[a]]
  BY <1>4, Zenon DEF Strswab
<1>6. ASSUME NEW a \in DOMAIN mem
      PROVE  (IF a - one \in 0 .. 2 * n - 1 THEN mem[IF (a - one) % 2 = 0 THEN a + 1 ELSE a - 1] ELSE mem[a])
               = IF a - one + 1 \in DOMAIN x THEN x[a - one + 1] ELSE mem[a]
  <2>1. a \in Int /\ DOMAIN x = 1 .. 2 * n /\ a - one + 1 = a
    BY DEF IsMemory
  <2>2. a - one \in 0 .. 2 * n - 1 <=> a \in 1 .. 2 * n
    BY <1>1, <2>1
  <2>3. ASSUME a \in 1 .. 2 * n
        PROVE  mem[IF (a - one) % 2 = 0 THEN a + 1 ELSE a - 1] = x[a]
    <3> DEFINE b == IF a % 2 = 1 THEN a + 1 ELSE a - 1
    <3>1. ((a - one) % 2 = 0 <=> a % 2 = 1) /\ b \in 1..l
      <4>1. \A k, h \in Nat : h \in 1 .. 2 * k =>
              /\ (h - 1) % 2 = 0 <=> h % 2 = 1
              /\ (IF h % 2 = 1 THEN h + 1 ELSE h - 1) \in 1 .. 2 * k
        BY SMT
      <4>2. a \in Nat
        BY <1>1, <2>3
      <4>3. b \in 1 .. 2 * n /\ ((a - one) % 2 = 0 <=> a % 2 = 1)
        BY <1>1, <2>3, <4>1, <4>2
      <4> HIDE DEF b
      <4> QED
        BY <1>1, <4>3
    <3>2. x[a] = s[b]
      BY <2>3
    <3>3. (IF (a - one) % 2 = 0 THEN a + 1 ELSE a - 1) = b
      BY <3>1, Zenon
    <3> HIDE DEF b
    <3> QED
      BY <1>2, <3>1, <3>2, <3>3, Zenon
  <2> HIDE DEF x, one
  <2> QED
    BY <2>1, <2>2, <2>3, Zenon
<1>7. Strswab(mem, one) = Put(mem, x, one)
  BY <1>5, <1>6, Zenon DEF Put
<1> QED
  BY <1>7, Zenon DEF x, n, l, one

(* The copies, in a memory with s at 1, t behind it and room at free. *)
LEMMA CopiesHold ==
  ASSUME NEW s \in Seq(Symbols), NEW t \in Seq(Symbols)
  PROVE  CopiesRight(Laid(s, t), s, t, Len(s) + 2, Len(s) + Len(t) + 3)
<1> DEFINE mem == Laid(s, t)
           l == Len(s)
           n == Len(t)
           one == 1
           p == Len(s) + 2
           free == Len(s) + Len(t) + 3
           end == free + Len(s)
           zero == <<0>>
           copy == Strcpy(mem, free, one)
<1>1. s \in Seq(Chars) /\ t \in Seq(Chars)
  BY SymbolsAre, SeqMonotonic
<1>2. Len(s) \in Nat /\ Len(t) \in Nat
  BY LenProperties
<1>3. /\ StringAt(mem, one, s) /\ StringAt(mem, p, t)
      /\ mem \in Seq(Nat) /\ Len(mem) = 2 * (Len(s) + Len(t)) + 5
  BY <1>1, LaidHolds
<1> HIDE DEF mem
<1>4. DOMAIN mem = 1 .. 2 * (Len(s) + Len(t)) + 5
  BY <1>3, LenProperties
<1>5. IsMemory(mem)
  <2>1. DOMAIN mem \subseteq Int
    BY <1>2, <1>4
  <2>2. mem = [a \in DOMAIN mem |-> mem[a]]
    <3>1. mem \in [1..Len(mem) -> Nat]
      BY <1>3, LenProperties
    <3> QED
      BY <3>1
  <2> QED
    BY <2>1, <2>2, Zenon DEF IsMemory
<1>6. /\ p \in Int /\ free \in Int /\ one \in Int /\ end \in Int
      /\ one + Len(s) + 1 <= free /\ p + Len(t) + 1 <= end /\ p + Len(t) < free
  BY <1>2
<1>7. Holds(mem, one, Len(s) + 1) /\ Holds(mem, p, Len(t) + 1) /\ Holds(mem, free, Len(s) + 1)
  <2>1. /\ one .. one + (Len(s) + 1) - 1 \subseteq 1 .. 2 * (Len(s) + Len(t)) + 5
        /\ p .. p + (Len(t) + 1) - 1 \subseteq 1 .. 2 * (Len(s) + Len(t)) + 5
        /\ free .. free + (Len(s) + 1) - 1 \subseteq 1 .. 2 * (Len(s) + Len(t)) + 5
    BY <1>2
  <2> QED
    BY <1>4, <2>1, Zenon DEF Holds
<1> DEFINE sz == s \o zero
           tz == t \o zero
<1>8. /\ sz \in Seq(Nat) /\ DOMAIN sz = 1 .. Len(s) + 1
      /\ tz \in Seq(Nat) /\ Len(tz) = Len(t) + 1
  BY <1>1, TerminatedIs
<1>9. Copyable(mem, free, one, s)
  BY <1>1, <1>3, <1>5, <1>6, <1>7, Zenon DEF Copyable
<1>10. copy = Put(mem, sz, free)
  BY <1>9, StrcpyPuts, Zenon
<1>11. IsMemory(copy) /\ DOMAIN copy = DOMAIN mem
  <2>1. IsMemory(Put(mem, sz, free)) /\ DOMAIN Put(mem, sz, free) = DOMAIN mem
    BY <1>5, <1>6, PutIs
  <2> QED
    BY <1>10, <2>1
<1>12. StringAt(copy, free, s)
  BY <1>1, <1>5, <1>6, <1>7, <1>10, PutString, Zenon
<1>13. StringAt(copy, p, t)
  <2> HIDE DEF p, free, sz, copy
  <2> QED
    BY <1>1, <1>3, <1>5, <1>6, <1>7, <1>8, <1>10, PutElsewhere
<1>14. Copyable(copy, end, p, t)
  <2>1. Holds(copy, p, Len(t) + 1)
    BY <1>7, <1>11, Zenon DEF Holds
  <2> HIDE DEF copy, p, end
  <2> QED
    BY <1>1, <1>6, <1>11, <1>13, <2>1, Zenon DEF Copyable
<1> HIDE DEF copy, one, p, free
<1>15. Strlen(copy, free) = Len(s)
  BY <1>1, <1>6, <1>12, StrlenIs
<1>16. s \in Seq(Nat) /\ t \in Seq(Nat) /\ zero \in Seq(Nat) /\ Len(zero) = 1
  <2>1. Chars \subseteq Nat
    BY MemoryAssumption DEF Chars
  <2>2. zero \in Seq(Nat) /\ Len(zero) = 1
    OBVIOUS
  <2>3. s \in Seq(Nat) /\ t \in Seq(Nat)
    BY <1>1, <2>1, SeqMonotonic
  <2> QED
    BY <2>2, <2>3
<1> HIDE DEF sz, tz, zero
<1>17. ASSUME NEW w \in Seq(Nat), Len(w) >= 1
       PROVE  Put(copy, w, end) = Put(mem, s \o w, free)
  <2>1. Put(Put(mem, s \o <<0>>, free), w, free + Len(s)) = Put(mem, s \o w, free)
    BY <1>1, <1>5, <1>6, <1>17, PutBehind
  <2> QED
    BY <1>10, <2>1, Zenon DEF sz, zero
<1>18. Strcat(copy, free, p) = Put(mem, s \o t \o zero, free)
  <2>1. Strcat(copy, free, p) = Strcpy(copy, end, p)
    BY <1>15, Zenon DEF Strcat
  <2>2. Strcpy(copy, end, p) = Put(copy, tz, end)
    BY <1>14, StrcpyPuts, Zenon DEF tz, zero
  <2>3. Put(copy, tz, end) = Put(mem, s \o tz, free)
    <3>1. Len(tz) >= 1
      BY <1>2, <1>8
    <3> QED
      BY <1>8, <1>17, <3>1
  <2>4. s \o tz = s \o t \o zero
    <3>1. Associates(s, t, zero)
      BY <1>16, JoinedAlike
    <3> QED
      BY <3>1, Zenon DEF Associates, tz
  <2> QED
    BY <2>1, <2>2, <2>3, <2>4, Zenon
<1>19. ASSUME NEW c \in 0 .. MaxText + 1
       PROVE  /\ Strncpy(mem, free, one, c) = Put(mem, Prefix(sz, c), free)
              /\ Strncat(copy, free, p, c) = Put(mem, s \o Prefix(t, c) \o zero, free)
  <2>1. c \in Nat
    BY SymbolsAre
  <2>2. Strncpy(mem, free, one, c) = Put(mem, Prefix(sz, c), free)
    BY <1>9, <2>1, StrncpyPuts DEF sz, zero
  <2> DEFINE u == Prefix(t, c)
             w == u \o zero
  <2>3. Strncat(copy, free, p, c) = Put(copy, w, end)
    <3>1. Strncat(copy, free, p, c) = Put(copy, Prefix(t, c) \o <<0>>, free + Len(s))
      <4>1. Extends(copy, free, p, s, t)
        BY <1>1, <1>6, <1>12, <1>14, Zenon DEF Extends
      <4> QED
        BY <2>1, <4>1, StrncatPuts, Zenon
    <3> QED
      BY <3>1, Zenon DEF zero
  <2>4. u \in Seq(Chars)
    BY <1>1, <2>1, PrefixIs
  <2>5. u \in Seq(Nat)
    BY <1>16, <2>1, PrefixIs
  <2>6. w \in Seq(Nat) /\ Len(w) >= 1
    <3>1. w \in Seq(Nat) /\ Len(u) \in Nat /\ Len(w) = Len(u) + 1
      BY <2>4, TerminatedIs, Zenon DEF zero
    <3> HIDE DEF w, u
    <3> QED
      BY <3>1
  <2> HIDE DEF u
  <2>7. Put(copy, w, end) = Put(mem, s \o w, free)
    BY <1>17, <2>6
  <2>8. s \o w = s \o u \o zero
    <3>1. Associates(s, u, zero)
      BY <1>16, <2>5, JoinedAlike
    <3> QED
      BY <3>1, Zenon DEF Associates
  <2> QED
    BY <2>2, <2>3, <2>7, <2>8, Zenon DEF u
<1>20. Strswab(mem, one)
         = Put(mem, [i \in 1 .. 2 * (Len(s) \div 2) |-> s[IF i % 2 = 1 THEN i + 1 ELSE i - 1]], one)
  <2>1. StringAt(mem, 1, s)
    BY <1>3 DEF one
  <2> QED
    BY <1>1, <1>5, <2>1, StrswabPuts, Zenon DEF one
<1>21. CopiesRight(mem, s, t, p, free)
  BY <1>10, <1>18, <1>19, <1>20, Zenon DEF CopiesRight, copy, one, sz, zero
<1> QED
  BY <1>21, Zenon DEF mem, p, free

-----------------------------------------------------------------------------
(* Searches and copies together.                                           *)

(* The searches return the first (strrchr: the last) place or what stands for none, and copies
   and concatenations are terminated and write nothing else, for every string and limit. *)
THEOREM SearchAlwaysExact == CallsSpec => []SearchExact
<1>1. Given => SearchExact
  <2> DEFINE s == probe.s
             t == probe.t
             mem == Laid(s, t)
             p == Len(s) + 2
             free == Len(s) + Len(t) + 3
  <2> SUFFICES ASSUME Given, probe.of = "find"
               PROVE  FindsRight(mem, s, t, p) /\ CopiesRight(mem, s, t, p, free)
    BY Zenon DEF SearchExact
  <2>1. s \in Texts(Symbols, MaxLine) /\ t \in Texts(Symbols, MaxText)
    BY Zenon DEF Given
  <2> HIDE DEF s, t
  <2>2. s \in Seq(Symbols) /\ Len(s) \in Nat /\ t \in Seq(Symbols)
    BY <2>1, SymbolsAre, TextIs
  <2>3. s \in Seq(Chars) /\ t \in Seq(Chars)
    BY <2>2, SymbolsAre, SeqMonotonic
  <2>4. StringAt(mem, 1, s) /\ StringAt(mem, p, t)
    BY <2>3, LaidHolds
  <2>5. CopiesRight(mem, s, t, p, free)
    BY <2>2, CopiesHold
  <2> HIDE DEF mem
  <2>6. p \in Int
    BY <2>2
  <2> HIDE DEF p
  <2>7. FindsRight(mem, s, t, p)
    BY <2>2, <2>4, <2>6, FindsHold
  <2> QED
    BY <2>5, <2>7
<1> QED
  BY <1>1, AlwaysGiven, PTL

-----------------------------------------------------------------------------
(* Tokens.                                                                 *)

(* The characters from a up to b - 1. *)
LEMMA CutIs ==
  ASSUME NEW S, NEW s \in Seq(S), NEW a \in 1 .. Len(s) + 1, NEW b \in a .. Len(s) + 1
  PROVE  /\ SubSeq(s, a, b - 1) \in Seq(S) /\ Len(SubSeq(s, a, b - 1)) = b - a
         /\ \A i \in 1 .. b - a : SubSeq(s, a, b - 1)[i] = s[a + i - 1]
         /\ SubSeq(s, a, b - 1) = <<>> <=> a = b
<1> DEFINE l == Len(s)
           v == b - 1
           x == SubSeq(s, a, v)
<1>1. l \in Nat /\ \A i \in 1..l : s[i] \in S
  BY LenProperties, ElementOfSeq
<1>2. a \in Int /\ v \in Int /\ (\A i \in a..v : s[i] \in S) /\ b \in Int /\ a <= b
  BY <1>1
<1>3. v - a + 1 = b - a /\ (IF a <= v THEN v - a + 1 ELSE 0) = b - a
  BY <1>2
<1> HIDE DEF v, l
<1>4. /\ x \in Seq(S) /\ Len(x) = (IF a <= v THEN v - a + 1 ELSE 0)
      /\ \A i \in 1 .. v - a + 1 : x[i] = s[a + i - 1]
  BY <1>2, SubSeqProperties
<1> HIDE DEF x
<1>5. Len(x) = b - a /\ \A i \in 1 .. b - a : x[i] = s[a + i - 1]
  BY <1>3, <1>4, Zenon
<1>6. x = <<>> <=> Len(x) = 0
  BY <1>4, EmptySeq
<1>7. b - a = 0 <=> a = b
  BY <1>2
<1> QED
  BY <1>4, <1>5, <1>6, <1>7, Zenon DEF x, v

(* From a on memory has the characters of s. *)
From(mem, s, a) == \A i \in a .. Len(s) + 1 : mem[i] = Char(s, i)

(* b is the first place from a on with a character of C, or the one behind the string. *)
FirstFrom(s, C, a, b) ==
  /\ b \in a .. Len(s) + 1
  /\ \A j \in a .. b - 1 : s[j] \notin C
  /\ b <= Len(s) => s[b] \in C

LEMMA TailIs ==
  ASSUME NEW mem, NEW s \in Seq(Chars), NEW a \in 1 .. Len(s) + 1, From(mem, s, a)
  PROVE  /\ SubSeq(s, a, Len(s)) \in Seq(Chars) /\ Len(SubSeq(s, a, Len(s))) = Len(s) + 1 - a
         /\ \A i \in 1 .. Len(s) + 1 - a : SubSeq(s, a, Len(s))[i] = s[a + i - 1]
         /\ StringAt(mem, a, SubSeq(s, a, Len(s)))
<1> DEFINE l == Len(s)
           x == SubSeq(s, a, l)
<1>1. l \in Nat /\ l + 1 \in a .. l + 1 /\ (l + 1) - 1 = l
  BY LenProperties
<1>2. /\ x \in Seq(Chars) /\ Len(x) = l + 1 - a
      /\ \A i \in 1 .. l + 1 - a : x[i] = s[a + i - 1]
  <2> DEFINE b == l + 1
  <2>1. b \in a .. Len(s) + 1 /\ b - 1 = l /\ b - a = l + 1 - a
    BY <1>1
  <2> HIDE DEF b
  <2>2. /\ SubSeq(s, a, b - 1) \in Seq(Chars) /\ Len(SubSeq(s, a, b - 1)) = b - a
        /\ \A i \in 1 .. b - a : SubSeq(s, a, b - 1)[i] = s[a + i - 1]
    BY <2>1, CutIs
  <2> QED
    BY <2>1, <2>2, Zenon
<1> HIDE DEF x
<1>3. ASSUME NEW i \in 0..Len(x) PROVE mem[a + i] = Char(x, i + 1)
  <2>1. /\ a + i \in a .. l + 1 /\ (i + 1 <= Len(x) <=> a + i <= l)
        /\ i + 1 <= Len(x) => i + 1 \in 1 .. l + 1 - a /\ a + (i + 1) - 1 = a + i
    BY <1>1, <1>2
  <2>2. mem[a + i] = Char(s, a + i)
    BY <2>1, Zenon DEF From
  <2> QED
    BY <1>2, <2>1, <2>2, Zenon DEF Char
<1>4. StringAt(mem, a, x)
  BY <1>3, Zenon DEF StringAt
<1> QED
  BY <1>2, <1>4, Zenon DEF x

(* strpbrk and strspn from some place in a string. *)
LEMMA FirstInTail ==
  ASSUME NEW s \in Seq(Chars), NEW a \in 1 .. Len(s) + 1, NEW x \in Seq(Chars),
         Len(x) = Len(s) + 1 - a, \A i \in 1 .. Len(s) + 1 - a : x[i] = s[a + i - 1],
         NEW C, NEW k \in Nat, First(x, C, k)
  PROVE  FirstFrom(s, C, a, a + (k - 1)) /\ (k <= Len(x) <=> a + (k - 1) <= Len(s))
<1> DEFINE l == Len(s)
           b == a + (k - 1)
<1>1. l \in Nat
  BY LenProperties
<1>2. /\ k \in 1 .. Len(x) + 1 /\ \A j \in 1 .. k - 1 : x[j] \notin C
      /\ k <= Len(x) => x[k] \in C
  BY Zenon DEF First
<1>3. b \in a .. l + 1 /\ (k <= Len(x) <=> b <= l)
  BY <1>1, <1>2
<1>4. ASSUME NEW j \in a .. b - 1 PROVE s[j] \notin C
  <2> DEFINE i == j - a + 1
  <2>1. i \in 1 .. k - 1 /\ i \in 1 .. l + 1 - a /\ a + i - 1 = j
    BY <1>1, <1>2, <1>3
  <2> HIDE DEF i
  <2> QED
    BY <1>2, <2>1, Zenon
<1>5. ASSUME b <= l PROVE s[b] \in C
  <2>1. k <= Len(x) /\ k \in 1 .. l + 1 - a /\ a + k - 1 = b
    BY <1>1, <1>2, <1>3, <1>5
  <2> QED
    BY <1>2, <2>1, Zenon
<1> QED
  BY <1>3, <1>4, <1>5, Zenon DEF FirstFrom, b

LEMMA ScanFrom ==
  ASSUME NEW mem, NEW s \in Seq(Chars), NEW a \in 1 .. Len(s) + 1, From(mem, s, a), NEW C
  PROVE  \E b \in Nat : FirstFrom(s, C, a, b) /\ Strpbrk(mem, a, C) = IF b <= Len(s) THEN b ELSE 0
<1> DEFINE x == SubSeq(s, a, Len(s))
<1>1. /\ x \in Seq(Chars) /\ Len(x) = Len(s) + 1 - a
      /\ \A i \in 1 .. Len(s) + 1 - a : x[i] = s[a + i - 1]
      /\ StringAt(mem, a, x)
  BY TailIs
<1> HIDE DEF x
<1>2. PICK k \in Nat : First(x, C, k)
  BY <1>1, FirstIs
<1>3. FirstFrom(s, C, a, a + (k - 1)) /\ (k <= Len(x) <=> a + (k - 1) <= Len(s))
  BY <1>1, <1>2, FirstInTail
<1>4. a \in Int
  OBVIOUS
<1>5. Strpbrk(mem, a, C) = Found(a, x, k)
  BY <1>1, <1>2, <1>4, StrpbrkIs
<1>6. Strpbrk(mem, a, C) = IF a + (k - 1) <= Len(s) THEN a + (k - 1) ELSE 0
  BY <1>3, <1>5, Zenon DEF Found
<1>7. a + (k - 1) \in Nat
  <2>1. k \in 1 .. Len(x) + 1 /\ Len(x) \in Nat
    BY <1>1, <1>2, LenProperties DEF First
  <2>2. k >= 1 /\ a >= 1
    BY <2>1, LenProperties
  <2> QED
    BY <1>4, <2>2
<1> DEFINE b == a + (k - 1)
<1> HIDE DEF b
<1> QED
  BY <1>3, <1>6, <1>7, Zenon DEF b

LEMMA SkipFrom ==
  ASSUME NEW mem, NEW s \in Seq(Chars), NEW a \in 1 .. Len(s) + 1, From(mem, s, a), NEW C
  PROVE  FirstFrom(s, Chars \ C, a, a + Strspn(mem, a, C))
<1> DEFINE x == SubSeq(s, a, Len(s))
           E == Chars \ C
<1>1. /\ x \in Seq(Chars) /\ Len(x) = Len(s) + 1 - a
      /\ \A i \in 1 .. Len(s) + 1 - a : x[i] = s[a + i - 1]
      /\ StringAt(mem, a, x)
  BY TailIs
<1> HIDE DEF x
<1>2. \A i \in 1..Len(x) : x[i] \in C <=> x[i] \notin E
  BY <1>1, ElementOfSeq
<1> HIDE DEF E
<1>3. PICK k \in Nat : First(x, E, k)
  BY <1>1, FirstIs
<1>4. FirstFrom(s, E, a, a + (k - 1))
  BY <1>1, <1>3, FirstInTail
<1>5. a \in Int
  OBVIOUS
<1>6. Strspn(mem, a, C) = k - 1
  BY <1>1, <1>2, <1>3, <1>5, StrspnIs
<1> QED
  BY <1>4, <1>6, Zenon DEF E

(* The pieces a splitter returns: strsep all of them, strtok those that are not empty. *)
Wanted(s, by) ==
  IF by = "strsep" THEN Pieces(s, Delimiters) ELSE {x \in Pieces(s, Delimiters) : x[2] # <<>>}

LEMMA PiecesAre ==
  ASSUME NEW s
  PROVE  \A x : x \in Pieces(s, Delimiters) <=>
           \E a, b \in 1 .. Len(s) + 1 :
             a <= b /\ Piece(s, Delimiters, a, b) /\ x = <<a, SubSeq(s, a, b - 1)>>
<1> DEFINE P == {y \in (1 .. Len(s) + 1) \X (1 .. Len(s) + 1) :
                   y[1] <= y[2] /\ Piece(s, Delimiters, y[1], y[2])}
           f(y) == <<y[1], SubSeq(s, y[1], y[2] - 1)>>
<1>1. Pieces(s, Delimiters) = {f(y) : y \in P}
  BY Zenon DEF Pieces
<1> HIDE DEF P, f
<1>2. \A a, b \in 1 .. Len(s) + 1 : f(<<a, b>>) = <<a, SubSeq(s, a, b - 1)>>
  BY DEF f
<1>3. ASSUME NEW a \in 1 .. Len(s) + 1, NEW b \in 1 .. Len(s) + 1, a <= b, Piece(s, Delimiters, a, b)
      PROVE  <<a, b>> \in P
  BY <1>3 DEF P
<1>4. ASSUME NEW y \in P
      PROVE  \E a, b \in 1 .. Len(s) + 1 : y = <<a, b>> /\ a <= b /\ Piece(s, Delimiters, a, b)
  <2>1. y \in (1 .. Len(s) + 1) \X (1 .. Len(s) + 1) /\ y[1] <= y[2] /\ Piece(s, Delimiters, y[1], y[2])
    BY Zenon DEF P
  <2>2. y = <<y[1], y[2]>> /\ y[1] \in 1 .. Len(s) + 1 /\ y[2] \in 1 .. Len(s) + 1
    BY <2>1
  <2> QED
    BY <2>1, <2>2, Zenon
<1> DEFINE n == Len(s) + 1
<1>5. ASSUME NEW x, x \in Pieces(s, Delimiters)
      PROVE  \E a, b \in 1..n : a <= b /\ Piece(s, Delimiters, a, b) /\ x = <<a, SubSeq(s, a, b - 1)>>
  <2>1. PICK y \in P : x = f(y)
    BY <1>1, <1>5, Zenon
  <2>2. PICK a, b \in 1..n : y = <<a, b>> /\ a <= b /\ Piece(s, Delimiters, a, b)
    BY <1>4, Zenon
  <2>3. x = <<a, SubSeq(s, a, b - 1)>>
    BY <1>2, <2>1, <2>2, Zenon
  <2> QED
    BY <2>2, <2>3, Zenon
<1>6. ASSUME NEW a \in 1..n, NEW b \in 1..n, a <= b, Piece(s, Delimiters, a, b)
      PROVE  <<a, SubSeq(s, a, b - 1)>> \in Pieces(s, Delimiters)
  <2>1. <<a, b>> \in P
    BY <1>3, <1>6, Zenon
  <2>2. f(<<a, b>>) = <<a, SubSeq(s, a, b - 1)>>
    BY <1>2, Zenon
  <2> QED
    BY <1>1, <2>1, <2>2, Zenon
<1> QED
  BY <1>5, <1>6, Zenon

LEMMA PieceEnds ==
  ASSUME NEW s, Len(s) \in Nat, NEW D, NEW a \in 1 .. Len(s) + 1,
         NEW b \in a .. Len(s) + 1, Piece(s, D, a, b), NEW c \in a .. Len(s) + 1, Piece(s, D, a, c)
  PROVE  b = c
<1>1. ASSUME NEW x \in a .. Len(s) + 1, NEW y \in a .. Len(s) + 1, Piece(s, D, a, x), Piece(s, D, a, y), x < y
      PROVE  FALSE
  <2>1. x \in a .. y - 1 /\ x # Len(s) + 1
    BY <1>1
  <2> QED
    BY <1>1, <2>1, Zenon DEF Piece
<1>2. b < c \/ c < b \/ b = c
  OBVIOUS
<1> QED
  BY <1>1, <1>2

(* What has been returned when the next search begins at r, and memory from there on. *)
Tokens == Nat \X Seq(Nat)
Taken(out) == {out[i] : i \in DOMAIN out}
SplitTo(s, by, mem, out, r) ==
  /\ r \in 1 .. Len(s) + 2
  /\ mem \in Seq(Nat) /\ Len(mem) >= Len(s) + 1
  /\ r <= Len(s) + 1 => (r = 1 \/ s[r - 1] \in Delimiters) /\ From(mem, s, r)
  /\ out \in Seq(Tokens)
  /\ Taken(out) = {x \in Wanted(s, by) : x[1] < r}
  /\ \A i, j \in DOMAIN out : i < j => out[i][1] < out[j][1]

(* One more piece, from b to e - 1, with nothing wanted between r and b. *)
NextPiece(s, by, r, b, e) ==
  /\ r <= Len(s) + 1 /\ b \in r .. Len(s) + 1
  /\ by = "strsep" => b = r
  /\ by # "strsep" => (\A j \in r .. b - 1 : s[j] \in Delimiters) /\ b < e
  /\ FirstFrom(s, Delimiters, b, e)

LEMMA NextStarts ==
  ASSUME NEW s \in Seq(Chars), NEW by, NEW mem, NEW out, NEW r, SplitTo(s, by, mem, out, r),
         NEW b, NEW e, NextPiece(s, by, r, b, e)
  PROVE  /\ Piece(s, Delimiters, b, e) /\ r \in 1 .. Len(s) + 1
         /\ b \in 1 .. Len(s) + 1 /\ e \in b .. Len(s) + 1
<1>1. Len(s) \in Nat
  BY LenProperties
<1>2. /\ r \in 1 .. Len(s) + 2 /\ r <= Len(s) + 1 /\ b \in r .. Len(s) + 1
      /\ r = 1 \/ s[r - 1] \in Delimiters
  BY Zenon DEF SplitTo, NextPiece
<1>3. r \in 1 .. Len(s) + 1 /\ b \in 1 .. Len(s) + 1
  BY <1>1, <1>2
<1>4. /\ e \in b .. Len(s) + 1 /\ \A j \in b .. e - 1 : s[j] \notin Delimiters
      /\ e <= Len(s) => s[e] \in Delimiters
  BY Zenon DEF NextPiece, FirstFrom
<1>5. b = 1 \/ s[b - 1] \in Delimiters
  <2>1. CASE b = r
    BY <1>2, <2>1
  <2>2. CASE b # r
    <3>1. by # "strsep"
      BY <2>2, Zenon DEF NextPiece
    <3>2. b - 1 \in r .. b - 1
      BY <1>1, <1>2, <1>3, <2>2
    <3> QED
      BY <3>1, <3>2, Zenon DEF NextPiece
  <2> QED
    BY <2>1, <2>2
<1>6. e = Len(s) + 1 \/ s[e] \in Delimiters
  BY <1>1, <1>3, <1>4
<1> QED
  BY <1>3, <1>4, <1>5, <1>6, Zenon DEF Piece

Grow(W, r, T, n) == {x \in W : x[1] < n} = {x \in W : x[1] < r} \cup {T}

LEMMA WantedGrow ==
  ASSUME NEW s \in Seq(Chars), NEW by, NEW mem, NEW out, NEW r, SplitTo(s, by, mem, out, r),
         NEW b, NEW e, NextPiece(s, by, r, b, e)
  PROVE  Grow(Wanted(s, by), r, <<b, SubSeq(s, b, e - 1)>>, e + 1)
<1> DEFINE l == Len(s)
           T == SubSeq(s, b, e - 1)
           W == Wanted(s, by)
<1>1. l \in Nat
  BY LenProperties
<1>2. /\ Piece(s, Delimiters, b, e) /\ r \in 1 .. l + 1
      /\ b \in 1 .. l + 1 /\ e \in b .. l + 1
  BY NextStarts
<1>3. b \in r .. l + 1 /\ r <= e /\ b < e + 1 /\ b <= e /\ e \in 1 .. l + 1
  <2>1. b \in r .. l + 1
    BY Zenon DEF NextPiece
  <2> QED
    BY <1>1, <1>2, <2>1
<1>4. <<b, T>> \in W
  <2>1. <<b, T>> \in Pieces(s, Delimiters)
    BY <1>2, <1>3, PiecesAre, Zenon
  <2>2. by # "strsep" => <<b, T>>[2] # <<>>
    <3> SUFFICES ASSUME by # "strsep" PROVE T # <<>>
      OBVIOUS
    <3>1. b < e
      BY Zenon DEF NextPiece
    <3>2. b # e
      BY <1>2, <3>1
    <3> QED
      BY <1>2, <3>2, CutIs
  <2> HIDE DEF T
  <2> QED
    BY <2>1, <2>2, Zenon DEF Wanted
<1>5. \A x \in W : x \in Pieces(s, Delimiters) /\ (by # "strsep" => x[2] # <<>>)
  BY Zenon DEF Wanted
<1>6. ASSUME NEW x \in W, x[1] < e + 1, ~(x[1] < r) PROVE x = <<b, T>>
  <2>1. PICK a \in 1 .. l + 1, c \in 1 .. l + 1 :
          a <= c /\ Piece(s, Delimiters, a, c) /\ x = <<a, SubSeq(s, a, c - 1)>>
    BY <1>5, PiecesAre, Zenon
  <2>2. x[1] = a /\ x[2] = SubSeq(s, a, c - 1)
    BY <2>1
  <2>3. a < e + 1 /\ ~(a < r) /\ c \in a .. l + 1
    BY <1>1, <1>6, <2>1, <2>2
  <2>4. CASE a = b
    <3>1. c \in b .. Len(s) + 1 /\ Piece(s, Delimiters, b, c)
      BY <2>1, <2>3, <2>4
    <3>2. c = e
      BY <1>1, <1>2, <3>1, PieceEnds
    <3> QED
      BY <2>1, <2>4, <3>2
  <2>5. CASE a > b
    <3>1. a - 1 \in b .. e - 1 /\ a # 1
      BY <1>1, <1>2, <2>3, <2>5
    <3>2. s[a - 1] \notin Delimiters
      BY <1>2, <3>1, Zenon DEF Piece
    <3> QED
      BY <2>1, <3>1, <3>2, Zenon DEF Piece
  <2>6. CASE a < b
    <3>1. by # "strsep" /\ a \in r .. b - 1
      <4>1. b # r /\ a \in r .. b - 1
        BY <1>1, <1>2, <2>3, <2>6
      <4> QED
        BY <4>1, Zenon DEF NextPiece
    <3>2. s[a] \in Delimiters /\ x[2] # <<>>
      BY <1>5, <3>1, Zenon DEF NextPiece
    <3>3. a # c
      BY <2>2, <2>3, <3>2, CutIs
    <3>4. a \in a .. c - 1
      BY <1>1, <2>3, <3>3
    <3> QED
      BY <2>1, <3>2, <3>4, Zenon DEF Piece
  <2> QED
    BY <1>1, <1>2, <2>4, <2>5, <2>6
<1>7. \A x \in W : x[1] < r => x[1] < e + 1
  <2> SUFFICES ASSUME NEW x \in W, x[1] < r PROVE x[1] < e + 1
    OBVIOUS
  <2>1. PICK a \in 1 .. l + 1, c \in 1 .. l + 1 :
          a <= c /\ Piece(s, Delimiters, a, c) /\ x = <<a, SubSeq(s, a, c - 1)>>
    BY <1>5, PiecesAre, Zenon
  <2>2. x[1] = a
    BY <2>1
  <2> QED
    BY <1>1, <1>2, <1>3, <2>2
<1>8. <<b, T>>[1] = b
  OBVIOUS
<1> HIDE DEF W, T
<1>9. ASSUME NEW x PROVE (x \in W /\ x[1] < e + 1) <=> ((x \in W /\ x[1] < r) \/ x = <<b, T>>)
  BY <1>3, <1>4, <1>6, <1>7, <1>8, Zenon
<1>10. {x \in W : x[1] < e + 1} = {x \in W : x[1] < r} \cup {<<b, T>>}
  BY <1>9, Zenon
<1> QED
  BY <1>10, Zenon DEF Grow, W, T

(* Memory with a 0 behind the piece that ends at e. *)
Ended(s, mem, e) == IF e <= Len(s) THEN [mem EXCEPT ![e] = 0] ELSE mem

TokenBehind(s, mem, b, e, m) ==
  /\ m \in Seq(Nat) /\ Len(m) = Len(mem) /\ From(m, s, e + 1)
  /\ TextAt(m, b) = SubSeq(s, b, e - 1)

(* The piece that is returned reads as it should once a 0 is behind it. *)
LEMMA TokenReads ==
  ASSUME NEW s \in Seq(Chars), NEW mem \in Seq(Nat), Len(mem) >= Len(s) + 1,
         NEW b \in 1 .. Len(s) + 1, From(mem, s, b), NEW e, FirstFrom(s, Delimiters, b, e),
         NEW m, m = Ended(s, mem, e)
  PROVE  TokenBehind(s, mem, b, e, m)
<1> DEFINE l == Len(s)
           u == SubSeq(s, b, e - 1)
<1>1. l \in Nat /\ b \in 1 .. l + 1
  BY LenProperties
<1>2. e \in b .. l + 1
  BY Zenon DEF FirstFrom
<1>3. Len(mem) \in Nat /\ DOMAIN mem = 1..Len(mem) /\ Len(mem) >= l + 1
  BY LenProperties
<1>4. e \in 1..Len(mem) /\ e \in Int
  BY <1>1, <1>2, <1>3
<1>5. m \in Seq(Nat) /\ Len(m) = Len(mem)
  <2>1. CASE e <= l
    <3>1. m = [mem EXCEPT ![e] = 0]
      BY <2>1, Zenon DEF Ended
    <3> QED
      BY <1>4, <3>1, ExceptSeq
  <2>2. CASE ~(e <= l)
    BY <2>2 DEF Ended
  <2> QED
    BY <2>1, <2>2
<1>6. \A i \in 1..Len(mem) : m[i] = IF i = e /\ e <= l THEN 0 ELSE mem[i]
  <2>1. CASE e <= l
    <3>1. m = [mem EXCEPT ![e] = 0]
      BY <2>1, Zenon DEF Ended
    <3> QED
      BY <1>3, <2>1, <3>1
  <2>2. CASE ~(e <= l)
    BY <2>2 DEF Ended
  <2> QED
    BY <2>1, <2>2
<1>7. ASSUME NEW i \in b .. l + 1, i # e PROVE m[i] = Char(s, i)
  <2>1. i \in 1..Len(mem)
    BY <1>1, <1>3
  <2> QED
    BY <1>6, <1>7, <2>1, Zenon DEF From
<1>8. m[e] = 0
  <2>1. CASE e <= l
    BY <1>4, <1>6, <2>1
  <2>2. CASE ~(e <= l)
    <3>1. e \in b .. Len(s) + 1
      BY <1>2
    <3>2. mem[e] = 0
      BY <2>2, <3>1, Zenon DEF From, Char
    <3> QED
      BY <1>4, <1>6, <2>2, <3>2
  <2> QED
    BY <2>1, <2>2
<1>9. From(m, s, e + 1)
  <2>1. \A i \in e + 1 .. l + 1 : i \in b .. l + 1 /\ i # e
    BY <1>1, <1>2, <1>4
  <2> QED
    BY <1>7, <2>1, Zenon DEF From
<1>10. /\ u \in Seq(Chars) /\ Len(u) = e - b
       /\ \A i \in 1 .. e - b : u[i] = s[b + i - 1]
  BY <1>2, CutIs
<1> HIDE DEF u
<1>11. e - b \in Nat
  BY <1>1, <1>2
<1>12. ASSUME NEW i \in 0..Len(u) PROVE m[b + i] = Char(u, i + 1)
  <2>1. CASE i < e - b
    <3>1. /\ b + i \in b .. l + 1 /\ b + i # e /\ b + i <= l /\ i + 1 \in 1 .. e - b /\ i + 1 <= Len(u)
          /\ b + (i + 1) - 1 = b + i
      BY <1>1, <1>2, <1>10, <2>1
    <3>2. m[b + i] = Char(s, b + i)
      BY <1>7, <3>1
    <3> QED
      BY <1>10, <3>1, <3>2, Zenon DEF Char
  <2>2. CASE ~(i < e - b)
    <3>1. b + i = e /\ ~(i + 1 <= Len(u))
      BY <1>1, <1>2, <1>10, <2>2
    <3> QED
      BY <1>8, <3>1, Zenon DEF Char
  <2> QED
    BY <2>1, <2>2
<1>13. StringAt(m, b, u)
  BY <1>12, Zenon DEF StringAt
<1>14. Strlen(m, b) = e - b
  <2>1. b \in Int
    BY <1>1
  <2>2. Strlen(m, b) = Len(u)
    BY <1>10, <1>13, <2>1, StrlenIs
  <2> QED
    BY <1>10, <2>2
<1>15. TextAt(m, b) = u
  <2> DEFINE x == SubSeq(m, b, e - 1)
  <2>1. TextAt(m, b) = x
    <3>1. b + (e - b) - 1 = e - 1
      BY <1>1, <1>2
    <3> QED
      BY <1>14, <3>1, Zenon DEF TextAt
  <2>2. b \in 1 .. Len(m) + 1 /\ e \in b .. Len(m) + 1
    BY <1>1, <1>2, <1>3, <1>5
  <2>3. /\ x \in Seq(Nat) /\ Len(x) = e - b /\ \A i \in 1 .. e - b : x[i] = m[b + i - 1]
    <3>1. m \in Seq(Nat)
      BY <1>5
    <3> QED
      BY <2>2, <3>1, CutIs, SMTT(30)
  <2> HIDE DEF x
  <2>4. ASSUME NEW i \in 1 .. e - b PROVE x[i] = u[i]
    <3>1. i - 1 \in 0..Len(u) /\ b + i - 1 = b + (i - 1) /\ (i - 1) + 1 = i /\ i <= Len(u)
      BY <1>1, <1>2, <1>10
    <3>2. m[b + (i - 1)] = Char(u, i)
      BY <1>12, <3>1, Zenon
    <3> QED
      BY <2>3, <3>1, <3>2, Zenon DEF Char
  <2>5. u \in Seq(Nat)
    <3>1. Chars \subseteq Nat
      BY MemoryAssumption DEF Chars
    <3> QED
      BY <1>10, <3>1, SeqMonotonic
  <2>6. x = u
    BY <1>10, <2>3, <2>4, <2>5, SeqEqual
  <2> QED
    BY <2>1, <2>6, Zenon
<1> QED
  BY <1>5, <1>9, <1>15, Zenon DEF u, TokenBehind

LEMMA PieceTaken ==
  ASSUME NEW s \in Seq(Chars), NEW by, NEW mem, NEW out, NEW r, SplitTo(s, by, mem, out, r),
         NEW b, NEW e, NextPiece(s, by, r, b, e),
         NEW m, m = Ended(s, mem, e)
  PROVE  SplitTo(s, by, m, Append(out, <<b, TextAt(m, b)>>), e + 1)
<1> DEFINE l == Len(s)
           T == SubSeq(s, b, e - 1)
           x == <<b, TextAt(m, b)>>
           new == Append(out, x)
           n == Len(out)
<1>1. /\ mem \in Seq(Nat) /\ Len(mem) >= l + 1 /\ From(mem, s, r) /\ out \in Seq(Tokens)
      /\ Taken(out) = {y \in Wanted(s, by) : y[1] < r}
      /\ \A i, j \in DOMAIN out : i < j => out[i][1] < out[j][1]
  BY Zenon DEF SplitTo, NextPiece
<1>2. l \in Nat /\ r \in 1 .. l + 1 /\ b \in 1 .. l + 1 /\ e \in b .. l + 1 /\ b \in r .. l + 1
      /\ FirstFrom(s, Delimiters, b, e)
  <2>1. l \in Nat
    BY LenProperties
  <2>2. r \in 1 .. l + 1 /\ b \in 1 .. l + 1 /\ e \in b .. l + 1
    BY NextStarts
  <2>3. b \in r .. l + 1 /\ FirstFrom(s, Delimiters, b, e)
    BY Zenon DEF NextPiece
  <2> QED
    BY <2>1, <2>2, <2>3
<1>3. From(mem, s, b)
  <2>1. \A i \in b .. l + 1 : i \in r .. l + 1
    BY <1>2
  <2> QED
    BY <1>1, <2>1, Zenon DEF From
<1>4. m \in Seq(Nat) /\ Len(m) = Len(mem) /\ From(m, s, e + 1) /\ TextAt(m, b) = T
  <2>1. Len(mem) >= Len(s) + 1 /\ b \in 1 .. Len(s) + 1
    BY <1>1, <1>2
  <2>2. TokenBehind(s, mem, b, e, m)
    BY <1>1, <1>2, <1>3, <2>1, TokenReads
  <2> QED
    BY <2>2, Zenon DEF TokenBehind
<1>5. x \in Tokens /\ x[1] = b /\ b \in Nat
  <2>1. T \in Seq(Chars)
    BY <1>2, CutIs
  <2>2. Chars \subseteq Nat
    BY MemoryAssumption DEF Chars
  <2>3. T \in Seq(Nat)
    BY <2>1, <2>2, SeqMonotonic
  <2>4. b \in Nat
    BY <1>2
  <2> HIDE DEF T
  <2> QED
    BY <1>4, <2>3, <2>4 DEF Tokens
<1>6. x = <<b, T>>
  BY <1>4
<1> HIDE DEF x, T
<1>7. /\ new \in Seq(Tokens) /\ Len(new) = n + 1 /\ n \in Nat /\ DOMAIN out = 1..n
      /\ DOMAIN new = 1 .. n + 1
      /\ (\A i \in 1..n : new[i] = out[i]) /\ new[n + 1] = x
  <2>1. n \in Nat /\ DOMAIN out = 1..n
    BY <1>1, LenProperties
  <2>2. new \in Seq(Tokens) /\ Len(new) = n + 1 /\ (\A i \in 1..n : new[i] = out[i]) /\ new[n + 1] = x
    BY <1>1, <1>5, AppendProperties
  <2>3. DOMAIN new = 1 .. n + 1
    BY <2>2, LenProperties
  <2> QED
    BY <2>1, <2>2, <2>3
<1> HIDE DEF new, n
<1>8. \A i \in 1 .. n + 1 : (i \in 1..n \/ i = n + 1) /\ (i \in 1..n => i # n + 1)
  BY <1>7
<1>9. Taken(new) = Taken(out) \cup {x}
  <2>1. 1..n \subseteq 1 .. n + 1 /\ n + 1 \in 1 .. n + 1
    BY <1>7
  <2>2. ASSUME NEW y PROVE y \in Taken(new) <=> y \in Taken(out) \/ y = x
    <3>1. y \in Taken(new) <=> \E i \in 1 .. n + 1 : new[i] = y
      BY <1>7, Zenon DEF Taken
    <3>2. y \in Taken(out) <=> \E i \in 1..n : out[i] = y
      BY <1>7, Zenon DEF Taken
    <3> QED
      BY <1>7, <1>8, <2>1, <3>1, <3>2, Zenon
  <2> QED
    BY <2>2
<1>10. Taken(new) = {y \in Wanted(s, by) : y[1] < e + 1}
  <2>1. Grow(Wanted(s, by), r, <<b, T>>, e + 1)
    BY WantedGrow DEF T
  <2>2. {y \in Wanted(s, by) : y[1] < e + 1} = {y \in Wanted(s, by) : y[1] < r} \cup {<<b, T>>}
    BY <2>1, Zenon DEF Grow
  <2> QED
    BY <1>1, <1>6, <1>9, <2>2, Zenon
<1>11. ASSUME NEW i \in DOMAIN new, NEW j \in DOMAIN new, i < j PROVE new[i][1] < new[j][1]
  <2>1. i \in 1..n
    BY <1>7, <1>11
  <2>2. new[i] = out[i]
    BY <1>7, <2>1
  <2>3. CASE j \in 1..n
    BY <1>1, <1>7, <1>11, <2>1, <2>2, <2>3
  <2>4. CASE j = n + 1
    <3>1. out[i] \in Taken(out)
      BY <1>7, <2>1 DEF Taken
    <3>2. out[i][1] < r
      BY <1>1, <3>1
    <3>3. out[i] \in Tokens
      BY <1>1, <1>7, <2>1, ElementOfSeq
    <3>4. out[i][1] \in Nat
      BY <3>3 DEF Tokens
    <3>5. r <= b /\ r \in Int /\ b \in Int
      BY <1>2
    <3>6. out[i][1] < b
      BY <3>2, <3>4, <3>5
    <3> QED
      BY <1>5, <1>7, <2>2, <2>4, <3>6
  <2> QED
    BY <1>7, <1>8, <2>3, <2>4
<1>12. e + 1 \in 1 .. l + 2 /\ Len(m) >= l + 1
       /\ (e + 1 <= l + 1 => e + 1 = 1 \/ s[(e + 1) - 1] \in Delimiters)
  <2>1. e <= l => s[e] \in Delimiters
    BY <1>2, Zenon DEF FirstFrom
  <2> QED
    BY <1>1, <1>2, <1>4, <2>1
<1> QED
  BY <1>4, <1>7, <1>10, <1>11, <1>12, Zenon DEF SplitTo, new, x

(* strtok finds nothing but delimiters from r on. *)
LEMMA NothingLeft ==
  ASSUME NEW s \in Seq(Chars), NEW by, by # "strsep", NEW mem, NEW out, NEW r,
         SplitTo(s, by, mem, out, r), r <= Len(s) + 1, \A j \in r .. Len(s) : s[j] \in Delimiters
  PROVE  SplitTo(s, by, mem, out, Len(s) + 2)
<1> DEFINE l == Len(s)
           W == Wanted(s, by)
<1>1. l \in Nat /\ ~(l + 2 <= l + 1) /\ l + 2 \in 1 .. l + 2
  BY LenProperties
<1>2. r \in 1 .. l + 2
  BY Zenon DEF SplitTo
<1>3. \A x \in W : x \in Pieces(s, Delimiters) /\ x[2] # <<>>
  BY Zenon DEF Wanted
<1>4. ASSUME NEW x \in W PROVE x[1] < r /\ x[1] < l + 2
  <2>1. PICK a \in 1 .. l + 1, c \in 1 .. l + 1 :
          a <= c /\ Piece(s, Delimiters, a, c) /\ x = <<a, SubSeq(s, a, c - 1)>>
    BY <1>3, PiecesAre, Zenon
  <2>2. x[1] = a /\ x[2] = SubSeq(s, a, c - 1)
    BY <2>1
  <2>3. c \in a .. l + 1
    BY <1>1, <2>1
  <2>4. a # c
    BY <1>3, <2>2, <2>3, CutIs
  <2>5. a \in a .. c - 1 /\ a <= l
    BY <1>1, <2>3, <2>4
  <2>6. s[a] \notin Delimiters
    BY <2>1, <2>5, Zenon DEF Piece
  <2>7. a \notin r .. l
    BY <2>6
  <2> QED
    BY <1>1, <1>2, <2>2, <2>5, <2>7
<1>5. {x \in W : x[1] < l + 2} = {x \in W : x[1] < r}
  <2> HIDE DEF W
  <2> QED
    BY <1>4
<1> QED
  BY <1>1, <1>5, Zenon DEF SplitTo, W

(* The next search begins at h, or never if h is NULL. *)
Frontier(s, h) == IF h = NULL THEN Len(s) + 2 ELSE h

(* What a call answers goes on with the split. *)
Stepped(s, by, out, r) ==
  /\ r.rest \in 0 .. Len(s) + 1
  /\ r.token = NULL => r.rest = NULL
  /\ SplitTo(s, by, r.mem,
             IF r.token = NULL THEN out ELSE Append(out, <<r.token, TextAt(r.mem, r.token)>>),
             Frontier(s, r.rest))

(* The answer with the piece from b to e - 1. *)
LEMMA PieceAnswered ==
  ASSUME NEW s \in Seq(Chars), NEW by, NEW mem, NEW out, NEW h, SplitTo(s, by, mem, out, h),
         NEW b, NEW e, NextPiece(s, by, h, b, e),
         NEW r, r = [token |-> b, mem |-> Ended(s, mem, e), rest |-> IF e <= Len(s) THEN e + 1 ELSE NULL]
  PROVE  Stepped(s, by, out, r)
<1> DEFINE l == Len(s)
           m == Ended(s, mem, e)
<1>1. l \in Nat
  BY LenProperties
<1>2. h \in 1 .. l + 1 /\ b \in 1 .. l + 1 /\ e \in b .. l + 1
  BY NextStarts
<1>3. SplitTo(s, by, m, Append(out, <<b, TextAt(m, b)>>), e + 1)
  BY PieceTaken
<1> HIDE DEF m
<1>4. r.token = b /\ r.mem = m /\ r.rest = IF e <= l THEN e + 1 ELSE NULL
  BY Zenon DEF m
<1>5. b # NULL /\ r.rest \in 0 .. l + 1 /\ Frontier(s, r.rest) = e + 1
  BY <1>1, <1>2, <1>4 DEF Frontier, NULL
<1> QED
  BY <1>3, <1>4, <1>5, Zenon DEF Stepped

(* strsep goes on with the split. *)
LEMMA StrsepSteps ==
  ASSUME NEW s \in Seq(Chars), NEW mem, NEW out, NEW h \in 0 .. Len(s) + 1,
         SplitTo(s, "strsep", mem, out, Frontier(s, h))
  PROVE  Stepped(s, "strsep", out, Strsep(mem, h, Delimiters))
<1> DEFINE l == Len(s)
           r == Strsep(mem, h, Delimiters)
<1>1. l \in Nat
  BY LenProperties
<1>2. CASE h = NULL
  <2>1. r = [token |-> NULL, mem |-> mem, rest |-> NULL]
    BY <1>2, Zenon DEF Strsep
  <2>2. r.token = NULL /\ r.mem = mem /\ r.rest = NULL
    BY <2>1
  <2>3. NULL \in 0 .. l + 1
    BY <1>1 DEF NULL
  <2> HIDE DEF r
  <2> QED
    BY <1>2, <2>2, <2>3, Zenon DEF Stepped, r
<1>3. CASE h # NULL
  <2>1. h \in 1 .. l + 1
    BY <1>1, <1>3 DEF NULL
  <2>2. SplitTo(s, "strsep", mem, out, h)
    BY <1>3, Zenon DEF Frontier
  <2>3. h <= l + 1 /\ h \in h .. l + 1
    BY <1>1, <2>1
  <2>4. From(mem, s, h)
    BY <2>2, <2>3, Zenon DEF SplitTo
  <2>5. PICK e \in Nat : FirstFrom(s, Delimiters, h, e)
                        /\ Strpbrk(mem, h, Delimiters) = IF e <= l THEN e ELSE 0
    BY <2>1, <2>4, ScanFrom
  <2>6. NextPiece(s, "strsep", h, h, e)
    BY <2>3, <2>5, Zenon DEF NextPiece
  <2>7. e \in h .. l + 1 /\ e # NULL
    BY <1>1, <2>1, <2>5 DEF FirstFrom, NULL
  <2>8. r = [token |-> h, mem |-> Ended(s, mem, e), rest |-> IF e <= l THEN e + 1 ELSE NULL]
    <3>1. CASE e <= l
      <4>1. Strpbrk(mem, h, Delimiters) = e
        BY <2>5, <3>1, Zenon
      <4> QED
        BY <1>3, <2>7, <3>1, <4>1, Zenon DEF Strsep, Ended
    <3>2. CASE ~(e <= l)
      <4>1. Strpbrk(mem, h, Delimiters) = NULL
        BY <2>5, <3>2, Zenon DEF NULL
      <4> QED
        BY <1>3, <3>2, <4>1, Zenon DEF Strsep, Ended
    <3> QED
      BY <3>1, <3>2, Zenon
  <2> HIDE DEF r
  <2>9. Stepped(s, "strsep", out, r)
    BY <2>2, <2>6, <2>8, PieceAnswered
  <2> QED
    BY <2>9, Zenon DEF r
<1> QED
  BY <1>2, <1>3, Zenon

(* strtok goes on with the split, from its argument or from where it was. *)
LEMMA StrtokSteps ==
  ASSUME NEW s \in Seq(Chars), NEW mem, NEW out, NEW rest, NEW arg,
         NEW h \in 0 .. Len(s) + 1, h = (IF arg # NULL THEN arg ELSE rest),
         SplitTo(s, "strtok", mem, out, Frontier(s, h))
  PROVE  Stepped(s, "strtok", out, Strtok(mem, rest, arg, Delimiters))
<1> DEFINE l == Len(s)
           r == Strtok(mem, rest, arg, Delimiters)
<1>1. l \in Nat
  BY LenProperties
<1>2. CASE h = NULL
  <2>1. rest = NULL
    BY <1>2, Zenon
  <2>2. r = [token |-> NULL, mem |-> mem, rest |-> NULL]
    BY <1>2, <2>1, Zenon DEF Strtok
  <2>3. r.token = NULL /\ r.mem = mem /\ r.rest = NULL
    BY <2>2
  <2>4. NULL \in 0 .. l + 1
    BY <1>1 DEF NULL
  <2> HIDE DEF r
  <2> QED
    BY <1>2, <2>3, <2>4, Zenon DEF Stepped, r
<1>3. CASE h # NULL
  <2> DEFINE b == h + Strspn(mem, h, Delimiters)
  <2>1. h \in 1 .. l + 1
    BY <1>1, <1>3 DEF NULL
  <2>2. SplitTo(s, "strtok", mem, out, h)
    BY <1>3, Zenon DEF Frontier
  <2>3. h <= l + 1
    BY <1>1, <2>1
  <2>4. From(mem, s, h)
    BY <2>2, <2>3, Zenon DEF SplitTo
  <2>5. FirstFrom(s, Chars \ Delimiters, h, b)
    BY <2>1, <2>4, SkipFrom
  <2> HIDE DEF b
  <2>6. /\ b \in h .. l + 1 /\ b \in 1 .. l + 1
        /\ (\A j \in h .. b - 1 : s[j] \in Delimiters)
        /\ b <= l => s[b] \in Chars \ Delimiters
    <3>1. /\ b \in h .. l + 1 /\ (\A j \in h .. b - 1 : s[j] \notin Chars \ Delimiters)
          /\ b <= l => s[b] \in Chars \ Delimiters
      BY <2>5, Zenon DEF FirstFrom
    <3>2. b \in 1 .. l + 1 /\ \A j \in h .. b - 1 : j \in 1..l
      BY <1>1, <2>1, <3>1
    <3>3. \A j \in 1..l : s[j] \in Chars
      BY ElementOfSeq
    <3> QED
      BY <3>1, <3>2, <3>3, Zenon
  <2>7. mem[b] = Char(s, b)
    BY <2>4, <2>6, Zenon DEF From
  <2>8. CASE b <= l
    <3>1. mem[b] # 0
      <4>1. 0 \notin Chars
        BY DEF Chars
      <4> QED
        BY <2>6, <2>7, <2>8, <4>1, Zenon DEF Char
    <3>2. From(mem, s, b)
      <4>1. \A i \in b .. l + 1 : i \in h .. l + 1
        BY <1>1, <2>1, <2>6
      <4> QED
        BY <2>4, <4>1, Zenon DEF From
    <3>3. PICK e \in Nat : FirstFrom(s, Delimiters, b, e)
                          /\ Strpbrk(mem, b, Delimiters) = IF e <= l THEN e ELSE 0
      BY <2>6, <3>2, ScanFrom
    <3>4. e \in b .. l + 1 /\ e # NULL /\ b < e
      <4>1. e \in b .. l + 1 /\ (e <= l => s[e] \in Delimiters)
        BY <3>3, Zenon DEF FirstFrom
      <4>2. b # e
        BY <2>6, <2>8, <4>1
      <4> QED
        BY <1>1, <2>6, <4>1, <4>2 DEF NULL
    <3>5. NextPiece(s, "strtok", h, b, e)
      <4>1. "strtok" # "strsep"
        OBVIOUS
      <4> QED
        BY <2>3, <2>6, <3>3, <3>4, <4>1, Zenon DEF NextPiece
    <3>6. r = [token |-> b, mem |-> Ended(s, mem, e), rest |-> IF e <= l THEN e + 1 ELSE NULL]
      <4>1. CASE e <= l
        <5>1. Strpbrk(mem, b, Delimiters) = e
          BY <3>3, <4>1, Zenon
        <5> QED
          BY <1>3, <3>1, <3>4, <4>1, <5>1, Zenon DEF Strtok, Ended, b
      <4>2. CASE ~(e <= l)
        <5>1. Strpbrk(mem, b, Delimiters) = NULL
          BY <3>3, <4>2, Zenon DEF NULL
        <5> QED
          BY <1>3, <3>1, <4>2, <5>1, Zenon DEF Strtok, Ended, b
      <4> QED
        BY <4>1, <4>2, Zenon
    <3> HIDE DEF r
    <3>7. Stepped(s, "strtok", out, r)
      BY <2>2, <3>5, <3>6, PieceAnswered
    <3> QED
      BY <3>7, Zenon DEF r
  <2>9. CASE ~(b <= l)
    <3>1. mem[b] = 0
      BY <2>7, <2>9, Zenon DEF Char
    <3>2. r = [token |-> NULL, mem |-> mem, rest |-> NULL]
      BY <1>3, <3>1, Zenon DEF Strtok, b
    <3>3. r.token = NULL /\ r.mem = mem /\ r.rest = NULL
      BY <3>2
    <3>4. NULL \in 0 .. l + 1
      BY <1>1 DEF NULL
    <3>5. \A j \in h..l : s[j] \in Delimiters
      <4>1. h .. b - 1 = h..l
        BY <1>1, <2>6, <2>9
      <4> QED
        BY <2>6, <4>1, Zenon
    <3>6. SplitTo(s, "strtok", mem, out, l + 2)
      <4>1. "strtok" # "strsep"
        OBVIOUS
      <4> QED
        BY <2>2, <2>3, <3>5, <4>1, NothingLeft
    <3> HIDE DEF r
    <3>7. Stepped(s, "strtok", out, r)
      BY <3>3, <3>4, <3>6, Zenon DEF Stepped, Frontier
    <3> QED
      BY <3>7, Zenon DEF r
  <2> QED
    BY <2>8, <2>9, Zenon
<1> QED
  BY <1>2, <1>3, Zenon

(* A call under way has returned what was wanted of the string up to where it goes on. *)
Place(x) == IF x.by = "strtok" /\ x.arg # NULL THEN x.arg ELSE x.rest
GoesOn(x) ==
  /\ x.s \in Seq(Chars) /\ x.by \in {"strtok", "strsep"}
  /\ Place(x) \in 0 .. Len(x.s) + 1
  /\ SplitTo(x.s, x.by, x.mem, x.out, Frontier(x.s, Place(x)))
  /\ x.done => Place(x) = NULL

LEMMA SplitsFrom ==
  ASSUME Tokenize
  PROVE  GoesOn(probe')
<1>1. PICK s \in Texts(Symbols \cup Delimiters, MaxLine), f \in {"strtok", "strsep"} :
        probe' = [of |-> "split", s |-> s, by |-> f, mem |-> Laid(s, <<>>), out |-> <<>>, done |-> FALSE,
                  arg |-> 1, rest |-> IF f = "strtok" THEN NULL ELSE 1]
  BY Zenon DEF Tokenize
<1> DEFINE mem == Laid(s, <<>>)
<1>2. s \in Seq(Chars) /\ Len(s) \in Nat
  <2>1. Symbols \cup Delimiters \subseteq Chars /\ MaxLine \in Nat
    BY SymbolsAre
  <2>2. s \in Seq(Symbols \cup Delimiters) /\ Len(s) \in Nat
    BY <1>1, <2>1, TextIs
  <2> QED
    BY <2>1, <2>2, SeqMonotonic
<1>3. StringAt(mem, 1, s) /\ mem \in Seq(Nat) /\ Len(mem) = 2 * Len(s) + 5
  <2> DEFINE none == <<>>
  <2>1. none \in Seq(Chars) /\ Len(none) = 0
    BY EmptySeq
  <2> HIDE DEF none
  <2>2. /\ StringAt(Laid(s, none), 1, s) /\ Laid(s, none) \in Seq(Nat)
        /\ Len(Laid(s, none)) = 2 * (Len(s) + Len(none)) + 5
    BY <1>2, <2>1, LaidHolds
  <2>3. 2 * (Len(s) + Len(none)) + 5 = 2 * Len(s) + 5
    BY <1>2, <2>1
  <2> QED
    BY <2>2, <2>3 DEF none
<1> HIDE DEF mem
<1>4. From(mem, s, 1)
  <2> SUFFICES ASSUME NEW i \in 1 .. Len(s) + 1 PROVE mem[i] = Char(s, i)
    BY Zenon DEF From
  <2>1. i - 1 \in 0..Len(s) /\ 1 + (i - 1) = i /\ (i - 1) + 1 = i
    BY <1>2
  <2>2. mem[1 + (i - 1)] = Char(s, (i - 1) + 1)
    BY <1>3, <2>1, Zenon DEF StringAt
  <2> QED
    BY <2>1, <2>2, Zenon
<1>5. SplitTo(s, f, mem, <<>>, 1)
  <2>1. 1 \in 1 .. Len(s) + 2 /\ Len(mem) >= Len(s) + 1
    BY <1>2, <1>3
  <2>2. <<>> \in Seq(Tokens) /\ DOMAIN <<>> = {}
    OBVIOUS
  <2>3. Taken(<<>>) = {}
    BY <2>2 DEF Taken
  <2>4. \A x \in Wanted(s, f) : ~(x[1] < 1)
    <3> SUFFICES ASSUME NEW x \in Wanted(s, f) PROVE ~(x[1] < 1)
      OBVIOUS
    <3>1. x \in Pieces(s, Delimiters)
      BY Zenon DEF Wanted
    <3>2. PICK a, b \in 1 .. Len(s) + 1 : x = <<a, SubSeq(s, a, b - 1)>>
      BY <3>1, PiecesAre, Zenon
    <3>3. x[1] = a
      BY <3>2
    <3> QED
      BY <1>2, <3>3
  <2>5. Taken(<<>>) = {x \in Wanted(s, f) : x[1] < 1}
    BY <2>3, <2>4, Zenon
  <2> QED
    BY <1>3, <1>4, <2>1, <2>2, <2>5, Zenon DEF SplitTo
<1>6. /\ probe'.s = s /\ probe'.by = f /\ probe'.mem = mem /\ probe'.out = <<>> /\ probe'.done = FALSE
      /\ probe'.arg = 1 /\ probe'.rest = IF f = "strtok" THEN NULL ELSE 1
  BY <1>1, Zenon DEF mem
<1>7. 1 # NULL /\ 1 \in 0 .. Len(s) + 1
  BY <1>2 DEF NULL
<1>8. Place(probe') = 1
  BY <1>6, <1>7, Zenon DEF Place
<1>9. Frontier(s, 1) = 1
  BY <1>7, Zenon DEF Frontier
<1> QED
  BY <1>2, <1>5, <1>6, <1>7, <1>8, <1>9, Zenon DEF GoesOn

LEMMA SplitsOn ==
  ASSUME GoesOn(probe), AskToken
  PROVE  GoesOn(probe')
<1> DEFINE r == NextToken
           s == probe.s
           by == probe.by
           out == IF r.token = NULL THEN probe.out
                  ELSE Append(probe.out, <<r.token, TextAt(r.mem, r.token)>>)
<1>1. /\ s \in Seq(Chars) /\ by \in {"strtok", "strsep"} /\ Place(probe) \in 0 .. Len(s) + 1
      /\ SplitTo(s, by, probe.mem, probe.out, Frontier(s, Place(probe)))
  BY Zenon DEF GoesOn
<1>2. Stepped(s, by, probe.out, r)
  <2>1. CASE by = "strtok"
    <3>1. Place(probe) = IF probe.arg # NULL THEN probe.arg ELSE probe.rest
      BY <2>1, Zenon DEF Place
    <3>2. r = Strtok(probe.mem, probe.rest, probe.arg, Delimiters)
      BY <2>1, Zenon DEF NextToken
    <3> QED
      BY <1>1, <2>1, <3>1, <3>2, StrtokSteps
  <2>2. CASE by = "strsep"
    <3>1. Place(probe) = probe.rest
      BY <2>2 DEF Place
    <3>2. r = Strsep(probe.mem, probe.rest, Delimiters)
      BY <2>2 DEF NextToken
    <3> QED
      BY <1>1, <2>2, <3>1, <3>2, StrsepSteps
  <2> QED
    BY <1>1, <2>1, <2>2, Zenon
<1>3. probe' = [of |-> "split", s |-> s, by |-> by, mem |-> r.mem, arg |-> NULL,
                rest |-> r.rest, done |-> r.token = NULL, out |-> out]
  BY Zenon DEF AskToken
<1> HIDE DEF r, out
<1>4. /\ probe'.s = s /\ probe'.by = by /\ probe'.mem = r.mem /\ probe'.arg = NULL
      /\ probe'.rest = r.rest /\ probe'.done = (r.token = NULL) /\ probe'.out = out
  BY <1>3, Zenon
<1>5. Place(probe') = r.rest
  BY <1>4, Zenon DEF Place
<1>6. /\ r.rest \in 0 .. Len(s) + 1 /\ (r.token = NULL => r.rest = NULL)
      /\ SplitTo(s, by, r.mem, out, Frontier(s, r.rest))
  BY <1>2, Zenon DEF Stepped, out
<1> HIDE DEF s, by
<1> QED
  BY <1>1, <1>4, <1>5, <1>6, Zenon DEF GoesOn

SplitsRight == probe.of = "split" => GoesOn(probe)

LEMMA AlwaysSplitting == CallsSpec => []SplitsRight
<1>1. (\E r \in {"wide", "move", "decimal", "compare", "find", "split", "string"} : Ready(r)) => SplitsRight
  BY DEF Ready, SplitsRight
<1>2. SplitsRight /\ [Calls]_probe => SplitsRight'
  <2> SUFFICES ASSUME SplitsRight, [Calls]_probe PROVE SplitsRight'
    OBVIOUS
  <2>1. CASE DivideWide
    BY <2>1 DEF DivideWide, SplitsRight
  <2>2. CASE Move
    BY <2>2 DEF Move, SplitsRight
  <2>3. CASE Show
    BY <2>3 DEF Show, SplitsRight
  <2>4. CASE Compare
    BY <2>4 DEF Compare, SplitsRight
  <2>5. CASE Find
    BY <2>5 DEF Find, SplitsRight
  <2>6. CASE Tokenize
    BY <2>6, SplitsFrom, Zenon DEF SplitsRight
  <2>7. CASE probe.of = "split" /\ AskToken
    <3>1. GoesOn(probe)
      BY <2>7, Zenon DEF SplitsRight
    <3> QED
      BY <2>7, <3>1, SplitsOn, Zenon DEF SplitsRight
  <2>8. CASE Describe
    BY <2>8 DEF Describe, SplitsRight
  <2>9. CASE UNCHANGED probe
    BY <2>9 DEF SplitsRight
  <2> QED
    BY <2>1, <2>2, <2>3, <2>4, <2>5, <2>6, <2>7, <2>8, <2>9, Zenon DEF Calls
<1> QED
  BY <1>1, <1>2, PTL DEF CallsSpec

(* A string that has been split has given strsep all its pieces and strtok those that are not
   empty, each once and in order, for every string and every set of delimiters. *)
THEOREM TokensAlwaysExact == CallsSpec => []TokensExact
<1>1. SplitsRight => TokensExact
  <2> DEFINE s == probe.s
             by == probe.by
             out == probe.out
  <2> SUFFICES ASSUME SplitsRight, probe.of = "split", probe.done
               PROVE  /\ Taken(out) = Wanted(s, by)
                      /\ \A i, j \in DOMAIN out : i < j => out[i][1] < out[j][1]
    BY Zenon DEF TokensExact, Taken, Wanted
  <2>1. s \in Seq(Chars) /\ SplitTo(s, by, probe.mem, out, Len(s) + 2)
    BY Zenon DEF SplitsRight, GoesOn, Frontier
  <2> HIDE DEF s, by, out
  <2>2. /\ Taken(out) = {x \in Wanted(s, by) : x[1] < Len(s) + 2}
        /\ \A i, j \in DOMAIN out : i < j => out[i][1] < out[j][1]
    BY <2>1, Zenon DEF SplitTo
  <2>3. \A x \in Wanted(s, by) : x[1] < Len(s) + 2
    <3> SUFFICES ASSUME NEW x \in Wanted(s, by) PROVE x[1] < Len(s) + 2
      OBVIOUS
    <3>1. x \in Pieces(s, Delimiters)
      BY Zenon DEF Wanted
    <3>2. PICK a, b \in 1 .. Len(s) + 1 : x = <<a, SubSeq(s, a, b - 1)>>
      BY <3>1, PiecesAre, Zenon
    <3>3. x[1] = a /\ Len(s) \in Nat
      BY <2>1, <3>2, LenProperties
    <3> QED
      BY <3>3
  <2> QED
    BY <2>2, <2>3, Zenon
<1> QED
  BY <1>1, AlwaysSplitting, PTL
=============================================================================
