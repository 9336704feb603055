------------------------- MODULE ConfigParserProofs -------------------------
(***************************************************************************)
(* Theorems about ConfigParser, for every number of interfaces, endpoints  *)
(* and descriptors, and every device that keeps the rules.                 *)
(***************************************************************************)
EXTENDS ConfigParser, SequenceTheorems, TLAPS

USE ParserAssumption

-----------------------------------------------------------------------------
(* What a descriptor does to the device and to the table.                  *)

Bare(k) == [nep |-> k, eps |-> <<>>]

(* An interface is opened at the end of both. *)
Opened(n, k) ==
  /\ n \in Numbers /\ k \in 0..MaxEp /\ curr' = n /\ Len(dev) < nif
  /\ dev' \in Seq(Interfaces) /\ Len(dev') = Len(dev) + 1
  /\ \A i \in 1..Len(dev) : dev'[i] = dev[i]
  /\ dev'[Len(dev) + 1] = [num |-> n, alts |-> <<Bare(k)>>]
  /\ ifs' \in Seq(Entries) /\ Len(ifs') = Len(ifs) + 1
  /\ \A i \in 1..Len(ifs) : ifs'[i] = ifs[i]
  /\ ifs'[Len(ifs) + 1] = FirstSetting(n, k)

(* The last interface gets one more setting. *)
Added(k) ==
  /\ dev # <<>> /\ k \in 0..MaxEp /\ curr' = curr
  /\ dev' \in Seq(Interfaces) /\ Len(dev') = Len(dev)
  /\ \A i \in 1 .. Len(dev) - 1 : dev'[i] = dev[i]
  /\ LastOf(dev)'.num = LastOf(dev).num
  /\ Len(LastOf(dev)'.alts) = Len(LastOf(dev).alts) + 1
  /\ \A a \in 1..Len(LastOf(dev).alts) : LastOf(dev)'.alts[a] = LastOf(dev).alts[a]
  /\ ifs' \in Seq(Entries) /\ Len(ifs') = Len(ifs)
  /\ \A i \in 1 .. Len(ifs) - 1 : ifs'[i] = ifs[i]
  /\ ifs'[Len(ifs)] = CountSetting(ifs[Len(ifs)])

(* The last setting of the last interface gets an endpoint. *)
Filled(e) ==
  /\ dev # <<>> /\ e \in Endpoints /\ curr' = curr /\ Due > 0 /\ Free(e)
  /\ dev' \in Seq(Interfaces) /\ Len(dev') = Len(dev)
  /\ \A i \in 1 .. Len(dev) - 1 : dev'[i] = dev[i]
  /\ LastOf(dev)'.num = LastOf(dev).num
  /\ Len(LastOf(dev)'.alts) = Len(LastOf(dev).alts)
  /\ \A a \in 1 .. Len(LastOf(dev).alts) - 1 : LastOf(dev)'.alts[a] = LastOf(dev).alts[a]
  /\ LastOf(LastOf(dev).alts)' = [Setting EXCEPT !.eps = Append(@, e)]
  /\ ifs' \in Seq(Entries) /\ Len(ifs') = Len(ifs)
  /\ \A i \in 1 .. Len(ifs) - 1 : ifs'[i] = ifs[i]
  /\ ifs'[Len(ifs)] = [ifs[Len(ifs)] EXCEPT !.eps = Append(@, e)]

LEMMA NonEmpty ==
  ASSUME NEW S, NEW s \in Seq(S), s # <<>>
  PROVE  Len(s) \in Nat \ {0} /\ LastOf(s) \in S
BY EmptySeq, LenProperties, ElementOfSeq DEF LastOf

LEMMA BareType ==
  ASSUME NEW k \in 0..MaxEp
  PROVE  Bare(k) \in Settings /\ Bare(k).nep = k /\ Bare(k).eps = <<>>
BY EmptySeq DEF Bare, Settings

LEMMA InterfaceType ==
  ASSUME NEW x \in Interfaces
  PROVE  x.num \in Numbers /\ x.alts \in Seq(Settings) /\ Len(x.alts) \in Nat
BY LenProperties DEF Interfaces

LEMMA SettingType ==
  ASSUME NEW s \in Settings
  PROVE  s.nep \in 0..MaxEp /\ s.eps \in Seq(Endpoints) /\ Len(s.eps) \in Nat
BY LenProperties DEF Settings

LEMMA OpenDevice ==
  ASSUME TypeOK, NEW n \in Numbers, NEW k \in 0..MaxEp, NewInterface(n, k)
  PROVE  /\ dev' \in Seq(Interfaces) /\ Len(dev') = Len(dev) + 1
         /\ \A i \in 1..Len(dev) : dev'[i] = dev[i]
         /\ dev'[Len(dev) + 1] = [num |-> n, alts |-> <<Bare(k)>>]
<1>1. <<Bare(k)>> \in Seq(Settings)
  BY BareType
<1>2. [num |-> n, alts |-> <<Bare(k)>>] \in Interfaces
  BY <1>1 DEF Interfaces
<1>3. dev' = Append(dev, [num |-> n, alts |-> <<Bare(k)>>])
  BY DEF NewInterface, Bare
<1>4. dev \in Seq(Interfaces)
  BY DEF TypeOK
<1> QED
  BY <1>2, <1>3, <1>4, AppendProperties

LEMMA AddDevice ==
  ASSUME TypeOK, NEW n \in Numbers, NEW k \in 0..MaxEp, NewSetting(n, k)
  PROVE  /\ dev # <<>> /\ dev' \in Seq(Interfaces) /\ Len(dev') = Len(dev)
         /\ \A i \in 1 .. Len(dev) - 1 : dev'[i] = dev[i]
         /\ LastOf(dev)'.num = LastOf(dev).num
         /\ Len(LastOf(dev)'.alts) = Len(LastOf(dev).alts) + 1
         /\ \A a \in 1..Len(LastOf(dev).alts) : LastOf(dev)'.alts[a] = LastOf(dev).alts[a]
<1> DEFINE I == LastOf(dev)
           alts == Append(I.alts, Bare(k))
           J == [I EXCEPT !.alts = alts]
<1>1. dev \in Seq(Interfaces) /\ dev # <<>> /\ Len(dev) \in Nat \ {0} /\ I \in Interfaces
  BY NonEmpty DEF TypeOK, NewSetting
<1>2. /\ alts \in Seq(Settings) /\ Len(alts) = Len(I.alts) + 1
      /\ \A a \in 1..Len(I.alts) : alts[a] = I.alts[a]
  BY <1>1, InterfaceType, BareType, AppendProperties
<1>3. J \in Interfaces /\ J.num = I.num /\ J.alts = alts
  BY <1>1, <1>2 DEF Interfaces
<1>4. dev' = [dev EXCEPT ![Len(dev)] = J]
  BY <1>1 DEF NewSetting, Bare, LastOf
<1>5. /\ dev' \in Seq(Interfaces) /\ Len(dev') = Len(dev)
      /\ \A i \in 1..Len(dev) : dev'[i] = IF i = Len(dev) THEN J ELSE dev[i]
  BY <1>1, <1>3, <1>4, ExceptSeq
<1>6. LastOf(dev)' = J
  <2>1. Len(dev) \in 1..Len(dev)
    BY <1>1
  <2>2. dev'[Len(dev)] = J
    BY <1>5, <2>1
  <2> QED
    BY <1>5, <2>2, Zenon DEF LastOf
<1> QED
  BY <1>1, <1>2, <1>3, <1>5, <1>6

LEMMA FillDevice ==
  ASSUME TypeOK, NEW e \in Endpoints, NewEndpoint(e),
         \A i \in 1..Len(dev) : Len(dev[i].alts) > 0
  PROVE  /\ dev # <<>> /\ dev' \in Seq(Interfaces) /\ Len(dev') = Len(dev)
         /\ \A i \in 1 .. Len(dev) - 1 : dev'[i] = dev[i]
         /\ LastOf(dev)'.num = LastOf(dev).num
         /\ Len(LastOf(dev)'.alts) = Len(LastOf(dev).alts)
         /\ \A a \in 1 .. Len(LastOf(dev).alts) - 1 :
              LastOf(dev)'.alts[a] = LastOf(dev).alts[a]
         /\ LastOf(LastOf(dev).alts)' = [Setting EXCEPT !.eps = Append(@, e)]
<1> DEFINE I == LastOf(dev)
           A == Len(I.alts)
           T == [Setting EXCEPT !.eps = Append(@, e)]
           alts == [I.alts EXCEPT ![A] = T]
           J == [I EXCEPT !.alts = alts]
<1>1. dev # <<>>
  BY DEF NewEndpoint, Due
<1>2. /\ dev \in Seq(Interfaces) /\ Len(dev) \in Nat \ {0} /\ I \in Interfaces
      /\ I = dev[Len(dev)]
  BY <1>1, NonEmpty DEF TypeOK, LastOf
<1>3. I.alts \in Seq(Settings) /\ A \in Nat \ {0} /\ Setting = I.alts[A] /\ Setting \in Settings
  <2>1. A > 0
    BY <1>2
  <2> QED
    BY <1>2, <2>1, InterfaceType, ElementOfSeq DEF Setting, LastOf
<1>4. T \in Settings
  BY <1>3, SettingType, AppendProperties DEF Settings
<1>5. /\ alts \in Seq(Settings) /\ Len(alts) = A
      /\ \A a \in 1..A : alts[a] = IF a = A THEN T ELSE I.alts[a]
  BY <1>3, <1>4, ExceptSeq
<1>6. J \in Interfaces /\ J.num = I.num /\ J.alts = alts
  BY <1>2, <1>5 DEF Interfaces
<1>7. dev' = [dev EXCEPT ![Len(dev)] = J]
  BY <1>2 DEF NewEndpoint, Setting, LastOf
<1>8. /\ dev' \in Seq(Interfaces) /\ Len(dev') = Len(dev)
      /\ \A i \in 1..Len(dev) : dev'[i] = IF i = Len(dev) THEN J ELSE dev[i]
  BY <1>2, <1>6, <1>7, ExceptSeq
<1>9. LastOf(dev)' = J
  <2>1. Len(dev) \in 1..Len(dev)
    BY <1>2
  <2>2. dev'[Len(dev)] = J
    BY <1>8, <2>1
  <2> QED
    BY <1>8, <2>2, Zenon DEF LastOf
<1>10. LastOf(LastOf(dev).alts)' = T
  <2>1. A \in 1..A
    BY <1>3
  <2>2. alts[A] = T /\ Len(alts) = A
    BY <1>5, <2>1
  <2>3. LastOf(dev)'.alts = alts
    BY <1>6, <1>9
  <2>4. LastOf(LastOf(dev).alts)' = LastOf(dev)'.alts[Len(LastOf(dev)'.alts)]
    BY Zenon DEF LastOf
  <2> QED
    BY <2>2, <2>3, <2>4, Zenon
<1>11. \A i \in 1 .. Len(dev) - 1 : dev'[i] = dev[i]
  BY <1>2, <1>8
<1>12. LastOf(dev)'.num = LastOf(dev).num /\ Len(LastOf(dev)'.alts) = Len(LastOf(dev).alts)
  BY <1>5, <1>6, <1>9
<1>13. \A a \in 1 .. Len(LastOf(dev).alts) - 1 : LastOf(dev)'.alts[a] = LastOf(dev).alts[a]
  <2>1. \A a \in 1 .. A - 1 : alts[a] = I.alts[a]
    BY <1>3, <1>5
  <2>2. LastOf(dev)'.alts = alts
    BY <1>6, <1>9
  <2> HIDE DEF alts
  <2> QED
    BY <2>1, <2>2
<1> QED
  BY <1>1, <1>8, <1>10, <1>11, <1>12, <1>13, Zenon

LEMMA OpenTable ==
  ASSUME TypeOK, NEW n \in Numbers, NEW k \in 0..MaxEp, MaxDesc > 0,
         ifs' = Append(ifs, FirstSetting(n, k))
  PROVE  /\ ifs' \in Seq(Entries) /\ Len(ifs') = Len(ifs) + 1
         /\ \A i \in 1..Len(ifs) : ifs'[i] = ifs[i]
         /\ ifs'[Len(ifs) + 1] = FirstSetting(n, k)
<1>1. FirstSetting(n, k) \in Entries
  BY EmptySeq DEF FirstSetting, Entries
<1>2. ifs \in Seq(Entries)
  BY DEF TypeOK
<1> QED
  BY <1>1, <1>2, AppendProperties

LEMMA ChangeTable ==
  ASSUME TypeOK, ifs # <<>>, NEW e \in Entries, ifs' = [ifs EXCEPT ![Len(ifs)] = e]
  PROVE  /\ ifs' \in Seq(Entries) /\ Len(ifs') = Len(ifs)
         /\ \A i \in 1 .. Len(ifs) - 1 : ifs'[i] = ifs[i]
         /\ ifs'[Len(ifs)] = e
<1>1. ifs \in Seq(Entries) /\ Len(ifs) \in Nat \ {0}
  BY NonEmpty DEF TypeOK
<1>2. Len(ifs) \in 1..Len(ifs)
  BY <1>1
<1> QED
  BY <1>1, <1>2, ExceptSeq

LEMMA TableLengths ==
  TypeOK /\ EntryInv => /\ Len(dev) \in Nat /\ Len(ifs) = Len(dev)
                        /\ dev # <<>> => Len(dev) > 0 /\ ifs # <<>>
                        /\ \A i \in 1..Len(dev) : Len(dev[i].alts) > 0
<1> SUFFICES ASSUME TypeOK, EntryInv
             PROVE  /\ Len(dev) \in Nat /\ Len(ifs) = Len(dev)
                    /\ dev # <<>> => Len(dev) > 0 /\ ifs # <<>>
                    /\ \A i \in 1..Len(dev) : Len(dev[i].alts) > 0
  OBVIOUS
<1>1. dev \in Seq(Interfaces) /\ ifs \in Seq(Entries) /\ Len(ifs) = Len(dev)
  BY DEF TypeOK, EntryInv, InterfacesRight
<1>2. Len(dev) \in Nat /\ (dev # <<>> => Len(dev) > 0)
  BY <1>1, EmptySeq, LenProperties
<1>3. dev # <<>> => ifs # <<>>
  BY <1>1, <1>2, EmptySeq
<1>4. \A i \in 1..Len(dev) : Len(dev[i].alts) > 0
  BY DEF EntryInv, TypeOK
<1> QED
  BY <1>1, <1>2, <1>3, <1>4

LEMMA InterfaceEffect ==
  ASSUME TypeOK, EntryInv, OnInterface
  PROVE  \/ \E n \in Numbers, k \in 0..MaxEp : NewInterface(n, k) /\ Opened(n, k)
         \/ \E k \in 0..MaxEp : Added(k)
<1>1. PICK n \in Numbers, k \in 0..MaxEp :
        (NewInterface(n, k) \/ NewSetting(n, k)) /\ ParseInterface(n, k)
  BY DEF OnInterface
<1>2. count \in 0 .. MaxDesc - 1 /\ MaxDesc > 0
  BY DEF OnInterface, NextDescriptor, TypeOK
<1>3. curr = IF dev = <<>> THEN -1 ELSE LastOf(dev).num
  BY DEF EntryInv
<1>4. CASE NewInterface(n, k)
  <2>1. n # curr
    <3>1. CASE dev = <<>>
      BY <1>3, <3>1
    <3>2. CASE dev # <<>>
      <4>1. LastOf(dev) = dev[Len(dev)] /\ Len(dev) \in 1..Len(dev)
        BY <3>2, TableLengths DEF LastOf
      <4> QED
        BY <1>3, <1>4, <3>2, <4>1 DEF NewInterface
    <3> QED
      BY <3>1, <3>2
  <2>2. ifs' = Append(ifs, FirstSetting(n, k)) /\ curr' = n
    BY <1>1, <2>1 DEF ParseInterface, IsNew
  <2>3. Len(dev) < nif
    BY <1>4 DEF NewInterface
  <2>4. Opened(n, k)
    BY <1>2, <1>4, <2>2, <2>3, OpenDevice, OpenTable DEF Opened
  <2> QED
    BY <1>4, <2>4
<1>5. CASE NewSetting(n, k)
  <2>1. n = curr /\ dev # <<>>
    BY <1>3, <1>5 DEF NewSetting
  <2>2. ifs' = [ifs EXCEPT ![Len(ifs)] = CountSetting(ifs[Len(ifs)])] /\ curr' = curr
    BY <1>1, <2>1 DEF ParseInterface, IsNew
  <2>3. CountSetting(ifs[Len(ifs)]) \in Entries
    <3>1. ifs # <<>> /\ ifs \in Seq(Entries) /\ Len(ifs) \in 1..Len(ifs)
      BY <2>1, TableLengths DEF TypeOK
    <3>2. ifs[Len(ifs)] \in Entries
      BY <3>1, ElementOfSeq
    <3>3. ifs[Len(ifs)].settings = Len(dev[Len(ifs)].alts) /\ Len(dev[Len(ifs)].alts) \in 1..count
      BY <3>1, TableLengths DEF EntryInv, InterfacesRight
    <3>4. ifs[Len(ifs)].settings + 1 \in 1..MaxDesc
      BY <1>2, <3>3
    <3> QED
      BY <3>2, <3>4 DEF CountSetting, Entries
  <2>4. Added(k)
    BY <1>5, <2>1, <2>2, <2>3, TableLengths, AddDevice, ChangeTable DEF Added
  <2> QED
    BY <2>4
<1> QED
  BY <1>1, <1>4, <1>5

LEMMA EndpointEffect ==
  ASSUME TypeOK, EntryInv, OnEndpoint
  PROVE  \E e \in Endpoints : Filled(e)
<1>1. PICK e \in Endpoints : /\ NewEndpoint(e)
                            /\ ifs' = [ifs EXCEPT ![Len(ifs)].eps = Append(@, e)]
  BY DEF OnEndpoint
<1>2. Due > 0 /\ Free(e) /\ dev # <<>> /\ curr' = curr
  <2>1. Due > 0 /\ Free(e)
    BY <1>1, Zenon DEF NewEndpoint
  <2>2. dev # <<>>
    BY <2>1 DEF Due
  <2>3. curr' = curr
    BY DEF OnEndpoint
  <2> QED
    BY <2>1, <2>2, <2>3, Zenon
<1>3. ifs # <<>> /\ ifs \in Seq(Entries) /\ Len(ifs) \in 1..Len(ifs)
  BY <1>2, TableLengths DEF TypeOK
<1>4. ifs[Len(ifs)] \in Entries
  BY <1>3, ElementOfSeq
<1>5. [ifs[Len(ifs)] EXCEPT !.eps = Append(@, e)] \in Entries
  <2>1. Append(ifs[Len(ifs)].eps, e) \in Seq(Endpoints)
    BY <1>4, AppendProperties DEF Entries
  <2> QED
    BY <1>4, <2>1 DEF Entries
<1>6. ifs' = [ifs EXCEPT ![Len(ifs)] = [ifs[Len(ifs)] EXCEPT !.eps = Append(@, e)]]
  BY <1>1
<1>7. Filled(e)
  BY <1>1, <1>2, <1>3, <1>5, <1>6, TableLengths, FillDevice, ChangeTable DEF Filled
<1> QED
  BY <1>7

(* The same at the place of the last interface, and of its last setting. *)
D == Len(dev)
A == Len(dev[D].alts)

LEMMA AddedFacts ==
  ASSUME TypeOK, EntryInv, NEW k \in 0..MaxEp, Added(k)
  PROVE  /\ D \in Nat \ {0} /\ D = Len(dev) /\ Len(ifs) = D /\ dev # <<>> /\ dev' # <<>>
         /\ Len(dev') = D /\ Len(ifs') = D /\ curr' = curr
         /\ LastOf(dev) = dev[D] /\ LastOf(dev)' = dev'[D]
         /\ \A i \in 1 .. D - 1 : dev'[i] = dev[i] /\ ifs'[i] = ifs[i]
         /\ dev'[D].num = dev[D].num
         /\ Len(dev'[D].alts) = Len(dev[D].alts) + 1
         /\ \A a \in 1..Len(dev[D].alts) :
              dev'[D].alts[a] = dev[D].alts[a]
         /\ ifs'[D].num = ifs[D].num /\ ifs'[D].nep = ifs[D].nep
         /\ ifs'[D].settings = ifs[D].settings + 1
         /\ ifs'[D].eps = ifs[D].eps
<1>1. /\ D \in Nat \ {0} /\ D = Len(dev) /\ Len(ifs) = D
      /\ LastOf(dev) = dev[D] /\ LastOf(dev)' = dev'[D]
      /\ Len(dev') = D /\ Len(ifs') = D /\ dev # <<>> /\ dev' # <<>> /\ curr' = curr
  BY TableLengths, EmptySeq DEF Added, LastOf, D
<1>2. /\ \A i \in 1 .. D - 1 : dev'[i] = dev[i] /\ ifs'[i] = ifs[i]
      /\ dev'[D].num = dev[D].num /\ Len(dev'[D].alts) = Len(dev[D].alts) + 1
      /\ \A a \in 1..Len(dev[D].alts) : dev'[D].alts[a] = dev[D].alts[a]
      /\ ifs'[D] = CountSetting(ifs[D])
  BY <1>1 DEF Added
<1>3. ifs[D] \in Entries
  BY <1>1, ElementOfSeq DEF TypeOK
<1>4. /\ ifs'[D].num = ifs[D].num /\ ifs'[D].nep = ifs[D].nep
      /\ ifs'[D].settings = ifs[D].settings + 1 /\ ifs'[D].eps = ifs[D].eps
  BY <1>2, <1>3 DEF CountSetting, Entries
<1> QED
  BY <1>1, <1>2, <1>4

LEMMA FilledFacts ==
  ASSUME TypeOK, EntryInv, NEW e \in Endpoints, Filled(e)
  PROVE  /\ D \in Nat \ {0} /\ D = Len(dev) /\ Len(ifs) = D /\ dev # <<>> /\ dev' # <<>>
         /\ Len(dev') = D /\ Len(ifs') = D /\ curr' = curr
         /\ LastOf(dev) = dev[D] /\ LastOf(dev)' = dev'[D]
         /\ A \in Nat \ {0} /\ A = Len(dev[D].alts) /\ Setting = dev[D].alts[A]
         /\ \A i \in 1 .. D - 1 : dev'[i] = dev[i] /\ ifs'[i] = ifs[i]
         /\ dev'[D].num = dev[D].num /\ Len(dev'[D].alts) = A
         /\ \A a \in 1 .. A - 1 : dev'[D].alts[a] = dev[D].alts[a]
         /\ dev[D].alts[A] \in Settings /\ dev'[D].alts[A].nep = dev[D].alts[A].nep
         /\ dev'[D].alts[A].eps = Append(dev[D].alts[A].eps, e)
         /\ ifs[D] \in Entries /\ ifs'[D].num = ifs[D].num /\ ifs'[D].nep = ifs[D].nep
         /\ ifs'[D].settings = ifs[D].settings /\ ifs'[D].eps = Append(ifs[D].eps, e)
<1>1. /\ D \in Nat \ {0} /\ D = Len(dev) /\ Len(ifs) = D
      /\ LastOf(dev) = dev[D] /\ LastOf(dev)' = dev'[D]
      /\ Len(dev') = D /\ Len(ifs') = D /\ dev # <<>> /\ dev' # <<>> /\ curr' = curr
  BY TableLengths, EmptySeq DEF Filled, LastOf, D
<1>2. /\ A \in Nat \ {0} /\ Setting = dev[D].alts[A]
      /\ A = Len(dev[D].alts)
  BY <1>1 DEF EntryInv, Setting, LastOf, TypeOK, A
<1>3. /\ \A i \in 1 .. D - 1 : dev'[i] = dev[i] /\ ifs'[i] = ifs[i]
      /\ dev'[D].num = dev[D].num /\ Len(dev'[D].alts) = A
      /\ \A a \in 1 .. A - 1 : dev'[D].alts[a] = dev[D].alts[a]
      /\ ifs'[D] = [ifs[D] EXCEPT !.eps = Append(@, e)]
      /\ dev'[D].alts[A] = [dev[D].alts[A] EXCEPT !.eps = Append(@, e)]
  <2>1. LastOf(LastOf(dev).alts)' = dev'[D].alts[Len(dev'[D].alts)]
    BY <1>1 DEF LastOf
  <2> QED
    BY <1>1, <1>2, <2>1 DEF Filled
<1>4. ifs[D] \in Entries /\ dev[D] \in Interfaces
  BY <1>1, ElementOfSeq DEF TypeOK
<1>5. dev[D].alts[A] \in Settings
  BY <1>2, <1>4, ElementOfSeq, InterfaceType
<1>6. /\ ifs'[D].num = ifs[D].num /\ ifs'[D].nep = ifs[D].nep
      /\ ifs'[D].settings = ifs[D].settings /\ ifs'[D].eps = Append(ifs[D].eps, e)
  BY <1>3, <1>4 DEF Entries
<1>7. /\ dev'[D].alts[A].nep = dev[D].alts[A].nep
      /\ dev'[D].alts[A].eps = Append(dev[D].alts[A].eps, e)
  BY <1>3, <1>5 DEF Settings
<1> QED
  BY <1>1, <1>2, <1>3, <1>4, <1>5, <1>6, <1>7

LEMMA OpenedFacts ==
  ASSUME TypeOK, EntryInv, NEW n \in Numbers, NEW k \in 0..MaxEp, Opened(n, k)
  PROVE  /\ D \in Nat /\ D = Len(dev) /\ Len(dev') = D + 1 /\ Len(ifs) = D /\ Len(ifs') = D + 1
         /\ D < nif /\ curr' = n /\ dev' # <<>> /\ LastOf(dev)' = dev'[D + 1]
         /\ \A i \in 1..D : dev'[i] = dev[i] /\ ifs'[i] = ifs[i]
         /\ dev'[D + 1].num = n /\ Len(dev'[D + 1].alts) = 1
         /\ dev'[D + 1].alts[1].nep = k /\ dev'[D + 1].alts[1].eps = <<>>
         /\ ifs'[D + 1].num = n /\ ifs'[D + 1].settings = 1 /\ ifs'[D + 1].nep = k
         /\ ifs'[D + 1].eps = <<>>
<1>1. /\ D \in Nat /\ D = Len(dev) /\ Len(dev') = D + 1 /\ Len(ifs) = D /\ Len(ifs') = D + 1
      /\ D < nif /\ curr' = n /\ dev' # <<>>
      /\ \A i \in 1..D : dev'[i] = dev[i] /\ ifs'[i] = ifs[i]
      /\ dev'[D + 1] = [num |-> n, alts |-> <<Bare(k)>>] /\ ifs'[D + 1] = FirstSetting(n, k)
  BY TableLengths, EmptySeq DEF Opened, D
<1>2. dev'[D + 1].num = n /\ dev'[D + 1].alts = <<Bare(k)>>
  BY <1>1
<1>3. Len(dev'[D + 1].alts) = 1 /\ dev'[D + 1].alts[1] = Bare(k)
  BY <1>2
<1>4. /\ ifs'[D + 1].num = n /\ ifs'[D + 1].settings = 1 /\ ifs'[D + 1].nep = k
      /\ ifs'[D + 1].eps = <<>>
  BY <1>1 DEF FirstSetting
<1>5. LastOf(dev)' = dev'[D + 1]
  BY <1>1 DEF LastOf
<1> QED
  BY <1>1, <1>2, <1>3, <1>4, <1>5, BareType

-----------------------------------------------------------------------------
(* The entries.                                                            *)

(* The actions after which what is known of the device is as it was. *)
Steady ==
  /\ UNCHANGED <<nif, ifs, curr, dev, count>>
  /\ at' # "header" \/ at' = at

LEMMA SteadySteps ==
  NotConfig \/ Parsed \/ MaxpacketEp \/ NextInterface \/ Maxpacket \/ SetInterface \/ UNCHANGED vars
    => Steady
BY DEF NotConfig, Parsed, MaxpacketEp, NextInterface, Maxpacket, SetInterface, vars, Steady

LEMMA InitEntry == Init => EntryInv
BY EmptySeq DEF Init, EntryInv, InterfacesRight

LEMMA NextEntry == TypeOK /\ EntryInv /\ [Next]_vars => EntryInv'
<1> SUFFICES ASSUME TypeOK, EntryInv, [Next]_vars PROVE EntryInv'
  OBVIOUS
<1>1. CASE Steady
  BY <1>1 DEF Steady, EntryInv, InterfacesRight, LastOf
<1>2. CASE Config
  <2>1. /\ UNCHANGED <<ifs, curr, dev, count>> /\ nif' \in Nat /\ at' = "loop"
        /\ dev = <<>>
    BY <1>2 DEF Config, EntryInv
  <2>2. Len(ifs) = 0
    BY <2>1, TableLengths, EmptySeq
  <2> QED
    BY <2>1, <2>2 DEF EntryInv, InterfacesRight, LastOf
<1>3. CASE OnOther
  <2>1. UNCHANGED <<at, nif, ifs, curr, dev>> /\ count' = count + 1 /\ count \in Nat
    BY <1>3 DEF OnOther, NextDescriptor, TypeOK
  <2>2. \A i \in 1..Len(dev) : Len(dev[i].alts) \in 1..count'
    BY <2>1 DEF EntryInv
  <2> QED
    BY <2>1, <2>2 DEF EntryInv, InterfacesRight, LastOf
<1>4. CASE OnInterface
  <2>1. UNCHANGED <<at, nif>> /\ count' = count + 1 /\ count \in Nat /\ at = "loop"
    BY <1>4 DEF OnInterface, NextDescriptor, TypeOK
  <2>2. ASSUME NEW n \in Numbers, NEW k \in 0..MaxEp, Opened(n, k) PROVE EntryInv'
    <3>1. /\ D \in Nat /\ D = Len(dev) /\ Len(dev') = D + 1 /\ Len(ifs') = D + 1
          /\ D < nif /\ nif \in Nat
          /\ curr' = n /\ dev' # <<>> /\ LastOf(dev)' = dev'[D + 1] /\ dev'[D + 1].num = n
      BY <2>2, OpenedFacts DEF TypeOK
    <3>2. ASSUME NEW i \in 1 .. D + 1
          PROVE  /\ ifs'[i].num = dev'[i].num /\ ifs'[i].settings = Len(dev'[i].alts)
                 /\ ifs'[i].nep = dev'[i].alts[1].nep /\ Len(dev'[i].alts) \in 1..count'
      <4>1. CASE i \in 1..D
        <5>1. /\ dev'[i] = dev[i] /\ ifs'[i] = ifs[i] /\ Len(dev[i].alts) \in 1..count
              /\ i \in 1..Len(ifs)
          BY <2>2, <4>1, OpenedFacts DEF EntryInv
        <5> QED
          BY <2>1, <5>1 DEF EntryInv, InterfacesRight
      <4>2. CASE i = D + 1
        <5>1. /\ dev'[i].num = n /\ Len(dev'[i].alts) = 1 /\ dev'[i].alts[1].nep = k
              /\ ifs'[i].num = n /\ ifs'[i].settings = 1 /\ ifs'[i].nep = k
          BY <2>2, <4>2, OpenedFacts
        <5> QED
          BY <2>1, <5>1
      <4> QED
        BY <3>1, <4>1, <4>2
    <3> QED
      BY <2>1, <3>1, <3>2 DEF EntryInv, InterfacesRight
  <2>3. ASSUME NEW k \in 0..MaxEp, Added(k) PROVE EntryInv'
    <3>1. /\ D \in Nat \ {0} /\ Len(dev') = D /\ Len(ifs') = D /\ Len(ifs) = D /\ dev' # <<>>
          /\ dev # <<>> /\ curr' = curr /\ LastOf(dev) = dev[D] /\ LastOf(dev)' = dev'[D]
          /\ dev'[D].num = dev[D].num
      BY <2>3, AddedFacts
    <3>2. ASSUME NEW i \in 1..D
          PROVE  /\ ifs'[i].num = dev'[i].num /\ ifs'[i].settings = Len(dev'[i].alts)
                 /\ ifs'[i].nep = dev'[i].alts[1].nep /\ Len(dev'[i].alts) \in 1..count'
      <4>1. /\ ifs[i].num = dev[i].num /\ ifs[i].settings = Len(dev[i].alts)
            /\ ifs[i].nep = dev[i].alts[1].nep /\ Len(dev[i].alts) \in 1..count
        BY <3>1 DEF EntryInv, InterfacesRight
      <4>2. CASE i \in 1 .. D - 1
        BY <2>1, <2>3, <4>1, <4>2, AddedFacts
      <4>3. CASE i = D
        <5>1. 1 \in 1..Len(dev[D].alts)
          BY <2>1, <4>1, <4>3
        <5> QED
          BY <2>1, <2>3, <4>1, <4>3, <5>1, AddedFacts
      <4> QED
        BY <3>1, <4>2, <4>3
    <3>3. Len(ifs') <= nif'
      BY <2>1, <3>1 DEF EntryInv, InterfacesRight
    <3> QED
      BY <2>1, <3>1, <3>2, <3>3 DEF EntryInv, InterfacesRight
  <2> QED
    BY <1>4, <2>2, <2>3, InterfaceEffect
<1>5. CASE OnEndpoint
  <2>1. UNCHANGED <<at, nif>> /\ count' = count + 1 /\ count \in Nat /\ at = "loop"
    BY <1>5 DEF OnEndpoint, NextDescriptor, TypeOK
  <2>2. PICK e \in Endpoints : Filled(e)
    BY <1>5, EndpointEffect
  <2>3. /\ D \in Nat \ {0} /\ Len(dev') = D /\ Len(ifs') = D /\ Len(ifs) = D /\ dev' # <<>>
        /\ dev # <<>> /\ curr' = curr /\ LastOf(dev) = dev[D] /\ LastOf(dev)' = dev'[D]
        /\ dev'[D].num = dev[D].num
    BY <2>2, FilledFacts
  <2>4. ASSUME NEW i \in 1..D
        PROVE  /\ ifs'[i].num = dev'[i].num /\ ifs'[i].settings = Len(dev'[i].alts)
               /\ ifs'[i].nep = dev'[i].alts[1].nep /\ Len(dev'[i].alts) \in 1..count'
    <3>1. /\ ifs[i].num = dev[i].num /\ ifs[i].settings = Len(dev[i].alts)
          /\ ifs[i].nep = dev[i].alts[1].nep /\ Len(dev[i].alts) \in 1..count
      BY <2>3 DEF EntryInv, InterfacesRight
    <3>2. CASE i \in 1 .. D - 1
      <4>1. dev'[i] = dev[i] /\ ifs'[i] = ifs[i]
        BY <2>2, <3>2, FilledFacts
      <4> QED
        BY <2>1, <3>1, <4>1
    <3>3. CASE i = D
      <4>1. /\ Len(dev'[D].alts) = A /\ A = Len(dev[D].alts) /\ ifs'[D].num = ifs[D].num
            /\ ifs'[D].nep = ifs[D].nep /\ ifs'[D].settings = ifs[D].settings
        BY <2>2, FilledFacts
      <4>2. dev'[D].alts[1].nep = dev[D].alts[1].nep
        <5>1. /\ A \in Nat \ {0} /\ dev'[D].alts[A].nep = dev[D].alts[A].nep
              /\ \A a \in 1 .. A - 1 : dev'[D].alts[a] = dev[D].alts[a]
          BY <2>2, FilledFacts
        <5> QED
          BY <5>1
      <4> QED
        BY <2>1, <2>3, <3>1, <3>3, <4>1, <4>2
    <3> QED
      BY <2>3, <3>2, <3>3
  <2>5. Len(ifs') <= nif'
    BY <2>1, <2>3 DEF EntryInv, InterfacesRight
  <2> QED
    BY <2>1, <2>3, <2>4, <2>5 DEF EntryInv, InterfacesRight
<1> QED
  BY <1>1, <1>2, <1>3, <1>4, <1>5, SteadySteps DEF Next

-----------------------------------------------------------------------------
(* The first settings.                                                     *)

LEMMA OneOrMore ==
  ASSUME NEW x \in Nat \ {0}
  PROVE  (x > 1 \/ x = 1) /\ (x # 1 => 1 \in 1 .. x - 1)
OBVIOUS

LEMMA FirstType ==
  ASSUME TypeOK, EntryInv, NEW i \in 1..Len(dev)
  PROVE  /\ First(i) \in Settings /\ First(i).nep \in 0..MaxEp
         /\ First(i).eps \in Seq(Endpoints) /\ Len(First(i).eps) \in Nat
         /\ Len(dev[i].alts) \in Nat \ {0}
<1>1. dev[i] \in Interfaces /\ Len(dev[i].alts) \in 1..count /\ count \in Nat
  BY ElementOfSeq DEF TypeOK, EntryInv
<1>2. First(i) \in Settings
  <2>1. 1 \in 1..Len(dev[i].alts) /\ dev[i].alts \in Seq(Settings)
    BY <1>1, InterfaceType
  <2> QED
    BY <2>1, ElementOfSeq DEF First
<1> QED
  BY <1>1, <1>2, SettingType

LEMMA AllComplete ==
  ASSUME TypeOK, EntryInv, FirstInv, Due = 0, NEW i \in 1..Len(dev)
  PROVE  Complete(i)
<1>1. CASE i < Len(dev) \/ Len(dev[i].alts) > 1
  BY <1>1 DEF FirstInv
<1>2. CASE ~(i < Len(dev) \/ Len(dev[i].alts) > 1)
  <2>1. Len(dev) \in Nat /\ Len(dev[i].alts) = 1
    <3>1. Len(dev[i].alts) \in Nat \ {0} /\ Len(dev) \in Nat
      BY FirstType, TableLengths
    <3>2. ~(Len(dev[i].alts) > 1)
      BY <1>2, Zenon
    <3> QED
      BY <3>1, <3>2, OneOrMore, Zenon
  <2>2. i = Len(dev) /\ dev # <<>>
    BY <1>2, <2>1, EmptySeq
  <2>3. Setting = First(i)
    BY <2>1, <2>2 DEF Setting, LastOf, First
  <2>4. First(i).nep - Len(First(i).eps) = 0
    BY <2>2, <2>3 DEF Due
  <2> QED
    BY <2>4, FirstType DEF Complete
<1> QED
  BY <1>1, <1>2

(* What a descriptor does to the first settings and to the endpoints of the entries. *)
LEMMA OpenedFirst ==
  ASSUME TypeOK, EntryInv, NEW n \in Numbers, NEW k \in 0..MaxEp, Opened(n, k)
  PROVE  /\ D \in Nat /\ D = Len(dev) /\ Len(dev') = D + 1
         /\ \A i \in 1..D : /\ First(i)' = First(i) /\ ifs'[i].eps = ifs[i].eps
                            /\ Len(dev'[i].alts) = Len(dev[i].alts)
         /\ dev'[D + 1].alts[1].nep = k /\ dev'[D + 1].alts[1].eps = <<>>
         /\ Len(dev'[D + 1].alts) = 1
         /\ ifs'[D + 1].eps = <<>>
BY OpenedFacts DEF First

LEMMA AddedFirst ==
  ASSUME TypeOK, EntryInv, NEW k \in 0..MaxEp, Added(k)
  PROVE  /\ D \in Nat /\ D = Len(dev) /\ Len(dev') = D
         /\ \A i \in 1..D : First(i)' = First(i) /\ ifs'[i].eps = ifs[i].eps
         /\ \A i \in 1 .. D - 1 : Len(dev'[i].alts) = Len(dev[i].alts)
         /\ Len(dev'[D].alts) > 1
<1>1. D \in Nat \ {0} /\ D = Len(dev) /\ Len(dev') = D
  BY AddedFacts
<1>2. \A i \in 1 .. D - 1 : dev'[i] = dev[i] /\ ifs'[i] = ifs[i]
  BY AddedFacts
<1>3. Len(dev[D].alts) \in Nat \ {0} /\ Len(dev'[D].alts) = Len(dev[D].alts) + 1
  <2>1. D \in 1..Len(dev)
    BY <1>1
  <2> QED
    BY <2>1, AddedFacts, FirstType
<1>4. dev'[D].alts[1] = First(D)
  <2>1. 1 \in 1..Len(dev[D].alts)
    BY <1>3
  <2> QED
    BY <2>1, AddedFacts DEF First
<1>5. ifs'[D].eps = ifs[D].eps
  BY AddedFacts
<1>6. ASSUME NEW i \in 1..D PROVE First(i)' = First(i) /\ ifs'[i].eps = ifs[i].eps
  <2>1. CASE i = D
    BY <1>4, <1>5, <2>1 DEF First
  <2>2. CASE i # D
    BY <1>1, <1>2, <2>2 DEF First
  <2> QED
    BY <2>1, <2>2
<1> QED
  BY <1>1, <1>2, <1>3, <1>6

LEMMA FilledFirst ==
  ASSUME TypeOK, EntryInv, NEW e \in Endpoints, Filled(e)
  PROVE  /\ D \in Nat \ {0} /\ D = Len(dev) /\ Len(dev') = D
         /\ \A i \in 1 .. D - 1 : First(i)' = First(i) /\ ifs'[i] = ifs[i]
         /\ \A i \in 1..D : Len(dev'[i].alts) = Len(dev[i].alts)
         /\ ifs'[D].eps = Append(ifs[D].eps, e) /\ ifs[D].eps \in Seq(Endpoints)
         /\ Len(dev[D].alts) # 1 => dev'[D].alts[1] = First(D)
         /\ Len(dev[D].alts) = 1 =>
              /\ dev'[D].alts[1].nep = First(D).nep /\ dev'[D].alts[1].eps = Append(First(D).eps, e)
              /\ Setting = First(D) /\ Len(First(D).eps) < First(D).nep
<1>1. D \in Nat \ {0} /\ D = Len(dev) /\ Len(dev') = D /\ dev # <<>>
  BY FilledFacts
<1>2. \A i \in 1 .. D - 1 : dev'[i] = dev[i] /\ ifs'[i] = ifs[i]
  BY FilledFacts
<1>3. /\ A \in Nat \ {0} /\ A = Len(dev[D].alts) /\ Len(dev'[D].alts) = A
      /\ \A a \in 1 .. A - 1 : dev'[D].alts[a] = dev[D].alts[a]
      /\ dev'[D].alts[A].nep = dev[D].alts[A].nep /\ Setting = dev[D].alts[A]
      /\ dev'[D].alts[A].eps = Append(dev[D].alts[A].eps, e)
  BY FilledFacts
<1>4. ifs'[D].eps = Append(ifs[D].eps, e) /\ ifs[D].eps \in Seq(Endpoints)
  BY FilledFacts DEF Entries
<1>5. \A i \in 1..D : Len(dev'[i].alts) = Len(dev[i].alts)
  <2> TAKE i \in 1..D
  <2>1. CASE i = D
    BY <1>3, <2>1
  <2>2. CASE i # D
    BY <1>1, <1>2, <2>2
  <2> QED
    BY <2>1, <2>2
<1>6. ASSUME A # 1 PROVE dev'[D].alts[1] = First(D)
  <2>1. 1 \in 1 .. A - 1
    BY <1>3, <1>6, OneOrMore, Zenon
  <2> QED
    BY <1>3, <2>1 DEF First
<1>7. ASSUME A = 1
      PROVE  /\ dev'[D].alts[1].nep = First(D).nep /\ dev'[D].alts[1].eps = Append(First(D).eps, e)
             /\ Setting = First(D) /\ Len(First(D).eps) < First(D).nep
  <2>1. /\ dev'[D].alts[1].nep = First(D).nep /\ dev'[D].alts[1].eps = Append(First(D).eps, e)
        /\ Setting = First(D)
    BY <1>3, <1>7 DEF First
  <2>2. First(D).nep - Len(First(D).eps) > 0
    BY <1>1, <2>1 DEF Filled, Due
  <2>3. Len(First(D).eps) \in Nat /\ First(D).nep \in Nat
    BY <1>1, FirstType
  <2> QED
    BY <2>1, <2>2, <2>3
<1>8. \A i \in 1 .. D - 1 : First(i)' = First(i)
  BY <1>2 DEF First
<1> QED
  BY <1>1, <1>2, <1>3, <1>4, <1>5, <1>6, <1>7, <1>8

(* FirstInv, interface by interface. *)
FirstOf(i) ==
  /\ \A j \in 1..Len(First(i).eps) : j <= Len(ifs[i].eps) /\ ifs[i].eps[j] = First(i).eps[j]
  /\ Len(First(i).eps) <= First(i).nep
  /\ i < Len(dev) \/ Len(dev[i].alts) > 1 => Complete(i)
  /\ Len(dev[i].alts) = 1 => Len(ifs[i].eps) = Len(First(i).eps)
AllRead ==
  at \in {"maxpacket", "ready"} => Len(dev) = nif /\ \A i \in 1..nif : Complete(i)

LEMMA FirstSplit ==
  Len(ifs) = Len(dev) => (FirstInv <=> AllRead /\ \A i \in 1..Len(dev) : FirstOf(i))
BY DEF FirstInv, DefaultEndpoints, FirstOf, AllRead, First

(* The actions that leave device and table alone. *)
Settled ==
  /\ UNCHANGED <<nif, ifs, dev>>
  /\ at' \in {"maxpacket", "ready"} => at \in {"maxpacket", "ready"}

LEMMA SettledSteps ==
  Config \/ OnOther \/ MaxpacketEp \/ NextInterface \/ Maxpacket \/ SetInterface
    \/ UNCHANGED vars
    => UNCHANGED <<ifs, dev>> /\ (~Config => Settled) /\ (Config => at' = "loop")
BY DEF Config, OnOther, NextDescriptor, MaxpacketEp, NextInterface, Maxpacket, SetInterface, vars,
       Settled

LEMMA InitFirst == Init => FirstInv
BY EmptySeq DEF Init, FirstInv, DefaultEndpoints

LEMMA NextFirst == TypeOK /\ EntryInv /\ FirstInv /\ [Next]_vars => FirstInv'
<1> SUFFICES ASSUME TypeOK, EntryInv, FirstInv, [Next]_vars PROVE FirstInv'
  OBVIOUS
<1>a. AllRead /\ (\A i \in 1..Len(dev) : FirstOf(i)) /\ Len(ifs) = Len(dev) /\ Len(dev) \in Nat
  BY FirstSplit, TableLengths
<1>b. Len(ifs') = Len(dev') => (FirstInv' <=> AllRead' /\ \A i \in 1..Len(dev') : FirstOf(i)')
  <2>1. (Len(ifs) = Len(dev) => (FirstInv <=> AllRead /\ \A i \in 1..Len(dev) : FirstOf(i)))'
    BY FirstSplit, PTL
  <2> QED
    BY <2>1
<1>c. EntryInv'
  BY NextEntry
<1>d. Len(ifs') = Len(dev')
  BY <1>c DEF EntryInv, InterfacesRight
<1>1. CASE Settled
  BY <1>1 DEF Settled, FirstInv, DefaultEndpoints, First, Complete
<1>2. CASE Config
  BY <1>2, SettledSteps DEF FirstInv, DefaultEndpoints, First, Complete
<1>3. CASE NotConfig
  <2>1. UNCHANGED <<nif, ifs, dev>> /\ nif = 0 /\ dev = <<>>
    BY <1>3 DEF NotConfig, EntryInv
  <2>2. Len(dev) = 0
    BY <2>1, EmptySeq
  <2> QED
    BY <1>a, <2>1, <2>2 DEF FirstInv, DefaultEndpoints, First, Complete
<1>4. CASE Parsed
  <2>1. UNCHANGED <<nif, ifs, dev>> /\ Due = 0 /\ Len(dev) = nif
    BY <1>4 DEF Parsed
  <2>2. \A i \in 1..Len(dev) : Complete(i)
    BY <2>1, AllComplete
  <2> QED
    BY <2>1, <2>2 DEF FirstInv, DefaultEndpoints, First, Complete
<1>5. CASE OnInterface
  <2>1. at' = "loop" /\ Due = 0
    BY <1>5 DEF OnInterface, NextDescriptor
  <2>2. \A i \in 1..Len(dev) : Complete(i)
    BY <2>1, AllComplete
  <2>3. AllRead'
    BY <2>1 DEF AllRead
  <2>4. ASSUME NEW n \in Numbers, NEW k \in 0..MaxEp, Opened(n, k), NEW i \in 1..Len(dev')
        PROVE  FirstOf(i)'
    <3>1. D \in Nat /\ D = Len(dev) /\ Len(dev') = D + 1
      BY <2>4, OpenedFirst
    <3>2. CASE i \in 1..D
      <4>1. /\ First(i)' = First(i) /\ ifs'[i].eps = ifs[i].eps
            /\ Len(dev'[i].alts) = Len(dev[i].alts) /\ FirstOf(i) /\ Complete(i)
        BY <1>a, <2>2, <2>4, <3>1, <3>2, OpenedFirst
      <4> QED
        BY <4>1 DEF FirstOf, Complete
    <3>3. CASE i = D + 1
      <4>1. /\ First(i)'.nep = k /\ First(i)'.eps = <<>> /\ Len(dev'[i].alts) = 1
            /\ ifs'[i].eps = <<>> /\ i = Len(dev')
        BY <2>4, <3>1, <3>3, OpenedFirst DEF First
      <4>2. Len(First(i)'.eps) = 0 /\ Len(ifs'[i].eps) = 0 /\ Len(dev') \in Nat
        BY <3>1, <4>1, EmptySeq
      <4> QED
        BY <2>4, <4>1, <4>2 DEF FirstOf
    <3> QED
      BY <3>1, <3>2, <3>3
  <2>5. ASSUME NEW k \in 0..MaxEp, Added(k), NEW i \in 1..Len(dev')
        PROVE  FirstOf(i)'
    <3>1. D \in Nat /\ D = Len(dev) /\ Len(dev') = D
      BY <2>5, AddedFirst
    <3>2. First(i)' = First(i) /\ ifs'[i].eps = ifs[i].eps /\ FirstOf(i) /\ Complete(i)
      BY <1>a, <2>2, <2>5, <3>1, AddedFirst
    <3>3. Len(dev'[i].alts) = 1 => Len(dev[i].alts) = 1
      <4>1. CASE i = D
        BY <2>5, <4>1, AddedFirst
      <4>2. CASE i # D
        BY <2>5, <3>1, <4>2, AddedFirst
      <4> QED
        BY <4>1, <4>2
    <3> QED
      BY <3>2, <3>3 DEF FirstOf, Complete
  <2> QED
    BY <1>5, <1>b, <1>d, <2>3, <2>4, <2>5, InterfaceEffect
<1>6. CASE OnEndpoint
  <2>1. at' = "loop"
    BY <1>6 DEF OnEndpoint, NextDescriptor
  <2>2. AllRead'
    BY <2>1 DEF AllRead
  <2>3. PICK e \in Endpoints : Filled(e)
    BY <1>6, EndpointEffect
  <2>4. /\ D \in Nat \ {0} /\ D = Len(dev) /\ Len(dev') = D
        /\ ifs'[D].eps = Append(ifs[D].eps, e) /\ ifs[D].eps \in Seq(Endpoints)
    BY <2>3, FilledFirst
  <2>5. ASSUME NEW i \in 1..D PROVE FirstOf(i)'
    <3>1. FirstOf(i) /\ Len(dev'[i].alts) = Len(dev[i].alts)
      BY <1>a, <2>3, <2>4, FilledFirst
    <3>2. /\ First(i).eps \in Seq(Endpoints) /\ Len(First(i).eps) \in Nat
          /\ First(i).nep \in Nat /\ Len(dev[i].alts) \in Nat \ {0}
      BY <2>4, FirstType
    <3>3. CASE i # D
      <4>1. First(i)' = First(i) /\ ifs'[i] = ifs[i]
        BY <2>3, <2>4, <3>3, FilledFirst
      <4> QED
        BY <2>4, <3>1, <4>1 DEF FirstOf, Complete
    <3>4. CASE i = D /\ Len(dev[D].alts) # 1
      <4>1. First(i)' = First(i)
        BY <2>3, <3>4, FilledFirst DEF First
      <4>2. /\ Len(ifs'[i].eps) = Len(ifs[i].eps) + 1 /\ Len(ifs[i].eps) \in Nat
            /\ \A j \in 1..Len(ifs[i].eps) : ifs'[i].eps[j] = ifs[i].eps[j]
        BY <2>4, <3>4, AppendProperties, LenProperties
      <4>3. \A j \in 1..Len(First(i).eps) :
              j <= Len(ifs'[i].eps) /\ ifs'[i].eps[j] = First(i).eps[j]
        BY <3>1, <3>2, <4>2 DEF FirstOf
      <4> QED
        BY <2>4, <3>1, <3>4, <4>1, <4>3 DEF FirstOf, Complete
    <3>5. CASE i = D /\ Len(dev[D].alts) = 1
      <4> DEFINE F == First(i)
      <4>1. /\ First(i)'.nep = F.nep /\ First(i)'.eps = Append(F.eps, e) /\ Len(F.eps) < F.nep
            /\ Len(dev'[i].alts) = 1 /\ Len(ifs[i].eps) = Len(F.eps)
        BY <2>3, <3>1, <3>5, FilledFirst DEF First, FirstOf
      <4>2. /\ Len(ifs'[i].eps) = Len(F.eps) + 1
            /\ \A j \in 1..Len(F.eps) : ifs'[i].eps[j] = ifs[i].eps[j]
            /\ ifs'[i].eps[Len(F.eps) + 1] = e
        <5>1. /\ Len(ifs'[i].eps) = Len(ifs[i].eps) + 1
              /\ \A j \in 1..Len(ifs[i].eps) : ifs'[i].eps[j] = ifs[i].eps[j]
              /\ ifs'[i].eps[Len(ifs[i].eps) + 1] = e
          <6>1. ifs'[i].eps = Append(ifs[i].eps, e) /\ ifs[i].eps \in Seq(Endpoints)
            BY <2>4, <3>5
          <6> QED
            BY <6>1, AppendProperties
        <5>2. Len(ifs[i].eps) = Len(F.eps)
          BY <4>1
        <5> HIDE DEF F
        <5> QED
          BY <5>1, <5>2
      <4>3. /\ Len(First(i)'.eps) = Len(F.eps) + 1
            /\ \A j \in 1..Len(F.eps) : First(i)'.eps[j] = F.eps[j]
            /\ First(i)'.eps[Len(F.eps) + 1] = e
        BY <3>2, <4>1, AppendProperties
      <4>4. ASSUME NEW j \in 1..Len(First(i)'.eps)
            PROVE  j <= Len(ifs'[i].eps) /\ ifs'[i].eps[j] = First(i)'.eps[j]
        <5>1. CASE j \in 1..Len(F.eps)
          BY <3>1, <3>2, <4>2, <4>3, <5>1 DEF FirstOf
        <5>2. CASE j = Len(F.eps) + 1
          BY <3>2, <4>2, <4>3, <5>2
        <5> QED
          BY <3>2, <4>3, <5>1, <5>2
      <4>5. Len(First(i)'.eps) <= First(i)'.nep
        BY <3>2, <4>1, <4>3
      <4>6. ~(i < Len(dev') \/ Len(dev'[i].alts) > 1)
        BY <2>4, <3>5, <4>1
      <4> QED
        BY <4>2, <4>3, <4>4, <4>5, <4>6 DEF FirstOf
    <3> QED
      BY <3>3, <3>4, <3>5
  <2> QED
    BY <1>b, <1>d, <2>2, <2>4, <2>5
<1> QED
  BY <1>1, <1>2, <1>3, <1>4, <1>5, <1>6, SettledSteps DEF Next

-----------------------------------------------------------------------------
(* The addresses of the first settings.                                    *)

LEMMA ClashSymmetric == \A e, f : Clash(e, f) <=> Clash(f, e)
BY DEF Clash

LEMMA InitClash == Init => ClashInv
BY EmptySeq DEF Init, ClashInv

LEMMA NextClash == TypeOK /\ EntryInv /\ FirstInv /\ ClashInv /\ [Next]_vars => ClashInv'
<1> SUFFICES ASSUME TypeOK, EntryInv, FirstInv, ClashInv, [Next]_vars PROVE ClashInv'
  OBVIOUS
<1>1. CASE UNCHANGED dev
  BY <1>1 DEF ClashInv, First
<1>2. CASE OnInterface
  <2>1. ASSUME NEW n \in Numbers, NEW k \in 0..MaxEp, Opened(n, k) PROVE ClashInv'
    <3>1. /\ D \in Nat /\ D = Len(dev) /\ Len(dev') = D + 1
          /\ \A i \in 1..D : First(i)' = First(i)
      BY <2>1, OpenedFirst
    <3>2. ASSUME NEW i \in 1..Len(dev'), NEW j \in 1..Len(First(i)'.eps)
          PROVE  i \in 1..D
      <4>1. CASE i = D + 1
        <5>1. First(i)'.eps = <<>>
          BY <2>1, <4>1, OpenedFirst DEF First
        <5>2. Len(First(i)'.eps) = 0
          BY <5>1, EmptySeq
        <5> QED
          BY <3>2, <5>2
      <4> QED
        BY <3>1, <4>1
    <3> QED
      BY <3>1, <3>2 DEF ClashInv
  <2>2. ASSUME NEW k \in 0..MaxEp, Added(k) PROVE ClashInv'
    <3>1. /\ D = Len(dev) /\ Len(dev') = D /\ \A i \in 1..D : First(i)' = First(i)
      BY <2>2, AddedFirst
    <3> QED
      BY <3>1 DEF ClashInv
  <2> QED
    BY <1>2, <2>1, <2>2, InterfaceEffect
<1>3. CASE OnEndpoint
  <2>1. PICK e \in Endpoints : Filled(e)
    BY <1>3, EndpointEffect
  <2>2. /\ D \in Nat \ {0} /\ D = Len(dev) /\ Len(dev') = D /\ D \in 1..Len(dev)
        /\ \A i \in 1 .. D - 1 : First(i)' = First(i)
    BY <2>1, FilledFirst
  <2>3. CASE Len(dev[D].alts) # 1
    <3>1. ASSUME NEW i \in 1..D PROVE First(i)' = First(i)
      <4>1. CASE i = D
        BY <2>1, <2>3, <4>1, FilledFirst DEF First
      <4> QED
        BY <2>2, <4>1
    <3> QED
      BY <2>2, <3>1 DEF ClashInv
  <2>4. CASE Len(dev[D].alts) = 1
    <3>1. /\ First(D).eps \in Seq(Endpoints) /\ Len(First(D).eps) \in Nat
          /\ dev'[D].alts[1].eps = Append(First(D).eps, e) /\ Setting = First(D)
      BY <2>1, <2>2, <2>4, FirstType, FilledFirst
    <3>2. /\ Len(dev'[D].alts[1].eps) = Len(First(D).eps) + 1
          /\ \A j \in 1..Len(First(D).eps) : dev'[D].alts[1].eps[j] = First(D).eps[j]
          /\ dev'[D].alts[1].eps[Len(First(D).eps) + 1] = e
      BY <3>1, AppendProperties
    (* What is not the new endpoint was there before. *)
    <3> DEFINE New(i, j) == i = D /\ j = Len(First(D).eps) + 1
    <3>3. ASSUME NEW i \in 1..D, NEW j \in 1..Len(First(i)'.eps), ~New(i, j)
          PROVE  j \in 1..Len(First(i).eps) /\ First(i)'.eps[j] = First(i).eps[j]
      <4>1. CASE i = D
        <5>1. First(i)' = dev'[D].alts[1]
          BY <4>1 DEF First
        <5>2. j \in 1 .. Len(First(D).eps) + 1 /\ j # Len(First(D).eps) + 1
          BY <3>2, <3>3, <4>1, <5>1
        <5>3. j \in 1..Len(First(D).eps)
          BY <3>1, <5>2
        <5> QED
          BY <3>2, <4>1, <5>1, <5>3
      <4>2. CASE i # D
        <5>1. First(i)' = First(i)
          BY <2>2, <4>2
        <5> QED
          BY <5>1
      <4> QED
        BY <4>1, <4>2
    <3>4. ASSUME NEW i \in 1..D, NEW j \in 1..Len(First(i).eps)
          PROVE  ~Clash(e, First(i).eps[j])
      <4>1. CASE i = D
        <5>1. First(D).eps[j] \in EndpointsIn(Setting)
          BY <3>1, <4>1 DEF EndpointsIn
        <5> QED
          BY <2>1, <4>1, <5>1 DEF Filled, Free
      <4>2. CASE i # D
        <5>1. i \in 1 .. Len(dev) - 1 /\ 1 \in 1..Len(dev[i].alts)
          BY <2>2, <4>2, FirstType
        <5>2. First(i).eps[j] \in EndpointsIn(dev[i].alts[1])
          BY DEF EndpointsIn, First
        <5>3. First(i).eps[j] \in AllEndpoints(dev[i])
          BY <5>1, <5>2 DEF AllEndpoints
        <5> QED
          BY <2>1, <5>1, <5>3 DEF Filled, Free
      <4> QED
        BY <4>1, <4>2
    <3>5. ASSUME NEW i \in 1..D, NEW j \in 1..Len(First(i)'.eps), New(i, j)
          PROVE  First(i)'.eps[j] = e
      BY <3>2, <3>5 DEF First
    <3>6. ASSUME NEW i \in 1..D, NEW k \in 1..D,
                 NEW j \in 1..Len(First(i)'.eps), NEW l \in 1..Len(First(k)'.eps),
                 Clash(First(i)'.eps[j], First(k)'.eps[l])
          PROVE  i = k /\ j = l
      <4> HIDE DEF New
      <4>1. CASE New(i, j) /\ New(k, l)
        BY <4>1 DEF New
      <4>2. CASE New(i, j) /\ ~New(k, l)
        BY <3>3, <3>4, <3>5, <3>6, <4>2
      <4>3. CASE ~New(i, j) /\ New(k, l)
        BY <3>3, <3>4, <3>5, <3>6, <4>3, ClashSymmetric
      <4>4. CASE ~New(i, j) /\ ~New(k, l)
        <5>1. Clash(First(i).eps[j], First(k).eps[l])
          BY <3>3, <3>6, <4>4
        <5> QED
          BY <2>2, <3>3, <4>4, <5>1 DEF ClashInv
      <4> QED
        BY <4>1, <4>2, <4>3, <4>4
    <3> QED
      BY <2>2, <3>6 DEF ClashInv
  <2> QED
    BY <2>3, <2>4
<1> QED
  BY <1>1, <1>2, <1>3, SettledSteps DEF Next, NotConfig, Parsed

-----------------------------------------------------------------------------
(* Types.                                                                  *)

LEMMA InitType == Init => TypeOK
<1> SUFFICES ASSUME Init PROVE TypeOK
  OBVIOUS
<1>1. max \in [Addresses -> [Dirs -> Sizes \cup {0}]]
  BY DEF Init
<1>2. call \in Calls
  BY DEF Init, NoCall, Calls
<1> QED
  BY <1>1, <1>2, EmptySeq DEF Init, TypeOK, Places

(* Where the loop of usb_set_maxpacket is, its endpoint is one of a first setting. *)
LEMMA LoopEntry ==
  ASSUME TypeOK, EntryInv, FirstInv, at = "maxpacket", loop.i <= nif
  PROVE  /\ loop.i \in 1..Len(dev) /\ Len(dev) = nif
         /\ LoopEnd(ifs[loop.i]) = Len(First(loop.i).eps)
         /\ First(loop.i).eps \in Seq(Endpoints) /\ Len(First(loop.i).eps) \in 0..MaxEp
         /\ \A j \in 1..Len(First(loop.i).eps) :
              ifs[loop.i].eps[j] = First(loop.i).eps[j] /\ ifs[loop.i].eps[j] \in Endpoints
<1>1. Len(dev) = nif /\ Len(ifs) = nif /\ loop.i \in 1..Len(dev) /\ Complete(loop.i)
  BY TableLengths DEF FirstInv, TypeOK
<1>2. LoopEnd(ifs[loop.i]) = First(loop.i).nep
  BY <1>1 DEF EntryInv, InterfacesRight, LoopEnd, First
<1>3. /\ First(loop.i).nep \in 0..MaxEp /\ Len(First(loop.i).eps) = First(loop.i).nep
      /\ First(loop.i).eps \in Seq(Endpoints)
  BY <1>1, FirstType DEF Complete
<1>4. ASSUME NEW j \in 1..Len(First(loop.i).eps)
      PROVE  ifs[loop.i].eps[j] = First(loop.i).eps[j] /\ ifs[loop.i].eps[j] \in Endpoints
  <2>1. ifs[loop.i].eps[j] = First(loop.i).eps[j]
    BY <1>1 DEF FirstInv, DefaultEndpoints, First
  <2> QED
    BY <1>3, <2>1, ElementOfSeq
<1> QED
  BY <1>1, <1>2, <1>3, <1>4

LEMMA SetEpType ==
  ASSUME TypeOK, NEW e \in Endpoints, SetMaxpacketEp(e)
  PROVE  /\ max' \in [Addresses -> [Dirs -> Sizes \cup {0}]]
         /\ \A n \in Addresses, d \in Dirs :
              max'[n][d] = IF Covers(e, n, d)
                           THEN IF e.control THEN e.size ELSE Larger(max[n][d], e.size)
                           ELSE max[n][d]
<1> DEFINE row == [d \in Dirs |-> IF e.control THEN e.size
                                 ELSE IF e.dir = d THEN Larger(max[e.n][d], e.size)
                                 ELSE max[e.n][d]]
<1>1. /\ e.n \in Addresses /\ e.dir \in Dirs /\ e.size \in Sizes
      /\ max \in [Addresses -> [Dirs -> Sizes \cup {0}]]
  BY DEF Endpoints, TypeOK
<1>2. max[e.n] \in [Dirs -> Sizes \cup {0}]
  BY <1>1
<1>3. \A d \in Dirs : Larger(max[e.n][d], e.size) \in Sizes \cup {0}
  BY <1>1, <1>2 DEF Larger
<1>4. row \in [Dirs -> Sizes \cup {0}]
  BY <1>1, <1>2, <1>3
<1>5. max' = [max EXCEPT ![e.n] = row]
  BY Zenon DEF SetMaxpacketEp
<1>6. max' \in [Addresses -> [Dirs -> Sizes \cup {0}]]
  BY <1>1, <1>4, <1>5
<1>7. ASSUME NEW n \in Addresses, NEW d \in Dirs
      PROVE  max'[n][d] = IF Covers(e, n, d)
                          THEN IF e.control THEN e.size ELSE Larger(max[n][d], e.size)
                          ELSE max[n][d]
  <2>1. CASE e.n # n
    <3>1. max'[n] = max[n]
      BY <1>1, <1>5, <2>1
    <3> QED
      BY <2>1, <3>1 DEF Covers
  <2>2. CASE e.n = n
    <3>1. max'[n] = row
      BY <1>1, <1>5, <2>2
    <3>2. row[d] = IF e.control THEN e.size
                   ELSE IF e.dir = d THEN Larger(max[n][d], e.size) ELSE max[n][d]
      BY <1>2, <2>2
    <3> QED
      BY <2>2, <3>1, <3>2 DEF Covers
  <2> QED
    BY <2>1, <2>2
<1> QED
  BY <1>6, <1>7

LEMMA CallType ==
  ASSUME TypeOK, EntryInv, FirstInv, SetInterface
  PROVE  call' \in Calls
<1>1. Len(dev) = nif /\ Len(ifs) = nif
  BY TableLengths DEF SetInterface, FirstInv
<1>2. \A i \in 1..nif : ifs[i].num \in Nat /\ Len(dev[i].alts) \in Nat
  <2> TAKE i \in 1..nif
  <2>1. ifs[i] \in Entries
    BY <1>1, ElementOfSeq DEF TypeOK
  <2>2. ifs[i].num \in Nat
    BY <2>1 DEF Entries
  <2>3. Len(dev[i].alts) \in Nat
    BY <1>1, FirstType
  <2> QED
    BY <2>2, <2>3
<1>3. \A n \in Nat, a \in Nat, u \in Nat, ret \in {"ok", "invalid", "error"} :
        Called(n, a, ret, u) => call' \in Calls
  BY DEF Called, Calls
<1>4. CASE \E n \in Numbers : EntriesOf(n) = {} /\ Called(n, 0, "invalid", 0)
  BY <1>3, <1>4
<1>5. CASE \E i \in 1..nif : \E a \in 0 .. Len(dev[i].alts) - 1 :
             IF HasOneSetting(i) THEN Called(ifs[i].num, a, "ok", 0)
             ELSE \/ Called(ifs[i].num, a, "ok", a)
                  \/ \E used \in {0, a} : Called(ifs[i].num, a, "error", used)
  <2>1. PICK i \in 1..nif : \E a \in 0 .. Len(dev[i].alts) - 1 :
             IF HasOneSetting(i) THEN Called(ifs[i].num, a, "ok", 0)
             ELSE \/ Called(ifs[i].num, a, "ok", a)
                  \/ \E used \in {0, a} : Called(ifs[i].num, a, "error", used)
    BY <1>5
  <2>2. ifs[i].num \in Nat /\ \A a \in 0 .. Len(dev[i].alts) - 1 : a \in Nat
    BY <1>2
  <2> QED
    BY <1>3, <2>1, <2>2
<1> QED
  BY <1>4, <1>5 DEF SetInterface

LEMMA NextType == TypeOK /\ EntryInv /\ FirstInv /\ [Next]_vars => TypeOK'
<1> SUFFICES ASSUME TypeOK, EntryInv, FirstInv, [Next]_vars PROVE TypeOK'
  OBVIOUS
<1>1. CASE UNCHANGED vars
  BY <1>1 DEF vars, TypeOK
<1>2. CASE NotConfig
  BY <1>2 DEF NotConfig, TypeOK, Places
<1>3. CASE Config
  <2>1. loop \in [i : 1 .. nif' + 1, ii : 1 .. MaxEp + 1]
    BY <1>3 DEF Config, TypeOK, EntryInv
  <2> QED
    BY <1>3, <2>1 DEF Config, TypeOK, Places
<1>4. CASE OnInterface
  <2>1. UNCHANGED <<at, nif, loop, max, call>> /\ count' \in 0..MaxDesc
    BY <1>4 DEF OnInterface, NextDescriptor, TypeOK
  <2>2. ASSUME NEW n \in Numbers, NEW k \in 0..MaxEp, Opened(n, k) PROVE TypeOK'
    BY <2>1, <2>2 DEF Opened, TypeOK
  <2>3. ASSUME NEW k \in 0..MaxEp, Added(k) PROVE TypeOK'
    BY <2>1, <2>3 DEF Added, TypeOK
  <2> QED
    BY <1>4, <2>2, <2>3, InterfaceEffect
<1>5. CASE OnEndpoint
  <2>1. UNCHANGED <<at, nif, loop, max, call>> /\ count' \in 0..MaxDesc
    BY <1>5 DEF OnEndpoint, NextDescriptor, TypeOK
  <2>2. PICK e \in Endpoints : Filled(e)
    BY <1>5, EndpointEffect
  <2> QED
    BY <2>1, <2>2 DEF Filled, TypeOK
<1>6. CASE OnOther
  BY <1>6 DEF OnOther, NextDescriptor, TypeOK
<1>7. CASE Parsed
  BY <1>7 DEF Parsed, TypeOK, Places
<1>8. CASE MaxpacketEp
  <2>1. /\ at = "maxpacket" /\ loop.i <= nif /\ loop.ii <= LoopEnd(ifs[loop.i])
        /\ UNCHANGED <<at, nif, ifs, curr, dev, count, call>>
        /\ loop' = [loop EXCEPT !.ii = @ + 1] /\ SetMaxpacketEp(ifs[loop.i].eps[loop.ii])
    BY <1>8 DEF MaxpacketEp
  <2>2. loop.ii + 1 \in 1 .. MaxEp + 1 /\ ifs[loop.i].eps[loop.ii] \in Endpoints
    <3>1. /\ LoopEnd(ifs[loop.i]) = Len(First(loop.i).eps)
          /\ Len(First(loop.i).eps) \in 0..MaxEp
          /\ \A j \in 1..Len(First(loop.i).eps) : ifs[loop.i].eps[j] \in Endpoints
      BY <2>1, LoopEntry
    <3>2. loop.ii \in 1 .. MaxEp + 1
      BY DEF TypeOK
    <3>3. loop.ii \in 1..Len(First(loop.i).eps)
      BY <2>1, <3>1, <3>2
    <3> QED
      BY <3>1, <3>3
  <2>3. loop' \in [i : 1 .. nif + 1, ii : 1 .. MaxEp + 1]
    BY <2>1, <2>2 DEF TypeOK
  <2>4. max' \in [Addresses -> [Dirs -> Sizes \cup {0}]]
    BY <2>1, <2>2, SetEpType
  <2> QED
    BY <2>1, <2>3, <2>4 DEF TypeOK
<1>9. CASE NextInterface
  <2>1. /\ loop.i <= nif /\ UNCHANGED <<at, nif, ifs, curr, max, dev, count, call>>
        /\ loop' = [i |-> loop.i + 1, ii |-> 1]
    BY <1>9 DEF NextInterface
  <2>2. loop' \in [i : 1 .. nif + 1, ii : 1 .. MaxEp + 1]
    BY <2>1 DEF TypeOK
  <2> QED
    BY <2>1, <2>2 DEF TypeOK
<1>10. CASE Maxpacket
  BY <1>10 DEF Maxpacket, TypeOK, Places
<1>11. CASE SetInterface
  <2>1. call' \in Calls
    BY <1>11, CallType
  <2> QED
    BY <1>11, <2>1 DEF SetInterface, TypeOK
<1> QED
  BY <1>1, <1>2, <1>3, <1>4, <1>5, <1>6, <1>7, <1>8, <1>9, <1>10, <1>11 DEF Next

(* The device is as its entries say, and every index of the loops is one of theirs. *)
ParserInv == TypeOK /\ EntryInv /\ FirstInv

LEMMA AlwaysParser == Spec => []ParserInv
<1>1. Init => ParserInv
  BY InitType, InitEntry, InitFirst DEF ParserInv
<1>2. ParserInv /\ [Next]_vars => ParserInv'
  BY NextType, NextEntry, NextFirst DEF ParserInv
<1> QED
  BY <1>1, <1>2, PTL DEF Spec

(* Type correctness, of every field the parser and usb_set_maxpacket compute with. *)
THEOREM ParserTypes == Spec => []TypeOK
<1>1. ParserInv => TypeOK
  BY DEF ParserInv
<1> QED
  BY <1>1, AlwaysParser, PTL

(* usb_parse_config finds every interface once, with all its settings, and never more than
   bNumInterfaces. *)
THEOREM InterfacesFound == Spec => []InterfacesRight
<1>1. ParserInv => InterfacesRight
  BY DEF ParserInv, EntryInv
<1> QED
  BY <1>1, AlwaysParser, PTL

(* The endpoints of the first setting are the first in ep_desc, in their order. *)
THEOREM DefaultsFirst == Spec => []DefaultEndpoints
<1>1. ParserInv => DefaultEndpoints
  BY DEF ParserInv, FirstInv
<1> QED
  BY <1>1, AlwaysParser, PTL

-----------------------------------------------------------------------------
(* The table of packet sizes.                                              *)

LEMMA NothingPassed ==
  loop = [i |-> 1, ii |-> 1] /\ (\A n \in Addresses, d \in Dirs : max[n][d] = 0)
    => \A n \in Addresses, d \in Dirs : Agrees(n, d)
<1> SUFFICES ASSUME loop = [i |-> 1, ii |-> 1],
                    \A n \in Addresses, d \in Dirs : max[n][d] = 0,
                    NEW n \in Addresses, NEW d \in Dirs
             PROVE  Agrees(n, d)
  OBVIOUS
<1>1. loop.i = 1 /\ loop.ii = 1
  OBVIOUS
<1>2. ASSUME NEW i \in 1..Len(dev), NEW j \in 1..Len(First(i).eps) PROVE ~Passed(i, j)
  BY <1>1 DEF Passed
<1> QED
  BY <1>2 DEF Agrees

LEMMA InitMax == Init => MaxInv
<1> SUFFICES ASSUME Init PROVE MaxInv
  OBVIOUS
<1>1. at = "header" /\ loop = [i |-> 1, ii |-> 1]
  BY DEF Init
<1>2. \A n \in Addresses, d \in Dirs : max[n][d] = 0
  BY DEF Init
<1> QED
  BY <1>1, <1>2, NothingPassed DEF MaxInv

(* Two endpoints that cover a direction of an address clash. *)
LEMMA CoverClash ==
  ASSUME NEW e, NEW f, NEW n, NEW d, Covers(e, n, d), Covers(f, n, d)
  PROVE  Clash(e, f)
BY DEF Covers, Clash

LEMMA SizePositive ==
  ASSUME NEW e \in Endpoints
  PROVE  e.size \in Nat \ {0} /\ Larger(0, e.size) = e.size
<1>1. e.size \in Nat \ {0}
  BY DEF Endpoints
<1> QED
  BY <1>1 DEF Larger

LEMMA EndpointStep ==
  ASSUME TypeOK, EntryInv, FirstInv, ClashInv, MaxInv, MaxpacketEp
  PROVE  \A n \in Addresses, d \in Dirs : Agrees(n, d)'
<1>a. loop.i \in Nat /\ loop.ii \in Nat \ {0}
  BY DEF TypeOK
<1>b. PICK I \in Nat, J \in Nat \ {0} : I = loop.i /\ J = loop.ii
  BY <1>a
<1>c. PICK e : e = First(I).eps[J]
  OBVIOUS
<1>1. /\ at = "maxpacket" /\ I <= nif /\ J <= LoopEnd(ifs[I]) /\ UNCHANGED dev
      /\ loop' = [loop EXCEPT !.ii = @ + 1] /\ SetMaxpacketEp(ifs[I].eps[J])
  BY <1>b DEF MaxpacketEp
<1>2. /\ I \in 1..Len(dev) /\ J \in 1..Len(First(I).eps) /\ ifs[I].eps[J] = e
      /\ e \in Endpoints
  <2>1. /\ I \in 1..Len(dev) /\ LoopEnd(ifs[I]) = Len(First(I).eps)
        /\ Len(First(I).eps) \in 0..MaxEp
        /\ \A j \in 1..Len(First(I).eps) :
             ifs[I].eps[j] = First(I).eps[j] /\ ifs[I].eps[j] \in Endpoints
    BY <1>1, <1>b, LoopEntry
  <2>2. J \in 1..Len(First(I).eps)
    BY <1>1, <2>1
  <2> QED
    BY <1>c, <2>1, <2>2
<1>3. \A n \in Addresses, d \in Dirs :
        max'[n][d] = IF Covers(e, n, d)
                     THEN IF e.control THEN e.size ELSE Larger(max[n][d], e.size)
                     ELSE max[n][d]
  BY <1>1, <1>2, SetEpType
<1>4. loop'.i = I /\ loop'.ii = J + 1
  BY <1>1, <1>b DEF TypeOK
<1>5. ASSUME NEW i \in 1..Len(dev), NEW j \in 1..Len(First(i).eps)
      PROVE  /\ First(i)' = First(i)
             /\ Passed(i, j)' <=> Passed(i, j) \/ (i = I /\ j = J)
             /\ ~(Passed(i, j) /\ i = I /\ j = J)
  BY <1>1, <1>4, <1>b DEF First, Passed
<1> SUFFICES ASSUME NEW n \in Addresses, NEW d \in Dirs PROVE Agrees(n, d)'
  OBVIOUS
<1>6. Agrees(n, d)
  BY DEF MaxInv
<1>7. CASE Covers(e, n, d)
  <2>1. ASSUME NEW i \in 1..Len(dev), NEW j \in 1..Len(First(i).eps),
               Covers(First(i).eps[j], n, d)
        PROVE  i = I /\ j = J
    <3>1. Clash(First(i).eps[j], First(I).eps[J])
      BY <1>7, <1>c, <2>1, CoverClash
    <3> QED
      BY <1>2, <3>1 DEF ClashInv
  <2>2. \A i \in 1..Len(dev) : \A j \in 1..Len(First(i).eps) :
          Passed(i, j) => ~Covers(First(i).eps[j], n, d)
    BY <1>5, <2>1
  <2>3. max[n][d] = 0
    BY <1>6, <2>2 DEF Agrees
  <2>4. max'[n][d] = e.size
    BY <1>2, <1>3, <1>7, <2>3, SizePositive
  <2>5. Passed(I, J)'
    BY <1>4 DEF Passed
  <2>6. ASSUME NEW i \in 1..Len(dev'), NEW j \in 1..Len(First(i)'.eps),
               Covers(First(i)'.eps[j], n, d)
        PROVE  max'[n][d] = First(i)'.eps[j].size
    <3>1. i \in 1..Len(dev) /\ First(i)' = First(i)
      BY <1>1, <1>5 DEF First
    <3>2. i = I /\ j = J
      BY <2>1, <2>6, <3>1
    <3> QED
      BY <1>c, <2>4, <3>1, <3>2
  <2>7. ~\A i \in 1..Len(dev') : \A j \in 1..Len(First(i)'.eps) :
           Passed(i, j)' => ~Covers(First(i)'.eps[j], n, d)
    <3>1. Len(dev') = Len(dev) /\ Passed(I, J)' /\ First(I)' = First(I)
      BY <1>1, <1>2, <1>5, <2>5
    <3> QED
      BY <1>2, <1>7, <1>c, <3>1
  <2> QED
    BY <2>6, <2>7 DEF Agrees
<1>8. CASE ~Covers(e, n, d)
  <2>1. max'[n][d] = max[n][d] /\ Len(dev') = Len(dev)
    BY <1>1, <1>3, <1>8
  <2>2. ASSUME NEW i \in 1..Len(dev), NEW j \in 1..Len(First(i).eps),
               Covers(First(i).eps[j], n, d)
        PROVE  Passed(i, j)' <=> Passed(i, j)
    BY <1>5, <1>8, <1>c, <2>2
  <2>3. \A i \in 1..Len(dev) : First(i)' = First(i)
    BY <1>1 DEF First
  <2> QED
    BY <1>5, <1>6, <2>1, <2>2, <2>3 DEF Agrees
<1> QED
  BY <1>7, <1>8

LEMMA NextInterfaceStep ==
  ASSUME TypeOK, EntryInv, FirstInv, MaxInv, NextInterface
  PROVE  \A n \in Addresses, d \in Dirs : Agrees(n, d)'
<1>a. loop.i \in Nat /\ loop.ii \in Nat \ {0}
  BY DEF TypeOK
<1>b. PICK I \in Nat, J \in Nat \ {0} : I = loop.i /\ J = loop.ii
  BY <1>a
<1>1. /\ at = "maxpacket" /\ I <= nif /\ J > LoopEnd(ifs[I]) /\ UNCHANGED <<dev, max>>
      /\ loop'.i = I + 1 /\ loop'.ii = 1
  BY <1>b DEF NextInterface
<1>2. Len(First(I).eps) < J /\ Len(First(I).eps) \in Nat
  BY <1>1, <1>b, LoopEntry
<1>3. ASSUME NEW i \in 1..Len(dev), NEW j \in 1..Len(First(i).eps)
      PROVE  First(i)' = First(i) /\ (Passed(i, j)' <=> Passed(i, j))
  <2>1. Passed(i, j)' <=> i < I + 1 \/ (i = I + 1 /\ j < 1)
    BY <1>1 DEF Passed
  <2>2. Passed(i, j) <=> i < I \/ (i = I /\ j < J)
    BY <1>b DEF Passed
  <2>3. i = I => j < J
    BY <1>2
  <2>4. First(i)' = First(i)
    BY <1>1 DEF First
  <2> QED
    BY <2>1, <2>2, <2>3, <2>4
<1> SUFFICES ASSUME NEW n \in Addresses, NEW d \in Dirs PROVE Agrees(n, d)'
  OBVIOUS
<1>4. Agrees(n, d) /\ max'[n][d] = max[n][d] /\ Len(dev') = Len(dev)
  BY <1>1 DEF MaxInv
<1>5. \A i \in 1..Len(dev) : First(i)' = First(i)
  BY <1>1 DEF First
<1> QED
  BY <1>3, <1>4, <1>5 DEF Agrees

LEMMA NextMax ==
  TypeOK /\ EntryInv /\ FirstInv /\ ClashInv /\ MaxInv /\ [Next]_vars => MaxInv'
<1> SUFFICES ASSUME TypeOK, EntryInv, FirstInv, ClashInv, MaxInv, [Next]_vars PROVE MaxInv'
  OBVIOUS
<1>1. CASE UNCHANGED <<at, nif, loop, max, dev>>
  BY <1>1 DEF MaxInv, Agrees, Passed, First
<1>2. CASE NotConfig \/ Parsed
  <2>1. UNCHANGED <<nif, loop, max, dev>> /\ at' = "maxpacket"
    BY <1>2 DEF NotConfig, Parsed
  <2> QED
    BY <2>1 DEF MaxInv, Agrees, Passed, First
<1>3. CASE Config
  <2>1. UNCHANGED <<loop, max, dev>> /\ at = "header" /\ at' = "loop"
    BY <1>3 DEF Config
  <2> QED
    BY <2>1 DEF MaxInv, Agrees, Passed, First
<1>4. CASE OnInterface \/ OnEndpoint
  <2>1. UNCHANGED <<nif, loop, max>> /\ at = "loop" /\ at' = "loop"
    BY <1>4 DEF OnInterface, OnEndpoint, NextDescriptor
  <2>2. loop' = [i |-> 1, ii |-> 1] /\ \A n \in Addresses, d \in Dirs : max'[n][d] = 0
    BY <2>1 DEF MaxInv
  <2>3. (loop = [i |-> 1, ii |-> 1] /\ (\A n \in Addresses, d \in Dirs : max[n][d] = 0)
           => \A n \in Addresses, d \in Dirs : Agrees(n, d))'
    BY NothingPassed, PTL
  <2>4. \A n \in Addresses, d \in Dirs : Agrees(n, d)'
    BY <2>2, <2>3
  <2> QED
    BY <2>1, <2>2, <2>4 DEF MaxInv
<1>5. CASE MaxpacketEp
  <2>1. at' = "maxpacket"
    BY <1>5 DEF MaxpacketEp
  <2> QED
    BY <1>5, <2>1, EndpointStep DEF MaxInv
<1>6. CASE NextInterface
  <2>1. at' = "maxpacket"
    BY <1>6 DEF NextInterface
  <2> QED
    BY <1>6, <2>1, NextInterfaceStep DEF MaxInv
<1>7. CASE Maxpacket
  <2>1. UNCHANGED <<nif, loop, max, dev>> /\ at' = "ready" /\ loop.i > nif
    BY <1>7 DEF Maxpacket
  <2> QED
    BY <2>1 DEF MaxInv, Agrees, Passed, First
<1>8. CASE OnOther \/ SetInterface \/ UNCHANGED vars
  BY <1>1, <1>8 DEF OnOther, NextDescriptor, SetInterface, vars
<1> QED
  BY <1>2, <1>3, <1>4, <1>5, <1>6, <1>7, <1>8 DEF Next

SizesInv == ParserInv /\ ClashInv /\ MaxInv

LEMMA AlwaysSizes == Spec => []SizesInv
<1>1. Init => SizesInv
  BY InitType, InitEntry, InitFirst, InitClash, InitMax DEF SizesInv, ParserInv
<1>2. SizesInv /\ [Next]_vars => SizesInv'
  BY NextType, NextEntry, NextFirst, NextClash, NextMax DEF SizesInv, ParserInv
<1> QED
  BY <1>1, <1>2, PTL DEF Spec

(* When usb_set_maxpacket is done, the table holds the sizes the endpoints of the first
   settings announce, and 0 for every other address. *)
THEOREM PacketSizesFilled == Spec => []MaxPacketRight
<1>1. SizesInv => MaxPacketRight
  <2> SUFFICES ASSUME SizesInv, at = "ready", NEW n \in Addresses, NEW d \in Dirs
               PROVE  LET here == {e \in Default : e.n = n /\ (e.dir = d \/ e.control)}
                      IN  IF here = {} THEN max[n][d] = 0 ELSE \A e \in here : max[n][d] = e.size
    BY DEF MaxPacketRight
  <2> DEFINE here == {e \in Default : e.n = n /\ (e.dir = d \/ e.control)}
  <2>1. Agrees(n, d) /\ Len(dev) = nif /\ nif \in Nat /\ loop.i > nif /\ loop.i \in Nat
    BY DEF SizesInv, ParserInv, MaxInv, FirstInv, TypeOK
  <2>2. \A i \in 1..Len(dev) : \A j \in 1..Len(First(i).eps) : Passed(i, j)
    BY <2>1 DEF Passed
  <2>3. ASSUME NEW i \in 1..Len(dev), NEW j \in 1..Len(First(i).eps)
        PROVE  First(i).eps[j] \in Default
    <3>1. First(i).eps[j] \in EndpointsIn(dev[i].alts[1])
      BY DEF EndpointsIn, First
    <3> QED
      BY <3>1 DEF Default
  <2>4. ASSUME NEW e \in Default
        PROVE  \E i \in 1..Len(dev) : \E j \in 1..Len(First(i).eps) : e = First(i).eps[j]
    BY DEF Default, EndpointsIn, First
  <2>5. ASSUME here = {} PROVE max[n][d] = 0
    <3>1. \A i \in 1..Len(dev) : \A j \in 1..Len(First(i).eps) :
            ~Covers(First(i).eps[j], n, d)
      BY <2>3, <2>5 DEF Covers
    <3> QED
      BY <2>1, <3>1 DEF Agrees
  <2>6. ASSUME NEW e \in here PROVE max[n][d] = e.size
    <3>1. PICK i \in 1..Len(dev) : \E j \in 1..Len(First(i).eps) : e = First(i).eps[j]
      BY <2>4
    <3>2. PICK j \in 1..Len(First(i).eps) : e = First(i).eps[j]
      BY <3>1
    <3>3. Covers(First(i).eps[j], n, d)
      BY <3>2 DEF Covers
    <3> QED
      BY <2>1, <2>2, <3>2, <3>3 DEF Agrees
  <2> QED
    BY <2>5, <2>6
<1> QED
  BY <1>1, AlwaysSizes, PTL

(* usb_set_interface returns 0 only when the interface uses the setting asked for. *)
THEOREM SettingsSelected == Spec => []SettingSelected
<1>1. Init => SettingSelected
  BY DEF Init, NoCall, SettingSelected
<1>2. ParserInv /\ SettingSelected /\ [Next]_vars => SettingSelected'
  <2> SUFFICES ASSUME ParserInv, SettingSelected, [Next]_vars PROVE SettingSelected'
    OBVIOUS
  <2>1. CASE UNCHANGED call
    BY <2>1 DEF SettingSelected
  <2>2. CASE SetInterface
    <3>1. Len(dev) = nif /\ Len(ifs) = nif
      BY <2>2, TableLengths DEF SetInterface, ParserInv, FirstInv
    <3>2. ASSUME NEW n \in Numbers, Called(n, 0, "invalid", 0) PROVE SettingSelected'
      BY <3>2 DEF Called, SettingSelected
    <3>3. ASSUME NEW i \in 1..nif, NEW a \in 0 .. Len(dev[i].alts) - 1,
                 IF HasOneSetting(i) THEN Called(ifs[i].num, a, "ok", 0)
                 ELSE \/ Called(ifs[i].num, a, "ok", a)
                      \/ \E used \in {0, a} : Called(ifs[i].num, a, "error", used)
          PROVE  SettingSelected'
      <4>1. CASE HasOneSetting(i)
        <5>1. Len(dev[i].alts) = 1
          BY <3>1, <4>1 DEF HasOneSetting, ParserInv, EntryInv, InterfacesRight
        <5>2. a = 0
          BY <5>1
        <5> QED
          BY <3>3, <4>1, <5>2 DEF Called, SettingSelected
      <4>2. CASE ~HasOneSetting(i)
        BY <3>3, <4>2 DEF Called, SettingSelected
      <4> QED
        BY <4>1, <4>2
    <3> QED
      BY <2>2, <3>2, <3>3 DEF SetInterface
  <2> QED
    BY <2>1, <2>2 DEF Next, NotConfig, Config, OnInterface, OnEndpoint, OnOther, NextDescriptor,
       Parsed, MaxpacketEp, NextInterface, Maxpacket, vars
<1> QED
  BY <1>1, <1>2, AlwaysParser, PTL DEF Spec
=============================================================================
