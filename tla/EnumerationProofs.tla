------------------------- MODULE EnumerationProofs -------------------------
(***************************************************************************)
(* Theorems about Enumeration, for every value of its constants.           *)
(***************************************************************************)
EXTENDS Enumeration, TLAPS

USE EnumerationAssumption

----------------------------------------------------------------------------
(* What the operators the actions are built from do to the state.          *)

LEMMA Fields ==
  ASSUME TypeOK
  PROVE  /\ drv.at \in Places /\ drv.rec \in Records /\ drv.addr \in Records
         /\ drv.ret \in {"none", "found", "error"}
         /\ Scanned \in Devices /\ Pipe \in 0..MaxDevice /\ dev[Root].devnum \in 0..MaxDevice
         /\ per.addr \in 0..MaxDevice /\ per.rec \in 0..MaxDevice /\ per.size \in Sizes
         /\ per.cfg \in 0..1
<1>1. drv \in Drivers /\ dev \in [Records -> Devices] /\ per \in Peripherals
  BY DEF TypeOK
<1>2. /\ drv.at \in Places /\ drv.rec \in Records /\ drv.addr \in Records
      /\ drv.ret \in {"none", "found", "error"}
  BY <1>1, Zenon DEF Drivers
<1>3. Scanned \in Devices
  BY <1>1, <1>2, Zenon DEF Scanned
<1>4. Pipe \in 0..MaxDevice
  BY <1>3, Zenon DEF Pipe, Devices
<1>5. Root \in Records
  BY SMT DEF Root, Records
<1>6. dev[Root].devnum \in 0..MaxDevice
  BY <1>1, <1>5, Zenon DEF Devices
<1>7. /\ per.addr \in 0..MaxDevice /\ per.rec \in 0..MaxDevice /\ per.size \in Sizes
      /\ per.cfg \in 0..1
  BY <1>1, Zenon DEF Peripherals
<1> QED
  BY <1>2, <1>3, <1>4, <1>6, <1>7

LEMMA GotoStep ==
  ASSUME TypeOK, NEW p \in Places, Goto(p)
  PROVE  /\ drv' \in Drivers
         /\ drv'.at = p /\ drv'.rec = drv.rec /\ drv'.addr = drv.addr /\ drv'.ret = drv.ret
<1>1. drv \in Drivers
  BY DEF TypeOK
<1> QED
  BY <1>1, Zenon DEF Goto, Drivers

LEMMA UpdateStep ==
  ASSUME TypeOK, NEW d \in Devices, dev' = [dev EXCEPT ![drv.rec] = d]
  PROVE  /\ dev' \in [Records -> Devices] /\ dev'[drv.rec] = d
         /\ \A r \in Records \ {drv.rec} : dev'[r] = dev[r]
<1>1. dev \in [Records -> Devices] /\ drv.rec \in Records
  BY Fields DEF TypeOK
<1> QED
  BY <1>1, Zenon

(* A scan that has failed: the record d is marked. *)
LEMMA FailedRecord ==
  ASSUME NEW d \in Devices
  PROVE  /\ [d EXCEPT !.failed = TRUE] \in Devices
         /\ [d EXCEPT !.failed = TRUE].failed
         /\ [d EXCEPT !.failed = TRUE].devnum = d.devnum
BY Zenon DEF Devices

LEMMA FailStep ==
  ASSUME TypeOK, drv' = [drv EXCEPT !.at = IF drv.rec = Root THEN "hung" ELSE "return",
                                    !.ret = "error"]
  PROVE  /\ drv' \in Drivers
         /\ drv'.at = (IF drv.rec = Root THEN "hung" ELSE "return")
         /\ drv'.rec = drv.rec /\ drv'.addr = drv.addr /\ drv'.ret = "error"
<1>1. drv \in Drivers
  BY DEF TypeOK
<1>2. (IF drv.rec = Root THEN "hung" ELSE "return") \in Places
  BY DEF Places
<1> QED
  BY <1>1, <1>2, Zenon DEF Drivers

LEMMA FailMarks ==
  ASSUME TypeOK, Fail
  PROVE  /\ dev' \in [Records -> Devices]
         /\ dev'[drv.rec].failed /\ dev'[drv.rec].devnum = Scanned.devnum
         /\ \A r \in Records \ {drv.rec} : dev'[r] = dev[r]
<1>1. dev \in [Records -> Devices] /\ drv.rec \in Records /\ Scanned \in Devices
  BY Fields DEF TypeOK
<1>2. dev' = [dev EXCEPT ![drv.rec] = [Scanned EXCEPT !.failed = TRUE]]
  BY <1>1, Zenon DEF Fail, Scanned
<1> QED
  BY <1>1, <1>2, FailedRecord, UpdateStep

LEMMA BeginStep ==
  ASSUME TypeOK, NEW n \in Nat, n < MaxDevice, NEW table \in [Records -> Devices],
         Begin(table, n)
  PROVE  /\ ndev' = n + 1 /\ ndev' \in Records
         /\ dev' \in [Records -> Devices]
         /\ dev'[n + 1].devnum = 0 /\ ~dev'[n + 1].failed
         /\ \A r \in Records \ {n + 1} : dev'[r] = table[r]
         /\ drv' \in Drivers
         /\ drv'.at = "first" /\ drv'.rec = n + 1 /\ drv'.addr = n + 1 /\ drv'.ret = "none"
         /\ buf' \in Buffers
<1> DEFINE d == [Cleared EXCEPT !.size = 64, !.code = 64]
<1>1. n + 1 \in Records
  BY SMT DEF Records
<1>2. Cleared \in Devices
  <2>1. 0 \in 0..MaxDevice /\ 0 \in 0..2
    BY SMT
  <2> QED
    BY <2>1, Zenon DEF Cleared, Devices
<1>3. d \in Devices
  BY <1>2, Zenon DEF Devices
<1>4. d.devnum = 0 /\ ~d.failed
  BY Zenon DEF Cleared
<1>5. ndev' = n + 1 /\ dev' = [table EXCEPT ![n + 1] = d]
  BY Zenon DEF Begin, Taken
<1>6. drv' = [drv EXCEPT !.at = "first", !.rec = n + 1, !.addr = n + 1, !.ret = "none"]
  BY Zenon DEF Begin, AddressOf
<1>7. drv \in Drivers /\ "first" \in Places
  BY DEF TypeOK, Places
<1>8. /\ drv' \in Drivers
      /\ drv'.at = "first" /\ drv'.rec = n + 1 /\ drv'.addr = n + 1 /\ drv'.ret = "none"
  BY <1>1, <1>6, <1>7, Zenon DEF Drivers
<1>9. buf' \in Buffers
  BY Zenon DEF Begin, Buffers, Contents
<1> HIDE DEF d
<1>10. /\ dev' \in [Records -> Devices] /\ dev'[n + 1] = d
       /\ \A r \in Records \ {n + 1} : dev'[r] = table[r]
  BY <1>1, <1>3, <1>5, Zenon
<1> QED
  BY <1>1, <1>4, <1>5, <1>8, <1>9, <1>10

LEMMA SendStep ==
  ASSUME TypeOK, NEW a \in 0..MaxDevice, Send(a)
  PROVE  sent' \in Messages /\ sent'.rec = drv.rec /\ sent'.route = Route(a)
<1>1. drv.rec \in 0..MaxDevice
  BY Fields, SMT DEF Records
<1>2. Route(a) \in {"none", "root", "bus"}
  BY DEF Route
<1> QED
  BY <1>1, <1>2, Zenon DEF Send, Messages

LEMMA AskStep ==
  ASSUME TypeOK, AskHub
  PROVE  sent' \in Messages /\ sent'.rec = Root /\ sent'.route = Route(dev[Root].devnum)
<1>1. Root \in 0..MaxDevice /\ dev[Root].devnum \in 0..MaxDevice
  BY Fields, SMT DEF Root
<1>2. Route(dev[Root].devnum) \in {"none", "root", "bus"}
  BY DEF Route
<1> QED
  BY <1>1, <1>2, Zenon DEF AskHub, Messages

LEMMA ResetStep ==
  ASSUME TypeOK, NEW r \in 0..MaxDevice
  PROVE  /\ Reset(r) \in Peripherals
         /\ Reset(r).awake /\ Reset(r).addr = 0 /\ Reset(r).cfg = 0 /\ Reset(r).rec = r
         /\ Reset(r).there = per.there /\ Reset(r).size = per.size
<1>1. per \in Peripherals /\ 0 \in 0..1 /\ 0 \in 0..MaxDevice
  BY SMT DEF TypeOK
<1> QED
  BY <1>1, Zenon DEF Reset, Peripherals

----------------------------------------------------------------------------
(* What each action does, in facts about single fields, and that it keeps  *)
(* the types.                                                              *)

Moved(p) == drv'.at = p /\ drv'.rec = drv.rec /\ drv'.addr = drv.addr /\ ndev' = ndev
Others == \A r \in Records \ {drv.rec} : dev'[r] = dev[r]
Failed == /\ Moved(IF drv.rec = Root THEN "hung" ELSE "return") /\ drv'.ret = "error"
          /\ Others /\ dev'[drv.rec].failed
          /\ dev'[drv.rec].devnum \in {Scanned.devnum, drv.addr}
Disabled == /\ per'.there = per.there /\ per'.rec = per.rec /\ per'.addr = per.addr
            /\ per'.cfg = per.cfg /\ per'.size = per.size /\ per'.awake \in {per.awake, FALSE}

LEMMA DisableStep == TypeOK /\ MayDisable => per' \in Peripherals /\ Disabled
<1> SUFFICES ASSUME TypeOK, MayDisable PROVE per' \in Peripherals /\ Disabled
  OBVIOUS
<1>1. per \in Peripherals
  BY DEF TypeOK
<1>2. CASE per' = per
  BY <1>1, <1>2, Zenon DEF Disabled
<1>3. CASE per' = [per EXCEPT !.awake = FALSE]
  BY <1>1, <1>3, Zenon DEF Peripherals, Disabled
<1> QED
  BY <1>2, <1>3 DEF MayDisable

LEMMA FailEffect ==
  ASSUME TypeOK, Fail, ndev' = ndev
  PROVE  drv' \in Drivers /\ dev' \in [Records -> Devices] /\ Failed
<1>1. drv' = [drv EXCEPT !.at = IF drv.rec = Root THEN "hung" ELSE "return", !.ret = "error"]
  BY Zenon DEF Fail
<1>2. /\ drv' \in Drivers /\ Moved(IF drv.rec = Root THEN "hung" ELSE "return")
      /\ drv'.ret = "error"
  BY <1>1, FailStep DEF Moved
<1>3. dev' \in [Records -> Devices] /\ Others /\ dev'[drv.rec].failed
      /\ dev'[drv.rec].devnum = Scanned.devnum
  BY FailMarks DEF Others
<1> QED
  BY <1>2, <1>3 DEF Failed

LEMMA BootEffect ==
  ASSUME TypeOK, Boot
  PROVE  /\ TypeOK'
         /\ drv.at = "boot" /\ rootdev' = 0 /\ ndev' = 1 /\ sent' = sent
         /\ drv'.at = "first" /\ drv'.rec = 1 /\ drv'.addr = 1 /\ drv'.ret = "none"
         /\ dev'[1].devnum = 0 /\ ~dev'[1].failed
         /\ ~per'.awake /\ per'.rec = 0 /\ per'.addr = per.addr /\ per'.cfg = per.cfg
<1> DEFINE t == [r \in Records |-> Cleared]
<1>1. 0 \in 0..MaxDevice /\ 0 \in 0..2 /\ 0 < MaxDevice /\ 0 \in Nat
  BY SMT
<1>2. Cleared \in Devices
  BY <1>1, Zenon DEF Cleared, Devices
<1>3. t \in [Records -> Devices] /\ Begin(t, 0)
  BY <1>2 DEF Boot
<1> HIDE DEF t
<1>4. /\ ndev' = 1 /\ ndev' \in Records /\ dev' \in [Records -> Devices]
      /\ dev'[1].devnum = 0 /\ ~dev'[1].failed
      /\ drv' \in Drivers
      /\ drv'.at = "first" /\ drv'.rec = 1 /\ drv'.addr = 1 /\ drv'.ret = "none"
      /\ buf' \in Buffers
  <2>1. 0 + 1 = 1
    BY SMT
  <2> QED
    BY <1>1, <1>3, <2>1, BeginStep
<1>5. per \in Peripherals /\ per' = [per EXCEPT !.awake = FALSE, !.rec = 0]
  BY Zenon DEF Boot, TypeOK
<1>6. /\ per' \in Peripherals /\ ~per'.awake /\ per'.rec = 0 /\ per'.addr = per.addr
      /\ per'.cfg = per.cfg
  BY <1>1, <1>5, Zenon DEF Peripherals
<1>7. drv.at = "boot" /\ rootdev' = 0 /\ sent' = sent /\ replugs' = replugs
  BY Zenon DEF Boot, FreshRootdev
<1>8. ndev' \in 0..MaxDevice
  BY <1>4, SMT
<1> QED
  BY <1>1, <1>4, <1>6, <1>7, <1>8 DEF TypeOK

LEMMA HubScanEffect ==
  ASSUME TypeOK, HubScan
  PROVE  /\ TypeOK'
         /\ drv.at = "scan" /\ rootdev' = rootdev
         /\ sent'.rec = Root /\ sent'.route = Route(dev[Root].devnum)
         /\ \/ Moved("return") /\ drv'.ret # "found" /\ dev' = dev /\ Disabled
            \/ Moved("return") /\ drv'.ret # "found" /\ dev' = dev /\ per.there
               /\ per' = Reset(0)
            \/ /\ ndev < MaxDevice /\ ndev' = ndev + 1
               /\ drv'.at = "first" /\ drv'.rec = ndev + 1 /\ drv'.addr = ndev + 1
               /\ drv'.ret = "none"
               /\ dev'[ndev + 1].devnum = 0 /\ ~dev'[ndev + 1].failed
               /\ \A r \in Records \ {ndev + 1} : dev'[r] = dev[r]
               /\ per.there /\ per' = Reset(ndev + 1)
<1>1. drv.at = "scan" /\ rootdev' = rootdev /\ replugs' = replugs /\ AskHub
  BY Zenon DEF HubScan
<1>2. sent' \in Messages /\ sent'.rec = Root /\ sent'.route = Route(dev[Root].devnum)
  BY <1>1, AskStep
<1>3. drv \in Drivers /\ "return" \in Places /\ ndev \in Nat
  BY SMT DEF TypeOK, Places
<1>4. ASSUME NEW r \in {"none", "error"}, drv' = [drv EXCEPT !.at = "return", !.ret = r],
             UNCHANGED <<ndev, dev, buf>>
      PROVE  drv' \in Drivers /\ Moved("return") /\ drv'.ret # "found" /\ dev' = dev
  <2>1. r \in {"none", "found", "error"} /\ r # "found"
    BY <1>4
  <2> QED
    BY <1>3, <1>4, <2>1, Zenon DEF Drivers, Moved
<1>5. CASE /\ \E r \in {"none", "error"} : drv' = [drv EXCEPT !.at = "return", !.ret = r]
           /\ MayDisable
           /\ UNCHANGED <<ndev, dev, buf>>
  BY <1>1, <1>2, <1>4, <1>5, DisableStep DEF TypeOK
<1>6. CASE /\ per.there /\ Full
           /\ drv' = [drv EXCEPT !.at = "return", !.ret = "error"]
           /\ per' = Reset(0)
           /\ UNCHANGED <<ndev, dev, buf>>
  <2>1. 0 \in 0..MaxDevice /\ "error" \in {"none", "error"}
    BY SMT
  <2>2. per' \in Peripherals
    BY <1>6, <2>1, ResetStep
  <2> QED
    BY <1>1, <1>2, <1>4, <1>6, <2>1, <2>2 DEF TypeOK
<1>7. CASE per.there /\ ~Full /\ Begin(dev, ndev) /\ per' = Reset(ndev + 1)
  <2>1. ndev < MaxDevice /\ ndev + 1 \in 0..MaxDevice
    BY <1>3, <1>7, SMT DEF Full, TypeOK
  <2>2. per' \in Peripherals
    BY <1>7, <2>1, ResetStep
  <2>3. dev \in [Records -> Devices]
    BY DEF TypeOK
  <2>4. /\ ndev' = ndev + 1 /\ dev' \in [Records -> Devices]
        /\ dev'[ndev + 1].devnum = 0 /\ ~dev'[ndev + 1].failed
        /\ \A r \in Records \ {ndev + 1} : dev'[r] = dev[r]
        /\ drv' \in Drivers
        /\ drv'.at = "first" /\ drv'.rec = ndev + 1 /\ drv'.addr = ndev + 1
        /\ drv'.ret = "none" /\ buf' \in Buffers
    BY <1>3, <1>7, <2>1, <2>3, BeginStep
  <2>5. TypeOK'
    BY <1>1, <1>2, <2>1, <2>2, <2>4 DEF TypeOK
  <2> QED
    BY <1>1, <1>2, <1>7, <2>1, <2>4, <2>5
<1> QED
  BY <1>5, <1>6, <1>7 DEF HubScan

LEMMA PipeInRange == TypeOK => Pipe \in 0..MaxDevice /\ DefaultPipe \in 0..MaxDevice
BY Fields, SMT DEF DefaultPipe

LEMMA FirstDescriptorEffect ==
  ASSUME TypeOK, FirstDescriptor
  PROVE  /\ TypeOK'
         /\ drv.at = "first" /\ rootdev' = rootdev /\ per' = per
         /\ sent'.rec = drv.rec /\ sent'.route = Route(Pipe)
         /\ \/ Failed
            \/ /\ Moved(IF drv.rec = Root THEN "address" ELSE "reset") /\ Others
               /\ dev'[drv.rec].devnum = Scanned.devnum
               /\ dev'[drv.rec].failed = Scanned.failed
               /\ dev'[drv.rec].size \in Sizes \cup {0}
               /\ drv.rec # Root => dev'[drv.rec].size \in {per.size, 0}
<1>1. /\ drv.at = "first" /\ rootdev' = rootdev /\ ndev' = ndev /\ per' = per
      /\ replugs' = replugs /\ Send(Pipe)
  BY Zenon DEF FirstDescriptor
<1>2. sent' \in Messages /\ sent'.rec = drv.rec /\ sent'.route = Route(Pipe)
  BY <1>1, PipeInRange, SendStep
<1>3. PICK r \in Replies(Pipe) :
        IF Result(Pipe, r, DeviceLength, 64) < 0 THEN Fail /\ UNCHANGED buf
        ELSE /\ buf' = IF r = "full" THEN [head |-> "device", rest |-> "device"] ELSE buf
             /\ Update([Scanned EXCEPT !.size = FirstSize(r)])
             /\ Goto(IF drv.rec = Root THEN "address" ELSE "reset")
  BY Zenon DEF FirstDescriptor
<1>4. CASE Fail /\ UNCHANGED buf
  BY <1>1, <1>2, <1>4, FailEffect DEF TypeOK
<1>5. CASE /\ buf' = IF r = "full" THEN [head |-> "device", rest |-> "device"] ELSE buf
           /\ Update([Scanned EXCEPT !.size = FirstSize(r)])
           /\ Goto(IF drv.rec = Root THEN "address" ELSE "reset")
  <2> DEFINE d == [Scanned EXCEPT !.size = FirstSize(r)]
  <2>1. FirstSize(r) \in Sizes \cup {0} /\ (drv.rec # Root => FirstSize(r) \in {per.size, 0})
    BY Fields DEF FirstSize
  <2>2. Scanned \in Devices
    BY Fields
  <2>3. d \in Devices /\ d.devnum = Scanned.devnum /\ d.failed = Scanned.failed
        /\ d.size = FirstSize(r)
    BY <2>1, <2>2, Zenon DEF Devices
  <2> HIDE DEF d
  <2>4. dev' = [dev EXCEPT ![drv.rec] = d]
    BY <1>5, Zenon DEF Update, d
  <2>5. dev' \in [Records -> Devices] /\ dev'[drv.rec] = d /\ Others
    BY <2>3, <2>4, UpdateStep DEF Others
  <2>6. (IF drv.rec = Root THEN "address" ELSE "reset") \in Places
    BY DEF Places
  <2>7. drv' \in Drivers /\ Moved(IF drv.rec = Root THEN "address" ELSE "reset")
    BY <1>1, <1>5, <2>6, GotoStep DEF Moved
  <2>8. [head |-> "device", rest |-> "device"] \in Buffers
    BY Zenon DEF Buffers, Contents
  <2>9. buf' \in Buffers
    BY <1>5, <2>8 DEF TypeOK
  <2>10. TypeOK'
    BY <1>1, <1>2, <2>5, <2>7, <2>9 DEF TypeOK
  <2> QED
    BY <1>1, <1>2, <2>1, <2>3, <2>5, <2>7, <2>10
<1> QED
  BY <1>3, <1>4, <1>5

LEMMA SecondResetEffect ==
  ASSUME TypeOK, SecondReset
  PROVE  /\ TypeOK'
         /\ drv.at = "reset" /\ rootdev' = rootdev
         /\ sent'.rec = Root /\ sent'.route = Route(dev[Root].devnum)
         /\ \/ per.there /\ per' = Reset(per.rec) /\ Moved("address") /\ dev' = dev
            \/ Failed /\ Disabled
<1>1. /\ drv.at = "reset" /\ rootdev' = rootdev /\ ndev' = ndev /\ buf' = buf
      /\ replugs' = replugs /\ AskHub
  BY Zenon DEF SecondReset
<1>2. sent' \in Messages /\ sent'.rec = Root /\ sent'.route = Route(dev[Root].devnum)
  BY <1>1, AskStep
<1>3. CASE per.there /\ per' = Reset(per.rec) /\ Goto("address") /\ UNCHANGED dev
  <2>1. per' \in Peripherals
    BY <1>3, Fields, ResetStep
  <2>2. "address" \in Places
    BY DEF Places
  <2>3. drv' \in Drivers /\ Moved("address")
    BY <1>1, <1>3, <2>2, GotoStep DEF Moved
  <2> QED
    BY <1>1, <1>2, <1>3, <2>1, <2>3 DEF TypeOK
<1>4. CASE Fail /\ MayDisable
  BY <1>1, <1>2, <1>4, FailEffect, DisableStep DEF TypeOK
<1> QED
  BY <1>3, <1>4 DEF SecondReset

LEMMA SetAddressEffect ==
  ASSUME TypeOK, SetAddress
  PROVE  /\ TypeOK'
         /\ drv.at = "address"
         /\ sent'.rec = drv.rec /\ sent'.route = Route(DefaultPipe)
         /\ rootdev' = IF Route(DefaultPipe) = "root" THEN drv.addr ELSE rootdev
         /\ \E o \in Outcomes(DefaultPipe) :
              /\ per' = IF Route(DefaultPipe) = "bus" /\ Took(o)
                        THEN [per EXCEPT !.addr = drv.addr] ELSE per
              /\ \/ Failed /\ ~Answered(o)
                 \/ /\ Answered(o) /\ Moved("descriptor") /\ Others
                    /\ dev'[drv.rec].devnum = drv.addr
                    /\ dev'[drv.rec].failed = Scanned.failed
                    /\ dev'[drv.rec].size = Scanned.size
                    /\ dev'[drv.rec].code \in Coded(Scanned)
<1>1. /\ drv.at = "address" /\ ndev' = ndev /\ buf' = buf /\ replugs' = replugs
      /\ Send(DefaultPipe)
  BY Zenon DEF SetAddress, AddressPipe
<1>2. sent' \in Messages /\ sent'.rec = drv.rec /\ sent'.route = Route(DefaultPipe)
  BY <1>1, PipeInRange, SendStep
<1>3. PICK o \in Outcomes(DefaultPipe), c \in Coded(Scanned) :
       /\ rootdev' = IF Route(DefaultPipe) = "root" THEN drv.addr ELSE rootdev
       /\ per' = IF Route(DefaultPipe) = "bus" /\ Took(o)
                 THEN [per EXCEPT !.addr = drv.addr] ELSE per
       /\ LET d == [Scanned EXCEPT !.devnum = drv.addr, !.code = c]
          IN  IF Answered(o) THEN Update(d) /\ Goto("descriptor")
              ELSE /\ dev' = [dev EXCEPT ![drv.rec] = [d EXCEPT !.failed = TRUE]]
                   /\ drv' = [drv EXCEPT !.at = IF drv.rec = Root THEN "hung" ELSE "return",
                                         !.ret = "error"]
  BY Zenon DEF SetAddress, AddressPipe
<1> DEFINE d == [Scanned EXCEPT !.devnum = drv.addr, !.code = c]
<1>4. Scanned \in Devices /\ drv.addr \in 0..MaxDevice
  BY Fields, SMT DEF Records
<1>5. c \in Sizes \cup {0}
  <2>1. Scanned.code \in Sizes \cup {0}
    BY <1>4, Zenon DEF Devices
  <2> QED
    BY <2>1 DEF Coded
<1>6. d \in Devices /\ d.devnum = drv.addr /\ d.failed = Scanned.failed
      /\ d.size = Scanned.size /\ d.code = c
  BY <1>4, <1>5, Zenon DEF Devices
<1>7. rootdev' \in 0..MaxDevice
  BY <1>3, <1>4 DEF TypeOK
<1>8. per' \in Peripherals
  <2>1. per \in Peripherals
    BY DEF TypeOK
  <2>2. [per EXCEPT !.addr = drv.addr] \in Peripherals
    BY <1>4, <2>1, Zenon DEF Peripherals
  <2> QED
    BY <1>3, <2>1, <2>2
<1>9. IF Answered(o) THEN dev' = [dev EXCEPT ![drv.rec] = d] /\ Goto("descriptor")
      ELSE /\ dev' = [dev EXCEPT ![drv.rec] = [d EXCEPT !.failed = TRUE]]
           /\ drv' = [drv EXCEPT !.at = IF drv.rec = Root THEN "hung" ELSE "return",
                                 !.ret = "error"]
  BY <1>3, Zenon DEF Update
<1> HIDE DEF d
<1>10. CASE Answered(o)
  <2>1. dev' \in [Records -> Devices] /\ dev'[drv.rec] = d /\ Others
    BY <1>6, <1>9, <1>10, UpdateStep DEF Others
  <2>2. "descriptor" \in Places
    BY DEF Places
  <2>3. drv' \in Drivers /\ Moved("descriptor")
    BY <1>1, <1>9, <1>10, <2>2, GotoStep DEF Moved
  <2>4. TypeOK'
    BY <1>1, <1>2, <1>7, <1>8, <2>1, <2>3 DEF TypeOK
  <2> QED
    BY <1>1, <1>2, <1>3, <1>6, <1>10, <2>1, <2>3, <2>4
<1>11. CASE ~Answered(o)
  <2>1. /\ [d EXCEPT !.failed = TRUE] \in Devices /\ [d EXCEPT !.failed = TRUE].failed
        /\ [d EXCEPT !.failed = TRUE].devnum = drv.addr
    BY <1>6, FailedRecord
  <2>2. /\ dev' \in [Records -> Devices] /\ dev'[drv.rec].failed
        /\ dev'[drv.rec].devnum = drv.addr /\ Others
    BY <1>9, <1>11, <2>1, UpdateStep DEF Others
  <2>3. drv' \in Drivers /\ Moved(IF drv.rec = Root THEN "hung" ELSE "return")
        /\ drv'.ret = "error"
    BY <1>1, <1>9, <1>11, FailStep DEF Moved
  <2>4. Failed
    BY <2>2, <2>3 DEF Failed
  <2>5. TypeOK'
    BY <1>1, <1>2, <1>7, <1>8, <2>2, <2>3 DEF TypeOK
  <2> QED
    BY <1>1, <1>2, <1>3, <1>11, <2>4, <2>5
<1> QED
  BY <1>10, <1>11

LEMMA FullDescriptorEffect ==
  ASSUME TypeOK, FullDescriptor
  PROVE  /\ TypeOK'
         /\ drv.at = "descriptor" /\ rootdev' = rootdev /\ per' = per
         /\ sent'.rec = drv.rec /\ sent'.route = Route(Pipe)
         /\ Failed \/ (Moved("header") /\ dev' = dev)
<1>1. /\ drv.at = "descriptor" /\ rootdev' = rootdev /\ ndev' = ndev /\ per' = per
      /\ buf' = buf /\ replugs' = replugs /\ Send(Pipe)
  BY Zenon DEF FullDescriptor
<1>2. sent' \in Messages /\ sent'.rec = drv.rec /\ sent'.route = Route(Pipe)
  BY <1>1, PipeInRange, SendStep
<1>3. Fail \/ (Goto("header") /\ UNCHANGED dev)
  BY Zenon DEF FullDescriptor
<1>4. CASE Fail
  BY <1>1, <1>2, <1>4, FailEffect DEF TypeOK
<1>5. CASE Goto("header") /\ UNCHANGED dev
  <2>1. "header" \in Places
    BY DEF Places
  <2>2. drv' \in Drivers /\ Moved("header")
    BY <1>1, <1>5, <2>1, GotoStep DEF Moved
  <2> QED
    BY <1>1, <1>2, <1>5, <2>2 DEF TypeOK
<1> QED
  BY <1>3, <1>4, <1>5

LEMMA FillTypes ==
  ASSUME NEW a, NEW r, NEW old \in Contents, NEW c \in Fill(a, r, old, "config")
  PROVE  c \in Contents
BY DEF Fill, Contents

LEMMA ReadConfigEffect ==
  ASSUME TypeOK, ConfigHeader \/ WholeConfig
  PROVE  /\ TypeOK'
         /\ drv.at \in {"header", "config"} /\ rootdev' = rootdev /\ per' = per /\ dev' = dev
         /\ sent'.rec = drv.rec /\ sent'.route = Route(Pipe)
         /\ \E p \in {"config", "parse"} : Moved(p)
<1>1. /\ drv.at \in {"header", "config"} /\ rootdev' = rootdev /\ ndev' = ndev
      /\ per' = per /\ dev' = dev /\ replugs' = replugs /\ Send(Pipe)
  BY Zenon DEF ConfigHeader, WholeConfig
<1>2. sent' \in Messages /\ sent'.rec = drv.rec /\ sent'.route = Route(Pipe)
  BY <1>1, PipeInRange, SendStep
<1>3. buf \in Buffers /\ buf.head \in Contents /\ buf.rest \in Contents
  BY Zenon DEF TypeOK, Buffers
<1>4. buf' \in Buffers
  <2>1. CASE ConfigHeader
    <3>1. PICK r \in Replies(Pipe) :
            \E c \in Fill(Pipe, r, buf.head, "config") : buf' = [buf EXCEPT !.head = c]
      BY <2>1, Zenon DEF ConfigHeader
    <3>2. PICK c \in Fill(Pipe, r, buf.head, "config") : buf' = [buf EXCEPT !.head = c]
      BY <3>1
    <3>3. c \in Contents
      BY <1>3, <3>2, FillTypes
    <3> QED
      BY <1>3, <3>2, <3>3, Zenon DEF Buffers
  <2>2. CASE WholeConfig
    <3>1. PICK r \in Replies(Pipe) :
            \E h \in Fill(Pipe, r, buf.head, "config"), c \in Fill(Pipe, r, buf.rest, "config") :
              buf' = [head |-> h, rest |-> c]
      BY <2>2, Zenon DEF WholeConfig
    <3>2. PICK h \in Fill(Pipe, r, buf.head, "config"), c \in Fill(Pipe, r, buf.rest, "config") :
            buf' = [head |-> h, rest |-> c]
      BY <3>1
    <3>3. h \in Contents /\ c \in Contents
      BY <1>3, <3>2, FillTypes
    <3> QED
      BY <3>2, <3>3, Zenon DEF Buffers
  <2> QED
    BY <2>1, <2>2
<1>5. \E p \in {"config", "parse"} : Goto(p)
  BY Zenon DEF ConfigHeader, WholeConfig
<1>6. PICK p \in {"config", "parse"} : Goto(p)
  BY <1>5
<1>7. p \in Places
  BY DEF Places
<1>8. drv' \in Drivers /\ Moved(p)
  BY <1>1, <1>6, <1>7, GotoStep DEF Moved
<1> QED
  BY <1>1, <1>2, <1>4, <1>8 DEF TypeOK

LEMMA ParseEffect ==
  ASSUME TypeOK, ParseConfig
  PROVE  /\ TypeOK'
         /\ drv.at = "parse" /\ rootdev' = rootdev /\ per' = per /\ sent' = sent
         /\ buf' = buf /\ Moved("configure") /\ Others
         /\ dev'[drv.rec].devnum = Scanned.devnum
         /\ dev'[drv.rec].failed = Scanned.failed
         /\ dev'[drv.rec].code = Scanned.code
         /\ dev'[drv.rec].ifs # "junk" => dev'[drv.rec].size = Scanned.size
         /\ ConfigRead => dev'[drv.rec].value = 1 /\ dev'[drv.rec].ifs = "right"
<1>1. /\ drv.at = "parse" /\ rootdev' = rootdev /\ ndev' = ndev /\ per' = per
      /\ sent' = sent /\ buf' = buf /\ replugs' = replugs /\ Goto("configure")
  BY Zenon DEF ParseConfig
<1>2. PICK c \in Parsed(Scanned) :
        \E e \in SetMaxpacket(c) : dev' = [dev EXCEPT ![drv.rec] = e]
  BY Zenon DEF ParseConfig, Update
<1>3. PICK d \in SetMaxpacket(c) : dev' = [dev EXCEPT ![drv.rec] = d]
  BY <1>2
<1>0. Scanned \in Devices
  BY Fields
<1>9. /\ c \in Devices /\ c.devnum = Scanned.devnum /\ c.failed = Scanned.failed
      /\ c.size = Scanned.size /\ c.code = Scanned.code
      /\ ConfigRead => c.value = 1 /\ c.ifs = "right"
  <2>1. \/ c = Scanned /\ ~ConfigRead
        \/ c = [Scanned EXCEPT !.value = 1, !.ifs = "right"]
        \/ \E v \in 0..2 : c = [Scanned EXCEPT !.value = v, !.ifs = "junk"] /\ ~ConfigRead
    <3>1. 1 \in 0..2 /\ "junk" # "config" /\ "right" # "junk"
      BY SMT
    <3>2. CASE buf.head = "config"
      BY <1>2, <3>1, <3>2, Zenon DEF Parsed, ConfigRead
    <3>3. CASE buf.head # "config"
      BY <1>2, <3>1, <3>3, Zenon DEF Parsed, ConfigRead
    <3> QED
      BY <3>2, <3>3
  <2>2. CASE c = Scanned /\ ~ConfigRead
    BY <1>0, <2>2
  <2>3. ASSUME NEW v \in 0..2, NEW i \in {"right", "junk"},
               c = [Scanned EXCEPT !.value = v, !.ifs = i]
        PROVE  /\ c \in Devices /\ c.devnum = Scanned.devnum /\ c.failed = Scanned.failed
               /\ c.size = Scanned.size /\ c.code = Scanned.code
               /\ c.value = v /\ c.ifs = i
    <3>1. i \in {"none", "right", "junk"}
      OBVIOUS
    <3> QED
      BY <1>0, <2>3, <3>1, Zenon DEF Devices
  <2>4. CASE c = [Scanned EXCEPT !.value = 1, !.ifs = "right"]
    <3>1. 1 \in 0..2 /\ "right" \in {"right", "junk"}
      BY SMT
    <3> QED
      BY <2>3, <2>4, <3>1
  <2>5. CASE \E v \in 0..2 : c = [Scanned EXCEPT !.value = v, !.ifs = "junk"] /\ ~ConfigRead
    BY <2>3, <2>5
  <2> QED
    BY <2>1, <2>2, <2>4, <2>5
<1>4. /\ d \in Devices /\ d.devnum = Scanned.devnum /\ d.failed = Scanned.failed
      /\ d.code = Scanned.code
      /\ d.ifs # "junk" => d.size = Scanned.size
      /\ ConfigRead => d.value = 1 /\ d.ifs = "right"
  <2>1. CASE d = c
    BY <1>9, <2>1
  <2>2. CASE c.ifs = "junk" /\ d = [c EXCEPT !.size = Garbled]
    <3>1. Garbled \in Sizes \cup {0, Garbled}
      OBVIOUS
    <3>2. /\ d \in Devices /\ d.devnum = c.devnum /\ d.failed = c.failed /\ d.code = c.code
          /\ d.ifs = c.ifs
      BY <1>9, <2>2, <3>1, Zenon DEF Devices
    <3>3. ~ConfigRead
      BY <1>9, <2>2
    <3> QED
      BY <1>9, <2>2, <3>2, <3>3
  <2>3. d = c \/ (c.ifs = "junk" /\ d = [c EXCEPT !.size = Garbled])
    BY <1>3, Zenon DEF SetMaxpacket
  <2> QED
    BY <2>1, <2>2, <2>3
<1>5. dev' \in [Records -> Devices] /\ dev'[drv.rec] = d /\ Others
  BY <1>3, <1>4, UpdateStep DEF Others
<1>6. "configure" \in Places
  BY DEF Places
<1>7. drv' \in Drivers /\ Moved("configure")
  BY <1>1, <1>6, GotoStep DEF Moved
<1>8. TypeOK'
  BY <1>1, <1>5, <1>7 DEF TypeOK
<1> QED
  BY <1>1, <1>4, <1>5, <1>7, <1>8

LEMMA SetConfigurationEffect ==
  ASSUME TypeOK, SetConfiguration
  PROVE  /\ TypeOK'
         /\ drv.at = "configure" /\ rootdev' = rootdev /\ buf' = buf
         /\ sent'.rec = drv.rec /\ sent'.route = Route(Pipe)
         /\ \E o \in Outcomes(Pipe) :
              /\ \/ per' = per /\ ~(Route(Pipe) = "bus" /\ Took(o) /\ Known(Scanned.value))
                 \/ /\ Route(Pipe) = "bus" /\ Took(o)
                    /\ per'.there = per.there /\ per'.awake = per.awake
                    /\ per'.addr = per.addr /\ per'.rec = per.rec /\ per'.size = per.size
                    /\ per'.cfg = Scanned.value /\ per'.cfg \in 0..1
              /\ Failed \/ (Accepted(o) /\ Moved("strings") /\ dev' = dev)
<1>1. /\ drv.at = "configure" /\ rootdev' = rootdev /\ ndev' = ndev
      /\ buf' = buf /\ replugs' = replugs /\ Send(Pipe)
  BY Zenon DEF SetConfiguration
<1>2. sent' \in Messages /\ sent'.rec = drv.rec /\ sent'.route = Route(Pipe)
  BY <1>1, PipeInRange, SendStep
<1>3. PICK o \in Outcomes(Pipe) :
       /\ per' = IF Route(Pipe) = "bus" /\ Took(o) /\ Known(Scanned.value)
                 THEN [per EXCEPT !.cfg = Scanned.value] ELSE per
       /\ IF Accepted(o) THEN Goto("strings") /\ UNCHANGED dev ELSE Fail
  BY Zenon DEF SetConfiguration
<1>4. per \in Peripherals /\ Scanned \in Devices
  BY Fields DEF TypeOK
<1>5. Scanned.value \in 0..2
  BY <1>4, Zenon DEF Devices
<1>6. /\ per' \in Peripherals
      /\ \/ per' = per /\ ~(Route(Pipe) = "bus" /\ Took(o) /\ Known(Scanned.value))
         \/ /\ Route(Pipe) = "bus" /\ Took(o)
            /\ per'.there = per.there /\ per'.awake = per.awake
            /\ per'.addr = per.addr /\ per'.rec = per.rec /\ per'.size = per.size
            /\ per'.cfg = Scanned.value /\ per'.cfg \in 0..1
  <2>1. CASE Route(Pipe) = "bus" /\ Took(o) /\ Known(Scanned.value)
    <3>1. Scanned.value \in 0..1
      BY <1>5, <2>1, SMT DEF Known
    <3>2. per' = [per EXCEPT !.cfg = Scanned.value]
      BY <1>3, <2>1, Zenon
    <3>3. per' \in Peripherals /\ per'.cfg = Scanned.value /\ per'.there = per.there
          /\ per'.awake = per.awake /\ per'.addr = per.addr /\ per'.rec = per.rec
          /\ per'.size = per.size
      BY <1>4, <3>1, <3>2, Zenon DEF Peripherals
    <3> QED
      BY <2>1, <3>1, <3>3
  <2>2. CASE ~(Route(Pipe) = "bus" /\ Took(o) /\ Known(Scanned.value))
    BY <1>3, <1>4, <2>2, Zenon
  <2> QED
    BY <2>1, <2>2
<1>7. CASE Accepted(o)
  <2>1. Goto("strings") /\ dev' = dev /\ "strings" \in Places
    BY <1>3, <1>7, Zenon DEF Places
  <2>2. drv' \in Drivers /\ Moved("strings")
    BY <1>1, <2>1, GotoStep DEF Moved
  <2>3. TypeOK'
    BY <1>1, <1>2, <1>6, <2>1, <2>2 DEF TypeOK
  <2> QED
    BY <1>1, <1>2, <1>6, <1>7, <2>1, <2>2, <2>3
<1>8. CASE ~Accepted(o)
  <2>1. Fail
    BY <1>3, <1>8, Zenon
  <2>2. drv' \in Drivers /\ dev' \in [Records -> Devices] /\ Failed
    BY <1>1, <2>1, FailEffect
  <2>3. TypeOK'
    BY <1>1, <1>2, <1>6, <2>2 DEF TypeOK
  <2> QED
    BY <1>1, <1>2, <1>6, <2>2, <2>3
<1> QED
  BY <1>7, <1>8

LEMMA StringsEffect ==
  ASSUME TypeOK, Strings
  PROVE  /\ TypeOK'
         /\ drv.at = "strings" /\ rootdev' = rootdev /\ per' = per /\ dev' = dev
         /\ buf' = buf
         /\ sent'.rec = drv.rec /\ sent'.route = Route(Pipe)
         /\ Moved(IF drv.rec = Root THEN "is_hub" ELSE "return")
<1>1. /\ drv.at = "strings" /\ rootdev' = rootdev /\ ndev' = ndev /\ per' = per
      /\ dev' = dev /\ buf' = buf /\ replugs' = replugs /\ Send(Pipe)
  BY Zenon DEF Strings
<1>2. sent' \in Messages /\ sent'.rec = drv.rec /\ sent'.route = Route(Pipe)
  BY <1>1, PipeInRange, SendStep
<1>3. drv \in Drivers /\ "is_hub" \in Places /\ "return" \in Places
  BY DEF TypeOK, Places
<1>4. drv' \in Drivers /\ Moved(IF drv.rec = Root THEN "is_hub" ELSE "return")
  <2>1. CASE drv.rec = Root
    <3>1. drv' = [drv EXCEPT !.at = "is_hub"]
      BY <2>1, Zenon DEF Strings
    <3> QED
      BY <1>1, <1>3, <2>1, <3>1, Zenon DEF Drivers, Moved
  <2>2. CASE drv.rec # Root
    <3>1. drv' = [drv EXCEPT !.at = "return", !.ret = "found"]
      BY <2>2, Zenon DEF Strings
    <3> QED
      BY <1>1, <1>3, <2>2, <3>1, Zenon DEF Drivers, Moved
  <2> QED
    BY <2>1, <2>2
<1> QED
  BY <1>1, <1>2, <1>4 DEF TypeOK

LEMMA MainEffect ==
  ASSUME TypeOK, RootIsHub \/ HubInit \/ Caller
  PROVE  /\ TypeOK'
         /\ rootdev' = rootdev /\ per' = per /\ dev' = dev
         /\ \/ drv.at = "hub_init" /\ sent'.rec = drv.rec /\ sent'.route = Route(Pipe)
            \/ sent' = sent
         /\ \/ drv.at = "is_hub" /\ \E p \in {"hub_init", "hung"} : Moved(p)
            \/ drv.at = "hub_init" /\ \E p \in {"scan", "hung"} : Moved(p)
            \/ drv.at = "return" /\ \E p \in {"boot", "scan", "hung"} : Moved(p)
<1>1. /\ rootdev' = rootdev /\ ndev' = ndev /\ per' = per /\ dev' = dev /\ buf' = buf
      /\ replugs' = replugs
  BY Zenon DEF RootIsHub, HubInit, Caller
<1>2. \/ drv.at = "is_hub" /\ \E p \in {"hub_init", "hung"} : Goto(p)
      \/ drv.at = "hub_init" /\ \E p \in {"scan", "hung"} : Goto(p)
      \/ drv.at = "return" /\ \E p \in {"boot", "scan", "hung"} : Goto(p)
  BY Zenon DEF RootIsHub, HubInit, Caller
<1>3. ASSUME NEW p \in {"hub_init", "hung", "scan", "boot"}, Goto(p)
      PROVE  drv' \in Drivers /\ Moved(p)
  <2>1. p \in Places
    BY DEF Places
  <2> QED
    BY <1>1, <1>3, <2>1, GotoStep DEF Moved
<1>4. drv' \in Drivers
  BY <1>2, <1>3
<1>5. \/ drv.at = "is_hub" /\ \E p \in {"hub_init", "hung"} : Moved(p)
      \/ drv.at = "hub_init" /\ \E p \in {"scan", "hung"} : Moved(p)
      \/ drv.at = "return" /\ \E p \in {"boot", "scan", "hung"} : Moved(p)
  BY <1>2, <1>3
<1>6. \/ drv.at = "hub_init" /\ Send(Pipe)
      \/ sent' = sent
  BY Zenon DEF RootIsHub, HubInit, Caller
<1>7. /\ sent' \in Messages
      /\ \/ drv.at = "hub_init" /\ sent'.rec = drv.rec /\ sent'.route = Route(Pipe)
         \/ sent' = sent
  BY <1>6, PipeInRange, SendStep DEF TypeOK
<1>8. TypeOK'
  BY <1>1, <1>4, <1>7 DEF TypeOK
<1> QED
  BY <1>1, <1>5, <1>7, <1>8

LEMMA PlugEffect ==
  ASSUME TypeOK, Plug \/ Unplug
  PROVE  /\ TypeOK'
         /\ drv' = drv /\ rootdev' = rootdev /\ ndev' = ndev /\ dev' = dev /\ sent' = sent
         /\ buf' = buf
         /\ per'.addr = per.addr /\ per'.cfg = per.cfg
         /\ \/ ~per.there /\ per'.there /\ per'.rec = per.rec /\ per'.awake = per.awake
            \/ ~per'.there /\ per'.rec = 0 /\ ~per'.awake
<1>1. /\ drv' = drv /\ rootdev' = rootdev /\ ndev' = ndev /\ dev' = dev /\ sent' = sent
      /\ buf' = buf
  BY Zenon DEF Plug, Unplug
<1>2. replugs' \in 0..MaxReplugs
  <2>1. replugs < MaxReplugs /\ replugs' = replugs + 1
    BY Zenon DEF Plug, Unplug
  <2> QED
    BY <2>1, SMT DEF TypeOK
<1>3. per \in Peripherals /\ 0 \in 0..MaxDevice
  BY SMT DEF TypeOK
<1>4. CASE Plug
  <2>1. PICK s \in Sizes : per' = [per EXCEPT !.there = TRUE, !.size = s]
    BY <1>4, Zenon DEF Plug
  <2>2. per' \in Peripherals /\ per'.there /\ per'.rec = per.rec /\ per'.awake = per.awake
        /\ per'.addr = per.addr /\ per'.cfg = per.cfg
    BY <1>3, <2>1, Zenon DEF Peripherals
  <2>3. ~per.there
    BY <1>4, Zenon DEF Plug
  <2>4. TypeOK'
    BY <1>1, <1>2, <2>2 DEF TypeOK
  <2> QED
    BY <1>1, <2>2, <2>3, <2>4
<1>5. CASE Unplug
  <2>1. per' = [per EXCEPT !.there = FALSE, !.awake = FALSE, !.rec = 0]
    BY <1>5, Zenon DEF Unplug
  <2>2. per' \in Peripherals /\ ~per'.there /\ per'.rec = 0 /\ ~per'.awake
        /\ per'.addr = per.addr /\ per'.cfg = per.cfg
    BY <1>3, <2>1, Zenon DEF Peripherals
  <2>3. TypeOK'
    BY <1>1, <1>2, <2>2 DEF TypeOK
  <2> QED
    BY <1>1, <2>2, <2>3
<1> QED
  BY <1>4, <1>5

----------------------------------------------------------------------------
(* Types.                                                                  *)

LEMMA InitEffect ==
  ASSUME Init
  PROVE  /\ TypeOK
         /\ drv.at = "boot" /\ drv.rec = 1 /\ drv.addr = 1 /\ drv.ret = "none"
         /\ rootdev = 0 /\ ndev = 0 /\ sent.rec = 0
         /\ ~per.there /\ ~per.awake /\ per.addr = 0 /\ per.cfg = 0 /\ per.rec = 0
<1>1. /\ 0 \in 0..MaxDevice /\ 0 \in 0..2 /\ 0 \in 0..1 /\ 0 \in 0..MaxReplugs
      /\ 1 \in Records
  BY SMT DEF Records
<1>2. drv = [at |-> "boot", rec |-> 1, addr |-> 1, ret |-> "none"] /\ "boot" \in Places
  BY Zenon DEF Init, Places
<1>3. drv \in Drivers /\ drv.at = "boot" /\ drv.rec = 1 /\ drv.addr = 1 /\ drv.ret = "none"
  BY <1>1, <1>2, Zenon DEF Drivers
<1>4. Cleared \in Devices
  BY <1>1, Zenon DEF Cleared, Devices
<1>5. dev \in [Records -> Devices]
  BY <1>4, Zenon DEF Init
<1>6. buf \in Buffers
  BY Zenon DEF Init, Buffers, Contents
<1>7. per \in [there : {FALSE}, awake : {FALSE}, addr : {0}, cfg : {0}, size : Sizes,
               rec : {0}]
  BY Zenon DEF Init
<1>8. /\ per \in Peripherals
      /\ ~per.there /\ ~per.awake /\ per.addr = 0 /\ per.cfg = 0 /\ per.rec = 0
  BY <1>1, <1>7, ZenonT(30) DEF Peripherals
<1>9. sent = [rec |-> 0, to |-> 0, route |-> "none"]
  BY Zenon DEF Init
<1>10. sent \in Messages /\ sent.rec = 0
  BY <1>1, <1>9, Zenon DEF Messages
<1>11. rootdev = 0 /\ ndev = 0 /\ replugs = 0
  BY Zenon DEF Init
<1> QED
  BY <1>1, <1>3, <1>5, <1>6, <1>8, <1>10, <1>11 DEF TypeOK

LEMMA NextType == TypeOK /\ [Next]_vars => TypeOK'
<1> SUFFICES ASSUME TypeOK, [Next]_vars PROVE TypeOK'
  OBVIOUS
<1>1. CASE Boot \/ HubScan
  BY <1>1, BootEffect, HubScanEffect
<1>2. CASE ScanDevice
  BY <1>2, FirstDescriptorEffect, SecondResetEffect, SetAddressEffect, FullDescriptorEffect,
     ReadConfigEffect, ParseEffect, SetConfigurationEffect, StringsEffect DEF ScanDevice
<1>3. CASE RootIsHub \/ HubInit \/ Caller \/ Plug \/ Unplug
  BY <1>3, MainEffect, PlugEffect
<1>4. CASE UNCHANGED vars
  BY <1>4 DEF vars, TypeOK
<1> QED
  BY <1>1, <1>2, <1>3, <1>4 DEF Next

(* The variables keep their types; above all g_dev_index stays within the table. *)
THEOREM EnumerationTypes == Spec => []TypeOK
<1>1. Init => TypeOK
  BY InitEffect
<1> QED
  BY <1>1, NextType, PTL DEF Spec

----------------------------------------------------------------------------
(* Which record is scanned, and the way of its requests.                   *)

LEMMA TableFacts ==
  ASSUME TypeOK, TableInv
  PROVE  /\ drv.rec \in Nat /\ drv.rec > 0 /\ drv.addr = drv.rec /\ Root = 1
         /\ drv.at # "boot" => drv.rec = ndev
         /\ Pipe = dev[drv.rec].devnum /\ Scanned = dev[drv.rec]
BY Fields, SMT DEF TableInv, Records, Root, Pipe, Scanned

LEMMA RoutedStep ==
  ASSUME TypeOK, RouteInv,
         \/ sent' = sent
         \/ /\ drv.at \in Requesting \cup {"hub_init"}
            /\ sent'.rec = drv.rec /\ sent'.route = Route(Pipe)
         \/ /\ drv.at \in {"scan", "reset"}
            /\ sent'.rec = Root /\ sent'.route = Route(dev[Root].devnum)
         \/ /\ drv.at = "address"
            /\ sent'.rec = drv.rec /\ sent'.route = Route(DefaultPipe)
  PROVE  RoutedRight'
<1>1. TableInv /\ RoutedRight
  BY DEF RouteInv
<1>2. CASE sent' = sent
  BY <1>1, <1>2 DEF RoutedRight
<1>3. CASE /\ drv.at \in Requesting \cup {"hub_init"}
           /\ sent'.rec = drv.rec /\ sent'.route = Route(Pipe)
  <2>1. drv.rec = Root => Pipe = rootdev
    BY <1>1, <1>3, TableFacts
       DEF TableInv, Requesting, Scanning, Addressed, Unaddressed
  <2>2. drv.rec # Root => Pipe # rootdev
    BY <1>1, <1>3, TableFacts
       DEF TableInv, Requesting, Scanning, Addressed, Unaddressed
  <2> QED
    BY <1>3, <2>1, <2>2 DEF RoutedRight, Route
<1>4. CASE /\ drv.at \in {"scan", "reset"}
           /\ sent'.rec = Root /\ sent'.route = Route(dev[Root].devnum)
  BY <1>1, <1>4 DEF RoutedRight, Route, TableInv
<1>5. CASE /\ drv.at = "address"
           /\ sent'.rec = drv.rec /\ sent'.route = Route(DefaultPipe)
  BY <1>1, <1>5 DEF RoutedRight, Route, TableInv, DefaultPipe, Unaddressed
<1> QED
  BY <1>2, <1>3, <1>4, <1>5

LEMMA FailedTable ==
  ASSUME TypeOK, TableInv, drv.at \in Scanning, rootdev' = rootdev, Failed
  PROVE  TableInv'
<1>1. Scanned' = dev'[drv'.rec]
  BY DEF Scanned
<1>2. CASE drv.rec = Root
  BY <1>1, <1>2, TableFacts
     DEF TableInv, Failed, Moved, Scanning, Addressed, Unaddressed
<1>3. CASE drv.rec # Root
  <2>1. dev'[Root] = dev[Root]
    BY <1>3, SMT DEF Failed, Others, Records, Root
  <2> QED
    BY <1>1, <1>3, <2>1, TableFacts
       DEF TableInv, Failed, Moved, Scanning, Addressed, Unaddressed
<1> QED
  BY <1>2, <1>3

LEMMA NextTable == TypeOK /\ TableInv /\ [Next]_vars => TableInv'
<1> SUFFICES ASSUME TypeOK, TableInv, [Next]_vars PROVE TableInv'
  OBVIOUS
<1> USE DEF Scanning, Addressed, Unaddressed
<1>1. Scanned' = dev'[drv'.rec]
  BY DEF Scanned
<1>2. CASE Boot
  BY <1>1, <1>2, BootEffect, SMT DEF TableInv, Root
<1>3. CASE HubScan
  <2>1. drv.at = "scan" /\ rootdev' = rootdev /\ rootdev = 1 /\ dev[Root].devnum = 1
        /\ ndev \in Records
    BY <1>3, HubScanEffect, TableFacts, Fields DEF TableInv
  <2>2. CASE Moved("return") /\ dev' = dev
    BY <1>1, <2>1, <2>2, TableFacts DEF TableInv, Moved
  <2>3. CASE /\ ndev < MaxDevice /\ ndev' = ndev + 1
             /\ drv'.at = "first" /\ drv'.rec = ndev + 1 /\ drv'.addr = ndev + 1
             /\ dev'[ndev + 1].devnum = 0 /\ ~dev'[ndev + 1].failed
             /\ \A r \in Records \ {ndev + 1} : dev'[r] = dev[r]
    <3>1. ndev + 1 # Root /\ Root \in Records
      BY <2>1, SMT DEF Root, Records
    <3>2. dev'[Root] = dev[Root]
      BY <2>3, <3>1
    <3> QED
      BY <1>1, <2>1, <2>3, <3>1, <3>2 DEF TableInv
  <2> QED
    BY <1>3, <2>2, <2>3, HubScanEffect
<1>4. CASE ScanDevice
  <2>1. CASE FirstDescriptor
    <3>1. CASE Failed
      BY <2>1, <3>1, FailedTable, FirstDescriptorEffect
    <3>2. CASE /\ Moved(IF drv.rec = Root THEN "address" ELSE "reset") /\ Others
               /\ dev'[drv.rec].devnum = Scanned.devnum
               /\ dev'[drv.rec].failed = Scanned.failed
      <4>1. dev'[Root].devnum = dev[Root].devnum
        BY <3>2, TableFacts, SMT DEF Others, Records, Root
      <4> QED
        BY <1>1, <2>1, <3>2, <4>1, TableFacts, FirstDescriptorEffect DEF TableInv, Moved
    <3> QED
      BY <2>1, <3>1, <3>2, FirstDescriptorEffect
  <2>2. CASE SecondReset
    <3>1. CASE Failed
      BY <2>2, <3>1, FailedTable, SecondResetEffect
    <3>2. CASE Moved("address") /\ dev' = dev
      BY <1>1, <2>2, <3>2, TableFacts, SecondResetEffect DEF TableInv, Moved
    <3> QED
      BY <2>2, <3>1, <3>2, SecondResetEffect
  <2>3. CASE SetAddress
    <3>1. /\ drv.at = "address"
          /\ rootdev' = IF Route(DefaultPipe) = "root" THEN drv.addr ELSE rootdev
          /\ rootdev = IF drv.rec = Root THEN 0 ELSE 1
          /\ Route(DefaultPipe) = IF drv.rec = Root THEN "root" ELSE "bus"
      BY <2>3, SetAddressEffect DEF TableInv, Route, DefaultPipe
    <3>2. rootdev' = 1
      BY <3>1, TableFacts
    <3>3. PICK o \in Outcomes(DefaultPipe) :
              \/ Failed /\ ~Answered(o)
              \/ /\ Answered(o) /\ Moved("descriptor") /\ Others
                 /\ dev'[drv.rec].devnum = drv.addr
                 /\ dev'[drv.rec].failed = Scanned.failed
      BY <2>3, SetAddressEffect
    <3>4. CASE Failed /\ ~Answered(o)
      <4>1. drv.rec # Root
        BY <3>1, <3>4 DEF Outcomes, Answered
      <4>2. rootdev' = rootdev
        BY <3>1, <4>1
      <4> QED
        BY <3>1, <3>4, <4>2, FailedTable
    <3>5. CASE /\ Moved("descriptor") /\ Others
               /\ dev'[drv.rec].devnum = drv.addr
               /\ dev'[drv.rec].failed = Scanned.failed
      <4>1. dev'[Root].devnum = 1
        <5>1. CASE drv.rec = Root
          BY <3>5, <5>1, TableFacts
        <5>2. CASE drv.rec # Root
          <6>1. dev'[Root] = dev[Root]
            BY <3>5, <5>2, SMT DEF Others, Records, Root
          <6> QED
            BY <3>1, <5>2, <6>1 DEF TableInv
        <5> QED
          BY <5>1, <5>2
      <4> QED
        BY <1>1, <3>1, <3>2, <3>5, <4>1, TableFacts DEF TableInv, Moved
    <3> QED
      BY <3>3, <3>4, <3>5
  <2>4. CASE FullDescriptor
    <3>1. CASE Failed
      BY <2>4, <3>1, FailedTable, FullDescriptorEffect
    <3>2. CASE Moved("header") /\ dev' = dev
      BY <1>1, <2>4, <3>2, TableFacts, FullDescriptorEffect DEF TableInv, Moved
    <3> QED
      BY <2>4, <3>1, <3>2, FullDescriptorEffect
  <2>5. CASE ConfigHeader \/ WholeConfig
    BY <1>1, <2>5, TableFacts, ReadConfigEffect DEF TableInv, Moved
  <2>6. CASE ParseConfig
    <3>1. dev'[Root].devnum = dev[Root].devnum
      BY <2>6, ParseEffect, TableFacts, SMT DEF Others, Records, Root
    <3> QED
      BY <1>1, <2>6, <3>1, TableFacts, ParseEffect DEF TableInv, Moved
  <2>7. CASE SetConfiguration
    <3>1. CASE Failed
      BY <2>7, <3>1, FailedTable, SetConfigurationEffect
    <3>2. CASE Moved("strings") /\ dev' = dev
      BY <1>1, <2>7, <3>2, TableFacts, SetConfigurationEffect DEF TableInv, Moved
    <3> QED
      BY <2>7, <3>1, <3>2, SetConfigurationEffect
  <2>8. CASE Strings
    BY <1>1, <2>8, TableFacts, StringsEffect DEF TableInv, Moved
  <2> QED
    BY <1>4, <2>1, <2>2, <2>3, <2>4, <2>5, <2>6, <2>7, <2>8 DEF ScanDevice
<1>5. CASE RootIsHub \/ HubInit \/ Caller
  BY <1>1, <1>5, TableFacts, MainEffect DEF TableInv, Moved
<1>6. CASE Plug \/ Unplug
  BY <1>1, <1>6, TableFacts, PlugEffect DEF TableInv
<1>7. CASE UNCHANGED vars
  BY <1>7 DEF vars, TableInv, Scanned
<1> QED
  BY <1>2, <1>3, <1>4, <1>5, <1>6, <1>7 DEF Next

LEMMA NextRoute == TypeOK /\ RouteInv /\ [Next]_vars => RouteInv'
<1> SUFFICES ASSUME TypeOK, RouteInv, [Next]_vars PROVE RoutedRight'
  BY NextTable DEF RouteInv
<1> USE DEF Requesting
<1>1. CASE Boot \/ Plug \/ Unplug
  BY <1>1, BootEffect, PlugEffect, RoutedStep
<1>2. CASE HubScan
  BY <1>2, HubScanEffect, RoutedStep
<1>3. CASE ScanDevice
  <2>1. CASE FirstDescriptor \/ FullDescriptor
    BY <2>1, FirstDescriptorEffect, FullDescriptorEffect, RoutedStep
  <2>2. CASE SecondReset
    BY <2>2, SecondResetEffect, RoutedStep
  <2>3. CASE SetAddress
    BY <2>3, SetAddressEffect, RoutedStep
  <2>4. CASE ConfigHeader \/ WholeConfig
    BY <2>4, ReadConfigEffect, RoutedStep
  <2>5. CASE ParseConfig
    BY <2>5, ParseEffect, RoutedStep
  <2>6. CASE SetConfiguration \/ Strings
    BY <2>6, SetConfigurationEffect, StringsEffect, RoutedStep
  <2> QED
    BY <1>3, <2>1, <2>2, <2>3, <2>4, <2>5, <2>6 DEF ScanDevice
<1>4. CASE RootIsHub \/ HubInit \/ Caller
  BY <1>4, MainEffect, RoutedStep
<1>5. CASE UNCHANGED vars
  BY <1>5, RoutedStep DEF vars
<1> QED
  BY <1>1, <1>2, <1>3, <1>4, <1>5 DEF Next

LEMMA InitRoute == Init => RouteInv
BY InitEffect
   DEF RouteInv, TableInv, RoutedRight, Scanning, Addressed, Unaddressed

(* The requests of the root hub reach ehci_submit_root, and those of no other record do. *)
THEOREM RoutesHold == Spec => []RoutedRight
<1>1. RouteInv => RoutedRight
  BY DEF RouteInv
<1>2. Init => TypeOK
  BY InitEffect
<1> QED
  BY <1>1, <1>2, InitRoute, NextRoute, NextType, PTL DEF Spec

----------------------------------------------------------------------------
(* The addresses.                                                          *)

(* A table in which only the record being scanned has changed, to one that has failed. *)
LEMMA FailedAddress ==
  ASSUME TypeOK, TableInv, AddressInv, Failed,
         per'.there = per.there, per'.rec = per.rec, per'.addr \in {per.addr, 0, per.rec}
  PROVE  AddressInv'
<1>1. drv'.at \notin Scanning
  BY DEF Failed, Moved, Scanning, Addressed, Unaddressed
<1>2. ndev' = ndev /\ \A r \in 1..ndev : r \in Records
  BY SMT DEF Failed, Moved, TypeOK, Records
<1>3. ~per'.there => per'.rec = 0
  BY DEF AddressInv
<1>4. per'.rec # 0 => per'.rec \in 2..ndev' /\ per'.addr \in {0, per'.rec}
  BY <1>2 DEF AddressInv
<1>5. ASSUME NEW r \in 1..ndev
      PROVE  /\ dev'[r].devnum \in {0, r}
             /\ dev'[r].devnum = 0 => dev'[r].failed \/ (r = drv'.rec /\ drv'.at \in Unaddressed)
  <2>1. CASE r = drv.rec
    <3>1. dev'[r].devnum \in {dev[r].devnum, drv.addr} /\ dev'[r].failed
      BY <2>1, TableFacts DEF Failed
    <3> QED
      BY <2>1, <3>1, TableFacts DEF AddressInv
  <2>2. CASE r # drv.rec
    <3>1. dev'[r] = dev[r]
      BY <1>2, <2>2 DEF Failed, Others
    <3> QED
      BY <2>2, <3>1 DEF AddressInv
  <2> QED
    BY <2>1, <2>2
<1> QED
  BY <1>1, <1>2, <1>3, <1>4, <1>5 DEF AddressInv

(* And one in which the record that is scanned, or none, has changed without failing. *)
LEMMA MovedAddress ==
  ASSUME TypeOK, TableInv, AddressInv, NEW p, Moved(p),
         dev' = dev \/ Others,
         drv.at \in Scanning \/ p \notin Scanning,
         dev'[drv.rec].devnum = Scanned.devnum, dev'[drv.rec].failed = Scanned.failed,
         drv.at \in Unaddressed => p \in Unaddressed,
         per'.there = per.there, per'.rec \in {per.rec, 0}, per'.addr \in {per.addr, 0}
  PROVE  AddressInv'
<1>1. ndev' = ndev /\ \A r \in 1..ndev : r \in Records
  BY SMT DEF Moved, TypeOK, Records
<1>2. ~per'.there => per'.rec = 0
  BY DEF AddressInv
<1>3. per'.rec # 0 => per'.rec \in 2..ndev' /\ per'.addr \in {0, per'.rec}
  BY <1>1 DEF AddressInv
<1>4. drv'.at \in Scanning => per'.rec \in {0, drv'.rec}
  BY DEF AddressInv, Moved
<1>5. ASSUME NEW r \in 1..ndev
      PROVE  /\ dev'[r].devnum \in {0, r}
             /\ dev'[r].devnum = 0 => dev'[r].failed \/ (r = drv'.rec /\ drv'.at \in Unaddressed)
  <2>1. dev'[r].devnum = dev[r].devnum /\ dev'[r].failed = dev[r].failed
    BY <1>1, TableFacts DEF Others
  <2> QED
    BY <2>1 DEF AddressInv, Moved
<1> QED
  BY <1>1, <1>2, <1>3, <1>4, <1>5 DEF AddressInv

LEMMA HubScanAddress ==
  ASSUME TypeOK, TableInv, AddressInv, HubScan
  PROVE  AddressInv'
<1> USE DEF Scanning, Addressed, Unaddressed
<1>1. drv.at = "scan"
  BY HubScanEffect
<1>2. CASE Moved("return") /\ dev' = dev /\ Disabled
  BY <1>1, <1>2, MovedAddress, TableFacts DEF Disabled
<1>3. CASE Moved("return") /\ dev' = dev /\ per' = Reset(0)
  <2>1. 0 \in 0..MaxDevice
    BY SMT
  <2>2. per'.there = per.there /\ per'.rec = 0 /\ per'.addr = 0
    BY <1>3, <2>1, ResetStep
  <2> QED
    BY <1>1, <1>3, <2>2, MovedAddress, TableFacts
<1>4. CASE /\ ndev < MaxDevice /\ ndev' = ndev + 1
           /\ drv'.at = "first" /\ drv'.rec = ndev + 1
           /\ dev'[ndev + 1].devnum = 0 /\ ~dev'[ndev + 1].failed
           /\ \A r \in Records \ {ndev + 1} : dev'[r] = dev[r]
           /\ per.there /\ per' = Reset(ndev + 1)
  <2>1. ndev \in Nat /\ ndev > 0 /\ ndev + 1 \in 0..MaxDevice /\ ndev + 1 \in 2..ndev'
    <3>1. ndev \in Nat /\ ndev > 0
      BY <1>1, TableFacts
    <3> QED
      BY <1>4, <3>1, SMT
  <2>2. per'.there = per.there /\ per'.rec = ndev + 1 /\ per'.addr = 0
    BY <1>4, <2>1, ResetStep
  <2>3. ASSUME NEW r \in 1..ndev', r # ndev + 1
        PROVE  /\ r \in 1..ndev /\ dev'[r] = dev[r]
               /\ dev[r].devnum \in {0, r} /\ (dev[r].devnum = 0 => dev[r].failed)
    <3>1. r \in 1..ndev /\ r \in Records \ {ndev + 1}
      BY <1>4, <2>1, <2>3, SMT DEF Records
    <3> QED
      BY <1>1, <1>4, <3>1 DEF AddressInv
  <2>4. ASSUME NEW r \in 1..ndev'
        PROVE  /\ dev'[r].devnum \in {0, r}
               /\ dev'[r].devnum = 0 => dev'[r].failed \/ (r = drv'.rec /\ drv'.at \in Unaddressed)
    BY <1>4, <2>3
  <2> QED
    BY <1>4, <2>1, <2>2, <2>4 DEF AddressInv
<1> QED
  BY <1>2, <1>3, <1>4, HubScanEffect

LEMMA SetAddressAddress ==
  ASSUME TypeOK, TableInv, AddressInv, SetAddress
  PROVE  AddressInv'
<1> USE DEF Scanning, Addressed, Unaddressed
<1>1. /\ drv.at = "address" /\ per.rec \in {0, drv.rec}
      /\ Route(DefaultPipe) = IF drv.rec = Root THEN "root" ELSE "bus"
  BY SetAddressEffect DEF TableInv, Route, DefaultPipe, AddressInv
<1>2. PICK o \in Outcomes(DefaultPipe) :
        /\ per' = IF Route(DefaultPipe) = "bus" /\ Took(o)
                  THEN [per EXCEPT !.addr = drv.addr] ELSE per
        /\ \/ Failed /\ ~Answered(o)
           \/ /\ Moved("descriptor") /\ Others
              /\ dev'[drv.rec].devnum = drv.addr
              /\ dev'[drv.rec].failed = Scanned.failed
  BY SetAddressEffect
<1>3. per'.there = per.there /\ per'.rec = per.rec
      /\ per'.addr \in IF drv.rec = Root THEN {per.addr} ELSE {per.addr, drv.rec}
  <2>1. per \in Peripherals
    BY DEF TypeOK
  <2>2. CASE per' = [per EXCEPT !.addr = drv.addr] /\ drv.rec # Root
    <3>1. per'.there = per.there /\ per'.rec = per.rec /\ per'.addr = drv.addr
      BY <2>1, <2>2, Zenon DEF Peripherals
    <3> QED
      BY <2>2, <3>1, TableFacts
  <2>3. CASE per' = per
    BY <2>3
  <2> QED
    BY <1>1, <1>2, <2>2, <2>3
<1>4. per'.rec # 0 => per'.addr \in {per.addr, per.rec}
  BY <1>1, <1>3
<1>5. CASE Failed
  <2>1. CASE per.rec = 0
    <3>1. drv'.at \notin Scanning /\ ndev' = ndev
      BY <1>5 DEF Failed, Moved
    <3>2. ASSUME NEW r \in 1..ndev
          PROVE  /\ dev'[r].devnum \in {0, r}
                 /\ dev'[r].devnum = 0 => dev'[r].failed
      <4>1. r \in Records
        BY SMT DEF TypeOK, Records
      <4>2. CASE r = drv.rec
        BY <1>5, <4>2, TableFacts DEF Failed, AddressInv
      <4>3. CASE r # drv.rec
        BY <1>5, <4>1, <4>3 DEF Failed, Others, AddressInv
      <4> QED
        BY <4>2, <4>3
    <3> QED
      BY <1>3, <2>1, <3>1, <3>2 DEF AddressInv
  <2>2. CASE per.rec # 0
    BY <1>3, <1>4, <1>5, <2>2, FailedAddress
  <2> QED
    BY <2>1, <2>2
<1>6. CASE /\ Moved("descriptor") /\ Others
           /\ dev'[drv.rec].devnum = drv.addr
           /\ dev'[drv.rec].failed = Scanned.failed
  <2>1. ndev' = ndev /\ drv'.rec = drv.rec
    BY <1>6 DEF Moved
  <2>2. ASSUME NEW r \in 1..ndev
        PROVE  /\ dev'[r].devnum \in {0, r}
               /\ dev'[r].devnum = 0 => dev'[r].failed
    <3>1. r \in Records
      BY SMT DEF TypeOK, Records
    <3>2. CASE r = drv.rec
      BY <1>6, <3>2, TableFacts
    <3>3. CASE r # drv.rec
      BY <1>6, <3>1, <3>3 DEF Others, AddressInv
    <3> QED
      BY <3>2, <3>3
  <2> QED
    BY <1>1, <1>3, <1>4, <2>1, <2>2 DEF AddressInv
<1> QED
  BY <1>2, <1>5, <1>6

LEMMA NextAddress == TypeOK /\ TableInv /\ AddressInv /\ [Next]_vars => AddressInv'
<1> SUFFICES ASSUME TypeOK, TableInv, AddressInv, [Next]_vars PROVE AddressInv'
  OBVIOUS
<1> USE DEF Scanning, Addressed, Unaddressed
<1>1. CASE Boot
  <2>1. 1..ndev' = {1}
    BY <1>1, BootEffect, SMT
  <2> QED
    BY <1>1, <2>1, BootEffect DEF AddressInv
<1>2. CASE ScanDevice
  <2>1. CASE FirstDescriptor
    <3>1. CASE Failed
      BY <2>1, <3>1, FailedAddress, FirstDescriptorEffect
    <3>2. CASE /\ Moved(IF drv.rec = Root THEN "address" ELSE "reset") /\ Others
               /\ dev'[drv.rec].devnum = Scanned.devnum
               /\ dev'[drv.rec].failed = Scanned.failed
      BY <2>1, <3>2, MovedAddress, FirstDescriptorEffect
    <3> QED
      BY <2>1, <3>1, <3>2, FirstDescriptorEffect
  <2>2. CASE SecondReset
    <3>1. CASE Failed /\ Disabled
      BY <2>2, <3>1, FailedAddress DEF Disabled
    <3>2. CASE Moved("address") /\ dev' = dev /\ per' = Reset(per.rec)
      <4>1. per'.there = per.there /\ per'.rec = per.rec /\ per'.addr = 0
        BY <3>2, Fields, ResetStep
      <4> QED
        BY <2>2, <3>2, <4>1, MovedAddress, TableFacts, SecondResetEffect
    <3> QED
      BY <2>2, <3>1, <3>2, SecondResetEffect
  <2>3. CASE SetAddress
    BY <2>3, SetAddressAddress
  <2>4. CASE FullDescriptor
    <3>1. CASE Failed
      BY <2>4, <3>1, FailedAddress, FullDescriptorEffect
    <3>2. CASE Moved("header") /\ dev' = dev
      BY <2>4, <3>2, MovedAddress, TableFacts, FullDescriptorEffect
    <3> QED
      BY <2>4, <3>1, <3>2, FullDescriptorEffect
  <2>5. CASE ConfigHeader \/ WholeConfig
    BY <2>5, MovedAddress, TableFacts, ReadConfigEffect
  <2>6. CASE ParseConfig
    BY <2>6, MovedAddress, ParseEffect
  <2>7. CASE SetConfiguration
    <3>1. per'.there = per.there /\ per'.rec = per.rec /\ per'.addr = per.addr
      BY <2>7, SetConfigurationEffect
    <3>2. CASE Failed
      BY <3>1, <3>2, FailedAddress
    <3>3. CASE Moved("strings") /\ dev' = dev
      BY <2>7, <3>1, <3>3, MovedAddress, TableFacts, SetConfigurationEffect
    <3> QED
      BY <2>7, <3>2, <3>3, SetConfigurationEffect
  <2>8. CASE Strings
    BY <2>8, MovedAddress, TableFacts, StringsEffect
  <2> QED
    BY <1>2, <2>1, <2>2, <2>3, <2>4, <2>5, <2>6, <2>7, <2>8 DEF ScanDevice
<1>3. CASE RootIsHub \/ HubInit \/ Caller
  BY <1>3, MovedAddress, TableFacts, MainEffect
<1>4. CASE Plug \/ Unplug
  BY <1>4, PlugEffect DEF AddressInv
<1>5. CASE UNCHANGED vars
  BY <1>5 DEF vars, AddressInv
<1> QED
  BY <1>1, <1>2, <1>3, <1>4, <1>5, HubScanAddress DEF Next

LEMMA InitAddress == Init => AddressInv
BY InitEffect, SMT DEF AddressInv, Scanning, Addressed, Unaddressed

(* No other record has the address at which a device answers, failed scans included, but
   for address 0, which a failed scan may have left in its record. *)
THEOREM AddressesDiffer == Spec => []AddressUnambiguous
<1>1. TypeOK /\ TableInv /\ AddressInv => AddressUnambiguous
  <2> SUFFICES ASSUME TypeOK, TableInv, AddressInv, per.rec # 0,
                      NEW r \in 1..ndev, r # per.rec, dev[r].devnum = per.addr
               PROVE  per.addr = 0 /\ dev[r].failed
    BY DEF AddressUnambiguous
  <2>1. per.rec \in 2..ndev /\ per.addr \in {0, per.rec} /\ dev[r].devnum \in {0, r}
    BY DEF AddressInv
  <2>2. dev[r].devnum = 0
    BY <2>1
  <2>3. r = drv.rec /\ drv.at \in Unaddressed => r = per.rec
    BY DEF AddressInv, Scanning
  <2> QED
    BY <2>2, <2>3 DEF AddressInv
<1>2. RouteInv => TableInv
  BY DEF RouteInv
<1>3. Init => TypeOK
  BY InitEffect
<1> QED
  BY <1>1, <1>2, <1>3, InitRoute, NextRoute, NextType, InitAddress, NextAddress, PTL DEF Spec

----------------------------------------------------------------------------
(* The packet size.                                                        *)

(* Of the record that is scanned nothing is to be said before its first descriptor and after
   a scan has ended. *)
LEMMA SizeEnds == drv.at \notin Scanning \ {"first"} => SizeInv
BY DEF SizeInv, Scanning, Addressed, Unaddressed

LEMMA MovedSize ==
  ASSUME TableInv, SizeInv, NEW p \in Addressed \cup {"address"}, Moved(p),
         drv.at \in Scanning \ {"first"}, p \in Addressed => drv.at \in Addressed,
         p \notin {"configure", "strings"} =>
           drv.at \notin {"configure", "strings"} /\ dev'[drv.rec].size = Scanned.size,
         Sized' => Sized /\ dev'[drv.rec].size = Scanned.size,
         dev'[drv.rec].code = Scanned.code,
         per'.rec = per.rec, per'.size = per.size
  PROVE  SizeInv'
<1>1. Scanned' = dev'[drv.rec]
  BY DEF Scanned, Moved
<1> QED
  BY <1>1 DEF SizeInv, Moved, Scanning, Addressed, Unaddressed

(* Most steps leave the table alone. *)
LEMMA SizedKept ==
  ASSUME NEW p, Moved(p), dev' = dev, drv.at \in {"configure", "strings"} => p = "strings"
  PROVE  Sized' => Sized
<1>1. Scanned' = Scanned
  BY DEF Scanned, Moved
<1> QED
  BY <1>1 DEF Sized, Moved

LEMMA NextSize == TypeOK /\ TableInv /\ AddressInv /\ SizeInv /\ [Next]_vars => SizeInv'
<1> SUFFICES ASSUME TypeOK, TableInv, AddressInv, SizeInv, [Next]_vars PROVE SizeInv'
  OBVIOUS
<1> USE DEF Scanning, Addressed, Unaddressed
<1>1. TypeOK' /\ drv.rec # 0
  BY NextType, TableFacts
<1>2. ASSUME drv'.at \notin Scanning \ {"first"} PROVE SizeInv'
  <2>1. (drv.at \notin Scanning \ {"first"} => SizeInv)'
    BY SizeEnds, PTL
  <2> QED
    BY <1>1, <1>2, <2>1
<1>3. Failed => SizeInv'
  BY <1>2 DEF Failed, Moved
<1>4. Scanned' = dev'[drv'.rec]
  BY DEF Scanned
<1>5. CASE Boot \/ HubScan
  BY <1>2, <1>5, BootEffect, HubScanEffect DEF Moved
<1>6. CASE ScanDevice
  <2>1. CASE FirstDescriptor
    <3>1. CASE /\ Moved(IF drv.rec = Root THEN "address" ELSE "reset")
               /\ dev'[drv.rec].size \in Sizes \cup {0}
               /\ drv.rec # Root => dev'[drv.rec].size \in {per.size, 0}
      <4>1. per' = per /\ drv'.rec = drv.rec
        BY <2>1, <3>1, FirstDescriptorEffect DEF Moved
      <4>2. per.rec = drv.rec => drv.rec # Root
        BY <1>1, SMT DEF AddressInv, Root, TypeOK
      <4>3. dev'[drv.rec].size # Garbled
        BY <3>1, SMT DEF Garbled
      <4> QED
        BY <1>4, <3>1, <4>1, <4>2, <4>3 DEF SizeInv, Sized, Moved
    <3> QED
      BY <1>3, <2>1, <3>1, FirstDescriptorEffect
  <2>2. CASE SecondReset
    <3>1. CASE Moved("address") /\ dev' = dev /\ per' = Reset(per.rec)
      <4>1. per'.rec = per.rec /\ per'.size = per.size
        BY <3>1, Fields, ResetStep
      <4> QED
        BY <2>2, <3>1, <4>1, MovedSize, SizedKept, TableFacts, SecondResetEffect
    <3> QED
      BY <1>3, <2>2, <3>1, SecondResetEffect
  <2>3. CASE SetAddress
    <3>1. PICK o \in Outcomes(DefaultPipe) :
            /\ per' = IF Route(DefaultPipe) = "bus" /\ Took(o)
                      THEN [per EXCEPT !.addr = drv.addr] ELSE per
            /\ \/ Failed
               \/ /\ Moved("descriptor")
                  /\ dev'[drv.rec].size = Scanned.size
                  /\ dev'[drv.rec].code \in Coded(Scanned)
      BY <2>3, SetAddressEffect
    <3>2. CASE /\ Moved("descriptor")
               /\ dev'[drv.rec].size = Scanned.size
               /\ dev'[drv.rec].code \in Coded(Scanned)
      <4>1. per \in Peripherals /\ drv.at = "address"
        BY <2>3, SetAddressEffect DEF TypeOK
      <4>2. per'.rec = per.rec /\ per'.size = per.size
        BY <3>1, <4>1, Zenon DEF Peripherals
      <4>3. Scanned.size \in Sizes \cup {0}
        <5>1. Scanned.size \in Sizes \cup {0, Garbled}
          BY Fields, Zenon DEF Devices
        <5>2. Scanned.size # Garbled
          BY <4>1 DEF SizeInv
        <5> QED
          BY <5>1, <5>2
      <4>4. Scanned.size # 0 => dev'[drv.rec].code = Scanned.size
        BY <3>2, <4>3 DEF Coded
      <4>5. Scanned' = dev'[drv.rec]
        BY <1>4, <3>2 DEF Moved
      <4> QED
        BY <3>2, <4>1, <4>2, <4>3, <4>4, <4>5, SMT DEF SizeInv, Sized, Moved, Garbled
    <3> QED
      BY <1>3, <3>1, <3>2
  <2>4. CASE FullDescriptor
    <3>1. CASE Moved("header") /\ dev' = dev
      BY <2>4, <3>1, MovedSize, SizedKept, TableFacts, FullDescriptorEffect
    <3> QED
      BY <1>3, <2>4, <3>1, FullDescriptorEffect
  <2>5. CASE ConfigHeader \/ WholeConfig
    BY <2>5, MovedSize, SizedKept, TableFacts, ReadConfigEffect
  <2>6. CASE ParseConfig
    <3>1. drv.at = "parse" /\ Moved("configure")
      BY <2>6, ParseEffect
    <3>2. Sized' => Sized /\ dev'[drv.rec].size = Scanned.size
      BY <1>4, <2>6, <3>1, ParseEffect DEF Sized, Moved
    <3> QED
      BY <2>6, <3>1, <3>2, MovedSize, ParseEffect
  <2>7. CASE SetConfiguration
    <3>1. CASE Moved("strings") /\ dev' = dev
      BY <2>7, <3>1, MovedSize, SizedKept, TableFacts, SetConfigurationEffect
    <3> QED
      BY <1>3, <2>7, <3>1, SetConfigurationEffect
  <2>8. CASE Strings
    BY <1>2, <2>8, StringsEffect DEF Moved
  <2> QED
    BY <1>6, <2>1, <2>2, <2>3, <2>4, <2>5, <2>6, <2>7, <2>8 DEF ScanDevice
<1>7. CASE RootIsHub \/ HubInit \/ Caller
  BY <1>2, <1>7, MainEffect DEF Moved
<1>8. CASE Plug \/ Unplug
  <2>1. per'.rec = 0 /\ drv' = drv /\ dev' = dev
    BY <1>8, PlugEffect DEF AddressInv
  <2> QED
    BY <1>1, <1>4, <2>1 DEF SizeInv, Sized, Scanned
<1>9. CASE UNCHANGED vars
  BY <1>9 DEF vars, SizeInv, Sized, Scanned
<1> QED
  BY <1>5, <1>6, <1>7, <1>8, <1>9 DEF Next

(* From SET_ADDRESS on, the packet size and its code are what the device said, unless its
   first descriptor was cut short or a configuration that was not read overrides the size. *)
THEOREM PacketSizesHold == Spec => []PacketSizeRight
<1>1. SizeInv => PacketSizeRight
  BY DEF SizeInv, PacketSizeRight, Requesting, Scanning, Addressed, Unaddressed
<1>2. RouteInv => TableInv
  BY DEF RouteInv
<1>3. Init => TypeOK /\ SizeInv
  BY InitEffect, SizeEnds DEF Scanning, Addressed, Unaddressed
<1> QED
  BY <1>1, <1>2, <1>3, InitRoute, NextRoute, NextType, InitAddress, NextAddress, NextSize, PTL
     DEF Spec

----------------------------------------------------------------------------
(* The device.                                                             *)

Idle == \/ per.rec = 0
        \/ drv.at \notin Scanning \cup {"return"}
        \/ drv.at = "return" /\ drv.ret # "found"
        \/ drv.at = "reset"

(* There is nothing to say of the device at the other steps. *)
LEMMA HearEnds == TypeOK /\ Idle => HearInv
<1> SUFFICES ASSUME TypeOK, Idle PROVE HearInv
  OBVIOUS
<1>1. drv.rec # 0
  BY Fields, SMT DEF Records
<1> QED
  BY <1>1 DEF Idle, HearInv, ReachesDevice, Found, Requesting, Scanning, Addressed,
              Unaddressed

LEMMA MovedHear ==
  ASSUME TypeOK, TableInv, HearInv, NEW p \in Addressed \ {"strings"}, Moved(p),
         drv.at \in Addressed, dev'[drv.rec].devnum = Scanned.devnum,
         per' = per
  PROVE  HearInv'
<1>1. Scanned' = dev'[drv.rec] /\ Pipe' = dev'[drv.rec].devnum
  BY DEF Scanned, Pipe, Moved
<1>2. per.rec = drv.rec => Hears(Pipe)
  BY DEF HearInv
<1>3. (per.rec = drv.rec => Hears(Pipe))'
  BY <1>1, <1>2 DEF Hears, Moved, Pipe
<1> QED
  BY <1>3 DEF HearInv, ReachesDevice, Found, Moved, Requesting, Addressed

LEMMA NextHear ==
  ~FakedSuccess /\ TypeOK /\ TableInv /\ AddressInv /\ HearInv /\ [Next]_vars => HearInv'
<1> SUFFICES ASSUME ~FakedSuccess, TypeOK, TableInv, AddressInv, HearInv, [Next]_vars
             PROVE  HearInv'
  OBVIOUS
<1> USE DEF Scanning, Addressed, Unaddressed
<1>1. TypeOK' /\ drv.rec # 0
  BY NextType, TableFacts
<1>2. ASSUME \/ per'.rec = 0
             \/ drv'.at \notin Scanning \cup {"return"}
             \/ drv'.at = "return" /\ drv'.ret # "found"
             \/ drv'.at = "reset"
      PROVE  HearInv'
  <2>1. Idle'
    BY <1>2 DEF Idle
  <2>2. (TypeOK /\ Idle => HearInv)'
    BY HearEnds, PTL
  <2> QED
    BY <1>1, <2>1, <2>2
<1>3. Failed => HearInv'
  BY <1>2 DEF Failed, Moved
<1>4. Scanned' = dev'[drv'.rec] /\ Pipe' = dev'[drv'.rec].devnum
  BY DEF Scanned, Pipe
<1>5. per.rec = drv.rec => drv.rec # Root
  BY <1>1, SMT DEF AddressInv, Root, TypeOK
<1>6. CASE Boot
  BY <1>2, <1>6, BootEffect
<1>7. CASE HubScan
  <2>1. CASE Moved("return") /\ drv'.ret # "found"
    BY <1>2, <2>1 DEF Moved
  <2>2. CASE /\ ndev < MaxDevice
             /\ drv'.at = "first" /\ drv'.rec = ndev + 1
             /\ dev'[ndev + 1].devnum = 0
             /\ per' = Reset(ndev + 1)
    <3>1. ndev + 1 \in 0..MaxDevice
      BY <2>2, SMT DEF TypeOK
    <3>2. per'.awake /\ per'.addr = 0
      BY <2>2, <3>1, ResetStep
    <3> QED
      BY <1>4, <2>2, <3>2 DEF HearInv, ReachesDevice, Found, Hears
  <2> QED
    BY <1>7, <2>1, <2>2, HubScanEffect
<1>8. CASE ScanDevice
  <2>1. CASE FirstDescriptor
    <3>1. CASE Moved(IF drv.rec = Root THEN "address" ELSE "reset")
      <4>1. per' = per
        BY <2>1, FirstDescriptorEffect
      <4>2. CASE drv.rec = Root
        <5>1. per'.rec # drv'.rec /\ drv'.at = "address"
          BY <1>5, <3>1, <4>1, <4>2 DEF Moved
        <5> QED
          BY <5>1 DEF HearInv, ReachesDevice, Found
      <4>3. CASE drv.rec # Root
        BY <1>2, <3>1, <4>3 DEF Moved
      <4> QED
        BY <4>2, <4>3
    <3> QED
      BY <1>3, <2>1, <3>1, FirstDescriptorEffect
  <2>2. CASE SecondReset
    <3>1. CASE Moved("address") /\ per' = Reset(per.rec)
      <4>1. per'.awake /\ per'.addr = 0 /\ drv'.at = "address"
        BY <3>1, Fields, ResetStep DEF Moved
      <4> QED
        BY <4>1 DEF HearInv, ReachesDevice, Found, Hears, AddressPipe, DefaultPipe,
                    Requesting
    <3> QED
      BY <1>3, <2>2, <3>1, SecondResetEffect
  <2>3. CASE SetAddress
    <3>1. PICK o \in Outcomes(DefaultPipe) :
            /\ per' = IF Route(DefaultPipe) = "bus" /\ Took(o)
                      THEN [per EXCEPT !.addr = drv.addr] ELSE per
            /\ \/ Failed
               \/ /\ Answered(o) /\ Moved("descriptor")
                  /\ dev'[drv.rec].devnum = drv.addr
      BY <2>3, SetAddressEffect
    <3>2. CASE /\ Answered(o) /\ Moved("descriptor")
               /\ dev'[drv.rec].devnum = drv.addr
      <4>1. drv.at = "address" /\ per \in Peripherals
        BY <2>3, SetAddressEffect DEF TypeOK
      <4>2. per'.rec = per.rec /\ per'.awake = per.awake
        BY <3>1, <4>1, Zenon DEF Peripherals
      <4>3. ASSUME per.rec = drv.rec PROVE per'.awake /\ per'.addr = drv.addr
        <5>1. Route(DefaultPipe) = "bus"
          BY <1>5, <4>1, <4>3 DEF TableInv, Route, DefaultPipe
        <5>2. Took(o) /\ Hears(DefaultPipe)
          BY <3>1, <3>2, <5>1 DEF Outcomes, Answered, Took
        <5>3. per' = [per EXCEPT !.addr = drv.addr]
          BY <3>1, <5>1, <5>2
        <5>4. per'.addr = drv.addr
          BY <4>1, <5>3, Zenon DEF Peripherals
        <5> QED
          BY <4>2, <5>2, <5>4 DEF Hears
      <4>4. drv'.at = "descriptor" /\ drv'.rec = drv.rec
        BY <3>2 DEF Moved
      <4> QED
        BY <1>4, <3>2, <4>2, <4>3, <4>4 DEF HearInv, ReachesDevice, Found, Hears
    <3> QED
      BY <1>3, <3>1, <3>2
  <2>4. CASE FullDescriptor
    <3>1. CASE Moved("header") /\ dev' = dev
      BY <2>4, <3>1, MovedHear, TableFacts, FullDescriptorEffect
    <3> QED
      BY <1>3, <2>4, <3>1, FullDescriptorEffect
  <2>5. CASE ConfigHeader \/ WholeConfig
    BY <2>5, MovedHear, TableFacts, ReadConfigEffect
  <2>6. CASE ParseConfig
    BY <2>6, MovedHear, ParseEffect
  <2>7. CASE SetConfiguration
    <3>1. PICK o \in Outcomes(Pipe) :
            /\ \/ per' = per /\ ~(Route(Pipe) = "bus" /\ Took(o) /\ Known(Scanned.value))
               \/ per'.awake = per.awake /\ per'.addr = per.addr /\ per'.rec = per.rec
            /\ Failed \/ (Accepted(o) /\ Moved("strings") /\ dev' = dev)
      BY <2>7, SetConfigurationEffect
    <3>2. CASE Accepted(o) /\ Moved("strings") /\ dev' = dev
      <4>1. drv.at = "configure" /\ drv'.at = "strings" /\ drv'.rec = drv.rec
        BY <2>7, <3>2, SetConfigurationEffect DEF Moved
      <4>2. per'.rec = per.rec /\ per'.awake = per.awake /\ per'.addr = per.addr
        BY <3>1
      <4>3. ASSUME per.rec = drv.rec
            PROVE  per.awake /\ per.addr = Pipe
        BY <4>1, <4>3 DEF HearInv, Hears
      <4>4. Scanned' = Scanned /\ Pipe' = Pipe
        BY <3>2, <4>1 DEF Scanned, Pipe
      <4> QED
        BY <4>1, <4>2, <4>3, <4>4 DEF HearInv, ReachesDevice, Found, Hears
    <3> QED
      BY <1>3, <3>1, <3>2
  <2>8. CASE Strings
    <3>1. drv.at = "strings" /\ per' = per /\ dev' = dev /\ drv'.rec = drv.rec
          /\ drv'.at \in {"is_hub", "return"}
      BY <2>8, StringsEffect DEF Moved
    <3>2. per.rec = drv.rec => Hears(Pipe)
      BY <3>1 DEF HearInv
    <3>3. Scanned' = Scanned /\ Pipe' = Pipe
      BY <3>1 DEF Scanned, Pipe
    <3> QED
      BY <3>1, <3>2, <3>3 DEF HearInv, ReachesDevice, Found, Requesting, Hears
  <2> QED
    BY <1>8, <2>1, <2>2, <2>3, <2>4, <2>5, <2>6, <2>7, <2>8 DEF ScanDevice
<1>9. CASE RootIsHub \/ HubInit \/ Caller
  BY <1>2, <1>9, MainEffect DEF Moved
<1>10. CASE Plug \/ Unplug
  <2>1. per'.rec = 0
    BY <1>10, PlugEffect DEF AddressInv
  <2> QED
    BY <1>2, <2>1
<1>11. CASE UNCHANGED vars
  BY <1>11 DEF vars, HearInv, ReachesDevice, Found, Hears, Pipe, Scanned
<1> QED
  BY <1>6, <1>7, <1>8, <1>9, <1>10, <1>11 DEF Next

(* The device that the port lets through, whichever it is. *)
LEMMA AwakeEnds ==
  \/ drv.rec = Root /\ drv.at # "return"
  \/ drv.at \notin Scanning \cup {"return"}
  \/ drv.at = "return" /\ drv.ret # "found"
  => AwakeInv
BY DEF AwakeInv, Found, Scanning, Addressed, Unaddressed

LEMMA MovedAwake ==
  ASSUME AwakeInv, NEW p \in Scanning \ {"strings"}, Moved(p),
         \/ drv.at \in Unaddressed /\ p \in Unaddressed
         \/ /\ drv.at \in Addressed /\ p \in Addressed
            /\ dev'[drv.rec].devnum = Scanned.devnum,
         per' = per
  PROVE  AwakeInv'
<1>1. Scanned' = dev'[drv.rec]
  BY DEF Scanned, Moved
<1> QED
  BY <1>1 DEF AwakeInv, Found, Moved, Scanning, Addressed, Unaddressed

LEMMA NextAwake ==
  ~FakedSuccess /\ TypeOK /\ TableInv /\ AwakeInv /\ [Next]_vars => AwakeInv'
<1> SUFFICES ASSUME ~FakedSuccess, TypeOK, TableInv, AwakeInv, [Next]_vars PROVE AwakeInv'
  OBVIOUS
<1> USE DEF Scanning, Addressed, Unaddressed
<1>1. ASSUME \/ drv'.rec = Root /\ drv'.at # "return"
             \/ drv'.at \notin Scanning \cup {"return"}
             \/ drv'.at = "return" /\ drv'.ret # "found"
      PROVE  AwakeInv'
  <2>1. (\/ drv.rec = Root /\ drv.at # "return"
         \/ drv.at \notin Scanning \cup {"return"}
         \/ drv.at = "return" /\ drv.ret # "found"
         => AwakeInv)'
    BY AwakeEnds, PTL
  <2> QED
    BY <1>1, <2>1 DEF Root
<1>2. Failed => AwakeInv'
  BY <1>1 DEF Failed, Moved
<1>3. Scanned' = dev'[drv'.rec]
  BY DEF Scanned
<1>4. CASE Boot
  BY <1>1, <1>4, BootEffect DEF Root
<1>5. CASE HubScan
  <2>1. CASE Moved("return") /\ drv'.ret # "found"
    BY <1>1, <2>1 DEF Moved
  <2>2. CASE ndev < MaxDevice /\ drv'.at = "first" /\ per' = Reset(ndev + 1)
    <3>1. ndev + 1 \in 0..MaxDevice
      BY <2>2, SMT DEF TypeOK
    <3>2. per'.addr = 0
      BY <2>2, <3>1, ResetStep
    <3> QED
      BY <2>2, <3>2 DEF AwakeInv, Found
  <2> QED
    BY <1>5, <2>1, <2>2, HubScanEffect
<1>6. CASE ScanDevice
  <2>1. CASE FirstDescriptor
    BY <1>2, <2>1, MovedAwake, FirstDescriptorEffect
  <2>2. CASE SecondReset
    <3>1. CASE Moved("address") /\ per' = Reset(per.rec)
      <4>1. per'.addr = 0 /\ drv'.at = "address"
        BY <3>1, Fields, ResetStep DEF Moved
      <4> QED
        BY <4>1 DEF AwakeInv, Found
    <3> QED
      BY <1>2, <2>2, <3>1, SecondResetEffect
  <2>3. CASE SetAddress
    <3>1. PICK o \in Outcomes(DefaultPipe) :
            /\ per' = IF Route(DefaultPipe) = "bus" /\ Took(o)
                      THEN [per EXCEPT !.addr = drv.addr] ELSE per
            /\ \/ Failed
               \/ /\ Answered(o) /\ Moved("descriptor")
                  /\ dev'[drv.rec].devnum = drv.addr
      BY <2>3, SetAddressEffect
    <3>2. CASE /\ Answered(o) /\ Moved("descriptor")
               /\ dev'[drv.rec].devnum = drv.addr
      <4>1. drv.at = "address" /\ per \in Peripherals
        BY <2>3, SetAddressEffect DEF TypeOK
      <4>2. ASSUME drv.rec # Root PROVE per'.addr = drv.addr
        <5>1. Route(DefaultPipe) = "bus"
          BY <4>1, <4>2 DEF TableInv, Route, DefaultPipe
        <5>2. Took(o)
          BY <3>1, <3>2, <5>1 DEF Outcomes, Answered, Took
        <5>3. per' = [per EXCEPT !.addr = drv.addr]
          BY <3>1, <5>1, <5>2
        <5> QED
          BY <4>1, <5>3, Zenon DEF Peripherals
      <4>3. drv'.at = "descriptor" /\ drv'.rec = drv.rec
        BY <3>2 DEF Moved
      <4> QED
        BY <1>3, <3>2, <4>2, <4>3 DEF AwakeInv, Found
    <3> QED
      BY <1>2, <3>1, <3>2
  <2>4. CASE FullDescriptor
    BY <1>2, <2>4, MovedAwake, TableFacts, FullDescriptorEffect
  <2>5. CASE ConfigHeader \/ WholeConfig
    BY <2>5, MovedAwake, TableFacts, ReadConfigEffect
  <2>6. CASE ParseConfig
    BY <2>6, MovedAwake, ParseEffect
  <2>7. CASE SetConfiguration
    <3>1. PICK o \in Outcomes(Pipe) :
            /\ \/ per' = per /\ ~(Route(Pipe) = "bus" /\ Took(o) /\ Known(Scanned.value))
               \/ /\ per'.awake = per.awake /\ per'.addr = per.addr
                  /\ per'.cfg = Scanned.value
            /\ Failed \/ (Accepted(o) /\ Moved("strings") /\ dev' = dev)
      BY <2>7, SetConfigurationEffect
    <3>2. CASE Accepted(o) /\ Moved("strings") /\ dev' = dev
      <4>1. drv.at = "configure" /\ drv'.at = "strings" /\ drv'.rec = drv.rec
        BY <2>7, <3>2, SetConfigurationEffect DEF Moved
      <4>2. per'.awake = per.awake /\ per'.addr = per.addr
        BY <3>1
      <4>3. ASSUME drv.rec # Root
            PROVE  per'.cfg = Scanned.value
        <5>1. Route(Pipe) = "bus"
          BY <4>1, <4>3, TableFacts DEF TableInv, Route
        <5>2. Took(o) /\ Known(Scanned.value)
          BY <3>1, <3>2, <5>1 DEF Accepted, Outcomes, Answered, Took
        <5> QED
          BY <3>1, <5>1, <5>2
      <4>4. Scanned' = Scanned
        BY <3>2, <4>1 DEF Scanned
      <4> QED
        BY <4>1, <4>2, <4>3, <4>4 DEF AwakeInv, Found
    <3> QED
      BY <1>2, <3>1, <3>2
  <2>8. CASE Strings
    <3>1. drv.at = "strings" /\ per' = per /\ dev' = dev /\ drv'.rec = drv.rec
          /\ drv'.at = IF drv.rec = Root THEN "is_hub" ELSE "return"
      BY <2>8, StringsEffect DEF Moved
    <3>2. Scanned' = Scanned
      BY <3>1 DEF Scanned
    <3> QED
      BY <3>1, <3>2 DEF AwakeInv, Found
  <2> QED
    BY <1>6, <2>1, <2>2, <2>3, <2>4, <2>5, <2>6, <2>7, <2>8 DEF ScanDevice
<1>7. CASE RootIsHub \/ HubInit \/ Caller
  BY <1>1, <1>7, MainEffect DEF Moved
<1>8. CASE Plug \/ Unplug
  BY <1>3, <1>8, PlugEffect DEF AwakeInv, Found, Scanned
<1>9. CASE UNCHANGED vars
  BY <1>9 DEF vars, AwakeInv, Found, Scanned
<1> QED
  BY <1>4, <1>5, <1>6, <1>7, <1>8, <1>9 DEF Next

(* What was read is recorded. *)
LEMMA ReadEnds == drv.at \notin {"configure", "strings"} /\ ~Found => ReadInv
BY DEF ReadInv

LEMMA NextRead == TypeOK /\ ReadInv /\ [Next]_vars => ReadInv'
<1> SUFFICES ASSUME TypeOK, ReadInv, [Next]_vars PROVE ReadInv'
  OBVIOUS
<1>1. ASSUME drv'.at \notin {"configure", "strings"},
             drv'.at = "return" => drv'.ret # "found"
      PROVE  ReadInv'
  BY <1>1 DEF ReadInv, Found
<1>2. Failed => ReadInv'
  BY <1>1 DEF Failed, Moved
<1>3. Scanned' = dev'[drv'.rec]
  BY DEF Scanned
<1>4. ASSUME buf' = buf, dev' = dev, drv'.rec = drv.rec,
             drv.at \in {"configure", "strings"} \/ Found \/ drv' = drv
      PROVE  ReadInv'
  <2>1. Scanned' = Scanned /\ (ConfigRead' <=> ConfigRead)
    BY <1>4 DEF Scanned, ConfigRead
  <2>2. drv' = drv => (Found' <=> Found)
    BY DEF Found
  <2> QED
    BY <1>4, <2>1, <2>2 DEF ReadInv
<1>5. CASE Boot \/ HubScan
  BY <1>1, <1>5, BootEffect, HubScanEffect DEF Moved
<1>6. CASE FirstDescriptor \/ SecondReset \/ FullDescriptor
  BY <1>1, <1>2, <1>6, FirstDescriptorEffect, SecondResetEffect, FullDescriptorEffect DEF Moved
<1>7. CASE SetAddress
  BY <1>1, <1>2, <1>7, SetAddressEffect DEF Moved
<1>8. CASE ConfigHeader \/ WholeConfig
  BY <1>1, <1>8, ReadConfigEffect DEF Moved
<1>9. CASE ParseConfig
  <2>1. /\ buf' = buf /\ drv'.rec = drv.rec
        /\ ConfigRead => dev'[drv.rec].value = 1 /\ dev'[drv.rec].ifs = "right"
    BY <1>9, ParseEffect DEF Moved
  <2> QED
    BY <1>3, <2>1 DEF ReadInv, ConfigRead
<1>10. CASE SetConfiguration
  BY <1>2, <1>4, <1>10, SetConfigurationEffect DEF Moved
<1>11. CASE Strings
  BY <1>4, <1>11, StringsEffect DEF Moved
<1>12. CASE RootIsHub \/ HubInit \/ Caller
  BY <1>1, <1>12, MainEffect DEF Moved
<1>13. CASE Plug \/ Unplug
  BY <1>4, <1>13, PlugEffect
<1>14. CASE UNCHANGED vars
  BY <1>4, <1>14 DEF vars
<1> QED
  BY <1>5, <1>6, <1>7, <1>8, <1>9, <1>10, <1>11, <1>12, <1>13, <1>14 DEF Next, ScanDevice

LEMMA AlwaysDevice == ~FakedSuccess /\ Spec => []DeviceInv
<1> SUFFICES ASSUME ~FakedSuccess PROVE Spec => []DeviceInv
  OBVIOUS
<1>1. RouteInv => TableInv
  BY DEF RouteInv
<1>2. Init => TypeOK /\ DeviceInv
  BY InitEffect, HearEnds, AwakeEnds, ReadEnds
     DEF Idle, DeviceInv, Found, Scanning, Addressed, Unaddressed
<1>3. TypeOK /\ TableInv /\ AddressInv /\ DeviceInv /\ [Next]_vars => DeviceInv'
  BY NextHear, NextAwake, NextRead DEF DeviceInv
<1> QED
  BY <1>1, <1>2, <1>3, InitRoute, NextRoute, NextType, InitAddress, NextAddress, PTL DEF Spec

(* As long as no poll that times out passes for success: a request is sent to the address at
   which its device answers. *)
THEOREM RequestsReach == ~FakedSuccess /\ Spec => []ReachesDevice
<1>1. DeviceInv => ReachesDevice
  BY DEF DeviceInv, HearInv
<1> QED
  BY <1>1, AlwaysDevice, PTL

(* And the record of a device that was found agrees with the device behind the port, and with
   the configuration that was read. *)
THEOREM FoundDevicesAgree == ~FakedSuccess /\ Spec => []FoundAgrees
<1>1. DeviceInv => FoundAgrees
  BY DEF DeviceInv, HearInv, AwakeInv, ReadInv, FoundAgrees, Hears
<1> QED
  BY <1>1, AlwaysDevice, PTL

----------------------------------------------------------------------------
(* The refinement of DeviceLife.                                           *)

LEMMA InitLife == Init => Life!Init
BY InitEffect DEF Life!Init, LifeOf

LEMMA ResetLife ==
  ASSUME TypeOK, NEW r \in 0..MaxDevice, per' = Reset(r)
  PROVE  Life!Reset
<1>1. per'.awake /\ per'.addr = 0 /\ per'.cfg = 0
  BY ResetStep
<1> QED
  BY <1>1 DEF Life!Reset, LifeOf

LEMMA DisabledLife == Disabled => Life!Vanish \/ UNCHANGED Life!vars
<1> SUFFICES ASSUME Disabled PROVE Life!Vanish \/ UNCHANGED Life!vars
  OBVIOUS
<1>1. per'.addr = per.addr /\ per'.cfg = per.cfg /\ per'.awake \in {per.awake, FALSE}
  BY DEF Disabled
<1>2. CASE ~per'.awake
  BY <1>1, <1>2 DEF Life!Vanish, LifeOf
<1>3. CASE per'.awake = per.awake
  BY <1>1, <1>3 DEF Life!vars, LifeOf
<1> QED
  BY <1>1, <1>2, <1>3

LEMMA NextLife == TypeOK /\ TableInv /\ [Next]_vars => [Life!Next]_Life!vars
<1> SUFFICES ASSUME TypeOK, TableInv, [Next]_vars PROVE [Life!Next]_Life!vars
  OBVIOUS
<1> USE DEF Life!Next
<1>1. ASSUME per' = per PROVE UNCHANGED Life!vars
  BY <1>1 DEF Life!vars
<1>2. 0 \in 0..MaxDevice /\ per.rec \in 0..MaxDevice
  BY Fields, SMT
<1>3. CASE Boot
  BY <1>3, BootEffect DEF Life!Vanish, LifeOf
<1>4. CASE HubScan
  <2>1. CASE ndev < MaxDevice /\ per' = Reset(ndev + 1)
    <3>1. ndev + 1 \in 0..MaxDevice
      BY <2>1, SMT DEF TypeOK
    <3> QED
      BY <2>1, <3>1, ResetLife
  <2> QED
    BY <1>2, <1>4, <2>1, HubScanEffect, ResetLife, DisabledLife
<1>5. CASE SecondReset
  BY <1>2, <1>5, SecondResetEffect, ResetLife, DisabledLife
<1>6. CASE SetAddress
  <2>1. PICK o \in Outcomes(DefaultPipe) :
          per' = IF Route(DefaultPipe) = "bus" /\ Took(o)
                 THEN [per EXCEPT !.addr = drv.addr] ELSE per
    BY <1>6, SetAddressEffect
  <2>2. CASE Route(DefaultPipe) = "bus" /\ Took(o)
    <3>1. per.awake /\ per.addr = 0
      BY <2>1, <2>2 DEF Outcomes, Took, Hears, DefaultPipe
    <3>2. drv.rec # Root
      BY <1>6, <2>2, SetAddressEffect DEF TableInv, Route, DefaultPipe, Unaddressed
    <3>3. drv.addr \in 2..MaxDevice
      BY <3>2, Fields, TableFacts, SMT DEF Records
    <3>4. per \in Peripherals
      BY DEF TypeOK
    <3>5. per' = [per EXCEPT !.addr = drv.addr]
      BY <2>1, <2>2
    <3>6. per'.addr = drv.addr /\ per'.awake = per.awake /\ per'.cfg = per.cfg
      BY <3>4, <3>5, Zenon DEF Peripherals
    <3>7. drv.addr # 0
      BY <3>3, SMT
    <3> QED
      BY <3>1, <3>3, <3>6, <3>7 DEF Life!GetAddress, LifeOf
  <2>3. CASE ~(Route(DefaultPipe) = "bus" /\ Took(o))
    BY <1>1, <2>1, <2>3
  <2> QED
    BY <2>2, <2>3
<1>7. CASE SetConfiguration
  <2>1. PICK o \in Outcomes(Pipe) :
          \/ per' = per
          \/ /\ Route(Pipe) = "bus" /\ Took(o)
             /\ per'.awake = per.awake /\ per'.addr = per.addr
             /\ per'.cfg = Scanned.value /\ per'.cfg \in 0..1
    BY <1>7, SetConfigurationEffect
  <2>2. CASE /\ Route(Pipe) = "bus" /\ Took(o)
             /\ per'.awake = per.awake /\ per'.addr = per.addr
             /\ per'.cfg \in 0..1
    <3>1. per.awake /\ per.addr = Pipe
      BY <2>1, <2>2 DEF Outcomes, Took, Hears
    <3>2. Pipe # 0
      BY <1>7, SetConfigurationEffect, TableFacts DEF TableInv, Scanning, Addressed
    <3> QED
      BY <2>2, <3>1, <3>2 DEF Life!GetConfig, LifeOf
  <2> QED
    BY <1>1, <2>1, <2>2
<1>8. CASE \/ FirstDescriptor \/ FullDescriptor \/ ConfigHeader \/ WholeConfig
           \/ ParseConfig \/ Strings \/ RootIsHub \/ HubInit \/ Caller
  BY <1>1, <1>8, FirstDescriptorEffect, FullDescriptorEffect, ReadConfigEffect, ParseEffect,
     StringsEffect, MainEffect
<1>9. CASE Plug \/ Unplug
  <2>1. CASE ~per'.awake
    BY <1>9, <2>1, PlugEffect DEF Life!Vanish, LifeOf
  <2>2. CASE per'.awake = per.awake
    BY <1>9, <2>2, PlugEffect DEF Life!vars, LifeOf
  <2> QED
    BY <1>9, <2>1, <2>2, PlugEffect
<1>10. CASE UNCHANGED vars
  BY <1>1, <1>10 DEF vars
<1> QED
  BY <1>3, <1>4, <1>5, <1>6, <1>7, <1>8, <1>9, <1>10 DEF Next, ScanDevice

(* Enumeration leads the device through its states in order: it implements DeviceLife. *)
THEOREM ImplementsDeviceLife == Spec => LedInOrder
<1> SUFFICES Spec => Life!Spec
  BY DEF LedInOrder
<1>1. RouteInv => TableInv
  BY DEF RouteInv
<1>2. Init => TypeOK
  BY InitEffect
<1> QED
  BY <1>1, <1>2, InitRoute, NextRoute, NextType, InitLife, NextLife, PTL DEF Spec, Life!Spec
============================================================================
