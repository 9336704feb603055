-------------------------- MODULE EhciStatusProofs --------------------------
(***************************************************************************)
(* What a finished call reports is what happened to its chain: dev->status,*)
(* dev->toggle and dev->act_len, for every value of the constants and      *)
(* every controller that is not "late".                                    *)
(***************************************************************************)
EXTENDS EhciHcdProofs

(* The places of the driver at which no transfer is in progress. *)
Between == {"boot", "haltwait", "resetwait", "setup", "hung", "idle"}

(* The schedule runs while the driver polls; a driver that has given up on a chain the
   controller never fetched has a controller that stopped with the schedule on. *)
OnSchedule ==
  here =>
    /\ pc \in {"on", "poll", "disable"} => ase
    /\ pc \in {"poll", "disable"} => ass
    /\ pc \in {"disable", "off"} /\ qh.cur = 0 => ~run /\ ass

(* The chain is executed in order: the stages before the one in the overlay are retired
   and did not halt, those behind it are untouched, and the one in the overlay gets the
   overlay's token when it is retired. *)
InOrder ==
  /\ qh.cur <= NumStages(xfer)
  /\ \A i \in 1 .. NumStages(xfer) :
       /\ i < qh.cur => ~td[i].active /\ "Halted" \notin td[i].flags
       /\ i > qh.cur => td[i].active /\ td[i].flags = {}

OverlayOf(t) ==
  /\ t.active = qh.active
  /\ t.flags = IF qh.active THEN {} ELSE qh.flags
  /\ qh.active => "Halted" \notin qh.flags

NextOf(i) == IF i < NumStages(xfer) THEN i + 1 ELSE 0

Linked ==
  /\ status = "NOT_PROC"
  /\ \A i \in 1 .. NumStages(xfer) : td[i].next = NextOf(i)
  /\ qh.next = NextOf(qh.cur)
  /\ qh.cur = 0 => InOrder

ChainInv ==
  /\ pc \notin Between => Linked
  /\ pc = "finish" => qh.cur # 0
  /\ qh.cur = 0 => ~qh.active /\ qh.flags = {}
  /\ qh.cur # 0 => InOrder /\ OverlayOf(td[qh.cur])

(* What the driver has made of the overlay when the call is over. *)
OutcomeInv ==
  pc \in Between /\ status # "NOT_PROC" =>
    /\ qh.cur # 0 /\ ~qh.active
    /\ status = Decode(qh.flags)
    /\ actLen = Transferred(xfer)
    /\ xfer.call = "bulk" /\ status = "OK" => toggle[xfer.dir] = qh.tog
    /\ xfer.call = "clear" /\ status = "OK" => toggle[xfer.dir] = 0

(* A status stage of CLEAR_FEATURE that was retired without halting was answered. *)
ClearInv ==
  xfer.call = "clear" /\ qh.cur = NumStages(xfer) /\ ~qh.active
    /\ "Halted" \notin qh.flags
  => devTog[xfer.dir] = 0 /\ owed[xfer.dir] = 0

(* Packets of an OUT transfer the device has and the driver does not know of. *)
Unanswered == IF xfer.dir = "out" /\ xfer.len > 0 THEN owed["out"] ELSE 0

(* A bulk transfer that began in agreement stays in step with the device, except for the
   packet whose acknowledgement was lost, which leaves its mark in the token. *)
InStep ==
  /\ qh.tog = (devTog[xfer.dir] + owed[xfer.dir]) % 2
  /\ xfer.dir = "out" /\ owed["out"] = 1 => "XactErr" \in qh.flags
  /\ moved + qh.left = xfer.len + Unanswered
  /\ qh.active /\ xfer.len > 0 => qh.left > 0

Ready ==
  /\ Agree(toggle[xfer.dir], xfer.dir)
  /\ td[1].tog = toggle[xfer.dir] /\ td[1].left = xfer.len /\ moved = 0

BulkInv ==
  xfer.call = "bulk" /\ synced =>
    /\ pc \notin Between /\ qh.cur = 0 => Ready
    /\ qh.cur # 0 => InStep

(* A controller without faults never makes a transfer fail in a handshake. *)
LivelyInv ==
  /\ here /\ ~fatal /\ pc # "fail"
  /\ pc \notin {"boot", "haltwait", "resetwait", "setup", "hung"} => run
  /\ pc \in Between /\ qh.cur # 0 /\ ~qh.active => status # "NOT_PROC"

-----------------------------------------------------------------------------
(* The steps of the controller that execute the queue, by what they do to the shared
   memory: they load a stage, go on with it, or retire it. *)

Goes ==
  /\ Working /\ UNCHANGED td
  /\ qh'.active = qh.active /\ qh'.cur = qh.cur /\ qh'.next = qh.next
  /\ "Halted" \in qh'.flags => "Halted" \in qh.flags

Retires ==
  /\ Working
  /\ qh'.active = FALSE /\ qh'.cur = qh.cur /\ qh'.next = qh.next
  /\ td'[qh.cur].active = FALSE /\ td'[qh.cur].flags = qh'.flags
  /\ td'[qh.cur].next = td[qh.cur].next
  /\ \A i \in Stages : i # qh.cur => td'[i] = td[i]

LEMMA OverlayType ==
  ASSUME TypeOK
  PROVE  /\ qh \in Overlays /\ td \in [Stages -> Tds]
         /\ xfer \in Transfers /\ NumStages(xfer) \in Stages
         /\ qh.cur \in 0 .. 3 /\ qh.next \in 0 .. 3
BY StagesType DEF TypeOK, Overlays

LEMMA RetireFields ==
  ASSUME TypeOK, Working, NEW flags, NEW left, NEW tog, Retire(flags, left, tog)
  PROVE  /\ Retires
         /\ qh'.flags = flags /\ qh'.left = left /\ qh'.tog = tog
<1>1. qh \in Overlays /\ td \in [Stages -> Tds] /\ qh.cur \in Stages
  BY OverlayType, SMT DEF Working, Stages
<1>2. /\ qh'.active = FALSE /\ qh'.flags = flags /\ qh'.left = left /\ qh'.tog = tog
      /\ qh'.cur = qh.cur /\ qh'.next = qh.next
  BY <1>1 DEF Retire, Overlays
<1>3. td' = [td EXCEPT ![qh.cur] = [td[qh.cur] EXCEPT !.active = FALSE, !.flags = flags,
                                                  !.left = left, !.tog = tog]]
  BY <1>1 DEF Retire
<1>4. td[qh.cur] \in Tds
  BY <1>1
<1>5. td'[qh.cur] = [td[qh.cur] EXCEPT !.active = FALSE, !.flags = flags,
                                       !.left = left, !.tog = tog]
  BY <1>1, <1>3
<1>6. /\ td'[qh.cur].active = FALSE /\ td'[qh.cur].flags = flags
      /\ td'[qh.cur].next = td[qh.cur].next
  BY <1>4, <1>5 DEF Tds
<1>7. \A i \in Stages : i # qh.cur => td'[i] = td[i]
  BY <1>1, <1>3
<1> QED
  BY <1>2, <1>6, <1>7 DEF Retires

(* One packet: the stage goes on with one packet less, or is retired with none left. *)
LEMMA AdvanceFields ==
  ASSUME TypeOK, Working, Advance
  PROVE  /\ Goes \/ Retires
         /\ qh'.flags = qh.flags /\ qh'.tog = 1 - qh.tog
         /\ qh'.left = IF qh.left > 1 THEN qh.left - 1 ELSE 0
         /\ qh'.active => qh.left > 1
<1>1. qh \in Overlays
  BY OverlayType
<1>2. CASE qh.left > 1
  <2>1. qh' = [qh EXCEPT !.left = qh.left - 1, !.tog = 1 - qh.tog] /\ UNCHANGED td
    BY <1>2 DEF Advance
  <2>2. /\ qh'.active = qh.active /\ qh'.flags = qh.flags /\ qh'.left = qh.left - 1
        /\ qh'.tog = 1 - qh.tog /\ qh'.cur = qh.cur /\ qh'.next = qh.next
    BY <1>1, <2>1 DEF Overlays
  <2> QED
    BY <1>2, <2>1, <2>2 DEF Goes
<1>3. CASE ~(qh.left > 1)
  <2>1. Retire(qh.flags, 0, 1 - qh.tog)
    BY <1>3 DEF Advance
  <2>2. Retires /\ qh'.flags = qh.flags /\ qh'.left = 0 /\ qh'.tog = 1 - qh.tog
    BY <2>1, RetireFields
  <2> QED
    BY <1>3, <2>2 DEF Retires
<1> QED
  BY <1>2, <1>3

LEMMA MarkFields ==
  ASSUME TypeOK, Working, UNCHANGED td, NEW e, e # "Halted",
         qh' = [qh EXCEPT !.flags = @ \cup {e}]
  PROVE  /\ Goes
         /\ qh'.flags = qh.flags \cup {e} /\ qh'.left = qh.left /\ qh'.tog = qh.tog
<1>1. qh \in Overlays
  BY OverlayType
<1>2. /\ qh'.active = qh.active /\ qh'.flags = qh.flags \cup {e} /\ qh'.left = qh.left
      /\ qh'.tog = qh.tog /\ qh'.cur = qh.cur /\ qh'.next = qh.next
  BY <1>1 DEF Overlays
<1> QED
  BY <1>2 DEF Goes

LEMMA ExecutesCases ==
  ASSUME TypeOK, Executes
  PROVE  HcFetch \/ Goes \/ Retires
<1>1. CASE HcControlPacket \/ HcBulkPacket \/ HcLostAckIn
  BY <1>1, AdvanceFields DEF HcControlPacket, HcBulkPacket, HcLostAckIn
<1>2. CASE HcLostAckOut
  BY <1>2, MarkFields DEF HcLostAckOut
<1>3. CASE HcDiscard
  BY <1>3, AdvanceFields DEF HcDiscard, Goes
<1>4. CASE HcShort
  BY <1>4, RetireFields DEF HcShort
<1>5. CASE HcTransient
  BY <1>5, MarkFields DEF HcTransient
<1>6. CASE HcHaltQueue
  BY <1>6, RetireFields DEF HcHaltQueue
<1> QED
  BY <1>1, <1>2, <1>3, <1>4, <1>5, <1>6 DEF Executes

LEMMA FetchFields ==
  ASSUME TypeOK, HcFetch
  PROVE  /\ ~qh.active /\ "Halted" \notin qh.flags /\ qh.next \in Stages
         /\ td[qh.next].active /\ UNCHANGED td
         /\ qh'.active = td[qh.next].active /\ qh'.flags = td[qh.next].flags
         /\ qh'.left = td[qh.next].left /\ qh'.tog = td[qh.next].tog
         /\ qh'.cur = qh.next /\ qh'.next = td[qh.next].next
<1>1. qh.next \in Stages
  BY OverlayType, SMT DEF HcFetch, Stages
<1> QED
  BY <1>1 DEF HcFetch

(* The queue is executed only during a transfer. *)
LEMMA ExecutesWhen ==
  ASSUME LendInv, Executes
  PROVE  pc \in {"on", "poll", "disable", "off"} /\ pc \notin Between /\ pc # "finish"
<1>1. pc \in {"on", "poll", "disable", "off"}
  BY ExecutesFrame DEF LendInv
<1> QED
  BY <1>1 DEF Between

-----------------------------------------------------------------------------
(* The schedule while the driver waits.                                    *)

LEMMA InitOnSchedule == Init => OnSchedule
BY DEF Init, OnSchedule

(* Executing the queue never puts the overlay back before the first stage. *)
LEMMA ExecutesFetched ==
  ASSUME TypeOK, Executes
  PROVE  qh'.cur # 0
<1>1. CASE HcFetch
  BY <1>1, FetchFields DEF Stages
<1>2. CASE Goes \/ Retires
  BY <1>2 DEF Goes, Retires, Working
<1> QED
  BY <1>1, <1>2, ExecutesCases

LEMMA NextOnSchedule ==
  ASSUME "late" \notin Faults, TypeOK, ResetInv, LendInv, ChainInv, OnSchedule, [Next]_vars
  PROVE  OnSchedule'
<1> USE DEF OnSchedule, call, mem, cmd, sts, device, drv
<1>0. /\ run \in BOOLEAN /\ ase \in BOOLEAN /\ ass \in BOOLEAN /\ halt \in BOOLEAN
  BY DEF TypeOK
<1>1. ASSUME NEW t \in Calls, Submit(t) PROVE OnSchedule'
  BY <1>1 DEF Submit
<1>2. CASE InitBegin \/ Setup
  BY <1>2 DEF InitBegin, Setup
<1>3. CASE HaltWait \/ ResetWait
  BY <1>3 DEF HaltWait, ResetWait, Await, PollAgain
<1>4. CASE ClearStatus
  BY <1>4 DEF ClearStatus
<1>5. CASE Enable
  BY <1>5 DEF Enable
<1>6. CASE WaitOn
  BY <1>6 DEF WaitOn, Await, PollAgain
<1>7. CASE Poll
  <2>1. CASE pc' = "poll"
    BY <1>7, <2>1 DEF Poll, PollAgain
  <2>2. CASE pc' = "disable" /\ ~LastTd.active
    <3>1. NumStages(xfer) \in Stages
      BY OverlayType
    <3>2. qh.cur # 0
      <4>1. pc \notin Between
        BY <1>7 DEF Poll, Between
      <4>2. qh.cur = 0 => InOrder
        BY <4>1 DEF ChainInv, Linked
      <4>3. NumStages(xfer) \in 1 .. NumStages(xfer) /\ NumStages(xfer) > 0
        BY <3>1 DEF Stages
      <4> QED
        BY <2>2, <4>2, <4>3 DEF InOrder, LastTd
    <3> QED
      BY <1>7, <2>2, <3>2 DEF Poll
  <2>3. CASE pc' = "disable" /\ (qh.cur # 0 \/ ~run \/ ~here)
    BY <1>7, <2>3 DEF Poll
  <2> QED
    BY <1>7, <2>1, <2>2, <2>3 DEF Poll, PollAgain, TimesOut
<1>8. CASE Disable
  BY <1>8 DEF Disable
<1>9. CASE WaitOff
  BY <1>9 DEF WaitOff, Await, PollAgain
<1>10. CASE Finish \/ Fail
  BY <1>10 DEF Finish, Fail
<1>11. CASE HcHalt
  BY <1>0, <1>11 DEF HcHalt
<1>12. CASE HcFollowAse
  BY <1>0, <1>12 DEF HcFollowAse, LendInv
<1>13. CASE HcResetDone
  BY <1>13 DEF HcResetDone, ResetInv
<1>14. CASE HcFatal
  BY <1>14 DEF HcFatal
<1>15. CASE HcVanish \/ HcEnter
  BY <1>15 DEF HcVanish, HcEnter
<1>16. CASE Executes
  BY <1>16, ExecutesFrame, ExecutesFetched
<1>17. CASE UNCHANGED vars \/ Hang
  BY <1>17 DEF vars, Hang
<1> QED
  BY <1>1, <1>2, <1>3, <1>4, <1>5, <1>6, <1>7, <1>8, <1>9, <1>10, <1>11, <1>12, <1>13,
     <1>14, <1>15, <1>16, <1>17, ControllerCases DEF Next, Driver

-----------------------------------------------------------------------------
(* The chain.                                                              *)

LEMMA InitChain == Init => ChainInv
BY DEF Init, ChainInv, Between, NewQh

LEMMA ChainFrame ==
  ASSUME ChainInv, UNCHANGED <<qh, td, xfer, status>>,
         pc \in Between => pc' \in Between, pc' = "finish" => qh.cur # 0
  PROVE  ChainInv'
<1>1. /\ InOrder' <=> InOrder
      /\ Linked' <=> Linked
      /\ OverlayOf(td[qh.cur])' <=> OverlayOf(td[qh.cur])
  BY DEF InOrder, Linked, NextOf, OverlayOf
<1> QED
  BY <1>1 DEF ChainInv

LEMMA ChainSubmit ==
  ASSUME TypeOK, ChainInv, NEW t \in Calls, Submit(t)
  PROVE  ChainInv'
<1>1. t \in Transfers /\ NumStages(t) \in Stages
  BY HcdAssumption, StagesType
<1>2. CASE ~Fits(t)
  BY <1>2 DEF Submit, ChainInv, Between, NewQh
<1>3. CASE Fits(t)
  <2>1. /\ td' = [i \in Stages |-> IF i <= NumStages(t) THEN NewTd(t, i) ELSE UnusedTd]
        /\ qh' = NewQh(1) /\ xfer' = t /\ pc' = "clear" /\ status' = "NOT_PROC"
    BY <1>3 DEF Submit
  <2>2. qh'.cur = 0 /\ ~qh'.active /\ qh'.flags = {} /\ qh'.next = 1
    BY <2>1 DEF NewQh
  <2>3. ASSUME NEW i \in 1 .. NumStages(t)
        PROVE  /\ td'[i].active /\ td'[i].flags = {}
               /\ td'[i].next = IF i < NumStages(t) THEN i + 1 ELSE 0
    <3>1. i \in Stages /\ i <= NumStages(t)
      BY <1>1 DEF Stages
    <3>2. td'[i] = NewTd(t, i)
      BY <2>1, <3>1
    <3> QED
      BY <3>2 DEF NewTd
  <2>4. InOrder'
    <3> SUFFICES /\ 0 <= NumStages(t)
                 /\ \A i \in 1 .. NumStages(t) :
                      /\ i < 0 => ~td'[i].active /\ "Halted" \notin td'[i].flags
                      /\ i > 0 => td'[i].active /\ td'[i].flags = {}
      BY <2>1, <2>2 DEF InOrder
    <3> QED
      BY <1>1, <2>3, SMT DEF Stages
  <2>5. Linked'
    <3>1. 0 < NumStages(t)
      BY <1>1 DEF Stages
    <3> QED
      BY <2>1, <2>2, <2>3, <2>4, <3>1 DEF Linked, NextOf
  <2> QED
    BY <2>1, <2>2, <2>5 DEF ChainInv
<1> QED
  BY <1>2, <1>3

LEMMA ChainFetch ==
  ASSUME TypeOK, LendInv, ChainInv, HcFetch
  PROVE  ChainInv'
<1> DEFINE n == NumStages(xfer)
<1>1. /\ n \in Stages /\ qh.cur \in 0 .. 3
  BY OverlayType
<1>2. /\ ~qh.active /\ "Halted" \notin qh.flags /\ qh.next \in Stages
      /\ td[qh.next].active /\ UNCHANGED td
      /\ qh'.active = td[qh.next].active /\ qh'.flags = td[qh.next].flags
      /\ qh'.cur = qh.next /\ qh'.next = td[qh.next].next
  BY FetchFields
<1>3. UNCHANGED <<pc, xfer, status>>
  BY DEF HcFetch, drv, call
<1>4. pc \notin Between /\ pc # "finish"
  BY ExecutesWhen DEF Executes
<1>5. Linked
  BY <1>4 DEF ChainInv
<1>6. qh.cur < n /\ qh.next = qh.cur + 1
  BY <1>1, <1>2, <1>5 DEF Linked, NextOf, Stages
<1>7. InOrder
  BY <1>5 DEF ChainInv, Linked
<1>8. qh.cur # 0 => ~td[qh.cur].active /\ "Halted" \notin td[qh.cur].flags
  BY <1>2 DEF ChainInv, OverlayOf
<1>9. \A i \in 1 .. n : /\ i < qh.next => ~td[i].active /\ "Halted" \notin td[i].flags
                        /\ i > qh.next => td[i].active /\ td[i].flags = {}
  <2> TAKE i \in 1 .. n
  <2>1. CASE i = qh.cur
    BY <1>1, <1>6, <1>8, <2>1
  <2>2. CASE i # qh.cur
    <3>1. i < qh.next => i < qh.cur
      BY <1>1, <1>6, <2>2 DEF Stages
    <3>2. i > qh.next => i > qh.cur
      BY <1>1, <1>6 DEF Stages
    <3> QED
      BY <1>7, <3>1, <3>2 DEF InOrder
  <2> QED
    BY <2>1, <2>2
<1>10. qh.next \in 1 .. n /\ qh.next <= n /\ qh.next > qh.cur /\ qh.next # 0
  BY <1>1, <1>6 DEF Stages
<1>11. td[qh.next].flags = {} /\ td[qh.next].next = NextOf(qh.next)
  BY <1>5, <1>7, <1>10 DEF InOrder, Linked
<1>12. InOrder'
  BY <1>2, <1>3, <1>9, <1>10 DEF InOrder
<1>13. OverlayOf(td[qh.cur])'
  BY <1>2, <1>11 DEF OverlayOf
<1>14. Linked'
  BY <1>2, <1>3, <1>5, <1>10, <1>11 DEF Linked, NextOf
<1> QED
  BY <1>2, <1>3, <1>4, <1>10, <1>12, <1>13, <1>14 DEF ChainInv

(* What a step that does not change the position in the chain keeps. *)
LEMMA ChainWork ==
  ASSUME TypeOK, LendInv, ChainInv, Executes, Goes \/ Retires
  PROVE  ChainInv'
<1> DEFINE n == NumStages(xfer)
<1>1. n \in Stages /\ qh.cur \in 0 .. 3 /\ qh.cur # 0 /\ qh.active
  BY OverlayType DEF Goes, Retires, Working
<1>2. UNCHANGED <<pc, xfer, status>>
  BY ExecutesFrame DEF drv, call
<1>3. pc \notin Between /\ pc # "finish"
  BY ExecutesWhen
<1>4. Linked /\ InOrder /\ OverlayOf(td[qh.cur])
  BY <1>1, <1>3 DEF ChainInv
<1>5. qh'.cur = qh.cur /\ qh'.next = qh.next
  BY DEF Goes, Retires
<1>6. \A i \in Stages : i # qh.cur => td'[i] = td[i]
  BY DEF Goes, Retires
<1>7. td'[qh.cur].next = td[qh.cur].next
  BY DEF Goes, Retires
<1>8. n \in 1 .. 3 /\ 1 .. n \subseteq Stages
  BY <1>1 DEF Stages
<1>9. InOrder'
  <2> SUFFICES /\ qh.cur <= n
               /\ \A i \in 1 .. n :
                    /\ i < qh.cur => ~td'[i].active /\ "Halted" \notin td'[i].flags
                    /\ i > qh.cur => td'[i].active /\ td'[i].flags = {}
    BY <1>2, <1>5 DEF InOrder
  <2>1. ASSUME NEW i \in 1 .. n, i < qh.cur \/ i > qh.cur PROVE td'[i] = td[i]
    BY <1>1, <1>6, <1>8, <2>1
  <2> QED
    BY <1>4, <2>1 DEF InOrder
<1>10. \A i \in Stages : td'[i].next = td[i].next
  BY <1>6, <1>7
<1>11. Linked'
  BY <1>1, <1>2, <1>4, <1>5, <1>8, <1>10 DEF Linked, NextOf
<1>12. OverlayOf(td[qh.cur])'
  <2>1. CASE Goes
    BY <1>1, <1>4, <2>1 DEF Goes, OverlayOf
  <2>2. CASE Retires
    BY <1>5, <2>2 DEF Retires, OverlayOf
  <2> QED
    BY <2>1, <2>2
<1> QED
  BY <1>1, <1>2, <1>3, <1>5, <1>9, <1>11, <1>12 DEF ChainInv

LEMMA NextChain ==
  ASSUME "late" \notin Faults, TypeOK, ResetInv, LendInv, OnSchedule, ChainInv, [Next]_vars
  PROVE  ChainInv'
<1>1. ASSUME NEW t \in Calls, Submit(t) PROVE ChainInv'
  BY <1>1, ChainSubmit
<1>2. CASE InitBegin \/ HaltWait \/ ResetWait \/ Setup \/ Hang
  <2>1. UNCHANGED <<qh, td, xfer, status>>
    BY <1>2 DEF InitBegin, HaltWait, ResetWait, Setup, Hang, mem, call, vars
  <2>2. pc' \in Between /\ pc' # "finish"
    BY <1>2 DEF InitBegin, HaltWait, ResetWait, Setup, Hang, vars, drv, Await, PollAgain,
                Between
  <2> QED
    BY <2>1, <2>2, ChainFrame
<1>3. CASE ClearStatus \/ Enable \/ WaitOn \/ Poll \/ Disable
  <2>1. UNCHANGED <<qh, td, xfer, status>>
    BY <1>3 DEF ClearStatus, Enable, WaitOn, Poll, Disable, mem, call
  <2>2. pc \notin Between /\ pc' # "finish"
    BY <1>3 DEF ClearStatus, Enable, WaitOn, Poll, Disable, Await, PollAgain, Between
  <2> QED
    BY <2>1, <2>2, ChainFrame
<1>4. CASE WaitOff
  <2>1. UNCHANGED <<qh, td, xfer, status>> /\ pc \notin Between
    BY <1>4 DEF WaitOff, mem, call, Between
  <2>2. pc' = "finish" => here /\ ~ass
    BY <1>4 DEF WaitOff, Await, PollAgain, StatusBad
  <2>3. pc' = "finish" => qh.cur # 0
    BY <1>4, <2>2 DEF OnSchedule, WaitOff
  <2> QED
    BY <2>1, <2>3, ChainFrame
<1>5. CASE Finish
  BY <1>5 DEF Finish, ChainInv, Between, InOrder, OverlayOf
<1>6. CASE Fail
  <2>1. /\ pc' = "idle" /\ UNCHANGED <<td, xfer>>
        /\ qh'.active = qh.active /\ qh'.flags = qh.flags /\ qh'.cur = qh.cur
    BY <1>6 DEF Fail, TypeOK, Overlays
  <2> QED
    BY <2>1 DEF ChainInv, Between, InOrder, OverlayOf
<1>7. CASE HcHalt \/ HcFollowAse \/ HcResetDone \/ HcFatal \/ HcVanish \/ HcEnter
  <2>1. UNCHANGED <<qh, td, xfer, status, pc>>
    BY <1>7 DEF HcHalt, HcFollowAse, HcResetDone, HcFatal, HcVanish, HcEnter, mem, call, drv
  <2> QED
    BY <2>1, ChainFrame DEF ChainInv
<1>8. CASE Executes
  BY <1>8, ExecutesCases, ChainFetch, ChainWork
<1>9. CASE UNCHANGED vars
  BY <1>9, ChainFrame DEF ChainInv, vars, mem, call, drv
<1> QED
  BY <1>1, <1>2, <1>3, <1>4, <1>5, <1>6, <1>7, <1>8, <1>9, ControllerCases
     DEF Next, Driver

-----------------------------------------------------------------------------
(* The outcome of a call.                                                  *)

LEMMA InitOutcome == Init => OutcomeInv
BY DEF Init, OutcomeInv

LEMMA OutcomeFrame ==
  ASSUME OutcomeInv, UNCHANGED <<qh, call>>, pc' \in Between => pc \in Between
  PROVE  OutcomeInv'
BY DEF OutcomeInv, call, Transferred

LEMMA OutcomeFinish ==
  ASSUME TypeOK, ChainInv, Finish
  PROVE  OutcomeInv'
<1>1. pc = "finish" /\ UNCHANGED <<qh, xfer>>
  BY DEF Finish
<1>2. qh.cur # 0 /\ status = "NOT_PROC"
  BY <1>1 DEF ChainInv, Linked, Between
<1>3. CASE qh.active
  BY <1>2, <1>3 DEF Finish, OutcomeInv
<1>4. CASE ~qh.active
  <2>1. /\ status' = Decode(qh.flags) /\ actLen' = Transferred(xfer)
        /\ toggle' = SavedToggle(xfer, status')
    BY <1>4 DEF Finish
  <2>2. xfer.dir \in Dirs /\ toggle \in [Dirs -> Bits]
    BY DEF TypeOK, Transfers
  <2>3. /\ xfer.call = "bulk" /\ status' = "OK" => toggle'[xfer.dir] = qh.tog
        /\ xfer.call = "clear" /\ status' = "OK" => toggle'[xfer.dir] = 0
    BY <2>1, <2>2 DEF SavedToggle
  <2>4. Transferred(xfer)' = Transferred(xfer)
    BY <1>1 DEF Transferred
  <2>5. actLen' = Transferred(xfer)'
    BY <2>1, <2>4
  <2> QED
    BY <1>1, <1>2, <1>4, <2>1, <2>3, <2>5 DEF OutcomeInv
<1> QED
  BY <1>3, <1>4

LEMMA NextOutcome ==
  ASSUME TypeOK, LendInv, ChainInv, OutcomeInv, [Next]_vars
  PROVE  OutcomeInv'
<1>1. ASSUME NEW t \in Calls, Submit(t) PROVE OutcomeInv'
  BY <1>1 DEF Submit, OutcomeInv
<1>2. CASE InitBegin \/ HaltWait \/ ResetWait \/ Setup \/ Hang
  <2>1. UNCHANGED <<qh, call>>
    BY <1>2 DEF InitBegin, HaltWait, ResetWait, Setup, Hang, mem, call, vars
  <2>2. pc \in Between
    BY <1>2 DEF InitBegin, HaltWait, ResetWait, Setup, Hang, Between
  <2> QED
    BY <2>1, <2>2, OutcomeFrame
<1>3. CASE ClearStatus \/ Enable \/ WaitOn \/ Poll \/ Disable \/ WaitOff
  <2>1. pc' \notin Between
    BY <1>3 DEF ClearStatus, Enable, WaitOn, Poll, Disable, WaitOff, Await, PollAgain,
                Between
  <2> QED
    BY <2>1 DEF OutcomeInv
<1>4. CASE Finish
  BY <1>4, OutcomeFinish
<1>5. CASE Fail
  <2>1. pc \notin Between
    BY <1>5 DEF Fail, Between
  <2>2. status' = "NOT_PROC"
    BY <1>5, <2>1 DEF Fail, ChainInv, Linked
  <2> QED
    BY <2>2 DEF OutcomeInv
<1>6. CASE HcHalt \/ HcFollowAse \/ HcResetDone \/ HcFatal \/ HcVanish \/ HcEnter
  <2>1. UNCHANGED <<qh, call, pc>>
    BY <1>6 DEF HcHalt, HcFollowAse, HcResetDone, HcFatal, HcVanish, HcEnter, mem, call, drv
  <2> QED
    BY <2>1, OutcomeFrame
<1>7. CASE Executes
  <2>1. pc' \notin Between
    BY <1>7, ExecutesFrame, ExecutesWhen DEF drv
  <2> QED
    BY <2>1 DEF OutcomeInv
<1>8. CASE UNCHANGED vars
  BY <1>8, OutcomeFrame DEF vars, mem, drv
<1> QED
  BY <1>1, <1>2, <1>3, <1>4, <1>5, <1>6, <1>7, <1>8, ControllerCases DEF Next, Driver

(* The overlay and the device of every other step of the driver and of the registers. *)
LEMMA QuietFrame ==
  ASSUME TypeOK, [Next]_vars, \A t \in Calls : ~Submit(t), ~Executes
  PROVE  /\ UNCHANGED <<td, xfer, devTog, owed, moved, synced>>
         /\ qh'.active = qh.active /\ qh'.flags = qh.flags /\ qh'.left = qh.left
         /\ qh'.tog = qh.tog /\ qh'.cur = qh.cur
         /\ pc' \notin Between => pc \notin Between /\ UNCHANGED toggle
<1>1. CASE InitBegin \/ HaltWait \/ ResetWait \/ Setup \/ Hang
  <2>1. UNCHANGED <<qh, td, call, device>>
    BY <1>1 DEF InitBegin, HaltWait, ResetWait, Setup, Hang, mem, vars
  <2>2. pc' \in Between
    BY <1>1 DEF InitBegin, HaltWait, ResetWait, Setup, Hang, vars, drv, Await, PollAgain,
                Between
  <2> QED
    BY <2>1, <2>2 DEF call, device
<1>2. CASE ClearStatus \/ Enable \/ WaitOn \/ Poll \/ Disable \/ WaitOff
  <2>1. UNCHANGED <<qh, td, call, device>>
    BY <1>2 DEF ClearStatus, Enable, WaitOn, Poll, Disable, WaitOff, mem
  <2>2. pc \notin Between
    BY <1>2 DEF ClearStatus, Enable, WaitOn, Poll, Disable, WaitOff, Between
  <2> QED
    BY <2>1, <2>2 DEF call, device
<1>3. CASE Finish
  BY <1>3 DEF Finish, Between, device
<1>4. CASE Fail
  <2>1. /\ pc' = "idle" /\ UNCHANGED <<td, xfer, device>>
        /\ qh'.active = qh.active /\ qh'.flags = qh.flags /\ qh'.left = qh.left
        /\ qh'.tog = qh.tog /\ qh'.cur = qh.cur
    BY <1>4 DEF Fail, TypeOK, Overlays
  <2> QED
    BY <2>1 DEF Between, device
<1>5. CASE HcHalt \/ HcFollowAse \/ HcResetDone \/ HcFatal \/ HcVanish \/ HcEnter
  BY <1>5 DEF HcHalt, HcFollowAse, HcResetDone, HcFatal, HcVanish, HcEnter, mem, call, drv,
              device
<1>6. CASE UNCHANGED vars
  BY <1>6 DEF vars, drv, call, mem, device
<1> QED
  BY <1>1, <1>2, <1>3, <1>4, <1>5, <1>6, ControllerCases DEF Next, Driver

-----------------------------------------------------------------------------
(* CLEAR_FEATURE(ENDPOINT_HALT).                                           *)

LEMMA InitClear == Init => ClearInv
BY DEF Init, ClearInv

LEMMA ClearExecutes ==
  ASSUME TypeOK, ClearInv, Executes
  PROVE  ClearInv'
<1> USE DEF ClearInv
<1>1. UNCHANGED xfer
  BY ExecutesFrame DEF call
<1>2. NumStages(xfer)' = NumStages(xfer)
  BY <1>1
<1>3. xfer.dir \in Dirs /\ xfer \in Transfers
  BY DEF TypeOK, Transfers
<1>4. SUFFICES ASSUME xfer.call = "clear", qh'.cur = NumStages(xfer), ~qh'.active,
                      "Halted" \notin qh'.flags
               PROVE  devTog'[xfer.dir] = 0 /\ owed'[xfer.dir] = 0
  BY <1>1, <1>2
<1>5. xfer.len = 0
  BY <1>3, <1>4 DEF Transfers
<1>6. ~HcFetch
  BY <1>4, FetchFields
<1>7. Retires /\ qh.cur = NumStages(xfer)
  BY <1>4, <1>6, ExecutesCases DEF Goes, Retires, Working
<1>8. CASE HcControlPacket
  <2>1. devTog' = Cleared /\ owed' = [owed EXCEPT ![xfer.dir] = 0]
    BY <1>4, <1>7, <1>8 DEF HcControlPacket
  <2> QED
    BY <1>3, <2>1 DEF Cleared, TypeOK
<1>9. CASE HcBulkPacket \/ HcDiscard
  BY <1>4, <1>9 DEF HcBulkPacket, HcDiscard, IsControl
<1>10. CASE HcLostAckOut \/ HcLostAckIn
  BY <1>4, <1>10 DEF HcLostAckOut, HcLostAckIn
<1>11. CASE HcShort
  BY <1>5, <1>11 DEF HcShort, AtData
<1>12. CASE HcTransient
  <2>1. Goes
    BY <1>12, MarkFields DEF HcTransient
  <2> QED
    BY <1>4, <2>1 DEF Goes, Working
<1>13. CASE HcHaltQueue
  <2>1. PICK e \in {{}, {"Babble"}, {"XactErr"}} :
          Working /\ Retire(qh.flags \cup {"Halted"} \cup e, qh.left, qh.tog)
    BY <1>13 DEF HcHaltQueue
  <2>2. qh'.flags = qh.flags \cup {"Halted"} \cup e
    BY <2>1, RetireFields
  <2> QED
    BY <1>4, <2>2
<1> QED
  BY <1>6, <1>8, <1>9, <1>10, <1>11, <1>12, <1>13 DEF Executes

LEMMA NextClear ==
  ASSUME TypeOK, ClearInv, [Next]_vars
  PROVE  ClearInv'
<1>1. ASSUME NEW t \in Calls, Submit(t) PROVE ClearInv'
  <2>1. NumStages(t) # 0
    BY HcdAssumption, StagesType DEF Stages
  <2>2. qh'.cur = 0 /\ xfer' = t
    BY <1>1 DEF Submit, NewQh
  <2> QED
    BY <2>1, <2>2 DEF ClearInv
<1>2. CASE Executes
  BY <1>2, ClearExecutes
<1>3. CASE (\A t \in Calls : ~Submit(t)) /\ ~Executes
  BY <1>3, QuietFrame DEF ClearInv
<1> QED
  BY <1>1, <1>2, <1>3

-----------------------------------------------------------------------------
(* Bulk transfers.                                                         *)

LEMMA Parity == \A a, b \in Bits : (a + b) % 2 = IF a = b THEN 0 ELSE 1
BY SMT DEF Bits

LEMMA InitBulk == Init => BulkInv
BY DEF Init, BulkInv

LEMMA BulkSubmit ==
  ASSUME TypeOK, NEW t \in Calls, Submit(t)
  PROVE  BulkInv'
<1>1. CASE ~Fits(t)
  BY <1>1 DEF Submit, BulkInv, Between, NewQh
<1>2. CASE Fits(t)
  <2>1. /\ td' = [i \in Stages |-> IF i <= NumStages(t) THEN NewTd(t, i) ELSE UnusedTd]
        /\ qh' = NewQh(1) /\ xfer' = t /\ moved' = 0
        /\ synced' = (IsControl(t) \/ Agree(toggle[t.dir], t.dir))
        /\ UNCHANGED <<toggle, devTog, owed>>
    BY <1>2 DEF Submit
  <2>2. SUFFICES ASSUME t.call = "bulk", synced' PROVE Ready'
    BY <2>1 DEF BulkInv, NewQh
  <2>3. ~IsControl(t)
    BY <2>2 DEF IsControl
  <2>4. Agree(toggle[xfer.dir], xfer.dir)'
    BY <2>1, <2>2, <2>3 DEF Agree
  <2>5. 1 \in Stages /\ 1 <= NumStages(t)
    BY HcdAssumption, StagesType DEF Stages
  <2>6. td'[1] = NewTd(t, 1)
    BY <2>1, <2>5
  <2>7. StageName(t, 1) = "DATA"
    BY <2>3 DEF StageName
  <2>8. td'[1].tog = toggle[t.dir] /\ td'[1].left = t.len
    BY <2>3, <2>6, <2>7 DEF NewTd, StageToggle
  <2> QED
    BY <2>1, <2>4, <2>8 DEF Ready
<1> QED
  BY <1>1, <1>2

(* What the proofs of a packet need of the types. *)
LEMMA BulkType ==
  ASSUME TypeOK, xfer.call = "bulk"
  PROVE  /\ xfer.dir \in {"in", "out"} /\ xfer.len \in Nat
         /\ devTog[xfer.dir] \in Bits /\ owed[xfer.dir] \in Bits
         /\ devTog \in [Dirs -> Bits] /\ owed \in [Dirs -> Bits]
         /\ qh.tog \in Bits /\ qh.left \in Nat /\ moved \in Nat
         /\ ~IsControl(xfer) /\ NumStages(xfer) = 1
<1>1. xfer.dir \in Dirs /\ xfer.len \in 0 .. MaxLen
  BY DEF TypeOK, Transfers
<1>2. /\ devTog \in [Dirs -> Bits] /\ owed \in [Dirs -> Bits] /\ moved \in Nat
      /\ qh.tog \in Bits /\ qh.left \in 0 .. MaxLen + 1
  BY DEF TypeOK, Overlays
<1>3. ~IsControl(xfer)
  BY DEF IsControl
<1>4. NumStages(xfer) = 1
  BY <1>3 DEF NumStages, HasData
<1> QED
  BY <1>1, <1>2, <1>3, <1>4, HcdAssumption DEF Dirs

LEMMA BulkFetch ==
  ASSUME TypeOK, LendInv, ChainInv, BulkInv, HcFetch, xfer.call = "bulk", synced
  PROVE  InStep'
<1>1. pc \notin Between /\ UNCHANGED <<xfer, devTog, owed, moved>>
  BY ExecutesWhen DEF Executes, HcFetch, call, device
<1>2. Linked
  BY <1>1 DEF ChainInv
<1>3. qh.next \in Stages /\ qh'.tog = td[qh.next].tog /\ qh'.left = td[qh.next].left
  BY FetchFields
<1>4. qh.cur \in 0 .. 3 /\ NumStages(xfer) = 1
  BY OverlayType, BulkType
<1>5. qh.cur = 0 /\ qh.next = 1
  BY <1>2, <1>3, <1>4 DEF Linked, NextOf, Stages
<1>6. Ready
  BY <1>1, <1>5 DEF BulkInv
<1>7. /\ qh'.tog = toggle[xfer.dir] /\ qh'.left = xfer.len /\ moved = 0
      /\ toggle[xfer.dir] = (devTog[xfer.dir] + owed[xfer.dir]) % 2
      /\ xfer.dir = "out" => owed["out"] = 0
  BY <1>3, <1>5, <1>6 DEF Ready, Agree
<1>8. Unanswered' = 0
  BY <1>1, <1>7 DEF Unanswered
<1>9. moved' + qh'.left = xfer'.len + Unanswered'
  BY <1>1, <1>7, <1>8, BulkType
<1>10. qh'.tog = (devTog'[xfer'.dir] + owed'[xfer'.dir]) % 2
  BY <1>1, <1>7
<1>11. xfer'.dir = "out" => owed'["out"] = 0
  BY <1>1, <1>7
<1>12. qh'.left = xfer'.len /\ xfer'.len \in Nat
  BY <1>1, <1>7, BulkType
<1> QED
  BY <1>9, <1>10, <1>11, <1>12 DEF InStep

(* The six ways a bulk stage is worked on, in terms of the two toggles. *)
LEMMA BulkWork ==
  ASSUME TypeOK, ChainInv, InStep, Working, Executes, ~HcFetch, xfer.call = "bulk"
  PROVE  InStep'
<1> DEFINE d == xfer.dir
<1>0. /\ d \in {"in", "out"} /\ xfer.len \in Nat
      /\ devTog[d] \in Bits /\ owed[d] \in Bits
      /\ devTog \in [Dirs -> Bits] /\ owed \in [Dirs -> Bits] /\ d \in Dirs
      /\ qh.tog \in Bits /\ qh.left \in Nat /\ moved \in Nat
      /\ ~IsControl(xfer) /\ NumStages(xfer) = 1
  BY BulkType DEF Dirs
<1>1. UNCHANGED xfer
  BY ExecutesFrame DEF call
<1>2. qh.cur = 1 /\ qh.active
  BY <1>0, OverlayType DEF Working, ChainInv, InOrder
<1>3. AtData <=> xfer.len > 0
  BY <1>0, <1>2 DEF AtData, DataStage
<1>4. /\ qh.tog = (devTog[d] + owed[d]) % 2
      /\ d = "out" /\ owed["out"] = 1 => "XactErr" \in qh.flags
      /\ moved + qh.left = xfer.len + Unanswered
      /\ xfer.len > 0 => qh.left > 0
  BY <1>2 DEF InStep
<1>5. Unanswered = IF d = "out" /\ xfer.len > 0 THEN owed[d] ELSE 0
  BY DEF Unanswered
<1>6. qh.tog = IF devTog[d] = owed[d] THEN 0 ELSE 1
  BY <1>0, <1>4, Parity
<1>7. SUFFICES /\ qh'.tog \in Bits /\ devTog'[d] \in Bits /\ owed'[d] \in Bits
               /\ qh'.tog = IF devTog'[d] = owed'[d] THEN 0 ELSE 1
               /\ d = "out" /\ owed'[d] = 1 => "XactErr" \in qh'.flags
               /\ moved' + qh'.left = xfer.len
                                    + IF d = "out" /\ xfer.len > 0 THEN owed'[d] ELSE 0
               /\ qh'.active /\ xfer.len > 0 => qh'.left > 0
  <2>1. ASSUME devTog'[d] \in Bits, owed'[d] \in Bits
        PROVE (devTog'[d] + owed'[d]) % 2 = IF devTog'[d] = owed'[d] THEN 0 ELSE 1
    BY <2>1, Parity
  <2> QED
    BY <1>1, <2>1 DEF InStep, Unanswered
<1>8. ASSUME Advance
      PROVE  /\ qh'.flags = qh.flags /\ qh'.tog = 1 - qh.tog
             /\ qh'.left = IF qh.left > 1 THEN qh.left - 1 ELSE 0
             /\ qh'.active => qh.left > 1
  BY <1>8, AdvanceFields
<1>9. Flip(devTog, d)[d] = 1 - devTog[d]
  BY <1>0 DEF Flip
<1> HIDE DEF d
<1>10. CASE HcBulkPacket
  <2>1. /\ Advance /\ qh.tog = devTog[d] /\ devTog' = Flip(devTog, d) /\ owed' = owed
        /\ moved' = IF xfer.len > 0 THEN moved + 1 ELSE moved
    BY <1>3, <1>10 DEF HcBulkPacket, d
  <2>2. devTog'[d] = 1 - devTog[d] /\ owed'[d] = owed[d] /\ owed[d] = 0
    BY <1>0, <1>6, <1>9, <2>1 DEF Bits
  <2>3. /\ qh'.flags = qh.flags /\ qh'.tog = 1 - qh.tog
        /\ qh'.left = IF qh.left > 1 THEN qh.left - 1 ELSE 0
        /\ qh'.active => qh.left > 1
    BY <1>8, <2>1
  <2> QED
    BY <1>0, <1>4, <1>5, <1>6, <2>1, <2>2, <2>3 DEF Bits
<1>11. CASE HcLostAckOut
  <2>1. /\ d = "out" /\ qh.tog = devTog[d] /\ devTog' = Flip(devTog, d)
        /\ owed' = [owed EXCEPT ![d] = 1] /\ UNCHANGED td
        /\ qh' = [qh EXCEPT !.flags = @ \cup {"XactErr"}]
        /\ moved' = IF xfer.len > 0 THEN moved + 1 ELSE moved
    BY <1>3, <1>11 DEF HcLostAckOut, d
  <2>2. devTog'[d] = 1 - devTog[d] /\ owed'[d] = 1 /\ owed[d] = 0
    BY <1>0, <1>6, <1>9, <2>1 DEF Bits
  <2>3. qh'.flags = qh.flags \cup {"XactErr"} /\ qh'.left = qh.left /\ qh'.tog = qh.tog
    BY <2>1, MarkFields
  <2>4. /\ qh'.tog \in Bits /\ devTog'[d] \in Bits /\ owed'[d] \in Bits
        /\ qh'.tog = IF devTog'[d] = owed'[d] THEN 0 ELSE 1
    BY <1>0, <1>6, <2>1, <2>2, <2>3 DEF Bits
  <2>5. moved' + qh'.left = xfer.len + IF d = "out" /\ xfer.len > 0 THEN owed'[d] ELSE 0
    BY <1>0, <1>4, <1>5, <2>1, <2>2, <2>3
  <2> QED
    BY <1>4, <2>4, <2>5, <2>3
<1>12. CASE HcLostAckIn
  <2>1. /\ d = "in" /\ qh.tog = devTog[d] /\ devTog' = devTog /\ Advance
        /\ owed' = [owed EXCEPT ![d] = 1]
        /\ moved' = IF xfer.len > 0 THEN moved + 1 ELSE moved
    BY <1>3, <1>12 DEF HcLostAckIn, d
  <2>2. devTog'[d] = devTog[d] /\ owed'[d] = 1 /\ owed[d] = 0
    BY <1>0, <1>6, <2>1 DEF Bits
  <2>3. /\ qh'.tog = 1 - qh.tog
        /\ qh'.left = IF qh.left > 1 THEN qh.left - 1 ELSE 0
        /\ qh'.active => qh.left > 1
    BY <1>8, <2>1
  <2> QED
    BY <1>0, <1>4, <1>5, <1>6, <2>1, <2>2, <2>3 DEF Bits
<1>13. CASE HcDiscard /\ d = "out"
  <2>1. /\ qh.tog # devTog[d] /\ devTog' = devTog /\ Advance /\ moved' = moved
        /\ owed' = [owed EXCEPT ![d] = 0]
    BY <1>13 DEF HcDiscard, d
  <2>2. devTog'[d] = devTog[d] /\ owed'[d] = 0 /\ owed[d] = 1
    BY <1>0, <1>6, <2>1 DEF Bits
  <2>3. /\ qh'.tog = 1 - qh.tog
        /\ qh'.left = IF qh.left > 1 THEN qh.left - 1 ELSE 0
        /\ qh'.active => qh.left > 1
    BY <1>8, <2>1
  <2> QED
    BY <1>0, <1>4, <1>5, <1>6, <1>13, <2>1, <2>2, <2>3 DEF Bits
<1>14. CASE HcDiscard /\ d # "out"
  <2>1. /\ d = "in" /\ qh.tog # devTog[d] /\ devTog' = Flip(devTog, d) /\ UNCHANGED qh
        /\ moved' = moved /\ owed' = [owed EXCEPT ![d] = 0]
    BY <1>0, <1>14 DEF HcDiscard, d
  <2>2. devTog'[d] = 1 - devTog[d] /\ owed'[d] = 0 /\ owed[d] = 1
    BY <1>0, <1>6, <1>9, <2>1 DEF Bits
  <2>3. /\ qh'.tog \in Bits /\ devTog'[d] \in Bits /\ owed'[d] \in Bits
        /\ qh'.tog = IF devTog'[d] = owed'[d] THEN 0 ELSE 1
    BY <1>0, <1>6, <2>1, <2>2 DEF Bits
  <2>4. moved' + qh'.left = xfer.len + IF d = "out" /\ xfer.len > 0 THEN owed'[d] ELSE 0
    BY <1>0, <1>4, <1>5, <2>1, <2>2
  <2> QED
    BY <1>4, <2>3, <2>4, <2>1, <2>2
<1>15. CASE HcShort
  <2>1. /\ d = "in" /\ qh.tog = devTog[d] /\ Retire(qh.flags, qh.left, 1 - qh.tog)
        /\ devTog' = Flip(devTog, d) /\ owed' = owed /\ moved' = moved
    BY <1>0, <1>15 DEF HcShort, d
  <2>2. devTog'[d] = 1 - devTog[d] /\ owed'[d] = owed[d] /\ owed[d] = 0
    BY <1>0, <1>6, <1>9, <2>1 DEF Bits
  <2>3. ~qh'.active /\ qh'.left = qh.left /\ qh'.tog = 1 - qh.tog
    BY <2>1, RetireFields DEF Retires
  <2>4. /\ qh'.tog \in Bits /\ devTog'[d] \in Bits /\ owed'[d] \in Bits
        /\ qh'.tog = IF devTog'[d] = owed'[d] THEN 0 ELSE 1
    BY <1>0, <1>6, <2>1, <2>2, <2>3 DEF Bits
  <2>5. moved' + qh'.left = xfer.len + IF d = "out" /\ xfer.len > 0 THEN owed'[d] ELSE 0
    BY <1>0, <1>4, <1>5, <2>1, <2>2, <2>3
  <2> QED
    BY <1>4, <2>4, <2>5, <2>1, <2>3
<1>16. CASE HcTransient
  <2>1. UNCHANGED <<devTog, owed, moved, td>>
    BY <1>16 DEF HcTransient, device
  <2>2. PICK e \in {"XactErr", "BufErr"} : qh' = [qh EXCEPT !.flags = @ \cup {e}]
    BY <1>16 DEF HcTransient
  <2>3. qh'.flags = qh.flags \cup {e} /\ qh'.left = qh.left /\ qh'.tog = qh.tog
    BY <2>1, <2>2, MarkFields
  <2> QED
    BY <1>0, <1>4, <1>5, <1>6, <2>1, <2>3
<1>17. CASE HcHaltQueue
  <2>1. PICK e \in {{}, {"Babble"}, {"XactErr"}} :
          Retire(qh.flags \cup {"Halted"} \cup e, qh.left, qh.tog)
    BY <1>17 DEF HcHaltQueue
  <2>2. UNCHANGED <<owed, moved, devTog>>
    BY <1>0, <1>17 DEF HcHaltQueue, IsControl
  <2>3. /\ ~qh'.active /\ qh'.flags = qh.flags \cup {"Halted"} \cup e
        /\ qh'.left = qh.left /\ qh'.tog = qh.tog
    BY <2>1, RetireFields DEF Retires
  <2> QED
    BY <1>0, <1>4, <1>5, <1>6, <2>2, <2>3
<1>18. ~HcControlPacket
  BY <1>0 DEF HcControlPacket
<1> QED
  BY <1>10, <1>11, <1>12, <1>13, <1>14, <1>15, <1>16, <1>17, <1>18 DEF Executes

LEMMA NextBulk ==
  ASSUME TypeOK, LendInv, ChainInv, BulkInv, [Next]_vars
  PROVE  BulkInv'
<1>1. ASSUME NEW t \in Calls, Submit(t) PROVE BulkInv'
  BY <1>1, BulkSubmit
<1>2. CASE Executes
  <2>1. UNCHANGED xfer /\ UNCHANGED synced
    BY <1>2, ExecutesFrame DEF Executes, HcFetch, HcControlPacket, HcBulkPacket,
       HcLostAckOut, HcLostAckIn, HcDiscard, HcShort, HcTransient, HcHaltQueue, call, device
  <2>2. qh'.cur # 0
    BY <1>2, ExecutesFetched
  <2>3. SUFFICES ASSUME xfer.call = "bulk", synced PROVE InStep'
    BY <2>1, <2>2 DEF BulkInv
  <2>4. CASE HcFetch
    BY <2>3, <2>4, BulkFetch
  <2>5. CASE ~HcFetch
    <3>1. Working /\ qh.cur # 0
      BY <1>2, <2>5, ExecutesCases DEF Goes, Retires, Working
    <3>2. InStep
      BY <2>3, <3>1 DEF BulkInv
    <3> QED
      BY <1>2, <2>3, <2>5, <3>1, <3>2, BulkWork
  <2> QED
    BY <2>4, <2>5
<1>3. CASE (\A t \in Calls : ~Submit(t)) /\ ~Executes
  <2>1. /\ UNCHANGED <<td, xfer, devTog, owed, moved, synced>>
        /\ qh'.active = qh.active /\ qh'.flags = qh.flags /\ qh'.left = qh.left
        /\ qh'.tog = qh.tog /\ qh'.cur = qh.cur
        /\ pc' \notin Between => pc \notin Between /\ UNCHANGED toggle
    BY <1>3, QuietFrame
  <2>2. InStep => InStep'
    BY <2>1 DEF InStep, Unanswered
  <2>3. UNCHANGED toggle /\ Ready => Ready'
    BY <2>1 DEF Ready, Agree
  <2> QED
    BY <2>1, <2>2, <2>3 DEF BulkInv
<1> QED
  BY <1>1, <1>2, <1>3

-----------------------------------------------------------------------------
(* A controller without faults.                                            *)

LEMMA DecodeOk ==
  ASSUME NEW f
  PROVE  /\ Decode(f) # "NOT_PROC"
         /\ Decode(f) = "OK" <=> f = {}
BY DEF Decode

LEMMA InitLively == Init => LivelyInv
BY DEF Init, LivelyInv, NewQh

LEMMA NextLively ==
  ASSUME Faults = {}, TypeOK, ResetInv, LendInv, ChainInv, LivelyInv, [Next]_vars
  PROVE  LivelyInv'
<1> USE DEF LivelyInv
<1>0. "late" \notin Faults
  OBVIOUS
<1>1. ASSUME NEW t \in Calls, Submit(t) PROVE LivelyInv'
  BY <1>1 DEF Submit, NewQh, cmd, sts
<1>2. CASE InitBegin \/ HaltWait \/ ResetWait \/ Setup \/ Hang
  <2>1. /\ UNCHANGED <<here, fatal, qh, status>>
        /\ pc' # "fail"
        /\ pc' \notin {"boot", "haltwait", "resetwait", "setup", "hung"} => run'
    BY <1>2 DEF InitBegin, HaltWait, ResetWait, Setup, Hang, mem, call, sts, vars, drv,
                Await, PollAgain
  <2>2. pc \in Between
    BY <1>2 DEF InitBegin, HaltWait, ResetWait, Setup, Hang, Between
  <2> QED
    BY <2>1, <2>2
<1>3. CASE ClearStatus \/ Enable \/ Poll \/ Disable
  <2>1. UNCHANGED <<here, run>> /\ (fatal' = FALSE \/ UNCHANGED fatal)
    BY <1>3, Zenon DEF ClearStatus, Enable, Poll, Disable, cmd, sts
  <2>2. pc' \notin Between /\ pc' # "fail" /\ run
    BY <1>3 DEF ClearStatus, Enable, Poll, Disable, PollAgain, Between
  <2> QED
    BY <2>1, <2>2
<1>4. CASE WaitOn \/ WaitOff
  <2>1. UNCHANGED <<here, run, fatal>> /\ run
    BY <1>4 DEF WaitOn, WaitOff, cmd, sts
  <2>2. ~StatusBad /\ ~TimesOut(~run)
    BY <1>0, <2>1 DEF StatusBad, TimesOut
  <2>3. pc' \notin Between /\ pc' # "fail"
    BY <1>4, <2>2 DEF WaitOn, WaitOff, Await, PollAgain, Between
  <2> QED
    BY <2>1, <2>3
<1>5. CASE Finish
  <2>1. UNCHANGED <<here, run, fatal, qh>> /\ pc' = "idle" /\ run
    BY <1>5 DEF Finish, cmd, sts
  <2>2. ~qh.active => status' # "NOT_PROC"
    BY <1>5, DecodeOk DEF Finish
  <2> QED
    BY <2>1, <2>2
<1>6. CASE Fail
  BY <1>6 DEF Fail
<1>7. CASE HcHalt \/ HcFollowAse \/ HcEnter
  <2>1. UNCHANGED <<here, fatal, run, pc, qh, status>>
    BY <1>7, Zenon DEF HcHalt, HcFollowAse, HcEnter, mem, call, drv, cmd
  <2> QED
    BY <2>1
<1>8. CASE HcResetDone
  <2>1. pc \in {"resetwait", "hung"}
    BY <1>8 DEF HcResetDone, ResetInv
  <2> QED
    BY <1>8, <2>1 DEF HcResetDone, mem, call, drv
<1>9. CASE HcFatal \/ HcVanish
  BY <1>9 DEF HcFatal, HcVanish
<1>10. CASE Executes
  <2>1. UNCHANGED <<here, run, fatal, pc>>
    BY <1>10, ExecutesFrame DEF cmd, sts, drv
  <2> QED
    BY <1>10, <2>1, ExecutesWhen
<1>11. CASE UNCHANGED vars
  BY <1>11 DEF vars, drv, call, mem, cmd, sts
<1> QED
  BY <1>1, <1>2, <1>3, <1>4, <1>5, <1>6, <1>7, <1>8, <1>9, <1>10, <1>11, ControllerCases
     DEF Next, Driver

-----------------------------------------------------------------------------
(* The theorems.                                                           *)

IInv ==
  /\ TypeOK /\ ResetInv /\ LendInv
  /\ OnSchedule /\ ChainInv /\ OutcomeInv /\ ClearInv /\ BulkInv

LEMMA InitIInv == Init => IInv
BY InitType, InitReset, InitLend, InitOnSchedule, InitChain, InitOutcome, InitClear,
   InitBulk DEF IInv

LEMMA NextIInv ==
  ASSUME "late" \notin Faults, IInv, [Next]_vars
  PROVE  IInv'
BY NextType, NextReset, NextLend, NextOnSchedule, NextChain, NextOutcome, NextClear,
   NextBulk DEF IInv

LEMMA AlwaysIInv == "late" \notin Faults /\ Spec => []IInv
<1> SUFFICES ASSUME "late" \notin Faults PROVE Spec => []IInv
  OBVIOUS
<1>1. IInv /\ [Next]_vars => IInv'
  BY NextIInv
<1> QED
  BY <1>1, InitIInv, PTL DEF Spec

(* What StatusFaithful says of the calls that were not failed by a handshake. *)
OutcomeFaithful ==
  pc = "idle" /\ status # "NOT_PROC" =>
    /\ status = "OK" => /\ qh.cur # 0
                       /\ ~td[qh.cur].active /\ td[qh.cur].flags = {}
    /\ (\E i \in 1 .. NumStages(xfer) : "Halted" \in td[i].flags) => status # "OK"
    /\ ~LastTd.active /\ LastTd.flags = {} => status = "OK"

LEMMA OutcomeFollows ==
  ASSUME IInv
  PROVE  OutcomeFaithful
<1> SUFFICES ASSUME pc = "idle", status # "NOT_PROC"
             PROVE  /\ status = "OK" => /\ qh.cur # 0
                                       /\ ~td[qh.cur].active /\ td[qh.cur].flags = {}
                    /\ (\E i \in 1 .. NumStages(xfer) : "Halted" \in td[i].flags)
                         => status # "OK"
                    /\ ~LastTd.active /\ LastTd.flags = {} => status = "OK"
  BY DEF OutcomeFaithful
<1> DEFINE n == NumStages(xfer)
<1>1. n \in Stages /\ qh.cur \in 0 .. 3
  BY OverlayType DEF IInv
<1>2. qh.cur # 0 /\ ~qh.active /\ status = Decode(qh.flags)
  BY DEF IInv, OutcomeInv, Between
<1>3. InOrder /\ ~td[qh.cur].active /\ td[qh.cur].flags = qh.flags
  BY <1>2 DEF IInv, ChainInv, OverlayOf
<1>4. status = "OK" <=> td[qh.cur].flags = {}
  BY <1>2, <1>3, DecodeOk
<1>5. ASSUME NEW i \in 1 .. n, "Halted" \in td[i].flags PROVE i = qh.cur
  <2>1. ~(i < qh.cur) /\ ~(i > qh.cur)
    BY <1>3, <1>5 DEF InOrder
  <2> QED
    BY <1>1, <2>1
<1>6. ~td[n].active => n = qh.cur
  <2>1. n \in 1 .. n /\ qh.cur <= n
    BY <1>1, <1>3 DEF Stages, InOrder
  <2>2. n > qh.cur => td[n].active
    BY <1>3, <2>1 DEF InOrder
  <2> QED
    BY <1>1, <2>1, <2>2 DEF Stages
<1> QED
  BY <1>2, <1>3, <1>4, <1>5, <1>6 DEF LastTd

(* Whatever fatal errors and disappearances there were: a call that was not failed by a
   handshake reports what happened to its chain. *)
THEOREM OutcomeAlwaysFaithful == "late" \notin Faults /\ Spec => []OutcomeFaithful
BY AlwaysIInv, OutcomeFollows, PTL

(* With a controller that works, every call reports what happened to its chain: OK means
   that the stage in the overlay was retired without an error, a stage that halted is never
   OK, and a chain that was completed cleanly is OK. *)
THEOREM StatusAlwaysFaithful == Faults = {} /\ Spec => []StatusFaithful
<1> SUFFICES ASSUME Faults = {} PROVE Spec => []StatusFaithful
  OBVIOUS
<1>1. Spec => []IInv
  BY AlwaysIInv
<1>2. IInv /\ LivelyInv /\ [Next]_vars => LivelyInv'
  BY NextLively DEF IInv
<1>3. IInv /\ LivelyInv => StatusFaithful
  <2> SUFFICES ASSUME IInv, LivelyInv, pc = "idle" PROVE StatusFaithful
    BY DEF StatusFaithful
  <2>1. CASE status # "NOT_PROC"
    BY <2>1, OutcomeFollows DEF OutcomeFaithful, StatusFaithful
  <2>2. CASE status = "NOT_PROC" /\ qh.cur # 0
    <3>1. qh.active
      BY <2>2 DEF LivelyInv, Between
    <3>2. /\ InOrder /\ td[qh.cur].active /\ td[qh.cur].flags = {}
          /\ NumStages(xfer) \in Stages /\ qh.cur \in 0 .. 3
      BY <2>2, <3>1, OverlayType DEF IInv, ChainInv, OverlayOf
    <3>3. \A i \in 1 .. NumStages(xfer) : "Halted" \notin td[i].flags
      <4> TAKE i \in 1 .. NumStages(xfer)
      <4>1. i < qh.cur \/ i = qh.cur \/ i > qh.cur
        BY <3>2 DEF Stages
      <4> QED
        BY <3>2, <4>1 DEF InOrder
    <3>4. LastTd.active
      <4>1. NumStages(xfer) \in 1 .. NumStages(xfer)
        BY <3>2 DEF Stages
      <4>2. NumStages(xfer) = qh.cur \/ NumStages(xfer) > qh.cur
        BY <3>2 DEF InOrder, Stages
      <4> QED
        BY <3>2, <4>1, <4>2 DEF InOrder, LastTd
    <3> QED
      BY <2>2, <3>3, <3>4 DEF StatusFaithful
  <2>3. CASE status = "NOT_PROC" /\ qh.cur = 0
    BY <2>3 DEF StatusFaithful
  <2> QED
    BY <2>1, <2>2, <2>3
<1> QED
  BY <1>1, <1>2, <1>3, InitLively, PTL DEF Spec

(* A bulk transfer that began in agreement and is reported OK, and a completed
   usb_clear_halt, leave the driver and the device agreeing about the data toggle. *)
THEOREM TogglesAlwaysAgree == "late" \notin Faults /\ Spec => []ToggleAgrees
<1> SUFFICES ASSUME "late" \notin Faults PROVE Spec => []ToggleAgrees
  OBVIOUS
<1>1. IInv => ToggleAgrees
  <2> SUFFICES ASSUME IInv, pc = "idle", status = "OK", ~LastTd.active,
                      xfer.call = "clear" \/ (xfer.call = "bulk" /\ synced)
               PROVE  Agree(toggle[xfer.dir], xfer.dir)
    BY DEF ToggleAgrees
  <2>1. qh.cur # 0 /\ ~qh.active /\ qh.flags = {}
    BY DecodeOk DEF IInv, OutcomeInv, Between
  <2>2. xfer.dir \in Dirs /\ devTog[xfer.dir] \in Bits /\ owed[xfer.dir] \in Bits
    BY DEF IInv, TypeOK, Transfers
  <2>3. CASE xfer.call = "clear"
    <3>1. NumStages(xfer) = qh.cur
      <4>1. NumStages(xfer) \in Stages /\ qh.cur \in 0 .. 3 /\ InOrder
        BY <2>1, OverlayType DEF IInv, ChainInv
      <4>2. NumStages(xfer) \in 1 .. NumStages(xfer) /\ qh.cur <= NumStages(xfer)
        BY <4>1 DEF Stages, InOrder
      <4>3. ~(NumStages(xfer) > qh.cur)
        BY <4>1, <4>2 DEF InOrder, LastTd
      <4> QED
        BY <4>1, <4>2, <4>3 DEF Stages
    <3>2. devTog[xfer.dir] = 0 /\ owed[xfer.dir] = 0
      BY <2>1, <2>3, <3>1 DEF IInv, ClearInv
    <3>3. toggle[xfer.dir] = 0
      BY <2>3 DEF IInv, OutcomeInv, Between
    <3> QED
      BY <3>2, <3>3 DEF Agree
  <2>4. CASE xfer.call = "bulk" /\ synced
    <3>1. InStep /\ toggle[xfer.dir] = qh.tog
      BY <2>1, <2>4 DEF IInv, BulkInv, OutcomeInv, Between
    <3>2. xfer.dir = "out" => owed["out"] = 0
      BY <2>1, <2>2, <3>1 DEF InStep, Bits
    <3> QED
      BY <3>1, <3>2 DEF InStep, Agree
  <2> QED
    BY <2>3, <2>4
<1> QED
  BY <1>1, AlwaysIInv, PTL

(* Such a bulk transfer reports the packets that changed hands, each once, whatever was
   lost and repeated on the way. *)
THEOREM BulkLengthAlwaysExact == "late" \notin Faults /\ Spec => []BulkLengthExact
<1> SUFFICES ASSUME "late" \notin Faults PROVE Spec => []BulkLengthExact
  OBVIOUS
<1>1. IInv => BulkLengthExact
  <2> SUFFICES ASSUME IInv, pc = "idle", status = "OK", xfer.call = "bulk", synced
               PROVE  actLen = moved
    BY DEF BulkLengthExact
  <2>1. qh.cur # 0 /\ qh.flags = {} /\ actLen = xfer.len - qh.left
    BY DecodeOk DEF IInv, OutcomeInv, Between, Transferred
  <2>2. InStep
    BY <2>1 DEF IInv, BulkInv
  <2>3. /\ xfer.dir \in {"in", "out"} /\ xfer.len \in Nat /\ owed[xfer.dir] \in Bits
        /\ qh.left \in Nat /\ moved \in Nat
    BY BulkType DEF IInv
  <2>4. Unanswered = 0
    BY <2>1, <2>2, <2>3 DEF InStep, Unanswered, Bits
  <2>5. moved + qh.left = xfer.len
    BY <2>2, <2>3, <2>4 DEF InStep
  <2> QED
    BY <2>1, <2>3, <2>5
<1> QED
  BY <1>1, AlwaysIInv, PTL
=============================================================================
