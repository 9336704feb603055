------------------------------ MODULE EhciHcd ------------------------------
(***************************************************************************)
(* One asynchronous (control or bulk) transfer of the EHCI driver, run     *)
(* against a host controller that shares memory with it: ehci_init and     *)
(* ehci_reset, ehci_submit_async with its qTD chain, the schedule enable / *)
(* disable handshakes, the timed poll of the last qTD and the decoding of  *)
(* the overlay token (ehci-hcd.c), and the callers that turn the outcome   *)
(* into a return value: usb_control_msg, usb_bulk_msg and usb_clear_halt   *)
(* (usb.c).  The controller and the device behind it are not code of this  *)
(* repository: their actions are written from what the driver relies on    *)
(* (ehci.h, the register traces kept in ohci-test.c) and marked external.  *)
(*                                                                         *)
(* The QH, its overlay and the qTDs are static memory that the controller  *)
(* reads and writes while it executes the asynchronous schedule.  Payload  *)
(* is counted in maximum-size packets, 0 .. MaxLen.                        *)
(***************************************************************************)
EXTENDS Integers

CONSTANTS
  MaxLen,   \* longest payload a caller asks for, in packets
  Calls,    \* the calls the drivers above make: a subset of Transfers
  FitLen,   \* longest payload ehci_td_buffer can describe (module TdBuffer)
  Tries,    \* polls of each bounded wait; 1001, 250000, 100000 or 1000 in C
  Faults    \* what may go wrong with the controller: a subset of FaultKinds

(* "late":  a status bit follows its command bit only after the wait for it ended.
   "fatal": the host-system-error status bit: the controller stops itself.
   "gone":  every register reads as all ones.                              *)
FaultKinds == {"late", "fatal", "gone"}

Dirs == {"in", "out"}

(* A CLEAR_FEATURE(ENDPOINT_HALT) names the endpoint by its direction and has no data. *)
Transfers == [call : {"control", "bulk"}, dir : Dirs, len : 0 .. MaxLen]
               \cup [call : {"clear"}, dir : Dirs, len : {0}]

ASSUME HcdAssumption ==
  /\ MaxLen \in Nat
  /\ FitLen \in Nat
  /\ Tries \in Nat \ {0}
  /\ Faults \subseteq FaultKinds
  /\ Calls \subseteq Transfers

VARIABLES
  \* the driver, and the struct usb_device it works for
  pc, tries,      \* where it is, and how many polls the current wait has left
  xfer,           \* the call being made: [call, dir, len]
  toggle,         \* dev->toggle of one bulk endpoint per direction
  status,         \* dev->status
  actLen,         \* dev->act_len
  res,            \* what the last call returned
  \* memory shared with the controller
  list,           \* qh_list.qh_link: the list head itself, or the static QH
  qh,             \* the overlay of the QH: token fields, current and next qTD
  td,             \* the static pool of qTDs
  \* registers of the controller
  run, ase, rst,  \* USBCMD: run/stop, asynchronous schedule enable, reset
  halt, ass, fatal, \* USBSTS: halted, asynchronous schedule status, fatal error
  here,           \* the registers answer
  held,           \* the controller has followed the list to the QH
  \* the device, and history that only the properties look at
  devTog,         \* data toggle the device expects, per direction
  owed,           \* 1 when an acknowledgement was lost and a packet repeats
  moved,          \* data packets that changed hands in this transfer
  synced          \* both sides agreed about the toggle when it was submitted

drv    == <<pc, tries>>
call   == <<xfer, toggle, status, actLen, res>>
mem    == <<list, qh, td>>
cmd    == <<run, ase, rst>>
sts    == <<halt, ass, fatal, here, held>>
device == <<devTog, owed, moved, synced>>
vars   == <<drv, call, mem, cmd, sts, device>>

Pids == {"setup", "in", "out"}
Bits == {0, 1}
Stages == 1 .. 3                       \* the pool: static struct qTD td[3]
Flags == {"Halted", "BufErr", "Babble", "XactErr"}
Statuses == {"NOT_PROC", "OK", "STALLED", "BUF_ERR", "BABBLE", "CRC_ERR"}
Pcs == {"boot", "haltwait", "resetwait", "setup", "hung", "idle", "clear",
        "enable", "on", "poll", "disable", "off", "finish", "fail"}

Tds == [pid : Pids, active : BOOLEAN, flags : SUBSET Flags, left : 0 .. MaxLen + 1,
        tog : Bits, next : 0 .. 3]
Overlays == [active : BOOLEAN, flags : SUBSET Flags, left : 0 .. MaxLen + 1,
             tog : Bits, cur : 0 .. 3, next : 0 .. 3]

TypeOK ==
  /\ pc \in Pcs /\ tries \in 1 .. Tries
  /\ xfer \in Transfers /\ toggle \in [Dirs -> Bits]
  /\ status \in Statuses /\ actLen \in -(MaxLen + 1) .. MaxLen
  /\ res \in -(MaxLen + 1) .. MaxLen
  /\ list \in {"self", "qh"} /\ qh \in Overlays /\ td \in [Stages -> Tds]
  /\ run \in BOOLEAN /\ ase \in BOOLEAN /\ rst \in BOOLEAN
  /\ halt \in BOOLEAN /\ ass \in BOOLEAN /\ fatal \in BOOLEAN /\ here \in BOOLEAN
  /\ held \in BOOLEAN
  /\ devTog \in [Dirs -> Bits] /\ owed \in [Dirs -> Bits]
  /\ moved \in Nat /\ synced \in BOOLEAN

-----------------------------------------------------------------------------
(* The qTD chain ehci_submit_async builds: SETUP, DATA, ACK.               *)

IsControl(t) == t.call # "bulk"
PipeDir(t) == IF t.call = "clear" THEN "out" ELSE t.dir
HasData(t) == t.len > 0 \/ ~IsControl(t)
NumStages(t) == (IF HasData(t) THEN 1 ELSE 0) + (IF IsControl(t) THEN 2 ELSE 0)
DataStage(t) == IF IsControl(t) THEN 2 ELSE 1

StageName(t, i) ==
  IF IsControl(t) /\ i = 1 THEN "SETUP"
  ELSE IF IsControl(t) /\ i = NumStages(t) THEN "ACK" ELSE "DATA"

Opposite(d) == IF d = "in" THEN "out" ELSE "in"

(* After SETUP both further stages are sent with toggle 1; a bulk transfer starts from
   the toggle kept in the usb_device. *)
StageToggle(t, i) ==
  IF StageName(t, i) = "SETUP" THEN 0
  ELSE IF IsControl(t) THEN 1 ELSE toggle[t.dir]

NewTd(t, i) ==
  [ pid    |-> CASE StageName(t, i) = "SETUP" -> "setup"
                 [] StageName(t, i) = "DATA"  -> PipeDir(t)
                 [] OTHER                     -> Opposite(PipeDir(t)),
    active |-> TRUE,
    flags  |-> {},
    left   |-> CASE StageName(t, i) = "SETUP" -> 1
                 [] StageName(t, i) = "DATA"  -> t.len
                 [] OTHER                     -> 0,
    tog    |-> StageToggle(t, i),
    next   |-> IF i < NumStages(t) THEN i + 1 ELSE 0 ]

(* What the pool holds past the end of the chain is never read. *)
UnusedTd == [pid |-> "out", active |-> FALSE, flags |-> {}, left |-> 0, tog |-> 0,
             next |-> 0]

(* memset of the QH by ehci_alloc: an inactive overlay with all bits clear. *)
NewQh(first) == [active |-> FALSE, flags |-> {}, left |-> 0, tog |-> 0, cur |-> 0,
                 next |-> first]

Fits(t) == t.len <= FitLen

(* Both sides agree about the next packet.  A device that repeats an IN packet expects the
   old toggle once more; an OUT packet of an abandoned transfer must not be awaited. *)
Agree(h, d) ==
  /\ h = (devTog[d] + owed[d]) % 2
  /\ d = "out" => owed[d] = 0

(* The pointers run out at the DATA stage: SETUP and DATA have been filled by then, and
   neither leads to a next qTD. *)
UnlinkedTd(t, i) == [NewTd(t, i) EXCEPT !.next = 0]

Submit(t) ==
  /\ pc = "idle"
  /\ xfer' = t
  /\ status' = "NOT_PROC"
  /\ moved' = 0
  /\ synced' = (IsControl(t) \/ Agree(toggle[t.dir], t.dir))
  /\ \/ /\ Fits(t)
        /\ qh' = NewQh(1)
        /\ td' = [i \in Stages |-> IF i <= NumStages(t) THEN NewTd(t, i) ELSE UnusedTd]
        /\ list' = "qh"
        /\ pc' = "clear"
        /\ UNCHANGED res
     \/ /\ ~Fits(t)                     \* out of buffer pointers: goto fail
        /\ qh' = NewQh(0)
        /\ td' = [i \in Stages |-> IF i <= DataStage(t) THEN UnlinkedTd(t, i) ELSE td[i]]
        /\ res' = -1
        /\ UNCHANGED <<list, pc>>
  /\ UNCHANGED <<tries, toggle, actLen, cmd, sts, devTog, owed>>

-----------------------------------------------------------------------------
(* Bounded waits.  A controller that is not "late" answers before the last poll, except
   when it has stopped itself and never will. *)

TimesOut(stuck) == tries = 1 /\ ("late" \in Faults \/ stuck)

(* Seeded fault: polls once more after the last one. *)
PollPastEnd == tries' = tries - 1 /\ UNCHANGED pc

(* Seeded fault: the wait forgets to count. *)
PollForever == tries > 1 /\ UNCHANGED <<tries, pc>>

PollAgain == tries > 1 /\ tries' = tries - 1 /\ UNCHANGED pc

Await(bad, done, stuck, good, fail) ==
  \/ ~bad /\ done /\ pc' = good /\ tries' = Tries
  \/ bad /\ pc' = fail /\ tries' = Tries
  \/ ~bad /\ ~done /\ PollAgain
  \/ ~bad /\ ~done /\ TimesOut(stuck) /\ pc' = fail /\ tries' = Tries

(* handshake on USBSTS gives up on all-ones and on the fatal error bit. *)
StatusBad == ~here \/ fatal

-----------------------------------------------------------------------------
(* ehci_init and ehci_reset.  A failed ehci_init makes main hang for good. *)

InitBegin ==                            \* ehci_writel(&hcor->or_usbcmd, 0)
  /\ pc \in {"boot", "idle"}
  /\ pc' = "haltwait" /\ tries' = Tries
  /\ run' = FALSE /\ ase' = FALSE
  /\ UNCHANGED <<call, mem, rst, sts, device>>

HaltWait ==                             \* all ones read as halted
  /\ pc = "haltwait"
  /\ Await(FALSE, halt \/ ~here, FALSE, "resetwait", "hung")
  /\ rst' = (rst \/ pc' = "resetwait")
  /\ UNCHANGED <<call, mem, run, ase, sts, device>>

(* Seeded fault: takes the reset for done as soon as it is requested. *)
ResetUnwaited ==
  /\ pc = "resetwait"
  /\ Await(~here, TRUE, FALSE, "setup", "hung")
  /\ UNCHANGED <<call, mem, cmd, sts, device>>

ResetWait ==
  /\ pc = "resetwait"
  /\ Await(~here, ~rst, FALSE, "setup", "hung")
  /\ UNCHANGED <<call, mem, cmd, sts, device>>

Setup ==                                \* empty list, RUN without ASE, configure flag
  /\ pc = "setup"
  /\ pc' = "idle"
  /\ list' = "self"
  /\ run' = TRUE /\ ase' = FALSE
  /\ UNCHANGED <<tries, call, qh, td, rst, sts, device>>

Hang == pc = "hung" /\ UNCHANGED vars   \* hang.c: for (;;)

-----------------------------------------------------------------------------
(* The rest of ehci_submit_async.                                          *)

ClearStatus ==                          \* write back USBSTS & 0x3f
  /\ pc = "clear"
  /\ pc' = "enable"
  /\ fatal' = FALSE
  /\ UNCHANGED <<tries, call, mem, cmd, halt, ass, here, held, device>>

Enable ==
  /\ pc = "enable"
  /\ pc' = "on" /\ tries' = Tries
  /\ ase' = TRUE
  /\ UNCHANGED <<call, mem, run, rst, sts, device>>

WaitOn ==
  /\ pc = "on"
  /\ Await(StatusBad, ass, ~run, "poll", "fail")
  /\ UNCHANGED <<call, mem, cmd, sts, device>>

LastTd == td[NumStages(xfer)]

(* A device that answers NAK keeps its qTD active for ever, so this wait may always end
   by its count; but a live controller has fetched the first qTD by then. *)
Poll ==
  /\ pc = "poll"
  /\ \/ ~LastTd.active /\ pc' = "disable" /\ UNCHANGED tries
     \/ LastTd.active /\ PollAgain
     \/ /\ LastTd.active
        /\ TimesOut(qh.cur # 0 \/ ~run \/ ~here)
        /\ pc' = "disable" /\ UNCHANGED tries
  /\ UNCHANGED <<call, mem, cmd, sts, device>>

(* Seeded fault: the overlay is decoded as soon as the schedule is told to stop. *)
DisableAndFinish ==
  /\ pc = "disable"
  /\ pc' = "finish" /\ tries' = Tries
  /\ ase' = FALSE
  /\ UNCHANGED <<call, mem, run, rst, sts, device>>

Disable ==
  /\ pc = "disable"
  /\ pc' = "off" /\ tries' = Tries
  /\ ase' = FALSE
  /\ UNCHANGED <<call, mem, run, rst, sts, device>>

(* Seeded fault: goes on without waiting for the schedule to stop. *)
WaitOffBlind ==
  /\ pc = "off"
  /\ pc' = "finish"
  /\ UNCHANGED <<tries, call, mem, cmd, sts, device>>

WaitOff ==
  /\ pc = "off"
  /\ Await(StatusBad, ~ass, ~run, "finish", "fail")
  /\ UNCHANGED <<call, mem, cmd, sts, device>>

(* Seeded fault: masks the token with 0xbc, without the halted bit. *)
DecodeNoHalt(flags) ==
  CASE flags \ {"Halted"} = {}         -> "OK"
    [] flags \ {"Halted"} = {"BufErr"} -> "BUF_ERR"
    [] flags \ {"Halted"} = {"Babble"} -> "BABBLE"
    [] OTHER                           -> "CRC_ERR"

(* switch (token & 0xfc) of an inactive overlay. *)
Decode(flags) ==
  CASE flags = {}                                   -> "OK"
    [] flags = {"Halted"}                           -> "STALLED"
    [] flags = {"BufErr"}                           -> "BUF_ERR"
    [] flags \in {{"Babble"}, {"Babble", "Halted"}} -> "BABBLE"
    [] OTHER                                        -> "CRC_ERR"

(* What the caller returns for a transfer the driver did not fail itself: usb_bulk_msg
   tests !dev->status, usb_control_msg tests dev->status. *)
Result(t, st, n) ==
  IF t.call = "bulk" THEN IF st = "OK" THEN -1 ELSE 0
  ELSE IF st = "OK" THEN n ELSE -1

(* Seeded fault: usb_clear_halt does not reset the toggle. *)
ToggleNotCleared(t, st) ==
  IF t.call = "bulk" /\ st = "OK" THEN [toggle EXCEPT ![t.dir] = qh.tog] ELSE toggle

SavedToggle(t, st) ==
  CASE t.call = "bulk" /\ st = "OK"  -> [toggle EXCEPT ![t.dir] = qh.tog]
    [] t.call = "clear" /\ st = "OK" -> [toggle EXCEPT ![t.dir] = 0]
    [] OTHER                         -> toggle

(* Seeded fault: what is left is not taken off. *)
AllTransferred(t) == t.len

(* The payload is less than the length asked for by what the overlay has left; the last
   overlay of a control transfer is the ACK's, which never has any. *)
Transferred(t) == t.len - qh.left

Finish ==
  /\ pc = "finish"
  /\ pc' = "idle"
  /\ list' = "self"
  /\ \/ /\ ~qh.active
        /\ status' = Decode(qh.flags)
        /\ actLen' = Transferred(xfer)
        /\ toggle' = SavedToggle(xfer, status')
        /\ res' = Result(xfer, status', actLen')
     \/ /\ qh.active
        /\ actLen' = 0 /\ res' = -1
        /\ UNCHANGED <<status, toggle>>
  /\ UNCHANGED <<tries, xfer, qh, td, cmd, sts, device>>

(* The fail label after a failed handshake: the chain is dropped from the overlay, while
   CMD_ASE and qh_list.qh_link stay as they are. *)
Fail ==
  /\ pc = "fail"
  /\ pc' = "idle"
  /\ qh' = [qh EXCEPT !.next = 0]
  /\ res' = -1
  /\ UNCHANGED <<tries, xfer, toggle, status, actLen, list, td, cmd, sts, device>>

Driver ==
  \/ InitBegin \/ HaltWait \/ ResetWait \/ Setup \/ Hang
  \/ \E t \in Calls : Submit(t)
  \/ ClearStatus \/ Enable \/ WaitOn \/ Poll \/ Disable \/ WaitOff \/ Finish \/ Fail

-----------------------------------------------------------------------------
(* The controller.                                                         *)

HcHalt ==                               \* follows the run bit
  /\ here /\ ~rst /\ halt = run
  /\ halt' = ~run
  /\ UNCHANGED <<drv, call, mem, cmd, ass, fatal, here, held, device>>

HcFollowAse ==                          \* turns the schedule on or off as told
  /\ here /\ ~halt /\ ~rst /\ ass # ase
  /\ ass' = ase /\ held' = FALSE
  /\ UNCHANGED <<drv, call, mem, cmd, halt, fatal, here, device>>

HcResetDone ==
  /\ here /\ rst
  /\ run' = FALSE /\ ase' = FALSE /\ rst' = FALSE
  /\ halt' = TRUE /\ ass' = FALSE /\ fatal' = FALSE /\ held' = FALSE
  /\ UNCHANGED <<drv, call, mem, here, device>>

HcFatal ==                              \* stops at once; ASS keeps its value
  /\ "fatal" \in Faults
  /\ here /\ ~halt
  /\ run' = FALSE /\ halt' = TRUE /\ fatal' = TRUE
  /\ UNCHANGED <<drv, call, mem, ase, rst, ass, here, held, device>>

HcVanish ==
  /\ "gone" \in Faults
  /\ here
  /\ here' = FALSE
  /\ UNCHANGED <<drv, call, mem, cmd, halt, ass, fatal, held, device>>

(* It finds the QH through the list, and holds on to it until the schedule is off. *)
HcEnter ==
  /\ here /\ ~rst /\ ~halt /\ ass /\ list = "qh" /\ ~held
  /\ held' = TRUE
  /\ UNCHANGED <<drv, call, mem, cmd, halt, ass, fatal, here, device>>

(* It executes the queue it holds while the schedule runs. *)
Executing == here /\ ~rst /\ ~halt /\ ass /\ held

HcFetch ==                              \* load the next qTD into an idle overlay
  /\ Executing
  /\ ~qh.active /\ "Halted" \notin qh.flags
  /\ qh.next # 0 /\ td[qh.next].active
  /\ qh' = LET t == td[qh.next]
           IN  [active |-> t.active, flags |-> t.flags, left |-> t.left, tog |-> t.tog,
                cur |-> qh.next, next |-> t.next]
  /\ UNCHANGED <<drv, call, list, td, cmd, sts, device>>

Working == Executing /\ qh.active /\ qh.cur # 0

AtData == xfer.len > 0 /\ qh.cur = DataStage(xfer)

(* The stage is over: the qTD gets the overlay's token. *)
Retire(flags, left, tog) ==
  /\ qh' = [qh EXCEPT !.active = FALSE, !.flags = flags, !.left = left, !.tog = tog]
  /\ td' = [td EXCEPT ![qh.cur].active = FALSE, ![qh.cur].flags = flags,
                      ![qh.cur].left = left, ![qh.cur].tog = tog]

(* One more packet of the stage is done; the last one retires it. *)
Advance ==
  IF qh.left > 1
  THEN qh' = [qh EXCEPT !.left = qh.left - 1, !.tog = 1 - qh.tog] /\ UNCHANGED td
  ELSE Retire(qh.flags, 0, 1 - qh.tog)

Flip(f, d) == [f EXCEPT ![d] = 1 - f[d]]

(* The device clears the endpoint's toggle when it answers the status stage. *)
Cleared == [devTog EXCEPT ![xfer.dir] = 0]

HcControlPacket ==                      \* toggles restart with every SETUP
  /\ Working /\ IsControl(xfer)
  /\ Advance
  /\ moved' = IF AtData THEN moved + 1 ELSE moved
  /\ IF xfer.call = "clear" /\ qh.cur = NumStages(xfer)
     THEN devTog' = Cleared /\ owed' = [owed EXCEPT ![xfer.dir] = 0]
     ELSE UNCHANGED <<devTog, owed>>
  /\ UNCHANGED <<drv, call, list, cmd, sts, synced>>

HcBulkPacket ==                         \* the toggles match: both sides advance
  /\ Working /\ ~IsControl(xfer) /\ qh.tog = devTog[xfer.dir]
  /\ Advance
  /\ moved' = IF AtData THEN moved + 1 ELSE moved
  /\ devTog' = Flip(devTog, xfer.dir)
  /\ UNCHANGED <<drv, call, list, cmd, sts, owed, synced>>

(* An OUT packet arrives and its ACK does not: the host will send it again. *)
HcLostAckOut ==
  /\ Working /\ xfer.call = "bulk" /\ xfer.dir = "out" /\ qh.tog = devTog["out"]
  /\ qh' = [qh EXCEPT !.flags = @ \cup {"XactErr"}]
  /\ moved' = IF AtData THEN moved + 1 ELSE moved
  /\ devTog' = Flip(devTog, "out") /\ owed' = [owed EXCEPT !["out"] = 1]
  /\ UNCHANGED <<drv, call, list, td, cmd, sts, synced>>

(* The host takes an IN packet and its ACK is lost: the device will send it again. *)
HcLostAckIn ==
  /\ Working /\ xfer.call = "bulk" /\ xfer.dir = "in" /\ qh.tog = devTog["in"]
  /\ Advance
  /\ moved' = IF AtData THEN moved + 1 ELSE moved
  /\ owed' = [owed EXCEPT !["in"] = 1]
  /\ UNCHANGED <<drv, call, list, cmd, sts, devTog, synced>>

(* The toggles differ: the receiver acknowledges the packet and drops it. *)
HcDiscard ==
  /\ Working /\ ~IsControl(xfer) /\ qh.tog # devTog[xfer.dir]
  /\ owed' = [owed EXCEPT ![xfer.dir] = 0]
  /\ IF xfer.dir = "out"
     THEN Advance /\ UNCHANGED devTog
     ELSE devTog' = Flip(devTog, "in") /\ UNCHANGED <<qh, td>>
  /\ UNCHANGED <<drv, call, list, cmd, sts, moved, synced>>

(* The device ends an IN transfer early with an empty packet; qt_altnext terminates, so
   the controller goes on with the next stage. *)
HcShort ==
  /\ Working /\ AtData /\ xfer.dir = "in"
  /\ IsControl(xfer) \/ qh.tog = devTog["in"]
  /\ Retire(qh.flags, qh.left, 1 - qh.tog)
  /\ devTog' = IF IsControl(xfer) THEN devTog ELSE Flip(devTog, "in")
  /\ UNCHANGED <<drv, call, list, cmd, sts, owed, moved, synced>>

(* A transaction fails and is tried again; the error bit stays in the token. *)
HcTransient ==
  /\ Working
  /\ \E e \in {"XactErr", "BufErr"} : qh' = [qh EXCEPT !.flags = @ \cup {e}]
  /\ UNCHANGED <<drv, call, list, td, cmd, sts, device>>

(* STALL, babble or three errors in a row halt the queue.  SETUP is never stalled; a
   status stage may fail after the device did what it was asked. *)
HcHaltQueue ==
  /\ Working
  /\ \E e \in {{}, {"Babble"}, {"XactErr"}} :
       /\ e = {} => td[qh.cur].pid # "setup"
       /\ Retire(qh.flags \cup {"Halted"} \cup e, qh.left, qh.tog)
       /\ devTog' \in {devTog} \cup IF xfer.call = "clear" /\ qh.cur = NumStages(xfer)
                                   THEN {Cleared} ELSE {}
  /\ UNCHANGED <<drv, call, list, cmd, sts, owed, moved, synced>>

Controller ==
  \/ HcHalt \/ HcFollowAse \/ HcResetDone \/ HcFatal \/ HcVanish
  \/ HcEnter
  \/ HcFetch \/ HcControlPacket \/ HcBulkPacket \/ HcLostAckOut \/ HcLostAckIn
  \/ HcDiscard \/ HcShort \/ HcTransient \/ HcHaltQueue

-----------------------------------------------------------------------------
(* The boot loader leaves the controller halted or running, with no schedule enabled; the
   static driver state is zero. *)
Init ==
  /\ pc = "boot" /\ tries = Tries
  /\ xfer = [call |-> "control", dir |-> "out", len |-> 0]
  /\ toggle = [d \in Dirs |-> 0] /\ status = "NOT_PROC" /\ actLen = 0 /\ res = 0
  /\ list = "self" /\ qh = NewQh(0)
  /\ td = [i \in Stages |-> UnusedTd]
  /\ run \in BOOLEAN /\ halt = ~run /\ ase = FALSE /\ rst = FALSE
  /\ ass = FALSE /\ fatal = FALSE /\ here = TRUE /\ held = FALSE
  /\ devTog = [d \in Dirs |-> 0] /\ owed = [d \in Dirs |-> 0]
  /\ moved = 0 /\ synced = TRUE

Next == Driver \/ Controller

Spec == Init /\ [][Next]_vars

(* The driver is the only program on the processor: it never stops for good.  Nothing is
   asked of the controller or of the device. *)
FairSpec == Spec /\ WF_vars(Driver)

-----------------------------------------------------------------------------
(* Properties.                                                             *)

Live == here /\ ~halt
HcReaches == Live /\ ((held /\ ass) \/ (list = "qh" /\ (ase \/ ass)))

(* While the driver is between transfers or re-initialising, a running controller gets at
   the QH and the qTDs, which the next ehci_alloc clears with memset (ehci-hcd.c:323-341),
   only when its status bits are late, and then only after a call that dropped its chain
   because a handshake failed and said so: the list still leads to the QH and the result is
   -1 (ehci-hcd.c:493-531, 570-578). *)
Quiescent ==
  pc \in {"boot", "haltwait", "resetwait", "setup", "idle"} /\ HcReaches
    => "late" \in Faults /\ list = "qh" /\ res = -1

(* What ehci_submit_async puts into dev->status is what happened to the chain
   (ehci-hcd.c:534-558): OK means that the stage the overlay stands at was retired without
   an error, a stage that halted is never OK, and a chain that was completed cleanly is OK
   even when it was completed after the last poll. *)
StatusFaithful ==
  pc = "idle" =>
    /\ status = "OK" => /\ qh.cur # 0
                       /\ ~td[qh.cur].active /\ td[qh.cur].flags = {}
    /\ qh.cur # 0 =>
         /\ (\E i \in 1 .. NumStages(xfer) : "Halted" \in td[i].flags)
              => status \notin {"OK", "NOT_PROC"}
         /\ ~LastTd.active /\ LastTd.flags = {} => status = "OK"

(* A bulk transfer that began with both sides agreeing about the data toggle and is
   reported OK, and a completed usb_clear_halt, leave dev->toggle and the device agreeing
   (ehci-hcd.c:540-544, usb.c:436-439). *)
ToggleAgrees ==
  (/\ pc = "idle" /\ status = "OK" /\ ~LastTd.active
   /\ xfer.call = "clear" \/ (xfer.call = "bulk" /\ synced))
  => Agree(toggle[xfer.dir], xfer.dir)

(* Such a bulk transfer reports in dev->act_len the packets that changed hands, each once,
   whatever was lost and repeated (ehci-hcd.c:559). *)
BulkLengthExact ==
  pc = "idle" /\ status = "OK" /\ xfer.call = "bulk" /\ synced => actLen = moved

(* Whatever the controller does, a call returns and an initialisation ends
   (ehci-hcd.c:245-266, 511-519, 279-283). *)
CallReturns ==
  pc \notin {"boot", "idle", "hung"} ~> pc \in {"idle", "hung"}

(* An initialisation that gets as far as the schedule setup has really stopped the
   controller, whatever earlier failed transfers left switched on (ehci-hcd.c:277-296). *)
ReinitRecovers ==
  pc = "setup" /\ here => halt /\ ~rst /\ ~run /\ ~ase /\ ~ass /\ ~fatal

(* Why both hold: the inductive invariants of the proofs.                   *)
ResetInv ==                             \* of any controller
  here =>
    /\ pc \in {"haltwait", "resetwait"} => ~run
    /\ pc = "resetwait" => halt
    /\ pc = "resetwait" /\ ~rst => ~ase /\ ~ass /\ ~fatal
    /\ rst => pc \in {"resetwait", "hung"}
    /\ pc = "setup" => halt /\ ~rst /\ ~run /\ ~ase /\ ~ass /\ ~fatal

(* What a controller that runs, or may go on running, can be doing at each place of a
   driver whose waits do not end too early. *)
LendInv ==
  here =>
    /\ ~run /\ pc \notin {"boot", "haltwait", "hung"} => halt
    /\ fatal => ~run /\ halt
    /\ run \/ ~halt =>
         /\ pc # "fail"
         /\ list = "qh" => pc \in {"clear", "enable", "on", "poll", "disable", "off", "finish"}
         /\ ase => pc \in {"on", "poll", "disable"}
         /\ ass => pc \in {"on", "poll", "disable", "off"}

(* A controller is kept away by its list, or by its schedule; where it is not, a call has
   just failed. *)
Resting == {"boot", "haltwait", "resetwait", "setup", "idle", "hung"}

RestInv ==                              \* of any controller
  /\ pc \notin Resting => list = "qh"
  /\ pc \in Resting /\ list = "qh" => res = -1
  /\ here =>
       /\ pc \in Resting /\ list = "self" => ~ase /\ ~ass
       /\ pc = "off" => ~ase
       /\ pc = "finish" => ~ase /\ ~ass

(* The memory discipline of module DmaOwnership: the QH and the chain are lent to the
   controller from the moment they are linked until the schedule is known to be off, and
   untouched while the driver holds them (ehci-hcd.c:493-532). *)
Lent == {"clear", "enable", "on", "poll", "disable", "off"}

Token(q) == [active |-> q.active, flags |-> q.flags, left |-> q.left, tog |-> q.tog,
             cur |-> q.cur]

Dma == INSTANCE DmaOwnership WITH
         Blank <- Token(NewQh(0)),
         owner <- IF pc \in Lent THEN "controller" ELSE "driver",
         token <- Token(qh),
         chain <- td

MemoryDiscipline == Dma!Spec

(* Documented, and not what the code does: see the findings in the README.  *)

(* usb.c:173 "submits a control message and waits for comletion": a control message
   reported OK has been completed. *)
OkMeansCompleted ==
  pc = "idle" /\ status = "OK" /\ IsControl(xfer) => ~LastTd.active
=============================================================================
