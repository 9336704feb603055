--------------------------- MODULE RootHubProofs ---------------------------
(***************************************************************************)
(* Theorems about RootHub, for every value of its constants: types, the    *)
(* errors of a scan, what the port lets the hub driver conclude            *)
(* (SpeedRight and, in main's loop, TableNeverFull), and how many steps a  *)
(* scan takes at most whatever the port does.                              *)
(***************************************************************************)
EXTENDS RootHub, TLAPS

USE RootHubAssumption

-----------------------------------------------------------------------------
(* Type correctness.                                                       *)

LEMMA QuietType == Quiet \in Ports
BY SMT DEF Quiet, Ports

LEMMA StatusType == TypeOK => PortStatus \in Statuses /\ NoStatus \in Statuses
BY SMT DEF TypeOK, PortStatus, NoStatus, Statuses, Ports

LEMMA InitType == Init => TypeOK
<1> SUFFICES ASSUME Init PROVE TypeOK
  OBVIOUS
<1>1. NoStatus \in Statuses
  BY SMT DEF NoStatus, Statuses
<1>2. /\ 0 \in 0 .. (MaxTries - 1) /\ 0 \in 0 .. (Polls - 1) /\ 0 \in 0 .. MaxDevice
      /\ 0 \in 0 .. MaxEvents
  BY SMT
<1>3. drv \in Drivers
  BY <1>1, <1>2, QuietType DEF Init, Drivers, Places, Requests, Outcomes, Reasons
<1>4. portreset \in BOOLEAN /\ tab \in [child : BOOLEAN, ndev : 0..MaxDevice]
  BY <1>2, Zenon DEF Init
<1> QED
  BY <1>2, <1>3, <1>4, QuietType, Zenon DEF Init, TypeOK, Plugs

LEMMA NoChangeType ==
  ASSUME NEW w \in Ports
  PROVE  NoChange(w) \in Ports
BY Zenon DEF NoChange, Ports

LEMMA WrittenType ==
  ASSUME TypeOK, NEW w \in Ports
  PROVE  Written(w) \in Ports
<1>1. (IF w.pr # "off" THEN "on" ELSE IF port.pr = "off" THEN "off" ELSE "ending")
         \in {"off", "on", "ending"}
  OBVIOUS
<1>2. (IF PowerSwitched THEN w.pp ELSE port.pp) \in BOOLEAN
  <2>1. w.pp \in BOOLEAN /\ port.pp \in BOOLEAN
    BY Zenon DEF TypeOK, Ports
  <2>2. CASE PowerSwitched
    BY <2>1, <2>2, Zenon
  <2>3. CASE ~PowerSwitched
    BY <2>1, <2>3, Zenon
  <2> QED
    BY <2>2, <2>3
<1>3. port \in Ports /\ w.po \in BOOLEAN
  BY Zenon DEF TypeOK, Ports
<1> DEFINE owned == port.po \/ ~w.po
           csc == (port.csc /\ ~w.csc) \/ (~owned /\ port.cs)
           pec == port.pec /\ ~w.pec
           occ == port.occ /\ ~w.occ
           cs  == port.cs /\ owned
           pe  == port.pe /\ w.pe /\ w.pr = "off" /\ owned
           pr  == IF w.pr # "off" THEN "on" ELSE IF port.pr = "off" THEN "off" ELSE "ending"
           pp  == IF PowerSwitched THEN w.pp ELSE port.pp
<1>4. /\ csc \in BOOLEAN /\ pec \in BOOLEAN /\ occ \in BOOLEAN /\ cs \in BOOLEAN
      /\ pe \in BOOLEAN
  BY Zenon
<1>5. pr \in {"off", "on", "ending"} /\ pp \in BOOLEAN
  BY <1>1, <1>2
<1>6. Written(w) = [port EXCEPT !.csc = csc, !.pec = pec, !.occ = occ, !.cs = cs, !.pe = pe,
                                !.pr = pr, !.pp = pp, !.po = w.po]
  BY Zenon DEF Written
<1> HIDE DEF owned, csc, pec, occ, cs, pe, pr, pp
<1> QED
  BY <1>3, <1>4, <1>5, <1>6, ZenonT(60) DEF Ports
(* The steps of ehci_submit_root. *)

LEMMA RequestType ==
  ASSUME TypeOK, Request
  PROVE  TypeOK'
<1>1. drv \in Drivers /\ drv.reg \in Ports /\ NoChange(drv.reg) \in Ports
  BY NoChangeType, Zenon DEF TypeOK, Drivers
<1>2. ASSUME NEW r, NEW w \in Ports, Serve(r, w), portreset' \in BOOLEAN
      PROVE  TypeOK'
  <2>1. [drv EXCEPT !.req = "none"] \in Drivers
    BY <1>1, Zenon DEF Drivers, Requests
  <2> QED
    BY <1>2, <2>1, WrittenType, Zenon DEF Serve, TypeOK
<1>3. CASE SetPower
  <2>1. [NoChange(drv.reg) EXCEPT !.pp = TRUE] \in Ports
    BY <1>1, Zenon DEF Ports
  <2>2. CASE Serve("power", [NoChange(drv.reg) EXCEPT !.pp = TRUE]) /\ UNCHANGED portreset
    BY <1>2, <2>1, <2>2, Zenon DEF TypeOK
  <2>3. CASE /\ ~PowerSwitched /\ drv.req = "power"
             /\ drv' = [drv EXCEPT !.req = "none"]
             /\ UNCHANGED <<tab, portreset, world>>
    <3>1. drv' \in Drivers
      BY <1>1, <2>3, Zenon DEF Drivers, Requests
    <3> QED
      BY <2>3, <3>1, Zenon DEF TypeOK, world
  <2> QED
    BY <1>3, <2>2, <2>3, Zenon DEF SetPower
<1>4. CASE HandOver
  <2>1. [NoChange(drv.reg) EXCEPT !.po = TRUE] \in Ports
    BY <1>1, Zenon DEF Ports
  <2> QED
    BY <1>2, <1>4, <2>1, Zenon DEF HandOver, TypeOK
<1>5. CASE BeginReset
  <2>1. [NoChange(drv.reg) EXCEPT !.pr = "on", !.pe = FALSE] \in Ports
    BY <1>1, Zenon DEF Ports
  <2>2. drv' \in Drivers
    BY <1>1, <1>5, Zenon DEF BeginReset, Drivers, Requests
  <2> QED
    BY <1>5, <2>1, <2>2, WrittenType, Zenon DEF BeginReset, TypeOK
<1>6. CASE EndReset
  <2>1. [NoChange(drv.reg) EXCEPT !.pr = "off", !.pe = FALSE] \in Ports
    BY <1>1, Zenon DEF Ports
  <2>3. drv' \in Drivers
    BY <1>1, <1>6, Zenon DEF EndReset, Drivers, Requests
  <2> QED
    BY <1>6, <2>1, <2>3, WrittenType, Zenon DEF EndReset, TypeOK
<1>7. CASE ClearConnection
  <2>1. [NoChange(drv.reg) EXCEPT !.csc = TRUE] \in Ports
    BY <1>1, Zenon DEF Ports
  <2> QED
    BY <1>2, <1>7, <2>1, Zenon DEF ClearConnection, TypeOK
<1>8. CASE ClearEnable
  <2>1. [NoChange(drv.reg) EXCEPT !.pe = TRUE] \in Ports
    BY <1>1, Zenon DEF Ports
  <2> QED
    BY <1>2, <1>8, <2>1, Zenon DEF ClearEnable, TypeOK
<1>9. CASE ClearReset
  BY <1>1, <1>2, <1>9, Zenon DEF ClearReset
<1>10. CASE AwaitReset
  <2> DEFINE done == ~port.oca /\ port.pr = "off"
             stop == done \/ port.oca \/ HandshakeTimesOut
  <2>1. ASSUME stop PROVE drv' \in Drivers
    <3>1. drv' = [drv EXCEPT !.polls = 0, !.req = "none"]
      BY <1>10, <2>1, Zenon DEF AwaitReset
    <3>2. 0 \in 0 .. (Polls - 1)
      BY SMT
    <3> QED
      BY <1>1, <3>1, <3>2, Zenon DEF Drivers, Requests
  <2>2. ASSUME ~stop PROVE drv' \in Drivers
    <3>1. drv' = [drv EXCEPT !.polls = @ + 1]
      BY <1>10, <2>2, Zenon DEF AwaitReset
    <3>2. drv.polls \in 0 .. (Polls - 1) /\ drv.polls + 1 # Polls
      BY <1>1, <2>2, Zenon DEF Drivers, HandshakeTimesOut
    <3>3. drv.polls + 1 \in 0 .. (Polls - 1)
      BY <3>2, SMT
    <3> QED
      BY <1>1, <3>1, <3>3, Zenon DEF Drivers
  <2>3. portreset' \in BOOLEAN
    BY <1>10, Zenon DEF AwaitReset, TypeOK
  <2> QED
    BY <1>10, <2>1, <2>2, <2>3, Zenon DEF AwaitReset, TypeOK, world
<1> QED
  BY <1>3, <1>4, <1>5, <1>6, <1>7, <1>8, <1>9, <1>10, Zenon DEF Request

(* The steps of main and the hub driver. *)

LEMMA AskType ==
  ASSUME TypeOK, NEW r \in Requests, NEW p \in Places
  PROVE  Ask(r, p) \in Drivers
BY Zenon DEF TypeOK, Ask, Drivers

LEMMA GotoType ==
  ASSUME TypeOK, NEW p \in Places, Goto(p)
  PROVE  drv' \in Drivers
BY Zenon DEF TypeOK, Goto, Drivers

LEMMA ReturnType ==
  ASSUME TypeOK, NEW r \in Outcomes, Return(r)
  PROVE  drv' \in Drivers
BY Zenon DEF TypeOK, Return, Drivers, Places

LEMMA FailType ==
  ASSUME TypeOK, NEW w \in Reasons, Fail(w)
  PROVE  drv' \in Drivers
BY Zenon DEF TypeOK, Fail, Drivers, Places, Outcomes

LEMMA HubScanDriver ==
  ASSUME TypeOK, HubScan
  PROVE  drv' \in Drivers
<1>1. drv \in Drivers /\ PortStatus \in Statuses
  BY StatusType, Zenon DEF TypeOK
<1>2. CASE Scan
  BY <1>1, <1>2, Zenon DEF Scan, Drivers, Places, Reasons
<1>3. CASE Change
  BY <1>3, GotoType DEF Change, Places
<1>4. CASE EnableChange
  <2>1. CASE drv.seen.pec
    BY <1>4, <2>1, AskType, Zenon DEF EnableChange, Places, Requests
  <2>2. CASE ~drv.seen.pec
    BY <1>4, <2>2, GotoType, Zenon DEF EnableChange, Places
  <2> QED
    BY <2>1, <2>2
<1>5. CASE ReEnable
  <2>1. CASE Interfered
    <3>1. drv' = [drv EXCEPT !.at = "status", !.again = TRUE]
      BY <1>5, <2>1, Zenon DEF ReEnable
    <3>2. "status" \in Places
      BY DEF Places
    <3> QED
      BY <1>1, <3>1, <3>2, Zenon DEF Drivers
  <2>2. CASE ~Interfered
    BY <1>5, <2>2, GotoType, Zenon DEF ReEnable, Places
  <2> QED
    BY <2>1, <2>2
<1>6. CASE OverCurrent
  <2>1. CASE drv.seen.occ
    BY <1>6, <2>1, AskType, Zenon DEF OverCurrent, Places, Requests
  <2>2. CASE ~drv.seen.occ
    BY <1>6, <2>2, GotoType, Zenon DEF OverCurrent, Places
  <2> QED
    BY <2>1, <2>2
<1>7. CASE ResetChange
  <2>1. CASE drv.seen.creset
    BY <1>7, <2>1, AskType, Zenon DEF ResetChange, Places, Requests
  <2>2. CASE ~drv.seen.creset
    <3>1. (IF drv.found THEN "found" ELSE "none") \in Outcomes
      BY Zenon DEF Outcomes
    <3> QED
      BY <1>7, <2>2, <3>1, ReturnType, Zenon DEF ResetChange
  <2> QED
    BY <2>1, <2>2
<1>8. CASE ResetChangeFails
  BY <1>1, <1>8, FailType, Zenon DEF ResetChangeFails, Drivers
<1> QED
  BY <1>2, <1>3, <1>4, <1>5, <1>6, <1>7, <1>8, Zenon DEF HubScan

LEMMA ConnectChangeDriver ==
  ASSUME TypeOK, ConnectChange
  PROVE  drv' \in Drivers
<1>1. drv \in Drivers /\ PortStatus \in Statuses
  BY StatusType, Zenon DEF TypeOK
<1>2. AfterChange \in Places /\ AfterReset \in Places /\ 0 \in 0 .. (MaxTries - 1)
  BY SMT DEF AfterChange, AfterReset, Places
<1>3. CASE ConnectStatus \/ CheckReset
  <2>1. CASE ConnectStatus
    BY <1>1, <2>1, Zenon DEF ConnectStatus, Drivers, Places
  <2>2. CASE CheckReset
    BY <1>1, <2>2, Zenon DEF CheckReset, Drivers, Places
  <2> QED
    BY <1>3, <2>1, <2>2
<1>4. CASE Clear
  BY <1>4, AskType, Zenon DEF Clear, Places, Requests
<1>5. CASE PortReset
  BY <1>5, AskType, Zenon DEF PortReset, Places, Requests
<1>6. CASE Connect
  <2>1. CASE NothingThere
    BY <1>1, <1>2, <1>6, <2>1, Zenon DEF Connect, Drivers
  <2>2. CASE ~NothingThere
    BY <1>1, <1>2, <1>6, <2>2, Zenon DEF Connect, Drivers, Places
  <2> QED
    BY <2>1, <2>2
<1>7. CASE JudgeReset
  <2>1. CASE Fail("reset")
    BY <2>1, FailType DEF Reasons
  <2>2. CASE AcknowledgeReset
    BY <1>2, <2>2, AskType, Zenon DEF AcknowledgeReset, Requests
  <2>3. CASE Retry
    <3>1. CASE drv.tries + 1 < MaxTries
      <4>1. drv.tries \in 0 .. (MaxTries - 1)
        BY <1>1, Zenon DEF Drivers
      <4>2. drv.tries + 1 \in 0 .. (MaxTries - 1)
        BY <3>1, <4>1, SMT
      <4>3. drv' = [drv EXCEPT !.at = "port_reset", !.tries = drv.tries + 1]
        BY <2>3, <3>1, Zenon DEF Retry
      <4>4. "port_reset" \in Places
        BY DEF Places
      <4> QED
        BY <1>1, <4>2, <4>3, <4>4, ZenonT(60) DEF Drivers
    <3>2. CASE ~(drv.tries + 1 < MaxTries)
      BY <2>1, <2>3, <3>2, Zenon DEF Retry
    <3> QED
      BY <3>1, <3>2
  <2> QED
    BY <1>7, <2>1, <2>2, <2>3, Zenon DEF JudgeReset
<1>8. CASE Allocate
  <2>1. CASE Fail("full")
    BY <2>1, FailType DEF Reasons
  <2>2. CASE Goto("describe")
    BY <2>2, GotoType DEF Places
  <2> QED
    BY <1>8, <2>1, <2>2, Zenon DEF Allocate
<1>9. CASE Describe \/ Address
  <2>1. CASE Fail("device")
    BY <2>1, FailType DEF Reasons
  <2>2. CASE drv' = [drv EXCEPT !.at = "port_reset", !.deep = TRUE, !.tries = 0]
    BY <1>1, <1>2, <2>2, Zenon DEF Drivers, Places
  <2>3. CASE drv' = [drv EXCEPT !.at = AfterChange, !.deep = FALSE, !.found = TRUE]
    BY <1>1, <1>2, <2>3, Zenon DEF Drivers
  <2> QED
    BY <1>9, <2>1, <2>2, <2>3, Zenon DEF Describe, Address
<1> QED
  BY <1>3, <1>4, <1>5, <1>6, <1>7, <1>8, <1>9, Zenon DEF ConnectChange

LEMMA DriverType ==
  ASSUME TypeOK, Driver \/ BootFails
  PROVE  TypeOK'
<1>1. CASE Request
  BY <1>1, RequestType
<1>2. CASE Boot
  <2>1. drv' \in Drivers
    BY <1>2, GotoType, Zenon DEF Boot, Places
  <2>2. 1 \in 0 .. MaxDevice
    BY SMT
  <2>3. tab' \in [child : BOOLEAN, ndev : 0..MaxDevice]
    BY <1>2, <2>2, Zenon DEF Boot, FreshTab
  <2> QED
    BY <1>2, <2>1, <2>3, QuietType, Zenon DEF Boot, TypeOK
<1>3. CASE PowerOn \/ Caller \/ HubScan \/ ConnectChange \/ BootFails
  <2>1. drv' \in Drivers
    <3>1. CASE PowerOn
      BY <3>1, AskType, Zenon DEF PowerOn, Places, Requests
    <3>2. CASE Caller
      <4>1. (IF Rescan THEN "scan" ELSE IF drv.ret = "error" THEN "hung" ELSE "boot") \in Places
        BY Zenon DEF Places
      <4> QED
        BY <3>2, <4>1, GotoType, Zenon DEF Caller
    <3>3. CASE BootFails
      BY <3>3, GotoType, Zenon DEF BootFails, Places
    <3> QED
      BY <1>3, <3>1, <3>2, <3>3, HubScanDriver, ConnectChangeDriver, Zenon
  <2>2. UNCHANGED <<portreset, world>>
    BY <1>3, Zenon DEF PowerOn, Caller, HubScan, ConnectChange, BootFails, Scan, Change,
         EnableChange, ReEnable, OverCurrent, ResetChange, ResetChangeFails, ConnectStatus,
         Clear, Connect, PortReset, CheckReset, JudgeReset, Allocate, Describe, Address
  <2>3. tab' \in [child : BOOLEAN, ndev : 0..MaxDevice]
    <3>1. CASE UNCHANGED tab
      BY <3>1, Zenon DEF TypeOK
    <3>2. CASE tab.ndev # MaxDevice /\ tab' = [child |-> TRUE, ndev |-> tab.ndev + 1]
      <4>1. tab.ndev \in 0 .. MaxDevice
        BY Zenon DEF TypeOK
      <4>2. tab.ndev + 1 \in 0 .. MaxDevice
        BY <3>2, <4>1, SMT
      <4> QED
        BY <3>2, <4>2, Zenon
    <3>3. CASE Allocate
      BY <3>1, <3>2, <3>3, Zenon DEF Allocate
    <3> QED
      BY <1>3, <3>1, <3>3, Zenon DEF PowerOn, Caller, HubScan, ConnectChange, BootFails, Scan,
         Change, EnableChange, ReEnable, OverCurrent, ResetChange, ResetChangeFails,
         ConnectStatus, Clear, Connect, PortReset, CheckReset, JudgeReset, Describe, Address
  <2> QED
    BY <2>1, <2>2, <2>3, Zenon DEF TypeOK, world
<1> QED
  BY <1>1, <1>2, <1>3 DEF Driver

LEMMA WorldType ==
  ASSUME TypeOK, World
  PROVE  TypeOK'
<1>1. port \in Ports
  BY DEF TypeOK
<1>2. ASSUME Disturb PROVE events' \in 0 .. MaxEvents /\ UNCHANGED hub
  BY <1>2, SMT DEF Disturb, TypeOK
<1>3. port' \in Ports
  <2>1. CASE Attach
    BY <1>1, <2>1, Zenon DEF Attach
  <2>2. CASE Detach
    <3>1. /\ port' = [port EXCEPT !.cs = FALSE, !.csc = port.csc \/ port.cs, !.pe = FALSE,
                                  !.ls = FALSE, !.po = FALSE]
          /\ (port.csc \/ port.cs) \in BOOLEAN
      BY <2>2, Zenon DEF Detach
    <3> QED
      BY <1>1, <3>1, ZenonT(60) DEF Ports
  <2>3. CASE Detect
    BY <1>1, <2>3, Zenon DEF Detect, Ports
  <2>4. CASE ResetEnds
    BY <1>1, <2>4, Zenon DEF ResetEnds, Ports
  <2>5. CASE Interference
    BY <1>1, <2>5, Zenon DEF Interference, Ports
  <2>6. CASE OverCurrentChanges
    <3>1. /\ port' = [port EXCEPT !.oca = ~port.oca, !.occ = TRUE, !.pe = port.pe /\ port.oca]
          /\ (~port.oca) \in BOOLEAN /\ (port.pe /\ port.oca) \in BOOLEAN
      BY <2>6, Zenon DEF OverCurrentChanges
    <3> QED
      BY <1>1, <3>1, ZenonT(60) DEF Ports
  <2> QED
    BY <2>1, <2>2, <2>3, <2>4, <2>5, <2>6 DEF World
<1>4. plug' \in Plugs /\ reseat' \in BOOLEAN
  BY Zenon DEF World, Attach, Detach, Detect, ResetEnds, Interference, OverCurrentChanges,
     TypeOK, Plugs
<1>5. events' \in 0 .. MaxEvents /\ UNCHANGED hub
  BY <1>2, Zenon DEF World, Attach, Detach, Detect, ResetEnds, Interference,
     OverCurrentChanges, TypeOK
<1> QED
  BY <1>3, <1>4, <1>5, Zenon DEF TypeOK, hub

LEMMA NextType == TypeOK /\ [Next]_vars => TypeOK'
<1> SUFFICES ASSUME TypeOK, [Next]_vars PROVE TypeOK'
  OBVIOUS
<1>1. CASE UNCHANGED vars
  BY <1>1, Zenon DEF vars, hub, world, TypeOK
<1> QED
  BY <1>1, DriverType, WorldType DEF Next

(* Every variable of the root hub keeps its type: the counters of hub_port_reset and of the
   reset handshake stay below their limits. *)
THEOREM TypeCorrect == Spec => []TypeOK
BY InitType, NextType, PTL DEF Spec

-----------------------------------------------------------------------------
(* In main's loop an error of usb_hub_scan has a reason.                   *)

LEMMA InitStale == BssCleared /\ Init => StaleInv
<1> SUFFICES ASSUME BssCleared, Init PROVE StaleInv
  OBVIOUS
<1>1. ~NoStatus.creset
  BY Zenon DEF NoStatus
<1>2. drv.at = "boot" /\ drv.req = "none" /\ ~drv.seen.creset
  BY <1>1, Zenon DEF Init
<1>3. portreset = FALSE
  BY Zenon DEF Init
<1> QED
  BY <1>2, <1>3, Zenon DEF StaleInv, ErrorMeansFailure

LEMMA RequestStale ==
  ASSUME TypeOK, StaleInv, Request
  PROVE  StaleInv'
<1>1. drv \in Drivers
  BY DEF TypeOK
<1>2. ASSUME drv.req # "handshake", drv' = [drv EXCEPT !.req = "none"],
             ~portreset' \/ (portreset' = portreset /\ drv.req # "clear_reset")
      PROVE  StaleInv'
  <2>1. /\ drv'.at = drv.at /\ drv'.req = "none" /\ drv'.seen = drv.seen
        /\ drv'.ret = drv.ret /\ drv'.why = drv.why
    BY <1>1, <1>2, Zenon DEF Drivers
  <2>2. ~drv'.seen.creset /\ drv'.at # "creset_done" /\ ErrorMeansFailure'
    BY <2>1, Zenon DEF StaleInv, ErrorMeansFailure
  <2>3. portreset' => \/ drv'.at \in {"port_reset", "check", "judge", "hung"}
                      \/ drv'.at = "return" /\ drv'.ret = "error"
    BY <1>2, <2>1, Zenon DEF StaleInv
  <2> QED
    BY <2>1, <2>2, <2>3, Zenon DEF StaleInv
<1>3. CASE SetPower \/ HandOver \/ ClearConnection \/ ClearEnable \/ ClearReset
  <2>1. ASSUME NEW r, NEW w, Serve(r, w), r # "handshake", r # "clear_reset",
               portreset' = portreset
        PROVE  StaleInv'
    BY <1>2, <2>1, Zenon DEF Serve
  <2>2. CASE SetPower
    <3>1. CASE drv.req = "power" /\ drv' = [drv EXCEPT !.req = "none"] /\ portreset' = portreset
      <4>1. drv.req # "handshake" /\ drv.req # "clear_reset"
        BY <3>1
      <4> QED
        BY <1>2, <3>1, <4>1, Zenon
    <3> QED
      BY <2>1, <2>2, <3>1, Zenon DEF SetPower
  <2>3. CASE HandOver
    BY <2>1, <2>3, Zenon DEF HandOver
  <2>4. CASE ClearConnection
    BY <2>1, <2>4, Zenon DEF ClearConnection
  <2>5. CASE ClearEnable
    BY <2>1, <2>5, Zenon DEF ClearEnable
  <2>6. CASE ClearReset
    <3>1. drv.req = "clear_reset" /\ drv' = [drv EXCEPT !.req = "none"] /\ ~portreset'
      BY <2>6, Zenon DEF ClearReset, Serve
    <3>2. drv.req # "handshake"
      BY <3>1
    <3> QED
      BY <1>2, <3>1, <3>2, Zenon
  <2> QED
    BY <1>3, <2>2, <2>3, <2>4, <2>5, <2>6
<1>4. CASE BeginReset \/ EndReset
  <2>1. /\ drv'.at = drv.at /\ drv'.req \in {"unreset", "handshake"} /\ drv'.seen = drv.seen
        /\ drv'.ret = drv.ret /\ drv'.why = drv.why
    <3>1. CASE BeginReset
      BY <1>1, <3>1, Zenon DEF BeginReset, Drivers
    <3>2. CASE EndReset
      BY <1>1, <3>2, Zenon DEF EndReset, Drivers
    <3> QED
      BY <1>4, <3>1, <3>2
  <2>2. drv.at = "check" /\ portreset' = portreset
    BY <1>4, Zenon DEF BeginReset, EndReset, StaleInv, HandOver
  <2> QED
    BY <2>1, <2>2, Zenon DEF StaleInv, ErrorMeansFailure
<1>5. CASE AwaitReset
  <2>1. drv.at = "check"
    BY <1>5, Zenon DEF AwaitReset, StaleInv
  <2>2. \/ drv' = [drv EXCEPT !.polls = 0, !.req = "none"]
        \/ drv' = [drv EXCEPT !.polls = @ + 1] /\ drv.req = "handshake"
    BY <1>5, Zenon DEF AwaitReset
  <2>3. /\ drv'.at = "check" /\ drv'.req \in {"none", "handshake"} /\ drv'.seen = drv.seen
    BY <1>1, <2>1, <2>2, Zenon DEF Drivers
  <2> QED
    BY <2>3, Zenon DEF StaleInv, ErrorMeansFailure
<1> QED
  BY <1>3, <1>4, <1>5, Zenon DEF Request

LEMMA AtKeepsStale ==
  ASSUME TypeOK, StaleInv, UNCHANGED portreset, ~portreset, drv'.req \notin {"unreset", "handshake"},
         drv'.req = "reset" => drv'.at = "check",
         drv'.req = "clear_reset" => drv'.at \in {"reset_done", "address"},
         drv'.seen = drv.seen, drv'.at # "creset_done",
         drv'.at = "return" /\ drv'.ret = "error" => drv'.why # "none"
  PROVE  StaleInv'
BY Zenon DEF StaleInv, ErrorMeansFailure

LEMMA HubScanStale ==
  ASSUME TypeOK, StaleInv, HubScan
  PROVE  StaleInv'
<1>1. drv \in Drivers /\ UNCHANGED portreset
  BY Zenon DEF TypeOK, HubScan, Scan, Change, EnableChange, ReEnable, OverCurrent, ResetChange,
     ResetChangeFails
<1>2. drv.req = "none" /\ drv.at \in {"scan", "change", "enable", "emi", "oc", "creset"}
  BY Zenon DEF HubScan, Scan, Change, EnableChange, ReEnable, OverCurrent, ResetChange,
     ResetChangeFails, At, StaleInv
<1>3. ~portreset
  BY <1>2, Zenon DEF StaleInv
<1>4. CASE Scan
  <2>1. ~PortStatus.creset
    BY <1>3, Zenon DEF PortStatus
  <2>2. drv'.at = "change" /\ drv'.req = "none" /\ drv'.seen = PortStatus
    BY <1>1, <1>2, <1>4, ZenonT(30) DEF Scan, Drivers
  <2> QED
    BY <1>1, <1>3, <2>1, <2>2, Zenon DEF StaleInv, ErrorMeansFailure
<1>5. CASE Change \/ EnableChange \/ ReEnable \/ OverCurrent
  <2>1. drv'.seen = drv.seen /\ drv'.req \in {"none", "clear_enable", "power"}
    BY <1>1, <1>2, <1>5, Zenon DEF Change, EnableChange, ReEnable, OverCurrent, Goto, Ask,
       Drivers
  <2>2. drv'.at \in {"status", "enable", "emi", "oc", "creset"}
    BY <1>1, <1>5, Zenon DEF Change, EnableChange, ReEnable, OverCurrent, Goto, Ask, Drivers
  <2> QED
    BY <1>1, <1>3, <2>1, <2>2, AtKeepsStale, Zenon
<1>6. CASE ResetChange
  <2>1. ~drv.seen.creset
    BY DEF StaleInv
  <2>2. drv' = [drv EXCEPT !.at = "return", !.ret = IF drv.found THEN "found" ELSE "none"]
    BY <1>6, <2>1, Zenon DEF ResetChange, Return
  <2>3. /\ drv'.at = "return" /\ drv'.ret # "error" /\ drv'.req = "none"
        /\ drv'.seen = drv.seen
    BY <1>1, <1>2, <2>2, Zenon DEF Drivers
  <2> QED
    BY <1>1, <1>3, <2>3, AtKeepsStale, Zenon
<1>7. CASE ResetChangeFails
  BY <1>7, Zenon DEF ResetChangeFails, At, StaleInv
<1> QED
  BY <1>4, <1>5, <1>6, <1>7, Zenon DEF HubScan

LEMMA FailStale ==
  ASSUME TypeOK, StaleInv, NEW w \in Reasons \ {"none"}, Fail(w), drv.req = "none"
  PROVE  StaleInv'
<1>1. drv \in Drivers
  BY DEF TypeOK
<1>2. /\ drv'.at = "return" /\ drv'.ret = "error" /\ drv'.why = w /\ drv'.req = "none"
      /\ drv'.seen = drv.seen
  BY <1>1, Zenon DEF Fail, Drivers
<1> QED
  BY <1>2, Zenon DEF StaleInv, ErrorMeansFailure

LEMMA ConnectChangeStale ==
  ASSUME TypeOK, StaleInv, ConnectChange
  PROVE  StaleInv'
<1>1. drv \in Drivers /\ UNCHANGED portreset
  BY Zenon DEF TypeOK, ConnectChange, ConnectStatus, Clear, Connect, PortReset, CheckReset,
     JudgeReset, Allocate, Describe, Address
<1>2. drv.req = "none"
  BY Zenon DEF ConnectChange, ConnectStatus, Clear, Connect, PortReset, CheckReset,
     JudgeReset, Allocate, Describe, Address, At
<1>3. ASSUME drv.at \notin {"port_reset", "check", "judge", "hung", "return"}
      PROVE  ~portreset
  <2>1. drv.req # "clear_reset"
    BY <1>2
  <2> QED
    BY <1>3, <2>1, Zenon DEF StaleInv
<1>4. ASSUME drv.at \in {"status", "clear", "connect", "reset_done", "describe", "address"},
             drv'.seen = drv.seen, drv'.req \in {"none", "clear_conn"},
             drv'.at \notin {"return", "creset_done"}
      PROVE  StaleInv'
  <2>1. ~portreset
    BY <1>3, <1>4
  <2> QED
    BY <1>1, <1>4, <2>1, AtKeepsStale, Zenon
<1>5. AfterChange \in {"enable", "oc"} /\ AfterReset \in {"reset_done", "address"}
  BY Zenon DEF AfterChange, AfterReset
<1>6. CASE ConnectStatus \/ Clear \/ Connect
  <2>1. CASE ConnectStatus
    <3>1. drv'.seen = drv.seen /\ drv'.at = "clear" /\ drv'.req = "none"
      BY <1>1, <1>2, <2>1, Zenon DEF ConnectStatus, Drivers
    <3> QED
      BY <1>4, <2>1, <3>1, Zenon DEF ConnectStatus, At
  <2>2. CASE Clear
    <3>1. drv'.seen = drv.seen /\ drv'.at = "connect" /\ drv'.req = "clear_conn"
      BY <1>1, <2>2, Zenon DEF Clear, Ask, Drivers
    <3> QED
      BY <1>4, <2>2, <3>1, Zenon DEF Clear, At
  <2>3. CASE Connect
    <3>1. \/ drv' = [drv EXCEPT !.at = AfterChange, !.found = FALSE]
          \/ drv' = [drv EXCEPT !.at = "port_reset", !.tries = 0]
      BY <2>3, Zenon DEF Connect
    <3>2. /\ drv'.seen = drv.seen /\ drv'.req = "none"
          /\ drv'.at = AfterChange \/ drv'.at = "port_reset"
      BY <1>1, <1>2, <3>1, Zenon DEF Drivers
    <3>3. drv'.at \notin {"return", "creset_done"}
      BY <1>5, <3>2
    <3> QED
      BY <1>4, <2>3, <3>2, <3>3, Zenon DEF Connect, At
  <2> QED
    BY <1>6, <2>1, <2>2, <2>3
<1>7. CASE PortReset \/ CheckReset
  <2>1. CASE PortReset
    <3>1. drv'.seen = drv.seen /\ drv'.at = "check" /\ drv'.req = "reset"
      BY <1>1, <2>1, Zenon DEF PortReset, Ask, Drivers
    <3> QED
      BY <3>1, Zenon DEF StaleInv, ErrorMeansFailure
  <2>2. CASE CheckReset
    <3>1. drv'.seen = drv.seen /\ drv'.at = "judge" /\ drv'.req = "none"
      BY <1>1, <1>2, <2>2, Zenon DEF CheckReset, Drivers
    <3> QED
      BY <3>1, Zenon DEF StaleInv, ErrorMeansFailure
  <2> QED
    BY <1>7, <2>1, <2>2
<1>8. CASE JudgeReset
  <2>1. CASE Fail("reset")
    BY <1>2, <2>1, FailStale DEF Reasons
  <2>2. CASE AcknowledgeReset
    <3>1. drv'.seen = drv.seen /\ drv'.at = AfterReset /\ drv'.req = "clear_reset"
      BY <1>1, <2>2, Zenon DEF AcknowledgeReset, Ask, Drivers
    <3>2. drv'.at \in {"reset_done", "address"} /\ drv'.at # "return" /\ drv'.at # "creset_done"
      BY <1>5, <3>1
    <3>3. drv'.req \notin {"reset", "unreset", "handshake"}
      BY <3>1
    <3> QED
      BY <3>1, <3>2, <3>3, Zenon DEF StaleInv, ErrorMeansFailure
  <2>3. CASE drv' = [drv EXCEPT !.at = "port_reset", !.tries = @ + 1]
    <3>1. drv'.seen = drv.seen /\ drv'.at = "port_reset" /\ drv'.req = "none"
      BY <1>1, <1>2, <2>3, Zenon DEF Drivers
    <3> QED
      BY <3>1, Zenon DEF StaleInv, ErrorMeansFailure
  <2> QED
    BY <1>8, <2>1, <2>2, <2>3, Zenon DEF JudgeReset, Retry
<1>9. CASE Allocate \/ Describe \/ Address
  <2>1. ASSUME NEW w \in Reasons \ {"none"}, Fail(w) PROVE StaleInv'
    BY <1>2, <2>1, FailStale
  <2>2. CASE Goto("describe") /\ drv.at = "reset_done"
    <3>1. drv'.seen = drv.seen /\ drv'.at = "describe" /\ drv'.req = "none"
      BY <1>1, <1>2, <2>2, Zenon DEF Goto, Drivers
    <3> QED
      BY <1>4, <2>2, <3>1, Zenon
  <2>3. CASE /\ drv' = [drv EXCEPT !.at = "port_reset", !.deep = TRUE, !.tries = 0]
             /\ drv.at = "describe"
    <3>1. drv'.seen = drv.seen /\ drv'.at = "port_reset" /\ drv'.req = "none"
      BY <1>1, <1>2, <2>3, Zenon DEF Drivers
    <3> QED
      BY <1>4, <2>3, <3>1, Zenon
  <2>4. CASE /\ drv' = [drv EXCEPT !.at = AfterChange, !.deep = FALSE, !.found = TRUE]
             /\ drv.at = "address"
    <3>1. drv'.seen = drv.seen /\ drv'.at = AfterChange /\ drv'.req = "none"
      BY <1>1, <1>2, <2>4, Zenon DEF Drivers
    <3>2. drv'.at \notin {"return", "creset_done"}
      BY <1>5, <3>1
    <3> QED
      BY <1>4, <2>4, <3>1, <3>2, Zenon
  <2>5. "full" \in Reasons \ {"none"} /\ "device" \in Reasons \ {"none"}
    BY DEF Reasons
  <2> QED
    BY <1>9, <2>1, <2>2, <2>3, <2>4, <2>5, Zenon DEF Allocate, Describe, Address, At
<1> QED
  BY <1>6, <1>7, <1>8, <1>9, Zenon DEF ConnectChange

LEMMA NextStale == ~Rescan /\ TypeOK /\ StaleInv /\ [Next]_vars => StaleInv'
<1> SUFFICES ASSUME ~Rescan, TypeOK, StaleInv, [Next]_vars PROVE StaleInv'
  OBVIOUS
<1>1. drv \in Drivers
  BY DEF TypeOK
<1>2. CASE World \/ UNCHANGED vars
  <2>1. UNCHANGED hub
    BY <1>2, Zenon DEF World, Attach, Detach, Detect, ResetEnds, Interference,
       OverCurrentChanges, Disturb, vars
  <2> QED
    BY <2>1, Zenon DEF hub, StaleInv, ErrorMeansFailure
<1>3. CASE Boot \/ BootFails
  <2>1. CASE Boot
    <3>1. drv'.seen = drv.seen /\ drv'.at = "power_on" /\ drv'.req = "none"
      BY <1>1, <2>1, Zenon DEF Boot, At, Goto, Drivers
    <3>2. ~portreset /\ UNCHANGED portreset
      BY <2>1, Zenon DEF Boot, At, StaleInv
    <3> QED
      BY <3>1, <3>2, AtKeepsStale, Zenon
  <2>2. CASE BootFails
    <3>1. drv'.seen = drv.seen /\ drv'.at = "hung" /\ drv'.req = "none"
      BY <1>1, <2>2, Zenon DEF BootFails, At, Goto, Drivers
    <3> QED
      BY <3>1, Zenon DEF StaleInv, ErrorMeansFailure
  <2> QED
    BY <1>3, <2>1, <2>2
<1>4. CASE PowerOn
  <2>1. drv'.seen = drv.seen /\ drv'.at = "scan" /\ drv'.req = "power"
    BY <1>1, <1>4, Zenon DEF PowerOn, Ask, Drivers
  <2>2. ~portreset /\ UNCHANGED portreset
    BY <1>4, Zenon DEF PowerOn, At, StaleInv
  <2> QED
    BY <2>1, <2>2, AtKeepsStale, Zenon
<1>5. CASE Caller
  <2>1. CASE drv.ret = "error"
    <3>1. Goto("hung") /\ drv.req = "none"
      BY <1>5, <2>1, Zenon DEF Caller, At
    <3>2. drv'.seen = drv.seen /\ drv'.at = "hung" /\ drv'.req = "none"
      BY <1>1, <3>1, Zenon DEF Goto, Drivers
    <3> QED
      BY <3>2, Zenon DEF StaleInv, ErrorMeansFailure
  <2>2. CASE drv.ret # "error"
    <3>1. Goto("boot") /\ drv.req = "none" /\ drv.at = "return" /\ UNCHANGED portreset
      BY <1>5, <2>2, Zenon DEF Caller, At
    <3>2. drv'.seen = drv.seen /\ drv'.at = "boot" /\ drv'.req = "none"
      BY <1>1, <3>1, Zenon DEF Goto, Drivers
    <3>3. ~portreset
      BY <2>2, <3>1, Zenon DEF StaleInv
    <3> QED
      BY <3>1, <3>2, <3>3, AtKeepsStale, Zenon
  <2> QED
    BY <2>1, <2>2
<1> QED
  BY <1>2, <1>3, <1>4, <1>5, RequestStale, HubScanStale, ConnectChangeStale, Zenon
     DEF Next, Driver

(* In main's loop, started with a clear portreset, usb_hub_scan returns an error - and main
   stops for good - only if the reset, the device table or the enumeration has failed. *)
THEOREM ErrorHasReason == ~Rescan /\ BssCleared /\ Spec => []ErrorMeansFailure
<1> SUFFICES ASSUME ~Rescan, BssCleared PROVE Spec => []ErrorMeansFailure
  OBVIOUS
<1>1. Init => StaleInv
  BY InitStale
<1>2. TypeOK /\ StaleInv /\ [Next]_vars => StaleInv'
  BY NextStale
<1>3. StaleInv => ErrorMeansFailure
  BY DEF StaleInv
<1> QED
  BY <1>1, <1>2, <1>3, InitType, NextType, PTL DEF Spec

-----------------------------------------------------------------------------
(* What a write to PORTSC may do to the enable bit, its change and the reset. *)
LEMMA WrittenPort ==
  ASSUME TypeOK, NEW w \in Ports
  PROVE  /\ Written(w).pe => port.pe /\ w.pr = "off"
         /\ Written(w).pec => port.pec
         /\ w.pr = "off" /\ port.pr = "off" => Written(w).pr = "off"
<1>1. port \in Ports
  BY DEF TypeOK
<1> DEFINE owned == port.po \/ ~w.po
           pe == port.pe /\ w.pe /\ w.pr = "off" /\ owned
           pec == port.pec /\ ~w.pec
           pr == IF w.pr # "off" THEN "on" ELSE IF port.pr = "off" THEN "off" ELSE "ending"
<1>2. Written(w).pe = pe /\ Written(w).pec = pec /\ Written(w).pr = pr
  BY <1>1, ZenonT(60) DEF Written, Ports
<1> QED
  BY <1>2

LEMMA QuietPort == Quiet.pr = "off" /\ ~Quiet.pe /\ ~Quiet.pec
BY Zenon DEF Quiet

(* A request writes PORTSC or leaves it, and leaves everything of the driver alone but the
   request itself. *)
LEMMA RequestEffect ==
  ASSUME TypeOK, Request
  PROVE  /\ drv'.at = drv.at /\ drv'.look = drv.look /\ drv'.seen = drv.seen
         /\ drv'.deep = drv.deep /\ drv'.why = drv.why /\ drv'.reg = drv.reg
         /\ drv'.req \in {"none", "unreset", "handshake"}
         /\ drv.req \in {"none", "power", "clear_reset"} => drv'.req = "none"
         /\ UNCHANGED <<tab, plug, reseat>>
<1>1. drv \in Drivers
  BY DEF TypeOK
<1> QED
  BY <1>1, ZenonT(60) DEF Request, SetPower, HandOver, BeginReset, EndReset, AwaitReset,
     ClearConnection, ClearEnable, ClearReset, Serve, Drivers, world

LEMMA RequestPort ==
  ASSUME TypeOK, Request
  PROVE  /\ port' = port \/ \E w \in Ports : port' = Written(w)
         /\ drv.req # "none"
         /\ drv.req = "clear_reset" => port' = Written(drv.reg)
         /\ drv.req = "power" =>
              port' = port \/ \E w \in Ports : w.pr = drv.reg.pr /\ port' = Written(w)
<1>1. drv.reg \in Ports /\ NoChange(drv.reg) \in Ports
  BY NoChangeType, Zenon DEF TypeOK, Drivers
<1>2. NoChange(drv.reg).pr = drv.reg.pr
  BY <1>1, Zenon DEF NoChange, Ports
<1> DEFINE w1 == [NoChange(drv.reg) EXCEPT !.pp = TRUE]
           w2 == [NoChange(drv.reg) EXCEPT !.po = TRUE]
           w3 == [NoChange(drv.reg) EXCEPT !.pr = "on", !.pe = FALSE]
           w4 == [NoChange(drv.reg) EXCEPT !.pr = "off", !.pe = FALSE]
           w5 == [NoChange(drv.reg) EXCEPT !.csc = TRUE]
           w6 == [NoChange(drv.reg) EXCEPT !.pe = TRUE]
<1>3. /\ w1 \in Ports /\ w2 \in Ports /\ w3 \in Ports /\ w4 \in Ports /\ w5 \in Ports
      /\ w6 \in Ports /\ w1.pr = drv.reg.pr
  <2>1. w1 \in Ports /\ w2 \in Ports /\ w5 \in Ports /\ w6 \in Ports
    BY <1>1, Zenon DEF Ports
  <2>2. w3 \in Ports /\ w4 \in Ports
    BY <1>1, Zenon DEF Ports
  <2>3. w1.pr = drv.reg.pr
    BY <1>1, <1>2, Zenon DEF Ports
  <2> QED
    BY <2>1, <2>2, <2>3
<1>4. CASE SetPower
  <2>1. drv.req = "power" /\ (port' = port \/ port' = Written(w1))
    BY <1>4, Zenon DEF SetPower, Serve, world
  <2> HIDE DEF w1
  <2> QED
    BY <1>3, <2>1
<1>5. CASE HandOver
  <2>1. drv.req = "reset" /\ port' = Written(w2)
    BY <1>5, Zenon DEF HandOver, Serve
  <2> HIDE DEF w2
  <2> QED
    BY <1>3, <2>1
<1>6. CASE BeginReset
  <2>1. drv.req = "reset" /\ port' = Written(w3)
    BY <1>6, Zenon DEF BeginReset
  <2> HIDE DEF w3
  <2> QED
    BY <1>3, <2>1
<1>7. CASE EndReset
  <2>1. drv.req = "unreset" /\ port' = Written(w4)
    BY <1>7, Zenon DEF EndReset
  <2> HIDE DEF w4
  <2> QED
    BY <1>3, <2>1
<1>8. CASE AwaitReset
  <2>1. drv.req = "handshake" /\ port' = port
    BY <1>8, Zenon DEF AwaitReset, world
  <2> QED
    BY <2>1
<1>9. CASE ClearConnection
  <2>1. drv.req = "clear_conn" /\ port' = Written(w5)
    BY <1>9, Zenon DEF ClearConnection, Serve
  <2> HIDE DEF w5
  <2> QED
    BY <1>3, <2>1
<1>10. CASE ClearEnable
  <2>1. drv.req = "clear_enable" /\ port' = Written(w6)
    BY <1>10, Zenon DEF ClearEnable, Serve
  <2> HIDE DEF w6
  <2> QED
    BY <1>3, <2>1
<1>11. CASE ClearReset
  <2>1. drv.req = "clear_reset" /\ port' = Written(drv.reg)
    BY <1>11, Zenon DEF ClearReset, Serve
  <2> QED
    BY <1>1, <2>1
<1> QED
  BY <1>4, <1>5, <1>6, <1>7, <1>8, <1>9, <1>10, <1>11, Zenon DEF Request

(* The world outside enables a port only at the end of a reset. *)
LEMMA WorldPort ==
  ASSUME TypeOK, World
  PROVE  /\ UNCHANGED hub
         /\ port'.pe => port.pe \/ (port.pr = "ending" /\ port'.pr = "off" /\ plug = "high")
         /\ port'.pe => plug' = plug \/ plug = "none"
         /\ port'.pec => port.pec \/ port.pe
         /\ port.pr = "off" => port'.pr = "off" /\ (reseat' \/ (reseat' = reseat /\ plug' \in {plug, "none"}) \/ plug' = "none")
         /\ port'.pr # port.pr => port'.pr = "off"
<1>1. port \in Ports
  BY DEF TypeOK
<1> QED
  BY <1>1, ZenonT(60) DEF World, Attach, Detach, Detect, ResetEnds, Interference,
     OverCurrentChanges, Disturb, Ports

-----------------------------------------------------------------------------
(* A device the hub driver gives a record is a high-speed one.             *)

AfterJudge == {"reset_done", "describe", "address"}

LEMMA InitSpeed == Init => SpeedInv
<1> SUFFICES ASSUME Init PROVE SpeedInv
  OBVIOUS
<1>1. drv.at = "boot" /\ port = Quiet
  BY Zenon DEF Init
<1> QED
  BY <1>1, QuietPort DEF SpeedInv

LEMMA RequestSpeed ==
  ASSUME TypeOK, SpeedInv, Request
  PROVE  SpeedInv'
<1>1. drv.reg \in Ports
  BY Zenon DEF TypeOK, Drivers
<1>2. port'.pe => port'.pr = "off" /\ plug' = "high"
  <2>1. CASE port' = port
    BY <2>1, RequestEffect DEF SpeedInv
  <2>2. CASE \E w \in Ports : port' = Written(w)
    BY <2>2, RequestEffect, WrittenPort DEF SpeedInv
  <2> QED
    BY <2>1, <2>2, RequestPort
<1>3. ASSUME Settled PROVE Settled'
  <2>1. drv.req = "clear_reset"
    BY <1>3, RequestPort DEF Settled
  <2>2. port'.pr = "off"
    BY <1>1, <1>3, <2>1, RequestPort, WrittenPort DEF Settled
  <2>3. drv'.req = "none" /\ reseat' = reseat /\ plug' = plug
    BY <2>1, RequestEffect
  <2> QED
    BY <1>3, <2>2, <2>3, Zenon DEF Settled
<1>4. drv'.at = drv.at /\ drv'.look = drv.look
  BY RequestEffect
<1> QED
  BY <1>2, <1>3, <1>4, Zenon DEF SpeedInv

LEMMA WorldSpeed ==
  ASSUME TypeOK, SpeedInv, World
  PROVE  SpeedInv'
<1>1. UNCHANGED hub
  BY WorldPort
<1>2. drv' = drv
  BY <1>1, Zenon DEF hub
<1>3. port'.pe => port'.pr = "off" /\ plug' = "high"
  <2>1. ASSUME port'.pe, port.pe PROVE port'.pr = "off" /\ plug' = "high"
    BY <2>1, WorldPort DEF SpeedInv
  <2>2. ASSUME port'.pe, ~port.pe PROVE port'.pr = "off" /\ plug' = "high"
    BY <2>2, WorldPort
  <2> QED
    BY <2>1, <2>2
<1>4. ASSUME Settled PROVE Settled'
  BY <1>2, <1>4, WorldPort, Zenon DEF Settled
<1> QED
  BY <1>2, <1>3, <1>4, Zenon DEF SpeedInv

(* The steps of the driver that leave the port alone and do not come from hub_port_reset. *)
LEMMA HubScanPlace ==
  ASSUME TypeOK, HubScan \/ Caller \/ PowerOn \/ BootFails
  PROVE  /\ UNCHANGED <<port, plug, reseat>>
         /\ drv'.at \notin AfterJudge \cup {"judge"}
<1>1. drv \in Drivers
  BY DEF TypeOK
<1>2. UNCHANGED <<port, plug, reseat>>
  BY Zenon DEF HubScan, Scan, Change, EnableChange, ReEnable, OverCurrent, ResetChange,
     ResetChangeFails, Caller, PowerOn, BootFails, world
<1>3. CASE HubScan
  <2>1. AfterChange \in {"enable", "oc"}
    BY Zenon DEF AfterChange
  <2>2. drv'.at \in {"change", "status", "enable", "emi", "oc", "creset", "creset_done", "return"}
    BY <1>1, <1>3, <2>1, ZenonT(60) DEF HubScan, Scan, Change, EnableChange, ReEnable,
       OverCurrent, ResetChange, ResetChangeFails, Goto, Ask, Return, Fail, Drivers
  <2> QED
    BY <1>2, <2>2 DEF AfterJudge
<1>4. CASE Caller \/ PowerOn \/ BootFails
  <2>1. drv'.at \in {"scan", "hung", "boot"}
    BY <1>1, <1>4, ZenonT(30) DEF Caller, PowerOn, BootFails, Goto, Ask, Drivers
  <2> QED
    BY <1>2, <2>1 DEF AfterJudge
<1> QED
  BY <1>3, <1>4

LEMMA ConnectChangeSpeed ==
  ASSUME TypeOK, SpeedInv, ConnectChange
  PROVE  SpeedInv'
<1>1. drv \in Drivers /\ drv.req = "none"
  BY Zenon DEF TypeOK, ConnectChange, ConnectStatus, Clear, Connect, PortReset, CheckReset,
     JudgeReset, Allocate, Describe, Address, At
<1>2. UNCHANGED <<port, plug, reseat>>
  BY Zenon DEF ConnectChange, ConnectStatus, Clear, Connect, PortReset, CheckReset,
     JudgeReset, Allocate, Describe, Address, world
<1>3. port'.pe => port'.pr = "off" /\ plug' = "high"
  BY <1>2, Zenon DEF SpeedInv
<1>4. AfterChange \in {"enable", "oc"} /\ AfterReset \in {"reset_done", "address"}
  BY Zenon DEF AfterChange, AfterReset
<1>5. ASSUME drv'.at \notin AfterJudge \cup {"judge"} PROVE SpeedInv'
  BY <1>3, <1>5 DEF SpeedInv, AfterJudge
<1>6. CASE ConnectStatus \/ Clear \/ Connect \/ PortReset \/ Describe \/ Address
  <2>1. drv'.at \in {"clear", "connect", "enable", "oc", "port_reset", "check", "return"}
    BY <1>1, <1>4, <1>6, ZenonT(60) DEF ConnectStatus, Clear, Connect, PortReset, Describe,
       Address, Goto, Ask, Fail, Drivers
  <2> QED
    BY <1>5, <2>1 DEF AfterJudge
<1>7. CASE CheckReset
  <2>1. drv'.at = "judge" /\ drv'.req = "none" /\ drv'.look = PortStatus
    BY <1>1, <1>7, ZenonT(30) DEF CheckReset, Drivers
  <2>2. PortStatus.pe = port.pe
    BY Zenon DEF PortStatus
  <2>3. drv'.look.pe => Settled'
    BY <1>2, <2>1, <2>2, Zenon DEF Settled, SpeedInv
  <2> QED
    BY <1>3, <2>1, <2>3 DEF SpeedInv
<1>8. CASE JudgeReset
  <2>1. CASE Fail("reset") \/ Retry
    <3>1. drv'.at \in {"return", "port_reset"}
      BY <1>1, <2>1, ZenonT(30) DEF Fail, Retry, Drivers
    <3> QED
      BY <1>5, <3>1 DEF AfterJudge
  <2>2. CASE drv.look.pe /\ AcknowledgeReset
    <3>1. Settled
      BY <1>8, <2>2, Zenon DEF JudgeReset, At, SpeedInv
    <3>2. drv'.at = AfterReset /\ drv'.req = "clear_reset" /\ drv'.reg = port
      BY <1>1, <2>2, ZenonT(30) DEF AcknowledgeReset, Ask, Drivers
    <3>3. Settled'
      BY <1>2, <3>1, <3>2, Zenon DEF Settled
    <3> QED
      BY <1>3, <1>4, <3>2, <3>3 DEF SpeedInv
  <2> QED
    BY <1>8, <2>1, <2>2, Zenon DEF JudgeReset, IsEnabled
<1>9. CASE Allocate
  <2>1. CASE Fail("full")
    <3>1. drv'.at = "return"
      BY <1>1, <2>1, Zenon DEF Fail, Drivers
    <3> QED
      BY <1>5, <3>1 DEF AfterJudge
  <2>2. CASE Goto("describe")
    <3>1. drv'.at = "describe" /\ drv'.req = "none"
      BY <1>1, <2>2, Zenon DEF Goto, Drivers
    <3>2. Settled
      BY <1>9, Zenon DEF Allocate, At, SpeedInv
    <3>3. Settled'
      BY <1>2, <3>1, <3>2, Zenon DEF Settled
    <3> QED
      BY <1>3, <3>1, <3>3 DEF SpeedInv
  <2> QED
    BY <1>9, <2>1, <2>2, Zenon DEF Allocate
<1> QED
  BY <1>6, <1>7, <1>8, <1>9, Zenon DEF ConnectChange

LEMMA NextSpeed == TypeOK /\ SpeedInv /\ [Next]_vars => SpeedInv'
<1> SUFFICES ASSUME TypeOK, SpeedInv, [Next]_vars PROVE SpeedInv'
  OBVIOUS
<1>1. CASE UNCHANGED vars
  BY <1>1, Zenon DEF vars, hub, world, SpeedInv, Settled
<1>2. CASE HubScan \/ Caller \/ PowerOn \/ BootFails
  <2>1. port'.pe => port'.pr = "off" /\ plug' = "high"
    BY <1>2, HubScanPlace, Zenon DEF SpeedInv
  <2> QED
    BY <1>2, <2>1, HubScanPlace DEF SpeedInv, AfterJudge
<1>3. CASE Boot
  <2>1. drv'.at = "power_on"
    BY <1>3, Zenon DEF Boot, Goto, TypeOK, Drivers
  <2>2. ~port'.pe
    BY <1>3, QuietPort, Zenon DEF Boot
  <2> QED
    BY <2>1, <2>2 DEF SpeedInv
<1> QED
  BY <1>1, <1>2, <1>3, RequestSpeed, WorldSpeed, ConnectChangeSpeed, Zenon DEF Next, Driver

LEMMA SpeedHolds == SpeedInv => SpeedRight
BY Zenon DEF SpeedInv, SpeedRight, Settled

(* A device that went through hub_port_reset and is about to be given a record or an address
   is a high-speed one, whether main starts over after each scan or a caller scans again. *)
THEOREM HighSpeedOnly == Spec => []SpeedRight
BY InitType, NextType, InitSpeed, NextSpeed, SpeedHolds, PTL DEF Spec

-----------------------------------------------------------------------------
(* In main's loop the device table never runs out.                         *)

LEMMA InitFull == Init => FullInv
<1> SUFFICES ASSUME Init PROVE FullInv
  OBVIOUS
<1>1. drv.at = "boot" /\ drv.seen = NoStatus /\ drv.why = "none"
  BY Zenon DEF Init
<1>2. ~NoStatus.pec
  BY Zenon DEF NoStatus
<1> QED
  BY <1>1, <1>2 DEF FullInv, TableNeverFull

LEMMA RequestFull ==
  ASSUME TypeOK, FullInv, Request
  PROVE  FullInv'
<1>1. /\ drv'.at = drv.at /\ drv'.seen = drv.seen /\ drv'.deep = drv.deep
      /\ drv'.why = drv.why /\ drv'.reg = drv.reg /\ tab' = tab
  BY RequestEffect
<1>2. ASSUME drv.at \in {"power_on", "scan"}
      PROVE  /\ port'.pr = "off" /\ ~port'.pe /\ ~port'.pec /\ drv'.req = "none"
  <2>1. drv.req = "power" /\ drv.reg.pr = "off"
    BY <1>2, RequestPort DEF FullInv
  <2>2. port.pr = "off" /\ ~port.pe /\ ~port.pec
    BY <1>2 DEF FullInv
  <2>3. CASE port' = port
    BY <2>1, <2>2, <2>3, RequestEffect
  <2>4. CASE \E w \in Ports : w.pr = drv.reg.pr /\ port' = Written(w)
    BY <2>1, <2>2, <2>4, RequestEffect, WrittenPort
  <2> QED
    BY <2>1, <2>3, <2>4, RequestPort
<1> QED
  BY <1>1, <1>2 DEF FullInv, TableNeverFull

LEMMA WorldFull ==
  ASSUME TypeOK, FullInv, World
  PROVE  FullInv'
<1>1. UNCHANGED hub
  BY WorldPort
<1>2. drv' = drv /\ tab' = tab
  BY <1>1, Zenon DEF hub
<1>3. ASSUME drv.at \in {"power_on", "scan"}
      PROVE  port'.pr = "off" /\ ~port'.pe /\ ~port'.pec
  BY <1>3, WorldPort DEF FullInv
<1> QED
  BY <1>2, <1>3 DEF FullInv, TableNeverFull

LEMMA HubScanFull ==
  ASSUME TypeOK, FullInv, HubScan
  PROVE  FullInv'
<1>1. drv \in Drivers
  BY DEF TypeOK
<1>2. AfterChange \in {"enable", "oc"}
  BY Zenon DEF AfterChange
<1>3. CASE Scan
  <2>1. drv'.at = "change" /\ drv'.seen = PortStatus /\ ~drv'.deep /\ drv'.why = "none" /\ tab' = tab
    BY <1>1, <1>3, ZenonT(30) DEF Scan, Drivers
  <2>2. PortStatus.pec = port.pec
    BY Zenon DEF PortStatus
  <2>3. ~port.pec /\ tab.ndev = 1
    BY <1>3, Zenon DEF Scan, At, FullInv
  <2> QED
    BY <2>1, <2>2, <2>3 DEF FullInv, TableNeverFull
<1>4. CASE Change
  <2>1. /\ drv'.at \in {"status", "enable"} /\ drv'.seen = drv.seen /\ drv'.deep = drv.deep
        /\ drv'.why = drv.why /\ tab' = tab
    BY <1>1, <1>4, ZenonT(30) DEF Change, Goto, Drivers
  <2>2. drv.at = "change"
    BY <1>4, Zenon DEF Change, At
  <2> QED
    BY <2>1, <2>2 DEF FullInv, TableNeverFull
<1>5. CASE EnableChange \/ OverCurrent \/ ResetChange \/ ResetChangeFails
  <2>1. ~drv.seen.pec
    BY DEF FullInv
  <2>2. /\ drv'.at \in {"oc", "creset", "creset_done", "return"} /\ drv'.seen = drv.seen
        /\ drv'.why = drv.why /\ tab' = tab
    BY <1>1, <1>5, <2>1, ZenonT(60) DEF EnableChange, OverCurrent, ResetChange,
       ResetChangeFails, Goto, Ask, Return, Fail, Drivers
  <2> QED
    BY <2>2 DEF FullInv, TableNeverFull
<1>6. ~ReEnable
  BY Zenon DEF ReEnable, At, FullInv
<1> QED
  BY <1>3, <1>4, <1>5, <1>6, Zenon DEF HubScan

LEMMA ConnectChangeFull ==
  ASSUME TypeOK, FullInv, ConnectChange
  PROVE  FullInv'
<1>1. drv \in Drivers
  BY DEF TypeOK
<1>2. AfterChange \in {"enable", "oc"}
  BY Zenon DEF AfterChange
<1>3. CASE ConnectStatus \/ Clear
  <2>1. /\ drv'.at \in {"clear", "connect"} /\ drv'.seen = drv.seen /\ drv'.deep = drv.deep
        /\ drv'.why = drv.why /\ tab' = tab
    BY <1>1, <1>3, ZenonT(30) DEF ConnectStatus, Clear, Ask, Drivers
  <2>2. drv.at \in {"status", "clear"}
    BY <1>3, Zenon DEF ConnectStatus, Clear, At
  <2> QED
    BY <2>1, <2>2 DEF FullInv, TableNeverFull
<1>4. CASE Connect
  <2>1. /\ drv'.at \in {"enable", "oc", "port_reset"} /\ drv'.seen = drv.seen
        /\ drv'.deep = drv.deep /\ drv'.why = drv.why /\ tab' = tab
    BY <1>1, <1>2, <1>4, ZenonT(30) DEF Connect, Drivers
  <2>2. drv.at = "connect"
    BY <1>4, Zenon DEF Connect, At
  <2> QED
    BY <2>1, <2>2 DEF FullInv, TableNeverFull
<1>5. CASE PortReset \/ CheckReset
  <2>1. /\ drv'.at \in {"check", "judge"} /\ drv'.seen = drv.seen
        /\ drv'.deep = drv.deep /\ drv'.why = drv.why /\ tab' = tab
    BY <1>1, <1>5, ZenonT(30) DEF PortReset, CheckReset, Ask, Drivers
  <2>2. drv.at \in {"port_reset", "check"}
    BY <1>5, Zenon DEF PortReset, CheckReset, At
  <2> QED
    BY <2>1, <2>2 DEF FullInv, TableNeverFull
<1>6. ASSUME NEW w \in Reasons \ {"full"}, Fail(w), tab' = tab PROVE FullInv'
  <2>1. drv'.at = "return" /\ drv'.seen = drv.seen /\ drv'.why = w
    BY <1>1, <1>6, Zenon DEF Fail, Drivers
  <2> QED
    BY <1>6, <2>1 DEF FullInv, TableNeverFull
<1>7. CASE JudgeReset
  <2>1. drv.at = "judge" /\ tab' = tab
    BY <1>7, Zenon DEF JudgeReset, At
  <2>2. CASE Fail("reset")
    BY <1>6, <2>1, <2>2 DEF Reasons
  <2>3. CASE AcknowledgeReset
    <3>1. /\ drv'.at = AfterReset /\ drv'.seen = drv.seen
          /\ drv'.deep = drv.deep /\ drv'.why = drv.why
      BY <1>1, <2>3, ZenonT(30) DEF AcknowledgeReset, Ask, Drivers
    <3>2. AfterReset = "address" \/ (AfterReset = "reset_done" /\ ~drv.deep)
      BY Zenon DEF AfterReset
    <3> QED
      BY <2>1, <3>1, <3>2 DEF FullInv, TableNeverFull
  <2>4. CASE drv' = [drv EXCEPT !.at = "port_reset", !.tries = @ + 1]
    <3>1. /\ drv'.at = "port_reset" /\ drv'.seen = drv.seen
          /\ drv'.deep = drv.deep /\ drv'.why = drv.why
      BY <1>1, <2>4, Zenon DEF Drivers
    <3> QED
      BY <2>1, <3>1 DEF FullInv, TableNeverFull
  <2> QED
    BY <1>7, <2>2, <2>3, <2>4, Zenon DEF JudgeReset, Retry
<1>8. CASE Allocate
  <2>1. drv.at = "reset_done" /\ tab.ndev = 1
    BY <1>8, Zenon DEF Allocate, At, FullInv
  <2>2. tab.ndev # MaxDevice
    BY <2>1, RootHubAssumption, SMT
  <2>3. Goto("describe")
    BY <1>8, <2>2, Zenon DEF Allocate
  <2>4. drv'.at = "describe" /\ drv'.seen = drv.seen /\ drv'.why = drv.why
    BY <1>1, <2>3, Zenon DEF Goto, Drivers
  <2> QED
    BY <2>4 DEF FullInv, TableNeverFull
<1>9. CASE Describe \/ Address
  <2>1. tab' = tab
    BY <1>9, Zenon DEF Describe, Address
  <2>2. CASE Fail("device")
    BY <1>6, <2>1, <2>2 DEF Reasons
  <2>3. CASE drv' = [drv EXCEPT !.at = "port_reset", !.deep = TRUE, !.tries = 0]
    <3>1. drv'.at = "port_reset" /\ drv'.seen = drv.seen /\ drv'.deep /\ drv'.why = drv.why
      BY <1>1, <2>3, Zenon DEF Drivers
    <3> QED
      BY <3>1 DEF FullInv, TableNeverFull
  <2>4. CASE drv' = [drv EXCEPT !.at = AfterChange, !.deep = FALSE, !.found = TRUE]
    <3>1. drv'.at \in {"enable", "oc"} /\ drv'.seen = drv.seen /\ drv'.why = drv.why
      BY <1>1, <1>2, <2>4, Zenon DEF Drivers
    <3> QED
      BY <3>1 DEF FullInv, TableNeverFull
  <2> QED
    BY <1>9, <2>2, <2>3, <2>4, Zenon DEF Describe, Address
<1> QED
  BY <1>3, <1>4, <1>5, <1>7, <1>8, <1>9, Zenon DEF ConnectChange

LEMMA NextFull == ~Rescan /\ TypeOK /\ FullInv /\ [Next]_vars => FullInv'
<1> SUFFICES ASSUME ~Rescan, TypeOK, FullInv, [Next]_vars PROVE FullInv'
  OBVIOUS
<1>1. drv \in Drivers
  BY DEF TypeOK
<1>2. CASE UNCHANGED vars
  BY <1>2, Zenon DEF vars, hub, world, FullInv, TableNeverFull
<1>3. CASE Boot
  <2>1. drv'.at = "power_on" /\ drv'.req = "none" /\ drv'.seen = drv.seen /\ drv'.why = drv.why
    BY <1>1, <1>3, Zenon DEF Boot, At, Goto, Drivers
  <2>2. tab'.ndev = 1 /\ port' = Quiet
    <3>1. tab' = [child |-> FALSE, ndev |-> 1] /\ port' = Quiet
      BY <1>3, Zenon DEF Boot, FreshTab
    <3> QED
      BY <3>1
  <2> QED
    BY <2>1, <2>2, QuietPort DEF FullInv, TableNeverFull
<1>4. CASE PowerOn
  <2>1. /\ drv'.at = "scan" /\ drv'.req = "power" /\ drv'.reg = port /\ drv'.seen = drv.seen
        /\ drv'.why = drv.why
    BY <1>1, <1>4, ZenonT(30) DEF PowerOn, Ask, Drivers
  <2>2. drv.at = "power_on" /\ tab' = tab /\ port' = port
    BY <1>4, Zenon DEF PowerOn, At, world
  <2> QED
    BY <2>1, <2>2 DEF FullInv, TableNeverFull
<1>5. CASE Caller \/ BootFails
  <2>1. drv'.at \in {"hung", "boot"} /\ drv'.seen = drv.seen /\ drv'.why = drv.why
    BY <1>1, <1>5, ZenonT(30) DEF Caller, BootFails, Goto, Drivers
  <2> QED
    BY <2>1 DEF FullInv, TableNeverFull
<1> QED
  BY <1>2, <1>3, <1>4, <1>5, RequestFull, WorldFull, HubScanFull, ConnectChangeFull, Zenon
     DEF Next, Driver

(* In main's loop there is a record for every device: the root hub has the one record taken,
   and one scan takes at most one, whatever the port does. *)
THEOREM TableSuffices == ~Rescan /\ Spec => []TableNeverFull
<1> SUFFICES ASSUME ~Rescan PROVE Spec => []TableNeverFull
  OBVIOUS
<1>1. TypeOK /\ FullInv /\ [Next]_vars => FullInv'
  BY NextFull
<1>2. FullInv => TableNeverFull
  BY DEF FullInv
<1> QED
  BY <1>1, <1>2, InitType, NextType, InitFull, PTL DEF Spec

-----------------------------------------------------------------------------
(* How long a scan takes.  Every place of usb_hub_scan has a bound on the steps of the
   driver that are left: a request takes one or, to reset the port, Polls + 2; each try of
   hub_port_reset takes Attempt, and there are two rounds of MAX_TRIES for each of the at most
   two devices a scan enumerates.                                                          *)

Attempt == Polls + 5
AllTries == MaxTries * Attempt
TriesAfter(t) == (MaxTries - 1 - t) * Attempt
OneDevice == 2 * AllTries + 9

RequestLeft(r, polls) ==
  IF r = "handshake" THEN Polls - polls
  ELSE [none |-> 0, power |-> 1, reset |-> Polls + 2, unreset |-> Polls + 1, clear_conn |-> 1,
        clear_enable |-> 1, clear_reset |-> 1][r]

(* What follows a connection change: the enable change, unless this was the second one. *)
AfterLeft(again) == IF again THEN 5 ELSE OneDevice + 8

(* When hub_port_reset judges its last try, of the second reset (deep) or of the first. *)
JudgeLeft(a, deep) == a + IF deep THEN 3 ELSE AllTries + 6

(* At each place, by what follows a connection change and by what JudgeLeft says.   *)
PlaceLeft(p, a, j) ==
  [boot |-> 0, power_on |-> 0, return |-> 0, hung |-> 0,
   scan |-> 2 * OneDevice + 10, change |-> 2 * OneDevice + 9,
   status |-> a + OneDevice, clear |-> a + 2 * AllTries + 8, connect |-> a + 2 * AllTries + 6,
   port_reset |-> j + Polls + 4, check |-> j + 1, judge |-> j,
   reset_done |-> a + AllTries + 4, describe |-> a + AllTries + 3, address |-> a + 1,
   enable |-> OneDevice + 8, emi |-> OneDevice + 6, oc |-> 5, creset |-> 3,
   creset_done |-> 1][p]

FromJudge(d) == JudgeLeft(AfterLeft(d.again), d.deep) + TriesAfter(d.tries)

LeftOf(d) ==
  PlaceLeft(d.at, AfterLeft(d.again), FromJudge(d)) + RequestLeft(d.req, d.polls)

ScanLeft == LeftOf(drv)

Scanning == drv.at \notin {"boot", "power_on", "return", "hung"}

(* A step of the driver in a scan brings its end nearer; nothing that happens to the port
   takes it further away. *)
Progress ==
  /\ Scanning /\ Driver => ScanLeft' < ScanLeft
  /\ World => ScanLeft' = ScanLeft

LEMMA TriesLeft ==
  /\ Attempt \in Nat /\ Attempt = Polls + 5 /\ AllTries \in Nat /\ OneDevice \in Nat
  /\ OneDevice = 2 * AllTries + 9
  /\ TriesAfter(0) + Attempt = AllTries
  /\ \A t \in 0 .. (MaxTries - 1) :
       /\ TriesAfter(t) \in Nat
       /\ t + 1 < MaxTries => TriesAfter(t + 1) + Attempt = TriesAfter(t)
<1>1. Attempt \in Nat /\ MaxTries \in Nat \ {0} /\ Attempt = Polls + 5
  BY RootHubAssumption DEF Attempt
<1>2. \A m, n \in Int : (m + 1) * n = m * n + n
  BY SMT
<1>3. \A m, n \in Nat : m * n \in Nat
  BY SMT
<1>4. AllTries \in Nat
  BY <1>1, <1>3 DEF AllTries
<1>5. TriesAfter(0) + Attempt = AllTries
  <2>1. ((MaxTries - 1) + 1) * Attempt = (MaxTries - 1) * Attempt + Attempt
    BY <1>1, <1>2
  <2>2. (MaxTries - 1) + 1 = MaxTries /\ MaxTries - 1 - 0 = MaxTries - 1
    BY <1>1
  <2> QED
    BY <2>1, <2>2 DEF TriesAfter, AllTries
<1>6. ASSUME NEW t \in 0 .. (MaxTries - 1), t + 1 < MaxTries
      PROVE  TriesAfter(t + 1) + Attempt = TriesAfter(t)
  <2>1. ((MaxTries - 1 - (t + 1)) + 1) * Attempt
          = (MaxTries - 1 - (t + 1)) * Attempt + Attempt
    BY <1>1, <1>2
  <2>2. (MaxTries - 1 - (t + 1)) + 1 = MaxTries - 1 - t
    BY <1>1
  <2> QED
    BY <2>1, <2>2 DEF TriesAfter
<1>7. ASSUME NEW t \in 0 .. (MaxTries - 1) PROVE TriesAfter(t) \in Nat
  <2>1. MaxTries - 1 - t \in Nat
    BY <1>1
  <2> QED
    BY <1>1, <1>3, <2>1 DEF TriesAfter
<1>8. OneDevice \in Nat /\ OneDevice = 2 * AllTries + 9
  BY <1>4 DEF OneDevice
<1> QED
  BY <1>1, <1>4, <1>5, <1>6, <1>7, <1>8

LEMMA PlaceIs ==
  ASSUME NEW a, NEW j
  PROVE  /\ PlaceLeft("scan", a, j) = 2 * OneDevice + 10
         /\ PlaceLeft("change", a, j) = 2 * OneDevice + 9
         /\ PlaceLeft("status", a, j) = a + OneDevice
         /\ PlaceLeft("clear", a, j) = a + 2 * AllTries + 8
         /\ PlaceLeft("connect", a, j) = a + 2 * AllTries + 6
         /\ PlaceLeft("port_reset", a, j) = j + Polls + 4
         /\ PlaceLeft("check", a, j) = j + 1
         /\ PlaceLeft("judge", a, j) = j
         /\ PlaceLeft("reset_done", a, j) = a + AllTries + 4
         /\ PlaceLeft("describe", a, j) = a + AllTries + 3
         /\ PlaceLeft("address", a, j) = a + 1
         /\ PlaceLeft("enable", a, j) = OneDevice + 8
         /\ PlaceLeft("emi", a, j) = OneDevice + 6
         /\ PlaceLeft("oc", a, j) = 5
         /\ PlaceLeft("creset", a, j) = 3
         /\ PlaceLeft("creset_done", a, j) = 1
         /\ PlaceLeft("return", a, j) = 0
BY SMT DEF PlaceLeft

LEMMA RequestIs ==
  ASSUME NEW p
  PROVE  /\ RequestLeft("none", p) = 0 /\ RequestLeft("power", p) = 1
         /\ RequestLeft("reset", p) = Polls + 2
         /\ RequestLeft("clear_conn", p) = 1 /\ RequestLeft("clear_enable", p) = 1
         /\ RequestLeft("clear_reset", p) = 1
BY SMT DEF RequestLeft

(* The two parts of the bound that depend on how often hub_port_reset has been called. *)
LEMMA LeftParts ==
  ASSUME NEW d \in Drivers
  PROVE  /\ AfterLeft(d.again) \in Nat
         /\ 5 <= AfterLeft(d.again) /\ AfterLeft(d.again) <= OneDevice + 8
         /\ d.again => AfterLeft(d.again) = 5
         /\ ~d.again => AfterLeft(d.again) = OneDevice + 8
         /\ \A a \in Nat : /\ d.deep => JudgeLeft(a, d.deep) = a + 3
                           /\ ~d.deep => JudgeLeft(a, d.deep) = a + AllTries + 6
                           /\ JudgeLeft(a, d.deep) \in Nat
         /\ TriesAfter(d.tries) \in Nat
         /\ RequestLeft(d.req, d.polls) \in Nat
<1>1. /\ d.again \in BOOLEAN /\ d.deep \in BOOLEAN /\ d.tries \in 0 .. (MaxTries - 1)
      /\ d.polls \in 0 .. (Polls - 1) /\ d.req \in Requests
  BY Zenon DEF Drivers
<1>2. /\ d.again => AfterLeft(d.again) = 5
      /\ ~d.again => AfterLeft(d.again) = OneDevice + 8
  BY Zenon DEF AfterLeft
<1>3. ASSUME NEW a \in Nat
      PROVE  /\ d.deep => JudgeLeft(a, d.deep) = a + 3
             /\ ~d.deep => JudgeLeft(a, d.deep) = a + (AllTries + 6)
  BY Zenon DEF JudgeLeft
<1>4. RequestLeft(d.req, d.polls) \in Nat
  BY <1>1, RootHubAssumption DEF RequestLeft, Requests
<1>5. ASSUME NEW a \in Nat
      PROVE  /\ d.deep => JudgeLeft(a, d.deep) = a + 3
             /\ ~d.deep => JudgeLeft(a, d.deep) = a + AllTries + 6
             /\ JudgeLeft(a, d.deep) \in Nat
  BY <1>3, TriesLeft
<1>6. /\ AfterLeft(d.again) \in Nat
      /\ 5 <= AfterLeft(d.again) /\ AfterLeft(d.again) <= OneDevice + 8
  BY <1>2, TriesLeft
<1> QED
  BY <1>1, <1>2, <1>4, <1>5, <1>6, TriesLeft

LEMMA LeftNats ==
  ASSUME NEW d \in Drivers
  PROVE  FromJudge(d) \in Nat /\ PlaceLeft(d.at, AfterLeft(d.again), FromJudge(d)) \in Nat
<1>1. d.at \in Places
  BY Zenon DEF Drivers
<1>2. \A j \in Nat, a \in Nat : PlaceLeft(d.at, a, j) \in Nat
  BY <1>1, TriesLeft, RootHubAssumption DEF PlaceLeft, Places
<1> DEFINE a == AfterLeft(d.again)
<1>3. a \in Nat /\ JudgeLeft(a, d.deep) \in Nat /\ TriesAfter(d.tries) \in Nat
  BY LeftParts
<1> HIDE DEF a
<1>4. JudgeLeft(a, d.deep) + TriesAfter(d.tries) \in Nat
  BY <1>3
<1> QED
  BY <1>2, <1>3, <1>4 DEF a, FromJudge

(* The steps of ehci_submit_root: the place stays, the request has one step less. *)
LEMMA RequestNearer ==
  ASSUME TypeOK, Request
  PROVE  ScanLeft' < ScanLeft
<1>1. drv \in Drivers /\ drv' \in Drivers
  BY RequestType, Zenon DEF TypeOK
<1>2. /\ drv'.at = drv.at /\ drv'.again = drv.again /\ drv'.deep = drv.deep
      /\ drv'.tries = drv.tries
  BY <1>1, ZenonT(60) DEF Request, SetPower, HandOver, BeginReset, EndReset, AwaitReset,
     ClearConnection, ClearEnable, ClearReset, Serve, Drivers
<1>3. \/ drv.req \in Requests \ {"none", "handshake"} /\ drv'.req = "none"
      \/ drv.req = "reset" /\ drv'.req = "unreset"
      \/ drv.req = "unreset" /\ drv'.req = "handshake"
      \/ drv.req = "handshake" /\ drv'.req = "none"
      \/ drv.req = "handshake" /\ drv'.req = "handshake" /\ drv'.polls = drv.polls + 1
  BY <1>1, ZenonT(60) DEF Request, SetPower, HandOver, BeginReset, EndReset, AwaitReset,
     ClearConnection, ClearEnable, ClearReset, Serve, Drivers, Requests
<1>4. drv.polls \in 0 .. (Polls - 1) /\ drv'.polls \in 0 .. (Polls - 1)
  BY <1>1, Zenon DEF Drivers
<1>5. RequestLeft(drv'.req, drv'.polls) < RequestLeft(drv.req, drv.polls)
  BY <1>3, <1>4, RootHubAssumption DEF RequestLeft, Requests
<1> DEFINE place == PlaceLeft(drv.at, AfterLeft(drv.again), FromJudge(drv))
<1>6. place' = place
  BY <1>2, Zenon DEF FromJudge
<1>7. place \in Nat
  BY <1>1, LeftNats
<1>8. RequestLeft(drv'.req, drv'.polls) \in Nat /\ RequestLeft(drv.req, drv.polls) \in Nat
  BY <1>1, LeftParts
<1>9. ScanLeft = place + RequestLeft(drv.req, drv.polls)
  BY Zenon DEF ScanLeft, LeftOf
<1>10. ScanLeft' = place' + RequestLeft(drv'.req, drv'.polls)
  BY Zenon DEF ScanLeft, LeftOf
<1> HIDE DEF place
<1> QED
  BY <1>5, <1>6, <1>7, <1>8, <1>9, <1>10

LEMMA HubScanNearer ==
  ASSUME TypeOK, HubScan
  PROVE  ScanLeft' < ScanLeft
<1>1. drv \in Drivers /\ drv' \in Drivers
  BY HubScanDriver, Zenon DEF TypeOK
<1> DEFINE a == AfterLeft(drv.again)
           b == AfterLeft(drv'.again)
           j == FromJudge(drv)
           k == FromJudge(drv')
<1>2. /\ a \in Nat /\ a <= OneDevice + 8 /\ j \in Nat
      /\ b \in Nat /\ b <= OneDevice + 8 /\ k \in Nat
  BY <1>1, LeftParts, LeftNats
<1>3. /\ ScanLeft = PlaceLeft(drv.at, a, j) + RequestLeft(drv.req, drv.polls)
      /\ ScanLeft' = PlaceLeft(drv'.at, b, k) + RequestLeft(drv'.req, drv'.polls)
  BY Zenon DEF ScanLeft, LeftOf
<1> HIDE DEF a, b, j, k
<1> USE TriesLeft, PlaceIs, RequestIs
<1>4. CASE Scan
  <2>1. drv.at = "scan" /\ drv.req = "none" /\ drv'.at = "change" /\ drv'.req = "none"
    BY <1>1, <1>4, ZenonT(30) DEF Scan, At, Drivers
  <2> QED
    BY <1>2, <1>3, <2>1
<1>5. CASE Change
  <2>1. drv.at = "change" /\ drv.req = "none" /\ drv'.at \in {"status", "enable"}
        /\ drv'.req = "none"
    BY <1>1, <1>5, ZenonT(30) DEF Change, At, Goto, Drivers
  <2> QED
    BY <1>2, <1>3, <2>1
<1>6. CASE EnableChange
  <2>1. drv.at = "enable" /\ drv.req = "none"
    BY <1>6, Zenon DEF EnableChange, At
  <2>2. \/ drv'.at = "emi" /\ drv'.req = "clear_enable"
        \/ drv'.at = "oc" /\ drv'.req = "none"
    BY <1>1, <1>6, ZenonT(30) DEF EnableChange, At, Ask, Goto, Drivers
  <2> QED
    BY <1>2, <1>3, <2>1, <2>2
<1>7. CASE ReEnable
  <2>1. drv.at = "emi" /\ drv.req = "none"
    BY <1>7, Zenon DEF ReEnable, At
  <2>2. \/ drv'.at = "status" /\ drv'.req = "none" /\ drv'.again = TRUE
        \/ drv'.at = "oc" /\ drv'.req = "none"
    BY <1>1, <1>7, ZenonT(30) DEF ReEnable, At, Goto, Drivers
  <2>3. drv'.again = TRUE => b = 5
    BY <1>1, LeftParts DEF b
  <2> QED
    BY <1>2, <1>3, <2>1, <2>2, <2>3
<1>8. CASE OverCurrent
  <2>1. drv.at = "oc" /\ drv.req = "none"
    BY <1>8, Zenon DEF OverCurrent, At
  <2>2. drv'.at = "creset" /\ drv'.req \in {"power", "none"}
    BY <1>1, <1>8, ZenonT(30) DEF OverCurrent, At, Ask, Goto, Drivers
  <2> QED
    BY <1>2, <1>3, <2>1, <2>2
<1>9. CASE ResetChange
  <2>1. drv.at = "creset" /\ drv.req = "none"
    BY <1>9, Zenon DEF ResetChange, At
  <2>2. \/ drv'.at = "creset_done" /\ drv'.req = "clear_reset"
        \/ drv'.at = "return" /\ drv'.req = "none"
    BY <1>1, <1>9, ZenonT(30) DEF ResetChange, At, Ask, Return, Drivers
  <2> QED
    BY <1>2, <1>3, <2>1, <2>2
<1>10. CASE ResetChangeFails
  <2>1. drv.at = "creset_done" /\ drv.req = "none" /\ drv'.at = "return" /\ drv'.req = "none"
    BY <1>1, <1>10, ZenonT(30) DEF ResetChangeFails, At, Fail, Drivers
  <2> QED
    BY <1>2, <1>3, <2>1
<1> QED
  BY <1>4, <1>5, <1>6, <1>7, <1>8, <1>9, <1>10, Zenon DEF HubScan

LEMMA ConnectChangeNearer ==
  ASSUME TypeOK, ConnectChange
  PROVE  ScanLeft' < ScanLeft
<1>1. drv \in Drivers /\ drv' \in Drivers /\ drv.req = "none"
  BY ConnectChangeDriver, Zenon DEF TypeOK, ConnectChange, ConnectStatus, Clear, Connect,
     PortReset, CheckReset, JudgeReset, Allocate, Describe, Address, At
<1> DEFINE a == AfterLeft(drv.again)
           b == AfterLeft(drv'.again)
           j == FromJudge(drv)
           k == FromJudge(drv')
<1>2. a \in Nat /\ 5 <= a /\ a <= OneDevice + 8 /\ j \in Nat /\ b \in Nat /\ k \in Nat
  BY <1>1, LeftParts, LeftNats
<1>3. /\ ScanLeft = PlaceLeft(drv.at, a, j) + RequestLeft(drv.req, drv.polls)
      /\ ScanLeft' = PlaceLeft(drv'.at, b, k) + RequestLeft(drv'.req, drv'.polls)
  BY Zenon DEF ScanLeft, LeftOf
<1>4. ASSUME NEW d \in Drivers
      PROVE  /\ d.deep => FromJudge(d) = (AfterLeft(d.again) + 3) + TriesAfter(d.tries)
             /\ ~d.deep => FromJudge(d)
                             = (AfterLeft(d.again) + AllTries + 6) + TriesAfter(d.tries)
  BY LeftParts, Zenon DEF FromJudge
<1>5. drv'.again = drv.again
  BY <1>1, ZenonT(60) DEF ConnectChange, ConnectStatus, Clear, Connect, PortReset, CheckReset,
     JudgeReset, Allocate, Describe, Address, AcknowledgeReset, Retry, Goto, Ask, Fail, Drivers
<1>6. b = a
  BY <1>5, Zenon
<1>7. drv'.deep = drv.deep /\ drv'.tries = drv.tries => k = j
  BY <1>5, Zenon DEF FromJudge
<1>8. ASSUME drv'.at = "return", drv'.req = "none",
             drv.at \in {"judge", "reset_done", "describe", "address"}
      PROVE  ScanLeft' < ScanLeft
  <2>1. drv.at = "judge" => j > 0
    BY <1>1, <1>4, LeftParts, TriesLeft
  <2> HIDE DEF a, b, j, k
  <2> QED
    BY <1>1, <1>2, <1>3, <1>8, <2>1, TriesLeft, PlaceIs, RequestIs
<1> HIDE DEF a, b, j, k
<1> USE TriesLeft, PlaceIs, RequestIs
<1>9. CASE ConnectStatus
  <2>1. drv.at = "status" /\ drv'.at = "clear" /\ drv'.req = "none"
    BY <1>1, <1>9, ZenonT(30) DEF ConnectStatus, At, Drivers
  <2> QED
    BY <1>1, <1>2, <1>3, <1>6, <2>1
<1>10. CASE Clear
  <2>1. drv.at = "clear" /\ drv'.at = "connect" /\ drv'.req = "clear_conn"
    BY <1>1, <1>10, ZenonT(30) DEF Clear, At, Ask, Drivers
  <2> QED
    BY <1>1, <1>2, <1>3, <1>6, <2>1
<1>11. CASE Connect
  <2>1. drv.at = "connect" /\ drv'.req = "none"
    BY <1>1, <1>11, ZenonT(30) DEF Connect, At, Drivers
  <2>2. CASE drv'.at = "port_reset" /\ drv'.tries = 0
    <3>1. k <= (a + AllTries + 6) + TriesAfter(0)
      <4>1. \/ k = (a + 3) + TriesAfter(0)
            \/ k = (a + AllTries + 6) + TriesAfter(0)
        <5>1. \/ FromJudge(drv') = (AfterLeft(drv'.again) + 3) + TriesAfter(drv'.tries)
              \/ FromJudge(drv')
                   = (AfterLeft(drv'.again) + AllTries + 6) + TriesAfter(drv'.tries)
          BY <1>1, <1>4
        <5> QED
          BY <1>6, <2>2, <5>1 DEF a, b, k
      <4>2. TriesAfter(0) \in Nat
        BY RootHubAssumption
      <4> QED
        BY <1>2, <4>1, <4>2
    <3> QED
      BY <1>1, <1>2, <1>3, <1>6, <2>1, <2>2, <3>1, RootHubAssumption
  <2>3. CASE drv'.at = AfterChange
    <3>1. AfterChange = "oc" \/ (AfterChange = "enable" /\ ~drv.again)
      BY Zenon DEF AfterChange
    <3>2. ~drv.again => a = OneDevice + 8
      BY <1>1, LeftParts DEF a
    <3> QED
      BY <1>1, <1>2, <1>3, <1>6, <2>1, <2>3, <3>1, <3>2
  <2> QED
    BY <1>1, <1>11, <2>2, <2>3, ZenonT(30) DEF Connect, Drivers
<1>12. CASE PortReset
  <2>1. /\ drv.at = "port_reset" /\ drv'.at = "check" /\ drv'.req = "reset"
        /\ drv'.deep = drv.deep /\ drv'.tries = drv.tries
    BY <1>1, <1>12, ZenonT(30) DEF PortReset, At, Ask, Drivers
  <2> QED
    BY <1>1, <1>2, <1>3, <1>7, <2>1, RootHubAssumption
<1>13. CASE CheckReset
  <2>1. /\ drv.at = "check" /\ drv'.at = "judge" /\ drv'.req = "none"
        /\ drv'.deep = drv.deep /\ drv'.tries = drv.tries
    BY <1>1, <1>13, ZenonT(30) DEF CheckReset, At, Drivers
  <2> QED
    BY <1>1, <1>2, <1>3, <1>7, <2>1
<1>14. CASE JudgeReset
  <2>1. drv.at = "judge"
    BY <1>14, Zenon DEF JudgeReset, At
  <2>2. CASE drv'.at = "return"
    <3>1. drv'.req = "none"
      BY <1>1, <1>14, <2>2, ZenonT(60) DEF JudgeReset, AcknowledgeReset, AfterReset, Retry, Fail,
         Ask, Drivers
    <3> QED
      BY <1>8, <2>1, <2>2, <3>1
  <2>3. CASE AcknowledgeReset
    <3>1. drv'.at = AfterReset /\ drv'.req = "clear_reset"
      BY <1>1, <2>3, ZenonT(30) DEF AcknowledgeReset, Ask, Drivers
    <3>2. CASE drv.deep
      <4>1. AfterReset = "address" /\ j >= a + 3
        BY <1>1, <1>2, <1>4, <3>2, LeftParts DEF AfterReset, a, j
      <4> QED
        BY <1>1, <1>2, <1>3, <1>6, <2>1, <3>1, <4>1
    <3>3. CASE ~drv.deep
      <4>1. AfterReset = "reset_done" /\ j >= a + AllTries + 6
        BY <1>1, <1>2, <1>4, <3>3, LeftParts DEF AfterReset, a, j
      <4> QED
        BY <1>1, <1>2, <1>3, <1>6, <2>1, <3>1, <4>1
    <3> QED
      BY <3>2, <3>3
  <2>4. CASE /\ drv.tries + 1 < MaxTries
             /\ drv' = [drv EXCEPT !.at = "port_reset", !.tries = drv.tries + 1]
    <3>1. /\ drv'.at = "port_reset" /\ drv'.tries = drv.tries + 1 /\ drv'.deep = drv.deep
          /\ drv'.req = "none" /\ drv.tries \in 0 .. (MaxTries - 1)
      BY <1>1, <2>4, ZenonT(30) DEF Drivers
    <3>2. TriesAfter(drv'.tries) + Attempt = TriesAfter(drv.tries)
      BY <2>4, <3>1
    <3>3. k + Attempt = j
      <4>1. CASE drv.deep
        <5>1. drv'.deep
          BY <3>1, <4>1, Zenon
        <5> QED
          BY <1>1, <1>2, <1>4, <1>6, <3>2, <4>1, <5>1, LeftParts DEF a, b, j, k
      <4>2. CASE ~drv.deep
        <5>1. ~drv'.deep
          BY <3>1, <4>2, Zenon
        <5> QED
          BY <1>1, <1>2, <1>4, <1>6, <3>2, <4>2, <5>1, LeftParts DEF a, b, j, k
      <4> QED
        BY <4>1, <4>2
    <3> QED
      BY <1>1, <1>2, <1>3, <1>6, <2>1, <3>1, <3>3, RootHubAssumption
  <2> QED
    BY <1>1, <1>14, <2>2, <2>3, <2>4, ZenonT(60) DEF JudgeReset, Retry, Fail, Drivers
<1>15. CASE Allocate
  <2>1. drv.at = "reset_done" /\ drv'.at \in {"return", "describe"} /\ drv'.req = "none"
    BY <1>1, <1>15, ZenonT(30) DEF Allocate, At, Goto, Fail, Drivers
  <2> QED
    BY <1>1, <1>2, <1>3, <1>6, <1>8, <2>1
<1>16. CASE Describe
  <2>1. drv.at = "describe" /\ drv'.req = "none"
    BY <1>1, <1>16, ZenonT(30) DEF Describe, At, Fail, Drivers
  <2>2. \/ drv'.at = "port_reset" /\ drv'.tries = 0 /\ drv'.deep = TRUE
        \/ drv'.at = "return"
    BY <1>1, <1>16, ZenonT(30) DEF Describe, At, Fail, Drivers
  <2>3. drv'.tries = 0 /\ drv'.deep = TRUE => k = (a + 3) + TriesAfter(0)
    BY <1>1, <1>4, <1>6 DEF b, k
  <2> QED
    BY <1>1, <1>2, <1>3, <1>6, <1>8, <2>1, <2>2, <2>3, RootHubAssumption
<1>17. CASE Address
  <2>1. drv.at = "address" /\ drv'.req = "none" /\ drv'.at \in {AfterChange, "return"}
    BY <1>1, <1>17, ZenonT(30) DEF Address, At, Fail, Drivers
  <2>2. AfterChange = "oc" \/ (AfterChange = "enable" /\ a = OneDevice + 8)
    <3>1. ~drv.again => a = OneDevice + 8
      BY <1>1, LeftParts DEF a
    <3> QED
      BY <3>1, Zenon DEF AfterChange
  <2>3. CASE drv'.at = "return"
    BY <1>8, <2>1, <2>3
  <2>4. CASE drv'.at = AfterChange
    BY <1>1, <1>2, <1>3, <1>6, <2>1, <2>2, <2>4
  <2> QED
    BY <2>1, <2>3, <2>4
<1> QED
  BY <1>9, <1>10, <1>11, <1>12, <1>13, <1>14, <1>15, <1>16, <1>17, Zenon DEF ConnectChange

LEMMA NextNearer == TypeOK /\ [Next]_vars => [Progress]_vars
<1> SUFFICES ASSUME TypeOK, Next PROVE Progress
  BY DEF Progress
<1>1. ASSUME World PROVE ScanLeft' = ScanLeft
  BY <1>1, WorldPort, Zenon DEF hub, ScanLeft
<1>2. ASSUME Scanning, Driver PROVE ScanLeft' < ScanLeft
  <2>1. ~Boot /\ ~PowerOn /\ ~Caller
    BY <1>2, Zenon DEF Scanning, Boot, PowerOn, Caller, At
  <2> QED
    BY <1>2, <2>1, RequestNearer, HubScanNearer, ConnectChangeNearer, Zenon DEF Driver
<1> QED
  BY <1>1, <1>2, Zenon DEF Progress

LEMMA ScanSteps ==
  TypeOK /\ drv.at = "scan" /\ drv.req = "none" => ScanLeft = 4 * AllTries + 28
<1> SUFFICES ASSUME TypeOK, drv.at = "scan", drv.req = "none" PROVE ScanLeft = 4 * AllTries + 28
  OBVIOUS
<1>1. ScanLeft = PlaceLeft("scan", AfterLeft(drv.again), FromJudge(drv))
                 + RequestLeft("none", drv.polls)
  BY Zenon DEF ScanLeft, LeftOf
<1> QED
  BY <1>1, TriesLeft, PlaceIs, RequestIs

(* Whatever the port does, usb_hub_scan returns after at most 28 + 4 * MAX_TRIES * (Polls + 5)
   steps of the driver: ScanReturns but for the fairness of the driver. *)
THEOREM ScansAreBounded ==
  Spec => /\ [](drv.at = "scan" /\ drv.req = "none"
                  => ScanLeft = 28 + 4 * (MaxTries * (Polls + 5)))
          /\ [](ScanLeft \in Nat)
          /\ [][Progress]_vars
<1>1. TypeOK => (drv.at = "scan" /\ drv.req = "none"
                   => ScanLeft = 28 + 4 * (MaxTries * (Polls + 5)))
  <2>1. 4 * AllTries + 28 = 28 + 4 * AllTries
    BY TriesLeft
  <2> QED
    BY <2>1, ScanSteps DEF AllTries, Attempt
<1>2. TypeOK => ScanLeft \in Nat
  <2> SUFFICES ASSUME TypeOK PROVE ScanLeft \in Nat
    OBVIOUS
  <2>1. drv \in Drivers
    BY DEF TypeOK
  <2> DEFINE place == PlaceLeft(drv.at, AfterLeft(drv.again), FromJudge(drv))
  <2>2. ScanLeft = place + RequestLeft(drv.req, drv.polls)
    BY Zenon DEF ScanLeft, LeftOf
  <2>3. place \in Nat /\ RequestLeft(drv.req, drv.polls) \in Nat
    BY <2>1, LeftNats, LeftParts
  <2> HIDE DEF place
  <2> QED
    BY <2>2, <2>3
<1> QED
  BY <1>1, <1>2, InitType, NextType, NextNearer, PTL DEF Spec
=============================================================================
