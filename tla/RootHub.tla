------------------------------ MODULE RootHub ------------------------------
(***************************************************************************)
(* The root hub: the port requests ehci_submit_root serves from the PORTSC *)
(* register (ehci-hcd.c), the hub driver that issues them (usb_hub_scan,   *)
(* usb_hub_port_connect_change, hub_port_reset, usb_hub_power_on in usb.c) *)
(* and the loop of main.c around them, against a port on which devices are *)
(* plugged and unplugged at any time.                                      *)
(*                                                                         *)
(* A request that changes the port reads PORTSC into reg and writes it     *)
(* back; the port may change between the two.  A transfer to the device    *)
(* behind the port succeeds only on an enabled port, and may always fail.  *)
(* The suspend bit is left out: nothing in the program ever sets it.       *)
(***************************************************************************)
EXTENDS Integers

CONSTANTS
  Rescan,     \* TRUE: usb_hub_scan is called again without starting over, as its
              \* contract allows; FALSE: main's loop, which resets everything
  BssCleared, \* the static portreset starts at zero (start.S does not clear .bss)
  PowerSwitched, \* HCS_PPC: the port has a power switch
  MaxTries,   \* MAX_TRIES of hub_port_reset, 5 in C
  Polls,      \* polls of the port-reset handshake, 2000 in C
  MaxDevice,  \* USB_MAX_DEVICE, 32 in C
  MaxEvents   \* bound: how often the outside world touches the port

ASSUME RootHubAssumption ==
  /\ Rescan \in BOOLEAN /\ BssCleared \in BOOLEAN /\ PowerSwitched \in BOOLEAN
  /\ MaxTries \in Nat \ {0} /\ Polls \in Nat \ {0}
  /\ MaxDevice \in Nat /\ MaxDevice > 1
  /\ MaxEvents \in Nat

VARIABLES
  drv,       \* the hub driver: place, request, status words, counters, outcome
  tab,       \* dev->children[0] # NULL, and g_dev_index
  portreset, \* bit 1 of the static portreset
  port,      \* PORTSC
  plug,      \* the device plugged in, by speed, or "none"
  reseat,    \* history: that device has not been through a reset since
  events

hub   == <<drv, tab, portreset>>
world == <<port, plug, reseat, events>>
vars  == <<hub, world>>

Plugs == {"none", "low", "full", "high"}

(* PORTSC: connect status and change, port enable and change, over-current and change,
   reset ("ending" once software has cleared it), power, owner, low-speed line state. *)
Ports == [cs : BOOLEAN, csc : BOOLEAN, pe : BOOLEAN, pec : BOOLEAN, oca : BOOLEAN,
          occ : BOOLEAN, pr : {"off", "on", "ending"}, pp : BOOLEAN, po : BOOLEAN,
          ls : BOOLEAN]
Quiet == [cs |-> FALSE, csc |-> FALSE, pe |-> FALSE, pec |-> FALSE, oca |-> FALSE,
          occ |-> FALSE, pr |-> "off", pp |-> ~PowerSwitched, po |-> FALSE, ls |-> FALSE]

(* What USB_REQ_GET_STATUS of the port reports; the speed always reads as high. *)
Statuses == [cs : BOOLEAN, pe : BOOLEAN, csc : BOOLEAN, pec : BOOLEAN, occ : BOOLEAN,
             creset : BOOLEAN]
PortStatus == [cs |-> port.cs, pe |-> port.pe, csc |-> port.csc, pec |-> port.pec,
               occ |-> port.occ, creset |-> portreset]
NoStatus == [cs |-> FALSE, pe |-> FALSE, csc |-> FALSE, pec |-> FALSE, occ |-> FALSE,
             creset |-> FALSE]

Requests == {"none", "power", "reset", "unreset", "handshake", "clear_conn",
             "clear_enable", "clear_reset"}
Places == {"boot", "power_on", "scan", "change", "status", "clear", "connect", "port_reset",
           "check", "judge", "reset_done", "describe", "address", "enable", "emi", "oc",
           "creset", "creset_done", "return", "hung"}
Outcomes == {"none", "found", "error"}
Reasons == {"none", "reset", "full", "device"}

Drivers == [at : Places,
            req : Requests, reg : Ports,        \* the request served, and its copy of PORTSC
            seen : Statuses, look : Statuses,   \* the status usb_hub_scan holds, and later ones
            again : BOOLEAN,                    \* the second connect_change of one scan
            deep : BOOLEAN,                     \* inside usb_scan_device
            tries : 0..(MaxTries - 1), polls : 0..(Polls - 1),
            found : BOOLEAN,                    \* the pointer *child, new in usb_hub_scan
            ret : Outcomes,                     \* what usb_hub_scan returned last
            why : Reasons]                      \* history: what failed in this scan

Init ==
  /\ drv = [at |-> "boot", req |-> "none", reg |-> Quiet, seen |-> NoStatus,
            look |-> NoStatus, again |-> FALSE, deep |-> FALSE, tries |-> 0, polls |-> 0,
            found |-> FALSE, ret |-> "none", why |-> "none"]
  /\ tab = [child |-> FALSE, ndev |-> 0]
  /\ portreset \in IF BssCleared THEN {FALSE} ELSE BOOLEAN
  /\ port = Quiet /\ plug = "none" /\ reseat = FALSE /\ events = 0
----------------------------------------------------------------------------
(* ehci_submit_root. *)

(* A write of w to PORTSC: change bits are cleared by writing one, the enable bit can only
   be cleared, reset clears it, and a port given away no longer shows its device. *)
Written(w) ==
  LET owned == port.po \/ ~w.po
  IN  [port EXCEPT !.csc = (@ /\ ~w.csc) \/ (~owned /\ port.cs),
                   !.pec = @ /\ ~w.pec,
                   !.occ = @ /\ ~w.occ,
                   !.cs = @ /\ owned,
                   !.pe = @ /\ w.pe /\ w.pr = "off" /\ owned,
                   !.pr = IF w.pr # "off" THEN "on" ELSE IF @ = "off" THEN "off" ELSE "ending",
                   !.pp = IF PowerSwitched THEN w.pp ELSE @,
                   !.po = w.po]

NoChange(w) == [w EXCEPT !.csc = FALSE, !.pec = FALSE, !.occ = FALSE]   \* & ~EHCI_PS_CLEAR

(* A request r reads PORTSC; the hub driver goes on at p when it has been served. *)
Ask(r, p) == [drv EXCEPT !.req = r, !.reg = port, !.at = p]

Serve(r, w) ==
  /\ drv.req = r
  /\ port' = Written(w)
  /\ drv' = [drv EXCEPT !.req = "none"]
  /\ UNCHANGED <<tab, plug, reseat, events>>

SetPower ==
  \/ PowerSwitched /\ Serve("power", [NoChange(drv.reg) EXCEPT !.pp = TRUE])
                   /\ UNCHANGED portreset
  \/ /\ ~PowerSwitched /\ drv.req = "power"
     /\ drv' = [drv EXCEPT !.req = "none"]
     /\ UNCHANGED <<tab, portreset, world>>

LowSpeed(w) == w.cs /\ ~w.pe /\ w.ls

(* USB_PORT_FEAT_RESET gives a low-speed device to the companion controller. *)
HandOver ==
  /\ LowSpeed(drv.reg)
  /\ Serve("reset", [NoChange(drv.reg) EXCEPT !.po = TRUE])
  /\ UNCHANGED portreset

BeginReset ==
  /\ drv.req = "reset" /\ ~LowSpeed(drv.reg)
  /\ port' = Written([NoChange(drv.reg) EXCEPT !.pr = "on", !.pe = FALSE])
  /\ drv' = [drv EXCEPT !.req = "unreset"]
  /\ UNCHANGED <<tab, portreset, plug, reseat, events>>

(* It is ended with the value read before it began. *)
EndReset ==
  /\ drv.req = "unreset"
  /\ port' = Written([NoChange(drv.reg) EXCEPT !.pr = "off", !.pe = FALSE])
  /\ drv' = [drv EXCEPT !.req = "handshake"]
  /\ UNCHANGED <<tab, portreset, plug, reseat, events>>

(* Seeded fault: the number of polls is not bounded. *)
NeverTimesOut == FALSE
HandshakeTimesOut == drv.polls + 1 = Polls

(* Over-current active is the bit handshake takes for a fatal error; whatever the
   handshake says, the request succeeds. *)
AwaitReset ==
  /\ drv.req = "handshake"
  /\ LET done == ~port.oca /\ port.pr = "off"
         stop == done \/ port.oca \/ HandshakeTimesOut
     IN  /\ drv' = IF stop THEN [drv EXCEPT !.polls = 0, !.req = "none"]
                   ELSE [drv EXCEPT !.polls = @ + 1]
         /\ portreset' = (portreset \/ done)
  /\ UNCHANGED <<tab, world>>

ClearConnection == Serve("clear_conn", [NoChange(drv.reg) EXCEPT !.csc = TRUE])
                   /\ UNCHANGED portreset
(* USB_PORT_FEAT_C_ENABLE writes the enable bit in the place of its change bit. *)
ClearEnable == Serve("clear_enable", [NoChange(drv.reg) EXCEPT !.pe = TRUE])
               /\ UNCHANGED portreset
(* USB_PORT_FEAT_C_RESET writes PORTSC back as it was read, change bits and all. *)
ClearReset == Serve("clear_reset", drv.reg) /\ portreset' = FALSE

Request == \/ SetPower \/ HandOver \/ BeginReset \/ EndReset \/ AwaitReset
           \/ ClearConnection \/ ClearEnable \/ ClearReset
----------------------------------------------------------------------------
(* main, usb_init and usb_scan_roothub around the hub driver. *)

At(p) == drv.at = p /\ drv.req = "none"
Goto(p) == drv' = [drv EXCEPT !.at = p]

(* Seeded fault: usb_init forgets g_dev_index. *)
KeptTab == [child |-> FALSE, ndev |-> tab.ndev + 1]
FreshTab == [child |-> FALSE, ndev |-> 1]

(* ehci_init resets the controller and with it every port; usb_init clears the device
   table and usb_scan_roothub takes its first entry.  portreset survives. *)
Boot ==
  /\ At("boot") /\ Goto("power_on")
  /\ tab' = FreshTab
  /\ port' = Quiet
  /\ UNCHANGED <<portreset, plug, reseat, events>>

(* Any error of ehci_init, usb_init, usb_scan_roothub or usb_hub_init. *)
BootFails == At("boot") /\ Goto("hung") /\ UNCHANGED <<tab, portreset, world>>

Caller ==
  /\ At("return")
  /\ Goto(IF Rescan THEN "scan" ELSE IF drv.ret = "error" THEN "hung" ELSE "boot")
  /\ UNCHANGED <<tab, portreset, world>>

(* usb_hub_power_on, at the end of usb_hub_init. *)
PowerOn == At("power_on") /\ drv' = Ask("power", "scan") /\ UNCHANGED <<tab, portreset, world>>
----------------------------------------------------------------------------
(* usb_hub_scan. *)

Return(r) == drv' = [drv EXCEPT !.at = "return", !.ret = r]
Fail(w) == drv' = [drv EXCEPT !.at = "return", !.ret = "error", !.why = w, !.found = FALSE]

Scan ==
  /\ At("scan")
  /\ drv' = [drv EXCEPT !.at = "change", !.seen = PortStatus, !.found = FALSE,
                        !.again = FALSE, !.deep = FALSE, !.why = "none"]
  /\ UNCHANGED <<tab, portreset, world>>

Change == /\ At("change") /\ Goto(IF drv.seen.csc THEN "status" ELSE "enable")
          /\ UNCHANGED <<tab, portreset, world>>

AfterChange == IF drv.again THEN "oc" ELSE "enable"

EnableChange ==
  /\ At("enable")
  /\ IF drv.seen.pec THEN drv' = Ask("clear_enable", "emi") ELSE Goto("oc")
  /\ UNCHANGED <<tab, portreset, world>>

(* "EM interference sometimes causes bad shielded USB devices to be shutdown by the hub,
   this hack enables them again", going by the status read before anything was done. *)
Interfered == ~drv.seen.pe /\ drv.seen.cs /\ tab.child

ReEnable ==
  /\ At("emi")
  /\ IF Interfered THEN drv' = [drv EXCEPT !.at = "status", !.again = TRUE] ELSE Goto("oc")
  /\ UNCHANGED <<tab, portreset, world>>

(* ehci_submit_root does not know C_OVER_CURRENT: the request stalls, and the stall passes
   for success here. *)
OverCurrent ==
  /\ At("oc")
  /\ IF drv.seen.occ THEN drv' = Ask("power", "creset") ELSE Goto("creset")
  /\ UNCHANGED <<tab, portreset, world>>

ResetChange ==
  /\ At("creset")
  /\ IF drv.seen.creset THEN drv' = Ask("clear_reset", "creset_done")
     ELSE Return(IF drv.found THEN "found" ELSE "none")
  /\ UNCHANGED <<tab, portreset, world>>

(* The clear request returns its length 0, and 0 passes for an error here. *)
ResetChangeFails == At("creset_done") /\ Fail(drv.why) /\ UNCHANGED <<tab, portreset, world>>
----------------------------------------------------------------------------
(* usb_hub_port_connect_change. *)

ConnectStatus ==
  /\ At("status")
  /\ drv' = [drv EXCEPT !.at = "clear", !.look = PortStatus]
  /\ UNCHANGED <<tab, portreset, world>>

Clear == At("clear") /\ drv' = Ask("clear_conn", "connect") /\ UNCHANGED <<tab, portreset, world>>

NothingThere == ~drv.look.cs /\ (~drv.look.pe \/ tab.child)

Connect ==
  /\ At("connect")
  /\ drv' = IF NothingThere THEN [drv EXCEPT !.at = AfterChange, !.found = FALSE]
            ELSE [drv EXCEPT !.at = "port_reset", !.tries = 0]
  /\ UNCHANGED <<tab, portreset, world>>

(* hub_port_reset; usb_scan_device calls it a second time. *)
PortReset == At("port_reset") /\ drv' = Ask("reset", "check") /\ UNCHANGED <<tab, portreset, world>>

CheckReset ==
  /\ At("check")
  /\ drv' = [drv EXCEPT !.at = "judge", !.look = PortStatus]
  /\ UNCHANGED <<tab, portreset, world>>

AfterReset == IF drv.deep THEN "address" ELSE "reset_done"
(* Seeded fault: the reset change is left set. *)
ResetNotAcknowledged == Goto(AfterReset)
AcknowledgeReset == drv' = Ask("clear_reset", AfterReset)

(* Seeded fault: tries is never counted. *)
RetryForever == Goto("port_reset")
Retry ==
  IF drv.tries + 1 < MaxTries THEN drv' = [drv EXCEPT !.at = "port_reset", !.tries = @ + 1]
  ELSE Fail("reset")

(* Seeded fault: the enable bit is not looked at. *)
AnyIsEnabled == TRUE
IsEnabled == drv.look.pe

JudgeReset ==
  /\ At("judge")
  /\ IF drv.look.csc \/ ~drv.look.cs THEN Fail("reset")
     ELSE IF IsEnabled THEN AcknowledgeReset
     ELSE Retry
  /\ UNCHANGED <<tab, portreset, world>>

Allocate ==
  /\ At("reset_done")
  /\ IF tab.ndev = MaxDevice THEN Fail("full") /\ UNCHANGED tab
     ELSE Goto("describe") /\ tab' = [child |-> TRUE, ndev |-> tab.ndev + 1]
  /\ UNCHANGED <<portreset, world>>

(* usb_scan_device: the first descriptor, the second reset, and all that follows it.  A
   device that fails keeps its entry and its place among the children. *)
Describe ==
  /\ At("describe")
  /\ \/ port.pe /\ drv' = [drv EXCEPT !.at = "port_reset", !.deep = TRUE, !.tries = 0]
     \/ Fail("device")
  /\ UNCHANGED <<tab, portreset, world>>

Address ==
  /\ At("address")
  /\ \/ port.pe /\ drv' = [drv EXCEPT !.at = AfterChange, !.deep = FALSE, !.found = TRUE]
     \/ Fail("device")
  /\ UNCHANGED <<tab, portreset, world>>

ConnectChange == \/ ConnectStatus \/ Clear \/ Connect \/ PortReset \/ CheckReset
                 \/ JudgeReset \/ Allocate \/ Describe \/ Address
HubScan == \/ Scan \/ Change \/ EnableChange \/ ReEnable \/ OverCurrent \/ ResetChange
           \/ ResetChangeFails
Driver == Boot \/ PowerOn \/ Caller \/ HubScan \/ ConnectChange \/ Request
----------------------------------------------------------------------------
(* The port and the world. *)

Disturb == events < MaxEvents /\ events' = events + 1 /\ UNCHANGED hub

Attach ==
  /\ plug = "none" /\ Disturb
  /\ plug' \in Plugs \ {"none"} /\ reseat' = TRUE
  /\ UNCHANGED port

Detach ==
  /\ plug # "none" /\ Disturb
  /\ plug' = "none" /\ reseat' = FALSE
  /\ port' = [port EXCEPT !.cs = FALSE, !.csc = @ \/ port.cs, !.pe = FALSE, !.ls = FALSE,
                          !.po = FALSE]

(* A port of this controller shows a device, once it is powered and not being reset. *)
Detect ==
  /\ plug # "none" /\ port.pp /\ ~port.po /\ ~port.cs /\ port.pr = "off"
  /\ port' = [port EXCEPT !.cs = TRUE, !.csc = TRUE, !.ls = plug = "low"]
  /\ UNCHANGED <<hub, plug, reseat, events>>

(* The end of a reset enables the port for a device that answers at high speed. *)
ResetEnds ==
  /\ port.pr = "ending"
  /\ port' = [port EXCEPT !.pr = "off", !.pe = port.cs /\ plug = "high"]
  /\ reseat' = (reseat /\ ~port.cs)
  /\ UNCHANGED <<hub, plug, events>>

Interference ==
  /\ port.pe /\ Disturb
  /\ port' = [port EXCEPT !.pe = FALSE, !.pec = TRUE]
  /\ UNCHANGED <<plug, reseat>>

OverCurrentChanges ==
  /\ Disturb
  /\ port' = [port EXCEPT !.oca = ~@, !.occ = TRUE, !.pe = @ /\ port.oca]
  /\ UNCHANGED <<plug, reseat>>

World == Attach \/ Detach \/ Detect \/ ResetEnds \/ Interference \/ OverCurrentChanges

Next == Driver \/ BootFails \/ World
(* The only thread of the program runs; nothing is asked of the port. *)
Spec == Init /\ [][Next]_vars /\ WF_vars(Driver)
----------------------------------------------------------------------------
(* Every variable has its type. *)
TypeOK ==
  /\ drv \in Drivers
  /\ tab \in [child : BOOLEAN, ndev : 0..MaxDevice]
  /\ portreset \in BOOLEAN
  /\ port \in Ports /\ plug \in Plugs /\ reseat \in BOOLEAN /\ events \in 0..MaxEvents

(* ehci_submit_root reports every device as high speed and leaves it to hub_port_reset to
   stop the others: a device that went through the reset and is about to be given a record
   (speed USB_SPEED_HIGH) or an address is a high-speed one. *)
SpeedRight ==
  drv.at \in {"reset_done", "describe", "address"} /\ ~reseat => plug \in {"none", "high"}

(* usb_hub_scan's "<0 error": it returns an error, on which main stops for good, only if
   the reset, the device table or the enumeration failed. *)
ErrorMeansFailure == drv.at = "return" /\ drv.ret = "error" => drv.why # "none"

(* The inductive invariant of main's loop started with a clear portreset: a reset change is
   remembered only while hub_port_reset is still going to look at it, is being cleared, or
   has been left behind by a scan whose error stops main; so no scan starts with one. *)
StaleInv ==
  /\ drv.req \in {"reset", "unreset", "handshake"} => drv.at = "check"
  /\ drv.req = "clear_reset" => drv.at \in {"reset_done", "address"}
  /\ portreset => \/ drv.at \in {"port_reset", "check", "judge", "hung"}
                  \/ drv.req = "clear_reset"
                  \/ drv.at = "return" /\ drv.ret = "error"
  /\ ~drv.seen.creset /\ drv.at # "creset_done"
  /\ ErrorMeansFailure

(* In main's loop the table of USB_MAX_DEVICE records never runs out: usb_init empties it
   before each scan, and a scan that starts from reset ports takes one record. *)
TableNeverFull == drv.why # "full"

(* The inductive invariant behind SpeedRight: a port is enabled only out of reset and for a
   high-speed device; from the moment hub_port_reset has seen it enabled until its next reset
   the port is out of reset, and whoever is plugged in then has not been through one. *)
Settled ==
  /\ port.pr = "off" /\ (reseat \/ plug \in {"none", "high"})
  /\ drv.req \in {"none", "clear_reset"} /\ (drv.req = "clear_reset" => drv.reg.pr = "off")
SpeedInv ==
  /\ port.pe => port.pr = "off" /\ plug = "high"
  /\ drv.at = "judge" /\ drv.look.pe => Settled
  /\ drv.at \in {"reset_done", "describe", "address"} => Settled

(* The inductive invariant behind TableNeverFull: until the first device of a scan gets its
   record only the root hub has one, and no port was enabled before, so that no scan starts
   with an enable change and none enumerates twice. *)
FullInv ==
  /\ drv.at # "emi" /\ ~drv.seen.pec
  /\ drv.at \in {"power_on", "scan"} =>
       /\ port.pr = "off" /\ ~port.pe /\ ~port.pec /\ tab.ndev = 1
       /\ drv.req \in {"none", "power"} /\ (drv.req = "power" => drv.reg.pr = "off")
  /\ drv.at \in {"change", "status", "clear", "connect", "reset_done"} =>
       ~drv.deep /\ tab.ndev = 1
  /\ drv.at \in {"port_reset", "check", "judge"} /\ ~drv.deep => tab.ndev = 1
  /\ TableNeverFull

(* usb_hub_scan returns whatever the port does during the scan: hub_port_reset gives up
   after MAX_TRIES, and no change bit can keep it looping. *)
ScanReturns == drv.at = "scan" ~> drv.at = "return"
=============================================================================
