---------------------------- MODULE Enumeration ----------------------------
(***************************************************************************)
(* How the root hub and the device behind its port are enumerated: one     *)
(* pass of main's loop, request by request (usb_init, usb_alloc_new_device,*)
(* usb_scan_device, usb_get_configuration_no, usb_is_hub, usb_hub_init in  *)
(* usb.c), and submit_control_msg of ehci-hcd.c, which hands a request to  *)
(* ehci_submit_root or to the bus by comparing its address with rootdev.   *)
(*                                                                         *)
(* Of the port this module keeps only what a reset does to the device:     *)
(* RootHub is the model of the port.  Of a transfer on the bus it keeps    *)
(* what EhciHcd shows can come out of one: an error, whether or not the    *)
(* device has taken the request or sent its data, or success with the full *)
(* length, also when the device sent less.                                 *)
(***************************************************************************)
EXTENDS Integers

CONSTANTS
  MaxDevice,  \* USB_MAX_DEVICE, 32 in C: two or more
  Sizes,      \* the legal values of bMaxPacketSize0, {8, 16, 32, 64}
  FakedSuccess, \* may a poll that times out pass for success? (OkMeansCompleted in EhciHcd)
  MaxReplugs  \* bound: how often the device is unplugged or plugged

ASSUME EnumerationAssumption ==
  /\ MaxDevice \in Nat /\ MaxDevice > 1
  /\ Sizes \subseteq Nat /\ 64 \in Sizes /\ 0 \notin Sizes
  /\ FakedSuccess \in BOOLEAN /\ MaxReplugs \in Nat

VARIABLES
  drv,      \* where the program is, the record being scanned, what the last scan returned
  rootdev,  \* the address ehci_submit_root answers
  ndev,     \* g_dev_index
  dev,      \* usb_dev
  buf,      \* tmpbuf of usb_scan_device: its first 9 bytes, and what follows
  per,      \* the device behind the port
  sent,     \* history: the last control message, whose it was and where it went
  replugs

vars == <<drv, rootdev, ndev, dev, buf, per, sent, replugs>>

Records == 1 .. MaxDevice
Places == {"boot", "first", "reset", "address", "descriptor", "header", "config", "parse",
           "configure", "strings", "is_hub", "hub_init", "scan", "return", "hung"}
Drivers == [at : Places, rec : Records, addr : Records, ret : {"none", "found", "error"}]

(* value: bConfigurationValue, 1 being the one the device knows, 2 one it does not;
   ifs: the interfaces parsed; size: epmaxpacketin[0] and epmaxpacketout[0], 0 for a byte the
   device did not send; code: maxpacketsize, as the size it stands for. *)
Garbled == -1             \* whatever a configuration that was not read says of endpoint 0
Devices == [devnum : 0..MaxDevice, size : Sizes \cup {0, Garbled}, code : Sizes \cup {0},
            value : 0..2, ifs : {"none", "right", "junk"}, failed : BOOLEAN]
Cleared == [devnum |-> 0, size |-> 0, code |-> 0, value |-> 0, ifs |-> "none",
            failed |-> FALSE]

Contents == {"junk", "device", "config"}
Buffers == [head : Contents, rest : Contents]

(* rec: the record taken for it when its port was reset, 0 for none. *)
Peripherals == [there : BOOLEAN, awake : BOOLEAN, addr : 0..MaxDevice, cfg : 0..1,
                size : Sizes, rec : 0..MaxDevice]

Messages == [rec : 0..MaxDevice, to : 0..MaxDevice, route : {"none", "root", "bus"}]

Init ==
  /\ drv = [at |-> "boot", rec |-> 1, addr |-> 1, ret |-> "none"]
  /\ rootdev = 0 /\ ndev = 0
  /\ dev = [r \in Records |-> Cleared]
  /\ buf = [head |-> "junk", rest |-> "junk"]
  /\ per \in [there : {FALSE}, awake : {FALSE}, addr : {0}, cfg : {0}, size : Sizes,
              rec : {0}]
  /\ sent = [rec |-> 0, to |-> 0, route |-> "none"]
  /\ replugs = 0
----------------------------------------------------------------------------
(* usb_control_msg and submit_control_msg. *)

Root == 1                     \* the record of the root hub
Scanned == dev[drv.rec]
Pipe == Scanned.devnum        \* usb_pipedevice of create_pipe
DefaultPipe == 0              \* and of default_pipe

Route(a) == IF a = rootdev THEN "root" ELSE "bus"
Hears(a) == per.awake /\ per.addr = a

Send(a) == sent' = [rec |-> drv.rec, to |-> a, route |-> Route(a)]

Min3(a, b, c) == IF a <= b /\ a <= c THEN a ELSE IF b <= c THEN b ELSE c

(* How a read at address a may end, and with which result: ehci_submit_root has n bytes to
   give, a transfer on the bus returns the length it was asked for. *)
Replies(a) ==
  IF Route(a) = "root" THEN {"full"}
  ELSE {"error"} \cup IF Hears(a) THEN {"full", "short"} ELSE {}
Result(a, r, n, size) ==
  IF r = "error" THEN -1 ELSE IF Route(a) = "root" THEN Min3(n, size, size) ELSE size

(* What an answer new may leave where old was in the buffer: an error may follow the data. *)
Fill(a, r, old, new) ==
  IF r = "full" THEN {new} ELSE IF r = "short" THEN {"junk"}
  ELSE {old} \cup IF Hears(a) THEN {new, "junk"} ELSE {}

(* How a request without data may end; "lost": done, but the answer was not heard; "faked":
   not done, and success reported. *)
Outcomes(a) ==
  IF Route(a) = "root" THEN {"done"}
  ELSE {"error"} \cup
       IF ~Hears(a) THEN {} ELSE {"done", "lost"} \cup IF FakedSuccess THEN {"faked"} ELSE {}
Took(o) == o \in {"done", "lost"}

Goto(p) == drv' = [drv EXCEPT !.at = p]
(* A record whose scan fails stays in the table, and among the children of its hub. *)
Fail == /\ drv' = [drv EXCEPT !.at = IF drv.rec = Root THEN "hung" ELSE "return",
                              !.ret = "error"]
        /\ dev' = [dev EXCEPT ![drv.rec].failed = TRUE]
Update(r) == dev' = [dev EXCEPT ![drv.rec] = r]
----------------------------------------------------------------------------
(* ehci_init, usb_init, usb_alloc_new_device. *)

(* Seeded fault: ehci_init keeps rootdev. *)
KeptRootdev == rootdev
FreshRootdev == 0

(* Seeded faults: addresses start with 0; the device behind the port always has address 2. *)
IndexAsAddress(n) == n
PortAsAddress(n) == IF n = 0 THEN 1 ELSE 2
AddressOf(n) == n + 1

(* Seeded fault: g_dev_index is not advanced. *)
NotTaken(n) == n
Taken(n) == n + 1

(* usb_alloc_new_device when n records are taken, and usb_scan_device up to its first
   request: the address is kept aside, and packets are taken to be of 64 bytes. *)
Begin(table, n) ==
  /\ ndev' = Taken(n)
  /\ dev' = [table EXCEPT ![n + 1] = [Cleared EXCEPT !.size = 64, !.code = 64]]
  /\ drv' = [drv EXCEPT !.at = "first", !.rec = n + 1, !.addr = AddressOf(n), !.ret = "none"]
  /\ buf' = [head |-> "junk", rest |-> "junk"]

(* The reset of the controller resets the port and leaves it disabled. *)
Boot ==
  /\ drv.at = "boot"
  /\ rootdev' = FreshRootdev
  /\ Begin([r \in Records |-> Cleared], 0)
  /\ per' = [per EXCEPT !.awake = FALSE, !.rec = 0]
  /\ UNCHANGED <<sent, replugs>>

Reset(r) == [per EXCEPT !.awake = TRUE, !.addr = 0, !.cfg = 0, !.rec = r]

(* The requests of the hub driver go to the root hub; one that fails may have disabled the
   port. *)
AskHub == sent' = [rec |-> Root, to |-> dev[Root].devnum, route |-> Route(dev[Root].devnum)]
MayDisable == per' \in {per, [per EXCEPT !.awake = FALSE]}

(* usb_hub_scan: nothing there, an error of the port, or a device that hub_port_reset has
   made ready, for which there is a record or not. *)
Full == ndev = MaxDevice
HubScan ==
  /\ drv.at = "scan" /\ AskHub
  /\ \/ /\ \E r \in {"none", "error"} : drv' = [drv EXCEPT !.at = "return", !.ret = r]
        /\ MayDisable
        /\ UNCHANGED <<ndev, dev, buf>>
     \/ /\ per.there /\ Full
        /\ drv' = [drv EXCEPT !.at = "return", !.ret = "error"]
        /\ per' = Reset(0)
        /\ UNCHANGED <<ndev, dev, buf>>
     \/ per.there /\ ~Full /\ Begin(dev, ndev) /\ per' = Reset(ndev + 1)
  /\ UNCHANGED <<rootdev, replugs>>
----------------------------------------------------------------------------
(* usb_scan_device. *)

DeviceLength == 18
HeaderLength == 9
ConfigLength == 25       \* the root hub's

FirstSize(r) == IF drv.rec = Root THEN 64 ELSE IF r = "full" THEN per.size ELSE 0

(* 64 bytes are asked for; the byte that holds bMaxPacketSize0 is used whether it came or
   not.  The root hub has no port to reset. *)
FirstDescriptor ==
  /\ drv.at = "first" /\ Send(Pipe)
  /\ \E r \in Replies(Pipe) :
       IF Result(Pipe, r, DeviceLength, 64) < 0 THEN Fail /\ UNCHANGED buf
       ELSE /\ buf' = IF r = "full" THEN [head |-> "device", rest |-> "device"] ELSE buf
            /\ Update([Scanned EXCEPT !.size = FirstSize(r)])
            /\ Goto(IF drv.rec = Root THEN "address" ELSE "reset")
  /\ UNCHANGED <<rootdev, ndev, per, replugs>>

(* hub_port_reset of the parent's port.  Whether the device is still the one of the first
   reset nobody looks. *)
SecondReset ==
  /\ drv.at = "reset" /\ AskHub
  /\ \/ /\ per.there /\ per' = Reset(per.rec)
        /\ Goto("address") /\ UNCHANGED dev
     \/ Fail /\ MayDisable
  /\ UNCHANGED <<rootdev, ndev, buf, replugs>>

(* Seeded fault: the switch lacks a case. *)
CodedBut8(d) == {IF d.size \in Sizes \ {8} THEN d.size ELSE d.code}
(* A maxpacketsize for every legal size; another one leaves it as it was, and a byte that was
   never received may be either. *)
Coded(d) == IF d.size \in Sizes THEN {d.size} ELSE Sizes \cup {d.code}

AddressPipe == DefaultPipe

(* Seeded fault: the result of a request is ignored. *)
NotLooked(o) == TRUE
Answered(o) == o \in {"done", "faked"}

SetAddress ==
  /\ drv.at = "address" /\ Send(AddressPipe)
  /\ \E o \in Outcomes(AddressPipe), c \in Coded(Scanned) :
       /\ rootdev' = IF Route(AddressPipe) = "root" THEN drv.addr ELSE rootdev
       /\ per' = IF Route(AddressPipe) = "bus" /\ Took(o)
                 THEN [per EXCEPT !.addr = drv.addr] ELSE per
       /\ LET d == [Scanned EXCEPT !.devnum = drv.addr, !.code = c]
          IN  IF Answered(o) THEN Update(d) /\ Goto("descriptor")
              ELSE /\ dev' = [dev EXCEPT ![drv.rec] = [d EXCEPT !.failed = TRUE]]
                   /\ drv' = [drv EXCEPT !.at = IF drv.rec = Root THEN "hung" ELSE "return",
                                         !.ret = "error"]
  /\ UNCHANGED <<ndev, buf, replugs>>

(* The descriptor is read in full; tmpbuf is not used. *)
FullDescriptor ==
  /\ drv.at = "descriptor" /\ Send(Pipe)
  /\ \E r \in Replies(Pipe) :
       IF Result(Pipe, r, DeviceLength, DeviceLength) < DeviceLength THEN Fail
       ELSE Goto("header") /\ UNCHANGED dev
  /\ UNCHANGED <<rootdev, ndev, buf, per, replugs>>

(* usb_get_configuration_no reads the header, gives up if the whole would not fit the
   buffer, and reads the whole; its result is ignored. *)
ConfigHeader ==
  /\ drv.at = "header" /\ Send(Pipe)
  /\ \E r \in Replies(Pipe) :
       /\ \E c \in Fill(Pipe, r, buf.head, "config") : buf' = [buf EXCEPT !.head = c]
       /\ IF Result(Pipe, r, ConfigLength, HeaderLength) < HeaderLength
          THEN Goto("parse") ELSE Goto("config") \/ (drv.rec # Root /\ Goto("parse"))
  /\ UNCHANGED <<rootdev, ndev, dev, per, replugs>>

WholeConfig ==
  /\ drv.at = "config" /\ Send(Pipe)
  /\ \E r \in Replies(Pipe) :
       \E h \in Fill(Pipe, r, buf.head, "config"), c \in Fill(Pipe, r, buf.rest, "config") :
         buf' = [head |-> h, rest |-> c]
  /\ Goto("parse")
  /\ UNCHANGED <<rootdev, ndev, dev, per, replugs>>

(* usb_parse_config: what it makes of the buffer.  It stops at once unless the buffer starts
   with a configuration descriptor, and what was never read may look like one. *)
Parsed(d) ==
  (IF buf.head = "config"
   THEN {[d EXCEPT !.value = 1, !.ifs = IF buf.rest = "config" THEN "right" ELSE "junk"]}
   ELSE {})
  \cup (IF buf.head = "junk" THEN {[d EXCEPT !.value = v, !.ifs = "junk"] : v \in 0..2}
        ELSE {})
  \cup (IF buf.head = "config" THEN {} ELSE {d})

(* usb_set_maxpacket: a configuration that was read names no endpoint 0; what stands for one
   in the buffer may, and overrides the size that the device descriptor gave. *)
SetMaxpacket(d) ==
  {d} \cup IF d.ifs = "junk" THEN {[d EXCEPT !.size = Garbled]} ELSE {}

ParseConfig ==
  /\ drv.at = "parse"
  /\ \E d \in Parsed(Scanned) : \E e \in SetMaxpacket(d) : Update(e)
  /\ Goto("configure")
  /\ UNCHANGED <<rootdev, ndev, buf, per, sent, replugs>>

(* A value the device does not know is refused. *)
Known(v) == v # 2

Accepted(o) == Answered(o) /\ Known(Scanned.value)

SetConfiguration ==
  /\ drv.at = "configure" /\ Send(Pipe)
  /\ \E o \in Outcomes(Pipe) :
       /\ per' = IF Route(Pipe) = "bus" /\ Took(o) /\ Known(Scanned.value)
                 THEN [per EXCEPT !.cfg = Scanned.value] ELSE per
       /\ IF Accepted(o) THEN Goto("strings") /\ UNCHANGED dev ELSE Fail
  /\ UNCHANGED <<rootdev, ndev, buf, replugs>>

(* The strings may fail without consequence. *)
Strings ==
  /\ drv.at = "strings" /\ Send(Pipe)
  /\ drv' = IF drv.rec = Root THEN [drv EXCEPT !.at = "is_hub"]
            ELSE [drv EXCEPT !.at = "return", !.ret = "found"]
  /\ UNCHANGED <<rootdev, ndev, dev, buf, per, replugs>>
----------------------------------------------------------------------------
(* The root hub, main, and the device. *)

IsHub(d) == d.ifs = "right"
RootIsHub == /\ drv.at = "is_hub" /\ Goto(IF IsHub(Scanned) THEN "hub_init" ELSE "hung")
             /\ UNCHANGED <<rootdev, ndev, dev, buf, per, sent, replugs>>

(* The hub descriptor, the hub status and the power of the ports: requests to the hub. *)
HubInit ==
  /\ drv.at = "hub_init" /\ Send(Pipe)
  /\ Goto(IF Replies(Pipe) = {"full"} THEN "scan" ELSE "hung")
  /\ UNCHANGED <<rootdev, ndev, dev, buf, per, replugs>>

(* main starts over, or stops on an error; the contract of usb_hub_scan also lets a caller
   scan again. *)
Caller ==
  /\ drv.at = "return"
  /\ \/ Goto(IF drv.ret = "error" THEN "hung" ELSE "boot")
     \/ Goto("scan")
  /\ UNCHANGED <<rootdev, ndev, dev, buf, per, sent, replugs>>

Plug ==
  /\ ~per.there /\ replugs < MaxReplugs /\ replugs' = replugs + 1
  /\ \E s \in Sizes : per' = [per EXCEPT !.there = TRUE, !.size = s]
  /\ UNCHANGED <<drv, rootdev, ndev, dev, buf, sent>>

Unplug ==
  /\ per.there /\ replugs < MaxReplugs /\ replugs' = replugs + 1
  /\ per' = [per EXCEPT !.there = FALSE, !.awake = FALSE, !.rec = 0]
  /\ UNCHANGED <<drv, rootdev, ndev, dev, buf, sent>>

ScanDevice == \/ FirstDescriptor \/ SecondReset \/ SetAddress \/ FullDescriptor
              \/ ConfigHeader \/ WholeConfig \/ ParseConfig \/ SetConfiguration \/ Strings
Next == \/ Boot \/ HubScan \/ ScanDevice \/ RootIsHub \/ HubInit \/ Caller
        \/ Plug \/ Unplug
Spec == Init /\ [][Next]_vars
----------------------------------------------------------------------------
TypeOK ==
  /\ drv \in Drivers /\ rootdev \in 0..MaxDevice /\ ndev \in 0..MaxDevice
  /\ dev \in [Records -> Devices] /\ buf \in Buffers /\ per \in Peripherals
  /\ sent \in Messages /\ replugs \in 0..MaxReplugs

(* submit_control_msg: "if (usb_pipedevice(pipe) == rootdev)".  The root hub's requests
   reach ehci_submit_root and no other record's do, although at the start of every loop both
   rootdev and the root hub's address are 0, as is the address of the next device to come. *)
RoutedRight ==
  sent.rec # 0 => (sent.route = "root" <=> sent.rec = Root)

(* A request is sent to the address at which its device answers: as long as the device that
   the record was taken for is there and its scan has not failed, also after the second reset
   and after SET_ADDRESS, which goes to address 0. *)
Requesting == {"first", "descriptor", "header", "config", "configure", "strings"}
ReachesDevice ==
  per.rec = drv.rec /\ ~Scanned.failed =>
    /\ drv.at \in Requesting => Hears(Pipe)
    /\ drv.at = "address" => Hears(AddressPipe)

(* usb_alloc_new_device: "default Address is 0, real addresses start with 1".  No record but
   its own has the address at which the device answers: neither the root hub's, nor one the
   caller kept from an earlier scan of the port, nor that of a failed scan that went as far as
   SET_ADDRESS.  Only the default address, before that, it may share with failed scans. *)
AddressUnambiguous ==
  per.awake /\ per.rec # 0 =>
    \A r \in 1..ndev :
      r # per.rec /\ dev[r].devnum = per.addr => per.addr = 0 /\ dev[r].failed

(* What the controller is told of the packet size of endpoint 0 (usb_maxpacket) is what the
   device said, and maxpacketsize encodes the same size, in every request after SET_ADDRESS,
   those after usb_set_maxpacket included; but for a device whose first descriptor did not
   reach the byte, or whose configuration was not read in full. *)
Sized == Scanned.size # 0 /\ (drv.at \in {"configure", "strings"} => Scanned.ifs # "junk")
PacketSizeRight ==
  drv.at \in Requesting \ {"first"} /\ Sized =>
    /\ Scanned.code = Scanned.size
    /\ per.rec = drv.rec => Scanned.size = per.size

(* usb_scan_device: "Returns 0 for success".  The device behind the port after a scan that
   found one, also if it took the place of another between the two resets, answers at the
   address in the record and has the configuration the record holds; and when tmpbuf held the
   whole configuration, that is the one the device knows, with its interfaces. *)
Found == drv.at = "return" /\ drv.ret = "found"
ConfigRead == buf.head = "config" /\ buf.rest = "config"
FoundAgrees ==
  Found =>
    /\ per.awake \/ per.rec = drv.rec =>
         per.addr = Scanned.devnum /\ per.cfg = Scanned.value
    /\ ConfigRead => Scanned.value = 1 /\ Scanned.ifs = "right"

(* The inductive invariants behind these, in parts.  The first record is the root hub's, and
   ehci_submit_root answers its address from the beginning of its scan on; a record has no
   address until SET_ADDRESS, and its own index after it. *)
Unaddressed == {"first", "reset", "address"}
Addressed == {"descriptor", "header", "config", "parse", "configure", "strings"}
Scanning == Unaddressed \cup Addressed
TableInv ==
  /\ drv.addr = drv.rec /\ (drv.at # "boot" => drv.rec = ndev)
  /\ drv.at = "reset" => drv.rec # Root
  /\ drv.at \in {"is_hub", "hub_init"} => drv.rec = Root
  /\ drv.at \notin {"boot", "hung"} =>
       LET up == IF drv.rec = Root /\ drv.at \in Unaddressed THEN 0 ELSE 1
       IN  rootdev = up /\ dev[Root].devnum = up
  /\ drv.at \in Scanning =>
       ~Scanned.failed /\ Scanned.devnum = IF drv.at \in Addressed THEN drv.rec ELSE 0
RouteInv == TableInv /\ RoutedRight

(* A device has the address of its record or none, and only the record being scanned may
   have none without having failed. *)
AddressInv ==
  /\ ~per.there => per.rec = 0
  /\ per.rec # 0 => per.rec \in 2..ndev /\ per.addr \in {0, per.rec}
  /\ drv.at \in Scanning => per.rec \in {0, drv.rec}
  /\ \A r \in 1..ndev :
       /\ dev[r].devnum \in {0, r}
       /\ dev[r].devnum = 0 => dev[r].failed \/ (r = drv.rec /\ drv.at \in Unaddressed)

(* What the record says of the device it was taken for. *)
SizeInv ==
  /\ drv.at \in Scanning \ {"first", "configure", "strings"} => Scanned.size # Garbled
  /\ drv.at \in Scanning \ {"first"} /\ Sized /\ per.rec = drv.rec =>
       Scanned.size = per.size
  /\ drv.at \in Addressed /\ Sized => Scanned.code = Scanned.size

(* The device a record was taken for hears the requests; whichever device the port lets
   through has been told what the record says; and the record says what was read. *)
HearInv ==
  /\ ReachesDevice
  /\ (drv.at \in Addressed \/ Found) /\ per.rec = drv.rec => Hears(Pipe)
AwakeInv ==
  /\ Found => drv.rec # Root
  /\ drv.rec # Root /\ per.awake =>
       /\ drv.at \in Unaddressed => per.addr = 0
       /\ drv.at \in Addressed \/ Found => per.addr = Scanned.devnum
       /\ drv.at = "strings" \/ Found => per.cfg = Scanned.value
ReadInv ==
  (drv.at \in {"configure", "strings"} \/ Found) /\ ConfigRead =>
    Scanned.value = 1 /\ Scanned.ifs = "right"
DeviceInv == HearInv /\ AwakeInv /\ ReadInv

LifeOf(p) == IF ~p.awake THEN "gone" ELSE IF p.addr = 0 THEN "default" ELSE "address"
Life == INSTANCE DeviceLife WITH
          Free <- 2..MaxDevice, Configs <- 0..1,
          state <- LifeOf(per), address <- per.addr, config <- per.cfg
(* Enumeration leads the device through its states in order. *)
LedInOrder == Life!Spec
=============================================================================
