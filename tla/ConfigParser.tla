---------------------------- MODULE ConfigParser ----------------------------
(***************************************************************************)
(* usb_parse_config, usb_set_maxpacket and usb_set_interface of usb.c: what*)
(* the driver knows of the interfaces of a device and of the packet sizes  *)
(* of its endpoints.                                                       *)
(*                                                                         *)
(* The configuration is read one descriptor at a time, and the device makes*)
(* each of them up as it is read, within the rules of USB 2.0 chapter 9.6: *)
(* the settings of an interface follow one another, each is followed by the*)
(* endpoints it announces, and an endpoint address belongs to one interface*)
(* only.  Descriptors of other types come anywhere.                        *)
(***************************************************************************)
EXTENDS Integers, Sequences

CONSTANTS
  MaxIf,      \* USB_MAXINTERFACES
  MaxEp,      \* USB_MAXENDPOINTS, which the endpoints of an interface, those of all its
              \* settings together, are assumed to respect: the code does not look
  Numbers,    \* the interface numbers of devices
  Addresses,  \* endpoint numbers but 0
  Sizes,      \* values of wMaxPacketSize
  MaxDesc     \* bound: how many descriptors follow that of the configuration

ASSUME ParserAssumption ==
  /\ MaxIf \in Nat /\ MaxEp \in Nat /\ MaxDesc \in Nat
  /\ Numbers \subseteq Nat /\ Addresses \subseteq Nat
  /\ Sizes \subseteq Nat \ {0}

VARIABLES
  at,      \* where the program is
  nif,     \* config.desc.bNumInterfaces
  ifs,     \* config.if_desc, entries 0 to no_of_if - 1; the last is the one at ifno
  curr,    \* curr_if_num, -1 before the first interface
  loop,    \* i and ii of usb_set_maxpacket, from 1
  max,     \* epmaxpacketin and epmaxpacketout
  dev,     \* the device: its interfaces, as far as it has described them
  count,   \* how many descriptors it has sent
  call     \* the last call of usb_set_interface, what it returned, what the device has done

vars == <<at, nif, ifs, curr, loop, max, dev, count, call>>

Places == {"header", "loop", "maxpacket", "ready"}
Dirs == {"in", "out"}
Endpoints == [n : Addresses, dir : Dirs, control : BOOLEAN, size : Sizes]

(* bInterfaceNumber, bNumEndpoints, num_altsetting and ep_desc of an entry; the length of the
   sequence is no_of_ep. *)
Entries == [num : Numbers, nep : 0..MaxEp, settings : 1..MaxDesc, eps : Seq(Endpoints)]

Settings == [nep : 0..MaxEp, eps : Seq(Endpoints)]
Interfaces == [num : Numbers, alts : Seq(Settings)]
NoCall == [num |-> 0, alt |-> 0, ret |-> "none", used |-> 0]
Calls == [num : Nat, alt : Nat, ret : {"none", "ok", "invalid", "error"}, used : Nat]

Init ==
  /\ at = "header" /\ nif = 0 /\ ifs = <<>> /\ curr = -1
  /\ loop = [i |-> 1, ii |-> 1]
  /\ max = [n \in Addresses |-> [d \in Dirs |-> 0]]
  /\ dev = <<>> /\ count = 0 /\ call = NoCall
----------------------------------------------------------------------------
(* The device. *)

LastOf(s) == s[Len(s)]
Setting == LastOf(LastOf(dev).alts)
Due == IF dev = <<>> THEN 0 ELSE Setting.nep - Len(Setting.eps)

EndpointsIn(s) == {s.eps[j] : j \in 1..Len(s.eps)}
AllEndpoints(i) == UNION {EndpointsIn(i.alts[a]) : a \in 1..Len(i.alts)}

(* A control endpoint takes both directions of its number. *)
Clash(e, f) == e.n = f.n /\ (e.dir = f.dir \/ e.control \/ f.control)
Free(e) ==
  /\ \A f \in EndpointsIn(Setting) : ~Clash(e, f)
  /\ \A i \in 1 .. Len(dev) - 1 : \A f \in AllEndpoints(dev[i]) : ~Clash(e, f)

NewInterface(n, k) ==
  /\ Len(dev) < nif /\ \A i \in 1..Len(dev) : dev[i].num # n
  /\ dev' = Append(dev, [num |-> n, alts |-> <<[nep |-> k, eps |-> <<>>]>>])

NewSetting(n, k) ==
  /\ dev # <<>> /\ n = LastOf(dev).num
  /\ dev' = [dev EXCEPT ![Len(dev)].alts = Append(@, [nep |-> k, eps |-> <<>>])]

NewEndpoint(e) ==
  /\ Due > 0 /\ Free(e)
  /\ dev' = [dev EXCEPT ![Len(dev)].alts[Len(LastOf(dev).alts)].eps = Append(@, e)]
----------------------------------------------------------------------------
(* usb_parse_config. *)

(* A buffer that does not start with a configuration descriptor is refused. *)
NotConfig ==
  /\ at = "header" /\ at' = "maxpacket"
  /\ UNCHANGED <<nif, ifs, curr, loop, max, dev, count, call>>

Config ==
  /\ at = "header" /\ at' = "loop"
  /\ nif' \in 1..MaxIf
  /\ UNCHANGED <<ifs, curr, loop, max, dev, count, call>>

NextDescriptor ==
  /\ at = "loop" /\ count < MaxDesc /\ count' = count + 1
  /\ UNCHANGED <<at, nif, loop, max, call>>

(* Seeded fault: an interface is told from a setting by its position. *)
NotInOrder(n) == n # Len(ifs) - 1
IsNew(n) == n # curr

(* Seeded fault: the endpoints of a setting replace those of the one before. *)
CountAndForget(e) == [e EXCEPT !.settings = @ + 1, !.eps = <<>>]
CountSetting(e) == [e EXCEPT !.settings = @ + 1]

(* Seeded fault: only the other settings are counted. *)
NoSettingYet(n, k) == [num |-> n, nep |-> k, settings |-> 0, eps |-> <<>>]
(* The entry of an interface holds the descriptor of its first setting. *)
FirstSetting(n, k) == [num |-> n, nep |-> k, settings |-> 1, eps |-> <<>>]

ParseInterface(n, k) ==
  IF IsNew(n)
  THEN /\ ifs' = Append(ifs, FirstSetting(n, k))
       /\ curr' = n
  ELSE ifs' = [ifs EXCEPT ![Len(ifs)] = CountSetting(@)] /\ UNCHANGED curr

OnInterface ==
  /\ NextDescriptor /\ Due = 0
  /\ \E n \in Numbers, k \in 0..MaxEp :
       /\ dev # <<>> /\ n = LastOf(dev).num => Len(LastOf(ifs).eps) + k <= MaxEp
       /\ NewInterface(n, k) \/ NewSetting(n, k)
       /\ ParseInterface(n, k)

(* The endpoints of all settings are kept one after the other. *)
OnEndpoint ==
  /\ NextDescriptor
  /\ \E e \in Endpoints :
       /\ NewEndpoint(e)
       /\ ifs' = [ifs EXCEPT ![Len(ifs)].eps = Append(@, e)]
  /\ UNCHANGED curr

OnOther == NextDescriptor /\ UNCHANGED <<dev, ifs, curr>>

(* The index has reached wTotalLength: the device has sent what it has announced. *)
Parsed ==
  /\ at = "loop" /\ Due = 0 /\ Len(dev) = nif /\ at' = "maxpacket"
  /\ UNCHANGED <<nif, ifs, curr, loop, max, dev, count, call>>
----------------------------------------------------------------------------
(* usb_set_maxpacket and usb_set_maxpacket_ep. *)

Larger(a, b) == IF a > b THEN a ELSE b
SetMaxpacketEp(e) ==
  max' = [max EXCEPT ![e.n] = [d \in Dirs |->
            IF e.control THEN e.size
            ELSE IF e.dir = d THEN Larger(max[e.n][d], e.size) ELSE max[e.n][d]]]

(* Seeded fault: every endpoint of the interface, of whatever setting. *)
EveryEndpoint(e) == Len(e.eps)
LoopEnd(e) == e.nep

MaxpacketEp ==
  /\ at = "maxpacket" /\ loop.i <= nif /\ loop.ii <= LoopEnd(ifs[loop.i])
  /\ SetMaxpacketEp(ifs[loop.i].eps[loop.ii])
  /\ loop' = [loop EXCEPT !.ii = @ + 1]
  /\ UNCHANGED <<at, nif, ifs, curr, dev, count, call>>

NextInterface ==
  /\ at = "maxpacket" /\ loop.i <= nif /\ loop.ii > LoopEnd(ifs[loop.i])
  /\ loop' = [i |-> loop.i + 1, ii |-> 1]
  /\ UNCHANGED <<at, nif, ifs, curr, max, dev, count, call>>

Maxpacket ==
  /\ at = "maxpacket" /\ loop.i > nif /\ at' = "ready"
  /\ UNCHANGED <<nif, ifs, curr, loop, max, dev, count, call>>
----------------------------------------------------------------------------
(* usb_set_interface, called once: for an interface the device does not have, or for a
   setting which it has. *)

(* Seeded fault: not more than two settings are not worth a request. *)
HasFewSettings(i) == ifs[i].settings <= 2
HasOneSetting(i) == ifs[i].settings = 1

EntriesOf(n) == {i \in 1..nif : ifs[i].num = n}
Called(n, a, ret, used) == call' = [num |-> n, alt |-> a, ret |-> ret, used |-> used]

SetInterface ==
  /\ at = "ready" /\ call = NoCall
  /\ \/ \E n \in Numbers : EntriesOf(n) = {} /\ Called(n, 0, "invalid", 0)
     \/ \E i \in 1..nif : \E a \in 0 .. Len(dev[i].alts) - 1 :
          IF HasOneSetting(i) THEN Called(ifs[i].num, a, "ok", 0)
          ELSE \/ Called(ifs[i].num, a, "ok", a)
               \/ \E used \in {0, a} : Called(ifs[i].num, a, "error", used)
  /\ UNCHANGED <<at, nif, ifs, curr, loop, max, dev, count>>

Next == \/ NotConfig \/ Config \/ OnInterface \/ OnEndpoint \/ OnOther \/ Parsed
        \/ MaxpacketEp \/ NextInterface \/ Maxpacket \/ SetInterface
Spec == Init /\ [][Next]_vars
----------------------------------------------------------------------------
TypeOK ==
  /\ at \in Places /\ nif \in 0..MaxIf /\ ifs \in Seq(Entries) /\ curr \in Numbers \cup {-1}
  /\ loop \in [i : 1 .. nif + 1, ii : 1 .. MaxEp + 1]
  /\ max \in [Addresses -> [Dirs -> Sizes \cup {0}]]
  /\ dev \in Seq(Interfaces) /\ count \in 0..MaxDesc /\ call \in Calls

(* usb_parse_config tells an interface from another setting of the one before by comparing
   their numbers: it finds every interface of the device, each once and with all its settings,
   and no_of_if never passes bNumInterfaces, which bounds the loops over if_desc. *)
InterfacesRight ==
  /\ Len(ifs) = Len(dev) /\ Len(ifs) <= nif
  /\ \A i \in 1..Len(ifs) : /\ ifs[i].num = dev[i].num
                            /\ ifs[i].settings = Len(dev[i].alts)
                            /\ ifs[i].nep = dev[i].alts[1].nep

(* Endpoints of later settings are appended in ep_desc: those of the setting that is in use
   after SET_CONFIGURATION stay the first ones, in their order, and bNumEndpoints counts
   just them. *)
DefaultEndpoints ==
  \A i \in 1..Len(ifs) : \A j \in 1..Len(dev[i].alts[1].eps) :
    j <= Len(ifs[i].eps) /\ ifs[i].eps[j] = dev[i].alts[1].eps[j]

(* The table of packet sizes holds what the endpoints of the first settings say and nothing
   else, however the settings reuse their addresses (usb_maxpacket reads it). *)
Default == UNION {EndpointsIn(dev[i].alts[1]) : i \in 1..Len(dev)}
MaxPacketRight ==
  at = "ready" =>
    \A n \in Addresses, d \in Dirs :
      LET here == {e \in Default : e.n = n /\ (e.dir = d \/ e.control)}
      IN  IF here = {} THEN max[n][d] = 0 ELSE \A e \in here : max[n][d] = e.size

(* usb_set_interface returns without a request for "devices with only one alternate setting":
   when it returns 0 the interface uses the setting it was asked for. *)
SettingSelected == call.ret = "ok" => call.used = call.alt
----------------------------------------------------------------------------
(* What makes them inductive. *)

(* The entry that is filled is that of the interface the device is at. *)
EntryInv ==
  /\ at = "header" => nif = 0 /\ dev = <<>>
  /\ curr = IF dev = <<>> THEN -1 ELSE LastOf(dev).num
  /\ InterfacesRight
  /\ \A i \in 1..Len(dev) : Len(dev[i].alts) \in 1..count

(* The first setting of an interface is complete before anything else follows. *)
First(i) == dev[i].alts[1]
Complete(i) == Len(First(i).eps) = First(i).nep
FirstInv ==
  /\ DefaultEndpoints
  /\ \A i \in 1..Len(dev) :
       /\ Len(First(i).eps) <= First(i).nep
       /\ i < Len(dev) \/ Len(dev[i].alts) > 1 => Complete(i)
       /\ Len(dev[i].alts) = 1 => Len(ifs[i].eps) = Len(First(i).eps)
  /\ at \in {"maxpacket", "ready"} => Len(dev) = nif /\ \A i \in 1..nif : Complete(i)

(* Endpoints of first settings share no direction of an address. *)
ClashInv ==
  \A i, k \in 1..Len(dev) : \A j \in 1..Len(First(i).eps), l \in 1..Len(First(k).eps) :
    Clash(First(i).eps[j], First(k).eps[l]) => i = k /\ j = l

(* The table has the sizes of the endpoints the loop has passed. *)
Passed(i, j) == i < loop.i \/ (i = loop.i /\ j < loop.ii)
Covers(e, n, d) == e.n = n /\ (e.dir = d \/ e.control)
Agrees(n, d) ==
  /\ \A i \in 1..Len(dev) : \A j \in 1..Len(First(i).eps) :
       Passed(i, j) /\ Covers(First(i).eps[j], n, d) => max[n][d] = First(i).eps[j].size
  /\ (\A i \in 1..Len(dev) : \A j \in 1..Len(First(i).eps) :
        Passed(i, j) => ~Covers(First(i).eps[j], n, d)) => max[n][d] = 0
MaxInv ==
  /\ at \in {"header", "loop"} =>
       loop = [i |-> 1, ii |-> 1] /\ \A n \in Addresses, d \in Dirs : max[n][d] = 0
  /\ at = "ready" => loop.i > nif
  /\ \A n \in Addresses, d \in Dirs : Agrees(n, d)
=============================================================================
