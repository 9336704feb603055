# TLA+ models of pure-usb

pure-usb is a bare-metal test program for the Fujitsu USB 2.0 host controller: an EHCI
driver and a USB core taken from U-Boot, around a loop that initialises the controller,
finds the root hub, scans its port 0 for a device, and starts over (`src/main.c`). There is
one thread and no interrupt. The concurrency is between that thread and the hardware: a
host controller that reads and writes the driver's memory while the driver polls it, a port
whose bits change between the read and the write of a request, devices that lose packets
and are pulled out.

This directory holds the models of that program, the TLC configurations that check them
and the proofs TLAPS checks.

| file | what it is |
| --- | --- |
| `EhciHcd.tla` | `ehci_init`, `ehci_submit_async` and its callers against a controller that shares memory with them |
| `DmaOwnership.tla` | abstract specification: the shared memory has one owner at a time; `EhciHcd` implements it |
| `MCEhciHcd.tla` | the calls and the fault sets the runs of `EhciHcd` choose from |
| `EhciHcdProofs.tla`, `EhciStatusProofs.tla` | type correctness, reset, quiescence, the refinement, the length of a call; what a finished call reports |
| `RootHub.tla` | `ehci_submit_root`, `usb_hub_scan` and what it calls, the loop of `main`, against a port |
| `RootHubProofs.tla` | type correctness, errors and length of a scan, what passes a reset, the size of the table |
| `Enumeration.tla` | `usb_scan_roothub` and `usb_scan_device` request by request, and the routing by `rootdev`, against a device that comes and goes |
| `DeviceLife.tla` | abstract specification: the states a device is led through; `Enumeration` implements it |
| `EnumerationProofs.tla` | the invariants of `Enumeration` and the refinement |
| `ConfigParser.tla`, `ConfigParserProofs.tla` | `usb_parse_config`, `usb_set_maxpacket`, `usb_set_interface`, and what they make of every configuration |
| `TdBuffer.tla`, `TdBufferProofs.tla` | the page loop of `ehci_td_buffer`, and its correctness for every buffer |
| `Division.tla`, `ArmArithmetic.tla` | division of words and double words; modulo, signed division and double-word shifts of `src/arm` |
| `Memory.tla` | `memmove`, `memcpy`, `bcopy` and `memset` |
| `Decimal.tla` | `put_dec`, `put_dec_full` and `put_dec_trunc` |
| `CStrings.tla` | the other functions of `string.c`: lengths, comparisons, searches, copies, splitters |
| `UsbString.tla` | string descriptors: `usb_string` and what it calls |
| `Loops.tla` | a loop as a function on its states, for `Division`, `Decimal`, `CStrings` and `UsbString` |
| `LibraryCalls.tla` | the calls of these modules and what they are to compute |
| `LibraryProofs.tla`, `StringProofs.tla` | their correctness for every input: moves, division and digits; the functions of `string.c` on strings, and string descriptors |
| `Vsprintf.tla` | formatting and number parsing |
| `MCLibrary.tla` | all library modules against reference definitions |
| `*.cfg` | one run each; `PROJECT.json` lists them with properties, mutants and source lines |

Every definition that stands for code is listed in `PROJECT.json` with its lines.
Definitions under the comment "Seeded fault" are not part of a specification: each is a
plausible slip in the code, kept beside the definition it would replace, and shows that the
properties notice it.

## Inventory

**Main loop** (`main.c`, `hang.c`). State: none but the loop. `ehci_init`, `ohci_check`,
`usb_init`, `usb_scan_roothub`, `usb_hub_init`, `usb_hub_scan(roothub, 0, &dev)`; any error
ends in `hang`, a scan that finds nothing or something goes round again. Correct if a round
cannot be poisoned by what an earlier round left.

**EHCI initialisation** (`ehci_reset`, `ehci_init`, `ehci-fusb20.c`). State: USBCMD,
`qh_list`, `rootdev`. Stops the controller, waits for HCHalted, resets it, waits, builds the
empty list, sets RUN and the configure flag. Hard: it is called over a controller that an
abandoned transfer may have left running. Correct if it touches the schedule memory only
when the controller has really stopped, and if it always comes back.

**EHCI asynchronous transfers** (`ehci_submit_async`, `handshake`, `ehci_alloc`). State: the
static QH, three static qTDs, `qh_list.qh_link`, the QH overlay (all shared with the
controller), USBCMD and USBSTS, and of the `usb_device` `toggle`, `status`, `act_len`. Links
a chain SETUP, DATA, ACK, switches the schedule on, polls the last qTD, switches it off,
decodes the overlay. Hard: every wait may time out while the controller goes on; the overlay
describes one stage, not the chain; packets are retried. Correct if the driver never
reuses memory that the controller can reach, if the status is what happened, and if toggles
and lengths agree with the device's.

**qTD buffer pointers** (`ehci_td_buffer`). Pure: five page pointers for a buffer. Correct at
page boundaries, at the end of the address space and at the limit of 20 KB.

**Root hub** (`ehci_submit_root`). State: PORTSC, the static `portreset`, `rootdev`. Answers
the requests of a hub class driver by read-modify-write of a register with
write-one-to-clear bits. Hard: the port changes between read and write, and clearing one
change bit can clear another.

**Hub driver** (`usb_hub_scan`, `usb_hub_port_connect_change`, `hub_port_reset`,
`usb_hub_power_on`, `usb_hub_init`). State: the status words it holds while acting on them,
the retry counter, the device table. Hard: statuses are stale when used; a change that is
not cleared is seen again for ever, one cleared too much is never seen.

**Device table and enumeration** (`usb_init`, `usb_alloc_new_device`, `usb_scan_device`,
`usb_scan_roothub`, `usb_is_hub`). State: `usb_dev[32]`, `g_dev_index`, `children`, `devnum`,
`maxpacketsize`, `rootdev`. Takes a record, reads the descriptor at address 0, resets the
port again, sets the address, reads and parses the configuration. Hard: each request may
fail, lose its answer or meet another device than the one before; a record stays after a
failure; some results are ignored; the root hub and a new device both answer at address 0,
and only `rootdev` tells them apart. Correct if every request reaches what it is meant for,
no two records share an address, and a device reported as found is as its record says.

**Configuration parsing and packet sizes** (`usb_parse_config`, `usb_set_maxpacket`,
`usb_set_maxpacket_ep`, `usb_set_interface`). State: `config.if_desc`, `epmaxpacketin`,
`epmaxpacketout`. Hard: one flat sequence of descriptors tells interfaces, their alternate
settings and the endpoints of all settings; a number that repeats is the only mark. Correct
if the interfaces are those of the device and the packet sizes those of the settings in use.

**USB message layer, toggles and halts** (`usb_control_msg`, `usb_bulk_msg`,
`usb_clear_halt`). Turn `status` and `act_len` into return values and keep the toggles.

**Library**: string descriptors (`usb_string`: UTF-16LE to bytes, retries, workarounds),
`vsprintf` and the number parsers, `string.c`, division and shifts for the ARM core. Pure, but
for `strtok`'s place. Correct if bounds hold and the conversion is the right one; hard are the
tricks: reciprocals instead of divisions, fix-ups from a rotated bit, limits that end a loop
in two ways.

**Debugging and board support**: the ring of the last register accesses, the OHCI
experiment, console, UART, timers, start-up code.

How they meet: `main` calls the hub driver; the hub driver and enumeration call
`usb_control_msg`; that calls `submit_control_msg`, which sends a pipe whose device is
`rootdev` to `ehci_submit_root` and every other to `ehci_submit_async`. The transfer engine
and the controller share the QH and the qTDs; the root hub and the controller share PORTSC;
the two halves of the driver meet only in the return values.

`RootHub` and `Enumeration` are two views of one pass of `main`'s loop. `RootHub` has the
port in full and of the scan of a device only the two steps that depend on the port;
`Enumeration` has every request of that scan and of the port only what a reset and an unplug
do to the device. What a transfer may return, in either, is what `EhciHcd` shows: an error
with or without an effect on the device, and success with the full length, also after a short
answer. `ConfigParser` looks inside the one step `ParseConfig` of `Enumeration`.

## EhciHcd

One call at a time is made, from the set `Calls`: a control or bulk transfer by direction
and length, or `usb_clear_halt`. `pc` is the place in `ehci_init` (`boot`, `haltwait`,
`resetwait`, `setup`, `hung`), in `ehci_submit_async` (`clear` to `finish` and `fail`) or
between calls (`idle`), and each driver action ends at an access to a register or to shared
memory: `Submit` builds the chain and links it (or, when the buffer pointers run out at the DATA
stage, leaves SETUP and DATA filled and unlinked), `Enable` and `Disable` write USBCMD,
`WaitOn`, `Poll` and `WaitOff` are one poll each, `Finish` decodes, `Fail` is the `fail`
label after a failed handshake. `Result` and `SavedToggle` are what the callers in `usb.c`
make of the outcome, in the same step since nobody else reads those fields.

The controller and the device are no code of this repository and are marked external in the
map. They are written from what the driver relies on: the schedule follows ASE when it likes
(`HcFollowAse`), the controller finds the QH through the list and keeps it until the schedule
is off (`HcEnter`, `held`), copies a qTD into the overlay (`HcFetch`), moves packets and
writes the result back (`Retire`), one action per kind of transaction. Acknowledgements are
lost in both directions (`HcLostAckOut`, `HcLostAckIn`) with the retry and the discarded
duplicate that follow, devices send short packets, transactions fail and are tried again,
endpoints stall and babble. `Faults` adds status bits that come too late (`late`), a fatal
error at any step (`fatal`) and a controller whose registers read all ones (`gone`).

Payload is counted in packets. The pool counter of `qtd` is left out since a chain never has
more than three stages (lemma `StagesType`). `devTog`, `owed`, `moved` and `synced` are the
device's side and history; no driver action reads them.

| run | bounds | what it shows |
| --- | --- | --- |
| `EhciTransfers` | control transfers of two and three stages in both directions, bulk transfers of 2 packets in both, `usb_clear_halt`, in any sequence; no controller fault | `StatusFaithful`: OK only for a stage retired cleanly, never for a halted chain, and always for a chain completed cleanly, even one completed after the last poll. `ToggleAgrees` and `BulkLengthExact`: after a transfer that began in step and is reported OK the toggles agree and `act_len` counts each packet once, whatever was lost and repeated |
| `EhciStopping` | chains of three, of one and one that does not fit, `fatal` and `gone` | `MemoryDiscipline`: the QH and the qTDs are lent, worked on and returned as `DmaOwnership` says; while the driver has them, only the driver changes them |
| `EhciAllFaults` | one short call, all faults, fair driver | `Quiescent`: between calls a running controller reaches the QH and the qTDs only if it is `late`, and only after a call that a failed handshake ended with -1. `ReinitRecovers`, `CallReturns`: an initialisation that reaches the schedule setup has stopped the controller; every call returns |
| `EhciCompletion` (violation) | one short call, no fault | `OkMeansCompleted` |

Bounds. Two packets are the least that tell a full transfer from a partial one and let the
toggle come back to where it was; two polls (`Tries`) tell a wait that succeeds, goes on and
times out. Calls follow each other without limit, so what one leaves the next finds. `moved`
is at most `MaxLen` plus the repeated packets and needs no bound.

A wait ends by its count only if the model says so (`TimesOut`): a controller that is not
`late` answers within the 100 ms the driver allows, except one that has stopped or vanished.
The wait for completion may always end by its count, because a device may answer NAK for
ever; but by then a live controller has fetched the first qTD.

That a `late` controller can be at the memory after such a call is what the code allows: the
next call clears and fills QH and qTDs under it. `Quiescent` says that a returned -1 is the one
sign of it, and `ReinitRecovers` that `ehci_init` ends it. `MemoryDiscipline`, the length and
toggle properties and their proofs are about controllers that are not `late`.

## RootHub

`drv.at` is the place in the hub driver or in `main`; a request to the root hub is the field
`drv.req` with `drv.reg`, the copy of PORTSC it has read. `Ask` is the read, `Serve` the
write: the port may change in between, which is where most of what can go wrong goes wrong.
`Written` is what a write does to PORTSC: change bits are cleared by ones, PE can only be
cleared, reset ends some time after software clears it. A reset writes back, when it ends
the reset, the value read before it began, as the code does. `Scan` to `ResetChangeFails`
are `usb_hub_scan` in its order; `ConnectStatus` to `Address` are
`usb_hub_port_connect_change` with `hub_port_reset` and the two halves of `usb_scan_device`
around the second reset of the port. A transfer to the device succeeds only on an enabled
port and may always fail. `Boot` is `ehci_init` to `usb_hub_init`, `BootFails` any of their
errors, `Caller` the end of the loop of `main`.

`reseat` and `drv.why` are history. `Rescan` chooses the caller: the loop of `main`, which
resets every port before each scan, or a caller that scans a live port again, as the
contract of `usb_hub_scan` ("0 - nothing special") offers. `BssCleared` says whether
`portreset` starts at zero: `start.S` does not clear `.bss`, so this is up to the loader.

| run | what it shows |
| --- | --- |
| `HubMain` | main's loop: `ErrorMeansFailure`, an error is returned only if reset, table or enumeration failed; `TableNeverFull`, one record per scan beside the root hub's; `ScanReturns`, every scan comes back |
| `HubRescan` | `SpeedRight`: although the root hub reports every device as high speed, only one that is gets past `hub_port_reset`; under rescans and an arbitrary `portreset` |
| `HubStaleReset` (violation) | `ErrorMeansFailure` under rescans |

Bounds. `MaxTries` and `Polls` are 2, so that a reset succeeds at once, after a retry, or not
at all. `MaxDevice` is 2 in main's loop, which makes the table full after the root hub and
one device: a scan that took a second record would be caught. `MaxEvents`, the number of
times the outside world plugs, unplugs, disturbs or overloads the port, is 4 in the passing
runs: a device comes, goes, another comes, and something disturbs it, at any points of any
number of scans. The bound is on the outside only; the driver's rounds are unlimited.
Deadlock is not checked: `main` may hang for good.

## Enumeration

`drv` is the place in the loop, the record scanned and the address kept aside in
`usb_scan_device`; `dev` is `usb_dev`, `per` the device with its address and configuration,
`buf` the content of `tmpbuf`. One action is one request with everything up to the next one:
`FirstDescriptor`, `SecondReset`, `SetAddress`, `FullDescriptor`, `ConfigHeader` and
`WholeConfig` (`usb_get_configuration_no`), `ParseConfig`, `SetConfiguration`, `Strings`.
`Boot` is `ehci_init` and `usb_init`, `RootIsHub` and `HubInit` the root hub's part, `HubScan`
the result of `RootHub`, `Caller` what `main` does with it, or a caller that scans again.

`Route` is `submit_control_msg`: who gets a request depends on `rootdev` only, and `rootdev`
is 0 until the root hub's own SET_ADDRESS. `Replies` and `Outcomes` say how a request at an
address may end. A request the device does not hear fails; one it hears may succeed, be done
with its answer lost, or fail; a read may be short and still report its full length.
`FakedSuccess` adds the success of a request that was not done (`OkMeansCompleted` shows that
the driver can report it). What is parsed after a failed read of the configuration is what the
stack held (`Parsed`): nothing that can be relied on. `usb_set_maxpacket` then runs over it,
and an endpoint 0 found there overrides the packet size of endpoint 0 (`SetMaxpacket`,
`Garbled`); a configuration that was read names no endpoint 0. Parsing what was not read is
assumed to end and to stay within the record.

| property | what it says |
| --- | --- |
| `RoutedRight` | requests of the root hub, and of nobody else, reach `ehci_submit_root`, across re-initialisations |
| `ReachesDevice` | a request is sent to the address its device answers at, also after the second reset and SET_ADDRESS |
| `AddressUnambiguous` | no other record has that address, those of failed scans included; only the default address, before SET_ADDRESS, may also stand in the record of a failed scan |
| `PacketSizeRight` | after SET_ADDRESS the size used for endpoint 0 and its code are the device's, unless the byte never came or the configuration was not read in full |
| `FoundAgrees` | the device behind the port after a scan that found one, the one scanned or one that took its place between the two resets, has the address and configuration in the record; a configuration read in full is the one recorded |
| `LedInOrder` | the device is led through the states of `DeviceLife` |

Run `Enumeration`: `MaxDevice` 3, the root hub and two devices, so that a caller that scans
again fills the table; `MaxReplugs` 3, a device comes, goes and another comes at any request;
`Sizes` {8, 64}, the size the code starts with and another. `FakedSuccess` is FALSE, since
`ReachesDevice` and `FoundAgrees` are not true otherwise; the proofs say which of the
properties need that. Deadlock is not checked: `main` may hang.

`PacketSizeRight` excepts a record whose size byte never came (size 0): the driver does not
look (`usb.c:857`). It also excepts, at SET_CONFIGURATION and the strings, a record whose
configuration was not read in full, for what `usb_set_maxpacket` makes of it, and a device that
took the place of the one whose size was read. `ReachesDevice` excepts a record whose scan has failed and a device that was
replaced after its record was taken: no code looks whether the second reset brought the same
device back.

## ConfigParser

One action is one descriptor (`OnInterface`, `OnEndpoint`, `OnOther`), then one endpoint of
`usb_set_maxpacket` (`MaxpacketEp`), then one call of `usb_set_interface`. The device makes
its descriptors up as they are read, within the rules of USB 2.0 chapter 9.6, and `dev` is
what it has described. `ifs` is `if_desc`; the endpoints of every setting of an interface go
to one array one after the other, as in the code.

`InterfacesRight`: each interface is found once, with its number of settings, and never more
of them than `bNumInterfaces`. `DefaultEndpoints`: the endpoints of the first setting are the
first ones of the array. `MaxPacketRight`: the tables hold what the endpoints of the first
settings say and nothing else. `SettingSelected`: `usb_set_interface` returns success without
a request only where the setting asked for is in use.

Run `ConfigParser`: two interfaces (0 and 3, so that position and number differ), two
endpoints of two addresses and two sizes in both directions or control, up to six descriptors:
two settings of one interface with different endpoints and another interface. That a device
keeps the rules is an assumption: a descriptor of length 0 would keep the code at one place
for ever (`usb.c:404`), and nothing stops a device with more interfaces or endpoints than the
arrays hold. `usb_set_interface` returns, so deadlock is not checked.

## TdBuffer

The loop of `ehci_td_buffer`, one iteration per `Fill`, with addresses modulo the word.
`Reaches` relates the pointers to what a controller does with them: byte for byte, the
transfer is the buffer. `FailsOnlyIfTooLong` says the loop gives up only if the pointers
could not reach the end. `LengthFits` is why `ehci_submit_async` may put the length into the
token before it has tried: a length that would spill into the toggle gets no pointers, and
the transfer is not started. Run `TdBuffer` checks every buffer in an address space of eight
pages of four bytes, the last page included, up to lengths beyond the limit of the field;
the theorems say it for every page size and buffer. The function returns, so deadlock is not
checked.

`EhciHcd` uses only the verdict, as `Fits`: a length in packets against `FitLen`. Alignment
of the buffer, which decides the verdict near the limit, is not represented there.

## Library

`Division` has `__udivsi3`, the division body of `__divsi3`, the remainder by multiplying back
and `do_div`; `ArmArithmetic` has `__umodsi3`, `__divsi3`, `__modsi3` and the three double-word
shifts, with the carry, the rotated marker bit and the conditions that end a loop early.
`Division` says of the size of a word only that `Limit` (0x10000000) is a sixteenth of the
number of words, `ArmArithmetic` that a word has `W` bits. `Decimal` has `put_dec` and its helpers, `Vsprintf` `number`, `string`,
`pointer`, `vsprintf` and the parsers; a text is a sequence of characters and a directive is a
record. `Memory` and `CStrings` have the functions of `string.c` over a memory
of bytes, with addresses, so that overlaps, alignment and terminators matter; a string is what
stands before the next 0, and `strtok` has its place in `___strtok` (`rest`) between calls. `UsbString` has
`usb_string` with its retries and workarounds; the device fails the messages a schedule names,
and the buffer begins with anything, since `mybuf` of `usb.c:691` is not initialised. `Division`, `Decimal`,
`Memory`, `CStrings` and `UsbString` write their loops as recursive functions so that they
can be proved about.

Run `Library` (`MCLibrary`) picks a routine and an input and compares the result with a
definition that is independent of the algorithm.

| property | inputs |
| --- | --- |
| `DivisionExact`, `ShiftExact` | every dividend and divisor, every count, for words of 8 bits |
| `WideDivisionExact` | every double word of 16 bits by 10, 129 and 255: a divisor that is doubled often, and two whose top bit is set |
| `DecimalExact` | every number below 100,000, the range the comment at `vsprintf.c:137` promises, and 0, 1, 9 and 6000 in front of the last five digits above. The digits are compared with what repeated division by ten leaves (`Denotes`, `Numeral`) |
| `FieldExact` | every directive of five conversions, six qualifiers, four flags, three widths, two precisions, over the numbers at the boundaries of the types |
| `ReadsBack` | every number of 12 bits in three bases, with and without prefix and suffix |
| `MovesExact` | every move within ten bytes |
| `CompareOrders`, `SearchExact` | every two short strings over small alphabets, and every limit, character and set of characters; a search is compared with the least (for `strrchr` the greatest) place there is, a copy with the whole memory it should leave |
| `TokensExact` | every string of up to five characters with two delimiters among them, split by calls of `strtok` or `strsep`, a step each, until one returns NULL |
| `StringFits` | strings to two characters, with a control character or one that is no byte among them, every schedule of failures, every size of the buffer, two contents of the buffer before; a device that leaves the length out is read up to the first character that cannot be one, or on into what the buffer held |

The widths of the types are scaled: `ShortBits` 7, `IntBits` 12, `NumBits` 20, `WordBytes` 2,
`MaxAsk` 8 for 255. They differ from each other and no argument is as wide as its scaled type
by accident, so that a wrong narrowing shows. `__umodsi3` is exact only for quotients of fewer
than `W - 3` bits, see finding 3. A behaviour ends with the result of its one call, or with the NULL
of the last call for a token, so deadlock is not checked.

## Fairness

Liveness is asserted of `CallReturns` and `ScanReturns` only, under weak fairness of the
driver as a whole: it is the only program on the processor and is never preempted. Nothing
is assumed of the controller, the port, the device or the world; waits end because they are
counted. In `RootHub`, `BootFails` is left out of the fair part, an error being a choice of
the environment.

## Findings

Where a comment in the sources says something and the code does another thing, a run finds
the counterexample (`PROJECT.json` quotes the lines).

1. `EhciCompletion`: the time limit falls between two stages; the overlay of the retired
   stage reads as success and an incomplete control message is reported OK.
2. `HubStaleReset`: `usb_clear_port_feature` returns 0 for success and `usb_hub_scan` takes
   0 for an error; a reset change that an abandoned `hub_port_reset` left makes the next scan
   fail.
3. `Modulo`: `__umodsi3` is wrong for quotients whose top bits are set: when the dividend
   becomes 0 early, the fix-up takes the marker for a recorded subtraction and adds half the
   divisor (0x28000000 mod 1 gives 0x20000000).

Other disagreements are in the models as the code has them, in one definition each, and have
no run of their own.

* `EhciHcd`: after a failed handshake for the schedule status `ehci_submit_async` returns
  with ASE set and the QH linked, though `usb.c:45` says it waits (`Fail`). The length of a
  control read is computed from the overlay of the acknowledge stage, so a short read returns
  the full size and the tests of `usb.c:468` and `usb.c:916` cannot fire (`Result`, and
  `Result` of `Enumeration`). The status test of `usb_bulk_msg` is inverted (`usb.c:253`;
  nothing in the program calls it).
* `RootHub`: the request that clears the reset change writes PORTSC back with its change
  bits and clears a connection change as well (`ClearReset`, `ehci-hcd.c:816`), and a device
  plugged between a status and the request that clears its change is not announced. The
  request that clears the enable change writes the enable bit (`ClearEnable`,
  `ehci-hcd.c:798`). With a connection and an enable change in one status, which only a caller
  that scans a live port again can see, the device is enumerated and then once more by the
  hack (`ReEnable`, `usb.c:1363`). `C_OVER_CURRENT` is unknown to `ehci_submit_root`, and the
  stall passes for success (`OverCurrent`).
* `Enumeration`: the result of reading the configuration is ignored; when it failed, the value
  0 of an unfilled record goes to SET_CONFIGURATION and the device, left unconfigured, is
  reported as found (`usb.c:931`). `FoundAgrees` holds all the same: the record says 0 too, and
  what it says of a configuration is asserted of one that was read. The endpoints in a buffer
  that was not filled go through `usb_set_maxpacket` (`usb.c:933`); one with address 0, the
  value of a cleared record, replaces the packet size of endpoint 0 (`SetMaxpacket`). A device
  that takes another's place between the resets is used with the packet size of the other.
* `usb_hub_init`: the second loop over the bytes of the port masks (`usb.c:1252`) writes
  `DeviceRemovable` again instead of `PortPowerCtrlMask`; nothing reads either.
* `UsbString`: the comment says the length returned is greater than 0; for an empty
  descriptor it is 0.
* `Vsprintf`: `%.0d` of 0 prints "0"; `%#x` of 0 prints "0x0"; the flag `0` is honoured with a
  precision; a negative `*` precision becomes 0; `%zd` is not sign-extended and `%tu` is; `hh`
  is not known; the parsers do not know `0X`; `ustrtoul` leaves the end at a suffix that is
  not followed by "i".
* `CStrings`: `strcmp` and `strncmp` keep the difference in a signed char, so characters that
  differ by 128 or more compare the wrong way; `CompareOrders` speaks of seven-bit characters.

Noticed and not modelled as a property: `ehci.h:66` gives `CMD_IAAD` the bit of `CMD_ASE` (nothing
uses it); an OUT transfer that times out after a lost acknowledgement leaves the
toggles apart, and the next transfer loses its first packet (`BulkLengthExact` therefore
speaks of transfers that began in step).

## What is proved

| theorem | statement |
| --- | --- |
| `EhciHcdProofs!TypeCorrect` | `Spec => []TypeOK` |
| `EhciHcdProofs!ReinitAlwaysRecovers` | `Spec => []ReinitRecovers`, any controller |
| `EhciHcdProofs!AlwaysQuiescent` | `Spec => []Quiescent`, any controller |
| `EhciHcdProofs!ImplementsDmaOwnership` | no `late` fault: `Spec => MemoryDiscipline` |
| `EhciHcdProofs!CallsAreBounded` | any controller: a call ends after at most `3 * Tries + 7` driver steps |
| `EhciStatusProofs!StatusAlwaysFaithful` | no fault: `Spec => []StatusFaithful` |
| `EhciStatusProofs!OutcomeAlwaysFaithful` | no `late` fault: `StatusFaithful` of every call no handshake failed |
| `EhciStatusProofs!TogglesAlwaysAgree` | no `late` fault: `Spec => []ToggleAgrees` |
| `EhciStatusProofs!BulkLengthAlwaysExact` | no `late` fault: `Spec => []BulkLengthExact` |
| `RootHubProofs!TypeCorrect` | `Spec => []TypeOK` |
| `RootHubProofs!ErrorHasReason` | main's loop, `.bss` cleared: `Spec => []ErrorMeansFailure` |
| `RootHubProofs!HighSpeedOnly` | any caller: `Spec => []SpeedRight` |
| `RootHubProofs!TableSuffices` | main's loop: `Spec => []TableNeverFull` |
| `RootHubProofs!ScansAreBounded` | any caller: a scan ends after `28 + 4 * MaxTries * (Polls + 5)` driver steps at most |
| `EnumerationProofs!EnumerationTypes` | `Spec => []TypeOK` |
| `EnumerationProofs!RoutesHold` | `Spec => []RoutedRight` |
| `EnumerationProofs!AddressesDiffer` | `Spec => []AddressUnambiguous` |
| `EnumerationProofs!PacketSizesHold` | `Spec => []PacketSizeRight` |
| `EnumerationProofs!RequestsReach` | no faked success: `Spec => []ReachesDevice` |
| `EnumerationProofs!FoundDevicesAgree` | no faked success: `Spec => []FoundAgrees` |
| `EnumerationProofs!ImplementsDeviceLife` | `Spec => LedInOrder` |
| `ConfigParserProofs!ParserTypes` | `Spec => []TypeOK` |
| `ConfigParserProofs!InterfacesFound` | `Spec => []InterfacesRight` |
| `ConfigParserProofs!DefaultsFirst` | `Spec => []DefaultEndpoints` |
| `ConfigParserProofs!PacketSizesFilled` | `Spec => []MaxPacketRight` |
| `ConfigParserProofs!SettingsSelected` | `Spec => []SettingSelected` |
| `TdBufferProofs!TypeCorrect` | `Spec => []TypeOK` |
| `TdBufferProofs!PointersReachBuffer` | `Spec => []Reaches` |
| `TdBufferProofs!FailsOnly` | `Spec => []FailsOnlyIfTooLong` |
| `TdBufferProofs!LengthStaysInItsField` | `Spec => []LengthFits` |
| `LibraryProofs!MovesAlwaysRight` | `MovesRight` of every memory, source, destination and count |
| `LibraryProofs!FillsAlwaysRight` | `FillsRight` of every memory, area and byte |
| `LibraryProofs!MovesAlwaysExact` | `CallsSpec => []MovesExact`, areas of any size |
| `LibraryProofs!WordDivisionAlwaysExact` | `UDiv`, `DivBody` and `ModOf` of every word by every word but 0 |
| `LibraryProofs!WideDivisionAlwaysExact` | `CallsSpec => []WideDivisionExact`, words of any size |
| `LibraryProofs!NumbersAlwaysRight` | `Numeral(PutDec(num), num)` of every number |
| `LibraryProofs!DecimalAlwaysExact` | `CallsSpec => []DecimalExact`, whatever stands before the last five digits |
| `StringProofs!StringsAlwaysFit` | `usb_string` of every descriptor that fits one request, every buffer, size and schedule of failures |
| `StringProofs!StringAlwaysFits` | `CallsSpec => []StringFits`, any code units, sizes and schedules |
| `StringProofs!ComparisonsAlwaysRight` | `strncmp` of any two strings anywhere in any memory |
| `StringProofs!CompareAlwaysOrders` | `CallsSpec => []CompareOrders`, strings over any letters and of any length |
| `StringProofs!SearchAlwaysExact` | `CallsSpec => []SearchExact`, likewise |
| `StringProofs!TokensAlwaysExact` | `CallsSpec => []TokensExact`, likewise, and any delimiters |

They hold for every value of the constants that the named assumptions allow
(`HcdAssumption`, `RootHubAssumption`, `EnumerationAssumption`, `ParserAssumption`,
`TdBufferAssumption`, `MemoryAssumption`, `LimitAssumption`, `CallsAssumption`).

*Reset.* `ReinitRecovers` is about one place of the driver; the controller gets there in
three steps. `ResetInv` follows it: RUN is off from the first write on, the reset is
requested only of a halted controller, and a reset that has ended has cleared everything. It
needs nothing of the waits but that they test what they say, so it holds of any controller.

*Quiescence and ownership.* `Quiescent` is not inductive: that ASS is off at `idle` depends
on ASE having been off since `Disable`, on the wait that followed, and on what a fatal error
leaves. `RestInv` holds of any controller: with the list empty the schedule is off between
calls, and a list that still leads to the QH goes with a result of -1. `LendInv` says for each
place which of RUN, ASE, ASS and the list can still be on while the controller runs or may
run. It is true only if a wait on a controller that runs cannot end by its count, so it is used
for controllers whose status bits are not late; there it leaves nothing of the exception in
`Quiescent`. In the
refinement, the overlay token and the chain change only while `pc` is in `Lent`, because the
controller executes only if the schedule is on (`LendInv` again).

*Status, toggles and lengths.* What the driver decodes is the overlay, and what the properties
speak of is the chain and the device; `ChainInv` connects them. At every place of a transfer
the stages before the one in the overlay are retired and did not halt, those behind it are
untouched, and the one in the overlay has the overlay's token once it is retired; the links
are those `Submit` wrote. `OnSchedule` adds when the schedule can be off with a chain in
memory: the driver reaches `Finish` with nothing fetched only past a controller that has
stopped, and there it takes the failing path. `OutcomeInv` then says what `Finish` leaves:
status, length and toggle are those of the overlay. For the properties of bulk transfers
`BulkInv` follows the packets. A transfer that began in agreement stays in step (`InStep`): the
toggle in the overlay differs from the device's exactly by the packet whose acknowledgement
was lost, that packet has left `XactErr` in the token, and what has moved and what is left add
up to the length. `ClearInv` says that a status stage of CLEAR_FEATURE that did not halt was
answered. `StatusFaithful` needs a controller without any fault, and not only one that is not
late: a handshake that fails after the chain was completed or halted, because of a fatal error
or vanished registers, leaves the status at `NOT_PROC`, which is not what happened to the chain.
`OutcomeAlwaysFaithful` is what remains true then. `LivelyInv` shows that without faults no
handshake fails. Toggles and lengths are asserted of calls reported OK and need no more
than `late` excluded.

*Length of calls and scans.* `CallReturns` and `ScanReturns` are liveness properties; what of
them is safety is proved. Each place of the driver has a number of steps that are left at
most (`StepsLeft`, `ScanLeft`); `Progress` says that every step of the driver in a call lowers
it and that no step of the controller, or of the port, changes it. It needs the type invariant
only, so it holds for any controller and any caller. That the driver can always take a step, and
takes it, is the rest of the liveness property: ENABLED and fairness, which TLC checks.

*Errors of a scan.* An error without a reason comes from a reset change in the status the
scan starts with. `StaleInv` says where `portreset` can be set at all: while
`hub_port_reset` is still to look at it, while it is being cleared, or after an error that
stops `main`. So no scan of main's loop starts with one.

*Speed and the table.* `SpeedInv` relates the enable bit of the port, and the copies of it in
the status words and in a pending request, to the device that was there when it was set: only
a reset of a high-speed device sets it, and a device that leaves clears it. A status read after
the reset therefore speaks of a high-speed device even if another has come since. `FullInv`
counts: one record before the scan allocates, two after, and in main's loop the first status of
a scan has no enable change, because every port was reset; so there is no second allocation.

*Enumeration.* Each action is first reduced to facts about single fields (the lemmas
`...Effect`, which also show that it keeps the types); the invariants follow from those.
`TableInv` says which record is scanned, that `rootdev` and the root hub's `devnum` are 0 just
while the root hub is scanned up to SET_ADDRESS and 1 afterwards, and that a record has no
address until SET_ADDRESS and its own index after it: so an address other than the root hub's
is never `rootdev`. `AddressInv` says the device has the address of its record or 0, and that
only the record being scanned can have address 0 without having failed. `SizeInv` carries the
packet size from the first descriptor to its code, up to a configuration that was not read.
`DeviceInv` has three parts. `HearInv`: the device of the record being scanned answers at the
record's address at every step after SET_ADDRESS, parsing included. `AwakeInv`: so does
whichever device the port lets through, with the configuration of the record, since only a
reset makes a device listen and none comes after the second. `ReadInv`: what was read is what
is recorded. The first two need that an answered request was done. `DeviceLife` needs `TableInv` only: a
new address is never 0 or the root hub's.

*Configurations.* `EntryInv` ties `curr_if_num` and the last entry to the interface the device
is at; `FirstInv` says that a first setting is complete before anything else follows, which is
why its endpoints come first in `ep_desc` and why `bNumEndpoints` of the entry ends the loop of
`usb_set_maxpacket` where they end. Both are needed for types already: they show that every
endpoint that loop reads exists. `ClashInv`, that no two endpoints of first settings share a
direction of an address, comes from the rule the device keeps (`Free`); with it `MaxInv` says
that an entry of the table is the size of the one endpoint passed that covers it, or 0. The
maximum the code takes and the overwriting by a control endpoint are therefore never visible.

*Buffers.* `LoopInv` is the invariant of the loop: the pointers filled so far are the
buffer's start and the pages after it, and what is left begins where they end. The work is
in `NextPageIs`, which gives the next page and the distance to it also at the end of the
address space, where the next page is 0 and the difference wraps.

*Memory.* A loop is the function from the number of units done to the memory then; the closed
form (`Moved` of the bytes copied so far, or its mirror image for the loop downwards) satisfies
the equation that defines the loop, so the function exists, and the two agree by induction on
the number of units (`SameLoop`). The induction theorems of the library take an operator as
parameter, which the provers cannot instantiate; `Induction` is the form for a set of numbers,
from the well-foundedness of finite subsets. `CopyUp` is right because what a unit reads lies
at or above what has been written, or outside it; `CopyDown` because it lies below. The words and then
the remaining bytes compose (`MovedOn`, `FilledOn`). The hypotheses are that memory is a
function on addresses and holds the source. Addresses do not wrap.

*Division.* Each loop lowers a measure, so there is a function that gives the state it ends in
(`LoopEnds`), and what holds at the beginning and is kept by each turn holds there
(`LoopResult`). The invariant of `__udivsi3` is that the dividend is what the quotient accounts
for and the rest. While the divisor is raised nothing is shifted out (`Rising`), because the
limits are a sixteenth and a half of the number of words. From then on the rest is less
than twice the divisor at the weight of the current bit, and less than once when that bit is
decided (`Before`, `After`); the quotient is a multiple of the weight, so that setting the bit
adds it (`SetBitAdds`). The last pass shifts bits out at the bottom and may spoil the dividend,
as the comment at `_udivsi3.S:45` says, but no longer the quotient (`PassDecides`). That a
bit is the only one in its word is needed throughout: `Powers` is the least set with 1 that is closed
under doubling. `__div64_32` has the same invariant on double words (`Growing`, `Open`,
`Closing`); the doubling ends at the remainder or at the sign bit, and in both cases the
remainder is less than twice the divisor.

*Digits.* A sequence of digits spells a number down to what is left of it (`Spells`), and two
such sequences compose (`SpellsAppend`). The four sums of `put_dec_full` and their tenths are
the division by ten of what is left, one digit at a time (`SumsAre`): the nibbles are bounded,
so the sums are, and up to the bounds the reciprocals are exact (`Reciprocals`; 13/128 is
exact to 68, and the third sum stays below that only because the carry into it is a tenth).
`put_dec_trunc` ends where nothing is left and not before, so its last digit is not zero.
The loop of `put_dec` keeps that the digits so far spell the number down to what is left, and
that something is left; it is `LoopResult` again, with what is left as measure.

*String descriptors.* `usb_get_string` sends one to three messages and either has the bytes at
the start of the buffer, with nothing else changed, or has failed three times in a row
(`UsbGetStringTries`). With 255 bytes or with the length it read first, `usb_string_sub` then
has the whole descriptor in the buffer (`AskedTells`; that the descriptor fits into one request
is a hypothesis, 126 code units). The two ways to find its length are `SubReads`: the first byte, or,
when that is 0, the loop of `usb_try_string_workarounds`, whose invariant is that every unit
passed is a character (`NewLengthStops`). It stops at the first that is not one or at the 255
bytes the driver believes to have; the units up to the end of the descriptor are the
device's, those behind it what the buffer held. The conversion copies unit by unit.

*Comparisons.* The loop of `strncmp` keeps that the characters passed are equal and not 0; where
it stops, the limit is reached or the next two characters decide (`NextDecides`: equal strings
end there, the one that ends first precedes, and otherwise these are the first to differ). The
difference of the two, kept in a signed char, is 0 only for equal characters, and has the right
sign if neither has the top bit (`SignedCharIs`, `DifferenceAgrees`).

*Searches and copies.* Every search of `string.c` is a loop that counts and stops at the first
count at which it does not go on (`RoundsAre`). `First` is the first place of a string with a
character of a set, or the one behind it; a loop over a string in memory stops there or at the
0 (`Met`), and what is returned is `Found`. `strrchr` is the same from the end, `strstr` the
first place at which the inner loop of `memcmp` finds no difference (`InsideIs`). A string
written behind another replaces the 0 of the first (`PutAppend`), so a concatenation is one
`Put` of both, and the bytes that are not in it are those of the memory before.

*Tokens.* `SplitTo` is the invariant of a split, of both functions: what has been returned are
the pieces wanted that begin before a place `r`, in order, each read when it was returned; `r` is
the beginning or stands behind a delimiter, and memory is untouched from there on. `r` is where
`rest` points, the argument of the first call of `strtok`, or past the end once `rest` is NULL.
A call either takes one more piece (`PieceTaken`: nothing wanted begins between `r` and it, and
the 0 written behind it is before the next `r`), or, for `strtok`, finds delimiters only
(`NothingLeft`). After NULL, `r` is past every piece.

## What is only model-checked

* Liveness itself (`CallReturns`, `ScanReturns`): the bounds are proved, ENABLED and fairness are
  out of the prover's reach.
* `FieldExact` and `ReadsBack`: `Vsprintf` is written with recursive operators; the run checks it
  over all small inputs.
* `ShiftExact` and the signed division and modulo of `DivisionExact`: they work on single bits, by
  shifts and powers of two. The part of `DivisionExact` that is `__udivsi3` and the remainder by
  multiplying back is `WordDivisionAlwaysExact`.

## What is not modelled

* The register-access ring: kept for a debugger, read by no code.
* Data-cache walkers: not compiled in this configuration.
* `ohci-test.c`: a fixed sequence of register writes with one poll, sharing no state with the
  EHCI driver; most of the file is commented out. It is a fifth of the source lines.
* `usb_set_protocol`, `usb_set_idle`, `usb_get_report`, `usb_get_class_descriptor`,
  `usb_get_dev_index`: nothing calls them.
* `%n`, `panic` and the network address formats of `vsprintf.c`.
* Console, UART, timers, start-up assembly and link map: no state the properties could speak
  of. That a structure must not cross a 4 KB page (`ehci.h:164`) depends on the link map.

## Plan

Done: `DmaOwnership`, `EhciHcd`, `RootHub`, `TdBuffer`; `DeviceLife`, `Enumeration`,
`ConfigParser`, the library modules.

To come: a composition of `RootHub` and `Enumeration`
in one module would say which of the outcomes of `HubScan` can follow each other; the two
models now agree by construction only.

## Running

`tlc -config HubMain.cfg RootHub` checks one run; the Ehci configurations belong to
`MCEhciHcd`, those of the hub to `RootHub`, `Library` and `Modulo` to `MCLibrary`, the others to
the module of their name. `tlapm EhciHcdProofs.tla` checks one module of proofs. The largest
run has 3,685,485 states and takes about two minutes.
