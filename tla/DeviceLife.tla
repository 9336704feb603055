----------------------------- MODULE DeviceLife -----------------------------
(***************************************************************************)
(* What enumeration promises of the device behind the root port: it is led *)
(* through the states of USB 2.0 chapter 9.1 in order.  Only a reset makes *)
(* it answer at address 0; it gets an address once, one that is not that   *)
(* of the root hub; it is told its configuration only at that address.     *)
(***************************************************************************)
CONSTANTS Free,      \* the addresses a device may be given
          Configs    \* the values of SET_CONFIGURATION; 0 leaves it unconfigured

VARIABLES state, address, config

vars == <<state, address, config>>

Init == state = "gone" /\ address = 0 /\ config = 0

Vanish == state' = "gone" /\ UNCHANGED <<address, config>>

Reset == state' = "default" /\ address' = 0 /\ config' = 0

GetAddress ==
  state = "default" /\ state' = "address" /\ address' \in Free /\ UNCHANGED config

GetConfig ==
  state = "address" /\ config' \in Configs /\ UNCHANGED <<state, address>>

Next == Vanish \/ Reset \/ GetAddress \/ GetConfig

Spec == Init /\ [][Next]_vars
=============================================================================
