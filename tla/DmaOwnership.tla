---------------------------- MODULE DmaOwnership ----------------------------
(***************************************************************************)
(* What ehci_submit_async promises about the memory it shares with the     *)
(* controller: the chain of qTDs and the overlay token of the queue head   *)
(* belong to one side at a time.  The driver fills them and lends them;    *)
(* only then may the controller change them; after they are returned they  *)
(* stay as the controller left them, so that what the driver decodes is    *)
(* the outcome of the transfer, until the driver fills them again, which   *)
(* takes the old outcome out of the token.                                 *)
(***************************************************************************)
CONSTANT Blank          \* the token of a queue head that was just allocated

VARIABLES owner, token, chain

vars == <<owner, token, chain>>

Init == owner = "driver" /\ token = Blank

Lend ==                 \* the driver fills chain and token, and gives them away
  owner = "driver" /\ owner' = "controller" /\ token' = Blank

Work ==                 \* the controller executes
  owner = "controller" /\ UNCHANGED owner

Return ==
  owner = "controller" /\ owner' = "driver" /\ UNCHANGED <<token, chain>>

Refuse ==               \* it fills them for a transfer that it cannot describe
  owner = "driver" /\ token' = Blank /\ UNCHANGED owner

Next == Lend \/ Work \/ Return \/ Refuse

Spec == Init /\ [][Next]_vars
=============================================================================
