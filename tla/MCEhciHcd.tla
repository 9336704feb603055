----------------------------- MODULE MCEhciHcd -----------------------------
(* EhciHcd for TLC: the fault sets and the calls the runs choose from.     *)
EXTENDS EhciHcd

NoFaults == {}
Stopping == {"fatal", "gone"}
AllFaults == FaultKinds

Call(c, d, n) == [call |-> c, dir |-> d, len |-> n]

(* Chains of two and three stages in both directions; transfers of more than one packet,
   after which the toggle may be what it was, and the calls that reset it. *)
TransferCalls == {Call("control", "in", 1), Call("control", "out", 0), Call("control", "out", 1),
                  Call("bulk", "in", 2), Call("bulk", "out", 2),
                  Call("clear", "in", 0), Call("clear", "out", 0)}
(* A chain of three stages, a chain of one, and one that does not fit. *)
MixedCalls == {Call("control", "in", 1), Call("bulk", "out", 1), Call("control", "out", 2)}
ShortCalls == {Call("control", "in", 1)}
=============================================================================
