------------------------------- MODULE Loops -------------------------------
(***************************************************************************)
(* A loop of a program, as a function on its states.                        *)
(***************************************************************************)

(* A loop takes a state to the first one it reaches from it at which nothing is more to do. *)
Loop(states, more, step, s) ==
  LET end[x \in states] == IF x \in more THEN end[step[x]] ELSE x IN end[s]
=============================================================================
