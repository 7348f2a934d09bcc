-------------------------- MODULE AttentionOutput --------------------------
(***************************************************************************)
(* What a forward pass promises, whatever grid of blocks or threads runs   *)
(* it: each cell of the output (the O row or the LSE of one query row)     *)
(* goes, once, from unset to the value the problem prescribes, and in the  *)
(* end all cells are set.                                                  *)
(***************************************************************************)

CONSTANT Unset

VARIABLES
  expected,  \* the prescribed value of every cell, fixed by the problem
  out        \* the value of every cell so far

vars == <<expected, out>>

Init == out = [cell \in DOMAIN expected |-> Unset]

\* Some unset cells get their value; any set of them, the rows of a wave say.
Produce ==
  LET before == out
      after  == out'
      value  == expected
  IN  /\ DOMAIN after = DOMAIN before
      /\ \A cell \in DOMAIN before :
           \/ after[cell] = before[cell]
           \/ before[cell] = Unset /\ after[cell] = value[cell]
      /\ UNCHANGED expected

Complete == out = expected

Safety == Init /\ [][Produce]_vars

Spec == Safety /\ <>Complete
=============================================================================
