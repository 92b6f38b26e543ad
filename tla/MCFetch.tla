------------------------------- MODULE MCFetch -------------------------------
(***************************************************************************)
(* Two processes on one directory.  The artifacts are shorter than, equal  *)
(* to and longer than the smaller cap; the larger cap is the largest       *)
(* integer.                                                                *)
(***************************************************************************)
EXTENDS Fetch, TLC

CONSTANTS p1, p2

TwoProcesses == {p1, p2}
Symmetric == Permutations(Process)
=============================================================================
