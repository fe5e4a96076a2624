------------------------------ MODULE MC_Trace ------------------------------
(***************************************************************************)
(* Trace for TLC: three threads and an array of two records, so that the   *)
(* checks, stores and counts of two creations interleave in every way      *)
(* while a third thread prints or resets, and calls begin after that.      *)
(***************************************************************************)
EXTENDS Trace, TLC

Symmetry == Permutations(Thread) \cup Permutations(Msg)
=============================================================================
