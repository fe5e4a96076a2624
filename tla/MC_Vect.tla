------------------------------ MODULE MC_Vect -------------------------------
(***************************************************************************)
(* VectCalls for TLC.  A block of six elements: what is allocated for zero *)
(* to two elements holds them, for three or more it does not.              *)
(***************************************************************************)
EXTENDS VectCalls
=============================================================================
