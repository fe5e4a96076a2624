------------------------------ MODULE MC_Btree ------------------------------
(***************************************************************************)
(* Btree for TLC.  With three records to a page and seven keys, in every   *)
(* order, the first page is split, the lower and the upper half are, and,  *)
(* after a page was lost, a page that has others below it.                 *)
(***************************************************************************)
EXTENDS Btree
=============================================================================
