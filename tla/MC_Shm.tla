------------------------------- MODULE MC_Shm -------------------------------
(***************************************************************************)
(* Shm for TLC: three processes, so that one may leave between the         *)
(* openings of the two others; two lengths, so that one may be shorter.    *)
(***************************************************************************)
EXTENDS Shm, TLC

Symmetry == Permutations(Proc)
=============================================================================
