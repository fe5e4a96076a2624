------------------------------ MODULE MC_Htab -------------------------------
(***************************************************************************)
(* Htab for TLC: two buckets and keys of two characters, two of which      *)
(* share a bucket if they are hashed; three elements in one chain have a   *)
(* first, a middle and a last, and a fourth is left when the deletion of   *)
(* the first has cut off the others.                                       *)
(***************************************************************************)
EXTENDS Htab

CONSTANTS a, b, c

MCKey == {a, b, c}
MCDigest == (a :> <<1, 3>>) @@ (b :> <<0, 2>>) @@ (c :> <<1, 5>>)
MCLens == 0..2
MCWhole == {2}
Symmetry == Permutations(Node)
=============================================================================
