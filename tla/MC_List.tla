------------------------------ MODULE MC_List -------------------------------
(***************************************************************************)
(* List for TLC: four elements give a head, two in the middle and a tail;  *)
(* of the three data two have the same key: equal and identical differ.    *)
(***************************************************************************)
EXTENDS List, FiniteSets

CONSTANTS a, b, c

MCData == {a, b, c}
MCKey == (a :> 1) @@ (b :> 2) @@ (c :> 2)
MCTwoData == {a, b}
MCTwoKey == (a :> 1) @@ (b :> 2)
=============================================================================
