------------------------------ MODULE MC_Prioq ------------------------------
(***************************************************************************)
(* Prioq for TLC: five data, two of equal priority, make a heap of three   *)
(* levels, with a node that has one child.  A freed node may look lower or *)
(* higher than everything queued.                                          *)
(***************************************************************************)
EXTENDS Prioq, TLC

CONSTANTS d1, d2, d3, d4, d5

MCData == {d1, d2, d3, d4, d5}
MCPrio == (d1 :> 1) @@ (d2 :> 2) @@ (d3 :> 2) @@ (d4 :> 3) @@ (d5 :> 4)
=============================================================================
