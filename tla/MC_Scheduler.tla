---------------------------- MODULE MC_Scheduler ----------------------------
(***************************************************************************)
(* Scheduler for TLC: a listener and two clients, and a pool of two events *)
(* that three sockets fill.                                                *)
(***************************************************************************)
EXTENDS Scheduler
=============================================================================
