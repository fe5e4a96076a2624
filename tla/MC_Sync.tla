------------------------------ MODULE MC_Sync -------------------------------
(***************************************************************************)
(* Sync for TLC: main and two threads of its own, so that a mutex has an   *)
(* owner, a waiter and a thread that gives up what it does not have.       *)
(***************************************************************************)
EXTENDS Sync
=============================================================================
