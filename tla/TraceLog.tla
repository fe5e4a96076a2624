------------------------------ MODULE TraceLog ------------------------------
(***************************************************************************)
(* What the error trace promises (mmp_trace.h): the messages set since the *)
(* last reset, in order, as many as the static array holds.                *)
(***************************************************************************)
EXTENDS Integers, Sequences

CONSTANTS Msg,      \* what a caller may trace
          Cap       \* the length of the array

VARIABLE log

Init == log = << >>

SetError(m) == /\ Len(log) < Cap
               /\ log' = Append(log, m)

Reset == log' = << >>

Next == Reset \/ \E m \in Msg : SetError(m)

Spec == Init /\ [][Next]_log
=============================================================================
