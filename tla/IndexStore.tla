----------------------------- MODULE IndexStore -----------------------------
(***************************************************************************)
(* What a store of records by index promises (mmp_barray.h): the records   *)
(* inserted and not deleted are there, whatever is closed, reopened or     *)
(* interrupted in between, and a call answers by what is there.            *)
(***************************************************************************)
EXTENDS Integers

CONSTANTS Idx,      \* the indices a client uses
          NoAnswer

VARIABLES stored,   \* the indices of the records in the store
          ans       \* the index a call looked for, and what it answered

svars == <<stored, ans>>

Answer(i, found) == [idx |-> i, found |-> found]

Init == /\ stored = {}
        /\ ans = NoAnswer

Begin == /\ ans' = NoAnswer
         /\ UNCHANGED stored

Insert(i) == /\ i \notin stored
             /\ stored' = stored \cup {i}
             /\ UNCHANGED ans

Delete(i) == /\ i \in stored
             /\ stored' = stored \ {i}
             /\ ans' = Answer(i, TRUE)

Look(i) == /\ ans' = Answer(i, i \in stored)
           /\ UNCHANGED stored

Next == Begin \/ \E i \in Idx : Insert(i) \/ Delete(i) \/ Look(i)

Spec == Init /\ [][Next]_svars
=============================================================================
