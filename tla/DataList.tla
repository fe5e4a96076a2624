------------------------------ MODULE DataList ------------------------------
(***************************************************************************)
(* What a list promises (mmp_list.h): a sequence of data that a client     *)
(* extends at the front, extends in sorted position, shortens anywhere,    *)
(* or reorders by exchanging two places.  A list made of linked elements   *)
(* implements it when its pointers never lose or invent a place.           *)
(***************************************************************************)
EXTENDS Integers, SequencesExt

CONSTANTS Data,     \* what a list holds
          Key       \* the integer a comparer reads from each of them

VARIABLES open, items

lvars == <<open, items>>

Init == /\ open = FALSE
        /\ items = << >>

Create == /\ ~open
          /\ open' = TRUE
          /\ items' = << >>

PushFront(d) == /\ open
                /\ items' = <<d>> \o items
                /\ UNCHANGED open

\* d goes before the first item that does not sort after it
InsertSorted(d) ==
    /\ open
    /\ \E i \in 1..(Len(items) + 1) :
          /\ \A j \in 1..(i - 1) : Key[items[j]] > Key[d]
          /\ i <= Len(items) => Key[items[i]] <= Key[d]
          /\ items' = InsertAt(items, i, d)
    /\ UNCHANGED open

RemovePlace(i) == /\ open
                  /\ items' = RemoveAt(items, i)
                  /\ UNCHANGED open

SwapPlaces(i, j) == /\ open
                    /\ items' = [items EXCEPT ![i] = items[j], ![j] = items[i]]
                    /\ UNCHANGED open

Close == /\ open
         /\ items = << >>
         /\ open' = FALSE
         /\ UNCHANGED items

Next == \/ Create
        \/ \E d \in Data : PushFront(d) \/ InsertSorted(d)
        \/ \E i \in DOMAIN items : RemovePlace(i)
        \/ \E i, j \in DOMAIN items : SwapPlaces(i, j)
        \/ Close

Spec == Init /\ [][Next]_lvars
=============================================================================
