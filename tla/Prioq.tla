------------------------------- MODULE Prioq --------------------------------
(***************************************************************************)
(* src/mmp_prioq.c: a priority queue, a binary heap in an array.  A loop   *)
(* that sifts an element is a step per iteration.                          *)
(*                                                                         *)
(* The loop that sifts the root down compares it with both children before *)
(* it looks whether they are in the heap.  Slots past the heap hold nodes  *)
(* that were freed, or nothing yet: what is read there may be any          *)
(* priority, and to follow a slot never written may end the process.       *)
(***************************************************************************)
EXTENDS Integers

CONSTANTS Data,         \* each is queued once at most
          Prio,         \* the priority of each
          JunkPrio,     \* what may be read for the priority of a freed node
          Prealloc,     \* what mmp_prioq_create may be given
          Increment,    \* 10, by which the array grows
          MaxAlloc,     \* bound: no array gets larger
          Freed,        \* a slot that points to a freed node
          Unset         \* a slot never written

ASSUME DataAssumption == Freed \notin Data /\ Unset \notin Data
ASSUME PrioAssumption == Prio \in [Data -> Int] /\ JunkPrio \subseteq Int
ASSUME SizeAssumption == /\ Prealloc \subseteq Nat /\ Increment \in Nat \ {0}
                         /\ MaxAlloc \in Nat

VARIABLES arr, n, n_alloc,
          pc,       \* "none": no queue; "idle"; "up", "down": sifting; "wild": a slot
                    \* past the heap was moved into it or followed, anything may happen
          k,        \* the index of the element that is sifted
          inq       \* history: what is queued

vars == <<arr, n, n_alloc, pc, k, inq>>

Slot == Data \cup {Freed, Unset}
At(j) == IF j < n_alloc THEN arr[j] ELSE Unset
Parent(j) == (j - 1) \div 2
LChild(j) == 2 * j + 1
RChild(j) == 2 * j + 2

Init == /\ arr = [j \in {} |-> Unset]
        /\ n = 0 /\ n_alloc = 0
        /\ pc = "none"
        /\ k = 0
        /\ inq = {}

Create == /\ pc = "none"
          /\ n_alloc' \in Prealloc
          /\ arr' = [j \in 0..(n_alloc' - 1) |-> Unset]
          /\ n' = 0
          /\ pc' = "idle"
          /\ UNCHANGED <<k, inq>>

\* mmp_prioq_destroy and mmp_prioq_destroy_withdata.
Destroy == /\ pc = "idle"
           /\ arr' = [j \in {} |-> Unset]
           /\ n' = 0 /\ n_alloc' = 0
           /\ pc' = "none"
           /\ inq' = {}
           /\ UNCHANGED k

\* The array grows; the node may then not be allocated, and nothing is queued.
Enlarge == /\ n >= n_alloc
           /\ n_alloc + Increment <= MaxAlloc
           /\ n_alloc' = n_alloc + Increment

Grown == [j \in 0..(n_alloc' - 1) |-> IF j < n_alloc THEN arr[j] ELSE Unset]

InsertFails == /\ pc = "idle"
               /\ Enlarge
               /\ arr' = Grown
               /\ UNCHANGED <<n, pc, k, inq>>

Insert(d) == /\ pc = "idle"
             /\ d \in Data \ inq
             /\ Enlarge \/ (n < n_alloc /\ UNCHANGED n_alloc)
             /\ arr' = [Grown EXCEPT ![n] = d]
             /\ n' = n + 1
             /\ inq' = inq \cup {d}
             /\ k' = n
             /\ pc' = IF n = 0 THEN "idle" ELSE "up"

Swapped(a, b) == [arr EXCEPT ![a] = arr[b], ![b] = arr[a]]

\* bug: the element is compared with the one before it
SortLastPrev ==
    /\ pc = "up"
    /\ IF Prio[arr[k]] <= Prio[arr[k - 1]]
       THEN pc' = "idle" /\ UNCHANGED <<arr, k>>
       ELSE /\ arr' = Swapped(k, Parent(k))
            /\ k' = Parent(k)
            /\ pc' = IF Parent(k) = 0 THEN "idle" ELSE "up"
    /\ UNCHANGED <<n, n_alloc, inq>>

\* One iteration of sort_last.
SortLast ==
    /\ pc = "up"
    /\ IF Prio[arr[k]] <= Prio[arr[Parent(k)]]
       THEN pc' = "idle" /\ UNCHANGED <<arr, k>>
       ELSE /\ arr' = Swapped(k, Parent(k))
            /\ k' = Parent(k)
            /\ pc' = IF Parent(k) = 0 THEN "idle" ELSE "up"
    /\ UNCHANGED <<n, n_alloc, inq>>

\* The root is freed and changes places with the last.
Pop == /\ pc = "idle" /\ n > 0
       /\ arr' = [arr EXCEPT ![0] = arr[n - 1], ![n - 1] = Freed]
       /\ n' = n - 1
       /\ inq' = inq \ {arr[0]}
       /\ k' = 0
       /\ pc' = "down"
       /\ UNCHANGED n_alloc

Reads(j) == IF At(j) \in Data THEN {Prio[At(j)]} ELSE JunkPrio

\* bug: the smaller child is moved up
SmallerChild(p, p1, p2) ==
    IF p < p1 THEN IF p < p2 /\ p1 > p2 THEN RChild(k) ELSE LChild(k)
    ELSE IF p < p2 THEN RChild(k) ELSE k

\* The child to exchange with, of the priorities read; the element itself if none.
Child(p, p1, p2) ==
    IF p < p1 THEN IF p < p2 /\ p1 <= p2 THEN RChild(k) ELSE LChild(k)
    ELSE IF p < p2 THEN RChild(k) ELSE k

\* The exchange with slot c: one past the heap brings what it holds into it.
SiftTo(c) == IF c < n_alloc
             THEN /\ arr' = Swapped(k, c)
                  /\ k' = c
                  /\ pc' = IF c < n THEN "down"
                           ELSE IF k < n THEN "wild" ELSE "idle"
             ELSE pc' = "wild" /\ UNCHANGED <<arr, k>>

\* One iteration of sort_root.
SortRoot ==
    /\ pc = "down"
    /\ \E p \in Reads(k), p1 \in Reads(LChild(k)), p2 \in Reads(RChild(k)) :
          LET c == Child(p, p1, p2) IN
          IF c = k THEN pc' = "idle" /\ UNCHANGED <<arr, k>> ELSE SiftTo(c)
    /\ UNCHANGED <<n, n_alloc, inq>>

\* A slot never written is followed.
SortRootDies == /\ pc = "down"
                /\ Unset \in {At(LChild(k)), At(RChild(k))}
                /\ pc' = "wild"
                /\ UNCHANGED <<arr, n, n_alloc, k, inq>>

Next == \/ Create \/ Destroy \/ InsertFails
        \/ \E d \in Data : Insert(d)
        \/ SortLast \/ Pop \/ SortRoot \/ SortRootDies

Spec == Init /\ [][Next]_vars

(***************************************************************************)
(* Properties                                                              *)
(***************************************************************************)
TypeOK == /\ n_alloc \in Nat /\ n \in 0..n_alloc
          /\ arr \in [0..(n_alloc - 1) -> Slot]
          /\ pc \in {"none", "idle", "up", "down", "wild"}
          /\ k \in Nat
          /\ inq \subseteq Data

\* The heap has each of the queued data once.
Contents == /\ \A j \in 0..(n - 1) : arr[j] \in inq
            /\ \A i, j \in 0..(n - 1) : arr[i] = arr[j] => i = j
            /\ \A d \in inq : \E j \in 0..(n - 1) : arr[j] = d

Below(i, j) == Prio[arr[i]] <= Prio[arr[j]]

\* Nobody is above its parent, except the one sifted up, or above the one
\* sifted down; these have a grandparent above.
Order == /\ \A j \in 1..(n - 1) :
                Below(j, Parent(j)) \/ (pc = "up" /\ j = k) \/ (pc = "down" /\ Parent(j) = k)
         /\ pc \in {"up", "down"} => \A j \in 1..(n - 1) :
                (Parent(j) = k /\ k > 0) => Below(j, Parent(k))

\* Until something past the heap got into it, the array is a heap of what is
\* queued, also while an element is being sifted.
HeapHolds == /\ TypeOK
             /\ pc # "wild" => Contents /\ Order

\* What leaves the queue is of the highest priority (mmp_prioq.h), whatever
\* was inserted and popped before.
PopsHighest == [][pc' # "none" =>
                    \A d \in inq \ inq' : \A e \in inq : Prio[e] <= Prio[d]]_vars

\* A pop gives the highest element and leaves the queue fit for the next.
StaysTame == pc # "wild"
=============================================================================
