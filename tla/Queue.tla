------------------------------- MODULE Queue --------------------------------
(***************************************************************************)
(* src/mmp_queue.c: a bounded queue of pointers in a ring buffer.  One     *)
(* client creates a queue, uses it and destroys it, any number of times,   *)
(* with any malloc failing.                                                *)
(***************************************************************************)
EXTENDS Integers, Sequences

CONSTANTS Elem,     \* the pointers a client enqueues
          Sizes,    \* the sizes it passes to mmp_queue_create
          NoElem,   \* the client's result variable holds no pointer
          Junk      \* what malloc leaves in the data vector

ASSUME SizesAssumption == Sizes \subseteq Nat
ASSUME ElemAssumption == NoElem \notin Elem /\ Junk \notin Elem /\ NoElem # Junk

VARIABLES open,     \* the client holds a queue
          data,     \* the data vector, indexed from 0
          max_size, n_data, from,
          heap,     \* blocks malloc'd and not freed
          res       \* return code and *elem of the last call

vars == <<open, data, max_size, n_data, from, heap, res>>

Unwritten(size) == [i \in 0..(size - 1) |-> Junk]

Outcome(code, e) == [code |-> code, elem |-> e]

Init == /\ open = FALSE
        /\ data = Unwritten(0)
        /\ max_size = 0 /\ n_data = 0 /\ from = 0
        /\ heap = 0
        /\ res = Outcome("none", NoElem)

(***************************************************************************)
(* mmp_queue_create: the structure first, then the vector; if the second   *)
(* malloc fails the first block is given back.                             *)
(***************************************************************************)
Create(size) == /\ ~open
                /\ open' = TRUE
                /\ data' = Unwritten(size)
                /\ max_size' = size /\ n_data' = 0 /\ from' = 0
                /\ heap' = heap + 2
                /\ res' = Outcome("OK", NoElem)

CreateNoStruct == /\ ~open
                  /\ res' = Outcome("ENOMEM", NoElem)
                  /\ UNCHANGED <<open, data, max_size, n_data, from, heap>>

\* bug: the error path forgets to free the structure
StructLeaked == heap + 1

StructFreed == (heap + 1) - 1

CreateNoData == /\ ~open
                /\ heap' = StructFreed
                /\ res' = Outcome("ENOMEM", NoElem)
                /\ UNCHANGED <<open, data, max_size, n_data, from>>

Destroy == /\ open
           /\ open' = FALSE
           /\ data' = Unwritten(0)
           /\ max_size' = 0 /\ n_data' = 0 /\ from' = 0
           /\ heap' = heap - 2
           /\ res' = Outcome("none", NoElem)

\* The slot mmp_queue_enqueue writes, as the code computes it.
Slot == IF from + n_data >= max_size
        THEN max_size - n_data - 1
        ELSE from + n_data

Full == n_data >= max_size

Enqueue(e) == /\ open
              /\ ~Full
              /\ data' = [data EXCEPT ![Slot] = e]
              /\ n_data' = n_data + 1
              /\ res' = Outcome("OK", NoElem)
              /\ UNCHANGED <<open, max_size, from, heap>>

EnqueueFull == /\ open
               /\ Full
               /\ res' = Outcome("FULL", NoElem)
               /\ UNCHANGED <<open, data, max_size, n_data, from, heap>>

\* bug: the check is missing, on a queue that has room
EmptyNever == max_size = 0

Empty == n_data <= 0

\* bug: from is put back to zero one slot too early
NextFromEarly == IF from + 2 >= max_size THEN 0 ELSE from + 1

NextFrom == IF from + 1 >= max_size THEN 0 ELSE from + 1

Dequeue == /\ open
           /\ ~Empty
           /\ res' = Outcome("OK", data[from])
           /\ from' = NextFrom
           /\ n_data' = n_data - 1
           /\ UNCHANGED <<open, data, max_size, heap>>

First == /\ open
         /\ ~Empty
         /\ res' = Outcome("OK", data[from])
         /\ UNCHANGED <<open, data, max_size, n_data, from, heap>>

\* mmp_queue_dequeue and mmp_queue_first on an empty queue
TakeEmpty == /\ open
             /\ Empty
             /\ res' = Outcome("EMPTY", NoElem)
             /\ UNCHANGED <<open, data, max_size, n_data, from, heap>>

Next == \/ \E size \in Sizes : Create(size)
        \/ CreateNoStruct
        \/ CreateNoData
        \/ Destroy
        \/ \E e \in Elem : Enqueue(e)
        \/ EnqueueFull
        \/ Dequeue
        \/ First
        \/ TakeEmpty

Spec == Init /\ [][Next]_vars
-----------------------------------------------------------------------------
(***************************************************************************)
(* Types: the cursor and the count stay inside the vector, so that no call *)
(* touches memory outside it, and what is not in use is not counted.       *)
(***************************************************************************)
TypeOK == /\ open \in BOOLEAN
          /\ max_size \in Nat
          /\ n_data \in 0..max_size
          /\ from \in 0..max_size
          /\ from < max_size \/ from = 0
          /\ data \in [0..(max_size - 1) -> Elem \cup {Junk}]
          /\ ~open => max_size = 0
          /\ heap \in Nat
          /\ res.elem \in Elem \cup {NoElem, Junk}

\* No path of create or destroy, failing or not, loses or doubly frees one of
\* the queue's two blocks (mmp_queue_create's error path frees the structure).
NoLeak == heap = IF open THEN 2 ELSE 0

\* A call never hands out memory nobody wrote, not even after a misplaced
\* enqueue: the wrapped branch is taken only once every slot was written.
NoJunkOut == res.elem # Junk

\* The window of the ring a dequeue sequence reads, oldest first.
At(i) == IF from + i >= max_size THEN from + i - max_size ELSE from + i
Window == [k \in 1..n_data |-> data[At(k - 1)]]

F == INSTANCE Fifo WITH cap <- max_size, items <- Window

\* The slot enqueue writes is not the one that follows the window.
Misplaces == Slot # At(n_data)

(***************************************************************************)
(* Every call does what a first-in first-out queue does, except an enqueue *)
(* whose wrapped slot is computed wrong: mmp_queue_enqueue's first branch. *)
(***************************************************************************)
FifoUnlessMisplaced == [][(n_data' > n_data => ~Misplaces) => F!Next]_vars

(***************************************************************************)
(* The queue is a first-in first-out queue (mmp_queue.h:20).  It holds for *)
(* sizes up to two, where the wrapped slot is always the right one, and is *)
(* violated from three on.                                                 *)
(***************************************************************************)
IsFifo == F!Spec
=============================================================================
