-------------------------------- MODULE Fifo --------------------------------
(***************************************************************************)
(* What a bounded first-in first-out queue promises: mmp_queue.h lines 20  *)
(* and 44-57, with the return codes the functions of mmp_queue.c give.     *)
(* A caller sees a queue that is open or not, its capacity, its items and  *)
(* the outcome of the last call.                                           *)
(***************************************************************************)
EXTENDS Naturals, Sequences

CONSTANTS Elem,     \* the pointers a caller may enqueue
          Sizes,    \* the sizes a caller may ask for
          NoElem    \* "no element was handed out"

VARIABLES open, cap, items, res

fvars == <<open, cap, items, res>>

Outcome(code, e) == [code |-> code, elem |-> e]

Init == /\ open = FALSE
        /\ cap = 0
        /\ items = << >>
        /\ res = Outcome("none", NoElem)

Create(size) == /\ ~open
                /\ open' = TRUE
                /\ cap' = size
                /\ items' = << >>
                /\ res' = Outcome("OK", NoElem)

CreateFails == /\ ~open
               /\ res' = Outcome("ENOMEM", NoElem)
               /\ UNCHANGED <<open, cap, items>>

Destroy == /\ open
           /\ open' = FALSE
           /\ cap' = 0
           /\ items' = << >>
           /\ res' = Outcome("none", NoElem)

Enqueue(e) == /\ open
              /\ Len(items) < cap
              /\ items' = Append(items, e)
              /\ res' = Outcome("OK", NoElem)
              /\ UNCHANGED <<open, cap>>

EnqueueFull == /\ open
               /\ Len(items) = cap
               /\ res' = Outcome("FULL", NoElem)
               /\ UNCHANGED <<open, cap, items>>

Dequeue == /\ open
           /\ items # << >>
           /\ items' = Tail(items)
           /\ res' = Outcome("OK", Head(items))
           /\ UNCHANGED <<open, cap>>

First == /\ open
         /\ items # << >>
         /\ res' = Outcome("OK", Head(items))
         /\ UNCHANGED <<open, cap, items>>

TakeEmpty == /\ open
             /\ items = << >>
             /\ res' = Outcome("EMPTY", NoElem)
             /\ UNCHANGED <<open, cap, items>>

Next == \/ \E size \in Sizes : Create(size)
        \/ CreateFails
        \/ Destroy
        \/ \E e \in Elem : Enqueue(e)
        \/ EnqueueFull
        \/ Dequeue
        \/ First
        \/ TakeEmpty

Spec == Init /\ [][Next]_fvars
=============================================================================
