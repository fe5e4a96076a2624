-------------------------------- MODULE List --------------------------------
(***************************************************************************)
(* src/mmp_list.c: a doubly linked list of pointers.  The loops of the     *)
(* code take one step per iteration, so that what a loop reads can be      *)
(* related to what was there when it began; the callbacks that lambda      *)
(* functions run may add data to the list they are walking over.           *)
(*                                                                         *)
(* The history variable order holds the elements in list order: what the   *)
(* pointers should say.  No action reads it except to choose arguments a   *)
(* client may hold.                                                        *)
(***************************************************************************)
EXTENDS Integers, SequencesExt

CONSTANTS Data,     \* the pointers stored in the list
          Key,      \* what comp reads from each: comp(a,b) is Key[a] - Key[b]
          Node,     \* addresses xmalloc can give to an element
          Null,
          Junk      \* what memory holds before it is written and once freed

ASSUME NodeAssumption == Null \notin Node /\ Junk \notin Node /\ Null # Junk
ASSUME DataAssumption == Null \notin Data /\ Junk \notin Data
ASSUME KeyAssumption == Key \in [Data -> Int]

VARIABLES open,                 \* the client holds a list
          head, tail, nelems,   \* its fields
          next, prev, data,     \* the fields of the elements
          alive,                \* the elements allocated
          pc, p, s, min, nu,    \* the call under way, its local pointers
          arg, ret,             \* its argument, and the last pointer found
          visited,              \* the elements a callback was run on
          order, atStart        \* history: list order, now and at the call

links == <<head, tail, nelems, next, prev, alive, order>>
rest == <<s, min, nu, arg, visited, atStart>>     \* all the locals but p
locals == <<p, rest>>
vars == <<open, data, pc, ret, links, locals>>

Idle == open /\ pc = "idle"

\* A call returns: its locals are gone.
Return == /\ pc' = "idle"
          /\ p' = Null /\ s' = Null /\ min' = Null /\ nu' = Null /\ arg' = Null
          /\ visited' = << >> /\ atStart' = << >>

Init == /\ open = FALSE
        /\ head = Null /\ tail = Null /\ nelems = 0
        /\ next = [n \in Node |-> Junk]
        /\ prev = [n \in Node |-> Junk]
        /\ data = [n \in Node |-> Junk]
        /\ alive = {}
        /\ pc = "idle"
        /\ p = Null /\ s = Null /\ min = Null /\ nu = Null /\ arg = Null
        /\ ret = Null
        /\ visited = << >>
        /\ order = << >> /\ atStart = << >>

Create == /\ ~open
          /\ open' = TRUE
          /\ head' = Null /\ tail' = Null /\ nelems' = 0
          /\ UNCHANGED <<data, pc, ret, locals, next, prev, alive, order>>

Counted == nelems + 1

(***************************************************************************)
(* mmp_list_add_data, with n the element that xmalloc returns.  When       *)
(* xmalloc returns NULL nothing changes, here and in the sorted addition.  *)
(***************************************************************************)
Prepend(n, d) ==
    /\ n \notin alive
    /\ alive' = alive \cup {n}
    /\ data' = [data EXCEPT ![n] = d]
    /\ prev' = IF head # Null
               THEN [prev EXCEPT ![n] = Null, ![head] = n]
               ELSE [prev EXCEPT ![n] = Null]
    /\ next' = [next EXCEPT ![n] = head]
    /\ head' = n
    /\ tail' = IF tail = Null THEN n ELSE tail
    /\ nelems' = Counted
    /\ order' = <<n>> \o order

AddData(n, d) == /\ Idle
                 /\ Prepend(n, d)
                 /\ UNCHANGED <<open, pc, ret, locals>>

(***************************************************************************)
(* mmp_list_add_data_sorted: the loop looks for the first element that     *)
(* does not compare greater, and the new element goes before it.           *)
(***************************************************************************)
AddSortedEmpty(n, d) == /\ head = Null
                        /\ AddData(n, d)

AddSorted(n, d) == /\ Idle
                   /\ head # Null
                   /\ n \notin alive
                   /\ alive' = alive \cup {n}
                   /\ data' = [data EXCEPT ![n] = d]
                   /\ nu' = n /\ p' = head
                   /\ pc' = "insert"
                   /\ UNCHANGED <<open, ret, head, tail, nelems, next, prev,
                                  order, s, min, arg, visited, atStart>>

\* bug: the loop breaks on equal keys only
BeforeUnlessEqual(e) == Key[data[e]] # Key[data[nu]]

Before(e) == Key[data[e]] > Key[data[nu]]

InsertNext == /\ pc = "insert"
              /\ p # Null
              /\ Before(p)
              /\ p' = next[p]
              /\ UNCHANGED <<open, data, pc, ret, links, rest>>

\* Where q stands in list order: past the end when it is NULL.
PlaceOf(q) == IF q = Null THEN Len(order) + 1
              ELSE CHOOSE i \in DOMAIN order : order[i] = q

InsertHere ==
    /\ pc = "insert"
    /\ p # Null => ~Before(p)
    /\ \/ /\ p = Null
          /\ prev' = [prev EXCEPT ![nu] = tail]
          /\ next' = [next EXCEPT ![nu] = Null, ![tail] = nu]
          /\ tail' = nu
          /\ UNCHANGED head
       \/ /\ p = head
          /\ p # Null
          /\ prev' = [prev EXCEPT ![nu] = Null, ![head] = nu]
          /\ next' = [next EXCEPT ![nu] = head]
          /\ head' = nu
          /\ UNCHANGED tail
       \/ /\ p \notin {Null, head}
          /\ prev' = [prev EXCEPT ![nu] = prev[p], ![p] = nu]
          /\ next' = IF prev[p] # Null
                     THEN [next EXCEPT ![prev[p]] = nu, ![nu] = p]
                     ELSE [next EXCEPT ![nu] = p]
          /\ UNCHANGED <<head, tail>>
    /\ nelems' = Counted
    /\ order' = InsertAt(order, PlaceOf(p), nu)
    /\ Return
    /\ UNCHANGED <<open, data, alive, ret>>

\* bug: nothing is freed
FreeNothing(e, nextNow, prevNow) == /\ next' = nextNow
                                    /\ prev' = prevNow
                                    /\ UNCHANGED <<alive, data>>

\* xfree: the element's memory is no longer the list's to read.
Free(e, nextNow, prevNow) == /\ alive' = alive \ {e}
                             /\ next' = [nextNow EXCEPT ![e] = Junk]
                             /\ prev' = [prevNow EXCEPT ![e] = Junk]
                             /\ data' = [data EXCEPT ![e] = Junk]

\* bug: the tail keeps pointing to the element that is freed
TailWithoutStays(e) == tail

TailWithout(e) == IF tail = e THEN prev[e] ELSE tail

(***************************************************************************)
(* mmp_list_del_elem, on an element of the list.                           *)
(***************************************************************************)
Unlink(e) == /\ Free(e, IF prev[e] # Null
                        THEN [next EXCEPT ![prev[e]] = next[e]] ELSE next,
                        IF next[e] # Null
                        THEN [prev EXCEPT ![next[e]] = prev[e]] ELSE prev)
             /\ head' = IF head = e THEN next[e] ELSE head
             /\ tail' = TailWithout(e)
             /\ nelems' = nelems - 1
             /\ order' = RemoveAt(order, PlaceOf(e))
             /\ ret' = Null

DelElem(e) == /\ Idle
              /\ Unlink(e)
              /\ UNCHANGED <<open, pc, locals>>

(***************************************************************************)
(* mmp_list_find_data ("find"), mmp_list_find_data_lambda ("lookup"),      *)
(* mmp_list_find_data_sorted ("sorted") and mmp_list_del_elem_by_data      *)
(* ("findDel"), which is a find and a deletion.                            *)
(***************************************************************************)
FindPcs == {"find", "lookup", "sorted", "findDel"}

Find(how, d) == /\ Idle
                /\ arg' = d /\ p' = head
                /\ pc' = how
                /\ UNCHANGED <<open, data, ret, links, s, min, nu, visited,
                               atStart>>

Matches(e) == IF pc \in {"find", "findDel"} THEN data[e] = arg
                                            ELSE Key[arg] = Key[data[e]]

GivesUp(e) == pc = "sorted" /\ Key[arg] > Key[data[e]]

\* bug: continue skips the step to the next element
FindStepStuck == IF pc = "sorted" THEN p ELSE next[p]

FindStep == next[p]

FindNext == /\ pc \in FindPcs
            /\ p # Null
            /\ ~Matches(p) /\ ~GivesUp(p)
            /\ p' = FindStep
            /\ UNCHANGED <<open, data, pc, ret, links, rest>>

FindHit == /\ pc \in FindPcs \ {"findDel"}
           /\ p # Null
           /\ Matches(p)
           /\ ret' = p
           /\ Return
           /\ UNCHANGED <<open, data, links>>

FindAndDelete == /\ pc = "findDel"
                 /\ p # Null
                 /\ Matches(p)
                 /\ Unlink(p)
                 /\ Return
                 /\ UNCHANGED open

\* bug: the last element is not looked at
FindOverEarly == p # Null => next[p] = Null \/ (~Matches(p) /\ GivesUp(p))

FindOver == p # Null => ~Matches(p) /\ GivesUp(p)

FindMiss == /\ pc \in FindPcs
            /\ FindOver
            /\ ret' = Null
            /\ Return
            /\ UNCHANGED <<open, data, links>>

(***************************************************************************)
(* mmp_list_lambda_elem, _data, _data_ext ("walk") and _data_ext_rev       *)
(* ("walkBack"): fnc may add data to the list before it returns.           *)
(***************************************************************************)
WalkPcs == {"walk", "walkBack"}

Lambda(how) == /\ Idle
               /\ p' = IF how = "walk" THEN head ELSE tail
               /\ pc' = how
               /\ atStart' = order
               /\ UNCHANGED <<open, data, ret, links, s, min, nu, arg, visited>>

\* bug: the pointer to follow is read before fnc runs
FollowingStale == IF pc = "walk" THEN next[p] ELSE prev[p]

Following == IF pc = "walk" THEN next'[p] ELSE prev'[p]

Call == /\ pc \in WalkPcs
        /\ p # Null
        /\ visited' = Append(visited, p)
        /\ \/ UNCHANGED <<data, links>>
           \/ \E n \in Node, d \in Data : Prepend(n, d)
        /\ p' = Following
        /\ UNCHANGED <<open, pc, ret, s, min, nu, arg, atStart>>

LambdaEnds == /\ pc \in WalkPcs
              /\ p = Null
              /\ Return
              /\ UNCHANGED <<open, data, ret, links>>

(***************************************************************************)
(* mmp_list_swap_elems, and mmp_list_sort_by_data: a selection sort whose  *)
(* inner loop, mmp_list_find_min, moves min and s.                         *)
(***************************************************************************)
\* bug: the swap has no temporary
SwapOverwrites(e1, e2) == data' = [data EXCEPT ![e1] = data[e2]]

Swap(e1, e2) == data' = [data EXCEPT ![e1] = data[e2], ![e2] = data[e1]]

SwapElems(e1, e2) == /\ Idle
                     /\ Swap(e1, e2)
                     /\ UNCHANGED <<open, pc, ret, links, locals>>

StartMinAt(e) == p' = e /\ s' = e /\ min' = e

Sort == /\ Idle
        /\ StartMinAt(head)
        /\ pc' = "sort"
        /\ UNCHANGED <<open, data, ret, links, nu, arg, visited, atStart>>

Smaller(e1, e2) == Key[data[e1]] < Key[data[e2]]

FindMin == /\ pc = "sort"
           /\ s # Null
           /\ min' = IF Smaller(s, min) THEN s ELSE min
           /\ s' = next[s]
           /\ UNCHANGED <<open, data, pc, ret, links, p, nu, arg, visited,
                          atStart>>

SwapMin == /\ pc = "sort"
           /\ s = Null /\ p # Null
           /\ Swap(p, min)
           /\ StartMinAt(next[p])
           /\ UNCHANGED <<open, pc, ret, links, nu, arg, visited, atStart>>

SortEnds == /\ pc = "sort"
            /\ p = Null
            /\ Return
            /\ UNCHANGED <<open, data, ret, links>>

(***************************************************************************)
(* mmp_list_delete and mmp_list_delete_withdata: the next pointer is read  *)
(* before the element is freed.                                            *)
(***************************************************************************)
Delete == /\ Idle
          /\ p' = head
          /\ pc' = "delete"
          /\ atStart' = order
          /\ UNCHANGED <<open, data, ret, links, s, min, nu, arg, visited>>

FreeOne == /\ pc = "delete"
           /\ p # Null
           /\ visited' = Append(visited, p)
           /\ Free(p, next, prev)
           /\ order' = Tail(order)
           /\ p' = next[p]
           /\ UNCHANGED <<open, pc, ret, head, tail, nelems, s, min, nu, arg,
                          atStart>>

FreedAll == p = Null

DeleteEnds == /\ pc = "delete"
              /\ FreedAll
              /\ open' = FALSE
              /\ head' = Null /\ tail' = Null /\ nelems' = 0
              /\ Return
              /\ UNCHANGED <<data, ret, next, prev, alive, order>>

\* The steps that continue a call the client has made.
Continue == \/ InsertNext \/ InsertHere
            \/ FindNext \/ FindHit \/ FindAndDelete \/ FindMiss
            \/ Call \/ LambdaEnds
            \/ FindMin \/ SwapMin \/ SortEnds
            \/ FreeOne \/ DeleteEnds

Next == \/ Create
        \/ \E n \in Node, d \in Data : \/ AddData(n, d)
                                       \/ AddSortedEmpty(n, d)
                                       \/ AddSorted(n, d)
        \/ \E e \in ToSet(order) : DelElem(e)
        \/ \E how \in FindPcs, d \in Data : Find(how, d)
        \/ \E how \in WalkPcs : Lambda(how)
        \/ \E e1, e2 \in ToSet(order) : SwapElems(e1, e2)
        \/ Sort
        \/ Delete
        \/ Continue

Spec == Init /\ [][Next]_vars

\* A thread that has entered a loop of the list keeps running it.
FairSpec == Spec /\ WF_vars(Continue)
-----------------------------------------------------------------------------
TypeOK == /\ open \in BOOLEAN
          /\ {head, tail, p, s, min, nu, ret} \subseteq Node \cup {Null}
          /\ nelems \in Nat
          /\ next \in [Node -> Node \cup {Null, Junk}]
          /\ prev \in [Node -> Node \cup {Null, Junk}]
          /\ data \in [Node -> Data \cup {Junk}]
          /\ alive \subseteq Node
          /\ pc \in {"idle", "insert", "sort", "delete"} \cup FindPcs \cup WalkPcs
          /\ arg \in Data \cup {Null}
          /\ order \in Seq(Node) /\ atStart \in Seq(Node) /\ visited \in Seq(Node)

(***************************************************************************)
(* The pointers say what the history of calls says: head, tail, next and   *)
(* prev run through the elements in list order, each once, both ways, and  *)
(* nelems counts them.  The loop of mmp_list_delete, which frees the       *)
(* elements without unlinking them, is the one place where they may not.   *)
(***************************************************************************)
NextOf(i) == IF i < Len(order) THEN order[i + 1] ELSE Null
PrevOf(i) == IF i > 1 THEN order[i - 1] ELSE Null

Linked ==
    /\ \A i, j \in DOMAIN order : order[i] = order[j] => i = j
    /\ \A i \in DOMAIN order : next[order[i]] = NextOf(i)
    /\ pc # "delete" =>
          /\ nelems = Len(order)
          /\ head = NextOf(0)
          /\ tail = PrevOf(Len(order) + 1)
          /\ \A i \in DOMAIN order : prev[order[i]] = PrevOf(i)

(***************************************************************************)
(* No element is lost or freed twice: xmalloc's blocks are those of the    *)
(* list, and the one that mmp_list_add_data_sorted is about to link.       *)
(***************************************************************************)
Owned == alive = ToSet(order) \cup (IF pc = "insert" THEN {nu} ELSE {})

\* The data in list order; with Linked, what a client of the list sees.
Items == [i \in 1..Len(order) |-> data[order[i]]]

L == INSTANCE DataList WITH items <- Items

\* Every loop step and every call is a step of the sequence of data that
\* mmp_list.h promises, or changes nothing in it.
IsDataList == L!Spec

Descending == \A i, j \in DOMAIN order :
                 i < j => Key[data[order[i]]] >= Key[data[order[j]]]
Ascending == \A i, j \in DOMAIN order :
                i < j => Key[data[order[i]]] <= Key[data[order[j]]]

(***************************************************************************)
(* Each of the three searches returns the first element that matches, and  *)
(* NULL only if none does; mmp_list_find_data_sorted does so on the order  *)
(* that mmp_list_add_data_sorted keeps.                                    *)
(***************************************************************************)
Wanted(e) == IF pc = "find" THEN data[e] = arg ELSE Key[data[e]] = Key[arg]
FirstMatch(e) == \E i \in DOMAIN order :
                    /\ order[i] = e
                    /\ Wanted(e)
                    /\ \A j \in 1..(i - 1) : ~Wanted(order[j])
NoMatch == \A i \in DOMAIN order : ~Wanted(order[i])

Returning == pc # "idle" /\ pc' = "idle"

FindIsExact ==
    [][Returning /\ (pc \in {"find", "lookup"} \/ (pc = "sorted" /\ Descending))
         => IF ret' = Null THEN NoMatch ELSE FirstMatch(ret')]_vars

(***************************************************************************)
(* mmp_list_add_data_sorted keeps a list in descending order of comp, and  *)
(* mmp_list_sort_by_data leaves it in ascending order.                     *)
(***************************************************************************)
Ordered == [][/\ pc = "insert" /\ Descending => Descending'
              /\ Returning /\ pc = "sort" => Ascending']_vars

(***************************************************************************)
(* A lambda function calls fnc once on every element that the list had     *)
(* when it was called; forward it never sees what fnc adds, and backward   *)
(* it sees all of it.  mmp_list_delete_withdata calls cback on every       *)
(* element, in order, once.                                                *)
(***************************************************************************)
Visits ==
    [][Returning => CASE pc \in {"walk", "delete"} -> visited = atStart
                      [] pc = "walkBack" -> visited = Reverse(order)
                      [] OTHER -> TRUE]_vars

\* Every call returns: with a finite heap, even a walk whose callback adds.
CallsReturn == []<>(pc = "idle")

(***************************************************************************)
(* mmp_list_find_data_sorted on a list that mmp_list_sort_by_data sorted   *)
(* (mmp_list.h:90: "supposing that data is sorted").                       *)
(***************************************************************************)
FindsInSorted ==
    [][Returning /\ pc = "sorted" /\ Ascending /\ ret' = Null => NoMatch]_vars

(***************************************************************************)
(* mmp_list_del_elem gives back the data of the element it deletes         *)
(* (mmp_list.h:71: "return the element data").                             *)
(***************************************************************************)
DeleteReturnsData ==
    [][\A e \in ToSet(order) : DelElem(e) => ret' = data[e]]_vars
=============================================================================
