---------------------------- MODULE Trees_proofs ----------------------------
(***************************************************************************)
(* Proofs about the two trees.  Prioq, for every set of data, priorities,  *)
(* sizes of the array and values of a freed node: the array is a heap of   *)
(* what is queued until a slot past the heap gets into it, and a pop gives *)
(* the highest.  Btree, for all keys, sizes of a page and numbers of pages: *)
(* pages ascend, and a search is exact until a page is lost.               *)
(***************************************************************************)
EXTENDS Prioq, Btree, WellFoundedInduction, FiniteSetTheorems, TLAPS

\* What is sifted is in the heap, unless that is empty.
Sifting == /\ pc = "up" => k \in 1..(n - 1)
           /\ pc = "down" => k < n \/ (k = 0 /\ n = 0)
           /\ pc = "none" => n = 0

HeapInv == HeapHolds /\ Sifting

USE DataAssumption, PrioAssumption, SizeAssumption

\* There is no queue yet.
LEMMA InitHeapInv == Init => HeapInv
BY DEF Init, HeapInv, HeapHolds, TypeOK, Contents, Order, Sifting

\* What is known of the places of a heap.
LEMMA Places == ASSUME NEW j \in Nat
                PROVE /\ j > 0 => Parent(j) \in 0..(j - 1)
                      /\ LChild(j) \in Nat /\ RChild(j) \in Nat
                      /\ LChild(j) > j /\ RChild(j) > LChild(j)
                      /\ Parent(LChild(j)) = j /\ Parent(RChild(j)) = j
BY DEF Parent, LChild, RChild

\* The parent of a place of a heap of m is another one of it.
LEMMA InHeap == ASSUME NEW m \in Nat, NEW j \in 1..(m - 1)
                PROVE /\ j \in Nat /\ j > 0
                      /\ Parent(j) \in 0..(j - 1) /\ Parent(j) \in 0..(m - 1)
                      /\ Parent(j) # j
<1>1. j \in Nat /\ j > 0
  OBVIOUS
<1>2. Parent(j) \in 0..(j - 1)
  BY <1>1, Places
<1> QED
  BY <1>1, <1>2

\* The children of a place are the two.
LEMMA Children == ASSUME NEW i \in Nat, NEW j \in Nat, j > 0, Parent(j) = i
                  PROVE j = LChild(i) \/ j = RChild(i)
BY DEF Parent, LChild, RChild

\* What is queued has a priority.
LEMMA Priorities == ASSUME TypeOK, Contents
                    PROVE \A j \in 0..(n - 1) : /\ arr[j] \in Data
                                                /\ Prio[arr[j]] \in Int
BY DEF TypeOK, Contents

\* An exchange of two slots leaves every other one.
LEMMA SwapAt == ASSUME TypeOK, NEW a \in 0..(n_alloc - 1), NEW b \in 0..(n_alloc - 1)
                PROVE /\ Swapped(a, b) \in [0..(n_alloc - 1) -> Slot]
                      /\ Swapped(a, b)[a] = arr[b] /\ Swapped(a, b)[b] = arr[a]
                      /\ \A j \in 0..(n_alloc - 1) :
                            j # a /\ j # b => Swapped(a, b)[j] = arr[j]
BY DEF TypeOK, Swapped

\* In the heap, it leaves what is queued.
LEMMA SwapContents == ASSUME TypeOK, Contents, NEW a \in 0..(n - 1), NEW b \in 0..(n - 1),
                             arr' = Swapped(a, b), n' = n, inq' = inq
                      PROVE Contents'
<1>1. /\ n \in Nat /\ n <= n_alloc /\ n_alloc \in Nat
      /\ arr'[a] = arr[b] /\ arr'[b] = arr[a]
      /\ \A j \in 0..(n - 1) : j # a /\ j # b => arr'[j] = arr[j]
  BY SwapAt DEF TypeOK
<1>2. \A j \in 0..(n - 1) : arr'[j] \in inq
  BY <1>1 DEF Contents
<1>3. \A i, j \in 0..(n - 1) : arr'[i] = arr'[j] => i = j
  BY <1>1 DEF Contents
<1>4. \A d \in inq : \E j \in 0..(n - 1) : arr'[j] = d
  <2> SUFFICES ASSUME NEW d \in inq PROVE \E j \in 0..(n - 1) : arr'[j] = d
    OBVIOUS
  <2>1. PICK j \in 0..(n - 1) : arr[j] = d
    BY DEF Contents
  <2>2. CASE j = a
    BY <1>1, <2>1, <2>2
  <2>3. CASE j = b
    BY <1>1, <2>1, <2>3
  <2>4. CASE j # a /\ j # b
    BY <1>1, <2>1, <2>4
  <2> QED
    BY <2>2, <2>3, <2>4
<1> QED
  BY <1>2, <1>3, <1>4 DEF Contents

\* An exchange with the parent sifts up.
LEMMA SiftsUp == ASSUME HeapInv, SortLast PROVE HeapInv'
<1>1. /\ pc = "up" /\ n' = n /\ n_alloc' = n_alloc /\ inq' = inq
      /\ TypeOK /\ Contents /\ Order /\ k \in 1..(n - 1)
      /\ n \in Nat /\ n_alloc \in Nat /\ n <= n_alloc
      /\ arr \in [0..(n_alloc - 1) -> Slot] /\ inq \subseteq Data
  BY DEF SortLast, HeapInv, HeapHolds, TypeOK, Sifting
<1> DEFINE p == Parent(k)
<1>2. p \in 0..(k - 1) /\ p \in 0..(n - 1)
  BY <1>1, InHeap
<1>3. \A j \in 0..(n - 1) : Prio[arr[j]] \in Int
  BY <1>1, Priorities
<1>4. /\ \A j \in 1..(n - 1) : j # k => Prio[arr[j]] <= Prio[arr[Parent(j)]]
      /\ \A j \in 1..(n - 1) : Parent(j) = k => Prio[arr[j]] <= Prio[arr[p]]
  BY <1>1 DEF Order, Below
<1>5. CASE Prio[arr[k]] <= Prio[arr[p]]
  <2>1. pc' = "idle" /\ arr' = arr /\ k' = k
    BY <1>5 DEF SortLast
  <2>2. Order'
    BY <1>1, <1>4, <1>5, <2>1 DEF Order, Below
  <2>3. TypeOK' /\ Contents'
    BY <1>1, <2>1 DEF TypeOK, Contents
  <2> QED
    BY <2>1, <2>2, <2>3 DEF HeapInv, HeapHolds, Sifting
<1>6. CASE ~(Prio[arr[k]] <= Prio[arr[p]])
  <2>1. /\ arr' = Swapped(k, p) /\ k' = p
        /\ pc' = IF p = 0 THEN "idle" ELSE "up"
    BY <1>6 DEF SortLast
  <2>2. /\ arr' \in [0..(n_alloc - 1) -> Slot]
        /\ arr'[k] = arr[p] /\ arr'[p] = arr[k]
        /\ \A j \in 0..(n - 1) : j # k /\ j # p => arr'[j] = arr[j]
    BY <1>1, <1>2, <2>1, SwapAt
  <2>3. TypeOK' /\ Sifting'
    BY <1>1, <1>2, <2>1, <2>2 DEF TypeOK, Sifting
  <2>4. Contents'
    BY <1>1, <1>2, <2>1, SwapContents
  <2>5. Prio[arr[p]] < Prio[arr[k]]
    BY <1>1, <1>2, <1>3, <1>6
  <2>6. ASSUME NEW j \in 1..(n - 1), j # p
        PROVE Prio[arr'[j]] <= Prio[arr'[Parent(j)]]
    <3>1. Parent(j) \in 0..(n - 1) /\ Parent(j) # j
      BY <1>1, InHeap
    <3>2. CASE j = k
      BY <1>2, <1>3, <2>2, <2>5, <3>2
    <3>3. CASE j # k /\ Parent(j) = p
      <4>1. Prio[arr[j]] <= Prio[arr[p]] /\ arr'[j] = arr[j]
        BY <1>4, <2>2, <2>6, <3>3
      <4> QED
        BY <1>1, <1>2, <1>3, <2>2, <2>5, <3>3, <4>1
    <3>4. CASE j # k /\ Parent(j) = k
      BY <1>1, <1>4, <2>2, <2>6, <3>4
    <3>5. CASE j # k /\ Parent(j) # p /\ Parent(j) # k
      <4>1. Prio[arr[j]] <= Prio[arr[Parent(j)]]
        BY <1>4, <3>5
      <4>2. j \in 0..(n - 1) /\ arr'[j] = arr[j]
        BY <1>1, <2>2, <2>6, <3>5
      <4>3. arr'[Parent(j)] = arr[Parent(j)]
        BY <2>2, <3>1, <3>5
      <4> QED
        BY <4>1, <4>2, <4>3
    <3> QED
      BY <3>2, <3>3, <3>4, <3>5
  <2>7. ASSUME NEW j \in 1..(n - 1), Parent(j) = p, p > 0
        PROVE Prio[arr'[j]] <= Prio[arr'[Parent(p)]]
    <3>0. p \in 1..(n - 1)
      BY <1>1, <1>2, <2>7
    <3>1. Parent(p) \in 0..(p - 1) /\ Parent(p) \in 0..(n - 1) /\ p \in 1..(n - 1) /\ j # p
      BY <1>1, <2>7, <3>0, InHeap
    <3>2. Prio[arr[p]] <= Prio[arr[Parent(p)]] /\ arr'[Parent(p)] = arr[Parent(p)]
      BY <1>2, <1>4, <2>2, <3>1
    <3>3. CASE j = k
      BY <2>2, <3>2, <3>3
    <3>4. CASE j # k
      <4>1. Prio[arr[j]] <= Prio[arr[p]] /\ arr'[j] = arr[j]
        BY <1>4, <2>2, <2>7, <3>1, <3>4
      <4> QED
        BY <1>1, <1>2, <1>3, <3>1, <3>2, <4>1
    <3> QED
      BY <3>3, <3>4
  <2>8. Order'
    BY <1>1, <1>2, <2>1, <2>6, <2>7 DEF Order, Below
  <2> QED
    BY <2>3, <2>4, <2>8 DEF HeapInv, HeapHolds
<1> QED
  BY <1>5, <1>6

\* The child that is chosen is above the element and above the other child.
LEMMA ChildIsHighest ==
    ASSUME k \in Nat, NEW p \in Int, NEW p1 \in Int, NEW p2 \in Int
    PROVE LET c == Child(p, p1, p2) IN
          \/ c = k /\ p >= p1 /\ p >= p2
          \/ c = LChild(k) /\ p < p1 /\ p2 <= p1
          \/ c = RChild(k) /\ p < p2 /\ p1 <= p2
BY DEF Child

\* An exchange of the element at k with a child in the heap sifts down.
LEMMA SiftsDown ==
    ASSUME TypeOK, Contents, Order, pc = "down", k \in 0..(n - 1),
           NEW c \in 0..(n - 1), c > 0, Parent(c) = k, Prio[arr[k]] < Prio[arr[c]],
           \A j \in 1..(n - 1) : Parent(j) = k => Prio[arr[j]] <= Prio[arr[c]],
           arr' = Swapped(k, c), k' = c, n' = n, pc' = "down"
    PROVE Order'
<1>1. n \in Nat /\ n_alloc \in Nat /\ n <= n_alloc /\ c \in 1..(n - 1) /\ c # k
  BY InHeap DEF TypeOK
<1>2. /\ arr'[k] = arr[c] /\ arr'[c] = arr[k]
      /\ \A j \in 0..(n - 1) : j # k /\ j # c => arr'[j] = arr[j]
  BY <1>1, SwapAt
<1>3. \A j \in 0..(n - 1) : Prio[arr[j]] \in Int
  BY Priorities
<1>4. /\ \A j \in 1..(n - 1) : Parent(j) # k => Prio[arr[j]] <= Prio[arr[Parent(j)]]
      /\ k > 0 => \A j \in 1..(n - 1) : Parent(j) = k => Prio[arr[j]] <= Prio[arr[Parent(k)]]
  BY DEF Order, Below
<1>5. ASSUME NEW j \in 1..(n - 1), Parent(j) # c
      PROVE Prio[arr'[j]] <= Prio[arr'[Parent(j)]]
  <2>1. Parent(j) \in 0..(n - 1) /\ Parent(j) # j /\ j \in 0..(n - 1)
    BY <1>1, InHeap
  <2>2. CASE j = c
    BY <1>2, <1>3, <2>1, <2>2
  <2>3. CASE j # c /\ Parent(j) = k
    BY <1>2, <2>1, <2>3
  <2>4. CASE j = k
    <3>1. Prio[arr[c]] <= Prio[arr[Parent(k)]]
      BY <1>1, <1>4, <2>4
    <3>2. arr'[Parent(k)] = arr[Parent(k)]
      BY <1>2, <1>5, <2>1, <2>4
    <3> QED
      BY <1>2, <2>4, <3>1, <3>2
  <2>5. CASE j # c /\ j # k /\ Parent(j) # k
    <3>1. Prio[arr[j]] <= Prio[arr[Parent(j)]]
      BY <1>4, <2>5
    <3>2. arr'[j] = arr[j] /\ arr'[Parent(j)] = arr[Parent(j)]
      BY <1>2, <1>5, <2>1, <2>5
    <3> QED
      BY <3>1, <3>2
  <2> QED
    BY <2>2, <2>3, <2>4, <2>5
<1>6. ASSUME NEW j \in 1..(n - 1), Parent(j) = c
      PROVE Prio[arr'[j]] <= Prio[arr'[k]]
  <2>1. j \in 0..(n - 1) /\ j # c /\ j # k
    <3>1. c < j
      BY <1>1, <1>6, InHeap
    <3>2. k < c
      BY <1>1, InHeap
    <3> QED
      BY <1>1, <3>1, <3>2
  <2>2. Prio[arr[j]] <= Prio[arr[c]] /\ arr'[j] = arr[j]
    BY <1>1, <1>2, <1>4, <1>6, <2>1
  <2> QED
    BY <1>2, <2>2
<1> QED
  BY <1>5, <1>6 DEF Order, Below

\* One step of the loop that sifts down keeps the heap, or leaves it wild.
LEMMA SortsRoot == ASSUME HeapInv, SortRoot PROVE HeapInv'
<1>1. /\ pc = "down" /\ n' = n /\ n_alloc' = n_alloc /\ inq' = inq
      /\ TypeOK /\ Contents /\ Order /\ k \in Nat /\ (k < n \/ (k = 0 /\ n = 0))
      /\ n \in Nat /\ n_alloc \in Nat /\ n <= n_alloc
      /\ arr \in [0..(n_alloc - 1) -> Slot] /\ inq \subseteq Data
  BY DEF SortRoot, HeapInv, HeapHolds, TypeOK, Sifting
<1>2. k \in Nat
  BY DEF HeapInv, HeapHolds, TypeOK
<1>3. PICK p \in Reads(k), p1 \in Reads(LChild(k)), p2 \in Reads(RChild(k)) :
         IF Child(p, p1, p2) = k THEN pc' = "idle" /\ UNCHANGED <<arr, k>>
         ELSE SiftTo(Child(p, p1, p2))
  BY DEF SortRoot
<1>4. \A j : Reads(j) \subseteq Int
  BY DEF Reads
<1>5. \A j \in 0..(n - 1) : /\ Reads(j) = {Prio[arr[j]]}
                             /\ Prio[arr[j]] \in Int
  <2>1. \A j \in 0..(n - 1) : j < n_alloc /\ arr[j] \in Data /\ Prio[arr[j]] \in Int
    BY <1>1, Priorities
  <2> QED
    BY <2>1 DEF Reads, At
<1> DEFINE c == Child(p, p1, p2)
           Le == LChild(k)
           Ri == RChild(k)
<1>6. \/ c = k /\ p >= p1 /\ p >= p2
      \/ c = Le /\ p < p1 /\ p2 <= p1
      \/ c = Ri /\ p < p2 /\ p1 <= p2
  BY <1>2, <1>4, ChildIsHighest
<1>7. Le \in Nat /\ Ri \in Nat /\ Le > k /\ Ri > Le /\ Parent(Le) = k /\ Parent(Ri) = k
  BY <1>2, Places
<1>8. \A j \in 1..(n - 1) : Parent(j) = k => j = Le \/ j = Ri
  BY <1>1, <1>2, InHeap, Children
<1>9. /\ k < n => p = Prio[arr[k]]
      /\ Le < n => p1 = Prio[arr[Le]]
      /\ Ri < n => p2 = Prio[arr[Ri]]
  BY <1>1, <1>2, <1>5, <1>7
<1> HIDE DEF c, Le, Ri
<1>10. CASE c = k
  <2>1. pc' = "idle" /\ arr' = arr /\ k' = k
    BY <1>3, <1>10 DEF c
  <2>2. p >= p1 /\ p >= p2
    BY <1>6, <1>7, <1>10
  <2>3. \A j \in 1..(n - 1) : Parent(j) = k => Prio[arr[j]] <= Prio[arr[k]]
    BY <1>1, <1>2, <1>7, <1>8, <1>9, <2>2
  <2>4. Order'
    BY <1>1, <2>1, <2>3 DEF Order, Below
  <2> QED
    BY <1>1, <1>2, <2>1, <2>4 DEF HeapInv, HeapHolds, TypeOK, Contents, Sifting
<1>11. CASE c # k
  <2>1. SiftTo(c)
    BY <1>3, <1>11 DEF c
  <2>0. c = Le \/ c = Ri
    BY <1>6, <1>11
  <2>2. c \in Nat /\ c > k /\ Parent(c) = k
    <3>1. Ri > k
      BY <1>2, <1>7
    <3> QED
      BY <1>7, <2>0, <3>1
  <2>3. CASE c < n
    <3>1. /\ arr' = Swapped(k, c) /\ k' = c /\ pc' = "down"
          /\ c \in 0..(n - 1) /\ k \in 0..(n - 1)
      BY <1>1, <1>2, <2>1, <2>2, <2>3 DEF SiftTo
    <3>2. Prio[arr[k]] < Prio[arr[c]]
      <4>1. CASE c = Le
        BY <1>1, <1>6, <1>7, <1>9, <1>11, <2>3, <3>1, <4>1
      <4>2. CASE c = Ri
        BY <1>1, <1>6, <1>7, <1>9, <1>11, <2>3, <3>1, <4>2
      <4> QED
        BY <2>0, <4>1, <4>2
    <3>3. ASSUME NEW j \in 1..(n - 1), Parent(j) = k PROVE Prio[arr[j]] <= Prio[arr[c]]
      <4>1. j < n /\ j \in 0..(n - 1) /\ (j = Le \/ j = Ri)
        BY <1>1, <1>8, <3>3
      <4>2. Prio[arr[j]] \in Int /\ Prio[arr[c]] \in Int
        BY <1>5, <3>1, <4>1
      <4>3. CASE j = c
        BY <4>2, <4>3
      <4>4. CASE j = Le /\ c = Ri
        BY <1>4, <1>6, <1>7, <1>9, <1>11, <2>3, <4>1, <4>4
      <4>5. CASE j = Ri /\ c = Le
        BY <1>4, <1>6, <1>7, <1>9, <1>11, <2>3, <4>1, <4>5
      <4> QED
        BY <2>0, <4>1, <4>3, <4>4, <4>5
    <3>4. Order'
      BY <1>1, <1>2, <2>2, <3>1, <3>2, <3>3, SiftsDown
    <3>5. Contents'
      BY <1>1, <3>1, SwapContents
    <3>6. arr' \in [0..(n_alloc - 1) -> Slot]
      BY <1>1, <3>1, SwapAt
    <3> QED
      BY <1>1, <2>3, <3>1, <3>4, <3>5, <3>6 DEF HeapInv, HeapHolds, TypeOK, Sifting
  <2>4. CASE c >= n /\ c < n_alloc
    <3>1. /\ arr' = Swapped(k, c) /\ k' = c
          /\ pc' = IF k < n THEN "wild" ELSE "idle"
      BY <1>1, <2>1, <2>2, <2>4 DEF SiftTo
    <3>2. arr' \in [0..(n_alloc - 1) -> Slot]
      <4>1. k \in 0..(n_alloc - 1) /\ c \in 0..(n_alloc - 1)
        BY <1>1, <1>2, <2>2, <2>4
      <4> QED
        BY <1>1, <3>1, <4>1, SwapAt
    <3>3. TypeOK' /\ Sifting'
      BY <1>1, <2>2, <3>1, <3>2 DEF TypeOK, Sifting
    <3>4. pc' # "wild" => n = 0
      BY <1>1, <3>1
    <3>5. pc' # "wild" => Contents' /\ Order'
      <4>1. CASE pc' = "wild"
        BY <4>1
      <4>2. CASE pc' # "wild"
        <5>1. n = 0 /\ inq = {} /\ n' = 0 /\ inq' = {}
          BY <1>1, <3>4, <4>2 DEF Contents
        <5> QED
          BY <5>1 DEF Contents, Order
      <4> QED
        BY <4>1, <4>2
    <3> QED
      BY <3>3, <3>5 DEF HeapInv, HeapHolds
  <2>5. CASE c >= n_alloc
    <3>1. pc' = "wild" /\ arr' = arr /\ k' = k
      BY <1>1, <2>1, <2>2, <2>5 DEF SiftTo
    <3> QED
      BY <1>1, <1>2, <3>1 DEF HeapInv, HeapHolds, TypeOK, Sifting
  <2> QED
    BY <1>1, <2>2, <2>3, <2>4, <2>5
<1> QED
  BY <1>10, <1>11

\* An array that is not made smaller keeps the heap.
LEMMA GrownAt == ASSUME TypeOK, NEW m \in Nat, n_alloc' = m, n <= m
                 PROVE /\ Grown \in [0..(m - 1) -> Slot]
                       /\ \A j \in 0..(n - 1) : Grown[j] = arr[j]
<1>1. /\ n_alloc \in Nat /\ n \in Nat /\ n <= n_alloc
      /\ arr \in [0..(n_alloc - 1) -> Slot]
  BY DEF TypeOK
<1>2. Grown = [j \in 0..(m - 1) |-> IF j < n_alloc THEN arr[j] ELSE Unset]
  BY DEF Grown
<1>3. \A j \in 0..(m - 1) : j < n_alloc => j \in 0..(n_alloc - 1)
  BY <1>1
<1>4. \A j \in 0..(n - 1) : j < n_alloc /\ j \in 0..(m - 1)
  BY <1>1
<1> QED
  BY <1>1, <1>2, <1>3, <1>4 DEF Slot

\* Every step preserves the invariant.
LEMMA NextHeapInv == ASSUME HeapInv, [Next]_vars PROVE HeapInv'
<1>a. /\ n_alloc \in Nat /\ n \in Nat /\ n <= n_alloc
      /\ arr \in [0..(n_alloc - 1) -> Slot]
      /\ k \in Nat /\ inq \subseteq Data
      /\ pc \in {"none", "idle", "up", "down", "wild"}
  BY DEF HeapInv, HeapHolds, TypeOK
<1>b. TypeOK
  BY DEF HeapInv, HeapHolds
<1>1. CASE Create
  <2>1. n = 0 /\ inq = {} /\ n' = 0 /\ inq' = {} /\ k' = k /\ pc' = "idle"
    BY <1>1 DEF Create, HeapInv, HeapHolds, Sifting, Contents
  <2>2. PICK m \in Nat : n_alloc' = m
    BY <1>1 DEF Create
  <2>3. arr' \in [0..(m - 1) -> Slot]
    BY <1>1, <2>2 DEF Create, Slot
  <2>4. n' \in 0..m
    BY <2>1, <2>2
  <2>5. TypeOK' /\ Sifting'
    BY <1>a, <2>1, <2>2, <2>3, <2>4 DEF TypeOK, Sifting
  <2>6. Contents' /\ Order'
    BY <2>1 DEF Contents, Order
  <2> QED
    BY <2>5, <2>6 DEF HeapInv, HeapHolds
<1>2. CASE Destroy
  BY <1>a, <1>2 DEF Destroy, HeapInv, HeapHolds, TypeOK, Contents, Order, Sifting
<1>3. CASE InsertFails
  <2>1. n' = n /\ inq' = inq /\ k' = k /\ pc' = pc /\ pc = "idle"
    BY <1>3 DEF InsertFails
  <2>0. PICK m \in Nat : n_alloc' = m /\ n <= m
    BY <1>a, <1>3 DEF InsertFails, Enlarge
  <2>2. /\ arr' \in [0..(m - 1) -> Slot]
        /\ \A j \in 0..(n - 1) : arr'[j] = arr[j]
    BY <1>b, <1>3, <2>0, GrownAt DEF InsertFails
  <2>3. Contents'
    <3>1. /\ \A j \in 0..(n - 1) : arr[j] \in inq
          /\ \A i, j \in 0..(n - 1) : arr[i] = arr[j] => i = j
          /\ \A d \in inq : \E j \in 0..(n - 1) : arr[j] = d
      BY <2>1 DEF HeapInv, HeapHolds, Contents
    <3>2. \A d \in inq : \E j \in 0..(n - 1) : arr'[j] = d
      BY <2>2, <3>1
    <3>3. \A i, j \in 0..(n - 1) : arr'[i] = arr'[j] => i = j
      BY <2>2, <3>1
    <3>4. \A j \in 0..(n - 1) : arr'[j] \in inq
      BY <2>2, <3>1
    <3> QED
      BY <2>1, <3>2, <3>3, <3>4 DEF Contents
  <2>4. \A j \in 1..(n - 1) : /\ j \in 0..(n - 1) /\ Parent(j) \in 0..(n - 1)
                              /\ Below(j, Parent(j))
    BY <1>a, <2>1, InHeap DEF HeapInv, HeapHolds, Order
  <2>5. Order'
    BY <2>1, <2>2, <2>4 DEF Order, Below
  <2>6. n' \in 0..m
    BY <1>a, <2>0, <2>1
  <2>7. TypeOK' /\ Sifting'
    BY <1>a, <2>0, <2>1, <2>2, <2>6 DEF TypeOK, Sifting
  <2> QED
    BY <2>3, <2>5, <2>7 DEF HeapInv, HeapHolds
<1>4. ASSUME NEW d \in Data, Insert(d) PROVE HeapInv'
  <2>1. /\ n' = n + 1 /\ inq' = inq \cup {d} /\ k' = n /\ d \notin inq
        /\ pc' = IF n = 0 THEN "idle" ELSE "up"
        /\ pc = "idle"
    BY <1>4 DEF Insert
  <2>2. PICK m \in Nat : n_alloc' = m /\ n + 1 <= m
    BY <1>a, <1>4 DEF Insert, Enlarge
  <2>3. arr' = [Grown EXCEPT ![n] = d]
    BY <1>4 DEF Insert
  <2>0. /\ Grown \in [0..(m - 1) -> Slot]
        /\ \A j \in 0..(n - 1) : Grown[j] = arr[j]
    <3>1. n <= m
      BY <1>a, <2>2
    <3> QED
      BY <1>b, <2>2, <3>1, GrownAt
  <2>4. /\ arr' \in [0..(m - 1) -> Slot]
        /\ arr'[n] = d
        /\ \A j \in 0..(n - 1) : arr'[j] = arr[j]
    <3>1. n \in 0..(m - 1) /\ d \in Slot
      BY <1>a, <2>2 DEF Slot
    <3>2. \A j \in 0..(n - 1) : j \in 0..(m - 1) /\ j # n
      BY <1>a, <2>2
    <3> QED
      BY <2>0, <2>3, <3>1, <3>2
  <2>5. Contents'
    <3>1. \A j \in 0..n : j \in 0..(n - 1) \/ j = n
      BY <1>a
    <3>2. \A j \in 0..(n - 1) : arr[j] \in inq
      BY <2>1 DEF HeapInv, HeapHolds, Contents
    <3>3. \A j \in 0..n : arr'[j] \in inq'
      BY <2>1, <2>4, <3>1, <3>2
    <3>4. \A i, j \in 0..n : arr'[i] = arr'[j] => i = j
      BY <1>a, <2>1, <2>4, <3>1, <3>2 DEF HeapInv, HeapHolds, Contents
    <3>5. \A e \in inq' : \E j \in 0..n : arr'[j] = e
      BY <1>a, <2>1, <2>4 DEF HeapInv, HeapHolds, Contents
    <3> QED
      BY <1>a, <2>1, <3>3, <3>4, <3>5 DEF Contents
  <2>6. Order'
    <3>1. ASSUME NEW j \in 1..n PROVE j = n \/ Below(j, Parent(j))'
      <4>1. CASE j \in 1..(n - 1)
        <5>1. /\ j \in 0..(n - 1) /\ Parent(j) \in 0..(n - 1)
              /\ Below(j, Parent(j))
          BY <1>a, <2>1, <4>1, InHeap DEF HeapInv, HeapHolds, Order
        <5> QED
          BY <2>4, <5>1 DEF Below
      <4> QED
        BY <1>a, <4>1
    <3>2. \A j \in 1..n : Parent(j) # n
      <4>1. \A j \in Nat : j > 0 => Parent(j) \in 0..(j - 1)
        BY Places
      <4> QED
        BY <1>a, <4>1
    <3>3. n > 0 \/ 1..(n' - 1) = {}
      BY <1>a, <2>1
    <3> QED
      BY <1>a, <2>1, <3>1, <3>2, <3>3 DEF Order
  <2>7. n' \in 0..m
    BY <1>a, <2>1, <2>2
  <2>8. TypeOK' /\ Sifting'
    BY <1>a, <2>1, <2>2, <2>4, <2>7 DEF TypeOK, Sifting
  <2> QED
    BY <2>5, <2>6, <2>8 DEF HeapInv, HeapHolds
<1>5. CASE SortLast
  BY <1>5, SiftsUp
<1>6. CASE Pop
  <2>1. /\ n' = n - 1 /\ n > 0 /\ n_alloc' = n_alloc /\ inq' = inq \ {arr[0]}
        /\ k' = 0 /\ pc' = "down" /\ pc = "idle"
        /\ arr' = [arr EXCEPT ![0] = arr[n - 1], ![n - 1] = Freed]
    BY <1>6 DEF Pop
  <2>2. /\ arr' \in [0..(n_alloc - 1) -> Slot]
        /\ n > 1 => arr'[0] = arr[n - 1]
        /\ \A j \in 1..(n - 2) : arr'[j] = arr[j]
    BY <1>a, <2>1 DEF Slot
  <2>3. /\ \A j \in 0..(n - 1) : arr[j] \in inq
        /\ \A i, j \in 0..(n - 1) : arr[i] = arr[j] => i = j
        /\ \A d \in inq : \E j \in 0..(n - 1) : arr[j] = d
    BY <2>1 DEF HeapInv, HeapHolds, Contents
  <2>4. Contents'
    <3>1. ASSUME NEW j \in 0..(n - 2)
          PROVE \/ j = 0 /\ arr'[j] = arr[n - 1] /\ n > 1
                \/ j \in 1..(n - 2) /\ arr'[j] = arr[j]
      BY <1>a, <2>1, <2>2
    <3>2. \A j \in 0..(n - 2) : arr'[j] \in inq'
      BY <1>a, <2>1, <2>3, <3>1
    <3>3. \A i, j \in 0..(n - 2) : arr'[i] = arr'[j] => i = j
      BY <1>a, <2>1, <2>3, <3>1
    <3>4. ASSUME NEW d \in inq' PROVE \E j \in 0..(n - 2) : arr'[j] = d
      <4>1. PICK j \in 0..(n - 1) : arr[j] = d /\ j # 0
        BY <2>1, <2>3
      <4>2. CASE j = n - 1
        BY <1>a, <2>1, <2>2, <4>1, <4>2
      <4>3. CASE j # n - 1
        BY <1>a, <2>1, <2>2, <4>1, <4>3
      <4> QED
        BY <4>2, <4>3
    <3> QED
      BY <1>a, <2>1, <3>2, <3>3, <3>4, (n - 1) - 1 = n - 2 DEF Contents
  <2>5. ASSUME NEW j \in 1..(n - 2), Parent(j) # 0 PROVE Below(j, Parent(j))'
    <3>a. n \in Nat /\ n > 0 /\ n - 1 \in Nat /\ j \in 1..((n - 1) - 1) /\ j \in 1..(n - 1)
      BY <1>a, <2>1, <2>5
    <3>b. Parent(j) \in 0..((n - 1) - 1)
      BY <3>a, InHeap
    <3>1. Parent(j) \in 1..(n - 2) /\ j \in 1..(n - 1)
      BY <2>5, <3>a, <3>b
    <3>2. Below(j, Parent(j))
      BY <2>1, <3>1 DEF HeapInv, HeapHolds, Order
    <3> QED
      BY <2>2, <3>1, <3>2 DEF Below
  <2>6. Order'
    BY <1>a, <2>1, <2>5 DEF Order
  <2>7. TypeOK' /\ Sifting'
    BY <1>a, <2>1, <2>2 DEF TypeOK, Sifting
  <2> QED
    BY <2>4, <2>6, <2>7 DEF HeapInv, HeapHolds
<1>7. CASE SortRoot
  BY <1>7, SortsRoot
<1>8. CASE SortRootDies
  BY <1>a, <1>8 DEF SortRootDies, HeapInv, HeapHolds, TypeOK, Sifting
<1>9. CASE UNCHANGED vars
  BY <1>9 DEF vars, HeapInv, HeapHolds, TypeOK, Contents, Order, Below, Sifting
<1> QED
  BY <1>1, <1>2, <1>3, <1>4, <1>5, <1>6, <1>7, <1>8, <1>9 DEF Next

\* Whatever is inserted and popped, the array of mmp_prioq.c is a heap of what
\* is queued, at each iteration of sort_last and sort_root, until an exchange
\* brings a slot past the heap into it.
THEOREM HeapIsKept == Spec => []HeapHolds
<1>1. Init => HeapInv
  BY InitHeapInv
<1>2. HeapInv /\ [Next]_vars => HeapInv'
  BY NextHeapInv
<1>3. HeapInv => HeapHolds
  BY DEF HeapInv
<1> QED
  BY <1>1, <1>2, <1>3, PTL DEF Spec

\* A set of places has a first.
LEMMA Least == ASSUME NEW S \in SUBSET Nat, S # {}
               PROVE \E m \in S : \A j \in S : m <= j
<1> DEFINE Less == OpToRel(<, Nat)
<1>1. IsWellFoundedOn(Less, Nat)
  BY NatLessThanWellFounded
<1>2. \A i, j \in Nat : i < j => <<i, j>> \in Less
  BY DEF OpToRel
<1> HIDE DEF Less
<1>3. PICK m \in S : \A j \in S : ~ (<<j, m>> \in Less)
  BY <1>1, WFMin
<1>4. \A j \in S : ~ (j < m)
  BY <1>2, <1>3
<1> QED
  BY <1>4

\* Between calls, nobody is above the root: the first that was would be above
\* its parent, which is not.
LEMMA RootIsHighest == ASSUME HeapInv, pc = "idle"
                       PROVE \A j \in 0..(n - 1) : Prio[arr[j]] <= Prio[arr[0]]
<1>1. /\ n \in Nat /\ TypeOK /\ Contents
      /\ \A j \in 1..(n - 1) : Prio[arr[j]] <= Prio[arr[Parent(j)]]
  BY DEF HeapInv, HeapHolds, TypeOK, Order, Below
<1>2. \A j \in 0..(n - 1) : Prio[arr[j]] \in Int
  BY <1>1, Priorities
<1> DEFINE Above == {j \in 0..(n - 1) : ~(Prio[arr[j]] <= Prio[arr[0]])}
<1>3. Above = {}
  <2> SUFFICES ASSUME Above # {} PROVE FALSE
    OBVIOUS
  <2>1. Above \in SUBSET Nat
    BY <1>1
  <2>2. PICK m \in Above : \A j \in Above : m <= j
    <3> HIDE DEF Above
    <3> QED
      BY <2>1, Least
  <2>3. m \in 1..(n - 1) /\ 0 \in 0..(n - 1)
    <3>1. m \in 0..(n - 1) /\ ~(Prio[arr[m]] <= Prio[arr[0]])
      OBVIOUS
    <3>2. 0 \in 0..(n - 1)
      BY <1>1, <3>1
    <3>3. m # 0
      BY <1>2, <3>1, <3>2
    <3> QED
      BY <1>1, <3>1, <3>2, <3>3
  <2>4. Parent(m) \in 0..(m - 1) /\ Parent(m) \in 0..(n - 1)
    BY <1>1, <2>3, InHeap
  <2>5. Parent(m) \notin Above
    <3> HIDE DEF Above
    <3> QED
      BY <2>2, <2>3, <2>4
  <2>6. Prio[arr[Parent(m)]] <= Prio[arr[0]]
    BY <2>4, <2>5
  <2>7. Prio[arr[m]] <= Prio[arr[Parent(m)]] /\ ~(Prio[arr[m]] <= Prio[arr[0]])
    BY <1>1, <2>3
  <2> QED
    BY <1>2, <2>3, <2>4, <2>6, <2>7
<1> QED
  BY <1>3

\* A step that takes something out of the queue pops the root, or destroys it all.
LEMMA TakesHighest == ASSUME HeapInv, [Next]_vars, pc' # "none",
                             NEW d \in inq \ inq', NEW e \in inq
                      PROVE Prio[e] <= Prio[d]
<1>1. CASE Pop
  <2>1. d = arr[0] /\ pc = "idle"
    BY <1>1 DEF Pop
  <2>2. PICK j \in 0..(n - 1) : arr[j] = e
    BY <2>1 DEF HeapInv, HeapHolds, Contents
  <2> QED
    BY <2>1, <2>2, RootIsHighest
<1>2. CASE ~Pop
  BY <1>2 DEF Next, vars, Create, Destroy, InsertFails, Insert, SortLast, SortRoot, SortRootDies
<1> QED
  BY <1>1, <1>2

\* What mmp_prioq_pop gives is of the highest priority of all that is queued,
\* after any calls, as long as nothing past the heap was moved into it.
THEOREM PopGivesHighest == Spec => PopsHighest
<1>1. Init => HeapInv
  BY InitHeapInv
<1>2. HeapInv /\ [Next]_vars => HeapInv'
  BY NextHeapInv
<1>3. HeapInv /\ [Next]_vars =>
        [pc' # "none" => \A d \in inq \ inq' : \A e \in inq : Prio[e] <= Prio[d]]_vars
  BY TakesHighest
<1> QED
  BY <1>1, <1>2, <1>3, PTL DEF Spec, PopsHighest

(***************************************************************************)
(* The tree: pages                                                         *)
(***************************************************************************)
Pages(D) == [n_el : 0..R, parent : D \cup {None},
             recs : [0..R -> [key : Key \cup {NoKey}, off : D \cup {None}]]]

\* The keys of a page are integers, and ascend.
Sorted(q) == /\ \A j \in 0..(q.n_el - 1) : q.recs[j].key \in Key
             /\ \A j \in 0..(q.n_el - 1) : \A h \in 0..(j - 1) : q.recs[h].key < q.recs[j].key

KeysOf(q) == {q.recs[j].key : j \in 0..(q.n_el - 1)}

Leaf(q) == \A j \in 0..R : q.recs[j].off = None

\* Page c is at place i of page r: a leaf, whose keys are those that a scan of r
\* stops at i for.
ChildAt(f, r, i) ==
    LET c == f[r].recs[i].off
    IN  /\ c \in DOMAIN f \ {r}
        /\ f[c].parent = r /\ Leaf(f[c])
        /\ \A y \in KeysOf(f[c]) : Pos(f[r], y) = i /\ y \notin KeysOf(f[r])

\* A tree that has lost no page is a leaf, or a page above leaves.
Flat(f, r) == /\ f[r].parent = None
              /\ \/ Leaf(f[r])
                 \/ /\ \A i \in 0..f[r].n_el : ChildAt(f, r, i)
                    /\ \A i, j \in 0..f[r].n_el : f[r].recs[i].off = f[r].recs[j].off => i = j

\* Key x is in page r, or in the one that a scan of r for it goes on to.
Reached(f, r, x) == \/ x \in KeysOf(f[r])
                    \/ Way(f[r], x) # None /\ x \in KeysOf(f[Way(f[r], x)])

\* What is inserted is reached, and nothing else is in the tree.
Exact == root # None /\ ~lossy => /\ Flat(pg, root)
                                  /\ \A x \in keys : Reached(pg, root, x)

\* Where a call is.
OnTheWay == /\ key \in Key
            /\ call # "search" => cur # None
            /\ ~lossy => \/ cur = root
                         \/ key \notin KeysOf(pg[root]) /\ cur = Way(pg[root], key)
                         \/ cur = None /\ key \notin keys

\* What a search has answered.
Answered == /\ call = "found" => key \in keys
            /\ call = "missing" /\ ~lossy => key \notin keys

TreeKinds == /\ DOMAIN pg = 0..(N - 1) /\ N \in Nat /\ N <= MaxPages
             /\ pg \in [DOMAIN pg -> Pages(DOMAIN pg)]
             /\ \A p \in DOMAIN pg : Sorted(pg[p]) /\ KeysOf(pg[p]) \subseteq keys
             /\ root \in DOMAIN pg \cup {None} /\ cur \in DOMAIN pg \cup {None}
             /\ freed \subseteq DOMAIN pg
             /\ keys \subseteq Key /\ key \in Key \cup {NoKey}
             /\ ~file => DOMAIN pg = {} /\ root = None
             /\ root = None => keys = {}
             /\ call \notin {"none", "wild"} => root # None

TreeInv == /\ TreeKinds /\ Exact /\ Answered
           /\ call \in Calls => OnTheWay

USE KeyAssumption, PageAssumption

LEMMA PageOf == ASSUME NEW D, NEW q \in Pages(D)
                PROVE /\ q.n_el \in 0..R /\ q.n_el \in Nat /\ q.parent \in D \cup {None}
                      /\ q.recs \in [0..R -> [key : Key \cup {NoKey}, off : D \cup {None}]]
                      /\ \A j \in 0..R : q.recs[j].off \in D \cup {None}
BY DEF Pages

\* A scan ends at the only place that has the smaller keys before it and no
\* smaller one in it.
LEMMA ScanEnds == ASSUME NEW D, NEW q \in Pages(D), Sorted(q), NEW x \in Key
                  PROVE /\ Pos(q, x) \in 0..q.n_el
                        /\ Pos(q, x) < q.n_el => q.recs[Pos(q, x)].key >= x
                        /\ \A j \in 0..(Pos(q, x) - 1) : q.recs[j].key < x
<1> DEFINE S == {i \in 0..q.n_el : i < q.n_el => q.recs[i].key >= x}
<1>1. q.n_el \in Nat /\ \A j \in 0..(q.n_el - 1) : q.recs[j].key \in Int
  BY PageOf DEF Sorted
<1>2. S \in SUBSET Nat /\ q.n_el \in S
  BY <1>1
<1>3. PICK m \in S : \A j \in S : m <= j
  BY <1>2, Least
<1>4. m \in 0..q.n_el /\ (m < q.n_el => q.recs[m].key >= x)
  BY <1>3
<1>5. ASSUME NEW j \in 0..(m - 1) PROVE q.recs[j].key < x
  <2>1. j \in 0..q.n_el /\ j \in 0..(q.n_el - 1) /\ j < m /\ m \in Nat /\ j \in Nat
    BY <1>1, <1>4
  <2>2. j \notin S
    BY <1>3, <2>1
  <2>3. ~ (q.recs[j].key >= x)
    BY <2>1, <2>2
  <2> QED
    BY <1>1, <2>1, <2>3
<1> QED
  BY <1>4, <1>5 DEF Pos

LEMMA ScanEndsAt == ASSUME NEW D, NEW q \in Pages(D), Sorted(q), NEW x \in Key, NEW i \in 0..q.n_el,
                           i < q.n_el => q.recs[i].key >= x,
                           \A j \in 0..(i - 1) : q.recs[j].key < x
                    PROVE Pos(q, x) = i
<1>1. q.n_el \in Nat /\ \A j \in 0..(q.n_el - 1) : q.recs[j].key \in Int
  BY PageOf DEF Sorted
<1>2. /\ Pos(q, x) \in 0..q.n_el
      /\ Pos(q, x) < q.n_el => q.recs[Pos(q, x)].key >= x
      /\ \A j \in 0..(Pos(q, x) - 1) : q.recs[j].key < x
  BY ScanEnds
<1> DEFINE m == Pos(q, x)
<1> HIDE DEF m
<1>3. ~ (m < i)
  <2> SUFFICES ASSUME m < i PROVE FALSE
    OBVIOUS
  <2>1. m \in 0..(i - 1) /\ m < q.n_el /\ m \in 0..(q.n_el - 1)
    BY <1>1, <1>2 DEF m
  <2>2. q.recs[m].key < x /\ q.recs[m].key >= x /\ q.recs[m].key \in Int
    BY <1>1, <1>2, <2>1 DEF m
  <2> QED
    BY <2>2
<1>4. ~ (i < m)
  <2> SUFFICES ASSUME i < m PROVE FALSE
    OBVIOUS
  <2>1. i \in 0..(m - 1) /\ i < q.n_el /\ i \in 0..(q.n_el - 1)
    BY <1>1, <1>2 DEF m
  <2>2. q.recs[i].key < x /\ q.recs[i].key >= x /\ q.recs[i].key \in Int
    BY <1>1, <1>2, <2>1 DEF m
  <2> QED
    BY <2>2
<1>5. m \in Nat /\ i \in Nat
  BY <1>1, <1>2 DEF m
<1> QED
  BY <1>3, <1>4, <1>5 DEF m

\* So a page has a key if the scan ends at it.
LEMMA HasItsKeys == ASSUME NEW D, NEW q \in Pages(D), Sorted(q), NEW x \in Key
                    PROVE Has(q, x) <=> x \in KeysOf(q)
<1>1. q.n_el \in Nat /\ \A j \in 0..(q.n_el - 1) : q.recs[j].key \in Int
  BY PageOf DEF Sorted
<1>2. ASSUME Has(q, x) PROVE x \in KeysOf(q)
  <2>1. Pos(q, x) \in 0..(q.n_el - 1)
    BY <1>1, <1>2, ScanEnds DEF Has
  <2> QED
    BY <1>2, <2>1 DEF Has, KeysOf
<1>3. ASSUME x \in KeysOf(q) PROVE Has(q, x)
  <2>1. PICK i \in 0..(q.n_el - 1) : q.recs[i].key = x
    BY <1>3 DEF KeysOf
  <2>2. \A j \in 0..(i - 1) : q.recs[j].key < x
    BY <2>1 DEF Sorted
  <2>3. i \in 0..q.n_el /\ i < q.n_el /\ x >= x
    BY <1>1
  <2>4. Pos(q, x) = i
    BY <2>1, <2>2, <2>3, ScanEndsAt
  <2> QED
    BY <2>1, <2>3, <2>4 DEF Has
<1> QED
  BY <1>2, <1>3

\* An insertion of x at i makes w of q.
Gains(D, q, w, x, o1, o2, i) ==
    /\ w \in Pages(D) /\ Sorted(w) /\ w.n_el = q.n_el + 1 /\ w.parent = q.parent
    /\ KeysOf(w) = KeysOf(q) \cup {x}
    /\ \A j \in 0..q.n_el : w.recs[j].key = IF j < i THEN q.recs[j].key
                                            ELSE IF j = i THEN x ELSE q.recs[j - 1].key
    /\ \A j \in 0..(i - 1) : w.recs[j].off = q.recs[j].off
    /\ w.recs[i].off = o1 /\ w.recs[i + 1].off = o2
    /\ Leaf(q) /\ o1 = None /\ o2 = None => Leaf(w)

\* It puts its key where the scan for it ends.
LEMMA InsertedIs ==
    ASSUME NEW D, NEW q \in Pages(D), Sorted(q), q.n_el < R, NEW x \in Key, x \notin KeysOf(q),
           NEW o1 \in D \cup {None}, NEW o2 \in D \cup {None},
           NEW i, i = Pos(q, x), NEW w, w = InsertInPos(q, x, o1, o2, i)
    PROVE  Gains(D, q, w, x, o1, o2, i)
<1> DEFINE n1 == q.n_el
           rec == [j \in 0..R |->
                CASE j = i -> [key |-> x, off |-> o1]
                  [] j = i + 1 -> [key |-> IF i < q.n_el THEN q.recs[i].key ELSE q.recs[j].key,
                                   off |-> o2]
                  [] j \in (i + 2)..q.n_el -> q.recs[j - 1]
                  [] OTHER -> q.recs[j]]
<1>1. /\ n1 \in 0..(R - 1) /\ n1 \in Nat /\ i \in 0..n1 /\ i \in Nat /\ R \in Nat
      /\ \A j \in 0..(n1 - 1) : q.recs[j].key \in Int
  <2>1. q.n_el \in 0..R /\ q.n_el \in Nat
    BY PageOf
  <2>2. i \in 0..q.n_el
    BY ScanEnds
  <2>3. \A j \in 0..(q.n_el - 1) : q.recs[j].key \in Int
    BY DEF Sorted
  <2> QED
    BY <2>1, <2>2, <2>3
<1>2. i < n1 => q.recs[i].key >= x
  BY ScanEnds
<1>3. \A j \in 0..(i - 1) : q.recs[j].key < x
  BY ScanEnds
<1>4. i < n1 => q.recs[i].key # x
  BY <1>1 DEF KeysOf
<1>5. q.recs \in [0..R -> [key : Key \cup {NoKey}, off : D \cup {None}]]
  BY PageOf
<1>6. rec \in [0..R -> [key : Key \cup {NoKey}, off : D \cup {None}]]
  <2> SUFFICES ASSUME NEW j \in 0..R PROVE rec[j] \in [key : Key \cup {NoKey}, off : D \cup {None}]
    OBVIOUS
  <2>1. CASE j = i
    BY <2>1
  <2>2. CASE j = i + 1
    <3>1. i < q.n_el => i \in 0..R
      BY <1>1
    <3>2. (IF i < q.n_el THEN q.recs[i].key ELSE q.recs[j].key) \in Key \cup {NoKey}
      BY <1>5, <3>1
    <3>3. rec[j] = [key |-> IF i < q.n_el THEN q.recs[i].key ELSE q.recs[j].key, off |-> o2]
      BY <1>1, <2>2
    <3> QED
      BY <3>2, <3>3
  <2>3. CASE j \in (i + 2)..q.n_el
    <3>1. j - 1 \in 0..R /\ j # i /\ j # i + 1
      BY <1>1, <2>3
    <3>2. rec[j] = q.recs[j - 1]
      BY <2>3, <3>1
    <3> QED
      BY <1>5, <3>1, <3>2
  <2>4. CASE j # i /\ j # i + 1 /\ j \notin (i + 2)..q.n_el
    BY <1>5, <2>4
  <2> QED
    BY <2>1, <2>2, <2>3, <2>4
<1>7. w = [n_el |-> n1 + 1, parent |-> q.parent, recs |-> rec]
  BY DEF InsertInPos, Pages
<1>8. ASSUME NEW j \in 0..n1
      PROVE rec[j].key = IF j < i THEN q.recs[j].key ELSE IF j = i THEN x ELSE q.recs[j - 1].key
  <2>1. j \in 0..R /\ j \in Nat
    BY <1>1
  <2>2. CASE j < i
    <3>1. j # i /\ j # i + 1 /\ j \notin (i + 2)..q.n_el
      BY <1>1, <2>1, <2>2
    <3>2. rec[j] = q.recs[j]
      BY <2>1, <3>1
    <3> QED
      BY <2>2, <3>2
  <2>3. CASE j = i
    <3>1. rec[j] = [key |-> x, off |-> o1] /\ ~ (i < i)
      BY <1>1, <2>1, <2>3
    <3> QED
      BY <2>3, <3>1
  <2>4. CASE j = i + 1
    <3>1. i < q.n_el /\ j # i /\ j - 1 = i /\ ~ (j < i)
      BY <1>1, <2>4
    <3>2. rec[j] = [key |-> q.recs[i].key, off |-> o2]
      BY <2>1, <2>4, <3>1
    <3> QED
      BY <3>1, <3>2
  <2>5. CASE i + 1 < j
    <3>1. j \in (i + 2)..q.n_el /\ j # i /\ j # i + 1 /\ ~ (j < i)
      BY <1>1, <2>1, <2>5
    <3>2. rec[j] = q.recs[j - 1]
      BY <2>1, <3>1
    <3> QED
      BY <3>1, <3>2
  <2>6. j < i \/ j = i \/ j = i + 1 \/ i + 1 < j
    BY <1>1, <2>1
  <2> QED
    BY <2>2, <2>3, <2>4, <2>5, <2>6
<1>9. rec[i].off = o1 /\ rec[i + 1].off = o2
  <2>1. i \in 0..R /\ i + 1 \in 0..R /\ i # i + 1
    BY <1>1
  <2> QED
    BY <2>1
<1>10. \A j \in 0..(i - 1) : rec[j].off = q.recs[j].off
  <2> TAKE j \in 0..(i - 1)
  <2>1. j # i /\ j # i + 1 /\ j \notin (i + 2)..q.n_el /\ j \in 0..R
    BY <1>1
  <2>2. rec[j] = q.recs[j]
    BY <2>1
  <2> QED
    BY <2>2
<1>11. ASSUME Leaf(q), o1 = None, o2 = None, NEW j \in 0..R PROVE rec[j].off = None
  <2>1. CASE j = i \/ j = i + 1
    BY <1>9, <1>11, <2>1
  <2>2. CASE j # i /\ j # i + 1 /\ j \in (i + 2)..q.n_el
    <3>1. j - 1 \in 0..R
      BY <1>1, <2>2
    <3>2. rec[j] = q.recs[j - 1]
      BY <2>2
    <3> QED
      BY <1>11, <3>1, <3>2 DEF Leaf
  <2>3. CASE j # i /\ j # i + 1 /\ j \notin (i + 2)..q.n_el
    <3>1. rec[j] = q.recs[j]
      BY <2>3
    <3> QED
      BY <1>11, <3>1 DEF Leaf
  <2> QED
    BY <2>1, <2>2, <2>3
<1> HIDE DEF rec
<1>12. w \in Pages(D) /\ w.n_el = n1 + 1 /\ w.parent = q.parent /\ w.recs = rec
  <2>1. n1 + 1 \in 0..R /\ q.parent \in D \cup {None}
    BY <1>1, PageOf
  <2> QED
    BY <1>6, <1>7, <2>1 DEF Pages
<1>13. (n1 + 1) - 1 = n1
  BY <1>1
<1> HIDE DEF n1
<1>14. Sorted(w)
  <2>1. ASSUME NEW j \in 0..n1 PROVE rec[j].key \in Key
    <3>1. (j < i => j \in 0..(n1 - 1)) /\ (~ (j < i) /\ j # i => j - 1 \in 0..(n1 - 1))
      BY <1>1
    <3>2. \A h \in 0..(n1 - 1) : q.recs[h].key \in Key
      BY DEF Sorted, n1
    <3> QED
      BY <1>8, <3>1, <3>2
  <2>2. ASSUME NEW j \in 0..n1, NEW h \in 0..(j - 1) PROVE rec[h].key < rec[j].key
    <3>1. /\ h \in 0..n1 /\ j \in Nat /\ h \in Nat /\ h < j
      BY <1>1
    <3>2. \A a \in 0..(n1 - 1) : \A b \in 0..(a - 1) : q.recs[b].key < q.recs[a].key
      BY DEF Sorted, n1
    <3>3. CASE j < i
      <4>1. j \in 0..(n1 - 1) /\ h < i
        BY <1>1, <3>1, <3>3
      <4> QED
        BY <1>8, <3>1, <3>2, <3>3, <4>1
    <3>4. CASE j = i
      <4>1. h < i /\ h \in 0..(i - 1) /\ ~ (j < i)
        BY <1>1, <3>1, <3>4
      <4> QED
        BY <1>3, <1>8, <3>1, <3>4, <4>1
    <3>5. CASE i < j
      <4>1. j - 1 \in 0..(n1 - 1) /\ ~ (j < i) /\ j # i /\ i < n1 /\ i \in 0..(n1 - 1)
        BY <1>1, <3>1, <3>5
      <4>2. rec[j].key = q.recs[j - 1].key
        BY <1>8, <4>1
      <4>3. CASE h < i
        <5>1. h \in 0..((j - 1) - 1)
          BY <1>1, <3>1, <3>5, <4>3
        <5> QED
          BY <1>8, <3>1, <3>2, <4>1, <4>2, <4>3, <5>1
      <4>4. CASE h = i
        <5>1. x < q.recs[i].key
          BY <1>1, <1>2, <1>4, <4>1
        <5>2. CASE j - 1 = i
          <6>1. rec[h].key = x
            BY <1>1, <1>8, <3>1, <4>4
          <6> QED
            BY <4>2, <5>1, <5>2, <6>1
        <5>3. CASE j - 1 # i
          <6>1. i \in 0..((j - 1) - 1)
            BY <1>1, <3>1, <3>5, <5>3
          <6>2. q.recs[i].key < q.recs[j - 1].key
            BY <3>2, <4>1, <6>1
          <6>3. q.recs[i].key \in Int /\ q.recs[j - 1].key \in Int
            BY <1>1, <4>1
          <6>4. rec[h].key = x
            BY <1>1, <1>8, <3>1, <4>4
          <6>5. x \in Int
            OBVIOUS
          <6> QED
            BY <4>2, <5>1, <6>2, <6>3, <6>4, <6>5
        <5> QED
          BY <5>2, <5>3
      <4>5. CASE i < h
        <5>1. h - 1 \in 0..((j - 1) - 1) /\ ~ (h < i) /\ h # i
          BY <1>1, <3>1, <4>5
        <5>2. rec[h].key = q.recs[h - 1].key
          BY <1>8, <3>1, <5>1
        <5> QED
          BY <3>2, <4>1, <4>2, <5>1, <5>2
      <4> QED
        BY <1>1, <3>1, <4>3, <4>4, <4>5
    <3> QED
      BY <1>1, <3>1, <3>3, <3>4, <3>5
  <2> QED
    BY <1>12, <1>13, <2>1, <2>2 DEF Sorted
<1>15. KeysOf(w) = KeysOf(q) \cup {x}
  <2>1. KeysOf(w) = {rec[j].key : j \in 0..n1}
    BY <1>12, <1>13 DEF KeysOf
  <2>2. KeysOf(q) = {q.recs[j].key : j \in 0..(n1 - 1)}
    BY DEF KeysOf, n1
  <2>3. ASSUME NEW j \in 0..n1 PROVE rec[j].key \in KeysOf(q) \cup {x}
    <3>1. (j < i => j \in 0..(n1 - 1)) /\ (~ (j < i) /\ j # i => j - 1 \in 0..(n1 - 1))
      BY <1>1
    <3> QED
      BY <1>8, <2>2, <3>1
  <2>4. x \in KeysOf(w)
    <3>1. i \in 0..n1 /\ ~ (i < i)
      BY <1>1
    <3>2. rec[i].key = x
      BY <1>8, <3>1
    <3> QED
      BY <2>1, <3>1, <3>2
  <2>5. ASSUME NEW j \in 0..(n1 - 1) PROVE q.recs[j].key \in KeysOf(w)
    <3>1. CASE j < i
      <4>1. j \in 0..n1
        BY <1>1
      <4>2. rec[j].key = q.recs[j].key
        BY <1>8, <3>1, <4>1
      <4> QED
        BY <2>1, <4>1, <4>2
    <3>2. CASE ~ (j < i)
      <4>1. j + 1 \in 0..n1 /\ ~ (j + 1 < i) /\ j + 1 # i /\ (j + 1) - 1 = j
        BY <1>1, <3>2
      <4>2. rec[j + 1].key = q.recs[j].key
        BY <1>8, <4>1
      <4> QED
        BY <2>1, <4>1, <4>2
    <3> QED
      BY <3>1, <3>2
  <2> QED
    BY <2>1, <2>2, <2>3, <2>4, <2>5
<1> QED
  BY <1>8, <1>9, <1>10, <1>11, <1>12, <1>14, <1>15 DEF Gains, Leaf, n1

(***************************************************************************)
(* The tree: what is reached from a page above leaves                      *)
(***************************************************************************)
Tidy(f) == /\ f \in [DOMAIN f -> Pages(DOMAIN f)]
           /\ None \notin DOMAIN f
           /\ \A p \in DOMAIN f : Sorted(f[p])

Apart(f, r) == \A i, j \in 0..f[r].n_el : f[r].recs[i].off = f[r].recs[j].off => i = j

LEMMA KeysAre == ASSUME NEW q, Sorted(q) PROVE KeysOf(q) \subseteq Key
BY DEF Sorted, KeysOf

LEMMA TidyPage == ASSUME NEW f, Tidy(f), NEW p \in DOMAIN f
                  PROVE /\ f[p] \in Pages(DOMAIN f) /\ Sorted(f[p]) /\ KeysOf(f[p]) \subseteq Key
                        /\ f[p].n_el \in 0..R /\ f[p].n_el \in Nat
                        /\ \A j \in 0..R : f[p].recs[j].off \in DOMAIN f \cup {None}
<1>1. f[p] \in Pages(DOMAIN f) /\ Sorted(f[p])
  BY DEF Tidy
<1> QED
  BY <1>1, PageOf, KeysAre

\* A scan of the root ends at one of its pages, or of none if it is a leaf.
LEMMA WayOf == ASSUME NEW f, Tidy(f), NEW r \in DOMAIN f, Flat(f, r), NEW x \in Key
               PROVE /\ Pos(f[r], x) \in 0..f[r].n_el /\ Pos(f[r], x) \in 0..R
                     /\ Way(f[r], x) = None => Leaf(f[r])
                     /\ Way(f[r], x) # None => /\ \A i \in 0..f[r].n_el : ChildAt(f, r, i)
                                               /\ Apart(f, r)
                                               /\ ~ Leaf(f[r])
<1>1. Pos(f[r], x) \in 0..f[r].n_el /\ Pos(f[r], x) \in 0..R
  <2>1. f[r] \in Pages(DOMAIN f) /\ Sorted(f[r]) /\ f[r].n_el \in 0..R
    BY TidyPage
  <2>2. Pos(f[r], x) \in 0..f[r].n_el
    BY <2>1, ScanEnds
  <2> QED
    BY <2>1, <2>2
<1>2. Leaf(f[r]) => Way(f[r], x) = None
  BY <1>1 DEF Leaf, Way
<1>3. ASSUME ~ Leaf(f[r]) PROVE /\ Way(f[r], x) # None
                                /\ \A i \in 0..f[r].n_el : ChildAt(f, r, i)
                                /\ Apart(f, r)
  <2>1. (\A i \in 0..f[r].n_el : ChildAt(f, r, i)) /\ Apart(f, r)
    BY <1>3 DEF Flat, Apart
  <2>2. Way(f[r], x) \in DOMAIN f
    BY <1>1, <2>1 DEF ChildAt, Way
  <2> QED
    BY <2>1, <2>2 DEF Tidy
<1> QED
  BY <1>1, <1>2, <1>3

\* What is in the page at one place of the root is reached.
LEMMA ReachedAt == ASSUME NEW f, Tidy(f), NEW r \in DOMAIN f, NEW i, ChildAt(f, r, i),
                          NEW y \in KeysOf(f[f[r].recs[i].off])
                   PROVE Reached(f, r, y)
<1>1. Pos(f[r], y) = i /\ f[r].recs[i].off \in DOMAIN f
  BY DEF ChildAt
<1>2. Way(f[r], y) = f[r].recs[i].off
  BY <1>1 DEF Way
<1> QED
  BY <1>1, <1>2 DEF Reached, Tidy

\* New pages that nothing leads to change nothing.
LEMMA TreeExtends ==
    ASSUME NEW f, Tidy(f), NEW r \in DOMAIN f, Flat(f, r), NEW g,
           \A p \in DOMAIN f : p \in DOMAIN g /\ g[p] = f[p]
    PROVE  Flat(g, r) /\ \A y \in Key : Reached(f, r, y) => Reached(g, r, y)
<1>1. g[r] = f[r]
  OBVIOUS
<1>2. Flat(g, r)
  <2>1. ASSUME NEW i \in 0..f[r].n_el, ChildAt(f, r, i) PROVE ChildAt(g, r, i)
    BY <1>1, <2>1 DEF ChildAt
  <2> QED
    BY <1>1, <2>1 DEF Flat
<1>3. ASSUME NEW y \in Key, Reached(f, r, y) PROVE Reached(g, r, y)
  <2>1. CASE y \in KeysOf(f[r])
    BY <1>1, <2>1 DEF Reached
  <2>2. CASE Way(f[r], y) # None /\ y \in KeysOf(f[Way(f[r], y)])
    <3>1. Way(f[r], y) \in DOMAIN f
      BY <2>2, WayOf DEF ChildAt, Way
    <3> QED
      BY <1>1, <2>2, <3>1 DEF Reached
  <2> QED
    BY <1>3, <2>1, <2>2 DEF Reached
<1> QED
  BY <1>2, <1>3

\* A key is inserted into the leaf it belongs to.
LEMMA LeafGains ==
    ASSUME NEW f, Tidy(f), NEW r \in DOMAIN f, Flat(f, r), NEW c \in DOMAIN f, NEW x \in Key,
           Way(f[c], x) = None,
           c = r \/ (x \notin KeysOf(f[r]) /\ c = Way(f[r], x)),
           NEW w, KeysOf(w) = KeysOf(f[c]) \cup {x}, w.parent = f[c].parent, Leaf(f[c]) => Leaf(w),
           NEW g, g = [f EXCEPT ![c] = w]
    PROVE  Flat(g, r) /\ Reached(g, r, x) /\ \A y \in Key : Reached(f, r, y) => Reached(g, r, y)
<1>1. DOMAIN g = DOMAIN f /\ g[c] = w /\ \A p \in DOMAIN f \ {c} : g[p] = f[p]
  OBVIOUS
<1>2. CASE c = r
  <2>1. Leaf(f[r]) /\ f[r].parent = None
    BY <1>2, WayOf DEF Flat
  <2>2. Flat(g, r)
    BY <1>1, <1>2, <2>1 DEF Flat
  <2>3. \A y \in Key : Way(f[r], y) = None
    BY <2>1, WayOf
  <2> QED
    BY <1>1, <1>2, <2>2, <2>3 DEF Reached
<1>3. CASE c # r
  <2>1. /\ x \notin KeysOf(f[r]) /\ c = Way(f[r], x) /\ c # None /\ g[r] = f[r]
    BY <1>1, <1>3 DEF Tidy
  <2>2. /\ \A i \in 0..f[r].n_el : ChildAt(f, r, i)
        /\ Apart(f, r)
        /\ Pos(f[r], x) \in 0..f[r].n_el /\ c = f[r].recs[Pos(f[r], x)].off
    BY <2>1, WayOf DEF Way
  <2>3. ASSUME NEW i \in 0..f[r].n_el PROVE ChildAt(g, r, i)
    <3>1. ChildAt(f, r, i)
      BY <2>2
    <3>2. CASE f[r].recs[i].off = c
      <4>1. i = Pos(f[r], x)
        BY <2>2, <3>2 DEF Apart
      <4> QED
        BY <1>1, <2>1, <3>1, <3>2, <4>1 DEF ChildAt
    <3>3. CASE f[r].recs[i].off # c
      <4>1. g[f[r].recs[i].off] = f[f[r].recs[i].off]
        BY <1>1, <3>1, <3>3 DEF ChildAt
      <4> QED
        BY <1>1, <2>1, <3>1, <4>1 DEF ChildAt
    <3> QED
      BY <3>2, <3>3
  <2>4. Flat(g, r)
    BY <2>1, <2>2, <2>3 DEF Flat, Apart
  <2>5. Reached(g, r, x)
    BY <1>1, <2>1 DEF Reached
  <2>6. ASSUME NEW y \in Key, Reached(f, r, y) PROVE Reached(g, r, y)
    <3>1. CASE y \in KeysOf(f[r])
      BY <2>1, <3>1 DEF Reached
    <3>2. CASE Way(f[r], y) # None /\ y \in KeysOf(f[Way(f[r], y)])
      <4>1. Way(f[r], y) \in DOMAIN f /\ Way(g[r], y) = Way(f[r], y)
        BY <2>1, <2>2, <3>2, WayOf DEF ChildAt, Way
      <4>2. KeysOf(f[Way(f[r], y)]) \subseteq KeysOf(g[Way(f[r], y)])
        BY <1>1, <4>1
      <4> QED
        BY <3>2, <4>1, <4>2 DEF Reached
    <3> QED
      BY <2>6, <3>1, <3>2 DEF Reached
  <2> QED
    BY <2>4, <2>5, <2>6
<1> QED
  BY <1>2, <1>3

\* Where a page above leaves ends: a key, c below it and b above it.
Ends(g, t, a, m, c, b) ==
    /\ g[t].n_el = a + 1 /\ g[t].parent = None
    /\ g[t].recs[a].key = m /\ g[t].recs[a].off = c /\ g[t].recs[a + 1].off = b
    /\ c \in DOMAIN g \ {t} /\ b \in DOMAIN g \ {t} /\ c # b
    /\ g[c].parent = t /\ g[b].parent = t /\ Leaf(g[c]) /\ Leaf(g[b])
    /\ \A y \in KeysOf(g[c]) : y < m
    /\ \A y \in KeysOf(g[b]) : m < y
    /\ \A j \in 0..(a - 1) : \A y \in KeysOf(g[c]) : g[t].recs[j].key < y

\* A page that ends so, and was right before that, is right.
LEMMA EndsFlat ==
    ASSUME NEW g, Tidy(g), NEW t \in DOMAIN g, NEW a \in Nat, NEW m \in Key, NEW c, NEW b,
           Ends(g, t, a, m, c, b),
           \A i \in 0..(a - 1) : ChildAt(g, t, i) /\ g[t].recs[i].off \notin {c, b},
           \A i, j \in 0..(a - 1) : g[t].recs[i].off = g[t].recs[j].off => i = j
    PROVE  Flat(g, t) /\ ChildAt(g, t, a) /\ ChildAt(g, t, a + 1)
<1>1. /\ g[t] \in Pages(DOMAIN g) /\ Sorted(g[t]) /\ KeysOf(g[t]) \subseteq Key
      /\ KeysOf(g[c]) \subseteq Key /\ KeysOf(g[b]) \subseteq Key
      /\ g[t].n_el = a + 1
  BY TidyPage DEF Ends
<1>2. \A j \in 0..a : g[t].recs[j].key \in Int /\ \A h \in 0..(j - 1) : g[t].recs[h].key < g[t].recs[j].key
  <2>1. g[t].n_el - 1 = a
    BY <1>1
  <2>2. \A j \in 0..a : g[t].recs[j].key \in Key
    BY <1>1, <2>1 DEF Sorted
  <2>3. \A j \in 0..a : \A h \in 0..(j - 1) : g[t].recs[h].key < g[t].recs[j].key
    BY <1>1, <2>1 DEF Sorted
  <2> QED
    BY <2>2, <2>3
<1>3. g[t].recs[a].key = m /\ m \in Int
  BY DEF Ends
<1>4. \A j \in 0..(a - 1) : g[t].recs[j].key < m
  BY <1>2, <1>3
<1>5. ASSUME NEW y \in KeysOf(g[c]) PROVE Pos(g[t], y) = a /\ y \notin KeysOf(g[t])
  <2>1. y \in Key /\ y \in Int /\ y < m /\ \A j \in 0..(a - 1) : g[t].recs[j].key < y
    BY <1>1 DEF Ends
  <2>2. a \in 0..g[t].n_el /\ a < g[t].n_el
    BY <1>1
  <2>3. g[t].recs[a].key >= y
    BY <1>3, <2>1
  <2>4. Pos(g[t], y) = a
    BY <1>1, <2>1, <2>2, <2>3, ScanEndsAt
  <2>5. ASSUME NEW j \in 0..a PROVE g[t].recs[j].key # y
    <3>1. CASE j = a
      BY <1>3, <2>1, <3>1
    <3>2. CASE j # a
      <4>1. j \in 0..(a - 1)
        BY <3>2
      <4>2. g[t].recs[j].key < y /\ g[t].recs[j].key \in Int
        BY <1>2, <2>1, <4>1
      <4> QED
        BY <2>1, <4>2
    <3> QED
      BY <3>1, <3>2
  <2>6. (a + 1) - 1 = a
    OBVIOUS
  <2> QED
    BY <1>1, <2>4, <2>5, <2>6 DEF KeysOf
<1>6. ASSUME NEW y \in KeysOf(g[b]) PROVE Pos(g[t], y) = a + 1 /\ y \notin KeysOf(g[t])
  <2>1. y \in Key /\ y \in Int /\ m < y
    BY <1>1 DEF Ends
  <2>2. a + 1 \in 0..g[t].n_el /\ ~ (a + 1 < g[t].n_el)
    BY <1>1
  <2>3. ASSUME NEW j \in 0..a PROVE g[t].recs[j].key < y /\ g[t].recs[j].key \in Int
    <3>1. CASE j = a
      BY <1>3, <2>1, <3>1
    <3>2. CASE j # a
      <4>1. j \in 0..(a - 1)
        BY <3>2
      <4>2. g[t].recs[j].key < m /\ g[t].recs[j].key \in Int
        BY <1>2, <1>4, <4>1
      <4> QED
        BY <1>3, <2>1, <4>2
    <3> QED
      BY <3>1, <3>2
  <2>4. (a + 1) - 1 = a
    OBVIOUS
  <2>5. Pos(g[t], y) = a + 1
    BY <1>1, <2>1, <2>2, <2>3, <2>4, ScanEndsAt
  <2>6. \A j \in 0..a : g[t].recs[j].key # y
    BY <2>1, <2>3
  <2> QED
    BY <1>1, <2>4, <2>5, <2>6 DEF KeysOf
<1>7. ChildAt(g, t, a)
  BY <1>5 DEF ChildAt, Ends
<1>8. ChildAt(g, t, a + 1)
  BY <1>6 DEF ChildAt, Ends
<1>9. Apart(g, t)
  <2> SUFFICES ASSUME NEW i \in 0..(a + 1), NEW j \in 0..(a + 1),
                      g[t].recs[i].off = g[t].recs[j].off
               PROVE  i = j
    BY <1>1 DEF Apart
  <2>1. g[t].recs[a].off = c /\ g[t].recs[a + 1].off = b /\ c # b
    BY DEF Ends
  <2>2. (i \in 0..(a - 1) \/ i = a \/ i = a + 1) /\ (j \in 0..(a - 1) \/ j = a \/ j = a + 1)
    OBVIOUS
  <2> QED
    BY <2>1, <2>2
<1>10. \A i \in 0..(a + 1) : ChildAt(g, t, i)
  <2> TAKE i \in 0..(a + 1)
  <2>1. i \in 0..(a - 1) \/ i = a \/ i = a + 1
    OBVIOUS
  <2> QED
    BY <1>7, <1>8, <2>1
<1>11. g[t].parent = None
  BY DEF Ends
<1> QED
  BY <1>1, <1>7, <1>8, <1>9, <1>10, <1>11 DEF Flat, Apart

\* A key of a page that was parted into c, m and b is reached.
LEMMA EndsReached ==
    ASSUME NEW g, Tidy(g), NEW t \in DOMAIN g, NEW a \in Nat, NEW m \in Key, NEW c, NEW b,
           Ends(g, t, a, m, c, b), ChildAt(g, t, a), ChildAt(g, t, a + 1),
           NEW y, y \in KeysOf(g[c]) \cup {m} \cup KeysOf(g[b])
    PROVE  Reached(g, t, y)
<1>1. CASE y = m
  <2>1. a \in 0..(g[t].n_el - 1) /\ g[t].recs[a].key = m
    BY DEF Ends
  <2> QED
    BY <1>1, <2>1 DEF Reached, KeysOf
<1>2. CASE y \in KeysOf(g[c])
  BY <1>2, ReachedAt DEF Ends
<1>3. CASE y \in KeysOf(g[b])
  BY <1>3, ReachedAt DEF Ends
<1> QED
  BY <1>1, <1>2, <1>3

(***************************************************************************)
(* The tree: a split                                                       *)
(***************************************************************************)
LEMMA PageWith == ASSUME NEW D, NEW q \in Pages(D), NEW a \in Nat, NEW p,
                         NEW w, w = [q EXCEPT !.n_el = a, !.parent = p]
                  PROVE w = [n_el |-> a, parent |-> p, recs |-> q.recs]
BY DEF Pages

LEMMA EmptyWith == ASSUME NEW p, NEW a \in Nat, NEW s,
                          NEW w, w = [Empty(p) EXCEPT !.n_el = a, !.recs = s]
                   PROVE w = [n_el |-> a, parent |-> p, recs |-> s]
BY DEF Empty

\* The halves of a full page, and the key between them.
LEMMA HalvesAre ==
    ASSUME NEW D, pg[cur] \in Pages(D), Sorted(pg[cur]), Full(cur),
           NEW E, D \subseteq E, NEW par \in E
    PROVE  /\ Middle \in KeysOf(pg[cur])
           /\ Lower(par) \in Pages(E) /\ Sorted(Lower(par)) /\ Lower(par).parent = par
           /\ Upper(par) \in Pages(E) /\ Sorted(Upper(par)) /\ Upper(par).parent = par
           /\ KeysOf(Lower(par)) = {y \in KeysOf(pg[cur]) : y < Middle}
           /\ KeysOf(Upper(par)) = {y \in KeysOf(pg[cur]) : Middle < y}
           /\ Leaf(pg[cur]) => Leaf(Lower(par)) /\ Leaf(Upper(par))
<1> DEFINE q == pg[cur]
           h == Half
           u == q.n_el - (h + 1)
           rec == [j \in 0..R |-> IF j < u THEN q.recs[h + 1 + j] ELSE [key |-> NoKey, off |-> None]]
           ks == {q.recs[j].key : j \in 0..(q.n_el - 1)}
<1>1. q.n_el \in 0..R /\ q.n_el = R
  <2>1. q.n_el \in 0..R /\ q.n_el >= R
    BY PageOf DEF Full
  <2> QED
    BY <2>1
<1>2. /\ h \in Nat /\ h < q.n_el /\ u \in 0..R /\ h \in 0..R /\ u \in Nat /\ q.n_el \in Nat
      /\ h \in 0..(q.n_el - 1)
  <2>1. h = R \div 2 /\ R \div 2 \in Nat /\ R \div 2 < R
    BY <1>1 DEF Half
  <2> QED
    BY <1>1, <2>1
<1>3. q.recs \in [0..R -> [key : Key \cup {NoKey}, off : D \cup {None}]]
  BY PageOf
<1>4. Lower(par) = [n_el |-> h, parent |-> par, recs |-> q.recs]
  <2>1. Lower(par) = [q EXCEPT !.n_el = h, !.parent = par]
    BY DEF Lower
  <2> HIDE DEF h
  <2> QED
    BY <1>2, <2>1, PageWith
<1>5. Upper(par) = [n_el |-> u, parent |-> par, recs |-> rec]
  <2>1. /\ Empty(par) = [n_el |-> 0, parent |-> par,
                         recs |-> [j \in 0..R |-> [key |-> NoKey, off |-> None]]]
        /\ \A j \in 0..R : Empty(par).recs[j] = [key |-> NoKey, off |-> None]
    BY DEF Empty
  <2>2. Upper(par) = [Empty(par) EXCEPT !.n_el = u, !.recs =
                        [j \in 0..R |-> IF j < u THEN q.recs[h + 1 + j] ELSE Empty(par).recs[j]]]
    BY DEF Upper
  <2>3. [j \in 0..R |-> IF j < u THEN q.recs[h + 1 + j] ELSE Empty(par).recs[j]] = rec
    BY <2>1
  <2>4. Upper(par) = [Empty(par) EXCEPT !.n_el = u, !.recs = rec]
    BY <2>2, <2>3
  <2> HIDE DEF u, rec
  <2> QED
    BY <1>2, <2>4, EmptyWith
<1>6. ASSUME NEW j \in 0..(u - 1) PROVE /\ h + 1 + j \in 0..(q.n_el - 1) /\ h + 1 + j \in 0..R
                                        /\ rec[j] = q.recs[h + 1 + j] /\ h < h + 1 + j
  <2>1. h + 1 + j \in 0..(q.n_el - 1) /\ h + 1 + j \in 0..R /\ j \in 0..R /\ j < u /\ h < h + 1 + j
    BY <1>1, <1>2
  <2> QED
    BY <2>1
<1>7. rec \in [0..R -> [key : Key \cup {NoKey}, off : E \cup {None}]]
  <2> SUFFICES ASSUME NEW j \in 0..R PROVE rec[j] \in [key : Key \cup {NoKey}, off : E \cup {None}]
    OBVIOUS
  <2>1. CASE j < u
    <3>1. j \in 0..(u - 1)
      BY <1>2, <2>1
    <3>2. rec[j] = q.recs[h + 1 + j] /\ h + 1 + j \in 0..R
      BY <1>6, <3>1
    <3>3. q.recs[h + 1 + j] \in [key : Key \cup {NoKey}, off : D \cup {None}]
      BY <1>3, <3>2
    <3> QED
      BY <3>2, <3>3
  <2>2. CASE ~ (j < u)
    BY <2>2
  <2> QED
    BY <2>1, <2>2
<1>8. q.recs \in [0..R -> [key : Key \cup {NoKey}, off : E \cup {None}]]
  BY <1>3
<1>9. /\ \A j \in 0..(q.n_el - 1) : q.recs[j].key \in Key
      /\ \A j \in 0..(q.n_el - 1) : q.recs[j].key \in Int
      /\ \A j \in 0..(q.n_el - 1) : \A i \in 0..(j - 1) : q.recs[i].key < q.recs[j].key
  BY DEF Sorted
<1>10. Leaf(q) => \A j \in 0..R : rec[j].off = None
  <2> SUFFICES ASSUME Leaf(q), NEW j \in 0..R PROVE rec[j].off = None
    OBVIOUS
  <2>1. CASE j < u
    <3>1. j \in 0..(u - 1)
      BY <1>2, <2>1
    <3> QED
      BY <1>6, <3>1 DEF Leaf
  <2>2. CASE ~ (j < u)
    BY <2>2
  <2> QED
    BY <2>1, <2>2
<1> HIDE DEF rec, u
<1>11. Lower(par) \in Pages(E) /\ Upper(par) \in Pages(E)
  BY <1>2, <1>4, <1>5, <1>7, <1>8 DEF Pages
<1>12. /\ Lower(par).n_el = h /\ Lower(par).recs = q.recs /\ Lower(par).parent = par
       /\ Upper(par).n_el = u /\ Upper(par).recs = rec /\ Upper(par).parent = par
  BY <1>4, <1>5
<1>13. Sorted(Lower(par))
  <2>1. \A j \in 0..(h - 1) : j \in 0..(q.n_el - 1)
    BY <1>2
  <2> QED
    BY <1>9, <1>12, <2>1 DEF Sorted
<1>14. Sorted(Upper(par))
  <2>1. \A j \in 0..(u - 1) : rec[j].key \in Key
    BY <1>6, <1>9
  <2>2. ASSUME NEW j \in 0..(u - 1), NEW i \in 0..(j - 1) PROVE rec[i].key < rec[j].key
    <3>1. i \in 0..(u - 1) /\ h + 1 + i \in 0..((h + 1 + j) - 1)
      BY <1>2
    <3>2. rec[i] = q.recs[h + 1 + i] /\ rec[j] = q.recs[h + 1 + j] /\ h + 1 + j \in 0..(q.n_el - 1)
      BY <1>6, <3>1
    <3> QED
      BY <1>9, <3>1, <3>2
  <2> QED
    BY <1>12, <2>1, <2>2 DEF Sorted
<1>15. KeysOf(q) = ks /\ Middle = q.recs[h].key /\ Middle \in ks /\ Middle \in Int
  BY <1>2, <1>9 DEF KeysOf, Middle
<1>16. KeysOf(Lower(par)) = {y \in KeysOf(q) : y < Middle}
  <2>1. KeysOf(Lower(par)) = {q.recs[j].key : j \in 0..(h - 1)}
    BY <1>12 DEF KeysOf
  <2>2. ASSUME NEW j \in 0..(h - 1) PROVE q.recs[j].key \in ks /\ q.recs[j].key < Middle
    <3>1. j \in 0..(q.n_el - 1)
      BY <1>2
    <3> QED
      BY <1>2, <1>9, <1>15, <3>1
  <2>3. ASSUME NEW j \in 0..(q.n_el - 1), q.recs[j].key < Middle PROVE j \in 0..(h - 1)
    <3>1. j = h \/ j < h \/ h < j
      BY <1>2
    <3>2. j # h
      BY <1>15, <2>3
    <3>3. ~ (h < j)
      <4> SUFFICES ASSUME h < j PROVE FALSE
        OBVIOUS
      <4>1. h \in 0..(j - 1)
        BY <1>2
      <4>2. q.recs[h].key < q.recs[j].key /\ q.recs[j].key \in Int
        BY <1>9, <4>1
      <4> QED
        BY <1>15, <2>3, <4>2
    <3> QED
      BY <1>2, <3>1, <3>2, <3>3
  <2> QED
    BY <1>15, <2>1, <2>2, <2>3
<1>17. KeysOf(Upper(par)) = {y \in KeysOf(q) : Middle < y}
  <2>1. KeysOf(Upper(par)) = {rec[j].key : j \in 0..(u - 1)}
    BY <1>12 DEF KeysOf
  <2>2. ASSUME NEW j \in 0..(u - 1) PROVE rec[j].key \in ks /\ Middle < rec[j].key
    <3>1. h + 1 + j \in 0..(q.n_el - 1) /\ rec[j] = q.recs[h + 1 + j] /\ h < h + 1 + j
      BY <1>6
    <3>2. h \in 0..((h + 1 + j) - 1)
      BY <1>2
    <3>3. q.recs[h].key < q.recs[h + 1 + j].key
      BY <1>9, <3>1, <3>2
    <3> QED
      BY <1>15, <3>1, <3>3
  <2>3. ASSUME NEW j \in 0..(q.n_el - 1), Middle < q.recs[j].key
        PROVE  \E i \in 0..(u - 1) : q.recs[j].key = rec[i].key
    <3>1. j = h \/ j < h \/ h < j
      BY <1>2
    <3>2. j # h
      BY <1>15, <2>3
    <3>3. ~ (j < h)
      <4> SUFFICES ASSUME j < h PROVE FALSE
        OBVIOUS
      <4>1. j \in 0..(h - 1)
        BY <1>2
      <4>2. q.recs[j].key < q.recs[h].key /\ q.recs[j].key \in Int
        BY <1>2, <1>9, <4>1
      <4> QED
        BY <1>15, <2>3, <4>2
    <3>4. j - (h + 1) \in 0..(u - 1) /\ h + 1 + (j - (h + 1)) = j
      BY <1>2, <3>1, <3>2, <3>3 DEF u
    <3>5. rec[j - (h + 1)] = q.recs[j]
      BY <1>6, <3>4
    <3> QED
      BY <3>4, <3>5
  <2> QED
    BY <1>15, <2>1, <2>2, <2>3
<1>18. Leaf(q) => Leaf(Lower(par)) /\ Leaf(Upper(par))
  BY <1>10, <1>12 DEF Leaf
<1> QED
  BY <1>11, <1>12, <1>13, <1>14, <1>15, <1>16, <1>17, <1>18

LEMMA EmptyPage == ASSUME NEW D
                   PROVE LET q == Empty(None)
                         IN  /\ q \in Pages(D) /\ Sorted(q) /\ KeysOf(q) = {} /\ Leaf(q)
                             /\ q.n_el = 0 /\ q.parent = None
<1> DEFINE rec == [j \in 0..R |-> [key |-> NoKey, off |-> None]]
           q == Empty(None)
<1>1. q = [n_el |-> 0, parent |-> None, recs |-> rec]
  BY DEF Empty
<1>2. rec \in [0..R -> [key : Key \cup {NoKey}, off : D \cup {None}]]
  OBVIOUS
<1>3. \A j \in 0..R : rec[j].off = None
  OBVIOUS
<1> HIDE DEF rec
<1>4. q.n_el = 0 /\ q.parent = None /\ q.recs = rec /\ q \in Pages(D)
  BY <1>1, <1>2 DEF Pages
<1> HIDE DEF q
<1>5. Sorted(q) /\ KeysOf(q) = {}
  BY <1>4 DEF Sorted, KeysOf
<1>6. Leaf(q)
  BY <1>3, <1>4 DEF Leaf
<1> QED
  BY <1>4, <1>5, <1>6 DEF q

LEMMA MorePages == ASSUME NEW D, NEW E, D \subseteq E, NEW q \in Pages(D) PROVE q \in Pages(E)
<1>1. \A e : e \in [key : Key \cup {NoKey}, off : D \cup {None}]
              => e \in [key : Key \cup {NoKey}, off : E \cup {None}]
  OBVIOUS
<1>2. q.recs \in [0..R -> [key : Key \cup {NoKey}, off : E \cup {None}]]
  BY <1>1 DEF Pages
<1>3. q = [n_el |-> q.n_el, parent |-> q.parent, recs |-> q.recs]
  BY DEF Pages
<1>4. q.n_el \in 0..R /\ q.parent \in E \cup {None}
  BY DEF Pages
<1> QED
  BY <1>2, <1>3, <1>4 DEF Pages

\* What pg_insert makes of a page that is not full.
LEMMA InsertedPage ==
    ASSUME NEW D, NEW q \in Pages(D), Sorted(q), q.n_el < R, NEW x \in Key,
           NEW o1 \in D \cup {None}, NEW o2 \in D \cup {None},
           NEW w, w = Inserted(q, x, o1, o2)
    PROVE  /\ w \in Pages(D) /\ Sorted(w) /\ w.parent = q.parent
           /\ KeysOf(w) = KeysOf(q) \cup {x}
<1>1. CASE Has(q, x)
  <2>1. w = q /\ x \in KeysOf(q)
    BY <1>1, HasItsKeys DEF Inserted
  <2> QED
    BY <2>1
<1>2. CASE ~ Has(q, x)
  <2>1. w = InsertInPos(q, x, o1, o2, Pos(q, x)) /\ x \notin KeysOf(q)
    BY <1>2, HasItsKeys DEF Inserted
  <2>2. Gains(D, q, w, x, o1, o2, Pos(q, x))
    BY <2>1, InsertedIs
  <2> QED
    BY <2>2 DEF Gains
<1> QED
  BY <1>1, <1>2

SplitPar == IF IsRoot THEN N ELSE pg[cur].parent
SplitBro == IF IsRoot THEN N + 1 ELSE N
SplitOld == IF IsRoot THEN Empty(None) ELSE pg[SplitPar]

\* The pages that a split makes.
SplitMade(f, D, par, bro, old) ==
    /\ DOMAIN f = D /\ D = 0..bro /\ D = DOMAIN pg \cup {par, bro}
    /\ bro \in Nat /\ bro < MaxPages /\ bro \in D \ DOMAIN pg /\ par \in D /\ cur \in D
    /\ par # bro /\ cur # par /\ cur # bro
    /\ old \in Pages(DOMAIN pg) /\ Sorted(old) /\ old.n_el < R /\ KeysOf(old) \subseteq keys
    /\ f[cur] = Lower(par) /\ f[bro] = Upper(par)
    /\ f[par] = Inserted(old, Middle, cur, bro)
    /\ \A p \in DOMAIN pg \ {cur, par} : f[p] = pg[p]
    /\ f = [p \in D |-> f[p]]

LEMMA SplitMakes ==
    ASSUME TreeKinds, cur \in DOMAIN pg, Split
    PROVE  /\ SplitMade(pg', DOMAIN pg', SplitPar, SplitBro, SplitOld)
           /\ IF IsRoot THEN SplitPar \notin DOMAIN pg ELSE SplitPar \in DOMAIN pg
<1>1. /\ N \in Nat /\ DOMAIN pg = 0..(N - 1) /\ cur \in 0..(N - 1) /\ keys \subseteq Key
      /\ \A p \in DOMAIN pg : pg[p] \in Pages(DOMAIN pg) /\ Sorted(pg[p]) /\ KeysOf(pg[p]) \subseteq keys
  BY DEF TreeKinds
<1> DEFINE par == SplitPar
           bro == SplitBro
           old == SplitOld
<1>2. /\ bro < MaxPages
      /\ pg' = [p \in DOMAIN pg \cup {par, bro} |->
                        CASE p = cur -> Lower(par)
                          [] p = bro -> Upper(par)
                          [] p = par -> Inserted(old, Middle, cur, bro)
                          [] OTHER -> pg[p]]
  BY DEF Split, SplitPar, SplitBro, SplitOld
<1>3. Full(cur) /\ ~ Refused
  BY DEF Split
<1>4. /\ IF IsRoot THEN par = N /\ bro = N + 1 /\ old = Empty(None)
         ELSE par = pg[cur].parent /\ par # None /\ bro = N /\ old = pg[par]
  BY DEF SplitPar, SplitBro, SplitOld, IsRoot
<1> HIDE DEF par, bro, old
<1>5. ~ IsRoot => par \in DOMAIN pg /\ old.n_el < R /\ par # cur
  <2> SUFFICES ASSUME ~ IsRoot PROVE par \in DOMAIN pg /\ old.n_el < R /\ par # cur
    OBVIOUS
  <2>1. par \in DOMAIN pg
    BY <1>1, <1>4, PageOf
  <2>2. ~ Full(par)
    BY <1>3, <1>4 DEF Refused
  <2>3. pg[par].n_el \in Nat /\ R \in Nat
    BY <1>1, <2>1, PageOf
  <2> QED
    BY <1>3, <1>4, <2>1, <2>2, <2>3 DEF Full
<1>6. /\ old \in Pages(DOMAIN pg) /\ Sorted(old) /\ old.n_el < R /\ KeysOf(old) \subseteq keys
  <2>1. CASE IsRoot
    BY <1>4, <2>1, EmptyPage
  <2>2. CASE ~ IsRoot
    BY <1>1, <1>4, <1>5, <2>2
  <2> QED
    BY <2>1, <2>2
<1>7. /\ bro \in Nat /\ DOMAIN pg \cup {par, bro} = 0..bro /\ bro \notin DOMAIN pg
      /\ par # bro /\ cur # par /\ cur # bro
      /\ IF IsRoot THEN par \notin DOMAIN pg ELSE par \in DOMAIN pg
  <2>1. CASE IsRoot
    <3>1. par = N /\ bro = N + 1
      BY <1>4, <2>1
    <3>2. 0..(N - 1) \cup {N, N + 1} = 0..(N + 1)
      BY <1>1
    <3> QED
      BY <1>1, <2>1, <3>1, <3>2
  <2>2. CASE ~ IsRoot
    <3>1. par \in 0..(N - 1) /\ bro = N /\ par # cur
      BY <1>1, <1>4, <1>5, <2>2
    <3>2. 0..(N - 1) \cup {N} = 0..N
      BY <1>1
    <3> QED
      BY <1>1, <2>2, <3>1, <3>2
  <2> QED
    BY <2>1, <2>2
<1>8. /\ DOMAIN pg' = DOMAIN pg \cup {par, bro}
      /\ pg'[cur] = Lower(par) /\ pg'[bro] = Upper(par)
      /\ pg'[par] = Inserted(old, Middle, cur, bro)
      /\ \A p \in DOMAIN pg \ {cur, par} : pg'[p] = pg[p]
  BY <1>2, <1>7
<1>9. pg' = [p \in DOMAIN pg' |-> pg'[p]]
  BY <1>2
<1> QED
  BY <1>2, <1>6, <1>7, <1>8, <1>9 DEF SplitMade, par, bro, old

\* They are pages, ordered, of keys that were inserted.
LEMMA SplitKinds ==
    ASSUME TreeKinds, cur \in DOMAIN pg, Full(cur),
           NEW f, NEW D, NEW par, NEW bro, NEW old, SplitMade(f, D, par, bro, old)
    PROVE  /\ Middle \in keys
           /\ \A p \in D : f[p] \in Pages(D) /\ Sorted(f[p]) /\ KeysOf(f[p]) \subseteq keys
<1>1. /\ pg[cur] \in Pages(DOMAIN pg) /\ Sorted(pg[cur]) /\ KeysOf(pg[cur]) \subseteq keys /\ keys \subseteq Key
      /\ \A p \in DOMAIN pg : pg[p] \in Pages(DOMAIN pg) /\ Sorted(pg[p]) /\ KeysOf(pg[p]) \subseteq keys
  BY DEF TreeKinds
<1>2. DOMAIN pg \subseteq D /\ par \in D /\ bro \in D /\ cur \in D
  BY DEF SplitMade
<1>3. /\ Middle \in KeysOf(pg[cur])
      /\ Lower(par) \in Pages(D) /\ Sorted(Lower(par)) /\ KeysOf(Lower(par)) \subseteq KeysOf(pg[cur])
      /\ Upper(par) \in Pages(D) /\ Sorted(Upper(par)) /\ KeysOf(Upper(par)) \subseteq KeysOf(pg[cur])
  BY <1>1, <1>2, HalvesAre
<1>4. Middle \in Key /\ Middle \in keys
  BY <1>1, <1>3
<1>5. old \in Pages(D) /\ Sorted(old) /\ old.n_el < R /\ KeysOf(old) \subseteq keys
  BY <1>2, MorePages DEF SplitMade
<1>6. /\ f[par] \in Pages(D) /\ Sorted(f[par]) /\ KeysOf(f[par]) = KeysOf(old) \cup {Middle}
  <2>1. f[par] = Inserted(old, Middle, cur, bro)
    BY DEF SplitMade
  <2> QED
    BY <1>2, <1>4, <1>5, <2>1, InsertedPage
<1>7. ASSUME NEW p \in D PROVE f[p] \in Pages(D) /\ Sorted(f[p]) /\ KeysOf(f[p]) \subseteq keys
  <2>1. p \in {cur, bro, par} \/ (p \in DOMAIN pg \ {cur, par})
    <3>1. D = DOMAIN pg \cup {par, bro}
      BY DEF SplitMade
    <3> QED
      BY <3>1
  <2>2. CASE p = cur
    BY <1>1, <1>3, <2>2 DEF SplitMade
  <2>3. CASE p = bro
    BY <1>1, <1>3, <2>3 DEF SplitMade
  <2>4. CASE p = par
    BY <1>4, <1>5, <1>6, <2>4
  <2>5. CASE p \in DOMAIN pg \ {cur, par}
    <3>1. f[p] = pg[p]
      BY <2>5 DEF SplitMade
    <3> QED
      BY <1>1, <1>2, <2>5, <3>1, MorePages
  <2> QED
    BY <2>1, <2>2, <2>3, <2>4, <2>5
<1> QED
  BY <1>4, <1>7

\* A split that loses no page leaves the tree flat, and everything reached.
LEMMA SplitKeeps ==
    ASSUME TreeKinds, root \in DOMAIN pg, Flat(pg, root), cur \in DOMAIN pg, Full(cur), key \in Key,
           cur = root \/ (key \notin KeysOf(pg[root]) /\ cur = Way(pg[root], key)),
           NEW f, NEW D, NEW par, NEW bro, NEW old, SplitMade(f, D, par, bro, old),
           par = SplitPar, old = SplitOld,
           Last(pg[cur]) = None, ~ Loses(old, Middle)
    PROVE  /\ par = IF IsRoot THEN par ELSE root
           /\ Flat(f, par) /\ \A y \in keys : Reached(pg, root, y) => Reached(f, par, y)
<1>1. /\ \A p \in DOMAIN pg : pg[p] \in Pages(DOMAIN pg) /\ Sorted(pg[p]) /\ KeysOf(pg[p]) \subseteq keys
      /\ keys \subseteq Key /\ DOMAIN pg = 0..(N - 1) /\ N \in Nat /\ N <= MaxPages
      /\ pg \in [DOMAIN pg -> Pages(DOMAIN pg)]
  BY DEF TreeKinds
<1>2. /\ DOMAIN f = D /\ D = 0..bro /\ D = DOMAIN pg \cup {par, bro} /\ bro \in Nat /\ bro < MaxPages
      /\ bro \in D \ DOMAIN pg /\ par # bro /\ cur # par /\ cur # bro /\ par \in D /\ cur \in D
      /\ old \in Pages(DOMAIN pg) /\ Sorted(old) /\ old.n_el < R
      /\ f[cur] = Lower(par) /\ f[bro] = Upper(par) /\ f[par] = Inserted(old, Middle, cur, bro)
      /\ \A p \in DOMAIN pg \ {cur, par} : f[p] = pg[p]
  BY DEF SplitMade
<1>3. Middle \in keys /\ \A p \in D : f[p] \in Pages(D) /\ Sorted(f[p])
  BY SplitKinds
<1>4. Tidy(pg)
  BY <1>1 DEF Tidy
<1>5. f \in [DOMAIN f -> Pages(DOMAIN f)] => Tidy(f)
  <2>1. None \notin 0..bro
    BY <1>2
  <2> QED
    BY <1>2, <1>3, <2>1 DEF Tidy
<1>6. /\ Middle \in KeysOf(pg[cur]) /\ Middle \in Key
      /\ f[cur].parent = par /\ f[bro].parent = par
      /\ KeysOf(f[cur]) = {y \in KeysOf(pg[cur]) : y < Middle}
      /\ KeysOf(f[bro]) = {y \in KeysOf(pg[cur]) : Middle < y}
      /\ Leaf(pg[cur]) => Leaf(f[cur]) /\ Leaf(f[bro])
  <2>1. pg[cur] \in Pages(DOMAIN pg) /\ Sorted(pg[cur]) /\ DOMAIN pg \subseteq D /\ par \in D
    BY <1>1, <1>2
  <2>2. /\ Middle \in KeysOf(pg[cur])
        /\ Lower(par).parent = par /\ Upper(par).parent = par
        /\ KeysOf(Lower(par)) = {y \in KeysOf(pg[cur]) : y < Middle}
        /\ KeysOf(Upper(par)) = {y \in KeysOf(pg[cur]) : Middle < y}
        /\ Leaf(pg[cur]) => Leaf(Lower(par)) /\ Leaf(Upper(par))
    BY <2>1, HalvesAre
  <2>3. Middle \in Key
    BY <1>1, <1>3
  <2> QED
    BY <1>2, <2>2, <2>3
<1>7. \A y \in KeysOf(pg[cur]) : y \in KeysOf(f[cur]) \cup {Middle} \cup KeysOf(f[bro])
  <2>1. \A y \in KeysOf(pg[cur]) : y \in Int /\ Middle \in Int
    BY <1>1, <1>6
  <2> QED
    BY <1>6, <2>1
<1>8. Middle \notin KeysOf(old) => Gains(D, old, f[par], Middle, cur, bro, Pos(old, Middle))
  <2> SUFFICES ASSUME Middle \notin KeysOf(old)
               PROVE  Gains(D, old, f[par], Middle, cur, bro, Pos(old, Middle))
    OBVIOUS
  <2>1. f[par] = InsertInPos(old, Middle, cur, bro, Pos(old, Middle))
    BY <1>2, <1>6, HasItsKeys DEF Inserted
  <2>2. old \in Pages(D) /\ cur \in D \cup {None} /\ bro \in D \cup {None}
    BY <1>2, MorePages
  <2>3. Sorted(old) /\ old.n_el < R /\ Middle \in Key
    BY <1>2, <1>6
  <2> QED
    BY <2>1, <2>2, <2>3, InsertedIs
<1>9. Tidy(f)
  <2>1. f \in [D -> Pages(D)]
    <3>1. f = [p \in D |-> f[p]]
      BY DEF SplitMade
    <3> QED
      BY <1>3, <3>1
  <2> QED
    BY <1>2, <1>5, <2>1
<1>10. CASE cur = root
  <2>1. Leaf(pg[root])
    <3> SUFFICES ASSUME ~ Leaf(pg[root]) PROVE FALSE
      OBVIOUS
    <3>1. pg[root].n_el \in 0..pg[root].n_el
      BY <1>4, TidyPage
    <3>2. ChildAt(pg, root, pg[root].n_el)
      BY <3>1 DEF Flat
    <3> QED
      BY <1>4, <1>10, <3>2 DEF ChildAt, Last, Tidy
  <2>2. IsRoot /\ old = Empty(None)
    BY <1>10 DEF Flat, IsRoot, SplitOld
  <2>3. old.n_el = 0 /\ old.parent = None /\ KeysOf(old) = {}
    BY <2>2, EmptyPage
  <2>4. Pos(old, Middle) = 0
    <3>1. Pos(old, Middle) \in 0..old.n_el
      BY <1>2, <1>6, ScanEnds
    <3> QED
      BY <2>3, <3>1
  <2>5. /\ f[par].n_el = 0 + 1 /\ f[par].parent = None /\ f[par].recs[0].key = Middle
        /\ f[par].recs[0].off = cur /\ f[par].recs[0 + 1].off = bro
    BY <1>8, <2>3, <2>4 DEF Gains
  <2>6. Ends(f, par, 0, Middle, cur, bro)
    BY <1>2, <1>6, <1>10, <2>1, <2>5 DEF Ends
  <2>7. Flat(f, par) /\ ChildAt(f, par, 0) /\ ChildAt(f, par, 0 + 1)
    BY <1>2, <1>6, <1>9, <2>6, EndsFlat
  <2>8. ASSUME NEW y \in keys, Reached(pg, root, y) PROVE Reached(f, par, y)
    <3>1. y \in KeysOf(pg[cur])
      BY <1>1, <1>4, <1>10, <2>1, <2>8, WayOf DEF Reached
    <3> QED
      BY <1>2, <1>6, <1>7, <1>9, <2>6, <2>7, <3>1, EndsReached
  <2> QED
    BY <2>2, <2>7, <2>8
<1>11. CASE cur # root
  <2> DEFINE q == pg[root]
             a == q.n_el
  <2>1. key \notin KeysOf(q) /\ cur = Way(q, key) /\ cur # None
    BY <1>4, <1>11 DEF Tidy
  <2>2. /\ \A i \in 0..a : ChildAt(pg, root, i)
        /\ Apart(pg, root)
        /\ Pos(q, key) \in 0..a /\ cur = q.recs[Pos(q, key)].off
    BY <1>4, <2>1, WayOf DEF Way
  <2>3. pg[cur].parent = root /\ Leaf(pg[cur]) /\ root # None
    BY <1>4, <2>2 DEF ChildAt, Tidy
  <2>4. ~ IsRoot /\ par = root /\ old = q
    BY <2>3 DEF IsRoot, SplitPar, SplitOld
  <2>5. a \in Nat /\ a \in 0..a /\ q \in Pages(DOMAIN pg) /\ Sorted(q) /\ a \in 0..R /\ a = old.n_el
    BY <1>4, <2>4, TidyPage
  <2>6. Pos(q, Middle) = Pos(q, key) /\ Middle \notin KeysOf(q)
    BY <1>6, <2>2 DEF ChildAt
  <2>7. Pos(q, Middle) = a
    <3>1. Last(q) # None
      BY <1>4, <2>2, <2>5 DEF ChildAt, Last, Tidy
    <3>2. ~ (Pos(q, Middle) < a)
      BY <2>4, <3>1 DEF Loses
    <3> QED
      BY <2>2, <2>5, <2>6, <3>2
  <2>8. \A y \in KeysOf(pg[cur]) : Pos(q, y) = a /\ y \notin KeysOf(q) /\ y \in Key
    BY <1>1, <2>2, <2>6, <2>7 DEF ChildAt
  <2>9. ASSUME NEW y \in KeysOf(pg[cur]), NEW j \in 0..(a - 1) PROVE q.recs[j].key < y
    <3>1. y \in Key /\ j \in 0..(Pos(q, y) - 1)
      BY <2>8
    <3> QED
      BY <2>5, <3>1, ScanEnds
  <2>10. cur = q.recs[a].off
    BY <2>2, <2>6, <2>7
  <2>11. /\ f[root].n_el = a + 1 /\ f[root].parent = None
         /\ KeysOf(f[root]) = KeysOf(q) \cup {Middle}
         /\ \A j \in 0..a : f[root].recs[j].key = IF j < a THEN q.recs[j].key
                                                  ELSE IF j = a THEN Middle ELSE q.recs[j - 1].key
         /\ \A j \in 0..(a - 1) : f[root].recs[j].off = q.recs[j].off
         /\ f[root].recs[a].off = cur /\ f[root].recs[a + 1].off = bro
    BY <1>8, <2>4, <2>6, <2>7 DEF Gains, Flat
  <2> HIDE DEF a, q
  <2>12. /\ f[root].recs[a].key = Middle
         /\ \A j \in 0..(a - 1) : f[root].recs[j].key = q.recs[j].key
    <3>1. ~ (a < a) /\ \A j \in 0..(a - 1) : j \in 0..a /\ j < a
      BY <2>5
    <3> QED
      BY <2>5, <2>11, <3>1
  <2>13. Ends(f, root, a, Middle, cur, bro)
    <3>1. \A j \in 0..(a - 1) : \A y \in KeysOf(f[cur]) : f[root].recs[j].key < y
      BY <1>6, <2>9, <2>12
    <3>2. root # bro /\ f[cur].parent = root /\ f[bro].parent = root /\ Leaf(f[cur]) /\ Leaf(f[bro])
      BY <1>2, <1>6, <2>3, <2>4
    <3> QED
      BY <1>2, <1>6, <1>11, <2>11, <2>12, <3>1, <3>2 DEF Ends
  <2>14. ASSUME NEW i \in 0..(a - 1)
         PROVE  /\ ChildAt(f, root, i) /\ f[root].recs[i].off \notin {cur, bro}
                /\ f[q.recs[i].off] = pg[q.recs[i].off]
    <3>1. i \in 0..a /\ i # a /\ i < a /\ i \in Nat
      BY <2>5
    <3>2. q.recs[i].off # cur
      BY <2>5, <2>10, <2>2, <3>1 DEF Apart, q, a
    <3>3. ChildAt(pg, root, i) /\ f[root].recs[i].off = q.recs[i].off
      BY <2>2, <2>11, <3>1
    <3>4. q.recs[i].off \in DOMAIN pg \ {root, cur}
      BY <3>2, <3>3 DEF ChildAt, q
    <3>5. f[q.recs[i].off] = pg[q.recs[i].off] /\ q.recs[i].off \in DOMAIN f /\ q.recs[i].off # bro
      BY <1>2, <2>4, <3>4
    <3>6. ASSUME NEW y \in KeysOf(pg[q.recs[i].off]) PROVE Pos(f[root], y) = i /\ y \notin KeysOf(f[root])
      <4>1. Pos(q, y) = i /\ y \notin KeysOf(q) /\ y \in Key
        BY <1>1, <3>3, <3>4 DEF ChildAt, q
      <4>2. q.recs[i].key >= y /\ \A j \in 0..(i - 1) : q.recs[j].key < y
        BY <2>5, <3>1, <4>1, ScanEnds DEF a
      <4>3. f[root].recs[i].key >= y /\ \A j \in 0..(i - 1) : f[root].recs[j].key < y
        <5>1. \A j \in 0..(i - 1) : j \in 0..(a - 1)
          BY <2>5
        <5> QED
          BY <2>12, <4>2, <5>1
      <4>4. i \in 0..f[root].n_el
        BY <2>5, <2>11, <3>1
      <4>5. f[root] \in Pages(D) /\ Sorted(f[root])
        BY <1>2, <1>3
      <4>6. Pos(f[root], y) = i
        BY <4>1, <4>3, <4>4, <4>5, ScanEndsAt
      <4>7. y # Middle
        BY <2>7, <3>1, <4>1
      <4> QED
        BY <2>11, <4>1, <4>6, <4>7
    <3>7. pg[q.recs[i].off].parent = root /\ Leaf(pg[q.recs[i].off])
      BY <3>3 DEF ChildAt, q
    <3>8. ChildAt(f, root, i)
      BY <3>3, <3>4, <3>5, <3>6, <3>7 DEF ChildAt
    <3> QED
      BY <3>2, <3>3, <3>5, <3>8
  <2>15. ASSUME NEW i \in 0..(a - 1), NEW j \in 0..(a - 1), f[root].recs[i].off = f[root].recs[j].off
         PROVE  i = j
    <3>1. i \in 0..a /\ j \in 0..a
      BY <2>5
    <3>2. q.recs[i].off = q.recs[j].off
      BY <2>11, <2>15
    <3> QED
      BY <2>2, <3>1, <3>2 DEF Apart, q, a
  <2>16. root \in DOMAIN f
    BY <1>2
  <2>17. Flat(f, root) /\ ChildAt(f, root, a) /\ ChildAt(f, root, a + 1)
    BY <1>6, <1>9, <2>5, <2>13, <2>14, <2>15, <2>16, EndsFlat
  <2>18. ASSUME NEW y \in keys, Reached(pg, root, y) PROVE Reached(f, root, y)
    <3>1. CASE y \in KeysOf(q)
      BY <2>11, <3>1 DEF Reached
    <3>2. CASE y \in KeysOf(pg[cur])
      BY <1>6, <1>7, <1>9, <2>5, <2>13, <2>16, <2>17, <3>2, EndsReached
    <3>3. CASE y \notin KeysOf(q) /\ y \notin KeysOf(pg[cur])
      <4>1. Way(q, y) # None /\ y \in KeysOf(pg[Way(q, y)])
        BY <2>18, <3>3 DEF Reached, q
      <4>2. Pos(q, y) \in 0..a /\ Way(q, y) = q.recs[Pos(q, y)].off
        BY <1>1, <1>4, WayOf DEF Way, q, a
      <4>3. Pos(q, y) \in 0..(a - 1)
        <5>1. Pos(q, y) # a
          BY <2>10, <3>3, <4>1, <4>2
        <5> QED
          BY <2>5, <4>2, <5>1
      <4>4. /\ ChildAt(f, root, Pos(q, y)) /\ f[root].recs[Pos(q, y)].off = q.recs[Pos(q, y)].off
            /\ f[q.recs[Pos(q, y)].off] = pg[q.recs[Pos(q, y)].off]
        BY <2>11, <2>14, <4>3
      <4>5. y \in KeysOf(f[f[root].recs[Pos(q, y)].off])
        BY <4>1, <4>2, <4>4
      <4> QED
        BY <1>9, <2>16, <4>4, <4>5, ReachedAt
    <3> QED
      BY <3>1, <3>2, <3>3
  <2> QED
    BY <2>4, <2>17, <2>18
<1> QED
  BY <1>10, <1>11

(***************************************************************************)
(* The tree: the invariant                                                 *)
(***************************************************************************)
LEMMA CountTo == ASSUME NEW a \in Nat PROVE Cardinality(0..(a - 1)) = a
<1>1. 0 \in Int /\ a - 1 \in Int
  OBVIOUS
<1>2. Cardinality(0..(a - 1)) = IF 0 > a - 1 THEN 0 ELSE (a - 1) - 0 + 1
  BY <1>1, FS_Interval
<1> QED
  BY <1>2

LEMMA InitTreeInv == TreeInit => TreeInv
<1> SUFFICES ASSUME TreeInit PROVE TreeInv
  OBVIOUS
<1>1. DOMAIN pg = {} /\ pg \in [DOMAIN pg -> Pages(DOMAIN pg)]
  BY DEF TreeInit
<1>2. N = 0
  BY <1>1, FS_EmptySet DEF N
<1>3. TreeKinds
  BY <1>1, <1>2 DEF TreeInit, TreeKinds
<1> QED
  BY <1>3 DEF TreeInit, TreeInv, Exact, Answered, Calls

LEMMA TreeIsTidy == ASSUME TreeKinds PROVE Tidy(pg) /\ DOMAIN pg \subseteq Page
<1>1. DOMAIN pg = 0..(N - 1) /\ N \in Nat /\ N <= MaxPages /\ MaxPages \in Nat
  BY DEF TreeKinds
<1>2. DOMAIN pg \subseteq Page
  BY <1>1 DEF Page
<1>3. None \notin DOMAIN pg
  BY <1>2 DEF Page
<1> QED
  BY <1>2, <1>3 DEF TreeKinds, Tidy

\* A scan goes on to a page, or to none.
LEMMA WayIn == ASSUME NEW f, Tidy(f), NEW p \in DOMAIN f, NEW x \in Key
               PROVE /\ Way(f[p], x) \in DOMAIN f \cup {None}
                     /\ Has(f[p], x) <=> x \in KeysOf(f[p])
<1>1. f[p] \in Pages(DOMAIN f) /\ Sorted(f[p]) /\ f[p].n_el \in 0..R
  BY TidyPage
<1>2. Pos(f[p], x) \in 0..f[p].n_el
  BY <1>1, ScanEnds
<1>3. Pos(f[p], x) \in 0..R
  BY <1>1, <1>2
<1> QED
  BY <1>1, <1>3, PageOf, HasItsKeys DEF Way

\* A step that changes nothing of the tree.
LEMMA TreeKept == ASSUME TreeInv, UNCHANGED <<pg, root, freed, keys, lossy>>, file => file',
                         cur' \in DOMAIN pg \cup {None}, key' \in Key \cup {NoKey},
                         call' \notin {"none", "wild"} => root # None
                  PROVE  TreeKinds' /\ Exact'
<1>1. N' = N
  BY DEF N
<1>2. TreeKinds'
  BY <1>1 DEF TreeInv, TreeKinds
<1>3. Exact'
  BY DEF TreeInv, Exact
<1> QED
  BY <1>2, <1>3

\* One that then ends the call, or the process.
LEMMA CallEnds == ASSUME TreeInv, UNCHANGED <<pg, root, freed, keys, lossy>>, file => file',
                         cur' \in DOMAIN pg \cup {None}, key' \in Key \cup {NoKey},
                         call' \notin {"none", "wild"} => root # None,
                         call' \notin Calls \cup {"found", "missing"}
                  PROVE  TreeInv'
<1>1. TreeKinds' /\ Exact'
  BY TreeKept
<1>2. Answered' /\ call' \notin Calls
  BY DEF Answered
<1> QED
  BY <1>1, <1>2 DEF TreeInv, Calls

LEMMA CreatesTree == ASSUME TreeInv, TreeCreate PROVE TreeInv'
<1> USE DEF TreeInv
<1>1. CASE file
  <2>1. call' = "wild" /\ UNCHANGED <<tree, cur, key, keys, lossy>>
    BY <1>1 DEF TreeCreate, losses
  <2> QED
    BY <2>1, CallEnds DEF tree, Calls, TreeKinds
<1>2. CASE ~ file
  <2>1. /\ pg' = [p \in {0} |-> Empty(None)] /\ root' = 0 /\ file' = TRUE /\ call' = "idle"
        /\ UNCHANGED <<freed, cur, key, keys, lossy>>
    BY <1>2 DEF TreeCreate, losses
  <2>2. DOMAIN pg = {} /\ keys = {} /\ freed = {} /\ cur = None
    BY <1>2 DEF TreeKinds
  <2>3. DOMAIN pg' = {0} /\ 0..(1 - 1) = {0} /\ pg'[0] = Empty(None)
    BY <2>1
  <2>4. N' = 1
    <3>1. Cardinality({0}) = 1
      BY FS_Singleton
    <3> QED
      BY <2>3, <3>1 DEF N
  <2>5. /\ pg'[0] \in Pages(DOMAIN pg') /\ Sorted(pg'[0]) /\ KeysOf(pg'[0]) = {} /\ Leaf(pg'[0])
        /\ pg'[0].parent = None
    BY <2>3, EmptyPage
  <2>6. pg' \in [DOMAIN pg' -> Pages(DOMAIN pg')]
    BY <2>1, <2>3, <2>5
  <2>7. TreeKinds'
    <3>1. 1 <= MaxPages /\ 1 \in Nat
      OBVIOUS
    <3>2. key \in Key \cup {NoKey}
      BY DEF TreeKinds
    <3> QED
      BY <2>1, <2>2, <2>3, <2>4, <2>5, <2>6, <3>1, <3>2 DEF TreeKinds
  <2>8. Exact'
    BY <2>1, <2>2, <2>5 DEF Exact, Flat
  <2>9. Answered' /\ call' \notin Calls
    BY <2>1 DEF Answered, Calls
  <2> QED
    BY <2>7, <2>8, <2>9 DEF Calls
<1> QED
  BY <1>1, <1>2

LEMMA BeginsCall == ASSUME TreeInv, NEW c \in {"search", "insert"}, Begin(c) PROVE TreeInv'
<1>1. /\ call = "idle" /\ call' = c /\ key' \in Key /\ cur' = root /\ UNCHANGED <<tree, keys, lossy>>
  BY DEF Begin, losses
<1>2. root # None /\ root \in DOMAIN pg \cup {None}
  BY <1>1 DEF TreeInv, TreeKinds
<1>3. TreeKinds' /\ Exact'
  BY <1>1, <1>2, TreeKept DEF tree
<1>4. Answered' /\ OnTheWay'
  BY <1>1, <1>2 DEF Answered, OnTheWay, tree
<1> QED
  BY <1>3, <1>4 DEF TreeInv

\* What is neither in the root nor in the page below it was not inserted.
LEMMA NotThere == ASSUME TreeInv, ~ lossy, root # None, NEW x, x \notin KeysOf(pg[root]),
                         Way(pg[root], x) = None \/ x \notin KeysOf(pg[Way(pg[root], x)])
                  PROVE  x \notin keys
BY DEF TreeInv, Exact, Reached

\* Below the root are leaves.
LEMMA ChildIsLeaf == ASSUME TreeInv, ~ lossy, root # None, NEW x \in Key, Way(pg[root], x) # None
                     PROVE  Leaf(pg[Way(pg[root], x)]) /\ Way(pg[root], x) \in DOMAIN pg
<1>1. root \in DOMAIN pg /\ Flat(pg, root) /\ Tidy(pg)
  BY TreeIsTidy DEF TreeInv, TreeKinds, Exact
<1> QED
  BY <1>1, WayOf DEF ChildAt, Way

LEMMA SearchesPage == ASSUME TreeInv, SearchPage PROVE TreeInv'
<1>1. call = "search" /\ OnTheWay /\ root # None /\ key \in Key /\ cur \in DOMAIN pg \cup {None}
  BY DEF SearchPage, TreeInv, Calls, OnTheWay, TreeKinds
<1>2. Tidy(pg) /\ UNCHANGED <<tree, keys, lossy>>
  BY TreeIsTidy DEF SearchPage, TreeInv, losses
<1>3. key \notin keys \/ ~ (cur = None) \/ lossy
  <2> SUFFICES ASSUME cur = None, ~ lossy PROVE key \notin keys
    OBVIOUS
  <2> QED
    BY <1>1, NotThere DEF OnTheWay
<1>4. CASE cur = None
  <2>1. call' = "missing" /\ cur' = None /\ key' = key
    BY <1>4 DEF SearchPage, Answer
  <2>2. TreeKinds' /\ Exact'
    BY <1>1, <1>2, <2>1, TreeKept DEF tree
  <2>3. Answered' /\ call' \notin Calls
    BY <1>2, <1>3, <1>4, <2>1 DEF Answered, Calls
  <2> QED
    BY <2>2, <2>3 DEF TreeInv, Calls
<1>5. CASE cur # None /\ Has(pg[cur], key)
  <2>1. call' = "found" /\ cur' = None /\ key' = key
    BY <1>5 DEF SearchPage, Answer
  <2>2. TreeKinds' /\ Exact'
    BY <1>1, <1>2, <2>1, TreeKept DEF tree
  <2>3. key \in keys
    <3>1. cur \in DOMAIN pg /\ KeysOf(pg[cur]) \subseteq keys
      BY <1>1, <1>5 DEF TreeInv, TreeKinds
    <3> QED
      BY <1>1, <1>2, <1>5, <3>1, WayIn
  <2>4. Answered' /\ call' \notin Calls
    BY <1>2, <2>1, <2>3 DEF Answered, Calls
  <2> QED
    BY <2>2, <2>4 DEF TreeInv, Calls
<1>6. CASE cur # None /\ ~ Has(pg[cur], key)
  <2>1. call' = "search" /\ cur' = Way(pg[cur], key) /\ key' = key
    BY <1>6 DEF SearchPage, GoTo
  <2>2. cur \in DOMAIN pg /\ cur' \in DOMAIN pg \cup {None} /\ key \notin KeysOf(pg[cur])
    BY <1>1, <1>2, <1>6, <2>1, WayIn
  <2>3. TreeKinds' /\ Exact'
    BY <1>1, <1>2, <2>1, <2>2, TreeKept DEF tree
  <2>4. ASSUME ~ lossy PROVE \/ key \notin KeysOf(pg[root]) /\ cur' = Way(pg[root], key)
                             \/ cur' = None /\ key \notin keys
    <3>1. CASE cur = root
      BY <2>1, <2>2, <3>1
    <3>2. CASE cur # root
      <4>1. key \notin KeysOf(pg[root]) /\ cur = Way(pg[root], key)
        BY <1>1, <1>6, <2>4, <3>2 DEF OnTheWay
      <4>2. key \notin keys
        BY <1>1, <2>2, <2>4, <4>1, NotThere
      <4>3. Leaf(pg[cur])
        BY <1>1, <1>6, <2>4, <4>1, ChildIsLeaf
      <4>4. Way(pg[cur], key) = None
        <5>1. Pos(pg[cur], key) \in 0..pg[cur].n_el /\ pg[cur].n_el \in 0..R
          BY <1>1, <1>2, <2>2, TidyPage, ScanEnds
        <5>2. Pos(pg[cur], key) \in 0..R
          BY <5>1
        <5> QED
          BY <4>3, <5>2 DEF Leaf, Way
      <4> QED
        BY <2>1, <4>2, <4>4
    <3> QED
      BY <3>1, <3>2
  <2>5. OnTheWay' /\ Answered'
    BY <1>1, <1>2, <2>1, <2>4 DEF OnTheWay, Answered, tree
  <2> QED
    BY <2>3, <2>5 DEF TreeInv
<1> QED
  BY <1>4, <1>5, <1>6

\* What a call of insert has come to.
LEMMA InsertsAt == ASSUME TreeInv, call \in {"insert", "scan"}
                   PROVE  /\ cur \in DOMAIN pg /\ root \in DOMAIN pg /\ root # None /\ key \in Key /\ file
                          /\ Tidy(pg) /\ DOMAIN pg \subseteq Page
                          /\ pg[cur] \in Pages(DOMAIN pg) /\ Sorted(pg[cur]) /\ KeysOf(pg[cur]) \subseteq keys
                          /\ Way(pg[cur], key) \in DOMAIN pg \cup {None}
                          /\ Has(pg[cur], key) <=> key \in KeysOf(pg[cur])
                          /\ ~ lossy => /\ \/ cur = root
                                           \/ key \notin KeysOf(pg[root]) /\ cur = Way(pg[root], key)
                                        /\ Flat(pg, root)
                                        /\ \A x \in keys : Reached(pg, root, x)
<1>1. OnTheWay /\ root # None /\ cur # None /\ Tidy(pg) /\ DOMAIN pg \subseteq Page
  BY TreeIsTidy DEF TreeInv, Calls, OnTheWay, TreeKinds
<1>2. cur \in DOMAIN pg /\ root \in DOMAIN pg /\ key \in Key /\ file
  BY <1>1 DEF TreeInv, TreeKinds, OnTheWay
<1>3. pg[cur] \in Pages(DOMAIN pg) /\ Sorted(pg[cur]) /\ KeysOf(pg[cur]) \subseteq keys
  BY <1>2 DEF TreeInv, TreeKinds
<1>4. Way(pg[cur], key) \in DOMAIN pg \cup {None} /\ (Has(pg[cur], key) <=> key \in KeysOf(pg[cur]))
  BY <1>1, <1>2, WayIn
<1>5. ~ lossy => /\ cur = root \/ (key \notin KeysOf(pg[root]) /\ cur = Way(pg[root], key))
                 /\ Flat(pg, root)
                 /\ \A x \in keys : Reached(pg, root, x)
  BY <1>1 DEF TreeInv, OnTheWay, Exact
<1> QED
  BY <1>1, <1>2, <1>3, <1>4, <1>5

\* The key gets into a page that has no page for it.
LEMMA InsertsKey ==
    ASSUME TreeInv, call \in {"insert", "scan"}, ~ Has(pg[cur], key), Way(pg[cur], key) = None,
           pg[cur].n_el < R,
           pg' = [pg EXCEPT ![cur] = InsertInPos(@, key, None, None, Pos(@, key))],
           keys' = keys \cup {key}, call' = "done", cur' = None, UNCHANGED <<root, freed, file, key, lossy>>
    PROVE  TreeInv'
<1>1. /\ cur \in DOMAIN pg /\ root \in DOMAIN pg /\ root # None /\ key \in Key /\ file /\ Tidy(pg)
      /\ pg[cur] \in Pages(DOMAIN pg) /\ Sorted(pg[cur]) /\ key \notin KeysOf(pg[cur])
  BY InsertsAt
<1>2. PICK w : w = InsertInPos(pg[cur], key, None, None, Pos(pg[cur], key))
  OBVIOUS
<1>3. pg' = [pg EXCEPT ![cur] = w]
  BY <1>2
<1>4. Gains(DOMAIN pg, pg[cur], w, key, None, None, Pos(pg[cur], key))
  <2>1. None \in DOMAIN pg \cup {None}
    OBVIOUS
  <2> QED
    BY <1>1, <1>2, <2>1, InsertedIs
<1>5. /\ w \in Pages(DOMAIN pg) /\ Sorted(w) /\ KeysOf(w) = KeysOf(pg[cur]) \cup {key}
      /\ w.parent = pg[cur].parent /\ (Leaf(pg[cur]) => Leaf(w))
  BY <1>4 DEF Gains
<1>6. /\ DOMAIN pg' = DOMAIN pg /\ pg'[cur] = w /\ \A p \in DOMAIN pg \ {cur} : pg'[p] = pg[p]
  <2>1. pg = [p \in DOMAIN pg |-> pg[p]]
    BY DEF TreeInv, TreeKinds
  <2> QED
    BY <1>1, <1>3, <2>1
<1>7. TreeKinds'
  <2>1. N' = N
    BY <1>6 DEF N
  <2>2. TreeKinds
    BY DEF TreeInv
  <2>3. pg' \in [DOMAIN pg' -> Pages(DOMAIN pg')]
    BY <1>3, <1>5, <1>6, <2>2 DEF TreeKinds
  <2>4. ASSUME NEW p \in DOMAIN pg PROVE Sorted(pg'[p]) /\ KeysOf(pg'[p]) \subseteq keys'
    <3>1. Sorted(pg[p]) /\ KeysOf(pg[p]) \subseteq keys /\ KeysOf(pg[cur]) \subseteq keys
      BY <1>1, <2>2 DEF TreeKinds
    <3>2. CASE p = cur
      BY <1>5, <1>6, <3>1, <3>2
    <3>3. CASE p # cur
      BY <1>6, <3>1, <3>3
    <3> QED
      BY <3>2, <3>3
  <2>5. keys' \subseteq Key
    BY <1>1, <2>2 DEF TreeKinds
  <2> QED
    BY <1>1, <1>6, <2>1, <2>2, <2>3, <2>4, <2>5 DEF TreeKinds
<1>8. Exact'
  <2> SUFFICES ASSUME ~ lossy PROVE Flat(pg', root) /\ \A x \in keys' : Reached(pg', root, x)
    BY DEF Exact
  <2>1. /\ cur = root \/ (key \notin KeysOf(pg[root]) /\ cur = Way(pg[root], key))
        /\ Flat(pg, root)
        /\ \A x \in keys : Reached(pg, root, x)
    BY InsertsAt
  <2>2. PICK g : g = pg'
    OBVIOUS
  <2>3. g = [pg EXCEPT ![cur] = w]
    BY <1>3, <2>2
  <2>4. Flat(g, root) /\ Reached(g, root, key) /\ \A y \in Key : Reached(pg, root, y) => Reached(g, root, y)
    BY <1>1, <1>5, <2>1, <2>3, LeafGains
  <2>5. keys \subseteq Key
    BY DEF TreeInv, TreeKinds
  <2> QED
    BY <2>1, <2>2, <2>4, <2>5
<1>9. Answered' /\ call' \notin Calls
  BY DEF Answered, Calls
<1> QED
  BY <1>7, <1>8, <1>9 DEF TreeInv, Calls

LEMMA InsertsPage == ASSUME TreeInv, InsertPage PROVE TreeInv'
<1>1. call \in {"insert", "scan"} /\ UNCHANGED lossy
  BY DEF InsertPage
<1>2. /\ cur \in DOMAIN pg /\ root \in DOMAIN pg /\ root # None /\ key \in Key /\ file /\ Tidy(pg)
      /\ Way(pg[cur], key) \in DOMAIN pg \cup {None}
      /\ Has(pg[cur], key) <=> key \in KeysOf(pg[cur])
  BY <1>1, InsertsAt
<1>3. CASE Has(pg[cur], key)
  <2>1. call' = "refused" /\ cur' = None /\ UNCHANGED <<tree, key, keys>>
    BY <1>3 DEF InsertPage, Answer
  <2> QED
    BY <1>1, <1>2, <2>1, CallEnds DEF tree, Calls
<1>4. CASE ~ Has(pg[cur], key) /\ Way(pg[cur], key) # None
  <2>1. call' = "insert" /\ cur' = Way(pg[cur], key) /\ UNCHANGED <<tree, key, keys>>
    BY <1>4 DEF InsertPage, GoTo
  <2>2. TreeKinds' /\ Exact'
    BY <1>1, <1>2, <2>1, TreeKept DEF tree
  <2>3. ASSUME ~ lossy PROVE cur = root
    <3> SUFFICES ASSUME cur # root PROVE FALSE
      OBVIOUS
    <3>1. key \notin KeysOf(pg[root]) /\ cur = Way(pg[root], key) /\ cur # None
      BY <1>1, <1>2, <2>3, InsertsAt DEF Tidy
    <3>2. Leaf(pg[cur])
      BY <1>2, <2>3, <3>1, ChildIsLeaf
    <3>3. Pos(pg[cur], key) \in 0..pg[cur].n_el /\ pg[cur].n_el \in 0..R
      BY <1>2, TidyPage, ScanEnds
    <3>4. Pos(pg[cur], key) \in 0..R
      BY <3>3
    <3> QED
      BY <1>4, <3>2, <3>4 DEF Leaf, Way
  <2>4. OnTheWay' /\ Answered'
    BY <1>1, <1>2, <1>4, <2>1, <2>3 DEF OnTheWay, Answered, tree
  <2> QED
    BY <2>2, <2>4 DEF TreeInv
<1>5. CASE ~ Has(pg[cur], key) /\ Way(pg[cur], key) = None /\ pg[cur].n_el < R
  <2>1. /\ pg' = [pg EXCEPT ![cur] = InsertInPos(@, key, None, None, Pos(@, key))]
        /\ keys' = keys \cup {key} /\ call' = "done" /\ cur' = None
        /\ UNCHANGED <<root, freed, file, key, lossy>>
    BY <1>1, <1>5 DEF InsertPage, Answer
  <2> QED
    BY <1>1, <1>5, <2>1, InsertsKey
<1>6. CASE ~ Has(pg[cur], key) /\ Way(pg[cur], key) = None /\ ~ (pg[cur].n_el < R)
  <2>1. call' = "wild" /\ cur' = None /\ UNCHANGED <<tree, key, keys>>
    BY <1>6 DEF InsertPage, Answer
  <2> QED
    BY <1>1, <1>2, <2>1, CallEnds DEF tree, Calls
<1> QED
  BY <1>3, <1>4, <1>5, <1>6

LEMMA Splits == ASSUME TreeInv, Split PROVE TreeInv'
<1>1. /\ call = "insert" /\ Full(cur) /\ call' = "scan" /\ UNCHANGED <<freed, file, key, keys>>
  BY DEF Split
<1>2. /\ cur \in DOMAIN pg /\ root \in DOMAIN pg /\ root # None /\ key \in Key /\ file
      /\ TreeKinds /\ N \in Nat /\ DOMAIN pg = 0..(N - 1) /\ keys \subseteq Key
  BY <1>1, InsertsAt DEF TreeInv, TreeKinds
<1>3. PICK f, D, par, bro, old :
         f = pg' /\ D = DOMAIN pg' /\ par = SplitPar /\ bro = SplitBro /\ old = SplitOld
  OBVIOUS
<1>4. SplitMade(f, D, par, bro, old) /\ IF IsRoot THEN par \notin DOMAIN pg ELSE par \in DOMAIN pg
  BY <1>2, <1>3, SplitMakes
<1>5. /\ root' = IF IsRoot THEN par ELSE root
      /\ lossy' = (lossy \/ Last(pg[cur]) # None \/ Loses(old, Middle))
      /\ cur' = par
  BY <1>3 DEF Split, SplitPar, SplitOld
<1>6. /\ D = 0..bro /\ bro \in Nat /\ bro < MaxPages /\ par \in D /\ DOMAIN pg \subseteq D
      /\ f = [p \in D |-> f[p]] /\ DOMAIN f = D
  BY <1>4 DEF SplitMade
<1>7. \A p \in D : f[p] \in Pages(D) /\ Sorted(f[p]) /\ KeysOf(f[p]) \subseteq keys
  BY <1>1, <1>2, <1>4, SplitKinds
<1>8. N' = bro + 1 /\ 0..(N' - 1) = D
  <2>a. bro + 1 \in Nat /\ (bro + 1) - 1 = bro
    BY <1>6
  <2>1. Cardinality(0..((bro + 1) - 1)) = bro + 1 /\ (bro + 1) - 1 = bro
    BY <2>a, CountTo
  <2> QED
    BY <1>3, <1>6, <2>1 DEF N
<1>9. root' \in D /\ root' # None /\ par # None
  <2>1. None \notin D
    BY <1>6
  <2> QED
    BY <1>2, <1>5, <1>6, <2>1
<1>10. TreeKinds'
  <2>1. pg' \in [D -> Pages(D)]
    BY <1>3, <1>6, <1>7
  <2>2. freed' \subseteq D /\ key' \in Key \cup {NoKey} /\ keys' \subseteq Key /\ file'
    BY <1>1, <1>2, <1>6 DEF TreeKinds
  <2>3. N' \in Nat /\ N' <= MaxPages
    BY <1>6, <1>8
  <2> QED
    BY <1>1, <1>3, <1>5, <1>6, <1>7, <1>8, <1>9, <2>1, <2>2, <2>3 DEF TreeKinds
<1>11. ASSUME ~ lossy' PROVE /\ par = root' /\ Flat(pg', root')
                             /\ \A x \in keys : Reached(pg', root', x)
  <2>1. ~ lossy /\ Last(pg[cur]) = None /\ ~ Loses(old, Middle)
    BY <1>5, <1>11
  <2>2. /\ cur = root \/ (key \notin KeysOf(pg[root]) /\ cur = Way(pg[root], key))
        /\ Flat(pg, root)
        /\ \A x \in keys : Reached(pg, root, x)
    BY <1>1, <2>1, InsertsAt
  <2>3. /\ par = IF IsRoot THEN par ELSE root
        /\ Flat(f, par) /\ \A y \in keys : Reached(pg, root, y) => Reached(f, par, y)
    BY <1>1, <1>2, <1>3, <1>4, <2>1, <2>2, SplitKeeps
  <2> QED
    BY <1>3, <1>5, <2>2, <2>3
<1>12. Exact'
  BY <1>1, <1>11 DEF Exact
<1>13. OnTheWay' /\ Answered'
  BY <1>1, <1>2, <1>5, <1>9, <1>11 DEF OnTheWay, Answered
<1> QED
  BY <1>10, <1>12, <1>13 DEF TreeInv

LEMMA FailsToSplit == ASSUME TreeInv, SplitFails PROVE TreeInv'
<1>1. /\ call = "insert" /\ call' = "failed" /\ cur' = None /\ UNCHANGED <<root, file, key, keys, lossy>>
  BY DEF SplitFails, Answer, losses
<1>2. /\ root \in DOMAIN pg /\ root # None /\ key \in Key /\ Tidy(pg) /\ TreeKinds /\ Exact
      /\ N \in Nat /\ DOMAIN pg = 0..(N - 1)
  BY <1>1, InsertsAt DEF TreeInv, TreeKinds
<1>3. CASE UNCHANGED <<pg, freed>>
  BY <1>1, <1>2, <1>3, CallEnds DEF Calls
<1>4. CASE /\ N < MaxPages
           /\ pg' = [p \in DOMAIN pg \cup {N} |-> IF p = N THEN Empty(None) ELSE pg[p]]
           /\ freed' = freed \cup {N}
  <2>1. DOMAIN pg' = 0..N /\ N \notin DOMAIN pg /\ N \in 0..N /\ DOMAIN pg \subseteq 0..N
    <3>1. 0..(N - 1) \cup {N} = 0..N
      BY <1>2
    <3> QED
      BY <1>2, <1>4, <3>1
  <2>2. pg'[N] = Empty(None) /\ \A p \in DOMAIN pg : pg'[p] = pg[p]
    BY <1>4, <2>1
  <2>3. N' = N + 1 /\ (N + 1) - 1 = N
    <3>1. Cardinality(0..((N + 1) - 1)) = N + 1 /\ (N + 1) - 1 = N
      BY <1>2, CountTo
    <3> QED
      BY <2>1, <3>1 DEF N
  <2>4. ASSUME NEW p \in 0..N
        PROVE  pg'[p] \in Pages(0..N) /\ Sorted(pg'[p]) /\ KeysOf(pg'[p]) \subseteq keys
    <3>1. CASE p = N
      BY <2>2, <3>1, EmptyPage
    <3>2. CASE p # N
      <4>1. p \in DOMAIN pg
        BY <1>2, <3>2
      <4>2. pg'[p] = pg[p] /\ pg[p] \in Pages(DOMAIN pg) /\ Sorted(pg[p]) /\ KeysOf(pg[p]) \subseteq keys
        BY <1>2, <2>2, <4>1 DEF TreeKinds
      <4> QED
        BY <2>1, <4>2, MorePages
    <3> QED
      BY <3>1, <3>2
  <2>5. pg' \in [0..N -> Pages(0..N)]
    <3>1. pg' = [p \in 0..N |-> pg'[p]]
      BY <1>4, <2>1
    <3> QED
      BY <2>4, <3>1
  <2>6. freed' \subseteq 0..N /\ N + 1 \in Nat /\ N + 1 <= MaxPages
    BY <1>2, <1>4, <2>1 DEF TreeKinds
  <2>7. TreeKinds'
    BY <1>1, <1>2, <2>1, <2>3, <2>4, <2>5, <2>6 DEF TreeKinds
  <2>8. Exact'
    <3> SUFFICES ASSUME ~ lossy PROVE Flat(pg', root) /\ \A x \in keys : Reached(pg', root, x)
      BY <1>1 DEF Exact
    <3>1. Flat(pg, root) /\ \A x \in keys : Reached(pg, root, x)
      BY <1>2 DEF Exact
    <3>2. PICK g : g = pg'
      OBVIOUS
    <3>3. \A p \in DOMAIN pg : p \in DOMAIN g /\ g[p] = pg[p]
      BY <2>1, <2>2, <3>2
    <3>4. Flat(g, root) /\ \A y \in Key : Reached(pg, root, y) => Reached(g, root, y)
      BY <1>2, <3>1, <3>3, TreeExtends
    <3>5. keys \subseteq Key
      BY <1>2 DEF TreeKinds
    <3> QED
      BY <3>1, <3>2, <3>4, <3>5
  <2>9. Answered' /\ call' \notin Calls
    BY <1>1 DEF Answered, Calls
  <2> QED
    BY <2>7, <2>8, <2>9 DEF TreeInv, Calls
<1>5. CASE freed' = freed \cup {root} /\ UNCHANGED pg
  <2>1. N' = N
    BY <1>5 DEF N
  <2>2. TreeKinds'
    BY <1>1, <1>2, <1>5, <2>1 DEF TreeKinds
  <2>3. Exact' /\ Answered' /\ call' \notin Calls
    BY <1>1, <1>2, <1>5 DEF Exact, Answered, Calls
  <2> QED
    BY <2>2, <2>3 DEF TreeInv, Calls
<1> QED
  BY <1>3, <1>4, <1>5 DEF SplitFails

LEMMA NextTreeInv == ASSUME TreeInv, [TreeNext]_treeVars PROVE TreeInv'
<1>1. cur \in DOMAIN pg \cup {None} /\ key \in Key \cup {NoKey} /\ (call \notin {"none", "wild"} => root # None)
  BY DEF TreeInv, TreeKinds
<1>2. CASE TreeCreate
  BY <1>2, CreatesTree
<1>3. CASE CreateFails
  BY <1>1, <1>3, CallEnds DEF CreateFails, Calls, losses
<1>4. CASE TreeDestroy
  BY <1>1, <1>4, CallEnds DEF TreeDestroy, Calls, tree, losses
<1>5. CASE Begin("search") \/ Begin("insert")
  BY <1>5, BeginsCall
<1>6. CASE Read
  BY <1>1, <1>6, CallEnds DEF Read, Calls, tree, losses
<1>7. CASE SearchPage
  BY <1>7, SearchesPage
<1>8. CASE InsertPage
  BY <1>8, InsertsPage
<1>9. CASE Touch
  BY <1>1, <1>9, CallEnds DEF Touch, Calls, tree, losses
<1>10. CASE Split
  BY <1>10, Splits
<1>11. CASE SplitFails
  BY <1>11, FailsToSplit
<1>12. CASE SplitUnmapped
  BY <1>1, <1>12, CallEnds DEF SplitUnmapped, Answer, Calls, tree, losses
<1>13. CASE UNCHANGED treeVars
  <2>1. UNCHANGED <<pg, root, freed, file, call, cur, key, keys, lossy>>
    BY <1>13 DEF treeVars, tree, losses
  <2>2. TreeKinds' /\ Exact'
    BY <1>1, <2>1, TreeKept
  <2>3. Answered' /\ (call' \in Calls => OnTheWay')
    BY <2>1 DEF TreeInv, Answered, OnTheWay, Calls
  <2> QED
    BY <2>2, <2>3 DEF TreeInv, Calls
<1> QED
  BY <1>2, <1>3, <1>4, <1>5, <1>6, <1>7, <1>8, <1>9, <1>10, <1>11, <1>12, <1>13
  DEF TreeNext, Continue

LEMMA TreeInvariant == TreeSpec => []TreeInv
<1>1. TreeInit => TreeInv
  BY InitTreeInv
<1>2. TreeInv /\ [TreeNext]_treeVars => TreeInv'
  BY NextTreeInv
<1> QED
  BY <1>1, <1>2, PTL DEF TreeSpec

LEMMA TreeInvAscends == TreeInv => Ascending
<1> SUFFICES ASSUME TreeInv PROVE Ascending
  OBVIOUS
<1>1. TreeKinds /\ DOMAIN pg \subseteq Page
  BY TreeIsTidy DEF TreeInv
<1>2. ASSUME NEW p \in DOMAIN pg
      PROVE  /\ pg[p].n_el \in 0..R /\ pg[p].parent \in Page \cup {None}
             /\ \A j \in 0..R : /\ pg[p].recs[j].key \in Key \cup {NoKey}
                                /\ pg[p].recs[j].off \in Page \cup {None}
  <2>1. pg[p] \in Pages(DOMAIN pg)
    BY <1>1 DEF TreeKinds
  <2> QED
    BY <1>1, <2>1 DEF Pages
<1>3. TreeTypeOK
  BY <1>1, <1>2 DEF TreeKinds, TreeTypeOK
<1>4. ASSUME NEW p \in DOMAIN pg, NEW j \in 0..(pg[p].n_el - 1)
      PROVE  pg[p].recs[j].key \in keys /\ (j > 0 => pg[p].recs[j - 1].key < pg[p].recs[j].key)
  <2>1. Sorted(pg[p]) /\ KeysOf(pg[p]) \subseteq keys
    BY <1>1 DEF TreeKinds
  <2>2. j > 0 => j - 1 \in 0..(j - 1)
    OBVIOUS
  <2> QED
    BY <2>1, <2>2 DEF Sorted, KeysOf
<1> QED
  BY <1>3, <1>4 DEF Ascending

\* In every page the keys ascend and are keys that were inserted, for any keys,
\* pages of any size and any failures: also in pages that a failed split left,
\* or that nothing leads to any more.
THEOREM PagesAscend == TreeSpec => []Ascending
<1>1. TreeInv => Ascending
  BY TreeInvAscends
<1> QED
  BY <1>1, TreeInvariant, PTL

\* What a search answers in a step is what it has answered after it.
LEMMA SearchAnswers == ASSUME TreeInv, SearchPage
                       PROVE  /\ key' = key /\ UNCHANGED <<keys, lossy>> /\ call' # "refused" /\ call' # "done"
                              \/ call' \notin {"found", "missing", "refused", "done"}
BY DEF SearchPage, Answer, GoTo, losses

\* A page of an insertion: it refuses what the page has, and takes what neither
\* the root nor the page below it has.
LEMMA InsertAnswers == ASSUME TreeInv, InsertPage
                       PROVE  /\ call' \notin {"found", "missing"}
                              /\ call' = "refused" => key \in keys
                              /\ call' = "done" /\ ~ lossy => key \notin keys
<1>1. call \in {"insert", "scan"} /\ call' \notin {"found", "missing"}
  BY DEF InsertPage, Answer, GoTo
<1>2. /\ cur \in DOMAIN pg /\ root \in DOMAIN pg /\ root # None /\ key \in Key /\ Tidy(pg)
      /\ KeysOf(pg[cur]) \subseteq keys
      /\ Has(pg[cur], key) <=> key \in KeysOf(pg[cur])
  BY <1>1, InsertsAt
<1>3. ASSUME call' = "refused" PROVE key \in keys
  <2>1. Has(pg[cur], key)
    BY <1>3 DEF InsertPage, Answer, GoTo
  <2> QED
    BY <1>2, <2>1
<1>4. ASSUME call' = "done", ~ lossy PROVE key \notin keys
  <2>1. ~ Has(pg[cur], key) /\ Way(pg[cur], key) = None
    BY <1>4 DEF InsertPage, Answer, GoTo
  <2>2. cur = root \/ (key \notin KeysOf(pg[root]) /\ cur = Way(pg[root], key))
    BY <1>1, <1>4, InsertsAt
  <2>3. key \notin KeysOf(pg[cur])
    BY <1>2, <2>1
  <2> QED
    BY <1>2, <1>4, <2>1, <2>2, <2>3, NotThere
<1> QED
  BY <1>1, <1>3, <1>4

\* A search finds and an insertion refuses only what was inserted; and until a
\* split has lost a page, a search misses none of that and an insertion takes
\* none of it a second time.  Nothing is said of a key that is missed after a
\* page was lost: which those are, a run shows.
ExactUntilLost ==
    [][/\ Answers({"found", "refused"}) => key \in keys
       /\ Answers({"missing", "done"}) /\ ~lossy => key \notin keys]_treeVars
THEOREM SearchesExactly == TreeSpec => ExactUntilLost
<1>1. ASSUME TreeInv, [TreeNext]_treeVars
      PROVE  [/\ Answers({"found", "refused"}) => key \in keys
              /\ Answers({"missing", "done"}) /\ ~lossy => key \notin keys]_treeVars
  <2>1. CASE SearchPage
    <3>1. Answered'
      BY <2>1, NextTreeInv, <1>1 DEF TreeInv
    <3> QED
      BY <1>1, <2>1, <3>1, SearchAnswers DEF Answered, Answers
  <2>2. CASE InsertPage
    BY <1>1, <2>2, InsertAnswers DEF Answers
  <2>3. CASE TreeCreate \/ CreateFails \/ TreeDestroy \/ Begin("search") \/ Begin("insert") \/ Read
    BY <2>3 DEF TreeCreate, CreateFails, TreeDestroy, Begin, Read, Answers, Calls
  <2>4. CASE Touch \/ Split \/ SplitFails \/ SplitUnmapped
    BY <2>4 DEF Touch, Split, SplitFails, SplitUnmapped, Answer, Answers
  <2> QED
    BY <1>1, <2>1, <2>2, <2>3, <2>4 DEF TreeNext, Continue
<1> QED
  BY <1>1, TreeInvariant, PTL DEF TreeSpec, ExactUntilLost
=============================================================================
