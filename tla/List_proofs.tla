----------------------------- MODULE List_proofs -----------------------------
(***************************************************************************)
(* Proofs about List, for every set of data, of nodes, and every comparer. *)
(***************************************************************************)
EXTENDS List, SequenceTheorems, TLAPS

USE NodeAssumption, DataAssumption, KeyAssumption

-----------------------------------------------------------------------------
(***************************************************************************)
(* What the operators on sequences do, element by element.                 *)
(***************************************************************************)
LEMMA InsertAtFacts ==
  ASSUME NEW S, NEW o \in Seq(S), NEW i \in 1..(Len(o) + 1), NEW x \in S
  PROVE  /\ InsertAt(o, i, x) \in Seq(S)
         /\ Len(InsertAt(o, i, x)) = Len(o) + 1
         /\ \A j \in 1..(Len(o) + 1) :
               InsertAt(o, i, x)[j] = IF j < i THEN o[j]
                                      ELSE IF j = i THEN x ELSE o[j - 1]
<1> DEFINE a == SubSeq(o, 1, i - 1)
           b == <<x>>
           c == SubSeq(o, i, Len(o))
<1>0. Len(o) \in Nat /\ \A j \in 1..Len(o) : o[j] \in S
  BY LenProperties, ElementOfSeq
<1>1. a \in Seq(S) /\ Len(a) = i - 1 /\ \A j \in 1..(i - 1) : a[j] = o[j]
  <2>1. /\ SubSeq(o, 1, i - 1) \in Seq(S)
        /\ Len(SubSeq(o, 1, i - 1)) = IF 1 <= i - 1 THEN i - 1 - 1 + 1 ELSE 0
        /\ \A j \in 1..(i - 1 - 1 + 1) : SubSeq(o, 1, i - 1)[j] = o[1 + j - 1]
    <3>1. i - 1 \in Int /\ 1 \in Int /\ \A j \in 1..(i - 1) : o[j] \in S
      BY <1>0
    <3> QED
      BY <3>1, SubSeqProperties
  <2> QED
    BY <2>1, <1>0
<1>2. b \in Seq(S) /\ Len(b) = 1 /\ b[1] = x
  OBVIOUS
<1>3. /\ c \in Seq(S) /\ Len(c) = Len(o) - i + 1
      /\ \A j \in 1..(Len(o) - i + 1) : c[j] = o[i + j - 1]
  <2>1. /\ SubSeq(o, i, Len(o)) \in Seq(S)
        /\ Len(SubSeq(o, i, Len(o))) = IF i <= Len(o) THEN Len(o) - i + 1 ELSE 0
        /\ \A j \in 1..(Len(o) - i + 1) : SubSeq(o, i, Len(o))[j] = o[i + j - 1]
    <3>1. i \in Int /\ Len(o) \in Int /\ \A j \in i..Len(o) : o[j] \in S
      BY <1>0
    <3> QED
      BY <3>1, SubSeqProperties
  <2> QED
    BY <2>1, <1>0
<1> HIDE DEF a, b, c
<1>4. /\ a \o b \in Seq(S) /\ Len(a \o b) = i
      /\ \A j \in 1..i : (a \o b)[j] = IF j <= i - 1 THEN a[j] ELSE b[j - (i - 1)]
  <2>1. /\ a \o b \in Seq(S) /\ Len(a \o b) = Len(a) + Len(b)
        /\ \A j \in 1..(Len(a) + Len(b)) :
              (a \o b)[j] = IF j <= Len(a) THEN a[j] ELSE b[j - Len(a)]
    BY ZenonT(30), <1>1, <1>2, ConcatProperties
  <2> QED
    BY <2>1, <1>1, <1>2
<1>5. /\ (a \o b) \o c \in Seq(S) /\ Len((a \o b) \o c) = Len(o) + 1
      /\ \A j \in 1..(Len(o) + 1) :
            ((a \o b) \o c)[j] = IF j <= i THEN (a \o b)[j] ELSE c[j - i]
  <2>1. /\ (a \o b) \o c \in Seq(S) /\ Len((a \o b) \o c) = Len(a \o b) + Len(c)
        /\ \A j \in 1..(Len(a \o b) + Len(c)) :
              ((a \o b) \o c)[j] =
                 IF j <= Len(a \o b) THEN (a \o b)[j] ELSE c[j - Len(a \o b)]
    <3> DEFINE ab == a \o b
    <3>1. ab \in Seq(S) /\ c \in Seq(S)
      BY <1>3, <1>4
    <3> HIDE DEF ab
    <3>2. /\ ab \o c \in Seq(S) /\ Len(ab \o c) = Len(ab) + Len(c)
          /\ \A j \in 1..(Len(ab) + Len(c)) :
                (ab \o c)[j] = IF j <= Len(ab) THEN ab[j] ELSE c[j - Len(ab)]
      BY <3>1, ConcatProperties
    <3> QED
      BY <3>2 DEF ab
  <2> QED
    BY <2>1, <1>3, <1>4, <1>0
<1>6. InsertAt(o, i, x) = (a \o b) \o c
  BY DEF InsertAt, a, b, c
<1>7. ASSUME NEW j \in 1..(Len(o) + 1)
      PROVE  ((a \o b) \o c)[j] = IF j < i THEN o[j] ELSE IF j = i THEN x ELSE o[j - 1]
  <2>1. CASE j < i
    BY <2>1, <1>0, <1>1, <1>4, <1>5
  <2>2. CASE j = i
    <3>1. j \in 1..i /\ ~(j <= i - 1) /\ j - (i - 1) = 1 /\ j <= i
      BY <2>2, <1>0
    <3>2. ((a \o b) \o c)[j] = (a \o b)[j]
      BY <3>1, <1>5
    <3>3. (a \o b)[j] = b[j - (i - 1)]
      BY <3>1, <1>4
    <3> QED
      BY <2>2, <3>1, <3>2, <3>3, <1>2
  <2>3. CASE j > i
    <3>1. /\ j - i \in 1..(Len(o) - i + 1) /\ i + (j - i) - 1 = j - 1
          /\ ~(j <= i) /\ ~(j < i) /\ j # i
      BY <2>3, <1>0
    <3>2. ((a \o b) \o c)[j] = c[j - i]
      BY <3>1, <1>5
    <3>3. c[j - i] = o[j - 1]
      BY <3>1, <1>3
    <3> QED
      BY <3>1, <3>2, <3>3
  <2> QED
    <3>1. j < i \/ j = i \/ j > i
      BY <1>0
    <3> QED
      BY <2>1, <2>2, <2>3, <3>1
<1> QED
  BY <1>5, <1>6, <1>7

\* Removing a place of a sequence moves those after it down by one.
LEMMA RemoveAtFacts ==
  ASSUME NEW S, NEW o \in Seq(S), NEW i \in 1..Len(o)
  PROVE  /\ RemoveAt(o, i) \in Seq(S)
         /\ Len(RemoveAt(o, i)) = Len(o) - 1
         /\ \A j \in 1..(Len(o) - 1) :
               RemoveAt(o, i)[j] = IF j < i THEN o[j] ELSE o[j + 1]
<1> DEFINE a == SubSeq(o, 1, i - 1)
           c == SubSeq(o, i + 1, Len(o))
<1>0. Len(o) \in Nat /\ \A j \in 1..Len(o) : o[j] \in S
  BY LenProperties, ElementOfSeq
<1>1. a \in Seq(S) /\ Len(a) = i - 1 /\ \A j \in 1..(i - 1) : a[j] = o[j]
  <2>1. /\ SubSeq(o, 1, i - 1) \in Seq(S)
        /\ Len(SubSeq(o, 1, i - 1)) = IF 1 <= i - 1 THEN i - 1 - 1 + 1 ELSE 0
        /\ \A j \in 1..(i - 1 - 1 + 1) : SubSeq(o, 1, i - 1)[j] = o[1 + j - 1]
    <3>1. i - 1 \in Int /\ 1 \in Int /\ \A j \in 1..(i - 1) : o[j] \in S
      BY <1>0
    <3> QED
      BY <3>1, SubSeqProperties
  <2> QED
    BY <2>1, <1>0
<1>3. /\ c \in Seq(S) /\ Len(c) = Len(o) - i
      /\ \A j \in 1..(Len(o) - i) : c[j] = o[i + j]
  <2>1. /\ SubSeq(o, i + 1, Len(o)) \in Seq(S)
        /\ Len(SubSeq(o, i + 1, Len(o))) =
              IF i + 1 <= Len(o) THEN Len(o) - (i + 1) + 1 ELSE 0
        /\ \A j \in 1..(Len(o) - (i + 1) + 1) :
              SubSeq(o, i + 1, Len(o))[j] = o[(i + 1) + j - 1]
    <3>1. i + 1 \in Int /\ Len(o) \in Int /\ \A j \in (i + 1)..Len(o) : o[j] \in S
      BY <1>0
    <3> QED
      BY <3>1, SubSeqProperties
  <2>2. \A j \in Int : (i + 1) + j - 1 = i + j
    BY <1>0
  <2> QED
    BY <2>1, <2>2, <1>0
<1> HIDE DEF a, c
<1>5. /\ a \o c \in Seq(S) /\ Len(a \o c) = Len(o) - 1
      /\ \A j \in 1..(Len(o) - 1) :
            (a \o c)[j] = IF j <= i - 1 THEN a[j] ELSE c[j - (i - 1)]
  <2>1. /\ a \o c \in Seq(S) /\ Len(a \o c) = Len(a) + Len(c)
        /\ \A j \in 1..(Len(a) + Len(c)) :
              (a \o c)[j] = IF j <= Len(a) THEN a[j] ELSE c[j - Len(a)]
    BY <1>1, <1>3, ConcatProperties
  <2> QED
    BY <2>1, <1>1, <1>3, <1>0
<1>6. RemoveAt(o, i) = a \o c
  BY DEF RemoveAt, a, c
<1>7. ASSUME NEW j \in 1..(Len(o) - 1)
      PROVE  (a \o c)[j] = IF j < i THEN o[j] ELSE o[j + 1]
  <2>1. CASE j < i
    BY <2>1, <1>0, <1>1, <1>5
  <2>3. CASE ~(j < i)
    <3>1. j - (i - 1) \in 1..(Len(o) - i) /\ i + (j - (i - 1)) = j + 1
      BY <2>3, <1>0
    <3> QED
      BY <2>3, <3>1, <1>0, <1>3, <1>5
  <2> QED
    BY <2>1, <2>3
<1> QED
  BY <1>5, <1>6, <1>7

\* An element put in front moves all others up by one.
LEMMA ConsFacts ==
  ASSUME NEW S, NEW o \in Seq(S), NEW x \in S
  PROVE  /\ <<x>> \o o \in Seq(S)
         /\ Len(<<x>> \o o) = Len(o) + 1
         /\ \A j \in 1..(Len(o) + 1) :
               (<<x>> \o o)[j] = IF j = 1 THEN x ELSE o[j - 1]
<1>0. Len(o) \in Nat
  BY LenProperties
<1>1. <<x>> \in Seq(S) /\ Len(<<x>>) = 1 /\ <<x>>[1] = x
  OBVIOUS
<1>2. /\ <<x>> \o o \in Seq(S)
      /\ Len(<<x>> \o o) = Len(<<x>>) + Len(o)
      /\ \A j \in 1..(Len(<<x>>) + Len(o)) :
            (<<x>> \o o)[j] = IF j <= Len(<<x>>) THEN <<x>>[j] ELSE o[j - Len(<<x>>)]
  BY <1>1, ConcatProperties
<1> QED
  BY <1>0, <1>1, <1>2

-----------------------------------------------------------------------------
(***************************************************************************)
(* The pointers of a list that is not being deleted.                       *)
(***************************************************************************)
Typed == /\ {head, tail} \subseteq Node \cup {Null}
         /\ nelems \in Nat
         /\ next \in [Node -> Node \cup {Null, Junk}]
         /\ prev \in [Node -> Node \cup {Null, Junk}]
         /\ data \in [Node -> Data \cup {Junk}]
         /\ alive \subseteq Node
         /\ order \in Seq(Node)

Threaded == /\ \A i, j \in 1..Len(order) : order[i] = order[j] => i = j
            /\ \A i \in 1..Len(order) : next[order[i]] = NextOf(i)
            /\ nelems = Len(order)
            /\ head = NextOf(0)
            /\ tail = PrevOf(Len(order) + 1)
            /\ \A i \in 1..Len(order) : prev[order[i]] = PrevOf(i)

OrderFacts ==
    /\ Len(order) \in Nat
    /\ DOMAIN order = 1..Len(order)
    /\ \A i \in 1..Len(order) : order[i] \in Node /\ order[i] # Null
    /\ \A x : x \in ToSet(order) <=> \E i \in 1..Len(order) : order[i] = x
    /\ order = << >> <=> Len(order) = 0

\* Each place of the order holds an element.
LEMMA OrderHas == order \in Seq(Node) => OrderFacts
<1> SUFFICES ASSUME order \in Seq(Node) PROVE OrderFacts
  OBVIOUS
<1>1. Len(order) \in Nat /\ DOMAIN order = 1..Len(order)
  BY LenProperties
<1>2. \A i \in 1..Len(order) : order[i] \in Node /\ order[i] # Null
  BY ElementOfSeq
<1>3. \A x : x \in ToSet(order) <=> \E i \in 1..Len(order) : order[i] = x
  BY <1>1 DEF ToSet
<1>4. order = << >> <=> Len(order) = 0
  BY EmptySeq
<1> QED
  BY <1>1, <1>2, <1>3, <1>4 DEF OrderFacts

\* The same after a step.
LEMMA OrderHasNext == order' \in Seq(Node) => OrderFacts'
<1> DEFINE OrderSeq == order \in Seq(Node)
<1>1. OrderSeq => OrderFacts
  BY OrderHas
<1> HIDE DEF OrderSeq
<1>2. OrderSeq' => OrderFacts'
  BY <1>1, PTL
<1> QED
  BY <1>2 DEF OrderSeq

\* A place before or after a place of the list is in the list, or NULL.
LEMMA Neighbours ==
  ASSUME order \in Seq(Node)
  PROVE  /\ \A i \in 0..Len(order) : NextOf(i) \in ToSet(order) \cup {Null}
         /\ \A i \in 1..(Len(order) + 1) : PrevOf(i) \in ToSet(order) \cup {Null}
BY OrderHas DEF OrderFacts, NextOf, PrevOf

\* The place of an element of the order is one where it stands.
LEMMA PlaceInOrder ==
  ASSUME order \in Seq(Node), NEW e \in ToSet(order)
  PROVE  PlaceOf(e) \in 1..Len(order) /\ order[PlaceOf(e)] = e
BY OrderHas DEF OrderFacts, PlaceOf

Distinct == \A i, j \in 1..Len(order) : order[i] = order[j] => i = j

\* order' has n at place k, and nothing else is new.
Inserted(n, k) ==
    /\ order' \in Seq(Node) /\ Len(order') = Len(order) + 1
    /\ \A j \in 1..(Len(order) + 1) :
          order'[j] = IF j < k THEN order[j]
                      ELSE IF j = k THEN n ELSE order[j - 1]

\* Inserting a new element keeps elements distinct.
LEMMA InsertedKeeps ==
  ASSUME order \in Seq(Node), Distinct, NEW n \in Node, n \notin ToSet(order),
         NEW k \in 1..(Len(order) + 1), Inserted(n, k)
  PROVE  /\ ToSet(order') = ToSet(order) \cup {n}
         /\ Distinct'
<1>1. OrderFacts /\ OrderFacts'
  BY OrderHas, OrderHasNext DEF Inserted
<1>2. \A i \in 1..Len(order) : order[i] # n
  BY <1>1 DEF OrderFacts
<1>3. ASSUME NEW x \in ToSet(order') PROVE x \in ToSet(order) \cup {n}
  <2>1. PICK j \in 1..Len(order') : order'[j] = x
    BY <1>1 DEF OrderFacts
  <2>2. CASE j = k
    BY <2>1, <2>2, <1>1 DEF Inserted, OrderFacts
  <2>3. CASE j # k
    <3>1. \E i \in 1..Len(order) : order[i] = x
      BY SMTT(30), <2>1, <2>3, <1>1 DEF Inserted, OrderFacts
    <3> QED
      BY <3>1, <1>1 DEF OrderFacts
  <2> QED
    BY <2>2, <2>3
<1>4. n \in ToSet(order')
  <2>1. k \in 1..Len(order') /\ order'[k] = n
    BY <1>1 DEF Inserted, OrderFacts
  <2> QED
    BY <2>1, <1>1 DEF OrderFacts
<1>5. ASSUME NEW x \in ToSet(order) PROVE x \in ToSet(order')
  <2>1. PICK i \in 1..Len(order) : order[i] = x
    BY <1>1 DEF OrderFacts
  <2>2. \E j \in 1..Len(order') : order'[j] = x
    <3>1. CASE i < k
      BY <2>1, <3>1, <1>1 DEF Inserted, OrderFacts
    <3>2. CASE i >= k
      <4>1. i + 1 \in 1..Len(order') /\ order'[i + 1] = x
        BY <2>1, <3>2, <1>1 DEF Inserted, OrderFacts
      <4> QED
        BY <4>1
    <3> QED
      BY <3>1, <3>2, <1>1 DEF OrderFacts
  <2> QED
    BY <2>2, <1>1 DEF OrderFacts
<1>6. Distinct'
  <2> SUFFICES ASSUME NEW i \in 1..Len(order'), NEW j \in 1..Len(order'),
                      order'[i] = order'[j]
               PROVE  i = j
    BY DEF Distinct
  <2> QED
    BY <1>1, <1>2 DEF Distinct, Inserted, OrderFacts
<1> QED
  BY <1>3, <1>4, <1>5, <1>6

\* A new element in front keeps the links along the order.
LEMMA PrependKeeps ==
  ASSUME Typed, Threaded, NEW n \in Node, n \notin ToSet(order),
         NEW d \in Data, Prepend(n, d)
  PROVE  /\ Typed' /\ Threaded'
         /\ ToSet(order') = ToSet(order) \cup {n}
<1>0. Len(order) \in Nat /\ 1 \in 1..(Len(order) + 1)
  BY LenProperties DEF Typed
<1>1. Inserted(n, 1)
  <2>1. /\ <<n>> \o order \in Seq(Node) /\ Len(<<n>> \o order) = Len(order) + 1
        /\ \A j \in 1..(Len(order) + 1) :
              (<<n>> \o order)[j] = IF j = 1 THEN n ELSE order[j - 1]
    BY ConsFacts DEF Typed
  <2>2. order' = <<n>> \o order
    BY DEF Prepend
  <2> QED
    BY <2>1, <2>2, <1>0 DEF Inserted
<1>2. /\ Len(order) \in Nat
      /\ \A i \in 1..Len(order) : order[i] \in Node /\ order[i] # Null /\ order[i] # n
  BY OrderHas DEF OrderFacts, Typed
<1>3. Typed'
  <2>1. order' \in Seq(Node) /\ nelems' \in Nat /\ alive' \subseteq Node
    BY <1>1 DEF Inserted, Typed, Prepend, Counted
  <2>2. {head', tail'} \subseteq Node \cup {Null}
    BY DEF Typed, Prepend
  <2>3. /\ next' \in [Node -> Node \cup {Null, Junk}]
        /\ data' \in [Node -> Data \cup {Junk}]
    BY DEF Typed, Prepend
  <2>4. prev' \in [Node -> Node \cup {Null, Junk}]
    BY DEF Typed, Prepend
  <2> QED
    BY <2>1, <2>2, <2>3, <2>4 DEF Typed
<1>4. ToSet(order') = ToSet(order) \cup {n} /\ Distinct'
  BY <1>0, <1>1, InsertedKeeps DEF Typed, Threaded, Distinct
<1>6. nelems' = Len(order') /\ head' = NextOf(0)'
  BY <1>1, <1>2 DEF Threaded, NextOf, Prepend, Counted, Inserted
<1>7. tail' = PrevOf(Len(order) + 1)'
  BY <1>1, <1>2 DEF Threaded, PrevOf, Prepend, Inserted
<1>8. ASSUME NEW i \in 1..Len(order') PROVE next'[order'[i]] = NextOf(i)'
  <2>1. CASE i = 1
    BY <2>1, <1>1, <1>2 DEF Threaded, NextOf, Prepend, Typed, Inserted
  <2>2. CASE i > 1
    <3>1. i - 1 \in 1..Len(order) /\ order'[i] = order[i - 1]
      BY <2>2, <1>1, <1>2 DEF Inserted
    <3>2. next'[order'[i]] = next[order[i - 1]]
      BY <3>1, <1>2 DEF Prepend, Typed
    <3>3. next[order[i - 1]] = NextOf(i - 1)
      BY <3>1 DEF Threaded
    <3> QED
      BY <2>2, <3>1, <3>2, <3>3, <1>1, <1>2 DEF NextOf, Inserted
  <2> QED
    BY <2>1, <2>2, <1>1, <1>2 DEF Inserted
<1>9. ASSUME NEW i \in 1..Len(order') PROVE prev'[order'[i]] = PrevOf(i)'
  <2>1. CASE i = 1
    BY <2>1, <1>1, <1>2 DEF Threaded, PrevOf, NextOf, Prepend, Typed, Inserted
  <2>2. CASE i > 1
    <3>1. i - 1 \in 1..Len(order) /\ order'[i] = order[i - 1]
      BY <2>2, <1>1, <1>2 DEF Inserted
    <3>2. head = order[1]
      BY <3>1, <1>2 DEF Threaded, NextOf
    <3>3. CASE i = 2
      BY <2>2, <3>1, <3>2, <3>3, <1>1, <1>2 DEF Prepend, Typed, PrevOf, Inserted
    <3>4. CASE i > 2
      <4>1. order[i - 1] # order[1] /\ PrevOf(i - 1) = order[i - 2]
        BY <3>1, <3>4, <1>2 DEF Threaded, PrevOf
      <4>2. prev'[order'[i]] = order[i - 2]
        BY <3>1, <3>2, <4>1, <1>2 DEF Prepend, Typed, Threaded
      <4> QED
        BY <3>4, <4>2, <1>1, <1>2 DEF PrevOf, Inserted
    <3> QED
      BY <2>2, <3>3, <3>4, <1>1, <1>2 DEF Inserted
  <2> QED
    BY <2>1, <2>2, <1>1, <1>2 DEF Inserted
<1> QED
  BY <1>1, <1>3, <1>4, <1>6, <1>7, <1>8, <1>9 DEF Threaded, Distinct, Inserted

\* A new element before another keeps the links along the order.
LEMMA InsertHereKeeps ==
  ASSUME Typed, Threaded, order # << >>, nu \in Node, nu \notin ToSet(order),
         p \in ToSet(order) \cup {Null}, InsertHere
  PROVE  /\ Typed' /\ Threaded'
         /\ ToSet(order') = ToSet(order) \cup {nu}
<1> DEFINE k == PlaceOf(p)
<1>0. /\ Len(order) \in Nat /\ Len(order) > 0
      /\ \A i \in 1..Len(order) : order[i] \in Node /\ order[i] # Null /\ order[i] # nu
  BY OrderHas DEF OrderFacts, Typed
<1>1. /\ k \in 1..(Len(order) + 1)
      /\ p = Null => k = Len(order) + 1
      /\ p # Null => k \in 1..Len(order) /\ order[k] = p /\ p \in Node
      /\ nu # Null
  <2>1. CASE p = Null
    BY <2>1, <1>0 DEF PlaceOf
  <2>2. CASE p # Null
    <3>1. k \in 1..Len(order) /\ order[k] = p
      BY <2>2, PlaceInOrder DEF Typed
    <3> QED
      BY <2>2, <3>1, <1>0
  <2> QED
    BY <2>1, <2>2
<1> HIDE DEF k
<1>2. Inserted(nu, k)
  <2>1. order' = InsertAt(order, k, nu)
    BY DEF InsertHere, k
  <2>2. /\ InsertAt(order, k, nu) \in Seq(Node)
        /\ Len(InsertAt(order, k, nu)) = Len(order) + 1
        /\ \A j \in 1..(Len(order) + 1) :
              InsertAt(order, k, nu)[j] = IF j < k THEN order[j]
                                          ELSE IF j = k THEN nu ELSE order[j - 1]
    BY <1>1, InsertAtFacts DEF Typed
  <2> QED
    BY <2>1, <2>2 DEF Inserted
<1>3. ToSet(order') = ToSet(order) \cup {nu} /\ Distinct'
  BY <1>1, <1>2, InsertedKeeps DEF Typed, Threaded, Distinct
<1>4. head = order[1] /\ tail = order[Len(order)]
  BY <1>0 DEF Threaded, NextOf, PrevOf
<1>5. p = head <=> k = 1
  BY <1>0, <1>1, <1>4 DEF Threaded
<1>6. p # Null => prev[p] = PrevOf(k)
  BY <1>1 DEF Threaded
<1>7. /\ head' = IF k = 1 THEN nu ELSE head
      /\ tail' = IF k = Len(order) + 1 THEN nu ELSE tail
  BY <1>0, <1>1, <1>4, <1>5 DEF InsertHere
<1>8. \A x \in Node : next'[x] = IF x = nu THEN p
                                 ELSE IF k > 1 /\ x = order[k - 1] THEN nu
                                 ELSE next[x]
  <2>1. CASE p = Null
    BY <2>1, <1>0, <1>1, <1>4 DEF InsertHere, Typed
  <2>2. CASE p = head
    BY <2>2, <1>0, <1>1, <1>4, <1>5 DEF InsertHere, Typed
  <2>3. CASE p \notin {Null, head}
    <3>1. /\ prev[p] = order[k - 1] /\ prev[p] # Null /\ prev[p] # nu
          /\ prev[p] \in Node /\ k > 1
      BY <2>3, <1>0, <1>1, <1>5, <1>6 DEF PrevOf
    <3>2. next' = [next EXCEPT ![prev[p]] = nu, ![nu] = p]
      BY <2>3, <3>1 DEF InsertHere
    <3> QED
      BY <3>1, <3>2 DEF Typed
  <2> QED
    BY <2>1, <2>2, <2>3
<1>9. \A x \in Node : prev'[x] = IF x = nu THEN PrevOf(k)
                                 ELSE IF x = p THEN nu
                                 ELSE prev[x]
  <2>1. CASE p = Null
    BY <2>1, <1>0, <1>1, <1>4 DEF InsertHere, Typed, PrevOf
  <2>2. CASE p = head
    <3>1. prev' = [prev EXCEPT ![nu] = Null, ![head] = nu]
      BY <2>2, <1>0, <1>4 DEF InsertHere
    <3> QED
      BY <2>2, <3>1, <1>0, <1>1, <1>4, <1>5 DEF Typed, PrevOf
  <2>3. CASE p \notin {Null, head}
    BY <2>3, <1>0, <1>1, <1>6 DEF InsertHere, Typed
  <2> QED
    BY <2>1, <2>2, <2>3
<1>10. Typed'
  <2>1. order' \in Seq(Node) /\ nelems' \in Nat /\ alive' \subseteq Node
    BY <1>2 DEF Inserted, Typed, InsertHere, Counted
  <2>2. {head', tail'} \subseteq Node \cup {Null}
    BY <1>7 DEF Typed
  <2>3. data' \in [Node -> Data \cup {Junk}]
    BY DEF Typed, InsertHere
  <2>4. next' \in [Node -> Node \cup {Null, Junk}]
    <3>1. CASE p = Null
      BY <3>1, <1>0, <1>1 DEF InsertHere, Typed
    <3>2. CASE p = head
      BY <3>2, <1>0, <1>1, <1>4 DEF InsertHere, Typed
    <3>3. CASE p \notin {Null, head}
      <4>1. prev[p] = order[k - 1] /\ prev[p] # Null
        BY <3>3, <1>0, <1>1, <1>5, <1>6 DEF PrevOf
      <4>2. next' = [next EXCEPT ![prev[p]] = nu, ![nu] = p]
        BY <3>3, <4>1 DEF InsertHere
      <4>3. nu \in Node /\ p \in Node
        BY <3>3, <1>0, <1>1
      <4> QED
        BY <4>2, <4>3 DEF Typed
    <3> QED
      BY <3>1, <3>2, <3>3
  <2>5. prev' \in [Node -> Node \cup {Null, Junk}]
    <3>1. CASE p = Null
      BY <3>1, <1>0, <1>1 DEF InsertHere, Typed
    <3>2. CASE p = head
      BY <3>2, <1>0, <1>1, <1>4 DEF InsertHere, Typed
    <3>3. CASE p \notin {Null, head}
      BY <3>3, <1>1 DEF InsertHere, Typed
    <3> QED
      BY <3>1, <3>2, <3>3
  <2> QED
    BY <2>1, <2>2, <2>3, <2>4, <2>5 DEF Typed
<1>11. nelems' = Len(order') /\ head' = NextOf(0)'
  BY <1>0, <1>1, <1>2, <1>4, <1>7 DEF Threaded, NextOf, InsertHere, Counted, Inserted
<1>12. tail' = PrevOf(Len(order) + 1)'
  <2>1. Len(order) + 1 = Len(order') /\ PrevOf(Len(order) + 1)' = order'[Len(order) + 1]
    BY <1>0, <1>2 DEF PrevOf, Inserted
  <2>2. order'[Len(order) + 1] = IF k = Len(order) + 1 THEN nu ELSE order[Len(order)]
    BY <1>0, <1>1, <1>2 DEF Inserted
  <2> QED
    BY <2>1, <2>2, <1>4, <1>7
<1>13. ASSUME NEW i \in 1..Len(order') PROVE next'[order'[i]] = NextOf(i)'
  <2>1. CASE i < k - 1
    <3>1. /\ i \in 1..Len(order) /\ order'[i] = order[i] /\ k - 1 \in 1..Len(order)
          /\ order[i] # order[k - 1] /\ NextOf(i) = order[i + 1]
          /\ NextOf(i)' = order[i + 1]
      BY <2>1, <1>0, <1>1, <1>2 DEF Threaded, Inserted, NextOf
    <3> QED
      BY <3>1, <1>0, <1>8 DEF Threaded
  <2>2. CASE i = k - 1
    <3>1. order'[i] = order[k - 1] /\ NextOf(i)' = nu /\ k > 1 /\ i \in 1..Len(order)
      BY <2>2, <1>0, <1>1, <1>2 DEF Inserted, NextOf
    <3> QED
      BY <2>2, <3>1, <1>0, <1>8
  <2>3. CASE i = k
    BY <2>3, <1>0, <1>1, <1>2, <1>8 DEF Inserted, NextOf
  <2>4. CASE i > k
    <3>1. i - 1 \in 1..Len(order) /\ order'[i] = order[i - 1]
      BY <2>4, <1>0, <1>1, <1>2 DEF Inserted
    <3>2. k > 1 => order[i - 1] # order[k - 1]
      BY <2>4, <3>1, <1>0, <1>1 DEF Threaded
    <3>3. next'[order'[i]] = NextOf(i - 1)
      BY <3>1, <3>2, <1>0, <1>8 DEF Threaded
    <3> QED
      BY <2>4, <3>1, <3>3, <1>0, <1>1, <1>2 DEF Inserted, NextOf
  <2> QED
    BY <2>1, <2>2, <2>3, <2>4, <1>0, <1>1, <1>2 DEF Inserted
<1>14. ASSUME NEW i \in 1..Len(order') PROVE prev'[order'[i]] = PrevOf(i)'
  <2>1. CASE i < k
    <3>1. /\ i \in 1..Len(order) /\ order'[i] = order[i] /\ order[i] # p
          /\ PrevOf(i)' = PrevOf(i)
      BY <2>1, <1>0, <1>1, <1>2 DEF Threaded, Inserted, PrevOf
    <3> QED
      BY <3>1, <1>0, <1>9 DEF Threaded
  <2>2. CASE i = k
    BY <2>2, <1>0, <1>1, <1>2, <1>9 DEF Inserted, PrevOf
  <2>3. CASE i = k + 1
    <3>1. order'[i] = order[k] /\ PrevOf(i)' = nu /\ p # Null /\ k \in 1..Len(order)
      BY <2>3, <1>0, <1>1, <1>2 DEF Inserted, PrevOf
    <3> QED
      BY <3>1, <1>0, <1>1, <1>9
  <2>4. CASE i > k + 1
    <3>1. /\ i - 1 \in 1..Len(order) /\ order'[i] = order[i - 1]
          /\ PrevOf(i)' = order[i - 2] /\ PrevOf(i - 1) = order[i - 2]
      BY <2>4, <1>0, <1>1, <1>2 DEF Inserted, PrevOf
    <3>2. order[i - 1] # p
      BY <2>4, <3>1, <1>0, <1>1 DEF Threaded
    <3> QED
      BY <3>1, <3>2, <1>0, <1>9 DEF Threaded
  <2> QED
    BY <2>1, <2>2, <2>3, <2>4, <1>0, <1>1, <1>2 DEF Inserted
<1> QED
  BY <1>2, <1>3, <1>10, <1>11, <1>12, <1>13, <1>14 DEF Threaded, Distinct, Inserted

\* order' is order without its place k.
Removed(k) ==
    /\ order' \in Seq(Node) /\ Len(order') = Len(order) - 1
    /\ \A j \in 1..(Len(order) - 1) :
          order'[j] = IF j < k THEN order[j] ELSE order[j + 1]

\* Removing an element keeps the others distinct.
LEMMA RemovedKeeps ==
  ASSUME order \in Seq(Node), Distinct, NEW k \in 1..Len(order), Removed(k)
  PROVE  /\ ToSet(order') = ToSet(order) \ {order[k]}
         /\ Distinct'
<1>1. OrderFacts /\ OrderFacts'
  BY OrderHas, OrderHasNext DEF Removed
<1>2. ASSUME NEW x \in ToSet(order') PROVE x \in ToSet(order) \ {order[k]}
  <2>1. PICK j \in 1..Len(order') : order'[j] = x
    BY <1>1 DEF OrderFacts
  <2>2. \E i \in 1..Len(order) : i # k /\ order[i] = x
    <3>1. CASE j < k
      BY <2>1, <3>1, <1>1 DEF Removed, OrderFacts
    <3>2. CASE ~(j < k)
      <4>1. j + 1 \in 1..Len(order) /\ j + 1 # k /\ order[j + 1] = x
        BY <2>1, <3>2, <1>1 DEF Removed, OrderFacts
      <4> QED
        BY <4>1
    <3> QED
      BY <3>1, <3>2
  <2> QED
    BY <2>2, <1>1 DEF OrderFacts, Distinct
<1>3. ASSUME NEW x \in ToSet(order) \ {order[k]} PROVE x \in ToSet(order')
  <2>1. PICK i \in 1..Len(order) : order[i] = x /\ i # k
    BY <1>1 DEF OrderFacts
  <2>2. \E j \in 1..Len(order') : order'[j] = x
    <3>1. CASE i < k
      BY <2>1, <3>1, <1>1 DEF Removed, OrderFacts
    <3>2. CASE i > k
      <4>1. i - 1 \in 1..Len(order') /\ order'[i - 1] = x
        BY <2>1, <3>2, <1>1 DEF Removed, OrderFacts
      <4> QED
        BY <4>1
    <3> QED
      BY <2>1, <3>1, <3>2, <1>1 DEF OrderFacts
  <2> QED
    BY <2>2, <1>1 DEF OrderFacts
<1>4. Distinct'
  <2> SUFFICES ASSUME NEW i \in 1..Len(order'), NEW j \in 1..Len(order'),
                      order'[i] = order'[j]
               PROVE  i = j
    BY DEF Distinct
  <2> QED
    BY SMTT(30), <1>1 DEF Distinct, Removed, OrderFacts
<1> QED
  BY <1>2, <1>3, <1>4

\* Unlinking an element keeps the links along what is left.
LEMMA UnlinkKeeps ==
  ASSUME Typed, Threaded, NEW e \in ToSet(order), Unlink(e)
  PROVE  /\ Typed' /\ Threaded'
         /\ ToSet(order') = ToSet(order) \ {e}
<1> DEFINE k == PlaceOf(e)
<1>0. /\ Len(order) \in Nat
      /\ \A i \in 1..Len(order) : order[i] \in Node /\ order[i] # Null
  BY OrderHas DEF OrderFacts, Typed
<1>1. k \in 1..Len(order) /\ order[k] = e
  BY PlaceInOrder DEF Typed
<1> HIDE DEF k
<1>2. e \in Node /\ e # Null /\ Len(order) > 0
  BY <1>0, <1>1
<1>3. Removed(k)
  <2>1. order' = RemoveAt(order, k)
    BY DEF Unlink, k
  <2>2. /\ RemoveAt(order, k) \in Seq(Node)
        /\ Len(RemoveAt(order, k)) = Len(order) - 1
        /\ \A j \in 1..(Len(order) - 1) :
              RemoveAt(order, k)[j] = IF j < k THEN order[j] ELSE order[j + 1]
    BY ZenonT(30), <1>1, RemoveAtFacts DEF Typed
  <2> QED
    BY <2>1, <2>2 DEF Removed
<1>4. ToSet(order') = ToSet(order) \ {e} /\ Distinct'
  BY <1>1, <1>3, RemovedKeeps DEF Typed, Threaded, Distinct
<1>5. head = order[1] /\ tail = order[Len(order)]
  BY <1>0, <1>2 DEF Threaded, NextOf, PrevOf
<1>6. next[e] = NextOf(k) /\ prev[e] = PrevOf(k)
  BY <1>1 DEF Threaded
<1>7. /\ NextOf(k) # Null <=> k < Len(order)
      /\ PrevOf(k) # Null <=> k > 1
      /\ k > 1 => PrevOf(k) = order[k - 1] /\ order[k - 1] # e
      /\ k < Len(order) => NextOf(k) = order[k + 1] /\ order[k + 1] # e
  BY <1>0, <1>1 DEF NextOf, PrevOf, Threaded
<1>8. /\ head = e <=> k = 1
      /\ tail = e <=> k = Len(order)
  BY <1>0, <1>1, <1>5 DEF Threaded
<1>9. \A x \in Node : next'[x] = IF x = e THEN Junk
                                 ELSE IF k > 1 /\ x = order[k - 1] THEN NextOf(k)
                                 ELSE next[x]
  <2>1. CASE k = 1
    <3>1. next' = [next EXCEPT ![e] = Junk]
      BY <2>1, <1>6, <1>7 DEF Unlink, Free
    <3> QED
      BY <2>1, <3>1, <1>2 DEF Typed
  <2>2. CASE k > 1
    <3>1. next' = [[next EXCEPT ![order[k - 1]] = NextOf(k)] EXCEPT ![e] = Junk]
      BY <2>2, <1>6, <1>7 DEF Unlink, Free
    <3>2. order[k - 1] \in Node /\ order[k - 1] # e
      BY <2>2, <1>0, <1>1, <1>7
    <3> QED
      BY <2>2, <3>1, <3>2, <1>2 DEF Typed
  <2> QED
    BY <2>1, <2>2, <1>1, <1>0
<1>10. \A x \in Node : prev'[x] = IF x = e THEN Junk
                                  ELSE IF k < Len(order) /\ x = order[k + 1] THEN PrevOf(k)
                                  ELSE prev[x]
  <2>1. CASE k = Len(order)
    <3>1. next[e] = Null
      BY <2>1, <1>0, <1>6, <1>7
    <3>2. prev' = [prev EXCEPT ![e] = Junk]
      BY <3>1 DEF Unlink, Free
    <3> QED
      BY <2>1, <3>2, <1>0, <1>2 DEF Typed
  <2>2. CASE k < Len(order)
    <3>1. prev' = [[prev EXCEPT ![order[k + 1]] = PrevOf(k)] EXCEPT ![e] = Junk]
      BY <2>2, <1>6, <1>7 DEF Unlink, Free
    <3>2. order[k + 1] \in Node /\ order[k + 1] # e
      BY <2>2, <1>0, <1>1, <1>7
    <3> QED
      BY <2>2, <3>1, <3>2, <1>2 DEF Typed
  <2> QED
    BY <2>1, <2>2, <1>1, <1>0
<1>11. Typed'
  <2>1. order' \in Seq(Node) /\ nelems' \in Nat /\ alive' \subseteq Node
    <3>1. nelems' = Len(order) - 1
      BY DEF Threaded, Unlink
    <3> QED
      BY <3>1, <1>0, <1>2, <1>3 DEF Removed, Typed, Unlink, Free
  <2>2. {head', tail'} \subseteq Node \cup {Null}
    <3>1. /\ head' = IF k = 1 THEN NextOf(k) ELSE head
          /\ tail' = IF k = Len(order) THEN PrevOf(k) ELSE tail
      BY <1>6, <1>8 DEF Unlink, TailWithout
    <3>2. {NextOf(k), PrevOf(k)} \subseteq Node \cup {Null}
      BY <1>0, <1>1 DEF NextOf, PrevOf
    <3> QED
      BY <3>1, <3>2 DEF Typed
  <2>3. data' \in [Node -> Data \cup {Junk}]
    BY DEF Typed, Unlink, Free
  <2>4. next' \in [Node -> Node \cup {Null, Junk}]
    <3>1. CASE prev[e] = Null
      BY <3>1 DEF Typed, Unlink, Free
    <3>2. CASE prev[e] # Null
      BY <3>2, <1>2 DEF Typed, Unlink, Free
    <3> QED
      BY <3>1, <3>2
  <2>5. prev' \in [Node -> Node \cup {Null, Junk}]
    <3>1. CASE next[e] = Null
      BY <3>1 DEF Typed, Unlink, Free
    <3>2. CASE next[e] # Null
      BY <3>2, <1>2 DEF Typed, Unlink, Free
    <3> QED
      BY <3>1, <3>2
  <2> QED
    BY <2>1, <2>2, <2>3, <2>4, <2>5 DEF Typed
<1>12. nelems' = Len(order')
  BY <1>3 DEF Threaded, Unlink, Removed
<1>13. head' = NextOf(0)'
  <2>1. head' = IF k = 1 THEN NextOf(k) ELSE order[1]
    BY <1>5, <1>6, <1>8 DEF Unlink
  <2>2. NextOf(0)' = IF Len(order) > 1 THEN order'[1] ELSE Null
    BY <1>0, <1>3 DEF NextOf, Removed
  <2> QED
    BY <2>1, <2>2, <1>0, <1>1, <1>3 DEF NextOf, Removed
<1>14. tail' = PrevOf(Len(order) + 1)'
  <2>1. tail' = IF k = Len(order) THEN PrevOf(k) ELSE order[Len(order)]
    BY <1>5, <1>6, <1>8 DEF Unlink, TailWithout
  <2>2. PrevOf(Len(order) + 1)' =
           IF Len(order) > 1 THEN order'[Len(order) - 1] ELSE Null
    <3>1. Len(order') = Len(order) - 1 /\ Len(order') + 1 - 1 = Len(order) - 1
      BY <1>0, <1>3 DEF Removed
    <3> QED
      BY <3>1, <1>0 DEF PrevOf
  <2> QED
    BY <2>1, <2>2, <1>0, <1>1, <1>3 DEF PrevOf, Removed
<1>15. ASSUME NEW i \in 1..Len(order') PROVE next'[order'[i]] = NextOf(i)'
  <2>1. CASE i < k - 1
    <3>1. i \in 1..Len(order) /\ order'[i] = order[i] /\ k - 1 \in 1..Len(order)
      BY <2>1, <1>0, <1>1, <1>3 DEF Removed
    <3>2. order[i] # order[k - 1] /\ order[i] # e
      BY <2>1, <3>1, <1>0, <1>1 DEF Threaded
    <3>3. NextOf(i)' = NextOf(i)
      BY <2>1, <1>0, <1>1, <1>3 DEF Removed, NextOf
    <3>4. next'[order'[i]] = next[order[i]]
      BY <3>1, <3>2, <1>0, <1>9
    <3> QED
      BY <3>1, <3>3, <3>4 DEF Threaded
  <2>2. CASE i = k - 1
    <3>1. order'[i] = order[k - 1] /\ k > 1 /\ order[k - 1] \in Node
      BY <2>2, <1>0, <1>1, <1>3 DEF Removed
    <3>2. NextOf(i)' = NextOf(k)
      BY <2>2, <1>0, <1>1, <1>3 DEF Removed, NextOf
    <3> QED
      BY <3>1, <3>2, <1>7, <1>9
  <2>3. CASE i >= k
    <3>1. /\ i + 1 \in 1..Len(order) /\ order'[i] = order[i + 1] /\ order[i + 1] # e
          /\ k > 1 => order[i + 1] # order[k - 1]
      BY <2>3, <1>0, <1>1, <1>3 DEF Threaded, Removed
    <3>2. NextOf(i)' = NextOf(i + 1)
      BY <2>3, <1>0, <1>1, <1>3 DEF Removed, NextOf
    <3>3. next'[order'[i]] = next[order[i + 1]]
      BY <3>1, <1>0, <1>9
    <3> QED
      BY <3>1, <3>2, <3>3 DEF Threaded
  <2> QED
    BY <2>1, <2>2, <2>3, <1>0, <1>1, <1>3 DEF Removed
<1>16. ASSUME NEW i \in 1..Len(order') PROVE prev'[order'[i]] = PrevOf(i)'
  <2>1. CASE i < k
    <3>1. /\ i \in 1..Len(order) /\ order'[i] = order[i] /\ order[i] # e
          /\ k < Len(order) => order[i] # order[k + 1]
      BY <2>1, <1>0, <1>1, <1>3 DEF Threaded, Removed
    <3>2. PrevOf(i)' = PrevOf(i)
      BY <2>1, <1>0, <1>1, <1>3 DEF Removed, PrevOf
    <3>3. prev'[order'[i]] = prev[order[i]]
      BY <3>1, <1>0, <1>10
    <3> QED
      BY <3>1, <3>2, <3>3 DEF Threaded
  <2>2. CASE i = k
    <3>1. order'[i] = order[k + 1] /\ k < Len(order) /\ order[k + 1] \in Node
      BY <2>2, <1>0, <1>1, <1>3 DEF Removed
    <3>2. PrevOf(i)' = PrevOf(k)
      BY <2>2, <1>0, <1>1, <1>3 DEF Removed, PrevOf
    <3> QED
      BY <3>1, <3>2, <1>7, <1>10
  <2>3. CASE i > k
    <3>1. /\ i + 1 \in 1..Len(order) /\ order'[i] = order[i + 1] /\ order[i + 1] # e
          /\ order[i + 1] # order[k + 1]
      BY <2>3, <1>0, <1>1, <1>3 DEF Threaded, Removed
    <3>2. PrevOf(i)' = PrevOf(i + 1)
      BY SMTT(30), <2>3, <1>0, <1>1, <1>3 DEF Removed, PrevOf
    <3>3. prev'[order'[i]] = prev[order[i + 1]]
      BY <3>1, <1>0, <1>10
    <3> QED
      BY <3>1, <3>2, <3>3 DEF Threaded
  <2> QED
    BY <2>1, <2>2, <2>3, <1>0, <1>1, <1>3 DEF Removed
<1> QED
  BY <1>3, <1>4, <1>11, <1>12, <1>13, <1>14, <1>15, <1>16 DEF Threaded, Distinct, Removed

-----------------------------------------------------------------------------
(***************************************************************************)
(* The inductive invariant: besides the pointers, that the local pointers  *)
(* of a call under way are elements of the list, and that the loop of      *)
(* mmp_list_delete stands at what is left of it.                           *)
(***************************************************************************)
Here == ToSet(order) \cup {Null}

Cursors == /\ pc \in FindPcs \cup WalkPcs => p \in Here
           /\ pc = "insert" => /\ p \in Here
                               /\ nu \in Node \ ToSet(order)
                               /\ order # << >>
           /\ pc = "sort" => /\ p \in Here /\ s \in Here
                             /\ p # Null => min \in ToSet(order)
           /\ pc = "delete" => p = NextOf(0)
           /\ ~open => pc = "idle" /\ order = << >>

IInv == TypeOK /\ Linked /\ Owned /\ Cursors

Locals == /\ open \in BOOLEAN
          /\ {p, s, min, nu, ret} \subseteq Node \cup {Null}
          /\ pc \in {"idle", "insert", "sort", "delete"} \cup FindPcs \cup WalkPcs
          /\ arg \in Data \cup {Null}
          /\ atStart \in Seq(Node) /\ visited \in Seq(Node)

\* The type invariant in two parts, of the list and of the locals.
LEMMA TypeParts == TypeOK <=> Typed /\ Locals
BY DEF TypeOK, Typed, Locals

\* Outside the loop that destroys, the pointers follow the order.
LEMMA LinkedParts == TypeOK /\ pc # "delete" => (Linked <=> Threaded)
<1> SUFFICES ASSUME TypeOK, pc # "delete" PROVE Linked <=> Threaded
  OBVIOUS
<1>1. DOMAIN order = 1..Len(order)
  BY LenProperties DEF TypeOK
<1> QED
  BY <1>1 DEF Linked, Threaded

\* The same two facts after a step.
LEMMA PartsNext ==
  /\ TypeOK' <=> Typed' /\ Locals'
  /\ TypeOK' /\ pc' # "delete" => (Linked' <=> Threaded')
<1> DEFINE Deleting == pc = "delete"
<1>1. TypeOK' <=> Typed' /\ Locals'
  BY TypeParts, PTL
<1>2. TypeOK /\ ~Deleting => (Linked <=> Threaded)
  BY LinkedParts
<1> HIDE DEF Deleting
<1>3. TypeOK' /\ ~Deleting' => (Linked' <=> Threaded')
  BY <1>2, PTL
<1> QED
  BY <1>1, <1>3 DEF Deleting

\* There is no list initially.
LEMMA InitIInv == Init => IInv
<1> SUFFICES ASSUME Init PROVE IInv
  OBVIOUS
<1>1. order = << >> /\ order \in Seq(Node) /\ Len(order) = 0 /\ DOMAIN order = {}
  BY EmptySeq DEF Init
<1>2. TypeOK
  BY <1>1 DEF Init, TypeOK
<1>3. Linked
  BY <1>1 DEF Init, Linked, NextOf, PrevOf
<1>4. Owned
  BY <1>1 DEF Init, Owned, ToSet
<1>5. Cursors
  BY <1>1 DEF Init, Cursors, FindPcs, WalkPcs
<1> QED
  BY <1>2, <1>3, <1>4, <1>5 DEF IInv

\* The links of an element of the list lead to elements of the list.
Closed == \A e \in ToSet(order) : next[e] \in Here /\ prev[e] \in Here

\* A pointer of an element leads to an element or nowhere.
LEMMA LinksClosed == Typed /\ Threaded => Closed
<1> SUFFICES ASSUME Typed, Threaded, NEW e \in ToSet(order)
             PROVE  next[e] \in Here /\ prev[e] \in Here
  BY DEF Closed
<1>1. OrderFacts
  BY OrderHas DEF Typed
<1>2. PICK i \in 1..Len(order) : order[i] = e
  BY <1>1 DEF OrderFacts
<1> QED
  BY <1>1, <1>2, Neighbours DEF Threaded, OrderFacts, Here, Typed

\* The same after a step.
LEMMA LinksClosedNext == Typed' /\ Threaded' => Closed'
BY LinksClosed, PTL

\* What a call begins from, when no other is under way.
LEMMA IdleHas ==
  ASSUME IInv, pc # "delete"
  PROVE  /\ Typed /\ Threaded /\ Locals
         /\ head \in Here /\ tail \in Here
         /\ \A e \in ToSet(order) : e \in Node /\ next[e] \in Here /\ prev[e] \in Here
<1>1. Typed /\ Threaded /\ Locals
  BY TypeParts, LinkedParts DEF IInv
<1>2. order \in Seq(Node)
  BY <1>1 DEF Typed
<1>3. OrderFacts
  BY <1>2, OrderHas
<1>4. head \in Here /\ tail \in Here
  BY <1>1, <1>2, <1>3, Neighbours DEF Threaded, OrderFacts, Here
<1>5. ASSUME NEW e \in ToSet(order)
      PROVE  e \in Node /\ next[e] \in Here /\ prev[e] \in Here
  BY <1>1, <1>3, LinksClosed DEF Closed, OrderFacts
<1> QED
  BY <1>1, <1>4, <1>5

-----------------------------------------------------------------------------
(***************************************************************************)
(* The steps.  Most leave the links as they are.                           *)
(***************************************************************************)
LEMMA Assemble ==
  ASSUME Typed', Locals', Threaded', Owned', Cursors', pc' # "delete"
  PROVE  IInv'
BY PartsNext DEF IInv

\* A step that leaves the pointers alone keeps the links.
LEMMA LinksStay ==
  ASSUME IInv, pc # "delete", UNCHANGED links, data' \in [Node -> Data \cup {Junk}]
  PROVE  Typed' /\ Threaded' /\ ToSet(order') = ToSet(order) /\ Here' = Here
<1>1. Typed /\ Threaded
  BY IdleHas
<1>2. Typed'
  BY <1>1 DEF Typed, links
<1>3. Threaded'
  BY <1>1 DEF Threaded, NextOf, PrevOf, links
<1> QED
  BY <1>2, <1>3 DEF links, ToSet, Here

\* A call that returns leaves no local behind.
LEMMA ReturnsIdle ==
  ASSUME Locals, Return, open' \in BOOLEAN, ret' \in Node \cup {Null},
         ~open' => order' = << >>
  PROVE  Locals' /\ Cursors'
<1>1. << >> \in Seq(Node)
  BY EmptySeq
<1>2. Locals'
  BY <1>1 DEF Locals, Return
<1>3. Cursors'
  BY DEF Return, Cursors, FindPcs, WalkPcs
<1> QED
  BY <1>2, <1>3

\* A step that ends a call without touching the links.
LEMMA ReturnsOnly ==
  ASSUME IInv, pc \notin {"idle", "insert", "delete"}, Return,
         UNCHANGED <<open, links>>, data' = data, ret' \in Node \cup {Null}
  PROVE  IInv'
<1>1. Typed' /\ Threaded' /\ ToSet(order') = ToSet(order)
  BY LinksStay DEF IInv, TypeOK
<1>2. Locals /\ open
  BY TypeParts DEF IInv, Cursors
<1>3. Locals' /\ Cursors'
  BY <1>2, ReturnsIdle DEF Locals
<1>4. Owned'
  BY <1>1 DEF IInv, Owned, links, Return
<1> QED
  BY <1>1, <1>3, <1>4, Assemble DEF Return

\* A step that begins or goes on with a call, without touching the links.
LEMMA GoesOn ==
  ASSUME IInv, open, pc \notin {"insert", "delete"}, pc' \notin {"insert", "delete"},
         UNCHANGED <<open, ret, links>>, data' \in [Node -> Data \cup {Junk}],
         Locals', Cursors'
  PROVE  IInv'
<1>1. Typed' /\ Threaded' /\ ToSet(order') = ToSet(order)
  BY LinksStay
<1>4. Owned'
  BY <1>1 DEF IInv, Owned, links
<1> QED
  BY <1>1, <1>4, Assemble

\* mmp_list_create preserves the invariant.
LEMMA CreateStep == IInv /\ Create => IInv'
<1> SUFFICES ASSUME IInv, Create PROVE IInv'
  OBVIOUS
<1>1. /\ pc = "idle" /\ order = << >> /\ Typed /\ Locals /\ Threaded
      /\ Len(order) = 0
  BY IdleHas, EmptySeq DEF IInv, Cursors, Create
<1>2. Typed' /\ Locals'
  BY <1>1 DEF Create, Typed, Locals, locals, rest
<1>3. Threaded'
  BY <1>1 DEF Create, Threaded, NextOf, PrevOf
<1>4. Owned'
  BY <1>1 DEF IInv, Owned, Create
<1>5. Cursors'
  BY <1>1 DEF Create, Cursors, FindPcs, WalkPcs
<1> QED
  BY <1>1, <1>2, <1>3, <1>4, <1>5, Assemble DEF Create

\* mmp_list_add_data preserves the invariant.
LEMMA AddDataStep ==
  ASSUME IInv, NEW n \in Node, NEW d \in Data, AddData(n, d)
  PROVE  IInv'
<1>1. pc = "idle" /\ open /\ Typed /\ Threaded /\ Locals
  BY IdleHas DEF AddData, Idle
<1>2. alive = ToSet(order) /\ n \notin ToSet(order)
  BY <1>1 DEF IInv, Owned, AddData, Prepend
<1>3. Typed' /\ Threaded' /\ ToSet(order') = ToSet(order) \cup {n}
  BY <1>1, <1>2, PrependKeeps DEF AddData
<1>4. Locals'
  BY <1>1 DEF AddData, Locals, locals, rest
<1>5. Owned' /\ Cursors' /\ pc' = "idle"
  BY <1>1, <1>2, <1>3 DEF AddData, Prepend, Owned, Cursors, FindPcs, WalkPcs
<1> QED
  BY <1>3, <1>4, <1>5, Assemble

\* mmp_list_add_data_sorted starts its walk in a list that is not empty.
LEMMA AddSortedStep ==
  ASSUME IInv, NEW n \in Node, NEW d \in Data, AddSorted(n, d)
  PROVE  IInv'
<1>1. /\ pc = "idle" /\ open /\ Typed /\ Threaded /\ Locals
      /\ alive = ToSet(order) /\ head \in Here
  BY IdleHas DEF AddSorted, Idle, IInv, Owned
<1>2. order # << >>
  BY <1>1, EmptySeq DEF AddSorted, Threaded, NextOf
<1>3. Typed' /\ Locals'
  BY <1>1 DEF AddSorted, Typed, Locals
<1>4. Threaded'
  BY <1>1 DEF AddSorted, Threaded, NextOf, PrevOf
<1>5. Owned'
  BY <1>1 DEF AddSorted, Owned
<1>6. Cursors'
  BY <1>1, <1>2 DEF AddSorted, Cursors, FindPcs, WalkPcs, Here
<1> QED
  BY <1>3, <1>4, <1>5, <1>6, Assemble DEF AddSorted

\* A step of its walk preserves the invariant.
LEMMA InsertNextStep == IInv /\ InsertNext => IInv'
<1> SUFFICES ASSUME IInv, InsertNext PROVE IInv'
  OBVIOUS
<1>1. /\ pc = "insert" /\ Typed /\ Threaded /\ Locals /\ open
      /\ p \in ToSet(order) /\ next[p] \in Here
  BY IdleHas DEF InsertNext, IInv, Cursors, Here
<1>2. Typed' /\ Threaded' /\ ToSet(order') = ToSet(order) /\ Here' = Here
  BY <1>1, LinksStay DEF InsertNext, Typed
<1>3. Here \subseteq Node \cup {Null}
  BY <1>1, OrderHas DEF Here, OrderFacts, Typed
<1>4. Locals'
  BY <1>1, <1>3 DEF InsertNext, Locals, rest
<1>5. Owned'
  BY <1>1, <1>2 DEF InsertNext, Owned, IInv, links, rest
<1>6. Cursors'
  BY <1>1, <1>2 DEF InsertNext, Cursors, IInv, links, rest, FindPcs, WalkPcs
<1> QED
  BY <1>1, <1>2, <1>4, <1>5, <1>6, Assemble DEF InsertNext

\* So does the insertion that ends it.
LEMMA InsertHereStep == IInv /\ InsertHere => IInv'
<1> SUFFICES ASSUME IInv, InsertHere PROVE IInv'
  OBVIOUS
<1>1. /\ pc = "insert" /\ Typed /\ Threaded /\ Locals /\ open /\ order # << >>
      /\ p \in Here /\ nu \in Node \ ToSet(order)
      /\ alive = ToSet(order) \cup {nu}
  BY IdleHas DEF InsertHere, IInv, Cursors, Owned
<1>2. Typed' /\ Threaded' /\ ToSet(order') = ToSet(order) \cup {nu}
  BY <1>1, InsertHereKeeps DEF Here
<1>3. Locals' /\ Cursors'
  <2>1. open' = open /\ ret' = ret /\ Return
    BY DEF InsertHere
  <2> QED
    BY <1>1, <2>1, ReturnsIdle DEF Locals
<1>4. Owned' /\ pc' = "idle"
  BY <1>1, <1>2 DEF InsertHere, Owned, Return
<1> QED
  BY <1>2, <1>3, <1>4, Assemble

\* mmp_list_del_elem preserves the invariant.
LEMMA DelElemStep ==
  ASSUME IInv, NEW e \in ToSet(order), DelElem(e)
  PROVE  IInv'
<1>1. /\ pc = "idle" /\ open /\ Typed /\ Threaded /\ Locals
      /\ alive = ToSet(order)
  BY IdleHas DEF DelElem, Idle, IInv, Owned
<1>2. Typed' /\ Threaded' /\ ToSet(order') = ToSet(order) \ {e}
  BY <1>1, UnlinkKeeps DEF DelElem
<1>3. Locals'
  BY <1>1 DEF DelElem, Unlink, Locals, locals, rest
<1>4. Owned' /\ Cursors' /\ pc' = "idle"
  BY <1>1, <1>2 DEF DelElem, Unlink, Free, Owned, Cursors, FindPcs, WalkPcs
<1> QED
  BY <1>2, <1>3, <1>4, Assemble

\* A search begins at the head.
LEMMA FindStarts ==
  ASSUME IInv, NEW how \in FindPcs, NEW d \in Data, Find(how, d)
  PROVE  IInv'
<1>1. pc = "idle" /\ open /\ Typed /\ Locals /\ head \in Here
  BY IdleHas DEF Find, Idle
<1>2. Locals' /\ data' = data
  BY <1>1 DEF Find, Locals, Typed, rest
<1>3. pc' \in FindPcs /\ UNCHANGED <<open, ret, links>> /\ p' = head
  BY DEF Find
<1>4. Here' = Here
  BY <1>3 DEF Here, links
<1>5. Cursors'
  BY <1>1, <1>3, <1>4 DEF Cursors, FindPcs, WalkPcs
<1> QED
  BY <1>1, <1>2, <1>3, <1>5, GoesOn DEF FindPcs, Typed

\* It goes on to an element or to the end.
LEMMA FindNextStep == IInv /\ FindNext => IInv'
<1> SUFFICES ASSUME IInv, FindNext PROVE IInv'
  OBVIOUS
<1>1. /\ pc \in FindPcs /\ open /\ Typed /\ Locals
      /\ next[p] \in Here /\ Here \subseteq Node \cup {Null}
  BY IdleHas, OrderHas
     DEF FindNext, FindPcs, WalkPcs, IInv, Cursors, Here, OrderFacts, Typed
<1>2. Locals' /\ data' = data
  BY <1>1 DEF FindNext, FindStep, Locals, Typed, rest
<1>3. pc' = pc /\ UNCHANGED <<open, ret, links>> /\ p' = next[p]
  BY DEF FindNext, FindStep
<1>4. Here' = Here
  BY <1>3 DEF Here, links
<1>5. Cursors'
  BY <1>1, <1>3, <1>4 DEF Cursors, FindPcs, WalkPcs
<1> QED
  BY <1>1, <1>2, <1>3, <1>5, GoesOn DEF FindPcs, Typed

\* It ends at an element that matches.
LEMMA FindHitStep == IInv /\ FindHit => IInv'
<1> SUFFICES ASSUME IInv, FindHit PROVE IInv'
  OBVIOUS
<1>1. pc \notin {"idle", "insert", "delete"} /\ p \in Node \cup {Null}
  BY DEF FindHit, FindPcs, IInv, TypeOK
<1> QED
  BY <1>1, ReturnsOnly DEF FindHit

\* It ends without one.
LEMMA FindMissStep == IInv /\ FindMiss => IInv'
BY ReturnsOnly DEF FindMiss, FindPcs

\* mmp_list_del_elem_by_data unlinks what it finds.
LEMMA FindAndDeleteStep == IInv /\ FindAndDelete => IInv'
<1> SUFFICES ASSUME IInv, FindAndDelete PROVE IInv'
  OBVIOUS
<1>1. /\ pc = "findDel" /\ open /\ Typed /\ Threaded /\ Locals
      /\ alive = ToSet(order) /\ p \in ToSet(order)
  BY IdleHas DEF FindAndDelete, IInv, Owned, Cursors, FindPcs, Here
<1>2. Typed' /\ Threaded' /\ ToSet(order') = ToSet(order) \ {p}
  BY <1>1, UnlinkKeeps DEF FindAndDelete
<1>3. Locals' /\ Cursors'
  <2>1. open' = open /\ ret' = Null /\ Return
    BY DEF FindAndDelete, Unlink
  <2> QED
    BY <1>1, <2>1, ReturnsIdle DEF Locals
<1>4. Owned' /\ pc' = "idle"
  BY <1>1, <1>2 DEF FindAndDelete, Unlink, Free, Owned, Return
<1> QED
  BY <1>2, <1>3, <1>4, Assemble

\* A walk with a callback begins at one end.
LEMMA LambdaStarts ==
  ASSUME IInv, NEW how \in WalkPcs, Lambda(how)
  PROVE  IInv'
<1>1. pc = "idle" /\ open /\ Typed /\ Locals /\ head \in Here /\ tail \in Here
  BY IdleHas DEF Lambda, Idle
<1>2. Locals' /\ data' = data
  BY <1>1 DEF Lambda, Locals, Typed, rest
<1>3. pc' \in WalkPcs /\ UNCHANGED <<open, ret, links>> /\ p' \in {head, tail}
  BY DEF Lambda
<1>4. Here' = Here
  BY <1>3 DEF Here, links
<1>5. Cursors'
  BY <1>1, <1>3, <1>4 DEF Cursors, FindPcs, WalkPcs
<1> QED
  BY <1>1, <1>2, <1>3, <1>5, GoesOn DEF WalkPcs, Typed

\* A callback may add data while the walk goes on.
LEMMA CallStep == IInv /\ Call => IInv'
<1> SUFFICES ASSUME IInv, Call PROVE IInv'
  OBVIOUS
<1>1. /\ pc \in WalkPcs /\ open /\ Typed /\ Threaded /\ Locals
      /\ p \in ToSet(order) /\ alive = ToSet(order)
  BY IdleHas DEF Call, FindPcs, WalkPcs, IInv, Cursors, Here, Owned
<1>2. /\ Typed' /\ Threaded' /\ p \in ToSet(order') /\ alive' = ToSet(order')
  <2>1. CASE UNCHANGED <<data, links>>
    BY <1>1, <2>1 DEF Typed, Threaded, NextOf, PrevOf, links
  <2>2. ASSUME NEW n \in Node, NEW d \in Data, Prepend(n, d)
        PROVE  /\ Typed' /\ Threaded' /\ p \in ToSet(order')
               /\ alive' = ToSet(order')
    <3>1. n \notin ToSet(order) /\ alive' = alive \cup {n}
      BY <1>1, <2>2 DEF Prepend
    <3> QED
      BY <1>1, <2>2, <3>1, PrependKeeps
  <2> QED
    BY <2>1, <2>2 DEF Call
<1>3. p' \in Here' /\ p' \in Node \cup {Null}
  <2>1. p' \in Here'
    BY <1>2, LinksClosedNext DEF Closed, Call, Following
  <2>2. Here' \subseteq Node \cup {Null}
    BY <1>2, OrderHasNext DEF Here, OrderFacts, Typed
  <2> QED
    BY <2>1, <2>2
<1>4. Locals'
  <2>1. visited' \in Seq(Node)
    <3>1. p \in Node
      BY <1>1, OrderHas DEF OrderFacts, Typed
    <3>2. Append(visited, p) \in Seq(Node)
      BY <1>1, <3>1, AppendProperties DEF Locals
    <3> QED
      BY <3>2 DEF Call
  <2> QED
    BY <1>1, <1>3, <2>1 DEF Call, Locals
<1>5. Owned'
  BY <1>1, <1>2 DEF Call, Owned, WalkPcs
<1>6. Cursors'
  BY <1>1, <1>3 DEF Call, Cursors, FindPcs, WalkPcs
<1> QED
  BY <1>1, <1>2, <1>4, <1>5, <1>6, Assemble DEF Call, WalkPcs

\* The walk ends.
LEMMA LambdaEndsStep == IInv /\ LambdaEnds => IInv'
<1> SUFFICES ASSUME IInv, LambdaEnds PROVE IInv'
  OBVIOUS
<1>1. pc \notin {"idle", "insert", "delete"} /\ ret \in Node \cup {Null}
  BY DEF LambdaEnds, WalkPcs, IInv, TypeOK
<1> QED
  BY <1>1, ReturnsOnly DEF LambdaEnds

\* mmp_list_swap_elems exchanges data and no pointer.
LEMMA SwapElemsStep ==
  ASSUME IInv, NEW e1 \in ToSet(order), NEW e2 \in ToSet(order), SwapElems(e1, e2)
  PROVE  IInv'
<1>1. pc = "idle" /\ open /\ Typed /\ Locals /\ e1 \in Node /\ e2 \in Node
  BY IdleHas DEF SwapElems, Idle
<1>2. Locals' /\ data' \in [Node -> Data \cup {Junk}]
  BY <1>1 DEF SwapElems, Swap, Locals, Typed, locals, rest
<1>3. pc' = "idle" /\ UNCHANGED <<open, ret, links>>
  BY <1>1 DEF SwapElems
<1>4. Cursors'
  BY <1>1, <1>3 DEF Cursors, FindPcs, WalkPcs
<1> QED
  BY <1>1, <1>2, <1>3, <1>4, GoesOn

\* mmp_list_sort_by_data begins at the head.
LEMMA SortStarts == IInv /\ Sort => IInv'
<1> SUFFICES ASSUME IInv, Sort PROVE IInv'
  OBVIOUS
<1>1. /\ pc = "idle" /\ open /\ Typed /\ Locals
      /\ head \in Here /\ Here \subseteq Node \cup {Null}
  BY IdleHas, OrderHas DEF Sort, Idle, Here, OrderFacts, Typed
<1>2. Locals' /\ data' = data
  BY <1>1 DEF Sort, StartMinAt, Locals, Typed
<1>3. pc' = "sort" /\ UNCHANGED <<open, ret, links>> /\ p' = head /\ s' = head /\ min' = head
  BY DEF Sort, StartMinAt
<1>4. Here' = Here /\ ToSet(order') = ToSet(order)
  BY <1>3 DEF Here, links
<1>5. Cursors'
  BY <1>1, <1>3, <1>4 DEF Cursors, FindPcs, WalkPcs, Here
<1> QED
  BY <1>1, <1>2, <1>3, <1>5, GoesOn DEF Typed

\* While it runs, its elements are elements of the list.
LEMMA SortHas ==
  ASSUME IInv, pc = "sort"
  PROVE  /\ open /\ Typed /\ Locals
         /\ p \in Here /\ s \in Here
         /\ p # Null => min \in ToSet(order)
         /\ \A e \in ToSet(order) : e \in Node /\ next[e] \in Here
         /\ Here \subseteq Node \cup {Null}
BY IdleHas, OrderHas DEF IInv, Cursors, Here, OrderFacts, Typed

\* The search for the smallest goes on.
LEMMA FindMinStep == IInv /\ FindMin => IInv'
<1> SUFFICES ASSUME IInv, FindMin PROVE IInv'
  OBVIOUS
<1>1. pc = "sort" /\ s # Null
  BY DEF FindMin
<1>2. /\ open /\ Typed /\ Locals
      /\ p \in Here /\ s \in ToSet(order)
      /\ p # Null => min \in ToSet(order)
      /\ next[s] \in Here /\ Here \subseteq Node \cup {Null}
  BY <1>1, SortHas DEF Here
<1>3. /\ pc' = "sort" /\ UNCHANGED <<open, data, ret, links, p>>
      /\ s' = next[s] /\ min' \in {s, min}
  BY <1>1 DEF FindMin
<1>4. Locals'
  BY <1>2, <1>3 DEF FindMin, Locals
<1>5. Here' = Here /\ ToSet(order') = ToSet(order)
  BY <1>3 DEF Here, links
<1>6. Cursors'
  BY <1>2, <1>3, <1>5 DEF Cursors, FindPcs, WalkPcs
<1> QED
  BY <1>1, <1>2, <1>3, <1>4, <1>6, GoesOn DEF Typed

\* The smallest is exchanged and the sort goes on.
LEMMA SwapMinStep == IInv /\ SwapMin => IInv'
<1> SUFFICES ASSUME IInv, SwapMin PROVE IInv'
  OBVIOUS
<1>1. pc = "sort" /\ p # Null
  BY DEF SwapMin
<1>2. /\ open /\ Typed /\ Locals
      /\ p \in ToSet(order) /\ min \in ToSet(order) /\ p \in Node /\ min \in Node
      /\ next[p] \in Here /\ Here \subseteq Node \cup {Null}
  BY <1>1, SortHas DEF Here
<1>3. /\ pc' = "sort" /\ UNCHANGED <<open, ret, links>>
      /\ p' = next[p] /\ s' = next[p] /\ min' = next[p]
  BY <1>1 DEF SwapMin, StartMinAt
<1>4. Locals'
  BY <1>2, <1>3 DEF SwapMin, Locals
<1>5. data' \in [Node -> Data \cup {Junk}]
  BY <1>2 DEF SwapMin, Swap, Typed
<1>6. Here' = Here /\ ToSet(order') = ToSet(order)
  BY <1>3 DEF Here, links
<1>7. Cursors'
  BY <1>2, <1>3, <1>6 DEF Cursors, FindPcs, WalkPcs, Here
<1> QED
  BY <1>1, <1>2, <1>3, <1>4, <1>5, <1>7, GoesOn

\* The sort ends.
LEMMA SortEndsStep == IInv /\ SortEnds => IInv'
<1> SUFFICES ASSUME IInv, SortEnds PROVE IInv'
  OBVIOUS
<1>1. pc \notin {"idle", "insert", "delete"} /\ ret \in Node \cup {Null}
  BY DEF SortEnds, IInv, TypeOK
<1> QED
  BY <1>1, ReturnsOnly DEF SortEnds

\* mmp_list_delete begins at the head.
LEMMA DeleteStarts == IInv /\ Delete => IInv'
<1> SUFFICES ASSUME IInv, Delete PROVE IInv'
  OBVIOUS
<1>1. /\ pc = "idle" /\ open /\ Typed /\ Threaded /\ Locals /\ head = NextOf(0)
      /\ head \in Node \cup {Null}
  BY IdleHas DEF Delete, Idle, Threaded, Typed
<1>2. TypeOK'
  BY <1>1 DEF Delete, Typed, Locals, TypeOK, links, rest
<1>3. Linked'
  BY <1>1 DEF IInv, Linked, Delete, links, NextOf
<1>4. Owned'
  BY <1>1 DEF IInv, Owned, Delete, links
<1>5. Cursors'
  BY <1>1 DEF Cursors, Delete, links, FindPcs, WalkPcs, NextOf
<1> QED
  BY <1>2, <1>3, <1>4, <1>5 DEF IInv

\* It frees one element and goes on to the next.
LEMMA FreeOneStep == IInv /\ FreeOne => IInv'
<1> SUFFICES ASSUME IInv, FreeOne PROVE IInv'
  OBVIOUS
<1>0. pc = "delete" /\ open /\ p # Null /\ p = NextOf(0) /\ Typed /\ Locals
  BY TypeParts DEF FreeOne, IInv, Cursors
<1>1. OrderFacts
  BY <1>0, OrderHas DEF Typed
<1>2. /\ Len(order) > 0 /\ order # << >> /\ p = order[1] /\ p \in Node
  BY <1>0, <1>1 DEF NextOf, OrderFacts
<1>3. Removed(1)
  <2>1. /\ Tail(order) \in Seq(Node) /\ Len(Tail(order)) = Len(order) - 1
        /\ \A i \in 1..Len(Tail(order)) : Tail(order)[i] = order[i + 1]
    BY <1>0, <1>2, HeadTailProperties DEF Typed
  <2>2. order' = Tail(order)
    BY DEF FreeOne
  <2> QED
    BY <2>1, <2>2, <1>1 DEF Removed, OrderFacts
<1>4. Distinct
  BY <1>1 DEF IInv, Linked, Distinct, OrderFacts
<1>5. ToSet(order') = ToSet(order) \ {p} /\ Distinct'
  BY <1>0, <1>1, <1>2, <1>3, <1>4, RemovedKeeps DEF Typed, OrderFacts
<1>6. OrderFacts'
  BY <1>3, OrderHasNext DEF Removed
<1>7. next[p] = NextOf(1) /\ NextOf(1) = NextOf(0)'
  <2>1. next[p] = NextOf(1)
    BY <1>1, <1>2 DEF IInv, Linked, OrderFacts
  <2>2. NextOf(1) = NextOf(0)'
    BY <1>1, <1>2, <1>3 DEF NextOf, Removed, OrderFacts
  <2> QED
    BY <2>1, <2>2
<1>8. next[p] \in Node \cup {Null}
  BY <1>1, <1>7 DEF NextOf, OrderFacts
<1>9. Typed'
  <2>1. order' \in Seq(Node) /\ alive' \subseteq Node
    BY <1>0, <1>3 DEF Removed, Typed, FreeOne, Free
  <2>2. UNCHANGED <<head, tail, nelems>>
    BY DEF FreeOne
  <2>3. /\ next' \in [Node -> Node \cup {Null, Junk}]
        /\ prev' \in [Node -> Node \cup {Null, Junk}]
        /\ data' \in [Node -> Data \cup {Junk}]
    BY <1>0 DEF Typed, FreeOne, Free
  <2> QED
    BY <1>0, <2>1, <2>2, <2>3 DEF Typed
<1>10. Locals'
  <2>1. Append(visited, p) \in Seq(Node)
    BY <1>0, <1>2, AppendProperties DEF Locals
  <2> QED
    BY <1>0, <1>8, <2>1 DEF Locals, FreeOne
<1>11. TypeOK'
  BY <1>9, <1>10, PartsNext
<1>12. Linked'
  <2>1. ASSUME NEW i \in 1..Len(order') PROVE next'[order'[i]] = NextOf(i)'
    <3>1. i + 1 \in 1..Len(order) /\ order'[i] = order[i + 1] /\ order[i + 1] # p
      BY <1>1, <1>2, <1>3, <1>4 DEF Removed, OrderFacts, Distinct
    <3>2. next'[order'[i]] = next[order[i + 1]]
      BY <3>1, <1>0, <1>1 DEF FreeOne, Free, Typed, OrderFacts
    <3>3. NextOf(i + 1) = NextOf(i)'
      BY <3>1, <1>1, <1>3 DEF NextOf, Removed, OrderFacts
    <3>4. next[order[i + 1]] = NextOf(i + 1)
      BY <3>1, <1>1 DEF IInv, Linked, OrderFacts
    <3> QED
      BY <3>2, <3>3, <3>4
  <2>2. pc' = "delete"
    BY <1>0 DEF FreeOne
  <2> QED
    BY <2>1, <2>2, <1>5, <1>6 DEF Linked, OrderFacts, Distinct
<1>13. Owned'
  BY <1>0, <1>5 DEF IInv, Owned, FreeOne, Free
<1>14. Cursors'
  BY <1>0, <1>7 DEF Cursors, FreeOne, FindPcs, WalkPcs
<1> QED
  BY <1>11, <1>12, <1>13, <1>14 DEF IInv

\* It ends when every element is freed.
LEMMA DeleteEndsStep == IInv /\ DeleteEnds => IInv'
<1> SUFFICES ASSUME IInv, DeleteEnds PROVE IInv'
  OBVIOUS
<1>0. pc = "delete" /\ NextOf(0) = Null /\ Typed /\ Locals
  BY TypeParts DEF DeleteEnds, FreedAll, IInv, Cursors
<1>1. OrderFacts
  BY <1>0, OrderHas DEF Typed
<1>2. order = << >> /\ Len(order) = 0 /\ order' = order
  BY <1>0, <1>1 DEF NextOf, OrderFacts, DeleteEnds
<1>3. Typed'
  BY <1>0 DEF Typed, DeleteEnds
<1>4. Threaded'
  BY <1>2 DEF Threaded, NextOf, PrevOf, DeleteEnds
<1>5. Locals' /\ Cursors'
  <2>1. open' \in BOOLEAN /\ ret' = ret /\ Return
    BY DEF DeleteEnds
  <2> QED
    BY <1>0, <1>2, <2>1, ReturnsIdle DEF Locals
<1>6. Owned' /\ pc' = "idle"
  BY <1>0 DEF IInv, Owned, DeleteEnds, Return
<1> QED
  BY <1>3, <1>4, <1>5, <1>6, Assemble

\* A step that changes nothing preserves the invariant.
LEMMA StutterStep == IInv /\ UNCHANGED vars => IInv'
<1> SUFFICES ASSUME IInv, UNCHANGED vars PROVE IInv'
  OBVIOUS
<1>1. TypeOK' /\ Owned'
  BY DEF IInv, TypeOK, Owned, vars, links, locals, rest
<1>2. Linked'
  BY DEF IInv, Linked, NextOf, PrevOf, vars, links, locals, rest
<1>3. Cursors'
  BY DEF IInv, Cursors, Here, NextOf, vars, links, locals, rest
<1> QED
  BY <1>1, <1>2, <1>3 DEF IInv

\* Every step of a loop preserves the invariant.
LEMMA ContinueStep == IInv /\ Continue => IInv'
BY InsertNextStep, InsertHereStep, FindNextStep, FindHitStep, FindAndDeleteStep,
   FindMissStep, CallStep, LambdaEndsStep, FindMinStep, SwapMinStep, SortEndsStep,
   FreeOneStep, DeleteEndsStep DEF Continue

\* Every step preserves the invariant.
LEMMA NextIInv == IInv /\ [Next]_vars => IInv'
<1> SUFFICES ASSUME IInv, [Next]_vars PROVE IInv'
  OBVIOUS
<1>1. CASE Create
  BY <1>1, CreateStep
<1>2. ASSUME NEW n \in Node, NEW d \in Data,
             AddData(n, d) \/ AddSortedEmpty(n, d) \/ AddSorted(n, d)
      PROVE  IInv'
  BY <1>2, AddDataStep, AddSortedStep DEF AddSortedEmpty
<1>3. ASSUME NEW e \in ToSet(order), DelElem(e) PROVE IInv'
  BY <1>3, DelElemStep
<1>4. ASSUME NEW how \in FindPcs, NEW d \in Data, Find(how, d) PROVE IInv'
  BY <1>4, FindStarts
<1>5. ASSUME NEW how \in WalkPcs, Lambda(how) PROVE IInv'
  BY <1>5, LambdaStarts
<1>6. ASSUME NEW e1 \in ToSet(order), NEW e2 \in ToSet(order), SwapElems(e1, e2)
      PROVE  IInv'
  BY <1>6, SwapElemsStep
<1>7. CASE Sort
  BY <1>7, SortStarts
<1>8. CASE Delete
  BY <1>8, DeleteStarts
<1>9. CASE Continue
  BY <1>9, ContinueStep
<1>10. CASE UNCHANGED vars
  BY <1>10, StutterStep
<1> QED
  BY <1>1, <1>2, <1>3, <1>4, <1>5, <1>6, <1>7, <1>8, <1>9, <1>10 DEF Next

\* The invariant holds of every list a client can make.
THEOREM InvariantHolds == Spec => []IInv
BY InitIInv, NextIInv, PTL DEF Spec

\* Every pointer the code of mmp_list.c holds is an element or NULL: no loop
\* of it takes a pointer from memory that was freed or never written.
THEOREM TypeCorrect == Spec => []TypeOK
BY InvariantHolds, PTL DEF IInv

\* The pointers run through the elements in list order, both ways, and nelems
\* counts them, between calls and at every iteration of every loop.
THEOREM PointersAgree == Spec => []Linked
BY InvariantHolds, PTL DEF IInv

\* No element is lost, freed twice, or used without being allocated.
THEOREM ElementsOwned == Spec => []Owned
BY InvariantHolds, PTL DEF IInv

-----------------------------------------------------------------------------
(***************************************************************************)
(* What a call under way has found out: a second invariant, on top of the  *)
(* first.                                                                  *)
(***************************************************************************)
KeyAt(i) == Key[data[order[i]]]

\* Every element has data that comp can compare.
HasData == /\ \A e \in alive : data[e] \in Data
           /\ pc \in FindPcs => arg \in Data

\* A search, or the walk of an addition, has passed the first i elements.
Passed(i) == p = NextOf(i) /\ \A j \in 1..i : ~Matches(order[j]) /\ ~GivesUp(order[j])
SearchPlace == pc \in FindPcs => \E i \in 0..Len(order) : Passed(i)

Above(i) == p = NextOf(i) /\ \A j \in 1..i : Before(order[j])
InsertPlace == pc = "insert" => \E i \in 0..Len(order) : Above(i)

\* A sort has put the first i elements in their places, and the smallest of the
\* others up to the place m is at the place l.
Settled(i) == p = NextOf(i) /\ \A j, k \in 1..Len(order) : j <= i /\ j < k => KeyAt(j) <= KeyAt(k)
Smallest(i, m, l) == s = NextOf(m) /\ min = order[l] /\ \A k \in (i + 1)..m : KeyAt(l) <= KeyAt(k)
SortPlace == pc = "sort" =>
    \E i \in 0..Len(order) :
       /\ Settled(i)
       /\ i < Len(order) => \E m \in i..Len(order) : \E l \in (i + 1)..Len(order) :
                               Smallest(i, m, l)

\* A walk has run its callback on the elements it has passed; the elements that
\* callbacks added are before those the list had.
Prefix(v, o) == Len(v) <= Len(o) /\ \A j \in 1..Len(v) : v[j] = o[j]
Added(k) == Len(order) = k + Len(atStart) /\ \A j \in 1..Len(atStart) : order[k + j] = atStart[j]
WalkPlace ==
    /\ pc = "walk" => /\ Prefix(visited, atStart)
                      /\ \E k \in 0..Len(order) : Added(k) /\ p = NextOf(k + Len(visited))
    /\ pc = "walkBack" => /\ Len(visited) <= Len(order)
                          /\ p = PrevOf(Len(order) + 1 - Len(visited))
                          /\ \A j \in 1..Len(visited) : visited[j] = order[Len(order) + 1 - j]
    /\ pc = "delete" => /\ Prefix(visited, atStart)
                        /\ Len(atStart) = Len(visited) + Len(order)
                        /\ \A j \in 1..Len(order) : order[j] = atStart[Len(visited) + j]
    /\ pc \notin WalkPcs \cup {"delete"} => visited = << >>

Places == HasData /\ SearchPlace /\ InsertPlace /\ SortPlace /\ WalkPlace

\* Between the steps of a call, where the elements are.
LEMMA OrderIs ==
  ASSUME IInv
  PROVE  /\ OrderFacts /\ Distinct /\ Typed /\ Locals
         /\ pc # "delete" => Threaded
         /\ ToSet(order) \subseteq alive
<1>1. Typed /\ Locals /\ OrderFacts
  BY TypeParts, OrderHas DEF IInv, Typed
<1>2. Distinct
  BY <1>1 DEF IInv, Linked, Distinct, OrderFacts
<1> QED
  BY <1>1, <1>2, LinkedParts DEF IInv, Owned

LEMMA KeysAre ==
  ASSUME IInv, HasData
  PROVE  \A i \in 1..Len(order) : data[order[i]] \in Data /\ KeyAt(i) \in Int
BY OrderIs DEF HasData, OrderFacts, KeyAt

\* An element that a loop stands at, and the one after it.
LEMMA GoesTo ==
  ASSUME IInv, pc # "delete", NEW i \in 0..Len(order), p = NextOf(i), p # Null
  PROVE  /\ i + 1 \in 1..Len(order) /\ p = order[i + 1] /\ next[p] = NextOf(i + 1)
         /\ p \in Node
BY OrderIs DEF OrderFacts, Threaded, NextOf

LEMMA StandsAtEnd ==
  ASSUME IInv, NEW i \in 0..Len(order), NextOf(i) = Null
  PROVE  i = Len(order)
<1>1. Len(order) \in Nat /\ \A j \in 1..Len(order) : order[j] # Null
  BY OrderIs DEF OrderFacts
<1>2. CASE i < Len(order)
  <2>1. i + 1 \in 1..Len(order) /\ NextOf(i) = order[i + 1]
    BY <1>1, <1>2 DEF NextOf
  <2> QED
    BY <2>1, <1>1
<1> QED
  BY <1>1, <1>2

-----------------------------------------------------------------------------
(***************************************************************************)
(* The steps, by the loop they lead into, go on with or end.               *)
(***************************************************************************)
Starts == \/ \E n \in Node, d \in Data : AddSorted(n, d)
          \/ \E how \in FindPcs, d \in Data : Find(how, d)
          \/ \E how \in WalkPcs : Lambda(how)
          \/ Sort \/ Delete
Loops == InsertNext \/ FindNext \/ Call \/ FindMin \/ SwapMin \/ FreeOne
Ends == InsertHere \/ FindHit \/ FindAndDelete \/ FindMiss \/ LambdaEnds \/ SortEnds \/ DeleteEnds
Whole == \/ Create
         \/ \E n \in Node, d \in Data : AddData(n, d)
         \/ \E e \in ToSet(order) : DelElem(e)
         \/ \E e1, e2 \in ToSet(order) : SwapElems(e1, e2)

LEMMA Kinds ==
  ASSUME [Next]_vars
  PROVE  UNCHANGED vars \/ Whole \/ Starts \/ Loops \/ Ends
BY DEF Next, Whole, Starts, Loops, Ends, AddSortedEmpty, Continue

LEMMA WholeIdle == ASSUME IInv, Whole PROVE pc = "idle" /\ pc' = "idle"
BY DEF Whole, Create, AddData, DelElem, SwapElems, Idle, IInv, Cursors, locals

LEMMA EndsIdle ==
  ASSUME Ends
  PROVE  Return /\ pc # "idle" /\ pc' = "idle"
BY DEF Ends, InsertHere, FindHit, FindAndDelete, FindMiss, LambdaEnds, SortEnds, DeleteEnds,
       Return, FindPcs, WalkPcs

LEMMA LoopsStay == ASSUME Loops PROVE pc # "idle" /\ pc' = pc
BY DEF Loops, InsertNext, FindNext, Call, FindMin, SwapMin, FreeOne, FindPcs, WalkPcs

LEMMA StartsBusy == ASSUME Starts PROVE pc = "idle" /\ pc' # "idle"
BY DEF Starts, AddSorted, Find, Lambda, Sort, Delete, Idle, FindPcs, WalkPcs

LEMMA IntoSearch ==
  ASSUME IInv, [Next]_vars, pc' \in FindPcs
  PROVE  \/ UNCHANGED vars
         \/ \E how \in FindPcs, d \in Data : Find(how, d)
         \/ FindNext
<1>1. UNCHANGED vars \/ Starts \/ Loops
  BY Kinds, WholeIdle, EndsIdle DEF FindPcs
<1>2. Starts => \E how \in FindPcs, d \in Data : Find(how, d)
  BY DEF Starts, AddSorted, Lambda, Sort, Delete, FindPcs, WalkPcs
<1>3. Loops => FindNext
  BY DEF Loops, InsertNext, Call, FindMin, SwapMin, FreeOne, FindPcs, WalkPcs
<1> QED
  BY <1>1, <1>2, <1>3

LEMMA IntoInsert ==
  ASSUME IInv, [Next]_vars, pc' = "insert"
  PROVE  \/ UNCHANGED vars
         \/ \E n \in Node, d \in Data : AddSorted(n, d)
         \/ InsertNext
<1>1. UNCHANGED vars \/ Starts \/ Loops
  BY Kinds, WholeIdle, EndsIdle
<1>2. Starts => \E n \in Node, d \in Data : AddSorted(n, d)
  BY DEF Starts, Find, Lambda, Sort, Delete, FindPcs, WalkPcs
<1>3. Loops => InsertNext
  BY DEF Loops, FindNext, Call, FindMin, SwapMin, FreeOne, FindPcs, WalkPcs
<1> QED
  BY <1>1, <1>2, <1>3

LEMMA IntoSort ==
  ASSUME IInv, [Next]_vars, pc' = "sort"
  PROVE  UNCHANGED vars \/ Sort \/ FindMin \/ SwapMin
<1>1. UNCHANGED vars \/ Starts \/ Loops
  BY Kinds, WholeIdle, EndsIdle
<1>2. Starts => Sort
  BY DEF Starts, AddSorted, Find, Lambda, Delete, FindPcs, WalkPcs
<1>3. Loops => FindMin \/ SwapMin
  BY DEF Loops, InsertNext, FindNext, Call, FreeOne, FindPcs, WalkPcs
<1> QED
  BY <1>1, <1>2, <1>3

LEMMA IntoWalk ==
  ASSUME IInv, [Next]_vars, pc' \in WalkPcs
  PROVE  UNCHANGED vars \/ Lambda(pc') \/ (Call /\ pc' = pc)
<1>1. UNCHANGED vars \/ Starts \/ Loops
  BY Kinds, WholeIdle, EndsIdle DEF WalkPcs
<1>2. Starts => Lambda(pc')
  BY DEF Starts, AddSorted, Find, Lambda, Sort, Delete, FindPcs, WalkPcs
<1>3. Loops => Call /\ pc' = pc
  BY LoopsStay DEF Loops, InsertNext, FindNext, FindMin, SwapMin, FreeOne, FindPcs, WalkPcs
<1> QED
  BY <1>1, <1>2, <1>3

LEMMA IntoDelete ==
  ASSUME IInv, [Next]_vars, pc' = "delete"
  PROVE  UNCHANGED vars \/ Delete \/ FreeOne
<1>1. UNCHANGED vars \/ Starts \/ Loops
  BY Kinds, WholeIdle, EndsIdle
<1>2. Starts => Delete
  BY DEF Starts, AddSorted, Find, Lambda, Sort, FindPcs, WalkPcs
<1>3. Loops => FreeOne
  BY DEF Loops, InsertNext, FindNext, Call, FindMin, SwapMin, FindPcs, WalkPcs
<1> QED
  BY <1>1, <1>2, <1>3

-----------------------------------------------------------------------------
(***************************************************************************)
(* The second invariant, part by part.                                     *)
(***************************************************************************)
LEMMA SearchStep ==
  ASSUME IInv, SearchPlace, [Next]_vars
  PROVE  SearchPlace'
<1> SUFFICES ASSUME pc' \in FindPcs
             PROVE  \E i \in 0..Len(order') : Passed(i)'
  BY DEF SearchPlace
<1>0. Len(order) \in Nat
  BY OrderIs DEF OrderFacts
<1>1. CASE UNCHANGED vars
  BY <1>1 DEF SearchPlace, Passed, NextOf, Matches, GivesUp, vars, links, locals, rest
<1>2. ASSUME NEW how \in FindPcs, NEW d \in Data, Find(how, d)
      PROVE  \E i \in 0..Len(order') : Passed(i)'
  <2>1. p' = NextOf(0) /\ order' = order
    BY <1>2, OrderIs DEF Find, Idle, links, Threaded
  <2>2. Passed(0)'
    BY <2>1 DEF Passed, NextOf
  <2> QED
    BY <2>1, <2>2, <1>0
<1>3. CASE FindNext
  <2>1. /\ pc' = pc /\ order' = order /\ data' = data /\ arg' = arg /\ p' = next[p]
        /\ p # Null /\ ~Matches(p) /\ ~GivesUp(p) /\ pc \in FindPcs
    BY <1>3 DEF FindNext, FindStep, links, rest
  <2>2. PICK i \in 0..Len(order) : Passed(i)
    BY <2>1 DEF SearchPlace
  <2>3. i + 1 \in 1..Len(order) /\ p = order[i + 1] /\ next[p] = NextOf(i + 1)
    BY <2>1, <2>2, GoesTo DEF Passed, FindPcs
  <2>4. \A j \in 1..(i + 1) : ~Matches(order[j]) /\ ~GivesUp(order[j])
    BY <2>1, <2>2, <2>3 DEF Passed
  <2>5. Passed(i + 1)'
    BY <2>1, <2>3, <2>4 DEF Passed, NextOf, Matches, GivesUp
  <2> QED
    BY <2>1, <2>3, <2>5, <1>0
<1> QED
  BY <1>1, <1>2, <1>3, IntoSearch

LEMMA InsertStep ==
  ASSUME IInv, InsertPlace, [Next]_vars
  PROVE  InsertPlace'
<1> SUFFICES ASSUME pc' = "insert"
             PROVE  \E i \in 0..Len(order') : Above(i)'
  BY DEF InsertPlace
<1>0. Len(order) \in Nat
  BY OrderIs DEF OrderFacts
<1>1. CASE UNCHANGED vars
  BY <1>1 DEF InsertPlace, Above, NextOf, Before, vars, links, locals, rest
<1>2. ASSUME NEW n \in Node, NEW d \in Data, AddSorted(n, d)
      PROVE  \E i \in 0..Len(order') : Above(i)'
  <2>1. p' = NextOf(0) /\ order' = order
    BY <1>2, OrderIs DEF AddSorted, Idle, Threaded
  <2>2. Above(0)'
    BY <2>1 DEF Above, NextOf
  <2> QED
    BY <2>1, <2>2, <1>0
<1>3. CASE InsertNext
  <2>1. /\ pc = "insert" /\ order' = order /\ data' = data /\ nu' = nu /\ p' = next[p]
        /\ p # Null /\ Before(p)
    BY <1>3 DEF InsertNext, links, rest
  <2>2. PICK i \in 0..Len(order) : Above(i)
    BY <2>1 DEF InsertPlace
  <2>3. i + 1 \in 1..Len(order) /\ p = order[i + 1] /\ next[p] = NextOf(i + 1)
    BY <2>1, <2>2, GoesTo DEF Above
  <2>4. \A j \in 1..(i + 1) : Before(order[j])
    BY <2>1, <2>2, <2>3 DEF Above
  <2>5. Above(i + 1)'
    BY <2>1, <2>3, <2>4 DEF Above, NextOf, Before
  <2> QED
    BY <2>1, <2>3, <2>5, <1>0
<1> QED
  BY <1>1, <1>2, <1>3, IntoInsert

\* How a step may change which elements there are, and their data.
DataMoves == \/ UNCHANGED <<alive, data>>
             \/ \E n \in Node, d \in Data : /\ alive' = alive \cup {n}
                                            /\ data' = [data EXCEPT ![n] = d]
             \/ \E e \in Node : /\ alive' = alive \ {e}
                                /\ data' = [data EXCEPT ![e] = Junk]
             \/ \E e1, e2 \in alive : Swap(e1, e2) /\ alive' = alive

LEMMA DataGoes ==
  ASSUME IInv, [Next]_vars
  PROVE  DataMoves
<1>0. ToSet(order) \subseteq alive /\ alive \subseteq Node
  BY OrderIs DEF Typed
<1>1. CASE UNCHANGED vars
  BY <1>1 DEF DataMoves, vars, links
<1>2. CASE Whole
  <2>1. CASE Create
    BY <2>1 DEF Create, DataMoves
  <2>2. ASSUME NEW n \in Node, NEW d \in Data, AddData(n, d) PROVE DataMoves
    BY <2>2 DEF AddData, Prepend, DataMoves
  <2>3. ASSUME NEW e \in ToSet(order), DelElem(e) PROVE DataMoves
    BY <2>3, <1>0 DEF DelElem, Unlink, Free, DataMoves
  <2>4. ASSUME NEW e1 \in ToSet(order), NEW e2 \in ToSet(order), SwapElems(e1, e2)
        PROVE  DataMoves
    BY <2>4, <1>0 DEF SwapElems, DataMoves, links
  <2> QED
    BY <1>2, <2>1, <2>2, <2>3, <2>4 DEF Whole
<1>3. CASE Starts
  <2>1. ASSUME NEW n \in Node, NEW d \in Data, AddSorted(n, d) PROVE DataMoves
    BY <2>1 DEF AddSorted, DataMoves
  <2>2. ASSUME Starts, ~\E n \in Node, d \in Data : AddSorted(n, d)
        PROVE  UNCHANGED <<alive, data>>
    BY <2>2 DEF Starts, Find, Lambda, Sort, Delete, links
  <2> QED
    BY <1>3, <2>1, <2>2 DEF DataMoves
<1>4. CASE Loops
  <2>1. CASE InsertNext \/ FindNext \/ FindMin
    BY <2>1 DEF InsertNext, FindNext, FindMin, links, DataMoves
  <2>2. CASE Call
    <3>1. CASE UNCHANGED <<data, links>>
      BY <3>1 DEF links, DataMoves
    <3>2. ASSUME NEW n \in Node, NEW d \in Data, Prepend(n, d) PROVE DataMoves
      BY <3>2 DEF Prepend, DataMoves
    <3> QED
      BY <2>2, <3>1, <3>2 DEF Call
  <2>3. CASE SwapMin
    <3>1. p \in alive /\ min \in alive
      BY <2>3, <1>0, SortHas DEF SwapMin, Here
    <3> QED
      BY <2>3, <3>1 DEF SwapMin, links, DataMoves
  <2>4. CASE FreeOne
    <3>1. p \in Node
      BY <2>4 DEF FreeOne, IInv, TypeOK
    <3> QED
      BY <2>4, <3>1 DEF FreeOne, Free, DataMoves
  <2> QED
    BY <1>4, <2>1, <2>2, <2>3, <2>4 DEF Loops
<1>5. CASE Ends
  <2>1. CASE FindAndDelete
    <3>1. p \in Node
      BY <2>1 DEF FindAndDelete, IInv, TypeOK
    <3> QED
      BY <2>1, <3>1 DEF FindAndDelete, Unlink, Free, DataMoves
  <2>2. ASSUME Ends, ~FindAndDelete PROVE UNCHANGED <<alive, data>>
    BY <2>2 DEF Ends, InsertHere, FindHit, FindMiss, LambdaEnds, SortEnds, DeleteEnds, links
  <2> QED
    BY <1>5, <2>1, <2>2 DEF DataMoves
<1> QED
  BY <1>1, <1>2, <1>3, <1>4, <1>5, Kinds

LEMMA HasDataStep ==
  ASSUME IInv, HasData, [Next]_vars
  PROVE  HasData'
<1>1. \A e \in alive' : data'[e] \in Data
  <2>1. DataMoves /\ data \in [Node -> Data \cup {Junk}] /\ alive \subseteq Node
    BY DataGoes, OrderIs DEF Typed
  <2>2. CASE UNCHANGED <<alive, data>>
    BY <2>2 DEF HasData
  <2>3. ASSUME NEW n \in Node, NEW d \in Data, alive' = alive \cup {n},
               data' = [data EXCEPT ![n] = d]
        PROVE  \A e \in alive' : data'[e] \in Data
    BY <2>1, <2>3 DEF HasData
  <2>4. ASSUME NEW e \in Node, alive' = alive \ {e}, data' = [data EXCEPT ![e] = Junk]
        PROVE  \A x \in alive' : data'[x] \in Data
    BY <2>1, <2>4 DEF HasData
  <2>5. ASSUME NEW e1 \in alive, NEW e2 \in alive, Swap(e1, e2), alive' = alive
        PROVE  \A e \in alive' : data'[e] \in Data
    BY <2>1, <2>5 DEF HasData, Swap
  <2> QED
    BY <2>1, <2>2, <2>3, <2>4, <2>5 DEF DataMoves
<1>2. ASSUME pc' \in FindPcs PROVE arg' \in Data
  <2>1. CASE UNCHANGED vars
    BY <1>2, <2>1 DEF HasData, vars, locals, rest
  <2>2. ASSUME NEW how \in FindPcs, NEW d \in Data, Find(how, d) PROVE arg' \in Data
    BY <2>2 DEF Find
  <2>3. CASE FindNext
    BY <2>3 DEF FindNext, HasData, rest
  <2> QED
    BY <1>2, <2>1, <2>2, <2>3, IntoSearch
<1> QED
  BY <1>1, <1>2 DEF HasData

\* The sort exchanges the smallest of the elements it has not settled with the
\* first of them.
LEMMA SwapSettles ==
  ASSUME IInv, HasData, NEW i \in 0..Len(order), NEW l \in (i + 1)..Len(order),
         Settled(i), \A k \in (i + 1)..Len(order) : KeyAt(l) <= KeyAt(k),
         Swap(order[i + 1], order[l]), order' = order
  PROVE  \A j, k \in 1..Len(order') : j <= i + 1 /\ j < k => KeyAt(j)' <= KeyAt(k)'
<1> DEFINE g(k) == IF k = i + 1 THEN l ELSE IF k = l THEN i + 1 ELSE k
<1>0. Len(order) \in Nat /\ i \in Nat /\ l \in Nat /\ i + 1 \in 1..Len(order) /\ l \in 1..Len(order)
  BY OrderIs DEF OrderFacts
<1>1. /\ \A k \in 1..Len(order) : g(k) \in 1..Len(order)
      /\ \A k \in 1..Len(order) : k <= i => g(k) = k
      /\ \A k \in 1..Len(order) : k > i => g(k) \in (i + 1)..Len(order)
      /\ g(i + 1) = l
  BY <1>0
<1>2. ASSUME NEW k \in 1..Len(order) PROVE KeyAt(k)' = KeyAt(g(k))
  <2>1. /\ data \in [Node -> Data \cup {Junk}]
        /\ \A m, n \in 1..Len(order) : order[m] = order[n] => m = n
        /\ \A m \in 1..Len(order) : order[m] \in Node
    BY OrderIs DEF Typed, Distinct, OrderFacts
  <2>2. data'[order[k]] = data[order[g(k)]]
    BY <1>0, <2>1 DEF Swap
  <2> QED
    BY <2>2 DEF KeyAt
<1> HIDE DEF g
<1>3. \A k \in 1..Len(order) : KeyAt(k) \in Int
  BY KeysAre
<1> SUFFICES ASSUME NEW j \in 1..Len(order), NEW k \in 1..Len(order), j <= i + 1, j < k
             PROVE  KeyAt(g(j)) <= KeyAt(g(k))
  BY <1>2
<1>4. CASE j = i + 1
  BY <1>4, <1>0, <1>1
<1>5. CASE j <= i /\ k <= i
  BY <1>5, <1>0, <1>1 DEF Settled
<1>6. CASE j <= i /\ k > i
  <2>1. g(j) = j /\ g(k) \in 1..Len(order) /\ j < g(k)
    BY <1>6, <1>0, <1>1
  <2> QED
    BY <1>6, <2>1 DEF Settled
<1> QED
  BY <1>0, <1>4, <1>5, <1>6

\* Where a round of the sort begins.
LEMMA RoundBegins ==
  ASSUME NEW i \in 0..Len(order'), Settled(i)', s' = NextOf(i)', min' = NextOf(i)',
         Len(order') \in Nat
  PROVE  \E m \in 0..Len(order') :
            /\ Settled(m)'
            /\ m < Len(order') => \E n \in m..Len(order') : \E l \in (m + 1)..Len(order') :
                                     Smallest(m, n, l)'
<1>1. ASSUME i < Len(order') PROVE Smallest(i, i, i + 1)' /\ i + 1 \in (i + 1)..Len(order')
  BY <1>1 DEF Smallest, NextOf
<1>2. i < Len(order') => \E n \in i..Len(order') : \E l \in (i + 1)..Len(order') :
                            Smallest(i, n, l)'
  BY <1>1
<1> QED
  BY <1>2

LEMMA SortStep ==
  ASSUME IInv, HasData, SortPlace, [Next]_vars
  PROVE  SortPlace'
<1> DEFINE Goal == \E i \in 0..Len(order') :
                      /\ Settled(i)'
                      /\ i < Len(order') =>
                            \E m \in i..Len(order') : \E l \in (i + 1)..Len(order') :
                               Smallest(i, m, l)'
<1> SUFFICES ASSUME pc' = "sort"
             PROVE  Goal
  BY DEF SortPlace
<1>0. Len(order) \in Nat
  BY OrderIs DEF OrderFacts
<1>1. CASE UNCHANGED vars
  BY <1>1 DEF SortPlace, Settled, Smallest, NextOf, KeyAt, vars, links, locals, rest
<1>2. CASE Sort
  <2>1. p' = NextOf(0)' /\ s' = NextOf(0)' /\ min' = NextOf(0)' /\ order' = order
    BY <1>2, OrderIs DEF Sort, StartMinAt, Idle, Threaded, links, NextOf
  <2>2. Settled(0)' /\ 0 \in 0..Len(order')
    BY <2>1, <1>0 DEF Settled
  <2> QED
    BY <2>1, <2>2, <1>0, RoundBegins
<1>3. ASSUME pc = "sort", NEW i \in 0..Len(order), Settled(i),
             i < Len(order) => \E m \in i..Len(order) : \E l \in (i + 1)..Len(order) :
                                  Smallest(i, m, l),
             FindMin
      PROVE  Goal
  <2>1. /\ order' = order /\ data' = data /\ p' = p /\ s # Null
        /\ s' = next[s] /\ min' = IF Smaller(s, min) THEN s ELSE min
    BY <1>3 DEF FindMin, links
  <2>2. Settled(i)'
    BY <1>3, <2>1 DEF Settled, NextOf, KeyAt
  <2>3. ASSUME i < Len(order), NEW m \in i..Len(order), NEW l \in (i + 1)..Len(order),
               Smallest(i, m, l)
        PROVE  \E m1 \in i..Len(order) : \E l1 \in (i + 1)..Len(order) :
                  Smallest(i, m1, l1)'
    <3>1. /\ m + 1 \in 1..Len(order) /\ s = order[m + 1] /\ next[s] = NextOf(m + 1)
          /\ min = order[l]
      BY <2>1, <2>3, <1>0, <1>3, OrderIs DEF Smallest, OrderFacts, Threaded, NextOf
    <3>2. /\ m + 1 \in (i + 1)..Len(order) /\ m + 1 \in i..Len(order) /\ l \in 1..Len(order)
          /\ \A k \in (i + 1)..(m + 1) : k \in 1..Len(order) /\ (k = m + 1 \/ k \in (i + 1)..m)
      BY <3>1, <1>0
    <3>3. \A k \in 1..Len(order) : KeyAt(k) \in Int
      BY KeysAre
    <3>4. \A k \in (i + 1)..m : KeyAt(l) <= KeyAt(k)
      BY <2>3 DEF Smallest
    <3>5. CASE Smaller(s, min)
      <4>1. KeyAt(m + 1) < KeyAt(l)
        BY <3>1, <3>5 DEF Smaller, KeyAt
      <4>2. \A k \in (i + 1)..(m + 1) : KeyAt(m + 1) <= KeyAt(k)
        BY <3>2, <3>3, <3>4, <4>1
      <4>3. Smallest(i, m + 1, m + 1)'
        BY <2>1, <3>1, <3>5, <4>2 DEF Smallest, NextOf, KeyAt
      <4> QED
        BY <4>3, <3>2
    <3>6. CASE ~Smaller(s, min)
      <4>1. KeyAt(l) <= KeyAt(m + 1)
        BY <3>1, <3>2, <3>3, <3>6 DEF Smaller, KeyAt
      <4>2. \A k \in (i + 1)..(m + 1) : KeyAt(l) <= KeyAt(k)
        BY <3>2, <3>4, <4>1
      <4>3. Smallest(i, m + 1, l)'
        BY <2>1, <3>1, <3>6, <4>2 DEF Smallest, NextOf, KeyAt
      <4> QED
        BY <4>3, <3>2
    <3> QED
      BY <3>5, <3>6
  <2> QED
    BY <1>3, <2>1, <2>2, <2>3
<1>4. ASSUME pc = "sort", NEW i \in 0..Len(order), Settled(i),
             i < Len(order) => \E m \in i..Len(order) : \E l \in (i + 1)..Len(order) :
                                  Smallest(i, m, l),
             SwapMin
      PROVE  Goal
  <2>1. /\ order' = order /\ Swap(p, min) /\ s = Null /\ p # Null
        /\ p' = next[p] /\ s' = next[p] /\ min' = next[p]
    BY <1>4 DEF SwapMin, StartMinAt, links
  <2>2. i + 1 \in 1..Len(order) /\ p = order[i + 1] /\ next[p] = NextOf(i + 1)
    BY <2>1, <1>4, GoesTo DEF Settled
  <2>3. PICK m \in i..Len(order) : \E l \in (i + 1)..Len(order) : Smallest(i, m, l)
    BY <2>2, <1>0, <1>4
  <2>4. PICK l \in (i + 1)..Len(order) : Smallest(i, m, l)
    BY <2>3
  <2>5. m \in 0..Len(order) /\ NextOf(m) = Null
    BY <1>0, <2>1, <2>4 DEF Smallest
  <2>6. m = Len(order)
    BY <2>5, StandsAtEnd
  <2>7. /\ \A k \in (i + 1)..Len(order) : KeyAt(l) <= KeyAt(k)
        /\ min = order[l]
    BY <2>4, <2>6 DEF Smallest
  <2>8. \A j, k \in 1..Len(order') : j <= i + 1 /\ j < k => KeyAt(j)' <= KeyAt(k)'
    BY <1>4, <2>1, <2>2, <2>7, SwapSettles
  <2>9. NextOf(i + 1)' = NextOf(i + 1) /\ i + 1 \in 0..Len(order') /\ Len(order') \in Nat
    BY <2>1, <2>2, <1>0 DEF NextOf
  <2>10. Settled(i + 1)' /\ s' = NextOf(i + 1)' /\ min' = NextOf(i + 1)'
    BY <2>1, <2>2, <2>8, <2>9 DEF Settled
  <2> HIDE DEF Goal
  <2>11. Goal
    BY <2>9, <2>10, RoundBegins DEF Goal
  <2> QED
    BY <2>11
<1> HIDE DEF Goal
<1>5. CASE FindMin \/ SwapMin
  <2>1. pc = "sort"
    BY <1>5 DEF FindMin, SwapMin
  <2>2. PICK i \in 0..Len(order) :
          /\ Settled(i)
          /\ i < Len(order) => \E m \in i..Len(order) : \E l \in (i + 1)..Len(order) :
                                  Smallest(i, m, l)
    BY <2>1 DEF SortPlace
  <2> QED
    BY <1>3, <1>4, <1>5, <2>1, <2>2
<1> QED
  BY <1>1, <1>2, <1>5, IntoSort

\* What a callback adds stands before the elements there were.
Shifted(c) == /\ Len(order') = Len(order) + c
              /\ \A j \in 1..Len(order) : order'[j + c] = order[j]

LEMMA CallShifts ==
  ASSUME IInv, Call
  PROVE  \E c \in {0, 1} : Shifted(c)
<1>0. Len(order) \in Nat /\ order \in Seq(Node)
  BY OrderIs DEF OrderFacts, Typed
<1>1. CASE UNCHANGED <<data, links>>
  BY <1>1, <1>0 DEF Shifted, links
<1>2. ASSUME NEW n \in Node, NEW d \in Data, Prepend(n, d) PROVE Shifted(1)
  <2>1. order' = <<n>> \o order
    BY <1>2 DEF Prepend
  <2>2. /\ Len(<<n>> \o order) = Len(order) + 1
        /\ \A j \in 1..(Len(order) + 1) :
              (<<n>> \o order)[j] = IF j = 1 THEN n ELSE order[j - 1]
    BY <1>0, ConsFacts
  <2>3. \A j \in 1..Len(order) : j + 1 \in 1..(Len(order) + 1) /\ j + 1 # 1 /\ (j + 1) - 1 = j
    BY <1>0
  <2> QED
    BY <2>1, <2>2, <2>3 DEF Shifted
<1> QED
  BY <1>1, <1>2 DEF Call

LEMMA AppendIs ==
  ASSUME NEW v \in Seq(Node), NEW e \in Node, NEW w, w = Append(v, e)
  PROVE  /\ Len(v) \in Nat /\ Len(w) = Len(v) + 1
         /\ \A j \in 1..Len(v) : w[j] = v[j]
         /\ w[Len(v) + 1] = e
BY AppendProperties, LenProperties

\* What is where when a callback has run, and the links around it.
LEMMA CallLeads ==
  ASSUME IInv, IInv', Call, NEW c \in {0, 1}, Shifted(c)
  PROVE  /\ \A i \in 1..Len(order) :
               p = order[i] => /\ pc = "walk" => p' = NextOf(i + c)'
                               /\ pc = "walkBack" => p' = PrevOf(i + c)'
         /\ Len(visited) \in Nat /\ Len(visited') = Len(visited) + 1
         /\ \A j \in 1..Len(visited) : visited'[j] = visited[j]
         /\ visited'[Len(visited) + 1] = p
         /\ UNCHANGED <<pc, atStart>> /\ pc \in WalkPcs /\ p # Null
<1>1. UNCHANGED <<pc, atStart>> /\ pc \in WalkPcs /\ p # Null
  BY DEF Call
<1>2. visited \in Seq(Node) /\ p \in Node
  BY <1>1 DEF IInv, TypeOK
<1>3. /\ Len(visited) \in Nat /\ Len(visited') = Len(visited) + 1
      /\ \A j \in 1..Len(visited) : visited'[j] = visited[j]
      /\ visited'[Len(visited) + 1] = p
  <2>1. visited' = Append(visited, p)
    BY DEF Call
  <2> QED
    BY <1>2, <2>1, AppendIs
<1>4. Threaded'
  <2>1. pc' # "delete"
    BY <1>1 DEF WalkPcs
  <2> QED
    BY <2>1, PartsNext DEF IInv
<1>5. ASSUME NEW i \in 1..Len(order), p = order[i]
      PROVE  /\ pc = "walk" => p' = NextOf(i + c)'
             /\ pc = "walkBack" => p' = PrevOf(i + c)'
  <2>1. Len(order) \in Nat
    BY OrderIs DEF OrderFacts
  <2>2. i + c \in 1..Len(order') /\ order'[i + c] = p
    BY <1>5, <2>1 DEF Shifted
  <2>3. next'[p] = NextOf(i + c)' /\ prev'[p] = PrevOf(i + c)'
    BY <1>4, <2>2 DEF Threaded
  <2>4. p' = Following
    BY DEF Call
  <2> QED
    BY <2>3, <2>4 DEF Following
<1> QED
  BY <1>1, <1>3, <1>5

\* A walk forward.
WalkOn(k) == Added(k) /\ p = NextOf(k + Len(visited))

LEMMA ForwardCall ==
  ASSUME IInv, IInv', Call, pc = "walk", Prefix(visited, atStart),
         NEW k \in 0..Len(order), WalkOn(k)
  PROVE  /\ Prefix(visited, atStart)'
         /\ \E m \in 0..Len(order') : WalkOn(m)'
<1>1. PICK c \in {0, 1} : Shifted(c)
  BY CallShifts
<1>2. /\ \A i \in 1..Len(order) : p = order[i] => p' = NextOf(i + c)'
      /\ Len(visited) \in Nat /\ Len(visited') = Len(visited) + 1
      /\ \A j \in 1..Len(visited) : visited'[j] = visited[j]
      /\ visited'[Len(visited) + 1] = p
      /\ atStart' = atStart /\ p # Null
  BY <1>1, CallLeads
<1>3. Len(order) \in Nat /\ Len(atStart) \in Nat
  BY OrderIs, LenProperties DEF OrderFacts, Locals
<1>4. k + Len(visited) \in 0..Len(order)
  BY <1>2, <1>3 DEF WalkOn, Added, Prefix
<1>5. k + Len(visited) + 1 \in 1..Len(order) /\ p = order[k + Len(visited) + 1]
  BY <1>2, <1>4, GoesTo DEF WalkOn
<1>6. Len(visited) + 1 \in 1..Len(atStart) /\ p = atStart[Len(visited) + 1]
  <2>1. Len(order) = k + Len(atStart)
    BY DEF WalkOn, Added
  <2>2. Len(visited) + 1 \in 1..Len(atStart) /\ k + (Len(visited) + 1) = k + Len(visited) + 1
    BY <2>1, <1>2, <1>3, <1>5
  <2> QED
    BY <2>2, <1>5 DEF WalkOn, Added
<1>7. Prefix(visited, atStart)'
  <2>1. Len(visited') <= Len(atStart')
    BY <1>2, <1>6
  <2>2. ASSUME NEW j \in 1..Len(visited') PROVE visited'[j] = atStart'[j]
    <3>1. j \in 1..Len(visited) \/ j = Len(visited) + 1
      BY <1>2
    <3> QED
      BY <3>1, <1>2, <1>6 DEF Prefix
  <2> QED
    BY <2>1, <2>2 DEF Prefix
<1>8. k + c \in 0..Len(order') /\ (k + c) + Len(visited') = (k + Len(visited) + 1) + c
  BY <1>1, <1>2, <1>3, <1>5 DEF Shifted
<1>9. p' = NextOf((k + c) + Len(visited))'
  <2>1. PICK n \in 1..Len(order) : n = k + Len(visited) + 1
    BY <1>5
  <2>2. p' = NextOf(n + c)'
    BY <2>1, <1>2, <1>5
  <2>3. n + c = (k + c) + Len(visited')
    BY <2>1, <1>8
  <2> QED
    BY <2>2, <2>3 DEF NextOf
<1>10. Added(k + c)'
  <2>1. Len(order') = (k + c) + Len(atStart')
    BY <1>1, <1>2, <1>3 DEF Shifted, WalkOn, Added
  <2>2. ASSUME NEW j \in 1..Len(atStart') PROVE order'[(k + c) + j] = atStart'[j]
    <3>1. k + j \in 1..Len(order) /\ (k + c) + j = (k + j) + c /\ j \in 1..Len(atStart)
      BY <1>2, <1>3 DEF WalkOn, Added
    <3> QED
      BY <3>1, <1>1, <1>2 DEF Shifted, WalkOn, Added
  <2> QED
    BY <2>1, <2>2 DEF Added
<1> QED
  BY <1>7, <1>8, <1>9, <1>10 DEF WalkOn

\* A walk backward.
BackOn == /\ Len(visited) <= Len(order)
          /\ p = PrevOf(Len(order) + 1 - Len(visited))
          /\ \A j \in 1..Len(visited) : visited[j] = order[Len(order) + 1 - j]

LEMMA BackwardCall ==
  ASSUME IInv, IInv', Call, pc = "walkBack", BackOn
  PROVE  BackOn'
<1>1. PICK c \in {0, 1} : Shifted(c)
  BY CallShifts
<1>2. /\ \A i \in 1..Len(order) : p = order[i] => p' = PrevOf(i + c)'
      /\ Len(visited) \in Nat /\ Len(visited') = Len(visited) + 1
      /\ \A j \in 1..Len(visited) : visited'[j] = visited[j]
      /\ visited'[Len(visited) + 1] = p
      /\ p # Null
  BY <1>1, CallLeads
<1>3. Len(order) \in Nat
  BY OrderIs DEF OrderFacts
<1>4. PICK i \in 1..Len(order) : i = Len(order) - Len(visited) /\ p = order[i]
  BY <1>2, <1>3 DEF BackOn, PrevOf
<1>5. Len(order') = Len(order) + c /\ Len(order') + 1 - Len(visited') = i + c
  BY <1>1, <1>2, <1>3, <1>4 DEF Shifted
<1>6. p' = PrevOf(Len(order) + 1 - Len(visited))' /\ Len(visited') <= Len(order')
  <2>1. p' = PrevOf(i + c)'
    BY <1>2, <1>4
  <2>2. Len(visited') <= Len(order')
    BY <1>2, <1>3, <1>4, <1>5
  <2> QED
    BY <2>1, <2>2, <1>5 DEF PrevOf
<1>7. ASSUME NEW j \in 1..Len(visited') PROVE visited'[j] = order'[Len(order') + 1 - j]
  <2>1. CASE j = Len(visited) + 1
    <3>1. Len(order') + 1 - j = i + c
      BY <2>1, <1>2, <1>5
    <3> QED
      BY <3>1, <2>1, <1>1, <1>2, <1>4 DEF Shifted
  <2>2. CASE j # Len(visited) + 1
    <3>1. j \in 1..Len(visited) /\ Len(visited) <= Len(order)
      BY <2>2, <1>2 DEF BackOn
    <3>2. /\ Len(order) + 1 - j \in 1..Len(order)
          /\ Len(order') + 1 - j = (Len(order) + 1 - j) + c
      BY <3>1, <1>2, <1>3, <1>5
    <3> QED
      BY <3>1, <3>2, <1>1, <1>2 DEF BackOn, Shifted
  <2> QED
    BY <2>1, <2>2
<1> QED
  BY <1>6, <1>7 DEF BackOn

\* The destruction of the list.
FreeOn == /\ Prefix(visited, atStart)
          /\ Len(atStart) = Len(visited) + Len(order)
          /\ \A j \in 1..Len(order) : order[j] = atStart[Len(visited) + j]

LEMMA FreeOneGoes ==
  ASSUME IInv, FreeOne, FreeOn
  PROVE  FreeOn'
<1>1. pc = "delete" /\ p # Null /\ p = NextOf(0) /\ OrderFacts /\ Typed /\ visited \in Seq(Node)
  BY OrderIs DEF FreeOne, IInv, Cursors, Locals
<1>2. Len(order) > 0 /\ order # << >> /\ p = order[1] /\ p \in Node
  BY <1>1 DEF NextOf, OrderFacts
<1>3. /\ Len(order') = Len(order) - 1
      /\ \A i \in 1..Len(order') : order'[i] = order[i + 1]
  BY <1>1, <1>2, HeadTailProperties DEF FreeOne, Typed
<1>4. /\ Len(visited) \in Nat /\ Len(visited') = Len(visited) + 1
      /\ \A j \in 1..Len(visited) : visited'[j] = visited[j]
      /\ visited'[Len(visited) + 1] = p
  <2>1. visited' = Append(visited, p)
    BY DEF FreeOne
  <2> QED
    BY <1>1, <1>2, <2>1, AppendIs
<1>5. atStart' = atStart /\ Len(order) \in Nat
  BY <1>1 DEF FreeOne, OrderFacts
<1>6. p = atStart[Len(visited) + 1]
  <2>1. 1 \in 1..Len(order)
    BY <1>2, <1>5
  <2>2. \A j \in 1..Len(order) : order[j] = atStart[Len(visited) + j]
    BY DEF FreeOn
  <2> QED
    BY <2>1, <2>2, <1>2
<1>7. Len(atStart') = Len(visited') + Len(order')
  <2>1. Len(atStart) = Len(visited) + Len(order)
    BY DEF FreeOn
  <2>2. Len(order') = Len(order) - 1
    BY <1>3
  <2>3. Len(visited') = Len(visited) + 1 /\ Len(visited) \in Nat
    BY <1>4
  <2>4. Len(atStart') = Len(atStart) /\ Len(order) \in Nat
    BY <1>5
  <2> QED
    BY <2>1, <2>2, <2>3, <2>4
<1>8. ASSUME NEW j \in 1..Len(order') PROVE order'[j] = atStart'[Len(visited') + j]
  <2>1. j + 1 \in 1..Len(order) /\ Len(visited') + j = Len(visited) + (j + 1)
    BY <1>3, <1>4, <1>5
  <2> QED
    BY <2>1, <1>3, <1>5 DEF FreeOn
<1>9. Prefix(visited, atStart)'
  <2>1. Len(visited') <= Len(atStart')
    BY <1>2, <1>4, <1>5 DEF FreeOn
  <2>2. ASSUME NEW j \in 1..Len(visited') PROVE visited'[j] = atStart'[j]
    <3>1. j \in 1..Len(visited) \/ j = Len(visited) + 1
      BY <1>4
    <3> QED
      BY <3>1, <1>4, <1>5, <1>6 DEF FreeOn, Prefix
  <2> QED
    BY <2>1, <2>2 DEF Prefix
<1> QED
  BY <1>7, <1>8, <1>9 DEF FreeOn

LEMMA WalkParts ==
  WalkPlace <=> /\ pc = "walk" => Prefix(visited, atStart) /\ \E k \in 0..Len(order) : WalkOn(k)
                /\ pc = "walkBack" => BackOn
                /\ pc = "delete" => FreeOn
                /\ pc \notin WalkPcs \cup {"delete"} => visited = << >>
BY DEF WalkPlace, WalkOn, BackOn, FreeOn

LEMMA WalkPartsNext ==
  WalkPlace' <=> /\ pc' = "walk" => Prefix(visited, atStart)' /\ \E k \in 0..Len(order') : WalkOn(k)'
                 /\ pc' = "walkBack" => BackOn'
                 /\ pc' = "delete" => FreeOn'
                 /\ pc' \notin WalkPcs \cup {"delete"} => visited' = << >>
BY DEF WalkPlace, WalkOn, BackOn, FreeOn

\* Nothing is visited yet.
LEMMA WalkBegins ==
  ASSUME IInv, IInv', pc = "idle", visited = << >>, visited' = << >>,
         order' = order, atStart' = order
  PROVE  /\ p' = head => Prefix(visited, atStart)' /\ \E k \in 0..Len(order') : WalkOn(k)'
         /\ p' = tail => BackOn'
         /\ FreeOn'
<1>1. /\ Len(order) \in Nat /\ head = NextOf(0) /\ tail = PrevOf(Len(order) + 1)
      /\ Len(visited') = 0 /\ Len(order') = Len(order) /\ Len(atStart') = Len(order)
  BY OrderIs DEF OrderFacts, Threaded
<1>2. Prefix(visited, atStart)'
  BY <1>1 DEF Prefix
<1>3. p' = head => WalkOn(0)' /\ 0 \in 0..Len(order')
  BY <1>1 DEF WalkOn, Added, NextOf
<1>4. p' = tail => BackOn'
  BY <1>1 DEF BackOn, PrevOf
<1>5. FreeOn'
  BY <1>1, <1>2 DEF FreeOn
<1> QED
  BY <1>2, <1>3, <1>4, <1>5

LEMMA WalkStep ==
  ASSUME IInv, IInv', WalkPlace, [Next]_vars
  PROVE  WalkPlace'
<1>1. CASE UNCHANGED vars
  BY <1>1 DEF WalkPlace, Prefix, Added, NextOf, PrevOf, vars, links, locals, rest
<1>2. ASSUME pc' \in WalkPcs, ~UNCHANGED vars PROVE WalkPlace'
  <2>1. CASE Lambda(pc')
    <3>1. /\ pc = "idle" /\ visited = << >> /\ visited' = << >> /\ order' = order
          /\ atStart' = order /\ p' = IF pc' = "walk" THEN head ELSE tail
      BY <2>1 DEF Lambda, Idle, links, WalkPlace, WalkPcs
    <3> QED
      BY <1>2, <3>1, WalkBegins, WalkPartsNext DEF WalkPcs
  <2>2. CASE Call /\ pc' = pc
    <3>1. pc = "walk" => Prefix(visited, atStart) /\ \E k \in 0..Len(order) : WalkOn(k)
      BY WalkParts
    <3>2. pc = "walkBack" => BackOn
      BY WalkParts
    <3>3. pc' = "walk" => Prefix(visited, atStart)' /\ \E k \in 0..Len(order') : WalkOn(k)'
      BY <2>2, <3>1, ForwardCall
    <3>4. pc' = "walkBack" => BackOn'
      BY <2>2, <3>2, BackwardCall
    <3> QED
      BY <1>2, <3>3, <3>4, WalkPartsNext DEF WalkPcs
  <2> QED
    BY <1>2, <2>1, <2>2, IntoWalk
<1>3. ASSUME pc' = "delete", ~UNCHANGED vars PROVE WalkPlace'
  <2>1. CASE Delete
    <3>1. /\ pc = "idle" /\ visited = << >> /\ visited' = << >> /\ order' = order
          /\ atStart' = order
      BY <2>1 DEF Delete, Idle, links, WalkPlace, WalkPcs
    <3>2. FreeOn'
      BY <3>1, WalkBegins
    <3> QED
      BY <1>3, <3>2, WalkPartsNext DEF WalkPcs
  <2>2. CASE FreeOne
    <3>1. pc = "delete" /\ FreeOn
      BY <2>2, WalkParts DEF FreeOne
    <3>2. FreeOn'
      BY <2>2, <3>1, FreeOneGoes
    <3> QED
      BY <1>3, <3>2, WalkPartsNext DEF WalkPcs
  <2> QED
    BY <1>3, <2>1, <2>2, IntoDelete
<1>4. ASSUME pc' \notin WalkPcs \cup {"delete"}, ~UNCHANGED vars PROVE visited' = << >>
  <2>1. CASE Whole
    <3>1. pc = "idle" /\ visited' = visited
      BY <2>1, WholeIdle DEF Whole, Create, AddData, DelElem, SwapElems, locals, rest
    <3> QED
      BY <3>1 DEF WalkPlace, WalkPcs
  <2>2. CASE Starts
    <3>1. pc = "idle" /\ visited' = visited
      BY <2>2, StartsBusy DEF Starts, AddSorted, Find, Lambda, Sort, Delete
    <3> QED
      BY <3>1 DEF WalkPlace, WalkPcs
  <2>3. CASE Loops
    <3>1. pc' = pc
      BY <2>3, LoopsStay
    <3>2. visited' = visited
      BY <1>4, <2>3, <3>1
         DEF Loops, InsertNext, FindNext, Call, FindMin, SwapMin, FreeOne, rest
    <3> QED
      BY <1>4, <3>1, <3>2 DEF WalkPlace
  <2>4. CASE Ends
    BY <2>4, EndsIdle DEF Return
  <2> QED
    BY <1>4, <2>1, <2>2, <2>3, <2>4, Kinds
<1>5. ASSUME pc' \notin WalkPcs \cup {"delete"}, ~UNCHANGED vars PROVE WalkPlace'
  BY <1>4, <1>5, WalkPartsNext DEF WalkPcs
<1> QED
  BY <1>1, <1>2, <1>3, <1>5

LEMMA InitPlaces == Init => Places
BY DEF Init, Places, HasData, SearchPlace, InsertPlace, SortPlace, WalkPlace, FindPcs, WalkPcs

LEMMA NextPlaces == IInv /\ Places /\ [Next]_vars => Places'
<1> SUFFICES ASSUME IInv, Places, [Next]_vars PROVE Places'
  OBVIOUS
<1>1. IInv'
  BY NextIInv
<1> QED
  BY <1>1, HasDataStep, SearchStep, InsertStep, SortStep, WalkStep DEF Places

\* At every iteration of every loop the call is as far as its pointers say.
THEOREM PlacesHold == Spec => []Places
<1>1. Spec => []IInv
  BY InvariantHolds
<1>2. Init => Places
  BY InitPlaces
<1>3. IInv /\ Places /\ [Next]_vars => Places'
  BY NextPlaces
<1> QED
  BY <1>1, <1>2, <1>3, PTL DEF Spec

-----------------------------------------------------------------------------
(***************************************************************************)
(* What a call has done when it returns.                                   *)
(***************************************************************************)
LEMMA ReturnIs ==
  ASSUME IInv, [Next]_vars, Returning
  PROVE  Ends
<1>1. ~UNCHANGED vars
  BY DEF Returning, vars
<1> QED
  BY <1>1, Kinds, WholeIdle, LoopsStay, StartsBusy DEF Returning

\* A search that stops at an element has passed all those before it; one that
\* stops without has passed them all, or the rest is too small to match.
LEMMA Hit ==
  ASSUME IInv, SearchPlace, pc \in {"find", "lookup", "sorted"}, p # Null, Matches(p)
  PROVE  FirstMatch(p)
<1>1. PICK i \in 0..Len(order) : Passed(i)
  BY DEF SearchPlace, FindPcs
<1>2. i + 1 \in 1..Len(order) /\ p = order[i + 1] /\ DOMAIN order = 1..Len(order)
  BY <1>1, GoesTo, OrderIs DEF Passed, OrderFacts
<1>3. \A e : Wanted(e) <=> Matches(e)
  BY DEF Wanted, Matches
<1>4. \A j \in 1..((i + 1) - 1) : ~Wanted(order[j])
  <2>1. \A j \in 1..((i + 1) - 1) : j \in 1..i
    OBVIOUS
  <2> QED
    BY <2>1, <1>1, <1>3 DEF Passed
<1> HIDE DEF Wanted, Matches
<1>5. i + 1 \in DOMAIN order /\ order[i + 1] = p /\ Wanted(p)
  BY <1>2, <1>3
<1> QED
  BY <1>4, <1>5 DEF FirstMatch

LEMMA Miss ==
  ASSUME IInv, HasData, SearchPlace, FindOver,
         pc \in {"find", "lookup"} \/ (pc = "sorted" /\ Descending)
  PROVE  NoMatch
<1>1. PICK i \in 0..Len(order) : Passed(i)
  BY DEF SearchPlace, FindPcs
<1>2. Len(order) \in Nat /\ DOMAIN order = 1..Len(order)
  BY OrderIs DEF OrderFacts
<1>3. \A e : Wanted(e) <=> Matches(e)
  BY DEF Wanted, Matches
<1>4. \A j \in 1..i : ~Wanted(order[j])
  BY <1>1, <1>3 DEF Passed
<1>5. CASE p = Null
  <2>1. i = Len(order)
    BY <1>1, <1>5, StandsAtEnd DEF Passed
  <2> QED
    BY <2>1, <1>2, <1>4 DEF NoMatch
<1>6. CASE p # Null
  <2>1. pc = "sorted" /\ Descending /\ Key[arg] > Key[data[p]]
    BY <1>6 DEF FindOver, GivesUp
  <2>2. i + 1 \in 1..Len(order) /\ p = order[i + 1]
    BY <1>1, <1>6, <2>1, GoesTo DEF Passed
  <2>3. Key[arg] \in Int /\ \A k \in 1..Len(order) : Key[data[order[k]]] \in Int
    BY <2>1, KeysAre DEF HasData, FindPcs, KeyAt
  <2>4. \A k \in 1..Len(order) : k > i + 1 => Key[data[order[k]]] <= Key[data[order[i + 1]]]
    BY <2>1, <2>2, <2>3, <1>2 DEF Descending
  <2>5. ASSUME NEW k \in 1..Len(order) PROVE ~Wanted(order[k])
    <3>1. CASE k <= i
      BY <3>1, <1>4
    <3>2. CASE k > i
      <4>1. k > i + 1 \/ k = i + 1
        BY <3>2
      <4>2. Key[data[order[k]]] < Key[arg]
        BY <4>1, <2>1, <2>2, <2>3, <2>4
      <4> QED
        BY <4>2, <2>1, <2>3 DEF Wanted
    <3> QED
      BY <3>1, <3>2
  <2> QED
    BY <2>5, <1>2 DEF NoMatch
<1> QED
  BY <1>5, <1>6

LEMMA SearchEnds ==
  ASSUME IInv, Places, [Next]_vars, Returning,
         pc \in {"find", "lookup"} \/ (pc = "sorted" /\ Descending)
  PROVE  IF ret' = Null THEN NoMatch ELSE FirstMatch(ret')
<1>1. Ends
  BY ReturnIs
<1>2. FindHit \/ FindMiss
  BY <1>1 DEF Ends, InsertHere, FindAndDelete, LambdaEnds, SortEnds, DeleteEnds, WalkPcs
<1>3. CASE FindHit
  <2>1. p # Null /\ Matches(p) /\ ret' = p
    BY <1>3 DEF FindHit
  <2>2. FirstMatch(p)
    BY <2>1, Hit DEF Places
  <2> QED
    BY <2>1, <2>2
<1>4. CASE FindMiss
  <2>1. FindOver /\ ret' = Null
    BY <1>4 DEF FindMiss
  <2>2. NoMatch
    BY <2>1, Miss DEF Places
  <2> QED
    BY <2>1, <2>2
<1> QED
  BY <1>2, <1>3, <1>4

\* Each of the three searches of mmp_list.c returns the first element that
\* matches, and NULL only if none does; mmp_list_find_data_sorted does so on
\* a list in descending order.
THEOREM SearchesAreExact == Spec => FindIsExact
<1> DEFINE Found == Returning /\ (pc \in {"find", "lookup"} \/ (pc = "sorted" /\ Descending))
                       => IF ret' = Null THEN NoMatch ELSE FirstMatch(ret')
<1>1. IInv /\ Places /\ [Next]_vars => [Found]_vars
  BY SearchEnds
<1> HIDE DEF Found
<1>2. Spec => [][Found]_vars
  BY <1>1, InvariantHolds, PlacesHold, PTL DEF Spec
<1> QED
  BY <1>2 DEF FindIsExact, Found

LEMMA InsertedAt ==
  ASSUME order \in Seq(Node), NEW k \in 1..(Len(order) + 1), NEW n \in Node,
         order' = InsertAt(order, k, n)
  PROVE  Inserted(n, k)
<1>1. /\ InsertAt(order, k, n) \in Seq(Node)
      /\ Len(InsertAt(order, k, n)) = Len(order) + 1
      /\ \A j \in 1..(Len(order) + 1) :
            InsertAt(order, k, n)[j] = IF j < k THEN order[j]
                                       ELSE IF j = k THEN n ELSE order[j - 1]
  BY SMTT(60), InsertAtFacts
<1> QED
  BY <1>1 DEF Inserted

\* The walk of mmp_list_add_data_sorted stops where the new element belongs.
Belongs(i) == /\ \A k \in 1..i : KeyAt(k) > Key[data[nu]]
              /\ i < Len(order) => KeyAt(i + 1) <= Key[data[nu]]
              /\ Inserted(nu, i + 1)

LEMMA InsertsWhere ==
  ASSUME IInv, HasData, InsertPlace, InsertHere
  PROVE  \E i \in 0..Len(order) : Belongs(i)
<1>0. pc = "insert" /\ data' = data
  BY DEF InsertHere
<1>1. PICK i \in 0..Len(order) : Above(i)
  BY <1>0 DEF InsertPlace
<1>2. /\ order \in Seq(Node) /\ OrderFacts /\ Distinct /\ nu \in Node
      /\ nu \in alive
  BY <1>0, OrderIs DEF IInv, Owned, Cursors, Typed
<1>3. Len(order) \in Nat
  BY <1>2 DEF OrderFacts
<1>4. PlaceOf(p) = i + 1
  <2>1. CASE p = Null
    <3>1. i = Len(order)
      BY <1>1, <2>1, StandsAtEnd DEF Above
    <3> QED
      BY <2>1, <3>1 DEF PlaceOf
  <2>2. CASE p # Null
    <3>1. i + 1 \in 1..Len(order) /\ p = order[i + 1]
      BY <1>0, <1>1, <2>2, GoesTo DEF Above
    <3>2. p \in ToSet(order)
      BY <3>1, <1>2 DEF OrderFacts
    <3>3. PlaceOf(p) \in 1..Len(order) /\ order[PlaceOf(p)] = p
      BY <3>2, <1>2, PlaceInOrder
    <3> QED
      BY <3>1, <3>3, <1>2 DEF Distinct
  <2> QED
    BY <2>1, <2>2
<1>5. Inserted(nu, i + 1)
  <2>1. order' = InsertAt(order, i + 1, nu)
    BY <1>4 DEF InsertHere
  <2>2. i + 1 \in 1..(Len(order) + 1)
    BY <1>3
  <2> QED
    BY <2>1, <2>2, <1>2, InsertedAt
<1>6. \A k \in 1..i : KeyAt(k) > Key[data[nu]]
  BY <1>1 DEF Above, Before, KeyAt
<1>7. ASSUME i < Len(order) PROVE KeyAt(i + 1) <= Key[data[nu]]
  <2>1. p # Null
    <3>1. NextOf(i) = Null => i = Len(order)
      BY StandsAtEnd
    <3> QED
      BY <3>1, <1>1, <1>3, <1>7 DEF Above
  <2>2. i + 1 \in 1..Len(order) /\ p = order[i + 1]
    BY <1>0, <1>1, <2>1, GoesTo DEF Above
  <2>3. ~(KeyAt(i + 1) > Key[data[nu]])
    BY <2>1, <2>2 DEF InsertHere, Before, KeyAt
  <2>4. KeyAt(i + 1) \in Int /\ Key[data[nu]] \in Int
    BY <1>2, <2>2, KeysAre DEF HasData
  <2> QED
    BY <2>3, <2>4
<1> QED
  BY <1>5, <1>6, <1>7 DEF Belongs

LEMMA InsertKeepsOrder ==
  ASSUME IInv, HasData, InsertPlace, InsertHere, Descending
  PROVE  Descending'
<1>0. pc = "insert" /\ data' = data
  BY DEF InsertHere
<1>1. PICK i \in 0..Len(order) : Belongs(i)
  BY InsertsWhere
<1>2. nu \in alive
  BY <1>0 DEF IInv, Owned
<1>3. Len(order) \in Nat /\ DOMAIN order = 1..Len(order)
  BY OrderIs DEF OrderFacts
<1>6. Inserted(nu, i + 1)
  BY <1>1 DEF Belongs
<1> DEFINE new == Key[data[nu]]
<1>7. new \in Int /\ \A k \in 1..Len(order) : KeyAt(k) \in Int
  BY <1>2, KeysAre DEF HasData
<1>8. \A k \in 1..Len(order) : k <= i => KeyAt(k) > new
  BY <1>1, <1>3 DEF Belongs
<1>9. \A j, k \in 1..Len(order) : j < k => KeyAt(j) >= KeyAt(k)
  BY <1>3 DEF Descending, KeyAt
<1>10. ASSUME NEW k \in 1..Len(order), k > i PROVE KeyAt(k) <= new
  <2>1. i + 1 \in 1..Len(order) /\ KeyAt(i + 1) <= new
    BY <1>1, <1>3, <1>10 DEF Belongs
  <2>2. k = i + 1 \/ KeyAt(i + 1) >= KeyAt(k)
    BY <2>1, <1>9, <1>10
  <2> QED
    BY <2>1, <2>2, <1>7
<1>11. Len(order') = Len(order) + 1 /\ DOMAIN order' = 1..Len(order')
  BY <1>6, OrderHasNext DEF Inserted, OrderFacts
<1>12. ASSUME NEW j \in 1..(Len(order) + 1)
       PROVE  KeyAt(j)' = IF j < i + 1 THEN KeyAt(j)
                          ELSE IF j = i + 1 THEN new ELSE KeyAt(j - 1)
  <2>1. order'[j] = IF j < i + 1 THEN order[j] ELSE IF j = i + 1 THEN nu ELSE order[j - 1]
    BY <1>6 DEF Inserted
  <2> QED
    BY <2>1, <1>0 DEF KeyAt
<1> HIDE DEF new
<1>13. ASSUME NEW j \in 1..(Len(order) + 1), NEW k \in 1..(Len(order) + 1), j < k
       PROVE  KeyAt(j)' >= KeyAt(k)'
  <2>1. CASE k < i + 1
    BY <2>1, <1>3, <1>9, <1>12, <1>13
  <2>2. CASE k = i + 1
    BY <2>2, <1>3, <1>7, <1>8, <1>12, <1>13
  <2>3. CASE k > i + 1
    <3>1. k - 1 \in 1..Len(order) /\ k - 1 > i /\ KeyAt(k)' = KeyAt(k - 1)
      BY <2>3, <1>3, <1>12
    <3>2. CASE j < i + 1
      <4>1. j \in 1..Len(order) /\ j < k - 1 /\ KeyAt(j)' = KeyAt(j)
        BY <3>1, <3>2, <1>3, <1>12
      <4> QED
        BY <3>1, <4>1, <1>9
    <3>3. CASE j = i + 1
      BY <3>1, <3>3, <1>7, <1>10, <1>12
    <3>4. CASE j > i + 1
      <4>1. j - 1 \in 1..Len(order) /\ j - 1 < k - 1 /\ KeyAt(j)' = KeyAt(j - 1)
        BY <3>4, <1>3, <1>12, <1>13
      <4> QED
        BY <3>1, <4>1, <1>9
    <3> QED
      BY <3>2, <3>3, <3>4, <1>3
  <2> QED
    BY <2>1, <2>2, <2>3, <1>3
<1> QED
  BY <1>11, <1>13 DEF Descending, KeyAt

LEMMA KeepsOrder ==
  ASSUME IInv, Places, [Next]_vars, pc = "insert", Descending
  PROVE  Descending'
<1>1. CASE UNCHANGED vars
  BY <1>1 DEF Descending, vars, links
<1>2. CASE InsertNext
  BY <1>2 DEF InsertNext, Descending, links
<1>3. CASE InsertHere
  BY <1>3, InsertKeepsOrder DEF Places
<1>4. Loops => InsertNext
  BY DEF Loops, FindNext, Call, FindMin, SwapMin, FreeOne, FindPcs, WalkPcs
<1>5. Ends => InsertHere
  BY DEF Ends, FindHit, FindAndDelete, FindMiss, LambdaEnds, SortEnds, DeleteEnds, FindPcs, WalkPcs
<1> QED
  BY <1>1, <1>2, <1>3, <1>4, <1>5, Kinds, WholeIdle, StartsBusy

LEMMA SortsUp ==
  ASSUME IInv, Places, [Next]_vars, Returning, pc = "sort"
  PROVE  Ascending'
<1>1. SortEnds
  BY ReturnIs DEF Ends, InsertHere, FindHit, FindAndDelete, FindMiss, LambdaEnds, DeleteEnds, FindPcs, WalkPcs
<1>2. p = Null /\ order' = order /\ data' = data
  BY <1>1 DEF SortEnds, links
<1>3. PICK i \in 0..Len(order) : Settled(i)
  BY DEF Places, SortPlace
<1>4. i = Len(order) /\ DOMAIN order = 1..Len(order) /\ Len(order) \in Nat
  BY <1>2, <1>3, StandsAtEnd, OrderIs DEF Settled, OrderFacts
<1>5. \A j, k \in 1..Len(order) : j < k => KeyAt(j) <= KeyAt(k)
  BY <1>3, <1>4 DEF Settled
<1> QED
  BY <1>2, <1>4, <1>5 DEF Ascending, KeyAt

\* mmp_list_add_data_sorted keeps a list in descending order, and
\* mmp_list_sort_by_data leaves it in ascending order.
THEOREM OrderKept == Spec => Ordered
<1> DEFINE Sorted == /\ pc = "insert" /\ Descending => Descending'
                     /\ Returning /\ pc = "sort" => Ascending'
<1>1. IInv /\ Places /\ [Next]_vars => [Sorted]_vars
  BY KeepsOrder, SortsUp
<1> HIDE DEF Sorted
<1>2. Spec => [][Sorted]_vars
  BY <1>1, InvariantHolds, PlacesHold, PTL DEF Spec
<1> QED
  BY <1>2 DEF Ordered, Sorted

\* Two sequences of the same elements are the same.
LEMMA SameSeq ==
  ASSUME NEW v \in Seq(Node), NEW w \in Seq(Node), Len(v) = Len(w),
         \A j \in 1..Len(v) : v[j] = w[j]
  PROVE  v = w
BY SeqEqual

LEMMA VisitsAll ==
  ASSUME IInv, Places, [Next]_vars, Returning
  PROVE  CASE pc \in {"walk", "delete"} -> visited = atStart
           [] pc = "walkBack" -> visited = Reverse(order)
           [] OTHER -> TRUE
<1>0. /\ visited \in Seq(Node) /\ atStart \in Seq(Node) /\ order \in Seq(Node)
      /\ Len(visited) \in Nat /\ Len(atStart) \in Nat /\ Len(order) \in Nat
  BY OrderIs, LenProperties DEF Locals, Typed
<1>1. ASSUME pc \in WalkPcs PROVE p = Null
  BY <1>1, ReturnIs
     DEF Ends, InsertHere, FindHit, FindAndDelete, FindMiss, LambdaEnds, SortEnds, DeleteEnds, FindPcs, WalkPcs
<1>2. ASSUME pc = "walk" PROVE visited = atStart
  <2>1. Prefix(visited, atStart) /\ \E k \in 0..Len(order) : WalkOn(k)
    BY <1>2, WalkParts DEF Places
  <2>2. PICK k \in 0..Len(order) : WalkOn(k)
    BY <2>1
  <2>3. /\ Len(order) = k + Len(atStart) /\ NextOf(k + Len(visited)) = Null
        /\ Len(visited) <= Len(atStart)
    BY <1>1, <1>2, <2>1, <2>2 DEF WalkOn, Added, Prefix, WalkPcs
  <2>4. k + Len(visited) = Len(order)
    <3>1. k + Len(visited) \in 0..Len(order)
      BY <2>3, <1>0
    <3> QED
      BY <3>1, <2>3, StandsAtEnd
  <2>5. Len(visited) = Len(atStart)
    BY <2>3, <2>4, <1>0
  <2> QED
    BY <2>1, <2>5, <1>0, SameSeq DEF Prefix
<1>3. ASSUME pc = "delete" PROVE visited = atStart
  <2>1. FreeOn
    BY <1>3, WalkParts DEF Places
  <2>2. p = Null
    BY <1>3, ReturnIs
       DEF Ends, InsertHere, FindHit, FindAndDelete, FindMiss, LambdaEnds, SortEnds, DeleteEnds, FindPcs, WalkPcs, FreedAll
  <2>3. NextOf(0) = Null
    BY <1>3, <2>2 DEF IInv, Cursors
  <2>4. Len(order) = 0
    BY <2>3, <1>0, StandsAtEnd
  <2>5. Len(visited) = Len(atStart) /\ Prefix(visited, atStart)
    BY <2>1, <2>4, <1>0 DEF FreeOn
  <2> QED
    BY <2>5, <1>0, SameSeq DEF Prefix
<1>4. ASSUME pc = "walkBack" PROVE visited = Reverse(order)
  <2>1. BackOn
    BY <1>4, WalkParts DEF Places
  <2>2. Len(visited) = Len(order)
    <3>1. Len(visited) <= Len(order) /\ PrevOf(Len(order) + 1 - Len(visited)) = Null
      BY <1>1, <1>4, <2>1 DEF BackOn, WalkPcs
    <3>2. CASE Len(visited) < Len(order)
      <4>1. PrevOf(Len(order) + 1 - Len(visited)) = order[Len(order) - Len(visited)]
        BY <3>2, <1>0 DEF PrevOf
      <4>2. Len(order) - Len(visited) \in 1..Len(order)
        BY <3>2, <1>0
      <4> QED
        BY <3>1, <4>1, <4>2, OrderIs DEF OrderFacts
    <3> QED
      BY <3>1, <3>2, <1>0
  <2>3. \A j \in 1..Len(visited) : visited[j] = order[Len(order) - j + 1]
    <3>1. \A j \in 1..Len(visited) : Len(order) + 1 - j = Len(order) - j + 1
      BY <1>0
    <3> QED
      BY <3>1, <2>1 DEF BackOn
  <2>4. visited = [i \in 1..Len(visited) |-> visited[i]]
    BY <1>0
  <2> QED
    BY <2>2, <2>3, <2>4 DEF Reverse
<1> QED
  BY <1>2, <1>3, <1>4

\* A lambda function calls fnc once on every element the list had when it was
\* called, in the order of its direction, whatever fnc adds, and
\* mmp_list_delete_withdata calls cback once on every element, in order.
THEOREM VisitsEvery == Spec => Visits
<1> DEFINE Visit == Returning => CASE pc \in {"walk", "delete"} -> visited = atStart
                                   [] pc = "walkBack" -> visited = Reverse(order)
                                   [] OTHER -> TRUE
<1>1. IInv /\ Places /\ [Next]_vars => [Visit]_vars
  BY VisitsAll
<1> HIDE DEF Visit
<1>2. Spec => [][Visit]_vars
  BY <1>1, InvariantHolds, PlacesHold, PTL DEF Spec
<1> QED
  BY <1>2 DEF Visits, Visit

-----------------------------------------------------------------------------
(***************************************************************************)
(* The list implements the sequence of data of DataList.                   *)
(***************************************************************************)
LEMMA FunctionIsSeq ==
  ASSUME NEW S, NEW n \in Nat, NEW f \in [1..n -> S]
  PROVE  f \in Seq(S) /\ Len(f) = n
OBVIOUS

ItemsFacts == /\ Items \in Seq(Data) /\ Len(Items) = Len(order) /\ Len(order) \in Nat
              /\ DOMAIN Items = 1..Len(order)
              /\ \A i \in 1..Len(order) : Items[i] = data[order[i]]

\* What a client sees, place by place.
LEMMA ItemsAre == IInv /\ HasData => ItemsFacts
<1> SUFFICES ASSUME IInv, HasData PROVE ItemsFacts
  OBVIOUS
<1>1. Len(order) \in Nat /\ \A i \in 1..Len(order) : data[order[i]] \in Data
  BY KeysAre, OrderIs DEF OrderFacts
<1>2. Items \in [1..Len(order) -> Data]
  BY <1>1 DEF Items
<1>3. Items \in Seq(Data) /\ Len(Items) = Len(order)
  BY <1>1, <1>2, FunctionIsSeq
<1> QED
  BY <1>1, <1>3 DEF ItemsFacts, Items

LEMMA ItemsAreNext == IInv' /\ HasData' => ItemsFacts'
BY ItemsAre, PTL

LEMMA SameItems ==
  ASSUME NEW v \in Seq(Data), NEW w \in Seq(Data), Len(v) = Len(w),
         \A j \in 1..Len(v) : v[j] = w[j]
  PROVE  v = w
BY SeqEqual

\* The places of a new item, of one that goes, and of two exchanged.
LEMMA ItemInserted ==
  ASSUME ItemsFacts, ItemsFacts', NEW k \in 1..(Len(order) + 1), NEW n \in Node, NEW d \in Data,
         Inserted(n, k), data'[n] = d, \A i \in 1..Len(order) : data'[order[i]] = data[order[i]]
  PROVE  Items' = InsertAt(Items, k, d)
<1>1. /\ Items \in Seq(Data) /\ Items' \in Seq(Data) /\ Len(order) \in Nat
      /\ Len(Items) = Len(order) /\ Len(Items') = Len(order) + 1
  BY DEF ItemsFacts, Inserted
<1> DEFINE w == InsertAt(Items, k, d)
<1>2. /\ w \in Seq(Data) /\ Len(w) = Len(order) + 1
      /\ \A j \in 1..(Len(order) + 1) :
            w[j] = IF j < k THEN Items[j] ELSE IF j = k THEN d ELSE Items[j - 1]
  <2>1. k \in 1..(Len(Items) + 1)
    BY <1>1
  <2>2. /\ w \in Seq(Data) /\ Len(w) = Len(Items) + 1
        /\ \A j \in 1..(Len(Items) + 1) :
              w[j] = IF j < k THEN Items[j] ELSE IF j = k THEN d ELSE Items[j - 1]
    BY <1>1, <2>1, InsertAtFacts
  <2> HIDE DEF w
  <2> QED
    BY <2>2, <1>1
<1> HIDE DEF w
<1>3. ASSUME NEW j \in 1..(Len(order) + 1)
      PROVE  Items'[j] = w[j]
  <2>1. /\ Items'[j] = data'[order'[j]]
        /\ order'[j] = IF j < k THEN order[j] ELSE IF j = k THEN n ELSE order[j - 1]
    BY <1>1 DEF ItemsFacts, Inserted
  <2>2. CASE j < k
    <3>1. j \in 1..Len(order)
      BY <2>2, <1>1
    <3>2. Items'[j] = data[order[j]]
      BY <2>1, <2>2, <3>1
    <3>3. w[j] = data[order[j]]
      BY <1>2, <2>2, <3>1 DEF ItemsFacts
    <3> QED
      BY <3>2, <3>3
  <2>3. CASE j = k
    BY <2>1, <2>3, <1>2
  <2>4. CASE j > k
    <3>1. j - 1 \in 1..Len(order) /\ ~(j < k) /\ j # k
      BY <2>4, <1>1
    <3>2. Items'[j] = data[order[j - 1]]
      BY <2>1, <3>1
    <3>3. w[j] = data[order[j - 1]]
      BY <1>2, <3>1 DEF ItemsFacts
    <3> QED
      BY <3>2, <3>3
  <2>5. j < k \/ j = k \/ j > k
    BY <1>1
  <2> QED
    BY <2>2, <2>3, <2>4, <2>5
<1>4. Items' = w
  BY <1>1, <1>2, <1>3, SameItems
<1> QED
  BY <1>4 DEF w

LEMMA ItemRemoved ==
  ASSUME ItemsFacts, ItemsFacts', NEW k \in 1..Len(order), Removed(k),
         \A i \in 1..Len(order) : i # k => data'[order[i]] = data[order[i]]
  PROVE  Items' = RemoveAt(Items, k)
<1>1. /\ Items \in Seq(Data) /\ Items' \in Seq(Data) /\ Len(order) \in Nat
      /\ Len(Items) = Len(order) /\ Len(Items') = Len(order) - 1
  BY DEF ItemsFacts, Removed
<1> DEFINE w == RemoveAt(Items, k)
<1>2. /\ w \in Seq(Data) /\ Len(w) = Len(order) - 1
      /\ \A j \in 1..(Len(order) - 1) : w[j] = IF j < k THEN Items[j] ELSE Items[j + 1]
  <2>1. k \in 1..Len(Items)
    BY <1>1
  <2>2. /\ w \in Seq(Data) /\ Len(w) = Len(Items) - 1
        /\ \A j \in 1..(Len(Items) - 1) : w[j] = IF j < k THEN Items[j] ELSE Items[j + 1]
    BY <1>1, <2>1, RemoveAtFacts
  <2> HIDE DEF w
  <2> QED
    BY <2>2, <1>1
<1> HIDE DEF w
<1>3. ASSUME NEW j \in 1..(Len(order) - 1)
      PROVE  Items'[j] = w[j]
  <2>1. /\ Items'[j] = data'[order'[j]]
        /\ order'[j] = IF j < k THEN order[j] ELSE order[j + 1]
    BY <1>1 DEF ItemsFacts, Removed
  <2>2. CASE j < k
    <3>1. j \in 1..Len(order) /\ j # k
      BY <2>2, <1>1
    <3>2. Items'[j] = data[order[j]]
      BY <2>1, <2>2, <3>1
    <3>3. w[j] = data[order[j]]
      BY <1>2, <2>2, <3>1 DEF ItemsFacts
    <3> QED
      BY <3>2, <3>3
  <2>3. CASE ~(j < k)
    <3>1. j + 1 \in 1..Len(order) /\ j + 1 # k
      BY <2>3, <1>1
    <3>2. Items'[j] = data[order[j + 1]]
      BY <2>1, <2>3, <3>1
    <3>3. w[j] = data[order[j + 1]]
      BY <1>2, <2>3, <3>1 DEF ItemsFacts
    <3> QED
      BY <3>2, <3>3
  <2> QED
    BY <2>2, <2>3
<1>4. Items' = w
  BY <1>1, <1>2, <1>3, SameItems
<1> QED
  BY <1>4 DEF w

LEMMA ItemsSwapped ==
  ASSUME IInv, ItemsFacts, ItemsFacts', NEW i \in 1..Len(order), NEW j \in 1..Len(order),
         order' = order, Swap(order[i], order[j])
  PROVE  Items' = [Items EXCEPT ![i] = Items[j], ![j] = Items[i]]
<1>1. /\ Items \in Seq(Data) /\ Items' \in Seq(Data) /\ Len(order) \in Nat
      /\ Len(Items) = Len(order) /\ Len(Items') = Len(order) /\ DOMAIN Items = 1..Len(order)
      /\ DOMAIN Items' = 1..Len(order)
      /\ \A k \in 1..Len(order) : Items[k] = data[order[k]]
      /\ \A k \in 1..Len(order) : Items'[k] = data'[order[k]]
  BY DEF ItemsFacts
<1>2. /\ data \in [Node -> Data \cup {Junk}]
      /\ \A m, n \in 1..Len(order) : order[m] = order[n] => m = n
      /\ \A m \in 1..Len(order) : order[m] \in Node
  BY OrderIs DEF Typed, Distinct, OrderFacts
<1>3. ASSUME NEW k \in 1..Len(order)
      PROVE  data'[order[k]] = IF k = j THEN data[order[i]]
                               ELSE IF k = i THEN data[order[j]] ELSE data[order[k]]
  BY <1>2 DEF Swap
<1>4. ASSUME NEW k \in 1..Len(order)
      PROVE  Items'[k] = IF k = j THEN Items[i] ELSE IF k = i THEN Items[j] ELSE Items[k]
  <2>1. Items'[k] = data'[order[k]] /\ Items[k] = data[order[k]]
    BY <1>1
  <2>2. Items[i] = data[order[i]] /\ Items[j] = data[order[j]]
    BY <1>1
  <2> QED
    BY <2>1, <2>2, <1>3
<1>5. Items \in [1..Len(order) -> Data] /\ Items' \in [1..Len(order) -> Data]
  BY <1>1
<1> QED
  BY <1>4, <1>5

LEMMA SameDataSameItems ==
  ASSUME order' = order, \A i \in 1..Len(order) : data'[order[i]] = data[order[i]]
  PROVE  Items' = Items
BY DEF Items

LEMMA RemovedAt ==
  ASSUME order \in Seq(Node), NEW k \in 1..Len(order), order' = RemoveAt(order, k)
  PROVE  Removed(k)
<1>1. /\ RemoveAt(order, k) \in Seq(Node)
      /\ Len(RemoveAt(order, k)) = Len(order) - 1
      /\ \A j \in 1..(Len(order) - 1) :
            RemoveAt(order, k)[j] = IF j < k THEN order[j] ELSE order[j + 1]
  BY RemoveAtFacts
<1> QED
  BY <1>1 DEF Removed

\* What a step does to the items, in the words of DataList.
Alike == Items' = Items /\ open' = open

LEMMA Fronted ==
  ASSUME IInv, HasData, IInv', HasData', open, open' = open, pc # "delete",
         NEW n \in Node, NEW d \in Data, Prepend(n, d)
  PROVE  L!PushFront(d)
<1>1. /\ ItemsFacts /\ ItemsFacts' /\ OrderFacts /\ Typed /\ ToSet(order) \subseteq alive
  BY ItemsAre, ItemsAreNext, OrderIs
<1>2. /\ n \notin alive /\ data' = [data EXCEPT ![n] = d] /\ order' = <<n>> \o order
  BY DEF Prepend
<1>3. data'[n] = d /\ \A i \in 1..Len(order) : data'[order[i]] = data[order[i]]
  BY <1>1, <1>2 DEF Typed, OrderFacts
<1>4. /\ <<n>> \o order \in Seq(Node) /\ Len(<<n>> \o order) = Len(order) + 1
      /\ \A j \in 1..(Len(order) + 1) :
            (<<n>> \o order)[j] = IF j = 1 THEN n ELSE order[j - 1]
  BY <1>1, ConsFacts DEF Typed
<1>5. /\ <<d>> \o Items \in Seq(Data) /\ Len(<<d>> \o Items) = Len(Items) + 1
      /\ \A j \in 1..(Len(Items) + 1) :
            (<<d>> \o Items)[j] = IF j = 1 THEN d ELSE Items[j - 1]
  <2>1. Items \in Seq(Data)
    BY <1>1 DEF ItemsFacts
  <2> QED
    BY <2>1, ConsFacts
<1>6. ASSUME NEW j \in 1..(Len(order) + 1)
      PROVE  Items'[j] = (<<d>> \o Items)[j]
  <2>1. Items'[j] = data'[order'[j]]
    BY <1>1, <1>2, <1>4 DEF ItemsFacts
  <2>2. (<<d>> \o Items)[j] = IF j = 1 THEN d ELSE Items[j - 1]
    BY <1>1, <1>5 DEF ItemsFacts
  <2>3. CASE j = 1
    BY <2>1, <2>2, <2>3, <1>2, <1>3, <1>4
  <2>4. CASE j # 1
    <3>1. j - 1 \in 1..Len(order)
      BY <2>4, <1>1 DEF OrderFacts
    <3>2. Items'[j] = data[order[j - 1]]
      BY <2>1, <2>4, <3>1, <1>2, <1>3, <1>4
    <3>3. Items[j - 1] = data[order[j - 1]]
      BY <3>1, <1>1 DEF ItemsFacts
    <3> QED
      BY <2>2, <2>4, <3>2, <3>3
  <2> QED
    BY <2>3, <2>4
<1>7. Items' = <<d>> \o Items
  <2>1. /\ Items' \in Seq(Data) /\ Len(Items') = Len(order) + 1
        /\ Len(Items) = Len(order)
    BY <1>1, <1>2, <1>4 DEF ItemsFacts
  <2> QED
    BY <2>1, <1>5, <1>6, SameItems
<1> QED
  BY <1>7 DEF L!PushFront

LEMMA Unlinked ==
  ASSUME IInv, HasData, IInv', HasData', open, open' = open,
         NEW e \in ToSet(order), Unlink(e)
  PROVE  \E i \in DOMAIN Items : L!RemovePlace(i)
<1>1. /\ ItemsFacts /\ ItemsFacts' /\ OrderFacts /\ Typed /\ Distinct
  BY ItemsAre, ItemsAreNext, OrderIs
<1>2. PICK k \in 1..Len(order) : k = PlaceOf(e) /\ order[k] = e
  BY <1>1, PlaceInOrder DEF Typed
<1>3. Removed(k)
  BY <1>1, <1>2, RemovedAt DEF Unlink, Typed
<1>4. \A i \in 1..Len(order) : i # k => data'[order[i]] = data[order[i]]
  BY <1>1, <1>2 DEF Unlink, Free, Typed, OrderFacts, Distinct
<1>5. Items' = RemoveAt(Items, k) /\ k \in DOMAIN Items
  BY <1>1, <1>3, <1>4, ItemRemoved DEF ItemsFacts
<1> QED
  BY <1>5 DEF L!RemovePlace, L!RemoveAt, RemoveAt

LEMMA FirstFreed ==
  ASSUME IInv, HasData, IInv', HasData', FreeOne
  PROVE  \E i \in DOMAIN Items : L!RemovePlace(i)
<1>1. /\ ItemsFacts /\ ItemsFacts' /\ OrderFacts /\ Typed /\ Distinct
  BY ItemsAre, ItemsAreNext, OrderIs
<1>2. pc = "delete" /\ open /\ open' = open /\ p = NextOf(0) /\ p # Null
  BY DEF FreeOne, IInv, Cursors
<1>3. /\ 1 \in 1..Len(order) /\ order # << >> /\ p = order[1]
  BY <1>1, <1>2 DEF NextOf, OrderFacts
<1>4. Removed(1)
  <2>1. /\ Tail(order) \in Seq(Node) /\ Len(Tail(order)) = Len(order) - 1
        /\ \A i \in 1..Len(Tail(order)) : Tail(order)[i] = order[i + 1]
    BY <1>1, <1>3, HeadTailProperties DEF Typed
  <2>2. order' = Tail(order)
    BY DEF FreeOne
  <2> QED
    BY <2>1, <2>2, <1>1 DEF Removed, OrderFacts
<1>5. \A i \in 1..Len(order) : i # 1 => data'[order[i]] = data[order[i]]
  BY <1>1, <1>3 DEF FreeOne, Free, Typed, OrderFacts, Distinct
<1>6. Items' = RemoveAt(Items, 1) /\ 1 \in DOMAIN Items
  BY <1>1, <1>3, <1>4, <1>5, ItemRemoved DEF ItemsFacts
<1> QED
  BY <1>2, <1>6 DEF L!RemovePlace, L!RemoveAt, RemoveAt

LEMMA Exchanged ==
  ASSUME IInv, HasData, IInv', HasData', open, open' = open, order' = order,
         NEW e1 \in ToSet(order), NEW e2 \in ToSet(order), Swap(e1, e2)
  PROVE  \E i, j \in DOMAIN Items : L!SwapPlaces(i, j)
<1>1. /\ ItemsFacts /\ ItemsFacts' /\ OrderFacts
  BY ItemsAre, ItemsAreNext, OrderIs
<1>2. PICK i \in 1..Len(order) : order[i] = e1
  BY <1>1 DEF OrderFacts
<1>3. PICK j \in 1..Len(order) : order[j] = e2
  BY <1>1 DEF OrderFacts
<1>4. Swap(order[i], order[j])
  BY <1>2, <1>3
<1>5. Items' = [Items EXCEPT ![i] = Items[j], ![j] = Items[i]]
  BY <1>1, <1>4, ItemsSwapped
<1>6. L!SwapPlaces(i, j)
  BY <1>5 DEF L!SwapPlaces
<1> QED
  BY <1>1, <1>6 DEF ItemsFacts

LEMMA Placed ==
  ASSUME IInv, HasData, InsertPlace, IInv', HasData', InsertHere
  PROVE  \E d \in Data : L!InsertSorted(d)
<1>1. /\ ItemsFacts /\ ItemsFacts' /\ OrderFacts
  BY ItemsAre, ItemsAreNext, OrderIs
<1>2. pc = "insert" /\ data' = data /\ open /\ open' = open
  BY DEF InsertHere, IInv, Cursors
<1>3. nu \in Node /\ data[nu] \in Data
  BY <1>2 DEF IInv, Owned, Cursors, HasData
<1>4. PICK i \in 0..Len(order) : Belongs(i)
  BY InsertsWhere
<1>5. i + 1 \in 1..(Len(order) + 1) /\ Len(Items) = Len(order) /\ Len(order) \in Nat
  BY <1>1 DEF ItemsFacts
<1>6. Items' = InsertAt(Items, i + 1, data[nu])
  BY <1>1, <1>2, <1>3, <1>4, <1>5, ItemInserted DEF Belongs
<1>7. \A j \in 1..((i + 1) - 1) : Key[Items[j]] > Key[data[nu]]
  <2>1. \A j \in 1..((i + 1) - 1) : j \in 1..i /\ j \in 1..Len(order)
    BY <1>5
  <2> QED
    BY <2>1, <1>1, <1>4 DEF Belongs, ItemsFacts, KeyAt
<1>8. i + 1 <= Len(Items) => Key[Items[i + 1]] <= Key[data[nu]]
  BY <1>1, <1>4, <1>5 DEF Belongs, ItemsFacts, KeyAt
<1>9. L!InsertSorted(data[nu])
  <2>1. i + 1 \in 1..(Len(Items) + 1)
    BY <1>5
  <2>2. Items' = L!InsertAt(Items, i + 1, data[nu])
    BY <1>6 DEF InsertAt, L!InsertAt
  <2> QED
    BY <2>1, <2>2, <1>2, <1>7, <1>8 DEF L!InsertSorted
<1> QED
  BY <1>3, <1>9

LEMMA StaysAlike ==
  ASSUME UNCHANGED <<open, order, data>>
  PROVE  UNCHANGED L!lvars
BY DEF L!lvars, Items

LEMMA WholeMaps ==
  ASSUME IInv, HasData, IInv', HasData', Whole
  PROVE  L!Next
<1>1. CASE Create
  <2>1. ~open /\ open' = TRUE /\ Len(order') = 0
    BY <1>1, OrderIs DEF Create, IInv, Cursors, OrderFacts
  <2>2. Items' = << >>
    BY <2>1 DEF Items
  <2> QED
    BY <2>1, <2>2 DEF L!Next, L!Create
<1>2. ASSUME NEW n \in Node, NEW d \in Data, AddData(n, d) PROVE L!Next
  <2>1. open /\ pc = "idle" /\ Prepend(n, d) /\ open' = open
    BY <1>2 DEF AddData, Idle
  <2>2. L!PushFront(d)
    BY <2>1, Fronted
  <2> QED
    BY <2>2 DEF L!Next
<1>3. ASSUME NEW e \in ToSet(order), DelElem(e) PROVE L!Next
  <2>1. open /\ open' = open /\ Unlink(e)
    BY <1>3 DEF DelElem, Idle
  <2>2. \E i \in DOMAIN Items : L!RemovePlace(i)
    BY <2>1, Unlinked
  <2> QED
    BY <2>2 DEF L!Next
<1>4. ASSUME NEW e1 \in ToSet(order), NEW e2 \in ToSet(order), SwapElems(e1, e2)
      PROVE  L!Next
  <2>1. open /\ open' = open /\ Swap(e1, e2) /\ order' = order
    BY <1>4 DEF SwapElems, Idle, links
  <2>2. \E i, j \in DOMAIN Items : L!SwapPlaces(i, j)
    BY <2>1, Exchanged
  <2> QED
    BY <2>2 DEF L!Next
<1> QED
  BY <1>1, <1>2, <1>3, <1>4 DEF Whole

LEMMA StartsMap ==
  ASSUME IInv, Starts
  PROVE  UNCHANGED L!lvars
<1>1. ASSUME NEW n \in Node, NEW d \in Data, AddSorted(n, d) PROVE UNCHANGED L!lvars
  <2>1. /\ OrderFacts /\ Typed /\ ToSet(order) \subseteq alive
    BY OrderIs
  <2>2. n \notin alive /\ data' = [data EXCEPT ![n] = d] /\ order' = order /\ open' = open
    BY <1>1 DEF AddSorted
  <2>3. \A i \in 1..Len(order) : data'[order[i]] = data[order[i]]
    BY <2>1, <2>2 DEF Typed, OrderFacts
  <2> QED
    BY <2>2, <2>3, SameDataSameItems DEF L!lvars
<1>2. ASSUME ~\E n \in Node, d \in Data : AddSorted(n, d) PROVE UNCHANGED <<open, order, data>>
  BY <1>2 DEF Starts, Find, Lambda, Sort, Delete, links
<1> QED
  BY <1>1, <1>2, StaysAlike

LEMMA LoopsMap ==
  ASSUME IInv, HasData, IInv', HasData', Loops
  PROVE  L!Next \/ UNCHANGED L!lvars
<1>0. open /\ pc # "idle"
  BY LoopsStay DEF IInv, Cursors
<1>1. CASE InsertNext \/ FindNext \/ FindMin
  BY <1>1, StaysAlike DEF InsertNext, FindNext, FindMin, links
<1>2. CASE Call
  <2>1. open' = open /\ pc # "delete"
    BY <1>2 DEF Call, WalkPcs
  <2>2. CASE UNCHANGED <<data, links>>
    BY <2>1, <2>2, StaysAlike DEF links
  <2>3. ASSUME NEW n \in Node, NEW d \in Data, Prepend(n, d) PROVE L!Next
    <3>1. L!PushFront(d)
      BY <1>0, <2>1, <2>3, Fronted
    <3> QED
      BY <3>1 DEF L!Next
  <2> QED
    BY <1>2, <2>2, <2>3 DEF Call
<1>3. CASE SwapMin
  <2>1. /\ open' = open /\ order' = order /\ Swap(p, min)
        /\ p \in ToSet(order) /\ min \in ToSet(order)
    BY <1>3, SortHas DEF SwapMin, links, Here
  <2>2. \E i, j \in DOMAIN Items : L!SwapPlaces(i, j)
    BY <1>0, <2>1, Exchanged
  <2> QED
    BY <2>2 DEF L!Next
<1>4. CASE FreeOne
  BY <1>4, FirstFreed DEF L!Next
<1> QED
  BY <1>1, <1>2, <1>3, <1>4 DEF Loops

LEMMA EndsMap ==
  ASSUME IInv, HasData, InsertPlace, IInv', HasData', Ends
  PROVE  L!Next \/ UNCHANGED L!lvars
<1>0. open /\ pc # "idle"
  BY EndsIdle DEF IInv, Cursors
<1>1. CASE InsertHere
  BY <1>1, Placed DEF L!Next
<1>2. CASE FindAndDelete
  <2>1. open' = open /\ Unlink(p) /\ p \in ToSet(order)
    BY <1>2 DEF FindAndDelete, IInv, Cursors, Here, FindPcs
  <2>2. \E i \in DOMAIN Items : L!RemovePlace(i)
    BY <1>0, <2>1, Unlinked
  <2> QED
    BY <2>2 DEF L!Next
<1>3. CASE FindHit \/ FindMiss \/ LambdaEnds \/ SortEnds
  BY <1>3, StaysAlike DEF FindHit, FindMiss, LambdaEnds, SortEnds, links
<1>4. CASE DeleteEnds
  <2>1. open' = FALSE /\ UNCHANGED <<order, data>> /\ NextOf(0) = Null
    BY <1>4 DEF DeleteEnds, FreedAll, IInv, Cursors
  <2>2. Len(order) = 0
    <3>1. Len(order) \in Nat
      BY OrderIs DEF OrderFacts
    <3>2. 0 \in 0..Len(order)
      BY <3>1
    <3> QED
      BY <2>1, <3>2, StandsAtEnd
  <2>3. Items = << >> /\ Items' = << >>
    BY <2>1, <2>2 DEF Items
  <2> QED
    BY <1>0, <2>1, <2>3 DEF L!Next, L!Close
<1> QED
  BY <1>1, <1>2, <1>3, <1>4 DEF Ends

LEMMA NextMaps ==
  ASSUME IInv, Places, [Next]_vars
  PROVE  [L!Next]_(L!lvars)
<1>1. IInv' /\ HasData /\ HasData' /\ InsertPlace
  BY NextIInv, NextPlaces DEF Places
<1>2. CASE UNCHANGED vars
  BY <1>2, StaysAlike DEF vars, links
<1> QED
  BY <1>1, <1>2, Kinds, WholeMaps, StartsMap, LoopsMap, EndsMap

\* Every step of every loop of mmp_list.c is a step of the sequence of data
\* that mmp_list.h promises, or changes nothing in it.
THEOREM ListIsDataList == Spec => IsDataList
<1>1. Init => L!Init
  <2> SUFFICES ASSUME Init PROVE L!Init
    OBVIOUS
  <2>1. Len(order) = 0 /\ open = FALSE
    BY DEF Init
  <2>2. Items = << >>
    BY <2>1 DEF Items
  <2> QED
    BY <2>1, <2>2 DEF L!Init
<1>2. IInv /\ Places /\ [Next]_vars => [L!Next]_(L!lvars)
  BY NextMaps
<1> QED
  BY <1>1, <1>2, InvariantHolds, PlacesHold, PTL DEF Spec, IsDataList, L!Spec
=============================================================================
