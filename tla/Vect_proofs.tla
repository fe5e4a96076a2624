---------------------------- MODULE Vect_proofs ----------------------------
(***************************************************************************)
(* Proofs about the functions of Vect and two of their clients, for every  *)
(* quantum, size of an element, set of values and length.  VectCalls: a    *)
(* client never writes past the block and has a sequence, until nearSize   *)
(* computes too little, which it does not for short vectors.  Scheduler:   *)
(* the vector of sockets and the lists of epoll hold the sockets the       *)
(* client watches.                                                         *)
(***************************************************************************)
EXTENDS VectCalls, Scheduler, SequenceTheorems, FiniteSetTheorems, TLAPS

Slots(m) == 0..(m - 1)
Cells == Val \cup {Junk}
Blocks == UNION {[Slots(m) -> Cells] : m \in Nat}
Vectors == [data : Blocks, n_data : Nat, n_alloc : Nat]

\* What stands for no vector, and for one written past its block, is neither.
Apart == Broken # Null /\ Broken \notin Vectors

\* A vector whose block holds what it believes to have room for.
Good(u) == /\ u \in Vectors
           /\ u.n_data <= u.n_alloc
           /\ Slots(u.n_alloc) \subseteq DOMAIN u.data

VectInv == short \/ v = Null \/ Good(v)

USE SizesAssumption, BoundAssumption, ValueAssumption

LEMMA BlockOf == ASSUME NEW f \in Blocks
                 PROVE \E m \in Nat : f \in [Slots(m) -> Cells]
BY DEF Blocks

LEMMA IsBlock == ASSUME NEW m \in Nat, NEW f \in [Slots(m) -> Cells] PROVE f \in Blocks
BY DEF Blocks

LEMMA VectorOf == ASSUME NEW f \in Blocks, NEW c \in Nat, NEW a \in Nat
                  PROVE [data |-> f, n_data |-> c, n_alloc |-> a] \in Vectors
BY DEF Vectors

\* What nearSize computes is a number of elements.
LEMMA NearSizeNat == ASSUME NEW n \in Nat PROVE NearSize(n) \in Nat
<1>1. CASE n = 0
  BY <1>1 DEF NearSize
<1>2. CASE n # 0
  <2> DEFINE bytes == n * ElemSize
             rest == Quantum - (bytes % Quantum)
  <2>1. bytes \in Nat
    OBVIOUS
  <2>2. bytes % Quantum \in 0..(Quantum - 1)
    <3> HIDE DEF bytes
    <3> QED
      BY <2>1
  <2>3. rest \in Nat /\ bytes + rest \in Nat
    <3> HIDE DEF bytes
    <3> QED
      BY <2>1, <2>2
  <2>4. \A b \in Nat : b \div n \in Nat
    BY <1>2
  <2>5. NearSize(n) = (bytes + rest) \div n
    BY <1>2 DEF NearSize
  <2> QED
    BY <2>3, <2>4, <2>5
<1> QED
  BY <1>1, <1>2

LEMMA ReadsCell == ASSUME NEW u \in Vectors, NEW j \in Nat PROVE At(u, j) \in Cells
BY BlockOf DEF At, Vectors, Cells

\* reserve keeps the elements and the room.
LEMMA ReserveGood == ASSUME NEW u \in Vectors, Good(u), NEW m \in Nat
                     PROVE /\ Good(Reserve(u, m))
                           /\ Reserve(u, m).n_data = u.n_data
                           /\ Reserve(u, m).n_alloc >= m
                           /\ \A j \in Slots(u.n_data) : At(Reserve(u, m), j) = At(u, j)
<1> DEFINE d == [j \in 0..(m - 1) |-> At(u, j)]
<1>1. CASE u.n_alloc >= m
  BY <1>1 DEF Reserve
<1>2. CASE ~(u.n_alloc >= m)
  <2>1. u \in Vectors /\ u.n_alloc \in Nat /\ u.n_data \in Nat /\ u.n_data <= u.n_alloc
    BY DEF Good, Vectors
  <2>2. Reserve(u, m) = [data |-> d, n_data |-> u.n_data, n_alloc |-> m]
    BY <1>2, <2>1 DEF Reserve, Vectors
  <2>3. d \in Blocks /\ DOMAIN d = Slots(m)
    BY <2>1, ReadsCell, IsBlock DEF Slots
  <2>4. \A j \in Slots(u.n_data) : d[j] = At(u, j) /\ j \in DOMAIN d
    BY <1>2, <2>1 DEF Slots
  <2> HIDE DEF d
  <2>5. Good(Reserve(u, m))
    BY <1>2, <2>1, <2>2, <2>3, VectorOf DEF Good
  <2> QED
    BY <2>1, <2>2, <2>4, <2>5 DEF At
<1> QED
  BY <1>1, <1>2

InRoom(u, from, to) == from..(to - 1) \subseteq DOMAIN u.data
Stored(w, u, from, to, x) ==
    /\ w \in Vectors
    /\ w.n_data = u.n_data
    /\ w.n_alloc = u.n_alloc
    /\ DOMAIN w.data = DOMAIN u.data
    /\ \A j \in Nat : At(w, j) = IF from <= j /\ j < to THEN x ELSE At(u, j)

\* A store inside the block changes what it stores to.
LEMMA StoreGood == ASSUME NEW u \in Vectors, NEW from \in Nat, NEW to \in Nat, NEW x \in Val,
                          InRoom(u, from, to)
                   PROVE Stored(Store(u, from, to, x), u, from, to, x)
<1> DEFINE d == [j \in DOMAIN u.data |-> IF j \in from..(to - 1) THEN x ELSE u.data[j]]
<1>1. Store(u, from, to, x) = [data |-> d, n_data |-> u.n_data, n_alloc |-> u.n_alloc]
  BY DEF Store, Vectors, InRoom
<1>2. u.data \in Blocks /\ u.n_data \in Nat /\ u.n_alloc \in Nat
  BY DEF Vectors
<1>3. d \in Blocks
  <2>1. PICK m \in Nat : u.data \in [Slots(m) -> Cells]
    BY <1>2, BlockOf
  <2>2. d \in [Slots(m) -> Cells]
    BY <2>1 DEF Cells
  <2> QED
    BY <2>2, IsBlock
<1>4. \A j \in DOMAIN d : d[j] = IF j \in from..(to - 1) THEN x ELSE u.data[j]
  OBVIOUS
<1>5. DOMAIN d = DOMAIN u.data
  OBVIOUS
<1> HIDE DEF d
<1> DEFINE w == [data |-> d, n_data |-> u.n_data, n_alloc |-> u.n_alloc]
<1>6. w \in Vectors /\ w.data = d /\ w.n_data = u.n_data /\ w.n_alloc = u.n_alloc
  BY <1>2, <1>3, VectorOf
<1> HIDE DEF w
<1>7. \A j \in Nat : At(w, j) = IF from <= j /\ j < to THEN x ELSE At(u, j)
  BY <1>4, <1>5, <1>6 DEF At, InRoom
<1> QED
  BY <1>1, <1>5, <1>6, <1>7 DEF Stored, w

\* w is u but for the number of its elements.
Counted(w, u, c) ==
    /\ w \in Vectors
    /\ w.data = u.data
    /\ w.n_data = c
    /\ w.n_alloc = u.n_alloc
    /\ \A j \in Nat : At(w, j) = At(u, j)

\* Count is of a vector that was not broken.
LEMMA CountGood == ASSUME Apart, NEW u \in Vectors, NEW c \in Nat
                   PROVE Counted(Count(u, c), u, c)
<1> DEFINE w == [data |-> u.data, n_data |-> c, n_alloc |-> u.n_alloc]
<1>1. Count(u, c) = w
  BY DEF Count, Apart, Vectors
<1>2. w \in Vectors /\ w.data = u.data /\ w.n_data = c /\ w.n_alloc = u.n_alloc
  BY VectorOf DEF Vectors
<1> HIDE DEF w
<1>3. \A j \in Nat : At(w, j) = At(u, j)
  BY <1>2 DEF At
<1> QED
  BY <1>1, <1>2, <1>3 DEF Counted

LEMMA FitsIsRoom == ASSUME NEW m \in Nat, Fits(m), m # 0 PROVE NearSize(m) >= m
BY DEF Fits

LEMMA CreateGood == ASSUME Apart, NEW m \in Nat, NEW x \in Val, Fits(m)
                    PROVE /\ Good(VectCreate(m, x))
                          /\ VectCreate(m, x).n_data = m
                          /\ \A j \in Slots(m) : At(VectCreate(m, x), j) = x
<1> DEFINE a == NearSize(m)
           u == [data |-> Block(a), n_data |-> m, n_alloc |-> a]
<1>1. a \in Nat /\ m <= a
  BY NearSizeNat, FitsIsRoom
<1> HIDE DEF a
<1>2. Block(a) \in [Slots(a) -> Cells]
  BY DEF Block, Slots, Cells
<1>3. u \in Vectors /\ DOMAIN u.data = Slots(a) /\ u.n_data = m /\ u.n_alloc = a
  BY <1>1, <1>2, IsBlock, VectorOf
<1>4. VectCreate(m, x) = Store(u, 0, m, x)
  BY DEF VectCreate, a
<1> HIDE DEF u
<1>5. InRoom(u, 0, m) /\ 0 \in Nat
  BY <1>1, <1>3 DEF Slots, InRoom
<1> DEFINE w == Store(u, 0, m, x)
<1>6. Stored(w, u, 0, m, x)
  BY <1>3, <1>5, StoreGood
<1> HIDE DEF w
<1>7. Good(w) /\ w.n_data = m
  BY <1>1, <1>3, <1>6 DEF Good, Stored
<1> QED
  BY <1>4, <1>6, <1>7 DEF Slots, Stored, w

LEMMA FillGood == ASSUME Apart, NEW u \in Vectors, Good(u), NEW x \in Val
                  PROVE /\ Good(VectFill(u, x))
                        /\ VectFill(u, x).n_data = u.n_data
                        /\ \A j \in Slots(u.n_data) : At(VectFill(u, x), j) = x
<1> DEFINE c == u.n_data
           w == Store(u, 0, c, x)
<1>1. c \in Nat /\ 0 \in Nat /\ u.n_alloc \in Nat /\ c <= u.n_alloc
  BY DEF Good, Vectors
<1>2. InRoom(u, 0, c)
  BY <1>1 DEF Good, Slots, InRoom
<1>3. VectFill(u, x) = w
  BY DEF VectFill
<1>4. Stored(w, u, 0, c, x)
  <2> HIDE DEF c
  <2> QED
    BY <1>1, <1>2, StoreGood
<1> HIDE DEF w
<1>5. Good(w)
  BY <1>4 DEF Good, Stored
<1> QED
  BY <1>1, <1>3, <1>4, <1>5 DEF Slots, Stored

\* resize grows to what was computed, which is as long as the new size.
LEMMA ResizeGood == ASSUME Apart, NEW u \in Vectors, Good(u), NEW m \in Nat, NEW x \in Val,
                           m <= u.n_data \/ Fits(m)
                    PROVE /\ Good(VectResize(u, m, x))
                          /\ VectResize(u, m, x).n_data = m
                          /\ \A j \in Slots(m) : At(VectResize(u, m, x), j) =
                                                   IF j < u.n_data THEN At(u, j) ELSE x
<1>1. u \in Vectors /\ u.n_data \in Nat /\ u.n_alloc \in Nat
  BY DEF Good, Vectors
<1>2. CASE u.n_data >= m
  <2>1. VectResize(u, m, x) = Count(u, m)
    BY <1>2 DEF VectResize
  <2> DEFINE w == Count(u, m)
  <2>2. /\ w \in Vectors /\ w.n_data = m /\ w.n_alloc = u.n_alloc /\ w.data = u.data
        /\ \A j \in Nat : At(w, j) = At(u, j)
    <3>1. Counted(w, u, m)
      BY CountGood
    <3> QED
      BY <3>1 DEF Counted
  <2> HIDE DEF w
  <2>3. Good(w)
    BY <1>1, <1>2, <2>2 DEF Good
  <2> QED
    BY <1>1, <1>2, <2>1, <2>2, <2>3 DEF Slots, w
<1>3. CASE ~(u.n_data >= m)
  <2> DEFINE a == NearSize(m)
             r == Reserve(u, a)
             t == [data |-> r.data, n_data |-> r.n_data, n_alloc |-> a]
             w == Store(t, u.n_data, m, x)
  <2>1. a \in Nat /\ m <= a
    BY <1>1, <1>3, NearSizeNat, FitsIsRoom
  <2>2. /\ Good(r) /\ r.n_data = u.n_data /\ r.n_alloc >= a
        /\ \A j \in Slots(u.n_data) : At(r, j) = At(u, j)
    <3> HIDE DEF a
    <3> QED
      BY <2>1, ReserveGood
  <2>3. r \in Vectors /\ r.data \in Blocks /\ r.n_alloc \in Nat
        /\ Slots(r.n_alloc) \subseteq DOMAIN r.data
    <3> HIDE DEF r
    <3> QED
      BY <2>2 DEF Good, Vectors
  <2>4. VectResize(u, m, x) = Count(w, m)
    <3>1. VectResize(u, m, x) = Count(Store([r EXCEPT !.n_alloc = a], u.n_data, m, x), m)
      BY <1>3 DEF VectResize
    <3>2. [r EXCEPT !.n_alloc = a] = t
      <4> HIDE DEF r, a
      <4> QED
        BY <2>3 DEF Vectors
    <3> QED
      BY <3>1, <3>2
  <2> HIDE DEF a, r
  <2>5. t \in Vectors /\ t.data = r.data /\ t.n_data = u.n_data /\ t.n_alloc = a
    BY <1>1, <2>1, <2>2, <2>3, VectorOf
  <2>6. \A j \in Nat : At(t, j) = At(r, j)
    BY DEF At
  <2> HIDE DEF t
  <2>7. Slots(a) \subseteq DOMAIN t.data /\ InRoom(t, u.n_data, m)
    BY <1>1, <2>1, <2>2, <2>3, <2>5 DEF Slots, InRoom
  <2>8. Stored(w, t, u.n_data, m, x)
    <3> DEFINE b == u.n_data
    <3>1. b \in Nat /\ t \in Vectors /\ InRoom(t, b, m)
      BY <1>1, <2>5, <2>7
    <3> HIDE DEF b
    <3>2. Stored(Store(t, b, m, x), t, b, m, x)
      BY <3>1, StoreGood
    <3> QED
      BY <3>2 DEF b
  <2> HIDE DEF w
  <2> DEFINE c == Count(w, m)
  <2>9. /\ c \in Vectors /\ c.n_data = m /\ c.n_alloc = a /\ c.data = w.data
        /\ \A j \in Nat : At(c, j) = At(w, j)
    <3>1. w \in Vectors /\ w.n_alloc = a
      BY <2>5, <2>8 DEF Stored
    <3>2. Counted(c, w, m)
      BY <3>1, CountGood
    <3> QED
      BY <3>1, <3>2 DEF Counted
  <2> HIDE DEF c
  <2>10. Good(c)
    BY <2>1, <2>7, <2>8, <2>9 DEF Good, Stored
  <2>11. ASSUME NEW j \in Slots(m)
         PROVE  At(c, j) = IF j < u.n_data THEN At(u, j) ELSE x
    <3>1. j \in Nat /\ j < m
      BY DEF Slots
    <3>2. At(c, j) = IF u.n_data <= j /\ j < m THEN x ELSE At(t, j)
      BY <2>8, <2>9, <3>1 DEF Stored
    <3>3. CASE j < u.n_data
      BY <1>1, <2>2, <2>6, <3>1, <3>2, <3>3 DEF Slots
    <3>4. CASE ~(j < u.n_data)
      BY <1>1, <3>1, <3>2, <3>4
    <3> QED
      BY <3>3, <3>4
  <2> QED
    BY <2>4, <2>9, <2>10, <2>11 DEF c
<1> QED
  BY <1>1, <1>2, <1>3

\* There is room for one more element, or what is allocated for it holds it.
RoomForOne(u) == u.n_data < u.n_alloc \/ Fits(u.n_data + 1)

LEMMA GrownGood == ASSUME NEW u \in Vectors, Good(u), RoomForOne(u)
                   PROVE /\ Good(Grown(u))
                         /\ Grown(u).n_data = u.n_data
                         /\ Grown(u).n_alloc >= u.n_data + 1
                         /\ \A j \in Slots(u.n_data) : At(Grown(u), j) = At(u, j)
<1>1. u.n_data \in Nat /\ u.n_alloc \in Nat
  BY DEF Vectors
<1>2. CASE u.n_alloc < u.n_data + 1
  <2> DEFINE a == NearSize(u.n_data + 1)
             r == Reserve(u, a)
  <2>1. a \in Nat /\ a >= u.n_data + 1
    <3>1. u.n_data + 1 \in Nat /\ u.n_data + 1 # 0 /\ Fits(u.n_data + 1)
      BY <1>1, <1>2 DEF RoomForOne
    <3> QED
      BY <3>1, NearSizeNat, FitsIsRoom
  <2>2. Grown(u) = r
    BY <1>2 DEF Grown
  <2> HIDE DEF a
  <2>3. /\ Good(r) /\ r.n_data = u.n_data /\ r.n_alloc >= a
        /\ \A j \in Slots(u.n_data) : At(r, j) = At(u, j)
    BY <2>1, ReserveGood
  <2>4. r.n_alloc \in Nat
    BY <2>3 DEF Good, Vectors
  <2> HIDE DEF r
  <2> QED
    BY <1>1, <2>1, <2>2, <2>3, <2>4
<1>3. CASE ~(u.n_alloc < u.n_data + 1)
  <2>1. Grown(u) = u
    BY <1>3 DEF Grown
  <2> QED
    BY <1>1, <1>3, <2>1
<1> QED
  BY <1>2, <1>3

LEMMA PushGood == ASSUME Apart, NEW u \in Vectors, Good(u), RoomForOne(u), NEW x \in Val
                  PROVE /\ Good(VectPushBack(u, x))
                        /\ VectPushBack(u, x).n_data = u.n_data + 1
                        /\ \A j \in Slots(u.n_data + 1) :
                              At(VectPushBack(u, x), j) = IF j < u.n_data THEN At(u, j) ELSE x
<1> DEFINE b == u.n_data
           g == Grown(u)
           w == Store(g, b, b + 1, x)
           c == Count(w, b + 1)
<1>1. b \in Nat /\ b + 1 \in Nat
  BY DEF Vectors
<1>2. /\ Good(g) /\ g.n_data = b /\ g.n_alloc >= b + 1
      /\ \A j \in Slots(b) : At(g, j) = At(u, j)
  BY GrownGood
<1>3. VectPushBack(u, x) = c
  BY DEF VectPushBack
<1> HIDE DEF b, g
<1>4. g \in Vectors /\ g.n_alloc \in Nat
  BY <1>2 DEF Good, Vectors
<1>5. InRoom(g, b, b + 1)
  BY <1>1, <1>2, <1>4 DEF Good, Slots, InRoom
<1>6. Stored(w, g, b, b + 1, x)
  BY <1>1, <1>4, <1>5, StoreGood
<1> HIDE DEF w
<1>7. w \in Vectors
  BY <1>6 DEF Stored
<1>8. Counted(c, w, b + 1)
  BY <1>1, <1>7, CountGood
<1> HIDE DEF c
<1>9. c \in Vectors /\ c.data = w.data /\ c.n_data = b + 1 /\ c.n_alloc = w.n_alloc
  BY <1>8 DEF Counted
<1>10. Good(c)
  BY <1>2, <1>6, <1>9 DEF Good, Stored
<1>11. ASSUME NEW j \in Slots(b + 1) PROVE At(c, j) = IF j < b THEN At(u, j) ELSE x
  <2>1. j \in Nat /\ j < b + 1
    BY <1>1 DEF Slots
  <2>2. At(c, j) = IF b <= j /\ j < b + 1 THEN x ELSE At(g, j)
    <3>1. At(c, j) = At(w, j)
      BY <1>8, <2>1 DEF Counted
    <3>2. At(w, j) = IF b <= j /\ j < b + 1 THEN x ELSE At(g, j)
      <4>1. \A h \in Nat : At(w, h) = IF b <= h /\ h < b + 1 THEN x ELSE At(g, h)
        BY <1>6 DEF Stored
      <4> QED
        BY <2>1, <4>1
    <3> QED
      BY <3>1, <3>2
  <2>3. j < b => j \in Slots(b)
    BY <1>1, <2>1 DEF Slots
  <2> QED
    BY <1>1, <1>2, <2>1, <2>2, <2>3
<1> QED
  BY <1>3, <1>9, <1>10, <1>11 DEF b

LEMMA PopGood == ASSUME NEW u \in Vectors, Good(u), u.n_data > 0
                 PROVE /\ Good(VectPopBack(u))
                       /\ VectPopBack(u).n_data = u.n_data - 1
                       /\ \A j \in Nat : At(VectPopBack(u), j) = At(u, j)
<1> DEFINE w == VectPopBack(u)
<1>1. u.n_data \in Nat /\ u.n_alloc \in Nat /\ u.data \in Blocks /\ u.n_data - 1 \in Nat
  BY DEF Vectors
<1>2. w = [data |-> u.data, n_data |-> u.n_data - 1, n_alloc |-> u.n_alloc]
  BY DEF VectPopBack, Vectors
<1> HIDE DEF w
<1>3. w \in Vectors /\ w.data = u.data /\ w.n_data = u.n_data - 1 /\ w.n_alloc = u.n_alloc
  BY <1>1, <1>2, VectorOf
<1> QED
  BY <1>1, <1>3 DEF Good, At, w

\* erase moves what follows one place forward: what it reads past the last
\* element it leaves past the last element.
LEMMA EraseGood == ASSUME NEW u \in Vectors, Good(u), NEW pos \in Nat, pos < u.n_data
                   PROVE /\ Good(VectErase(u, pos))
                         /\ VectErase(u, pos).n_data = u.n_data - 1
                         /\ \A j \in Slots(u.n_data - 1) :
                               At(VectErase(u, pos), j) =
                                 IF j < pos THEN At(u, j) ELSE At(u, j + 1)
<1> DEFINE w == VectErase(u, pos)
           d == [j \in DOMAIN u.data |->
                    IF j \in pos..(u.n_data - 1) THEN At(u, j + 1) ELSE u.data[j]]
<1>1. u.n_data \in Nat /\ u.n_alloc \in Nat /\ u.data \in Blocks /\ u.n_data - 1 \in Nat
  BY DEF Vectors
<1>2. w = [data |-> d, n_data |-> u.n_data - 1, n_alloc |-> u.n_alloc]
  <2>1. w = [u EXCEPT !.data = d, !.n_data = @ - 1]
    BY DEF VectErase
  <2> HIDE DEF d, w
  <2> QED
    BY <2>1 DEF Vectors
<1>3. d \in Blocks
  <2>1. PICK m \in Nat : u.data \in [Slots(m) -> Cells]
    BY <1>1, BlockOf
  <2>2. \A j \in Slots(m) : j + 1 \in Nat
    BY DEF Slots
  <2>3. d \in [Slots(m) -> Cells]
    BY <2>1, <2>2, ReadsCell
  <2> QED
    BY <2>3, IsBlock
<1>4. /\ DOMAIN d = DOMAIN u.data
      /\ \A j \in DOMAIN d : d[j] = IF j \in pos..(u.n_data - 1) THEN At(u, j + 1) ELSE u.data[j]
  OBVIOUS
<1> HIDE DEF w, d
<1>5. w \in Vectors /\ w.data = d /\ w.n_data = u.n_data - 1 /\ w.n_alloc = u.n_alloc
  BY <1>1, <1>2, <1>3, VectorOf
<1>6. Good(w)
  BY <1>1, <1>4, <1>5 DEF Good
<1>7. ASSUME NEW j \in Slots(u.n_data - 1)
      PROVE At(w, j) = IF j < pos THEN At(u, j) ELSE At(u, j + 1)
  <2>1. j \in Nat /\ j < u.n_data - 1 /\ j \in DOMAIN d
    BY <1>1, <1>4 DEF Slots, Good
  <2>2. At(w, j) = IF j \in pos..(u.n_data - 1) THEN At(u, j + 1) ELSE u.data[j]
    BY <1>4, <1>5, <2>1 DEF At
  <2>3. At(u, j) = u.data[j]
    BY <1>4, <2>1 DEF At
  <2> QED
    BY <1>1, <2>1, <2>2, <2>3
<1> QED
  BY <1>5, <1>6, <1>7 DEF w

\* insert moves the elements from pos on one place back.
LEMMA InsertGood == ASSUME NEW u \in Vectors, Good(u), RoomForOne(u),
                           NEW pos \in Nat, pos < u.n_data, NEW x \in Val
                    PROVE /\ Good(VectInsert(u, pos, x))
                          /\ VectInsert(u, pos, x).n_data = u.n_data + 1
                          /\ \A j \in Slots(u.n_data + 1) :
                                At(VectInsert(u, pos, x), j) =
                                  IF j < pos THEN At(u, j)
                                  ELSE IF j = pos THEN x ELSE At(u, j - 1)
<1> DEFINE b == u.n_data
           g == Grown(u)
           w == VectInsert(u, pos, x)
           d == [j \in DOMAIN g.data |->
                    IF j = pos THEN x
                    ELSE IF j \in (pos + 1)..b THEN g.data[j - 1] ELSE g.data[j]]
<1>1. b \in Nat /\ pos < b
  BY DEF Vectors
<1>2. /\ Good(g) /\ g.n_data = b /\ g.n_alloc >= b + 1
      /\ \A j \in Slots(b) : At(g, j) = At(u, j)
  BY GrownGood
<1>3. w = IF b \notin DOMAIN g.data THEN Broken ELSE [g EXCEPT !.data = d, !.n_data = @ + 1]
  BY DEF VectInsert
<1> HIDE DEF b, g, w
<1>4. g \in Vectors /\ g.n_alloc \in Nat /\ g.data \in Blocks
  BY <1>2 DEF Good, Vectors
<1>5. Slots(g.n_alloc) \subseteq DOMAIN g.data /\ Slots(b + 1) \subseteq DOMAIN g.data
  BY <1>1, <1>2, <1>4 DEF Good, Slots
<1>6. b \in DOMAIN g.data
  BY <1>1, <1>5 DEF Slots
<1>7. d \in Blocks
  <2>1. PICK m \in Nat : g.data \in [Slots(m) -> Cells]
    BY <1>4, BlockOf
  <2>2. \A j \in Slots(m) : j \in (pos + 1)..b => j - 1 \in Slots(m)
    BY <1>1 DEF Slots
  <2>3. d \in [Slots(m) -> Cells]
    BY <2>1, <2>2 DEF Cells
  <2> QED
    BY <2>3, IsBlock
<1>8. /\ DOMAIN d = DOMAIN g.data
      /\ \A j \in DOMAIN d : d[j] = IF j = pos THEN x
                                    ELSE IF j \in (pos + 1)..b THEN g.data[j - 1] ELSE g.data[j]
  OBVIOUS
<1> HIDE DEF d
<1>9. w = [data |-> d, n_data |-> b + 1, n_alloc |-> g.n_alloc]
  BY <1>2, <1>3, <1>4, <1>6 DEF Vectors
<1>10. w \in Vectors /\ w.data = d /\ w.n_data = b + 1 /\ w.n_alloc = g.n_alloc
  BY <1>1, <1>4, <1>7, <1>9, VectorOf
<1>11. Good(w)
  BY <1>2, <1>5, <1>8, <1>10 DEF Good
<1>12. ASSUME NEW j \in Slots(b + 1)
       PROVE At(w, j) = IF j < pos THEN At(u, j) ELSE IF j = pos THEN x ELSE At(u, j - 1)
  <2>1. j \in Nat /\ j < b + 1 /\ j \in DOMAIN d
    BY <1>1, <1>5, <1>8 DEF Slots
  <2>2. At(w, j) = IF j = pos THEN x
                   ELSE IF j \in (pos + 1)..b THEN g.data[j - 1] ELSE g.data[j]
    BY <1>8, <1>10, <2>1 DEF At
  <2>3. \A h \in Slots(b) : g.data[h] = At(u, h)
    BY <1>1, <1>2, <1>5 DEF At, Slots
  <2>4. CASE j < pos
    <3>1. j \in Slots(b)
      BY <1>1, <2>1, <2>4 DEF Slots
    <3> QED
      BY <1>1, <2>1, <2>2, <2>3, <2>4, <3>1
  <2>5. CASE j = pos
    BY <2>2, <2>5
  <2>6. CASE j > pos
    <3>1. j - 1 \in Slots(b) /\ j \in (pos + 1)..b
      BY <1>1, <2>1, <2>6 DEF Slots
    <3> QED
      BY <2>1, <2>2, <2>3, <2>6, <3>1
  <2> QED
    BY <1>1, <2>1, <2>4, <2>5, <2>6
<1> QED
  BY <1>10, <1>11, <1>12 DEF b, w

LEMMA InitVectInv == Init => VectInv
BY DEF Init, VectInv

\* What a call has allocated, if not less than it asked for, holds its elements.
LEMMA Allocated == ASSUME ~short, ~short'
                   PROVE  /\ \A m, x : Create(m, x) => Fits(m)
                          /\ \A m, x : Resize(m, x) => m <= v.n_data \/ Fits(m)
                          /\ TakesRoom => Holds /\ RoomForOne(v)
BY DEF Create, Resize, TakesRoom, Allocates, RoomForOne

\* Only the end of a vector ends what was allocated short for it.
LEMMA ShortStays == ASSUME Next, short, ~short' PROVE v' = Null
BY DEF Next, Create, Resize, Insert, ReserveMore, Erase, Fill, PushBack, PopBack, Destroy,
       TakesRoom, Allocates, AllocatesNothing, Becomes

\* What the calls grow to holds what they write, until it does not.
LEMMA NextVectInv == ASSUME Apart, VectInv, [Next]_vars PROVE VectInv'
<1>1. CASE short' \/ v' = Null
  BY <1>1 DEF VectInv
<1>0. CASE UNCHANGED vars
  BY <1>0 DEF VectInv, Good, vars
<1>2. CASE ~short' /\ v' # Null /\ Next
  <2>0. ~short /\ ~short'
    BY <1>2, ShortStays
  <2>1. ASSUME Holds PROVE v \in Vectors /\ Good(v) /\ v.n_data \in Nat
    BY <2>0, <2>1 DEF Holds, VectInv, Good, Vectors
  <2>2. TakesRoom => Holds /\ RoomForOne(v)
    BY <2>0, Allocated
  <2>3. ASSUME NEW m \in Nat, NEW x \in Val, Create(m, x) PROVE Good(v')
    BY <2>0, <2>3, Allocated, CreateGood DEF Create, Becomes
  <2>4. ASSUME NEW m \in Nat, NEW x \in Val, Resize(m, x) PROVE Good(v')
    BY <2>0, <2>1, <2>4, Allocated, ResizeGood DEF Resize, Becomes
  <2>5. ASSUME NEW m \in Nat, NEW x \in Val, Insert(m, x) PROVE Good(v')
    BY <2>1, <2>2, <2>5, InsertGood DEF Insert, Becomes
  <2>6. ASSUME NEW m \in Nat, ReserveMore(m) PROVE Good(v')
    BY <2>1, <2>6, ReserveGood DEF ReserveMore
  <2>7. ASSUME NEW m \in Nat, Erase(m) PROVE Good(v')
    BY <2>1, <2>7, EraseGood DEF Erase, Becomes
  <2>8. ASSUME NEW x \in Val, Fill(x) PROVE Good(v')
    BY <2>1, <2>8, FillGood DEF Fill, Becomes
  <2>9. ASSUME NEW x \in Val, PushBack(x) PROVE Good(v')
    BY <2>1, <2>2, <2>9, PushGood DEF PushBack, Becomes
  <2>10. ASSUME PopBack PROVE Good(v')
    <3>1. v \in Vectors /\ Good(v) /\ v.n_data > 0 /\ v' = VectPopBack(v)
      BY <2>1, <2>10 DEF PopBack, Becomes
    <3>2. Good(VectPopBack(v))
      BY <3>1, PopGood
    <3> QED
      BY <3>1, <3>2
  <2>11. ~Destroy /\ Next
    BY <1>2 DEF Destroy, Becomes
  <2>12. 0..MaxSize \subseteq Nat
    OBVIOUS
  <2>13. Good(v')
    <3>1. CASE \E n \in 0..MaxSize, x \in Val : Create(n, x) \/ Resize(n, x) \/ Insert(n, x)
      BY <2>3, <2>4, <2>5, <2>12, <3>1
    <3>2. CASE \E n \in 0..MaxSize : ReserveMore(n) \/ Erase(n)
      BY <2>6, <2>7, <2>12, <3>2
    <3>3. CASE \E x \in Val : Fill(x) \/ PushBack(x)
      BY <2>8, <2>9, <3>3
    <3> QED
      BY <2>10, <2>11, <3>1, <3>2, <3>3 DEF Next
  <2> QED
    BY <2>13 DEF VectInv, Good
<1> QED
  BY <1>0, <1>1, <1>2

\* A vector is never written past its block, and never believes to have more
\* room than the block has, after any calls with any sizes, up to the first
\* create, resize, push_back or insert for which nearSize computes fewer elements
\* than it was asked for.
THEOREM InBlockUntilShort == ASSUME Apart PROVE Spec => []InBlock
<1>1. Init => VectInv
  BY InitVectInv
<1>2. VectInv /\ [Next]_vars => VectInv'
  BY NextVectInv
<1>3. VectInv => InBlock
  <2> SUFFICES ASSUME VectInv PROVE InBlock
    OBVIOUS
  <2>1. CASE short \/ v = Null
    BY <2>1 DEF InBlock, TypeOK, Apart
  <2>2. CASE ~short /\ v # Null
    <3>1. Good(v)
      BY <2>2 DEF VectInv
    <3>2. /\ v.data \in Blocks /\ v.n_data \in Nat /\ v.n_alloc \in Nat
          /\ DOMAIN v = {"data", "n_data", "n_alloc"} /\ v # Broken
      BY <3>1 DEF Good, Vectors, Apart
    <3>3. \A j \in DOMAIN v.data : v.data[j] \in Val \cup {Junk}
      BY <3>2, BlockOf DEF Cells
    <3> QED
      BY <3>1, <3>2, <3>3 DEF InBlock, TypeOK, Good, Slots
  <2> QED
    BY <2>1, <2>2
<1> QED
  BY <1>1, <1>2, <1>3, PTL DEF Spec

(***************************************************************************)
(* Up to then the vector implements Vector.                                *)
(***************************************************************************)
Elems(u) == [j \in 1..u.n_data |-> At(u, j - 1)]

\* What stands for no vector is no sequence either.
NoSequence == Null \notin Seq(Cells)

LEMMA ElemsAre == ASSUME NEW u \in Vectors
                  PROVE /\ Elems(u) \in Seq(Cells)
                        /\ Len(Elems(u)) = u.n_data
                        /\ \A j \in 1..u.n_data : Elems(u)[j] = At(u, j - 1)
<1>1. u.n_data \in Nat
  BY DEF Vectors
<1>2. \A j \in 1..u.n_data : j - 1 \in Nat /\ At(u, j - 1) \in Cells
  BY <1>1, ReadsCell
<1> DEFINE k == u.n_data
           f == Elems(u)
<1>3. f \in [1..k -> Cells] /\ \A j \in 1..k : f[j] = At(u, j - 1)
  BY <1>2 DEF Elems
<1>4. k \in Nat
  BY <1>1
<1> HIDE DEF k, f
<1>5. f \in Seq(Cells) /\ Len(f) = k
  BY <1>3, <1>4
<1> QED
  BY <1>3, <1>5 DEF k, f

\* An element of the slots is one of the sequence.
LEMMA Shifted == ASSUME NEW m \in Nat, NEW j \in 1..m
                 PROVE j \in Nat /\ j - 1 \in Slots(m) /\ j - 1 \in Nat
BY DEF Slots

LEMMA FilledIs == ASSUME NEW m \in Nat, NEW x \in Val
                  PROVE /\ Promise!Filled(m, x) \in Seq(Cells)
                        /\ Len(Promise!Filled(m, x)) = m
                        /\ \A j \in 1..m : Promise!Filled(m, x)[j] = x
BY DEF Promise!Filled, Cells

LEMMA MadeByFill == ASSUME NEW s \in Seq(Cells), NEW m \in Nat, NEW x \in Val,
                           Len(s) = m, \A j \in 1..m : s[j] = x
                    PROVE s = Promise!Filled(m, x)
<1> DEFINE f == Promise!Filled(m, x)
<1>1. f \in Seq(Cells) /\ Len(f) = m /\ \A j \in 1..m : f[j] = x
  BY FilledIs
<1> HIDE DEF f
<1>2. s = f
  BY <1>1, SeqEqual
<1> QED
  BY <1>2 DEF f

LEMMA MadeByGrowth == ASSUME NEW s \in Seq(Cells), NEW t \in Seq(Cells), NEW m \in Nat, NEW x \in Val,
                             Len(s) < m, Len(t) = m,
                             \A j \in 1..m : t[j] = IF j <= Len(s) THEN s[j] ELSE x
                      PROVE t = s \o Promise!Filled(m - Len(s), x)
<1> DEFINE f == Promise!Filled(m - Len(s), x)
<1>1. Len(s) \in Nat /\ m - Len(s) \in Nat
  OBVIOUS
<1>2. f \in Seq(Cells) /\ Len(f) = m - Len(s) /\ \A j \in 1..(m - Len(s)) : f[j] = x
  BY <1>1, FilledIs
<1> HIDE DEF f
<1>3. /\ s \o f \in Seq(Cells) /\ Len(s \o f) = m
      /\ \A j \in 1..m : (s \o f)[j] = IF j <= Len(s) THEN s[j] ELSE f[j - Len(s)]
  BY <1>1, <1>2, ConcatProperties
<1>4. \A j \in 1..m : ~(j <= Len(s)) => j - Len(s) \in 1..(m - Len(s))
  BY <1>1
<1>5. \A j \in 1..m : t[j] = (s \o f)[j]
  BY <1>2, <1>3, <1>4
<1>6. t = s \o f
  BY <1>3, <1>5, SeqEqual
<1> QED
  BY <1>6 DEF f

LEMMA MadeByCut == ASSUME NEW s \in Seq(Cells), NEW t \in Seq(Cells), NEW m \in Nat,
                          m <= Len(s), Len(t) = m, \A j \in 1..m : t[j] = s[j]
                   PROVE t = SubSeq(s, 1, m)
<1> DEFINE f == SubSeq(s, 1, m)
<1>1. f \in Seq(Cells) /\ Len(f) = m /\ \A j \in 1..m : f[j] = s[j]
  OBVIOUS
<1> HIDE DEF f
<1>2. t = f
  BY <1>1, SeqEqual
<1> QED
  BY <1>2 DEF f

LEMMA MadeByPush == ASSUME NEW s \in Seq(Cells), NEW t \in Seq(Cells), NEW x \in Val,
                           Len(t) = Len(s) + 1,
                           \A j \in 1..Len(t) : t[j] = IF j <= Len(s) THEN s[j] ELSE x
                    PROVE t = Append(s, x)
<1> DEFINE f == Append(s, x)
<1>1. x \in Cells
  BY DEF Cells
<1>2. /\ f \in Seq(Cells) /\ Len(f) = Len(s) + 1
      /\ \A j \in 1..(Len(s) + 1) : f[j] = IF j <= Len(s) THEN s[j] ELSE x
  BY <1>1
<1> HIDE DEF f
<1>3. t = f
  BY <1>2, SeqEqual
<1> QED
  BY <1>3 DEF f

\* The sequence up to a place, and what follows from another.
LEMMA Parts == ASSUME NEW s \in Seq(Cells), NEW m \in Nat, m <= Len(s)
               PROVE /\ SubSeq(s, 1, m) \in Seq(Cells)
                     /\ Len(SubSeq(s, 1, m)) = m
                     /\ \A j \in 1..m : SubSeq(s, 1, m)[j] = s[j]
                     /\ SubSeq(s, m + 1, Len(s)) \in Seq(Cells)
                     /\ Len(SubSeq(s, m + 1, Len(s))) = Len(s) - m
                     /\ \A j \in 1..(Len(s) - m) : SubSeq(s, m + 1, Len(s))[j] = s[m + j]
<1>1. Len(s) \in Nat /\ \A j \in 1..Len(s) : s[j] \in Cells
  OBVIOUS
<1>2. /\ SubSeq(s, 1, m) \in Seq(Cells) /\ Len(SubSeq(s, 1, m)) = m
      /\ \A j \in 1..m : SubSeq(s, 1, m)[j] = s[j]
  OBVIOUS
<1>3. /\ SubSeq(s, m + 1, Len(s)) \in Seq(Cells) /\ Len(SubSeq(s, m + 1, Len(s))) = Len(s) - m
      /\ \A j \in 1..(Len(s) - m) : SubSeq(s, m + 1, Len(s))[j] = s[m + j]
  BY <1>1, SubSeqProperties
<1> QED
  BY <1>2, <1>3

\* t is the k elements of a and the m elements of b.
Joins(t, a, b, k, m) ==
    /\ t \in Seq(Cells)
    /\ Len(t) = k + m
    /\ \A j \in 1..(k + m) : t[j] = IF j <= k THEN a[j] ELSE b[j - k]

LEMMA Joined == ASSUME NEW a \in Seq(Cells), NEW b \in Seq(Cells), NEW k \in Nat, NEW m \in Nat,
                       Len(a) = k, Len(b) = m
                PROVE Joins(a \o b, a, b, k, m)
<1>1. a \o b \in Seq(Cells) /\ Len(a \o b) = k + m
  BY ConcatProperties
<1>2. \A j \in 1..(Len(a) + Len(b)) : (a \o b)[j] = IF j <= Len(a) THEN a[j] ELSE b[j - Len(a)]
  BY ConcatProperties
<1> QED
  BY <1>1, <1>2 DEF Joins

LEMMA MadeByErase == ASSUME NEW s \in Seq(Cells), NEW t \in Seq(Cells), NEW pos \in Nat,
                            pos < Len(s), Len(t) = Len(s) - 1,
                            \A j \in 1..Len(t) : t[j] = IF j <= pos THEN s[j] ELSE s[j + 1]
                     PROVE t = SubSeq(s, 1, pos) \o SubSeq(s, pos + 1 + 1, Len(s))
<1> DEFINE a == SubSeq(s, 1, pos)
           b == SubSeq(s, pos + 1 + 1, Len(s))
<1>0. Len(s) \in Nat /\ pos + 1 \in Nat /\ pos + 1 <= Len(s) /\ pos <= Len(s)
  OBVIOUS
<1>1. a \in Seq(Cells) /\ Len(a) = pos /\ \A j \in 1..pos : a[j] = s[j]
  BY <1>0, Parts
<1>2. /\ b \in Seq(Cells) /\ Len(b) = Len(s) - (pos + 1)
      /\ \A j \in 1..(Len(s) - (pos + 1)) : b[j] = s[pos + 1 + j]
  BY <1>0, Parts
<1> HIDE DEF a, b
<1>3. /\ a \o b \in Seq(Cells) /\ Len(a \o b) = Len(t)
      /\ \A j \in 1..Len(t) : (a \o b)[j] = IF j <= pos THEN a[j] ELSE b[j - pos]
  <2> DEFINE m == Len(s) - (pos + 1)
  <2>1. m \in Nat /\ Len(b) = m /\ pos + m = Len(t)
    BY <1>0, <1>2
  <2> HIDE DEF m
  <2>2. Joins(a \o b, a, b, pos, m)
    BY <1>1, <1>2, <2>1, Joined
  <2> QED
    BY <2>1, <2>2 DEF Joins
<1>4. ASSUME NEW j \in 1..Len(t) PROVE t[j] = (a \o b)[j]
  <2>1. CASE j <= pos
    BY <1>0, <1>1, <1>3, <2>1
  <2>2. CASE ~(j <= pos)
    <3>1. j - pos \in 1..(Len(s) - (pos + 1)) /\ pos + 1 + (j - pos) = j + 1
      BY <1>0, <2>2
    <3> QED
      BY <1>0, <1>2, <1>3, <2>2, <3>1
  <2> QED
    BY <2>1, <2>2
<1>5. t = a \o b
  BY <1>3, <1>4, SeqEqual
<1> QED
  BY <1>5 DEF a, b

LEMMA MadeByInsert == ASSUME NEW s \in Seq(Cells), NEW t \in Seq(Cells), NEW pos \in Nat, NEW x \in Val,
                             pos < Len(s), Len(t) = Len(s) + 1,
                             \A j \in 1..Len(t) : t[j] = IF j <= pos THEN s[j]
                                                         ELSE IF j = pos + 1 THEN x ELSE s[j - 1]
                      PROVE t = SubSeq(s, 1, pos) \o <<x>> \o SubSeq(s, pos + 1, Len(s))
<1> DEFINE a == SubSeq(s, 1, pos)
           b == SubSeq(s, pos + 1, Len(s))
           c == a \o <<x>>
<1>0. Len(s) \in Nat /\ pos <= Len(s) /\ x \in Cells
  BY DEF Cells
<1>1. a \in Seq(Cells) /\ Len(a) = pos /\ \A j \in 1..pos : a[j] = s[j]
  BY <1>0, Parts
<1>2. b \in Seq(Cells) /\ Len(b) = Len(s) - pos /\ \A j \in 1..(Len(s) - pos) : b[j] = s[pos + j]
  BY <1>0, Parts
<1> HIDE DEF a, b
<1>3. /\ c \in Seq(Cells) /\ Len(c) = pos + 1
      /\ \A j \in 1..(pos + 1) : c[j] = IF j <= pos THEN a[j] ELSE x
  <2>1. <<x>> \in Seq(Cells) /\ Len(<<x>>) = 1 /\ <<x>>[1] = x
    BY <1>0
  <2> DEFINE y == <<x>>
  <2> HIDE DEF y
  <2>2. y \in Seq(Cells) /\ Len(y) = 1 /\ y[1] = x
    BY <2>1 DEF y
  <2>3. Joins(a \o y, a, y, pos, 1)
    BY <1>1, <2>2, Joined
  <2>4. \A j \in 1..(pos + 1) : ~(j <= pos) => j - pos = 1
    OBVIOUS
  <2>5. c = a \o y
    BY DEF y
  <2> HIDE DEF c
  <2> QED
    BY <2>2, <2>3, <2>4, <2>5 DEF Joins
<1> HIDE DEF c
<1>4. /\ c \o b \in Seq(Cells) /\ Len(c \o b) = Len(t)
      /\ \A j \in 1..Len(t) : (c \o b)[j] = IF j <= pos + 1 THEN c[j] ELSE b[j - (pos + 1)]
  <2> DEFINE m == Len(s) - pos
             k == pos + 1
  <2>1. m \in Nat /\ k \in Nat /\ Len(b) = m /\ Len(c) = k /\ k + m = Len(t)
    BY <1>0, <1>2, <1>3
  <2> HIDE DEF m, k
  <2>2. Joins(c \o b, c, b, k, m)
    BY <1>2, <1>3, <2>1, Joined
  <2> QED
    BY <2>1, <2>2 DEF k, Joins
<1>5. ASSUME NEW j \in 1..Len(t) PROVE t[j] = (c \o b)[j]
  <2>1. CASE j <= pos
    <3>1. j \in 1..pos /\ j \in 1..(pos + 1) /\ j <= pos + 1
      BY <2>1
    <3>2. t[j] = s[j] /\ a[j] = s[j] /\ c[j] = a[j] /\ (c \o b)[j] = c[j]
      BY <1>1, <1>3, <1>4, <2>1, <3>1
    <3> QED
      BY <3>2
  <2>2. CASE j = pos + 1
    <3>1. j \in 1..(pos + 1) /\ ~(j <= pos) /\ j <= pos + 1
      BY <2>2
    <3>2. t[j] = x /\ c[j] = x /\ (c \o b)[j] = c[j]
      BY <1>3, <1>4, <2>2, <3>1
    <3> QED
      BY <3>2
  <2>3. CASE j > pos + 1
    <3>1. j - (pos + 1) \in 1..(Len(s) - pos) /\ pos + (j - (pos + 1)) = j - 1
      <4> DEFINE n == Len(s)
      <4>1. n \in Nat /\ j \in Nat /\ j <= n + 1
        BY <1>0
      <4> HIDE DEF n
      <4>2. j - (pos + 1) \in 1..(n - pos) /\ pos + (j - (pos + 1)) = j - 1
        BY <4>1, <2>3
      <4> QED
        BY <4>2 DEF n
    <3>2. t[j] = s[j - 1] /\ (c \o b)[j] = b[j - (pos + 1)]
      BY <1>0, <1>4, <2>3
    <3>3. b[j - (pos + 1)] = s[j - 1]
      BY <1>2, <3>1
    <3> QED
      BY <3>2, <3>3
  <2>4. j \in Nat /\ pos \in Nat
    OBVIOUS
  <2>5. j <= pos \/ j = pos + 1 \/ j > pos + 1
    BY <2>4
  <2> QED
    BY <2>1, <2>2, <2>3, <2>5
<1>6. t = c \o b
  BY <1>4, <1>5, SeqEqual
<1> QED
  BY <1>6 DEF a, b, c

\* The elements of a good vector.
LEMMA GoodElems == ASSUME NEW u, Good(u), NEW k \in Nat, u.n_data = k
                   PROVE /\ u \in Vectors
                         /\ Elems(u) \in Seq(Cells)
                         /\ Len(Elems(u)) = k
                         /\ \A j \in 1..k : Elems(u)[j] = At(u, j - 1)
<1>1. u \in Vectors
  BY DEF Good
<1> QED
  BY <1>1, ElemsAre

LEMMA CreateMade == ASSUME Apart, NEW m \in Nat, NEW x \in Val, Fits(m)
                    PROVE Elems(VectCreate(m, x)) = Promise!Filled(m, x)
<1> DEFINE w == VectCreate(m, x)
<1>1. Good(w) /\ w.n_data = m /\ \A j \in Slots(m) : At(w, j) = x
  BY CreateGood
<1> HIDE DEF w
<1>2. Elems(w) \in Seq(Cells) /\ Len(Elems(w)) = m /\ \A j \in 1..m : Elems(w)[j] = At(w, j - 1)
  BY <1>1, GoodElems
<1>3. \A j \in 1..m : Elems(w)[j] = x
  BY <1>1, <1>2, Shifted
<1>4. Elems(w) = Promise!Filled(m, x)
  BY <1>2, <1>3, MadeByFill
<1> QED
  BY <1>4 DEF w

LEMMA FillMade == ASSUME Apart, NEW u \in Vectors, Good(u), NEW x \in Val
                  PROVE Elems(VectFill(u, x)) = Promise!Filled(Len(Elems(u)), x)
<1> DEFINE w == VectFill(u, x)
           k == u.n_data
<1>1. Good(w) /\ w.n_data = k /\ \A j \in Slots(k) : At(w, j) = x
  BY FillGood
<1>2. k \in Nat /\ Len(Elems(u)) = k
  BY ElemsAre DEF Vectors
<1> HIDE DEF w, k
<1>3. Elems(w) \in Seq(Cells) /\ Len(Elems(w)) = k /\ \A j \in 1..k : Elems(w)[j] = At(w, j - 1)
  BY <1>1, <1>2, GoodElems
<1>4. \A j \in 1..k : Elems(w)[j] = x
  BY <1>1, <1>2, <1>3, Shifted
<1>5. Elems(w) = Promise!Filled(k, x)
  BY <1>2, <1>3, <1>4, MadeByFill
<1> QED
  BY <1>2, <1>5 DEF w

LEMMA ReserveMade == ASSUME NEW u \in Vectors, Good(u), NEW m \in Nat
                     PROVE Elems(Reserve(u, m)) = Elems(u)
<1> DEFINE w == Reserve(u, m)
           k == u.n_data
<1>1. w.n_data = k /\ (\A j \in Slots(k) : At(w, j) = At(u, j)) /\ k \in Nat
  BY ReserveGood DEF Vectors
<1>2. Elems(u) = [j \in 1..k |-> At(u, j - 1)]
  BY DEF Elems
<1> HIDE DEF w, k
<1>3. Elems(w) = [j \in 1..k |-> At(w, j - 1)]
  BY <1>1 DEF Elems
<1>4. \A j \in 1..k : At(w, j - 1) = At(u, j - 1)
  BY <1>1, Shifted
<1>5. Elems(w) = Elems(u)
  BY <1>2, <1>3, <1>4
<1> QED
  BY <1>5 DEF w

LEMMA ResizeMade == ASSUME Apart, NEW u \in Vectors, Good(u), NEW m \in Nat, NEW x \in Val,
                           m <= u.n_data \/ Fits(m)
                    PROVE Elems(VectResize(u, m, x)) =
                            IF m <= Len(Elems(u)) THEN SubSeq(Elems(u), 1, m)
                            ELSE Elems(u) \o Promise!Filled(m - Len(Elems(u)), x)
<1> DEFINE w == VectResize(u, m, x)
           k == u.n_data
           s == Elems(u)
           t == Elems(w)
<1>1. Good(w) /\ w.n_data = m /\ \A j \in Slots(m) : At(w, j) = IF j < k THEN At(u, j) ELSE x
  BY ResizeGood
<1>2. /\ k \in Nat /\ s \in Seq(Cells) /\ Len(s) = k
      /\ \A j \in 1..k : s[j] = At(u, j - 1)
  BY ElemsAre DEF Vectors
<1> HIDE DEF w, k
<1>3. t \in Seq(Cells) /\ Len(t) = m /\ \A j \in 1..m : t[j] = At(w, j - 1)
  BY <1>1, GoodElems
<1> HIDE DEF s, t
<1>4. ASSUME NEW j \in 1..m PROVE t[j] = IF j <= Len(s) THEN s[j] ELSE x
  <2>1. j \in Nat /\ j - 1 \in Slots(m) /\ (j <= k => j \in 1..k) /\ (j - 1 < k <=> j <= k)
    BY <1>2 DEF Slots
  <2>2. t[j] = IF j - 1 < k THEN At(u, j - 1) ELSE x
    BY <1>1, <1>3, <2>1
  <2> QED
    BY <1>2, <2>1, <2>2
<1>5. CASE m <= Len(s)
  <2>1. \A j \in 1..m : t[j] = s[j]
    BY <1>2, <1>4, <1>5
  <2>2. t = SubSeq(s, 1, m)
    BY <1>2, <1>3, <1>5, <2>1, MadeByCut
  <2> QED
    BY <1>5, <2>2 DEF s, t, w
<1>6. CASE ~(m <= Len(s))
  <2>1. Len(s) < m
    BY <1>2, <1>6
  <2>2. \A j \in 1..m : t[j] = IF j <= Len(s) THEN s[j] ELSE x
    BY <1>4
  <2>3. /\ s \in Seq(Cells) /\ t \in Seq(Cells)
        /\ Len(s) < m /\ Len(t) = m
    BY <1>2, <1>3, <2>1
  <2>4. t = s \o Promise!Filled(m - Len(s), x)
    BY <2>2, <2>3, MadeByGrowth
  <2> QED
    BY <1>6, <2>4 DEF s, t, w
<1> QED
  BY <1>5, <1>6

LEMMA PushMade == ASSUME Apart, NEW u \in Vectors, Good(u), RoomForOne(u), NEW x \in Val
                  PROVE Elems(VectPushBack(u, x)) = Append(Elems(u), x)
<1> DEFINE w == VectPushBack(u, x)
           k == u.n_data
           m == k + 1
           s == Elems(u)
           t == Elems(w)
<1>1. Good(w) /\ w.n_data = m /\ \A j \in Slots(m) : At(w, j) = IF j < k THEN At(u, j) ELSE x
  BY PushGood
<1>2. /\ k \in Nat /\ s \in Seq(Cells) /\ Len(s) = k
      /\ \A j \in 1..k : s[j] = At(u, j - 1)
  BY ElemsAre DEF Vectors
<1>3. m \in Nat /\ m = k + 1
  BY <1>2
<1> HIDE DEF w, k, m
<1>4. t \in Seq(Cells) /\ Len(t) = m /\ \A j \in 1..m : t[j] = At(w, j - 1)
  BY <1>1, <1>3, GoodElems
<1> HIDE DEF s, t
<1>5. ASSUME NEW j \in 1..m PROVE t[j] = IF j <= Len(s) THEN s[j] ELSE x
  <2>1. j \in Nat /\ j - 1 \in Slots(m) /\ (j <= k => j \in 1..k) /\ (j - 1 < k <=> j <= k)
    BY <1>2, <1>3 DEF Slots
  <2>2. t[j] = IF j - 1 < k THEN At(u, j - 1) ELSE x
    BY <1>1, <1>4, <2>1
  <2> QED
    BY <1>2, <2>1, <2>2
<1>6. t = Append(s, x)
  BY <1>2, <1>3, <1>4, <1>5, MadeByPush
<1> QED
  BY <1>6 DEF s, t, w

LEMMA PopMade == ASSUME NEW u \in Vectors, Good(u), u.n_data > 0
                 PROVE Elems(VectPopBack(u)) = SubSeq(Elems(u), 1, Len(Elems(u)) - 1)
<1> DEFINE w == VectPopBack(u)
           k == u.n_data
           m == k - 1
           s == Elems(u)
           t == Elems(w)
<1>1. Good(w) /\ w.n_data = m /\ \A j \in Nat : At(w, j) = At(u, j)
  BY PopGood
<1>2. /\ k \in Nat /\ k > 0 /\ s \in Seq(Cells) /\ Len(s) = k
      /\ \A j \in 1..k : s[j] = At(u, j - 1)
  BY ElemsAre DEF Vectors
<1>3. m \in Nat /\ m = Len(s) - 1 /\ m <= Len(s)
  BY <1>2
<1> HIDE DEF w, k, m
<1>4. t \in Seq(Cells) /\ Len(t) = m /\ \A j \in 1..m : t[j] = At(w, j - 1)
  BY <1>1, <1>3, GoodElems
<1> HIDE DEF s, t
<1>5. \A j \in 1..m : t[j] = s[j]
  <2> SUFFICES ASSUME NEW j \in 1..m PROVE t[j] = s[j]
    OBVIOUS
  <2>1. j \in 1..k /\ j - 1 \in Nat
    BY <1>2, <1>3
  <2> QED
    BY <1>1, <1>2, <1>4, <2>1
<1>6. t = SubSeq(s, 1, m)
  BY <1>2, <1>3, <1>4, <1>5, MadeByCut
<1> QED
  BY <1>3, <1>6 DEF s, t, w

LEMMA EraseMade == ASSUME NEW u \in Vectors, Good(u), NEW pos \in Nat, pos < u.n_data
                   PROVE Elems(VectErase(u, pos)) =
                           SubSeq(Elems(u), 1, pos) \o SubSeq(Elems(u), pos + 1 + 1, Len(Elems(u)))
<1> DEFINE w == VectErase(u, pos)
           k == u.n_data
           m == k - 1
           s == Elems(u)
           t == Elems(w)
<1>1. /\ Good(w) /\ w.n_data = m
      /\ \A j \in Slots(m) : At(w, j) = IF j < pos THEN At(u, j) ELSE At(u, j + 1)
  BY EraseGood
<1>2. /\ k \in Nat /\ pos < k /\ s \in Seq(Cells) /\ Len(s) = k
      /\ \A j \in 1..k : s[j] = At(u, j - 1)
  BY ElemsAre DEF Vectors
<1>3. m \in Nat /\ m = k - 1
  BY <1>2
<1> HIDE DEF w, k, m
<1>4. t \in Seq(Cells) /\ Len(t) = m /\ \A j \in 1..m : t[j] = At(w, j - 1)
  BY <1>1, <1>3, GoodElems
<1> HIDE DEF s, t
<1>5. ASSUME NEW j \in 1..m PROVE t[j] = IF j <= pos THEN s[j] ELSE s[j + 1]
  <2>1. j \in 1..k /\ j + 1 \in 1..k /\ j - 1 \in Slots(m) /\ (j - 1 < pos <=> j <= pos)
    BY <1>2, <1>3 DEF Slots
  <2>2. j + 1 - 1 = j - 1 + 1
    OBVIOUS
  <2>3. t[j] = IF j - 1 < pos THEN At(u, j - 1) ELSE At(u, j - 1 + 1)
    BY <1>1, <1>4, <2>1
  <2>4. s[j] = At(u, j - 1) /\ s[j + 1] = At(u, j + 1 - 1)
    BY <1>2, <2>1
  <2> QED
    BY <2>1, <2>2, <2>3, <2>4
<1>6. pos < Len(s) /\ Len(t) = Len(s) - 1
  BY <1>2, <1>3, <1>4
<1>7. t = SubSeq(s, 1, pos) \o SubSeq(s, pos + 1 + 1, Len(s))
  BY <1>2, <1>4, <1>5, <1>6, MadeByErase
<1> QED
  BY <1>7 DEF s, t, w

LEMMA InsertMade == ASSUME NEW u \in Vectors, Good(u), RoomForOne(u),
                           NEW pos \in Nat, pos < u.n_data, NEW x \in Val
                    PROVE Elems(VectInsert(u, pos, x)) =
                            SubSeq(Elems(u), 1, pos) \o <<x>> \o SubSeq(Elems(u), pos + 1, Len(Elems(u)))
<1> DEFINE w == VectInsert(u, pos, x)
           k == u.n_data
           m == k + 1
           s == Elems(u)
           t == Elems(w)
<1>1. /\ Good(w) /\ w.n_data = m
      /\ \A j \in Slots(m) : At(w, j) = IF j < pos THEN At(u, j)
                                        ELSE IF j = pos THEN x ELSE At(u, j - 1)
  BY InsertGood
<1>2. /\ k \in Nat /\ pos < k /\ s \in Seq(Cells) /\ Len(s) = k
      /\ \A j \in 1..k : s[j] = At(u, j - 1)
  BY ElemsAre DEF Vectors
<1>3. m \in Nat /\ m = k + 1
  BY <1>2
<1> HIDE DEF w, k, m
<1>4. t \in Seq(Cells) /\ Len(t) = m /\ \A j \in 1..m : t[j] = At(w, j - 1)
  BY <1>1, <1>3, GoodElems
<1> HIDE DEF s, t
<1>5. ASSUME NEW j \in 1..m
      PROVE t[j] = IF j <= pos THEN s[j] ELSE IF j = pos + 1 THEN x ELSE s[j - 1]
  <2>1. /\ j \in Nat /\ j - 1 \in Slots(m) /\ (j - 1 < pos <=> j <= pos)
        /\ (j - 1 = pos <=> j = pos + 1)
    BY <1>2, <1>3 DEF Slots
  <2>2. t[j] = IF j - 1 < pos THEN At(u, j - 1)
               ELSE IF j - 1 = pos THEN x ELSE At(u, j - 1 - 1)
    BY <1>1, <1>4, <2>1
  <2>3. j <= pos => s[j] = At(u, j - 1)
    BY <1>2
  <2>4. ~(j <= pos) /\ j # pos + 1 => s[j - 1] = At(u, j - 1 - 1)
    <3>1. ~(j <= pos) /\ j # pos + 1 => j - 1 \in 1..k
      BY <1>2, <1>3, <2>1
    <3> QED
      BY <1>2, <3>1
  <2> QED
    BY <2>1, <2>2, <2>3, <2>4
<1>6. pos < Len(s) /\ Len(t) = Len(s) + 1
  BY <1>2, <1>3, <1>4
<1>7. t = SubSeq(s, 1, pos) \o <<x>> \o SubSeq(s, pos + 1, Len(s))
  BY <1>2, <1>4, <1>5, <1>6, MadeByInsert
<1> QED
  BY <1>7 DEF s, t, w

\* A call on the vector is one on the sequence.
LEMMA Called == ASSUME v # Null, v' # Null, NEW op, NEW n, NEW x, did' = <<op, n, x>>,
                       op # "create", Elems(v) # Null,
                       Elems(v') = Promise!Made(op, n, x)
                PROVE Promise!Next
<1>1. did'[1] = op /\ did'[2] = n /\ did'[3] = x
  OBVIOUS
<1>2. Elements = Elems(v) /\ Elements' = Elems(v')
  BY DEF Elements, Elems
<1> QED
  BY <1>1, <1>2 DEF Promise!Next, Promise!Call

LEMMA StepsAre == ASSUME Apart, NoSequence, Null \notin Vectors, VectInv, VectInv', [Next]_vars,
                         ~short, ~short'
                  PROVE [Promise!Next]_<<Elements, did>>
<1> DEFINE s == Elems(v)
<1>1. ASSUME Holds
      PROVE /\ v \in Vectors /\ Good(v) /\ v # Null /\ Elements = s /\ s # Null
            /\ s \in Seq(Cells) /\ Len(s) = v.n_data
  <2>1. v \in Vectors /\ Good(v) /\ v # Null /\ Elements = s
    BY <1>1 DEF Holds, VectInv, Good, Elements, Elems
  <2>2. s \in Seq(Cells) /\ Len(s) = v.n_data
    BY <2>1, ElemsAre
  <2> QED
    BY <2>1, <2>2 DEF NoSequence
<1>2. TakesRoom => Holds /\ RoomForOne(v)
  BY Allocated
<1>3. ASSUME Good(v') PROVE v' # Null
  BY <1>3 DEF Good
<1> HIDE DEF s
<1>4. ASSUME NEW m \in Nat, NEW x \in Val, Create(m, x) PROVE Promise!Next
  <2>1. v = Null /\ Fits(m) /\ v' = VectCreate(m, x) /\ did' = <<"create", m, x>>
    BY <1>4, Allocated DEF Create, Becomes
  <2>2. Good(v') /\ Elems(v') = Promise!Filled(m, x)
    BY <2>1, CreateGood, CreateMade
  <2>3. Elements' = Elems(v') /\ Elements = Null
    BY <1>3, <2>1, <2>2 DEF Elements, Elems
  <2>4. did'[1] = "create" /\ did'[2] = m /\ did'[3] = x
    BY <2>1
  <2> QED
    BY <2>2, <2>3, <2>4 DEF Promise!Next, Promise!Create
<1>5. ASSUME NEW m \in Nat, NEW x \in Val, Resize(m, x) PROVE Promise!Next
  <2>1. Holds /\ (m <= v.n_data \/ Fits(m)) /\ v' = VectResize(v, m, x) /\ did' = <<"resize", m, x>>
    BY <1>5, Allocated DEF Resize, Becomes
  <2>2. Good(v') /\ v' # Null
    BY <1>1, <1>3, <2>1, ResizeGood
  <2>3. Elems(v') = IF m <= Len(s) THEN SubSeq(s, 1, m) ELSE s \o Promise!Filled(m - Len(s), x)
    BY <1>1, <2>1, ResizeMade DEF s
  <2>4. Elems(v') = Promise!Made("resize", m, x)
    BY <1>1, <2>1, <2>3 DEF Promise!Made, Promise!Before
  <2> QED
    BY <1>1, <2>1, <2>2, <2>4, Called DEF s
<1>6. ASSUME NEW m \in Nat, NEW x \in Val, Insert(m, x) PROVE Promise!Next
  <2>1. Holds /\ RoomForOne(v) /\ m < v.n_data /\ v' = VectInsert(v, m, x) /\ did' = <<"insert", m, x>>
    BY <1>2, <1>6 DEF Insert, Becomes
  <2>2. Good(v') /\ v' # Null
    BY <1>1, <1>3, <2>1, InsertGood
  <2>3. Elems(v') = SubSeq(s, 1, m) \o <<x>> \o SubSeq(s, m + 1, Len(s))
    BY <1>1, <2>1, InsertMade DEF s
  <2>4. Elems(v') = Promise!Made("insert", m, x)
    BY <1>1, <2>1, <2>3 DEF Promise!Made, Promise!Before, Promise!After
  <2> QED
    BY <1>1, <2>1, <2>2, <2>4, Called DEF s
<1>7. ASSUME NEW m \in Nat, Erase(m) PROVE Promise!Next
  <2>1. Holds /\ m < v.n_data /\ v' = VectErase(v, m) /\ did' = <<"erase", m, Null>>
    BY <1>7 DEF Erase, Becomes
  <2>2. Good(v') /\ v' # Null
    BY <1>1, <1>3, <2>1, EraseGood
  <2>3. Elems(v') = SubSeq(s, 1, m) \o SubSeq(s, m + 1 + 1, Len(s))
    BY <1>1, <2>1, EraseMade DEF s
  <2>4. Elems(v') = Promise!Made("erase", m, Null)
    BY <1>1, <2>1, <2>3 DEF Promise!Made, Promise!Before, Promise!After
  <2> QED
    BY <1>1, <2>1, <2>2, <2>4, Called DEF s
<1>8. ASSUME NEW x \in Val, Fill(x) PROVE Promise!Next
  <2>1. Holds /\ v' = VectFill(v, x) /\ did' = <<"fill", 0, x>>
    BY <1>8 DEF Fill, Becomes
  <2>2. Good(v') /\ v' # Null
    BY <1>1, <1>3, <2>1, FillGood
  <2>3. Elems(v') = Promise!Filled(Len(s), x)
    BY <1>1, <2>1, FillMade DEF s
  <2>4. Elems(v') = Promise!Made("fill", 0, x)
    BY <1>1, <2>1, <2>3 DEF Promise!Made
  <2> QED
    BY <1>1, <2>1, <2>2, <2>4, Called DEF s
<1>9. ASSUME NEW x \in Val, PushBack(x) PROVE Promise!Next
  <2>1. Holds /\ RoomForOne(v) /\ v' = VectPushBack(v, x) /\ did' = <<"push", 0, x>>
    BY <1>2, <1>9 DEF PushBack, Becomes
  <2>2. Good(v') /\ v' # Null
    BY <1>1, <1>3, <2>1, PushGood
  <2>3. Elems(v') = Append(s, x)
    BY <1>1, <2>1, PushMade DEF s
  <2>4. Elems(v') = Promise!Made("push", 0, x)
    BY <1>1, <2>1, <2>3 DEF Promise!Made
  <2> QED
    BY <1>1, <2>1, <2>2, <2>4, Called DEF s
<1>10. ASSUME PopBack PROVE Promise!Next
  <2>1. Holds /\ v.n_data > 0 /\ v' = VectPopBack(v) /\ did' = <<"pop", 0, Null>>
    BY <1>10 DEF PopBack, Becomes
  <2>2. Good(v') /\ v' # Null
    BY <1>1, <1>3, <2>1, PopGood
  <2>3. Elems(v') = SubSeq(s, 1, Len(s) - 1)
    BY <1>1, <2>1, PopMade DEF s
  <2>4. Elems(v') = Promise!Made("pop", 0, Null)
    BY <1>1, <2>1, <2>3 DEF Promise!Made, Promise!Before
  <2> QED
    BY <1>1, <2>1, <2>2, <2>4, Called DEF s
<1>11. ASSUME Destroy PROVE Promise!Next
  <2>1. Holds /\ v' = Null /\ did' = <<"destroy", 0, Null>>
    BY <1>11 DEF Destroy, Becomes
  <2>2. Elements' = Null /\ Elements # Null
    BY <1>1, <2>1 DEF Elements
  <2>3. did'[1] = "destroy"
    BY <2>1
  <2> QED
    BY <2>2, <2>3 DEF Promise!Next, Promise!Call, Promise!Made
<1>12. ASSUME NEW m \in Nat, ReserveMore(m) PROVE UNCHANGED <<Elements, did>>
  <2>1. Holds /\ v' = Reserve(v, m) /\ did' = did
    BY <1>12 DEF ReserveMore
  <2>2. Good(v') /\ v' # Null
    BY <1>1, <1>3, <2>1, ReserveGood
  <2>3. Elems(v') = s
    BY <1>1, <2>1, ReserveMade DEF s
  <2>4. Elements' = Elems(v')
    BY <2>2 DEF Elements, Elems
  <2> QED
    BY <1>1, <2>1, <2>3, <2>4
<1>13. ASSUME UNCHANGED vars PROVE UNCHANGED <<Elements, did>>
  BY <1>13 DEF vars, Elements, At
<1>14. 0..MaxSize \subseteq Nat
  OBVIOUS
<1>15. CASE Next
  <2>1. CASE \E n \in 0..MaxSize, x \in Val : Create(n, x) \/ Resize(n, x) \/ Insert(n, x)
    BY <1>4, <1>5, <1>6, <1>14, <2>1
  <2>2. CASE \E n \in 0..MaxSize : ReserveMore(n) \/ Erase(n)
    BY <1>7, <1>12, <1>14, <2>2
  <2>3. CASE \E x \in Val : Fill(x) \/ PushBack(x)
    BY <1>8, <1>9, <2>3
  <2> QED
    BY <1>10, <1>11, <1>15, <2>1, <2>2, <2>3 DEF Next
<1> QED
  BY <1>13, <1>15

\* Up to that call the calls of a vector are the calls on a sequence: growing,
\* shrinking and what erase reads past the last element lose no value and show no
\* junk; and again those of the next vector, after it was destroyed.
THEOREM SequenceUntilShort == ASSUME Apart, NoSequence, Null \notin Vectors
                              PROVE Spec => IsVector
<1>1. VectInv /\ [Next]_vars => VectInv'
  BY NextVectInv
<1>2. Init => Promise!Init
  BY DEF Init, Promise!Init, Elements
<1>3. VectInv /\ VectInv' /\ [Next]_vars
        => [~short /\ ~short' => [Promise!Next]_<<Elements, did>>]_vars
  BY StepsAre
<1> QED
  BY <1>1, <1>2, <1>3, InitVectInv, PTL DEF Spec, IsVector

\* nearSize divides at least the quantum by the size: up to its root that is
\* enough.
LEMMA SmallFits == ASSUME NEW n \in Nat, n * n <= Quantum PROVE Fits(n)
<1> DEFINE bytes == n * ElemSize
           all == bytes + (Quantum - (bytes % Quantum))
<1>1. CASE n = 0
  BY <1>1 DEF Fits
<1>2. CASE n # 0
  <2>1. bytes \in Nat /\ n \in Nat \ {0}
    BY <1>2
  <2>2. bytes % Quantum <= bytes /\ bytes % Quantum \in Nat
    <3> HIDE DEF bytes
    <3> QED
      BY <2>1
  <2>3. all \in Nat /\ all >= Quantum
    <3> HIDE DEF bytes
    <3> QED
      BY <2>1, <2>2
  <2>4. NearSize(n) = all \div n
    BY <1>2 DEF NearSize
  <2> HIDE DEF all
  <2>5. all >= n * n
    BY <2>3
  <2>6. all \div n >= n
    BY <2>1, <2>3, <2>5
  <2> QED
    BY <2>4, <2>6 DEF Fits
<1> QED
  BY <1>1, <1>2

\* For a vector that never has more elements than the root of the quantum, 63
\* for the 4080 of nearSize, whatever their size, nearSize never computes too
\* little.
THEOREM SmallNeverShort == ASSUME Apart, MaxSize * MaxSize <= Quantum
                           PROVE  Spec => []~short
<1>1. ASSUME NEW n \in 0..MaxSize PROVE Fits(n)
  <2>1. n * n <= n * MaxSize /\ n * MaxSize <= MaxSize * MaxSize
    OBVIOUS
  <2>2. n \in Nat /\ n * n <= Quantum
    BY <2>1
  <2> QED
    BY <2>2, SmallFits
<1>2. VectInv /\ ~short /\ [Next]_vars => ~short'
  <2> SUFFICES ASSUME VectInv, ~short, [Next]_vars PROVE ~short'
    OBVIOUS
  <2>1. \A n \in 0..MaxSize : Allocates(n) => ~short'
    BY <1>1 DEF Allocates
  <2>2. AllocatesNothing => ~short'
    BY DEF AllocatesNothing
  <2>3. TakesRoom => ~short'
    <3> SUFFICES ASSUME TakesRoom PROVE ~short'
      OBVIOUS
    <3>1. v.n_data \in Nat /\ v.n_data < MaxSize
      BY DEF TakesRoom, Holds, VectInv, Good, Vectors
    <3>2. v.n_data + 1 \in 0..MaxSize
      BY <3>1
    <3> QED
      BY <2>1, <2>2, <3>2 DEF TakesRoom
  <2> QED
    BY <2>1, <2>2, <2>3 DEF Next, Create, Resize, Insert, ReserveMore, Erase, Fill, PushBack,
       PopBack, Destroy, vars
<1>3. VectInv /\ [Next]_vars => VectInv'
  BY NextVectInv
<1>4. Init => VectInv /\ ~short
  BY InitVectInv DEF Init
<1> QED
  BY <1>2, <1>3, <1>4, PTL DEF Spec

(***************************************************************************)
(* Sequences of sockets                                                    *)
(***************************************************************************)
\* Only keeps the elements that are in the set: the places kept have different
\* ranks among them, so that every rank is that of one place.
LEMMA OnlyIs == ASSUME NEW A, NEW s \in Seq(A), NEW S
                PROVE Only(s, S) \in Seq(A) /\ Range(Only(s, S)) = Range(s) \cap S
<1> DEFINE at == {k \in DOMAIN s : s[k] \in S}
           below(k) == {h \in at : h <= k}
           rank == [k \in at |-> Cardinality(below(k))]
           n == Cardinality(at)
<1>1. /\ DOMAIN s = 1..Len(s) /\ Len(s) \in Nat
      /\ at \subseteq 1..Len(s) /\ IsFiniteSet(at) /\ n \in Nat
  <2>1. DOMAIN s = 1..Len(s) /\ Len(s) \in Nat
    BY LenProperties
  <2>2. IsFiniteSet(1..Len(s))
    BY <2>1, FS_Interval
  <2>3. at \in SUBSET (1..Len(s))
    BY <2>1
  <2>4. IsFiniteSet(at)
    <3> HIDE DEF at
    <3> QED
      BY <2>2, <2>3, FS_Subset
  <2> QED
    BY <2>1, <2>3, <2>4, FS_CardinalityType
<1> HIDE DEF at
<1>2. ASSUME NEW k \in at PROVE IsFiniteSet(below(k)) /\ Cardinality(below(k)) \in 1..n
  <2>1. below(k) \in SUBSET at
    OBVIOUS
  <2>2. IsFiniteSet(below(k)) /\ Cardinality(below(k)) <= n
    <3> HIDE DEF below
    <3> QED
      BY <1>1, <2>1, FS_Subset
  <2>3. k \in below(k)
    BY <1>1
  <2>4. Cardinality(below(k)) \in Nat /\ Cardinality(below(k)) # 0
    <3> HIDE DEF below
    <3> QED
      BY <2>2, <2>3, FS_CardinalityType, FS_EmptySet
  <2> QED
    BY <1>1, <2>2, <2>4
<1>3. ASSUME NEW k \in at, NEW h \in at, k < h PROVE Cardinality(below(k)) # Cardinality(below(h))
  <2>1. below(k) \in SUBSET below(h) /\ h \in below(h) /\ h \notin below(k)
    <3>1. ~(h <= k) /\ h <= h /\ \A x \in at : x <= k => x <= h
      <4>1. k \in Int /\ h \in Int /\ \A x \in at : x \in Int
        BY <1>1
      <4> QED
        BY <1>3, <4>1
    <3> QED
      BY <3>1
  <2>2. IsFiniteSet(below(h))
    BY <1>2
  <2> HIDE DEF below
  <2> QED
    BY <2>1, <2>2, FS_Subset
<1>4. rank \in Surjection(at, 1..n)
  <2>1. rank \in [at -> 1..n]
    BY <1>2
  <2>2. \A k, h \in at : rank[k] = rank[h] => k = h
    <3>1. \A k, h \in at : k < h \/ h < k \/ k = h
      BY <1>1
    <3> QED
      BY <1>3, <3>1
  <2>3. IsFiniteSet(1..n) /\ Cardinality(1..n) = n
    BY <1>1, FS_Interval
  <2> HIDE DEF rank
  <2>4. rank \in Injection(at, 1..n)
    BY <2>1, <2>2 DEF Injection, IsInjective
  <2> QED
    BY <2>3, <2>4, FS_Injection
<1>5. \A m \in 1..n : \E k \in at : Cardinality(below(k)) = m
  BY <1>4 DEF Surjection
<1> DEFINE t == [m \in 1..n |-> s[CHOOSE k \in at : Cardinality(below(k)) = m]]
<1>6. Only(s, S) = t
  BY DEF Only, at
<1>7. ASSUME NEW k \in at PROVE s[k] \in A /\ s[k] \in Range(s) \cap S
  BY <1>1 DEF at, Range
<1>8. \A m \in 1..n : \E k \in at : t[m] = s[k]
  BY <1>5
<1>9. \A k \in at : \E m \in 1..n : t[m] = s[k]
  <2> SUFFICES ASSUME NEW k \in at PROVE \E m \in 1..n : t[m] = s[k]
    OBVIOUS
  <2> DEFINE m == Cardinality(below(k))
             o == CHOOSE h \in at : Cardinality(below(h)) = m
  <2>1. m \in 1..n
    BY <1>2
  <2>2. o \in at /\ Cardinality(below(o)) = m
    OBVIOUS
  <2>3. o = k
    <3>1. o < k \/ k < o \/ o = k
      <4> HIDE DEF o
      <4> QED
        BY <1>1, <2>2
    <3> HIDE DEF o
    <3> QED
      BY <1>3, <2>2, <3>1
  <2>4. t[m] = s[o]
    BY <2>1
  <2> QED
    BY <2>1, <2>3, <2>4
<1>10. DOMAIN t = 1..n /\ t \in [1..n -> A]
  <2>1. DOMAIN t = 1..n
    OBVIOUS
  <2>2. \A m \in 1..n : t[m] \in A
    BY <1>7, <1>8
  <2> QED
    BY <2>2
<1> HIDE DEF t
<1>11. t \in Seq(A)
  BY <1>1, <1>10, SeqDef
<1>12. Range(t) \subseteq Range(s) \cap S
  BY <1>7, <1>8, <1>10 DEF Range
<1>13. Range(s) \cap S \subseteq Range(t)
  <2>1. ASSUME NEW x \in Range(s) \cap S PROVE x \in Range(t)
    <3>1. PICK k \in at : x = s[k]
      BY DEF Range, at
    <3> QED
      BY <1>9, <1>10, <3>1 DEF Range
  <2> QED
    BY <2>1
<1> QED
  BY <1>6, <1>11, <1>12, <1>13

LEMMA RangeOf == ASSUME NEW A, NEW s \in Seq(A)
                 PROVE Range(s) \subseteq A /\ Range(s) = {s[k] : k \in 1..Len(s)}
BY LenProperties DEF Range

LEMMA QueuedIs == ASSUME NEW A, NEW s \in Seq(A), NEW x \in A
                  PROVE Queued(s, x) \in Seq(A) /\ Range(Queued(s, x)) = Range(s) \cup {x}
<1>1. Append(s, x) \in Seq(A) /\ Range(Append(s, x)) = Range(s) \cup {x}
  <2>1. /\ Append(s, x) \in Seq(A) /\ Len(Append(s, x)) = Len(s) + 1 /\ Len(s) \in Nat
        /\ \A k \in 1..Len(s) : Append(s, x)[k] = s[k]
        /\ Append(s, x)[Len(s) + 1] = x
    BY LenProperties, AppendProperties
  <2> DEFINE t == Append(s, x)
  <2> HIDE DEF t
  <2>2. /\ t \in Seq(A) /\ Len(t) = Len(s) + 1 /\ Len(s) \in Nat
        /\ \A k \in 1..Len(s) : t[k] = s[k]
        /\ t[Len(s) + 1] = x
    BY <2>1 DEF t
  <2>3. Range(s) = {s[k] : k \in 1..Len(s)} /\ Range(t) = {t[k] : k \in 1..Len(t)}
    BY <2>2, RangeOf
  <2>4. 1..Len(t) = 1..Len(s) \cup {Len(s) + 1}
    BY <2>2
  <2>5. Range(t) = Range(s) \cup {x}
    BY <2>2, <2>3, <2>4
  <2> QED
    BY <2>2, <2>5 DEF t
<1> QED
  BY <1>1 DEF Queued

\* What follows the first m elements, and those, are all of them.
LEMMA Split == ASSUME NEW A, NEW s \in Seq(A), NEW m \in 0..Len(s)
               PROVE /\ SubSeq(s, 1, m) \in Seq(A) /\ Len(SubSeq(s, 1, m)) = m
                     /\ SubSeq(s, m + 1, Len(s)) \in Seq(A)
                     /\ Range(SubSeq(s, 1, m)) = {s[k] : k \in 1..m}
                     /\ Range(SubSeq(s, m + 1, Len(s))) = {s[k] : k \in (m + 1)..Len(s)}
                     /\ Range(s) = Range(SubSeq(s, 1, m)) \cup Range(SubSeq(s, m + 1, Len(s)))
<1> DEFINE n == Len(s)
           a == SubSeq(s, 1, m)
           b == SubSeq(s, m + 1, n)
<1>1. n \in Nat /\ m \in Nat /\ m <= n /\ \A k \in 1..n : s[k] \in A
  BY LenProperties
<1>2. a \in Seq(A) /\ Len(a) = m /\ \A k \in 1..m : a[k] = s[k]
  <2>1. 1 \in Int /\ m \in Int /\ \A k \in 1..m : s[k] \in A
    BY <1>1
  <2> HIDE DEF n
  <2> QED
    BY <1>1, <2>1, SubSeqProperties
<1>3. b \in Seq(A) /\ Len(b) = n - m /\ \A k \in 1..(n - m) : b[k] = s[m + k]
  <2>1. m + 1 \in Int /\ n \in Int /\ \A k \in (m + 1)..n : s[k] \in A
    BY <1>1
  <2> HIDE DEF n
  <2>2. /\ SubSeq(s, m + 1, n) \in Seq(A)
        /\ Len(SubSeq(s, m + 1, n)) = IF m + 1 <= n THEN n - (m + 1) + 1 ELSE 0
        /\ \A k \in 1..(n - (m + 1) + 1) : SubSeq(s, m + 1, n)[k] = s[m + 1 + k - 1]
    BY <2>1, SubSeqProperties
  <2>3. n - (m + 1) + 1 = n - m /\ \A k \in Int : m + 1 + k - 1 = m + k
    BY <1>1
  <2> QED
    BY <1>1, <2>2, <2>3
<1> HIDE DEF a, b, n
<1>4. Range(a) = {s[k] : k \in 1..m}
  BY <1>2, RangeOf
<1>5. Range(b) = {s[k] : k \in (m + 1)..n}
  <2>1. Range(b) = {b[k] : k \in 1..(n - m)}
    BY <1>3, RangeOf
  <2>2. ASSUME NEW k \in 1..(n - m) PROVE m + k \in (m + 1)..n /\ b[k] = s[m + k]
    BY <1>1, <1>3
  <2>3. ASSUME NEW k \in (m + 1)..n PROVE k - m \in 1..(n - m) /\ b[k - m] = s[k]
    <3>1. k - m \in 1..(n - m) /\ m + (k - m) = k
      BY <1>1
    <3> QED
      BY <1>3, <3>1
  <2>4. \A x \in Range(b) : \E k \in (m + 1)..n : x = s[k]
    BY <2>1, <2>2
  <2>5. \A k \in (m + 1)..n : s[k] \in Range(b)
    BY <2>1, <2>3
  <2> QED
    BY <2>4, <2>5
<1>6. Range(s) = {s[k] : k \in 1..n}
  BY RangeOf DEF n
<1>7. 1..n = 1..m \cup (m + 1)..n
  BY <1>1
<1> QED
  BY <1>2, <1>3, <1>4, <1>5, <1>6, <1>7 DEF a, b, n

LEMMA ConcatRange == ASSUME NEW A, NEW s \in Seq(A), NEW t \in Seq(A)
                     PROVE s \o t \in Seq(A) /\ Range(s \o t) = Range(s) \cup Range(t)
<1> DEFINE u == s \o t
           n == Len(s)
           m == Len(t)
<1>1. n \in Nat /\ m \in Nat
  BY LenProperties
<1>2. /\ u \in Seq(A) /\ Len(u) = n + m
      /\ \A k \in 1..(n + m) : u[k] = IF k <= n THEN s[k] ELSE t[k - n]
  BY ConcatProperties
<1>3. Range(u) = {u[k] : k \in 1..(n + m)} /\ Range(s) = {s[k] : k \in 1..n} /\ Range(t) = {t[k] : k \in 1..m}
  BY <1>2, RangeOf
<1> HIDE DEF u, n, m
<1>4. ASSUME NEW k \in 1..(n + m) PROVE u[k] \in Range(s) \cup Range(t)
  <2>1. CASE k <= n
    BY <1>1, <1>2, <1>3, <2>1
  <2>2. CASE ~(k <= n)
    <3>1. k - n \in 1..m
      BY <1>1, <2>2
    <3> QED
      BY <1>2, <1>3, <2>2, <3>1
  <2> QED
    BY <2>1, <2>2
<1>5. ASSUME NEW k \in 1..n PROVE s[k] \in Range(u)
  <2>1. k \in 1..(n + m) /\ k <= n
    BY <1>1
  <2> QED
    BY <1>2, <1>3, <2>1
<1>6. ASSUME NEW k \in 1..m PROVE t[k] \in Range(u)
  <2>1. n + k \in 1..(n + m) /\ ~(n + k <= n) /\ (n + k) - n = k
    BY <1>1
  <2> QED
    BY <1>2, <1>3, <2>1
<1>7. Range(u) \subseteq Range(s) \cup Range(t)
  BY <1>3, <1>4
<1>8. Range(s) \subseteq Range(u) /\ Range(t) \subseteq Range(u)
  BY <1>3, <1>5, <1>6
<1>9. Range(u) = Range(s) \cup Range(t)
  BY <1>7, <1>8
<1> QED
  BY <1>2, <1>9 DEF u

(***************************************************************************)
(* Vectors of sockets                                                      *)
(***************************************************************************)
\* A vector with room for every socket, which has no socket twice.
Distinct(u) == \A j, k \in 0..(u.n_data - 1) : At(u, j) = At(u, k) => j = k
Spacious(u) == /\ u \in Vectors /\ Good(u)
               /\ u.n_alloc >= FdSetSize
               /\ Sockets(u) \subseteq Sock
               /\ Distinct(u)

LEMMA SocketsAre == ASSUME NEW u \in Vectors
                    PROVE /\ u.n_data \in Nat
                          /\ \A x : x \in Sockets(u) <=> \E j \in 0..(u.n_data - 1) : x = At(u, j)
BY DEF Vectors, Sockets

\* create_select reserves room for all; there is none in it.
LEMMA CreateSpacious == ASSUME Apart
                        PROVE /\ Spacious(Reserve(VectCreate(0, 0), FdSetSize))
                              /\ Sockets(Reserve(VectCreate(0, 0), FdSetSize)) = {}
<1> DEFINE a == NearSize(0)
           u == [data |-> Block(a), n_data |-> 0, n_alloc |-> a]
           d == [j \in DOMAIN u.data |-> IF j \in 0..(0 - 1) THEN 0 ELSE u.data[j]]
           c == [data |-> d, n_data |-> 0, n_alloc |-> a]
           r == Reserve(c, FdSetSize)
<1>1. a \in Nat
  BY NearSizeNat
<1> HIDE DEF a
<1>2. Block(a) \in [Slots(a) -> Cells]
  BY DEF Block, Slots, Cells
<1>3. VectCreate(0, 0) = Store(u, 0, 0, 0)
  BY DEF VectCreate, a
<1>4. 0..(0 - 1) = {}
  OBVIOUS
<1>5. Store(u, 0, 0, 0) = c
  BY <1>4 DEF Store
<1>6. u.data = Block(a) /\ DOMAIN u.data = Slots(a)
  BY <1>2
<1>7. d \in [Slots(a) -> Cells]
  BY <1>2, <1>4, <1>6
<1> HIDE DEF d
<1>8. c \in Vectors /\ c.n_data = 0 /\ c.n_alloc = a /\ c.data = d
  BY <1>1, <1>7, IsBlock, VectorOf
<1> HIDE DEF c, u
<1>9. Good(c)
  BY <1>1, <1>7, <1>8 DEF Good
<1>10. Good(r) /\ r.n_data = 0 /\ r.n_alloc >= FdSetSize
  BY <1>8, <1>9, ReserveGood, SockAssumption
<1> HIDE DEF r
<1>11. r \in Vectors /\ Sockets(r) = {} /\ Distinct(r)
  BY <1>4, <1>10 DEF Good, Sockets, Distinct
<1>12. Spacious(r)
  BY <1>10, <1>11 DEF Spacious
<1> QED
  BY <1>3, <1>5, <1>11, <1>12 DEF r

\* As long as each socket is in it once, there is room for another.
LEMMA RoomForSocket == ASSUME NEW u, Spacious(u), NEW x \in Sock \ Sockets(u)
                       PROVE u.n_data < u.n_alloc
<1> DEFINE n == u.n_data
           all == 0..(FdSetSize - 1)
           f == [j \in 0..(n - 1) |-> At(u, j)]
<1>1. n \in Nat /\ u.n_alloc \in Nat /\ u \in Vectors /\ u.n_alloc >= FdSetSize
  BY DEF Spacious, Vectors
<1>2. IsFiniteSet(all) /\ Cardinality(all) = FdSetSize /\ FdSetSize \in Nat /\ x \in all
  BY SockAssumption, FS_Interval
<1>3. IsFiniteSet(all \ {x}) /\ Cardinality(all \ {x}) = FdSetSize - 1
  <2> HIDE DEF all
  <2> QED
    BY <1>2, FS_RemoveElement
<1>4. f \in [0..(n - 1) -> all \ {x}]
  <2>1. \A j \in 0..(n - 1) : At(u, j) \in Sockets(u)
    BY DEF Sockets
  <2>2. Sockets(u) \subseteq all \ {x}
    BY SockAssumption DEF Spacious
  <2> QED
    BY <2>1, <2>2
<1>5. \A j, k \in 0..(n - 1) : f[j] = f[k] => j = k
  BY DEF Spacious, Distinct
<1>6. IsFiniteSet(0..(n - 1)) /\ Cardinality(0..(n - 1)) = n
  <2> HIDE DEF n, all, f
  <2>1. 0 \in Int /\ n - 1 \in Int
    BY <1>1
  <2>2. /\ IsFiniteSet(0..(n - 1))
        /\ Cardinality(0..(n - 1)) = IF 0 > n - 1 THEN 0 ELSE (n - 1) - 0 + 1
    BY <2>1, FS_Interval
  <2> QED
    BY <1>1, <2>2
<1> HIDE DEF n, all, f
<1>7. f \in Injection(0..(n - 1), all \ {x})
  BY <1>4, <1>5 DEF Injection, IsInjective
<1>8. n <= FdSetSize - 1
  BY <1>3, <1>6, <1>7, FS_Injection
<1> QED
  BY <1>1, <1>2, <1>8 DEF n

LEMMA PushSpacious == ASSUME Apart, NEW u, Spacious(u), NEW x \in Sock \ Sockets(u)
                      PROVE /\ Spacious(VectPushBack(u, x))
                            /\ Sockets(VectPushBack(u, x)) = Sockets(u) \cup {x}
<1> DEFINE n == u.n_data
           w == VectPushBack(u, x)
           g == Store(u, n, n + 1, x)
<1>1. u \in Vectors /\ Good(u) /\ n \in Nat /\ u.n_alloc \in Nat /\ n < u.n_alloc /\ x \in Val
  BY RoomForSocket, SockAssumption DEF Spacious, Vectors
<1>2. /\ Good(w) /\ w.n_data = n + 1
      /\ \A j \in Slots(n + 1) : At(w, j) = IF j < n THEN At(u, j) ELSE x
  BY <1>1, PushGood DEF RoomForOne
<1>3. w.n_alloc = u.n_alloc
  <2>1. InRoom(u, n, n + 1) /\ n + 1 \in Nat
    BY <1>1 DEF Good, Slots, InRoom
  <2>2. w = Count(g, n + 1)
    BY <1>1 DEF VectPushBack, Grown
  <2> HIDE DEF n, w
  <2>3. Stored(g, u, n, n + 1, x)
    BY <1>1, <2>1, StoreGood
  <2> HIDE DEF g
  <2>4. Counted(Count(g, n + 1), g, n + 1)
    BY <2>1, <2>3, CountGood DEF Stored
  <2> QED
    BY <2>2, <2>3, <2>4 DEF Stored, Counted
<1> HIDE DEF w, n
<1>4. w \in Vectors
  BY <1>2 DEF Good
<1>5. \A y : y \in Sockets(u) <=> \E j \in 0..(n - 1) : y = At(u, j)
  BY DEF Sockets, n
<1>6. \A y : y \in Sockets(w) <=> \E j \in 0..n : y = At(w, j)
  <2>1. 0..(w.n_data - 1) = 0..n
    BY <1>1, <1>2
  <2> QED
    BY <2>1 DEF Sockets
<1>7. At(w, n) = x /\ \A j \in 0..(n - 1) : At(w, j) = At(u, j) /\ j \in 0..n
  <2>1. n \in Slots(n + 1) /\ ~(n < n) /\ \A j \in 0..(n - 1) : j \in Slots(n + 1) /\ j < n /\ j \in 0..n
    BY <1>1 DEF Slots
  <2> QED
    BY <1>2, <2>1
<1>8. n \in 0..n /\ \A j \in 0..n : j = n \/ j \in 0..(n - 1)
  BY <1>1
<1>9. Sockets(w) = Sockets(u) \cup {x}
  BY <1>5, <1>6, <1>7, <1>8
<1>10. Distinct(w)
  <2>1. ASSUME NEW j \in 0..n, NEW k \in 0..n, At(w, j) = At(w, k) PROVE j = k
    <3>1. \A h \in 0..(n - 1) : At(w, h) \in Sockets(u) /\ At(w, h) # x
      BY <1>5, <1>7
    <3>2. CASE j \in 0..(n - 1) /\ k \in 0..(n - 1)
      <4>1. At(u, j) = At(u, k)
        BY <1>7, <2>1, <3>2
      <4> QED
        BY <3>2, <4>1 DEF Spacious, Distinct, n
    <3> QED
      BY <1>7, <1>8, <2>1, <3>1, <3>2
  <2>2. 0..(w.n_data - 1) = 0..n
    BY <1>1, <1>2
  <2> QED
    BY <2>1, <2>2 DEF Distinct
<1>11. Sockets(w) \subseteq Sock /\ w.n_alloc >= FdSetSize
  BY <1>3, <1>9 DEF Spacious
<1>12. Spacious(w)
  BY <1>2, <1>4, <1>10, <1>11 DEF Spacious
<1> QED
  BY <1>9, <1>12 DEF w

LEMMA EraseSpacious == ASSUME NEW u, Spacious(u), NEW p \in 0..(u.n_data - 1)
                       PROVE /\ Spacious(VectErase(u, p))
                             /\ Sockets(VectErase(u, p)) = Sockets(u) \ {At(u, p)}
<1> DEFINE n == u.n_data
           w == VectErase(u, p)
           old(j) == IF j < p THEN j ELSE j + 1
<1>1. u \in Vectors /\ Good(u) /\ n \in Nat /\ u.n_alloc \in Nat /\ p \in Nat /\ p < n /\ n - 1 \in Nat
  BY DEF Spacious, Vectors
<1>2. /\ Good(w) /\ w.n_data = n - 1
      /\ \A j \in Slots(n - 1) : At(w, j) = IF j < p THEN At(u, j) ELSE At(u, j + 1)
  <2>1. p \in Nat /\ p < u.n_data
    BY <1>1
  <2> QED
    BY <1>1, <2>1, EraseGood
<1>3. w.n_alloc = u.n_alloc
  BY <1>1 DEF VectErase, Vectors
<1> HIDE DEF w, n
<1>4. w \in Vectors
  BY <1>2 DEF Good
<1>5. ASSUME NEW j \in 0..(n - 2)
      PROVE  At(w, j) = At(u, old(j)) /\ old(j) \in 0..(n - 1) /\ old(j) # p
  <2>1. j \in Slots(n - 1) /\ j \in Int
    BY <1>1 DEF Slots
  <2> QED
    BY <1>1, <1>2, <2>1
<1>6. ASSUME NEW j \in 0..(n - 1), j # p
      PROVE  \E k \in 0..(n - 2) : old(k) = j
  <2>1. CASE j < p
    <3>1. j \in 0..(n - 2)
      BY <1>1, <2>1
    <3> QED
      BY <2>1, <3>1
  <2>2. CASE ~(j < p)
    <3>1. j - 1 \in 0..(n - 2) /\ ~(j - 1 < p) /\ (j - 1) + 1 = j
      BY <1>1, <1>6, <2>2
    <3> QED
      BY <3>1
  <2> QED
    BY <2>1, <2>2
<1>7. ASSUME NEW j \in 0..(n - 2), NEW k \in 0..(n - 2), old(j) = old(k) PROVE j = k
  BY <1>1, <1>7
<1> HIDE DEF old
<1>8. \A y : y \in Sockets(u) <=> \E j \in 0..(n - 1) : y = At(u, j)
  BY DEF Sockets, n
<1>9. 0..(w.n_data - 1) = 0..(n - 2)
  BY <1>1, <1>2
<1>10. \A y : y \in Sockets(w) <=> \E j \in 0..(n - 2) : y = At(w, j)
  BY <1>9 DEF Sockets
<1>11. \A j, k \in 0..(n - 1) : At(u, j) = At(u, k) => j = k
  BY DEF Spacious, Distinct, n
<1>p. p \in 0..(n - 1)
  BY DEF n
<1>12. Sockets(w) = Sockets(u) \ {At(u, p)}
  <2>1. ASSUME NEW y \in Sockets(w) PROVE y \in Sockets(u) \ {At(u, p)}
    <3>1. PICK j \in 0..(n - 2) : y = At(u, old(j))
      BY <1>5, <1>10
    <3> QED
      BY <1>5, <1>8, <1>11, <1>p, <3>1
  <2>2. ASSUME NEW y \in Sockets(u) \ {At(u, p)} PROVE y \in Sockets(w)
    <3>1. PICK j \in 0..(n - 1) : y = At(u, j)
      BY <1>8
    <3>2. j # p
      BY <3>1
    <3>3. PICK k \in 0..(n - 2) : old(k) = j
      BY <1>6, <3>2
    <3> QED
      BY <1>5, <1>10, <3>1, <3>3
  <2> QED
    BY <2>1, <2>2
<1>13. Distinct(w)
  <2>1. ASSUME NEW j \in 0..(n - 2), NEW k \in 0..(n - 2), At(w, j) = At(w, k) PROVE j = k
    <3>1. old(j) = old(k)
      BY <1>5, <1>11, <2>1
    <3> QED
      BY <1>7, <3>1
  <2> QED
    BY <1>9, <2>1 DEF Distinct
<1>14. Sockets(w) \subseteq Sock /\ w.n_alloc >= FdSetSize
  BY <1>3, <1>12 DEF Spacious
<1>15. Spacious(w)
  BY <1>2, <1>4, <1>13, <1>14 DEF Spacious
<1> QED
  BY <1>12, <1>15 DEF w

(***************************************************************************)
(* The scheduler: what its steps keep                                      *)
(***************************************************************************)
\* The marks are no vectors.
Marks == Apart /\ Null \notin Vectors

SchedKinds ==
    /\ impl \in Impls /\ id \in {"none", "ok", "broken"}
    /\ s_nfds \in 0..FdSetSize /\ s_highestfd = 0
    /\ interest \subseteq Sock /\ ready \in Seq(Sock)
    /\ open \subseteq Sock /\ pending \subseteq open
    /\ pc \in {"out", "loop", "dead"}
    /\ events \in Seq(Sock) /\ i \in 0..Len(events)
    /\ watched \subseteq open /\ dropped \subseteq Sock
    /\ called \in Sock \cup {Null}

\* There are events in the loop alone, and the loop is run over epoll alone,
\* since select never finds one.
SchedPlaces ==
    /\ id = "none" => watched = {}
    /\ id = "broken" => impl = "select"
    /\ pc = "loop" => impl = "epoll" /\ id = "ok"
    /\ pc # "loop" => events = << >> /\ i = 0

SelectRight ==
    IF impl = "select" /\ id = "ok"
    THEN Spacious(fds) /\ Sockets(fds) = watched
    ELSE fds = Null

Coming(k) == {events[j] : j \in (k + 1)..Len(events)}

\* Of unread, the sockets that have data, those watched are in the list of
\* epoll, or their events are coming.
Listed(unread, coming) ==
    impl = "epoll" /\ id = "ok" =>
        /\ interest = watched
        /\ Range(ready) \subseteq watched
        /\ watched \cap unread \subseteq Range(ready) \cup coming

SchedInv == /\ SchedKinds
            /\ SchedPlaces
            /\ SelectRight
            /\ Listed(pending, Coming(i))
            /\ CallbackKnown

LEMMA SpaciousIs == ASSUME Marks, NEW u, Spacious(u)
                    PROVE u # Null /\ u # Broken /\ Sockets(u) \subseteq Sock /\ u \in Vectors
BY DEF Marks, Apart, Spacious

LEMMA InitSchedInv == SchedInit => SchedInv
<1> SUFFICES ASSUME SchedInit PROVE SchedInv
  OBVIOUS
<1>1. << >> \in Seq(Sock) /\ Len(<< >>) = 0
  BY EmptySeq
<1>2. SchedKinds
  BY <1>1, SockAssumption DEF SchedInit, SchedKinds
<1>3. SchedPlaces /\ SelectRight /\ Listed(pending, Coming(i))
  BY DEF SchedInit, SchedPlaces, SelectRight, Listed
<1>4. CallbackKnown
  BY <1>1 DEF SchedInit, CallbackKnown
<1> QED
  BY <1>2, <1>3, <1>4 DEF SchedInv

\* What holds besides the invariant's parts follows from them.
LEMMA SchedInvAgrees == ASSUME Marks, SchedInv PROVE Agrees
<1>1. fds # Null => fds # Broken /\ Sockets(fds) \subseteq Sock
  BY SpaciousIs DEF SchedInv, SelectRight
<1>2. Range(ready) \subseteq Sock /\ Range(events) \subseteq Sock
  BY RangeOf DEF SchedInv, SchedKinds
<1>3. SchedTypeOK
  BY <1>1, <1>2 DEF SchedInv, SchedKinds, SchedTypeOK
<1>4. Range(SubSeq(events, i + 1, Len(events))) = Coming(i)
  <2>1. events \in Seq(Sock) /\ i \in 0..Len(events)
    BY DEF SchedInv, SchedKinds
  <2> QED
    BY <2>1, Split DEF Coming
<1>5. id = "ok" /\ impl = "epoll" =>
         /\ interest = watched
         /\ Range(ready) \subseteq watched
         /\ watched \cap pending \subseteq Range(ready) \cup Coming(i)
  BY DEF SchedInv, Listed
<1>6. id = "ok" /\ impl = "select" => Sockets(fds) = watched /\ Distinct(fds)
  BY DEF SchedInv, SelectRight, Spacious
<1> QED
  BY <1>3, <1>4, <1>5, <1>6 DEF Agrees, Distinct

\* A socket that is added: the vector gets it, or interest and, if it is ready
\* or a client, the list.
LEMMA AddKeeps ==
    ASSUME Marks, SchedKinds, SelectRight, NEW n \in Sock, AddSocket(n), UNCHANGED <<impl, id>>,
           NEW C, Listed(pending', C), pending' \subseteq pending
    PROVE  /\ SelectRight' /\ Listed(pending, C)'
           /\ interest' \subseteq Sock /\ ready' \in Seq(Sock) /\ s_nfds' \in 0..FdSetSize
           /\ open' = open \cup {n} /\ watched' = watched \cup {n}
<1>1. n \notin watched /\ open' = open \cup {n} /\ watched' = watched \cup {n}
  BY DEF AddSocket
<1>2. CASE EpollAdd(n)
  <2>1. /\ impl = "epoll" /\ interest' = interest \cup {n} /\ fds' = fds /\ s_nfds' = s_nfds
        /\ ready' = IF n \in Listener \ pending THEN ready ELSE Queued(ready, n)
    BY <1>2 DEF EpollAdd
  <2>2. ready \in Seq(Sock)
    BY DEF SchedKinds
  <2>3. Queued(ready, n) \in Seq(Sock) /\ Range(Queued(ready, n)) = Range(ready) \cup {n}
    BY <2>2, QueuedIs
  <2>4. SelectRight'
    BY <2>1 DEF SelectRight
  <2>5. Listed(pending, C)'
    <3>1. CASE n \in Listener \ pending
      BY <1>1, <2>1, <3>1 DEF Listed
    <3>2. CASE ~(n \in Listener \ pending)
      <4>1. Range(ready') = Range(ready) \cup {n}
        BY <2>1, <2>3, <3>2
      <4> QED
        BY <1>1, <2>1, <4>1 DEF Listed
    <3> QED
      BY <3>1, <3>2
  <2> QED
    BY <1>1, <2>1, <2>2, <2>3, <2>4, <2>5 DEF SchedKinds
<1>3. CASE SelectAdd(n)
  <2>1. /\ impl = "select" /\ UNCHANGED <<interest, ready>>
        /\ fds' = IF fds = Null THEN Null ELSE VectPushBack(fds, n)
        /\ s_nfds' = IF n + 1 > s_nfds THEN n + 1 ELSE s_nfds
    BY <1>3 DEF SelectAdd
  <2>2. s_nfds' \in 0..FdSetSize
    <3>1. n \in 0..(FdSetSize - 1) /\ FdSetSize \in Nat /\ s_nfds \in 0..FdSetSize
      BY SockAssumption DEF SchedKinds
    <3> QED
      BY <2>1, <3>1
  <2>3. CASE id = "ok"
    <3>1. Spacious(fds) /\ Sockets(fds) = watched /\ fds # Null
      BY <2>1, <2>3, SpaciousIs DEF SelectRight
    <3>2. fds' = VectPushBack(fds, n)
      BY <2>1, <3>1
    <3>3. Spacious(fds') /\ Sockets(fds') = watched'
      <4>1. n \in Sock \ Sockets(fds) /\ Apart
        BY <1>1, <3>1 DEF Marks
      <4>2. Spacious(VectPushBack(fds, n)) /\ Sockets(VectPushBack(fds, n)) = Sockets(fds) \cup {n}
        BY <3>1, <4>1, PushSpacious
      <4> QED
        BY <1>1, <3>1, <3>2, <4>2
    <3> QED
      BY <1>1, <2>1, <2>2, <2>3, <3>3 DEF SelectRight, Listed, SchedKinds
  <2>4. CASE id # "ok"
    <3>1. fds' = Null
      BY <2>1, <2>4 DEF SelectRight
    <3> QED
      BY <1>1, <2>1, <2>2, <2>4, <3>1 DEF SelectRight, Listed, SchedKinds
  <2> QED
    BY <2>3, <2>4
<1> QED
  BY <1>2, <1>3 DEF AddSocket

\* One that is dropped leaves the vector, or interest and the list.
LEMMA DropKeeps ==
    ASSUME Marks, SchedKinds, SelectRight, id = "ok", NEW n \in Sock, NEW unread, DropSocket(n, unread),
           UNCHANGED <<impl, id>>, NEW C, Listed(unread, C), unread \subseteq open
    PROVE  /\ SelectRight' /\ Listed(pending, C)'
           /\ interest' \subseteq Sock /\ ready' \in Seq(Sock)
           /\ open' = open \ {n} /\ watched' = watched \ {n} /\ pending' = unread \ {n}
<1>1. n \in watched /\ open' = open \ {n} /\ watched' = watched \ {n} /\ pending' = unread \ {n}
  BY DEF DropSocket
<1>2. CASE EpollDel(n)
  <2>1. /\ impl = "epoll" /\ interest' = interest \ {n} /\ fds' = fds
        /\ ready' = Without(ready, n)
    BY <1>2 DEF EpollDel
  <2>2. ready' \in Seq(Sock) /\ Range(ready') = Range(ready) \ {n}
    <3>1. ready \in Seq(Sock)
      BY DEF SchedKinds
    <3>2. /\ Only(ready, Range(ready) \ {n}) \in Seq(Sock)
          /\ Range(Only(ready, Range(ready) \ {n})) = Range(ready) \cap (Range(ready) \ {n})
      BY <3>1, OnlyIs
    <3> QED
      BY <2>1, <3>2 DEF Without
  <2>3. SelectRight'
    BY <2>1 DEF SelectRight
  <2>4. Listed(pending, C)'
    BY <1>1, <2>1, <2>2 DEF Listed
  <2> QED
    BY <1>1, <2>1, <2>2, <2>3, <2>4 DEF SchedKinds
<1>3. CASE SelectDel(n)
  <2>1. /\ impl = "select" /\ UNCHANGED <<interest, ready>>
        /\ fds' = IF n \in Sockets(fds) THEN VectErase(fds, First(n)) ELSE fds
    BY <1>3 DEF SelectDel
  <2>2. Spacious(fds) /\ Sockets(fds) = watched
    BY <2>1 DEF SelectRight
  <2>3. First(n) \in 0..(fds.n_data - 1) /\ At(fds, First(n)) = n
    <3>1. PICK j \in 0..(fds.n_data - 1) : At(fds, j) = n
      BY <1>1, <2>2 DEF Sockets
    <3>2. \A k \in 0..(j - 1) : At(fds, k) # n
      <4>1. fds.n_data \in Nat
        BY <2>2 DEF Spacious, Vectors
      <4>2. \A k \in 0..(j - 1) : k \in 0..(fds.n_data - 1) /\ k # j
        BY <4>1
      <4> QED
        BY <2>2, <3>1, <4>2 DEF Spacious, Distinct
    <3> QED
      BY <3>1, <3>2 DEF First
  <2>4. fds' = VectErase(fds, First(n))
    BY <1>1, <2>1, <2>2
  <2>5. Spacious(fds') /\ Sockets(fds') = watched'
    <3>1. /\ Spacious(VectErase(fds, First(n)))
          /\ Sockets(VectErase(fds, First(n))) = Sockets(fds) \ {At(fds, First(n))}
      BY <2>2, <2>3, EraseSpacious
    <3> QED
      BY <1>1, <2>2, <2>3, <2>4, <3>1
  <2>6. SelectRight'
    BY <2>1, <2>5 DEF SelectRight
  <2> QED
    BY <1>1, <2>1, <2>6 DEF Listed, SchedKinds
<1> QED
  BY <1>2, <1>3 DEF DropSocket

LEMMA CreateSched == ASSUME Marks, SchedInv, SchedCreate PROVE SchedInv'
<1>1. /\ id = "none" /\ pc = "out" /\ watched = {} /\ events = << >> /\ i = 0
      /\ UNCHANGED <<open, pending, pc, i, events, watched, impl, dropped>>
      /\ called' = Null
  BY DEF SchedCreate, SchedInv, SchedPlaces, Quiet, loop
<1>2. << >> \in Seq(Sock) /\ Range(<< >>) = {} /\ Len(<< >>) = 0
  BY EmptySeq DEF Range
<1>3. SchedKinds'
  <2>1. CASE EpollCreate
    BY <1>1, <1>2, <2>1 DEF SchedInv, SchedKinds, EpollCreate
  <2>2. CASE SelectCreate
    BY <1>1, <2>2, SockAssumption DEF SchedInv, SchedKinds, SelectCreate
  <2> QED
    BY <2>1, <2>2 DEF SchedCreate
<1>4. SchedPlaces'
  BY <1>1 DEF SchedPlaces, SchedCreate, EpollCreate, SelectCreate
<1>5. SelectRight'
  <2>1. CASE EpollCreate
    BY <1>1, <2>1 DEF SchedInv, SelectRight, EpollCreate
  <2>2. CASE SelectCreate
    <3>1. CASE id' = "ok"
      <4>1. fds' = Reserve(VectCreate(0, 0), FdSetSize) /\ impl' = "select"
        BY <1>1, <2>2, <3>1 DEF SelectCreate
      <4>2. Spacious(fds') /\ Sockets(fds') = {}
        BY <4>1, CreateSpacious DEF Marks
      <4> QED
        BY <1>1, <3>1, <4>1, <4>2 DEF SelectRight
    <3>2. CASE id' # "ok"
      BY <2>2, <3>2 DEF SelectCreate, SelectRight
    <3> QED
      BY <3>1, <3>2
  <2> QED
    BY <2>1, <2>2 DEF SchedCreate
<1>6. Listed(pending, Coming(i))'
  <2>1. CASE EpollCreate
    BY <1>1, <1>2, <2>1 DEF Listed, EpollCreate
  <2>2. CASE SelectCreate
    BY <1>1, <2>2 DEF Listed, SelectCreate
  <2> QED
    BY <2>1, <2>2 DEF SchedCreate
<1>7. CallbackKnown'
  BY <1>1, <1>2 DEF CallbackKnown
<1> QED
  BY <1>3, <1>4, <1>5, <1>6, <1>7 DEF SchedInv

LEMMA DestroySched == ASSUME SchedInv, SchedDestroy PROVE SchedInv'
<1>1. /\ pc = "out" /\ events = << >> /\ i = 0
      /\ UNCHANGED <<interest, ready, open, pending, pc, i, events, impl, dropped, s_nfds, s_highestfd>>
      /\ id' = "none" /\ fds' = Null /\ watched' = {} /\ called' = Null
  BY DEF SchedDestroy, SchedInv, SchedPlaces, Quiet, loop, kernel
<1>2. Len(<< >>) = 0
  BY EmptySeq
<1>3. SchedKinds'
  BY <1>1 DEF SchedInv, SchedKinds
<1> QED
  BY <1>1, <1>2, <1>3 DEF SchedInv, SchedPlaces, SelectRight, Listed, CallbackKnown

\* Outside the loop no event is coming.
LEMMA NoneComing == ASSUME SchedInv, pc # "loop"
                    PROVE events = << >> /\ i = 0 /\ Len(events) = 0 /\ Coming(i) = {}
BY EmptySeq DEF SchedInv, SchedPlaces, Coming

LEMMA AddSched == ASSUME Marks, SchedInv, NEW n \in Sock, Add(n) PROVE SchedInv'
<1>1. /\ pc = "out" /\ id # "none" /\ AddSocket(n) /\ called' = Null
      /\ UNCHANGED <<id, s_highestfd, pending, pc, i, events, impl, dropped>>
  BY DEF Add, Quiet, loop
<1>2. events = << >> /\ i = 0 /\ Len(events) = 0 /\ Coming(i) = {}
  BY <1>1, NoneComing
<1>3. /\ SelectRight' /\ Listed(pending, {})'
      /\ interest' \subseteq Sock /\ ready' \in Seq(Sock) /\ s_nfds' \in 0..FdSetSize
      /\ open' = open \cup {n} /\ watched' = watched \cup {n}
  <2>1. SchedKinds /\ SelectRight /\ Listed(pending', {}) /\ pending' \subseteq pending
    BY <1>1, <1>2 DEF SchedInv
  <2> QED
    BY <1>1, <2>1, AddKeeps
<1>4. SchedKinds'
  BY <1>1, <1>3 DEF SchedInv, SchedKinds
<1>5. Listed(pending, Coming(i))'
  BY <1>1, <1>2, <1>3 DEF Listed
<1> QED
  BY <1>1, <1>2, <1>3, <1>4, <1>5 DEF SchedInv, SchedPlaces, CallbackKnown

LEMMA DropSched == ASSUME Marks, SchedInv, NEW n \in Sock, Drop(n) PROVE SchedInv'
<1>1. /\ pc = "out" /\ id = "ok" /\ DropSocket(n, pending) /\ called' = Null
      /\ UNCHANGED <<id, s_nfds, s_highestfd, pc, i, events, impl, dropped>>
  BY DEF Drop, Quiet, loop
<1>2. events = << >> /\ i = 0 /\ Len(events) = 0 /\ Coming(i) = {}
  BY <1>1, NoneComing
<1>3. /\ SelectRight' /\ Listed(pending, {})'
      /\ interest' \subseteq Sock /\ ready' \in Seq(Sock)
      /\ open' = open \ {n} /\ watched' = watched \ {n} /\ pending' = pending \ {n}
  <2>1. SchedKinds /\ SelectRight /\ Listed(pending, {}) /\ pending \subseteq open
    BY <1>2 DEF SchedInv, SchedKinds
  <2> QED
    BY <1>1, <2>1, DropKeeps
<1>4. SchedKinds'
  BY <1>1, <1>3 DEF SchedInv, SchedKinds
<1>5. Listed(pending, Coming(i))'
  BY <1>1, <1>2, <1>3 DEF Listed
<1> QED
  BY <1>1, <1>2, <1>3, <1>4, <1>5 DEF SchedInv, SchedPlaces, CallbackKnown

LEMMA ArriveSched == ASSUME SchedInv, NEW n \in Sock, Arrive(n) PROVE SchedInv'
<1>1. /\ n \in open \ pending /\ pending' = pending \cup {n} /\ called' = Null
      /\ ready' = IF n \in interest THEN Queued(ready, n) ELSE ready
      /\ UNCHANGED <<id, fds, s_nfds, s_highestfd, interest, open, pc, i, events, watched, impl, dropped>>
  BY DEF Arrive, Quiet, loop
<1>2. Queued(ready, n) \in Seq(Sock) /\ Range(Queued(ready, n)) = Range(ready) \cup {n}
  BY QueuedIs DEF SchedInv, SchedKinds
<1>3. SchedKinds'
  BY <1>1, <1>2 DEF SchedInv, SchedKinds
<1>4. SchedPlaces' /\ SelectRight' /\ CallbackKnown' /\ Coming(i)' = Coming(i)
  BY <1>1 DEF SchedInv, SchedPlaces, SelectRight, CallbackKnown, Coming
<1>5. Listed(pending, Coming(i))'
  <2>1. CASE n \in interest
    BY <1>1, <1>2, <1>4, <2>1 DEF SchedInv, Listed
  <2>2. CASE n \notin interest
    BY <1>1, <1>4, <2>2 DEF SchedInv, Listed
  <2> QED
    BY <2>1, <2>2
<1> QED
  BY <1>3, <1>4, <1>5 DEF SchedInv

\* What epoll_wait takes, and what it leaves in its list.
LEMMA LiveIs == ASSUME SchedKinds
                PROVE /\ Live \in Seq(Sock)
                      /\ Range(Live) = Range(ready) \cap ((Sock \ Listener) \cup pending)
                      /\ Taken \in Seq(Sock)
                      /\ SubSeq(Live, Len(Taken) + 1, Len(Live)) \in Seq(Sock)
                      /\ Range(Live) = Range(Taken) \cup Range(SubSeq(Live, Len(Taken) + 1, Len(Live)))
<1>1. Live \in Seq(Sock) /\ Range(Live) = Range(ready) \cap ((Sock \ Listener) \cup pending)
  BY OnlyIs DEF SchedKinds, Live
<1> DEFINE m == IF Len(Live) < PoolSize THEN Len(Live) ELSE PoolSize
<1>2. m \in 0..Len(Live)
  <2>1. Len(Live) \in Nat
    BY <1>1, LenProperties
  <2> QED
    BY <2>1, PoolAssumption
<1>3. Taken = SubSeq(Live, 1, m)
  BY DEF Taken
<1> HIDE DEF m
<1>4. /\ SubSeq(Live, 1, m) \in Seq(Sock) /\ Len(SubSeq(Live, 1, m)) = m
      /\ SubSeq(Live, m + 1, Len(Live)) \in Seq(Sock)
      /\ Range(Live) = Range(SubSeq(Live, 1, m)) \cup Range(SubSeq(Live, m + 1, Len(Live)))
  BY <1>1, <1>2, Split
<1> QED
  BY <1>1, <1>3, <1>4

\* select is told to look at no number: it finds nothing.
LEMMA SelectFindsNone == ASSUME SchedKinds, SelectRight, id = "ok", SelectWait PROVE events' = << >>
<1> DEFINE all == [j \in 1..fds.n_data |-> At(fds, j - 1)]
           low == {s \in pending : s < s_highestfd}
<1>1. Spacious(fds) /\ fds.n_data \in Nat
  BY DEF SelectWait, SelectRight, Spacious, Vectors
<1>2. low = {}
  <2>1. \A s \in pending : s \in Nat
    BY SockAssumption DEF SchedKinds
  <2>2. s_highestfd = 0
    BY DEF SchedKinds
  <2> QED
    BY <2>1, <2>2
<1>3. all \in Seq(Sock)
  <2>1. \A j \in 1..fds.n_data : At(fds, j - 1) \in Sock
    <3>1. \A j \in 1..fds.n_data : j - 1 \in 0..(fds.n_data - 1)
      BY <1>1
    <3> QED
      BY <1>1, <3>1 DEF Spacious, Sockets
  <2>2. all \in [1..fds.n_data -> Sock]
    BY <2>1
  <2> HIDE DEF all
  <2> QED
    BY <1>1, <2>2, SeqDef
<1>4. events' = Only(all, low)
  BY DEF SelectWait
<1> HIDE DEF all, low
<1>5. Only(all, low) \in Seq(Sock) /\ Range(Only(all, low)) = {}
  BY <1>2, <1>3, OnlyIs
<1> DEFINE t == Only(all, low)
<1> HIDE DEF t
<1>6. t \in Seq(Sock) /\ Range(t) = {}
  BY <1>5 DEF t
<1>7. t = << >>
  <2> SUFFICES ASSUME t # << >> PROVE FALSE
    OBVIOUS
  <2>1. Len(t) \in Nat \ {0}
    BY <1>6, EmptySeq
  <2>2. 1 \in 1..Len(t)
    BY <2>1
  <2>3. t[1] \in Range(t)
    <3>1. DOMAIN t = 1..Len(t)
      BY <1>6, LenProperties
    <3> QED
      BY <2>2, <3>1 DEF Range
  <2> QED
    BY <1>6, <2>3
<1> QED
  BY <1>4, <1>7 DEF t

LEMMA PollSched == ASSUME SchedInv, Poll PROVE SchedInv'
<1>1. /\ id = "ok" /\ pc = "out" /\ i' = 0 /\ called' = Null /\ dropped' = {}
      /\ pc' = IF events' = << >> THEN "out" ELSE "loop"
      /\ UNCHANGED <<impl, id, fds, s_nfds, s_highestfd, interest, open, pending, watched>>
  BY DEF Poll, sched
<1>2. events = << >> /\ Coming(i) = {}
  BY <1>1, NoneComing
<1>3. CASE EpollWait
  <2> DEFINE rest == SubSeq(Live, Len(Taken) + 1, Len(Live))
             again == Only(Taken, Listener)
  <2>1. impl = "epoll" /\ events' = Taken /\ ready' = rest \o again
    BY <1>3 DEF EpollWait
  <2>2. /\ Range(Live) = Range(ready) \cap ((Sock \ Listener) \cup pending)
        /\ Taken \in Seq(Sock) /\ rest \in Seq(Sock)
        /\ Range(Live) = Range(Taken) \cup Range(rest)
    BY LiveIs DEF SchedInv
  <2>3. again \in Seq(Sock) /\ Range(again) = Range(Taken) \cap Listener
    BY <2>2, OnlyIs
  <2> HIDE DEF rest, again
  <2>4. ready' \in Seq(Sock) /\ Range(ready') = Range(rest) \cup (Range(Taken) \cap Listener)
    BY <2>1, <2>2, <2>3, ConcatRange
  <2>5. events' \in Seq(Sock) /\ Range(events') = Range(Taken) /\ 0 \in 0..Len(events')
    BY <2>1, <2>2, LenProperties
  <2>6. Coming(i)' = Range(events')
    <3>1. Range(events') = {events'[j] : j \in 1..Len(events')}
      BY <2>5, RangeOf
    <3>2. 0 + 1 = 1
      OBVIOUS
    <3> QED
      BY <1>1, <3>1, <3>2 DEF Coming
  <2>7. interest = watched /\ Range(ready) \subseteq watched /\ watched \cap pending \subseteq Range(ready)
    BY <1>1, <1>2, <2>1 DEF SchedInv, Listed
  <2>8. SchedKinds'
    BY <1>1, <2>4, <2>5 DEF SchedInv, SchedKinds
  <2>9. SchedPlaces'
    BY <1>1, <2>1 DEF SchedInv, SchedPlaces
  <2>10. SelectRight'
    BY <1>1 DEF SchedInv, SelectRight
  <2>11. Listed(pending, Coming(i))'
    <3>1. Range(ready') \subseteq watched
      BY <2>2, <2>4, <2>7
    <3>2. watched \cap pending \subseteq Range(ready') \cup Coming(i)'
      <4>1. watched \subseteq Sock
        BY DEF SchedInv, SchedKinds
      <4> QED
        BY <2>2, <2>4, <2>5, <2>6, <2>7, <4>1
    <3> QED
      BY <1>1, <2>7, <3>1, <3>2 DEF Listed
  <2>12. CallbackKnown'
    <3>1. \A j \in 1..Len(events') : events'[j] \in watched
      BY <2>2, <2>5, <2>7, RangeOf
    <3>2. 0 + 1 = 1
      OBVIOUS
    <3> QED
      BY <1>1, <3>1, <3>2 DEF CallbackKnown
  <2> QED
    BY <2>8, <2>9, <2>10, <2>11, <2>12 DEF SchedInv
<1>4. CASE SelectWait
  <2>1. impl = "select" /\ ready' = ready
    BY <1>4 DEF SelectWait
  <2>2. events' = << >>
    BY <1>1, <1>4, SelectFindsNone DEF SchedInv
  <2>3. << >> \in Seq(Sock) /\ Len(<< >>) = 0
    BY EmptySeq
  <2>4. SchedKinds'
    BY <1>1, <2>1, <2>2, <2>3 DEF SchedInv, SchedKinds
  <2> QED
    BY <1>1, <2>1, <2>2, <2>3, <2>4 DEF SchedInv, SchedPlaces, SelectRight, Listed, CallbackKnown
<1> QED
  BY <1>3, <1>4 DEF Poll

\* What a callback makes of the sockets, when the events from k on are coming.
Keeps(k, coming) ==
    /\ \A j \in k..Len(events) : events[j] \in watched' \cup dropped'
    /\ dropped' \subseteq Sock
    /\ SelectRight' /\ Listed(pending, coming)'
    /\ interest' \subseteq Sock /\ ready' \in Seq(Sock) /\ s_nfds' \in 0..FdSetSize
    /\ open' \subseteq Sock /\ pending' \subseteq open' /\ watched' \subseteq open'

\* The callback of an event that is not known to be coming any more.
LEMMA StepSched == ASSUME Marks, SchedInv, Step PROVE SchedInv'
<1>0. PICK x, C, unread : x = events[i + 1] /\ C = Coming(i + 1) /\ unread = pending \ {x}
  OBVIOUS
<1>1. /\ pc = "loop" /\ i < Len(events) /\ called' = x /\ Callback(x) /\ i' = i + 1
      /\ UNCHANGED <<impl, id, s_highestfd, pc, events>>
  BY <1>0 DEF Step
<1>2. /\ events \in Seq(Sock) /\ Len(events) \in Nat /\ i \in Nat
      /\ i + 1 \in 1..Len(events) /\ i + 1 \in 0..Len(events) /\ x \in Sock
  <2>1. events \in Seq(Sock) /\ i \in 0..Len(events)
    BY DEF SchedInv, SchedKinds
  <2>2. Len(events) \in Nat
    BY <2>1, LenProperties
  <2>3. i \in Nat /\ i + 1 \in 1..Len(events) /\ i + 1 \in 0..Len(events)
    BY <1>1, <2>1, <2>2
  <2>4. x \in Sock
    BY <1>0, <2>1, <2>3, ElementOfSeq
  <2> QED
    BY <2>1, <2>2, <2>3, <2>4
<1>3. impl = "epoll" /\ id = "ok"
  BY <1>1 DEF SchedInv, SchedPlaces
<1>4. Coming(i) = C \cup {x} /\ Coming(i)' = C
  <2>1. (i + 1)..Len(events) = ((i + 1) + 1)..Len(events) \cup {i + 1}
    BY <1>2
  <2>2. Coming(i) = C \cup {x}
    BY <1>0, <2>1 DEF Coming
  <2>3. Coming(i)' = C
    BY <1>0, <1>1 DEF Coming
  <2> QED
    BY <2>2, <2>3
<1>5. \A j \in ((i + 1) + 1)..Len(events) : events[j] \in watched \cup dropped
  <2>1. \A j \in ((i + 1) + 1)..Len(events) : j \in (i + 1)..Len(events)
    BY <1>2
  <2> QED
    BY <2>1 DEF SchedInv, CallbackKnown
<1>6. Listed(unread, C) /\ unread \subseteq open /\ unread \subseteq pending
  BY <1>0, <1>4 DEF SchedInv, SchedKinds, Listed
<1>7. SchedKinds /\ SelectRight
  BY DEF SchedInv
<1>8. Keeps((i + 1) + 1, C)
  <2>1. CASE /\ pending' = unread
             /\ UNCHANGED <<fds, s_nfds, interest, ready, open, watched, dropped>>
    <3>1. SelectRight' /\ Listed(pending, C)'
      BY <1>1, <1>6, <1>7, <2>1 DEF SelectRight, Listed
    <3> QED
      BY <1>5, <1>6, <1>7, <2>1, <3>1 DEF Keeps, SchedKinds
  <2>2. ASSUME NEW o \in Sock, DropSocket(o, unread), dropped' = dropped \cup {o}, UNCHANGED s_nfds
        PROVE  Keeps((i + 1) + 1, C)
    <3>1. /\ SelectRight' /\ Listed(pending, C)'
          /\ interest' \subseteq Sock /\ ready' \in Seq(Sock)
          /\ open' = open \ {o} /\ watched' = watched \ {o} /\ pending' = unread \ {o}
      BY <1>1, <1>3, <1>6, <1>7, <2>2, DropKeeps
    <3> QED
      BY <1>5, <1>6, <1>7, <2>2, <3>1 DEF Keeps, SchedKinds
  <2>3. ASSUME NEW o \in Sock, AddSocket(o), pending' = unread, UNCHANGED dropped
        PROVE  Keeps((i + 1) + 1, C)
    <3>1. /\ SelectRight' /\ Listed(pending, C)'
          /\ interest' \subseteq Sock /\ ready' \in Seq(Sock) /\ s_nfds' \in 0..FdSetSize
          /\ open' = open \cup {o} /\ watched' = watched \cup {o}
      BY <1>1, <1>6, <1>7, <2>3, AddKeeps
    <3> QED
      BY <1>5, <1>6, <1>7, <2>3, <3>1 DEF Keeps, SchedKinds
  <2> QED
    BY <1>0, <1>1, <1>2, <2>1, <2>2, <2>3 DEF Callback
<1>9. SchedKinds'
  BY <1>1, <1>2, <1>7, <1>8 DEF Keeps, SchedKinds
<1>10. SchedPlaces'
  BY <1>1, <1>3 DEF SchedPlaces
<1>11. Listed(pending, Coming(i))'
  BY <1>4, <1>8 DEF Keeps, Listed
<1>12. CallbackKnown'
  BY <1>1, <1>8 DEF Keeps, CallbackKnown
<1> QED
  BY <1>8, <1>9, <1>10, <1>11, <1>12 DEF Keeps, SchedInv

LEMMA ReturnSched == ASSUME SchedInv, Return PROVE SchedInv'
<1>1. /\ i = Len(events) /\ pc' = "out" /\ i' = 0 /\ events' = << >> /\ called' = Null /\ dropped' = {}
      /\ UNCHANGED <<impl, id, fds, s_nfds, s_highestfd, interest, ready, open, pending, watched>>
  BY DEF Return, sched, kernel
<1>2. << >> \in Seq(Sock) /\ Len(<< >>) = 0
  BY EmptySeq
<1>3. Coming(i) = {}
  <2>1. Len(events) \in Nat
    BY LenProperties DEF SchedInv, SchedKinds
  <2> QED
    BY <1>1, <2>1 DEF Coming
<1>4. SchedKinds'
  BY <1>1, <1>2 DEF SchedInv, SchedKinds
<1>5. Listed(pending, Coming(i))'
  BY <1>1, <1>3 DEF SchedInv, Listed
<1> QED
  BY <1>1, <1>2, <1>4, <1>5 DEF SchedInv, SchedPlaces, SelectRight, CallbackKnown

LEMMA DieSched == ASSUME SchedInv, Die PROVE SchedInv'
<1>1. /\ id = "broken" /\ pc = "out" /\ pc' = "dead" /\ called' = Null
      /\ UNCHANGED <<impl, id, fds, s_nfds, s_highestfd, interest, ready, open, pending, i, events, watched, dropped>>
  BY DEF Die, Quiet, kernel
<1>2. SchedKinds'
  BY <1>1 DEF SchedInv, SchedKinds
<1> QED
  BY <1>1, <1>2 DEF SchedInv, SchedPlaces, SelectRight, Listed, CallbackKnown, Coming

LEMMA NextSchedInv == ASSUME Marks, SchedInv, [SchedNext]_schedVars PROVE SchedInv'
<1>1. CASE UNCHANGED schedVars
  BY <1>1 DEF schedVars, sched, kernel, loop, SchedInv, SchedKinds, SchedPlaces, SelectRight, Listed,
              CallbackKnown, Coming
<1>2. CASE SchedNext
  BY <1>2, CreateSched, DestroySched, AddSched, DropSched, ArriveSched, PollSched, StepSched,
     ReturnSched, DieSched DEF SchedNext
<1> QED
  BY <1>1, <1>2

LEMMA SchedInvariant == ASSUME Marks PROVE SchedSpec => []SchedInv
<1>1. SchedInit => SchedInv
  BY InitSchedInv
<1>2. SchedInv /\ [SchedNext]_schedVars => SchedInv'
  BY NextSchedInv
<1> QED
  BY <1>1, <1>2, PTL DEF SchedSpec

\* Over epoll and over select, for any number of sockets and any pool, what the
\* scheduler has is what was added and not dropped, also by callbacks, each once:
\* del_socket erases the one that it was given, and add_client_socket never
\* outgrows what create reserved.  And epoll loses no socket that has data.
THEOREM SchedulerAgrees == ASSUME Marks PROVE SchedSpec => []Agrees
<1>1. SchedInv => Agrees
  BY SchedInvAgrees
<1> QED
  BY <1>1, SchedInvariant, PTL

\* The loop calls back for a socket that is watched, or for one that a callback
\* of the same round dropped: nothing else is left among the events.
THEOREM CallbacksAreKnown == ASSUME Marks PROVE SchedSpec => []CallbackKnown
<1>1. SchedInv => CallbackKnown
  BY DEF SchedInv
<1> QED
  BY <1>1, SchedInvariant, PTL
=============================================================================
