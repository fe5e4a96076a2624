---------------------------- MODULE BArray_proofs ---------------------------
(***************************************************************************)
(* Proofs about BArray, for every number of records to a page, of pages,   *)
(* of cache entries and every width of the bit fields.                     *)
(***************************************************************************)
EXTENDS BArray, SequenceTheorems, FiniteSetTheorems,
        WellFoundedInduction, TLAPS

(***************************************************************************)
(* What the theorems ask of the widths: the records of a page can be       *)
(* counted in its bit field, which is no wider than that of an index, and  *)
(* the pages in an unsigned int.  They ask nothing of the client.          *)
(***************************************************************************)
Fits == /\ RecsPerPage < CountMod
        /\ CountMod <= IdxMod
        /\ MaxPages < Invalid

Record == [present : BOOLEAN, idx : 0..(IdxMod - 1)]
PageType == [n_data : 0..RecsPerPage, start : 0..Invalid, end : 0..Invalid,
             mapped : BOOLEAN]

\* f is a file of n pages.
Typed(f, n) == n \in 0..MaxPages /\ f \in [0..(n - 1) -> [Slots -> Record]]

\* The records of f ascend, page after page and slot after slot.
InOrder(f) ==
    \A k, l \in DOMAIN f, i, j \in Slots :
       /\ f[k][i].present /\ f[l][j].present
       /\ k < l \/ (k = l /\ i < j)
       => f[k][i].idx < f[l][j].idx

\* What the page p says of the slots s: they are used from the first on, and
\* ascend, the deleted ones too.
Describes(p, s) ==
    /\ p.n_data = 0 => p.start = Invalid /\ p.end = Invalid
    /\ p.n_data > 0 => p.start = s[0].idx /\ p.end = s[p.n_data - 1].idx
    /\ \A j \in Slots : s[j].present => j < p.n_data
    /\ \A i, j \in Slots : i < j /\ j < p.n_data => s[i].idx < s[j].idx

Precedes(p, q) == q.n_data > 0 => p.end < q.start

\* The pages p describe the file f of n pages; only the last may be empty.
Laid(f, p, n) ==
    /\ Typed(f, n)
    /\ p \in [0..(n - 1) -> PageType]
    /\ \A k \in 0..(n - 1) : Describes(p[k], f[k])
    /\ \A k \in 0..(n - 1) : p[k].n_data = 0 => k = n - 1
    /\ \A k, l \in 0..(n - 1) : k < l => Precedes(p[k], p[l])

-----------------------------------------------------------------------------
(***************************************************************************)
(* Numbers, pages and files.                                               *)
(***************************************************************************)
LEMMA Numbers ==
  ASSUME Fits
  PROVE  /\ IdxMod \in Nat /\ IdxMod > 0
         /\ Invalid \in Nat /\ IdxMod <= Invalid
         /\ CountMod \in Nat /\ RecsPerPage \in Nat /\ RecsPerPage > 0
         /\ RecsPerPage < CountMod /\ CountMod <= IdxMod
         /\ MaxCache \in Nat /\ MaxCache > 0
         /\ MaxPages \in Nat /\ MaxPages < Invalid
BY IdxAssumption, SizeAssumption DEF Fits, Invalid

LEMMA Small == ASSUME NEW m \in Nat, NEW a \in 0..(m - 1) PROVE a % m = a
OBVIOUS

LEMMA Chain ==
  ASSUME NEW a \in Nat, NEW b \in Nat, NEW c \in Nat, NEW d \in Nat,
         a <= b, b < c, c <= d
  PROVE  a < d
OBVIOUS

LEMMA SlotsAre == Fits => Slots = 0..(RecsPerPage - 1) /\ 0 \in Slots
BY Numbers DEF Slots

\* Pages are counted by their numbers.
LEMMA Counts == ASSUME NEW n \in Nat PROVE Cardinality(0..(n - 1)) = n
BY FS_Interval

\* A page that has records has bounds below UINT_MAX, the lower one first.
LEMMA Bounds ==
  ASSUME Fits, NEW p \in PageType, NEW s \in [Slots -> Record], Describes(p, s)
  PROVE  /\ p.n_data \in Nat /\ p.n_data <= RecsPerPage
         /\ p.start \in Nat /\ p.end \in Nat
         /\ p.n_data > 0 => p.start <= p.end /\ p.end < IdxMod
         /\ p.n_data = 0 <=> p.end = Invalid
<1> USE Numbers, SlotsAre
<1>1. p.n_data \in 0..RecsPerPage /\ p.start \in 0..Invalid /\ p.end \in 0..Invalid
  BY DEF PageType
<1>2. ASSUME p.n_data > 0 PROVE p.start <= p.end /\ p.end < IdxMod
  <2>1. p.n_data - 1 \in Slots
    BY <1>1, <1>2
  <2>2. s[0].idx \in 0..(IdxMod - 1) /\ s[p.n_data - 1].idx \in 0..(IdxMod - 1)
    BY <2>1 DEF Record
  <2>3. p.start = s[0].idx /\ p.end = s[p.n_data - 1].idx
    BY <1>2 DEF Describes
  <2>4. CASE p.n_data - 1 = 0
    BY <2>2, <2>3, <2>4
  <2>5. CASE p.n_data - 1 # 0
    <3>1. 0 < p.n_data - 1
      BY <2>1, <2>5, <1>1
    <3>2. s[0].idx < s[p.n_data - 1].idx
      BY SMTT(30), <3>1, <2>1, <1>1 DEF Describes
    <3> QED
      BY <3>2, <2>2, <2>3
  <2> QED
    BY <2>4, <2>5
<1>3. p.n_data = 0 => p.end = Invalid
  BY DEF Describes
<1>4. p.n_data # 0 => p.end # Invalid
  BY <1>1, <1>2
<1>5. p.n_data \in Nat /\ p.n_data <= RecsPerPage /\ p.start \in Nat /\ p.end \in Nat
  BY <1>1
<1> QED
  BY <1>2, <1>3, <1>4, <1>5

LEMMA RecordOf ==
  ASSUME Fits, NEW s \in [Slots -> Record], NEW j \in Slots
  PROVE  s[j].idx \in Nat /\ s[j].idx < IdxMod /\ s[j].present \in BOOLEAN
BY Numbers DEF Record

\* The index of a record lies within the bounds of its page.
LEMMA Within ==
  ASSUME Fits, NEW p \in PageType, NEW s \in [Slots -> Record], Describes(p, s),
         NEW j \in Slots, j < p.n_data
  PROVE  p.start <= s[j].idx /\ s[j].idx <= p.end
<1> USE Numbers, SlotsAre
<1>1. p.n_data \in 0..RecsPerPage
  BY DEF PageType
<1>2. p.n_data - 1 \in Slots /\ j \in Nat /\ p.n_data > 0
  BY <1>1
<1>3. \A i \in Slots : s[i].idx \in 0..(IdxMod - 1)
  BY DEF Record
<1>4. p.start = s[0].idx /\ p.end = s[p.n_data - 1].idx
  BY <1>2 DEF Describes
<1>5. j = 0 \/ s[0].idx < s[j].idx
  BY <1>2 DEF Describes
<1>6. j = p.n_data - 1 \/ s[j].idx < s[p.n_data - 1].idx
  BY <1>2, <1>1 DEF Describes
<1>7. s[0].idx \in Int /\ s[j].idx \in Int /\ s[p.n_data - 1].idx \in Int
  BY <1>2, <1>3
<1> QED
  BY <1>4, <1>5, <1>6, <1>7

\* A page and its slots in a file that is laid out right.
LEMMA PageOf ==
  ASSUME Fits, NEW f, NEW p, NEW n, Laid(f, p, n), NEW k \in 0..(n - 1)
  PROVE  p[k] \in PageType /\ f[k] \in [Slots -> Record] /\ Describes(p[k], f[k])
BY DEF Laid, Typed

LEMMA LaidInOrder ==
  ASSUME Fits, NEW f, NEW p, NEW n, Laid(f, p, n)
  PROVE  InOrder(f)
<1> USE Numbers, SlotsAre
<1>0. n \in Nat /\ DOMAIN f = 0..(n - 1)
  BY DEF Laid, Typed
<1>1. ASSUME NEW k \in 0..(n - 1), NEW l \in 0..(n - 1), NEW i \in Slots, NEW j \in Slots,
             f[k][i].present, f[l][j].present, k < l \/ (k = l /\ i < j)
      PROVE  f[k][i].idx < f[l][j].idx
  <2>1. /\ p[k] \in PageType /\ f[k] \in [Slots -> Record] /\ Describes(p[k], f[k])
        /\ p[l] \in PageType /\ f[l] \in [Slots -> Record] /\ Describes(p[l], f[l])
    BY PageOf
  <2>2. i < p[k].n_data /\ j < p[l].n_data
    BY <1>1, <2>1 DEF Describes
  <2>3. CASE k < l
    <3>1. f[k][i].idx <= p[k].end /\ p[l].start <= f[l][j].idx
      BY <2>1, <2>2, Within
    <3>2. p[k].end < p[l].start
      <4>1. p[l].n_data > 0
        BY <2>1, <2>2, Bounds
      <4> QED
        BY <4>1, <2>3 DEF Laid, Precedes
    <3>3. /\ f[k][i].idx \in Nat /\ f[l][j].idx \in Nat
          /\ p[k].end \in Nat /\ p[l].start \in Nat
      BY <2>1, RecordOf, Bounds
    <3> QED
      BY <3>1, <3>2, <3>3, Chain
  <2>4. CASE k = l /\ i < j
    <3>1. j < p[k].n_data /\ i < j /\ l = k
      BY <2>2, <2>4
    <3>2. f[k][i].idx < f[k][j].idx
      BY <3>1, <2>1 DEF Describes
    <3> QED
      BY <3>1, <3>2
  <2> QED
    BY <1>1, <2>3, <2>4
<1> QED
  BY <1>0, <1>1 DEF InOrder

\* Mapping and unmapping leave what the pages say of the file.
LEMMA LaidMapped ==
  ASSUME Fits, NEW f, NEW p, NEW n, Laid(f, p, n), NEW q \in [0..(n - 1) -> PageType],
         \A k \in 0..(n - 1) : /\ q[k].n_data = p[k].n_data
                               /\ q[k].start = p[k].start /\ q[k].end = p[k].end
  PROVE  Laid(f, q, n)
BY DEF Laid, Describes, Precedes

\* f2 is f with the record r in slot j0 of page k0.
Put(f, f2, n, k0, j0, r) ==
    /\ Typed(f2, n)
    /\ \A k \in 0..(n - 1) : k # k0 => f2[k] = f[k]
    /\ \A j \in Slots : j # j0 => f2[k0][j] = f[k0][j]
    /\ f2[k0][j0] = r

LEMMA PutRecord ==
  ASSUME Fits, NEW f, NEW n, Typed(f, n), NEW k0 \in 0..(n - 1), NEW j0 \in Slots,
         NEW r \in Record
  PROVE  Put(f, [f EXCEPT ![k0] = [@ EXCEPT ![j0] = r]], n, k0, j0, r)
<1> DEFINE s == [f[k0] EXCEPT ![j0] = r]
           f2 == [f EXCEPT ![k0] = s]
<1>1. f \in [0..(n - 1) -> [Slots -> Record]] /\ f[k0] \in [Slots -> Record]
  BY DEF Typed
<1>2. s \in [Slots -> Record] /\ s[j0] = r /\ \A j \in Slots : j # j0 => s[j] = f[k0][j]
  BY <1>1
<1> HIDE DEF s
<1>3. /\ f2 \in [0..(n - 1) -> [Slots -> Record]]
      /\ f2[k0] = s /\ \A k \in 0..(n - 1) : k # k0 => f2[k] = f[k]
  BY <1>1, <1>2
<1> HIDE DEF f2
<1>4. Put(f, f2, n, k0, j0, r)
  BY <1>2, <1>3 DEF Put, Typed
<1> QED
  BY <1>4 DEF f2, s

\* The three stores into a slot of the file.
LEMMA PutIdx ==
  ASSUME Fits, NEW f, NEW n, Typed(f, n), NEW k0 \in 0..(n - 1), NEW j0 \in Slots,
         NEW a \in 0..(IdxMod - 1)
  PROVE  Put(f, [f EXCEPT ![k0][j0].idx = a], n, k0, j0,
             [present |-> f[k0][j0].present, idx |-> a])
<1> DEFINE r == [f[k0][j0] EXCEPT !.idx = a]
<1>1. f[k0][j0] \in Record
  BY DEF Typed
<1>2. r \in Record /\ r = [present |-> f[k0][j0].present, idx |-> a]
  BY <1>1 DEF Record
<1>3. Put(f, [f EXCEPT ![k0] = [@ EXCEPT ![j0] = r]], n, k0, j0, r)
  BY <1>2, PutRecord
<1>4. [f EXCEPT ![k0] = [@ EXCEPT ![j0] = r]] = [f EXCEPT ![k0][j0].idx = a]
  OBVIOUS
<1> QED
  BY <1>2, <1>3, <1>4

LEMMA PutPresent ==
  ASSUME Fits, NEW f, NEW n, Typed(f, n), NEW k0 \in 0..(n - 1), NEW j0 \in Slots,
         NEW b \in BOOLEAN
  PROVE  Put(f, [f EXCEPT ![k0][j0].present = b], n, k0, j0,
             [present |-> b, idx |-> f[k0][j0].idx])
<1> DEFINE r == [f[k0][j0] EXCEPT !.present = b]
<1>1. f[k0][j0] \in Record
  BY DEF Typed
<1>2. r \in Record /\ r = [present |-> b, idx |-> f[k0][j0].idx]
  BY <1>1 DEF Record
<1>3. Put(f, [f EXCEPT ![k0] = [@ EXCEPT ![j0] = r]], n, k0, j0, r)
  BY <1>2, PutRecord
<1>4. [f EXCEPT ![k0] = [@ EXCEPT ![j0] = r]] = [f EXCEPT ![k0][j0].present = b]
  OBVIOUS
<1> QED
  BY <1>2, <1>3, <1>4

LEMMA Grown ==
  ASSUME NEW n \in Nat, NEW S, NEW g \in [0..(n - 1) -> S], NEW x \in S,
         NEW m, m = n + 1, NEW h, h = [k \in 0..n |-> IF k = n THEN x ELSE g[k]]
  PROVE  /\ h \in [0..(m - 1) -> S]
         /\ h[n] = x
         /\ \A k \in 0..(n - 1) : h[k] = g[k]
<1>1. 0..(m - 1) = 0..n /\ \A k \in 0..n : k = n \/ k \in 0..(n - 1)
  OBVIOUS
<1>2. \A k \in 0..n : h[k] \in S
  BY <1>1
<1> QED
  BY <1>1, <1>2

\* A new page is empty, and the pages before it are not.
LEMMA LaidGrown ==
  ASSUME Fits, NEW f, NEW p, NEW n, Laid(f, p, n), n < MaxPages,
         n > 0 => p[n - 1].n_data > 0, NEW m, m = n + 1,
         NEW f2, f2 = [k \in 0..n |-> IF k = n THEN BlankPage ELSE f[k]],
         NEW p2, p2 = [k \in 0..n |-> IF k = n THEN EmptyPage ELSE p[k]]
  PROVE  /\ Laid(f2, p2, m)
         /\ f2[n] = BlankPage /\ \A k \in 0..(n - 1) : f2[k] = f[k]
         /\ p2[n] = EmptyPage /\ \A k \in 0..(n - 1) : p2[k] = p[k]
<1> USE Numbers
<1>0. n \in Nat /\ f \in [0..(n - 1) -> [Slots -> Record]] /\ p \in [0..(n - 1) -> PageType]
  BY DEF Laid, Typed
<1>1. BlankPage \in [Slots -> Record] /\ \A j \in Slots : ~BlankPage[j].present
  BY DEF BlankPage, Record
<1>2. EmptyPage \in PageType /\ EmptyPage.n_data = 0
      /\ EmptyPage.start = Invalid /\ EmptyPage.end = Invalid
  BY DEF EmptyPage, PageType
<1>4. /\ f2 \in [0..(m - 1) -> [Slots -> Record]]
      /\ f2[n] = BlankPage /\ \A k \in 0..(n - 1) : f2[k] = f[k]
  BY <1>0, <1>1, Grown
<1>5. /\ p2 \in [0..(m - 1) -> PageType]
      /\ p2[n] = EmptyPage /\ \A k \in 0..(n - 1) : p2[k] = p[k]
  BY <1>0, <1>2, Grown
<1>6. Typed(f2, m)
  BY <1>0, <1>4 DEF Typed
<1>7. ASSUME NEW k \in 0..(m - 1)
      PROVE  Describes(p2[k], f2[k]) /\ (p2[k].n_data = 0 => k = m - 1)
  <2>1. CASE k = n
    <3>1. Describes(EmptyPage, BlankPage)
      BY <1>1, <1>2, SlotsAre DEF Describes
    <3> QED
      BY <3>1, <2>1, <1>4, <1>5, <1>0
  <2>2. CASE k # n
    <3>1. k \in 0..(n - 1)
      BY <1>0, <2>2
    <3>2. Describes(p[k], f[k]) /\ p2[k] = p[k] /\ f2[k] = f[k]
      BY <3>1, <1>4, <1>5 DEF Laid
    <3>3. p[k].n_data # 0
      <4>1. p[k].n_data = 0 => k = n - 1
        BY <3>1 DEF Laid
      <4>2. n > 0
        BY <3>1, <1>0
      <4> QED
        BY <4>1, <4>2
    <3> QED
      BY <3>2, <3>3
  <2> QED
    BY <2>1, <2>2
<1>8. ASSUME NEW k \in 0..(m - 1), NEW l \in 0..(m - 1), k < l
      PROVE  Precedes(p2[k], p2[l])
  <2>1. CASE l = n
    BY <2>1, <1>5, <1>2 DEF Precedes
  <2>2. CASE l # n
    <3>1. k \in 0..(n - 1) /\ l \in 0..(n - 1)
      BY <1>0, <2>2, <1>8
    <3> QED
      BY <3>1, <1>8, <1>5 DEF Laid
  <2> QED
    BY <2>1, <2>2
<1>9. Laid(f2, p2, m)
  BY <1>5, <1>6, <1>7, <1>8 DEF Laid
<1> QED
  BY <1>4, <1>5, <1>9

\* What happens to one slot of page k0, when the page still describes its slots.
LEMMA LaidPut ==
  ASSUME Fits, NEW f, NEW p, NEW n, Laid(f, p, n), NEW k0 \in 0..(n - 1),
         NEW j0 \in Slots, NEW r \in Record, NEW f2, Put(f, f2, n, k0, j0, r),
         Describes(p[k0], f2[k0])
  PROVE  Laid(f2, p, n)
<1>1. Typed(f2, n)
  BY DEF Put
<1>2. \A k \in 0..(n - 1) : Describes(p[k], f2[k])
  BY DEF Laid, Put
<1> QED
  BY <1>1, <1>2 DEF Laid

\* f2 holds the records f holds.
SameRecords(f, f2) ==
    /\ DOMAIN f2 = DOMAIN f
    /\ \A k \in DOMAIN f, j \in Slots :
          /\ f2[k][j].present = f[k][j].present
          /\ f[k][j].present => f2[k][j].idx = f[k][j].idx

\* The index goes into the slot after the last used one, which says nothing yet.
IdxWritten(f, p, n, f2, a) ==
    /\ Laid(f2, p, n)
    /\ f2[n - 1][p[n - 1].n_data].idx = a
    /\ SameRecords(f, f2)

LEMMA PutIdxLaid ==
  ASSUME Fits, NEW f, NEW p, NEW n, Laid(f, p, n), n > 0,
         p[n - 1].n_data < RecsPerPage, NEW a \in 0..(IdxMod - 1), NEW f2,
         Put(f, f2, n, n - 1, p[n - 1].n_data,
             [present |-> f[n - 1][p[n - 1].n_data].present, idx |-> a])
  PROVE  IdxWritten(f, p, n, f2, a)
<1> USE Numbers, SlotsAre
<1> DEFINE k0 == n - 1
           j0 == p[k0].n_data
           r == [present |-> f[k0][j0].present, idx |-> a]
<1>0. n \in Nat /\ Typed(f, n) /\ k0 \in 0..(n - 1)
  BY DEF Laid, Typed
<1>1. p[k0] \in PageType /\ f[k0] \in [Slots -> Record] /\ Describes(p[k0], f[k0])
  BY <1>0, PageOf
<1>2. j0 \in Nat /\ j0 \in Slots
  BY <1>1, Bounds
<1>3. f[k0][j0].present \in BOOLEAN /\ f[k0][j0].present = FALSE
  <2>1. f[k0][j0].present \in BOOLEAN
    BY <1>1, <1>2, RecordOf
  <2>2. ~f[k0][j0].present
    BY SMTT(30), <1>1, <1>2 DEF Describes
  <2> QED
    BY <2>1, <2>2
<1>4. r \in Record
  BY <1>3 DEF Record
<1>5. Put(f, f2, n, k0, j0, r)
  OBVIOUS
<1>6. f2[k0][j0].idx = a /\ f2[k0][j0].present = FALSE
  BY <1>5, <1>3 DEF Put
<1> HIDE DEF r
<1>7. Describes(p[k0], f2[k0])
  <2>1. \A j \in Slots : j # j0 => f2[k0][j] = f[k0][j]
    BY <1>5 DEF Put
  <2>2. ASSUME j0 > 0 PROVE 0 # j0 /\ j0 - 1 \in Slots /\ j0 - 1 # j0
    BY SMTT(30), <1>2, <2>2
  <2>3. \A i, j \in Slots : i < j /\ j < j0 => i # j0 /\ j # j0
    BY <1>2
  <2> QED
    BY <1>1, <1>6, <2>1, <2>2, <2>3 DEF Describes
<1>8. Laid(f2, p, n)
  BY <1>0, <1>2, <1>4, <1>5, <1>7, LaidPut
<1>9. SameRecords(f, f2)
  <2>1. DOMAIN f2 = 0..(n - 1) /\ DOMAIN f = 0..(n - 1)
    BY <1>0, <1>5 DEF Put, Typed
  <2> QED
    BY <2>1, <1>3, <1>5, <1>6 DEF Put, SameRecords
<1> QED
  BY <1>6, <1>8, <1>9 DEF IdxWritten

LEMMA LaidIdx ==
  ASSUME Fits, NEW f, NEW p, NEW n, Laid(f, p, n), n > 0,
         p[n - 1].n_data < RecsPerPage, NEW a \in 0..(IdxMod - 1),
         NEW f2, f2 = [f EXCEPT ![n - 1][p[n - 1].n_data].idx = a]
  PROVE  IdxWritten(f, p, n, f2, a)
<1> USE Numbers, SlotsAre
<1>0. n \in Nat /\ Typed(f, n) /\ n - 1 \in 0..(n - 1)
  BY DEF Laid, Typed
<1>1. p[n - 1].n_data \in Slots
  BY <1>0, PageOf, Bounds
<1>2. Put(f, f2, n, n - 1, p[n - 1].n_data,
          [present |-> f[n - 1][p[n - 1].n_data].present, idx |-> a])
  BY <1>0, <1>1, PutIdx
<1> QED
  BY <1>2, PutIdxLaid

\* The page p with one record more, of index a.
IsFilled(p, q, a) == /\ q \in PageType
                     /\ q.n_data = p.n_data + 1 /\ q.end = a /\ q.mapped = p.mapped
                     /\ q.start = IF p.n_data = 0 THEN a ELSE p.start

LEMMA Filled ==
  ASSUME Fits, NEW p \in PageType, NEW s \in [Slots -> Record], Describes(p, s),
         p.n_data < RecsPerPage, NEW a \in 0..(IdxMod - 1),
         NEW q, q = [p EXCEPT !.end = a,
                              !.start = IF @ = Invalid THEN a ELSE @,
                              !.n_data = (@ + 1) % CountMod]
  PROVE  IsFilled(p, q, a)
<1> DEFINE j0 == p.n_data
           st == p.start
<1>1. j0 \in Nat /\ st \in 0..Invalid
  BY DEF PageType
<1>2. j0 + 1 \in 0..RecsPerPage /\ j0 + 1 \in 0..(CountMod - 1)
  BY <1>1, Numbers
<1>3. (j0 + 1) % CountMod = j0 + 1
  BY <1>2, Numbers, Small
<1>4. st = Invalid <=> j0 = 0
  <2>1. /\ j0 > 0 => p.start <= p.end /\ p.end < IdxMod
        /\ p.start \in Nat /\ p.end \in Nat
    BY Bounds
  <2>2. j0 = 0 => st = Invalid
    BY DEF Describes
  <2> HIDE DEF j0, st
  <2>3. j0 > 0 => st < Invalid
    BY <2>1, Numbers DEF st
  <2> QED
    BY <2>2, <2>3, <1>1, Numbers
<1>5. /\ q.end = a /\ q.mapped = p.mapped
      /\ q.start = IF st = Invalid THEN a ELSE st
      /\ q.n_data = (j0 + 1) % CountMod
  BY DEF PageType
<1>6. a \in 0..Invalid
  BY Numbers
<1>7. q \in PageType
  <2>1. (IF st = Invalid THEN a ELSE st) \in 0..Invalid
    BY <1>1, <1>6
  <2>2. (j0 + 1) % CountMod \in 0..RecsPerPage
    BY <1>2, <1>3
  <2> QED
    BY <1>6, <2>1, <2>2 DEF PageType
<1> HIDE DEF j0, st
<1>8. q.n_data = j0 + 1 /\ q.start = IF j0 = 0 THEN a ELSE st
  BY <1>3, <1>4, <1>5
<1> QED
  BY <1>5, <1>7, <1>8 DEF j0, st, IsFilled

LEMMA FilledIn ==
  ASSUME NEW S, NEW p \in [S -> PageType], NEW k0 \in S, NEW a,
         NEW p2, p2 = [p EXCEPT ![k0].end = a,
                                ![k0].start = IF @ = Invalid THEN a ELSE @,
                                ![k0].n_data = (@ + 1) % CountMod]
  PROVE  p2 = [p EXCEPT ![k0] =
                 [p[k0] EXCEPT !.end = a,
                               !.start = IF @ = Invalid THEN a ELSE @,
                               !.n_data = (@ + 1) % CountMod]]
BY DEF PageType

\* The present bit makes a record of the slot after the last used one: it is the
\* last of the file, if its index lies above every page.
RecordAdded(f, p, n, f2, p2, a) ==
    /\ Laid(f2, p2, n)
    /\ Put(f, f2, n, n - 1, p[n - 1].n_data, [present |-> TRUE, idx |-> a])
    /\ p2[n - 1].mapped = p[n - 1].mapped
    /\ \A k \in 0..(n - 1) : k # n - 1 => p2[k] = p[k]

OneMore(g, g2, j0, a) == /\ g2[j0].present = TRUE /\ g2[j0].idx = a
                         /\ \A j \in Slots : j # j0 => g2[j] = g[j]

LEMMA DescribesFilled ==
  ASSUME Fits, NEW p \in PageType, NEW g \in [Slots -> Record], Describes(p, g),
         NEW a \in Nat, NEW j0 \in Slots, j0 = p.n_data, j0 > 0 => p.end < a,
         NEW q, IsFilled(p, q, a), NEW g2, OneMore(g, g2, j0, a)
  PROVE  Describes(q, g2)
<1>0. /\ g2[j0].present = TRUE /\ g2[j0].idx = a
      /\ \A j \in Slots : j # j0 => g2[j] = g[j]
  BY DEF OneMore
<1>1. j0 \in Nat /\ \A j \in Slots : j \in Nat
  BY Numbers DEF Slots
<1>2. /\ q.n_data = j0 + 1 /\ q.end = a
      /\ q.start = IF j0 = 0 THEN a ELSE p.start
  BY DEF IsFilled
<1>3. /\ j0 # 0 => p.start = g[0].idx
      /\ \A j \in Slots : g[j].present => j < j0
      /\ \A i, j \in Slots : i < j /\ j < j0 => g[i].idx < g[j].idx
  <2>1. j0 # 0 => p.n_data > 0
    BY <1>1
  <2> QED
    BY <2>1 DEF Describes
<1>4. \A j \in Slots : j < j0 => g[j].idx \in Nat /\ g[j].idx < a
  <2> SUFFICES ASSUME NEW j \in Slots, j < j0 PROVE g[j].idx \in Nat /\ g[j].idx < a
    OBVIOUS
  <2>1. g[j].idx <= p.end /\ g[j].idx \in Nat
    BY Within, RecordOf
  <2>2. p.end < a /\ p.end \in Nat
    BY <1>1, Bounds
  <2> QED
    BY <2>1, <2>2
<1>5. 0 \in Slots
  BY SlotsAre
<1>6. q.start = g2[0].idx /\ q.end = g2[q.n_data - 1].idx
  <2>1. q.n_data - 1 = j0
    BY <1>1, <1>2
  <2>2. CASE j0 = 0
    BY <2>1, <2>2, <1>0, <1>2
  <2>3. CASE j0 # 0
    BY <2>1, <2>3, <1>0, <1>2, <1>3, <1>5
  <2> QED
    BY <2>2, <2>3
<1>7. ASSUME NEW j \in Slots, g2[j].present PROVE j < q.n_data
  BY <1>0, <1>1, <1>2, <1>3, <1>7
<1>8. ASSUME NEW i \in Slots, NEW j \in Slots, i < j, j < q.n_data
      PROVE  g2[i].idx < g2[j].idx
  <2>1. i < j0 /\ i # j0 /\ g2[i] = g[i]
    BY <1>0, <1>1, <1>2, <1>8
  <2>2. CASE j = j0
    BY <2>1, <2>2, <1>0, <1>4
  <2>3. CASE j # j0
    <3>1. j < j0 /\ g2[j] = g[j]
      BY <2>3, <1>0, <1>1, <1>2, <1>8
    <3> QED
      BY <2>1, <3>1, <1>3, <1>8
  <2> QED
    BY <2>2, <2>3
<1>9. q.n_data # 0
  BY <1>1, <1>2
<1> QED
  BY <1>6, <1>7, <1>8, <1>9 DEF Describes

PresentPut(f, p, n, f2, p2, a) ==
    /\ Put(f, f2, n, n - 1, p[n - 1].n_data, [present |-> TRUE, idx |-> a])
    /\ p2 \in [0..(n - 1) -> PageType] /\ IsFilled(p[n - 1], p2[n - 1], a)
    /\ \A k \in 0..(n - 1) : k # n - 1 => p2[k] = p[k]

LEMMA PutPresentLaid ==
  ASSUME Fits, NEW f, NEW p, NEW n, Laid(f, p, n), n > 0,
         p[n - 1].n_data < RecsPerPage, NEW a \in 0..(IdxMod - 1),
         \A k \in 0..(n - 1) : p[k].n_data > 0 => p[k].end < a,
         NEW f2, NEW p2, PresentPut(f, p, n, f2, p2, a)
  PROVE  RecordAdded(f, p, n, f2, p2, a)
<1> USE Numbers, SlotsAre
<1> DEFINE k0 == n - 1
           j0 == p[k0].n_data
           r == [present |-> TRUE, idx |-> a]
           q == p2[k0]
<1>0. n \in Nat /\ Typed(f, n) /\ k0 \in 0..(n - 1) /\ p \in [0..(n - 1) -> PageType]
  BY DEF Laid, Typed
<1>1. p[k0] \in PageType /\ f[k0] \in [Slots -> Record] /\ Describes(p[k0], f[k0])
  BY <1>0, PageOf
<1>2. j0 \in Nat /\ j0 \in Slots
  BY <1>1, Bounds
<1>3. Put(f, f2, n, k0, j0, r)
  BY DEF PresentPut
<1>5. IsFilled(p[k0], q, a)
  BY DEF PresentPut
<1>6. /\ q \in PageType
      /\ q.n_data = j0 + 1 /\ q.end = a /\ q.mapped = p[k0].mapped
      /\ q.start = IF j0 = 0 THEN a ELSE p[k0].start
  BY <1>5 DEF IsFilled
<1> HIDE DEF q
<1>8. /\ p2 \in [0..(n - 1) -> PageType] /\ p2[k0] = q
      /\ \A k \in 0..(n - 1) : k # k0 => p2[k] = p[k]
  BY DEF q, PresentPut
<1>9. /\ f2[k0][j0].present = TRUE /\ f2[k0][j0].idx = a
      /\ \A j \in Slots : j # j0 => f2[k0][j] = f[k0][j]
  BY <1>3 DEF Put
<1>10. Describes(q, f2[k0])
  <2>1. j0 > 0 => p[k0].end < a
    BY <1>0
  <2>2. a \in Nat
    OBVIOUS
  <2>3. j0 = p[k0].n_data
    OBVIOUS
  <2>4. OneMore(f[k0], f2[k0], j0, a)
    BY <1>9 DEF OneMore
  <2> HIDE DEF j0, k0
  <2> QED
    BY <1>1, <1>2, <1>5, <2>1, <2>2, <2>3, <2>4, DescribesFilled
<1>11. \A k \in 0..(n - 1) : Describes(p2[k], f2[k])
  <2>1. \A k \in 0..(n - 1) : k # k0 => f2[k] = f[k]
    BY <1>3 DEF Put
  <2> QED
    BY <2>1, <1>8, <1>10 DEF Laid
<1>12. \A k \in 0..(n - 1) : p2[k].n_data = 0 => k = n - 1
  <2>1. \A k \in 0..(n - 1) : p[k].n_data = 0 => k = n - 1
    BY DEF Laid
  <2> QED
    BY <1>8, <2>1
<1>13. ASSUME NEW k \in 0..(n - 1), NEW l \in 0..(n - 1), k < l
       PROVE  Precedes(p2[k], p2[l])
  <2>1. k # k0 /\ k # n - 1 /\ p2[k] = p[k] /\ Precedes(p[k], p[l])
    BY <1>0, <1>8, <1>13 DEF Laid
  <2>2. CASE l # k0
    BY <2>1, <2>2, <1>8
  <2>3. CASE l = k0
    <3>1. p[k].n_data > 0
      <4>1. p[k] \in PageType /\ f[k] \in [Slots -> Record] /\ Describes(p[k], f[k])
        BY PageOf
      <4>2. p[k].n_data # 0
        BY <2>1 DEF Laid
      <4>3. p[k].n_data \in Nat
        BY <4>1 DEF PageType
      <4> QED
        BY <4>2, <4>3
    <3>2. p[k].end < a
      BY <3>1
    <3>3. j0 > 0 => p[k].end < p[k0].start
      BY <2>1, <2>3 DEF Precedes
    <3>4. p[k].end < q.start
      BY SMTT(30), <3>2, <3>3, <1>2, <1>6
    <3> QED
      BY <3>4, <2>1, <2>3, <1>8 DEF Precedes
  <2> QED
    BY <2>2, <2>3
<1>14. Typed(f2, n)
  BY <1>3 DEF Put
<1>15. Laid(f2, p2, n)
  BY <1>8, <1>11, <1>12, <1>13, <1>14 DEF Laid
<1> QED
  BY <1>3, <1>6, <1>8, <1>15 DEF RecordAdded

LEMMA LaidPresent ==
  ASSUME Fits, NEW f, NEW p, NEW n, Laid(f, p, n), n > 0,
         p[n - 1].n_data < RecsPerPage, NEW a \in 0..(IdxMod - 1),
         f[n - 1][p[n - 1].n_data].idx = a,
         \A k \in 0..(n - 1) : p[k].n_data > 0 => p[k].end < a,
         NEW f2, f2 = [f EXCEPT ![n - 1][p[n - 1].n_data].present = TRUE],
         NEW p2, p2 = [p EXCEPT ![n - 1].end = a,
                                ![n - 1].start = IF @ = Invalid THEN a ELSE @,
                                ![n - 1].n_data = (@ + 1) % CountMod]
  PROVE  RecordAdded(f, p, n, f2, p2, a)
<1> USE Numbers, SlotsAre
<1> DEFINE q == [p[n - 1] EXCEPT !.end = a,
                                 !.start = IF @ = Invalid THEN a ELSE @,
                                 !.n_data = (@ + 1) % CountMod]
<1>0. n \in Nat /\ Typed(f, n) /\ n - 1 \in 0..(n - 1) /\ p \in [0..(n - 1) -> PageType]
  BY DEF Laid, Typed
<1>1. p[n - 1] \in PageType /\ f[n - 1] \in [Slots -> Record] /\ Describes(p[n - 1], f[n - 1])
  BY <1>0, PageOf
<1>2. p[n - 1].n_data \in Slots
  BY <1>1, Bounds
<1>3. Put(f, f2, n, n - 1, p[n - 1].n_data, [present |-> TRUE, idx |-> a])
  BY <1>0, <1>2, PutPresent
<1>4. p2 = [p EXCEPT ![n - 1] = q]
  BY ZenonT(30), <1>0, FilledIn
<1>5. IsFilled(p[n - 1], q, a)
  BY <1>1, Filled
<1>6. q \in PageType
  BY <1>5 DEF IsFilled
<1> HIDE DEF q
<1>7. /\ p2 \in [0..(n - 1) -> PageType] /\ p2[n - 1] = q
      /\ \A k \in 0..(n - 1) : k # n - 1 => p2[k] = p[k]
  BY <1>0, <1>4, <1>6
<1>8. IsFilled(p[n - 1], p2[n - 1], a)
  BY <1>5, <1>7
<1>9. PresentPut(f, p, n, f2, p2, a)
  BY <1>3, <1>7, <1>8 DEF PresentPut
<1> QED
  BY <1>9, PutPresentLaid

\* A deletion clears a present bit, and leaves what the pages say.
LEMMA LaidDeleted ==
  ASSUME Fits, NEW f, NEW p, NEW n, Laid(f, p, n), NEW k0 \in 0..(n - 1),
         NEW j0 \in Slots, NEW f2, f2 = [f EXCEPT ![k0][j0].present = FALSE]
  PROVE  /\ Laid(f2, p, n)
         /\ Put(f, f2, n, k0, j0, [present |-> FALSE, idx |-> f[k0][j0].idx])
<1> USE Numbers, SlotsAre
<1> DEFINE r == [present |-> FALSE, idx |-> f[k0][j0].idx]
<1>0. n \in Nat /\ Typed(f, n)
  BY DEF Laid, Typed
<1>1. p[k0] \in PageType /\ f[k0] \in [Slots -> Record] /\ Describes(p[k0], f[k0])
  BY PageOf
<1>2. r \in Record
  <2>1. f[k0][j0] \in Record
    BY <1>1
  <2> QED
    BY <2>1 DEF Record
<1>3. Put(f, f2, n, k0, j0, r)
  BY <1>0, PutPresent
<1>4. r.present = FALSE /\ r.idx = f[k0][j0].idx
  OBVIOUS
<1> HIDE DEF r
<1>5. \A j \in Slots : /\ f2[k0][j].idx = f[k0][j].idx
                       /\ f2[k0][j].present => f[k0][j].present
  BY <1>3, <1>4 DEF Put
<1>6. Describes(p[k0], f2[k0])
  <2>1. p[k0].n_data > 0 => p[k0].n_data - 1 \in Slots
    BY SMTT(30), <1>1, Bounds
  <2> QED
    BY <1>1, <1>5, <2>1 DEF Describes
<1>7. Laid(f2, p, n)
  BY <1>2, <1>3, <1>6, LaidPut
<1> QED
  BY <1>3, <1>7 DEF r

-----------------------------------------------------------------------------
(***************************************************************************)
(* Opening a file: the pages it makes describe it, if it has no holes.     *)
(***************************************************************************)
LEMMA Least == ASSUME NEW S \in SUBSET Nat, S # {}
               PROVE  \E m \in S : \A j \in S : m <= j
<1> DEFINE R == OpToRel(<, Nat)
<1>1. IsWellFoundedOn(R, Nat)
  BY NatLessThanWellFounded
<1>2. \A i, j \in Nat : i < j => <<i, j>> \in R
  BY DEF OpToRel
<1> HIDE DEF R
<1>3. PICK m \in S : \A j \in S : ~ (<<j, m>> \in R)
  BY <1>1, WFMin
<1>4. \A j \in S : ~ (j < m)
  BY <1>2, <1>3
<1> QED
  BY <1>4

LEMMA Greatest == ASSUME NEW n \in Nat, NEW S \in SUBSET (0..n), S # {}
                  PROVE  \E m \in S : \A j \in S : m >= j
<1> DEFINE U == {u \in 0..n : n - u \in S}
<1>1. \A j \in S : j \in 0..n /\ n - j \in U
  OBVIOUS
<1>2. U \in SUBSET Nat /\ U # {}
  <2>1. PICK j \in S : TRUE
    OBVIOUS
  <2>2. n - j \in U
    BY <1>1
  <2>3. \A u \in U : u \in Nat
    OBVIOUS
  <2> HIDE DEF U
  <2> QED
    BY <2>2, <2>3
<1>3. PICK u \in U : \A v \in U : u <= v
  BY <1>2, Least
<1>4. u \in 0..n /\ n - u \in S
  OBVIOUS
<1> HIDE DEF U
<1>5. ASSUME NEW j \in S PROVE n - u >= j
  <2>1. n - j \in U /\ j \in 0..n
    BY <1>1
  <2>2. u <= n - j
    BY <1>3, <2>1
  <2> QED
    BY <1>4, <2>1, <2>2
<1> QED
  BY <1>4, <1>5

\* The present records of a page come before the others, and ascend.
Packed(s) == /\ \A i, j \in Slots : i < j /\ s[j].present => s[i].present
             /\ \A i, j \in Slots : i < j /\ s[i].present /\ s[j].present
                                     => s[i].idx < s[j].idx

LEMMA ReadPageFacts ==
  ASSUME Fits, NEW s \in [Slots -> Record], Packed(s)
  PROVE  /\ ReadPage(s) \in PageType
         /\ Describes(ReadPage(s), s)
         /\ \A j \in Slots : s[j].present <=> j < ReadPage(s).n_data
         /\ ~ReadPage(s).mapped
<1> USE Numbers, SlotsAre
<1> DEFINE P == {j \in Slots : s[j].present}
           n == RecsPerPage - 1
<1>0. n \in Nat /\ P \in SUBSET (0..n)
  OBVIOUS
<1>1. CASE P = {}
  <2>1. ReadPage(s) = EmptyPage
    BY <1>1 DEF ReadPage
  <2>2. \A j \in Slots : ~s[j].present
    BY <1>1
  <2>3. /\ EmptyPage \in PageType /\ EmptyPage.n_data = 0 /\ ~EmptyPage.mapped
        /\ EmptyPage.start = Invalid /\ EmptyPage.end = Invalid
    BY DEF EmptyPage, PageType
  <2>4. Describes(EmptyPage, s)
    BY <2>2, <2>3 DEF Describes
  <2> QED
    BY <2>1, <2>2, <2>3, <2>4
<1>2. CASE P # {}
  <2>1. PICK m \in P : \A j \in P : m >= j
    BY <1>0, <1>2, Greatest
  <2>2. m \in Slots /\ m \in Nat /\ s[m].present
    BY <1>0
  <2>3. P = 0..m
    <3>1. \A j \in P : j \in 0..m
      BY <1>0, <2>1, <2>2
    <3>2. \A j \in 0..m : j \in P
      BY <2>2 DEF Packed
    <3> QED
      BY <3>1, <3>2
  <2>4. Max(P) = m
    <3>1. \A x \in P : (\A y \in P : x >= y) => x = m
      BY <2>3, <2>2
    <3>2. m \in P /\ \A y \in P : m >= y
      BY <2>1
    <3> HIDE DEF P
    <3> QED
      BY <3>1, <3>2 DEF Max
  <2>5. Min(P) = 0
    <3>1. \A x \in P : (\A y \in P : x =< y) => x = 0
      BY <2>3, <2>2
    <3>2. 0 \in P /\ \A y \in P : 0 =< y
      BY <2>3, <2>2
    <3> HIDE DEF P
    <3> QED
      BY <3>1, <3>2 DEF Min
  <2>6. Cardinality(P) = m + 1 /\ m + 1 \in 0..(CountMod - 1) /\ m + 1 \in 0..RecsPerPage
    <3>1. Cardinality(0..m) = m + 1
      BY <2>2, FS_Interval
    <3>2. Cardinality(P) = m + 1
      BY <3>1, <2>3
    <3> HIDE DEF P
    <3>3. m <= RecsPerPage - 1
      BY <2>2
    <3> QED
      BY <3>2, <3>3, <2>2
  <2>7. Cardinality(P) % CountMod = m + 1
    BY <2>6, Small
  <2> DEFINE r == ReadPage(s)
  <2>8. r = [n_data |-> m + 1, start |-> s[0].idx, end |-> s[m].idx, mapped |-> FALSE]
    <3>1. r = [n_data |-> Cardinality(P) % CountMod, start |-> s[Min(P)].idx,
               end |-> s[Max(P)].idx, mapped |-> FALSE]
      BY <1>2 DEF ReadPage
    <3> HIDE DEF P, r
    <3> QED
      BY <3>1, <2>4, <2>5, <2>7
  <2>9. s[0].idx \in 0..Invalid /\ s[m].idx \in 0..Invalid
    <3>1. s[0].idx \in Nat /\ s[0].idx < IdxMod /\ s[m].idx \in Nat /\ s[m].idx < IdxMod
      BY <2>2, RecordOf
    <3> QED
      BY <3>1
  <2> HIDE DEF r
  <2>10. /\ r.n_data = m + 1 /\ r.start = s[0].idx /\ r.end = s[m].idx /\ ~r.mapped
         /\ r \in PageType
    BY <2>6, <2>8, <2>9 DEF PageType
  <2>11. Describes(r, s)
    <3>1. \A j \in Slots : s[j].present => j < m + 1
      BY <2>3, <2>2
    <3>2. ASSUME NEW i \in Slots, NEW j \in Slots, i < j, j < m + 1
          PROVE  s[i].idx < s[j].idx
      <4>1. i \in P /\ j \in P
        BY <3>2, <2>3, <2>2
      <4> QED
        BY <3>2, <4>1 DEF Packed
    <3>3. m + 1 # 0 /\ m + 1 - 1 = m
      BY <2>2
    <3> QED
      BY <3>1, <3>2, <3>3, <2>10 DEF Describes
  <2>12. \A j \in Slots : s[j].present <=> j < r.n_data
    BY <2>2, <2>3, <2>10
  <2> QED
    BY <2>10, <2>11, <2>12 DEF r
<1> QED
  BY <1>1, <1>2

\* No record and no page comes after a hole.
NoHoles(f) ==
    \A k \in DOMAIN f :
       /\ \A j, l \in Slots : j < l /\ f[k][l].present => f[k][j].present
       /\ k + 1 \in DOMAIN f => \E j \in Slots : f[k][j].present

LEMMA LaidOpened ==
  ASSUME Fits, NEW f, NEW n, Typed(f, n), InOrder(f), NoHoles(f),
         NEW p, p = [k \in DOMAIN f |-> ReadPage(f[k])]
  PROVE  Laid(f, p, n) /\ \A k \in 0..(n - 1) : ~p[k].mapped
<1> USE Numbers
<1>0. n \in Nat /\ DOMAIN f = 0..(n - 1) /\ f \in [0..(n - 1) -> [Slots -> Record]]
  BY DEF Typed
<1>1. ASSUME NEW k \in 0..(n - 1)
      PROVE  /\ f[k] \in [Slots -> Record] /\ p[k] \in PageType
             /\ Describes(p[k], f[k])
             /\ \A j \in Slots : f[k][j].present <=> j < p[k].n_data
             /\ ~p[k].mapped
  <2>1. f[k] \in [Slots -> Record] /\ p[k] = ReadPage(f[k])
    BY <1>0
  <2>2. Packed(f[k])
    BY <1>0 DEF NoHoles, InOrder, Packed
  <2> QED
    BY <2>1, <2>2, ReadPageFacts
<1>2. p \in [0..(n - 1) -> PageType]
  <2>1. p = [k \in 0..(n - 1) |-> ReadPage(f[k])]
    BY <1>0
  <2>2. \A k \in 0..(n - 1) : p[k] \in PageType
    BY <1>1
  <2> QED
    BY <2>1, <2>2
<1>3. ASSUME NEW k \in 0..(n - 1), p[k].n_data = 0 PROVE k = n - 1
  <2>1. \A j \in Slots : ~f[k][j].present
    <3>1. \A j \in Slots : j \in Nat
      BY SlotsAre
    <3>2. \A j \in Slots : f[k][j].present <=> j < 0
      BY <1>1, <1>3
    <3> QED
      BY <3>1, <3>2
  <2>2. k + 1 \notin DOMAIN f
    BY <2>1, <1>0 DEF NoHoles
  <2> QED
    BY <2>2, <1>0
<1>4. ASSUME NEW k \in 0..(n - 1), NEW l \in 0..(n - 1), k < l, p[l].n_data > 0
      PROVE  p[k].end < p[l].start
  <2> DEFINE j == p[k].n_data - 1
  <2>1. p[k].n_data # 0 /\ k # n - 1
    BY <1>0, <1>3, <1>4
  <2>2. p[k].n_data \in Nat /\ p[k].n_data <= RecsPerPage
    BY <1>1, Bounds
  <2>3. j \in Slots /\ j < p[k].n_data /\ p[k].n_data > 0
    BY <2>1, <2>2, SlotsAre
  <2>4. p[k].end = f[k][j].idx /\ p[l].start = f[l][0].idx
    BY <1>1, <1>4, <2>3 DEF Describes
  <2>5. f[k][j].present /\ f[l][0].present
    BY <1>1, <1>4, <2>3, SlotsAre
  <2> HIDE DEF j
  <2>6. f[k][j].idx < f[l][0].idx
    BY <1>0, <1>4, <2>3, <2>5, SlotsAre DEF InOrder
  <2> QED
    BY <2>4, <2>6
<1> QED
  BY <1>1, <1>2, <1>3, <1>4 DEF Laid, Precedes

-----------------------------------------------------------------------------
(***************************************************************************)
(* What the searches rely on: the bounds of the pages ascend, and so do    *)
(* the indices in the used slots of a page.                                *)
(***************************************************************************)
LEMMA PagesAbove ==
  ASSUME Fits, NEW f, NEW p, NEW n, Laid(f, p, n), NEW m \in 0..(n - 1),
         NEW a \in 0..(Invalid - 1), a < p[m].start,
         NEW k \in 0..(n - 1), m <= k
  PROVE  a < p[k].start
<1>0. n \in Nat
  BY DEF Laid, Typed
<1>1. CASE k = m
  BY <1>1
<1>2. CASE k # m
  <2>1. /\ p[m] \in PageType /\ f[m] \in [Slots -> Record] /\ Describes(p[m], f[m])
        /\ p[k] \in PageType /\ f[k] \in [Slots -> Record] /\ Describes(p[k], f[k])
    BY PageOf
  <2>2. m < k /\ Precedes(p[m], p[k]) /\ m # n - 1
    BY <1>0, <1>2 DEF Laid
  <2>3. p[m].n_data > 0
    <3>1. p[m].n_data # 0
      BY <2>2 DEF Laid
    <3> QED
      BY <3>1, <2>1, Bounds
  <2>4. /\ p[m].start \in Nat /\ p[m].end \in Nat /\ p[k].start \in Nat
        /\ p[m].start <= p[m].end /\ p[k].n_data \in Nat
    BY <2>1, <2>3, Bounds
  <2>5. CASE p[k].n_data = 0
    <3>1. p[k].start = Invalid
      BY <2>1, <2>5 DEF Describes
    <3> QED
      BY <3>1, Numbers
  <2>6. CASE p[k].n_data > 0
    <3>1. p[m].end < p[k].start
      BY <2>2, <2>6 DEF Precedes
    <3> QED
      BY <3>1, <2>4
  <2> QED
    BY <2>4, <2>5, <2>6
<1> QED
  BY <1>1, <1>2

LEMMA PagesBelow ==
  ASSUME Fits, NEW f, NEW p, NEW n, Laid(f, p, n), NEW m \in 0..(n - 1),
         NEW a \in 0..(Invalid - 1), p[m].end < a,
         NEW k \in 0..(n - 1), k <= m
  PROVE  p[k].end < a
<1>0. n \in Nat
  BY DEF Laid, Typed
<1>1. CASE k = m
  BY <1>1
<1>2. CASE k # m
  <2>1. /\ p[m] \in PageType /\ f[m] \in [Slots -> Record] /\ Describes(p[m], f[m])
        /\ p[k] \in PageType /\ f[k] \in [Slots -> Record] /\ Describes(p[k], f[k])
    BY PageOf
  <2>2. k < m /\ Precedes(p[k], p[m])
    BY <1>0, <1>2 DEF Laid
  <2>3. p[m].end # Invalid
    BY <2>1, Bounds, Numbers
  <2>4. p[m].n_data # 0 /\ p[m].n_data \in Nat
    BY <2>1, <2>3, Bounds
  <2>5. /\ p[m].start \in Nat /\ p[m].end \in Nat /\ p[k].end \in Nat
        /\ p[m].start <= p[m].end
    BY <2>1, <2>4, Bounds
  <2>6. p[k].end < p[m].start
    BY <2>2, <2>4 DEF Precedes
  <2> QED
    BY <2>5, <2>6
<1> QED
  BY <1>1, <1>2

LEMMA SlotsAscend ==
  ASSUME Fits, NEW p \in PageType, NEW s \in [Slots -> Record], Describes(p, s),
         NEW i \in Slots, NEW j \in Slots, i <= j, j < p.n_data
  PROVE  s[i].idx <= s[j].idx
<1>1. i \in Nat /\ j \in Nat /\ s[i].idx \in Nat /\ s[j].idx \in Nat
  <2>1. i \in Nat /\ j \in Nat
    BY SlotsAre
  <2>2. s[i].idx \in Nat /\ s[j].idx \in Nat
    BY RecordOf
  <2> QED
    BY <2>1, <2>2
<1>2. CASE i = j
  BY <1>1, <1>2
<1>3. CASE i # j
  <2>1. i < j
    BY <1>1, <1>3
  <2>2. s[i].idx < s[j].idx
    BY <2>1 DEF Describes
  <2> QED
    BY <1>1, <2>2
<1> QED
  BY <1>2, <1>3

\* The file holds a record of index a.
Holds(f, a) == \E k \in DOMAIN f, j \in Slots : f[k][j].present /\ f[k][j].idx = a

\* A record lies within the bounds of the page it is in.
LEMMA HeldWithin ==
  ASSUME Fits, NEW f, NEW p, NEW n, Laid(f, p, n), NEW k \in 0..(n - 1),
         NEW j \in Slots, f[k][j].present
  PROVE  /\ j < p[k].n_data
         /\ p[k].start <= f[k][j].idx /\ f[k][j].idx <= p[k].end
         /\ f[k][j].idx \in 0..(IdxMod - 1)
<1>1. p[k] \in PageType /\ f[k] \in [Slots -> Record] /\ Describes(p[k], f[k])
  BY PageOf
<1>2. j < p[k].n_data
  BY <1>1 DEF Describes
<1>3. f[k][j].idx \in Nat /\ f[k][j].idx < IdxMod
  BY <1>1, RecordOf
<1>4. f[k][j].idx \in 0..(IdxMod - 1)
  BY <1>3, Numbers
<1> QED
  BY <1>1, <1>2, <1>4, Within

Outside(q, a) == a < q.start \/ a > q.end

\* An index outside of every page is not in the file.
LEMMA NotHeld ==
  ASSUME Fits, NEW f, NEW p, NEW n, Laid(f, p, n), NEW a,
         \A k \in 0..(n - 1) : Outside(p[k], a)
  PROVE  ~Holds(f, a)
<1>1. DOMAIN f = 0..(n - 1)
  BY DEF Laid, Typed
<1>2. ASSUME NEW k \in 0..(n - 1), NEW j \in Slots, f[k][j].present, f[k][j].idx = a
      PROVE  FALSE
  <2>1. p[k].start <= a /\ a <= p[k].end /\ a \in 0..(IdxMod - 1)
    BY <1>2, HeldWithin
  <2>2. p[k].start \in Nat /\ p[k].end \in Nat
    BY PageOf, Bounds
  <2>3. Outside(p[k], a)
    OBVIOUS
  <2> QED
    BY <2>1, <2>2, <2>3, Numbers DEF Outside
<1> QED
  BY <1>1, <1>2 DEF Holds

\* An index within the bounds of a page is in no other page.
LEMMA OnlyThere ==
  ASSUME Fits, NEW f, NEW p, NEW n, Laid(f, p, n), NEW k0 \in 0..(n - 1),
         NEW k \in 0..(n - 1), NEW j \in Slots, f[k][j].present,
         p[k0].start <= f[k][j].idx, f[k][j].idx <= p[k0].end
  PROVE  k = k0
<1>0. n \in Nat
  BY DEF Laid, Typed
<1> DEFINE a == f[k][j].idx
<1>1. p[k].start <= a /\ a <= p[k].end /\ a \in 0..(IdxMod - 1)
  BY HeldWithin
<1>2. /\ p[k0] \in PageType /\ f[k0] \in [Slots -> Record] /\ Describes(p[k0], f[k0])
      /\ p[k] \in PageType /\ f[k] \in [Slots -> Record] /\ Describes(p[k], f[k])
  BY PageOf
<1>3. /\ p[k0].start \in Nat /\ p[k0].end \in Nat /\ p[k].start \in Nat
      /\ p[k].end \in Nat /\ p[k0].n_data \in Nat /\ p[k].n_data \in Nat
  BY <1>2, Bounds
<1>4. p[k].n_data > 0 /\ p[k0].n_data > 0
  <2>1. p[k].n_data = 0 => p[k].start = Invalid
    BY <1>2 DEF Describes
  <2>2. p[k0].n_data = 0 => p[k0].start = Invalid
    BY <1>2 DEF Describes
  <2>3. a < Invalid /\ p[k0].start <= a
    BY <1>1, Numbers
  <2> HIDE DEF a
  <2> QED
    BY <1>1, <1>3, <2>1, <2>2, <2>3, Numbers
<1>5. p[k0].start <= a /\ a <= p[k0].end
  OBVIOUS
<1> HIDE DEF a
<1>6. CASE k < k0
  <2>1. p[k].end < p[k0].start
    BY <1>4, <1>6 DEF Laid, Precedes
  <2> QED
    BY <2>1, <1>1, <1>3, <1>5, Numbers
<1>7. CASE k0 < k
  <2>1. p[k0].end < p[k].start
    BY <1>4, <1>7 DEF Laid, Precedes
  <2> QED
    BY <2>1, <1>1, <1>3, <1>5, Numbers
<1> QED
  BY <1>0, <1>6, <1>7

\* No two records have the same index.
LEMMA HeldOnce ==
  ASSUME Fits, NEW f, NEW p, NEW n, Laid(f, p, n),
         NEW k \in 0..(n - 1), NEW j \in Slots, f[k][j].present,
         NEW l \in 0..(n - 1), NEW i \in Slots, f[l][i].present,
         f[k][j].idx = f[l][i].idx
  PROVE  k = l /\ j = i
<1>0. n \in Nat /\ DOMAIN f = 0..(n - 1) /\ InOrder(f)
  <2>1. InOrder(f)
    BY LaidInOrder
  <2> QED
    BY <2>1 DEF Laid, Typed
<1>1. f[k][j].idx \in 0..(IdxMod - 1) /\ j \in Nat /\ i \in Nat
  BY HeldWithin, SlotsAre
<1>2. ~(k < l \/ (k = l /\ j < i))
  <2>1. k < l \/ (k = l /\ j < i) => f[k][j].idx < f[l][i].idx
    BY <1>0 DEF InOrder
  <2> QED
    BY <2>1, <1>1, Numbers
<1>3. ~(l < k \/ (l = k /\ i < j))
  <2>1. l < k \/ (l = k /\ i < j) => f[l][i].idx < f[k][j].idx
    BY <1>0 DEF InOrder
  <2> QED
    BY <2>1, <1>1, Numbers
<1> QED
  BY <1>0, <1>1, <1>2, <1>3

-----------------------------------------------------------------------------
(***************************************************************************)
(* The cache of mappings.                                                  *)
(***************************************************************************)
Entry(p) == [page_n : DOMAIN p, hits : {1}]

\* The entries c are of the mapped pages of p, each once and never hit again.
Caches(c, p) ==
    /\ c \in Seq(Entry(p))
    /\ Len(c) <= MaxCache
    /\ \A i, j \in 1..Len(c) : c[i].page_n = c[j].page_n => i = j
    /\ \A k \in DOMAIN p : p[k].mapped <=> \E i \in 1..Len(c) : c[i].page_n = k

\* r is the sequence o without its first element.
IsRest(o, r, S) == /\ r \in Seq(S)
                   /\ Len(r) = Len(o) - 1
                   /\ \A j \in 1..(Len(o) - 1) : r[j] = o[j + 1]

LEMMA FirstRemoved ==
  ASSUME NEW S, NEW o \in Seq(S), Len(o) > 0
  PROVE  IsRest(o, RemoveAt(o, 1), S)
<1> DEFINE a == SubSeq(o, 1, 0)
           c == SubSeq(o, 2, Len(o))
<1>0. Len(o) \in Nat /\ \A j \in 1..Len(o) : o[j] \in S
  BY LenProperties, ElementOfSeq
<1>1. a \in Seq(S) /\ Len(a) = 0
  BY <1>0, SubSeqProperties
<1>2. /\ c \in Seq(S) /\ Len(c) = Len(o) - 1
      /\ \A j \in 1..(Len(o) - 1) : c[j] = o[j + 1]
  <2>1. /\ SubSeq(o, 2, Len(o)) \in Seq(S)
        /\ Len(SubSeq(o, 2, Len(o))) = IF 2 <= Len(o) THEN Len(o) - 2 + 1 ELSE 0
        /\ \A j \in 1..(Len(o) - 2 + 1) : SubSeq(o, 2, Len(o))[j] = o[2 + j - 1]
    BY <1>0, SubSeqProperties
  <2>2. \A j \in Int : 2 + j - 1 = j + 1
    OBVIOUS
  <2>3. Len(o) - 2 + 1 = Len(o) - 1
    BY <1>0
  <2>4. Len(c) = Len(o) - 1
    BY <2>1, <2>3, <1>0
  <2>5. \A j \in 1..(Len(o) - 1) : c[j] = o[j + 1]
    BY <2>1, <2>2, <2>3
  <2> QED
    BY <2>1, <2>4, <2>5
<1> HIDE DEF a, c
<1>3. /\ a \o c \in Seq(S) /\ Len(a \o c) = Len(o) - 1
      /\ \A j \in 1..(Len(o) - 1) : (a \o c)[j] = c[j]
  <2>1. /\ a \o c \in Seq(S) /\ Len(a \o c) = Len(a) + Len(c)
        /\ \A j \in 1..(Len(a) + Len(c)) :
              (a \o c)[j] = IF j <= Len(a) THEN a[j] ELSE c[j - Len(a)]
    BY <1>1, <1>2, ConcatProperties
  <2> QED
    BY <2>1, <1>1, <1>2, <1>0
<1>4. \A j \in 1..(Len(o) - 1) : (a \o c)[j] = o[j + 1]
  BY <1>2, <1>3
<1>5. RemoveAt(o, 1) = a \o c
  BY DEF RemoveAt, a, c
<1> DEFINE d == a \o c
<1>6. IsRest(o, d, S)
  BY <1>3, <1>4 DEF IsRest
<1> HIDE DEF d
<1>7. RemoveAt(o, 1) = d
  BY <1>5 DEF d
<1> QED
  BY <1>6, <1>7

\* Every entry has one hit: the entry with the least is the first.
LEMMA LessHitIsFirst ==
  ASSUME Caches(cache, pages), Len(cache) > 0
  PROVE  LessHit = 1
<1>1. DOMAIN cache = 1..Len(cache) /\ Len(cache) \in Nat
  BY LenProperties DEF Caches
<1>2. \A i \in 1..Len(cache) : cache[i].hits = 1
  <2>1. \A i \in 1..Len(cache) : cache[i] \in Entry(pages)
    BY ElementOfSeq DEF Caches
  <2> QED
    BY <2>1 DEF Entry
<1>3. /\ 1 \in DOMAIN cache
      /\ \A e \in DOMAIN cache : cache[1].hits <= cache[e].hits
      /\ \A e \in 1..0 : cache[e].hits > cache[1].hits
  BY <1>1, <1>2
<1>4. ASSUME NEW c \in DOMAIN cache, \A e \in 1..(c - 1) : cache[e].hits > cache[c].hits
      PROVE  c = 1
  <2>1. 1 \in 1..(c - 1) => 1 > 1
    BY <1>1, <1>2, <1>4
  <2> QED
    BY <2>1, <1>1
<1> QED
  BY <1>3, <1>4 DEF LessHit

\* What a mapping unmaps, and that the cache still lists what is mapped.
Remapped(p, q) == \A k \in DOMAIN p : /\ q[k].n_data = p[k].n_data
                                      /\ q[k].start = p[k].start
                                      /\ q[k].end = p[k].end

LEMMA Maps ==
  ASSUME Fits, NEW n \in Nat, pages \in [0..(n - 1) -> PageType],
         Caches(cache, pages), NEW k0 \in 0..(n - 1), ~pages[k0].mapped, MapPage(k0)
  PROVE  /\ pages' \in [0..(n - 1) -> PageType]
         /\ Remapped(pages, pages')
         /\ pages'[k0].mapped
         /\ Caches(cache', pages')
         /\ \A k \in 0..(n - 1) : pages[k].mapped /\ ~pages'[k].mapped
                                    => k = cache[1].page_n
<1> DEFINE h == IF Evicts THEN 1 ELSE 0
           x == [page_n |-> k0, hits |-> 1]
           E == Entry(pages)
           L == Len(cache)
<1>0. /\ DOMAIN pages = 0..(n - 1) /\ cache \in Seq(E) /\ L \in Nat /\ L <= MaxCache
      /\ h \in 0..1 /\ x \in E /\ MaxCache \in Nat /\ MaxCache > 0
  <2>1. cache \in Seq(E) /\ L \in Nat /\ L <= MaxCache
    BY LenProperties DEF Caches
  <2>2. x \in E
    BY DEF Entry
  <2> QED
    BY <2>1, <2>2, Numbers
<1>1. Evicts => L > 0 /\ L >= MaxCache
  BY <1>0 DEF Evicts
<1>2. Evicts => LessHit = 1
  BY <1>1, LessHitIsFirst
<1>3. /\ Kept \in Seq(E) /\ Len(Kept) = L - h
      /\ \A i \in 1..(L - h) : Kept[i] = cache[i + h]
  <2>1. CASE Evicts
    <3>1. Kept = RemoveAt(cache, 1)
      BY <2>1, <1>2 DEF Kept
    <3>2. h = 1
      BY <2>1
    <3> HIDE DEF h, E, L
    <3>3. IsRest(cache, RemoveAt(cache, 1), E)
      <4>1. cache \in Seq(E) /\ Len(cache) > 0
        BY <2>1, <1>0, <1>1 DEF L
      <4> QED
        BY <4>1, FirstRemoved
    <3>4. IsRest(cache, Kept, E)
      BY <3>1, <3>3
    <3> QED
      BY <3>2, <3>4 DEF L, IsRest
  <2>2. CASE ~Evicts
    BY <2>2, <1>0 DEF Kept
  <2> QED
    BY <2>1, <2>2
<1>4. L - h < MaxCache
  <2>1. CASE Evicts
    BY <2>1, <1>0, <1>1
  <2>2. CASE ~Evicts
    BY <2>2, <1>0 DEF Evicts
  <2> QED
    BY <2>1, <2>2
<1> HIDE DEF x
<1>5. /\ cache' \in Seq(E) /\ Len(cache') = L - h + 1
      /\ cache'[L - h + 1] = x
      /\ \A i \in 1..(L - h) : cache'[i] = cache[i + h]
  <2>1. cache' = Append(Kept, x)
    BY DEF MapPage, x
  <2>2. /\ Append(Kept, x) \in Seq(E) /\ Len(Append(Kept, x)) = Len(Kept) + 1
        /\ \A i \in 1..Len(Kept) : Append(Kept, x)[i] = Kept[i]
        /\ Append(Kept, x)[Len(Kept) + 1] = x
    BY <1>0, <1>3, AppendProperties
  <2> QED
    BY <2>1, <2>2, <1>3
<1>6. x.page_n = k0
  BY DEF x
<1>7. /\ pages' \in [0..(n - 1) -> PageType] /\ Remapped(pages, pages')
      /\ \A k \in 0..(n - 1) :
            pages'[k].mapped <=> \/ k = k0
                                 \/ pages[k].mapped /\ ~(Evicts /\ k = cache[1].page_n)
  <2>1. pages' = [k \in 0..(n - 1) |->
                    [pages[k] EXCEPT !.mapped =
                        k = k0 \/ (@ /\ ~(Evicts /\ k = cache[LessHit].page_n))]]
    BY <1>0 DEF MapPage
  <2>2. ASSUME NEW k \in 0..(n - 1)
        PROVE  /\ pages'[k] \in PageType
               /\ pages'[k].n_data = pages[k].n_data
               /\ pages'[k].start = pages[k].start /\ pages'[k].end = pages[k].end
               /\ pages'[k].mapped <=>
                     \/ k = k0
                     \/ pages[k].mapped /\ ~(Evicts /\ k = cache[LessHit].page_n)
    <3> DEFINE b == k = k0 \/ (pages[k].mapped /\ ~(Evicts /\ k = cache[LessHit].page_n))
    <3>1. pages'[k] = [pages[k] EXCEPT !.mapped = b]
      BY <2>1
    <3>2. b \in BOOLEAN /\ pages[k] \in PageType
      OBVIOUS
    <3> HIDE DEF b
    <3>3. /\ pages'[k] \in PageType
          /\ pages'[k].n_data = pages[k].n_data
          /\ pages'[k].start = pages[k].start /\ pages'[k].end = pages[k].end
          /\ pages'[k].mapped = b
      BY <3>1, <3>2 DEF PageType
    <3> QED
      BY <3>3 DEF b
  <2>3. pages' \in [0..(n - 1) -> PageType]
    <3>1. \A k \in 0..(n - 1) : pages'[k] \in PageType
      BY <2>2
    <3> QED
      BY <2>1, <3>1
  <2>4. Remapped(pages, pages')
    BY <2>2, <1>0 DEF Remapped
  <2>5. \A k \in 0..(n - 1) :
            pages'[k].mapped <=> \/ k = k0
                                 \/ pages[k].mapped /\ ~(Evicts /\ k = cache[1].page_n)
    BY <2>2, <1>2
  <2> QED
    BY <2>3, <2>4, <2>5
<1>8. DOMAIN pages' = 0..(n - 1) /\ Entry(pages') = E
  BY <1>0, <1>7 DEF Entry
<1>9. /\ \A i, j \in 1..L : cache[i].page_n = cache[j].page_n => i = j
      /\ \A k \in 0..(n - 1) : pages[k].mapped <=> \E i \in 1..L : cache[i].page_n = k
  BY <1>0 DEF Caches
<1>10. \A i \in 1..L : cache[i].page_n # k0
  BY <1>9
<1> HIDE DEF E, L
<1>11. ASSUME NEW i \in 1..(L - h + 1), NEW j \in 1..(L - h + 1),
              cache'[i].page_n = cache'[j].page_n
       PROVE  i = j
  <2>1. \A m \in 1..(L - h) : m + h \in 1..L
    BY <1>0
  <2>2. \A m \in 1..(L - h) : cache'[m].page_n # k0
    BY <2>1, <1>5, <1>10
  <2>3. CASE i = L - h + 1
    BY <2>2, <2>3, <1>0, <1>5, <1>6, <1>11
  <2>4. CASE j = L - h + 1
    BY <2>2, <2>4, <1>0, <1>5, <1>6, <1>11
  <2>5. CASE i # L - h + 1 /\ j # L - h + 1
    <3>1. i \in 1..(L - h) /\ j \in 1..(L - h)
      BY <1>0, <2>5
    <3>2. i + h = j + h
      BY SMTT(30), <3>1, <2>1, <1>5, <1>9, <1>11
    <3> QED
      BY <3>1, <3>2, <1>0
  <2> QED
    BY <2>3, <2>4, <2>5
<1>12. ASSUME NEW k \in 0..(n - 1)
       PROVE  pages'[k].mapped <=> \E i \in 1..(L - h + 1) : cache'[i].page_n = k
  <2>1. ASSUME k = k0 PROVE \E i \in 1..(L - h + 1) : cache'[i].page_n = k
    <3>1. L - h + 1 \in 1..(L - h + 1)
      BY <1>0, <1>1 DEF h
    <3> QED
      BY <3>1, <2>1, <1>5, <1>6
  <2>2. ASSUME pages[k].mapped, ~(Evicts /\ k = cache[1].page_n)
        PROVE  \E i \in 1..(L - h + 1) : cache'[i].page_n = k
    <3>1. PICK i \in 1..L : cache[i].page_n = k
      BY <2>2, <1>9
    <3>2. ~(Evicts /\ i = 1)
      BY <3>1, <2>2
    <3>3. i - h \in 1..(L - h) /\ (i - h) + h = i
      BY <3>2, <1>0 DEF h
    <3>4. cache'[i - h] = cache[i]
      BY <3>3, <1>5
    <3>5. i - h \in 1..(L - h + 1)
      BY <3>3, <1>0
    <3> QED
      BY <3>1, <3>4, <3>5
  <2>3. ASSUME NEW i \in 1..(L - h + 1), cache'[i].page_n = k, k # k0
        PROVE  pages[k].mapped /\ ~(Evicts /\ k = cache[1].page_n)
    <3>1. i \in 1..(L - h)
      <4>1. i # L - h + 1
        BY <2>3, <1>5, <1>6
      <4> QED
        BY <4>1, <1>0
    <3>2. i + h \in 1..L /\ cache[i + h].page_n = k
      BY <3>1, <2>3, <1>0, <1>5
    <3>3. pages[k].mapped
      BY <3>2, <1>9
    <3>4. ASSUME Evicts, k = cache[1].page_n PROVE FALSE
      <4>1. 1 \in 1..L /\ i + h # 1
        BY <3>4, <3>1, <1>0 DEF h
      <4> QED
        BY <4>1, <3>2, <3>4, <1>9
    <3> QED
      BY <3>3, <3>4
  <2> QED
    BY <2>1, <2>2, <2>3, <1>7
<1>13. Caches(cache', pages')
  <2>1. Len(cache') <= MaxCache
    BY <1>0, <1>4, <1>5
  <2> QED
    BY SMTT(30), <2>1, <1>5, <1>8, <1>11, <1>12 DEF Caches
<1> QED
  BY <1>7, <1>13

\* The same for a page that may be mapped already.
Mapping(k) ==
    /\ pages' \in [DOMAIN pages -> PageType]
    /\ Remapped(pages, pages')
    /\ pages'[k].mapped
    /\ Caches(cache', pages')
    /\ \A l \in DOMAIN pages : pages[l].mapped /\ ~pages'[l].mapped
                                => l = cache[1].page_n

LEMMA MapsIfNeeded ==
  ASSUME Fits, NEW n \in Nat, pages \in [0..(n - 1) -> PageType],
         Caches(cache, pages), NEW k0 \in 0..(n - 1), MapIfNeeded(k0)
  PROVE  Mapping(k0)
<1>0. DOMAIN pages = 0..(n - 1)
  OBVIOUS
<1>1. CASE pages[k0].mapped
  BY <1>1 DEF MapIfNeeded, Mapping, Remapped
<1>2. CASE ~pages[k0].mapped
  <2>1. MapPage(k0)
    BY <1>2 DEF MapIfNeeded
  <2> QED
    BY <2>1, <1>0, <1>2, Maps DEF Mapping
<1> QED
  BY <1>1, <1>2

-----------------------------------------------------------------------------
(***************************************************************************)
(* The inductive invariant: what the file holds, what the pages say of it, *)
(* what the cache lists, and what a call under way has found out so far.   *)
(***************************************************************************)
FileRight == \E m \in Nat : Typed(file, m) /\ InOrder(file)
Session == open => Laid(file, pages, n_pages)
CacheRight == Caches(cache, pages)
Closed == ~open => /\ DOMAIN pages = {} /\ cache = << >>
                   /\ pc \in {"idle", "wild"} /\ op = "none"

\* Every page lies below the index to be inserted.
EndsBelow == \A k \in 0..(n_pages - 1) : pages[k].n_data > 0 => pages[k].end < arg
HasRoom == n_pages > 0 /\ pages[n_pages - 1].n_data < RecsPerPage

AtGrow == EndsBelow /\ (n_pages > 0 => pages[n_pages - 1].n_data = RecsPerPage)
AtCheck == HasRoom /\ (pages[n_pages - 1].n_data = 0 => EndsBelow)
AtRecord == HasRoom /\ EndsBelow /\ pages[n_pages - 1].mapped
AtPresent == AtRecord /\ file[n_pages - 1][pages[n_pages - 1].n_data].idx = arg

Inserting ==
    pc \in {"grow", "check", "record", "present"} =>
       /\ open /\ op = "insert" /\ arg \in 0..(IdxMod - 1)
       /\ pc = "grow" => AtGrow
       /\ pc = "check" => AtCheck
       /\ pc = "record" => AtRecord
       /\ pc = "present" => AtPresent

\* The pages before beg lie below the index, those after end above it.
AtPage == /\ n_pages > 0 /\ beg \in 0..n_pages
          /\ end \in 0..n_pages \/ end = Invalid
          /\ \A k \in 0..(n_pages - 1) : k < beg => pages[k].end < arg
          /\ \A k \in 0..(n_pages - 1) : end = Invalid \/ k > end => arg < pages[k].start
AtRange == /\ page_n \in 0..(n_pages - 1)
           /\ \/ InRange(pages[page_n])
              \/ \A k \in 0..(n_pages - 1) : Outside(pages[k], arg)
\* The same of the slots; beg may have passed end.
AtSlot == LET n == pages[page_n].n_data
          IN  /\ page_n \in 0..(n_pages - 1)
              /\ pages[page_n].mapped /\ InRange(pages[page_n])
              /\ beg \in 0..(n - 1) /\ end \in 0..(n - 1)
              /\ \A j \in Slots : j < beg => file[page_n][j].idx < arg
              /\ \A j \in Slots : j > end /\ j < n => arg < file[page_n][j].idx
AtWild == n_pages > 0 /\ pages[n_pages - 1].end < arg

Looking ==
    pc \in {"page", "range", "slot", "absent"} \/ (pc = "wild" /\ op # "none") =>
       /\ open /\ op \in {"search", "delete"} /\ arg \in 0..(Invalid - 1)
       /\ pc = "page" => AtPage
       /\ pc = "range" => AtRange
       /\ pc = "slot" => AtSlot
       /\ pc = "absent" => ~Holds(file, arg)
       /\ pc = "wild" => AtWild

CallType == /\ pc \in {"idle", "grow", "check", "record", "present", "page", "range",
                       "slot", "absent", "wild"}
            /\ op \in {"none", "insert", "search", "delete"}
            /\ arg \in 0..Invalid /\ beg \in 0..Invalid /\ end \in 0..Invalid
            /\ page_n \in Nat
            /\ pc = "idle" => op = "none"
            /\ op # "none" => arg \in Idx
            /\ open \in BOOLEAN

IInv == /\ FileRight /\ Session /\ CacheRight /\ Closed
        /\ Inserting /\ Looking /\ CallType

-----------------------------------------------------------------------------
\* Facts that every step uses.
LEMMA LaidCounts ==
  ASSUME NEW f, NEW p, NEW n, Laid(f, p, n)
  PROVE  /\ n \in Nat /\ n <= MaxPages /\ Typed(f, n)
         /\ DOMAIN p = 0..(n - 1) /\ DOMAIN f = 0..(n - 1)
         /\ p \in [0..(n - 1) -> PageType]
         /\ Cardinality(DOMAIN p) = n
<1>1. n \in Nat /\ n <= MaxPages
  BY SizeAssumption DEF Laid, Typed
<1>2. Cardinality(0..(n - 1)) = n
  BY <1>1, Counts
<1>3. DOMAIN p = 0..(n - 1) /\ DOMAIN f = 0..(n - 1)
  BY DEF Laid, Typed
<1> QED
  BY <1>1, <1>2, <1>3 DEF Laid

LEMMA OpenFacts ==
  ASSUME IInv, open
  PROVE  /\ Laid(file, pages, n_pages) /\ Caches(cache, pages)
         /\ n_pages \in Nat /\ n_pages <= MaxPages
         /\ DOMAIN pages = 0..(n_pages - 1) /\ DOMAIN file = 0..(n_pages - 1)
         /\ pages \in [0..(n_pages - 1) -> PageType]
BY LaidCounts DEF IInv, Session, CacheRight

LEMMA CallsAreOpen == ASSUME IInv, pc \notin {"idle", "wild"} \/ op # "none" PROVE open
BY DEF IInv, Closed

\* A step that leaves the store and has not left the session.
LEMMA StoreSame ==
  ASSUME IInv, UNCHANGED store
  PROVE  /\ FileRight' /\ Session' /\ CacheRight' /\ n_pages' = n_pages
         /\ open => Closed'
BY DEF IInv, FileRight, Session, CacheRight, Closed, n_pages, store

\* A step that changes the pages, and leaves n of them that describe the file.
LEMMA StoreNext ==
  ASSUME Fits, NEW n, Laid(file', pages', n), Caches(cache', pages'), open, open' = open
  PROVE  FileRight' /\ Session' /\ CacheRight' /\ Closed' /\ n_pages' = n
<1>1. n \in Nat /\ Typed(file', n) /\ Cardinality(DOMAIN pages') = n
  BY LaidCounts
<1>2. InOrder(file')
  BY LaidInOrder
<1>3. n_pages' = n
  BY <1>1 DEF n_pages
<1> QED
  BY <1>1, <1>2, <1>3 DEF FileRight, Session, CacheRight, Closed

LEMMA Returned ==
  ASSUME Fits, Return, open' \in BOOLEAN
  PROVE  Inserting' /\ Looking' /\ CallType'
<1>1. Invalid \in 0..Invalid /\ 0 \in 0..Invalid
  BY Numbers
<1> QED
  BY <1>1 DEF Return, Inserting, Looking, CallType

LEMMA InitIInv == ASSUME Fits, Init PROVE IInv
<1> USE Numbers
<1>1. FileRight
  <2>1. DOMAIN file = {} /\ file = [k \in 0..(0 - 1) |-> BlankPage]
    BY DEF Init
  <2>2. Typed(file, 0) /\ InOrder(file)
    BY <2>1 DEF Typed, InOrder
  <2> QED
    BY <2>2 DEF FileRight
<1>2. CacheRight
  <2>1. DOMAIN pages = {} /\ cache = << >>
    BY DEF Init
  <2>2. << >> \in Seq(Entry(pages)) /\ Len(<< >>) = 0
    BY EmptySeq
  <2> QED
    BY <2>1, <2>2 DEF CacheRight, Caches
<1>3. Session /\ Closed /\ Inserting /\ Looking
  <2>1. /\ open = FALSE /\ pc = "idle" /\ op = "none" /\ DOMAIN pages = {}
        /\ cache = << >>
    BY DEF Init
  <2> QED
    BY <2>1 DEF Session, Closed, Inserting, Looking
<1>4. CallType
  <2>1. Invalid \in 0..Invalid /\ 0 \in 0..Invalid /\ 0 \in Nat
    OBVIOUS
  <2> QED
    BY <2>1 DEF Init, CallType
<1> QED
  BY <1>1, <1>2, <1>3, <1>4 DEF IInv

-----------------------------------------------------------------------------
(***************************************************************************)
(* Opening, closing, and the death of the process.                         *)
(***************************************************************************)
LEMMA NothingOpen ==
  ASSUME Fits, IInv, open' = FALSE, DOMAIN pages' = {}, cache' = << >>, file' = file,
         pc' \in {"idle", "wild"}, op' = "none", CallType'
  PROVE  IInv'
<1>1. FileRight'
  BY DEF IInv, FileRight
<1>2. CacheRight'
  <2>1. << >> \in Seq(Entry(pages')) /\ Len(<< >>) = 0
    BY EmptySeq
  <2> QED
    BY <2>1, Numbers DEF CacheRight, Caches
<1>3. Session' /\ Closed' /\ Inserting' /\ Looking'
  BY DEF Session, Closed, Inserting, Looking
<1> QED
  BY <1>1, <1>2, <1>3 DEF IInv

LEMMA OpenStep == ASSUME Fits, IInv, Open, ~ holed' PROVE IInv'
<1>0. PICK m \in Nat : Typed(file, m) /\ InOrder(file)
  BY DEF IInv, FileRight
<1>1. /\ ~open /\ pc = "idle" /\ op = "none" /\ cache = << >> /\ ~HasHoles
  BY DEF IInv, Closed, Open
<1>2. /\ open' = TRUE /\ pages' = [k \in DOMAIN file |-> ReadPage(file[k])]
      /\ file' = file /\ cache' = << >> /\ UNCHANGED call
  BY <1>1 DEF Open
<1>3. NoHoles(file)
  BY <1>1 DEF HasHoles, NoHoles
<1>4. Laid(file, pages', m) /\ \A k \in 0..(m - 1) : ~pages'[k].mapped
  BY <1>0, <1>2, <1>3, LaidOpened
<1>5. Laid(file', pages', m)
  BY <1>2, <1>4
<1>6. Caches(cache', pages')
  <2>1. << >> \in Seq(Entry(pages')) /\ Len(<< >>) = 0
    BY EmptySeq
  <2>2. DOMAIN pages' = 0..(m - 1)
    BY <1>5, LaidCounts
  <2> QED
    BY <2>1, <2>2, <1>2, <1>4, Numbers DEF Caches
<1>7. n_pages' = m /\ Session'
  <2>1. Cardinality(DOMAIN pages') = m
    BY <1>5, LaidCounts
  <2> QED
    BY <2>1, <1>5 DEF n_pages, Session
<1>8. FileRight' /\ CacheRight' /\ Closed'
  BY <1>0, <1>2, <1>6 DEF FileRight, CacheRight, Closed
<1>9. Inserting' /\ Looking' /\ CallType'
  <2>1. pc' = "idle" /\ op' = "none"
    BY <1>1, <1>2 DEF call
  <2> QED
    BY <2>1, <1>2 DEF IInv, Inserting, Looking, CallType, call
<1> QED
  BY <1>7, <1>8, <1>9 DEF IInv

LEMMA OpenFailsStep == ASSUME Fits, IInv, OpenFails PROVE IInv'
<1>1. /\ open' = FALSE /\ DOMAIN pages' = {} /\ cache' = << >> /\ file' = file
      /\ pc' \in {"idle", "wild"} /\ op' = "none"
  BY DEF IInv, Closed, CallType, OpenFails, store
<1>2. CallType'
  BY <1>1 DEF IInv, CallType, OpenFails
<1> QED
  BY <1>1, <1>2, NothingOpen

LEMMA CloseStep == ASSUME Fits, IInv, Close PROVE IInv'
<1>1. /\ open' = FALSE /\ DOMAIN pages' = {} /\ cache' = << >> /\ file' = file
      /\ pc' \in {"idle", "wild"} /\ op' = "none"
  BY DEF IInv, CallType, Close, Idle, call
<1>2. CallType'
  BY <1>1 DEF IInv, CallType, Close, call
<1> QED
  BY <1>1, <1>2, NothingOpen

LEMMA CrashStep == ASSUME Fits, IInv, Crash PROVE IInv'
<1>1. /\ open' = FALSE /\ DOMAIN pages' = {} /\ cache' = << >> /\ file' = file
      /\ pc' \in {"idle", "wild"} /\ op' = "none"
  BY DEF Crash, Return
<1>2. CallType'
  BY <1>1, Returned DEF Crash
<1> QED
  BY <1>1, <1>2, NothingOpen

-----------------------------------------------------------------------------
(***************************************************************************)
(* Insertion.                                                              *)
(***************************************************************************)
LEMMA InsertStep == ASSUME Fits, IInv, NEW i \in Idx, Insert(i), ~ astray' PROVE IInv'
<1>0. /\ open /\ pc = "idle" /\ op' = "insert" /\ arg' = i /\ ans' = NoAnswer
      /\ UNCHANGED <<store, page_n, beg, end>> /\ open' = open
      /\ pc' = IF n_pages = 0 THEN "grow"
               ELSE IF pages[n_pages - 1].n_data >= RecsPerPage THEN "grow"
               ELSE "check"
  BY DEF Insert, Idle, LastPage, store
<1>1. FileRight' /\ Session' /\ CacheRight' /\ n_pages' = n_pages /\ Closed'
  BY <1>0, StoreSame
<1>2. /\ Laid(file, pages, n_pages) /\ n_pages \in Nat /\ DOMAIN pages = 0..(n_pages - 1)
      /\ pages' = pages /\ file' = file
  BY <1>0, OpenFacts DEF store
<1>3. HasPlace(i) /\ i \in 0..(IdxMod - 1) /\ i \in 0..Invalid
  <2>1. HasPlace(i)
    BY DEF Insert
  <2>2. i \in 0..(Invalid - 1) /\ i < IdxMod
    BY <2>1, IdxAssumption DEF HasPlace
  <2> QED
    BY <2>1, <2>2, Numbers
<1>4. ASSUME NEW k \in 0..(n_pages - 1)
      PROVE  /\ pages[k].n_data \in Nat /\ pages[k].n_data <= RecsPerPage
             /\ pages[k].end \in Nat
             /\ pages[k].n_data = 0 <=> pages[k].end = Invalid
  BY <1>2, PageOf, Bounds
<1>5. ASSUME StartsPage PROVE EndsBelow'
  <2>1. \A k \in 0..(n_pages - 1) : pages[k].end # Invalid => i > pages[k].end
    BY <1>5, <1>2, <1>3 DEF HasPlace, Above
  <2>2. ASSUME NEW k \in 0..(n_pages - 1), pages[k].n_data > 0 PROVE pages[k].end < i
    <3>1. pages[k].end # Invalid /\ pages[k].end \in Nat
      BY <1>4, <2>2
    <3> QED
      BY <3>1, <2>1, <1>3
  <2> QED
    BY <2>2, <1>0, <1>1, <1>2 DEF EndsBelow
<1>6. CASE n_pages = 0
  <2>1. EndsBelow'
    BY <1>6, <1>1 DEF EndsBelow
  <2>2. pc' = "grow" /\ AtGrow'
    BY <2>1, <1>6, <1>0, <1>1 DEF AtGrow
  <2>3. Inserting' /\ Looking'
    BY <2>2, <1>0, <1>3 DEF Inserting, Looking
  <2>4. CallType'
    BY <2>2, <1>0, <1>3 DEF IInv, CallType
  <2> QED
    BY <2>3, <2>4, <1>1 DEF IInv
<1>7. CASE n_pages > 0 /\ pages[n_pages - 1].n_data >= RecsPerPage
  <2>0. n_pages - 1 \in 0..(n_pages - 1)
    BY <1>2, <1>7
  <2>1. EndsBelow'
    BY <1>5, <1>7 DEF StartsPage, LastPage
  <2>2. pages[n_pages - 1].n_data = RecsPerPage
    BY <2>0, <1>4, <1>7, Numbers
  <2>3. pc' = "grow" /\ AtGrow'
    BY <2>1, <2>2, <1>7, <1>0, <1>1, <1>2 DEF AtGrow
  <2>4. Inserting' /\ Looking'
    BY <2>3, <1>0, <1>3 DEF Inserting, Looking
  <2>5. CallType'
    BY <2>3, <1>0, <1>3 DEF IInv, CallType
  <2> QED
    BY <2>4, <2>5, <1>1 DEF IInv
<1>8. CASE n_pages > 0 /\ ~(pages[n_pages - 1].n_data >= RecsPerPage)
  <2>0. n_pages - 1 \in 0..(n_pages - 1)
    BY <1>2, <1>8
  <2>1. ASSUME pages[n_pages - 1].n_data = 0 PROVE EndsBelow'
    <3>1. pages[n_pages - 1].end = Invalid
      BY <2>0, <2>1, <1>4
    <3> QED
      BY <3>1, <1>5 DEF StartsPage, LastPage
  <2>2. HasRoom'
    <3>1. pages[n_pages - 1].n_data < RecsPerPage
      BY <2>0, <1>4, <1>8, Numbers
    <3> QED
      BY <3>1, <1>8, <1>1, <1>2 DEF HasRoom
  <2>3. pc' = "check" /\ AtCheck'
    BY <2>1, <2>2, <1>8, <1>0, <1>1, <1>2 DEF AtCheck
  <2>4. Inserting' /\ Looking'
    BY <2>3, <1>0, <1>3 DEF Inserting, Looking
  <2>5. CallType'
    BY <2>3, <1>0, <1>3 DEF IInv, CallType
  <2> QED
    BY <2>4, <2>5, <1>1 DEF IInv
<1> QED
  BY <1>6, <1>7, <1>8, <1>2

LEMMA GrowStep == ASSUME Fits, IInv, Grow PROVE IInv'
<1>0. pc = "grow" /\ op = "insert" /\ open /\ AtGrow /\ arg \in 0..(IdxMod - 1)
  BY DEF IInv, Inserting, Grow
<1>1. /\ Laid(file, pages, n_pages) /\ n_pages \in Nat /\ Caches(cache, pages)
      /\ DOMAIN pages = 0..(n_pages - 1)
  BY <1>0, OpenFacts
<1>2. /\ file' = [k \in 0..n_pages |-> IF k = n_pages THEN BlankPage ELSE file[k]]
      /\ pages' = [k \in 0..n_pages |-> IF k = n_pages THEN EmptyPage ELSE pages[k]]
      /\ n_pages < MaxPages /\ open' = open /\ cache' = cache /\ pc' = "check"
      /\ UNCHANGED <<op, arg, page_n, beg, end>>
  BY DEF Grow, Extended
<1>3. n_pages > 0 => pages[n_pages - 1].n_data > 0
  BY <1>0, Numbers DEF AtGrow
<1> DEFINE n == n_pages
           m == n_pages + 1
<1>4. /\ Laid(file', pages', m)
      /\ pages'[n] = EmptyPage /\ \A k \in 0..(n - 1) : pages'[k] = pages[k]
  BY <1>1, <1>2, <1>3, LaidGrown
<1> HIDE DEF m, n
<1>5. DOMAIN pages' = 0..(m - 1) /\ m \in Nat
  BY <1>4, LaidCounts
<1>6. n \in Nat /\ m = n + 1 /\ DOMAIN pages = 0..(n - 1)
  BY <1>1 DEF n, m
<1>7. Caches(cache', pages')
  <2>1. Entry(pages) \subseteq Entry(pages')
    BY <1>5, <1>6 DEF Entry
  <2>2. cache \in Seq(Entry(pages'))
    BY <1>1, <2>1, SeqMonotonic DEF Caches
  <2>3. \A i \in 1..Len(cache) : cache[i].page_n \in 0..(n - 1)
    <3>1. \A i \in 1..Len(cache) : cache[i] \in Entry(pages)
      BY <1>1, ElementOfSeq DEF Caches
    <3> QED
      BY <3>1, <1>6 DEF Entry
  <2>4. ASSUME NEW k \in 0..(m - 1)
        PROVE  pages'[k].mapped <=> \E i \in 1..Len(cache) : cache[i].page_n = k
    <3>1. CASE k = n
      <4>1. ~pages'[k].mapped
        BY <3>1, <1>4 DEF EmptyPage
      <4>2. k \notin 0..(n - 1)
        BY <3>1, <1>6
      <4> QED
        BY <4>1, <4>2, <2>3
    <3>2. CASE k # n
      <4>1. k \in 0..(n - 1)
        BY <3>2, <1>6
      <4> QED
        BY <4>1, <1>1, <1>4, <1>6 DEF Caches
    <3> QED
      BY <3>1, <3>2
  <2> QED
    BY <2>2, <2>4, <1>1, <1>2, <1>5 DEF Caches
<1>8. FileRight' /\ Session' /\ CacheRight' /\ Closed' /\ n_pages' = m
  BY <1>0, <1>2, <1>4, <1>7, StoreNext
<1>9. AtCheck'
  <2>1. m - 1 = n /\ m > 0 /\ EmptyPage.n_data = 0
    BY <1>6 DEF EmptyPage
  <2>2. HasRoom'
    BY <2>1, <1>4, <1>8, Numbers DEF HasRoom
  <2>3. ASSUME NEW k \in 0..(m - 1), pages'[k].n_data > 0 PROVE pages'[k].end < arg
    <3>1. k # n
      BY <2>1, <2>3, <1>4
    <3>2. k \in 0..(n - 1)
      BY <3>1, <1>6
    <3> QED
      BY <3>2, <2>3, <1>0, <1>4 DEF AtGrow, EndsBelow, n
  <2>4. EndsBelow'
    BY <2>3, <1>2, <1>8 DEF EndsBelow
  <2> QED
    BY <2>2, <2>4 DEF AtCheck
<1>10. Inserting' /\ Looking' /\ CallType'
  BY <1>0, <1>2, <1>9 DEF IInv, Inserting, Looking, CallType
<1> QED
  BY <1>8, <1>10 DEF IInv

LEMMA GrowFailsStep == ASSUME Fits, IInv, GrowFails PROVE IInv'
<1>0. open /\ Return /\ UNCHANGED store /\ open' = open
  BY CallsAreOpen DEF GrowFails, store
<1>1. Inserting' /\ Looking' /\ CallType'
  BY <1>0, Returned DEF IInv, CallType
<1> QED
  BY <1>0, <1>1, StoreSame DEF IInv

LEMMA RejectStep == ASSUME Fits, IInv, Reject PROVE IInv'
<1>0. open /\ Return /\ UNCHANGED store /\ open' = open
  BY CallsAreOpen DEF Reject, store
<1>1. Inserting' /\ Looking' /\ CallType'
  BY <1>0, Returned DEF IInv, CallType
<1> QED
  BY <1>0, <1>1, StoreSame DEF IInv

\* Mapping a page leaves what the pages say, and unmaps at most the oldest.
LEMMA MappingKeeps ==
  ASSUME Fits, IInv, open, NEW k0 \in 0..(n_pages - 1), MapIfNeeded(k0),
         file' = file, open' = open
  PROVE  /\ FileRight' /\ Session' /\ CacheRight' /\ Closed' /\ n_pages' = n_pages
         /\ Remapped(pages, pages') /\ pages'[k0].mapped
         /\ DOMAIN pages = 0..(n_pages - 1)
<1>1. /\ Laid(file, pages, n_pages) /\ n_pages \in Nat /\ Caches(cache, pages)
      /\ DOMAIN pages = 0..(n_pages - 1)
      /\ pages \in [0..(n_pages - 1) -> PageType]
  BY OpenFacts
<1>2. Mapping(k0)
  BY <1>1, MapsIfNeeded
<1> DEFINE n == n_pages
<1>3. Laid(file', pages', n)
  <2>1. pages' \in [0..(n_pages - 1) -> PageType] /\ Remapped(pages, pages')
    BY <1>1, <1>2 DEF Mapping
  <2>2. Laid(file, pages', n_pages)
    BY <2>1, <1>1, LaidMapped DEF Remapped
  <2> QED
    BY <2>2
<1> HIDE DEF n
<1>4. FileRight' /\ Session' /\ CacheRight' /\ Closed' /\ n_pages' = n
  BY <1>2, <1>3, StoreNext DEF Mapping
<1> QED
  BY <1>1, <1>2, <1>4 DEF Mapping, n

LEMMA AcceptStep == ASSUME Fits, IInv, Accept PROVE IInv'
<1>0. pc = "check" /\ op = "insert" /\ open /\ AtCheck /\ arg \in 0..(IdxMod - 1)
  BY DEF IInv, Inserting, Accept
<1>1. /\ Laid(file, pages, n_pages) /\ n_pages \in Nat
      /\ n_pages > 0 /\ n_pages - 1 \in 0..(n_pages - 1)
  BY <1>0, OpenFacts DEF AtCheck, HasRoom
<1>2. /\ arg > pages[n_pages - 1].end \/ pages[n_pages - 1].end = Invalid
      /\ MapIfNeeded(n_pages - 1) /\ pc' = "record"
      /\ UNCHANGED <<open, file, op, arg, page_n, beg, end>>
  BY DEF Accept, Accepts, LastPage
<1>3. ASSUME NEW k \in 0..(n_pages - 1)
      PROVE  /\ pages[k].n_data \in Nat /\ pages[k].end \in Nat
             /\ pages[k].n_data = 0 <=> pages[k].end = Invalid
  BY <1>1, PageOf, Bounds
<1>4. EndsBelow
  <2>1. CASE pages[n_pages - 1].end = Invalid
    BY <2>1, <1>0, <1>1, <1>3 DEF AtCheck
  <2>2. CASE arg > pages[n_pages - 1].end
    <3>1. pages[n_pages - 1].end < arg
      BY <2>2, <1>0, <1>1, <1>3, Numbers
    <3>2. ASSUME NEW k \in 0..(n_pages - 1) PROVE pages[k].end < arg
      <4>1. k <= n_pages - 1
        BY <1>1
      <4>2. arg \in 0..(Invalid - 1)
        BY <1>0, Numbers
      <4> QED
        BY <4>1, <4>2, <3>1, <1>1, PagesBelow
    <3> QED
      BY <3>2 DEF EndsBelow
  <2> QED
    BY <2>1, <2>2, <1>2
<1>5. /\ FileRight' /\ Session' /\ CacheRight' /\ Closed' /\ n_pages' = n_pages
      /\ Remapped(pages, pages') /\ pages'[n_pages - 1].mapped
      /\ DOMAIN pages = 0..(n_pages - 1)
  BY <1>0, <1>1, <1>2, MappingKeeps
<1>6. AtRecord'
  <2>1. \A k \in 0..(n_pages - 1) : /\ pages'[k].n_data = pages[k].n_data
                                   /\ pages'[k].end = pages[k].end
    BY <1>5 DEF Remapped
  <2>2. EndsBelow'
    BY <2>1, <1>2, <1>4, <1>5 DEF EndsBelow
  <2>3. HasRoom'
    BY <2>1, <1>0, <1>1, <1>5 DEF AtCheck, HasRoom
  <2> QED
    BY <2>2, <2>3, <1>5 DEF AtRecord
<1>7. Inserting' /\ Looking' /\ CallType'
  BY <1>0, <1>2, <1>6 DEF IInv, Inserting, Looking, CallType
<1> QED
  BY <1>5, <1>7 DEF IInv

LEMMA WriteRecordStep == ASSUME Fits, IInv, WriteRecord PROVE IInv' /\ SameRecords(file, file')
<1>0. pc = "record" /\ op = "insert" /\ open /\ AtRecord /\ arg \in 0..(IdxMod - 1)
  BY DEF IInv, Inserting, WriteRecord
<1>1. /\ Laid(file, pages, n_pages) /\ n_pages \in Nat /\ Caches(cache, pages)
      /\ n_pages > 0 /\ pages[n_pages - 1].n_data < RecsPerPage
  BY <1>0, OpenFacts DEF AtRecord, HasRoom
<1>2. arg % IdxMod = arg
  BY <1>0, Small, Numbers
<1>3. /\ file' = [file EXCEPT ![n_pages - 1][pages[n_pages - 1].n_data].idx = arg]
      /\ pc' = "present" /\ UNCHANGED <<open, pages, cache, op, arg, page_n, beg, end>>
  BY <1>2 DEF WriteRecord, LastPage
<1> DEFINE n == n_pages
<1>4. /\ Laid(file', pages, n)
      /\ file'[n - 1][pages[n - 1].n_data].idx = arg
      /\ SameRecords(file, file')
  <2>1. IdxWritten(file, pages, n, file', arg)
    BY <1>0, <1>1, <1>3, LaidIdx
  <2> QED
    BY <2>1 DEF IdxWritten
<1> HIDE DEF n
<1>5. Laid(file', pages', n) /\ Caches(cache', pages')
  BY <1>1, <1>3, <1>4
<1>6. FileRight' /\ Session' /\ CacheRight' /\ Closed' /\ n_pages' = n
  BY <1>0, <1>3, <1>5, StoreNext
<1>7. AtPresent'
  <2>1. n_pages' = n_pages
    BY <1>6 DEF n
  <2>2. AtRecord'
    BY <2>1, <1>0, <1>3 DEF AtRecord, HasRoom, EndsBelow
  <2> QED
    BY <2>1, <2>2, <1>3, <1>4 DEF AtPresent, n
<1>8. Inserting' /\ Looking' /\ CallType'
  BY <1>0, <1>3, <1>7 DEF IInv, Inserting, Looking, CallType
<1> QED
  BY <1>4, <1>6, <1>8 DEF IInv

LEMMA CachesSame ==
  ASSUME NEW c, NEW p, NEW q, Caches(c, p), DOMAIN q = DOMAIN p,
         \A k \in DOMAIN p : q[k].mapped = p[k].mapped
  PROVE  Caches(c, q)
BY DEF Caches, Entry

LEMMA WritePresentStep ==
  ASSUME Fits, IInv, WritePresent
  PROVE  /\ IInv'
         /\ RecordAdded(file, pages, n_pages, file', pages', arg)
<1>0. pc = "present" /\ op = "insert" /\ open /\ AtPresent /\ arg \in 0..(IdxMod - 1)
  BY DEF IInv, Inserting, WritePresent
<1>1. /\ Laid(file, pages, n_pages) /\ n_pages \in Nat /\ Caches(cache, pages)
      /\ n_pages > 0 /\ pages[n_pages - 1].n_data < RecsPerPage
      /\ DOMAIN pages = 0..(n_pages - 1)
  BY <1>0, OpenFacts DEF AtPresent, AtRecord, HasRoom
<1>2. /\ file' = [file EXCEPT ![n_pages - 1][pages[n_pages - 1].n_data].present = TRUE]
      /\ pages' = [pages EXCEPT ![n_pages - 1].end = arg,
                                ![n_pages - 1].start = IF @ = Invalid THEN arg ELSE @,
                                ![n_pages - 1].n_data = (@ + 1) % CountMod]
      /\ Return /\ open' = open /\ cache' = cache
  BY DEF WritePresent, LastPage
<1>3. /\ file[n_pages - 1][pages[n_pages - 1].n_data].idx = arg
      /\ \A k \in 0..(n_pages - 1) : pages[k].n_data > 0 => pages[k].end < arg
  BY <1>0 DEF AtPresent, AtRecord, EndsBelow
<1> DEFINE n == n_pages
<1>4. RecordAdded(file, pages, n, file', pages', arg)
  BY <1>0, <1>1, <1>2, <1>3, LaidPresent
<1>5. n \in Nat /\ DOMAIN pages = 0..(n - 1)
  BY <1>1
<1> HIDE DEF n
<1>6. /\ Laid(file', pages', n) /\ pages'[n - 1].mapped = pages[n - 1].mapped
      /\ \A k \in 0..(n - 1) : k # n - 1 => pages'[k] = pages[k]
  BY <1>4 DEF RecordAdded
<1>7. Caches(cache', pages')
  <2>1. DOMAIN pages' = 0..(n - 1)
    BY <1>6, LaidCounts
  <2>2. \A k \in DOMAIN pages : pages'[k].mapped = pages[k].mapped
    BY <1>5, <1>6
  <2> QED
    BY <2>1, <2>2, <1>1, <1>2, <1>5, CachesSame
<1>8. FileRight' /\ Session' /\ CacheRight' /\ Closed' /\ n_pages' = n
  BY <1>0, <1>2, <1>6, <1>7, StoreNext
<1>9. Inserting' /\ Looking' /\ CallType'
  BY <1>0, <1>2, Returned DEF IInv, CallType
<1> QED
  BY <1>4, <1>8, <1>9 DEF IInv, n

-----------------------------------------------------------------------------
(***************************************************************************)
(* Search and deletion.                                                    *)
(***************************************************************************)
LEMMA LookStep ==
  ASSUME Fits, IInv, NEW how \in {"search", "delete"}, NEW i \in Idx, Look(how, i)
  PROVE  IInv'
<1>0. /\ open /\ pc = "idle" /\ op' = how /\ arg' = i /\ beg' = 0 /\ end' = n_pages
      /\ pc' = IF n_pages = 0 THEN "absent" ELSE "page"
      /\ UNCHANGED <<store, page_n>> /\ open' = open /\ pages' = pages /\ file' = file
  BY DEF Look, Idle, store
<1>1. FileRight' /\ Session' /\ CacheRight' /\ Closed' /\ n_pages' = n_pages
  BY <1>0, StoreSame
<1>2. Laid(file, pages, n_pages) /\ n_pages \in Nat /\ n_pages <= MaxPages
  BY <1>0, OpenFacts
<1>3. i \in 0..(Invalid - 1) /\ i \in 0..Invalid /\ n_pages \in 0..Invalid /\ 0 \in 0..Invalid
  <2>1. i \in 0..(Invalid - 1)
    BY IdxAssumption
  <2>2. n_pages <= Invalid /\ n_pages \in Nat /\ Invalid \in Nat
    BY <1>2, Numbers
  <2> QED
    BY <2>1, <2>2
<1>4. CASE n_pages = 0
  <2>1. ~Holds(file, i)
    <3>1. \A k \in 0..(n_pages - 1) : Outside(pages[k], i)
      BY <1>4
    <3> QED
      BY <3>1, <1>2, NotHeld
  <2>2. pc' = "absent"
    BY <1>0, <1>4
  <2>3. Inserting' /\ Looking'
    BY <2>1, <2>2, <1>0, <1>3 DEF Inserting, Looking
  <2>4. CallType'
    BY <2>2, <1>0, <1>3 DEF IInv, CallType
  <2> QED
    BY <2>3, <2>4, <1>1 DEF IInv
<1>5. CASE n_pages # 0
  <2>1. AtPage'
    <3>1. n_pages > 0 /\ 0 \in 0..n_pages /\ n_pages \in 0..n_pages
      BY <1>2, <1>5
    <3>2. n_pages # Invalid
      BY <1>2, Numbers
    <3>3. \A k \in 0..(n_pages - 1) : ~(k < 0) /\ ~(k > n_pages)
      BY <1>2
    <3> QED
      BY <3>1, <3>2, <3>3, <1>0, <1>1 DEF AtPage
  <2>2. pc' = "page"
    BY <1>0, <1>5
  <2>3. Inserting' /\ Looking'
    BY <2>1, <2>2, <1>0, <1>3 DEF Inserting, Looking
  <2>4. CallType'
    BY <2>2, <1>0, <1>3 DEF IInv, CallType
  <2> QED
    BY <2>3, <2>4, <1>1 DEF IInv
<1> QED
  BY <1>4, <1>5

\* A call that looks further, without a change of the store.
LEMMA Looks ==
  ASSUME Fits, IInv, pc \in {"page", "range", "slot", "absent"}, UNCHANGED <<store, op, arg>>,
         pc' \in {"page", "range", "slot", "absent", "wild"},
         page_n' \in Nat, beg' \in 0..Invalid, end' \in 0..Invalid,
         pc' = "page" => AtPage', pc' = "range" => AtRange', pc' = "slot" => AtSlot',
         pc' = "absent" => ~Holds(file, arg), pc' = "wild" => AtWild'
  PROVE  IInv'
<1>0. /\ open /\ op \in {"search", "delete"} /\ arg \in 0..(Invalid - 1)
      /\ op' = op /\ arg' = arg /\ open' = open /\ file' = file
  BY DEF IInv, Looking, store
<1>1. FileRight' /\ Session' /\ CacheRight' /\ Closed'
  BY <1>0, StoreSame
<1>2. Inserting' /\ Looking'
  BY <1>0 DEF Inserting, Looking
<1>3. CallType'
  BY <1>0 DEF IInv, CallType
<1> QED
  BY <1>1, <1>2, <1>3 DEF IInv

LEMMA Halves ==
  ASSUME NEW b \in Nat, NEW e \in Nat, NEW n \in Nat, b <= n, e <= n
  PROVE  /\ (e + b) \div 2 \in 0..n
         /\ b <= e => b <= (e + b) \div 2 /\ (e + b) \div 2 <= e
         /\ (e + b) \div 2 = n => b = n
OBVIOUS

LEMMA SearchPageStep == ASSUME Fits, IInv, SearchPage PROVE IInv'
<1>0. /\ pc = "page" /\ open /\ AtPage /\ arg \in 0..(Invalid - 1)
      /\ UNCHANGED <<store, op, arg>> /\ pages' = pages /\ file' = file
  BY DEF IInv, Looking, SearchPage, store
<1>1. /\ Laid(file, pages, n_pages) /\ n_pages \in Nat /\ n_pages <= MaxPages
      /\ DOMAIN pages = 0..(n_pages - 1)
  BY <1>0, OpenFacts
<1>2. n_pages' = n_pages
  BY <1>0 DEF n_pages
<1>3. beg <= end /\ end # Invalid /\ beg \in 0..n_pages /\ end \in 0..n_pages
  BY <1>0 DEF SearchPage, PageLoop, AtPage
<1>4. Mid \in 0..n_pages /\ beg <= Mid /\ Mid <= end
  BY <1>1, <1>3, Halves DEF Mid
<1>5. \A x \in 0..n_pages : x \in 0..Invalid
  BY <1>1, Numbers
<1>6. page_n \in Nat /\ beg \in 0..Invalid /\ end \in 0..Invalid
  BY DEF IInv, CallType
<1>7. CASE Mid \notin DOMAIN pages
  <2>1. pc' = "wild" /\ UNCHANGED <<beg, end, page_n>>
    BY <1>7 DEF SearchPage
  <2>2. beg = n_pages
    <3>1. Mid = n_pages
      BY <1>7, <1>1, <1>4
    <3> QED
      BY <3>1, <1>1, <1>3, Halves DEF Mid
  <2>3. n_pages > 0 /\ n_pages - 1 \in 0..(n_pages - 1) /\ n_pages - 1 < beg
    BY <2>2, <1>0, <1>1 DEF AtPage
  <2>4. AtWild'
    BY <2>3, <1>0, <1>2 DEF AtPage, AtWild
  <2> QED
    BY <2>1, <2>4, <1>0, <1>6, Looks
<1>8. CASE Mid \in DOMAIN pages /\ arg < pages[Mid].start
  <2>1. end' = Below(Mid) /\ UNCHANGED <<pc, beg, page_n>>
    BY <1>8 DEF SearchPage
  <2>2. Mid \in 0..(n_pages - 1)
    BY <1>8, <1>1
  <2>3. \A k \in 0..(n_pages - 1) : k >= Mid => arg < pages[k].start
    BY <2>2, <1>0, <1>1, <1>8, PagesAbove
  <2>4. end' = Invalid \/ (end' = Mid - 1 /\ end' \in 0..n_pages)
    BY <2>1, <2>2, <1>1 DEF Below
  <2>5. \A k \in 0..(n_pages - 1) : end' = Invalid \/ k > end' => arg < pages[k].start
    <3>1. CASE Mid = 0
      BY <3>1, <2>3
    <3>2. CASE Mid # 0
      <4>1. end' = Mid - 1 /\ end' # Invalid
        BY <3>2, <2>1, <2>2, <1>1, Numbers DEF Below
      <4> QED
        BY <4>1, <2>2, <2>3
    <3> QED
      BY <3>1, <3>2
  <2>6. AtPage'
    BY <2>1, <2>4, <2>5, <1>0, <1>2 DEF AtPage
  <2>7. end' \in 0..Invalid
    BY <2>4, <1>5, Numbers
  <2> QED
    BY <2>1, <2>6, <2>7, <1>0, <1>6, Looks
<1>9. CASE Mid \in DOMAIN pages /\ ~(arg < pages[Mid].start) /\ arg > pages[Mid].end
  <2>1. beg' = Mid + 1 /\ UNCHANGED <<pc, end, page_n>>
    BY <1>9 DEF SearchPage
  <2>2. Mid \in 0..(n_pages - 1)
    BY <1>9, <1>1
  <2>3. pages[Mid].end < arg
    BY <2>2, <1>0, <1>1, <1>9, PageOf, Bounds, Numbers
  <2>4. \A k \in 0..(n_pages - 1) : k <= Mid => pages[k].end < arg
    BY <2>2, <2>3, <1>0, <1>1, PagesBelow
  <2>5. beg' \in 0..n_pages
    BY <2>1, <2>2, <1>1
  <2>6. \A k \in 0..(n_pages - 1) : k < beg' => pages[k].end < arg
    BY <2>1, <2>2, <2>4, <1>1
  <2>7. AtPage'
    BY <2>1, <2>5, <2>6, <1>0, <1>2 DEF AtPage
  <2> QED
    BY <2>1, <2>5, <2>7, <1>0, <1>5, <1>6, Looks
<1>10. CASE Mid \in DOMAIN pages /\ ~(arg < pages[Mid].start) /\ ~(arg > pages[Mid].end)
  <2>1. pc' = "range" /\ page_n' = Mid /\ UNCHANGED <<beg, end>>
    BY <1>10 DEF SearchPage
  <2>2. Mid \in 0..(n_pages - 1) /\ Mid \in Nat
    BY <1>10, <1>1
  <2>3. pages[Mid].start \in Nat /\ pages[Mid].end \in Nat
    BY <2>2, <1>1, PageOf, Bounds
  <2>4. pages[Mid].start <= arg /\ arg <= pages[Mid].end
    BY <2>3, <1>0, <1>10, Numbers
  <2>5. AtRange'
    BY <2>1, <2>2, <2>4, <1>0, <1>2 DEF AtRange, InRange
  <2> QED
    BY <2>1, <2>2, <2>5, <1>0, <1>6, Looks
<1> QED
  BY <1>7, <1>8, <1>9, <1>10

LEMMA PageFoundStep == ASSUME Fits, IInv, PageFound PROVE IInv'
<1>0. /\ pc = "page" /\ open /\ AtPage /\ arg \in 0..(Invalid - 1)
      /\ UNCHANGED <<store, op, arg, beg, end>> /\ pages' = pages /\ file' = file
      /\ page_n' = beg /\ pc' = IF beg \in DOMAIN pages THEN "range" ELSE "wild"
  BY DEF IInv, Looking, PageFound, store
<1>1. /\ Laid(file, pages, n_pages) /\ n_pages \in Nat
      /\ DOMAIN pages = 0..(n_pages - 1)
  BY <1>0, OpenFacts
<1>2. n_pages' = n_pages
  BY <1>0 DEF n_pages
<1>3. beg \in 0..n_pages /\ beg \in Nat /\ beg \in 0..Invalid /\ end \in 0..Invalid
  BY <1>0 DEF IInv, CallType, AtPage
<1>4. CASE beg \in DOMAIN pages
  <2>1. ASSUME NEW k \in 0..(n_pages - 1) PROVE Outside(pages[k], arg)
    <3>1. k < beg \/ end = Invalid \/ k > end
      BY <1>0, <1>1, <1>3 DEF PageFound, PageLoop
    <3>2. pages[k].end < arg \/ arg < pages[k].start
      BY <3>1, <1>0 DEF AtPage
    <3>3. pages[k].end \in Nat /\ pages[k].start \in Nat
      BY <1>1, PageOf, Bounds
    <3> QED
      BY <3>2, <3>3, <1>0, Numbers DEF Outside
  <2>2. pc' = "range" /\ AtRange'
    BY <2>1, <1>0, <1>1, <1>2, <1>4 DEF AtRange, Outside
  <2> QED
    BY <2>2, <1>0, <1>3, Looks
<1>5. CASE beg \notin DOMAIN pages
  <2>1. beg = n_pages
    BY <1>1, <1>3, <1>5
  <2>2. n_pages > 0 /\ n_pages - 1 \in 0..(n_pages - 1) /\ n_pages - 1 < beg
    BY <2>1, <1>0, <1>1 DEF AtPage
  <2>3. pc' = "wild" /\ AtWild'
    BY <2>2, <1>0, <1>2, <1>5 DEF AtPage, AtWild
  <2> QED
    BY <2>3, <1>0, <1>3, Looks
<1> QED
  BY <1>4, <1>5

LEMMA OutOfRangeStep == ASSUME Fits, IInv, OutOfRange PROVE IInv'
<1>0. /\ pc = "range" /\ open /\ AtRange /\ ~InRange(pages[page_n])
      /\ UNCHANGED <<store, op, arg, page_n, beg, end>> /\ pc' = "absent"
  BY DEF IInv, Looking, OutOfRange
<1>1. Laid(file, pages, n_pages)
  BY <1>0, OpenFacts
<1>2. ~Holds(file, arg)
  BY <1>0, <1>1, NotHeld DEF AtRange
<1>3. page_n \in Nat /\ beg \in 0..Invalid /\ end \in 0..Invalid
  BY DEF IInv, CallType
<1> QED
  BY <1>0, <1>2, <1>3, Looks

LEMMA EnterPageStep == ASSUME Fits, IInv, EnterPage PROVE IInv'
<1>0. /\ pc = "range" /\ open /\ AtRange /\ InRange(pages[page_n])
      /\ op \in {"search", "delete"} /\ arg \in 0..(Invalid - 1)
      /\ MapIfNeeded(page_n) /\ UNCHANGED <<open, file, op, arg, page_n>>
      /\ beg' = 0 /\ end' = Below(pages[page_n].n_data) /\ pc' = "slot"
  BY DEF IInv, Looking, EnterPage
<1>1. Laid(file, pages, n_pages) /\ n_pages \in Nat /\ page_n \in 0..(n_pages - 1)
  BY <1>0, OpenFacts DEF AtRange
<1> DEFINE d == pages[page_n].n_data
<1>2. /\ pages[page_n] \in PageType /\ file[page_n] \in [Slots -> Record]
      /\ Describes(pages[page_n], file[page_n])
  BY <1>1, PageOf
<1>3. d \in Nat /\ d > 0 /\ d <= RecsPerPage
  <2>1. d \in Nat /\ d <= RecsPerPage
    BY <1>2, Bounds
  <2>2. d = 0 => pages[page_n].start = Invalid
    BY <1>2 DEF Describes
  <2>3. ~(arg >= Invalid)
    BY <1>0, Numbers
  <2> QED
    BY <2>1, <2>2, <2>3, <1>0 DEF InRange
<1>4. end' = d - 1
  BY <1>0, <1>3 DEF Below
<1>5. /\ FileRight' /\ Session' /\ CacheRight' /\ Closed' /\ n_pages' = n_pages
      /\ Remapped(pages, pages') /\ pages'[page_n].mapped
      /\ DOMAIN pages = 0..(n_pages - 1)
  BY <1>0, <1>1, MappingKeeps
<1>6. /\ pages'[page_n].n_data = d /\ pages'[page_n].start = pages[page_n].start
      /\ pages'[page_n].end = pages[page_n].end
  BY <1>1, <1>5 DEF Remapped
<1> HIDE DEF d
<1>7. AtSlot'
  <2>1. 0 \in 0..(d - 1) /\ d - 1 \in 0..(d - 1)
    BY <1>3
  <2>2. \A j \in Slots : ~(j < 0) /\ ~(j > d - 1 /\ j < d)
    BY <1>3, SlotsAre, Numbers
  <2>3. arg <= pages'[page_n].end /\ arg >= pages'[page_n].start
    BY <1>0, <1>6 DEF InRange
  <2> QED
    BY <2>1, <2>2, <2>3, <1>0, <1>1, <1>4, <1>5, <1>6 DEF AtSlot, InRange
<1>8. Inserting' /\ Looking'
  BY <1>0, <1>7 DEF Inserting, Looking
<1>9. CallType'
  <2>1. d - 1 \in 0..Invalid /\ 0 \in 0..Invalid
    BY <1>3, Numbers
  <2> QED
    BY <2>1, <1>0, <1>4 DEF IInv, CallType
<1> QED
  BY <1>5, <1>8, <1>9 DEF IInv

\* What a search in a page knows at every iteration.
SlotFacts(n) ==
    /\ open /\ arg \in 0..(Invalid - 1) /\ arg \in Nat
    /\ Laid(file, pages, n_pages) /\ n_pages \in Nat
    /\ page_n \in 0..(n_pages - 1) /\ page_n \in Nat
    /\ pages[page_n] \in PageType /\ file[page_n] \in [Slots -> Record]
    /\ Describes(pages[page_n], file[page_n]) /\ InRange(pages[page_n])
    /\ n = pages[page_n].n_data /\ n \in Nat /\ n > 0 /\ n <= RecsPerPage
    /\ beg \in 0..(n - 1) /\ end \in 0..(n - 1)
    /\ Mid \in 0..(n - 1) /\ \A j \in 0..(n - 1) : j \in Slots
    /\ pages[page_n].start = file[page_n][0].idx
    /\ pages[page_n].end = file[page_n][n - 1].idx

LEMMA InSlots ==
  ASSUME Fits, IInv, pc = "slot", NEW n, n = pages[page_n].n_data
  PROVE  AtSlot /\ SlotFacts(n)
<1>0. open /\ AtSlot /\ arg \in 0..(Invalid - 1) /\ arg \in Nat
  BY Numbers DEF IInv, Looking
<1>1. /\ Laid(file, pages, n_pages) /\ n_pages \in Nat
      /\ page_n \in 0..(n_pages - 1) /\ page_n \in Nat
  BY <1>0, OpenFacts DEF AtSlot
<1>2. /\ pages[page_n] \in PageType /\ file[page_n] \in [Slots -> Record]
      /\ Describes(pages[page_n], file[page_n])
  BY <1>1, PageOf
<1>3. beg \in 0..(n - 1) /\ end \in 0..(n - 1) /\ InRange(pages[page_n])
  BY <1>0 DEF AtSlot
<1>4. n \in Nat /\ n <= RecsPerPage
  BY <1>2, Bounds
<1>5. n > 0
  BY <1>3, <1>4
<1>6. Mid \in 0..(n - 1)
  <2>1. n - 1 \in Nat /\ beg \in Nat /\ end \in Nat /\ beg <= n - 1 /\ end <= n - 1
    BY <1>3, <1>4, <1>5
  <2> QED
    BY <2>1, Halves DEF Mid
<1>7. \A j \in 0..(n - 1) : j \in Slots
  BY <1>4, SlotsAre, Numbers
<1>8. /\ pages[page_n].start = file[page_n][0].idx
      /\ pages[page_n].end = file[page_n][n - 1].idx
  BY <1>2, <1>5 DEF Describes
<1> QED
  BY <1>0, <1>1, <1>2, <1>3, <1>4, <1>5, <1>6, <1>7, <1>8 DEF SlotFacts

LEMMA SlotNext ==
  ASSUME Fits, IInv, pc = "slot", pc' = "slot", UNCHANGED <<store, op, arg, page_n>>,
         NEW n, n = pages[page_n].n_data, beg' \in 0..(n - 1), end' \in 0..(n - 1),
         \A j \in Slots : j < beg' => file[page_n][j].idx < arg,
         \A j \in Slots : j > end' /\ j < n => arg < file[page_n][j].idx
  PROVE  IInv'
<1>1. AtSlot /\ SlotFacts(n)
  BY InSlots
<1>2. AtSlot'
  BY <1>1 DEF AtSlot, InRange, n_pages, store
<1>3. beg' \in 0..Invalid /\ end' \in 0..Invalid /\ page_n' \in Nat
  BY <1>1, Numbers DEF SlotFacts
<1> QED
  BY <1>2, <1>3, Looks

LEMMA SearchSlotStep == ASSUME Fits, IInv, SearchSlot PROVE IInv'
<1> DEFINE n == pages[page_n].n_data
           s == file[page_n]
<1>1. pc = "slot" /\ SlotFacts(n) /\ AtSlot /\ UNCHANGED <<store, op, arg, page_n>>
  BY InSlots DEF SearchSlot
<1>2. /\ Mid \in 0..(n - 1) /\ Mid \in Slots /\ Mid \in Nat /\ n \in Nat
      /\ arg \in Nat /\ 0 \in Slots /\ n - 1 \in Slots /\ n - 1 < n
      /\ s[0].idx <= arg /\ arg <= s[n - 1].idx
  <2>1. \A x \in 0..(n - 1) : x \in Slots
    BY <1>1 DEF SlotFacts
  <2>2. Mid \in 0..(n - 1) /\ n \in Nat /\ n > 0 /\ arg \in Nat
    BY <1>1 DEF SlotFacts
  <2>3. arg >= s[0].idx /\ arg <= s[n - 1].idx
    BY <1>1 DEF SlotFacts, InRange
  <2>4. s[0].idx \in Nat
    BY <1>1, SlotsAre, RecordOf DEF SlotFacts
  <2> HIDE DEF n, s
  <2>5. Mid \in Nat /\ 0 \in 0..(n - 1) /\ n - 1 \in 0..(n - 1) /\ n - 1 < n
    BY <2>2
  <2>6. s[0].idx <= arg
    BY <2>2, <2>3, <2>4
  <2> QED
    BY <2>1, <2>2, <2>3, <2>5, <2>6
<1>3. ASSUME NEW j \in Slots PROVE s[j].idx \in Nat /\ j \in Nat
  <2>1. s[j].idx \in Nat
    BY <1>1, RecordOf DEF SlotFacts
  <2> QED
    BY <2>1, SlotsAre
<1>4. ASSUME NEW i \in Slots, NEW j \in Slots, i <= j, j < n PROVE s[i].idx <= s[j].idx
  BY <1>1, <1>4, SlotsAscend DEF SlotFacts
<1>5. /\ beg \in 0..(n - 1) /\ end \in 0..(n - 1)
      /\ \A j \in Slots : j < beg => s[j].idx < arg
      /\ \A j \in Slots : j > end /\ j < n => arg < s[j].idx
  BY <1>1 DEF AtSlot
<1> HIDE DEF s, n
<1>6. CASE arg < s[Mid].idx
  <2>1. end' = Below(Mid) /\ UNCHANGED <<pc, beg>>
    BY <1>2, <1>6 DEF SearchSlot, s
  <2>2. Mid # 0
    BY <1>2, <1>3, <1>6
  <2>3. end' = Mid - 1 /\ end' \in 0..(n - 1)
    BY <1>2, <2>1, <2>2 DEF Below
  <2>4. ASSUME NEW j \in Slots, j > end', j < n PROVE arg < s[j].idx
    <3>1. Mid <= j
      BY <2>3, <2>4, <1>2, <1>3
    <3>2. s[Mid].idx <= s[j].idx
      BY <3>1, <2>4, <1>2, <1>4
    <3> QED
      BY <3>2, <1>2, <1>3, <1>6
  <2> QED
    BY <2>1, <2>3, <2>4, <1>1, <1>5, SlotNext DEF n, s
<1>7. CASE ~(arg < s[Mid].idx) /\ arg > s[Mid].idx
  <2>1. beg' = Mid + 1 /\ UNCHANGED <<pc, end>>
    BY <1>2, <1>7 DEF SearchSlot, s, UpperHalf
  <2>2. Mid # n - 1
    BY <1>2, <1>3, <1>7
  <2>3. beg' \in 0..(n - 1)
    BY <1>2, <2>1, <2>2
  <2>4. ASSUME NEW j \in Slots, j < beg' PROVE s[j].idx < arg
    <3>1. j <= Mid /\ Mid < n
      <4>1. j < Mid + 1 /\ j \in Nat
        BY <2>1, <2>4, <1>3
      <4>2. Mid \in Nat /\ Mid <= n - 1 /\ n \in Nat
        BY <1>2
      <4> QED
        BY <4>1, <4>2
    <3>2. s[j].idx <= s[Mid].idx
      BY <3>1, <1>2, <1>4
    <3> QED
      BY <3>2, <1>2, <1>3, <1>7
  <2> QED
    BY <2>1, <2>3, <2>4, <1>1, <1>5, SlotNext DEF n, s
<1>8. CASE ~(arg < s[Mid].idx) /\ ~(arg > s[Mid].idx)
  <2>1. beg' = Mid /\ end' = Mid /\ pc' = pc
    BY <1>2, <1>8 DEF SearchSlot, s
  <2>2. s[Mid].idx = arg
    BY <1>2, <1>3, <1>8
  <2>3. \A i, j \in Slots : i < j /\ j < n => s[i].idx < s[j].idx
    BY <1>1 DEF SlotFacts, Describes, n, s
  <2>4. Mid < n
    BY <1>2
  <2>5. \A j \in Slots : j < Mid => s[j].idx < arg
    BY <2>2, <2>3, <2>4, <1>2
  <2>6. \A j \in Slots : j > Mid /\ j < n => arg < s[j].idx
    BY <2>2, <2>3, <1>2, <1>3
  <2> QED
    BY <2>1, <2>5, <2>6, <1>1, <1>2, SlotNext DEF n, s
<1> QED
  BY <1>6, <1>7, <1>8

\* The search ended: a record of the index, if there is one, is in slot beg.
LEMMA SearchEnds ==
  ASSUME Fits, IInv, pc = "slot", beg = end,
         NEW k \in 0..(n_pages - 1), NEW j \in Slots,
         file[k][j].present, file[k][j].idx = arg
  PROVE  k = page_n /\ j = beg
<1> DEFINE n == pages[page_n].n_data
<1>1. SlotFacts(n) /\ AtSlot
  BY InSlots
<1>2. /\ Laid(file, pages, n_pages) /\ page_n \in 0..(n_pages - 1) /\ arg \in Nat
      /\ InRange(pages[page_n])
  BY <1>1 DEF SlotFacts
<1>3. pages[page_n].start \in Nat /\ pages[page_n].end \in Nat
  BY <1>2, PageOf, Bounds
<1>4. k = page_n
  <2>1. pages[page_n].start <= arg /\ arg <= pages[page_n].end
    BY <1>2, <1>3 DEF InRange
  <2> QED
    BY <2>1, <1>2, OnlyThere
<1>5. j < n
  BY <1>2, <1>4, HeldWithin
<1>6. ~(j < beg)
  <2>1. j < beg => file[page_n][j].idx < arg
    BY <1>1 DEF AtSlot
  <2> QED
    BY <2>1, <1>2, <1>4
<1>7. ~(j > beg)
  <2>1. j > end /\ j < n => arg < file[page_n][j].idx
    BY <1>1 DEF AtSlot
  <2> QED
    BY <2>1, <1>2, <1>4, <1>5
<1>8. j \in Nat /\ beg \in Nat
  <2>1. beg \in 0..(n - 1) /\ n \in Nat
    BY <1>1 DEF SlotFacts
  <2> QED
    BY <2>1, SlotsAre
<1> QED
  BY <1>4, <1>6, <1>7, <1>8

LEMMA SlotMissStep == ASSUME Fits, IInv, SlotMiss PROVE IInv'
<1> DEFINE n == pages[page_n].n_data
<1>1. /\ pc = "slot" /\ beg = end /\ ~Hit /\ UNCHANGED <<store, op, arg, page_n, beg, end>>
      /\ SlotFacts(n)
  BY InSlots DEF SlotMiss
<1>2. beg \in Slots /\ pc' = "absent"
  BY <1>1 DEF SlotMiss, SlotFacts
<1>3. DOMAIN file = 0..(n_pages - 1)
  BY <1>1, OpenFacts DEF SlotFacts
<1>4. ~Holds(file, arg)
  <2>1. SUFFICES ASSUME NEW k \in 0..(n_pages - 1), NEW j \in Slots,
                        file[k][j].present, file[k][j].idx = arg
                 PROVE  FALSE
    BY <1>3 DEF Holds
  <2>2. k = page_n /\ j = beg
    BY <2>1, <1>1, SearchEnds
  <2> QED
    BY <2>1, <2>2, <1>1 DEF Hit
<1>5. page_n \in Nat /\ beg \in 0..Invalid /\ end \in 0..Invalid
  BY DEF IInv, CallType
<1> QED
  BY <1>1, <1>2, <1>4, <1>5, Looks

LEMMA AbsentStep == ASSUME Fits, IInv, Absent PROVE IInv' /\ ~Holds(file, arg)
<1>0. open /\ Return /\ UNCHANGED store /\ open' = open
  BY CallsAreOpen DEF Absent, store
<1>1. Inserting' /\ Looking' /\ CallType'
  BY <1>0, Returned DEF IInv, CallType
<1>2. ~Holds(file, arg)
  BY DEF IInv, Looking, Absent
<1> QED
  BY <1>0, <1>1, <1>2, StoreSame DEF IInv

\* A record that is deleted.
Deleted(f, f2, n, k, j) == Put(f, f2, n, k, j, [present |-> FALSE, idx |-> f[k][j].idx])

LEMMA FoundStep ==
  ASSUME Fits, IInv, Found
  PROVE  /\ IInv'
         /\ file[page_n][beg].present /\ file[page_n][beg].idx = arg
         /\ op = "delete" => Deleted(file, file', n_pages, page_n, beg)
         /\ op # "delete" => file' = file
<1> DEFINE d == pages[page_n].n_data
           n == n_pages
<1>1. SlotFacts(d)
  BY InSlots DEF Found
<1>2. /\ Laid(file, pages, n_pages) /\ Caches(cache, pages) /\ open
      /\ page_n \in 0..(n_pages - 1)
  BY <1>1, OpenFacts DEF SlotFacts
<1>3. /\ Return /\ UNCHANGED <<open, pages, cache>> /\ beg \in Slots
      /\ file[page_n][beg].present /\ file[page_n][beg].idx = arg
      /\ file' = IF op = "delete" THEN [file EXCEPT ![page_n][beg].present = FALSE]
                 ELSE file
  BY DEF Found, Hit
<1>4. /\ Laid(file', pages, n_pages)
      /\ op = "delete" => Deleted(file, file', n_pages, page_n, beg)
      /\ op # "delete" => file' = file
  <2>1. CASE op = "delete"
    BY <2>1, <1>2, <1>3, LaidDeleted DEF Deleted
  <2>2. CASE op # "delete"
    BY <2>2, <1>2, <1>3
  <2> QED
    BY <2>1, <2>2
<1>5. Laid(file', pages', n) /\ Caches(cache', pages')
  BY <1>2, <1>3, <1>4
<1> HIDE DEF n
<1>6. FileRight' /\ Session' /\ CacheRight' /\ Closed' /\ n_pages' = n
  BY <1>2, <1>3, <1>5, StoreNext
<1>7. Inserting' /\ Looking' /\ CallType'
  BY <1>2, <1>3, Returned DEF IInv, CallType
<1> QED
  BY <1>3, <1>4, <1>6, <1>7 DEF IInv

LEMMA StutterStep == ASSUME IInv, UNCHANGED vars PROVE IInv'
<1>1. UNCHANGED <<open, file, pages, cache, pc, op, arg, page_n, beg, end, ans>>
  BY DEF vars, store, call
<1>2. n_pages' = n_pages
  BY <1>1 DEF n_pages
<1>3. FileRight' /\ Session' /\ CacheRight' /\ Closed'
  BY <1>1, <1>2 DEF IInv, FileRight, Session, CacheRight, Closed
<1>4. Inserting'
  BY <1>1, <1>2 DEF IInv, Inserting, AtGrow, AtCheck, AtRecord, AtPresent, HasRoom,
                   EndsBelow
<1>5. Looking'
  BY <1>1, <1>2 DEF IInv, Looking, AtPage, AtRange, AtSlot, AtWild, InRange
<1>6. CallType'
  BY <1>1 DEF IInv, CallType
<1> QED
  BY <1>3, <1>4, <1>5, <1>6 DEF IInv

\* Every step of a call under way preserves the invariant.
LEMMA ContinueStep == ASSUME Fits, IInv, Continue PROVE IInv'
BY GrowStep, GrowFailsStep, RejectStep, AcceptStep, WriteRecordStep, WritePresentStep,
   SearchPageStep, PageFoundStep, OutOfRangeStep, EnterPageStep, SearchSlotStep,
   SlotMissStep, AbsentStep, FoundStep DEF Continue

\* What has gone astray, or was opened with holes, stays so.
LEMMA SoundBefore == ASSUME [Next]_vars, Sound' PROVE Sound
<1>1. CASE Open
  BY <1>1 DEF Open, Sound
<1>2. ASSUME NEW i \in Idx, Insert(i) PROVE Sound
  BY <1>2 DEF Insert, Sound
<1>3. ASSUME UNCHANGED history PROVE Sound
  BY <1>3 DEF history, Sound
<1>4. CASE OpenFails \/ Close \/ Crash
  BY <1>3, <1>4 DEF OpenFails, Close, Crash
<1>5. ASSUME NEW i \in Idx, Look("search", i) \/ Look("delete", i) PROVE Sound
  BY <1>3, <1>5 DEF Look
<1>6. CASE Continue
  BY <1>3, <1>6 DEF Continue, Grow, GrowFails, Reject, Accept, WriteRecord, WritePresent,
     SearchPage, PageFound, OutOfRange, EnterPage, SearchSlot, SlotMiss, Absent, Found
<1>7. CASE UNCHANGED vars
  BY <1>3, <1>7 DEF vars
<1> QED
  BY <1>1, <1>2, <1>4, <1>5, <1>6, <1>7 DEF Next

\* Every step preserves the invariant, unless it is the one after which the order
\* is not sound.
LEMMA NextIInv == ASSUME Fits, IInv, [Next]_vars, Sound' PROVE IInv'
<1>1. CASE Open \/ OpenFails \/ Close \/ Crash
  BY <1>1, OpenStep, OpenFailsStep, CloseStep, CrashStep DEF Sound
<1>2. ASSUME NEW i \in Idx, Insert(i) \/ Look("search", i) \/ Look("delete", i)
      PROVE  IInv'
  BY <1>2, InsertStep, LookStep DEF Sound
<1>3. CASE Continue
  BY <1>3, ContinueStep
<1>4. CASE UNCHANGED vars
  BY <1>4, StutterStep
<1> QED
  BY <1>1, <1>2, <1>3, <1>4 DEF Next

\* The invariant holds until an index goes astray or a file with holes is opened.
SoundIInv == Sound => IInv
THEOREM InvariantHolds == ASSUME Fits PROVE Spec => []SoundIInv
<1>1. Init => SoundIInv
  BY InitIInv DEF SoundIInv
<1>2. SoundIInv /\ [Next]_vars => SoundIInv'
  BY NextIInv, SoundBefore DEF SoundIInv
<1> QED
  BY <1>1, <1>2, PTL DEF Spec

-----------------------------------------------------------------------------
(***************************************************************************)
(* What holds in any order of the records: the kinds of the values, the    *)
(* cache of mappings, and where in the store a call is.                    *)
(***************************************************************************)
PagesKind == open => Typed(file, n_pages) /\ pages \in [0..(n_pages - 1) -> PageType]

CallAt == /\ pc \in {"check", "record", "present"} => HasRoom
          /\ pc \in {"record", "present"} => pages[n_pages - 1].mapped
          /\ pc = "present" => file[n_pages - 1][pages[n_pages - 1].n_data].idx = arg % IdxMod
          /\ pc = "page" => beg \in 0..n_pages /\ (end \in 0..n_pages \/ end = Invalid)
          /\ pc \in {"range", "slot"} => page_n \in 0..(n_pages - 1)
          /\ pc = "slot" => pages[page_n].mapped

Kinds == /\ (\E m \in Nat : Typed(file, m)) /\ PagesKind /\ CacheRight /\ Closed
         /\ CallType /\ CallAt /\ holed \in BOOLEAN /\ astray \in BOOLEAN

LEMMA KindsFacts ==
  ASSUME Fits, Kinds, open
  PROVE  /\ n_pages \in Nat /\ n_pages <= MaxPages /\ Typed(file, n_pages)
         /\ pages \in [0..(n_pages - 1) -> PageType] /\ DOMAIN pages = 0..(n_pages - 1)
         /\ DOMAIN file = 0..(n_pages - 1) /\ Caches(cache, pages)
BY Numbers DEF Kinds, PagesKind, Typed, CacheRight

LEMMA KindsOpen == ASSUME Kinds, pc \notin {"idle", "wild"} PROVE open
BY DEF Kinds, Closed

LEMMA KindsReturn ==
  ASSUME Fits, Return, open' \in BOOLEAN
  PROVE  CallType' /\ CallAt'
<1>1. CallType'
  BY Returned
<1> QED
  BY <1>1 DEF Return, CallAt

\* A step that leaves the store.
LEMMA KindsStore ==
  ASSUME Kinds, UNCHANGED store, open
  PROVE  /\ \E m \in Nat : Typed(file', m)
         /\ PagesKind' /\ CacheRight' /\ Closed' /\ n_pages' = n_pages
BY DEF Kinds, PagesKind, CacheRight, Closed, n_pages, store

\* A step that changes the pages, and leaves n of them.
LEMMA KindsNext ==
  ASSUME Fits, NEW n, Typed(file', n), pages' \in [0..(n - 1) -> PageType],
         Caches(cache', pages'), open' = TRUE
  PROVE  /\ \E m \in Nat : Typed(file', m)
         /\ PagesKind' /\ CacheRight' /\ Closed' /\ n_pages' = n
<1>1. n \in Nat
  BY Numbers DEF Typed
<1>2. n_pages' = n
  BY <1>1, Counts DEF n_pages
<1> QED
  BY <1>1, <1>2 DEF PagesKind, CacheRight, Closed

LEMMA InitKinds == ASSUME Fits, Init PROVE Kinds
<1>1. IInv
  BY InitIInv
<1>2. open = FALSE /\ pc = "idle" /\ holed = FALSE /\ astray = FALSE
  BY DEF Init
<1>3. \E m \in Nat : Typed(file, m)
  BY <1>1 DEF IInv, FileRight
<1> QED
  BY <1>1, <1>2, <1>3 DEF IInv, Kinds, PagesKind, CallAt

\* A step after which nothing is open.
LEMMA KindsShut ==
  ASSUME Fits, Kinds, open' = FALSE, DOMAIN pages' = {}, cache' = << >>, file' = file,
         pc' \in {"idle", "wild"}, op' = "none", CallType', UNCHANGED history
  PROVE  Kinds'
<1>1. CacheRight'
  <2>1. << >> \in Seq(Entry(pages')) /\ Len(<< >>) = 0
    BY EmptySeq
  <2> QED
    BY <2>1, Numbers DEF CacheRight, Caches
<1> QED
  BY <1>1 DEF Kinds, PagesKind, Closed, CallAt, history

\* What mmp_barray_create reads of a page, whatever its slots hold.
LEMMA ReadPageKind ==
  ASSUME Fits, NEW s \in [Slots -> Record]
  PROVE  ReadPage(s) \in PageType /\ ~ReadPage(s).mapped
<1> USE Numbers, SlotsAre
<1> DEFINE P == {j \in Slots : s[j].present}
           n == RecsPerPage - 1
<1>0. n \in Nat /\ P \in SUBSET (0..n) /\ P \in SUBSET Nat /\ P \in SUBSET Slots
  OBVIOUS
<1>1. CASE P = {}
  <2>1. ReadPage(s) = EmptyPage
    BY <1>1 DEF ReadPage
  <2> QED
    BY <2>1 DEF EmptyPage, PageType
<1>2. CASE P # {}
  <2>1. Max(P) \in P
    <3>1. \E m \in P : \A j \in P : m >= j
      BY <1>0, <1>2, Greatest
    <3> HIDE DEF P
    <3> QED
      BY <3>1 DEF Max
  <2>2. Min(P) \in P
    <3>1. PICK m \in P : \A j \in P : m <= j
      BY <1>0, <1>2, Least
    <3> HIDE DEF P
    <3> QED
      BY <3>1 DEF Min
  <2>3. Cardinality(P) \in 0..RecsPerPage
    <3>1. IsFiniteSet(0..n) /\ Cardinality(0..n) = n + 1
      BY <1>0, FS_Interval
    <3>2. IsFiniteSet(P) /\ Cardinality(P) <= Cardinality(0..n)
      BY <1>0, <3>1, FS_Subset
    <3>3. Cardinality(P) \in Nat
      BY <3>2, FS_CardinalityType
    <3> HIDE DEF P
    <3> QED
      BY <1>0, <3>1, <3>2, <3>3
  <2>4. Cardinality(P) % CountMod \in 0..RecsPerPage
    <3> HIDE DEF P
    <3>1. Cardinality(P) \in 0..(CountMod - 1)
      BY <2>3
    <3> QED
      BY <2>3, <3>1, Small
  <2> DEFINE r == ReadPage(s)
  <2>5. r = [n_data |-> Cardinality(P) % CountMod, start |-> s[Min(P)].idx,
             end |-> s[Max(P)].idx, mapped |-> FALSE]
    BY <1>2 DEF ReadPage
  <2>6. s[Min(P)].idx \in 0..Invalid /\ s[Max(P)].idx \in 0..Invalid
    <3>1. Min(P) \in Slots /\ Max(P) \in Slots
      BY <2>1, <2>2, <1>0
    <3> HIDE DEF P
    <3>2. \A j \in Slots : s[j].idx \in Nat /\ s[j].idx < IdxMod
      BY RecordOf
    <3> QED
      BY <3>1, <3>2
  <2> HIDE DEF P, r
  <2> QED
    BY <2>4, <2>5, <2>6 DEF PageType, r
<1> QED
  BY <1>1, <1>2

LEMMA OpenKinds == ASSUME Fits, Kinds, Open PROVE Kinds'
<1>0. PICK m \in Nat : Typed(file, m)
  BY DEF Kinds
<1>1. /\ pc = "idle" /\ op = "none" /\ open' = TRUE /\ file' = file /\ UNCHANGED call
      /\ pages' = [k \in DOMAIN file |-> ReadPage(file[k])] /\ cache' = << >>
      /\ holed' = (holed \/ HasHoles) /\ astray' = astray
  BY DEF Kinds, Closed, CallType, Open
<1>2. /\ pages' \in [0..(m - 1) -> PageType] /\ Typed(file', m)
      /\ \A k \in 0..(m - 1) : ~pages'[k].mapped
  BY <1>0, <1>1, ReadPageKind DEF Typed
<1>3. Caches(cache', pages')
  <2>1. << >> \in Seq(Entry(pages')) /\ Len(<< >>) = 0
    BY EmptySeq
  <2>2. DOMAIN pages' = 0..(m - 1)
    BY <1>2
  <2> QED
    BY <2>1, <2>2, <1>1, <1>2, Numbers DEF Caches
<1>4. (\E k \in Nat : Typed(file', k)) /\ PagesKind' /\ CacheRight' /\ Closed'
  BY <1>1, <1>2, <1>3, KindsNext
<1>5. CallType' /\ CallAt'
  BY <1>1 DEF Kinds, CallType, CallAt, call
<1>6. holed' \in BOOLEAN /\ astray' \in BOOLEAN
  BY <1>1 DEF Kinds
<1> QED
  BY <1>4, <1>5, <1>6 DEF Kinds

LEMMA ShutKinds == ASSUME Fits, Kinds, OpenFails \/ Close \/ Crash PROVE Kinds'
<1>1. CASE OpenFails
  <2>1. CallType'
    BY <1>1 DEF Kinds, Closed, CallType, OpenFails, store
  <2> QED
    BY <1>1, <2>1, KindsShut DEF Kinds, Closed, CallType, OpenFails, store
<1>2. CASE Close
  <2>1. CallType'
    BY <1>2 DEF Kinds, CallType, Close, call
  <2> QED
    BY <1>2, <2>1, KindsShut DEF Kinds, CallType, Close, Idle, call
<1>3. CASE Crash
  <2>1. CallType'
    BY <1>3, Returned DEF Crash
  <2> QED
    BY <1>3, <2>1, KindsShut DEF Crash, Return
<1> QED
  BY <1>1, <1>2, <1>3

LEMMA InsertKinds == ASSUME Fits, Kinds, NEW i \in Idx, Insert(i) PROVE Kinds'
<1>0. /\ open /\ UNCHANGED store /\ op' = "insert" /\ arg' = i /\ UNCHANGED <<page_n, beg, end>>
      /\ pc' = IF n_pages = 0 THEN "grow"
               ELSE IF pages[n_pages - 1].n_data >= RecsPerPage THEN "grow"
               ELSE "check"
      /\ holed' = holed /\ astray' = (astray \/ ~HasPlace(i))
  BY DEF Insert, Idle, LastPage
<1>1. /\ \E m \in Nat : Typed(file', m)
      /\ PagesKind' /\ CacheRight' /\ Closed' /\ n_pages' = n_pages
  BY <1>0, KindsStore
<1>2. n_pages \in Nat /\ pages \in [0..(n_pages - 1) -> PageType] /\ pages' = pages
  BY <1>0, KindsFacts DEF store
<1>3. pc' \in {"grow", "check"} /\ (pc' = "check" => HasRoom')
  <2>1. ASSUME pc' = "check" PROVE n_pages > 0 /\ pages[n_pages - 1].n_data < RecsPerPage
    <3>1. n_pages - 1 \in 0..(n_pages - 1) /\ n_pages > 0
      BY <1>0, <1>2, <2>1
    <3>2. pages[n_pages - 1].n_data \in 0..RecsPerPage
      BY <1>2, <3>1 DEF PageType
    <3> QED
      BY <1>0, <2>1, <3>1, <3>2, Numbers
  <2> QED
    BY <1>0, <1>1, <1>2, <2>1 DEF HasRoom
<1>4. CallType' /\ CallAt'
  <2>1. i \in 0..Invalid
    BY IdxAssumption, Numbers
  <2>2. open' = open
    BY <1>0 DEF store
  <2> QED
    BY <1>0, <1>3, <2>1, <2>2 DEF Kinds, CallType, CallAt
<1>5. holed' \in BOOLEAN /\ astray' \in BOOLEAN
  BY <1>0 DEF Kinds
<1> QED
  BY <1>1, <1>4, <1>5 DEF Kinds

LEMMA LookKinds ==
  ASSUME Fits, Kinds, NEW how \in {"search", "delete"}, NEW i \in Idx, Look(how, i)
  PROVE  Kinds'
<1>0. /\ open /\ UNCHANGED store /\ op' = how /\ arg' = i /\ beg' = 0 /\ end' = n_pages
      /\ page_n' = page_n /\ pc' \in {"absent", "page"} /\ UNCHANGED history
  BY DEF Look, Idle
<1>1. /\ \E m \in Nat : Typed(file', m)
      /\ PagesKind' /\ CacheRight' /\ Closed' /\ n_pages' = n_pages
  BY <1>0, KindsStore
<1>2. n_pages \in Nat /\ n_pages <= MaxPages
  BY <1>0, KindsFacts
<1>3. CallType' /\ CallAt'
  <2>1. i \in 0..Invalid
    BY IdxAssumption, Numbers
  <2>2. n_pages \in 0..Invalid /\ 0 \in 0..Invalid /\ n_pages \in 0..n_pages /\ 0 \in 0..n_pages
    BY <1>2, Numbers
  <2>3. open' = open
    BY <1>0 DEF store
  <2>4. CallType'
    BY <1>0, <2>1, <2>2, <2>3 DEF Kinds, CallType
  <2>5. CallAt'
    BY <1>0, <1>1, <2>2 DEF CallAt
  <2> QED
    BY <2>4, <2>5
<1> QED
  BY <1>0, <1>1, <1>3 DEF Kinds, history

LEMMA GrowKinds == ASSUME Fits, Kinds, Grow PROVE Kinds'
<1> USE Numbers
<1>0. /\ open /\ n_pages < MaxPages /\ pc' = "check" /\ UNCHANGED history
      /\ UNCHANGED <<open, cache, op, arg, page_n, beg, end>>
      /\ file' = [k \in 0..n_pages |-> IF k = n_pages THEN BlankPage ELSE file[k]]
      /\ pages' = [k \in 0..n_pages |-> IF k = n_pages THEN EmptyPage ELSE pages[k]]
  BY KindsOpen DEF Grow, Extended
<1> DEFINE n == n_pages
           m == n + 1
<1>1. /\ n \in Nat /\ Typed(file, n) /\ Caches(cache, pages) /\ n < MaxPages
      /\ pages \in [0..(n - 1) -> PageType] /\ DOMAIN pages = 0..(n - 1)
  BY <1>0, KindsFacts
<1>2. file' = [k \in 0..n |-> IF k = n THEN BlankPage ELSE file[k]]
  BY <1>0
<1>3. pages' = [k \in 0..n |-> IF k = n THEN EmptyPage ELSE pages[k]]
  BY <1>0
<1> HIDE DEF n
<1>4. m \in Nat /\ m <= MaxPages /\ m - 1 = n
  BY <1>1
<1>5. /\ file' \in [0..(m - 1) -> [Slots -> Record]]
      /\ pages' \in [0..(m - 1) -> PageType]
      /\ pages'[n] = EmptyPage /\ \A k \in 0..(n - 1) : pages'[k] = pages[k]
  <2>1. EmptyPage \in PageType
    BY DEF EmptyPage, PageType
  <2>2. BlankPage \in [Slots -> Record]
    BY DEF BlankPage, Record
  <2>3. \A k \in 0..n : k = n \/ k \in 0..(n - 1)
    BY <1>1
  <2>4. \A k \in 0..(n - 1) : k \in 0..n /\ k # n
    BY <1>1
  <2>5. n \in 0..n
    BY <1>1
  <2>6. file' \in [0..n -> [Slots -> Record]]
    BY <1>1, <1>2, <2>2, <2>3 DEF Typed
  <2>7. /\ pages' \in [0..n -> PageType]
        /\ pages'[n] = EmptyPage /\ \A k \in 0..(n - 1) : pages'[k] = pages[k]
    BY <1>1, <1>3, <2>1, <2>3, <2>4, <2>5
  <2> QED
    BY <2>6, <2>7, <1>4
<1> HIDE DEF m
<1>6. Typed(file', m)
  BY <1>4, <1>5 DEF Typed
<1>7. Caches(cache', pages')
  <2>1. DOMAIN pages' = 0..n /\ cache' = cache
    BY <1>0, <1>4, <1>5
  <2>2. cache \in Seq(Entry(pages'))
    <3>1. Entry(pages) \subseteq Entry(pages')
      BY <1>1, <2>1 DEF Entry
    <3>2. cache \in Seq(Entry(pages))
      BY <1>1 DEF Caches
    <3> QED
      BY <3>1, <3>2, SeqMonotonic
  <2>3. ~pages'[n].mapped
    BY <1>5 DEF EmptyPage
  <2>4. \A c \in 1..Len(cache) : cache[c].page_n # n
    <3>1. \A c \in 1..Len(cache) : cache[c] \in Entry(pages)
      BY <1>1, ElementOfSeq DEF Caches
    <3>2. n \notin 0..(n - 1)
      BY <1>1
    <3> QED
      BY <1>1, <3>1, <3>2 DEF Entry
  <2>5. \A k \in 0..n : k = n \/ k \in 0..(n - 1)
    BY <1>1
  <2>6. \A k \in 0..n : pages'[k].mapped <=> \E c \in 1..Len(cache) : cache[c].page_n = k
    BY <1>1, <1>5, <2>3, <2>4, <2>5 DEF Caches
  <2>7. /\ Len(cache) <= MaxCache
        /\ \A i, j \in 1..Len(cache) : cache[i].page_n = cache[j].page_n => i = j
    BY <1>1 DEF Caches
  <2> QED
    BY <2>1, <2>2, <2>6, <2>7 DEF Caches
<1>8. /\ \E k \in Nat : Typed(file', k)
      /\ PagesKind' /\ CacheRight' /\ Closed' /\ n_pages' = m
  BY <1>0, <1>5, <1>6, <1>7, KindsNext
<1>9. HasRoom'
  <2>1. pages'[m - 1].n_data = 0 /\ m > 0
    BY <1>1, <1>4, <1>5 DEF EmptyPage
  <2> QED
    BY <2>1, <1>8 DEF HasRoom
<1>10. CallType' /\ CallAt'
  BY <1>0, <1>9 DEF Kinds, CallType, CallAt, Closed
<1> QED
  BY <1>0, <1>8, <1>10 DEF Kinds, history

\* A step that leaves the store and ends the call.
LEMMA ReturnKinds == ASSUME Fits, Kinds, GrowFails \/ Reject \/ Absent PROVE Kinds'
<1>0. open /\ Return /\ UNCHANGED store /\ open' = open /\ UNCHANGED history
  BY KindsOpen DEF GrowFails, Reject, Absent, store
<1>1. CallType' /\ CallAt'
  BY <1>0, KindsReturn DEF Kinds, CallType
<1> QED
  BY <1>0, <1>1, KindsStore DEF Kinds, history

\* A step that maps a page if it must.
LEMMA MapKinds ==
  ASSUME Fits, Kinds, open, NEW k0 \in 0..(n_pages - 1), MapIfNeeded(k0),
         file' = file, open' = open
  PROVE  /\ \E m \in Nat : Typed(file', m)
         /\ PagesKind' /\ CacheRight' /\ Closed' /\ n_pages' = n_pages
         /\ Mapping(k0)
<1> DEFINE n == n_pages
<1>1. /\ n \in Nat /\ Typed(file, n) /\ Caches(cache, pages)
      /\ pages \in [0..(n - 1) -> PageType] /\ DOMAIN pages = 0..(n - 1)
  BY KindsFacts
<1>2. Mapping(k0)
  BY <1>1, MapsIfNeeded
<1>3. Typed(file', n) /\ pages' \in [0..(n - 1) -> PageType] /\ Caches(cache', pages')
  BY <1>1, <1>2 DEF Mapping
<1> HIDE DEF n
<1>4. /\ \E m \in Nat : Typed(file', m)
      /\ PagesKind' /\ CacheRight' /\ Closed' /\ n_pages' = n
  BY <1>3, KindsNext
<1> QED
  BY <1>2, <1>4 DEF n

LEMMA AcceptKinds == ASSUME Fits, Kinds, Accept PROVE Kinds'
<1>0. /\ open /\ HasRoom /\ MapIfNeeded(n_pages - 1) /\ pc' = "record" /\ UNCHANGED history
      /\ UNCHANGED <<open, file, op, arg, page_n, beg, end>>
  BY KindsOpen DEF Kinds, CallAt, Accept
<1>1. /\ n_pages \in Nat /\ n_pages - 1 \in 0..(n_pages - 1)
      /\ DOMAIN pages = 0..(n_pages - 1)
  BY <1>0, KindsFacts DEF HasRoom
<1>2. /\ \E m \in Nat : Typed(file', m)
      /\ PagesKind' /\ CacheRight' /\ Closed' /\ n_pages' = n_pages
      /\ Mapping(n_pages - 1)
  BY <1>0, <1>1, MapKinds
<1>3. HasRoom' /\ pages'[n_pages' - 1].mapped
  BY <1>0, <1>1, <1>2 DEF HasRoom, Mapping, Remapped
<1>4. CallType' /\ CallAt'
  BY <1>0, <1>3 DEF Kinds, CallType, CallAt, Closed, Accept
<1> QED
  BY <1>0, <1>2, <1>4 DEF Kinds, history

LEMMA EnterKinds == ASSUME Fits, Kinds, EnterPage PROVE Kinds'
<1>0. /\ open /\ page_n \in 0..(n_pages - 1) /\ MapIfNeeded(page_n) /\ pc' = "slot"
      /\ beg' = 0 /\ end' = Below(pages[page_n].n_data)
      /\ UNCHANGED <<open, file, op, arg, page_n>> /\ UNCHANGED history /\ pc = "range"
  BY KindsOpen DEF Kinds, CallAt, EnterPage
<1>1. /\ \E m \in Nat : Typed(file', m)
      /\ PagesKind' /\ CacheRight' /\ Closed' /\ n_pages' = n_pages
      /\ Mapping(page_n)
  BY <1>0, MapKinds
<1>2. beg' \in 0..Invalid /\ end' \in 0..Invalid
  <2>1. pages[page_n].n_data \in 0..RecsPerPage
    BY <1>0, KindsFacts DEF PageType
  <2> QED
    BY <1>0, <2>1, Numbers DEF Below
<1>3. CallType' /\ CallAt'
  BY <1>0, <1>1, <1>2 DEF Kinds, CallType, CallAt, Closed, Mapping
<1> QED
  BY <1>0, <1>1, <1>3 DEF Kinds, history

\* The slot that an insertion writes.
LEMMA SlotWritten ==
  ASSUME Fits, Kinds, pc \in {"record", "present"}
  PROVE  /\ open /\ Typed(file, n_pages) /\ HasRoom /\ pages[n_pages - 1].mapped
         /\ n_pages \in Nat /\ n_pages - 1 \in 0..(n_pages - 1)
         /\ pages \in [0..(n_pages - 1) -> PageType] /\ Caches(cache, pages)
         /\ pages[n_pages - 1].n_data \in Slots
         /\ pages[n_pages - 1].n_data + 1 \in 0..RecsPerPage
<1>1. open /\ HasRoom /\ pages[n_pages - 1].mapped
  BY KindsOpen DEF Kinds, CallAt
<1>2. /\ Typed(file, n_pages) /\ n_pages \in Nat /\ n_pages - 1 \in 0..(n_pages - 1)
      /\ pages \in [0..(n_pages - 1) -> PageType] /\ Caches(cache, pages)
  BY <1>1, KindsFacts DEF HasRoom
<1>3. pages[n_pages - 1].n_data \in 0..RecsPerPage
  BY <1>2 DEF PageType
<1>4. /\ pages[n_pages - 1].n_data \in Slots
      /\ pages[n_pages - 1].n_data + 1 \in 0..RecsPerPage
  BY <1>1, <1>3, SlotsAre, Numbers DEF HasRoom
<1> QED
  BY <1>1, <1>2, <1>4

LEMMA RecordKinds ==
  ASSUME Fits, Kinds, WriteRecord
  PROVE  /\ Kinds'
         /\ Put(file, file', n_pages, n_pages - 1, pages[n_pages - 1].n_data,
                [present |-> file[n_pages - 1][pages[n_pages - 1].n_data].present,
                 idx |-> arg % IdxMod])
<1> DEFINE n == n_pages
           j == pages[n - 1].n_data
           b == arg % IdxMod
<1>0. /\ pc = "record" /\ pc' = "present" /\ UNCHANGED history
      /\ UNCHANGED <<open, pages, cache, op, arg, page_n, beg, end>>
      /\ file' = [file EXCEPT ![n - 1][j].idx = b]
  BY DEF WriteRecord, LastPage
<1>1. /\ open /\ Typed(file, n) /\ HasRoom /\ pages[n - 1].mapped /\ n - 1 \in 0..(n - 1)
      /\ pages \in [0..(n - 1) -> PageType] /\ Caches(cache, pages) /\ j \in Slots
  BY <1>0, SlotWritten
<1>2. b \in 0..(IdxMod - 1)
  BY Numbers DEF Kinds, CallType
<1>3. Put(file, file', n, n - 1, j, [present |-> file[n - 1][j].present, idx |-> b])
  BY <1>0, <1>1, <1>2, PutIdx
<1>4. Typed(file', n) /\ file'[n - 1][j].idx = b
  BY <1>3 DEF Put
<1>5. pages' = pages /\ cache' = cache /\ open' = TRUE
  BY <1>0, <1>1
<1>6. n_pages' = n
  BY <1>5 DEF n_pages
<1>7. /\ \E m \in Nat : Typed(file', m)
      /\ PagesKind' /\ CacheRight' /\ Closed'
  <2> HIDE DEF n
  <2>1. pages' \in [0..(n - 1) -> PageType] /\ Caches(cache', pages')
    BY <1>1, <1>5
  <2> QED
    BY <1>4, <1>5, <2>1, KindsNext
<1>8. CallType'
  BY <1>0 DEF Kinds, CallType
<1>9. CallAt'
  BY <1>0, <1>1, <1>4, <1>6 DEF CallAt, HasRoom
<1> QED
  BY <1>0, <1>3, <1>7, <1>8, <1>9 DEF Kinds, history

LEMMA PresentKinds ==
  ASSUME Fits, Kinds, WritePresent
  PROVE  /\ Kinds'
         /\ Put(file, file', n_pages, n_pages - 1, pages[n_pages - 1].n_data,
                [present |-> TRUE, idx |-> arg % IdxMod])
         /\ DOMAIN pages' = DOMAIN pages
         /\ pages'[n_pages - 1].n_data = pages[n_pages - 1].n_data + 1
         /\ pages'[n_pages - 1].mapped = pages[n_pages - 1].mapped
         /\ \A k \in DOMAIN pages : k # n_pages - 1 => pages'[k] = pages[k]
<1> DEFINE n == n_pages
           j == pages[n - 1].n_data
           p == pages[n - 1]
           q == [p EXCEPT !.end = arg, !.start = IF @ = Invalid THEN arg ELSE @,
                          !.n_data = (@ + 1) % CountMod]
<1>0. /\ pc = "present" /\ Return /\ UNCHANGED history /\ UNCHANGED <<open, cache>>
      /\ file' = [file EXCEPT ![n - 1][j].present = TRUE]
      /\ pages' = [pages EXCEPT ![n - 1] = q]
  BY DEF WritePresent, LastPage
<1>1. /\ open /\ Typed(file, n) /\ n - 1 \in 0..(n - 1) /\ n \in Nat
      /\ pages \in [0..(n - 1) -> PageType] /\ Caches(cache, pages)
      /\ j \in Slots /\ j + 1 \in 0..RecsPerPage
  BY <1>0, SlotWritten
<1>2. file[n - 1][j].idx = arg % IdxMod
  BY <1>0 DEF Kinds, CallAt
<1>3. Put(file, file', n, n - 1, j, [present |-> TRUE, idx |-> arg % IdxMod])
  BY <1>0, <1>1, <1>2, PutPresent
<1>4. arg \in 0..Invalid
  BY DEF Kinds, CallType
<1>5. q \in PageType /\ q.n_data = j + 1 /\ q.mapped = p.mapped
  <2>1. p \in PageType
    BY <1>1
  <2>2. (j + 1) % CountMod = j + 1
    <3>1. j + 1 \in 0..(CountMod - 1)
      BY <1>1, Numbers
    <3> HIDE DEF j
    <3> QED
      BY <3>1, Small, Numbers
  <2>3. q.n_data = j + 1 /\ q.mapped = p.mapped
    BY <2>1, <2>2 DEF PageType
  <2>4. q.end = arg /\ q.start \in 0..Invalid
    BY <2>1, <1>4 DEF PageType
  <2>5. q \in [n_data : {q.n_data}, start : {q.start}, end : {q.end}, mapped : {q.mapped}]
    BY <2>1 DEF PageType
  <2>6. q.n_data \in 0..RecsPerPage /\ q.mapped \in BOOLEAN /\ q.end \in 0..Invalid
    BY <2>1, <2>3, <2>4, <1>1, <1>4 DEF PageType
  <2> HIDE DEF q
  <2>7. q \in PageType
    BY <2>4, <2>5, <2>6 DEF PageType
  <2> QED
    BY <2>3, <2>7
<1> HIDE DEF q, j
<1>6. /\ pages' \in [0..(n - 1) -> PageType] /\ pages'[n - 1] = q
      /\ \A k \in 0..(n - 1) : k # n - 1 => pages'[k] = pages[k]
  BY <1>0, <1>1, <1>5
<1>7. DOMAIN pages = 0..(n - 1) /\ DOMAIN pages' = 0..(n - 1)
  BY <1>1, <1>6
<1>8. Caches(cache', pages')
  <2>1. \A k \in DOMAIN pages : pages'[k].mapped = pages[k].mapped
    BY <1>5, <1>6, <1>7
  <2>2. cache' = cache /\ DOMAIN pages' = DOMAIN pages
    BY <1>0, <1>7
  <2>3. Caches(cache, pages')
    BY <1>1, <2>1, <2>2, CachesSame
  <2> QED
    BY <2>2, <2>3
<1>9. Typed(file', n) /\ open' = TRUE
  BY <1>0, <1>1, <1>3 DEF Put
<1>10. /\ \E m \in Nat : Typed(file', m)
       /\ PagesKind' /\ CacheRight' /\ Closed'
  <2> HIDE DEF n
  <2> QED
    BY <1>6, <1>8, <1>9, KindsNext
<1>11. CallType' /\ CallAt'
  BY <1>0, <1>9, KindsReturn
<1> QED
  BY <1>0, <1>3, <1>5, <1>6, <1>7, <1>10, <1>11 DEF Kinds, history, j

LEMMA FoundKinds ==
  ASSUME Fits, Kinds, Found
  PROVE  /\ Kinds'
         /\ open /\ Typed(file, n_pages) /\ page_n \in 0..(n_pages - 1) /\ beg \in Slots
         /\ file[page_n][beg].present /\ file[page_n][beg].idx = arg
         /\ op = "delete" => Put(file, file', n_pages, page_n, beg,
                                 [present |-> FALSE, idx |-> file[page_n][beg].idx])
         /\ op # "delete" => file' = file
<1> DEFINE n == n_pages
<1>0. /\ open /\ page_n \in 0..(n - 1) /\ beg \in Slots
      /\ file[page_n][beg].present /\ file[page_n][beg].idx = arg
      /\ Return /\ UNCHANGED history /\ UNCHANGED <<open, pages, cache>>
      /\ file' = IF op = "delete" THEN [file EXCEPT ![page_n][beg].present = FALSE] ELSE file
  BY KindsOpen DEF Found, Hit, Kinds, CallAt
<1>1. /\ Typed(file, n) /\ pages \in [0..(n - 1) -> PageType] /\ Caches(cache, pages)
  BY <1>0, KindsFacts
<1>2. ASSUME op = "delete"
      PROVE  Put(file, file', n, page_n, beg, [present |-> FALSE, idx |-> file[page_n][beg].idx])
  <2>1. file' = [file EXCEPT ![page_n][beg].present = FALSE]
    BY <1>0, <1>2
  <2>2. page_n \in 0..(n - 1) /\ beg \in Slots /\ Typed(file, n) /\ FALSE \in BOOLEAN
    BY <1>0, <1>1
  <2> DEFINE g == [file EXCEPT ![page_n][beg].present = FALSE]
  <2> HIDE DEF n
  <2>3. Put(file, g, n, page_n, beg, [present |-> FALSE, idx |-> file[page_n][beg].idx])
    BY <2>2, PutPresent
  <2> HIDE DEF g
  <2>4. file' = g
    BY <2>1 DEF g
  <2> QED
    BY <2>3, <2>4
<1>3. ASSUME op # "delete" PROVE file' = file
  BY <1>0, <1>3
<1>4. Typed(file', n)
  BY <1>1, <1>2, <1>3 DEF Put
<1>5. /\ \E m \in Nat : Typed(file', m)
      /\ PagesKind' /\ CacheRight' /\ Closed'
  <2>1. pages' \in [0..(n - 1) -> PageType] /\ Caches(cache', pages') /\ open' = TRUE
    BY <1>0, <1>1
  <2> HIDE DEF n
  <2> QED
    BY <2>1, <1>4, KindsNext
<1>6. CallType' /\ CallAt'
  BY <1>0, KindsReturn
<1> QED
  BY <1>0, <1>1, <1>2, <1>3, <1>5, <1>6 DEF Kinds, history

LEMMA SearchPageKinds == ASSUME Fits, Kinds, SearchPage PROVE Kinds'
<1> DEFINE n == n_pages
<1>0. /\ open /\ UNCHANGED store /\ UNCHANGED <<op, arg>> /\ UNCHANGED history
      /\ beg \in 0..n /\ end \in 0..n /\ open' = open
  BY KindsOpen DEF SearchPage, PageLoop, Kinds, CallAt, store
<1>1. /\ \E m \in Nat : Typed(file', m)
      /\ PagesKind' /\ CacheRight' /\ Closed' /\ n_pages' = n
  BY <1>0, KindsStore
<1>2. n \in Nat /\ n <= MaxPages /\ DOMAIN pages = 0..(n - 1) /\ page_n \in Nat
  BY <1>0, KindsFacts DEF Kinds, CallType
<1>3. Mid \in 0..n
  BY <1>0, <1>2, Halves DEF Mid
<1> HIDE DEF n
<1>4. /\ pc' \in {"wild", "page", "range"} /\ page_n' \in Nat
      /\ beg' \in 0..n /\ (end' \in 0..n \/ end' = Invalid)
      /\ pc' = "range" => page_n' \in 0..(n - 1)
  <2>1. CASE Mid \notin DOMAIN pages
    BY <2>1, <1>0, <1>2 DEF SearchPage
  <2>2. CASE Mid \in DOMAIN pages /\ arg < pages[Mid].start
    BY <2>2, <1>0, <1>2, <1>3 DEF SearchPage, Below
  <2>3. CASE Mid \in DOMAIN pages /\ ~(arg < pages[Mid].start) /\ arg > pages[Mid].end
    <3>1. beg' = Mid + 1 /\ UNCHANGED <<pc, end, page_n>> /\ pc = "page"
      BY <2>3 DEF SearchPage
    <3>2. Mid + 1 \in 0..n
      BY <2>3, <1>2, <1>3
    <3> QED
      BY <3>1, <3>2, <1>0, <1>2
  <2>4. CASE Mid \in DOMAIN pages /\ ~(arg < pages[Mid].start) /\ ~(arg > pages[Mid].end)
    <3>1. pc' = "range" /\ page_n' = Mid /\ UNCHANGED <<beg, end>>
      BY <2>4 DEF SearchPage
    <3> QED
      BY <3>1, <2>4, <1>0, <1>2
  <2> QED
    BY <2>1, <2>2, <2>3, <2>4
<1>5. beg' \in 0..Invalid /\ end' \in 0..Invalid
  BY <1>2, <1>4, Numbers
<1>6. CallType'
  BY <1>0, <1>4, <1>5 DEF Kinds, CallType, Closed, SearchPage
<1>7. CallAt'
  BY <1>1, <1>4 DEF CallAt
<1> QED
  BY <1>0, <1>1, <1>6, <1>7 DEF Kinds, history

LEMMA PageFoundKinds == ASSUME Fits, Kinds, PageFound PROVE Kinds'
<1>0. /\ open /\ UNCHANGED store /\ UNCHANGED <<op, arg, beg, end>> /\ UNCHANGED history
      /\ page_n' = beg /\ pc' \in {"range", "wild"} /\ (pc' = "range" => beg \in DOMAIN pages)
      /\ pc = "page" /\ open' = open
  BY KindsOpen DEF PageFound, store
<1>1. /\ \E m \in Nat : Typed(file', m)
      /\ PagesKind' /\ CacheRight' /\ Closed' /\ n_pages' = n_pages
  BY <1>0, KindsStore
<1>2. DOMAIN pages = 0..(n_pages - 1) /\ beg \in 0..n_pages /\ n_pages \in Nat
  BY <1>0, KindsFacts DEF Kinds, CallAt
<1>3. CallType'
  BY <1>0, <1>2 DEF Kinds, CallType
<1>4. CallAt'
  BY <1>0, <1>1, <1>2 DEF CallAt
<1> QED
  BY <1>0, <1>1, <1>3, <1>4 DEF Kinds, history

LEMMA SearchSlotKinds == ASSUME Fits, Kinds, SearchSlot PROVE Kinds'
<1>0. /\ open /\ UNCHANGED store /\ UNCHANGED <<op, arg, page_n>> /\ UNCHANGED history
      /\ pc = "slot" /\ open' = open /\ pages' = pages
      /\ page_n \in 0..(n_pages - 1) /\ pages[page_n].mapped
  BY KindsOpen DEF SearchSlot, Kinds, CallAt, store
<1>1. /\ \E m \in Nat : Typed(file', m)
      /\ PagesKind' /\ CacheRight' /\ Closed' /\ n_pages' = n_pages
  BY <1>0, KindsStore
<1>2. beg \in 0..Invalid /\ end \in 0..Invalid
  BY DEF Kinds, CallType
<1>3. pc' \in {"slot", "wild"} /\ beg' \in 0..Invalid /\ end' \in 0..Invalid
  <2>1. CASE Mid \notin Slots
    BY <2>1, <1>0, <1>2 DEF SearchSlot
  <2>2. CASE Mid \in Slots
    <3>1. Mid \in 0..(RecsPerPage - 1)
      BY <2>2, SlotsAre
    <3>2. Below(Mid) \in 0..Invalid /\ UpperHalf \in 0..Invalid /\ Mid \in 0..Invalid
      <4> HIDE DEF Mid
      <4> QED
        BY <3>1, Numbers DEF Below, UpperHalf
    <3>3. pc' = pc /\ beg' \in {beg, UpperHalf, Mid} /\ end' \in {end, Below(Mid), Mid}
      BY <2>2 DEF SearchSlot
    <3> QED
      BY <3>2, <3>3, <1>0, <1>2
  <2> QED
    BY <2>1, <2>2
<1>4. CallType'
  BY <1>0, <1>3 DEF Kinds, CallType
<1>5. CallAt'
  BY <1>0, <1>1, <1>3 DEF CallAt
<1> QED
  BY <1>0, <1>1, <1>4, <1>5 DEF Kinds, history

LEMMA EndKinds == ASSUME Fits, Kinds, OutOfRange \/ SlotMiss PROVE Kinds'
<1>0. /\ open /\ UNCHANGED store /\ UNCHANGED <<op, arg, page_n, beg, end>>
      /\ UNCHANGED history /\ pc' \in {"absent", "wild"} /\ open' = open
  BY KindsOpen DEF OutOfRange, SlotMiss, store
<1>1. CallType' /\ CallAt'
  BY <1>0 DEF Kinds, CallType, CallAt, Closed, OutOfRange, SlotMiss
<1> QED
  BY <1>0, <1>1, KindsStore DEF Kinds, history

\* Every step leaves the kinds right, in whatever order the records are.
LEMMA StepKinds == ASSUME Fits, Kinds, [Next]_vars PROVE Kinds'
<1>1. CASE Open \/ OpenFails \/ Close \/ Crash
  BY <1>1, OpenKinds, ShutKinds
<1>2. ASSUME NEW i \in Idx, Insert(i) \/ Look("search", i) \/ Look("delete", i)
      PROVE  Kinds'
  BY <1>2, InsertKinds, LookKinds
<1>3. CASE Continue
  BY <1>3, GrowKinds, ReturnKinds, AcceptKinds, RecordKinds, PresentKinds, SearchPageKinds,
     PageFoundKinds, EndKinds, EnterKinds, SearchSlotKinds, FoundKinds DEF Continue
<1>4. CASE UNCHANGED vars
  BY <1>4 DEF vars, store, call, history, Kinds, PagesKind, CacheRight, Closed, CallType,
              CallAt, HasRoom, n_pages
<1> QED
  BY <1>1, <1>2, <1>3, <1>4 DEF Next

LEMMA KindsHold == ASSUME Fits PROVE Spec => []Kinds
<1>1. Init => Kinds
  BY InitKinds
<1>2. Kinds /\ [Next]_vars => Kinds'
  BY StepKinds
<1> QED
  BY <1>1, <1>2, PTL DEF Spec

-----------------------------------------------------------------------------
(***************************************************************************)
(* The safety properties.                                                  *)
(***************************************************************************)
LEMMA PlaceOrder ==
  ASSUME Fits, NEW k \in Nat, NEW l \in Nat, NEW i \in Slots, NEW j \in Slots,
         Place(k, i) < Place(l, j)
  PROVE  k < l \/ (k = l /\ i < j)
<1> DEFINE R == RecsPerPage
<1>1. R \in Nat /\ i \in 0..(R - 1) /\ j \in 0..(R - 1)
  BY Numbers, SlotsAre
<1>2. k * R + i < l * R + j
  BY DEF Place
<1> HIDE DEF R
<1>3. CASE k = l
  <2>1. k * R \in Nat
    BY <1>1
  <2> QED
    BY <2>1, <1>1, <1>2, <1>3
<1>4. ASSUME l < k PROVE FALSE
  <2>1. PICK d \in Nat : k = (l + 1) + d
    <3>1. k - l - 1 \in Nat /\ k = (l + 1) + (k - l - 1)
      BY <1>4
    <3> QED
      BY <3>1
  <2>2. ((l + 1) + d) * R = l * R + R + d * R
    BY <1>1
  <2>3. l * R \in Nat /\ d * R \in Nat
    BY <1>1
  <2> DEFINE x == l * R
             y == d * R
  <2>4. k * R = x + R + y
    BY <2>1, <2>2
  <2>5. x \in Nat /\ y \in Nat
    BY <2>3
  <2>6. k * R + i < x + j
    BY <1>2
  <2> HIDE DEF x, y
  <2> QED
    BY <2>4, <2>5, <2>6, <1>1
<1> QED
  BY <1>3, <1>4

LEMMA OrderedPages == ASSUME Fits, SoundIInv PROVE PagesAgree
<1> SUFFICES ASSUME IInv PROVE PagesAgree
  BY DEF SoundIInv, PagesAgree
<1>0. PICK m \in Nat : Typed(file, m) /\ InOrder(file)
  BY DEF IInv, FileRight
<1>1. DOMAIN file = 0..(m - 1)
  BY <1>0 DEF Typed
<1>2. ASSUME NEW k \in DOMAIN file, NEW l \in DOMAIN file, NEW i \in Slots, NEW j \in Slots,
             file[k][i].present, file[l][j].present, Place(k, i) < Place(l, j)
      PROVE  file[k][i].idx < file[l][j].idx
  <2>1. k < l \/ (k = l /\ i < j)
    BY <1>0, <1>1, <1>2, PlaceOrder
  <2> QED
    BY <2>1, <1>0, <1>2 DEF InOrder
<1>3. ASSUME open, NEW k \in DOMAIN file, NEW j \in Slots, file[k][j].present
      PROVE  /\ j < pages[k].n_data
             /\ file[k][j].idx \in pages[k].start..pages[k].end
  <2>1. Laid(file, pages, n_pages) /\ DOMAIN file = 0..(n_pages - 1)
    BY <1>3, OpenFacts
  <2>2. /\ j < pages[k].n_data
        /\ pages[k].start <= file[k][j].idx /\ file[k][j].idx <= pages[k].end
        /\ file[k][j].idx \in 0..(IdxMod - 1)
    BY <1>3, <2>1, HeldWithin
  <2>3. pages[k].start \in Nat /\ pages[k].end \in Nat
    BY <1>3, <2>1, PageOf, Bounds
  <2> QED
    BY <2>2, <2>3, Numbers
<1> QED
  BY <1>2, <1>3 DEF PagesAgree

LEMMA TypesRight == ASSUME Fits, Kinds PROVE TypeOK
<1> USE Numbers
<1>0. PICK m \in Nat : Typed(file, m)
  BY DEF Kinds
<1>1. DOMAIN file = 0..(Cardinality(DOMAIN file) - 1)
  <2>1. DOMAIN file = 0..(m - 1)
    BY <1>0 DEF Typed
  <2> QED
    BY <2>1, <1>0, Counts
<1>2. \A k \in DOMAIN file : file[k] \in [Slots -> Record]
  BY <1>0 DEF Typed
<1>3. /\ open => DOMAIN pages = DOMAIN file
      /\ \A k \in DOMAIN pages : pages[k] \in PageType
  <2>1. CASE open
    BY <2>1, KindsFacts
  <2>2. CASE ~open
    BY <2>2 DEF Kinds, Closed
  <2> QED
    BY <2>1, <2>2
<1>4. PageType \subseteq [n_data : 0..(CountMod - 1), start : 0..Invalid,
                          end : 0..Invalid, mapped : BOOLEAN]
  BY DEF PageType
<1>5. cache \in Seq([page_n : DOMAIN pages, hits : Nat])
  <2>1. Entry(pages) \subseteq [page_n : DOMAIN pages, hits : Nat]
    BY DEF Entry
  <2>2. cache \in Seq(Entry(pages))
    BY DEF Kinds, CacheRight, Caches
  <2> QED
    BY <2>1, <2>2, SeqMonotonic
<1>6. /\ open \in BOOLEAN
      /\ pc \in {"idle", "grow", "check", "record", "present", "page", "range",
                 "slot", "absent", "wild"}
      /\ op \in {"none", "insert", "search", "delete"}
      /\ {arg, beg, end} \subseteq 0..Invalid /\ page_n \in Nat
      /\ {holed, astray} \subseteq BOOLEAN
  BY DEF Kinds, CallType
<1> QED
  BY <1>1, <1>2, <1>3, <1>4, <1>5, <1>6 DEF TypeOK, Record

LEMMA MappedPages == ASSUME Fits, Kinds PROVE CacheIsMapped
<1>1. TypeOK
  BY TypesRight
<1>2. pc \in {"record", "present"} => LastPage.mapped
  BY DEF Kinds, CallAt, LastPage
<1>3. pc = "slot" => pages[page_n].mapped
  BY DEF Kinds, CallAt
<1>4. DOMAIN cache = 1..Len(cache)
  BY LenProperties DEF Kinds, CacheRight, Caches
<1>5. /\ Len(cache) <= MaxCache
      /\ \A c, e \in DOMAIN cache : cache[c].page_n = cache[e].page_n => c = e
  BY <1>4 DEF Kinds, CacheRight, Caches
<1>6. {cache[c].page_n : c \in DOMAIN cache} = {k \in DOMAIN pages : pages[k].mapped}
  <2>1. \A c \in DOMAIN cache : cache[c].page_n \in DOMAIN pages
    <3>1. \A c \in DOMAIN cache : cache[c] \in Entry(pages)
      BY <1>4, ElementOfSeq DEF Kinds, CacheRight, Caches
    <3> QED
      BY <3>1 DEF Entry
  <2>2. \A k \in DOMAIN pages : pages[k].mapped <=> \E c \in DOMAIN cache : cache[c].page_n = k
    BY <1>4 DEF Kinds, CacheRight, Caches
  <2> QED
    BY <2>1, <2>2
<1> QED
  BY <1>1, <1>2, <1>3, <1>5, <1>6 DEF CacheIsMapped

LEMMA WildBeyond == ASSUME Fits, SoundIInv PROVE WildOnlyBeyond
<1>1. SUFFICES ASSUME IInv, pc = "wild", op # "none" PROVE arg > LastPage.end
  BY DEF SoundIInv, WildOnlyBeyond
<1>2. AtWild /\ open /\ arg \in 0..(Invalid - 1)
  BY <1>1 DEF IInv, Looking
<1>3. Laid(file, pages, n_pages) /\ n_pages - 1 \in 0..(n_pages - 1)
  BY <1>1, <1>2, OpenFacts DEF AtWild
<1>4. pages[n_pages - 1].end \in Nat
  BY <1>3, PageOf, Bounds
<1> QED
  BY <1>2, <1>4, Numbers DEF AtWild, LastPage

\* Until an index goes astray or a file with holes is opened, the records of the
\* file ascend in index, page after page and slot after slot, at every step of
\* every call and after every crash, and the bounds and the count that a page of
\* the store gives hold all its records.
THEOREM PagesInOrder == ASSUME Fits PROVE Spec => []PagesAgree
<1>1. SoundIInv => PagesAgree
  BY OrderedPages
<1> QED
  BY <1>1, InvariantHolds, PTL

\* map_page and the cache agree on what is mapped, within the limit, and a record
\* is read or written in a mapped page: whatever the order of the records is.
THEOREM CacheAgrees == ASSUME Fits PROVE Spec => []CacheIsMapped
<1>1. Kinds => CacheIsMapped
  BY MappedPages
<1> QED
  BY <1>1, KindsHold, PTL

\* Until an index goes astray or a file with holes is opened, of the calls on an
\* open store only a search or a deletion beyond the last page follows a pointer
\* outside of it (search_page begins one past the last page).
THEOREM WildBeyondLast == ASSUME Fits PROVE Spec => []WildOnlyBeyond
<1>1. SoundIInv => WildOnlyBeyond
  BY WildBeyond
<1> QED
  BY <1>1, InvariantHolds, PTL

-----------------------------------------------------------------------------
(***************************************************************************)
(* Eviction.                                                               *)
(***************************************************************************)
Oldest == \A k \in DOMAIN pages :
             pages[k].mapped /\ ~pages'[k].mapped => k = cache[1].page_n

LEMMA MappingOldest ==
  ASSUME Fits, Kinds, open, NEW k0 \in 0..(n_pages - 1), MapIfNeeded(k0)
  PROVE  Oldest
<1>1. /\ n_pages \in Nat /\ Caches(cache, pages)
      /\ pages \in [0..(n_pages - 1) -> PageType]
  BY KindsFacts
<1>2. Mapping(k0)
  BY <1>1, MapsIfNeeded
<1> QED
  BY <1>2 DEF Mapping, Oldest

LEMMA NextOldest == ASSUME Fits, Kinds, [Next]_vars, open, open' PROVE Oldest
<1>1. CASE UNCHANGED pages
  BY <1>1 DEF Oldest
<1>2. CASE Open \/ OpenFails \/ Close \/ Crash
  BY <1>2 DEF Open, OpenFails, Close, Crash
<1>3. ASSUME NEW i \in Idx, Insert(i) \/ Look("search", i) \/ Look("delete", i)
      PROVE  UNCHANGED pages
  BY <1>3 DEF Insert, Look, store
<1>4. CASE Grow
  <2>1. DOMAIN pages = 0..(n_pages - 1) /\ n_pages \in Nat
    BY KindsFacts
  <2>2. pages' = [k \in 0..n_pages |-> IF k = n_pages THEN EmptyPage ELSE pages[k]]
    BY <1>4 DEF Grow, Extended
  <2>3. \A k \in DOMAIN pages : pages'[k] = pages[k]
    BY <2>1, <2>2
  <2> QED
    BY <2>3 DEF Oldest
<1>5. CASE Accept
  <2>1. n_pages \in Nat /\ n_pages > 0 /\ MapIfNeeded(n_pages - 1)
    BY <1>5, KindsFacts DEF Accept, Kinds, CallAt, HasRoom
  <2>2. n_pages - 1 \in 0..(n_pages - 1)
    BY <2>1
  <2> QED
    BY <2>1, <2>2, MappingOldest
<1>6. CASE EnterPage
  <2>1. page_n \in 0..(n_pages - 1) /\ MapIfNeeded(page_n)
    BY <1>6 DEF EnterPage, Kinds, CallAt
  <2> QED
    BY <2>1, MappingOldest
<1>7. CASE WritePresent
  <2>1. \A k \in DOMAIN pages : pages'[k].mapped = pages[k].mapped
    BY <1>7, PresentKinds
  <2> QED
    BY <2>1 DEF Oldest
<1>8. CASE \/ GrowFails \/ Reject \/ WriteRecord \/ SearchPage \/ PageFound
           \/ OutOfRange \/ SearchSlot \/ SlotMiss \/ Absent \/ Found
  <2>1. UNCHANGED pages
    BY <1>8 DEF GrowFails, Reject, WriteRecord, SearchPage, PageFound, OutOfRange,
                SearchSlot, SlotMiss, Absent, Found, store
  <2> QED
    BY <2>1, <1>1
<1>9. CASE UNCHANGED vars
  BY <1>9, <1>1 DEF vars, store
<1> QED
  BY <1>1, <1>2, <1>3, <1>4, <1>5, <1>6, <1>7, <1>8, <1>9 DEF Next, Continue

\* cache_get_less_hit always finds the page that was mapped first: cache_hit only
\* ever counts the hit of the mapping itself.  Whatever the order of the records is.
THEOREM OldestEvicted == ASSUME Fits PROVE Spec => EvictsOldest
<1>1. Kinds /\ [Next]_vars =>
        [open' /\ open => \A k \in DOMAIN pages :
            pages[k].mapped /\ ~pages'[k].mapped => k = cache[1].page_n]_vars
  BY NextOldest DEF Oldest
<1> QED
  BY <1>1, KindsHold, PTL DEF Spec, EvictsOldest

-----------------------------------------------------------------------------
(***************************************************************************)
(* The store implements IndexStore: what each step does to the indices     *)
(* that are in the file.                                                   *)
(***************************************************************************)
LEMMA StoredIs == \A i : i \in Stored <=> Holds(file, i)
BY DEF Stored, Holds

LEMMA StoredIsNext == \A i : i \in Stored' <=> Holds(file', i)
BY DEF Stored, Holds

LEMMA SameHeld ==
  ASSUME NEW f, NEW f2, SameRecords(f, f2)
  PROVE  \A i : Holds(f2, i) <=> Holds(f, i)
BY DEF SameRecords, Holds

LEMMA StoredSame ==
  ASSUME \A i : Holds(file', i) <=> Holds(file, i)
  PROVE  Stored' = Stored
<1>1. \A i : i \in Stored' <=> i \in Stored
  BY StoredIs, StoredIsNext
<1> QED
  BY <1>1

LEMMA GrowKeeps ==
  ASSUME n_pages \in Nat, DOMAIN file = 0..(n_pages - 1), Grow
  PROVE  Stored' = Stored
<1>1. file' = [k \in 0..n_pages |-> IF k = n_pages THEN BlankPage ELSE file[k]]
  BY DEF Grow, Extended
<1>2. n_pages \in Nat /\ DOMAIN file = 0..(n_pages - 1)
  OBVIOUS
<1> DEFINE n == n_pages
<1> HIDE DEF n
<1>3. /\ DOMAIN file' = 0..n /\ n \in Nat /\ DOMAIN file = 0..(n - 1)
      /\ \A j \in Slots : ~file'[n][j].present
      /\ \A k \in 0..(n - 1) : file'[k] = file[k]
  BY <1>1, <1>2 DEF n, BlankPage
<1>4. \A k \in 0..n : k = n \/ k \in 0..(n - 1)
  BY <1>3
<1>5. \A k \in 0..(n - 1) : k \in 0..n
  BY <1>3
<1>6. \A i : Holds(file', i) <=> Holds(file, i)
  BY <1>3, <1>4, <1>5 DEF Holds
<1> QED
  BY <1>6, StoredSame

LEMMA WriteRecordKeeps == ASSUME Fits, IInv, WriteRecord PROVE Stored' = Stored
BY WriteRecordStep, SameHeld, StoredSame

LEMMA WritePresentAdds ==
  ASSUME Fits, IInv, WritePresent
  PROVE  arg \in Idx /\ arg \notin Stored /\ Stored' = Stored \cup {arg}
<1> DEFINE n == n_pages
           k0 == n - 1
           j0 == pages[n - 1].n_data
<1>0. /\ open /\ AtPresent /\ arg \in 0..(IdxMod - 1) /\ arg \in Idx
  BY DEF IInv, Inserting, CallType, WritePresent
<1>1. /\ Laid(file, pages, n) /\ n \in Nat /\ DOMAIN file = 0..(n - 1)
      /\ k0 \in 0..(n - 1)
  BY <1>0, OpenFacts DEF AtPresent, AtRecord, HasRoom
<1>2. pages[k0] \in PageType /\ Describes(pages[k0], file[k0]) /\ file[k0] \in [Slots -> Record]
  BY <1>1, PageOf
<1>3. j0 \in Slots
  BY <1>0, <1>2, Bounds, SlotsAre, Numbers DEF AtPresent, AtRecord, HasRoom
<1>4. ~file[k0][j0].present
  <2>1. file[k0][j0].present => j0 < pages[k0].n_data
    BY <1>2, <1>3 DEF Describes
  <2>2. j0 \in Nat
    BY <1>3, SlotsAre
  <2> QED
    BY <2>1, <2>2
<1>5. Put(file, file', n, k0, j0, [present |-> TRUE, idx |-> arg])
  BY WritePresentStep DEF RecordAdded
<1>6. ~Holds(file, arg)
  <2>1. ASSUME NEW k \in 0..(n - 1) PROVE Outside(pages[k], arg)
    <3>1. /\ pages[k].n_data \in Nat /\ pages[k].end \in Nat
          /\ pages[k].n_data = 0 => pages[k].start = Invalid
      BY <1>1, PageOf, Bounds DEF Describes
    <3>2. pages[k].n_data > 0 => pages[k].end < arg
      BY <1>0 DEF AtPresent, AtRecord, EndsBelow
    <3> QED
      BY <3>1, <3>2, <1>0, Numbers DEF Outside
  <2> QED
    BY <2>1, <1>1, NotHeld
<1> HIDE DEF n, k0, j0
<1>7. /\ DOMAIN file' = 0..(n - 1)
      /\ file'[k0][j0].present /\ file'[k0][j0].idx = arg
      /\ \A k \in 0..(n - 1) : k # k0 => file'[k] = file[k]
      /\ \A j \in Slots : j # j0 => file'[k0][j] = file[k0][j]
  BY <1>5 DEF Put, Typed
<1>8. ASSUME NEW i PROVE Holds(file', i) <=> Holds(file, i) \/ i = arg
  <2>1. ASSUME Holds(file, i) PROVE Holds(file', i)
    <3>1. PICK k \in 0..(n - 1), j \in Slots : file[k][j].present /\ file[k][j].idx = i
      BY <2>1, <1>1 DEF Holds
    <3>2. ~(k = k0 /\ j = j0)
      BY <3>1, <1>4
    <3>3. file'[k][j] = file[k][j]
      BY <3>2, <1>7
    <3> QED
      BY <3>1, <3>3, <1>7 DEF Holds
  <2>2. Holds(file', arg)
    BY <1>1, <1>3, <1>7 DEF Holds
  <2>3. ASSUME Holds(file', i) PROVE Holds(file, i) \/ i = arg
    <3>1. PICK k \in 0..(n - 1), j \in Slots : file'[k][j].present /\ file'[k][j].idx = i
      BY <2>3, <1>7 DEF Holds
    <3>2. CASE k = k0 /\ j = j0
      BY <3>1, <3>2, <1>7
    <3>3. CASE ~(k = k0 /\ j = j0)
      <4>1. file'[k][j] = file[k][j]
        BY <3>3, <1>7
      <4> QED
        BY <4>1, <3>1, <1>1 DEF Holds
    <3> QED
      BY <3>2, <3>3
  <2> QED
    BY <2>1, <2>2, <2>3
<1> QED
  BY <1>0, <1>6, <1>8, StoredIs, StoredIsNext

LEMMA FoundTakes ==
  ASSUME Fits, IInv, Found
  PROVE  /\ arg \in Idx /\ arg \in Stored
         /\ op = "delete" => Stored' = Stored \ {arg}
         /\ op # "delete" => Stored' = Stored
<1> DEFINE n == n_pages
<1>0. SlotFacts(pages[page_n].n_data) /\ op # "none" /\ beg = end /\ pc = "slot"
  BY InSlots DEF Found, IInv, Looking
<1>1. /\ Laid(file, pages, n) /\ n \in Nat /\ DOMAIN file = 0..(n - 1)
      /\ page_n \in 0..(n - 1) /\ beg \in Slots /\ open
  BY <1>0, OpenFacts DEF SlotFacts
<1>2. arg \in Idx
  BY <1>0 DEF IInv, CallType
<1>3. /\ file[page_n][beg].present /\ file[page_n][beg].idx = arg
      /\ op = "delete" => Deleted(file, file', n, page_n, beg)
      /\ op # "delete" => file' = file
  BY FoundStep
<1>4. arg \in Stored
  BY <1>1, <1>3, StoredIs DEF Holds
<1>5. ASSUME op # "delete" PROVE Stored' = Stored
  BY <1>3, <1>5, StoredSame
<1>6. ASSUME op = "delete" PROVE Stored' = Stored \ {arg}
  <2>1. Put(file, file', n, page_n, beg, [present |-> FALSE, idx |-> file[page_n][beg].idx])
    BY <1>3, <1>6 DEF Deleted
  <2>2. /\ DOMAIN file' = 0..(n - 1)
        /\ ~file'[page_n][beg].present
        /\ \A k \in 0..(n - 1) : k # page_n => file'[k] = file[k]
        /\ \A j \in Slots : j # beg => file'[page_n][j] = file[page_n][j]
    BY <2>1 DEF Put, Typed
  <2>3. ASSUME NEW i, Holds(file', i) PROVE Holds(file, i) /\ i # arg
    <3>1. PICK k \in 0..(n - 1), j \in Slots : file'[k][j].present /\ file'[k][j].idx = i
      BY <2>2, <2>3 DEF Holds
    <3>2. ~(k = page_n /\ j = beg)
      BY <3>1, <2>2
    <3>3. file'[k][j] = file[k][j]
      BY <3>2, <2>2
    <3>4. i # arg
      BY <3>1, <3>2, <3>3, <1>0, SearchEnds
    <3> QED
      BY <3>1, <3>3, <3>4, <1>1 DEF Holds
  <2>4. ASSUME NEW i, Holds(file, i), i # arg PROVE Holds(file', i)
    <3>1. PICK k \in 0..(n - 1), j \in Slots : file[k][j].present /\ file[k][j].idx = i
      BY <2>4, <1>1 DEF Holds
    <3>2. ~(k = page_n /\ j = beg)
      BY <3>1, <2>4, <1>3
    <3>3. file'[k][j] = file[k][j]
      BY <3>2, <2>2
    <3> QED
      BY <3>1, <3>3, <2>2 DEF Holds
  <2> QED
    BY <2>3, <2>4, StoredIs, StoredIsNext
<1> QED
  BY <1>2, <1>4, <1>5, <1>6

\* No other step touches a record.
LEMMA OthersKeep ==
  ASSUME \/ Open \/ OpenFails \/ Close \/ Crash \/ GrowFails \/ Reject \/ Accept
         \/ SearchPage \/ PageFound \/ OutOfRange \/ EnterPage \/ SearchSlot
         \/ SlotMiss \/ Absent \/ UNCHANGED vars
         \/ \E i \in Idx : Insert(i) \/ Look("search", i) \/ Look("delete", i)
  PROVE  Stored' = Stored
<1>1. file' = file
  BY DEF Open, OpenFails, Close, Crash, GrowFails, Reject, Accept, SearchPage, PageFound,
         OutOfRange, EnterPage, SearchSlot, SlotMiss, Absent, Insert, Look, vars, store
<1> QED
  BY <1>1, StoredSame

LEMMA StepImplements == ASSUME Fits, IInv, [Next]_vars PROVE [I!Next]_<<Stored, ans>>
<1>1. CASE \/ Open \/ OpenFails \/ Close \/ Crash \/ GrowFails \/ Reject \/ Accept
           \/ SearchPage \/ PageFound \/ OutOfRange \/ EnterPage \/ SearchSlot
           \/ SlotMiss \/ UNCHANGED vars
  <2>1. ans' = ans
    BY <1>1 DEF Open, OpenFails, Close, Crash, GrowFails, Reject, Accept, SearchPage,
                PageFound, OutOfRange, EnterPage, SearchSlot, SlotMiss, vars
  <2>2. Stored' = Stored
    BY <1>1, OthersKeep
  <2> QED
    BY <2>1, <2>2
<1>2. CASE Grow \/ WriteRecord
  <2>1. ans' = ans
    BY <1>2 DEF Grow, WriteRecord
  <2>2. CASE Grow
    <3>1. open
      BY <2>2, CallsAreOpen DEF Grow
    <3>2. Stored' = Stored
      BY <2>2, <3>1, OpenFacts, GrowKeeps
    <3> QED
      BY <2>1, <3>2
  <2>3. CASE WriteRecord
    BY <2>1, <2>3, WriteRecordKeeps
  <2> QED
    BY <1>2, <2>2, <2>3
<1>3. ASSUME NEW i \in Idx, Insert(i) \/ Look("search", i) \/ Look("delete", i)
      PROVE  I!Begin
  <2>1. ans' = NoAnswer
    BY <1>3 DEF Insert, Look
  <2>2. Stored' = Stored
    BY <1>3, OthersKeep
  <2> QED
    BY <2>1, <2>2 DEF I!Begin
<1>4. CASE WritePresent
  <2>1. ans' = ans
    BY <1>4 DEF WritePresent
  <2>2. arg \in Idx /\ I!Insert(arg)
    BY <1>4, <2>1, WritePresentAdds DEF I!Insert
  <2> QED
    BY <2>2 DEF I!Next
<1>5. CASE Absent
  <2>1. ans' = Answer(arg, FALSE) /\ Stored' = Stored
    BY <1>5, OthersKeep DEF Absent
  <2>2. ~Holds(file, arg)
    BY <1>5, AbsentStep
  <2>3. arg \notin Stored
    BY <2>2, StoredIs
  <2>4. pc = "absent"
    BY <1>5 DEF Absent
  <2>5. op \in {"search", "delete"}
    BY <2>4 DEF IInv, Looking
  <2>6. arg \in Idx
    BY <2>5 DEF IInv, CallType
  <2>7. I!Look(arg)
    <3> HIDE DEF Stored
    <3>1. (arg \in Stored) = FALSE
      BY <2>3
    <3> QED
      BY <2>1, <3>1, Zenon DEF I!Look, I!Answer, Answer
  <2> QED
    BY <2>6, <2>7 DEF I!Next
<1>6. CASE Found
  <2>1. ans' = Answer(arg, TRUE)
    BY <1>6 DEF Found
  <2>2. /\ arg \in Idx /\ arg \in Stored
        /\ op = "delete" => Stored' = Stored \ {arg}
        /\ op # "delete" => Stored' = Stored
    BY <1>6, FoundTakes
  <2>3. I!Delete(arg) \/ I!Look(arg)
    BY <2>1, <2>2 DEF I!Delete, I!Look, I!Answer, Answer
  <2> QED
    BY <2>2, <2>3 DEF I!Next
<1> QED
  BY <1>1, <1>2, <1>3, <1>4, <1>5, <1>6 DEF Next, Continue, I!Next

\* Until an index goes astray or a file with holes is opened, mmp_barray keeps
\* exactly the records inserted and not deleted, over crashes at any step, failures
\* and reopening, and a search or a deletion that answers says whether the index is
\* there.
THEOREM StoreImplements == ASSUME Fits PROVE Spec => IsIndexStore
<1>1. Init => I!Init
  <2> SUFFICES ASSUME Init PROVE I!Init
    OBVIOUS
  <2>1. DOMAIN file = {} /\ ans = NoAnswer
    BY DEF Init
  <2>2. \A i : i \notin Stored
    BY <2>1, StoredIs DEF Holds
  <2> QED
    BY <2>1, <2>2 DEF I!Init
<1>2. SoundIInv /\ [Next]_vars => [Sound' => [I!Next]_<<Stored, ans>>]_vars
  BY SoundBefore, StepImplements DEF SoundIInv
<1> QED
  BY <1>1, <1>2, InvariantHolds, PTL DEF Spec, IsIndexStore

-----------------------------------------------------------------------------
(***************************************************************************)
(* What a step does to the other records, and to the one it was given, in  *)
(* any order of the records.                                               *)
(***************************************************************************)
\* A page counts all its records, until a file with holes is opened.
Counted == open /\ ~holed =>
              \A k \in DOMAIN pages, j \in Slots : file[k][j].present => j < pages[k].n_data

\* A store into a slot loses no other index.
LEMMA PutHolds ==
  ASSUME Fits, NEW f, NEW f2, NEW n, Typed(f, n), NEW k0 \in 0..(n - 1),
         NEW j0 \in Slots, NEW r, Put(f, f2, n, k0, j0, r), NEW i, Holds(f, i)
  PROVE  Holds(f2, i) \/ (f[k0][j0].present /\ f[k0][j0].idx = i)
<1>1. /\ DOMAIN f = 0..(n - 1) /\ DOMAIN f2 = 0..(n - 1)
      /\ \A k \in 0..(n - 1) : k # k0 => f2[k] = f[k]
      /\ \A j \in Slots : j # j0 => f2[k0][j] = f[k0][j]
  BY DEF Put, Typed
<1>2. PICK k \in 0..(n - 1) : \E j \in Slots : f[k][j].present /\ f[k][j].idx = i
  BY <1>1 DEF Holds
<1>3. PICK j \in Slots : f[k][j].present /\ f[k][j].idx = i
  BY <1>2
<1>4. CASE k = k0 /\ j = j0
  BY <1>3, <1>4
<1>5. CASE ~(k = k0 /\ j = j0)
  <2>1. f2[k][j] = f[k][j]
    BY <1>1, <1>5
  <2> QED
    BY <2>1, <1>1, <1>3 DEF Holds
<1> QED
  BY <1>4, <1>5

\* The slot that an insertion writes holds no record.
LEMMA SlotIsFree ==
  ASSUME Fits, Kinds, Counted, ~holed, pc \in {"record", "present"}
  PROVE  ~file[n_pages - 1][pages[n_pages - 1].n_data].present
<1> DEFINE j == pages[n_pages - 1].n_data
<1>1. /\ open /\ j \in Slots /\ n_pages - 1 \in 0..(n_pages - 1)
      /\ pages \in [0..(n_pages - 1) -> PageType]
  BY SlotWritten
<1>2. ~(j < j)
  BY <1>1, SlotsAre
<1>3. file[n_pages - 1][j].present => j < j
  BY <1>1 DEF Counted
<1> QED
  BY <1>2, <1>3

\* In a page without holes the records are counted.
LEMMA OpenCounts == ASSUME Fits, Kinds, Open, ~holed' PROVE Counted'
<1>0. PICK m \in Nat : Typed(file, m)
  BY DEF Kinds
<1>1. /\ pages' = [k \in DOMAIN file |-> ReadPage(file[k])] /\ file' = file
      /\ ~HasHoles /\ DOMAIN file = 0..(m - 1)
  BY <1>0 DEF Open, Typed
<1>2. ASSUME NEW k \in DOMAIN file, NEW j \in Slots, file[k][j].present
      PROVE  j < ReadPage(file[k]).n_data
  <2> USE Numbers, SlotsAre
  <2> DEFINE s == file[k]
             P == {l \in Slots : s[l].present}
  <2>1. j \in P /\ P \subseteq Slots
    BY <1>2
  <2>2. 0..j \subseteq P
    <3>1. \A l \in Slots : l < j => s[l].present
      BY <1>1, <1>2 DEF HasHoles
    <3>2. \A l \in 0..j : l \in Slots /\ (l < j \/ l = j)
      OBVIOUS
    <3> QED
      BY <3>1, <3>2, <1>2
  <2>3. Cardinality(P) \in 0..RecsPerPage /\ j + 1 <= Cardinality(P)
    <3>1. IsFiniteSet(0..(RecsPerPage - 1)) /\ Cardinality(0..(RecsPerPage - 1)) = RecsPerPage
      <4>1. RecsPerPage - 1 \in Nat /\ (RecsPerPage - 1) + 1 = RecsPerPage
        OBVIOUS
      <4> QED
        BY <4>1, Counts, FS_Interval
    <3>2. IsFiniteSet(P) /\ Cardinality(P) <= RecsPerPage
      BY <3>1, FS_Subset
    <3>3. Cardinality(0..j) = j + 1
      <4>1. j \in Nat
        OBVIOUS
      <4> QED
        BY <4>1, FS_Interval
    <3>4. Cardinality(0..j) <= Cardinality(P)
      BY <2>2, <3>2, FS_Subset
    <3>5. Cardinality(P) \in Nat
      BY <3>2, FS_CardinalityType
    <3> HIDE DEF P
    <3> QED
      BY <3>2, <3>3, <3>4, <3>5
  <2>4. Cardinality(P) % CountMod = Cardinality(P)
    <3> HIDE DEF P
    <3>1. Cardinality(P) \in 0..(CountMod - 1)
      BY <2>3
    <3> QED
      BY <3>1, Small
  <2>5. ReadPage(s).n_data = Cardinality(P) % CountMod
    <3>1. P # {}
      BY <2>1
    <3> QED
      BY <3>1 DEF ReadPage
  <2> HIDE DEF P
  <2>6. j \in Nat
    OBVIOUS
  <2> QED
    BY <2>3, <2>4, <2>5, <2>6
<1> QED
  BY <1>1, <1>2 DEF Counted

LEMMA StepCounted == ASSUME Fits, Kinds, Counted, [Next]_vars PROVE Counted'
<1> SUFFICES ASSUME open', ~holed' PROVE Counted'
  BY DEF Counted
<1>1. CASE Open
  BY <1>1, OpenCounts
<1>2. CASE OpenFails \/ Close \/ Crash
  BY <1>2 DEF OpenFails, Close, Crash, store
<1>3. ASSUME open' = open, holed' = holed, file' = file, DOMAIN pages' = DOMAIN pages,
             \A k \in DOMAIN pages : pages'[k].n_data = pages[k].n_data
      PROVE  Counted'
  BY <1>3 DEF Counted
<1>4. ASSUME NEW i \in Idx, Insert(i) \/ Look("search", i) \/ Look("delete", i)
      PROVE  Counted'
  BY <1>3, <1>4 DEF Insert, Look, store, history
<1>5. CASE \/ GrowFails \/ Reject \/ SearchPage \/ PageFound \/ OutOfRange
           \/ SearchSlot \/ SlotMiss \/ Absent
  BY <1>3, <1>5 DEF GrowFails, Reject, SearchPage, PageFound, OutOfRange, SearchSlot,
                    SlotMiss, Absent, store, history
<1>6. CASE UNCHANGED vars
  BY <1>3, <1>6 DEF vars, store, history
<1>7. CASE Accept
  <2>1. open /\ HasRoom /\ MapIfNeeded(n_pages - 1)
    BY <1>7, KindsOpen DEF Kinds, CallAt, Accept
  <2>2. /\ n_pages \in Nat /\ n_pages - 1 \in 0..(n_pages - 1) /\ Caches(cache, pages)
        /\ pages \in [0..(n_pages - 1) -> PageType]
    BY <2>1, KindsFacts DEF HasRoom
  <2>3. Mapping(n_pages - 1)
    BY <2>1, <2>2, MapsIfNeeded
  <2> QED
    BY <1>3, <1>7, <2>3 DEF Accept, Mapping, Remapped, history
<1>8. CASE EnterPage
  <2>1. open /\ page_n \in 0..(n_pages - 1) /\ MapIfNeeded(page_n)
    BY <1>8, KindsOpen DEF Kinds, CallAt, EnterPage
  <2>2. /\ n_pages \in Nat /\ Caches(cache, pages)
        /\ pages \in [0..(n_pages - 1) -> PageType]
    BY <2>1, KindsFacts
  <2>3. Mapping(page_n)
    BY <2>1, <2>2, MapsIfNeeded
  <2> QED
    BY <1>3, <1>8, <2>3 DEF EnterPage, Mapping, Remapped, history
<1>9. CASE Grow
  <2>1. /\ open /\ holed' = holed
        /\ file' = [k \in 0..n_pages |-> IF k = n_pages THEN BlankPage ELSE file[k]]
        /\ pages' = [k \in 0..n_pages |-> IF k = n_pages THEN EmptyPage ELSE pages[k]]
    BY <1>9, KindsOpen DEF Grow, Extended, history
  <2>2. DOMAIN pages = 0..(n_pages - 1) /\ n_pages \in Nat
    BY <2>1, KindsFacts
  <2>3. \A k \in 0..n_pages : k = n_pages \/ (k \in DOMAIN pages /\ k # n_pages)
    BY <2>2
  <2>4. ASSUME NEW k \in DOMAIN pages', NEW j \in Slots, file'[k][j].present
        PROVE  j < pages'[k].n_data
    <3>1. k \in 0..n_pages
      BY <2>1
    <3>2. k # n_pages
      BY <2>1, <2>4, <3>1 DEF BlankPage
    <3>3. file'[k] = file[k] /\ pages'[k] = pages[k] /\ k \in DOMAIN pages
      BY <2>1, <2>3, <3>1, <3>2
    <3> QED
      BY <2>1, <2>4, <3>3 DEF Counted
  <2> QED
    BY <2>4 DEF Counted
<1>10. CASE WriteRecord
  <2>1. /\ open /\ pages' = pages /\ holed' = holed
        /\ pages \in [0..(n_pages - 1) -> PageType]
    BY <1>10, SlotWritten DEF WriteRecord, history
  <2>2. \A k \in 0..(n_pages - 1), j \in Slots : file'[k][j].present = file[k][j].present
    BY <1>10, RecordKinds DEF Put
  <2> QED
    BY <2>1, <2>2 DEF Counted
<1>11. CASE WritePresent
  <2> DEFINE n == n_pages
             j0 == pages[n - 1].n_data
  <2>1. /\ open /\ holed' = holed /\ DOMAIN pages = 0..(n - 1) /\ j0 \in Nat
        /\ n - 1 \in 0..(n - 1)
    BY <1>11, SlotWritten, SlotsAre DEF WritePresent, history
  <2>2. /\ DOMAIN pages' = DOMAIN pages /\ pages'[n - 1].n_data = j0 + 1
        /\ \A k \in DOMAIN pages : k # n - 1 => pages'[k] = pages[k]
        /\ Put(file, file', n, n - 1, j0, [present |-> TRUE, idx |-> arg % IdxMod])
    BY <1>11, PresentKinds
  <2>3. ASSUME NEW k \in DOMAIN pages', NEW j \in Slots, file'[k][j].present
        PROVE  j < pages'[k].n_data
    <3>1. CASE k # n - 1
      <4>1. file'[k] = file[k] /\ pages'[k] = pages[k] /\ k \in DOMAIN pages
        BY <2>1, <2>2, <3>1 DEF Put
      <4> QED
        BY <2>1, <2>3, <4>1 DEF Counted
    <3>2. CASE k = n - 1 /\ j = j0
      BY <2>1, <2>2, <3>2
    <3>3. CASE k = n - 1 /\ j # j0
      <4>1. file[n - 1][j].present
        BY <2>2, <2>3, <3>3 DEF Put
      <4>2. j < j0 /\ j \in Nat
        BY <2>1, <4>1, SlotsAre DEF Counted
      <4> HIDE DEF j0
      <4> QED
        BY <2>1, <2>2, <3>3, <4>2
    <3> QED
      BY <3>1, <3>2, <3>3
  <2> QED
    BY <2>3 DEF Counted
<1>12. CASE Found
  <2>1. /\ open /\ pages' = pages /\ holed' = holed /\ DOMAIN pages = 0..(n_pages - 1)
    BY <1>12, FoundKinds, KindsFacts DEF Found, history
  <2>2. \A k \in 0..(n_pages - 1), j \in Slots : file'[k][j].present => file[k][j].present
    BY <1>12, FoundKinds DEF Put
  <2> QED
    BY <2>1, <2>2 DEF Counted
<1> QED
  BY <1>1, <1>2, <1>4, <1>5, <1>6, <1>7, <1>8, <1>9, <1>10, <1>11, <1>12 DEF Next, Continue

LEMMA CountedHolds == ASSUME Fits PROVE Spec => []Counted
<1>1. Init => Counted
  BY DEF Init, Counted
<1>2. Kinds /\ Counted /\ [Next]_vars => Counted'
  BY StepCounted
<1> QED
  BY <1>1, <1>2, KindsHold, PTL DEF Spec

LEMMA StepSurvives ==
  ASSUME Fits, Kinds, Counted, [Next]_vars, ~holed'
  PROVE  \A i \in Stored : i \in Stored' \/ (op = "delete" /\ arg = i)
<1> HIDE DEF Stored
<1>1. CASE \/ Open \/ OpenFails \/ Close \/ Crash \/ GrowFails \/ Reject \/ Accept
           \/ SearchPage \/ PageFound \/ OutOfRange \/ EnterPage \/ SearchSlot
           \/ SlotMiss \/ Absent \/ UNCHANGED vars
           \/ \E i \in Idx : Insert(i) \/ Look("search", i) \/ Look("delete", i)
  BY <1>1, OthersKeep
<1>2. CASE Grow
  <2>1. open
    BY <1>2, KindsOpen DEF Grow
  <2> QED
    BY <1>2, <2>1, KindsFacts, GrowKeeps
<1>3. ASSUME WriteRecord \/ WritePresent, NEW i \in Stored PROVE i \in Stored'
  <2> DEFINE n == n_pages
             j0 == pages[n - 1].n_data
  <2>1. ~holed /\ pc \in {"record", "present"}
    BY <1>3 DEF WriteRecord, WritePresent, history
  <2>2. /\ ~file[n - 1][j0].present /\ Typed(file, n) /\ n - 1 \in 0..(n - 1)
        /\ j0 \in Slots
    BY <2>1, SlotIsFree, SlotWritten
  <2>3. \E r : Put(file, file', n, n - 1, j0, r)
    BY <1>3, RecordKinds, PresentKinds
  <2>4. Holds(file, i)
    BY <1>3, StoredIs
  <2> HIDE DEF n, j0
  <2>5. Holds(file', i)
    BY <2>2, <2>3, <2>4, PutHolds
  <2> QED
    BY <2>5, StoredIsNext
<1>4. ASSUME Found, NEW i \in Stored PROVE i \in Stored' \/ (op = "delete" /\ arg = i)
  <2>1. CASE op # "delete"
    <3>1. Stored' = Stored
      BY <1>4, <2>1, FoundKinds, StoredSame
    <3> QED
      BY <3>1, <1>4
  <2>2. CASE op = "delete"
    <3>1. /\ Typed(file, n_pages) /\ page_n \in 0..(n_pages - 1) /\ beg \in Slots
          /\ file[page_n][beg].idx = arg
          /\ Put(file, file', n_pages, page_n, beg,
                 [present |-> FALSE, idx |-> file[page_n][beg].idx])
      BY <1>4, <2>2, FoundKinds
    <3>2. Holds(file, i)
      BY <1>4, StoredIs
    <3>3. Holds(file', i) \/ arg = i
      BY <3>1, <3>2, PutHolds
    <3> QED
      BY <2>2, <3>3, StoredIsNext
  <2> QED
    BY <2>1, <2>2
<1> QED
  BY <1>1, <1>2, <1>3, <1>4 DEF Next, Continue

\* No insertion, however it goes astray, no search, crash, failure or opening takes
\* a record out of the file (mmp_barray.h:58), until a file with holes is opened;
\* and a deletion takes none but its own.
THEOREM OthersStay == ASSUME Fits PROVE Spec => SurviveUnlessHoled
<1>1. Kinds /\ Counted /\ [Next]_vars =>
        [~holed' => \A i \in Stored : i \in Stored' \/ (op = "delete" /\ arg = i)]_vars
  BY StepSurvives
<1> QED
  BY <1>1, KindsHold, CountedHolds, PTL DEF Spec, SurviveUnlessHoled

LEMMA StepInserts ==
  ASSUME Fits, Kinds, [Next]_vars, pc = "present", open'
  PROVE  arg % IdxMod \in Stored' \/ UNCHANGED vars
<1>1. open
  BY KindsOpen
<1>2. CASE WritePresent
  <2> DEFINE n == n_pages
             j0 == pages[n - 1].n_data
  <2>1. /\ n - 1 \in 0..(n - 1) /\ j0 \in Slots
        /\ Put(file, file', n, n - 1, j0, [present |-> TRUE, idx |-> arg % IdxMod])
    BY <1>2, SlotWritten, PresentKinds
  <2> HIDE DEF n, j0
  <2>2. /\ DOMAIN file' = 0..(n - 1) /\ file'[n - 1][j0].present
        /\ file'[n - 1][j0].idx = arg % IdxMod
    BY <2>1 DEF Put, Typed
  <2>3. Holds(file', arg % IdxMod)
    BY <2>1, <2>2 DEF Holds
  <2> QED
    BY <2>3, StoredIsNext
<1>3. Crash \/ WritePresent \/ UNCHANGED vars
  BY <1>1 DEF Next, Continue, Open, OpenFails, Close, Insert, Look, Idle, Grow, GrowFails,
              Reject, Accept, WriteRecord, SearchPage, PageFound, OutOfRange, EnterPage,
              SearchSlot, SlotMiss, Absent, Found
<1> QED
  BY <1>2, <1>3 DEF Crash

\* An insertion that stores its present bit has stored a record under what the bit
\* field leaves of the index it was called with.
THEOREM Inserted == ASSUME Fits PROVE Spec => StoredAsCut
<1> HIDE DEF Stored
<1>1. Kinds /\ [Next]_vars => [pc = "present" /\ open' => arg % IdxMod \in Stored']_vars
  BY StepInserts
<1> QED
  BY <1>1, KindsHold, PTL DEF Spec, StoredAsCut

LEMMA AbsentIsAbsent ==
  ASSUME SoundIInv, Sound, pc = "absent"
  PROVE  arg \notin Stored
<1>1. ~Holds(file, arg)
  BY DEF SoundIInv, IInv, Looking
<1> QED
  BY <1>1, StoredIs

\* Until an index goes astray or a file with holes is opened, a search that is about
\* to answer "absent" is right: the two binary searches miss no record, though they
\* compare with the slots of deleted ones.
THEOREM SearchesFind == ASSUME Fits PROVE Spec => MissesNone
<1> HIDE DEF Stored
<1>1. SoundIInv /\ [Next]_vars =>
        [Sound /\ pc = "absent" /\ pc' = "idle" => arg \notin Stored \/ ~open']_vars
  BY AbsentIsAbsent
<1> QED
  BY <1>1, InvariantHolds, PTL DEF Spec, MissesNone
=============================================================================
