----------------------------- MODULE Htab_proofs -----------------------------
(***************************************************************************)
(* Proofs about Htab, for every set of keys, values and elements, every    *)
(* hash of the keys and every number of buckets.                           *)
(***************************************************************************)
EXTENDS Htab, SequenceTheorems, TLAPS

-----------------------------------------------------------------------------
(***************************************************************************)
(* Sequences, and the hash.                                                *)
(***************************************************************************)
\* Removing a place of a sequence moves those after it down by one.
LEMMA RemoveAtFacts ==
  ASSUME NEW S, NEW o \in Seq(S), NEW i \in 1..Len(o)
  PROVE  /\ RemoveAt(o, i) \in Seq(S)
         /\ Len(RemoveAt(o, i)) = Len(o) - 1
         /\ \A j \in 1..(Len(o) - 1) :
               RemoveAt(o, i)[j] = IF j < i THEN o[j] ELSE o[j + 1]
<1> DEFINE a == SubSeq(o, 1, i - 1)
           c == SubSeq(o, i + 1, Len(o))
<1>0. Len(o) \in Nat /\ \A j \in 1..Len(o) : o[j] \in S
  BY LenProperties, ElementOfSeq
<1>1. a \in Seq(S) /\ Len(a) = i - 1 /\ \A j \in 1..(i - 1) : a[j] = o[j]
  <2>1. /\ SubSeq(o, 1, i - 1) \in Seq(S)
        /\ Len(SubSeq(o, 1, i - 1)) = IF 1 <= i - 1 THEN i - 1 - 1 + 1 ELSE 0
        /\ \A j \in 1..(i - 1 - 1 + 1) : SubSeq(o, 1, i - 1)[j] = o[1 + j - 1]
    <3>1. i - 1 \in Int /\ 1 \in Int /\ \A j \in 1..(i - 1) : o[j] \in S
      BY <1>0
    <3> QED
      BY <3>1, SubSeqProperties
  <2> QED
    BY <2>1, <1>0
<1>3. /\ c \in Seq(S) /\ Len(c) = Len(o) - i
      /\ \A j \in 1..(Len(o) - i) : c[j] = o[i + j]
  <2>1. /\ SubSeq(o, i + 1, Len(o)) \in Seq(S)
        /\ Len(SubSeq(o, i + 1, Len(o))) =
              IF i + 1 <= Len(o) THEN Len(o) - (i + 1) + 1 ELSE 0
        /\ \A j \in 1..(Len(o) - (i + 1) + 1) :
              SubSeq(o, i + 1, Len(o))[j] = o[(i + 1) + j - 1]
    <3>1. i + 1 \in Int /\ Len(o) \in Int /\ \A j \in (i + 1)..Len(o) : o[j] \in S
      BY <1>0
    <3> QED
      BY <3>1, SubSeqProperties
  <2>2. \A j \in Int : (i + 1) + j - 1 = i + j
    BY <1>0
  <2> QED
    BY <2>1, <2>2, <1>0
<1> HIDE DEF a, c
<1>5. /\ a \o c \in Seq(S) /\ Len(a \o c) = Len(o) - 1
      /\ \A j \in 1..(Len(o) - 1) :
            (a \o c)[j] = IF j <= i - 1 THEN a[j] ELSE c[j - (i - 1)]
  <2>1. /\ a \o c \in Seq(S) /\ Len(a \o c) = Len(a) + Len(c)
        /\ \A j \in 1..(Len(a) + Len(c)) :
              (a \o c)[j] = IF j <= Len(a) THEN a[j] ELSE c[j - Len(a)]
    BY <1>1, <1>3, ConcatProperties
  <2> QED
    BY <2>1, <1>1, <1>3, <1>0
<1>6. RemoveAt(o, i) = a \o c
  BY DEF RemoveAt, a, c
<1>7. ASSUME NEW j \in 1..(Len(o) - 1)
      PROVE  (a \o c)[j] = IF j < i THEN o[j] ELSE o[j + 1]
  <2>1. CASE j < i
    BY <2>1, <1>0, <1>1, <1>5
  <2>3. CASE ~(j < i)
    <3>1. j - (i - 1) \in 1..(Len(o) - i) /\ i + (j - (i - 1)) = j + 1
      BY <2>3, <1>0
    <3> QED
      BY <2>3, <3>1, <1>0, <1>3, <1>5
  <2> QED
    BY <2>1, <2>3
<1> QED
  BY <1>5, <1>6, <1>7

\* An element put in front moves all others up by one.
LEMMA ConsFacts ==
  ASSUME NEW S, NEW o \in Seq(S), NEW x \in S
  PROVE  /\ <<x>> \o o \in Seq(S)
         /\ Len(<<x>> \o o) = Len(o) + 1
         /\ \A j \in 1..(Len(o) + 1) :
               (<<x>> \o o)[j] = IF j = 1 THEN x ELSE o[j - 1]
<1>0. Len(o) \in Nat
  BY LenProperties
<1>1. <<x>> \in Seq(S) /\ Len(<<x>>) = 1 /\ <<x>>[1] = x
  OBVIOUS
<1>2. /\ <<x>> \o o \in Seq(S)
      /\ Len(<<x>> \o o) = Len(<<x>>) + Len(o)
      /\ \A j \in 1..(Len(<<x>>) + Len(o)) :
            (<<x>> \o o)[j] = IF j <= Len(<<x>>) THEN <<x>>[j] ELSE o[j - Len(<<x>>)]
  BY <1>1, ConcatProperties
<1> QED
  BY <1>0, <1>1, <1>2

LEMMA Marks ==
  /\ Null \notin Node /\ Junk \notin Node /\ Null # Junk
  /\ Null \notin Key /\ Junk \notin Key /\ Null \notin Val /\ Junk \notin Val
  /\ Size \in Nat /\ Size > 0
BY NodeAssumption, KeyAssumption, SizeAssumption

\* A key hashes to a bucket, whatever the limit.
LEMMA Hashes ==
  ASSUME NEW k \in Key, NEW max \in Nat
  PROVE  Hash(k, max) \in Buckets
<1>1. Len(Digest[k]) \in Nat /\ \A n \in 1..Len(Digest[k]) : Digest[k][n] \in Nat
  <2>1. Digest[k] \in Seq(Nat)
    BY KeyAssumption
  <2> QED
    BY <2>1, LenProperties, ElementOfSeq
<1> DEFINE n == IF AsInt(max) < Len(Digest[k]) THEN AsInt(max) ELSE Len(Digest[k])
<1>2. AsInt(max) \in Int
  BY WidthAssumption DEF AsInt
<1>3. n \in Int /\ n <= Len(Digest[k])
  BY <1>1, <1>2
<1>4. Hash(k, max) = IF n <= 0 THEN 0 ELSE Digest[k][n] % Size
  BY DEF Hash
<1> HIDE DEF n
<1>5. CASE n <= 0
  BY <1>4, <1>5, Marks DEF Buckets
<1>6. CASE ~(n <= 0)
  <2>1. Digest[k][n] \in Nat
    BY <1>1, <1>3, <1>6
  <2>2. Digest[k][n] % Size \in 0..(Size - 1)
    BY <2>1, Marks
  <2> QED
    BY <1>4, <1>6, <2>2 DEF Buckets
<1> QED
  BY <1>5, <1>6

LEMMA Whole32 == UIntMax \in Nat
BY WidthAssumption DEF UIntMax

\* Without a length, every key hashes to the bucket 0: UINT_MAX is -1 as an int.
LEMMA Hash0 == ASSUME NEW k \in Key PROVE Hash(k, UIntMax) = 0
<1>1. AsInt(UIntMax) = -1
  <2>1. UIntMod \div 2 <= UIntMod - 1 /\ UIntMod - 1 \in Nat
    BY WidthAssumption
  <2> QED
    BY <2>1, WidthAssumption DEF AsInt, UIntMax
<1>2. Len(Digest[k]) \in Nat
  BY KeyAssumption, LenProperties
<1> QED
  BY <1>1, <1>2 DEF Hash

-----------------------------------------------------------------------------
(***************************************************************************)
(* Chains, and the pointers along them.                                    *)
(***************************************************************************)
\* The place i of a chain, or NULL before and after it.
At(o, i) == IF i \in 1..Len(o) THEN o[i] ELSE Null

\* The chains ch hold each element in one place.
Chains(ch) == /\ ch \in [Buckets -> Seq(Node)]
              /\ \A b, c \in Buckets : \A i \in 1..Len(ch[b]), j \in 1..Len(ch[c]) :
                    ch[b][i] = ch[c][j] => b = c /\ i = j

In(ch, n) == \E b \in Buckets : \E i \in 1..Len(ch[b]) : ch[b][i] = n

\* The pointers run along the chains, both ways.
Links(ps, nx, pv, ch) ==
    \A b \in Buckets :
       /\ ps[b] = At(ch[b], 1)
       /\ \A i \in 1..Len(ch[b]) : /\ nx[ch[b][i]] = At(ch[b], i + 1)
                                   /\ pv[ch[b][i]] = At(ch[b], i - 1)

\* A key has one element, in the bucket of the key.
Unique(ky, ch) == \A m, n \in Node :
                     In(ch, m) /\ In(ch, n) /\ ky[m] = ky[n] => m = n \/ ky[m] = Null
Placed(ky, ch) == \A b \in Buckets : \A i \in 1..Len(ch[b]) :
                     ky[ch[b][i]] # Null => b = Hash(ky[ch[b][i]], UIntMax)


\* What the chains ch hold, place by place.
Shape(ch) == /\ \A b \in Buckets : ch[b] \in Seq(Node) /\ Len(ch[b]) \in Nat
             /\ \A b \in Buckets : \A i \in 1..Len(ch[b]) :
                   ch[b][i] \in Node /\ ch[b][i] # Null
LEMMA ChainShape == ASSUME NEW ch, Chains(ch) PROVE Shape(ch)
<1>1. ASSUME NEW b \in Buckets PROVE ch[b] \in Seq(Node) /\ Len(ch[b]) \in Nat
  BY LenProperties DEF Chains
<1>2. ASSUME NEW b \in Buckets, NEW i \in 1..Len(ch[b])
      PROVE  ch[b][i] \in Node /\ ch[b][i] # Null
  BY <1>1, ElementOfSeq, Marks
<1> QED
  BY <1>1, <1>2 DEF Shape

\* The chains ch2 are ch with n put in front of the chain c.
Added(ch, ch2, c, n) ==
    /\ Chains(ch2)
    /\ Len(ch2[c]) = Len(ch[c]) + 1
    /\ \A j \in 1..(Len(ch[c]) + 1) : ch2[c][j] = IF j = 1 THEN n ELSE ch[c][j - 1]
    /\ \A b \in Buckets : b # c => ch2[b] = ch[b]
    /\ \A m : In(ch2, m) <=> In(ch, m) \/ m = n

LEMMA Prepended ==
  ASSUME NEW ch, Chains(ch), NEW c \in Buckets, NEW n \in Node, ~In(ch, n),
         NEW ch2, ch2 = [ch EXCEPT ![c] = <<n>> \o @]
  PROVE  Added(ch, ch2, c, n)
<1>0. Shape(ch)
  BY ChainShape
<1>1. /\ ch2[c] \in Seq(Node) /\ Len(ch2[c]) = Len(ch[c]) + 1
      /\ \A j \in 1..(Len(ch[c]) + 1) : ch2[c][j] = IF j = 1 THEN n ELSE ch[c][j - 1]
  <2>1. ch2[c] = <<n>> \o ch[c]
    BY DEF Chains
  <2> QED
    BY <2>1, <1>0, ConsFacts DEF Shape
<1>2. \A b \in Buckets : b # c => ch2[b] = ch[b]
  BY DEF Chains
<1>3. ch2 \in [Buckets -> Seq(Node)]
  BY <1>1 DEF Chains
<1>4. Len(ch[c]) \in Nat
  BY <1>0 DEF Shape
<1>5. \A b \in Buckets : \A i \in 1..Len(ch[b]) : ch[b][i] # n
  BY DEF In
<1>6. ASSUME NEW b \in Buckets, NEW d \in Buckets, NEW i \in 1..Len(ch2[b]),
             NEW j \in 1..Len(ch2[d]), ch2[b][i] = ch2[d][j]
      PROVE  b = d /\ i = j
  <2>1. CASE b = c /\ d = c
    <3>1. i \in 1..(Len(ch[c]) + 1) /\ j \in 1..(Len(ch[c]) + 1)
      BY <2>1, <1>1
    <3>2. CASE i = 1 \/ j = 1
      <4>1. \A k \in 1..(Len(ch[c]) + 1) : ch2[c][k] = n <=> k = 1
        <5>1. \A k \in 1..(Len(ch[c]) + 1) : k # 1 => k - 1 \in 1..Len(ch[c])
          BY <1>4
        <5> QED
          BY <5>1, <1>1, <1>5
      <4> QED
        BY <2>1, <3>1, <3>2, <4>1, <1>6
    <3>3. CASE i # 1 /\ j # 1
      <4>1. i - 1 \in 1..Len(ch[c]) /\ j - 1 \in 1..Len(ch[c])
        BY <3>1, <3>3, <1>4
      <4>2. ch[c][i - 1] = ch[c][j - 1]
        BY <2>1, <3>1, <3>3, <1>1, <1>6
      <4>3. i - 1 = j - 1
        BY <4>1, <4>2 DEF Chains
      <4> QED
        BY <2>1, <4>3, <3>1
    <3> QED
      BY <3>2, <3>3
  <2>2. CASE b = c /\ d # c
    <3>1. i \in 1..(Len(ch[c]) + 1) /\ j \in 1..Len(ch[d]) /\ ch2[d][j] = ch[d][j]
      BY <2>2, <1>1, <1>2
    <3>2. i # 1
      BY <3>1, <1>1, <1>4, <1>5, <1>6, <2>2
    <3>3. i - 1 \in 1..Len(ch[c]) /\ ch[c][i - 1] = ch[d][j]
      BY <3>1, <3>2, <1>1, <1>4, <1>6, <2>2
    <3> QED
      BY <3>1, <3>3, <2>2 DEF Chains
  <2>3. CASE b # c /\ d = c
    <3>1. j \in 1..(Len(ch[c]) + 1) /\ i \in 1..Len(ch[b]) /\ ch2[b][i] = ch[b][i]
      BY <2>3, <1>1, <1>2
    <3>2. j # 1
      BY <3>1, <1>1, <1>4, <1>5, <1>6, <2>3
    <3>3. j - 1 \in 1..Len(ch[c]) /\ ch[c][j - 1] = ch[b][i]
      BY <3>1, <3>2, <1>1, <1>4, <1>6, <2>3
    <3> QED
      BY ZenonT(30), <3>1, <3>3, <2>3 DEF Chains
  <2>4. CASE b # c /\ d # c
    BY <2>4, <1>2, <1>6 DEF Chains
  <2> QED
    BY <2>1, <2>2, <2>3, <2>4
<1>7. ASSUME NEW m PROVE In(ch2, m) => In(ch, m) \/ m = n
  <2> SUFFICES ASSUME NEW b \in Buckets, NEW i \in 1..Len(ch2[b]), ch2[b][i] = m
               PROVE  In(ch, m) \/ m = n
    BY DEF In
  <2>1. CASE b # c
    BY <2>1, <1>2 DEF In
  <2>2. CASE b = c /\ i # 1
    <3>1. i - 1 \in 1..Len(ch[c]) /\ ch[c][i - 1] = m
      BY <2>2, <1>1, <1>4
    <3> QED
      BY <3>1 DEF In
  <2>3. CASE b = c /\ i = 1
    BY <2>3, <1>1, <1>4
  <2> QED
    BY <2>1, <2>2, <2>3
<1>8. In(ch2, n)
  <2>1. 1 \in 1..Len(ch2[c]) /\ ch2[c][1] = n
    BY <1>1, <1>4
  <2> QED
    BY <2>1 DEF In
<1>9. ASSUME NEW m, In(ch, m) PROVE In(ch2, m)
  <2>0. PICK b \in Buckets : \E i \in 1..Len(ch[b]) : ch[b][i] = m
    BY <1>9 DEF In
  <2>1. PICK i \in 1..Len(ch[b]) : ch[b][i] = m
    BY <2>0
  <2>2. CASE b # c
    BY <2>1, <2>2, <1>2 DEF In
  <2>3. CASE b = c
    <3>1. i + 1 \in 1..Len(ch2[c]) /\ ch2[c][i + 1] = m
      BY <2>1, <2>3, <1>1, <1>4
    <3> QED
      BY <3>1 DEF In
  <2> QED
    BY <2>2, <2>3
<1> QED
  BY <1>1, <1>2, <1>3, <1>6, <1>7, <1>8, <1>9 DEF Added, Chains

\* The chains ch2 are ch without the place i of the chain c.
Dropped(ch, ch2, c, i) ==
    /\ Chains(ch2)
    /\ Len(ch2[c]) = Len(ch[c]) - 1
    /\ \A j \in 1..(Len(ch[c]) - 1) :
          ch2[c][j] = IF j < i THEN ch[c][j] ELSE ch[c][j + 1]
    /\ \A b \in Buckets : b # c => ch2[b] = ch[b]
    /\ \A m : In(ch2, m) <=> In(ch, m) /\ m # ch[c][i]

LEMMA Dropping ==
  ASSUME NEW ch, Chains(ch), NEW c \in Buckets, NEW i \in 1..Len(ch[c]),
         NEW ch2, ch2 = [ch EXCEPT ![c] = RemoveAt(@, i)]
  PROVE  Dropped(ch, ch2, c, i)
<1>0. Shape(ch)
  BY ChainShape
<1>1. /\ ch2[c] \in Seq(Node) /\ Len(ch2[c]) = Len(ch[c]) - 1
      /\ \A j \in 1..(Len(ch[c]) - 1) :
            ch2[c][j] = IF j < i THEN ch[c][j] ELSE ch[c][j + 1]
  <2>1. ch2[c] = RemoveAt(ch[c], i)
    BY DEF Chains
  <2> QED
    BY <2>1, <1>0, RemoveAtFacts DEF Shape
<1>2. \A b \in Buckets : b # c => ch2[b] = ch[b]
  BY DEF Chains
<1>3. ch2 \in [Buckets -> Seq(Node)]
  BY <1>1 DEF Chains
<1>4. Len(ch[c]) \in Nat
  BY <1>0 DEF Shape
<1> DEFINE From(b, j) == IF b = c /\ j >= i THEN j + 1 ELSE j
<1>5. ASSUME NEW b \in Buckets, NEW j \in 1..Len(ch2[b])
      PROVE  /\ From(b, j) \in 1..Len(ch[b]) /\ ch2[b][j] = ch[b][From(b, j)]
             /\ b = c => From(b, j) # i
  <2>1. CASE b # c
    BY <2>1, <1>2
  <2>2. CASE b = c
    <3>1. j \in 1..(Len(ch[c]) - 1)
      BY <2>2, <1>1
    <3> QED
      BY <2>2, <3>1, <1>1, <1>4
  <2> QED
    BY <2>1, <2>2
<1>6. ASSUME NEW b \in Buckets, NEW d \in Buckets, NEW j \in 1..Len(ch2[b]),
             NEW k \in 1..Len(ch2[d]), ch2[b][j] = ch2[d][k]
      PROVE  b = d /\ j = k
  <2>1. b = d /\ From(b, j) = From(d, k)
    <3>1. /\ From(b, j) \in 1..Len(ch[b]) /\ ch2[b][j] = ch[b][From(b, j)]
          /\ From(d, k) \in 1..Len(ch[d]) /\ ch2[d][k] = ch[d][From(d, k)]
      BY <1>5
    <3> DEFINE p == From(b, j)
               q == From(d, k)
    <3>2. p \in 1..Len(ch[b]) /\ q \in 1..Len(ch[d]) /\ ch[b][p] = ch[d][q]
      BY <3>1, <1>6
    <3> HIDE DEF p, q
    <3>3. b = d /\ p = q
      BY <3>2 DEF Chains
    <3> QED
      BY <3>3 DEF p, q
  <2>2. j \in Int /\ k \in Int
    OBVIOUS
  <2> QED
    BY <2>1, <2>2
<1>7. ASSUME NEW m, In(ch2, m) PROVE In(ch, m) /\ m # ch[c][i]
  <2>0. PICK b \in Buckets : \E j \in 1..Len(ch2[b]) : ch2[b][j] = m
    BY <1>7 DEF In
  <2>1. PICK j \in 1..Len(ch2[b]) : ch2[b][j] = m
    BY <2>0
  <2>2. /\ From(b, j) \in 1..Len(ch[b]) /\ ch[b][From(b, j)] = m
        /\ b = c => From(b, j) # i
    BY ZenonT(30), <2>1, <1>5
  <2> HIDE DEF From
  <2> QED
    BY <2>2 DEF Chains, In
<1>8. ASSUME NEW m, In(ch, m), m # ch[c][i] PROVE In(ch2, m)
  <2>0. PICK b \in Buckets : \E j \in 1..Len(ch[b]) : ch[b][j] = m
    BY <1>8 DEF In
  <2>1. PICK j \in 1..Len(ch[b]) : ch[b][j] = m
    BY <2>0
  <2>2. CASE b # c
    BY <2>1, <2>2, <1>2 DEF In
  <2>3. CASE b = c /\ j < i
    <3>1. j \in 1..Len(ch2[c]) /\ ch2[c][j] = m
      BY <2>1, <2>3, <1>1, <1>4
    <3> QED
      BY <3>1 DEF In
  <2>4. CASE b = c /\ j > i
    <3>1. j - 1 \in 1..(Len(ch[c]) - 1) /\ ~(j - 1 < i) /\ (j - 1) + 1 = j
      BY <2>4, <1>4
    <3>2. j - 1 \in 1..Len(ch2[c]) /\ ch2[c][j - 1] = m
      BY <2>1, <2>4, <3>1, <1>1
    <3> QED
      BY <3>2 DEF In
  <2> QED
    BY <2>1, <2>2, <2>3, <2>4, <1>8
<1> QED
  BY <1>1, <1>2, <1>3, <1>6, <1>7, <1>8 DEF Dropped, Chains

Pointers(ps, nx, pv) == /\ ps \in [Buckets -> Node \cup {Null}]
                        /\ nx \in [Node -> Node \cup {Null, Junk}]
                        /\ pv \in [Node -> Node \cup {Null, Junk}]

\* The pointers become ps2, nx2, pv2 as n is put in front of the chain c.
PutsFirst(ps, nx, pv, c, n, ps2, nx2, pv2) ==
    /\ ps2 = [ps EXCEPT ![c] = n]
    /\ nx2 = [nx EXCEPT ![n] = ps[c]]
    /\ pv2 = IF ps[c] # Null THEN [pv EXCEPT ![n] = Null, ![ps[c]] = n]
                             ELSE [pv EXCEPT ![n] = Null]

\* Putting an element in front of a chain, as mmp_htab_install does, keeps the
\* pointers along the chains.
LEMMA AddedLinks ==
  ASSUME NEW ps, NEW nx, NEW pv, Pointers(ps, nx, pv),
         NEW ch, Chains(ch), Links(ps, nx, pv, ch),
         NEW c \in Buckets, NEW n \in Node, ~In(ch, n),
         NEW ch2, Added(ch, ch2, c, n),
         NEW ps2, NEW nx2, NEW pv2, PutsFirst(ps, nx, pv, c, n, ps2, nx2, pv2)
  PROVE  Links(ps2, nx2, pv2, ch2)
<1> USE DEF Pointers, PutsFirst
<1>0. Shape(ch) /\ Shape(ch2) /\ Null \notin Node
  BY ChainShape, Marks DEF Added
<1>1. \A b \in Buckets : \A i \in 1..Len(ch[b]) : ch[b][i] # n
  BY DEF In
<1>2. Len(ch[c]) \in Nat /\ Len(ch2[c]) = Len(ch[c]) + 1
  BY <1>0 DEF Shape, Added
<1>3. ps[c] = IF Len(ch[c]) > 0 THEN ch[c][1] ELSE Null
  BY <1>2 DEF Links, At
<1>4. ASSUME NEW b \in Buckets PROVE ps2[b] = At(ch2[b], 1)
  BY <1>2 DEF Links, Added, At
<1>5. ASSUME NEW b \in Buckets, b # c, NEW i \in 1..Len(ch2[b])
      PROVE  /\ nx2[ch2[b][i]] = At(ch2[b], i + 1)
             /\ pv2[ch2[b][i]] = At(ch2[b], i - 1)
  <2>1. ch2[b] = ch[b] /\ i \in 1..Len(ch[b]) /\ ch[b][i] # n /\ ch[b][i] \in Node
    BY <1>5, <1>1, <1>0 DEF Added, Shape
  <2>2. ch[b][i] # ps[c]
    <3>1. CASE Len(ch[c]) > 0
      <4>1. 1 \in 1..Len(ch[c]) /\ ps[c] = ch[c][1]
        BY <3>1, <1>2, <1>3
      <4> QED
        BY <4>1, <2>1, <1>5 DEF Chains
    <3>2. CASE ~(Len(ch[c]) > 0)
      BY <3>2, <1>3, <2>1, <1>0
    <3> QED
      BY <3>1, <3>2
  <2>3. nx2[ch[b][i]] = nx[ch[b][i]] /\ pv2[ch[b][i]] = pv[ch[b][i]]
    BY <2>1, <2>2
  <2> QED
    BY <2>1, <2>3 DEF Links
<1>6. ASSUME NEW i \in 1..Len(ch2[c])
      PROVE  /\ nx2[ch2[c][i]] = At(ch2[c], i + 1)
             /\ pv2[ch2[c][i]] = At(ch2[c], i - 1)
  <2>0. i \in 1..(Len(ch[c]) + 1)
    BY <1>2
  <2>1. CASE i = 1
    <3>1. ch2[c][1] = n
      BY <1>2 DEF Added
    <3>2. nx2[n] = ps[c] /\ pv2[n] = Null
      BY <1>1, <1>2, <1>3, <1>0
    <3>3. At(ch2[c], 2) = ps[c]
      BY <1>2, <1>3 DEF Added, At
    <3>4. At(ch2[c], 0) = Null
      BY <1>2 DEF At
    <3> QED
      BY <2>1, <3>1, <3>2, <3>3, <3>4
  <2>2. CASE i # 1
    <3> DEFINE j == i - 1
               m == ch[c][j]
    <3>1. j \in 1..Len(ch[c]) /\ j + 1 = i
      BY <2>0, <2>2, <1>2
    <3>2. ch2[c][i] = m
      BY <2>0, <2>2, <1>2 DEF Added
    <3>3. m \in Node /\ m # n
      BY <3>1, <1>0, <1>1 DEF Shape
    <3>4. nx[m] = At(ch[c], j + 1) /\ pv[m] = At(ch[c], j - 1)
      BY <3>1 DEF Links
    <3>5. At(ch2[c], i + 1) = At(ch[c], j + 1)
      BY <3>1, <1>2 DEF At, Added
    <3>6. nx2[m] = nx[m]
      BY <3>3
    <3>7. pv2[m] = At(ch2[c], j)
      <4>1. CASE j = 1
        <5>1. ps[c] = m /\ ps[c] # Null
          BY <4>1, <3>1, <1>2, <1>3, <3>3, <1>0
        <5>2. pv2[m] = n
          BY <5>1, <3>3
        <5>3. At(ch2[c], 1) = n
          BY <1>2 DEF At, Added
        <5> QED
          BY <4>1, <5>2, <5>3
      <4>2. CASE j # 1
        <5>1. ps[c] = ch[c][1] /\ 1 \in 1..Len(ch[c])
          BY <3>1, <1>2, <1>3
        <5>2. m # ps[c]
          BY <5>1, <3>1, <4>2 DEF Chains
        <5>3. pv2[m] = pv[m]
          BY <5>2, <3>3
        <5>4. At(ch2[c], j) = At(ch[c], j - 1)
          BY <3>1, <4>2, <1>2 DEF At, Added
        <5> QED
          BY <5>3, <5>4, <3>4
      <4> QED
        BY <4>1, <4>2
    <3> QED
      BY <3>2, <3>4, <3>5, <3>6, <3>7
  <2> QED
    BY <2>1, <2>2
<1> QED
  BY <1>4, <1>5, <1>6 DEF Links

\* The pointers become ps2, nx2, pv2 as n is taken out of the chain c.
TakesOut(ps, nx, pv, c, n, ps2, nx2, pv2) ==
    LET nx1 == IF pv[n] # Null THEN [nx EXCEPT ![pv[n]] = nx[n]] ELSE nx
        pv1 == IF nx[n] # Null THEN [pv EXCEPT ![nx[n]] = pv[n]] ELSE pv
    IN  /\ ps2 = [ps EXCEPT ![c] = IF @ = n THEN pv[n] ELSE @]
        /\ nx2 = [nx1 EXCEPT ![n] = Junk]
        /\ pv2 = [pv1 EXCEPT ![n] = Junk]

\* Taking an element out, as mmp_htab_delete does, keeps the pointers along the
\* chains unless it is the first of several.
LEMMA DroppedLinks ==
  ASSUME NEW ps, NEW nx, NEW pv, Pointers(ps, nx, pv),
         NEW ch, Chains(ch), Links(ps, nx, pv, ch),
         NEW c \in Buckets, NEW i \in 1..Len(ch[c]), i = 1 => Len(ch[c]) = 1,
         NEW n, n = ch[c][i],
         NEW ch2, Dropped(ch, ch2, c, i),
         NEW ps2, NEW nx2, NEW pv2, TakesOut(ps, nx, pv, c, n, ps2, nx2, pv2)
  PROVE  Links(ps2, nx2, pv2, ch2)
<1> USE DEF Pointers, TakesOut
<1>0. Shape(ch) /\ Shape(ch2) /\ Null \notin Node
  BY ChainShape, Marks DEF Dropped
<1>1. Len(ch[c]) \in Nat /\ Len(ch2[c]) = Len(ch[c]) - 1 /\ n \in Node
  BY <1>0 DEF Shape, Dropped
<1>2. nx[n] = At(ch[c], i + 1) /\ pv[n] = At(ch[c], i - 1)
  BY DEF Links
<1>3. ps[c] = ch[c][1]
  BY <1>1 DEF Links, At
\* An element other than n, at the place k of a chain.
<1>4. ASSUME NEW b \in Buckets, NEW k \in 1..Len(ch[b]), ch[b][k] # n
      PROVE  /\ ch[b][k] \in Node
             /\ nx2[ch[b][k]] = IF b = c /\ k = i - 1 THEN At(ch[c], i + 1)
                                                      ELSE At(ch[b], k + 1)
             /\ pv2[ch[b][k]] = IF b = c /\ k = i + 1 THEN At(ch[c], i - 1)
                                                      ELSE At(ch[b], k - 1)
  <2> DEFINE m == ch[b][k]
  <2>1. m \in Node /\ m # Null /\ m # n
    BY <1>0, <1>4 DEF Shape
  <2>2. nx[m] = At(ch[b], k + 1) /\ pv[m] = At(ch[b], k - 1)
    BY DEF Links
  <2>3. m = At(ch[c], i - 1) <=> b = c /\ k = i - 1
    <3>1. CASE i - 1 \in 1..Len(ch[c])
      <4> DEFINE l == i - 1
      <4>1. l \in 1..Len(ch[c]) /\ At(ch[c], l) = ch[c][l]
        BY <3>1 DEF At
      <4> HIDE DEF l
      <4>2. m = ch[c][l] <=> b = c /\ k = l
        BY <4>1 DEF Chains
      <4> QED
        BY <4>1, <4>2 DEF l
    <3>2. CASE i - 1 \notin 1..Len(ch[c])
      BY <3>2, <2>1 DEF At
    <3> QED
      BY <3>1, <3>2
  <2>4. m = At(ch[c], i + 1) <=> b = c /\ k = i + 1
    <3>1. CASE i + 1 \in 1..Len(ch[c])
      <4> DEFINE l == i + 1
      <4>1. l \in 1..Len(ch[c]) /\ At(ch[c], l) = ch[c][l]
        BY <3>1 DEF At
      <4> HIDE DEF l
      <4>2. m = ch[c][l] <=> b = c /\ k = l
        BY <4>1 DEF Chains
      <4> QED
        BY <4>1, <4>2 DEF l
    <3>2. CASE i + 1 \notin 1..Len(ch[c])
      BY <3>2, <2>1 DEF At
    <3> QED
      BY <3>1, <3>2
  <2>5. nx2[m] = IF m = pv[n] THEN nx[n] ELSE nx[m]
    <3> HIDE DEF m
    <3> QED
      BY <2>1, <1>1
  <2>6. pv2[m] = IF m = nx[n] THEN pv[n] ELSE pv[m]
    <3> HIDE DEF m
    <3> QED
      BY <2>1, <1>1
  <2> HIDE DEF m
  <2>7. /\ m \in Node
        /\ nx2[m] = IF b = c /\ k = i - 1 THEN At(ch[c], i + 1) ELSE At(ch[b], k + 1)
        /\ pv2[m] = IF b = c /\ k = i + 1 THEN At(ch[c], i - 1) ELSE At(ch[b], k - 1)
    BY <2>1, <2>2, <2>3, <2>4, <2>5, <2>6, <1>2
  <2> QED
    BY <2>7 DEF m
<1>5. ASSUME NEW b \in Buckets PROVE ps2[b] = At(ch2[b], 1)
  <2>1. CASE b # c
    BY <2>1 DEF Dropped, Links
  <2>2. CASE b = c /\ i = 1
    <3>0. ps[c] = n /\ ps2[c] = pv[n]
      BY <2>2, <1>3
    <3>2. At(ch[c], i - 1) = Null
      BY <2>2, <1>1 DEF At
    <3>1. ps2[c] = pv[n] /\ pv[n] = Null
      BY <3>0, <3>2, <1>2
    <3>3. Len(ch2[c]) = 0
      BY <2>2, <1>1
    <3>4. At(ch2[c], 1) = Null
      BY <3>3 DEF At
    <3> QED
      BY <2>2, <3>1, <3>4
  <2>3. CASE b = c /\ i # 1
    <3>1. 1 \in 1..Len(ch[c]) /\ ps[c] # n
      BY <2>3, <1>1, <1>3 DEF Chains
    <3>2. 1 \in 1..(Len(ch[c]) - 1) /\ 1 < i
      BY <2>3, <1>1
    <3>3. ch2[c][1] = ch[c][1]
      BY <3>2 DEF Dropped
    <3>4. ps2[c] = ps[c]
      BY <3>1
    <3> QED
      BY <2>3, <3>2, <3>3, <3>4, <1>1, <1>3 DEF At
  <2> QED
    BY <2>1, <2>2, <2>3
<1> HIDE DEF Pointers, TakesOut
<1>6. ASSUME NEW b \in Buckets, b # c, NEW k \in 1..Len(ch2[b])
      PROVE  /\ nx2[ch2[b][k]] = At(ch2[b], k + 1)
             /\ pv2[ch2[b][k]] = At(ch2[b], k - 1)
  <2>1. ch2[b] = ch[b] /\ k \in 1..Len(ch[b])
    BY <1>6 DEF Dropped
  <2>2. ch[b][k] # n
    BY <2>1, <1>6 DEF Chains
  <2> QED
    BY <2>1, <2>2, <1>4, <1>6
<1>7. ASSUME NEW k \in 1..Len(ch2[c])
      PROVE  /\ nx2[ch2[c][k]] = At(ch2[c], k + 1)
             /\ pv2[ch2[c][k]] = At(ch2[c], k - 1)
  <2> DEFINE g == IF k < i THEN k ELSE k + 1
  <2>0. k \in 1..(Len(ch[c]) - 1)
    BY <1>1
  <2>1. g \in 1..Len(ch[c]) /\ g # i
    BY <2>0, <1>1
  <2>2. ch2[c][k] = ch[c][g]
    BY <2>0 DEF Dropped
  <2>3. ch[c][g] # n
    <3> HIDE DEF g
    <3> QED
      BY <2>1 DEF Chains
  <2>4. /\ nx2[ch[c][g]] = IF g = i - 1 THEN At(ch[c], i + 1) ELSE At(ch[c], g + 1)
        /\ pv2[ch[c][g]] = IF g = i + 1 THEN At(ch[c], i - 1) ELSE At(ch[c], g - 1)
    <3> HIDE DEF g
    <3> QED
      BY <2>1, <2>3, <1>4
  <2>5. At(ch2[c], k + 1) = IF g = i - 1 THEN At(ch[c], i + 1) ELSE At(ch[c], g + 1)
    BY SMTT(30), <2>0, <1>1 DEF Dropped, At
  <2>6. At(ch2[c], k - 1) = IF g = i + 1 THEN At(ch[c], i - 1) ELSE At(ch[c], g - 1)
    BY SMTT(30), <2>0, <1>1 DEF Dropped, At
  <2> HIDE DEF g
  <2> QED
    BY <2>2, <2>4, <2>5, <2>6
<1> QED
  BY <1>5, <1>6, <1>7 DEF Links

\* The chains ch2 are ch with the chain c emptied.
Cut(ch, ch2, c) ==
    /\ Chains(ch2)
    /\ ch2[c] = << >>
    /\ \A b \in Buckets : b # c => ch2[b] = ch[b]
    /\ \A m : In(ch2, m) <=> In(ch, m) /\ \A j \in 1..Len(ch[c]) : ch[c][j] # m

LEMMA Cutting ==
  ASSUME NEW ch, Chains(ch), NEW c \in Buckets, NEW ch2, ch2 = [ch EXCEPT ![c] = << >>]
  PROVE  Cut(ch, ch2, c)
<1>1. /\ ch2[c] = << >> /\ Len(ch2[c]) = 0
      /\ \A b \in Buckets : b # c => ch2[b] = ch[b]
  BY DEF Chains
<1>2. Chains(ch2)
  <2>1. ch2 \in [Buckets -> Seq(Node)]
    BY DEF Chains
  <2> QED
    BY <2>1, <1>1 DEF Chains
<1>3. ASSUME NEW m
      PROVE  In(ch2, m) <=> In(ch, m) /\ \A j \in 1..Len(ch[c]) : ch[c][j] # m
  <2>1. ASSUME NEW b \in Buckets, NEW i \in 1..Len(ch2[b]), ch2[b][i] = m
        PROVE  In(ch, m) /\ \A j \in 1..Len(ch[c]) : ch[c][j] # m
    <3>1. b # c /\ i \in 1..Len(ch[b]) /\ ch[b][i] = m
      BY <2>1, <1>1
    <3> QED
      BY <3>1 DEF In, Chains
  <2>2. ASSUME NEW b \in Buckets, NEW i \in 1..Len(ch[b]), ch[b][i] = m,
               \A j \in 1..Len(ch[c]) : ch[c][j] # m
        PROVE  In(ch2, m)
    <3>1. b # c /\ ch2[b] = ch[b]
      BY <2>2, <1>1
    <3> QED
      BY <3>1, <2>2 DEF In
  <2> QED
    BY <2>1, <2>2 DEF In
<1> QED
  BY <1>1, <1>2, <1>3 DEF Cut

\* Taking the first element out, as mmp_htab_delete does, keeps the pointers along
\* the chains when the rest of its own is given up.
LEMMA CutLinks ==
  ASSUME NEW ps, NEW nx, NEW pv, Pointers(ps, nx, pv),
         NEW ch, Chains(ch), Links(ps, nx, pv, ch),
         NEW c \in Buckets, 1 \in 1..Len(ch[c]), NEW n, n = ch[c][1],
         NEW ch2, Cut(ch, ch2, c),
         NEW ps2, NEW nx2, NEW pv2, TakesOut(ps, nx, pv, c, n, ps2, nx2, pv2)
  PROVE  Links(ps2, nx2, pv2, ch2)
<1> USE DEF Pointers, TakesOut
<1>0. Shape(ch) /\ Null \notin Node
  BY ChainShape, Marks
<1>1. n \in Node /\ Len(ch[c]) \in Nat
  BY <1>0 DEF Shape
<1>2. pv[n] = Null /\ nx[n] = At(ch[c], 2) /\ ps[c] = n
  <2>1. At(ch[c], 0) = Null /\ At(ch[c], 1) = n
    BY <1>1 DEF At
  <2> QED
    BY <2>1 DEF Links
<1>3. ps2[c] = Null /\ \A b \in Buckets : b # c => ps2[b] = ps[b]
  BY <1>2
<1>4. ASSUME NEW m \in Node, m # n, m # nx[n] PROVE nx2[m] = nx[m] /\ pv2[m] = pv[m]
  BY <1>2, <1>4
<1>5. ASSUME NEW b \in Buckets, b # c
      PROVE  /\ ps2[b] = At(ch2[b], 1)
             /\ \A i \in 1..Len(ch2[b]) : /\ nx2[ch2[b][i]] = At(ch2[b], i + 1)
                                          /\ pv2[ch2[b][i]] = At(ch2[b], i - 1)
  <2>1. ch2[b] = ch[b]
    BY <1>5 DEF Cut
  <2>2. ASSUME NEW i \in 1..Len(ch[b])
        PROVE  ch[b][i] \in Node /\ ch[b][i] # n /\ ch[b][i] # nx[n]
    <3>1. ch[b][i] \in Node /\ ch[b][i] # n
      BY <1>0, <1>5, <2>2 DEF Shape, Chains
    <3>2. ch[b][i] # At(ch[c], 2)
      BY <1>0, <1>5, <2>2, <3>1 DEF Chains, At
    <3> QED
      BY <3>1, <3>2, <1>2
  <2>3. ASSUME NEW i \in 1..Len(ch[b])
        PROVE  nx2[ch[b][i]] = At(ch[b], i + 1) /\ pv2[ch[b][i]] = At(ch[b], i - 1)
    <3> HIDE DEF Pointers, TakesOut
    <3>1. nx2[ch[b][i]] = nx[ch[b][i]] /\ pv2[ch[b][i]] = pv[ch[b][i]]
      BY <2>2, <1>4
    <3> QED
      BY <3>1 DEF Links
  <2>4. ps2[b] = At(ch[b], 1)
    BY <1>3, <1>5 DEF Links
  <2> QED
    BY <2>1, <2>3, <2>4
<1>6. Len(ch2[c]) = 0 /\ ps2[c] = At(ch2[c], 1)
  BY <1>3 DEF Cut, At
<1> HIDE DEF Pointers, TakesOut
<1>7. ASSUME NEW b \in Buckets
      PROVE  /\ ps2[b] = At(ch2[b], 1)
             /\ \A i \in 1..Len(ch2[b]) : /\ nx2[ch2[b][i]] = At(ch2[b], i + 1)
                                          /\ pv2[ch2[b][i]] = At(ch2[b], i - 1)
  <2>1. CASE b = c
    BY <2>1, <1>6
  <2>2. CASE b # c
    BY <2>2, <1>5
  <2> QED
    BY <2>1, <2>2
<1> QED
  BY <1>7 DEF Links

\* A new element with a key that no other has, or none.
KeyGiven(ky, ky2, n, k) == \E kn \in {k, Null} : ky2 = [ky EXCEPT ![n] = kn]

LEMMA AddedKeys ==
  ASSUME NEW ky, ky \in [Node -> Key \cup {Null, Junk}],
         NEW ch, Chains(ch), Unique(ky, ch), Placed(ky, ch),
         NEW c \in Buckets, NEW n \in Node, ~In(ch, n),
         NEW ch2, Added(ch, ch2, c, n),
         NEW k \in Key, c = Hash(k, UIntMax),
         \A m \in Node : In(ch, m) => ky[m] # k,
         NEW ky2, KeyGiven(ky, ky2, n, k)
  PROVE  Unique(ky2, ch2) /\ Placed(ky2, ch2)
<1> PICK kn \in {k, Null} : ky2 = [ky EXCEPT ![n] = kn]
  BY DEF KeyGiven
<1>0. Shape(ch) /\ Shape(ch2) /\ Null \notin Key
  BY ChainShape, Marks DEF Added
<1>1. ky2[n] = kn /\ \A m \in Node : m # n => ky2[m] = ky[m]
  OBVIOUS
<1>2. Unique(ky2, ch2)
  <2> SUFFICES ASSUME NEW m \in Node, NEW l \in Node, In(ch2, m), In(ch2, l),
                      ky2[m] = ky2[l]
               PROVE  m = l \/ ky2[m] = Null
    BY DEF Unique
  <2>1. (In(ch, m) \/ m = n) /\ (In(ch, l) \/ l = n)
    BY DEF Added
  <2>2. CASE m = n \/ l = n
    BY <2>1, <2>2, <1>1
  <2>3. CASE m # n /\ l # n
    BY <2>1, <2>3, <1>1 DEF Unique
  <2> QED
    BY <2>2, <2>3
<1>3. ASSUME NEW b \in Buckets, NEW i \in 1..Len(ch2[b]), ky2[ch2[b][i]] # Null
      PROVE  b = Hash(ky2[ch2[b][i]], UIntMax)
  <2>1. CASE ch2[b][i] = n
    <3>1. 1 \in 1..Len(ch2[c]) /\ ch2[c][1] = n
      BY <1>0 DEF Added, Shape
    <3>2. b = c
      BY <2>1, <3>1 DEF Added, Chains
    <3> QED
      BY <2>1, <3>2, <1>1, <1>3
  <2>2. CASE ch2[b][i] # n
    <3>1. \E j \in 1..Len(ch[b]) : ch2[b][i] = ch[b][j]
      <4>1. CASE b # c
        BY <4>1 DEF Added
      <4>2. CASE b = c
        <5>1. i \in 1..(Len(ch[c]) + 1) /\ Len(ch[c]) \in Nat
          BY <4>2, <1>0 DEF Added, Shape
        <5>2. i # 1
          BY <2>2, <4>2, <5>1 DEF Added
        <5>3. i - 1 \in 1..Len(ch[c]) /\ ch2[c][i] = ch[c][i - 1]
          BY <5>1, <5>2 DEF Added
        <5> QED
          BY <4>2, <5>3
      <4> QED
        BY <4>1, <4>2
    <3>2. PICK j \in 1..Len(ch[b]) : ch2[b][i] = ch[b][j]
      BY <3>1
    <3>3. ky2[ch2[b][i]] = ky[ch[b][j]]
      BY <2>2, <3>2, <1>0, <1>1 DEF Shape
    <3> QED
      BY <3>2, <3>3, <1>3 DEF Placed
  <2> QED
    BY <2>1, <2>2
<1> QED
  BY <1>2, <1>3 DEF Placed

LEMMA DroppedKeys ==
  ASSUME NEW ky \in [Node -> Key \cup {Null, Junk}],
         NEW ch, Chains(ch), Unique(ky, ch), Placed(ky, ch),
         NEW c \in Buckets, NEW i \in 1..Len(ch[c]),
         NEW n, n = ch[c][i],
         NEW ch2, Dropped(ch, ch2, c, i),
         NEW ky2, ky2 = [ky EXCEPT ![n] = Junk]
  PROVE  Unique(ky2, ch2) /\ Placed(ky2, ch2)
<1>0. Shape(ch) /\ Shape(ch2)
  BY ChainShape DEF Dropped
<1>1. \A m \in Node : m # n => ky2[m] = ky[m]
  OBVIOUS
<1>2. \A m : In(ch2, m) => In(ch, m) /\ m # n
  BY DEF Dropped
<1>3. Unique(ky2, ch2)
  BY <1>1, <1>2 DEF Unique
<1>4. ASSUME NEW b \in Buckets, NEW k \in 1..Len(ch2[b]), ky2[ch2[b][k]] # Null
      PROVE  b = Hash(ky2[ch2[b][k]], UIntMax)
  <2>1. \E j \in 1..Len(ch[b]) : ch2[b][k] = ch[b][j]
    <3>1. CASE b # c
      BY <3>1 DEF Dropped
    <3>2. CASE b = c
      <4>1. k \in 1..(Len(ch[c]) - 1) /\ Len(ch[c]) \in Nat
        BY <3>2, <1>0 DEF Dropped, Shape
      <4>2. CASE k < i
        BY <3>2, <4>1, <4>2 DEF Dropped
      <4>3. CASE ~(k < i)
        <5>1. k + 1 \in 1..Len(ch[c]) /\ ch2[c][k] = ch[c][k + 1]
          BY <4>1, <4>3 DEF Dropped
        <5> QED
          BY <3>2, <5>1
      <4> QED
        BY <4>2, <4>3
    <3> QED
      BY <3>1, <3>2
  <2>2. PICK j \in 1..Len(ch[b]) : ch2[b][k] = ch[b][j]
    BY <2>1
  <2>3. In(ch2, ch2[b][k])
    BY DEF In
  <2>4. ky2[ch2[b][k]] = ky[ch[b][j]]
    BY <2>2, <2>3, <1>0, <1>1, <1>2 DEF Shape
  <2> QED
    BY <2>2, <2>4, <1>4 DEF Placed
<1> QED
  BY <1>3, <1>4 DEF Placed

\* Keys that no other element has, where a chain is given up.
LEMMA CutKeys ==
  ASSUME NEW ky \in [Node -> Key \cup {Null, Junk}],
         NEW ch, Chains(ch), Unique(ky, ch), Placed(ky, ch),
         NEW c \in Buckets, 1 \in 1..Len(ch[c]), NEW n, n = ch[c][1],
         NEW ch2, Cut(ch, ch2, c),
         NEW ky2, ky2 = [ky EXCEPT ![n] = Junk]
  PROVE  Unique(ky2, ch2) /\ Placed(ky2, ch2)
<1>0. Shape(ch)
  BY ChainShape
<1>1. \A m \in Node : m # n => ky2[m] = ky[m]
  OBVIOUS
<1>2. \A m : In(ch2, m) => In(ch, m) /\ m # n
  BY DEF Cut
<1>3. Unique(ky2, ch2)
  BY <1>1, <1>2 DEF Unique
<1>4. ASSUME NEW b \in Buckets, NEW k \in 1..Len(ch2[b]), ky2[ch2[b][k]] # Null
      PROVE  b = Hash(ky2[ch2[b][k]], UIntMax)
  <2>1. b # c /\ ch2[b] = ch[b]
    BY <1>4 DEF Cut
  <2>2. ch[b][k] \in Node /\ ch[b][k] # n
    BY <2>1, <1>0 DEF Shape, Chains
  <2>3. ky2[ch2[b][k]] = ky[ch[b][k]]
    BY <2>1, <2>2, <1>1
  <2> QED
    BY <2>1, <2>3, <1>4 DEF Placed
<1> QED
  BY <1>3, <1>4 DEF Placed

-----------------------------------------------------------------------------
(***************************************************************************)
(* The inductive invariant.                                                *)
(***************************************************************************)
\* Only the bucket 0 has elements, as UINT_MAX is no limit to mmp_htab_hash, and
\* the first of them has the key that was added last, or none.
Newest(k, ky, ch) == \A b \in Buckets :
                        Len(ch[b]) > 0 => b = 0 /\ ky[ch[b][1]] \in {k, Null}

\* The table when it is not being destroyed.
Whole == ~Destroying => /\ Links(ptrs, next, prev, chain)
                        /\ \A n \in Node : n \in Kept <=> In(chain, n)
                        /\ Unique(key, chain)
                        /\ Placed(key, chain)
                        /\ Newest(latest, key, chain)
                        /\ called = << >>

\* A search of the chain b has passed i elements, none of the key.
Passed(b, i) == /\ np = At(chain[b], i + 1)
                /\ \A j \in 1..i : key[chain[b][j]] \notin {call.key, Null}

SearchRight ==
    Searching => /\ open
                 /\ call.key \in Key
                 /\ call.op = "install" => call.val \in Val
                 /\ h = Hash(call.key, UIntMax)
                 /\ \E b \in Buckets : /\ call.op # "partial" => b = h
                                       /\ \E i \in 0..Len(chain[b]) : Passed(b, i)

\* The elements still to be freed: those of the buckets from k on, and those
\* after the place i of the bucket before.
Left(ch, k, i, n) == \E b \in Buckets : \E j \in 1..Len(ch[b]) :
                        ch[b][j] = n /\ (b >= k \/ (b = k - 1 /\ j > i))

Freeing(i) == /\ np = IF h = 0 THEN Null ELSE At(chain[h - 1], i + 1)
              /\ \A n \in Node : n \in Kept <=> Left(chain, h, i, n)
              /\ \A b \in Buckets : b >= h => ptrs[b] = At(chain[b], 1)
              /\ \A b \in Buckets : \A j \in 1..Len(chain[b]) :
                    b >= h \/ (b = h - 1 /\ j > i)
                       => next[chain[b][j]] = At(chain[b], j + 1)

DestroyRight ==
    Destroying => /\ open
                  /\ \E i \in 0..(IF h = 0 THEN 0 ELSE Len(chain[h - 1])) : Freeing(i)

\* datadel is called for each element that is freed, once.
Once == /\ \A i, j \in 1..Len(called) : called[i] = called[j] => i = j
        /\ call.op = "destroyData" =>
              \A n \in Node : In(chain, n) <=> \/ n \in Kept
                                               \/ \E i \in 1..Len(called) : called[i] = n
        /\ \A i \in 1..Len(called) : called[i] \notin Kept
        /\ call.op # "destroyData" => called = << >>

Shut == /\ ~open => call = NoCall /\ \A n \in Node : ~In(chain, n)
        /\ call.op = "none" => call = NoCall

IInv == /\ TypeOK /\ leaked \subseteq alive /\ Chains(chain) /\ Whole
        /\ SearchRight /\ DestroyRight /\ Once /\ Shut

-----------------------------------------------------------------------------
(***************************************************************************)
(* Where a call is.                                                        *)
(***************************************************************************)
LEMMA CallTypes ==
  ASSUME IInv
  PROVE  /\ call = Call(call.op, call.key, call.val, call.h, call.np)
         /\ call.op \in {"none", "wild"} \cup SearchOps \cup DestroyOps
         /\ h \in 0..Size /\ np \in Node \cup {Null}
         /\ call.key \in Key \cup {Null} /\ call.val \in Val \cup {Null}
BY DEF IInv, TypeOK, Call, h, np

LEMMA ChainIs == ASSUME IInv PROVE Chains(chain) /\ Shape(chain)
BY ChainShape DEF IInv

\* An element that a search has reached is one of the table.
LEMMA Reached ==
  ASSUME IInv, Searching, np # Null
  PROVE  /\ np \in Node /\ In(chain, np) /\ np \in alive
         /\ ~Destroying /\ open
         /\ next[np] \in Node \cup {Null} /\ prev[np] \in Node \cup {Null}
         /\ key[np] \in Key \cup {Null} /\ val[np] \in Val
<1>1. PICK b \in Buckets : \E i \in 0..Len(chain[b]) : Passed(b, i)
  BY DEF IInv, SearchRight
<1>2. PICK i \in 0..Len(chain[b]) : Passed(b, i)
  BY <1>1
<1>3. np = chain[b][i + 1] /\ i + 1 \in 1..Len(chain[b])
  BY <1>2 DEF Passed, At
<1>4. np \in Node /\ In(chain, np)
  BY <1>3, ChainIs DEF Shape, In
<1>5. ~Destroying /\ open
  BY DEF Destroying, Searching, SearchOps, DestroyOps, IInv, SearchRight
<1>6. np \in alive
  BY <1>4, <1>5 DEF IInv, Whole, Kept
<1> QED
  BY <1>4, <1>5, <1>6 DEF IInv, TypeOK

\* The element that a search without a length has found, by its place.
LEMMA FoundAt ==
  ASSUME IInv, Found, call.op # "partial"
  PROVE  /\ h \in Buckets
         /\ \E i \in 1..Len(chain[h]) : chain[h][i] = np
<1>1. PICK b \in Buckets : /\ b = h
                           /\ \E i \in 0..Len(chain[b]) : Passed(b, i)
  BY DEF IInv, SearchRight, Found
<1>2. PICK i \in 0..Len(chain[b]) : Passed(b, i)
  BY <1>1
<1>3. np = chain[b][i + 1] /\ i + 1 \in 1..Len(chain[b])
  BY <1>2 DEF Passed, At, Found, Over
<1> QED
  BY <1>1, <1>3

\* A search without a length that has come to the end has missed nothing.
LEMMA MissedIsAbsent ==
  ASSUME IInv, Missed, call.op # "partial"
  PROVE  h \in Buckets /\ \A n \in Node : In(chain, n) => key[n] # call.key
<1>0. Searching /\ np = Null /\ call.key \in Key /\ h = Hash(call.key, UIntMax)
  BY DEF Missed, Over, IInv, SearchRight
<1>1. PICK b \in Buckets : /\ b = h
                           /\ \E i \in 0..Len(chain[b]) : Passed(b, i)
  BY <1>0 DEF IInv, SearchRight
<1>2. PICK i \in 0..Len(chain[b]) : Passed(b, i)
  BY <1>1
<1>3. i = Len(chain[b])
  <2>1. i + 1 \in 1..Len(chain[b]) => chain[b][i + 1] # Null
    BY ChainIs DEF Shape
  <2>2. i + 1 \notin 1..Len(chain[b])
    BY <2>1, <1>0, <1>2 DEF Passed, At
  <2> QED
    BY <2>2, ChainIs DEF Shape
<1>4. \A j \in 1..Len(chain[h]) : key[chain[h][j]] # call.key
  BY <1>1, <1>2, <1>3 DEF Passed
<1>5. ASSUME NEW n \in Node, In(chain, n), key[n] = call.key PROVE FALSE
  <2>1. PICK c \in Buckets : \E j \in 1..Len(chain[c]) : chain[c][j] = n
    BY <1>5 DEF In
  <2>2. PICK j \in 1..Len(chain[c]) : chain[c][j] = n
    BY <2>1
  <2>3. Placed(key, chain) /\ Null \notin Key
    BY <1>0, Marks DEF IInv, Whole, Searching, Destroying, SearchOps, DestroyOps
  <2>4. c = h
    BY <2>2, <2>3, <1>0, <1>5 DEF Placed
  <2> QED
    BY <2>2, <2>4, <1>4, <1>5
<1> QED
  BY <1>1, <1>5

-----------------------------------------------------------------------------
(***************************************************************************)
(* Every step preserves the invariant.  First, the steps that leave the    *)
(* table alone.                                                            *)
(***************************************************************************)
LEMMA InitIInv == Init => IInv
<1> SUFFICES ASSUME Init PROVE IInv
  OBVIOUS
<1> USE DEF Init
<1>0. /\ call.op = "none" /\ call.h = 0 /\ call.np = Null /\ call.key = Null
      /\ call.val = Null /\ 0 \in 0..Size
  BY Marks DEF NoCall, Call
<1>1. ~Searching /\ ~Destroying
  BY <1>0 DEF Searching, Destroying, SearchOps, DestroyOps
<1>2. \A b \in Buckets : chain[b] = << >> /\ Len(chain[b]) = 0
  BY DEF NoElements
<1>3. \A n : ~In(chain, n)
  BY <1>2 DEF In
<1>4. TypeOK
  <2>1. call \in [op : {"none", "wild"} \cup SearchOps \cup DestroyOps,
                  key : Key \cup {Null}, val : Val \cup {Null},
                  h : 0..Size, np : Node \cup {Null}]
    BY <1>0 DEF NoCall, Call
  <2>2. called \in Seq(Node) /\ chain \in [Buckets -> Seq(Node)]
    BY DEF NoElements
  <2> QED
    BY <2>1, <2>2 DEF TypeOK, NoPointers
<1>5. Chains(chain)
  BY <1>2 DEF Chains, NoElements
<1>6. Links(ptrs, next, prev, chain)
  BY <1>2 DEF Links, At, NoPointers
<1>7. Unique(key, chain) /\ Placed(key, chain)
  BY <1>2, <1>3 DEF Unique, Placed
<1>8. Whole
  BY <1>2, <1>3, <1>6, <1>7 DEF Whole, Newest, Kept
<1>9. Once
  BY <1>0 DEF Once
<1> QED
  BY <1>1, <1>3, <1>4, <1>5, <1>8, <1>9 DEF IInv, SearchRight, DestroyRight, Shut

CallType(c) == c \in [op : {"none", "wild"} \cup SearchOps \cup DestroyOps,
                      key : Key \cup {Null}, val : Val \cup {Null},
                      h : 0..Size, np : Node \cup {Null}]

\* A step that only moves a call other than a destruction.
LEMMA Calm ==
  ASSUME IInv, UNCHANGED <<table, heap, called>>, ~Destroying, ~Destroying',
         CallType(call'), ret' \in Val \cup {Null},
         call'.op = "none" => call' = NoCall,
         open \/ call' = NoCall,
         SearchRight'
  PROVE  IInv'
<1> USE DEF table, history, heap
<1>1. TypeOK'
  BY DEF IInv, TypeOK, CallType
<1>2. Chains(chain)'
  BY DEF IInv
<1>3. Whole' /\ called = << >>
  BY DEF IInv, Whole, Kept
<1>4. DestroyRight'
  BY DEF DestroyRight
<1>5. Once'
  <2>1. called' = << >> /\ call'.op # "destroyData"
    BY <1>3 DEF Destroying, DestroyOps
  <2> QED
    BY <2>1 DEF Once
<1>6. Shut'
  BY DEF IInv, Shut
<1> QED
  BY <1>1, <1>2, <1>3, <1>4, <1>5, <1>6 DEF IInv

\* The same, of one that ends the call.
LEMMA Returned ==
  ASSUME IInv, UNCHANGED <<table, heap, called>>, ~Destroying, Return,
         ret' \in Val \cup {Null}
  PROVE  IInv'
<1>1. /\ call'.op = "none" /\ call'.h = 0 /\ call'.np = Null /\ call'.key = Null
      /\ call'.val = Null /\ 0 \in 0..Size /\ call' = NoCall
  BY Marks DEF NoCall, Call, Return
<1>2. CallType(call')
  BY <1>1 DEF CallType, NoCall, Call
<1>3. ~Destroying' /\ ~Searching'
  BY <1>1 DEF Destroying, Searching, SearchOps, DestroyOps
<1> QED
  BY <1>1, <1>2, <1>3, Calm DEF SearchRight

\* A search begins at the first element of a bucket.
LEMMA StartStep ==
  ASSUME IInv, NEW how \in SearchOps, NEW k \in Key, NEW v \in Val \cup {Null},
         NEW max \in Nat, how = "install" => v \in Val,
         how # "partial" => max = UIntMax,
         Start(how, k, v, max)
  PROVE  IInv'
<1> DEFINE b == Hash(k, max)
           b0 == Hash(k, UIntMax)
<1>0. /\ UNCHANGED <<table, heap, called, ret>> /\ open /\ call = NoCall
      /\ call' = Call(how, k, v, b0, ptrs[b])
  BY DEF Start, Idle, SearchBucket, table, history, heap
<1>1. b \in Buckets /\ b0 \in Buckets /\ b0 \in 0..Size
  <2>1. b \in Buckets /\ b0 \in Buckets
    BY Hashes, Whole32
  <2> QED
    BY <2>1, Marks DEF Buckets
<1> HIDE DEF b, b0
<1>2. ptrs[b] \in Node \cup {Null} /\ ret \in Val \cup {Null}
  BY <1>1 DEF IInv, TypeOK
<1>3. /\ call'.op = how /\ call'.key = k /\ call'.val = v /\ call'.h = b0
      /\ call'.np = ptrs[b]
  BY <1>0 DEF Call
<1>4. CallType(call')
  BY <1>0, <1>1, <1>2 DEF CallType, Call
<1>5. call.op = "none" /\ ~Destroying /\ ~Destroying' /\ call'.op # "none" /\ Searching'
  BY <1>0, <1>3 DEF Destroying, DestroyOps, SearchOps, NoCall, Call, Searching
<1>6. SearchRight'
  <2>1. ptrs[b] = At(chain[b], 1)
    BY <1>1, <1>5 DEF IInv, Whole, Links
  <2>2. Passed(b, 0)'
    BY <1>0, <1>3, <2>1 DEF Passed, np, table, history
  <2>3. 0 \in 0..Len(chain'[b])
    BY <1>0, <1>1, ChainIs DEF Shape, table, history
  <2>4. call'.op # "partial" => b = b0
    BY <1>3 DEF b, b0
  <2>6. /\ open' /\ call'.key \in Key /\ (call'.op = "install" => call'.val \in Val)
        /\ h' = Hash(call'.key, UIntMax)
    BY <1>0, <1>3 DEF h, b0, table, history
  <2> QED
    BY <1>1, <1>3, <2>2, <2>3, <2>4, <2>6 DEF SearchRight, h
<1> QED
  BY <1>0, <1>2, <1>4, <1>5, <1>6, Calm

LEMMA DiesStep == ASSUME IInv, Dies PROVE IInv'
<1>1. ~Destroying /\ open /\ CallType(call)
  BY DEF Dies, Searching, Destroying, SearchOps, DestroyOps, IInv, SearchRight, TypeOK,
         CallType
<1>2. call' = [call EXCEPT !.op = "wild"] /\ UNCHANGED <<table, heap, called, ret>>
  BY DEF Dies, table, history, heap
<1>3. CallType(call') /\ call'.op = "wild"
  BY <1>1, <1>2 DEF CallType
<1>4. ~Destroying' /\ ~Searching'
  BY <1>3 DEF Searching, Destroying, SearchOps, DestroyOps
<1>5. ret \in Val \cup {Null}
  BY DEF IInv, TypeOK
<1> QED
  BY <1>1, <1>2, <1>3, <1>4, <1>5, Calm DEF SearchRight

LEMMA SearchNextStep == ASSUME IInv, SearchNext PROVE IInv'
<1>0. /\ Searching /\ np # Null /\ key[np] \notin {call.key, Null}
      /\ call' = [call EXCEPT !.np = next[np]]
      /\ UNCHANGED <<table, heap, called, ret>>
  BY DEF SearchNext, Over, table, history, heap
<1>1. ~Destroying /\ open /\ next[np] \in Node \cup {Null}
  BY <1>0, Reached
<1>2. CallType(call) /\ ret \in Val \cup {Null}
  BY DEF IInv, TypeOK, CallType
<1>3. /\ CallType(call') /\ call'.op = call.op /\ call'.key = call.key
      /\ call'.val = call.val /\ call'.h = call.h /\ call'.np = next[np]
  BY <1>0, <1>1, <1>2 DEF CallType
<1>4. ~Destroying' /\ call'.op # "none" /\ Searching'
  BY <1>0, <1>3 DEF Searching, Destroying, SearchOps, DestroyOps
<1>5. SearchRight'
  <2>1. PICK b \in Buckets : /\ call.op # "partial" => b = h
                             /\ \E i \in 0..Len(chain[b]) : Passed(b, i)
    BY <1>0 DEF IInv, SearchRight
  <2>2. PICK i \in 0..Len(chain[b]) : Passed(b, i)
    BY <2>1
  <2>3. i + 1 \in 1..Len(chain[b]) /\ np = chain[b][i + 1]
    BY <2>2, <1>0 DEF Passed, At
  <2>4. next[np] = At(chain[b], i + 1 + 1)
    BY <2>3, <1>1 DEF IInv, Whole, Links
  <2>5. Passed(b, i + 1)'
    <3>1. chain' = chain /\ key' = key /\ np' = next[np]
      BY <1>0, <1>3 DEF table, history, heap, np
    <3>2. \A j \in 1..(i + 1) : key[chain[b][j]] \notin {call.key, Null}
      BY <2>2, <2>3, <1>0 DEF Passed
    <3> QED
      BY <3>1, <3>2, <2>4, <1>3 DEF Passed
  <2>6. i + 1 \in 0..Len(chain'[b])
    BY <2>3, <1>0 DEF table, history
  <2>7. call'.op # "partial" => b = h'
    BY <2>1, <1>3 DEF h
  <2>9. /\ open' /\ call'.key \in Key /\ (call'.op = "install" => call'.val \in Val)
        /\ h' = Hash(call'.key, UIntMax)
    BY <1>0, <1>3 DEF h, table, history, IInv, SearchRight
  <2> QED
    BY <2>5, <2>6, <2>7, <2>9 DEF SearchRight
<1> QED
  BY <1>0, <1>1, <1>2, <1>3, <1>4, <1>5, Calm

LEMMA AnswerStep == ASSUME IInv, Answer PROVE IInv'
<1>1. Searching /\ ~Destroying
  BY DEF Answer, Found, Missed, Searching, Destroying, SearchOps, DestroyOps
<1>2. ret' \in Val \cup {Null}
  <2>1. CASE Found
    BY <2>1, <1>1, Reached DEF Answer, Found, Missed, Over
  <2>2. CASE ~Found
    BY <2>2 DEF Answer
  <2> QED
    BY <2>1, <2>2
<1> QED
  BY <1>1, <1>2, Returned DEF Answer, table, history, heap

LEMMA NothingStep == ASSUME IInv, Nothing PROVE IInv'
<1>1. Searching /\ ~Destroying
  BY DEF Nothing, Missed, Searching, Destroying, SearchOps, DestroyOps
<1>2. ret \in Val \cup {Null}
  BY DEF IInv, TypeOK
<1> QED
  BY <1>1, <1>2, Returned DEF Nothing, table, history, heap

LEMMA StutterStep == ASSUME IInv, UNCHANGED vars PROVE IInv'
<1>1. /\ TypeOK' /\ Chains(chain)' /\ Whole' /\ Once' /\ Shut' /\ leaked' \subseteq alive'
  BY DEF vars, table, history, heap, IInv, TypeOK, Whole, Once, Shut, Destroying, Kept
<1>2. SearchRight'
  <2>1. /\ Searching' <=> Searching
        /\ \A b, i : Passed(b, i)' <=> Passed(b, i)
        /\ UNCHANGED <<open, call, chain>> /\ h' = h
    BY DEF vars, table, history, heap, Searching, h, np, Passed
  <2> QED
    BY <2>1 DEF IInv, SearchRight
<1>3. DestroyRight'
  BY DEF vars, table, history, heap, IInv, DestroyRight, Destroying, h, np, Freeing, Kept
<1> QED
  BY <1>1, <1>2, <1>3 DEF IInv

LEMMA CreateStep == ASSUME IInv, Create PROVE IInv'
<1> USE DEF Create, table, history, heap
<1>1. call = NoCall /\ call.op = "none" /\ ~Searching /\ ~Destroying
  BY DEF IInv, Shut, NoCall, Call, Searching, Destroying, SearchOps, DestroyOps
<1>2. /\ TypeOK' /\ Chains(chain)' /\ Whole' /\ Once' /\ Shut'
  BY <1>1 DEF IInv, TypeOK, Whole, Once, Shut, Destroying, Kept
<1>3. SearchRight' /\ DestroyRight'
  BY <1>1 DEF SearchRight, DestroyRight, Searching, Destroying
<1> QED
  BY <1>2, <1>3 DEF IInv

-----------------------------------------------------------------------------
(***************************************************************************)
(* The steps that change the table.                                        *)
(***************************************************************************)
\* What a step that ends a call has to keep of the table.
LEMMA Changed ==
  ASSUME Return, open', called' = << >>, UNCHANGED ret, IInv,
         ptrs' \in [Buckets -> Node \cup {Null}],
         next' \in [Node -> Node \cup {Null, Junk}],
         prev' \in [Node -> Node \cup {Null, Junk}],
         key' \in [Node -> Key \cup {Null, Junk}],
         val' \in [Node -> Val \cup {Junk}],
         alive' \subseteq Node, lost' \subseteq {"key", "vector"},
         leaked' \subseteq alive', latest' \in Key \cup {Null},
         \A n \in alive' : Junk \notin {next'[n], prev'[n], key'[n], val'[n]},
         Chains(chain'), Links(ptrs', next', prev', chain'),
         \A n \in Node : n \in Kept' <=> In(chain', n),
         Unique(key', chain'), Placed(key', chain'), Newest(latest', key', chain')
  PROVE  IInv'
<1>1. /\ call'.op = "none" /\ call'.h = 0 /\ call'.np = Null /\ call'.key = Null
      /\ call'.val = Null /\ 0 \in 0..Size /\ call' = NoCall
  BY Marks DEF NoCall, Call, Return
<1>2. CallType(call')
  BY <1>1 DEF CallType, NoCall, Call
<1>3. ~Destroying' /\ ~Searching'
  BY <1>1 DEF Destroying, Searching, SearchOps, DestroyOps
<1>4. TypeOK'
  <2>1. ret \in Val \cup {Null} /\ called' \in Seq(Node)
        /\ chain' \in [Buckets -> Seq(Node)] /\ open' \in BOOLEAN
        /\ leaked' \subseteq Node
    BY DEF IInv, TypeOK, Chains
  <2> QED
    BY <2>1, <1>2 DEF TypeOK, CallType
<1>5. Whole'
  BY DEF Whole
<1>6. Once' /\ Shut'
  BY <1>1 DEF Once, Shut
<1> QED
  BY <1>3, <1>4, <1>5, <1>6 DEF IInv, SearchRight, DestroyRight

\* The table before a step of a search.
LEMMA TableFacts ==
  ASSUME IInv, Searching
  PROVE  /\ ptrs \in [Buckets -> Node \cup {Null}]
         /\ next \in [Node -> Node \cup {Null, Junk}]
         /\ prev \in [Node -> Node \cup {Null, Junk}]
         /\ key \in [Node -> Key \cup {Null, Junk}]
         /\ val \in [Node -> Val \cup {Junk}]
         /\ alive \subseteq Node /\ lost \subseteq {"key", "vector"}
         /\ \A n \in alive : Junk \notin {next[n], prev[n], key[n], val[n]}
         /\ Chains(chain) /\ Links(ptrs, next, prev, chain)
         /\ \A n \in Node : n \in Kept <=> In(chain, n)
         /\ Unique(key, chain) /\ Placed(key, chain) /\ Newest(latest, key, chain)
         /\ leaked \subseteq alive /\ latest \in Key \cup {Null}
         /\ called = << >> /\ open /\ ~Destroying
<1>1. ~Destroying
  BY DEF Searching, Destroying, SearchOps, DestroyOps
<1> QED
  BY <1>1 DEF IInv, TypeOK, Whole, SearchRight

LEMMA ReplaceStep == ASSUME IInv, Replace PROVE IInv'
<1>1. Searching /\ call.op = "install" /\ call.val \in Val /\ np # Null
  BY DEF Replace, Found, IInv, SearchRight, Over
<1>2. /\ UNCHANGED <<table, key, alive, lost, ret, called>> /\ Return
      /\ val' = [val EXCEPT ![np] = call.val]
  BY DEF Replace
<1>3. /\ val' \in [Node -> Val \cup {Junk}]
      /\ \A n \in alive : val'[n] # Junk
  BY <1>1, <1>2, TableFacts, Marks
<1> QED
  BY <1>1, <1>2, <1>3, TableFacts, Changed DEF table, history, Kept

LEMMA AddStep == ASSUME IInv, NEW n \in Node, Add(n) PROVE IInv'
<1>1. Searching /\ call.op = "install" /\ call.val \in Val /\ call.key \in Key
      /\ h = Hash(call.key, UIntMax)
  BY DEF Add, Missed, IInv, SearchRight
<1>2. h \in Buckets /\ \A m \in Node : In(chain, m) => key[m] # call.key
  BY <1>1, MissedIsAbsent DEF Add
<1>3. ~In(chain, n) /\ n # Null
  BY <1>1, TableFacts, Marks DEF Add, Kept
<1>4. PICK k \in {call.key, Null} : /\ key' = [key EXCEPT ![n] = k]
                                   /\ latest' = IF k = Null THEN latest ELSE k
  BY DEF Add
<1>5. /\ chain' = [chain EXCEPT ![h] = <<n>> \o @]
      /\ ptrs' = [ptrs EXCEPT ![h] = n]
      /\ next' = [next EXCEPT ![n] = ptrs[h]]
      /\ prev' = IF ptrs[h] # Null THEN [prev EXCEPT ![n] = Null, ![ptrs[h]] = n]
                                   ELSE [prev EXCEPT ![n] = Null]
      /\ val' = [val EXCEPT ![n] = call.val]
      /\ alive' = alive \cup {n}
      /\ Return /\ UNCHANGED <<open, leaked, lost, ret, called>>
  BY DEF Add, PrevLinked, Stored
<1>6. Added(chain, chain', h, n)
  <2>1. /\ Chains(chain) /\ h \in Buckets /\ ~In(chain, n)
        /\ chain' = [chain EXCEPT ![h] = <<n>> \o @]
    BY <1>2, <1>3, <1>5, ChainIs
  <2> QED
    BY <2>1, Prepended
<1>7. Links(ptrs', next', prev', chain')
  <2>1. /\ Pointers(ptrs, next, prev)
        /\ Chains(chain) /\ Links(ptrs, next, prev, chain)
        /\ h \in Buckets /\ ~In(chain, n) /\ Added(chain, chain', h, n)
    BY <1>1, <1>2, <1>3, <1>6, TableFacts DEF Pointers
  <2>2. PutsFirst(ptrs, next, prev, h, n, ptrs', next', prev')
    BY <1>5 DEF PutsFirst
  <2> QED
    BY <2>1, <2>2, AddedLinks
<1>8. Unique(key', chain') /\ Placed(key', chain')
  <2>1. KeyGiven(key, key', n, call.key)
    BY <1>4 DEF KeyGiven
  <2>2. /\ key \in [Node -> Key \cup {Null, Junk}]
        /\ Chains(chain) /\ Unique(key, chain) /\ Placed(key, chain)
    BY <1>1, TableFacts
  <2> QED
    BY <1>1, <1>2, <1>3, <1>6, <2>1, <2>2, AddedKeys
<1>9. \A m \in Node : m \in Kept' <=> In(chain', m)
  <2>1. Kept' = Kept \cup {n}
    BY <1>1, <1>3, <1>5, TableFacts DEF Kept, Add
  <2> QED
    BY <2>1, <1>1, <1>6, TableFacts DEF Added
<1>10. ptrs[h] \in Node \cup {Null}
  BY <1>1, <1>2, TableFacts
<1>11. /\ ptrs' \in [Buckets -> Node \cup {Null}]
       /\ next' \in [Node -> Node \cup {Null, Junk}]
       /\ key' \in [Node -> Key \cup {Null, Junk}]
       /\ val' \in [Node -> Val \cup {Junk}]
       /\ alive' \subseteq Node
  BY <1>1, <1>4, <1>5, <1>10, TableFacts
<1>12. prev' \in [Node -> Node \cup {Null, Junk}]
  BY <1>1, <1>5, <1>10, TableFacts
<1>13. \A m \in alive' : Junk \notin {next'[m], prev'[m], key'[m], val'[m]}
  <2> SUFFICES ASSUME NEW m \in alive'
               PROVE  Junk \notin {next'[m], prev'[m], key'[m], val'[m]}
    OBVIOUS
  <2>1. m \in Node /\ Junk # Null /\ Junk \notin Node /\ Junk \notin Key /\ Junk \notin Val
    BY <1>11, Marks
  <2>2. CASE m = n
    <3>1. prev'[n] = Null \/ prev'[n] = n
      BY <1>1, <1>5, <1>10, TableFacts
    <3>2. next'[n] = ptrs[h] /\ key'[n] = k /\ val'[n] = call.val
      BY <1>1, <1>4, <1>5, TableFacts
    <3> QED
      BY <2>1, <2>2, <3>1, <3>2, <1>1, <1>10
  <2>3. CASE m # n
    <3>1. m \in alive
      BY <2>3, <1>5
    <3>2. next'[m] = next[m] /\ key'[m] = key[m] /\ val'[m] = val[m]
      BY <2>1, <2>3, <1>1, <1>4, <1>5, TableFacts
    <3>3. prev'[m] = prev[m] \/ prev'[m] = n
      BY <2>1, <2>3, <1>1, <1>5, <1>10, TableFacts
    <3> QED
      BY <2>1, <3>1, <3>2, <3>3, <1>1, TableFacts
  <2> QED
    BY <2>2, <2>3
<1>14. /\ open' /\ called' = << >> /\ lost' \subseteq {"key", "vector"} /\ Chains(chain')
       /\ leaked' \subseteq alive' /\ latest' \in Key \cup {Null}
  <2>1. latest' \in Key \cup {Null}
    BY <1>1, <1>4, TableFacts
  <2>2. leaked' \subseteq alive'
    BY <1>1, <1>5, TableFacts
  <2> QED
    BY <2>1, <2>2, <1>1, <1>5, <1>6, TableFacts DEF Added
<1>15. Newest(latest', key', chain')
  <2> SUFFICES ASSUME NEW b \in Buckets, Len(chain'[b]) > 0
               PROVE  b = 0 /\ key'[chain'[b][1]] \in {latest', Null}
    BY DEF Newest
  <2>1. h = 0
    BY <1>1, Hash0
  <2>2. b = h
    <3>1. b # h => chain'[b] = chain[b]
      BY <1>6 DEF Added
    <3> QED
      BY <2>1, <3>1, <1>1, TableFacts DEF Newest
  <2>3. chain'[h][1] = n
    <3>1. Len(chain[h]) \in Nat
      BY <1>2, ChainIs DEF Shape
    <3> QED
      BY <3>1, <1>6 DEF Added
  <2>4. key'[n] = k
    BY <1>1, <1>4, TableFacts
  <2> QED
    BY <2>1, <2>2, <2>3, <2>4, <1>4
<1> QED
  BY <1>5, <1>7, <1>8, <1>9, <1>11, <1>12, <1>13, <1>14, <1>15, Changed

\* What mmp_htab_delete writes, whatever the place of the element.
LEMMA Unlinked ==
  ASSUME IInv, Unlink
  PROVE  /\ Searching /\ call.op = "delete" /\ call.key \in Key
         /\ np \in Node /\ In(chain, np) /\ key[np] = call.key
         /\ key' = [key EXCEPT ![np] = Junk] /\ val' = [val EXCEPT ![np] = Junk]
         /\ alive' = alive \ {np} /\ lost' \subseteq {"key", "vector"}
         /\ Return /\ UNCHANGED <<open, ret, called>>
         /\ TakesOut(ptrs, next, prev, h, np, ptrs', next', prev')
         /\ ptrs' \in [Buckets -> Node \cup {Null}]
         /\ next' \in [Node -> Node \cup {Null, Junk}]
         /\ prev' \in [Node -> Node \cup {Null, Junk}]
         /\ key' \in [Node -> Key \cup {Null, Junk}]
         /\ val' \in [Node -> Val \cup {Junk}]
         /\ \A m \in alive' : Junk \notin {next'[m], prev'[m], key'[m], val'[m]}
<1>1. Searching /\ call.op = "delete" /\ np # Null /\ key[np] = call.key /\ call.key \in Key
  BY DEF Unlink, Found, IInv, SearchRight, Over
<1> DEFINE nx1 == IF prev[np] # Null THEN [next EXCEPT ![prev[np]] = next[np]] ELSE next
           pv1 == IF next[np] # Null THEN [prev EXCEPT ![next[np]] = prev[np]] ELSE prev
<1>2. /\ ptrs' = [ptrs EXCEPT ![h] = IF @ = np THEN prev[np] ELSE @]
      /\ next' = [nx1 EXCEPT ![np] = Junk]
      /\ prev' = [pv1 EXCEPT ![np] = Junk]
      /\ key' = [key EXCEPT ![np] = Junk]
      /\ val' = [val EXCEPT ![np] = Junk]
      /\ alive' = alive \ {np}
      /\ lost' = lost \cup {"key"}
      /\ Return /\ UNCHANGED <<open, ret, called>>
  BY DEF Unlink, Freed
<1>3. /\ np \in Node /\ np \in alive /\ In(chain, np)
      /\ next[np] \in Node \cup {Null} /\ prev[np] \in Node \cup {Null}
  BY <1>1, Reached
<1>4. /\ ptrs' \in [Buckets -> Node \cup {Null}]
      /\ key' \in [Node -> Key \cup {Null, Junk}]
      /\ val' \in [Node -> Val \cup {Junk}]
      /\ lost' \subseteq {"key", "vector"}
  BY <1>1, <1>2, <1>3, TableFacts
<1>5. /\ nx1 \in [Node -> Node \cup {Null, Junk}]
      /\ \A m \in alive : nx1[m] # Junk
  BY <1>1, <1>3, TableFacts, Marks
<1>6. /\ pv1 \in [Node -> Node \cup {Null, Junk}]
      /\ \A m \in alive : pv1[m] # Junk
  BY <1>1, <1>3, TableFacts, Marks
<1>7. TakesOut(ptrs, next, prev, h, np, ptrs', next', prev')
  BY <1>2 DEF TakesOut
<1> HIDE DEF nx1, pv1
<1>8. /\ next' \in [Node -> Node \cup {Null, Junk}]
      /\ prev' \in [Node -> Node \cup {Null, Junk}]
  BY <1>2, <1>5, <1>6
<1>9. \A m \in alive' : Junk \notin {next'[m], prev'[m], key'[m], val'[m]}
  <2> SUFFICES ASSUME NEW m \in alive'
               PROVE  Junk \notin {next'[m], prev'[m], key'[m], val'[m]}
    OBVIOUS
  <2>1. m \in alive /\ m # np /\ m \in Node
    BY <1>1, <1>2, TableFacts
  <2>2. next'[m] = nx1[m] /\ prev'[m] = pv1[m] /\ key'[m] = key[m] /\ val'[m] = val[m]
    BY <2>1, <1>1, <1>2, <1>5, <1>6, TableFacts
  <2> QED
    BY <2>1, <2>2, <1>1, <1>5, <1>6, TableFacts
<1> QED
  BY <1>1, <1>2, <1>3, <1>4, <1>7, <1>8, <1>9

\* The chains then: all of the first element's is given up, whose key was the last
\* to be added; of any other, only the element is taken out.
LEMMA UnlinkChains ==
  ASSUME IInv, Unlink
  PROVE  /\ h \in Buckets /\ h = 0 /\ 1 \in 1..Len(chain[h])
         /\ \/ /\ np = chain[h][1] /\ Cut(chain, chain', h)
               /\ leaked' = leaked \cup (ToSet(chain[h]) \ {np})
               /\ latest = call.key /\ latest' = Null
            \/ \E i \in 1..Len(chain[h]) :
                  /\ i # 1 /\ np = chain[h][i] /\ Dropped(chain, chain', h, i)
                  /\ leaked' = leaked
                  /\ latest # call.key /\ latest' = latest
                  /\ key[chain[h][1]] = latest
<1>1. /\ Searching /\ call.op = "delete" /\ call.key \in Key /\ key[np] = call.key
      /\ np # Null
  BY Unlinked, Marks DEF Unlink, Found, Over
<1>2. h = Hash(call.key, UIntMax) /\ h = 0
  BY <1>1, Hash0 DEF IInv, SearchRight
<1>3. PICK b \in Buckets : b = h /\ \E i \in 0..Len(chain[b]) : Passed(b, i)
  BY <1>1 DEF IInv, SearchRight
<1>4. PICK i \in 0..Len(chain[h]) : Passed(h, i)
  BY <1>3
<1>5. np = chain[h][i + 1] /\ i + 1 \in 1..Len(chain[h])
  BY <1>1, <1>4 DEF Passed, At
<1>6. h \in Buckets /\ Len(chain[h]) \in Nat /\ Len(chain[h]) > 0
  BY <1>3, <1>5, ChainIs DEF Shape
<1>7. 1 \in 1..Len(chain[h]) /\ ptrs[h] = chain[h][1]
  BY <1>1, <1>6, TableFacts DEF Links, At
<1>8. Newest(latest, key, chain)
  BY <1>1, TableFacts
<1>9. key[chain[h][1]] \in {latest, Null}
  BY <1>6, <1>8 DEF Newest
<1>10. CASE i = 0
  <2>1. np = chain[h][1] /\ First(np)
    BY <1>5, <1>7, <1>10 DEF First
  <2>2. WithoutFirst
    BY <2>1 DEF Unlink
  <2>3. latest = call.key
    BY <2>1, <1>1, <1>9, Marks
  <2>4. Cut(chain, chain', h)
    BY <2>2, <1>6, Cutting, ChainIs DEF WithoutFirst
  <2> QED
    BY <2>1, <2>2, <2>3, <2>4, <1>2, <1>6, <1>7 DEF WithoutFirst
<1>11. CASE i # 0
  <2> DEFINE k == i + 1
  <2>1. k \in 1..Len(chain[h]) /\ np = chain[h][k] /\ k # 1 /\ 1 \in 1..i
    BY <1>5, <1>11
  <2>2. key[chain[h][1]] \notin {call.key, Null}
    BY <2>1, <1>4 DEF Passed
  <2>3. key[chain[h][1]] = latest /\ latest # call.key
    BY <2>2, <1>9
  <2>4. ~First(np)
    BY <2>2, <1>1, <1>7 DEF First
  <2>5. Without(np)
    BY <2>4 DEF Unlink
  <2> HIDE DEF k
  <2>6. PlaceOf(np) = k
    <3>1. DOMAIN chain[h] = 1..Len(chain[h])
      BY <1>6, ChainIs, LenProperties DEF Shape
    <3>2. \A l \in 1..Len(chain[h]) : chain[h][l] = np => l = k
      BY <2>1, <1>6, ChainIs DEF Chains
    <3> QED
      BY <2>1, <3>1, <3>2 DEF PlaceOf
  <2>7. chain' = [chain EXCEPT ![h] = RemoveAt(@, k)]
    BY <2>5, <2>6 DEF Without
  <2>8. Dropped(chain, chain', h, k)
    BY <2>1, <2>7, <1>6, Dropping, ChainIs
  <2> QED
    BY <2>1, <2>3, <2>5, <2>8, <1>2, <1>6, <1>7 DEF Without
<1> QED
  BY <1>10, <1>11

LEMMA UnlinkStep == ASSUME IInv, Unlink PROVE IInv'
<1>0. Searching /\ np \in Node /\ In(chain, np)
  BY Unlinked
<1>1. Chains(chain) /\ Shape(chain) /\ h \in Buckets /\ h = 0 /\ 1 \in 1..Len(chain[h])
  BY ChainIs, UnlinkChains
<1>2. /\ Pointers(ptrs, next, prev) /\ Links(ptrs, next, prev, chain)
      /\ Unique(key, chain) /\ Placed(key, chain) /\ Newest(latest, key, chain)
      /\ key \in [Node -> Key \cup {Null, Junk}]
      /\ \A n \in Node : n \in Kept <=> In(chain, n)
      /\ leaked \subseteq alive /\ alive \subseteq Node
      /\ latest \in Key \cup {Null} /\ open /\ called = << >>
  BY <1>0, TableFacts DEF Pointers
<1>3. /\ Return /\ UNCHANGED <<open, ret, called>>
      /\ alive' = alive \ {np} /\ key' = [key EXCEPT ![np] = Junk]
      /\ TakesOut(ptrs, next, prev, h, np, ptrs', next', prev')
  BY Unlinked
<1>4. np \in Kept
  BY <1>0, <1>2
<1>5. CASE /\ np = chain[h][1] /\ Cut(chain, chain', h)
           /\ leaked' = leaked \cup (ToSet(chain[h]) \ {np})
           /\ latest' = Null
  <2>1. Links(ptrs', next', prev', chain')
    BY <1>1, <1>2, <1>3, <1>5, CutLinks
  <2>2. Unique(key', chain') /\ Placed(key', chain') /\ Chains(chain')
    <3>1. chain[h][1] = np /\ Cut(chain, chain', h) /\ Chains(chain)
      BY <1>1, <1>5
    <3>2. Unique(key', chain') /\ Placed(key', chain')
      BY <3>1, <1>1, <1>2, <1>3, CutKeys
    <3> QED
      BY <3>1, <3>2 DEF Cut
  <2>3. \A m : m \in ToSet(chain[h]) <=> \E j \in 1..Len(chain[h]) : chain[h][j] = m
    <3>1. DOMAIN chain[h] = 1..Len(chain[h])
      BY <1>1, LenProperties DEF Shape
    <3> QED
      BY <3>1 DEF ToSet
  <2>4. ToSet(chain[h]) \subseteq Kept
    BY <2>3, <1>1, <1>2 DEF In, Shape
  <2>5. leaked' \subseteq alive' /\ Kept' = Kept \ ToSet(chain[h])
    <3>1. np \in ToSet(chain[h])
      BY <2>3, <1>1, <1>5
    <3> QED
      BY <2>4, <3>1, <1>2, <1>3, <1>4, <1>5 DEF Kept
  <2>6. \A m \in Node : m \in Kept' <=> In(chain', m)
    BY <2>3, <2>5, <1>2, <1>5 DEF Cut
  <2>7. Newest(latest', key', chain')
    <3> SUFFICES ASSUME NEW b \in Buckets, Len(chain'[b]) > 0 PROVE FALSE
      BY DEF Newest
    <3>1. b # h /\ chain'[b] = chain[b]
      BY <1>5 DEF Cut
    <3> QED
      BY <3>1, <1>1, <1>2 DEF Newest
  <2> QED
    BY <2>1, <2>2, <2>5, <2>6, <2>7, <1>2, <1>3, <1>5, Unlinked, Changed
<1>6. ASSUME NEW i \in 1..Len(chain[h]), i # 1, np = chain[h][i],
             Dropped(chain, chain', h, i), leaked' = leaked, latest' = latest,
             key[chain[h][1]] = latest
      PROVE  IInv'
  <2>0. i = 1 => Len(chain[h]) = 1
    BY <1>6
  <2>1. Links(ptrs', next', prev', chain')
    BY <2>0, <1>1, <1>2, <1>3, <1>6, DroppedLinks
  <2>2. Unique(key', chain') /\ Placed(key', chain') /\ Chains(chain')
    <3>1. Unique(key', chain') /\ Placed(key', chain')
      BY <1>1, <1>2, <1>3, <1>6, DroppedKeys
    <3> QED
      BY <3>1, <1>6 DEF Dropped
  <2>3. leaked' \subseteq alive' /\ Kept' = Kept \ {np}
    BY <1>2, <1>3, <1>4, <1>6 DEF Kept
  <2>4. \A m \in Node : m \in Kept' <=> In(chain', m)
    BY <2>3, <1>2, <1>6 DEF Dropped
  <2>5. Newest(latest', key', chain')
    <3> SUFFICES ASSUME NEW b \in Buckets, Len(chain'[b]) > 0
                 PROVE  b = 0 /\ key'[chain'[b][1]] \in {latest', Null}
      BY DEF Newest
    <3>1. b = h
      <4>1. b # h => chain'[b] = chain[b]
        BY <1>6 DEF Dropped
      <4> QED
        BY <4>1, <1>1, <1>2 DEF Newest
    <3>2. chain'[h][1] = chain[h][1]
      <4>1. Len(chain[h]) \in Nat /\ i > 1 /\ 1 \in 1..(Len(chain[h]) - 1)
        BY <1>1, <1>6 DEF Shape
      <4> QED
        BY <4>1, <1>6 DEF Dropped
    <3>3. chain[h][1] \in Node /\ chain[h][1] # np
      BY <1>1, <1>6 DEF Shape, Chains
    <3> QED
      BY <3>1, <3>2, <3>3, <1>1, <1>2, <1>3, <1>6
  <2> QED
    BY <2>1, <2>2, <2>3, <2>4, <2>5, <1>2, <1>3, <1>6, Unlinked, Changed
<1> QED
  BY <1>5, <1>6, UnlinkChains

-----------------------------------------------------------------------------
(***************************************************************************)
(* The destruction of the table.                                           *)
(***************************************************************************)
LEMMA DestroyStep == ASSUME IInv, NEW how \in DestroyOps, Destroy(how) PROVE IInv'
<1>0. /\ open /\ call = NoCall /\ call.op = "none"
      /\ call' = Call(how, Null, Null, 0, Null)
      /\ UNCHANGED <<open, ptrs, next, prev, chain, leaked, heap, ret, called>>
      /\ latest' = Null
  BY DEF Destroy, Idle, NoCall, Call
<1>1. /\ call'.op = how /\ call'.key = Null /\ call'.val = Null /\ call'.h = 0
      /\ call'.np = Null /\ 0 \in 0..Size /\ how # "none" /\ how \notin SearchOps
  BY <1>0, Marks DEF Call, DestroyOps, SearchOps
<1>2. CallType(call')
  BY <1>0, <1>1 DEF CallType, Call
<1>3. ~Destroying /\ Destroying' /\ ~Searching'
  BY <1>0, <1>1 DEF Destroying, Searching, DestroyOps
<1>4. TypeOK' /\ Chains(chain)' /\ Shut'
  BY <1>0, <1>1, <1>2 DEF IInv, TypeOK, CallType, heap, Shut
<1>5. Whole' /\ SearchRight' /\ leaked' \subseteq alive' /\ Kept' = Kept
  BY <1>0, <1>3 DEF Whole, SearchRight, IInv, heap, Kept
<1>6. Once'
  BY <1>0, <1>3, <1>5 DEF IInv, Whole, Once, heap
<1>7. Freeing(0)'
  <2>1. np' = Null /\ h' = 0 /\ chain' = chain /\ ptrs' = ptrs /\ Kept' = Kept
        /\ next' = next
    BY <1>0, <1>1, <1>5 DEF np, h
  <2>2. \A n \in Node : n \in Kept <=> Left(chain, 0, 0, n)
    <3>1. \A b \in Buckets : b >= 0
      BY Marks DEF Buckets
    <3> QED
      BY <3>1, <1>3 DEF IInv, Whole, Left, In
  <2>3. /\ \A b \in Buckets : ptrs[b] = At(chain[b], 1)
        /\ \A b \in Buckets : \A j \in 1..Len(chain[b]) :
              next[chain[b][j]] = At(chain[b], j + 1)
    BY <1>3 DEF IInv, Whole, Links
  <2> QED
    BY <2>1, <2>2, <2>3 DEF Freeing
<1>8. DestroyRight'
  <2>1. open' /\ h' = 0
    BY <1>0, <1>1 DEF h
  <2> QED
    BY <2>1, <1>7 DEF DestroyRight
<1> QED
  BY <1>4, <1>5, <1>6, <1>8 DEF IInv

LastPlace == IF h = 0 THEN 0 ELSE Len(chain[h - 1])

\* The place a destruction is at, in the bucket before h.
LEMMA FreeingFacts ==
  ASSUME IInv, Destroying
  PROVE  /\ open /\ ~Searching /\ h \in 0..Size /\ LastPlace \in Nat
         /\ h # 0 => h - 1 \in Buckets
         /\ \E i \in 0..LastPlace : Freeing(i)
<1>1. open /\ ~Searching /\ h \in 0..Size
  BY CallTypes DEF Destroying, Searching, DestroyOps, SearchOps, IInv, DestroyRight
<1>2. h # 0 => h - 1 \in Buckets
  BY <1>1, Marks DEF Buckets
<1>3. LastPlace \in Nat
  BY <1>2, ChainIs DEF LastPlace, Shape
<1> QED
  BY <1>1, <1>2, <1>3 DEF IInv, DestroyRight, LastPlace

\* At the end of a chain, what is left is what the later buckets hold.
LEMMA ChainEnds ==
  ASSUME IInv, Destroying, np = Null
  PROVE  /\ \A n \in Node : n \in Kept <=> \E b \in Buckets : \E j \in 1..Len(chain[b]) :
                                               chain[b][j] = n /\ b >= h
         /\ \A b \in Buckets : b >= h => ptrs[b] = At(chain[b], 1)
         /\ \A b \in Buckets : \A j \in 1..Len(chain[b]) :
               b >= h => next[chain[b][j]] = At(chain[b], j + 1)
<1>1. PICK i \in 0..LastPlace : Freeing(i)
  BY FreeingFacts
<1>2. h # 0 => i = LastPlace
  <2> SUFFICES ASSUME h # 0 PROVE i = LastPlace
    OBVIOUS
  <2>1. At(chain[h - 1], i + 1) = Null
    BY <1>1 DEF Freeing
  <2>2. i + 1 \in 1..Len(chain[h - 1]) => chain[h - 1][i + 1] # Null
    BY FreeingFacts, ChainIs DEF Shape
  <2>3. i + 1 \notin 1..LastPlace
    BY <2>1, <2>2 DEF At, LastPlace
  <2> QED
    BY <2>3, FreeingFacts
<1>3. \A b \in Buckets : \A j \in 1..Len(chain[b]) : ~(b = h - 1 /\ j > i)
  <2> SUFFICES ASSUME NEW b \in Buckets, NEW j \in 1..Len(chain[b]), b = h - 1, j > i
               PROVE  FALSE
    OBVIOUS
  <2>1. h # 0
    BY Marks, FreeingFacts DEF Buckets
  <2>2. i = Len(chain[b]) /\ i \in Nat
    BY <2>1, <1>2, FreeingFacts DEF LastPlace
  <2> QED
    BY <2>2
<1> QED
  BY <1>1, <1>3 DEF Freeing, Left

\* The buckets after k, and that of k from its first place on.
LEMMA LeftFrom ==
  ASSUME NEW ch, Shape(ch), NEW k \in Nat, NEW n
  PROVE  Left(ch, k + 1, 0, n) <=>
            \E b \in Buckets : \E j \in 1..Len(ch[b]) : ch[b][j] = n /\ b >= k
<1>1. \A b \in Buckets : b \in Int
  BY Marks DEF Buckets
<1>2. \A b \in Buckets : \A j \in 1..Len(ch[b]) : j \in Nat /\ j > 0
  BY DEF Shape
<1>3. ASSUME NEW b \in Buckets, NEW j \in 1..Len(ch[b])
      PROVE  b >= k <=> b >= k + 1 \/ (b = k + 1 - 1 /\ j > 0)
  BY <1>1, <1>2
<1> QED
  BY <1>3 DEF Left

LEMMA NextBucketStep == ASSUME IInv, NextBucket PROVE IInv'
<1>0. /\ Destroying /\ np = Null /\ h < Size
      /\ call' = [call EXCEPT !.h = h + 1, !.np = ptrs[h]]
      /\ UNCHANGED <<table, heap, ret, called>>
  BY DEF NextBucket
<1>1. /\ h \in Buckets /\ h + 1 \in 0..Size /\ ptrs[h] \in Node \cup {Null} /\ open
  BY <1>0, FreeingFacts, Marks DEF Buckets, IInv, TypeOK
<1>2. CallType(call)
  BY DEF IInv, TypeOK, CallType
<1>3. CallType(call') /\ call'.op = call.op /\ call'.h = h + 1 /\ call'.np = ptrs[h]
  BY <1>0, <1>1, <1>2 DEF CallType
<1>4. Destroying' /\ ~Searching' /\ call'.op # "none"
  BY <1>0, <1>3 DEF Destroying, Searching, DestroyOps, SearchOps
<1>5. TypeOK' /\ Chains(chain)' /\ Shut'
  BY <1>0, <1>1, <1>3, <1>4 DEF IInv, TypeOK, CallType, table, history, heap, Shut
<1>6. Whole' /\ SearchRight' /\ Once' /\ leaked' \subseteq alive' /\ Kept' = Kept
  BY <1>0, <1>3, <1>4 DEF Whole, SearchRight, IInv, Once, table, history, heap, Kept
<1>7. Freeing(0)'
  <2>1. np' = ptrs[h] /\ h' = h + 1 /\ chain' = chain /\ ptrs' = ptrs /\ Kept' = Kept
        /\ next' = next
    BY <1>0, <1>3, <1>6 DEF np, h, table, history
  <2>2. h \in Nat
    BY <1>1, Marks DEF Buckets
  <2>3. \A n \in Node : n \in Kept <=> Left(chain, h + 1, 0, n)
    <3>1. \A n \in Node : n \in Kept <=> \E b \in Buckets : \E j \in 1..Len(chain[b]) :
                                               chain[b][j] = n /\ b >= h
      BY <1>0, ChainEnds
    <3> QED
      BY <3>1, <2>2, LeftFrom, ChainIs
  <2>4. ptrs[h] = At(chain[h], 1)
    BY <1>0, <1>1, ChainEnds, FreeingFacts
  <2>5. \A b \in Buckets : b >= h + 1 => ptrs[b] = At(chain[b], 1)
    BY <1>0, <1>1, ChainEnds, Marks DEF Buckets
  <2>6. \A b \in Buckets : \A j \in 1..Len(chain[b]) :
           b >= h + 1 \/ (b = h + 1 - 1 /\ j > 0) => next[chain[b][j]] = At(chain[b], j + 1)
    BY <1>0, <1>1, ChainEnds, Marks DEF Buckets
  <2>8. np' = IF h' = 0 THEN Null ELSE At(chain'[h' - 1], 0 + 1)
    <3>1. h' # 0 /\ h' - 1 = h /\ 0 + 1 = 1
      BY <2>1, <2>2
    <3> QED
      BY <3>1, <2>1, <2>4
  <2>9. \A n \in Node : n \in Kept' <=> Left(chain', h', 0, n)
    BY <2>1, <2>3
  <2>10. \A b \in Buckets : b >= h' => ptrs'[b] = At(chain'[b], 1)
    BY <2>1, <2>5
  <2>11. \A b \in Buckets : \A j \in 1..Len(chain'[b]) :
            b >= h' \/ (b = h' - 1 /\ j > 0) => next'[chain'[b][j]] = At(chain'[b], j + 1)
    BY <2>1, <2>2, <2>6
  <2> QED
    BY <2>8, <2>9, <2>10, <2>11 DEF Freeing
<1>8. DestroyRight'
  <2>1. open' /\ h' = h + 1 /\ chain' = chain
    BY <1>0, <1>1, <1>3 DEF h, table, history
  <2>2. LastPlace' \in Nat
    BY <2>1, <1>1, ChainIs DEF LastPlace, Shape, Buckets
  <2> QED
    BY <2>1, <2>2, <1>7 DEF DestroyRight, LastPlace
<1> QED
  BY <1>5, <1>6, <1>8 DEF IInv

LEMMA FreeOneStep == ASSUME IInv, FreeOne PROVE IInv'
<1>0. /\ Destroying /\ np # Null
      /\ call' = [call EXCEPT !.np = next[np]]
      /\ alive' = alive \ {np}
      /\ next' = [next EXCEPT ![np] = Junk] /\ prev' = [prev EXCEPT ![np] = Junk]
      /\ key' = [key EXCEPT ![np] = Junk] /\ val' = [val EXCEPT ![np] = Junk]
      /\ UNCHANGED <<open, ptrs, chain, leaked, latest, ret>>
  BY DEF FreeOne, Freed, history
<1>1. PICK i \in 0..LastPlace : Freeing(i)
  BY <1>0, FreeingFacts
<1> DEFINE c == h - 1
           k == i + 1
<1>2. /\ h # 0 /\ c \in Buckets /\ k \in 1..Len(chain[c]) /\ np = chain[c][k]
      /\ np \in Node
  <2>1. h # 0 /\ np = At(chain[c], k)
    BY <1>0, <1>1 DEF Freeing
  <2>2. k \in 1..Len(chain[c]) /\ np = chain[c][k]
    BY <1>0, <2>1 DEF At
  <2> QED
    BY <1>0, <2>1, <2>2, FreeingFacts, ChainIs DEF Shape
<1>3. k > i /\ i \in Nat /\ h \in Nat
  BY <1>0, FreeingFacts
<1>4. np \in Kept /\ np \in alive /\ Kept' = Kept \ {np} /\ leaked' \subseteq alive'
  <2>1. np \in Kept
    BY <1>1, <1>2, <1>3 DEF Freeing, Left
  <2> QED
    BY <2>1, <1>0 DEF Kept, IInv
<1>5. next[np] = At(chain[c], k + 1) /\ next[np] \in Node \cup {Null}
  BY <1>1, <1>2, <1>3, <1>4 DEF Freeing, IInv, TypeOK
<1>6. CallType(call) /\ CallType(call')
      /\ call'.op = call.op /\ call'.h = call.h /\ call'.np = next[np]
  BY <1>0, <1>5 DEF IInv, TypeOK, CallType
<1>7. /\ Destroying' /\ ~Searching' /\ call'.op # "none" /\ open
      /\ h' = h /\ np' = next[np] /\ LastPlace' = LastPlace
  BY <1>0, <1>6, FreeingFacts DEF Destroying, Searching, DestroyOps, SearchOps, h, np,
     LastPlace
<1>8. /\ called' = IF call.op = "destroyData" THEN Append(called, np) ELSE called
      /\ lost' \subseteq {"key", "vector"}
  BY DEF FreeOne, Called, IInv, TypeOK
<1>9. TypeOK'
  <2>1. /\ next' \in [Node -> Node \cup {Null, Junk}]
        /\ prev' \in [Node -> Node \cup {Null, Junk}]
        /\ key' \in [Node -> Key \cup {Null, Junk}]
        /\ val' \in [Node -> Val \cup {Junk}]
        /\ alive' \subseteq Node
    BY <1>0 DEF IInv, TypeOK
  <2>2. \A n \in alive' : Junk \notin {next'[n], prev'[n], key'[n], val'[n]}
    BY <1>0 DEF IInv, TypeOK
  <2>3. called' \in Seq(Node)
    BY <1>2, <1>8 DEF IInv, TypeOK
  <2> QED
    BY <2>1, <2>2, <2>3, <1>0, <1>6, <1>8 DEF IInv, TypeOK, CallType
\* The elements left are those left before and not the one that is freed.
<1>10. ASSUME NEW b \in Buckets, NEW j \in 1..Len(chain[b])
       PROVE  b >= h \/ (b = c /\ j > k) <=>
              (b >= h \/ (b = c /\ j > i)) /\ chain[b][j] # np
  <2>1. chain[b][j] = np <=> b = c /\ j = k
    <3> HIDE DEF c, k
    <3> QED
      BY <1>2, ChainIs DEF Chains
  <2> QED
    BY <2>1, <1>3
<1>11. \A n \in Node : n \in Kept' <=> Left(chain, h, k, n)
  <2>1. ASSUME NEW n \in Node PROVE Left(chain, h, k, n) <=> Left(chain, h, i, n) /\ n # np
    BY <1>10 DEF Left
  <2> QED
    BY <2>1, <1>1, <1>4 DEF Freeing
<1>12. Freeing(k)'
  <2>1. ASSUME NEW b \in Buckets, NEW j \in 1..Len(chain[b]), b >= h \/ (b = c /\ j > k)
        PROVE  next'[chain[b][j]] = At(chain[b], j + 1)
    <3>1. (b >= h \/ (b = c /\ j > i)) /\ chain[b][j] # np
      BY <2>1, <1>10
    <3>2. chain[b][j] \in Node
      BY ChainIs DEF Shape
    <3>3. next'[chain[b][j]] = next[chain[b][j]]
      BY <3>1, <3>2, <1>0 DEF IInv, TypeOK
    <3> QED
      BY <3>1, <3>3, <1>1 DEF Freeing
  <2>2. \A b \in Buckets : b >= h => ptrs[b] = At(chain[b], 1)
    BY <1>1 DEF Freeing
  <2>3. np' = At(chain[c], k + 1)
    BY <1>5, <1>7
  <2> HIDE DEF k
  <2> QED
    BY <2>1, <2>2, <2>3, <1>0, <1>2, <1>7, <1>11 DEF Freeing
<1>13. DestroyRight'
  <2>1. k \in 0..LastPlace
    BY <1>2, FreeingFacts DEF LastPlace
  <2> HIDE DEF k
  <2>2. k \in 0..LastPlace'
    BY <2>1, <1>7
  <2> QED
    BY <2>2, <1>0, <1>7, <1>12 DEF DestroyRight, LastPlace
<1>14. Once'
  <2>1. CASE call.op # "destroyData"
    BY <2>1, <1>0, <1>4, <1>6, <1>8 DEF IInv, Once
  <2>2. CASE call.op = "destroyData"
    <3> DEFINE m == Len(called)
    <3>1. /\ m \in Nat /\ \A l \in 1..m : called[l] # np
      BY <1>4, LenProperties DEF IInv, TypeOK, Once
    <3>2. /\ Len(called') = m + 1 /\ called'[m + 1] = np
          /\ \A l \in 1..m : called'[l] = called[l]
      BY <2>2, <1>2, <1>8, AppendProperties DEF IInv, TypeOK
    <3>3. \A l, o \in 1..m : called[l] = called[o] => l = o
      BY DEF IInv, Once
    <3>4. \A n \in Node : In(chain, n) <=> n \in Kept \/ \E l \in 1..m : called[l] = n
      BY <2>2 DEF IInv, Once
    <3>5. \A l \in 1..m : called[l] \notin Kept
      BY DEF IInv, Once
    <3> HIDE DEF m
    <3>6. \A l \in 1..(m + 1) : l \in 1..m \/ l = m + 1
      BY <3>1
    <3>7. \A l, o \in 1..(m + 1) : called'[l] = called'[o] => l = o
      BY <3>1, <3>2, <3>3, <3>6
    <3>8. ASSUME NEW n \in Node
          PROVE  (\E l \in 1..(m + 1) : called'[l] = n)
                    <=> n = np \/ \E l \in 1..m : called[l] = n
      <4>1. m + 1 \in 1..(m + 1) /\ \A l \in 1..m : l \in 1..(m + 1)
        BY <3>1
      <4> QED
        BY <4>1, <3>2, <3>6
    <3>9. \A n \in Node : In(chain, n) <=> \/ n \in Kept'
                                           \/ \E l \in 1..(m + 1) : called'[l] = n
      BY <3>4, <3>8, <1>2, <1>4
    <3>10. \A l \in 1..(m + 1) : called'[l] \notin Kept'
      BY <3>2, <3>5, <3>6, <1>4
    <3> QED
      BY <3>2, <3>7, <3>9, <3>10, <2>2, <1>0, <1>6 DEF Once
  <2> QED
    BY <2>1, <2>2
<1>15. Whole' /\ SearchRight' /\ Shut' /\ Chains(chain)'
  BY <1>0, <1>6, <1>7 DEF Whole, SearchRight, IInv, Shut
<1> QED
  BY <1>4, <1>9, <1>13, <1>14, <1>15 DEF IInv

LEMMA DestroyEndsStep == ASSUME IInv, DestroyEnds PROVE IInv'
<1>0. /\ Destroying /\ np = Null /\ h = Size /\ open' = FALSE /\ Return
      /\ ptrs' = NoPointers /\ chain' = NoElements /\ called' = << >>
      /\ lost' \subseteq {"key", "vector"}
      /\ UNCHANGED <<next, prev, leaked, latest, key, val, alive, ret>>
  BY DEF DestroyEnds, IInv, TypeOK
<1>1. Kept' = {} /\ leaked' \subseteq alive'
  <2>1. \A b \in Buckets : ~(b >= h)
    BY <1>0, Marks DEF Buckets
  <2>2. \A n \in Node : n \notin Kept
    BY <2>1, <1>0, ChainEnds
  <2> QED
    BY <2>2, <1>0 DEF IInv, TypeOK, Kept
<1>2. /\ call'.op = "none" /\ call'.h = 0 /\ call'.np = Null /\ call'.key = Null
      /\ call'.val = Null /\ 0 \in 0..Size /\ call' = NoCall
  BY <1>0, Marks DEF NoCall, Call, Return
<1>3. CallType(call')
  BY <1>2 DEF CallType, NoCall, Call
<1>4. ~Destroying' /\ ~Searching'
  BY <1>2 DEF Destroying, Searching, SearchOps, DestroyOps
<1>5. \A b \in Buckets : chain'[b] = << >> /\ Len(chain'[b]) = 0
  BY <1>0 DEF NoElements
<1>6. \A n : ~In(chain', n)
  BY <1>5 DEF In
<1>7. TypeOK'
  <2>1. /\ called' \in Seq(Node) /\ chain' \in [Buckets -> Seq(Node)]
        /\ ptrs' \in [Buckets -> Node \cup {Null}]
    BY <1>0 DEF NoElements, NoPointers
  <2> QED
    BY <2>1, <1>0, <1>3 DEF IInv, TypeOK, CallType
<1>8. Chains(chain')
  BY <1>0, <1>5 DEF Chains, NoElements
<1>9. Links(ptrs', next', prev', chain')
  BY <1>0, <1>5 DEF Links, At, NoPointers
<1>10. Unique(key', chain') /\ Placed(key', chain')
  BY <1>5, <1>6 DEF Unique, Placed
<1>11. Whole' /\ Once' /\ Shut'
  BY <1>0, <1>1, <1>2, <1>5, <1>6, <1>9, <1>10 DEF Whole, Newest, Once, Shut
<1> QED
  BY <1>1, <1>4, <1>7, <1>8, <1>11 DEF IInv, SearchRight, DestroyRight

-----------------------------------------------------------------------------
\* Every step preserves the invariant.
LEMMA NextIInv == ASSUME IInv, [Next]_vars PROVE IInv'
<1>1. ASSUME NEW k \in Key, NEW v \in Val, Install(k, v) PROVE IInv'
  BY <1>1, StartStep, Whole32 DEF Install, SearchOps
<1>2. ASSUME NEW k \in Key, Delete(k) PROVE IInv'
  BY <1>2, StartStep, Whole32 DEF Delete, SearchOps
<1>3. ASSUME NEW k \in Key, Lookup(k) PROVE IInv'
  BY <1>3, StartStep, Whole32 DEF Lookup, SearchOps
<1>4. ASSUME NEW k \in Key, NEW len \in Lens, LookupNz(k, len) PROVE IInv'
  BY <1>4, StartStep, SizeAssumption DEF LookupNz, SearchOps
<1>5. ASSUME NEW how \in DestroyOps, Destroy(how) PROVE IInv'
  BY <1>5, DestroyStep
<1>6. ASSUME NEW n \in Node, Add(n) PROVE IInv'
  BY <1>6, AddStep
<1>7. CASE Create \/ Dies \/ SearchNext \/ Answer \/ Replace \/ Nothing \/ Unlink
  BY <1>7, CreateStep, DiesStep, SearchNextStep, AnswerStep, ReplaceStep, NothingStep,
     UnlinkStep
<1>8. CASE NextBucket \/ FreeOne \/ DestroyEnds
  BY <1>8, NextBucketStep, FreeOneStep, DestroyEndsStep
<1>9. CASE UNCHANGED vars
  BY <1>9, StutterStep
<1> QED
  BY <1>1, <1>2, <1>3, <1>4, <1>5, <1>6, <1>7, <1>8, <1>9 DEF Next

\* The invariant holds of every table, whatever its client calls.
THEOREM InvariantHolds == Spec => []IInv
<1>1. Init => IInv
  BY InitIInv
<1>2. IInv /\ [Next]_vars => IInv'
  BY NextIInv
<1> QED
  BY <1>1, <1>2, PTL DEF Spec

\* The elements of the chains ch, as Htab has them.
ElementsOf(ch) == UNION {ToSet(ch[b]) : b \in Buckets}

LEMMA ElementsIn ==
  ASSUME NEW ch, Shape(ch)
  PROVE  \A x : x \in ElementsOf(ch) <=> In(ch, x)
<1>1. \A b \in Buckets : DOMAIN ch[b] = 1..Len(ch[b])
  BY LenProperties DEF Shape
<1>2. \A b \in Buckets : \A x : x \in ToSet(ch[b]) <=> \E i \in 1..Len(ch[b]) : ch[b][i] = x
  BY <1>1 DEF ToSet
<1>3. \A x : x \in ElementsOf(ch) <=> \E b \in Buckets : x \in ToSet(ch[b])
  BY DEF ElementsOf
<1> HIDE DEF ElementsOf
<1> SUFFICES ASSUME NEW x PROVE x \in ElementsOf(ch) <=> In(ch, x)
  OBVIOUS
<1> QED
  BY <1>2, <1>3 DEF In

LEMMA InIsNode == ASSUME NEW ch, Shape(ch), NEW n, In(ch, n) PROVE n \in Node
BY DEF Shape, In

\* The pointers run through the elements of each bucket both ways; these and the
\* elements that the deletion of a first one cut off are those allocated; a key has
\* one element that a bucket leads to.  mmp_htab_install, _delete and the rest keep
\* that, over a failing xstrdup too.
THEOREM PointersAgree == Spec => []Linked
<1>1. IInv => Linked
  <2> SUFFICES ASSUME IInv PROVE Linked
    OBVIOUS
  <2>0. Chains(chain) /\ Shape(chain)
    BY ChainIs
  <2>1. \A b \in Buckets : DOMAIN chain[b] = 1..Len(chain[b])
    BY <2>0, LenProperties DEF Shape
  <2>2. \A b, c \in Buckets : \A i \in DOMAIN chain[b], j \in DOMAIN chain[c] :
           chain[b][i] = chain[c][j] => b = c /\ i = j
    BY <2>0, <2>1 DEF Chains
  <2>3. ASSUME ~Destroying
        PROVE  /\ \A b \in Buckets :
                     /\ ptrs[b] = NextOf(b, 0)
                     /\ \A i \in DOMAIN chain[b] :
                           /\ next[chain[b][i]] = NextOf(b, i)
                           /\ prev[chain[b][i]] = PrevOf(b, i)
               /\ Kept = Elements
               /\ \A m, n \in Elements : key[m] = key[n] => m = n \/ key[m] = Null
    <3>1. \A x : x \in Elements <=> In(chain, x)
      BY <2>0, ElementsIn DEF Elements, ElementsOf
    <3>2. /\ Links(ptrs, next, prev, chain) /\ Unique(key, chain)
          /\ \A n \in Node : n \in Kept <=> In(chain, n)
      BY <2>3 DEF IInv, Whole
    <3>3. ASSUME NEW b \in Buckets, NEW i \in DOMAIN chain[b]
          PROVE  next[chain[b][i]] = NextOf(b, i) /\ prev[chain[b][i]] = PrevOf(b, i)
      <4>1. i \in 1..Len(chain[b]) /\ Len(chain[b]) \in Nat
        BY <2>0, <2>1 DEF Shape
      <4>2. At(chain[b], i + 1) = NextOf(b, i) /\ At(chain[b], i - 1) = PrevOf(b, i)
        BY <4>1 DEF At, NextOf, PrevOf
      <4> QED
        BY <4>1, <4>2, <3>2 DEF Links
    <3>4. ASSUME NEW b \in Buckets PROVE ptrs[b] = NextOf(b, 0)
      <4>1. Len(chain[b]) \in Nat
        BY <2>0 DEF Shape
      <4>2. At(chain[b], 1) = NextOf(b, 0)
        BY <4>1 DEF At, NextOf
      <4> QED
        BY <4>2, <3>2 DEF Links
    <3>5. Kept = Elements
      <4>1. Kept \subseteq Node /\ \A x : In(chain, x) => x \in Node
        BY <2>0, InIsNode DEF IInv, TypeOK, Kept
      <4> QED
        BY <4>1, <3>1, <3>2
    <3>6. \A m, n \in Elements : key[m] = key[n] => m = n \/ key[m] = Null
      BY <2>0, <3>1, <3>2, InIsNode DEF Unique
    <3> QED
      BY <3>3, <3>4, <3>5, <3>6
  <2> QED
    BY <2>2, <2>3 DEF IInv, Linked
<1> QED
  BY <1>1, InvariantHolds, PTL

-----------------------------------------------------------------------------
(***************************************************************************)
(* The entries, and what each change of the table makes of them.           *)
(***************************************************************************)
EntriesOf(ch, ky, vl) ==
    [k \in {ky[n] : n \in ElementsOf(ch)} \ {Null}
        |-> vl[CHOOSE n \in ElementsOf(ch) : ky[n] = k]]

\* m has the keys of the elements of the chains ch, with their values.
Maps(m, ch, ky, vl) ==
    /\ m = [k \in DOMAIN m |-> m[k]]
    /\ \A k : k \in DOMAIN m <=> k # Null /\ \E n \in Node : In(ch, n) /\ ky[n] = k
    /\ \A n \in Node : In(ch, n) /\ ky[n] # Null => m[ky[n]] = vl[n]

LEMMA EntriesMap ==
  ASSUME NEW ch, Shape(ch), NEW ky, Unique(ky, ch), NEW vl
  PROVE  Maps(EntriesOf(ch, ky, vl), ch, ky, vl)
<1> DEFINE E == ElementsOf(ch)
           m == EntriesOf(ch, ky, vl)
<1>1. \A x : x \in E <=> In(ch, x)
  BY ElementsIn
<1>2. \A x : In(ch, x) => x \in Node
  BY InIsNode
<1> HIDE DEF E
<1>3. m = [k \in {ky[n] : n \in E} \ {Null} |-> vl[CHOOSE n \in E : ky[n] = k]]
  BY DEF EntriesOf, E
<1>4. \A k : k \in DOMAIN m <=> k # Null /\ \E n \in Node : In(ch, n) /\ ky[n] = k
  <2> SUFFICES ASSUME NEW k
               PROVE  k \in DOMAIN m <=> k # Null /\ \E n \in Node : In(ch, n) /\ ky[n] = k
    OBVIOUS
  <2>1. k \in DOMAIN m <=> k # Null /\ \E n \in E : ky[n] = k
    BY <1>3
  <2> QED
    BY <2>1, <1>1, <1>2
<1>5. ASSUME NEW n \in Node, In(ch, n), ky[n] # Null PROVE m[ky[n]] = vl[n]
  <2>1. n \in E /\ ky[n] \in {ky[l] : l \in E} \ {Null}
    BY <1>1, <1>5
  <2>2. m[ky[n]] = vl[CHOOSE l \in E : ky[l] = ky[n]]
    BY <2>1, <1>3
  <2>3. \A l \in E : ky[l] = ky[n] => l = n
    BY <1>1, <1>2, <1>5 DEF Unique
  <2>4. (CHOOSE l \in E : ky[l] = ky[n]) = n
    BY <2>1, <2>3
  <2> QED
    BY <2>2, <2>4
<1>6. m = [k \in DOMAIN m |-> m[k]]
  BY <1>3
<1> HIDE DEF m
<1>7. Maps(m, ch, ky, vl)
  BY <1>4, <1>5, <1>6 DEF Maps
<1> QED
  BY <1>7 DEF m

\* What the entries are to the table's client when it is not being destroyed.
LEMMA EntriesAre ==
  ASSUME IInv, ~Destroying
  PROVE  Entries = EntriesOf(chain, key, val) /\ Maps(Entries, chain, key, val)
<1>1. Entries = EntriesOf(chain, key, val)
  BY DEF Entries, EntriesOf, EntryOf, Elements, ElementsOf
<1> QED
  BY <1>1, EntriesMap, ChainIs DEF IInv, Whole

LEMMA EntriesAreNext ==
  ASSUME IInv', ~Destroying'
  PROVE  Maps(Entries', chain', key', val')
<1>1. Entries' = EntriesOf(chain', key', val')
  BY DEF Entries, EntriesOf, EntryOf, Elements, ElementsOf
<1>2. Shape(chain')
  BY ChainShape DEF IInv
<1>3. Unique(key', chain')
  BY DEF IInv, Whole
<1> QED
  BY <1>1, <1>2, <1>3, EntriesMap

\* Two functions of the same entries are equal.
LEMMA SameEntries ==
  ASSUME NEW m, NEW m2, m = [k \in DOMAIN m |-> m[k]], m2 = [k \in DOMAIN m2 |-> m2[k]],
         \A k : k \in DOMAIN m <=> k \in DOMAIN m2,
         \A k \in DOMAIN m : m[k] = m2[k]
  PROVE  m = m2
<1>1. DOMAIN m = DOMAIN m2
  OBVIOUS
<1> QED
  BY <1>1

Sets(f, f2, n, v) == f2 = [f EXCEPT ![n] = v]
WithEntry(m, m2, k, v) == m2 = [x \in DOMAIN m \cup {k} |-> IF x = k THEN v ELSE m[x]]
WithoutEntry(m, m2, k) == m2 = [x \in DOMAIN m \ {k} |-> m[x]]
NoneHas(ch, ky, k) == \A n \in Node : In(ch, n) => ky[n] # k

\* An element is added, with a key that has none or without one.
LEMMA MapAdd ==
  ASSUME NEW m, NEW ch, NEW ky, NEW vl, Maps(m, ch, ky, vl),
         ky \in [Node -> Key \cup {Null, Junk}], vl \in [Node -> Val \cup {Junk}],
         NEW n \in Node, ~In(ch, n), NEW c, NEW ch2, Added(ch, ch2, c, n),
         NEW k, NoneHas(ch, ky, k),
         NEW v, NEW ky2, NEW vl2, Sets(ky, ky2, n, k), Sets(vl, vl2, n, v),
         NEW m2, Maps(m2, ch2, ky2, vl2), k # Null
  PROVE  k \notin DOMAIN m /\ WithEntry(m, m2, k, v)
<1> DEFINE w == [x \in DOMAIN m \cup {k} |-> IF x = k THEN v ELSE m[x]]
<1>1. /\ ky2[n] = k /\ vl2[n] = v
      /\ \A l \in Node : l # n => ky2[l] = ky[l] /\ vl2[l] = vl[l]
  BY DEF Sets
<1>2. \A l : In(ch2, l) <=> In(ch, l) \/ l = n
  BY DEF Added
<1>3. Maps(m2, ch2, ky2, vl2)
  OBVIOUS
<1>4. k \notin DOMAIN m
  BY DEF Maps, NoneHas
<1>5. ASSUME NEW x PROVE x \in DOMAIN m2 <=> x \in DOMAIN w
  <2>1. x \in DOMAIN m2 <=> x # Null /\ \E l \in Node : In(ch2, l) /\ ky2[l] = x
    BY <1>3 DEF Maps
  <2>2. x \in DOMAIN m <=> x # Null /\ \E l \in Node : In(ch, l) /\ ky[l] = x
    BY DEF Maps
  <2>3. (\E l \in Node : In(ch2, l) /\ ky2[l] = x)
          <=> x = k \/ \E l \in Node : In(ch, l) /\ ky[l] = x
    BY <1>1, <1>2
  <2> QED
    BY <2>1, <2>2, <2>3
<1>6. ASSUME NEW x \in DOMAIN m2 PROVE m2[x] = w[x]
  <2>1. PICK l \in Node : In(ch2, l) /\ ky2[l] = x /\ x # Null
    BY <1>3 DEF Maps
  <2>2. m2[x] = vl2[l]
    BY <2>1, <1>3 DEF Maps
  <2>3. CASE l = n
    BY <2>1, <2>2, <2>3, <1>1, <1>5
  <2>4. CASE l # n
    <3>1. In(ch, l) /\ ky[l] = x /\ vl2[l] = vl[l]
      BY <2>1, <2>4, <1>1, <1>2
    <3>2. m[x] = vl[l] /\ x # k /\ x \in DOMAIN m
      BY <3>1, <2>1 DEF Maps, NoneHas
    <3> QED
      BY <3>1, <3>2, <2>2
  <2> QED
    BY <2>3, <2>4
<1>7. m2 = [x \in DOMAIN m2 |-> m2[x]] /\ w = [x \in DOMAIN w |-> w[x]]
  BY <1>3 DEF Maps
<1> HIDE DEF w
<1>8. m2 = w
  BY <1>5, <1>6, <1>7, SameEntries
<1> QED
  BY <1>4, <1>8 DEF w, WithEntry

LEMMA MapAddNull ==
  ASSUME NEW m, NEW ch, NEW ky, NEW vl, Maps(m, ch, ky, vl),
         ky \in [Node -> Key \cup {Null, Junk}], vl \in [Node -> Val \cup {Junk}],
         NEW n \in Node, ~In(ch, n), NEW c, NEW ch2, Added(ch, ch2, c, n),
         NEW v, NEW ky2, NEW vl2, Sets(ky, ky2, n, Null), Sets(vl, vl2, n, v),
         NEW m2, Maps(m2, ch2, ky2, vl2)
  PROVE  m2 = m
<1>1. /\ ky2[n] = Null
      /\ \A l \in Node : l # n => ky2[l] = ky[l] /\ vl2[l] = vl[l]
  BY DEF Sets
<1>2. \A l : In(ch2, l) <=> In(ch, l) \/ l = n
  BY DEF Added
<1>3. Maps(m2, ch2, ky2, vl2)
  OBVIOUS
<1>4. ASSUME NEW x PROVE x \in DOMAIN m2 <=> x \in DOMAIN m
  <2>1. x \in DOMAIN m2 <=> x # Null /\ \E l \in Node : In(ch2, l) /\ ky2[l] = x
    BY <1>3 DEF Maps
  <2>2. x \in DOMAIN m <=> x # Null /\ \E l \in Node : In(ch, l) /\ ky[l] = x
    BY DEF Maps
  <2> QED
    BY <2>1, <2>2, <1>1, <1>2
<1>5. ASSUME NEW x \in DOMAIN m2 PROVE m2[x] = m[x]
  <2>1. PICK l \in Node : In(ch2, l) /\ ky2[l] = x /\ x # Null
    BY <1>3 DEF Maps
  <2>2. m2[x] = vl2[l]
    BY <2>1, <1>3 DEF Maps
  <2>3. In(ch, l) /\ ky[l] = x /\ vl2[l] = vl[l]
    BY <2>1, <1>1, <1>2
  <2> QED
    BY <2>1, <2>2, <2>3 DEF Maps
<1>6. m2 = [x \in DOMAIN m2 |-> m2[x]] /\ m = [x \in DOMAIN m |-> m[x]]
  BY <1>3 DEF Maps
<1> QED
  BY <1>4, <1>5, <1>6, SameEntries

\* The value of an element is replaced.
LEMMA MapReplace ==
  ASSUME NEW m, NEW ch, NEW ky, NEW vl, Maps(m, ch, ky, vl), Unique(ky, ch),
         vl \in [Node -> Val \cup {Junk}],
         NEW n \in Node, In(ch, n), ky[n] # Null,
         NEW v, NEW vl2, Sets(vl, vl2, n, v), NEW m2, Maps(m2, ch, ky, vl2)
  PROVE  WithEntry(m, m2, ky[n], v)
<1> DEFINE w == [x \in DOMAIN m \cup {ky[n]} |-> IF x = ky[n] THEN v ELSE m[x]]
<1>1. vl2[n] = v /\ \A l \in Node : l # n => vl2[l] = vl[l]
  BY DEF Sets
<1>2. Maps(m2, ch, ky, vl2)
  OBVIOUS
<1>3. ASSUME NEW x PROVE x \in DOMAIN m2 <=> x \in DOMAIN w
  <2>1. x \in DOMAIN m2 <=> x # Null /\ \E l \in Node : In(ch, l) /\ ky[l] = x
    BY <1>2 DEF Maps
  <2>2. x \in DOMAIN m <=> x # Null /\ \E l \in Node : In(ch, l) /\ ky[l] = x
    BY DEF Maps
  <2> QED
    BY <2>1, <2>2
<1>4. ASSUME NEW x \in DOMAIN m2 PROVE m2[x] = w[x]
  <2>1. PICK l \in Node : In(ch, l) /\ ky[l] = x /\ x # Null
    BY <1>2 DEF Maps
  <2>2. m2[x] = vl2[l] /\ m[x] = vl[l]
    BY <2>1, <1>2 DEF Maps
  <2>3. x = ky[n] <=> l = n
    BY <2>1 DEF Unique
  <2> QED
    BY <2>2, <2>3, <1>1, <1>3
<1>5. m2 = [x \in DOMAIN m2 |-> m2[x]] /\ w = [x \in DOMAIN w |-> w[x]]
  BY <1>2 DEF Maps
<1> HIDE DEF w
<1>6. m2 = w
  BY <1>3, <1>4, <1>5, SameEntries
<1> QED
  BY <1>6 DEF w, WithEntry

\* An element is taken out.
LEMMA MapDrop ==
  ASSUME NEW m, NEW ch, NEW ky, NEW vl, Maps(m, ch, ky, vl), Unique(ky, ch),
         ky \in [Node -> Key \cup {Null, Junk}], vl \in [Node -> Val \cup {Junk}],
         NEW c, NEW i, NEW n \in Node, n = ch[c][i], In(ch, n), ky[n] # Null,
         NEW ch2, Dropped(ch, ch2, c, i),
         NEW ky2, NEW vl2, Sets(ky, ky2, n, Junk), Sets(vl, vl2, n, Junk),
         NEW m2, Maps(m2, ch2, ky2, vl2)
  PROVE  ky[n] \in DOMAIN m /\ WithoutEntry(m, m2, ky[n])
<1> DEFINE w == [x \in DOMAIN m \ {ky[n]} |-> m[x]]
<1>1. \A l \in Node : l # n => ky2[l] = ky[l] /\ vl2[l] = vl[l]
  BY DEF Sets
<1>2. \A l : In(ch2, l) <=> In(ch, l) /\ l # n
  BY DEF Dropped
<1>3. Maps(m2, ch2, ky2, vl2)
  OBVIOUS
<1>4. \A l \in Node : In(ch, l) /\ ky[l] = ky[n] => l = n
  BY DEF Unique
<1>5. ASSUME NEW x PROVE x \in DOMAIN m2 <=> x \in DOMAIN w
  <2>1. x \in DOMAIN m2 <=> x # Null /\ \E l \in Node : In(ch2, l) /\ ky2[l] = x
    BY <1>3 DEF Maps
  <2>2. x \in DOMAIN m <=> x # Null /\ \E l \in Node : In(ch, l) /\ ky[l] = x
    BY DEF Maps
  <2>3. (\E l \in Node : In(ch2, l) /\ ky2[l] = x)
          <=> x # ky[n] /\ \E l \in Node : In(ch, l) /\ ky[l] = x
    BY <1>1, <1>2, <1>4
  <2> QED
    BY <2>1, <2>2, <2>3
<1>6. ASSUME NEW x \in DOMAIN m2 PROVE m2[x] = w[x]
  <2>1. PICK l \in Node : In(ch2, l) /\ ky2[l] = x /\ x # Null
    BY <1>3 DEF Maps
  <2>2. m2[x] = vl2[l] /\ In(ch, l) /\ ky[l] = x /\ vl2[l] = vl[l]
    BY <2>1, <1>1, <1>2, <1>3 DEF Maps
  <2>3. m[x] = vl[l] /\ x \in DOMAIN w
    BY <2>1, <2>2, <1>5 DEF Maps
  <2> QED
    BY <2>2, <2>3
<1>7. m2 = [x \in DOMAIN m2 |-> m2[x]] /\ w = [x \in DOMAIN w |-> w[x]]
  BY <1>3 DEF Maps
<1>8. ky[n] \in DOMAIN m
  BY DEF Maps
<1> HIDE DEF w
<1>9. m2 = w
  BY <1>5, <1>6, <1>7, SameEntries
<1> QED
  BY <1>8, <1>9 DEF w, WithoutEntry

\* A table without elements has no entries.
LEMMA NoEntries ==
  ASSUME NEW m, NEW ch, NEW ky, NEW vl, Maps(m, ch, ky, vl), \A n \in Node : ~In(ch, n)
  PROVE  m = T!Empty
<1> DEFINE w == [k \in {} |-> Null]
<1>1. \A x : x \in DOMAIN m <=> x \in DOMAIN w
  BY DEF Maps
<1>2. m = [k \in DOMAIN m |-> m[k]] /\ w = [k \in DOMAIN w |-> w[k]]
  BY DEF Maps
<1>3. \A x \in DOMAIN m : m[x] = w[x]
  BY <1>1
<1> HIDE DEF w
<1>4. m = w
  BY <1>1, <1>2, <1>3, SameEntries
<1> QED
  BY <1>4 DEF w, T!Empty

-----------------------------------------------------------------------------
(***************************************************************************)
(* Each step is one of Table.                                              *)
(***************************************************************************)
\* A step that ends a search.
LEMMA EndsSearch ==
  ASSUME IInv, Searching, Return, open' = open
  PROVE  /\ ~Destroying /\ ~Destroying' /\ open /\ open'
         /\ (open /\ ~Destroying)' = (open /\ ~Destroying)
<1>1. call'.op = "none"
  BY DEF Return, NoCall, Call
<1> QED
  BY <1>1 DEF Destroying, Searching, SearchOps, DestroyOps, IInv, SearchRight

\* A step that changes neither the elements nor their keys and values.
LEMMA EntriesSame ==
  ASSUME UNCHANGED <<chain, key, val>>, Destroying' <=> Destroying
  PROVE  Entries' = Entries
BY DEF Entries, EntryOf, Elements

LEMMA AddInstalls ==
  ASSUME IInv, NEW n \in Node, Add(n)
  PROVE  T!Install(call.key, call.val) \/ NoEntry
<1>0. /\ Searching /\ call.op = "install" /\ call.key \in Key /\ call.key # Null
      /\ Return /\ open' = open /\ ret' = ret
  BY Marks DEF Add, Missed, IInv, SearchRight
<1>1. /\ ~Destroying /\ ~Destroying' /\ open /\ open'
      /\ (open /\ ~Destroying)' = (open /\ ~Destroying)
  BY <1>0, EndsSearch
<1>2. IInv' /\ Maps(Entries, chain, key, val)
  BY <1>1, AddStep, EntriesAre
<1>3. Maps(Entries', chain', key', val')
  BY <1>1, <1>2, EntriesAreNext
<1>4. h \in Buckets /\ \A m \in Node : In(chain, m) => key[m] # call.key
  BY <1>0, MissedIsAbsent DEF Add
<1>5. ~In(chain, n) /\ NoneHas(chain, key, call.key)
  BY <1>0, <1>4, TableFacts DEF Add, NoneHas, Kept
<1>6. Added(chain, chain', h, n)
  <2>1. /\ Chains(chain) /\ h \in Buckets /\ ~In(chain, n)
        /\ chain' = [chain EXCEPT ![h] = <<n>> \o @]
    BY <1>4, <1>5, ChainIs DEF Add
  <2> QED
    BY <2>1, Prepended
<1>7. /\ key \in [Node -> Key \cup {Null, Junk}] /\ val \in [Node -> Val \cup {Junk}]
      /\ val' = [val EXCEPT ![n] = call.val]
  BY DEF IInv, TypeOK, Add, Stored
<1>8. PICK k \in {call.key, Null} : /\ key' = [key EXCEPT ![n] = k]
                                   /\ latest' = IF k = Null THEN latest ELSE k
  BY DEF Add
<1>a. call.key \notin DOMAIN Entries
  BY <1>2, <1>4 DEF Maps
<1>9. CASE k = call.key
  <2>1. Sets(key, key', n, call.key) /\ Sets(val, val', n, call.val)
    BY <1>7, <1>8, <1>9 DEF Sets
  <2>2. WithEntry(Entries, Entries', call.key, call.val)
    BY <2>1, <1>0, <1>2, <1>3, <1>5, <1>6, <1>7, MapAdd
  <2> QED
    BY <2>2, <1>0, <1>1, <1>8, <1>9, <1>a DEF T!Install, WithEntry
<1>10. CASE k = Null
  <2>1. Sets(key, key', n, Null) /\ Sets(val, val', n, call.val)
    BY <1>7, <1>8, <1>10 DEF Sets
  <2>2. Entries' = Entries
    BY <2>1, <1>2, <1>3, <1>5, <1>6, <1>7, MapAddNull
  <2> QED
    BY <2>2, <1>8, <1>10, <1>a DEF NoEntry
<1> QED
  BY <1>8, <1>9, <1>10

LEMMA ReplaceInstalls ==
  ASSUME IInv, Replace
  PROVE  T!Install(call.key, call.val)
<1>0. /\ Searching /\ np # Null /\ key[np] = call.key /\ call.key # Null
      /\ Return /\ open' = open /\ ret' = ret /\ chain' = chain /\ key' = key
      /\ val' = [val EXCEPT ![np] = call.val] /\ latest' = latest
  BY Marks DEF Replace, Found, Over, IInv, SearchRight, table, history
<1>1. /\ ~Destroying /\ ~Destroying' /\ open /\ open'
      /\ (open /\ ~Destroying)' = (open /\ ~Destroying)
  BY <1>0, EndsSearch
<1>2. IInv' /\ Maps(Entries, chain, key, val)
  BY <1>1, ReplaceStep, EntriesAre
<1>3. Maps(Entries', chain, key, val') /\ Sets(val, val', np, call.val)
  BY <1>0, <1>1, <1>2, EntriesAreNext DEF Sets
<1>4. np \in Node /\ In(chain, np)
  BY <1>0, Reached
<1>5. Unique(key, chain) /\ val \in [Node -> Val \cup {Junk}]
  BY <1>0, TableFacts
<1>6. WithEntry(Entries, Entries', key[np], call.val)
  BY <1>0, <1>2, <1>3, <1>4, <1>5, MapReplace
<1>7. call.key \in DOMAIN Entries
  BY <1>0, <1>2, <1>4 DEF Maps
<1> QED
  BY <1>0, <1>1, <1>6, <1>7 DEF T!Install, WithEntry

LEMMA UnlinkDeletes ==
  ASSUME IInv, Unlink
  PROVE  T!Delete(call.key)
<1>0. /\ Searching /\ call.op = "delete" /\ np # Null /\ key[np] = call.key
      /\ call.key # Null /\ Return /\ open' = open /\ ret' = ret
      /\ key' = [key EXCEPT ![np] = Junk] /\ val' = [val EXCEPT ![np] = Junk]
  BY Marks DEF Unlink, Found, Over, IInv, SearchRight, Freed
<1>1. /\ ~Destroying /\ ~Destroying' /\ open /\ open'
      /\ (open /\ ~Destroying)' = (open /\ ~Destroying)
  BY <1>0, EndsSearch
<1>2. IInv' /\ Maps(Entries, chain, key, val)
  BY <1>1, UnlinkStep, EntriesAre
<1>3. /\ Maps(Entries', chain', key', val')
      /\ Sets(key, key', np, Junk) /\ Sets(val, val', np, Junk)
  BY <1>0, <1>1, <1>2, EntriesAreNext DEF Sets
<1>4. np \in Node /\ In(chain, np)
  BY <1>0, Reached
<1>5. /\ Unique(key, chain) /\ val \in [Node -> Val \cup {Junk}]
      /\ key \in [Node -> Key \cup {Null, Junk}] /\ Newest(latest, key, chain)
  BY <1>0, TableFacts
<1>6. call.key \in DOMAIN Entries
  BY <1>0, <1>2, <1>4 DEF Maps
<1>7. CASE Cut(chain, chain', h) /\ latest = call.key /\ latest' = Null
  <2>1. \A b \in Buckets : Len(chain'[b]) = 0
    <3> SUFFICES ASSUME NEW b \in Buckets PROVE Len(chain'[b]) = 0
      OBVIOUS
    <3>1. CASE b = h
      BY <3>1, <1>7 DEF Cut
    <3>2. CASE b # h
      <4>1. chain'[b] = chain[b] /\ Len(chain[b]) \in Nat /\ h = 0
        BY <3>2, <1>7, ChainIs, UnlinkChains DEF Cut, Shape
      <4> QED
        BY <3>2, <4>1, <1>5 DEF Newest
    <3> QED
      BY <3>1, <3>2
  <2>2. \A n \in Node : ~In(chain', n)
    BY <2>1 DEF In
  <2>3. Entries' = T!Empty
    BY <2>2, <1>3, NoEntries
  <2> QED
    BY <2>3, <1>0, <1>1, <1>6, <1>7 DEF T!Delete
<1>8. ASSUME NEW i \in 1..Len(chain[h]), np = chain[h][i], Dropped(chain, chain', h, i),
             latest # call.key, latest' = latest
      PROVE  T!Delete(call.key)
  <2>1. WithoutEntry(Entries, Entries', key[np])
    BY <1>0, <1>2, <1>3, <1>4, <1>5, <1>8, MapDrop
  <2> QED
    BY <2>1, <1>0, <1>1, <1>6, <1>8 DEF T!Delete, T!Restrict, WithoutEntry
<1> QED
  BY <1>7, <1>8, UnlinkChains

LEMMA NothingKeeps ==
  ASSUME IInv, Nothing
  PROVE  NoEntry
<1>0. /\ Searching /\ call.op # "partial" /\ Return /\ open' = open
      /\ UNCHANGED <<chain, latest, key, val>>
  BY DEF Nothing, Missed, table, history, heap
<1>1. ~Destroying /\ ~Destroying'
  BY <1>0, EndsSearch
<1>2. Maps(Entries, chain, key, val)
  BY <1>1, EntriesAre
<1>3. call.key \notin DOMAIN Entries
  BY <1>0, <1>2, MissedIsAbsent DEF Nothing, Maps
<1>4. Entries' = Entries
  BY <1>0, <1>1, EntriesSame
<1> QED
  BY <1>0, <1>3, <1>4 DEF NoEntry

LEMMA AnswerLooksUp ==
  ASSUME IInv, Answer
  PROVE  /\ call.op \in {"lookup", "partial"}
         /\ call.op = "lookup" => T!Lookup(call.key)
         /\ T!LookupNz(call.key)
<1>0. /\ call.op \in {"lookup", "partial"} /\ Searching /\ Return /\ open' = open
      /\ UNCHANGED <<chain, latest, key, val>>
  BY DEF Answer, Found, Missed, table, history, heap
<1>1. /\ ~Destroying /\ ~Destroying' /\ open /\ open'
      /\ (open /\ ~Destroying)' = (open /\ ~Destroying)
  BY <1>0, EndsSearch
<1>2. Maps(Entries, chain, key, val) /\ Entries' = Entries /\ call.key # Null
  BY <1>0, <1>1, EntriesAre, EntriesSame, Marks DEF IInv, SearchRight
<1>3. CASE Found
  <2>1. np # Null /\ key[np] = call.key
    BY <1>3 DEF Found, Over
  <2>2. ret' = val[np]
    BY <1>3, <2>1 DEF Answer, Missed, Over
  <2>3. call.key \in DOMAIN Entries /\ Entries[call.key] = val[np]
    BY <2>1, <1>0, <1>2, Reached DEF Maps
  <2>4. T!Lookup(call.key)
    BY <2>2, <2>3, <1>0, <1>1, <1>2 DEF T!Lookup
  <2> QED
    BY <2>4, <1>0 DEF T!LookupNz
<1>4. CASE ~Found
  <2>1. Missed /\ ret' = Null
    BY <1>4 DEF Answer
  <2>2. call.op = "lookup" => call.key \notin DOMAIN Entries
    BY <2>1, <1>2, MissedIsAbsent DEF Maps
  <2>3. call.op = "lookup" => T!Lookup(call.key)
    BY <2>1, <2>2, <1>0, <1>1, <1>2 DEF T!Lookup
  <2>4. T!LookupNz(call.key)
    BY <2>1, <1>0, <1>1, <1>2 DEF T!LookupNz
  <2> QED
    BY <2>3, <2>4, <1>0
<1> QED
  BY <1>3, <1>4

\* What a call does as it returns.
Does == /\ call.key \in Key
        /\ \/ /\ call.op = "install" /\ call.val \in Val
              /\ T!Install(call.key, call.val) \/ NoEntry
           \/ call.op = "delete" /\ (T!Delete(call.key) \/ NoEntry)
           \/ call.op = "lookup" /\ T!Lookup(call.key) /\ T!LookupNz(call.key)
           \/ call.op = "partial" /\ T!LookupNz(call.key)

LEMMA Does1 ==
  ASSUME IInv,
         \/ \E n \in Node : Add(n)
         \/ Replace \/ Unlink \/ Nothing \/ Answer
  PROVE  Does
<1>0. /\ Searching /\ call.key \in Key /\ (call.op = "install" => call.val \in Val)
  BY DEF Add, Replace, Unlink, Nothing, Answer, Found, Missed, IInv, SearchRight
<1>1. ASSUME NEW n \in Node, Add(n) PROVE Does
  <2>1. call.op = "install" /\ (T!Install(call.key, call.val) \/ NoEntry)
    BY <1>1, AddInstalls DEF Add
  <2> QED
    BY <1>0, <2>1 DEF Does
<1>2. CASE Replace
  <2>1. call.op = "install" /\ T!Install(call.key, call.val)
    BY <1>2, ReplaceInstalls DEF Replace
  <2> QED
    BY <1>0, <2>1 DEF Does
<1>3. CASE Unlink
  <2>1. call.op = "delete" /\ T!Delete(call.key)
    BY <1>3, UnlinkDeletes DEF Unlink
  <2> QED
    BY <1>0, <2>1 DEF Does
<1>4. CASE Nothing
  <2>1. call.op \in {"install", "delete"} /\ NoEntry
    BY <1>4, NothingKeeps DEF Nothing
  <2> QED
    BY <1>0, <2>1 DEF Does
<1>5. CASE Answer
  BY <1>0, <1>5, AnswerLooksUp DEF Does
<1> QED
  BY <1>1, <1>2, <1>3, <1>4, <1>5

\* Only these steps end a search.
LEMMA Returns ==
  ASSUME IInv, [Next]_vars, Returning
  PROVE  Does
<1>0. /\ Searching /\ call' = NoCall /\ call.op # "none" /\ call.op # "wild"
      /\ ~Destroying /\ open /\ call # NoCall
  BY DEF Returning, Searching, Destroying, SearchOps, DestroyOps, IInv, SearchRight,
         NoCall, Call
<1>1. call'.op = "none"
  BY <1>0 DEF NoCall, Call
<1>2. ~SearchNext
  <2>1. SearchNext => call'.op = call.op
    BY CallTypes DEF SearchNext, Call
  <2> QED
    BY <2>1, <1>0, <1>1
<1>3. ~Dies
  <2>1. Dies => call'.op = "wild"
    BY CallTypes DEF Dies, Call
  <2> QED
    BY <2>1, <1>1
<1>4. ~Idle /\ UNCHANGED vars => call' = call
  BY <1>0 DEF Idle, vars
<1>5. \/ \E n \in Node : Add(n)
      \/ Replace \/ Unlink \/ Nothing \/ Answer
  BY <1>0, <1>2, <1>3, <1>4 DEF Next, Create, Install, Delete, Lookup, LookupNz, Start, Idle,
     Destroy, NextBucket, FreeOne, DestroyEnds
<1> QED
  BY <1>5, Does1

\* Each call does what Table has of its own key and value: no chain, no failure and
\* no collision makes it answer for another.  What mmp_htab_delete has is to empty
\* the table when the key is the one added last.
THEOREM CallsAreAnswered == Spec => CallsAnswer
<1>1. ASSUME IInv, [Next]_vars
      PROVE  [Returning =>
                CASE call.op = "install" -> T!Install(call.key, call.val) \/ NoEntry
                  [] call.op = "delete"  -> T!Delete(call.key) \/ NoEntry
                  [] call.op = "lookup"  -> T!Lookup(call.key)
                  [] call.op = "partial" -> T!LookupNz(call.key)]_vars
  <2> SUFFICES ASSUME Returning
               PROVE  CASE call.op = "install" -> T!Install(call.key, call.val) \/ NoEntry
                        [] call.op = "delete"  -> T!Delete(call.key) \/ NoEntry
                        [] call.op = "lookup"  -> T!Lookup(call.key)
                        [] call.op = "partial" -> T!LookupNz(call.key)
    OBVIOUS
  <2>1. Does
    BY <1>1, Returns
  <2> QED
    BY <2>1 DEF Does
<1> QED
  BY <1>1, InvariantHolds, PTL DEF Spec, CallsAnswer

-----------------------------------------------------------------------------
LEMMA InitImplements == Init => T!Init
<1> SUFFICES ASSUME Init PROVE T!Init
  OBVIOUS
<1>1. IInv /\ ~Destroying /\ open = FALSE /\ ret = Null /\ latest = Null
  BY InitIInv DEF Init, NoCall, Call, Destroying, DestroyOps
<1>2. Entries = T!Empty
  <2>1. Maps(Entries, chain, key, val)
    BY <1>1, EntriesAre
  <2>2. \A n \in Node : ~In(chain, n)
    BY <1>1 DEF IInv, Shut
  <2> QED
    BY <2>1, <2>2, NoEntries
<1> QED
  BY <1>1, <1>2 DEF T!Init

LEMMA StepImplements ==
  ASSUME IInv, [Next]_vars
  PROVE  [T!Next]_(T!tvars)
<1> USE DEF T!tvars
<1>0. IInv'
  BY NextIInv
<1>1. CASE Create
  <2>1. /\ open = FALSE /\ open' = TRUE /\ ~Destroying /\ ~Destroying'
        /\ UNCHANGED <<chain, latest, key, val, ret>>
    <3>1. call = NoCall /\ open = FALSE
      BY <1>1 DEF Create, IInv, Shut, TypeOK
    <3> QED
      BY <1>1, <3>1 DEF Create, table, history, heap, NoCall, Call, Destroying, DestroyOps
  <2>2. Entries' = Entries
    BY <2>1, EntriesSame
  <2> QED
    BY <2>1, <2>2 DEF T!Next, T!Create
<1>2. ASSUME \/ \E k \in Key : \/ \E v \in Val : Install(k, v)
                               \/ Delete(k)
                               \/ Lookup(k)
                               \/ \E len \in Lens : LookupNz(k, len)
             \/ Dies \/ SearchNext \/ UNCHANGED vars
      PROVE  UNCHANGED T!tvars
  <2>1. UNCHANGED <<open, chain, latest, key, val, ret>>
    BY <1>2 DEF Install, Delete, Lookup, LookupNz, Start, Dies, SearchNext, vars, table,
       history, heap
  <2>2. Destroying' <=> Destroying
    <3>1. ASSUME NEW k, NEW v, NEW max, NEW how \in SearchOps, Start(how, k, v, max)
          PROVE  ~Destroying /\ ~Destroying'
      BY <3>1 DEF Start, Idle, NoCall, Call, Destroying, DestroyOps, SearchOps
    <3>2. ASSUME NEW k \in Key, \/ \E v \in Val : Install(k, v)
                                \/ Delete(k) \/ Lookup(k)
                                \/ \E len \in Lens : LookupNz(k, len)
          PROVE  ~Destroying /\ ~Destroying'
      BY <3>1, <3>2 DEF Install, Delete, Lookup, LookupNz, SearchOps
    <3>3. CASE Dies \/ SearchNext
      <4>1. call'.op \in {"wild", call.op} /\ Searching
        BY <3>3, CallTypes DEF Dies, SearchNext, Call
      <4> QED
        BY <4>1 DEF Searching, Destroying, SearchOps, DestroyOps
    <3>4. CASE UNCHANGED vars
      BY <3>4 DEF vars, Destroying
    <3> QED
      BY <1>2, <3>2, <3>3, <3>4
  <2>3. Entries' = Entries
    BY <2>1, <2>2, EntriesSame
  <2> QED
    BY <2>1, <2>2, <2>3
<1>3. ASSUME NEW how \in DestroyOps, Destroy(how) PROVE T!Next
  <2>1. /\ open /\ ~Destroying /\ Destroying' /\ open' = open /\ ret' = ret
        /\ latest' = Null
    BY <1>3 DEF Destroy, Idle, NoCall, Call, Destroying, DestroyOps
  <2>2. Entries' = T!Empty
    BY <2>1 DEF Entries, T!Empty
  <2> QED
    BY <2>1, <2>2 DEF T!Next, T!Destroy
<1>4. CASE NextBucket \/ FreeOne
  <2>1. Destroying /\ UNCHANGED <<open, latest, ret>> /\ call'.op = call.op
    BY <1>4, CallTypes DEF NextBucket, FreeOne, table, history, Call
  <2>2. Destroying'
    BY <2>1 DEF Destroying
  <2>3. Entries' = Entries
    BY <2>1, <2>2 DEF Entries
  <2> QED
    BY <2>1, <2>2, <2>3
<1>5. CASE DestroyEnds
  <2>1. /\ Destroying /\ open' = FALSE /\ call' = NoCall /\ ret' = ret
        /\ latest' = latest
    BY <1>5 DEF DestroyEnds, Return
  <2>2. ~Destroying'
    BY <2>1 DEF NoCall, Call, Destroying, DestroyOps
  <2>3. Maps(Entries', chain', key', val')
    BY <1>0, <2>2, EntriesAreNext
  <2>4. \A n \in Node : ~In(chain', n)
    BY <1>0, <2>1 DEF IInv, Shut
  <2>5. Entries' = T!Empty
    BY <2>3, <2>4, NoEntries
  <2>6. Entries = T!Empty
    BY <2>1 DEF Entries, T!Empty
  <2> QED
    BY <2>1, <2>2, <2>5, <2>6
<1>6. ASSUME (\E n \in Node : Add(n)) \/ Replace \/ Unlink \/ Nothing \/ Answer
      PROVE  [T!Next]_(T!tvars)
  <2>1. Does
    BY <1>6, Does1
  <2>2. ASSUME NoEntry, call.op # "lookup", call.op # "partial" PROVE UNCHANGED T!tvars
    <3>1. /\ Searching /\ Return /\ open' = open /\ ret' = ret
      BY <1>6, <2>2 DEF Add, Replace, Unlink, Nothing, Answer, Found, Missed, table, history
    <3>2. (open /\ ~Destroying)' = (open /\ ~Destroying)
      BY <3>1, EndsSearch
    <3> QED
      BY <3>1, <3>2, <2>2 DEF NoEntry
  <2>3. T!Lookup(call.key) => T!LookupNz(call.key)
    BY DEF T!LookupNz
  <2> QED
    BY <2>1, <2>2, <2>3 DEF Does, T!Next
<1> QED
  BY <1>1, <1>2, <1>3, <1>4, <1>5, <1>6 DEF Next

\* Whatever the calls and the failures, the table is a map from the keys installed
\* to their values that only a deletion or its destruction takes keys from: a
\* deletion its key, or all of them if it is the one added last.
THEOREM TableImplements == Spec => IsTable
<1>1. Init => T!Init
  BY InitImplements
<1>2. IInv /\ [Next]_vars => [T!Next]_(T!tvars)
  BY StepImplements
<1> QED
  BY <1>1, <1>2, InvariantHolds, PTL DEF Spec, IsTable, T!Spec

LEMMA DestroyReturns ==
  ASSUME IInv, [Next]_vars, call.op = "destroyData", call' = NoCall
  PROVE  Destroying /\ np = Null /\ h = Size
<1>1. Destroying /\ ~Searching /\ call # NoCall
  BY DEF Destroying, DestroyOps, Searching, SearchOps, NoCall, Call
<1>2. call'.op = "none"
  BY DEF NoCall, Call
<1>3. ~NextBucket /\ ~FreeOne
  <2>1. ASSUME NEW k, NEW n, call' = [call EXCEPT !.h = k, !.np = n] PROVE FALSE
    <3>1. call \in [op : {"none", "wild"} \cup SearchOps \cup DestroyOps,
                    key : Key \cup {Null}, val : Val \cup {Null},
                    h : 0..Size, np : Node \cup {Null}]
      BY DEF IInv, TypeOK
    <3>2. call'.op = call.op
      BY <2>1, <3>1
    <3> QED
      BY <3>2, <1>2
  <2>2. ASSUME NEW n, call' = [call EXCEPT !.np = n] PROVE FALSE
    <3>1. call'.op = call.op
      BY <2>2 DEF IInv, TypeOK
    <3> QED
      BY <3>1, <1>2
  <2> QED
    BY <2>1, <2>2 DEF NextBucket, FreeOne
<1>4. ~Create
  BY <1>1 DEF Create
<1>5. /\ \A how, k, v, max : ~Start(how, k, v, max)
      /\ \A how : ~Destroy(how)
  BY <1>1 DEF Start, Destroy, Idle
<1>6. /\ ~Dies /\ ~SearchNext /\ ~Replace /\ ~Nothing /\ ~Unlink
      /\ \A n \in Node : ~Add(n)
  BY <1>1 DEF Dies, SearchNext, Replace, Nothing, Unlink, Add, Found, Missed
<1>7. ~Answer /\ ~UNCHANGED vars
  BY <1>1 DEF Answer, vars
<1>8. DestroyEnds
  BY <1>3, <1>4, <1>5, <1>6, <1>7 DEF Next, Install, Delete, Lookup, LookupNz
<1> QED
  BY <1>8 DEF DestroyEnds

-----------------------------------------------------------------------------
\* Every element called comes before those called after it and before all that are
\* still to be freed.
Ordered == /\ \A i, j \in 1..Len(called) : i < j => Precedes(called[i], called[j])
           /\ \A i \in 1..Len(called) : \A n \in Kept : Precedes(called[i], n)

LEMMA NoneOrdered == called = << >> => Ordered
BY DEF Ordered

\* The element freed comes before all that are left.
LEMMA FreedFirst ==
  ASSUME IInv, FreeOne
  PROVE  np \in Kept /\ \A n \in Kept \ {np} : Precedes(np, n)
<1>0. Destroying /\ np # Null
  BY DEF FreeOne
<1>1. PICK i \in 0..LastPlace : Freeing(i)
  BY <1>0, FreeingFacts
<1> DEFINE c == h - 1
           k == i + 1
<1>2. /\ h # 0 /\ c \in Buckets /\ k \in 1..Len(chain[c]) /\ np = chain[c][k]
      /\ np \in Node /\ k > i /\ i \in Nat /\ h \in Nat
  <2>1. h # 0 /\ np = At(chain[c], k)
    BY <1>0, <1>1 DEF Freeing
  <2>2. k \in 1..Len(chain[c]) /\ np = chain[c][k]
    BY <1>0, <2>1 DEF At
  <2> QED
    BY <1>0, <2>1, <2>2, FreeingFacts, ChainIs DEF Shape
<1>3. np \in Kept
  BY <1>1, <1>2 DEF Freeing, Left
<1>4. ASSUME NEW n \in Kept, n # np PROVE Precedes(np, n)
  <2>1. n \in Node
    BY <1>4 DEF IInv, TypeOK, Kept
  <2>a. PICK b \in Buckets : \E j \in 1..Len(chain[b]) :
           chain[b][j] = n /\ (b >= h \/ (b = h - 1 /\ j > i))
    BY <1>1, <1>4, <2>1 DEF Freeing, Left
  <2>2. PICK j \in 1..Len(chain[b]) : chain[b][j] = n /\ (b >= h \/ (b = h - 1 /\ j > i))
    BY <2>a
  <2>3. c < b \/ (c = b /\ k < j)
    <3>1. b \in Int /\ j \in Int
      BY ChainIs DEF Buckets, Shape
    <3>2. CASE b >= h
      BY <3>1, <3>2, <1>2
    <3>3. CASE b = h - 1 /\ j > i
      <4>1. j # k
        BY <1>2, <1>4, <2>2, <3>3
      <4> QED
        BY <4>1, <3>1, <3>3, <1>2
    <3> QED
      BY <2>2, <3>2, <3>3
  <2>4. DOMAIN chain[b] = 1..Len(chain[b]) /\ DOMAIN chain[c] = 1..Len(chain[c])
    BY <1>2, ChainIs, LenProperties DEF Shape
  <2> HIDE DEF c, k
  <2> QED
    BY <1>2, <2>2, <2>3, <2>4 DEF Precedes
<1> QED
  BY <1>3, <1>4

LEMMA FreeOneOrdered == ASSUME IInv, Ordered, FreeOne PROVE Ordered'
<1>1. /\ Kept' = Kept \ {np} /\ chain' = chain
      /\ called' = IF call.op = "destroyData" THEN Append(called, np) ELSE called
  BY DEF FreeOne, Freed, Called, history, Kept
<1>2. \A m, n : Precedes(m, n)' <=> Precedes(m, n)
  BY <1>1 DEF Precedes
<1>3. CASE call.op # "destroyData"
  <2>1. called' = called /\ \A n \in Kept' : n \in Kept
    BY <1>1, <1>3
  <2> QED
    BY <1>2, <2>1 DEF Ordered
<1>4. CASE call.op = "destroyData"
  <2> DEFINE m == Len(called)
  <2>1. np \in Node /\ called \in Seq(Node)
    BY FreedFirst DEF IInv, TypeOK, Kept
  <2>2. /\ m \in Nat /\ Len(called') = m + 1 /\ called'[m + 1] = np
        /\ \A i \in 1..m : called'[i] = called[i]
    BY <1>1, <1>4, <2>1, LenProperties, AppendProperties
  <2> HIDE DEF m
  <2>3. \A i \in 1..(m + 1) : i \in 1..m \/ i = m + 1
    BY <2>2
  <2>4. /\ \A i, j \in 1..m : i < j => Precedes(called[i], called[j])
        /\ \A i \in 1..m : \A n \in Kept : Precedes(called[i], n)
    BY DEF Ordered, m
  <2>5. ASSUME NEW i \in 1..(m + 1), NEW j \in 1..(m + 1), i < j
        PROVE  Precedes(called'[i], called'[j])
    <3>1. i \in 1..m
      BY <2>2, <2>3, <2>5
    <3>2. CASE j \in 1..m
      BY <3>1, <3>2, <2>2, <2>4, <2>5
    <3>3. CASE j = m + 1
      BY <3>1, <3>3, <2>2, <2>4, FreedFirst
    <3> QED
      BY <2>3, <3>2, <3>3
  <2>6. ASSUME NEW i \in 1..(m + 1), NEW n \in Kept' PROVE Precedes(called'[i], n)
    <3>1. n \in Kept /\ n \in Kept \ {np}
      BY <1>1, <2>6
    <3>2. CASE i \in 1..m
      BY <3>1, <3>2, <2>2, <2>4
    <3>3. CASE i = m + 1
      BY <3>1, <3>3, <2>2, FreedFirst
    <3> QED
      BY <2>3, <3>2, <3>3
  <2> QED
    BY <1>2, <2>2, <2>5, <2>6 DEF Ordered
<1> QED
  BY <1>3, <1>4

LEMMA NextOrdered == ASSUME IInv, Ordered, [Next]_vars PROVE Ordered'
<1>1. ASSUME UNCHANGED <<called, alive, leaked, chain>> PROVE Ordered'
  BY <1>1 DEF Ordered, Precedes, Kept
<1>2. ASSUME ~Destroying, called' = called PROVE Ordered'
  <2>1. called' = << >>
    BY <1>2 DEF IInv, Whole
  <2> QED
    BY <2>1 DEF Ordered
<1>3. CASE Create \/ \E k \in Key : \/ \E v \in Val : Install(k, v)
                                   \/ Delete(k) \/ Lookup(k)
                                   \/ \E len \in Lens : LookupNz(k, len)
  BY <1>1, <1>3 DEF Create, Install, Delete, Lookup, LookupNz, Start, table, history, heap
<1>4. CASE (\E how \in DestroyOps : Destroy(how)) \/ NextBucket
  BY <1>1, <1>4 DEF Destroy, NextBucket, table, history, heap
<1>5. CASE Dies \/ SearchNext \/ Answer \/ Replace \/ Nothing
  BY <1>1, <1>5 DEF Dies, SearchNext, Answer, Replace, Nothing, table, history, heap
<1>6. CASE Unlink \/ \E n \in Node : Add(n)
  BY <1>2, <1>6 DEF Unlink, Add, Found, Missed, Searching, SearchOps, Destroying, DestroyOps
<1>7. CASE DestroyEnds
  BY <1>7 DEF DestroyEnds, Ordered
<1>8. CASE FreeOne
  BY <1>8, FreeOneOrdered
<1>9. CASE UNCHANGED vars
  BY <1>1, <1>9 DEF vars, table, history, heap
<1> QED
  BY <1>3, <1>4, <1>5, <1>6, <1>7, <1>8, <1>9 DEF Next

\* mmp_htab_destroy_with_data calls datadel for the value of every element of the
\* table, bucket by bucket and in the order of each chain, and for nothing else (not
\* for those that a deletion cut off): it reads the link of an element before it
\* frees it.
THEOREM DatadelInOrder == Spec => DataDeleted
<1>1. ASSUME IInv, Ordered, [Next]_vars, call.op = "destroyData", call' = NoCall
      PROVE  /\ ToSet(called) = Elements
             /\ \A i, j \in DOMAIN called : i < j => Precedes(called[i], called[j])
  <2>1. Destroying /\ np = Null /\ h = Size
    BY <1>1, DestroyReturns
  <2>2. \A n \in Node : n \notin Kept
    <3>1. \A b \in Buckets : ~(b >= h)
      BY <2>1, Marks DEF Buckets
    <3> QED
      BY <3>1, <2>1, <1>1, ChainEnds
  <2>3. \A x : x \in Elements <=> In(chain, x)
    BY <1>1, ChainIs, ElementsIn DEF Elements, ElementsOf
  <2>4. \A x : In(chain, x) => x \in Node
    BY <1>1, ChainIs, InIsNode
  <2>5. DOMAIN called = 1..Len(called) /\ \A i \in 1..Len(called) : called[i] \in Node
    BY <1>1 DEF IInv, TypeOK
  <2>6. \A n \in Node : In(chain, n) <=> \E i \in 1..Len(called) : called[i] = n
    BY <1>1, <2>2 DEF IInv, Once
  <2>7. \A x : x \in ToSet(called) <=> \E i \in 1..Len(called) : called[i] = x
    BY <2>5 DEF ToSet
  <2>8. \A x : x \in ToSet(called) <=> x \in Elements
    BY <2>3, <2>4, <2>5, <2>6, <2>7
  <2>9. \A i, j \in DOMAIN called : i < j => Precedes(called[i], called[j])
    BY <1>1, <2>5 DEF Ordered
  <2> QED
    BY <2>8, <2>9
<1>2. Init => Ordered
  BY NoneOrdered DEF Init
<1>3. IInv /\ Ordered /\ [Next]_vars => Ordered'
  BY NextOrdered
<1>4. IInv /\ Ordered /\ [Next]_vars
        => [call.op = "destroyData" /\ call' = NoCall
              => /\ ToSet(called) = Elements
                 /\ \A i, j \in DOMAIN called :
                       i < j => Precedes(called[i], called[j])]_vars
  BY <1>1
<1> QED
  BY <1>2, <1>3, <1>4, InvariantHolds, PTL DEF Spec, DataDeleted

=============================================================================
