---------------------------- MODULE Dates_proofs ----------------------------
(***************************************************************************)
(* Proofs about Dates, for every format and every text that xstrptime is   *)
(* called with, and every time of a year of four digits that is written.   *)
(***************************************************************************)
EXTENDS Dates, NaturalsInduction, WellFoundedInduction, TLAPS

Texts == Seq(Words)
Formats == Seq(Conversion)

\* The fields of a struct tm are in their ranges.
FieldsRight(tm) == tm \in [Fields -> Int] /\ \A f \in Fields : tm[f] \in Within(f)

(***************************************************************************)
(* What is read of a text                                                  *)
(***************************************************************************)
LEMMA DigitIs == ASSUME NEW t \in Texts, NEW p \in Nat, IsDigit(t, p)
                 PROVE  /\ p \in 1..Len(t) /\ t[p] \in Digit
                        /\ DigitAt(t, p) \in 0..9 /\ Digits[DigitAt(t, p) + 1] = t[p]
<1>1. p \in DOMAIN t
  <2> SUFFICES ASSUME p \notin DOMAIN t PROVE FALSE
    OBVIOUS
  <2>1. "NUL" \in Digit
    BY DEF IsDigit, At
  <2> QED
    BY <2>1 DEF Digit, Digits
<1>2. t[p] \in Digit /\ DOMAIN t = 1..Len(t)
  BY <1>1 DEF IsDigit, At, Texts
<1>3. \E i \in 1..10 : Digits[i] = t[p]
  BY <1>2 DEF Digit
<1>4. DigitNo(t[p]) \in 1..10 /\ Digits[DigitNo(t[p])] = t[p]
  BY <1>3 DEF DigitNo
<1> QED
  BY <1>1, <1>2, <1>4 DEF DigitAt

\* No two digits are the same.
LEMMA DigitsDiffer == \A i, j \in 1..10 : Digits[i] = Digits[j] => i = j
BY DEF Digits

LEMMA DigitFound == ASSUME NEW t, NEW p, NEW n \in 0..9, t[p] = Digits[n + 1]
                    PROVE  DigitAt(t, p) = n
<1>1. n + 1 \in 1..10
  OBVIOUS
<1>2. DigitNo(t[p]) = n + 1
  BY <1>1, DigitsDiffer DEF DigitNo
<1> QED
  BY <1>2 DEF DigitAt

\* A set of places has a first.
LEMMA Least == ASSUME NEW S \in SUBSET Nat, S # {}
               PROVE \E m \in S : \A j \in S : m <= j
<1> DEFINE Less == OpToRel(<, Nat)
<1>1. IsWellFoundedOn(Less, Nat)
  BY NatLessThanWellFounded
<1>2. \A i, j \in Nat : i < j => <<i, j>> \in Less
  BY DEF OpToRel
<1> HIDE DEF Less
<1>3. PICK m \in S : \A j \in S : ~ (<<j, m>> \in Less)
  BY <1>1, WFMin
<1>4. \A j \in S : ~ (j < m)
  BY <1>2, <1>3
<1> QED
  BY <1>4

\* What is skipped ends in the text or at its end.
LEMMA Skips == ASSUME NEW t \in Texts, NEW p \in 1..(Len(t) + 1), NEW S
               PROVE  /\ SkipWhile(t, p, S) \in p..(Len(t) + 1)
                      /\ \A q \in p..(Len(t) + 1) :
                            /\ q = Len(t) + 1 \/ t[q] \notin S
                            /\ \A r \in p..(q - 1) : t[r] \in S
                            => SkipWhile(t, p, S) = q
<1> DEFINE Ends(q) == q = Len(t) + 1 \/ t[q] \notin S
           Q == {q \in p..(Len(t) + 1) : Ends(q)}
<1>1. Len(t) \in Nat
  BY DEF Texts
<1>2. Len(t) + 1 \in Q /\ Q \in SUBSET Nat
  BY <1>1
<1>3. PICK q \in Q : \A r \in Q : q <= r
  BY <1>2, Least
<1>4. \A r \in p..(q - 1) : t[r] \in S
  <2> SUFFICES ASSUME NEW r \in p..(q - 1) PROVE t[r] \in S
    OBVIOUS
  <2>1. r \notin Q /\ r \in p..(Len(t) + 1)
    BY <1>1, <1>3
  <2> QED
    BY <2>1
<1>5. q \in p..(Len(t) + 1) /\ Ends(q)
  OBVIOUS
<1>6. \E z \in p..(Len(t) + 1) : /\ z = Len(t) + 1 \/ t[z] \notin S
                                 /\ \A r \in p..(z - 1) : t[r] \in S
  BY <1>4, <1>5
<1>7. /\ SkipWhile(t, p, S) \in p..(Len(t) + 1)
      /\ SkipWhile(t, p, S) = Len(t) + 1 \/ t[SkipWhile(t, p, S)] \notin S
      /\ \A r \in p..(SkipWhile(t, p, S) - 1) : t[r] \in S
  BY <1>6 DEF SkipWhile
<1>8. ASSUME NEW z \in p..(Len(t) + 1), z = Len(t) + 1 \/ t[z] \notin S, \A r \in p..(z - 1) : t[r] \in S
      PROVE  SkipWhile(t, p, S) = z
  <2> DEFINE w == SkipWhile(t, p, S)
  <2>1. ~ (w < z)
    BY <1>1, <1>7, <1>8
  <2>2. ~ (z < w)
    BY <1>1, <1>7, <1>8
  <2> QED
    BY <1>1, <1>7, <2>1, <2>2
<1> QED
  BY <1>7, <1>8

\* What a number may be bounded by.
Limit == 0..9999

\* k digits at p are read for a number of at most hi.
Reads(t, p, hi, k) == /\ k \in 1..4 /\ p \in 1..Len(t) /\ p + k \in 1..(Len(t) + 1)
                      /\ Value(t, p, k) \in Nat
                      /\ ~ ReadsMore(t, p, hi, k)
                      /\ \A j \in 1..(k - 1) : ReadsMore(t, p, hi, j)

\* The digits read lie in the text, and their value is a number.
LEMMA DigitsAre == ASSUME NEW t \in Texts, NEW p \in Nat, NEW hi \in Limit, IsDigit(t, p)
                   PROVE  Reads(t, p, hi, DigitsRead(t, p, hi))
<1> DEFINE k == DigitsRead(t, p, hi)
<1>1. ~ ReadsMore(t, p, hi, 4)
  <2>1. Power[4] = 10000 /\ ~ (hi >= 10000)
    BY DEF Power, Limit
  <2>2. ~ (hi >= Power[4])
    BY <2>1
  <2> QED
    BY <2>2 DEF ReadsMore
<1>2. \E i \in 1..4 : ~ ReadsMore(t, p, hi, i) /\ \A j \in 1..(i - 1) : ReadsMore(t, p, hi, j)
  <2>1. CASE ~ ReadsMore(t, p, hi, 1)
    BY <2>1
  <2>2. CASE ReadsMore(t, p, hi, 1) /\ ~ ReadsMore(t, p, hi, 2)
    BY <2>2
  <2>3. CASE ReadsMore(t, p, hi, 1) /\ ReadsMore(t, p, hi, 2) /\ ~ ReadsMore(t, p, hi, 3)
    BY <2>3
  <2>4. CASE ReadsMore(t, p, hi, 1) /\ ReadsMore(t, p, hi, 2) /\ ReadsMore(t, p, hi, 3)
    BY <1>1, <2>4
  <2> QED
    BY <2>1, <2>2, <2>3, <2>4
<1>3. k \in 1..4 /\ ~ ReadsMore(t, p, hi, k) /\ \A j \in 1..(k - 1) : ReadsMore(t, p, hi, j)
  BY <1>2 DEF DigitsRead
<1> HIDE DEF k
<1>4. \A j \in 0..(k - 1) : IsDigit(t, p + j)
  BY <1>3 DEF ReadsMore
<1>5. \A j \in 0..(k - 1) : p + j \in 1..Len(t) /\ DigitAt(t, p + j) \in 0..9
  <2> SUFFICES ASSUME NEW j \in 0..(k - 1)
               PROVE  p + j \in 1..Len(t) /\ DigitAt(t, p + j) \in 0..9
    OBVIOUS
  <2>1. p + j \in Nat
    OBVIOUS
  <2> QED
    BY <1>4, <2>1, DigitIs
<1>6. Len(t) \in Nat
  BY DEF Texts
<1>7. p \in 1..Len(t) /\ p + k \in 1..(Len(t) + 1)
  <2>a. 0 \in 0..(k - 1) /\ k - 1 \in 0..(k - 1)
    BY <1>3
  <2>1. p + 0 \in 1..Len(t) /\ p + (k - 1) \in 1..Len(t)
    BY <1>5, <2>a
  <2> QED
    BY <1>3, <1>6, <2>1
<1>8. Value(t, p, k) \in Nat
  <2>1. DigitAt(t, p) \in Nat
    BY DigitIs
  <2>2. k > 1 => DigitAt(t, p + 1) \in Nat
    BY <1>3, <1>5
  <2>3. k > 2 => DigitAt(t, p + 2) \in Nat
    BY <1>3, <1>5
  <2>4. k > 3 => DigitAt(t, p + 3) \in Nat
    BY <1>3, <1>5
  <2>5. k = 1 \/ k = 2 \/ k = 3 \/ k = 4
    BY <1>3
  <2> QED
    BY <2>1, <2>2, <2>3, <2>4, <2>5 DEF Value
<1> QED
  BY <1>3, <1>7, <1>8 DEF k, Reads

\* A number that is read is in its range, and ends in the text or at its end.
NumberRead(t, r, lo, hi) == /\ r.val \in Nat /\ r.pos \in Nat
                            /\ r.pos # 0 => r.pos \in 1..(Len(t) + 1) /\ r.val \in lo..hi
LEMMA NumberIs == ASSUME NEW t \in Texts, NEW p \in Nat, NEW lo \in Limit, NEW hi \in Limit
                  PROVE  NumberRead(t, conv_num(t, p, lo, hi), lo, hi)
<1>1. CASE ~ IsDigit(t, p)
  BY <1>1 DEF conv_num, NumberRead, Limit
<1>2. CASE IsDigit(t, p)
  <2>1. PICK k : k = DigitsRead(t, p, hi)
    OBVIOUS
  <2>2. PICK v : v = Value(t, p, k)
    OBVIOUS
  <2>3. Reads(t, p, hi, DigitsRead(t, p, hi))
    BY <1>2, DigitsAre
  <2>4. v \in Nat /\ p + k \in 1..(Len(t) + 1)
    BY <2>1, <2>2, <2>3 DEF Reads
  <2>5. conv_num(t, p, lo, hi) = [pos |-> IF v \in lo..hi THEN p + k ELSE 0, val |-> v]
    BY <1>2, <2>1, <2>2 DEF conv_num
  <2> QED
    BY <2>4, <2>5 DEF NumberRead
<1> QED
  BY <1>1, <1>2

\* A name that is read is one of the list, and lies in the text.
NameRead(t, p, r, k) == /\ r.val \in Int /\ r.pos \in Nat
                        /\ r.pos # 0 => /\ r.pos = p + 1 /\ r.pos \in 1..(Len(t) + 1)
                                        /\ r.val \in 0..(k - 1)

LEMMA NameIs == ASSUME NEW t \in Texts, NEW p \in Nat, NEW k \in Nat, NEW n1, NEW n2, DOMAIN n1 = 1..k,
                       \A i \in 1..k : n1[i] # "NUL" /\ n2[i] # "NUL"
                PROVE  NameRead(t, p, find_string(t, p, n1, n2), k)
<1>1. CASE Named(At(t, p), n1, n2) = {}
  BY <1>1 DEF find_string, NameRead
<1>2. CASE Named(At(t, p), n1, n2) # {}
  <2>1. PICK i : i = NameNo(At(t, p), n1, n2)
    OBVIOUS
  <2>2. \E j \in DOMAIN n1 : j \in Named(At(t, p), n1, n2)
    BY <1>2 DEF Named
  <2>3. i \in DOMAIN n1 /\ i \in Named(At(t, p), n1, n2)
    BY <2>1, <2>2 DEF NameNo
  <2>4. At(t, p) # "NUL"
    BY <2>3 DEF Named
  <2>5. p \in 1..Len(t) /\ Len(t) \in Nat
    BY <2>4 DEF At, Texts
  <2>6. find_string(t, p, n1, n2) = [pos |-> p + 1, val |-> i - 1]
    BY <1>2, <2>1 DEF find_string
  <2> QED
    BY <2>3, <2>5, <2>6 DEF NameRead
<1> QED
  BY <1>1, <1>2

\* What xstrptime is after a step, of a text it was in.
States == [pos : Nat, tm : [Fields -> Int], split : BOOLEAN]
Right(t, x) == /\ x \in States
               /\ x.pos # 0 => x.pos \in 1..(Len(t) + 1) /\ FieldsRight(x.tm)

LEMMA PutIs == ASSUME NEW tm \in [Fields -> Int], NEW field \in Fields, NEW v \in Int
               PROVE  /\ Put(tm, field, v) \in [Fields -> Int] /\ Put(tm, field, v)[field] = v
                      /\ \A f \in Fields \ {field} : Put(tm, field, v)[f] = tm[f]
BY DEF Put

LEMMA SetsRight == ASSUME NEW t \in Texts, NEW x, Right(t, x), x.pos # 0, NEW p \in Nat,
                          NEW field \in Fields, NEW v \in Int,
                          p # 0 => p \in 1..(Len(t) + 1) /\ v \in Within(field)
                   PROVE  Right(t, Sets(x, p, field, v))
<1>1. x.tm \in [Fields -> Int] /\ \A f \in Fields : x.tm[f] \in Within(f)
  BY DEF Right, FieldsRight, States
<1>2. PICK tm : tm = Put(x.tm, field, v)
  OBVIOUS
<1>3. /\ tm \in [Fields -> Int] /\ tm[field] = v
      /\ \A f \in Fields \ {field} : tm[f] = x.tm[f]
  BY <1>1, <1>2, PutIs
<1>4. Sets(x, p, field, v) = [pos |-> p, tm |-> tm, split |-> x.split]
  BY <1>2 DEF Sets
<1>5. p # 0 => FieldsRight(tm)
  BY <1>1, <1>3 DEF FieldsRight
<1> QED
  BY <1>3, <1>4, <1>5 DEF Right, States

YearFits(v) == -1999 <= v /\ v <= 8099
LEMMA YearIs == \A v : v \in Within("year") <=> v \in Int /\ YearFits(v)
<1>1. Within("year") = AnyYear
  BY DEF Within
<1>2. ASSUME NEW v \in Int PROVE v \in AnyYear <=> YearFits(v)
  BY DEF AnyYear, YearFits
<1>3. \A v \in AnyYear : v \in Int
  BY DEF AnyYear
<1> QED
  BY <1>1, <1>2, <1>3

LEMMA YearRight == ASSUME NEW t \in Texts, NEW x, Right(t, x), x.pos # 0, NEW p \in Nat, NEW v \in Int,
                          p # 0 => p \in 1..(Len(t) + 1) /\ YearFits(v)
                   PROVE  Right(t, SetsYear(x, p, v))
<1>1. "year" \in Fields /\ (p # 0 => p \in 1..(Len(t) + 1) /\ v \in Within("year"))
  BY YearIs DEF Fields
<1>2. Right(t, Sets(x, p, "year", v))
  BY <1>1, SetsRight
<1>3. SetsYear(x, p, v) = [pos |-> p, tm |-> Put(x.tm, "year", v), split |-> TRUE]
  BY DEF SetsYear
<1>4. Sets(x, p, "year", v) = [pos |-> p, tm |-> Put(x.tm, "year", v), split |-> x.split]
  BY DEF Sets
<1> QED
  BY <1>2, <1>3, <1>4 DEF Right, States

LEMMA MovesRight == ASSUME NEW t \in Texts, NEW x, Right(t, x), x.pos # 0, NEW p \in Nat,
                           p # 0 => p \in 1..(Len(t) + 1)
                    PROVE  Right(t, Moves(x, p))
<1>1. Moves(x, p) \in States
  BY DEF Moves, Right, States
<1> QED
  BY <1>1 DEF Moves, Right

(***************************************************************************)
(* A conversion                                                            *)
(***************************************************************************)
LEMMA WithinIs ==
    /\ Within("sec") = 0..61 /\ Within("min") = 0..59 /\ Within("hour") = 0..23
    /\ Within("mday") = 0..31 /\ Within("mon") = 0..11
    /\ Within("wday") = 0..6 /\ Within("yday") = 0..365 /\ Within("isdst") = -1..1
    /\ "sec" \in Fields /\ "min" \in Fields /\ "hour" \in Fields /\ "mday" \in Fields
    /\ "mon" \in Fields /\ "year" \in Fields /\ "wday" \in Fields /\ "yday" \in Fields
    /\ "isdst" \in Fields
BY DEF Within, Fields

\* What a numeric conversion reads is in the range of its field.
NumFits(n) == /\ n.lo \in Limit /\ n.hi \in Limit /\ n.off \in Int
              /\ n.field # "none" => /\ n.field \in Fields
                                     /\ \A v \in n.lo..n.hi : v + n.off \in Within(n.field)

LEMMA NumbersFit == \A c \in DOMAIN Number : NumFits(Number[c])
<1> SUFFICES ASSUME NEW c \in DOMAIN Number PROVE NumFits(Number[c])
  OBVIOUS
<1>1. \/ Number[c] = Num(1, 31, "mday", 0) \/ Number[c] = Num(0, 23, "hour", 0)
      \/ Number[c] = Num(1, 366, "yday", -1) \/ Number[c] = Num(0, 59, "min", 0)
      \/ Number[c] = Num(1, 12, "mon", -1) \/ Number[c] = Num(0, 61, "sec", 0)
      \/ Number[c] = Num(0, 6, "wday", 0) \/ Number[c] = Num(0, 9999, "year", -1900)
      \/ Number[c] = Num(0, 53, "none", 0) \/ Number[c] = Num(0, 99, "none", 0)
  BY DEF Number
<1>2. CASE Number[c] = Num(1, 31, "mday", 0)
  BY <1>2, WithinIs DEF NumFits, Num, Limit
<1>3. CASE Number[c] = Num(0, 23, "hour", 0)
  BY <1>3, WithinIs DEF NumFits, Num, Limit
<1>4. CASE Number[c] = Num(1, 366, "yday", -1)
  BY <1>4, WithinIs DEF NumFits, Num, Limit
<1>5. CASE Number[c] = Num(0, 59, "min", 0)
  BY <1>5, WithinIs DEF NumFits, Num, Limit
<1>6. CASE Number[c] = Num(1, 12, "mon", -1)
  BY <1>6, WithinIs DEF NumFits, Num, Limit
<1>7. CASE Number[c] = Num(0, 61, "sec", 0)
  BY <1>7, WithinIs DEF NumFits, Num, Limit
<1>8. CASE Number[c] = Num(0, 6, "wday", 0)
  BY <1>8, WithinIs DEF NumFits, Num, Limit
<1>9. CASE Number[c] = Num(0, 9999, "year", -1900)
  <2>1. "year" \in Fields
    BY WithinIs
  <2>3. PICK n : n = Number[c]
    OBVIOUS
  <2>4. n.lo = 0 /\ n.hi = 9999 /\ n.field = "year" /\ n.off = -1900
    BY <1>9, <2>3 DEF Num
  <2>5. ASSUME NEW v \in n.lo..n.hi PROVE v + n.off \in Within(n.field)
    <3>1. v \in Int /\ 0 <= v /\ v <= 9999
      BY <2>4
    <3>2. PICK u : u = v + n.off
      OBVIOUS
    <3>3. u \in Int /\ -1999 <= u /\ u <= 8099
      BY <2>4, <3>1, <3>2
    <3>4. u \in Within("year")
      BY <3>3, YearIs DEF YearFits
    <3> QED
      BY <2>4, <3>2, <3>4
  <2>6. n.lo \in Limit /\ n.hi \in Limit /\ n.off \in Int /\ n.field \in Fields
    BY <2>1, <2>4 DEF Limit
  <2>7. NumFits(n)
    BY <2>5, <2>6 DEF NumFits
  <2> QED
    BY <2>3, <2>7
<1>10. CASE Number[c] = Num(0, 53, "none", 0)
  BY <1>10 DEF NumFits, Num, Limit
<1>11. CASE Number[c] = Num(0, 99, "none", 0)
  BY <1>11 DEF NumFits, Num, Limit
<1> QED
  BY <1>1, <1>2, <1>3, <1>4, <1>5, <1>6, <1>7, <1>8, <1>9, <1>10, <1>11

LEMMA ReadNumberRight == ASSUME NEW t \in Texts, NEW x, Right(t, x), x.pos # 0, NEW c \in DOMAIN Number
                         PROVE  Right(t, ReadNumber(t, x, c))
<1>1. PICK n : n = Number[c]
  OBVIOUS
<1>2. NumFits(n)
  BY <1>1, NumbersFit
<1>3. PICK r : r = conv_num(t, x.pos, n.lo, n.hi)
  OBVIOUS
<1>4. x.pos \in Nat /\ n.lo \in Limit /\ n.hi \in Limit
  BY <1>2 DEF Right, States, NumFits
<1>5. NumberRead(t, r, n.lo, n.hi)
  BY <1>3, <1>4, NumberIs
<1>6. CASE n.field = "none"
  <2>1. ReadNumber(t, x, c) = Moves(x, r.pos)
    BY <1>1, <1>3, <1>6 DEF ReadNumber
  <2>2. r.pos \in Nat /\ (r.pos # 0 => r.pos \in 1..(Len(t) + 1))
    BY <1>5 DEF NumberRead
  <2> QED
    BY <2>1, <2>2, MovesRight
<1>7. CASE n.field # "none"
  <2>1. ReadNumber(t, x, c) = Sets(x, r.pos, n.field, r.val + n.off)
    BY <1>1, <1>3, <1>7 DEF ReadNumber
  <2>2. /\ r.pos \in Nat /\ n.field \in Fields /\ r.val + n.off \in Int
        /\ r.pos # 0 => r.pos \in 1..(Len(t) + 1) /\ r.val + n.off \in Within(n.field)
    BY <1>2, <1>5, <1>7 DEF NumberRead, NumFits
  <2> QED
    BY <2>1, <2>2, SetsRight
<1> QED
  BY <1>6, <1>7

\* A name is read into a field that the names fill.
LEMMA ReadNameRight == ASSUME NEW t \in Texts, NEW x, Right(t, x), x.pos # 0, NEW k \in Nat,
                              NEW field \in Fields, 0..(k - 1) \subseteq Within(field), NEW n1, NEW n2,
                              DOMAIN n1 = 1..k, \A i \in 1..k : n1[i] # "NUL" /\ n2[i] # "NUL"
                       PROVE  Right(t, ReadName(t, x, field, n1, n2))
<1>1. PICK r : r = find_string(t, x.pos, n1, n2)
  OBVIOUS
<1>2. x.pos \in Nat
  BY DEF Right, States
<1>3. NameRead(t, x.pos, r, k)
  BY <1>1, <1>2, NameIs
<1>4. ReadName(t, x, field, n1, n2) = Sets(x, r.pos, field, r.val)
  BY <1>1 DEF ReadName
<1>5. /\ r.pos \in Nat /\ r.val \in Int
      /\ r.pos # 0 => r.pos \in 1..(Len(t) + 1) /\ r.val \in Within(field)
  BY <1>3 DEF NameRead
<1> QED
  BY <1>4, <1>5, SetsRight

LEMMA NamesRight == ASSUME NEW t \in Texts, NEW x, Right(t, x), x.pos # 0
                    PROVE  /\ Right(t, ReadName(t, x, "wday", day, abday))
                           /\ Right(t, ReadName(t, x, "mon", mon, abmon))
                           /\ Right(t, ReadName(t, x, "isdst", tzname, tzname))
<1>1. Right(t, ReadName(t, x, "wday", day, abday))
  <2>1. /\ DOMAIN day = 1..7 /\ \A i \in 1..7 : day[i] # "NUL" /\ abday[i] # "NUL"
        /\ 7 \in Nat /\ "wday" \in Fields /\ 0..(7 - 1) \subseteq Within("wday")
    BY DEF day, abday, Within, Fields
  <2> QED
    BY <2>1, ReadNameRight
<1>2. Right(t, ReadName(t, x, "mon", mon, abmon))
  <2>1. /\ DOMAIN mon = 1..12 /\ \A i \in 1..12 : mon[i] # "NUL" /\ abmon[i] # "NUL"
        /\ 12 \in Nat /\ "mon" \in Fields /\ 0..(12 - 1) \subseteq Within("mon")
    BY DEF mon, abmon, Within, Fields
  <2> QED
    BY <2>1, ReadNameRight
<1>3. Right(t, ReadName(t, x, "isdst", tzname, tzname))
  <2>1. /\ DOMAIN tzname = 1..2 /\ \A i \in 1..2 : tzname[i] # "NUL" /\ tzname[i] # "NUL"
        /\ 2 \in Nat /\ "isdst" \in Fields /\ 0..(2 - 1) \subseteq Within("isdst")
    BY DEF tzname, Within, Fields
  <2> QED
    BY <2>1, ReadNameRight
<1> QED
  BY <1>1, <1>2, <1>3

LEMMA ReadHourRight == ASSUME NEW t \in Texts, NEW x, Right(t, x), x.pos # 0
                       PROVE  Right(t, ReadHour(t, x))
<1>1. PICK r : r = conv_num(t, x.pos, 1, 12)
  OBVIOUS
<1>2. x.pos \in Nat /\ 1 \in Limit /\ 12 \in Limit
  BY DEF Right, States, Limit
<1>3. NumberRead(t, r, 1, 12)
  BY <1>1, <1>2, NumberIs
<1>4. ReadHour(t, x) = Sets(x, r.pos, "hour", r.val % 12)
  BY <1>1 DEF ReadHour
<1>5. /\ r.pos \in Nat /\ r.val % 12 \in Int /\ "hour" \in Fields
      /\ r.pos # 0 => r.pos \in 1..(Len(t) + 1) /\ r.val % 12 \in Within("hour")
  <2>1. "hour" \in Fields /\ Within("hour") = 0..23
    BY WithinIs
  <2>2. r.val % 12 \in 0..11
    BY <1>3 DEF NumberRead
  <2> QED
    BY <1>3, <2>1, <2>2 DEF NumberRead
<1> QED
  BY <1>4, <1>5, SetsRight

LEMMA ReadHalfRight == ASSUME NEW t \in Texts, NEW x, Right(t, x), x.pos # 0
                       PROVE  Right(t, ReadHalf(t, x))
<1>1. PICK r : r = find_string(t, x.pos, am_pm, am_pm)
  OBVIOUS
<1>2. /\ x.pos \in Nat /\ 2 \in Nat /\ DOMAIN am_pm = 1..2
      /\ \A i \in 1..2 : am_pm[i] # "NUL" /\ am_pm[i] # "NUL"
  BY DEF Right, States, am_pm
<1>3. NameRead(t, x.pos, r, 2)
  BY <1>1, <1>2, NameIs
<1>4. x.tm["hour"] \in 0..23 /\ "hour" \in Fields /\ 0 \in Nat
  <2>1. \A f \in Fields : x.tm[f] \in Within(f)
    BY DEF Right, FieldsRight
  <2>2. "hour" \in Fields /\ Within("hour") = 0..23
    BY WithinIs
  <2> QED
    BY <2>1, <2>2
<1>5. PICK h : h = x.tm["hour"]
  OBVIOUS
<1>6. CASE h > 11
  <2>1. ReadHalf(t, x) = Moves(x, 0)
    BY <1>5, <1>6 DEF ReadHalf, Fails
  <2> QED
    BY <1>4, <2>1, MovesRight
<1>7. CASE ~ (h > 11)
  <2>1. ReadHalf(t, x) = Sets(x, r.pos, "hour", h + 12 * r.val)
    BY <1>1, <1>5, <1>7 DEF ReadHalf
  <2>2. /\ r.pos \in Nat /\ h + 12 * r.val \in Int
        /\ r.pos # 0 => r.pos \in 1..(Len(t) + 1) /\ h + 12 * r.val \in Within("hour")
    <3>1. Within("hour") = 0..23 /\ h \in 0..11
      BY <1>4, <1>5, <1>7, WithinIs
    <3>2. /\ r.val \in Int /\ r.pos \in Nat
          /\ r.pos # 0 => r.pos \in 1..(Len(t) + 1) /\ r.val \in 0..1
      BY <1>3 DEF NameRead
    <3>3. ASSUME r.pos # 0 PROVE h + 12 * r.val \in 0..23
      <4>1. r.val = 0 \/ r.val = 1
        BY <3>2, <3>3
      <4> QED
        BY <3>1, <4>1
    <3> QED
      BY <3>1, <3>2, <3>3
  <2> QED
    BY <1>4, <2>1, <2>2, SetsRight
<1> QED
  BY <1>6, <1>7

LEMMA ReadDayRight == ASSUME NEW t \in Texts, NEW x, Right(t, x), x.pos # 0
                      PROVE  Right(t, ReadDayFromMonday(t, x))
<1>1. PICK r : r = conv_num(t, x.pos, 1, 7)
  OBVIOUS
<1>2. x.pos \in Nat /\ 1 \in Limit /\ 7 \in Limit
  BY DEF Right, States, Limit
<1>3. NumberRead(t, r, 1, 7)
  BY <1>1, <1>2, NumberIs
<1>4. ReadDayFromMonday(t, x) = Sets(x, r.pos, "wday", r.val % 7)
  BY <1>1 DEF ReadDayFromMonday
<1>5. /\ r.pos \in Nat /\ r.val % 7 \in Int /\ "wday" \in Fields
      /\ r.pos # 0 => r.pos \in 1..(Len(t) + 1) /\ r.val % 7 \in Within("wday")
  BY <1>3, WithinIs DEF NumberRead
<1> QED
  BY <1>4, <1>5, SetsRight


\* What is in the century of a year: C's remainder has the sign of the year.
LEMMA RemainderIs == ASSUME NEW y \in Int
                     PROVE  Rem100(y) \in -99..99 /\ (y >= 0 => Rem100(y) \in 0..99)
<1>1. CASE y >= 0
  <2>1. Rem100(y) = y % 100 /\ y % 100 \in 0..99
    BY <1>1 DEF Rem100
  <2> QED
    BY <2>1
<1>2. CASE ~ (y >= 0)
  <2>1. PICK z : z = -y
    OBVIOUS
  <2>a. z \in Nat
    BY <1>2, <2>1
  <2>2. z % 100 \in 0..99
    BY <2>a
  <2>3. Rem100(y) = -(z % 100)
    BY <1>2, <2>1 DEF Rem100
  <2> QED
    BY <1>2, <2>2, <2>3
<1> QED
  BY <1>1, <1>2

LEMMA ReadCenturyRight == ASSUME NEW t \in Texts, NEW x, Right(t, x), x.pos # 0
                          PROVE  Right(t, ReadCentury(t, x))
<1>1. PICK r : r = conv_num(t, x.pos, 0, 99)
  OBVIOUS
<1>2. x.pos \in Nat /\ 0 \in Limit /\ 99 \in Limit
  BY DEF Right, States, Limit
<1>3. NumberRead(t, r, 0, 99)
  BY <1>1, <1>2, NumberIs
<1>4. PICK o : o = Rem100(x.tm["year"])
  OBVIOUS
<1>5. PICK y : y = r.val * 100 - 1900 + (IF x.split THEN o ELSE 0)
  OBVIOUS
<1>6. ReadCentury(t, x) = SetsYear(x, r.pos, y)
  BY <1>1, <1>4, <1>5 DEF ReadCentury
<1>7. x.tm["year"] \in Int
  BY WithinIs DEF Right, States
<1>8. o \in -99..99
  BY <1>4, <1>7, RemainderIs
<1>9. r.val \in Nat /\ r.pos \in Nat /\ (r.pos # 0 => r.pos \in 1..(Len(t) + 1) /\ r.val \in 0..99)
  BY <1>3 DEF NumberRead
<1>10. y \in Int
  BY <1>5, <1>8, <1>9
<1>11. ASSUME r.pos # 0 PROVE YearFits(y)
  <2>1. r.val \in 0..99
    BY <1>9, <1>11
  <2> QED
    BY <1>5, <1>8, <2>1 DEF YearFits
<1>12. r.pos \in Nat /\ (r.pos # 0 => r.pos \in 1..(Len(t) + 1) /\ YearFits(y))
  BY <1>9, <1>11
<1> QED
  BY <1>6, <1>10, <1>12, YearRight

LEMMA ReadYearRight == ASSUME NEW t \in Texts, NEW x, Right(t, x), x.pos # 0
                       PROVE  Right(t, ReadYear(t, x))
<1>1. PICK r : r = conv_num(t, x.pos, 0, 99)
  OBVIOUS
<1>2. x.pos \in Nat /\ 0 \in Limit /\ 99 \in Limit
  BY DEF Right, States, Limit
<1>3. NumberRead(t, r, 0, 99)
  BY <1>1, <1>2, NumberIs
<1>4. PICK z : z = x.tm["year"]
  OBVIOUS
<1>5. PICK o : o = Rem100(z)
  OBVIOUS
<1>6. PICK y : y = (IF x.split THEN r.val + z - o ELSE IF r.val <= 68 THEN r.val + 100 ELSE r.val)
  OBVIOUS
<1>7. ReadYear(t, x) = SetsYear(x, r.pos, y)
  BY <1>1, <1>4, <1>5, <1>6 DEF ReadYear
<1>8. z \in Int /\ YearFits(z)
  <2>1. x.tm["year"] \in Within("year") /\ "year" \in Fields
    BY WithinIs DEF Right, FieldsRight
  <2> QED
    BY <1>4, <2>1, YearIs
<1>9. o \in Int /\ -1900 <= z - o /\ z - o <= 8000
  <2>1. CASE z >= 0
    <3>1. PICK q : q = z \div 100
      OBVIOUS
    <3>2. o = z % 100 /\ z \in Nat
      BY <1>5, <1>8, <2>1 DEF Rem100
    <3>3. z = 100 * q + o /\ o \in 0..99 /\ q \in Int
      BY <3>1, <3>2
    <3> QED
      BY <1>8, <2>1, <3>3 DEF YearFits
  <2>2. CASE ~ (z >= 0)
    <3>1. PICK w : w = -z
      OBVIOUS
    <3>2. w \in Nat /\ w <= 1999 /\ z = -w
      BY <1>8, <2>2, <3>1 DEF YearFits
    <3>3. PICK q : q = w \div 100
      OBVIOUS
    <3>4. PICK m : m = w % 100
      OBVIOUS
    <3>5. o = -m
      BY <1>5, <2>2, <3>1, <3>4 DEF Rem100
    <3>6. w = 100 * q + m /\ m \in 0..99 /\ q \in Int
      BY <3>2, <3>3, <3>4
    <3> QED
      BY <3>2, <3>5, <3>6
  <2> QED
    BY <2>1, <2>2
<1>10. r.val \in Nat /\ r.pos \in Nat /\ (r.pos # 0 => r.pos \in 1..(Len(t) + 1) /\ r.val \in 0..99)
  BY <1>3 DEF NumberRead
<1>11. y \in Int
  BY <1>6, <1>8, <1>9, <1>10
<1>12. ASSUME r.pos # 0 PROVE YearFits(y)
  <2>1. r.val \in 0..99
    BY <1>10, <1>12
  <2>2. CASE x.split
    <3>1. y = r.val + (z - o)
      BY <1>6, <1>8, <1>9, <2>1, <2>2
    <3> QED
      BY <1>8, <1>9, <2>1, <3>1 DEF YearFits
  <2>3. CASE ~ x.split
    BY <1>6, <2>1, <2>3 DEF YearFits
  <2> QED
    BY <2>2, <2>3
<1>13. r.pos \in Nat /\ (r.pos # 0 => r.pos \in 1..(Len(t) + 1) /\ YearFits(y))
  BY <1>10, <1>12
<1> QED
  BY <1>7, <1>11, <1>13, YearRight

LEMMA ReadZoneNameRight == ASSUME NEW t \in Texts, NEW x, Right(t, x), x.pos # 0
                           PROVE  Right(t, ReadZoneName(t, x))
<1>1. CASE At(t, x.pos) = "GMT"
  <2>1. x.pos \in 1..Len(t) /\ Len(t) \in Nat
    BY <1>1 DEF At, Texts
  <2>2. /\ x.pos + 1 \in Nat /\ x.pos + 1 \in 1..(Len(t) + 1)
        /\ 0 \in Int /\ "isdst" \in Fields /\ 0 \in Within("isdst")
    BY <2>1, WithinIs
  <2>3. Right(t, Sets(x, x.pos + 1, "isdst", 0))
    BY <2>2, SetsRight
  <2> QED
    BY <1>1, <2>3 DEF ReadZoneName
<1>2. CASE At(t, x.pos) # "GMT"
  BY <1>2, NamesRight DEF ReadZoneName
<1> QED
  BY <1>1, <1>2

LEMMA DigitsFromIs == ASSUME NEW t, NEW p
                      PROVE  /\ DigitsFrom(t, p) \in 0..4
                             /\ DigitsFrom(t, p) = 4 \/ ~ IsDigit(t, p + DigitsFrom(t, p))
                             /\ \A j \in 0..(DigitsFrom(t, p) - 1) : IsDigit(t, p + j)
<1>1. \E k \in 0..4 : /\ k = 4 \/ ~ IsDigit(t, p + k)
                      /\ \A j \in 0..(k - 1) : IsDigit(t, p + j)
  <2>1. CASE ~ IsDigit(t, p + 0)
    BY <2>1
  <2>2. CASE IsDigit(t, p + 0) /\ ~ IsDigit(t, p + 1)
    BY <2>2
  <2>3. CASE IsDigit(t, p + 0) /\ IsDigit(t, p + 1) /\ ~ IsDigit(t, p + 2)
    BY <2>3
  <2>4. CASE IsDigit(t, p + 0) /\ IsDigit(t, p + 1) /\ IsDigit(t, p + 2) /\ ~ IsDigit(t, p + 3)
    BY <2>4
  <2>5. CASE IsDigit(t, p + 0) /\ IsDigit(t, p + 1) /\ IsDigit(t, p + 2) /\ IsDigit(t, p + 3)
    BY <2>5
  <2> QED
    BY <2>1, <2>2, <2>3, <2>4, <2>5
<1> QED
  BY <1>1 DEF DigitsFrom

\* An offset that is accepted ends in the text or at its end.
LEMMA OffsetIs == ASSUME NEW t \in Texts, NEW p \in 1..(Len(t) + 1)
                  PROVE  OffsetEnd(t, p) \in Nat /\ (OffsetEnd(t, p) # 0 => OffsetEnd(t, p) \in 1..(Len(t) + 1))
<1>1. PICK n : n = DigitsFrom(t, p)
  OBVIOUS
<1>2. n \in 0..4 /\ \A j \in 0..(n - 1) : IsDigit(t, p + j)
  BY <1>1, DigitsFromIs
<1>3. Len(t) \in Nat
  BY DEF Texts
<1>4. PICK q : q = SkipWhile(t, p + 2, {Colon})
  OBVIOUS
<1>5. CASE n = 4
  <2>1. IsDigit(t, p + 3) /\ p + 3 \in Nat
    BY <1>2, <1>3, <1>5
  <2>2. p + 3 \in 1..Len(t)
    BY <2>1, DigitIs
  <2>3. OffsetEnd(t, p) = IF DigitAt(t, p + 2) < 6 THEN p + 4 ELSE 0
    BY <1>1, <1>5 DEF OffsetEnd
  <2>4. p + 4 \in 1..(Len(t) + 1) /\ p + 4 \in Nat /\ 0 \in Nat
    BY <1>3, <2>2
  <2> QED
    BY <2>3, <2>4
<1>6. CASE n = 2
  <2>1. IsDigit(t, p + 1) /\ p + 1 \in Nat
    BY <1>2, <1>3, <1>6
  <2>2. p + 1 \in 1..Len(t)
    BY <2>1, DigitIs
  <2>3. p + 2 \in 1..(Len(t) + 1)
    BY <1>3, <2>2
  <2>4. q \in (p + 2)..(Len(t) + 1)
    BY <1>4, <2>3, Skips
  <2>5. q \in Nat /\ q \in 1..(Len(t) + 1)
    BY <1>3, <2>3, <2>4
  <2>6. IsDigit(t, q) /\ IsDigit(t, q + 1) => q + 2 \in Nat /\ q + 2 \in 1..(Len(t) + 1)
    <3> SUFFICES ASSUME IsDigit(t, q + 1) PROVE q + 2 \in 1..(Len(t) + 1)
      BY <1>3, <2>5
    <3>1. q + 1 \in Nat
      BY <2>5
    <3>2. q + 1 \in 1..Len(t)
      BY <3>1, DigitIs
    <3> QED
      BY <1>3, <2>5, <3>2
  <2>7. \/ OffsetEnd(t, p) = q
        \/ OffsetEnd(t, p) = q + 2 /\ IsDigit(t, q) /\ IsDigit(t, q + 1)
        \/ OffsetEnd(t, p) = 0
    BY <1>1, <1>4, <1>6 DEF OffsetEnd
  <2> QED
    BY <2>5, <2>6, <2>7
<1>7. CASE n # 4 /\ n # 2
  BY <1>1, <1>7 DEF OffsetEnd
<1> QED
  BY <1>5, <1>6, <1>7

\* Blanks that are skipped end in the text or at its end.
LEMMA BlanksIs == ASSUME NEW t \in Texts, NEW p \in 1..(Len(t) + 1)
                  PROVE  SkipBlanks(t, p) \in Nat /\ SkipBlanks(t, p) \in 1..(Len(t) + 1)
<1>1. PICK q : q = SkipWhile(t, p, {Space})
  OBVIOUS
<1>2. q \in p..(Len(t) + 1)
  BY <1>1, Skips
<1>3. Len(t) \in Nat
  BY DEF Texts
<1>4. q \in Nat /\ q \in 1..(Len(t) + 1)
  BY <1>2, <1>3
<1> QED
  BY <1>1, <1>4 DEF SkipBlanks

LEMMA ReadZoneRight == ASSUME NEW t \in Texts, NEW x, Right(t, x), x.pos # 0
                       PROVE  Right(t, ReadZone(t, x))
<1>1. PICK p : p = SkipBlanks(t, x.pos)
  OBVIOUS
<1>2. PICK z : z = At(t, p)
  OBVIOUS
<1>3. x.pos \in 1..(Len(t) + 1)
  BY DEF Right
<1>4. p \in Nat /\ p \in 1..(Len(t) + 1) /\ Len(t) \in Nat
  BY <1>1, <1>3, BlanksIs DEF Texts
<1>5. "isdst" \in Fields /\ 0 \in Int /\ 1 \in Int /\ 0 \in Within("isdst") /\ 1 \in Within("isdst")
  BY WithinIs
<1>6. z # "NUL" => p + 1 \in Nat /\ p + 1 \in 1..(Len(t) + 1)
  BY <1>2, <1>4 DEF At
<1>7. \/ z \in {"GMT", "UT", "Z"} /\ ReadZone(t, x) = Sets(x, p + 1, "isdst", 0)
      \/ z \in {"+", "-"} /\ ReadZone(t, x) = Sets(x, OffsetEnd(t, p + 1), "isdst", 0)
      \/ z \in nadt /\ ReadZone(t, x) = Sets(x, p + 1, "isdst", 1)
      \/ z \in nast \cup Military /\ ReadZone(t, x) = Moves(x, p + 1)
      \/ ReadZone(t, x) = Moves(x, 0)
  BY <1>1, <1>2 DEF ReadZone, Fails
<1>8. CASE z \in {"GMT", "UT", "Z"} /\ ReadZone(t, x) = Sets(x, p + 1, "isdst", 0)
  BY <1>5, <1>6, <1>8, SetsRight
<1>9. CASE z \in {"+", "-"} /\ ReadZone(t, x) = Sets(x, OffsetEnd(t, p + 1), "isdst", 0)
  <2>1. p + 1 \in 1..(Len(t) + 1)
    BY <1>6, <1>9
  <2>2. PICK e : e = OffsetEnd(t, p + 1)
    OBVIOUS
  <2>3. e \in Nat /\ (e # 0 => e \in 1..(Len(t) + 1))
    BY <2>1, <2>2, OffsetIs
  <2> QED
    BY <1>5, <1>9, <2>2, <2>3, SetsRight
<1>10. CASE z \in nadt /\ ReadZone(t, x) = Sets(x, p + 1, "isdst", 1)
  <2>1. z # "NUL"
    BY <1>10 DEF nadt
  <2> QED
    BY <1>5, <1>6, <1>10, <2>1, SetsRight
<1>11. CASE z \in nast \cup Military /\ ReadZone(t, x) = Moves(x, p + 1)
  <2>1. z # "NUL"
    BY <1>11 DEF nast, Military
  <2> QED
    BY <1>6, <1>11, <2>1, MovesRight
<1>12. CASE ReadZone(t, x) = Moves(x, 0)
  BY <1>12, MovesRight
<1> QED
  BY <1>7, <1>8, <1>9, <1>10, <1>11, <1>12

LEMMA ReadLiteralRight == ASSUME NEW t \in Texts, NEW x, Right(t, x), x.pos # 0, NEW c, c # "NUL"
                          PROVE  Right(t, ReadLiteral(t, x, c))
<1>1. x.pos \in 1..(Len(t) + 1) /\ Len(t) \in Nat
  BY DEF Right, Texts
<1>2. \/ c = Space /\ ReadLiteral(t, x, c) = Moves(x, SkipBlanks(t, x.pos))
      \/ At(t, x.pos) = c /\ ReadLiteral(t, x, c) = Moves(x, x.pos + 1)
      \/ ReadLiteral(t, x, c) = Moves(x, 0)
  BY DEF ReadLiteral, Fails
<1>3. CASE c = Space /\ ReadLiteral(t, x, c) = Moves(x, SkipBlanks(t, x.pos))
  BY <1>1, <1>3, BlanksIs, MovesRight
<1>4. CASE At(t, x.pos) = c /\ ReadLiteral(t, x, c) = Moves(x, x.pos + 1)
  <2>1. x.pos \in 1..Len(t)
    BY <1>4 DEF At
  <2> QED
    BY <1>1, <1>4, <2>1, MovesRight
<1>5. CASE ReadLiteral(t, x, c) = Moves(x, 0)
  BY <1>5, MovesRight
<1> QED
  BY <1>2, <1>3, <1>4, <1>5

\* %G: the fields are kept; it may read over the end of the text by one.
LEMMA SkipIsoYearIs == ASSUME NEW t \in Texts, NEW x, Right(t, x), x.pos # 0
                       PROVE  /\ SkipIsoYear(t, x) \in States /\ FieldsRight(SkipIsoYear(t, x).tm)
<1>1. x.pos \in 1..(Len(t) + 1) /\ Len(t) \in Nat /\ x \in States /\ FieldsRight(x.tm)
  BY DEF Right, Texts
<1>2. PICK q : q = (IF x.pos = Len(t) + 1 THEN x.pos + 1 ELSE SkipWhile(t, x.pos + 1, Digit))
  OBVIOUS
<1>3. q \in Nat
  <2>1. CASE x.pos = Len(t) + 1
    BY <1>1, <1>2, <2>1
  <2>2. CASE x.pos # Len(t) + 1
    <3>1. x.pos + 1 \in 1..(Len(t) + 1)
      BY <1>1, <2>2
    <3>2. SkipWhile(t, x.pos + 1, Digit) \in (x.pos + 1)..(Len(t) + 1)
      BY <3>1, Skips
    <3> QED
      BY <1>1, <1>2, <2>2, <3>2
  <2> QED
    BY <2>1, <2>2
<1>4. SkipIsoYear(t, x) = [pos |-> q, tm |-> x.tm, split |-> x.split]
  BY <1>2 DEF SkipIsoYear, Moves
<1> QED
  BY <1>1, <1>3, <1>4 DEF States

\* A conversion leaves what was read in range and the place in the text, but for %G.
LEMMA ConvertRight ==
    ASSUME NEW t \in Texts, NEW x, Right(t, x), x.pos # 0, NEW d \in Conversion
    PROVE  \/ Right(t, Convert(t, x, d))
           \/ /\ d[1] # "lit" /\ d[2] = "G"
              /\ Convert(t, x, d) \in States /\ FieldsRight(Convert(t, x, d).tm)
<1>1. PICK c : c = d[2]
  OBVIOUS
<1>2. c # "NUL"
  BY <1>1, WordsAssumption DEF Conversion
<1>3. PICK y : y = Convert(t, x, d)
  OBVIOUS
<1>4. \/ y = Moves(x, 0)
      \/ y = ReadLiteral(t, x, c)
      \/ c \in DOMAIN Number /\ y = ReadNumber(t, x, c)
      \/ y = ReadName(t, x, "wday", day, abday)
      \/ y = ReadName(t, x, "mon", mon, abmon)
      \/ y = ReadHour(t, x)
      \/ y = ReadHalf(t, x)
      \/ y = ReadDayFromMonday(t, x)
      \/ y = ReadCentury(t, x)
      \/ y = ReadYear(t, x)
      \/ d[1] # "lit" /\ c = "G" /\ y = SkipIsoYear(t, x)
      \/ y = ReadZoneName(t, x)
      \/ y = ReadZone(t, x)
      \/ y = Moves(x, SkipBlanks(t, x.pos))
  <2>1. CASE ~ Legal(d[1], c)
    <3>a. d[1] # "lit"
      BY <2>1 DEF Legal
    <3>1. y = Fails(x)
      BY <1>1, <1>3, <2>1, <3>a DEF Convert
    <3> QED
      BY <3>1 DEF Fails
  <2>2. CASE Legal(d[1], c) /\ d[1] = "lit"
    BY <1>1, <1>3, <2>2 DEF Convert
  <2>3. CASE Legal(d[1], c) /\ d[1] # "lit"
    <3>1. y = CASE c \in DOMAIN Number -> ReadNumber(t, x, c)
                [] c \in {"a", "A"} -> ReadName(t, x, "wday", day, abday)
                [] c \in {"b", "B", "h"} -> ReadName(t, x, "mon", mon, abmon)
                [] c \in {"I", "l"} -> ReadHour(t, x)
                [] c = "p" -> ReadHalf(t, x)
                [] c = "u" -> ReadDayFromMonday(t, x)
                [] c = "C" -> ReadCentury(t, x)
                [] c = "y" -> ReadYear(t, x)
                [] c = "G" -> SkipIsoYear(t, x)
                [] c = "Z" -> ReadZoneName(t, x)
                [] c = "z" -> ReadZone(t, x)
                [] c \in {"n", "t"} -> Moves(x, SkipBlanks(t, x.pos))
                [] OTHER -> Fails(x)
      BY <1>1, <1>3, <2>3 DEF Convert
    <3>2. Fails(x) = Moves(x, 0)
      BY DEF Fails
    <3>3. CASE c \in DOMAIN Number
      <4>1. c \in {"d", "e", "k", "H", "j", "M", "m", "S", "w", "Y", "U", "W", "V", "g"}
        BY <3>3 DEF Number
      <4> QED
        BY <3>1, <3>3, <4>1
    <3>4. CASE c \notin DOMAIN Number
      BY <2>3, <3>1, <3>2, <3>4
    <3> QED
      BY <3>3, <3>4
  <2> QED
    BY <2>1, <2>2, <2>3
<1>5. CASE y = Moves(x, 0)
  BY <1>3, <1>5, MovesRight
<1>6. CASE y = ReadLiteral(t, x, c)
  BY <1>2, <1>3, <1>6, ReadLiteralRight
<1>7. CASE c \in DOMAIN Number /\ y = ReadNumber(t, x, c)
  BY <1>3, <1>7, ReadNumberRight
<1>8. CASE y \in {ReadName(t, x, "wday", day, abday), ReadName(t, x, "mon", mon, abmon)}
  BY <1>3, <1>8, NamesRight
<1>9. CASE y \in {ReadHour(t, x), ReadHalf(t, x), ReadDayFromMonday(t, x)}
  BY <1>3, <1>9, ReadHourRight, ReadHalfRight, ReadDayRight
<1>10. CASE y \in {ReadCentury(t, x), ReadYear(t, x)}
  BY <1>3, <1>10, ReadCenturyRight, ReadYearRight
<1>11. CASE d[1] # "lit" /\ c = "G" /\ y = SkipIsoYear(t, x)
  BY <1>1, <1>3, <1>11, SkipIsoYearIs
<1>12. CASE y \in {ReadZoneName(t, x), ReadZone(t, x)}
  BY <1>3, <1>12, ReadZoneNameRight, ReadZoneRight
<1>13. CASE y = Moves(x, SkipBlanks(t, x.pos))
  <2>1. x.pos \in 1..(Len(t) + 1)
    BY DEF Right
  <2> QED
    BY <1>3, <1>13, <2>1, BlanksIs, MovesRight
<1> QED
  BY <1>4, <1>5, <1>6, <1>7, <1>8, <1>9, <1>10, <1>11, <1>12, <1>13

(***************************************************************************)
(* The formats of the code, and the texts it writes                        *)
(***************************************************************************)
LEMMA PlainsAre == \A c \in {"a", "A", "b", "d", "m", "y", "Y", "H", "I", "M", "S", "p"} : Plain(c) \in Conversion
BY WordsAssumption DEF Plain, Conversion

LEMMA LitsAre == Blank \in Conversion /\ \A c \in {Comma, Colon, Slash, Dash, "GMT"} : Lit(c) \in Conversion
BY WordsAssumption DEF Lit, Blank, Conversion

LEMMA FormatsAre == /\ Rfc1123 \in Formats /\ Rfc1036 \in Formats /\ Asctime \in Formats
                    /\ \A c \in DOMAIN Complex : Complex[c] \in Formats
<1>1. /\ Plain("a") \in Conversion /\ Plain("A") \in Conversion /\ Plain("b") \in Conversion
      /\ Plain("d") \in Conversion /\ Plain("m") \in Conversion /\ Plain("y") \in Conversion
  BY PlainsAre
<1>2. /\ Plain("Y") \in Conversion /\ Plain("H") \in Conversion /\ Plain("I") \in Conversion
      /\ Plain("M") \in Conversion /\ Plain("S") \in Conversion /\ Plain("p") \in Conversion
  BY PlainsAre
<1>3. /\ Blank \in Conversion /\ Lit(Comma) \in Conversion /\ Lit(Colon) \in Conversion
      /\ Lit(Slash) \in Conversion /\ Lit(Dash) \in Conversion /\ Lit("GMT") \in Conversion
  BY LitsAre
<1>4. Rfc1123 \in Seq(Conversion) /\ Rfc1036 \in Seq(Conversion) /\ Asctime \in Seq(Conversion)
  BY <1>1, <1>2, <1>3 DEF Rfc1123, Rfc1036, Asctime
<1>5. MDY \in Seq(Conversion) /\ HMS \in Seq(Conversion)
  BY <1>1, <1>2, <1>3 DEF MDY, HMS
<1>6. <<Plain("Y"), Lit(Dash), Plain("m"), Lit(Dash), Plain("d")>> \in Seq(Conversion)
  BY <1>1, <1>2, <1>3
<1>7. <<Plain("H"), Lit(Colon), Plain("M")>> \in Seq(Conversion)
  BY <1>2, <1>3
<1>8. <<Plain("I"), Lit(Colon), Plain("M"), Lit(Colon), Plain("S"), Blank, Plain("p")>> \in Seq(Conversion)
  BY <1>2, <1>3
<1>9. ASSUME NEW c \in DOMAIN Complex PROVE Complex[c] \in Seq(Conversion)
  <2>1. \/ Complex[c] = Asctime \/ Complex[c] = MDY \/ Complex[c] = HMS
        \/ Complex[c] = <<Plain("Y"), Lit(Dash), Plain("m"), Lit(Dash), Plain("d")>>
        \/ Complex[c] = <<Plain("H"), Lit(Colon), Plain("M")>>
        \/ Complex[c] = <<Plain("I"), Lit(Colon), Plain("M"), Lit(Colon), Plain("S"), Blank, Plain("p")>>
    BY DEF Complex
  <2> QED
    BY <1>4, <1>5, <1>6, <1>7, <1>8, <2>1
<1> QED
  BY <1>4, <1>9 DEF Formats

LEMMA DigitsWritten == \A n \in Int : Tens(n) \in Digit /\ Ones(n) \in Digit
<1> SUFFICES ASSUME NEW n \in Int PROVE Tens(n) \in Digit /\ Ones(n) \in Digit
  OBVIOUS
<1>1. ((n \div 10) % 10) + 1 \in 1..10 /\ (n % 10) + 1 \in 1..10
  OBVIOUS
<1> QED
  BY <1>1 DEF Tens, Ones, Digit

LEMMA TimeIs == ASSUME NEW tm \in Times
                PROVE  /\ tm \in [Fields -> Int]
                       /\ tm["sec"] \in 0..60 /\ tm["min"] \in 0..59 /\ tm["hour"] \in 0..23
                       /\ tm["mday"] \in 1..31 /\ tm["mon"] + 1 \in 1..12 /\ tm["wday"] + 1 \in 1..7
                       /\ tm["year"] \in Int /\ tm["year"] + 1900 \in Limit
<1>1. tm["mon"] + 1 \in 1..12 /\ tm["wday"] + 1 \in 1..7
  <2>1. PICK o : o = tm["mon"]
    OBVIOUS
  <2>2. PICK w : w = tm["wday"]
    OBVIOUS
  <2>3. o \in 0..11 /\ w \in 0..6
    BY <2>1, <2>2, TimesAssumption
  <2> QED
    BY <2>1, <2>2, <2>3
<1>2. PICK y : y = tm["year"]
  OBVIOUS
<1>3. y \in FourDigitYears
  BY <1>2, TimesAssumption
<1>4. y \in Int /\ y + 1900 \in Limit
  BY <1>3 DEF Limit, FourDigitYears
<1> QED
  BY <1>1, <1>2, <1>4, TimesAssumption

\* A time that is written is a text.
LEMMA TextIs == ASSUME NEW f \in DOMAIN Fmt, NEW tm \in Times
                PROVE  Text(f, tm) \in Texts
<1>1. PICK y : y = tm["year"] + 1900
  OBVIOUS
<1>2. PICK d : d = tm["mday"]
  OBVIOUS
<1>3. PICK h : h = tm["hour"]
  OBVIOUS
<1>4. PICK m : m = tm["min"]
  OBVIOUS
<1>5. PICK s : s = tm["sec"]
  OBVIOUS
<1>6. PICK w : w = tm["wday"] + 1
  OBVIOUS
<1>7. PICK o : o = tm["mon"] + 1
  OBVIOUS
<1>8. /\ y \in Int /\ d \in Int /\ h \in Int /\ m \in Int /\ s \in Int /\ y \div 100 \in Int
      /\ w \in 1..7 /\ o \in 1..12
  <2>1. y \in Int /\ y \div 100 \in Int
    <3>1. tm["year"] \in Int
      BY TimeIs
    <3> QED
      BY <1>1, <3>1
  <2>2. d \in Int /\ h \in Int /\ m \in Int /\ s \in Int
    BY <1>2, <1>3, <1>4, <1>5, TimeIs
  <2>3. w \in 1..7 /\ o \in 1..12
    BY <1>6, <1>7, TimeIs
  <2> QED
    BY <2>1, <2>2, <2>3
<1>9. \A n \in Int : Tens(n) \in Words /\ Ones(n) \in Words
  BY DigitsWritten, WordsAssumption
<1>10. /\ Tens(y \div 100) \in Words /\ Ones(y \div 100) \in Words /\ Tens(y) \in Words /\ Ones(y) \in Words
       /\ Tens(d) \in Words /\ Ones(d) \in Words /\ Tens(h) \in Words /\ Ones(h) \in Words
       /\ Tens(m) \in Words /\ Ones(m) \in Words /\ Tens(s) \in Words /\ Ones(s) \in Words
  BY <1>8, <1>9
<1>11. day[w] \in Words /\ abday[w] \in Words /\ abmon[o] \in Words
  BY <1>8, WordsAssumption
<1>12. Space \in Words /\ Comma \in Words /\ Colon \in Words /\ Dash \in Words /\ "GMT" \in Words
  BY WordsAssumption
<1>13. \/ Text(f, tm) = <<abday[w], Comma, Space, Tens(d), Ones(d), Space, abmon[o], Space,
                          Tens(y \div 100), Ones(y \div 100), Tens(y), Ones(y), Space,
                          Tens(h), Ones(h), Colon, Tens(m), Ones(m), Colon, Tens(s), Ones(s), Space, "GMT">>
       \/ Text(f, tm) = <<day[w], Comma, Space, Tens(d), Ones(d), Dash, abmon[o], Dash, Tens(y), Ones(y), Space,
                          Tens(h), Ones(h), Colon, Tens(m), Ones(m), Colon, Tens(s), Ones(s), Space, "GMT">>
       \/ Text(f, tm) = <<abday[w], Space, abmon[o], Space, IF d < 10 THEN Space ELSE Tens(d), Ones(d), Space,
                          Tens(h), Ones(h), Colon, Tens(m), Ones(m), Colon, Tens(s), Ones(s), Space,
                          Tens(y \div 100), Ones(y \div 100), Tens(y), Ones(y)>>
  BY <1>1, <1>2, <1>3, <1>4, <1>5, <1>6, <1>7 DEF Text, Fmt
<1>14. PICK e : e = IF d < 10 THEN Space ELSE Tens(d)
  OBVIOUS
<1>15. e \in Words
  BY <1>10, <1>12, <1>14
<1>16. Text(f, tm) \in Seq(Words)
  <2>1. CASE Text(f, tm) = <<abday[w], Comma, Space, Tens(d), Ones(d), Space, abmon[o], Space,
                             Tens(y \div 100), Ones(y \div 100), Tens(y), Ones(y), Space,
                             Tens(h), Ones(h), Colon, Tens(m), Ones(m), Colon, Tens(s), Ones(s), Space, "GMT">>
    BY <1>10, <1>11, <1>12, <2>1
  <2>2. CASE Text(f, tm) = <<day[w], Comma, Space, Tens(d), Ones(d), Dash, abmon[o], Dash,
                             Tens(y), Ones(y), Space,
                             Tens(h), Ones(h), Colon, Tens(m), Ones(m), Colon, Tens(s), Ones(s), Space, "GMT">>
    BY <1>10, <1>11, <1>12, <2>2
  <2>3. CASE Text(f, tm) = <<abday[w], Space, abmon[o], Space, e, Ones(d), Space,
                             Tens(h), Ones(h), Colon, Tens(m), Ones(m), Colon, Tens(s), Ones(s), Space,
                             Tens(y \div 100), Ones(y \div 100), Tens(y), Ones(y)>>
    BY <1>10, <1>11, <1>12, <1>15, <2>3
  <2> QED
    BY <1>13, <1>14, <2>1, <2>2, <2>3
<1> QED
  BY <1>16 DEF Texts

(***************************************************************************)
(* The invariant: the types, and the ranges between two conversions        *)
(***************************************************************************)
Callers == [fmt : Formats, next : Nat, split : BOOLEAN]
TypesRight == /\ text \in Texts /\ fmt \in Formats /\ next \in Nat \ {0}
              /\ st \in States /\ caller \in Callers
\* Between two calls xstrptime is at the beginning.
AtRest == pc \in {"idle", "answer"} => st = Start(1, NoTime)
AnswerRight == pc = "answer" /\ ans.pos # 0 => FieldsRight(ans.tm) /\ ans.pos <= Len(text) + 1
RangeInv == /\ TypesRight /\ AtRest /\ AnswerRight
            /\ pc # "wild" => Right(text, st)
            /\ pc = "wild" => HasG(fmt)

LEMMA StartRight == ASSUME NEW t \in Texts
                    PROVE  Right(t, Start(1, NoTime)) /\ Start(1, NoTime) \in States
<1>1. NoTime \in [Fields -> Int] /\ \A f \in Fields : NoTime[f] = 0
  BY DEF NoTime
<1>2. \A f \in Fields : 0 \in Within(f)
  <2>1. 0 \in Within("year")
    BY YearIs DEF YearFits
  <2> QED
    BY <2>1, WithinIs DEF Fields
<1>3. FieldsRight(NoTime)
  BY <1>1, <1>2 DEF FieldsRight
<1>4. Len(t) \in Nat
  BY DEF Texts
<1> QED
  BY <1>1, <1>3, <1>4 DEF Start, Right, States

LEMMA EmptyIs == <<>> \in Texts /\ <<>> \in Formats
BY DEF Texts, Formats

LEMMA CallersAre == /\ NoCaller \in Callers
                    /\ \A f \in Formats, n \in Nat, b \in BOOLEAN : [fmt |-> f, next |-> n, split |-> b] \in Callers
BY EmptyIs DEF NoCaller, Callers

LEMMA InitRange == Init => RangeInv
<1> SUFFICES ASSUME Init PROVE RangeInv
  OBVIOUS
<1>1. TypesRight /\ Right(text, st)
  BY StartRight, EmptyIs, CallersAre DEF Init, TypesRight
<1> QED
  BY <1>1 DEF Init, RangeInv, AtRest, AnswerRight

\* A call begins in range.
LEMMA BeginsRight == ASSUME NEW f \in Formats, Begins(f), text' \in Texts
                     PROVE  TypesRight' /\ Right(text', st') /\ st' = Start(1, NoTime)
<1>1. fmt' = f /\ next' = 1 /\ st' = Start(1, NoTime) /\ caller' = NoCaller
  BY DEF Begins
<1>2. Right(text', st') /\ st' \in States
  BY <1>1, StartRight
<1> QED
  BY <1>1, <1>2, CallersAre DEF TypesRight

LEMMA FormatRange == ASSUME RangeInv, NEW f \in DOMAIN Fmt, NEW tm \in Times, Format(f, tm)
                     PROVE  RangeInv'
<1>1. text' = Text(f, tm) /\ pc = "idle" /\ UNCHANGED <<pc, scan>> /\ UNCHANGED <<fmt, next, st, caller>>
  BY DEF Format, scan
<1>2. text' \in Texts
  BY <1>1, TextIs
<1>3. Right(text', st')
  BY <1>1, <1>2, StartRight DEF RangeInv, AtRest
<1> QED
  BY <1>1, <1>2, <1>3 DEF RangeInv, TypesRight, AtRest, AnswerRight

LEMMA ScanRange == ASSUME RangeInv, Scan PROVE RangeInv'
<1>1. PICK c \in Cases : text' = c.text /\ Begins(c.fmt)
  BY DEF Scan
<1>2. c.fmt \in Formats /\ text' \in Texts
  BY <1>1, CasesAssumption DEF Formats, Texts
<1>3. TypesRight' /\ Right(text', st') /\ pc' = "scan"
  BY <1>1, <1>2, BeginsRight DEF Scan
<1> QED
  BY <1>3 DEF RangeInv, AtRest, AnswerRight

LEMMA ConvertRange == ASSUME RangeInv, ConvertNext PROVE RangeInv'
<1>1. PICK d : d = fmt[next]
  OBVIOUS
<1>2. /\ Scanning /\ st.pos # 0 /\ next <= Len(fmt) /\ ~ Calls(d)
      /\ st' = Convert(text, st, d) /\ next' = next + 1
      /\ pc' = IF st'.pos > Len(text) + 1 THEN "wild" ELSE pc
      /\ text' = text /\ fmt' = fmt /\ caller' = caller /\ ans' = ans
  BY <1>1 DEF ConvertNext, More
<1>3. pc \in {"rfc1123", "rfc1036", "asctime", "scan"}
  BY <1>2 DEF Scanning, Fmt
<1>4. /\ text \in Texts /\ fmt \in Formats /\ next \in Nat \ {0} /\ caller \in Callers
      /\ Right(text, st) /\ Len(text) \in Nat
  BY <1>3 DEF RangeInv, TypesRight, Texts
<1>5. next \in 1..Len(fmt) /\ d \in Conversion
  BY <1>1, <1>2, <1>4 DEF Formats
<1>6. \/ Right(text, st')
      \/ d[1] # "lit" /\ d[2] = "G" /\ st' \in States /\ FieldsRight(st'.tm)
  BY <1>2, <1>4, <1>5, ConvertRight
<1>7. st' \in States
  BY <1>6 DEF Right
<1>8. TypesRight'
  BY <1>2, <1>4, <1>7 DEF TypesRight
<1>9. CASE st'.pos > Len(text) + 1
  <2>1. pc' = "wild"
    BY <1>2, <1>9
  <2>2. ~ Right(text, st')
    BY <1>4, <1>9 DEF Right
  <2>3. HasG(fmt)
    BY <1>1, <1>4, <1>5, <1>6, <2>2 DEF HasG, Formats
  <2>4. HasG(fmt')
    BY <1>2, <2>3
  <2> QED
    BY <1>8, <2>1, <2>4 DEF RangeInv, AtRest, AnswerRight
<1>10. CASE ~ (st'.pos > Len(text) + 1)
  <2>1. pc' = pc
    BY <1>2, <1>10
  <2>2. Right(text, st')
    <3>1. st'.pos # 0 => st'.pos \in 1..(Len(text) + 1)
      BY <1>4, <1>7, <1>10 DEF States
    <3> QED
      BY <1>6, <1>7, <3>1 DEF Right
  <2>3. Right(text', st')
    BY <1>2, <2>2
  <2> QED
    BY <1>3, <1>8, <2>1, <2>3 DEF RangeInv, AtRest, AnswerRight
<1> QED
  BY <1>9, <1>10

LEMMA RecurseRange == ASSUME RangeInv, Recurse PROVE RangeInv'
<1>1. /\ Scanning /\ st.pos # 0 /\ next <= Len(fmt) /\ Calls(fmt[next])
      /\ caller' = [fmt |-> fmt, next |-> next + 1, split |-> st.split]
      /\ fmt' = Complex[fmt[next][2]] /\ next' = 1
      /\ st' = [pos |-> st.pos, tm |-> st.tm, split |-> FALSE]
      /\ pc' = pc /\ text' = text
  BY DEF Recurse, More, Start
<1>2. pc \in {"rfc1123", "rfc1036", "asctime", "scan"}
  BY <1>1 DEF Scanning, Fmt
<1>3. text \in Texts /\ fmt \in Formats /\ next \in Nat \ {0} /\ Right(text, st)
  BY <1>2 DEF RangeInv, TypesRight
<1>4. fmt' \in Formats
  BY <1>1, FormatsAre DEF Calls
<1>5. caller' \in Callers
  <2>1. st.split \in BOOLEAN /\ next + 1 \in Nat
    BY <1>3 DEF Right, States
  <2> QED
    BY <1>1, <1>3, <2>1, CallersAre
<1>6. Right(text, st') /\ st' \in States
  BY <1>1, <1>3 DEF Right, States
<1>7. TypesRight'
  BY <1>1, <1>3, <1>4, <1>5, <1>6 DEF TypesRight
<1>8. Right(text', st')
  BY <1>1, <1>6
<1> QED
  BY <1>1, <1>2, <1>7, <1>8 DEF RangeInv, AtRest, AnswerRight

LEMMA RecursedRange == ASSUME RangeInv, Recursed PROVE RangeInv'
<1>1. /\ Scanning /\ caller.next # 0 /\ fmt' = caller.fmt /\ next' = caller.next
      /\ st' = [pos |-> st.pos, tm |-> st.tm, split |-> caller.split]
      /\ caller' = NoCaller /\ pc' = pc /\ text' = text
  BY DEF Recursed
<1>2. pc \in {"rfc1123", "rfc1036", "asctime", "scan"}
  BY <1>1 DEF Scanning, Fmt
<1>3. text \in Texts /\ caller \in Callers /\ Right(text, st)
  BY <1>2 DEF RangeInv, TypesRight
<1>4. Right(text, st') /\ st' \in States
  BY <1>1, <1>3 DEF Right, States, Callers
<1>5. TypesRight'
  BY <1>1, <1>3, <1>4, CallersAre DEF TypesRight, Callers
<1>6. Right(text', st')
  BY <1>1, <1>4
<1> QED
  BY <1>1, <1>2, <1>5, <1>6 DEF RangeInv, AtRest, AnswerRight

LEMMA ScannedRange == ASSUME RangeInv, Scanned PROVE RangeInv'
<1>1. /\ pc = "scan" /\ ans' = [fmt |-> fmt, pos |-> st.pos, tm |-> st.tm, zone |-> None]
      /\ pc' = "answer" /\ Begins(<<>>) /\ text' = text
  BY DEF Scanned
<1>2. text \in Texts /\ Right(text, st) /\ Len(text) \in Nat
  BY <1>1 DEF RangeInv, TypesRight, Texts
<1>3. TypesRight' /\ Right(text', st') /\ st' = Start(1, NoTime)
  BY <1>1, <1>2, EmptyIs, BeginsRight
<1>4. ans'.pos # 0 => FieldsRight(ans'.tm) /\ ans'.pos <= Len(text) + 1
  BY <1>1, <1>2 DEF Right
<1> QED
  BY <1>1, <1>3, <1>4 DEF RangeInv, AtRest, AnswerRight

LEMMA ParseRange == ASSUME RangeInv, Parse PROVE RangeInv'
<1>1. pc' = "rfc1123" /\ Begins(Rfc1123) /\ text' = text
  BY DEF Parse
<1>2. text' \in Texts
  BY <1>1 DEF RangeInv, TypesRight
<1>3. TypesRight' /\ Right(text', st')
  BY <1>1, <1>2, FormatsAre, BeginsRight
<1> QED
  BY <1>1, <1>3 DEF RangeInv, AtRest, AnswerRight

LEMMA ThenRange == ASSUME RangeInv, NEW f, NEW g, Then(f, g), f \in DOMAIN Fmt, g \in DOMAIN Fmt \cup {"answer"}
                   PROVE  RangeInv'
<1>1. pc \in {"rfc1123", "rfc1036", "asctime"} /\ text' = text
  BY DEF Then, Fmt
<1>2. text \in Texts /\ Right(text, st) /\ Len(text) \in Nat
  BY <1>1 DEF RangeInv, TypesRight, Texts
<1>3. CASE Takes
  <2>1. PICK dst \in {-1, 0, 1} : ans' = [fmt |-> fmt, pos |-> st.pos, zone |-> tz,
                                          tm |-> Put(st.tm, "isdst", dst)]
    BY <1>3 DEF Then
  <2>2. pc' = "answer" /\ Begins(<<>>)
    BY <1>3 DEF Then
  <2>3. TypesRight' /\ Right(text', st') /\ st' = Start(1, NoTime)
    BY <1>1, <1>2, <2>2, EmptyIs, BeginsRight
  <2>4. st.pos = Len(text) + 1 /\ st.pos # 0
    BY <1>2, <1>3 DEF Takes
  <2>5. FieldsRight(st.tm)
    BY <1>2, <2>4 DEF Right
  <2>6. PICK tm : tm = Put(st.tm, "isdst", dst)
    OBVIOUS
  <2>7. dst \in Int /\ dst \in Within("isdst") /\ "isdst" \in Fields
    BY WithinIs
  <2>a. PICK tm0 : tm0 = st.tm
    OBVIOUS
  <2>b. tm0 \in [Fields -> Int] /\ \A x \in Fields : tm0[x] \in Within(x)
    BY <2>5, <2>a DEF FieldsRight
  <2>c. /\ tm \in [Fields -> Int] /\ tm["isdst"] = dst
        /\ \A x \in Fields \ {"isdst"} : tm[x] = tm0[x]
    BY <2>6, <2>7, <2>a, <2>b, PutIs
  <2>8. FieldsRight(tm)
    BY <2>7, <2>b, <2>c DEF FieldsRight
  <2>9. FieldsRight(ans'.tm) /\ ans'.pos <= Len(text') + 1
    BY <1>1, <1>2, <2>1, <2>4, <2>6, <2>8
  <2> QED
    BY <2>2, <2>3, <2>9 DEF RangeInv, AtRest, AnswerRight
<1>4. CASE ~ Takes
  <2>1. /\ pc' = g /\ ans' = NoAnswer /\ Begins(IF g = "answer" THEN <<>> ELSE Fmt[g])
    BY <1>4 DEF Then
  <2>2. (IF g = "answer" THEN <<>> ELSE Fmt[g]) \in Formats
    BY FormatsAre, EmptyIs DEF Fmt
  <2>3. TypesRight' /\ Right(text', st') /\ st' = Start(1, NoTime)
    BY <1>1, <1>2, <2>1, <2>2, BeginsRight
  <2>4. ans'.pos = 0
    BY <2>1 DEF NoAnswer
  <2>5. pc' # "wild"
    BY <2>1 DEF Fmt
  <2> QED
    BY <2>3, <2>4, <2>5 DEF RangeInv, AtRest, AnswerRight
<1> QED
  BY <1>3, <1>4

LEMMA ReturnRange == ASSUME RangeInv, Return PROVE RangeInv'
<1>1. pc = "answer" /\ pc' = "idle" /\ text' = <<>> /\ UNCHANGED <<fmt, next, st, caller>>
  BY DEF Return, scan
<1>2. text' \in Texts /\ Right(text', st')
  BY <1>1, EmptyIs, StartRight DEF RangeInv, AtRest
<1> QED
  BY <1>1, <1>2 DEF RangeInv, TypesRight, AtRest, AnswerRight

LEMMA NextRange == RangeInv /\ [Next]_vars => RangeInv'
<1> SUFFICES ASSUME RangeInv, [Next]_vars PROVE RangeInv'
  OBVIOUS
<1>1. ASSUME NEW f \in DOMAIN Fmt, NEW tm \in Times, Format(f, tm) PROVE RangeInv'
  BY <1>1, FormatRange
<1>2. ASSUME NEW z \in Zones \cup {None}, SetZone(z) PROVE RangeInv'
  BY <1>2 DEF SetZone, scan, RangeInv, TypesRight, AtRest, AnswerRight
<1>3. CASE Try
  BY <1>3, ThenRange DEF Try, Fmt
<1>4. CASE UNCHANGED vars
  BY <1>4 DEF vars, scan, RangeInv, TypesRight, AtRest, AnswerRight
<1> QED
  BY <1>1, <1>2, <1>3, <1>4, ScanRange, ConvertRange, RecurseRange, RecursedRange, ScannedRange,
     ParseRange, ReturnRange DEF Next

LEMMA RangeHolds == Spec => []RangeInv
<1>1. Init => RangeInv
  BY InitRange
<1>2. RangeInv /\ [Next]_vars => RangeInv'
  BY NextRange
<1> QED
  BY <1>1, <1>2, PTL DEF Spec

\* What xstrptime accepts leaves every field of struct tm in its range, and it
\* stops in the text: only a %G runs over its end.  For every format and text.
THEOREM FieldsInRange == Spec => []InRange
<1>1. RangeInv => InRange
  BY DEF RangeInv, AnswerRight, FieldsRight, InRange
<1> QED
  BY <1>1, RangeHolds, PTL

(***************************************************************************)
(* A date that was written is read back: what a conversion does of a text  *)
(* that has at its place what the conversion is for                        *)
(***************************************************************************)
LEMMA OnesAt == ASSUME NEW t \in Texts, NEW p \in 1..Len(t), NEW n \in Int, t[p] = Ones(n)
                PROVE  IsDigit(t, p) /\ DigitAt(t, p) = n % 10 /\ n % 10 \in 0..9
<1>1. PICK m : m = n % 10
  OBVIOUS
<1>2. m \in 0..9 /\ m + 1 \in 1..10
  BY <1>1
<1>3. t[p] = Digits[m + 1]
  BY <1>1 DEF Ones
<1>4. DigitAt(t, p) = m
  BY <1>2, <1>3, DigitFound
<1>5. p \in DOMAIN t
  BY DEF Texts
<1>6. IsDigit(t, p)
  BY <1>2, <1>3, <1>5 DEF IsDigit, At, Digit
<1> QED
  BY <1>1, <1>2, <1>4, <1>6

LEMMA TensAt == ASSUME NEW t \in Texts, NEW p \in 1..Len(t), NEW n \in Int, t[p] = Tens(n)
                PROVE  /\ IsDigit(t, p) /\ DigitAt(t, p) = (n \div 10) % 10
                       /\ (n \div 10) % 10 \in 0..9
<1>1. t[p] = Ones(n \div 10) /\ n \div 10 \in Int
  BY DEF Tens, Ones
<1> QED
  BY <1>1, OnesAt

\* The number of digits that are read is the only one that fits.
LEMMA ReadsOnly == ASSUME NEW t \in Texts, NEW p \in Nat, NEW hi \in Limit, IsDigit(t, p), NEW k \in 1..4,
                          ~ ReadsMore(t, p, hi, k), \A j \in 1..(k - 1) : ReadsMore(t, p, hi, j)
                   PROVE  DigitsRead(t, p, hi) = k
<1>1. PICK n : n = DigitsRead(t, p, hi)
  OBVIOUS
<1>2. Reads(t, p, hi, n)
  BY <1>1, DigitsAre
<1>3. n \in 1..4 /\ ~ ReadsMore(t, p, hi, n) /\ \A j \in 1..(n - 1) : ReadsMore(t, p, hi, j)
  BY <1>2 DEF Reads
<1>4. ~ (n < k) /\ ~ (k < n)
  BY <1>3
<1> QED
  BY <1>1, <1>3, <1>4

\* Two digits of a number that is in the range.
TwoAt(t, p, n) == /\ t \in Texts /\ p \in 1..Len(t) /\ p + 1 \in 1..Len(t)
                  /\ t[p] = Tens(n) /\ t[p + 1] = Ones(n)
TwoFit(n, lo, hi) == n \in 0..99 /\ n \in lo..hi /\ lo \in Limit /\ hi \in 10..99
LEMMA ReadsTwo == ASSUME NEW t, NEW p, NEW n, NEW lo, NEW hi, TwoAt(t, p, n), TwoFit(n, lo, hi)
                  PROVE  conv_num(t, p, lo, hi) = [pos |-> p + 2, val |-> n]
<1> USE DEF TwoAt, TwoFit
<1>1. PICK a : a = (n \div 10) % 10
  OBVIOUS
<1>2. PICK b : b = n % 10
  OBVIOUS
<1>3. a \in 0..9 /\ b \in 0..9 /\ n = 10 * a + b
  BY <1>1, <1>2
<1>4. /\ IsDigit(t, p) /\ DigitAt(t, p) = a
      /\ IsDigit(t, p + 1) /\ DigitAt(t, p + 1) = b
  BY <1>1, <1>2, TensAt, OnesAt
<1>5. Value(t, p, 1) = a /\ Value(t, p, 2) = n
  BY <1>3, <1>4 DEF Value
<1>6. Power[1] = 10 /\ Power[2] = 100
  BY DEF Power
<1>7. ReadsMore(t, p, hi, 1)
  BY <1>3, <1>4, <1>5, <1>6 DEF ReadsMore
<1>8. ~ ReadsMore(t, p, hi, 2)
  BY <1>6 DEF ReadsMore
<1>9. p \in Nat /\ hi \in Limit /\ \A j \in 1..(2 - 1) : ReadsMore(t, p, hi, j)
  BY <1>7 DEF Limit
<1>10. DigitsRead(t, p, hi) = 2
  BY <1>4, <1>8, <1>9, ReadsOnly
<1> QED
  BY <1>4, <1>5, <1>10 DEF conv_num

\* One digit that another sign follows.
OneAt(t, p, n) == t \in Texts /\ p \in 1..Len(t) /\ ~ IsDigit(t, p + 1) /\ n \in 0..9 /\ t[p] = Ones(n)
OneFits(n, lo, hi) == n \in lo..hi /\ lo \in Limit /\ hi \in Limit
LEMMA ReadsOne == ASSUME NEW t, NEW p, NEW n, NEW lo, NEW hi, OneAt(t, p, n), OneFits(n, lo, hi)
                  PROVE  conv_num(t, p, lo, hi) = [pos |-> p + 1, val |-> n]
<1> USE DEF OneAt, OneFits
<1>1. n % 10 = n
  OBVIOUS
<1>2. IsDigit(t, p) /\ DigitAt(t, p) = n
  BY <1>1, OnesAt
<1>3. Value(t, p, 1) = n
  BY <1>2 DEF Value
<1>4. ~ ReadsMore(t, p, hi, 1)
  BY DEF ReadsMore
<1>5. p \in Nat /\ \A j \in 1..(1 - 1) : ReadsMore(t, p, hi, j)
  OBVIOUS
<1>6. DigitsRead(t, p, hi) = 1
  BY <1>2, <1>4, <1>5, ReadsOnly
<1> QED
  BY <1>2, <1>3, <1>6 DEF conv_num

LEMMA FourDigits == ASSUME NEW n \in Nat, n <= 9999
                    PROVE  n = 10 * (10 * (10 * (((n \div 100) \div 10) % 10) + ((n \div 100) % 10))
                                     + ((n \div 10) % 10)) + (n % 10)
<1>1. PICK q : q = n \div 10
  OBVIOUS
<1>2. PICK d : d = n % 10
  OBVIOUS
<1>3. n = 10 * q + d /\ d \in 0..9 /\ q \in 0..999
  BY <1>1, <1>2
<1>4. PICK r : r = q \div 10
  OBVIOUS
<1>5. PICK c : c = q % 10
  OBVIOUS
<1>6. q = 10 * r + c /\ c \in 0..9 /\ r \in 0..99
  BY <1>3, <1>4, <1>5
<1>7. PICK a : a = r \div 10
  OBVIOUS
<1>8. PICK b : b = r % 10
  OBVIOUS
<1>9. r = 10 * a + b /\ b \in 0..9 /\ a \in 0..9 /\ a % 10 = a
  BY <1>6, <1>7, <1>8
<1>10. n \div 100 = r
  BY <1>3, <1>6
<1>11. n = 10 * (10 * (10 * a + b) + c) + d
  BY <1>3, <1>6, <1>9
<1>12. ((n \div 100) \div 10) % 10 = a
  BY <1>7, <1>9, <1>10
<1>13. (n \div 100) % 10 = b /\ (n \div 10) % 10 = c /\ n % 10 = d
  BY <1>1, <1>2, <1>5, <1>8, <1>10
<1> QED
  BY <1>11, <1>12, <1>13

\* The four digits of a year.
FourAt(t, p, n) == /\ t \in Texts /\ p \in 1..Len(t) /\ p + 3 \in 1..Len(t) /\ n \in Limit
                   /\ t[p] = Tens(n \div 100) /\ t[p + 1] = Ones(n \div 100)
                   /\ t[p + 2] = Tens(n) /\ t[p + 3] = Ones(n)
LEMMA ReadsFour == ASSUME NEW t, NEW p, NEW n, FourAt(t, p, n)
                   PROVE  conv_num(t, p, 0, 9999) = [pos |-> p + 4, val |-> n]
<1> USE DEF FourAt
<1>1. n \in Nat /\ n <= 9999 /\ n \div 100 \in Int /\ n \in Int
  BY DEF Limit
<1>2. p + 1 \in 1..Len(t) /\ p + 2 \in 1..Len(t) /\ p + 3 \in 1..Len(t) /\ p \in Nat
  BY DEF Texts
<1>3. PICK a : a = ((n \div 100) \div 10) % 10
  OBVIOUS
<1>4. PICK b : b = (n \div 100) % 10
  OBVIOUS
<1>5. PICK c : c = (n \div 10) % 10
  OBVIOUS
<1>6. PICK d : d = n % 10
  OBVIOUS
<1>7. n = 10 * (10 * (10 * a + b) + c) + d
  BY <1>1, <1>3, <1>4, <1>5, <1>6, FourDigits
<1>8. IsDigit(t, p) /\ DigitAt(t, p) = a /\ a \in 0..9
  BY <1>1, <1>3, TensAt
<1>9. IsDigit(t, p + 1) /\ DigitAt(t, p + 1) = b /\ b \in 0..9
  BY <1>1, <1>2, <1>4, OnesAt
<1>10. IsDigit(t, p + 2) /\ DigitAt(t, p + 2) = c /\ c \in 0..9
  BY <1>1, <1>2, <1>5, TensAt
<1>11. IsDigit(t, p + 3) /\ DigitAt(t, p + 3) = d /\ d \in 0..9
  <2>1. PICK q : q = p + 3
    OBVIOUS
  <2>2. q \in 1..Len(t) /\ t[q] = Ones(n) /\ n \in Int
    BY <1>1, <1>2, <2>1
  <2>3. IsDigit(t, q) /\ DigitAt(t, q) = n % 10 /\ n % 10 \in 0..9
    BY <2>2, OnesAt
  <2> QED
    BY <1>6, <2>1, <2>3
<1>12. /\ Value(t, p, 1) = a /\ Value(t, p, 2) = 10 * a + b
       /\ Value(t, p, 3) = 10 * (10 * a + b) + c /\ Value(t, p, 4) = n
  BY <1>7, <1>8, <1>9, <1>10, <1>11 DEF Value
<1>13. Power[1] = 10 /\ Power[2] = 100 /\ Power[3] = 1000 /\ Power[4] = 10000
  BY DEF Power
<1>a. PICK hi : hi = 9999
  OBVIOUS
<1>b. /\ hi \in Nat /\ a * 10 <= hi /\ (10 * a + b) * 10 <= hi /\ (10 * (10 * a + b) + c) * 10 <= hi
      /\ hi >= 10 /\ hi >= 100 /\ hi >= 1000
  BY <1>8, <1>9, <1>10, <1>a
<1>14. ReadsMore(t, p, hi, 1)
  BY <1>9, <1>12, <1>13, <1>b DEF ReadsMore
<1>15. ReadsMore(t, p, hi, 2)
  BY <1>10, <1>12, <1>13, <1>b DEF ReadsMore
<1>16. ReadsMore(t, p, hi, 3)
  BY <1>11, <1>12, <1>13, <1>b DEF ReadsMore
<1>17. ~ ReadsMore(t, p, hi, 4)
  BY <1>13, <1>a DEF ReadsMore
<1>18. hi \in Limit
  BY <1>a DEF Limit
<1>19. \A j \in 1..(4 - 1) : ReadsMore(t, p, hi, j)
  <2> SUFFICES ASSUME NEW j \in 1..(4 - 1) PROVE ReadsMore(t, p, hi, j)
    OBVIOUS
  <2>1. j = 1 \/ j = 2 \/ j = 3
    OBVIOUS
  <2> QED
    BY <1>14, <1>15, <1>16, <2>1
<1>20. DigitsRead(t, p, hi) = 4
  BY <1>2, <1>8, <1>17, <1>18, <1>19, ReadsOnly
<1>21. n \in 0..hi
  BY <1>a DEF Limit
<1>22. conv_num(t, p, 0, hi) = [pos |-> p + 4, val |-> n]
  BY <1>8, <1>12, <1>20, <1>21 DEF conv_num
<1> QED
  BY <1>22, <1>a

(***************************************************************************)
(* The conversions of the three formats at such a place                    *)
(***************************************************************************)
\* What the code does for each.
LEMMA ConvertIs == ASSUME NEW t, NEW x
                   PROVE  /\ \A c \in {"a", "A"} : Convert(t, x, Plain(c)) = ReadName(t, x, "wday", day, abday)
                          /\ Convert(t, x, Plain("b")) = ReadName(t, x, "mon", mon, abmon)
                          /\ Convert(t, x, Plain("y")) = ReadYear(t, x)
                          /\ \A c \in {"d", "H", "M", "S", "Y"} : Convert(t, x, Plain(c)) = ReadNumber(t, x, c)
                          /\ \A c : Convert(t, x, Lit(c)) = ReadLiteral(t, x, c)
<1>1. \A c : Legal("", c) /\ Legal("lit", c)
  BY DEF Legal
<1>2. DOMAIN Number = {"d", "e", "k", "H", "j", "M", "m", "S", "w", "Y", "U", "W", "V", "g"}
  BY DEF Number
<1>3. ASSUME NEW c \in {"a", "A"} PROVE Convert(t, x, Plain(c)) = ReadName(t, x, "wday", day, abday)
  BY <1>1, <1>2 DEF Convert, Plain
<1>4. Convert(t, x, Plain("b")) = ReadName(t, x, "mon", mon, abmon)
  BY <1>1, <1>2 DEF Convert, Plain
<1>5. Convert(t, x, Plain("y")) = ReadYear(t, x)
  BY <1>1, <1>2 DEF Convert, Plain
<1>6. ASSUME NEW c \in {"d", "H", "M", "S", "Y"} PROVE Convert(t, x, Plain(c)) = ReadNumber(t, x, c)
  BY <1>1, <1>2 DEF Convert, Plain
<1>7. ASSUME NEW c PROVE Convert(t, x, Lit(c)) = ReadLiteral(t, x, c)
  BY <1>1 DEF Convert, Lit
<1> QED
  BY <1>3, <1>4, <1>5, <1>6, <1>7

LEMMA LiteralTaken == ASSUME NEW t \in Texts, NEW x, x.pos \in 1..Len(t), NEW c, c # Space, t[x.pos] = c
                      PROVE  Convert(t, x, Lit(c)) = Moves(x, x.pos + 1)
<1>1. At(t, x.pos) = c
  BY DEF At, Texts
<1> QED
  BY <1>1, ConvertIs DEF ReadLiteral

LEMMA LiteralFails == ASSUME NEW t \in Texts, NEW x, x.pos \in 1..Len(t), NEW c, c # Space, t[x.pos] # c
                      PROVE  Convert(t, x, Lit(c)) = Moves(x, 0)
<1>1. At(t, x.pos) # c
  BY DEF At, Texts
<1> QED
  BY <1>1, ConvertIs DEF ReadLiteral, Fails

\* All blanks from a place to the next sign, none or several, are taken.
LEMMA BlankTaken == ASSUME NEW t \in Texts, NEW x, x.pos \in 1..Len(t), NEW q \in x.pos..Len(t),
                           t[q] # Space, \A r \in x.pos..(q - 1) : t[r] = Space
                    PROVE  Convert(t, x, Blank) = Moves(x, q)
<1>1. Len(t) \in Nat
  BY DEF Texts
<1>2. PICK p : p = x.pos
  OBVIOUS
<1>3. p \in 1..(Len(t) + 1) /\ q \in p..(Len(t) + 1)
  BY <1>1, <1>2
<1>4. t[q] \notin {Space} /\ \A r \in p..(q - 1) : t[r] \in {Space}
  BY <1>2
<1>5. SkipWhile(t, p, {Space}) = q
  BY <1>3, <1>4, Skips
<1> QED
  BY <1>2, <1>5, ConvertIs DEF Blank, ReadLiteral, SkipBlanks

LEMMA DayTaken == ASSUME NEW t \in Texts, NEW x, x.pos \in 1..Len(t), NEW i \in 1..7,
                         t[x.pos] \in {day[i], abday[i]}, NEW c \in {"a", "A"}
                  PROVE  Convert(t, x, Plain(c)) = Sets(x, x.pos + 1, "wday", i - 1)
<1>1. PICK z : z = At(t, x.pos)
  OBVIOUS
<1>2. z \in {day[i], abday[i]}
  BY <1>1 DEF At, Texts
<1>3. \A j \in 1..7 : z \in {day[j], abday[j]} => j = i
  BY <1>2 DEF day, abday
<1>4. DOMAIN day = 1..7
  BY DEF day
<1>5. i \in Named(z, day, abday) /\ \A j \in Named(z, day, abday) : j = i
  BY <1>2, <1>3, <1>4 DEF Named
<1>6. NameNo(z, day, abday) = i
  BY <1>4, <1>5 DEF NameNo
<1>7. find_string(t, x.pos, day, abday) = [pos |-> x.pos + 1, val |-> i - 1]
  BY <1>1, <1>5, <1>6 DEF find_string
<1> QED
  BY <1>7, ConvertIs DEF ReadName

\* No two months have the same name, short or long.
LEMMA MonthsDiffer == \A i, j \in 1..12 : abmon[i] \in {mon[j], abmon[j]} => i = j
<1>1. \A i, j \in 1..12 : abmon[i] = abmon[j] => i = j
  BY DEF abmon
<1>2. ASSUME NEW i \in 1..12, NEW j \in 1..12, abmon[i] = mon[j] PROVE i = j
  BY <1>2 DEF mon, abmon
<1> QED
  BY <1>1, <1>2

LEMMA MonthTaken == ASSUME NEW t \in Texts, NEW x, x.pos \in 1..Len(t), NEW i \in 1..12, t[x.pos] = abmon[i]
                    PROVE  Convert(t, x, Plain("b")) = Sets(x, x.pos + 1, "mon", i - 1)
<1>1. PICK z : z = At(t, x.pos)
  OBVIOUS
<1>2. z = abmon[i]
  BY <1>1 DEF At, Texts
<1>3. \A j \in 1..12 : z \in {mon[j], abmon[j]} => j = i
  BY <1>2, MonthsDiffer
<1>4. DOMAIN mon = 1..12
  BY DEF mon
<1>5. i \in Named(z, mon, abmon) /\ \A j \in Named(z, mon, abmon) : j = i
  BY <1>2, <1>3, <1>4 DEF Named
<1>6. NameNo(z, mon, abmon) = i
  BY <1>4, <1>5 DEF NameNo
<1>7. find_string(t, x.pos, mon, abmon) = [pos |-> x.pos + 1, val |-> i - 1]
  BY <1>1, <1>5, <1>6 DEF find_string
<1> QED
  BY <1>7, ConvertIs DEF ReadName

LEMMA DashIsNoMonth == ASSUME NEW t \in Texts, NEW x, x.pos \in 1..Len(t), t[x.pos] = Dash
                       PROVE  Convert(t, x, Plain("b")).pos = 0
<1>1. At(t, x.pos) = Dash
  BY DEF At, Texts
<1>2. DOMAIN mon = 1..12 /\ \A j \in 1..12 : Dash # mon[j] /\ Dash # abmon[j]
  BY DEF mon, abmon, Dash
<1>3. find_string(t, x.pos, mon, abmon).pos = 0
  BY <1>1, <1>2 DEF find_string, Named
<1> QED
  BY <1>3, ConvertIs DEF ReadName, Sets

\* The numbers of two digits, by the conversion and the field.
Two(c) == CASE c = "d" -> "mday" [] c = "H" -> "hour" [] c = "M" -> "min" [] c = "S" -> "sec"

LEMMA TwoTaken == ASSUME NEW t, NEW x, NEW n, NEW c \in {"d", "H", "M", "S"}, TwoAt(t, x.pos, n),
                         n \in Number[c].lo..Number[c].hi
                  PROVE  Convert(t, x, Plain(c)) = Sets(x, x.pos + 2, Two(c), n)
<1>1. \/ Number[c] = [lo |-> 1, hi |-> 31, field |-> "mday", off |-> 0] /\ Two(c) = "mday"
      \/ Number[c] = [lo |-> 0, hi |-> 23, field |-> "hour", off |-> 0] /\ Two(c) = "hour"
      \/ Number[c] = [lo |-> 0, hi |-> 59, field |-> "min", off |-> 0] /\ Two(c) = "min"
      \/ Number[c] = [lo |-> 0, hi |-> 61, field |-> "sec", off |-> 0] /\ Two(c) = "sec"
  BY DEF Number, Num, Two
<1>2. PICK m : m = Number[c]
  OBVIOUS
<1>3. /\ m.lo \in {0, 1} /\ m.hi \in {23, 31, 59, 61} /\ m.field = Two(c) /\ m.off = 0
      /\ Two(c) \in {"mday", "hour", "min", "sec"}
  BY <1>1, <1>2
<1>4. TwoFit(n, m.lo, m.hi) /\ n + 0 = n
  <2>0. 0 \in Limit /\ 1 \in Limit
    BY DEF Limit
  <2>1. m.lo \in Limit
    BY <1>3, <2>0
  <2>2. n \in m.lo..m.hi
    BY <1>2
  <2> QED
    BY <1>3, <2>1, <2>2 DEF TwoFit
<1>5. conv_num(t, x.pos, m.lo, m.hi) = [pos |-> x.pos + 2, val |-> n]
  BY <1>4, ReadsTwo
<1>6. ReadNumber(t, x, c) = Sets(x, x.pos + 2, Two(c), n)
  BY <1>2, <1>3, <1>4, <1>5 DEF ReadNumber
<1> QED
  BY <1>6, ConvertIs

LEMMA OneTaken == ASSUME NEW t, NEW x, NEW n, OneAt(t, x.pos, n), n # 0
                  PROVE  Convert(t, x, Plain("d")) = Sets(x, x.pos + 1, "mday", n)
<1>1. Number["d"] = [lo |-> 1, hi |-> 31, field |-> "mday", off |-> 0]
  BY DEF Number, Num
<1>2. OneFits(n, 1, 31) /\ n + 0 = n
  BY DEF OneAt, OneFits, Limit
<1>3. conv_num(t, x.pos, 1, 31) = [pos |-> x.pos + 1, val |-> n]
  BY <1>2, ReadsOne
<1>4. ReadNumber(t, x, "d") = Sets(x, x.pos + 1, "mday", n)
  BY <1>1, <1>2, <1>3 DEF ReadNumber
<1> QED
  BY <1>4, ConvertIs

LEMMA FourTaken == ASSUME NEW t, NEW x, NEW n, FourAt(t, x.pos, n)
                   PROVE  Convert(t, x, Plain("Y")) = Sets(x, x.pos + 4, "year", n - 1900)
<1>1. PICK m : m = Number["Y"]
  OBVIOUS
<1>2. m.lo = 0 /\ m.hi = 9999 /\ m.field = "year" /\ m.off = -1900
  BY <1>1 DEF Number, Num
<1>3. conv_num(t, x.pos, 0, 9999) = [pos |-> x.pos + 4, val |-> n]
  BY ReadsFour
<1>4. n + m.off = n - 1900
  BY <1>2 DEF FourAt, Limit
<1>5. ReadNumber(t, x, "Y") = Sets(x, x.pos + 4, "year", n + m.off)
  BY <1>1, <1>2, <1>3 DEF ReadNumber
<1> QED
  BY <1>4, <1>5, ConvertIs

\* The year that two digits are read as.
Centuries(w, y) == (w - y) % 100 = 0
LEMMA CenturyIs == ASSUME NEW y \in Int, NEW v \in 0..99, v = (y + 1900) % 100
                   PROVE  Century(y) = IF v <= 68 THEN v + 100 ELSE v
<1>1. PICK q : q = (y + 1900) \div 100
  OBVIOUS
<1>2. y + 1900 = 100 * q + v /\ q \in Int
  BY <1>1
<1>3. PICK z : z = IF v <= 68 THEN v + 100 ELSE v
  OBVIOUS
<1>4. z \in 69..168
  BY <1>3
<1>5. ASSUME NEW w \in 69..168 PROVE Centuries(w, y) <=> w = z
  <2>1. PICK k : k = (w - y) \div 100
    OBVIOUS
  <2>2. PICK m : m = (w - y) % 100
    OBVIOUS
  <2>3. w - y = 100 * k + m /\ m \in 0..99 /\ k \in Int
    BY <2>1, <2>2
  <2>4. PICK e \in 0..1 : z = v + 100 * e
    BY <1>3
  <2>5. w = 100 * (k + q - 19) + v + m
    BY <1>2, <2>3
  <2>6. m = 0 <=> w = z
    <3>1. PICK j : j = k + q - 19 - e
      OBVIOUS
    <3>2. w - z = 100 * j + m /\ j \in Int
      BY <1>2, <2>3, <2>4, <2>5, <3>1
    <3>3. w - z \in -99..99 /\ w \in Int /\ z \in Int
      BY <1>4
    <3>4. PICK d : d = w - z
      OBVIOUS
    <3>5. d \in -99..99 /\ d = 100 * j + m
      BY <3>2, <3>3, <3>4
    <3>6. m = 0 <=> d = 0
      BY <2>3, <3>2, <3>5
    <3> QED
      BY <3>3, <3>4, <3>6
  <2> QED
    BY <2>2, <2>6 DEF Centuries
<1>6. \E w \in 69..168 : (w - y) % 100 = 0
  BY <1>4, <1>5 DEF Centuries
<1>7. Century(y) \in 69..168 /\ Centuries(Century(y), y)
  BY <1>6 DEF Century, Centuries
<1>8. Century(y) = z
  BY <1>5, <1>7
<1> QED
  BY <1>3, <1>8

LEMMA YearTaken == ASSUME NEW t, NEW x, ~ x.split, NEW y \in Int, TwoAt(t, x.pos, y + 1900)
                   PROVE  Convert(t, x, Plain("y")) = SetsYear(x, x.pos + 2, Century(y))
<1>1. PICK v : v = (y + 1900) % 100
  OBVIOUS
<1>2. v \in 0..99 /\ y + 1900 \in Int
  BY <1>1
<1>3. Tens(y + 1900) = Tens(v) /\ Ones(y + 1900) = Ones(v)
  <2>1. PICK n : n = y + 1900
    OBVIOUS
  <2>2. n \in Int /\ v = n % 100
    BY <1>1, <2>1
  <2>3. n % 10 = v % 10
    BY <2>2
  <2>4. (n \div 10) % 10 = (v \div 10) % 10
    BY <2>2
  <2> QED
    BY <2>1, <2>3, <2>4 DEF Tens, Ones
<1>4. conv_num(t, x.pos, 0, 99) = [pos |-> x.pos + 2, val |-> v]
  <2>1. TwoFit(v, 0, 99)
    BY <1>2 DEF TwoFit, Limit
  <2>2. TwoAt(t, x.pos, v)
    BY <1>3 DEF TwoAt
  <2> QED
    BY <2>1, <2>2, ReadsTwo
<1>5. ReadYear(t, x) = SetsYear(x, x.pos + 2, IF v <= 68 THEN v + 100 ELSE v)
  BY <1>4 DEF ReadYear
<1>6. Century(y) = IF v <= 68 THEN v + 100 ELSE v
  BY <1>1, <1>2, CenturyIs
<1> QED
  BY <1>5, <1>6, ConvertIs

(***************************************************************************)
(* The three formats over their own texts: where each conversion begins,   *)
(* and the field it sets                                                   *)
(***************************************************************************)
Place(f, tm) ==
    CASE f = "rfc1123" -> <<1, 2, 3, 4, 6, 7, 8, 9, 13, 14, 16, 17, 19, 20, 22, 23, 24>>
      [] f = "rfc1036" -> <<1, 2, 3, 4, 6, 7, 8, 9, 11, 12, 14, 15, 17, 18, 20, 21, 22>>
      [] f = "asctime" -> <<1, 2, 3, 4, IF tm["mday"] < 10 THEN 6 ELSE 5,
                            7, 8, 10, 11, 13, 14, 16, 17, 21>>
Gets(f) ==
    IF f = "asctime"
    THEN <<"wday", "none", "mon", "none", "mday", "none", "hour", "none", "min", "none", "sec",
           "none", "year">>
    ELSE <<"wday", "none", "none", "mday", "none", "mon", "none", "year", "none", "hour", "none",
           "min", "none", "sec", "none", "none">>
Count(f) == IF f = "asctime" THEN 13 ELSE 16
Want(f, tm, field) == IF f = "rfc1036" /\ field = "year" THEN Century(tm["year"]) ELSE tm[field]

\* Conversion n of format f is c, over the text from p to q, and sets field g.
Row(f, tm, n, c, p, q, g) == /\ Fmt[f][n] = c /\ Place(f, tm)[n] = p /\ Place(f, tm)[n + 1] = q
                             /\ Gets(f)[n] = g

LEMMA Rows1123 == ASSUME NEW tm
                  PROVE  /\ Row("rfc1123", tm, 1, Plain("a"), 1, 2, "wday")
                         /\ Row("rfc1123", tm, 2, Lit(Comma), 2, 3, "none")
                         /\ Row("rfc1123", tm, 3, Blank, 3, 4, "none")
                         /\ Row("rfc1123", tm, 4, Plain("d"), 4, 6, "mday")
                         /\ Row("rfc1123", tm, 5, Blank, 6, 7, "none")
                         /\ Row("rfc1123", tm, 6, Plain("b"), 7, 8, "mon")
                         /\ Row("rfc1123", tm, 7, Blank, 8, 9, "none")
                         /\ Row("rfc1123", tm, 8, Plain("Y"), 9, 13, "year")
                         /\ Row("rfc1123", tm, 9, Blank, 13, 14, "none")
                         /\ Row("rfc1123", tm, 10, Plain("H"), 14, 16, "hour")
                         /\ Row("rfc1123", tm, 11, Lit(Colon), 16, 17, "none")
                         /\ Row("rfc1123", tm, 12, Plain("M"), 17, 19, "min")
                         /\ Row("rfc1123", tm, 13, Lit(Colon), 19, 20, "none")
                         /\ Row("rfc1123", tm, 14, Plain("S"), 20, 22, "sec")
                         /\ Row("rfc1123", tm, 15, Blank, 22, 23, "none")
                         /\ Row("rfc1123", tm, 16, Lit("GMT"), 23, 24, "none")
BY DEF Row, Fmt, Rfc1123, Place, Gets

LEMMA Rows1036 == ASSUME NEW tm
                  PROVE  /\ Row("rfc1036", tm, 1, Plain("A"), 1, 2, "wday")
                         /\ Row("rfc1036", tm, 2, Lit(Comma), 2, 3, "none")
                         /\ Row("rfc1036", tm, 3, Blank, 3, 4, "none")
                         /\ Row("rfc1036", tm, 4, Plain("d"), 4, 6, "mday")
                         /\ Row("rfc1036", tm, 5, Lit(Dash), 6, 7, "none")
                         /\ Row("rfc1036", tm, 6, Plain("b"), 7, 8, "mon")
                         /\ Row("rfc1036", tm, 7, Lit(Dash), 8, 9, "none")
                         /\ Row("rfc1036", tm, 8, Plain("y"), 9, 11, "year")
                         /\ Row("rfc1036", tm, 9, Blank, 11, 12, "none")
                         /\ Row("rfc1036", tm, 10, Plain("H"), 12, 14, "hour")
                         /\ Row("rfc1036", tm, 11, Lit(Colon), 14, 15, "none")
                         /\ Row("rfc1036", tm, 12, Plain("M"), 15, 17, "min")
                         /\ Row("rfc1036", tm, 13, Lit(Colon), 17, 18, "none")
                         /\ Row("rfc1036", tm, 14, Plain("S"), 18, 20, "sec")
                         /\ Row("rfc1036", tm, 15, Blank, 20, 21, "none")
                         /\ Row("rfc1036", tm, 16, Lit("GMT"), 21, 22, "none")
BY DEF Row, Fmt, Rfc1036, Place, Gets

\* The day of one digit comes after two blanks.
LEMMA RowsAsctime == ASSUME NEW tm, NEW d, d = IF tm["mday"] < 10 THEN 6 ELSE 5
                     PROVE  /\ Row("asctime", tm, 1, Plain("a"), 1, 2, "wday")
                            /\ Row("asctime", tm, 2, Blank, 2, 3, "none")
                            /\ Row("asctime", tm, 3, Plain("b"), 3, 4, "mon")
                            /\ Row("asctime", tm, 4, Blank, 4, d, "none")
                            /\ Row("asctime", tm, 5, Plain("d"), d, 7, "mday")
                            /\ Row("asctime", tm, 6, Blank, 7, 8, "none")
                            /\ Row("asctime", tm, 7, Plain("H"), 8, 10, "hour")
                            /\ Row("asctime", tm, 8, Lit(Colon), 10, 11, "none")
                            /\ Row("asctime", tm, 9, Plain("M"), 11, 13, "min")
                            /\ Row("asctime", tm, 10, Lit(Colon), 13, 14, "none")
                            /\ Row("asctime", tm, 11, Plain("S"), 14, 16, "sec")
                            /\ Row("asctime", tm, 12, Blank, 16, 17, "none")
                            /\ Row("asctime", tm, 13, Plain("Y"), 17, 21, "year")
BY DEF Row, Fmt, Asctime, Place, Gets

(***************************************************************************)
(* What the texts have at these places                                     *)
(***************************************************************************)
\* The day of the month of asctime is padded with a blank.
Padded(t, n) == IF n < 10 THEN t[5] = Space /\ OneAt(t, 6, n) ELSE TwoAt(t, 5, n)

LEMMA TextOf1123 == ASSUME NEW tm \in Times, NEW t, t = Text("rfc1123", tm)
                    PROVE  /\ t \in Texts /\ Len(t) = 23
                           /\ t[1] = abday[tm["wday"] + 1] /\ t[2] = Comma /\ t[3] = Space
                           /\ TwoAt(t, 4, tm["mday"]) /\ t[6] = Space
                           /\ t[7] = abmon[tm["mon"] + 1] /\ t[8] = Space
                           /\ FourAt(t, 9, tm["year"] + 1900) /\ t[13] = Space
                           /\ TwoAt(t, 14, tm["hour"]) /\ t[16] = Colon
                           /\ TwoAt(t, 17, tm["min"]) /\ t[19] = Colon
                           /\ TwoAt(t, 20, tm["sec"]) /\ t[22] = Space /\ t[23] = "GMT"
<1>1. t \in Texts
  BY TextIs DEF Fmt
<1>2. /\ Len(t) = 23
      /\ t[1] = abday[tm["wday"] + 1] /\ t[2] = Comma /\ t[3] = Space
      /\ t[4] = Tens(tm["mday"]) /\ t[5] = Ones(tm["mday"]) /\ t[6] = Space
      /\ t[7] = abmon[tm["mon"] + 1] /\ t[8] = Space
      /\ t[9] = Tens((tm["year"] + 1900) \div 100) /\ t[10] = Ones((tm["year"] + 1900) \div 100)
      /\ t[11] = Tens(tm["year"] + 1900) /\ t[12] = Ones(tm["year"] + 1900) /\ t[13] = Space
      /\ t[14] = Tens(tm["hour"]) /\ t[15] = Ones(tm["hour"]) /\ t[16] = Colon
      /\ t[17] = Tens(tm["min"]) /\ t[18] = Ones(tm["min"]) /\ t[19] = Colon
      /\ t[20] = Tens(tm["sec"]) /\ t[21] = Ones(tm["sec"]) /\ t[22] = Space /\ t[23] = "GMT"
  BY DEF Text
<1>3. TwoAt(t, 4, tm["mday"])
  <2>1. t[4] = Tens(tm["mday"]) /\ t[5] = Ones(tm["mday"]) /\ Len(t) = 23
    BY <1>2
  <2> QED
    BY <1>1, <2>1 DEF TwoAt
<1>4. TwoAt(t, 14, tm["hour"])
  <2>1. t[14] = Tens(tm["hour"]) /\ t[15] = Ones(tm["hour"]) /\ Len(t) = 23
    BY <1>2
  <2> QED
    BY <1>1, <2>1 DEF TwoAt
<1>5. TwoAt(t, 17, tm["min"])
  <2>1. t[17] = Tens(tm["min"]) /\ t[18] = Ones(tm["min"]) /\ Len(t) = 23
    BY <1>2
  <2> QED
    BY <1>1, <2>1 DEF TwoAt
<1>6. TwoAt(t, 20, tm["sec"])
  <2>1. t[20] = Tens(tm["sec"]) /\ t[21] = Ones(tm["sec"]) /\ Len(t) = 23
    BY <1>2
  <2> QED
    BY <1>1, <2>1 DEF TwoAt
<1>7. FourAt(t, 9, tm["year"] + 1900)
  <2>1. PICK y : y = tm["year"] + 1900
    OBVIOUS
  <2>2. /\ t[9] = Tens(y \div 100) /\ t[10] = Ones(y \div 100)
        /\ t[11] = Tens(y) /\ t[12] = Ones(y) /\ Len(t) = 23
    BY <1>2, <2>1
  <2>3. y \in Limit
    BY <2>1, TimeIs
  <2>4. FourAt(t, 9, y)
    BY <1>1, <2>2, <2>3 DEF FourAt
  <2> QED
    BY <2>1, <2>4
<1> QED
  BY <1>1, <1>2, <1>3, <1>4, <1>5, <1>6, <1>7

LEMMA TextOf1036 == ASSUME NEW tm \in Times, NEW t, t = Text("rfc1036", tm)
                    PROVE  /\ t \in Texts /\ Len(t) = 21
                           /\ t[1] = day[tm["wday"] + 1] /\ t[2] = Comma /\ t[3] = Space
                           /\ TwoAt(t, 4, tm["mday"]) /\ t[6] = Dash
                           /\ t[7] = abmon[tm["mon"] + 1] /\ t[8] = Dash
                           /\ TwoAt(t, 9, tm["year"] + 1900) /\ t[11] = Space
                           /\ TwoAt(t, 12, tm["hour"]) /\ t[14] = Colon
                           /\ TwoAt(t, 15, tm["min"]) /\ t[17] = Colon
                           /\ TwoAt(t, 18, tm["sec"]) /\ t[20] = Space /\ t[21] = "GMT"
<1>1. t \in Texts
  BY TextIs DEF Fmt
<1>2. /\ Len(t) = 21
      /\ t[1] = day[tm["wday"] + 1] /\ t[2] = Comma /\ t[3] = Space
      /\ t[4] = Tens(tm["mday"]) /\ t[5] = Ones(tm["mday"]) /\ t[6] = Dash
      /\ t[7] = abmon[tm["mon"] + 1] /\ t[8] = Dash
      /\ t[9] = Tens(tm["year"] + 1900) /\ t[10] = Ones(tm["year"] + 1900) /\ t[11] = Space
      /\ t[12] = Tens(tm["hour"]) /\ t[13] = Ones(tm["hour"]) /\ t[14] = Colon
      /\ t[15] = Tens(tm["min"]) /\ t[16] = Ones(tm["min"]) /\ t[17] = Colon
      /\ t[18] = Tens(tm["sec"]) /\ t[19] = Ones(tm["sec"]) /\ t[20] = Space /\ t[21] = "GMT"
  BY DEF Text
<1>3. TwoAt(t, 4, tm["mday"])
  <2>1. t[4] = Tens(tm["mday"]) /\ t[5] = Ones(tm["mday"]) /\ Len(t) = 21
    BY <1>2
  <2> QED
    BY <1>1, <2>1 DEF TwoAt
<1>4. TwoAt(t, 9, tm["year"] + 1900)
  <2>1. t[9] = Tens(tm["year"] + 1900) /\ t[10] = Ones(tm["year"] + 1900) /\ Len(t) = 21
    BY <1>2
  <2> QED
    BY <1>1, <2>1 DEF TwoAt
<1>5. TwoAt(t, 12, tm["hour"])
  <2>1. t[12] = Tens(tm["hour"]) /\ t[13] = Ones(tm["hour"]) /\ Len(t) = 21
    BY <1>2
  <2> QED
    BY <1>1, <2>1 DEF TwoAt
<1>6. TwoAt(t, 15, tm["min"])
  <2>1. t[15] = Tens(tm["min"]) /\ t[16] = Ones(tm["min"]) /\ Len(t) = 21
    BY <1>2
  <2> QED
    BY <1>1, <2>1 DEF TwoAt
<1>7. TwoAt(t, 18, tm["sec"])
  <2>1. t[18] = Tens(tm["sec"]) /\ t[19] = Ones(tm["sec"]) /\ Len(t) = 21
    BY <1>2
  <2> QED
    BY <1>1, <2>1 DEF TwoAt
<1> QED
  BY <1>1, <1>2, <1>3, <1>4, <1>5, <1>6, <1>7

LEMMA TextOfAsctime == ASSUME NEW tm \in Times, NEW t, t = Text("asctime", tm)
                       PROVE  /\ t \in Texts /\ Len(t) = 20
                              /\ t[1] = abday[tm["wday"] + 1] /\ t[2] = Space
                              /\ t[3] = abmon[tm["mon"] + 1] /\ t[4] = Space
                              /\ Padded(t, tm["mday"]) /\ t[7] = Space
                              /\ TwoAt(t, 8, tm["hour"]) /\ t[10] = Colon
                              /\ TwoAt(t, 11, tm["min"]) /\ t[13] = Colon
                              /\ TwoAt(t, 14, tm["sec"]) /\ t[16] = Space
                              /\ FourAt(t, 17, tm["year"] + 1900)
<1>1. t \in Texts
  BY TextIs DEF Fmt
<1>2. /\ Len(t) = 20
      /\ t[1] = abday[tm["wday"] + 1] /\ t[2] = Space
      /\ t[3] = abmon[tm["mon"] + 1] /\ t[4] = Space
      /\ t[5] = (IF tm["mday"] < 10 THEN Space ELSE Tens(tm["mday"])) /\ t[6] = Ones(tm["mday"])
      /\ t[7] = Space
      /\ t[8] = Tens(tm["hour"]) /\ t[9] = Ones(tm["hour"]) /\ t[10] = Colon
      /\ t[11] = Tens(tm["min"]) /\ t[12] = Ones(tm["min"]) /\ t[13] = Colon
      /\ t[14] = Tens(tm["sec"]) /\ t[15] = Ones(tm["sec"]) /\ t[16] = Space
      /\ t[17] = Tens((tm["year"] + 1900) \div 100) /\ t[18] = Ones((tm["year"] + 1900) \div 100)
      /\ t[19] = Tens(tm["year"] + 1900) /\ t[20] = Ones(tm["year"] + 1900)
  BY DEF Text
<1>3. TwoAt(t, 8, tm["hour"])
  <2>1. t[8] = Tens(tm["hour"]) /\ t[9] = Ones(tm["hour"]) /\ Len(t) = 20
    BY <1>2
  <2> QED
    BY <1>1, <2>1 DEF TwoAt
<1>4. TwoAt(t, 11, tm["min"])
  <2>1. t[11] = Tens(tm["min"]) /\ t[12] = Ones(tm["min"]) /\ Len(t) = 20
    BY <1>2
  <2> QED
    BY <1>1, <2>1 DEF TwoAt
<1>5. TwoAt(t, 14, tm["sec"])
  <2>1. t[14] = Tens(tm["sec"]) /\ t[15] = Ones(tm["sec"]) /\ Len(t) = 20
    BY <1>2
  <2> QED
    BY <1>1, <2>1 DEF TwoAt
<1>6. FourAt(t, 17, tm["year"] + 1900)
  <2>1. PICK y : y = tm["year"] + 1900
    OBVIOUS
  <2>2. /\ t[17] = Tens(y \div 100) /\ t[18] = Ones(y \div 100)
        /\ t[19] = Tens(y) /\ t[20] = Ones(y) /\ Len(t) = 20
    BY <1>2, <2>1
  <2>3. y \in Limit
    BY <2>1, TimeIs
  <2>4. FourAt(t, 17, y)
    BY <1>1, <2>2, <2>3 DEF FourAt
  <2> QED
    BY <2>1, <2>4
<1>7. ~ IsDigit(t, 7)
  <2>1. Space \notin Digit
    <3>1. Space \notin {"0", "1", "2", "3", "4", "5", "6", "7", "8", "9"}
      BY DEF Space
    <3>2. \A i \in 1..10 : Digits[i] \in {"0", "1", "2", "3", "4", "5", "6", "7", "8", "9"}
      BY DEF Digits
    <3> QED
      BY <3>1, <3>2 DEF Digit
  <2>2. At(t, 7) = Space
    BY <1>1, <1>2 DEF At, Texts
  <2> QED
    BY <2>1, <2>2 DEF IsDigit
<1>8. Padded(t, tm["mday"])
  <2>1. PICK d : d = tm["mday"]
    OBVIOUS
  <2>2. d \in 1..31 /\ t[6] = Ones(d) /\ t[5] = IF d < 10 THEN Space ELSE Tens(d)
    BY <1>2, <2>1, TimeIs
  <2>a. Len(t) = 20
    BY <1>2
  <2>3. CASE d < 10
    <3>1. OneAt(t, 6, d)
      BY <1>1, <1>7, <2>2, <2>3, <2>a DEF OneAt
    <3> QED
      BY <2>1, <2>2, <2>3, <3>1 DEF Padded
  <2>4. CASE ~ (d < 10)
    <3>1. TwoAt(t, 5, d)
      BY <1>1, <2>2, <2>4, <2>a DEF TwoAt
    <3> QED
      BY <2>1, <2>4, <3>1 DEF Padded
  <2> QED
    BY <2>3, <2>4
<1> QED
  BY <1>1, <1>2, <1>3, <1>4, <1>5, <1>6, <1>8

(***************************************************************************)
(* What has been read before conversion n, and that a conversion reads on  *)
(***************************************************************************)
Before(f, n) == {Gets(f)[i] : i \in 1..(n - 1)}
Reached(f, tm, n, x) ==
    /\ x \in States /\ x.pos = Place(f, tm)[n]
    /\ \A g \in Fields : x.tm[g] = IF g \in Before(f, n) THEN Want(f, tm, g) ELSE 0
    /\ n <= 8 => ~ x.split

\* y is x after conversion n.
Does(f, tm, n, x, y) ==
    /\ y.pos = Place(f, tm)[n + 1]
    /\ y = [pos |-> y.pos, tm |-> y.tm, split |-> y.split]
    /\ IF Gets(f)[n] = "none" THEN y.tm = x.tm
       ELSE Gets(f)[n] \in Fields /\ y.tm = Put(x.tm, Gets(f)[n], Want(f, tm, Gets(f)[n]))
    /\ y.split \in BOOLEAN /\ (n # 8 => y.split = x.split)

LEMMA WantIs == ASSUME NEW f, NEW tm \in Times, NEW g \in Fields
                PROVE  Want(f, tm, g) \in Int
<1>1. tm[g] \in Int /\ tm["year"] \in Int
  BY TimeIs
<1>2. PICK y : y = tm["year"]
  OBVIOUS
<1>3. PICK v : v = (y + 1900) % 100
  OBVIOUS
<1>4. y \in Int /\ v \in 0..99
  BY <1>1, <1>2, <1>3
<1>5. Century(y) = IF v <= 68 THEN v + 100 ELSE v
  BY <1>3, <1>4, CenturyIs
<1>6. Century(tm["year"]) \in Int
  BY <1>2, <1>4, <1>5
<1> QED
  BY <1>1, <1>6 DEF Want

LEMMA ReachedNext == ASSUME NEW f \in DOMAIN Fmt, NEW tm \in Times, NEW n \in Nat \ {0}, NEW x, NEW y,
                            Reached(f, tm, n, x), Does(f, tm, n, x, y), Place(f, tm)[n + 1] \in Nat
                     PROVE  Reached(f, tm, n + 1, y)
<1>1. x \in States /\ \A g \in Fields : x.tm[g] = IF g \in Before(f, n) THEN Want(f, tm, g) ELSE 0
  BY DEF Reached
<1>2. PICK m : m = x.tm
  OBVIOUS
<1>3. PICK k : k = y.tm
  OBVIOUS
<1>4. PICK g : g = Gets(f)[n]
  OBVIOUS
<1>5. m \in [Fields -> Int] /\ \A h \in Fields : m[h] = IF h \in Before(f, n) THEN Want(f, tm, h) ELSE 0
  BY <1>1, <1>2 DEF States
<1>6. Before(f, n + 1) = Before(f, n) \cup {g}
  BY <1>4 DEF Before
<1>7. "none" \notin Fields
  BY DEF Fields
<1>8. k \in [Fields -> Int] /\ \A h \in Fields : k[h] = IF h \in Before(f, n + 1) THEN Want(f, tm, h) ELSE 0
  <2>1. CASE g = "none"
    <3>1. k = m
      BY <1>2, <1>3, <1>4, <2>1 DEF Does
    <3> QED
      BY <1>5, <1>6, <1>7, <2>1, <3>1
  <2>2. CASE g # "none"
    <3>1. g \in Fields /\ k = Put(m, g, Want(f, tm, g))
      BY <1>2, <1>3, <1>4, <2>2 DEF Does
    <3>2. Want(f, tm, g) \in Int
      BY <3>1, WantIs
    <3>3. /\ k \in [Fields -> Int] /\ k[g] = Want(f, tm, g)
          /\ \A h \in Fields \ {g} : k[h] = m[h]
      BY <1>5, <3>1, <3>2, PutIs
    <3> QED
      BY <1>5, <1>6, <3>1, <3>3
  <2> QED
    BY <2>1, <2>2
<1>9. y.pos = Place(f, tm)[n + 1] /\ y.split \in BOOLEAN /\ y = [pos |-> y.pos, tm |-> k, split |-> y.split]
  BY <1>3 DEF Does
<1>10. y \in States
  BY <1>8, <1>9 DEF States
<1>11. n + 1 <= 8 => ~ y.split
  BY DEF Reached, Does
<1> QED
  BY <1>3, <1>8, <1>9, <1>10, <1>11 DEF Reached

\* A conversion that only moves, and one that sets its field.
LEMMA DoesMove == ASSUME NEW f, NEW tm, NEW n, NEW x, NEW c, NEW p, NEW q, Row(f, tm, n, c, p, q, "none"),
                         x \in States
                  PROVE  Does(f, tm, n, x, Moves(x, q))
BY DEF Row, Does, Moves, States

LEMMA DoesSet == ASSUME NEW f, NEW tm, NEW n, NEW x, NEW c, NEW p, NEW q, NEW g, Row(f, tm, n, c, p, q, g),
                        x \in States, g \in Fields
                 PROVE  Does(f, tm, n, x, Sets(x, q, g, Want(f, tm, g)))
<1>1. g # "none"
  BY DEF Fields
<1>2. Gets(f)[n] = g /\ Place(f, tm)[n + 1] = q
  BY DEF Row
<1>3. PICK k : k = Put(x.tm, g, Want(f, tm, g))
  OBVIOUS
<1>4. Sets(x, q, g, Want(f, tm, g)) = [pos |-> q, tm |-> k, split |-> x.split] /\ x.split \in BOOLEAN
  BY <1>3 DEF Sets, States
<1> QED
  BY <1>1, <1>2, <1>3, <1>4 DEF Does

\* Format f is at conversion n of its own text.
OnTheWay(f, tm, n, x, t) == /\ f \in DOMAIN Fmt /\ tm \in Times /\ t = Text(f, tm) /\ t \in Texts
                            /\ Reached(f, tm, n, x)

\* From p to q the text has c, blanks, the day of the week, or the month.
LitAt(t, c, p, q) == p \in 1..Len(t) /\ q = p + 1 /\ t[p] = c /\ c # Space
BlanksAt(t, p, q) == /\ p \in 1..Len(t) /\ q \in p..Len(t) /\ t[q] # Space
                     /\ \A r \in p..(q - 1) : t[r] = Space
DayAt(t, tm, p, q) == p \in 1..Len(t) /\ q = p + 1 /\ t[p] \in {day[tm["wday"] + 1], abday[tm["wday"] + 1]}
MonthAt(t, tm, p, q) == p \in 1..Len(t) /\ q = p + 1 /\ t[p] = abmon[tm["mon"] + 1]

LEMMA RowLit == ASSUME NEW f, NEW tm, NEW n, NEW x, NEW t, OnTheWay(f, tm, n, x, t), NEW c,
                       NEW p, NEW q, Row(f, tm, n, Lit(c), p, q, "none"), LitAt(t, c, p, q)
                PROVE  Does(f, tm, n, x, Convert(t, x, Fmt[f][n]))
<1> USE DEF LitAt
<1>1. x \in States /\ x.pos = p /\ Fmt[f][n] = Lit(c) /\ t \in Texts
  BY DEF Row, OnTheWay, Reached
<1>2. Convert(t, x, Lit(c)) = Moves(x, p + 1)
  BY <1>1, LiteralTaken
<1>3. Convert(t, x, Fmt[f][n]) = Moves(x, q)
  BY <1>1, <1>2
<1> QED
  BY <1>1, <1>3, DoesMove

LEMMA RowBlank == ASSUME NEW f, NEW tm, NEW n, NEW x, NEW t, OnTheWay(f, tm, n, x, t),
                         NEW p, NEW q, Row(f, tm, n, Blank, p, q, "none"), BlanksAt(t, p, q)
                  PROVE  Does(f, tm, n, x, Convert(t, x, Fmt[f][n]))
<1> USE DEF BlanksAt
<1>1. x \in States /\ x.pos = p /\ Fmt[f][n] = Blank /\ t \in Texts
  BY DEF Row, OnTheWay, Reached
<1>2. Convert(t, x, Blank) = Moves(x, q)
  BY <1>1, BlankTaken
<1>3. Convert(t, x, Fmt[f][n]) = Moves(x, q)
  BY <1>1, <1>2
<1> QED
  BY <1>1, <1>3, DoesMove

LEMMA RowDay == ASSUME NEW f, NEW tm, NEW n, NEW x, NEW t, OnTheWay(f, tm, n, x, t), NEW c \in {"a", "A"},
                       NEW p, NEW q, Row(f, tm, n, Plain(c), p, q, "wday"), DayAt(t, tm, p, q)
                PROVE  Does(f, tm, n, x, Convert(t, x, Fmt[f][n]))
<1> USE DEF DayAt
<1>1. x \in States /\ x.pos = p /\ Fmt[f][n] = Plain(c) /\ t \in Texts /\ tm \in Times
  BY DEF Row, OnTheWay, Reached
<1>2. PICK i : i = tm["wday"] + 1
  OBVIOUS
<1>3. i \in 1..7 /\ i - 1 = tm["wday"]
  <2>1. PICK w : w = tm["wday"]
    OBVIOUS
  <2>2. w \in 0..6
    BY <1>1, <2>1, TimesAssumption
  <2> QED
    BY <1>2, <2>1, <2>2
<1>4. Convert(t, x, Plain(c)) = Sets(x, p + 1, "wday", i - 1)
  BY <1>1, <1>2, <1>3, DayTaken
<1>5. Want(f, tm, "wday") = tm["wday"] /\ "wday" \in Fields
  BY WithinIs DEF Want
<1>6. Convert(t, x, Fmt[f][n]) = Sets(x, q, "wday", Want(f, tm, "wday"))
  BY <1>1, <1>3, <1>4, <1>5
<1> QED
  BY <1>1, <1>5, <1>6, DoesSet

LEMMA RowMonth == ASSUME NEW f, NEW tm, NEW n, NEW x, NEW t, OnTheWay(f, tm, n, x, t),
                         NEW p, NEW q, Row(f, tm, n, Plain("b"), p, q, "mon"), MonthAt(t, tm, p, q)
                  PROVE  Does(f, tm, n, x, Convert(t, x, Fmt[f][n]))
<1> USE DEF MonthAt
<1>1. x \in States /\ x.pos = p /\ Fmt[f][n] = Plain("b") /\ t \in Texts /\ tm \in Times
  BY DEF Row, OnTheWay, Reached
<1>2. PICK i : i = tm["mon"] + 1
  OBVIOUS
<1>3. i \in 1..12 /\ i - 1 = tm["mon"]
  <2>1. PICK w : w = tm["mon"]
    OBVIOUS
  <2>2. w \in 0..11
    BY <1>1, <2>1, TimesAssumption
  <2>3. i = w + 1
    BY <1>2, <2>1
  <2>4. i \in 1..12 /\ i - 1 = w
    BY <2>2, <2>3
  <2> QED
    BY <2>1, <2>4
<1>4. Convert(t, x, Plain("b")) = Sets(x, p + 1, "mon", i - 1)
  BY <1>1, <1>2, <1>3, MonthTaken
<1>5. Want(f, tm, "mon") = tm["mon"] /\ "mon" \in Fields
  BY WithinIs DEF Want
<1>6. Convert(t, x, Fmt[f][n]) = Sets(x, q, "mon", Want(f, tm, "mon"))
  BY <1>1, <1>3, <1>4, <1>5
<1> QED
  BY <1>1, <1>5, <1>6, DoesSet

LEMMA RowTwo == ASSUME NEW f, NEW tm, NEW n, NEW x, NEW t, OnTheWay(f, tm, n, x, t),
                       NEW c \in {"d", "H", "M", "S"}, NEW g, g = Two(c),
                       NEW p, NEW q, Row(f, tm, n, Plain(c), p, q, g), q = p + 2, TwoAt(t, p, tm[g])
                PROVE  Does(f, tm, n, x, Convert(t, x, Fmt[f][n]))
<1>1. x \in States /\ x.pos = p /\ Fmt[f][n] = Plain(c) /\ tm \in Times
  BY DEF Row, OnTheWay, Reached
<1>2. PICK v : v = tm[g]
  OBVIOUS
<1>3. v \in Number[c].lo..Number[c].hi
  <2>1. \/ c = "d" /\ g = "mday" /\ Number[c].lo = 1 /\ Number[c].hi = 31
        \/ c = "H" /\ g = "hour" /\ Number[c].lo = 0 /\ Number[c].hi = 23
        \/ c = "M" /\ g = "min" /\ Number[c].lo = 0 /\ Number[c].hi = 59
        \/ c = "S" /\ g = "sec" /\ Number[c].lo = 0 /\ Number[c].hi = 61
    BY DEF Number, Num, Two
  <2>2. tm["mday"] \in 1..31 /\ tm["hour"] \in 0..23 /\ tm["min"] \in 0..59 /\ tm["sec"] \in 0..60
    BY <1>1, TimeIs
  <2> QED
    BY <1>2, <2>1, <2>2
<1>4. TwoAt(t, x.pos, v)
  BY <1>1, <1>2
<1>5. Convert(t, x, Plain(c)) = Sets(x, x.pos + 2, Two(c), v)
  BY <1>3, <1>4, TwoTaken
<1>6. Want(f, tm, g) = v /\ g \in Fields
  BY <1>2, WithinIs DEF Want, Two
<1>7. Convert(t, x, Fmt[f][n]) = Sets(x, q, g, Want(f, tm, g))
  BY <1>1, <1>5, <1>6
<1> QED
  BY <1>1, <1>6, <1>7, DoesSet

LEMMA RowOne == ASSUME NEW f, NEW tm, NEW n, NEW x, NEW t, OnTheWay(f, tm, n, x, t),
                       NEW p, NEW q, Row(f, tm, n, Plain("d"), p, q, "mday"), q = p + 1,
                       OneAt(t, p, tm["mday"])
                PROVE  Does(f, tm, n, x, Convert(t, x, Fmt[f][n]))
<1>1. x \in States /\ x.pos = p /\ Fmt[f][n] = Plain("d") /\ tm \in Times
  BY DEF Row, OnTheWay, Reached
<1>2. PICK v : v = tm["mday"]
  OBVIOUS
<1>3. v # 0 /\ OneAt(t, x.pos, v)
  BY <1>1, <1>2, TimeIs
<1>4. Convert(t, x, Plain("d")) = Sets(x, x.pos + 1, "mday", v)
  BY <1>3, OneTaken
<1>5. Want(f, tm, "mday") = v /\ "mday" \in Fields
  BY <1>2, WithinIs DEF Want
<1>6. Convert(t, x, Fmt[f][n]) = Sets(x, q, "mday", Want(f, tm, "mday"))
  BY <1>1, <1>4, <1>5
<1> QED
  BY <1>1, <1>5, <1>6, DoesSet

LEMMA RowFour == ASSUME NEW f, f # "rfc1036", NEW tm, NEW n, NEW x, NEW t, OnTheWay(f, tm, n, x, t),
                        NEW p, NEW q, Row(f, tm, n, Plain("Y"), p, q, "year"), q = p + 4,
                        FourAt(t, p, tm["year"] + 1900)
                 PROVE  Does(f, tm, n, x, Convert(t, x, Fmt[f][n]))
<1>1. x \in States /\ x.pos = p /\ Fmt[f][n] = Plain("Y") /\ tm \in Times
  BY DEF Row, OnTheWay, Reached
<1>2. PICK y : y = tm["year"] + 1900
  OBVIOUS
<1>3. FourAt(t, x.pos, y)
  BY <1>1, <1>2
<1>4. Convert(t, x, Plain("Y")) = Sets(x, x.pos + 4, "year", y - 1900)
  BY <1>3, FourTaken
<1>5. Want(f, tm, "year") = tm["year"] /\ "year" \in Fields /\ y - 1900 = tm["year"]
  BY <1>1, <1>2, WithinIs, TimeIs DEF Want
<1>6. Convert(t, x, Fmt[f][n]) = Sets(x, q, "year", Want(f, tm, "year"))
  BY <1>1, <1>4, <1>5
<1> QED
  BY <1>1, <1>5, <1>6, DoesSet

LEMMA RowYear == ASSUME NEW tm, NEW x, NEW t, OnTheWay("rfc1036", tm, 8, x, t),
                        TwoAt(t, 9, tm["year"] + 1900)
                 PROVE  Does("rfc1036", tm, 8, x, Convert(t, x, Fmt["rfc1036"][8]))
<1>1. x \in States /\ x.pos = 9 /\ Fmt["rfc1036"][8] = Plain("y") /\ tm \in Times /\ ~ x.split
  BY Rows1036 DEF Row, OnTheWay, Reached
<1>2. PICK y : y = tm["year"]
  OBVIOUS
<1>3. y \in Int /\ TwoAt(t, x.pos, y + 1900)
  BY <1>1, <1>2, TimeIs
<1>4. Convert(t, x, Plain("y")) = SetsYear(x, x.pos + 2, Century(y))
  BY <1>1, <1>3, YearTaken
<1>5. Want("rfc1036", tm, "year") = Century(y) /\ "year" \in Fields
  BY <1>2, WithinIs DEF Want
<1>6. PICK k : k = Put(x.tm, "year", Century(y))
  OBVIOUS
<1>7. Convert(t, x, Fmt["rfc1036"][8]) = [pos |-> 11, tm |-> k, split |-> TRUE]
  BY <1>1, <1>4, <1>6 DEF SetsYear
<1>8. Place("rfc1036", tm)[8 + 1] = 11 /\ Gets("rfc1036")[8] = "year"
  BY Rows1036 DEF Row
<1> QED
  BY <1>5, <1>6, <1>7, <1>8 DEF Does

(***************************************************************************)
(* Every conversion of a format reads on in the format's own text          *)
(***************************************************************************)
LEMMA NoSpace == /\ Comma # Space /\ Colon # Space /\ Dash # Space /\ "GMT" # Space
                 /\ \A i \in 1..12 : abmon[i] # Space
                 /\ \A t, p, n : TwoAt(t, p, n) /\ n \in Int => t[p] # Space
                 /\ \A t, p, n : OneAt(t, p, n) => t[p] # Space
                 /\ \A t, p, n : FourAt(t, p, n) => t[p] # Space
<1>1. Comma # Space
  BY DEF Comma, Space
<1>2. Colon # Space
  BY DEF Colon, Space
<1>3. Dash # Space
  BY DEF Dash, Space
<1>4. "GMT" # Space
  BY DEF Space
<1>5. \A i \in 1..12 : abmon[i] # Space
  <2>1. Space \notin {"Jan", "Feb", "Mar", "Apr", "May", "Jun", "Jul", "Aug", "Sep", "Oct", "Nov", "Dec"}
    BY DEF Space
  <2>2. \A i \in 1..12 : abmon[i] \in {"Jan", "Feb", "Mar", "Apr", "May", "Jun", "Jul", "Aug", "Sep",
                                        "Oct", "Nov", "Dec"}
    BY DEF abmon
  <2> QED
    BY <2>1, <2>2
<1>6. Space \notin Digit
  <2>1. Space \notin {"0", "1", "2", "3", "4", "5", "6", "7", "8", "9"}
    BY DEF Space
  <2>2. \A i \in 1..10 : Digits[i] \in {"0", "1", "2", "3", "4", "5", "6", "7", "8", "9"}
    BY DEF Digits
  <2> QED
    BY <2>1, <2>2 DEF Digit
<1>7. ASSUME NEW t, NEW p, NEW n \in Int, TwoAt(t, p, n) PROVE t[p] # Space
  BY <1>6, <1>7, DigitsWritten DEF TwoAt
<1>8. ASSUME NEW t, NEW p, NEW n, OneAt(t, p, n) PROVE t[p] # Space
  <2>1. n \in Int /\ t[p] = Ones(n)
    BY <1>8 DEF OneAt
  <2> QED
    BY <1>6, <2>1, DigitsWritten
<1>9. ASSUME NEW t, NEW p, NEW n, FourAt(t, p, n) PROVE t[p] # Space
  <2>1. n \div 100 \in Int /\ t[p] = Tens(n \div 100)
    BY <1>9 DEF FourAt, Limit
  <2> QED
    BY <1>6, <2>1, DigitsWritten
<1> QED
  BY <1>1, <1>2, <1>3, <1>4, <1>5, <1>7, <1>8, <1>9

LEMMA Steps1123 == ASSUME NEW tm, NEW x, NEW t, NEW n \in 1..16, OnTheWay("rfc1123", tm, n, x, t)
                   PROVE  Does("rfc1123", tm, n, x, Convert(t, x, Fmt["rfc1123"][n]))
<1>a. t = Text("rfc1123", tm) /\ tm \in Times
  BY DEF OnTheWay
<1>b. /\ Len(t) = 23
      /\ t[1] = abday[tm["wday"] + 1] /\ t[2] = Comma /\ t[3] = Space
      /\ TwoAt(t, 4, tm["mday"]) /\ t[6] = Space
      /\ t[7] = abmon[tm["mon"] + 1] /\ t[8] = Space
      /\ FourAt(t, 9, tm["year"] + 1900) /\ t[13] = Space
      /\ TwoAt(t, 14, tm["hour"]) /\ t[16] = Colon
      /\ TwoAt(t, 17, tm["min"]) /\ t[19] = Colon
      /\ TwoAt(t, 20, tm["sec"]) /\ t[22] = Space /\ t[23] = "GMT"
  BY <1>a, TextOf1123
<1>c. t[4] # Space /\ t[7] # Space /\ t[9] # Space /\ t[14] # Space /\ t[23] # Space
  <2>1. tm["mday"] \in Int /\ tm["hour"] \in Int /\ tm["mon"] + 1 \in 1..12
    BY <1>a, TimeIs
  <2> QED
    BY <1>b, <2>1, NoSpace
<1>1. CASE n = 1
  <2>1. Row("rfc1123", tm, 1, Plain("a"), 1, 2, "wday") /\ OnTheWay("rfc1123", tm, 1, x, t)
    BY <1>1, Rows1123
  <2>2. DayAt(t, tm, 1, 2)
    BY <1>b DEF DayAt
  <2> QED
    BY <1>1, <2>1, <2>2, RowDay
<1>2. CASE n = 2
  <2>1. Row("rfc1123", tm, 2, Lit(Comma), 2, 3, "none") /\ OnTheWay("rfc1123", tm, 2, x, t)
    BY <1>2, Rows1123
  <2>2. LitAt(t, Comma, 2, 3)
    BY <1>b, NoSpace DEF LitAt
  <2> QED
    BY <1>2, <2>1, <2>2, RowLit
<1>3. CASE n = 3
  <2>1. Row("rfc1123", tm, 3, Blank, 3, 4, "none") /\ OnTheWay("rfc1123", tm, 3, x, t)
    BY <1>3, Rows1123
  <2>2. BlanksAt(t, 3, 4)
    BY <1>b, <1>c DEF BlanksAt
  <2> QED
    BY <1>3, <2>1, <2>2, RowBlank
<1>4. CASE n = 4
  <2>1. Row("rfc1123", tm, 4, Plain("d"), 4, 6, "mday") /\ OnTheWay("rfc1123", tm, 4, x, t)
    BY <1>4, Rows1123
  <2>2. TwoAt(t, 4, tm["mday"]) /\ "mday" = Two("d")
    BY <1>b DEF Two
  <2> QED
    BY <1>4, <2>1, <2>2, RowTwo
<1>5. CASE n = 5
  <2>1. Row("rfc1123", tm, 5, Blank, 6, 7, "none") /\ OnTheWay("rfc1123", tm, 5, x, t)
    BY <1>5, Rows1123
  <2>2. BlanksAt(t, 6, 7)
    BY <1>b, <1>c DEF BlanksAt
  <2> QED
    BY <1>5, <2>1, <2>2, RowBlank
<1>6. CASE n = 6
  <2>1. Row("rfc1123", tm, 6, Plain("b"), 7, 8, "mon") /\ OnTheWay("rfc1123", tm, 6, x, t)
    BY <1>6, Rows1123
  <2>2. MonthAt(t, tm, 7, 8)
    BY <1>b DEF MonthAt
  <2> QED
    BY <1>6, <2>1, <2>2, RowMonth
<1>7. CASE n = 7
  <2>1. Row("rfc1123", tm, 7, Blank, 8, 9, "none") /\ OnTheWay("rfc1123", tm, 7, x, t)
    BY <1>7, Rows1123
  <2>2. BlanksAt(t, 8, 9)
    BY <1>b, <1>c DEF BlanksAt
  <2> QED
    BY <1>7, <2>1, <2>2, RowBlank
<1>8. CASE n = 8
  <2>1. Row("rfc1123", tm, 8, Plain("Y"), 9, 13, "year") /\ OnTheWay("rfc1123", tm, 8, x, t)
    BY <1>8, Rows1123
  <2>2. FourAt(t, 9, tm["year"] + 1900)
    BY <1>b
  <2> QED
    BY <1>8, <2>1, <2>2, RowFour
<1>9. CASE n = 9
  <2>1. Row("rfc1123", tm, 9, Blank, 13, 14, "none") /\ OnTheWay("rfc1123", tm, 9, x, t)
    BY <1>9, Rows1123
  <2>2. BlanksAt(t, 13, 14)
    BY <1>b, <1>c DEF BlanksAt
  <2> QED
    BY <1>9, <2>1, <2>2, RowBlank
<1>10. CASE n = 10
  <2>1. Row("rfc1123", tm, 10, Plain("H"), 14, 16, "hour") /\ OnTheWay("rfc1123", tm, 10, x, t)
    BY <1>10, Rows1123
  <2>2. TwoAt(t, 14, tm["hour"]) /\ "hour" = Two("H")
    BY <1>b DEF Two
  <2> QED
    BY <1>10, <2>1, <2>2, RowTwo
<1>11. CASE n = 11
  <2>1. Row("rfc1123", tm, 11, Lit(Colon), 16, 17, "none") /\ OnTheWay("rfc1123", tm, 11, x, t)
    BY <1>11, Rows1123
  <2>2. LitAt(t, Colon, 16, 17)
    BY <1>b, NoSpace DEF LitAt
  <2> QED
    BY <1>11, <2>1, <2>2, RowLit
<1>12. CASE n = 12
  <2>1. Row("rfc1123", tm, 12, Plain("M"), 17, 19, "min") /\ OnTheWay("rfc1123", tm, 12, x, t)
    BY <1>12, Rows1123
  <2>2. TwoAt(t, 17, tm["min"]) /\ "min" = Two("M")
    BY <1>b DEF Two
  <2> QED
    BY <1>12, <2>1, <2>2, RowTwo
<1>13. CASE n = 13
  <2>1. Row("rfc1123", tm, 13, Lit(Colon), 19, 20, "none") /\ OnTheWay("rfc1123", tm, 13, x, t)
    BY <1>13, Rows1123
  <2>2. LitAt(t, Colon, 19, 20)
    BY <1>b, NoSpace DEF LitAt
  <2> QED
    BY <1>13, <2>1, <2>2, RowLit
<1>14. CASE n = 14
  <2>1. Row("rfc1123", tm, 14, Plain("S"), 20, 22, "sec") /\ OnTheWay("rfc1123", tm, 14, x, t)
    BY <1>14, Rows1123
  <2>2. TwoAt(t, 20, tm["sec"]) /\ "sec" = Two("S")
    BY <1>b DEF Two
  <2> QED
    BY <1>14, <2>1, <2>2, RowTwo
<1>15. CASE n = 15
  <2>1. Row("rfc1123", tm, 15, Blank, 22, 23, "none") /\ OnTheWay("rfc1123", tm, 15, x, t)
    BY <1>15, Rows1123
  <2>2. BlanksAt(t, 22, 23)
    BY <1>b, <1>c DEF BlanksAt
  <2> QED
    BY <1>15, <2>1, <2>2, RowBlank
<1>16. CASE n = 16
  <2>1. Row("rfc1123", tm, 16, Lit("GMT"), 23, 24, "none") /\ OnTheWay("rfc1123", tm, 16, x, t)
    BY <1>16, Rows1123
  <2>2. LitAt(t, "GMT", 23, 24)
    BY <1>b, NoSpace DEF LitAt
  <2> QED
    BY <1>16, <2>1, <2>2, RowLit
<1> QED
  BY <1>1, <1>2, <1>3, <1>4, <1>5, <1>6, <1>7, <1>8, <1>9, <1>10, <1>11, <1>12, <1>13, <1>14, <1>15, <1>16

LEMMA Steps1036 == ASSUME NEW tm, NEW x, NEW t, NEW n \in 1..16, OnTheWay("rfc1036", tm, n, x, t)
                   PROVE  Does("rfc1036", tm, n, x, Convert(t, x, Fmt["rfc1036"][n]))
<1>a. t = Text("rfc1036", tm) /\ tm \in Times
  BY DEF OnTheWay
<1>b. /\ Len(t) = 21
      /\ t[1] = day[tm["wday"] + 1] /\ t[2] = Comma /\ t[3] = Space
      /\ TwoAt(t, 4, tm["mday"]) /\ t[6] = Dash
      /\ t[7] = abmon[tm["mon"] + 1] /\ t[8] = Dash
      /\ TwoAt(t, 9, tm["year"] + 1900) /\ t[11] = Space
      /\ TwoAt(t, 12, tm["hour"]) /\ t[14] = Colon
      /\ TwoAt(t, 15, tm["min"]) /\ t[17] = Colon
      /\ TwoAt(t, 18, tm["sec"]) /\ t[20] = Space /\ t[21] = "GMT"
  BY <1>a, TextOf1036
<1>c. t[4] # Space /\ t[12] # Space /\ t[21] # Space
  <2>1. tm["mday"] \in Int /\ tm["hour"] \in Int /\ tm["mon"] + 1 \in 1..12
    BY <1>a, TimeIs
  <2> QED
    BY <1>b, <2>1, NoSpace
<1>1. CASE n = 1
  <2>1. Row("rfc1036", tm, 1, Plain("A"), 1, 2, "wday") /\ OnTheWay("rfc1036", tm, 1, x, t)
    BY <1>1, Rows1036
  <2>2. DayAt(t, tm, 1, 2)
    BY <1>b DEF DayAt
  <2> QED
    BY <1>1, <2>1, <2>2, RowDay
<1>2. CASE n = 2
  <2>1. Row("rfc1036", tm, 2, Lit(Comma), 2, 3, "none") /\ OnTheWay("rfc1036", tm, 2, x, t)
    BY <1>2, Rows1036
  <2>2. LitAt(t, Comma, 2, 3)
    BY <1>b, NoSpace DEF LitAt
  <2> QED
    BY <1>2, <2>1, <2>2, RowLit
<1>3. CASE n = 3
  <2>1. Row("rfc1036", tm, 3, Blank, 3, 4, "none") /\ OnTheWay("rfc1036", tm, 3, x, t)
    BY <1>3, Rows1036
  <2>2. BlanksAt(t, 3, 4)
    BY <1>b, <1>c DEF BlanksAt
  <2> QED
    BY <1>3, <2>1, <2>2, RowBlank
<1>4. CASE n = 4
  <2>1. Row("rfc1036", tm, 4, Plain("d"), 4, 6, "mday") /\ OnTheWay("rfc1036", tm, 4, x, t)
    BY <1>4, Rows1036
  <2>2. TwoAt(t, 4, tm["mday"]) /\ "mday" = Two("d")
    BY <1>b DEF Two
  <2> QED
    BY <1>4, <2>1, <2>2, RowTwo
<1>5. CASE n = 5
  <2>1. Row("rfc1036", tm, 5, Lit(Dash), 6, 7, "none") /\ OnTheWay("rfc1036", tm, 5, x, t)
    BY <1>5, Rows1036
  <2>2. LitAt(t, Dash, 6, 7)
    BY <1>b, NoSpace DEF LitAt
  <2> QED
    BY <1>5, <2>1, <2>2, RowLit
<1>6. CASE n = 6
  <2>1. Row("rfc1036", tm, 6, Plain("b"), 7, 8, "mon") /\ OnTheWay("rfc1036", tm, 6, x, t)
    BY <1>6, Rows1036
  <2>2. MonthAt(t, tm, 7, 8)
    BY <1>b DEF MonthAt
  <2> QED
    BY <1>6, <2>1, <2>2, RowMonth
<1>7. CASE n = 7
  <2>1. Row("rfc1036", tm, 7, Lit(Dash), 8, 9, "none") /\ OnTheWay("rfc1036", tm, 7, x, t)
    BY <1>7, Rows1036
  <2>2. LitAt(t, Dash, 8, 9)
    BY <1>b, NoSpace DEF LitAt
  <2> QED
    BY <1>7, <2>1, <2>2, RowLit
<1>8. CASE n = 8
  <2>1. TwoAt(t, 9, tm["year"] + 1900) /\ OnTheWay("rfc1036", tm, 8, x, t)
    BY <1>a, <1>8, TextOf1036
  <2> QED
    BY <1>8, <2>1, RowYear
<1>9. CASE n = 9
  <2>1. Row("rfc1036", tm, 9, Blank, 11, 12, "none") /\ OnTheWay("rfc1036", tm, 9, x, t)
    BY <1>9, Rows1036
  <2>2. BlanksAt(t, 11, 12)
    BY <1>b, <1>c DEF BlanksAt
  <2> QED
    BY <1>9, <2>1, <2>2, RowBlank
<1>10. CASE n = 10
  <2>1. Row("rfc1036", tm, 10, Plain("H"), 12, 14, "hour") /\ OnTheWay("rfc1036", tm, 10, x, t)
    BY <1>10, Rows1036
  <2>2. TwoAt(t, 12, tm["hour"]) /\ "hour" = Two("H")
    BY <1>b DEF Two
  <2> QED
    BY <1>10, <2>1, <2>2, RowTwo
<1>11. CASE n = 11
  <2>1. Row("rfc1036", tm, 11, Lit(Colon), 14, 15, "none") /\ OnTheWay("rfc1036", tm, 11, x, t)
    BY <1>11, Rows1036
  <2>2. LitAt(t, Colon, 14, 15)
    BY <1>b, NoSpace DEF LitAt
  <2> QED
    BY <1>11, <2>1, <2>2, RowLit
<1>12. CASE n = 12
  <2>1. Row("rfc1036", tm, 12, Plain("M"), 15, 17, "min") /\ OnTheWay("rfc1036", tm, 12, x, t)
    BY <1>12, Rows1036
  <2>2. TwoAt(t, 15, tm["min"]) /\ "min" = Two("M")
    BY <1>b DEF Two
  <2> QED
    BY <1>12, <2>1, <2>2, RowTwo
<1>13. CASE n = 13
  <2>1. Row("rfc1036", tm, 13, Lit(Colon), 17, 18, "none") /\ OnTheWay("rfc1036", tm, 13, x, t)
    BY <1>13, Rows1036
  <2>2. LitAt(t, Colon, 17, 18)
    BY <1>b, NoSpace DEF LitAt
  <2> QED
    BY <1>13, <2>1, <2>2, RowLit
<1>14. CASE n = 14
  <2>1. Row("rfc1036", tm, 14, Plain("S"), 18, 20, "sec") /\ OnTheWay("rfc1036", tm, 14, x, t)
    BY <1>14, Rows1036
  <2>2. TwoAt(t, 18, tm["sec"]) /\ "sec" = Two("S")
    BY <1>b DEF Two
  <2> QED
    BY <1>14, <2>1, <2>2, RowTwo
<1>15. CASE n = 15
  <2>1. Row("rfc1036", tm, 15, Blank, 20, 21, "none") /\ OnTheWay("rfc1036", tm, 15, x, t)
    BY <1>15, Rows1036
  <2>2. BlanksAt(t, 20, 21)
    BY <1>b, <1>c DEF BlanksAt
  <2> QED
    BY <1>15, <2>1, <2>2, RowBlank
<1>16. CASE n = 16
  <2>1. Row("rfc1036", tm, 16, Lit("GMT"), 21, 22, "none") /\ OnTheWay("rfc1036", tm, 16, x, t)
    BY <1>16, Rows1036
  <2>2. LitAt(t, "GMT", 21, 22)
    BY <1>b, NoSpace DEF LitAt
  <2> QED
    BY <1>16, <2>1, <2>2, RowLit
<1> QED
  BY <1>1, <1>2, <1>3, <1>4, <1>5, <1>6, <1>7, <1>8, <1>9, <1>10, <1>11, <1>12, <1>13, <1>14, <1>15, <1>16

LEMMA StepsAsctime == ASSUME NEW tm, NEW x, NEW t, NEW n \in 1..13, OnTheWay("asctime", tm, n, x, t)
                   PROVE  Does("asctime", tm, n, x, Convert(t, x, Fmt["asctime"][n]))
<1>a. t = Text("asctime", tm) /\ tm \in Times
  BY DEF OnTheWay
<1>b. /\ Len(t) = 20
      /\ t[1] = abday[tm["wday"] + 1] /\ t[2] = Space
      /\ t[3] = abmon[tm["mon"] + 1] /\ t[4] = Space
      /\ Padded(t, tm["mday"]) /\ t[7] = Space
      /\ TwoAt(t, 8, tm["hour"]) /\ t[10] = Colon
      /\ TwoAt(t, 11, tm["min"]) /\ t[13] = Colon
      /\ TwoAt(t, 14, tm["sec"]) /\ t[16] = Space
      /\ FourAt(t, 17, tm["year"] + 1900)
  BY <1>a, TextOfAsctime
<1>c. t[3] # Space /\ t[8] # Space /\ t[17] # Space
  <2>1. tm["mday"] \in Int /\ tm["hour"] \in Int /\ tm["mon"] + 1 \in 1..12
    BY <1>a, TimeIs
  <2> QED
    BY <1>b, <2>1, NoSpace
<1>d. PICK d : d = IF tm["mday"] < 10 THEN 6 ELSE 5
  OBVIOUS
<1>1. CASE n = 1
  <2>1. Row("asctime", tm, 1, Plain("a"), 1, 2, "wday") /\ OnTheWay("asctime", tm, 1, x, t)
    BY <1>1, RowsAsctime, <1>d
  <2>2. DayAt(t, tm, 1, 2)
    BY <1>b DEF DayAt
  <2> QED
    BY <1>1, <2>1, <2>2, RowDay
<1>2. CASE n = 2
  <2>1. Row("asctime", tm, 2, Blank, 2, 3, "none") /\ OnTheWay("asctime", tm, 2, x, t)
    BY <1>2, RowsAsctime, <1>d
  <2>2. BlanksAt(t, 2, 3)
    BY <1>b, <1>c DEF BlanksAt
  <2> QED
    BY <1>2, <2>1, <2>2, RowBlank
<1>3. CASE n = 3
  <2>1. Row("asctime", tm, 3, Plain("b"), 3, 4, "mon") /\ OnTheWay("asctime", tm, 3, x, t)
    BY <1>3, RowsAsctime, <1>d
  <2>2. MonthAt(t, tm, 3, 4)
    BY <1>b DEF MonthAt
  <2> QED
    BY <1>3, <2>1, <2>2, RowMonth
<1>4. CASE n = 4
  <2>1. Row("asctime", tm, 4, Blank, 4, d, "none") /\ OnTheWay("asctime", tm, 4, x, t)
    BY <1>4, RowsAsctime, <1>d
  <2>2. t[4] = Space /\ Padded(t, tm["mday"]) /\ Len(t) = 20 /\ tm["mday"] \in 1..31
    BY <1>a, TextOfAsctime, TimeIs
  <2>3. CASE tm["mday"] < 10
    <3>1. d = 6 /\ t[5] = Space /\ t[6] # Space
      BY <1>d, <2>2, <2>3, NoSpace DEF Padded
    <3>2. BlanksAt(t, 4, d)
      BY <2>2, <3>1 DEF BlanksAt
    <3> QED
      BY <1>4, <2>1, <3>2, RowBlank
  <2>4. CASE ~ (tm["mday"] < 10)
    <3>1. d = 5 /\ t[5] # Space
      BY <1>d, <2>2, <2>4, NoSpace DEF Padded
    <3>2. BlanksAt(t, 4, d)
      BY <2>2, <3>1 DEF BlanksAt
    <3> QED
      BY <1>4, <2>1, <3>2, RowBlank
  <2> QED
    BY <2>3, <2>4
<1>5. CASE n = 5
  <2>1. Row("asctime", tm, 5, Plain("d"), d, 7, "mday") /\ OnTheWay("asctime", tm, 5, x, t)
    BY <1>5, RowsAsctime, <1>d
  <2>2. Padded(t, tm["mday"])
    BY <1>a, TextOfAsctime
  <2>3. CASE tm["mday"] < 10
    <3>1. d = 6 /\ OneAt(t, 6, tm["mday"])
      BY <1>d, <2>2, <2>3 DEF Padded
    <3> QED
      BY <1>5, <2>1, <3>1, RowOne
  <2>4. CASE ~ (tm["mday"] < 10)
    <3>1. d = 5 /\ TwoAt(t, 5, tm["mday"]) /\ "mday" = Two("d")
      BY <1>d, <2>2, <2>4 DEF Padded, Two
    <3> QED
      BY <1>5, <2>1, <3>1, RowTwo
  <2> QED
    BY <2>3, <2>4
<1>6. CASE n = 6
  <2>1. Row("asctime", tm, 6, Blank, 7, 8, "none") /\ OnTheWay("asctime", tm, 6, x, t)
    BY <1>6, RowsAsctime, <1>d
  <2>2. BlanksAt(t, 7, 8)
    BY <1>b, <1>c DEF BlanksAt
  <2> QED
    BY <1>6, <2>1, <2>2, RowBlank
<1>7. CASE n = 7
  <2>1. Row("asctime", tm, 7, Plain("H"), 8, 10, "hour") /\ OnTheWay("asctime", tm, 7, x, t)
    BY <1>7, RowsAsctime, <1>d
  <2>2. TwoAt(t, 8, tm["hour"]) /\ "hour" = Two("H")
    BY <1>b DEF Two
  <2> QED
    BY <1>7, <2>1, <2>2, RowTwo
<1>8. CASE n = 8
  <2>1. Row("asctime", tm, 8, Lit(Colon), 10, 11, "none") /\ OnTheWay("asctime", tm, 8, x, t)
    BY <1>8, RowsAsctime, <1>d
  <2>2. LitAt(t, Colon, 10, 11)
    BY <1>b, NoSpace DEF LitAt
  <2> QED
    BY <1>8, <2>1, <2>2, RowLit
<1>9. CASE n = 9
  <2>1. Row("asctime", tm, 9, Plain("M"), 11, 13, "min") /\ OnTheWay("asctime", tm, 9, x, t)
    BY <1>9, RowsAsctime, <1>d
  <2>2. TwoAt(t, 11, tm["min"]) /\ "min" = Two("M")
    BY <1>b DEF Two
  <2> QED
    BY <1>9, <2>1, <2>2, RowTwo
<1>10. CASE n = 10
  <2>1. Row("asctime", tm, 10, Lit(Colon), 13, 14, "none") /\ OnTheWay("asctime", tm, 10, x, t)
    BY <1>10, RowsAsctime, <1>d
  <2>2. LitAt(t, Colon, 13, 14)
    BY <1>b, NoSpace DEF LitAt
  <2> QED
    BY <1>10, <2>1, <2>2, RowLit
<1>11. CASE n = 11
  <2>1. Row("asctime", tm, 11, Plain("S"), 14, 16, "sec") /\ OnTheWay("asctime", tm, 11, x, t)
    BY <1>11, RowsAsctime, <1>d
  <2>2. TwoAt(t, 14, tm["sec"]) /\ "sec" = Two("S")
    BY <1>b DEF Two
  <2> QED
    BY <1>11, <2>1, <2>2, RowTwo
<1>12. CASE n = 12
  <2>1. Row("asctime", tm, 12, Blank, 16, 17, "none") /\ OnTheWay("asctime", tm, 12, x, t)
    BY <1>12, RowsAsctime, <1>d
  <2>2. BlanksAt(t, 16, 17)
    BY <1>b, <1>c DEF BlanksAt
  <2> QED
    BY <1>12, <2>1, <2>2, RowBlank
<1>13. CASE n = 13
  <2>1. Row("asctime", tm, 13, Plain("Y"), 17, 21, "year") /\ OnTheWay("asctime", tm, 13, x, t)
    BY <1>13, RowsAsctime, <1>d
  <2>2. FourAt(t, 17, tm["year"] + 1900)
    BY <1>b
  <2> QED
    BY <1>13, <2>1, <2>2, RowFour
<1> QED
  BY <1>1, <1>2, <1>3, <1>4, <1>5, <1>6, <1>7, <1>8, <1>9, <1>10, <1>11, <1>12, <1>13

(***************************************************************************)
(* The formats that are tried before the one a text was written in         *)
(***************************************************************************)
Earlier == {<<"rfc1123", "rfc1036">>, <<"rfc1123", "asctime">>, <<"rfc1036", "asctime">>}
\* The conversion of f that fails on a text of w, and where those before it begin.
FailsAt(f, w) == IF w = "asctime" THEN 2 ELSE 6
Off(f, w, n, x) == /\ n \in 1..(FailsAt(f, w) + 1)
                   /\ x.pos = IF n > FailsAt(f, w) THEN 0 ELSE <<1, 2, 3, 4, 6, 6>>[n]

LEMMA OffAsctime == ASSUME NEW f \in {"rfc1123", "rfc1036"}, NEW tm \in Times, NEW t, t = Text("asctime", tm),
                           NEW n, NEW x, Off(f, "asctime", n, x), x.pos # 0
                    PROVE  Off(f, "asctime", n + 1, Convert(t, x, Fmt[f][n]))
<1>a. FailsAt(f, "asctime") = 2 /\ n \in 1..2 /\ x.pos = <<1, 2, 3, 4, 6, 6>>[n]
  BY DEF Off, FailsAt
<1>b. t \in Texts /\ Len(t) = 20 /\ t[1] = abday[tm["wday"] + 1] /\ t[2] = Space /\ tm["wday"] + 1 \in 1..7
  BY TextOfAsctime, TimeIs
<1>1. CASE n = 1
  <2>1. x.pos = 1 /\ x.pos \in 1..Len(t)
    BY <1>a, <1>b, <1>1
  <2>2. PICK c \in {"a", "A"} : Fmt[f][1] = Plain(c)
    BY Rows1123, Rows1036 DEF Row
  <2>3. PICK i : i = tm["wday"] + 1
    OBVIOUS
  <2>4. i \in 1..7 /\ t[x.pos] \in {day[i], abday[i]}
    BY <1>b, <2>1, <2>3
  <2>5. Convert(t, x, Plain(c)) = Sets(x, x.pos + 1, "wday", i - 1)
    BY <1>b, <2>1, <2>4, DayTaken
  <2>6. Convert(t, x, Fmt[f][n]).pos = 2
    BY <1>1, <2>1, <2>2, <2>5 DEF Sets
  <2> QED
    BY <1>a, <1>1, <2>6 DEF Off
<1>2. CASE n = 2
  <2>1. x.pos = 2 /\ x.pos \in 1..Len(t) /\ Comma # Space
    BY <1>a, <1>b, <1>2, NoSpace
  <2>2. Fmt[f][2] = Lit(Comma)
    BY Rows1123, Rows1036 DEF Row
  <2>3. Convert(t, x, Lit(Comma)) = Moves(x, 0)
    BY <1>b, <2>1, LiteralFails
  <2>4. Convert(t, x, Fmt[f][n]).pos = 0
    BY <1>2, <2>2, <2>3 DEF Moves
  <2> QED
    BY <1>a, <1>2, <2>4 DEF Off
<1> QED
  BY <1>a, <1>1, <1>2

LEMMA Off1036 == ASSUME NEW tm \in Times, NEW t, t = Text("rfc1036", tm),
                        NEW n, NEW x, Off("rfc1123", "rfc1036", n, x), x.pos # 0
                 PROVE  Off("rfc1123", "rfc1036", n + 1, Convert(t, x, Fmt["rfc1123"][n]))
<1>a. FailsAt("rfc1123", "rfc1036") = 6 /\ n \in 1..6 /\ x.pos = <<1, 2, 3, 4, 6, 6>>[n]
  BY DEF Off, FailsAt
<1>b. /\ t \in Texts /\ Len(t) = 21 /\ t[1] = day[tm["wday"] + 1] /\ t[2] = Comma /\ t[3] = Space
      /\ TwoAt(t, 4, tm["mday"]) /\ t[6] = Dash /\ tm["wday"] + 1 \in 1..7 /\ tm["mday"] \in 1..31
  BY TextOf1036, TimeIs
<1>c. PICK y : y = Convert(t, x, Fmt["rfc1123"][n])
  OBVIOUS
<1>d. y.pos = <<2, 3, 4, 6, 6, 0>>[n] => Off("rfc1123", "rfc1036", n + 1, y)
  BY <1>a DEF Off
<1>1. CASE n = 1
  <2>1. x.pos = 1 /\ x.pos \in 1..Len(t)
    BY <1>a, <1>b, <1>1
  <2>2. Fmt["rfc1123"][1] = Plain("a")
    BY Rows1123 DEF Row
  <2>3. PICK i : i = tm["wday"] + 1
    OBVIOUS
  <2>4. i \in 1..7 /\ t[x.pos] \in {day[i], abday[i]}
    BY <1>b, <2>1, <2>3
  <2>5. Convert(t, x, Plain("a")) = Sets(x, x.pos + 1, "wday", i - 1)
    BY <1>b, <2>1, <2>4, DayTaken
  <2>6. y.pos = 2
    BY <1>c, <1>1, <2>1, <2>2, <2>5 DEF Sets
  <2> QED
    BY <1>c, <1>d, <1>1, <2>6
<1>2. CASE n = 2
  <2>1. x.pos = 2 /\ x.pos \in 1..Len(t) /\ Comma # Space /\ t[x.pos] = Comma
    BY <1>a, <1>b, <1>2, NoSpace
  <2>2. Fmt["rfc1123"][2] = Lit(Comma)
    BY Rows1123 DEF Row
  <2>3. Convert(t, x, Lit(Comma)) = Moves(x, x.pos + 1)
    BY <1>b, <2>1, LiteralTaken
  <2>4. y.pos = 3
    BY <1>c, <1>2, <2>1, <2>2, <2>3 DEF Moves
  <2> QED
    BY <1>c, <1>d, <1>2, <2>4
<1>3. CASE n = 3
  <2>1. x.pos = 3 /\ t[4] # Space
    BY <1>a, <1>b, <1>3, NoSpace
  <2>2. Fmt["rfc1123"][3] = Blank
    BY Rows1123 DEF Row
  <2>3. /\ x.pos \in 1..Len(t) /\ 4 \in x.pos..Len(t) /\ \A r \in x.pos..(4 - 1) : t[r] = Space
    BY <1>b, <2>1
  <2>4. Convert(t, x, Blank) = Moves(x, 4)
    BY <1>b, <2>1, <2>3, BlankTaken
  <2>5. y.pos = 4
    BY <1>c, <1>3, <2>2, <2>4 DEF Moves
  <2> QED
    BY <1>c, <1>d, <1>3, <2>5
<1>4. CASE n = 4
  <2>1. x.pos = 4
    BY <1>a, <1>4
  <2>2. Fmt["rfc1123"][4] = Plain("d")
    BY Rows1123 DEF Row
  <2>3. PICK v : v = tm["mday"]
    OBVIOUS
  <2>4. TwoAt(t, x.pos, v) /\ v \in Number["d"].lo..Number["d"].hi
    BY <1>b, <2>1, <2>3 DEF Number, Num
  <2>5. Convert(t, x, Plain("d")) = Sets(x, x.pos + 2, Two("d"), v)
    BY <2>4, TwoTaken
  <2>6. y.pos = 6
    BY <1>c, <1>4, <2>1, <2>2, <2>5 DEF Sets
  <2> QED
    BY <1>c, <1>d, <1>4, <2>6
<1>5. CASE n = 5
  <2>1. x.pos = 6 /\ t[6] # Space
    BY <1>a, <1>b, <1>5, NoSpace
  <2>2. Fmt["rfc1123"][5] = Blank
    BY Rows1123 DEF Row
  <2>3. /\ x.pos \in 1..Len(t) /\ 6 \in x.pos..Len(t) /\ \A r \in x.pos..(6 - 1) : t[r] = Space
    BY <1>b, <2>1
  <2>4. Convert(t, x, Blank) = Moves(x, 6)
    BY <1>b, <2>1, <2>3, BlankTaken
  <2>5. y.pos = 6
    BY <1>c, <1>5, <2>2, <2>4 DEF Moves
  <2> QED
    BY <1>c, <1>d, <1>5, <2>5
<1>6. CASE n = 6
  <2>1. x.pos = 6 /\ x.pos \in 1..Len(t) /\ t[x.pos] = Dash
    BY <1>a, <1>b, <1>6
  <2>2. Fmt["rfc1123"][6] = Plain("b")
    BY Rows1123 DEF Row
  <2>3. y.pos = 0
    BY <1>b, <1>c, <1>6, <2>1, <2>2, DashIsNoMonth
  <2> QED
    BY <1>c, <1>d, <1>6, <2>3
<1> QED
  BY <1>a, <1>1, <1>2, <1>3, <1>4, <1>5, <1>6

LEMMA OffNext == ASSUME NEW f, NEW w, <<f, w>> \in Earlier, NEW tm \in Times, NEW t, t = Text(w, tm),
                        NEW n, NEW x, Off(f, w, n, x), x.pos # 0
                 PROVE  Off(f, w, n + 1, Convert(t, x, Fmt[f][n]))
<1>1. CASE w = "asctime"
  <2>1. f \in {"rfc1123", "rfc1036"}
    BY <1>1 DEF Earlier
  <2> QED
    BY <1>1, <2>1, OffAsctime
<1>2. CASE w # "asctime"
  <2>1. f = "rfc1123" /\ w = "rfc1036"
    BY <1>2 DEF Earlier
  <2> QED
    BY <2>1, Off1036
<1> QED
  BY <1>1, <1>2

(***************************************************************************)
(* The invariant: the text is the written one, and xstrptime has read of   *)
(* it what the conversions behind it stand for                             *)
(***************************************************************************)
WrittenInv == written # None => /\ written \in [fmt : DOMAIN Fmt, tm : Times]
                                /\ text = Text(written.fmt, written.tm)
OwnInv == pc \in DOMAIN Fmt =>
             /\ written # None /\ fmt = Fmt[pc] /\ caller = NoCaller
             /\ IF pc = written.fmt
                THEN next \in 1..(Count(pc) + 1) /\ Reached(pc, written.tm, next, st)
                ELSE <<pc, written.fmt>> \in Earlier /\ Off(pc, written.fmt, next, st)
ReadsInv == WrittenInv /\ OwnInv /\ ReadsBack /\ (pc = "scan" => written = None)

LEMMA LengthIs == \A f \in DOMAIN Fmt : Len(Fmt[f]) = Count(f)
<1>1. Len(Rfc1123) = 16
  BY DEF Rfc1123
<1>2. Len(Rfc1036) = 16
  BY DEF Rfc1036
<1>3. Len(Asctime) = 13
  BY DEF Asctime
<1>4. DOMAIN Fmt = {"rfc1123", "rfc1036", "asctime"}
  BY DEF Fmt
<1>5. /\ Fmt["rfc1123"] = Rfc1123 /\ Fmt["rfc1036"] = Rfc1036 /\ Fmt["asctime"] = Asctime
  BY DEF Fmt
<1>6. Count("rfc1123") = 16 /\ Count("rfc1036") = 16 /\ Count("asctime") = 13
  BY DEF Count
<1> QED
  BY <1>1, <1>2, <1>3, <1>4, <1>5, <1>6

\* None of the three formats calls xstrptime again.
LEMMA NoCalls == ASSUME NEW f \in DOMAIN Fmt, NEW n \in 1..Count(f)
                 PROVE  ~ Calls(Fmt[f][n])
<1>1. \A c : ~ Calls(Lit(c))
  BY DEF Calls, Lit
<1>2. \A c \in {"a", "A", "b", "d", "y", "Y", "H", "M", "S"} : ~ Calls(Plain(c))
  BY DEF Calls, Plain, Complex
<1>3. \A i \in 1..16 : Rfc1123[i] \in {Lit(c) : c \in {Comma, Colon, Space, "GMT"}}
                                      \cup {Plain(c) : c \in {"a", "b", "d", "Y", "H", "M", "S"}}
  BY DEF Rfc1123, Blank
<1>4. \A i \in 1..16 : Rfc1036[i] \in {Lit(c) : c \in {Comma, Colon, Space, Dash, "GMT"}}
                                      \cup {Plain(c) : c \in {"A", "b", "d", "y", "H", "M", "S"}}
  BY DEF Rfc1036, Blank
<1>5. \A i \in 1..13 : Asctime[i] \in {Lit(c) : c \in {Colon, Space}}
                                      \cup {Plain(c) : c \in {"a", "b", "d", "Y", "H", "M", "S"}}
  BY DEF Asctime, Blank
<1>6. CASE f = "rfc1123"
  BY <1>1, <1>2, <1>3, <1>6 DEF Fmt, Count
<1>7. CASE f = "rfc1036"
  BY <1>1, <1>2, <1>4, <1>7 DEF Fmt, Count
<1>8. CASE f = "asctime"
  BY <1>1, <1>2, <1>5, <1>8 DEF Fmt, Count
<1> QED
  BY <1>6, <1>7, <1>8 DEF Fmt

LEMMA FormatNames == DOMAIN Fmt = {"rfc1123", "rfc1036", "asctime"}
BY DEF Fmt

LEMMA PlaceIs == ASSUME NEW f \in DOMAIN Fmt, NEW tm, NEW n \in 1..(Count(f) + 1)
                 PROVE  Place(f, tm)[n] \in Nat \ {0}
<1>1. CASE f = "rfc1123"
  BY <1>1 DEF Place, Count
<1>2. CASE f = "rfc1036"
  BY <1>2 DEF Place, Count
<1>3. CASE f = "asctime"
  BY <1>3 DEF Place, Count
<1> QED
  BY <1>1, <1>2, <1>3, FormatNames

LEMMA LastPlace == ASSUME NEW f \in DOMAIN Fmt, NEW tm \in Times, NEW t, t = Text(f, tm)
                   PROVE  Place(f, tm)[Count(f) + 1] = Len(t) + 1
<1>1. CASE f = "rfc1123"
  <2>1. Len(t) = 23
    BY <1>1, TextOf1123
  <2>2. Place(f, tm)[17] = 24 /\ Count(f) + 1 = 17
    BY <1>1 DEF Place, Count
  <2> QED
    BY <2>1, <2>2
<1>2. CASE f = "rfc1036"
  <2>1. Len(t) = 21
    BY <1>2, TextOf1036
  <2>2. Place(f, tm)[17] = 22 /\ Count(f) + 1 = 17
    BY <1>2 DEF Place, Count
  <2> QED
    BY <2>1, <2>2
<1>3. CASE f = "asctime"
  <2>1. Len(t) = 20
    BY <1>3, TextOfAsctime
  <2>2. Place(f, tm)[14] = 21 /\ Count(f) + 1 = 14
    BY <1>3 DEF Place, Count
  <2> QED
    BY <2>1, <2>2
<1> QED
  BY <1>1, <1>2, <1>3, FormatNames

\* A conversion of the format that the text was written in.
LEMMA OwnNext == ASSUME NEW f \in DOMAIN Fmt, NEW tm \in Times, NEW t, t = Text(f, tm),
                        NEW n \in 1..Count(f), NEW x, Reached(f, tm, n, x)
                 PROVE  Reached(f, tm, n + 1, Convert(t, x, Fmt[f][n]))
<1>1. OnTheWay(f, tm, n, x, t)
  BY TextIs DEF OnTheWay
<1>2. Does(f, tm, n, x, Convert(t, x, Fmt[f][n]))
  <2>1. CASE f = "rfc1123"
    BY <1>1, <2>1, Steps1123 DEF Count
  <2>2. CASE f = "rfc1036"
    BY <1>1, <2>2, Steps1036 DEF Count
  <2>3. CASE f = "asctime"
    BY <1>1, <2>3, StepsAsctime DEF Count
  <2> QED
    BY <2>1, <2>2, <2>3, FormatNames
<1>3. Count(f) \in Nat
  BY DEF Count
<1>4. n \in Nat \ {0} /\ n + 1 \in 1..(Count(f) + 1)
  BY <1>3
<1>5. Place(f, tm)[n + 1] \in Nat
  BY <1>4, PlaceIs
<1> QED
  BY <1>2, <1>4, <1>5, ReachedNext

\* xstrptime begins.
LEMMA ReachedFirst == ASSUME NEW f \in DOMAIN Fmt, NEW tm
                      PROVE  Reached(f, tm, 1, Start(1, NoTime))
<1>1. Place(f, tm)[1] = 1
  <2>1. CASE f = "rfc1123"
    BY <2>1 DEF Place
  <2>2. CASE f = "rfc1036"
    BY <2>2 DEF Place
  <2>3. CASE f = "asctime"
    BY <2>3 DEF Place
  <2> QED
    BY <2>1, <2>2, <2>3, FormatNames
<1>2. Start(1, NoTime) \in States
  BY EmptyIs, StartRight
<1>3. Start(1, NoTime).pos = 1 /\ Start(1, NoTime).tm = NoTime /\ Start(1, NoTime).split = FALSE
  BY DEF Start
<1>4. \A g \in Fields : NoTime[g] = 0
  BY DEF NoTime
<1>5. Before(f, 1) = {}
  BY DEF Before
<1> QED
  BY <1>1, <1>2, <1>3, <1>4, <1>5 DEF Reached

LEMMA OffFirst == ASSUME NEW f, NEW w PROVE Off(f, w, 1, Start(1, NoTime))
<1>1. FailsAt(f, w) \in {2, 6}
  BY DEF FailsAt
<1> QED
  BY <1>1 DEF Off, Start

\* What the whole format has read.
LEMMA AllRead == ASSUME NEW f \in DOMAIN Fmt, NEW tm \in Times, NEW x, Reached(f, tm, Count(f) + 1, x),
                        NEW dst \in {-1, 0, 1}, NEW k, k = Put(x.tm, "isdst", dst)
                 PROVE  /\ k \in [Fields -> Int] /\ k["isdst"] = dst /\ k["yday"] = 0
                        /\ \A g \in Fields \ {"isdst", "yday"} : k[g] = Want(f, tm, g)
<1>1. PICK m : m = x.tm
  OBVIOUS
<1>2. /\ m \in [Fields -> Int]
      /\ \A g \in Fields : m[g] = IF g \in Before(f, Count(f) + 1) THEN Want(f, tm, g) ELSE 0
  BY <1>1 DEF Reached, States
<1>3. "isdst" \in Fields /\ "yday" \in Fields /\ "isdst" # "yday" /\ dst \in Int
  BY DEF Fields
<1>4. /\ k \in [Fields -> Int] /\ k["isdst"] = dst
      /\ \A g \in Fields \ {"isdst"} : k[g] = m[g]
  BY <1>1, <1>2, <1>3, PutIs
<1>5. "yday" \notin Before(f, Count(f) + 1)
  BY DEF Before, Count, Gets
<1>6. Fields \ {"isdst", "yday"} \subseteq Before(f, Count(f) + 1)
  <2>a. Fields \ {"isdst", "yday"} = {"sec", "min", "hour", "mday", "mon", "year", "wday"}
    BY DEF Fields
  <2>1. CASE f = "asctime"
    <3>1. Before(f, Count(f) + 1) = {Gets("asctime")[i] : i \in 1..13}
      BY <2>1 DEF Before, Count
    <3>2. /\ Gets("asctime")[1] = "wday" /\ Gets("asctime")[3] = "mon" /\ Gets("asctime")[5] = "mday"
          /\ Gets("asctime")[7] = "hour" /\ Gets("asctime")[9] = "min" /\ Gets("asctime")[11] = "sec"
          /\ Gets("asctime")[13] = "year"
      BY DEF Gets
    <3> QED
      BY <2>a, <3>1, <3>2
  <2>2. CASE f # "asctime"
    <3>1. Before(f, Count(f) + 1) = {Gets(f)[i] : i \in 1..16}
      BY <2>2 DEF Before, Count
    <3>2. /\ Gets(f)[1] = "wday" /\ Gets(f)[4] = "mday" /\ Gets(f)[6] = "mon"
          /\ Gets(f)[8] = "year" /\ Gets(f)[10] = "hour" /\ Gets(f)[12] = "min"
          /\ Gets(f)[14] = "sec"
      BY <2>2 DEF Gets
    <3> QED
      BY <2>a, <3>1, <3>2
  <2> QED
    BY <2>1, <2>2
<1> QED
  BY <1>2, <1>3, <1>4, <1>5, <1>6

\* The time that is expected, field by field.
LEMMA ExpectedIs == ASSUME NEW f, NEW tm, NEW k, k \in [Fields -> Int], k["yday"] = 0,
                           \A g \in Fields \ {"isdst", "yday"} : k[g] = Want(f, tm, g),
                           written' = [fmt |-> f, tm |-> tm], ans'.tm = k
                    PROVE  ans'.tm = Expected'
<1>1. written'.fmt = f /\ written'.tm = tm /\ ans'.tm["isdst"] = k["isdst"]
  OBVIOUS
<1>2. PICK z : z = k["isdst"]
  OBVIOUS
<1>3. Expected' = [g \in Fields |-> CASE g = "year" /\ f = "rfc1036" -> Century(tm["year"])
                                     [] g = "yday" -> 0
                                     [] g = "isdst" -> z
                                     [] OTHER -> tm[g]]
  BY <1>1, <1>2 DEF Expected
<1>4. \A g \in Fields : k[g] = CASE g = "year" /\ f = "rfc1036" -> Century(tm["year"])
                                 [] g = "yday" -> 0
                                 [] g = "isdst" -> z
                                 [] OTHER -> tm[g]
  BY <1>2 DEF Want
<1> QED
  BY <1>3, <1>4

\* What OwnInv says of a format of mmp_parse_date.
LEMMA OwnIs == ASSUME ReadsInv, pc \in DOMAIN Fmt
               PROVE  /\ written \in [fmt : DOMAIN Fmt, tm : Times]
                      /\ written.fmt \in DOMAIN Fmt /\ written.tm \in Times
                      /\ text = Text(written.fmt, written.tm) /\ text \in Texts
                      /\ fmt = Fmt[pc] /\ caller = NoCaller /\ Len(fmt) = Count(pc)
<1>1. /\ written \in [fmt : DOMAIN Fmt, tm : Times] /\ text = Text(written.fmt, written.tm)
      /\ fmt = Fmt[pc] /\ caller = NoCaller
  BY DEF ReadsInv, OwnInv, WrittenInv
<1>2. written.fmt \in DOMAIN Fmt /\ written.tm \in Times
  BY <1>1
<1> QED
  BY <1>1, <1>2, TextIs, LengthIs

\* A format is begun on a text that was written in it, or in a later one.
LEMMA BeginsReads == ASSUME NEW f \in DOMAIN Fmt, Begins(Fmt[f]), pc' = f, UNCHANGED <<text, written>>,
                            WrittenInv, written # None, written.fmt = f \/ <<f, written.fmt>> \in Earlier
                     PROVE  ReadsInv'
<1>1. fmt' = Fmt[f] /\ next' = 1 /\ st' = Start(1, NoTime) /\ caller' = NoCaller
  BY DEF Begins
<1>2. f # "answer" /\ f # "scan"
  BY FormatNames
<1>3. WrittenInv' /\ written' # None
  BY DEF WrittenInv
<1>4. written'.fmt = f => next' \in 1..(Count(f) + 1) /\ Reached(f, written'.tm, next', st')
  <2>1. 1 \in 1..(Count(f) + 1)
    BY DEF Count
  <2> QED
    BY <1>1, <2>1, ReachedFirst
<1>5. written'.fmt # f => <<f, written'.fmt>> \in Earlier /\ Off(f, written'.fmt, next', st')
  BY <1>1, OffFirst
<1>6. OwnInv'
  BY <1>1, <1>3, <1>4, <1>5 DEF OwnInv
<1> QED
  BY <1>2, <1>3, <1>6 DEF ReadsInv, ReadsBack

LEMMA FormatReads == ASSUME ReadsInv, NEW f \in DOMAIN Fmt, NEW tm \in Times, Format(f, tm)
                     PROVE  ReadsInv'
<1>1. /\ pc' = "idle" /\ text' = Text(f, tm) /\ written' = [fmt |-> f, tm |-> tm]
  BY DEF Format
<1>2. WrittenInv'
  BY <1>1 DEF WrittenInv
<1>3. "idle" \notin DOMAIN Fmt
  BY FormatNames
<1> QED
  BY <1>1, <1>2, <1>3 DEF ReadsInv, OwnInv, ReadsBack

LEMMA ScanReads == ASSUME ReadsInv, Scan PROVE ReadsInv'
<1>1. pc' = "scan" /\ written = None /\ written' = None
  BY DEF Scan
<1>2. "scan" \notin DOMAIN Fmt
  BY FormatNames
<1> QED
  BY <1>1, <1>2 DEF ReadsInv, WrittenInv, OwnInv, ReadsBack

LEMMA ConvertReads == ASSUME ReadsInv, ConvertNext PROVE ReadsInv'
<1>1. /\ Scanning /\ st.pos # 0 /\ next <= Len(fmt)
      /\ st' = Convert(text, st, fmt[next]) /\ next' = next + 1
      /\ pc' = IF st'.pos > Len(text) + 1 THEN "wild" ELSE pc
      /\ UNCHANGED <<text, fmt, caller, written>>
  BY DEF ConvertNext, More
<1>2. pc \in {"rfc1123", "rfc1036", "asctime", "scan"}
  BY <1>1 DEF Scanning, Fmt
<1>3. WrittenInv'
  BY <1>1 DEF ReadsInv, WrittenInv
<1>4. CASE pc' = "wild"
  BY <1>3, <1>4, FormatNames DEF ReadsInv, OwnInv, ReadsBack
<1>5. CASE pc' # "wild" /\ pc = "scan"
  <2>1. pc' = "scan" /\ written' = None
    BY <1>1, <1>5 DEF ReadsInv
  <2> QED
    BY <1>3, <2>1, FormatNames DEF ReadsInv, OwnInv, ReadsBack
<1>6. CASE pc' # "wild" /\ pc \in DOMAIN Fmt
  <2>1. pc' = pc
    BY <1>1, <1>6
  <2>2. /\ written # None /\ written.fmt \in DOMAIN Fmt /\ written.tm \in Times
        /\ text = Text(written.fmt, written.tm)
        /\ fmt = Fmt[pc] /\ caller = NoCaller /\ Len(fmt) = Count(pc)
    BY <1>6, OwnIs DEF ReadsInv, OwnInv
  <2>3. PICK w : w = written.fmt
    OBVIOUS
  <2>4. PICK tm : tm = written.tm
    OBVIOUS
  <2>5. CASE pc = w
    <3>1. next \in 1..(Count(pc) + 1) /\ Reached(pc, tm, next, st)
      BY <1>6, <2>3, <2>4, <2>5 DEF ReadsInv, OwnInv
    <3>2. Count(pc) \in Nat
      BY DEF Count
    <3>3. next \in 1..Count(pc) /\ next' \in 1..(Count(pc) + 1)
      BY <1>1, <2>2, <3>1, <3>2
    <3>4. Reached(pc, tm, next + 1, st')
      BY <1>1, <1>6, <2>2, <2>3, <2>4, <2>5, <3>1, <3>3, OwnNext
    <3>5. OwnInv'
      BY <1>1, <2>1, <2>2, <2>3, <2>4, <2>5, <3>3, <3>4 DEF OwnInv
    <3> QED
      BY <1>3, <1>6, <2>1, <3>5, FormatNames DEF ReadsInv, ReadsBack
  <2>6. CASE pc # w
    <3>1. <<pc, w>> \in Earlier /\ Off(pc, w, next, st)
      BY <1>6, <2>3, <2>6 DEF ReadsInv, OwnInv
    <3>2. Off(pc, w, next + 1, st')
      BY <1>1, <2>2, <2>3, <2>4, <3>1, OffNext
    <3>3. OwnInv'
      BY <1>1, <2>1, <2>2, <2>3, <2>6, <3>1, <3>2 DEF OwnInv
    <3> QED
      BY <1>3, <1>6, <2>1, <3>3, FormatNames DEF ReadsInv, ReadsBack
  <2> QED
    BY <2>5, <2>6
<1> QED
  BY <1>2, <1>4, <1>5, <1>6, FormatNames

\* None of the three formats calls, so that only a scan does.
LEMMA CallsReads == ASSUME ReadsInv, TypesRight, Recurse \/ Recursed PROVE ReadsInv'
<1>1. pc' = pc /\ text' = text /\ written' = written /\ Scanning
  BY DEF Recurse, Recursed
<1>2. CASE pc \in DOMAIN Fmt
  <2>1. fmt = Fmt[pc] /\ caller = NoCaller /\ Len(fmt) = Count(pc) /\ next \in Nat \ {0}
    BY <1>2, OwnIs DEF TypesRight
  <2>2. ~ Recursed
    BY <2>1 DEF Recursed, NoCaller
  <2>3. next <= Len(fmt) => ~ Calls(fmt[next])
    <3>1. Count(pc) \in Nat
      BY DEF Count
    <3>2. next <= Len(fmt) => next \in 1..Count(pc)
      BY <2>1, <3>1
    <3> QED
      BY <1>2, <2>1, <3>2, NoCalls
  <2> QED
    BY <2>2, <2>3 DEF Recurse, More
<1>3. CASE pc = "scan"
  BY <1>1, <1>3, FormatNames DEF ReadsInv, WrittenInv, OwnInv, ReadsBack
<1> QED
  BY <1>1, <1>2, <1>3 DEF Scanning

LEMMA ScannedReads == ASSUME ReadsInv, Scanned PROVE ReadsInv'
<1>1. pc' = "answer" /\ written' = None
  BY DEF Scanned, ReadsInv
<1> QED
  BY <1>1, FormatNames DEF ReadsInv, WrittenInv, OwnInv, ReadsBack

LEMMA ParseReads == ASSUME ReadsInv, Parse PROVE ReadsInv'
<1>1. /\ written # None /\ pc' = "rfc1123" /\ Begins(Rfc1123) /\ UNCHANGED <<text, written>> /\ WrittenInv
  BY DEF Parse, ReadsInv
<1>2. written.fmt \in {"rfc1123", "rfc1036", "asctime"}
  BY <1>1, FormatNames DEF WrittenInv
<1>3. "rfc1123" \in DOMAIN Fmt /\ Fmt["rfc1123"] = Rfc1123
  BY DEF Fmt
<1>4. written.fmt = "rfc1123" \/ <<"rfc1123", written.fmt>> \in Earlier
  BY <1>2 DEF Earlier
<1> QED
  BY <1>1, <1>3, <1>4, BeginsReads

\* The format a text was written in takes it, with every field.
LEMMA OwnTakes == ASSUME ReadsInv, NEW f \in DOMAIN Fmt, NEW g, Then(f, g), written.fmt = f
                  PROVE  ReadsInv'
<1>1. /\ written.tm \in Times /\ written \in [fmt : DOMAIN Fmt, tm : Times]
      /\ text = Text(f, written.tm) /\ fmt = Fmt[f] /\ Len(fmt) = Count(f)
  BY OwnIs DEF Then
<1>2. PICK tm : tm = written.tm
  OBVIOUS
<1>3. next \in 1..(Count(f) + 1) /\ Reached(f, tm, next, st) /\ WrittenInv
  BY <1>2 DEF Then, ReadsInv, OwnInv
<1>4. Count(f) \in Nat
  BY DEF Count
<1>5. st.pos # 0
  BY <1>3, PlaceIs DEF Reached
<1>6. next = Count(f) + 1
  BY <1>1, <1>3, <1>4, <1>5 DEF Then, Done, More
<1>7. st.pos = Len(text) + 1
  BY <1>1, <1>2, <1>3, <1>6, LastPlace DEF Reached
<1>8. PICK dst \in {-1, 0, 1} : ans' = [fmt |-> fmt, pos |-> st.pos, zone |-> tz,
                                        tm |-> Put(st.tm, "isdst", dst)]
  BY <1>7 DEF Then, Takes
<1>9. PICK k : k = Put(st.tm, "isdst", dst)
  OBVIOUS
<1>10. /\ k \in [Fields -> Int] /\ k["yday"] = 0
       /\ \A h \in Fields \ {"isdst", "yday"} : k[h] = Want(f, tm, h)
  BY <1>1, <1>2, <1>3, <1>6, <1>9, AllRead
<1>11. ans'.fmt = Fmt[f] /\ ans'.tm = k
  BY <1>1, <1>8, <1>9
<1>12. written' = written /\ text' = text /\ pc' = "answer"
  BY <1>7 DEF Then, Takes
<1>13. written' = [fmt |-> f, tm |-> tm] /\ written'.fmt = f
  BY <1>1, <1>2, <1>12
<1>14. ans'.tm = Expected'
  BY <1>10, <1>11, <1>13, ExpectedIs
<1>15. ReadsBack'
  BY <1>11, <1>13, <1>14 DEF ReadsBack
<1>16. WrittenInv'
  BY <1>3, <1>12 DEF WrittenInv
<1> QED
  BY <1>12, <1>15, <1>16, FormatNames DEF ReadsInv, OwnInv

\* A format that the text was not written in does not take it.
LEMMA OffRefuses == ASSUME ReadsInv, NEW f, NEW g, Then(f, g), written.fmt # f,
                           <<f, g>> \in {<<"rfc1123", "rfc1036">>, <<"rfc1036", "asctime">>, <<"asctime", "answer">>}
                    PROVE  ReadsInv'
<1>a. f \in DOMAIN Fmt /\ pc = f
  BY FormatNames DEF Then
<1>1. /\ written.fmt \in DOMAIN Fmt /\ text \in Texts /\ fmt = Fmt[f] /\ Len(fmt) = Count(f)
  BY <1>a, OwnIs
<1>2. <<f, written.fmt>> \in Earlier /\ Off(f, written.fmt, next, st) /\ WrittenInv /\ written # None
  BY <1>a DEF ReadsInv, OwnInv
<1>3. st.pos = 0
  <2>1. FailsAt(f, written.fmt) \in {2, 6} /\ Count(f) \in {13, 16}
    BY DEF FailsAt, Count
  <2>2. next \in 1..(FailsAt(f, written.fmt) + 1)
    BY <1>2 DEF Off
  <2>3. next > Len(fmt) => next > FailsAt(f, written.fmt)
    BY <1>1, <2>1, <2>2
  <2>4. next > FailsAt(f, written.fmt) => st.pos = 0
    BY <1>2 DEF Off
  <2>5. st.pos = 0 \/ ~ (next <= Len(fmt))
    BY DEF Then, Done, More
  <2> QED
    BY <1>1, <2>1, <2>2, <2>3, <2>4, <2>5
<1>4. ~ Takes
  <2>1. Len(text) \in Nat
    BY <1>1 DEF Texts
  <2> QED
    BY <1>3, <2>1 DEF Takes
<1>5. /\ pc' = g /\ Begins(IF g = "answer" THEN <<>> ELSE Fmt[g]) /\ UNCHANGED <<text, written>>
  BY <1>4 DEF Then
<1>6. /\ g \in DOMAIN Fmt /\ g # "answer" /\ (written.fmt = g \/ <<g, written.fmt>> \in Earlier)
  BY <1>2, FormatNames DEF Earlier
<1>7. Begins(Fmt[g])
  BY <1>5, <1>6
<1> QED
  BY <1>2, <1>5, <1>6, <1>7, BeginsReads

LEMMA ReturnReads == ASSUME ReadsInv, Return PROVE ReadsInv'
<1>1. pc' = "idle" /\ written' = None
  BY DEF Return
<1> QED
  BY <1>1, FormatNames DEF ReadsInv, WrittenInv, OwnInv, ReadsBack

LEMMA NextReads == TypesRight /\ ReadsInv /\ [Next]_vars => ReadsInv'
<1> SUFFICES ASSUME TypesRight, ReadsInv, [Next]_vars PROVE ReadsInv'
  OBVIOUS
<1>1. ASSUME NEW f \in DOMAIN Fmt, NEW tm \in Times, Format(f, tm) PROVE ReadsInv'
  BY <1>1, FormatReads
<1>2. ASSUME NEW z \in Zones \cup {None}, SetZone(z) PROVE ReadsInv'
  BY <1>2, FormatNames DEF SetZone, scan, ReadsInv, WrittenInv, OwnInv, ReadsBack
<1>3. CASE Try
  <2>1. PICK f, g : /\ Then(f, g)
                    /\ <<f, g>> \in {<<"rfc1123", "rfc1036">>, <<"rfc1036", "asctime">>, <<"asctime", "answer">>}
    BY <1>3 DEF Try
  <2>2. f \in DOMAIN Fmt
    BY <2>1, FormatNames
  <2> QED
    BY <2>1, <2>2, OwnTakes, OffRefuses
<1>4. CASE UNCHANGED vars
  BY <1>4 DEF vars, scan, ReadsInv, WrittenInv, OwnInv, ReadsBack, Expected
<1> QED
  BY <1>1, <1>2, <1>3, <1>4, ScanReads, ConvertReads, CallsReads, ScannedReads, ParseReads, ReturnReads DEF Next

\* A date that was written is read back by the format it was written in, to the
\* same fields, though an earlier format takes its beginning.  For every time.
THEOREM DatesReadBack == Spec => []ReadsBack
<1>1. Init => ReadsInv
  BY FormatNames DEF Init, ReadsInv, WrittenInv, OwnInv, ReadsBack
<1>2. RangeInv => TypesRight
  BY DEF RangeInv
<1>3. TypesRight /\ ReadsInv /\ [Next]_vars => ReadsInv'
  BY NextReads
<1>4. ReadsInv => ReadsBack
  BY DEF ReadsInv
<1> QED
  BY <1>1, <1>2, <1>3, <1>4, RangeHolds, PTL DEF Spec

(***************************************************************************)
(* A year of a century and its last digits, and an hour and its half       *)
(***************************************************************************)
IsPair(f) == f \in {Pair("C", "y"), Pair("y", "C"), Pair("I", "p")}
TwoOf(t, p) == Value(t, p, 2)

\* What has been read of a text before conversion n of such a format.
CenturyFirst(t, n, x) == /\ n = 2 => /\ x.split /\ x.pos \in {2, 3}
                                     /\ x.pos = 3 => /\ TwoOf(t, 1) \in 0..99
                                                     /\ x.tm["year"] + 1900 = TwoOf(t, 1) * 100
                         /\ n = 3 /\ x.pos = 5 => x.tm["year"] + 1900 = TwoOf(t, 1) * 100 + TwoOf(t, 3)
YearFirst(t, n, x) == /\ n = 2 => /\ x.split /\ x.pos \in {2, 3}
                                  /\ x.pos = 3 => /\ TwoOf(t, 1) \in 0..99
                                                  /\ Rem100(x.tm["year"]) = TwoOf(t, 1)
                      /\ n = 3 /\ x.pos = 5 => x.tm["year"] + 1900 = TwoOf(t, 3) * 100 + TwoOf(t, 1)
HourFirst(t, n, x) == /\ n = 2 => x.tm["hour"] \in 0..11
                      /\ n = 3 => (x.tm["hour"] >= 12) = (t[x.pos - 1] = "PM")
Parts(f, t, n, x) ==
    /\ n \in 1..3 /\ (n = 1 => x = Start(1, NoTime))
    /\ x.pos # 0 => /\ f = Pair("C", "y") => CenturyFirst(t, n, x)
                    /\ f = Pair("y", "C") => YearFirst(t, n, x)
                    /\ f = Pair("I", "p") => HourFirst(t, n, x)
PartInv == /\ pc \in {"idle", "answer"} => fmt = <<>>
           /\ caller.next # 0 => ~ IsPair(caller.fmt)
           /\ IsPair(fmt) => Parts(fmt, text, next, st)
           /\ PartsCombine

LEMMA PairsAre == /\ \A f : IsPair(f) => Len(f) = 2 /\ ~ Calls(f[1]) /\ ~ Calls(f[2])
                  /\ ~ IsPair(<<>>) /\ (\A f \in DOMAIN Fmt : ~ IsPair(Fmt[f]))
                  /\ \A c \in DOMAIN Complex : ~ IsPair(Complex[c])
<1>1. \A c \in {"C", "y", "I", "p"} : ~ Calls(Plain(c))
  BY DEF Calls, Plain, Complex
<1>2. ASSUME NEW c, NEW d PROVE Len(Pair(c, d)) = 2 /\ Pair(c, d)[1] = Plain(c) /\ Pair(c, d)[2] = Plain(d)
  BY DEF Pair
<1>3. ASSUME NEW f, IsPair(f) PROVE Len(f) = 2 /\ ~ Calls(f[1]) /\ ~ Calls(f[2])
  <2>1. PICK c \in {"C", "y", "I", "p"}, d \in {"C", "y", "I", "p"} : f = Pair(c, d)
    BY <1>3 DEF IsPair
  <2> QED
    BY <1>1, <1>2, <2>1
<1>4. Len(Rfc1123) = 16 /\ Len(Rfc1036) = 16 /\ Len(Asctime) = 13 /\ Len(<<>>) = 0
  BY DEF Rfc1123, Rfc1036, Asctime
<1>5. Len(MDY) = 5 /\ Len(HMS) = 5
  BY DEF MDY, HMS
<1>6. \A f \in DOMAIN Fmt : Fmt[f] \in {Rfc1123, Rfc1036, Asctime}
  BY DEF Fmt
<1>7. ASSUME NEW c \in DOMAIN Complex PROVE Len(Complex[c]) # 2
  <2>1. Complex[c] \in {Asctime, MDY, HMS, Complex["F"], Complex["R"], Complex["r"]}
    BY DEF Complex
  <2>2. Len(Complex["F"]) = 5 /\ Len(Complex["R"]) = 3 /\ Len(Complex["r"]) = 7
    BY DEF Complex
  <2> QED
    BY <1>4, <1>5, <2>1, <2>2
<1>8. ~ IsPair(<<>>)
  BY <1>3, <1>4
<1>9. \A f \in DOMAIN Fmt : ~ IsPair(Fmt[f])
  BY <1>3, <1>4, <1>6
<1>10. \A c \in DOMAIN Complex : ~ IsPair(Complex[c])
  BY <1>3, <1>7
<1> QED
  BY <1>3, <1>8, <1>9, <1>10

LEMMA PartConversions == ASSUME NEW t, NEW x
                         PROVE  /\ Convert(t, x, Plain("C")) = ReadCentury(t, x)
                                /\ Convert(t, x, Plain("y")) = ReadYear(t, x)
                                /\ Convert(t, x, Plain("I")) = ReadHour(t, x)
                                /\ Convert(t, x, Plain("p")) = ReadHalf(t, x)
<1>1. \A c : Legal("", c)
  BY DEF Legal
<1>2. DOMAIN Number = {"d", "e", "k", "H", "j", "M", "m", "S", "w", "Y", "U", "W", "V", "g"}
  BY DEF Number
<1>3. Convert(t, x, Plain("C")) = ReadCentury(t, x)
  BY <1>1, <1>2 DEF Convert, Plain
<1>4. Convert(t, x, Plain("I")) = ReadHour(t, x)
  BY <1>1, <1>2 DEF Convert, Plain
<1>5. Convert(t, x, Plain("p")) = ReadHalf(t, x)
  BY <1>1, <1>2 DEF Convert, Plain
<1> QED
  BY <1>3, <1>4, <1>5, ConvertIs

\* Of a number below 100 at most two digits are read.
TwoRead(t, p, r) == /\ r.pos \in {0, p + 1, p + 2}
                    /\ r.pos # 0 => r.val \in 0..99
                    /\ r.pos = p + 2 => r.val = TwoOf(t, p)
LEMMA TwoIsRead == ASSUME NEW t \in Texts, NEW p \in Nat \ {0}
                   PROVE  TwoRead(t, p, conv_num(t, p, 0, 99))
<1>1. CASE ~ IsDigit(t, p)
  BY <1>1 DEF conv_num, TwoRead
<1>2. CASE IsDigit(t, p)
  <2>1. PICK k : k = DigitsRead(t, p, 99)
    OBVIOUS
  <2>2. PICK v : v = Value(t, p, k)
    OBVIOUS
  <2>3. k \in 1..4 /\ \A j \in 1..(k - 1) : ReadsMore(t, p, 99, j)
    <3>1. 99 \in Limit /\ p \in Nat
      BY DEF Limit
    <3> QED
      BY <1>2, <2>1, <3>1, DigitsAre DEF Reads
  <2>4. ~ ReadsMore(t, p, 99, 2)
    BY DEF ReadsMore, Power
  <2>5. k \in 1..2
    BY <2>3, <2>4
  <2>6. conv_num(t, p, 0, 99) = [pos |-> IF v \in 0..99 THEN p + k ELSE 0, val |-> v]
    BY <1>2, <2>1, <2>2 DEF conv_num
  <2> QED
    BY <2>2, <2>5, <2>6 DEF TwoRead, TwoOf
<1> QED
  BY <1>1, <1>2

LEMMA YearPut == ASSUME NEW x \in States, NEW p, NEW v
                 PROVE  SetsYear(x, p, v).tm["year"] = v /\ SetsYear(x, p, v).pos = p /\ SetsYear(x, p, v).split
<1>1. x.tm \in [Fields -> Int] /\ "year" \in Fields
  BY DEF States, Fields
<1> QED
  BY <1>1 DEF SetsYear, Put

LEMMA HourPut == ASSUME NEW x \in States, NEW p, NEW v
                 PROVE  Sets(x, p, "hour", v).tm["hour"] = v /\ Sets(x, p, "hour", v).pos = p
<1>1. x.tm \in [Fields -> Int] /\ "hour" \in Fields
  BY DEF States, Fields
<1> QED
  BY <1>1 DEF Sets, Put

LEMMA YearIsInt == ASSUME NEW x \in States PROVE x.tm["year"] \in Int
<1>1. x.tm \in [Fields -> Int] /\ "year" \in Fields
  BY DEF States, Fields
<1> QED
  BY <1>1

LEMMA MultipleOf == ASSUME NEW c \in 0..99, NEW z, z = c * 100 - 1900
                    PROVE  Rem100(z) = 0
<1>1. CASE z >= 0
  <2>1. z % 100 = 0
    BY <1>1
  <2> QED
    BY <1>1, <2>1 DEF Rem100
<1>2. CASE ~ (z >= 0)
  <2>1. PICK m : m = -z
    OBVIOUS
  <2>2. m \in Nat /\ m = 1900 - c * 100
    BY <1>2, <2>1
  <2>3. m % 100 = 0
    BY <2>2
  <2> QED
    BY <1>2, <2>1, <2>3 DEF Rem100
<1> QED
  BY <1>1, <1>2

LEMMA RemainderOf == ASSUME NEW y \in 0..168
                     PROVE  Rem100(y) = IF y >= 100 THEN y - 100 ELSE y
BY DEF Rem100

\* A century, and a year after it.
LEMMA CenturyFirstNext == ASSUME NEW t \in Texts, NEW n \in 1..2, NEW x \in States, x.pos # 0,
                                 Parts(Pair("C", "y"), t, n, x), NEW y, y = Convert(t, x, Pair("C", "y")[n])
                          PROVE  y.pos # 0 => CenturyFirst(t, n + 1, y)
<1> SUFFICES ASSUME y.pos # 0 PROVE CenturyFirst(t, n + 1, y)
  OBVIOUS
<1>a. Pair("C", "y")[1] = Plain("C") /\ Pair("C", "y")[2] = Plain("y")
  BY DEF Pair
<1>b. PICK p : p = x.pos
  OBVIOUS
<1>c. PICK r : r = conv_num(t, p, 0, 99)
  OBVIOUS
<1>d. p \in Nat \ {0} /\ TwoRead(t, p, r)
  BY <1>b, <1>c, TwoIsRead DEF States
<1>1. CASE n = 1
  <2>1. x = Start(1, NoTime) /\ p = 1 /\ ~ x.split
    BY <1>b, <1>1 DEF Parts, Start
  <2>2. y = ReadCentury(t, x)
    BY <1>1, <1>a, PartConversions
  <2>3. y = SetsYear(x, r.pos, r.val * 100 - 1900 + 0)
    BY <1>b, <1>c, <2>1, <2>2 DEF ReadCentury
  <2>4. y.pos = r.pos /\ y.split /\ y.tm["year"] = r.val * 100 - 1900 + 0
    BY <2>3, YearPut
  <2>5. r.pos \in {2, 3} /\ (r.pos = 3 => r.val = TwoOf(t, 1)) /\ r.val \in 0..99
    BY <1>d, <2>1, <2>4 DEF TwoRead
  <2>6. r.pos = 3 => TwoOf(t, 1) \in 0..99 /\ y.tm["year"] + 1900 = TwoOf(t, 1) * 100
    BY <2>4, <2>5
  <2> QED
    BY <1>1, <2>4, <2>5, <2>6 DEF CenturyFirst
<1>2. CASE n = 2
  <2>1. /\ x.split /\ p \in {2, 3}
        /\ p = 3 => TwoOf(t, 1) \in 0..99 /\ x.tm["year"] + 1900 = TwoOf(t, 1) * 100
    BY <1>b, <1>2 DEF Parts, CenturyFirst
  <2>2. y = ReadYear(t, x)
    BY <1>2, <1>a, PartConversions
  <2>3. PICK z : z = x.tm["year"]
    OBVIOUS
  <2>4. y = SetsYear(x, r.pos, r.val + z - Rem100(z))
    BY <1>b, <1>c, <2>1, <2>2, <2>3 DEF ReadYear
  <2>5. y.pos = r.pos /\ y.tm["year"] = r.val + z - Rem100(z)
    BY <2>4, YearPut
  <2>6. CASE r.pos = 5
    <3>1. p = 3
      BY <1>d, <2>1, <2>6 DEF TwoRead
    <3>2. r.val = TwoOf(t, 3) /\ r.val \in 0..99
      BY <1>d, <2>6, <3>1 DEF TwoRead
    <3>a. PICK c : c = TwoOf(t, 1)
      OBVIOUS
    <3>3. c \in 0..99 /\ z = c * 100 - 1900
      <4>1. z \in Int
        BY <2>3, YearIsInt
      <4> QED
        BY <2>1, <2>3, <3>1, <3>a, <4>1
    <3>4. Rem100(z) = 0
      BY <3>3, MultipleOf
    <3>5. y.tm["year"] + 1900 = TwoOf(t, 1) * 100 + TwoOf(t, 3)
      BY <2>5, <3>2, <3>3, <3>4, <3>a
    <3> QED
      BY <1>2, <3>5 DEF CenturyFirst
  <2>7. CASE r.pos # 5
    BY <1>2, <2>5, <2>7 DEF CenturyFirst
  <2> QED
    BY <2>6, <2>7
<1> QED
  BY <1>1, <1>2

\* A year, and a century after it.
LEMMA YearFirstNext == ASSUME NEW t \in Texts, NEW n \in 1..2, NEW x \in States, x.pos # 0,
                              Parts(Pair("y", "C"), t, n, x), NEW y, y = Convert(t, x, Pair("y", "C")[n])
                       PROVE  y.pos # 0 => YearFirst(t, n + 1, y)
<1> SUFFICES ASSUME y.pos # 0 PROVE YearFirst(t, n + 1, y)
  OBVIOUS
<1>a. Pair("y", "C")[1] = Plain("y") /\ Pair("y", "C")[2] = Plain("C")
  BY DEF Pair
<1>b. PICK p : p = x.pos
  OBVIOUS
<1>c. PICK r : r = conv_num(t, p, 0, 99)
  OBVIOUS
<1>d. p \in Nat \ {0} /\ TwoRead(t, p, r)
  BY <1>b, <1>c, TwoIsRead DEF States
<1>1. CASE n = 1
  <2>1. x = Start(1, NoTime) /\ p = 1 /\ ~ x.split
    BY <1>b, <1>1 DEF Parts, Start
  <2>2. y = ReadYear(t, x)
    BY <1>1, <1>a, PartConversions
  <2>3. PICK v : v = IF r.val <= 68 THEN r.val + 100 ELSE r.val
    OBVIOUS
  <2>4. y = SetsYear(x, r.pos, v)
    BY <1>b, <1>c, <2>1, <2>2, <2>3 DEF ReadYear
  <2>5. y.pos = r.pos /\ y.split /\ y.tm["year"] = v
    BY <2>4, YearPut
  <2>6. r.pos \in {2, 3} /\ (r.pos = 3 => r.val = TwoOf(t, 1)) /\ r.val \in 0..99
    BY <1>d, <2>1, <2>5 DEF TwoRead
  <2>7. v \in 0..168 /\ (v >= 100 => v - 100 = r.val) /\ (v < 100 => v = r.val)
    BY <2>3, <2>6
  <2>8. Rem100(v) = r.val
    BY <2>6, <2>7, RemainderOf
  <2> QED
    BY <1>1, <2>5, <2>6, <2>8 DEF YearFirst
<1>2. CASE n = 2
  <2>1. /\ x.split /\ p \in {2, 3}
        /\ p = 3 => TwoOf(t, 1) \in 0..99 /\ Rem100(x.tm["year"]) = TwoOf(t, 1)
    BY <1>b, <1>2 DEF Parts, YearFirst
  <2>2. y = ReadCentury(t, x)
    BY <1>2, <1>a, PartConversions
  <2>3. PICK z : z = Rem100(x.tm["year"])
    OBVIOUS
  <2>4. y = SetsYear(x, r.pos, r.val * 100 - 1900 + z)
    BY <1>b, <1>c, <2>1, <2>2, <2>3 DEF ReadCentury
  <2>5. y.pos = r.pos /\ y.tm["year"] = r.val * 100 - 1900 + z
    BY <2>4, YearPut
  <2>6. CASE r.pos = 5
    <3>1. p = 3
      BY <1>d, <2>1, <2>6 DEF TwoRead
    <3>2. r.val = TwoOf(t, 3) /\ r.val \in 0..99
      BY <1>d, <2>6, <3>1 DEF TwoRead
    <3>3. z = TwoOf(t, 1) /\ z \in 0..99
      BY <2>1, <2>3, <3>1
    <3>4. y.tm["year"] + 1900 = TwoOf(t, 3) * 100 + TwoOf(t, 1)
      BY <2>5, <3>2, <3>3
    <3> QED
      BY <1>2, <3>4 DEF YearFirst
  <2>7. CASE r.pos # 5
    BY <1>2, <2>5, <2>7 DEF YearFirst
  <2> QED
    BY <2>6, <2>7
<1> QED
  BY <1>1, <1>2

\* An hour, and its half.
HalfRead(t, p, r) == /\ r.pos \in {0, p + 1}
                     /\ r.pos # 0 => r.val = IF t[p] = "PM" THEN 1 ELSE 0
LEMMA HalfIsRead == ASSUME NEW t \in Texts, NEW p \in Nat
                    PROVE  HalfRead(t, p, find_string(t, p, am_pm, am_pm))
<1>1. PICK z : z = At(t, p)
  OBVIOUS
<1>2. DOMAIN am_pm = 1..2 /\ am_pm[1] = "AM" /\ am_pm[2] = "PM"
  BY DEF am_pm
<1>3. CASE z \notin {"AM", "PM"}
  <2>1. Named(z, am_pm, am_pm) = {}
    BY <1>2, <1>3 DEF Named
  <2> QED
    BY <1>1, <2>1 DEF find_string, HalfRead
<1>4. CASE z \in {"AM", "PM"}
  <2>1. z # "NUL" /\ t[p] = z
    BY <1>1, <1>4 DEF At
  <2>2. PICK i \in 1..2 : z = am_pm[i]
    BY <1>2, <1>4
  <2>3. \A j \in 1..2 : z = am_pm[j] => j = i
    <3>1. \A j, m \in 1..2 : am_pm[j] = am_pm[m] => j = m
      BY DEF am_pm
    <3> QED
      BY <2>2, <3>1
  <2>4. i \in Named(z, am_pm, am_pm) /\ \A j \in Named(z, am_pm, am_pm) : j = i
    BY <1>2, <2>2, <2>3 DEF Named
  <2>5. NameNo(z, am_pm, am_pm) = i
    BY <1>2, <2>4 DEF NameNo
  <2>6. find_string(t, p, am_pm, am_pm) = [pos |-> p + 1, val |-> i - 1]
    BY <1>1, <2>4, <2>5 DEF find_string
  <2>7. i - 1 = IF t[p] = "PM" THEN 1 ELSE 0
    BY <1>2, <2>1, <2>2
  <2> QED
    BY <2>6, <2>7 DEF HalfRead
<1> QED
  BY <1>3, <1>4

LEMMA HourFirstNext == ASSUME NEW t \in Texts, NEW n \in 1..2, NEW x \in States, x.pos # 0,
                              Parts(Pair("I", "p"), t, n, x), NEW y, y = Convert(t, x, Pair("I", "p")[n])
                       PROVE  y.pos # 0 => HourFirst(t, n + 1, y)
<1> SUFFICES ASSUME y.pos # 0 PROVE HourFirst(t, n + 1, y)
  OBVIOUS
<1>a. Pair("I", "p")[1] = Plain("I") /\ Pair("I", "p")[2] = Plain("p")
  BY DEF Pair
<1>b. PICK p : p = x.pos
  OBVIOUS
<1>c. p \in Nat
  BY <1>b DEF States
<1>1. CASE n = 1
  <2>1. PICK r : r = conv_num(t, p, 1, 12)
    OBVIOUS
  <2>2. y = Sets(x, r.pos, "hour", r.val % 12)
    BY <1>1, <1>a, <1>b, <2>1, PartConversions DEF ReadHour
  <2>3. y.pos = r.pos /\ y.tm["hour"] = r.val % 12
    BY <2>2, HourPut
  <2>4. NumberRead(t, r, 1, 12)
    <3>1. 1 \in Limit /\ 12 \in Limit
      BY DEF Limit
    <3> QED
      BY <1>c, <2>1, <3>1, NumberIs
  <2>5. r.val \in 1..12
    BY <2>3, <2>4 DEF NumberRead
  <2>6. r.val % 12 \in 0..11
    BY <2>5
  <2> QED
    BY <1>1, <2>3, <2>6 DEF HourFirst
<1>2. CASE n = 2
  <2>1. x.tm["hour"] \in 0..11
    BY <1>2 DEF Parts, HourFirst
  <2>2. PICK h : h = x.tm["hour"]
    OBVIOUS
  <2>3. PICK r : r = find_string(t, p, am_pm, am_pm)
    OBVIOUS
  <2>4. h \in 0..11 /\ ~ (x.tm["hour"] > 11)
    BY <2>1, <2>2
  <2>5. y = Sets(x, r.pos, "hour", h + 12 * r.val)
    BY <1>2, <1>a, <1>b, <2>2, <2>3, <2>4, PartConversions DEF ReadHalf
  <2>6. y.pos = r.pos /\ y.tm["hour"] = h + 12 * r.val
    BY <2>5, HourPut
  <2>7. HalfRead(t, p, r)
    BY <1>c, <2>3, HalfIsRead
  <2>8. r.pos = p + 1 /\ r.val = IF t[p] = "PM" THEN 1 ELSE 0
    BY <2>6, <2>7 DEF HalfRead
  <2>9. y.pos - 1 = p
    BY <1>c, <2>6, <2>8
  <2>10. (y.tm["hour"] >= 12) = (t[p] = "PM")
    <3>1. PICK g : g = y.tm["hour"]
      OBVIOUS
    <3>2. CASE t[p] = "PM"
      <4>1. g >= 12
        BY <2>4, <2>6, <2>8, <3>1, <3>2
      <4> QED
        BY <3>1, <3>2, <4>1
    <3>3. CASE t[p] # "PM"
      <4>1. ~ (g >= 12)
        BY <2>4, <2>6, <2>8, <3>1, <3>3
      <4> QED
        BY <3>1, <3>3, <4>1
    <3> QED
      BY <3>2, <3>3
  <2>11. n + 1 = 3 /\ ~ (n + 1 = 2)
    BY <1>2
  <2> QED
    BY <2>9, <2>10, <2>11 DEF HourFirst
<1> QED
  BY <1>1, <1>2

LEMMA PartsNext == ASSUME NEW t \in Texts, NEW f, IsPair(f), NEW n \in 1..2, NEW x \in States, x.pos # 0,
                          Parts(f, t, n, x), NEW y, y = Convert(t, x, f[n])
                   PROVE  Parts(f, t, n + 1, y)
<1>1. f = Pair("C", "y") /\ y.pos # 0 => CenturyFirst(t, n + 1, y)
  BY CenturyFirstNext
<1>2. f = Pair("y", "C") /\ y.pos # 0 => YearFirst(t, n + 1, y)
  BY YearFirstNext
<1>3. f = Pair("I", "p") /\ y.pos # 0 => HourFirst(t, n + 1, y)
  BY HourFirstNext
<1>4. n + 1 \in 1..3 /\ n + 1 # 1
  OBVIOUS
<1> QED
  BY <1>1, <1>2, <1>3, <1>4 DEF Parts

LEMMA PartsFirst == ASSUME NEW f, NEW t PROVE Parts(f, t, 1, Start(1, NoTime))
BY DEF Parts, CenturyFirst, YearFirst, HourFirst

LEMMA BeginsParts == ASSUME NEW f, Begins(f), pc' \in {"idle", "answer"} => f = <<>>, PartsCombine'
                     PROVE  PartInv'
<1>1. fmt' = f /\ next' = 1 /\ st' = Start(1, NoTime) /\ caller' = NoCaller
  BY DEF Begins
<1>2. Parts(fmt', text', next', st')
  BY <1>1, PartsFirst
<1>3. caller'.next = 0
  BY <1>1 DEF NoCaller
<1> QED
  BY <1>1, <1>2, <1>3 DEF PartInv

LEMMA ConvertParts == ASSUME TypesRight, PartInv, ConvertNext PROVE PartInv'
<1>1. /\ Scanning /\ st.pos # 0 /\ next <= Len(fmt) /\ st' = Convert(text, st, fmt[next])
      /\ next' = next + 1 /\ pc' \in {pc, "wild"} /\ UNCHANGED <<text, fmt, caller>>
  BY DEF ConvertNext, More
<1>2. pc' \notin {"idle", "answer"}
  BY <1>1, FormatNames DEF Scanning
<1>3. IsPair(fmt) => Parts(fmt, text, next', st')
  <2> SUFFICES ASSUME IsPair(fmt) PROVE Parts(fmt, text, next', st')
    OBVIOUS
  <2>1. next \in 1..2
    BY <1>1, PairsAre DEF TypesRight
  <2>2. text \in Texts /\ st \in States /\ Parts(fmt, text, next, st)
    BY DEF TypesRight, PartInv
  <2> QED
    BY <1>1, <2>1, <2>2, PartsNext
<1> QED
  BY <1>1, <1>2, <1>3 DEF PartInv, PartsCombine

LEMMA RecurseParts == ASSUME TypesRight, PartInv, Recurse PROVE PartInv'
<1>1. /\ Scanning /\ next <= Len(fmt) /\ Calls(fmt[next]) /\ caller'.fmt = fmt
      /\ fmt' = Complex[fmt[next][2]] /\ pc' = pc
  BY DEF Recurse, More
<1>2. pc' \notin {"idle", "answer"}
  BY <1>1, FormatNames DEF Scanning
<1>3. ~ IsPair(fmt')
  BY <1>1, PairsAre DEF Calls
<1>4. ~ IsPair(fmt)
  <2> SUFFICES ASSUME IsPair(fmt) PROVE FALSE
    OBVIOUS
  <2>1. Len(fmt) = 2 /\ ~ Calls(fmt[1]) /\ ~ Calls(fmt[2]) /\ next \in Nat \ {0}
    BY PairsAre DEF TypesRight
  <2>2. next = 1 \/ next = 2
    BY <1>1, <2>1
  <2> QED
    BY <1>1, <2>1, <2>2
<1> QED
  BY <1>1, <1>2, <1>3, <1>4 DEF PartInv, PartsCombine

LEMMA RecursedParts == ASSUME PartInv, Recursed PROVE PartInv'
<1>1. Scanning /\ caller.next # 0 /\ fmt' = caller.fmt /\ caller' = NoCaller /\ pc' = pc
  BY DEF Recursed
<1>2. pc' \notin {"idle", "answer"}
  BY <1>1, FormatNames DEF Scanning
<1>3. caller'.next = 0 /\ ~ IsPair(fmt')
  BY <1>1 DEF NoCaller, PartInv
<1> QED
  BY <1>2, <1>3 DEF PartInv, PartsCombine

\* A call that took a pair of conversions has read both.
LEMMA ScannedParts == ASSUME TypesRight, PartInv, Scanned PROVE PartInv'
<1>1. /\ ans'.fmt = fmt /\ ans'.pos = st.pos /\ ans'.tm = st.tm /\ text' = text
      /\ Done /\ Begins(<<>>)
  BY DEF Scanned
<1>2. IsPair(fmt) /\ st.pos # 0 => next = 3
  <2> SUFFICES ASSUME IsPair(fmt), st.pos # 0 PROVE next = 3
    OBVIOUS
  <2>1. Len(fmt) = 2 /\ Parts(fmt, text, next, st)
    BY PairsAre DEF PartInv
  <2>2. next \in 1..3 /\ ~ (next <= 2)
    BY <1>1, <2>1 DEF Done, More, Parts
  <2> QED
    BY <2>2
<1>3. fmt = Pair("C", "y") /\ st.pos = 5 => st.tm["year"] + 1900 = TwoOf(text, 1) * 100 + TwoOf(text, 3)
  BY <1>2 DEF PartInv, IsPair, Parts, CenturyFirst
<1>4. fmt = Pair("y", "C") /\ st.pos = 5 => st.tm["year"] + 1900 = TwoOf(text, 3) * 100 + TwoOf(text, 1)
  BY <1>2 DEF PartInv, IsPair, Parts, YearFirst
<1>5. fmt = Pair("I", "p") /\ st.pos # 0 => (st.tm["hour"] >= 12) = (text[st.pos - 1] = "PM")
  BY <1>2 DEF PartInv, IsPair, Parts, HourFirst
<1>6. PartsCombine'
  BY <1>1, <1>3, <1>4, <1>5 DEF PartsCombine, Two2, TwoOf
<1> QED
  BY <1>1, <1>6, BeginsParts

LEMMA ParseParts == ASSUME PartInv, Parse PROVE PartInv'
<1>1. Begins(Rfc1123) /\ pc' = "rfc1123"
  BY DEF Parse
<1>2. PartsCombine'
  BY <1>1 DEF PartsCombine
<1> QED
  BY <1>1, <1>2, BeginsParts

LEMMA ThenParts == ASSUME ReadsInv, PartInv, NEW f \in DOMAIN Fmt, NEW g, Then(f, g), g \in DOMAIN Fmt \cup {"answer"}
                   PROVE  PartInv'
<1>1. CASE Takes
  <2>1. ans'.fmt = Fmt[f] /\ pc' = "answer" /\ Begins(<<>>)
    BY <1>1, OwnIs DEF Then
  <2>2. ~ IsPair(ans'.fmt)
    BY <2>1, PairsAre
  <2>3. PartsCombine'
    BY <2>2 DEF PartsCombine, IsPair
  <2> QED
    BY <2>1, <2>3, BeginsParts
<1>2. CASE ~ Takes
  <2>1. ans' = NoAnswer /\ pc' = g /\ Begins(IF g = "answer" THEN <<>> ELSE Fmt[g])
    BY <1>2 DEF Then
  <2>2. ~ IsPair(ans'.fmt)
    BY <2>1, PairsAre DEF NoAnswer
  <2>3. PartsCombine'
    BY <2>2 DEF PartsCombine, IsPair
  <2>4. pc' \in {"idle", "answer"} => g = "answer"
    BY <2>1, FormatNames
  <2> QED
    BY <2>1, <2>3, <2>4, BeginsParts
<1> QED
  BY <1>1, <1>2

LEMMA NextParts == TypesRight /\ ReadsInv /\ PartInv /\ [Next]_vars => PartInv'
<1> SUFFICES ASSUME TypesRight, ReadsInv, PartInv, [Next]_vars PROVE PartInv'
  OBVIOUS
<1>0. ~ IsPair(<<>>)
  BY PairsAre
<1>1. ASSUME NEW f \in DOMAIN Fmt, NEW tm \in Times, Format(f, tm) PROVE PartInv'
  BY <1>0, <1>1 DEF Format, scan, PartInv, PartsCombine
<1>2. ASSUME NEW z \in Zones \cup {None}, SetZone(z) PROVE PartInv'
  BY <1>2 DEF SetZone, scan, PartInv, PartsCombine
<1>3. CASE Scan
  <2>1. PICK c \in Cases : Begins(c.fmt)
    BY <1>3 DEF Scan
  <2>2. pc' = "scan" /\ PartsCombine'
    BY <1>3 DEF Scan, PartsCombine
  <2> QED
    BY <2>1, <2>2, BeginsParts
<1>4. CASE Try
  BY <1>4, ThenParts, FormatNames DEF Try
<1>5. CASE Return
  BY <1>0, <1>5 DEF Return, scan, PartInv, PartsCombine
<1>6. CASE UNCHANGED vars
  BY <1>6 DEF vars, scan, PartInv, PartsCombine, Two2
<1> QED
  BY <1>1, <1>2, <1>3, <1>4, <1>5, <1>6, ConvertParts, RecurseParts, RecursedParts, ScannedParts, ParseParts DEF Next

\* Where two conversions give a field together, both count: the century and the
\* last digits of a year in either order, an hour and its half.  For every text.
THEOREM PartsAreCombined == Spec => []PartsCombine
<1>1. Init => ReadsInv /\ PartInv
  <2>1. Init => PartInv
    BY PairsAre DEF Init, NoCaller, PartInv, PartsCombine
  <2> QED
    BY <2>1, FormatNames DEF Init, ReadsInv, WrittenInv, OwnInv, ReadsBack
<1>2. RangeInv => TypesRight
  BY DEF RangeInv
<1>3. TypesRight /\ ReadsInv /\ PartInv /\ [Next]_vars => ReadsInv' /\ PartInv'
  BY NextReads, NextParts
<1>4. PartInv => PartsCombine
  BY DEF PartInv
<1> QED
  BY <1>1, <1>2, <1>3, <1>4, RangeHolds, PTL DEF Spec
=============================================================================
