-------------------------------- MODULE Date --------------------------------
(***************************************************************************)
(* xstrptime of src/mmp_date.c, the one for Windows.  A text is a sequence *)
(* of digits, signs and names; a format is a sequence of <<modifier,       *)
(* conversion>>, and <<"lit", x>> is the text x itself.                    *)
(***************************************************************************)
EXTENDS Integers, Sequences

Digits == <<"0", "1", "2", "3", "4", "5", "6", "7", "8", "9">>
day == <<"Sunday", "Monday", "Tuesday", "Wednesday", "Thursday", "Friday", "Saturday">>
abday == <<"Sun", "Mon", "Tue", "Wed", "Thu", "Fri", "Sat">>
mon == <<"January", "February", "March", "April", "May", "June", "July", "August",
         "September", "October", "November", "December">>
abmon == <<"Jan", "Feb", "Mar", "Apr", "May", "Jun", "Jul", "Aug", "Sep", "Oct", "Nov", "Dec">>
am_pm == <<"AM", "PM">>
tzname == <<"Standard", "Daylight">>
nast == {"EST", "CST", "MST", "PST"}
nadt == {"EDT", "CDT", "MDT", "PDT"}
Military == {"A", "B", "C", "D", "E", "F", "H", "I", "L", "M", "N", "O", "P", "Q", "R",
             "S", "T", "V", "W", "X", "Y"}

Space == " "
Comma == ","
Colon == ":"
Slash == "/"
Dash == "-"

Lit(x) == <<"lit", x>>
Plain(c) == <<"", c>>
Blank == Lit(Space)
HMS == <<Plain("H"), Lit(Colon), Plain("M"), Lit(Colon), Plain("S")>>
MDY == <<Plain("m"), Lit(Slash), Plain("d"), Lit(Slash), Plain("y")>>

(***************************************************************************)
(* The formats of mmp_parse_date, and those of the conversions that        *)
(* xstrptime calls itself for.                                             *)
(***************************************************************************)
Rfc1123 == <<Plain("a"), Lit(Comma), Blank, Plain("d"), Blank, Plain("b"), Blank, Plain("Y"), Blank,
             Plain("H"), Lit(Colon), Plain("M"), Lit(Colon), Plain("S"), Blank, Lit("GMT")>>
Rfc1036 == <<Plain("A"), Lit(Comma), Blank, Plain("d"), Lit(Dash), Plain("b"), Lit(Dash), Plain("y"), Blank,
             Plain("H"), Lit(Colon), Plain("M"), Lit(Colon), Plain("S"), Blank, Lit("GMT")>>
Asctime == <<Plain("a"), Blank, Plain("b"), Blank, Plain("d"), Blank,
             Plain("H"), Lit(Colon), Plain("M"), Lit(Colon), Plain("S"), Blank, Plain("Y")>>

Complex == [c |-> Asctime, D |-> MDY, x |-> MDY, T |-> HMS, X |-> HMS,
            F |-> <<Plain("Y"), Lit(Dash), Plain("m"), Lit(Dash), Plain("d")>>,
            R |-> <<Plain("H"), Lit(Colon), Plain("M")>>,
            r |-> <<Plain("I"), Lit(Colon), Plain("M"), Lit(Colon), Plain("S"), Blank, Plain("p")>>]

(***************************************************************************)
(* The state of xstrptime: the place in the text, 0 for NULL; the struct   *)
(* tm; and whether a year or a century was read.                           *)
(***************************************************************************)
At(t, p) == IF p \in DOMAIN t THEN t[p] ELSE "NUL"
Digit == {Digits[i] : i \in 1..10}
IsDigit(t, p) == At(t, p) \in Digit
DigitNo(c) == CHOOSE i \in 1..10 : Digits[i] = c
DigitAt(t, p) == DigitNo(t[p]) - 1

\* The first place from p on that has none of the signs of S.
SkipWhile(t, p, S) == CHOOSE q \in p..(Len(t) + 1) :
                         /\ q = Len(t) + 1 \/ t[q] \notin S
                         /\ \A r \in p..(q - 1) : t[r] \in S
SkipBlanks(t, p) == SkipWhile(t, p, {Space})

Moves(x, p) == [pos |-> p, tm |-> x.tm, split |-> x.split]
Fails(x) == Moves(x, 0)
Put(tm, field, v) == [tm EXCEPT ![field] = v]
Sets(x, p, field, v) == [pos |-> p, tm |-> Put(x.tm, field, v), split |-> x.split]
SetsYear(x, p, v) == [pos |-> p, tm |-> Put(x.tm, "year", v), split |-> TRUE]

\* conv_num: digits while another one may stay within hi, which is below 10000.
Value(t, p, k) == LET One == DigitAt(t, p)
                      Two == 10 * One + DigitAt(t, p + 1)
                      Three == 10 * Two + DigitAt(t, p + 2)
                      Four == 10 * Three + DigitAt(t, p + 3)
                  IN  CASE k = 1 -> One [] k = 2 -> Two [] k = 3 -> Three [] k = 4 -> Four
Power == <<10, 100, 1000, 10000>>
ReadsMore(t, p, hi, k) == Value(t, p, k) * 10 <= hi /\ hi >= Power[k] /\ IsDigit(t, p + k)
DigitsRead(t, p, hi) == CHOOSE k \in 1..4 : /\ ~ReadsMore(t, p, hi, k)
                                            /\ \A j \in 1..(k - 1) : ReadsMore(t, p, hi, j)

\* bug: the lower limit is not looked at
conv_numBelow(t, p, lo, hi) ==
    IF ~IsDigit(t, p) THEN [pos |-> 0, val |-> 0]
    ELSE LET k == DigitsRead(t, p, hi)
             v == Value(t, p, k)
         IN  [pos |-> IF v <= hi THEN p + k ELSE 0, val |-> v]

conv_num(t, p, lo, hi) ==
    IF ~IsDigit(t, p) THEN [pos |-> 0, val |-> 0]
    ELSE LET k == DigitsRead(t, p, hi)
             v == Value(t, p, k)
         IN  [pos |-> IF v \in lo..hi THEN p + k ELSE 0, val |-> v]

\* find_string
Named(c, n1, n2) == {i \in DOMAIN n1 : c \in {n1[i], n2[i]}}
NameNo(c, n1, n2) == CHOOSE i \in DOMAIN n1 : i \in Named(c, n1, n2)
find_string(t, p, n1, n2) ==
    IF Named(At(t, p), n1, n2) = {} THEN [pos |-> 0, val |-> 0]
    ELSE [pos |-> p + 1, val |-> NameNo(At(t, p), n1, n2) - 1]

\* Range, field and offset of what a conversion reads; "none" drops it.
Num(lo, hi, field, off) == [lo |-> lo, hi |-> hi, field |-> field, off |-> off]
Number == [d |-> Num(1, 31, "mday", 0), e |-> Num(1, 31, "mday", 0),
           k |-> Num(0, 23, "hour", 0), H |-> Num(0, 23, "hour", 0),
           j |-> Num(1, 366, "yday", -1), M |-> Num(0, 59, "min", 0),
           m |-> Num(1, 12, "mon", -1), S |-> Num(0, 61, "sec", 0),
           w |-> Num(0, 6, "wday", 0), Y |-> Num(0, 9999, "year", -1900),
           U |-> Num(0, 53, "none", 0), W |-> Num(0, 53, "none", 0),
           V |-> Num(0, 53, "none", 0), g |-> Num(0, 99, "none", 0)]

ReadNumber(t, x, c) ==
    LET n == Number[c]
        r == conv_num(t, x.pos, n.lo, n.hi)
    IN  IF n.field = "none" THEN Moves(x, r.pos)
        ELSE Sets(x, r.pos, n.field, r.val + n.off)

ReadName(t, x, field, n1, n2) ==
    LET r == find_string(t, x.pos, n1, n2) IN Sets(x, r.pos, field, r.val)

\* The hour of a clock of 12, and the half of the day that is added to it.
ReadHour(t, x) == LET r == conv_num(t, x.pos, 1, 12)
                  IN  Sets(x, r.pos, "hour", r.val % 12)
ReadHalf(t, x) == LET r == find_string(t, x.pos, am_pm, am_pm)
                  IN  IF x.tm["hour"] > 11 THEN Fails(x)
                      ELSE Sets(x, r.pos, "hour", x.tm["hour"] + 12 * r.val)
ReadDayFromMonday(t, x) == LET r == conv_num(t, x.pos, 1, 7)
                           IN  Sets(x, r.pos, "wday", r.val % 7)

\* Remainder and multiple of 100 as C has them, for a year before 1900 too.
Rem100(y) == IF y >= 0 THEN y % 100 ELSE -((-y) % 100)

\* bug: the year in the century is forgotten
ReadCenturyAlone(t, x) ==
    LET r == conv_num(t, x.pos, 0, 99)
    IN  SetsYear(x, r.pos, r.val * 100 - 1900)

ReadCentury(t, x) ==
    LET r == conv_num(t, x.pos, 0, 99)
        y == r.val * 100 - 1900 + (IF x.split THEN Rem100(x.tm["year"]) ELSE 0)
    IN  SetsYear(x, r.pos, y)

\* bug: every year without a century is of this one
ReadYear1900(t, x) == LET r == conv_num(t, x.pos, 0, 99)
                      IN  SetsYear(x, r.pos, r.val)

ReadYear(t, x) ==
    LET r == conv_num(t, x.pos, 0, 99)
        y == IF x.split THEN r.val + x.tm["year"] - Rem100(x.tm["year"])
             ELSE IF r.val <= 68 THEN r.val + 100 ELSE r.val
    IN  SetsYear(x, r.pos, y)

\* %G is read past by its first character, whatever that is: the end of the text too.
SkipIsoYear(t, x) == Moves(x, IF x.pos = Len(t) + 1 THEN x.pos + 1
                              ELSE SkipWhile(t, x.pos + 1, Digit))

ReadZoneName(t, x) == IF At(t, x.pos) = "GMT" THEN Sets(x, x.pos + 1, "isdst", 0)
                      ELSE ReadName(t, x, "isdst", tzname, tzname)

\* The digits of an offset: hh, hhmm, or hh:mm; 0 for any other.
DigitsFrom(t, p) == CHOOSE k \in 0..4 : /\ k = 4 \/ ~IsDigit(t, p + k)
                                        /\ \A j \in 0..(k - 1) : IsDigit(t, p + j)
OffsetEnd(t, p) ==
    LET n == DigitsFrom(t, p)
        q == SkipWhile(t, p + 2, {Colon})
    IN  CASE n = 4 -> IF DigitAt(t, p + 2) < 6 THEN p + 4 ELSE 0
          [] n = 2 /\ ~IsDigit(t, q) -> q
          [] n = 2 /\ IsDigit(t, q) /\ IsDigit(t, q + 1) -> IF DigitAt(t, q) < 6 THEN q + 2 ELSE 0
          [] OTHER -> 0

ReadZone(t, x) ==
    LET p == SkipBlanks(t, x.pos)
        z == At(t, p)
    IN  CASE z \in {"GMT", "UT", "Z"} -> Sets(x, p + 1, "isdst", 0)
          [] z \in {"+", "-"} -> Sets(x, OffsetEnd(t, p + 1), "isdst", 0)
          [] z \in nadt -> Sets(x, p + 1, "isdst", 1)
          [] z \in nast \cup Military -> Moves(x, p + 1)
          [] OTHER -> Fails(x)

ReadLiteral(t, x, c) == IF c = Space THEN Moves(x, SkipBlanks(t, x.pos))
                        ELSE IF At(t, x.pos) = c THEN Moves(x, x.pos + 1)
                        ELSE Fails(x)

\* LEGAL_ALT: the modifier a conversion may have; some are not asked.
Legal(alt, c) == \/ alt \in {"", "lit"}
                 \/ alt = "E" /\ c \in {"c", "X", "x", "C", "Y"}
                 \/ alt = "O" /\ c \in {"d", "e", "H", "I", "M", "m", "S", "U", "W", "w", "u"}
                 \/ c \in {"y", "g", "G", "V", "Z", "z"}

\* A conversion that takes no other for itself.
Convert(t, x, d) ==
    LET c == d[2]
    IN  CASE ~Legal(d[1], c) -> Fails(x)
          [] d[1] = "lit" -> ReadLiteral(t, x, c)
          [] OTHER ->
             CASE c \in DOMAIN Number -> ReadNumber(t, x, c)
               [] c \in {"a", "A"} -> ReadName(t, x, "wday", day, abday)
               [] c \in {"b", "B", "h"} -> ReadName(t, x, "mon", mon, abmon)
               [] c \in {"I", "l"} -> ReadHour(t, x)
               [] c = "p" -> ReadHalf(t, x)
               [] c = "u" -> ReadDayFromMonday(t, x)
               [] c = "C" -> ReadCentury(t, x)
               [] c = "y" -> ReadYear(t, x)
               [] c = "G" -> SkipIsoYear(t, x)
               [] c = "Z" -> ReadZoneName(t, x)
               [] c = "z" -> ReadZone(t, x)
               [] c \in {"n", "t"} -> Moves(x, SkipBlanks(t, x.pos))
               [] OTHER -> Fails(x)

\* A complex conversion is a call of its own: it forgets split_year.
Calls(d) == d[1] # "lit" /\ d[2] \in DOMAIN Complex /\ Legal(d[1], d[2])
Start(p, tm) == [pos |-> p, tm |-> tm, split |-> FALSE]
=============================================================================
