------------------------------ MODULE MC_Dates ------------------------------
(***************************************************************************)
(* Dates for TLC.  Times: both ends of the window of the two-digit year,   *)
(* of a century, a year and a day, days of one and of two digits, and the  *)
(* months with the longest and shortest names.  Texts: all short ones of a *)
(* few digits and signs, and all of four digits for two-part years.        *)
(***************************************************************************)
EXTENDS Dates, FiniteSets

MCWords == STRING \ {"NUL"}

\* The weekday of a day of the Gregorian calendar, as gmtime gives it.
Shift == <<0, 3, 2, 5, 0, 3, 5, 1, 4, 6, 2, 4>>
Weekday(y, m, d) == LET z == IF m < 3 THEN y - 1 ELSE y
                    IN  (z + (z \div 4) - (z \div 100) + (z \div 400) + Shift[m] + d) % 7
Tm(y, m, d, h, n, s) ==
    [sec |-> s, min |-> n, hour |-> h, mday |-> d, mon |-> m - 1, year |-> y - 1900,
     wday |-> Weekday(y, m, d), yday |-> 0, isdst |-> 0]
MCTimes == {Tm(y, 1, 1, 0, 0, 0) : y \in {1969, 1970, 2000, 2068, 2069}}
           \cup {Tm(y, 12, 31, 23, 59, 59) : y \in {1968, 1999, 2068, 9999}}
           \cup {Tm(1994, 11, 6, 8, 49, 37), Tm(2010, 5, 10, 12, 1, 0), Tm(2000, 2, 29, 1, 10, 9)}

Some(n, chars) == UNION {[1..k -> chars] : k \in 0..n}
Short == Some(3, {"0", "3", "9", ":", " ", "AM", "PM"})
One == {<<Plain(c)>> : c \in DOMAIN Number \cup {"I", "l", "p", "u", "C", "y", "G", "n", "a", "b"}}
       \cup {<<Plain("I"), Plain("p")>>, <<Plain("p"), Plain("I")>>, <<Plain("g"), Plain("G")>>,
             <<<<"O", "d">>, Lit(":"), <<"O", "y">>>>, <<<<"E", "d">>>>, <<<<"E", "C">>>>}
Years == {Pair("C", "y"), Pair("y", "C"), <<Plain("Y")>>, <<Plain("j")>>, <<Plain("C"), Plain("C")>>,
          <<Plain("G"), Plain("n")>>}
\* A century after a year before 1900.
Twice == [fmt : {<<Plain("C"), Plain("y"), Plain("C")>>}, text : {<<"0", "0", "0", "1", "0", "0">>}]
Zone == {<<Plain("z")>>, <<Plain("Z")>>, <<Blank, Plain("z")>>}
ZoneTexts == {<<x>> : x \in {"GMT", "UT", "Z", "EST", "PDT", "A", "J", "Daylight", "5", " "}}
             \cup {<<s>> \o w : s \in {"+", "-"}, w \in Some(4, {"0", "6", ":"})}
             \cup {<<"+", "0", "5", ":", "3", "0">>, <<"+", "0", "5", ":", "7", "0">>}
Digit4 == [1..4 -> {"0", "1", "6", "9"}]
Clock == {<<h, "2", ":", "3", "0", ":", "6", s, " ", "AM">> : h \in {"0", "1"}, s \in {"1", "2"}}
Days == {<<"1", "2", "/", d, "1", "/", "6", y>> : d \in {"3", "4"}, y \in {"8", "9"}}
        \cup {<<"2", "0", "1", "0", "-", "1", "2", "-", "3", "1">>,
              <<"Sunday", " ", "May", " ", " ", "6", " ", "2", "3", ":", "5", "9", ":", "0", "1",
                " ", "2", "0", "6", "8">>}
MCCases == Twice \cup [fmt : One, text : Short] \cup [fmt : Years, text : Digit4]
           \cup [fmt : Zone, text : ZoneTexts]
           \cup [fmt : {<<Plain(c)>> : c \in DOMAIN Complex}, text : Clock \cup Days]
=============================================================================
