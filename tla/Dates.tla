-------------------------------- MODULE Dates -------------------------------
(***************************************************************************)
(* src/mmp_date.c as a client uses it: times are written in three formats, *)
(* mmp_parse_date tries the three in turn, and xstrptime is called itself. *)
(* A call of xstrptime is a step per conversion.  A time is known by what  *)
(* gmtime makes of it.                                                     *)
(***************************************************************************)
EXTENDS Date

CONSTANTS Words,        \* what texts and formats are made of
          Times,        \* times that are written, as gmtime gives them
          Zones,        \* values of TZ
          Cases,        \* [fmt, text] that xstrptime is called with
          None          \* not set

Fields == {"sec", "min", "hour", "mday", "mon", "year", "wday", "yday", "isdst"}

FourDigitYears == -900..8099        \* the years from 1000 to 9999
ASSUME TimesAssumption ==
    \A tm \in Times : /\ tm \in [Fields -> Int]
                      /\ tm["sec"] \in 0..60 /\ tm["min"] \in 0..59 /\ tm["hour"] \in 0..23
                      /\ tm["mday"] \in 1..31 /\ tm["mon"] \in 0..11 /\ tm["wday"] \in 0..6
                      /\ tm["year"] \in FourDigitYears

\* A character or a name; "NUL" is after the end of a text.
ASSUME WordsAssumption ==
    /\ {"a", "A", "b", "d", "m", "y", "Y", "H", "I", "M", "S", "p"} \subseteq Words
    /\ {Space, Comma, Colon, Slash, Dash, "GMT"} \subseteq Words
    /\ Digit \subseteq Words /\ "NUL" \notin Words
    /\ \A i \in 1..7 : {day[i], abday[i]} \subseteq Words
    /\ \A i \in 1..12 : abmon[i] \in Words

\* A conversion has one modifier at most, and is none that Convert leaves out.
Conversion == {c \in {"lit", "", "E", "O"} \X Words : c[1] = "lit" \/ c[2] # "s"}
ASSUME CasesAssumption == \A c \in Cases : c.fmt \in Seq(Conversion) /\ c.text \in Seq(Words)

VARIABLES tz,           \* the environment variable TZ
          pc,           \* "idle", the format that is tried, "scan", "answer" or "wild"
          text,
          fmt, next,    \* the format xstrptime is at, and its next conversion
          st,            \* where it is in the text, and what it has read
          caller,       \* the call of xstrptime it was called from, if next is not 0
          written,      \* history: the time and the format text was made of
          ans           \* what the last call returned

scan == <<fmt, next, st, caller>>
vars == <<tz, pc, text, scan, written, ans>>

NoTime == [f \in Fields |-> 0]
NoCaller == [fmt |-> <<>>, next |-> 0, split |-> FALSE]
NoAnswer == [fmt |-> <<>>, pos |-> 0, tm |-> NoTime, zone |-> None]
Fmt == [rfc1123 |-> Rfc1123, rfc1036 |-> Rfc1036, asctime |-> Asctime]

\* xstrptime is called with format f, or for none.
Begins(f) == fmt' = f /\ next' = 1 /\ st' = Start(1, NoTime) /\ caller' = NoCaller

Init == /\ tz = None /\ pc = "idle" /\ text = <<>>
        /\ fmt = <<>> /\ next = 1 /\ st = Start(1, NoTime) /\ caller = NoCaller
        /\ written = None /\ ans = NoAnswer

(***************************************************************************)
(* What strftime and asctime_r write.                                      *)
(***************************************************************************)
Tens(n) == Digits[((n \div 10) % 10) + 1]
Ones(n) == Digits[(n % 10) + 1]
Text(f, tm) ==
    LET y == tm["year"] + 1900
        d == tm["mday"]   h == tm["hour"]   m == tm["min"]   s == tm["sec"]
        dayname == abday[tm["wday"] + 1]
        month == abmon[tm["mon"] + 1]
    IN  CASE f = "rfc1123" ->
               <<dayname, Comma, Space, Tens(d), Ones(d), Space, month, Space,
                 Tens(y \div 100), Ones(y \div 100), Tens(y), Ones(y), Space,
                 Tens(h), Ones(h), Colon, Tens(m), Ones(m), Colon, Tens(s), Ones(s), Space, "GMT">>
          [] f = "rfc1036" ->
               <<day[tm["wday"] + 1], Comma, Space, Tens(d), Ones(d), Dash, month, Dash, Tens(y), Ones(y), Space,
                 Tens(h), Ones(h), Colon, Tens(m), Ones(m), Colon, Tens(s), Ones(s), Space, "GMT">>
          [] f = "asctime" ->
               <<dayname, Space, month, Space, IF d < 10 THEN Space ELSE Tens(d), Ones(d), Space,
                 Tens(h), Ones(h), Colon, Tens(m), Ones(m), Colon, Tens(s), Ones(s), Space,
                 Tens(y \div 100), Ones(y \div 100), Tens(y), Ones(y)>>

\* mmp_time_1123_format, mmp_time_1036_format, mmp_time_asctime_format
Format(f, tm) == /\ pc = "idle" /\ written = None
                 /\ text' = Text(f, tm)
                 /\ written' = [fmt |-> f, tm |-> tm]
                 /\ ans' = NoAnswer
                 /\ UNCHANGED <<tz, pc, scan>>

\* mmp_set_tm_zone, for NULL too
SetZone(z) == /\ pc = "idle" /\ tz # z
              /\ tz' = z
              /\ UNCHANGED <<pc, text, scan, written, ans>>

(***************************************************************************)
(* xstrptime: a conversion at a time, until one fails.                     *)
(***************************************************************************)
\* A call of xstrptime itself.
Scan == /\ pc = "idle" /\ written = None
        /\ \E c \in Cases : text' = c.text /\ Begins(c.fmt)
        /\ pc' = "scan"
        /\ ans' = NoAnswer
        /\ UNCHANGED <<tz, written>>

Scanning == pc \in DOMAIN Fmt \cup {"scan"}
More == st.pos # 0 /\ next <= Len(fmt)

\* A conversion that has read over the end of the text reads anything.
ConvertNext == /\ Scanning /\ More /\ ~Calls(fmt[next])
               /\ st' = Convert(text, st, fmt[next])
               /\ next' = next + 1
               /\ pc' = IF st'.pos > Len(text) + 1 THEN "wild" ELSE pc
               /\ UNCHANGED <<tz, text, fmt, caller, written, ans>>

Recurse == /\ Scanning /\ More /\ Calls(fmt[next])
           /\ caller' = [fmt |-> fmt, next |-> next + 1, split |-> st.split]
           /\ fmt' = Complex[fmt[next][2]]
           /\ next' = 1
           /\ st' = Start(st.pos, st.tm)
           /\ UNCHANGED <<tz, pc, text, written, ans>>

Recursed == /\ Scanning /\ ~More /\ caller.next # 0
            /\ fmt' = caller.fmt
            /\ next' = caller.next
            /\ st' = [pos |-> st.pos, tm |-> st.tm, split |-> caller.split]
            /\ caller' = NoCaller
            /\ UNCHANGED <<tz, pc, text, written, ans>>

Done == ~More /\ caller.next = 0

Scanned == /\ pc = "scan" /\ Done
           /\ ans' = [fmt |-> fmt, pos |-> st.pos, tm |-> st.tm, zone |-> None]
           /\ pc' = "answer"
           /\ Begins(<<>>)
           /\ UNCHANGED <<tz, text, written>>

(***************************************************************************)
(* mmp_parse_date: the formats in turn, until one takes the whole text.    *)
(* mktime takes the fields for those of the zone that is set, and reads    *)
(* isdst, which nobody has set: it may be any of three.                    *)
(***************************************************************************)
Parse == /\ pc = "idle" /\ written # None
         /\ pc' = "rfc1123"
         /\ Begins(Rfc1123)
         /\ UNCHANGED <<tz, text, written, ans>>

Takes == st.pos = Len(text) + 1
Then(f, g) == /\ pc = f /\ Done
              /\ IF Takes
                 THEN /\ pc' = "answer"
                      /\ \E dst \in {-1, 0, 1} :
                            ans' = [fmt |-> fmt, pos |-> st.pos, zone |-> tz,
                                    tm |-> Put(st.tm, "isdst", dst)]
                      /\ Begins(<<>>)
                 ELSE /\ pc' = g /\ ans' = NoAnswer
                      /\ Begins(IF g = "answer" THEN <<>> ELSE Fmt[g])
              /\ UNCHANGED <<tz, text, written>>
Try == Then("rfc1123", "rfc1036") \/ Then("rfc1036", "asctime") \/ Then("asctime", "answer")

Return == /\ pc = "answer"
          /\ pc' = "idle" /\ text' = <<>> /\ written' = None /\ ans' = NoAnswer
          /\ UNCHANGED <<tz, scan>>

Next == \/ \E f \in DOMAIN Fmt, tm \in Times : Format(f, tm)
        \/ \E z \in Zones \cup {None} : SetZone(z)
        \/ Scan \/ ConvertNext \/ Recurse \/ Recursed \/ Scanned
        \/ Parse \/ Try \/ Return

Spec == Init /\ [][Next]_vars

(***************************************************************************)
(* Properties                                                              *)
(***************************************************************************)
\* The year a two-digit year is read as (date.c: within 100 years of the epoch).
Century(y) == CHOOSE z \in 69..168 : (z - y) % 100 = 0
Expected == [f \in Fields |->
                CASE f = "year" /\ written.fmt = "rfc1036" -> Century(written.tm["year"])
                  [] f = "yday" -> 0
                  [] f = "isdst" -> ans.tm["isdst"]
                  [] OTHER -> written.tm[f]]

\* A date that one of the three functions wrote is read back, by the format it
\* was written in though an earlier one matches its beginning, to the same
\* fields: two digits of a year to the one from 1969 to 2068.
ReadsBack == pc = "answer" /\ written # None =>
                ans.fmt = Fmt[written.fmt] /\ ans.tm = Expected

\* Format f has the conversion %G, which does not look at what it reads first.
HasG(f) == \E i \in DOMAIN f : f[i][1] # "lit" /\ f[i][2] = "G"

\* The range of each field.  A year that is read is from 0 to 9999, or up to a century less
\* where a century is read after a year before 1900: C has negative remainders.
AnyYear == -1999..8099
Within(f) == CASE f = "sec" -> 0..61 [] f = "min" -> 0..59 [] f = "hour" -> 0..23
               [] f = "mday" -> 0..31 [] f = "mon" -> 0..11 [] f = "year" -> AnyYear
               [] f = "wday" -> 0..6 [] f = "yday" -> 0..365 [] f = "isdst" -> -1..1

\* What xstrptime accepts leaves every field in the range of struct tm, and it
\* stops in the text; only a %G is able to run over the end.
InRange == /\ pc = "answer" /\ ans.pos # 0 =>
                (\A f \in Fields : ans.tm[f] \in Within(f)) /\ ans.pos <= Len(text) + 1
           /\ pc = "wild" => HasG(fmt)

\* Where two conversions give a field together, both count: the century and the
\* last digits of a year in either order, an hour and its half in this one.
Pair(c, d) == <<Plain(c), Plain(d)>>
Two2(p) == Value(text, p, 2)
PartsCombine ==
    pc = "answer" =>
        /\ ans.fmt = Pair("C", "y") /\ ans.pos = 5 =>
              ans.tm["year"] + 1900 = Two2(1) * 100 + Two2(3)
        /\ ans.fmt = Pair("y", "C") /\ ans.pos = 5 =>
              ans.tm["year"] + 1900 = Two2(3) * 100 + Two2(1)
        /\ ans.fmt = Pair("I", "p") /\ ans.pos # 0 =>
              (ans.tm["hour"] >= 12) = (text[ans.pos - 1] = "PM")

\* mmp_date.h:61 "parse the passed string into a date": the time of day in the
\* text, which says GMT, is not taken for that of another zone.
MeansGMT == ans.tm # NoTime /\ written # None => ans.zone \in {None, "GMT"} /\ ans.tm["isdst"] # 1
=============================================================================
