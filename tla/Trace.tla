------------------------------- MODULE Trace --------------------------------
(***************************************************************************)
(* src/mmp_trace.c: the error trace, a static array and a count that every *)
(* thread of the process writes through mmp_setError, without a lock.      *)
(*                                                                         *)
(* A record is its file name and its line: the stores of the other fields  *)
(* lie between or after these and add no place to be interrupted at.  The  *)
(* count is read again for each field, or kept in a register since it was  *)
(* last read: the language lets the compiler choose.                       *)
(***************************************************************************)
EXTENDS Integers, Sequences

CONSTANTS Thread,
          Msg,          \* what a thread traces: the place of an error
          Cap,          \* MMP_TRACE_ARR_LEN
          None,         \* what a field holds before it is written
          MaxNum        \* bound: no creation starts while a count is higher

ASSUME CapAssumption == Cap \in Nat \ {0}
ASSUME NoneAssumption == None \notin Msg
ASSUME MaxNumAssumption == MaxNum \in Nat

Slots == 0..(Cap - 1)

VARIABLES m_trace_num, m_trace_arr,
          pc, msg, num,     \* of each thread: its step, message, copy of the count
          out,              \* of each thread: what it has printed of the trace
          overrun,          \* a record past the array was written or read
          met,              \* history: the calls under way that another one met
          raced             \* history: two creations were under way at a time

shared == <<m_trace_num, m_trace_arr, overrun>>
history == <<met, raced>>
traceVars == <<shared, pc, msg, num, out, history>>

TraceInit == /\ m_trace_num = 0
             /\ m_trace_arr = [i \in Slots |-> [filename |-> None, line |-> None]]
             /\ pc = [t \in Thread |-> "idle"]
             /\ msg = [t \in Thread |-> None]
             /\ num = [t \in Thread |-> 0]
             /\ out = [t \in Thread |-> << >>]
             /\ overrun = FALSE
             /\ met = {} /\ raced = FALSE

\* The threads in mmp_trace_create and in mmp_trace_print.
Creating == {t \in Thread : pc[t] \in {"filename", "line", "load", "store"}}
Printing == {t \in Thread : pc[t] = "print"}

\* The locals of a call that returns are gone.
Return(t) == /\ pc' = [pc EXCEPT ![t] = "idle"]
             /\ msg' = [msg EXCEPT ![t] = None]
             /\ num' = [num EXCEPT ![t] = 0]
             /\ out' = [out EXCEPT ![t] = << >>]
             /\ met' = met \ {t} /\ UNCHANGED raced

(***************************************************************************)
(* mmp_trace_create                                                        *)
(***************************************************************************)
\* bug: the check is off by one
TraceFullOver == m_trace_num > Cap

TraceFull == m_trace_num >= Cap

\* A creation meets every creation and print that is under way.
SetError(t, m) == /\ pc[t] = "idle" /\ \A u \in Thread : num[u] <= MaxNum
                  /\ ~TraceFull
                  /\ pc' = [pc EXCEPT ![t] = "filename"]
                  /\ msg' = [msg EXCEPT ![t] = m]
                  /\ num' = [num EXCEPT ![t] = m_trace_num]
                  /\ met' = met \cup Printing \cup Creating
                                 \cup (IF Creating = {} THEN {} ELSE {t})
                  /\ raced' = (raced \/ Creating # {})
                  /\ UNCHANGED <<shared, out>>

\* bug: the first record is written over
FirstOnly(t) == {0}

\* The count as a step of thread t finds it: as last read, or as it is now.
Counts(t) == {num[t], m_trace_num}

Write(t, field) ==
    \E n \in Counts(t) :
       /\ num' = [num EXCEPT ![t] = n]
       /\ IF n \in Slots
          THEN /\ m_trace_arr' = [m_trace_arr EXCEPT ![n][field] = msg[t]]
               /\ UNCHANGED overrun
          ELSE /\ overrun' = TRUE
               /\ UNCHANGED m_trace_arr

WriteFilename(t) == /\ pc[t] = "filename"
                    /\ Write(t, "filename")
                    /\ pc' = [pc EXCEPT ![t] = "line"]
                    /\ UNCHANGED <<m_trace_num, msg, out, history>>

WriteLine(t) == /\ pc[t] = "line"
                /\ Write(t, "line")
                /\ pc' = [pc EXCEPT ![t] = "load"]
                /\ UNCHANGED <<m_trace_num, msg, out, history>>

\* m_trace_num++ is a load and a store.
Load(t) == /\ pc[t] = "load"
           /\ \E n \in Counts(t) : num' = [num EXCEPT ![t] = n]
           /\ pc' = [pc EXCEPT ![t] = "store"]
           /\ UNCHANGED <<shared, msg, out, history>>

Store(t) == /\ pc[t] = "store"
            /\ m_trace_num' = num[t] + 1
            /\ Return(t)
            /\ UNCHANGED <<m_trace_arr, overrun>>

(***************************************************************************)
(* mmp_trace_reset: it meets whatever is under way.                        *)
(***************************************************************************)
Reset(t) == /\ pc[t] = "idle"
            /\ m_trace_num' = 0
            /\ met' = met \cup Printing \cup Creating
            /\ UNCHANGED <<m_trace_arr, overrun, pc, msg, num, out, raced>>

(***************************************************************************)
(* mmp_trace_print: num is the loop counter i, and the bound is read again *)
(* for each record.                                                        *)
(***************************************************************************)
\* bug: the last record is left out
MoreButLast(t) == num[t] < m_trace_num - 1

More(t) == num[t] < m_trace_num

PrintTrace(t) == /\ pc[t] = "idle"
                 /\ pc' = [pc EXCEPT ![t] = "print"]
                 /\ met' = IF Creating = {} THEN met ELSE met \cup {t}
                 /\ UNCHANGED <<shared, msg, num, out, raced>>

PrintNext(t) == /\ pc[t] = "print"
                /\ More(t)
                /\ IF num[t] \in Slots
                   THEN /\ out' = [out EXCEPT ![t] = Append(@, m_trace_arr[num[t]])]
                        /\ UNCHANGED overrun
                   ELSE /\ overrun' = TRUE
                        /\ UNCHANGED out
                /\ num' = [num EXCEPT ![t] = @ + 1]
                /\ UNCHANGED <<m_trace_num, m_trace_arr, pc, msg, history>>

PrintEnds(t) == /\ pc[t] = "print"
                /\ ~More(t)
                /\ Return(t)
                /\ UNCHANGED shared

TraceNext == \E t \in Thread :
           \/ \E m \in Msg : SetError(t, m)
           \/ WriteFilename(t) \/ WriteLine(t) \/ Load(t) \/ Store(t)
           \/ Reset(t)
           \/ PrintTrace(t) \/ PrintNext(t) \/ PrintEnds(t)

TraceSpec == TraceInit /\ [][TraceNext]_traceVars
-----------------------------------------------------------------------------
\* Types; and the count stays in the array as long as creations are not under
\* way together.
TraceTypeOK == /\ m_trace_num \in Nat
               /\ ~raced => m_trace_num <= Cap
               /\ m_trace_arr \in [Slots -> [filename : Msg \cup {None},
                                            line : Msg \cup {None}]]
               /\ pc \in [Thread -> {"idle", "filename", "line", "load", "store", "print"}]
               /\ msg \in [Thread -> Msg \cup {None}]
               /\ num \in [Thread -> Nat]
               /\ out \in [Thread -> Seq([filename : Msg \cup {None},
                                          line : Msg \cup {None}])]
               /\ overrun \in BOOLEAN
               /\ met \in SUBSET Thread /\ raced \in BOOLEAN

(***************************************************************************)
(* The check of mmp_trace_create (mmp_trace.c:40) keeps every access below *)
(* MMP_TRACE_ARR_LEN, whatever prints and resets are under way at the same *)
(* time, up to the first two creations that are.  Those two can both pass  *)
(* it for one place, and then nothing is promised.                         *)
(***************************************************************************)
NoOverrun == overrun => raced

\* The trace as a list.  A record of two errors is none: one whose fields are of
\* different messages, or that is not in the array.
Log == [i \in 1..m_trace_num |->
          IF /\ i - 1 \in Slots
             /\ m_trace_arr[i - 1].filename = m_trace_arr[i - 1].line
          THEN m_trace_arr[i - 1].line
          ELSE None]
T == INSTANCE TraceLog WITH log <- Log

(***************************************************************************)
(* The trace is a log of errors (mmp_trace.h:57): a call that is not met   *)
(* by another one adds the whole record of its own message at the end of   *)
(* what is there, or empties it, and changes nothing before it returns,    *)
(* whatever calls met before it and whatever threads print meanwhile.  So  *)
(* no error is lost, repeated, torn or overwritten but by creations or     *)
(* resets that are under way together with a creation.                     *)
(***************************************************************************)
IsLog == /\ T!Init
         /\ [][Creating \cap met = {} => [T!Next]_Log]_traceVars

\* mmp_trace.h:45 "print out the complete trace list messages": those of a trace
\* that fits its array, by a print that meets no creation and no reset.
PrintsAll == [][\A t \in Printing : pc'[t] = "idle" /\ t \notin met /\ m_trace_num <= Cap
                  => out[t] = [i \in 1..m_trace_num |-> m_trace_arr[i - 1]]]_traceVars
=============================================================================
