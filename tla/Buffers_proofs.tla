--------------------------- MODULE Buffers_proofs ---------------------------
(***************************************************************************)
(* Proofs about the two bounded buffers: Queue, for every set of elements  *)
(* and every size, and Trace, for every set of threads and messages, every *)
(* length of the array and every interleaving of the unlocked calls.       *)
(***************************************************************************)
EXTENDS Queue, Trace, SequenceTheorems, TLAPS

(***************************************************************************)
(* Queue                                                                   *)
(***************************************************************************)
\* Slots nobody wrote lie beyond the window, and only on the first lap.
SlotsWritten == \/ \A i \in 0..(max_size - 1) : data[i] # Junk
                \/ /\ from + n_data <= max_size
                   /\ \A i \in 0..(from + n_data - 1) : data[i] # Junk

QueueInv == TypeOK /\ NoLeak /\ NoJunkOut /\ SlotsWritten

USE SizesAssumption, ElemAssumption DEF Full, Empty, StructFreed

\* A vector nobody wrote has as many slots as asked for.
LEMMA UnwrittenType == \A size \in Nat :
                         Unwritten(size) \in [0..(size - 1) -> Elem \cup {Junk}]
BY DEF Unwritten

\* Initially there is no queue, and the invariant holds.
LEMMA InitQueueInv == Init => QueueInv
<1> SUFFICES ASSUME Init PROVE QueueInv
  OBVIOUS
<1>1. TypeOK
  <2>1. data \in [0..(max_size - 1) -> Elem \cup {Junk}]
    BY UnwrittenType DEF Init
  <2>2. /\ ~open /\ open \in BOOLEAN
        /\ max_size = 0 /\ n_data = 0 /\ from = 0 /\ heap = 0
        /\ res.elem = NoElem
    BY DEF Init, Outcome
  <2> QED
    BY <2>1, <2>2 DEF TypeOK
<1>2. NoLeak /\ NoJunkOut
  BY DEF Init, NoLeak, NoJunkOut, Outcome
<1>3. SlotsWritten
  BY DEF Init, SlotsWritten
<1> QED
  BY <1>1, <1>2, <1>3 DEF QueueInv

\* The slot an enqueue writes is inside the vector.
LEMMA SlotInside == TypeOK /\ n_data < max_size => Slot \in 0..(max_size - 1)
BY DEF TypeOK, Slot

\* Every call preserves the invariant.
LEMMA NextQueueInv == QueueInv /\ [Next]_vars => QueueInv'
<1> SUFFICES ASSUME QueueInv, [Next]_vars PROVE QueueInv'
  OBVIOUS
<1> USE DEF QueueInv, TypeOK, NoLeak, NoJunkOut, SlotsWritten
<1>1. ASSUME NEW size \in Sizes, Create(size) PROVE QueueInv'
  BY <1>1 DEF Create, Outcome, Unwritten
<1>2. CASE CreateNoStruct
  BY <1>2 DEF CreateNoStruct, Outcome, Unwritten
<1>3. CASE CreateNoData
  BY <1>3 DEF CreateNoData, Outcome, Unwritten
<1>4. CASE Destroy
  <2>1. TypeOK'
    <3>1. data' \in [0..(max_size' - 1) -> Elem \cup {Junk}]
      BY <1>4, UnwrittenType DEF Destroy
    <3>2. heap' \in Nat
      BY <1>4 DEF Destroy
    <3>3. /\ ~open' /\ open' \in BOOLEAN
          /\ max_size' = 0 /\ n_data' = 0 /\ from' = 0
          /\ res'.elem = NoElem
      BY <1>4 DEF Destroy, Outcome
    <3> QED
      BY <3>1, <3>2, <3>3
  <2>2. NoLeak' /\ NoJunkOut'
    BY <1>4 DEF Destroy, Outcome
  <2>3. SlotsWritten'
    BY <1>4 DEF Destroy
  <2> QED
    BY <2>1, <2>2, <2>3
<1>5. ASSUME NEW e \in Elem, Enqueue(e) PROVE QueueInv'
  <2>1. Slot \in 0..(max_size - 1)
    BY <1>5, SlotInside DEF Enqueue
  <2>2. TypeOK' /\ NoLeak' /\ NoJunkOut'
    BY <1>5, <2>1 DEF Enqueue, Outcome, Unwritten
  <2>3. SlotsWritten'
    BY <1>5, <2>1 DEF Enqueue, Slot
  <2> QED
    BY <2>2, <2>3
<1>6. CASE EnqueueFull
  BY <1>6 DEF EnqueueFull, Outcome, Unwritten
<1>7. CASE Dequeue
  <2>1. data[from] \in Elem
    BY <1>7 DEF Dequeue
  <2>2. TypeOK' /\ NoLeak' /\ NoJunkOut'
    BY <1>7, <2>1 DEF Dequeue, NextFrom, Outcome, Unwritten
  <2>3. SlotsWritten'
    BY <1>7 DEF Dequeue, NextFrom
  <2> QED
    BY <2>2, <2>3
<1>8. CASE First
  BY <1>8 DEF First, Outcome, Unwritten
<1>9. CASE TakeEmpty
  BY <1>9 DEF TakeEmpty, Outcome, Unwritten
<1>10. CASE UNCHANGED vars
  BY <1>10 DEF vars
<1> QED
  BY <1>1, <1>2, <1>3, <1>4, <1>5, <1>6, <1>7, <1>8, <1>9, <1>10 DEF Next

\* The invariant holds of every queue a client can make.
THEOREM QueueInvHolds == Spec => []QueueInv
<1> QED
  BY InitQueueInv, NextQueueInv, PTL DEF Spec

\* No call reads or writes outside the data vector.
THEOREM QueueTypeCorrect == Spec => []TypeOK
BY QueueInvHolds, PTL DEF QueueInv

\* mmp_queue_create and mmp_queue_destroy keep exactly the blocks in use.
THEOREM NothingLeaks == Spec => []NoLeak
BY QueueInvHolds, PTL DEF QueueInv

\* mmp_queue_dequeue and mmp_queue_first never hand out unwritten memory.
THEOREM NothingUnwritten == Spec => []NoJunkOut
BY QueueInvHolds, PTL DEF QueueInv
-----------------------------------------------------------------------------
(***************************************************************************)
(* The window of the ring as a sequence.                                   *)
(***************************************************************************)
WindowTyped == Window \in Seq(Elem \cup {Junk}) /\ Len(Window) = n_data

\* The window is a sequence of the slots from the cursor on.
LEMMA WindowIsSeq == TypeOK => WindowTyped
<1> SUFFICES ASSUME TypeOK PROVE WindowTyped
  OBVIOUS
<1>1. \A k \in 1..n_data : At(k - 1) \in 0..(max_size - 1)
  BY DEF TypeOK, At
<1>2. Window \in [1..n_data -> Elem \cup {Junk}]
  BY <1>1 DEF Window, TypeOK
<1> QED
  BY <1>2 DEF TypeOK, Window, WindowTyped

\* So it is after a step.
LEMMA WindowStaysSeq == TypeOK' => WindowTyped'
BY WindowIsSeq, PTL

\* A queue of no elements has an empty window.
LEMMA EmptyWindow == n_data = 0 => Window = << >>
BY DEF Window

\* Reading from the cursor reads the head of the window.
LEMMA HeadOfWindow == TypeOK /\ n_data > 0 => Window # << >> /\ data[from] = Head(Window)
<1> SUFFICES ASSUME TypeOK, n_data > 0
             PROVE  Window # << >> /\ data[from] = Head(Window)
  OBVIOUS
<1>1. At(0) = from
  BY DEF At, TypeOK
<1>2. Window[1] = data[from]
  BY <1>1 DEF Window, TypeOK
<1> QED
  BY <1>2, WindowIsSeq DEF TypeOK, WindowTyped

\* An enqueue that is not misplaced appends to the window.
LEMMA EnqueueAppends ==
  ASSUME TypeOK, TypeOK', NEW e \in Elem, Enqueue(e), ~Misplaces
  PROVE  Window' = Append(Window, e)
<1>0. n_data < max_size
  BY DEF Enqueue, TypeOK
<1>1. Slot = At(n_data) /\ Slot \in 0..(max_size - 1)
  BY <1>0, SlotInside DEF Misplaces
<1>2. \A k \in 1..n_data : At(k - 1) # Slot
  BY <1>1 DEF At, TypeOK, Enqueue
<1>3. \A k \in 1..(n_data + 1) : At(k - 1)' = At(k - 1)
  BY DEF At, Enqueue
<1>4. Window' = [k \in 1..(n_data + 1) |-> IF k = n_data + 1 THEN e ELSE Window[k]]
  <2>1. \A k \in 1..n_data : data'[At(k - 1)] = Window[k]
    BY <1>2 DEF Window, Enqueue, TypeOK
  <2>2. data'[At(n_data)] = e
    BY <1>1 DEF Enqueue, TypeOK
  <2>3. Window' = [k \in 1..(n_data + 1) |-> data'[At(k - 1)]]
    BY <1>3 DEF Window, Enqueue
  <2>4. \A k \in 1..(n_data + 1) :
           data'[At(k - 1)] = IF k = n_data + 1 THEN e ELSE Window[k]
    <3>1. (n_data + 1) - 1 = n_data /\ n_data \in Nat
      BY DEF TypeOK
    <3> QED
      BY <2>1, <2>2, <3>1
  <2> QED
    BY <2>3, <2>4
<1>5. Window' \in Seq(Elem \cup {Junk}) /\ Len(Window') = n_data + 1
  BY WindowStaysSeq DEF WindowTyped, Enqueue
<1> QED
  <2>1. /\ Append(Window, e) \in Seq(Elem \cup {Junk})
        /\ Len(Append(Window, e)) = n_data + 1
        /\ \A k \in 1..n_data : Append(Window, e)[k] = Window[k]
        /\ Append(Window, e)[n_data + 1] = e
    BY WindowIsSeq, AppendProperties DEF WindowTyped
  <2>2. \A k \in 1..(n_data + 1) : Window'[k] = Append(Window, e)[k]
    BY <1>4, <2>1 DEF TypeOK
  <2> QED
    BY <1>5, <2>1, <2>2, SeqEqual

\* A dequeue takes the head of the window.
LEMMA DequeueTails ==
  ASSUME TypeOK, TypeOK', Dequeue
  PROVE  Window' = Tail(Window)
<1>1. n_data' = n_data - 1 /\ n_data \in Nat /\ n_data > 0
  BY DEF Dequeue, TypeOK
<1>2. \A k \in 1..(n_data - 1) : At(k - 1)' = At(k)
  BY DEF At, Dequeue, NextFrom, TypeOK
<1>3. Window' = [k \in 1..(n_data - 1) |-> Window[k + 1]]
  BY <1>1, <1>2 DEF Window, Dequeue
<1>4. Window' \in Seq(Elem \cup {Junk}) /\ Len(Window') = n_data - 1
  BY <1>1, WindowStaysSeq DEF WindowTyped
<1> QED
  <2>1. /\ Tail(Window) \in Seq(Elem \cup {Junk})
        /\ Len(Tail(Window)) = n_data - 1
        /\ \A k \in 1..(n_data - 1) : Tail(Window)[k] = Window[k + 1]
    BY <1>1, HeadOfWindow, WindowIsSeq, HeadTailProperties DEF WindowTyped
  <2>2. \A k \in 1..(n_data - 1) : Window'[k] = Tail(Window)[k]
    BY <1>3, <2>1
  <2> QED
    BY <1>4, <2>1, <2>2, SeqEqual

\* Every step that misplaces nothing is a step of the abstract queue.
LEMMA StepIsFifo ==
  ASSUME TypeOK, TypeOK', Next, n_data' > n_data => ~Misplaces
  PROVE  F!Next
<1>1. ASSUME NEW size \in Sizes, Create(size) PROVE F!Next
  <2>1. F!Create(size)
    BY <1>1, EmptyWindow' DEF Create, F!Create, F!Outcome, Outcome, Window
  <2> QED
    BY <2>1 DEF F!Next
<1>2. CASE CreateNoStruct
  BY <1>2 DEF CreateNoStruct, F!Next, F!CreateFails, F!Outcome, Outcome, Window, At
<1>3. CASE CreateNoData
  BY <1>3 DEF CreateNoData, F!Next, F!CreateFails, F!Outcome, Outcome, Window, At
<1>4. CASE Destroy
  BY <1>4 DEF Destroy, F!Next, F!Destroy, F!Outcome, Outcome, Window
<1>5. ASSUME NEW e \in Elem, Enqueue(e) PROVE F!Next
  <2>0. ~Misplaces
    BY <1>5 DEF Enqueue, TypeOK
  <2>1. Window' = Append(Window, e)
    BY <1>5, <2>0, EnqueueAppends
  <2>2. n_data < max_size
    BY <1>5 DEF Enqueue, TypeOK
  <2>3. F!Enqueue(e)
    BY <1>5, <2>1, <2>2, WindowIsSeq DEF WindowTyped, Enqueue, F!Enqueue, F!Outcome, Outcome
  <2> QED
    BY <2>3 DEF F!Next
<1>6. CASE EnqueueFull
  <2>1. F!EnqueueFull
    BY <1>6, WindowIsSeq
       DEF WindowTyped, EnqueueFull, F!EnqueueFull, F!Outcome, Outcome, Window, At, TypeOK
  <2> QED
    BY <2>1 DEF F!Next
<1>7. CASE Dequeue
  <2>0. n_data > 0
    BY <1>7 DEF Dequeue, TypeOK
  <2>1. F!Dequeue
    BY <1>7, <2>0, HeadOfWindow, DequeueTails
       DEF Dequeue, F!Dequeue, F!Outcome, Outcome
  <2> QED
    BY <2>1 DEF F!Next
<1>8. CASE First
  <2>0. n_data > 0
    BY <1>8 DEF First, TypeOK
  <2>1. F!First
    BY <1>8, <2>0, HeadOfWindow DEF First, F!First, F!Outcome, Outcome, Window, At
  <2> QED
    BY <2>1 DEF F!Next
<1>9. CASE TakeEmpty
  <2>1. Window = << >>
    BY <1>9, EmptyWindow DEF TakeEmpty, TypeOK
  <2>2. F!TakeEmpty
    BY <1>9, <2>1 DEF TakeEmpty, F!TakeEmpty, F!Outcome, Outcome, Window, At
  <2> QED
    BY <2>2 DEF F!Next
<1> QED
  BY <1>1, <1>2, <1>3, <1>4, <1>5, <1>6, <1>7, <1>8, <1>9 DEF Next

(***************************************************************************)
(* Whatever the size, each call of mmp_queue.c is a call of a first-in     *)
(* first-out queue, unless it is an enqueue that misplaces its element.    *)
(***************************************************************************)
THEOREM FifoExceptMisplaced == Spec => FifoUnlessMisplaced
<1>1. QueueInv /\ QueueInv' /\ [Next]_vars
         => [(n_data' > n_data => ~Misplaces) => F!Next]_vars
  BY StepIsFifo DEF QueueInv
<1> QED
  BY <1>1, QueueInvHolds, PTL DEF Spec, FifoUnlessMisplaced

\* With at most two slots the wrapped slot is the right one.
LEMMA SmallNeverMisplaces ==
  TypeOK /\ max_size \in 0..2 /\ n_data < max_size => ~Misplaces
BY DEF TypeOK, Misplaces, Slot, At

(***************************************************************************)
(* A queue of at most two slots is a first-in first-out queue.             *)
(***************************************************************************)
THEOREM SmallQueuesAreFifo ==
  ASSUME Sizes \subseteq 0..2
  PROVE  Spec => IsFifo
<1> DEFINE Small == max_size \in 0..2
<1>1. Init => Small
  BY DEF Init
<1>2. Small /\ [Next]_vars => Small'
  BY DEF Next, vars, Create, CreateNoStruct, CreateNoData, Destroy, Enqueue,
         EnqueueFull, Dequeue, First, TakeEmpty
<1>3. Init => F!Init
  BY EmptyWindow DEF Init, F!Init, F!Outcome, Outcome
<1>4. QueueInv /\ QueueInv' /\ Small /\ [Next]_vars => [F!Next]_F!fvars
  <2>1. ASSUME QueueInv, QueueInv', Small, Next PROVE F!Next
    <3>1. n_data' > n_data => n_data < max_size
      BY <2>1 DEF Next, Create, CreateNoStruct, CreateNoData, Destroy, Enqueue,
                  EnqueueFull, Dequeue, First, TakeEmpty, QueueInv, TypeOK
    <3> QED
      BY <2>1, <3>1, StepIsFifo, SmallNeverMisplaces DEF QueueInv
  <2>2. UNCHANGED vars => UNCHANGED F!fvars
    BY DEF vars, F!fvars, Window, At
  <2> QED
    BY <2>1, <2>2
<1> QED
  BY <1>1, <1>2, <1>3, <1>4, QueueInvHolds, PTL DEF Spec, IsFifo, F!Spec

(***************************************************************************)
(* Trace: what threads without a lock keep of the log                      *)
(***************************************************************************)
Field == Msg \cup {None}
Record == [filename : Field, line : Field]
Step == {"idle", "filename", "line", "load", "store", "print"}
Writing == {"filename", "line", "load", "store"}

\* A creation that no other call has met is alone, works on the place after the
\* last record, and has its message there.
Unmet == \A t \in Thread : pc[t] \in Writing /\ t \notin met =>
            /\ \A u \in Thread : pc[u] \in Writing => u = t
            /\ num[t] = m_trace_num /\ m_trace_num < Cap
            /\ pc[t] \in {"line", "load", "store"} =>
                  m_trace_arr[m_trace_num].filename = msg[t]
            /\ pc[t] \in {"load", "store"} =>
                  m_trace_arr[m_trace_num].line = msg[t]

\* Before two creations are under way at a time, one that is has a place below
\* the end of the array in its copy of the count, and so has the count.
Unraced == ~raced => \A t \in Thread : pc[t] \in Writing =>
              /\ \A u \in Thread : pc[u] \in Writing => u = t
              /\ num[t] < Cap /\ m_trace_num < Cap

\* A print that no creation and no reset has met has the start of the trace.
Printed == \A t \in Thread : pc[t] = "print" /\ t \notin met =>
              /\ \A u \in Thread : pc[u] \notin Writing
              /\ m_trace_num <= Cap =>
                    /\ num[t] <= m_trace_num
                    /\ out[t] = [i \in 1..num[t] |-> m_trace_arr[i - 1]]

Resting == \A t \in Thread : /\ pc[t] = "idle" => num[t] = 0 /\ t \notin met
                             /\ pc[t] # "print" => out[t] = << >>
                             /\ pc[t] \in Writing => msg[t] \in Msg

TraceInv == TraceTypeOK /\ NoOverrun /\ Unmet /\ Unraced /\ Printed /\ Resting

HIDE SizesAssumption DEF Full, Empty, StructFreed
USE CapAssumption, NoneAssumption, MaxNumAssumption DEF Field, Record, Slots, Step, Writing

\* An empty trace that nobody is in satisfies the invariant.
LEMMA InitTraceInv == TraceInit => TraceInv
<1> SUFFICES ASSUME TraceInit PROVE TraceInv
  OBVIOUS
<1>1. TraceTypeOK
  BY DEF TraceInit, TraceTypeOK
<1>2. NoOverrun /\ Unmet /\ Unraced /\ Printed /\ Resting
  BY DEF TraceInit, NoOverrun, Unmet, Unraced, Printed, Resting
<1> QED
  BY <1>1, <1>2 DEF TraceInv

\* What TraceTypeOK says, variable by variable.
LEMMA TraceTypes ==
    ASSUME TraceTypeOK
    PROVE  /\ m_trace_num \in Nat /\ m_trace_arr \in [Slots -> Record]
           /\ pc \in [Thread -> Step] /\ msg \in [Thread -> Field]
           /\ num \in [Thread -> Nat] /\ out \in [Thread -> Seq(Record)]
           /\ overrun \in BOOLEAN /\ met \in SUBSET Thread /\ raced \in BOOLEAN
           /\ ~raced => m_trace_num <= Cap
BY DEF TraceTypeOK

\* A creation that starts meets what is under way, and is met by a creation.
LEMMA SetErrorInv == ASSUME TraceInv, NEW t \in Thread, NEW m \in Msg, SetError(t, m)
                     PROVE  TraceInv'
<1> USE DEF TraceInv
<1>1. /\ pc[t] = "idle" /\ m_trace_num < Cap
      /\ pc' = [pc EXCEPT ![t] = "filename"] /\ msg' = [msg EXCEPT ![t] = m]
      /\ num' = [num EXCEPT ![t] = m_trace_num]
      /\ UNCHANGED <<m_trace_num, m_trace_arr, overrun, out>>
  BY TraceTypes DEF SetError, TraceFull, shared
<1>2. /\ met' \in SUBSET Thread /\ raced' \in BOOLEAN
      /\ \A u \in Thread : u \notin met' =>
            u \notin met /\ pc[u] \notin Writing /\ pc[u] # "print"
      /\ t \notin met' => \A u \in Thread : pc[u] \notin Writing
      /\ ~raced' => ~raced /\ \A u \in Thread : pc[u] \notin Writing
  BY <1>1, TraceTypes DEF SetError, Creating, Printing
<1>3. TraceTypeOK'
  BY <1>1, <1>2 DEF TraceTypeOK
<1>4. Unmet' /\ Unraced' /\ Printed'
  BY <1>1, <1>2, TraceTypes DEF Unmet, Unraced, Printed
<1>5. Resting'
  <2>1. t \notin met /\ \A u \in Thread : u # t => pc'[u] = pc[u]
    BY <1>1, TraceTypes DEF Resting
  <2>2. \A u \in Thread : pc[u] = "idle" /\ u # t => u \notin met'
    BY TraceTypes DEF SetError, Creating, Printing, Resting
  <2> QED
    BY <1>1, <2>1, <2>2, TraceTypes DEF Resting
<1> QED
  BY <1>1, <1>2, <1>3, <1>4, <1>5 DEF NoOverrun

\* A field is written at the place a creation works on; when no other call has
\* met it that is the one after the last record.
LEMMA WriteInv ==
    ASSUME TraceInv, NEW t \in Thread, NEW f \in {"filename", "line"},
           pc[t] = f, Write(t, f),
           pc' = [pc EXCEPT ![t] = IF f = "filename" THEN "line" ELSE "load"],
           UNCHANGED <<m_trace_num, msg, out, history>>
    PROVE  TraceInv'
<1> USE DEF TraceInv
<1>1. PICK n \in {num[t], m_trace_num} :
         /\ num' = [num EXCEPT ![t] = n]
         /\ \/ /\ n \in Slots /\ UNCHANGED overrun
               /\ m_trace_arr' = [m_trace_arr EXCEPT ![n][f] = msg[t]]
            \/ n \notin Slots /\ overrun' = TRUE /\ UNCHANGED m_trace_arr
  BY DEF Write, Counts
<1>2. n \in Nat /\ UNCHANGED <<met, raced>> /\ msg[t] \in Msg
  BY TraceTypes DEF history, Resting
<1>3. m_trace_arr' \in [Slots -> Record]
  <2>1. ASSUME n \in Slots PROVE [m_trace_arr[n] EXCEPT ![f] = msg[t]] \in Record
    <3>1. m_trace_arr[n] \in Record
      BY <2>1, TraceTypes
    <3>2. CASE f = "filename"
      BY <3>1, <3>2, <1>2
    <3>3. CASE f = "line"
      BY <3>1, <3>3, <1>2
    <3> QED
      BY <3>2, <3>3
  <2> QED
    BY <1>1, <2>1, TraceTypes
<1>4. TraceTypeOK'
  <2>1. /\ num' \in [Thread -> Nat] /\ pc' \in [Thread -> Step] /\ overrun' \in BOOLEAN
    BY <1>1, <1>2, TraceTypes
  <2> QED
    BY <1>2, <1>3, <2>1 DEF TraceTypeOK
<1>5. NoOverrun'
  <2>1. ~raced => n \in Slots
    BY <1>1, <1>2, TraceTypes DEF Unraced
  <2> QED
    BY <1>1, <1>2, <2>1 DEF NoOverrun
<1>6. Unmet'
  <2> SUFFICES ASSUME NEW u \in Thread, pc'[u] \in Writing, u \notin met
               PROVE  /\ \A v \in Thread : pc'[v] \in Writing => v = u
                      /\ num'[u] = m_trace_num /\ m_trace_num < Cap
                      /\ pc'[u] \in {"line", "load", "store"} =>
                            m_trace_arr'[m_trace_num].filename = msg[u]
                      /\ pc'[u] \in {"load", "store"} =>
                            m_trace_arr'[m_trace_num].line = msg[u]
    BY <1>2 DEF Unmet
  <2>1. u = t
    BY TraceTypes DEF Unmet
  <2>2. /\ \A v \in Thread : pc[v] \in Writing => v = t
        /\ n = m_trace_num /\ m_trace_num \in Slots
        /\ f = "line" => m_trace_arr[m_trace_num].filename = msg[t]
    BY <2>1, <1>1, TraceTypes DEF Unmet
  <2>3. m_trace_arr[m_trace_num] \in Record
    BY <2>2, TraceTypes
  <2>4. m_trace_arr'[m_trace_num] = [m_trace_arr[m_trace_num] EXCEPT ![f] = msg[t]]
    BY <1>1, <2>2, TraceTypes
  <2>5. CASE f = "filename"
    BY <1>1, <2>1, <2>2, <2>3, <2>4, <2>5, TraceTypes
  <2>6. CASE f = "line"
    BY <1>1, <2>1, <2>2, <2>3, <2>4, <2>6, TraceTypes
  <2> QED
    BY <2>5, <2>6
<1>7. Unraced' /\ Resting'
  BY <1>1, <1>2, TraceTypes DEF Unraced, Resting
<1>8. Printed'
  BY <1>1, <1>2, TraceTypes DEF Printed
<1> QED
  BY <1>4, <1>5, <1>6, <1>7, <1>8

LEMMA LoadInv == ASSUME TraceInv, NEW t \in Thread, Load(t) PROVE TraceInv'
<1> USE DEF TraceInv
<1>1. PICK n \in {num[t], m_trace_num} :
         /\ num' = [num EXCEPT ![t] = n]
         /\ pc[t] = "load" /\ pc' = [pc EXCEPT ![t] = "store"]
         /\ UNCHANGED <<m_trace_num, m_trace_arr, overrun, msg, out, met, raced>>
  BY DEF Load, Counts, shared, history
<1>2. n \in Nat
  BY TraceTypes
<1>3. TraceTypeOK' /\ NoOverrun'
  BY <1>1, <1>2 DEF TraceTypeOK, NoOverrun
<1>4. Unmet' /\ Unraced' /\ Printed' /\ Resting'
  BY <1>1, <1>2, TraceTypes DEF Unmet, Unraced, Printed, Resting
<1> QED
  BY <1>3, <1>4

\* A call that returns leaves its locals and its history.
LEMMA Returned == ASSUME TraceInv, NEW t \in Thread, Return(t)
                  PROVE  /\ pc'[t] = "idle" /\ num'[t] = 0 /\ out'[t] = << >>
                         /\ \A u \in Thread : u # t =>
                               /\ pc'[u] = pc[u] /\ msg'[u] = msg[u] /\ num'[u] = num[u]
                               /\ out'[u] = out[u] /\ (u \in met' <=> u \in met)
                         /\ pc' \in [Thread -> Step] /\ msg' \in [Thread -> Field]
                         /\ num' \in [Thread -> Nat] /\ out' \in [Thread -> Seq(Record)]
                         /\ met' \in SUBSET Thread /\ t \notin met' /\ raced' = raced
<1>1. << >> \in Seq(Record)
  OBVIOUS
<1> QED
  BY <1>1, TraceTypes DEF TraceInv, Return

LEMMA StoreInv == ASSUME TraceInv, NEW t \in Thread, Store(t) PROVE TraceInv'
<1> USE DEF TraceInv
<1>1. /\ pc[t] = "store" /\ m_trace_num' = num[t] + 1
      /\ Return(t) /\ UNCHANGED <<m_trace_arr, overrun>>
  BY DEF Store
<1>2. m_trace_num' \in Nat /\ (~raced => m_trace_num' <= Cap)
  BY <1>1, TraceTypes DEF Unraced
<1>3. TraceTypeOK' /\ NoOverrun'
  BY <1>1, <1>2, Returned DEF TraceTypeOK, NoOverrun
<1>4. Unmet' /\ Unraced'
  <2>1. ASSUME NEW u \in Thread, pc'[u] \in Writing
        PROVE  u \in met' /\ raced'
    <3>1. u # t /\ pc[u] \in Writing
      BY <1>1, <2>1, Returned
    <3>2. u \in met /\ raced
      BY <1>1, <3>1 DEF Unmet, Unraced
    <3> QED
      BY <1>1, <3>1, <3>2, Returned
  <2> QED
    BY <2>1 DEF Unmet, Unraced
<1>5. Printed' /\ Resting'
  BY <1>1, Returned DEF Printed, Resting
<1> QED
  BY <1>3, <1>4, <1>5

LEMMA ResetInv == ASSUME TraceInv, NEW t \in Thread, Reset(t) PROVE TraceInv'
<1> USE DEF TraceInv
<1>1. /\ m_trace_num' = 0 /\ pc[t] = "idle"
      /\ UNCHANGED <<m_trace_arr, overrun, pc, msg, num, out, raced>>
      /\ met' \in SUBSET Thread
      /\ \A u \in Thread : u \in met' <=> u \in met \/ pc[u] = "print" \/ pc[u] \in Writing
  BY TraceTypes DEF Reset, Creating, Printing
<1>2. TraceTypeOK' /\ NoOverrun'
  <2>1. m_trace_num' \in Nat /\ m_trace_num' <= Cap
    BY <1>1
  <2>2. TraceTypeOK'
    BY <1>1, <2>1 DEF TraceTypeOK
  <2>3. NoOverrun'
    BY <1>1 DEF NoOverrun
  <2> QED
    BY <2>2, <2>3
<1>3. Unmet' /\ Unraced' /\ Printed' /\ Resting'
  BY <1>1, TraceTypes DEF Unmet, Unraced, Printed, Resting
<1> QED
  BY <1>2, <1>3

LEMMA PrintTraceInv == ASSUME TraceInv, NEW t \in Thread, PrintTrace(t) PROVE TraceInv'
<1> USE DEF TraceInv
<1>1. /\ pc[t] = "idle" /\ pc' = [pc EXCEPT ![t] = "print"]
      /\ UNCHANGED <<m_trace_num, m_trace_arr, overrun, msg, num, out, raced>>
      /\ met' \in SUBSET Thread
      /\ \A u \in Thread : u # t => (u \in met' <=> u \in met)
      /\ t \notin met' => \A u \in Thread : pc[u] \notin Writing
  BY TraceTypes DEF PrintTrace, Creating, shared
<1>2. num[t] = 0 /\ out[t] = << >> /\ out[t] = [i \in 1..num[t] |-> m_trace_arr[i - 1]]
  BY <1>1 DEF Resting
<1>3. TraceTypeOK' /\ NoOverrun'
  BY <1>1 DEF TraceTypeOK, NoOverrun
<1>4. Unmet' /\ Unraced' /\ Resting'
  BY <1>1, TraceTypes DEF Unmet, Unraced, Resting
<1>5. Printed'
  BY <1>1, <1>2, TraceTypes DEF Printed
<1> QED
  BY <1>3, <1>4, <1>5

\* A print goes on to a record of the array, unless creations have raced.
LEMMA PrintNextInv == ASSUME TraceInv, NEW t \in Thread, PrintNext(t) PROVE TraceInv'
<1> USE DEF TraceInv
<1>1. /\ pc[t] = "print" /\ num[t] < m_trace_num
      /\ num' = [num EXCEPT ![t] = num[t] + 1]
      /\ UNCHANGED <<m_trace_num, m_trace_arr, pc, msg, met, raced>>
  BY DEF PrintNext, More, history
<1>2. num[t] \in Nat /\ m_trace_num \in Nat /\ out[t] \in Seq(Record)
  BY TraceTypes
<1>3. CASE num[t] \in Slots
  <2>1. /\ out' = [out EXCEPT ![t] = Append(out[t], m_trace_arr[num[t]])]
        /\ UNCHANGED overrun
    BY <1>3 DEF PrintNext
  <2>2. m_trace_arr[num[t]] \in Record
    BY <1>3, TraceTypes
  <2>3. Append(out[t], m_trace_arr[num[t]]) \in Seq(Record)
    BY <1>2, <2>2
  <2>4. out' \in [Thread -> Seq(Record)] /\ num' \in [Thread -> Nat]
    <3>1. out \in [Thread -> Seq(Record)] /\ num \in [Thread -> Nat]
      BY TraceTypes
    <3>2. out' \in [Thread -> Seq(Record)]
      <4> HIDE DEF Record
      <4> QED
        BY <2>1, <2>3, <3>1
    <3>3. num' \in [Thread -> Nat]
      BY <1>1, <1>2, <3>1
    <3> QED
      BY <3>2, <3>3
  <2>5. TraceTypeOK' /\ NoOverrun'
    BY <1>1, <2>1, <2>4 DEF TraceTypeOK, NoOverrun
  <2>6. Unmet' /\ Unraced' /\ Resting'
    BY <1>1, <2>1, TraceTypes DEF Unmet, Unraced, Resting
  <2>7. ASSUME out[t] = [i \in 1..num[t] |-> m_trace_arr[i - 1]]
        PROVE  out'[t] = [i \in 1..num'[t] |-> m_trace_arr[i - 1]]
    <3>1. Append(out[t], m_trace_arr[num[t]])
             = [i \in 1..(num[t] + 1) |-> m_trace_arr[i - 1]]
      BY <2>7, <1>2, <2>2
    <3> QED
      BY <1>1, <2>1, <3>1, TraceTypes
  <2>8. \A u \in Thread : u # t => num'[u] = num[u] /\ out'[u] = out[u]
    BY <1>1, <2>1, TraceTypes
  <2>9. num'[t] <= m_trace_num
    BY <1>1, <1>2, TraceTypes
  <2>10. Printed'
    <3> SUFFICES ASSUME NEW u \in Thread, pc[u] = "print", u \notin met
                 PROVE  /\ \A v \in Thread : pc[v] \notin Writing
                        /\ m_trace_num <= Cap =>
                              /\ num'[u] <= m_trace_num
                              /\ out'[u] = [i \in 1..num'[u] |-> m_trace_arr[i - 1]]
      BY <1>1 DEF Printed
    <3>1. CASE u = t
      BY <2>7, <2>9, <3>1 DEF Printed
    <3>2. CASE u # t
      BY <2>8, <3>2 DEF Printed
    <3> QED
      BY <3>1, <3>2
  <2> QED
    BY <2>5, <2>6, <2>10
<1>4. CASE num[t] \notin Slots
  <2>1. UNCHANGED out /\ overrun' = TRUE
    BY <1>4 DEF PrintNext
  <2>2. ~(m_trace_num <= Cap)
    BY <1>1, <1>2, <1>4
  <2>3. raced
    BY <2>2, TraceTypes
  <2>4. num' \in [Thread -> Nat]
    BY <1>1, <1>2, TraceTypes
  <2>5. TraceTypeOK' /\ NoOverrun'
    BY <1>1, <2>1, <2>3, <2>4 DEF TraceTypeOK, NoOverrun
  <2>6. Unmet' /\ Unraced' /\ Resting'
    BY <1>1, <2>1, <2>3, TraceTypes DEF Unmet, Unraced, Resting
  <2>7. Printed'
    BY <1>1, <2>1, <2>2 DEF Printed
  <2> QED
    BY <2>5, <2>6, <2>7
<1> QED
  BY <1>3, <1>4

LEMMA PrintEndsInv == ASSUME TraceInv, NEW t \in Thread, PrintEnds(t) PROVE TraceInv'
<1> USE DEF TraceInv
<1>1. /\ pc[t] = "print" /\ Return(t)
      /\ UNCHANGED <<m_trace_num, m_trace_arr, overrun>>
  BY DEF PrintEnds, shared
<1>2. TraceTypeOK' /\ NoOverrun'
  BY <1>1, Returned DEF TraceTypeOK, NoOverrun
<1>u. /\ UNCHANGED <<m_trace_num, m_trace_arr>> /\ raced' = raced
      /\ \A u \in Thread : pc'[u] # "idle" =>
            /\ u # t /\ pc'[u] = pc[u] /\ msg'[u] = msg[u] /\ num'[u] = num[u]
            /\ out'[u] = out[u] /\ (u \in met' <=> u \in met)
  BY <1>1, Returned
<1>3. Unmet' /\ Unraced'
  <2>1. Unmet'
    BY <1>u DEF Unmet
  <2>2. Unraced'
    BY <1>u DEF Unraced
  <2> QED
    BY <2>1, <2>2
<1>4. Printed'
  <2>1. \A u \in Thread : pc'[u] \in Writing => pc[u] \in Writing
    BY <1>u
  <2> QED
    BY <1>u, <2>1 DEF Printed
<1>5. Resting'
  BY <1>1, Returned DEF Resting
<1> QED
  BY <1>2, <1>3, <1>4, <1>5

\* Every step keeps the invariant, whatever steps of whatever threads it lies
\* between.
LEMMA NextTraceInv == ASSUME TraceInv, [TraceNext]_traceVars PROVE TraceInv'
<1>1. CASE UNCHANGED traceVars
  <2>1. /\ UNCHANGED <<m_trace_num, m_trace_arr, overrun>>
        /\ UNCHANGED <<pc, msg, num, out>> /\ UNCHANGED <<met, raced>>
    BY <1>1 DEF traceVars, shared, history
  <2>2. TraceTypeOK' /\ NoOverrun'
    BY <2>1 DEF TraceInv, TraceTypeOK, NoOverrun
  <2>3. Unmet' /\ Unraced'
    BY <2>1 DEF TraceInv, Unmet, Unraced
  <2>4. Printed' /\ Resting'
    BY <2>1 DEF TraceInv, Printed, Resting
  <2> QED
    BY <2>2, <2>3, <2>4 DEF TraceInv
<1>2. ASSUME NEW t \in Thread, WriteFilename(t) PROVE TraceInv'
  BY <1>2, WriteInv DEF WriteFilename
<1>3. ASSUME NEW t \in Thread, WriteLine(t) PROVE TraceInv'
  BY <1>3, WriteInv DEF WriteLine
<1> QED
  BY <1>1, <1>2, <1>3, SetErrorInv, LoadInv, StoreInv, ResetInv, PrintTraceInv,
     PrintNextInv, PrintEndsInv DEF TraceNext

LEMMA TraceInvHolds == TraceSpec => []TraceInv
<1>1. TraceInv /\ [TraceNext]_traceVars => TraceInv'
  BY NextTraceInv
<1> QED
  BY <1>1, InitTraceInv, PTL DEF TraceSpec

\* The counts, fields and copies of a trace have their types under any
\* interleaving of its unlocked calls, and the count stays within the array
\* until two mmp_trace_create are under way at a time.
THEOREM TraceTypeCorrect == TraceSpec => []TraceTypeOK
<1>1. TraceInv => TraceTypeOK
  BY DEF TraceInv
<1> QED
  BY <1>1, TraceInvHolds, PTL

\* A record past the array is touched only after two mmp_trace_create have been
\* under way at a time: resets and prints, at whatever moment, do not cause it.
THEOREM OverrunOnlyAfterRace == TraceSpec => []NoOverrun
<1>1. TraceInv => NoOverrun
  BY DEF TraceInv
<1> QED
  BY <1>1, TraceInvHolds, PTL

-----------------------------------------------------------------------------
\* While no creation under way has been met, the trace as a list changes when a
\* count is stored and at no other time: it grows by the message of the thread
\* that stores it, or is emptied.
LEMMA StepIsLogStep ==
    ASSUME TraceInv, [TraceNext]_traceVars, Creating \cap met = {}
    PROVE  [T!Next]_Log
<1> DEFINE Entry(a, i) == IF i - 1 \in Slots /\ a[i - 1].filename = a[i - 1].line
                          THEN a[i - 1].line ELSE None
<1>a. TraceTypeOK /\ Unmet /\ Resting
  BY DEF TraceInv
<1>log. /\ Log = [i \in 1..m_trace_num |-> Entry(m_trace_arr, i)]
        /\ Log' = [i \in 1..m_trace_num' |-> Entry(m_trace_arr', i)]
  BY DEF Log
<1>same. ASSUME UNCHANGED m_trace_num,
                \A i \in 1..m_trace_num : Entry(m_trace_arr', i) = Entry(m_trace_arr, i)
         PROVE  Log' = Log
  BY <1>same, <1>log
<1>1. ASSUME NEW t \in Thread, NEW f \in {"filename", "line"},
             pc[t] = f, Write(t, f), UNCHANGED m_trace_num
      PROVE  Log' = Log
  <2>1. t \in Creating
    BY <1>1 DEF Creating
  <2>2. num[t] = m_trace_num /\ m_trace_num \in Slots
    BY <1>1, <1>a, <2>1, TraceTypes DEF Unmet, Creating
  <2>3. m_trace_arr' = [m_trace_arr EXCEPT ![m_trace_num][f] = msg[t]]
    BY <1>1, <2>2 DEF Write, Counts
  <2>4. \A i \in 1..m_trace_num : i - 1 \in Slots => m_trace_arr'[i - 1] = m_trace_arr[i - 1]
    BY <1>a, <2>2, <2>3, TraceTypes
  <2> QED
    BY <1>1, <1>same, <2>4
<1>2. ASSUME NEW t \in Thread, Store(t) PROVE T!Next
  <2>1. t \in Creating /\ pc[t] = "store"
    BY <1>2 DEF Creating, Store
  <2>2. /\ num[t] = m_trace_num /\ m_trace_num \in Slots /\ msg[t] \in Msg
        /\ m_trace_arr[m_trace_num].filename = msg[t]
        /\ m_trace_arr[m_trace_num].line = msg[t]
    BY <1>a, <2>1, TraceTypes DEF Unmet, Resting, Creating
  <2>3. m_trace_num' = m_trace_num + 1 /\ m_trace_arr' = m_trace_arr
    BY <1>2, <2>2 DEF Store
  <2>4. m_trace_num \in Nat /\ Len(Log) = m_trace_num /\ m_trace_num < Cap
    BY <1>a, <1>log, <2>2, TraceTypes
  <2>5. Entry(m_trace_arr, m_trace_num + 1) = msg[t]
    BY <2>2, <2>4
  <2>6. Log' = Append(Log, msg[t])
    <3> HIDE DEF Entry
    <3> QED
      BY <1>log, <2>3, <2>4, <2>5
  <2> QED
    BY <2>2, <2>4, <2>6 DEF T!Next, T!SetError
<1>3. ASSUME NEW t \in Thread, Reset(t) PROVE T!Next
  BY <1>3, <1>log DEF Reset, T!Next, T!Reset
<1>4. ASSUME UNCHANGED <<m_trace_num, m_trace_arr>> PROVE Log' = Log
  BY <1>4, <1>same
<1>5. ASSUME NEW t \in Thread, \/ \E m \in Msg : SetError(t, m)
                               \/ Load(t) \/ PrintTrace(t)
                               \/ PrintNext(t) \/ PrintEnds(t)
      PROVE Log' = Log
  BY <1>5, <1>4 DEF SetError, Load, PrintTrace, PrintNext, PrintEnds, shared
<1>6. CASE UNCHANGED traceVars
  BY <1>6, <1>4 DEF traceVars, shared
<1>7. ASSUME NEW t \in Thread, WriteFilename(t) \/ WriteLine(t) PROVE Log' = Log
  BY <1>7, <1>1 DEF WriteFilename, WriteLine
<1> QED
  BY <1>2, <1>3, <1>5, <1>6, <1>7, [TraceNext]_traceVars DEF TraceNext

\* Under any interleaving of unlocked calls, mmp_trace_create and
\* mmp_trace_reset act on the trace as on a log as long as no creation under way
\* has been met by another one or by a reset: also after others have been.
THEOREM UnmetCallsLog == TraceSpec => IsLog
<1>1. TraceInit => T!Init
  BY DEF TraceInit, T!Init, Log
<1>2. TraceInv /\ [TraceNext]_traceVars
        => [Creating \cap met = {} => [T!Next]_Log]_traceVars
  BY StepIsLogStep
<1> QED
  BY <1>1, <1>2, TraceInvHolds, PTL DEF TraceSpec, IsLog

-----------------------------------------------------------------------------
\* A thread that is done printing has printed every record, in order, if no
\* creation and no reset met it.
LEMMA StepPrintsAll ==
    ASSUME TraceInv, [TraceNext]_traceVars, NEW t \in Printing,
           pc'[t] = "idle", t \notin met, m_trace_num <= Cap
    PROVE  out[t] = [i \in 1..m_trace_num |-> m_trace_arr[i - 1]]
<1>1. /\ t \in Thread /\ pc[t] = "print" /\ num[t] \in Nat /\ m_trace_num \in Nat
      /\ num[t] <= m_trace_num
      /\ out[t] = [i \in 1..num[t] |-> m_trace_arr[i - 1]]
      /\ pc \in [Thread -> Step]
  BY TraceTypes DEF TraceInv, Printed, Printing
<1>2. ~More(t)
  <2>1. PICK u \in Thread : PrintEnds(u)
    <3>1. \A u \in Thread : ~Store(u)
      BY <1>1 DEF Store, Return
    <3> QED
      BY <3>1, <1>1, [TraceNext]_traceVars DEF TraceNext, SetError, WriteFilename, WriteLine,
         Load, Reset, PrintTrace, PrintNext, traceVars
  <2>2. u = t
    BY <2>1, <1>1 DEF PrintEnds, Return
  <2> QED
    BY <2>1, <2>2 DEF PrintEnds
<1>3. num[t] = m_trace_num
  BY <1>1, <1>2 DEF More
<1> QED
  BY <1>1, <1>3

\* mmp_trace_print gives the complete trace when no mmp_trace_create and no
\* mmp_trace_reset is under way with it, whatever races came before it, if what
\* they left of the count fits the array.
THEOREM UnmetPrintsAll == TraceSpec => PrintsAll
<1>1. TraceInv /\ [TraceNext]_traceVars
        => [\A t \in Printing : pc'[t] = "idle" /\ t \notin met /\ m_trace_num <= Cap
              => out[t] = [i \in 1..m_trace_num |-> m_trace_arr[i - 1]]]_traceVars
  BY StepPrintsAll
<1> QED
  BY <1>1, TraceInvHolds, PTL DEF TraceSpec, PrintsAll
=============================================================================
