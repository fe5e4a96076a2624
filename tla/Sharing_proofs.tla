--------------------------- MODULE Sharing_proofs ----------------------------
(***************************************************************************)
(* Proofs about what threads share through Sync, for every set of threads  *)
(* and every limit of a semaphore: the mutex excludes, and a join protects *)
(* what is closed.  And about what processes share through Shm, for every  *)
(* set of them and all lengths: who has which segment, and how long it is. *)
(***************************************************************************)
EXTENDS Sync, Shm, FiniteSetTheorems, TLAPS

(***************************************************************************)
(* Threads and Sync                                                        *)
(***************************************************************************)
\* Only a thread that runs is in a call, and of one that runs main has the
\* identifier, which it keeps until the thread is done.
Joinable == \A t \in Thread : /\ call[t] # "out" => life[t] = "running"
                              /\ life[t] = "running" => id[t] = "id"

SyncInv == Exclusive /\ Joinable /\ NoUseAfterClose

USE MainAssumption, SemAssumption, MutexAssumption DEF Actor

\* Nothing exists yet, and nobody is in a call.
LEMMA InitSyncInv == Init => SyncInv
<1> SUFFICES ASSUME Init PROVE SyncInv
  OBVIOUS
<1> USE DEF Init, ThreadsInit
<1>1. TypeOK
  BY DEF TypeOK, ThreadsTypeOK, Semaphore
<1>2. Exclusive
  BY <1>1 DEF Exclusive
<1> QED
  BY <1>2 DEF SyncInv, Joinable, NoUseAfterClose

\* Each function has one object, and is not "out".
LEMMA EntryObjects == ASSUME NEW c \in Entry
                      PROVE c # "out" /\ Object(c) \in Semaphore \cup {"mtx"}
BY DEF Entry, Object, Semaphore

\* A step that leaves the threads, the calls and what exists as they are keeps
\* what is known of them.
LEMMA CallsKept == ASSUME SyncInv, UNCHANGED <<threadVars, call>>,
                         \A o \in Semaphore \cup {"mtx"} : Exists(o) => Exists(o)'
                  PROVE Joinable' /\ NoUseAfterClose'
<1>1. Joinable'
  BY DEF SyncInv, Joinable, threadVars
<1>2. ASSUME NEW a \in Actor, call'[a] # "out", NEW o, o = Object(call'[a])
      PROVE Exists(o)'
  <2>1. call[a] \in Entry /\ Exists(Object(call[a])) /\ call' = call
    BY <1>2 DEF SyncInv, Exclusive, TypeOK, NoUseAfterClose
  <2> QED
    BY <1>2, <2>1, EntryObjects
<1> QED
  BY <1>1, <1>2 DEF NoUseAfterClose, Exists

\* So does one that ends a call.
LEMMA CallEnded == ASSUME SyncInv, UNCHANGED threadVars, NEW a \in Actor,
                         call' = [call EXCEPT ![a] = "out"],
                         \A o \in Semaphore \cup {"mtx"} : Exists(o) => Exists(o)'
                  PROVE /\ Joinable' /\ NoUseAfterClose'
                        /\ call' \in [Actor -> Entry \cup {"out"}]
<1>0. call \in [Actor -> Entry \cup {"out"}]
  BY DEF SyncInv, Exclusive, TypeOK
<1>1. Joinable'
  BY <1>0 DEF SyncInv, Joinable, threadVars
<1>2. ASSUME NEW b \in Actor, call'[b] # "out", NEW o, o = Object(call'[b])
      PROVE Exists(o)'
  <2>1. call[b] \in Entry /\ Exists(Object(call[b])) /\ call'[b] = call[b]
    BY <1>0, <1>2 DEF SyncInv, NoUseAfterClose
  <2> QED
    BY <1>2, <2>1, EntryObjects
<1> QED
  BY <1>0, <1>1, <1>2 DEF NoUseAfterClose, Exists

\* When main has joined what it created, nobody is in a call.
LEMMA AllOut == ASSUME SyncInv, Closes PROVE \A a \in Actor : call[a] = "out"
BY DEF SyncInv, Joinable, Closes, Creates, AllJoined

\* Every step preserves the invariant.
LEMMA NextSyncInv == ASSUME SyncInv, [Next]_vars PROVE SyncInv'
<1>a. /\ life \in [Thread -> {"none", "running", "done"}]
      /\ id \in [Thread -> {"unset", "id", "garbage", "joined"}]
      /\ dead \in BOOLEAN
      /\ count \in [Semaphore -> 0..SemMax \cup {Null}]
      /\ mtx \in Actor \cup {Free, Null}
      /\ protected \in BOOLEAN
      /\ call \in [Actor -> Entry \cup {"out"}]
      /\ inside \subseteq Actor
      /\ inside = {mtx} \cap Actor
  BY DEF SyncInv, Exclusive, TypeOK, ThreadsTypeOK
<1>1. ASSUME NEW a \in Actor, NEW c \in Entry, Enter(a, c) PROVE SyncInv'
  <2>1. /\ UNCHANGED <<life, id, dead, count, mtx, protected, inside>>
        /\ call' = [call EXCEPT ![a] = c]
        /\ Exists(Object(c)) /\ Runs(a)
    BY <1>1 DEF Enter, threadVars
  <2>2. Exclusive'
    BY <1>a, <2>1 DEF Exclusive, TypeOK, ThreadsTypeOK
  <2>3. Joinable'
    BY <1>a, <2>1 DEF SyncInv, Joinable, Runs
  <2>4. ASSUME NEW b \in Actor, call'[b] # "out", NEW o, o = Object(call'[b])
        PROVE Exists(o)'
    <3>1. Exists(o)
      BY <1>a, <2>1, <2>4 DEF SyncInv, NoUseAfterClose
    <3> QED
      BY <3>1, <2>1 DEF Exists
  <2>5. NoUseAfterClose'
    BY <2>4 DEF NoUseAfterClose, Exists
  <2> QED
    BY <2>2, <2>3, <2>5 DEF SyncInv
<1>2. ASSUME NEW a \in Actor, NEW c \in Entry, Object(c) \in Semaphore,
             Wait(a, c) \/ Post(a, c)
      PROVE SyncInv'
  <2>1. /\ UNCHANGED threadVars /\ UNCHANGED <<life, id, dead, mtx, protected, inside>>
        /\ call' = [call EXCEPT ![a] = "out"]
        /\ count[Object(c)] # Null
    BY <1>2 DEF Wait, Post, threadVars, In, Exists, Semaphore
  <2>2. \E n \in 0..SemMax : count' = [count EXCEPT ![Object(c)] = n]
    BY <1>2, <1>a, <2>1 DEF Wait, Post
  <2>3. count' \in [Semaphore -> 0..SemMax \cup {Null}]
    BY <1>a, <2>2
  <2>4. \A o \in Semaphore \cup {"mtx"} : Exists(o) => Exists(o)'
    BY <1>a, <2>1, <2>2 DEF Exists, Semaphore
  <2>5. Joinable' /\ NoUseAfterClose' /\ call' \in [Actor -> Entry \cup {"out"}]
    BY <2>1, <2>4, CallEnded
  <2> QED
    BY <1>a, <2>1, <2>3, <2>5 DEF SyncInv, Exclusive, TypeOK, ThreadsTypeOK
<1>3. ASSUME NEW a \in Actor, Interrupt(a) PROVE SyncInv'
  <2>1. /\ UNCHANGED threadVars
        /\ UNCHANGED <<life, id, dead, count, mtx, protected, inside>>
        /\ call' = [call EXCEPT ![a] = "out"]
    BY <1>3 DEF Interrupt, threadVars
  <2>2. \A o \in Semaphore \cup {"mtx"} : Exists(o) => Exists(o)'
    BY <2>1 DEF Exists
  <2>3. Joinable' /\ NoUseAfterClose' /\ call' \in [Actor -> Entry \cup {"out"}]
    BY <2>1, <2>2, CallEnded
  <2> QED
    BY <1>a, <2>1, <2>3 DEF SyncInv, Exclusive, TypeOK, ThreadsTypeOK
<1>4. ASSUME NEW a \in Actor, MtxLock(a) \/ MtxRelease(a) PROVE SyncInv'
  <2>1. /\ UNCHANGED threadVars /\ UNCHANGED <<life, id, dead, count, protected>>
        /\ call' = [call EXCEPT ![a] = "out"]
        /\ mtx # Null
    BY <1>4 DEF MtxLock, MtxRelease, Outcome, threadVars, In, Exists, Object
  <2>2. /\ mtx' \in Actor \cup {Free}
        /\ inside' = {mtx'} \cap Actor
    BY <1>4, <1>a, <2>1 DEF MtxLock, MtxRelease, Outcome
  <2>3. \A o \in Semaphore \cup {"mtx"} : Exists(o) => Exists(o)'
    BY <2>1, <2>2 DEF Exists, Semaphore
  <2>4. Joinable' /\ NoUseAfterClose' /\ call' \in [Actor -> Entry \cup {"out"}]
    BY <2>1, <2>3, CallEnded
  <2> QED
    BY <1>a, <2>1, <2>2, <2>4 DEF SyncInv, Exclusive, TypeOK, ThreadsTypeOK
<1>5. ASSUME NEW o \in Semaphore, NEW n \in 0..SemMax, CountCreate(o, n) PROVE SyncInv'
  <2>1. /\ UNCHANGED <<threadVars, call>>
        /\ UNCHANGED <<life, id, dead, mtx, protected, call, inside>>
        /\ count' = [count EXCEPT ![o] = n]
    BY <1>5 DEF CountCreate, threadVars
  <2>2. \A x \in Semaphore \cup {"mtx"} : Exists(x) => Exists(x)'
    BY <1>a, <2>1 DEF Exists, Semaphore
  <2>3. Joinable' /\ NoUseAfterClose'
    BY <2>1, <2>2, CallsKept
  <2> QED
    BY <1>a, <2>1, <2>3 DEF SyncInv, Exclusive, TypeOK, ThreadsTypeOK
<1>6. ASSUME NEW o \in Semaphore, CountClose(o) PROVE SyncInv'
  <2>1. /\ UNCHANGED <<life, id, dead, mtx, protected, call, inside>>
        /\ count' = [count EXCEPT ![o] = Null]
        /\ \A a \in Actor : call[a] = "out"
    BY <1>6, AllOut DEF CountClose, threadVars
  <2> QED
    BY <1>a, <2>1 DEF SyncInv, Exclusive, TypeOK, ThreadsTypeOK, Joinable, NoUseAfterClose
<1>7. ASSUME MtxCreate PROVE SyncInv'
  <2>1. /\ UNCHANGED <<threadVars, call>>
        /\ UNCHANGED <<life, id, dead, count, call, inside>>
        /\ mtx = Null /\ mtx' = Free /\ protected' \in BOOLEAN
    BY <1>7 DEF MtxCreate, threadVars
  <2>2. \A x \in Semaphore \cup {"mtx"} : Exists(x) => Exists(x)'
    BY <2>1 DEF Exists, Semaphore
  <2>3. Joinable' /\ NoUseAfterClose'
    BY <2>1, <2>2, CallsKept
  <2> QED
    BY <1>a, <2>1, <2>3 DEF SyncInv, Exclusive, TypeOK, ThreadsTypeOK
<1>8. ASSUME MtxClose PROVE SyncInv'
  <2>1. /\ UNCHANGED <<life, id, dead, count, call, inside>>
        /\ mtx = Free /\ mtx' = Null /\ protected' = FALSE
        /\ \A a \in Actor : call[a] = "out"
    BY <1>8, AllOut DEF MtxClose, threadVars
  <2>2. inside' = {mtx'} \cap Actor
    BY <1>a, <2>1
  <2>3. Exclusive'
    BY <1>a, <2>1, <2>2 DEF Exclusive, TypeOK, ThreadsTypeOK
  <2> QED
    BY <2>1, <2>3 DEF SyncInv, Joinable, NoUseAfterClose
<1>9. ASSUME NEW t \in Thread, Create(t) \/ Join(t) \/ Exit(t) PROVE SyncInv'
  <2>1. /\ UNCHANGED <<count, mtx, protected, call, inside>>
        /\ ThreadCreate(t) \/ ThreadJoin(t) \/ (ThreadExit(t) /\ call[t] = "out")
    BY <1>9 DEF Create, Join, Exit
  <2>2. /\ life' \in [Thread -> {"none", "running", "done"}]
        /\ id' \in [Thread -> {"unset", "id", "garbage", "joined"}]
        /\ dead' \in BOOLEAN
    BY <1>a, <2>1 DEF ThreadCreate, ThreadJoin, ThreadExit
  <2>3. Joinable'
    BY <1>a, <2>1 DEF SyncInv, Joinable, ThreadCreate, ThreadJoin, ThreadExit
  <2>4. NoUseAfterClose'
    BY <1>a, <2>1 DEF SyncInv, NoUseAfterClose, Exists
  <2> QED
    BY <1>a, <2>1, <2>2, <2>3, <2>4 DEF SyncInv, Exclusive, TypeOK, ThreadsTypeOK
<1>10. ASSUME UNCHANGED vars PROVE SyncInv'
  BY <1>10 DEF SyncInv, Exclusive, TypeOK, ThreadsTypeOK, Joinable, NoUseAfterClose,
               Exists, vars, threadVars
<1>11. ASSUME NEW a \in Actor, Finish(a) PROVE SyncInv'
  <2>1. \/ Wait(a, "sem_lock") \/ Post(a, "sem_release")
        \/ Wait(a, "evt_wait") \/ Post(a, "evt_signal")
        \/ MtxLock(a) \/ MtxRelease(a)
    BY <1>11 DEF Finish, SemLock, SemRelease, EvtWait, EvtSignal
  <2>2. \A c \in {"sem_lock", "sem_release", "evt_wait", "evt_signal"} :
            c \in Entry /\ Object(c) \in Semaphore
    BY DEF Entry, Object, Semaphore
  <2> QED
    BY <2>1, <2>2, <1>2, <1>4
<1>12. ASSUME SemCreate \/ SemClose \/ EvtCreate \/ EvtClose PROVE SyncInv'
  BY <1>12, <1>5, <1>6 DEF SemCreate, SemClose, EvtCreate, EvtClose, Semaphore
<1> QED
  BY <1>1, <1>3, <1>7, <1>8, <1>9, <1>10, <1>11, <1>12 DEF Next

\* The invariant holds in every state.
LEMMA SyncInvariant == Spec => []SyncInv
<1>1. Init => SyncInv
  BY InitSyncInv
<1>2. SyncInv /\ [Next]_vars => SyncInv'
  BY NextSyncInv
<1> QED
  BY <1>1, <1>2, PTL DEF Spec

\* Whoever was told that it has the mutex is its one owner (mmp_thr_mtx_lock,
\* mmp_thr_mtx_release), however many threads lock, lock again, or release
\* what they do not have.
THEOREM MutexExcludes == Spec => []Exclusive
<1>1. SyncInv => Exclusive
  BY DEF SyncInv
<1> QED
  BY <1>1, SyncInvariant, PTL

\* A client that joins each thread before it closes an object has nobody in a
\* call on it (mmp_thread_join), although creations that fail are not reported.
THEOREM JoinProtects == Spec => []NoUseAfterClose
<1>1. SyncInv => NoUseAfterClose
  BY DEF SyncInv
<1> QED
  BY <1>1, SyncInvariant, PTL

(***************************************************************************)
(* Shm                                                                     *)
(***************************************************************************)
ShmTypeOK ==
    /\ name \in Segment \cup {None}
    /\ length \in [Segment -> Nat]
    /\ st \in [Proc -> {"out", "named", "opened", "sized", "in", "leaving", "wild", "fault", "wrapped"}]
    /\ seg \in [Proc -> Segment \cup {None}]
    /\ len \in [Proc -> Nat]
    /\ unlinks \in Nat
    /\ since \in [Proc -> Nat]

\* A process has a segment between its opening and its detach; it opened it
\* after the removals so far; and it has sized it to a length that is positive
\* as an offset, which the segment still has unless it was cut.
Attached == \A p \in Proc :
    /\ Holds(p) <=> st[p] \in {"opened", "sized", "in", "fault", "wrapped"}
    /\ Holds(p) => since[p] <= unlinks
    /\ st[p] \in {"sized", "in", "fault", "wrapped"} =>
          /\ 2 * len[p] < SizeMax
          /\ seg[p] \notin cut => length[seg[p]] >= len[p]

ShmInv == ShmTypeOK /\ Attached /\ Together

LEMMA InitShmInv == ShmInit => ShmInv
<1> SUFFICES ASSUME ShmInit PROVE ShmInv
  OBVIOUS
<1> QED
  BY DEF ShmInit, ShmInv, ShmTypeOK, Attached, Together, Holds

\* There is one segment more than there are processes: one that opens a
\* segment, and has none yet, finds one that nobody has.
LEMMA UnusedExists == ASSUME ShmTypeOK, name = None
                      PROVE /\ Unused \in Segment
                            /\ \A q \in Proc : seg[q] # Unused
<1> DEFINE n == Cardinality(Proc)
<1>1. n \in Nat
  BY ProcAssumption, FS_CardinalityType
<1>2. IsFiniteSet(0..n) /\ Cardinality(0..n) = n + 1
  <2> HIDE DEF n
  <2>1. 0 \in Int /\ n \in Int
    BY <1>1
  <2> QED
    BY <1>1, <2>1, FS_Interval
<1>3. \E s \in Segment : \A q \in Proc : seg[q] # s
  <2> SUFFICES ASSUME \A s \in Segment : \E q \in Proc : seg[q] = s
               PROVE FALSE
    OBVIOUS
  <2> DEFINE f == [s \in Segment |-> CHOOSE q \in Proc : seg[q] = s]
  <2>1. f \in [Segment -> Proc] /\ \A s \in Segment : seg[f[s]] = s
    OBVIOUS
  <2> HIDE DEF f
  <2>2. IsFiniteSet(Segment) /\ Cardinality(Proc) < Cardinality(Segment)
    BY <1>1, <1>2 DEF Segment
  <2>3. \E x, y \in Segment : x # y /\ f[x] = f[y]
    BY <2>1, <2>2, ProcAssumption, FS_PigeonHole
  <2> QED
    BY <2>1, <2>3
<1>4. \E s \in Segment : s # name /\ \A q \in Proc : seg[q] # s
  BY <1>3, ProcAssumption DEF Segment
<1> QED
  BY <1>4 DEF Unused

\* What each call of an attach or a detach keeps.
LEMMA AttachShm == ASSUME ShmInv, NEW p \in Proc, Attach(p) PROVE ShmInv'
<1>1. PICK n \in Length : len' = [len EXCEPT ![p] = n]
  BY DEF Attach
<1>2. n \in Nat
  BY <1>1, ShmAssumption
<1>3. ~Holds(p)
  BY DEF Attach, ShmInv, Attached
<1> USE DEF ShmInv, ShmTypeOK, Attach, To
<1>4. ShmTypeOK'
  BY <1>1, <1>2
<1>5. Attached'
  BY <1>1, <1>3 DEF Attached, Holds
<1>6. Together'
  BY <1>1, <1>3 DEF Attached, Together, Holds
<1> QED
  BY <1>4, <1>5, <1>6

LEMMA OpenShm == ASSUME ShmInv, NEW p \in Proc, Open(p) PROVE ShmInv'
<1>1. ~Holds(p) /\ st[p] = "named" /\ seg[p] = None
  BY DEF Open, ShmInv, Attached, Holds
<1>2. CASE name # None
  <2>1. /\ UNCHANGED <<name, length, cut, len, unlinks>>
        /\ seg' = [seg EXCEPT ![p] = name]
        /\ since' = [since EXCEPT ![p] = unlinks]
        /\ st' = [st EXCEPT ![p] = "opened"]
    BY <1>2 DEF Open, To
  <2>2. name \in Segment
    BY <1>2 DEF ShmInv, ShmTypeOK
  <2> USE <2>1 DEF ShmInv, ShmTypeOK
  <2>3. ShmTypeOK'
    BY <2>2
  <2>4. Attached'
    BY <1>2 DEF Attached, Holds
  <2>5. Together'
    BY <1>1, <1>2 DEF Attached, Together, Holds
  <2> QED
    BY <2>3, <2>4, <2>5
<1>3. CASE name = None
  <2> DEFINE u == Unused
  <2>1. /\ length' = [length EXCEPT ![u] = 0]
        /\ name' = u /\ cut' = cut \ {u}
        /\ UNCHANGED <<len, unlinks>>
        /\ seg' = [seg EXCEPT ![p] = u]
        /\ since' = [since EXCEPT ![p] = unlinks]
        /\ st' = [st EXCEPT ![p] = "opened"]
    BY <1>3 DEF Open, To
  <2>2. u \in Segment /\ \A q \in Proc : seg[q] # u
    BY <1>3, UnusedExists DEF ShmInv
  <2>3. u # None
    BY <2>2, ProcAssumption, FS_CardinalityType DEF Segment
  <2> HIDE DEF u
  <2> USE <2>1 DEF ShmInv, ShmTypeOK
  <2>4. ShmTypeOK'
    BY <2>2
  <2>5. Attached'
    BY <2>2, <2>3 DEF Attached, Holds
  <2>6. \A q \in Proc : Holds(q) => since[q] # unlinks
    BY <1>3 DEF Together, Holds
  <2>7. Together'
    BY <1>1, <2>2, <2>3, <2>6 DEF Attached, Together, Holds
  <2> QED
    BY <2>4, <2>5, <2>7
<1> QED
  BY <1>2, <1>3

LEMMA TruncateShm == ASSUME ShmInv, NEW p \in Proc, Truncate(p) PROVE ShmInv'
<1> DEFINE s == seg[p]
           n == len[p]
<1>1. /\ s \in Segment /\ n \in Nat /\ 2 * n < SizeMax
      /\ length' = [length EXCEPT ![s] = n]
      /\ st' = [st EXCEPT ![p] = "sized"]
      /\ UNCHANGED <<name, seg, len, unlinks, since>>
      /\ cut' = IF n < length[s] THEN cut \cup {s} ELSE cut
  BY DEF Truncate, To, ShmInv, ShmTypeOK, Attached, Holds
<1> USE DEF ShmInv, ShmTypeOK
<1>2. ShmTypeOK'
  BY <1>1
<1>3. ASSUME NEW q \in Proc, st'[q] \in {"sized", "in", "fault", "wrapped"}
      PROVE  2 * len[q] < SizeMax /\ (seg[q] \notin cut' => length'[seg[q]] >= len[q])
  <2>1. CASE q = p
    BY <1>1, <2>1
  <2>2. CASE q # p
    <3>1. 2 * len[q] < SizeMax /\ (seg[q] \notin cut => length[seg[q]] >= len[q])
      BY <1>1, <1>3, <2>2 DEF Attached
    <3>2. seg[q] \in Segment
      BY <1>1, <1>3, <2>2 DEF Attached, Holds
    <3> QED
      BY <1>1, <1>3, <3>1, <3>2
  <2> QED
    BY <2>1, <2>2
<1>h. seg[p] # None /\ st[p] = "opened"
  BY DEF Attached, Holds, Truncate
<1> HIDE DEF s, n
<1>4. Attached'
  <2>1. ASSUME NEW q \in Proc
        PROVE  /\ seg[q] # None <=> st'[q] \in {"opened", "sized", "in", "fault", "wrapped"}
               /\ seg[q] # None => since[q] <= unlinks
    BY <1>1, <1>h DEF Attached, Holds
  <2>2. UNCHANGED <<seg, len, since, unlinks>>
    BY <1>1
  <2> QED
    BY <1>3, <2>1, <2>2 DEF Attached, Holds
<1>5. Together'
  BY <1>1, <1>3 DEF Together, Holds
<1> QED
  BY <1>2, <1>4, <1>5

LEMMA MapShm == ASSUME ShmInv, NEW p \in Proc, Map(p) PROVE ShmInv'
BY DEF Map, To, ShmInv, ShmTypeOK, Attached, Together, Holds

LEMMA FailShm == ASSUME ShmInv, NEW p \in Proc, Fail(p) PROVE ShmInv'
<1>1. /\ UNCHANGED <<name, length, len, unlinks, since, cut>>
      /\ seg' = [seg EXCEPT ![p] = None]
      /\ \E where \in {"out", "wild", "leaving"} : st' = [st EXCEPT ![p] = where]
  BY DEF Fail, To
<1>2. ShmTypeOK'
  BY <1>1 DEF ShmInv, ShmTypeOK
<1>3. Attached'
  BY <1>1 DEF ShmInv, ShmTypeOK, Attached, Holds
<1>4. Together'
  BY <1>1 DEF ShmInv, ShmTypeOK, Together, Holds
<1> QED
  BY <1>2, <1>3, <1>4 DEF ShmInv

LEMMA DetachShm == ASSUME ShmInv, NEW p \in Proc, Detach(p) PROVE ShmInv'
<1>1. /\ UNCHANGED <<name, length, len, unlinks, since, cut>>
      /\ seg' = [seg EXCEPT ![p] = None]
      /\ st' = [st EXCEPT ![p] = "leaving"]
  BY DEF Detach, To
<1>2. ShmTypeOK'
  BY <1>1 DEF ShmInv, ShmTypeOK
<1>3. Attached'
  BY <1>1 DEF ShmInv, ShmTypeOK, Attached, Holds
<1>4. Together'
  BY <1>1 DEF ShmInv, ShmTypeOK, Together, Holds
<1> QED
  BY <1>2, <1>3, <1>4 DEF ShmInv

\* After a removal nobody's opening is since the last one, and the name stands
\* for no segment.
LEMMA UnlinkShm == ASSUME ShmInv, NEW p \in Proc, Unlink(p) PROVE ShmInv'
<1>1. /\ UNCHANGED <<length, seg, len, since, cut>>
      /\ name' = None /\ unlinks' = unlinks + 1
      /\ st[p] = "leaving" /\ st' = [st EXCEPT ![p] = "out"]
  BY DEF Unlink, To
<1> USE DEF ShmInv, ShmTypeOK
<1>2. ShmTypeOK'
  BY <1>1
<1>3. Attached'
  BY <1>1 DEF Attached, Holds
<1>4. ASSUME NEW q \in Proc, Holds(q) PROVE since[q] # unlinks + 1
  BY <1>4 DEF Attached
<1>5. Together'
  BY <1>1, <1>4 DEF Together, Holds
<1> QED
  BY <1>2, <1>3, <1>5

\* What is accepted is in the length a process asked for, if the sum does not
\* wrap.
LEMMA AcceptsInside == ASSUME NEW l \in Nat, NEW sum \in Nat, sum < SizeMax,
                              sum % SizeMax < l
                       PROVE  sum < l
<1>1. ASSUME NEW m \in Nat \ {0}, sum < m PROVE sum % m = sum
  BY <1>1
<1> QED
  BY <1>1, ShmAssumption

\* An access that leaves a segment without wrapping leaves one that was cut.
LEMMA AccessShm == ASSUME ShmInv, NEW p \in Proc, Access(p) PROVE ShmInv'
<1> DEFINE l == len[p]
<1>1. /\ st[p] = "in"
      /\ UNCHANGED <<name, length, seg, len, unlinks, since, cut>>
  BY DEF Access
<1>2. PICK from \in 0..(SizeMax - 1) :
         \E n \in 0..(SizeMax - 1) :
            /\ (from + n) % SizeMax < l
            /\ from + n > length[seg[p]]
            /\ st' = [st EXCEPT ![p] = IF from + n < SizeMax THEN "fault" ELSE "wrapped"]
  BY DEF Access, Accepts, To
<1>3. PICK n \in 0..(SizeMax - 1) :
            /\ (from + n) % SizeMax < l
            /\ from + n > length[seg[p]]
            /\ st' = [st EXCEPT ![p] = IF from + n < SizeMax THEN "fault" ELSE "wrapped"]
  BY <1>2
<1>4. /\ l \in Nat /\ seg[p] \in Segment /\ length[seg[p]] \in Nat
      /\ from + n \in Nat
  BY <1>1, ShmAssumption DEF ShmInv, ShmTypeOK, Attached, Holds
<1>5. CASE from + n < SizeMax
  <2>1. from + n < l
    <3> HIDE DEF l
    <3> QED
      BY <1>3, <1>4, <1>5, AcceptsInside
  <2>2. ~(length[seg[p]] >= l)
    <3> HIDE DEF l
    <3> QED
      BY <1>3, <1>4, <2>1
  <2>3. seg[p] \in cut
    BY <1>1, <2>2 DEF ShmInv, Attached
  <2>4. st' = [st EXCEPT ![p] = "fault"]
    BY <1>3, <1>5
  <2> HIDE DEF l
  <2>5. ShmTypeOK'
    BY <1>1, <2>4 DEF ShmInv, ShmTypeOK
  <2>6. Attached'
    BY <1>1, <2>4 DEF ShmInv, ShmTypeOK, Attached, Holds
  <2>7. Together'
    BY <1>1, <2>3, <2>4 DEF ShmInv, ShmTypeOK, Together, Holds
  <2> QED
    BY <2>5, <2>6, <2>7 DEF ShmInv
<1>6. CASE ~(from + n < SizeMax)
  <2>1. st' = [st EXCEPT ![p] = "wrapped"]
    BY <1>3, <1>6
  <2> HIDE DEF l
  <2>2. ShmTypeOK'
    BY <1>1, <2>1 DEF ShmInv, ShmTypeOK
  <2>3. Attached'
    BY <1>1, <2>1 DEF ShmInv, ShmTypeOK, Attached, Holds
  <2>4. Together'
    BY <1>1, <2>1 DEF ShmInv, ShmTypeOK, Together, Holds
  <2> QED
    BY <2>2, <2>3, <2>4 DEF ShmInv
<1> QED
  BY <1>5, <1>6

LEMMA ShmInvariant == ShmSpec => []ShmInv
<1>1. ShmInv /\ [ShmNext]_shmVars => ShmInv'
  <2> SUFFICES ASSUME ShmInv, [ShmNext]_shmVars PROVE ShmInv'
    OBVIOUS
  <2>1. CASE UNCHANGED shmVars
    BY <2>1 DEF shmVars, ShmInv, ShmTypeOK, Attached, Together, Holds
  <2>2. ASSUME NEW p \in Proc, Step(p) PROVE ShmInv'
    BY <2>2, AttachShm, OpenShm, TruncateShm, MapShm, FailShm, DetachShm, UnlinkShm, AccessShm
       DEF Step
  <2> QED
    BY <2>1, <2>2 DEF ShmNext
<1> QED
  BY <1>1, InitShmInv, PTL DEF ShmSpec

\* Two processes that hold the name have one segment exactly if nobody's
\* detach, or failed attach, fell between their openings (mmp_shm_detach).  And
\* an access of mmp_shm_getdata or mmp_shm_putdata, of any offset and count,
\* that is accepted and whose sum does not wrap in size_t leaves the segment only
\* if another attach has made it shorter: for any number of processes, any
\* lengths and any width of size_t.
THEOREM ProcessesShare == ShmSpec => []Together
<1>1. ShmInv => Together
  BY DEF ShmInv
<1> QED
  BY <1>1, ShmInvariant, PTL
=============================================================================
