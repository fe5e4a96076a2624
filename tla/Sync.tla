-------------------------------- MODULE Sync --------------------------------
(***************************************************************************)
(* src/mmp_sync.c (the branch for POSIX): a semaphore, a mutex and an      *)
(* event, which is a second semaphore.  A call looks at its handle and     *)
(* then acts on the object, or waits for it: two steps, between which      *)
(* other threads run.                                                      *)
(*                                                                         *)
(* Any thread calls any function, except that main alone creates the       *)
(* objects, and closes one only when it has joined every thread.           *)
(***************************************************************************)
EXTENDS Threads

CONSTANTS SemMax,       \* SEM_VALUE_MAX
          InitCount,    \* of mmp_thr_sem_create, whose maxCount is not used
          Null,         \* the handle of no object
          Free          \* a mutex without an owner

ASSUME SemAssumption == SemMax \in Nat /\ InitCount \in 0..SemMax
ASSUME MutexAssumption == Null \notin Actor \cup Nat /\ Free \notin Actor \cup {Null}

Semaphore == {"sem", "evt"}
Entry == {"sem_lock", "sem_release", "mtx_lock", "mtx_release", "evt_wait", "evt_signal"}
Object(c) == CASE c \in {"sem_lock", "sem_release"} -> "sem"
               [] c \in {"evt_wait", "evt_signal"} -> "evt"
               [] OTHER -> "mtx"

VARIABLES count,    \* of each semaphore: its value, Null if there is none
          mtx,      \* the owner of the mutex, Free, or Null if there is none
          protected, \* the garbage in its attributes gave it a priority ceiling
          call,     \* of each thread: the function it is in, "out" if none
          inside    \* history: who was told it has the mutex, and not that it gave it up

vars == <<threadVars, count, mtx, protected, call, inside>>

Exists(o) == IF o = "mtx" THEN mtx # Null ELSE count[o] # Null

TypeOK == /\ ThreadsTypeOK
          /\ count \in [Semaphore -> 0..SemMax \cup {Null}]
          /\ mtx \in Actor \cup {Free, Null}
          /\ protected \in BOOLEAN
          /\ call \in [Actor -> Entry \cup {"out"}]
          /\ inside \subseteq Actor

Init == /\ ThreadsInit
        /\ count = [o \in Semaphore |-> Null]
        /\ mtx = Null
        /\ protected = FALSE
        /\ call = [a \in Actor |-> "out"]
        /\ inside = {}

\* A handle that is MMP_THRxxx_INVALID is refused: no change.
Enter(a, c) == /\ Runs(a)
               /\ call[a] = "out"
               /\ Exists(Object(c))
               /\ call' = [call EXCEPT ![a] = c]
               /\ UNCHANGED <<threadVars, count, mtx, protected, inside>>

In(a, c) == ~dead /\ call[a] = c /\ Exists(Object(c))

\* sem_wait takes one, and waits at zero.
Wait(a, c) == /\ In(a, c)
              /\ count[Object(c)] > 0
              /\ count' = [count EXCEPT ![Object(c)] = @ - 1]
              /\ call' = [call EXCEPT ![a] = "out"]
              /\ UNCHANGED <<threadVars, mtx, protected, inside>>

\* sem_wait is interrupted by a signal: ERR_SYNC, nothing taken.
Interrupt(a) == /\ In(a, "sem_lock") \/ In(a, "evt_wait")
                /\ call' = [call EXCEPT ![a] = "out"]
                /\ UNCHANGED <<threadVars, count, mtx, protected, inside>>

\* sem_post adds one, or fails at the largest value: ERR_SYNC.
Post(a, c) == /\ In(a, c)
              /\ count' = [count EXCEPT ![Object(c)] = IF @ < SemMax THEN @ + 1 ELSE @]
              /\ call' = [call EXCEPT ![a] = "out"]
              /\ UNCHANGED <<threadVars, mtx, protected, inside>>

SemLock(a) == Wait(a, "sem_lock")
SemRelease(a) == Post(a, "sem_release")
EvtWait(a) == Wait(a, "evt_wait")
EvtSignal(a) == Post(a, "evt_signal")

Outcome(a, owner, ins) == /\ mtx' = owner
                          /\ inside' = ins
                          /\ call' = [call EXCEPT ![a] = "out"]
                          /\ UNCHANGED <<threadVars, count, protected>>

\* bug: a mutex of the default type: its owner, locking again, waits for itself
MtxLockDefault(a) ==
    /\ In(a, "mtx_lock")
    /\ \/ ~protected /\ mtx = Free /\ Outcome(a, a, inside \cup {a})
       \/ protected /\ Outcome(a, mtx, inside)

\* The type is ERRORCHECK: its owner is refused (EDEADLK), not made to wait.
MtxLock(a) ==
    /\ In(a, "mtx_lock")
    /\ \/ ~protected /\ mtx = Free /\ Outcome(a, a, inside \cup {a})
       \/ (protected \/ mtx = a) /\ Outcome(a, mtx, inside)

\* bug: a mutex of the default type: any thread gives it up
MtxReleaseDefault(a) ==
    /\ In(a, "mtx_release")
    /\ Outcome(a, Free, inside \ {a})

\* The type is ERRORCHECK: only its owner gives it up, others are refused (EPERM).
MtxRelease(a) ==
    /\ In(a, "mtx_release")
    /\ \/ mtx = a /\ Outcome(a, Free, inside \ {a})
       \/ mtx # a /\ Outcome(a, mtx, inside)

Creates == Runs(Main) /\ call[Main] = "out"
Closes == Creates /\ AllJoined

CountCreate(o, n) == /\ Creates
                     /\ count[o] = Null
                     /\ count' = [count EXCEPT ![o] = n]
                     /\ UNCHANGED <<threadVars, mtx, protected, call, inside>>
CountClose(o) == /\ Closes
                 /\ count[o] # Null
                 /\ count' = [count EXCEPT ![o] = Null]
                 /\ UNCHANGED <<threadVars, mtx, protected, call, inside>>

SemCreate == CountCreate("sem", InitCount)
SemClose == CountClose("sem")
EvtCreate == CountCreate("evt", 0)
EvtClose == CountClose("evt")

\* The type is set in attributes that were not initialised: what else they
\* hold may ask for a priority ceiling, which then refuses every lock.
MtxCreate == /\ Creates
             /\ mtx = Null
             /\ mtx' = Free
             /\ protected' \in BOOLEAN
             /\ UNCHANGED <<threadVars, count, call, inside>>

\* pthread_mutex_destroy refuses a mutex that has an owner (EBUSY): it is kept.
MtxClose == /\ Closes
            /\ mtx = Free
            /\ mtx' = Null
            /\ protected' = FALSE
            /\ UNCHANGED <<threadVars, count, call, inside>>

Create(t) == /\ Creates
             /\ ThreadCreate(t)
             /\ UNCHANGED <<count, mtx, protected, call, inside>>
Join(t) == /\ Creates
           /\ ThreadJoin(t)
           /\ UNCHANGED <<count, mtx, protected, call, inside>>
Exit(t) == /\ Runs(t)
           /\ call[t] = "out"
           /\ ThreadExit(t)
           /\ UNCHANGED <<count, mtx, protected, call, inside>>

Finish(a) == \/ SemLock(a) \/ SemRelease(a)
             \/ MtxLock(a) \/ MtxRelease(a)
             \/ EvtWait(a) \/ EvtSignal(a)

Next == \/ SemCreate \/ SemClose \/ MtxCreate \/ MtxClose \/ EvtCreate \/ EvtClose
        \/ \E t \in Thread : Create(t) \/ Join(t) \/ Exit(t)
        \/ \E a \in Actor, c \in Entry : Enter(a, c)
        \/ \E a \in Actor : Finish(a) \/ Interrupt(a)

Spec == Init /\ [][Next]_vars
\* A thread whose call can go on is scheduled; that a signal comes is not assumed.
FairSpec == Spec /\ \A a \in Actor : WF_vars(Finish(a))

(***************************************************************************)
(* Properties                                                              *)
(***************************************************************************)
\* A mutex is acquired and released by the same thread (mmp_sync.h): whoever
\* was told it has the mutex is the one owner, whoever else locks, locks
\* again, or releases what it does not have.
Exclusive == /\ TypeOK
             /\ inside = {mtx} \cap Actor

\* No thread is in a call on an object that was closed and freed: main, which
\* closes, has waited for every thread, those it failed to create included.
NoUseAfterClose == \A a \in Actor : call[a] # "out" => Exists(Object(call[a]))

\* What makes a thread wait: a semaphore at zero, a mutex another thread has.
Blocked(a) == \/ call[a] \in {"sem_lock", "evt_wait"} /\ count[Object(call[a])] = 0
              \/ call[a] = "mtx_lock" /\ mtx \notin {Free, a} /\ ~protected

\* A call that nothing makes wait returns, or something comes to make it
\* wait: no signal is lost on a waiter, no thread waits for itself.
CallsReturn == \A a \in Actor :
    (call[a] # "out" /\ ~Blocked(a)) ~> (call[a] = "out" \/ Blocked(a) \/ dead)

\* An event is a binary semaphore (mmp_sync.h): two signals are one.
EventIsBinary == count["evt"] # Null => count["evt"] <= 1
=============================================================================
