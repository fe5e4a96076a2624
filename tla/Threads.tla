------------------------------ MODULE Threads -------------------------------
(***************************************************************************)
(* src/mmp_thread.c: a thread that creates others and joins them.  The     *)
(* result of pthread_create is dropped: a creation that failed is reported *)
(* as done, and the identifier of that thread is never written.            *)
(***************************************************************************)
EXTENDS Naturals

CONSTANTS Thread,       \* the threads that may be created
          Main          \* the thread that creates and joins them

ASSUME MainAssumption == Main \notin Thread

Actor == Thread \cup {Main}

VARIABLES life,     \* of each thread: "none", "running" or "done"
          id,       \* what main has of it: "unset", "id", "garbage" or "joined"
          dead      \* the process followed an identifier never written, and died

threadVars == <<life, id, dead>>

ThreadsTypeOK == /\ life \in [Thread -> {"none", "running", "done"}]
                 /\ id \in [Thread -> {"unset", "id", "garbage", "joined"}]
                 /\ dead \in BOOLEAN

ThreadsInit == /\ life = [t \in Thread |-> "none"]
               /\ id = [t \in Thread |-> "unset"]
               /\ dead = FALSE

Runs(a) == ~dead /\ (a = Main \/ (a \in Thread /\ life[a] = "running"))

\* mmp_thread_create: OK whether or not there is a thread.
ThreadCreate(t) ==
    /\ id[t] = "unset"
    /\ \/ /\ life' = [life EXCEPT ![t] = "running"]
          /\ id' = [id EXCEPT ![t] = "id"]
       \/ /\ id' = [id EXCEPT ![t] = "garbage"]
          /\ UNCHANGED life
    /\ UNCHANGED dead

\* bug: the join does not wait for the thread
ThreadJoinAtOnce(t) ==
    \/ /\ id[t] \in {"id", "garbage"}
       /\ id' = [id EXCEPT ![t] = "joined"]
       /\ UNCHANGED <<life, dead>>
    \/ /\ id[t] = "garbage"
       /\ dead' = TRUE
       /\ UNCHANGED <<life, id>>

\* mmp_thread_join waits for the thread; with an identifier never written
\* pthread_join fails, which is not reported, or follows it.
ThreadJoin(t) ==
    \/ /\ \/ id[t] = "id" /\ life[t] = "done"
          \/ id[t] = "garbage"
       /\ id' = [id EXCEPT ![t] = "joined"]
       /\ UNCHANGED <<life, dead>>
    \/ /\ id[t] = "garbage"
       /\ dead' = TRUE
       /\ UNCHANGED <<life, id>>

\* mmp_thread_exit, or the return of the thread's function.
ThreadExit(t) == /\ life' = [life EXCEPT ![t] = "done"]
                 /\ UNCHANGED <<id, dead>>

\* Main has joined each thread it asked for.
AllJoined == \A t \in Thread : id[t] \in {"unset", "joined"}
=============================================================================
