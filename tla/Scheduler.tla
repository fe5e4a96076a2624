----------------------------- MODULE Scheduler ------------------------------
(***************************************************************************)
(* src/mmp_sock_scheduler.h and its implementations, of which the build    *)
(* takes one: over epoll or over select (or a fake, which always fails).   *)
(*                                                                         *)
(* The client adds and drops sockets at any time, also in the callbacks    *)
(* that the loop makes.  It drops a socket by mmp_scheduler_del_socket and *)
(* close, and a number that was closed comes back for another socket.  Its *)
(* callbacks read all there is to read.                                    *)
(***************************************************************************)
EXTENDS Vect, Sequences, FiniteSets, Functions

CONSTANTS Sock,         \* the numbers of the sockets
          Listener,     \* those that accept; the others are clients
          PoolSize,     \* of mmp_scheduler_create
          FdSetSize,    \* FD_SETSIZE
          DropsOthers,  \* a callback also drops sockets other than its own
          Impls         \* the implementations of the builds

ASSUME SockAssumption == /\ FdSetSize \in Nat /\ Sock \subseteq 0..(FdSetSize - 1)
                         /\ Listener \subseteq Sock /\ Sock \subseteq Val
ASSUME PoolAssumption == PoolSize \in Nat \ {0}
ASSUME ImplAssumption == Impls \subseteq {"epoll", "select"}
ASSUME ClientAssumption == DropsOthers \in BOOLEAN

VARIABLES impl,
          id,           \* what create gave: "none", "ok", or "broken": a failure not told
          fds,          \* select: s_fds
          s_nfds, s_highestfd,      \* select: computed and used, but never the same
          interest, ready,  \* epoll: the sockets registered; its list of those ready
          open, pending,    \* the sockets that are open, and that have data to read
          pc, i, events,    \* the loop: where it is, its index, what the poll gave
          watched,      \* history: the sockets added and not dropped
          dropped,      \* history: those dropped since the poll
          called        \* the socket of the callback just made

sched == <<impl, id, fds, s_nfds, s_highestfd>>
kernel == <<interest, ready, open, pending>>
loop == <<pc, i, events>>
schedVars == <<sched, kernel, loop, watched, dropped, called>>

\* The elements of s that are in S, in the order of s.
Only(s, S) == LET at == {k \in DOMAIN s : s[k] \in S}
                  Rank(k) == Cardinality({j \in at : j <= k})
              IN  [n \in 1..Cardinality(at) |-> s[CHOOSE k \in at : Rank(k) = n]]
Without(s, x) == Only(s, Range(s) \ {x})
Sockets(u) == {At(u, j) : j \in 0..(u.n_data - 1)}
Queued(s, x) == IF x \in Range(s) THEN s ELSE Append(s, x)

SchedInit == /\ impl \in Impls
             /\ id = "none"
             /\ fds = Null
             /\ s_nfds = 0 /\ s_highestfd = 0
             /\ interest = {} /\ ready = << >>
             /\ open = {} /\ pending = {}
             /\ pc = "out" /\ i = 0 /\ events = << >>
             /\ watched = {} /\ dropped = {}
             /\ called = Null

Quiet == /\ called' = Null
         /\ UNCHANGED <<impl, dropped>>

(***************************************************************************)
(* Creation and destruction                                                *)
(***************************************************************************)
\* epoll and fake give -1 when they fail, which changes nothing.
EpollCreate == /\ impl = "epoll"
               /\ id' = "ok"
               /\ interest' = {} /\ ready' = << >>
               /\ UNCHANGED <<fds, s_nfds, s_highestfd>>

\* select gives a positive error code, which is taken for an identifier.
SelectCreate == /\ impl = "select"
                /\ \/ id' = "ok" /\ fds' = Reserve(VectCreate(0, 0), FdSetSize)
                   \/ id' = "broken" /\ fds' = Null
                /\ s_nfds' = 0 /\ s_highestfd' = 0
                /\ UNCHANGED <<interest, ready>>

SchedCreate == /\ id = "none" /\ pc = "out"
               /\ EpollCreate \/ SelectCreate
               /\ Quiet
               /\ UNCHANGED <<open, pending, loop, watched>>

\* mmp_scheduler_epoll_destroy is empty: the descriptor and the pool stay.
SchedDestroy == /\ id = "ok" /\ pc = "out"
                /\ id' = "none"
                /\ fds' = Null
                /\ watched' = {}
                /\ Quiet
                /\ UNCHANGED <<s_nfds, s_highestfd, kernel, loop>>

(***************************************************************************)
(* The sockets: each operator says what it makes of the scheduler's state  *)
(***************************************************************************)
\* A client is registered for writing too, and edge-triggered: its first
\* event is that it can be written to.
EpollAdd(s) == /\ impl = "epoll"
               /\ interest' = interest \cup {s}
               /\ ready' = IF s \in Listener \ pending THEN ready ELSE Queued(ready, s)
               /\ UNCHANGED <<fds, s_nfds>>

\* The result of push_back is not looked at, nor whether there is a vector.
SelectAdd(s) == /\ impl = "select"
                /\ fds' = IF fds = Null THEN Null ELSE VectPushBack(fds, s)
                /\ s_nfds' = IF s + 1 > s_nfds THEN s + 1 ELSE s_nfds
                /\ UNCHANGED <<interest, ready>>

\* bug: what epoll has found ready is kept
EpollDelLater(s) == /\ impl = "epoll"
                    /\ UNCHANGED <<interest, ready, fds>>

\* The result is inverted: what was done is reported as an error.
EpollDel(s) == /\ impl = "epoll"
               /\ interest' = interest \ {s}
               /\ ready' = Without(ready, s)
               /\ UNCHANGED fds

First(s) == CHOOSE j \in 0..(fds.n_data - 1) :
                At(fds, j) = s /\ \A k \in 0..(j - 1) : At(fds, k) # s

\* bug: the element after the one found is erased
SelectDelNext(s) == /\ impl = "select"
                    /\ fds' = VectErase(fds, First(s) + 1)
                    /\ UNCHANGED <<interest, ready>>

SelectDel(s) == /\ impl = "select"
                /\ fds' = IF s \in Sockets(fds) THEN VectErase(fds, First(s)) ELSE fds
                /\ UNCHANGED <<interest, ready>>

\* A socket, opened or accepted, is added.
AddSocket(s) == /\ s \notin watched
                /\ EpollAdd(s) \/ SelectAdd(s)
                /\ open' = open \cup {s}
                /\ watched' = watched \cup {s}

\* Of del_socket and close, of which the second leaves nothing to read.
DropSocket(s, unread) == /\ s \in watched
                         /\ EpollDel(s) \/ SelectDel(s)
                         /\ open' = open \ {s}
                         /\ pending' = unread \ {s}
                         /\ watched' = watched \ {s}

Add(s) == /\ id # "none" /\ pc = "out"
          /\ AddSocket(s)
          /\ Quiet
          /\ UNCHANGED <<id, s_highestfd, pending, loop>>

Drop(s) == /\ id = "ok" /\ pc = "out"
           /\ DropSocket(s, pending)
           /\ Quiet
           /\ UNCHANGED <<id, s_nfds, s_highestfd, loop>>

\* Data arrives at a socket, and epoll puts it in its list.
Arrive(s) == /\ pc # "dead"
             /\ s \in open \ pending
             /\ pending' = pending \cup {s}
             /\ ready' = IF s \in interest THEN Queued(ready, s) ELSE ready
             /\ Quiet
             /\ UNCHANGED <<id, fds, s_nfds, s_highestfd, interest, open, loop, watched>>

(***************************************************************************)
(* The loop                                                                *)
(***************************************************************************)
\* epoll_wait gives the first of its list, at most a pool of them; those that
\* are level-triggered and still ready go to the end of the list.
Live == Only(ready, (Sock \ Listener) \cup pending)
Taken == SubSeq(Live, 1, IF Len(Live) < PoolSize THEN Len(Live) ELSE PoolSize)

\* bug: the events past the pool are lost
EpollWaitAll == /\ impl = "epoll"
                /\ events' = Taken
                /\ ready' = Only(Taken, Listener)

EpollWait == /\ impl = "epoll"
             /\ events' = Taken
             /\ ready' = SubSeq(Live, Len(Taken) + 1, Len(Live)) \o Only(Taken, Listener)

\* select is given s_highestfd, which nothing raises above 0: it watches no
\* socket, however many there are, and only its time runs out.  The walk over
\* the vector that would follow (lines 109-117) is never reached.
SelectWait ==
    /\ impl = "select"
    /\ events' = Only([j \in 1..fds.n_data |-> At(fds, j - 1)],
                      {s \in pending : s < s_highestfd})
    /\ UNCHANGED ready

\* A poll that gives nothing has timed out: the timeout's callback, and OK.
Poll == /\ id = "ok" /\ pc = "out"
        /\ EpollWait \/ SelectWait
        /\ pc' = IF events' = << >> THEN "out" ELSE "loop"
        /\ i' = 0
        /\ called' = Null
        /\ dropped' = {}
        /\ UNCHANGED <<sched, interest, open, pending, watched>>

\* The loop and del_socket of a scheduler without a vector follow a null pointer.
Die == /\ id = "broken" /\ pc = "out"
       /\ pc' = "dead"
       /\ Quiet
       /\ UNCHANGED <<id, fds, s_nfds, s_highestfd, kernel, i, events, watched>>

\* The callback of s: it reads, and then drops its socket, or another, or
\* accepts one, or does nothing more.  What it returns ends no loop.
Callback(s) ==
    LET unread == pending \ {s} IN
    \/ /\ pending' = unread
       /\ UNCHANGED <<fds, s_nfds, interest, ready, open, watched, dropped>>
    \/ \E o \in IF DropsOthers THEN Sock ELSE {s} :
          /\ DropSocket(o, unread)
          /\ dropped' = dropped \cup {o}
          /\ UNCHANGED s_nfds
    \/ /\ \E n \in Sock \ Listener : AddSocket(n)
       /\ pending' = unread
       /\ UNCHANGED dropped

Step == /\ pc = "loop" /\ i < Len(events)
        /\ called' = events[i + 1]
        /\ Callback(events[i + 1])
        /\ i' = i + 1
        /\ UNCHANGED <<impl, id, s_highestfd, pc, events>>

Return == /\ pc = "loop" /\ i = Len(events)
          /\ pc' = "out" /\ i' = 0 /\ events' = << >>
          /\ called' = Null
          /\ dropped' = {}
          /\ UNCHANGED <<sched, kernel, watched>>

SchedNext == \/ SchedCreate \/ SchedDestroy
             \/ \E s \in Sock : Add(s) \/ Drop(s) \/ Arrive(s)
             \/ Poll \/ Step \/ Return \/ Die

SchedSpec == SchedInit /\ [][SchedNext]_schedVars
\* The client calls the loop again and again, and the loop goes on.
FairSpec == SchedSpec /\ WF_schedVars(Poll) /\ WF_schedVars(Step \/ Return)

(***************************************************************************)
(* Properties                                                              *)
(***************************************************************************)
SchedTypeOK == /\ impl \in Impls
               /\ id \in {"none", "ok", "broken"}
               /\ fds # Null => fds # Broken /\ Sockets(fds) \subseteq Sock
               /\ s_nfds \in 0..FdSetSize /\ s_highestfd = 0
               /\ interest \subseteq Sock /\ Range(ready) \subseteq Sock
               /\ open \subseteq Sock /\ pending \subseteq open
               /\ pc \in {"out", "loop", "dead"} /\ i \in 0..Len(events)
               /\ Range(events) \subseteq Sock
               /\ watched \subseteq open /\ dropped \subseteq Sock
               /\ called \in Sock \cup {Null}

\* What the scheduler has is what the client added and did not drop, each
\* socket once, whatever callbacks do meanwhile; epoll holds a socket with
\* data in its list, or an event of it is on its way.
Agrees ==
    /\ SchedTypeOK
    /\ id = "ok" /\ impl = "epoll" =>
         /\ interest = watched
         /\ Range(ready) \subseteq watched
         /\ watched \cap pending \subseteq
                Range(ready) \cup Range(SubSeq(events, i + 1, Len(events)))
    /\ id = "ok" /\ impl = "select" =>
         Sockets(fds) = watched /\ \A j, k \in 0..(fds.n_data - 1) :
                                        At(fds, j) = At(fds, k) => j = k

\* A callback is made for a socket that is watched, or that a callback of the
\* same round dropped: its event was gathered before.
CallbackKnown == \A j \in (i + 1)..Len(events) : events[j] \in watched \cup dropped

\* With epoll, a watched socket that has data gets its callback, however full
\* the pool and whatever else goes on.
ServesAll == \A s \in Sock :
    (impl = "epoll" /\ s \in watched \cap pending) ~>
        (called = s \/ s \notin watched \cap pending)

\* With any implementation that is created, it does.
ServesAny == \A s \in Sock :
    (id = "ok" /\ s \in watched \cap pending) ~>
        (called = s \/ s \notin watched \cap pending)
=============================================================================
