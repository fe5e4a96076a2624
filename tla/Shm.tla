-------------------------------- MODULE Shm --------------------------------
(***************************************************************************)
(* src/mmp_shm.c on a POSIX system: processes attach to a shared segment   *)
(* by its name, one and the same here.  An attach is four calls of the     *)
(* system, a detach two, and those of the processes interleave.            *)
(***************************************************************************)
EXTENDS Integers, FiniteSets

CONSTANTS Proc,         \* the processes
          Length,       \* the lengths they ask for
          MaxFds,       \* descriptors a process may have; none is closed
          SizeMax,      \* 2^w, w the width of size_t
          MaxUnlinks,   \* bound: the name is removed no more often
          None          \* no segment

ASSUME ShmAssumption == /\ MaxFds \in Nat /\ MaxUnlinks \in Nat /\ SizeMax \in Nat
                        /\ Length \subseteq 1..(SizeMax - 1)
ASSUME ProcAssumption == IsFiniteSet(Proc) /\ None \notin Nat

VARIABLES name,         \* the segment the name stands for
          length,       \* the length of each segment
          st,           \* where a process is
          seg, len,     \* its segment, and the length it asked for
          fds,          \* the descriptors it opened: map is never closed
          unlinks,      \* history: how often the name was removed
          since,        \* history: how often it had been when p opened it
          cut           \* history: the segments that were made shorter

shmVars == <<name, length, st, seg, len, fds, unlinks, since, cut>>

Segment == 0..Cardinality(Proc)

ShmInit == /\ name = None /\ length = [s \in Segment |-> 0]
           /\ st = [p \in Proc |-> "out"]
           /\ seg = [p \in Proc |-> None]
           /\ len = [p \in Proc |-> 0]
           /\ fds = [p \in Proc |-> 0]
           /\ unlinks = 0 /\ since = [p \in Proc |-> 0] /\ cut = {}

Unused == CHOOSE s \in Segment : s # name /\ \A q \in Proc : seg[q] # s
To(p, where) == st' = [st EXCEPT ![p] = where]

(***************************************************************************)
(* mmp_shm_attach                                                          *)
(***************************************************************************)
Attach(p) == /\ st[p] = "out"
             /\ \E n \in Length : len' = [len EXCEPT ![p] = n]
             /\ To(p, "named")
             /\ UNCHANGED <<name, length, seg, fds, unlinks, since, cut>>

\* bug: each process creates a segment of its own
OpenNew(p) == /\ st[p] = "named" /\ fds[p] < MaxFds
              /\ length' = [length EXCEPT ![Unused] = 0]
              /\ name' = Unused
              /\ seg' = [seg EXCEPT ![p] = name']
              /\ fds' = [fds EXCEPT ![p] = @ + 1]
              /\ since' = [since EXCEPT ![p] = unlinks]
              /\ To(p, "opened")
              /\ cut' = cut \ {name'}
              /\ UNCHANGED <<len, unlinks>>

\* shm_open with O_CREAT: the segment of that name, or an empty one.
Open(p) == /\ st[p] = "named" /\ fds[p] < MaxFds
           /\ \/ name # None /\ UNCHANGED <<name, length, cut>>
              \/ /\ name = None
                 /\ length' = [length EXCEPT ![Unused] = 0]
                 /\ name' = Unused
                 /\ cut' = cut \ {Unused}
           /\ seg' = [seg EXCEPT ![p] = name']
           /\ fds' = [fds EXCEPT ![p] = @ + 1]
           /\ since' = [since EXCEPT ![p] = unlinks]
           /\ To(p, "opened")
           /\ UNCHANGED <<len, unlinks>>

\* ftruncate: also of a segment that others have mapped.  Its length is signed:
\* one in the upper half of size_t is negative, and fails.
Truncate(p) == /\ st[p] = "opened" /\ 2 * len[p] < SizeMax
               /\ length' = [length EXCEPT ![seg[p]] = len[p]]
               /\ cut' = IF len[p] < length[seg[p]] THEN cut \cup {seg[p]} ELSE cut
               /\ To(p, "sized")
               /\ UNCHANGED <<name, seg, len, fds, unlinks, since>>

Map(p) == /\ st[p] = "sized"
          /\ To(p, "in")
          /\ UNCHANGED <<name, length, seg, len, fds, unlinks, since, cut>>

\* A call of an attach fails: xstrdup, shm_open, ftruncate or mmap.  The first
\* three find base not yet set, and mmp_shm_detach unmaps what it finds there.
Fail(p) == /\ unlinks < MaxUnlinks
           /\ \/ st[p] = "out" /\ (To(p, "out") \/ To(p, "wild"))
              \/ st[p] \in {"named", "opened"} /\ (To(p, "leaving") \/ To(p, "wild"))
              \/ st[p] = "sized" /\ To(p, "leaving")
           /\ seg' = [seg EXCEPT ![p] = None]
           /\ UNCHANGED <<name, length, len, fds, unlinks, since, cut>>

(***************************************************************************)
(* mmp_shm_detach, after an attach that failed too: munmap, shm_unlink     *)
(***************************************************************************)
Detach(p) == /\ st[p] = "in" /\ unlinks < MaxUnlinks
             /\ seg' = [seg EXCEPT ![p] = None]
             /\ To(p, "leaving")
             /\ UNCHANGED <<name, length, len, fds, unlinks, since, cut>>

Unlink(p) == /\ st[p] = "leaving"
             /\ name' = None
             /\ unlinks' = unlinks + 1
             /\ To(p, "out")
             /\ UNCHANGED <<length, seg, len, fds, since, cut>>

(***************************************************************************)
(* mmp_shm_getdata and mmp_shm_putdata, of any offset and any count: their *)
(* sum, in size_t, is tested against the length this process asked for,    *)
(* not against the segment's.  A sum that wraps passes too, and the copy   *)
(* starts or ends outside what is mapped.                                  *)
(***************************************************************************)
Accepts(p, from, n) == n # 0 /\ (from + n) % SizeMax < len[p]

Access(p) == /\ st[p] = "in"
             /\ \E from, n \in 0..(SizeMax - 1) :
                    /\ Accepts(p, from, n)
                    /\ from + n > length[seg[p]]
                    /\ To(p, IF from + n < SizeMax THEN "fault" ELSE "wrapped")
             /\ UNCHANGED <<name, length, seg, len, fds, unlinks, since, cut>>

Step(p) == Attach(p) \/ Open(p) \/ Truncate(p) \/ Map(p) \/ Fail(p)
           \/ Detach(p) \/ Unlink(p) \/ Access(p)
ShmNext == \E p \in Proc : Step(p)
ShmSpec == ShmInit /\ [][ShmNext]_shmVars

(***************************************************************************)
(* Properties                                                              *)
(***************************************************************************)
Holds(p) == seg[p] # None

\* Two processes that hold the name, and between whose openings nobody's
\* detach or failed attach removed it, hold one segment, whatever happened
\* since; a newcomer gets that segment as long as nobody removes the name.  And
\* a process that has its segment mapped finds it as long as it asked for,
\* unless an attach has made it shorter: so an accepted access whose sum does
\* not wrap ("fault") leaves the segment only if it was made shorter.  One whose
\* sum wraps ("wrapped") leaves any segment, and nothing is said of it.
Together ==
    /\ \A p, q \in Proc : Holds(p) /\ Holds(q) => (since[p] = since[q]) = (seg[p] = seg[q])
    /\ \A p \in Proc : Holds(p) => (since[p] = unlinks) = (name = seg[p])
    /\ \A p \in Proc : st[p] \in {"in", "fault", "wrapped"} /\ seg[p] \notin cut =>
          st[p] # "fault" /\ length[seg[p]] >= len[p]

\* Processes that have the name attached at a time share its segment.
SharesOne == \A p, q \in Proc : st[p] = "in" /\ st[q] = "in" => seg[p] = seg[q]
=============================================================================
