------------------------------- MODULE Btree --------------------------------
(***************************************************************************)
(* src/mmp_btree.c: a B-tree in the pages of a file.  A page has up to R   *)
(* records; record i has a key and the page of the keys below it, and the  *)
(* record after the last has the page of the keys above them all.  A call  *)
(* is a step per page it visits; a full page on the way is split first.    *)
(* A value moves with its key: a record is known by its key.               *)
(***************************************************************************)
EXTENDS Integers, FiniteSets

CONSTANTS Key,          \* the keys, integers
          R,            \* records to a page, get_R_from_pgsize
          MaxPages,     \* bound: the file gets no more pages
          None,         \* no page: INVALID_OFF, and the parent of the root
          NoKey         \* no key, a model value

ASSUME KeyAssumption == Key \subseteq Int
ASSUME PageAssumption == /\ R \in Nat /\ R >= 2 /\ MaxPages \in Nat \ {0}
                         /\ None \notin 0..(MaxPages - 1)

VARIABLES pg,           \* the pages, by their index in pgoff
          root,
          call,         \* "none", "idle", the call, its answer, or "wild"
          cur, key,     \* the page the call is at, and the key it is given
          freed,        \* pages that were given back and are still in pgoff
          file,         \* the file has pages
          keys,         \* history: the keys inserted
          lossy,        \* history: a split has unlinked a page
          below         \* history: the keys that were below such a page

tree == <<pg, root, freed, file>>
losses == <<lossy, below>>
treeVars == <<tree, call, cur, key, keys, losses>>

Page == 0..(MaxPages - 1)
N == Cardinality(DOMAIN pg)         \* n_pgoff

Empty(parent) == [n_el |-> 0, parent |-> parent,
                  recs |-> [j \in 0..R |-> [key |-> NoKey, off |-> None]]]

TreeInit == /\ pg = [p \in {} |-> Empty(None)]
            /\ root = None
            /\ call = "none"
            /\ cur = None /\ key = NoKey
            /\ freed = {} /\ file = FALSE
            /\ keys = {} /\ lossy = FALSE /\ below = {}

Answer(a) == call' = a /\ cur' = None
GoTo(p, c) == cur' = p /\ call' = c /\ UNCHANGED key

\* mmp_bt_create.  A file that has pages already leaves the structure unset.
TreeCreate == /\ call = "none"
              /\ IF file
                 THEN call' = "wild" /\ UNCHANGED tree
                 ELSE /\ pg' = [p \in {0} |-> Empty(None)]
                      /\ root' = 0
                      /\ file' = TRUE
                      /\ call' = "idle"
                      /\ UNCHANGED freed
              /\ UNCHANGED <<cur, key, keys, losses>>

\* The first page is not allocated, though the file may have been lengthened;
\* or the file is not opened, and mmp_bt_destroy frees a pgoff never set; or
\* the page is not mapped, and is written to.
CreateFails == /\ call = "none" /\ ~file
               /\ \/ file' \in BOOLEAN /\ UNCHANGED call
                  \/ call' = "wild" /\ UNCHANGED file
               /\ UNCHANGED <<pg, root, freed, cur, key, keys, losses>>

\* mmp_bt_destroy gives back each page of pgoff, one given back before too.
TreeDestroy == /\ call = "idle"
               /\ call' = IF freed = {} THEN "none" ELSE "wild"
               /\ UNCHANGED <<tree, cur, key, keys, losses>>

\* Where the scan of a page ends: at the first key that is not below x.
Pos(q, x) == CHOOSE i \in 0..q.n_el :
                /\ i < q.n_el => q.recs[i].key >= x
                /\ \A j \in 0..(i - 1) : q.recs[j].key < x
Has(q, x) == Pos(q, x) < q.n_el /\ q.recs[Pos(q, x)].key = x
Way(q, x) == q.recs[Pos(q, x)].off

Begin(c) == /\ call = "idle"
            /\ call' = c
            /\ key' \in Key
            /\ cur' = root
            /\ UNCHANGED <<tree, keys, losses>>

\* A page that was given back is followed.
Calls == {"search", "insert", "scan"}
Touch == /\ call \in Calls /\ cur \in freed
         /\ call' = "wild"
         /\ UNCHANGED <<tree, cur, key, keys, losses>>

(***************************************************************************)
(* mmp_bt_search                                                           *)
(***************************************************************************)
\* bug: the page below the first key of a page is not looked at
SearchPageAbove ==
    /\ call = "search" /\ cur \notin freed
    /\ IF cur = None THEN Answer("missing") /\ UNCHANGED key
       ELSE IF Has(pg[cur], key) THEN Answer("found") /\ UNCHANGED key
       ELSE IF Pos(pg[cur], key) = 0 THEN Answer("missing") /\ UNCHANGED key
       ELSE GoTo(Way(pg[cur], key), "search")
    /\ UNCHANGED <<tree, keys, losses>>

\* bug: the offset of no page is taken for one of page 0
SearchPageZero ==
    /\ call = "search" /\ cur \notin freed
    /\ IF Has(pg[cur], key) THEN Answer("found") /\ UNCHANGED key
       ELSE GoTo(IF Way(pg[cur], key) = None THEN 0 ELSE Way(pg[cur], key), "search")
    /\ UNCHANGED <<tree, keys, losses>>

SearchPage == /\ call = "search" /\ cur \notin freed
              /\ IF cur = None THEN Answer("missing") /\ UNCHANGED key
                 ELSE IF Has(pg[cur], key) THEN Answer("found") /\ UNCHANGED key
                 ELSE GoTo(Way(pg[cur], key), "search")
              /\ UNCHANGED <<tree, keys, losses>>

\* The answer of a call has been read.
Read == /\ call \in {"found", "missing", "done", "refused", "failed"}
        /\ call' = "idle" /\ key' = NoKey
        /\ UNCHANGED <<tree, cur, keys, losses>>

(***************************************************************************)
(* mmp_bt_insert                                                           *)
(***************************************************************************)
\* bug: the records are not moved up
InsertInPosOver(q, x, off1, off2, pos) ==
    [q EXCEPT !.n_el = @ + 1,
              !.recs[pos] = [key |-> x, off |-> off1],
              !.recs[pos + 1].off = off2]

\* pg_insert_in_pos: the records from pos to n_el - 1 move up by one.  The
\* page in the record after the last stays, and is overwritten unless pos is
\* that record.
InsertInPos(q, x, off1, off2, pos) ==
    [q EXCEPT !.n_el = @ + 1,
              !.recs = [j \in 0..R |->
                CASE j = pos -> [key |-> x, off |-> off1]
                  [] j = pos + 1 -> [key |-> IF pos < q.n_el THEN q.recs[pos].key ELSE q.recs[j].key,
                                     off |-> off2]
                  [] j \in (pos + 2)..q.n_el -> q.recs[j - 1]
                  [] OTHER -> q.recs[j]]]

\* pg_insert; that it refuses a key it has is not looked at.
Inserted(q, x, off1, off2) ==
    IF Has(q, x) THEN q ELSE InsertInPos(q, x, off1, off2, Pos(q, x))

\* The page after the last record is not moved with the records.
Last(q) == q.recs[q.n_el].off
Loses(q, x) == Last(q) # None /\ Pos(q, x) < q.n_el

\* The keys of a page and of all those it leads to.
Offs(p) == {pg[p].recs[j].off : j \in 0..pg[p].n_el} \ {None}
KeysIn(q) == {q.recs[j].key : j \in 0..(q.n_el - 1)}
LedTo(p) == {q \in DOMAIN pg : \A S \in SUBSET DOMAIN pg :
                p \in S /\ (\A o \in S : Offs(o) \subseteq S) => q \in S}
KeysBelow(p) == IF p = None THEN {} ELSE UNION {KeysIn(pg[q]) : q \in LedTo(p)}

\* One page of mmp_bt_insert.  The parent a split ends at is looked at
\* without asking if it is full now: a record past its last is out of bounds.
InsertPage ==
    /\ \/ call = "insert" /\ pg[cur].n_el < R
       \/ call = "scan"
    /\ cur \notin freed
    /\ IF Has(pg[cur], key)
       THEN Answer("refused") /\ UNCHANGED <<tree, key, keys, below>>
       ELSE IF Way(pg[cur], key) # None
       THEN GoTo(Way(pg[cur], key), "insert") /\ UNCHANGED <<tree, keys, below>>
       ELSE IF pg[cur].n_el < R
       THEN /\ pg' = [pg EXCEPT ![cur] = InsertInPos(@, key, None, None, Pos(@, key))]
            /\ keys' = keys \cup {key}
            /\ below' = below \cup (IF Loses(pg[cur], key) THEN KeysBelow(Last(pg[cur])) ELSE {})
            /\ Answer("done")
            /\ UNCHANGED <<root, freed, file, key>>
       ELSE Answer("wild") /\ UNCHANGED <<tree, key, keys, below>>
    /\ UNCHANGED lossy

(***************************************************************************)
(* pg_split: the upper half of a page moves to a new one, its middle key   *)
(* to the parent, which is new if the page is the root.                    *)
(***************************************************************************)
Full(p) == pg[p].n_el >= R
Refused == pg[cur].parent # None /\ Full(pg[cur].parent)
IsRoot == pg[cur].parent = None
Half == pg[cur].n_el \div 2
Middle == pg[cur].recs[Half].key

\* The records above the middle one, without the page after the last.
Upper(parent) ==
    LET q == pg[cur]
        m == q.n_el - (Half + 1)
    IN  [Empty(parent) EXCEPT !.n_el = m,
            !.recs = [j \in 0..R |-> IF j < m THEN q.recs[Half + 1 + j]
                                     ELSE Empty(parent).recs[j]]]

Lower(parent) == [pg[cur] EXCEPT !.n_el = Half, !.parent = parent]

Split ==
    /\ call = "insert" /\ cur \notin freed
    /\ Full(cur) /\ ~Refused
    /\ LET par == IF IsRoot THEN N ELSE pg[cur].parent
           bro == IF IsRoot THEN N + 1 ELSE N
           old == IF IsRoot THEN Empty(None) ELSE pg[par]
       IN  /\ bro < MaxPages
           /\ pg' = [p \in DOMAIN pg \cup {par, bro} |->
                        CASE p = cur -> Lower(par)
                          [] p = bro -> Upper(par)
                          [] p = par -> Inserted(old, Middle, cur, bro)
                          [] OTHER -> pg[p]]
           /\ root' = IF IsRoot THEN par ELSE root
           /\ lossy' = (lossy \/ Last(pg[cur]) # None \/ Loses(old, Middle))
           /\ below' = UNION {below, KeysBelow(Last(pg[cur])),
                              IF Loses(old, Middle) THEN KeysBelow(Last(old)) ELSE {}}
           /\ cur' = par
    /\ call' = "scan"
    /\ UNCHANGED <<freed, file, key, keys>>

\* The parent is full, or a page is not allocated: the insertion fails.  A
\* parent that is the root is then given back, be it new or not.
SplitFails ==
    /\ call = "insert" /\ cur \notin freed
    /\ Full(cur)
    /\ \/ /\ Refused \/ IsRoot \/ pg[cur].parent # root
          /\ UNCHANGED <<pg, freed>>
       \/ /\ IsRoot /\ N < MaxPages
          /\ pg' = [p \in DOMAIN pg \cup {N} |-> IF p = N THEN Empty(None) ELSE pg[p]]
          /\ freed' = freed \cup {N}
       \/ /\ ~Refused /\ pg[cur].parent = root
          /\ freed' = freed \cup {root}
          /\ UNCHANGED pg
    /\ Answer("failed")
    /\ UNCHANGED <<root, file, key, keys, losses>>

\* A new page that is not mapped is written to: check_mapped asks for a pointer
\* that mmp_mmap returns in neither of the ways it fails.
SplitUnmapped == /\ call = "insert" /\ cur \notin freed
                 /\ Full(cur) /\ ~Refused
                 /\ Answer("wild")
                 /\ UNCHANGED <<tree, key, keys, losses>>

Continue == \/ SearchPage \/ InsertPage \/ Touch
            \/ Split \/ SplitFails \/ SplitUnmapped

TreeNext == \/ TreeCreate \/ CreateFails \/ TreeDestroy
            \/ Begin("search") \/ Begin("insert") \/ Read \/ Continue

TreeSpec == TreeInit /\ [][TreeNext]_treeVars
\* A call that was begun goes on.
FairSpec == TreeSpec /\ WF_treeVars(Continue)

(***************************************************************************)
(* Properties                                                              *)
(***************************************************************************)
TreeTypeOK == /\ DOMAIN pg = 0..(N - 1) /\ N <= MaxPages
              /\ \A p \in DOMAIN pg :
                    /\ pg[p].n_el \in 0..R
                    /\ pg[p].parent \in Page \cup {None}
                    /\ \A j \in 0..R : /\ pg[p].recs[j].key \in Key \cup {NoKey}
                                       /\ pg[p].recs[j].off \in Page \cup {None}
              /\ root \in Page \cup {None} /\ cur \in Page \cup {None}
              /\ freed \subseteq Page
              /\ keys \subseteq Key /\ key \in Key \cup {NoKey}

\* In every page the keys ascend, and none was not inserted, whatever was
\* split, lost or failed before.
Ascending == /\ TreeTypeOK
             /\ \A p \in DOMAIN pg \ freed : \A j \in 0..(pg[p].n_el - 1) :
                    /\ pg[p].recs[j].key \in keys
                    /\ j > 0 => pg[p].recs[j - 1].key < pg[p].recs[j].key

\* A search finds and an insertion refuses only what was inserted; what was
\* inserted is missed by a search, or taken a second time, only if it was below a
\* page when that was lost.
Answers(a) == call \in Calls /\ call' \in a
FindsExactly ==
    [][/\ Answers({"found", "refused"}) => key \in keys
       /\ Answers({"missing", "done"}) => key \notin keys \/ key \in below]_treeVars

\* Every call returns, or follows a page that was given back.
CallsReturn == call \in Calls ~> call \notin Calls

\* What was inserted is found (mmp_btree.h: search the btree for a key).
FindsInserted == call = "missing" => key \notin keys
=============================================================================
