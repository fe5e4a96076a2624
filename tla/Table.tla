------------------------------- MODULE Table --------------------------------
(***************************************************************************)
(* What the hash table of mmp_htab.h keeps: one value for each key that    *)
(* was installed and not deleted, and lookups that find it.  Deleting the  *)
(* key that was added last deletes all the others with it: every key is in *)
(* one bucket, which then leads to nothing.                                *)
(***************************************************************************)
EXTENDS Functions

CONSTANTS Key, Val,
          Null      \* no value

VARIABLES open,     \* the client holds a table
          map,      \* its entries: key -> value
          latest,   \* the key added last, unless it was deleted
          ret       \* what the last lookup returned

tvars == <<open, map, latest, ret>>

Empty == [k \in {} |-> Null]

Init == /\ open = FALSE
        /\ map = Empty /\ latest = Null
        /\ ret = Null

Create == /\ ~open
          /\ open' = TRUE
          /\ UNCHANGED <<map, latest, ret>>

Install(k, v) == /\ open
                 /\ map' = [x \in DOMAIN map \cup {k} |->
                              IF x = k THEN v ELSE map[x]]
                 /\ latest' = IF k \in DOMAIN map THEN latest ELSE k
                 /\ UNCHANGED <<open, ret>>

Delete(k) == /\ open
             /\ k \in DOMAIN map
             /\ IF k = latest
                THEN map' = Empty /\ latest' = Null
                ELSE map' = Restrict(map, DOMAIN map \ {k}) /\ UNCHANGED latest
             /\ UNCHANGED <<open, ret>>

Lookup(k) == /\ open
             /\ ret' = IF k \in DOMAIN map THEN map[k] ELSE Null
             /\ UNCHANGED <<open, map, latest>>

\* A lookup that is given the length of the key may give up.
LookupNz(k) == Lookup(k) \/ (open /\ ret' = Null /\ UNCHANGED <<open, map, latest>>)

Destroy == /\ open
           /\ open' = FALSE
           /\ map' = Empty /\ latest' = Null
           /\ UNCHANGED ret

Next == \/ Create
        \/ Destroy
        \/ \E k \in Key : \/ \E v \in Val : Install(k, v)
                          \/ Delete(k)
                          \/ LookupNz(k)

Spec == Init /\ [][Next]_tvars
=============================================================================
