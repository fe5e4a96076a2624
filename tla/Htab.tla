-------------------------------- MODULE Htab --------------------------------
(***************************************************************************)
(* src/mmp_htab.c: a hash table of chained elements, each with a copy of   *)
(* its key.  A search takes one step per element.                          *)
(*                                                                         *)
(* The history variable chain holds the elements of each bucket, in the    *)
(* order in which the pointers should run through them; leaked holds those *)
(* that no bucket leads to any more; latest is the key added last.         *)
(***************************************************************************)
EXTENDS Integers, SequencesExt

CONSTANTS Key, Val,
          Digest,       \* of a key: its hash over the first 1, 2, ... characters
          Lens,         \* the key lengths that mmp_htab_lookup_nz is given
          UIntMod,      \* 2^32 in the code
          Size,         \* the buckets
          Node,         \* addresses xmalloc can give to an element
          Null, Junk

ASSUME KeyAssumption == /\ Digest \in [Key -> Seq(Nat)]
                       /\ {Null, Junk} \cap (Key \cup Val) = {}
ASSUME SizeAssumption == Size \in Nat \ {0} /\ Lens \subseteq Nat
ASSUME WidthAssumption == UIntMod \in Nat \ {0} /\ UIntMod % 2 = 0
ASSUME NodeAssumption == {Null, Junk} \cap Node = {} /\ Null # Junk

Buckets == 0..(Size - 1)

VARIABLES open, ptrs,           \* the table
          next, prev, key, val, \* the fields of the elements
          alive,                \* the elements allocated
          lost,                 \* the kinds of block lost with their last pointer
          call,                 \* the call under way and its locals
          ret,                  \* what the last lookup returned
          called,               \* the elements datadel was called for
          chain, leaked, latest \* history

history == <<chain, leaked, latest>>
table == <<open, ptrs, next, prev, history>>
heap == <<key, val, alive, lost>>
vars == <<table, heap, call, ret, called>>

NoPointers == [b \in Buckets |-> Null]
NoElements == [b \in Buckets |-> << >>]

\* A call: its name, key and value, the bucket and the element it is at.
Call(how, k, v, b, n) == [op |-> how, key |-> k, val |-> v, h |-> b, np |-> n]
NoCall == Call("none", Null, Null, 0, Null)
Idle == open /\ call = NoCall
Return == call' = NoCall

Init == /\ open = FALSE
        /\ ptrs = NoPointers
        /\ next = [n \in Node |-> Junk] /\ prev = [n \in Node |-> Junk]
        /\ key = [n \in Node |-> Junk] /\ val = [n \in Node |-> Junk]
        /\ alive = {} /\ lost = {}
        /\ call = NoCall
        /\ ret = Null
        /\ called = << >>
        /\ chain = NoElements /\ leaked = {} /\ latest = Null

Create == /\ ~open
          /\ open' = TRUE
          /\ UNCHANGED <<ptrs, next, prev, history, heap, call, ret, called>>

(***************************************************************************)
(* mmp_htab_hash takes the limit as an int, and its callers without a key  *)
(* length pass UINT_MAX.                                                   *)
(***************************************************************************)
UIntMax == UIntMod - 1
AsInt(n) == IF n < UIntMod \div 2 THEN n ELSE n - UIntMod

Hash(k, max) == LET n == IF AsInt(max) < Len(Digest[k]) THEN AsInt(max)
                                                       ELSE Len(Digest[k])
                IN  IF n <= 0 THEN 0 ELSE Digest[k][n] % Size

(***************************************************************************)
(* mmp_htab_install, _delete, _lookup and _lookup_nz start with a search   *)
(* in the bucket of the key; an element added later goes into that of the  *)
(* key without a length.                                                   *)
(***************************************************************************)
\* bug: an installation searches the bucket of the whole key
BucketOfWhole(how, k, max) == Hash(k, IF how = "install" THEN Len(Digest[k]) ELSE max)

SearchBucket(how, k, max) == Hash(k, max)

Start(how, k, v, max) ==
    /\ Idle
    /\ call' = Call(how, k, v, Hash(k, UIntMax), ptrs[SearchBucket(how, k, max)])
    /\ UNCHANGED <<table, heap, ret, called>>

Install(k, v) == Start("install", k, v, UIntMax)
Delete(k) == Start("delete", k, Null, UIntMax)
Lookup(k) == Start("lookup", k, Null, UIntMax)
LookupNz(k, len) == Start("partial", k, Null, len)

SearchOps == {"install", "delete", "lookup", "partial"}
Searching == call.op \in SearchOps
h == call.h
np == call.np

\* strcmp on an element that has no key ends the process.
Dies == /\ Searching
        /\ np # Null
        /\ key[np] = Null
        /\ call' = [call EXCEPT !.op = "wild"]
        /\ UNCHANGED <<table, heap, ret, called>>

\* bug: the last element of a chain is not looked at
OverAtLast(n) == n # Null => next[n] = Null

Over(n) == n = Null

SearchNext == /\ Searching
              /\ ~Over(np)
              /\ key[np] \notin {call.key, Null}
              /\ call' = [call EXCEPT !.np = next[np]]
              /\ UNCHANGED <<table, heap, ret, called>>

Found == Searching /\ ~Over(np) /\ key[np] = call.key
Missed == Searching /\ Over(np)

Answer == /\ call.op \in {"lookup", "partial"}
          /\ \/ Found /\ ret' = val[np]
             \/ Missed /\ ret' = Null
          /\ Return
          /\ UNCHANGED <<table, heap, called>>

Replace == /\ Found
           /\ call.op = "install"
           /\ val' = [val EXCEPT ![np] = call.val]
           /\ Return
           /\ UNCHANGED <<table, key, alive, lost, ret, called>>

\* bug: the old first element keeps no link back
PrevLinkedNot(n) == [prev EXCEPT ![n] = Null]

PrevLinked(n) == IF ptrs[h] # Null THEN [prev EXCEPT ![n] = Null, ![ptrs[h]] = n]
                                   ELSE [prev EXCEPT ![n] = Null]

Stored(n) == [val EXCEPT ![n] = call.val]

\* xstrdup may fail, after the element was allocated, and leave it without a key.
Add(n) == /\ Missed
          /\ call.op = "install"
          /\ n \notin alive
          /\ alive' = alive \cup {n}
          /\ \E k \in {call.key, Null} :
                /\ key' = [key EXCEPT ![n] = k]
                /\ latest' = IF k = Null THEN latest ELSE k
          /\ val' = Stored(n)
          /\ next' = [next EXCEPT ![n] = ptrs[h]]
          /\ prev' = PrevLinked(n)
          /\ ptrs' = [ptrs EXCEPT ![h] = n]
          /\ chain' = [chain EXCEPT ![h] = <<n>> \o @]
          /\ Return
          /\ UNCHANGED <<open, leaked, lost, ret, called>>

\* mmp_htab_delete of nothing, and mmp_htab_install when xmalloc fails
Nothing == /\ Missed
           /\ call.op \in {"install", "delete"}
           /\ Return
           /\ UNCHANGED <<table, heap, ret, called>>

\* xfree: the element's memory is no longer the table's to read.
Freed(n, nextNow, prevNow) ==
    /\ alive' = alive \ {n}
    /\ next' = [nextNow EXCEPT ![n] = Junk] /\ prev' = [prevNow EXCEPT ![n] = Junk]
    /\ key' = [key EXCEPT ![n] = Junk] /\ val' = [val EXCEPT ![n] = Junk]

PlaceOf(n) == CHOOSE i \in DOMAIN chain[h] : chain[h][i] = n

\* The bucket of the first element becomes what is before it, nothing, and
\* those after it are not reached any more.
First(n) == ptrs[h] = n
WithoutFirst == /\ chain' = [chain EXCEPT ![h] = << >>]
                /\ leaked' = leaked \cup (ToSet(chain[h]) \ {np})
                /\ latest' = Null
Without(n) == /\ chain' = [chain EXCEPT ![h] = RemoveAt(@, PlaceOf(n))]
              /\ UNCHANGED <<leaked, latest>>

Unlink == /\ Found
          /\ call.op = "delete"
          /\ Freed(np, IF prev[np] # Null
                       THEN [next EXCEPT ![prev[np]] = next[np]] ELSE next,
                       IF next[np] # Null
                       THEN [prev EXCEPT ![next[np]] = prev[np]] ELSE prev)
          /\ ptrs' = [ptrs EXCEPT ![h] = IF @ = np THEN prev[np] ELSE @]
          /\ lost' = lost \cup {"key"}
          /\ IF First(np) THEN WithoutFirst ELSE Without(np)
          /\ Return
          /\ UNCHANGED <<open, ret, called>>

(***************************************************************************)
(* mmp_htab_destroy and mmp_htab_destroy_with_data: h counts the buckets.  *)
(***************************************************************************)
DestroyOps == {"destroy", "destroyData"}
Destroying == call.op \in DestroyOps

Destroy(how) == /\ Idle
                /\ call' = Call(how, Null, Null, 0, Null)
                /\ latest' = Null
                /\ UNCHANGED <<open, ptrs, next, prev, chain, leaked, heap, ret, called>>

NextBucket == /\ Destroying
              /\ np = Null /\ h < Size
              /\ call' = [call EXCEPT !.h = h + 1, !.np = ptrs[h]]
              /\ UNCHANGED <<table, heap, ret, called>>

\* bug: the last element of a chain is forgotten
CalledButLast == IF next[np] = Null THEN called ELSE Append(called, np)

Called == Append(called, np)

FreeOne == /\ Destroying
           /\ np # Null
           /\ IF call.op = "destroyData"
              THEN called' = Called /\ UNCHANGED lost
              ELSE lost' = lost \cup {"key"} /\ UNCHANGED called
           /\ Freed(np, next, prev)
           /\ call' = [call EXCEPT !.np = next[np]]
           /\ UNCHANGED <<open, ptrs, history, ret>>

DestroyEnds == /\ Destroying
               /\ np = Null /\ h = Size
               /\ open' = FALSE
               /\ lost' = lost \cup (IF call.op = "destroy" THEN {"vector"} ELSE {})
               /\ ptrs' = NoPointers /\ chain' = NoElements
               /\ called' = << >>
               /\ Return
               /\ UNCHANGED <<next, prev, leaked, latest, key, val, alive, ret>>

Next == \/ Create
        \/ \E k \in Key : \/ \E v \in Val : Install(k, v)
                          \/ Delete(k)
                          \/ Lookup(k)
                          \/ \E len \in Lens : LookupNz(k, len)
        \/ \E how \in DestroyOps : Destroy(how)
        \/ Dies \/ SearchNext \/ Answer \/ Replace \/ Nothing \/ Unlink
        \/ \E n \in Node : Add(n)
        \/ NextBucket \/ FreeOne \/ DestroyEnds

Spec == Init /\ [][Next]_vars
-----------------------------------------------------------------------------
\* Types, and the elements allocated have all their fields written.
TypeOK == /\ open \in BOOLEAN
          /\ ptrs \in [Buckets -> Node \cup {Null}]
          /\ next \in [Node -> Node \cup {Null, Junk}]
          /\ prev \in [Node -> Node \cup {Null, Junk}]
          /\ key \in [Node -> Key \cup {Null, Junk}]
          /\ val \in [Node -> Val \cup {Junk}]
          /\ \A n \in alive : Junk \notin {next[n], prev[n], key[n], val[n]}
          /\ alive \subseteq Node /\ lost \subseteq {"key", "vector"}
          /\ call \in [op : {"none", "wild"} \cup SearchOps \cup DestroyOps,
                     key : Key \cup {Null}, val : Val \cup {Null},
                     h : 0..Size, np : Node \cup {Null}]
          /\ ret \in Val \cup {Null}
          /\ called \in Seq(Node)
          /\ chain \in [Buckets -> Seq(Node)]
          /\ leaked \subseteq Node /\ latest \in Key \cup {Null}

(***************************************************************************)
(* The pointers run through the elements of each bucket, both ways; these  *)
(* elements, each in one place, and those that the deletion of a first     *)
(* element cut off are the ones allocated; and a key has one, as every     *)
(* install finds the one there is.  The loop that destroys the table frees *)
(* the elements it has passed and is left out.                             *)
(***************************************************************************)
NextOf(b, i) == IF i < Len(chain[b]) THEN chain[b][i + 1] ELSE Null
PrevOf(b, i) == IF i > 1 THEN chain[b][i - 1] ELSE Null
Elements == UNION {ToSet(chain[b]) : b \in Buckets}
Kept == alive \ leaked

Linked ==
    /\ TypeOK
    /\ leaked \subseteq alive
    /\ ~Destroying =>
          /\ \A b \in Buckets :
                /\ ptrs[b] = NextOf(b, 0)
                /\ \A i \in DOMAIN chain[b] :
                      /\ next[chain[b][i]] = NextOf(b, i)
                      /\ prev[chain[b][i]] = PrevOf(b, i)
          /\ Kept = Elements
          /\ \A m, n \in Elements : key[m] = key[n] => m = n \/ key[m] = Null
    /\ \A b, c \in Buckets :
          \A i \in DOMAIN chain[b], j \in DOMAIN chain[c] :
             chain[b][i] = chain[c][j] => b = c /\ i = j

\* The entries, as a function from the keys to the values.
EntryOf(k) == CHOOSE n \in Elements : key[n] = k
Entries == IF Destroying THEN [k \in {} |-> Null]
           ELSE [k \in {key[n] : n \in Elements} \ {Null} |-> val[EntryOf(k)]]

T == INSTANCE Table WITH open <- open /\ ~Destroying, map <- Entries

(***************************************************************************)
(* Whatever the calls, the table holds what was installed and not deleted  *)
(* since it was created or last lost all its entries, which happens when   *)
(* the key added last is deleted; a lookup returns the value of its key    *)
(* or, given a length, NULL.                                               *)
(***************************************************************************)
IsTable == T!Spec

Returning == Searching /\ call' = NoCall

\* Each call does, on its own key and value, what the table promises; without
\* memory an installation of a new key does nothing.
NoEntry == call.key \notin DOMAIN Entries /\ UNCHANGED <<Entries, latest>>
CallsAnswer ==
    [][Returning =>
         CASE call.op = "install" -> T!Install(call.key, call.val) \/ NoEntry
           [] call.op = "delete"  -> T!Delete(call.key) \/ NoEntry
           [] call.op = "lookup"  -> T!Lookup(call.key)
           [] call.op = "partial" -> T!LookupNz(call.key)]_vars

\* Element m comes before n, where the chains are run through one after the other.
Precedes(m, n) == \E b, c \in Buckets :
                     \E i \in DOMAIN chain[b], j \in DOMAIN chain[c] :
                        chain[b][i] = m /\ chain[c][j] = n /\ (b < c \/ (b = c /\ i < j))

\* mmp_htab_destroy_with_data calls datadel once for each value, in this order.
DataDeleted == [][call.op = "destroyData" /\ call' = NoCall
                    => /\ ToSet(called) = Elements
                       /\ \A i, j \in DOMAIN called :
                             i < j => Precedes(called[i], called[j])]_vars
-----------------------------------------------------------------------------
(***************************************************************************)
(* What the documentation says and the code does not do.                   *)
(***************************************************************************)
\* mmp_htab.h:76 "delete an entry": one.
DeletesOne == [][Unlink => DOMAIN Entries' = DOMAIN Entries \ {call.key}]_vars

\* mmp_htab.h:64 "lookup for a partly-defined key": found at least when the
\* length given is that of the key.
FindsByLength ==
    [][Returning /\ call.op = "partial" /\ call.key \in DOMAIN Entries
         => ret' = Entries[call.key]]_vars

\* mmp_htab.h:60 "hash the key": an element is in the bucket its key hashes to.
InBucketOfKey == \A b \in Buckets : \A n \in ToSet(chain[b]) :
                    ~Destroying => b = Hash(key[n], Len(Digest[key[n]]))

\* mmp_htab.h:54 "destroy an hashtable": its blocks are given back.
Reclaims == ~open => lost \subseteq {"key"} /\ leaked = {}

\* mmp_htab.h:72 "install an entry": one that was installed can be looked up.
NeverDies == call.op # "wild"
=============================================================================
