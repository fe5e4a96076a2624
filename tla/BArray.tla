------------------------------- MODULE BArray -------------------------------
(***************************************************************************)
(* src/mmp_barray.c: records by index, in pages of a file that are mapped  *)
(* when they are used and unmapped when too many are.  One process uses    *)
(* the store; it may die at any step, and opens the file again.            *)
(*                                                                         *)
(* Every store into the file and every iteration of a search loop is a     *)
(* step.  A record is its present bit and its index; its payload is        *)
(* written with the index and adds nothing to what can go wrong.  The      *)
(* dirty flags are written and never read, and are left out.               *)
(***************************************************************************)
EXTENDS Integers, SequencesExt

CONSTANTS
    Idx,                \* the indices the client uses
    IdxMod,             \* 2^31 in the code: the idx bit field of a record
    CountMod,           \* 2^15 in the code: the n_data bit field of a page
    RecsPerPage,
    MaxCache,           \* max_cache_entries
    MaxPages            \* bound on the growth of the file

Invalid == 2 * IdxMod - 1               \* UINT_MAX
ASSUME IdxAssumption == IdxMod \in Nat \ {0} /\ Idx \subseteq 0..(Invalid - 1)
ASSUME SizeAssumption == /\ {CountMod, RecsPerPage, MaxCache} \subseteq Nat \ {0}
                         /\ MaxPages \in Nat

Slots == 0..(RecsPerPage - 1)

VARIABLES open,         \* the process holds a store
          file,         \* the pages of the file, from 0: slot -> record
          pages,        \* the pages of the store, from 0
          cache,        \* map_cache[0..map_cache_n-1], in order
          pc, op, arg,  \* the call under way and its index
          page_n,       \* its page, once it is found
          beg, end,     \* the bounds of its binary search
          ans,          \* the answer of a search or a deletion, until the next call
          holed,        \* history: a file was opened that had holes
          astray        \* history: an index was to go where it has no place

store == <<open, file, pages, cache>>
call == <<pc, op, arg, page_n, beg, end>>
history == <<holed, astray>>
vars == <<store, call, ans, history>>

\* Nothing has happened yet that the order of the records does not survive.
Sound == ~holed /\ ~astray

NoAnswer == [idx |-> Invalid, found |-> FALSE]
Answer(i, found) == [idx |-> i, found |-> found]

BlankPage == [j \in Slots |-> [present |-> FALSE, idx |-> 0]]
EmptyPage == [n_data |-> 0, start |-> Invalid, end |-> Invalid, mapped |-> FALSE]

n_pages == Cardinality(DOMAIN pages)
LastPage == pages[n_pages - 1]
Idle == open /\ pc = "idle"

\* The call ends, and its locals with it.
Return == /\ pc' = "idle" /\ op' = "none" /\ arg' = Invalid
          /\ page_n' = 0 /\ beg' = 0 /\ end' = 0

Init == /\ open = FALSE
        /\ file = [k \in {} |-> BlankPage]
        /\ pages = [k \in {} |-> EmptyPage]
        /\ cache = << >>
        /\ pc = "idle" /\ op = "none" /\ arg = Invalid
        /\ page_n = 0 /\ beg = 0 /\ end = 0
        /\ ans = NoAnswer
        /\ holed = FALSE /\ astray = FALSE

(***************************************************************************)
(* mmp_barray_create on what the file holds: a page counts the records     *)
(* that are present, and takes its bounds from the first and the last.     *)
(***************************************************************************)
\* bug: the last record is taken for the first
ReadPageFirst(page) ==
    LET present == {j \in Slots : page[j].present}
    IN  IF present = {} THEN EmptyPage
        ELSE [n_data |-> Cardinality(present) % CountMod,
              start  |-> page[Min(present)].idx,
              end    |-> page[Min(present)].idx,
              mapped |-> FALSE]

\* bug: the last record is not counted
ReadPageFewer(page) ==
    LET present == {j \in Slots : page[j].present}
    IN  IF present = {} THEN EmptyPage
        ELSE [n_data |-> (Cardinality(present) - 1) % CountMod,
              start  |-> page[Min(present)].idx,
              end    |-> page[Max(present)].idx,
              mapped |-> FALSE]

ReadPage(page) ==
    LET present == {j \in Slots : page[j].present}
    IN  IF present = {} THEN EmptyPage
        ELSE [n_data |-> Cardinality(present) % CountMod,
              start  |-> page[Min(present)].idx,
              end    |-> page[Max(present)].idx,
              mapped |-> FALSE]

\* Deletions left a hole before a record of a page, or a page with no record
\* before another page.
HasHoles == \E k \in DOMAIN file :
               \/ \E j, l \in Slots :
                     j < l /\ ~file[k][j].present /\ file[k][l].present
               \/ /\ k + 1 \in DOMAIN file
                  /\ \A j \in Slots : ~file[k][j].present

Open == /\ ~open
        /\ pc = "idle"
        /\ open' = TRUE
        /\ pages' = [k \in DOMAIN file |-> ReadPage(file[k])]
        /\ holed' = (holed \/ HasHoles)
        /\ UNCHANGED <<file, cache, call, ans, astray>>

\* A creation that fails undoes itself, except that while pages are being read
\* it frees whatever pointers the unset rest of the page vector holds.
OpenFails == /\ ~open
             /\ pc = "idle"
             /\ pc' \in IF DOMAIN file = {} THEN {"idle"} ELSE {"idle", "wild"}
             /\ UNCHANGED <<store, op, arg, page_n, beg, end, ans, history>>

\* mmp_barray_destroy, and the death of the process: mapped stores stay.
Close == /\ Idle
         /\ open' = FALSE
         /\ pages' = [k \in {} |-> EmptyPage]
         /\ cache' = << >>
         /\ UNCHANGED <<file, call, ans, history>>

Crash == /\ pc # "idle"
         /\ open' = FALSE
         /\ pages' = [k \in {} |-> EmptyPage]
         /\ cache' = << >>
         /\ Return
         /\ UNCHANGED <<file, ans, history>>

(***************************************************************************)
(* map_page: at the limit, the entry with the fewest hits is unmapped; the *)
(* page is then mapped and entered with one hit.  Called only for a page   *)
(* that is not mapped.  A failing mmap is not noticed (mmp_mmap never      *)
(* returns MAP_FAILED), and the process dies of it: see Crash.             *)
(***************************************************************************)
LessHit == CHOOSE c \in DOMAIN cache :
              /\ \A e \in DOMAIN cache : cache[c].hits <= cache[e].hits
              /\ \A e \in 1..(c - 1) : cache[e].hits > cache[c].hits

Evicts == Len(cache) >= MaxCache

\* bug: the entry of the page that is unmapped stays in the cache
KeptAll == cache

Kept == IF Evicts THEN RemoveAt(cache, LessHit) ELSE cache

MapPage(k) ==
    /\ cache' = Append(Kept, [page_n |-> k, hits |-> 1])
    /\ pages' = [n \in DOMAIN pages |->
                   [pages[n] EXCEPT !.mapped =
                       \/ n = k
                       \/ @ /\ ~(Evicts /\ n = cache[LessHit].page_n)]]

MapIfNeeded(k) == IF pages[k].mapped THEN UNCHANGED <<pages, cache>>
                                     ELSE MapPage(k)

(***************************************************************************)
(* mmp_barray_insert: a new page if there is none or the last is full; the *)
(* index must lie above the page's; then the record, its present bit last. *)
(***************************************************************************)
\* What begins a page is compared with no page before; and the bit field of a
\* record cuts off an index that is too wide for it.
StartsPage == n_pages > 0 => LastPage.n_data >= RecsPerPage \/ LastPage.end = Invalid
Above(i) == \A k \in DOMAIN pages : pages[k].end # Invalid => i > pages[k].end
HasPlace(i) == i < IdxMod /\ (StartsPage => Above(i))

Insert(i) == /\ Idle
             /\ op' = "insert" /\ arg' = i
             /\ pc' = IF n_pages = 0 THEN "grow"
                      ELSE IF LastPage.n_data >= RecsPerPage THEN "grow"
                      ELSE "check"
             /\ ans' = NoAnswer
             /\ astray' = (astray \/ ~HasPlace(i))
             /\ UNCHANGED <<store, page_n, beg, end, holed>>

\* The pages of the file, or of the store, and a new one after them.
Extended(ps, page) == [k \in 0..n_pages |-> IF k = n_pages THEN page ELSE ps[k]]

Grow == /\ pc = "grow"
        /\ n_pages < MaxPages
        /\ file' = Extended(file, BlankPage)
        /\ pages' = Extended(pages, EmptyPage)
        /\ pc' = "check"
        /\ UNCHANGED <<open, cache, op, arg, page_n, beg, end, ans, history>>

\* insert_new_page fails on xmalloc, xrealloc or pwrite, and undoes itself.
GrowFails == /\ pc = "grow"
             /\ Return
             /\ UNCHANGED <<store, ans, history>>

Accepts(page) == arg > page.end \/ page.end = Invalid

Reject == /\ pc = "check"
          /\ ~Accepts(LastPage)
          /\ Return
          /\ UNCHANGED <<store, ans, history>>

Accept == /\ pc = "check"
          /\ Accepts(LastPage)
          /\ MapIfNeeded(n_pages - 1)
          /\ pc' = "record"
          /\ UNCHANGED <<open, file, op, arg, page_n, beg, end, ans, history>>

WriteRecord == /\ pc = "record"
               /\ file' = [file EXCEPT ![n_pages - 1][LastPage.n_data].idx =
                                           arg % IdxMod]
               /\ pc' = "present"
               /\ UNCHANGED <<open, pages, cache, op, arg, page_n, beg, end, ans, history>>

WritePresent ==
    /\ pc = "present"
    /\ file' = [file EXCEPT ![n_pages - 1][LastPage.n_data].present = TRUE]
    /\ pages' = [pages EXCEPT
                   ![n_pages - 1].end = arg,
                   ![n_pages - 1].start = IF @ = Invalid THEN arg ELSE @,
                   ![n_pages - 1].n_data = (@ + 1) % CountMod]
    /\ Return
    /\ UNCHANGED <<open, cache, ans, history>>

(***************************************************************************)
(* mmp_barray_search and mmp_barray_delete.  search_page is a binary       *)
(* search whose upper bound starts one past the last page.                 *)
(***************************************************************************)
Look(how, i) == /\ Idle
                /\ op' = how /\ arg' = i
                /\ beg' = 0 /\ end' = n_pages
                /\ pc' = IF n_pages = 0 THEN "absent" ELSE "page"
                /\ ans' = NoAnswer
                /\ UNCHANGED <<store, page_n, history>>

Mid == (end + beg) \div 2
Below(n) == IF n = 0 THEN Invalid ELSE n - 1        \* unsigned n - 1

\* bug: the underflow of mid-1 is forgotten
PageLoopUnchecked == beg <= end

PageLoop == beg <= end /\ end # Invalid

SearchPage ==
    /\ pc = "page"
    /\ PageLoop
    /\ IF Mid \notin DOMAIN pages THEN pc' = "wild" /\ UNCHANGED <<beg, end, page_n>>
       ELSE IF arg < pages[Mid].start
       THEN end' = Below(Mid) /\ UNCHANGED <<pc, beg, page_n>>
       ELSE IF arg > pages[Mid].end
       THEN beg' = Mid + 1 /\ UNCHANGED <<pc, end, page_n>>
       ELSE pc' = "range" /\ page_n' = Mid /\ UNCHANGED <<beg, end>>
    /\ UNCHANGED <<store, op, arg, ans, history>>

PageFound == /\ pc = "page"
             /\ ~PageLoop
             /\ page_n' = beg
             /\ pc' = IF beg \in DOMAIN pages THEN "range" ELSE "wild"
             /\ UNCHANGED <<store, op, arg, beg, end, ans, history>>

\* search_in_page: bounds check, mapping, and the search among n_data slots
InRange(page) == arg <= page.end /\ arg >= page.start

OutOfRange == /\ pc = "range"
              /\ ~InRange(pages[page_n])
              /\ pc' = "absent"
              /\ UNCHANGED <<store, op, arg, page_n, beg, end, ans, history>>

EnterPage == /\ pc = "range"
             /\ InRange(pages[page_n])
             /\ MapIfNeeded(page_n)
             /\ beg' = 0 /\ end' = Below(pages[page_n].n_data)
             /\ pc' = "slot"
             /\ UNCHANGED <<open, file, op, arg, page_n, ans, history>>

\* bug: the middle stays in the upper half
UpperHalfFromMid == Mid

UpperHalf == Mid + 1

SearchSlot ==
    /\ pc = "slot"
    /\ beg # end
    /\ IF Mid \notin Slots THEN pc' = "wild" /\ UNCHANGED <<beg, end>>
       ELSE IF arg < file[page_n][Mid].idx
       THEN end' = Below(Mid) /\ UNCHANGED <<pc, beg>>
       ELSE IF arg > file[page_n][Mid].idx
       THEN beg' = UpperHalf /\ UNCHANGED <<pc, end>>
       ELSE beg' = Mid /\ end' = Mid /\ UNCHANGED pc
    /\ UNCHANGED <<store, op, arg, page_n, ans, history>>

\* bug: a deleted record counts as found
HitDeleted == beg \in Slots /\ file[page_n][beg].idx = arg

\* The record at beg is the one searched for, and it is not deleted.
Hit == beg \in Slots /\ file[page_n][beg].idx = arg /\ file[page_n][beg].present

SlotMiss == /\ pc = "slot"
            /\ beg = end
            /\ ~Hit
            /\ pc' = IF beg \in Slots THEN "absent" ELSE "wild"
            /\ UNCHANGED <<store, op, arg, page_n, beg, end, ans, history>>

Absent == /\ pc = "absent"
          /\ ans' = Answer(arg, FALSE)
          /\ Return
          /\ UNCHANGED <<store, history>>

Found == /\ pc = "slot"
         /\ beg = end
         /\ Hit
         /\ ans' = Answer(arg, TRUE)
         /\ file' = IF op = "delete"
                    THEN [file EXCEPT ![page_n][beg].present = FALSE]
                    ELSE file
         /\ Return
         /\ UNCHANGED <<open, pages, cache, history>>

\* The steps that continue a call.
Continue == \/ Grow \/ GrowFails \/ Reject \/ Accept \/ WriteRecord \/ WritePresent
            \/ SearchPage \/ PageFound \/ OutOfRange \/ EnterPage \/ SearchSlot
            \/ SlotMiss \/ Absent \/ Found

Next == \/ Open \/ OpenFails \/ Close \/ Crash
        \/ \E i \in Idx : Insert(i) \/ Look("search", i) \/ Look("delete", i)
        \/ Continue

Spec == Init /\ [][Next]_vars

\* A call that has begun goes on: the code has no point at which it waits.
FairSpec == Spec /\ WF_vars(Continue)
-----------------------------------------------------------------------------
TypeOK == /\ open \in BOOLEAN
          /\ DOMAIN file = 0..(Cardinality(DOMAIN file) - 1)
          /\ \A k \in DOMAIN file : file[k] \in [Slots -> [present : BOOLEAN,
                                                           idx : 0..(IdxMod - 1)]]
          /\ open => DOMAIN pages = DOMAIN file
          /\ \A k \in DOMAIN pages :
                pages[k] \in [n_data : 0..(CountMod - 1), start : 0..Invalid,
                              end : 0..Invalid, mapped : BOOLEAN]
          /\ cache \in Seq([page_n : DOMAIN pages, hits : Nat])
          /\ pc \in {"idle", "grow", "check", "record", "present", "page", "range",
                     "slot", "absent", "wild"}
          /\ op \in {"none", "insert", "search", "delete"}
          /\ {arg, beg, end} \subseteq 0..Invalid
          /\ page_n \in Nat
          /\ {holed, astray} \subseteq BOOLEAN

(***************************************************************************)
(* The cache lists the pages that are mapped, each once, within the limit; *)
(* and a record is only read or written in a page that is mapped.          *)
(***************************************************************************)
CacheIsMapped ==
    /\ TypeOK
    /\ pc \in {"record", "present"} => LastPage.mapped
    /\ pc = "slot" => pages[page_n].mapped
    /\ Len(cache) <= MaxCache
    /\ \A c, e \in DOMAIN cache : cache[c].page_n = cache[e].page_n => c = e
    /\ {cache[c].page_n : c \in DOMAIN cache} = {k \in DOMAIN pages : pages[k].mapped}

\* As long as the order of the records is sound, a search leaves the page vector
\* or the slots of a page only if its index lies above those of the last page,
\* and otherwise a wild pointer is followed only by a creation that fails.
WildOnlyBeyond == Sound /\ pc = "wild" /\ op # "none" => arg > LastPage.end

(***************************************************************************)
(* The file keeps its records in ascending order of index, page after page *)
(* and slot after slot, and what a page says of itself bounds its records: *)
(* until an index goes astray or a file with holes is opened.              *)
(***************************************************************************)
Place(k, j) == k * RecsPerPage + j
PagesAgree ==
    Sound =>
    /\ \A k, l \in DOMAIN file, i, j \in Slots :
          file[k][i].present /\ file[l][j].present /\ Place(k, i) < Place(l, j)
             => file[k][i].idx < file[l][j].idx
    /\ open => \A k \in DOMAIN file, j \in Slots :
                  file[k][j].present =>
                     /\ j < pages[k].n_data \/ pc = "present"
                     /\ file[k][j].idx \in pages[k].start..pages[k].end

\* The indices of the records in the file.
Stored == UNION {{file[k][j].idx : j \in {l \in Slots : file[k][l].present}} :
                    k \in DOMAIN file}

I == INSTANCE IndexStore WITH stored <- Stored

(***************************************************************************)
(* Inserting adds one record, deleting removes one, nothing else loses or  *)
(* adds any, crashes, reopening and failures included; and a search finds  *)
(* an index just when it is stored: until an index goes astray or a file   *)
(* with holes is opened.                                                   *)
(***************************************************************************)
IsIndexStore == I!Init /\ [][Sound' => [I!Next]_<<Stored, ans>>]_vars

(***************************************************************************)
(* The page unmapped to make room is the one that was mapped first: hits   *)
(* are counted when a page is mapped and at no other time, so that the     *)
(* least hit page is always the oldest (cache_get_less_hit, cache_hit).    *)
(***************************************************************************)
EvictsOldest ==
    [][open' /\ open => \A k \in DOMAIN pages :
          pages[k].mapped /\ ~pages'[k].mapped => k = cache[1].page_n]_vars

\* No step but its deletion takes an index out of the file, until a file with holes
\* is opened: whatever went astray, was cut off or was interrupted.
SurviveUnlessHoled ==
    [][~holed' => \A i \in Stored : i \in Stored' \/ (op = "delete" /\ arg = i)]_vars

\* A record is stored under what the bit field leaves of its index.
StoredAsCut == [][pc = "present" /\ open' => arg % IdxMod \in Stored']_vars

\* While the order is sound, "absent" is only answered of what is not stored.
MissesNone ==
    [][Sound /\ pc = "absent" /\ pc' = "idle" => arg \notin Stored \/ ~open']_vars

\* Every call returns, or the process dies or has left the page vector; but for a
\* search among the slots of a page whose bounds have passed each other.
CallsReturn == []<>(pc \in {"idle", "wild"} \/ (pc = "slot" /\ beg > end))

-----------------------------------------------------------------------------
(***************************************************************************)
(* What the documentation says and the code does not do.                   *)
(***************************************************************************)
\* mmp_barray.h:54 "search the barray for a given index": a search returns.
SearchesReturn == []<>(pc \in {"idle", "wild"})

\* mmp_barray.h:54 "search the barray for a given index", any index.
SearchesInside == pc = "wild" => op = "none"

\* mmp_barray.c:113, the test for pages that were not made: a creation that fails
\* follows no pointer that was never set.
CreateUndoes == pc = "wild" => op # "none"

\* mmp_barray.h:58 "delete the barray data at a given index": the records at
\* the other indices stay, in this session and the next ones.
OthersSurvive ==
    [][\A i \in Stored : i \in Stored' \/ (op = "delete" /\ arg = i)]_vars

\* mmp_barray.h:54 "search the barray for a given index": found if it is there.
SearchFinds == [][pc = "absent" /\ pc' = "idle" => arg \notin Stored \/ ~open']_vars

\* mmp_barray.h:36, "barray index datatype": a record is
\* stored under the index it was inserted with.
InsertStores == [][pc = "present" /\ open' => arg \in Stored']_vars

\* mmp_barray.c:40 "hit count": a call that uses a mapped page is a hit.
HitsCounted ==
    [][pc = "range" /\ pc' = "slot"
         => \A c \in DOMAIN cache : cache[c].page_n = page_n =>
               \E e \in DOMAIN cache' : /\ cache'[e].page_n = page_n
                                        /\ cache'[e].hits > cache[c].hits]_vars
=============================================================================
