# libmmp in TLA+

libmmp is a small C library (`src/src`): containers, files and memory mapping,
threads and their synchronisation, a socket poll loop, strings, dates. This
directory holds TLA+ models of its stateful parts, the TLC configurations that
check them and the proofs that TLAPS checks.

    tlc -config MC_Queue_any.cfg MC_Queue      # a run, listed in PROJECT.json
    tlapm Buffers_proofs.tla                   # the proofs about two modules

`PROJECT.json` maps the definitions that model code to the lines they model, and
lists the runs, the mutants, the hazards and the theorems.

## 1. Inventory

The library has no process of its own: a client calls, and what runs concurrently
are the client's threads and processes. Containers do not lock. Three things are
shared beyond the client's own arguments: the error trace (a static array of the
process), files, and shared memory segments and their names.

| Component | State | Operations | Hard behaviour | What makes it correct |
|---|---|---|---|---|
| **Queue** `mmp_queue` | vector of `max_size` slots, `from`, `n_data` | create, destroy, enqueue, dequeue, first | wrapping, limits, failing allocations | first in, first out; no slot read before it is written; no leak |
| **List** `mmp_list` | elements with `next`, `prev`; `head`, `tail`, `nelems` | add, add sorted, delete, find (three ways), lambda (five ways), swap, sort, destroy | four pointers per update; loops with callbacks that change the list | both directions and the count say the same sequence; each element is owned once |
| **Barray** `mmp_barray` | a file of pages of records; page headers; a cache of mapped pages | create (reads the file), insert, search, delete, destroy | the process dies between stores; holes; narrow bit fields; cache eviction; two binary searches | a set of indices that survives reopening |
| **Htab** `mmp_htab` | vector of chains of elements | create, install, lookup, lookup of part of a key, delete, destroy (two ways) | collisions, deletion in a chain, failing key copy | a map from keys to values |
| **Trace** `mmp_trace` | `m_trace_arr[20]`, `m_trace_num`, static | create (the macro `mmp_setError`), print, reset | called from every thread, without a lock | a log of the errors; never past the array |
| **Sync, threads** `mmp_sync`, `mmp_thread` | POSIX or Win32 handles | semaphore, mutex, event: create, close, wait, release; thread: create, join, exit | interruption by signals, double signals, a thread that locks twice, a creation whose failure is not told | exclusion; no call on a closed object; whoever need not wait returns |
| **Socket schedulers** `mmp_sock_scheduler_*` | a vector of sockets (select); the kernel's interest and ready lists, an array of events (epoll) | create, destroy, add, delete, loop | a callback adds and deletes sockets while the loop runs; a pool smaller than what is ready; numbers that come back for other sockets | what is watched is what was added; each socket with data is served |
| **Vect, Array** `mmp_gen_*` | `data`, `n_data`, `n_alloc` | create, fill, reserve, resize, push, pop, erase, insert, destroy | growth by a rounded size, the last element, failing allocations | a sequence, within its block |
| **Prioq** `mmp_prioq` | a binary heap in an array of its own | create, insert, pop, destroy (two ways) | sifting down at a node with one child or none; ties | a pop gives an element of highest priority |
| **Btree** `mmp_btree` | file of pages, their parents and offsets | create, insert, search, destroy | a split of the root and of a page with a full parent, and one that fails half way | an ordered set of keys |
| **Shm** `mmp_shm` | a named segment, its length, each process's mapping | attach, detach, getdata, putdata | several processes; every detach, and every attach that fails, removes the name; an attach sets the length | who has the name attached shares its segment |
| **Date** `mmp_date` | the environment variable TZ | write and parse three formats, `xstrptime` (for Windows), get and set the zone | fields given in two parts, ranges, formats that begin alike | what is written is read back |
| **Stack, 2tree, Funclist, Tap, Dir** | small private structures | push, pop; traverse; register; report; list | destruction, callbacks | a sequence, a tree, a list |
| **Strings, memory, mmap, files, sockets, dl, errors, system, getopt** | none | pure functions, or one system call each | - | not state machines |

Interactions. Almost every function reports failures to Trace through
`mmp_setError`, so that every thread of a client writes it. Tap and Dir keep a List;
the scheduler over select keeps a Vect of sockets, and both call back
into the client; Barray and Btree use Mmap and Files, Shm uses the system's shared
memory. All memory comes from `xmalloc`, which may fail.

## 2. Plan

Written, in this order: Queue, List, Barray, Htab, Trace; then Sync and Threads, Vect and
the Scheduler over it, Prioq, Btree, Shm, Date. What could follow:

1. A client that takes the mutex of `Sync` around its calls of `Trace`.
2. The branches for Windows of Sync and Shm.

## 3. Modules

Every model is of one instance of the data structure, and a client that calls any
function in any order with any of a few arguments. A call that runs
straight to its end is one action; one with a loop, or that can be interrupted,
is an action that starts it, one per iteration or store, and one that ends it, with the
locals in variables. `Null` is NULL and `Junk` what memory holds that was
not written or was given back. Calls refused by a parameter check change nothing
and are not actions.

| Modules | Code | Correspondence |
|---|---|---|
| `Fifo`, `Queue`, `MC_Queue`, `Buffers_proofs` | mmp_queue | `Queue` has the fields of `t_mmp_queue_s` and an action per function and outcome; `heap` counts the blocks allocated, `res` is what the last call gave. `Fifo` is the promise: a bounded sequence. |
| `DataList`, `List`, `MC_List`, `List_proofs` | mmp_list | pointers as functions from elements; `order` is history, the elements in the order they should have. `DataList` is the promise: a sequence of data, and where each call may insert, remove, exchange. |
| `IndexStore`, `BArray`, `MC_BArray`, `BArray_proofs` | mmp_barray | `file` survives `Crash`, which may follow any step of a call; `pages` and `cache` do not. Stores into the mapping are separate steps in program order (`WriteRecord`, `WritePresent`). `holed` and `astray` are history. `IndexStore` is the promise: a set of indices. |
| `Table`, `Htab`, `MC_Htab`, `Htab_proofs` | mmp_htab | a key is known by its hash over each prefix (`Digest`), so that collisions are chosen in the configuration; `chain`, `leaked` and `latest` are history: the elements each bucket should have, those that a deletion has cut off, the key added last. `Table` is the promise: a map. |
| `Threads`, `Sync`, `MC_Sync`, `Sharing_proofs` | mmp_thread, mmp_sync | `Threads` has what main keeps of each thread and what the thread is; `Sync` extends it. A function is entered (`Enter`, which looks at the handle) and finished (`SemLock`, `MtxRelease`, ...), with other threads between. `inside` is history: who was told it has the mutex. |
| `Vect`, `VectCalls`, `Vector`, `MC_Vect`, `Vect_proofs` | mmp_gen_vect | `Vect` has an operator per function, from a vector to a vector; a block is a function from the indices it holds, and a store outside makes the vector `Broken`. `VectCalls` is a client that calls them, in any order and with any sizes; `short` is history. `Vector` is the promise: a sequence. |
| `Scheduler`, `MC_Scheduler`, `Vect_proofs` | mmp_sock_scheduler_epoll, _select | extends `Vect`, whose `VectPushBack` and `VectErase` it applies to `s_fds`. The kernel's side of epoll (interest, ready list, edge and level triggers) is external. A callback (`Callback`) may drop its socket, or another, or accept one. |
| `Prioq`, `MC_Prioq`, `Trees_proofs` | mmp_prioq | the array as a function from its slots; `SortLast` and `SortRoot` are an iteration each. A slot past the heap reads as any of `JunkPrio`. |
| `Btree`, `MC_Btree`, `Trees_proofs` | mmp_btree | `pg` has the pages by their index in `pgoff`; a call is a step per page. `lossy` and `below` are history: a page that was linked is linked no more, and the keys that were below it. |
| `Shm`, `MC_Shm`, `Sharing_proofs` | mmp_shm | each process goes through the system calls of an attach and a detach one by one; a length is a `size_t`, and `ftruncate` refuses what is negative as the signed number it takes (`Truncate`). An access has any offset and count, and their sum is taken modulo `SizeMax` (`Access`). `cut`, `unlinks` and `since` are history. |
| `Date`, `Dates`, `MC_Dates`, `Dates_proofs` | mmp_date | `Date` has what a conversion of `xstrptime` does: an operator per group of conversions. A text is a sequence of digits, signs and names, each of which the code compares as a whole. `Dates` has the loop over a format, a conversion to a step (`ConvertNext`), the calls `xstrptime` makes of itself (`Recurse`, `Recursed`), and the functions around it. |
| `TraceLog`, `Trace`, `MC_Trace`, `Buffers_proofs` | mmp_trace | several threads; each of the stores, and the load and the store of the increment, is a step; the count a step uses is the last it read or the present one, since the language allows either. `met` and `raced` are history. `TraceLog` is the promise: a bounded log. |

Left out of these models: payloads, wording of messages, `mmp_trace_getInternalStdout`,
Barray's `dirty` flags (written, never read), the copying of stored records into the
client's memory, and the validity of the data pointer that a search of Barray hands out.
Stores into a mapping are taken to reach the file when they are made: a crash of
the process, not of the machine. A hash table of size 0, whose hash divides by
zero, is excluded by `SizeAssumption`. Fields of a record of the trace other than
the file name and the line are left out: their stores lie between or after these.
Of Sync, the check of the handle is the guard of `Enter`; closing is left to main, after it
has joined the threads, which is what the headers ask for by not saying more.
Of the schedulers, an `epoll_ctl` that fails and a poll that is interrupted and repeated
change nothing and are left out, and `millisecs` is not modelled: a poll that gives nothing has timed out.
Of Shm, only the POSIX branch is modelled; the segment's contents are not.
Of Btree, a value moves with its key, and the file's contents are those of the mappings.
Of Date, `%s` is left out. `%G` can run past the end of the text, after which a further conversion
reads outside it (`pc = "wild"`); `%p` is lost when
it comes before `%I`; and the digits of `%z` are checked and dropped: the model says
so, and `InRange` and `PartsCombine` state what holds besides. A year may come out as low as -1999, counted from 1900,
where a century is read after a year before 1900: the remainder of a negative number is negative in C.

### What properties leave open

The clients of the runs may do anything the functions accept. Where the code then goes
wrong, a history variable records that it has, and the property says what holds until
then, or outside of it; the failure itself is a property of its own, in the table of
violated properties below, or is told here.

| History | Becomes true, or grows, when | What still holds |
|---|---|---|
| `BArray!astray` | an insertion is called with an index too wide for its field (mmp_barray.c:24), or with one that would be the first of its page and is not above all earlier ones (:310) | no record is lost (`SurviveUnlessHoled`), cache and mappings agree (`CacheIsMapped`) |
| `BArray!holed` | a file is opened in which deletions left holes (:170) | `CacheIsMapped` |
| `Btree!below` | a split or an insertion drops the link to a page: the keys below it | every other key is found, and none is taken twice (`FindsExactly`) |
| `Htab!latest` | a key is added: it is the first of the one bucket that is used, and its deletion empties the bucket (mmp_htab.c:157) | `IsTable` says that this deletion, and no other, takes other keys along |
| `Htab!leaked` | such a deletion: the elements it has cut off | all other elements are in their chains (`Linked`) |
| `Trace!raced` | a creation begins while another is under way (mmp_trace.c:40) | calls that are not met still log, empty and print exactly |
| `Trace!met` | per call: a creation or a reset is under way at the same time | `IsLog` and `PrintsAll` speak of the calls outside it, also after others have raced |
| `VectCalls!short` | `nearSize` computes fewer elements than it was asked for (mmp_gen_vect.h:119); the next store writes past the block | nothing is said; vectors of up to 63 elements never come to it (`SmallNeverShort`) |
| `Shm!cut` | an attach makes a segment shorter (mmp_shm.c:75) | a segment outside it is as long as each process believes |
| `Shm!since`, `unlinks` | the removals of the name, all and before a process's opening | `Together` says who shares a segment by them |

`Sound` of BArray is that neither of its two has happened. A constant is left that restricts a client:
`Scheduler!DropsOthers`, TRUE in the run, lets a callback also drop sockets other than its own.

Some faults end the process. A search beyond the last index leaves the page vector (`pc = "wild"`),
a failing creation of a Barray may follow pointers that were never set, and a
failing `xstrdup` leaves an element without a key on which a later search dies
(`Dies`). `WildOnlyBeyond` says that no other search leaves the
vector, `IsTable` and `Linked` that the table is right until it dies.
After a wild access the model lets the process do nothing but die. In the same way
`HeapHolds` and `PopsHighest` hold until a slot past the heap is followed or moved into it.
An access to a segment whose offset and count wrap (mmp_shm.c:107) passes the check and
may touch anything: `Together` says nothing of it. A search of Barray in a page of four records or more
whose bounds have passed each other does not end, and `CallsReturn` leaves it out (`SearchesReturn` does not).

## 4. Runs

| Run | Shows | Instance, and why it is enough |
|---|---|---|
| `queue_any` | no leak, nothing unwritten handed out, and first in, first out except after an enqueue whose slot is computed wrong | sizes 0 to 4, two elements: every wrap of every window, full and empty |
| `list` | pointers, ownership, the refinement of `DataList`; what find and sorted find return (`FindIsExact`), what insert and sort make of an order (`Ordered`), what lambda and delete visit (`Visits`); every call returns | four elements: a head, two in the middle, a tail; three data, two of equal key |
| `barray` | until an index goes astray or a file with holes is opened the store is a set of indices, across crashes, pages are in order and only searches beyond the last index leave the vector; until a file with holes is opened no record is lost; in any order of the records cache and mappings agree, and what is touched is mapped; every call returns or the process dies, but for a search whose bounds have passed each other | six indices, of which the last is too wide for its field; two pages of four records, the fewest with which a search does not end; cache of one: the search over pages branches and the cache evicts |
| `htab` | the table is a map, of which deleting the key added last empties the bucket; links, ownership, one entry per key; the value of each entry is handed to `datadel` once, in order | three keys and four elements: first, middle, last, and one more after those that were cut off |
| `trace` | three threads without a lock: the array is left only after two creations at a time; what a creation, reset or print does that met no creation or reset is exact | two creations that interleave at every store while a third thread prints or resets; two messages, an array of two; the count two past the array at most |
| `sync` | one owner of the mutex, by what its callers were told; no call on a closed object; a call that nothing makes wait returns | main and two threads: one waits while two others act; a semaphore of at most 2 reaches its limit |
| `vect` | any client, until a size is computed too small: no store past the block; a sequence | up to six elements in blocks of six bytes of which each element has one: sizes that divide the block and that do not, full, empty, the last |
| `scheduler` | the sockets held are those watched, each once; events are of sockets watched or dropped in the same round; with epoll each socket with data is served | a listener and two clients, a pool of two: all three ready is more than the pool |
| `prioq` | the array is a heap between calls; a pop gives a highest priority | five elements, two of equal priority, junk below and above all: two levels of children, nodes with one child and with none |
| `btree` | pages ascend; searches and insertions answer exactly but for keys that were below a page when it was lost; calls return | seven keys in every order, three records to a page, eight pages: a split of the root, of a leaf, of a page with others below it and of one whose parent is full, each failing at each allocation |
| `shm` | who shares a segment with whom, and which accesses may leave it | three processes, two lengths and a third that `ftruncate` refuses; every offset and count below `SizeMax`, sums that wrap included; two removals of the name |
| `dates` | dates are read back; fields in range; the parts of a year combine | both ends of the two-digit window, of a century, a year and a day; all short texts of limiting digits and signs for each conversion; a format that calls `xstrptime` again for each that does |

Some properties state what the repository's documents, comments and names say and the code
does not do. They are defined in their modules, and one run of TLC shows each violated: the
configuration of the run with the property in the place of its own and the change given, if any. Two have a
configuration of their own, `MC_List_sorted.cfg` and `MC_BArray_hang.cfg`. (`MC_BArray_pages.cfg` is the other way:
Barray with three pages of two records and a cache of two, in which every property passes, those included
that the table of proofs names and the run leaves out: `EvictsOldest`, `StoredAsCut` and `MissesNone`.)

| Property | Configuration | What TLC finds |
|---|---|---|
| `Queue!IsFifo` | `MC_Queue_any`, `Sizes <- Size3` | a queue of three slots that has wrapped hands out elements in another order: enqueue writes slot `max_size-n_data-1`, not `from+n_data-max_size` (mmp_queue.c:53; mmp_queue.h:20 "FIFO queue") |
| `List!FindsInSorted` | `MC_List_sorted` | the sorted search gives up in the order opposite to that which `mmp_list_sort_by_data` makes (mmp_list.c:173; mmp_list.h:90) |
| `List!DeleteReturnsData` | as `MC_List_sorted` | deleting an element returns NULL and not its data (mmp_list.c:126; mmp_list.h:71) |
| `BArray!SearchesReturn` | `MC_BArray_hang` | with four records to a page the bounds of the search in a page pass each other and the loop does not end (mmp_barray.c:362); with three every call returns |
| `BArray!SearchesInside` | `MC_BArray` | the search over pages reads one past the vector (mmp_barray.c:335) |
| `BArray!OthersSurvive` | `MC_BArray` | after a deletion and a reopening an insertion overwrites a record (mmp_barray.c:170); a counter that wraps does the same with no deletion, and so does even `SurviveUnlessHoled` fail with `CountMod = 3` (mmp_barray.c:32) |
| `BArray!InsertStores` | `MC_BArray` | an index with its top bit set is stored under another index (mmp_barray.c:24) |
| `BArray!SearchFinds` | `MC_BArray` | an index out of order on a new page is accepted and then not found (mmp_barray.c:310) |
| `BArray!HitsCounted` | `MC_BArray` | the use of a mapped page is not counted as a hit (mmp_barray.c:312); the page evicted is then the oldest, which `EvictsOldest` says and holds |
| `BArray!CreateUndoes` | `MC_BArray` | a failing open follows page pointers that were never set (mmp_barray.c:158) |
| `Htab!DeletesOne` | `MC_Htab` | deleting the key added last loses the other keys of its bucket (mmp_htab.c:157; mmp_htab.h:76) |
| `Htab!FindsByLength` | `MC_Htab`, `Lens <- MCWhole` | a lookup by length misses the key of that length (mmp_htab.c:117) |
| `Htab!InBucketOfKey` | `MC_Htab` | `UINT_MAX`, passed for an int, is -1, and every entry is in bucket 0 (mmp_htab.c:131) |
| `Htab!Reclaims` | `MC_Htab` | a destroyed table leaves its vector allocated (mmp_htab.c:52) |
| `Htab!NeverDies` | `MC_Htab` | an entry without a key is dereferenced (mmp_htab.c:132) |
| `Scheduler!ServesAny` | `MC_Scheduler`, `Impls = {"select"}` | select is told to watch descriptors below a number that stays 0 (mmp_sock_scheduler_select.c:95) |
| `Sync!EventIsBinary` | `MC_Sync` | an event signalled twice counts two (mmp_sync.c:222; mmp_sync.h:27 "manually (re)settable binary semaphore") |
| `Prioq!StaysTame` | `MC_Prioq` | the freed node, or a slot never written, is read as a child and moved into the heap (mmp_prioq.c:127) |
| `Btree!FindsInserted` | `MC_Btree` | a key that was inserted is not found: a split drops the last page of the one it splits, and an insertion overwrites a link (mmp_btree.c:297, 249) |
| `Shm!SharesOne` | `MC_Shm` | a detach, or an attach that fails, removes the name others use; the next process gets another segment (mmp_shm.c:34, 87) |
| `Dates!MeansGMT` | `MC_Dates` | a text that says GMT is taken for the local zone, with an `isdst` nobody set (mmp_date.c:607) |

Bounds. `MaxPages` limits the growth of the files of Barray (a guard of `Grow`) and of Btree (of `Split`);
`MaxSize` that of a vector, `MaxAlloc` that of a heap's array, `MaxUnlinks` the detaches of Shm, `MaxFds` its openings,
which it does not close. The widths `IdxMod` (2^31 in the code), `CountMod` (2^15), `UIntMod` (2^32) and
`SizeMax` (2^64), and the `Quantum` of 4080 bytes, `Increment` of 10 and `FdSetSize` of 1024
are scaled down; the records of a page and the lengths of keys stay
below them; one index of Barray and the sums of offset and count of Shm do not. `MaxNum` is how far past the array
of the trace races may take the count. `FewAfter` of `MC_BArray`, a constraint, does not follow a file further once its
order is lost and more than `MaxUsed` of its slots are used; as long as it is sound, nothing is cut off.
`Node` bounds the elements in memory; allocation may fail at any time.
Addresses of Htab, threads and messages of Trace and processes of Shm are symmetric sets, in runs
without liveness properties.

Fairness. `FairSpec` of List, BArray and Btree is weak fairness of `Continue`, the steps of a
call that was begun: a thread inside a loop goes on. In Sync it is weak fairness of
`Finish` for each thread: a call that can go on is scheduled. That a signal interrupts it is not assumed,
nor that a waiting thread is chosen before others (`CallsReturn` asks only that a call returns or is made to wait again). In Scheduler it is weak fairness of
`Poll`, the client calling the loop over and over, as the loop's contract asks, and of the steps
inside the loop. It is not assumed that a client calls anything else, or that a process dies or
does not. The other models have no liveness property: their loops count up to a bound,
or follow chains that `Linked` shows to end.

Deadlock is checked in the runs of Queue, List, Barray and Trace. The others really
stop: a vector that was written past its block is followed no further, the processes of Htab, Sync,
Prioq, Btree, Shm, Scheduler and Dates die on a wild access, a thread of Sync waits for a semaphore nobody posts, and the bounds of Shm, which count what is
never undone, are reached.

## 5. Proofs

For every value of the constants that satisfies the named assumptions:

| Module | Theorem | |
|---|---|---|
| `Buffers_proofs` | `QueueTypeCorrect`, `NothingLeaks`, `NothingUnwritten` | for queues of any size |
| | `FifoExceptMisplaced` | every step is one of `Fifo`, except an enqueue into a slot computed wrong |
| | `SmallQueuesAreFifo` | queues of size at most two implement `Fifo` |
| `List_proofs` | `TypeCorrect`, `PointersAgree`, `ElementsOwned` | for lists of any length and data |
| | `PlacesHold` | at every iteration, what a loop has found out of the elements it has passed |
| | `SearchesAreExact`, `OrderKept`, `VisitsEvery` | a search finds the first match; additions and the sort keep their orders; a callback runs once on every element there was |
| | `ListIsDataList` | the list implements `DataList` |
| `BArray_proofs` | `InvariantHolds`, `PagesInOrder` | until an index goes astray or a file with holes is opened: for any pages, cache, indices and crashes, the file is in order, and the pages, the cache and the mappings agree |
| | `WildBeyondLast` | until then only a search beyond the last index leaves the page vector |
| | `StoreImplements`, `SearchesFind` | until then the store implements `IndexStore`, and a search misses no index |
| | `OthersStay` | until a file with holes is opened no call touches another index, in any order of the records |
| | `CacheAgrees`, `OldestEvicted`, `Inserted` | in any order of the records, the cache and the mappings agree, the page evicted is the one mapped first, and an insertion stores what the field leaves of its index |
| `Htab_proofs` | `InvariantHolds`, `PointersAgree` | for any client, keys, hashes, sizes and failures, chains are linked both ways, own what is allocated but for what was cut off, and have a key once |
| | `TableImplements`, `CallsAreAnswered` | the table implements `Table`, call by call; a deletion of the key added last empties it |
| | `DatadelInOrder` | a destruction hands each element to `datadel` once, bucket by bucket in the order of the chains |
| `Buffers_proofs` | `TraceTypeCorrect`, `OverrunOnlyAfterRace` | for any number of threads, any array and interleaving, nothing leads past the array but two creations at a time |
| | `UnmetCallsLog` | every call that is not met is one of `TraceLog`, also after others have raced |
| | `UnmetPrintsAll` | a print that is not met is complete |
| `Sharing_proofs` | `MutexExcludes` | for any number of threads, whoever was told it has the mutex is its one owner |
| | `JoinProtects` | no thread is in a call on an object that was closed |
| | `ProcessesShare` | for any number of processes, lengths and accesses, who has the name shares a segment exactly with those between whose openings nobody removed it; an accepted access whose sum does not wrap leaves only a segment that was made shorter |
| `Trees_proofs` | `HeapIsKept` | for any data, priorities, sizes and junk, the array is a heap between calls until it is no longer tame |
| | `PopGivesHighest` | until then, a pop gives a highest priority of all that is queued |
| | `PagesAscend` | for any keys, sizes of a page and failures, the keys of every page ascend and were inserted, also in the pages that nothing leads to any more |
| | `SearchesExactly` | a search finds and an insertion refuses only keys that were inserted; until a page is lost none is missed or taken twice (`ExactUntilLost`, which says less than the run's `FindsExactly`) |
| `Vect_proofs` | `InBlockUntilShort` | for any quantum, size of an element and client, nothing writes past the block until a size is computed too small |
| | `SequenceUntilShort`, `SmallNeverShort` | until then the vector implements `Vector`; one that never has more elements than the root of the quantum never comes to it |
| | `SchedulerAgrees` | for any sockets, pool and callbacks, either scheduler has each socket watched once and no other, and epoll loses none that has data |
| | `CallbacksAreKnown` | a callback is of a socket watched, or dropped in the same round |
| `Dates_proofs` | `FieldsInRange` | for every format and text, what `xstrptime` accepts leaves each field in its range and stops in the text; only a `%G` runs over the end |
| | `DatesReadBack` | every time of a four-digit year, written in any of the three formats, is read back to the same fields by that format and no earlier one |
| | `PartsAreCombined` | in every text, the two halves of a year, in either order, and an hour and its half, both count |

Queue. `NothingUnwritten` is not inductive. The invariant adds `Written`: either every
slot of the vector was written, or the window has not passed the end of the vector yet and
every slot below its end was written. The refinement maps the window of `n_data`
slots from `from`, modulo the size, to a sequence; an enqueue that is not misplaced appends
to it, a dequeue takes its head, and for sizes up to two no enqueue is misplaced.

List. The invariant says that the elements of `order` are distinct and linked to their
neighbours both ways, and that the local pointers of a loop are elements of the list,
or, while the list is destroyed, of what is left of it. The
updates (in front, in the middle, removal) are lemmas on sequences
and links, cited by the step of each action. A second invariant, `Places`, stands on the first: every
loop is at a place of `order`, and knows something of the elements before it. For the sort that is a
settled prefix and the smallest of the elements the inner loop has passed (`SortPlace`); for a walk whose
callback adds data, how many elements are before those the list had (`WalkPlace`). What a call
returns is then what its loop knows when it is at the end. In the refinement each
update of the pointers is one of the sequence of data at the same place (`ItemInserted`, `ItemRemoved`,
`ItemsSwapped`). The theorems assume nothing of the comparer but that its keys are integers.

Barray. What each page says of itself (`Session`), the file's order (`FileRight`) and the cache
(`CacheRight`) need each other, and the place of the call under way: an insertion knows that
every page lies below its index (`AtGrow`, ..., `AtPresent`), the search over pages that those
before `beg` lie below its index and those after `end` above (`AtPage`), the search in a page the
same of the slots (`AtSlot`). The searches end nowhere else than at the index or with nothing left
between the bounds, even where the bounds pass each other and the loop does not end. A crash
keeps the file as it is between two stores: a record written and not yet present is no record.
A reopening finds the same pages (`Laid`). The eviction is the least hit
page, and the hits ascend along the cache, so it is the oldest.
All of that is `IInv`, and holds as long as the order is `Sound`. A second invariant, `Kinds`, needs no order: the file
and the pages have their shapes, the cache and the mappings agree, and a step that stores has room for it. It is
inductive by itself, and gives what is said in any order. For `OthersStay`, `Counted` adds
to it that a page counts its records and every slot from its count on is empty, which holds until a file with holes is
opened: an insertion, however its index goes astray, then takes a slot of nobody's.
The theorems assume `Fits`: the records of a page can be counted in their field, which is no wider than that of an
index, and pages fit an unsigned int with its largest value left for a page before the first. In the code
these ask for fewer than 2^15 records to a page, and for fewer than 2^32 - 1 pages; that
the first is needed `CountMod = 3` shows above, the last keeps `page_n - 1` from meeting a page.

Htab. A chain is two-way, so an update is the List's; but the invariant must say besides that the
elements are in one chain at most (`Chains`) and that a key has one element (`Unique`), which is what makes an
installation that finds nothing right: a search knows that the elements it has passed are not of its
key (`SearchRight`), so that at the end none is. During a destruction the pointers of the elements
still to be freed are those of the chains (`DestroyRight`), and what was freed was called for (`Once`).
What an installation, a replacement and a deletion make of the entries is a lemma
each on functions (`MapAdd`, `MapReplace`, `MapDrop`). An element whose key could not be copied is
in the invariant, without a key, and no entry. Nothing is assumed of the client: a deletion of the first element moves
the rest of the chain to `leaked`, from which nothing in the invariant leads back. The code stores every key in
bucket 0, so the first element is the one added last: its key is `latest`, or it has none (`Newest`).
For the order in which `datadel` is called, `Ordered` adds that every element called comes before
those called after it and before all that are still to be freed. `KeyAssumption` says that `Null` and `Junk` are marks, no key nor value.

Trace. The absence of an overrun is not inductive: at a store it must be known that the check still holds.
The invariant says it of the calls that were not met (`Unmet`): the copy of the count is the count, which is below the
length, and the fields passed are stored. Of met calls it says only what is true up to the first race
(`Unraced`): a single creation that a reset has met may store at a place the reset has given up, but at
none past the array. A print that was not met has given a prefix of the trace (`Printed`). The refinement then follows per
action: a field store of an unmet call touches no record counted, and the increment appends the record just
written. No turns are assumed: a call is exact when nothing that writes overlaps it, and `raced` or `met` otherwise.

Sync. That no call is on a closed object is not inductive: closing needs main to have
joined every thread it asked for, so the invariant adds `Joinable`: a thread that runs
is one whose identifier main still has, and a thread in a call is one that runs, or main. `Exclusive` is inductive with the
types, since only the owner's release, which the error-checking type grants to nobody
else, takes the owner out.

Shm. `Together` is inductive with the types and `Attached`: a process has a segment exactly
from its opening to its detach, it opened it after no more removals than there were since (`since` is at most
`unlinks`), and the segment has the length it was given unless another attach cut it. A new segment is one that
no process has; there is one more of them than processes, so one exists, by counting (`UnusedExists`, which is why
`ProcAssumption` has the processes finite). The sum that `getdata` and `putdata` make of an offset and a count is taken
modulo `SizeMax`: where it does not wrap, it is the end of the access, and the check compares it with the length;
where it does, the access ends as `wrapped`, of which nothing is said.

Prioq. A heap is broken while an element is sifted. The invariant `Sifting` says where: on
the way up, every node but the one sifted is in order with its parent, and its children
with its parent; on the way down, every node but its children is, and they with its parent.
A comparison with a slot past the heap either changes nothing in the heap or ends in a state that is not tame. That the root is of the highest
priority (`RootIsHighest`) needs no induction over the depth: `<` is well founded on the naturals, so among the
places above the root there is a first, and it is above its parent, which comes before it.

Btree. The pages need no tree to be in order: each ascends, whatever leads to it (`TreeKinds`), because a
record is put where the scan for its key stops, below which every key is smaller. That a search misses
nothing needs the shape. The first split of a page with others below it drops the last of them, so a
tree that is not `lossy` has two levels at most: it is a leaf, or a root above leaves (`Flat`), and the
keys of a leaf are those that a scan of the root stops at its link for (`ChildAt`). A key that was
inserted is then in the root or in the leaf the scan goes on to (`Reached`), and a call is at the root, or at
that leaf (`OnTheWay`). A split that drops nothing is of the last leaf of its root, as the record that goes up
is put after all others (`SplitKeeps`); one of a root that is a leaf makes the two halves its leaves. The
theorems assume at least two records to a page and one page, and that `None` is no page's number.

Vect. `Good` is the invariant: the number of elements is at most the room, and the room at
most the block. Each function has a lemma on its operator, for any good vector: the result is good, and
which element is at which place (`ResizeGood`, `PushGood`, ...); nothing is used of `NearSize` except
that it is a natural number, and not below what was asked for as long as the vector is not `short`. A second lemma
(`ResizeMade`, ...) says the same of the sequence of elements, by its length and its places, and gives the
step of `Vector`. What erase reads past the last element ends at the index the count no
longer covers. The client is not restricted. `SmallNeverShort` is arithmetic: a block has at
least the quantum of bytes, which divided by a number up to its root gives that number or more. The theorems assume
that `Broken` is not `Null` nor a vector (`Apart`), and the refinement that `Null` is neither a vector nor a sequence
(`NoSequence`): they are marks, and TLC takes them for values apart from all others.

Scheduler. The invariant says of select that its vector is good, has the room that create reserved and holds each
watched socket once (`SelectRight`). As the sockets are distinct and below `FdSetSize` there are never more than
the room, so that an addition never grows the vector; this is where a lemma counts. Of epoll it
says that every watched socket with data is in the ready list or among the events to come (`Listed`),
and of the events that are to come that they are of sockets watched or dropped since the poll. A callback may change all
three. `Only`, the elements of a sequence that are in a set, is defined by their
ranks and not as `SelectSeq`, which recursion defines and the provers cannot open. The theorems assume `Marks`:
`Broken` and `Null` are not each other nor vectors.

Dates. Three invariants, each on the one before. `RangeInv` has the types and says that between two
conversions every field is in its range and the place is in the text, or one past it, or 0; each conversion has
a lemma that it keeps so (`ConvertRight`), and only `SkipIsoYear` needs the exception. `ReadsInv` says that the text
is the one that was written, and where in it `xstrptime` is: with the format of the text, at the place where what its next conversion
reads begins, with the fields of the conversions before that one read and the others untouched (`Reached`); with an earlier format, in
the beginning that the two have in common, which ends at the second conversion, where a text of asctime has no comma,
or at the sixth, where one of RFC 1036 has a dash for the month (`Off`). So an earlier format never answers, and the format
of the text ends at its end with all fields read. The years are those that are written with four digits (`TimesAssumption`).
`PartInv` says of the formats of two conversions what the first has read when the second begins; the code
keeps the century and the year in it in one field, and a remainder and a multiple of 100 take them apart. `Convert` reads
at most four digits at a time, so that a number is a case for each length and no induction.

Model-checked only is liveness under fairness: `CallsReturn` of List, BArray, Sync and Btree and `ServesAll` of
Scheduler (no prover here handles `ENABLED`), and of `FindsExactly` of Btree what it says after a page was lost, which
needs the shape of trees of any depth. Every other property of a run is stated by a theorem.

## Not modelled

| Part | Why |
|---|---|
| Stack | an array and an index over a fixed capacity: Queue without the wrapping |
| Array | create, fill and destroy of a fixed array, all of which Vect has |
| Funclist | its functions are List's, statement for statement |
| 2tree | recursion over links that only the client sets. `mmp_2tree_destroy_withdata` hands only the data of the root to its callback |
| Tap, Dir | a List filled in one loop, and text |
| Strings, Getopt | pure functions on characters |
| Mmap, Files, Sockets, Dl, Memory, System | one system call each; their failures are outcomes in the modules that call them |
| Errors | tables of messages |
| Shm and Sync for Windows, the fake scheduler | other builds; the fake one fails every call |
