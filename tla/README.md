# A TLA+ model of localmemcache

localmemcache is a hash table of strings in a memory mapped file that several
processes share. Its difficult parts depend on each other: an allocator inside the
file, a hash table that must survive the death of a process between any two stores, a
memory check that searches a bitmap, an iteration that lets go of its lock half-way,
the locks that decide who may touch the pool and who repairs it, and handles that
outlive the file they were opened on. These modules model them, check them with TLC,
and prove with TLAPS what can be proved of them for any number of processes, blocks,
keys and files. Paths such as `src/src/lmc_valloc.c` are relative to the directory that
holds `src/` and `tla/`.

## The system

| part | state | operations | uses |
|---|---|---|---|
| allocator, `lmc_valloc.c` | descriptor at offset 0; list of free chunks from `first_free`, headed by their `next` and `size`; a size word before every block; `min_alloc_size` | `lmc_init_memory`, `lmc_valloc`, `lmc_free` (with `__lmc_free`, `lmc_compact_free_chunks`), `lmc_set_min_alloc_size` | - |
| memory check, `lmc_valloc.c` (`lmc_um_*`) | a bitmap of used bytes, private to the checker | mark, check unmarked, find leaks | frees what is not marked |
| log, `lmc_valloc.c` | `md->log`: `op_id`, `p1`, `p2` | `lmc_log_op`, `lmc_log_finish` | - |
| hash table, `lmc_hashtable.c` | `size`, 20731 buckets, chains of entries (`va_next`, `va_key`, `va_value`), strings | `ht_set`, `ht_get`, `ht_delete`, `ht_redo`, `ht_check_memory`, `ht_hash_iterate`, `ht_random_pair` | allocator, log, memory check |
| locks, `lmc_lock.c` | two named semaphores per namespace: its lock, its check lock | obtain with a timeout of 2 s (60 s for the check lock), release, repair | - |
| namespace, `localmemcache.c` | `md->locked`, `md->magic` and `md->va_hash` in the pool; a handle per process, with the size it maps and a copy of `va_hash` | create, free, set, get, delete, clear, drop, iterate, check | all of the above |
| mapped file, `lmc_shm.c` | the file and its length; one that is unlinked lives on in the handles that map it | create, stretch, map, unlink | - |
| Ruby binding, `rblocalmemcache.c` | handles, open or closed; where an iteration stands | wraps the C calls; `keys` and `each_pair` iterate in slices and unlock on exceptions | namespace |

A call locks the region (semaphore, then flag in the pool), works on the table and
unlocks it (flag, then semaphore). A process that waits two seconds takes the holder
for dead: it takes the check lock, attaches to the pool by force, redoes the logged
operation, checks the memory, resets the flag, posts the semaphore for the dead
process, detaches (which locks and unlocks the region once more), releases the check
lock and tries again. What is hard is listed under `hazards` in `PROJECT.json`, each
at its line: the unsorted free list with one merge per free, inserts that fail or die
half-way, a log that is closed on one path of two, a clear that may move the table under
other handles, several processes timing out at once, a creator that dies, a caller that
unlocks what it did not lock.

What makes each part correct:

- allocator: no word is in two places or in none; free neighbours are always merged;
  a request fails only if there is no hole for it;
- memory check: accepts a pool exactly if nothing overlaps and frees exactly what
  nothing points to;
- hash table: it is a map; a call that fails changes nothing; a call that dies is,
  after the recovery, done or not done; nothing leaks;
- locks: one process in the pool, the one that repairs it included; nobody enters a
  pool that is not initialised and sound; what a dead process took comes back; every
  call ends;
- iteration: what is there all the time is visited, nothing twice, and it ends;
- handles: nobody works on a table that is not where his handle says, or in a pool a
  dead process left torn, whoever clears, drops or repairs the namespace meanwhile.

## Modules

- `LmcChunks`: the arithmetic of the free list, as operators on a sequence of chunks
  in list order. `Carve` is the inside of `lmc_valloc`, `Release` is `__lmc_free`,
  `Compact` is `lmc_compact_free_chunks`. The list predecessor the compaction uses
  only for unlinking (`k - 1` in `Mergeable`) and the missing predecessor of the list
  head (`MergeUp`) are in the model. Offsets count words.
- `LmcValloc`: the allocator as a component: `free`, `used`, `minAlloc`, `result`.
- `LmcHeap`: what the allocator promises, without a free list. `HeapSpec` in
  `LmcValloc` says the allocator implements it.
- `LmcChunks_proofs` (lemmas about lists of chunks), on it `LmcValloc_proofs` (the
  allocator) and `LmcHashtable_proofs` (the table in memory); `LmcLocking_proofs` (the check
  lock, then the lock of the region), `LmcPool_proofs`, `LmcIteration_proofs`,
  `LmcBitmap_proofs`: the theorems.
- `LmcFacts`: facts about numbers, lists, finite sets and loops that several proofs use.
  `MinFact`, that a set of numbers has a least one, is their induction. `WalkFact` and
  `DownFact` are made from it: a loop that is written as a recursive function has a value
  at every step, and what holds of its end and of each step from the ones behind it holds
  of all.
- `LmcCheck`: what is left of a free list when a process dies in a free
  (`TornRelease`, at the places `LMC_TEST_CRASH` marks), and what the bitmap check
  accepts and frees.
- `LmcBitmap`: the bitmap bit by bit: marking with `memset` and single bits (`Filled`),
  the check that a block is unmarked (`Looked` is the set of bits it looks at) and the
  search for leaks (`Leaks`), with the strides of a machine word in which both skip
  (`Strided`). It compares them with what `LmcCheck` says of sets of words. Offsets count
  bytes.
- `LmcHashtable`: the table in the pool. `mem` is the memory image: the free list,
  the four words of every block, buckets, size, log. A call is an operator from an
  image to `[mem, ok, torn]`: the image it leaves, its result, and the images it
  leaves if the process dies between two stores. Such an operator is a chain of small
  ones, one for each store or allocation (`InsertLogged`, `InsertKey`, `InsertFresh`,
  ... , `FreeKey`, `FreeValue`, `FreeEntry`), each of which adds to `torn` and passes
  the image on. `Recover` is the repairing part of `__local_memcache_check_namespace`;
  one that fails is tried again, as every caller does that times out after it. Freed memory is not cleared: a block that is
  allocated again holds what was there before, which the insert's first stores
  overwrite only in part. Strings and entries have one size of block, the table another:
  that of `HashWords` at first (`FirstHash`), when `min_alloc_size` is 0 still, and at a
  clear the larger of that and `min_alloc_size` (`HashBlock`), which `lmc_init_memory` does
  not reset. A clear keeps the table where it was if the two are one size.
- `LmcMap`: the map a namespace promises its callers. `MapSpec` in `LmcHashtable`
  says the table implements it, `seen` (what `ht_get` answers for every key) being the
  map.
- `LmcTable`: the same table without its memory, as the chains of keys in its buckets,
  with what a delete of a first entry takes along. `TableSpec` in `LmcHashtable` says the
  memory implements it.
- `LmcIteration`: extends `LmcTable` by the loops of `keys` and `each_pair`. `Iterate` is
  one call of `local_memcache_iterate`, a slice; sets, deletes and clears come between
  the slices. `at` is `ht_iter_status_t`; `stayed`, `grew`, `shrank` and `visits` record
  what the properties speak of. `ht_random_pair` is an operator on the chains.
- `LmcLocking`: the semaphores, the flag, attaching and creating, the slices of an
  iteration and its exceptions, the recovery, the death of a process at any step, and the
  restart of the machine. A label of `pc` is one step on shared state. The pool is reduced to none, empty (a file
  of no bytes), blank, half initialised, ready or torn. Constants choose the cases:
  `Settled`, the states of the pool in which processes die and in which they call
  `local_memcache_check_namespace` themselves; `RaiseAt`, where exceptions come from;
  `ShmFails`; `SlowHolders`; `LongFile`, a file of 2 GB or more, whose size is a negative
  `int` in a check. `Restarts` adds restarts of the machine.
- `LmcPool`: the files a namespace has one after the other, the sizes and the
  `min_alloc_size` they are opened with, the handles and what a handle knows of its file. It
  goes across what `LmcLocking` does not look at: two files at once, clears, closes, drops.
  A call is two steps here, locking and the rest, an attach one, a recovery two. `TableAt`
  is where `lmc_valloc` puts the table in an empty pool, `min_alloc_size` what the last
  attach stored (0 after that of a check). `lmc_namespace_size` is the length of the file
  as an `int` of `IntRange` values, and `ZeroByteAt` the byte `lmc_shm_create` writes at the
  end of the size it is asked for. A pool is `spoiled` when a byte of it was written that is
  not the writer's.
- The `MC` modules give the constants their values for TLC, and views and symmetry;
  `LmcValloc` needs none of that and is checked as it is (`LmcValloc.cfg`).
  Operators called slips, each before the definition it misstates, are plausible bugs;
  every property is violated by at least one of them.

`LmcHashtable` builds on the same `LmcChunks` the proofs are about. `LmcLocking` and
`LmcHashtable` meet in one assumption: the table is used by one process at a time
(`MutualExclusion`), and only after its repair (`SoundPool`). `LmcHashtable` implements
`LmcTable`, on which `LmcIteration` is built, so what is found of the iteration holds of
the table in memory. `LmcBitmap` extends `LmcCheck`, whose `Markable` both use.

## What the runs check

| run | shows | bounds |
|---|---|---|
| `allocator` | `InPool`, `NoOverlap`, `NoWordLost`, `Coalesced`, `FreeRestoresPool`, and `HeapSpec` | 29 words, requests that need blocks of 4 and 8 words, a minimal block of 8: seven small blocks, three large ones and an odd word, every order of frees, lists of up to four chunks |
| `table_calls` | `Accounted`, `SizeMatches`, `MapSpec` for sets, overwrites, deletes, checks | 2 keys, 2 values, 7 small blocks beside the table of two: one more than two keys need, so that an overwrite has room |
| `table_full` | `MapSpec` although inserts fail at their first or third allocation, `CheckReclaims`, and both for the recovery from a crash between any two stores of a delete or a clear | 3 keys, 9 blocks: the third key lacks its entry's block (with `Total = 35` its key's block); only new keys are set; nothing is explored behind the recovery |
| `table_crash` | `NeverLost`, `Accounted`, `MapSpec` with a crash between any two stores of a set | 3 keys of which two share a bucket, 12 blocks, one crash |
| `chains` | `TableSpec`, `HashStays`, `PoolConsistent` for chains of up to three entries | 3 keys in one bucket, room for all of them and for what a dropped chain leaks; no overwrites, which do not touch chains; blocks of 8 words for the table as for the rest, because of a `min_alloc_size` of 8, and at first for its own 7 words |
| `recovery` | `MutualExclusion`, `SoundPool`, `OneToken`, `OneChecker`, `FlagNeedsToken`, `InitialisedOnce` | 4 processes and no file at first; 3 crashes (the one that is left cannot meet anybody), one retry instead of ten; exceptions inside a slice; the repair of a torn pool may work or not; a view forgets the records of finished calls |
| `returns` | `EveryCallReturns` | 2 processes, one crash anywhere, creation included, any number of restarts of the machine; locks may be held past any timeout |
| `recovers` | `Recovers` | 3 processes, one crash, a repair that works |
| `iteration` | `NothingSkipped`, `NothingRepeated`, `IterationEnds`, `RandomPairDraws` | 4 keys, three of them in one chain, slices of 2 for 1000: a slice ends inside a chain, at its end and across two; visits are counted to two; nothing bounds the changes in between |
| `bitmap` | `MarksExact`, `DoubleUseFound`, `LeaksFound` | 3 bits to a byte and words of 2 bytes: a stride of 6; 31 bytes, a descriptor of 9, blocks of 4, 7 and 13 at any byte, in any order until one is refused |
| `pool` | `SoundPool`, `OneToken`, `HandleSound` | 3 processes, 2 files, 2 crashes; sizes 5 and 17 where an `int` has 12 values, so that the longer file is taken for one of 5; a `min_alloc_size` of 0 and of 2, which the table just covers; drops are forced only when nobody uses the namespace; a view forgets files nobody can reach |

`Accounted` is `PoolConsistent` and that no word is lost. `table_crash` does not check
`SizeMatches`; `table_calls`, `table_full` and `table_crash` leave out the cases in which
the code fails, which the next section lists: keys of one length in one bucket, deletes
in a shared bucket (`chains` has those, without `MapSpec`), overwrites in a full pool,
what follows a crash in a delete or a clear, deletes before a crash in a set, a second
crash. Runs of the hash table compare states by a view: without crashes in sets, the
words of blocks that are not in use and the unused last word of a string's block cannot
influence anything and are left out (`LiveWords`); with crashes in sets all words count
(`AllWords`); `ChainWords` leaves out the table's `size` as well, which drifts when chains
are dropped and which no call reads.

In `recovery` processes die, and call the check themselves, only once the pool is made
(`Settled`); the automatic recovery runs at any time. What happens before is in the list
below. With gets and checks at any time, but without crashes (`Ops` `{"set", "get", "attach",
"check"}`, all six states in `Settled`, `MaxCrashes = 0`), `MutualExclusion`, `SoundPool` and
`InitialisedOnce` hold.

In `pool` the properties say themselves which files they speak of
(`OneTable`): those that every process opened with one size and with no `min_alloc_size`
above that of the table. That nobody enters a torn pool is said of all files. Files
of two sizes are in the state space too, and `MCPool_OtherSize.cfg` shows what becomes of
the others. The run has no `min_alloc_size` above that of the table, because that is too
large a state space to run every time. With one file and `MinSizes = {0, 1, 8}`, of which 8
moves the table in the larger size and leaves no room for it in the smaller, its properties
hold (300,000 states).

In `table_full` the deaths between two stores of a clear include those inside
`lmc_init_memory`, in which the list has its new head and not yet its new `next` or `size`.
The deaths in deletes reach a free list with two neighbours that were not merged, which a
recovery repairs, and one with a word in two chunks, which it refuses.

The properties of `iteration` say exactly what can go wrong and no more: a key is
skipped only if its bucket is one in which the iteration stood when an entry it had
passed was deleted, and repeated only if a new entry came to the front of such a bucket.

`CHECK_DEADLOCK FALSE` in the runs of `LmcLocking` and `LmcPool`: when every process is
dead the system stops, as it does in reality. In `bitmap` it stops when the search is over.

One retry is enough because the second one is the same step from the same states;
`returns` depends only on there being a limit.

### Fairness

`LiveSpec` assumes that a process that is in a call takes its next step if it can
(weak fairness of `Step`): the operating system schedules it. Waiting for a semaphore
is a step that is disabled while the semaphore is 0, and so is timing out unless the
holder is dead or, where `SlowHolders` is true, slow. Weak fairness does not promise a
waiter that it gets a semaphore others keep taking; it does not have to, because the
timeout is enabled exactly when nobody alive holds it, or at any time when holders may
be slow. Nothing is assumed of processes that are not in a call: `EveryCallReturns` is
checked under `LiveSpec`. `UsedSpec` adds that processes keep making calls, some call,
not a given one; `Recovers` needs it, because only a process that calls can notice
that a lock is lost. The block of `each_pair` ends: `NextSlice` and `LastSlice` are in
`Step`. An exception is possible, never owed.

`IterationSpec` assumes weak fairness of `Iterate`: the loop in Ruby calls again while it
is told to. `IterationEnds` holds although others may change the table for ever, because
no slice goes back behind where the last one stopped.

### Where the code departs from its documentation

One listed run expects a violation (`findings` in `PROJECT.json` quotes what is
contradicted): `get_unlocks`, in which a get that could not lock the region unlocks it.

The other configurations show the remaining cases the passing runs leave out. They are
run in the same way (`tlc -config MCHashtable_FullUpdate.cfg MCLmcHashtable.tla`), each
ends with the violation of its one property:

| configuration | property | what happens |
|---|---|---|
| `MCHashtable_SameLength` | `MapSpec` | `ht_lookup` compares lengths, not bytes: the `continue` at `src/src/lmc_hashtable.c:66` belongs to the inner loop, so two keys of one length in one bucket are one key, although `src/src/localmemcache.h:24` promises a hashtable of strings |
| `MCHashtable_DeleteHead` | `MapSpec` | `ht_delete` of the first entry of a chain drops the whole chain (`src/src/lmc_hashtable.c:168`); `src/src/localmemcache.h:149` says it deletes a key |
| `MCHashtable_StaleValue` | `NeverLost` | the entry is linked before its value is stored (`src/src/lmc_hashtable.c:126`), so that a recovery can take what the memory held before for the old value, free it, and fail; `src/src/localmemcache.h:68` promises automatic recovery |
| `MCHashtable_FullUpdate` | `PoolConsistent` | an overwrite in a full pool stores a null value before it fails |
| `MCHashtable_CrashInDelete` | `NeverLost` | deletes are not logged; a free list torn in a merge is not repaired. Nor are clears: with three keys, `Calls` `{"add", "delete", "clear", "check"}` and `CrashIn` `{"clear"}` the old table hangs in a pool whose free list is new |
| `MCHashtable_MinAlloc` | `HashStays` | the first table gets the block of its own size, because `min_alloc_size` is stored behind it (`src/src/localmemcache.c:142`); a clear gives it one of `min_alloc_size`, further down (`src/src/lmc_valloc.c:176`). In the program that takes a `min_alloc_size` above the 256 KB of the table |
| `MCHashtable_OverlapAfterCrash` | `PoolConsistent` | a process dies between the two steps of a free, the recovery accepts the list, and a later free grows a chunk by the head of the list, which is not unlinked because it has no predecessor (`src/src/lmc_valloc.c:250`): the same words are free twice |
| `MCHashtable_TwoCrashes` | `MapSpec` | the update path does not close the log: the next recovery redoes an old set. With one crash and `SizeMatches` as an invariant it shows that the redo of an insert that was linked takes the update path and does not count it |
| `MCLocking_HalfPool` | `SoundPool` | `magic` is set before the flag: the creator dies between them and the pool counts as initialised |
| `MCLocking_CheckerDies` | `Recovers` | the process that repairs dies; nobody resets the check lock |
| `MCLocking_NoFile` | `Recovers` | the creator dies before the file exists; the clean-up resets the wrong semaphore |
| `MCLocking_EmptyFile` | `OnlyCrashesKill` | a check meets the file between its creation and its first byte: it fails to map it, reads through a null handle, and dies with the check lock taken. With one crash, and `set` in `Ops`, `FlagNeedsToken` fails as well: the creator goes on and dies in `lmc_init_memory`, the check that failed posts the semaphore for it and leaves the flag set |
| `MCLocking_ShmFails` | `FlagNeedsToken` | a system call of `lmc_shm_create` fails in the recovery of a pool: the semaphore is posted for the dead process, the flag stays set. With `LongFile` for `ShmFails` it does so in every recovery of a file of 2 GB or more: the size is a negative `int` (`src/src/lmc_shm.c:28`) |
| `MCLocking_RaiseInBlock` | `MutualExclusion` | an exception in the block of `each_pair` unlocks the region, which is not locked any more |
| `MCLocking_Restart` | `FlagNeedsToken` | the machine restarts in a create: the file keeps the flag, the semaphore is new, and every call fails at the flag without a timeout that would start a recovery |
| `MCIteration_Skipped` | `EveryKeyVisited` | an entry that was passed is deleted: the entries behind it move up, and the offset skips one |
| `MCIteration_Repeated` | `NoKeyTwice` | a new entry comes first in the chain: the last one that was passed is behind the offset again |
| `MCBitmap_Missed` | `LeaksFreed` | the search for leaks strides over the first byte of a gap |
| `MCPool_OtherSize` | `EveryHandleSound` | one process opens the namespace with a smaller size: its table lies behind the end of its mapping. With `Sizes = {5}` and `MinSizes = {0, 4}`: all open it with one size, and a clear moves the table away from where another handle has it. With `SizeFixed` as a property: a clear with a handle of another size changes the size of the pool, of which the comment of `local_memcache_create` says that it cannot be changed |
| `MCPool_ForcedDrop` | `OneToken` | a forced drop posts the semaphore while a process holds it |
| `MCPool_DropInCheck` | `OnlyCrashesKill` | the file is dropped between the two looks a check takes at it. With `IntRange = 8` no drop is needed: the size of the file is negative, and the check dies of the handle it did not get |

## What is proved

### The allocator

`LmcValloc_proofs` proves, for every word size, descriptor size, pool size, set of
requests and of minimal sizes that satisfy `LayoutAssumption` and `RequestAssumption`
(the pool holds its descriptor and a chunk; the descriptor starts with the two words
the walk of `__lmc_free` reads as a chunk; requests are in the range in which the
rounding rounds up):

- `AllocatorInvariant`: `Spec => []IInv`, and from it `TypeCorrect`,
  `LinksStayInPool`, `NoDoubleAllocation`, `NoLeak`, `NoFragments`;
- `FreeAllRestoresPool`: a pool in which nothing is in use is one chunk again;
- `ImplementsHeap`: `Spec => HeapSpec`.

`IInv` is the conjunction of `TypeOK`, `InPool`, `NoOverlap`, `NoWordLost` and
`Coalesced`. None of the parts is inductive alone. That a free touches a chunk only at
its edge needs `NoOverlap`; that a block touches at most one chunk below and one above,
so that one merge after the absorption is enough, needs `Coalesced` and that chunks are
not empty (`InPool`); and that a merge upwards always finds the predecessor it unlinks
from needs the order of the walk: when the block was absorbed by the chunk below, the
chunk above comes later in the list, so it is never its head (a crash between the two
steps breaks `Coalesced`, which no recovery restores). The
argument follows the code (`LmcChunks_proofs`): lemmas about sequences without an element, about `Carve`
(the block and the list partition what was there), about `Absorb`, `MergeUp`, `Fuse` and
`Compact`, then `ReleaseFact`, then one step per action. For `ImplementsHeap` the
added fact is that a hole in the pool lies in one free chunk (`HoleFact`), which follows
from `NoWordLost` and `Coalesced`.

### The check lock

`LmcLocking_proofs` proves, for every finite set of processes and every choice of the
other constants (gets, exceptions, slow holders, restarts and failing system calls
included), `LockingInvariant`: `Spec => []IInv`, and from it `LockingTypeCorrect` and
`OneRecovery`: the check lock and the processes that recover the namespace never add up
to more than one. `OneChecker` is not inductive: that a check starts without the lock and
ends with it depends on the way there, through the labels it shares with a create.
`LabelsFit` says of every label whether the process there has the check lock, and for
`map` and `size` that it does if it goes on without the semaphore. What makes it true is
in the code: a create goes on without the semaphore only if it is forced, only
`__local_memcache_check_namespace` forces one, and every way out of it that does not
post the check lock ends in the death of the process.

### The lock of the region

`LmcLocking_proofs` proves `Exclusion` (`MutualExclusion`), `SoundRegion` (`SoundPool`),
`TokenKept` (`OneToken`), `FlagKept` (`FlagNeedsToken`) and `MadeOnce`
(`InitialisedOnce`), for every finite set of processes and any number of retries and of
crashes, under `Careful`. Its conjuncts are the cases in which the code fails, and every
one is needed, as a configuration shows:

| conjunct of `Careful` | without it |
|---|---|
| no `get` | `MCLocking_GetUnlocks` (the run `get_unlocks`) |
| no exception from the block of `each_pair` | `MCLocking_RaiseInBlock` |
| processes die, and call the check themselves, only in a pool that is `ready` or `torn` | `MCLocking_HalfPool`, `MCLocking_NoFile`, `MCLocking_EmptyFile` |
| nobody holds the semaphore past the timeout | a holder that is taken for dead and lives is in the pool together with the one that repairs it: `MutualExclusion` fails at once with `SlowHolders = TRUE` |

`FlagKept` also needs `Unbroken`, that no system call of `lmc_shm_create` fails
and the file is no longer than an `int` can say (`MCLocking_ShmFails`), and the machine does
not restart (`MCLocking_Restart`). The other theorems hold in all three cases, which the run
`recovery` does not explore.

The invariant is `RegionInv`. `MutualExclusion` is not inductive, because a process that
repairs goes through the pool without the semaphore. The argument is that it does so for
one that is gone: `Orphaned` says that the semaphore is taken and nobody alive has it, and
`Fits` says of every label whether the process there holds the semaphore, or may do
without because of `Orphaned`. In a step the process is then either the one holder, and
nobody is without; or it is without, so that nobody holds, and as it recovers the
namespace it is the only one (`OneRecovery`); or it touches neither pool nor flag. The
rest ties the pool to the labels: a torn pool is locked (`PoolFits`), a pool that is not
made yet has nobody but its creators, and the flag is set by a holder or an orphan
(`FlagFits`). The proof showed one thing that was wrong in the model: a process whose check
fails was still counted as a holder of the semaphore it had posted.

### Files and handles

`LmcPool_proofs` proves `SoundCalls` (`SoundPool`), `OneTokenForAll` (`OneToken`) and
`SoundHandles` (`HandleSound`), for any sets of processes and sizes, finite or not, and any
number of files and of crashes, for every `min_alloc_size` and every width of an `int`, from
the invariant `PoolInv`. The one hypothesis is `HeedWarning`: drops are forced only when
nobody uses the namespace. Without it `OneToken` fails (`MCPool_ForcedDrop`). What else is
needed stands in the properties: `SoundHandles` is about files with `OneTable`, and
`SoundCalls` says of all files that nobody works in a torn one, and of those with `OneTable`
whose length is below `IntRange` that nobody works in a spoiled one. Neither can be
dropped: a clear moves the table if `min_alloc_size` is larger, and a check that takes a
long file for a short one writes a byte into the middle of it. The parts that make `PoolInv` inductive are: a file in which a
process died stays locked even when it is no longer the one the name leads to
(`FileFits`), so that a handle to an unlinked file finds the flag and not the torn table;
what a process has locked is not torn (`HolderFits`); and in a file that all opened with
one size, and none with a `min_alloc_size` above the table, the table is the last block, in
the file and in every handle that maps it (`FileFits`, `HandleFits`). The last one is why a
clear does no harm there: it puts the table back where the other handles take it to be.

### The iteration

`LmcIteration_proofs` proves `NoKeySkipped` (`NothingSkipped`) and `NoKeyRepeated`
(`NothingRepeated`) for any table, any hash, any slice, any sets, deletes and clears
between the slices and any number of keys, and
`RandomPairs` (`RandomPairDraws`, for a finite set of keys: `ht_random_pair` can draw
every entry and nothing else). The hypothesis `TableAssumption`, that buckets are
numbered from 0 and every key has one, is in `LmcTable`. The proof is about positions:
`Awaits(k, i)` says that entry `i` of the bucket of `k` is still before the iteration, and
one lemma says what a slice visits, the entries from one position to the next
(`SliceFact`). A key that was there all the time is visited or awaited unless something
shrank its bucket behind the iteration (`StillAhead`); a key that was visited is not awaited
unless something grew there (`NotAgain`). These are not inductive alone: a key may be
deleted after its visit and set again, and comes in at the front of its chain, which is
behind the iteration only because the iteration is past the bucket's first entry
(`VisitedBehind`); and that a delete takes away one entry of a length needs that there is
no more than one (`TableOK`). `OneOfALength` states the latter as a theorem: keys of one
length never share a bucket, which is the other side of the lookup that compares lengths
only.

### The bitmap

`LmcBitmap_proofs` proves `MarkingExact` (`MarksExact`), `NoDoubleUse` (`DoubleUseFound`)
and `LeaksAreFound` (`LeaksFound`), for any number of bits in a byte and of bytes in a
word, any size of the pool and any blocks in any order, at any byte. `BitmapAssumption`,
in `LmcBitmap`, says what they need: the descriptor has as many bytes as a word has bits
(88 to 64), a block no fewer bytes than a byte has bits (16 to 8), and a block that starts
inside the descriptor, which `lmc_um_mark` does not refuse whatever its size, does not
reach past the end of the pool, where the code leaves the bitmap.

`StrideFact` says what a loop passes when it strides over words of a kind: all bits of the
bytes it passes are of that kind, but the loop ends as far into its byte as it began, and
the bits before that are not looked at. `UnmarkedFact`: a block that is in use there is
noticed all the same, as what is in use comes in runs of no fewer bytes than a byte has
bits (`InRuns`, the part of `BitmapInv` that `MarksExact` alone lacks), so that it reaches
to the next bit, or back into the bytes that were passed. `LeaksFact`: the search for leaks
is, whenever it can stride, at the first or second bit of a byte (`Aligned`), as it is there
at the start, and behind a set bit or the end of a gap the word is not all ones until the
next byte; so what it misses is one byte at most. The loops of the model are recursive
functions, and what they are at each bit is proved from the end of the loop.

### The hash table in memory

`LmcHashtable_proofs` is about the memory image itself, for every set of buckets, keys and
values, every `BucketOf` and `LengthOf` (keys of one length in one bucket included), and
every pool that is a row of blocks, whatever the sizes of the table and of the others
(`BlockAssumption`, `TableAssumption`).

`TableStays` (`HashStays`) needs that `min_alloc_size` is not above the block the table had
at first (`HashBlock = FirstHash`; without it `MCHashtable_MinAlloc`), and nothing else:
through all calls, deaths at any store and recoveries the table keeps its place, because
`lmc_init_memory` makes the list of an empty pool and `ht_hash_create` then takes its end.
The other theorems do not need it.

The others have hypotheses, each of them there because of the code and not of the proof.
Those that are not about constants are about steps, and stand before the arrow as
`[][...]_vars`. The first group is about a table in which nobody dies in a call
(`MaxCrashes = 0`):

| theorem | property | hypotheses |
|---|---|---|
| `TableTypeOK`, `TableConsistent`, `TableReclaimed`, `TableImplements` | `TypeOK`, `PoolConsistent`, `CheckReclaims`, `TableSpec` | `UpdatesFindRoom` |
| `AddsConsistent` | `PoolConsistent`, `CheckReclaims`, `TableSpec` | no key is set twice without a delete between; nothing about the pool |
| `TableIsMap` | `MapSpec` | `UpdatesFindRoom`, `KeepsChains`, `KeysDiffer` |
| `TableSize` | `SizeMatches` | the same, and `Total <= SizeT` |
| `TableAccounted` | `Accounted` | `UpdatesFindRoom`, `NoneHalf`, `KeepsChains` |

| hypothesis | without it |
|---|---|
| `UpdatesFindRoom`: an overwrite finds a block for its value | it stores a null pointer in the entry and leaves it there (`MCHashtable_FullUpdate`) |
| `KeepsChains`: the first of several entries of a chain is not deleted | the whole chain goes (`MCHashtable_DeleteHead`): pairs vanish, their blocks leak, and `size` counts them still |
| `KeysDiffer`: keys of one bucket differ in length | two keys are one (`MCHashtable_SameLength`) |
| `NoneHalf`: an insert finds its three blocks or not even the first | the blocks it got are lost until the next memory check, which is what `CheckReclaims` is about |
| `Total <= SizeT`: `ht->size`, a `size_t`, can count the entries that fit | it wraps |

Inserts may fail at any of their three allocations in all of them but `TableAccounted`, so
`TableIsMap` includes that a refused set changes nothing a caller can see. The runs
`table_calls` (room for every overwrite), `chains` and, with its failing inserts,
`table_full` are instances as long as nobody dies.

The second group is about one death in `ht_set` (`OneCrash`: `MaxCrashes = 1` and `CrashIn`
has `"set"` at most) of a key that is not there, between any two of its stores, and the
recovery: `CrashNeverLost` (`NeverLost`), `CrashReclaimed` (`PoolConsistent`,
`CheckReclaims`) and `CrashIsMap` (`MapSpec`: afterwards the pair is there or is not there,
and every other pair is what it was). The hypothesis is `LogCovers`, and for `CrashIsMap`
again `KeysDiffer` and `KeepsChains`. Its conjuncts are `UpdatesFindRoom` and:

| conjunct of `LogCovers` | without it |
|---|---|
| `DiesInNew`: the key is new | an overwrite is not logged, and a death in its `lmc_free` tears the free list, which no recovery repairs (`MCHashtable_OverlapAfterCrash`) |
| `DiesInNew`: the block that becomes the entry holds 0 where the value's offset goes | the entry is linked before that store, so that the recovery takes what the memory held before for the old value and frees it (`MCHashtable_StaleValue`) |
| `RedoFindsRoom`: if the entry was linked, there is a fourth block | `ht_redo` takes the path of an overwrite then and allocates the value anew; in a full pool it stores the null pointer, as in `MCHashtable_FullUpdate` |

A second crash is excluded because that path leaves the log open (`MCHashtable_TwoCrashes`).
`table_crash` explores the same deaths, and those in overwrites too, which in its small pool
end well; what comes before the crash is more general in the theorems: any calls, deletes
and clears included, any hash, any failed inserts. `SizeMatches` is not among the
conclusions, because the redo of a linked insert does not count it.

`TableInv` is the invariant. None of the properties is inductive: the memory check says that
there is no null pointer and no block that is used twice *if* the chains end, and that a
call keeps it so depends on every block it does not touch. `Sound(m, c, U)` says it with
two witnesses, the chains `c` as sequences of block addresses and the set `U` of the blocks
that are allocated:

- `Stored`: the free list and `U` are as in the allocator's invariant, with no overlap, no
  word lost and no free neighbours, and every block of `U` has its size in its header;
- `Tied`: following the pointers from a bucket gives its `c`, to the null pointer; no entry
  is in two places; the table and the entries, keys and values of all chains are all
  different blocks, and they are in `U`.

`U` may hold more than that: what a failed insert or a dropped chain leaks. `Tight` says
that it does not, after a check or a clear. One lemma per stretch of `ht_set` and
`ht_delete` says what it makes of `c` and `U`: a failed insert adds the blocks it got to
`U`; an insert puts one entry before the chain it goes to; an overwrite changes one value
pointer; a delete takes one entry out of a chain or drops the chain. As the chains differ in
their blocks, a store into one block changes the walk of one bucket at most. `Chain` is a
recursive function; that it is `c` is proved from its value at every step. The memory check
frees what is not marked, which is the rest of `U`: `SweepFact` says that releasing the gaps
from the lowest one up never meets an overlap and leaves no word lost.

`TableImplements` has the keys along `c` as its refinement mapping, so that what is proved of
the iteration on chains holds of the table in memory under the same hypotheses.

`Accounted` is not inductive either: `TightInv` adds to `TableInv` that some witness is
tight, and that a call keeps it follows from how the same lemmas change `Spare`, the blocks
of `U` that nothing points to. For `TableIsMap` the invariant is `MapInv`: the keys along
the chains, each in its own bucket, are all different (`Orderly`), and the cells of the
entries, key and value, are the pairs `seen` has (`Reads`). `View` is those keys, the cells
and the counter; a set, a delete, a clear change it in the way `Enters`, `Renews` and their like
say, and what callers see is a function of it. `TableSize` is that, with the counter equal to the
number of cells (`Counted`).

`CrashInv` says of a pool between calls what `TableInv` says, that before the crash the log
is closed, and of a pool in which a process died that it is `Half`: it is the table
from before (`Begun`), with an open log whose key and value, if both are there, are the
ones of the call; or the table with the new entry first in its chain (`Made`), whose value
may be 0 still. `RedoFact` says of both what `ht_redo` makes of them: the table from before
or the one with the pair, the hole filled by the overwrite, because `lmc_free` of the null
pointer returns at once. The memory check then finds `Sound` and frees the rest. The hole
is why the lemmas about overwrites are stated for an entry whose value may be null
(`HasHole`). `MapCrashInv` adds the two maps that may come of it (`Pending`).

### Only model-checked

- Of the hash table in memory, what its theorems exclude: deaths in overwrites
  (`table_crash`) and in deletes and clears (`table_full`), which hold in the cases only
  that the bounds of those runs name, and `Accounted` after the recovery from a crash.
- Liveness: `EveryCallReturns`, `Recovers`, `IterationEnds`. TLAPS has no rules for
  `ENABLED`, which fairness needs.

TLC evaluates the assumptions of `LmcChunks` and `LmcValloc` in `allocator`, those of the
other modules in their own runs.

## What is not modelled

- The rounding of requests above 4 GB, `lmc_hash` and the cleaning of names. The models
  have the results, with the bucket and the length of a string as constants. Above 4 GB
  `round_to_next_power_of_2` does not reach a power of two; what it returns is no less than
  it was asked for.
- In `LmcHashtable` all processes attach with the same `min_alloc_size`, and nobody calls
  `LocalMemCache.check` on a pool that is up, which would store a 0; `LmcPool` has both. A
  clear that finds no room for the table is in `LmcPool` only.
- A death inside `lmc_init_memory` while the first block of the pool is in use, which it is
  in a pool that has been full: the words of the block are then read as a chunk, the first
  of them, 32 or more, as an offset in the descriptor.
- A null `va_value` makes the memory check read the word in front of the mapping: it dies
  there, with the check lock taken, or returns 0. In `LmcHashtable` both are a check that
  fails and a recovery that is `"lost"`; what a checker that dies leaves behind is in
  `MCLocking_CheckerDies.cfg`.
- In `LmcCheck`, and so in `LmcHashtable`, the search for leaks frees whole gaps. The byte
  `LmcBitmap` finds it may lose is far below the words in which `LmcHashtable` counts; that
  a later search can free that byte alone and write a chunk descriptor over its neighbour
  is noted with the hazard of that search, and no property is about it.
- In `LmcBitmap` the bound of a stride never wraps below 0: a block ends behind the
  descriptor, which has more bytes than a stride has bits (`BitmapAssumption`).
- Why `open`, `lseek`, `write` or `mmap` fail; that the whole create fails is
  `lmc_shm_create_fails`. Failures of `malloc`; the version of the pool, of which there is
  one.
- In `LmcPool` an attach is one step and a recovery two, with the outcomes `LmcLocking`
  finds for them. A forced create that finds the flag set in a pool without a table is
  only in `LmcLocking`.
- A torn pool in `LmcLocking` and `LmcPool` is a token: whether a repair works is decided
  by `LmcHashtable` and left open by `RepairOutcomes`. A crash inside the recovery leaves
  locks as they are but does not tear the table any further.
- The conversions of the Ruby binding; that a handle that was closed raises once more
  when it is collected; `size`, which reads the counter without a lock.
- In a restart of the machine (`Restart` in `LmcLocking`) the file is as the processes
  left it; pages that were not written back are not modelled.
- A signal during a wait (`EINTR`), and macOS, where waits have no timeout.
- Strings and entries with blocks of different sizes in `LmcHashtable`; `LmcValloc` has them.
- What a recovery does to a file of 4 GB or more, of which it maps a part, beyond the byte it
  writes and the table it may not reach (`CheckFaults` in `LmcPool`).

## What comes next

1. Deaths in an overwrite outside `lmc_free`, which leave the old value or the new one and
   a block that leaks: `CrashInv` would need a third case.
2. Which torn free lists the memory check can accept without harm. A list whose blocks were
   not merged keeps all but `Coalesced` of the allocator's invariant; that it is enough, as
   long as no later free grows the wrong chunk, is what `table_full` finds for its deletes.
3. Liveness, with a prover that has rules for `ENABLED`.
