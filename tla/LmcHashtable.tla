----------------------------- MODULE LmcHashtable -----------------------------
(***************************************************************************)
(* The hash table of src/src/lmc_hashtable.c in the pool of                *)
(* src/src/lmc_valloc.c, used by one holder of the namespace lock at a     *)
(* time, any of whom may die inside a call; the recovery of                *)
(* __local_memcache_check_namespace then redoes the logged operation and   *)
(* checks the memory.                                                      *)
(*                                                                         *)
(* The pool is a memory image.  A call is described by the image it leaves *)
(* and by the images it leaves if the process dies between two stores.     *)
(* Every block has at least four words, and only its first four are looked *)
(* at: keys and values are shorter than eight bytes, so a string never     *)
(* reaches the fourth, the one that holds va_value in an entry.            *)
(*                                                                         *)
(* All processes attach with the same min_alloc_size, and nobody calls     *)
(* LocalMemCache.check on a pool that is up (it attaches with 0).  A call  *)
(* works on the table its handle knows (lmc->va_hash), here on mem.hash:   *)
(* the same as long as HashStays holds, else the table of a process that   *)
(* attached or cleared since it moved.                                     *)
(***************************************************************************)
EXTENDS LmcCheck

CONSTANTS
    Keys, Values,
    Scrap,          \* what the words of a free chunk read as, taken for a string
    Buckets,        \* 0 .. LMC_HT_BUCKETS - 1
    BucketOf,       \* ht_hash_key: the bucket of a string
    LengthOf,       \* the length of a string
    MinAlloc,       \* md->min_alloc_size once a process has attached
    HashWords,      \* sizeof(ht_hash_t)
    Calls,          \* the calls a client makes: "set", "add" (a set of a key
                    \* that is not there), "delete", "clear", "check"
    CrashIn,        \* the calls a process may die in
    MaxCrashes,     \* how often that happens
    NoValue         \* ht_get returned 0

Strings == Keys \union Values \union {Scrap}

ASSUME TableAssumption ==
    /\ IsFiniteSet(Buckets) /\ Buckets = 0 .. Cardinality(Buckets) - 1
    /\ BucketOf \in [Strings -> Buckets]
    /\ LengthOf \in [Strings -> Nat]
    /\ Calls \subseteq {"set", "add", "delete", "clear", "check"}
    /\ CrashIn \subseteq {"set", "delete", "clear"}
    /\ MaxCrashes \in Nat
    /\ NoValue \notin Strings

VARIABLES
    mem,        \* the pool
    status,     \* "up", "down": a holder died in a call, "lost": the
                \* recovery reported RecoveryFailed, or died of a null pointer
    seen,       \* what the callers saw in the table when it was last up
    result,     \* the last call that returned: its key, its value, its result
    would,      \* what it may hold once that call is recovered
    crashes

vars == <<mem, status, seen, result, would, crashes>>

-----------------------------------------------------------------------------
(***************************************************************************)
(* Blocks.  An address is the offset of a block's header; 0 is the null    *)
(* pointer.  The first words of a block are header, the two words of body  *)
(* (length and bytes of a string, or va_next and va_key of an entry) and   *)
(* value.  The words of a freed block keep what was stored there last; the *)
(* first three read as next, size and scrap where a free chunk starts.     *)
(***************************************************************************)
\* The smallest block of lmc_valloc, of four words.
Unit == BlockSize(1, 0)

\* The block of a string or an entry, and that of the table: at first, when
\* min_alloc_size is still 0, and after a clear, which leaves it as it is.
BlockWords == BlockSize(1, MinAlloc)

FirstHash == BlockSize(HashWords, 0)

HashBlock == BlockSize(HashWords, MinAlloc)

Addr == {0} \union {a \in MdSize .. Total - 1 : (a - MdSize) % Unit = 0}

\* What an entry's block has for a body.
EntryWords == [next : Addr, key : Addr]

\* The pool is a row of smallest blocks, which are in the range where the
\* rounding of sizes rounds up; it has room for the table and something beside it
\* (the clear that finds none is in LmcPool); a string is not an entry.  A death
\* in a clear that moves the table would leave two tables.
ASSUME BlockAssumption ==
    /\ Unit \in Nat /\ Unit >= Desc
    /\ (Total - MdSize) % Unit = 0
    /\ \A s \in {BlockWords, FirstHash, HashBlock} :
           s \in Nat /\ s >= Unit /\ s % Unit = 0
    /\ MdSize + FirstHash < Total
    /\ MdSize + HashBlock < Total
    /\ Strings \intersect EntryWords = {}
    /\ "clear" \in CrashIn => HashBlock = FirstHash

\* ht->size is a size_t and wraps, here at 2^16.
SizeT == 2 ^ 16

\* md->log: op is op_id = LMC_OP_HT_SET, key is p1, value is p2.
NoLog == [op |-> FALSE, key |-> 0, value |-> 0]

Str(m, va) == IF m.body[va] \in Strings THEN m.body[va] ELSE Scrap

\* Slip: the list holds pointers to blocks, not to chunks.
WithFree_block_pointers(m, f) ==
    LET NextOf(k) == IF k < Len(f) THEN f[k + 1].va ELSE 0
        Heads     == {f[k].va : k \in DOMAIN f}
    IN  [m EXCEPT !.free = f,
                  !.header = [a \in Addr |-> IF a \in Heads THEN 0 - Word ELSE @[a]]]

\* The free list f, threaded through the first words of its chunks.
WithFree(m, f) ==
    LET Heads     == {f[k].va : k \in DOMAIN f}
        At(a)     == CHOOSE k \in DOMAIN f : f[k].va = a
        NextOf(k) == IF k < Len(f) THEN f[k + 1].va ELSE 0
    IN  [m EXCEPT
            !.free   = f,
            !.header = [a \in Addr |-> IF a \in Heads THEN NextOf(At(a)) ELSE @[a]],
            !.body   = [a \in Addr |-> IF a \in Heads THEN Scrap ELSE @[a]]]

CanAlloc(m) == Fits(m.free, BlockWords) # {}

Allocated(m) == Carve(m.free, BlockWords).block

Granted(m, carved) ==
    [WithFree(m, carved.free) EXCEPT !.header[carved.block.va] = carved.block.size]

Reserved(m, s) == Granted(m, Carve(m.free, s))

Alloc(m) == Reserved(m, BlockWords)

\* lmc_ht_strdup: the string is in its block before anything points there.
Strdup(m, s) == [Alloc(m) EXCEPT !.body[Allocated(m).va] = s]

\* lmc_free: nothing for 0; the size is read from the block's header.
Block(m, va) == [va |-> va, size |-> m.header[va]]

lmc_free(m, va) ==
    IF va = 0 THEN m ELSE WithFree(m, Release(m.free, Block(m, va)))

Torn_free(m, va) ==
    IF va = 0 THEN {}
    ELSE {WithFree(m, f) : f \in TornRelease(m.free, Block(m, va))}

-----------------------------------------------------------------------------
(***************************************************************************)
(* Chains.  The comparison of the key bytes in ht_lookup and ht_delete has *)
(* no effect (its continue belongs to the inner loop): an entry of the     *)
(* bucket matches if its key has the length of the one looked for.         *)
(***************************************************************************)
\* An entry a free chunk was written over: the memory check stops there.
NoEntry == [next |-> 0, key |-> 0]

Entry(m, va) == IF m.body[va] \in Strings THEN NoEntry ELSE m.body[va]

Chain(m, b) ==
    LET walk[n \in 0 .. Cardinality(Addr)] ==
            [va \in Addr |->
                IF va = 0 \/ n = 0 THEN <<>>
                ELSE <<va>> \o walk[n - 1][Entry(m, va).next]]
    IN  walk[Cardinality(Addr)][m.bucket[b]]

Matches(m, va, k) == LengthOf[Str(m, m.body[va].key)] = LengthOf[k]

\* The position in the chain at which ht_lookup and ht_delete stop, 0 if none.
Position(m, chain, k) ==
    LET hits == {i \in DOMAIN chain : Matches(m, chain[i], k)}
    IN  IF hits = {} THEN 0 ELSE Min(hits)

\* 0 stands for lmc_null_node.
EntryAt(chain, i) == IF i = 0 THEN 0 ELSE chain[i]

LookupIn(m, chain, k) == EntryAt(chain, Position(m, chain, k))

ht_lookup(m, k) == LookupIn(m, Chain(m, BucketOf[k]), k)

ValueOf(m, va) == IF va = 0 \/ m.value[va] = 0 THEN NoValue ELSE Str(m, m.value[va])

ht_get(m, k) == ValueOf(m, ht_lookup(m, k))

Contents(m) == [k \in Keys |-> ht_get(m, k)]

-----------------------------------------------------------------------------
(***************************************************************************)
(* Calls: [mem, ok] is the image and the result of a call that returns,    *)
(* torn the set of images of one that does not.                            *)
(***************************************************************************)
Torn(call, images) == IF call \in CrashIn THEN images ELSE {}

lmc_log_op(m) == [m EXCEPT !.log = [op |-> TRUE, key |-> 0, value |-> 0]]

lmc_log_finish(m) == [m EXCEPT !.log = NoLog]

\* ht_set of a key that is not there: three allocations, each of which may
\* fail, then the stores that make the entry.  n is the image so far, torn the
\* images a crash may have left before it.
Failed(n, torn) ==
    [mem |-> lmc_log_finish(n), ok |-> FALSE,
     torn |-> Torn("set", torn \union {n, lmc_log_finish(n)})]

LogValue(n, va) == [n EXCEPT !.log.value = va]

LogKey(n, va) == [n EXCEPT !.log.key = va]

FillEntry(n, va, k) ==
    [n EXCEPT !.body[va] = [next |-> n.bucket[BucketOf[k]], key |-> n.log.key]]

Link(n, va, k) == [n EXCEPT !.bucket[BucketOf[k]] = va]

StoreValue(n, va) == [n EXCEPT !.value[va] = n.log.value]

Count(n) == [n EXCEPT !.size = (@ + 1) % SizeT]

Finish(n, torn) ==
    [mem |-> lmc_log_finish(n), ok |-> TRUE,
     torn |-> Torn("set", torn \union {n, [n EXCEPT !.log.op = FALSE], lmc_log_finish(n)})]

InsertCount(n, torn) == Finish(Count(n), torn \union {n})

InsertValue(n, va, torn) == InsertCount(StoreValue(n, va), torn \union {n})

InsertLink(n, va, k, torn) == InsertValue(Link(n, va, k), va, torn \union {n})

InsertEntry(n, va, k, torn) ==
    InsertLink(FillEntry(Alloc(n), va, k), va, k, torn \union {n, Alloc(n)})

InsertFresh(n, k, torn) ==
    IF ~CanAlloc(n) THEN Failed(n, torn) ELSE InsertEntry(n, Allocated(n).va, k, torn)

InsertKey(n, k, torn) ==
    IF ~CanAlloc(n) THEN Failed(n, torn)
    ELSE InsertFresh(LogKey(Strdup(n, k), Allocated(n).va), k, torn \union {n, Strdup(n, k)})

InsertLogged(n, k, v, torn) ==
    IF ~CanAlloc(n) THEN Failed(n, torn)
    ELSE InsertKey(LogValue(Strdup(n, v), Allocated(n).va), k, torn \union {n, Strdup(n, v)})

Insert(m, k, v) ==
    InsertLogged(lmc_log_op(m), k, v, {m, [m EXCEPT !.log.op = TRUE]})

\* Slip: the entry keeps the pointer to the value that is freed.
Update_keeps_pointer(m, va, v) ==
    [mem |-> lmc_free(Strdup(m, v), m.value[va]), ok |-> TRUE, torn |-> {}]

\* ht_set of a key whose entry is va: not logged; a failed lmc_ht_strdup is
\* stored into va_value all the same.
Overwrite(m, copied, stored, old) ==
    [mem |-> lmc_free(stored, old), ok |-> TRUE,
     torn |-> Torn("set", {m, copied, stored, lmc_free(stored, old)}
                              \union Torn_free(stored, old))]

Update(m, va, v) ==
    IF CanAlloc(m)
    THEN Overwrite(m, Strdup(m, v),
                   [Strdup(m, v) EXCEPT !.value[va] = Allocated(m).va], m.value[va])
    ELSE [mem |-> [m EXCEPT !.value[va] = 0], ok |-> FALSE,
          torn |-> Torn("set", {m, [m EXCEPT !.value[va] = 0]})]

\* Slip: an overwritten key counts as a new one.
ht_set_counts_updates(m, k, v) ==
    LET va == ht_lookup(m, k)
    IN  IF va = 0 \/ m.body[va].key = 0 THEN Insert(m, k, v)
        ELSE [Update(m, va, v) EXCEPT !.mem.size = @ + 1]

\* Slip: a full pool is not reported.
ht_set_always_ok(m, k, v) ==
    LET va == ht_lookup(m, k)
    IN  [(IF va = 0 THEN Insert(m, k, v) ELSE Update(m, va, v)) EXCEPT !.ok = TRUE]

SetAt(m, va, k, v) ==
    IF va = 0 \/ m.body[va].key = 0 THEN Insert(m, k, v) ELSE Update(m, va, v)

ht_set(m, k, v) == SetAt(m, ht_lookup(m, k), k, v)

\* Slip: nothing is unlinked.
ht_delete_nothing(m, k) == [mem |-> m, ok |-> ht_lookup(m, k) # 0, torn |-> {}]

\* Slip: what follows the entry is unlinked with it.
Unlink_rest(m, chain, i, k) ==
    IF i > 1 THEN [m EXCEPT !.body[chain[i - 1]].next = 0]
    ELSE [m EXCEPT !.bucket[BucketOf[k]] = 0]

\* ht_delete: an entry with a predecessor is unlinked from it; for the first
\* entry of the chain the bucket is set to 0.
Unlink(m, chain, i, k) ==
    IF i > 1 THEN [m EXCEPT !.body[chain[i - 1]].next = m.body[chain[i]].next]
    ELSE [m EXCEPT !.bucket[BucketOf[k]] = 0]

Uncount(n, torn) ==
    [mem |-> [n EXCEPT !.size = (@ - 1) % SizeT], ok |-> TRUE,
     torn |-> Torn("delete", torn \union {n, [n EXCEPT !.size = (@ - 1) % SizeT]})]

FreeEntry(n, va, torn) == Uncount(lmc_free(n, va), torn \union {n} \union Torn_free(n, va))

FreeValue(n, value, va, torn) ==
    FreeEntry(lmc_free(n, value), va, torn \union {n} \union Torn_free(n, value))

FreeKey(n, key, value, va, torn) ==
    FreeValue(lmc_free(n, key), value, va, torn \union {n} \union Torn_free(n, key))

DeleteAt(m, chain, i, k) ==
    IF i = 0 THEN [mem |-> m, ok |-> FALSE, torn |-> Torn("delete", {m})]
    ELSE FreeKey(Unlink(m, chain, i, k), m.body[chain[i]].key, m.value[chain[i]], chain[i], {m})

DeleteIn(m, chain, k) == DeleteAt(m, chain, Position(m, chain, k), k)

ht_delete(m, k) == DeleteIn(m, Chain(m, BucketOf[k]), k)

-----------------------------------------------------------------------------
(***************************************************************************)
(* Recovery.                                                               *)
(***************************************************************************)
\* Slip: nothing is redone.
ht_redo_nothing(m) == m

\* Slip: the key is redone as its own value.
ht_redo_key_twice(m) ==
    IF ~m.log.op \/ m.log.key = 0 \/ m.log.value = 0 THEN m
    ELSE ht_set(m, Str(m, m.log.key), Str(m, m.log.key)).mem

\* ht_redo: the result of ht_set is ignored, and only the insert path of
\* ht_set closes the log.
ht_redo(m) ==
    IF ~m.log.op \/ m.log.key = 0 \/ m.log.value = 0 THEN m
    ELSE ht_set(m, Str(m, m.log.key), Str(m, m.log.value)).mem

\* What ht_check_memory marks of one chain: each entry, its key and its value.
PointersOf(m, chain) ==
    [j \in 1 .. 3 * Len(chain) |->
        LET va == chain[(j + 2) \div 3]
        IN  CASE j % 3 = 1 -> va
              [] j % 3 = 2 -> Entry(m, va).key
              [] OTHER     -> m.value[va]]

Pointers(m) ==
    LET upTo[b \in 0 .. Cardinality(Buckets)] ==
            IF b = 0 THEN <<>> ELSE upTo[b - 1] \o PointersOf(m, Chain(m, b - 1))
    IN  upTo[Cardinality(Buckets)]

\* The table's own block, then what the pointers point to.
Blocks(m, pointers) ==
    <<Block(m, m.hash)>> \o [j \in DOMAIN pointers |-> Block(m, pointers[j])]

Live(m) == Blocks(m, Pointers(m))

\* Slip: leaks are looked for and left.
ht_check_memory_only(m) == m

\* ht_check_memory: whether it returns 1, and the image it leaves if so.  For a
\* null va_value it marks the block at -Word, which is outside the pool: it reads
\* the size there before it looks, in front of the mapping, and dies or returns 0.
ConsistentWith(m, pointers) ==
    /\ ~ \E j \in DOMAIN pointers : pointers[j] = 0
    /\ AllMarked(m.free, Blocks(m, pointers))

Consistent(m) == ConsistentWith(m, Pointers(m))

ht_check_memory(m) == WithFree(m, lmc_um_find_leaks(m.free, Live(m)))

-----------------------------------------------------------------------------
(***************************************************************************)
(* Making and clearing the pool.                                           *)
(***************************************************************************)
\* lmc_init_memory of a pool that is in use: the log and the words of the
\* blocks, the table's included, stay.
lmc_init_memory(m) == WithFree(m, <<[va |-> MdSize, size |-> Total - MdSize]>>)

\* ht_hash_create and the store of md->va_hash; memset zeroes the buckets one
\* by one.
Zeroed(m, some) == [m EXCEPT !.bucket = [b \in Buckets |-> IF b \in some THEN 0 ELSE @[b]]]

Emptied(m) == [Zeroed(m, Buckets) EXCEPT !.size = 0]

ht_hash_create(m, s) == [Emptied(Reserved(m, s)) EXCEPT !.hash = Carve(m.free, s).block.va]

\* A new file is all zeroes.
EmptyPool ==
    ht_hash_create(lmc_init_memory(
        [free   |-> <<>>,
         header |-> [a \in Addr |-> 0],
         body   |-> [a \in Addr |-> Scrap],
         value  |-> [a \in Addr |-> 0],
         bucket |-> [b \in Buckets |-> 0],
         hash   |-> 0,
         size   |-> 0,
         log    |-> NoLog]), FirstHash)

\* Slip: the new table is allocated from what is left of the pool.
Cleared_in_place(m) ==
    IF Fits(m.free, HashBlock) # {}
    THEN [mem |-> ht_hash_create(m, HashBlock), ok |-> TRUE, torn |-> {}]
    ELSE [mem |-> m, ok |-> FALSE, torn |-> {}]

\* lmc_init_memory stores first_free, next and size, in this order (the other
\* stores repeat what is there).  Before the last one the list starts with
\* whatever is at MdSize.  If that is a free chunk, the list is what follows it,
\* then this chunk alone.  If it is a block in use, in a pool that has been full,
\* its words are read as a chunk, and the list leads into the descriptor: those
\* two images are left out.
Torn_list(m) ==
    UNION {{WithFree(m, SubSeq(m.free, k, Len(m.free))), WithFree(m, <<m.free[k]>>)} :
               k \in {j \in DOMAIN m.free : m.free[j].va = MdSize}}

\* local_memcache_clear from lmc_init_memory on.
Remade(m, n) ==
    [mem  |-> ht_hash_create(n, HashBlock), ok |-> TRUE,
     torn |-> Torn("clear", {m, n} \union Torn_list(m)
                  \union {Zeroed(Reserved(n, HashBlock), some) : some \in SUBSET Buckets}
                  \union {Emptied(Reserved(n, HashBlock))})]

Cleared(m) == Remade(m, lmc_init_memory(m))

\* The result of a check or of a clear that returned 1.
Checked == [key |-> NoValue, value |-> NoValue, ok |-> TRUE]

Init ==
    /\ mem = EmptyPool
    /\ status = "up"
    /\ seen = Contents(EmptyPool)
    /\ result = Checked
    /\ would = {}
    /\ crashes = 0

\* A call on key k that returns; v is the value to be stored, none for a delete.
Return(call, k, v) ==
    /\ mem' = call.mem
    /\ seen' = Contents(call.mem)
    /\ result' = [key |-> k, value |-> v, ok |-> call.ok]
    /\ UNCHANGED <<status, would, crashes>>

\* A call the process dies in; next is what the table would have held.
Die(call, next) ==
    /\ crashes < MaxCrashes
    /\ mem' \in call.torn
    /\ status' = "down"
    /\ would' = {seen, next}
    /\ crashes' = crashes + 1
    /\ UNCHANGED <<seen, result>>

\* Whether the clients of this run set k.
Sets(k) == "set" \in Calls \/ ("add" \in Calls /\ seen[k] = NoValue)

Set(k, v) == status = "up" /\ Sets(k) /\ Return(ht_set(mem, k, v), k, v)

Delete(k) ==
    status = "up" /\ "delete" \in Calls /\ Return(ht_delete(mem, k), k, NoValue)

NoPairs == [k \in Keys |-> NoValue]

Clear ==
    /\ status = "up"
    /\ "clear" \in Calls
    /\ Return(Cleared(mem), NoValue, NoValue)

\* local_memcache_check_consistency.
Check ==
    /\ status = "up"
    /\ "check" \in Calls
    /\ Consistent(mem)
    /\ mem' = ht_check_memory(mem)
    /\ seen' = Contents(mem')
    /\ result' = Checked
    /\ UNCHANGED <<status, would, crashes>>

DieInSet(k, v) ==
    /\ status = "up"
    /\ Sets(k)
    /\ Die(ht_set(mem, k, v), [seen EXCEPT ![k] = v])

DieInDelete(k) ==
    /\ status = "up"
    /\ "delete" \in Calls
    /\ Die(ht_delete(mem, k), [seen EXCEPT ![k] = NoValue])

DieInClear ==
    /\ status = "up"
    /\ "clear" \in Calls
    /\ Die(Cleared(mem), NoPairs)

\* __local_memcache_check_namespace with the region lock flag still set.  One
\* that fails leaves flag and semaphore as they are: the next caller that times
\* out tries again, and redoes the logged operation once more.
Repaired(m) ==
    /\ Consistent(m)
    /\ mem' = ht_check_memory(m)
    /\ status' = "up"
    /\ seen' = Contents(mem')
    /\ would' = {}
    /\ result' = Checked
    /\ UNCHANGED crashes

GivenUp(m) ==
    /\ ~Consistent(m)
    /\ mem' = m
    /\ status' = "lost"
    /\ UNCHANGED <<seen, result, would, crashes>>

Recover == status # "up" /\ LET m == ht_redo(mem) IN Repaired(m) \/ GivenUp(m)

Next ==
    \/ \E k \in Keys, v \in Values : Set(k, v) \/ DieInSet(k, v)
    \/ \E k \in Keys : Delete(k) \/ DieInDelete(k)
    \/ Clear
    \/ DieInClear
    \/ Check
    \/ Recover

Spec == Init /\ [][Next]_vars

-----------------------------------------------------------------------------
(***************************************************************************)
(* Properties.                                                             *)
(***************************************************************************)
Pairs == {k \in Keys : seen[k] # NoValue}

Held == ToSet(Live(mem))

\* Every word of the pool is free or in use.
Whole == Covered(mem.free, Held)

\* Every offset the pool stores is null or that of a block of the pool, and
\* the records the recovery reads have their type.
TypeOK ==
    /\ \A k \in DOMAIN mem.free : mem.free[k] \in Chunk
    /\ mem.hash \in Addr \ {0}
    /\ mem.header \in [Addr -> Nat]
    /\ mem.value \in [Addr -> Addr]
    /\ mem.bucket \in [Buckets -> Addr]
    /\ mem.log \in [op : BOOLEAN, key : Addr, value : Addr]
    /\ mem.size \in 0 .. SizeT - 1
    /\ status \in {"up", "down", "lost"}
    /\ crashes \in 0 .. MaxCrashes

\* ht_check_memory, run at any time between two calls, finds no null pointer
\* in a chain, no block two pointers share and no block that is free: every
\* free of ht_set and ht_delete gave back the block nobody points to any more.
PoolConsistent == status = "up" => Consistent(mem)

\* Between two calls the free list and the table part the pool between them: no
\* word is in two chunks or blocks, and none is in neither, because every call
\* gave back what it allocated in vain or unlinked.
Accounted == status = "up" => Consistent(mem) /\ Whole

\* ht->size counts the entries a caller can look up.
SizeMatches == status = "up" => mem.size = Cardinality(Pairs)

\* __local_memcache_check_namespace never reports RecoveryFailed, nor dies of a
\* null pointer in a chain.
NeverLost == status # "lost"

\* The memory check and the clear leave no word of the pool neither free nor in
\* use: what a failed set, a crash or a dropped chain leaked is free again.
CheckReclaims == status = "up" /\ result = Checked => Whole

\* The table stays where it is while the pool exists: every process reads
\* md->va_hash when it attaches, and uses that copy until it clears the pool
\* itself, whoever else clears or repairs the pool meanwhile.  It takes a
\* min_alloc_size that is not above the block the table had at first.
HashStays == [][mem'.hash = mem.hash]_vars

KeyAt(va) == Str(mem, mem.body[va].key)

KeyChains == [b \in Buckets |-> LET c == Chain(mem, b) IN [i \in DOMAIN c |-> KeyAt(c[i])]]

Table == INSTANCE LmcTable WITH chain <- KeyChains

\* The chains are those of LmcTable: a new entry comes first, a delete takes
\* its own entry out of the middle and the rest of the chain with the first
\* one, a clear empties all of them, and nothing else moves an entry.
TableSpec == Table!Spec

\* Seen from outside, the table is the map of LmcMap: a call that returned 1
\* took effect on its key and on no other, one that returned 0 changed nothing,
\* and one its process died in has, after the recovery, happened or not happened.
Map == INSTANCE LmcMap WITH
    db <- seen,
    up <- status = "up"

MapSpec == Map!Spec

=============================================================================
