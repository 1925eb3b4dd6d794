------------------------------ MODULE LmcValloc ------------------------------
(***************************************************************************)
(* The allocator of src/src/lmc_valloc.c as a component: the pool of one   *)
(* namespace, allocated from and freed to by the holder of its lock.       *)
(***************************************************************************)
EXTENDS LmcChunks

CONSTANTS
    Requests,       \* the sizes callers ask lmc_valloc for
    MinAllocs       \* the sizes callers pass to lmc_set_min_alloc_size

\* Requests and minimal sizes are in the range where the rounding rounds up.
RequestAssumption ==
    /\ Requests \subseteq Nat
    /\ \A n \in Requests : LET v == lmc_max(n + Word, Desc + Word)
                           IN  /\ round_to_next_power_of_2(v) \in Nat
                               /\ round_to_next_power_of_2(v) >= v
    /\ \A n \in MinAllocs : round_to_next_power_of_2(n) \in Nat

ASSUME RequestAssumption

VARIABLES
    free,       \* the free list, from md->first_free along next
    used,       \* the blocks handed out and not freed since (their headers)
    minAlloc,   \* md->min_alloc_size
    result      \* the block the last call of lmc_valloc returned, or what it refused

vars == <<free, used, minAlloc, result>>

\* What lmc_valloc returns when no chunk is large enough for a request of n:
\* 0; the size asked for is kept beside it.
Refused(n) == [va |-> 0, size |-> n]

-----------------------------------------------------------------------------
lmc_init_memory ==
    /\ free = << [va |-> MdSize, size |-> Total - MdSize] >>
    /\ used = {}
    /\ minAlloc = 0
    /\ result = Refused(0)

lmc_set_min_alloc_size(n) ==
    /\ minAlloc' = round_to_next_power_of_2(n)
    /\ UNCHANGED <<free, used, result>>

\* lmc_valloc(n), split on whether some chunk is large enough.
lmc_valloc(n) ==
    LET s == BlockSize(n, minAlloc)
        r == Carve(free, s)
    IN  /\ n # 0
        /\ Fits(free, s) # {}
        /\ free' = r.free
        /\ used' = used \union {r.block}
        /\ result' = r.block
        /\ UNCHANGED minAlloc

lmc_valloc_fails(n) ==
    /\ n = 0 \/ Fits(free, BlockSize(n, minAlloc)) = {}
    /\ result' = Refused(n)
    /\ UNCHANGED <<free, used, minAlloc>>

\* lmc_free of a block in use.
lmc_free(u) ==
    /\ free' = Release(free, u)
    /\ used' = used \ {u}
    /\ UNCHANGED <<minAlloc, result>>

Init == lmc_init_memory

Next ==
    \/ \E n \in Requests : lmc_valloc(n) \/ lmc_valloc_fails(n)
    \/ \E u \in used : lmc_free(u)
    \/ \E n \in MinAllocs : lmc_set_min_alloc_size(n)

Spec == Init /\ [][Next]_vars

-----------------------------------------------------------------------------
TypeOK ==
    /\ free \in Seq(Chunk)
    /\ used \subseteq Chunk
    /\ minAlloc \in Nat
    /\ result \in Chunk

\* Every chunk and block lies between the descriptor and the end of the pool
\* and can hold a chunk descriptor, so linking it into the list writes inside
\* it: __lmc_free stores next and size into whatever it is given.
InPool == AllLinkable(free, used)

\* No word belongs to two chunks, two blocks, or a chunk and a block: splitting,
\* absorbing and merging never hand the same memory out twice.
NoOverlap == AllApart(free, used)

\* No word is lost: each one is in a chunk of the list or in a block in use,
\* whatever the order of calls and whatever remainder went with a block.
NoWordLost == Covered(free, used)

\* No two free chunks are neighbours, although the list is not sorted and
\* compaction makes one merge only: __lmc_free absorbs the block into the
\* first neighbour it meets and lmc_compact_free_chunks finds the other one.
Coalesced == Separate(free)

\* Freeing everything gives back one chunk that spans the pool, whatever was
\* allocated and freed before in whatever order.
FreeRestoresPool ==
    used = {} => free = << [va |-> MdSize, size |-> Total - MdSize] >>

-----------------------------------------------------------------------------
\* What the allocator promises, without the free list.
Heap == INSTANCE LmcHeap

HeapSpec == Heap!Spec

=============================================================================
