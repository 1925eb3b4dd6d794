------------------------------ MODULE LmcChunks ------------------------------
(***************************************************************************)
(* The chunk arithmetic of src/src/lmc_valloc.c: what one call of          *)
(* lmc_valloc and __lmc_free does to the list of free chunks.              *)
(*                                                                         *)
(* The free list is a sequence of chunks in list order (not in address     *)
(* order), the way md->first_free and the next fields thread it through    *)
(* the pool.  A chunk is [va, size]: its offset from the base of the pool  *)
(* and its length.  Offsets are counted in machine words: every request is *)
(* rounded to a power of two of at least four words, and rounding bytes to *)
(* a power of two commutes with counting words there.  A used block is     *)
(* named by the offset of its size header, the pointer lmc_valloc returns  *)
(* minus Word.                                                             *)
(***************************************************************************)
EXTENDS Integers, Sequences, FiniteSets, FiniteSetsExt, SequencesExt

CONSTANTS
    Word,       \* sizeof(size_t): the header in front of a used block
    MdSize,     \* sizeof(lmc_mem_descriptor_t): the words no chunk may use
    Total       \* lmc_total_shm_size: descriptor and chunks

\* sizeof(lmc_mem_chunk_descriptor_t): the words next and size.
Desc == 2 * Word

\* The pool holds the descriptor, which starts with the two words the walk
\* of __lmc_free reads as a chunk at offset 0, and at least one chunk.
LayoutAssumption ==
    /\ Word \in Nat \ {0}
    /\ MdSize \in Nat
    /\ Total \in Nat
    /\ Desc <= MdSize
    /\ MdSize + Desc <= Total

ASSUME LayoutAssumption

-----------------------------------------------------------------------------
Chunk == [va : Nat, size : Nat]

End(c) == c.va + c.size

Words(c) == c.va .. End(c) - 1

\* Two chunks have no word in common.
Apart(c, d) == End(c) <= d.va \/ End(d) <= c.va

lmc_max(a, b) == IF a > b THEN a ELSE b

\* The powers of two the shifts of round_to_next_power_of_2 can produce from
\* the requests of a model (below the 2^32 at which the missing shift tells).
PowersOfTwo == {2 ^ i : i \in 0 .. 16}

round_to_next_power_of_2(v) ==
    IF v = 0 THEN 0 ELSE Min({n \in PowersOfTwo : n >= v})

\* The block a request is served from: room for the header, for a chunk
\* descriptor once it is free again, and at least min_alloc_size.
BlockSize(size, minAlloc) ==
    lmc_max(minAlloc, round_to_next_power_of_2(lmc_max(size + Word, Desc + Word)))

-----------------------------------------------------------------------------
(***************************************************************************)
(* lmc_valloc: first fit, from the end of the chunk; a remainder that      *)
(* could not hold a chunk descriptor goes with the block.                  *)
(***************************************************************************)
\* A slip: only a larger chunk fits.
Fits_larger(free, s) == {k \in DOMAIN free : free[k].size > s}

Fits(free, s) == {k \in DOMAIN free : free[k].size >= s}

\* Slips: the block takes more than there is, or leaves a fragment.
Taken_descriptor(c, s) == IF c.size - s < Desc THEN s + Desc ELSE s

Taken_exactly(c, s) == s

Taken(c, s) == IF c.size - s < Desc THEN c.size ELSE s

\* The block and the free list lmc_valloc leaves; only when Fits is not empty.
Carve(free, s) ==
    LET k == Min(Fits(free, s))
        c == free[k]
        t == Taken(c, s)
    IN  [block |-> [va |-> End(c) - t, size |-> t],
         free  |-> IF t = c.size THEN RemoveAt(free, k)
                   ELSE [free EXCEPT ![k].size = c.size - t]]

-----------------------------------------------------------------------------
(***************************************************************************)
(* lmc_compact_free_chunks: chunk k has just grown; merge it with the      *)
(* first chunk of the list that ends where it starts or starts where it    *)
(* ends.  The list predecessor of k is looked at only as the predecessor   *)
(* to unlink k from, never as a neighbour to merge.                        *)
(***************************************************************************)
\* A slip: only the chunks below.
Mergeable_below(free, k) == {j \in DOMAIN free \ {k - 1, k} : End(free[j]) = free[k].va}

Mergeable(free, k) ==
    {j \in DOMAIN free \ {k - 1, k} :
        End(free[j]) = free[k].va \/ End(free[k]) = free[j].va}

\* Chunk a grows by chunk b, which leaves the list.
Fuse(free, a, b) == RemoveAt([free EXCEPT ![a].size = @ + free[b].size], b)

\* A slip: the chunk above is never unlinked.
MergeUp_linked(free, j, k) == [free EXCEPT ![k].size = @ + free[j].size]

\* chunk k grows, then the chunk j above it is unlinked from the list
\* predecessor the walk remembers: none when j is the head of the list.
MergeUp(free, j, k) ==
    IF j = 1 THEN [free EXCEPT ![k].size = @ + free[j].size]
    ELSE Fuse(free, k, j)

\* A slip: no merge.
Compact_nothing(free, k) == free

\* The merge with a chunk j below unlinks k first and grows j last.
Compact(free, k) ==
    IF Mergeable(free, k) = {} THEN free
    ELSE LET j == Min(Mergeable(free, k))
         IN  IF End(free[j]) = free[k].va THEN Fuse(free, j, k)
             ELSE MergeUp(free, j, k)

-----------------------------------------------------------------------------
(***************************************************************************)
(* __lmc_free: the first chunk of the list the block touches grows by it;  *)
(* a block inside or at the edge of a free chunk is refused ("Was pointer  *)
(* already freed?"); a block that touches none becomes the list head.      *)
(***************************************************************************)
Touched(free, u) ==
    {k \in DOMAIN free :
        \/ End(u) = free[k].va
        \/ free[k].va <= u.va /\ u.va <= End(free[k])}

\* A slip: a chunk above the block gets only the block's size.
Absorb_shrinks(free, u, k) ==
    IF End(free[k]) = u.va
    THEN [free EXCEPT ![k].size = @ + u.size]
    ELSE [free EXCEPT ![k] = [va |-> u.va, size |-> u.size]]

\* The list before compaction, and the chunk compaction starts from.
Absorb(free, u, k) ==
    IF End(free[k]) = u.va
    THEN [free EXCEPT ![k].size = @ + u.size]
    ELSE [free EXCEPT ![k] = [va |-> u.va, size |-> u.size + free[k].size]]

AlreadyFree(free, u, k) == End(free[k]) # u.va /\ End(u) # free[k].va

Release(free, u) ==
    IF Touched(free, u) = {} THEN <<u>> \o free
    ELSE LET k == Min(Touched(free, u))
         IN  IF AlreadyFree(free, u, k) THEN free
             ELSE Compact(Absorb(free, u, k), k)

-----------------------------------------------------------------------------
(***************************************************************************)
(* What it means for a free list and a set of blocks to make up a pool.    *)
(***************************************************************************)
\* b lies behind the descriptor, inside the pool, and has room for the two
\* words __lmc_free stores when it links b into the free list.
Linkable(b) == MdSize <= b.va /\ Desc <= b.size /\ End(b) <= Total

AllLinkable(f, blocks) ==
    /\ \A k \in DOMAIN f : Linkable(f[k])
    /\ \A u \in blocks : Linkable(u)

AllApart(f, blocks) ==
    /\ \A j, k \in DOMAIN f : j # k => Apart(f[j], f[k])
    /\ \A k \in DOMAIN f : \A u \in blocks : Apart(f[k], u)
    /\ \A u, v \in blocks : u # v => Apart(u, v)

Covered(f, blocks) ==
    \A w \in MdSize .. Total - 1 :
        \/ \E k \in DOMAIN f : w \in Words(f[k])
        \/ \E u \in blocks : w \in Words(u)

Separate(f) == \A j, k \in DOMAIN f : End(f[j]) # f[k].va

=============================================================================
