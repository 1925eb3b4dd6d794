-------------------------- MODULE LmcValloc_proofs --------------------------
(***************************************************************************)
(* The allocator keeps every word of the pool in exactly one chunk or      *)
(* block and never leaves two free chunks side by side, for every pool     *)
(* size, every request and every order of calls.                           *)
(***************************************************************************)
EXTENDS LmcValloc, LmcChunks_proofs

-----------------------------------------------------------------------------
(***************************************************************************)
(* The allocator.                                                          *)
(***************************************************************************)

\* Every request asks for a block that can hold a chunk descriptor.
LEMMA BlockSizeFact ==
    ASSUME NEW n \in Requests, NEW a \in Nat
    PROVE  BlockSize(n, a) \in Nat /\ BlockSize(n, a) >= Desc
<1> DEFINE v == lmc_max(n + Word, Desc + Word)
           q == round_to_next_power_of_2(v)
<1>1. Word \in Nat /\ n \in Nat /\ Desc \in Nat
  BY LayoutAssumption, RequestAssumption, DescFact
     DEF LayoutAssumption, RequestAssumption
<1>2. v >= Desc
  BY <1>1 DEF lmc_max
<1>3. v \in Nat
  BY <1>1 DEF lmc_max
<1> HIDE DEF v
<1>4. q \in Nat /\ q >= v
  BY RequestAssumption DEF RequestAssumption, v
<1>5. BlockSize(n, a) = lmc_max(a, q)
  BY DEF BlockSize, v
<1> HIDE DEF q
<1> QED
  BY <1>1, <1>2, <1>3, <1>4, <1>5 DEF lmc_max

\* The inductive invariant: the pool is tiled, no two free chunks are
\* neighbours (without which compaction could find a second neighbour, or one
\* at the head of the list, which it cannot unlink).
IInv ==
    /\ TypeOK
    /\ InPool
    /\ NoOverlap
    /\ NoWordLost
    /\ Coalesced

LEMMA PoolIsInv == IInv <=> /\ minAlloc \in Nat /\ result \in Chunk
                            /\ Pool(free, used) /\ Separate(free)
BY DEF IInv, TypeOK, InPool, NoOverlap, NoWordLost, Coalesced, Pool

LEMMA RefusedFact == ASSUME NEW n \in Nat PROVE Refused(n) \in Chunk
BY NewChunkFact DEF Refused

\* lmc_init_memory lays out one free chunk behind the descriptor.
LEMMA InitInv == Init => IInv
<1> SUFFICES ASSUME Init
             PROVE  /\ minAlloc \in Nat /\ result \in Chunk
                    /\ Pool(free, used) /\ Separate(free)
  BY PoolIsInv
<1>1. /\ free = << [va |-> MdSize, size |-> Total - MdSize] >>
      /\ used = {} /\ minAlloc = 0 /\ result = Refused(0)
  BY DEF Init, lmc_init_memory
<1> QED
  BY <1>1, WholePoolFact, RefusedFact

\* Every call keeps the pool.
LEMMA StepInv == IInv /\ [Next]_vars => IInv'
<1> SUFFICES ASSUME minAlloc \in Nat, result \in Chunk,
                    Pool(free, used), Separate(free), [Next]_vars
             PROVE  /\ minAlloc' \in Nat /\ result' \in Chunk
                    /\ Pool(free', used') /\ Separate(free')
  <2>1. IInv' <=> /\ minAlloc' \in Nat /\ result' \in Chunk
                  /\ Pool(free', used') /\ Separate(free')
    BY DEF IInv, TypeOK, InPool, NoOverlap, NoWordLost, Coalesced, Pool
  <2> QED
    BY <2>1, PoolIsInv
<1>1. ASSUME NEW n \in Requests, lmc_valloc(n)
      PROVE  /\ minAlloc' \in Nat /\ result' \in Chunk
             /\ Pool(free', used') /\ Separate(free')
  <2> DEFINE s == BlockSize(n, minAlloc)
             r == Carve(free, s)
  <2>1. s \in Nat /\ s >= Desc
    BY BlockSizeFact
  <2>2. /\ Fits(free, s) # {} /\ free' = r.free /\ used' = used \union {r.block}
        /\ result' = r.block /\ minAlloc' = minAlloc
    BY <1>1 DEF lmc_valloc
  <2> HIDE DEF s
  <2>3. r.block \in Chunk /\ Pool(r.free, used \union {r.block}) /\ Separate(r.free)
    BY <2>1, <2>2, CarveFact
  <2> QED
    BY <2>2, <2>3
<1>2. ASSUME NEW n \in Requests, lmc_valloc_fails(n)
      PROVE  /\ minAlloc' \in Nat /\ result' \in Chunk
             /\ Pool(free', used') /\ Separate(free')
  <2>1. n \in Nat
    BY RequestAssumption DEF RequestAssumption
  <2> QED
    BY <1>2, <2>1, RefusedFact DEF lmc_valloc_fails
<1>3. ASSUME NEW u \in used, lmc_free(u)
      PROVE  /\ minAlloc' \in Nat /\ result' \in Chunk
             /\ Pool(free', used') /\ Separate(free')
  BY <1>3, ReleaseFact DEF lmc_free
<1>4. ASSUME NEW n \in MinAllocs, lmc_set_min_alloc_size(n)
      PROVE  /\ minAlloc' \in Nat /\ result' \in Chunk
             /\ Pool(free', used') /\ Separate(free')
  BY <1>4, RequestAssumption DEF lmc_set_min_alloc_size, RequestAssumption
<1>5. CASE UNCHANGED vars
  BY <1>5 DEF vars
<1> QED
  BY <1>1, <1>2, <1>3, <1>4, <1>5 DEF Next

\* The allocator never hands the same word out twice, never writes a chunk
\* descriptor outside the block it links, never loses a word and never leaves
\* two free chunks side by side.
THEOREM AllocatorInvariant == Spec => []IInv
BY InitInv, StepInv, PTL DEF Spec

\* Free list, blocks and results have their types in every reachable state.
THEOREM TypeCorrect == Spec => []TypeOK
<1>1. IInv => TypeOK
  BY DEF IInv
<1> QED
  BY <1>1, AllocatorInvariant, PTL

\* Every free and every later split or merge stores next and size inside the
\* pool and behind the descriptor.
THEOREM LinksStayInPool == Spec => []InPool
<1>1. IInv => InPool
  BY DEF IInv
<1> QED
  BY <1>1, AllocatorInvariant, PTL

\* No word is in two chunks or blocks at once.
THEOREM NoDoubleAllocation == Spec => []NoOverlap
<1>1. IInv => NoOverlap
  BY DEF IInv
<1> QED
  BY <1>1, AllocatorInvariant, PTL

\* No word leaks: it is always in the free list or in a block in use.
THEOREM NoLeak == Spec => []NoWordLost
<1>1. IInv => NoWordLost
  BY DEF IInv
<1> QED
  BY <1>1, AllocatorInvariant, PTL

\* One merge per lmc_free is enough to leave no two free neighbours.
THEOREM NoFragments == Spec => []Coalesced
<1>1. IInv => Coalesced
  BY DEF IInv
<1> QED
  BY <1>1, AllocatorInvariant, PTL

\* Freeing every block restores the single chunk lmc_init_memory made.
THEOREM FreeAllRestoresPool == Spec => []FreeRestoresPool
<1>1. IInv => FreeRestoresPool
  BY PoolIsInv, EmptyPoolFact DEF FreeRestoresPool
<1> QED
  BY <1>1, AllocatorInvariant, PTL

-----------------------------------------------------------------------------
(***************************************************************************)
(* The allocator implements the heap.                                      *)
(***************************************************************************)
\* The heap's copies of the chunk operators are the allocator's.
LEMMA HeapTerms ==
    /\ Heap!Desc = Desc
    /\ \A c : Heap!End(c) = End(c)
    /\ \A c, d : Heap!Apart(c, d) <=> Apart(c, d)
    /\ \A n : Heap!round_to_next_power_of_2(n) = round_to_next_power_of_2(n)
    /\ \A n, a : Heap!BlockSize(n, a) = BlockSize(n, a)
<1>1. Heap!Desc = Desc
  BY DEF Heap!Desc, Desc
<1>2. \A c : Heap!End(c) = End(c)
  BY DEF Heap!End, End
<1>3. \A c, d : Heap!Apart(c, d) <=> Apart(c, d)
  BY <1>2 DEF Heap!Apart, Apart
<1>4. \A n : Heap!round_to_next_power_of_2(n) = round_to_next_power_of_2(n)
  <2>1. Heap!PowersOfTwo = PowersOfTwo
    BY Zenon DEF Heap!PowersOfTwo, PowersOfTwo
  <2>2. \A S : Heap!Min(S) = Min(S)
    BY Zenon DEF Heap!Min, Min
  <2> QED
    BY <2>1, <2>2, Zenon DEF Heap!round_to_next_power_of_2, round_to_next_power_of_2
<1>5. \A n, a : Heap!BlockSize(n, a) = BlockSize(n, a)
  BY <1>1, <1>4 DEF Heap!BlockSize, BlockSize, Heap!lmc_max, lmc_max
<1> QED
  BY <1>1, <1>2, <1>3, <1>4, <1>5

LEMMA HeapInit == Init => Heap!Init
BY DEF Init, lmc_init_memory, Heap!Init, Refused, Heap!Refused

\* Every call of the allocator is the heap's operation of the same kind: it
\* grants a hole that is large enough, and refuses only if there is none.
LEMMA HeapStep == IInv /\ [Next]_vars => [Heap!Next]_(Heap!hvars)
<1> SUFFICES ASSUME minAlloc \in Nat, result \in Chunk,
                    Pool(free, used), Separate(free), [Next]_vars
             PROVE  Heap!Next \/ UNCHANGED Heap!hvars
  BY PoolIsInv
<1>1. ASSUME NEW n \in Requests, lmc_valloc(n)
      PROVE  Heap!Alloc(n)
  <2> DEFINE s == BlockSize(n, minAlloc)
             r == Carve(free, s)
             b == r.block
  <2>1. s \in Nat /\ s >= Desc
    BY BlockSizeFact
  <2>2. /\ n # 0 /\ Fits(free, s) # {} /\ used' = used \union {b}
        /\ result' = b /\ minAlloc' = minAlloc
    BY <1>1 DEF lmc_valloc
  <2> HIDE DEF s
  <2>3. b \in Chunk /\ b.size >= s /\ Linkable(b) /\ \A u \in used : Apart(b, u)
    BY <2>1, <2>2, CarveFact
  <2> HIDE DEF b, r
  <2>4. Heap!Hole(b)
    BY <2>3, HeapTerms DEF Heap!Hole, Linkable
  <2>5. b \in Heap!Extent
    <3>1. b.va \in Nat /\ b.size \in Nat /\ End(b) = b.va + b.size
          /\ b = [va |-> b.va, size |-> b.size]
      BY <2>3, ChunkFact
    <3>2. b.va \in MdSize .. Total /\ b.size \in Desc .. Total
      BY <2>3, <3>1, DescFact DEF Linkable
    <3> QED
      BY <3>1, <3>2, HeapTerms DEF Heap!Extent
  <2> QED
    BY <2>2, <2>3, <2>4, <2>5, HeapTerms DEF Heap!Alloc, s
<1>2. ASSUME NEW n \in Requests, lmc_valloc_fails(n)
      PROVE  Heap!Refuse(n)
  <2> DEFINE s == BlockSize(n, minAlloc)
  <2>1. s \in Nat /\ s >= Desc
    BY BlockSizeFact
  <2>2. ASSUME n # 0, NEW a \in MdSize .. Total,
               Heap!Hole([va |-> a, size |-> s])
        PROVE  FALSE
    <3> DEFINE b == [va |-> a, size |-> s]
    <3> HIDE DEF s
    <3>1. b \in Chunk /\ b.size = s /\ b.size > 0 /\ Heap!Hole(b)
      BY <2>1, <2>2, DescFact, NewChunkFact
    <3> HIDE DEF b
    <3>2. PICK k \in DOMAIN free : free[k].va <= b.va /\ End(b) <= End(free[k])
      BY <2>2, <3>1, HoleFact, HeapTerms DEF Heap!Hole
    <3>3. /\ free[k].va \in Nat /\ free[k].size \in Nat
          /\ End(free[k]) = free[k].va + free[k].size
          /\ b.va \in Nat /\ b.size \in Nat /\ End(b) = b.va + b.size
      BY <3>1, ListFact, ChunkFact DEF Pool
    <3>4. free[k].size >= s
      BY <2>1, <3>1, <3>2, <3>3
    <3>5. Fits(free, s) # {}
      BY <3>4 DEF Fits
    <3> QED
      BY <1>2, <2>2, <3>5 DEF lmc_valloc_fails, s
  <2> QED
    BY <1>2, <2>2, HeapTerms DEF lmc_valloc_fails, Heap!Refuse, Refused, Heap!Refused
<1>3. ASSUME NEW u \in used, lmc_free(u)
      PROVE  Heap!Free(u)
  BY <1>3 DEF lmc_free, Heap!Free
<1>4. ASSUME NEW n \in MinAllocs, lmc_set_min_alloc_size(n)
      PROVE  Heap!SetMinAlloc(n)
  BY <1>4, HeapTerms DEF lmc_set_min_alloc_size, Heap!SetMinAlloc
<1>5. CASE UNCHANGED vars
  BY <1>5 DEF vars, Heap!hvars
<1> QED
  BY <1>1, <1>2, <1>3, <1>4, <1>5 DEF Next, Heap!Next

\* First fit with compaction implements the heap callers rely on.
THEOREM ImplementsHeap == Spec => HeapSpec
<1>1. Init => Heap!Init
  BY HeapInit
<1>2. IInv /\ [Next]_vars => [Heap!Next]_(Heap!hvars)
  BY HeapStep
<1> QED
  BY <1>1, <1>2, AllocatorInvariant, PTL DEF Spec, HeapSpec, Heap!Spec

=============================================================================
