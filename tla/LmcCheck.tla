------------------------------- MODULE LmcCheck -------------------------------
(***************************************************************************)
(* What a crash leaves of the free list, and what the memory check of the  *)
(* recovery (the lmc_um_ functions of src/src/lmc_valloc.c) makes of it.   *)
(***************************************************************************)
EXTENDS LmcChunks

(***************************************************************************)
(* A process may die between any two stores of __lmc_free and              *)
(* lmc_compact_free_chunks (the places LMC_TEST_CRASH marks).  These are   *)
(* the lists it can leave behind besides the one before and the one after. *)
(***************************************************************************)
TornCompact(free, k) ==
    IF Mergeable(free, k) = {} THEN {}
    ELSE LET j == Min(Mergeable(free, k))
         IN  IF End(free[j]) = free[k].va
             THEN {RemoveAt(free, k)}                          \* unlinked, j not grown
             ELSE {[free EXCEPT ![k].size = @ + free[j].size]} \* grown, j not unlinked

TornRelease(free, u) ==
    IF Touched(free, u) = {} THEN {}
    ELSE LET k == Min(Touched(free, u))
         IN  IF AlreadyFree(free, u, k) THEN {}
             ELSE {Absorb(free, u, k)} \union TornCompact(Absorb(free, u, k), k)

-----------------------------------------------------------------------------
(***************************************************************************)
(* The usage bitmap: the descriptor, every chunk of the free list and      *)
(* every block of the hash table are marked, in that order.  Marking fails *)
(* if a word is marked twice or a block leaves the pool.                   *)
(***************************************************************************)
Descriptor == [va |-> 0, size |-> MdSize]

lmc_is_va_valid(va) == 0 <= va /\ va <= Total

Markable(b) ==
    b.va \in 0 .. MdSize \/ (lmc_is_va_valid(b.va) /\ lmc_is_va_valid(End(b)))

\* free and blocks are sequences: a block listed twice is marked twice.
AllMarked(free, blocks) ==
    LET all == <<Descriptor>> \o free \o blocks
    IN  /\ \A i \in DOMAIN all : Markable(all[i])
        /\ Cardinality(UNION {Words(all[i]) : i \in DOMAIN all})
               = Cardinality(UNION {{i} \X Words(all[i]) : i \in DOMAIN all})

Unmarked(free, blocks) ==
    LET all == <<Descriptor>> \o free \o blocks
    IN  (0 .. Total - 1) \ UNION {Words(all[i]) : i \in DOMAIN all}

\* A gap is a maximal run of unmarked words; it is freed at the first word after.
EndsGap(words, i) == i - 1 \in words /\ i \notin words

GapBefore(words, i) ==
    LET gs == Min({a \in 0 .. i - 1 : a .. i - 1 \subseteq words})
    IN  [va |-> gs, size |-> i - gs]

Gaps(words) == {GapBefore(words, i) : i \in {j \in 1 .. Total : EndsGap(words, j)}}

\* Slip: only one gap is freed.
lmc_um_find_one_leak(free, blocks) ==
    LET gaps == Gaps(Unmarked(free, blocks))
    IN  IF gaps = {} THEN free ELSE Release(free, CHOOSE g \in gaps : TRUE)

\* lmc_um_find_leaks hands every gap to __lmc_free, from the lowest one up:
\* swept[i] is the free list when the words below i have been looked at.
lmc_um_find_leaks(free, blocks) ==
    LET words == Unmarked(free, blocks)
        swept[i \in 0 .. Total] ==
            IF i = 0 THEN free
            ELSE IF EndsGap(words, i) THEN Release(swept[i - 1], GapBefore(words, i))
            ELSE swept[i - 1]
    IN  swept[Total]

=============================================================================
