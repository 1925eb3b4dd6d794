------------------------- MODULE LmcHashtable_proofs -------------------------
(***************************************************************************)
(* The hash table in the memory of its pool.  First, for every step and    *)
(* every crash, that md->va_hash never changes.  Then, while no process    *)
(* dies in a call: that the pool is a table whose entries share no block,  *)
(* so that the memory check always passes; that no word is lost; that the  *)
(* entries move as LmcTable says; that callers see the map of LmcMap.  At  *)
(* last, with one process that dies in ht_set of a new key: that ht_redo   *)
(* and the memory check make such a pool, and that map, of what it left.   *)
(***************************************************************************)
EXTENDS LmcHashtable, LmcChunks_proofs

-----------------------------------------------------------------------------
(***************************************************************************)
(* The place of the table.                                                 *)
(***************************************************************************)
IsImage(m) == "hash" \in DOMAIN m /\ "free" \in DOMAIN m

\* n is an image of the pool of m, with the table at the same place.
SamePlace(m, n) == IsImage(m) /\ DOMAIN n = DOMAIN m /\ n.hash = m.hash

\* So are the images a call leaves, whether its process returns or dies.
KeepsPlace(m, call) ==
    SamePlace(m, call.mem) /\ \A n \in call.torn : SamePlace(m, n)

\* Where the table is made in a pool without blocks.
Whole1 == <<[va |-> MdSize, size |-> Total - MdSize]>>

Home == Carve(Whole1, FirstHash).block.va

HomeInv == IsImage(mem) /\ mem.hash = Home

\* Threading a free list through the pool leaves md->va_hash alone.
LEMMA ListPlace ==
    ASSUME NEW m, NEW n, SamePlace(m, n), NEW f
    PROVE  SamePlace(m, WithFree(n, f))
BY DEF SamePlace, WithFree, IsImage

\* So do lmc_valloc and lmc_ht_strdup.
LEMMA AllocPlace ==
    ASSUME NEW m, NEW n, SamePlace(m, n)
    PROVE  /\ \A z : SamePlace(m, Reserved(n, z))
           /\ SamePlace(m, Alloc(n)) /\ \A s : SamePlace(m, Strdup(n, s))
<1>1. ASSUME NEW z PROVE SamePlace(m, Reserved(n, z))
  <2> DEFINE x == WithFree(n, Carve(n.free, z).free)
  <2>1. SamePlace(m, x)
    BY ListPlace
  <2> QED
    BY <2>1 DEF Reserved, Granted, SamePlace
<1>2. SamePlace(m, Alloc(n))
  BY <1>1 DEF Alloc
<1> QED
  BY <1>1, <1>2 DEF Strdup, SamePlace

\* So does lmc_free, whether it returns or not.
LEMMA FreePlace ==
    ASSUME NEW m, NEW n, SamePlace(m, n), NEW va
    PROVE  /\ SamePlace(m, lmc_free(n, va))
           /\ \A t \in Torn_free(n, va) : SamePlace(m, t)
BY ListPlace DEF lmc_free, Torn_free

\* So do the stores into the log,
LEMMA LogPlace ==
    ASSUME NEW m, NEW n, SamePlace(m, n)
    PROVE  /\ SamePlace(m, lmc_log_op(n)) /\ SamePlace(m, lmc_log_finish(n))
           /\ SamePlace(m, [n EXCEPT !.log.op = TRUE])
           /\ SamePlace(m, [n EXCEPT !.log.op = FALSE])
           /\ \A va : SamePlace(m, LogValue(n, va)) /\ SamePlace(m, LogKey(n, va))
BY DEF lmc_log_op, lmc_log_finish, LogValue, LogKey, SamePlace, IsImage

\* and those that make an entry.
LEMMA EntryPlace ==
    ASSUME NEW m, NEW n, SamePlace(m, n), NEW va, NEW k
    PROVE  /\ SamePlace(m, FillEntry(n, va, k)) /\ SamePlace(m, Link(n, va, k))
           /\ SamePlace(m, StoreValue(n, va)) /\ SamePlace(m, Count(n))
BY DEF FillEntry, Link, StoreValue, Count, SamePlace, IsImage

\* An insertion that gave up or is through.
LEMMA EndPlace ==
    ASSUME NEW m, NEW n, SamePlace(m, n), NEW torn, \A t \in torn : SamePlace(m, t)
    PROVE  KeepsPlace(m, Failed(n, torn)) /\ KeepsPlace(m, Finish(n, torn))
<1>1. /\ SamePlace(m, lmc_log_finish(n))
      /\ SamePlace(m, [n EXCEPT !.log.op = FALSE])
  BY LogPlace
<1>2. KeepsPlace(m, Failed(n, torn))
  BY <1>1, Zenon DEF Failed, Torn, KeepsPlace
<1>3. KeepsPlace(m, Finish(n, torn))
  <2>1. /\ Finish(n, torn).mem = lmc_log_finish(n)
        /\ \A t \in Finish(n, torn).torn : t \in torn \/ t = n \/ t = [n EXCEPT !.log.op = FALSE]
                                           \/ t = lmc_log_finish(n)
    BY Zenon DEF Finish, Torn
  <2> QED
    BY <1>1, <2>1, Zenon DEF KeepsPlace
<1> QED
  BY <1>2, <1>3

\* ht_set from the allocation of the entry on.
LEMMA InsertEntryPlace ==
    ASSUME NEW m, NEW n, SamePlace(m, n), NEW torn, \A t \in torn : SamePlace(m, t), NEW va, NEW k
    PROVE  KeepsPlace(m, InsertEntry(n, va, k, torn))
<1> DEFINE n1 == FillEntry(Alloc(n), va, k)
           n2 == Link(n1, va, k)
           n3 == StoreValue(n2, va)
           n4 == Count(n3)
           t1 == torn \union {n, Alloc(n)}
           t2 == t1 \union {n1}
           t3 == t2 \union {n2}
           t4 == t3 \union {n3}
<1>1. SamePlace(m, Alloc(n))
  BY AllocPlace
<1>2. SamePlace(m, n1)
  BY <1>1, EntryPlace
<1>3. InsertEntry(n, va, k, torn) = Finish(n4, t4)
  BY Zenon DEF InsertEntry, InsertLink, InsertValue, InsertCount
<1> HIDE DEF n1
<1>4. SamePlace(m, n2)
  BY <1>2, EntryPlace
<1> HIDE DEF n2
<1>5. SamePlace(m, n3)
  BY <1>4, EntryPlace
<1> HIDE DEF n3
<1>6. SamePlace(m, n4)
  BY <1>5, EntryPlace
<1> HIDE DEF n4
<1>7. \A t \in t4 : SamePlace(m, t)
  BY <1>1, <1>2, <1>4, <1>5, Zenon
<1> HIDE DEF t4
<1> QED
  BY <1>3, <1>6, <1>7, EndPlace, Zenon

\* ht_set of a new key.
LEMMA InsertPlace ==
    ASSUME NEW m, IsImage(m), NEW k, NEW v
    PROVE  KeepsPlace(m, Insert(m, k, v))
<1>1. ASSUME NEW n, SamePlace(m, n), NEW torn, \A t \in torn : SamePlace(m, t)
      PROVE  KeepsPlace(m, InsertFresh(n, k, torn))
  BY <1>1, EndPlace, InsertEntryPlace, Zenon DEF InsertFresh
<1>2. ASSUME NEW n, SamePlace(m, n), NEW torn, \A t \in torn : SamePlace(m, t)
      PROVE  KeepsPlace(m, InsertKey(n, k, torn))
  <2>1. SamePlace(m, Strdup(n, k))
    BY <1>2, AllocPlace
  <2>2. SamePlace(m, LogKey(Strdup(n, k), Allocated(n).va))
    BY <2>1, LogPlace
  <2>3. \A t \in torn \union {n, Strdup(n, k)} : SamePlace(m, t)
    BY <1>2, <2>1, Zenon
  <2> QED
    BY <1>1, <1>2, <2>2, <2>3, EndPlace, Zenon DEF InsertKey
<1>3. ASSUME NEW n, SamePlace(m, n), NEW torn, \A t \in torn : SamePlace(m, t)
      PROVE  KeepsPlace(m, InsertLogged(n, k, v, torn))
  <2>1. SamePlace(m, Strdup(n, v))
    BY <1>3, AllocPlace
  <2>2. SamePlace(m, LogValue(Strdup(n, v), Allocated(n).va))
    BY <2>1, LogPlace
  <2>3. \A t \in torn \union {n, Strdup(n, v)} : SamePlace(m, t)
    BY <1>3, <2>1, Zenon
  <2> QED
    BY <1>2, <1>3, <2>2, <2>3, EndPlace, Zenon DEF InsertLogged
<1>4. SamePlace(m, m)
  BY DEF SamePlace
<1>5. SamePlace(m, lmc_log_op(m)) /\ SamePlace(m, [m EXCEPT !.log.op = TRUE])
  BY <1>4, LogPlace
<1>6. \A t \in {m, [m EXCEPT !.log.op = TRUE]} : SamePlace(m, t)
  BY <1>4, <1>5, Zenon
<1> QED
  BY <1>3, <1>5, <1>6, Zenon DEF Insert

\* ht_set of a key that is there.
LEMMA UpdatePlace ==
    ASSUME NEW m, IsImage(m), NEW va, NEW v
    PROVE  KeepsPlace(m, Update(m, va, v))
<1> DEFINE copied == Strdup(m, v)
           stored == [copied EXCEPT !.value[va] = Allocated(m).va]
           failed == [m EXCEPT !.value[va] = 0]
           old    == m.value[va]
<1>0. SamePlace(m, m)
  BY DEF SamePlace
<1>1. SamePlace(m, copied)
  BY <1>0, AllocPlace
<1>2. SamePlace(m, failed)
  BY DEF SamePlace, IsImage
<1> HIDE DEF copied
<1>3. SamePlace(m, stored)
  BY <1>1 DEF SamePlace, IsImage
<1> HIDE DEF stored, failed, old
<1>4. /\ SamePlace(m, lmc_free(stored, old))
      /\ \A t \in Torn_free(stored, old) : SamePlace(m, t)
  BY <1>3, FreePlace
<1>5. KeepsPlace(m, Overwrite(m, copied, stored, old))
  BY <1>0, <1>1, <1>3, <1>4, Zenon DEF Overwrite, Torn, KeepsPlace
<1>6. KeepsPlace(m, [mem |-> failed, ok |-> FALSE, torn |-> Torn("set", {m, failed})])
  BY <1>0, <1>2, Zenon DEF Torn, KeepsPlace
<1> QED
  BY <1>5, <1>6, Zenon DEF Update, copied, stored, failed, old

\* ht_set.
LEMMA SetPlace ==
    ASSUME NEW m, IsImage(m), NEW k, NEW v
    PROVE  KeepsPlace(m, ht_set(m, k, v))
BY InsertPlace, UpdatePlace, Zenon DEF ht_set, SetAt

\* ht_delete.
LEMMA DeletePlace ==
    ASSUME NEW m, IsImage(m), NEW k
    PROVE  KeepsPlace(m, ht_delete(m, k))
<1>1. ASSUME NEW n, SamePlace(m, n), NEW torn, \A t \in torn : SamePlace(m, t)
      PROVE  KeepsPlace(m, Uncount(n, torn))
  <2> DEFINE less == [n EXCEPT !.size = (@ - 1) % SizeT]
  <2>1. SamePlace(m, less)
    BY <1>1 DEF SamePlace, IsImage
  <2>2. /\ Uncount(n, torn).mem = less
        /\ \A t \in Uncount(n, torn).torn : t \in torn \/ t = n \/ t = less
    BY Zenon DEF Uncount, Torn
  <2> QED
    BY <1>1, <2>1, <2>2, Zenon DEF KeepsPlace
<1>2. ASSUME NEW n, SamePlace(m, n), NEW torn, \A t \in torn : SamePlace(m, t), NEW va
      PROVE  KeepsPlace(m, FreeEntry(n, va, torn))
  <2>1. /\ SamePlace(m, lmc_free(n, va))
        /\ \A t \in torn \union {n} \union Torn_free(n, va) : SamePlace(m, t)
    BY <1>2, FreePlace, Zenon
  <2> QED
    BY <1>1, <2>1, Zenon DEF FreeEntry
<1>3. ASSUME NEW n, SamePlace(m, n), NEW torn, \A t \in torn : SamePlace(m, t), NEW va, NEW w
      PROVE  KeepsPlace(m, FreeValue(n, w, va, torn))
  <2>1. /\ SamePlace(m, lmc_free(n, w))
        /\ \A t \in torn \union {n} \union Torn_free(n, w) : SamePlace(m, t)
    BY <1>3, FreePlace, Zenon
  <2> QED
    BY <1>2, <2>1, Zenon DEF FreeValue
<1>4. ASSUME NEW n, SamePlace(m, n), NEW torn, \A t \in torn : SamePlace(m, t), NEW va, NEW w, NEW x
      PROVE  KeepsPlace(m, FreeKey(n, x, w, va, torn))
  <2>1. /\ SamePlace(m, lmc_free(n, x))
        /\ \A t \in torn \union {n} \union Torn_free(n, x) : SamePlace(m, t)
    BY <1>4, FreePlace, Zenon
  <2> QED
    BY <1>3, <2>1, Zenon DEF FreeKey
<1>5. SamePlace(m, m)
  BY DEF SamePlace
<1>6. ASSUME NEW chain, NEW i PROVE SamePlace(m, Unlink(m, chain, i, k))
  BY DEF SamePlace, Unlink, IsImage
<1>7. ASSUME NEW chain, NEW i PROVE KeepsPlace(m, DeleteAt(m, chain, i, k))
  <2>1. CASE i = 0
    BY <1>5, <2>1, Zenon DEF DeleteAt, Torn, KeepsPlace
  <2>2. CASE i # 0
    <3>1. \A t \in {m} : SamePlace(m, t)
      BY <1>5
    <3> QED
      BY <1>4, <1>6, <2>2, <3>1, Zenon DEF DeleteAt
  <2> QED
    BY <2>1, <2>2
<1> QED
  BY <1>7, Zenon DEF ht_delete, DeleteIn

\* local_memcache_clear allocates the table where it was made first, if it asks
\* for as much.
LEMMA ClearPlace ==
    ASSUME HashBlock = FirstHash, NEW m, IsImage(m), m.hash = Home
    PROVE  KeepsPlace(m, Cleared(m))
<1> DEFINE n == lmc_init_memory(m)
           y == Reserved(n, HashBlock)
<1>0. SamePlace(m, m)
  BY DEF SamePlace
<1>1. SamePlace(m, n) /\ n.free = Whole1
  <2>1. SamePlace(m, n)
    BY <1>0, ListPlace DEF lmc_init_memory
  <2>2. n.free = Whole1
    BY DEF lmc_init_memory, WithFree, Whole1, IsImage
  <2> QED
    BY <2>1, <2>2
<1>8. \A t \in Torn_list(m) : SamePlace(m, t)
  <2> TAKE t \in Torn_list(m)
  <2>1. \A f : SamePlace(m, WithFree(m, f))
    BY <1>0, ListPlace
  <2>2. PICK k \in {j \in DOMAIN m.free : m.free[j].va = MdSize} :
            t \in {WithFree(m, SubSeq(m.free, k, Len(m.free))), WithFree(m, <<m.free[k]>>)}
    BY Zenon DEF Torn_list
  <2> QED
    BY <2>1, <2>2, Zenon
<1>7. Cleared(m) = Remade(m, n)
  BY DEF Cleared
<1> HIDE DEF n
<1>2. SamePlace(m, y)
  BY <1>1, AllocPlace
<1>5. SamePlace(m, ht_hash_create(n, HashBlock))
  <2>1. Carve(n.free, HashBlock).block.va = Home
    BY <1>1 DEF Home
  <2>2. SamePlace(m, Emptied(y))
    BY <1>2 DEF SamePlace, Emptied, Zeroed, IsImage
  <2> QED
    BY <2>1, <2>2 DEF SamePlace, ht_hash_create, IsImage
<1> HIDE DEF y
<1>3. ASSUME NEW x, SamePlace(m, x), NEW some PROVE SamePlace(m, Zeroed(x, some))
  BY <1>3 DEF SamePlace, Zeroed, IsImage
<1>4. ASSUME NEW x, SamePlace(m, x) PROVE SamePlace(m, Emptied(x))
  <2>1. SamePlace(m, Zeroed(x, Buckets))
    BY <1>3, <1>4
  <2> QED
    BY <2>1 DEF SamePlace, Emptied, IsImage
<1>6. /\ \A t \in Remade(m, n).torn : \/ t \in Torn_list(m)
                                     \/ t = m \/ t = n \/ t = Emptied(y)
                                     \/ \E some : t = Zeroed(y, some)
      /\ Remade(m, n).mem = ht_hash_create(n, HashBlock)
  BY Zenon DEF Remade, Torn, y
<1> QED
  BY <1>0, <1>1, <1>2, <1>3, <1>4, <1>5, <1>6, <1>7, <1>8, Zenon DEF KeepsPlace

\* ht_redo and ht_check_memory.
LEMMA RedoPlace ==
    ASSUME NEW m, IsImage(m)
    PROVE  SamePlace(m, ht_redo(m)) /\ \A n : SamePlace(m, n) => SamePlace(m, ht_check_memory(n))
<1>1. SamePlace(m, m)
  BY DEF SamePlace
<1>2. SamePlace(m, ht_redo(m))
  BY <1>1, SetPlace, Zenon DEF ht_redo, KeepsPlace
<1>3. ASSUME NEW n, SamePlace(m, n) PROVE SamePlace(m, ht_check_memory(n))
  BY <1>3, ListPlace DEF ht_check_memory
<1> QED
  BY <1>2, <1>3

\* A new pool has its table at Home,
LEMMA HomeInit == Init => HomeInv
<1> DEFINE zero == [free   |-> <<>>,
                    header |-> [a \in Addr |-> 0],
                    body   |-> [a \in Addr |-> Scrap],
                    value  |-> [a \in Addr |-> 0],
                    bucket |-> [b \in Buckets |-> 0],
                    hash   |-> 0,
                    size   |-> 0,
                    log    |-> NoLog]
           n == lmc_init_memory(zero)
<1>1. IsImage(n) /\ n.free = Whole1
  BY DEF IsImage, lmc_init_memory, WithFree, Whole1
<1>2. EmptyPool = ht_hash_create(n, FirstHash)
  BY DEF EmptyPool
<1> HIDE DEF n
<1>3. SamePlace(n, Reserved(n, FirstHash))
  BY <1>1, AllocPlace DEF SamePlace
<1>4. IsImage(Emptied(Reserved(n, FirstHash)))
  BY <1>3 DEF Emptied, Zeroed, SamePlace, IsImage
<1>5. IsImage(ht_hash_create(n, FirstHash)) /\ ht_hash_create(n, FirstHash).hash = Home
  BY <1>1, <1>4 DEF ht_hash_create, IsImage, Home
<1> QED
  BY <1>2, <1>5 DEF Init, HomeInv

\* and it stays there, whatever is called and whoever dies in it.
LEMMA HomeStep ==
    ASSUME HashBlock = FirstHash
    PROVE  HomeInv /\ [Next]_vars => HomeInv' /\ mem'.hash = mem.hash
<1> SUFFICES ASSUME HomeInv, [Next]_vars
             PROVE  SamePlace(mem, mem')
  BY DEF HomeInv, SamePlace, IsImage
<1>0. IsImage(mem) /\ mem.hash = Home /\ SamePlace(mem, mem)
  BY DEF HomeInv, SamePlace
<1>1. ASSUME NEW k \in Keys, NEW v \in Values, Set(k, v) \/ DieInSet(k, v)
      PROVE  SamePlace(mem, mem')
  BY <1>0, <1>1, SetPlace, Zenon DEF Set, DieInSet, Return, Die, KeepsPlace
<1>2. ASSUME NEW k \in Keys, Delete(k) \/ DieInDelete(k)
      PROVE  SamePlace(mem, mem')
  BY <1>0, <1>2, DeletePlace, Zenon DEF Delete, DieInDelete, Return, Die, KeepsPlace
<1>3. CASE Clear \/ DieInClear
  BY <1>0, <1>3, ClearPlace, Zenon DEF Clear, DieInClear, Return, Die, KeepsPlace
<1>4. CASE Check
  BY <1>0, <1>4, RedoPlace, Zenon DEF Check
<1>5. CASE Recover
  BY <1>0, <1>5, RedoPlace, Zenon DEF Recover, Repaired, GivenUp
<1>6. CASE UNCHANGED vars
  BY <1>0, <1>6 DEF vars
<1> QED
  BY <1>1, <1>2, <1>3, <1>4, <1>5, <1>6 DEF Next

\* As long as min_alloc_size is not above the block the table had at first, a
\* clear stores into md->va_hash the offset that was there: the copy of it that
\* every attached process keeps is good for ever, through calls, deaths in the
\* middle of calls and recoveries.  (With a larger one lmc_valloc gives the table
\* more room, further down.)
THEOREM TableStays ==
    ASSUME HashBlock = FirstHash
    PROVE  Spec => HashStays
<1>1. HomeInv /\ [Next]_vars => [mem'.hash = mem.hash]_vars
  BY HomeStep
<1> QED
  BY <1>1, HomeInit, HomeStep, PTL DEF Spec, HashStays

-----------------------------------------------------------------------------
(***************************************************************************)
(* The grid of blocks.                                                     *)
(***************************************************************************)
Multiples == {i * Unit : i \in Nat}

\* What the pool is made of, in numbers.
LEMMA BlockFact ==
    /\ Unit \in Nat /\ Unit >= Desc /\ Unit > 0
    /\ Strings \intersect EntryWords = {}
    /\ (Total - MdSize) % Unit = 0
    /\ MdSize \in Nat /\ Total \in Nat /\ MdSize > 0 /\ MdSize < Total
<1>1. Desc \in Nat /\ Desc > 0 /\ MdSize \in Nat /\ Total \in Nat /\ Desc <= MdSize /\ MdSize + Desc <= Total
  BY DescFact, LayoutAssumption DEF LayoutAssumption
<1>2. Unit \in Nat /\ Unit >= Desc /\ (Total - MdSize) % Unit = 0
      /\ Strings \intersect EntryWords = {}
  BY BlockAssumption, Zenon DEF BlockAssumption
<1> HIDE DEF Unit
<1> QED
  BY <1>1, <1>2

\* Multiples of the smallest block.
LEMMA MultipleFact ==
    ASSUME NEW x \in Multiples, NEW y \in Multiples
    PROVE  /\ x \in Nat
           /\ x + y \in Multiples
           /\ y <= x => x - y \in Multiples
           /\ x > 0 => x >= Unit
<1> DEFINE B == Unit
<1>0. B \in Nat /\ B > 0
  BY BlockFact
<1> HIDE DEF B
<1>1. PICK i \in Nat : x = i * B
  BY DEF Multiples, B
<1>2. PICK j \in Nat : y = j * B
  BY DEF Multiples, B
<1>3. x \in Nat
  BY <1>0, <1>1
<1>4. x + y = (i + j) * B /\ i + j \in Nat
  BY <1>0, <1>1, <1>2
<1>5. ASSUME NEW a \in Nat, NEW b \in Nat, a + 1 <= b PROVE a * B + B <= b * B
  <2>1. (a + 1) * B <= b * B
    BY <1>0, <1>5
  <2>2. (a + 1) * B = a * B + B
    BY <1>0
  <2> QED
    BY <2>1, <2>2
<1>6. ASSUME y <= x PROVE x - y \in Multiples
  <2>1. ~ (i + 1 <= j)
    BY <1>0, <1>1, <1>2, <1>3, <1>5, <1>6
  <2>2. i - j \in Nat
    BY <2>1
  <2>3. x - y = (i - j) * B
    BY <1>0, <1>1, <1>2
  <2> QED
    BY <2>2, <2>3 DEF Multiples, B
<1>7. ASSUME x > 0 PROVE x >= B
  <2>1. i # 0
    BY <1>0, <1>1, <1>7
  <2>2. 0 + 1 <= i
    BY <2>1
  <2>3. 0 * B + B <= i * B
    BY <1>5, <2>2
  <2> QED
    BY <1>0, <1>1, <2>3
<1> QED
  BY <1>3, <1>4, <1>6, <1>7 DEF Multiples, B

\* An offset may be that of a block if it is a multiple of the smallest block
\* behind the descriptor.
LEMMA GridFact ==
    ASSUME NEW a \in Nat, MdSize <= a
    PROVE  (a - MdSize) % Unit = 0 <=> a - MdSize \in Multiples
<1> DEFINE B == Unit
           x == a - MdSize
<1>0. B \in Nat \ {0} /\ x \in Nat
  BY BlockFact
<1> HIDE DEF B, x
<1>1. x \div B \in Nat /\ x % B \in 0 .. B - 1 /\ x = (x \div B) * B + (x % B)
  BY <1>0, DivModFact
<1>2. ASSUME x % B = 0 PROVE x \in Multiples
  <2>1. x = (x \div B) * B
    BY <1>0, <1>1, <1>2
  <2> QED
    BY <1>1, <2>1 DEF Multiples, B
<1>3. ASSUME x \in Multiples PROVE x % B = 0
  <2>1. PICK q \in Nat : x = q * B
    BY <1>3 DEF Multiples, B
  <2>2. q * B <= x /\ x < q * B + B
    BY <1>0, <2>1
  <2>3. x \div B = q
    BY <1>0, <2>2, DivFact
  <2>4. x = x + (x % B)
    BY <1>1, <2>1, <2>3
  <2> QED
    BY <1>0, <1>1, <2>4
<1> QED
  BY <1>2, <1>3 DEF B, x

\* An address is null or that of a block.
LEMMA AddrFact ==
    /\ 0 \in Addr /\ Addr \subseteq Nat /\ IsFiniteSet(Addr)
    /\ \A a \in Nat : a \in Addr \ {0} <=> MdSize <= a /\ a < Total /\ a - MdSize \in Multiples
    /\ Total - MdSize \in Multiples
    /\ \A a \in Addr : a < Total
<1>1. /\ MdSize \in Nat /\ Total \in Nat /\ MdSize > 0 /\ MdSize < Total
      /\ (Total - MdSize) % Unit = 0
  BY BlockFact
<1>2. 0 \in Addr
  BY DEF Addr
<1> DEFINE Row(a) == (a - MdSize) % Unit = 0
<1>3. Addr = {0} \union {a \in MdSize .. Total - 1 : Row(a)}
  BY DEF Addr
<1>4. \A a \in Nat : MdSize <= a => (Row(a) <=> a - MdSize \in Multiples)
  BY GridFact
<1>5. Row(Total)
  BY <1>1
<1> HIDE DEF Row
<1>6. Addr \subseteq Nat /\ \A a \in Addr : a < Total
  BY <1>1, <1>3
<1>7. \A a \in Nat : a \in Addr \ {0} <=> MdSize <= a /\ a < Total /\ a - MdSize \in Multiples
  BY <1>1, <1>3, <1>4
<1>8. Total - MdSize \in Multiples
  BY <1>1, <1>4, <1>5
<1>9. IsFiniteSet(Addr)
  <2>1. Addr \in SUBSET Nat /\ \A a \in Addr : a <= Total
    BY <1>1, <1>6
  <2> QED
    BY <1>1, <2>1, FS_BoundedSetOfNaturals
<1> QED
  BY <1>2, <1>6, <1>7, <1>8, <1>9

\* What lmc_valloc is asked for: by lmc_ht_strdup and for an entry, and by
\* ht_hash_create.
LEMMA SizeFact ==
    \A s \in {BlockWords, FirstHash, HashBlock} :
        s \in Multiples /\ s > 0 /\ MdSize \in Nat /\ Total \in Nat
<1> SUFFICES ASSUME NEW s \in {BlockWords, FirstHash, HashBlock} PROVE s \in Multiples /\ s > 0
  BY BlockFact
<1>1. s \in Nat /\ s >= Unit /\ s % Unit = 0
  BY BlockAssumption, Zenon DEF BlockAssumption
<1>2. Unit \in Nat \ {0}
  BY BlockFact
<1> HIDE DEF Unit
<1>3. s \div Unit \in Nat /\ s = (s \div Unit) * Unit + (s % Unit)
  BY <1>1, <1>2, DivModFact
<1>4. s = (s \div Unit) * Unit
  BY <1>1, <1>2, <1>3
<1>5. s > 0
  BY <1>1, <1>2
<1> DEFINE q == s \div Unit
<1>6. q \in Nat /\ s = q * Unit
  BY <1>3, <1>4
<1> HIDE DEF q
<1> QED
  BY <1>5, <1>6 DEF Multiples

\* The table is not all of the pool.
LEMMA RoomFact == MdSize + FirstHash < Total /\ MdSize + HashBlock < Total
BY BlockAssumption, Zenon DEF BlockAssumption

\* A block of the pool as it comes from lmc_valloc.
IsBlock(u) == u \in Chunk /\ u.va \in Addr \ {0} /\ u.size \in Multiples /\ u.size > 0

\* It ends where the next one may start.
LEMMA BlockEndFact ==
    ASSUME NEW u, IsBlock(u)
    PROVE  /\ u.va \in Nat /\ u.size \in Nat /\ u.size > 0 /\ End(u) = u.va + u.size
           /\ u = [va |-> u.va, size |-> u.size]
           /\ MdSize <= u.va /\ u.va - MdSize \in Multiples /\ End(u) - MdSize \in Multiples
<1>1. /\ u.va \in Nat /\ u.size \in Nat /\ u.size > 0 /\ End(u) = u.va + u.size
      /\ u = [va |-> u.va, size |-> u.size]
  BY ChunkFact DEF IsBlock
<1>2. MdSize <= u.va /\ u.va - MdSize \in Multiples /\ MdSize \in Nat
  BY <1>1, AddrFact, BlockFact DEF IsBlock
<1>3. End(u) - MdSize = (u.va - MdSize) + u.size
  BY <1>1, <1>2
<1>4. (u.va - MdSize) + u.size \in Multiples
  BY <1>2, MultipleFact DEF IsBlock
<1> QED
  BY <1>1, <1>2, <1>3, <1>4

\* If all blocks are on the grid, so is every free chunk: it starts where a block
\* or the descriptor ends, and ends where a block starts or the pool ends.
LEMMA FreeOnGrid ==
    ASSUME NEW f, NEW U, Pool(f, U), Separate(f), \A u \in U : IsBlock(u), NEW k \in DOMAIN f
    PROVE  /\ f[k].va \in Addr \ {0}
           /\ f[k].va - MdSize \in Multiples
           /\ f[k].size \in Multiples
<1> DEFINE c == f[k]
<1>1. /\ \A i \in DOMAIN f : /\ f[i] \in Chunk
                             /\ f[i].va \in Nat /\ f[i].size \in Nat
                             /\ End(f[i]) \in Nat
                             /\ End(f[i]) = f[i].va + f[i].size
  BY ListFact DEF Pool
<1>2. \A i \in DOMAIN f : MdSize <= f[i].va /\ f[i].size > 0 /\ End(f[i]) <= Total
  BY <1>1, LinkableFact DEF Pool, AllLinkable, Linkable
<1>3. MdSize \in Nat /\ Total \in Nat /\ MdSize > 0
  BY BlockFact
<1>4. \A u \in U : /\ u.va \in Nat /\ End(u) \in Nat /\ MdSize <= u.va /\ u.va < End(u)
                   /\ u.va - MdSize \in Multiples /\ End(u) - MdSize \in Multiples
  <2> TAKE u \in U
  <2>1. IsBlock(u)
    OBVIOUS
  <2> QED
    BY <2>1, BlockEndFact
<1>5. /\ c.va \in Nat /\ c.size \in Nat /\ End(c) = c.va + c.size
      /\ MdSize <= c.va /\ c.size > 0 /\ End(c) <= Total
  BY <1>1, <1>2
<1>6. 0 \in Multiples
  <2>1. 0 = 0 * Unit
    BY BlockFact
  <2> QED
    BY <2>1 DEF Multiples
<1>7. \A i \in DOMAIN f : End(f[i]) # c.va /\ End(c) # f[i].va
  BY DEF Separate
<1>a. ASSUME NEW w \in MdSize .. Total - 1
      PROVE  \/ \E i \in DOMAIN f : f[i].va <= w /\ w < End(f[i])
             \/ \E u \in U : u.va <= w /\ w < End(u)
  <2>1. \/ \E i \in DOMAIN f : w \in Words(f[i])
        \/ \E u \in U : w \in Words(u)
    BY DEF Pool, Covered
  <2> QED
    BY <1>1, <1>3, <1>4, <2>1 DEF Words
<1>8. c.va - MdSize \in Multiples
  <2>1. CASE c.va = MdSize
    BY <1>6, <2>1, <1>3
  <2>2. CASE c.va # MdSize
    <3>1. c.va - 1 \in MdSize .. Total - 1
      BY <1>3, <1>5, <2>2
    <3>2. ASSUME NEW i \in DOMAIN f, f[i].va <= c.va - 1, c.va - 1 < End(f[i]) PROVE FALSE
      <4>1. i # k
        BY <1>5, <3>2
      <4>2. Apart(f[i], c)
        BY <4>1 DEF Pool, AllApart
      <4>3. End(f[i]) = c.va
        BY <1>1, <1>5, <3>2, <4>2 DEF Apart
      <4> QED
        BY <1>7, <4>3
    <3>3. PICK u \in U : u.va <= c.va - 1 /\ c.va - 1 < End(u)
      BY <1>a, <3>1, <3>2
    <3>4. Apart(c, u)
      BY DEF Pool, AllApart
    <3>5. c.va = End(u)
      BY <1>3, <1>4, <1>5, <3>3, <3>4 DEF Apart
    <3> QED
      BY <1>4, <3>5
  <2> QED
    BY <2>1, <2>2
<1>9. End(c) - MdSize \in Multiples
  <2>1. CASE End(c) = Total
    BY <2>1, AddrFact
  <2>2. CASE End(c) # Total
    <3>1. End(c) \in MdSize .. Total - 1
      BY <1>3, <1>5, <2>2
    <3>2. ASSUME NEW i \in DOMAIN f, f[i].va <= End(c), End(c) < End(f[i]) PROVE FALSE
      <4>1. i # k
        BY <1>5, <3>2
      <4>2. Apart(c, f[i])
        BY <4>1 DEF Pool, AllApart
      <4>3. End(c) = f[i].va
        BY <1>1, <1>5, <3>2, <4>2 DEF Apart
      <4> QED
        BY <1>7, <4>3
    <3>3. PICK u \in U : u.va <= End(c) /\ End(c) < End(u)
      BY <1>a, <3>1, <3>2
    <3>4. Apart(c, u)
      BY DEF Pool, AllApart
    <3>5. End(c) = u.va
      BY <1>3, <1>4, <1>5, <3>3, <3>4 DEF Apart
    <3> QED
      BY <1>4, <3>5
  <2> QED
    BY <2>1, <2>2
<1>10. c.size \in Multiples
  <2>1. c.size = (End(c) - MdSize) - (c.va - MdSize) /\ c.va - MdSize <= End(c) - MdSize
    BY <1>3, <1>5
  <2> QED
    BY <1>8, <1>9, <2>1, MultipleFact
<1>11. c.va < Total
  BY <1>3, <1>5
<1> QED
  BY <1>5, <1>8, <1>10, <1>11, AddrFact

\* So lmc_valloc grants a block of the grid.
LEMMA CarveOnGrid ==
    ASSUME NEW f, NEW U, Pool(f, U), Separate(f), \A u \in U : IsBlock(u),
           NEW s \in Multiples, s > 0, Fits(f, s) # {}
    PROVE  IsBlock(Carve(f, s).block)
<1> DEFINE k == Min(Fits(f, s))
           c == f[k]
           t == Taken(c, s)
           b == [va |-> End(c) - t, size |-> t]
<1>0. DOMAIN f \subseteq Nat /\ \A i \in DOMAIN f : f[i] \in Chunk
  BY ListFact DEF Pool
<1>1. k \in Fits(f, s)
  <2>1. Fits(f, s) \in SUBSET Nat
    BY <1>0 DEF Fits
  <2> QED
    BY <2>1, MinFact
<1>2. k \in DOMAIN f /\ c.size >= s
  BY <1>1 DEF Fits
<1> HIDE DEF k
<1>3. c.va - MdSize \in Multiples /\ c.size \in Multiples
  BY <1>2, FreeOnGrid
<1>4. /\ c.va \in Nat /\ c.size \in Nat /\ End(c) = c.va + c.size
      /\ MdSize <= c.va /\ End(c) <= Total
  BY <1>0, <1>2, ChunkFact DEF Pool, AllLinkable, Linkable
<1>5. Unit \in Nat /\ Unit >= Desc /\ MdSize \in Nat /\ Total \in Nat /\ Desc \in Nat
  BY BlockFact, DescFact
<1>6. s \in Nat /\ s > 0
  BY MultipleFact
<1>7. Carve(f, s).block = b
  BY DEF Carve, k
<1> HIDE DEF c
<1>8. c.size - s \in Multiples
  BY <1>2, <1>3, MultipleFact
<1>9. c.size = s \/ c.size - s >= Unit
  <2>1. c.size - s > 0 => c.size - s >= Unit
    BY <1>8, MultipleFact
  <2> QED
    BY <1>2, <1>4, <1>6, <2>1
<1>10. t = s
  BY <1>4, <1>5, <1>6, <1>9 DEF Taken
<1>11. End(c) - s \in Nat /\ MdSize <= End(c) - s /\ End(c) - s < Total
  BY <1>2, <1>4, <1>5, <1>6
<1>12. (End(c) - s) - MdSize \in Multiples
  <2>1. (End(c) - s) - MdSize = (c.va - MdSize) + (c.size - s)
    BY <1>4, <1>5, <1>6
  <2> QED
    BY <1>3, <1>8, <2>1, MultipleFact
<1>13. End(c) - s \in Addr \ {0}
  BY <1>11, <1>12, AddrFact
<1>14. b = [va |-> End(c) - s, size |-> s]
  BY <1>10
<1> QED
  BY <1>6, <1>7, <1>11, <1>13, <1>14, NewChunkFact DEF IsBlock

-----------------------------------------------------------------------------
(***************************************************************************)
(* The pool as an image and the blocks that are in use in it.              *)
(***************************************************************************)
LogWords == [op : BOOLEAN, key : Addr, value : Addr]

Image ==
    [free : Seq(Chunk), header : [Addr -> Nat], body : [Addr -> Strings \union EntryWords],
     value : [Addr -> Addr], bucket : [Buckets -> Addr], hash : Addr,
     size : 0 .. SizeT - 1, log : LogWords]

\* U are the blocks lmc_valloc granted and lmc_free did not get back, with those
\* nobody points to any more.
Stored(m, U) ==
    /\ m \in Image
    /\ Pool(m.free, U)
    /\ Separate(m.free)
    /\ \A u \in U : IsBlock(u) /\ m.header[u.va] = u.size

Starts(U) == {u.va : u \in U}

\* What is not the allocator's.
SameTable(m, n) ==
    /\ n.value = m.value /\ n.bucket = m.bucket /\ n.hash = m.hash
    /\ n.size = m.size /\ n.log = m.log

SameBody(m, n, A) == \A a \in A : n.body[a] = m.body[a]

\* Threading a free list through the pool writes into free chunks only.
LEMMA ThreadFact ==
    ASSUME NEW m \in Image, NEW f, NEW U, Pool(f, U), Separate(f), \A u \in U : IsBlock(u)
    PROVE  /\ WithFree(m, f) \in Image
           /\ WithFree(m, f).free = f
           /\ SameTable(m, WithFree(m, f))
           /\ SameBody(m, WithFree(m, f), Starts(U))
           /\ \A u \in U : WithFree(m, f).header[u.va] = m.header[u.va]
<1> DEFINE Heads == {f[k].va : k \in DOMAIN f}
           At(a) == CHOOSE k \in DOMAIN f : f[k].va = a
           NextOf(k) == IF k < Len(f) THEN f[k + 1].va ELSE 0
           header == [a \in Addr |-> IF a \in Heads THEN NextOf(At(a)) ELSE m.header[a]]
           body == [a \in Addr |-> IF a \in Heads THEN Scrap ELSE m.body[a]]
           n == WithFree(m, f)
<1>1. /\ Len(f) \in Nat /\ DOMAIN f = 1 .. Len(f) /\ f \in Seq(Chunk)
      /\ \A i \in DOMAIN f : f[i].va \in Nat
  BY ListFact DEF Pool
<1>2. n = [m EXCEPT !.free = f, !.header = header, !.body = body]
  BY DEF WithFree
<1>3. header \in [Addr -> Nat]
  <2>1. ASSUME NEW a \in Addr, a \in Heads PROVE NextOf(At(a)) \in Nat
    <3>1. At(a) \in DOMAIN f
      BY <2>1
    <3> HIDE DEF At
    <3> QED
      BY <1>1, <3>1
  <2>2. \A a \in Addr : m.header[a] \in Nat
    BY DEF Image
  <2> HIDE DEF NextOf, At, Heads
  <2> QED
    BY <2>1, <2>2
<1>4. body \in [Addr -> Strings \union EntryWords]
  BY DEF Image, Strings
<1>5. ASSUME NEW u \in U PROVE u.va \in Addr /\ u.va \notin Heads
  <2>1. u.va \in Addr /\ u.va \in Nat /\ u.size > 0 /\ End(u) = u.va + u.size /\ u.size \in Nat
    BY BlockFact, ChunkFact DEF IsBlock
  <2>2. ASSUME NEW k \in DOMAIN f, f[k].va = u.va PROVE FALSE
    <3>1. Apart(f[k], u) /\ Linkable(f[k])
      BY DEF Pool, AllApart, AllLinkable
    <3>2. f[k] \in Chunk
      BY <1>1
    <3>3. f[k].size > 0 /\ End(f[k]) = f[k].va + f[k].size /\ f[k].size \in Nat
      BY <3>1, <3>2, LinkableFact, ChunkFact
    <3> QED
      BY <2>1, <2>2, <3>1, <3>3 DEF Apart
  <2> QED
    BY <2>1, <2>2
<1>6. \A u \in U : header[u.va] = m.header[u.va] /\ body[u.va] = m.body[u.va]
  BY <1>5
<1> HIDE DEF header, body, n
<1>7. /\ n \in Image /\ n.free = f /\ n.header = header /\ n.body = body
      /\ n.value = m.value /\ n.bucket = m.bucket /\ n.hash = m.hash
      /\ n.size = m.size /\ n.log = m.log
  BY <1>1, <1>2, <1>3, <1>4 DEF Image
<1> QED
  BY <1>6, <1>7 DEF n, SameTable, SameBody, Starts

\* lmc_valloc: a block on the grid that no one uses.
LEMMA ReserveFact ==
    ASSUME NEW m, NEW U, Stored(m, U), NEW s \in Multiples, s > 0, Fits(m.free, s) # {},
           NEW b, b = Carve(m.free, s).block
    PROVE  /\ IsBlock(b) /\ b.va \in Addr \ {0} /\ b.va \notin Starts(U)
           /\ Stored(Reserved(m, s), U \union {b})
           /\ Starts(U \union {b}) = Starts(U) \union {b.va}
           /\ SameTable(m, Reserved(m, s))
           /\ SameBody(m, Reserved(m, s), Starts(U))
<1> DEFINE r == Carve(m.free, s)
           V == U \union {b}
           x == WithFree(m, r.free)
           n == Reserved(m, s)
<1>0. m \in Image /\ Pool(m.free, U) /\ Separate(m.free) /\ \A u \in U : IsBlock(u)
  BY DEF Stored
<1>1. s \in Nat /\ s >= Desc
  BY BlockFact, DescFact, MultipleFact
<1>2. /\ b = r.block
      /\ \A u \in U : Apart(b, u)
      /\ Pool(r.free, V) /\ Separate(r.free)
  BY <1>0, <1>1, CarveFact
<1>3. IsBlock(b)
  BY <1>0, <1>2, CarveOnGrid
<1>4. b.va \in Addr \ {0} /\ b.size \in Nat
  BY <1>3, ChunkFact DEF IsBlock
<1>5. b.va \notin Starts(U)
  <2> SUFFICES ASSUME NEW u \in U, u.va = b.va PROVE FALSE
    BY DEF Starts
  <2>1. Apart(b, u) /\ IsBlock(u)
    BY <1>0, <1>2
  <2> QED
    BY <1>3, <2>1, BlockEndFact DEF Apart
<1>6. n = [x EXCEPT !.header[b.va] = b.size]
  BY <1>2 DEF Reserved, Granted
<1>7. \A u \in V : IsBlock(u)
  BY <1>0, <1>3
<1>8. /\ x \in Image /\ x.free = r.free /\ SameTable(m, x)
      /\ SameBody(m, x, Starts(V))
      /\ \A u \in V : x.header[u.va] = m.header[u.va]
  BY <1>0, <1>2, <1>7, ThreadFact
<1> HIDE DEF x, n, r
<1>9. /\ n \in Image /\ n.free = x.free /\ n.header = [x.header EXCEPT ![b.va] = b.size]
      /\ n.body = x.body /\ n.value = x.value /\ n.bucket = x.bucket /\ n.hash = x.hash
      /\ n.size = x.size /\ n.log = x.log
  BY <1>1, <1>4, <1>6, <1>8 DEF Image
<1>10. Starts(V) = Starts(U) \union {b.va}
  BY DEF Starts
<1>11. ASSUME NEW u \in V PROVE n.header[u.va] = u.size
  <2>1. x.header \in [Addr -> Nat] /\ u.va \in Addr
    BY <1>7, <1>8 DEF Image, IsBlock
  <2>2. CASE u = b
    BY <1>4, <1>9, <2>1, <2>2
  <2>3. CASE u \in U
    <3>1. u.va # b.va
      BY <1>5, <2>3 DEF Starts
    <3>2. m.header[u.va] = u.size
      BY <2>3 DEF Stored
    <3> QED
      BY <1>8, <1>9, <2>1, <3>1, <3>2
  <2> QED
    BY <2>2, <2>3
<1>12. Stored(n, V)
  BY <1>2, <1>7, <1>8, <1>9, <1>11 DEF Stored
<1>13. SameTable(m, n) /\ SameBody(m, n, Starts(U))
  BY <1>8, <1>9, <1>10 DEF SameTable, SameBody
<1> QED
  BY <1>3, <1>4, <1>5, <1>10, <1>12, <1>13 DEF n

\* The block of a string or of an entry.
LEMMA AllocFact ==
    ASSUME NEW m, NEW U, Stored(m, U), CanAlloc(m),
           NEW b, b = Allocated(m)
    PROVE  /\ IsBlock(b) /\ b.va \in Addr \ {0} /\ b.va \notin Starts(U)
           /\ Stored(Alloc(m), U \union {b})
           /\ Starts(U \union {b}) = Starts(U) \union {b.va}
           /\ SameTable(m, Alloc(m))
           /\ SameBody(m, Alloc(m), Starts(U))
<1>1. BlockWords \in Multiples /\ BlockWords > 0
  BY SizeFact
<1>2. Fits(m.free, BlockWords) # {} /\ b = Carve(m.free, BlockWords).block
  BY DEF CanAlloc, Allocated
<1> QED
  BY <1>1, <1>2, ReserveFact DEF Alloc

\* lmc_free of a block in use.
LEMMA FreeFact ==
    ASSUME NEW m, NEW U, Stored(m, U), NEW va \in Starts(U)
    PROVE  \E V : /\ V \subseteq U
                  /\ Starts(V) = Starts(U) \ {va}
                  /\ Stored(lmc_free(m, va), V)
                  /\ SameTable(m, lmc_free(m, va))
                  /\ SameBody(m, lmc_free(m, va), Starts(V))
<1>0. m \in Image /\ Pool(m.free, U) /\ Separate(m.free) /\ \A u \in U : IsBlock(u)
  BY DEF Stored
<1>1. PICK u \in U : u.va = va
  BY DEF Starts
<1>2. IsBlock(u) /\ m.header[va] = u.size /\ va # 0
  BY <1>1 DEF Stored, IsBlock
<1> DEFINE V == U \ {u}
           f == Release(m.free, u)
           n == lmc_free(m, va)
<1>3. Block(m, va) = u
  BY <1>1, <1>2, ChunkFact DEF IsBlock, Block
<1>4. n = WithFree(m, f)
  BY <1>2, <1>3 DEF lmc_free
<1>5. Pool(f, V) /\ Separate(f)
  BY <1>0, ReleaseFact
<1>6. \A v \in V : IsBlock(v)
  BY <1>0
<1>7. /\ n \in Image /\ n.free = f /\ SameTable(m, n) /\ SameBody(m, n, Starts(V))
      /\ \A v \in V : n.header[v.va] = m.header[v.va]
  BY <1>0, <1>4, <1>5, <1>6, ThreadFact
<1>8. Stored(n, V)
  BY <1>5, <1>6, <1>7 DEF Stored
<1>9. Starts(V) = Starts(U) \ {va}
  <2>1. ASSUME NEW v \in V PROVE v.va # va
    <3>1. Apart(u, v) /\ IsBlock(v)
      BY <1>0 DEF Pool, AllApart
    <3> QED
      BY <1>1, <1>2, <3>1, BlockEndFact DEF Apart
  <2> QED
    BY <1>1, <2>1 DEF Starts
<1>10. V \subseteq U
  OBVIOUS
<1> HIDE DEF V, n
<1> QED
  BY <1>7, <1>8, <1>9, <1>10 DEF n

-----------------------------------------------------------------------------
(***************************************************************************)
(* The table: c[b] are the entries of bucket b, A the blocks they may have.*)
(***************************************************************************)
\* What follows the entry at i of a chain; the bucket is before the first.
After(s, i) == IF i = Len(s) THEN 0 ELSE s[i + 1]

Linked(m, c) ==
    \A b \in Buckets :
        /\ m.bucket[b] = After(c[b], 0)
        /\ \A i \in DOMAIN c[b] : m.body[c[b][i]].next = After(c[b], i)

Unshared(c) ==
    \A b1, b2 \in Buckets : \A i \in DOMAIN c[b1], j \in DOMAIN c[b2] :
        c[b1][i] = c[b2][j] => b1 = b2 /\ i = j

Entries(c) == {a \in Addr : \E b \in Buckets : \E i \in DOMAIN c[b] : c[b][i] = a}

\* The three blocks of an entry: its own, the key's and the value's.
Ptr(m, e, p) == IF p = 1 THEN e ELSE IF p = 2 THEN m.body[e].key ELSE m.value[e]

Used(m, c) == {m.hash} \union {Ptr(m, e, p) : e \in Entries(c), p \in 1 .. 3}

Tied(m, c, A) ==
    /\ c \in [Buckets -> Seq(Addr \ {0})]
    /\ Linked(m, c)
    /\ Unshared(c)
    /\ \A e \in Entries(c) : m.body[e] \in EntryWords /\ m.body[m.body[e].key] \in Keys
    /\ \A e, f \in Entries(c) : \A p, q \in 1 .. 3 : Ptr(m, e, p) = Ptr(m, f, q) => e = f /\ p = q
    /\ \A e \in Entries(c) : \A p \in 1 .. 3 : Ptr(m, e, p) \in A /\ Ptr(m, e, p) # m.hash
    /\ m.hash \in A

\* The keys of the entries.
Names(m, c) == [b \in Buckets |-> [i \in DOMAIN c[b] |-> m.body[m.body[c[b][i]].key]]]

\* The entries of a bucket.
LEMMA ChainsFact ==
    ASSUME NEW c \in [Buckets -> Seq(Addr \ {0})], NEW b \in Buckets
    PROVE  /\ c[b] \in Seq(Addr \ {0}) /\ Len(c[b]) \in Nat /\ DOMAIN c[b] = 1 .. Len(c[b])
           /\ \A i \in DOMAIN c[b] : c[b][i] \in Entries(c) /\ c[b][i] \in Addr \ {0}
<1>1. c[b] \in Seq(Addr \ {0})
  OBVIOUS
<1>2. Len(c[b]) \in Nat /\ DOMAIN c[b] = 1 .. Len(c[b]) /\ \A i \in 1 .. Len(c[b]) : c[b][i] \in Addr \ {0}
  BY <1>1, LenProperties, ElementOfSeq
<1> QED
  BY <1>1, <1>2 DEF Entries

AreNames(N, m, c) ==
    /\ N \in [Buckets -> Seq(Keys)]
    /\ \A b \in Buckets :
           /\ Len(N[b]) = Len(c[b])
           /\ \A i \in 1 .. Len(c[b]) : N[b][i] = m.body[m.body[c[b][i]].key]

\* The keys of the entries are a list of keys for every bucket.
LEMMA NamesFact ==
    ASSUME NEW m, NEW c, NEW A, Tied(m, c, A)
    PROVE  AreNames(Names(m, c), m, c)
<1>1. ASSUME NEW b \in Buckets
      PROVE  /\ Names(m, c)[b] \in Seq(Keys) /\ Len(Names(m, c)[b]) = Len(c[b])
             /\ \A i \in 1 .. Len(c[b]) : Names(m, c)[b][i] = m.body[m.body[c[b][i]].key]
  <2> DEFINE x == [i \in DOMAIN c[b] |-> m.body[m.body[c[b][i]].key]]
  <2>1. /\ Len(c[b]) \in Nat /\ DOMAIN c[b] = 1 .. Len(c[b])
        /\ \A i \in DOMAIN c[b] : c[b][i] \in Entries(c)
    BY ChainsFact DEF Tied
  <2>2. \A i \in DOMAIN c[b] : m.body[m.body[c[b][i]].key] \in Keys
    BY <2>1 DEF Tied
  <2>3. x \in Seq(Keys) /\ Len(x) = Len(c[b])
    BY <2>1, <2>2
  <2>4. \A i \in 1 .. Len(c[b]) : x[i] = m.body[m.body[c[b][i]].key]
    BY <2>1
  <2>5. Names(m, c)[b] = x
    BY DEF Names
  <2> HIDE DEF x
  <2> QED
    BY <2>3, <2>4, <2>5
<1>2. Names(m, c) = [b \in Buckets |-> Names(m, c)[b]]
  <2>1. DOMAIN Names(m, c) = Buckets
    BY DEF Names
  <2> QED
    BY <2>1, Zenon DEF Names
<1> QED
  BY <1>1, <1>2 DEF AreNames

NameAt(m, e) == m.body[m.body[e].key]

ValueAt(m, e) == m.body[m.value[e]]

\* The key and the value of each entry.
Cells(m, c) == [e \in Entries(c) |-> <<NameAt(m, e), ValueAt(m, e)>>]

\* What a caller can tell of the table.
View(m, c) == [names |-> Names(m, c), cells |-> Cells(m, c), size |-> m.size]

\* A chain depends on the words of its blocks only.
LEMMA FrameFact ==
    ASSUME NEW m, NEW n, NEW c, NEW A, Tied(m, c, A), NEW A2, Used(m, c) \subseteq A2,
           n.bucket = m.bucket, n.value = m.value, n.hash = m.hash, SameBody(m, n, Used(m, c))
    PROVE  /\ Tied(n, c, A2)
           /\ Used(n, c) = Used(m, c)
           /\ Names(n, c) = Names(m, c) /\ Cells(n, c) = Cells(m, c)
<1> DEFINE E == Entries(c)
<1>0. \A e \in E : {e, m.body[e].key, m.value[e]} \subseteq Used(m, c)
  <2> TAKE e \in E
  <2>1. \A p \in 1 .. 3 : Ptr(m, e, p) \in Used(m, c)
    BY DEF Used
  <2>2. Ptr(m, e, 1) = e /\ Ptr(m, e, 2) = m.body[e].key /\ Ptr(m, e, 3) = m.value[e]
    BY DEF Ptr
  <2>3. 1 \in 1 .. 3 /\ 2 \in 1 .. 3 /\ 3 \in 1 .. 3
    OBVIOUS
  <2> QED
    BY <2>1, <2>2, <2>3
<1>1. \A e \in E : n.body[e] = m.body[e] /\ n.body[m.body[e].key] = m.body[m.body[e].key]
  BY <1>0 DEF SameBody
<1>2. \A e \in E : \A p \in 1 .. 3 : Ptr(n, e, p) = Ptr(m, e, p)
  BY <1>1 DEF Ptr
<1>3. c \in [Buckets -> Seq(Addr \ {0})]
  BY DEF Tied
<1>4. \A b \in Buckets : \A i \in DOMAIN c[b] : c[b][i] \in E
  BY <1>3, ChainsFact
<1> HIDE DEF E
<1>5. Linked(n, c)
  BY <1>1, <1>4 DEF Tied, Linked
<1>6. Used(n, c) = Used(m, c)
  BY <1>2 DEF Used, E
<1>7. Names(n, c) = Names(m, c) /\ Cells(n, c) = Cells(m, c)
  <2>1. \A e \in E : n.body[m.value[e]] = m.body[m.value[e]] /\ n.value[e] = m.value[e]
    BY <1>0 DEF SameBody
  <2>2. \A e \in E : NameAt(n, e) = NameAt(m, e) /\ ValueAt(n, e) = ValueAt(m, e)
    BY <1>1, <2>1 DEF NameAt, ValueAt
  <2>3. Cells(n, c) = Cells(m, c)
    BY <2>2 DEF Cells, E
  <2> QED
    BY <1>1, <1>4, <2>3 DEF Names
<1>8. /\ \A e \in E : \A p \in 1 .. 3 : Ptr(n, e, p) \in A2 /\ Ptr(n, e, p) # n.hash
      /\ n.hash \in A2
  <2>1. \A e \in E : \A p \in 1 .. 3 : Ptr(m, e, p) # m.hash
    BY DEF Tied, E
  <2>2. m.hash \in A2 /\ \A e \in E : \A p \in 1 .. 3 : Ptr(m, e, p) \in A2
    BY DEF Used, E
  <2> QED
    BY <1>2, <2>1, <2>2
<1>9. \A e, f \in E : \A p, q \in 1 .. 3 : Ptr(n, e, p) = Ptr(n, f, q) => e = f /\ p = q
  BY <1>2 DEF Tied, E
<1>10. \A e \in E : n.body[e] \in EntryWords /\ n.body[n.body[e].key] \in Keys
  BY <1>1 DEF Tied, E
<1>11. Unshared(c)
  BY DEF Tied
<1> QED
  BY <1>3, <1>5, <1>6, <1>7, <1>8, <1>9, <1>10, <1>11 DEF Tied, E

\* d are the chains c with e as the first of bucket bk.
PutsFirst(c, d, bk, e) == d[bk] = <<e>> \o c[bk] /\ \A b \in Buckets \ {bk} : d[b] = c[b]

\* An entry that comes first brings its key first.
LEMMA NamesInFact ==
    ASSUME NEW m, NEW c, NEW A, Tied(m, c, A), NEW n, NEW d, Tied(n, d, A),
           NEW bk \in Buckets, NEW e \in Addr \ {0}, NEW k \in Keys,
           PutsFirst(c, d, bk, e),
           \A f \in Entries(c) : NameAt(n, f) = NameAt(m, f),
           NameAt(n, e) = k
    PROVE  PutsFirst(Names(m, c), Names(n, d), bk, k)
<1> DEFINE s == c[bk]
           t == <<e>> \o s
           N == Names(m, c)
           x == N[bk]
           y == <<k>> \o x
           M == Names(n, d)
<1>0. c \in [Buckets -> Seq(Addr \ {0})]
  BY DEF Tied
<1> HIDE DEF s, t, x, y
<1> HIDE DEF N, M
<1>1. /\ N \in [Buckets -> Seq(Keys)]
      /\ \A b \in Buckets :
             /\ Len(N[b]) = Len(c[b])
             /\ \A i \in 1 .. Len(c[b]) : N[b][i] = m.body[m.body[c[b][i]].key]
  <2>1. AreNames(N, m, c)
    BY NamesFact DEF N
  <2> QED
    BY <2>1 DEF AreNames
<1>2. /\ M \in [Buckets -> Seq(Keys)]
      /\ \A b \in Buckets :
             /\ Len(M[b]) = Len(d[b])
             /\ \A i \in 1 .. Len(d[b]) : M[b][i] = n.body[n.body[d[b][i]].key]
  <2>1. AreNames(M, n, d)
    BY NamesFact DEF M
  <2> QED
    BY <2>1 DEF AreNames
<1> USE DEF s, t, x, y
<1>a. \A b \in Buckets : /\ Len(c[b]) \in Nat /\ DOMAIN c[b] = 1 .. Len(c[b])
                         /\ \A i \in DOMAIN c[b] : c[b][i] \in Entries(c)
  BY <1>0, ChainsFact
<1> HIDE DEF N, M
<1>b. d[bk] = t /\ \A b \in Buckets : b # bk => d[b] = c[b]
  BY DEF PutsFirst
<1>c. /\ \A f \in Entries(c) : n.body[n.body[f].key] = m.body[m.body[f].key]
      /\ n.body[n.body[e].key] = k
  BY DEF NameAt
<1>3. ASSUME NEW b \in Buckets, b # bk PROVE M[b] = N[b]
  <2>1. d[b] = c[b]
    BY <1>b, <1>3
  <2>2. N[b] \in Seq(Keys) /\ M[b] \in Seq(Keys) /\ Len(N[b]) = Len(c[b]) /\ Len(M[b]) = Len(c[b])
    BY <1>1, <1>2, <2>1
  <2>3. ASSUME NEW i \in 1 .. Len(M[b]) PROVE M[b][i] = N[b][i]
    <3>1. i \in 1 .. Len(c[b]) /\ c[b][i] \in Entries(c)
      BY <1>a, <2>2
    <3>2. N[b][i] = m.body[m.body[c[b][i]].key]
      BY <1>1, <3>1
    <3>3. M[b][i] = n.body[n.body[c[b][i]].key]
      BY <1>2, <2>1, <3>1
    <3> QED
      BY <1>c, <3>1, <3>2, <3>3
  <2> QED
    BY <2>2, <2>3, SeqEqual
<1>4. /\ s \in Seq(Addr \ {0}) /\ x \in Seq(Keys) /\ Len(x) = Len(s) /\ Len(s) \in Nat
      /\ \A j \in 1 .. Len(s) : x[j] = m.body[m.body[s[j]].key] /\ s[j] \in Entries(c)
  BY <1>0, <1>1, <1>a
<1> HIDE DEF x, s
<1>5. /\ y \in Seq(Keys) /\ Len(y) = Len(x) + 1 /\ y[1] = k
      /\ \A j \in 1 .. Len(x) : y[j + 1] = x[j]
  BY <1>4, PutFirstFact
<1>6. /\ Len(t) = Len(s) + 1 /\ t[1] = e
      /\ \A j \in 1 .. Len(s) : t[j + 1] = s[j]
  BY <1>4, PutFirstFact
<1> HIDE DEF y, t
<1>7. M[bk] \in Seq(Keys) /\ Len(M[bk]) = Len(t)
  BY <1>2, <1>b
<1>8. ASSUME NEW i \in 1 .. Len(t) PROVE M[bk][i] = y[i]
  <2>0. M[bk][i] = n.body[n.body[t[i]].key]
    BY <1>2, <1>b
  <2>1. CASE i = 1
    BY <1>5, <1>6, <1>c, <2>0, <2>1
  <2>2. CASE i # 1
    <3> DEFINE j == i - 1
    <3>1. j \in 1 .. Len(s) /\ i = j + 1
      BY <1>4, <1>6, <2>2
    <3> HIDE DEF j
    <3>2. t[i] = s[j] /\ s[j] \in Entries(c) /\ y[i] = x[j]
      BY <1>4, <1>5, <1>6, <3>1
    <3>3. x[j] = m.body[m.body[s[j]].key]
      BY <1>4, <3>1
    <3> QED
      BY <1>c, <2>0, <3>2, <3>3
  <2> QED
    BY <2>1, <2>2
<1>9. M[bk] = y
  BY <1>4, <1>5, <1>6, <1>7, <1>8, SeqEqual
<1> QED
  BY <1>3, <1>9 DEF PutsFirst, M, N, x, y

\* ht_set of a new key: three blocks that no one points to make an entry, which
\* comes first in its bucket.
\* n is m with e, kp and vp as an entry of key k and its blocks, d the chains.
LinksIn(m, n, k, e, kp, vp) ==
    /\ n.body = [m.body EXCEPT ![e] = [next |-> m.bucket[BucketOf[k]], key |-> kp]]
    /\ n.bucket = [m.bucket EXCEPT ![BucketOf[k]] = e]
    /\ n.value = [m.value EXCEPT ![e] = vp]
    /\ n.hash = m.hash

WithFirst(c, k, e) == [c EXCEPT ![BucketOf[k]] = <<e>> \o @]

\* The entries of G are those of F and e.
Gains(F, G, e, x) ==
    /\ e \notin DOMAIN F
    /\ DOMAIN G = DOMAIN F \union {e}
    /\ G[e] = x /\ \A f \in DOMAIN F : G[f] = F[f]

\* Those of F without e,
Loses(F, G, e) ==
    /\ e \in DOMAIN F
    /\ DOMAIN G = DOMAIN F \ {e}
    /\ \A f \in DOMAIN G : G[f] = F[f]

\* those of F with another value for e.
Renews(F, G, e, v) ==
    /\ e \in DOMAIN F
    /\ DOMAIN G = DOMAIN F
    /\ G[e] = <<F[e][1], v>> /\ \A f \in DOMAIN F \ {e} : G[f] = F[f]

\* A table with a new entry at the front of a chain is a table.
LEMMA LinkInFact ==
    ASSUME NEW m \in Image, NEW c, NEW A, A \subseteq Addr \ {0}, Tied(m, c, A),
           NEW e \in A, NEW kp \in A, NEW vp \in A,
           e # kp, e # vp, kp # vp, {e, kp, vp} \intersect Used(m, c) = {},
           NEW k \in Keys, m.body[kp] = k,
           NEW n, LinksIn(m, n, k, e, kp, vp),
           NEW d, d = WithFirst(c, k, e)
    PROVE  /\ Tied(n, d, A)
           /\ PutsFirst(Names(m, c), Names(n, d), BucketOf[k], k)
           /\ Used(n, d) = Used(m, c) \union {e, kp, vp}
           /\ Gains(Cells(m, c), Cells(n, d), e, <<k, m.body[vp]>>)
<1> USE DEF LinksIn, WithFirst
<1> DEFINE bk == BucketOf[k]
           E == Entries(c)
           s == c[bk]
           t == <<e>> \o s
<1>1. bk \in Buckets
  BY TableAssumption DEF TableAssumption, Strings
<1>2. c \in [Buckets -> Seq(Addr \ {0})]
  BY DEF Tied
<1>3. /\ e \in Addr \ {0} /\ kp \in Addr /\ vp \in Addr
      /\ m.body \in [Addr -> Strings \union EntryWords]
      /\ m.bucket \in [Buckets -> Addr] /\ m.value \in [Addr -> Addr]
  BY DEF Image
<1>4. /\ s \in Seq(Addr \ {0}) /\ Len(s) \in Nat /\ DOMAIN s = 1 .. Len(s)
      /\ \A i \in DOMAIN s : s[i] \in E
  BY <1>1, <1>2, ChainsFact
<1>5. /\ t \in Seq(Addr \ {0}) /\ Len(t) = Len(s) + 1 /\ DOMAIN t = 1 .. Len(s) + 1
      /\ t[1] = e /\ \A j \in 1 .. Len(s) : t[j + 1] = s[j]
  <2>1. /\ t \in Seq(Addr \ {0}) /\ Len(t) = Len(s) + 1 /\ t[1] = e
        /\ \A j \in 1 .. Len(s) : t[j + 1] = s[j]
    <3> HIDE DEF s, bk
    <3> QED
      BY <1>3, <1>4, PutFirstFact
  <2> HIDE DEF t
  <2> QED
    BY <2>1
<1>6. d \in [Buckets -> Seq(Addr \ {0})] /\ d[bk] = t /\ \A b \in Buckets : b # bk => d[b] = c[b]
  BY <1>1, <1>2, <1>5, Zenon
<1> HIDE DEF t, s, bk
<1>e. /\ n.body = [m.body EXCEPT ![e] = [next |-> m.bucket[bk], key |-> kp]]
      /\ n.bucket = [m.bucket EXCEPT ![bk] = e]
      /\ n.value = [m.value EXCEPT ![e] = vp]
  BY DEF bk
<1>7. /\ \A a \in Addr : a # e => n.body[a] = m.body[a] /\ n.value[a] = m.value[a]
      /\ n.body[e] = [next |-> m.bucket[bk], key |-> kp] /\ n.value[e] = vp
      /\ \A b \in Buckets : b # bk => n.bucket[b] = m.bucket[b]
      /\ n.bucket[bk] = e
  BY <1>1, <1>3, <1>e
<1>8. n.body[e].next = m.bucket[bk] /\ n.body[e].key = kp /\ n.body[e] \in EntryWords
  BY <1>1, <1>3, <1>7 DEF EntryWords
<1>9. \A f \in E : /\ f \in Addr /\ m.body[f] \in EntryWords /\ m.body[f].key \in Addr
                   /\ {f, m.body[f].key, m.value[f]} \subseteq Used(m, c)
                   /\ f # e /\ m.body[f].key # e
  <2> TAKE f \in E
  <2>1. \A p \in 1 .. 3 : Ptr(m, f, p) \in Used(m, c)
    BY DEF Used
  <2>2. Ptr(m, f, 1) = f /\ Ptr(m, f, 2) = m.body[f].key /\ Ptr(m, f, 3) = m.value[f]
    BY DEF Ptr
  <2>3. 1 \in 1 .. 3 /\ 2 \in 1 .. 3 /\ 3 \in 1 .. 3
    OBVIOUS
  <2>4. m.body[f] \in EntryWords /\ f \in Addr
    BY DEF Tied, Entries
  <2>5. m.body[f].key \in Addr
    BY <2>4 DEF EntryWords
  <2> QED
    BY <2>1, <2>2, <2>3, <2>4, <2>5
<1>10. Entries(d) = E \union {e}
  <2>1. ASSUME NEW a \in Entries(d) PROVE a \in E \union {e}
    <3>0. PICK b \in Buckets : \E i \in DOMAIN d[b] : d[b][i] = a
      BY DEF Entries
    <3>1. PICK i \in DOMAIN d[b] : d[b][i] = a
      BY <3>0
    <3>2. CASE b # bk
      BY <1>6, <3>1, <3>2 DEF Entries
    <3>3. CASE b = bk
      <4>1. i \in 1 .. Len(s) + 1 /\ t[i] = a
        BY <1>5, <1>6, <3>1, <3>3
      <4>2. i = 1 \/ (i - 1 \in 1 .. Len(s) /\ i = (i - 1) + 1)
        BY <1>4, <4>1
      <4> QED
        BY <1>4, <1>5, <4>1, <4>2
    <3> QED
      BY <3>2, <3>3
  <2>2. ASSUME NEW a \in E PROVE a \in Entries(d)
    <3>1. a \in Addr
      BY DEF Entries
    <3>0. PICK b \in Buckets : \E i \in DOMAIN c[b] : c[b][i] = a
      BY DEF Entries
    <3>2. PICK i \in DOMAIN c[b] : c[b][i] = a
      BY <3>0
    <3>3. CASE b # bk
      BY <1>6, <3>1, <3>2, <3>3 DEF Entries
    <3>4. CASE b = bk
      <4>1. i \in 1 .. Len(s) /\ s[i] = a
        BY <1>4, <3>2, <3>4 DEF s
      <4>2. t[i + 1] = a /\ i + 1 \in DOMAIN t
        BY <1>4, <1>5, <4>1
      <4> QED
        BY <1>1, <1>6, <3>1, <4>2 DEF Entries
    <3> QED
      BY <3>3, <3>4
  <2>3. e \in Entries(d)
    <3>1. 1 \in DOMAIN t
      BY <1>4, <1>5
    <3> QED
      BY <1>1, <1>3, <1>5, <1>6, <3>1 DEF Entries
  <2> QED
    BY <2>1, <2>2, <2>3
<1>11. \A f \in E : \A p \in 1 .. 3 : Ptr(n, f, p) = Ptr(m, f, p) /\ Ptr(n, f, p) \in Used(m, c)
  BY <1>7, <1>9 DEF Ptr
<1>12. \A p \in 1 .. 3 : /\ Ptr(n, e, p) = (IF p = 1 THEN e ELSE IF p = 2 THEN kp ELSE vp)
                         /\ Ptr(n, e, p) \in A /\ Ptr(n, e, p) \notin Used(m, c)
  BY <1>7, <1>8 DEF Ptr
<1>13. \A f \in Entries(d) : \A p \in 1 .. 3 : Ptr(n, f, p) \in A /\ Ptr(n, f, p) # n.hash
  <2>1. m.hash \in Used(m, c)
    BY DEF Used
  <2>2. \A f \in E : \A p \in 1 .. 3 : Ptr(m, f, p) \in A /\ Ptr(m, f, p) # m.hash
    BY DEF Tied
  <2> HIDE DEF E
  <2> QED
    BY <1>10, <1>11, <1>12, <2>1, <2>2
<1>14. \A f, g \in Entries(d) : \A p, q \in 1 .. 3 : Ptr(n, f, p) = Ptr(n, g, q) => f = g /\ p = q
  <2>1. \A f, g \in E : \A p, q \in 1 .. 3 : Ptr(m, f, p) = Ptr(m, g, q) => f = g /\ p = q
    BY DEF Tied
  <2> HIDE DEF E
  <2>2. \A p, q \in 1 .. 3 : Ptr(n, e, p) = Ptr(n, e, q) => p = q
    BY <1>12
  <2>3. \A f \in E : \A p, q \in 1 .. 3 : Ptr(n, f, p) # Ptr(n, e, q)
    BY <1>11, <1>12
  <2>4. \A f, g \in E : \A p, q \in 1 .. 3 : Ptr(n, f, p) = Ptr(n, g, q) => f = g /\ p = q
    BY <1>11, <2>1
  <2> QED
    BY <1>10, <2>2, <2>3, <2>4
<1>15. \A f \in Entries(d) : n.body[f] \in EntryWords /\ n.body[n.body[f].key] \in Keys
  <2>1. n.body[kp] = k
    BY <1>3, <1>7
  <2>2. \A f \in E : n.body[f] \in EntryWords /\ n.body[n.body[f].key] \in Keys
    BY <1>7, <1>9 DEF Tied
  <2> QED
    BY <1>8, <1>10, <2>1, <2>2
<1>16. Linked(n, d)
  <2>1. ASSUME NEW b \in Buckets, b # bk
        PROVE  /\ n.bucket[b] = After(d[b], 0)
               /\ \A i \in DOMAIN d[b] : n.body[d[b][i]].next = After(d[b], i)
    <3>1. \A i \in DOMAIN c[b] : c[b][i] \in E
      BY <1>2, ChainsFact
    <3>2. \A i \in DOMAIN c[b] : n.body[c[b][i]] = m.body[c[b][i]]
      BY <1>7, <1>9, <3>1
    <3> QED
      BY <1>6, <1>7, <2>1, <3>2 DEF Tied, Linked
  <2>2. n.bucket[bk] = After(t, 0)
    BY <1>4, <1>5, <1>7 DEF After
  <2>3. ASSUME NEW i \in DOMAIN t PROVE n.body[t[i]].next = After(t, i)
    <3>1. CASE i = 1
      <4>1. m.bucket[bk] = After(s, 0)
        BY <1>1 DEF Tied, Linked, s
      <4>2. After(t, 1) = After(s, 0)
        <5>1. CASE Len(s) = 0
          BY <1>5, <5>1 DEF After
        <5>2. CASE Len(s) # 0
          <6>1. 1 \in 1 .. Len(s) /\ 1 # Len(t)
            BY <1>4, <1>5, <5>2
          <6>2. t[1 + 1] = s[1]
            BY <1>5, <6>1
          <6> QED
            BY <5>2, <6>1, <6>2 DEF After
        <5> QED
          BY <5>1, <5>2
      <4> QED
        BY <1>5, <1>8, <3>1, <4>1, <4>2
    <3>2. CASE i # 1
      <4> DEFINE j == i - 1
      <4>1. j \in 1 .. Len(s) /\ i = j + 1
        BY <1>4, <1>5, <3>2
      <4> HIDE DEF j
      <4>2. t[i] = s[j] /\ s[j] \in E
        BY <1>4, <1>5, <4>1
      <4>3. m.body[s[j]].next = After(s, j)
        BY <1>1, <1>4, <4>1 DEF Tied, Linked, s
      <4>4. n.body[s[j]] = m.body[s[j]]
        BY <1>7, <1>9, <4>2
      <4>5. After(t, i) = After(s, j)
        <5>1. CASE j = Len(s)
          BY <1>5, <4>1, <5>1 DEF After
        <5>2. CASE j # Len(s)
          <6>0. Len(s) \in Nat /\ Len(t) = Len(s) + 1
            BY <1>4, <1>5
          <6>1. j + 1 \in 1 .. Len(s) /\ i # Len(t)
            BY <4>1, <5>2, <6>0
          <6>2. t[(j + 1) + 1] = s[j + 1]
            BY <1>5, <6>1
          <6> QED
            BY <4>1, <5>2, <6>1, <6>2 DEF After
        <5> QED
          BY <5>1, <5>2
      <4> QED
        BY <4>2, <4>3, <4>4, <4>5
    <3> QED
      BY <3>1, <3>2
  <2>4. n.bucket[bk] = After(d[bk], 0) /\ \A i \in DOMAIN d[bk] : n.body[d[bk][i]].next = After(d[bk], i)
    BY <1>6, <2>2, <2>3
  <2> QED
    BY <2>1, <2>4, Zenon DEF Linked
<1>17. Unshared(d)
  <2>0. \A b1, b2 \in Buckets : \A i \in DOMAIN c[b1], j \in DOMAIN c[b2] :
           c[b1][i] = c[b2][j] => b1 = b2 /\ i = j
    BY DEF Tied, Unshared
  <2>1. \A b \in Buckets : \A i \in DOMAIN c[b] : c[b][i] # e
    BY <1>2, <1>9, ChainsFact
  <2>2. \A i \in DOMAIN t : t[i] = e => i = 1
    <3> SUFFICES ASSUME NEW i \in DOMAIN t, i # 1 PROVE t[i] # e
      OBVIOUS
    <3>1. i - 1 \in 1 .. Len(s) /\ (i - 1) + 1 = i
      BY <1>4, <1>5
    <3> QED
      BY <1>4, <1>5, <1>9, <3>1
  <2>3. \A i \in DOMAIN t : i # 1 => i - 1 \in DOMAIN s /\ t[i] = s[i - 1]
    <3> SUFFICES ASSUME NEW i \in DOMAIN t, i # 1 PROVE i - 1 \in DOMAIN s /\ t[i] = s[i - 1]
      OBVIOUS
    <3>1. i - 1 \in 1 .. Len(s) /\ (i - 1) + 1 = i
      BY <1>4, <1>5
    <3> QED
      BY <1>4, <1>5, <3>1
  <2>4. ASSUME NEW i \in DOMAIN t, NEW j \in DOMAIN t, t[i] = t[j] PROVE i = j
    <3>1. CASE i = 1 \/ j = 1
      BY <1>5, <2>2, <2>4, <3>1
    <3>2. CASE i # 1 /\ j # 1
      <4>1. i - 1 = j - 1
        BY <1>1, <2>0, <2>3, <2>4, <3>2 DEF s
      <4>2. i \in Nat /\ j \in Nat
        BY <1>4, <1>5
      <4> QED
        BY <4>1, <4>2
    <3> QED
      BY <3>1, <3>2
  <2>5. ASSUME NEW b \in Buckets, b # bk, NEW i \in DOMAIN c[b], NEW j \in DOMAIN t, c[b][i] = t[j]
        PROVE  FALSE
    <3>1. j # 1
      BY <1>5, <2>1, <2>5
    <3> QED
      BY <1>1, <2>0, <2>3, <2>5, <3>1 DEF s
  <2> SUFFICES ASSUME NEW b1 \in Buckets, NEW b2 \in Buckets,
                      NEW i \in DOMAIN d[b1], NEW j \in DOMAIN d[b2], d[b1][i] = d[b2][j]
               PROVE  b1 = b2 /\ i = j
    BY DEF Unshared
  <2>6. CASE b1 = bk /\ b2 = bk
    BY <1>6, <2>4, <2>6
  <2>7. CASE b1 = bk /\ b2 # bk
    <3>1. i \in DOMAIN t /\ j \in DOMAIN c[b2] /\ c[b2][j] = t[i]
      BY <1>6, <2>7
    <3> QED
      BY <2>5, <2>7, <3>1
  <2>8. CASE b1 # bk /\ b2 = bk
    <3>1. j \in DOMAIN t /\ i \in DOMAIN c[b1] /\ c[b1][i] = t[j]
      BY <1>6, <2>8
    <3> QED
      BY <2>5, <2>8, <3>1
  <2>9. CASE b1 # bk /\ b2 # bk
    BY <1>6, <2>0, <2>9
  <2> QED
    BY <2>6, <2>7, <2>8, <2>9
<1>18. Tied(n, d, A)
  BY <1>6, <1>13, <1>14, <1>15, <1>16, <1>17 DEF Tied
<1>19. PutsFirst(Names(m, c), Names(n, d), bk, k)
  <2>1. \A f \in Entries(c) : NameAt(n, f) = NameAt(m, f)
    BY <1>7, <1>9 DEF NameAt
  <2>2. NameAt(n, e) = k
    BY <1>3, <1>7, <1>8 DEF NameAt
  <2>3. PutsFirst(c, d, bk, e)
    BY <1>6 DEF t, s, PutsFirst
  <2>4. e \in Addr \ {0}
    BY <1>3
  <2> HIDE DEF E
  <2> QED
    BY <1>1, <1>18, <2>1, <2>2, <2>3, <2>4, NamesInFact, Zenon
<1>20. Used(n, d) = Used(m, c) \union {e, kp, vp}
  <2>1. Ptr(n, e, 1) = e /\ Ptr(n, e, 2) = kp /\ Ptr(n, e, 3) = vp
    BY <1>7, <1>8 DEF Ptr
  <2>2. n.hash = m.hash
    OBVIOUS
  <2> HIDE DEF LinksIn, WithFirst, E
  <2>3. /\ Used(m, c) = {m.hash} \union {Ptr(m, f, p) : f \in E, p \in 1 .. 3}
        /\ Used(n, d) = {m.hash} \union {Ptr(n, f, p) : f \in E \union {e}, p \in 1 .. 3}
    BY <1>10, <2>2 DEF Used, E
  <2>4. ASSUME NEW a \in Used(n, d) PROVE a \in Used(m, c) \union {e, kp, vp}
    <3>1. CASE a = m.hash
      BY <2>3, <3>1
    <3>2. CASE \E f \in E, p \in 1 .. 3 : a = Ptr(n, f, p)
      BY <1>11, <3>2
    <3>3. CASE \E p \in 1 .. 3 : a = Ptr(n, e, p)
      BY <2>1, <3>3
    <3> QED
      BY <2>3, <2>4, <3>1, <3>2, <3>3
  <2>5. ASSUME NEW a \in Used(m, c) PROVE a \in Used(n, d)
    <3>1. CASE a = m.hash
      BY <2>3, <3>1
    <3>2. CASE \E f \in E, p \in 1 .. 3 : a = Ptr(m, f, p)
      BY <1>11, <2>3, <3>2
    <3> QED
      BY <2>3, <2>5, <3>1, <3>2
  <2>6. {e, kp, vp} \subseteq Used(n, d)
    <3>1. \A p \in 1 .. 3 : Ptr(n, e, p) \in Used(n, d)
      BY <2>3
    <3> QED
      BY <2>1, <3>1
  <2> QED
    BY <2>4, <2>5, <2>6
<1>21. Gains(Cells(m, c), Cells(n, d), e, <<k, m.body[vp]>>)
  <2>1. ASSUME NEW f \in E PROVE NameAt(n, f) = NameAt(m, f) /\ ValueAt(n, f) = ValueAt(m, f)
    <3>1. f \in Addr /\ f # e /\ m.body[f].key \in Addr /\ m.body[f].key # e
      BY <1>9
    <3>2. m.value[f] \in Addr /\ m.value[f] # e
      BY <1>3, <1>9
    <3> QED
      BY <1>7, <3>1, <3>2 DEF NameAt, ValueAt
  <2>2. NameAt(n, e) = k /\ ValueAt(n, e) = m.body[vp]
    BY <1>3, <1>7, <1>8 DEF NameAt, ValueAt
  <2>3. e \notin E
    BY <1>9
  <2> DEFINE F == Cells(m, c)
             G == Cells(n, d)
  <2>4. /\ DOMAIN F = E /\ DOMAIN G = E \union {e}
        /\ \A f \in E : F[f] = <<NameAt(m, f), ValueAt(m, f)>>
        /\ \A f \in E \union {e} : G[f] = <<NameAt(n, f), ValueAt(n, f)>>
    BY <1>10 DEF Cells
  <2> HIDE DEF F, G, E
  <2>5. Gains(F, G, e, <<k, m.body[vp]>>)
    BY <2>1, <2>2, <2>3, <2>4 DEF Gains
  <2> QED
    BY <2>5 DEF F, G
<1> QED
  BY <1>18, <1>19, <1>20, <1>21 DEF bk

\* Chains stay tied when entries leave them and the words of those that stay,
\* but for their links, stay the same.
LEMMA PartFact ==
    ASSUME NEW m, NEW c, NEW A, Tied(m, c, A), NEW n, NEW d, NEW A2,
           d \in [Buckets -> Seq(Addr \ {0})], Linked(n, d), Unshared(d),
           Entries(d) \subseteq Entries(c), n.hash = m.hash, n.hash \in A2,
           \A f \in Entries(d) : /\ n.body[f] \in EntryWords
                                 /\ NameAt(n, f) = NameAt(m, f)
                                 /\ \A p \in 1 .. 3 : Ptr(n, f, p) = Ptr(m, f, p) /\ Ptr(m, f, p) \in A2
    PROVE  Tied(n, d, A2)
<1>1. \A f \in Entries(d) : n.body[f] \in EntryWords /\ n.body[n.body[f].key] \in Keys
  BY DEF Tied, NameAt
<1>2. \A e, f \in Entries(d) : \A p, q \in 1 .. 3 : Ptr(n, e, p) = Ptr(n, f, q) => e = f /\ p = q
  BY DEF Tied
<1>3. \A e \in Entries(d) : \A p \in 1 .. 3 : Ptr(n, e, p) \in A2 /\ Ptr(n, e, p) # n.hash
  BY DEF Tied
<1> QED
  BY <1>1, <1>2, <1>3 DEF Tied

\* d are the chains c without the i-th of bucket bk, or without that bucket.
Dropped(s, i) == IF i = 1 THEN <<>> ELSE RemoveAt(s, i)

Drops(c, d, bk, i) == d[bk] = Dropped(c[bk], i) /\ \A b \in Buckets \ {bk} : d[b] = c[b]

\* What is left in front of i stays, what is left behind it moves up by one.
IsDropped(t, S, s, i) ==
    /\ t \in Seq(S)
    /\ Len(t) = IF i = 1 THEN 0 ELSE Len(s) - 1
    /\ \A j \in 1 .. Len(t) :
           /\ (IF j < i THEN j ELSE j + 1) \in 1 .. Len(s)
           /\ (IF j < i THEN j ELSE j + 1) # i
           /\ t[j] = s[IF j < i THEN j ELSE j + 1]

\* Dropped does that.
LEMMA DroppedFact ==
    ASSUME NEW S, NEW s \in Seq(S), NEW i \in 1 .. Len(s)
    PROVE  IsDropped(Dropped(s, i), S, s, i)
<1> SUFFICES
        /\ Dropped(s, i) \in Seq(S)
        /\ Len(Dropped(s, i)) = IF i = 1 THEN 0 ELSE Len(s) - 1
        /\ \A j \in 1 .. Len(Dropped(s, i)) :
               /\ (IF j < i THEN j ELSE j + 1) \in 1 .. Len(s)
               /\ (IF j < i THEN j ELSE j + 1) # i
               /\ Dropped(s, i)[j] = s[IF j < i THEN j ELSE j + 1]
  BY DEF IsDropped
<1>0. Len(s) \in Nat
  BY LenProperties
<1>1. CASE i = 1
  <2>1. Dropped(s, i) = <<>>
    BY <1>1 DEF Dropped
  <2> DEFINE t == Dropped(s, i)
  <2>2. t \in Seq(S) /\ Len(t) = 0
    BY <2>1, EmptySeq
  <2> HIDE DEF t
  <2>3. 1 .. Len(t) = {}
    BY <2>2
  <2> QED
    BY <1>1, <2>2, <2>3 DEF t
<1>2. CASE i # 1
  <2> DEFINE t == RemoveAt(s, i)
  <2>1. t \in Seq(S) /\ Len(t) = Len(s) - 1
        /\ \A j \in 1 .. Len(s) - 1 : t[j] = IF j < i THEN s[j] ELSE s[j + 1]
    BY RemoveAtFact
  <2>2. Dropped(s, i) = t
    BY <1>2 DEF Dropped
  <2> HIDE DEF t
  <2>3. ASSUME NEW j \in 1 .. Len(t)
        PROVE  /\ (IF j < i THEN j ELSE j + 1) \in 1 .. Len(s)
               /\ (IF j < i THEN j ELSE j + 1) # i
               /\ t[j] = s[IF j < i THEN j ELSE j + 1]
    BY <1>0, <2>1
  <2> QED
    BY <1>2, <2>1, <2>2, <2>3
<1> QED
  BY <1>1, <1>2

\* Without an entry the chains are without its key.
LEMMA NamesOutFact ==
    ASSUME NEW m, NEW c, NEW A, Tied(m, c, A), NEW n, NEW d, NEW A2, Tied(n, d, A2),
           NEW bk \in Buckets, NEW i \in 1 .. Len(c[bk]), Drops(c, d, bk, i),
           \A f \in Entries(d) : NameAt(n, f) = NameAt(m, f)
    PROVE  Drops(Names(m, c), Names(n, d), bk, i)
<1> DEFINE N == Names(m, c)
           M == Names(n, d)
           At(s, j) == s[IF j < i THEN j ELSE j + 1]
<1>0. c \in [Buckets -> Seq(Addr \ {0})] /\ d \in [Buckets -> Seq(Addr \ {0})]
  BY DEF Tied
<1> HIDE DEF N, M
<1>1. /\ N \in [Buckets -> Seq(Keys)]
      /\ \A b \in Buckets :
             /\ Len(N[b]) = Len(c[b])
             /\ \A p \in 1 .. Len(c[b]) : N[b][p] = m.body[m.body[c[b][p]].key]
  <2>1. AreNames(N, m, c)
    BY NamesFact DEF N
  <2> QED
    BY <2>1 DEF AreNames
<1>2. /\ M \in [Buckets -> Seq(Keys)]
      /\ \A b \in Buckets :
             /\ Len(M[b]) = Len(d[b])
             /\ \A p \in 1 .. Len(d[b]) : M[b][p] = n.body[n.body[d[b][p]].key]
  <2>1. AreNames(M, n, d)
    BY NamesFact DEF M
  <2> QED
    BY <2>1 DEF AreNames
<1>3. \A b \in Buckets : /\ Len(d[b]) \in Nat
                         /\ \A j \in 1 .. Len(d[b]) : d[b][j] \in Entries(d)
  BY <1>0, ChainsFact
<1>4. \A b \in Buckets : \A j \in 1 .. Len(d[b]) : M[b][j] = m.body[m.body[d[b][j]].key]
  BY <1>2, <1>3 DEF NameAt
<1>5. ASSUME NEW b \in Buckets, b # bk PROVE M[b] = N[b]
  <2>1. d[b] = c[b]
    BY <1>5 DEF Drops
  <2>2. N[b] \in Seq(Keys) /\ M[b] \in Seq(Keys) /\ Len(N[b]) = Len(c[b]) /\ Len(M[b]) = Len(c[b])
    BY <1>1, <1>2, <2>1
  <2>3. \A j \in 1 .. Len(M[b]) : M[b][j] = N[b][j]
    BY <1>1, <1>4, <2>1, <2>2
  <2> QED
    BY <2>2, <2>3, SeqEqual
<1> DEFINE s == c[bk]
           x == N[bk]
           y == Dropped(x, i)
<1>6. s \in Seq(Addr \ {0}) /\ x \in Seq(Keys) /\ Len(x) = Len(s)
      /\ \A j \in 1 .. Len(s) : x[j] = m.body[m.body[s[j]].key]
  BY <1>0, <1>1
<1>7. d[bk] = Dropped(s, i)
  BY DEF Drops
<1>8. i \in 1 .. Len(s)
  OBVIOUS
<1> HIDE DEF s, x
<1>9. /\ y \in Seq(Keys) /\ Len(y) = IF i = 1 THEN 0 ELSE Len(s) - 1
      /\ \A j \in 1 .. Len(y) : (IF j < i THEN j ELSE j + 1) \in 1 .. Len(s) /\ y[j] = At(x, j)
  <2>1. i \in 1 .. Len(x)
    BY <1>6, <1>8
  <2>2. /\ y \in Seq(Keys) /\ Len(y) = IF i = 1 THEN 0 ELSE Len(x) - 1
        /\ \A j \in 1 .. Len(y) :
               /\ (IF j < i THEN j ELSE j + 1) \in 1 .. Len(x)
               /\ (IF j < i THEN j ELSE j + 1) # i
               /\ y[j] = x[IF j < i THEN j ELSE j + 1]
    <3>1. IsDropped(y, Keys, x, i)
      BY <1>6, <2>1, DroppedFact
    <3> HIDE DEF y
    <3> QED
      BY <3>1 DEF IsDropped
  <2> HIDE DEF y
  <2>3. Len(x) = Len(s)
    BY <1>6
  <2> QED
    BY <2>2, <2>3
<1>10. /\ Len(d[bk]) = IF i = 1 THEN 0 ELSE Len(s) - 1
       /\ \A j \in 1 .. Len(d[bk]) : d[bk][j] = At(s, j)
  <2> DEFINE t == Dropped(s, i)
  <2>1. IsDropped(t, Addr \ {0}, s, i)
    BY <1>6, <1>8, DroppedFact
  <2>2. d[bk] = t
    BY <1>7
  <2> HIDE DEF t
  <2> QED
    BY <2>1, <2>2 DEF IsDropped
<1> HIDE DEF y
<1>11. M[bk] \in Seq(Keys) /\ Len(M[bk]) = Len(y)
  BY <1>2, <1>9, <1>10
<1>12. ASSUME NEW j \in 1 .. Len(y) PROVE M[bk][j] = y[j]
  <2> DEFINE l == IF j < i THEN j ELSE j + 1
  <2>1. l \in 1 .. Len(s) /\ y[j] = x[l]
    BY <1>9
  <2>2. d[bk][j] = s[l] /\ j \in 1 .. Len(d[bk])
    BY <1>9, <1>10
  <2> HIDE DEF l
  <2>3. M[bk][j] = m.body[m.body[s[l]].key]
    BY <1>4, <2>2
  <2> QED
    BY <1>6, <2>1, <2>3
<1>13. M[bk] = y
  BY <1>9, <1>11, <1>12, SeqEqual
<1> QED
  BY <1>5, <1>13 DEF Drops, M, N, x, y

\* n is m without entry e, the i-th in the chain of k, of which three blocks of
\* A are left over.
Unlinked(m, c, A, k, i, n, e) ==
    /\ e \in A /\ m.body[e].key \in A /\ m.value[e] \in A
    /\ e # m.body[e].key /\ e # m.value[e] /\ m.body[e].key # m.value[e]
    /\ n \in Image /\ n.free = m.free /\ n.header = m.header
    /\ n.size = m.size /\ n.log = m.log
    /\ \E d : /\ Tied(n, d, A \ {e, m.body[e].key, m.value[e]})
              /\ Drops(Names(m, c), Names(n, d), BucketOf[k], i)
              /\ (i = 1 => Len(c[BucketOf[k]]) = 1) =>
                    /\ Loses(Cells(m, c), Cells(n, d), e)
                    /\ Used(n, d) = Used(m, c) \ {e, m.body[e].key, m.value[e]}

\* ht_delete: what the unlinked entry points to, and itself, no chain points to.
LEMMA UnlinkFact ==
    ASSUME NEW m \in Image, NEW c, NEW A, Tied(m, c, A),
           NEW k \in Keys, NEW i \in 1 .. Len(c[BucketOf[k]]),
           NEW n, n = Unlink(m, c[BucketOf[k]], i, k),
           NEW e, e = c[BucketOf[k]][i]
    PROVE  Unlinked(m, c, A, k, i, n, e)
<1> USE DEF Unlinked
<1> DEFINE bk == BucketOf[k]
           E == Entries(c)
           s == c[bk]
           t == Dropped(s, i)
           d == [c EXCEPT ![bk] = t]
           At(j) == IF j < i THEN j ELSE j + 1
           B == A \ {e, m.body[e].key, m.value[e]}
<1>1. bk \in Buckets
  BY TableAssumption DEF TableAssumption, Strings
<1>2. c \in [Buckets -> Seq(Addr \ {0})]
  BY DEF Tied
<1>3. /\ m.body \in [Addr -> Strings \union EntryWords]
      /\ m.bucket \in [Buckets -> Addr] /\ m.value \in [Addr -> Addr]
  BY DEF Image
<1>4. /\ s \in Seq(Addr \ {0}) /\ Len(s) \in Nat /\ DOMAIN s = 1 .. Len(s)
      /\ \A j \in 1 .. Len(s) : s[j] \in E /\ s[j] \in Addr \ {0}
  BY <1>1, <1>2, ChainsFact
<1>5. i \in 1 .. Len(s) /\ i \in Nat /\ e = s[i]
  BY <1>4
<1>6. /\ t \in Seq(Addr \ {0}) /\ Len(t) \in Nat /\ DOMAIN t = 1 .. Len(t)
      /\ Len(t) = IF i = 1 THEN 0 ELSE Len(s) - 1
      /\ \A j \in 1 .. Len(t) : At(j) \in 1 .. Len(s) /\ At(j) # i /\ t[j] = s[At(j)]
  <2>1. /\ t \in Seq(Addr \ {0}) /\ Len(t) = IF i = 1 THEN 0 ELSE Len(s) - 1
        /\ \A j \in 1 .. Len(t) : At(j) \in 1 .. Len(s) /\ At(j) # i /\ t[j] = s[At(j)]
    <3>1. s \in Seq(Addr \ {0}) /\ i \in 1 .. Len(s)
      BY <1>4, <1>5
    <3> HIDE DEF s
    <3>2. IsDropped(t, Addr \ {0}, s, i)
      BY <3>1, DroppedFact
    <3> HIDE DEF t
    <3> QED
      BY <3>2 DEF IsDropped
  <2> HIDE DEF t
  <2> QED
    BY <2>1, LenProperties
<1> HIDE DEF t, s, bk
<1>7. d \in [Buckets -> Seq(Addr \ {0})] /\ d[bk] = t /\ \A b \in Buckets \ {bk} : d[b] = c[b]
  BY <1>1, <1>2, <1>6, Zenon
<1>8. n = IF i > 1 THEN [m EXCEPT !.body[s[i - 1]].next = m.body[s[i]].next]
          ELSE [m EXCEPT !.bucket[bk] = 0]
  BY DEF Unlink, s, bk
<1> HIDE DEF d, E
<1>9. \A f \in E : f \in Addr \ {0} /\ m.body[f] \in EntryWords /\ m.body[f].key \in Addr /\ m.body[f].next \in Addr
  <2> TAKE f \in E
  <2>1. f \in Addr /\ m.body[f] \in EntryWords
    BY DEF Tied, E, Entries
  <2>2. f # 0
    <3>1. PICK b \in Buckets : \E j \in DOMAIN c[b] : c[b][j] = f
      BY DEF E, Entries
    <3> QED
      BY <1>2, <3>1, ChainsFact
  <2> QED
    BY <2>1, <2>2 DEF EntryWords
<1>10. e \in E
  BY <1>4, <1>5
<1>11. \A f \in E : m.body[f].key \notin E
  <2> SUFFICES ASSUME NEW f \in E, m.body[f].key \in E PROVE FALSE
    OBVIOUS
  <2>1. Ptr(m, f, 2) = Ptr(m, m.body[f].key, 1)
    BY DEF Ptr
  <2> QED
    BY <2>1 DEF Tied, E
<1>12. /\ n \in Image /\ n.free = m.free /\ n.header = m.header
       /\ n.value = m.value /\ n.hash = m.hash /\ n.size = m.size /\ n.log = m.log
       /\ \A f \in E : n.body[f] \in EntryWords /\ n.body[f].key = m.body[f].key
       /\ \A a \in Addr \ E : n.body[a] = m.body[a]
       /\ i > 1 => /\ n.bucket = m.bucket /\ n.body[s[i - 1]].next = m.body[e].next
                   /\ \A f \in E \ {s[i - 1]} : n.body[f].next = m.body[f].next
       /\ i = 1 => /\ n.body = m.body /\ n.bucket[bk] = 0
                   /\ \A b \in Buckets \ {bk} : n.bucket[b] = m.bucket[b]
  <2>1. CASE i > 1
    <3> DEFINE p == s[i - 1]
               w == [m.body[p] EXCEPT !.next = m.body[e].next]
               body == [m.body EXCEPT ![p] = w]
    <3>1. p \in E
      <4>1. i - 1 \in 1 .. Len(s)
        BY <1>4, <1>5, <2>1
      <4> QED
        BY <1>4, <4>1
    <3> HIDE DEF p
    <3>2. w \in EntryWords /\ w.key = m.body[p].key /\ w.next = m.body[e].next
      BY <1>9, <1>10, <3>1 DEF EntryWords
    <3>3. n = [m EXCEPT !.body = body]
      BY <1>5, <1>8, <2>1 DEF p
    <3> HIDE DEF w
    <3>4. body \in [Addr -> Strings \union EntryWords] /\ body[p] = w
          /\ \A a \in Addr : a # p => body[a] = m.body[a]
      BY <1>3, <1>9, <3>1, <3>2
    <3> HIDE DEF body
    <3>5. /\ n \in Image /\ n.free = m.free /\ n.header = m.header /\ n.body = body
          /\ n.value = m.value /\ n.hash = m.hash /\ n.bucket = m.bucket
          /\ n.size = m.size /\ n.log = m.log
      BY <3>3, <3>4 DEF Image
    <3>6. \A f \in E : n.body[f] \in EntryWords /\ n.body[f].key = m.body[f].key
      BY <1>9, <3>2, <3>4, <3>5
    <3>7. \A f \in E \ {p} : n.body[f].next = m.body[f].next
      BY <1>9, <3>4, <3>5
    <3>8. \A a \in Addr \ E : n.body[a] = m.body[a]
      BY <3>1, <3>4, <3>5
    <3> QED
      BY <1>5, <2>1, <3>2, <3>4, <3>5, <3>6, <3>7, <3>8 DEF p
  <2>2. CASE i = 1
    <3> DEFINE bucket == [m.bucket EXCEPT ![bk] = 0]
    <3>1. n = [m EXCEPT !.bucket = bucket]
      BY <1>8, <2>2
    <3>2. bucket \in [Buckets -> Addr] /\ bucket[bk] = 0
          /\ \A b \in Buckets \ {bk} : bucket[b] = m.bucket[b]
      BY <1>1, <1>3, AddrFact
    <3> HIDE DEF bucket
    <3>3. /\ n \in Image /\ n.free = m.free /\ n.header = m.header /\ n.bucket = bucket
          /\ n.value = m.value /\ n.hash = m.hash /\ n.body = m.body
          /\ n.size = m.size /\ n.log = m.log
      BY <3>1, <3>2 DEF Image
    <3> QED
      BY <1>9, <2>2, <3>2, <3>3
  <2> QED
    BY <1>5, <2>1, <2>2
<1>13. /\ \A b1, b2 \in Buckets : \A j1 \in DOMAIN c[b1], j2 \in DOMAIN c[b2] :
              c[b1][j1] = c[b2][j2] => b1 = b2 /\ j1 = j2
       /\ \A b \in Buckets : /\ DOMAIN c[b] = 1 .. Len(c[b]) /\ Len(c[b]) \in Nat
                             /\ \A j \in DOMAIN c[b] : c[b][j] \in E
  BY <1>2, ChainsFact DEF Tied, Unshared, E
<1>14. \A j1, j2 \in 1 .. Len(s) : s[j1] = s[j2] => j1 = j2
  BY <1>1, <1>4, <1>13 DEF s
\* Every entry that stays has its place in the chains there were.
<1>15. \A b \in Buckets \ {bk} : \A j \in DOMAIN c[b] :
          c[b][j] \in E \ {e} /\ \A l \in 1 .. Len(s) : c[b][j] # s[l]
  BY <1>1, <1>4, <1>5, <1>13 DEF s
<1>16. \A j \in 1 .. Len(t) : t[j] \in E \ {e}
  BY <1>4, <1>5, <1>6, <1>14
<1>17. Entries(d) \subseteq E \ {e}
  <2> SUFFICES ASSUME NEW f \in Entries(d) PROVE f \in E \ {e}
    OBVIOUS
  <2>1. PICK b \in Buckets : \E j \in DOMAIN d[b] : d[b][j] = f
    BY DEF Entries
  <2>2. CASE b = bk
    BY <1>6, <1>7, <1>16, <2>1, <2>2
  <2>3. CASE b # bk
    BY <1>7, <1>15, <2>1, <2>3
  <2> QED
    BY <2>2, <2>3
<1>18. Unshared(d)
  <2>1. \A j1, j2 \in 1 .. Len(t) : t[j1] = t[j2] => j1 = j2
    <3> TAKE j1, j2 \in 1 .. Len(t)
    <3> HAVE t[j1] = t[j2]
    <3>1. At(j1) = At(j2)
      BY <1>6, <1>14
    <3>2. j1 \in Nat /\ j2 \in Nat
      BY <1>6
    <3> QED
      BY <1>5, <3>1, <3>2
  <2>2. \A b \in Buckets \ {bk} : \A j \in DOMAIN c[b] : \A l \in 1 .. Len(t) : c[b][j] # t[l]
    BY <1>6, <1>15
  <2> HIDE DEF At
  <2> SUFFICES ASSUME NEW b1 \in Buckets, NEW b2 \in Buckets,
                      NEW j1 \in DOMAIN d[b1], NEW j2 \in DOMAIN d[b2], d[b1][j1] = d[b2][j2]
               PROVE  b1 = b2 /\ j1 = j2
    BY DEF Unshared
  <2>3. CASE b1 = bk /\ b2 = bk
    <3>1. j1 \in 1 .. Len(t) /\ j2 \in 1 .. Len(t) /\ t[j1] = t[j2]
      BY <1>6, <1>7, <2>3
    <3> QED
      BY <2>1, <2>3, <3>1
  <2>4. CASE b1 = bk /\ b2 # bk
    <3>1. j1 \in 1 .. Len(t) /\ j2 \in DOMAIN c[b2] /\ c[b2][j2] = t[j1]
      BY <1>6, <1>7, <2>4
    <3> QED
      BY <2>2, <2>4, <3>1
  <2>5. CASE b1 # bk /\ b2 = bk
    <3>1. j2 \in 1 .. Len(t) /\ j1 \in DOMAIN c[b1] /\ c[b1][j1] = t[j2]
      BY <1>6, <1>7, <2>5
    <3> QED
      BY <2>2, <2>5, <3>1
  <2>6. CASE b1 # bk /\ b2 # bk
    BY <1>7, <1>13, <2>6
  <2> QED
    BY <2>3, <2>4, <2>5, <2>6
<1>19. Linked(n, d)
  <2>0. \A b \in Buckets : /\ m.bucket[b] = After(c[b], 0)
                           /\ \A j \in DOMAIN c[b] : m.body[c[b][j]].next = After(c[b], j)
    BY DEF Tied, Linked
  <2>1. ASSUME NEW b \in Buckets \ {bk}
        PROVE  n.bucket[b] = After(d[b], 0) /\ \A j \in DOMAIN d[b] : n.body[d[b][j]].next = After(d[b], j)
    <3>1. i - 1 \in 1 .. Len(s) \/ i = 1
      BY <1>4, <1>5
    <3>2. n.bucket[b] = m.bucket[b]
      BY <1>5, <1>12, <3>1
    <3>3. \A j \in DOMAIN c[b] : n.body[c[b][j]].next = m.body[c[b][j]].next
      BY <1>4, <1>5, <1>12, <1>15, <3>1
    <3> QED
      BY <1>7, <2>0, <3>2, <3>3
  <2>2. n.bucket[bk] = After(t, 0)
    <3>1. CASE i = 1
      BY <1>6, <1>12, <3>1 DEF After
    <3>2. CASE i # 1
      <4>1. i > 1
        BY <1>5, <3>2
      <4>2. n.bucket[bk] = After(s, 0)
        BY <1>1, <1>12, <2>0, <4>1 DEF s
      <4>3. Len(s) # 0 /\ After(s, 0) = s[1]
        BY <1>4, <1>5 DEF After
      <4>4. CASE Len(t) = 0
        BY <1>4, <1>5, <1>6, <4>1, <4>4
      <4>5. CASE Len(t) # 0
        <5>1. 1 \in 1 .. Len(t) /\ At(1) = 1
          <6>1. Len(t) \in Nat
            BY <1>6
          <6> QED
            BY <4>1, <4>5, <6>1
        <5>2. t[1] = s[1]
          BY <1>6, <5>1
        <5>3. After(t, 0) = t[1]
          BY <4>5 DEF After
        <5> QED
          BY <4>2, <4>3, <5>2, <5>3
      <4> QED
        BY <4>4, <4>5
    <3> QED
      BY <3>1, <3>2
  <2>3. ASSUME NEW j \in 1 .. Len(t) PROVE n.body[t[j]].next = After(t, j)
    <3>0. Len(s) \in Nat /\ Len(t) \in Nat /\ Len(t) > 0 /\ j \in Nat
      <4>1. Len(s) \in Nat /\ Len(t) \in Nat
        BY <1>4, <1>6
      <4> QED
        BY <4>1
    <3>1. i > 1 /\ Len(t) = Len(s) - 1
      BY <1>5, <1>6, <3>0
    <3>2. \A l \in 1 .. Len(s) : m.body[s[l]].next = After(s, l)
      BY <1>1, <1>4, <2>0 DEF s
    <3>3. i - 1 \in 1 .. Len(s)
      BY <1>5, <3>0, <3>1
    <3>4. CASE j = i - 1
      <4>1. t[j] = s[i - 1]
        <5>1. At(j) = j
          BY <1>5, <3>0, <3>4
        <5> QED
          BY <1>6, <3>4, <5>1
      <4>2. n.body[t[j]].next = After(s, i)
        BY <1>5, <1>12, <3>1, <3>2, <4>1
      <4>3. CASE i = Len(s)
        BY <3>0, <3>1, <3>4, <4>2, <4>3 DEF After
      <4>4. CASE i # Len(s)
        <5>1. j + 1 \in 1 .. Len(t) /\ At(j + 1) = i + 1
          BY <1>5, <3>0, <3>1, <3>4, <4>4
        <5>2. t[j + 1] = s[i + 1]
          BY <1>6, <5>1
        <5>3. j # Len(t)
          BY <3>0, <5>1
        <5> QED
          BY <4>2, <4>4, <5>2, <5>3 DEF After
      <4> QED
        BY <4>3, <4>4
    <3>5. CASE j # i - 1
      <4> DEFINE l == At(j)
      <4>1. l \in 1 .. Len(s) /\ l # i - 1 /\ t[j] = s[l]
        <5>1. l \in 1 .. Len(s) /\ t[j] = s[l]
          BY <1>6
        <5>2. l # i - 1
          BY <1>5, <3>0, <3>5
        <5> QED
          BY <5>1, <5>2
      <4>2. s[l] # s[i - 1]
        BY <1>14, <3>3, <4>1
      <4>3. n.body[t[j]].next = After(s, l)
        BY <1>4, <1>12, <3>1, <3>2, <4>1, <4>2
      <4>4. CASE j = Len(t)
        <5>1. l = Len(s)
          BY <1>5, <3>0, <3>1, <3>5, <4>4
        <5> HIDE DEF l
        <5> QED
          BY <4>3, <4>4, <5>1 DEF After
      <4>5. CASE j # Len(t)
        <5>1. j + 1 \in 1 .. Len(t) /\ At(j + 1) = l + 1 /\ l # Len(s)
          BY <1>5, <3>0, <3>1, <3>5, <4>5
        <5>2. t[j + 1] = s[l + 1]
          BY <1>6, <5>1
        <5> HIDE DEF l
        <5> QED
          BY <4>3, <4>5, <5>1, <5>2 DEF After
      <4> QED
        BY <4>4, <4>5
    <3> QED
      BY <3>4, <3>5
  <2>4. n.bucket[bk] = After(d[bk], 0) /\ \A j \in DOMAIN d[bk] : n.body[d[bk][j]].next = After(d[bk], j)
    BY <1>6, <1>7, <2>2, <2>3
  <2> QED
    BY <2>1, <2>4, Zenon DEF Linked
\* The blocks of the entry are its own.
<1>20. \A f \in E : /\ Ptr(m, f, 1) = f /\ Ptr(m, f, 2) = m.body[f].key /\ Ptr(m, f, 3) = m.value[f]
                    /\ 1 \in 1 .. 3 /\ 2 \in 1 .. 3 /\ 3 \in 1 .. 3
  BY DEF Ptr
<1>21. \A f, g \in E : \A p, q \in 1 .. 3 : Ptr(m, f, p) = Ptr(m, g, q) => f = g /\ p = q
  BY DEF Tied, E
<1>22. \A f \in E : \A p \in 1 .. 3 : Ptr(m, f, p) \in A /\ Ptr(m, f, p) # m.hash
  BY DEF Tied, E
<1>23. /\ e \in A /\ m.body[e].key \in A /\ m.value[e] \in A
       /\ e # m.body[e].key /\ e # m.value[e] /\ m.body[e].key # m.value[e]
  BY <1>10, <1>20, <1>21, <1>22
<1>24. /\ \A f \in Entries(d) : \A p \in 1 .. 3 : Ptr(m, f, p) \in B
       /\ n.hash \in B
  <2>1. ASSUME NEW f \in Entries(d), NEW p \in 1 .. 3 PROVE Ptr(m, f, p) \in B
    <3>1. f \in E /\ f # e
      BY <1>17
    <3>2. \A q \in 1 .. 3 : Ptr(m, f, p) # Ptr(m, e, q)
      BY <1>10, <1>21, <3>1
    <3> QED
      BY <1>10, <1>20, <1>22, <3>1, <3>2
  <2>2. n.hash \in A /\ \A q \in 1 .. 3 : n.hash # Ptr(m, e, q)
    BY <1>10, <1>12, <1>22 DEF Tied
  <2> QED
    BY <1>10, <1>20, <2>1, <2>2
<1>25. \A f \in E : NameAt(n, f) = NameAt(m, f) /\ \A p \in 1 .. 3 : Ptr(n, f, p) = Ptr(m, f, p)
  BY <1>9, <1>11, <1>12 DEF NameAt, Ptr
<1> HIDE DEF B
<1>26. Tied(n, d, B)
  <2>1. \A f \in Entries(d) : /\ n.body[f] \in EntryWords
                              /\ NameAt(n, f) = NameAt(m, f)
                              /\ \A p \in 1 .. 3 : Ptr(n, f, p) = Ptr(m, f, p) /\ Ptr(m, f, p) \in B
    BY <1>12, <1>17, <1>24, <1>25
  <2>2. Entries(d) \subseteq Entries(c)
    BY <1>17 DEF E
  <2> QED
    BY <1>7, <1>12, <1>18, <1>19, <1>24, <2>1, <2>2, PartFact
<1>27. Drops(Names(m, c), Names(n, d), bk, i)
  <2>1. Drops(c, d, bk, i)
    BY <1>7 DEF Drops, t, s
  <2>2. \A f \in Entries(d) : NameAt(n, f) = NameAt(m, f)
    BY <1>17, <1>25
  <2>3. i \in 1 .. Len(c[bk])
    BY DEF bk
  <2> QED
    BY <1>1, <1>26, <2>1, <2>2, <2>3, NamesOutFact
\* An entry without successors takes nothing along.
<1>28. ASSUME i = 1 => Len(s) = 1
       PROVE  /\ Loses(Cells(m, c), Cells(n, d), e)
              /\ Used(n, d) = Used(m, c) \ {e, m.body[e].key, m.value[e]}
  <2>1. ASSUME NEW f \in E, f # e PROVE f \in Entries(d)
    <3>1. PICK b \in Buckets : \E j \in DOMAIN c[b] : c[b][j] = f
      BY DEF E, Entries
    <3>2. PICK j \in DOMAIN c[b] : c[b][j] = f
      BY <3>1
    <3>3. f \in Addr
      BY <1>9
    <3>4. CASE b # bk
      BY <1>7, <3>2, <3>3, <3>4 DEF Entries
    <3>5. CASE b = bk
      <4>0. c[b] = s
        BY <3>5 DEF s
      <4>1. j \in 1 .. Len(s) /\ s[j] = f /\ j # i
        BY <1>4, <1>5, <2>1, <3>2, <4>0
      <4>2. i # 1
        BY <1>28, <4>1
      <4>3. Len(t) = Len(s) - 1 /\ Len(s) \in Nat /\ i \in 1 .. Len(s)
        BY <1>4, <1>5, <1>6, <4>2
      <4> DEFINE l == IF j < i THEN j ELSE j - 1
      <4>4. l \in 1 .. Len(t) /\ At(l) = j
        BY <4>1, <4>2, <4>3
      <4> HIDE DEF l
      <4>5. t[l] = f /\ l \in DOMAIN t
        BY <1>6, <4>1, <4>4
      <4> QED
        BY <1>1, <1>7, <3>3, <4>5 DEF Entries
    <3> QED
      BY <3>4, <3>5
  <2>2. Entries(d) = E \ {e}
    BY <1>17, <2>1
  <2>3. \A f \in Entries(d) : NameAt(n, f) = NameAt(m, f) /\ ValueAt(n, f) = ValueAt(m, f)
    <3> TAKE f \in Entries(d)
    <3>1. f \in E /\ NameAt(n, f) = NameAt(m, f)
      BY <1>17, <1>25
    <3>2. m.value[f] \notin E
      <4> SUFFICES ASSUME m.value[f] \in E PROVE FALSE
        OBVIOUS
      <4>1. Ptr(m, f, 3) = Ptr(m, m.value[f], 1)
        BY DEF Ptr
      <4> QED
        BY <1>20, <1>21, <3>1, <4>1
    <3>3. n.body[m.value[f]] = m.body[m.value[f]]
      BY <1>3, <1>9, <1>12, <3>1, <3>2
    <3> QED
      BY <1>12, <3>1, <3>3 DEF ValueAt
  <2>4. Loses(Cells(m, c), Cells(n, d), e)
    <3> DEFINE F == Cells(m, c)
               G == Cells(n, d)
    <3>1. /\ DOMAIN F = E /\ DOMAIN G = E \ {e}
          /\ \A f \in E : F[f] = <<NameAt(m, f), ValueAt(m, f)>>
          /\ \A f \in E \ {e} : G[f] = <<NameAt(n, f), ValueAt(n, f)>>
      BY <2>2 DEF Cells, E
    <3> HIDE DEF F, G
    <3>2. Loses(F, G, e)
      BY <1>10, <2>2, <2>3, <3>1 DEF Loses
    <3> QED
      BY <3>2 DEF F, G
  <2>5. Used(n, d) = Used(m, c) \ {e, m.body[e].key, m.value[e]}
    <3>1. {e, m.body[e].key, m.value[e]} = {Ptr(m, e, p) : p \in 1 .. 3}
      <4>1. 1 .. 3 = {1, 2, 3}
        OBVIOUS
      <4> QED
        BY <1>10, <1>20, <4>1
    <3>2. Used(m, c) = {m.hash} \union {Ptr(m, f, p) : f \in E, p \in 1 .. 3}
      BY DEF Used, E
    <3>3. Used(n, d) = {m.hash} \union {Ptr(m, f, p) : f \in E \ {e}, p \in 1 .. 3}
      BY <1>12, <1>25, <2>2 DEF Used
    <3> QED
      BY <1>10, <1>21, <1>22, <3>1, <3>2, <3>3
  <2> QED
    BY <2>4, <2>5
<1> QED
  BY <1>12, <1>23, <1>26, <1>27, <1>28 DEF B, bk, s

\* A new block vp for the value of entry e: nobody points to the old one any
\* more.
Replaced(m, c, A, e, vp, n) ==
    /\ m.value[e] \in A
    /\ Tied(n, c, A \ {m.value[e]})
    /\ Names(n, c) = Names(m, c)
    /\ Used(n, c) = (Used(m, c) \ {m.value[e]}) \union {vp}
    /\ Renews(Cells(m, c), Cells(n, c), e, m.body[vp])

\* ht_set of a key that is there.
LEMMA ReplaceFact ==
    ASSUME NEW m \in Image, NEW c, NEW A, Tied(m, c, A),
           NEW e \in Entries(c), NEW vp \in A, vp \notin Used(m, c),
           NEW n, n.value = [m.value EXCEPT ![e] = vp],
           n.body = m.body, n.bucket = m.bucket, n.hash = m.hash
    PROVE  Replaced(m, c, A, e, vp, n)
<1> DEFINE E == Entries(c)
           B == A \ {m.value[e]}
<1>1. /\ m.value \in [Addr -> Addr] /\ E \subseteq Addr
      /\ \A f \in E : m.body[f] \in EntryWords /\ m.body[m.body[f].key] \in Keys
  BY DEF Image, Tied, Entries
<1>2. n.value[e] = vp /\ \A f \in E : f # e => n.value[f] = m.value[f]
  BY <1>1
<1>3. /\ \A f, g \in E : \A p, q \in 1 .. 3 : Ptr(m, f, p) = Ptr(m, g, q) => f = g /\ p = q
      /\ \A f \in E : \A p \in 1 .. 3 : Ptr(m, f, p) \in A /\ Ptr(m, f, p) # m.hash
      /\ m.hash \in A
      /\ c \in [Buckets -> Seq(Addr \ {0})] /\ Linked(m, c) /\ Unshared(c)
  BY DEF Tied
<1>4. /\ \A f \in E : \A p \in 1 .. 3 : Ptr(m, f, p) \in Used(m, c)
      /\ m.hash \in Used(m, c)
  BY DEF Used
<1>5. Linked(n, c)
  BY <1>3 DEF Linked
<1>6. Names(n, c) = Names(m, c)
  BY DEF Names
<1>7. e \in E
  OBVIOUS
<1> HIDE DEF E
<1>8. 3 \in 1 .. 3 /\ Ptr(m, e, 3) = m.value[e]
  BY DEF Ptr
<1>9. /\ \A f \in E : \A p \in 1 .. 3 : f # e \/ p # 3 => Ptr(n, f, p) = Ptr(m, f, p)
      /\ Ptr(n, e, 3) = vp
  BY <1>2 DEF Ptr
<1>10. \A f \in E : \A p \in 1 .. 3 : Ptr(n, f, p) \in B /\ Ptr(n, f, p) # n.hash
  <2> TAKE f \in E
  <2> TAKE p \in 1 .. 3
  <2>1. CASE f = e /\ p = 3
    BY <1>4, <1>7, <1>8, <1>9, <2>1
  <2>2. CASE f # e \/ p # 3
    BY <1>3, <1>7, <1>8, <1>9, <2>2
  <2> QED
    BY <2>1, <2>2
<1>11. n.hash \in B
  BY <1>3, <1>7, <1>8
<1>12. \A f, g \in E : \A p, q \in 1 .. 3 : Ptr(n, f, p) = Ptr(n, g, q) => f = g /\ p = q
  <2> TAKE f, g \in E
  <2> TAKE p, q \in 1 .. 3
  <2>1. CASE f = e /\ p = 3
    BY <1>4, <1>7, <1>8, <1>9, <2>1
  <2>2. CASE g = e /\ q = 3
    BY <1>4, <1>7, <1>8, <1>9, <2>2
  <2>3. CASE (f # e \/ p # 3) /\ (g # e \/ q # 3)
    BY <1>3, <1>9, <2>3
  <2> QED
    BY <2>1, <2>2, <2>3
<1>13. m.value[e] \in A
  BY <1>3, <1>7, <1>8
<1>14. Used(n, c) = (Used(m, c) \ {m.value[e]}) \union {vp}
  <2>1. /\ Used(m, c) = {m.hash} \union {Ptr(m, f, p) : f \in E, p \in 1 .. 3}
        /\ Used(n, c) = {m.hash} \union {Ptr(n, f, p) : f \in E, p \in 1 .. 3}
    BY DEF Used, E
  <2>2. ASSUME NEW a \in Used(n, c) PROVE a \in (Used(m, c) \ {m.value[e]}) \union {vp}
    BY <1>3, <1>7, <1>8, <1>9, <2>1, <2>2
  <2>3. ASSUME NEW a \in (Used(m, c) \ {m.value[e]}) \union {vp} PROVE a \in Used(n, c)
    <3>1. CASE a = vp
      BY <1>7, <1>8, <1>9, <2>1, <3>1
    <3>2. CASE a = m.hash
      BY <2>1, <3>2
    <3>3. CASE a # vp /\ a # m.hash
      <4>1. PICK f \in E, p \in 1 .. 3 : a = Ptr(m, f, p)
        BY <2>1, <2>3, <3>3
      <4>2. f # e \/ p # 3
        BY <1>8, <2>3, <3>3, <4>1
      <4> QED
        BY <1>9, <2>1, <4>1, <4>2
    <3> QED
      BY <3>1, <3>2, <3>3
  <2> QED
    BY <2>2, <2>3
<1>15. Renews(Cells(m, c), Cells(n, c), e, m.body[vp])
  <2>1. \A f \in E : NameAt(n, f) = NameAt(m, f) /\ (f # e => ValueAt(n, f) = ValueAt(m, f))
    BY <1>2 DEF NameAt, ValueAt
  <2>2. ValueAt(n, e) = m.body[vp]
    BY <1>2 DEF ValueAt
  <2> DEFINE F == Cells(m, c)
             G == Cells(n, c)
  <2>3. /\ DOMAIN F = E /\ DOMAIN G = E
        /\ \A f \in E : F[f] = <<NameAt(m, f), ValueAt(m, f)>>
        /\ \A f \in E : G[f] = <<NameAt(n, f), ValueAt(n, f)>>
    BY DEF Cells, E
  <2> HIDE DEF F, G
  <2>4. Renews(F, G, e, m.body[vp])
    BY <1>7, <2>1, <2>2, <2>3 DEF Renews
  <2> QED
    BY <2>4 DEF F, G
<1> QED
  <2>1. Tied(n, c, B)
    BY <1>1, <1>3, <1>5, <1>6, <1>10, <1>11, <1>12, <1>13 DEF Tied, E
  <2> QED
    BY <1>6, <1>13, <1>14, <1>15, <2>1 DEF Replaced

\* The walk along a chain is defined: there is a function that goes on from the
\* next entry, as often as there are addresses.
WalkStep(m, w, n) ==
    [va \in Addr |-> IF va = 0 \/ n = 0 THEN <<>> ELSE <<va>> \o w[n - 1][Entry(m, va).next]]

\* The walk of Chain, step by step.
LEMMA ChainWalkFact ==
    ASSUME NEW m \in Image, NEW b \in Buckets
    PROVE  \E w : /\ Chain(m, b) = w[Cardinality(Addr)][m.bucket[b]]
                  /\ \A n \in 0 .. Cardinality(Addr) : w[n] = WalkStep(m, w, n)
<1> DEFINE C == Cardinality(Addr)
           Solves(w) == w = [n \in 0 .. C |-> WalkStep(m, w, n)]
           walk == CHOOSE w : Solves(w)
           Onward(va) == Entry(m, va).next
           V == [Addr -> Seq(Addr)]
           start == [va \in Addr |-> <<>>]
           Row(r) == [va \in Addr |-> IF va = 0 THEN <<>> ELSE <<va>> \o r[Onward(va)]]
           step == [x \in (1 .. C) \X V |-> Row(x[2])]
<1>1. Chain(m, b) = walk[C][m.bucket[b]]
  BY DEF Chain, WalkStep
<1>2. C \in Nat
  BY AddrFact, FS_CardinalityType
<1> HIDE DEF C, walk
<1>3. \A va \in Addr : Onward(va) \in Addr
  <2> TAKE va \in Addr
  <2>1. m.body[va] \in Strings \union EntryWords
    BY DEF Image
  <2> QED
    BY <2>1, AddrFact DEF Entry, NoEntry, EntryWords
<1> HIDE DEF Onward
<1>4. \A r \in V : Row(r) \in V
  <2> TAKE r \in V
  <2>1. ASSUME NEW va \in Addr PROVE (IF va = 0 THEN <<>> ELSE <<va>> \o r[Onward(va)]) \in Seq(Addr)
    <3>1. r[Onward(va)] \in Seq(Addr)
      BY <1>3
    <3>2. <<va>> \o r[Onward(va)] \in Seq(Addr)
      BY <3>1, PutFirstFact
    <3>3. <<>> \in Seq(Addr)
      BY EmptySeq
    <3> QED
      BY <3>2, <3>3
  <2> QED
    BY <2>1
<1>5. start \in V
  BY EmptySeq
<1>6. \A n \in 1 .. C : \A v \in V : step[<<n, v>>] = Row(v)
  OBVIOUS
<1> HIDE DEF step, V, start, Row
<1>a. PICK w \in [0 .. C -> V] : Counts(w, C, start, step)
  <2>1. \A n \in 1 .. C : \A v \in V : step[<<n, v>>] \in V
    BY <1>4, <1>6, Zenon
  <2> QED
    BY <1>2, <1>5, <2>1, CountFact
<1>7. w[0] = start /\ \A n \in 1 .. C : w[n] = step[<<n, w[n - 1]>>]
  BY <1>a DEF Counts
<1>8. ASSUME NEW n \in 0 .. C PROVE w[n] = WalkStep(m, w, n)
  <2>1. CASE n = 0
    <3>1. \A va \in Addr : (IF va = 0 \/ n = 0 THEN <<>> ELSE <<va>> \o w[n - 1][Entry(m, va).next]) = <<>>
      BY <2>1, Zenon
    <3> QED
      BY <1>7, <2>1, <3>1, Zenon DEF WalkStep, start
  <2>2. CASE n # 0
    <3>1. n \in 1 .. C /\ n - 1 \in 0 .. C
      BY <1>2, <2>2
    <3>2. w[n - 1] \in V
      BY <1>7, <3>1
    <3>3. w[n] = Row(w[n - 1])
      BY <1>6, <1>7, <3>1, <3>2, Zenon
    <3>4. Row(w[n - 1]) = WalkStep(m, w, n)
      BY <2>2 DEF WalkStep, Onward, Row
    <3> QED
      BY <3>3, <3>4
  <2> QED
    BY <2>1, <2>2
<1>9. Solves(w)
  <2>1. w = [n \in 0 .. C |-> w[n]]
    BY <1>7
  <2> QED
    BY <1>8, <2>1, Zenon
<1>10. Solves(walk)
  <2> HIDE DEF Solves
  <2> QED
    BY <1>9, Zenon DEF walk
<1>11. \A n \in 0 .. C : walk[n] = WalkStep(m, walk, n)
  <2> DEFINE g == [n \in 0 .. C |-> WalkStep(m, walk, n)]
  <2>1. \A n \in 0 .. C : g[n] = WalkStep(m, walk, n)
    BY Zenon
  <2>2. walk = g
    BY <1>10, Zenon
  <2> HIDE DEF g
  <2> QED
    BY <2>1, <2>2
<1> HIDE DEF Solves
<1> QED
  BY <1>1, <1>11, Zenon DEF C

\* ht_lookup walks the chain that is there.
LEMMA ChainFact ==
    ASSUME NEW m \in Image, NEW c, NEW A, Tied(m, c, A), NEW b \in Buckets
    PROVE  Chain(m, b) = c[b]
<1> DEFINE s == c[b]
           L == Len(s)
           C == Cardinality(Addr)
           Suffix(j) == SubSeq(s, j + 1, L)
<1>1. PICK w : /\ Chain(m, b) = w[C][m.bucket[b]]
               /\ \A n \in 0 .. C : w[n] = WalkStep(m, w, n)
  BY ChainWalkFact
<1>2. /\ s \in Seq(Addr \ {0}) /\ L \in Nat /\ DOMAIN s = 1 .. L
      /\ \A j \in 1 .. L : s[j] \in Entries(c) /\ s[j] \in Addr \ {0}
  BY ChainsFact DEF Tied
<1>3. m.bucket[b] = After(s, 0) /\ \A j \in 1 .. L : m.body[s[j]].next = After(s, j)
  BY <1>2 DEF Tied, Linked
<1>4. C \in Nat /\ IsFiniteSet(Addr) /\ 0 \in Addr
  BY AddrFact, FS_CardinalityType
<1>5. \A i, j \in 1 .. L : s[i] = s[j] => i = j
  BY <1>2 DEF Tied, Unshared
<1>6. \A j \in 1 .. L : Entry(m, s[j]).next = After(s, j)
  <2> TAKE j \in 1 .. L
  <2>1. m.body[s[j]] \in EntryWords
    BY <1>2 DEF Tied
  <2>2. m.body[s[j]] \notin Strings
    BY <2>1, BlockFact
  <2> QED
    BY <1>3, <2>2 DEF Entry
<1> HIDE DEF s, L
<1>7. L <= C
  <2> DEFINE f == [j \in 1 .. L |-> s[j]]
  <2>1. f \in [1 .. L -> Addr] /\ \A i, j \in 1 .. L : f[i] = f[j] => i = j
    BY <1>2, <1>5
  <2> HIDE DEF f
  <2>2. f \in Injection(1 .. L, Addr)
    BY <2>1 DEF Injection, IsInjective
  <2>3. Cardinality(1 .. L) <= C
    BY <1>4, <2>2, FS_Injection DEF C
  <2>4. Cardinality(1 .. L) = IF 1 > L THEN 0 ELSE L - 1 + 1
    BY <1>2, FS_Interval
  <2> QED
    BY <1>2, <1>4, <2>3, <2>4
<1> HIDE DEF C
<1> DEFINE Done == {j \in 0 .. L : \A n \in L - j .. C : w[n][After(s, j)] = Suffix(j)}
<1>8. ASSUME NEW j \in 0 .. L, \A k \in j + 1 .. L : k \in Done PROVE j \in Done
  <2> SUFFICES ASSUME NEW n \in L - j .. C PROVE w[n][After(s, j)] = Suffix(j)
    OBVIOUS
  <2>1. n \in 0 .. C /\ j \in Nat
    BY <1>2, <1>4
  <2>2. \A va \in Addr :
           w[n][va] = IF va = 0 \/ n = 0 THEN <<>> ELSE <<va>> \o w[n - 1][Entry(m, va).next]
    BY <1>1, <2>1 DEF WalkStep
  <2>3. CASE j = L
    <3>1. After(s, j) = 0
      BY <2>3 DEF After, L
    <3>2. Suffix(j) = <<>>
      BY <1>2, <2>3, SubSeqEmpty
    <3> QED
      BY <1>4, <2>2, <3>1, <3>2
  <2>4. CASE j # L
    <3>1. j + 1 \in 1 .. L /\ j + 1 \in j + 1 .. L /\ n # 0 /\ n - 1 \in L - (j + 1) .. C
      <4>1. j + 1 <= L
        BY <1>2, <2>1, <2>4
      <4> QED
        BY <1>2, <1>4, <2>1, <4>1
    <3>2. After(s, j) = s[j + 1] /\ s[j + 1] \in Addr \ {0}
      BY <1>2, <2>4, <3>1 DEF After, L
    <3>3. w[n - 1][After(s, j + 1)] = Suffix(j + 1)
      BY <1>8, <3>1
    <3>4. w[n][s[j + 1]] = <<s[j + 1]>> \o w[n - 1][Entry(m, s[j + 1]).next]
      BY <2>2, <3>1, <3>2
    <3>5. w[n][s[j + 1]] = <<s[j + 1]>> \o Suffix(j + 1)
      BY <1>6, <3>1, <3>3, <3>4
    <3>6. L \in j + 1 .. L /\ L = Len(s)
      BY <1>2, <3>1 DEF L
    <3>7. SubSeq(s, j + 1, L) = <<s[j + 1]>> \o SubSeq(s, (j + 1) + 1, L)
      BY <1>2, <3>1, <3>6, SubSeqRecursiveFirst
    <3> QED
      BY <3>2, <3>5, <3>7
  <2> QED
    BY <2>3, <2>4
<1>9. 0 \in Done
  <2> HIDE DEF Done
  <2>1. 0 .. L \subseteq Done
    BY <1>2, <1>8, DownFact
  <2> QED
    BY <1>2, <2>1
<1>10. w[C][After(s, 0)] = SubSeq(s, 1, L)
  <2>1. C \in L - 0 .. C /\ 0 + 1 = 1
    BY <1>2, <1>4, <1>7
  <2> QED
    BY <1>9, <2>1
<1>11. SubSeq(s, 1, L) = s
  BY <1>2, SubSeqFull DEF L
<1> QED
  BY <1>1, <1>3, <1>10, <1>11 DEF s

-----------------------------------------------------------------------------
(***************************************************************************)
(* What the memory check finds.                                            *)
(***************************************************************************)
\* ht_check_memory marks the three blocks of every entry of the chains.
Distinct == {x \in Addr \X Addr : x[1] # x[2]}

\* The list s holds the three pointers of every entry of chain.
Lists(s, m, chain) ==
    \A i \in DOMAIN chain : \A p \in 1 .. 3 : \E j \in DOMAIN s : s[j] = Ptr(m, chain[i], p)

\* What is marked of one chain: three pointers an entry, all of them different.
LEMMA PointersOfFact ==
    ASSUME NEW m \in Image, NEW c, NEW A, Tied(m, c, A), A \subseteq Addr \ {0}, NEW b \in Buckets
    PROVE  /\ PointersOf(m, c[b]) \in Seq(Addr)
           /\ \A j \in DOMAIN PointersOf(m, c[b]) : \E i \in DOMAIN c[b] : \E p \in 1 .. 3 :
                  PointersOf(m, c[b])[j] = Ptr(m, c[b][i], p)
           /\ Pairwise(PointersOf(m, c[b]), Distinct)
           /\ Lists(PointersOf(m, c[b]), m, c[b])
<1> DEFINE s == c[b]
           L == Len(s)
           Q(j) == (j + 2) \div 3
           P(j) == IF j % 3 = 0 THEN 3 ELSE j % 3
           t == PointersOf(m, s)
<1>1. /\ L \in Nat /\ DOMAIN s = 1 .. L
      /\ \A i \in 1 .. L : s[i] \in Entries(c)
  BY ChainsFact DEF Tied
<1>2. \A i \in 1 .. L : Entry(m, s[i]) = m.body[s[i]]
  <2> TAKE i \in 1 .. L
  <2>1. m.body[s[i]] \in EntryWords
    BY <1>1 DEF Tied
  <2>2. m.body[s[i]] \notin Strings
    BY <2>1, BlockFact
  <2> QED
    BY <2>2 DEF Entry
<1>3. \A i, j \in 1 .. L : s[i] = s[j] => i = j
  BY <1>1 DEF Tied, Unshared
<1>4. /\ \A e \in Entries(c) : \A p \in 1 .. 3 : Ptr(m, e, p) \in Addr
      /\ \A e, f \in Entries(c) : \A p, q \in 1 .. 3 : Ptr(m, e, p) = Ptr(m, f, q) => e = f /\ p = q
  BY DEF Tied
<1> HIDE DEF s, L
<1>5. ASSUME NEW j \in 1 .. 3 * L
      PROVE  Q(j) \in 1 .. L /\ P(j) \in 1 .. 3 /\ j = 3 * (Q(j) - 1) + P(j)
  <2>1. j \in Nat /\ j <= 3 * L /\ j >= 1
    BY <1>1
  <2>2. /\ j \div 3 \in Nat /\ j % 3 \in 0 .. 2 /\ j = (j \div 3) * 3 + (j % 3)
    BY <2>1, DivModFact
  <2>3. /\ (j + 2) \div 3 \in Nat /\ (j + 2) % 3 \in 0 .. 2
        /\ j + 2 = ((j + 2) \div 3) * 3 + ((j + 2) % 3)
    BY <2>1, DivModFact
  <2>4. ASSUME NEW d \in Nat, NEW r \in 0 .. 2, j = d * 3 + r,
               NEW q \in Nat, NEW u \in 0 .. 2, j + 2 = q * 3 + u
        PROVE  q \in 1 .. L /\ j = 3 * (q - 1) + (IF r = 0 THEN 3 ELSE r)
    BY <1>1, <2>1, <2>4
  <2> QED
    BY <2>2, <2>3, <2>4
<1> HIDE DEF Q
<1>6. t = [j \in 1 .. 3 * L |-> Ptr(m, s[Q(j)], P(j))]
  <2> DEFINE F(j) == CASE j % 3 = 1 -> s[Q(j)]
                       [] j % 3 = 2 -> Entry(m, s[Q(j)]).key
                       [] OTHER     -> m.value[s[Q(j)]]
  <2>1. t = [j \in 1 .. 3 * L |-> F(j)]
    BY Zenon DEF PointersOf, Q, L
  <2>2. ASSUME NEW j \in 1 .. 3 * L PROVE F(j) = Ptr(m, s[Q(j)], P(j))
    <3>1. j % 3 \in 0 .. 2
      BY <1>1, DivModFact
    <3>2. Entry(m, s[Q(j)]) = m.body[s[Q(j)]]
      BY <1>2, <1>5
    <3> QED
      BY <3>1, <3>2 DEF Ptr
  <2> HIDE DEF F, P, t
  <2> QED
    BY <2>1, <2>2
<1> HIDE DEF t, P
<1>7. \A j \in 1 .. 3 * L : t[j] = Ptr(m, s[Q(j)], P(j)) /\ t[j] \in Addr
  BY <1>1, <1>4, <1>5, <1>6
<1>8. t \in Seq(Addr) /\ DOMAIN t = 1 .. 3 * L
  <2>1. 3 * L \in Nat
    BY <1>1
  <2>2. t \in [1 .. 3 * L -> Addr]
    BY <1>6, <1>7
  <2> QED
    BY <2>1, <2>2, SeqDef
<1>9. Pairwise(t, Distinct)
  <2> SUFFICES ASSUME NEW i \in 1 .. 3 * L, NEW j \in 1 .. 3 * L, t[i] = t[j] PROVE i = j
    BY <1>7, <1>8 DEF Pairwise, Distinct
  <2>0. /\ Q(i) \in 1 .. L /\ P(i) \in 1 .. 3 /\ Q(j) \in 1 .. L /\ P(j) \in 1 .. 3
        /\ Ptr(m, s[Q(i)], P(i)) = Ptr(m, s[Q(j)], P(j))
    BY <1>5, <1>7
  <2>1. s[Q(i)] = s[Q(j)] /\ P(i) = P(j)
    BY <1>1, <1>4, <2>0
  <2>2. Q(i) = Q(j)
    BY <1>3, <1>5, <2>1
  <2> QED
    BY <1>5, <2>1, <2>2
<1>10. \A j \in DOMAIN t : \E i \in DOMAIN s : \E p \in 1 .. 3 : t[j] = Ptr(m, s[i], p)
  BY <1>1, <1>5, <1>7, <1>8
<1>11. Lists(t, m, s)
  <2> SUFFICES ASSUME NEW i \in 1 .. L, NEW p \in 1 .. 3
               PROVE  \E j \in DOMAIN t : t[j] = Ptr(m, s[i], p)
    BY <1>1 DEF Lists
  <2> DEFINE j == 3 * (i - 1) + p
  <2>1. j \in 1 .. 3 * L
    BY <1>1
  <2> HIDE DEF j
  <2>2. Q(j) \in 1 .. L /\ P(j) \in 1 .. 3 /\ j = 3 * (Q(j) - 1) + P(j)
    BY <1>5, <2>1
  <2>3. Q(j) = i /\ P(j) = p
    BY <1>1, <2>2 DEF j
  <2> QED
    BY <1>7, <1>8, <2>1, <2>3
<1> QED
  BY <1>8, <1>9, <1>10, <1>11 DEF t, s

\* What is marked of all chains: no pointer twice, and none left out.
LEMMA PointersFact ==
    ASSUME NEW m \in Image, NEW c, NEW A, Tied(m, c, A), A \subseteq Addr \ {0}
    PROVE  /\ Pointers(m) \in Seq(Addr)
           /\ Pairwise(Pointers(m), Distinct)
           /\ \A j \in DOMAIN Pointers(m) : \E e \in Entries(c) : \E p \in 1 .. 3 :
                  Pointers(m)[j] = Ptr(m, e, p)
           /\ \A b \in Buckets : Lists(Pointers(m), m, c[b])
<1> DEFINE N == Cardinality(Buckets)
           T(n) == PointersOf(m, c[n - 1])
           Raw(w, b) == IF b = 0 THEN <<>> ELSE w[b - 1] \o PointersOf(m, Chain(m, b - 1))
           Solves(w) == w = [b \in 0 .. N |-> Raw(w, b)]
           upTo == CHOOSE w : Solves(w)
           V == Seq(Addr)
           step == [x \in (1 .. N) \X V |-> x[2] \o T(x[1])]
<1>1. Pointers(m) = upTo[N]
  BY DEF Pointers
<1>2. N \in Nat /\ (\A n \in 1 .. N : n - 1 \in Buckets) /\ Buckets \subseteq Nat
  <2>1. N \in Nat /\ Buckets = 0 .. N - 1
    BY TableAssumption, FS_CardinalityType DEF TableAssumption
  <2> HIDE DEF N
  <2> QED
    BY <2>1
<1> HIDE DEF N, upTo
<1>3. \A n \in 1 .. N : Chain(m, n - 1) = c[n - 1]
  BY <1>2, ChainFact
<1>4. \A n \in 1 .. N : /\ T(n) \in V
                        /\ \A j \in DOMAIN T(n) : \E i \in DOMAIN c[n - 1] : \E p \in 1 .. 3 :
                               T(n)[j] = Ptr(m, c[n - 1][i], p)
                        /\ Pairwise(T(n), Distinct)
                        /\ Lists(T(n), m, c[n - 1])
  <2> TAKE n \in 1 .. N
  <2> DEFINE b == n - 1
  <2>1. b \in Buckets
    BY <1>2
  <2> HIDE DEF b
  <2> QED
    BY <2>1, PointersOfFact DEF b
<1> HIDE DEF T
<1>5. \A n \in 1 .. N : \A v \in V : step[<<n, v>>] = v \o T(n)
  OBVIOUS
<1> HIDE DEF step
<1>6. \A n \in 1 .. N : \A v \in V : step[<<n, v>>] \in V
  <2> TAKE n \in 1 .. N
  <2> TAKE v \in V
  <2>1. v \o T(n) \in V
    BY <1>4, ConcatProperties, Zenon
  <2> QED
    BY <1>5, <2>1, Zenon
<1>7. <<>> \in V /\ Len(<<>>) = 0
  BY EmptySeq
<1> HIDE DEF V
<1>8. PICK w \in [0 .. N -> V] : Counts(w, N, <<>>, step)
  BY <1>2, <1>6, <1>7, CountFact
<1>9. w[0] = <<>> /\ \A n \in 1 .. N : w[n] = w[n - 1] \o T(n)
  <2>1. ASSUME NEW n \in 1 .. N PROVE w[n] = w[n - 1] \o T(n)
    <3>1. n - 1 \in 0 .. N
      BY <1>2
    <3>2. w[n - 1] \in V /\ w[n] = step[<<n, w[n - 1]>>]
      BY <1>8, <3>1 DEF Counts
    <3> QED
      BY <1>5, <3>2, Zenon
  <2> QED
    BY <1>8, <2>1 DEF Counts
<1>10. Solves(w)
  <2>1. \A b \in 0 .. N : w[b] = Raw(w, b)
    <3> TAKE b \in 0 .. N
    <3>1. CASE b = 0
      BY <1>9, <3>1
    <3>2. CASE b # 0
      <4>1. b \in 1 .. N
        BY <1>2, <3>2
      <4> QED
        BY <1>3, <1>9, <3>2, <4>1, Zenon DEF T
    <3> QED
      BY <3>1, <3>2
  <2> HIDE DEF Raw
  <2>2. w = [b \in 0 .. N |-> w[b]]
    BY <1>8
  <2> QED
    BY <2>1, <2>2, Zenon
<1>11. Solves(upTo)
  <2> HIDE DEF Solves
  <2> QED
    BY <1>10, Zenon DEF upTo
<1>12. \A b \in 0 .. N : upTo[b] = Raw(upTo, b)
  <2> DEFINE g == [b \in 0 .. N |-> Raw(upTo, b)]
  <2> HIDE DEF Raw
  <2>1. \A b \in 0 .. N : g[b] = Raw(upTo, b)
    BY Zenon
  <2>2. upTo = g
    BY <1>11, Zenon
  <2> HIDE DEF g
  <2> QED
    BY <2>1, <2>2
<1> HIDE DEF Solves
<1> DEFINE Good(b) == /\ upTo[b] \in V
                      /\ Pairwise(upTo[b], Distinct)
                      /\ \A j \in DOMAIN upTo[b] : \E b1 \in Buckets : b1 < b /\ \E i \in DOMAIN c[b1] :
                             \E p \in 1 .. 3 : upTo[b][j] = Ptr(m, c[b1][i], p)
                      /\ \A b1 \in Buckets : b1 < b => Lists(upTo[b], m, c[b1])
           Done == {b \in 0 .. N : Good(b)}
<1>13. 0 .. N \subseteq Done
  <2>1. ASSUME NEW b \in 0 .. N, \A k \in 0 .. b - 1 : k \in Done PROVE Good(b)
    <3>1. CASE b = 0
      <4> DEFINE u == upTo[b]
      <4>1. u = <<>>
        BY <1>12, <3>1
      <4>2. u \in Seq(Addr) /\ DOMAIN u = {}
        BY <1>7, <4>1 DEF V
      <4>3. \A b1 \in Buckets : ~ (b1 < b)
        BY <1>2, <3>1
      <4> HIDE DEF u
      <4> QED
        BY <4>2, <4>3 DEF u, V, Pairwise
    <3>2. CASE b # 0
      <4>1. b \in 1 .. N /\ b - 1 \in 0 .. b - 1 /\ b - 1 \in Buckets /\ b \in Int
        BY <1>2, <3>2
      <4> DEFINE s == upTo[b - 1]
                 t == T(b)
                 u == upTo[b]
      <4>2. u = s \o t
        BY <1>3, <1>12, <3>2, <4>1, Zenon DEF T
      <4>3. Good(b - 1)
        BY <2>1, <4>1, Zenon
      <4>4. /\ s \in Seq(Addr) /\ Pairwise(s, Distinct)
            /\ \A j \in DOMAIN s : \E b1 \in Buckets : b1 < b - 1 /\ \E i \in DOMAIN c[b1] :
                   \E p \in 1 .. 3 : s[j] = Ptr(m, c[b1][i], p)
            /\ \A b1 \in Buckets : b1 < b - 1 => Lists(s, m, c[b1])
        BY <4>3, Zenon DEF V
      <4>5. /\ t \in Seq(Addr) /\ Pairwise(t, Distinct)
            /\ \A j \in DOMAIN t : \E i \in DOMAIN c[b - 1] : \E p \in 1 .. 3 :
                   t[j] = Ptr(m, c[b - 1][i], p)
            /\ Lists(t, m, c[b - 1])
        BY <1>4, <4>1, Zenon DEF V
      <4> HIDE DEF s, t, u
      <4>6. \A i \in DOMAIN s : \A j \in DOMAIN t : <<s[i], t[j]>> \in Distinct /\ <<t[j], s[i]>> \in Distinct
        <5> TAKE i \in DOMAIN s
        <5> TAKE j \in DOMAIN t
        <5>1. PICK b1 \in Buckets : b1 < b - 1 /\ \E l \in DOMAIN c[b1] : \E p \in 1 .. 3 : s[i] = Ptr(m, c[b1][l], p)
          BY <4>4
        <5>2. PICK l1 \in DOMAIN c[b1] : \E p \in 1 .. 3 : s[i] = Ptr(m, c[b1][l1], p)
          BY <5>1
        <5>3. PICK l2 \in DOMAIN c[b - 1] : \E p \in 1 .. 3 : t[j] = Ptr(m, c[b - 1][l2], p)
          BY <4>5
        <5>4. c[b1][l1] \in Entries(c) /\ c[b - 1][l2] \in Entries(c)
          BY <4>1, ChainsFact DEF Tied
        <5>5. b1 # b - 1
          <6>1. b1 \in Nat
            BY <1>2
          <6> QED
            BY <4>1, <5>1, <6>1
        <5>6. c[b1][l1] # c[b - 1][l2]
          BY <4>1, <5>5 DEF Tied, Unshared
        <5>7. s[i] # t[j]
          BY <5>2, <5>3, <5>4, <5>6 DEF Tied
        <5>8. s[i] \in Addr /\ t[j] \in Addr
          BY <4>4, <4>5, ElementOfSeq
        <5> QED
          BY <5>7, <5>8 DEF Distinct
      <4>7. /\ s \o t \in Seq(Addr) /\ Pairwise(s \o t, Distinct)
            /\ \A i \in DOMAIN (s \o t) : \/ \E j \in DOMAIN s : (s \o t)[i] = s[j]
                                          \/ \E j \in DOMAIN t : (s \o t)[i] = t[j]
        BY <4>4, <4>5, <4>6, PairwiseFact
      <4>8. /\ u \in Seq(Addr) /\ Pairwise(u, Distinct)
            /\ \A i \in DOMAIN u : (\E j \in DOMAIN s : u[i] = s[j]) \/ (\E j \in DOMAIN t : u[i] = t[j])
        BY <4>2, <4>7, Zenon
      <4>9. ASSUME NEW i \in DOMAIN u
            PROVE  \E b1 \in Buckets : b1 < b /\ \E l \in DOMAIN c[b1] : \E p \in 1 .. 3 : u[i] = Ptr(m, c[b1][l], p)
        <5>1. CASE \E j \in DOMAIN s : u[i] = s[j]
          <6>1. PICK j \in DOMAIN s : u[i] = s[j]
            BY <5>1
          <6>2. PICK b1 \in Buckets : b1 < b - 1 /\ \E l \in DOMAIN c[b1] : \E p \in 1 .. 3 : s[j] = Ptr(m, c[b1][l], p)
            BY <4>4
          <6>3. b1 < b
            <7>1. b1 \in Nat
              BY <1>2
            <7> QED
              BY <4>1, <6>2, <7>1
          <6> QED
            BY <6>1, <6>2, <6>3, Zenon
        <5>2. CASE \E j \in DOMAIN t : u[i] = t[j]
          <6>1. PICK j \in DOMAIN t : u[i] = t[j]
            BY <5>2
          <6>2. b - 1 < b
            BY <4>1
          <6> QED
            BY <4>1, <4>5, <6>1, <6>2, Zenon
        <5> QED
          BY <4>8, <5>1, <5>2
      <4>10. ASSUME NEW b1 \in Buckets, b1 < b PROVE Lists(u, m, c[b1])
        <5>1. Holds(u, s) /\ Holds(u, t)
          BY <4>2, <4>4, <4>5, ConcatFact
        <5>2. CASE b1 < b - 1
          <6>1. Lists(s, m, c[b1])
            BY <4>4, <5>2
          <6> QED
            BY <5>1, <6>1 DEF Lists, Holds
        <5>3. CASE ~ (b1 < b - 1)
          <6>1. b1 \in Nat
            BY <1>2
          <6>2. b1 = b - 1
            BY <4>1, <4>10, <5>3, <6>1
          <6>3. Lists(t, m, c[b1])
            BY <4>5, <6>2, Zenon
          <6> QED
            BY <5>1, <6>3 DEF Lists, Holds
        <5> QED
          BY <5>2, <5>3
      <4> QED
        BY <4>8, <4>9, <4>10, Zenon DEF u, V
    <3> QED
      BY <3>1, <3>2
  <2>2. \A b \in 0 .. N : (\A k \in 0 .. b - 1 : k \in Done) => b \in Done
    <3> HIDE DEF Good
    <3> QED
      BY <2>1
  <2> HIDE DEF Done
  <2> QED
    BY <1>2, <2>2, UpFact
<1>14. Good(N)
  <2>1. N \in 0 .. N
    BY <1>2
  <2> HIDE DEF Good
  <2> QED
    BY <1>13, <2>1
<1>15. \A j \in DOMAIN upTo[N] : \E e \in Entries(c) : \E p \in 1 .. 3 : upTo[N][j] = Ptr(m, e, p)
  <2> TAKE j \in DOMAIN upTo[N]
  <2>1. PICK b1 \in Buckets : \E i \in DOMAIN c[b1] : \E p \in 1 .. 3 : upTo[N][j] = Ptr(m, c[b1][i], p)
    BY <1>14, Zenon
  <2>2. PICK i \in DOMAIN c[b1] : \E p \in 1 .. 3 : upTo[N][j] = Ptr(m, c[b1][i], p)
    BY <2>1
  <2>3. c[b1][i] \in Entries(c)
    BY ChainsFact DEF Tied
  <2> QED
    BY <2>2, <2>3
<1>16. \A b \in Buckets : Lists(upTo[N], m, c[b])
  <2>1. \A b \in Buckets : b < N
    BY <1>2, TableAssumption, FS_CardinalityType DEF TableAssumption, N
  <2> QED
    BY <1>14, <2>1, Zenon
<1> QED
  BY <1>1, <1>14, <1>15, <1>16, Zenon DEF V

\* The bitmap of lmc_um counts every word once if no two of the chunks and blocks
\* that are marked have a word in common.
ApartPairs == {x \in Chunk \X Chunk : Apart(x[1], x[2])}

\* As many words are marked as the chunks and blocks have.
LEMMA MarkedFact ==
    ASSUME NEW s \in Seq(Chunk), Pairwise(s, ApartPairs), \A i \in DOMAIN s : End(s[i]) <= Total
    PROVE  Cardinality(UNION {Words(s[i]) : i \in DOMAIN s})
               = Cardinality(UNION {{i} \X Words(s[i]) : i \in DOMAIN s})
<1> DEFINE S == UNION {Words(s[i]) : i \in DOMAIN s}
           T == UNION {{i} \X Words(s[i]) : i \in DOMAIN s}
           Of(w) == CHOOSE i \in DOMAIN s : w \in Words(s[i])
           f == [w \in S |-> <<Of(w), w>>]
<1>1. Total \in Nat /\ \A i \in DOMAIN s : /\ s[i].va \in Nat /\ End(s[i]) \in Nat
                                           /\ End(s[i]) <= Total
  BY ListFact, DescFact
<1>2. ASSUME NEW i \in DOMAIN s, NEW j \in DOMAIN s, NEW w \in Words(s[i]), w \in Words(s[j])
      PROVE  i = j
  <2> SUFFICES ASSUME i # j PROVE FALSE
    OBVIOUS
  <2>1. Apart(s[i], s[j])
    BY DEF Pairwise, ApartPairs
  <2> QED
    BY <1>1, <1>2, <2>1 DEF Apart, Words
<1>3. IsFiniteSet(S)
  <2>1. S \in SUBSET Nat /\ \A w \in S : w <= Total
    BY <1>1 DEF Words
  <2> QED
    BY <1>1, <2>1, FS_BoundedSetOfNaturals
<1>4. \A w \in S : Of(w) \in DOMAIN s /\ w \in Words(s[Of(w)])
  <2> TAKE w \in S
  <2>1. \E i \in DOMAIN s : w \in Words(s[i])
    OBVIOUS
  <2> QED
    BY <2>1, Zenon
<1>5. \A i \in DOMAIN s : \A w \in Words(s[i]) : w \in S /\ Of(w) = i
  <2> TAKE i \in DOMAIN s
  <2> TAKE w \in Words(s[i])
  <2>1. w \in S
    OBVIOUS
  <2> HIDE DEF Of, S
  <2> QED
    BY <1>2, <1>4, <2>1
<1> HIDE DEF Of, S
<1>6. T = {<<Of(w), w>> : w \in S}
  <2>1. ASSUME NEW x \in T PROVE x \in {<<Of(w), w>> : w \in S}
    <3>1. PICK i \in DOMAIN s : x \in {i} \X Words(s[i])
      OBVIOUS
    <3>2. PICK w \in Words(s[i]) : x = <<i, w>>
      BY <3>1
    <3> QED
      BY <1>5, <3>2
  <2>2. ASSUME NEW w \in S PROVE <<Of(w), w>> \in T
    <3>1. Of(w) \in DOMAIN s /\ w \in Words(s[Of(w)])
      BY <1>4
    <3>2. <<Of(w), w>> \in {Of(w)} \X Words(s[Of(w)])
      BY <3>1
    <3> QED
      BY <3>1, <3>2
  <2> QED
    BY <2>1, <2>2
<1> HIDE DEF T
<1>7. f \in Bijection(S, T)
  <2>1. f \in [S -> T]
    BY <1>6
  <2>2. \A a, b \in S : f[a] = f[b] => a = b
    OBVIOUS
  <2>3. \A t \in T : \E w \in S : f[w] = t
    BY <1>6
  <2> HIDE DEF f
  <2> QED
    BY <2>1, <2>2, <2>3 DEF Bijection, Injection, Surjection, IsInjective
<1>8. Cardinality(T) = Cardinality(S)
  <2>1. ExistsBijection(S, T)
    BY <1>7 DEF ExistsBijection
  <2> QED
    BY <1>3, <2>1, FS_Bijection
<1> QED
  BY <1>8 DEF S, T

\* ht_check_memory is content with the table and its blocks.
LEMMA ConsistentFact ==
    ASSUME NEW m, NEW U, Stored(m, U), NEW c, Tied(m, c, Starts(U))
    PROVE  Consistent(m)
<1> DEFINE P == Pointers(m)
           A == Starts(U)
           own == <<Block(m, m.hash)>>
           B == [j \in DOMAIN P |-> Block(m, P[j])]
           front == <<Descriptor>> \o m.free
           all == front \o (own \o B)
<1>1. /\ m \in Image /\ Pool(m.free, U) /\ \A u \in U : IsBlock(u) /\ m.header[u.va] = u.size
      /\ A \subseteq Addr \ {0}
  BY DEF Stored, Starts, IsBlock
<1>2. /\ P \in Seq(Addr) /\ Pairwise(P, Distinct)
      /\ \A j \in DOMAIN P : \E e \in Entries(c) : \E p \in 1 .. 3 : P[j] = Ptr(m, e, p)
  <2> HIDE DEF A
  <2> QED
    BY <1>1, PointersFact DEF A
<1> HIDE DEF P
<1>3. \A j \in DOMAIN P : P[j] \in A /\ P[j] # m.hash
  BY <1>2 DEF Tied
<1>4. \A a \in A : Block(m, a) \in U /\ Block(m, a).va = a
  <2> TAKE a \in A
  <2>1. PICK u \in U : u.va = a
    BY DEF Starts
  <2>2. u = [va |-> a, size |-> u.size]
    BY <1>1, <2>1, ChunkFact DEF IsBlock
  <2> QED
    BY <1>1, <2>1, <2>2 DEF Block
<1> HIDE DEF A
<1>5. /\ U \subseteq Chunk /\ m.free \in Seq(Chunk)
      /\ \A u \in U : Linkable(u)
      /\ \A u, v \in U : u # v => Apart(u, v)
      /\ \A k \in DOMAIN m.free : /\ m.free[k] \in Chunk /\ Linkable(m.free[k])
                                  /\ \A u \in U : Apart(m.free[k], u)
      /\ \A j, k \in DOMAIN m.free : j # k => Apart(m.free[j], m.free[k])
  BY <1>1, ListFact DEF Pool, AllLinkable, AllApart
<1>6. Len(P) \in Nat /\ DOMAIN P = 1 .. Len(P)
  BY <1>2, LenProperties
\* The blocks the pointers point to, and the table's own.
<1>7. /\ B \in Seq(U) /\ DOMAIN B = DOMAIN P
      /\ \A i, j \in DOMAIN B : i # j => B[i] # B[j]
      /\ \A j \in DOMAIN B : B[j] # Block(m, m.hash)
  <2>1. \A j \in DOMAIN P : B[j] \in U /\ B[j].va = P[j]
    BY <1>3, <1>4
  <2>2. DOMAIN B = DOMAIN P
    OBVIOUS
  <2>3. B = [j \in 1 .. Len(P) |-> B[j]]
    BY <1>6
  <2> HIDE DEF B
  <2>4. B \in Seq(U)
    BY <1>6, <2>1, <2>3
  <2>5. \A i, j \in DOMAIN P : i # j => P[i] # P[j]
    BY <1>2 DEF Pairwise, Distinct
  <2>6. Block(m, m.hash).va = m.hash
    BY DEF Block
  <2> QED
    BY <1>3, <2>1, <2>2, <2>4, <2>5, <2>6
<1>8. own \in Seq(U) /\ DOMAIN own = {1} /\ own[1] = Block(m, m.hash) /\ Block(m, m.hash) \in U
  <2>1. m.hash \in A
    BY DEF Tied, A
  <2> QED
    BY <1>4, <2>1
<1> HIDE DEF B, own
<1> DEFINE Q == own \o B
<1>9. /\ Q \in Seq(Chunk) /\ Pairwise(Q, ApartPairs)
      /\ \A i \in DOMAIN Q : Q[i] \in U
  <2>1. own \in Seq(Chunk) /\ B \in Seq(Chunk)
    BY <1>5, <1>7, <1>8, SeqMonotonic
  <2>2. \A j \in DOMAIN B : B[j] \in U
    BY <1>7, ElementOfSeq
  <2>3. Pairwise(own, ApartPairs)
    BY <1>8 DEF Pairwise
  <2>4. Pairwise(B, ApartPairs)
    BY <1>5, <1>7, <2>2 DEF Pairwise, ApartPairs
  <2>5. \A i \in DOMAIN own : \A j \in DOMAIN B :
           <<own[i], B[j]>> \in ApartPairs /\ <<B[j], own[i]>> \in ApartPairs
    BY <1>5, <1>7, <1>8, <2>2 DEF ApartPairs
  <2>6. /\ Q \in Seq(Chunk) /\ Pairwise(Q, ApartPairs)
        /\ \A i \in DOMAIN Q : (\E j \in DOMAIN own : Q[i] = own[j]) \/ (\E j \in DOMAIN B : Q[i] = B[j])
    BY <2>1, <2>3, <2>4, <2>5, PairwiseFact
  <2> HIDE DEF Q
  <2> QED
    BY <1>8, <2>2, <2>6
<1> HIDE DEF Q
\* The descriptor and the free list.
<1>10. /\ Descriptor \in Chunk /\ Descriptor.va = 0 /\ End(Descriptor) = MdSize
       /\ MdSize \in Nat /\ Total \in Nat /\ MdSize < Total
  BY BlockFact DEF Descriptor, Chunk, End
<1>11. \A d \in Chunk : Linkable(d) => Apart(Descriptor, d) /\ Apart(d, Descriptor)
  BY <1>10 DEF Linkable, Apart
<1>12. /\ front \in Seq(Chunk) /\ Pairwise(front, ApartPairs)
       /\ \A i \in DOMAIN front : front[i] = Descriptor \/ \E k \in DOMAIN m.free : front[i] = m.free[k]
  <2> DEFINE d == <<Descriptor>>
             f == m.free
  <2>1. d \in Seq(Chunk) /\ DOMAIN d = {1} /\ d[1] = Descriptor
    BY <1>10
  <2> HIDE DEF d
  <2>2. Pairwise(d, ApartPairs)
    BY <2>1 DEF Pairwise
  <2>3. Pairwise(f, ApartPairs)
    BY <1>5 DEF Pairwise, ApartPairs
  <2>4. \A i \in DOMAIN d : \A j \in DOMAIN f :
           <<d[i], f[j]>> \in ApartPairs /\ <<f[j], d[i]>> \in ApartPairs
    BY <1>5, <1>10, <1>11, <2>1 DEF ApartPairs
  <2>5. f \in Seq(Chunk)
    BY <1>5
  <2> HIDE DEF f
  <2>6. /\ d \o f \in Seq(Chunk) /\ Pairwise(d \o f, ApartPairs)
        /\ \A i \in DOMAIN (d \o f) : \/ \E j \in DOMAIN d : (d \o f)[i] = d[j]
                                      \/ \E j \in DOMAIN f : (d \o f)[i] = f[j]
    BY <2>1, <2>2, <2>3, <2>4, <2>5, PairwiseFact
  <2>7. front = d \o f
    BY DEF d, f
  <2> HIDE DEF front
  <2> QED
    BY <2>1, <2>6, <2>7, Zenon DEF f
<1> HIDE DEF front
<1>13. /\ all \in Seq(Chunk) /\ Pairwise(all, ApartPairs)
       /\ \A i \in DOMAIN all : all[i] = Descriptor \/ Linkable(all[i])
  <2>1. \A i \in DOMAIN front : \A j \in DOMAIN Q :
           <<front[i], Q[j]>> \in ApartPairs /\ <<Q[j], front[i]>> \in ApartPairs
    <3> TAKE i \in DOMAIN front
    <3> TAKE j \in DOMAIN Q
    <3>1. Q[j] \in U /\ Q[j] \in Chunk /\ Linkable(Q[j])
      BY <1>5, <1>9
    <3>2. CASE front[i] = Descriptor
      BY <1>10, <1>11, <3>1, <3>2 DEF ApartPairs
    <3>3. CASE \E k \in DOMAIN m.free : front[i] = m.free[k]
      BY <1>5, <3>1, <3>3 DEF ApartPairs, Apart
    <3> QED
      BY <1>12, <3>2, <3>3
  <2> DEFINE a == front \o Q
  <2>2. /\ a \in Seq(Chunk) /\ Pairwise(a, ApartPairs)
        /\ \A i \in DOMAIN a : (\E j \in DOMAIN front : a[i] = front[j]) \/ (\E j \in DOMAIN Q : a[i] = Q[j])
    BY <1>9, <1>12, <2>1, PairwiseFact
  <2>3. all = a
    BY DEF Q
  <2> HIDE DEF a, all
  <2> QED
    BY <1>5, <1>9, <1>12, <2>2, <2>3
<1>14. \A i \in DOMAIN all : Markable(all[i]) /\ End(all[i]) <= Total
  <2> HIDE DEF all
  <2> TAKE i \in DOMAIN all
  <2>1. all[i] \in Chunk
    BY <1>13, ElementOfSeq
  <2>2. CASE all[i] = Descriptor
    BY <1>10, <2>2 DEF Markable
  <2>3. CASE Linkable(all[i])
    <3>1. /\ all[i].va \in Nat /\ all[i].size \in Nat /\ End(all[i]) \in Nat
          /\ End(all[i]) = all[i].va + all[i].size
      BY <2>1, ChunkFact
    <3> QED
      BY <1>10, <2>3, <3>1 DEF Markable, lmc_is_va_valid, Linkable
  <2> QED
    BY <1>13, <2>2, <2>3
<1>15. AllMarked(m.free, Blocks(m, P))
  <2>1. all = <<Descriptor>> \o m.free \o Blocks(m, P)
    BY DEF Blocks, own, B, front
  <2> HIDE DEF all
  <2>2. Cardinality(UNION {Words(all[i]) : i \in DOMAIN all})
           = Cardinality(UNION {{i} \X Words(all[i]) : i \in DOMAIN all})
    BY <1>13, <1>14, MarkedFact
  <2> QED
    BY <1>14, <2>1, <2>2, Zenon DEF AllMarked
<1>16. ~ \E j \in DOMAIN P : P[j] = 0
  BY <1>1, <1>3 DEF A
<1> QED
  BY <1>15, <1>16 DEF Consistent, ConsistentWith, P

-----------------------------------------------------------------------------
(***************************************************************************)
(* The calls.                                                              *)
(***************************************************************************)
\* A table in the pool: no two pointers of the chains c point to the same block,
\* and all point to blocks in use.
Sound(m, c, U) == Stored(m, U) /\ Tied(m, c, Starts(U))

\* What the table points to is in use.
LEMMA UsedFact ==
    ASSUME NEW m, NEW c, NEW A, Tied(m, c, A)
    PROVE  Used(m, c) \subseteq A
BY DEF Used, Tied

\* Steps that leave the table and the blocks in use alone.
Extends(m, U, n, V) ==
    /\ Stored(n, V)
    /\ Starts(U) \subseteq Starts(V)
    /\ n.bucket = m.bucket /\ n.value = m.value /\ n.hash = m.hash /\ n.size = m.size
    /\ SameBody(m, n, Starts(U))

\* Such steps in a row are such a step.
LEMMA ExtendsFact ==
    ASSUME NEW m, NEW U, NEW n, NEW V, NEW o, NEW W, Extends(m, U, n, V), Extends(n, V, o, W)
    PROVE  Extends(m, U, o, W)
BY DEF Extends, SameBody

\* The table is the same table after such a step.
LEMMA SoundFact ==
    ASSUME NEW m, NEW U, NEW n, NEW V, NEW c, Sound(m, c, U), Extends(m, U, n, V)
    PROVE  Sound(n, c, V) /\ View(n, c) = View(m, c) /\ Used(n, c) = Used(m, c)
<1>1. Used(m, c) \subseteq Starts(U) /\ Starts(U) \subseteq Starts(V)
  BY UsedFact DEF Sound, Extends
<1>2. SameBody(m, n, Used(m, c)) /\ Used(m, c) \subseteq Starts(V)
  BY <1>1 DEF Extends, SameBody
<1>3. /\ Tied(m, c, Starts(U)) /\ Stored(n, V) /\ n.size = m.size
      /\ n.bucket = m.bucket /\ n.value = m.value /\ n.hash = m.hash
  BY DEF Sound, Extends
<1> QED
  BY <1>2, <1>3, FrameFact DEF Sound, View

\* Stores into the log, the count and blocks that are in use are none of the
\* allocator's business.
LEMMA StoreFact ==
    ASSUME NEW m, NEW U, Stored(m, U), NEW n \in Image, n.free = m.free, n.header = m.header
    PROVE  Stored(n, U)
BY DEF Stored

\* A store into the count or the log leaves the table what it is.
LEMMA MarkFact ==
    ASSUME NEW m, NEW U, NEW c, Sound(m, c, U), NEW n \in Image,
           n.free = m.free, n.header = m.header, n.body = m.body,
           n.bucket = m.bucket, n.value = m.value, n.hash = m.hash
    PROVE  /\ Sound(n, c, U) /\ Used(n, c) = Used(m, c)
           /\ Names(n, c) = Names(m, c) /\ Cells(n, c) = Cells(m, c)
<1>1. Stored(m, U) /\ Tied(m, c, Starts(U)) /\ Used(m, c) \subseteq Starts(U)
  BY UsedFact DEF Sound
<1>2. Stored(n, U)
  BY <1>1, StoreFact
<1>3. SameBody(m, n, Used(m, c))
  BY DEF SameBody
<1> QED
  BY <1>1, <1>2, <1>3, FrameFact DEF Sound

\* A store into the log is such a step,
LEMMA LogFact ==
    ASSUME NEW m, NEW U, Stored(m, U), NEW l \in LogWords
    PROVE  Extends(m, U, [m EXCEPT !.log = l], U)
<1> DEFINE n == [m EXCEPT !.log = l]
<1>1. m \in Image
  BY DEF Stored
<1>2. /\ n \in Image /\ n.free = m.free /\ n.header = m.header /\ n.body = m.body
      /\ n.bucket = m.bucket /\ n.value = m.value /\ n.hash = m.hash /\ n.size = m.size
  BY <1>1 DEF Image
<1> HIDE DEF n
<1>3. Stored(n, U)
  BY <1>2, StoreFact
<1>4. Extends(m, U, n, U)
  BY <1>2, <1>3 DEF Extends, SameBody
<1> QED
  BY <1>4 DEF n

\* and so is lmc_ht_strdup.
LEMMA StrdupFact ==
    ASSUME NEW m, NEW U, Stored(m, U), CanAlloc(m), NEW s \in Strings
    PROVE  LET b == Allocated(m)
           IN  /\ b.va \in Addr \ {0} /\ b.va \notin Starts(U)
               /\ Extends(m, U, Strdup(m, s), U \union {b})
               /\ Starts(U \union {b}) = Starts(U) \union {b.va}
               /\ Strdup(m, s).body[b.va] = s
               /\ Strdup(m, s).log = m.log
<1> DEFINE b == Allocated(m)
           V == U \union {b}
           x == Alloc(m)
           n == Strdup(m, s)
<1>1. /\ b.va \in Addr \ {0} /\ b.va \notin Starts(U) /\ Stored(x, V)
      /\ Starts(V) = Starts(U) \union {b.va}
      /\ SameTable(m, x) /\ SameBody(m, x, Starts(U))
  BY AllocFact
<1>2. n = [x EXCEPT !.body[b.va] = s]
  BY DEF Strdup
<1> HIDE DEF n, x, b, V
<1>3. x \in Image
  BY <1>1 DEF Stored
<1>4. /\ n \in Image /\ n.free = x.free /\ n.header = x.header
      /\ n.body = [x.body EXCEPT ![b.va] = s] /\ n.value = x.value
      /\ n.bucket = x.bucket /\ n.hash = x.hash /\ n.log = x.log /\ n.size = x.size
  BY <1>1, <1>2, <1>3 DEF Image
<1>5. Stored(n, V)
  BY <1>1, <1>4, StoreFact
<1>6. x.body \in [Addr -> Strings \union EntryWords]
  BY <1>3 DEF Image
<1>7. n.body[b.va] = s /\ \A a \in Starts(U) : n.body[a] = x.body[a]
  BY <1>1, <1>4, <1>6
<1>8. Extends(m, U, n, V)
  BY <1>1, <1>4, <1>5, <1>7 DEF Extends, SameTable, SameBody
<1> QED
  BY <1>1, <1>4, <1>7, <1>8 DEF n, b, V, SameTable

\* Blocks have addresses.
LEMMA StartsFact ==
    ASSUME NEW m, NEW U, Stored(m, U)
    PROVE  Starts(U) \subseteq Addr \ {0}
BY DEF Stored, Starts, IsBlock

\* Blocks in use that the table does not point to.
Spare(m, c, U) == Starts(U) \ Used(m, c)

\* The log holds a copy of the key and one of the value, for an entry to come.
Logged(m, c, U, k, v) ==
    /\ m.log.op = TRUE
    /\ m.log.key \in Spare(m, c, U) /\ m.log.value \in Spare(m, c, U)
    /\ m.log.key # m.log.value
    /\ m.body[m.log.key] = k /\ m.body[m.log.value] = v

\* What the table looks like with an entry more.
Enters(X, names, cells, k, v, e) ==
    PutsFirst(X.names, names, BucketOf[k], k) /\ Gains(X.cells, cells, e, <<k, v>>)

\* An entry written, linked and given its value, not yet counted.
LEMMA EntryFact ==
    ASSUME NEW m, NEW U, NEW c, Sound(m, c, U), CanAlloc(m), NEW k \in Keys, NEW v,
           Logged(m, c, U, k, v), NEW e, e = Allocated(m).va,
           NEW n1, n1 = FillEntry(Alloc(m), e, k), NEW n2, n2 = Link(n1, e, k),
           NEW n, n = StoreValue(n2, e)
    PROVE  \E d, V :
               /\ Sound(n, d, V) /\ Enters(View(m, c), Names(n, d), Cells(n, d), k, v, e)
               /\ Spare(n, d, V) = Spare(m, c, U) \ {m.log.key, m.log.value}
               /\ n.size = m.size /\ n.log = m.log
               /\ n.body[m.log.key] = k /\ n.body[m.log.value] = v
               /\ Sound(n1, c, V) /\ View(n1, c) = View(m, c) /\ n1.log = m.log
               /\ n1.body[m.log.key] = k /\ n1.body[m.log.value] = v
               /\ n2 = [n EXCEPT !.value = m.value]
               /\ n.value = [m.value EXCEPT ![e] = m.log.value]
               /\ e \in Addr \ {0} /\ e \notin Entries(c) /\ n.bucket[BucketOf[k]] = e
<1> DEFINE b == Allocated(m)
           V == U \union {b}
           bk == BucketOf[k]
           x == Alloc(m)
           d == WithFirst(c, k, e)
<1>0. /\ m.log.key \in Starts(U) /\ m.log.value \in Starts(U) /\ m.log.key # m.log.value
      /\ m.log.key \notin Used(m, c) /\ m.log.value \notin Used(m, c)
      /\ m.body[m.log.key] = k /\ m.body[m.log.value] = v
  BY DEF Logged, Spare
<1>1. e = b.va
  OBVIOUS
<1>2. /\ e \in Addr \ {0} /\ e \notin Starts(U) /\ Stored(x, V)
      /\ Starts(V) = Starts(U) \union {e}
      /\ SameTable(m, x) /\ SameBody(m, x, Starts(U))
  BY AllocFact DEF Sound
<1>3. bk \in Buckets
  BY TableAssumption DEF TableAssumption, Strings
<1> HIDE DEF b, x
<1>4. Extends(m, U, x, V)
  BY <1>2 DEF Extends, SameTable
<1> HIDE DEF V
<1>5. Sound(x, c, V) /\ View(x, c) = View(m, c) /\ Used(x, c) = Used(m, c)
  BY <1>4, SoundFact
<1>a. Names(x, c) = Names(m, c) /\ Cells(x, c) = Cells(m, c)
  BY <1>5 DEF View
<1>6. x \in Image
  BY <1>2 DEF Stored
<1> DEFINE kp == x.log.key
           vp == x.log.value
<1>7. /\ kp = m.log.key /\ vp = m.log.value
      /\ kp \in Starts(V) /\ vp \in Starts(V) /\ e \in Starts(V)
      /\ e # kp /\ e # vp /\ kp # vp
      /\ x.body[kp] = k /\ x.body[vp] = v
      /\ x.value = m.value /\ x.size = m.size /\ x.log = m.log
  BY <1>0, <1>2 DEF SameTable, SameBody
<1>8. {e, kp, vp} \intersect Used(x, c) = {}
  <2>1. Used(m, c) \subseteq Starts(U)
    BY UsedFact DEF Sound
  <2> QED
    BY <1>0, <1>2, <1>5, <1>7, <2>1
<1>9. Starts(V) \subseteq Addr \ {0}
  BY <1>2, StartsFact
<1> DEFINE w == [next |-> x.bucket[bk], key |-> kp]
           body == [x.body EXCEPT ![e] = w]
           bucket == [x.bucket EXCEPT ![bk] = e]
           value == [x.value EXCEPT ![e] = vp]
<1>10. /\ x.body \in [Addr -> Strings \union EntryWords] /\ x.bucket \in [Buckets -> Addr]
       /\ x.value \in [Addr -> Addr]
  BY <1>6 DEF Image
<1>11. w \in EntryWords
  BY <1>3, <1>7, <1>9, <1>10 DEF EntryWords
<1>14. /\ body \in [Addr -> Strings \union EntryWords] /\ bucket \in [Buckets -> Addr]
       /\ value \in [Addr -> Addr]
       /\ body[kp] = k /\ body[vp] = v /\ bucket[bk] = e
       /\ \A a \in Addr : a # e => body[a] = x.body[a]
  BY <1>3, <1>7, <1>9, <1>10, <1>11
<1>15. /\ n1 \in Image /\ n1 = [x EXCEPT !.body = body]
       /\ n2 = [x EXCEPT !.body = body, !.bucket = bucket]
       /\ n = [x EXCEPT !.body = body, !.bucket = bucket, !.value = value]
  <2> HIDE DEF w, body, bucket, value
  <2>1. n1 = [x EXCEPT !.body = body]
    BY DEF FillEntry, body, w, bk, x
  <2>2. n1 \in Image /\ n1.bucket = x.bucket /\ n1.log = x.log /\ n1.value = x.value
    BY <1>6, <1>14, <2>1 DEF Image
  <2>3. n2 = [n1 EXCEPT !.bucket = bucket]
    BY <2>2 DEF Link, bucket, bk
  <2>4. n2 = [x EXCEPT !.body = body, !.bucket = bucket]
    BY <1>6, <2>1, <2>3 DEF Image
  <2>5. n2.value = x.value /\ n2.log = x.log
    BY <1>6, <2>4 DEF Image
  <2>6. n = [n2 EXCEPT !.value = value]
    BY <2>5 DEF StoreValue, value
  <2>7. n = [x EXCEPT !.body = body, !.bucket = bucket, !.value = value]
    BY <1>6, <2>4, <2>6 DEF Image
  <2> QED
    BY <2>1, <2>2, <2>4, <2>7
<1> HIDE DEF body, bucket, value
<1>16. /\ n \in Image /\ n.free = x.free /\ n.header = x.header /\ n.hash = x.hash
       /\ n.body = body /\ n.bucket = bucket /\ n.value = value
       /\ n.size = x.size /\ n.log = x.log
       /\ n2 = [n EXCEPT !.value = x.value]
  BY <1>6, <1>14, <1>15 DEF Image
<1>17. Stored(n, V)
  BY <1>2, <1>16, StoreFact
<1>18. /\ Tied(n, d, Starts(V)) /\ PutsFirst(Names(x, c), Names(n, d), bk, k)
       /\ Used(n, d) = Used(x, c) \union {e, kp, vp}
       /\ Gains(Cells(x, c), Cells(n, d), e, <<k, v>>)
  <2> HIDE DEF kp, vp, d
  <2>1. LinksIn(x, n, k, e, kp, vp)
    BY <1>16 DEF body, bucket, value, w, bk, LinksIn
  <2>2. Tied(x, c, Starts(V))
    BY <1>5 DEF Sound
  <2>3. d = WithFirst(c, k, e)
    BY DEF d
  <2> HIDE DEF bk
  <2>4. /\ Tied(n, d, Starts(V)) /\ PutsFirst(Names(x, c), Names(n, d), BucketOf[k], k)
        /\ Used(n, d) = Used(x, c) \union {e, kp, vp}
        /\ Gains(Cells(x, c), Cells(n, d), e, <<k, x.body[vp]>>)
    BY <1>6, <1>7, <1>8, <1>9, <2>1, <2>2, <2>3, LinkInFact
  <2> QED
    BY <1>7, <2>4 DEF bk
<1> HIDE DEF d
<1>19. Enters(View(m, c), Names(n, d), Cells(n, d), k, v, e)
  <2>1. View(m, c).names = Names(x, c) /\ View(m, c).cells = Cells(x, c)
    BY <1>a DEF View
  <2> QED
    BY <1>18, <2>1 DEF Enters, bk
<1>20. Spare(n, d, V) = Spare(m, c, U) \ {m.log.key, m.log.value}
  BY <1>2, <1>5, <1>7, <1>18 DEF Spare
<1>21. Sound(n1, c, V) /\ View(n1, c) = View(m, c)
  <2>1. /\ n1.free = x.free /\ n1.header = x.header /\ n1.hash = x.hash /\ n1.body = body
        /\ n1.bucket = x.bucket /\ n1.value = x.value /\ n1.size = x.size
    BY <1>6, <1>14, <1>15 DEF Image
  <2>2. Stored(n1, V)
    BY <1>2, <1>15, <2>1, StoreFact
  <2>3. Tied(x, c, Starts(V)) /\ Used(x, c) \subseteq Starts(V)
    BY <1>5, UsedFact DEF Sound
  <2>4. SameBody(x, n1, Used(x, c))
    BY <1>8, <1>9, <1>14, <2>1, <2>3 DEF SameBody
  <2> QED
    BY <1>5, <2>1, <2>2, <2>3, <2>4, FrameFact DEF Sound, View
<1>22. n1.log = m.log /\ n1.body = body
  BY <1>6, <1>7, <1>14, <1>15 DEF Image
<1>23. e \notin Entries(c)
  <2> SUFFICES ASSUME e \in Entries(c) PROVE FALSE
    OBVIOUS
  <2>1. Ptr(m, e, 1) \in Starts(U) /\ Ptr(m, e, 1) = e
    BY DEF Sound, Tied, Ptr
  <2> QED
    BY <1>2, <2>1
<1>24. n.body[m.log.key] = k /\ n.body[m.log.value] = v
  BY <1>7, <1>14, <1>16
<1>25. Sound(n, d, V)
  BY <1>17, <1>18 DEF Sound
<1>26. /\ n2 = [n EXCEPT !.value = m.value]
       /\ n.value = [m.value EXCEPT ![e] = m.log.value]
       /\ n.size = m.size /\ n.log = m.log
  BY <1>7, <1>16 DEF value
<1>27. n1.body[m.log.key] = k /\ n1.body[m.log.value] = v
  BY <1>7, <1>14, <1>22
<1>28. n.bucket[BucketOf[k]] = e
  BY <1>14, <1>16
<1> HIDE DEF V
<1> QED
  BY <1>2, <1>19, <1>20, <1>21, <1>22, <1>23, <1>24, <1>25, <1>26, <1>27, <1>28

\* What ht_set of a new key k and value v makes of a table that looks like X,
\* and has spare blocks S in use afterwards.
Inserted(X, S, call, k, v) ==
    \E d, V :
        /\ Sound(call.mem, d, V)
        /\ call.mem.log = NoLog /\ call.ok \in BOOLEAN
        /\ IF call.ok
           THEN /\ \E e : Enters(X, Names(call.mem, d), Cells(call.mem, d), k, v, e)
                /\ call.mem.size = (X.size + 1) % SizeT
                /\ Spare(call.mem, d, V) = S
           ELSE View(call.mem, d) = X

\* What a crash in it leaves.  The log, if there is something to redo, names k
\* and v;
Redoes(t, k, v) ==
    t.log.op /\ t.log.key # 0 /\ t.log.value # 0
        => t.body[t.log.key] = k /\ t.body[t.log.value] = v

\* the table is as it was,
Begun(X, t, k, v) == Redoes(t, k, v) /\ \E c, U : Sound(t, c, U) /\ View(t, c) = X

\* or has the entry, whose value may be missing while the log is open.
Made(X, t, k, v) ==
    /\ Redoes(t, k, v)
    /\ \E n, d, V, e :
           /\ Sound(n, d, V) /\ Enters(X, Names(n, d), Cells(n, d), k, v, e)
           /\ n.bucket[BucketOf[k]] = e
           /\ \/ t = n
              \/ /\ t = [n EXCEPT !.value[e] = 0]
                 /\ t.log.op /\ t.log.key # 0 /\ t.log.value # 0

Leaves(X, torn, call, k, v) == \A t \in call.torn : t \in torn \/ Begun(X, t, k, v) \/ Made(X, t, k, v)

\* The block the n-th allocation from now on gets has no word that could be taken
\* for a value's offset.
RestOf(f) == Carve(f, BlockWords).free

BlankNext(f, w) == Fits(f, BlockWords) # {} => w[Carve(f, BlockWords).block.va] = 0

Blank(m, n) ==
    CASE n = 1 -> BlankNext(m.free, m.value)
      [] n = 2 -> CanAlloc(m) => BlankNext(RestOf(m.free), m.value)
      [] n = 3 -> CanAlloc(m) /\ Fits(RestOf(m.free), BlockWords) # {}
                      => BlankNext(RestOf(RestOf(m.free)), m.value)

\* lmc_ht_strdup brings that block one allocation nearer.
LEMMA BlankFact ==
    ASSUME NEW m \in Image, CanAlloc(m), NEW s, NEW l,
           NEW o, o = [Strdup(m, s) EXCEPT !.log = l]
    PROVE  /\ Blank(m, 2) => Blank(o, 1)
           /\ Blank(m, 3) => Blank(o, 2)
<1> DEFINE f == RestOf(m.free)
           b == Carve(m.free, BlockWords).block
<1>1. o.free = f /\ o.value = m.value
  <2> DEFINE x == WithFree(m, f)
             y == [x EXCEPT !.header[b.va] = b.size]
             z == [y EXCEPT !.body[b.va] = s]
  <2>1. Strdup(m, s) = z
    BY DEF Strdup, Alloc, Reserved, Granted, Allocated, RestOf
  <2> HIDE DEF f, b
  <2>2. x.free = f /\ x.value = m.value /\ "log" \in DOMAIN x /\ "body" \in DOMAIN x
    BY DEF WithFree, Image
  <2> HIDE DEF x
  <2>3. z.free = f /\ z.value = m.value /\ "log" \in DOMAIN z
    BY <2>2
  <2> HIDE DEF z
  <2> QED
    BY <2>1, <2>3
<1> QED
  BY <1>1 DEF Blank, BlankNext, CanAlloc

\* The stores that make an entry of three blocks.
LEMMA InsertEntryFact ==
    ASSUME NEW m, NEW U, NEW c, Sound(m, c, U), CanAlloc(m), NEW k \in Keys, NEW v,
           Logged(m, c, U, k, v), NEW torn,
           NEW call, call = InsertEntry(m, Allocated(m).va, k, torn)
    PROVE  /\ Inserted(View(m, c), Spare(m, c, U) \ {m.log.key, m.log.value}, call, k, v)
           /\ Blank(m, 1) => Leaves(View(m, c), torn, call, k, v)
           /\ call.ok = TRUE
<1> DEFINE e == Allocated(m).va
           x == Alloc(m)
           n1 == FillEntry(x, e, k)
           n2 == Link(n1, e, k)
           n == StoreValue(n2, e)
           n4 == Count(n)
           n5 == [n4 EXCEPT !.log.op = FALSE]
           n6 == lmc_log_finish(n4)
           X == View(m, c)
<1>1. /\ call.mem = n6 /\ call.ok = TRUE
      /\ call.torn \subseteq torn \union {m, x, n1, n2, n, n4, n5, n6}
  BY DEF InsertEntry, InsertLink, InsertValue, InsertCount, Finish, Torn
<1>2. PICK d, V :
          /\ Sound(n, d, V) /\ Enters(X, Names(n, d), Cells(n, d), k, v, e)
          /\ Spare(n, d, V) = Spare(m, c, U) \ {m.log.key, m.log.value}
          /\ n.size = m.size /\ n.log = m.log
          /\ n.body[m.log.key] = k /\ n.body[m.log.value] = v
          /\ Sound(n1, c, V) /\ View(n1, c) = X /\ n1.log = m.log
          /\ n1.body[m.log.key] = k /\ n1.body[m.log.value] = v
          /\ n2 = [n EXCEPT !.value = m.value]
          /\ n.value = [m.value EXCEPT ![e] = m.log.value]
          /\ e \in Addr \ {0} /\ e \notin Entries(c) /\ n.bucket[BucketOf[k]] = e
  BY EntryFact
<1>3. Extends(m, U, x, U \union {Allocated(m)}) /\ x.log = m.log
  BY AllocFact DEF Sound, Extends, SameTable
<1> HIDE DEF e, x, n1, n2, n
<1>4. n \in Image /\ n.size \in 0 .. SizeT - 1 /\ n.log \in LogWords
  BY <1>2 DEF Sound, Stored, Image
<1>5. (n.size + 1) % SizeT \in 0 .. SizeT - 1 /\ NoLog \in LogWords /\ [n.log EXCEPT !.op = FALSE] \in LogWords
  <2>1. (n.size + 1) % SizeT \in 0 .. SizeT - 1
    BY <1>4 DEF SizeT
  <2>2. NoLog \in LogWords
    BY AddrFact DEF NoLog, LogWords
  <2>3. [n.log EXCEPT !.op = FALSE] \in LogWords
    BY <1>4 DEF LogWords
  <2> QED
    BY <2>1, <2>2, <2>3
<1>6. ASSUME NEW o, o \in {n4, n5, n6}
      PROVE  /\ o \in Image /\ o.free = n.free /\ o.header = n.header /\ o.body = n.body
             /\ o.bucket = n.bucket /\ o.value = n.value /\ o.hash = n.hash
             /\ o.size = (n.size + 1) % SizeT
  BY <1>4, <1>5, <1>6 DEF Image, Count, lmc_log_finish
<1>7. n4.log = n.log /\ n5.log.op = FALSE /\ n6.log.op = FALSE /\ n6.log = NoLog
  BY <1>4 DEF Image, Count, lmc_log_finish, NoLog, LogWords
<1> HIDE DEF n4, n5, n6
<1>8. ASSUME NEW o, o \in {n4, n5, n6}
      PROVE  /\ Sound(o, d, V) /\ Enters(X, Names(o, d), Cells(o, d), k, v, e)
             /\ Spare(o, d, V) = Spare(n, d, V) /\ o.size = (X.size + 1) % SizeT
             /\ o.bucket = n.bucket
  <2>1. /\ Sound(o, d, V) /\ Used(o, d) = Used(n, d)
        /\ Names(o, d) = Names(n, d) /\ Cells(o, d) = Cells(n, d)
    BY <1>2, <1>6, <1>8, MarkFact
  <2>2. X.size = m.size
    BY DEF View
  <2> HIDE DEF X
  <2> QED
    BY <1>2, <1>6, <1>8, <2>1, <2>2 DEF Spare
<1>9. Inserted(X, Spare(m, c, U) \ {m.log.key, m.log.value}, call, k, v)
  <2> HIDE DEF X
  <2>1. /\ Sound(n6, d, V) /\ Enters(X, Names(n6, d), Cells(n6, d), k, v, e)
        /\ Spare(n6, d, V) = Spare(m, c, U) \ {m.log.key, m.log.value}
        /\ n6.size = (X.size + 1) % SizeT
    BY <1>2, <1>8
  <2>2. call.mem = n6 /\ call.ok = TRUE /\ n6.log = NoLog
    BY <1>1, <1>7
  <2> QED
    BY <2>1, <2>2 DEF Inserted
<1>10. ASSUME Blank(m, 1), NEW t \in call.torn PROVE t \in torn \/ Begun(X, t, k, v) \/ Made(X, t, k, v)
  <2>0. t \in torn \/ t \in {m, x, n1, n2, n, n4, n5, n6}
    BY <1>1
  <2>1. CASE t = m
    <3>1. Redoes(m, k, v)
      BY DEF Redoes, Logged
    <3> QED
      BY <2>1, <3>1 DEF Begun
  <2>2. CASE t = x
    <3>1. Sound(x, c, U \union {Allocated(m)}) /\ View(x, c) = X
      BY <1>3, SoundFact
    <3>2. x.body[m.log.key] = k /\ x.body[m.log.value] = v
      BY <1>3 DEF Extends, SameBody, Logged, Spare
    <3>3. Redoes(x, k, v)
      BY <1>3, <3>2 DEF Redoes
    <3> QED
      BY <2>2, <3>1, <3>3 DEF Begun
  <2>3. CASE t = n1
    <3>1. Redoes(n1, k, v)
      BY <1>2 DEF Redoes
    <3> QED
      BY <1>2, <2>3, <3>1 DEF Begun
  <2>4. CASE t = n2
    <3>1. /\ m.value \in [Addr -> Addr] /\ m.value[e] = 0
          /\ m.log.key # 0 /\ m.log.value # 0
      <4>1. Starts(U) \subseteq Addr \ {0}
        BY StartsFact DEF Sound
      <4>2. m.value[e] = 0
        <5>1. BlankNext(m.free, m.value)
          BY <1>10 DEF Blank
        <5> QED
          BY <5>1 DEF BlankNext, CanAlloc, Allocated, e
      <4> QED
        BY <1>2, <4>1, <4>2 DEF Sound, Stored, Image, Logged, Spare
    <3>2. m.value = [n.value EXCEPT ![e] = 0]
      BY <1>2, <3>1
    <3>3. n2 = [n EXCEPT !.value[e] = 0]
      BY <1>2, <3>2
    <3>4. n2.log = n.log /\ n2.body = n.body
      BY <1>2, <1>4 DEF Image
    <3>5. Redoes(n2, k, v)
      BY <1>2, <3>4 DEF Redoes
    <3>6. n2.log.op /\ n2.log.key # 0 /\ n2.log.value # 0
      BY <1>2, <3>1, <3>4 DEF Logged
    <3> HIDE DEF X
    <3> QED
      BY <1>2, <2>4, <3>3, <3>5, <3>6 DEF Made
  <2>5. CASE t = n
    <3>1. Redoes(n, k, v)
      BY <1>2 DEF Redoes
    <3> HIDE DEF X
    <3> QED
      BY <1>2, <2>5, <3>1 DEF Made
  <2>6. CASE t \in {n4, n5, n6}
    <3>1. Redoes(t, k, v)
      BY <1>2, <1>6, <1>7, <2>6 DEF Redoes
    <3> HIDE DEF X
    <3> QED
      BY <1>2, <1>8, <2>6, <3>1 DEF Made
  <2> QED
    BY <2>0, <2>1, <2>2, <2>3, <2>4, <2>5, <2>6
<1> QED
  BY <1>1, <1>9, <1>10 DEF Leaves

\* An allocation that failed: blocks got before it are in nobody's hands.
LEMMA FailedFact ==
    ASSUME NEW n, NEW c, NEW U, Sound(n, c, U), NEW k, NEW v, NEW torn, NEW S
    PROVE  /\ Inserted(View(n, c), S, Failed(n, torn), k, v)
           /\ Redoes(n, k, v) => Leaves(View(n, c), torn, Failed(n, torn), k, v)
<1> DEFINE x == [n EXCEPT !.log = NoLog]
           call == Failed(n, torn)
<1>1. NoLog \in LogWords
  BY AddrFact DEF NoLog, LogWords
<1>2. Extends(n, U, x, U) /\ x.log = NoLog
  <2>1. n \in Image
    BY DEF Sound, Stored
  <2> QED
    BY <1>1, <2>1, LogFact DEF Sound, Image
<1>3. Sound(x, c, U) /\ View(x, c) = View(n, c)
  <2> HIDE DEF x
  <2> QED
    BY <1>2, SoundFact
<1>4. call.mem = x /\ call.ok = FALSE /\ call.torn \subseteq torn \union {n, x}
  BY DEF Failed, lmc_log_finish, Torn
<1> HIDE DEF x, call
<1>5. Inserted(View(n, c), S, call, k, v)
  BY <1>2, <1>3, <1>4 DEF Inserted
<1>6. Redoes(x, k, v)
  BY <1>2 DEF Redoes, NoLog
<1>7. ASSUME Redoes(n, k, v), NEW t \in call.torn PROVE t \in torn \/ Begun(View(n, c), t, k, v)
  BY <1>3, <1>4, <1>6, <1>7 DEF Begun
<1> QED
  BY <1>5, <1>7 DEF call, Leaves

\* From the third allocation on.
LEMMA InsertFreshFact ==
    ASSUME NEW m, NEW U, NEW c, Sound(m, c, U), NEW k \in Keys, NEW v,
           Logged(m, c, U, k, v), NEW torn,
           NEW call, call = InsertFresh(m, k, torn)
    PROVE  /\ Inserted(View(m, c), Spare(m, c, U) \ {m.log.key, m.log.value}, call, k, v)
           /\ Blank(m, 1) => Leaves(View(m, c), torn, call, k, v)
<1>1. CASE ~CanAlloc(m)
  <2>1. Redoes(m, k, v)
    BY DEF Redoes, Logged
  <2>2. call = Failed(m, torn)
    BY <1>1 DEF InsertFresh
  <2> QED
    BY <2>1, <2>2, FailedFact
<1>2. CASE CanAlloc(m)
  <2>1. call = InsertEntry(m, Allocated(m).va, k, torn)
    BY <1>2 DEF InsertFresh
  <2> QED
    BY <1>2, <2>1, InsertEntryFact
<1> QED
  BY <1>1, <1>2

\* From the second allocation on: the first one's block is in the log only.
LEMMA InsertKeyFact ==
    ASSUME NEW m, NEW U, NEW c, Sound(m, c, U), NEW k \in Keys, NEW v,
           m.log.op = TRUE, m.log.key = 0, m.log.value \in Spare(m, c, U),
           m.body[m.log.value] = v, NEW torn,
           NEW call, call = InsertKey(m, k, torn)
    PROVE  /\ Inserted(View(m, c), Spare(m, c, U) \ {m.log.value}, call, k, v)
           /\ Blank(m, 2) => Leaves(View(m, c), torn, call, k, v)
<1>0. Redoes(m, k, v)
  BY DEF Redoes
<1>1. CASE ~CanAlloc(m)
  <2>1. call = Failed(m, torn)
    BY <1>1 DEF InsertKey
  <2> QED
    BY <1>0, <2>1, FailedFact
<1>2. CASE CanAlloc(m)
  <2> DEFINE b == Allocated(m)
             V == U \union {b}
             n == Strdup(m, k)
             l == [n.log EXCEPT !.key = b.va]
             o == [n EXCEPT !.log = l]
             t == torn \union {m, n}
             X == View(m, c)
  <2>1. /\ b.va \in Addr \ {0} /\ b.va \notin Starts(U) /\ Extends(m, U, n, V)
        /\ Starts(V) = Starts(U) \union {b.va} /\ n.body[b.va] = k /\ n.log = m.log
    BY <1>2, StrdupFact DEF Sound, Strings
  <2>2. call = InsertFresh(o, k, t)
    BY <1>2 DEF InsertKey, LogKey
  <2>a. o = [Strdup(m, k) EXCEPT !.log = l]
    OBVIOUS
  <2> HIDE DEF b, V, n, t
  <2>3. Stored(n, V) /\ n \in Image
    BY <2>1 DEF Extends, Stored
  <2>4. l \in LogWords /\ l.key = b.va /\ l.value = m.log.value /\ l.op = TRUE
    BY <2>1, <2>3 DEF Image, LogWords
  <2> HIDE DEF l
  <2>5. Extends(n, V, o, V)
    BY <2>3, <2>4, LogFact
  <2>6. o.log = l /\ o.body = n.body /\ o.value = m.value
    BY <2>1, <2>3 DEF Image, Extends
  <2> HIDE DEF o
  <2>7. Sound(n, c, V) /\ View(n, c) = X /\ Used(n, c) = Used(m, c)
    BY <2>1, SoundFact
  <2>8. Sound(o, c, V) /\ View(o, c) = X /\ Used(o, c) = Used(n, c)
    BY <2>5, <2>7, SoundFact
  <2>9. Used(m, c) \subseteq Starts(U)
    BY UsedFact DEF Sound
  <2>10. Logged(o, c, V, k, v)
    <3>1. n.body[m.log.value] = v
      BY <2>1 DEF Extends, SameBody, Spare
    <3> QED
      BY <2>1, <2>4, <2>6, <2>7, <2>8, <2>9, <3>1 DEF Logged, Spare
  <2>11. Spare(o, c, V) \ {o.log.key, o.log.value} = Spare(m, c, U) \ {m.log.value}
    BY <2>1, <2>4, <2>6, <2>7, <2>8 DEF Spare
  <2>12. /\ Inserted(X, Spare(m, c, U) \ {m.log.value}, call, k, v)
         /\ Blank(o, 1) => Leaves(X, t, call, k, v)
    <3> HIDE DEF X
    <3>1. View(o, c) = X
      BY <2>8
    <3> QED
      BY <2>2, <2>8, <2>10, <2>11, <3>1, InsertFreshFact
  <2>13. Blank(m, 2) => Blank(o, 1)
    <3>1. m \in Image
      BY DEF Sound, Stored
    <3> QED
      BY ONLY <1>2, <2>a, <3>1, BlankFact
  <2>14. Begun(X, m, k, v) /\ Begun(X, n, k, v)
    <3>1. Redoes(n, k, v)
      BY <2>1 DEF Redoes
    <3> QED
      BY <1>0, <2>7, <3>1 DEF Begun
  <2>15. Blank(m, 2) => Leaves(X, torn, call, k, v)
    <3> HIDE DEF X
    <3>1. \A u \in {m, n} : Begun(X, u, k, v)
      BY <2>14
    <3> QED
      BY <2>12, <2>13, <3>1 DEF Leaves, t
  <2> QED
    BY <2>12, <2>15
<1> QED
  BY <1>1, <1>2

\* ht_set of a key that is not there: the entry comes first in its bucket, or
\* an allocation failed and the chains are as they were.
LEMMA InsertFact ==
    ASSUME NEW m, NEW U, NEW c, Sound(m, c, U), NEW k \in Keys, NEW v \in Values,
           NEW call, call = Insert(m, k, v)
    PROVE  /\ Inserted(View(m, c), Spare(m, c, U), call, k, v)
           /\ m.log = NoLog /\ Blank(m, 3) => Leaves(View(m, c), {}, call, k, v)
<1> DEFINE l1 == [op |-> TRUE, key |-> 0, value |-> 0]
           x == [m EXCEPT !.log = l1]
           y == [m EXCEPT !.log.op = TRUE]
           torn == {m, y}
           X == View(m, c)
<1>1. call = InsertLogged(x, k, v, torn)
  BY DEF Insert, lmc_log_op
<1>2. l1 \in LogWords /\ l1.op = TRUE /\ l1.key = 0 /\ l1.value = 0
  BY AddrFact DEF LogWords
<1>3. m \in Image
  BY DEF Sound, Stored
<1>4. m.log = NoLog => x = y
  <2> DEFINE w == [NoLog EXCEPT !.op = TRUE]
  <2>1. w \in [op : {TRUE}, key : {0}, value : {0}]
    BY DEF NoLog
  <2> HIDE DEF w
  <2>2. w = l1
    BY <2>1
  <2> USE DEF w
  <2> HIDE DEF l1
  <2> QED
    BY <2>2
<1> HIDE DEF l1, torn, y
<1>5. Extends(m, U, x, U) /\ x.log = l1 /\ x.value = m.value /\ x.free = m.free
  BY <1>2, <1>3, LogFact DEF Sound, Image
<1> HIDE DEF x
<1>6. Sound(x, c, U) /\ View(x, c) = X /\ Used(x, c) = Used(m, c)
  BY <1>5, SoundFact
<1>7. Redoes(x, k, v) /\ (m.log = NoLog => Redoes(m, k, v))
  BY <1>2, <1>5 DEF Redoes, NoLog
<1>8. m.log = NoLog => \A u \in torn : Begun(X, u, k, v)
  BY <1>4, <1>6, <1>7 DEF Begun, torn
<1>9. ASSUME Leaves(X, torn, call, k, v), m.log = NoLog PROVE Leaves(X, {}, call, k, v)
  <2> HIDE DEF X
  <2> QED
    BY <1>8, <1>9 DEF Leaves
<1>10. Blank(m, 3) => Blank(x, 3)
  BY <1>5 DEF Blank, CanAlloc
<1>11. CASE ~CanAlloc(x)
  <2>1. call = Failed(x, torn)
    BY <1>1, <1>11 DEF InsertLogged
  <2>2. Inserted(X, Spare(m, c, U), call, k, v) /\ Leaves(X, torn, call, k, v)
    <3> HIDE DEF X
    <3> QED
      BY <1>6, <1>7, <2>1, FailedFact
  <2> QED
    BY <1>9, <2>2
<1>12. CASE CanAlloc(x)
  <2> DEFINE b == Allocated(x)
             V == U \union {b}
             n == Strdup(x, v)
             l == [n.log EXCEPT !.value = b.va]
             o == [n EXCEPT !.log = l]
             t == torn \union {x, n}
  <2>1. /\ b.va \in Addr \ {0} /\ b.va \notin Starts(U) /\ Extends(x, U, n, V)
        /\ Starts(V) = Starts(U) \union {b.va} /\ n.body[b.va] = v /\ n.log = l1
    BY <1>5, <1>6, <1>12, StrdupFact DEF Sound, Strings
  <2>2. call = InsertKey(o, k, t)
    BY <1>1, <1>12 DEF InsertLogged, LogValue
  <2>a. o = [Strdup(x, v) EXCEPT !.log = l]
    OBVIOUS
  <2> HIDE DEF b, V, n, t
  <2>3. Stored(n, V) /\ n \in Image
    BY <2>1 DEF Extends, Stored
  <2>4. l \in LogWords /\ l.value = b.va /\ l.key = 0 /\ l.op = TRUE
    BY <1>2, <2>1, <2>3 DEF Image, LogWords
  <2> HIDE DEF l
  <2>5. Extends(n, V, o, V)
    BY <2>3, <2>4, LogFact
  <2>6. o.log = l /\ o.body = n.body /\ o.value = x.value
    BY <2>1, <2>3 DEF Image, Extends
  <2> HIDE DEF o
  <2>7. Sound(n, c, V) /\ View(n, c) = X /\ Used(n, c) = Used(x, c)
    BY <1>6, <2>1, SoundFact
  <2>8. Sound(o, c, V) /\ View(o, c) = X /\ Used(o, c) = Used(n, c)
    BY <2>5, <2>7, SoundFact
  <2>9. Used(x, c) \subseteq Starts(U)
    BY <1>6, UsedFact DEF Sound
  <2>10. o.log.value \in Spare(o, c, V) /\ o.body[o.log.value] = v /\ o.log.op = TRUE /\ o.log.key = 0
    BY <2>1, <2>4, <2>6, <2>7, <2>8, <2>9 DEF Spare
  <2>11. Spare(o, c, V) \ {o.log.value} = Spare(m, c, U)
    BY <1>6, <2>1, <2>4, <2>6, <2>7, <2>8, <2>9 DEF Spare
  <2>12. /\ Inserted(X, Spare(m, c, U), call, k, v)
         /\ Blank(o, 2) => Leaves(X, t, call, k, v)
    <3> HIDE DEF X
    <3> QED
      BY <2>2, <2>8, <2>10, <2>11, InsertKeyFact
  <2>13. Blank(m, 3) => Blank(o, 2)
    BY <1>6, <1>10, <1>12, <2>a, BlankFact DEF Sound, Stored
  <2>14. Blank(m, 3) => Leaves(X, torn, call, k, v)
    <3>1. Redoes(n, k, v)
      BY <1>2, <2>1 DEF Redoes
    <3>2. \A u \in {x, n} : Begun(X, u, k, v)
      BY <1>6, <1>7, <2>7, <3>1 DEF Begun
    <3> HIDE DEF X
    <3> QED
      BY <2>12, <2>13, <3>2 DEF Leaves, t
  <2> QED
    BY <1>9, <2>12, <2>14
<1> QED
  BY <1>11, <1>12

\* A call that failed and left the table and the blocks in use alone.
Refused(m, c, U, call) ==
    /\ call.ok = FALSE /\ Sound(call.mem, c, U)
    /\ Used(call.mem, c) = Used(m, c) /\ View(call.mem, c) = View(m, c)

\* A full pool refuses a new key at once.
LEMMA RefusedFact ==
    ASSUME NEW m, NEW U, NEW c, Sound(m, c, U), ~CanAlloc(m), NEW k, NEW v,
           NEW call, call = Insert(m, k, v)
    PROVE  Refused(m, c, U, call)
<1> DEFINE l1 == [op |-> TRUE, key |-> 0, value |-> 0]
           x == [m EXCEPT !.log = l1]
           y == [x EXCEPT !.log = NoLog]
<1>1. l1 \in LogWords /\ NoLog \in LogWords
  BY AddrFact DEF LogWords, NoLog
<1>2. m \in Image
  BY DEF Sound, Stored
<1>3. x.free = m.free
  BY <1>2 DEF Image
<1>4. call.mem = y /\ call.ok = FALSE
  BY <1>3 DEF Insert, lmc_log_op, InsertLogged, CanAlloc, Failed, lmc_log_finish
<1> HIDE DEF l1
<1>5. Extends(m, U, x, U)
  BY <1>1, LogFact DEF Sound
<1> HIDE DEF x
<1>6. Extends(x, U, y, U)
  BY <1>1, <1>5, LogFact DEF Extends
<1> HIDE DEF y
<1>7. Sound(x, c, U) /\ Used(x, c) = Used(m, c) /\ View(x, c) = View(m, c)
  BY <1>5, SoundFact
<1>8. Sound(y, c, U) /\ Used(y, c) = Used(x, c) /\ View(y, c) = View(x, c)
  BY <1>6, <1>7, SoundFact
<1> QED
  BY <1>4, <1>7, <1>8 DEF Refused

\* A block nobody of the table points to is freed.
LEMMA GiveBackFact ==
    ASSUME NEW m, NEW U, Stored(m, U), NEW va \in Starts(U), NEW c, NEW A, Tied(m, c, A),
           A \subseteq Starts(U) \ {va}
    PROVE  \E V : /\ Stored(lmc_free(m, va), V)
                  /\ Starts(V) = Starts(U) \ {va}
                  /\ Tied(lmc_free(m, va), c, A)
                  /\ View(lmc_free(m, va), c) = View(m, c)
                  /\ Used(lmc_free(m, va), c) = Used(m, c)
                  /\ lmc_free(m, va).log = m.log
<1> DEFINE n == lmc_free(m, va)
<1>1. PICK V : /\ Starts(V) = Starts(U) \ {va}
               /\ Stored(n, V) /\ SameTable(m, n) /\ SameBody(m, n, Starts(V))
  BY FreeFact
<1> HIDE DEF n
<1>2. Used(m, c) \subseteq A
  BY UsedFact
<1>3. SameBody(m, n, Used(m, c))
  BY <1>1, <1>2 DEF SameBody
<1>4. n.bucket = m.bucket /\ n.value = m.value /\ n.hash = m.hash /\ n.size = m.size /\ n.log = m.log
  BY <1>1 DEF SameTable
<1>5. Tied(n, c, A) /\ View(n, c) = View(m, c) /\ Used(n, c) = Used(m, c)
  BY <1>2, <1>3, <1>4, FrameFact DEF View
<1> QED
  BY <1>1, <1>4, <1>5 DEF n

\* The table m with a new block for the value v of entry e; the old one is not
\* freed yet.
Rewritten(m, c, U, e, v, o, V) ==
    /\ Stored(o, V)
    /\ m.value[e] \in Starts(V) /\ Tied(o, c, Starts(V) \ {m.value[e]})
    /\ Names(o, c) = Names(m, c) /\ Renews(Cells(m, c), Cells(o, c), e, v)
    /\ o.size = m.size /\ o.log = m.log
    /\ (Starts(V) \ {m.value[e]}) \ Used(o, c) = Spare(m, c, U)

LEMMA RewriteFact ==
    ASSUME NEW m, NEW U, NEW c, Sound(m, c, U), CanAlloc(m), NEW e \in Entries(c), NEW v \in Values
    PROVE  \E V : Rewritten(m, c, U, e, v, [Strdup(m, v) EXCEPT !.value[e] = Allocated(m).va], V)
<1> DEFINE b == Allocated(m)
           V == U \union {b}
           n == Strdup(m, v)
           o == [n EXCEPT !.value[e] = b.va]
           vp == b.va
           old == m.value[e]
           B == Starts(V) \ {old}
<1>1. /\ b.va \in Addr \ {0} /\ b.va \notin Starts(U) /\ Extends(m, U, n, V)
      /\ Starts(V) = Starts(U) \union {b.va} /\ n.body[b.va] = v /\ n.log = m.log
  BY StrdupFact DEF Sound, Strings
<1>2. o = [n EXCEPT !.value[e] = vp]
  OBVIOUS
<1>a. o = [Strdup(m, v) EXCEPT !.value[e] = Allocated(m).va]
  OBVIOUS
<1> HIDE DEF o
<1> HIDE DEF n, b, V
<1>3. Sound(n, c, V) /\ View(n, c) = View(m, c) /\ Used(n, c) = Used(m, c)
  BY <1>1, SoundFact
<1>4. n \in Image /\ Stored(n, V) /\ Tied(n, c, Starts(V)) /\ n.value = m.value /\ n.size = m.size
  BY <1>1, <1>3 DEF Sound, Stored, Extends
<1>5. Starts(V) \subseteq Addr \ {0} /\ Used(m, c) \subseteq Starts(U)
  BY <1>4, StartsFact, UsedFact DEF Sound
<1> HIDE DEF vp
<1>6. vp \in Starts(V) /\ vp \in Addr /\ vp \notin Used(n, c) /\ n.body[vp] = v
  BY <1>1, <1>3, <1>5 DEF vp
<1>7. /\ o \in Image /\ o.free = n.free /\ o.header = n.header /\ o.body = n.body
      /\ o.bucket = n.bucket /\ o.hash = n.hash /\ o.value = [n.value EXCEPT ![e] = vp]
      /\ o.size = n.size /\ o.log = n.log
  <2> DEFINE value == [n.value EXCEPT ![e] = vp]
  <2>1. value \in [Addr -> Addr] /\ o = [n EXCEPT !.value = value]
    BY <1>2, <1>4, <1>6 DEF Image
  <2> HIDE DEF value
  <2>2. /\ o \in Image /\ o.free = n.free /\ o.header = n.header /\ o.body = n.body
        /\ o.bucket = n.bucket /\ o.hash = n.hash /\ o.value = value
        /\ o.size = n.size /\ o.log = n.log
    BY <1>4, <2>1 DEF Image
  <2> QED
    BY <2>2 DEF value
<1>8. Stored(o, V)
  BY <1>4, <1>7, StoreFact
<1>9. /\ n.value[e] \in Starts(V) /\ Tied(o, c, Starts(V) \ {n.value[e]}) /\ Names(o, c) = Names(n, c)
      /\ Used(o, c) = (Used(n, c) \ {n.value[e]}) \union {vp}
      /\ Renews(Cells(n, c), Cells(o, c), e, v)
  <2>1. /\ n.value[e] \in Starts(V) /\ Tied(o, c, Starts(V) \ {n.value[e]}) /\ Names(o, c) = Names(n, c)
        /\ Used(o, c) = (Used(n, c) \ {n.value[e]}) \union {vp}
        /\ Renews(Cells(n, c), Cells(o, c), e, n.body[vp])
    <3> DEFINE A == Starts(V)
    <3>1. A \subseteq Addr \ {0} /\ Tied(n, c, A) /\ vp \in A
      BY <1>4, <1>5, <1>6
    <3> HIDE DEF A
    <3>2. Replaced(n, c, A, e, vp, o)
      BY <1>4, <1>6, <1>7, <3>1, ReplaceFact
    <3> QED
      BY <3>2 DEF Replaced, A
  <2> QED
    BY <1>6, <2>1
<1>10. Names(n, c) = Names(m, c) /\ Cells(n, c) = Cells(m, c)
  BY <1>3 DEF View
<1>11. (Starts(V) \ {old}) \ Used(o, c) = Spare(m, c, U)
  <2>1. Ptr(m, e, 3) \in Used(m, c) /\ Ptr(m, e, 3) = old
    BY DEF Used, Ptr
  <2> HIDE DEF old
  <2>2. n.value[e] = old
    BY <1>4 DEF old
  <2> QED
    BY <1>1, <1>3, <1>5, <1>9, <2>1, <2>2 DEF Spare, vp
<1>12. Rewritten(m, c, U, e, v, o, V)
  BY <1>1, <1>4, <1>7, <1>8, <1>9, <1>10, <1>11 DEF Rewritten
<1> QED
  BY <1>a, <1>12

\* What ht_set of value v makes of entry e of a table.
Updated(m, c, U, e, v, n) ==
    /\ Names(n, c) = Names(m, c) /\ Renews(Cells(m, c), Cells(n, c), e, v)
    /\ n.size = m.size /\ n.log = m.log
    /\ \E V : Sound(n, c, V) /\ Spare(n, c, V) = Spare(m, c, U)

\* ht_set of a key that is there, while the pool has room for the value.
LEMMA UpdateFact ==
    ASSUME NEW m, NEW U, NEW c, Sound(m, c, U), CanAlloc(m), NEW e \in Entries(c), NEW v \in Values
    PROVE  Update(m, e, v).ok = TRUE /\ Updated(m, c, U, e, v, Update(m, e, v).mem)
<1> DEFINE o == [Strdup(m, v) EXCEPT !.value[e] = Allocated(m).va]
           old == m.value[e]
           n == lmc_free(o, old)
<1>1. Update(m, e, v).mem = n /\ Update(m, e, v).ok = TRUE
  BY DEF Update, Overwrite
<1>2. PICK V : Rewritten(m, c, U, e, v, o, V)
  BY RewriteFact
<1> HIDE DEF o
<1> DEFINE B == Starts(V) \ {old}
<1>3. Stored(o, V) /\ old \in Starts(V) /\ Tied(o, c, B)
  BY <1>2 DEF Rewritten
<1> HIDE DEF n, old
<1>4. PICK W : /\ Stored(n, W) /\ Starts(W) = Starts(V) \ {old} /\ Tied(n, c, B)
               /\ View(n, c) = View(o, c) /\ Used(n, c) = Used(o, c) /\ n.log = o.log
  <2>1. B \subseteq Starts(V) \ {old}
    OBVIOUS
  <2> HIDE DEF B
  <2> QED
    BY <1>3, <2>1, GiveBackFact DEF n
<1>5. Names(n, c) = Names(o, c) /\ Cells(n, c) = Cells(o, c) /\ n.size = o.size
  BY <1>4 DEF View
<1>6. Sound(n, c, W) /\ Spare(n, c, W) = Spare(m, c, U)
  BY <1>2, <1>4 DEF Sound, Spare, Rewritten, old
<1>7. Updated(m, c, U, e, v, n)
  BY <1>2, <1>4, <1>5, <1>6 DEF Updated, Rewritten
<1> QED
  BY <1>1, <1>7

\* Where the keys N of the chains make ht_lookup and ht_delete stop.
KeyHits(N, k) == {i \in DOMAIN N[BucketOf[k]] : LengthOf[N[BucketOf[k]][i]] = LengthOf[k]}

KeyPosition(N, k) == IF KeyHits(N, k) = {} THEN 0 ELSE Min(KeyHits(N, k))

\* ht_lookup and ht_delete stop where the keys of the chain say.
LEMMA PositionFact ==
    ASSUME NEW m \in Image, NEW c, NEW A, Tied(m, c, A), NEW k \in Keys
    PROVE  /\ Chain(m, BucketOf[k]) = c[BucketOf[k]]
           /\ Position(m, c[BucketOf[k]], k) = KeyPosition(Names(m, c), k)
           /\ KeyPosition(Names(m, c), k) \in 0 .. Len(c[BucketOf[k]])
<1> DEFINE bk == BucketOf[k]
           s == c[bk]
           N == Names(m, c)
           h == {i \in DOMAIN s : Matches(m, s[i], k)}
<1>1. bk \in Buckets
  BY TableAssumption DEF TableAssumption, Strings
<1>2. Chain(m, bk) = s
  BY <1>1, ChainFact
<1>3. /\ Len(s) \in Nat /\ DOMAIN s = 1 .. Len(s)
      /\ \A i \in DOMAIN s : s[i] \in Entries(c)
  BY <1>1, ChainsFact DEF Tied
<1>4. /\ N[bk] \in Seq(Keys) /\ Len(N[bk]) = Len(s)
      /\ \A i \in 1 .. Len(s) : N[bk][i] = m.body[m.body[s[i]].key]
  BY <1>1, NamesFact DEF AreNames
<1>5. DOMAIN N[bk] = 1 .. Len(s)
  BY <1>3, <1>4
<1>6. \A i \in 1 .. Len(s) : m.body[m.body[s[i]].key] \in Strings
  BY <1>3 DEF Tied, Strings
<1>7. \A i \in 1 .. Len(s) : Matches(m, s[i], k) <=> LengthOf[N[bk][i]] = LengthOf[k]
  BY <1>4, <1>6 DEF Matches, Str
<1>8. h = KeyHits(N, k)
  <2>1. h = {i \in 1 .. Len(s) : Matches(m, s[i], k)}
    BY <1>3
  <2>2. KeyHits(N, k) = {i \in 1 .. Len(s) : LengthOf[N[bk][i]] = LengthOf[k]}
    BY <1>5 DEF KeyHits
  <2> HIDE DEF h, N, s
  <2> QED
    BY <1>7, <2>1, <2>2
<1>9. Position(m, s, k) = KeyPosition(N, k)
  BY <1>8 DEF Position, KeyPosition
<1>10. KeyPosition(N, k) \in 0 .. Len(s)
  <2>1. KeyHits(N, k) \subseteq 1 .. Len(s)
    BY <1>5 DEF KeyHits
  <2>2. KeyHits(N, k) \subseteq Nat
    BY <2>1
  <2> HIDE DEF N
  <2>3. KeyHits(N, k) # {} => Min(KeyHits(N, k)) \in KeyHits(N, k)
    BY <2>2, MinFact
  <2> QED
    BY <1>3, <2>1, <2>3 DEF KeyPosition
<1> QED
  BY <1>2, <1>9, <1>10

\* What ht_lookup returns.
LEMMA LookupFact ==
    ASSUME NEW m, NEW U, NEW c, Sound(m, c, U), NEW k \in Keys,
           NEW i, i = KeyPosition(Names(m, c), k)
    PROVE  IF i = 0 THEN ht_lookup(m, k) = 0
           ELSE /\ ht_lookup(m, k) = c[BucketOf[k]][i]
                /\ ht_lookup(m, k) \in Entries(c) /\ ht_lookup(m, k) # 0
                /\ m.body[ht_lookup(m, k)].key # 0
<1> DEFINE bk == BucketOf[k]
           s == c[bk]
           e == s[i]
<1>1. bk \in Buckets
  BY TableAssumption DEF TableAssumption, Strings
<1>2. m \in Image /\ Tied(m, c, Starts(U)) /\ Starts(U) \subseteq Addr \ {0}
  BY StartsFact DEF Sound, Stored
<1>3. Chain(m, bk) = s /\ Position(m, s, k) = i /\ i \in 0 .. Len(s)
  BY <1>2, PositionFact
<1>4. ht_lookup(m, k) = IF i = 0 THEN 0 ELSE e
  BY <1>3 DEF ht_lookup, LookupIn, EntryAt
<1>5. /\ Len(s) \in Nat /\ DOMAIN s = 1 .. Len(s)
      /\ \A j \in DOMAIN s : s[j] \in Entries(c) /\ s[j] \in Addr \ {0}
  BY <1>1, <1>2, ChainsFact DEF Tied
<1>6. CASE i = 0
  BY <1>4, <1>6
<1>7. CASE i # 0
  <2>1. i \in 1 .. Len(s)
    BY <1>3, <1>5, <1>7
  <2>2. e \in Entries(c) /\ e # 0
    BY <1>5, <2>1
  <2> HIDE DEF e
  <2>3. Ptr(m, e, 2) \in Starts(U)
    BY <1>2, <2>2 DEF Tied
  <2>4. m.body[e].key \in Addr \ {0}
    BY <1>2, <2>3 DEF Ptr
  <2> QED
    BY <1>4, <1>7, <2>2, <2>4 DEF e
<1> QED
  BY <1>6, <1>7

\* What ht_set makes of key k, whose entry is e or, if e is 0, a new one.
WasSet(m, c, U, call, k, v, e) ==
    IF e # 0 THEN call.ok = TRUE /\ Updated(m, c, U, e, v, call.mem)
    ELSE Inserted(View(m, c), Spare(m, c, U), call, k, v)

\* ht_set, of a new key or of one that is there.
LEMMA SetFact ==
    ASSUME NEW m, NEW U, NEW c, Sound(m, c, U), NEW k \in Keys, NEW v \in Values,
           NEW e, e = ht_lookup(m, k), e = 0 \/ CanAlloc(m)
    PROVE  WasSet(m, c, U, ht_set(m, k, v), k, v, e)
<1>1. CASE e = 0
  <2>1. ht_set(m, k, v) = Insert(m, k, v)
    BY <1>1 DEF ht_set, SetAt
  <2>2. Inserted(View(m, c), Spare(m, c, U), Insert(m, k, v), k, v)
    BY InsertFact
  <2> QED
    BY <1>1, <2>1, <2>2 DEF WasSet
<1>2. CASE e # 0
  <2> DEFINE i == KeyPosition(Names(m, c), k)
  <2>1. i # 0 /\ e \in Entries(c) /\ m.body[e].key # 0
    <3> HIDE DEF i
    <3>1. i = KeyPosition(Names(m, c), k)
      BY DEF i
    <3> QED
      BY <1>2, <3>1, LookupFact
  <2>2. ht_set(m, k, v) = Update(m, e, v)
    BY <1>2, <2>1 DEF ht_set, SetAt
  <2>3. Update(m, e, v).ok = TRUE /\ Updated(m, c, U, e, v, Update(m, e, v).mem)
    BY <1>2, <2>1, UpdateFact
  <2> QED
    BY <1>2, <2>2, <2>3 DEF WasSet
<1> QED
  BY <1>1, <1>2

\* The entry e of key k is not the first of a longer chain.
EndsChain(m, c, k) ==
    KeyPosition(Names(m, c), k) = 1 => Len(c[BucketOf[k]]) = 1

\* What ht_delete of key k makes of a table in which its entry is e.
WasDeleted(m, c, U, call, k, e) ==
    /\ call.ok = (e # 0) /\ call.mem.log = m.log
    /\ \E d, V :
           /\ Sound(call.mem, d, V)
           /\ IF e # 0
              THEN /\ Drops(Names(m, c), Names(call.mem, d), BucketOf[k], KeyPosition(Names(m, c), k))
                   /\ EndsChain(m, c, k) =>
                          /\ Loses(Cells(m, c), Cells(call.mem, d), e)
                          /\ call.mem.size = (m.size - 1) % SizeT
                          /\ Spare(call.mem, d, V) = Spare(m, c, U)
              ELSE View(call.mem, d) = View(m, c) /\ Spare(call.mem, d, V) = Spare(m, c, U)

\* The end of ht_delete.
LEMMA UncountFact ==
    ASSUME NEW m, NEW U, NEW c, Sound(m, c, U), NEW torn, NEW n, n = Uncount(m, torn).mem
    PROVE  /\ Sound(n, c, U) /\ Used(n, c) = Used(m, c)
           /\ Names(n, c) = Names(m, c) /\ Cells(n, c) = Cells(m, c)
           /\ n.size = (m.size - 1) % SizeT /\ n.log = m.log
<1> DEFINE size == (m.size - 1) % SizeT
<1>1. m \in Image /\ m.size \in 0 .. SizeT - 1
  BY DEF Sound, Stored, Image
<1>2. size \in 0 .. SizeT - 1
  BY <1>1 DEF SizeT
<1>3. n = [m EXCEPT !.size = size]
  BY <1>1 DEF Uncount, Image
<1> HIDE DEF size
<1>4. /\ n \in Image /\ n.free = m.free /\ n.header = m.header /\ n.body = m.body
      /\ n.bucket = m.bucket /\ n.value = m.value /\ n.hash = m.hash
      /\ n.size = size /\ n.log = m.log
  BY <1>1, <1>2, <1>3 DEF Image
<1> QED
  BY <1>4, MarkFact DEF size

\* ht_delete: the entry is unlinked, its three blocks are freed.
LEMMA DeleteFact ==
    ASSUME NEW m, NEW U, NEW c, Sound(m, c, U), NEW k \in Keys, NEW e, e = ht_lookup(m, k)
    PROVE  WasDeleted(m, c, U, ht_delete(m, k), k, e)
<1> DEFINE bk == BucketOf[k]
           s == c[bk]
           N == Names(m, c)
           i == KeyPosition(N, k)
           A == Starts(U)
           call == ht_delete(m, k)
<1>1. m \in Image /\ Stored(m, U) /\ Tied(m, c, A)
  BY DEF Sound, Stored
<1>2. Chain(m, bk) = s /\ Position(m, s, k) = i /\ i \in 0 .. Len(s)
  BY <1>1, PositionFact
<1>3. call = DeleteAt(m, s, i, k)
  BY <1>2 DEF ht_delete, DeleteIn
<1>a. e = IF i = 0 THEN 0 ELSE s[i]
  BY <1>2 DEF ht_lookup, LookupIn, EntryAt
<1>4. CASE i = 0
  <2>1. call.mem = m /\ call.ok = FALSE /\ e = 0
    BY <1>3, <1>4, <1>a DEF DeleteAt
  <2> HIDE DEF call
  <2>2. WasDeleted(m, c, U, call, k, e)
    BY <2>1 DEF WasDeleted
  <2> QED
    BY <2>2 DEF call
<1>5. CASE i # 0
  <2> DEFINE n == Unlink(m, s, i, k)
             kp == m.body[e].key
             vp == m.value[e]
             B == A \ {e, kp, vp}
             n1 == lmc_free(n, kp)
             n2 == lmc_free(n1, vp)
             n3 == lmc_free(n2, e)
             Ends == i = 1 => Len(s) = 1
  <2>0. Len(s) \in Nat /\ bk \in Buckets
    BY <1>1, ChainsFact, TableAssumption DEF Tied, TableAssumption, Strings
  <2>1. i \in 1 .. Len(s) /\ e = s[i]
    BY <1>2, <1>5, <1>a, <2>0
  <2> HIDE DEF i
  <2>2. /\ e \in A /\ kp \in A /\ vp \in A /\ e # kp /\ e # vp /\ kp # vp
        /\ n \in Image /\ n.free = m.free /\ n.header = m.header
        /\ n.size = m.size /\ n.log = m.log
        /\ \E d : /\ Tied(n, d, B) /\ Drops(N, Names(n, d), bk, i)
                  /\ Ends => /\ Loses(Cells(m, c), Cells(n, d), e)
                             /\ Used(n, d) = Used(m, c) \ {e, kp, vp}
    <3> HIDE DEF n
    <3>1. n = Unlink(m, c[BucketOf[k]], i, k) /\ e = c[BucketOf[k]][i]
      BY <2>1 DEF n
    <3>2. i \in 1 .. Len(c[BucketOf[k]])
      BY <2>1
    <3>3. Unlinked(m, c, A, k, i, n, e)
      BY <1>1, <3>1, <3>2, UnlinkFact
    <3> QED
      BY <3>3 DEF Unlinked
  <2>3. \E torn : call = Uncount(n3, torn)
    BY <1>3, <1>5, <2>1 DEF DeleteAt, FreeKey, FreeValue, FreeEntry
  <2>4. PICK torn : call = Uncount(n3, torn)
    BY <2>3
  <2>a. call.ok = TRUE
    BY <2>4 DEF Uncount
  <2> HIDE DEF call, n3, n2, n1, n
  <2>5. PICK d : /\ Tied(n, d, B) /\ Drops(N, Names(n, d), bk, i)
                 /\ Ends => /\ Loses(Cells(m, c), Cells(n, d), e)
                            /\ Used(n, d) = Used(m, c) \ {e, kp, vp}
    BY <2>2
  <2>6. Stored(n, U)
    BY <1>1, <2>2, StoreFact
  <2> HIDE DEF B, kp, vp, A, N, Ends
  <2>7. kp \in Starts(U) /\ B \subseteq Starts(U) \ {kp}
    BY <2>2 DEF B, A
  <2>8. PICK V1 : /\ Stored(n1, V1) /\ Starts(V1) = Starts(U) \ {kp} /\ Tied(n1, d, B)
                  /\ View(n1, d) = View(n, d) /\ Used(n1, d) = Used(n, d) /\ n1.log = n.log
    BY <2>5, <2>6, <2>7, GiveBackFact DEF n1
  <2>9. vp \in Starts(V1) /\ B \subseteq Starts(V1) \ {vp}
    BY <2>2, <2>8 DEF B, A
  <2>10. PICK V2 : /\ Stored(n2, V2) /\ Starts(V2) = Starts(V1) \ {vp} /\ Tied(n2, d, B)
                   /\ View(n2, d) = View(n1, d) /\ Used(n2, d) = Used(n1, d) /\ n2.log = n1.log
    BY <2>8, <2>9, GiveBackFact DEF n2
  <2>11. e \in Starts(V2) /\ B \subseteq Starts(V2) \ {e}
    BY <2>2, <2>8, <2>10 DEF B, A
  <2>12. PICK V3 : /\ Stored(n3, V3) /\ Starts(V3) = Starts(V2) \ {e} /\ Tied(n3, d, B)
                   /\ View(n3, d) = View(n2, d) /\ Used(n3, d) = Used(n2, d) /\ n3.log = n2.log
    BY <2>10, <2>11, GiveBackFact DEF n3
  <2>13. B = Starts(V3)
    BY <2>8, <2>10, <2>12 DEF B, A
  <2>14. Sound(n3, d, V3) /\ View(n3, d) = View(n, d) /\ Used(n3, d) = Used(n, d) /\ n3.log = m.log
    BY <2>2, <2>8, <2>10, <2>12, <2>13 DEF Sound
  <2>15. /\ Names(n3, d) = Names(n, d) /\ Cells(n3, d) = Cells(n, d) /\ n3.size = m.size
    BY <2>2, <2>14 DEF View
  <2>16. /\ Sound(call.mem, d, V3) /\ Used(call.mem, d) = Used(n, d)
         /\ Names(call.mem, d) = Names(n, d) /\ Cells(call.mem, d) = Cells(n, d)
         /\ call.mem.size = (m.size - 1) % SizeT /\ call.mem.log = m.log
    BY <2>4, <2>14, <2>15, UncountFact
  <2>17. KeyPosition(Names(m, c), k) = i /\ bk = BucketOf[k] /\ N = Names(m, c)
    BY DEF i, N
  <2>b. {e, kp, vp} \subseteq Used(m, c)
    <3>1. e \in Entries(c)
      BY <1>1, <2>0, <2>1, ChainsFact DEF Tied
    <3>2. Ptr(m, e, 1) = e /\ Ptr(m, e, 2) = kp /\ Ptr(m, e, 3) = vp
      BY DEF Ptr, kp, vp
    <3>3. 1 \in 1 .. 3 /\ 2 \in 1 .. 3 /\ 3 \in 1 .. 3
      OBVIOUS
    <3> QED
      BY <3>1, <3>2, <3>3 DEF Used
  <2>18. Ends => Spare(call.mem, d, V3) = Spare(m, c, U)
    <3> SUFFICES ASSUME Ends PROVE Spare(call.mem, d, V3) = Spare(m, c, U)
      OBVIOUS
    <3>1. Starts(V3) = Starts(U) \ {e, kp, vp}
      BY <2>13 DEF B, A
    <3>2. Used(call.mem, d) = Used(m, c) \ {e, kp, vp}
      BY <2>5, <2>16
    <3> QED
      BY <2>b, <3>1, <3>2 DEF Spare
  <2>19. EndsChain(m, c, k) = Ends
    BY <2>17 DEF EndsChain, Ends
  <2>20. e # 0
    BY <1>1, <2>2, StartsFact DEF A
  <2>21. WasDeleted(m, c, U, call, k, e)
    BY <2>5, <2>a, <2>16, <2>17, <2>18, <2>19, <2>20 DEF WasDeleted
  <2> QED
    BY <2>21 DEF call
<1> QED
  BY <1>4, <1>5

EmptyChains == [b \in Buckets |-> <<>>]

\* Nothing is in them.
LEMMA EmptyFact ==
    ASSUME NEW m
    PROVE  /\ Names(m, EmptyChains) = EmptyChains /\ Entries(EmptyChains) = {}
           /\ DOMAIN Cells(m, EmptyChains) = {}
<1>1. Entries(EmptyChains) = {}
  BY DEF Entries, EmptyChains
<1>2. \A i \in Buckets : EmptyChains[i] = <<>>
  BY DEF EmptyChains
<1>3. \A i \in Buckets :
        [j \in DOMAIN EmptyChains[i] |-> m.body[m.body[EmptyChains[i][j]].key]] = <<>>
  BY <1>2
<1>4. Names(m, EmptyChains) = EmptyChains
  BY <1>3 DEF Names, EmptyChains
<1>5. DOMAIN Cells(m, EmptyChains) = Entries(EmptyChains)
  BY DEF Cells
<1> QED
  BY <1>1, <1>4, <1>5

\* Nothing but what the table points to is in use.
Tight(m, c, U) == Sound(m, c, U) /\ Starts(U) = Used(m, c)

\* A table without entries.
Bare(m) == m.size = 0 /\ \E U : Tight(m, EmptyChains, U)

\* lmc_init_memory and ht_hash_create: one block in use, the table's, and empty
\* chains.
LEMMA CreatedFact ==
    ASSUME NEW m \in Image, NEW s \in {FirstHash, HashBlock},
           NEW n, n = ht_hash_create(lmc_init_memory(m), s)
    PROVE  Bare(n) /\ n.log = m.log
<1> DEFINE x == lmc_init_memory(m)
           b == Carve(x.free, s).block
           y == Reserved(x, s)
           V == {} \union {b}
           bucket == [i \in Buckets |-> 0]
           c == EmptyChains
<1>0. n = ht_hash_create(x, s)
  OBVIOUS
<1>1. Pool(Whole1, {}) /\ Separate(Whole1) /\ x = WithFree(m, Whole1)
  BY WholePoolFact DEF Whole1, lmc_init_memory
<1>2. x \in Image /\ x.free = Whole1 /\ x.log = m.log
  BY <1>1, ThreadFact DEF SameTable
<1> HIDE DEF x
<1>3. Stored(x, {})
  BY <1>1, <1>2 DEF Stored
<1>4. s \in Multiples /\ s > 0 /\ Fits(x.free, s) # {}
  <2>1. s \in Multiples /\ s > 0 /\ MdSize \in Nat /\ Total \in Nat /\ MdSize + s < Total
    BY SizeFact, RoomFact
  <2>2. s \in Nat
    BY <2>1, MultipleFact
  <2>3. Total - MdSize >= s
    BY <2>1, <2>2
  <2>4. 1 \in DOMAIN Whole1 /\ Whole1[1].size = Total - MdSize
    BY DEF Whole1
  <2> QED
    BY <1>2, <2>1, <2>3, <2>4 DEF Fits
<1>5. /\ b.va \in Addr \ {0} /\ Stored(y, V) /\ Starts(V) = Starts({}) \union {b.va}
      /\ y.log = x.log
  BY <1>3, <1>4, ReserveFact DEF SameTable
<1>6. Starts(V) = {b.va}
  BY <1>5 DEF Starts
<1> HIDE DEF V, y, b
<1>7. y \in Image /\ y.bucket \in [Buckets -> Addr]
  BY <1>5 DEF Stored, Image
<1>8. n = [y EXCEPT !.bucket = bucket, !.size = 0, !.hash = b.va]
  <2>1. Zeroed(y, Buckets) = [y EXCEPT !.bucket = bucket]
    BY <1>7 DEF Zeroed
  <2> HIDE DEF bucket
  <2>2. n = [[[y EXCEPT !.bucket = bucket] EXCEPT !.size = 0] EXCEPT !.hash = b.va]
    BY <1>0, <2>1 DEF ht_hash_create, Emptied, y, b
  <2> QED
    BY <1>7, <2>2 DEF Image
<1>9. bucket \in [Buckets -> Addr] /\ 0 \in 0 .. SizeT - 1
  BY AddrFact DEF SizeT
<1> HIDE DEF bucket
<1>10. /\ n \in Image /\ n.free = y.free /\ n.header = y.header
       /\ n.bucket = bucket /\ n.hash = b.va /\ n.size = 0 /\ n.log = y.log
  BY <1>5, <1>7, <1>8, <1>9 DEF Image
<1>11. Stored(n, V)
  BY <1>5, <1>10, StoreFact
<1>12. Entries(c) = {}
  BY EmptyFact
<1>13. /\ c \in [Buckets -> Seq(Addr \ {0})] /\ Unshared(c)
  BY DEF EmptyChains, Unshared
<1>14. Linked(n, c)
  <2> SUFFICES ASSUME NEW i \in Buckets PROVE n.bucket[i] = After(c[i], 0) /\ DOMAIN c[i] = {}
    BY DEF Linked
  <2>1. c[i] = <<>> /\ Len(<<>>) = 0 /\ DOMAIN <<>> = {}
    BY DEF EmptyChains
  <2>2. n.bucket[i] = 0
    BY <1>10 DEF bucket
  <2> QED
    BY <2>1, <2>2 DEF After
<1>15. Tied(n, c, Starts(V))
  BY <1>6, <1>10, <1>12, <1>13, <1>14 DEF Tied
<1>17. Starts(V) = Used(n, c)
  BY <1>6, <1>10, <1>12 DEF Used
<1> QED
  BY <1>2, <1>5, <1>10, <1>11, <1>15, <1>17 DEF Sound, Tight, Bare

\* A new file.
LEMMA NewPoolFact == Bare(EmptyPool) /\ EmptyPool.log = NoLog
<1> DEFINE zero == [free   |-> <<>>,
                    header |-> [a \in Addr |-> 0],
                    body   |-> [a \in Addr |-> Scrap],
                    value  |-> [a \in Addr |-> 0],
                    bucket |-> [b \in Buckets |-> 0],
                    hash   |-> 0,
                    size   |-> 0,
                    log    |-> NoLog]
<1>1. NoLog \in LogWords /\ 0 \in Addr
  BY AddrFact DEF NoLog, LogWords
<1>2. 0 \in 0 .. SizeT - 1 /\ Scrap \in Strings
  BY DEF SizeT, Strings
<1>3. <<>> \in Seq(Chunk)
  OBVIOUS
<1>4. zero \in Image
  BY <1>1, <1>2, <1>3 DEF Image
<1>5. EmptyPool = ht_hash_create(lmc_init_memory(zero), FirstHash) /\ zero.log = NoLog
  BY DEF EmptyPool
<1> HIDE DEF zero
<1> QED
  BY <1>4, <1>5, CreatedFact

\* local_memcache_clear.
LEMMA ClearedFact ==
    ASSUME NEW m, NEW U, NEW c, Sound(m, c, U), NEW n, n = Cleared(m).mem
    PROVE  Bare(n) /\ n.log = m.log
<1>1. m \in Image
  BY DEF Sound, Stored
<1>2. n = ht_hash_create(lmc_init_memory(m), HashBlock)
  BY DEF Cleared, Remade
<1> QED
  BY <1>1, <1>2, CreatedFact

\* What ht_check_memory is shown: the blocks in use that something points to.
LEMMA LiveFact ==
    ASSUME NEW m, NEW U, NEW c, Sound(m, c, U)
    PROVE  Live(m) \in Seq(Chunk) /\ ToSet(Live(m)) = {u \in U : u.va \in Used(m, c)}
<1> DEFINE P == Pointers(m)
           own == <<Block(m, m.hash)>>
           B == [j \in DOMAIN P |-> Block(m, P[j])]
<1>1. /\ m \in Image /\ Tied(m, c, Starts(U)) /\ Starts(U) \subseteq Addr \ {0}
      /\ U \subseteq Chunk
      /\ \A u \in U : IsBlock(u) /\ m.header[u.va] = u.size
  BY StartsFact DEF Sound, Stored, Pool
<1>2. /\ P \in Seq(Addr)
      /\ \A j \in DOMAIN P : \E e \in Entries(c) : \E p \in 1 .. 3 : P[j] = Ptr(m, e, p)
      /\ \A b \in Buckets : Lists(P, m, c[b])
  BY <1>1, PointersFact
<1>3. Live(m) = own \o B
  BY DEF Live, Blocks
<1> HIDE DEF P
<1>4. \A u \in U : Block(m, u.va) = u
  <2> TAKE u \in U
  <2>1. u = [va |-> u.va, size |-> u.size]
    BY <1>1, ChunkFact DEF IsBlock
  <2> QED
    BY <1>1, <2>1 DEF Block
<1>5. \A a \in Starts(U) : Block(m, a) \in U /\ Block(m, a).va = a
  BY <1>4 DEF Starts
<1>6. \A j \in DOMAIN P : P[j] \in Starts(U) /\ P[j] \in Used(m, c)
  BY <1>1, <1>2 DEF Tied, Used
<1>7. m.hash \in Starts(U) /\ m.hash \in Used(m, c)
  BY <1>1 DEF Tied, Used
<1>8. own \in Seq(Chunk) /\ ToSet(own) = {Block(m, m.hash)}
  <2>1. Block(m, m.hash) \in Chunk
    BY <1>1, <1>5, <1>7
  <2> QED
    BY <2>1 DEF ToSet
<1>9. B \in Seq(Chunk) /\ ToSet(B) = {Block(m, P[j]) : j \in DOMAIN P}
  <2>1. Len(P) \in Nat /\ DOMAIN P = 1 .. Len(P)
    BY <1>2, LenProperties
  <2>2. \A j \in DOMAIN P : B[j] = Block(m, P[j]) /\ B[j] \in Chunk
    BY <1>1, <1>5, <1>6
  <2>3. DOMAIN B = DOMAIN P /\ B = [j \in 1 .. Len(P) |-> B[j]]
    BY <2>1
  <2> HIDE DEF B
  <2>4. B \in Seq(Chunk)
    BY <2>1, <2>2, <2>3
  <2>5. ToSet(B) = {Block(m, P[j]) : j \in DOMAIN P}
    BY <2>2, <2>3 DEF ToSet
  <2> QED
    BY <2>4, <2>5
<1> HIDE DEF own, B
<1> DEFINE L == own \o B
<1>10. L \in Seq(Chunk) /\ ToSet(L) = ToSet(own) \union ToSet(B)
  <2> HIDE DEF L
  <2>1. Joins(L, own, B)
    BY DEF L, Joins
  <2> QED
    BY <1>8, <1>9, <2>1, ToSetFact
<1>11. ASSUME NEW u \in ToSet(L) PROVE u \in U /\ u.va \in Used(m, c)
  <2>1. u = Block(m, m.hash) \/ \E j \in DOMAIN P : u = Block(m, P[j])
    BY <1>8, <1>9, <1>10
  <2> QED
    BY <1>5, <1>6, <1>7, <2>1
<1>12. ASSUME NEW u \in U, u.va \in Used(m, c) PROVE u \in ToSet(L)
  <2>1. CASE u.va = m.hash
    BY <1>4, <1>8, <1>10, <2>1
  <2>2. CASE u.va # m.hash
    <3>1. PICK e \in Entries(c) : \E p \in 1 .. 3 : u.va = Ptr(m, e, p)
      BY <1>12, <2>2 DEF Used
    <3>2. PICK p \in 1 .. 3 : u.va = Ptr(m, e, p)
      BY <3>1
    <3>3. PICK b \in Buckets : \E i \in DOMAIN c[b] : c[b][i] = e
      BY DEF Entries
    <3>4. PICK i \in DOMAIN c[b] : c[b][i] = e
      BY <3>3
    <3>5. PICK j \in DOMAIN P : P[j] = Ptr(m, c[b][i], p)
      BY <1>2 DEF Lists
    <3>6. u = Block(m, P[j])
      BY <1>4, <3>2, <3>4, <3>5
    <3> QED
      BY <1>9, <1>10, <3>6
  <2> QED
    BY <2>1, <2>2
<1>13. ToSet(L) = {u \in U : u.va \in Used(m, c)}
  BY <1>11, <1>12
<1> QED
  BY <1>3, <1>10, <1>13 DEF L

\* When nothing else is in use, no word is lost.
LEMMA TightFact ==
    ASSUME NEW m, NEW U, NEW c, Tight(m, c, U)
    PROVE  Covered(m.free, ToSet(Live(m)))
<1>1. ToSet(Live(m)) = {u \in U : u.va \in Used(m, c)}
  BY LiveFact DEF Tight
<1>2. ToSet(Live(m)) = U
  BY <1>1 DEF Tight, Starts
<1> QED
  BY <1>2 DEF Tight, Sound, Stored, Pool

\* ht_check_memory frees the blocks nobody points to and leaves the table alone.
LEMMA CheckFact ==
    ASSUME NEW m, NEW U, NEW c, Sound(m, c, U), NEW n, n = ht_check_memory(m)
    PROVE  n.log = m.log /\ View(n, c) = View(m, c) /\ \E V : Tight(n, c, V)
<1> DEFINE V == {u \in U : u.va \in Used(m, c)}
           f == lmc_um_find_leaks(m.free, Live(m))
           x == WithFree(m, f)
<1>1. /\ m \in Image /\ Pool(m.free, U) /\ Separate(m.free) /\ Tied(m, c, Starts(U))
      /\ \A u \in U : IsBlock(u) /\ m.header[u.va] = u.size
  BY DEF Sound, Stored
<1>2. Live(m) \in Seq(Chunk) /\ ToSet(Live(m)) = V
  BY LiveFact
<1>3. V \in SUBSET U
  OBVIOUS
<1>4. Starts(V) = Used(m, c)
  <2>1. Used(m, c) \subseteq Starts(U)
    BY <1>1, UsedFact
  <2> QED
    BY <2>1 DEF Starts
<1> HIDE DEF V
<1>5. Pool(f, V) /\ Separate(f)
  BY <1>1, <1>2, <1>3, SweepFact DEF Tiles
<1> HIDE DEF f
<1>6. \A u \in V : IsBlock(u) /\ m.header[u.va] = u.size
  BY <1>1, <1>3
<1>7. /\ x \in Image /\ x.free = f
      /\ SameTable(m, x) /\ SameBody(m, x, Starts(V))
      /\ \A u \in V : x.header[u.va] = m.header[u.va]
  BY <1>1, <1>5, <1>6, ThreadFact
<1>8. n = x
  BY DEF ht_check_memory, f
<1> HIDE DEF x
<1>9. Stored(x, V)
  BY <1>5, <1>6, <1>7 DEF Stored
<1>10. /\ Tied(x, c, Starts(V)) /\ Used(x, c) = Used(m, c)
       /\ View(x, c) = View(m, c) /\ x.log = m.log
  <2>1. /\ x.bucket = m.bucket /\ x.value = m.value /\ x.hash = m.hash
        /\ x.size = m.size /\ x.log = m.log
    BY <1>7 DEF SameTable
  <2>2. SameBody(m, x, Used(m, c)) /\ Used(m, c) \subseteq Starts(V)
    BY <1>4, <1>7
  <2> QED
    BY <1>1, <2>1, <2>2, FrameFact DEF View
<1> QED
  BY <1>4, <1>8, <1>9, <1>10 DEF Tight, Sound

-----------------------------------------------------------------------------
(***************************************************************************)
(* The table while no process dies in a call.  The hypothesis is what keeps*)
(* ht_set from storing the null pointer of a failed lmc_ht_strdup into an  *)
(* entry: an overwrite finds room for its value.                           *)
(***************************************************************************)
UpdatesFindRoom ==
    \A k \in Keys :
        "set" \in Calls /\ (\E v \in Values : Set(k, v)) => ht_lookup(mem, k) = 0 \/ CanAlloc(mem)

\* Between two calls the pool is a table and blocks nobody points to.
IsTable(m) == \E c, U : Sound(m, c, U)

IsTight(m) == \E c, U : Tight(m, c, U)

TableInv ==
    /\ status = "up" /\ crashes = 0 /\ seen = Contents(mem)
    /\ IsTable(mem)
    /\ result = Checked => IsTight(mem)

\* The keys along the chains, as LmcTable sees them.
ChainKeys(m) ==
    [b \in Buckets |-> LET c == Chain(m, b) IN [i \in DOMAIN c |-> Str(m, m.body[c[i]].key)]]

\* They are the keys of the entries.
LEMMA ChainKeysFact ==
    ASSUME NEW m, NEW c, NEW U, Sound(m, c, U)
    PROVE  ChainKeys(m) = Names(m, c)
<1>1. m \in Image /\ Tied(m, c, Starts(U))
  BY DEF Sound, Stored
<1>2. ASSUME NEW b \in Buckets
      PROVE  /\ Chain(m, b) = c[b]
             /\ \A i \in DOMAIN c[b] : Str(m, m.body[c[b][i]].key) = m.body[m.body[c[b][i]].key]
  <2>1. \A i \in DOMAIN c[b] : c[b][i] \in Entries(c)
    BY <1>1, ChainsFact DEF Tied
  <2>2. \A i \in DOMAIN c[b] : m.body[m.body[c[b][i]].key] \in Strings
    BY <1>1, <2>1 DEF Tied, Strings
  <2> QED
    BY <1>1, <2>2, ChainFact DEF Str
<1>3. \A b \in Buckets :
        [i \in DOMAIN Chain(m, b) |-> Str(m, m.body[Chain(m, b)[i]].key)]
            = [i \in DOMAIN c[b] |-> m.body[m.body[c[b][i]].key]]
  BY <1>2
<1> QED
  BY <1>3 DEF ChainKeys, Names

\* A key the caller could not look up has no entry.
LEMMA AbsentFact ==
    ASSUME NEW m, NEW c, NEW U, Sound(m, c, U), NEW k \in Keys, ht_get(m, k) = NoValue
    PROVE  ht_lookup(m, k) = 0
<1> DEFINE e == ht_lookup(m, k)
           i == KeyPosition(Names(m, c), k)
<1> SUFFICES ASSUME e # 0 PROVE FALSE
  OBVIOUS
<1>1. e \in Entries(c)
  <2> HIDE DEF i
  <2>1. i = KeyPosition(Names(m, c), k)
    BY DEF i
  <2> QED
    BY <2>1, LookupFact
<1>2. Starts(U) \subseteq Addr \ {0} /\ Tied(m, c, Starts(U))
  BY StartsFact DEF Sound
<1> HIDE DEF e
<1>3. Ptr(m, e, 3) \in Starts(U)
  BY <1>1, <1>2 DEF Tied
<1>4. m.value[e] # 0
  BY <1>2, <1>3 DEF Ptr
<1>5. ht_get(m, k) = Str(m, m.value[e])
  BY <1>4 DEF ht_get, ValueOf, e
<1>6. Str(m, m.value[e]) \in Strings
  BY DEF Str, Strings
<1> QED
  BY <1>5, <1>6, TableAssumption DEF TableAssumption

\* Each of the actions, on the keys along the chains.
Inserts(N, M, k) == KeyPosition(N, k) = 0 /\ PutsFirst(N, M, BucketOf[k], k)

Deletes(N, M, k) == KeyPosition(N, k) # 0 /\ Drops(N, M, BucketOf[k], KeyPosition(N, k))

StepOn(N, M) ==
    \/ M = N
    \/ \E k \in Keys : Inserts(N, M, k) \/ Deletes(N, M, k)
    \/ M = EmptyChains

\* ht_set,
LEMMA SetStep ==
    ASSUME NEW m, IsTable(m), NEW k \in Keys, NEW v \in Values,
           ht_lookup(m, k) = 0 \/ CanAlloc(m),
           NEW n, n = ht_set(m, k, v).mem
    PROVE  IsTable(n) /\ StepOn(ChainKeys(m), ChainKeys(n))
<1> DEFINE call == ht_set(m, k, v)
           e == ht_lookup(m, k)
<1>1. PICK c, U : Sound(m, c, U)
  BY DEF IsTable
<1>2. WasSet(m, c, U, call, k, v, e)
  BY <1>1, SetFact
<1>3. e = 0 => KeyPosition(Names(m, c), k) = 0
  BY <1>1, LookupFact
<1>4. n = call.mem
  OBVIOUS
<1> HIDE DEF call, e
<1>5. \E d, V : /\ Sound(n, d, V)
               /\ \/ Names(n, d) = Names(m, c)
                  \/ e = 0 /\ PutsFirst(Names(m, c), Names(n, d), BucketOf[k], k)
  <2>1. CASE e # 0
    BY <1>2, <1>4, <2>1 DEF WasSet, Updated
  <2>2. CASE e = 0
    <3>1. Inserted(View(m, c), Spare(m, c, U), call, k, v)
      BY <1>2, <2>2 DEF WasSet
    <3> QED
      BY <1>4, <2>2, <3>1 DEF Inserted, Enters, View
  <2> QED
    BY <2>1, <2>2
<1>6. PICK d, V : /\ Sound(n, d, V)
                  /\ \/ Names(n, d) = Names(m, c)
                     \/ e = 0 /\ PutsFirst(Names(m, c), Names(n, d), BucketOf[k], k)
  BY <1>5
<1>7. ChainKeys(m) = Names(m, c) /\ ChainKeys(n) = Names(n, d)
  BY <1>1, <1>6, ChainKeysFact
<1> QED
  BY <1>3, <1>6, <1>7 DEF IsTable, StepOn, Inserts

\* ht_delete,
LEMMA DeleteStep ==
    ASSUME NEW m, IsTable(m), NEW k \in Keys,
           NEW n, n = ht_delete(m, k).mem
    PROVE  IsTable(n) /\ StepOn(ChainKeys(m), ChainKeys(n))
<1> DEFINE call == ht_delete(m, k)
           e == ht_lookup(m, k)
<1>1. PICK c, U : Sound(m, c, U)
  BY DEF IsTable
<1>2. WasDeleted(m, c, U, call, k, e)
  BY <1>1, DeleteFact
<1>3. e # 0 => KeyPosition(Names(m, c), k) # 0
  BY <1>1, LookupFact
<1>4. n = call.mem
  OBVIOUS
<1> HIDE DEF call, e
<1>5. \E d, V : /\ Sound(n, d, V)
               /\ \/ Names(n, d) = Names(m, c)
                  \/ Deletes(Names(m, c), Names(n, d), k)
  <2>1. CASE e # 0
    BY <1>2, <1>3, <1>4, <2>1 DEF WasDeleted, Deletes
  <2>2. CASE e = 0
    BY <1>2, <1>4, <2>2 DEF WasDeleted, View
  <2> QED
    BY <2>1, <2>2
<1>6. PICK d, V : /\ Sound(n, d, V)
                  /\ \/ Names(n, d) = Names(m, c)
                     \/ Deletes(Names(m, c), Names(n, d), k)
  BY <1>5
<1>7. ChainKeys(m) = Names(m, c) /\ ChainKeys(n) = Names(n, d)
  BY <1>1, <1>6, ChainKeysFact
<1> QED
  BY <1>6, <1>7 DEF IsTable, StepOn

\* A table without entries.
LEMMA BareFact ==
    ASSUME NEW m, Bare(m)
    PROVE  IsTable(m) /\ IsTight(m) /\ ChainKeys(m) = EmptyChains
<1>1. PICK U : Tight(m, EmptyChains, U)
  BY DEF Bare
<1>2. Sound(m, EmptyChains, U)
  BY <1>1 DEF Tight
<1>3. ChainKeys(m) = EmptyChains
  BY <1>2, ChainKeysFact, EmptyFact
<1> QED
  BY <1>1, <1>2, <1>3 DEF IsTable, IsTight

\* local_memcache_clear
LEMMA ClearStep ==
    ASSUME NEW m, IsTable(m), NEW n, n = Cleared(m).mem
    PROVE  IsTable(n) /\ IsTight(n) /\ StepOn(ChainKeys(m), ChainKeys(n))
<1>1. Bare(n)
  BY ClearedFact DEF IsTable
<1> QED
  BY <1>1, BareFact DEF StepOn

\* and ht_check_memory.
LEMMA CheckStep ==
    ASSUME NEW m, IsTable(m), NEW n, n = ht_check_memory(m)
    PROVE  IsTable(n) /\ IsTight(n) /\ ChainKeys(n) = ChainKeys(m)
<1>1. PICK c, U : Sound(m, c, U)
  BY DEF IsTable
<1>2. PICK V : Tight(n, c, V)
  BY <1>1, CheckFact
<1>3. Names(n, c) = Names(m, c)
  BY <1>1, CheckFact DEF View
<1>4. ChainKeys(n) = ChainKeys(m)
  BY <1>1, <1>2, <1>3, ChainKeysFact DEF Tight
<1> QED
  BY <1>2, <1>4 DEF IsTable, IsTight, Tight

\* A new pool is a table without entries.
LEMMA TableInit == Init => TableInv /\ ChainKeys(mem) = EmptyChains
<1> SUFFICES ASSUME Init PROVE TableInv /\ ChainKeys(mem) = EmptyChains
  OBVIOUS
<1>1. mem = EmptyPool /\ status = "up" /\ crashes = 0 /\ seen = Contents(mem)
  BY DEF Init
<1> QED
  BY <1>1, NewPoolFact, BareFact DEF TableInv

\* A set either is of a new key or finds room for its value.
LEMMA FindsRoom ==
    ASSUME IsTable(mem), seen = Contents(mem), UpdatesFindRoom,
           NEW k \in Keys, NEW v \in Values, Set(k, v)
    PROVE  ht_lookup(mem, k) = 0 \/ CanAlloc(mem)
<1>1. CASE "set" \in Calls
  BY <1>1 DEF UpdatesFindRoom
<1>2. CASE "set" \notin Calls
  <2>1. ht_get(mem, k) = NoValue
    BY <1>2 DEF Set, Sets, Contents
  <2> QED
    BY <2>1, AbsentFact DEF IsTable
<1> QED
  BY <1>1, <1>2

\* Between two calls the pool is a table, and after a check nothing else.
Settled ==
    /\ status = "up" /\ seen = Contents(mem)
    /\ IsTable(mem)
    /\ result = Checked => IsTight(mem)

\* The calls that return.
Returns ==
    \/ \E k \in Keys, v \in Values : Set(k, v)
    \/ \E k \in Keys : Delete(k)
    \/ Clear
    \/ Check

\* Each of them keeps the table a table.
LEMMA ReturnStep ==
    ASSUME Settled, Returns, UpdatesFindRoom
    PROVE  Settled' /\ crashes' = crashes /\ StepOn(ChainKeys(mem), ChainKeys(mem'))
<1> DEFINE Goal == Settled' /\ crashes' = crashes /\ StepOn(ChainKeys(mem), ChainKeys(mem'))
<1>0. status = "up" /\ seen = Contents(mem) /\ IsTable(mem)
  BY DEF Settled
<1>1. ASSUME NEW call, NEW k, NEW v, Return(call, k, v), IsTable(call.mem),
             StepOn(ChainKeys(mem), ChainKeys(call.mem)),
             k \in Keys \/ IsTight(call.mem)
      PROVE  Goal
  <2>1. k \in Keys => k # NoValue
    BY TableAssumption DEF TableAssumption, Strings
  <2>2. result' = Checked => k = NoValue
    BY <1>1 DEF Return, Checked
  <2> QED
    BY <1>0, <1>1, <2>1, <2>2 DEF Return, Settled
<1> HIDE DEF Goal
<1>2. ASSUME NEW k \in Keys, NEW v \in Values, Set(k, v) PROVE Goal
  <2>1. ht_lookup(mem, k) = 0 \/ CanAlloc(mem)
    BY <1>0, <1>2, FindsRoom
  <2> DEFINE call == ht_set(mem, k, v)
  <2>2. IsTable(call.mem) /\ StepOn(ChainKeys(mem), ChainKeys(call.mem))
    BY <1>0, <2>1, SetStep
  <2>3. Return(call, k, v)
    BY <1>2 DEF Set
  <2> HIDE DEF call
  <2> QED
    BY <1>1, <2>2, <2>3
<1>3. ASSUME NEW k \in Keys, Delete(k) PROVE Goal
  <2> DEFINE call == ht_delete(mem, k)
  <2>1. IsTable(call.mem) /\ StepOn(ChainKeys(mem), ChainKeys(call.mem))
    BY <1>0, DeleteStep
  <2>2. Return(call, k, NoValue)
    BY <1>3 DEF Delete
  <2> HIDE DEF call
  <2> QED
    BY <1>1, <2>1, <2>2
<1>4. ASSUME Clear PROVE Goal
  <2> DEFINE call == Cleared(mem)
  <2>1. IsTable(call.mem) /\ IsTight(call.mem) /\ StepOn(ChainKeys(mem), ChainKeys(call.mem))
    BY <1>0, ClearStep
  <2>2. Return(call, NoValue, NoValue)
    BY <1>4 DEF Clear
  <2> HIDE DEF call
  <2> QED
    BY <1>1, <2>1, <2>2
<1>5. ASSUME Check PROVE Goal
  <2>1. mem' = ht_check_memory(mem) /\ seen' = Contents(mem') /\ status' = status /\ crashes' = crashes
    BY <1>5 DEF Check
  <2>2. IsTable(mem') /\ IsTight(mem') /\ ChainKeys(mem') = ChainKeys(mem)
    BY <1>0, <2>1, CheckStep
  <2> QED
    BY <1>0, <2>1, <2>2 DEF Goal, Settled, StepOn
<1> QED
  BY <1>2, <1>3, <1>4, <1>5 DEF Returns, Goal

\* If nobody dies, every step is such a call.
LEMMA NobodyDies ==
    ASSUME MaxCrashes = 0, TableInv, Next
    PROVE  Returns
<1>1. ASSUME NEW call, NEW next PROVE ~ Die(call, next)
  BY DEF TableInv, Die
<1>2. /\ \A k \in Keys, v \in Values : ~ DieInSet(k, v)
      /\ \A k \in Keys : ~ DieInDelete(k)
      /\ ~ DieInClear
  BY <1>1 DEF DieInSet, DieInDelete, DieInClear
<1> QED
  BY <1>2 DEF Next, Returns, Recover, TableInv

\* Every step keeps the table a table.
LEMMA TableStep ==
    ASSUME MaxCrashes = 0
    PROVE  TableInv /\ [Next]_vars /\ [UpdatesFindRoom]_vars =>
               TableInv' /\ StepOn(ChainKeys(mem), ChainKeys(mem'))
<1> SUFFICES ASSUME TableInv, [Next]_vars, [UpdatesFindRoom]_vars
             PROVE  TableInv' /\ StepOn(ChainKeys(mem), ChainKeys(mem'))
  OBVIOUS
<1>1. CASE UNCHANGED vars
  BY <1>1 DEF vars, TableInv, StepOn
<1>2. CASE Next /\ UpdatesFindRoom
  <2>1. Returns /\ Settled
    BY <1>2, NobodyDies DEF Settled, TableInv
  <2>2. Settled' /\ crashes' = crashes /\ StepOn(ChainKeys(mem), ChainKeys(mem'))
    BY <1>2, <2>1, ReturnStep
  <2> QED
    BY <2>2 DEF Settled, TableInv
<1> QED
  BY <1>1, <1>2

\* What TableInv is about, in the words of the model.
LEMMA TableFact ==
    ASSUME TableInv
    PROVE  Consistent(mem) /\ (result = Checked => Whole)
<1>1. PICK c, U : Sound(mem, c, U)
  BY DEF TableInv, IsTable
<1>2. Consistent(mem)
  BY <1>1, ConsistentFact DEF Sound
<1>3. ASSUME result = Checked PROVE Whole
  <2>1. PICK d, V : Tight(mem, d, V)
    BY <1>3 DEF TableInv, IsTight
  <2> QED
    BY <2>1, TightFact DEF Whole, Held
<1> QED
  BY <1>2, <1>3

\* The offsets the table is made of.
LEMMA TableTypes ==
    ASSUME TableInv
    PROVE  TypeOK
<1>1. PICK c, U : Sound(mem, c, U)
  BY DEF TableInv, IsTable
<1>2. mem \in Image /\ mem.hash \in Starts(U) /\ Starts(U) \subseteq Addr \ {0}
  BY <1>1, StartsFact DEF Sound, Stored, Tied
<1>3. \A k \in DOMAIN mem.free : mem.free[k] \in Chunk
  BY <1>2, ListFact DEF Image
<1>4. mem.log \in [op : BOOLEAN, key : Addr, value : Addr]
  BY <1>2 DEF Image, LogWords
<1>5. /\ mem.header \in [Addr -> Nat] /\ mem.value \in [Addr -> Addr]
      /\ mem.bucket \in [Buckets -> Addr] /\ mem.size \in 0 .. SizeT - 1
  BY <1>2 DEF Image
<1>6. status \in {"up", "down", "lost"} /\ crashes \in 0 .. MaxCrashes
  BY TableAssumption DEF TableInv, TableAssumption
<1> QED
  BY <1>2, <1>3, <1>4, <1>5, <1>6 DEF TypeOK

\* The steps of the table are those of LmcTable.
LEMMA ChainsStep ==
    ASSUME TableInv, TableInv', StepOn(ChainKeys(mem), ChainKeys(mem'))
    PROVE  [Table!Next]_KeyChains
<1> DEFINE N == KeyChains
           M == KeyChains'
<1>1. N = ChainKeys(mem) /\ M = ChainKeys(mem')
  BY DEF KeyChains, KeyAt, ChainKeys
<1>2. PICK c, U : Sound(mem, c, U)
  BY DEF TableInv, IsTable
<1>3. PICK d, V : Sound(mem', d, V)
  BY DEF TableInv, IsTable
<1>4. N \in [Buckets -> Seq(Keys)] /\ M \in [Buckets -> Seq(Keys)]
  <2>1. N = Names(mem, c) /\ M = Names(mem', d)
    BY <1>1, <1>2, <1>3, ChainKeysFact
  <2>2. AreNames(Names(mem, c), mem, c) /\ AreNames(Names(mem', d), mem', d)
    BY <1>2, <1>3, NamesFact DEF Sound
  <2> QED
    BY <2>1, <2>2 DEF AreNames
<1>5. \A k \in Keys : BucketOf[k] \in Buckets
  BY TableAssumption DEF TableAssumption, Strings
<1>6. \A k \in Keys : Table!Position(k) = KeyPosition(N, k)
  <2>1. \A S : Table!Min(S) = Min(S)
    BY Zenon DEF Table!Min, Min
  <2>2. \A k \in Keys : Table!Hits(k) = KeyHits(N, k)
    BY DEF Table!Hits, KeyHits
  <2> HIDE DEF N
  <2> QED
    BY <2>1, <2>2, Zenon DEF Table!Position, KeyPosition
<1> HIDE DEF N, M
<1>7. ASSUME NEW k \in Keys, Inserts(N, M, k) PROVE Table!Insert(k)
  <2>1. M = [N EXCEPT ![BucketOf[k]] = <<k>> \o @]
    <3> DEFINE x == <<k>> \o N[BucketOf[k]]
    <3>1. M[BucketOf[k]] = x /\ \A b \in Buckets \ {BucketOf[k]} : M[b] = N[b]
      BY <1>7 DEF Inserts, PutsFirst
    <3> HIDE DEF x
    <3>2. M = [N EXCEPT ![BucketOf[k]] = x]
      BY <1>4, <1>5, <3>1
    <3> QED
      BY <3>2 DEF x
  <2>2. Table!Position(k) = 0
    BY <1>6, <1>7 DEF Inserts
  <2> QED
    BY <2>1, <2>2 DEF Table!Insert, N, M
<1>8. ASSUME NEW k \in Keys, Deletes(N, M, k) PROVE Table!Drop(k)
  <2> DEFINE i == KeyPosition(N, k)
  <2>1. M = [N EXCEPT ![BucketOf[k]] = IF i = 1 THEN <<>> ELSE RemoveAt(@, i)]
    <3> DEFINE x == IF i = 1 THEN <<>> ELSE RemoveAt(N[BucketOf[k]], i)
    <3>1. M[BucketOf[k]] = x /\ \A b \in Buckets \ {BucketOf[k]} : M[b] = N[b]
      BY <1>8 DEF Deletes, Drops, Dropped
    <3> HIDE DEF x, i
    <3>2. M = [N EXCEPT ![BucketOf[k]] = x]
      BY <1>4, <1>5, <3>1
    <3> QED
      BY <3>2 DEF x
  <2>2. Table!Position(k) = i /\ i # 0
    BY <1>6, <1>8 DEF Deletes
  <2> HIDE DEF i
  <2>3. \A s : Table!RemoveAt(s, i) = RemoveAt(s, i)
    BY Zenon DEF Table!RemoveAt, RemoveAt
  <2>4. M = [N EXCEPT ![BucketOf[k]] = IF i = 1 THEN <<>> ELSE Table!RemoveAt(@, i)]
    BY <2>1, <2>3
  <2>5. M = [N EXCEPT ![BucketOf[k]] =
                IF Table!Position(k) = 1 THEN <<>> ELSE Table!RemoveAt(@, Table!Position(k))]
    BY <2>2, <2>4, Zenon
  <2> QED
    BY <2>2, <2>5, Zenon DEF Table!Drop, N, M
<1>9. StepOn(N, M)
  BY <1>1
<1>10. CASE M = N
  BY <1>10 DEF N, M
<1>11. CASE \E k \in Keys : Inserts(N, M, k) \/ Deletes(N, M, k)
  BY <1>7, <1>8, <1>11 DEF Table!Next
<1>12. CASE M = EmptyChains
  BY <1>12 DEF Table!Next, Table!Clear, EmptyChains, M
<1> QED
  BY <1>9, <1>10, <1>11, <1>12 DEF StepOn

\* With keys only ever added, deleted and cleared, nothing is overwritten.
LEMMA NoUpdates == "set" \notin Calls => UpdatesFindRoom
BY DEF UpdatesFindRoom

-----------------------------------------------------------------------------
(***************************************************************************)
(* The theorems.                                                           *)
(***************************************************************************)
\* The invariant, and what each step makes of the chains.
LEMMA TableHolds ==
    ASSUME MaxCrashes = 0
    PROVE  Spec /\ [][UpdatesFindRoom]_vars => []TableInv
<1>1. Init => TableInv
  BY TableInit
<1>2. TableInv /\ [Next]_vars /\ [UpdatesFindRoom]_vars => TableInv'
  BY TableStep
<1> QED
  BY <1>1, <1>2, PTL DEF Spec

\* Every offset in the pool is null or that of a block (md->va_hash, the
\* buckets, the entries, the log), whatever is set, deleted, cleared and
\* checked.
THEOREM TableTypeOK ==
    ASSUME MaxCrashes = 0
    PROVE  Spec /\ [][UpdatesFindRoom]_vars => []TypeOK
<1>1. TableInv => TypeOK
  BY TableTypes
<1> QED
  BY <1>1, TableHolds, PTL

\* ht_check_memory, run between any two calls, is content: no null pointer in
\* a chain, no block that two entries share, none that is in use and free.
THEOREM TableConsistent ==
    ASSUME MaxCrashes = 0
    PROVE  Spec /\ [][UpdatesFindRoom]_vars => []PoolConsistent
<1>1. TableInv => PoolConsistent
  BY TableFact DEF PoolConsistent
<1> QED
  BY <1>1, TableHolds, PTL

\* After local_memcache_check_consistency, as after a clear, every word of the
\* pool is free or in use: what failed sets and dropped chains leaked is back.
THEOREM TableReclaimed ==
    ASSUME MaxCrashes = 0
    PROVE  Spec /\ [][UpdatesFindRoom]_vars => []CheckReclaims
<1>1. TableInv => CheckReclaims
  BY TableFact DEF CheckReclaims
<1> QED
  BY <1>1, TableHolds, PTL

\* The hash table in the memory of the pool implements the chains of LmcTable:
\* each call of ht_set, ht_delete, local_memcache_clear and
\* local_memcache_check_consistency moves the entries as LmcTable says, or not
\* at all.
THEOREM TableImplements ==
    ASSUME MaxCrashes = 0
    PROVE  Spec /\ [][UpdatesFindRoom]_vars => TableSpec
<1>1. Init => Table!Init
  <2>1. Init => ChainKeys(mem) = EmptyChains
    BY TableInit
  <2>2. KeyChains = ChainKeys(mem)
    BY DEF KeyChains, KeyAt, ChainKeys
  <2> QED
    BY <2>1, <2>2 DEF Table!Init, EmptyChains
<1>2. TableInv /\ [Next]_vars /\ [UpdatesFindRoom]_vars => [Table!Next]_KeyChains
  <2>1. TableInv /\ [Next]_vars /\ [UpdatesFindRoom]_vars
            => TableInv' /\ StepOn(ChainKeys(mem), ChainKeys(mem'))
    BY TableStep
  <2> QED
    BY <2>1, ChainsStep
<1> QED
  BY <1>1, <1>2, TableHolds, PTL DEF Spec, TableSpec, Table!Spec

\* The same without a hypothesis about the pool when no key is set twice
\* between two deletes: allocations may fail as they like.
THEOREM AddsConsistent ==
    ASSUME MaxCrashes = 0, "set" \notin Calls
    PROVE  Spec => []PoolConsistent /\ []CheckReclaims /\ TableSpec
<1>1. UpdatesFindRoom
  BY NoUpdates
<1>2. [][UpdatesFindRoom]_vars
  BY <1>1, PTL
<1> QED
  BY <1>2, TableConsistent, TableReclaimed, TableImplements, PTL

-----------------------------------------------------------------------------
(***************************************************************************)
(* Nothing is lost.  Two steps lose blocks until the next memory check: an *)
(* insert that found room for some of its three blocks only, and a delete  *)
(* of the first of several entries of a chain.                             *)
(***************************************************************************)
NoneHalf ==
    \A k \in Keys, v \in Values : Set(k, v) => ht_set(mem, k, v).ok \/ ~CanAlloc(mem)

\* ht_delete of key k in the table of m leaves the other entries of its chain.
LeavesChain(m, k) ==
    Position(m, Chain(m, BucketOf[k]), k) = 1 => Len(Chain(m, BucketOf[k])) = 1

KeepsChains == \A k \in Keys : Delete(k) => LeavesChain(mem, k)

\* Nothing is spare in a pool whose table points to all of its blocks.
LEMMA SpareFact ==
    ASSUME NEW m, NEW c, NEW U, Sound(m, c, U)
    PROVE  Tight(m, c, U) <=> Spare(m, c, U) = {}
<1>1. Used(m, c) \subseteq Starts(U)
  BY UsedFact DEF Sound
<1> QED
  BY <1>1 DEF Tight, Spare

\* What the chain of a key is, in the words of the model and in those used here.
LEMMA EndsFact ==
    ASSUME NEW m, NEW c, NEW U, Sound(m, c, U), NEW k \in Keys
    PROVE  LeavesChain(m, k) <=> EndsChain(m, c, k)
<1>1. m \in Image /\ Tied(m, c, Starts(U))
  BY DEF Sound, Stored
<1>2. /\ Chain(m, BucketOf[k]) = c[BucketOf[k]]
      /\ Position(m, c[BucketOf[k]], k) = KeyPosition(Names(m, c), k)
  BY <1>1, PositionFact
<1> QED
  BY <1>2 DEF LeavesChain, EndsChain

\* ht_set gives back what it does not need,
LEMMA SetTight ==
    ASSUME NEW m, IsTight(m), NEW k \in Keys, NEW v \in Values,
           ht_lookup(m, k) = 0 \/ CanAlloc(m),
           ht_set(m, k, v).ok \/ ~CanAlloc(m)
    PROVE  IsTight(ht_set(m, k, v).mem)
<1> DEFINE call == ht_set(m, k, v)
           e == ht_lookup(m, k)
           n == call.mem
<1>1. PICK c, U : Tight(m, c, U)
  BY DEF IsTight
<1>2. Sound(m, c, U) /\ Spare(m, c, U) = {}
  BY <1>1, SpareFact DEF Tight
<1>3. WasSet(m, c, U, call, k, v, e)
  BY <1>2, SetFact
<1>4. call.ok \/ ~CanAlloc(m)
  OBVIOUS
<1>5. e = 0 => call = Insert(m, k, v)
  BY DEF ht_set, SetAt
<1> HIDE DEF call, e
<1>6. CASE e # 0
  <2>1. Updated(m, c, U, e, v, n)
    BY <1>3, <1>6 DEF WasSet
  <2>2. PICK V : Sound(n, c, V) /\ Spare(n, c, V) = Spare(m, c, U)
    BY <2>1 DEF Updated
  <2>3. Tight(n, c, V)
    BY <1>2, <2>2, SpareFact
  <2> QED
    BY <2>3 DEF IsTight, call
<1>7. CASE e = 0 /\ call.ok
  <2>1. PICK d, V : Sound(n, d, V) /\ Spare(n, d, V) = Spare(m, c, U)
    BY <1>3, <1>7 DEF WasSet, Inserted
  <2>2. Tight(n, d, V)
    BY <1>2, <2>1, SpareFact
  <2> QED
    BY <2>2 DEF IsTight, call
<1>8. CASE e = 0 /\ ~call.ok
  <2>0. call = Insert(m, k, v) /\ ~CanAlloc(m) /\ Sound(m, c, U)
    BY <1>2, <1>4, <1>5, <1>8
  <2>1. Sound(n, c, U) /\ Used(n, c) = Used(m, c)
    <3>1. Refused(m, c, U, call)
      BY <2>0, RefusedFact
    <3> QED
      BY <3>1 DEF Refused
  <2>2. Tight(n, c, U)
    BY <1>1, <2>1 DEF Tight
  <2> QED
    BY <2>2 DEF IsTight, call
<1> QED
  BY <1>6, <1>7, <1>8

\* and ht_delete what it unlinks.
LEMMA DeleteTight ==
    ASSUME NEW m, IsTight(m), NEW k \in Keys, LeavesChain(m, k)
    PROVE  IsTight(ht_delete(m, k).mem)
<1> DEFINE call == ht_delete(m, k)
           e == ht_lookup(m, k)
           n == call.mem
<1>1. PICK c, U : Tight(m, c, U)
  BY DEF IsTight
<1>2. Sound(m, c, U) /\ Spare(m, c, U) = {}
  BY <1>1, SpareFact DEF Tight
<1>3. WasDeleted(m, c, U, call, k, e)
  BY <1>2, DeleteFact
<1>4. EndsChain(m, c, k)
  BY <1>2, EndsFact
<1> HIDE DEF call, e
<1>5. PICK d, V : Sound(n, d, V) /\ Spare(n, d, V) = Spare(m, c, U)
  BY <1>3, <1>4 DEF WasDeleted
<1>6. Tight(n, d, V)
  BY <1>2, <1>5, SpareFact
<1> QED
  BY <1>6 DEF IsTight, call

TightInv == TableInv /\ IsTight(mem)

\* A pool of which nothing is lost stays one.
LEMMA TightStep ==
    ASSUME MaxCrashes = 0, TightInv, [Next]_vars,
           [UpdatesFindRoom /\ NoneHalf /\ KeepsChains]_vars
    PROVE  IsTight(mem')
<1>0. /\ status = "up" /\ seen = Contents(mem) /\ IsTable(mem) /\ IsTight(mem)
      /\ crashes = 0 /\ MaxCrashes = 0
  BY DEF TableInv, TightInv
<1>1. CASE UNCHANGED vars
  BY <1>0, <1>1 DEF vars
<1>2. ASSUME NEW k \in Keys, NEW v \in Values, Set(k, v), UpdatesFindRoom, NoneHalf
      PROVE  IsTight(mem')
  <2>1. ht_lookup(mem, k) = 0 \/ CanAlloc(mem)
    BY <1>0, <1>2, FindsRoom
  <2>2. ht_set(mem, k, v).ok \/ ~CanAlloc(mem)
    BY <1>2 DEF NoneHalf
  <2>3. mem' = ht_set(mem, k, v).mem
    BY <1>2 DEF Set, Return
  <2> QED
    BY <1>0, <2>1, <2>2, <2>3, SetTight
<1>3. ASSUME NEW k \in Keys, Delete(k), KeepsChains
      PROVE  IsTight(mem')
  <2>1. LeavesChain(mem, k)
    BY <1>3 DEF KeepsChains
  <2>2. mem' = ht_delete(mem, k).mem
    BY <1>3 DEF Delete, Return
  <2> QED
    BY <1>0, <2>1, <2>2, DeleteTight
<1>4. CASE Clear
  BY <1>0, <1>4, ClearStep DEF Clear, Return
<1>5. CASE Check
  BY <1>0, <1>5, CheckStep DEF Check
<1>6. /\ \A k \in Keys, v \in Values : ~ DieInSet(k, v)
      /\ \A k \in Keys : ~ DieInDelete(k)
      /\ ~ DieInClear /\ ~ Recover
  BY <1>0 DEF DieInSet, DieInDelete, DieInClear, Die, Recover
<1> QED
  BY <1>1, <1>2, <1>3, <1>4, <1>5, <1>6 DEF Next

\* Every word of the pool is free or in use after every call, if sets find room
\* for all they need or for nothing and deletes do not empty a chain of several
\* entries: no call frees a block twice or forgets one.
THEOREM TableAccounted ==
    ASSUME MaxCrashes = 0
    PROVE  Spec /\ [][UpdatesFindRoom /\ NoneHalf /\ KeepsChains]_vars => []Accounted
<1>1. Init => TightInv
  BY TableInit DEF Init, TableInv, TightInv
<1>2. TightInv /\ [Next]_vars /\ [UpdatesFindRoom /\ NoneHalf /\ KeepsChains]_vars => TightInv'
  <2> SUFFICES ASSUME TightInv, [Next]_vars, [UpdatesFindRoom /\ NoneHalf /\ KeepsChains]_vars
               PROVE  TightInv'
    OBVIOUS
  <2>1. TableInv'
    BY TableStep DEF TightInv
  <2>2. IsTight(mem')
    BY TightStep
  <2> QED
    BY <2>1, <2>2 DEF TightInv
<1>3. TightInv => Accounted
  <2> SUFFICES ASSUME TightInv PROVE Consistent(mem) /\ Whole
    BY DEF Accounted
  <2>1. PICK c, U : Tight(mem, c, U)
    BY DEF IsTight, TightInv
  <2> QED
    BY <2>1, TableFact, TightFact DEF Whole, Held, TightInv
<1> QED
  BY <1>1, <1>2, <1>3, PTL DEF Spec

-----------------------------------------------------------------------------
(***************************************************************************)
(* What the callers see.  The keys of the chains and the cells of the      *)
(* entries determine it, if keys that share a bucket differ in length: the *)
(* only keys that ht_lookup tells apart.                                   *)
(***************************************************************************)
KeysDiffer ==
    \A k, l \in Keys : BucketOf[k] = BucketOf[l] /\ LengthOf[k] = LengthOf[l] => k = l

\* Every key is in its bucket.
Placed(N) ==
    \A b \in Buckets :
        N[b] \in Seq(Keys) /\ \A i \in 1 .. Len(N[b]) : BucketOf[N[b][i]] = b

\* No two entries have the same key.
DistinctKeys(F) ==
    /\ \A e \in DOMAIN F : F[e][1] \in Keys /\ F[e][2] \in Values
    /\ \A e, f \in DOMAIN F : F[e][1] = F[f][1] => e = f

Orderly(X) == Placed(X.names) /\ DistinctKeys(X.cells)

\* No entry has the key k.
Lacks(F, k) == \A e \in DOMAIN F : F[e][1] # k

\* C is what a caller reads in the cells F.
Reads(F, C) ==
    /\ C = [k \in Keys |-> C[k]]
    /\ \A k \in Keys : \/ C[k] = NoValue /\ Lacks(F, k)
                       \/ \E e \in DOMAIN F : F[e][1] = k /\ F[e][2] = C[k]

\* It is one thing.
LEMMA ReadsOnce ==
    ASSUME NEW F, DistinctKeys(F), NEW C, Reads(F, C), NEW D, Reads(F, D)
    PROVE  C = D
<1>1. \A k \in Keys : C[k] = D[k]
  BY DEF Reads, DistinctKeys, Lacks
<1>2. C = [k \in Keys |-> C[k]] /\ D = [k \in Keys |-> D[k]]
  BY DEF Reads
<1> QED
  BY <1>1, <1>2

\* A new key, behind which the table stays orderly,
LEMMA GainsFact ==
    ASSUME NEW F, DistinctKeys(F), NEW G, NEW e, NEW k \in Keys, NEW v \in Values,
           Lacks(F, k), Gains(F, G, e, <<k, v>>), NEW C, Reads(F, C)
    PROVE  DistinctKeys(G) /\ Reads(G, [C EXCEPT ![k] = v])
<1> DEFINE D == [C EXCEPT ![k] = v]
<1>1. C = [l \in Keys |-> C[l]]
  BY DEF Reads
<1>2. D = [l \in Keys |-> D[l]] /\ D[k] = v /\ \A l \in Keys : l # k => D[l] = C[l]
  BY <1>1
<1>3. /\ e \notin DOMAIN F /\ DOMAIN G = DOMAIN F \union {e}
      /\ G[e][1] = k /\ G[e][2] = v /\ \A f \in DOMAIN F : G[f] = F[f]
  BY DEF Gains
<1>4. DistinctKeys(G)
  BY <1>3 DEF DistinctKeys, Lacks
<1> HIDE DEF D
<1>5. ASSUME NEW l \in Keys
      PROVE  \/ D[l] = NoValue /\ Lacks(G, l)
             \/ \E f \in DOMAIN G : G[f][1] = l /\ G[f][2] = D[l]
  <2>1. CASE l = k
    BY <1>2, <1>3, <2>1
  <2>2. CASE l # k /\ C[l] = NoValue /\ Lacks(F, l)
    BY <1>2, <1>3, <2>2 DEF Lacks
  <2>3. CASE l # k /\ \E f \in DOMAIN F : F[f][1] = l /\ F[f][2] = C[l]
    BY <1>2, <1>3, <2>3
  <2> QED
    BY <2>1, <2>2, <2>3 DEF Reads
<1>6. Reads(G, D)
  BY <1>2, <1>5 DEF Reads
<1> QED
  BY <1>4, <1>6 DEF D

\* a new value,
LEMMA RenewsFact ==
    ASSUME NEW F, DistinctKeys(F), NEW G, NEW e, NEW v \in Values, Renews(F, G, e, v),
           NEW k, k = F[e][1], NEW C, Reads(F, C)
    PROVE  DistinctKeys(G) /\ Reads(G, [C EXCEPT ![k] = v])
<1> DEFINE D == [C EXCEPT ![k] = v]
<1>0. k \in Keys /\ e \in DOMAIN F
  BY DEF Renews, DistinctKeys
<1>1. C = [l \in Keys |-> C[l]]
  BY DEF Reads
<1>2. D = [l \in Keys |-> D[l]] /\ D[k] = v /\ \A l \in Keys : l # k => D[l] = C[l]
  BY <1>0, <1>1
<1>3. /\ DOMAIN G = DOMAIN F
      /\ G[e][1] = k /\ G[e][2] = v /\ \A f \in DOMAIN F : f # e => G[f] = F[f]
  BY DEF Renews
<1>4. \A f \in DOMAIN F : G[f][1] = F[f][1]
  BY <1>3
<1>5. DistinctKeys(G)
  BY <1>3, <1>4 DEF DistinctKeys
<1> HIDE DEF D
<1>6. ASSUME NEW l \in Keys
      PROVE  \/ D[l] = NoValue /\ Lacks(G, l)
             \/ \E f \in DOMAIN G : G[f][1] = l /\ G[f][2] = D[l]
  <2>1. CASE l = k
    BY <1>0, <1>2, <1>3, <2>1
  <2>2. CASE l # k /\ C[l] = NoValue /\ Lacks(F, l)
    BY <1>2, <1>3, <1>4, <2>2 DEF Lacks
  <2>3. CASE l # k /\ \E f \in DOMAIN F : F[f][1] = l /\ F[f][2] = C[l]
    BY <1>2, <1>3, <2>3
  <2> QED
    BY <2>1, <2>2, <2>3 DEF Reads
<1>7. Reads(G, D)
  BY <1>2, <1>6 DEF Reads
<1> QED
  BY <1>5, <1>7 DEF D

\* one entry less,
LEMMA LosesFact ==
    ASSUME NEW F, DistinctKeys(F), NEW G, NEW e, Loses(F, G, e),
           NEW k, k = F[e][1], NEW C, Reads(F, C)
    PROVE  DistinctKeys(G) /\ Reads(G, [C EXCEPT ![k] = NoValue])
<1> DEFINE D == [C EXCEPT ![k] = NoValue]
<1>0. k \in Keys /\ e \in DOMAIN F
  BY DEF Loses, DistinctKeys
<1>1. C = [l \in Keys |-> C[l]]
  BY DEF Reads
<1>2. D = [l \in Keys |-> D[l]] /\ D[k] = NoValue /\ \A l \in Keys : l # k => D[l] = C[l]
  BY <1>0, <1>1
<1>3. DOMAIN G = DOMAIN F \ {e} /\ \A f \in DOMAIN G : G[f] = F[f]
  BY DEF Loses
<1>4. DistinctKeys(G)
  BY <1>3 DEF DistinctKeys
<1> HIDE DEF D
<1>5. ASSUME NEW l \in Keys
      PROVE  \/ D[l] = NoValue /\ Lacks(G, l)
             \/ \E f \in DOMAIN G : G[f][1] = l /\ G[f][2] = D[l]
  <2>1. CASE l = k
    BY <1>0, <1>2, <1>3, <2>1 DEF Lacks, DistinctKeys
  <2>2. CASE l # k /\ C[l] = NoValue /\ Lacks(F, l)
    BY <1>2, <1>3, <2>2 DEF Lacks
  <2>3. CASE l # k /\ \E f \in DOMAIN F : F[f][1] = l /\ F[f][2] = C[l]
    BY <1>2, <1>3, <2>3
  <2> QED
    BY <2>1, <2>2, <2>3 DEF Reads
<1>6. Reads(G, D)
  BY <1>2, <1>5 DEF Reads
<1> QED
  BY <1>4, <1>6 DEF D

\* and a key that was not there.
LEMMA LacksFact ==
    ASSUME NEW F, DistinctKeys(F), NEW C, Reads(F, C), NEW k \in Keys
    PROVE  C[k] = NoValue <=> Lacks(F, k)
<1>1. NoValue \notin Values
  BY TableAssumption DEF TableAssumption, Strings
<1> QED
  BY <1>1 DEF Reads, DistinctKeys, Lacks

\* A key that comes first is in its bucket,
LEMMA PlacedIn ==
    ASSUME NEW N, NEW M, Placed(N), NEW k \in Keys, PutsFirst(N, M, BucketOf[k], k)
    PROVE  Placed(M)
<1> DEFINE bk == BucketOf[k]
<1>1. bk \in Buckets
  BY TableAssumption DEF TableAssumption, Strings
<1>2. N[bk] \in Seq(Keys) /\ \A i \in 1 .. Len(N[bk]) : BucketOf[N[bk][i]] = bk
  BY <1>1 DEF Placed
<1> DEFINE s == N[bk]
           t == M[bk]
<1>3. t = <<k>> \o s /\ s \in Seq(Keys)
  BY <1>2 DEF PutsFirst
<1>4. t \in Seq(Keys) /\ Len(t) = Len(s) + 1 /\ t[1] = k /\ \A i \in 1 .. Len(s) : t[i + 1] = s[i]
  <2> HIDE DEF s, t
  <2> QED
    BY <1>3, PutFirstFact
<1>5. \A i \in 1 .. Len(t) : i = 1 \/ i - 1 \in 1 .. Len(s)
  <2>1. Len(s) \in Nat
    BY <1>2, LenProperties
  <2> HIDE DEF s, t
  <2> QED
    BY <1>4, <2>1
<1>6. \A i \in 1 .. Len(t) : BucketOf[t[i]] = bk
  <2> SUFFICES ASSUME NEW i \in 1 .. Len(t) PROVE BucketOf[t[i]] = bk
    OBVIOUS
  <2>1. CASE i = 1
    BY <1>4, <2>1
  <2>2. CASE i # 1
    <3>1. i - 1 \in 1 .. Len(s) /\ i \in Int
      BY <1>5, <2>2
    <3>2. t[(i - 1) + 1] = s[i - 1] /\ (i - 1) + 1 = i
      BY <1>4, <3>1
    <3> QED
      BY <1>2, <3>1, <3>2
  <2> QED
    BY <2>1, <2>2
<1>7. \A b \in Buckets : b # bk => M[b] = N[b]
  BY DEF PutsFirst
<1> HIDE DEF s, t
<1> QED
  BY <1>4, <1>6, <1>7 DEF Placed, t

\* and those that stay when one goes stay in theirs.
LEMMA PlacedOut ==
    ASSUME NEW N, NEW M, Placed(N), NEW b \in Buckets, NEW i \in 1 .. Len(N[b]), Drops(N, M, b, i)
    PROVE  Placed(M)
<1> DEFINE s == N[b]
           t == M[b]
<1>1. s \in Seq(Keys) /\ \A j \in 1 .. Len(s) : BucketOf[s[j]] = b
  BY DEF Placed
<1>2. t = Dropped(s, i) /\ \A a \in Buckets : a # b => M[a] = N[a]
  BY DEF Drops
<1> HIDE DEF s, t
<1>3. i \in 1 .. Len(s)
  BY DEF s
<1>4. IsDropped(t, Keys, s, i)
  BY <1>1, <1>2, <1>3, DroppedFact
<1>5. t \in Seq(Keys) /\ \A j \in 1 .. Len(t) : BucketOf[t[j]] = b
  BY <1>1, <1>4 DEF IsDropped
<1> QED
  BY <1>2, <1>5 DEF Placed, t

\* ht_lookup finds the entry of a key.
LEMMA SeesFact ==
    ASSUME KeysDiffer, NEW m, NEW c, NEW U, Sound(m, c, U), Placed(Names(m, c)),
           NEW k \in Keys, NEW e, e = ht_lookup(m, k)
    PROVE  IF e = 0 THEN Lacks(Cells(m, c), k)
           ELSE /\ e \in Entries(c) /\ DOMAIN Cells(m, c) = Entries(c)
                /\ Cells(m, c)[e][1] = k /\ Cells(m, c)[e][2] = ValueAt(m, e)
<1> DEFINE N == Names(m, c)
           bk == BucketOf[k]
           i == KeyPosition(N, k)
           H == KeyHits(N, k)
<1>1. Tied(m, c, Starts(U)) /\ bk \in Buckets
  BY TableAssumption DEF Sound, TableAssumption, Strings
<1>2. /\ N \in [Buckets -> Seq(Keys)]
      /\ \A b \in Buckets :
             /\ Len(N[b]) = Len(c[b])
             /\ \A j \in 1 .. Len(c[b]) : N[b][j] = NameAt(m, c[b][j])
  <2>1. AreNames(N, m, c)
    BY <1>1, NamesFact
  <2> QED
    BY <2>1 DEF AreNames, NameAt
<1>3. \A b \in Buckets : /\ Len(c[b]) \in Nat /\ DOMAIN c[b] = 1 .. Len(c[b])
                         /\ \A j \in DOMAIN c[b] : c[b][j] \in Entries(c)
  BY <1>1, ChainsFact DEF Tied
<1>4. DOMAIN N[bk] = 1 .. Len(c[bk])
  BY <1>1, <1>2, <1>3, LenProperties
<1>5. H \subseteq 1 .. Len(c[bk]) /\ H \subseteq Nat
  BY <1>1, <1>3, <1>4 DEF KeyHits
<1>6. IF i = 0 THEN H = {} ELSE i \in H
  <2>1. H # {} => Min(H) \in H
    BY <1>5, MinFact
  <2> HIDE DEF N
  <2>2. i = IF H = {} THEN 0 ELSE Min(H)
    BY DEF KeyPosition
  <2> HIDE DEF H
  <2> QED
    BY <1>5, <2>1, <2>2
<1>7. IF i = 0 THEN e = 0 ELSE e = c[bk][i] /\ e \in Entries(c) /\ e # 0
  <2>1. i = KeyPosition(Names(m, c), k)
    OBVIOUS
  <2> HIDE DEF i, N
  <2> QED
    BY <2>1, LookupFact
<1>8. \A f \in Entries(c) : Cells(m, c)[f][1] = NameAt(m, f) /\ Cells(m, c)[f][2] = ValueAt(m, f)
  BY DEF Cells
<1>9. DOMAIN Cells(m, c) = Entries(c)
  BY DEF Cells
<1>10. \A b \in Buckets : \A j \in 1 .. Len(c[b]) : BucketOf[NameAt(m, c[b][j])] = b
  <2>1. \A b \in Buckets : \A j \in 1 .. Len(N[b]) : BucketOf[N[b][j]] = b
    BY DEF Placed
  <2> HIDE DEF N
  <2> QED
    BY <1>2, <2>1
<1>11. CASE e = 0
  <2>1. H = {}
    BY <1>6, <1>7, <1>11
  <2>2. ASSUME NEW f \in Entries(c), NameAt(m, f) = k PROVE FALSE
    <3>1. PICK b \in Buckets : \E j \in DOMAIN c[b] : c[b][j] = f
      BY DEF Entries
    <3>2. PICK j \in 1 .. Len(c[b]) : c[b][j] = f
      BY <1>3, <3>1
    <3>3. b = bk
      BY <1>10, <2>2, <3>2
    <3>4. N[bk][j] = k /\ j \in DOMAIN N[bk]
      BY <1>2, <1>4, <2>2, <3>2, <3>3
    <3>5. j \in H
      BY <3>4 DEF KeyHits
    <3> QED
      BY <2>1, <3>5
  <2> QED
    BY <1>8, <1>9, <1>11, <2>2 DEF Lacks
<1>12. CASE e # 0
  <2>1. i \in H /\ e = c[bk][i] /\ e \in Entries(c)
    BY <1>6, <1>7, <1>12
  <2>2. i \in 1 .. Len(c[bk]) /\ LengthOf[N[bk][i]] = LengthOf[k]
    BY <1>5, <2>1 DEF KeyHits
  <2>3. N[bk][i] = NameAt(m, e) /\ BucketOf[NameAt(m, e)] = bk /\ N[bk][i] \in Keys
    <3>1. N[bk] \in Seq(Keys) /\ Len(N[bk]) = Len(c[bk])
      BY <1>1, <1>2
    <3> HIDE DEF i, N
    <3>2. N[bk][i] \in Keys
      BY <2>2, <3>1, ElementOfSeq
    <3> QED
      BY <1>1, <1>2, <1>10, <2>1, <2>2, <3>2
  <2>4. NameAt(m, e) = k
    BY <2>2, <2>3 DEF KeysDiffer
  <2> QED
    BY <1>8, <1>9, <1>12, <2>1, <2>4
<1> QED
  BY <1>11, <1>12

\* The callers read the cells.
LEMMA ContentsFact ==
    ASSUME KeysDiffer, NEW m, NEW c, NEW U, Sound(m, c, U), Orderly(View(m, c))
    PROVE  Reads(Cells(m, c), Contents(m))
<1> DEFINE F == Cells(m, c)
           C == Contents(m)
<1>1. Placed(Names(m, c)) /\ DistinctKeys(F)
  BY DEF Orderly, View
<1>2. Tied(m, c, Starts(U)) /\ Starts(U) \subseteq Addr \ {0}
  BY StartsFact DEF Sound
<1>3. ASSUME NEW k \in Keys
      PROVE  \/ C[k] = NoValue /\ Lacks(F, k)
             \/ \E e \in DOMAIN F : F[e][1] = k /\ F[e][2] = C[k]
  <2> DEFINE e == ht_lookup(m, k)
  <2>1. C[k] = ValueOf(m, e)
    BY DEF Contents, ht_get
  <2>2. IF e = 0 THEN Lacks(F, k)
        ELSE /\ e \in Entries(c) /\ DOMAIN F = Entries(c)
             /\ F[e][1] = k /\ F[e][2] = ValueAt(m, e)
    <3>1. e = ht_lookup(m, k)
      OBVIOUS
    <3> HIDE DEF e
    <3> QED
      BY <1>1, <3>1, SeesFact
  <2> HIDE DEF e, F, C
  <2>3. CASE e = 0
    BY <2>1, <2>2, <2>3 DEF ValueOf
  <2>4. CASE e # 0
    <3>1. Ptr(m, e, 3) \in Starts(U) /\ Ptr(m, e, 3) = m.value[e]
      BY <1>2, <2>2, <2>4 DEF Tied, Ptr
    <3>2. m.value[e] # 0
      BY <1>2, <3>1
    <3>3. F[e][2] = m.body[m.value[e]] /\ m.body[m.value[e]] \in Values
      BY <1>1, <2>2, <2>4 DEF ValueAt, DistinctKeys
    <3>4. C[k] = m.body[m.value[e]]
      BY <2>1, <2>4, <3>2, <3>3 DEF ValueOf, Str, Strings
    <3> QED
      BY <2>2, <2>4, <3>3, <3>4
  <2> QED
    BY <2>3, <2>4
<1>4. C = [k \in Keys |-> C[k]]
  BY DEF Contents
<1> HIDE DEF C, F
<1>5. Reads(F, C)
  BY <1>3, <1>4 DEF Reads
<1> QED
  BY <1>5 DEF C, F

\* What the callers see in a table X, C, is what they see in the same table,
LEMMA SameSeen ==
    ASSUME KeysDiffer, NEW X, Orderly(X), NEW C, Reads(X.cells, C),
           NEW n, NEW d, NEW V, Sound(n, d, V), View(n, d) = X
    PROVE  Contents(n) = C
<1>1. Reads(Cells(n, d), Contents(n)) /\ Cells(n, d) = X.cells
  BY ContentsFact DEF View
<1> QED
  BY <1>1, ReadsOnce DEF Orderly

\* and differs from it in the key that is new,
LEMMA EntersSeen ==
    ASSUME KeysDiffer, NEW X, Orderly(X), NEW C, Reads(X.cells, C),
           NEW n, NEW d, NEW V, Sound(n, d, V),
           NEW k \in Keys, NEW v \in Values, NEW e, Lacks(X.cells, k),
           Enters(X, Names(n, d), Cells(n, d), k, v, e)
    PROVE  Orderly(View(n, d)) /\ Contents(n) = [C EXCEPT ![k] = v]
<1> DEFINE M == Names(n, d)
           G == Cells(n, d)
<1>1. PutsFirst(X.names, M, BucketOf[k], k) /\ Gains(X.cells, G, e, <<k, v>>)
  BY DEF Enters
<1>2. Placed(X.names) /\ DistinctKeys(X.cells)
  BY DEF Orderly
<1> HIDE DEF M, G
<1>3. Placed(M)
  BY <1>1, <1>2, PlacedIn
<1>4. DistinctKeys(G) /\ Reads(G, [C EXCEPT ![k] = v])
  BY <1>1, <1>2, GainsFact
<1>5. Orderly(View(n, d))
  BY <1>3, <1>4 DEF Orderly, View, M, G
<1>6. Reads(G, Contents(n))
  BY <1>5, ContentsFact DEF G
<1> QED
  BY <1>4, <1>5, <1>6, ReadsOnce

\* has a new value,
LEMMA RenewsSeen ==
    ASSUME KeysDiffer, NEW X, Orderly(X), NEW C, Reads(X.cells, C),
           NEW n, NEW d, NEW V, Sound(n, d, V),
           NEW v \in Values, NEW e, NEW k, k = X.cells[e][1],
           Names(n, d) = X.names, Renews(X.cells, Cells(n, d), e, v)
    PROVE  Orderly(View(n, d)) /\ Contents(n) = [C EXCEPT ![k] = v]
<1> DEFINE G == Cells(n, d)
<1>1. Renews(X.cells, G, e, v)
  OBVIOUS
<1>2. Placed(X.names) /\ DistinctKeys(X.cells)
  BY DEF Orderly
<1> HIDE DEF G
<1>3. DistinctKeys(G) /\ Reads(G, [C EXCEPT ![k] = v])
  BY <1>1, <1>2, RenewsFact
<1>4. Orderly(View(n, d))
  BY <1>2, <1>3 DEF Orderly, View, G
<1>5. Reads(G, Contents(n))
  BY <1>4, ContentsFact DEF G
<1> QED
  BY <1>3, <1>4, <1>5, ReadsOnce

\* or is gone.
LEMMA LosesSeen ==
    ASSUME KeysDiffer, NEW X, Orderly(X), NEW C, Reads(X.cells, C),
           NEW n, NEW d, NEW V, Sound(n, d, V),
           NEW b \in Buckets, NEW i \in 1 .. Len(X.names[b]), NEW e, NEW k, k = X.cells[e][1],
           Drops(X.names, Names(n, d), b, i), Loses(X.cells, Cells(n, d), e)
    PROVE  Orderly(View(n, d)) /\ Contents(n) = [C EXCEPT ![k] = NoValue]
<1> DEFINE G == Cells(n, d)
           M == Names(n, d)
<1>1. Drops(X.names, M, b, i) /\ Loses(X.cells, G, e)
  OBVIOUS
<1>2. Placed(X.names) /\ DistinctKeys(X.cells)
  BY DEF Orderly
<1> HIDE DEF G, M
<1>3. DistinctKeys(G) /\ Reads(G, [C EXCEPT ![k] = NoValue])
  BY <1>1, <1>2, LosesFact
<1>4. Placed(M)
  BY <1>1, <1>2, PlacedOut
<1>5. Orderly(View(n, d))
  BY <1>3, <1>4 DEF Orderly, View, G, M
<1>6. Reads(G, Contents(n))
  BY <1>5, ContentsFact DEF G
<1> QED
  BY <1>3, <1>5, <1>6, ReadsOnce

\* There are fewer entries than words in the pool, hence than a size_t counts.
LEMMA EntriesFact ==
    ASSUME NEW m, NEW c, NEW A, Tied(m, c, A)
    PROVE  /\ IsFiniteSet(Entries(c)) /\ Cardinality(Entries(c)) \in Nat
           /\ Total <= SizeT => Cardinality(Entries(c)) < SizeT
<1>1. Addr \subseteq Nat /\ (\A a \in Addr : a < Total) /\ Total \in Nat
  BY AddrFact, BlockFact
<1>2. \A a \in Entries(c) : a \in Addr /\ a # 0
  BY ChainsFact DEF Entries, Tied
<1>3. Entries(c) \in SUBSET (1 .. Total - 1)
  <2> SUFFICES ASSUME NEW a \in Entries(c) PROVE a \in 1 .. Total - 1
    OBVIOUS
  <2>1. a \in Nat /\ a < Total /\ a # 0 /\ Total \in Nat
    BY <1>1, <1>2
  <2> QED
    BY <2>1
<1>4. Total > 0
  BY BlockFact
<1>5. IsFiniteSet(1 .. Total - 1) /\ Cardinality(1 .. Total - 1) = Total - 1
  BY <1>1, <1>4, FS_Interval
<1>6. IsFiniteSet(Entries(c)) /\ Cardinality(Entries(c)) <= Total - 1
  BY <1>3, <1>5, FS_Subset
<1>7. Cardinality(Entries(c)) \in Nat /\ SizeT \in Nat
  BY <1>6, FS_CardinalityType DEF SizeT
<1> QED
  BY <1>1, <1>6, <1>7

\* As many keys are seen as there are entries.
LEMMA PairsFact ==
    ASSUME NEW F, DistinctKeys(F), IsFiniteSet(DOMAIN F), NEW C, Reads(F, C)
    PROVE  Cardinality({k \in Keys : C[k] # NoValue}) = Cardinality(DOMAIN F)
<1> DEFINE S == DOMAIN F
           T == {k \in Keys : C[k] # NoValue}
           f == [e \in S |-> F[e][1]]
<1>1. NoValue \notin Values
  BY TableAssumption DEF TableAssumption, Strings
<1>2. \A e \in S : f[e] \in T
  BY <1>1 DEF DistinctKeys, Reads, Lacks
<1>3. \A d, e \in S : f[d] = f[e] => d = e
  BY DEF DistinctKeys
<1>4. \A k \in T : \E e \in S : f[e] = k
  BY DEF Reads
<1>5. f \in [S -> T]
  BY <1>2
<1> HIDE DEF f
<1>6. f \in Bijection(S, T)
  BY <1>3, <1>4, <1>5 DEF Bijection, Injection, Surjection, IsInjective
<1>7. ExistsBijection(S, T)
  BY <1>6 DEF ExistsBijection
<1> HIDE DEF S, T
<1>8. Cardinality(T) = Cardinality(S)
  BY <1>7, FS_Bijection DEF S
<1> QED
  BY <1>8 DEF S, T

\* ht->size counts the entries.
Counted(m, c) == MaxCrashes = 0 /\ Total <= SizeT => m.size = Cardinality(Entries(c))

InOrder(m, c, U) == Sound(m, c, U) /\ Orderly(View(m, c)) /\ Counted(m, c)

IsOrderly(m) == \E c, U : InOrder(m, c, U)

\* With an entry more, and with one less.
LEMMA CountedFact ==
    ASSUME NEW m, NEW c, NEW U, Sound(m, c, U), Counted(m, c),
           NEW n, NEW d, NEW V, Sound(n, d, V)
    PROVE  /\ \A e, x : Gains(Cells(m, c), Cells(n, d), e, x) /\ n.size = (m.size + 1) % SizeT
                            => Counted(n, d)
           /\ \A e : Loses(Cells(m, c), Cells(n, d), e) /\ n.size = (m.size - 1) % SizeT
                            => Counted(n, d)
<1> DEFINE E == Entries(c)
           G == Entries(d)
<1>1. IsFiniteSet(E) /\ Cardinality(E) \in Nat /\ IsFiniteSet(G) /\ Cardinality(G) \in Nat
  BY EntriesFact DEF Sound
<1>2. Total <= SizeT => Cardinality(E) < SizeT /\ Cardinality(G) < SizeT
  BY EntriesFact DEF Sound
<1>3. MaxCrashes = 0 /\ Total <= SizeT => m.size = Cardinality(E)
  BY DEF Counted
<1>4. DOMAIN Cells(m, c) = E /\ DOMAIN Cells(n, d) = G
  BY DEF Cells
<1>5. SizeT \in Nat /\ SizeT > 0
  BY DEF SizeT
<1> HIDE DEF E, G
<1>6. ASSUME NEW e, NEW x, Gains(Cells(m, c), Cells(n, d), e, x), n.size = (m.size + 1) % SizeT
      PROVE  Counted(n, d)
  <2>1. G = E \union {e} /\ e \notin E
    BY <1>4, <1>6 DEF Gains
  <2>2. Cardinality(G) = Cardinality(E) + 1
    BY <1>1, <2>1, FS_AddElement
  <2>3. MaxCrashes = 0 /\ Total <= SizeT => n.size = Cardinality(G)
    <3> SUFFICES ASSUME MaxCrashes = 0, Total <= SizeT PROVE (m.size + 1) % SizeT = Cardinality(G)
      BY <1>6
    <3>1. m.size + 1 \in 0 .. SizeT - 1 /\ m.size + 1 = Cardinality(G)
      BY <1>1, <1>2, <1>3, <1>5, <2>2
    <3>2. \A q \in 0 .. SizeT - 1 : q % SizeT = q
      BY <1>5
    <3> QED
      BY <3>1, <3>2
  <2> QED
    BY <2>3 DEF Counted, G
<1>7. ASSUME NEW e, Loses(Cells(m, c), Cells(n, d), e), n.size = (m.size - 1) % SizeT
      PROVE  Counted(n, d)
  <2>1. G = E \ {e} /\ e \in E
    BY <1>4, <1>7 DEF Loses
  <2>2. Cardinality(G) = Cardinality(E) - 1
    BY <1>1, <2>1, FS_RemoveElement
  <2>3. MaxCrashes = 0 /\ Total <= SizeT => n.size = Cardinality(G)
    <3> SUFFICES ASSUME MaxCrashes = 0, Total <= SizeT PROVE (m.size - 1) % SizeT = Cardinality(G)
      BY <1>7
    <3>1. m.size - 1 \in 0 .. SizeT - 1 /\ m.size - 1 = Cardinality(G)
      BY <1>1, <1>2, <1>3, <1>5, <2>2
    <3>2. \A q \in 0 .. SizeT - 1 : q % SizeT = q
      BY <1>5
    <3> QED
      BY <3>1, <3>2
  <2> QED
    BY <2>3 DEF Counted, G
<1> QED
  BY <1>6, <1>7

\* With the same ones.
LEMMA SameCounted ==
    ASSUME NEW m, NEW c, Counted(m, c), NEW n, NEW d, View(n, d) = View(m, c)
    PROVE  Counted(n, d)
<1>1. Cells(n, d) = Cells(m, c) /\ n.size = m.size
  BY DEF View
<1>2. Entries(d) = Entries(c)
  BY <1>1 DEF Cells
<1> QED
  BY <1>1, <1>2 DEF Counted

\* ht_set stores its pair or nothing,
LEMMA SetSeen ==
    ASSUME KeysDiffer, NEW m, IsOrderly(m), NEW k \in Keys, NEW v \in Values,
           ht_lookup(m, k) = 0 \/ CanAlloc(m), NEW call, call = ht_set(m, k, v)
    PROVE  /\ IsOrderly(call.mem) /\ call.ok \in BOOLEAN
           /\ Contents(call.mem) = IF call.ok THEN [Contents(m) EXCEPT ![k] = v] ELSE Contents(m)
<1> DEFINE e == ht_lookup(m, k)
           n == call.mem
           C == Contents(m)
<1>1. PICK c, U : InOrder(m, c, U)
  BY DEF IsOrderly
<1> DEFINE X == View(m, c)
<1>2. Sound(m, c, U) /\ Orderly(X) /\ Counted(m, c)
  BY <1>1 DEF InOrder
<1>3. WasSet(m, c, U, call, k, v, e)
  BY <1>2, SetFact
<1>4. /\ X.names = Names(m, c) /\ X.cells = Cells(m, c) /\ X.size = m.size
      /\ Placed(X.names)
  BY <1>2 DEF View, Orderly
<1>5. Reads(X.cells, C)
  BY <1>2, <1>4, ContentsFact
<1>6. IF e = 0 THEN Lacks(X.cells, k)
      ELSE e \in Entries(c) /\ DOMAIN X.cells = Entries(c) /\ X.cells[e][1] = k
  BY <1>2, <1>4, SeesFact
<1> HIDE DEF e, X, C
<1>7. CASE e # 0
  <2>1. call.ok = TRUE /\ Updated(m, c, U, e, v, n)
    BY <1>3, <1>7 DEF WasSet
  <2>2. PICK V : Sound(n, c, V)
    BY <2>1 DEF Updated
  <2>3. Names(n, c) = X.names /\ Renews(X.cells, Cells(n, c), e, v) /\ n.size = m.size
    BY <1>4, <2>1 DEF Updated
  <2>4. Orderly(View(n, c)) /\ Contents(n) = [C EXCEPT ![k] = v]
    BY <1>2, <1>5, <1>6, <1>7, <2>2, <2>3, RenewsSeen
  <2>5. Counted(n, c)
    BY <1>2, <2>3 DEF Counted
  <2> QED
    BY <2>1, <2>2, <2>4, <2>5 DEF IsOrderly, InOrder, C
<1>8. CASE e = 0
  <2>1. Inserted(X, Spare(m, c, U), call, k, v)
    BY <1>3, <1>8 DEF WasSet, X
  <2>2. PICK d, V :
            /\ Sound(n, d, V)
            /\ IF call.ok
               THEN /\ \E f : Enters(X, Names(n, d), Cells(n, d), k, v, f)
                    /\ n.size = (X.size + 1) % SizeT
               ELSE View(n, d) = X
    BY <2>1 DEF Inserted
  <2>3. call.ok \in BOOLEAN
    BY <2>1 DEF Inserted
  <2>4. CASE call.ok
    <3>1. PICK f : Enters(X, Names(n, d), Cells(n, d), k, v, f)
      BY <2>2, <2>4
    <3>2. Orderly(View(n, d)) /\ Contents(n) = [C EXCEPT ![k] = v]
      BY <1>2, <1>5, <1>6, <1>8, <2>2, <3>1, EntersSeen
    <3>3. Gains(Cells(m, c), Cells(n, d), f, <<k, v>>) /\ n.size = (m.size + 1) % SizeT
      BY <1>4, <2>2, <2>4, <3>1 DEF Enters
    <3>4. Counted(n, d)
      BY <1>2, <2>2, <3>3, CountedFact
    <3> QED
      BY <2>2, <2>4, <2>3, <3>2, <3>4 DEF IsOrderly, InOrder, C
  <2>5. CASE ~call.ok
    <3>1. View(n, d) = X
      BY <2>2, <2>5
    <3>2. Contents(n) = C
      BY <1>2, <1>5, <2>2, <3>1, SameSeen
    <3>3. Counted(n, d)
      BY <1>2, <3>1, SameCounted DEF X
    <3> QED
      BY <1>2, <2>2, <2>5, <2>3, <3>1, <3>2, <3>3 DEF IsOrderly, InOrder, C
  <2> QED
    BY <2>4, <2>5
<1> QED
  BY <1>7, <1>8

\* ht_delete takes out its pair, if there is one,
LEMMA DeleteSeen ==
    ASSUME KeysDiffer, NEW m, IsOrderly(m), NEW k \in Keys, LeavesChain(m, k),
           NEW call, call = ht_delete(m, k)
    PROVE  /\ IsOrderly(call.mem) /\ call.ok = (Contents(m)[k] # NoValue)
           /\ Contents(call.mem) = IF call.ok THEN [Contents(m) EXCEPT ![k] = NoValue]
                                   ELSE Contents(m)
<1> DEFINE e == ht_lookup(m, k)
           n == call.mem
           C == Contents(m)
           bk == BucketOf[k]
<1>1. PICK c, U : InOrder(m, c, U)
  BY DEF IsOrderly
<1> DEFINE X == View(m, c)
           i == KeyPosition(Names(m, c), k)
<1>2. Sound(m, c, U) /\ Orderly(X) /\ Counted(m, c)
  BY <1>1 DEF InOrder
<1>3. WasDeleted(m, c, U, call, k, e) /\ EndsChain(m, c, k)
  BY <1>2, DeleteFact, EndsFact
<1>4. /\ X.names = Names(m, c) /\ X.cells = Cells(m, c) /\ X.size = m.size
      /\ Placed(X.names) /\ DistinctKeys(X.cells)
  BY <1>2 DEF View, Orderly
<1>5. Reads(X.cells, C)
  BY <1>2, <1>4, ContentsFact
<1>6. IF e = 0 THEN Lacks(X.cells, k)
      ELSE e \in Entries(c) /\ DOMAIN X.cells = Entries(c) /\ X.cells[e][1] = k
  BY <1>2, <1>4, SeesFact
<1>7. C[k] = NoValue <=> Lacks(X.cells, k)
  BY <1>4, <1>5, LacksFact
<1>8. bk \in Buckets
  BY TableAssumption DEF TableAssumption, Strings
<1>9. e # 0 => i \in 1 .. Len(X.names[bk])
  <2>1. e # 0 => i # 0
    BY <1>2, LookupFact
  <2>2. i \in 0 .. Len(c[bk]) /\ Len(X.names[bk]) = Len(c[bk]) /\ Len(c[bk]) \in Nat
    <3>1. m \in Image /\ Tied(m, c, Starts(U))
      BY <1>2 DEF Sound, Stored
    <3>2. i \in 0 .. Len(c[bk])
      BY <3>1, PositionFact
    <3>3. AreNames(Names(m, c), m, c)
      BY <3>1, NamesFact
    <3>4. Len(c[bk]) \in Nat
      BY <1>8, <3>1, ChainsFact DEF Tied
    <3> QED
      BY <1>4, <1>8, <3>2, <3>3, <3>4 DEF AreNames
  <2> HIDE DEF i, e, X
  <2> QED
    BY <2>1, <2>2
<1>10. PICK d, V :
          /\ Sound(n, d, V)
          /\ IF e # 0
             THEN /\ Drops(X.names, Names(n, d), bk, i)
                  /\ Loses(X.cells, Cells(n, d), e) /\ n.size = (m.size - 1) % SizeT
             ELSE View(n, d) = X
  <2> HIDE DEF e
  <2> QED
    BY <1>3, <1>4 DEF WasDeleted
<1>11. call.ok = (e # 0)
  BY <1>3 DEF WasDeleted
<1> HIDE DEF e, X, C, i
<1>12. CASE e # 0
  <2>1. Orderly(View(n, d)) /\ Contents(n) = [C EXCEPT ![k] = NoValue]
    BY <1>2, <1>5, <1>6, <1>8, <1>9, <1>10, <1>12, LosesSeen
  <2>2. Loses(Cells(m, c), Cells(n, d), e)
    BY <1>4, <1>10, <1>12
  <2>3. Counted(n, d)
    BY <1>2, <1>10, <1>12, <2>2, CountedFact
  <2>4. C[k] # NoValue
    BY <1>6, <1>7, <1>12 DEF Lacks
  <2> QED
    BY <1>10, <1>11, <1>12, <2>1, <2>3, <2>4 DEF IsOrderly, InOrder, C
<1>13. CASE e = 0
  <2>1. View(n, d) = X
    BY <1>10, <1>13
  <2>2. Contents(n) = C
    BY <1>2, <1>5, <1>10, <2>1, SameSeen
  <2>3. Counted(n, d)
    BY <1>2, <2>1, SameCounted DEF X
  <2>4. C[k] = NoValue
    BY <1>6, <1>7, <1>13
  <2> QED
    BY <1>2, <1>10, <1>11, <1>13, <2>1, <2>2, <2>3, <2>4 DEF IsOrderly, InOrder, C
<1> QED
  BY <1>12, <1>13

\* a new table holds nothing,
LEMMA BareSeen ==
    ASSUME NEW m, Bare(m)
    PROVE  IsOrderly(m) /\ (KeysDiffer => Contents(m) = NoPairs)
<1>1. PICK U : Tight(m, EmptyChains, U)
  BY DEF Bare
<1> DEFINE F == Cells(m, EmptyChains)
<1>2. /\ Sound(m, EmptyChains, U) /\ m.size = 0
      /\ Names(m, EmptyChains) = EmptyChains /\ Entries(EmptyChains) = {} /\ DOMAIN F = {}
  BY <1>1, EmptyFact DEF Bare, Tight
<1>3. Placed(EmptyChains)
  <2>1. \A b \in Buckets : EmptyChains[b] = <<>>
    BY DEF EmptyChains
  <2>2. <<>> \in Seq(Keys) /\ 1 .. Len(<<>>) = {}
    OBVIOUS
  <2> QED
    BY <2>1, <2>2 DEF Placed
<1> HIDE DEF F
<1>4. DistinctKeys(F)
  BY <1>2 DEF DistinctKeys
<1>5. Orderly(View(m, EmptyChains))
  BY <1>2, <1>3, <1>4 DEF Orderly, View, F
<1>6. Counted(m, EmptyChains)
  BY <1>2, FS_EmptySet DEF Counted
<1>7. Reads(F, NoPairs)
  BY <1>2 DEF Reads, NoPairs, Lacks
<1>8. KeysDiffer => Reads(F, Contents(m))
  BY <1>2, <1>5, ContentsFact DEF F
<1> QED
  BY <1>2, <1>4, <1>5, <1>6, <1>7, <1>8, ReadsOnce DEF IsOrderly, InOrder

\* and ht_check_memory changes nothing.
LEMMA CheckSeen ==
    ASSUME KeysDiffer, NEW m, IsOrderly(m), NEW n, n = ht_check_memory(m)
    PROVE  IsOrderly(n) /\ Contents(n) = Contents(m)
<1>1. PICK c, U : InOrder(m, c, U)
  BY DEF IsOrderly
<1>2. Sound(m, c, U) /\ Orderly(View(m, c)) /\ Counted(m, c)
  BY <1>1 DEF InOrder
<1>3. View(n, c) = View(m, c) /\ \E V : Tight(n, c, V)
  BY <1>2, CheckFact
<1>4. PICK V : Sound(n, c, V)
  BY <1>3 DEF Tight
<1>5. Reads(View(m, c).cells, Contents(m))
  BY <1>2, ContentsFact DEF View
<1>6. Contents(n) = Contents(m)
  <2> DEFINE X == View(m, c)
  <2>1. View(n, c) = X /\ Orderly(X) /\ Reads(X.cells, Contents(m))
    BY <1>2, <1>3, <1>5
  <2> HIDE DEF X
  <2> QED
    BY <1>4, <2>1, SameSeen
<1>7. Counted(n, c)
  BY <1>2, <1>3, SameCounted
<1> QED
  BY <1>2, <1>3, <1>4, <1>6, <1>7 DEF IsOrderly, InOrder

MapInv == TableInv /\ IsOrderly(mem)

\* What a step is to the callers.
LEMMA MapReturns ==
    ASSUME KeysDiffer, Settled, IsOrderly(mem), Returns, UpdatesFindRoom, KeepsChains
    PROVE  IsOrderly(mem') /\ Map!Next
<1>0. status = "up" /\ seen = Contents(mem) /\ IsTable(mem) /\ IsOrderly(mem)
  BY DEF Settled
<1>1. ASSUME NEW k \in Keys, NEW v \in Values, Set(k, v)
      PROVE  IsOrderly(mem') /\ Map!Next
  <2> DEFINE call == ht_set(mem, k, v)
  <2>1. ht_lookup(mem, k) = 0 \/ CanAlloc(mem)
    BY <1>0, <1>1, FindsRoom
  <2>2. /\ IsOrderly(call.mem) /\ call.ok \in BOOLEAN
        /\ Contents(call.mem) = IF call.ok THEN [seen EXCEPT ![k] = v] ELSE seen
    BY <1>0, <2>1, SetSeen
  <2>3. Return(call, k, v)
    BY <1>1 DEF Set
  <2> HIDE DEF call
  <2>4. /\ mem' = call.mem /\ seen' = Contents(call.mem)
        /\ result' = [key |-> k, value |-> v, ok |-> call.ok]
        /\ status' = status /\ would' = would /\ crashes' = crashes
    BY <2>3 DEF Return
  <2>5. v # NoValue
    BY TableAssumption DEF TableAssumption, Strings
  <2>6. CASE call.ok
    <3>1. Map!Put(k, v)
      BY <1>0, <2>2, <2>4, <2>5, <2>6 DEF Map!Put, Map!Store
    <3> QED
      BY <2>2, <2>4, <3>1 DEF Map!Next
  <2>7. CASE ~call.ok
    <3>1. Map!Refuse(k, v)
      BY <1>0, <2>2, <2>4, <2>5, <2>7 DEF Map!Refuse
    <3> QED
      BY <2>2, <2>4, <3>1 DEF Map!Next
  <2> QED
    BY <2>6, <2>7
<1>2. ASSUME NEW k \in Keys, Delete(k)
      PROVE  IsOrderly(mem') /\ Map!Next
  <2> DEFINE call == ht_delete(mem, k)
  <2>1. LeavesChain(mem, k)
    BY <1>2 DEF KeepsChains
  <2>2. /\ IsOrderly(call.mem) /\ call.ok = (seen[k] # NoValue)
        /\ Contents(call.mem) = IF call.ok THEN [seen EXCEPT ![k] = NoValue] ELSE seen
    BY <1>0, <2>1, DeleteSeen
  <2>3. Return(call, k, NoValue)
    BY <1>2 DEF Delete
  <2> HIDE DEF call
  <2>4. /\ mem' = call.mem /\ seen' = Contents(call.mem)
        /\ result' = [key |-> k, value |-> NoValue, ok |-> call.ok]
        /\ status' = status /\ would' = would /\ crashes' = crashes
    BY <2>3 DEF Return
  <2>5. CASE call.ok
    <3>1. Map!Put(k, NoValue)
      BY <1>0, <2>2, <2>4, <2>5 DEF Map!Put, Map!Store
    <3> QED
      BY <2>2, <2>4, <3>1 DEF Map!Next
  <2>6. CASE ~call.ok
    <3>1. Map!Refuse(k, NoValue)
      BY <1>0, <2>2, <2>4, <2>6 DEF Map!Refuse
    <3> QED
      BY <2>2, <2>4, <3>1 DEF Map!Next
  <2> QED
    BY <2>5, <2>6
<1>3. ASSUME Clear PROVE IsOrderly(mem') /\ Map!Next
  <2> DEFINE call == Cleared(mem)
  <2>1. Bare(call.mem) /\ call.ok = TRUE
    BY <1>0, ClearedFact DEF IsTable, Cleared, Remade
  <2>2. Return(call, NoValue, NoValue)
    BY <1>3 DEF Clear
  <2> HIDE DEF call
  <2>3. /\ mem' = call.mem /\ seen' = NoPairs
        /\ result' = [key |-> NoValue, value |-> NoValue, ok |-> TRUE]
        /\ status' = status /\ would' = would /\ crashes' = crashes
    BY <2>1, <2>2, BareSeen DEF Return
  <2>4. Map!Clear
    BY <1>0, <2>3 DEF Map!Clear, Map!Checked, Map!Empty, NoPairs
  <2> QED
    BY <2>1, <2>3, <2>4, BareSeen DEF Map!Next
<1>4. ASSUME Check PROVE IsOrderly(mem') /\ Map!Next
  <2>1. /\ mem' = ht_check_memory(mem) /\ seen' = Contents(mem') /\ result' = Checked
        /\ status' = status /\ would' = would /\ crashes' = crashes
    BY <1>4 DEF Check
  <2>2. IsOrderly(mem') /\ seen' = seen
    BY <1>0, <2>1, CheckSeen
  <2>3. Map!Check
    BY <1>0, <2>1, <2>2 DEF Map!Check, Map!Checked, Checked
  <2> QED
    BY <2>2, <2>3 DEF Map!Next
<1> QED
  BY <1>1, <1>2, <1>3, <1>4 DEF Returns

LEMMA MapStep ==
    ASSUME MaxCrashes = 0, KeysDiffer, MapInv, [Next]_vars,
           [UpdatesFindRoom /\ KeepsChains]_vars
    PROVE  IsOrderly(mem') /\ [Map!Next]_(Map!vars)
<1>1. CASE UNCHANGED vars
  BY <1>1 DEF vars, Map!vars, MapInv
<1>2. CASE Next /\ UpdatesFindRoom /\ KeepsChains
  <2>1. Settled /\ Returns /\ IsOrderly(mem)
    BY <1>2, NobodyDies DEF MapInv, TableInv, Settled
  <2> QED
    BY <1>2, <2>1, MapReturns
<1> QED
  BY <1>1, <1>2

\* The invariant holds.
LEMMA MapHolds ==
    ASSUME MaxCrashes = 0, KeysDiffer
    PROVE  /\ Init => MapInv
           /\ MapInv /\ [Next]_vars /\ [UpdatesFindRoom /\ KeepsChains]_vars => MapInv'
<1>1. Init => IsOrderly(mem)
  BY NewPoolFact, BareSeen DEF Init
<1>2. ASSUME MapInv, [Next]_vars, [UpdatesFindRoom /\ KeepsChains]_vars PROVE MapInv'
  <2>1. TableInv'
    BY <1>2, TableStep DEF MapInv
  <2>2. IsOrderly(mem')
    BY <1>2, MapStep
  <2> QED
    BY <2>1, <2>2 DEF MapInv
<1> QED
  BY <1>1, <1>2, TableInit DEF MapInv

\* Seen from outside, the hash table in the memory of the pool is the map of
\* LmcMap: a set stores its pair or, refused, nothing; a delete takes out its
\* pair and no other and says whether there was one; a clear takes out all; a
\* memory check nothing.
THEOREM TableIsMap ==
    ASSUME MaxCrashes = 0, KeysDiffer
    PROVE  Spec /\ [][UpdatesFindRoom /\ KeepsChains]_vars => MapSpec
<1>1. Init => Map!Init
  <2> SUFFICES ASSUME Init PROVE Map!Init
    OBVIOUS
  <2>1. seen = NoPairs
    BY NewPoolFact, BareSeen DEF Init
  <2> QED
    BY <2>1 DEF Init, Map!Init, Map!Empty, NoPairs, Checked, Map!Checked
<1>2. MapInv /\ [Next]_vars /\ [UpdatesFindRoom /\ KeepsChains]_vars => [Map!Next]_(Map!vars)
  BY MapStep
<1> QED
  BY <1>1, <1>2, MapHolds, PTL DEF Spec, MapSpec, Map!Spec

\* ht->size is the number of pairs a caller finds, whatever sets are refused.
THEOREM TableSize ==
    ASSUME MaxCrashes = 0, KeysDiffer, Total <= SizeT
    PROVE  Spec /\ [][UpdatesFindRoom /\ KeepsChains]_vars => []SizeMatches
<1>1. ASSUME MapInv PROVE SizeMatches
  <2>1. PICK c, U : InOrder(mem, c, U)
    BY <1>1 DEF MapInv, IsOrderly
  <2>2. /\ Sound(mem, c, U) /\ Orderly(View(mem, c))
        /\ mem.size = Cardinality(Entries(c)) /\ seen = Contents(mem)
    BY <1>1, <2>1 DEF InOrder, Counted, MapInv, TableInv
  <2> DEFINE F == Cells(mem, c)
  <2>3. DistinctKeys(F) /\ DOMAIN F = Entries(c)
    BY <2>2 DEF Orderly, View, Cells
  <2>4. Reads(F, seen)
    BY <2>2, ContentsFact
  <2>5. IsFiniteSet(Entries(c))
    BY <2>2, EntriesFact DEF Sound
  <2> HIDE DEF F
  <2>6. Cardinality({k \in Keys : seen[k] # NoValue}) = Cardinality(DOMAIN F)
    BY <2>3, <2>4, <2>5, PairsFact
  <2> QED
    BY <2>2, <2>3, <2>6 DEF SizeMatches, Pairs
<1> QED
  BY <1>1, MapHolds, PTL DEF Spec

-----------------------------------------------------------------------------
(***************************************************************************)
(* One process that dies in ht_set of a new key.  What it leaves is redone *)
(* from the log and checked.                                               *)
(***************************************************************************)
\* More blocks in use than a table needs.
LEMMA TiedMore ==
    ASSUME NEW m, NEW c, NEW A, Tied(m, c, A), NEW B, A \subseteq B
    PROVE  Tied(m, c, B)
BY DEF Tied

\* An image with other value words has the same free list after the same call.
LEMMA ListValue ==
    ASSUME NEW m \in Image, NEW w, NEW t, t = [m EXCEPT !.value = w], NEW f
    PROVE  WithFree(t, f) = [WithFree(m, f) EXCEPT !.value = w]
<1> DEFINE Heads == {f[k].va : k \in DOMAIN f}
           At(a) == CHOOSE k \in DOMAIN f : f[k].va = a
           NextOf(k) == IF k < Len(f) THEN f[k + 1].va ELSE 0
           H(x) == [a \in Addr |-> IF a \in Heads THEN NextOf(At(a)) ELSE x.header[a]]
           B(x) == [a \in Addr |-> IF a \in Heads THEN Scrap ELSE x.body[a]]
<1>1. /\ WithFree(m, f) = [m EXCEPT !.free = f, !.header = H(m), !.body = B(m)]
      /\ WithFree(t, f) = [t EXCEPT !.free = f, !.header = H(t), !.body = B(t)]
  BY DEF WithFree
<1>2. t.header = m.header /\ t.body = m.body
  BY DEF Image
<1>3. H(t) = H(m) /\ B(t) = B(m)
  BY <1>2
<1> HIDE DEF H, B
<1>4. [t EXCEPT !.free = f, !.header = H(m), !.body = B(m)]
        = [[m EXCEPT !.free = f, !.header = H(m), !.body = B(m)] EXCEPT !.value = w]
  BY DEF Image
<1> QED
  BY <1>1, <1>3, <1>4

\* The image n without the value of entry e, as a crash leaves it that comes
\* between the store of the bucket and the store of va_value.
HasHole(t, n, e) ==
    /\ t = [n EXCEPT !.value[e] = 0]
    /\ t \in Image /\ t.free = n.free /\ t.header = n.header /\ t.body = n.body
    /\ t.bucket = n.bucket /\ t.hash = n.hash /\ t.log = n.log
    /\ t.value = [n.value EXCEPT ![e] = 0]

LEMMA HoleMade ==
    ASSUME NEW n \in Image, NEW e \in Addr, NEW t, t = [n EXCEPT !.value[e] = 0]
    PROVE  HasHole(t, n, e)
<1>1. \E w : w = [n.value EXCEPT ![e] = 0]
  OBVIOUS
<1>2. PICK w : w = [n.value EXCEPT ![e] = 0]
  BY <1>1
<1>3. w \in [Addr -> Addr] /\ t = [n EXCEPT !.value = w]
  BY <1>2, AddrFact DEF Image
<1>4. /\ t \in Image /\ t.free = n.free /\ t.header = n.header /\ t.body = n.body
      /\ t.bucket = n.bucket /\ t.hash = n.hash /\ t.log = n.log /\ t.value = w
  BY <1>3 DEF Image
<1> QED
  BY <1>2, <1>4 DEF HasHole

\* ht_lookup finds the entry all the same,
LEMMA HoleLooked ==
    ASSUME NEW n, NEW d, NEW V, Sound(n, d, V), NEW e \in Entries(d), NEW t, HasHole(t, n, e),
           NEW k \in Keys
    PROVE  ht_lookup(t, k) = ht_lookup(n, k) /\ t.body[e].key # 0
<1> DEFINE bk == BucketOf[k]
           A == Starts(V) \union {0}
           B == A \ {n.value[e]}
<1>1. n \in Image /\ Tied(n, d, Starts(V)) /\ Starts(V) \subseteq Addr \ {0} /\ Used(n, d) \subseteq Starts(V)
  BY StartsFact, UsedFact DEF Sound, Stored
<1>2. Tied(n, d, A) /\ 0 \in A /\ 0 \notin Used(n, d)
  BY <1>1, TiedMore
<1> HIDE DEF A
<1>3. Replaced(n, d, A, e, 0, t)
  BY <1>1, <1>2, ReplaceFact DEF HasHole
<1>4. Tied(t, d, B) /\ Names(t, d) = Names(n, d) /\ t \in Image
  BY <1>3 DEF Replaced, HasHole
<1> HIDE DEF B
<1>5. /\ Chain(n, bk) = d[bk] /\ Chain(t, bk) = d[bk]
      /\ Position(n, d[bk], k) = KeyPosition(Names(n, d), k)
      /\ Position(t, d[bk], k) = KeyPosition(Names(t, d), k)
  BY <1>1, <1>4, PositionFact
<1>6. ht_lookup(t, k) = ht_lookup(n, k)
  BY <1>4, <1>5 DEF ht_lookup, LookupIn
<1>7. t.body[e].key # 0
  <2>1. Ptr(n, e, 2) \in Starts(V)
    BY <1>1 DEF Tied
  <2> QED
    BY <1>1, <2>1 DEF Ptr, HasHole
<1> QED
  BY <1>6, <1>7

\* and ht_set gives it its value.
LEMMA HoleFilled ==
    ASSUME NEW n, NEW d, NEW V, Sound(n, d, V), NEW e \in Entries(d), NEW t, HasHole(t, n, e),
           NEW v \in Values, CanAlloc(t)
    PROVE  \E W : /\ Sound(Update(t, e, v).mem, d, W)
                  /\ Names(Update(t, e, v).mem, d) = Names(n, d)
                  /\ Renews(Cells(n, d), Cells(Update(t, e, v).mem, d), e, v)
<1> DEFINE b == Allocated(n)
           w == [n.value EXCEPT ![e] = 0]
           f == Carve(n.free, BlockWords).free
           x == WithFree(n, f)
           xt == WithFree(t, f)
           y == Strdup(n, v)
           o == [y EXCEPT !.value[e] = b.va]
<1>1. n \in Image /\ Stored(n, V) /\ e \in Addr
  BY DEF Sound, Stored, Entries
<1>2. t.free = n.free /\ t.value = w /\ w[e] = 0 /\ CanAlloc(n) /\ Allocated(t) = b
  BY <1>1 DEF HasHole, CanAlloc, Allocated, Image
<1>3. t = [n EXCEPT !.value = w]
  BY DEF HasHole
<1> HIDE DEF w
<1>4. xt = [x EXCEPT !.value = w]
  <2> HIDE DEF f
  <2> QED
    BY <1>1, <1>3, ListValue
<1>5. /\ y = [[x EXCEPT !.header[b.va] = b.size] EXCEPT !.body[b.va] = v]
      /\ Strdup(t, v) = [[xt EXCEPT !.header[b.va] = b.size] EXCEPT !.body[b.va] = v]
  BY <1>2 DEF Strdup, Alloc, Reserved, Granted, Allocated
<1>6. DOMAIN x = DOMAIN n /\ x.value = n.value
  BY <1>1 DEF WithFree, Image
<1> HIDE DEF x, xt, f, b, y
<1>7. [Strdup(t, v) EXCEPT !.value[e] = b.va] = o
  <2>1. DOMAIN x = {"free", "header", "body", "value", "bucket", "hash", "size", "log"}
    BY <1>1, <1>6 DEF Image
  <2>2. Strdup(t, v) = [y EXCEPT !.value = w]
    BY <1>4, <1>5, <2>1
  <2>3. "value" \in DOMAIN y /\ y.value = n.value
    BY <1>5, <1>6, <2>1
  <2>4. [w EXCEPT ![e] = b.va] = [n.value EXCEPT ![e] = b.va]
    BY <1>1 DEF w, Image
  <2> QED
    BY <2>2, <2>3, <2>4
<1>8. Update(t, e, v).mem = o
  BY <1>2, <1>7 DEF Update, Overwrite, lmc_free
<1>9. PICK W : Rewritten(n, d, V, e, v, o, W)
  BY <1>2, RewriteFact DEF y, b
<1> HIDE DEF o
<1>10. /\ Stored(o, W) /\ Tied(o, d, Starts(W) \ {n.value[e]})
       /\ Names(o, d) = Names(n, d) /\ Renews(Cells(n, d), Cells(o, d), e, v)
  BY <1>9 DEF Rewritten
<1>11. Tied(o, d, Starts(W))
  BY <1>10, TiedMore
<1> QED
  BY <1>8, <1>10, <1>11 DEF Sound

\* What a crash may leave of ht_set of a new key k and value v, in a table that
\* looked like X.
Half(X, t, k, v) ==
    /\ X.names \in [Buckets -> Seq(Keys)] /\ KeyPosition(X.names, k) = 0
    /\ Begun(X, t, k, v) \/ Made(X, t, k, v)

IsHalf(t) == \E X : \E k \in Keys, v \in Values : Half(X, t, k, v)

\* A crash in ht_set of a new key leaves that, if the log was closed and the
\* entry gets a block without a stale value.
LEMMA DiesHalf ==
    ASSUME NEW m, NEW c, NEW U, Sound(m, c, U), m.log = NoLog, NEW k \in Keys, NEW v \in Values,
           ht_lookup(m, k) = 0, Blank(m, 3), NEW t \in ht_set(m, k, v).torn
    PROVE  Half(View(m, c), t, k, v)
<1> DEFINE X == View(m, c)
           i == KeyPosition(Names(m, c), k)
<1>1. i = 0
  <2>1. i = KeyPosition(Names(m, c), k)
    OBVIOUS
  <2> HIDE DEF i
  <2> QED
    BY <2>1, LookupFact
<1>2. X.names = Names(m, c) /\ Names(m, c) \in [Buckets -> Seq(Keys)]
  BY NamesFact DEF View, AreNames, Sound
<1>3. ht_set(m, k, v) = Insert(m, k, v)
  BY DEF ht_set, SetAt
<1>4. Leaves(X, {}, Insert(m, k, v), k, v)
  BY InsertFact
<1> HIDE DEF X
<1>5. Begun(X, t, k, v) \/ Made(X, t, k, v)
  BY <1>3, <1>4 DEF Leaves
<1>6. Half(X, t, k, v)
  BY <1>1, <1>2, <1>5 DEF Half
<1> QED
  BY <1>6 DEF X

\* ht_lookup finds the entry that comes first.
LEMMA FrontFact ==
    ASSUME NEW n, NEW d, NEW V, Sound(n, d, V), NEW k \in Keys, NEW N \in [Buckets -> Seq(Keys)],
           PutsFirst(N, Names(n, d), BucketOf[k], k), NEW e, n.bucket[BucketOf[k]] = e
    PROVE  ht_lookup(n, k) = e /\ e \in Entries(d) /\ e # 0
<1> DEFINE bk == BucketOf[k]
           M == Names(n, d)
<1>1. bk \in Buckets
  BY TableAssumption DEF TableAssumption, Strings
<1>2. /\ Tied(n, d, Starts(V)) /\ M \in [Buckets -> Seq(Keys)] /\ Len(M[bk]) = Len(d[bk])
  BY <1>1, NamesFact DEF AreNames, Sound
<1>3. M[bk] = <<k>> \o N[bk] /\ N[bk] \in Seq(Keys)
  BY <1>1 DEF PutsFirst
<1> HIDE DEF M
<1>4. Len(M[bk]) \in Nat /\ Len(M[bk]) > 0 /\ M[bk][1] = k /\ DOMAIN M[bk] = 1 .. Len(M[bk])
  BY <1>3
<1>5. KeyPosition(M, k) = 1
  <2>1. 1 \in KeyHits(M, k) /\ KeyHits(M, k) \subseteq 1 .. Len(M[bk])
    BY <1>4 DEF KeyHits
  <2> DEFINE h == KeyHits(M, k)
  <2>2. h \subseteq Nat /\ 1 \in h /\ \A i \in h : i >= 1
    BY <1>4, <2>1
  <2> HIDE DEF h
  <2>3. Min(h) = 1
    <3>1. Min(h) \in h /\ \A y \in h : Min(h) <= y
      BY <2>2, MinFact
    <3>2. Min(h) \in Nat /\ Min(h) <= 1 /\ Min(h) >= 1
      BY <2>2, <3>1
    <3> QED
      BY <3>2
  <2> QED
    BY <2>2, <2>3 DEF KeyPosition, h
<1>6. ht_lookup(n, k) = d[bk][1] /\ ht_lookup(n, k) \in Entries(d) /\ ht_lookup(n, k) # 0
  <2>1. 1 = KeyPosition(Names(n, d), k) /\ 1 # 0
    BY <1>5 DEF M
  <2> QED
    BY <2>1, LookupFact
<1>7. n.bucket[bk] = d[bk][1]
  BY <1>1, <1>2, <1>4 DEF Tied, Linked, After
<1> QED
  BY <1>6, <1>7

\* There is room to redo the logged operation.
RedoRoom(t) ==
    t.log.op /\ t.log.key # 0 /\ t.log.value # 0
        => ht_lookup(t, Str(t, t.log.key)) = 0 \/ CanAlloc(t)

\* The table is what it was, or has the entry and its value.
Whether(X, m, k, v) ==
    \E d, V :
        /\ Sound(m, d, V)
        /\ View(m, d) = X \/ \E e : Enters(X, Names(m, d), Cells(m, d), k, v, e)

\* A new value for an entry that has it already.
LEMMA RenewsSame ==
    ASSUME NEW X, NEW names, NEW F, NEW G, NEW k, NEW v, NEW e,
           Enters(X, names, F, k, v, e), Renews(F, G, e, v)
    PROVE  Enters(X, names, G, k, v, e)
BY DEF Enters, Gains, Renews

\* ht_redo takes an unfinished set to its end or leaves it undone.
LEMMA RedoFact ==
    ASSUME NEW X, NEW t, NEW k \in Keys, NEW v \in Values, Half(X, t, k, v), RedoRoom(t),
           NEW m, m = ht_redo(t)
    PROVE  Whether(X, m, k, v)
<1> DEFINE open == t.log.op /\ t.log.key # 0 /\ t.log.value # 0
<1>1. CASE ~open
  <2>1. m = t
    BY <1>1 DEF ht_redo
  <2> QED
    BY <1>1, <2>1 DEF Half, Begun, Made, Whether
<1>2. CASE open
  <2> DEFINE call == ht_set(t, k, v)
             e0 == ht_lookup(t, k)
  <2>1. t.body[t.log.key] = k /\ t.body[t.log.value] = v
    BY <1>2 DEF Half, Begun, Made, Redoes
  <2>2. Str(t, t.log.key) = k /\ Str(t, t.log.value) = v
    BY <2>1 DEF Str, Strings
  <2>3. m = call.mem /\ (e0 = 0 \/ CanAlloc(t))
    BY <1>2, <2>2 DEF ht_redo, RedoRoom
  <2>4. CASE Begun(X, t, k, v)
    <3>1. PICK c, U : Sound(t, c, U) /\ View(t, c) = X
      BY <2>4 DEF Begun
    <3>2. KeyPosition(Names(t, c), k) = 0
      BY <3>1 DEF Half, View
    <3>3. e0 = 0
      BY <3>1, <3>2, LookupFact
    <3>4. WasSet(t, c, U, call, k, v, e0)
      BY <2>3, <3>1, SetFact
    <3> HIDE DEF call, e0
    <3>5. Inserted(X, Spare(t, c, U), call, k, v)
      BY <3>1, <3>3, <3>4 DEF WasSet
    <3> QED
      BY <2>3, <3>5 DEF Inserted, Whether
  <2>5. CASE Made(X, t, k, v)
    <3>1. PICK n, d, V, e :
              /\ Sound(n, d, V) /\ Enters(X, Names(n, d), Cells(n, d), k, v, e)
              /\ n.bucket[BucketOf[k]] = e
              /\ t = n \/ t = [n EXCEPT !.value[e] = 0]
      BY <2>5 DEF Made
    <3>2. ht_lookup(n, k) = e /\ e \in Entries(d) /\ e # 0
      BY <3>1, FrontFact DEF Half, Enters
    <3>3. \E W : Sound(m, d, W) /\ Names(m, d) = Names(n, d) /\ Renews(Cells(n, d), Cells(m, d), e, v)
      <4>1. CASE t = n
        <5>1. e0 = e
          BY <3>2, <4>1
        <5>2. WasSet(n, d, V, call, k, v, e)
          BY <2>3, <3>1, <3>2, <4>1, SetFact
        <5> HIDE DEF call, e0
        <5> QED
          BY <2>3, <3>2, <5>2 DEF WasSet, Updated
      <4>2. CASE t = [n EXCEPT !.value[e] = 0]
        <5>1. HasHole(t, n, e)
          BY <3>1, <3>2, <4>2, HoleMade DEF Sound, Stored, Entries
        <5>2. e0 = e /\ t.body[e].key # 0
          BY <3>1, <3>2, <5>1, HoleLooked
        <5>3. CanAlloc(t) /\ m = Update(t, e, v).mem
          BY <2>3, <3>2, <5>2 DEF ht_set, SetAt
        <5> HIDE DEF call, e0
        <5> QED
          BY <3>1, <3>2, <5>1, <5>3, HoleFilled
      <4> QED
        BY <3>1, <4>1, <4>2
    <3>4. PICK W : Sound(m, d, W) /\ Names(m, d) = Names(n, d) /\ Renews(Cells(n, d), Cells(m, d), e, v)
      BY <3>3
    <3>5. Enters(X, Names(m, d), Cells(m, d), k, v, e)
      BY <3>1, <3>4, RenewsSame
    <3> QED
      BY <3>4, <3>5 DEF Whether
  <2> QED
    BY <2>4, <2>5 DEF Half
<1> QED
  BY <1>1, <1>2

-----------------------------------------------------------------------------
\* A process dies in ht_set only, and only of a key that is not there, the block
\* of whose entry holds no stale value: the cases the log covers.
DiesInNew ==
    \A k \in Keys, v \in Values : DieInSet(k, v) => ht_lookup(mem, k) = 0 /\ Blank(mem, 3)

RedoFindsRoom == Recover => RedoRoom(mem)

LogCovers == UpdatesFindRoom /\ DiesInNew /\ RedoFindsRoom

OneCrash == MaxCrashes = 1 /\ CrashIn \subseteq {"set"}

\* The log is closed until a process dies; what that leaves can be redone.
CrashInv ==
    /\ crashes \in Nat /\ (crashes = 0 => mem.log = NoLog)
    /\ status = "up" => Settled
    /\ status = "down" => crashes # 0 /\ IsHalf(mem)
    /\ status \in {"up", "down"}

\* A call that returns leaves the log as it was, or closes it.
LEMMA LogStep ==
    ASSUME Settled, Returns, UpdatesFindRoom, mem.log = NoLog
    PROVE  mem'.log = NoLog
<1>0. seen = Contents(mem) /\ IsTable(mem)
  BY DEF Settled
<1>1. PICK c, U : Sound(mem, c, U)
  BY <1>0 DEF IsTable
<1>2. ASSUME NEW k \in Keys, NEW v \in Values, Set(k, v) PROVE mem'.log = NoLog
  <2> DEFINE e == ht_lookup(mem, k)
             call == ht_set(mem, k, v)
  <2>1. e = 0 \/ CanAlloc(mem)
    BY <1>0, <1>2, FindsRoom
  <2>2. WasSet(mem, c, U, call, k, v, e)
    BY <1>1, <2>1, SetFact
  <2>3. mem' = call.mem
    BY <1>2 DEF Set, Return
  <2> HIDE DEF call, e
  <2> QED
    BY <2>2, <2>3 DEF WasSet, Updated, Inserted
<1>3. ASSUME NEW k \in Keys, Delete(k) PROVE mem'.log = NoLog
  <2> DEFINE e == ht_lookup(mem, k)
             call == ht_delete(mem, k)
  <2>1. WasDeleted(mem, c, U, call, k, e)
    BY <1>1, DeleteFact
  <2>2. mem' = call.mem
    BY <1>3 DEF Delete, Return
  <2> HIDE DEF call, e
  <2> QED
    BY <2>1, <2>2 DEF WasDeleted
<1>4. ASSUME Clear PROVE mem'.log = NoLog
  <2>1. mem' = Cleared(mem).mem
    BY <1>4 DEF Clear, Return
  <2> QED
    BY <1>1, <2>1, ClearedFact
<1>5. ASSUME Check PROVE mem'.log = NoLog
  <2>1. mem' = ht_check_memory(mem)
    BY <1>5 DEF Check
  <2> QED
    BY <1>1, <2>1, CheckFact
<1> QED
  BY <1>2, <1>3, <1>4, <1>5 DEF Returns

\* Nobody dies in a delete or a clear.
LEMMA OnlySetsDie ==
    ASSUME OneCrash
    PROVE  (\A k \in Keys : ~DieInDelete(k)) /\ ~DieInClear
<1>1. "delete" \notin CrashIn /\ "clear" \notin CrashIn
  BY DEF OneCrash
<1>2. \A images : /\ Torn("delete", images) = {} /\ Torn("clear", images) = {}
  BY <1>1 DEF Torn
<1>3. ASSUME NEW m, NEW i, NEW chain, NEW k PROVE DeleteAt(m, chain, i, k).torn = {}
  BY <1>2 DEF DeleteAt, FreeKey, FreeValue, FreeEntry, Uncount
<1>4. \A k : ht_delete(mem, k).torn = {}
  BY <1>3 DEF ht_delete, DeleteIn
<1>5. Cleared(mem).torn = {}
  BY <1>2 DEF Cleared, Remade
<1> QED
  BY <1>4, <1>5 DEF DieInDelete, DieInClear, Die

\* A process that dies leaves something the log covers.
LEMMA DieStep ==
    ASSUME OneCrash, CrashInv, DiesInNew, NEW k \in Keys, NEW v \in Values, DieInSet(k, v)
    PROVE  CrashInv' /\ \A c, U : Sound(mem, c, U) => Half(View(mem, c), mem', k, v)
<1>1. /\ status = "up" /\ mem' \in ht_set(mem, k, v).torn
      /\ crashes < MaxCrashes /\ crashes' = crashes + 1 /\ status' = "down"
  BY DEF DieInSet, Die
<1>2. crashes = 0 /\ mem.log = NoLog /\ IsTable(mem) /\ crashes' = 1
  BY <1>1 DEF CrashInv, OneCrash, Settled
<1>3. ht_lookup(mem, k) = 0 /\ Blank(mem, 3)
  BY DEF DiesInNew
<1>4. ASSUME NEW c, NEW U, Sound(mem, c, U) PROVE Half(View(mem, c), mem', k, v)
  <2> DEFINE t == mem'
  <2>1. t \in ht_set(mem, k, v).torn
    BY <1>1
  <2> HIDE DEF t
  <2>2. Half(View(mem, c), t, k, v)
    BY <1>2, <1>3, <1>4, <2>1, DiesHalf
  <2> QED
    BY <2>2 DEF t
<1>5. PICK c, U : Sound(mem, c, U)
  BY <1>2 DEF IsTable
<1>6. IsHalf(mem')
  BY <1>4, <1>5 DEF IsHalf
<1>7. CrashInv'
  BY <1>1, <1>2, <1>6 DEF CrashInv
<1> QED
  BY <1>4, <1>7

\* The recovery succeeds: the table is as it was or has the entry, and no block
\* is lost.
LEMMA RecoverStep ==
    ASSUME Recover, RedoFindsRoom, NEW X, NEW k \in Keys, NEW v \in Values, Half(X, mem, k, v)
    PROVE  /\ status' = "up" /\ seen' = Contents(mem') /\ would' = {} /\ result' = Checked
           /\ crashes' = crashes
           /\ Whether(X, mem', k, v) /\ IsTight(mem')
<1> DEFINE m == ht_redo(mem)
           n == ht_check_memory(m)
<1>1. RedoRoom(mem)
  BY DEF RedoFindsRoom
<1>2. Whether(X, m, k, v)
  BY <1>1, RedoFact
<1>3. Repaired(m) \/ GivenUp(m)
  BY DEF Recover
<1> HIDE DEF m
<1>4. PICK d, V : /\ Sound(m, d, V)
                  /\ View(m, d) = X \/ \E e : Enters(X, Names(m, d), Cells(m, d), k, v, e)
  BY <1>2 DEF Whether
<1>5. Consistent(m)
  BY <1>4, ConsistentFact DEF Sound
<1>6. Repaired(m)
  BY <1>3, <1>5 DEF GivenUp
<1>7. View(n, d) = View(m, d) /\ \E W : Tight(n, d, W)
  BY <1>4, CheckFact
<1> HIDE DEF n
<1>8. Names(n, d) = Names(m, d) /\ Cells(n, d) = Cells(m, d)
  BY <1>7 DEF View
<1>9. Whether(X, n, k, v) /\ IsTight(n)
  BY <1>4, <1>7, <1>8 DEF Whether, IsTight, Tight
<1>10. mem' = n
  BY <1>6 DEF Repaired, n
<1> QED
  BY <1>6, <1>9, <1>10 DEF Repaired

\* Each step keeps what can be redone redoable.
LEMMA CrashStep ==
    ASSUME OneCrash
    PROVE  CrashInv /\ [Next]_vars /\ [LogCovers]_vars => CrashInv'
<1> SUFFICES ASSUME CrashInv, [Next]_vars, [LogCovers]_vars PROVE CrashInv'
  OBVIOUS
<1>1. CASE UNCHANGED vars
  BY <1>1 DEF vars, CrashInv, Settled
<1>2. CASE Next /\ LogCovers
  <2>0. UpdatesFindRoom /\ DiesInNew /\ RedoFindsRoom
    BY <1>2 DEF LogCovers
  <2>1. CASE Returns
    <3>1. Settled
      BY <2>1 DEF CrashInv, Returns, Set, Delete, Clear, Check
    <3>2. Settled' /\ crashes' = crashes
      BY <2>0, <2>1, <3>1, ReturnStep
    <3>3. status' = "up"
      BY <3>2 DEF Settled
    <3>4. crashes = 0 => mem'.log = NoLog
      BY <2>0, <2>1, <3>1, LogStep DEF CrashInv
    <3> QED
      BY <3>2, <3>3, <3>4 DEF CrashInv
  <2>2. ASSUME NEW k \in Keys, NEW v \in Values, DieInSet(k, v) PROVE CrashInv'
    BY <2>0, <2>2, DieStep
  <2>3. CASE Recover
    <3>1. status = "down" /\ IsHalf(mem) /\ crashes \in Nat /\ crashes # 0
      BY <2>3 DEF Recover, CrashInv
    <3>2. PICK X : \E k \in Keys, v \in Values : Half(X, mem, k, v)
      BY <3>1 DEF IsHalf
    <3>3. PICK k \in Keys, v \in Values : Half(X, mem, k, v)
      BY <3>2
    <3>4. /\ status' = "up" /\ seen' = Contents(mem') /\ crashes' = crashes
          /\ Whether(X, mem', k, v) /\ IsTight(mem')
      BY <2>0, <2>3, <3>3, RecoverStep
    <3>5. Settled'
      BY <3>4 DEF Settled, Whether, IsTable
    <3> QED
      BY <3>1, <3>4, <3>5 DEF CrashInv
  <2> QED
    BY <1>2, <2>1, <2>2, <2>3, OnlySetsDie DEF Next, Returns
<1> QED
  BY <1>1, <1>2

LEMMA CrashHolds ==
    ASSUME OneCrash
    PROVE  Spec /\ [][LogCovers]_vars => []CrashInv
<1>1. Init => CrashInv
  <2> SUFFICES ASSUME Init PROVE CrashInv
    OBVIOUS
  <2>1. TableInv /\ mem.log = NoLog
    BY TableInit, NewPoolFact DEF Init
  <2> QED
    BY <2>1 DEF TableInv, CrashInv, Settled
<1>2. CrashInv /\ [Next]_vars /\ [LogCovers]_vars => CrashInv'
  BY CrashStep
<1> QED
  BY <1>1, <1>2, PTL DEF Spec

\* __local_memcache_check_namespace never gives up on what a process left that
\* died in ht_set of a new key.
THEOREM CrashNeverLost ==
    ASSUME OneCrash
    PROVE  Spec /\ [][LogCovers]_vars => []NeverLost
<1>1. CrashInv => NeverLost
  BY DEF CrashInv, NeverLost
<1> QED
  BY <1>1, CrashHolds, PTL

\* After it the table is one ht_check_memory is content with, and no word of the
\* pool is lost: the blocks of an insert that was not redone are free again.
THEOREM CrashReclaimed ==
    ASSUME OneCrash
    PROVE  Spec /\ [][LogCovers]_vars => []PoolConsistent /\ []CheckReclaims
<1>1. ASSUME CrashInv, status = "up" PROVE Consistent(mem) /\ (result = Checked => Whole)
  <2>1. PICK c, U : Sound(mem, c, U)
    BY <1>1 DEF CrashInv, Settled, IsTable
  <2>2. Consistent(mem)
    BY <2>1, ConsistentFact DEF Sound
  <2>3. ASSUME result = Checked PROVE Whole
    <3>1. PICK d, V : Tight(mem, d, V)
      BY <1>1, <2>3 DEF CrashInv, Settled, IsTight
    <3> QED
      BY <3>1, TightFact DEF Whole, Held
  <2> QED
    BY <2>2, <2>3
<1>2. CrashInv => PoolConsistent /\ CheckReclaims
  BY <1>1 DEF PoolConsistent, CheckReclaims
<1> QED
  BY <1>2, CrashHolds, PTL

\* What the callers may see after the recovery.
Pending ==
    \E X : \E k \in Keys, v \in Values :
        /\ Half(X, mem, k, v)
        /\ Orderly(X) /\ Reads(X.cells, seen) /\ Lacks(X.cells, k)
        /\ would = {seen, [seen EXCEPT ![k] = v]}

MapCrashInv ==
    /\ CrashInv
    /\ status = "up" => IsOrderly(mem)
    /\ status = "down" => Pending

LEMMA MapCrashStep ==
    ASSUME OneCrash, KeysDiffer, MapCrashInv, [Next]_vars, [LogCovers /\ KeepsChains]_vars
    PROVE  MapCrashInv' /\ [Map!Next]_(Map!vars)
<1>1. CASE UNCHANGED vars
  BY <1>1 DEF vars, Map!vars, MapCrashInv, CrashInv, Settled, Pending
<1>2. CASE Next /\ LogCovers /\ KeepsChains
  <2>0. CrashInv /\ UpdatesFindRoom /\ DiesInNew /\ RedoFindsRoom /\ KeepsChains
    BY <1>2 DEF LogCovers, MapCrashInv
  <2>1. CrashInv'
    BY <1>2, CrashStep DEF MapCrashInv
  <2>2. CASE Returns
    <3>1. status = "up"
      BY <2>2 DEF Returns, Set, Delete, Clear, Check
    <3>2. Settled /\ IsOrderly(mem)
      BY <3>1 DEF MapCrashInv, CrashInv
    <3>3. IsOrderly(mem') /\ Map!Next
      BY <2>0, <2>2, <3>2, MapReturns
    <3>4. status' = "up"
      BY <2>0, <2>2, <3>2, ReturnStep DEF Settled
    <3> QED
      BY <2>1, <3>3, <3>4 DEF MapCrashInv
  <2>3. ASSUME NEW k \in Keys, NEW v \in Values, DieInSet(k, v)
        PROVE  MapCrashInv' /\ Map!Next
    <3>1. /\ status = "up" /\ crashes < MaxCrashes /\ crashes' = crashes + 1 /\ status' = "down"
          /\ would' = {seen, [seen EXCEPT ![k] = v]} /\ seen' = seen /\ result' = result
      BY <2>3 DEF DieInSet, Die
    <3>2. seen = Contents(mem) /\ IsOrderly(mem)
      BY <3>1 DEF MapCrashInv, CrashInv, Settled
    <3>3. PICK c, U : InOrder(mem, c, U)
      BY <3>2 DEF IsOrderly
    <3>4. Sound(mem, c, U) /\ Orderly(View(mem, c))
      BY <3>3 DEF InOrder
    <3>5. View(mem, c).cells = Cells(mem, c) /\ View(mem, c).names = Names(mem, c)
      BY DEF View
    <3>6. Reads(Cells(mem, c), seen)
      BY <3>2, <3>4, ContentsFact
    <3>7. Lacks(Cells(mem, c), k)
      <4> DEFINE e == ht_lookup(mem, k)
      <4>1. e = 0
        BY <2>0, <2>3 DEF DiesInNew
      <4>2. Placed(Names(mem, c))
        BY <3>4, <3>5 DEF Orderly
      <4>3. e = ht_lookup(mem, k)
        OBVIOUS
      <4> HIDE DEF e
      <4> QED
        BY <3>4, <4>1, <4>2, <4>3, SeesFact
    <3>8. Half(View(mem, c), mem', k, v)
      BY <2>0, <2>3, <3>4, DieStep
    <3>9. Pending'
      <4> DEFINE X == View(mem, c)
      <4>1. Half(X, mem', k, v) /\ Orderly(X) /\ Reads(X.cells, seen) /\ Lacks(X.cells, k)
        BY <3>4, <3>5, <3>6, <3>7, <3>8
      <4> HIDE DEF X
      <4> QED
        BY <3>1, <4>1 DEF Pending
    <3>10. Map!Crash(Map!Store(seen, k, v))
      BY <3>1 DEF Map!Crash, Map!Store
    <3> QED
      BY <2>1, <3>1, <3>9, <3>10 DEF MapCrashInv, Map!Next
  <2>4. CASE Recover
    <3>1. status = "down" /\ Pending
      BY <2>0, <2>4 DEF Recover, MapCrashInv, CrashInv
    <3>2. PICK X : \E k \in Keys, v \in Values :
              /\ Half(X, mem, k, v)
              /\ Orderly(X) /\ Reads(X.cells, seen) /\ Lacks(X.cells, k)
              /\ would = {seen, [seen EXCEPT ![k] = v]}
      BY <3>1 DEF Pending
    <3>3. PICK k \in Keys, v \in Values :
              /\ Half(X, mem, k, v)
              /\ Orderly(X) /\ Reads(X.cells, seen) /\ Lacks(X.cells, k)
              /\ would = {seen, [seen EXCEPT ![k] = v]}
      BY <3>2
    <3>4. /\ status' = "up" /\ seen' = Contents(mem') /\ would' = {} /\ result' = Checked
          /\ crashes' = crashes /\ Whether(X, mem', k, v)
      BY <2>0, <2>4, <3>3, RecoverStep
    <3>5. IsOrderly(mem') /\ Contents(mem') \in would
      <4> DEFINE n == mem'
      <4>1. PICK d, V : /\ Sound(n, d, V)
                        /\ View(n, d) = X \/ \E e : Enters(X, Names(n, d), Cells(n, d), k, v, e)
        BY <3>4 DEF Whether
      <4> HIDE DEF n
      <4>2. Counted(n, d)
        BY DEF Counted, OneCrash
      <4>3. CASE View(n, d) = X
        <5>1. Contents(n) = seen
          BY <3>3, <4>1, <4>3, SameSeen
        <5> QED
          BY <3>3, <4>1, <4>2, <4>3, <5>1 DEF IsOrderly, InOrder, n
      <4>4. CASE \E e : Enters(X, Names(n, d), Cells(n, d), k, v, e)
        <5>1. Orderly(View(n, d)) /\ Contents(n) = [seen EXCEPT ![k] = v]
          BY <3>3, <4>1, <4>4, EntersSeen
        <5> QED
          BY <3>3, <4>1, <4>2, <5>1 DEF IsOrderly, InOrder, n
      <4> QED
        BY <4>1, <4>3, <4>4
    <3>6. Map!Recover
      BY <3>1, <3>4, <3>5 DEF Map!Recover, Map!Checked, Checked
    <3> QED
      BY <2>1, <3>4, <3>5, <3>6 DEF MapCrashInv, Map!Next
  <2> QED
    BY <1>2, <2>2, <2>3, <2>4, OnlySetsDie DEF Next, Returns
<1> QED
  BY <1>1, <1>2

\* Seen from outside, the hash table with a process that dies in ht_set of a new
\* key is the map of LmcMap still: after the recovery the pair is there or is
\* not there, and every other pair is what it was.
THEOREM CrashIsMap ==
    ASSUME OneCrash, KeysDiffer
    PROVE  Spec /\ [][LogCovers /\ KeepsChains]_vars => MapSpec
<1>1. Init => Map!Init /\ MapCrashInv
  <2> SUFFICES ASSUME Init PROVE Map!Init /\ MapCrashInv
    OBVIOUS
  <2>1. seen = NoPairs /\ IsOrderly(mem)
    BY NewPoolFact, BareSeen DEF Init
  <2>2. TableInv /\ mem.log = NoLog
    BY TableInit, NewPoolFact DEF Init
  <2>3. CrashInv
    BY <2>2 DEF TableInv, CrashInv, Settled
  <2>4. status # "down"
    BY DEF Init
  <2>5. Map!Init
    BY <2>1 DEF Init, Map!Init, Map!Empty, NoPairs, Checked, Map!Checked
  <2> QED
    BY <2>1, <2>3, <2>4, <2>5 DEF MapCrashInv
<1>2. MapCrashInv /\ [Next]_vars /\ [LogCovers /\ KeepsChains]_vars
          => MapCrashInv' /\ [Map!Next]_(Map!vars)
  BY MapCrashStep
<1> QED
  BY <1>1, <1>2, PTL DEF Spec, MapSpec, Map!Spec

=============================================================================
