---------------------------- MODULE LmcPool_proofs ----------------------------
(***************************************************************************)
(* Files and handles: for any number of processes, files, sizes and        *)
(* crashes, no call works on a torn pool, the semaphore of the namespace   *)
(* is never posted once too often, and the handles of a file that all open *)
(* with one size, and none with a min_alloc_size above the size of its     *)
(* table, know where that is.                                              *)
(***************************************************************************)
EXTENDS LmcPool, FiniteSetTheorems, TLAPS

\* OneToken, as the steps use it.
Sole ==
    /\ sem <= 1
    /\ sem = 1 => \A p \in Procs : ~Holds(p)
    /\ \A p, q \in Procs : Holds(p) /\ Holds(q) => p = q

\* OneTable, as the steps use it.
OpenedAs(q, s) == q.opened = {s} /\ \A min \in q.mins : min <= HashSize

\* A torn pool is locked, whichever file it is in.  With one size and no
\* min_alloc_size above it, the table is the last block, and no process has
\* written in the wrong place.
FileFits(q) ==
    /\ q.state = "blank" <=> q.opened = {}
    /\ q.state = "blank" => ~q.locked /\ q.length = 0
    /\ q.state = "torn" => q.locked
    /\ IsFiniteSet(q.opened)
    /\ \A s \in q.opened : s <= q.length
    /\ q.state # "blank" => q.total_size \in q.opened
    /\ q.min_alloc_size \in q.mins
    /\ \A s \in Sizes :
           OpenedAs(q, s) => /\ q.state # "blank" => q.va_hash = s - HashSize
                             /\ q.length < IntRange => q.state # "spoiled"

\* What a process in a call has locked is not torn.
HolderFits(p) == Holds(p) => Open(p) /\ Mapped(p).locked /\ Mapped(p).state # "torn"

HandleFits(p) ==
    Open(p) => /\ handle[p].size \in Mapped(p).opened
               /\ \A s \in Sizes : OpenedAs(Mapped(p), s) => handle[p].va_hash = s - HashSize

PoolInv ==
    /\ TypeOK
    /\ Sole
    /\ \A f \in Files : FileFits(pool[f])
    /\ \A p \in Procs : HolderFits(p) /\ HandleFits(p)

-----------------------------------------------------------------------------
\* The maximum of two numbers.
LEMMA MaxFact ==
    ASSUME NEW a \in Nat, NEW b \in Nat
    PROVE  Max({a, b}) \in {a, b} /\ Max({a, b}) >= a /\ Max({a, b}) >= b
<1>1. \E x \in {a, b} : \A y \in {a, b} : y <= x
  OBVIOUS
<1> QED
  BY <1>1 DEF Max

\* The table is somewhere in the pool; with no min_alloc_size above its size, it
\* is the last block.
LEMMA TableAtFact ==
    ASSUME NEW s \in Sizes, NEW min \in MinSizes
    PROVE  /\ TableAt(s, min) \in Nat
           /\ min <= HashSize => TableAt(s, min) = s - HashSize /\ TableAt(s, min) # 0
<1>1. /\ s \in Nat /\ min \in Nat /\ HashSize \in Nat \ {0} /\ MdSize \in Nat \ {0}
      /\ ChunkSize \in Nat /\ MdSize + ChunkSize + HashSize <= s
  BY PoolAssumption
<1> DEFINE t == Max({min, HashSize})
<1>2. t \in Nat /\ (min <= HashSize => t = HashSize)
  BY <1>1, MaxFact
<1> HIDE DEF t
<1> QED
  BY <1>1, <1>2 DEF TableAt, t

\* lmc_init_memory with a size the file was opened with leaves a file as it
\* should be, whatever was there: the table is below that size.
LEMMA InitialisedFact ==
    ASSUME NEW q \in Pool, NEW s \in Sizes, s \in q.opened, IsFiniteSet(q.opened),
           \A r \in q.opened : r <= q.length, q.min_alloc_size \in q.mins
    PROVE  LET w == Initialised(q, s)
           IN  /\ w \in Pool /\ FileFits(w)
               /\ w.opened = q.opened /\ w.mins = q.mins
               /\ w.state \in {"ready", "spoiled"} /\ ~w.locked
               /\ \A r \in Sizes : OpenedAs(w, r) => w.va_hash = r - HashSize /\ w.va_hash # 0
<1> DEFINE w == Initialised(q, s)
           va == TableAt(s, q.min_alloc_size)
<1>1. s \in Nat /\ HashSize \in Nat /\ q.min_alloc_size \in MinSizes /\ va \in Nat
  BY PoolAssumption, TableAtFact DEF Pool
<1>2. q.min_alloc_size <= HashSize => va = s - HashSize /\ va # 0
  BY TableAtFact DEF Pool
<1> HIDE DEF va
<1>3. w = [q EXCEPT !.total_size = s, !.va_hash = va, !.locked = FALSE,
                    !.state = IF va = 0 THEN "spoiled" ELSE "ready"]
  BY DEF Initialised, va
<1> HIDE DEF w
<1>4. /\ w.opened = q.opened /\ w.mins = q.mins /\ w.min_alloc_size = q.min_alloc_size
      /\ w.length = q.length /\ w.total_size = s /\ w.va_hash = va /\ ~w.locked
      /\ w.state = IF va = 0 THEN "spoiled" ELSE "ready"
  BY <1>3 DEF Pool
<1>5. w \in Pool
  BY <1>1, <1>3 DEF Pool
<1>6. ASSUME NEW r \in Sizes, OpenedAs(w, r) PROVE w.va_hash = r - HashSize /\ w.va_hash # 0
  BY <1>2, <1>4, <1>6 DEF OpenedAs
<1>7. FileFits(w)
  BY <1>4, <1>6 DEF FileFits
<1> QED
  BY <1>4, <1>5, <1>6, <1>7 DEF w

\* A zero byte at a place that is not below a size the file was opened with
\* changes nothing that is there.
LEMMA ZeroByteFact ==
    ASSUME NEW q \in Pool, NEW n \in Nat, NEW w \in ZeroByteAt(q, n), FileFits(q),
           \A s \in Sizes : OpenedAs(q, s) /\ q.length < IntRange => s <= n
    PROVE  /\ w \in Pool /\ FileFits(w)
           /\ w.opened = q.opened /\ w.mins = q.mins /\ w.locked = q.locked
           /\ w.length = q.length /\ w.va_hash = q.va_hash
           /\ w.state = "blank" <=> q.state = "blank"
<1>1. \/ w = q
      \/ w = [q EXCEPT !.state = "spoiled"] /\ n < q.total_size /\ q.state = "ready"
  BY DEF ZeroByteAt
<1>2. CASE w = q
  BY <1>2
<1>3. CASE w = [q EXCEPT !.state = "spoiled"] /\ n < q.total_size /\ q.state = "ready"
  <2>1. /\ w.opened = q.opened /\ w.mins = q.mins /\ w.locked = q.locked
        /\ w.length = q.length /\ w.va_hash = q.va_hash /\ w.total_size = q.total_size
        /\ w.min_alloc_size = q.min_alloc_size /\ w.state = "spoiled"
    BY <1>3 DEF Pool
  <2>2. w \in Pool
    BY <1>3 DEF Pool
  <2>3. ASSUME NEW s \in Sizes, OpenedAs(q, s), q.length < IntRange PROVE FALSE
    <3>1. q.total_size = s /\ s \in Nat
      BY <1>3, <2>3, PoolAssumption DEF FileFits, OpenedAs
    <3> QED
      BY <1>3, <2>3, <3>1
  <2> QED
    BY <1>3, <2>1, <2>2, <2>3 DEF FileFits, OpenedAs
<1> QED
  BY <1>1, <1>2, <1>3

\* Growing a file to a size that it has adds that size to those it was opened
\* with, and spoils it only when that is another one.
LEMMA StretchedFact ==
    ASSUME NEW q \in Pool, NEW s \in Sizes, FileFits(q), NEW w \in Stretched(q, s)
    PROVE  /\ w \in Pool
           /\ w.opened = q.opened \union {s} /\ w.mins = q.mins
           /\ w.locked = q.locked
           /\ IsFiniteSet(w.opened)
           /\ \A r \in w.opened : r <= w.length
           /\ w.min_alloc_size \in w.mins
           /\ w.state = "blank" <=> q.state = "blank"
           /\ w.state # "blank" => FileFits(w)
<1> DEFINE g == [q EXCEPT !.length = Max({@, s}), !.opened = @ \union {s}]
<1>1. s \in Nat /\ Max({q.length, s}) \in Nat /\ Max({q.length, s}) >= q.length
      /\ Max({q.length, s}) >= s
  BY PoolAssumption, MaxFact DEF Pool
<1>2. g \in Pool
  BY <1>1 DEF Pool
<1>3. /\ g.opened = q.opened \union {s} /\ g.locked = q.locked /\ g.state = q.state
      /\ g.total_size = q.total_size /\ g.va_hash = q.va_hash /\ g.mins = q.mins
      /\ g.min_alloc_size = q.min_alloc_size /\ g.length >= q.length /\ g.length >= s
  BY <1>1 DEF Pool
<1>4. w \in ZeroByteAt(g, s)
  BY DEF Stretched
<1> HIDE DEF g
<1>5. /\ IsFiniteSet(g.opened)
      /\ \A r \in g.opened : r <= g.length
      /\ g.min_alloc_size \in g.mins
  <2>1. IsFiniteSet(g.opened)
    BY <1>3, FS_AddElement DEF FileFits
  <2>2. ASSUME NEW r \in g.opened PROVE r <= g.length
    <3>1. r = s \/ (r \in q.opened /\ r <= q.length)
      BY <1>3 DEF FileFits
    <3>2. r \in Nat /\ q.length \in Nat /\ g.length \in Nat
      BY <1>2, PoolAssumption DEF Pool
    <3> QED
      BY <1>1, <1>3, <3>1, <3>2
  <2> QED
    BY <1>3, <2>1, <2>2 DEF FileFits
<1>6. CASE q.state = "blank"
  <2>1. w = g
    BY <1>3, <1>4, <1>6 DEF ZeroByteAt
  <2> QED
    BY <1>2, <1>3, <1>5, <1>6, <2>1 DEF FileFits
<1>7. CASE q.state # "blank"
  <2>1. ASSUME NEW t \in Sizes, OpenedAs(g, t) PROVE OpenedAs(q, t) /\ s = t
    BY <1>3, <1>7, <2>1 DEF FileFits, OpenedAs
  <2>2. \A t \in Sizes : OpenedAs(g, t) =>
            g.va_hash = t - HashSize /\ (g.length < IntRange => g.state # "spoiled")
    <3>1. ASSUME NEW t \in Sizes, OpenedAs(g, t)
          PROVE  g.va_hash = t - HashSize /\ (g.length < IntRange => g.state # "spoiled")
      <4>1. OpenedAs(q, t)
        BY <2>1, <3>1
      <4>2. q.va_hash = t - HashSize /\ (q.length < IntRange => q.state # "spoiled")
        BY <1>7, <4>1 DEF FileFits
      <4>3. g.length < IntRange => q.length < IntRange
        BY <1>2, <1>3, PoolAssumption DEF Pool
      <4> QED
        BY <1>3, <4>2, <4>3
    <3> QED
      BY <3>1
  <2>3. FileFits(g)
    BY <1>3, <1>5, <1>7, <2>2 DEF FileFits
  <2>4. \A t \in Sizes : OpenedAs(g, t) /\ g.length < IntRange => t <= s
    BY <1>1, <2>1
  <2>5. /\ w \in Pool /\ FileFits(w)
        /\ w.opened = g.opened /\ w.mins = g.mins /\ w.locked = g.locked
        /\ w.state = "blank" <=> g.state = "blank"
    BY <1>1, <1>2, <1>4, <2>3, <2>4, ZeroByteFact
  <2> QED
    BY <1>3, <1>7, <2>5 DEF FileFits
<1> QED
  BY <1>6, <1>7

\* What local_memcache_create leaves is a file with a table, or without one.
LEMMA AttachedFact ==
    ASSUME NEW q \in Pool, NEW s \in Sizes, FileFits(q), NEW w \in Attached(q, s)
    PROVE  /\ w \in Pool
           /\ FileFits(w)
           /\ w.opened = q.opened \union {s} /\ w.mins = q.mins
           /\ ~w.locked => ~q.locked
           /\ w.state # "blank"
<1>1. PICK v \in Stretched(q, s) : w = IF v.state = "blank" THEN Initialised(v, s) ELSE v
  BY Zenon DEF Attached
<1>2. /\ v \in Pool
      /\ v.opened = q.opened \union {s} /\ v.mins = q.mins
      /\ v.locked = q.locked
      /\ IsFiniteSet(v.opened)
      /\ \A r \in v.opened : r <= v.length
      /\ v.min_alloc_size \in v.mins
      /\ v.state = "blank" <=> q.state = "blank"
      /\ v.state # "blank" => FileFits(v)
  BY StretchedFact
<1>3. CASE v.state # "blank"
  BY <1>1, <1>2, <1>3
<1>4. CASE v.state = "blank"
  <2>1. /\ w \in Pool /\ FileFits(w) /\ w.opened = v.opened /\ w.mins = v.mins
        /\ w.state \in {"ready", "spoiled"}
    BY <1>1, <1>2, <1>4, InitialisedFact
  <2> QED
    BY <1>2, <1>4, <2>1 DEF FileFits
<1> QED
  BY <1>3, <1>4

\* Another min_alloc_size can only mean that less is claimed of a file.
LEMMA MinStoredFact ==
    ASSUME NEW q \in Pool, NEW min \in MinSizes, FileFits(q), q.state # "blank"
    PROVE  LET w == lmc_set_min_alloc_size(q, min)
           IN  /\ w \in Pool /\ FileFits(w)
               /\ w.opened = q.opened /\ q.mins \subseteq w.mins
               /\ w.va_hash = q.va_hash /\ w.state = q.state /\ w.locked = q.locked
<1> DEFINE w == lmc_set_min_alloc_size(q, min)
<1>1. w = [q EXCEPT !.min_alloc_size = min, !.mins = @ \union {min}]
  BY DEF lmc_set_min_alloc_size
<1> HIDE DEF w
<1>2. /\ w.opened = q.opened /\ w.mins = q.mins \union {min} /\ w.min_alloc_size = min
      /\ w.va_hash = q.va_hash /\ w.state = q.state /\ w.locked = q.locked
      /\ w.length = q.length /\ w.total_size = q.total_size
  BY <1>1 DEF Pool
<1>3. w \in Pool
  BY <1>1 DEF Pool
<1>4. \A s \in Sizes : OpenedAs(w, s) => OpenedAs(q, s)
  BY <1>2 DEF OpenedAs
<1>5. FileFits(w)
  BY <1>2, <1>4 DEF FileFits
<1> QED
  BY <1>2, <1>3, <1>5 DEF w

\* A process that dies in a call leaves a file as it should be: torn, perhaps,
\* but locked.
LEMMA RemainsFact ==
    ASSUME NEW q \in Pool, FileFits(q), q.locked, q.state # "blank",
           NEW s \in Sizes, s \in q.opened,
           NEW l \in {"in", "clear", "close"}, NEW w \in Remains(q, l, s)
    PROVE  w \in Pool /\ FileFits(w) /\ w.opened = q.opened /\ w.mins = q.mins /\ w.locked
<1> DEFINE new == Initialised(q, s)
<1>1. /\ new \in Pool /\ new.opened = q.opened /\ new.mins = q.mins
      /\ \A r \in Sizes : OpenedAs(new, r) => new.va_hash = r - HashSize
  BY InitialisedFact DEF FileFits
<1>2. new.total_size = s /\ new.total_size \in Nat /\ new.va_hash \in Nat
  BY <1>1 DEF Initialised, Pool
<1>3. \/ w = q
      \/ w = [q EXCEPT !.state = "torn"]
      \/ w = [q EXCEPT !.state = "torn", !.total_size = new.total_size]
      \/ w = [q EXCEPT !.state = "torn", !.total_size = new.total_size, !.va_hash = new.va_hash]
  BY DEF Remains, Pool
<1> HIDE DEF new
<1>4. /\ w \in Pool /\ w.opened = q.opened /\ w.mins = q.mins /\ w.locked
      /\ w.length = q.length /\ w.min_alloc_size = q.min_alloc_size
      /\ w.state \in {q.state, "torn"}
      /\ w.total_size \in {q.total_size, s}
      /\ w.state = q.state => w = q \/ q.state = "torn"
      /\ w.va_hash \in {q.va_hash, new.va_hash}
  BY <1>2, <1>3 DEF Pool
<1>5. \A r \in Sizes : OpenedAs(w, r) => OpenedAs(q, r) /\ OpenedAs(new, r)
  BY <1>1, <1>4 DEF OpenedAs
<1>6. \A r \in Sizes : OpenedAs(w, r) => w.va_hash = r - HashSize
  BY <1>1, <1>4, <1>5 DEF FileFits
<1> QED
  BY <1>4, <1>5, <1>6 DEF FileFits

-----------------------------------------------------------------------------
\* A process that has a handle has one of a file, opened with one of the sizes.
LEMMA HandleFact ==
    ASSUME PoolInv, NEW p \in Procs, Open(p)
    PROVE  /\ handle[p] \in Handle
           /\ handle[p].file \in Files /\ handle[p].size \in Sizes
           /\ Mapped(p) \in Pool /\ FileFits(Mapped(p))
           /\ handle[p].size \in Mapped(p).opened
           /\ Mapped(p).state # "blank"
<1>1. handle[p] \in Handle /\ pool \in [Files -> Pool]
  BY DEF PoolInv, TypeOK, Open
<1>2. handle[p].file \in Files /\ handle[p].size \in Sizes
  BY <1>1 DEF Handle
<1>3. Mapped(p) \in Pool /\ FileFits(Mapped(p))
  BY <1>1, <1>2 DEF Mapped, PoolInv
<1>4. handle[p].size \in Mapped(p).opened
  BY DEF PoolInv, HandleFits
<1> QED
  BY <1>1, <1>2, <1>3, <1>4 DEF FileFits

\* A change of one file, which keeps what it was opened with, leaves the files
\* and the handles that stay as they are sound.
LEMMA PutFact ==
    ASSUME PoolInv, NEW f \in Files, NEW w \in Pool, FileFits(w),
           pool[f].opened \subseteq w.opened, pool[f].mins \subseteq w.mins,
           pool' = [pool EXCEPT ![f] = w]
    PROVE  /\ pool' \in [Files -> Pool]
           /\ \A g \in Files : FileFits(pool'[g])
           /\ \A p \in Procs : handle'[p] = handle[p] => HandleFits(p)'
<1>1. pool \in [Files -> Pool]
  BY DEF PoolInv, TypeOK
<1>2. pool' \in [Files -> Pool] /\ \A g \in Files : pool'[g] = IF g = f THEN w ELSE pool[g]
  BY <1>1
<1>3. \A g \in Files : FileFits(pool'[g])
  BY <1>2 DEF PoolInv
<1>4. ASSUME NEW p \in Procs, handle'[p] = handle[p], Open(p)' PROVE HandleFits(p)'
  <2>1. Open(p)
    BY <1>4 DEF Open
  <2>2. handle[p].file \in Files /\ handle[p].size \in Mapped(p).opened
    BY <2>1, HandleFact
  <2>3. \A s \in Sizes : OpenedAs(Mapped(p), s) => handle[p].va_hash = s - HashSize
    BY <2>1 DEF PoolInv, HandleFits
  <2>4. Mapped(p)' = IF handle[p].file = f THEN w ELSE Mapped(p)
    BY <1>2, <1>4, <2>2 DEF Mapped
  <2>5. /\ Mapped(p).opened \subseteq Mapped(p)'.opened
        /\ Mapped(p).mins \subseteq Mapped(p)'.mins
    BY <2>4 DEF Mapped
  <2>6. \A s \in Sizes : OpenedAs(Mapped(p)', s) => OpenedAs(Mapped(p), s)
    BY <2>2, <2>5 DEF OpenedAs
  <2> QED
    BY <1>4, <2>2, <2>3, <2>5, <2>6 DEF HandleFits, OpenedAs
<1> QED
  BY <1>2, <1>3, <1>4 DEF HandleFits

\* Taking the semaphore is what makes a process the only one in a call.
LEMMA LockStep ==
    ASSUME PoolInv, NEW p \in Procs, NEW l \in {"in", "clear", "close"}, lmc_lock_shm_region(p, l)
    PROVE  PoolInv'
<1> DEFINE f == handle[p].file
           w == [Mapped(p) EXCEPT !.locked = TRUE]
<1>1. f \in Files /\ Mapped(p) \in Pool /\ FileFits(Mapped(p)) /\ Mapped(p).state # "blank"
  BY HandleFact DEF lmc_lock_shm_region
<1>2. /\ w \in Pool /\ w.opened = Mapped(p).opened /\ w.state = Mapped(p).state
      /\ w.total_size = Mapped(p).total_size /\ w.va_hash = Mapped(p).va_hash /\ w.locked
      /\ w.mins = Mapped(p).mins /\ w.min_alloc_size = Mapped(p).min_alloc_size
      /\ w.length = Mapped(p).length
  BY <1>1 DEF Pool
<1>3. FileFits(w)
  BY <1>1, <1>2 DEF FileFits, OpenedAs
<1>4. pool' = [pool EXCEPT ![f] = w]
  BY <1>1 DEF lmc_lock_shm_region, Mapped, PoolInv, TypeOK
<1> HIDE DEF w
<1>5. /\ pool' \in [Files -> Pool]
      /\ \A g \in Files : FileFits(pool'[g])
      /\ \A q \in Procs : HandleFits(q)'
  BY <1>1, <1>2, <1>3, <1>4, PutFact DEF lmc_lock_shm_region, Mapped
<1>6. sem = 1 /\ sem' = 0 /\ \A q \in Procs : ~Holds(q)
  BY DEF lmc_lock_shm_region, PoolInv, Sole, TypeOK
<1>7. \A q \in Procs : Holds(q)' => q = p
  BY <1>6 DEF lmc_lock_shm_region, Goto, Holds, PoolInv, TypeOK
<1>8. Mapped(p).state # "torn"
  BY <1>1 DEF lmc_lock_shm_region, FileFits
<1>9. Mapped(p)' = w
  BY <1>1, <1>4 DEF lmc_lock_shm_region, Mapped, PoolInv, TypeOK
<1>10. \A q \in Procs : HolderFits(q)'
  BY <1>2, <1>7, <1>8, <1>9 DEF HolderFits, lmc_lock_shm_region, Open
<1>11. TypeOK'
  BY <1>5, <1>6 DEF lmc_lock_shm_region, Goto, PoolInv, TypeOK
<1> QED
  BY <1>5, <1>6, <1>7, <1>10, <1>11 DEF PoolInv, Sole

\* Who posts it leaves no one in a call, and the file, with its new contents,
\* sound.
LEMMA UnlockStep ==
    ASSUME PoolInv, NEW p \in Procs, Holds(p), NEW q \in Pool, FileFits([q EXCEPT !.locked = FALSE]),
           Mapped(p).opened \subseteq q.opened, Mapped(p).mins \subseteq q.mins,
           lmc_unlock_shm_region(p, q),
           handle' \in [Procs -> Handle \union {Closed}],
           \A r \in Procs \ {p} : handle'[r] = handle[r]
    PROVE  HandleFits(p)' \/ handle'[p] = handle[p] => PoolInv'
<1> DEFINE f == handle[p].file
           w == [q EXCEPT !.locked = FALSE]
<1>1. f \in Files
  BY HandleFact DEF PoolInv, HolderFits
<1>2. w \in Pool /\ w.opened = q.opened /\ w.mins = q.mins
  BY DEF Pool
<1>3. pool' = [pool EXCEPT ![f] = w]
  BY DEF lmc_unlock_shm_region
<1> HIDE DEF w
<1>4. /\ pool' \in [Files -> Pool]
      /\ \A g \in Files : FileFits(pool'[g])
      /\ \A r \in Procs : handle'[r] = handle[r] => HandleFits(r)'
  BY <1>1, <1>2, <1>3, PutFact DEF Mapped, w
<1>5. \A r \in Procs : Holds(r) => r = p
  BY DEF PoolInv, Sole
<1>6. \A r \in Procs : ~Holds(r)'
  BY <1>5 DEF lmc_unlock_shm_region, Goto, Holds, PoolInv, TypeOK
<1>7. sem = 0 /\ sem' = 1
  BY DEF lmc_unlock_shm_region, PoolInv, Sole, TypeOK
<1>8. pc' \in [Procs -> {"idle", "in", "clear", "close", "check", "dead"}]
  BY DEF lmc_unlock_shm_region, Goto, PoolInv, TypeOK
<1>9. UNCHANGED <<file, files, csem, crashes>>
  BY DEF lmc_unlock_shm_region
<1>10. TypeOK'
  BY <1>4, <1>7, <1>8, <1>9 DEF PoolInv, TypeOK
<1> QED
  BY <1>4, <1>6, <1>7, <1>10 DEF PoolInv, Sole, HolderFits

\* local_memcache_create asks for the semaphore, so nobody is in a call.
LEMMA CreateStep ==
    ASSUME PoolInv, NEW p \in Procs, NEW size \in Sizes, NEW min \in MinSizes,
           local_memcache_create(p, size, min)
    PROVE  PoolInv'
<1>1. file' \in Files /\ files' \in file' .. MaxFiles
  BY PoolAssumption DEF local_memcache_create, EnsureFile, PoolInv, TypeOK, Files
<1>2. PICK q \in Attached(pool[file'], size) :
         /\ pool' = [pool EXCEPT ![file'] =
                         IF q.locked THEN q ELSE lmc_set_min_alloc_size(q, min)]
         /\ handle' = IF q.locked THEN handle
                      ELSE [handle EXCEPT ![p] =
                               [file |-> file', size |-> size, va_hash |-> q.va_hash]]
  BY DEF local_memcache_create
<1> DEFINE w == IF q.locked THEN q ELSE lmc_set_min_alloc_size(q, min)
<1>3. pool[file'] \in Pool /\ FileFits(pool[file'])
  BY <1>1 DEF PoolInv, TypeOK
<1>4. /\ q \in Pool /\ FileFits(q) /\ q.opened = pool[file'].opened \union {size}
      /\ q.mins = pool[file'].mins /\ q.state # "blank"
  BY <1>3, AttachedFact
<1>5. /\ w \in Pool /\ FileFits(w) /\ w.opened = q.opened /\ q.mins \subseteq w.mins
       /\ w.va_hash = q.va_hash /\ w.state = q.state
  BY <1>4, MinStoredFact
<1>6. pool' = [pool EXCEPT ![file'] = w]
  BY <1>2
<1> HIDE DEF w
<1>7. /\ pool' \in [Files -> Pool]
      /\ \A g \in Files : FileFits(pool'[g])
      /\ \A r \in Procs : handle'[r] = handle[r] => HandleFits(r)'
  BY <1>1, <1>4, <1>5, <1>6, PutFact
<1>8. handle' \in [Procs -> Handle \union {Closed}]
  <2>1. [file |-> file', size |-> size, va_hash |-> q.va_hash] \in Handle
    BY <1>1, <1>4 DEF Handle, Pool
  <2> QED
    BY <1>2, <2>1 DEF PoolInv, TypeOK
<1>9. sem = 1 /\ \A r \in Procs : ~Holds(r)
  BY DEF local_memcache_create, PoolInv, Sole, TypeOK
<1>10. \A r \in Procs : ~Holds(r)'
  BY <1>9 DEF local_memcache_create, Holds
<1>11. ASSUME handle'[p] # handle[p] PROVE HandleFits(p)'
  <2>1. handle'[p] = [file |-> file', size |-> size, va_hash |-> q.va_hash]
    BY <1>2, <1>11 DEF PoolInv, TypeOK
  <2>2. Mapped(p)' = w
    BY <1>1, <1>6, <2>1 DEF Mapped, PoolInv, TypeOK
  <2> QED
    BY <1>4, <1>5, <2>1, <2>2 DEF HandleFits, FileFits
<1>12. \A r \in Procs : HandleFits(r)'
  BY <1>2, <1>7, <1>11 DEF PoolInv, TypeOK
<1>13. TypeOK'
  <2>1. UNCHANGED <<sem, csem, pc, crashes>>
    BY DEF local_memcache_create
  <2> QED
    BY <1>1, <1>7, <1>8, <2>1 DEF PoolInv, TypeOK, Files
<1> QED
  BY <1>7, <1>9, <1>10, <1>12, <1>13 DEF local_memcache_create, PoolInv, Sole, HolderFits

\* A process that dies in a call keeps the semaphore; the file it worked on
\* stays locked, and stays the only one that can be torn and was not.
LEMMA CrashStep ==
    ASSUME PoolInv, NEW p \in Procs, Crash(p)
    PROVE  PoolInv'
<1> DEFINE f == handle[p].file
<1>1. /\ Open(p) /\ Mapped(p).locked
      /\ f \in Files /\ handle[p].size \in Sizes
      /\ Mapped(p) \in Pool /\ FileFits(Mapped(p))
      /\ handle[p].size \in Mapped(p).opened
      /\ Mapped(p).state # "blank"
  BY HandleFact DEF Crash, PoolInv, HolderFits
<1>2. PICK w \in Remains(Mapped(p), pc[p], handle[p].size) : pool' = [pool EXCEPT ![f] = w]
  BY DEF Crash
<1>3. pc[p] \in {"in", "clear", "close"}
  BY DEF Crash, Holds
<1>4. w \in Pool /\ FileFits(w) /\ w.opened = Mapped(p).opened /\ w.mins = Mapped(p).mins
  BY <1>1, <1>2, <1>3, RemainsFact
<1>5. /\ pool' \in [Files -> Pool]
      /\ \A g \in Files : FileFits(pool'[g])
      /\ \A r \in Procs : HandleFits(r)'
  BY <1>1, <1>2, <1>4, PutFact DEF Crash, Mapped
<1>6. \A r \in Procs : Holds(r) => r = p
  BY DEF PoolInv, Sole, Crash
<1>7. \A r \in Procs : ~Holds(r)'
  BY <1>6 DEF Crash, Goto, Holds, PoolInv, TypeOK
<1>8. TypeOK'
  <2>1. pc' \in [Procs -> {"idle", "in", "clear", "close", "check", "dead"}]
    BY DEF Crash, Goto, PoolInv, TypeOK
  <2>2. crashes' \in 0 .. MaxCrashes
    BY PoolAssumption DEF Crash, PoolInv, TypeOK
  <2>3. UNCHANGED <<file, files, sem, csem, handle>>
    BY DEF Crash
  <2> QED
    BY <1>5, <2>1, <2>2, <2>3 DEF PoolInv, TypeOK
<1> QED
  BY <1>5, <1>7, <1>8 DEF Crash, PoolInv, Sole, HolderFits

\* What a check leaves of the file it opens again: with one size that is what
\* the file has, unless an int does not hold it.
LEMMA ReopenedFact ==
    ASSUME PoolInv, NEW p \in Procs, Reopens(p), NEW q \in Reopened
    PROVE  /\ file \in Files /\ \A r \in Procs : ~Holds(r)
           /\ q \in Pool /\ FileFits(q)
           /\ q.opened = pool[file].opened /\ q.mins = pool[file].mins
           /\ q.state # "blank"
<1> DEFINE f == pool[file]
           n == lmc_namespace_size(f)
<1>1. file \in Files
  BY DEF Reopens, PoolInv, TypeOK, Files
<1>2. f \in Pool /\ FileFits(f)
  BY <1>1 DEF PoolInv, TypeOK
<1>3. f.length \in Nat /\ IntRange \in Nat \ {0}
  BY <1>2, PoolAssumption DEF Pool
<1>4. n > 0
  BY DEF Reopens
<1>5. n \in Nat /\ (f.length < IntRange => n = f.length)
  BY <1>3, <1>4 DEF lmc_namespace_size
<1> HIDE DEF n
<1>6. q \in ZeroByteAt(f, n)
  BY DEF Reopened, n
<1>7. ASSUME NEW s \in Sizes, OpenedAs(f, s), f.length < IntRange PROVE s <= n
  BY <1>2, <1>5, <1>7 DEF FileFits, OpenedAs
<1> HIDE DEF f
<1>8. /\ q \in Pool /\ FileFits(q)
      /\ q.opened = f.opened /\ q.mins = f.mins
      /\ q.state = "blank" <=> f.state = "blank"
  BY <1>2, <1>5, <1>6, <1>7, ZeroByteFact
<1>9. \A r \in Procs : ~Holds(r)
  BY DEF Reopens, HolderGone, PoolInv, Sole, TypeOK
<1>10. f.state # "blank"
  BY <1>2, <1>3, <1>4 DEF FileFits, n, f, lmc_namespace_size
<1> QED
  BY <1>1, <1>8, <1>9, <1>10 DEF f

\* The step of a check that leaves file with contents w.
LEMMA ReopenStep ==
    ASSUME PoolInv, file \in Files, \A r \in Procs : ~Holds(r),
           NEW p \in Procs, NEW l \in {"idle", "dead"}, Goto(p, l),
           NEW w \in Pool, FileFits(w), pool' = [pool EXCEPT ![file] = w],
           pool[file].opened \subseteq w.opened, pool[file].mins \subseteq w.mins,
           sem' \in {0, 1}, csem' \in Nat, UNCHANGED <<file, files, handle, crashes>>
    PROVE  PoolInv'
<1>1. /\ pool' \in [Files -> Pool]
      /\ \A g \in Files : FileFits(pool'[g])
      /\ \A r \in Procs : HandleFits(r)'
  BY PutFact
<1>2. \A r \in Procs : ~Holds(r)'
  BY DEF Goto, Holds, PoolInv, TypeOK
<1>3. pc' \in [Procs -> {"idle", "in", "clear", "close", "check", "dead"}]
  BY DEF Goto, PoolInv, TypeOK
<1>4. TypeOK'
  BY <1>1, <1>3 DEF PoolInv, TypeOK
<1> QED
  BY <1>1, <1>2, <1>4 DEF PoolInv, Sole, HolderFits

\* A check that has nothing to repair.
LEMMA PassStep ==
    ASSUME PoolInv, NEW p \in Procs, CheckPasses(p)
    PROVE  PoolInv'
<1>1. PICK q \in Reopened :
         pool' = [pool EXCEPT ![file] = IF sem > 0 THEN lmc_set_min_alloc_size(q, 0) ELSE q]
  BY DEF CheckPasses
<1> DEFINE w == IF sem > 0 THEN lmc_set_min_alloc_size(q, 0) ELSE q
<1>2. /\ file \in Files /\ \A r \in Procs : ~Holds(r)
      /\ q \in Pool /\ FileFits(q) /\ q.state # "blank"
      /\ q.opened = pool[file].opened /\ q.mins = pool[file].mins
  BY ReopenedFact DEF CheckPasses
<1>3. w \in Pool /\ FileFits(w) /\ w.opened = q.opened /\ q.mins \subseteq w.mins
  BY <1>2, MinStoredFact, PoolAssumption
<1>4. pool' = [pool EXCEPT ![file] = w]
  BY <1>1
<1> HIDE DEF w
<1>5. sem' \in {0, 1} /\ csem' \in Nat
  BY DEF CheckPasses, Corrected, PoolInv, Sole, TypeOK
<1> QED
  BY <1>2, <1>3, <1>4, <1>5, ReopenStep DEF CheckPasses

\* One that repairs the pool.
LEMMA RepairStep ==
    ASSUME PoolInv, NEW p \in Procs, CheckRepairs(p)
    PROVE  PoolInv'
<1>1. PICK q \in Reopened :
         pool' = [pool EXCEPT ![file] = [q EXCEPT !.locked = FALSE, !.state = "ready"]]
  BY DEF CheckRepairs
<1> DEFINE w == [q EXCEPT !.locked = FALSE, !.state = "ready"]
<1>2. /\ file \in Files /\ \A r \in Procs : ~Holds(r)
      /\ q \in Pool /\ FileFits(q) /\ q.state # "blank"
      /\ q.opened = pool[file].opened /\ q.mins = pool[file].mins
  BY ReopenedFact DEF CheckRepairs
<1>3. /\ w.opened = q.opened /\ w.mins = q.mins /\ ~w.locked /\ w.state = "ready"
      /\ w.total_size = q.total_size /\ w.va_hash = q.va_hash /\ w.length = q.length
      /\ w.min_alloc_size = q.min_alloc_size
  BY <1>2 DEF Pool
<1>4. w \in Pool
  BY <1>2 DEF Pool
<1>5. pool' = [pool EXCEPT ![file] = w]
  BY <1>1
<1> HIDE DEF w
<1>6. FileFits(w)
  BY <1>2, <1>3 DEF FileFits, OpenedAs
<1>7. sem' \in {0, 1} /\ csem' \in Nat
  BY DEF CheckRepairs, Corrected, PoolInv, Sole, TypeOK
<1> QED
  BY <1>2, <1>3, <1>4, <1>5, <1>6, <1>7, ReopenStep DEF CheckRepairs

\* One that cannot, or that dies in the attempt.
LEMMA FailStep ==
    ASSUME PoolInv, NEW p \in Procs, CheckFails(p) \/ CheckFaults(p)
    PROVE  PoolInv'
<1>1. Reopens(p) /\ \E q \in Reopened : pool' = [pool EXCEPT ![file] = q]
  BY DEF CheckFails, CheckFaults
<1>2. PICK q \in Reopened : pool' = [pool EXCEPT ![file] = q]
  BY <1>1
<1>3. /\ file \in Files /\ \A r \in Procs : ~Holds(r)
      /\ q \in Pool /\ FileFits(q)
      /\ q.opened = pool[file].opened /\ q.mins = pool[file].mins
  BY <1>1, ReopenedFact
<1>4. PICK l \in {"idle", "dead"} : Goto(p, l)
  BY DEF CheckFails, CheckFaults
<1>5. sem' \in {0, 1} /\ csem' \in Nat /\ UNCHANGED <<file, files, handle, crashes>>
  BY DEF CheckFails, CheckFaults, PoolInv, TypeOK
<1> QED
  BY <1>2, <1>3, <1>4, <1>5, ReopenStep

\* The steps that leave the files and the handles alone: nobody enters a call,
\* and a semaphore is posted only when nobody is in one.
LEMMA IdleStep ==
    ASSUME PoolInv, UNCHANGED <<pool, handle>>, TypeOK',
           \A r \in Procs : Holds(r)' => Holds(r),
           sem' <= 1, sem' = 1 => sem = 1 \/ \A r \in Procs : ~Holds(r)
    PROVE  PoolInv'
<1>1. \A g \in Files : FileFits(pool'[g])
  BY DEF PoolInv
<1>2. \A r \in Procs : HolderFits(r)' /\ HandleFits(r)'
  BY DEF PoolInv, HolderFits, HandleFits, Mapped, Open
<1> QED
  BY <1>1, <1>2 DEF PoolInv, Sole

\* A file stays sound when it is unlocked, unless it is torn.
LEMMA UnlockedFact ==
    ASSUME NEW q \in Pool, FileFits(q), q.state # "torn"
    PROVE  FileFits([q EXCEPT !.locked = FALSE])
<1> DEFINE w == [q EXCEPT !.locked = FALSE]
<1>1. /\ w.state = q.state /\ w.opened = q.opened /\ ~w.locked /\ w.length = q.length
      /\ w.total_size = q.total_size /\ w.va_hash = q.va_hash
      /\ w.mins = q.mins /\ w.min_alloc_size = q.min_alloc_size
  BY DEF Pool
<1> HIDE DEF w
<1>2. FileFits(w)
  BY <1>1 DEF FileFits, OpenedAs
<1> QED
  BY <1>2 DEF w

\* Every step keeps the invariant.  Drops may be forced only as the comment of
\* LocalMemCache.drop allows it.
LEMMA PoolStep ==
    ASSUME HeedWarning, PoolInv, [Next]_vars
    PROVE  PoolInv'
<1> DEFINE Calls == {"in", "clear", "close"}
<1>1. ASSUME NEW p \in Procs, NEW s \in Sizes, NEW min \in MinSizes,
             local_memcache_create(p, s, min)
      PROVE  PoolInv'
  BY <1>1, CreateStep
<1>2. ASSUME NEW p \in Procs, NEW l \in Calls, lmc_lock_shm_region(p, l) PROVE PoolInv'
  BY <1>2, LockStep
<1>3. ASSUME NEW p \in Procs, Holds(p)
      PROVE  /\ handle[p] \in Handle
             /\ handle[p].file \in Files /\ handle[p].size \in Sizes
             /\ Mapped(p) \in Pool /\ FileFits(Mapped(p))
             /\ handle[p].size \in Mapped(p).opened
             /\ Mapped(p).state \in {"ready", "spoiled"}
  BY <1>3, HandleFact DEF PoolInv, HolderFits, Pool
<1>4. ASSUME NEW p \in Procs, Change(p) PROVE PoolInv'
  <2> DEFINE m == Mapped(p)
             q == IF Finds(handle[p], m) THEN m ELSE [m EXCEPT !.state = "spoiled"]
  <2>1. Holds(p) /\ Open(p)
    BY <1>4 DEF Change, Holds, PoolInv, HolderFits
  <2>2. /\ m \in Pool /\ FileFits(m) /\ m.state \in {"ready", "spoiled"}
        /\ handle[p].size \in m.opened
    BY <1>3, <2>1
  <2>3. \A s \in Sizes : OpenedAs(m, s) => handle[p].va_hash = s - HashSize
    BY <2>1 DEF PoolInv, HandleFits
  <2>4. /\ q \in Pool /\ q.opened = m.opened /\ q.mins = m.mins
        /\ q.state # "torn" /\ FileFits(q)
    <3>1. CASE Finds(handle[p], m)
      BY <2>2, <3>1
    <3>2. CASE ~Finds(handle[p], m)
      <4>1. /\ q \in Pool /\ q.opened = m.opened /\ q.state = "spoiled"
            /\ q.total_size = m.total_size /\ q.va_hash = m.va_hash
            /\ q.mins = m.mins /\ q.min_alloc_size = m.min_alloc_size
            /\ q.length = m.length
        BY <2>2, <3>2 DEF Pool
      <4>2. ASSUME NEW s \in Sizes, OpenedAs(m, s) PROVE FALSE
        <5>1. handle[p].va_hash = s - HashSize /\ m.va_hash = s - HashSize
          BY <2>2, <2>3, <4>2 DEF FileFits
        <5>2. s - HashSize # 0
          BY PoolAssumption
        <5> QED
          BY <3>2, <5>1, <5>2 DEF Finds
      <4> QED
        BY <2>2, <4>1, <4>2 DEF FileFits, OpenedAs
    <3> QED
      BY <3>1, <3>2
  <2>5. lmc_unlock_shm_region(p, q) /\ handle' = handle
    BY <1>4 DEF Change
  <2> HIDE DEF q
  <2>6. FileFits([q EXCEPT !.locked = FALSE])
    BY <2>4, UnlockedFact
  <2>7. handle' \in [Procs -> Handle \union {Closed}]
    BY <2>5 DEF PoolInv, TypeOK
  <2> QED
    BY <2>1, <2>4, <2>5, <2>6, <2>7, UnlockStep
<1>5. ASSUME NEW p \in Procs, Fault(p) PROVE PoolInv'
  <2>1. \A r \in Procs : Holds(r)' => Holds(r)
    BY <1>5 DEF Fault, Goto, Holds, PoolInv, TypeOK
  <2>2. TypeOK'
    BY <1>5 DEF Fault, Goto, PoolInv, TypeOK
  <2> QED
    BY <1>5, <2>1, <2>2, IdleStep DEF Fault, PoolInv, Sole
<1>6. ASSUME NEW p \in Procs, Clear(p) PROVE PoolInv'
  <2> DEFINE q == Initialised(Mapped(p), handle[p].size)
             h == [handle[p] EXCEPT !.va_hash = IF q.va_hash = 0 THEN @ ELSE q.va_hash]
  <2>1. Holds(p)
    BY <1>6 DEF Clear, Holds
  <2>2. /\ handle[p] \in Handle /\ handle[p].file \in Files /\ handle[p].size \in Sizes
        /\ Mapped(p) \in Pool /\ handle[p].size \in Mapped(p).opened
        /\ FileFits(Mapped(p))
    BY <1>3, <2>1
  <2>3. /\ q \in Pool /\ FileFits(q)
        /\ q.opened = Mapped(p).opened /\ q.mins = Mapped(p).mins
        /\ q.state # "torn"
        /\ \A s \in Sizes : OpenedAs(q, s) => q.va_hash = s - HashSize /\ q.va_hash # 0
    BY <2>2, InitialisedFact DEF FileFits
  <2>4. lmc_unlock_shm_region(p, q)
    BY <1>6 DEF Clear
  <2>5. handle' = [handle EXCEPT ![p] = h]
    BY <1>6 DEF Clear, PoolInv, TypeOK
  <2> HIDE DEF q
  <2>6. /\ h \in Handle /\ h.file = handle[p].file /\ h.size = handle[p].size
        /\ q.va_hash # 0 => h.va_hash = q.va_hash
    BY <2>2, <2>3 DEF Handle, Pool
  <2> HIDE DEF h
  <2>7. FileFits([q EXCEPT !.locked = FALSE])
    BY <2>3, UnlockedFact
  <2>8. /\ handle' \in [Procs -> Handle \union {Closed}] /\ handle'[p] = h
        /\ \A r \in Procs \ {p} : handle'[r] = handle[r]
    <3>1. handle \in [Procs -> Handle \union {Closed}]
      BY DEF PoolInv, TypeOK
    <3> QED
      BY <2>5, <2>6, <3>1
  <2>9. HandleFits(p)'
    <3>1. Mapped(p)' = [q EXCEPT !.locked = FALSE]
      <4>1. /\ pool' = [pool EXCEPT ![handle[p].file] = [q EXCEPT !.locked = FALSE]]
            /\ pool \in [Files -> Pool] /\ handle'[p].file = handle[p].file
        BY <2>4, <2>6, <2>8 DEF lmc_unlock_shm_region, PoolInv, TypeOK
      <4>2. pool'[handle[p].file] = [q EXCEPT !.locked = FALSE]
        BY <2>2, <4>1
      <4> QED
        BY <4>1, <4>2 DEF Mapped
    <3>2. Mapped(p)'.opened = q.opened /\ Mapped(p)'.mins = q.mins
      BY <2>3, <3>1 DEF Pool
    <3>3. h.size \in Mapped(p)'.opened
      BY <2>2, <2>3, <2>6, <3>2
    <3>4. ASSUME NEW s \in Sizes, OpenedAs(Mapped(p)', s) PROVE h.va_hash = s - HashSize
      BY <2>3, <2>6, <3>2, <3>4 DEF OpenedAs
    <3> QED
      BY <2>8, <3>3, <3>4 DEF HandleFits
  <2> QED
    BY <2>1, <2>3, <2>4, <2>7, <2>8, <2>9, UnlockStep
<1>7. ASSUME NEW p \in Procs, Close(p) PROVE PoolInv'
  <2>1. Holds(p)
    BY <1>7 DEF Close, Holds
  <2>2. Mapped(p) \in Pool /\ FileFits([Mapped(p) EXCEPT !.locked = FALSE])
    BY <1>3, <2>1, UnlockedFact
  <2>3. lmc_unlock_shm_region(p, Mapped(p))
    BY <1>7 DEF Close
  <2>4. handle' = [handle EXCEPT ![p] = Closed]
    BY <1>7 DEF Close
  <2>5. handle' \in [Procs -> Handle \union {Closed}] /\ HandleFits(p)'
    BY <2>4 DEF HandleFits, Open, PoolInv, TypeOK
  <2> QED
    BY <2>1, <2>2, <2>3, <2>4, <2>5, UnlockStep
<1>8. ASSUME NEW p \in Procs, Drop(p) PROVE PoolInv'
  <2>1. TypeOK'
    BY <1>8, PoolAssumption DEF Drop, PoolInv, TypeOK
  <2> QED
    BY <1>8, <2>1, IdleStep DEF Drop, Holds, PoolInv, Sole
<1>9. ASSUME NEW p \in Procs, ForcedDrop(p) PROVE PoolInv'
  <2>1. TypeOK'
    BY <1>9, PoolAssumption DEF ForcedDrop, PoolInv, TypeOK
  <2>2. \A r \in Procs : ~Holds(r)
    BY <1>9 DEF ForcedDrop, Live, Holds
  <2> QED
    BY <1>9, <2>1, <2>2, IdleStep DEF ForcedDrop, Holds
<1>10. ASSUME NEW p \in Procs, Check(p) PROVE PoolInv'
  <2>1. \A r \in Procs : Holds(r)' => Holds(r)
    BY <1>10 DEF Check, Goto, Holds, PoolInv, TypeOK
  <2>2. TypeOK'
    BY <1>10 DEF Check, Goto, PoolInv, TypeOK
  <2> QED
    BY <1>10, <2>1, <2>2, IdleStep DEF Check, PoolInv, Sole
<1>11. ASSUME NEW p \in Procs, CheckPasses(p) \/ CheckRepairs(p) PROVE PoolInv'
  BY <1>11, PassStep, RepairStep
<1>12. ASSUME NEW p \in Procs, CheckFails(p) \/ CheckFaults(p) PROVE PoolInv'
  BY <1>12, FailStep
<1>13. ASSUME NEW p \in Procs, CheckDies(p) PROVE PoolInv'
  <2>1. \A r \in Procs : Holds(r)' => Holds(r)
    BY <1>13 DEF CheckDies, Goto, Holds, PoolInv, TypeOK
  <2>2. \A r \in Procs : sem = 1 \/ ~Holds(r)
    BY <1>13 DEF CheckDies, HolderGone, PoolInv, Sole, TypeOK
  <2>3. sem' \in Nat /\ sem' <= 1
    BY <1>13 DEF CheckDies, Corrected, PoolInv, Sole, TypeOK
  <2>4. file' \in 0 .. MaxFiles /\ files' \in file' .. MaxFiles
    BY <1>13, PoolAssumption DEF CheckDies, EnsureFile, PoolInv, TypeOK
  <2>5. pc' \in [Procs -> {"idle", "in", "clear", "close", "check", "dead"}]
    BY <1>13 DEF CheckDies, Goto, PoolInv, TypeOK
  <2>6. UNCHANGED <<pool, csem, handle, crashes>>
    BY <1>13 DEF CheckDies
  <2>7. TypeOK'
    BY <2>3, <2>4, <2>5, <2>6 DEF PoolInv, TypeOK
  <2> QED
    BY <2>1, <2>2, <2>3, <2>6, <2>7, IdleStep
<1>14. ASSUME NEW p \in Procs, Crash(p) PROVE PoolInv'
  BY <1>14, CrashStep
<1>15. CASE UNCHANGED vars
  <2>1. TypeOK'
    BY <1>15 DEF vars, PoolInv, TypeOK
  <2> QED
    BY <1>15, <2>1, IdleStep DEF vars, Holds, PoolInv, Sole
<1> QED
  BY <1>1, <1>2, <1>4, <1>5, <1>6, <1>7, <1>8, <1>9, <1>10, <1>11, <1>12, <1>13, <1>14, <1>15
     DEF Next

\* A namespace begins without a file.
LEMMA PoolInit == Init => PoolInv
<1> SUFFICES ASSUME Init PROVE PoolInv
  OBVIOUS
<1>1. EmptyFile \in Pool /\ EmptyFile.opened = {} /\ EmptyFile.state = "blank" /\ ~EmptyFile.locked
      /\ EmptyFile.length = 0 /\ EmptyFile.min_alloc_size \in EmptyFile.mins
  BY PoolAssumption DEF EmptyFile, Pool
<1>2. FileFits(EmptyFile)
  BY <1>1, FS_EmptySet DEF FileFits, OpenedAs
<1>3. TypeOK
  BY <1>1, PoolAssumption DEF Init, TypeOK
<1>4. \A p \in Procs : ~Holds(p) /\ ~Open(p)
  BY DEF Init, Holds, Open
<1> QED
  BY <1>2, <1>3, <1>4 DEF Init, PoolInv, Sole, HolderFits, HandleFits

-----------------------------------------------------------------------------
\* The invariant holds throughout, whoever crashes, drops or clears.
THEOREM PoolInvariant == ASSUME HeedWarning PROVE Spec => []PoolInv
<1>1. PoolInv /\ [Next]_vars => PoolInv'
  BY PoolStep
<1> QED
  BY <1>1, PoolInit, PTL DEF Spec

\* The variables keep their types, the number of files its bound.
THEOREM PoolTypes == ASSUME HeedWarning PROVE Spec => []TypeOK
<1>1. PoolInv => TypeOK
  BY DEF PoolInv
<1> QED
  BY <1>1, PoolInvariant, PTL

\* Which size that one is.
LEMMA OneTableFact ==
    ASSUME NEW q \in Pool, FileFits(q), OneTable(q)
    PROVE  \E s \in Sizes : OpenedAs(q, s)
<1>1. PICK s : q.opened = {s}
  BY FS_Singleton DEF OneTable, OneSize, FileFits
<1>2. s \in Sizes
  BY <1>1 DEF Pool
<1> QED
  BY <1>1, <1>2 DEF OneTable, OpenedAs

\* No call works on a torn pool, nor, in a file of one size below what an int
\* can tell and with no min_alloc_size above the table's, on a spoiled one, with a
\* handle of a dropped file neither.
THEOREM SoundCalls == ASSUME HeedWarning PROVE Spec => []SoundPool
<1>1. ASSUME PoolInv, NEW p \in Procs, pc[p] = "in"
      PROVE  /\ Mapped(p).state # "torn"
             /\ OneTable(Mapped(p)) /\ Mapped(p).length < IntRange => Mapped(p).state = "ready"
  <2>1. Holds(p)
    BY <1>1 DEF Holds
  <2>2. Open(p) /\ Mapped(p).state # "torn"
    BY <1>1, <2>1 DEF PoolInv, HolderFits
  <2>3. /\ Mapped(p) \in Pool /\ FileFits(Mapped(p)) /\ Mapped(p).state # "blank"
    BY <1>1, <2>2, HandleFact
  <2>4. ASSUME OneTable(Mapped(p)), Mapped(p).length < IntRange PROVE Mapped(p).state # "spoiled"
    <3>1. PICK s \in Sizes : OpenedAs(Mapped(p), s)
      BY <2>3, <2>4, OneTableFact
    <3> QED
      BY <2>3, <2>4, <3>1 DEF FileFits
  <2> QED
    BY <2>2, <2>3, <2>4 DEF Pool
<1>2. PoolInv => SoundPool
  BY <1>1 DEF SoundPool
<1> QED
  BY <1>2, PoolInvariant, PTL

\* The semaphore that all files of a namespace share is a token that one process
\* at most has.
THEOREM OneTokenForAll == ASSUME HeedWarning PROVE Spec => []OneToken
<1>1. ASSUME PoolInv PROVE OneToken
  <2> DEFINE S == {p \in Procs : Holds(p)}
  <2>1. CASE S = {}
    BY <1>1, <2>1, FS_EmptySet DEF OneToken, PoolInv, Sole, TypeOK
  <2>2. CASE S # {}
    <3>1. PICK p \in S : TRUE
      BY <2>2
    <3>2. S = {p}
      BY <1>1, <3>1 DEF PoolInv, Sole
    <3>3. Cardinality(S) = 1
      BY <3>2, FS_Singleton
    <3>4. sem = 0
      BY <1>1, <3>1 DEF PoolInv, Sole, TypeOK
    <3> QED
      BY <3>3, <3>4 DEF OneToken
  <2> QED
    BY <2>1, <2>2
<1> QED
  BY <1>1, PoolInvariant, PTL

\* A handle of a file that all open with one size, and none with a
\* min_alloc_size above the size of the table, knows where the table is, and
\* that lies in what it maps.
THEOREM SoundHandles == ASSUME HeedWarning PROVE Spec => []HandleSound
<1>1. ASSUME PoolInv, NEW p \in Procs, Open(p), OneTable(Mapped(p)) PROVE Sound(handle[p])
  <2>1. /\ handle[p].size \in Sizes
        /\ Mapped(p) \in Pool /\ FileFits(Mapped(p)) /\ Mapped(p).state # "blank"
        /\ handle[p].size \in Mapped(p).opened
    BY <1>1, HandleFact
  <2>2. PICK s \in Sizes : OpenedAs(Mapped(p), s)
    BY <1>1, <2>1, OneTableFact
  <2>3. s = handle[p].size /\ s \in Nat /\ s - HashSize # 0
    BY <2>1, <2>2, PoolAssumption DEF OpenedAs
  <2>4. handle[p].va_hash = s - HashSize /\ Mapped(p).va_hash = s - HashSize
    BY <1>1, <2>1, <2>2 DEF PoolInv, HandleFits, FileFits
  <2> QED
    BY <2>3, <2>4, PoolAssumption DEF Sound, Finds, Covered, Mapped
<1>2. PoolInv => HandleSound
  BY <1>1 DEF HandleSound
<1> QED
  BY <1>2, PoolInvariant, PTL

=============================================================================
