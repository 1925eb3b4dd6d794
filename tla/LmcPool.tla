------------------------------- MODULE LmcPool -------------------------------
(***************************************************************************)
(* Files and handles: what a handle of a namespace is a handle of, while   *)
(* others open, clear, drop and recover the namespace                      *)
(* (src/src/localmemcache.c, src/src/lmc_shm.c and the handles of          *)
(* src/src/ruby-binding/rblocalmemcache.c).                                *)
(*                                                                         *)
(* A dropped file lives on in the handles that map it, and the semaphore,  *)
(* which is found by name, is one for all files the namespace ever had.    *)
(* LmcLocking has the steps of a call, of an attach and of a recovery;     *)
(* here a call is two steps, and an attach is one.                         *)
(***************************************************************************)
EXTENDS Integers, FiniteSets, FiniteSetsExt

CONSTANTS
    Procs,
    Sizes,          \* the size_mb processes open the namespace with
    MinSizes,       \* what lmc_set_min_alloc_size makes of the min_alloc_size
                    \* they open it with, and the 0 of a new file
    MdSize,         \* the size of a lmc_mem_descriptor_t
    ChunkSize,      \* the size of a lmc_mem_chunk_descriptor_t
    HashSize,       \* the size of a ht_hash_t, as lmc_valloc rounds it
    IntRange,       \* how many values an int has
    HeedWarning,    \* whether drops are forced only when no process uses the
                    \* namespace, as the comment of LocalMemCache.drop demands
    RepairOutcomes, \* what the recovery makes of a torn pool: "ready", "torn"
    MaxFiles,       \* how many files the namespace has one after the other
    MaxCrashes      \* how many processes die

ASSUME PoolAssumption ==
    /\ HashSize \in Nat \ {0} /\ MdSize \in Nat \ {0} /\ ChunkSize \in Nat
    /\ Sizes \subseteq Nat /\ \A s \in Sizes : MdSize + ChunkSize + HashSize <= s
    /\ MinSizes \subseteq Nat /\ 0 \in MinSizes
    /\ IntRange \in Nat \ {0}
    /\ HeedWarning \in BOOLEAN
    /\ RepairOutcomes \subseteq {"ready", "torn"} /\ RepairOutcomes # {}
    /\ MaxFiles \in Nat
    /\ MaxCrashes \in Nat

VARIABLES
    file,       \* the file of the namespace; 0 if there is none
    files,      \* how many there have been
    pool,       \* what they hold
    sem,        \* lmc->lock->sem
    csem,       \* check_l->sem
    handle,     \* by process
    pc,
    crashes

vars == <<file, files, pool, sem, csem, handle, pc, crashes>>

Files == 1 .. MaxFiles

\* length is the file's; total_size is 0 until lmc_init_memory, with the
\* descriptor from then on.  A pool is "torn" if a process died in it, "spoiled"
\* if one changed it in the wrong place or left it without a table.  Only the
\* properties look at opened and mins, the sizes the file was opened with and
\* the values min_alloc_size had.
Pool ==
    [length : Nat, opened : SUBSET Sizes, total_size : Nat, va_hash : Nat,
     min_alloc_size : MinSizes, mins : SUBSET MinSizes,
     locked : BOOLEAN, state : {"blank", "ready", "torn", "spoiled"}]

EmptyFile ==
    [length |-> 0, opened |-> {}, total_size |-> 0, va_hash |-> 0,
     min_alloc_size |-> 0, mins |-> {0}, locked |-> FALSE, state |-> "blank"]

Handle == [file : Files, size : Sizes, va_hash : Nat]

Closed == [file |-> 0, size |-> 0, va_hash |-> 0]

Live(p) == pc[p] # "dead"

\* The pool a process has a handle of.
Mapped(p) == pool[handle[p].file]

\* rb_lmc_check_handle_access raises MemoryPoolClosed.
Open(p) == handle[p] # Closed

Goto(p, l) == pc' = [pc EXCEPT ![p] = l]

-----------------------------------------------------------------------------
Init ==
    /\ file = 0
    /\ files = 0
    /\ pool = [f \in Files |-> EmptyFile]
    /\ sem = 1
    /\ csem = 1
    /\ handle = [p \in Procs |-> Closed]
    /\ pc = [p \in Procs |-> "idle"]
    /\ crashes = 0

\* lmc_shm_ensure_namespace_file.
EnsureFile ==
    IF file # 0 THEN UNCHANGED <<file, files>>
    ELSE /\ files < MaxFiles
         /\ files' = files + 1
         /\ file' = files + 1

\* lmc_shm_create writes a 0 to the last byte of the size it is asked for: to
\* the unused end of the table's block, or, if that size is a smaller one, to
\* whatever is there.
ZeroByteAt(q, size) ==
    IF size < q.total_size /\ q.state = "ready"
    THEN {q, [q EXCEPT !.state = "spoiled"]}
    ELSE {q}

Stretched(q, size) ==
    ZeroByteAt([q EXCEPT !.length = Max({@, size}), !.opened = @ \union {size}], size)

\* A slip: min_alloc_size is added to what the table needs.
TableAt_added(size, min) ==
    IF size - MdSize < min + HashSize THEN 0
    ELSE IF size - MdSize - (min + HashSize) < ChunkSize THEN MdSize
    ELSE size - (min + HashSize)

\* lmc_valloc for the table, from the one chunk of a pool: its last bytes, the
\* whole of it if too few are left for a chunk, 0 if it is too small.
TableAt(size, min) ==
    LET s    == Max({min, HashSize})
        free == size - MdSize
    IN  IF free < s THEN 0
        ELSE IF free - s < ChunkSize THEN MdSize
        ELSE size - s

\* lmc_init_memory and ht_hash_create: the table is the first block that is
\* allocated, with the min_alloc_size that is there: in a new file 0, at a
\* clear what the last attach stored.
Initialised(q, size) ==
    LET va == TableAt(size, q.min_alloc_size)
    IN  [q EXCEPT !.total_size = size, !.va_hash = va, !.locked = FALSE,
                  !.state = IF va = 0 THEN "spoiled" ELSE "ready"]

Attached(q, size) ==
    {IF w.state = "blank" THEN Initialised(w, size) ELSE w : w \in Stretched(q, size)}

lmc_set_min_alloc_size(q, min) ==
    [q EXCEPT !.min_alloc_size = min, !.mins = @ \union {min}]

\* local_memcache_create; it fails, with the file stretched, if the flag is set.
local_memcache_create(p, size, min) ==
    /\ pc[p] = "idle"
    /\ ~Open(p)
    /\ sem > 0
    /\ EnsureFile
    /\ \E q \in Attached(pool[file'], size) :
           /\ pool' = [pool EXCEPT ![file'] =
                           IF q.locked THEN q ELSE lmc_set_min_alloc_size(q, min)]
           /\ handle' = IF q.locked THEN handle
                        ELSE [handle EXCEPT ![p] =
                                 [file |-> file', size |-> size, va_hash |-> q.va_hash]]
    /\ UNCHANGED <<sem, csem, pc, crashes>>

-----------------------------------------------------------------------------
(***************************************************************************)
(* A call with a handle: "in" to change the table, "clear", "close".       *)
(***************************************************************************)
\* A slip: the flag is not looked at.
lmc_lock_shm_region_unflagged(p, l) ==
    /\ pc[p] = "idle"
    /\ Open(p)
    /\ sem > 0
    /\ sem' = sem - 1
    /\ pool' = [pool EXCEPT ![handle[p].file].locked = TRUE]
    /\ Goto(p, l)
    /\ UNCHANGED <<file, files, csem, handle, crashes>>

\* The flag is that of the mapped file.  A call that finds it set fails and
\* leaves everything as it was.
lmc_lock_shm_region(p, l) ==
    /\ pc[p] = "idle"
    /\ Open(p)
    /\ sem > 0
    /\ ~Mapped(p).locked
    /\ sem' = sem - 1
    /\ pool' = [pool EXCEPT ![handle[p].file].locked = TRUE]
    /\ Goto(p, l)
    /\ UNCHANGED <<file, files, csem, handle, crashes>>

\* lmc_unlock_shm_region, with the pool the call leaves.
lmc_unlock_shm_region(p, q) ==
    /\ pool' = [pool EXCEPT ![handle[p].file] = [q EXCEPT !.locked = FALSE]]
    /\ sem' = sem + 1
    /\ Goto(p, "idle")
    /\ UNCHANGED <<file, files, csem, crashes>>

\* Whether the table a handle knows is in the part of the file it maps.
Covered(h) == h.va_hash + HashSize <= h.size

\* Where the handle has the table of pool q.
Finds(h, q) == q.va_hash # 0 /\ h.va_hash = q.va_hash

\* A change of what is not the table spoils the pool.
Change(p) ==
    /\ pc[p] = "in"
    /\ Covered(handle[p])
    /\ LET q == Mapped(p)
       IN  lmc_unlock_shm_region(p,
               IF Finds(handle[p], q) THEN q ELSE [q EXCEPT !.state = "spoiled"])
    /\ UNCHANGED handle

\* The table lies outside the mapping: the access kills the process.
Fault(p) ==
    /\ pc[p] = "in"
    /\ ~Covered(handle[p])
    /\ Goto(p, "dead")
    /\ UNCHANGED <<file, files, pool, sem, csem, handle, crashes>>

\* local_memcache_clear gives the pool the size of the handle.  Without room for
\* the table it fails, md->va_hash is 0, and the handle keeps what it has.
Clear(p) ==
    /\ pc[p] = "clear"
    /\ LET q == Initialised(Mapped(p), handle[p].size)
       IN  /\ lmc_unlock_shm_region(p, q)
           /\ handle' = [handle EXCEPT ![p].va_hash =
                             IF q.va_hash = 0 THEN @ ELSE q.va_hash]

\* A slip: a part of the handle stays.
Close_file(p) ==
    /\ pc[p] = "close"
    /\ lmc_unlock_shm_region(p, Mapped(p))
    /\ handle' = [handle EXCEPT ![p].file = 0]

Close(p) ==
    /\ pc[p] = "close"
    /\ lmc_unlock_shm_region(p, Mapped(p))
    /\ handle' = [handle EXCEPT ![p] = Closed]

-----------------------------------------------------------------------------
(***************************************************************************)
(* Dropping a namespace takes no lock, and the recovery looks at the file  *)
(* twice: whether it is there, and, when it has the check lock, its size.  *)
(***************************************************************************)
Drop(p) ==
    /\ pc[p] = "idle"
    /\ file' = 0
    /\ UNCHANGED <<files, pool, sem, csem, handle, pc, crashes>>

\* With force, lmc_lock_repair makes both semaphores 1.
ForcedDrop(p) ==
    /\ pc[p] = "idle"
    /\ HeedWarning => \A q \in Procs : Live(q) => pc[q] = "idle" /\ ~Open(q)
    /\ file' = 0
    /\ sem' = 1
    /\ csem' = 1
    /\ UNCHANGED <<files, pool, handle, pc, crashes>>

Check(p) ==
    /\ pc[p] = "idle"
    /\ file # 0
    /\ csem > 0
    /\ csem' = csem - 1
    /\ Goto(p, "check")
    /\ UNCHANGED <<file, files, pool, sem, handle, crashes>>

\* Whether a process is between lmc_lock_shm_region and lmc_unlock_shm_region.
Holds(p) == pc[p] \in {"in", "clear", "close"}

\* A check waits for a live holder, and goes on without a dead one.
HolderGone == sem > 0 \/ \A p \in Procs : ~Holds(p)

\* A slip: the semaphore is posted without a look at its value.
Corrected_blindly(s) == s + 1

Corrected(s) == IF s = 0 THEN 1 ELSE s

\* What ht_redo and ht_check_memory make of a locked pool.
Repaired(q) ==
    IF q.state = "ready" THEN {"ready"}
    ELSE IF q.va_hash = 0 THEN {"torn"}
    ELSE RepairOutcomes

\* The size of the file as an int; a negative one is no size for lmc_shm_create.
lmc_namespace_size(q) ==
    LET n == q.length % IntRange
    IN  IF 2 * n < IntRange THEN n ELSE n - IntRange

\* A check in the last step of its wait, with the file it opens again.
Reopens(p) ==
    /\ pc[p] = "check"
    /\ HolderGone
    /\ file # 0 /\ lmc_namespace_size(pool[file]) > 0

Reopened == ZeroByteAt(pool[file], lmc_namespace_size(pool[file]))

\* Whether the check maps the table.
Reaches(q) == q.va_hash + HashSize <= lmc_namespace_size(q)

\* There is nothing to repair.  A check that could take the semaphore has
\* attached like any other process, with a min_alloc_size of 0.
CheckPasses(p) ==
    /\ Reopens(p)
    /\ \E q \in Reopened :
           /\ ~q.locked
           /\ pool' = [pool EXCEPT ![file] =
                           IF sem > 0 THEN lmc_set_min_alloc_size(q, 0) ELSE q]
    /\ sem' = Corrected(sem)
    /\ csem' = csem + 1
    /\ Goto(p, "idle")
    /\ UNCHANGED <<file, files, handle, crashes>>

CheckRepairs(p) ==
    /\ Reopens(p)
    /\ \E q \in Reopened :
           /\ q.locked /\ Reaches(q) /\ "ready" \in Repaired(q)
           /\ pool' = [pool EXCEPT ![file] = [q EXCEPT !.locked = FALSE, !.state = "ready"]]
    /\ sem' = Corrected(sem)
    /\ csem' = csem + 1
    /\ Goto(p, "idle")
    /\ UNCHANGED <<file, files, handle, crashes>>

\* The flag, and a semaphore it took or found at 0, stay as they are.
CheckFails(p) ==
    /\ Reopens(p)
    /\ \E q \in Reopened :
           /\ q.locked /\ Reaches(q) /\ "torn" \in Repaired(q)
           /\ pool' = [pool EXCEPT ![file] = q]
    /\ sem' = 0
    /\ csem' = csem + 1
    /\ Goto(p, "idle")
    /\ UNCHANGED <<file, files, handle, crashes>>

\* The repair looks for the table behind the end of what the check mapped.
CheckFaults(p) ==
    /\ Reopens(p)
    /\ \E q \in Reopened :
           /\ q.locked /\ ~Reaches(q)
           /\ pool' = [pool EXCEPT ![file] = q]
    /\ sem' = 0
    /\ Goto(p, "dead")
    /\ UNCHANGED <<file, files, csem, handle, crashes>>

\* The file is gone since the process asked for it, or has no bytes, or too many
\* for an int: lmc_shm_create fails, the create posts the semaphore and returns
\* NULL, and __local_memcache_free reads through it.
CheckDies(p) ==
    /\ pc[p] = "check"
    /\ HolderGone
    /\ file # 0 => lmc_namespace_size(pool[file]) <= 0
    /\ EnsureFile
    /\ sem' = Corrected(sem)
    /\ Goto(p, "dead")
    /\ UNCHANGED <<pool, csem, handle, crashes>>

\* What a process leaves of pool q if it dies in a call at label l, a clear
\* with a handle of the given size.
Remains(q, l, size) ==
    LET new == Initialised(q, size)
        torn == [q EXCEPT !.state = "torn"]
    IN  CASE l = "in"    -> {q, torn}
          [] l = "clear" -> {q, torn, [torn EXCEPT !.total_size = new.total_size],
                             [torn EXCEPT !.total_size = new.total_size, !.va_hash = new.va_hash]}
          [] l = "close" -> {q}

Crash(p) ==
    /\ Holds(p)
    /\ crashes < MaxCrashes
    /\ crashes' = crashes + 1
    /\ \E q \in Remains(Mapped(p), pc[p], handle[p].size) :
           pool' = [pool EXCEPT ![handle[p].file] = q]
    /\ Goto(p, "dead")
    /\ UNCHANGED <<file, files, sem, csem, handle>>

Next ==
    \E p \in Procs :
        \/ \E s \in Sizes, min \in MinSizes : local_memcache_create(p, s, min)
        \/ \E l \in {"in", "clear", "close"} : lmc_lock_shm_region(p, l)
        \/ Change(p) \/ Fault(p) \/ Clear(p) \/ Close(p)
        \/ Drop(p) \/ ForcedDrop(p)
        \/ Check(p) \/ CheckPasses(p) \/ CheckRepairs(p) \/ CheckFails(p)
        \/ CheckFaults(p) \/ CheckDies(p)
        \/ Crash(p)

Spec == Init /\ [][Next]_vars

-----------------------------------------------------------------------------
TypeOK ==
    /\ file \in 0 .. MaxFiles
    /\ files \in file .. MaxFiles
    /\ pool \in [Files -> Pool]
    /\ sem \in Nat /\ csem \in Nat
    /\ handle \in [Procs -> Handle \union {Closed}]
    /\ pc \in [Procs -> {"idle", "in", "clear", "close", "check", "dead"}]
    /\ crashes \in 0 .. MaxCrashes

\* Whether the file was opened with one size only.
OneSize(q) == Cardinality(q.opened) = 1

\* Whether no clear can have moved the table: no process opened the file with
\* another size or with a min_alloc_size above the size of the table.
OneTable(q) == OneSize(q) /\ \A min \in q.mins : min <= HashSize

\* A call never works on a pool a dead process left torn, with a handle of a
\* dropped file as well: the recovery that posts the semaphore for a process
\* that died in it repairs another file, and it is the flag that keeps the
\* others out of this one.  A file whose table no clear moves, and that an int can
\* tell from a shorter one, is never spoiled.
SoundPool ==
    \A p \in Procs :
        pc[p] = "in" => /\ Mapped(p).state # "torn"
                        /\ OneTable(Mapped(p)) /\ Mapped(p).length < IntRange
                              => Mapped(p).state = "ready"

\* The semaphore all files share is never posted once too often, neither for the
\* process that died in a dropped file nor by the check that finds no file.
OneToken == sem + Cardinality({p \in Procs : Holds(p)}) <= 1

\* A handle knows where the table of its file is and maps all of it, whoever
\* cleared the file or died clearing it, as long as all open it with one size
\* and none with a min_alloc_size above the size of the table.
Sound(h) == Finds(h, pool[h.file]) /\ Covered(h)

HandleSound ==
    \A p \in Procs : Live(p) /\ Open(p) /\ OneTable(Mapped(p)) => Sound(handle[p])

\* With any size, which the comment of local_memcache_create allows, and with
\* any min_alloc_size.
EveryHandleSound == \A p \in Procs : Live(p) /\ Open(p) => Sound(handle[p])

\* "It cannot be changed later": the size of a pool.
SizeFixed == [][\A f \in Files :
                    pool[f].total_size # 0 => pool[f].total_size' = pool[f].total_size]_vars

\* The library takes no process down: those that are dead died in a crash.
OnlyCrashesKill == Cardinality({p \in Procs : ~Live(p)}) = crashes

=============================================================================
