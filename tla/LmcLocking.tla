------------------------------ MODULE LmcLocking ------------------------------
(***************************************************************************)
(* The locks of a namespace (src/src/lmc_lock.c, src/src/localmemcache.c): *)
(* the semaphore and the flag in the pool that a call holds, the check     *)
(* lock, attaching to and initialising the pool, and the automatic         *)
(* recovery a waiting process starts when its two seconds are over.  Any   *)
(* process may die at any step; what it held stays held.                   *)
(*                                                                         *)
(* A label of pc is a step that touches what the processes share.  The     *)
(* content of the pool is reduced to whether it is fit for use.            *)
(***************************************************************************)
EXTENDS Integers, FiniteSets

CONSTANTS
    Procs,
    Ops,            \* the calls processes make: "set", "get", "each", "attach",
                    \* "check"
    InitPool,       \* the pool they find: "none" or "ready"
    Settled,        \* the states of the pool in which processes die, and in
                    \* which they call "check"
    RaiseAt,        \* where an exception leaves each_pair: "in" a slice, in its
                    \* "block"
    ShmFails,       \* whether lmc_shm_create may fail
    LongFile,       \* whether the file has 2 GB or more, up to 4 GB
    RepairOutcomes, \* what the recovery makes of a torn pool: "ready", "torn"
    SlowHolders,    \* whether a live process may hold a lock past its timeout
    Restarts,       \* whether the machine may restart
    MaxRetries,     \* 10 in lmc_lock_shm_region and __local_memcache_create
    MaxCrashes      \* how many processes die

ASSUME LockingAssumption ==
    /\ Ops \subseteq {"set", "get", "each", "attach", "check"}
    /\ InitPool \in {"none", "ready"}
    /\ Settled \subseteq {"none", "empty", "blank", "half", "ready", "torn"}
    /\ RaiseAt \subseteq {"in", "block"}
    /\ ShmFails \in BOOLEAN
    /\ LongFile \in BOOLEAN
    /\ RepairOutcomes \subseteq {"ready", "torn"} /\ RepairOutcomes # {}
    /\ SlowHolders \in BOOLEAN
    /\ Restarts \in BOOLEAN
    /\ MaxRetries \in Nat
    /\ MaxCrashes \in Nat

ASSUME ProcsAssumption == IsFiniteSet(Procs)

VARIABLES
    sem,        \* lmc->lock->sem
    csem,       \* check_l->sem
    locked,     \* md->locked
    pool,       \* "none" (no file), "empty" (a file of no bytes), "blank",
                \* "half" (magic set, no table yet), "ready", "torn"
    pc,
    op,         \* the call a process is in; "raised": each_pair, by an exception
    from,       \* where __local_memcache_check_namespace returns to
    tries,      \* retry_counter
    held,       \* whether a process took the semaphore, has not posted it, and
                \* has not returned without doing so
    checking,   \* the same of the check lock
    sizeless,   \* the checks that ask for a size no file has
    handle,     \* the processes that have a handle of the namespace
    crashes

vars == <<sem, csem, locked, pool, pc, op, from, tries, held, checking, sizeless, handle, crashes>>

Live(p) == pc[p] # "dead"

Goto(p, l) == pc' = [pc EXCEPT ![p] = l]

-----------------------------------------------------------------------------
(***************************************************************************)
(* The semaphores.                                                         *)
(***************************************************************************)
\* sem_timedwait gives up: the semaphore was 0 for two seconds.
TimedOut == sem = 0 /\ (SlowHolders \/ \A q \in Procs : Live(q) => ~held[q])

\* The same after the sixty seconds of lmc_lock_obtain_mandatory.
CheckTimedOut == csem = 0 /\ (SlowHolders \/ \A q \in Procs : Live(q) => ~checking[q])

\* sem_wait returns at label l.
Take(p, l, next) ==
    /\ pc[p] = l
    /\ sem > 0
    /\ sem' = sem - 1
    /\ held' = [held EXCEPT ![p] = TRUE]
    /\ Goto(p, next)
    /\ UNCHANGED <<csem, locked, pool, op, from, tries, checking, sizeless, handle, crashes>>

\* sem_post.
Release(p) ==
    /\ sem' = sem + 1
    /\ held' = [held EXCEPT ![p] = FALSE]

\* A call gives up; get and random_pair unlock the region all the same.
Fail(p) == Goto(p, IF op[p] = "get" THEN "unflag" ELSE "idle")

EnterCheck(p, l) ==
    /\ Goto(p, "check")
    /\ from' = [from EXCEPT ![p] = l]

\* A slip: the retries are not counted.
LeaveCheck_uncounted(p, repaired) ==
    /\ Goto(p, IF from[p] = "call" THEN "idle" ELSE IF repaired THEN from[p] ELSE "idle")
    /\ UNCHANGED <<tries, from>>

\* A slip: one retry too many.
LeaveCheck_once_more(p, repaired) ==
    /\ IF from[p] = "call" THEN Goto(p, "idle") /\ UNCHANGED tries
       ELSE IF repaired /\ tries[p] <= MaxRetries
            THEN Goto(p, from[p]) /\ tries' = [tries EXCEPT ![p] = @ + 1]
            ELSE Fail(p) /\ UNCHANGED tries
    /\ UNCHANGED from

\* The caller of the check goes on: it tries again, or fails.
LeaveCheck(p, repaired) ==
    /\ IF from[p] = "call" THEN Goto(p, "idle") /\ UNCHANGED tries
       ELSE IF repaired /\ tries[p] < MaxRetries
            THEN Goto(p, from[p]) /\ tries' = [tries EXCEPT ![p] = @ + 1]
            ELSE Fail(p) /\ UNCHANGED tries
    /\ UNCHANGED from

Init ==
    /\ sem = 1
    /\ csem = 1
    /\ locked = FALSE
    /\ pool = InitPool
    /\ pc = [p \in Procs |-> "idle"]
    /\ op = [p \in Procs |-> "set"]
    /\ from = [p \in Procs |-> "call"]
    /\ tries = [p \in Procs |-> 0]
    /\ held = [p \in Procs |-> FALSE]
    /\ checking = [p \in Procs |-> FALSE]
    /\ sizeless = {}
    /\ handle = IF InitPool = "ready" THEN Procs ELSE {}
    /\ crashes = 0

\* A process calls into the library.
Call(p, o) ==
    /\ pc[p] = "idle"
    /\ o \in {"set", "get", "each"} => p \in handle
    /\ o = "check" => pool \in Settled
    /\ op' = [op EXCEPT ![p] = o]
    /\ tries' = [tries EXCEPT ![p] = 0]
    /\ from' = [from EXCEPT ![p] = "call"]
    /\ Goto(p, CASE o = "attach" -> "working" [] o = "check" -> "check" [] OTHER -> "obtain")
    /\ UNCHANGED <<sem, csem, locked, pool, held, checking, sizeless, handle, crashes>>

-----------------------------------------------------------------------------
(***************************************************************************)
(* lmc_lock_shm_region, the call proper, lmc_unlock_shm_region.            *)
(***************************************************************************)
Obtain(p) == Take(p, "obtain", "flag")

\* A slip: a call that times out fails and checks nothing.
ObtainLate_fails(p) ==
    /\ pc[p] = "obtain"
    /\ TimedOut
    /\ Fail(p)
    /\ UNCHANGED <<sem, csem, locked, pool, op, from, tries, held, checking, sizeless, handle, crashes>>

ObtainLate(p) ==
    /\ pc[p] = "obtain"
    /\ TimedOut
    /\ EnterCheck(p, "obtain")
    /\ UNCHANGED <<sem, csem, locked, pool, op, tries, held, checking, sizeless, handle, crashes>>

\* lmc_set_lock_flag; the forced create of the check goes on without it.
lmc_set_lock_flag(p) ==
    /\ pc[p] = "flag"
    /\ IF locked
       THEN /\ Goto(p, IF checking[p] THEN "decide" ELSE "giveback")
            /\ UNCHANGED locked
       ELSE /\ Goto(p, IF checking[p] \/ op[p] = "attach" THEN "unflag" ELSE "in")
            /\ locked' = TRUE
    /\ UNCHANGED <<sem, csem, pool, op, from, tries, held, checking, sizeless, handle, crashes>>

GiveBack(p) ==
    /\ pc[p] = "giveback"
    /\ Release(p)
    /\ Fail(p)
    /\ UNCHANGED <<csem, locked, pool, op, from, tries, checking, sizeless, handle, crashes>>

\* The call reads or changes the table; a crash here is Crash.
Work(p) ==
    /\ pc[p] = "in"
    /\ Goto(p, "unflag")
    /\ UNCHANGED <<sem, csem, locked, pool, op, from, tries, held, checking, sizeless, handle, crashes>>

\* A slip: the flag stays set.
lmc_release_lock_flag_kept(p) ==
    /\ pc[p] = "unflag"
    /\ Goto(p, "post")
    /\ UNCHANGED <<sem, csem, locked, pool, op, from, tries, held, checking, sizeless, handle, crashes>>

lmc_release_lock_flag(p) ==
    /\ pc[p] = "unflag"
    /\ locked' = FALSE
    /\ Goto(p, "post")
    /\ UNCHANGED <<sem, csem, pool, op, from, tries, held, checking, sizeless, handle, crashes>>

\* each_pair yields the pairs of its slice when the region is unlocked.
Return(p) ==
    /\ Goto(p, IF op[p] = "each" THEN "block" ELSE "idle")
    /\ handle' = IF op[p] = "attach" THEN handle \union {p} ELSE handle

\* A slip: a check that found nothing wrong corrects the semaphore all the same.
Post_corrects(p) ==
    /\ pc[p] = "post"
    /\ Release(p)
    /\ IF checking[p]
       THEN Goto(p, "getvalue") /\ UNCHANGED handle
       ELSE Return(p)
    /\ UNCHANGED <<csem, locked, pool, op, from, tries, checking, sizeless, crashes>>

Post(p) ==
    /\ pc[p] = "post"
    /\ Release(p)
    /\ IF checking[p]
       THEN Goto(p, "free") /\ UNCHANGED handle
       ELSE Return(p)
    /\ UNCHANGED <<csem, locked, pool, op, from, tries, checking, sizeless, crashes>>

-----------------------------------------------------------------------------
(***************************************************************************)
(* each_pair and keys of the Ruby binding, one slice of the table to a     *)
(* call of local_memcache_iterate.                                         *)
(***************************************************************************)
\* The next slice, in a call of its own.
NextSlice(p) ==
    /\ pc[p] = "block"
    /\ Goto(p, "obtain")
    /\ tries' = [tries EXCEPT ![p] = 0]
    /\ UNCHANGED <<sem, csem, locked, pool, op, from, held, checking, sizeless, handle, crashes>>

LastSlice(p) ==
    /\ pc[p] = "block"
    /\ Goto(p, "idle")
    /\ UNCHANGED <<sem, csem, locked, pool, op, from, tries, held, checking, sizeless, handle, crashes>>

\* rb_protect catches the exception, and the region is unlocked.
Raise(p) ==
    /\ op[p] = "each"
    /\ pc[p] \in RaiseAt
    /\ op' = [op EXCEPT ![p] = "raised"]
    /\ Goto(p, "unflag")
    /\ UNCHANGED <<sem, csem, locked, pool, from, tries, held, checking, sizeless, handle, crashes>>

-----------------------------------------------------------------------------
(***************************************************************************)
(* __local_memcache_create, with force if the process is checking.         *)
(***************************************************************************)
\* lmc_is_lock_working takes the semaphore and posts it at once.
Working(p) == Take(p, "working", "probe")

\* The forced create goes on without the semaphore: ok is 0.
WorkingLate(p) ==
    /\ pc[p] = "working"
    /\ TimedOut
    /\ IF checking[p] THEN Goto(p, "map") /\ UNCHANGED from
       ELSE EnterCheck(p, "working")
    /\ UNCHANGED <<sem, csem, locked, pool, op, tries, held, checking, sizeless, handle, crashes>>

Probe(p) ==
    /\ pc[p] = "probe"
    /\ Release(p)
    /\ Goto(p, "lock")
    /\ UNCHANGED <<csem, locked, pool, op, from, tries, checking, sizeless, handle, crashes>>

Lock(p) == Take(p, "lock", "map")

\* create returns NULL; the check passes it to __local_memcache_free, which
\* reads through it: the process dies and keeps the check lock.
LockLate(p) ==
    /\ pc[p] = "lock"
    /\ TimedOut
    /\ Goto(p, IF checking[p] THEN "dead" ELSE "idle")
    /\ UNCHANGED <<sem, csem, locked, pool, op, from, tries, held, checking, sizeless, handle, crashes>>

\* The file is there from open(O_CREAT) on, and has a size from the write on.
lmc_shm_ensure_namespace_file(p) ==
    /\ pc[p] = "map"
    /\ pool' = IF pool = "none" THEN "empty" ELSE pool
    /\ Goto(p, "size")
    /\ UNCHANGED <<sem, csem, locked, op, from, tries, held, checking, sizeless, handle, crashes>>

\* A slip: every pool is initialised.
lmc_shm_create_init(p) ==
    /\ pc[p] = "size"
    /\ p \notin sizeless
    /\ pool' = IF pool = "empty" THEN "blank" ELSE pool
    /\ Goto(p, IF held[p] THEN "init" ELSE "decide")
    /\ UNCHANGED <<sem, csem, locked, op, from, tries, held, checking, sizeless, handle, crashes>>

\* lmc_shm_create and is_lmc_already_initialized, which no check without the
\* semaphore asks.
lmc_shm_create(p) ==
    /\ pc[p] = "size"
    /\ p \notin sizeless
    /\ pool' = IF pool = "empty" THEN "blank" ELSE pool
    /\ Goto(p, IF ~held[p] THEN "decide" ELSE IF pool' = "blank" THEN "init" ELSE "flag")
    /\ UNCHANGED <<sem, csem, locked, op, from, tries, held, checking, sizeless, handle, crashes>>

\* lmc_shm_create returns NULL, always if it seeks to the end of no size.  The
\* create posts the semaphore, taken or not, and returns NULL as well.
lmc_shm_create_fails(p) ==
    /\ pc[p] = "size"
    /\ ShmFails \/ p \in sizeless
    /\ Release(p)
    /\ Goto(p, IF checking[p] THEN "dead" ELSE "idle")
    /\ UNCHANGED <<csem, locked, pool, op, from, tries, checking, sizeless, handle, crashes>>

\* lmc_init_memory sets magic first and locked later.
InitMagic(p) ==
    /\ pc[p] = "init"
    /\ pool' = "half"
    /\ Goto(p, "initflag")
    /\ UNCHANGED <<sem, csem, locked, op, from, tries, held, checking, sizeless, handle, crashes>>

InitFlag(p) ==
    /\ pc[p] = "initflag"
    /\ locked' = TRUE
    /\ Goto(p, "inithash")
    /\ UNCHANGED <<sem, csem, pool, op, from, tries, held, checking, sizeless, handle, crashes>>

\* ht_hash_create and md->va_hash.
InitHash(p) ==
    /\ pc[p] = "inithash"
    /\ pool' = "ready"
    /\ Goto(p, "unflag")
    /\ UNCHANGED <<sem, csem, locked, op, from, tries, held, checking, sizeless, handle, crashes>>

-----------------------------------------------------------------------------
(***************************************************************************)
(* __local_memcache_check_namespace: under the check lock, a forced create *)
(* (from "working" to "flag"); if that found the lock or the flag taken    *)
(* it is at "decide", else at "free".                                      *)
(***************************************************************************)
\* lmc_clear_namespace_lock hashes the name twice: it repairs two semaphores
\* nobody uses.
CheckNothing(p) ==
    /\ pc[p] = "check"
    /\ pool = "none"
    /\ LeaveCheck(p, TRUE)
    /\ UNCHANGED <<sem, csem, locked, pool, op, held, checking, sizeless, handle, crashes>>

\* A slip: the check goes on without its lock.
CheckObtain_unlocked(p) ==
    /\ pc[p] = "check"
    /\ pool # "none"
    /\ checking' = [checking EXCEPT ![p] = TRUE]
    /\ Goto(p, "working")
    /\ UNCHANGED <<sem, csem, locked, pool, op, from, tries, held, sizeless, handle, crashes>>

\* The check lock, and the size of the file to attach to: 0 if it has no bytes,
\* and as an int a negative one from 2 GB on.
CheckObtain(p) ==
    /\ pc[p] = "check"
    /\ pool # "none"
    /\ csem > 0
    /\ csem' = csem - 1
    /\ checking' = [checking EXCEPT ![p] = TRUE]
    /\ sizeless' = IF pool = "empty" \/ LongFile THEN sizeless \union {p} ELSE sizeless
    /\ Goto(p, "working")
    /\ UNCHANGED <<sem, locked, pool, op, from, tries, held, handle, crashes>>

\* A slip: the wrong label, which posts the check lock.
CheckLate_posts(p) ==
    /\ pc[p] = "check"
    /\ pool # "none"
    /\ CheckTimedOut
    /\ csem' = csem + 1
    /\ LeaveCheck(p, FALSE)
    /\ UNCHANGED <<sem, locked, pool, op, held, checking, sizeless, handle, crashes>>

CheckLate(p) ==
    /\ pc[p] = "check"
    /\ pool # "none"
    /\ CheckTimedOut
    /\ LeaveCheck(p, FALSE)
    /\ UNCHANGED <<sem, csem, locked, pool, op, held, checking, sizeless, handle, crashes>>

Decide(p) ==
    /\ pc[p] = "decide"
    /\ Goto(p, IF locked THEN "repair" ELSE "getvalue")
    /\ UNCHANGED <<sem, csem, locked, pool, op, from, tries, held, checking, sizeless, handle, crashes>>

\* A slip: what the repair returns is ignored.
Repair_ignored(p) ==
    /\ pc[p] = "repair"
    /\ pool' \in IF pool = "torn" THEN RepairOutcomes ELSE {pool}
    /\ Goto(p, "unlock")
    /\ UNCHANGED <<sem, csem, locked, op, from, tries, held, checking, sizeless, handle, crashes>>

\* ht_redo and ht_check_memory; a pool without a table fails the check.
Repair(p) ==
    /\ pc[p] = "repair"
    /\ pool' \in IF pool = "torn" THEN RepairOutcomes ELSE {pool}
    /\ Goto(p, IF pool' = "ready" THEN "unlock" ELSE "failed")
    /\ UNCHANGED <<sem, csem, locked, op, from, tries, held, checking, sizeless, handle, crashes>>

Unlock(p) ==
    /\ pc[p] = "unlock"
    /\ locked' = FALSE
    /\ Goto(p, "getvalue")
    /\ UNCHANGED <<sem, csem, pool, op, from, tries, held, checking, sizeless, handle, crashes>>

GetValue(p) ==
    /\ pc[p] = "getvalue"
    /\ Goto(p, IF sem = 0 THEN "correct" ELSE "free")
    /\ UNCHANGED <<sem, csem, locked, pool, op, from, tries, held, checking, sizeless, handle, crashes>>

\* The post on behalf of the process that did not make it.
Correct(p) ==
    /\ pc[p] = "correct"
    /\ Release(p)
    /\ Goto(p, "free")
    /\ UNCHANGED <<csem, locked, pool, op, from, tries, checking, sizeless, handle, crashes>>

\* local_memcache_free locks the region.  If that times out the process checks
\* the namespace once more, waits sixty seconds for the check lock it holds
\* itself, and gives up.
Free(p) == Take(p, "free", "freeflag")

FreeLate(p) ==
    /\ pc[p] = "free"
    /\ TimedOut
    /\ Goto(p, "done")
    /\ UNCHANGED <<sem, csem, locked, pool, op, from, tries, held, checking, sizeless, handle, crashes>>

FreeFlag(p) ==
    /\ pc[p] = "freeflag"
    /\ locked' = TRUE
    /\ Goto(p, IF locked THEN "freepost" ELSE "freeunflag")
    /\ UNCHANGED <<sem, csem, pool, op, from, tries, held, checking, sizeless, handle, crashes>>

FreeUnflag(p) ==
    /\ pc[p] = "freeunflag"
    /\ locked' = FALSE
    /\ Goto(p, "freepost")
    /\ UNCHANGED <<sem, csem, pool, op, from, tries, held, checking, sizeless, handle, crashes>>

FreePost(p) ==
    /\ pc[p] = "freepost"
    /\ Release(p)
    /\ Goto(p, "done")
    /\ UNCHANGED <<csem, locked, pool, op, from, tries, checking, sizeless, handle, crashes>>

\* A check that fails does not post the semaphore, if it has it: nobody will.
CheckRelease(p) ==
    /\ pc[p] \in {"done", "failed"}
    /\ csem' = csem + 1
    /\ checking' = [checking EXCEPT ![p] = FALSE]
    /\ held' = [held EXCEPT ![p] = FALSE]
    /\ LeaveCheck(p, pc[p] = "done")
    /\ UNCHANGED <<sem, locked, pool, op, sizeless, handle, crashes>>

-----------------------------------------------------------------------------
\* A process dies; inside a set it may leave the pool torn.
Crash(p) ==
    /\ pc[p] \notin {"idle", "dead"}
    /\ pool \in Settled
    /\ crashes < MaxCrashes
    /\ crashes' = crashes + 1
    /\ pool' \in IF pc[p] = "in" /\ op[p] = "set" THEN {pool, "torn"} ELSE {pool}
    /\ Goto(p, "dead")
    /\ UNCHANGED <<sem, csem, locked, op, from, tries, held, checking, sizeless, handle>>

\* The machine restarts.  The file, with the flag in it, is still there, as the
\* processes left it; the semaphores are not, and sem_open makes new ones.
Restart ==
    /\ Restarts
    /\ pool \in Settled
    /\ pool' \in IF \E p \in Procs : pc[p] = "in" /\ op[p] = "set" THEN {pool, "torn"} ELSE {pool}
    /\ sem' = 1
    /\ csem' = 1
    /\ pc' = [p \in Procs |-> "idle"]
    /\ held' = [p \in Procs |-> FALSE]
    /\ checking' = [p \in Procs |-> FALSE]
    /\ sizeless' = {}
    /\ handle' = {}
    /\ UNCHANGED <<locked, op, from, tries, crashes>>

Step(p) ==
    \/ Obtain(p) \/ ObtainLate(p) \/ lmc_set_lock_flag(p) \/ GiveBack(p)
    \/ Work(p) \/ lmc_release_lock_flag(p) \/ Post(p)
    \/ NextSlice(p) \/ LastSlice(p)
    \/ Working(p) \/ WorkingLate(p) \/ Probe(p) \/ Lock(p) \/ LockLate(p)
    \/ lmc_shm_ensure_namespace_file(p) \/ lmc_shm_create(p) \/ lmc_shm_create_fails(p)
    \/ InitMagic(p) \/ InitFlag(p) \/ InitHash(p)
    \/ CheckNothing(p) \/ CheckObtain(p) \/ CheckLate(p) \/ Decide(p) \/ Repair(p) \/ Unlock(p)
    \/ GetValue(p) \/ Correct(p)
    \/ Free(p) \/ FreeLate(p) \/ FreeFlag(p) \/ FreeUnflag(p) \/ FreePost(p)
    \/ CheckRelease(p)

Next ==
    \/ \E p \in Procs :
          \/ \E o \in Ops : Call(p, o)
          \/ Step(p)
          \/ Raise(p)
          \/ Crash(p)
    \/ Restart

Spec == Init /\ [][Next]_vars

\* A process that is inside a call goes on with it.
StepFairness == \A p \in Procs : WF_vars(Step(p))

\* The processes that are left keep using the namespace.
CallFairness == \A p \in Procs : WF_vars(\E o \in Ops : Call(p, o))

LiveSpec == Spec /\ StepFairness

UsedSpec == LiveSpec /\ CallFairness

-----------------------------------------------------------------------------
(***************************************************************************)
(* Properties.                                                             *)
(***************************************************************************)
Labels == {"idle", "dead", "obtain", "flag", "giveback", "in", "unflag", "post", "block",
           "working", "probe", "lock", "map", "size", "init", "initflag", "inithash",
           "check", "decide", "repair", "unlock", "getvalue", "correct", "free",
           "freeflag", "freeunflag", "freepost", "done", "failed"}

TypeOK ==
    /\ sem \in Nat /\ csem \in Nat
    /\ locked \in BOOLEAN
    /\ pool \in {"none", "empty", "blank", "half", "ready", "torn"}
    /\ pc \in [Procs -> Labels]
    /\ op \in [Procs -> {"set", "get", "each", "raised", "attach", "check"}]
    /\ from \in [Procs -> {"call", "obtain", "working"}]
    /\ tries \in [Procs -> 0 .. MaxRetries]
    /\ held \in [Procs -> BOOLEAN]
    /\ checking \in [Procs -> BOOLEAN]
    /\ sizeless \subseteq Procs
    /\ handle \subseteq Procs
    /\ crashes \in 0 .. MaxCrashes

\* Where a process reads or writes the table or the free list.
InPool == {"in", "init", "initflag", "inithash", "repair"}

\* Parallel writes: no two processes are in the pool at once, the one that
\* repairs it for a dead one included.
MutualExclusion ==
    \A p, q \in Procs : pc[p] \in InPool /\ pc[q] \in InPool => p = q

\* A call that got the lock finds a pool that is initialised and, if a process
\* died in it, repaired.
SoundPool == \A p \in Procs : pc[p] = "in" => pool = "ready"

\* The semaphore is posted once for every time it was taken, the post for a dead
\* holder included: it and its live holders never add up to more than one.
OneToken == sem + Cardinality({p \in Procs : held[p] /\ Live(p)}) <= 1

\* Two recoveries never run at once.
OneChecker == csem + Cardinality({p \in Procs : checking[p]}) = 1

\* The flag is never set while the semaphore is free: every call would fail in
\* lmc_set_lock_flag, none would time out, and so none would start a recovery.
FlagNeedsToken == locked => sem = 0

\* The library takes no process down: those that are dead died in a crash.
OnlyCrashesKill == Cardinality({p \in Procs : ~Live(p)}) = crashes

\* The table is made once; nobody makes an empty one over it.
Made == pool \in {"ready", "torn"}

InitialisedOnce == [][Made => Made']_vars

\* Nobody waits for a lock or retries a repair for ever.
EveryCallReturns ==
    \A p \in Procs : pc[p] # "idle" ~> pc[p] \in {"idle", "dead"}

\* The semaphore a dead process took comes back while there are processes left
\* to use the namespace.
Lost == sem = 0 /\ \A p \in Procs : Live(p) => ~held[p]

Recovers == Lost ~> (~Lost \/ \A p \in Procs : ~Live(p))

=============================================================================
