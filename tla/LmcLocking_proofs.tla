-------------------------- MODULE LmcLocking_proofs --------------------------
(***************************************************************************)
(* The check lock of a namespace is never posted once too often: of any    *)
(* number of processes that wait, time out, die at any step or fail to     *)
(* repair the pool, at most one is recovering the namespace.               *)
(***************************************************************************)
EXTENDS LmcLocking, LmcFacts

\* The labels behind the forced create of a check; a call that checks nothing
\* never gets there.
CheckOnly ==
    {"decide", "repair", "unlock", "getvalue", "correct", "free", "freeflag",
     "freeunflag", "freepost", "done", "failed"}

\* The labels a process has not taken the check lock for, or has posted it at.
CallOnly == {"idle", "obtain", "giveback", "in", "block", "check"}

\* Where a process stands tells whether it has the check lock.  In the create it
\* has it if it goes on without the semaphore.
LabelsFit ==
    \A p \in Procs :
        /\ pc[p] \in CheckOnly => checking[p]
        /\ pc[p] \in CallOnly => ~checking[p]
        /\ pc[p] \in {"map", "size"} /\ ~held[p] => checking[p]

Placed == TypeOK /\ LabelsFit

IInv == Placed /\ OneChecker

-----------------------------------------------------------------------------
\* Every step keeps the types and leaves each process where it may be.
LEMMA PlacedStep == Placed /\ [Next]_vars => Placed'
<1> SUFFICES ASSUME Placed, [Next]_vars PROVE Placed'
  OBVIOUS
<1> USE LockingAssumption DEF Placed, TypeOK, LabelsFit, Labels, CheckOnly, CallOnly
<1>1. ASSUME NEW p \in Procs, NEW o \in Ops, Call(p, o) PROVE Placed'
  BY <1>1 DEF Call, Goto
<1>2. ASSUME NEW p \in Procs, Obtain(p) PROVE Placed'
  BY <1>2 DEF Obtain, Take, Goto
<1>3. ASSUME NEW p \in Procs, ObtainLate(p) PROVE Placed'
  BY <1>3 DEF ObtainLate, EnterCheck, Goto
<1>4. ASSUME NEW p \in Procs, lmc_set_lock_flag(p) PROVE Placed'
  <2>1. /\ pc[p] = "flag"
        /\ UNCHANGED <<sem, csem, pool, op, from, tries, held, checking, sizeless, handle, crashes>>
    BY <1>4 DEF lmc_set_lock_flag
  <2>2. PICK l \in {"decide", "giveback", "in", "unflag"} :
            /\ pc' = [pc EXCEPT ![p] = l]
            /\ l \in {"giveback", "in"} => ~checking[p]
            /\ l = "decide" => checking[p]
    BY <1>4 DEF lmc_set_lock_flag, Goto
  <2>3. locked' \in BOOLEAN
    BY <1>4 DEF lmc_set_lock_flag
  <2>4. TypeOK'
    BY <2>1, <2>2, <2>3
  <2>5. LabelsFit'
    BY <2>1, <2>2
  <2> QED
    BY <2>4, <2>5
<1>5. ASSUME NEW p \in Procs, GiveBack(p) PROVE Placed'
  BY <1>5 DEF GiveBack, Release, Fail, Goto
<1>6. ASSUME NEW p \in Procs, Work(p) PROVE Placed'
  BY <1>6 DEF Work, Goto
<1>7. ASSUME NEW p \in Procs, lmc_release_lock_flag(p) PROVE Placed'
  BY <1>7 DEF lmc_release_lock_flag, Goto
<1>8. ASSUME NEW p \in Procs, Post(p) PROVE Placed'
  BY <1>8 DEF Post, Release, Return, Goto
<1>9. ASSUME NEW p \in Procs, NextSlice(p) PROVE Placed'
  BY <1>9 DEF NextSlice, Goto
<1>10. ASSUME NEW p \in Procs, LastSlice(p) PROVE Placed'
  BY <1>10 DEF LastSlice, Goto
<1>11. ASSUME NEW p \in Procs, Working(p) PROVE Placed'
  BY <1>11 DEF Working, Take, Goto
<1>12. ASSUME NEW p \in Procs, WorkingLate(p) PROVE Placed'
  BY <1>12 DEF WorkingLate, EnterCheck, Goto
<1>13. ASSUME NEW p \in Procs, Probe(p) PROVE Placed'
  BY <1>13 DEF Probe, Release, Goto
<1>14. ASSUME NEW p \in Procs, Lock(p) PROVE Placed'
  BY <1>14 DEF Lock, Take, Goto
<1>15. ASSUME NEW p \in Procs, LockLate(p) PROVE Placed'
  BY <1>15 DEF LockLate, Goto
<1>16. ASSUME NEW p \in Procs, lmc_shm_ensure_namespace_file(p) PROVE Placed'
  BY <1>16 DEF lmc_shm_ensure_namespace_file, Goto
<1>17. ASSUME NEW p \in Procs, lmc_shm_create(p) PROVE Placed'
  BY <1>17 DEF lmc_shm_create, Goto
<1>18. ASSUME NEW p \in Procs, lmc_shm_create_fails(p) PROVE Placed'
  BY <1>18 DEF lmc_shm_create_fails, Release, Goto
<1>19. ASSUME NEW p \in Procs, InitMagic(p) PROVE Placed'
  BY <1>19 DEF InitMagic, Goto
<1>20. ASSUME NEW p \in Procs, InitFlag(p) PROVE Placed'
  BY <1>20 DEF InitFlag, Goto
<1>21. ASSUME NEW p \in Procs, InitHash(p) PROVE Placed'
  BY <1>21 DEF InitHash, Goto
<1>22. ASSUME NEW p \in Procs, CheckNothing(p) PROVE Placed'
  BY <1>22 DEF CheckNothing, LeaveCheck, Fail, Goto
<1>23. ASSUME NEW p \in Procs, CheckObtain(p) PROVE Placed'
  BY <1>23 DEF CheckObtain, Goto
<1>24. ASSUME NEW p \in Procs, CheckLate(p) PROVE Placed'
  BY <1>24 DEF CheckLate, LeaveCheck, Fail, Goto
<1>25. ASSUME NEW p \in Procs, Decide(p) PROVE Placed'
  BY <1>25 DEF Decide, Goto
<1>26. ASSUME NEW p \in Procs, Repair(p) PROVE Placed'
  BY <1>26 DEF Repair, Goto
<1>27. ASSUME NEW p \in Procs, Unlock(p) PROVE Placed'
  BY <1>27 DEF Unlock, Goto
<1>28. ASSUME NEW p \in Procs, GetValue(p) PROVE Placed'
  BY <1>28 DEF GetValue, Goto
<1>29. ASSUME NEW p \in Procs, Correct(p) PROVE Placed'
  BY <1>29 DEF Correct, Release, Goto
<1>30. ASSUME NEW p \in Procs, Free(p) PROVE Placed'
  BY <1>30 DEF Free, Take, Goto
<1>31. ASSUME NEW p \in Procs, FreeLate(p) PROVE Placed'
  BY <1>31 DEF FreeLate, Goto
<1>32. ASSUME NEW p \in Procs, FreeFlag(p) PROVE Placed'
  BY <1>32 DEF FreeFlag, Goto
<1>33. ASSUME NEW p \in Procs, FreeUnflag(p) PROVE Placed'
  BY <1>33 DEF FreeUnflag, Goto
<1>34. ASSUME NEW p \in Procs, FreePost(p) PROVE Placed'
  BY <1>34 DEF FreePost, Release, Goto
<1>35. ASSUME NEW p \in Procs, CheckRelease(p) PROVE Placed'
  BY <1>35 DEF CheckRelease, LeaveCheck, Fail, Goto
<1>36. ASSUME NEW p \in Procs, Raise(p) PROVE Placed'
  BY <1>36 DEF Raise, Goto
<1>37. ASSUME NEW p \in Procs, Crash(p) PROVE Placed'
  BY <1>37 DEF Crash, Goto
<1>38. ASSUME Restart PROVE Placed'
  BY <1>38 DEF Restart, Goto
<1>39. ASSUME UNCHANGED vars PROVE Placed'
  BY <1>39 DEF vars, Goto
<1> QED
  BY <1>1, <1>2, <1>3, <1>4, <1>5, <1>6, <1>7, <1>8, <1>9, <1>10, <1>11, <1>12, <1>13, <1>14, <1>15, <1>16, <1>17, <1>18, <1>19, <1>20, <1>21, <1>22, <1>23, <1>24, <1>25, <1>26, <1>27, <1>28, <1>29, <1>30, <1>31, <1>32, <1>33, <1>34, <1>35, <1>36, <1>37, <1>38, <1>39 DEF Next, Step

-----------------------------------------------------------------------------
Checkers == {p \in Procs : checking[p]}

\* At most finitely many processes hold the check lock: OneChecker counts them.
LEMMA CheckersFinite == IsFiniteSet(Checkers) /\ Cardinality(Checkers) \in Nat
<1>1. IsFiniteSet(Checkers)
  BY ProcsAssumption, FS_Subset DEF Checkers
<1> QED
  BY <1>1, FS_CardinalityType

\* Only the check lock is taken by CheckObtain, from a process that does not
\* have it, and posted by CheckRelease, from one that does.
LEMMA CheckersStep == IInv /\ [Next]_vars => OneChecker'
<1> SUFFICES ASSUME IInv, [Next]_vars PROVE OneChecker'
  OBVIOUS
<1> USE DEF IInv, Placed
<1>0. csem \in Nat /\ csem + Cardinality(Checkers) = 1
  BY DEF TypeOK, OneChecker, Checkers
<1>1. ASSUME NEW p \in Procs, CheckObtain(p) PROVE OneChecker'
  <2>1. ~checking[p]
    BY <1>1 DEF CheckObtain, LabelsFit, CallOnly
  <2>2. Checkers' = Checkers \union {p} /\ p \notin Checkers
    BY <1>1, <2>1 DEF CheckObtain, Checkers, TypeOK
  <2>3. Cardinality(Checkers') = Cardinality(Checkers) + 1
    BY <2>2, CheckersFinite, FS_AddElement
  <2>4. csem' = csem - 1
    BY <1>1 DEF CheckObtain
  <2> QED
    BY <1>0, <2>3, <2>4, CheckersFinite DEF OneChecker, Checkers
<1>2. ASSUME NEW p \in Procs, CheckRelease(p) PROVE OneChecker'
  <2>1. checking[p]
    BY <1>2 DEF CheckRelease, LabelsFit, CheckOnly
  <2>2. Checkers' = Checkers \ {p} /\ p \in Checkers
    BY <1>2, <2>1 DEF CheckRelease, Checkers, TypeOK
  <2>3. Cardinality(Checkers') = Cardinality(Checkers) - 1
    BY <2>2, CheckersFinite, FS_RemoveElement
  <2>4. csem' = csem + 1
    BY <1>2 DEF CheckRelease
  <2> QED
    BY <1>0, <2>3, <2>4, CheckersFinite DEF OneChecker, Checkers
<1>3. ASSUME Restart PROVE OneChecker'
  <2>1. {p \in Procs : checking'[p]} = {} /\ csem' = 1
    BY <1>3 DEF Restart
  <2> QED
    BY <2>1, FS_EmptySet DEF OneChecker
<1>4. ASSUME UNCHANGED <<csem, checking>> PROVE OneChecker'
  BY <1>0, <1>4 DEF OneChecker, Checkers
<1>5. ASSUME NEW p \in Procs, Step(p), ~CheckObtain(p), ~CheckRelease(p)
      PROVE  UNCHANGED <<csem, checking>>
  BY <1>5 DEF Step,
    Obtain, Take, ObtainLate, EnterCheck, lmc_set_lock_flag, GiveBack,
    Release, Fail, Work, lmc_release_lock_flag, Post, Return, NextSlice,
    LastSlice, Working, WorkingLate, Probe, Lock, LockLate,
    lmc_shm_ensure_namespace_file, lmc_shm_create, lmc_shm_create_fails,
    InitMagic, InitFlag, InitHash, CheckNothing, LeaveCheck, CheckLate,
    Decide, Repair, Unlock, GetValue, Correct, Free, FreeLate, FreeFlag,
    FreeUnflag, FreePost
<1>6. ASSUME NEW p \in Procs, Raise(p) \/ Crash(p) \/ \E o \in Ops : Call(p, o)
      PROVE  UNCHANGED <<csem, checking>>
  BY <1>6 DEF Raise, Crash, Call
<1>7. ASSUME UNCHANGED vars PROVE UNCHANGED <<csem, checking>>
  BY <1>7 DEF vars
<1> QED
  BY <1>1, <1>2, <1>3, <1>4, <1>5, <1>6, <1>7 DEF Next

-----------------------------------------------------------------------------
\* A fresh system satisfies the invariant: nobody holds the check lock.
LEMMA InitHolds == Init => IInv
<1> SUFFICES ASSUME Init PROVE IInv
  OBVIOUS
<1>1. TypeOK
  <2>1. /\ sem \in Nat /\ csem \in Nat /\ locked \in BOOLEAN
        /\ sizeless \subseteq Procs /\ handle \subseteq Procs
    BY DEF Init
  <2>2. /\ pool \in {"none", "empty", "blank", "half", "ready", "torn"}
        /\ crashes \in 0 .. MaxCrashes
    BY LockingAssumption DEF Init
  <2>3. /\ pc \in [Procs -> Labels]
        /\ op \in [Procs -> {"set", "get", "each", "raised", "attach", "check"}]
        /\ from \in [Procs -> {"call", "obtain", "working"}]
    BY DEF Init, Labels
  <2>4. /\ tries \in [Procs -> 0 .. MaxRetries]
        /\ held \in [Procs -> BOOLEAN]
        /\ checking \in [Procs -> BOOLEAN]
    BY LockingAssumption DEF Init
  <2> QED
    BY <2>1, <2>2, <2>3, <2>4 DEF TypeOK
<1>2. LabelsFit
  BY DEF Init, LabelsFit, CheckOnly, CallOnly
<1>3. {p \in Procs : checking[p]} = {} /\ csem = 1
  BY DEF Init
<1> QED
  BY <1>1, <1>2, <1>3, FS_EmptySet DEF IInv, Placed, OneChecker

\* The types, where the check lock may be held, and that it is held once.
THEOREM LockingInvariant == Spec => []IInv
<1>1. IInv /\ [Next]_vars => IInv'
  BY PlacedStep, CheckersStep DEF IInv
<1> QED
  BY <1>1, InitHolds, PTL DEF Spec

\* The state of the locks has its types, for any number of processes, crashes
\* and retries.
THEOREM LockingTypeCorrect == Spec => []TypeOK
<1>1. IInv => TypeOK
  BY DEF IInv, Placed
<1> QED
  BY <1>1, LockingInvariant, PTL

\* Two recoveries never run at once, and the check lock is never worth more
\* than one: with processes that die, that are slow, that restart, or whose
\* calls of lmc_shm_create fail.
THEOREM OneRecovery == Spec => []OneChecker
<1>1. IInv => OneChecker
  BY DEF IInv
<1> QED
  BY <1>1, LockingInvariant, PTL

-----------------------------------------------------------------------------
(***************************************************************************)
(* The lock of the region: one process in the pool, the one that repairs   *)
(* it for a dead one included, nobody in a pool that is torn or not made,  *)
(* and no token more than there should be, for any number of processes and *)
(* of crashes between any two steps.                                       *)
(***************************************************************************)
\* What these theorems assume.  Each conjunct leaves out a case in which the
\* code fails, and which a configuration of its own shows: a get unlocks what it
\* did not lock, and so does an exception in the block of each_pair; a creator
\* that dies before the table is made leaves a pool that counts as made; whoever
\* holds the semaphore for two seconds is taken for dead.
Careful ==
    /\ "get" \notin Ops
    /\ "block" \notin RaiseAt
    /\ Settled \subseteq {"ready", "torn"}
    /\ ~SlowHolders

\* The flag lives in the file, the semaphore does not, and a create that fails
\* in lmc_shm_create posts a semaphore it may not have: where the flag must fit
\* the semaphore, neither may happen, nor may the file be too long for an int.
Unbroken == ~ShmFails /\ ~LongFile /\ ~Restarts

-----------------------------------------------------------------------------
Holders == {p \in Procs : held[p] /\ Live(p)}

\* The one who had the semaphore is gone, and only a recovery posts it for him.
Orphaned == sem = 0 /\ Holders = {}

\* The labels at which a process has the semaphore.
Inside ==
    {"flag", "giveback", "in", "unflag", "post", "probe", "init", "initflag",
     "inithash", "freeflag", "freeunflag", "freepost"}

\* The labels at which it has the semaphore or does without.
Attaching == {"map", "size", "decide", "repair", "unlock", "getvalue", "correct", "failed"}

\* The labels of a create before there is a table to attach to.
Creating ==
    {"idle", "working", "probe", "lock", "map", "size", "init", "initflag", "inithash"}

\* Who does without the semaphore does so for one who is gone.
Fits(p) ==
    /\ pc[p] \in Inside => held[p]
    /\ pc[p] \in Attaching => held[p] \/ Orphaned
    /\ pc[p] \notin Inside \union Attaching \union {"dead"} => ~held[p]
    /\ pc[p] \in {"in", "unflag", "freeunflag"} => pool = "ready"
    /\ pc[p] = "in" => locked
    /\ pc[p] \in {"getvalue", "correct"} => ~locked
    /\ pc[p] = "unlock" => pool = "ready"
    /\ op[p] # "get"

\* A torn pool is locked until it is repaired.  Before the pool is made nobody
\* has a handle or repairs anything, and nobody who had the semaphore is gone.
PoolFits ==
    /\ pool = "torn" => locked
    /\ ~Made => /\ handle = {}
                /\ ~Orphaned
                /\ \A p \in Procs : pc[p] \in Creating \union {"dead"} /\ ~checking[p]
    /\ pool = "half" => \E p \in Holders : pc[p] \in {"initflag", "inithash"}
    /\ \A p \in Procs :
           /\ pc[p] = "size" => pool # "none"
           /\ pc[p] = "init" => pool = "blank"
           /\ pc[p] \in {"initflag", "inithash"} => pool = "half"
    /\ LongFile \/ sizeless = {}

\* The flag is set by one who has the semaphore, or had it and is gone.
FlagFits ==
    locked => Orphaned \/ \E p \in Holders : pc[p] \in {"in", "unflag", "inithash", "freeunflag",
                                                       "decide", "repair", "unlock", "failed"}

\* OneToken, as the steps use it.
Sole ==
    /\ sem <= 1
    /\ sem = 1 => Holders = {}
    /\ \A p, q \in Holders : p = q

SoleChecker == \A p, q \in Procs : checking[p] /\ checking[q] => p = q

RegionInv ==
    /\ Placed
    /\ Sole
    /\ SoleChecker
    /\ \A p \in Procs : Fits(p)
    /\ PoolFits
    /\ Unbroken => FlagFits

-----------------------------------------------------------------------------
\* The invariant is kept.  In each step the process is the holder, so that there
\* is no other and none that does without; or it does without, so that it is the
\* one that recovers and there is no holder; or it neither reads nor writes the
\* pool.
LEMMA RegionStep ==
    ASSUME Careful, RegionInv, [Next]_vars, Placed', SoleChecker'
    PROVE  RegionInv'
<1> USE LockingAssumption DEF Careful, RegionInv, Placed, LabelsFit, CheckOnly, CallOnly, TypeOK,
    Labels, Sole, Holders, Live, Orphaned, Fits, Inside, Attaching, Creating, Unbroken, FlagFits,
    PoolFits, Made, Goto
<1>1. ASSUME NEW p \in Procs, Obtain(p) PROVE RegionInv'
  BY <1>1 DEF Obtain, Take
<1>2. ASSUME NEW p \in Procs, ObtainLate(p) PROVE RegionInv'
  BY <1>2 DEF ObtainLate, EnterCheck, TimedOut
<1>3. ASSUME NEW p \in Procs, lmc_set_lock_flag(p) PROVE RegionInv'
  BY <1>3 DEF lmc_set_lock_flag
<1>4. ASSUME NEW p \in Procs, GiveBack(p) PROVE RegionInv'
  <2>1. Sole'
    BY <1>4 DEF GiveBack, Release, Fail
  <2>2. ASSUME NEW q \in Procs PROVE Fits(q)'
    BY <1>4 DEF GiveBack, Release, Fail
  <2>3. PoolFits'
    BY <1>4 DEF GiveBack, Release, Fail
  <2>4. Unbroken => FlagFits'
    BY <1>4 DEF GiveBack, Release, Fail
  <2> QED
    BY <2>1, <2>2, <2>3, <2>4
<1>5. ASSUME NEW p \in Procs, Work(p) PROVE RegionInv'
  BY <1>5 DEF Work
<1>6. ASSUME NEW p \in Procs, lmc_release_lock_flag(p) PROVE RegionInv'
  BY <1>6 DEF lmc_release_lock_flag
<1>7. ASSUME NEW p \in Procs, Post(p) PROVE RegionInv'
  BY <1>7 DEF Post, Release, Return
<1>8. ASSUME NEW p \in Procs, NextSlice(p) PROVE RegionInv'
  BY <1>8 DEF NextSlice
<1>9. ASSUME NEW p \in Procs, LastSlice(p) PROVE RegionInv'
  BY <1>9 DEF LastSlice
<1>10. ASSUME NEW p \in Procs, Working(p) PROVE RegionInv'
  BY <1>10 DEF Working, Take
<1>11. ASSUME NEW p \in Procs, WorkingLate(p) PROVE RegionInv'
  BY <1>11 DEF WorkingLate, EnterCheck, TimedOut
<1>12. ASSUME NEW p \in Procs, Probe(p) PROVE RegionInv'
  BY <1>12 DEF Probe, Release
<1>13. ASSUME NEW p \in Procs, Lock(p) PROVE RegionInv'
  BY <1>13 DEF Lock, Take
<1>14. ASSUME NEW p \in Procs, LockLate(p) PROVE RegionInv'
  BY <1>14 DEF LockLate
<1>15. ASSUME NEW p \in Procs, lmc_shm_ensure_namespace_file(p) PROVE RegionInv'
  BY <1>15 DEF lmc_shm_ensure_namespace_file
<1>16. ASSUME NEW p \in Procs, lmc_shm_create(p) PROVE RegionInv'
  BY <1>16 DEF lmc_shm_create
<1>17. ASSUME NEW p \in Procs, lmc_shm_create_fails(p) PROVE RegionInv'
  <2>1. Sole'
    BY <1>17 DEF lmc_shm_create_fails, Release
  <2>2. ASSUME NEW q \in Procs, q # p PROVE pc[q] \notin Inside \union Attaching
    <3>1. CASE held[p]
      BY <1>17, <2>2, <3>1 DEF lmc_shm_create_fails
    <3>2. CASE ~held[p]
      <4>1. Orphaned /\ checking[p]
        BY <1>17, <3>2 DEF lmc_shm_create_fails
      <4>2. ~checking[q] /\ (pc[q] # "dead" => ~held[q])
        BY <2>2, <4>1 DEF SoleChecker
      <4> QED
        BY <4>1, <4>2
    <3> QED
      BY <3>1, <3>2
  <2>3. ASSUME NEW q \in Procs, q # p PROVE Fits(q)'
    BY <1>17, <2>2, <2>3 DEF lmc_shm_create_fails, Release
  <2>4. Fits(p)'
    BY <1>17 DEF lmc_shm_create_fails, Release
  <2>5. PoolFits'
    BY <1>17 DEF lmc_shm_create_fails, Release
  <2>6. Unbroken => FlagFits'
    BY <1>17 DEF lmc_shm_create_fails, Release
  <2> QED
    BY <2>1, <2>3, <2>4, <2>5, <2>6
<1>18. ASSUME NEW p \in Procs, InitMagic(p) PROVE RegionInv'
  BY <1>18 DEF InitMagic
<1>19. ASSUME NEW p \in Procs, InitFlag(p) PROVE RegionInv'
  BY <1>19 DEF InitFlag
<1>20. ASSUME NEW p \in Procs, InitHash(p) PROVE RegionInv'
  BY <1>20 DEF InitHash
<1>21. ASSUME NEW p \in Procs, CheckNothing(p) PROVE RegionInv'
  BY <1>21 DEF CheckNothing, LeaveCheck, Fail
<1>22. ASSUME NEW p \in Procs, CheckObtain(p) PROVE RegionInv'
  BY <1>22 DEF CheckObtain
<1>23. ASSUME NEW p \in Procs, CheckLate(p) PROVE RegionInv'
  BY <1>23 DEF CheckLate, LeaveCheck, Fail
<1>24. ASSUME NEW p \in Procs, Decide(p) PROVE RegionInv'
  BY <1>24 DEF Decide
<1>25. ASSUME NEW p \in Procs, Repair(p) PROVE RegionInv'
  BY <1>25 DEF Repair
<1>26. ASSUME NEW p \in Procs, Unlock(p) PROVE RegionInv'
  BY <1>26 DEF Unlock
<1>27. ASSUME NEW p \in Procs, GetValue(p) PROVE RegionInv'
  BY <1>27 DEF GetValue
<1>28. ASSUME NEW p \in Procs, Correct(p) PROVE RegionInv'
  <2>1. Sole'
    BY <1>28 DEF Correct, Release
  <2>2. ASSUME NEW q \in Procs, q # p PROVE pc[q] \notin Inside \union Attaching
    <3>1. CASE held[p]
      BY <1>28, <2>2, <3>1 DEF Correct
    <3>2. CASE ~held[p]
      <4>1. Orphaned /\ checking[p]
        BY <1>28, <3>2 DEF Correct
      <4>2. ~checking[q] /\ (pc[q] # "dead" => ~held[q])
        BY <2>2, <4>1 DEF SoleChecker
      <4> QED
        BY <4>1, <4>2
    <3> QED
      BY <3>1, <3>2
  <2>3. ASSUME NEW q \in Procs, q # p PROVE Fits(q)'
    BY <1>28, <2>2, <2>3 DEF Correct, Release
  <2>4. Fits(p)'
    BY <1>28 DEF Correct, Release
  <2>5. PoolFits'
    BY <1>28 DEF Correct, Release
  <2>6. Unbroken => FlagFits'
    BY <1>28 DEF Correct, Release
  <2> QED
    BY <2>1, <2>3, <2>4, <2>5, <2>6
<1>29. ASSUME NEW p \in Procs, Free(p) PROVE RegionInv'
  BY <1>29 DEF Free, Take
<1>30. ASSUME NEW p \in Procs, FreeLate(p) PROVE RegionInv'
  BY <1>30 DEF FreeLate
<1>31. ASSUME NEW p \in Procs, FreeFlag(p) PROVE RegionInv'
  BY <1>31 DEF FreeFlag
<1>32. ASSUME NEW p \in Procs, FreeUnflag(p) PROVE RegionInv'
  BY <1>32 DEF FreeUnflag
<1>33. ASSUME NEW p \in Procs, FreePost(p) PROVE RegionInv'
  BY <1>33 DEF FreePost, Release
<1>34. ASSUME NEW p \in Procs, CheckRelease(p) PROVE RegionInv'
  BY <1>34 DEF CheckRelease, LeaveCheck, Fail
<1>35. ASSUME NEW p \in Procs, NEW o \in Ops, Call(p, o) PROVE RegionInv'
  BY <1>35 DEF Call
<1>36. ASSUME NEW p \in Procs, Raise(p) PROVE RegionInv'
  BY <1>36 DEF Raise
<1>37. ASSUME NEW p \in Procs, Crash(p) PROVE RegionInv'
  BY <1>37 DEF Crash
<1>38. ASSUME UNCHANGED vars PROVE RegionInv'
  BY <1>38 DEF vars
<1>39. ASSUME Restart PROVE RegionInv'
  BY <1>39 DEF Restart
<1> QED
  BY <1>1, <1>2, <1>3, <1>4, <1>5, <1>6, <1>7, <1>8, <1>9, <1>10, <1>11, <1>12, <1>13,
     <1>14, <1>15, <1>16, <1>17, <1>18, <1>19, <1>20, <1>21, <1>22, <1>23, <1>24, <1>25,
     <1>26, <1>27, <1>28, <1>29, <1>30, <1>31, <1>32, <1>33, <1>34, <1>35, <1>36, <1>37,
     <1>38, <1>39 DEF Next, Step

-----------------------------------------------------------------------------
\* OneChecker, as the steps use it.
LEMMA CheckerAlone == TypeOK /\ OneChecker => SoleChecker
<1> SUFFICES ASSUME TypeOK, OneChecker PROVE SoleChecker
  OBVIOUS
<1>1. Cardinality(Checkers) <= 1
  BY CheckersFinite DEF TypeOK, OneChecker, Checkers
<1> QED
  BY <1>1, CheckersFinite, AtMostOne DEF Checkers, SoleChecker

\* OneToken, from what the steps keep.
LEMMA HolderAlone == TypeOK /\ Sole => OneToken
<1> SUFFICES ASSUME TypeOK, Sole PROVE OneToken
  OBVIOUS
<1>1. IsFiniteSet(Holders) /\ Cardinality(Holders) \in Nat
  BY ProcsAssumption, FS_Subset, FS_CardinalityType DEF Holders
<1>2. Cardinality(Holders) <= 1
  BY <1>1, AtMostOne DEF Sole
<1>3. CASE sem = 0
  BY <1>1, <1>2, <1>3 DEF OneToken, Holders
<1>4. CASE sem = 1
  <2>1. Cardinality(Holders) = 0
    BY <1>4, FS_EmptySet DEF Sole
  <2> QED
    BY <1>4, <2>1 DEF OneToken, Holders
<1> QED
  BY <1>3, <1>4 DEF TypeOK, Sole

\* Where there is no pool yet, or one that is made, nobody holds anything.
LEMMA RegionInit == Careful /\ Init => RegionInv
<1> SUFFICES ASSUME Careful, Init PROVE RegionInv
  OBVIOUS
<1>1. Placed /\ SoleChecker
  BY InitHolds, CheckerAlone DEF IInv, Placed
<1>2. Holders = {} /\ sem = 1 /\ ~locked
  BY DEF Init, Holders
<1>3. \A p \in Procs : Fits(p)
  BY DEF Init, Fits, Inside, Attaching
<1>4. PoolFits
  BY LockingAssumption DEF Init, PoolFits, Made, Orphaned, Creating
<1> QED
  BY <1>1, <1>2, <1>3, <1>4 DEF RegionInv, Sole, FlagFits

-----------------------------------------------------------------------------
\* The labels, the semaphore, the flag and the pool fit each other.
THEOREM RegionInvariant == ASSUME Careful PROVE Spec => []RegionInv
<1>1. Init => RegionInv
  BY RegionInit
<1>2. IInv => Placed /\ SoleChecker
  BY CheckerAlone DEF IInv, Placed
<1>3. RegionInv /\ [Next]_vars /\ (Placed /\ SoleChecker)' => RegionInv'
  BY RegionStep
<1> QED
  BY <1>1, <1>2, <1>3, LockingInvariant, PTL DEF Spec

\* Parallel writes: no two processes are in the pool at once, the one that
\* repairs it for a dead one included.
THEOREM Exclusion == ASSUME Careful PROVE Spec => []MutualExclusion
<1>1. RegionInv => MutualExclusion
  <2> SUFFICES ASSUME RegionInv,
                      NEW p \in Procs, NEW q \in Procs, pc[p] \in InPool, pc[q] \in InPool
               PROVE  p = q
    BY DEF MutualExclusion
  <2>1. ASSUME NEW r \in Procs, pc[r] \in InPool
        PROVE  r \in Holders \/ (Orphaned /\ checking[r])
    BY <2>1 DEF RegionInv, Placed, LabelsFit, CheckOnly, InPool, Fits, Inside, Attaching, Holders, Live
  <2> QED
    BY <2>1 DEF RegionInv, Sole, SoleChecker, Orphaned
<1> QED
  BY <1>1, RegionInvariant, PTL

\* A call that got the lock finds a pool that is made and, if a process died in
\* it, repaired.
THEOREM SoundRegion == ASSUME Careful PROVE Spec => []SoundPool
<1>1. RegionInv => SoundPool
  BY DEF RegionInv, SoundPool, Fits
<1> QED
  BY <1>1, RegionInvariant, PTL

\* The semaphore is posted once for every time it was taken, for a dead holder
\* by the recovery; restarts and failing system calls do not post it twice.
THEOREM TokenKept == ASSUME Careful PROVE Spec => []OneToken
<1>1. RegionInv => OneToken
  BY HolderAlone DEF RegionInv, Placed
<1> QED
  BY <1>1, RegionInvariant, PTL

\* The flag is never set while the semaphore is free, so that it is always a
\* timeout that finds a process gone, and starts a recovery.
THEOREM FlagKept == ASSUME Careful, Unbroken PROVE Spec => []FlagNeedsToken
<1>1. RegionInv => FlagNeedsToken
  BY DEF RegionInv, Placed, TypeOK, FlagFits, FlagNeedsToken, Orphaned, Sole
<1> QED
  BY <1>1, RegionInvariant, PTL

\* The table is made once; nobody makes an empty one over it.
THEOREM MadeOnce == ASSUME Careful PROVE Spec => InitialisedOnce
<1>1. RegionInv /\ [Next]_vars => (Made => Made')
  <2> SUFFICES ASSUME RegionInv, [Next]_vars, Made PROVE Made'
    OBVIOUS
  <2> USE DEF Made
  <2>1. ASSUME NEW p \in Procs, lmc_shm_ensure_namespace_file(p) \/ lmc_shm_create(p) PROVE Made'
    BY <2>1 DEF lmc_shm_ensure_namespace_file, lmc_shm_create
  <2>2. ASSUME NEW p \in Procs, InitMagic(p) PROVE Made'
    BY <2>2 DEF InitMagic, RegionInv, PoolFits
  <2>3. ASSUME NEW p \in Procs, InitHash(p) PROVE Made'
    BY <2>3 DEF InitHash
  <2>4. ASSUME NEW p \in Procs, Repair(p) PROVE Made'
    BY <2>4, LockingAssumption DEF Repair
  <2>5. ASSUME NEW p \in Procs, Crash(p) PROVE Made'
    BY <2>5 DEF Crash
  <2>6. ASSUME Restart PROVE Made'
    BY <2>6 DEF Restart
  <2>7. ASSUME UNCHANGED pool PROVE Made'
    BY <2>7
  <2>8. ASSUME NEW p \in Procs, Step(p), ~InitMagic(p), ~InitHash(p), ~Repair(p),
               ~lmc_shm_ensure_namespace_file(p), ~lmc_shm_create(p)
        PROVE  UNCHANGED pool
    BY <2>8 DEF Step,
      Obtain, Take, ObtainLate, EnterCheck, lmc_set_lock_flag, GiveBack,
      Release, Fail, Work, lmc_release_lock_flag, Post, Return, NextSlice,
      LastSlice, Working, WorkingLate, Probe, Lock, LockLate,
      lmc_shm_create_fails, InitFlag, CheckNothing, LeaveCheck, CheckObtain,
      CheckLate, Decide, Unlock, GetValue, Correct, Free, FreeLate, FreeFlag,
      FreeUnflag, FreePost, CheckRelease
  <2>9. ASSUME NEW p \in Procs, Raise(p) \/ \E o \in Ops : Call(p, o) PROVE UNCHANGED pool
    BY <2>9 DEF Raise, Call
  <2>10. UNCHANGED vars => UNCHANGED pool
    BY DEF vars
  <2> QED
    BY <2>1, <2>2, <2>3, <2>4, <2>5, <2>6, <2>7, <2>8, <2>9, <2>10 DEF Next
<1>2. [Next]_vars /\ RegionInv => [Made => Made']_vars
  BY <1>1
<1> QED
  BY <1>2, RegionInvariant, PTL DEF Spec, InitialisedOnce

=============================================================================
