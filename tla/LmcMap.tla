------------------------------- MODULE LmcMap -------------------------------
(***************************************************************************)
(* What a namespace promises its callers (src/src/localmemcache.h): a map  *)
(* from keys to values.  A call that returns 1 takes effect whole and on   *)
(* its key alone; one that returns 0 changes nothing; one that its process *)
(* dies in is found, once the namespace is recovered, to have happened or  *)
(* not to have happened.                                                   *)
(***************************************************************************)
EXTENDS Integers

CONSTANTS Keys, Values, NoValue, MaxCrashes

VARIABLES
    db,         \* what the callers have stored
    result,     \* the last call that returned: its key, its value, its result
    up,         \* FALSE from a crash to the recovery
    would,      \* the outcomes a crash has left open
    crashes

vars == <<db, result, up, would, crashes>>

Empty == [k \in Keys |-> NoValue]

\* Storing NoValue is deleting.
Store(d, k, v) == [d EXCEPT ![k] = v]

\* The result of a check.
Checked == [key |-> NoValue, value |-> NoValue, ok |-> TRUE]

Init ==
    /\ db = Empty
    /\ result = Checked
    /\ up = TRUE
    /\ would = {}
    /\ crashes = 0

\* A set always may succeed; a delete does if there is something to delete.
Put(k, v) ==
    /\ up = TRUE
    /\ v = NoValue => db[k] # NoValue
    /\ db' = Store(db, k, v)
    /\ result' = [key |-> k, value |-> v, ok |-> TRUE]
    /\ UNCHANGED <<up, would, crashes>>

\* A set is refused if the pool is full, a delete if there is no such key.
Refuse(k, v) ==
    /\ up = TRUE
    /\ v = NoValue => db[k] = NoValue
    /\ result' = [key |-> k, value |-> v, ok |-> FALSE]
    /\ UNCHANGED <<db, up, would, crashes>>

\* The callers see nothing of a check.
Check ==
    /\ up = TRUE
    /\ result' = Checked
    /\ UNCHANGED <<db, up, would, crashes>>

Clear ==
    /\ up = TRUE
    /\ db' = Empty
    /\ result' = Checked
    /\ UNCHANGED <<up, would, crashes>>

\* next is what the call would have stored.
Crash(next) ==
    /\ up = TRUE
    /\ crashes < MaxCrashes
    /\ up' = FALSE
    /\ would' = {db, next}
    /\ crashes' = crashes + 1
    /\ UNCHANGED <<db, result>>

Recover ==
    /\ up = FALSE
    /\ up' = TRUE
    /\ db' \in would
    /\ would' = {}
    /\ result' = Checked
    /\ UNCHANGED crashes

Next ==
    \/ \E k \in Keys, v \in Values \union {NoValue} :
          Put(k, v) \/ Refuse(k, v) \/ Crash(Store(db, k, v))
    \/ Clear
    \/ Crash(Empty)
    \/ Check
    \/ Recover

Spec == Init /\ [][Next]_vars

=============================================================================
