----------------------------- MODULE LmcIteration -----------------------------
(***************************************************************************)
(* Reading all of the table: keys and each_pair of the Ruby binding call   *)
(* local_memcache_iterate until it says that it is through.  Each call     *)
(* holds the namespace lock for a slice of the table and leaves behind     *)
(* where it stopped, as a bucket and a number of entries; in between other *)
(* processes, and the block of each_pair, set, delete and clear.           *)
(***************************************************************************)
EXTENDS LmcTable

CONSTANT
    Slice           \* 1000: the entries ht_hash_iterate visits in one call

ASSUME SliceAssumption == Slice \in Nat \ {0}

VARIABLES
    phase,          \* "idle", "iterating", "done": the last call returned 1,
                    \* "failed": it returned 0
    at,             \* ht_iter_status_t
    visits,         \* how often a key was handed to the iterator
    stayed,         \* the keys that have been there since the iteration began
    grew, shrank    \* the buckets that got, or lost, an entry at or before the
                    \* place where the iteration had stopped in them

vars == <<chain, phase, at, visits, stayed, grew, shrank>>

-----------------------------------------------------------------------------
\* An entry is named by its bucket and its place in the chain, counted from 1.
Entries == UNION {{b} \X DOMAIN chain[b] : b \in Buckets}

KeyAt(e) == chain[e[1]][e[2]]

Stored == {KeyAt(e) : e \in Entries}

Before(d, e) == d[1] < e[1] \/ (d[1] = e[1] /\ d[2] < e[2])

\* What ht_hash_iterate has not passed: the entries of the bucket it stopped
\* in, but for the first ofs, and those of the buckets behind it.
Ahead == {e \in Entries : Before(<<at.bucket_ofs, at.ofs>>, e)}

FirstOf(entries, n) ==
    {e \in entries : Cardinality({d \in entries : Before(d, e)}) < n}

LastOf(entries) == CHOOSE e \in entries : \A d \in entries : ~Before(e, d)

IterationInit ==
    /\ Init
    /\ phase = "idle"
    /\ at = [bucket_ofs |-> 0, ofs |-> 0]
    /\ visits = [k \in Keys |-> 0]
    /\ stayed = {}
    /\ grew = {}
    /\ shrank = {}

\* keys and each_pair zero the status.
Begin ==
    /\ phase # "iterating"
    /\ phase' = "iterating"
    /\ at' = [bucket_ofs |-> 0, ofs |-> 0]
    /\ visits' = [k \in Keys |-> 0]
    /\ stayed' = Stored
    /\ grew' = {}
    /\ shrank' = {}
    /\ UNCHANGED chain

\* Visits are counted up to two.
Visit(entries) ==
    visits' = [k \in Keys |->
                  Min({2, visits[k] + Cardinality({e \in entries : KeyAt(e) = k})})]

\* Slips: the bucket in which the slice ended is visited from its start, the
\* entry at which it ended again, the rest of the bucket never, or the bucket
\* before it.
Resume_start(e) == at' = [bucket_ofs |-> e[1], ofs |-> 0]

Resume_again(e) == at' = [bucket_ofs |-> e[1], ofs |-> e[2] - 1]

Resume_past(e) == at' = [bucket_ofs |-> e[1] + 1, ofs |-> 0]

Resume_before(e) == at' = [bucket_ofs |-> e[1] - 1, ofs |-> e[2]]

\* ofs is the number of entries of the bucket that were visited.
Resume(e) == at' = [bucket_ofs |-> e[1], ofs |-> e[2]]

\* Whether ht_hash_iterate came to the end of the table before the slice was full.
EndsHere(slice) == Cardinality(slice) < Slice

\* One call of local_memcache_iterate.
Iterate ==
    LET slice == FirstOf(Ahead, Slice)
    IN  /\ phase = "iterating"
        /\ Visit(slice)
        /\ IF EndsHere(slice)
           THEN /\ phase' = "done"
                /\ at' = [bucket_ofs |-> Cardinality(Buckets), ofs |-> 0]
           ELSE /\ phase' = "iterating"
                /\ Resume(LastOf(slice))
        /\ UNCHANGED <<chain, stayed, grew, shrank>>

\* It could not lock the region.  The Ruby loops end as if they were through.
IterateFails ==
    /\ phase = "iterating"
    /\ phase' = "failed"
    /\ UNCHANGED <<chain, at, visits, stayed, grew, shrank>>

\* Whether the iteration stands behind entry i of the bucket of k.
Passed(k, i) == at.bucket_ofs = BucketOf[k] /\ i <= at.ofs

\* Another process, or the block of each_pair, between two slices.
Set(k) ==
    /\ Insert(k)
    /\ grew' = IF Passed(k, 1) THEN grew \union {BucketOf[k]} ELSE grew
    /\ UNCHANGED <<phase, at, visits, stayed, shrank>>

Delete(k) ==
    /\ Drop(k)
    /\ stayed' = stayed \intersect {KeyAt(e) : e \in Entries}'
    /\ shrank' = IF Passed(k, Position(k)) THEN shrank \union {BucketOf[k]} ELSE shrank
    /\ UNCHANGED <<phase, at, visits, grew>>

ClearAll ==
    /\ Clear
    /\ stayed' = {}
    /\ UNCHANGED <<phase, at, visits, grew, shrank>>

IterationNext ==
    \/ Begin
    \/ Iterate
    \/ IterateFails
    \/ \E k \in Keys : Set(k) \/ Delete(k)
    \/ ClearAll

\* The loop of keys and each_pair calls again as long as it is told to.
IterationSpec == IterationInit /\ [][IterationNext]_vars /\ WF_vars(Iterate)

-----------------------------------------------------------------------------
(***************************************************************************)
(* ht_random_pair.  x and y are the values of rand() it draws first for    *)
(* the bucket, then for the entry.                                         *)
(***************************************************************************)
Filled == {b \in Buckets : chain[b] # <<>>}

\* A slip: the first filled bucket is taken whatever bnr is.
Bucket_first(n) == Min(Filled)

\* The bucket at which bnr, counted down at every filled one, is used up.
Bucket(n) == CHOOSE b \in Filled : Cardinality({c \in Filled : c < b}) = n

EntryOf(b, y) == <<b, 1 + (y % Len(chain[b]))>>

ht_random_pair(x, y) == EntryOf(Bucket(x % Cardinality(Filled)), y)

-----------------------------------------------------------------------------
TypeOK ==
    /\ chain \in [Buckets -> Seq(Keys)]
    /\ phase \in {"idle", "iterating", "done", "failed"}
    /\ at \in [bucket_ofs : Nat, ofs : Nat]
    /\ visits \in [Keys -> 0 .. 2]
    /\ stayed \subseteq Keys
    /\ grew \subseteq Buckets /\ shrank \subseteq Buckets

\* A key that is there from the first slice to the last is visited, whatever is
\* set, deleted and cleared between the slices, unless the one bucket in which
\* a slice ended lost an entry that had been visited.
NothingSkipped ==
    phase = "done" =>
        \A k \in stayed : BucketOf[k] \notin shrank => visits[k] >= 1

\* No key is visited twice, one that is deleted and set again included, unless
\* its bucket got a new first entry while the iteration stood in it.
NothingRepeated ==
    \A k \in Keys : BucketOf[k] \notin grew => visits[k] <= 1

\* An iteration comes to its end although others keep changing the table.
IterationEnds == phase = "iterating" ~> phase # "iterating"

\* A random pair is one of the table, and each one of the table can be drawn.
RandomPairDraws ==
    Stored # {} =>
        LET draws == 0 .. Cardinality(Keys)
        IN  {ht_random_pair(x, y) : x \in draws, y \in draws} = Entries

\* What a caller of keys expects: those that were there all the time, each once.
EveryKeyVisited == phase = "done" => \A k \in stayed : visits[k] >= 1

NoKeyTwice == \A k \in Keys : visits[k] <= 1

=============================================================================
