------------------------------- MODULE LmcTable -------------------------------
(***************************************************************************)
(* The hash table as its chains: which key stands where.  LmcHashtable,    *)
(* with its memory, implements this module; LmcIteration walks it.         *)
(***************************************************************************)
EXTENDS Integers, Sequences, FiniteSets, FiniteSetsExt, SequencesExt

CONSTANTS
    Keys,
    Buckets,        \* 0 .. LMC_HT_BUCKETS - 1
    BucketOf,       \* ht_hash_key
    LengthOf        \* the length of a key

ASSUME TableAssumption ==
    /\ IsFiniteSet(Buckets) /\ Buckets = 0 .. Cardinality(Buckets) - 1
    /\ \A k \in Keys : BucketOf[k] \in Buckets /\ LengthOf[k] \in Nat

VARIABLE
    chain           \* by bucket, the keys of its entries from the first one on

\* Where ht_lookup and ht_delete stop in the chain of k: at the first key of
\* the length of k.  0 if there is none.
Hits(k) ==
    {i \in DOMAIN chain[BucketOf[k]] : LengthOf[chain[BucketOf[k]][i]] = LengthOf[k]}

Position(k) == IF Hits(k) = {} THEN 0 ELSE Min(Hits(k))

-----------------------------------------------------------------------------
Init == chain = [b \in Buckets |-> <<>>]

\* ht_set of a key that is not there puts its entry first; of one that is
\* there, or without room, it leaves the chains alone.
Insert(k) ==
    /\ Position(k) = 0
    /\ chain' = [chain EXCEPT ![BucketOf[k]] = <<k>> \o @]

\* ht_delete: the rest of the chain goes with its first entry.
Drop(k) ==
    /\ Position(k) # 0
    /\ chain' = [chain EXCEPT
           ![BucketOf[k]] = IF Position(k) = 1 THEN <<>> ELSE RemoveAt(@, Position(k))]

\* local_memcache_clear.
Clear == chain' = [b \in Buckets |-> <<>>]

Next ==
    \/ \E k \in Keys : Insert(k) \/ Drop(k)
    \/ Clear

Spec == Init /\ [][Next]_chain

=============================================================================
