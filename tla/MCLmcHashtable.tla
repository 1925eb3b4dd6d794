---------------------------- MODULE MCLmcHashtable ----------------------------
(***************************************************************************)
(* The hash table with up to three keys and two values.                    *)
(***************************************************************************)
EXTENDS LmcHashtable

CONSTANTS k1, k2, k3, v1, v2

\* Every key in a bucket of its own.
ApartBuckets == [s \in Strings |-> CASE s = k1 -> 0 [] s = k2 -> 1 [] OTHER -> 2]

\* k1 and k2 share a bucket.
SharedBucket == [s \in Strings |-> IF s \in {k1, k2} THEN 0 ELSE 1]

\* All keys share a bucket.
OneBucket == [s \in Strings |-> IF s \in Keys THEN 0 ELSE 1]

\* Every key has a length of its own.
OwnLengths ==
    [s \in Strings |-> CASE s = k1 -> 1 [] s = k2 -> 2 [] s = k3 -> 3 [] OTHER -> 5]

SameLength == [s \in Strings |-> IF s = Scrap THEN 5 ELSE 1]

\* What a run in which no process dies in a set can tell two states apart by:
\* the words of blocks that are not in use, and the last word of a string's
\* block, are not read before they are written.  No call reads ht->size, which
\* drifts when chains are dropped: ChainWords leaves it out.
InUse == {b.va : b \in Held}

LastWord(va) == IF mem.body[va] \in Strings THEN 0 ELSE mem.value[va]

ChainWords ==
    <<mem.free, mem.bucket, mem.log, status, would, crashes, result = Checked,
      [va \in InUse |-> <<mem.header[va], mem.body[va], LastWord(va)>>]>>

LiveWords == <<ChainWords, mem.size>>

\* With crashes in a set every word counts; the last result is never read.
AllWords == <<mem, status, seen, would, crashes>>

\* A run with crashes in deletes follows a crash as far as its recovery: the
\* free list may be damaged from then on (MCHashtable_OverlapAfterCrash.cfg).
UntilRecovered == crashes = 0 \/ status # "up"

=============================================================================
