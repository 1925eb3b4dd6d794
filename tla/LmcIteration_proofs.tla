------------------------- MODULE LmcIteration_proofs -------------------------
(***************************************************************************)
(* Reading all of the table in slices, while others change it: no key      *)
(* twice and none left out, but for the two cases that the iteration       *)
(* itself brings about, for any table, any slice and any keys.             *)
(***************************************************************************)
EXTENDS LmcIteration, LmcFacts

\* An entry is in the bucket of its key, and no two of one length are in one.
TableOK ==
    \A b \in Buckets :
        /\ \A i \in DOMAIN chain[b] : BucketOf[chain[b][i]] = b
        /\ \A i, j \in DOMAIN chain[b] :
               LengthOf[chain[b][i]] = LengthOf[chain[b][j]] => i = j

Stands(k, i) == i \in DOMAIN chain[BucketOf[k]] /\ chain[BucketOf[k]][i] = k

\* What ht_hash_iterate has still before it, whether there is an entry or not.
Awaits(k, i) ==
    at.bucket_ofs < BucketOf[k] \/ (at.bucket_ofs = BucketOf[k] /\ at.ofs < i)

\* The iteration is past the bucket of a key that it visited, or in the middle
\* of it: one that is deleted and set again comes in behind it.
VisitedBehind ==
    \A k \in Keys :
        visits[k] > 0 =>
            BucketOf[k] < at.bucket_ofs \/ (BucketOf[k] = at.bucket_ofs /\ at.ofs > 0)

NotAgain ==
    \A k \in Keys :
        BucketOf[k] \notin grew =>
            /\ visits[k] <= 1
            /\ visits[k] > 0 => \A i \in DOMAIN chain[BucketOf[k]] : Stands(k, i) => ~Awaits(k, i)

StillAhead ==
    \A k \in stayed :
        \E i \in DOMAIN chain[BucketOf[k]] :
            Stands(k, i) /\ (BucketOf[k] \notin shrank => visits[k] > 0 \/ Awaits(k, i))

AtEnd == phase = "done" => at.bucket_ofs = Cardinality(Buckets)

IterationInv ==
    /\ TypeOK
    /\ TableOK
    /\ VisitedBehind
    /\ NotAgain
    /\ StillAhead
    /\ AtEnd

-----------------------------------------------------------------------------
\* A bucket is a number below the number of buckets.
LEMMA BucketFact ==
    /\ Cardinality(Buckets) \in Nat
    /\ Buckets \subseteq Nat
    /\ \A b \in Buckets : b < Cardinality(Buckets)
    /\ \A k \in Keys : BucketOf[k] \in Buckets /\ LengthOf[k] \in Nat
<1>1. Cardinality(Buckets) \in Nat
  BY TableAssumption, FS_CardinalityType
<1>2. Buckets = 0 .. Cardinality(Buckets) - 1
  BY TableAssumption
<1>3. \A b \in Buckets : b \in Nat /\ b < Cardinality(Buckets)
  BY <1>1, <1>2
<1> QED
  BY <1>1, <1>3, TableAssumption

\* The entries of the table, one by one, and that there are finitely many.
LEMMA EntriesFact ==
    ASSUME chain \in [Buckets -> Seq(Keys)]
    PROVE  /\ \A b \in Buckets : \A i \in DOMAIN chain[b] :
                  /\ <<b, i>> \in Entries /\ KeyAt(<<b, i>>) = chain[b][i]
                  /\ chain[b][i] \in Keys /\ i \in Nat \ {0}
           /\ \A e \in Entries :
                  /\ e = <<e[1], e[2]>> /\ e \in Nat \X Nat
                  /\ e[1] \in Buckets /\ e[2] \in DOMAIN chain[e[1]]
                  /\ KeyAt(e) = chain[e[1]][e[2]] /\ KeyAt(e) \in Keys
           /\ Entries \in SUBSET (Nat \X Nat)
           /\ IsFiniteSet(Entries)
<1>1. \A b \in Buckets : chain[b] \in Seq(Keys) /\ DOMAIN chain[b] = 1 .. Len(chain[b])
  OBVIOUS
<1>2. ASSUME NEW b \in Buckets, NEW i \in DOMAIN chain[b]
      PROVE  /\ <<b, i>> \in Entries /\ KeyAt(<<b, i>>) = chain[b][i]
             /\ chain[b][i] \in Keys /\ i \in Nat \ {0}
  <2>1. <<b, i>> \in {b} \X DOMAIN chain[b]
    OBVIOUS
  <2>2. i \in Nat \ {0} /\ chain[b][i] \in Keys
    BY <1>1
  <2> QED
    BY <2>1, <2>2 DEF Entries, KeyAt
<1>3. ASSUME NEW e \in Entries
      PROVE  /\ e = <<e[1], e[2]>> /\ e \in Nat \X Nat
             /\ e[1] \in Buckets /\ e[2] \in DOMAIN chain[e[1]]
             /\ KeyAt(e) = chain[e[1]][e[2]] /\ KeyAt(e) \in Keys
  <2>1. PICK b \in Buckets : e \in {b} \X DOMAIN chain[b]
    BY DEF Entries
  <2>2. e = <<e[1], e[2]>> /\ e[1] = b /\ e[2] \in DOMAIN chain[b]
    BY <2>1
  <2>3. e[2] \in Nat /\ chain[b][e[2]] \in Keys
    BY <1>2, <2>2
  <2>4. b \in Nat
    BY BucketFact
  <2> QED
    BY <2>2, <2>3, <2>4 DEF KeyAt
<1>4. IsFiniteSet(Entries)
  <2> DEFINE f == [b \in Buckets |-> {b} \X DOMAIN chain[b]]
             T == {{b} \X DOMAIN chain[b] : b \in Buckets}
  <2>1. f \in Surjection(Buckets, T)
    BY DEF Surjection
  <2>2. IsFiniteSet(T)
    <3> HIDE DEF f, T
    <3> QED
      BY <2>1, TableAssumption, FS_Surjection
  <2>3. ASSUME NEW b \in Buckets PROVE IsFiniteSet({b} \X DOMAIN chain[b])
    <3>1. IsFiniteSet(DOMAIN chain[b])
      BY <1>1, FS_Interval, LenProperties
    <3> QED
      BY <3>1, FS_Singleton, FS_Product
  <2>4. \A S \in T : IsFiniteSet(S)
    BY <2>3
  <2> HIDE DEF T
  <2>5. IsFiniteSet(UNION T)
    BY <2>2, <2>4, FS_UNION
  <2> QED
    BY <2>5 DEF T, Entries
<1> QED
  BY <1>2, <1>3, <1>4

-----------------------------------------------------------------------------
\* The first n of some entries: all of them if there are fewer than n, or those
\* up to a last one, which comes before all others.
LEMMA SliceFact ==
    ASSUME NEW E \in SUBSET (Nat \X Nat), IsFiniteSet(E), NEW n \in Nat \ {0}
    PROVE  LET slice == FirstOf(E, n)
               last == LastOf(slice)
           IN  /\ slice \in SUBSET E
               /\ Cardinality(slice) < n => slice = E
               /\ ~ (Cardinality(slice) < n) =>
                      /\ last \in slice
                      /\ \A e \in slice : ~Before(last, e)
                      /\ \A e \in E \ slice : Before(last, e)
<1> DEFINE under == [e \in E |-> {d \in E : Before(d, e)}]
           rank == [e \in E |-> Cardinality(under[e])]
           slice == FirstOf(E, n)
<1>1. /\ \A d, e, f \in E : Before(d, e) /\ Before(e, f) => Before(d, f)
      /\ \A e \in E : ~Before(e, e)
      /\ \A d, e \in E : d = e \/ Before(d, e) \/ Before(e, d)
  <2> SUFFICES ASSUME NEW d \in Nat \X Nat, NEW e \in Nat \X Nat, NEW f \in Nat \X Nat
               PROVE  /\ Before(d, e) /\ Before(e, f) => Before(d, f)
                      /\ ~Before(e, e)
                      /\ d = e \/ Before(d, e) \/ Before(e, d)
    OBVIOUS
  <2> QED
    BY DEF Before
<1>2. \A e \in E : IsFiniteSet(under[e]) /\ rank[e] \in Nat
  <2> TAKE e \in E
  <2>1. under[e] \in SUBSET E
    OBVIOUS
  <2>2. IsFiniteSet(under[e])
    BY <2>1, FS_Subset
  <2> QED
    BY <2>2, FS_CardinalityType
<1>3. \A e \in E : e \in slice <=> rank[e] < n
  BY DEF FirstOf
<1>4. slice \in SUBSET E /\ IsFiniteSet(slice) /\ Cardinality(slice) \in Nat
  <2>1. slice \in SUBSET E
    BY DEF FirstOf
  <2>2. IsFiniteSet(slice)
    BY <2>1, FS_Subset
  <2> QED
    BY <2>1, <2>2, FS_CardinalityType
<1>5. ASSUME NEW e \in slice, NEW d \in E, Before(d, e) PROVE d \in slice
  <2>1. under[d] \in SUBSET under[e]
    BY <1>1, <1>4, <1>5
  <2>2. Cardinality(under[d]) <= Cardinality(under[e])
    BY <1>2, <1>4, <2>1, FS_Subset
  <2>3. rank[d] <= rank[e] /\ rank[e] < n
    BY <1>3, <1>4, <2>2
  <2> HIDE DEF rank
  <2>4. rank[d] \in Nat /\ rank[e] \in Nat
    BY <1>2, <1>4
  <2>5. rank[d] < n
    BY <2>3, <2>4
  <2> QED
    BY <1>3, <2>5
<1>6. ASSUME Cardinality(slice) < n, slice # E PROVE FALSE
  <2> DEFINE S == E \ slice
             R == {p \in E \X E : Before(p[1], p[2])}
  <2>1. IsFiniteSet(S) /\ S # {}
    BY <1>4, <1>6, FS_Subset
  <2>2. \A x, y \in E : <<x, y>> \in R <=> Before(x, y)
    OBVIOUS
  <2> HIDE DEF R
  <2>3. PICK m \in S : \A d \in S : <<d, m>> \notin R
    <3>1. \A x \in S : <<x, x>> \notin R
      BY <1>1, <2>2
    <3>2. \A x, y, z \in S : <<x, y>> \in R /\ <<y, z>> \in R => <<x, z>> \in R
      BY <1>1, <2>2
    <3> HIDE DEF S
    <3> QED
      BY <2>1, <3>1, <3>2, FirstFact
  <2>4. under[m] \in SUBSET slice
    BY <2>2, <2>3
  <2>5. Cardinality(under[m]) <= Cardinality(slice)
    BY <1>4, <2>4, FS_Subset
  <2>6. rank[m] <= Cardinality(slice)
    BY <2>5
  <2> HIDE DEF rank, slice
  <2>7. rank[m] \in Nat
    BY <1>2
  <2>8. rank[m] < n
    BY <1>4, <1>6, <2>6, <2>7
  <2> QED
    BY <1>3, <2>8
<1>7. ASSUME ~ (Cardinality(slice) < n)
      PROVE  /\ LastOf(slice) \in slice
             /\ \A e \in slice : ~Before(LastOf(slice), e)
  <2> DEFINE R == {p \in E \X E : Before(p[2], p[1])}
  <2>1. slice # {}
    BY <1>7, FS_EmptySet
  <2>2. \A x, y \in E : <<x, y>> \in R <=> Before(y, x)
    OBVIOUS
  <2> HIDE DEF R
  <2>3. PICK m \in slice : \A d \in slice : <<d, m>> \notin R
    <3>1. \A x \in slice : <<x, x>> \notin R
      BY <1>1, <1>4, <2>2
    <3>2. \A x, y, z \in slice : <<x, y>> \in R /\ <<y, z>> \in R => <<x, z>> \in R
      BY <1>1, <1>4, <2>2
    <3>3. IsFiniteSet(slice)
      BY <1>4
    <3> HIDE DEF slice
    <3> QED
      BY <2>1, <3>1, <3>2, <3>3, FirstFact
  <2>4. \A d \in slice : ~Before(m, d)
    BY <1>4, <2>2, <2>3
  <2> HIDE DEF slice
  <2> QED
    BY <2>3, <2>4 DEF LastOf
<1>8. ASSUME ~ (Cardinality(slice) < n), NEW e \in E \ slice PROVE Before(LastOf(slice), e)
  <2> HIDE DEF slice
  <2> QED
    BY <1>1, <1>4, <1>5, <1>7, <1>8
<1> QED
  BY <1>4, <1>6, <1>7, <1>8

-----------------------------------------------------------------------------
\* ht_set: a new entry comes first, and those that were there move down by one.
LEMMA InsertFact ==
    ASSUME chain \in [Buckets -> Seq(Keys)], TableOK, NEW k \in Keys, Insert(k)
    PROVE  LET b == BucketOf[k]
           IN  /\ chain' \in [Buckets -> Seq(Keys)]
               /\ \A c \in Buckets \ {b} : chain'[c] = chain[c]
               /\ Len(chain'[b]) = Len(chain[b]) + 1
               /\ chain'[b][1] = k
               /\ \A j \in 1 .. Len(chain[b]) : chain'[b][j + 1] = chain[b][j]
               /\ TableOK'
<1> DEFINE b == BucketOf[k]
           s == chain[b]
           t == <<k>> \o s
<1>1. b \in Buckets /\ s \in Seq(Keys) /\ LengthOf[k] \in Nat
  BY BucketFact
<1>2. /\ t \in Seq(Keys)
      /\ Len(t) = Len(s) + 1
      /\ t[1] = k
      /\ \A j \in 1 .. Len(s) : t[j + 1] = s[j]
  BY <1>1, PutFirstFact
<1>3. chain' = [chain EXCEPT ![b] = t]
  BY DEF Insert
<1>4. \A i \in DOMAIN s : LengthOf[s[i]] # LengthOf[k]
  <2>1. Hits(k) \in SUBSET Nat
    BY <1>1 DEF Hits
  <2>2. Hits(k) = {}
    <3>1. ASSUME Hits(k) # {} PROVE FALSE
      <4>1. Min(Hits(k)) \in Hits(k)
        BY <2>1, <3>1, MinFact
      <4>2. Min(Hits(k)) \in 1 .. Len(s)
        BY <1>1, <4>1 DEF Hits
      <4> QED
        BY <3>1, <4>2 DEF Insert, Position
    <3> QED
      BY <3>1
  <2> QED
    BY <2>2 DEF Hits
<1> HIDE DEF t
<1>5. /\ chain' \in [Buckets -> Seq(Keys)]
      /\ \A c \in Buckets \ {b} : chain'[c] = chain[c]
      /\ chain'[b] = t
  BY <1>1, <1>2, <1>3
<1>6. ASSUME NEW j \in DOMAIN t PROVE j = 1 \/ (j - 1 \in 1 .. Len(s) /\ t[j] = s[j - 1])
  <2>1. j \in 1 .. Len(s) + 1 /\ Len(s) \in Nat
    BY <1>1, <1>2
  <2>2. CASE j # 1
    <3>1. j - 1 \in 1 .. Len(s) /\ (j - 1) + 1 = j
      BY <2>1, <2>2
    <3> QED
      BY <1>2, <3>1
  <2> QED
    BY <2>2
<1>7. TableOK'
  <2>1. ASSUME NEW c \in Buckets, c # b
        PROVE  /\ \A i \in DOMAIN chain'[c] : BucketOf[chain'[c][i]] = c
               /\ \A i, j \in DOMAIN chain'[c] :
                      LengthOf[chain'[c][i]] = LengthOf[chain'[c][j]] => i = j
    BY <1>5, <2>1 DEF TableOK
  <2>2. \A i \in DOMAIN s : BucketOf[s[i]] = b
    BY <1>1 DEF TableOK
  <2>3. \A i, j \in DOMAIN s : LengthOf[s[i]] = LengthOf[s[j]] => i = j
    BY <1>1 DEF TableOK
  <2>4. DOMAIN s = 1 .. Len(s) /\ DOMAIN t \subseteq Nat
    BY <1>1, <1>2
  <2> HIDE DEF s
  <2>5. \A i \in DOMAIN t : BucketOf[t[i]] = b
    BY <1>2, <1>6, <2>2, <2>4
  <2>6. ASSUME NEW i \in DOMAIN t, NEW j \in DOMAIN t, LengthOf[t[i]] = LengthOf[t[j]]
        PROVE  i = j
    <3>1. CASE i = 1 \/ j = 1
      BY <1>2, <1>4, <1>6, <2>4, <2>6, <3>1
    <3>2. CASE i # 1 /\ j # 1
      <4>1. i - 1 = j - 1
        BY <1>6, <2>3, <2>4, <2>6, <3>2
      <4> QED
        BY <2>4, <4>1
    <3> QED
      BY <3>1, <3>2
  <2> QED
    BY <1>5, <2>1, <2>5, <2>6 DEF TableOK
<1> QED
  BY <1>2, <1>5, <1>7

\* ht_delete: the entries behind the one that is unlinked move up by one, and
\* with a first entry the whole chain goes.
LEMMA DropFact ==
    ASSUME chain \in [Buckets -> Seq(Keys)], TableOK, NEW k \in Keys, Drop(k)
    PROVE  LET b == BucketOf[k]
           IN  /\ Position(k) \in DOMAIN chain[b]
               /\ chain' \in [Buckets -> Seq(Keys)]
               /\ \A c \in Buckets \ {b} : chain'[c] = chain[c]
               /\ \A j \in DOMAIN chain'[b] :
                      IF j < Position(k)
                      THEN j \in DOMAIN chain[b] /\ chain'[b][j] = chain[b][j]
                      ELSE j + 1 \in DOMAIN chain[b] /\ chain'[b][j] = chain[b][j + 1]
               /\ TableOK'
<1> DEFINE b == BucketOf[k]
           s == chain[b]
           pos == Position(k)
           t == IF pos = 1 THEN <<>> ELSE RemoveAt(s, pos)
<1>1. b \in Buckets /\ s \in Seq(Keys)
  BY BucketFact
<1>2. pos \in 1 .. Len(s)
  <2>1. Hits(k) # {}
    BY DEF Drop, Position
  <2>2. Hits(k) \in SUBSET (1 .. Len(s))
    BY <1>1 DEF Hits
  <2>3. Hits(k) \in SUBSET Nat
    BY <2>2
  <2>4. Min(Hits(k)) \in Hits(k)
    BY <2>1, <2>3, MinFact
  <2> QED
    BY <2>1, <2>2, <2>4 DEF Position
<1>3. chain' = [chain EXCEPT ![b] = t]
  BY DEF Drop
<1>4. /\ t \in Seq(Keys)
      /\ \A j \in DOMAIN t : IF j < pos THEN j \in DOMAIN s /\ t[j] = s[j]
                           ELSE j + 1 \in DOMAIN s /\ t[j] = s[j + 1]
  <2>1. CASE pos = 1
    BY <2>1
  <2>2. CASE pos # 1
    <3> DEFINE r == RemoveAt(s, pos)
    <3>1. /\ r \in Seq(Keys)
          /\ Len(r) = Len(s) - 1
          /\ \A j \in 1 .. Len(s) - 1 : r[j] = IF j < pos THEN s[j] ELSE s[j + 1]
      BY <1>1, <1>2, RemoveAtFact
    <3>2. t = r
      BY <2>2
    <3>3. DOMAIN s = 1 .. Len(s) /\ Len(s) \in Nat
      BY <1>1
    <3> HIDE DEF r, s, pos, t
    <3>4. DOMAIN r = 1 .. Len(s) - 1
      BY <3>1
    <3> QED
      BY <1>2, <3>1, <3>2, <3>3, <3>4
  <2> QED
    BY <2>1, <2>2
<1> HIDE DEF t
<1>5. /\ chain' \in [Buckets -> Seq(Keys)]
      /\ \A c \in Buckets \ {b} : chain'[c] = chain[c]
      /\ chain'[b] = t
  BY <1>1, <1>3, <1>4
<1>6. TableOK'
  <2>1. ASSUME NEW c \in Buckets, c # b
        PROVE  /\ \A i \in DOMAIN chain'[c] : BucketOf[chain'[c][i]] = c
               /\ \A i, j \in DOMAIN chain'[c] :
                      LengthOf[chain'[c][i]] = LengthOf[chain'[c][j]] => i = j
    BY <1>5, <2>1 DEF TableOK
  <2>2. \A i \in DOMAIN s : BucketOf[s[i]] = b
    BY <1>1 DEF TableOK
  <2>3. \A i, j \in DOMAIN s : LengthOf[s[i]] = LengthOf[s[j]] => i = j
    BY <1>1 DEF TableOK
  <2>4. DOMAIN t \subseteq Nat /\ pos \in Nat
    BY <1>1, <1>2, <1>4
  <2> HIDE DEF s, pos
  <2>5. \A i \in DOMAIN t : BucketOf[t[i]] = b
    BY <1>4, <2>2
  <2>6. ASSUME NEW i \in DOMAIN t, NEW j \in DOMAIN t, LengthOf[t[i]] = LengthOf[t[j]]
        PROVE  i = j
    <3>1. i \in Nat /\ j \in Nat
      BY <2>4
    <3>2. CASE i < pos
      BY <1>4, <2>3, <2>4, <2>6, <3>1, <3>2
    <3>3. CASE ~ (i < pos) /\ j < pos
      BY <1>4, <2>3, <2>4, <2>6, <3>1, <3>3
    <3>4. CASE ~ (i < pos) /\ ~ (j < pos)
      <4>1. i + 1 = j + 1
        BY <1>4, <2>3, <2>6, <3>4
      <4> QED
        BY <3>1, <4>1
    <3> QED
      BY <3>2, <3>3, <3>4
  <2> QED
    BY <1>5, <2>1, <2>5, <2>6 DEF TableOK
<1> QED
  BY <1>2, <1>1, <1>4, <1>5, <1>6

-----------------------------------------------------------------------------
\* A key that is set between two slices comes first in its bucket.  If it was
\* visited before, that is behind the iteration; those it moves down are visited
\* again only in the bucket the iteration stands in.
LEMMA SetStep ==
    ASSUME IterationInv, NEW k \in Keys, Set(k)
    PROVE  IterationInv'
<1> DEFINE b == BucketOf[k]
<1>1. /\ chain \in [Buckets -> Seq(Keys)] /\ chain' \in [Buckets -> Seq(Keys)]
      /\ \A c \in Buckets \ {b} : chain'[c] = chain[c]
      /\ Len(chain'[b]) = Len(chain[b]) + 1
      /\ chain'[b][1] = k
      /\ \A j \in 1 .. Len(chain[b]) : chain'[b][j + 1] = chain[b][j]
      /\ TableOK'
  BY InsertFact DEF IterationInv, TypeOK, Set
<1>2. /\ b \in Buckets /\ b \in Nat
      /\ \A x \in Keys : BucketOf[x] \in Buckets /\ BucketOf[x] \in Nat
  BY BucketFact
<1>3. /\ UNCHANGED <<phase, at, visits, stayed, shrank>>
      /\ grew' = IF Passed(k, 1) THEN grew \union {b} ELSE grew
  BY DEF Set
<1>4. TypeOK'
  BY <1>1, <1>2, <1>3 DEF IterationInv, TypeOK
<1>5. \A c \in Buckets : DOMAIN chain[c] = 1 .. Len(chain[c]) /\ Len(chain[c]) \in Nat
                        /\ DOMAIN chain'[c] = 1 .. Len(chain'[c])
  BY <1>1
<1>6. at.bucket_ofs \in Nat /\ at.ofs \in Nat /\ \A x \in Keys : visits[x] \in Nat
  BY DEF IterationInv, TypeOK
<1>7. NotAgain'
  <2> SUFFICES ASSUME NEW x \in Keys, BucketOf[x] \notin grew'
               PROVE  /\ visits[x] <= 1
                      /\ visits[x] > 0 =>
                             \A i \in DOMAIN chain'[BucketOf[x]] : Stands(x, i)' => ~Awaits(x, i)
    BY <1>3 DEF NotAgain, Awaits
  <2>1. /\ visits[x] <= 1
        /\ visits[x] > 0 =>
               \A i \in DOMAIN chain[BucketOf[x]] : Stands(x, i) => ~Awaits(x, i)
    BY <1>3 DEF IterationInv, NotAgain
  <2>2. visits[x] > 0 =>
            BucketOf[x] < at.bucket_ofs \/ (BucketOf[x] = at.bucket_ofs /\ at.ofs > 0)
    BY DEF IterationInv, VisitedBehind
  <2>3. ASSUME visits[x] > 0, NEW i \in DOMAIN chain'[BucketOf[x]], Stands(x, i)', Awaits(x, i)
        PROVE  FALSE
    <3>1. CASE BucketOf[x] # b
      BY <1>1, <1>2, <2>1, <2>3, <3>1 DEF Stands
    <3>2. CASE BucketOf[x] = b
      <4>1. b = at.bucket_ofs /\ at.ofs > 0
        BY <1>2, <1>6, <2>2, <2>3, <3>2 DEF Awaits
      <4>2. Passed(k, 1)
        BY <1>6, <4>1 DEF Passed
      <4> QED
        BY <1>3, <3>2, <4>2
    <3> QED
      BY <3>1, <3>2
  <2> QED
    BY <2>1, <2>3
<1>8. StillAhead'
  <2> SUFFICES ASSUME NEW x \in stayed
               PROVE  \E i \in DOMAIN chain'[BucketOf[x]] :
                          /\ Stands(x, i)'
                          /\ BucketOf[x] \notin shrank => visits[x] > 0 \/ Awaits(x, i)
    BY <1>3 DEF StillAhead, Awaits
  <2>1. x \in Keys
    BY DEF IterationInv, TypeOK
  <2>2. PICK i \in DOMAIN chain[BucketOf[x]] :
            Stands(x, i) /\ (BucketOf[x] \notin shrank => visits[x] > 0 \/ Awaits(x, i))
    BY DEF IterationInv, StillAhead
  <2>3. CASE BucketOf[x] # b
    BY <1>1, <1>2, <2>1, <2>2, <2>3 DEF Stands
  <2>4. CASE BucketOf[x] = b
    <3>1. i \in 1 .. Len(chain[b]) /\ i + 1 \in DOMAIN chain'[b]
      BY <1>1, <1>2, <1>5, <2>2, <2>4
    <3>2. chain'[b][i + 1] = x
      BY <1>1, <2>2, <2>4, <3>1 DEF Stands
    <3>3. Awaits(x, i) => Awaits(x, i + 1)
      BY <1>2, <1>6, <2>1, <3>1 DEF Awaits
    <3> QED
      BY <2>2, <2>4, <3>1, <3>2, <3>3 DEF Stands
  <2> QED
    BY <2>3, <2>4
<1> QED
  BY <1>1, <1>3, <1>4, <1>7, <1>8 DEF IterationInv, VisitedBehind, AtEnd

\* A key that is deleted between two slices moves those behind it up.  One of
\* them passes the iteration, unvisited, only where that stands.
LEMMA DeleteStep ==
    ASSUME IterationInv, NEW k \in Keys, Delete(k)
    PROVE  IterationInv'
<1> DEFINE b == BucketOf[k]
           pos == Position(k)
<1>1. /\ chain \in [Buckets -> Seq(Keys)] /\ chain' \in [Buckets -> Seq(Keys)]
      /\ pos \in DOMAIN chain[b]
      /\ \A c \in Buckets \ {b} : chain'[c] = chain[c]
      /\ \A j \in DOMAIN chain'[b] :
             IF j < pos THEN j \in DOMAIN chain[b] /\ chain'[b][j] = chain[b][j]
             ELSE j + 1 \in DOMAIN chain[b] /\ chain'[b][j] = chain[b][j + 1]
      /\ TableOK'
  BY DropFact DEF IterationInv, TypeOK, Delete
<1>2. /\ b \in Buckets /\ b \in Nat
      /\ \A x \in Keys : BucketOf[x] \in Buckets /\ BucketOf[x] \in Nat
  BY BucketFact
<1>3. /\ UNCHANGED <<phase, at, visits, grew>>
      /\ stayed' = stayed \intersect {KeyAt(e) : e \in Entries}'
      /\ shrank' = IF Passed(k, pos) THEN shrank \union {b} ELSE shrank
  BY DEF Delete
<1>4. TypeOK'
  BY <1>1, <1>2, <1>3 DEF IterationInv, TypeOK
<1>5. /\ \A c \in Buckets : \A i \in DOMAIN chain[c] : i \in Nat
      /\ \A c \in Buckets : \A i \in DOMAIN chain'[c] : i \in Nat
      /\ pos \in Nat
  BY <1>1, <1>2
<1>6. at.bucket_ofs \in Nat /\ at.ofs \in Nat /\ \A x \in Keys : visits[x] \in Nat
  BY DEF IterationInv, TypeOK
<1> HIDE DEF pos
<1>7. NotAgain'
  <2> SUFFICES ASSUME NEW x \in Keys, BucketOf[x] \notin grew, visits[x] > 0,
                      NEW i \in DOMAIN chain'[BucketOf[x]], Stands(x, i)', Awaits(x, i)
               PROVE  FALSE
    BY <1>3 DEF IterationInv, NotAgain, Awaits
  <2>1. \A j \in DOMAIN chain[BucketOf[x]] : Stands(x, j) => ~Awaits(x, j)
    BY DEF IterationInv, NotAgain
  <2>2. CASE BucketOf[x] # b
    BY <1>1, <1>2, <2>1, <2>2 DEF Stands
  <2>3. CASE BucketOf[x] = b
    <3>1. CASE i < pos
      BY <1>1, <2>1, <2>3, <3>1 DEF Stands
    <3>2. CASE ~ (i < pos)
      <4>1. Stands(x, i + 1)
        BY <1>1, <2>3, <3>2 DEF Stands
      <4>2. i \in Nat
        BY <1>2, <1>5, <2>3
      <4>3. Awaits(x, i + 1)
        BY <1>2, <1>6, <4>2 DEF Awaits
      <4> QED
        BY <2>1, <4>1, <4>3 DEF Stands
    <3> QED
      BY <3>1, <3>2
  <2> QED
    BY <2>2, <2>3
<1>8. ASSUME NEW x \in stayed' PROVE \E j \in DOMAIN chain'[BucketOf[x]] : Stands(x, j)'
  <2>1. x \in {KeyAt(e) : e \in Entries}'
    BY <1>3
  <2>2. PICK c \in Buckets : \E j \in DOMAIN chain'[c] : x = chain'[c][j]
    BY <2>1 DEF KeyAt, Entries
  <2>3. BucketOf[x] = c
    BY <1>1, <2>2 DEF TableOK
  <2> QED
    BY <2>2, <2>3 DEF Stands
<1>9. StillAhead'
  <2> SUFFICES ASSUME NEW x \in stayed'
               PROVE  \E j \in DOMAIN chain'[BucketOf[x]] :
                          /\ Stands(x, j)'
                          /\ BucketOf[x] \notin shrank' => visits[x] > 0 \/ Awaits(x, j)
    BY <1>3 DEF StillAhead, Awaits
  <2>1. x \in stayed /\ x \in Keys
    BY <1>3 DEF IterationInv, TypeOK
  <2>2. PICK i \in DOMAIN chain[BucketOf[x]] :
            Stands(x, i) /\ (BucketOf[x] \notin shrank => visits[x] > 0 \/ Awaits(x, i))
    BY <2>1 DEF IterationInv, StillAhead
  <2>3. PICK j \in DOMAIN chain'[BucketOf[x]] : Stands(x, j)'
    BY <1>8
  <2>4. CASE BucketOf[x] # b
    BY <1>1, <1>2, <1>3, <2>1, <2>2, <2>4 DEF Stands
  <2>5. CASE BucketOf[x] = b
    <3>1. i \in Nat /\ j \in Nat
      BY <1>2, <1>5, <2>5
    <3>2. i = IF j < pos THEN j ELSE j + 1
      <4>1. \A m, n \in DOMAIN chain[b] :
                LengthOf[chain[b][m]] = LengthOf[chain[b][n]] => m = n
        BY <1>2 DEF IterationInv, TableOK
      <4>2. \A m, n \in DOMAIN chain[b] : chain[b][m] = chain[b][n] => m = n
        BY <4>1
      <4>3. i \in DOMAIN chain[b] /\ chain[b][i] = x /\ j \in DOMAIN chain'[b] /\ chain'[b][j] = x
        BY <2>2, <2>3, <2>5 DEF Stands
      <4> QED
        BY <1>1, <4>2, <4>3
    <3>3. ASSUME BucketOf[x] \notin shrank' PROVE visits[x] > 0 \/ Awaits(x, j)
      <4>1. ~Passed(k, pos) /\ BucketOf[x] \notin shrank
        BY <1>3, <2>5, <3>3
      <4>2. visits[x] > 0 \/ Awaits(x, i)
        BY <2>2, <4>1
      <4>3. at.bucket_ofs # b \/ at.ofs < pos
        BY <1>5, <1>6, <4>1 DEF Passed
      <4> QED
        BY <1>2, <1>5, <1>6, <2>5, <3>1, <3>2, <4>2, <4>3 DEF Awaits
    <3> QED
      BY <2>3, <3>3
  <2> QED
    BY <2>4, <2>5
<1> QED
  BY <1>1, <1>3, <1>4, <1>7, <1>9 DEF IterationInv, VisitedBehind, AtEnd

\* A slice visits the entries up to the one at which it ends, each once, and the
\* iteration awaits those behind that one, no other.
LEMMA IterateStep ==
    ASSUME IterationInv, Iterate
    PROVE  IterationInv'
<1> DEFINE slice == FirstOf(Ahead, Slice)
           last == LastOf(slice)
           hits(x) == {e \in slice : KeyAt(e) = x}
           Entry(x, i) == <<BucketOf[x], i>>
<1>1. /\ \A b \in Buckets : \A i \in DOMAIN chain[b] :
             /\ <<b, i>> \in Entries /\ KeyAt(<<b, i>>) = chain[b][i]
             /\ chain[b][i] \in Keys /\ i \in Nat \ {0}
      /\ \A e \in Entries :
             /\ e = <<e[1], e[2]>> /\ e \in Nat \X Nat
             /\ e[1] \in Buckets /\ e[2] \in DOMAIN chain[e[1]]
             /\ KeyAt(e) = chain[e[1]][e[2]] /\ KeyAt(e) \in Keys
      /\ Entries \in SUBSET (Nat \X Nat)
      /\ IsFiniteSet(Entries)
  BY EntriesFact DEF IterationInv, TypeOK
<1>2. /\ at.bucket_ofs \in Nat /\ at.ofs \in Nat
      /\ \A x \in Keys : visits[x] \in 0 .. 2 /\ BucketOf[x] \in Buckets /\ BucketOf[x] \in Nat
                        /\ BucketOf[x] < Cardinality(Buckets)
      /\ Cardinality(Buckets) \in Nat
  BY BucketFact DEF IterationInv, TypeOK
<1>3. /\ Ahead \in SUBSET Entries
      /\ Ahead \in SUBSET (Nat \X Nat)
      /\ IsFiniteSet(Ahead)
      /\ \A e \in Entries : e \in Ahead <=> Before(<<at.bucket_ofs, at.ofs>>, e)
  <2>1. Ahead \in SUBSET Entries /\ \A e \in Entries : e \in Ahead <=> Before(<<at.bucket_ofs, at.ofs>>, e)
    BY DEF Ahead
  <2>2. IsFiniteSet(Ahead)
    BY <1>1, <2>1, FS_Subset
  <2> QED
    BY <1>1, <2>1, <2>2
<1>4. /\ slice \in SUBSET Ahead
      /\ Cardinality(slice) < Slice => slice = Ahead
      /\ ~ (Cardinality(slice) < Slice) =>
             /\ last \in slice
             /\ \A e \in slice : ~Before(last, e)
             /\ \A e \in Ahead \ slice : Before(last, e)
  BY <1>3, SliceFact, SliceAssumption
<1>5. /\ visits' = [x \in Keys |-> Min({2, visits[x] + Cardinality(hits(x))})]
      /\ IF Cardinality(slice) < Slice
         THEN phase' = "done" /\ at' = [bucket_ofs |-> Cardinality(Buckets), ofs |-> 0]
         ELSE phase' = "iterating" /\ at' = [bucket_ofs |-> last[1], ofs |-> last[2]]
      /\ UNCHANGED <<chain, stayed, grew, shrank>>
  BY DEF Iterate, Visit, EndsHere, Resume
<1> HIDE DEF slice, last
\* In the chain of x there is one entry of x.
<1>6. \A x \in Keys : \A i, j \in DOMAIN chain[BucketOf[x]] :
          Stands(x, i) /\ Stands(x, j) => i = j
  <2> TAKE x \in Keys
  <2>1. \A m, n \in DOMAIN chain[BucketOf[x]] :
            LengthOf[chain[BucketOf[x]][m]] = LengthOf[chain[BucketOf[x]][n]] => m = n
    BY <1>2 DEF IterationInv, TableOK
  <2> QED
    BY <2>1 DEF Stands
<1>7. ASSUME NEW x \in Keys, NEW e \in slice, KeyAt(e) = x
      PROVE  e[2] \in DOMAIN chain[BucketOf[x]] /\ Stands(x, e[2]) /\ e = Entry(x, e[2])
  <2>1. e \in Entries
    BY <1>3, <1>4
  <2>2. BucketOf[x] = e[1]
    BY <1>1, <1>7, <2>1 DEF IterationInv, TableOK
  <2> QED
    BY <1>1, <1>7, <2>1, <2>2 DEF Stands
<1>8. ASSUME NEW x \in Keys
      PROVE  /\ hits(x) = {} => visits'[x] = visits[x]
             /\ hits(x) # {} => visits'[x] = IF visits[x] = 2 THEN 2 ELSE visits[x] + 1
  <2> DEFINE H == hits(x)
  <2>1. H \in SUBSET Entries
    BY <1>3, <1>4
  <2>2. IsFiniteSet(H)
    BY <1>1, <2>1, FS_Subset
  <2>3. \A d, e \in H : d = e
    BY <1>6, <1>7
  <2> HIDE DEF H
  <2>4. Cardinality(H) \in Nat /\ Cardinality(H) <= 1 /\ (Cardinality(H) = 0 <=> H = {})
    BY <2>2, <2>3, AtMostOne, FS_CardinalityType, FS_EmptySet
  <2> DEFINE n == visits[x] + Cardinality(H)
  <2>5. n \in Nat /\ n <= 3
    BY <1>2, <2>4
  <2>6. visits'[x] = Min({2, n})
    BY <1>5 DEF H
  <2>7. Min({2, n}) = IF n < 2 THEN n ELSE 2
    <3> HIDE DEF n
    <3>1. Min({2, n}) \in {2, n} /\ \A m \in {2, n} : Min({2, n}) <= m
      BY <2>5, MinFact
    <3> QED
      BY <2>5, <3>1
  <2>8. /\ H = {} => visits'[x] = visits[x]
        /\ H # {} => visits'[x] = IF visits[x] = 2 THEN 2 ELSE visits[x] + 1
    BY <1>2, <2>4, <2>6, <2>7
  <2> QED
    BY <2>8 DEF H
<1>9. ASSUME NEW x \in Keys, NEW i \in DOMAIN chain[BucketOf[x]], Stands(x, i)
      PROVE  /\ Entry(x, i) \in Entries /\ KeyAt(Entry(x, i)) = x
             /\ Entry(x, i) \in Ahead <=> Awaits(x, i)
             /\ Awaits(x, i)' <=> Entry(x, i) \in Ahead \ slice
  <2> DEFINE e == Entry(x, i)
  <2>1. e \in Entries /\ KeyAt(e) = x /\ i \in Nat
    BY <1>1, <1>2, <1>9 DEF Stands
  <2>2. e \in Ahead <=> Awaits(x, i)
    BY <1>3, <2>1 DEF Before, Awaits
  <2>3. CASE Cardinality(slice) < Slice
    <3>1. ~ Awaits(x, i)'
      BY <1>2, <1>5, <2>3 DEF Awaits
    <3> QED
      BY <1>4, <2>1, <2>2, <2>3, <3>1
  <2>4. CASE ~ (Cardinality(slice) < Slice)
    <3>1. last \in Entries /\ last \in Ahead
      BY <1>3, <1>4, <2>4
    <3>2. last[1] \in Nat /\ last[2] \in Nat /\ Before(<<at.bucket_ofs, at.ofs>>, last)
      BY <1>1, <1>3, <3>1
    <3>3. Awaits(x, i)' <=> Before(last, e)
      BY <1>5, <2>4 DEF Awaits, Before
    <3>4. Before(last, e) => e \in Ahead
      BY <1>2, <2>1, <2>2, <3>2 DEF Awaits, Before
    <3> QED
      BY <1>4, <2>1, <2>2, <2>4, <3>3, <3>4
  <2> QED
    BY <2>3, <2>4
<1> HIDE DEF hits, Entry
<1>10. ASSUME NEW x \in Keys, NEW i \in DOMAIN chain[BucketOf[x]], Stands(x, i)
       PROVE  hits(x) # {} <=> Entry(x, i) \in slice
  <2>1. ASSUME Entry(x, i) \in slice PROVE hits(x) # {}
    BY <1>9, <1>10, <2>1 DEF hits
  <2>2. ASSUME hits(x) # {} PROVE Entry(x, i) \in slice
    <3>1. PICK e \in slice : KeyAt(e) = x
      BY <2>2 DEF hits
    <3>2. e[2] \in DOMAIN chain[BucketOf[x]] /\ Stands(x, e[2]) /\ e = Entry(x, e[2])
      BY <1>7, <3>1 DEF Entry
    <3>3. e[2] = i
      BY <1>6, <1>10, <3>2
    <3> QED
      BY <3>2, <3>3
  <2> QED
    BY <2>1, <2>2
<1>11. TypeOK'
  <2>1. visits' \in [Keys -> 0 .. 2]
    <3>1. \A x \in Keys : visits'[x] \in 0 .. 2
      BY <1>2, <1>8
    <3>2. visits' = [x \in Keys |-> visits'[x]]
      BY <1>5
    <3> QED
      BY <3>1, <3>2
  <2>2. at' \in [bucket_ofs : Nat, ofs : Nat] /\ phase' \in {"idle", "iterating", "done", "failed"}
    <3>1. CASE Cardinality(slice) < Slice
      BY <1>2, <1>5, <3>1
    <3>2. CASE ~ (Cardinality(slice) < Slice)
      <4>1. last \in Entries
        BY <1>3, <1>4, <3>2
      <4>2. last[1] \in Nat /\ last[2] \in Nat
        BY <1>1, <4>1
      <4> QED
        BY <1>5, <3>2, <4>2
    <3> QED
      BY <3>1, <3>2
  <2> QED
    BY <1>5, <2>1, <2>2 DEF IterationInv, TypeOK
<1>12. VisitedBehind'
  <2> SUFFICES ASSUME NEW x \in Keys, visits'[x] > 0
               PROVE  \/ BucketOf[x] < at'.bucket_ofs
                      \/ BucketOf[x] = at'.bucket_ofs /\ at'.ofs > 0
    BY DEF VisitedBehind
  <2>1. CASE Cardinality(slice) < Slice
    BY <1>2, <1>5, <2>1
  <2>2. CASE ~ (Cardinality(slice) < Slice)
    <3>1. last \in Entries /\ last \in Ahead
      BY <1>3, <1>4, <2>2
    <3>2. /\ last[1] \in Nat /\ last[2] \in Nat \ {0}
          /\ Before(<<at.bucket_ofs, at.ofs>>, last)
      BY <1>1, <1>3, <3>1
    <3>3. at'.bucket_ofs = last[1] /\ at'.ofs = last[2]
      BY <1>5, <2>2
    <3>4. CASE visits[x] > 0
      <4>1. BucketOf[x] < at.bucket_ofs \/ (BucketOf[x] = at.bucket_ofs /\ at.ofs > 0)
        BY <3>4 DEF IterationInv, VisitedBehind
      <4> QED
        BY <1>2, <3>2, <3>3, <4>1 DEF Before
    <3>5. CASE ~ (visits[x] > 0)
      <4>1. hits(x) # {}
        BY <1>8, <3>5
      <4>2. PICK e \in slice : KeyAt(e) = x
        BY <4>1 DEF hits
      <4>3. e = <<BucketOf[x], e[2]>> /\ ~Before(last, e)
        BY <1>4, <1>7, <2>2, <4>2 DEF Entry
      <4>4. e[2] \in Nat /\ BucketOf[x] \in Nat
        BY <1>1, <1>2, <1>7, <4>2
      <4> QED
        BY <3>2, <3>3, <4>3, <4>4 DEF Before
    <3> QED
      BY <3>4, <3>5
  <2> QED
    BY <2>1, <2>2
<1>13. NotAgain'
  <2> SUFFICES ASSUME NEW x \in Keys, BucketOf[x] \notin grew
               PROVE  /\ visits'[x] <= 1
                      /\ visits'[x] > 0 =>
                             \A i \in DOMAIN chain[BucketOf[x]] : Stands(x, i) => ~Awaits(x, i)'
    BY <1>5 DEF NotAgain, Stands
  <2>1. /\ visits[x] <= 1
        /\ visits[x] > 0 =>
               \A i \in DOMAIN chain[BucketOf[x]] : Stands(x, i) => ~Awaits(x, i)
    BY DEF IterationInv, NotAgain
  <2>2. visits[x] > 0 => hits(x) = {}
    <3> SUFFICES ASSUME visits[x] > 0, hits(x) # {} PROVE FALSE
      OBVIOUS
    <3>1. PICK e \in slice : KeyAt(e) = x
      BY DEF hits
    <3>2. e[2] \in DOMAIN chain[BucketOf[x]] /\ Stands(x, e[2]) /\ e = Entry(x, e[2])
      BY <1>7, <3>1 DEF Entry
    <3>3. Awaits(x, e[2])
      BY <1>4, <1>9, <3>2
    <3> QED
      BY <2>1, <3>2, <3>3
  <2>3. visits'[x] <= 1
    BY <1>2, <1>8, <2>1, <2>2
  <2>4. ASSUME visits'[x] > 0, NEW i \in DOMAIN chain[BucketOf[x]], Stands(x, i), Awaits(x, i)'
        PROVE  FALSE
    <3>1. Entry(x, i) \in Ahead \ slice
      BY <1>9, <2>4
    <3>2. hits(x) = {} /\ Awaits(x, i)
      BY <1>9, <1>10, <2>4, <3>1
    <3>3. visits[x] > 0
      BY <1>8, <2>4, <3>2
    <3> QED
      BY <2>1, <2>4, <3>2, <3>3
  <2> QED
    BY <2>3, <2>4
<1>14. StillAhead'
  <2> SUFFICES ASSUME NEW x \in stayed
               PROVE  \E i \in DOMAIN chain[BucketOf[x]] :
                          /\ Stands(x, i)
                          /\ BucketOf[x] \notin shrank => visits'[x] > 0 \/ Awaits(x, i)'
    BY <1>5 DEF StillAhead, Stands
  <2>1. x \in Keys
    BY DEF IterationInv, TypeOK
  <2>2. PICK i \in DOMAIN chain[BucketOf[x]] :
            Stands(x, i) /\ (BucketOf[x] \notin shrank => visits[x] > 0 \/ Awaits(x, i))
    BY DEF IterationInv, StillAhead
  <2>3. visits[x] > 0 => visits'[x] > 0
    BY <1>2, <1>8, <2>1
  <2>4. Awaits(x, i) => visits'[x] > 0 \/ Awaits(x, i)'
    <3>1. ASSUME Awaits(x, i), Entry(x, i) \in slice PROVE visits'[x] > 0
      <4>1. hits(x) # {}
        BY <1>10, <2>1, <2>2, <3>1
      <4> QED
        BY <1>2, <1>8, <2>1, <4>1
    <3> QED
      BY <1>9, <2>1, <2>2, <3>1
  <2> QED
    BY <2>2, <2>3, <2>4
<1>15. TableOK' /\ AtEnd'
  BY <1>5 DEF IterationInv, TableOK, AtEnd
<1> QED
  BY <1>11, <1>12, <1>13, <1>14, <1>15 DEF IterationInv

\* Every step keeps the invariant.
LEMMA IterationStep ==
    ASSUME IterationInv, [IterationNext]_vars
    PROVE  IterationInv'
<1>1. CASE Begin
  <2>1. /\ UNCHANGED chain /\ phase' = "iterating"
        /\ at' = [bucket_ofs |-> 0, ofs |-> 0]
        /\ visits' = [x \in Keys |-> 0]
        /\ stayed' = Stored /\ grew' = {} /\ shrank' = {}
    BY <1>1 DEF Begin
  <2>2. chain \in [Buckets -> Seq(Keys)] /\ TableOK
    BY DEF IterationInv, TypeOK
  <2>3. ASSUME NEW x \in Stored
        PROVE  /\ x \in Keys
               /\ \E i \in DOMAIN chain[BucketOf[x]] : Stands(x, i) /\ Awaits(x, i)'
    <3>1. PICK e \in Entries : x = KeyAt(e)
      BY DEF Stored
    <3>2. /\ e[1] \in Buckets /\ e[2] \in DOMAIN chain[e[1]]
          /\ x = chain[e[1]][e[2]] /\ x \in Keys
      BY <2>2, <3>1, EntriesFact
    <3>3. e[2] \in Nat \ {0} /\ e[1] \in Nat
      BY <2>2, <3>2, EntriesFact, BucketFact
    <3>4. BucketOf[x] = e[1]
      BY <2>2, <3>2 DEF TableOK
    <3>5. Awaits(x, e[2])'
      BY <2>1, <3>3, <3>4 DEF Awaits
    <3> QED
      BY <3>2, <3>4, <3>5 DEF Stands
  <2>4. TypeOK'
    BY <2>1, <2>2, <2>3 DEF TypeOK
  <2>5. StillAhead'
    BY <2>1, <2>3 DEF StillAhead, Stands
  <2> QED
    BY <2>1, <2>2, <2>4, <2>5 DEF IterationInv, TableOK, VisitedBehind, NotAgain, AtEnd
<1>2. CASE Iterate
  BY <1>2, IterateStep
<1>3. CASE IterateFails
  BY <1>3 DEF IterateFails, IterationInv, TypeOK, TableOK, VisitedBehind, NotAgain, StillAhead,
     AtEnd, Stands, Awaits
<1>4. ASSUME NEW k \in Keys, Set(k) PROVE IterationInv'
  BY <1>4, SetStep
<1>5. ASSUME NEW k \in Keys, Delete(k) PROVE IterationInv'
  BY <1>5, DeleteStep
<1>6. CASE ClearAll
  <2>1. /\ chain' = [b \in Buckets |-> <<>>] /\ stayed' = {}
        /\ UNCHANGED <<phase, at, visits, grew, shrank>>
    BY <1>6 DEF ClearAll, Clear
  <2>2. chain' \in [Buckets -> Seq(Keys)] /\ \A b \in Buckets : DOMAIN chain'[b] = {}
    BY <2>1
  <2>3. TypeOK'
    BY <2>1, <2>2 DEF IterationInv, TypeOK
  <2>4. TableOK'
    BY <2>2 DEF TableOK
  <2>5. NotAgain'
    BY <2>1, <2>2, BucketFact DEF IterationInv, NotAgain
  <2> QED
    BY <2>1, <2>3, <2>4, <2>5 DEF IterationInv, VisitedBehind, StillAhead, AtEnd
<1>7. CASE UNCHANGED vars
  BY <1>7 DEF vars, IterationInv, TypeOK, TableOK, VisitedBehind, NotAgain, StillAhead,
     AtEnd, Stands, Awaits
<1> QED
  BY <1>1, <1>2, <1>3, <1>4, <1>5, <1>6, <1>7 DEF IterationNext

\* An empty table, before the first iteration.
LEMMA IterationInitFact == IterationInit => IterationInv
<1> SUFFICES ASSUME IterationInit PROVE IterationInv
  OBVIOUS
<1>1. chain \in [Buckets -> Seq(Keys)] /\ \A b \in Buckets : DOMAIN chain[b] = {}
  BY DEF IterationInit, Init
<1>2. TypeOK
  BY <1>1 DEF IterationInit, TypeOK
<1> QED
  BY <1>1, <1>2 DEF IterationInit, IterationInv, TableOK, VisitedBehind, NotAgain, StillAhead, AtEnd

-----------------------------------------------------------------------------
\* The invariant holds throughout, whatever is set, deleted and cleared between
\* the slices, and however often an iteration begins anew.
THEOREM IterationInvariant == IterationSpec => []IterationInv
<1> QED
  BY IterationInitFact, IterationStep, PTL DEF IterationSpec

\* The variables keep their types.
THEOREM IterationTypes == IterationSpec => []TypeOK
<1>1. IterationInv => TypeOK
  BY DEF IterationInv
<1> QED
  BY <1>1, IterationInvariant, PTL

\* No two keys of one length are ever in one chain, and each entry is where
\* ht_lookup looks for its key.
THEOREM OneOfALength == IterationSpec => []TableOK
<1>1. IterationInv => TableOK
  BY DEF IterationInv
<1> QED
  BY <1>1, IterationInvariant, PTL

\* An iteration that came to its end has visited every key that was there from
\* beginning to end, but for those in a bucket that lost a visited entry while
\* the iteration stood in it.
THEOREM NoKeySkipped == IterationSpec => []NothingSkipped
<1>1. ASSUME IterationInv, phase = "done", NEW k \in stayed, BucketOf[k] \notin shrank
      PROVE  visits[k] >= 1
  <2>1. k \in Keys /\ visits[k] \in Nat
    BY <1>1 DEF IterationInv, TypeOK
  <2>2. \E i \in DOMAIN chain[BucketOf[k]] : visits[k] > 0 \/ Awaits(k, i)
    BY <1>1 DEF IterationInv, StillAhead
  <2>3. at.bucket_ofs = Cardinality(Buckets)
    BY <1>1 DEF IterationInv, AtEnd
  <2>4. BucketOf[k] \in Nat /\ BucketOf[k] < at.bucket_ofs /\ at.bucket_ofs \in Nat
    BY <2>1, <2>3, BucketFact
  <2>5. \A i \in DOMAIN chain[BucketOf[k]] : ~Awaits(k, i)
    BY <2>4 DEF Awaits
  <2> QED
    BY <2>1, <2>2, <2>5
<1>2. IterationInv => NothingSkipped
  BY <1>1 DEF NothingSkipped
<1> QED
  BY <1>2, IterationInvariant, PTL

\* No key is visited twice, deleted and set again or not, but in a bucket that
\* got a new first entry while the iteration stood in it.
THEOREM NoKeyRepeated == IterationSpec => []NothingRepeated
<1>1. IterationInv => NothingRepeated
  BY DEF IterationInv, NotAgain, NothingRepeated
<1> QED
  BY <1>1, IterationInvariant, PTL

-----------------------------------------------------------------------------
\* rand() modulo a number draws any number below it, and nothing else.
LEMMA ModFact ==
    ASSUME NEW a \in Nat, NEW m \in Nat \ {0}
    PROVE  a % m \in 0 .. m - 1 /\ (a < m => a % m = a)
OBVIOUS

\* Of a finite set of keys a table holds no more entries in a chain, and no more
\* chains, than there are keys.
LEMMA FewFact ==
    ASSUME chain \in [Buckets -> Seq(Keys)], TableOK, IsFiniteSet(Keys)
    PROVE  /\ IsFiniteSet(Filled) /\ Filled \in SUBSET Nat /\ Filled \in SUBSET Buckets
           /\ Cardinality(Filled) \in Nat /\ Cardinality(Keys) \in Nat
           /\ Cardinality(Filled) <= Cardinality(Keys)
           /\ \A b \in Buckets : Len(chain[b]) \in Nat /\ Len(chain[b]) <= Cardinality(Keys)
<1>1. /\ IsFiniteSet(Filled) /\ Filled \in SUBSET Nat /\ Filled \in SUBSET Buckets
      /\ Cardinality(Filled) \in Nat /\ Cardinality(Keys) \in Nat
  <2>1. Filled \in SUBSET Buckets
    BY DEF Filled
  <2>2. IsFiniteSet(Filled)
    BY <2>1, TableAssumption, FS_Subset
  <2> QED
    BY <2>1, <2>2, BucketFact, FS_CardinalityType
<1>2. ASSUME NEW b \in Filled
      PROVE  1 \in DOMAIN chain[b] /\ chain[b][1] \in Keys /\ BucketOf[chain[b][1]] = b
  <2>1. b \in Buckets /\ chain[b] \in Seq(Keys) /\ chain[b] # <<>>
    BY DEF Filled
  <2>2. 1 \in DOMAIN chain[b] /\ chain[b][1] \in Keys
    BY <2>1, EmptySeq
  <2> QED
    BY <2>1, <2>2 DEF TableOK
<1>3. ~ (Cardinality(Keys) < Cardinality(Filled))
  <2> SUFFICES ASSUME Cardinality(Keys) < Cardinality(Filled) PROVE FALSE
    OBVIOUS
  <2> DEFINE f == [b \in Filled |-> chain[b][1]]
  <2>1. f \in [Filled -> Keys]
    BY <1>2
  <2>2. \A x, y \in Filled : x # y => f[x] # f[y]
    BY <1>2
  <2> HIDE DEF f
  <2> QED
    BY <1>1, <2>1, <2>2, FS_PigeonHole
<1>4. ASSUME NEW b \in Buckets
      PROVE  Len(chain[b]) \in Nat /\ ~ (Cardinality(Keys) < Len(chain[b]))
  <2> DEFINE f == chain[b]
             D == 1 .. Len(f)
  <2>1. Len(f) \in Nat /\ f \in [D -> Keys]
    BY LenProperties
  <2>2. IsFiniteSet(D) /\ Cardinality(D) = Len(f)
    BY <2>1, FS_Interval
  <2>3. \A i, j \in D : i # j => f[i] # f[j]
    BY <2>1 DEF TableOK
  <2> HIDE DEF f, D
  <2>4. ASSUME Cardinality(Keys) < Cardinality(D) PROVE FALSE
    <3>1. \E i, j \in D : i # j /\ f[i] = f[j]
      BY <2>1, <2>2, <2>4, FS_PigeonHole, Zenon
    <3> QED
      BY <2>3, <3>1
  <2> QED
    BY <2>1, <2>2, <2>4 DEF f
<1> QED
  BY <1>1, <1>3, <1>4

\* The bucket and the entry that two values of rand() name are those of an entry
\* of the table, and each entry has values that name it.
THEOREM RandomPairs == ASSUME IsFiniteSet(Keys) PROVE IterationSpec => []RandomPairDraws
<1> DEFINE draws == 0 .. Cardinality(Keys)
           F == Cardinality(Filled)
<1>1. ASSUME IterationInv, Stored # {}
      PROVE  {ht_random_pair(x, y) : x \in draws, y \in draws} = Entries
  <2>1. chain \in [Buckets -> Seq(Keys)] /\ TableOK
    BY <1>1 DEF IterationInv, TypeOK
  <2>2. /\ IsFiniteSet(Filled) /\ Filled \in SUBSET Nat /\ Filled \in SUBSET Buckets
        /\ F \in Nat /\ Cardinality(Keys) \in Nat /\ F <= Cardinality(Keys)
        /\ \A b \in Buckets : Len(chain[b]) \in Nat /\ Len(chain[b]) <= Cardinality(Keys)
    BY <2>1, FewFact
  <2>3. \A b \in Buckets : chain[b] \in Seq(Keys) /\ DOMAIN chain[b] = 1 .. Len(chain[b])
    BY <2>1
  <2>4. \A b \in Filled : Len(chain[b]) \in Nat \ {0}
    BY <2>2, <2>3, EmptySeq DEF Filled
  <2>5. \A e \in Entries : /\ e = <<e[1], e[2]>> /\ e[1] \in Filled
                          /\ e[2] \in 1 .. Len(chain[e[1]])
    <3> SUFFICES ASSUME NEW e \in Entries
                 PROVE  /\ e = <<e[1], e[2]>> /\ e[1] \in Filled
                        /\ e[2] \in 1 .. Len(chain[e[1]])
      OBVIOUS
    <3>1. e = <<e[1], e[2]>> /\ e[1] \in Buckets /\ e[2] \in DOMAIN chain[e[1]]
      BY <2>1, EntriesFact
    <3> QED
      BY <2>3, <3>1 DEF Filled
  <2>6. F > 0
    <3>1. PICK e \in Entries : TRUE
      BY <1>1 DEF Stored
    <3> QED
      BY <2>2, <2>5, <3>1, FS_EmptySet
  <2>7. ASSUME NEW x \in draws, NEW y \in draws PROVE ht_random_pair(x, y) \in Entries
    <3> DEFINE n == x % F
               b == Bucket(n)
               i == 1 + (y % Len(chain[b]))
    <3>1. n \in Nat /\ n < F
      <4>1. x \in Nat /\ F \in Nat \ {0}
        BY <2>2, <2>6
      <4>2. n \in 0 .. F - 1
        BY <4>1, ModFact, Zenon
      <4> HIDE DEF n
      <4> QED
        BY <4>1, <4>2
    <3>2. \E c \in Filled : Cardinality({d \in Filled : d < c}) = n
      <4> HIDE DEF n
      <4> QED
        BY <2>2, <3>1, NthFact
    <3>3. b \in Filled
      BY <3>2 DEF Bucket
    <3> HIDE DEF b
    <3>4. Len(chain[b]) \in Nat \ {0} /\ b \in Buckets
      BY <2>2, <2>4, <3>3
    <3>5. i \in 1 .. Len(chain[b])
      <4>1. y \in Nat
        BY <2>2
      <4>2. y % Len(chain[b]) \in 0 .. Len(chain[b]) - 1
        BY <3>4, <4>1, ModFact, Zenon
      <4> DEFINE r == y % Len(chain[b])
      <4> HIDE DEF r
      <4>3. r \in 0 .. Len(chain[b]) - 1
        BY <4>2 DEF r
      <4>4. 1 + r \in 1 .. Len(chain[b])
        BY <3>4, <4>3
      <4> QED
        BY <4>4 DEF r
    <3> HIDE DEF i
    <3>6. <<b, i>> \in Entries
      BY <2>1, <2>3, <3>4, <3>5, EntriesFact
    <3> QED
      BY <3>6 DEF ht_random_pair, EntryOf, i, b
  <2>8. ASSUME NEW e \in Entries PROVE \E x, y \in draws : ht_random_pair(x, y) = e
    <3> DEFINE b == e[1]
               y == e[2] - 1
               S == {c \in Filled : c < b}
               x == Cardinality(S)
    <3>1. /\ e = <<b, e[2]>> /\ b \in Filled /\ b \in Nat /\ b \in Buckets
          /\ e[2] \in 1 .. Len(chain[b])
      BY <2>2, <2>5
    <3> HIDE DEF b
    <3>2. x \in Nat /\ x < F
      <4>1. S \in SUBSET Filled /\ b \notin S
        BY <3>1
      <4>2. IsFiniteSet(S) /\ Cardinality(S) <= F /\ Cardinality(S) # F
        BY <2>2, <3>1, <4>1, FS_Subset
      <4> HIDE DEF S
      <4> QED
        BY <2>2, <4>2, FS_CardinalityType
    <3>3. Bucket(x) = b
      <4>1. \A a, c \in Filled : Cardinality({d \in Filled : d < a}) = x
                              /\ Cardinality({d \in Filled : d < c}) = x => a = c
        <5> HIDE DEF x
        <5> QED
          BY <2>2, <3>2, NthFact
      <4>2. Cardinality({d \in Filled : d < b}) = x
        OBVIOUS
      <4> HIDE DEF x
      <4> QED
        BY <3>1, <4>1, <4>2 DEF Bucket
    <3> HIDE DEF x
    <3>4. x \in draws /\ x % F = x
      <4>1. x \in draws /\ F \in Nat \ {0}
        BY <2>2, <2>6, <3>2
      <4> QED
        BY <3>2, <4>1, ModFact, Zenon
    <3>5. y \in draws /\ y % Len(chain[b]) = y
      <4>1. y \in Nat /\ y < Len(chain[b]) /\ Len(chain[b]) \in Nat \ {0}
        BY <2>2, <3>1
      <4>2. y \in draws
        BY <2>2, <3>1, <4>1
      <4> QED
        BY <4>1, <4>2, ModFact, Zenon
    <3>6. 1 + y = e[2]
      BY <2>2, <3>1
    <3>7. ht_random_pair(x, y) = <<b, 1 + y>>
      BY <3>3, <3>4, <3>5, Zenon DEF ht_random_pair, EntryOf
    <3> QED
      BY <3>1, <3>4, <3>5, <3>6, <3>7
  <2> QED
    BY <2>7, <2>8
<1>2. IterationInv => RandomPairDraws
  BY <1>1 DEF RandomPairDraws
<1> QED
  BY <1>2, IterationInvariant, PTL

=============================================================================
