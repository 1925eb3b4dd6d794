------------------------------- MODULE LmcFacts -------------------------------
(***************************************************************************)
(* Facts about numbers, lists and finite sets that the proofs about several*)
(* components use.  The first one is what stands for induction: a property *)
(* that does not hold of every number fails at a least one.                *)
(***************************************************************************)
EXTENDS Integers, Sequences, FiniteSets, FiniteSetsExt, SequencesExt,
        SequenceTheorems, FiniteSetTheorems, WellFoundedInduction, TLAPS

\* The least of some numbers is one of them: where a walk over a free list or a
\* chain stops, and which entry of a table is first.
LEMMA MinFact ==
    ASSUME NEW S \in SUBSET Nat, S # {}
    PROVE  Min(S) \in S /\ \A y \in S : Min(S) <= y
<1>1. IsWellFoundedOn(OpToRel(<, Nat), Nat)
  BY NatLessThanWellFounded
<1>2. PICK x \in S : \A y \in S : ~ (<<y, x>> \in OpToRel(<, Nat))
  BY <1>1, WFMin
<1>3. \A y \in S : x <= y
  <2> TAKE y \in S
  <2>1. ~ (y < x)
    BY <1>2 DEF OpToRel
  <2> QED
    BY <2>1
<1> QED
  BY <1>3 DEF Min

\* Unlinking element i of a list leaves those before it in place and moves those
\* after it up by one.
LEMMA RemoveAtFact ==
    ASSUME NEW S, NEW s \in Seq(S), NEW i \in 1 .. Len(s)
    PROVE  /\ RemoveAt(s, i) \in Seq(S)
           /\ Len(RemoveAt(s, i)) = Len(s) - 1
           /\ \A j \in 1 .. Len(s) - 1 :
                  RemoveAt(s, i)[j] = IF j < i THEN s[j] ELSE s[j + 1]
<1> DEFINE a == SubSeq(s, 1, i - 1)
           b == SubSeq(s, i + 1, Len(s))
<1>1. a \in Seq(S) /\ b \in Seq(S)
  OBVIOUS
<1>2. Len(a) = i - 1 /\ Len(b) = Len(s) - i
  OBVIOUS
<1>3. \A j \in 1 .. i - 1 : a[j] = s[j]
  OBVIOUS
<1>4. \A j \in 1 .. Len(s) - i : b[j] = s[i + j]
  OBVIOUS
<1>5. /\ a \o b \in Seq(S)
      /\ Len(a \o b) = Len(a) + Len(b)
      /\ \A j \in 1 .. Len(a) + Len(b) :
             (a \o b)[j] = IF j <= Len(a) THEN a[j] ELSE b[j - Len(a)]
  BY <1>1, ConcatProperties, Zenon
<1>6. RemoveAt(s, i) = a \o b
  BY Zenon DEF RemoveAt
<1> HIDE DEF a, b
<1> DEFINE c == a \o b
<1>7. /\ c \in Seq(S) /\ Len(c) = Len(a) + Len(b)
      /\ \A j \in 1 .. Len(a) + Len(b) :
             c[j] = IF j <= Len(a) THEN a[j] ELSE b[j - Len(a)]
  BY <1>5, Zenon
<1> HIDE DEF c
<1>8. Len(c) = Len(s) - 1
  BY <1>2, <1>7
<1>9. ASSUME NEW j \in 1 .. Len(s) - 1
      PROVE  c[j] = IF j < i THEN s[j] ELSE s[j + 1]
  <2>1. c[j] = IF j <= i - 1 THEN a[j] ELSE b[j - (i - 1)]
    BY <1>2, <1>7
  <2>2. CASE j < i
    BY <1>3, <2>1, <2>2
  <2>3. CASE i <= j
    <3>1. j - (i - 1) \in 1 .. Len(s) - i
      BY <2>3
    <3>2. b[j - (i - 1)] = s[i + (j - (i - 1))] /\ i + (j - (i - 1)) = j + 1
      BY <1>4, <3>1
    <3> QED
      BY <2>1, <2>3, <3>2
  <2> QED
    BY <2>2, <2>3
<1> QED
  BY <1>6, <1>7, <1>8, <1>9, Zenon DEF c

\* A set of at most one element, counted.
LEMMA AtMostOne ==
    ASSUME NEW S, IsFiniteSet(S)
    PROVE  Cardinality(S) <= 1 <=> \A x, y \in S : x = y
<1>1. ASSUME NEW x \in S, NEW y \in S, x # y PROVE Cardinality(S) > 1
  <2>1. IsFiniteSet({x}) /\ Cardinality({x}) = 1
    BY FS_Singleton
  <2>2. Cardinality({x} \union {y}) = 2
    BY <1>1, <2>1, FS_AddElement
  <2>3. {x} \union {y} \in SUBSET S
    OBVIOUS
  <2>4. Cardinality({x} \union {y}) <= Cardinality(S) /\ Cardinality(S) \in Nat
    BY <2>3, FS_Subset, FS_CardinalityType
  <2> QED
    BY <2>2, <2>4
<1>2. ASSUME \A x, y \in S : x = y PROVE Cardinality(S) <= 1
  <2>1. CASE S = {}
    BY <2>1, FS_EmptySet
  <2>2. CASE S # {}
    <3>1. PICK x \in S : TRUE
      BY <2>2
    <3>2. S = {x}
      BY <1>2, <3>1
    <3> QED
      BY <3>2, FS_Singleton
  <2> QED
    BY <2>1, <2>2
<1>3. Cardinality(S) \in Nat
  BY FS_CardinalityType
<1> QED
  BY <1>1, <1>2, <1>3

\* Putting an element first moves the others down by one.
LEMMA PutFirstFact ==
    ASSUME NEW S, NEW s \in Seq(S), NEW x \in S
    PROVE  /\ <<x>> \o s \in Seq(S)
           /\ Len(<<x>> \o s) = Len(s) + 1
           /\ (<<x>> \o s)[1] = x
           /\ \A j \in 1 .. Len(s) : (<<x>> \o s)[j + 1] = s[j]
<1> DEFINE a == <<x>>
           c == a \o s
<1>1. a \in Seq(S) /\ Len(a) = 1 /\ a[1] = x
  OBVIOUS
<1> HIDE DEF a
<1>2. /\ c \in Seq(S)
      /\ Len(c) = Len(a) + Len(s)
      /\ \A j \in 1 .. Len(a) + Len(s) : c[j] = IF j <= Len(a) THEN a[j] ELSE s[j - Len(a)]
  BY <1>1, ConcatProperties, Zenon
<1> HIDE DEF c
<1>3. /\ Len(c) = Len(s) + 1
      /\ c[1] = x
      /\ \A j \in 1 .. Len(s) : c[j + 1] = s[j]
  BY <1>1, <1>2
<1> QED
  BY <1>2, <1>3, Zenon DEF a, c

\* A strict order on a finite set has a least element: which entry a slice of
\* the table takes next, and, the other way round, at which one it ends.
LEMMA FirstFact ==
    ASSUME NEW S, IsFiniteSet(S), S # {}, NEW R,
           \A x \in S : <<x, x>> \notin R,
           \A x, y, z \in S : <<x, y>> \in R /\ <<y, z>> \in R => <<x, z>> \in R
    PROVE  \E x \in S : \A y \in S : <<y, x>> \notin R
<1> DEFINE under == [x \in S |-> {y \in S : <<y, x>> \in R}]
           rank == [x \in S |-> Cardinality(under[x])]
           ranks == {rank[x] : x \in S}
<1>1. \A x \in S : IsFiniteSet(under[x]) /\ rank[x] \in Nat
  <2> TAKE x \in S
  <2>1. under[x] \in SUBSET S
    OBVIOUS
  <2>2. IsFiniteSet(under[x])
    BY <2>1, FS_Subset
  <2> QED
    BY <2>2, FS_CardinalityType
<1>2. ASSUME NEW x \in S, NEW y \in S, <<y, x>> \in R PROVE rank[y] < rank[x]
  <2>1. under[y] \in SUBSET under[x]
    BY <1>2
  <2>2. y \in under[x] /\ y \notin under[y]
    BY <1>2
  <2>3. under[y] # under[x]
    BY <2>2
  <2>4. Cardinality(under[y]) <= Cardinality(under[x]) /\ Cardinality(under[y]) # Cardinality(under[x])
    BY <1>1, <2>1, <2>3, FS_Subset
  <2>5. rank[y] <= rank[x] /\ rank[y] # rank[x]
    BY <2>4
  <2> QED
    BY <1>1, <2>5
<1> HIDE DEF rank, under
<1>3. ranks \in SUBSET Nat /\ ranks # {}
  BY <1>1
<1> HIDE DEF ranks
<1>4. Min(ranks) \in ranks /\ \A r \in ranks : Min(ranks) <= r
  BY <1>3, MinFact
<1>5. PICK x \in S : Min(ranks) = rank[x]
  BY <1>4 DEF ranks
<1>6. \A y \in S : rank[x] <= rank[y]
  BY <1>4, <1>5 DEF ranks
<1> QED
  BY <1>1, <1>2, <1>6

\* Some numbers can be counted off: one of them, and only one, has n below it.
LEMMA NthFact ==
    ASSUME NEW S \in SUBSET Nat, IsFiniteSet(S), NEW n \in Nat, n < Cardinality(S)
    PROVE  /\ \E b \in S : Cardinality({c \in S : c < b}) = n
           /\ \A a, b \in S : Cardinality({c \in S : c < a}) = n
                             /\ Cardinality({c \in S : c < b}) = n => a = b
<1> DEFINE below == [b \in S |-> {c \in S : c < b}]
           rank == [b \in S |-> Cardinality(below[b])]
<1>1. \A b \in S : IsFiniteSet(below[b]) /\ rank[b] \in Nat
  <2> TAKE b \in S
  <2>1. below[b] \in SUBSET S
    OBVIOUS
  <2>2. IsFiniteSet(below[b])
    BY <2>1, FS_Subset
  <2> QED
    BY <2>2, FS_CardinalityType
<1>0. \A c \in S : c \in Nat
  OBVIOUS
<1>2. ASSUME NEW a \in S, NEW b \in S, a < b PROVE rank[a] < rank[b]
  <2>1. \A c \in S : c < a => c < b
    BY <1>0, <1>2
  <2>5. below[a] \in SUBSET below[b]
    BY <2>1
  <2>2. a \in below[b] /\ a \notin below[a]
    BY <1>2
  <2>3. below[a] # below[b]
    BY <2>2
  <2>4. Cardinality(below[a]) <= Cardinality(below[b]) /\ Cardinality(below[a]) # Cardinality(below[b])
    BY <1>1, <2>3, <2>5, FS_Subset
  <2>6. rank[a] <= rank[b] /\ rank[a] # rank[b]
    BY <2>4
  <2> QED
    BY <1>1, <2>6
<1>3. \A b \in S : below[b] \in SUBSET S /\ \A a \in below[b] : a < b
  OBVIOUS
<1>4. \A b \in S : Cardinality({c \in S : c < b}) = rank[b] /\ Cardinality(below[b]) = rank[b]
  OBVIOUS
<1> HIDE DEF rank, below
<1>5. \A a, b \in S : rank[a] = rank[b] => a = b
  BY <1>1, <1>2
<1>6. ASSUME NEW T \in SUBSET S, \A b \in T : rank[b] < n PROVE Cardinality(T) <= n
  <2> DEFINE f == [b \in T |-> 1 + rank[b]]
  <2>1. IsFiniteSet(T) /\ Cardinality(T) \in Nat
    BY <1>6, FS_Subset, FS_CardinalityType
  <2>2. IsFiniteSet(1 .. n) /\ Cardinality(1 .. n) = n
    BY FS_Interval
  <2>3. f \in [T -> 1 .. n]
    BY <1>1, <1>6
  <2>4. \A x, y \in T : x # y => f[x] # f[y]
    BY <1>1, <1>5
  <2> HIDE DEF f
  <2>5. ~ (n < Cardinality(T))
    BY <2>1, <2>2, <2>3, <2>4, FS_PigeonHole
  <2> QED
    BY <2>1, <2>5
<1> DEFINE T == {b \in S : rank[b] >= n}
<1>7. T # {}
  <2>1. CASE T = {}
    <3>1. \A b \in S : rank[b] < n
      BY <1>1, <2>1
    <3>2. Cardinality(S) <= n
      BY <1>6, <3>1
    <3> QED
      BY <3>2, FS_CardinalityType
  <2> QED
    BY <2>1
<1>8. PICK m \in T : \A b \in T : m <= b
  BY <1>7, MinFact
<1>9. \A b \in below[m] : rank[b] < n
  <2> SUFFICES ASSUME NEW b \in below[m] PROVE rank[b] < n
    OBVIOUS
  <2>1. b \in S /\ m \in S /\ b < m
    BY <1>3, <1>8
  <2>2. b \in Nat /\ m \in Nat
    BY <1>0, <2>1
  <2>3. ~ (m <= b)
    BY <2>1, <2>2
  <2>4. ~ (rank[b] >= n)
    BY <1>8, <2>1, <2>3
  <2> QED
    BY <1>1, <2>1, <2>4
<1>10. rank[m] <= n
  BY <1>3, <1>4, <1>6, <1>8, <1>9
<1>11. rank[m] = n
  BY <1>1, <1>8, <1>10
<1> QED
  BY <1>4, <1>5, <1>8, <1>11

\* What holds of a number when it holds of all above it, up to a last one, holds
\* of them all: an argument about a loop, from its end.
LEMMA DownFact ==
    ASSUME NEW m \in Nat, NEW S, \A i \in 0 .. m : (\A k \in i + 1 .. m : k \in S) => i \in S
    PROVE  0 .. m \subseteq S
<1> DEFINE left == {d \in 0 .. m : m - d \notin S}
<1>1. SUFFICES ASSUME left # {} PROVE FALSE
  <2>1. ASSUME left = {}, NEW i \in 0 .. m PROVE i \in S
    <3>1. m - i \in 0 .. m /\ m - (m - i) = i
      OBVIOUS
    <3> QED
      BY <2>1, <3>1
  <2> QED
    BY <2>1
<1>2. left \in SUBSET Nat
  OBVIOUS
<1>3. PICK d \in left : \A e \in left : d <= e
  BY <1>1, <1>2, MinFact
<1>4. ASSUME NEW k \in (m - d) + 1 .. m PROVE k \in S
  <2>1. m - k \in 0 .. m /\ m - k < d /\ m - (m - k) = k
    BY <1>3
  <2>2. m - k \notin left
    BY <1>3, <2>1
  <2> QED
    BY <2>1, <2>2
<1> QED
  BY <1>3, <1>4

\* A loop defined by what is left of it: what it makes of i, below the bound lim,
\* is made of what it makes of next[i], further on.
IsLoop(m, lim, V, stop, next, step) ==
    /\ m \in Nat /\ lim \in 0 .. m /\ stop \in V
    /\ \A i \in 0 .. m : i < lim => next[i] \in i + 1 .. m
    /\ \A i \in 0 .. m : \A v \in V : i < lim => step[<<i, v>>] \in V

Follows(f, m, lim, stop, next, step) ==
    \A i \in 0 .. m : f[i] = IF i >= lim THEN stop ELSE step[<<i, f[next[i]]>>]

\* There is such a function.
LEMMA WalkFact ==
    ASSUME NEW m, NEW lim, NEW V, NEW stop, NEW next, NEW step,
           IsLoop(m, lim, V, stop, next, step)
    PROVE  \E f \in [0 .. m -> V] : Follows(f, m, lim, stop, next, step)
<1>0. /\ m \in Nat /\ lim \in 0 .. m /\ stop \in V
      /\ \A i \in 0 .. m : i < lim => next[i] \in i + 1 .. m
      /\ \A i \in 0 .. m : \A v \in V : i < lim => step[<<i, v>>] \in V
  BY DEF IsLoop
<1> DEFINE Walks(f, k) ==
               \A i \in k .. m : f[i] = IF i >= lim THEN stop ELSE step[<<i, f[next[i]]>>]
           S == {k \in 0 .. m : \E f \in [k .. m -> V] : Walks(f, k)}
<1>1. ASSUME NEW k \in 0 .. m, \A i \in k + 1 .. m : i \in S PROVE k \in S
  <2>1. CASE k >= lim
    <3> DEFINE f == [i \in k .. m |-> stop]
    <3>1. f \in [k .. m -> V] /\ Walks(f, k)
      BY <1>0, <2>1
    <3> QED
      BY <3>1
  <2>2. CASE k < lim
    <3>1. k + 1 \in S
      BY <1>0, <1>1, <2>2
    <3>2. PICK f \in [k + 1 .. m -> V] : Walks(f, k + 1)
      BY <3>1
    <3> DEFINE g == [i \in k .. m |-> IF i = k THEN step[<<k, f[next[k]]>>] ELSE f[i]]
    <3>3. next[k] \in k + 1 .. m
      BY <1>0, <2>2
    <3>4. step[<<k, f[next[k]]>>] \in V
      BY <1>0, <2>2, <3>2, <3>3
    <3>5. g \in [k .. m -> V]
      BY <3>2, <3>4
    <3>6. g[k] = step[<<k, f[next[k]]>>] /\ \A i \in k + 1 .. m : g[i] = f[i]
      OBVIOUS
    <3> HIDE DEF g
    <3>7. ASSUME NEW i \in k .. m PROVE g[i] = IF i >= lim THEN stop ELSE step[<<i, g[next[i]]>>]
      <4>1. CASE i = k
        <5>1. g[next[k]] = f[next[k]]
          BY <1>0, <3>3, <3>6
        <5>2. ~ (i >= lim)
          BY <1>0, <2>2, <4>1
        <5> QED
          BY <3>6, <4>1, <5>1, <5>2
      <4>2. CASE i \in k + 1 .. m
        <5>1. f[i] = IF i >= lim THEN stop ELSE step[<<i, f[next[i]]>>]
          BY <3>2, <4>2
        <5>2. i < lim => g[next[i]] = f[next[i]]
          <6>1. i < lim => next[i] \in k + 1 .. m
            BY <1>0, <4>2
          <6> QED
            BY <3>6, <6>1
        <5>3. g[i] = f[i]
          BY <3>6, <4>2
        <5>4. CASE i >= lim
          BY <5>1, <5>3, <5>4
        <5>5. CASE i < lim
          <6>1. ~ (i >= lim)
            BY <1>0, <5>5
          <6> QED
            BY <5>1, <5>2, <5>3, <5>5, <6>1, Zenon
        <5> QED
          BY <1>0, <5>4, <5>5
      <4> QED
        BY <4>1, <4>2
    <3>8. Walks(g, k)
      BY <3>7
    <3> QED
      BY <3>5, <3>8
  <2> QED
    BY <1>0, <2>1, <2>2
<1>2. 0 \in S
  <2> HIDE DEF S
  <2>1. 0 .. m \subseteq S
    BY <1>0, <1>1, DownFact
  <2> QED
    BY <1>0, <2>1
<1> QED
  BY <1>0, <1>2 DEF Follows

\* What holds of a number when it holds of all below it, from 0 on.
LEMMA UpFact ==
    ASSUME NEW m \in Nat, NEW S, \A i \in 0 .. m : (\A k \in 0 .. i - 1 : k \in S) => i \in S
    PROVE  0 .. m \subseteq S
<1> DEFINE left == {i \in 0 .. m : i \notin S}
<1>1. SUFFICES ASSUME left # {} PROVE FALSE
  OBVIOUS
<1>2. left \in SUBSET Nat
  OBVIOUS
<1>3. PICK i \in left : \A k \in left : i <= k
  BY <1>1, <1>2, MinFact
<1>4. \A k \in 0 .. i - 1 : k \in S
  BY <1>3
<1> QED
  BY <1>3, <1>4

\* A loop from 0 up: there is a function that makes its n-th value of the one
\* before.
Counts(f, m, start, step) == f[0] = start /\ \A n \in 1 .. m : f[n] = step[<<n, f[n - 1]>>]

\* There is such a function.
LEMMA CountFact ==
    ASSUME NEW m \in Nat, NEW V, NEW start \in V, NEW step,
           \A n \in 1 .. m : \A v \in V : step[<<n, v>>] \in V
    PROVE  \E f \in [0 .. m -> V] : Counts(f, m, start, step)
<1> DEFINE next == [i \in 0 .. m |-> i + 1]
           back == [x \in (0 .. m) \X V |-> step[<<m - x[1], x[2]>>]]
<1>1. /\ \A i \in 0 .. m : next[i] = i + 1
      /\ \A i \in 0 .. m : \A v \in V : back[<<i, v>>] = step[<<m - i, v>>]
  OBVIOUS
<1> HIDE DEF next, back
<1>2. PICK g \in [0 .. m -> V] : Follows(g, m, m, start, next, back)
  <2>1. ASSUME NEW i \in 0 .. m, i < m
        PROVE  next[i] \in i + 1 .. m /\ \A v \in V : back[<<i, v>>] \in V
    <3>1. m - i \in 1 .. m
      BY <2>1
    <3>2. \A v \in V : back[<<i, v>>] \in V
      BY <1>1, <3>1, Zenon
    <3> QED
      BY <1>1, <2>1, <3>2
  <2>2. IsLoop(m, m, V, start, next, back)
    BY <2>1 DEF IsLoop
  <2> QED
    BY <2>2, WalkFact
<1>3. \A i \in 0 .. m : g[i] = IF i >= m THEN start ELSE back[<<i, g[next[i]]>>]
  BY <1>2 DEF Follows
<1> DEFINE f == [n \in 0 .. m |-> g[m - n]]
<1>4. f \in [0 .. m -> V]
  <2>1. \A n \in 0 .. m : g[m - n] \in V
    <3> TAKE n \in 0 .. m
    <3>1. m - n \in 0 .. m
      OBVIOUS
    <3> QED
      BY <1>2, <3>1
  <2> QED
    BY <2>1
<1>5. f[0] = start
  <2>1. m \in 0 .. m /\ m >= m /\ 0 \in 0 .. m /\ m - 0 = m
    OBVIOUS
  <2>2. g[m] = start
    BY <1>3, <2>1, Zenon
  <2>3. f[0] = g[m - 0]
    BY <2>1
  <2> HIDE DEF f
  <2> QED
    BY <2>1, <2>2, <2>3
<1>6. ASSUME NEW n \in 1 .. m PROVE f[n] = step[<<n, f[n - 1]>>]
  <2>1. /\ n \in 0 .. m /\ n - 1 \in 0 .. m /\ m - n \in 0 .. m /\ ~ (m - n >= m)
        /\ (m - n) + 1 = m - (n - 1) /\ m - (m - n) = n /\ m - (n - 1) \in 0 .. m
    OBVIOUS
  <2>2. g[m - n] = back[<<m - n, g[m - (n - 1)]>>]
    <3>1. \A i \in 0 .. m : ~ (i >= m) => g[i] = back[<<i, g[i + 1]>>]
      <4> TAKE i \in 0 .. m
      <4> HAVE ~ (i >= m)
      <4>1. g[i] = back[<<i, g[next[i]]>>] /\ next[i] = i + 1
        BY <1>1, <1>3, Zenon
      <4> QED
        BY <4>1, Zenon
    <3>2. g[m - n] = back[<<m - n, g[(m - n) + 1]>>]
      BY <2>1, <3>1, Zenon
    <3> QED
      BY <2>1, <3>2, Zenon
  <2>3. g[m - (n - 1)] \in V
    BY <1>2, <2>1
  <2>4. g[m - n] = step[<<m - (m - n), g[m - (n - 1)]>>]
    BY <1>1, <2>1, <2>2, <2>3, Zenon
  <2>5. f[n] = g[m - n] /\ f[n - 1] = g[m - (n - 1)]
    BY <2>1
  <2> HIDE DEF f
  <2> QED
    BY <2>1, <2>4, <2>5, Zenon
<1> HIDE DEF f
<1> QED
  BY <1>4, <1>5, <1>6 DEF Counts

\* All pairs of elements of a list are in the relation R.
Pairwise(s, R) == \A i, j \in DOMAIN s : i # j => <<s[i], s[j]>> \in R

\* Two lists in a row keep a relation that holds inside and between them.
LEMMA PairwiseFact ==
    ASSUME NEW S, NEW s \in Seq(S), NEW t \in Seq(S), NEW R, Pairwise(s, R), Pairwise(t, R),
           \A i \in DOMAIN s : \A j \in DOMAIN t : <<s[i], t[j]>> \in R /\ <<t[j], s[i]>> \in R
    PROVE  /\ s \o t \in Seq(S)
           /\ Pairwise(s \o t, R)
           /\ \A i \in DOMAIN (s \o t) : \/ \E j \in DOMAIN s : (s \o t)[i] = s[j]
                                         \/ \E j \in DOMAIN t : (s \o t)[i] = t[j]
<1> DEFINE a == Len(s)
           b == Len(t)
           u == s \o t
<1>1. a \in Nat /\ b \in Nat /\ DOMAIN s = 1 .. a /\ DOMAIN t = 1 .. b
  BY LenProperties
<1>2. u \in Seq(S) /\ Len(u) = a + b
      /\ \A i \in 1 .. a + b : u[i] = IF i <= a THEN s[i] ELSE t[i - a]
  BY ConcatProperties, Zenon
<1> HIDE DEF u, a, b
<1>3. DOMAIN u = 1 .. a + b
  BY <1>2
<1>4. \A i \in 1 .. a + b : \/ i \in 1 .. a /\ u[i] = s[i]
                            \/ i - a \in 1 .. b /\ ~ (i <= a) /\ u[i] = t[i - a]
  BY <1>1, <1>2
<1>5. Pairwise(u, R)
  <2> SUFFICES ASSUME NEW i \in 1 .. a + b, NEW j \in 1 .. a + b, i # j PROVE <<u[i], u[j]>> \in R
    BY <1>3 DEF Pairwise
  <2>1. CASE i \in 1 .. a /\ u[i] = s[i] /\ j \in 1 .. a /\ u[j] = s[j]
    BY <1>1, <2>1 DEF Pairwise
  <2>2. CASE i \in 1 .. a /\ u[i] = s[i] /\ j - a \in 1 .. b /\ u[j] = t[j - a]
    BY <1>1, <2>2
  <2>3. CASE i - a \in 1 .. b /\ u[i] = t[i - a] /\ j \in 1 .. a /\ u[j] = s[j]
    BY <1>1, <2>3
  <2>4. CASE i - a \in 1 .. b /\ u[i] = t[i - a] /\ j - a \in 1 .. b /\ u[j] = t[j - a]
    <3>1. i - a # j - a
      BY <1>1
    <3> QED
      BY <1>1, <2>4, <3>1 DEF Pairwise
  <2> QED
    BY <1>4, <2>1, <2>2, <2>3, <2>4
<1>6. \A i \in DOMAIN u : (\E j \in DOMAIN s : u[i] = s[j]) \/ (\E j \in DOMAIN t : u[i] = t[j])
  BY <1>1, <1>3, <1>4
<1> QED
  BY <1>2, <1>5, <1>6 DEF u

\* Every element of two lists is one of the list that starts with the first and
\* ends with the second.
Holds(u, s) == \A i \in DOMAIN s : \E j \in DOMAIN u : u[j] = s[i]

\* Two lists in a row hold the elements of both.
LEMMA ConcatFact ==
    ASSUME NEW S, NEW s \in Seq(S), NEW t \in Seq(S), NEW v, v = s \o t
    PROVE  Holds(v, s) /\ Holds(v, t)
<1> DEFINE a == Len(s)
           b == Len(t)
           u == s \o t
<1>1. a \in Nat /\ b \in Nat /\ DOMAIN s = 1 .. a /\ DOMAIN t = 1 .. b
  BY LenProperties
<1>2. u \in Seq(S) /\ Len(u) = a + b
      /\ \A i \in 1 .. a + b : u[i] = IF i <= a THEN s[i] ELSE t[i - a]
  BY ConcatProperties, Zenon
<1> HIDE DEF u, a, b
<1>3. DOMAIN u = 1 .. a + b
  BY <1>2
<1>4. \A i \in 1 .. a : i \in 1 .. a + b /\ u[i] = s[i]
  BY <1>1, <1>2
<1>5. ASSUME NEW i \in 1 .. b PROVE i + a \in 1 .. a + b /\ u[i + a] = t[i]
  <2>1. i + a \in 1 .. a + b /\ ~ (i + a <= a) /\ (i + a) - a = i
    BY <1>1
  <2>2. u[i + a] = t[(i + a) - a]
    BY <1>2, <2>1, Zenon
  <2> QED
    BY <2>1, <2>2
<1> QED
  BY <1>1, <1>3, <1>4, <1>5 DEF u, Holds

-----------------------------------------------------------------------------
\* Quotient and remainder.
LEMMA DivModFact ==
    ASSUME NEW a \in Nat, NEW m \in Nat \ {0}
    PROVE  /\ a \div m \in Nat
           /\ a % m \in 0 .. m - 1
           /\ a = (a \div m) * m + (a % m)
OBVIOUS

\* A multiple of m that is not above a, by less than m, is the one that the
\* quotient gives.
LEMMA DivFact ==
    ASSUME NEW a \in Nat, NEW m \in Nat \ {0}, NEW q \in Nat, q * m <= a, a < q * m + m
    PROVE  a \div m = q
<1> DEFINE d == a \div m
<1>1. d \in Nat /\ d * m <= a /\ a < d * m + m
  BY DivModFact
<1> HIDE DEF d
<1>2. ASSUME NEW x \in Nat, NEW y \in Nat, x + 1 <= y PROVE x * m + m <= y * m
  <2>1. (x + 1) * m <= y * m
    BY <1>2
  <2>2. (x + 1) * m = x * m + m
    OBVIOUS
  <2> QED
    BY <2>1, <2>2
<1>3. ~ (d + 1 <= q)
  BY <1>1, <1>2
<1>4. ~ (q + 1 <= d)
  BY <1>1, <1>2
<1> QED
  BY <1>1, <1>3, <1>4 DEF d

=============================================================================
