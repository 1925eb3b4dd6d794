--------------------------- MODULE LmcChunks_proofs ---------------------------
(***************************************************************************)
(* A free list and a set of blocks that tile the pool still do after       *)
(* lmc_valloc carved a block out of the list and after lmc_free put one    *)
(* back, and no two free chunks become neighbours.                         *)
(***************************************************************************)
EXTENDS LmcCheck, LmcFacts

-----------------------------------------------------------------------------
(***************************************************************************)
(* A pool: a free list and a set of blocks that tile it.                   *)
(***************************************************************************)
Pool(f, U) ==
    /\ f \in Seq(Chunk)
    /\ U \subseteq Chunk
    /\ AllLinkable(f, U)
    /\ AllApart(f, U)
    /\ Covered(f, U)

\* A chunk descriptor takes up room.
LEMMA DescFact == Desc \in Nat /\ Desc > 0 /\ MdSize \in Nat /\ Total \in Nat
BY LayoutAssumption DEF LayoutAssumption, Desc

\* The fields of a chunk are naturals.
LEMMA ChunkFact ==
    ASSUME NEW c \in Chunk
    PROVE  /\ c.va \in Nat /\ c.size \in Nat
           /\ End(c) \in Nat /\ End(c) = c.va + c.size /\ c.va <= End(c)
           /\ c = [va |-> c.va, size |-> c.size]
BY DEF Chunk, End

\* A chunk that can hold its descriptor is not empty.
LEMMA LinkableFact ==
    ASSUME NEW c \in Chunk, Linkable(c)
    PROVE  c.size > 0
BY DescFact, ChunkFact DEF Linkable

\* A new chunk from naturals.
LEMMA NewChunkFact ==
    ASSUME NEW x \in Nat, NEW y \in Nat
    PROVE  /\ [va |-> x, size |-> y] \in Chunk
           /\ End([va |-> x, size |-> y]) = x + y
BY DEF Chunk, End

\* The chunks of a free list.
LEMMA ListFact ==
    ASSUME NEW f \in Seq(Chunk)
    PROVE  /\ Len(f) \in Nat
           /\ DOMAIN f = 1 .. Len(f)
           /\ \A i \in DOMAIN f : /\ f[i] \in Chunk
                                  /\ f[i].va \in Nat /\ f[i].size \in Nat
                                  /\ End(f[i]) \in Nat
                                  /\ End(f[i]) = f[i].va + f[i].size
<1>1. Len(f) \in Nat /\ DOMAIN f = 1 .. Len(f) /\ \A i \in DOMAIN f : f[i] \in Chunk
  OBVIOUS
<1> QED
  BY <1>1, ChunkFact

\* Merging two neighbours, one unlink and one grown chunk, keeps the pool
\* tiled; if they were the only neighbours, none are left.
LEMMA FuseFact ==
    ASSUME NEW f, NEW U, Pool(f, U),
           NEW a \in DOMAIN f, NEW b \in DOMAIN f, a # b,
           End(f[a]) = f[b].va
    PROVE  /\ Pool(Fuse(f, a, b), U)
           /\ (\A i, j \in DOMAIN f : End(f[i]) = f[j].va => i = a /\ j = b)
                 => Separate(Fuse(f, a, b))
<1> DEFINE c == [va |-> f[a].va, size |-> f[a].size + f[b].size]
           g == [f EXCEPT ![a] = c]
           h == Fuse(f, a, b)
           n == Len(f)
           m == [i \in 1 .. n - 1 |-> IF i < b THEN i ELSE i + 1]
<1>0. f \in Seq(Chunk)
  BY DEF Pool
<1>1. /\ n \in Nat /\ DOMAIN f = 1 .. n
      /\ \A i \in 1 .. n : /\ f[i] \in Chunk
                           /\ f[i].va \in Nat /\ f[i].size \in Nat
                           /\ End(f[i]) \in Nat
                           /\ End(f[i]) = f[i].va + f[i].size
  BY <1>0, ListFact
<1>2. /\ c \in Chunk /\ c.va = f[a].va
      /\ c.size = f[a].size + f[b].size /\ End(c) = End(f[b])
  <2>1. f[a].size + f[b].size \in Nat
    BY <1>1
  <2>2. c \in Chunk /\ End(c) = f[a].va + (f[a].size + f[b].size)
    BY <1>1, <2>1, NewChunkFact
  <2>3. c.va = f[a].va /\ c.size = f[a].size + f[b].size
    OBVIOUS
  <2>4. End(f[b]) = f[a].va + (f[a].size + f[b].size)
    <3> HIDE DEF c, g, h, m
    <3>1. a \in 1 .. n /\ b \in 1 .. n
      BY <1>1, Zenon
    <3>2. /\ f[a].va \in Nat /\ f[a].size \in Nat /\ f[b].size \in Nat
          /\ End(f[b]) = f[b].va + f[b].size /\ f[b].va = f[a].va + f[a].size
      BY <1>1, <3>1, Zenon
    <3> QED
      BY <3>2
  <2> QED
    BY <2>2, <2>3, <2>4
<1>3. [f EXCEPT ![a].size = @ + f[b].size] = g
  <2>1. f[a] = [va |-> f[a].va, size |-> f[a].size]
    BY <1>1, ChunkFact
  <2>2. [f[a] EXCEPT !.size = @ + f[b].size] = c
    BY <2>1
  <2> QED
    BY <2>2
<1>4. /\ g \in Seq(Chunk) /\ Len(g) = n
      /\ \A i \in 1 .. n : g[i] = IF i = a THEN c ELSE f[i]
  BY <1>0, <1>1, <1>2, ExceptSeq
<1>5. /\ a \in 1 .. n /\ b \in 1 .. n
      /\ \A i \in 1 .. n - 1 : m[i] \in 1 .. n /\ m[i] # b
      /\ \A i, j \in 1 .. n - 1 : m[i] = m[j] => i = j
      /\ \A i \in 1 .. n - 1 : m[i] = IF i < b THEN i ELSE i + 1
  <2> HIDE DEF n
  <2> QED
    BY <1>1
<1>6. \A x \in 1 .. n : x # b => \E i \in 1 .. n - 1 : m[i] = x
  <2> HIDE DEF n
  <2> SUFFICES ASSUME NEW x \in 1 .. n, x # b
               PROVE  \E i \in 1 .. n - 1 : m[i] = x
    OBVIOUS
  <2>1. CASE x < b
    <3>1. x \in 1 .. n - 1 /\ m[x] = x
      BY <1>1, <1>5, <2>1
    <3> QED
      BY <3>1
  <2>2. CASE x > b
    <3>1. x - 1 \in 1 .. n - 1 /\ m[x - 1] = x
      BY <1>1, <1>5, <2>2
    <3> QED
      BY <3>1
  <2> QED
    BY <1>1, <1>5, <2>1, <2>2
<1>h. h = RemoveAt(g, b)
  BY <1>3 DEF Fuse
<1> HIDE DEF g, c, m, n, h
<1>7. /\ h \in Seq(Chunk)
      /\ DOMAIN h = 1 .. n - 1
      /\ \A i \in 1 .. n - 1 : h[i] = IF m[i] = a THEN c ELSE f[m[i]]
  <2>1. h = RemoveAt(g, b)
    BY <1>h
  <2>2. /\ RemoveAt(g, b) \in Seq(Chunk)
        /\ Len(RemoveAt(g, b)) = Len(g) - 1
        /\ \A j \in 1 .. Len(g) - 1 :
               RemoveAt(g, b)[j] = IF j < b THEN g[j] ELSE g[j + 1]
    BY <1>4, <1>5, RemoveAtFact
  <2>3. DOMAIN h = 1 .. n - 1
    BY <1>4, <2>1, <2>2, ListFact
  <2>4. \A j \in 1 .. n - 1 : h[j] = g[m[j]]
    BY <1>4, <1>5, <2>1, <2>2
  <2> QED
    BY <1>4, <1>5, <2>1, <2>2, <2>3, <2>4
<1>8. AllLinkable(h, U)
  <2>1. \A i \in 1 .. n : Linkable(f[i])
    BY <1>1 DEF Pool, AllLinkable
  <2>2. Linkable(c)
    <3>1. /\ f[a].va \in Nat /\ f[a].size \in Nat /\ f[b].size \in Nat
          /\ Linkable(f[a]) /\ Linkable(f[b])
      BY <1>1, <1>5, <2>1
    <3> QED
      BY <1>2, <3>1, DescFact DEF Linkable
  <2>3. \A i \in DOMAIN h : Linkable(h[i])
    BY <1>5, <1>7, <2>1, <2>2
  <2> QED
    BY <2>3 DEF Pool, AllLinkable
<1>9. AllApart(h, U)
  <2>1. \A i, j \in 1 .. n : i # j => Apart(f[i], f[j])
    BY <1>1 DEF Pool, AllApart
  <2>2. \A x \in 1 .. n : x # a /\ x # b => Apart(f[x], c) /\ Apart(c, f[x])
    <3> SUFFICES ASSUME NEW x \in 1 .. n, x # a, x # b
                 PROVE  Apart(f[x], c) /\ Apart(c, f[x])
      OBVIOUS
    <3>1. Apart(f[x], f[a]) /\ Apart(f[x], f[b])
      BY <1>5, <2>1
    <3>2. f[x].size > 0 /\ f[a].size > 0 /\ f[b].size > 0
      <4>1. Linkable(f[x]) /\ Linkable(f[a]) /\ Linkable(f[b])
        BY <1>1 DEF Pool, AllLinkable
      <4> QED
        BY <1>1, <1>5, <4>1, LinkableFact
    <3> QED
      <4>1. /\ f[x].va \in Nat /\ End(f[x]) = f[x].va + f[x].size
            /\ f[a].va \in Nat /\ End(f[a]) = f[a].va + f[a].size
            /\ f[b].va \in Nat /\ End(f[b]) = f[b].va + f[b].size
            /\ f[x].size \in Nat /\ f[a].size \in Nat /\ f[b].size \in Nat
        BY <1>1, <1>5
      <4> QED
        BY <1>2, <3>1, <3>2, <4>1 DEF Apart
  <2>3. \A i, j \in DOMAIN h : i # j => Apart(h[i], h[j])
    <3> SUFFICES ASSUME NEW i \in 1 .. n - 1, NEW j \in 1 .. n - 1, i # j
                 PROVE  Apart(h[i], h[j])
      BY <1>7
    <3>1. m[i] \in 1 .. n /\ m[j] \in 1 .. n /\ m[i] # m[j] /\ m[i] # b /\ m[j] # b
      BY <1>5
    <3>2. h[i] = (IF m[i] = a THEN c ELSE f[m[i]]) /\ h[j] = (IF m[j] = a THEN c ELSE f[m[j]])
      BY <1>7
    <3> QED
      BY <2>1, <2>2, <3>1, <3>2
  <2>4. \A u \in U : Apart(c, u)
    <3> SUFFICES ASSUME NEW u \in U
                 PROVE  Apart(c, u)
      OBVIOUS
    <3>1. Apart(f[a], u) /\ Apart(f[b], u)
      BY DEF Pool, AllApart
    <3>2. u.va \in Nat /\ u.size \in Nat /\ End(u) = u.va + u.size
      BY ChunkFact DEF Pool
    <3>3. Linkable(u) /\ Linkable(f[a]) /\ Linkable(f[b])
      BY DEF Pool, AllLinkable
    <3> QED
      <4>1. u.size > 0 /\ f[a].size > 0 /\ f[b].size > 0
        BY <1>1, <1>5, <3>3, LinkableFact DEF Pool
      <4> QED
        BY <1>1, <1>2, <1>5, <3>1, <3>2, <4>1 DEF Apart
  <2>5. \A i \in DOMAIN h : \A u \in U : Apart(h[i], u)
    BY <1>1, <1>5, <1>7, <2>4 DEF Pool, AllApart
  <2> QED
    BY <2>3, <2>5 DEF Pool, AllApart
<1>10. Covered(h, U)
  <2> SUFFICES ASSUME NEW w \in MdSize .. Total - 1,
                      NEW x \in 1 .. n, w \in Words(f[x])
               PROVE  \E i \in DOMAIN h : w \in Words(h[i])
    BY <1>1 DEF Pool, Covered
  <2>1. CASE x = a \/ x = b
    <3>1. w \in Words(c)
      <4>1. w \in Int /\ f[x].va <= w /\ w <= End(f[x]) - 1
        BY <1>1, DescFact DEF Words
      <4>2. c.va <= w /\ w <= End(c) - 1
        <5>1. /\ f[a].va \in Nat /\ End(f[a]) = f[a].va + f[a].size
              /\ f[b].va \in Nat /\ End(f[b]) = f[b].va + f[b].size
              /\ f[a].size \in Nat /\ f[b].size \in Nat
          BY <1>1, <1>5
        <5>2. \/ f[a].va <= w /\ w <= End(f[a]) - 1
              \/ f[b].va <= w /\ w <= End(f[b]) - 1
          BY <2>1, <4>1
        <5> QED
          <6>1. c.va = f[a].va /\ End(c) = End(f[b]) /\ End(f[a]) = f[b].va
            BY <1>2
          <6>2. CASE f[a].va <= w /\ w <= End(f[a]) - 1
            <7>1. f[b].va <= End(f[b]) /\ End(f[b]) \in Nat
              BY <1>1, <1>5, ChunkFact
            <7> QED
              BY <4>1, <5>1, <6>1, <6>2, <7>1
          <6>3. CASE f[b].va <= w /\ w <= End(f[b]) - 1
            BY <4>1, <5>1, <6>1, <6>3
          <6> QED
            BY <5>2, <6>2, <6>3
      <4> QED
        BY <1>1, <1>2, <1>5, <4>1, <4>2 DEF Words
    <3>2. PICK i \in 1 .. n - 1 : m[i] = a
      BY <1>5, <1>6
    <3> QED
      BY <1>7, <3>1, <3>2
  <2>2. CASE x # a /\ x # b
    <3>1. PICK i \in 1 .. n - 1 : m[i] = x
      BY <1>6, <2>2
    <3> QED
      BY <1>7, <2>2, <3>1
  <2> QED
    BY <2>1, <2>2
<1>11. ASSUME \A i, j \in DOMAIN f : End(f[i]) = f[j].va => i = a /\ j = b
       PROVE  Separate(h)
  <2> SUFFICES ASSUME NEW i \in 1 .. n - 1, NEW j \in 1 .. n - 1, End(h[i]) = h[j].va
               PROVE  FALSE
    BY <1>7 DEF Separate
  <2>1. h[j].va = f[m[j]].va
    BY <1>2, <1>7
  <2>2. End(h[i]) = End(f[IF m[i] = a THEN b ELSE m[i]])
    BY <1>2, <1>7
  <2> QED
    BY <1>1, <1>5, <1>11, <2>1, <2>2
<1> QED
  BY <1>7, <1>8, <1>9, <1>10, <1>11 DEF Pool, h

\* Compaction after chunk k grew: if k has at most one neighbour and meets it
\* later in the list, one merge leaves the pool tiled and without neighbours.
LEMMA CompactFact ==
    ASSUME NEW f, NEW U, Pool(f, U), NEW k \in DOMAIN f,
           \A i, j \in DOMAIN f : End(f[i]) = f[j].va =>
               (i = k /\ j > k) \/ (j = k /\ i > k),
           \/ \A i, j \in DOMAIN f : End(f[i]) = f[j].va => i = k
           \/ \A i, j \in DOMAIN f : End(f[i]) = f[j].va => j = k
    PROVE  Pool(Compact(f, k), U) /\ Separate(Compact(f, k))
<1> DEFINE J == Mergeable(f, k)
           n == Len(f)
<1>1. /\ n \in Nat /\ DOMAIN f = 1 .. n
      /\ \A i \in 1 .. n : /\ f[i] \in Chunk
                           /\ f[i].va \in Nat /\ f[i].size \in Nat
                           /\ End(f[i]) \in Nat
                           /\ End(f[i]) = f[i].va + f[i].size
  BY ListFact DEF Pool
<1> HIDE DEF n
<1>2. CASE J = {}
  <2>1. Compact(f, k) = f
    BY <1>2 DEF Compact
  <2>2. ASSUME NEW i \in 1 .. n, NEW j \in 1 .. n, End(f[i]) = f[j].va
        PROVE  FALSE
    <3>1. CASE i = k /\ j > k
      <4>1. j \in J
        BY <1>1, <2>2, <3>1 DEF Mergeable
      <4> QED
        BY <1>2, <4>1
    <3>2. CASE j = k /\ i > k
      <4>1. i \in J
        BY <1>1, <2>2, <3>2 DEF Mergeable
      <4> QED
        BY <1>2, <4>1
    <3> QED
      BY <1>1, <2>2, <3>1, <3>2
  <2> QED
    BY <1>1, <2>1, <2>2 DEF Separate
<1>3. CASE J # {}
  <2>1. J \subseteq 1 .. n /\ J \in SUBSET Nat
    BY <1>1 DEF Mergeable
  <2>2. PICK j \in J : j = Min(J)
    BY <1>3, <2>1, MinFact
  <2>3. j \in 1 .. n /\ j # k /\ (End(f[j]) = f[k].va \/ End(f[k]) = f[j].va)
    BY <1>1, <2>2 DEF Mergeable
  <2>4. j > k /\ k \in 1 .. n
    BY <1>1, <2>3
  \* a neighbour starts where the other ends, so there is no third one
  <2>5. \A x, y \in 1 .. n : f[x].va = f[y].va => x = y
    <3> SUFFICES ASSUME NEW x \in 1 .. n, NEW y \in 1 .. n,
                        f[x].va = f[y].va, x # y
                 PROVE  FALSE
      OBVIOUS
    <3>1. Apart(f[x], f[y]) /\ Linkable(f[x]) /\ Linkable(f[y])
      BY <1>1 DEF Pool, AllApart, AllLinkable
    <3>2. f[x].size > 0 /\ f[y].size > 0
      BY <1>1, <3>1, LinkableFact
    <3> QED
      BY <1>1, <3>1, <3>2 DEF Apart
  <2>6. \A x, y \in 1 .. n : End(f[x]) = End(f[y]) => x = y
    <3> SUFFICES ASSUME NEW x \in 1 .. n, NEW y \in 1 .. n,
                        End(f[x]) = End(f[y]), x # y
                 PROVE  FALSE
      OBVIOUS
    <3>1. Apart(f[x], f[y]) /\ Linkable(f[x]) /\ Linkable(f[y])
      BY <1>1 DEF Pool, AllApart, AllLinkable
    <3>2. f[x].size > 0 /\ f[y].size > 0
      BY <1>1, <3>1, LinkableFact
    <3> QED
      BY <1>1, <3>1, <3>2 DEF Apart
  <2>7. CASE End(f[j]) = f[k].va
    <3>1. Compact(f, k) = Fuse(f, j, k)
      BY <1>3, <2>2, <2>7 DEF Compact
    <3>2. \A x, y \in DOMAIN f : End(f[x]) = f[y].va => x = j /\ y = k
      BY <1>1, <2>3, <2>4, <2>6, <2>7
    <3>3. j \in DOMAIN f /\ k # j
      BY <1>1, <2>3
    <3> QED
      BY <2>7, <3>1, <3>2, <3>3, FuseFact, Zenon
  <2>8. CASE End(f[j]) # f[k].va
    <3>1. Compact(f, k) = Fuse(f, k, j)
      BY <1>1, <1>3, <2>2, <2>4, <2>8 DEF Compact, MergeUp
    <3>2. End(f[k]) = f[j].va
      BY <2>3, <2>8
    <3>3. \A x, y \in DOMAIN f : End(f[x]) = f[y].va => x = k /\ y = j
      BY <1>1, <2>3, <2>4, <2>5, <3>2
    <3>4. j \in DOMAIN f /\ k # j
      BY <1>1, <2>3
    <3> QED
      BY <3>1, <3>2, <3>3, <3>4, FuseFact, Zenon
  <2> QED
    BY <2>7, <2>8
<1> QED
  BY <1>2, <1>3


\* A freed block that touches no free chunk becomes a chunk of its own.
LEMMA PrependFact ==
    ASSUME NEW f, NEW U, Pool(f, U), Separate(f), NEW u \in U,
           Touched(f, u) = {}
    PROVE  Pool(<<u>> \o f, U \ {u}) /\ Separate(<<u>> \o f)
<1> DEFINE h == <<u>> \o f
           n == Len(f)
<1>1. /\ n \in Nat /\ DOMAIN f = 1 .. n
      /\ \A i \in 1 .. n : /\ f[i] \in Chunk
                           /\ f[i].va \in Nat /\ f[i].size \in Nat
                           /\ End(f[i]) \in Nat
                           /\ End(f[i]) = f[i].va + f[i].size
  BY ListFact DEF Pool
<1>2. /\ u \in Chunk /\ u.va \in Nat /\ u.size \in Nat
      /\ End(u) \in Nat /\ End(u) = u.va + u.size
  BY ChunkFact DEF Pool
<1>3. /\ h \in Seq(Chunk) /\ Len(h) = n + 1
      /\ \A i \in 1 .. n + 1 : h[i] = IF i = 1 THEN u ELSE f[i - 1]
  BY <1>2 DEF Pool
<1> HIDE DEF n, h
<1>4. DOMAIN h = 1 .. n + 1
  BY <1>3, ListFact
<1>5. \A i \in 1 .. n + 1 : i # 1 => i - 1 \in 1 .. n
  BY <1>1
<1>6. AllLinkable(h, U \ {u})
  BY <1>1, <1>3, <1>4, <1>5 DEF Pool, AllLinkable
<1>7. \A i \in 1 .. n : Apart(f[i], u) /\ Apart(u, f[i])
  BY <1>1 DEF Pool, AllApart, Apart
<1>8. AllApart(h, U \ {u})
  <2>1. \A i, j \in 1 .. n : i # j => Apart(f[i], f[j])
    BY <1>1 DEF Pool, AllApart
  <2>2. ASSUME NEW i \in 1 .. n + 1, NEW j \in 1 .. n + 1, i # j
        PROVE  Apart(h[i], h[j])
    <3>1. i # 1 /\ j # 1 => i - 1 # j - 1
      BY <2>2
    <3> QED
      BY <1>3, <1>5, <1>7, <2>1, <2>2, <3>1
  <2>3. \A i \in 1 .. n + 1 : \A v \in U \ {u} : Apart(h[i], v)
    BY <1>1, <1>3, <1>5 DEF Pool, AllApart
  <2> QED
    BY <1>4, <2>2, <2>3 DEF Pool, AllApart
<1>9. Covered(h, U \ {u})
  <2> SUFFICES ASSUME NEW w \in MdSize .. Total - 1
               PROVE  \/ \E i \in DOMAIN h : w \in Words(h[i])
                      \/ \E v \in U \ {u} : w \in Words(v)
    BY DEF Covered
  <2>1. CASE \E i \in 1 .. n : w \in Words(f[i])
    <3>1. PICK i \in 1 .. n : w \in Words(f[i])
      BY <2>1
    <3>2. i + 1 \in 1 .. n + 1 /\ i + 1 # 1 /\ (i + 1) - 1 = i
      BY <1>1
    <3> QED
      BY <1>3, <1>4, <3>1, <3>2
  <2>2. CASE w \in Words(u)
    <3>1. 1 \in 1 .. n + 1
      BY <1>1
    <3> QED
      BY <1>3, <1>4, <2>2, <3>1
  <2> QED
    BY <1>1, <2>1, <2>2 DEF Pool, Covered
<1>10. Separate(h)
  <2>1. \A i \in 1 .. n : End(f[i]) # u.va /\ End(u) # f[i].va
    <3> SUFFICES ASSUME NEW i \in 1 .. n, End(f[i]) = u.va \/ End(u) = f[i].va
                 PROVE  FALSE
      OBVIOUS
    <3>1. i \in Touched(f, u)
      <4>1. i \in DOMAIN f /\ f[i].va <= End(f[i])
        BY <1>1
      <4> QED
        BY <1>1, <1>2, <4>1 DEF Touched
    <3> QED
      BY <3>1
  <2>2. u.va # End(u)
    BY <1>2, LinkableFact DEF Pool, AllLinkable
  <2>3. \A i, j \in 1 .. n : End(f[i]) # f[j].va
    BY <1>1 DEF Separate
  <2> QED
    BY <1>3, <1>4, <1>5, <2>1, <2>2, <2>3 DEF Separate
<1>11. U \ {u} \subseteq Chunk
  BY DEF Pool
<1> QED
  BY <1>3, <1>6, <1>8, <1>9, <1>10, <1>11 DEF Pool, h


\* A free chunk and a block never start at the same place, and neither is
\* empty.
LEMMA BlockApartFact ==
    ASSUME NEW f, NEW U, Pool(f, U), NEW u \in U, NEW k \in DOMAIN f
    PROVE  /\ f[k].va # u.va
           /\ End(f[k]) <= u.va \/ End(u) <= f[k].va
           /\ f[k].size > 0 /\ u.size > 0
<1>1. /\ f[k] \in Chunk /\ u \in Chunk
      /\ f[k].va \in Nat /\ f[k].size \in Nat /\ End(f[k]) = f[k].va + f[k].size
      /\ u.va \in Nat /\ u.size \in Nat /\ End(u) = u.va + u.size
  BY ListFact, ChunkFact DEF Pool
<1>2. Linkable(f[k]) /\ Linkable(u) /\ Apart(f[k], u)
  BY DEF Pool, AllLinkable, AllApart
<1>3. f[k].size > 0 /\ u.size > 0
  BY <1>1, <1>2, LinkableFact
<1> QED
  BY <1>1, <1>2, <1>3 DEF Apart

\* Absorbing a freed block into the first chunk it touches keeps the pool
\* tiled; the grown chunk has at most one neighbour, further down the list.
LEMMA AbsorbFact ==
    ASSUME NEW f, NEW U, Pool(f, U), Separate(f), NEW u \in U,
           NEW k \in Touched(f, u), \A x \in Touched(f, u) : k <= x,
           NEW g, g = Absorb(f, u, k)
    PROVE  /\ ~ AlreadyFree(f, u, k)
           /\ Pool(g, U \ {u})
           /\ k \in DOMAIN g
           /\ \A i, j \in DOMAIN g : End(g[i]) = g[j].va =>
                  (i = k /\ j > k) \/ (j = k /\ i > k)
           /\ \/ \A i, j \in DOMAIN g : End(g[i]) = g[j].va => i = k
              \/ \A i, j \in DOMAIN g : End(g[i]) = g[j].va => j = k
<1> DEFINE n == Len(f)
           c == IF End(f[k]) = u.va
                THEN [va |-> f[k].va, size |-> f[k].size + u.size]
                ELSE [va |-> u.va, size |-> u.size + f[k].size]
<1>1. /\ n \in Nat /\ DOMAIN f = 1 .. n /\ f \in Seq(Chunk)
      /\ \A i \in 1 .. n : /\ f[i] \in Chunk
                           /\ f[i].va \in Nat /\ f[i].size \in Nat
                           /\ End(f[i]) \in Nat
                           /\ End(f[i]) = f[i].va + f[i].size
  BY ListFact DEF Pool
<1>2. /\ u \in Chunk /\ u.va \in Nat /\ u.size \in Nat
      /\ End(u) \in Nat /\ End(u) = u.va + u.size
  BY ChunkFact DEF Pool
<1> HIDE DEF n
<1>3. k \in 1 .. n /\ k \in DOMAIN f
  BY <1>1 DEF Touched
<1>4. \A i \in 1 .. n : /\ f[i].va # u.va
                        /\ End(f[i]) <= u.va \/ End(u) <= f[i].va
                        /\ f[i].size > 0 /\ u.size > 0
  BY <1>1, BlockApartFact
<1>5. End(f[k]) = u.va \/ End(u) = f[k].va
  <2>1. End(u) = f[k].va \/ (f[k].va <= u.va /\ u.va <= End(f[k]))
    BY DEF Touched
  <2>2. /\ f[k].va \in Nat /\ End(f[k]) \in Nat
        /\ End(f[k]) <= u.va \/ End(u) <= f[k].va
        /\ f[k].va # u.va /\ u.size > 0
    BY <1>1, <1>3, <1>4
  <2> QED
    BY <1>2, <2>1, <2>2
<1>6. ~ AlreadyFree(f, u, k)
  BY <1>5 DEF AlreadyFree
<1>7. /\ c \in Chunk /\ c.va \in Nat /\ c.size = f[k].size + u.size
      /\ End(c) = c.va + c.size
      /\ \/ End(f[k]) = u.va /\ c.va = f[k].va /\ End(c) = End(u)
         \/ End(u) = f[k].va /\ c.va = u.va /\ End(c) = End(f[k])
  <2>0. /\ f[k].va \in Nat /\ f[k].size \in Nat
        /\ f[k].size + u.size \in Nat /\ u.size + f[k].size \in Nat
        /\ End(f[k]) = f[k].va + f[k].size
    BY <1>1, <1>2, <1>3
  <2>1. CASE End(f[k]) = u.va
    <3>1. c = [va |-> f[k].va, size |-> f[k].size + u.size]
      BY <2>1
    <3> HIDE DEF c
    <3>2. c \in Chunk /\ c.va = f[k].va /\ c.size = f[k].size + u.size
          /\ End(c) = f[k].va + (f[k].size + u.size)
      BY <2>0, <3>1, <1>2, NewChunkFact
    <3> QED
      BY <1>2, <2>0, <2>1, <3>2
  <2>2. CASE End(f[k]) # u.va
    <3>1. c = [va |-> u.va, size |-> u.size + f[k].size]
      BY <2>2
    <3> HIDE DEF c
    <3>2. c \in Chunk /\ c.va = u.va /\ c.size = u.size + f[k].size
          /\ End(c) = u.va + (u.size + f[k].size)
      BY <2>0, <3>1, <1>2, NewChunkFact
    <3> QED
      BY <1>2, <1>5, <2>0, <2>2, <3>2
  <2> QED
    BY <2>1, <2>2
<1>8. g = [f EXCEPT ![k] = c]
  <2>1. f[k] = [va |-> f[k].va, size |-> f[k].size]
    BY <1>1, <1>3, ChunkFact
  <2>2. [f[k] EXCEPT !.size = @ + u.size] = [va |-> f[k].va, size |-> f[k].size + u.size]
    BY <2>1
  <2> QED
    BY <2>2 DEF Absorb
<1> HIDE DEF c
<1>9. /\ g \in Seq(Chunk) /\ Len(g) = n /\ DOMAIN g = 1 .. n
      /\ \A i \in 1 .. n : g[i] = IF i = k THEN c ELSE f[i]
  <2>1. /\ g \in Seq(Chunk) /\ Len(g) = Len(f)
        /\ \A i \in 1 .. Len(f) : g[i] = IF i = k THEN c ELSE f[i]
    BY <1>1, <1>3, <1>7, <1>8, ExceptSeq DEF n
  <2> QED
    BY <2>1, ListFact DEF n
<1> HIDE DEF n
<1>10. \A i \in 1 .. n : i # k => Apart(f[i], c) /\ Apart(c, f[i])
  <2> SUFFICES ASSUME NEW i \in 1 .. n, i # k
               PROVE  Apart(f[i], c) /\ Apart(c, f[i])
    OBVIOUS
  <2>1. Apart(f[i], f[k]) /\ Apart(f[i], u)
    BY <1>1, <1>3 DEF Pool, AllApart
  <2>2. /\ f[i].va \in Nat /\ f[i].size \in Nat /\ End(f[i]) = f[i].va + f[i].size
        /\ f[k].va \in Nat /\ f[k].size \in Nat /\ End(f[k]) = f[k].va + f[k].size
        /\ f[i].size > 0 /\ f[k].size > 0 /\ u.size > 0
    BY <1>1, <1>3, <1>4
  <2> QED
    BY <1>2, <1>7, <2>1, <2>2 DEF Apart
<1>11. Pool(g, U \ {u})
  <2>1. AllLinkable(g, U \ {u})
    <3>1. \A i \in 1 .. n : Linkable(f[i])
      BY <1>1 DEF Pool, AllLinkable
    <3>2. Linkable(u) /\ Linkable(f[k])
      BY <1>3, <3>1 DEF Pool, AllLinkable
    <3>3. f[k].va \in Nat /\ f[k].size \in Nat /\ End(f[k]) \in Nat
      BY <1>1, <1>3
    <3>4. Linkable(c)
      BY <1>2, <1>7, <3>2, <3>3, DescFact DEF Linkable
    <3> QED
      BY <1>9, <3>1, <3>4 DEF Pool, AllLinkable
  <2>2. AllApart(g, U \ {u})
    <3>1. \A i, j \in 1 .. n : i # j => Apart(f[i], f[j])
      BY <1>1 DEF Pool, AllApart
    <3>2. \A i, j \in 1 .. n : i # j => Apart(g[i], g[j])
      BY <1>9, <1>10, <3>1
    <3>3. ASSUME NEW v \in U \ {u}
          PROVE  Apart(c, v)
      <4>1. Apart(f[k], v) /\ Apart(u, v)
        BY <1>3 DEF Pool, AllApart
      <4>2. v \in Chunk /\ v.va \in Nat /\ v.size \in Nat /\ End(v) = v.va + v.size
        BY ChunkFact DEF Pool
      <4>3. /\ f[k].va \in Nat /\ f[k].size \in Nat /\ End(f[k]) = f[k].va + f[k].size
            /\ f[k].size > 0 /\ u.size > 0
        BY <1>1, <1>3, <1>4
      <4>4. v.size > 0
        BY <4>2, LinkableFact DEF Pool, AllLinkable
      <4> QED
        BY <1>2, <1>7, <4>1, <4>2, <4>3, <4>4 DEF Apart
    <3>4. \A i \in 1 .. n : \A v \in U \ {u} : Apart(g[i], v)
      BY <1>1, <1>9, <3>3 DEF Pool, AllApart
    <3> QED
      BY <1>9, <3>2, <3>4 DEF Pool, AllApart
  <2>3. Covered(g, U \ {u})
    <3> SUFFICES ASSUME NEW w \in MdSize .. Total - 1
                 PROVE  \/ \E i \in DOMAIN g : w \in Words(g[i])
                        \/ \E v \in U \ {u} : w \in Words(v)
      BY DEF Covered
    <3>1. CASE w \in Words(u) \/ w \in Words(f[k])
      <4>1. w \in Int /\ (\/ f[k].va <= w /\ w <= End(f[k]) - 1
                          \/ u.va <= w /\ w <= End(u) - 1)
        BY <3>1, DescFact DEF Words
      <4>2. f[k].va \in Nat /\ End(f[k]) \in Nat /\ End(f[k]) = f[k].va + f[k].size
            /\ f[k].size > 0 /\ f[k].size \in Nat /\ u.size > 0
        BY <1>1, <1>3, <1>4
      <4>3. c.va <= w /\ w <= End(c) - 1
        BY <1>2, <1>7, <4>1, <4>2
      <4>4. w \in Words(g[k])
        BY <1>2, <1>3, <1>7, <1>9, <4>1, <4>2, <4>3 DEF Words
      <4> QED
        BY <1>3, <1>9, <4>4
    <3>2. CASE \E i \in 1 .. n : i # k /\ w \in Words(f[i])
      BY <1>9, <3>2
    <3> QED
      BY <1>1, <3>1, <3>2 DEF Pool, Covered
  <2> QED
    BY <1>9, <2>1, <2>2, <2>3 DEF Pool
<1>12. ASSUME NEW i \in 1 .. n, NEW j \in 1 .. n, End(g[i]) = g[j].va
       PROVE  \/ End(f[k]) = u.va /\ i = k /\ j > k
              \/ End(u) = f[k].va /\ j = k /\ i > k
  <2>1. ~ (i = k /\ j = k)
    BY <1>2, <1>4, <1>7, <1>9, <1>12, <1>1
  <2>2. ~ (i # k /\ j # k)
    BY <1>1, <1>9, <1>12 DEF Separate
  <2>3. CASE i = k /\ j # k
    <3>1. End(c) = f[j].va
      BY <1>9, <1>12, <2>3
    <3>2. End(f[k]) = u.va /\ End(c) = End(u)
      BY <1>1, <1>3, <1>7, <3>1 DEF Separate
    <3>3. j \in Touched(f, u)
      BY <1>1, <3>1, <3>2 DEF Touched
    <3> QED
      BY <1>3, <2>3, <3>2, <3>3
  <2>4. CASE i # k /\ j = k
    <3>1. End(f[i]) = c.va
      BY <1>9, <1>12, <2>4
    <3>2. End(u) = f[k].va /\ c.va = u.va
      BY <1>1, <1>3, <1>7, <3>1 DEF Separate
    <3>3. i \in Touched(f, u)
      <4>1. f[i].va <= End(f[i]) /\ i \in DOMAIN f
        BY <1>1
      <4> QED
        BY <1>1, <3>1, <3>2, <4>1, <1>2 DEF Touched
    <3> QED
      BY <1>3, <2>4, <3>2, <3>3
  <2> QED
    BY <2>1, <2>2, <2>3, <2>4
<1>13. ~ (End(f[k]) = u.va /\ End(u) = f[k].va)
  <2>1. /\ f[k].va \in Nat /\ f[k].size \in Nat /\ End(f[k]) = f[k].va + f[k].size
        /\ f[k].size > 0 /\ u.size > 0
    BY <1>1, <1>3, <1>4
  <2> QED
    BY <1>2, <2>1
<1> QED
  BY <1>3, <1>5, <1>6, <1>9, <1>11, <1>12, <1>13

\* __lmc_free of a block in use gives its words back to the free list, merged
\* with both of its neighbours.
LEMMA ReleaseFact ==
    ASSUME NEW f, NEW U, Pool(f, U), Separate(f), NEW u \in U
    PROVE  Pool(Release(f, u), U \ {u}) /\ Separate(Release(f, u))
<1>1. CASE Touched(f, u) = {}
  BY <1>1, PrependFact DEF Release
<1>2. CASE Touched(f, u) # {}
  <2>1. Touched(f, u) \in SUBSET Nat
    BY ListFact DEF Pool, Touched
  <2> DEFINE k == Min(Touched(f, u))
             g == Absorb(f, u, k)
  <2>2. k \in Touched(f, u) /\ \A x \in Touched(f, u) : k <= x
    BY <1>2, <2>1, MinFact
  <2> HIDE DEF k
  <2>3. /\ ~ AlreadyFree(f, u, k)
        /\ Pool(g, U \ {u})
        /\ k \in DOMAIN g
        /\ \A i, j \in DOMAIN g : End(g[i]) = g[j].va =>
               (i = k /\ j > k) \/ (j = k /\ i > k)
        /\ \/ \A i, j \in DOMAIN g : End(g[i]) = g[j].va => i = k
           \/ \A i, j \in DOMAIN g : End(g[i]) = g[j].va => j = k
    BY <2>2, AbsorbFact
  <2>4. Release(f, u) = Compact(g, k)
    BY <1>2, <2>3 DEF Release, k
  <2> HIDE DEF g
  <2>5. Pool(Compact(g, k), U \ {u}) /\ Separate(Compact(g, k))
    BY <2>3, CompactFact
  <2> QED
    BY <2>4, <2>5
<1> QED
  BY <1>1, <1>2

-----------------------------------------------------------------------------
\* lmc_valloc carves its block out of a free chunk: the block is as large as
\* asked for, shares no word with another, and what is left can be linked.
LEMMA CarveFact ==
    ASSUME NEW f, NEW U, Pool(f, U), Separate(f),
           NEW s \in Nat, s >= Desc, Fits(f, s) # {},
           NEW r, r = Carve(f, s)
    PROVE  /\ r.block \in Chunk /\ r.block.size >= s
           /\ Linkable(r.block)
           /\ \A u \in U : Apart(r.block, u)
           /\ Pool(r.free, U \union {r.block})
           /\ Separate(r.free)
<1> DEFINE n == Len(f)
           k == Min(Fits(f, s))
           t == Taken(f[k], s)
           b == [va |-> End(f[k]) - t, size |-> t]
           d == [va |-> f[k].va, size |-> f[k].size - t]
<1>1. /\ n \in Nat /\ DOMAIN f = 1 .. n /\ f \in Seq(Chunk)
      /\ \A i \in 1 .. n : /\ f[i] \in Chunk
                           /\ f[i].va \in Nat /\ f[i].size \in Nat
                           /\ End(f[i]) \in Nat
                           /\ End(f[i]) = f[i].va + f[i].size
  BY ListFact DEF Pool
<1>2. k \in Fits(f, s)
  <2>1. Fits(f, s) \in SUBSET Nat
    BY <1>1 DEF Fits
  <2> QED
    BY <2>1, MinFact
<1> HIDE DEF k, n
<1>3. /\ k \in 1 .. n /\ k \in DOMAIN f /\ f[k].size >= s
      /\ f[k] \in Chunk /\ f[k].va \in Nat /\ f[k].size \in Nat
      /\ End(f[k]) = f[k].va + f[k].size
      /\ f[k] = [va |-> f[k].va, size |-> f[k].size]
  <2>1. k \in 1 .. n /\ k \in DOMAIN f /\ f[k].size >= s
    BY <1>1, <1>2 DEF Fits
  <2> QED
    BY <1>1, <2>1, ChunkFact
<1>4. /\ t \in Nat /\ t >= s /\ t <= f[k].size
      /\ t # f[k].size => f[k].size - t >= Desc
  BY <1>3, DescFact DEF Taken
<1> HIDE DEF t
<1>5. /\ b \in Chunk /\ b.va = End(f[k]) - t /\ b.size = t
      /\ End(b) = End(f[k]) /\ f[k].va <= b.va
  <2>1. End(f[k]) - t \in Nat /\ f[k].va <= End(f[k]) - t
    BY <1>3, <1>4
  <2>2. b \in Chunk /\ End(b) = (End(f[k]) - t) + t
    BY <1>4, <2>1, NewChunkFact
  <2> QED
    BY <1>3, <1>4, <2>1, <2>2
<1>6. /\ r.block = b
      /\ r.free = IF t = f[k].size THEN RemoveAt(f, k)
                  ELSE [f EXCEPT ![k].size = f[k].size - t]
  BY DEF Carve, k, t
<1>7. Linkable(f[k]) /\ Linkable(b)
  <2>1. Linkable(f[k])
    BY <1>3 DEF Pool, AllLinkable
  <2> QED
    BY <1>3, <1>4, <1>5, <2>1, DescFact DEF Linkable
<1>8. f[k].size > 0 /\ b.size > 0
  BY <1>3, <1>5, <1>7, LinkableFact
<1> HIDE DEF b
<1>9. ASSUME NEW e \in Chunk, Linkable(e), Apart(f[k], e)
      PROVE  Apart(b, e) /\ Apart(e, b)
  <2>1. e.va \in Nat /\ e.size \in Nat /\ End(e) = e.va + e.size /\ e.size > 0
    BY <1>9, ChunkFact, LinkableFact
  <2> QED
    BY <1>3, <1>4, <1>5, <1>8, <1>9, <2>1 DEF Apart
<1>10. \A u \in U : Apart(b, u) /\ Apart(u, b)
  BY <1>3, <1>9 DEF Pool, AllApart, AllLinkable
<1>11. \A i \in 1 .. n : i # k => Apart(b, f[i]) /\ Apart(f[i], b)
  BY <1>1, <1>3, <1>9 DEF Pool, AllApart, AllLinkable
<1>12. CASE t = f[k].size
  <2> DEFINE g == RemoveAt(f, k)
             m == [i \in 1 .. n - 1 |-> IF i < k THEN i ELSE i + 1]
  <2>1. b = f[k]
    BY <1>3, <1>12 DEF b
  <2>2. /\ g \in Seq(Chunk) /\ Len(g) = n - 1
        /\ \A i \in 1 .. n - 1 : g[i] = IF i < k THEN f[i] ELSE f[i + 1]
    BY <1>1, <1>3, RemoveAtFact DEF n
  <2>3. /\ \A i \in 1 .. n - 1 : m[i] \in 1 .. n /\ m[i] # k
        /\ \A i, j \in 1 .. n - 1 : m[i] = m[j] => i = j
        /\ \A i \in 1 .. n - 1 : m[i] = IF i < k THEN i ELSE i + 1
    BY <1>1, <1>3
  <2>4. \A x \in 1 .. n : x # k => \E i \in 1 .. n - 1 : m[i] = x
    <3> SUFFICES ASSUME NEW x \in 1 .. n, x # k
                 PROVE  \E i \in 1 .. n - 1 : m[i] = x
      OBVIOUS
    <3>1. CASE x < k
      <4>1. x \in 1 .. n - 1 /\ m[x] = x
        BY <1>1, <1>3, <3>1
      <4> QED
        BY <4>1
    <3>2. CASE x > k
      <4>1. x - 1 \in 1 .. n - 1 /\ m[x - 1] = x
        BY <1>1, <1>3, <3>2
      <4> QED
        BY <4>1
    <3> QED
      BY <1>1, <1>3, <3>1, <3>2
  <2> HIDE DEF g, m
  <2>5. DOMAIN g = 1 .. n - 1 /\ \A i \in 1 .. n - 1 : g[i] = f[m[i]]
    <3>1. DOMAIN g = 1 .. n - 1
      BY <2>2, ListFact
    <3> QED
      BY <2>2, <2>3, <3>1
  <2>6. AllLinkable(g, U \union {b})
    BY <1>1, <1>7, <2>3, <2>5 DEF Pool, AllLinkable
  <2>7. AllApart(g, U \union {b})
    <3>1. \A i, j \in 1 .. n : i # j => Apart(f[i], f[j])
      BY <1>1 DEF Pool, AllApart
    <3>2. ASSUME NEW i \in 1 .. n - 1, NEW j \in 1 .. n - 1, i # j
          PROVE  Apart(g[i], g[j])
      <4>1. m[i] \in 1 .. n /\ m[j] \in 1 .. n /\ m[i] # m[j]
        BY <2>3, <3>2
      <4> QED
        BY <2>5, <3>1, <4>1
    <3>3. \A i \in 1 .. n - 1 : \A u \in U \union {b} : Apart(g[i], u)
      BY <1>1, <1>11, <2>3, <2>5 DEF Pool, AllApart
    <3> QED
      BY <1>10, <2>5, <3>2, <3>3 DEF Pool, AllApart
  <2>8. Covered(g, U \union {b})
    <3> SUFFICES ASSUME NEW w \in MdSize .. Total - 1, NEW x \in 1 .. n,
                        w \in Words(f[x])
                 PROVE  \/ \E i \in DOMAIN g : w \in Words(g[i])
                        \/ w \in Words(b)
      BY <1>1 DEF Pool, Covered
    <3>1. CASE x = k
      BY <2>1, <3>1
    <3>2. CASE x # k
      <4>1. PICK i \in 1 .. n - 1 : m[i] = x
        BY <2>4, <3>2
      <4> QED
        BY <2>5, <4>1
    <3> QED
      BY <3>1, <3>2
  <2>9. Separate(g)
    <3> SUFFICES ASSUME NEW i \in 1 .. n - 1, NEW j \in 1 .. n - 1
                 PROVE  End(g[i]) # g[j].va
      BY <2>5 DEF Separate
    <3>1. m[i] \in 1 .. n /\ m[j] \in 1 .. n /\ g[i] = f[m[i]] /\ g[j] = f[m[j]]
      BY <2>3, <2>5
    <3> QED
      BY <1>1, <3>1 DEF Separate
  <2>10. r.free = g
    BY <1>6, <1>12 DEF g
  <2>11. U \union {b} \subseteq Chunk
    BY <1>5 DEF Pool
  <2> QED
    BY <1>4, <1>5, <1>6, <1>7, <1>10, <2>2, <2>6, <2>7, <2>8, <2>9, <2>10, <2>11 DEF Pool
<1>13. CASE t # f[k].size
  <2> DEFINE g == [f EXCEPT ![k] = d]
  <2>1. /\ d \in Chunk /\ d.va = f[k].va /\ d.size = f[k].size - t
        /\ End(d) = b.va
    <3>1. f[k].size - t \in Nat
      BY <1>3, <1>4
    <3>2. d \in Chunk /\ End(d) = f[k].va + (f[k].size - t)
      BY <1>3, <3>1, NewChunkFact
    <3> QED
      BY <1>3, <1>4, <1>5, <3>2
  <2>2. r.free = g
    <3>1. [f[k] EXCEPT !.size = f[k].size - t] = d
      BY <1>3
    <3>2. r.free = [f EXCEPT ![k].size = f[k].size - t]
      BY <1>6, <1>13
    <3>3. [f EXCEPT ![k].size = f[k].size - t]
            = [f EXCEPT ![k] = [f[k] EXCEPT !.size = f[k].size - t]]
      OBVIOUS
    <3> QED
      BY <3>1, <3>2, <3>3
  <2>3. /\ g \in Seq(Chunk) /\ Len(g) = n /\ DOMAIN g = 1 .. n
        /\ \A i \in 1 .. n : g[i] = IF i = k THEN d ELSE f[i]
    <3>1. /\ g \in Seq(Chunk) /\ Len(g) = Len(f)
          /\ \A i \in 1 .. Len(f) : g[i] = IF i = k THEN d ELSE f[i]
      BY <1>1, <1>3, <2>1, ExceptSeq DEF n
    <3> QED
      BY <3>1, ListFact DEF n
  <2> HIDE DEF g, d
  <2>4. Linkable(d)
    BY <1>3, <1>4, <1>5, <1>7, <1>13, <2>1, DescFact DEF Linkable
  <2>5. AllLinkable(g, U \union {b})
    BY <1>1, <1>7, <2>3, <2>4 DEF Pool, AllLinkable
  <2>6. d.size > 0 /\ d.size \in Nat /\ d.va \in Nat
    BY <2>1, <2>4, LinkableFact, ChunkFact
  <2>7. ASSUME NEW e \in Chunk, Linkable(e), Apart(f[k], e)
        PROVE  Apart(d, e) /\ Apart(e, d)
    <3>1. e.va \in Nat /\ e.size \in Nat /\ End(e) = e.va + e.size /\ e.size > 0
      BY <2>7, ChunkFact, LinkableFact
    <3> QED
      BY <1>3, <1>4, <1>5, <2>1, <2>6, <2>7, <3>1 DEF Apart
  <2>8. AllApart(g, U \union {b})
    <3>1. \A i \in 1 .. n : i # k => Apart(d, f[i]) /\ Apart(f[i], d)
      BY <1>1, <1>3, <2>7 DEF Pool, AllApart, AllLinkable
    <3>2. \A i, j \in 1 .. n : i # j => Apart(g[i], g[j])
      BY <1>1, <2>3, <3>1 DEF Pool, AllApart
    <3>3. \A u \in U : Apart(d, u)
      BY <1>3, <2>7 DEF Pool, AllApart, AllLinkable
    <3>4. Apart(d, b)
      BY <1>3, <1>4, <1>5, <2>1 DEF Apart
    <3>5. \A i \in 1 .. n : \A u \in U \union {b} : Apart(g[i], u)
      BY <1>1, <1>11, <2>3, <3>3, <3>4 DEF Pool, AllApart
    <3> QED
      BY <1>10, <2>3, <3>2, <3>5 DEF Pool, AllApart
  <2>9. Covered(g, U \union {b})
    <3> SUFFICES ASSUME NEW w \in MdSize .. Total - 1, NEW x \in 1 .. n,
                        w \in Words(f[x])
                 PROVE  \/ \E i \in DOMAIN g : w \in Words(g[i])
                        \/ w \in Words(b)
      BY <1>1 DEF Pool, Covered
    <3>1. CASE x = k
      <4>1. w \in Int /\ f[k].va <= w /\ w <= End(f[k]) - 1
        BY <3>1, DescFact DEF Words
      <4>2. End(d) \in Int /\ (w <= End(d) - 1 \/ b.va <= w)
        BY <1>3, <1>4, <1>5, <2>1, <4>1
      <4>3. w \in Words(d) \/ w \in Words(b)
        BY <1>3, <1>4, <1>5, <2>1, <4>1, <4>2 DEF Words
      <4> QED
        BY <1>3, <2>3, <4>3
    <3>2. CASE x # k
      BY <2>3, <3>2
    <3> QED
      BY <3>1, <3>2
  <2>10. Separate(g)
    <3> SUFFICES ASSUME NEW i \in 1 .. n, NEW j \in 1 .. n, End(g[i]) = g[j].va
                 PROVE  FALSE
      BY <2>3 DEF Separate
    <3>1. g[j].va = f[j].va
      BY <2>1, <2>3
    <3>2. i = k
      BY <1>1, <2>3, <3>1 DEF Separate
    <3>3. End(d) = f[j].va
      BY <2>3, <3>1, <3>2
    <3>4. j # k
      BY <1>3, <2>1, <2>6, <3>3, ChunkFact
    <3>5. Apart(f[k], f[j]) /\ f[j].size > 0
      BY <1>1, <1>3, <3>4, LinkableFact DEF Pool, AllApart, AllLinkable
    <3>6. f[j].va \in Nat /\ f[j].size \in Nat /\ End(f[j]) = f[j].va + f[j].size
      BY <1>1
    <3> QED
      BY <1>3, <1>4, <1>5, <1>8, <2>1, <2>6, <3>3, <3>5, <3>6 DEF Apart
  <2>11. U \union {b} \subseteq Chunk
    BY <1>5 DEF Pool
  <2> QED
    BY <1>4, <1>5, <1>6, <1>7, <1>10, <2>2, <2>3, <2>5, <2>8, <2>9, <2>10, <2>11 DEF Pool
<1> QED
  BY <1>12, <1>13


\* A run of words no block uses lies inside one free chunk: a chunk covers its
\* first word, and where that chunk ended a neighbour would have to start.
LEMMA HoleFact ==
    ASSUME NEW f, NEW U, Pool(f, U), Separate(f),
           NEW b \in Chunk, b.size > 0, MdSize <= b.va, End(b) <= Total,
           \A u \in U : Apart(b, u)
    PROVE  \E k \in DOMAIN f : f[k].va <= b.va /\ End(b) <= End(f[k])
<1>1. /\ DOMAIN f \subseteq Nat
      /\ \A i \in DOMAIN f : /\ f[i] \in Chunk
                             /\ f[i].va \in Nat /\ f[i].size \in Nat
                             /\ End(f[i]) \in Nat
                             /\ End(f[i]) = f[i].va + f[i].size
  BY ListFact DEF Pool
<1>2. /\ b.va \in Nat /\ b.size \in Nat /\ End(b) = b.va + b.size
      /\ MdSize \in Nat /\ Total \in Nat
  BY ChunkFact, DescFact
<1>3. ASSUME NEW w \in MdSize .. Total - 1, b.va <= w, w < End(b)
      PROVE  \E k \in DOMAIN f : f[k].va <= w /\ w < End(f[k])
  <2>1. ASSUME NEW u \in U, w \in Words(u)
        PROVE  FALSE
    <3>1. u.va \in Nat /\ u.size \in Nat /\ End(u) = u.va + u.size
      BY ChunkFact DEF Pool
    <3>2. u.va <= w /\ w < End(u)
      BY <1>2, <2>1, <3>1 DEF Words
    <3> QED
      BY <1>2, <1>3, <3>1, <3>2 DEF Apart
  <2>2. PICK k \in DOMAIN f : w \in Words(f[k])
    BY <2>1 DEF Pool, Covered
  <2>3. f[k].va <= w /\ w < End(f[k])
    BY <1>1, <1>2, <2>2 DEF Words
  <2> QED
    BY <2>3
<1>4. b.va \in MdSize .. Total - 1 /\ b.va < End(b)
  BY <1>2
<1>5. PICK k \in DOMAIN f : f[k].va <= b.va /\ b.va < End(f[k])
  BY <1>2, <1>3, <1>4
<1>6. SUFFICES ASSUME End(f[k]) < End(b)
               PROVE  FALSE
  BY <1>1, <1>2, <1>5
<1>7. End(f[k]) \in MdSize .. Total - 1 /\ b.va <= End(f[k])
  BY <1>1, <1>2, <1>5, <1>6
<1>8. PICK j \in DOMAIN f : f[j].va <= End(f[k]) /\ End(f[k]) < End(f[j])
  BY <1>3, <1>6, <1>7
<1>9. j # k
  BY <1>1, <1>8
<1>10. Apart(f[k], f[j])
  BY <1>9 DEF Pool, AllApart
<1>11. End(f[k]) = f[j].va
  BY <1>1, <1>2, <1>5, <1>8, <1>10 DEF Apart
<1> QED
  BY <1>11 DEF Separate

\* If no block is in use the free list is one chunk that spans the pool.
LEMMA EmptyPoolFact ==
    ASSUME NEW f, Pool(f, {}), Separate(f)
    PROVE  f = << [va |-> MdSize, size |-> Total - MdSize] >>
<1> DEFINE b == [va |-> MdSize, size |-> Total - MdSize]
<1>1. /\ Len(f) \in Nat /\ DOMAIN f = 1 .. Len(f) /\ f \in Seq(Chunk)
      /\ \A i \in DOMAIN f : /\ f[i] \in Chunk
                             /\ f[i].va \in Nat /\ f[i].size \in Nat
                             /\ End(f[i]) = f[i].va + f[i].size
  BY ListFact DEF Pool
<1>2. /\ MdSize \in Nat /\ Total \in Nat /\ Total - MdSize \in Nat
      /\ Total - MdSize > 0
  BY LayoutAssumption, DescFact DEF LayoutAssumption
<1>3. b \in Chunk /\ b.va = MdSize /\ b.size = Total - MdSize /\ End(b) = Total
  BY <1>2, NewChunkFact
<1> HIDE DEF b
<1>4. \A i \in DOMAIN f : Linkable(f[i])
  BY DEF Pool, AllLinkable
<1>5. PICK k \in DOMAIN f : f[k].va <= b.va /\ End(b) <= End(f[k])
  BY <1>2, <1>3, HoleFact
<1>6. f[k].va = MdSize /\ End(f[k]) = Total
  <2>1. f[k].va \in Nat /\ End(f[k]) \in Nat
    BY <1>1, ChunkFact
  <2>2. MdSize <= f[k].va /\ End(f[k]) <= Total
    BY <1>4 DEF Linkable
  <2> QED
    BY <1>2, <1>3, <1>5, <2>1, <2>2
<1>7. f[k] = b
  <2>1. f[k].size = Total - MdSize
    BY <1>1, <1>2, <1>6
  <2> QED
    BY <1>1, <1>6, <2>1, ChunkFact DEF b
<1>8. ASSUME NEW j \in DOMAIN f, j # k
      PROVE  FALSE
  <2>1. Apart(f[k], f[j])
    BY <1>8 DEF Pool, AllApart
  <2>2. f[j].size > 0 /\ Linkable(f[j])
    BY <1>1, <1>4, LinkableFact
  <2> QED
    BY <1>1, <1>2, <1>6, <2>1, <2>2 DEF Apart, Linkable
<1>9. Len(f) = 1 /\ k = 1
  <2>1. 1 \in DOMAIN f /\ Len(f) \in DOMAIN f
    BY <1>1, <1>5
  <2> QED
    BY <1>8, <2>1
<1>10. << b >> \in Seq(Chunk) /\ Len(<< b >>) = 1 /\ << b >>[1] = b
  BY <1>3
<1>11. f = << b >>
  BY <1>1, <1>7, <1>9, <1>10, SeqEqual
<1> QED
  BY <1>11 DEF b

\* A pool without blocks is one free chunk.
LEMMA WholePoolFact ==
    /\ Pool(<< [va |-> MdSize, size |-> Total - MdSize] >>, {})
    /\ Separate(<< [va |-> MdSize, size |-> Total - MdSize] >>)
<1> DEFINE b == [va |-> MdSize, size |-> Total - MdSize]
           f == << b >>
<1>1. /\ MdSize \in Nat /\ Total \in Nat /\ Total - MdSize \in Nat
      /\ Total - MdSize >= Desc /\ Total - MdSize > 0
  BY LayoutAssumption, DescFact DEF LayoutAssumption
<1>2. b \in Chunk /\ b.va = MdSize /\ b.size = Total - MdSize /\ End(b) = Total
  BY <1>1, NewChunkFact
<1> HIDE DEF b
<1>4. f \in Seq(Chunk) /\ DOMAIN f = {1} /\ f[1] = b
  BY <1>2
<1> HIDE DEF f
<1>5. Linkable(b)
  BY <1>1, <1>2 DEF Linkable
<1>6. AllLinkable(f, {}) /\ AllApart(f, {})
  BY <1>4, <1>5 DEF AllLinkable, AllApart
<1>7. Covered(f, {})
  BY <1>1, <1>2, <1>4 DEF Covered, Words
<1>8. Separate(f)
  BY <1>1, <1>2, <1>4 DEF Separate
<1>9. Pool(f, {})
  BY <1>4, <1>6, <1>7 DEF Pool
<1> QED
  BY <1>8, <1>9 DEF f, b

-----------------------------------------------------------------------------
(***************************************************************************)
(* What the memory check makes of a pool.                                  *)
(***************************************************************************)
\* The elements of two lists in a row.
Joins(u, s, t) == u = s \o t

\* Two lists in a row have the elements of both.
LEMMA ToSetFact ==
    ASSUME NEW S, NEW s \in Seq(S), NEW t \in Seq(S), NEW u, Joins(u, s, t)
    PROVE  u \in Seq(S) /\ ToSet(u) = ToSet(s) \union ToSet(t)
<1> USE DEF Joins
<1> DEFINE a == Len(s)
           b == Len(t)
<1>1. a \in Nat /\ b \in Nat /\ DOMAIN s = 1 .. a /\ DOMAIN t = 1 .. b
  BY LenProperties
<1>2. u \in Seq(S) /\ Len(u) = a + b
      /\ \A i \in 1 .. a + b : u[i] = IF i <= a THEN s[i] ELSE t[i - a]
  BY ConcatProperties, Zenon
<1>3. Holds(u, s) /\ Holds(u, t)
  BY ConcatFact
<1> HIDE DEF a, b
<1>4. DOMAIN u = 1 .. a + b
  BY <1>2
<1>5. ASSUME NEW i \in 1 .. a + b PROVE u[i] \in ToSet(s) \union ToSet(t)
  <2>1. CASE i <= a
    <3>1. i \in DOMAIN s /\ u[i] = s[i]
      BY <1>1, <1>2, <2>1
    <3> QED
      BY <3>1 DEF ToSet
  <2>2. CASE ~ (i <= a)
    <3>1. i - a \in DOMAIN t /\ u[i] = t[i - a]
      BY <1>1, <1>2, <2>2
    <3> QED
      BY <3>1 DEF ToSet
  <2> QED
    BY <2>1, <2>2
<1>6. ToSet(u) \subseteq ToSet(s) \union ToSet(t)
  BY <1>4, <1>5 DEF ToSet
<1>7. ASSUME NEW r, Holds(u, r) PROVE ToSet(r) \subseteq ToSet(u)
  <2> SUFFICES ASSUME NEW x \in ToSet(r) PROVE x \in ToSet(u)
    OBVIOUS
  <2>1. PICK i \in DOMAIN r : x = r[i]
    BY DEF ToSet
  <2>2. PICK j \in DOMAIN u : u[j] = r[i]
    BY <1>7 DEF Holds
  <2> QED
    BY <2>1, <2>2 DEF ToSet
<1>8. ToSet(s) \subseteq ToSet(u) /\ ToSet(t) \subseteq ToSet(u)
  BY <1>3, <1>7
<1> QED
  BY <1>2, <1>6, <1>8

\* A word is not marked if it is behind the descriptor and neither free nor in
\* one of the blocks that were shown.
LEMMA UnmarkedWords ==
    ASSUME NEW f \in Seq(Chunk), NEW blocks \in Seq(Chunk)
    PROVE  \A w : w \in Unmarked(f, blocks) <=>
               /\ w \in MdSize .. Total - 1
               /\ \A k \in DOMAIN f : w \notin Words(f[k])
               /\ \A u \in ToSet(blocks) : w \notin Words(u)
<1> DEFINE d == <<Descriptor>>
           front == d \o f
           all == front \o blocks
<1>1. MdSize \in Nat /\ Total \in Nat
  BY DescFact
<1>2. Descriptor \in Chunk /\ Words(Descriptor) = 0 .. MdSize - 1
  BY <1>1 DEF Descriptor, Chunk, Words, End
<1>3. d \in Seq(Chunk) /\ ToSet(d) = {Descriptor}
  BY <1>2 DEF ToSet
<1> HIDE DEF d
<1>4. front \in Seq(Chunk) /\ ToSet(front) = ToSet(d) \union ToSet(f)
  <2> HIDE DEF front
  <2>1. Joins(front, d, f)
    BY DEF front, Joins
  <2> QED
    BY <1>3, <2>1, ToSetFact
<1>5. all \in Seq(Chunk) /\ ToSet(all) = ToSet(front) \union ToSet(blocks)
  <2> HIDE DEF front, all
  <2>1. Joins(all, front, blocks)
    BY DEF all, Joins
  <2> QED
    BY <1>4, <2>1, ToSetFact
<1>6. Unmarked(f, blocks) = (0 .. Total - 1) \ UNION {Words(all[i]) : i \in DOMAIN all}
  BY DEF Unmarked, d
<1> HIDE DEF front
<1> HIDE DEF all
<1>7. \A w : w \in UNION {Words(all[i]) : i \in DOMAIN all} <=> \E c \in ToSet(all) : w \in Words(c)
  BY DEF ToSet
<1>8. \A c : c \in ToSet(all) <=> c = Descriptor \/ (\E k \in DOMAIN f : c = f[k]) \/ c \in ToSet(blocks)
  <2>1. \A c : c \in ToSet(f) <=> \E k \in DOMAIN f : c = f[k]
    BY DEF ToSet
  <2> QED
    BY <1>3, <1>4, <1>5, <2>1
<1>9. \A w : w \in Unmarked(f, blocks) <=>
               /\ w \in 0 .. Total - 1 /\ w \notin 0 .. MdSize - 1
               /\ \A k \in DOMAIN f : w \notin Words(f[k])
               /\ \A u \in ToSet(blocks) : w \notin Words(u)
  BY <1>2, <1>6, <1>7, <1>8
<1>10. \A w : w \in 0 .. Total - 1 /\ w \notin 0 .. MdSize - 1 <=> w \in MdSize .. Total - 1
  BY <1>1
<1> QED
  BY <1>9, <1>10

\* A gap holds unmarked words only, and no more of them come before it or after
\* it.
IsGap(g, words, i) ==
    /\ g \in Chunk /\ End(g) = i /\ g.va < i
    /\ \A w \in Nat : g.va <= w /\ w < i => w \in words
    /\ i \notin words
    /\ \A w \in words : w + 1 # g.va

\* GapBefore finds the gap that ends before word i.
LEMMA GapFact ==
    ASSUME NEW words \in SUBSET Nat, NEW i \in 1 .. Total, EndsGap(words, i)
    PROVE  IsGap(GapBefore(words, i), words, i)
<1> DEFINE g == GapBefore(words, i)
           S == {a \in 0 .. i - 1 : a .. i - 1 \subseteq words}
           gs == Min(S)
<1>0. Total \in Nat /\ i \in Nat /\ i > 0
  BY DescFact
<1>1. i - 1 \in S
  <2>1. i - 1 \in 0 .. i - 1 /\ (i - 1) .. (i - 1) = {i - 1}
    BY <1>0
  <2> QED
    BY <2>1 DEF EndsGap
<1>2. gs \in S /\ \A a \in S : gs <= a
  <2>1. S \subseteq Nat
    BY <1>0
  <2>2. S # {}
    BY <1>1
  <2> HIDE DEF S
  <2> QED
    BY <2>1, <2>2, MinFact
<1> HIDE DEF gs
<1>3. gs \in 0 .. i - 1 /\ gs .. i - 1 \subseteq words
  BY <1>2
<1>4. \A w \in words : w + 1 # gs
  <2> SUFFICES ASSUME NEW w \in words, w + 1 = gs PROVE FALSE
    OBVIOUS
  <2>1. w \in Nat /\ w \in 0 .. i - 1 /\ gs = w + 1
    BY <1>0, <1>3
  <2>2. w .. i - 1 \subseteq words
    BY <1>0, <1>3, <2>1
  <2>3. gs <= w
    BY <1>2, <2>1, <2>2
  <2> QED
    BY <2>1, <2>3
<1>5. g = [va |-> gs, size |-> i - gs]
  BY DEF GapBefore, gs
<1>6. i - gs \in Nat /\ gs \in Nat /\ gs + (i - gs) = i /\ gs < i
  BY <1>0, <1>3
<1>7. g \in Chunk /\ End(g) = i /\ g.va = gs
  BY <1>5, <1>6, NewChunkFact
<1>8. \A w \in Nat : gs <= w /\ w < i => w \in words
  BY <1>0, <1>3
<1> QED
  BY <1>4, <1>6, <1>7, <1>8 DEF EndsGap, IsGap

\* Every unmarked word is in a gap.
LEMMA InGapFact ==
    ASSUME NEW words \in SUBSET Nat, Total \notin words, NEW w \in words, w < Total
    PROVE  \E i \in 1 .. Total : EndsGap(words, i) /\ w \in Words(GapBefore(words, i))
<1> DEFINE S == {j \in w + 1 .. Total : j \notin words}
           i == Min(S)
<1>0. Total \in Nat /\ w \in Nat
  BY DescFact
<1>1. i \in S /\ \A j \in S : i <= j
  <2>1. S \in SUBSET Nat /\ S # {}
    BY <1>0
  <2> HIDE DEF S
  <2> QED
    BY <2>1, MinFact
<1> HIDE DEF i
<1>2. i \in w + 1 .. Total /\ i \notin words
  BY <1>1
<1>3. \A x \in w .. i - 1 : x \in words
  <2> SUFFICES ASSUME NEW x \in w .. i - 1, x \notin words PROVE FALSE
    OBVIOUS
  <2>1. x # w
    OBVIOUS
  <2>2. x \in w + 1 .. Total
    BY <1>0, <1>2, <2>1
  <2>3. i <= x
    BY <1>1, <2>2
  <2> QED
    BY <1>0, <1>2, <2>3
<1>4. i \in 1 .. Total /\ EndsGap(words, i)
  <2>1. i - 1 \in w .. i - 1
    BY <1>0, <1>2
  <2> QED
    BY <1>0, <1>2, <1>3, <2>1 DEF EndsGap
<1> DEFINE g == GapBefore(words, i)
<1>5. /\ g \in Chunk /\ End(g) = i
      /\ \A x \in words : x + 1 # g.va
  BY <1>4, GapFact DEF IsGap
<1> HIDE DEF g
<1>6. g.va \in Nat
  BY <1>5, ChunkFact
<1>7. g.va <= w
  <2> SUFFICES ASSUME w < g.va PROVE FALSE
    BY <1>0, <1>6
  <2>1. g.va <= i
    BY <1>5, ChunkFact
  <2>2. g.va - 1 \in w .. i - 1
    BY <1>0, <1>2, <1>6, <2>1
  <2>3. g.va - 1 \in words /\ (g.va - 1) + 1 = g.va
    BY <1>3, <1>6, <2>2
  <2> QED
    BY <1>5, <2>3
<1>8. w \in Words(g)
  BY <1>0, <1>2, <1>5, <1>6, <1>7 DEF Words
<1> QED
  BY <1>4, <1>8 DEF g

\* words are those of the blocks in L.
Fills(words, L) == \A w \in Nat : w \in words <=> \E u \in L : w \in Words(u)

\* The words the memory check leaves unmarked are those of the blocks that it
\* was not shown.
LEMMA UnmarkedFact ==
    ASSUME NEW f, NEW U, Pool(f, U), NEW W \in SUBSET U,
           NEW blocks \in Seq(Chunk), ToSet(blocks) = W,
           NEW words, words = Unmarked(f, blocks)
    PROVE  words \in SUBSET Nat /\ Total \notin words /\ Fills(words, U \ W)
<1>1. MdSize \in Nat /\ Total \in Nat
  BY DescFact
<1>2. \A w : w \in words <=>
               /\ w \in MdSize .. Total - 1
               /\ \A k \in DOMAIN f : w \notin Words(f[k])
               /\ \A u \in W : w \notin Words(u)
  BY UnmarkedWords DEF Pool
<1>3. words \in SUBSET Nat /\ Total \notin words
  BY <1>1, <1>2
<1>4. ASSUME NEW w \in words PROVE \E u \in U \ W : w \in Words(u)
  BY <1>2 DEF Pool, Covered
<1>5. ASSUME NEW w \in Nat, NEW u \in U \ W, w \in Words(u) PROVE w \in words
  <2>1. u.va \in Nat /\ End(u) \in Nat /\ MdSize <= u.va /\ End(u) <= Total
    BY ChunkFact DEF Pool, AllLinkable, Linkable
  <2>2. u.va <= w /\ w < End(u)
    BY <1>5, <2>1 DEF Words
  <2>3. w \in MdSize .. Total - 1
    BY <1>1, <2>1, <2>2
  <2>4. ASSUME NEW c \in Chunk, Apart(c, u) \/ Apart(u, c) PROVE w \notin Words(c)
    <3>1. c.va \in Nat /\ End(c) \in Nat
      BY ChunkFact
    <3> QED
      BY <2>1, <2>2, <2>4, <3>1 DEF Words, Apart
  <2>5. \A k \in DOMAIN f : w \notin Words(f[k])
    BY <2>4, ListFact DEF Pool, AllApart
  <2>6. \A v \in W : w \notin Words(v)
    BY <2>4 DEF Pool, AllApart
  <2> QED
    BY <1>2, <2>3, <2>5, <2>6
<1> QED
  BY <1>3, <1>4, <1>5 DEF Fills

\* A gap holds a whole block that was not shown, so it can be linked into the
\* free list, and it has no word of any other chunk.
LEMMA GapRoomFact ==
    ASSUME NEW f, NEW U, Pool(f, U), NEW L \in SUBSET U,
           NEW words \in SUBSET Nat, Fills(words, L),
           NEW i \in 1 .. Total, EndsGap(words, i), NEW g, g = GapBefore(words, i)
    PROVE  /\ Linkable(g)
           /\ \A c \in Chunk : c.size > 0 /\ (\A w \in words : w \notin Words(c))
                  => Apart(c, g) /\ Apart(g, c)
<1>1. MdSize \in Nat /\ Total \in Nat /\ Desc \in Nat /\ i \in Nat /\ i <= Total
  BY DescFact
<1>2. /\ g \in Chunk /\ End(g) = i /\ g.va < i
      /\ \A w \in Nat : g.va <= w /\ w < i => w \in words
      /\ i \notin words
      /\ \A w \in words : w + 1 # g.va
  <2>1. IsGap(GapBefore(words, i), words, i)
    BY GapFact
  <2> QED
    BY <2>1 DEF IsGap
<1>3. g.va \in Nat /\ g.size \in Nat /\ g.va + g.size = i
  BY <1>2, ChunkFact
<1>4. g.va \in words
  BY <1>2, <1>3
<1>5. PICK u \in L : g.va \in Words(u)
  BY <1>3, <1>4 DEF Fills
<1>6. /\ u.va \in Nat /\ u.size \in Nat /\ End(u) = u.va + u.size
      /\ MdSize <= u.va /\ Desc <= u.size
  BY ChunkFact DEF Pool, AllLinkable, Linkable
<1>7. \A w \in Nat : u.va <= w /\ w < End(u) => w \in words
  BY <1>6 DEF Fills, Words
<1>8. u.va <= g.va /\ g.va < End(u)
  BY <1>3, <1>5, <1>6 DEF Words
<1>9. u.va = g.va
  <2> SUFFICES ASSUME u.va < g.va PROVE FALSE
    BY <1>3, <1>6, <1>8
  <2>1. g.va - 1 \in Nat /\ u.va <= g.va - 1 /\ g.va - 1 < End(u) /\ (g.va - 1) + 1 = g.va
    BY <1>3, <1>6, <1>8
  <2> QED
    BY <1>2, <1>7, <2>1
<1>10. End(u) <= i
  <2> SUFFICES ASSUME i < End(u) PROVE FALSE
    BY <1>1, <1>6
  <2>1. u.va <= i
    <3>1. g.va <= i
      BY <1>1, <1>3
    <3> QED
      BY <1>9, <3>1, Zenon
  <2>2. i \in words
    <3>1. \A w \in Nat : u.va <= w /\ w < End(u) => w \in words
      BY <1>7
    <3> QED
      BY <1>1, <2>1, <3>1
  <2> QED
    BY <1>2, <2>2
<1>11. Linkable(g)
  <2>1. End(g) = i
    BY <1>2
  <2>2. u.size <= g.size
    <3>1. g.va + u.size <= g.va + g.size
      <4>1. u.va + u.size <= i
        BY <1>6, <1>10
      <4> QED
        BY <1>3, <1>9, <4>1, Zenon
    <3> QED
      BY <1>3, <1>6, <3>1
  <2>3. Desc <= g.size
    BY <1>1, <1>3, <1>6, <2>2
  <2> QED
    BY <1>1, <1>6, <1>9, <2>1, <2>3 DEF Linkable
<1>12. ASSUME NEW c \in Chunk, c.size > 0, \A w \in words : w \notin Words(c)
       PROVE  Apart(c, g) /\ Apart(g, c)
  <2>1. c.va \in Nat /\ c.size \in Nat /\ End(c) = c.va + c.size
    BY ChunkFact
  <2>2. ~ (g.va <= c.va /\ c.va < i)
    <3> SUFFICES ASSUME g.va <= c.va, c.va < i PROVE FALSE
      OBVIOUS
    <3>1. c.va \in words
      BY <1>2, <2>1
    <3>2. c.va \in Words(c)
      BY <1>12, <2>1 DEF Words
    <3> QED
      BY <1>12, <3>1, <3>2
  <2>3. ~ (c.va <= g.va /\ g.va < End(c))
    <3> SUFFICES ASSUME c.va <= g.va, g.va < End(c) PROVE FALSE
      OBVIOUS
    <3>1. g.va \in Words(c)
      BY <1>3, <2>1 DEF Words
    <3> QED
      BY <1>4, <1>12, <3>1
  <2> QED
    BY <1>1, <1>2, <1>3, <2>1, <2>2, <2>3 DEF Apart
<1> QED
  BY <1>11, <1>12

\* Two gaps are apart.
LEMMA GapsApartFact ==
    ASSUME NEW words \in SUBSET Nat, NEW i \in 1 .. Total, NEW j \in 1 .. Total,
           EndsGap(words, i), EndsGap(words, j), i # j
    PROVE  /\ Apart(GapBefore(words, i), GapBefore(words, j))
           /\ GapBefore(words, i) # GapBefore(words, j)
<1> DEFINE g == GapBefore(words, i)
           h == GapBefore(words, j)
<1>0. i \in Nat /\ j \in Nat
  BY DescFact
<1>1. /\ g \in Chunk /\ End(g) = i /\ g.va < i
      /\ \A w \in Nat : g.va <= w /\ w < i => w \in words
      /\ i \notin words
  BY GapFact DEF IsGap
<1>2. /\ h \in Chunk /\ End(h) = j /\ h.va < j
      /\ \A w \in Nat : h.va <= w /\ w < j => w \in words
      /\ j \notin words
  BY GapFact DEF IsGap
<1> HIDE DEF g, h
<1>3. g.va \in Nat /\ h.va \in Nat
  BY <1>1, <1>2, ChunkFact
<1>4. ~ (h.va <= i /\ i < j) /\ ~ (g.va <= j /\ j < i)
  BY <1>0, <1>1, <1>2
<1>5. Apart(g, h)
  BY <1>0, <1>1, <1>2, <1>3, <1>4 DEF Apart
<1>6. g # h
  BY <1>1, <1>2
<1> QED
  BY <1>5, <1>6 DEF g, h

\* The free list, the blocks that were shown and the gaps tile the pool.
LEMMA GapsPoolFact ==
    ASSUME NEW f, NEW U, Pool(f, U), NEW W \in SUBSET U,
           NEW blocks \in Seq(Chunk), ToSet(blocks) = W,
           NEW words, words = Unmarked(f, blocks)
    PROVE  Pool(f, W \union Gaps(words)) /\ \A g \in Gaps(words) : g \notin W
<1>1. words \in SUBSET Nat /\ Total \notin words /\ Fills(words, U \ W)
  BY UnmarkedFact
<1>2. MdSize \in Nat /\ Total \in Nat
  BY DescFact
<1>3. \A w : w \in words <=>
               /\ w \in MdSize .. Total - 1
               /\ \A k \in DOMAIN f : w \notin Words(f[k])
               /\ \A u \in W : w \notin Words(u)
  BY UnmarkedWords DEF Pool
<1> DEFINE G == Gaps(words)
<1>4. \A g : g \in G <=> \E i \in 1 .. Total : EndsGap(words, i) /\ g = GapBefore(words, i)
  BY DEF Gaps
<1> HIDE DEF G
<1>5. \A g \in G : /\ g \in Chunk /\ Linkable(g)
                   /\ \A c \in Chunk : c.size > 0 /\ (\A w \in words : w \notin Words(c))
                          => Apart(c, g) /\ Apart(g, c)
  <2> SUFFICES ASSUME NEW g \in G
               PROVE  /\ g \in Chunk /\ Linkable(g)
                      /\ \A c \in Chunk : c.size > 0 /\ (\A w \in words : w \notin Words(c))
                             => Apart(c, g) /\ Apart(g, c)
    OBVIOUS
  <2>1. PICK i \in 1 .. Total : EndsGap(words, i) /\ g = GapBefore(words, i)
    BY <1>4
  <2>2. U \ W \in SUBSET U
    OBVIOUS
  <2>3. g \in Chunk
    <3>1. IsGap(GapBefore(words, i), words, i)
      BY <1>1, <2>1, GapFact
    <3> QED
      BY <2>1, <3>1 DEF IsGap
  <2> QED
    BY <1>1, <2>1, <2>2, <2>3, GapRoomFact
<1>6. \A g, h \in G : g # h => Apart(g, h)
  <2> SUFFICES ASSUME NEW g \in G, NEW h \in G, g # h PROVE Apart(g, h)
    OBVIOUS
  <2>1. PICK i \in 1 .. Total : EndsGap(words, i) /\ g = GapBefore(words, i)
    BY <1>4
  <2>2. PICK j \in 1 .. Total : EndsGap(words, j) /\ h = GapBefore(words, j)
    BY <1>4
  <2> QED
    BY <1>1, <2>1, <2>2, GapsApartFact
<1>7. f \in Seq(Chunk) /\ \A k \in DOMAIN f : f[k] \in Chunk /\ f[k].size > 0
  BY ListFact, LinkableFact DEF Pool, AllLinkable
<1>8. \A u \in W : u \in Chunk /\ u.size > 0
  BY LinkableFact DEF Pool, AllLinkable
<1>9. \A g \in G : \A k \in DOMAIN f : Apart(f[k], g)
  BY <1>3, <1>5, <1>7
<1>10. \A g \in G : \A u \in W : Apart(u, g) /\ Apart(g, u)
  BY <1>3, <1>5, <1>8
<1>11. AllLinkable(f, W \union G)
  BY <1>5 DEF Pool, AllLinkable
<1>12. AllApart(f, W \union G)
  BY <1>6, <1>9, <1>10 DEF Pool, AllApart
<1>13. Covered(f, W \union G)
  <2> SUFFICES ASSUME NEW w \in MdSize .. Total - 1,
                      \A k \in DOMAIN f : w \notin Words(f[k]),
                      \A u \in W : w \notin Words(u)
               PROVE  \E g \in G : w \in Words(g)
    BY DEF Covered
  <2>1. w \in words /\ w < Total
    BY <1>2, <1>3
  <2>2. PICK i \in 1 .. Total : EndsGap(words, i) /\ w \in Words(GapBefore(words, i))
    BY <1>1, <2>1, InGapFact
  <2> QED
    BY <1>4, <2>2
<1>14. \A g \in G : g \notin W
  <2> SUFFICES ASSUME NEW g \in G, g \in W PROVE FALSE
    OBVIOUS
  <2>1. Apart(g, g) /\ g \in Chunk /\ g.size > 0
    BY <1>8, <1>10
  <2> QED
    BY <2>1, ChunkFact DEF Apart
<1>15. W \union G \subseteq Chunk
  BY <1>5, <1>8
<1> QED
  BY <1>7, <1>11, <1>12, <1>13, <1>14, <1>15 DEF Pool, G

\* The blocks of W and the gaps that end behind word i, and what the check makes
\* of the free list v when it gets to word i.
Rest(words, W, i) ==
    W \union {GapBefore(words, j) : j \in {j \in i + 1 .. Total : EndsGap(words, j)}}

Swept(words, i, v) == IF EndsGap(words, i) THEN Release(v, GapBefore(words, i)) ELSE v

Tiles(v, U) == Pool(v, U) /\ Separate(v)

\* One turn of the loop of lmc_um_find_leaks: the gap that ends here is freed.
LEMMA SweepStep ==
    ASSUME NEW words \in SUBSET Nat, NEW W, \A g \in Gaps(words) : g \notin W,
           NEW i \in 1 .. Total, NEW v, Tiles(v, Rest(words, W, i - 1))
    PROVE  Tiles(Swept(words, i, v), Rest(words, W, i))
<1>1. i \in Nat /\ Total \in Nat /\ i >= 1 /\ i <= Total
  BY DescFact
<1>2. (i - 1) + 1 .. Total = {i} \union (i + 1 .. Total) /\ i \notin i + 1 .. Total
  BY <1>1
<1>3. CASE ~ EndsGap(words, i)
  <2>1. Rest(words, W, i - 1) = Rest(words, W, i)
    <3>1. {j \in (i - 1) + 1 .. Total : EndsGap(words, j)} = {j \in i + 1 .. Total : EndsGap(words, j)}
      BY <1>2, <1>3
    <3> QED
      BY <3>1, Zenon DEF Rest
  <2> QED
    BY <1>3, <2>1 DEF Swept
<1>4. CASE EndsGap(words, i)
  <2> DEFINE g == GapBefore(words, i)
             Q == Rest(words, W, i - 1)
  <2>1. \A x : x \in Q <=> x \in W \/ \E j \in 1 .. Total : j >= i /\ EndsGap(words, j) /\ x = GapBefore(words, j)
    <3>1. \A j : j \in (i - 1) + 1 .. Total <=> j \in 1 .. Total /\ j >= i
      BY <1>1
    <3> QED
      BY <3>1 DEF Rest
  <2>2. \A x : x \in Rest(words, W, i) <=>
            x \in W \/ \E j \in 1 .. Total : j > i /\ EndsGap(words, j) /\ x = GapBefore(words, j)
    <3>1. \A j : j \in i + 1 .. Total <=> j \in 1 .. Total /\ j > i
      BY <1>1
    <3> QED
      BY <3>1 DEF Rest
  <2>3. \A j \in 1 .. Total : j > i /\ EndsGap(words, j) => GapBefore(words, j) # g
    <3> TAKE j \in 1 .. Total
    <3> HAVE j > i /\ EndsGap(words, j)
    <3>1. j # i
      BY <1>1
    <3> QED
      BY <1>4, <3>1, GapsApartFact
  <2>4. g \notin W
    BY <1>4 DEF Gaps
  <2> HIDE DEF g, Q
  <2>5. g \in Q
    BY <1>1, <1>4, <2>1 DEF g
  <2>6. \A j \in 1 .. Total : j >= i /\ ~ (j > i) => j = i
    BY <1>1
  <2>7. \A j \in 1 .. Total : j > i => j >= i
    BY <1>1
  <2>8. Q \ {g} = Rest(words, W, i)
    BY <2>1, <2>2, <2>3, <2>4, <2>6, <2>7 DEF g
  <2>9. Pool(Release(v, g), Q \ {g}) /\ Separate(Release(v, g))
    BY <2>5, ReleaseFact DEF Tiles, Q
  <2> QED
    BY <1>4, <2>8, <2>9 DEF Swept, Tiles, g
<1> QED
  BY <1>3, <1>4

\* The memory check: what it was not shown is free afterwards, and what it was
\* shown is not.
LEMMA SweepFact ==
    ASSUME NEW f, NEW U, Pool(f, U), Separate(f), NEW W \in SUBSET U,
           NEW blocks \in Seq(Chunk), ToSet(blocks) = W
    PROVE  Tiles(lmc_um_find_leaks(f, blocks), W)
<1> DEFINE words == Unmarked(f, blocks)
           Raw(w, i) == IF i = 0 THEN f
                        ELSE IF EndsGap(words, i) THEN Release(w[i - 1], GapBefore(words, i))
                        ELSE w[i - 1]
           Solves(w) == w = [i \in 0 .. Total |-> Raw(w, i)]
           swept == CHOOSE w : Solves(w)
           V == Seq(Chunk)
           step == [x \in (1 .. Total) \X V |->
                       IF Swept(words, x[1], x[2]) \in V THEN Swept(words, x[1], x[2]) ELSE f]
<1>1. lmc_um_find_leaks(f, blocks) = swept[Total]
  BY DEF lmc_um_find_leaks
<1>2. Total \in Nat
  BY DescFact
<1>3. f \in V
  BY DEF Pool
<1>4. /\ words \in SUBSET Nat
      /\ Pool(f, W \union Gaps(words))
      /\ \A g \in Gaps(words) : g \notin W
  <2>1. words = Unmarked(f, blocks)
    OBVIOUS
  <2> HIDE DEF words
  <2>2. words \in SUBSET Nat /\ Total \notin words /\ Fills(words, U \ W)
    BY <2>1, UnmarkedFact, Zenon
  <2>3. Pool(f, W \union Gaps(words)) /\ \A g \in Gaps(words) : g \notin W
    BY <2>1, GapsPoolFact, Zenon
  <2> QED
    BY <2>2, <2>3
<1> HIDE DEF words
<1>5. Tiles(f, Rest(words, W, 0)) /\ Rest(words, W, Total) = W
  <2>1. 0 + 1 .. Total = 1 .. Total /\ Total + 1 .. Total = {}
    BY <1>2
  <2>2. Rest(words, W, 0) = W \union Gaps(words)
    BY <2>1 DEF Rest, Gaps
  <2>3. Rest(words, W, Total) = W
    BY <2>1 DEF Rest
  <2> QED
    BY <1>4, <2>2, <2>3 DEF Tiles
<1>6. \A n \in 1 .. Total : \A v \in V :
          step[<<n, v>>] = IF Swept(words, n, v) \in V THEN Swept(words, n, v) ELSE f
  OBVIOUS
<1> HIDE DEF step
<1>7. PICK w \in [0 .. Total -> V] : Counts(w, Total, f, step)
  <2>1. \A n \in 1 .. Total : \A v \in V : step[<<n, v>>] \in V
    BY <1>3, <1>6
  <2> HIDE DEF V
  <2> QED
    BY <1>2, <1>3, <2>1, CountFact
<1>8. w[0] = f /\ \A n \in 1 .. Total : w[n] = step[<<n, w[n - 1]>>]
  BY <1>7 DEF Counts
<1>9. ASSUME NEW x, x[0] = f,
             \A n \in 1 .. Total : Tiles(x[n - 1], Rest(words, W, n - 1)) => x[n] = Swept(words, n, x[n - 1])
      PROVE  \A i \in 0 .. Total : Tiles(x[i], Rest(words, W, i))
  <2> DEFINE S == {i \in 0 .. Total : Tiles(x[i], Rest(words, W, i))}
  <2>1. ASSUME NEW i \in 0 .. Total, \A k \in 0 .. i - 1 : k \in S PROVE i \in S
    <3>1. CASE i = 0
      BY <1>5, <1>9, <3>1
    <3>2. CASE i # 0
      <4>1. i \in 1 .. Total /\ i - 1 \in 0 .. i - 1
        BY <1>2, <3>2
      <4>2. Tiles(x[i - 1], Rest(words, W, i - 1))
        BY <2>1, <4>1
      <4>3. Tiles(Swept(words, i, x[i - 1]), Rest(words, W, i))
        BY <1>4, <4>1, <4>2, SweepStep
      <4> QED
        BY <1>9, <4>1, <4>2, <4>3
    <3> QED
      BY <3>1, <3>2
  <2> HIDE DEF S
  <2>2. 0 .. Total \subseteq S
    BY <1>2, <2>1, UpFact
  <2> QED
    BY <2>2 DEF S
<1>10. \A n \in 1 .. Total : Tiles(w[n - 1], Rest(words, W, n - 1)) => w[n] = Swept(words, n, w[n - 1])
  <2> TAKE n \in 1 .. Total
  <2> HAVE Tiles(w[n - 1], Rest(words, W, n - 1))
  <2>1. n - 1 \in 0 .. Total
    BY <1>2
  <2>2. w[n - 1] \in V
    BY <1>7, <2>1
  <2>3. Swept(words, n, w[n - 1]) \in V
    <3>1. Tiles(Swept(words, n, w[n - 1]), Rest(words, W, n))
      BY <1>4, SweepStep
    <3> QED
      BY <3>1 DEF Tiles, Pool
  <2> HIDE DEF V
  <2> QED
    BY <1>6, <1>8, <2>2, <2>3
<1>11. \A i \in 0 .. Total : Tiles(w[i], Rest(words, W, i))
  BY <1>8, <1>9, <1>10
<1>12. Solves(w)
  <2>1. ASSUME NEW i \in 0 .. Total PROVE w[i] = Raw(w, i)
    <3>1. CASE i = 0
      BY <1>8, <3>1
    <3>2. CASE i # 0
      <4>1. i \in 1 .. Total /\ i - 1 \in 0 .. Total
        BY <1>2, <3>2
      <4>2. w[i] = Swept(words, i, w[i - 1])
        BY <1>10, <1>11, <4>1
      <4> QED
        BY <3>2, <4>2 DEF Swept
    <3> QED
      BY <3>1, <3>2
  <2>2. w = [i \in 0 .. Total |-> w[i]]
    BY <1>7
  <2> HIDE DEF Raw
  <2>3. w = [i \in 0 .. Total |-> Raw(w, i)]
    BY <2>1, <2>2
  <2> QED
    BY <2>3
<1>13. Solves(swept)
  <2> HIDE DEF Solves
  <2> QED
    BY <1>12
<1> HIDE DEF swept
<1>14. \A i \in 0 .. Total : swept[i] = Raw(swept, i)
  <2> HIDE DEF Raw
  <2>1. swept = [i \in 0 .. Total |-> Raw(swept, i)]
    BY <1>13
  <2> DEFINE r == [i \in 0 .. Total |-> Raw(swept, i)]
  <2>2. \A i \in 0 .. Total : r[i] = Raw(swept, i)
    OBVIOUS
  <2>3. swept = r
    BY <2>1
  <2> HIDE DEF r
  <2> QED
    BY <2>2, <2>3, Zenon
<1>15. swept[0] = f /\ \A n \in 1 .. Total : swept[n] = Swept(words, n, swept[n - 1])
  <2>1. 0 \in 0 .. Total /\ \A n \in 1 .. Total : n \in 0 .. Total /\ n # 0
    BY <1>2
  <2>2. swept[0] = f
    BY <1>14, <2>1
  <2>3. \A n \in 1 .. Total : swept[n] = Swept(words, n, swept[n - 1])
    BY <1>14, <2>1 DEF Swept
  <2> QED
    BY <2>2, <2>3
<1>16. \A i \in 0 .. Total : Tiles(swept[i], Rest(words, W, i))
  BY <1>9, <1>15
<1>17. Total \in 0 .. Total
  BY <1>2
<1> QED
  BY <1>1, <1>5, <1>16, <1>17 DEF swept

=============================================================================
