--------------------------- MODULE LmcBitmap_proofs ---------------------------
(***************************************************************************)
(* The bitmap of the memory check: marking sets the bits of a block and no *)
(* others, no block that shares a byte with another is accepted, although  *)
(* the search strides over most of them, and a leak is freed but for one   *)
(* byte at most.  All of it for any widths of a byte and a word and for    *)
(* any blocks, at any byte.                                                *)
(*                                                                         *)
(* The loops are functions of the bit they go on from (WalkFact), and what *)
(* they do is shown from their end (DownFact).                             *)
(***************************************************************************)
EXTENDS LmcBitmap, LmcFacts

\* The first bit of the byte of i.
ByteStart(i) == (i \div BitsOfByte) * BitsOfByte

\* What is in use comes in runs of no fewer bytes than a byte has bits: none
\* fits between a stride and the bit that is looked at behind it.
InRuns(bits) ==
    \A w \in bits : \E u \in Nat : w \in u .. u + BitsOfByte - 1 /\ u .. u + BitsOfByte - 1 \subseteq bits

BitmapInv ==
    /\ phase \in {"marking", "done", "failed"}
    /\ used \subseteq 0 .. Total - 1
    /\ InRuns(used)
    /\ MarksExact
    /\ LeaksFound

-----------------------------------------------------------------------------
LEMMA WidthFact ==
    /\ Word \in Nat \ {0} /\ BitsOfByte \in Nat \ {0}
    /\ Stride \in Nat \ {0} /\ Stride = Word * BitsOfByte
    /\ MdSize \in Nat /\ Total \in Nat /\ Stride <= MdSize /\ MdSize < Total
    /\ Desc \in Nat \ {0} /\ BitsOfByte <= Desc /\ Desc <= MdSize
<1>1. Word \in Nat \ {0} /\ BitsOfByte \in Nat \ {0}
  BY LayoutAssumption, BitmapAssumption DEF LayoutAssumption
<1>2. Word * BitsOfByte \in Nat \ {0}
  BY <1>1
<1> QED
  BY <1>1, <1>2, LayoutAssumption, BitmapAssumption DEF LayoutAssumption, Stride, Desc

\* A bit in its byte.
LEMMA ByteFact ==
    ASSUME NEW i \in Nat
    PROVE  /\ ByteStart(i) \in Nat /\ i \div BitsOfByte \in Nat
           /\ i % BitsOfByte \in Nat /\ i % BitsOfByte < BitsOfByte
           /\ i = ByteStart(i) + (i % BitsOfByte)
<1> DEFINE d == i \div BitsOfByte
           r == i % BitsOfByte
<1>1. d \in Nat /\ r \in 0 .. BitsOfByte - 1 /\ i = d * BitsOfByte + r
  BY WidthFact, DivModFact
<1>2. d * BitsOfByte \in Nat
  BY <1>1, WidthFact
<1> HIDE DEF d, r
<1>3. r \in Nat /\ r < BitsOfByte
  BY <1>1, WidthFact
<1> QED
  BY <1>1, <1>2, <1>3, Zenon DEF ByteStart, d, r

\* The bit n words further on is as far into its byte.
LEMMA FurtherFact ==
    ASSUME NEW i \in Nat, NEW n \in Nat
    PROVE  /\ n * Stride \in Nat /\ i + n * Stride \in Nat
           /\ (i \div BitsOfByte) + n * Word \in Nat
           /\ ((i \div BitsOfByte) + n * Word) * BitsOfByte = ByteStart(i) + n * Stride
           /\ (i + n * Stride) \div BitsOfByte = (i \div BitsOfByte) + n * Word
           /\ ByteStart(i + n * Stride) = ByteStart(i) + n * Stride
<1> DEFINE d == i \div BitsOfByte
           r == i % BitsOfByte
           e == ByteStart(i)
           q == d + n * Word
           s == n * Stride
<1>1. /\ d \in Nat /\ e \in Nat /\ e = d * BitsOfByte
      /\ r \in Nat /\ r < BitsOfByte /\ i = e + r
  BY ByteFact DEF ByteStart
<1>2. n * Word \in Nat /\ s \in Nat
  BY WidthFact
<1> HIDE DEF d, r, e
<1>3. q \in Nat /\ q * BitsOfByte = e + s
  <2>1. (d + n * Word) * BitsOfByte = d * BitsOfByte + (n * Word) * BitsOfByte
    BY <1>1, <1>2, WidthFact
  <2>2. (n * Word) * BitsOfByte = n * (Word * BitsOfByte)
    BY WidthFact
  <2> QED
    BY <1>1, <1>2, <2>1, <2>2, WidthFact
<1> HIDE DEF q, s
<1>4. i + s \in Nat /\ q * BitsOfByte <= i + s /\ i + s < q * BitsOfByte + BitsOfByte
  BY <1>1, <1>2, <1>3, WidthFact
<1>5. (i + s) \div BitsOfByte = q
  BY <1>3, <1>4, WidthFact, DivFact
<1>6. ByteStart(i + s) = e + s
  BY <1>3, <1>5 DEF ByteStart
<1> QED
  BY <1>2, <1>3, <1>4, <1>5, <1>6, Zenon DEF d, e, q, s

\* The words a loop strides over from bit i to the bound ee, when it does so over
\* those at the bytes A.
Passed(i, ee, A) ==
    Min({n \in 0 .. Total : ~ (i + n * Stride < ee /\ (i \div BitsOfByte) + n * Word \in A)})

\* Striding from i to j over words of a kind (those at the bytes A): all bits of
\* the bytes passed are of that kind, and j is as far into its byte as i was, so
\* that only the bits before j in the byte of j were not looked at.
LEMMA StrideFact ==
    ASSUME NEW i \in Nat, NEW ee \in Int, ee <= Total, NEW A,
           NEW j, j = i + Stride * Passed(i, ee, A)
    PROVE  /\ j \in Nat /\ i <= j
           /\ j >= ee \/ j \div BitsOfByte \notin A
           /\ j % BitsOfByte = i % BitsOfByte
           /\ ByteStart(i) <= ByteStart(j)
           /\ j # i => /\ i < ee /\ i \div BitsOfByte \in A /\ j < ee + Stride
                       /\ ByteStart(i) < ByteStart(j)
           /\ \A w \in ByteStart(i) .. ByteStart(j) - 1 : \E a \in A : w \in WordAt(a)
<1> DEFINE N == {n \in 0 .. Total :
                   ~ (i + n * Stride < ee /\ (i \div BitsOfByte) + n * Word \in A)}
           m == Min(N)
<1>1. N \in SUBSET Nat /\ N # {}
  <2>1. Total \in Nat /\ Total <= Total * Stride
    BY WidthFact
  <2>2. i + Total * Stride \in Nat
    BY WidthFact
  <2>3. ~ (i + Total * Stride < ee)
    BY <2>1, <2>2, WidthFact
  <2>4. Total \in N
    BY <2>1, <2>3
  <2> QED
    BY <2>4
<1>2. m \in N /\ \A n \in N : m <= n
  BY <1>1, MinFact
<1> HIDE DEF m
<1>3. /\ m \in 0 .. Total
      /\ ~ (i + m * Stride < ee /\ (i \div BitsOfByte) + m * Word \in A)
      /\ \A n \in 0 .. m - 1 : i + n * Stride < ee /\ (i \div BitsOfByte) + n * Word \in A
  <2>1. m \in 0 .. Total
    BY <1>2
  <2>2. \A n \in 0 .. m - 1 : n \in 0 .. Total /\ ~ (m <= n)
    BY <2>1, WidthFact
  <2> QED
    BY <1>2, <2>1, <2>2
<1>4. j = i + m * Stride /\ m \in Nat
  <2>1. m = Passed(i, ee, A)
    BY Zenon DEF m, Passed
  <2> QED
    BY <1>3, <2>1, WidthFact
<1> HIDE DEF N
<1> DEFINE s == m * Stride
<1>5. /\ j \in Nat /\ s \in Nat
      /\ j \div BitsOfByte = (i \div BitsOfByte) + m * Word
      /\ ByteStart(j) = ByteStart(i) + s
      /\ j = ByteStart(j) + (j % BitsOfByte)
      /\ i = ByteStart(i) + (i % BitsOfByte)
      /\ ByteStart(i) \in Nat /\ ByteStart(j) \in Nat
      /\ i % BitsOfByte \in Nat /\ j % BitsOfByte \in Nat
  <2>1. /\ s \in Nat /\ i + s \in Nat
        /\ (i + s) \div BitsOfByte = (i \div BitsOfByte) + m * Word
        /\ ByteStart(i + s) = ByteStart(i) + s
    BY <1>4, FurtherFact
  <2>2. j = i + s
    BY <1>4
  <2> HIDE DEF s
  <2>3. /\ j \in Nat
        /\ j \div BitsOfByte = (i \div BitsOfByte) + m * Word
        /\ ByteStart(j) = ByteStart(i) + s
    BY <2>1, <2>2, Zenon
  <2> QED
    BY <2>1, <2>3, ByteFact, Zenon
<1>6. j = i + s
  BY <1>4
<1>7. j # i => m - 1 \in 0 .. m - 1 /\ s = (m - 1) * Stride + Stride
  <2>1. m = 0 => s = 0
    BY WidthFact
  <2>2. s = (m - 1) * Stride + Stride
    BY <1>4, WidthFact
  <2>3. j # i => m # 0
    BY <1>5, <1>6, <2>1
  <2> QED
    BY <1>4, <2>2, <2>3
<1>8. j # i => i < ee /\ i \div BitsOfByte \in A
  <2> SUFFICES ASSUME j # i PROVE i < ee /\ i \div BitsOfByte \in A
    OBVIOUS
  <2>1. 0 \in 0 .. m - 1
    BY <1>4, <1>7
  <2>2. i + 0 * Stride < ee /\ (i \div BitsOfByte) + 0 * Word \in A
    BY <1>3, <2>1
  <2>3. 0 * Stride = 0 /\ 0 * Word = 0
    BY WidthFact
  <2>4. (i \div BitsOfByte) \in Nat
    BY ByteFact
  <2> QED
    BY <2>2, <2>3, <2>4
<1>9. j # i => j < ee + Stride /\ s > 0
  <2> SUFFICES ASSUME j # i PROVE j < ee + Stride /\ s > 0
    OBVIOUS
  <2> DEFINE t == (m - 1) * Stride
  <2>1. i + t < ee /\ m - 1 \in Nat
    BY <1>3, <1>4, <1>7
  <2>2. t \in Nat /\ s = t + Stride
    BY <1>7, <2>1, WidthFact
  <2> HIDE DEF s, t
  <2> QED
    BY <1>6, <2>1, <2>2, WidthFact
<1>10. ASSUME NEW w \in ByteStart(i) .. ByteStart(j) - 1 PROVE \E a \in A : w \in WordAt(a)
  <2> DEFINE x == w - ByteStart(i)
             k == x \div Stride
             a == (i \div BitsOfByte) + k * Word
  <2>1. x \in Nat /\ x < s
    BY <1>5, <1>10
  <2>2. /\ k \in Nat /\ x % Stride \in 0 .. Stride - 1
        /\ x = k * Stride + (x % Stride)
    BY <2>1, WidthFact, DivModFact
  <2> HIDE DEF x, k
  <2>3. k \in 0 .. m - 1
    <3>1. ~ (m <= k)
      <4>1. SUFFICES ASSUME m <= k PROVE FALSE
        OBVIOUS
      <4>2. m * Stride <= k * Stride
        BY <1>4, <2>2, <4>1, WidthFact
      <4> QED
        BY <1>5, <2>1, <2>2, <4>2, WidthFact
    <3> QED
      BY <1>4, <2>2, <3>1
  <2>4. a \in A
    BY <1>3, <2>3
  <2>5. a * BitsOfByte = ByteStart(i) + k * Stride
    BY <2>2, FurtherFact
  <2>6. w = ByteStart(i) + k * Stride + (x % Stride) /\ k * Stride \in Nat
    <3>1. k * Stride \in Nat
      BY <2>2, WidthFact
    <3>2. w = ByteStart(i) + x
      BY <1>5, <1>10 DEF x
    <3> DEFINE y == k * Stride
               z == x % Stride
    <3>3. y \in Nat /\ z \in Nat /\ x = y + z
      BY <2>2, <3>1, WidthFact
    <3> HIDE DEF y, z
    <3>4. w = ByteStart(i) + y + z
      BY <1>5, <3>2, <3>3
    <3> QED
      BY <3>1, <3>4 DEF y, z
  <2> HIDE DEF a
  <2>7. w \in WordAt(a)
    BY <1>5, <2>2, <2>5, <2>6, WidthFact DEF WordAt
  <2> QED
    BY <2>4, <2>7
<1> HIDE DEF s
<1>11. j >= ee \/ j \div BitsOfByte \notin A
  BY <1>3, <1>4, <1>5
<1> QED
  BY <1>5, <1>6, <1>8, <1>9, <1>10, <1>11

-----------------------------------------------------------------------------
\* Marking fills a block and nothing else, with memset or bit by bit.
LEMMA FilledFact ==
    ASSUME NEW va \in Nat, NEW size \in Nat \ {0}
    PROVE  Filled(va, size) = va .. va + size - 1
<1> DEFINE end  == va + size
           last == (end - 1) \div BitsOfByte
           fills(i) == i % BitsOfByte = 0 /\ i \div BitsOfByte < last
           Body(f, i) == IF i >= end THEN {}
                         ELSE IF fills(i)
                              THEN (i .. last * BitsOfByte) \union f[last * BitsOfByte + 1]
                              ELSE {i} \union f[i + 1]
           Solves(f) == f = [i \in 0 .. end |-> Body(f, i)]
           walk == CHOOSE f : Solves(f)
           rest == [i \in 0 .. end |-> i .. end - 1]
<1>1. Filled(va, size) = walk[va]
  BY Zenon DEF Filled
<1>2. end \in Nat /\ end - 1 \in Nat /\ va \in 0 .. end
  OBVIOUS
<1> HIDE DEF end
<1>3. /\ last \in Nat /\ last * BitsOfByte \in Nat /\ last * BitsOfByte <= end - 1
      /\ \A i \in Nat : i \div BitsOfByte < last => i < last * BitsOfByte
  <2>1. last \in Nat /\ last * BitsOfByte \in Nat /\ last * BitsOfByte <= end - 1
    <3> DEFINE e == ByteStart(end - 1)
    <3>1. last \in Nat /\ e \in Nat /\ e <= end - 1
      BY <1>2, ByteFact
    <3>2. e = last * BitsOfByte
      BY DEF ByteStart
    <3> HIDE DEF e, last
    <3> QED
      BY <3>1, <3>2
  <2> HIDE DEF last
  <2>2. ASSUME NEW i \in Nat, i \div BitsOfByte < last PROVE i < last * BitsOfByte
    <3> DEFINE d == i \div BitsOfByte
    <3>1. d \in Nat /\ i < d * BitsOfByte + BitsOfByte /\ d * BitsOfByte \in Nat
      <4>1. /\ d \in Nat /\ ByteStart(i) \in Nat /\ i % BitsOfByte \in Nat
            /\ i % BitsOfByte < BitsOfByte /\ i = ByteStart(i) + (i % BitsOfByte)
        BY ByteFact
      <4>2. ByteStart(i) = d * BitsOfByte
        BY DEF ByteStart
      <4> HIDE DEF d
      <4> QED
        BY <4>1, <4>2, WidthFact
    <3> HIDE DEF d
    <3>2. d + 1 <= last
      BY <2>1, <2>2, <3>1 DEF d
    <3>3. (d + 1) * BitsOfByte <= last * BitsOfByte
      BY <2>1, <3>1, <3>2, WidthFact
    <3>4. (d + 1) * BitsOfByte = d * BitsOfByte + BitsOfByte
      BY <3>1, WidthFact
    <3> QED
      BY <2>1, <3>1, <3>3, <3>4, WidthFact
  <2> QED
    BY <2>1, <2>2
<1> DEFINE stop == last * BitsOfByte
<1>4. stop \in Nat /\ stop <= end - 1 /\ \A i \in 0 .. end : fills(i) => i < stop
  <2> HIDE DEF last
  <2> QED
    BY <1>2, <1>3
<1> HIDE DEF last, stop, fills
\* What is left to do at i, in the three cases of the loop.
<1>5. ASSUME NEW i \in 0 .. end
      PROVE  /\ i >= end => rest[i] = {} /\ \A f : Body(f, i) = {}
             /\ i < end /\ fills(i) =>
                    /\ stop + 1 \in i + 1 .. end
                    /\ rest[i] = (i .. stop) \union rest[stop + 1]
                    /\ \A f : Body(f, i) = (i .. stop) \union f[stop + 1]
             /\ i < end /\ ~fills(i) =>
                    /\ i + 1 \in i + 1 .. end
                    /\ rest[i] = {i} \union rest[i + 1]
                    /\ \A f : Body(f, i) = {i} \union f[i + 1]
  <2>1. CASE i >= end
    <3>1. i .. end - 1 = {}
      BY <1>2, <2>1
    <3> QED
      BY <1>2, <2>1, <3>1
  <2>2. CASE i < end /\ fills(i)
    <3>1. i < stop /\ stop + 1 \in i + 1 .. end /\ ~ (i >= end)
      BY <1>2, <1>4, <2>2
    <3>2. i .. end - 1 = (i .. stop) \union (stop + 1 .. end - 1)
      BY <1>2, <1>4, <3>1
    <3>3. rest[i] = (i .. stop) \union rest[stop + 1]
      BY <1>2, <3>1, <3>2
    <3>4. \A f : Body(f, i) = (i .. stop) \union f[stop + 1]
      BY <2>2, <3>1, Zenon DEF stop
    <3> QED
      BY <2>2, <3>1, <3>3, <3>4
  <2>3. CASE i < end /\ ~fills(i)
    <3>1. i + 1 \in i + 1 .. end /\ ~ (i >= end)
      BY <1>2, <2>3
    <3>2. i .. end - 1 = {i} \union (i + 1 .. end - 1)
      BY <1>2, <2>3
    <3>3. rest[i] = {i} \union rest[i + 1]
      BY <1>2, <3>1, <3>2
    <3>4. \A f : Body(f, i) = {i} \union f[i + 1]
      BY <2>3, <3>1, Zenon
    <3> QED
      BY <2>3, <3>1, <3>3, <3>4
  <2> QED
    BY <1>2, <2>1, <2>2, <2>3
<1>6. Solves(rest)
  <2>1. ASSUME NEW i \in 0 .. end PROVE rest[i] = Body(rest, i)
    <3> HIDE DEF rest, Body
    <3>1. i >= end \/ i < end
      BY <1>2
    <3> QED
      BY <1>5, <3>1, Zenon
  <2>2. rest = [i \in 0 .. end |-> rest[i]]
    OBVIOUS
  <2> HIDE DEF rest, Body
  <2> QED
    BY <2>1, <2>2
<1>7. Solves(walk)
  <2> HIDE DEF Solves
  <2> QED
    BY <1>6, Zenon
<1> HIDE DEF walk, rest, Body
<1>8. \A i \in 0 .. end : walk[i] = Body(walk, i)
  BY <1>7
<1> DEFINE S == {i \in 0 .. end : walk[i] = rest[i]}
<1>9. ASSUME NEW i \in 0 .. end, \A k \in i + 1 .. end : k \in S PROVE i \in S
  <2>1. \A k \in i + 1 .. end : walk[k] = rest[k]
    BY <1>9
  <2>2. i >= end \/ i < end
    BY <1>2
  <2>3. walk[i] = rest[i]
    <3>1. walk[i] = Body(walk, i)
      BY <1>8, Zenon
    <3>2. CASE i >= end
      BY <1>5, <3>1, <3>2, Zenon
    <3>3. CASE i < end /\ fills(i)
      <4>1. walk[stop + 1] = rest[stop + 1] /\ Body(walk, i) = (i .. stop) \union walk[stop + 1]
        BY <1>5, <2>1, <3>3, Zenon
      <4> QED
        BY <1>5, <3>1, <3>3, <4>1, Zenon
    <3>4. CASE i < end /\ ~fills(i)
      <4>1. walk[i + 1] = rest[i + 1] /\ Body(walk, i) = {i} \union walk[i + 1]
        BY <1>5, <2>1, <3>4, Zenon
      <4> QED
        BY <1>5, <3>1, <3>4, <4>1, Zenon
    <3> QED
      BY <2>2, <3>2, <3>3, <3>4, Zenon
  <2> QED
    BY <2>3
<1>10. va \in S
  <2> HIDE DEF S
  <2>1. 0 .. end \subseteq S
    BY <1>2, <1>9, DownFact
  <2> QED
    BY <1>2, <2>1
<1> QED
  BY <1>1, <1>2, <1>10 DEF end, rest

-----------------------------------------------------------------------------
\* Looking for a bit that is set, from i on: the bit j behind the strides.
LEMMA ZeroesFact ==
    ASSUME NEW i \in Nat, NEW ee \in Int, ee <= Total,
           NEW j, j = Strided(i, ee, Zeroes)
    PROVE  /\ j \in Nat /\ i <= j
           /\ j # i => j < ee + Stride /\ ByteStart(j) - 1 \notin bf
           /\ j - ByteStart(j) < BitsOfByte /\ ByteStart(j) <= j
           /\ \A w \in ByteStart(i) .. ByteStart(j) - 1 : w \notin bf
<1> DEFINE A == {a \in Nat : Zeroes(WordAt(a))}
           N == {n \in 0 .. Total :
                   ~ (i + n * Stride < ee /\ (i \div BitsOfByte) + n * Word \in A)}
           M == {n \in 0 .. Total :
                   ~ (i + n * Stride < ee /\ Zeroes(WordAt((i \div BitsOfByte) + n * Word)))}
<1>1. N = M
  <2>1. ASSUME NEW n \in 0 .. Total PROVE (i \div BitsOfByte) + n * Word \in Nat
    BY FurtherFact, WidthFact
  <2> QED
    BY <2>1
<1>2. j = i + Stride * Min(M)
  BY Zenon DEF Strided
<1>3. j = i + Stride * Passed(i, ee, A)
  BY <1>1, <1>2, Zenon DEF Passed
<1> HIDE DEF M, N
<1>4. /\ j \in Nat /\ i <= j
      /\ ByteStart(i) <= ByteStart(j)
      /\ j # i => j < ee + Stride /\ ByteStart(i) < ByteStart(j)
      /\ \A w \in ByteStart(i) .. ByteStart(j) - 1 : \E a \in A : w \in WordAt(a)
  <2> HIDE DEF A
  <2> QED
    BY <1>3, StrideFact
<1>5. \A w \in ByteStart(i) .. ByteStart(j) - 1 : w \notin bf
  BY <1>4 DEF Zeroes
<1>6. /\ ByteStart(i) \in Nat /\ ByteStart(j) \in Nat /\ j % BitsOfByte \in Nat
      /\ j % BitsOfByte < BitsOfByte /\ j = ByteStart(j) + (j % BitsOfByte)
  BY <1>4, ByteFact
<1>7. ByteStart(i) < ByteStart(j) => ByteStart(j) - 1 \in ByteStart(i) .. ByteStart(j) - 1
  BY <1>6
<1>8. j - ByteStart(j) < BitsOfByte /\ ByteStart(j) <= j
  BY <1>4, <1>6, WidthFact
<1> QED
  BY <1>4, <1>5, <1>7, <1>8, Zenon

\* f is the search of a block that ends at end, as it goes on from each bit.
Searches(f, end) ==
    \A i \in 0 .. end :
        /\ i >= end => f[i] = {}
        /\ i < end => LET j == Strided(i, end - Stride, Zeroes) IN f[i] = {j} \union f[j + 1]

\* There is such a function, and it is what the search is made of.
LEMMA LookedFact ==
    ASSUME NEW va \in Nat, NEW size \in Nat, NEW end, end = va + size, end <= Total
    PROVE  \E f : Looked(va, size) = f[va] /\ Searches(f, end)
<1> DEFINE Body(f, i) == IF i >= end THEN {}
                         ELSE LET j == Strided(i, end - Stride, Zeroes) IN {j} \union f[j + 1]
           Solves(f) == f = [i \in 0 .. end |-> Body(f, i)]
           walk == CHOOSE f : Solves(f)
           z == [i \in 0 .. end |-> Strided(i, end - Stride, Zeroes)]
           next == [i \in 0 .. end |-> z[i] + 1]
           V == SUBSET Int
           step == [x \in (0 .. end) \X V |-> {z[x[1]]} \union x[2]]
<1>1. Looked(va, size) = walk[va]
  BY Zenon DEF Looked
<1>2. end \in Nat /\ end \in 0 .. end /\ end - Stride \in Int /\ end - Stride <= Total
  BY WidthFact
<1>3. ASSUME NEW i \in 0 .. end, i < end
      PROVE  z[i] \in Nat /\ i <= z[i] /\ z[i] < end
  <2> DEFINE j == Strided(i, end - Stride, Zeroes)
  <2>1. z[i] = j
    OBVIOUS
  <2> HIDE DEF z, j
  <2>2. j \in Nat /\ i <= j /\ (j # i => j < (end - Stride) + Stride)
    BY <1>2, ZeroesFact DEF j
  <2> QED
    BY <1>2, <1>3, <2>1, <2>2, WidthFact
<1>4. \A i \in 0 .. end : z[i] = Strided(i, end - Stride, Zeroes)
  OBVIOUS
<1> HIDE DEF z
<1>5. \A i \in 0 .. end : i < end => next[i] \in i + 1 .. end
  BY <1>2, <1>3
<1>6. /\ \A i \in 0 .. end : next[i] = z[i] + 1
      /\ \A i \in 0 .. end : \A v \in V : step[<<i, v>>] = {z[i]} \union v
  OBVIOUS
<1> HIDE DEF next, step
<1>7. {} \in V /\ \A i \in 0 .. end : \A v \in V : i < end => step[<<i, v>>] \in V
  <2>1. \A i \in 0 .. end : i < end => z[i] \in Int
    BY <1>3
  <2>2. ASSUME NEW i \in 0 .. end, NEW v \in V, i < end PROVE step[<<i, v>>] \in V
    <3>1. step[<<i, v>>] = {z[i]} \union v
      BY <1>6, Zenon
    <3>2. {z[i]} \union v \in V
      BY <2>1, <2>2
    <3> QED
      BY <3>1, <3>2, Zenon
  <2> QED
    BY <2>2
<1> HIDE DEF V
<1>8. PICK f \in [0 .. end -> V] : Follows(f, end, end, {}, next, step)
  <2>1. IsLoop(end, end, V, {}, next, step)
    BY <1>2, <1>5, <1>7 DEF IsLoop
  <2> QED
    BY <2>1, WalkFact
<1>9. \A i \in 0 .. end : f[i] = IF i >= end THEN {} ELSE step[<<i, f[next[i]]>>]
  BY <1>8 DEF Follows
<1>10. \A i \in 0 .. end : f[i] = Body(f, i)
  <2> TAKE i \in 0 .. end
  <2>1. CASE i >= end
    BY <1>9, <2>1
  <2>2. CASE i < end
    <3>1. ~ (i >= end)
      BY <1>2, <2>2
    <3>2. f[next[i]] \in V
      BY <1>2, <1>5, <1>8, <2>2
    <3>3. f[i] = {z[i]} \union f[z[i] + 1]
      <4>1. f[i] = step[<<i, f[next[i]]>>] /\ next[i] = z[i] + 1
        BY <1>6, <1>9, <3>1, Zenon
      <4>2. step[<<i, f[next[i]]>>] = {z[i]} \union f[next[i]]
        BY <1>6, <3>2, Zenon
      <4> QED
        BY <4>1, <4>2, Zenon
    <3>4. Body(f, i) = {z[i]} \union f[z[i] + 1]
      BY <1>4, <3>1, Zenon
    <3> QED
      BY <3>3, <3>4
  <2> QED
    BY <1>2, <2>1, <2>2
<1>11. Solves(f)
  <2> HIDE DEF Body
  <2>1. f = [i \in 0 .. end |-> f[i]]
    BY <1>8
  <2> QED
    BY <1>10, <2>1
<1>12. Solves(walk)
  <2> HIDE DEF Solves
  <2> QED
    BY <1>11, Zenon
<1> HIDE DEF walk
<1>13. \A i \in 0 .. end : walk[i] = Body(walk, i)
  <2> HIDE DEF Body
  <2> QED
    BY <1>12
<1>14. ASSUME NEW i \in 0 .. end
       PROVE  /\ i >= end => walk[i] = {}
              /\ i < end => LET j == Strided(i, end - Stride, Zeroes)
                            IN  walk[i] = {j} \union walk[j + 1]
  <2>1. i < end => ~ (i >= end)
    BY <1>2
  <2> QED
    BY <1>13, <2>1, Zenon
<1> QED
  BY <1>1, <1>14, Zenon DEF Searches

\* A block passes exactly if none of its bits is set: the strides pass no run
\* without coming to the bit behind them, if that is in it.
LEMMA UnmarkedFact ==
    ASSUME NEW va \in Nat, NEW size \in Nat, va + size <= Total, InRuns(bf)
    PROVE  lmc_um_check_unmarked(va, size) <=> (va .. va + size - 1) \intersect bf = {}
<1> DEFINE end == va + size
<1>1. end \in Nat /\ va \in 0 .. end /\ end - Stride \in Int /\ end - Stride <= Total
  BY WidthFact
<1>2. PICK f : Looked(va, size) = f[va] /\ Searches(f, end)
  BY LookedFact
<1> HIDE DEF end
<1> DEFINE S == {i \in 0 .. end : /\ f[i] \subseteq i .. end - 1
                                  /\ f[i] \intersect bf = {} => (i .. end - 1) \intersect bf = {}}
<1>3. ASSUME NEW i \in 0 .. end, \A k \in i + 1 .. end : k \in S PROVE i \in S
  <2>1. CASE i >= end
    BY <1>1, <1>2, <2>1 DEF Searches
  <2>2. CASE i < end
    <3> DEFINE j == Strided(i, end - Stride, Zeroes)
               b == ByteStart(j)
    <3>1. f[i] = {j} \union f[j + 1]
      BY <1>2, <2>2, Zenon DEF Searches
    <3>2. /\ j \in Nat /\ i <= j
          /\ j # i => j < (end - Stride) + Stride /\ b - 1 \notin bf
          /\ j - b < BitsOfByte /\ b <= j
          /\ \A w \in ByteStart(i) .. b - 1 : w \notin bf
      BY <1>1, ZeroesFact
    <3> HIDE DEF j
    <3>3. b \in Nat /\ ByteStart(i) \in Nat /\ ByteStart(i) <= i
      <4>1. /\ ByteStart(i) \in Nat /\ i = ByteStart(i) + (i % BitsOfByte)
            /\ i % BitsOfByte \in Nat
        BY ByteFact
      <4> QED
        BY <3>2, <4>1, ByteFact
    <3> HIDE DEF b
    <3>4. j < end /\ j + 1 \in i + 1 .. end
      BY <1>1, <2>2, <3>2, WidthFact
    <3>5. /\ f[j + 1] \subseteq j + 1 .. end - 1
          /\ f[j + 1] \intersect bf = {} => (j + 1 .. end - 1) \intersect bf = {}
      BY <1>3, <3>4
    <3>6. ASSUME j \notin bf, NEW w \in i .. j - 1 PROVE w \notin bf
      <4>1. CASE w < b
        <5>1. w \in ByteStart(i) .. b - 1
          BY <3>2, <3>3, <4>1
        <5> QED
          BY <3>2, <5>1
      <4>2. CASE w >= b
        <5>1. SUFFICES ASSUME w \in bf PROVE FALSE
          OBVIOUS
        <5>2. PICK u \in Nat : w \in u .. u + BitsOfByte - 1 /\ u .. u + BitsOfByte - 1 \subseteq bf
          BY <5>1 DEF InRuns
        <5>3. b - 1 \notin bf
          BY <3>2, <3>6
        <5>4. ~ (u < b)
          <6>1. u < b => b - 1 \in u .. u + BitsOfByte - 1
            BY <3>3, <4>2, <5>2, WidthFact
          <6> QED
            BY <5>2, <5>3, <6>1
        <5>5. j \in u .. u + BitsOfByte - 1
          BY <3>2, <3>3, <3>6, <5>2, <5>4, WidthFact
        <5> QED
          BY <3>6, <5>2, <5>5
      <4> QED
        BY <3>2, <3>3, <4>1, <4>2
    <3>7. f[i] \subseteq i .. end - 1
      BY <1>1, <3>1, <3>2, <3>4, <3>5
    <3>8. ASSUME f[i] \intersect bf = {}, NEW w \in i .. end - 1 PROVE w \notin bf
      <4>1. j \notin bf /\ f[j + 1] \intersect bf = {}
        BY <3>1, <3>8
      <4>2. w \in i .. j - 1 \/ w = j \/ w \in j + 1 .. end - 1
        BY <1>1, <3>2, <3>8
      <4> QED
        BY <3>5, <3>6, <4>1, <4>2
    <3> QED
      BY <3>7, <3>8
  <2> QED
    BY <1>1, <2>1, <2>2
<1>4. va \in S
  <2> HIDE DEF S
  <2>1. 0 .. end \subseteq S
    BY <1>1, <1>3, DownFact
  <2> QED
    BY <1>1, <2>1
<1>5. /\ f[va] \subseteq va .. end - 1
      /\ f[va] \intersect bf = {} => (va .. end - 1) \intersect bf = {}
  BY <1>4
<1> QED
  BY <1>2, <1>5 DEF lmc_um_check_unmarked, end

-----------------------------------------------------------------------------
\* Looking for a bit that is not set, from i on.
LEMMA OnesFact ==
    ASSUME NEW i \in Nat, NEW ee \in Int, ee <= Total,
           NEW j, j = Strided(i, ee, Ones)
    PROVE  /\ j \in Nat /\ i <= j
           /\ j >= ee \/ ~Ones(WordAt(j \div BitsOfByte))
           /\ j % BitsOfByte = i % BitsOfByte
           /\ j # i => /\ i < ee /\ Ones(WordAt(i \div BitsOfByte)) /\ j < ee + Stride
                       /\ ByteStart(j) - 1 \in bf
           /\ \A w \in ByteStart(i) .. ByteStart(j) - 1 : w \in bf
<1> DEFINE A == {a \in Nat : Ones(WordAt(a))}
           N == {n \in 0 .. Total :
                   ~ (i + n * Stride < ee /\ (i \div BitsOfByte) + n * Word \in A)}
           M == {n \in 0 .. Total :
                   ~ (i + n * Stride < ee /\ Ones(WordAt((i \div BitsOfByte) + n * Word)))}
<1>1. N = M
  <2>1. ASSUME NEW n \in 0 .. Total PROVE (i \div BitsOfByte) + n * Word \in Nat
    BY FurtherFact, WidthFact
  <2> QED
    BY <2>1
<1>2. j = i + Stride * Min(M)
  BY Zenon DEF Strided
<1>3. j = i + Stride * Passed(i, ee, A)
  BY <1>1, <1>2, Zenon DEF Passed
<1> HIDE DEF M, N
<1>4. /\ j \in Nat /\ i <= j
      /\ j >= ee \/ j \div BitsOfByte \notin A
      /\ j % BitsOfByte = i % BitsOfByte
      /\ ByteStart(i) <= ByteStart(j)
      /\ j # i => /\ i < ee /\ i \div BitsOfByte \in A /\ j < ee + Stride
                  /\ ByteStart(i) < ByteStart(j)
      /\ \A w \in ByteStart(i) .. ByteStart(j) - 1 : \E a \in A : w \in WordAt(a)
  <2> HIDE DEF A
  <2> QED
    BY <1>3, StrideFact
<1>5. \A w \in ByteStart(i) .. ByteStart(j) - 1 : w \in bf
  BY <1>4 DEF Ones
<1>6. ByteStart(i) \in Nat /\ ByteStart(j) \in Nat /\ j \div BitsOfByte \in Nat
  BY <1>4, ByteFact
<1>7. ByteStart(i) < ByteStart(j) => ByteStart(j) - 1 \in ByteStart(i) .. ByteStart(j) - 1
  BY <1>6
<1>8. j >= ee \/ ~Ones(WordAt(j \div BitsOfByte))
  BY <1>4, <1>6
<1> QED
  BY <1>4, <1>5, <1>7, <1>8, Zenon

\* A gap ends at a bit that is set or at the end of the pool.
LEMMA GapFact ==
    ASSUME NEW j \in Nat, j < Total, j \notin bf
    PROVE  /\ GapEnd(j) \in j + 1 .. Total
           /\ GapEnd(j) = Total \/ GapEnd(j) \in bf
           /\ \A w \in j .. GapEnd(j) - 1 : w \notin bf
<1> DEFINE N == {i \in j .. Total : i \in bf \/ i = Total}
           e == Min(N)
<1>1. N \in SUBSET Nat /\ Total \in N
  BY WidthFact
<1>2. e \in N /\ \A i \in N : e <= i
  BY <1>1, MinFact
<1>3. GapEnd(j) = e
  BY Zenon DEF GapEnd
<1> HIDE DEF e
<1>4. e \in j .. Total /\ (e \in bf \/ e = Total)
  BY <1>2
<1>5. \A w \in j .. e - 1 : w \in j .. Total /\ ~ (e <= w)
  BY <1>4, WidthFact
<1>6. \A w \in j .. e - 1 : w \notin bf
  BY <1>2, <1>5
<1>7. e # j
  BY <1>4, WidthFact
<1> QED
  BY <1>3, <1>4, <1>6, <1>7, WidthFact

\* f is the search for leaks, as it goes on from each bit.
Finds(f) ==
    \A i \in 0 .. Total + 1 :
        /\ i >= Total => f[i] = <<>>
        /\ i < Total =>
               LET j == Strided(i, Total - Stride, Ones)
               IN  /\ j \in bf => f[i] = f[j + 1]
                   /\ j \notin bf =>
                          f[i] = <<[va |-> j, size |-> GapEnd(j) - j]>> \o f[GapEnd(j) + 1]

\* Where the search is after a bit below the end of the pool: at j, and then
\* behind j or behind the gap that starts there.
LEMMA GoesOnFact ==
    ASSUME NEW i \in 0 .. Total + 1, i < Total, NEW j, j = Strided(i, Total - Stride, Ones)
    PROVE  /\ j \in Nat /\ i <= j /\ j < Total
           /\ j + 1 \in i + 1 .. Total + 1
           /\ j \notin bf => GapEnd(j) + 1 \in i + 1 .. Total + 1 /\ GapEnd(j) - j \in Nat
<1> DEFINE ee == Total - Stride
<1>1. i \in Nat /\ ee \in Int /\ ee <= Total /\ ee + Stride = Total
  BY WidthFact
<1>2. j \in Nat /\ i <= j /\ (j # i => j < Total)
  <2> HIDE DEF ee
  <2>1. j = Strided(i, ee, Ones)
    BY Zenon DEF ee
  <2> QED
    BY <1>1, <2>1, OnesFact
<1>3. j < Total
  BY <1>1, <1>2, WidthFact
<1>4. j \notin bf => GapEnd(j) \in j + 1 .. Total
  BY <1>2, <1>3, GapFact
<1> QED
  BY <1>1, <1>2, <1>3, <1>4, WidthFact

LEMMA FindsFact == \E f : Leaks = f[0] /\ Finds(f)
<1> DEFINE last == Total + 1
           z == [i \in 0 .. last |-> Strided(i, Total - Stride, Ones)]
           gap == [i \in 0 .. last |-> [va |-> z[i], size |-> GapEnd(z[i]) - z[i]]]
           Body(f, i) == IF i >= Total THEN <<>>
                         ELSE LET j == Strided(i, Total - Stride, Ones)
                              IN  IF j \in bf THEN f[j + 1]
                                  ELSE <<[va |-> j, size |-> GapEnd(j) - j]>> \o f[GapEnd(j) + 1]
           Solves(f) == f = [i \in 0 .. last |-> Body(f, i)]
           walk == CHOOSE f : Solves(f)
           next == [i \in 0 .. last |-> IF z[i] \in bf THEN z[i] + 1 ELSE GapEnd(z[i]) + 1]
           V == Seq(Chunk)
           step == [x \in (0 .. last) \X V |-> IF z[x[1]] \in bf THEN x[2] ELSE <<gap[x[1]]>> \o x[2]]
<1>1. Leaks = walk[0]
  BY Zenon DEF Leaks
<1>2. last \in Nat /\ Total \in 0 .. last /\ Total \in Nat
  BY WidthFact
<1>3. ASSUME NEW i \in 0 .. last, i < Total
      PROVE  /\ z[i] \in Nat
             /\ z[i] + 1 \in i + 1 .. last
             /\ z[i] \notin bf => /\ GapEnd(z[i]) + 1 \in i + 1 .. last
                                  /\ GapEnd(z[i]) - z[i] \in Nat
  <2> DEFINE j == Strided(i, Total - Stride, Ones)
  <2>1. z[i] = j
    OBVIOUS
  <2>2. i \in 0 .. Total + 1
    OBVIOUS
  <2> HIDE DEF z
  <2>3. /\ j \in Nat /\ j + 1 \in i + 1 .. Total + 1
        /\ j \notin bf => GapEnd(j) + 1 \in i + 1 .. Total + 1 /\ GapEnd(j) - j \in Nat
    BY <1>3, <2>2, GoesOnFact
  <2> HIDE DEF j
  <2> QED
    BY <2>1, <2>3
<1>4. \A i \in 0 .. last : z[i] = Strided(i, Total - Stride, Ones)
  OBVIOUS
<1>5. \A i \in 0 .. last : gap[i] = [va |-> z[i], size |-> GapEnd(z[i]) - z[i]]
  OBVIOUS
<1> HIDE DEF z, gap, last
<1>6. /\ \A i \in 0 .. last : next[i] = IF z[i] \in bf THEN z[i] + 1 ELSE GapEnd(z[i]) + 1
      /\ \A i \in 0 .. last : \A v \in V :
             step[<<i, v>>] = IF z[i] \in bf THEN v ELSE <<gap[i]>> \o v
  OBVIOUS
<1> HIDE DEF next, step
<1>7. \A i \in 0 .. last : i < Total => next[i] \in i + 1 .. last
  BY <1>3, <1>6
<1>8. ASSUME NEW i \in 0 .. last, NEW v \in V, i < Total PROVE step[<<i, v>>] \in V
  <2>1. step[<<i, v>>] = IF z[i] \in bf THEN v ELSE <<gap[i]>> \o v
    BY <1>6, Zenon
  <2>2. z[i] \notin bf => gap[i] \in Chunk
    <3>1. z[i] \notin bf => [va |-> z[i], size |-> GapEnd(z[i]) - z[i]] \in Chunk
      BY <1>3, <1>8 DEF Chunk
    <3> QED
      BY <1>5, <3>1, Zenon
  <2>3. z[i] \notin bf => <<gap[i]>> \o v \in V
    BY <2>2, PutFirstFact
  <2> QED
    BY <2>1, <2>3, Zenon
<1>9. <<>> \in V
  OBVIOUS
<1> HIDE DEF V
<1>10. PICK f \in [0 .. last -> V] : Follows(f, last, Total, <<>>, next, step)
  <2>1. IsLoop(last, Total, V, <<>>, next, step)
    BY <1>2, <1>7, <1>8, <1>9 DEF IsLoop
  <2> QED
    BY <2>1, WalkFact
<1>11. \A i \in 0 .. last : f[i] = IF i >= Total THEN <<>> ELSE step[<<i, f[next[i]]>>]
  BY <1>10 DEF Follows
<1>12. \A i \in 0 .. last : f[i] = Body(f, i)
  <2> TAKE i \in 0 .. last
  <2>1. CASE i >= Total
    BY <1>11, <2>1
  <2>2. CASE i < Total
    <3>1. ~ (i >= Total)
      BY <1>2, <2>2
    <3>2. f[next[i]] \in V
      BY <1>2, <1>7, <1>10, <2>2
    <3>3. f[i] = step[<<i, f[next[i]]>>]
      BY <1>11, <3>1, Zenon
    <3>4. f[i] = IF z[i] \in bf THEN f[next[i]] ELSE <<gap[i]>> \o f[next[i]]
      BY <1>6, <3>2, <3>3, Zenon
    <3>5. Body(f, i) = IF z[i] \in bf THEN f[z[i] + 1]
                       ELSE <<[va |-> z[i], size |-> GapEnd(z[i]) - z[i]]>> \o f[GapEnd(z[i]) + 1]
      BY <1>4, <3>1, Zenon
    <3> QED
      BY <1>5, <1>6, <3>4, <3>5, Zenon
  <2> QED
    BY <1>2, <2>1, <2>2
<1>13. Solves(f)
  <2> HIDE DEF Body
  <2>1. f = [i \in 0 .. last |-> f[i]]
    BY <1>10
  <2> QED
    BY <1>12, <2>1
<1>14. Solves(walk)
  <2> HIDE DEF Solves
  <2> QED
    BY <1>13, Zenon
<1> HIDE DEF walk
<1>15. \A i \in 0 .. last : walk[i] = Body(walk, i)
  <2> HIDE DEF Body
  <2> QED
    BY <1>14
<1>16. ASSUME NEW i \in 0 .. last
       PROVE  /\ i >= Total => walk[i] = <<>>
              /\ i < Total =>
                     LET j == Strided(i, Total - Stride, Ones)
                     IN  /\ j \in bf => walk[i] = walk[j + 1]
                         /\ j \notin bf =>
                                walk[i] = <<[va |-> j, size |-> GapEnd(j) - j]>> \o walk[GapEnd(j) + 1]
  <2>1. i < Total => ~ (i >= Total)
    BY <1>2
  <2> QED
    BY <1>15, <2>1, Zenon
<1> QED
  BY <1>1, <1>16, Zenon DEF Finds, last

\* From i the search can stride past no more than one bit it has not looked at:
\* it strides no more, or it is at one of the first two bits of a byte, or the
\* word is not all ones.
Aligned(i) ==
    i >= Total - Stride \/ i % BitsOfByte <= 1 \/ ~Ones(WordAt(i \div BitsOfByte))

\* So it is behind a bit at which striding stopped, and behind a gap.
LEMMA AlignedFact ==
    ASSUME NEW j \in Nat
    PROVE  /\ j >= Total - Stride \/ ~Ones(WordAt(j \div BitsOfByte)) => Aligned(j + 1)
           /\ j > 0 /\ j - 1 \notin bf => Aligned(j + 1)
<1> DEFINE q == (j + 1) \div BitsOfByte
           b == ByteStart(j + 1)
           r == (j + 1) % BitsOfByte
<1>1. /\ q \in Nat /\ b \in Nat /\ r \in Nat /\ r < BitsOfByte /\ j + 1 = b + r
  BY ByteFact
<1>2. b = q * BitsOfByte
  BY DEF ByteStart
<1>3. Aligned(j + 1) <=> j + 1 >= Total - Stride \/ r <= 1 \/ ~Ones(WordAt(q))
  BY DEF Aligned
<1> HIDE DEF q, b, r
<1>4. ASSUME r > 1 PROVE j \div BitsOfByte = q
  <2>1. b <= j /\ j < b + BitsOfByte
    BY <1>1, <1>4, WidthFact
  <2> QED
    BY <1>1, <1>2, <2>1, WidthFact, DivFact
<1>5. ASSUME r > 1, j > 0, j - 1 \notin bf PROVE ~Ones(WordAt(q))
  <2>1. BitsOfByte <= Stride
    BY WidthFact
  <2>2. j - 1 \in b .. b + Stride - 1
    BY <1>1, <1>5, <2>1, WidthFact
  <2>3. j - 1 \in WordAt(q)
    BY <1>2, <2>2 DEF WordAt
  <2> QED
    BY <1>5, <2>3 DEF Ones
<1>6. j >= Total - Stride => j + 1 >= Total - Stride
  BY WidthFact
<1>7. r <= 1 \/ r > 1
  BY <1>1
<1> QED
  BY <1>3, <1>4, <1>5, <1>6, <1>7, Zenon

\* What the search frees is not in use, and of a gap it misses the first byte at
\* most: the one before the bit at which it stops in the middle of a word.
LEMMA LeaksFact ==
    /\ Leaks \in Seq(Chunk)
    /\ \A c \in ToSet(Leaks) : Words(c) \intersect bf = {}
    /\ \A w \in 0 .. Total - 1 : w \in bf \/ w - 1 \in bf \/ \E c \in ToSet(Leaks) : w \in Words(c)
<1> DEFINE last == Total + 1
           Found(s, w) == w \in bf \/ w - 1 \in bf \/ \E c \in ToSet(s) : w \in Words(c)
<1>1. PICK f : Leaks = f[0] /\ Finds(f)
  BY FindsFact
<1> DEFINE S == {i \in 0 .. last : /\ f[i] \in Seq(Chunk)
                                   /\ \A c \in ToSet(f[i]) : Words(c) \intersect bf = {}
                                   /\ Aligned(i) => \A w \in i .. Total - 1 : Found(f[i], w)}
<1>2. last \in Nat /\ Total \in Nat /\ Total - Stride \in Int /\ Total - Stride <= Total
  BY WidthFact
<1>3. ASSUME NEW i \in 0 .. last, \A k \in i + 1 .. last : k \in S PROVE i \in S
  <2>1. CASE i >= Total
    <3>1. f[i] = <<>>
      BY <1>1, <2>1 DEF Finds
    <3>2. <<>> \in Seq(Chunk) /\ ToSet(<<>>) = {}
      BY DEF ToSet
    <3>3. i .. Total - 1 = {}
      BY <1>2, <2>1
    <3> QED
      BY <3>1, <3>2, <3>3
  <2>2. CASE i < Total
    <3> DEFINE j == Strided(i, Total - Stride, Ones)
               b == ByteStart(j)
               c == [va |-> j, size |-> GapEnd(j) - j]
    <3>1. /\ j \in bf => f[i] = f[j + 1]
          /\ j \notin bf => f[i] = <<c>> \o f[GapEnd(j) + 1]
      BY <1>1, <2>2, Zenon DEF Finds
    <3>2. /\ j \in Nat /\ i <= j /\ j < Total
          /\ j + 1 \in i + 1 .. last
          /\ j \notin bf => GapEnd(j) + 1 \in i + 1 .. last /\ GapEnd(j) - j \in Nat
      BY <2>2, GoesOnFact
    <3>3. /\ j >= Total - Stride \/ ~Ones(WordAt(j \div BitsOfByte))
          /\ j % BitsOfByte = i % BitsOfByte
          /\ j # i => i < Total - Stride /\ Ones(WordAt(i \div BitsOfByte)) /\ b - 1 \in bf
          /\ \A w \in ByteStart(i) .. b - 1 : w \in bf
      <4> DEFINE ee == Total - Stride
      <4>1. i \in Nat /\ ee \in Int /\ ee <= Total
        BY <1>2
      <4>2. j = Strided(i, ee, Ones)
        OBVIOUS
      <4> HIDE DEF j, ee
      <4>3. /\ j >= ee \/ ~Ones(WordAt(j \div BitsOfByte))
            /\ j % BitsOfByte = i % BitsOfByte
            /\ j # i => /\ i < ee /\ Ones(WordAt(i \div BitsOfByte)) /\ j < ee + Stride
                        /\ b - 1 \in bf
            /\ \A w \in ByteStart(i) .. b - 1 : w \in bf
        BY <4>1, <4>2, OnesFact
      <4> QED
        BY <4>3, Zenon DEF ee
    <3> HIDE DEF j
    <3>4. /\ b \in Nat /\ j = b + (j % BitsOfByte) /\ j % BitsOfByte \in Nat
          /\ ByteStart(i) \in Nat /\ ByteStart(i) <= i
      <4>1. /\ ByteStart(i) \in Nat /\ i = ByteStart(i) + (i % BitsOfByte)
            /\ i % BitsOfByte \in Nat
        BY ByteFact
      <4> QED
        BY <3>2, <4>1, ByteFact
    <3> HIDE DEF b
    <3>5. ASSUME Aligned(i), NEW w \in i .. j - 1 PROVE w \in bf \/ w - 1 \in bf
      <4>1. j # i
        BY <3>2, <3>5
      <4>2. i % BitsOfByte <= 1
        BY <1>2, <3>3, <3>5, <4>1 DEF Aligned
      <4>3. j <= b + 1
        BY <3>3, <3>4, <4>2
      <4>4. w < b \/ w = b
        BY <3>2, <3>4, <3>5, <4>3
      <4>5. CASE w < b
        <5>1. w \in ByteStart(i) .. b - 1
          BY <3>2, <3>4, <3>5, <4>5
        <5> QED
          BY <3>3, <5>1
      <4> QED
        BY <3>3, <4>1, <4>4, <4>5
    <3>6. CASE j \in bf
      <4>1. j + 1 \in S /\ f[i] = f[j + 1]
        BY <1>3, <3>1, <3>2, <3>6
      <4>2. Aligned(j + 1)
        BY <3>2, <3>3, AlignedFact
      <4>3. ASSUME Aligned(i), NEW w \in i .. Total - 1 PROVE Found(f[i], w)
        <5>1. w \in i .. j - 1 \/ w = j \/ w \in j + 1 .. Total - 1
          BY <1>2, <3>2, <4>3
        <5> QED
          BY <3>5, <3>6, <4>1, <4>2, <4>3, <5>1
      <4> HIDE DEF Found
      <4> QED
        BY <4>1, <4>3
    <3>7. CASE j \notin bf
      <4> DEFINE e == GapEnd(j)
                 t == f[e + 1]
      <4>1. e \in j + 1 .. Total /\ (e = Total \/ e \in bf) /\ \A w \in j .. e - 1 : w \notin bf
        BY <3>2, <3>7, GapFact
      <4>2. e + 1 \in S /\ f[i] = <<c>> \o t
        BY <1>3, <3>1, <3>2, <3>7
      <4>3. c \in Chunk /\ Words(c) = j .. e - 1
        BY <3>2, <3>7, <4>1 DEF Chunk, Words, End
      <4> HIDE DEF e, c, t
      <4>4. t \in Seq(Chunk) /\ (\A d \in ToSet(t) : Words(d) \intersect bf = {})
        BY <4>2 DEF t
      <4>5. f[i] \in Seq(Chunk) /\ ToSet(f[i]) = {c} \union ToSet(t)
        <5> DEFINE s == <<c>> \o t
        <5>1. /\ s \in Seq(Chunk) /\ Len(s) = Len(t) + 1 /\ s[1] = c
              /\ \A k \in 1 .. Len(t) : s[k + 1] = t[k]
          BY <4>3, <4>4, PutFirstFact
        <5>2. f[i] = s
          BY <4>2
        <5> HIDE DEF s
        <5>3. DOMAIN s = 1 .. Len(t) + 1 /\ DOMAIN t = 1 .. Len(t) /\ Len(t) \in Nat
          BY <4>4, <5>1
        <5>4. ASSUME NEW k \in DOMAIN s PROVE s[k] \in {c} \union ToSet(t)
          <6>1. CASE k = 1
            BY <5>1, <6>1
          <6>2. CASE k # 1
            <7>1. k - 1 \in 1 .. Len(t) /\ (k - 1) + 1 = k
              BY <5>3, <6>2
            <7>2. s[k] = t[k - 1]
              BY <5>1, <7>1
            <7> QED
              BY <5>3, <7>1, <7>2 DEF ToSet
          <6> QED
            BY <6>1, <6>2
        <5>5. ASSUME NEW k \in DOMAIN t PROVE t[k] \in ToSet(s)
          <6>1. k + 1 \in DOMAIN s /\ s[k + 1] = t[k]
            BY <5>1, <5>3
          <6> QED
            BY <6>1 DEF ToSet
        <5>6. c \in ToSet(s)
          <6>1. 1 \in DOMAIN s
            BY <5>3
          <6> QED
            BY <5>1, <6>1 DEF ToSet
        <5>7. ToSet(s) = {c} \union ToSet(t)
          BY <5>4, <5>5, <5>6 DEF ToSet
        <5> QED
          BY <5>1, <5>2, <5>7
      <4>6. Aligned(e + 1)
        <5>1. e \in Nat /\ e > 0 /\ e - 1 \in j .. e - 1
          BY <3>2, <4>1
        <5> QED
          BY <4>1, <5>1, AlignedFact
      <4>7. ASSUME Aligned(i), NEW w \in i .. Total - 1 PROVE Found(f[i], w)
        <5>1. w \in i .. j - 1 \/ w \in j .. e - 1 \/ w = e \/ w \in e + 1 .. Total - 1
          BY <1>2, <3>2, <4>1, <4>7
        <5>2. CASE w \in e + 1 .. Total - 1
          <6>1. Found(t, w)
            BY <4>2, <4>6, <5>2 DEF t
          <6> QED
            BY <4>5, <6>1
        <5>3. CASE w = e
          <6>1. e # Total
            BY <1>2, <4>1, <4>7, <5>3
          <6> QED
            BY <4>1, <5>3, <6>1
        <5> QED
          BY <3>5, <4>3, <4>5, <4>7, <5>1, <5>2, <5>3
      <4>8. \A d \in ToSet(f[i]) : Words(d) \intersect bf = {}
        BY <4>1, <4>3, <4>4, <4>5
      <4> HIDE DEF Found
      <4> QED
        BY <4>5, <4>7, <4>8
    <3> QED
      BY <3>6, <3>7
  <2> QED
    BY <1>2, <2>1, <2>2
<1>4. 0 \in S
  <2> HIDE DEF S
  <2>1. 0 .. last \subseteq S
    BY <1>2, <1>3, DownFact
  <2> QED
    BY <1>2, <2>1
<1>5. Aligned(0)
  <2>1. 0 % BitsOfByte \in Nat /\ 0 = ByteStart(0) + (0 % BitsOfByte) /\ ByteStart(0) \in Nat
    BY ByteFact
  <2>2. 0 % BitsOfByte <= 1
    BY <2>1
  <2> QED
    BY <2>2 DEF Aligned
<1> QED
  BY <1>1, <1>4, <1>5

-----------------------------------------------------------------------------
\* The bytes of a block that is large enough come in a run.
LEMMA RunFact ==
    ASSUME NEW a \in Nat, NEW n \in Nat, n >= BitsOfByte
    PROVE  InRuns(a .. a + n - 1)
<1> SUFFICES ASSUME NEW w \in a .. a + n - 1
             PROVE  \E u \in Nat : /\ w \in u .. u + BitsOfByte - 1
                                   /\ u .. u + BitsOfByte - 1 \subseteq a .. a + n - 1
  BY DEF InRuns
<1> DEFINE u == IF w + BitsOfByte <= a + n THEN w ELSE a + n - BitsOfByte
<1>1. u \in Nat /\ w \in u .. u + BitsOfByte - 1 /\ u >= a /\ u + BitsOfByte <= a + n
  BY WidthFact
<1> HIDE DEF u
<1>2. u .. u + BitsOfByte - 1 \subseteq a .. a + n - 1
  BY <1>1, WidthFact
<1> QED
  BY <1>1, <1>2

LEMMA BitmapInit == Init => BitmapInv
<1> SUFFICES ASSUME Init PROVE BitmapInv
  OBVIOUS
<1>1. Words(Descriptor) = 0 .. 0 + MdSize - 1
  BY WidthFact DEF Words, End, Descriptor
<1>2. used \subseteq 0 .. Total - 1 /\ MarksExact
  BY <1>1, WidthFact DEF Init, MarksExact
<1>3. InRuns(used)
  <2>1. InRuns(0 .. 0 + MdSize - 1)
    BY WidthFact, RunFact
  <2> QED
    BY <1>1, <2>1 DEF Init
<1>4. phase = "marking"
  BY DEF Init
<1> QED
  BY <1>2, <1>3, <1>4 DEF BitmapInv, LeaksFound

\* A block that the check takes lies in the pool.
LEMMA MarkableFact ==
    ASSUME NEW b \in Candidates, Markable(b)
    PROVE  /\ b.va \in Nat /\ b.size \in Nat /\ b.size >= BitsOfByte /\ b.size # 0
           /\ b.va + b.size <= Total
           /\ Words(b) = b.va .. b.va + b.size - 1
<1>1. b \in Chunk /\ b.size >= Desc /\ (b.va <= MdSize => End(b) <= Total)
  BY BitmapAssumption
<1>2. b.va \in Nat /\ b.size \in Nat /\ b.size >= BitsOfByte /\ b.size # 0
  BY <1>1, WidthFact DEF Chunk
<1>3. b.va \in 0 .. MdSize \/ End(b) <= Total
  BY DEF Markable, lmc_is_va_valid
<1>4. End(b) <= Total
  BY <1>1, <1>2, <1>3, WidthFact
<1> QED
  BY <1>2, <1>4 DEF Words, End

LEMMA BitmapStep == BitmapInv /\ [Next]_vars => BitmapInv'
<1> SUFFICES ASSUME BitmapInv, [Next]_vars PROVE BitmapInv'
  OBVIOUS
<1>1. ASSUME NEW b \in Candidates, lmc_um_mark(b) PROVE BitmapInv'
  <2>1. CASE Markable(b) /\ lmc_um_check_unmarked(b.va, b.size)
    <3> DEFINE W == b.va .. b.va + b.size - 1
    <3>1. /\ b.va \in Nat /\ b.size \in Nat \ {0} /\ b.size >= BitsOfByte
          /\ b.va + b.size <= Total /\ Words(b) = W
      BY <2>1, MarkableFact
    <3>2. Filled(b.va, b.size) = W
      BY <3>1, FilledFact
    <3>3. InRuns(W)
      BY <3>1, RunFact
    <3>4. W \subseteq 0 .. Total - 1
      BY <3>1, WidthFact
    <3>5. bf' = bf \union W /\ used' = used \union W /\ phase' = phase
      BY <1>1, <2>1, <3>1, <3>2 DEF lmc_um_mark
    <3>6. phase = "marking"
      BY <1>1 DEF lmc_um_mark
    <3> HIDE DEF W
    <3>7. InRuns(used \union W)
      <4>1. InRuns(used)
        BY DEF BitmapInv
      <4> QED
        BY <3>3, <4>1 DEF InRuns
    <3>8. InRuns(used)'
      BY <3>5, <3>7 DEF InRuns
    <3> QED
      BY <3>4, <3>5, <3>6, <3>8 DEF BitmapInv, MarksExact, LeaksFound
  <2>2. CASE ~ (Markable(b) /\ lmc_um_check_unmarked(b.va, b.size))
    <3>1. phase' = "failed" /\ bf' = bf /\ used' = used
      BY <1>1, <2>2 DEF lmc_um_mark
    <3> QED
      BY <3>1 DEF BitmapInv, MarksExact, LeaksFound, InRuns
  <2> QED
    BY <2>1, <2>2
<1>2. ASSUME FindLeaks PROVE BitmapInv'
  <2>1. phase' = "done" /\ bf' = bf /\ used' = used /\ freed' = Leaks
    BY <1>2 DEF FindLeaks
  <2>2. bf = used
    BY DEF BitmapInv, MarksExact
  <2>3. LeaksFound'
    <3>1. \A c \in ToSet(freed') : Words(c) \intersect used' = {}
      BY <2>1, <2>2, LeaksFact
    <3>2. ASSUME NEW w \in Lost' PROVE w - 1 \in used'
      <4>1. /\ w \in 0 .. Total - 1 /\ w \notin used
            /\ \A c \in ToSet(Leaks) : w \notin Words(c)
        BY <2>1, <3>2 DEF Lost
      <4> QED
        BY <2>1, <2>2, <4>1, LeaksFact
    <3> QED
      BY <3>1, <3>2 DEF LeaksFound
  <2> QED
    BY <2>1, <2>3 DEF BitmapInv, MarksExact, InRuns
<1>3. CASE UNCHANGED vars
  BY <1>3 DEF vars, BitmapInv, MarksExact, LeaksFound, Lost, InRuns
<1> QED
  BY <1>1, <1>2, <1>3 DEF Next

-----------------------------------------------------------------------------
\* What is marked comes in runs that no stride passes.
THEOREM BitmapInvariant == Spec => []BitmapInv
<1> QED
  BY BitmapInit, BitmapStep, PTL DEF Spec

\* memset and single bits: the bits that are set are those of the bytes in use.
THEOREM MarkingExact == Spec => []MarksExact
<1>1. BitmapInv => MarksExact
  BY DEF BitmapInv
<1> QED
  BY <1>1, BitmapInvariant, PTL

\* A block is accepted exactly if it shares no byte with one accepted before.
THEOREM NoDoubleUse == Spec => []DoubleUseFound
<1>1. BitmapInv => DoubleUseFound
  <2> SUFFICES ASSUME BitmapInv, NEW b \in Candidates, Markable(b)
               PROVE  lmc_um_check_unmarked(b.va, b.size) <=> Words(b) \intersect used = {}
    BY DEF DoubleUseFound
  <2>1. /\ b.va \in Nat /\ b.size \in Nat /\ b.va + b.size <= Total
        /\ Words(b) = b.va .. b.va + b.size - 1
    BY MarkableFact
  <2>2. bf = used /\ InRuns(bf)
    BY DEF BitmapInv, MarksExact
  <2>3. lmc_um_check_unmarked(b.va, b.size) <=> (b.va .. b.va + b.size - 1) \intersect bf = {}
    BY <2>1, <2>2, UnmarkedFact
  <2> QED
    BY <2>1, <2>2, <2>3
<1> QED
  BY <1>1, BitmapInvariant, PTL

\* lmc_um_find_leaks frees nothing that is in use, and every gap but for its
\* first byte at most.
THEOREM LeaksAreFound == Spec => []LeaksFound
<1>1. BitmapInv => LeaksFound
  BY DEF BitmapInv
<1> QED
  BY <1>1, BitmapInvariant, PTL

=============================================================================
