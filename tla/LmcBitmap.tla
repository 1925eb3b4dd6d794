------------------------------ MODULE LmcBitmap ------------------------------
(***************************************************************************)
(* The usage bitmap of src/src/lmc_valloc.c bit by bit: one bit for every  *)
(* byte of the pool, marked and searched with strides of a whole machine   *)
(* word of bits.  LmcCheck says what the memory check makes of a pool; the *)
(* properties compare the two.                                             *)
(*                                                                         *)
(* Offsets count bytes here, and Word is the bytes of a word.              *)
(***************************************************************************)
EXTENDS LmcCheck

CONSTANTS
    BitsOfByte,     \* 8, as many as a word has bytes
    Candidates      \* the blocks that lists and chains may name

\* The bits of a size_t, 64.
Stride == Word * BitsOfByte

\* The descriptor has more bytes than a word has bits: no bound that is a
\* stride below the end of a block wraps around.  The least block has no fewer
\* bytes than a byte has bits.  A block at the descriptor that reaches past the
\* end of the pool, which lmc_um_mark does not refuse, would leave the bitmap.
ASSUME BitmapAssumption ==
    /\ BitsOfByte \in Nat \ {0}
    /\ Candidates \subseteq Chunk
    /\ \A b \in Candidates : b.size >= Desc /\ (b.va <= MdSize => End(b) <= Total)
    /\ Stride <= MdSize
    /\ BitsOfByte <= Desc

VARIABLES
    bf,             \* the bits that are 1
    phase,          \* "marking", "done", "failed": lmc_um_mark returned 0
    used,           \* the bytes of the blocks that were accepted
    freed           \* what lmc_um_find_leaks passed to __lmc_free

vars == <<bf, phase, used, freed>>

-----------------------------------------------------------------------------
(***************************************************************************)
(* Strides.  From bit i a loop looks at the words of the bitmap that       *)
(* follow the byte of i, as long as they are all ones (or all zeroes) and  *)
(* i is below the bound ee, and moves i by a stride for each: where i is   *)
(* not the first bit of its byte, word and stride are out of step.         *)
(***************************************************************************)
WordAt(byte) == byte * BitsOfByte .. byte * BitsOfByte + Stride - 1

Strided(i, ee, Same(_)) ==
    i + Stride * Min({n \in 0 .. Total :
                         ~ (i + n * Stride < ee /\ Same(WordAt((i \div BitsOfByte) + n * Word)))})

Ones(word) == word \subseteq bf

Zeroes(word) == word \intersect bf = {}

\* A slip: the bound is the end itself.
Looked_past(va, size) ==
    LET end == va + size
        from[i \in 0 .. end + Stride] ==
            IF i >= end THEN {}
            ELSE LET j == Strided(i, end, Zeroes) IN {j} \union from[j + 1]
    IN  from[va]

\* The bits lmc_um_check_unmarked looks at one by one.
Looked(va, size) ==
    LET end == va + size
        from[i \in 0 .. end] ==
            IF i >= end THEN {}
            ELSE LET j == Strided(i, end - Stride, Zeroes) IN {j} \union from[j + 1]
    IN  from[va]

lmc_um_check_unmarked(va, size) == Looked(va, size) \intersect bf = {}

\* A slip: the last byte is filled like the others.
Filled_last(va, size) ==
    LET last == (va + size - 1) \div BitsOfByte
    IN  va .. (last + 1) * BitsOfByte - 1

\* The bits lmc_um_mark sets: at the first bit of a byte it fills all bytes but
\* the last with memset and goes on bit by bit in that one.
Filled(va, size) ==
    LET end  == va + size
        last == (end - 1) \div BitsOfByte
        from[i \in 0 .. end] ==
            IF i >= end THEN {}
            ELSE IF i % BitsOfByte = 0 /\ i \div BitsOfByte < last
                 THEN (i .. last * BitsOfByte) \union from[last * BitsOfByte + 1]
                 ELSE {i} \union from[i + 1]
    IN  from[va]

\* The end of the gap that starts at j.
GapEnd(j) == Min({i \in j .. Total : i \in bf \/ i = Total})

\* A slip: the last word is skipped as well.
Leaks_skip_last ==
    LET from[i \in 0 .. Total + Stride] ==
            IF i >= Total THEN <<>>
            ELSE LET j == Strided(i, Total - Stride, Ones)
                 IN  IF j \in bf THEN from[j + 1]
                     ELSE IF GapEnd(j) = Total THEN <<>>
                     ELSE <<[va |-> j, size |-> GapEnd(j) - j]>> \o from[GapEnd(j) + 1]
    IN  from[0]

\* The gaps lmc_um_find_leaks finds, in the order it frees them.
Leaks ==
    LET from[i \in 0 .. Total + 1] ==
            IF i >= Total THEN <<>>
            ELSE LET j == Strided(i, Total - Stride, Ones)
                 IN  IF j \in bf THEN from[j + 1]
                     ELSE <<[va |-> j, size |-> GapEnd(j) - j]>> \o from[GapEnd(j) + 1]
    IN  from[0]

-----------------------------------------------------------------------------
\* lmc_um_new_mem_usage_bitmap: a zeroed bitmap, then the descriptor.
Init ==
    /\ bf = Words(Descriptor)
    /\ phase = "marking"
    /\ used = Words(Descriptor)
    /\ freed = <<>>

\* The next chunk of the free list, or the next block of the table.
lmc_um_mark(b) ==
    /\ phase = "marking"
    /\ IF Markable(b) /\ lmc_um_check_unmarked(b.va, b.size)
       THEN /\ bf' = bf \union Filled(b.va, b.size)
            /\ used' = used \union Words(b)
            /\ UNCHANGED phase
       ELSE /\ phase' = "failed"
            /\ UNCHANGED <<bf, used>>
    /\ UNCHANGED freed

FindLeaks ==
    /\ phase = "marking"
    /\ freed' = Leaks
    /\ phase' = "done"
    /\ UNCHANGED <<bf, used>>

Next ==
    \/ \E b \in Candidates : lmc_um_mark(b)
    \/ FindLeaks

Spec == Init /\ [][Next]_vars

-----------------------------------------------------------------------------
\* The bits that are set are those of the bytes in use, whole bytes of the
\* bitmap and the ends of a block alike; this is the type of bf as well.
MarksExact == bf = used

\* A block is accepted exactly if it lies in the pool and shares no byte with
\* one that was accepted before, although most of its bits are never looked at
\* one by one, and some not at all.
DoubleUseFound ==
    phase = "marking" =>
        \A b \in Candidates :
            Markable(b) =>
                (lmc_um_check_unmarked(b.va, b.size) <=> Words(b) \intersect used = {})

Lost == ((0 .. Total - 1) \ used) \ UNION {Words(c) : c \in ToSet(freed)}

\* The search frees no byte that is in use, and of a gap it overlooks at most the
\* first byte.
LeaksFound ==
    phase = "done" =>
        /\ \A c \in ToSet(freed) : Words(c) \intersect used = {}
        /\ \A w \in Lost : w - 1 \in used

\* What LmcCheck has it do: every gap is freed, from its first byte on.
LeaksFreed == phase = "done" => ToSet(freed) = Gaps((0 .. Total - 1) \ used)

=============================================================================
