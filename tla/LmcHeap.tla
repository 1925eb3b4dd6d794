------------------------------- MODULE LmcHeap -------------------------------
(***************************************************************************)
(* What lmc_valloc and lmc_free promise their callers, without a free      *)
(* list: blocks that stay where they are and never overlap, from a pool    *)
(* that is full only when it has no hole of the size a request needs.      *)
(***************************************************************************)
EXTENDS LmcChunks

CONSTANTS Requests, MinAllocs

VARIABLES used, minAlloc, result

hvars == <<used, minAlloc, result>>

\* No block, for a request of n.
Refused(n) == [va |-> 0, size |-> n]

\* The blocks a pool can hold.
Extent == [va : MdSize .. Total, size : Desc .. Total]

\* b lies in the pool and shares no word with a block in use.
Hole(b) ==
    /\ MdSize <= b.va
    /\ End(b) <= Total
    /\ \A u \in used : Apart(b, u)

-----------------------------------------------------------------------------
Init ==
    /\ used = {}
    /\ minAlloc = 0
    /\ result = Refused(0)

\* A request is granted a hole at least as large as its block.
Alloc(n) ==
    /\ n # 0
    /\ result' \in Extent
    /\ result'.size >= BlockSize(n, minAlloc)
    /\ Hole(result')
    /\ used' = used \union {result'}
    /\ UNCHANGED minAlloc

\* It is refused only if there is no such hole.
Refuse(n) ==
    /\ n # 0 => \A a \in MdSize .. Total :
                    ~ Hole([va |-> a, size |-> BlockSize(n, minAlloc)])
    /\ result' = Refused(n)
    /\ UNCHANGED <<used, minAlloc>>

Free(u) ==
    /\ used' = used \ {u}
    /\ UNCHANGED <<minAlloc, result>>

SetMinAlloc(n) ==
    /\ minAlloc' = round_to_next_power_of_2(n)
    /\ UNCHANGED <<used, result>>

Next ==
    \/ \E n \in Requests : Alloc(n) \/ Refuse(n)
    \/ \E u \in used : Free(u)
    \/ \E n \in MinAllocs : SetMinAlloc(n)

Spec == Init /\ [][Next]_hvars

=============================================================================
