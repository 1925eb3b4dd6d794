----------------------------- MODULE MCLmcLocking -----------------------------
(***************************************************************************)
(* A few interchangeable processes on one namespace.                       *)
(***************************************************************************)
EXTENDS LmcLocking, TLC

CONSTANTS p1, p2, p3, p4

Symmetry == Permutations(Procs)

\* What the last call of a process was no longer matters when it is over.
Ended(p) == pc[p] \in {"idle", "dead"}

InCalls ==
    <<sem, csem, locked, pool, pc, checking, sizeless, handle, crashes,
      {p \in Procs : Live(p) /\ held[p]},
      [p \in {q \in Procs : ~Ended(q)} |-> <<op[p], from[p], tries[p]>>]>>

=============================================================================
