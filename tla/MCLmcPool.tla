------------------------------ MODULE MCLmcPool ------------------------------
(***************************************************************************)
(* A few interchangeable processes, and two files one after the other.     *)
(***************************************************************************)
EXTENDS LmcPool, TLC

CONSTANTS p1, p2, p3

Symmetry == Permutations(Procs)

\* Files that are neither the namespace's nor that of a live handle, and what
\* the dead had, are never looked at again.
Used == {f \in Files : f = file \/ \E p \in Procs : Live(p) /\ handle[p].file = f}

InReach ==
    <<file, files, sem, csem, pc, crashes, [f \in Used |-> pool[f]],
      [p \in {q \in Procs : Live(q)} |-> handle[p]]>>

=============================================================================
