---------------------------- MODULE MCLmcIteration ----------------------------
(***************************************************************************)
(* Four keys in two chains, read in slices of two entries: a slice ends    *)
(* inside a chain, at its end, and across two of them.                     *)
(***************************************************************************)
EXTENDS LmcIteration

CONSTANTS k1, k2, k3, k4

ThreeAndOne == [k \in Keys |-> IF k = k4 THEN 1 ELSE 0]

OwnLengths == [k \in Keys |-> CASE k = k1 -> 1 [] k = k2 -> 2 [] k = k3 -> 3 [] OTHER -> 4]

=============================================================================
