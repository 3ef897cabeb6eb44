----------------------------- MODULE MCSessions -----------------------------
(* Small instances of Sessions for TLC. *)
EXTENDS Sessions, TLC

CONSTANTS r1, r2, r3, r4, member, admin, a1

MCHomeOf == [u \in Users |-> a1]

Symmetry == Permutations(Requests)
=============================================================================
