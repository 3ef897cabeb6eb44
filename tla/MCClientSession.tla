--------------------------- MODULE MCClientSession ---------------------------
(* A small instance of ClientSession for TLC: the app of a member, and the devices *)
(* of the member and of a system admin.                                            *)
EXTENDS ClientSessionProofs, TLC

CONSTANTS r1, r2, r3, member, admin, a1

MCHomeOf == [u \in Users |-> a1]

Symmetry == Permutations(Requests)
=============================================================================
