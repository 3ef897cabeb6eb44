------------------------- MODULE MCPermissionScreen -------------------------
(* A small instance of PermissionScreen for TLC: two admins, one association, two *)
(* cells.                                                                         *)
EXTENDS PermissionScreenProofs, TLC

CONSTANTS x1, x2, a1, c1, c2, deny, allow

Symmetry == Permutations(Screens) \cup Permutations(Cells)
=============================================================================
