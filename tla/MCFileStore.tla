---------------------------- MODULE MCFileStore ----------------------------
(* A small instance of FileStore for TLC. *)
EXTENDS FileStoreProofs, TLC

CONSTANTS r1, r2, r3, r4, a1, a2

\* A member of each association and a system admin.
MCCallers == {[role |-> "member", assoc |-> a1], [role |-> "member", assoc |-> a2],
              [role |-> "system_admin", assoc |-> None]}

Symmetry == Permutations(Requests) \cup Permutations({a1, a2})
=============================================================================
