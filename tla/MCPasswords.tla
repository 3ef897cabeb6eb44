----------------------------- MODULE MCPasswords -----------------------------
(* Small instances of Passwords for TLC. *)
EXTENDS PasswordsProofs, TLC

CONSTANTS r1, r2, r3, u1, u2, u3, a1, a2, e1

\* A seeded account, another of its association and one of another association.
MCAssocOf == [u \in Users |-> IF u = u3 THEN a2 ELSE a1]
MCSeed    == [u \in {u1} |-> [email |-> e1, role |-> "member"]]

\* An administrator of the second association and a system admin.
MCCallers == {[role |-> "member", assoc |-> a2], [role |-> "system_admin", assoc |-> None]}

Symmetry == Permutations(Requests)
=============================================================================
