---------------------------- MODULE MCPermissions ----------------------------
(* A small instance of Permissions for TLC. *)
EXTENDS PermissionsProofs, TLC

CONSTANTS r1, r2, a1, u1, u2, member, admin, f1, f2, view, edit, none, look, all

MCAllows == none :> {} @@ look :> {view} @@ all :> {view, edit}
Set(o, f, g) == [cell |-> <<o, f>>, grant |-> g]

\* Batches that write the same rows in either order, one that tries to take the permissions
\* of system admins away, and one that names a row twice.
MCBatches ==
  {<<Set(member, f1, none), Set(member, f2, none)>>,
   <<Set(member, f2, all), Set(member, f1, all)>>,
   <<Set(admin, f1, none), Set(member, f1, all)>>,
   <<Set(member, f2, all), Set(member, f2, none)>>}

MCSeeded  == [c \in {member, admin} \X {f1, f2} |-> IF c[1] = admin THEN all ELSE look]
MCAssocOf == [u \in Users |-> IF u = u1 THEN a1 ELSE None]
MCRoleOf  == [u \in Users |-> IF u = u1 THEN member ELSE admin]
MCEdits   == {<<u1, admin>>}
==============================================================================
