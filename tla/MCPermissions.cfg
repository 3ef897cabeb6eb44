SPECIFICATION FairSpec
CONSTANTS
  r1 = r1
  r2 = r2
  a1 = a1
  u1 = u1
  u2 = u2
  member = member
  admin = admin
  f1 = f1
  f2 = f2
  view = view
  edit = edit
  none = none
  look = look
  all = all
  None = None
  Requests = {r1, r2}
  Assocs = {a1}
  Users = {u1, u2}
  Roles = {member, admin}
  Features = {f1, f2}
  SystemAdmin = admin
  Actions = {view, edit}
  Grants = {none, look, all}
  Allows <- MCAllows
  Batches <- MCBatches
  Seeded <- MCSeeded
  AssocOf <- MCAssocOf
  RoleOf <- MCRoleOf
  Edits <- MCEdits
INVARIANTS NoStandstill LogTellsMatrix AuditTrail AppointmentsRecorded
PROPERTIES OnlyOwnUpdates EveryRequestAnswered
CHECK_DEADLOCK FALSE
