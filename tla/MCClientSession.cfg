SPECIFICATION AppSpec
CONSTANTS
  r1 = r1
  r2 = r2
  r3 = r3
  member = member
  admin = admin
  a1 = a1
  Requests = {r1, r2, r3}
  Users = {member, admin}
  SystemAdmins = {admin}
  Assocs = {a1}
  HomeOf <- MCHomeOf
  Lifetime = 1
  MaxTime = 1
  AppUser = member
  AccessLife = 1
  None = None
SYMMETRY Symmetry
INVARIANTS AppTypeOK SessionEnds LateReuseRefused InactiveGetsNothing OneTokenPerSession NothingLeftBehind StoredSessionAlive AccessEnds
CHECK_DEADLOCK FALSE
