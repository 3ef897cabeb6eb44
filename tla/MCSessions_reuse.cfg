SPECIFICATION Spec
CONSTANTS
  r1 = r1
  r2 = r2
  r3 = r3
  r4 = r4
  member = member
  admin = admin
  a1 = a1
  Requests = {r1, r2, r3, r4}
  Users = {member}
  SystemAdmins = {}
  Assocs = {a1}
  HomeOf <- MCHomeOf
  Lifetime = 1
  MaxTime = 1
INVARIANT ExchangedOnce
CHECK_DEADLOCK FALSE
