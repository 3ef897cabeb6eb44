SPECIFICATION Spec
CONSTANTS
  r1 = r1
  r2 = r2
  r3 = r3
  u1 = u1
  u2 = u2
  u3 = u3
  a1 = a1
  a2 = a2
  e1 = e1
  None = None
  Requests = {r1, r2, r3}
  Users = {u1, u2, u3}
  Assocs = {a1, a2}
  AssocOf <- MCAssocOf
  Emails = {e1}
  Seed <- MCSeed
  Callers <- MCCallers
  Lifetime = 1
  MaxTime = 1
SYMMETRY Symmetry
INVARIANTS PasswordsEntitled LatestPassword UsedTokenRefused OneResetToken
CHECK_DEADLOCK FALSE
