SPECIFICATION Spec
CONSTANTS
  x1 = x1
  x2 = x2
  a1 = a1
  c1 = c1
  c2 = c2
  deny = deny
  allow = allow
  None = None
  Screens = {x1, x2}
  Assocs = {a1}
  Cells = {c1, c2}
  Grants = {deny, allow}
  Initial = deny
  MaxLoads = 2
  MaxActs = 6
SYMMETRY Symmetry
INVARIANTS TypeOK ShowsSelected SettingStays
CHECK_DEADLOCK FALSE
