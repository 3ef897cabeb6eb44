SPECIFICATION Spec
CONSTANTS
  r1 = r1
  r2 = r2
  r3 = r3
  r4 = r4
  a1 = a1
  a2 = a2
  None = None
  Requests = {r1, r2, r3, r4}
  Assocs = {a1, a2}
  Callers <- MCCallers
SYMMETRY Symmetry
INVARIANTS RowsHaveFiles OrphansExplained MissingExplained DeletedIsGone
CHECK_DEADLOCK FALSE
