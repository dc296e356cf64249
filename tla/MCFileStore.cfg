SPECIFICATION Spec
CONSTANTS
  Requests = {r1, r2}
  Paths = {p1, p2}
  Hashes = {x, y}
  MaxFiles = 2
  MaxOps = 4
  None = None
SYMMETRY Symmetry
INVARIANTS
  TypeOK
  
  RefsCoverRows
  QuotaOvershootBounded
CHECK_DEADLOCK FALSE
