SPECIFICATION Spec
CONSTANTS
  Slugs = {s}
  Requests = {r1, r2}
  Handles = {h1, h2, h3, h4}
  Writes = {w1, w2}
  MaxEpoch = 2
  MaxNest = 2
  MaxOps = 6
  Inodes = {1, 2, 3, 4, 5, 6, 7, 8, 9, 10, 11, 12}
  Careful = TRUE
  None = None
SYMMETRY Symmetry
INVARIANTS
  TypeOK
  DataFollowsRow
  ErasedStaysErased
CHECK_DEADLOCK FALSE
