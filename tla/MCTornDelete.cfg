SPECIFICATION Spec
CONSTANTS
  Slugs = {s}
  Requests = {r1, r2}
  Handles = {h1, h2, h3, h4}
  Writes = {w1, w2}
  MaxEpoch = 2
  MaxNest = 1
  MaxOps = 5
  Inodes = {1, 2, 3, 4, 5, 6, 7, 8, 9, 10, 11, 12}
  Careful = TRUE
  None = None
SYMMETRY Symmetry
INVARIANT
  NothingLost
CHECK_DEADLOCK FALSE
