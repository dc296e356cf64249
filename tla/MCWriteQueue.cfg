SPECIFICATION Spec
CONSTANTS
  a = a
  b = b
  ACalls = {c1, c2, c3}
  BCalls = {}
  Calls <- MCCalls
  DBs = {a}
  Route <- MCRoute
  MayLeave = {c1, c2, c3}
  MaxDepth = 2
  StuckDBs = {}
  NoCall = NoCall
  NoChan = NoChan
SYMMETRY Symmetry
INVARIANTS
  TypeOK
  AtMostOnce
  RefusedNeverRuns
  StopDrains
  GracefulShutdownIsSafe
PROPERTY
  ImplementsSerialExecutor
CHECK_DEADLOCK FALSE
