SPECIFICATION FairSpec
CONSTANTS
  a = a
  b = b
  ACalls = {c1, c2}
  BCalls = {c3}
  Calls <- MCCalls
  DBs = {a, b}
  Route <- MCRoute
  MayLeave = {c3}
  MaxDepth = 1
  StuckDBs = {b}
  NoCall = NoCall
  NoChan = NoChan
PROPERTIES
  ShutdownCompletes
  AcceptedRun
  CallsReturn
CHECK_DEADLOCK FALSE
