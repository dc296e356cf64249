SPECIFICATION Spec
CONSTANTS
  DBNames = {m, n}
  PageClicks = 2
  PageVisits = 3
  PageRequests = 2
  Nothing = Nothing
  Broken = Broken
  NoEntry = NoEntry
  NoValue = NoValue
  Procs = {1, 2}
  Calls = {1, 2}
  L1TTL = 2
  KeyTTL = 2
  SessionTTL = 3
  RateLimit = 2
  RateWindow = 2
  MaxVersion = 2
  MaxTime = 3
  MaxChanges = 3
  BucketSlugs = {"a", "bkt-a"}
  TokenTTL = 2
  FileTTL = 1
  MaxStored = 2
  MaxLinks = 2
  MaxSeconds = 2
  MaxRequests = 8
  MaxConns = 2
  MaxQuestions = 4
  MoveSlots = {1, 2}
  MaxWrites = 2
  MaxMoves = 3
  OldRows = {1, 2}
  OldDbs = {"x", "y"}
  MaxKills = 2
INVARIANTS
  FilesAreListed PagesAreTrue SavedIsKept EmbedAnswers
  
  
  
CHECK_DEADLOCK FALSE
