CONSTANTS
  Slugs = {"a", "bkt-a"}
  TokenTTL = 2
  FileTTL = 1
  MaxFiles = 2
  MaxTokens = 2
  MaxNow = 2
  MaxOps = 8
SPECIFICATION Spec
INVARIANT LinkOpensItsFile
CHECK_DEADLOCK FALSE
