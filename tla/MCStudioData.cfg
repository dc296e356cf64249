SPECIFICATION Spec
INVARIANTS
  QueryTabIsOfOneRun WhatIsSeenIsDrawn RowsAndArrows ValuesSurvive SchemasReadBack
CHECK_DEADLOCK FALSE
