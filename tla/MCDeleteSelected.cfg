\* The editable table: two rows, three edits, two saves, one refresh.
CONSTANTS
  Ids = {1, 2, 3}
  Vals = {x}
  Null = Null
  Undef = Undef
  NoChange = NoChange
  None = None
  MaxRows = 4
  MaxSpan = 1
  MaxOps = 3
  MaxSaves = 2
  MaxFetches = 1
SPECIFICATION Spec
PROPERTY
  DeletesOnlySelected
CHECK_DEADLOCK FALSE
