SPECIFICATION Spec
CONSTANTS
  TabTables = {"t1", "t2"}
  MaxTabs = 3
  MaxTabLists = 4
  NewNames = {"a", "b"}
  NewTitles = {"t", "u"}
  SavedTable = "t"
  SavedColumns <- TwoColumns
  MaxDraftEdits = 3
  MaxDraftOps = 3
  EditorTokens = 1
  MaxWidgets = 2
  MaxQueries = 2
  MaxPrompts = 2
  MaxTyped = 1
  GridCols = 3
  GridFixed = {0}
  MaxGridRows = 3
  MaxGridOps = 4
  MaxCellEdits = 1
  MaxExports = 1
  ExportButtons = {1, 2}
  ExportFormats = {"csv", "json"}
  OptionTexts = {"x", "y"}
  MaxSettingSteps = 8
INVARIANTS
  TabIsShown SchemaIsTrue ChangesAreTrue PromptLeavesMine
  ShiftSelectsRectangle ButtonsFollowTable
PROPERTIES
  SelectedIsExported SavesReplaceTheirOwn
CHECK_DEADLOCK FALSE
