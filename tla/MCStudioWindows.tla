------------------------------ MODULE MCStudioWindows ------------------------------
(*****************************************************************************)
(* Instances of the windows of the studio: tabs, schema, schema editor,      *)
(* prompt, diagram, the sidebar of a Dolt repository, and the grid with its  *)
(* selection, its total and its exports. The parts share nothing, so one     *)
(* run explores each of them from its own initial states.                    *)
(*****************************************************************************)
EXTENDS Integers, Sequences, FiniteSets, TLC

CONSTANTS
  TabTables,         \* tables that have tabs
  MaxTabs,           \* bound: tabs opened
  MaxTabLists,       \* bound: lists of tabs set
  NewNames,          \* names a column can be given
  NewTitles,         \* names the table can be given
  SavedTable,        \* the table in the database
  SavedColumns,      \* and its columns
  MaxDraftEdits,     \* bound: edits of the draft of a table
  MaxDraftOps,       \* bound: dialogs, changes from elsewhere and failures
  EditorTokens,      \* length of what the editor holds at first
  MaxWidgets,        \* bound: prompts opened
  MaxQueries,        \* bound: questions asked
  MaxPrompts,        \* bound: instructions typed in a prompt
  MaxTyped,          \* bound: tokens typed in the editor
  GridCols,          \* columns of the grid
  GridFixed,         \* those that cannot be edited
  MaxGridRows,       \* bound: rows of the grid
  MaxGridOps,        \* bound: operations in the grid
  MaxCellEdits,      \* bound: cells edited above the buttons
  MaxExports,        \* bound: exports
  ExportButtons,     \* places an Export button may appear in
  ExportFormats,     \* formats of an export
  OptionTexts,       \* options that may be typed
  MaxSettingSteps    \* bound: changes of the settings

ASSUME TabsAssumption == TabTables # {}
ASSUME PromptAssumption == EditorTokens \in Nat
ASSUME SettingsAssumption == "csv" \in ExportFormats /\ "none" \notin ExportFormats

VARIABLES
  part,  \* the part this behaviour is about
  tabs_lists, tabs_selected, tabs_exists, tabs_saves, tabs_modal, tabs_fresh,
  tabs_stale, tabs_clash,
  schema_objects, schema_version, schema_schema, schema_shown, schema_screen,
  schema_reqs, schema_dialog, schema_calls, schema_mass, schema_runs, schema_calm,
  schema_solo, schema_ops,
  change_tables, change_tab, change_draft, change_loading, change_isSaving,
  change_fetches, change_sent, change_edits, change_ops, change_torn, change_stale,
  prompt_doc, prompt_widget, prompt_top, prompt_isActive, prompt_locked, prompt_form,
  prompt_asked, prompt_queries, prompt_mine, prompt_edits, prompt_late, prompt_doubled,
  diagram_live, diagram_schema, diagram_selected, diagram_boxes, diagram_edges,
  diagram_ops, diagram_moved,
  dolt_log, dolt_work, dolt_active, dolt_clock, dolt_branchList, dolt_selectedBranch,
  dolt_commitList, dolt_statusList, dolt_busy, dolt_message, dolt_loading, dolt_modal,
  dolt_flows, dolt_seen, dolt_foreign, dolt_orderly, dolt_ops,
  grid_rows, grid_ranges, grid_focus, grid_move, grid_edit, grid_ops, grid_steady,
  panel_page, panel_edits, panel_ranges, panel_timer, panel_seen, panel_total,
  panel_choice, panel_index, panel_radio, panel_exported, panel_exports, panel_touched,
  panel_tapped,
  settings_setting, settings_stored, settings_last, settings_clash, settings_steps

It(name, cols, keys) == [name |-> name, type |-> "table", cols |-> cols, keys |-> keys]
Key(col, table, to, at) == [cols |-> <<col>>, table |-> table, to |-> to, at |-> at]
Shop == <<It("a", 2, {Key("x", "b", <<"id">>, "column"), Key("y", "b", <<"id">>, "column")}),
          It("b", 1, {}), [It("v", 1, {}) EXCEPT !.type = "view"], It("c", 1, {}), It("d", 1, {}),
          It("e", 3, {}), It("f", 1, {})>>
Logs == <<It("c", 9, {}), It("d", 1, {}), It("e", 1, {Key("up", "e", <<"id">>, "table")})>>
Loop == <<It("a", 1, {Key("x", "b", <<"id">>, "table")}),
          It("b", 2, {Key("x", "a", <<"id">>, "table"), Key("y", "gone", <<>>, "column")}), It("c", 1, {})>>
Database(main, temp) == [s \in {"main", "temp"} |-> IF s = "main" THEN main ELSE temp]
Databases == {Database(Shop, <<>>), Database(Loop, Logs), Database(Logs, Shop)}
TwoColumns == <<[name |-> "id", has |-> {"pk"}], [name |-> "a", has |-> {}]>>

\* Selections: none, a row, a row and a cell, a column, two cells.
Cells(x1, y1, x2, y2) == [x1 |-> x1, y1 |-> y1, x2 |-> x2, y2 |-> y2]
Selections == { <<>>, <<Cells(0, 0, 1, 0)>>, <<Cells(0, 0, 1, 0), Cells(0, 1, 0, 1)>>,
                <<Cells(1, 0, 1, 2)>>, <<Cells(0, 0, 0, 0), Cells(1, 1, 1, 1)>> }

TabsPart == INSTANCE StudioTabs WITH
  Tables <- TabTables, View <- "v", Doc <- "d", MaxTabs <- MaxTabs, MaxLists <- MaxTabLists,
  lists <- tabs_lists, selected <- tabs_selected, exists <- tabs_exists,
  saves <- tabs_saves, modal <- tabs_modal, fresh <- tabs_fresh, stale <- tabs_stale,
  clash <- tabs_clash
tabs_vars ==
  <<tabs_lists, tabs_selected, tabs_exists, tabs_saves, tabs_modal, tabs_fresh,
    tabs_stale, tabs_clash>>

SchemaPart == INSTANCE SchemaStore WITH
  Tables <- {"t"}, View <- "v", New <- "n", MaxReqs <- 2, MaxOps <- 3,
  objects <- schema_objects, version <- schema_version, schema <- schema_schema,
  shown <- schema_shown, screen <- schema_screen, reqs <- schema_reqs,
  dialog <- schema_dialog, calls <- schema_calls, mass <- schema_mass,
  runs <- schema_runs, calm <- schema_calm, solo <- schema_solo, ops <- schema_ops
schema_vars ==
  <<schema_objects, schema_version, schema_schema, schema_shown, schema_screen,
    schema_reqs, schema_dialog, schema_calls, schema_mass, schema_runs, schema_calm,
    schema_solo, schema_ops>>

ChangePart == INSTANCE SchemaChange WITH
  Names <- NewNames, Titles <- NewTitles, FirstTable <- SavedTable,
  FirstColumns <- SavedColumns, MaxEdits <- MaxDraftEdits, MaxOps <- MaxDraftOps,
  tables <- change_tables, tab <- change_tab, draft <- change_draft, loading <- change_loading,
  isSaving <- change_isSaving, fetches <- change_fetches, sent <- change_sent,
  edits <- change_edits, ops <- change_ops, torn <- change_torn, stale <- change_stale
change_vars ==
  <<change_tables, change_tab, change_draft, change_loading, change_isSaving,
    change_fetches, change_sent, change_edits, change_ops, change_torn, change_stale>>

\* Names columns can have, those the editor gives and others give too.
ColumnNames == NewNames \cup {SavedColumns[k].name : k \in DOMAIN SavedColumns}
                        \cup {"id", "column", "other"}
ASSUME ChangeAssumption ==
  /\ SavedColumns \in Seq([name : ColumnNames, has : SUBSET ChangePart!Features])
  /\ ChangePart!Unique(SavedColumns)
  /\ SavedTable # ChangePart!Unnamed

\* The tokens of the first text are none that are typed or answered.
EditorText == [k \in 1..EditorTokens |-> 49 + k]

PromptPart == INSTANCE InlinePrompt WITH
  Text <- EditorText, MaxWidgets <- MaxWidgets, MaxQueries <- MaxQueries,
  MaxPrompts <- MaxPrompts, MaxEdits <- MaxTyped,
  doc <- prompt_doc, widget <- prompt_widget, top <- prompt_top,
  isActive <- prompt_isActive, locked <- prompt_locked, form <- prompt_form,
  asked <- prompt_asked, queries <- prompt_queries, mine <- prompt_mine,
  edits <- prompt_edits, late <- prompt_late, doubled <- prompt_doubled
prompt_vars ==
  <<prompt_doc, prompt_widget, prompt_top, prompt_isActive, prompt_locked, prompt_form,
    prompt_asked, prompt_queries, prompt_mine, prompt_edits, prompt_late,
    prompt_doubled>>

DiagramPart == INSTANCE SchemaDiagram WITH
  Databases <- Databases, Shift <- 325, MaxOps <- 4, live <- diagram_live,
  schema <- diagram_schema, selected <- diagram_selected, boxes <- diagram_boxes,
  edges <- diagram_edges, ops <- diagram_ops, moved <- diagram_moved
diagram_vars ==
  <<diagram_live, diagram_schema, diagram_selected, diagram_boxes, diagram_edges,
    diagram_ops, diagram_moved>>

DoltPart == INSTANCE DoltSidebar WITH
  Tables <- {"t"}, Branches <- {"main", "b"}, MaxOps <- 2, MaxFlows <- 2,
  log <- dolt_log, work <- dolt_work, active <- dolt_active, clock <- dolt_clock,
  branchList <- dolt_branchList, selectedBranch <- dolt_selectedBranch,
  commitList <- dolt_commitList, statusList <- dolt_statusList, busy <- dolt_busy,
  message <- dolt_message, loading <- dolt_loading, modal <- dolt_modal,
  flows <- dolt_flows, seen <- dolt_seen, foreign <- dolt_foreign,
  orderly <- dolt_orderly, ops <- dolt_ops
dolt_vars ==
  <<dolt_log, dolt_work, dolt_active, dolt_clock, dolt_branchList, dolt_selectedBranch,
    dolt_commitList, dolt_statusList, dolt_busy, dolt_message, dolt_loading,
    dolt_modal, dolt_flows, dolt_seen, dolt_foreign, dolt_orderly, dolt_ops>>

GridPart == INSTANCE TableGrid WITH
  Cols <- GridCols, Fixed <- GridFixed, MaxRows <- MaxGridRows, MaxOps <- MaxGridOps,
  rows <- grid_rows,
  ranges <- grid_ranges, focus <- grid_focus, move <- grid_move, edit <- grid_edit,
  ops <- grid_ops, steady <- grid_steady
grid_vars == <<grid_rows, grid_ranges, grid_focus, grid_move, grid_edit, grid_ops, grid_steady>>

PanelPart == INSTANCE ResultPanel WITH
  Cols <- 2, RowsOf <- <<3, 2>>, Selections <- Selections, MaxEdits <- MaxCellEdits,
  MaxExports <- MaxExports, page <- panel_page, edits <- panel_edits, ranges <- panel_ranges,
  timer <- panel_timer, seen <- panel_seen, total <- panel_total,
  choice <- panel_choice, index <- panel_index, radio <- panel_radio,
  exported <- panel_exported, exports <- panel_exports, touched <- panel_touched,
  tapped <- panel_tapped
panel_vars ==
  <<panel_page, panel_edits, panel_ranges, panel_timer, panel_seen, panel_total,
    panel_choice, panel_index, panel_radio, panel_exported, panel_exports,
    panel_touched, panel_tapped>>

SettingsPart == INSTANCE ExportSettings WITH
  Buttons <- ExportButtons, Formats <- ExportFormats, Typed <- OptionTexts,
  MaxSteps <- MaxSettingSteps,
  setting <- settings_setting, stored <- settings_stored, last <- settings_last,
  clash <- settings_clash, steps <- settings_steps
settings_vars ==
  <<settings_setting, settings_stored, settings_last, settings_clash, settings_steps>>

\* A behaviour is one of one part; the variables of the others are empty and stay so.
OnlyAtFirst(p) ==
  /\ IF p = "tabs" THEN TabsPart!Init
     ELSE tabs_lists = <<>> /\ tabs_selected = <<>> /\ tabs_exists = <<>> /\
          tabs_saves = <<>> /\ tabs_modal = <<>> /\ tabs_fresh = <<>> /\ tabs_stale = <<>>
          /\ tabs_clash = <<>>
  /\ IF p = "schema" THEN SchemaPart!Init
     ELSE schema_objects = <<>> /\ schema_version = <<>> /\ schema_schema = <<>> /\
          schema_shown = <<>> /\ schema_screen = <<>> /\ schema_reqs = <<>> /\
          schema_dialog = <<>> /\ schema_calls = <<>> /\ schema_mass = <<>> /\
          schema_runs = <<>> /\ schema_calm = <<>> /\ schema_solo = <<>> /\
          schema_ops = <<>>
  /\ IF p = "change" THEN ChangePart!Init
     ELSE change_tables = <<>> /\ change_tab = <<>> /\ change_draft = <<>> /\
          change_loading = <<>> /\ change_isSaving = <<>> /\ change_fetches = <<>> /\
          change_sent = <<>> /\ change_edits = <<>> /\ change_ops = <<>> /\
          change_torn = <<>> /\ change_stale = <<>>
  /\ IF p = "prompt" THEN PromptPart!Init
     ELSE prompt_doc = <<>> /\ prompt_widget = <<>> /\ prompt_top = <<>> /\
          prompt_isActive = <<>> /\ prompt_locked = <<>> /\ prompt_form = <<>> /\
          prompt_asked = <<>> /\ prompt_queries = <<>> /\ prompt_mine = <<>> /\
          prompt_edits = <<>> /\ prompt_late = <<>> /\ prompt_doubled = <<>>
  /\ IF p = "diagram" THEN DiagramPart!Init
     ELSE diagram_live = <<>> /\ diagram_schema = <<>> /\ diagram_selected = <<>> /\
          diagram_boxes = <<>> /\ diagram_edges = <<>> /\ diagram_ops = <<>> /\
          diagram_moved = <<>>
  /\ IF p = "dolt" THEN DoltPart!Init
     ELSE dolt_log = <<>> /\ dolt_work = <<>> /\ dolt_active = <<>> /\ dolt_clock = <<>>
          /\ dolt_branchList = <<>> /\ dolt_selectedBranch = <<>> /\
          dolt_commitList = <<>> /\ dolt_statusList = <<>> /\ dolt_busy = <<>> /\
          dolt_message = <<>> /\ dolt_loading = <<>> /\ dolt_modal = <<>> /\
          dolt_flows = <<>> /\ dolt_seen = <<>> /\ dolt_foreign = <<>> /\
          dolt_orderly = <<>> /\ dolt_ops = <<>>
  /\ IF p = "grid" THEN GridPart!Init
     ELSE grid_rows = <<>> /\ grid_ranges = <<>> /\ grid_focus = <<>> /\ grid_move = <<>>
          /\ grid_edit = <<>> /\ grid_ops = <<>> /\ grid_steady = <<>>
  /\ IF p = "panel" THEN PanelPart!Init
     ELSE panel_page = <<>> /\ panel_edits = <<>> /\ panel_ranges = <<>> /\
          panel_timer = <<>> /\ panel_seen = <<>> /\ panel_total = <<>> /\
          panel_choice = <<>> /\ panel_index = <<>> /\ panel_radio = <<>> /\
          panel_exported = <<>> /\ panel_exports = <<>> /\ panel_touched = <<>> /\
          panel_tapped = <<>>
  /\ IF p = "settings" THEN SettingsPart!Init
     ELSE settings_setting = <<>> /\ settings_stored = <<>> /\ settings_last = <<>> /\
          settings_clash = <<>> /\ settings_steps = <<>>

Init == part \in {"tabs", "schema", "change", "prompt", "diagram", "dolt",
                  "grid", "panel", "settings"} /\ OnlyAtFirst(part)

TabsNext ==
  /\ part = "tabs" /\ TabsPart!Next
  /\ UNCHANGED <<part, schema_vars, change_vars, prompt_vars, diagram_vars, dolt_vars,
                 grid_vars, panel_vars, settings_vars>>

SchemaNext ==
  /\ part = "schema" /\ SchemaPart!Next
  /\ UNCHANGED <<part, tabs_vars, change_vars, prompt_vars, diagram_vars, dolt_vars,
                 grid_vars, panel_vars, settings_vars>>

ChangeNext ==
  /\ part = "change" /\ ChangePart!Next
  /\ UNCHANGED <<part, tabs_vars, schema_vars, prompt_vars, diagram_vars, dolt_vars,
                 grid_vars, panel_vars, settings_vars>>

PromptNext ==
  /\ part = "prompt" /\ PromptPart!Next
  /\ UNCHANGED <<part, tabs_vars, schema_vars, change_vars, diagram_vars, dolt_vars,
                 grid_vars, panel_vars, settings_vars>>

DiagramNext ==
  /\ part = "diagram" /\ DiagramPart!Next
  /\ UNCHANGED <<part, tabs_vars, schema_vars, change_vars, prompt_vars, dolt_vars,
                 grid_vars, panel_vars, settings_vars>>

DoltNext ==
  /\ part = "dolt" /\ DoltPart!Next
  /\ UNCHANGED <<part, tabs_vars, schema_vars, change_vars, prompt_vars, diagram_vars,
                 grid_vars, panel_vars, settings_vars>>

GridNext ==
  /\ part = "grid" /\ GridPart!Next
  /\ UNCHANGED <<part, tabs_vars, schema_vars, change_vars, prompt_vars, diagram_vars,
                 dolt_vars, panel_vars, settings_vars>>

PanelNext ==
  /\ part = "panel" /\ PanelPart!Next
  /\ UNCHANGED <<part, tabs_vars, schema_vars, change_vars, prompt_vars, diagram_vars,
                 dolt_vars, grid_vars, settings_vars>>

SettingsNext ==
  /\ part = "settings" /\ SettingsPart!Next
  /\ UNCHANGED <<part, tabs_vars, schema_vars, change_vars, prompt_vars, diagram_vars,
                 dolt_vars, grid_vars, panel_vars>>

Next == TabsNext \/ SchemaNext \/ ChangeNext \/ PromptNext \/ DiagramNext \/ DoltNext \/
        GridNext \/ PanelNext \/ SettingsNext

vars == <<part, tabs_vars, schema_vars, change_vars, prompt_vars, diagram_vars, dolt_vars,
          grid_vars, panel_vars, settings_vars>>
Spec == Init /\ [][Next]_vars
-----------------------------------------------------------------------------
\* The windows of the studio: a tab is selected whenever there is one.
TabIsShown == part = "tabs" => TabsPart!SelectedIsShown


\* The sidebar shows the schema and the mass-drop tab what became of each table; boxes of the
\* diagram do not cover each other, and its arrows run between them; the sidebar of a Dolt
\* repository shows the repository once everything is answered.
SchemaIsTrue ==
  /\ part = "schema" => SchemaPart!QuietSchemaIsTrue /\ SchemaPart!MassStatusIsTrue
  /\ part = "diagram" => DiagramPart!BoxesApart /\ DiagramPart!ArrowsRunBetween
  /\ part = "dolt" => DoltPart!QuietSidebarIsRepository

\* A table saved from the schema editor is the table that was shown, and what is shown as
\* unchanged is in the database.
ChangesAreTrue == part = "change" => ChangePart!ExecutedAsShown /\ ChangePart!UnchangedIsTrue

\* Between prompts the editor holds nothing of a suggestion that was not accepted.
PromptLeavesMine == part = "prompt" => PromptPart!EditorIsMine

\* Shift and an arrow select the rectangle from where the selection began.
ShiftSelectsRectangle == part = "grid" => GridPart!ShiftSpans

\* The total is that of the selection, and options typed for an export are used for it.
ButtonsFollowTable ==
  /\ part = "panel" => PanelPart!TotalIsOfSelection
  /\ part = "settings" => SettingsPart!OptionsAreRemembered

\* Ctrl and a click select or deselect one cell and no other, and an export writes what the
\* popover announced of the selection.
SelectedIsExported ==
  [][/\ part = "grid" => GridPart!CtrlClickStep
     /\ part = "panel" => PanelPart!ExportStep]_vars

\* What a tab holds unsaved is lost only when it is closed or its own save replaces it.
SavesReplaceTheirOwn == [][part = "tabs" => TabsPart!ReplaceStep]_vars
=============================================================================
