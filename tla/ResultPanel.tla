------------------------------ MODULE ResultPanel ------------------------------
(***************************************************************************)
(* The bar under a result: OptimizeTableState tells its listeners of a change  *)
(* 5 ms late, and the Export and Aggregate buttons keep what they were told.   *)
(* The buttons stay mounted when the table is read again (next page, refresh,  *)
(* sort), which makes a new OptimizeTableState without a selection.  Columns   *)
(* and rows are counted from 0; a cell is <<row, column>>.                     *)
(***************************************************************************)
EXTENDS Integers, Sequences, FiniteSets

CONSTANTS
  Cols,        \* number of columns
  RowsOf,      \* RowsOf[p]: number of rows of page p
  Selections,  \* sequences of ranges [x1, y1, x2, y2] that clicks may leave selected
  MaxEdits,    \* bound: edited cells
  MaxExports   \* bound: exports

VARIABLES
  page,        \* the page on the screen
  edits,       \* edits made to it
  ranges,      \* data.selectionRanges
  timer,       \* "none", "armed", or "dead": cleared, but its id is still set
  seen,        \* selectionCount: [rows, cols, ranges]
  total,       \* what the aggregate was computed from: [page, edits, ranges]
  choice,      \* exportSelection
  index,       \* selectedRangeIndex + 1
  radio,       \* what the open popover marks, "" when it is closed
  exported,    \* what the last export wrote, and what the popover said
  exports,
  touched,     \* history: a setting changed after the popover's mark was made
  tapped       \* history: a discard came within 5 ms of another change

grid == <<page, edits, ranges>>
button == <<choice, index, radio>>
vars == <<page, edits, ranges, timer, seen, total, choice, index, radio, exported, exports,
          touched, tapped>>

Choices == {"complete", "selected_row", "selected_col", "selected_range"}
Full(r) == r.x1 = 0 /\ r.x2 = Cols - 1
FullHeight(r, p) == r.y1 = 0 /\ r.y2 = RowsOf[p] - 1
Box(r) == (r.y1 .. r.y2) \X (r.x1 .. r.x2)
Elements(s) == {s[k] : k \in DOMAIN s}

\* getFullSelectionRowsIndex, getFullSelectionColsIndex and getSelectedRowIndex.
FullRows(s) == UNION {r.y1 .. r.y2 : r \in {q \in Elements(s) : Full(q)}}
FullCols(s, p) == UNION {r.x1 .. r.x2 : r \in {q \in Elements(s) : FullHeight(q, p)}}
SelectedRows(s) == UNION {r.y1 .. r.y2 : r \in Elements(s)}

-----------------------------------------------------------------------------
\* validateExportSelection.
Valid(c, s) ==
  IF \/ c = "selected_row" /\ s.rows = {}
     \/ c = "selected_col" /\ s.cols = {}
     \/ c = "selected_range" /\ s.ranges = <<>>
  THEN "complete" ELSE c

\* The listeners of both buttons; the saved selection is "complete" for ever.
Told ==
  /\ seen' = [rows |-> FullRows(ranges'), cols |-> FullCols(ranges', page), ranges |-> ranges']
  /\ total' = [page |-> page, edits |-> edits', ranges |-> ranges']
  /\ index' = IF ranges' = <<>> THEN index ELSE 1
  /\ choice' = Valid("complete", seen')
  /\ touched' = (touched \/ radio' # "")

Unheard == UNCHANGED <<seen, total, index, choice, touched>>

\* broadcastChange: a timer that is set already speaks for this change too.
Broadcast == timer' = IF timer = "none" THEN "armed" ELSE timer

\* Fault: the first listener to fire leaves the id of its timer set.
FireKeepingId ==
  /\ timer = "armed" /\ timer' = "dead"
  /\ UNCHANGED <<page, edits, ranges, radio, exported, exports, tapped>>
  /\ Told

Fire ==
  /\ timer = "armed" /\ timer' = "none"
  /\ UNCHANGED <<page, edits, ranges, radio, exported, exports, tapped>>
  /\ Told

\* A click in the grid closes the popover.
Select(s) ==
  /\ \A r \in Elements(s) : r.y2 < RowsOf[page]
  /\ ranges # s /\ ranges' = s /\ radio' = "" /\ Broadcast
  /\ UNCHANGED <<page, edits, exported, exports, tapped>> /\ Unheard

Edit ==
  /\ edits < MaxEdits
  /\ edits' = edits + 1 /\ radio' = "" /\ Broadcast
  /\ UNCHANGED <<page, ranges, exported, exports, tapped>> /\ Unheard

\* discardAllChange: told at once; the timer is cleared, and set unless its id still is.
Discard ==
  /\ edits > 0
  /\ edits' = 0 /\ radio' = ""
  /\ timer' = IF timer = "none" THEN "armed" ELSE "dead"
  /\ tapped' = (tapped \/ timer # "none")
  /\ UNCHANGED <<page, ranges, exported, exports>>
  /\ Told

\* selectTable answered: a new state, of which the buttons hear at its first change.
Reload ==
  /\ page < Len(RowsOf)
  /\ page' = page + 1 /\ edits' = 0 /\ ranges' = <<>> /\ timer' = "none"
  /\ UNCHANGED <<radio, exported, exports, tapped>> /\ Unheard

-----------------------------------------------------------------------------
\* It takes longer than 5 ms after a change to get here.
OpenPopover ==
  /\ timer # "armed"
  /\ radio = "" /\ radio' = choice /\ touched' = FALSE
  /\ UNCHANGED <<grid, timer, seen, total, choice, index, exported, exports, tapped>>

Choose(c) ==
  /\ radio # "" /\ c # radio /\ Valid(c, seen) = c
  /\ radio' = c /\ choice' = c /\ touched' = FALSE
  /\ UNCHANGED <<grid, timer, seen, total, index, exported, exports, tapped>>

PickRange(k) ==
  /\ radio # "" /\ k \in DOMAIN seen.ranges /\ k # index
  /\ index' = k
  /\ UNCHANGED <<grid, timer, seen, total, choice, radio, exported, exports, touched, tapped>>

\* A new format, target, separator or null text: the effect validates the saved selection.
ChangeSetting ==
  /\ radio # ""
  /\ choice' = Valid("complete", seen) /\ touched' = TRUE
  /\ UNCHANGED <<grid, timer, seen, total, index, radio, exported, exports, tapped>>

\* getFormatHandlers: the cells exported, of the rows as they were read.
Whole == (0 .. RowsOf[page] - 1) \X (0 .. Cols - 1)

\* Fault: the last row of a range is left out.
RecordsShort ==
  CASE choice = "complete" -> Whole
    [] choice = "selected_row" -> SelectedRows(ranges) \X (0 .. Cols - 1)
    [] choice = "selected_col" -> (0 .. RowsOf[page] - 1) \X FullCols(ranges, page)
    [] choice = "selected_range" -> LET r == ranges[index] IN (r.y1 .. r.y2 - 1) \X (r.x1 .. r.x2)

Records ==
  CASE choice = "complete" -> Whole
    [] choice = "selected_row" -> SelectedRows(ranges) \X (0 .. Cols - 1)
    [] choice = "selected_col" -> (0 .. RowsOf[page] - 1) \X FullCols(ranges, page)
    [] choice = "selected_range" -> Box(ranges[index])

\* What the popover says it will export.
Announced ==
  CASE radio = "complete" -> Whole
    [] radio = "selected_row" -> seen.rows \X (0 .. Cols - 1)
    [] radio = "selected_col" -> (0 .. RowsOf[page] - 1) \X seen.cols
    [] radio = "selected_range" -> Box(seen.ranges[IF index > 0 THEN index ELSE 1])

\* A range the new state does not have is an exception in the handler: nothing happens.
Throws == choice = "selected_range" /\ index \notin DOMAIN ranges

Export ==
  /\ radio # "" /\ exports < MaxExports
  /\ exports' = exports + 1
  /\ IF Throws THEN exported' = [got |-> {}, said |-> Announced, error |-> TRUE] /\ UNCHANGED radio
     ELSE exported' = [got |-> Records, said |-> Announced, error |-> FALSE] /\ radio' = ""
  /\ UNCHANGED <<grid, timer, seen, total, choice, index, touched, tapped>>

Init ==
  /\ page = 1 /\ edits = 0 /\ ranges = <<>> /\ timer = "none"
  /\ seen = [rows |-> {}, cols |-> {}, ranges |-> <<>>]
  /\ total = [page |-> 0, edits |-> 0, ranges |-> <<>>]
  /\ choice = "complete" /\ index = 0 /\ radio = ""
  /\ exported = [got |-> {}, said |-> {}, error |-> FALSE] /\ exports = 0
  /\ touched = FALSE /\ tapped = FALSE

Next ==
  \/ Fire \/ Edit \/ Discard \/ Reload \/ OpenPopover \/ ChangeSetting \/ Export
  \/ \E s \in Selections : Select(s)
  \/ \E c \in Choices : Choose(c)
  \/ \E k \in 1..2 : PickRange(k)

Spec == Init /\ [][Next]_vars

-----------------------------------------------------------------------------
\* Ranges that are not whole rows beside one that is.
Mixed == seen.rows # {} /\ SelectedRows(seen.ranges) # seen.rows
Current == seen.ranges = ranges /\ seen.cols = FullCols(ranges, page)

(***************************************************************************)
(* Action property.  An export writes the cells the popover announces -- if    *)
(* no setting was changed after the choice, the buttons have heard of the      *)
(* table on the screen, and whole rows are not selected beside other ranges.   *)
(***************************************************************************)
ExportStep ==
  exports' # exports /\ ~touched /\ Current /\ ~(Mixed /\ radio = "selected_row")
    => exported'.got = exported'.said /\ ~exported'.error
ExportsWhatIsMarked == [][ExportStep]_vars

(***************************************************************************)
(* Invariant.  The aggregate that is shown is of the cells selected in the     *)
(* table on the screen, or a timer is running that will compute it -- unless   *)
(* the table was read again and not touched since, or a discard came within    *)
(* 5 ms of another change, after which no timer is ever set again.             *)
(***************************************************************************)
TotalIsOfSelection ==
  \/ timer = "armed" \/ tapped
  \/ total.page # page /\ ranges = <<>> /\ edits = 0
  \/ total = [page |-> page, edits |-> edits, ranges |-> ranges]
=============================================================================
