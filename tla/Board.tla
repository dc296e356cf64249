-------------------------------- MODULE Board --------------------------------
(***************************************************************************)
(* A dashboard: charts, their places and the filters of their queries, the *)
(* dialog of a filter, the editor of a chart, and the storage in IndexedDB *)
(* which keeps a copy of its own and writes it whole.                      *)
(*                                                                         *)
(* A call of the storage queues its puts and answers at once; the puts are *)
(* made in order, and those not made when the page goes away are lost.     *)
(* The page around the board holds the value the board hands it, apart     *)
(* from the storage's copy.                                                *)
(***************************************************************************)
EXTENDS Integers, Sequences, FiniteSets, SequencesExt

CONSTANTS
  Sqls,        \* queries of charts
  Picks,       \* values of the filters
  MaxCharts,   \* bound: charts made
  MaxFilters,  \* bound: filters at a time
  MaxOps       \* bound: what the user does

None == "none"  \* no query, no name, nothing drawn
Observed == 1   \* the chart whose drawing is followed

VARIABLES
  value,    \* what the page shows: [charts, layout, filters]
  board,    \* LocalBoardStorage.board
  puts,     \* puts not made yet
  disk,
  ids,
  mode,     \* "none", "rearrange", "edit"
  editor,   \* [id, sql, typed: what the user typed, runs: queries not answered]
  dialog,   \* index of the filter in the dialog, or 0
  pick,     \* filterValue
  panel,    \* the observed chart: [on, key, data, error, queries]
  dirty,    \* history: changes that nothing has saved yet
  torn,     \* history: the page went away with puts not made
  typed,    \* history: the type of a new filter was chosen
  overlap,  \* history: the observed chart asked twice before an answer
  rerun,    \* history: SQL was typed while the editor's query ran
  ops

vars == <<value, board, puts, disk, ids, mode, editor, dialog, pick, panel, dirty, torn,
          typed, overlap, rerun, ops>>

Empty == [charts |-> <<>>, layout |-> <<>>, filters |-> <<>>]
NoEditor == [id |-> 0, sql |-> None, typed |-> None, runs |-> <<>>]
NoPanel == [on |-> FALSE, key |-> None, data |-> None, error |-> None, queries |-> <<>>]
NewFilter == [name |-> FALSE, new |-> TRUE]
At(id, charts) == SelectInSeq(charts, LAMBDA c : c.id = id)

Init ==
  /\ value = Empty /\ board = Empty /\ puts = <<>> /\ disk = Empty /\ ids = 0
  /\ mode = "none" /\ editor = NoEditor /\ dialog = 0
  /\ pick \in Picks /\ panel = NoPanel
  /\ dirty = FALSE /\ torn = FALSE /\ typed = FALSE /\ overlap = FALSE /\ rerun = FALSE
  /\ ops = 0

-----------------------------------------------------------------------------
Act == ops < MaxOps /\ ops' = ops + 1

\* Fault: asking again leaves the error of the query before.
AskedKeepingError(p, key) == [p EXCEPT !.key = key, !.queries = Append(@, key)]

Asked(p, key) == [p EXCEPT !.key = key, !.error = None, !.queries = Append(@, key)]

\* The observed chart's effect: it asks when its query, a filter or the time of the last run
\* changed; without a query it keeps what it has.
Draw(v, p, again) ==
  LET i == At(Observed, v.charts)
      sql == v.charts[i].sql
      key == <<sql, p>>
      was == IF panel.on THEN panel ELSE [NoPanel EXCEPT !.on = TRUE]
      asks == sql # None /\ (again \/ key # was.key) IN
  /\ panel' = IF i = 0 THEN NoPanel
              ELSE IF ~asks THEN was
              ELSE Asked(was, key)
  /\ overlap' = IF i = 0 THEN FALSE ELSE overlap \/ (asks /\ was.queries # <<>>)

\* onChange: the page renders the board with the new value.
Show(v) == value' = v /\ Draw(v, pick, FALSE)

\* save: the board of the storage is not changed.
Save(v) == puts' = Append(puts, v) /\ dirty' = FALSE /\ UNCHANGED <<board, disk>>
Unsaved == dirty' = TRUE /\ UNCHANGED <<board, puts, disk>>
Free == mode # "edit" /\ dialog = 0

\* A new filter is shown before it has a name.
AddFilter ==
  /\ Act /\ Free /\ Len(value.filters) < MaxFilters
  /\ Show([value EXCEPT !.filters = Append(@, NewFilter)])
  /\ dialog' = Len(value.filters) + 1
  /\ Unsaved
  /\ UNCHANGED <<ids, mode, editor, pick, torn, typed, rerun>>

OpenFilter(i) ==
  /\ Act /\ Free /\ i \in 1..Len(value.filters)
  /\ dialog' = i
  /\ UNCHANGED <<value, board, puts, disk, ids, mode, editor, pick, panel, dirty, torn, typed,
                 overlap, rerun>>

\* The dialog edits the filter in place; choosing a type starts it again, without its mark.
EditFilter(f) ==
  /\ Act /\ dialog # 0
  /\ Show([value EXCEPT !.filters[dialog] = f])
  /\ Unsaved
  /\ UNCHANGED <<ids, mode, editor, dialog, pick, torn, rerun>>
TypeName == dialog # 0 /\ EditFilter([value.filters[dialog] EXCEPT !.name = TRUE]) /\ UNCHANGED typed
ChooseType == dialog # 0 /\ EditFilter([name |-> FALSE, new |-> FALSE]) /\ typed' = TRUE

SaveFilter ==
  LET v == [value EXCEPT !.filters[dialog].new = FALSE] IN
  /\ Act /\ dialog # 0 /\ value.filters[dialog].name
  /\ Show(v) /\ Save(v) /\ dialog' = 0
  /\ UNCHANGED <<ids, mode, editor, pick, torn, typed, rerun>>

\* Fault: a new filter that is cancelled stays.
KeepCancelled(v) == v

\* A filter that is still marked new goes; edits of another stay.
DropCancelled(v) ==
  IF v.filters[dialog].new THEN [v EXCEPT !.filters = RemoveAt(@, dialog)] ELSE v

CancelFilter ==
  /\ Act /\ dialog # 0
  /\ Show(DropCancelled(value)) /\ Unsaved /\ dialog' = 0
  /\ UNCHANGED <<ids, mode, editor, pick, torn, typed, rerun>>

RemoveFilter(i) ==
  LET v == [value EXCEPT !.filters = RemoveAt(@, i)] IN
  /\ Act /\ Free /\ i \in 1..Len(value.filters)
  /\ Show(v) /\ Save(v)
  /\ UNCHANGED <<ids, mode, editor, dialog, pick, torn, typed, rerun>>

PickValue(p) ==
  /\ Act /\ Free /\ p # pick /\ value.filters # <<>>
  /\ pick' = p /\ Draw(value, p, FALSE)
  /\ UNCHANGED <<value, board, puts, disk, ids, mode, editor, dialog, dirty, torn, typed, rerun>>

Refresh ==
  /\ Act /\ Free /\ Draw(value, pick, TRUE)
  /\ UNCHANGED <<value, board, puts, disk, ids, mode, editor, dialog, pick, dirty, torn, typed, rerun>>

-----------------------------------------------------------------------------
Rearrange ==
  /\ Act /\ Free /\ value.charts # <<>>
  /\ mode' = IF mode = "none" THEN "rearrange" ELSE "none"
  /\ UNCHANGED <<value, board, puts, disk, ids, editor, dialog, pick, panel, dirty, torn, typed,
                 overlap, rerun>>

Move ==
  /\ Act /\ mode = "rearrange" /\ dialog = 0 /\ Len(value.layout) > 1
  /\ Show([value EXCEPT !.layout = Reverse(@)]) /\ Unsaved
  /\ UNCHANGED <<ids, mode, editor, dialog, pick, torn, typed, rerun>>

SaveBoard ==
  /\ Act /\ Free /\ mode' = "none" /\ Save(value)
  /\ UNCHANGED <<value, ids, editor, dialog, pick, panel, torn, typed, overlap, rerun>>

\* Fault: the place of a deleted chart stays.
WithoutChartOnly(id, v) == [v EXCEPT !.charts = SelectSeq(@, LAMBDA c : c.id # id)]

Without(id, v) == [v EXCEPT !.layout = SelectSeq(@, LAMBDA i : i # id),
                            !.charts = SelectSeq(@, LAMBDA c : c.id # id)]

\* The storage removes the chart from its copy and puts it, then puts the board's value.
DeleteChart(id) ==
  LET b == [board EXCEPT !.charts = SelectSeq(@, LAMBDA c : c.id # id)]
      v == Without(id, value) IN
  /\ Act /\ Free /\ At(id, value.charts) # 0
  /\ board' = b /\ puts' = puts \o <<b, v>> /\ dirty' = FALSE
  /\ Show(v)
  /\ UNCHANGED <<disk, ids, mode, editor, dialog, pick, torn, typed, rerun>>

\* The editor of an existing chart runs its query at once.
OpenEditor(id) ==
  LET i == At(id, value.charts)
      sql == IF i = 0 THEN None ELSE value.charts[i].sql IN
  /\ Act /\ Free /\ (i = 0 => id = 0 /\ ids < MaxCharts)
  /\ mode' = "edit"
  /\ editor' = [id |-> id, sql |-> sql, typed |-> sql, runs |-> IF id = 0 THEN <<>> ELSE <<sql>>]
  /\ rerun' = FALSE
  /\ UNCHANGED <<value, board, puts, disk, ids, dialog, pick, panel, dirty, torn, typed, overlap>>

TypeSql(s) ==
  /\ Act /\ mode = "edit" /\ s # editor.sql
  /\ editor' = [editor EXCEPT !.sql = s, !.typed = s] /\ rerun' = (rerun \/ editor.runs # <<>>)
  /\ UNCHANGED <<value, board, puts, disk, ids, mode, dialog, pick, panel, dirty, torn, typed,
                 overlap>>

RunEditor ==
  /\ Act /\ mode = "edit"
  /\ editor' = [editor EXCEPT !.runs = Append(@, editor.sql)]
  /\ UNCHANGED <<value, board, puts, disk, ids, mode, dialog, pick, panel, dirty, torn, typed,
                 overlap, rerun>>

\* A result makes the chart anew with the query it is of; a failure only shows itself.
Answer(i, ok) ==
  /\ mode = "edit" /\ i \in 1..Len(editor.runs)
  /\ editor' = [editor EXCEPT !.sql = IF ok THEN editor.runs[i] ELSE @, !.runs = RemoveAt(@, i)]
  /\ UNCHANGED <<value, board, puts, disk, ids, mode, dialog, pick, panel, dirty, torn, typed,
                 overlap, rerun, ops>>

\* Fault: what add or update put is not followed by the board's value.
PutCopyOnly(b, v) == puts' = Append(puts, b) /\ dirty' = FALSE

PutBoth(b, v) == puts' = puts \o <<b, v>> /\ dirty' = FALSE

\* add and update put the storage's copy, then save puts the board's value.  A chart the
\* copy does not have is not put by update.
SaveChart ==
  LET c == [id |-> IF editor.id = 0 THEN ids + 1 ELSE editor.id, sql |-> editor.sql]
      Put(b) == IF editor.id = 0 THEN [b EXCEPT !.charts = Append(@, c)]
                ELSE [b EXCEPT !.charts = [i \in DOMAIN @ |-> IF @[i].id = c.id THEN c ELSE @[i]]]
      v == IF editor.id = 0 THEN [Put(value) EXCEPT !.layout = Append(@, c.id)] ELSE Put(value) IN
  /\ Act /\ mode = "edit"
  /\ board' = Put(board)
  /\ IF editor.id # 0 /\ At(editor.id, board.charts) = 0
       THEN puts' = Append(puts, v) /\ dirty' = FALSE
       ELSE PutBoth(board', v)
  /\ ids' = IF editor.id = 0 THEN ids + 1 ELSE ids
  /\ Show(v)
  /\ mode' = "none" /\ editor' = NoEditor
  /\ UNCHANGED <<disk, dialog, pick, torn, typed, rerun>>

CancelEditor ==
  /\ Act /\ mode = "edit" /\ mode' = "none" /\ editor' = NoEditor
  /\ UNCHANGED <<value, board, puts, disk, ids, dialog, pick, panel, dirty, torn, typed, overlap, rerun>>

-----------------------------------------------------------------------------
Settle(k, ok) ==
  panel' = [panel EXCEPT !.queries = RemoveAt(@, k),
                         !.data = IF ok THEN panel.queries[k] ELSE @,
                         !.error = IF ok THEN @ ELSE panel.queries[k]]

DrawAnswer(k, ok) ==
  /\ panel.on /\ k \in 1..Len(panel.queries) /\ Settle(k, ok)
  /\ UNCHANGED <<value, board, puts, disk, ids, mode, editor, dialog, pick, dirty, torn, typed,
                 overlap, rerun, ops>>

Put1 ==
  /\ puts # <<>> /\ disk' = Head(puts) /\ puts' = Tail(puts)
  /\ UNCHANGED <<value, board, ids, mode, editor, dialog, pick, panel, dirty, torn, typed, overlap,
                 rerun, ops>>

\* The page goes away and is opened again: board and storage are made from what is stored.
Reload ==
  /\ Act
  /\ value' = disk /\ board' = disk /\ puts' = <<>>
  /\ mode' = "none" /\ editor' = NoEditor /\ dialog' = 0 /\ dirty' = FALSE
  /\ torn' = (torn \/ puts # <<>>)
  /\ LET i == At(Observed, disk.charts)
         key == <<disk.charts[i].sql, pick>> IN
     panel' = IF i = 0 THEN NoPanel
              ELSE IF disk.charts[i].sql = None THEN [NoPanel EXCEPT !.on = TRUE]
              ELSE Asked([NoPanel EXCEPT !.on = TRUE], key)
  /\ overlap' = FALSE
  /\ UNCHANGED <<disk, ids, pick, typed, rerun>>

Next ==
  \/ AddFilter \/ TypeName \/ ChooseType \/ SaveFilter \/ CancelFilter
  \/ \E i \in 1..Len(value.filters) : OpenFilter(i) \/ RemoveFilter(i)
  \/ (\E p \in Picks : PickValue(p)) \/ Refresh
  \/ Rearrange \/ Move \/ SaveBoard \/ (\E id \in 1..ids : DeleteChart(id))
  \/ (\E id \in 0..ids : OpenEditor(id)) \/ (\E s \in Sqls : TypeSql(s)) \/ RunEditor
  \/ \E i \in 1..Len(editor.runs), ok \in BOOLEAN : Answer(i, ok)
  \/ SaveChart \/ CancelEditor
  \/ \E k \in 1..Len(panel.queries), ok \in BOOLEAN : DrawAnswer(k, ok)
  \/ Put1 \/ Reload

Spec == Init /\ [][Next]_vars
-----------------------------------------------------------------------------
\* Each chart has one place.
OnePlaceEach(v) ==
  /\ Len(v.layout) = Len(v.charts)
  /\ \A i \in 1..Len(v.charts) : v.charts[i].id \in ToSet(v.layout)

\* What was saved is stored once its puts are made, each stored chart has one place, and no
\* nameless filter is kept unless its type was chosen (local.ts:10-61, board-filter.tsx:188-222,
\* board-delete-dialog.tsx:30-50).
BoardIsStored ==
  /\ (puts = <<>> /\ ~dirty) => disk = value
  /\ ~torn => OnePlaceEach(value) /\ (puts = <<>> => OnePlaceEach(disk))
  /\ (~typed /\ dialog = 0) => \A i \in 1..Len(value.filters) : value.filters[i].name

\* A chart whose queries did not overlap shows the answer to the last, data or error
\* (board-chart.tsx:27-46).
ChartIsOfItsQuery ==
  (panel.on /\ panel.queries = <<>> /\ ~overlap) =>
    (IF panel.error # None THEN panel.error ELSE panel.data) = panel.key

\* The editor's query is the one typed unless it was typed during a run, whose result puts the
\* older one back (board-chart-editor.tsx:76-122).
EditorKeepsTyping == ~rerun => editor.sql = editor.typed
=============================================================================
