----------------------------- MODULE TableEditor -----------------------------
(***************************************************************************)
(* The editable table of the admin studio: OptimizeTableState and the      *)
(* table-data tab around it, committing through the mesahub driver.        *)
(*                                                                         *)
(* The browser's thread runs one callback at a time; between two of them   *)
(* lie the await points: the answer to a fetch, the answer to each         *)
(* statement of a save and the clipboard.  The table has a primary key     *)
(* "id" that auto-increments and one other column "val".                   *)
(***************************************************************************)
EXTENDS Integers, Sequences, FiniteSets

CONSTANTS
  Ids,        \* values of the primary key, 1..n
  Vals,       \* values of "val" other than NULL
  Null,       \* SQL NULL, null in the editor
  Undef,      \* a property that is absent or undefined (DEFAULT in a menu)
  NoChange,   \* row.change is undefined
  None,       \* no focus, no fetch, no paste
  MaxRows,    \* bound: rows of the screen
  MaxSpan,    \* bound: a selection spans 1 + MaxSpan rows
  MaxOps,     \* bound: operations of the user
  MaxSaves,   \* bound: saves
  MaxFetches  \* bound: fetches after the first

ASSUME TableAssumption == /\ Ids # {} /\ IsFiniteSet(Ids) /\ Ids = 1..Cardinality(Ids)
                          /\ {Null, Undef} \cap (Vals \cup Ids) = {}
                          /\ Null # Undef

VARIABLES
  table,      \* the table on the server: id -> val
  obj,        \* the row objects of the current OptimizeTableState
  data,       \* state.data: the indexes of obj on the screen, top to bottom
  log,        \* state.changeLogs in the order of the change keys
  sel,        \* rows covered by state.selectionRanges
  focus,      \* row of state.focus
  instance,   \* which OptimizeTableState is shown: one per fetch
  saves,      \* the calls of commitChange, in the order they started
  fetch,      \* the fetch in flight
  paste,      \* a paste that waits for the clipboard
  calm,       \* history: see Disturbed
  ops         \* history: operations used

vars == <<table, obj, data, log, sel, focus, instance, saves, fetch, paste, calm, ops>>
screen == <<obj, data, log, sel, focus, instance>>

Cols == {"id", "val"}
Values == Ids \cup Vals \cup {Null, Undef}
Changes == UNION {[C -> Values] : C \in SUBSET Cols}
Empty == [c \in {} |-> Undef]

ASSUME NoChangeAssumption == NoChange \notin Changes

Row(raw, change, new, removed) ==
  [raw |-> raw, change |-> change, isNew |-> new, isRemoved |-> removed]
Loaded(i, v) == Row([id |-> i, val |-> v], NoChange, FALSE, FALSE)

\* { ...g, ...f }
Over(f, g) == [d \in DOMAIN f \cup DOMAIN g |-> IF d \in DOMAIN f THEN f[d] ELSE g[d]]

\* s without the elements of S.
Without(s, S) ==
  LET kept[n \in 0..Len(s)] ==
        IF n = 0 THEN <<>> ELSE IF s[n] \in S THEN kept[n - 1] ELSE Append(kept[n - 1], s[n])
  IN kept[Len(s)]

\* The rows of t by their key.
RowsOf(t) ==
  LET ids == Without([i \in 1..Cardinality(Ids) |-> i], Ids \ DOMAIN t)
  IN [k \in DOMAIN ids |-> <<ids[k], t[ids[k]]>>]
ObjectsOf(rows) == [k \in 1..Len(rows) |-> Loaded(rows[k][1], rows[k][2])]

Saving == \E s \in DOMAIN saves : saves[s].state = "run"
Fetching == \E f \in DOMAIN fetch : fetch[f].state # "shown"

\* History: every fetch in flight now overlaps with something else.
Overlapped == [f \in DOMAIN fetch |-> [fetch[f] EXCEPT !.alone = FALSE]]

\* deepEqual of the package deep-equal compares loosely: null == undefined.
LooselyEqual(a, b) == a = b \/ {a, b} = {Null, Undef}

(***************************************************************************)
(* Operations on a screen, as a record so that a loop can fold over it.    *)
(***************************************************************************)
Screen == [obj |-> obj, data |-> data, log |-> log]
Show(s) == obj' = s.obj /\ data' = s.data /\ log' = s.log

SetBack(s, r, c) ==
  LET row == s.obj[r]
      rest == [d \in DOMAIN row.change \ {c} |-> row.change[d]]
  IN IF row.change = NoChange \/ c \notin DOMAIN row.change THEN s
     ELSE IF DOMAIN rest = {}
          THEN [s EXCEPT !.obj[r].change = NoChange, !.log = Without(@, {r})]
          ELSE [s EXCEPT !.obj[r].change = rest]

ChangeValue(s, i, c, v) ==
  LET r == s.data[i]
      row == s.obj[r]
      new == [d \in {c} |-> v]
  IN IF i \notin DOMAIN s.data THEN s
     ELSE IF LooselyEqual(row.raw[c], v) THEN SetBack(s, r, c)
     ELSE IF row.change # NoChange
          THEN [s EXCEPT !.obj[r].change = Over(new, row.change)]
          ELSE [s EXCEPT !.obj[r].change = new, !.log = Append(@, r)]

InsertRow(s, i, initial) ==
  LET r == Len(s.obj) + 1
  IN [obj |-> Append(s.obj, Row([c \in Cols |-> Undef], initial, TRUE, FALSE)),
      data |-> SubSeq(s.data, 1, i - 1) \o <<r>> \o SubSeq(s.data, i, Len(s.data)),
      log |-> Append(s.log, r)]

\* Fault: a row that already has changes is logged again when it is removed.
RemoveRowTwiceLogged(s, i) ==
  IF i \notin DOMAIN s.data THEN s
  ELSE [s EXCEPT !.obj[s.data[i]].isRemoved = TRUE, !.obj[s.data[i]].change = Empty,
                 !.log = Append(@, s.data[i])]

\* Fault: removing a row forgets to log it when nothing else of it changed.
RemoveRowUnlogged(s, i) ==
  IF i \notin DOMAIN s.data THEN s
  ELSE [s EXCEPT !.obj[s.data[i]].isRemoved = TRUE, !.obj[s.data[i]].change = Empty]

RemoveRow(s, i) ==
  LET r == s.data[i]
      row == s.obj[r]
      logged == \E k \in DOMAIN s.log : s.log[k] = r
  IN IF i \notin DOMAIN s.data THEN s
     ELSE IF row.isNew /\ logged
          THEN [s EXCEPT !.data = Without(@, {r}), !.log = Without(@, {r})]
     ELSE IF logged THEN [s EXCEPT !.obj[r].isRemoved = TRUE]
     ELSE [s EXCEPT !.obj[r] = [@ EXCEPT !.isRemoved = TRUE, !.change = Empty],
                    !.log = Append(@, r)]

DiscardAll(s) ==
  LET logged == {s.log[k] : k \in DOMAIN s.log}
  IN [obj |-> [r \in 1..Len(s.obj) |-> IF r \in logged
                                       THEN Row(s.obj[r].raw, NoChange, FALSE, FALSE)
                                       ELSE s.obj[r]],
      data |-> Without(s.data, {r \in logged : s.obj[r].isNew}),
      log |-> <<>>]

\* Fault: what the server returned for a row is dropped.
ApplyWithoutReturned(s, updated) ==
  LET logged == {s.log[k] : k \in DOMAIN s.log}
  IN [obj |-> [r \in 1..Len(s.obj) |-> IF r \in logged
                                       THEN Row(Over(s.obj[r].change, s.obj[r].raw), NoChange, FALSE, FALSE)
                                       ELSE s.obj[r]],
      data |-> Without(s.data, {r \in logged : s.obj[r].isRemoved}),
      log |-> <<>>]

\* updated[r]: the record the server returned for row r, Empty if none.
ApplyChanges(s, updated) ==
  LET logged == {s.log[k] : k \in DOMAIN s.log}
      Saved(r) == Over(updated[r], Over(s.obj[r].change, s.obj[r].raw))
  IN [obj |-> [r \in 1..Len(s.obj) |-> IF r \in logged
                                       THEN Row(Saved(r), NoChange, FALSE, FALSE)
                                       ELSE s.obj[r]],
      data |-> Without(s.data, {r \in logged : s.obj[r].isRemoved}),
      log |-> <<>>]

(***************************************************************************)
(* generateTableChangePlan, validateOperation and one statement in SQLite. *)
(***************************************************************************)
\* Fault: the row is looked up by the key typed into it.
PlanByNewKey(r) ==
  [row |-> r, where |-> IF obj[r].change # NoChange /\ "id" \in DOMAIN obj[r].change
                        THEN obj[r].change["id"] ELSE obj[r].raw["id"],
   values |-> obj[r].change,
   op |-> IF obj[r].isNew THEN "INSERT" ELSE IF obj[r].isRemoved THEN "DELETE" ELSE "UPDATE"]

Plan(r) ==
  [row |-> r, where |-> obj[r].raw["id"], values |-> obj[r].change,
   op |-> IF obj[r].isNew THEN "INSERT" ELSE IF obj[r].isRemoved THEN "DELETE" ELSE "UPDATE"]

Plans == [k \in DOMAIN log |-> Plan(log[k])]

Valid(p) ==
  LET typed == IF "id" \in DOMAIN p.values THEN p.values["id"] ELSE Undef
  IN CASE p.op = "INSERT" -> typed # Null
       [] p.op = "DELETE" -> p.where \notin {Null, Undef}
       [] p.op = "UPDATE" -> p.where \notin {Null, Undef} /\ typed # Null

\* The id an INSERT or UPDATE leads to.
NextId == IF DOMAIN table = {} THEN 1 ELSE 1 + CHOOSE m \in DOMAIN table : \A i \in DOMAIN table : i <= m
TargetId(p) == IF "id" \in DOMAIN p.values THEN p.values["id"]
               ELSE IF p.op = "INSERT" THEN NextId ELSE p.where
TargetVal(p) == IF "val" \in DOMAIN p.values THEN p.values["val"]
                ELSE IF p.op = "INSERT" THEN Null ELSE table[p.where]
Matches(p) == p.op = "INSERT" \/ p.where \in DOMAIN table

\* SQLite has no DEFAULT in VALUES or SET, and no INSERT without columns.
Refused(p) ==
  /\ p.op # "DELETE"
  /\ \/ Undef \in {p.values[c] : c \in DOMAIN p.values}
     \/ p.values = Empty
     \/ Matches(p) /\ \/ TargetId(p) \notin Ids
                      \/ TargetId(p) \in DOMAIN table /\ ~(p.op = "UPDATE" /\ TargetId(p) = p.where)

Executed(p) ==
  LET kept == [i \in DOMAIN table \ (IF p.op = "INSERT" THEN {} ELSE {p.where}) |-> table[i]]
  IN IF ~Matches(p) THEN table
     ELSE IF p.op = "DELETE" THEN kept
     ELSE Over([i \in {TargetId(p)} |-> TargetVal(p)], kept)

Returned(p) == IF p.op = "DELETE" \/ ~Matches(p) THEN Empty
               ELSE [id |-> TargetId(p), val |-> TargetVal(p)]

(***************************************************************************)
(* Initially the first fetch has been answered.                            *)
(***************************************************************************)
Init ==
  /\ table \in [{1, 2} \cap Ids -> Vals]
  /\ obj = ObjectsOf(RowsOf(table))
  /\ data = [k \in 1..Len(obj) |-> k]
  /\ log = <<>>
  /\ sel = {}
  /\ focus = None
  /\ instance = 1
  /\ saves = <<>>
  /\ fetch = <<>>
  /\ paste = None
  /\ calm = TRUE
  /\ ops = 0

\* A row marked as new or removed that the change log has lost.
MarkLost(s) == \E i \in DOMAIN s.data :
                  /\ s.obj[s.data[i]].isNew \/ s.obj[s.data[i]].isRemoved
                  /\ ~\E k \in DOMAIN s.log : s.log[k] = s.data[i]

\* What an edit leaves: calm ends with an edit beside a save.
Edit(s) ==
  /\ Len(s.obj) <= MaxRows
  /\ Show(s)
  /\ calm' = (calm /\ ~Saving /\ ~MarkLost(s))
  /\ UNCHANGED <<table, instance, saves, fetch>>

\* An operation of the user counts against the bound.
User(s) == ops < MaxOps /\ ops' = ops + 1 /\ Edit(s)

(***************************************************************************)
(* The user.                                                               *)
(***************************************************************************)
\* A click or a drag downwards: rows lo..hi, the focus at the row it began on.
SelectRows(lo, hi) ==
  /\ ops < MaxOps
  /\ sel' = lo..hi
  /\ focus' = lo
  /\ UNCHANGED <<table, obj, data, log, instance, saves, fetch, paste, calm, ops>>

ValuesOf(c) == (IF c = "id" THEN Ids ELSE Vals) \cup {Null, Undef}

\* Leaving the cell's input by Enter, Tab, a click elsewhere or Escape, or a menu's
\* "Insert Value".  Escape too: exitEditMode focuses the container, the input loses the
\* focus, and its onBlur applies what was typed.
EditCell(c, v) ==
  /\ focus # None
  /\ focus \in DOMAIN data
  /\ User(ChangeValue(Screen, focus, c, v))
  /\ UNCHANGED <<sel, focus, paste>>

InsertAndSelect(initial) ==
  LET at == IF focus = None THEN 1 ELSE IF focus > Len(data) THEN Len(data) + 1 ELSE focus
      i == IF focus = None THEN 1 ELSE focus
  IN /\ User(InsertRow(Screen, at, initial))
     /\ sel' = {i}
     /\ focus' = i
     /\ UNCHANGED paste

NewRow == InsertAndSelect(Empty)

\* "if (!rowIndex) return": nothing happens on the first row.
DuplicateRow(withKey) ==
  /\ focus # None
  /\ focus \in DOMAIN data \ {1}
  /\ LET row == obj[data[focus]]
         change == IF row.change = NoChange THEN Empty ELSE row.change
         present == {c \in Cols : ~row.isNew \/ c \in DOMAIN change}
         copied == IF withKey THEN present ELSE present \ {"id"}
     IN InsertAndSelect([c \in copied |-> Over(change, row.raw)[c]])

\* removeRow for each selected index in turn; each shifts the rows behind it.
AfterDelete ==
  LET after[n \in 0..Len(data)] ==
        IF n = 0 THEN Screen ELSE IF n \in sel THEN RemoveRow(after[n - 1], n) ELSE after[n - 1]
  IN after[Len(data)]

DeleteSelected ==
  /\ sel # {}
  /\ User(AfterDelete)
  /\ UNCHANGED <<sel, focus, paste>>

Discard ==
  /\ User(DiscardAll(Screen))
  /\ UNCHANGED <<sel, focus, paste>>

\* The clipboard answers later; the cell that had the focus is filled.
StartPaste ==
  /\ focus # None
  /\ paste = None
  /\ ops < MaxOps
  /\ ops' = ops + 1
  /\ paste' = [at |-> focus, instance |-> instance]
  /\ UNCHANGED <<table, screen, saves, fetch, calm>>

FinishPaste(v) ==
  /\ paste # None
  /\ paste' = None
  /\ IF paste.instance = instance
     THEN Edit(ChangeValue(Screen, paste.at, "val", v)) /\ UNCHANGED <<sel, focus>>
     ELSE UNCHANGED <<table, screen, saves, fetch, calm>>
  /\ UNCHANGED ops

(***************************************************************************)
(* Saving: commitChange, updateTableData and the driver's transaction,     *)
(* which sends the statements one by one.                                  *)
(***************************************************************************)
Ended(how) == [state |-> how, plans |-> <<>>, returned |-> <<>>, instance |-> 0]

Commit ==
  /\ log # <<>>
  /\ Len(saves) < MaxSaves
  /\ LET ok == \A k \in DOMAIN log : Valid(Plan(log[k]))
     IN /\ saves' = Append(saves, IF ok THEN [state |-> "run", plans |-> Plans, returned |-> <<>>,
                                              instance |-> instance]
                                   ELSE Ended("failed"))
        /\ calm' = (calm /\ (ok => ~Saving /\ ~Fetching))
  /\ fetch' = Overlapped
  /\ UNCHANGED <<table, screen, paste, ops>>

NextPlan(s) == saves[s].plans[Len(saves[s].returned) + 1]
Unfinished(s) == saves[s].state = "run" /\ Len(saves[s].returned) < Len(saves[s].plans)

RunStatement(s) ==
  /\ Unfinished(s)
  /\ ~Refused(NextPlan(s))
  /\ table' = Executed(NextPlan(s))
  /\ saves' = [saves EXCEPT ![s].returned = Append(@, Returned(NextPlan(s)))]
  /\ UNCHANGED <<screen, fetch, paste, calm, ops>>

\* The statement is refused, or the request or its answer is lost.
FailStatement(s) ==
  /\ Unfinished(s)
  /\ \E ran \in BOOLEAN :
       /\ ran => ~Refused(NextPlan(s))
       /\ table' = IF ran THEN Executed(NextPlan(s)) ELSE table
       /\ calm' = (calm /\ ~ran /\ saves[s].returned = <<>>)
  /\ saves' = [saves EXCEPT ![s] = Ended("failed")]
  /\ UNCHANGED <<screen, fetch, paste, ops>>

ReturnedFor(s) ==
  [r \in 1..Len(obj) |->
     LET ks == {k \in DOMAIN saves[s].plans : saves[s].plans[k].row = r}
     IN IF ks = {} THEN Empty ELSE saves[s].returned[CHOOSE k \in ks : TRUE]]

FinishSave(s) ==
  /\ saves[s].state = "run"
  /\ Len(saves[s].returned) = Len(saves[s].plans)
  /\ saves' = [saves EXCEPT ![s] = Ended("done")]
  /\ IF saves[s].instance # instance THEN UNCHANGED screen
     ELSE /\ Show(ApplyChanges(Screen, ReturnedFor(s)))
          /\ sel' = IF \E k \in DOMAIN log : obj[log[k]].isRemoved THEN {} ELSE sel
          /\ UNCHANGED <<focus, instance>>
  /\ UNCHANGED <<table, fetch, paste, calm, ops>>

(***************************************************************************)
(* Fetching: the refresh button, a filter, a sort or another page.  Only   *)
(* the buttons wait for the fetch before them.                             *)
(***************************************************************************)
StartFetch ==
  /\ Len(fetch) < MaxFetches
  /\ fetch' = Append(Overlapped, [state |-> "sent", rows |-> <<>>,
                                  alone |-> ~Saving /\ ~Fetching])
  /\ calm' = (calm /\ ~Saving)
  /\ UNCHANGED <<table, screen, saves, paste, ops>>

ReadFetch(f) ==
  /\ fetch[f].state = "sent"
  /\ fetch' = [fetch EXCEPT ![f].state = "read", ![f].rows = RowsOf(table)]
  /\ UNCHANGED <<table, screen, saves, paste, calm, ops>>

ShowFetch(f) ==
  /\ fetch[f].state = "read"
  /\ fetch' = [fetch EXCEPT ![f] = [state |-> "shown", rows |-> <<>>, alone |-> FALSE]]
  /\ obj' = ObjectsOf(fetch[f].rows)
  /\ data' = [k \in DOMAIN fetch[f].rows |-> k]
  /\ log' = <<>>
  /\ sel' = {}
  /\ focus' = None
  /\ instance' = instance + 1
  /\ calm' = fetch[f].alone
  /\ UNCHANGED <<table, saves, paste, ops>>

Next ==
  \/ \E lo, hi \in DOMAIN data : hi - lo \in 0..MaxSpan /\ SelectRows(lo, hi)
  \/ \E c \in Cols : \E v \in ValuesOf(c) : EditCell(c, v)
  \/ NewRow
  \/ \E withKey \in BOOLEAN : DuplicateRow(withKey)
  \/ DeleteSelected
  \/ Discard
  \/ StartPaste
  \/ \E v \in Vals \cup {Null} : FinishPaste(v)
  \/ Commit
  \/ \E s \in DOMAIN saves : RunStatement(s) \/ FailStatement(s) \/ FinishSave(s)
  \/ StartFetch
  \/ \E f \in DOMAIN fetch : ReadFetch(f) \/ ShowFetch(f)

Spec == Init /\ [][Next]_vars
-----------------------------------------------------------------------------
\* Save and Discard go through the change log; what is shown as changed is in the rows.  The
\* two agree through edits set back, rows inserted and removed, answers and refreshes:
\* no change on the screen is out of reach of Save, and none is saved that is not shown.
PendingIsExact ==
  {data[i] : i \in {j \in DOMAIN data : obj[data[j]].change # NoChange}}
    = {log[k] : k \in DOMAIN log}

\* While calm lasts (no edit, save or fetch beside a save in flight, no save that failed half
\* way, no mark lost by setting a cell back) the original values on the screen are the
\* table: each row of the table is there once, under its key, whatever was saved.
ScreenMirrorsTable ==
  calm /\ ~Saving =>
    LET rows == {data[i] : i \in {j \in DOMAIN data : ~obj[data[j]].isNew}}
    IN /\ \A r \in rows : /\ obj[r].raw["id"] \in DOMAIN table
                          /\ obj[r].raw["val"] = table[obj[r].raw["id"]]
       /\ \A i \in DOMAIN table : Cardinality({r \in rows : obj[r].raw["id"] = i}) = 1

Shown(r) == IF obj[r].change = NoChange THEN obj[r].raw ELSE Over(obj[r].change, obj[r].raw)

\* A save that ends well in calm has made the table what the screen showed: rows marked as
\* removed are gone, and every other row is there with the values seen, those
\* left to the database excepted.
SavedAsShown ==
  [][\A s \in DOMAIN saves :
       FinishSave(s) /\ calm =>
         LET kept == {data[i] : i \in {j \in DOMAIN data : ~obj[data[j]].isRemoved}}
         IN /\ Cardinality(kept) = Cardinality(DOMAIN table)
            /\ \A r \in kept : \E i \in DOMAIN table :
                 /\ Shown(r)["id"] \in {i, Undef}
                 /\ Shown(r)["val"] \in {table[i], Undef}]_vars

\* The menu says "Delete selected row(s)": no other row gets the mark.
DeletesOnlySelected ==
  [][DeleteSelected => \A i \in DOMAIN data :
       obj'[data[i]].isRemoved => obj[data[i]].isRemoved \/ i \in sel]_vars
=============================================================================
