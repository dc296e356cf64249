------------------------------ MODULE QueryTab ------------------------------
(***************************************************************************)
(* A query tab: the text in its editor, the variables found in it a second   *)
(* after the last key, and the runs.  A run sends its statements one by one   *)
(* (multipleQuery) and nothing stops a second run from starting meanwhile.   *)
(* A document is the list of statements the editor's parser finds.           *)
(***************************************************************************)
EXTENDS Integers, Sequences, FiniteSets, SequencesExt, FiniteSetsExt

CONSTANTS
  Docs,      \* texts: sequences of [verb, begins, ends, vars, from, to, rows]
  Line,      \* the width of a line: the line of position p is p \div Line
  MaxRuns,   \* bound: clicks on Run
  MaxEdits   \* bound: edits of the text

Absent == "undefined"

VARIABLES
  code, timer,         \* the text, and whether the effect that looks for variables is due
  placeholders,        \* variable -> "" or "value"
  runs,                \* runs in flight: [id, stmts, at, results]
  data, progress,      \* what is shown: [run, results] and [run, done]; run 0 is undefined
  selected,            \* queryTabIndex
  stale,               \* the schema changed since the schema was last asked for
  clicks, edits,
  alone,               \* history: no run was started while another was in flight
  unseen               \* history: an ALTER was executed

vars == <<code, timer, placeholders, runs, data, progress, selected, stale, clicks, edits,
          alone, unseen>>
editor == <<code, timer, placeholders, edits>>

Nothing == [run |-> 0, results |-> <<>>]
NoProgress == [run |-> 0, done |-> 0]

Init ==
  /\ code \in Docs /\ timer = TRUE /\ placeholders = <<>>
  /\ runs = <<>> /\ data = Nothing /\ progress = NoProgress /\ selected = 0
  /\ stale = FALSE /\ clicks = 0 /\ edits = 0 /\ alone = TRUE /\ unseen = FALSE

-----------------------------------------------------------------------------
\* splitSqlQuery: a statement is a group of its own unless a BEGIN is open.
Needs(s) == IF s.verb \in {"select", "insert", "update", "delete"} THEN 0 ELSE s.begins

Collect(acc, s) ==
  LET need == acc.need + Needs(s)
      left == IF s.ends THEN need - 1 ELSE need
      open == Append(acc.open, s)
  IN IF need = 0 THEN [acc EXCEPT !.groups = Append(@, <<s>>)]
     ELSE IF left = 0 THEN [groups |-> Append(acc.groups, open), open |-> <<>>, need |-> 0]
     ELSE [acc EXCEPT !.open = open, !.need = left]

SplitSqlQuery(doc) ==
  LET acc == FoldLeft(Collect, [groups |-> <<>>, open |-> <<>>, need |-> 0], doc)
  IN IF acc.open = <<>> THEN acc.groups ELSE Append(acc.groups, acc.open)

From(g) == g[1].from
To(g) == g[Len(g)].to

\* The index of the statement at the cursor, or of the one on the nearest line, the next of two
\* that are as near.
ResolveToNearestStatement(groups, cursor) ==
  LET around == {i \in DOMAIN groups : From(groups[i]) <= cursor /\ cursor <= To(groups[i])}
      before == {i \in DOMAIN groups : To(groups[i]) < cursor}
      after == {i \in DOMAIN groups : From(groups[i]) > cursor}
      above == cursor \div Line - To(groups[Max(before)]) \div Line
      below == From(groups[Min(after)]) \div Line - cursor \div Line
  IN CASE around # {} -> Min(around)
       [] before = {} -> Min(after)
       [] after = {} -> Max(before)
       [] OTHER -> IF above >= below THEN Min(after) ELSE Max(before)

\* What is sent for a group: [verb, vars, rows, parts].
Text(g) == [verb |-> g[1].verb, vars |-> UNION {g[k].vars : k \in DOMAIN g},
            rows |-> g[1].rows, parts |-> Len(g)]
Explained(s) == IF s.verb = "explain" THEN s ELSE [s EXCEPT !.verb = "explain", !.rows = TRUE]

-----------------------------------------------------------------------------
Variables(doc) == UNION {doc[k].vars : k \in DOMAIN doc}

Edit(doc) ==
  /\ doc # code /\ edits < MaxEdits
  /\ code' = doc /\ timer' = TRUE /\ edits' = edits + 1
  /\ UNCHANGED <<placeholders, runs, data, progress, selected, stale, clicks, alone, unseen>>

\* The effect, one second after the last edit: values typed before are kept.
FindPlaceholders ==
  /\ timer
  /\ timer' = FALSE
  /\ placeholders' = [v \in Variables(code) |->
                        IF v \in DOMAIN placeholders THEN placeholders[v] ELSE ""]
  /\ UNCHANGED <<code, edits, runs, data, progress, selected, stale, clicks, alone, unseen>>

Fill(v, value) ==
  /\ placeholders[v] # value
  /\ placeholders' = [placeholders EXCEPT ![v] = value]
  /\ UNCHANGED <<code, timer, edits, runs, data, progress, selected, stale, clicks, alone, unseen>>

-----------------------------------------------------------------------------
Value(v) == IF v \in DOMAIN placeholders THEN placeholders[v] ELSE Absent

\* "Please fill in all placeholders" -- and a variable the effect has not found yet makes the
\* handler throw.  Either way nothing is sent.
Sendable(stmts) == \A k \in DOMAIN stmts : \A v \in stmts[k].vars : Value(v) \notin {"", Absent}

Start(stmts) ==
  /\ runs' = Append(runs, [id |-> clicks + 1, stmts |-> stmts, at |-> 1, results |-> <<>>])
  /\ progress' = [run |-> clicks + 1, done |-> 0]
  /\ alone' = (alone /\ runs = <<>>)

\* Fault: the old result stays until the new one is there.
RunStatementsKeepingData(stmts) ==
  /\ clicks < MaxRuns /\ clicks' = clicks + 1
  /\ stmts # <<>>
  /\ selected' = 0
  /\ IF Sendable(stmts) THEN Start(stmts) ELSE progress' = NoProgress /\ UNCHANGED <<runs, alone>>
  /\ UNCHANGED <<data, editor, stale, unseen>>

\* Fault: the tab selected in the old result stays selected.
RunStatementsKeepingTab(stmts) ==
  /\ clicks < MaxRuns /\ clicks' = clicks + 1
  /\ stmts # <<>>
  /\ data' = Nothing
  /\ IF Sendable(stmts) THEN Start(stmts) ELSE progress' = NoProgress /\ UNCHANGED <<runs, alone>>
  /\ UNCHANGED <<selected, editor, stale, unseen>>

\* onRunClicked.  The old result is cleared first, also when nothing is sent.
RunStatements(stmts) ==
  /\ clicks < MaxRuns /\ clicks' = clicks + 1
  /\ stmts # <<>>
  /\ data' = Nothing /\ selected' = 0
  /\ IF Sendable(stmts) THEN Start(stmts) ELSE progress' = NoProgress /\ UNCHANGED <<runs, alone>>
  /\ UNCHANGED <<editor, stale, unseen>>

RunAll ==
  LET groups == SplitSqlQuery(code) IN RunStatements([k \in DOMAIN groups |-> Text(groups[k])])

RunCurrent(cursor, explained) ==
  LET groups == SplitSqlQuery(code)
      s == Text(groups[ResolveToNearestStatement(groups, cursor)])
  IN RunStatements(<<IF explained THEN Explained(s) ELSE s>>)

-----------------------------------------------------------------------------
Ends(r, results) ==
  /\ runs' = RemoveAt(runs, CHOOSE i \in DOMAIN runs : runs[i].id = r.id)
  /\ data' = [run |-> r.id, results |-> results]

\* A statement that starts with CREATE or DROP is taken to change the schema, an ALTER is not.
IsNoticed(s) == s.verb \in {"create", "drop"}
ChangesSchema(s) == s.verb \in {"create", "drop", "alter"}

\* Fault: only the last statement of the run is looked at.
HasAlterSchemaAtEnd(logs) == IsNoticed(logs[Len(logs)])

HasAlterSchema(logs) == \E k \in DOMAIN logs : IsNoticed(logs[k])

\* multipleQuery and the callback of onRunClicked: the statement is executed and its result kept
\* if it has headers; at the end, or at the first statement that fails, the results so far are shown.
Answer(i, ok) ==
  LET r == runs[i]
      s == r.stmts[r.at]
      results == IF ok /\ s.rows THEN Append(r.results, s) ELSE r.results
      logs == SubSeq(r.stmts, 1, r.at)
  IN
  /\ progress' = [run |-> r.id, done |-> IF ok THEN r.at ELSE r.at - 1]
  /\ unseen' = (unseen \/ s.verb = "alter")
  /\ IF ok /\ r.at < Len(r.stmts)
       THEN /\ runs' = [runs EXCEPT ![i].at = r.at + 1, ![i].results = results]
            /\ stale' = (stale \/ ChangesSchema(s))
            /\ UNCHANGED data
       ELSE /\ Ends(r, results)
            /\ stale' = ((stale \/ ChangesSchema(s)) /\ ~HasAlterSchema(logs))
  /\ UNCHANGED <<editor, selected, clicks, alone>>

-----------------------------------------------------------------------------
\* Each result is a tab, an explained one is two, and the summary is the last.
Tabs == LET shown == data.results IN
  Len(shown) + Cardinality({k \in DOMAIN shown : shown[k].verb = "explain"})
    + (IF progress = NoProgress THEN 0 ELSE 1)

SelectTab(k) ==
  /\ k # selected
  /\ selected' = k
  /\ UNCHANGED <<editor, runs, data, progress, stale, clicks, alone, unseen>>

Next ==
  \/ \E doc \in Docs : Edit(doc)
  \/ FindPlaceholders
  \/ \E v \in DOMAIN placeholders, value \in {"", "value"} : Fill(v, value)
  \/ RunAll
  \/ \E explained \in BOOLEAN, cursor \in 0 .. To(code) + Line : RunCurrent(cursor, explained)
  \/ \E i \in DOMAIN runs, ok \in BOOLEAN : Answer(i, ok)
  \/ \E k \in 0 .. Tabs - 1 : SelectTab(k)

Spec == Init /\ [][Next]_vars
-----------------------------------------------------------------------------
\* When no run is in flight the results and the summary below the editor are of one run, however
\* many were started over one another, and both are gone after a click that sent nothing.
ResultsMatchSummary == runs = <<>> => data.run = progress.run

\* One of the tabs of the result is selected, so that the pane is not blank.  A run started
\* during another may replace many tabs by few.
SelectedTabExists == alone /\ Tabs > 0 => selected < Tabs

\* When no run is in flight, the schema has been asked for after every change a run made to it,
\* also when a later statement of the run failed -- unless the change was an ALTER.
SchemaAskedFor == runs = <<>> /\ ~unseen => ~stale
=============================================================================
