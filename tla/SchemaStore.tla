----------------------------- MODULE SchemaStore -----------------------------
(***************************************************************************)
(* The schema the studio shows and everything in it that changes the        *)
(* schema of the database: the sidebar with its dialog, the view, trigger    *)
(* and table editors, the import and the tab that drops or empties many      *)
(* tables.  Each asks SchemaProvider to read the schema again.               *)
(*                                                                           *)
(* The driver of this server sends the statements of a "transaction" one by  *)
(* one.  A statement is executed or refused, and its answer may be lost.     *)
(***************************************************************************)
EXTENDS Integers, Sequences, FiniteSets, SequencesExt, FiniteSetsExt

CONSTANTS
  Tables,    \* tables the database has at first
  View,      \* a view, dropped and created again when it is edited
  New,       \* a table made in the table editor
  MaxReqs,   \* bound: schema requests in flight
  MaxOps     \* bound: what the user starts, and what the server refuses or loses

Absent == <<>>

VARIABLES
  objects, version,   \* the database and the number of changes to it
  schema, shown,      \* what is shown, and the version of the last answer
  screen,             \* "loading", "error", or "ready": only then anything else is mounted
  reqs,               \* schema requests: [answer, version]
  dialog,             \* CommonDialog: the operation asked about
  calls,              \* statements being sent: [kind, stmts, done, why]
  mass,               \* the mass-drop tab: [open, items, selected, op, ...]
  runs,               \* performOperation: [op, left, status, sent, had]
  calm,               \* history: see QuietSchemaIsTrue
  solo,               \* history: see MassStatusIsTrue
  ops

vars == <<objects, version, schema, shown, screen, reqs, dialog, calls, mass, runs, calm, solo, ops>>
database == <<objects, version>>
provider == <<schema, shown, screen>>
history == <<calm, solo>>

Closed == [open |-> FALSE, items |-> {}, selected |-> {}, op |-> "none", confirming |-> FALSE,
           completed |-> FALSE, status |-> <<>>]
Request == [answer |-> "none", data |-> {}, version |-> 0]

Init ==
  /\ objects = Tables \cup {View} /\ version = 0
  /\ schema = {} /\ shown = 0 /\ screen = "loading" /\ reqs = <<Request>>
  /\ dialog = Absent /\ calls = <<>> /\ mass = Closed /\ runs = <<>>
  /\ calm = TRUE /\ solo = TRUE /\ ops = 0

Count == ops < MaxOps /\ ops' = ops + 1

-----------------------------------------------------------------------------
\* SchemaProvider.
AnswerSchema(i) ==
  /\ reqs[i].answer = "none"
  /\ \/ reqs' = [reqs EXCEPT ![i] = [answer |-> "ok", data |-> objects, version |-> version]]
        /\ UNCHANGED ops
     \/ /\ reqs' = [reqs EXCEPT ![i].answer = "failed", ![i].version = version]
        /\ Count
  /\ UNCHANGED <<database, provider, dialog, calls, mass, runs, history>>

\* The answers are taken as they come.  A failed one replaces the whole studio, open tabs
\* included, by an error whose retry button does nothing.
TakeSchema(i) ==
  LET r == reqs[i] IN
  /\ r.answer # "none"
  /\ reqs' = RemoveAt(reqs, i)
  /\ shown' = r.version
  /\ calm' = (calm /\ shown <= r.version)
  /\ IF r.answer = "ok"
       THEN schema' = r.data /\ screen' = "ready" /\ UNCHANGED mass
       ELSE screen' = "error" /\ mass' = Closed /\ UNCHANGED schema
  /\ UNCHANGED <<database, dialog, calls, runs, solo, ops>>

Refresh == Len(reqs) < MaxReqs /\ reqs' = Append(reqs, Request)

RefreshButton ==
  /\ screen = "ready" /\ dialog = Absent
  /\ Refresh /\ Count
  /\ UNCHANGED <<database, provider, dialog, calls, mass, runs, history>>

-----------------------------------------------------------------------------
\* Sidebar and editors: the statements each of them sends.
Statements ==
  {[kind |-> "drop", stmts |-> <<<<"drop", t>>>>] : t \in schema \ {View}}
    \cup {[kind |-> "truncate", stmts |-> <<<<"empty", t>>>>] : t \in schema \ {View}}
    \cup {[kind |-> "view", stmts |-> <<<<"drop", View>>, <<"create", View>>>>] :
            v \in schema \cap {View}}
    \cup {[kind |-> "import", stmts |-> <<<<"fill", t>>, <<"fill", t>>>>] : t \in schema \ {View}}
    \cup {[kind |-> "table", stmts |-> <<<<"create", New>>>>]}

Ask(s) ==
  /\ screen = "ready" /\ dialog = Absent /\ s.kind # "import"
  /\ dialog' = <<s>>
  /\ UNCHANGED <<database, provider, reqs, calls, mass, runs, history, ops>>

\* The button of the common dialog is disabled while a call is running, that of the table
\* editor's dialog is not; either can be closed meanwhile.
Running == \E i \in DOMAIN calls : calls[i].kind \notin {"import", "table"}
Confirm ==
  /\ dialog # Absent /\ Count
  /\ dialog[1].kind = "table" \/ ~Running
  /\ calls' = Append(calls, [kind |-> dialog[1].kind, stmts |-> dialog[1].stmts, why |-> "sent"])
  /\ UNCHANGED <<database, provider, reqs, dialog, mass, runs, history>>

CloseDialog ==
  /\ dialog # Absent
  /\ dialog' = Absent
  /\ UNCHANGED <<database, provider, reqs, calls, mass, runs, history, ops>>

Import(s) ==
  /\ screen = "ready" /\ dialog = Absent /\ s.kind = "import" /\ Count
  /\ calls' = Append(calls, [kind |-> "import", stmts |-> s.stmts, why |-> "sent"])
  /\ UNCHANGED <<database, provider, reqs, dialog, mass, runs, history>>

Legal(s) == IF s[1] = "create" THEN s[2] \notin objects ELSE s[2] \in objects
Changes(s) == s[1] \in {"drop", "create"}

Execute(s) ==
  /\ objects' = CASE s[1] = "drop" -> objects \ {s[2]}
                  [] s[1] = "create" -> objects \cup {s[2]}
                  [] OTHER -> objects
  /\ version' = IF Changes(s) THEN version + 1 ELSE version

\* The next statement is executed and answered; refused; or executed and its answer lost.
Statement(i) ==
  LET c == calls[i] IN
  /\ c.why = "sent" /\ c.stmts # <<>>
  /\ \/ /\ Legal(Head(c.stmts)) /\ Execute(Head(c.stmts))
        /\ \/ calls' = [calls EXCEPT ![i].stmts = Tail(@)] /\ UNCHANGED <<calm, ops>>
           \/ /\ calls' = [calls EXCEPT ![i].why = "failed"] /\ Count
              /\ calm' = (calm /\ ~Changes(Head(c.stmts)))
     \/ /\ IF Legal(Head(c.stmts)) THEN Count ELSE UNCHANGED ops
        /\ calls' = [calls EXCEPT ![i].why = "failed"]
        /\ calm' = (calm /\ ~(c.kind = "view" /\ Len(c.stmts) = 1))
        /\ UNCHANGED database
  /\ solo' = (solo /\ objects = objects')
  /\ UNCHANGED <<provider, reqs, dialog, mass, runs>>

\* What a finished call hides: the common dialog whatever it asks by now, or the editor's own.
LeftBy(c) ==
  IF dialog # Absent /\ c.kind # "import" /\ ((dialog[1].kind = "table") <=> (c.kind = "table"))
    THEN Absent ELSE dialog

\* Fault: the schema is not read again.
CompleteWithoutRefresh(i) ==
  /\ calls[i].stmts = <<>> /\ calls[i].why = "sent"
  /\ calls' = RemoveAt(calls, i)
  /\ dialog' = LeftBy(calls[i])
  /\ UNCHANGED <<database, provider, reqs, mass, runs, history, ops>>

Complete(i) ==
  /\ calls[i].stmts = <<>> /\ calls[i].why = "sent"
  /\ calls' = RemoveAt(calls, i)
  /\ dialog' = LeftBy(calls[i])
  /\ Refresh
  /\ UNCHANGED <<database, provider, mass, runs, history, ops>>

\* The message is shown; what was executed so far stays, and the schema is not read again.
Fail(i) ==
  /\ calls[i].why = "failed"
  /\ calls' = RemoveAt(calls, i)
  /\ UNCHANGED <<database, provider, reqs, dialog, mass, runs, history, ops>>

-----------------------------------------------------------------------------
\* The mass-drop tab works on the schema it was opened with.
OpenMass ==
  /\ screen = "ready" /\ ~mass.open /\ Count
  /\ mass' = [Closed EXCEPT !.open = TRUE, !.items = schema]
  /\ UNCHANGED <<database, provider, reqs, dialog, calls, runs, history>>

\* Rows can be clicked until an operation is under way.
Toggle(t) ==
  /\ mass.open /\ mass.op = "none"
  /\ mass' = [mass EXCEPT !.selected = IF t \in @ THEN @ \ {t} ELSE @ \cup {t}]
  /\ UNCHANGED <<database, provider, reqs, dialog, calls, runs, history, ops>>

MassButton(op) ==
  /\ mass.open /\ ~mass.confirming /\ mass.selected # {} /\ ~mass.completed
  /\ mass' = [mass EXCEPT !.op = op, !.confirming = TRUE]
  /\ UNCHANGED <<database, provider, reqs, dialog, calls, runs, history, ops>>

CloseMass ==
  /\ mass.open /\ ~mass.confirming
  /\ mass' = Closed
  /\ UNCHANGED <<database, provider, reqs, dialog, calls, runs, history, ops>>

\* Closing the confirmation also forgets the operation of a run that is under way.
MassCancel ==
  /\ mass.confirming
  /\ mass' = [mass EXCEPT !.op = "none", !.confirming = FALSE]
  /\ UNCHANGED <<database, provider, reqs, dialog, calls, runs, history, ops>>

MassConfirm ==
  /\ mass.confirming /\ Count
  /\ mass' = [mass EXCEPT !.confirming = FALSE]
  /\ runs' = Append(runs, [op |-> mass.op, left |-> SetToSeq(mass.selected),
                           status |-> <<>>, sent |-> FALSE, had |-> objects])
  /\ solo' = (solo /\ runs = <<>>)
  /\ UNCHANGED <<database, provider, reqs, dialog, calls, calm>>

Show(status) == IF mass.open THEN [mass EXCEPT !.status = status] ELSE mass
With(r, mark) ==
  LET t == Head(r.left) IN
  [n \in DOMAIN r.status \cup {t} |-> IF n = t THEN mark ELSE r.status[n]]

SendItem(i) ==
  LET r == runs[i] IN
  /\ r.left # <<>> /\ ~r.sent
  /\ runs' = [runs EXCEPT ![i].sent = TRUE, ![i].status = With(r, "...")]
  /\ mass' = Show(With(r, "..."))
  /\ UNCHANGED <<database, provider, reqs, dialog, calls, history, ops>>

Marked(i, mark) ==
  /\ runs' = [runs EXCEPT ![i].left = Tail(@), ![i].sent = FALSE, ![i].status = With(runs[i], mark)]
  /\ mass' = Show(With(runs[i], mark))

\* DROP TABLE and DELETE are refused for a view.
Takes(s) == s[2] \in objects \ {View}

\* Fault: a refused statement is marked as done.
AnswerItemAlwaysDone(i) ==
  LET r == runs[i]
      s == <<IF r.op = "drop" THEN "drop" ELSE "empty", Head(r.left)>>
  IN
  /\ r.left # <<>> /\ r.sent
  /\ \/ Takes(s) /\ Execute(s) /\ Marked(i, "done") /\ UNCHANGED <<ops, solo, calm>>
     \/ /\ IF Takes(s) THEN Count ELSE UNCHANGED ops
        /\ Marked(i, "done") /\ UNCHANGED <<database, solo, calm>>
  /\ UNCHANGED <<provider, reqs, dialog, calls>>

AnswerItem(i) ==
  LET r == runs[i]
      s == <<IF r.op = "drop" THEN "drop" ELSE "empty", Head(r.left)>>
  IN
  /\ r.left # <<>> /\ r.sent
  /\ \/ Takes(s) /\ Execute(s) /\ Marked(i, "done") /\ UNCHANGED <<ops, solo>>
     \/ Takes(s) /\ Execute(s) /\ Marked(i, "failed") /\ solo' = FALSE /\ Count
     \/ /\ IF Takes(s) THEN Count ELSE UNCHANGED ops
        /\ Marked(i, "failed") /\ UNCHANGED <<database, solo>>
  /\ UNCHANGED <<provider, reqs, dialog, calls, calm>>

MassDone(i) ==
  /\ runs[i].left = <<>>
  /\ runs' = RemoveAt(runs, i)
  /\ mass' = IF mass.open THEN [mass EXCEPT !.completed = TRUE] ELSE mass
  /\ Refresh
  /\ UNCHANGED <<database, provider, dialog, calls, history, ops>>

Next ==
  \/ \E i \in DOMAIN reqs : AnswerSchema(i) \/ TakeSchema(i)
  \/ RefreshButton
  \/ \E s \in Statements : Ask(s) \/ Import(s)
  \/ Confirm \/ CloseDialog
  \/ \E i \in DOMAIN calls : Statement(i) \/ Complete(i) \/ Fail(i)
  \/ OpenMass \/ CloseMass \/ MassCancel \/ MassConfirm
  \/ \E t \in mass.items : Toggle(t)
  \/ \E op \in {"drop", "empty"} : MassButton(op)
  \/ \E i \in DOMAIN runs : SendItem(i) \/ AnswerItem(i) \/ MassDone(i)

Spec == Init /\ [][Next]_vars
-----------------------------------------------------------------------------
\* When nothing is running, the sidebar shows the objects of the database.  What breaks it is
\* recorded in calm: an answer taken after a later one, a view whose second statement was
\* refused after its first had dropped it, and a statement that was executed and never
\* answered.
QuietSchemaIsTrue ==
  calm /\ screen = "ready" /\ reqs = <<>> /\ calls = <<>> /\ runs = <<>> => schema = objects

\* What the mass-drop tab says of a table is what happened to it: one marked as failed is
\* still there, one marked as done is gone exactly if it was to be dropped.  It takes a lost
\* answer, a second run started during the first, or a change from elsewhere to make it say otherwise.
MassStatusIsTrue ==
  solo => \A i \in DOMAIN runs : \A t \in DOMAIN runs[i].status \cap runs[i].had :
    /\ runs[i].status[t] = "failed" => t \in objects
    /\ runs[i].status[t] = "done" => (t \in objects <=> runs[i].op = "empty")
=============================================================================
