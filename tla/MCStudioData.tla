------------------------------- MODULE MCStudioData -------------------------------
(*****************************************************************************)
(* Instances of what the studio makes of data: query results, plans, the     *)
(* rows in sight, values on their way out and in, and the scripts and        *)
(* catalogs it reads and writes. The parts share nothing, so one run         *)
(* explores each of them from its own initial states.                        *)
(*****************************************************************************)
EXTENDS Integers, Sequences, FiniteSets, TLC

VARIABLES
  part,  \* the part this behaviour is about
  query_code, query_timer, query_placeholders, query_runs, query_data, query_progress,
  query_selected, query_stale, query_clicks, query_edits, query_alone, query_unseen,
  explain_runs, explain_result, explain_diagram, explain_clicks, explain_alone,
  viewport_rows, viewport_widths, viewport_top, viewport_left, viewport_size,
  viewport_pinned, viewport_focus, viewport_range, viewport_due,
  values_heap, values_shown,
  headers_table, headers_known, headers_schema, headers_headers, headers_arrow,
  headers_altered, headers_alters,
  cells_raw, cells_shown, cells_stray, cells_clipboard, cells_copied, cells_pasted,
  cells_file, cells_import, cells_target, cells_pastes,
  scripts_schema, scripts_truth, scripts_table, scripts_trigger, scripts_steps,
  dialects_dialect, dialects_db, dialects_reading, dialects_shown, dialects_failed,
  dialects_draft, dialects_left, dialects_base, dialects_calm, dialects_grown,
  dialects_folded, dialects_saved, dialects_edits, dialects_ops

\* Texts for the query tab: statements with their verb, where they are, the blocks they open or
\* close and the variables they name.
Stmt(verb, from, to) ==
  [verb |-> verb, begins |-> 0, ends |-> FALSE, vars |-> {}, from |-> from, to |-> to,
   rows |-> verb = "select"]
Docs == { <<Stmt("select", 0, 1), [Stmt("insert", 5, 6) EXCEPT !.vars = {"x"}]>>,
          <<[Stmt("create", 0, 1) EXCEPT !.begins = 1], Stmt("insert", 2, 3),
            [Stmt("end", 4, 4) EXCEPT !.ends = TRUE], Stmt("select", 9, 9)>>,
          <<Stmt("select", 0, 0), Stmt("select", 1, 1), Stmt("alter", 2, 2)>> }

\* Plans: a scan, a join of three, one table twice, subqueries, unions in and out of them, and
\* a table whose name holds UNION; and two blocks as MySQL prints them.
PlanLine(id, parent, words, table) == [id |-> id, parent |-> parent, words |-> words, table |-> table]
Plans == {
  <<>>, <<PlanLine(2, 0, {"SCAN"}, "t")>>,
  <<PlanLine(3, 0, {"SCAN"}, "t"), PlanLine(5, 0, {"SEARCH"}, "u"), PlanLine(9, 0, {"SEARCH"}, "w"), PlanLine(20, 0, {}, "")>>,
  <<PlanLine(3, 0, {"SCAN"}, "t"), PlanLine(5, 0, {"SEARCH"}, "t")>>,
  <<PlanLine(2, 0, {}, ""), PlanLine(5, 2, {"SCAN"}, "u"), PlanLine(9, 0, {"SCAN"}, "")>>,
  <<PlanLine(1, 0, {}, ""), PlanLine(2, 1, {}, ""), PlanLine(4, 2, {"SCAN"}, "t"), PlanLine(6, 2, {"SEARCH"}, "u"),
    PlanLine(8, 1, {"UNION"}, ""), PlanLine(9, 8, {"SCAN"}, "w"), PlanLine(10, 8, {"SEARCH"}, "t")>>,
  <<PlanLine(1, 0, {}, ""), PlanLine(2, 1, {}, ""), PlanLine(3, 2, {}, ""), PlanLine(4, 3, {"SCAN"}, "t"),
    PlanLine(5, 2, {"UNION"}, ""), PlanLine(6, 5, {"SCAN"}, "u")>>,
  <<PlanLine(2, 0, {"SCAN", "UNION"}, "UNIONS")>> }
Block(ordering, tables) == [id |-> 0, ordering |-> ordering, grouping |-> TRUE, tables |-> tables,
                            union |-> FALSE, parts |-> <<>>]
Blocks == {Block(TRUE, <<"t", "u">>), Block(FALSE, <<"t">>)}

\* Containers lower and narrower than the table, and leaves of every coding.
Containers == {[w |-> 5, h |-> 4], [w |-> 7, h |-> 5]}
Leaf(tag, n) == [tag |-> tag, n |-> n]
Leaves == {Leaf("I", -1), Leaf("I", 100), Leaf("c", 1), Leaf("D", 0), Leaf("Latin1", 1), Leaf("Z", 8)}

\* Tables with and without keys, rowid and script, with columns named after the rowid.
KeyOf(col, at) == [col |-> col, table |-> "u", column |-> "id", at |-> at]
Form(cols, pk, rowid, script, fks) ==
  [cols |-> cols, pk |-> pk, rowid |-> rowid, script |-> script, fks |-> fks,
   generated |-> {"g"} \cap {cols[k] : k \in DOMAIN cols}]
Forms == { Form(<<"a", "b">>, {}, TRUE, TRUE, {KeyOf("a", "column"), KeyOf("b", "table")}),
           Form(<<"a", "b", "g">>, {"a", "b"}, TRUE, TRUE, {KeyOf("a", "column")}),
           Form(<<"a", "b">>, {"a"}, FALSE, TRUE, {KeyOf("b", "table")}),
           Form(<<"a", "b">>, {"b"}, TRUE, FALSE, {KeyOf("b", "table")}),
           Form(<<"a", "b">>, {}, TRUE, FALSE, {}), Form(<<"a", "rowid">>, {}, TRUE, TRUE, {}),
           Form(<<"a", "ROWID">>, {}, TRUE, TRUE, {}) }

\* Values with each character that means something to a format: quotes, separators, line ends.
Text(t) == [is |-> "text", text |-> t]
Values == {[is |-> "null"]} \cup
  {Text(t) : t \in { <<>>, <<"a">>, <<"Q">>, <<"P", "a">>, <<",", "Q", "a">>, <<"a", "LF", "a">>,
                     <<"SP", "a">>, <<"NULL">>, <<"a", "TAB", "EOL">> }}
Some == {[is |-> "null"], Text(<<"a">>), Text(<<",", "Q", "a">>)}
Grids == [1..1 -> [1..2 -> Values]] \cup [1..2 -> [1..1 -> Values]]
           \cup {<<<<u, v>>, <<w, [is |-> "null"]>>>> : u \in Some, v \in Some, w \in Some}

\* Tables and triggers as tokens, with every constraint the studio can describe.
Word(text) == <<[kind |-> "word", text |-> text]>>
Words(texts) == [k \in DOMAIN texts |-> [kind |-> "word", text |-> texts[k]]]
Id(name) == <<[kind |-> "name", text |-> name]>>
Lit(kind, text) == <<[kind |-> kind, text |-> text]>>
Paren(tokens) == Word("(") \o tokens \o Word(")")
Int4 == Word("INTEGER")
Col(name, con) == [name |-> name, type |-> Int4, con |-> con]
Sum2 == Id("a") \o Lit("op", "+") \o Lit("number", "1")
OneOf == Word("IN") \o Paren(Lit("string", "x") \o Word(",") \o Lit("string", "y"))
ToU == [table |-> "u", to |-> <<"id">>]
Constraints == {
  <<>>, "unique" :> TRUE, ("primaryKey" :> TRUE) @@ ("autoIncrement" :> TRUE),
  [primaryKey |-> TRUE, primaryKeyOrder |-> "DESC", primaryKeyConflict |-> "IGNORE", notNull |-> TRUE],
  [notNull |-> TRUE, notNullConflict |-> "IGNORE", defaultValue |-> Lit("op", "-") \o Lit("number", "1")],
  [defaultExpression |-> Sum2, foreignKey |-> ToU], [defaultValue |-> Lit("number", "0"), notNull |-> TRUE],
  [generated |-> Sum2, generatedType |-> "VIRTUAL", unique |-> TRUE],
  [generated |-> Sum2, generatedType |-> "STORED"],
  [generated |-> Sum2, generatedType |-> "VIRTUAL", foreignKey |-> ToU], "check" :> (Id("a") \o OneOf) }
TableConstraints == {
  <<>>, <<[primaryKey |-> TRUE, primaryColumns |-> <<"a", "b">>]>>,
  <<[unique |-> TRUE, uniqueColumns |-> <<"b">>],
    "foreignKey" :> [table |-> "u", to |-> <<"x", "y">>, columns |-> <<"a", "b">>]>>, <<"check" :> Sum2>> }
Described ==
  {[columns |-> <<Col("a", one), [Col("b", two) EXCEPT !.type = Word("VARCHAR") \o Paren(Lit("number", "9"))]>>,
    constraints |-> all] :
     one \in Constraints, two \in {<<>>, "unique" :> TRUE, "check" :> (Id("a") \o OneOf)}, all \in TableConstraints}
Written(inner, names) ==
  [script |-> Words(<<"CREATE", "TABLE">>) \o Id("t") \o Paren(inner), names |-> names]
ByOthers == {
  Written(Id("a") \o Word(",") \o Id("b") \o Word(",") \o Id("c"), <<"a", "b", "c">>),
  Written(Id("a") \o Int4 \o Word("CHECK") \o Paren(Id("a") \o OneOf) \o Word(",") \o Id("b") \o Int4, <<"a", "b">>),
  Written(Id("a") \o Int4 \o Word("REFERENCES") \o Id("u") \o Words(<<"ON", "DELETE", "CASCADE", "NOT", "NULL">>)
            \o Word(",") \o Words(<<"CONSTRAINT", "k", "UNIQUE">>) \o Paren(Id("a")), <<"a">>),
  Written(Id("a") \o Word("TEXT") \o Words(<<"COLLATE", "NOCASE", "DEFAULT", "NULL">>) \o Word(",") \o Id("b")
            \o Int4 \o Words(<<"PRIMARY", "KEY">>), <<"a", "b">>) }
Body(x) == Words(<<"DELETE", "FROM", x, ";">>)
Trigger(when, operation, columns, condition, statement) ==
  [when |-> when, operation |-> operation, columns |-> columns, condition |-> condition, statement |-> statement]
Triggers == { Trigger("AFTER", "INSERT", <<>>, <<>>, Body("x")),
              Trigger("BEFORE", "UPDATE", <<"a", "b">>, Sum2, Body("x") \o Body("y")) }

\* Catalogs of a server: keys of one and of two columns, names that differ by their case only,
\* and constraints of two tables with one name.
Field(name, type, notNull, default) == [name |-> name, type |-> type, notNull |-> notNull, default |-> default]
Constraint(name, kind, cols, table, refs) ==
  [name |-> name, kind |-> kind, cols |-> cols, table |-> table, refs |-> refs]
PrimaryKey(cols) == Constraint("PRIMARY", "pk", cols, "", <<>>)
ToUsers == Constraint("f", "fk", <<"b">>, "users", <<"id">>)
Users == [cols |-> <<Field("id", "int", TRUE, "none")>>, keys |-> <<PrimaryKey(<<"id">>)>>]
Odd == [cols |-> <<Field("a", "int", TRUE, "none"), Field("A", "text", TRUE, "value"), Field("b", "text", FALSE, "expression")>>,
        keys |-> <<Constraint("a_key", "unique", <<"a">>, "", <<>>), ToUsers>>]
Pair == [cols |-> <<Field("a", "int", TRUE, "none"), Field("b", "text", TRUE, "none")>>,
         keys |-> <<PrimaryKey(<<"a", "b">>), ToUsers>>]
Catalogs == { ("users" :> Users) @@ ("t" :> Odd),
              ("users" :> Users) @@ ("t" :> Pair) @@ ("u" :> [Odd EXCEPT !.keys[1].name = "PRIMARY"]) }
LowerCase == [n \in {"a", "A", "b", "id"} |-> IF n = "A" THEN "a" ELSE n]

QueryPart == INSTANCE QueryTab WITH
  Docs <- Docs, Line <- 2, MaxRuns <- 3, MaxEdits <- 1, code <- query_code,
  timer <- query_timer, placeholders <- query_placeholders, runs <- query_runs,
  data <- query_data, progress <- query_progress, selected <- query_selected,
  stale <- query_stale, clicks <- query_clicks, edits <- query_edits,
  alone <- query_alone, unseen <- query_unseen
query_vars ==
  <<query_code, query_timer, query_placeholders, query_runs, query_data, query_progress,
    query_selected, query_stale, query_clicks, query_edits, query_alone, query_unseen>>

ExplainPart == INSTANCE ExplainFlow WITH
  Plans <- Plans, Blocks <- Blocks, MaxRuns <- 3, runs <- explain_runs,
  result <- explain_result, diagram <- explain_diagram, clicks <- explain_clicks,
  alone <- explain_alone
explain_vars == <<explain_runs, explain_result, explain_diagram, explain_clicks, explain_alone>>

ViewportPart == INSTANCE TableViewport WITH
  RowHeight <- 2, RenderAhead <- 1, Gutter <- 2, Margin <- 1, Step <- 3,
  Widths <- {2, 4}, Sizes <- Containers, Columns <- 2, MaxRows <- 5,
  rows <- viewport_rows, widths <- viewport_widths, top <- viewport_top,
  left <- viewport_left, size <- viewport_size, pinned <- viewport_pinned,
  focus <- viewport_focus, range <- viewport_range, due <- viewport_due
viewport_vars ==
  <<viewport_rows, viewport_widths, viewport_top, viewport_left, viewport_size,
    viewport_pinned, viewport_focus, viewport_range, viewport_due>>

ValuesPart == INSTANCE V8Values WITH
  Kinds <- {"o", "A"}, Leaves <- Leaves, MaxNodes <- 2, MaxKids <- 2,
  heap <- values_heap, shown <- values_shown
values_vars == <<values_heap, values_shown>>

HeadersPart == INSTANCE ResultHeaders WITH
  Tables <- Forms, MaxAlters <- 2, table <- headers_table, known <- headers_known,
  schema <- headers_schema, headers <- headers_headers, arrow <- headers_arrow,
  altered <- headers_altered, alters <- headers_alters
headers_vars ==
  <<headers_table, headers_known, headers_schema, headers_headers, headers_arrow,
    headers_altered, headers_alters>>

CellsPart == INSTANCE CellText WITH
  Tables <- Grids, MaxPastes <- 1, raw <- cells_raw, shown <- cells_shown,
  stray <- cells_stray, clipboard <- cells_clipboard, copied <- cells_copied,
  pasted <- cells_pasted, file <- cells_file, import <- cells_import,
  target <- cells_target, pastes <- cells_pastes
cells_vars ==
  <<cells_raw, cells_shown, cells_stray, cells_clipboard, cells_copied, cells_pasted,
    cells_file, cells_import, cells_target, cells_pastes>>

ScriptsPart == INSTANCE SqlScripts WITH
  Tables <- Described, Scripts <- ByOthers, Added <- {Col("d", "notNull" :> TRUE)},
  Triggers <- Triggers, MaxSteps <- 2, schema <- scripts_schema, truth <- scripts_truth,
  table <- scripts_table, trigger <- scripts_trigger, steps <- scripts_steps
scripts_vars == <<scripts_schema, scripts_truth, scripts_table, scripts_trigger, scripts_steps>>

DialectsPart == INSTANCE ServerDialects WITH
  Databases <- Catalogs, Names <- {"a", "b"}, Lower <- LowerCase,
  Types <- {"int", "text"}, MaxEdits <- 2, MaxOps <- 3, dialect <- dialects_dialect,
  db <- dialects_db, reading <- dialects_reading, shown <- dialects_shown,
  failed <- dialects_failed, draft <- dialects_draft, left <- dialects_left,
  base <- dialects_base, calm <- dialects_calm, grown <- dialects_grown,
  folded <- dialects_folded, saved <- dialects_saved, edits <- dialects_edits,
  ops <- dialects_ops
dialects_vars ==
  <<dialects_dialect, dialects_db, dialects_reading, dialects_shown, dialects_failed,
    dialects_draft, dialects_left, dialects_base, dialects_calm, dialects_grown,
    dialects_folded, dialects_saved, dialects_edits, dialects_ops>>

\* A behaviour is one of one part; the variables of the others are empty and stay so.
OnlyAtFirst(p) ==
  /\ IF p = "query" THEN QueryPart!Init
     ELSE query_code = <<>> /\ query_timer = <<>> /\ query_placeholders = <<>> /\
          query_runs = <<>> /\ query_data = <<>> /\ query_progress = <<>> /\
          query_selected = <<>> /\ query_stale = <<>> /\ query_clicks = <<>> /\
          query_edits = <<>> /\ query_alone = <<>> /\ query_unseen = <<>>
  /\ IF p = "explain" THEN ExplainPart!Init
     ELSE explain_runs = <<>> /\ explain_result = <<>> /\ explain_diagram = <<>> /\
          explain_clicks = <<>> /\ explain_alone = <<>>
  /\ IF p = "viewport" THEN ViewportPart!Init
     ELSE viewport_rows = <<>> /\ viewport_widths = <<>> /\ viewport_top = <<>> /\
          viewport_left = <<>> /\ viewport_size = <<>> /\ viewport_pinned = <<>> /\
          viewport_focus = <<>> /\ viewport_range = <<>> /\ viewport_due = <<>>
  /\ IF p = "values" THEN ValuesPart!Init
     ELSE values_heap = <<>> /\ values_shown = <<>>
  /\ IF p = "headers" THEN HeadersPart!Init
     ELSE headers_table = <<>> /\ headers_known = <<>> /\ headers_schema = <<>> /\
          headers_headers = <<>> /\ headers_arrow = <<>> /\ headers_altered = <<>> /\
          headers_alters = <<>>
  /\ IF p = "cells" THEN CellsPart!Init
     ELSE cells_raw = <<>> /\ cells_shown = <<>> /\ cells_stray = <<>> /\
          cells_clipboard = <<>> /\ cells_copied = <<>> /\ cells_pasted = <<>> /\
          cells_file = <<>> /\ cells_import = <<>> /\ cells_target = <<>> /\
          cells_pastes = <<>>
  /\ IF p = "scripts" THEN ScriptsPart!Init
     ELSE scripts_schema = <<>> /\ scripts_truth = <<>> /\ scripts_table = <<>> /\
          scripts_trigger = <<>> /\ scripts_steps = <<>>
  /\ IF p = "dialects" THEN DialectsPart!Init
     ELSE dialects_dialect = <<>> /\ dialects_db = <<>> /\ dialects_reading = <<>> /\
          dialects_shown = <<>> /\ dialects_failed = <<>> /\ dialects_draft = <<>> /\
          dialects_left = <<>> /\ dialects_base = <<>> /\ dialects_calm = <<>> /\
          dialects_grown = <<>> /\ dialects_folded = <<>> /\ dialects_saved = <<>> /\
          dialects_edits = <<>> /\ dialects_ops = <<>>

Init == part \in {"query", "explain", "viewport", "values", "headers",
                  "cells", "scripts", "dialects"} /\ OnlyAtFirst(part)

QueryNext ==
  /\ part = "query" /\ QueryPart!Next
  /\ UNCHANGED <<part, explain_vars, viewport_vars, values_vars, headers_vars, cells_vars,
                 scripts_vars, dialects_vars>>

ExplainNext ==
  /\ part = "explain" /\ ExplainPart!Next
  /\ UNCHANGED <<part, query_vars, viewport_vars, values_vars, headers_vars, cells_vars,
                 scripts_vars, dialects_vars>>

ViewportNext ==
  /\ part = "viewport" /\ ViewportPart!Next
  /\ UNCHANGED <<part, query_vars, explain_vars, values_vars, headers_vars, cells_vars,
                 scripts_vars, dialects_vars>>

ValuesNext ==
  /\ part = "values" /\ ValuesPart!Next
  /\ UNCHANGED <<part, query_vars, explain_vars, viewport_vars, headers_vars, cells_vars,
                 scripts_vars, dialects_vars>>

HeadersNext ==
  /\ part = "headers" /\ HeadersPart!Next
  /\ UNCHANGED <<part, query_vars, explain_vars, viewport_vars, values_vars, cells_vars,
                 scripts_vars, dialects_vars>>

CellsNext ==
  /\ part = "cells" /\ CellsPart!Next
  /\ UNCHANGED <<part, query_vars, explain_vars, viewport_vars, values_vars, headers_vars,
                 scripts_vars, dialects_vars>>

ScriptsNext ==
  /\ part = "scripts" /\ ScriptsPart!Next
  /\ UNCHANGED <<part, query_vars, explain_vars, viewport_vars, values_vars, headers_vars,
                 cells_vars, dialects_vars>>

DialectsNext ==
  /\ part = "dialects" /\ DialectsPart!Next
  /\ UNCHANGED <<part, query_vars, explain_vars, viewport_vars, values_vars, headers_vars,
                 cells_vars, scripts_vars>>

Next == QueryNext \/ ExplainNext \/ ViewportNext \/ ValuesNext \/ HeadersNext \/ CellsNext
        \/ ScriptsNext \/ DialectsNext

vars == <<part, query_vars, explain_vars, viewport_vars, values_vars, headers_vars, cells_vars,
          scripts_vars, dialects_vars>>
Spec == Init /\ [][Next]_vars
-----------------------------------------------------------------------------
\* Results, summary and selected pane of a query tab are of one run, and the schema is asked for
\* after a run changed it; the picture of a plan shows every table the plan reads.
QueryTabIsOfOneRun ==
  /\ part = "query" => QueryPart!ResultsMatchSummary /\ QueryPart!SelectedTabExists /\ QueryPart!SchemaAskedFor
  /\ part = "explain" => ExplainPart!PictureIsOfThePlan

\* What can be seen of a table is drawn, in rows that are complete.
WhatIsSeenIsDrawn == part = "viewport" => ViewportPart!SightIsDrawn

\* An edit reaches one row, and the arrow of a column's foreign key leads to its column.
RowsAndArrows == part = "headers" => HeadersPart!EditedRowIsOne /\ HeadersPart!ArrowLeadsToKey

\* A value survives serialization, the clipboard, an export and its import.
ValuesSurvive ==
  /\ part = "values" => ValuesPart!ShownIsStored
  /\ part = "cells" => CellsPart!PastedIsCopied /\ CellsPart!ImportIsExport /\ CellsPart!FileReadsBack

\* SQLite: tables and triggers the studio wrote are read back as they were described, and of the
\* tables of others the columns are.  MySQL and Postgres: what is read is the catalog, and what
\* was accepted is what was shown.
SchemasReadBack ==
  /\ part = "scripts" => /\ ScriptsPart!CreatedIsReadBack /\ ScriptsPart!ColumnsAreRead
                         /\ ScriptsPart!EditedTriggerKeepsEvent
  /\ part = "dialects" => DialectsPart!ReadIsCatalog /\ DialectsPart!AcceptedAsShown
=============================================================================
