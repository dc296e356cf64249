----------------------------- MODULE ResultHeaders -----------------------------
(***************************************************************************)
(* The columns of a table tab: which of them may be edited, by which key a     *)
(* row is saved, and where the arrow of a foreign key leads.  Three readings   *)
(* of the schema meet here: the studio's (taken when the tab opened), the      *)
(* tab's own before each read, and the columns the data came with.             *)
(*   A table is [cols, pk, rowid, script, fks, generated]: the names of its    *)
(* columns, of its key, whether it has a rowid, whether its CREATE script can  *)
(* be parsed, and its foreign keys [col, table, column, at].                   *)
(***************************************************************************)
EXTENDS Integers, Sequences, FiniteSets, SequencesExt

CONSTANTS
  Tables,     \* the forms the table may take
  MaxAlters   \* bound: alterations

VARIABLES
  table,      \* the table in the database
  known,      \* the key in the studio's schema, {} if it has none, is not parsed or not there
  schema,     \* the tab's, None before the request is answered
  headers,    \* the columns shown, None before the data
  arrow,      \* what the last arrow looked up: [table, column], None before
  altered,    \* history: the table changed after the tab asked for its schema
  alters

vars == <<table, known, schema, headers, arrow, altered, alters>>

None == <<>>
Lower(name) == IF name = "ROWID" THEN "rowid" ELSE name
LowerAll(names) == {Lower(n) : n \in names}

-----------------------------------------------------------------------------
\* tableSchema: a script that cannot be parsed leaves the columns and the key of the pragma.
Parsed(t) ==
  IF t.script
  THEN [cols |-> t.cols, pk |-> t.pk, fks |-> t.fks, generated |-> t.generated,
        named |-> TRUE, type |-> "table", rowid |-> t.rowid]
  ELSE [cols |-> t.cols, pk |-> t.pk, fks |-> {}, generated |-> {},
        named |-> FALSE, type |-> "", rowid |-> TRUE]

\* Fault: a column of that name is not looked for.
InjectsAlways(s) == s.pk = {} /\ s.rowid /\ s.type = "table"

\* selectTable: a table without a key is read with its rowid.
Injects(s) == InjectsAlways(s) /\ "rowid" \notin ToSet(s.cols)

WithRowid(s) ==
  IF Injects(s) THEN [s EXCEPT !.cols = <<"rowid">> \o @, !.pk = {"rowid"}] ELSE s

FetchSchema ==
  /\ schema' = WithRowid(Parsed(table)) /\ headers' = None /\ altered' = FALSE
  /\ UNCHANGED <<table, known, arrow, alters>>

\* SELECT rowid, *: SQLite calls the column of either name by the name of the table's.
DataColumns(t, s) == IF "rowid" \in s.pk /\ "rowid" \notin ToSet(t.cols) THEN <<"rowid">> \o t.cols ELSE t.cols
SelectFails(t, s) == "rowid" \in s.pk /\ ~t.rowid /\ "rowid" \notin LowerAll(ToSet(t.cols))

-----------------------------------------------------------------------------
\* Fault: the first column of another of the table's foreign keys.
ReferenceToAny(s, name) ==
  IF s.fks = {} THEN [table |-> "", column |-> ""]
  ELSE LET f == CHOOSE f \in s.fks : f.at = "table" \/ \A g \in s.fks : g.at = "column"
       IN [table |-> f.table, column |-> IF f.col = name THEN f.col ELSE f.column]

\* pipeWithTableSchema: a column's foreign key; one of the table's takes its place.
ReferenceTo(s, name) ==
  LET Of(place) == {f \in s.fks : f.col = name /\ f.at = place}
  IN IF Of("table") # {} THEN LET f == CHOOSE f \in Of("table") : TRUE IN [table |-> f.table, column |-> f.col]
     ELSE IF Of("column") # {} THEN LET f == CHOOSE f \in Of("column") : TRUE IN [table |-> f.table, column |-> f.column]
     ELSE [table |-> "", column |-> ""]

IsPrimaryKey(s, name) == Lower(name) \in LowerAll(s.pk)

\* pipeEditableTable: the key the studio knows decides, no key if it does not know the table.
PkColumns(s) == IF s.named THEN known ELSE {}

Editable(s, names) ==
  LET found == {n \in names : IsPrimaryKey(s, n)}
  IN /\ found # {}
     /\ Cardinality(found \cap PkColumns(s)) = Cardinality(PkColumns(s))

\* _cf_KV apart, generated columns are the only ones of an editable table left alone.
Header(s, name, editable) ==
  [name |-> name, readonly |-> ~editable \/ name \in s.generated, to |-> ReferenceTo(s, name)]

BuildTableResultHeader(s, cols) ==
  [k \in DOMAIN cols |-> Header(s, cols[k], Editable(s, ToSet(cols)))]

\* The rows came; none at all, and the columns are those of the schema.
Select(empty) ==
  /\ schema # None /\ headers = None /\ ~SelectFails(table, schema)
  /\ headers' = BuildTableResultHeader(schema, IF empty THEN schema.cols ELSE DataColumns(table, schema))
  /\ UNCHANGED <<table, known, schema, arrow, altered, alters>>

\* ALTER, or DROP and CREATE, by anyone.
Alter(t) ==
  /\ alters < MaxAlters /\ t # table
  /\ table' = t /\ alters' = alters + 1
  /\ altered' = TRUE
  /\ UNCHANGED <<known, schema, headers, arrow>>

\* The arrow of a cell: findFirst.
FollowArrow(k) ==
  /\ headers # None /\ k \in DOMAIN headers /\ headers[k].to.table # ""
  /\ arrow' = headers[k].to
  /\ UNCHANGED <<table, known, schema, headers, altered, alters>>

Init ==
  /\ table \in Tables
  /\ known \in {t.pk : t \in {u \in Tables : u.script}} \cup {{}}
  /\ schema = None /\ headers = None /\ arrow = None /\ altered = FALSE /\ alters = 0

Next ==
  \/ FetchSchema
  \/ \E e \in BOOLEAN : Select(e)
  \/ \E t \in Tables : Alter(t)
  \/ \E k \in 1..4 : FollowArrow(k)

Spec == Init /\ [][Next]_vars

-----------------------------------------------------------------------------
Shown == headers # None
ShownNames == {headers[k].name : k \in DOMAIN headers}
\* What a WHERE on these columns selects is one row.
Identifies(t, names) ==
  \/ t.pk # {} /\ t.pk \subseteq names
  \/ t.rowid /\ "rowid" \in names /\ "rowid" \notin LowerAll(ToSet(t.cols))

(***************************************************************************)
(* Invariant.  When a cell may be edited, the WHERE its row would be saved     *)
(* with selects no other row, and its columns are all on the screen -- unless  *)
(* the table changed since the tab asked for its schema, or has a column       *)
(* ROWID, which hides the rowid from the statement but not from the check.     *)
(***************************************************************************)
EditedRowIsOne ==
  Shown /\ ~altered /\ "ROWID" \notin ToSet(table.cols) /\ (\E k \in DOMAIN headers : ~headers[k].readonly)
    => schema.pk \subseteq ShownNames /\ Identifies(table, schema.pk)

(***************************************************************************)
(* Invariant.  The arrow of a column with a foreign key of its own looks up    *)
(* the column that is referred to.  (One that a constraint of the table gives  *)
(* looks for the name of the referring column instead.)                        *)
(***************************************************************************)
ArrowLeadsToKey ==
  Shown /\ ~altered =>
    \A k \in DOMAIN headers, f \in schema.fks :
      f.col = headers[k].name /\ ~(\E g \in schema.fks : g.col = f.col /\ g.at = "table")
        => headers[k].to = [table |-> f.table, column |-> f.column]
=============================================================================
