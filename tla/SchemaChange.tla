---------------------------- MODULE SchemaChange ----------------------------
(***************************************************************************)
(* The table editor: a draft of a table, the ALTER or CREATE statements made  *)
(* from it, and the dialog that sends them one by one.  An existing column    *)
(* can be renamed or removed, as SQLite cannot modify it; a new one has        *)
(* everything a column can have.  The columns of table constraints are kept   *)
(* by name.  A table whose script cannot be parsed is not modelled.           *)
(***************************************************************************)
EXTENDS Integers, Sequences, FiniteSets, SequencesExt, FiniteSetsExt

CONSTANTS
  Names,      \* names of columns
  Titles,     \* names of tables
  FirstTable, \* the table that exists at first, with the columns FirstColumns
  FirstColumns,
  MaxEdits,   \* bound: edits of the draft
  MaxOps      \* bound: dialogs, changes from elsewhere and failures

None == <<>>
Unnamed == ""  \* the name of the table not yet created
Features == {"pk", "auto", "empty", "value", "fk", "reference"}
Defaults == {"auto", "empty", "value"}
References == {"fk", "reference"}
Kinds == {"primary", "unique"}

VARIABLES
  tables,     \* the database: name -> [columns, constraints]
  tab,        \* the table the tab was opened for, "" for a new one
  draft,      \* [old, new, columns, constraints]: columns are [old, new], of [name, has]
  loading,    \* the first fetch is not answered
  isSaving,   \* the dialog is open
  fetches,    \* tables whose answers are to come
  sent,       \* saves in flight: [draft, left, failed, apart, gone]
  edits, ops,
  torn,       \* history: a save failed after a statement, or its end was not seen
  stale       \* history: the table was changed from elsewhere, or an edit was made under a save

vars == <<tables, tab, draft, loading, isSaving, fetches, sent, edits, ops, torn, stale>>

Empty == [old |-> Unnamed, new |-> Unnamed, columns |-> <<>>, constraints |-> <<>>]
Same(x) == [old |-> <<x>>, new |-> <<x>>]
DraftOf(t) == [old |-> t, new |-> t,
               columns |-> [k \in DOMAIN tables[t].columns |-> Same(tables[t].columns[k])],
               constraints |-> [k \in DOMAIN tables[t].constraints |-> Same(tables[t].constraints[k])]]

Init ==
  /\ tables = [t \in {FirstTable} |-> [columns |-> FirstColumns, constraints |-> <<>>]]
  /\ tab \in {Unnamed, FirstTable}
  /\ draft = Empty /\ loading = (tab # Unnamed) /\ isSaving = FALSE
  /\ fetches = IF tab = Unnamed THEN <<>> ELSE <<tab>>
  /\ sent = <<>> /\ edits = 0 /\ ops = 0 /\ torn = FALSE /\ stale = FALSE

Op == ops < MaxOps /\ ops' = ops + 1

\* filter: the elements of s that are not in these, in their order.
Without(s, these) ==
  LET kept[n \in 0..Len(s)] ==
        IF n = 0 THEN <<>> ELSE IF s[n] \in these THEN kept[n - 1] ELSE Append(kept[n - 1], s[n])
  IN kept[Len(s)]
-----------------------------------------------------------------------------
\* The draft.
CheckSchemaChange == \/ draft.new # draft.old
                     \/ \E k \in DOMAIN draft.columns : draft.columns[k].old # draft.columns[k].new

Edit(d) ==
  /\ ~loading /\ ~isSaving /\ edits < MaxEdits
  /\ d # draft
  /\ draft' = d /\ edits' = edits + 1
  /\ stale' = (stale \/ sent # <<>> \/ fetches # <<>>)
  /\ UNCHANGED <<tables, tab, loading, isSaving, fetches, sent, ops, torn>>

OnAddColumn ==
  LET first == [name |-> "id", has |-> {"pk"}]
      next == [name |-> "column", has |-> {}]
  IN Edit([draft EXCEPT !.columns =
             Append(@, [old |-> None, new |-> <<IF @ = <<>> THEN first ELSE next>>])])

\* changeColumnOnIndex: a removed column is not changed any more, and a new one is forgotten.
Changed(k, c) == [draft.columns EXCEPT ![k] = [old |-> draft.columns[k].old, new |-> c]]
ChangeColumnOnIndex(k, c) ==
  /\ draft.columns[k].new # None
  /\ Edit([draft EXCEPT !.columns = Changed(k, <<c>>)])

RemoveColumn(k) ==
  /\ draft.columns[k].new # None
  /\ Edit([draft EXCEPT !.columns = IF draft.columns[k].old = None THEN RemoveAt(draft.columns, k)
                                    ELSE Changed(k, None)])

Rename(k, n) == ChangeColumnOnIndex(k, [draft.columns[k].new[1] EXCEPT !.name = n])

\* Only a new column can get or lose a feature; a default replaces the other defaults.
With(has, f) == (has \ (IF f \in Defaults THEN Defaults
                        ELSE IF f \in References THEN References ELSE {})) \cup {f}
Put(k, f) ==
  /\ draft.columns[k].old = None /\ draft.columns[k].new # None
  /\ f = "reference" => "fk" \in draft.columns[k].new[1].has
  /\ ChangeColumnOnIndex(k, [draft.columns[k].new[1] EXCEPT !.has = With(@, f)])
Take(k, f) ==
  /\ draft.columns[k].old = None /\ draft.columns[k].new # None
  /\ ChangeColumnOnIndex(k, [draft.columns[k].new[1] EXCEPT !.has = @ \ {f}])

\* A new column can be dragged to the place of another new column.
HandleDragEnd(k, j) ==
  /\ k # j /\ draft.columns[k].old = None /\ draft.columns[j].old = None
  /\ Edit([draft EXCEPT !.columns = InsertAt(RemoveAt(@, k), j, @[k])])

RenameTable(t) == Edit([draft EXCEPT !.new = t])

\* Table constraints are edited while the table is new.  On an existing table one can be removed
\* on the screen, which changes nothing and saves nothing.
NewConstraint(kind) ==
  /\ draft.old = Unnamed
  /\ Edit([draft EXCEPT !.constraints =
             Append(@, [old |-> None, new |-> <<[kind |-> kind, columns |-> <<>>]>>])])
OnConstraintChange(k, names) ==
  /\ draft.old = Unnamed /\ draft.constraints[k].new # None
  /\ Edit([draft EXCEPT !.constraints[k].new = <<[kind |-> @[1].kind, columns |-> names]>>])
RemoveConstraint(k) ==
  Edit([draft EXCEPT !.constraints = IF @[k].old = None THEN RemoveAt(@, k)
                                     ELSE [@ EXCEPT ![k].new = None]])
ColumnList == {n \in Names \cup {"id", "column"} :
                 \E k \in DOMAIN draft.columns : n = IF draft.columns[k].new # None
                   THEN draft.columns[k].new[1].name ELSE draft.columns[k].old[1].name}

OnDiscard ==
  LET kept == Without(draft.columns, {c \in Range(draft.columns) : c.old = None})
      back(items) == [k \in DOMAIN items |-> [old |-> items[k].old, new |-> items[k].old]]
  IN
  /\ ~loading /\ ~isSaving /\ CheckSchemaChange
  /\ draft' = [old |-> draft.old, new |-> draft.old, columns |-> back(kept),
               constraints |-> back(draft.constraints)]
  /\ stale' = (stale \/ sent # <<>> \/ fetches # <<>>)
  /\ UNCHANGED <<tables, tab, loading, isSaving, fetches, sent, edits, ops, torn>>

-----------------------------------------------------------------------------
\* Fault: a primary key is written without its default.
GenerateColumnOfKey(has) ==
  IF "pk" \in has THEN has \cap {"pk", "auto"} ELSE has \cap {"value", "reference"}

\* generateSqlSchemaChange.  Of what a column shows, an empty default, an auto increment without
\* primary key and a reference to nothing are not written.
GenerateCreateColumn(has) ==
  (has \cap {"pk", "value", "reference"}) \cup (IF {"pk", "auto"} \subseteq has THEN {"auto"} ELSE {})

Written(c) == [c EXCEPT !.has = GenerateCreateColumn(@)]

Line(c) ==
  CASE c.new = None -> [do |-> "drop", column |-> c.old[1].name]
    [] c.old = None -> [do |-> "add", column |-> Written(c.new[1])]
    [] OTHER -> IF c.new[1].name = c.old[1].name THEN [do |-> "nothing"]
                ELSE [do |-> "rename", from |-> c.old[1].name, to |-> c.new[1].name]

\* What is sent for the last n columns, and after them.
LinesOf(columns, after) ==
  LET lines[n \in 0..Len(columns)] ==
        IF n = 0 THEN after
        ELSE LET line == Line(columns[Len(columns) + 1 - n])
             IN IF line.do = "nothing" THEN lines[n - 1] ELSE <<line>> \o lines[n - 1]
  IN lines

GenerateSqlSchemaChange(d) ==
  LET written == Without(d.constraints, {c \in Range(d.constraints) : c.new = None}) IN
  IF d.old = Unnamed
    THEN <<[do |-> "create", name |-> d.new,
            columns |-> [k \in DOMAIN d.columns |-> Written(d.columns[k].new[1])],
            constraints |-> [k \in DOMAIN written |-> written[k].new[1]]]>>
    ELSE LinesOf(d.columns, IF d.new = d.old THEN <<>> ELSE <<[do |-> "title", to |-> d.new]>>)[Len(d.columns)]

-----------------------------------------------------------------------------
\* The statements, as SQLite executes or refuses them.
NamesOf(columns) == {columns[k].name : k \in DOMAIN columns}
Unique(columns) == \A j, k \in DOMAIN columns : columns[j].name = columns[k].name => j = k
KeysOf(s) == Cardinality({k \in DOMAIN s.columns : "pk" \in s.columns[k].has})
               + Cardinality({k \in DOMAIN s.constraints : s.constraints[k].kind = "primary"})

Legal(t, s) ==
  IF s.do = "create"
    THEN /\ s.name \notin DOMAIN tables /\ s.columns # <<>>
         /\ Unique(s.columns) /\ KeysOf(s) <= 1
         /\ \A k \in DOMAIN s.constraints :
              s.constraints[k].columns # <<>> /\ Range(s.constraints[k].columns) \subseteq NamesOf(s.columns)
    ELSE /\ t \in DOMAIN tables
         /\ LET columns == tables[t].columns IN
            CASE s.do = "drop" -> \E k \in DOMAIN columns :
                                    columns[k].name = s.column /\ "pk" \notin columns[k].has
              [] s.do = "add" -> s.column.name \notin NamesOf(columns) /\ "pk" \notin s.column.has
              [] s.do = "rename" -> s.from \in NamesOf(columns) /\ s.to \notin NamesOf(columns)
              [] s.do = "title" -> s.to \notin DOMAIN tables

Execute(t, s) ==
  LET columns == tables[t].columns
      Set(cs) == [tables EXCEPT ![t] = [columns |-> cs, constraints |-> tables[t].constraints]]
  IN tables' =
     CASE s.do = "create" -> [n \in DOMAIN tables \cup {s.name} |-> IF n = s.name
                               THEN [columns |-> s.columns, constraints |-> s.constraints]
                               ELSE tables[n]]
       [] s.do = "drop" -> Set(RemoveAt(columns, CHOOSE k \in DOMAIN columns : columns[k].name = s.column))
       [] s.do = "add" -> Set(Append(columns, s.column))
       [] s.do = "rename" -> Set([k \in DOMAIN columns |->
                               IF columns[k].name = s.from THEN [name |-> s.to, has |-> columns[k].has]
                               ELSE columns[k]])
       [] s.do = "title" -> [n \in (DOMAIN tables \ {t}) \cup {s.to} |->
                               IF n = s.to THEN tables[t] ELSE tables[n]]

\* Somebody else drops the table or adds a column to it.
Elsewhere(t) ==
  /\ Op
  /\ \/ tables' = [n \in DOMAIN tables \ {t} |-> tables[n]]
     \/ /\ "other" \notin NamesOf(tables[t].columns)
        /\ tables' = [tables EXCEPT ![t].columns = Append(@, [name |-> "other", has |-> {}])]
  /\ stale' = TRUE
  /\ UNCHANGED <<tab, draft, loading, isSaving, fetches, sent, edits, torn>>

-----------------------------------------------------------------------------
\* The dialog.
OnSaveToggle ==
  /\ ~loading /\ ~isSaving /\ CheckSchemaChange /\ draft.new # Unnamed /\ Op
  /\ isSaving' = TRUE
  /\ UNCHANGED <<tables, tab, draft, loading, fetches, sent, edits, torn, stale>>

Cancel ==
  /\ isSaving
  /\ isSaving' = FALSE
  /\ UNCHANGED <<tables, tab, draft, loading, fetches, sent, edits, ops, torn, stale>>

\* The button is not disabled while the statements are sent.
OnSave ==
  /\ isSaving /\ Op
  /\ sent' = Append([k \in DOMAIN sent |-> [sent[k] EXCEPT !.apart = FALSE]],
                    [draft |-> draft, left |-> GenerateSqlSchemaChange(draft),
                     failed |-> FALSE, apart |-> sent = <<>> /\ fetches = <<>>, gone |-> FALSE])
  /\ UNCHANGED <<tables, tab, draft, loading, isSaving, fetches, edits, torn, stale>>

\* A statement is executed, refused, or executed without the answer coming back.
Statement(i) ==
  LET s == Head(sent[i].left)
      t == sent[i].draft.old
  IN
  /\ sent[i].left # <<>> /\ ~sent[i].failed
  /\ \/ /\ Legal(t, s) /\ Execute(t, s)
        /\ sent' = [sent EXCEPT ![i].left = Tail(@)]
        /\ UNCHANGED <<ops, torn>>
     \/ /\ Legal(t, s) /\ Execute(t, s) /\ Op
        /\ sent' = [sent EXCEPT ![i].failed = TRUE]
        /\ torn' = TRUE
     \/ /\ ~Legal(t, s)
        /\ sent' = [sent EXCEPT ![i].failed = TRUE]
        /\ torn' = (torn \/ Len(sent[i].left) < Len(GenerateSqlSchemaChange(sent[i].draft))
                         \/ ~sent[i].apart)
        /\ UNCHANGED <<tables, ops>>
  /\ UNCHANGED <<tab, draft, loading, isSaving, fetches, edits, stale>>

\* Fault: the table is not read again.
CompleteWithoutFetch(i) ==
  /\ sent[i].left = <<>> /\ ~sent[i].failed
  /\ sent' = RemoveAt(sent, i)
  /\ draft' = [draft EXCEPT !.old = draft.new,
                 !.columns = LET kept == Without(@, {c \in Range(@) : c.new = None})
                             IN [k \in DOMAIN kept |-> Same(kept[k].new[1])]]
  /\ isSaving' = FALSE
  /\ UNCHANGED <<tables, tab, loading, fetches, edits, ops, torn, stale>>

\* A new name replaces the tab by one for the table of that name.  Otherwise the table is read
\* again and the dialog toggled: closed, or opened if it was cancelled meanwhile; or nothing is
\* left of the editor that sent the statements.
Complete(i) ==
  LET d == sent[i].draft
      others == RemoveAt(sent, i)
  IN
  /\ sent[i].left = <<>> /\ ~sent[i].failed
  /\ \/ /\ d.new # d.old
        /\ tab' = d.new /\ draft' = Empty /\ loading' = TRUE /\ isSaving' = FALSE
        /\ fetches' = <<d.new>>
        /\ sent' = [k \in DOMAIN others |-> [others[k] EXCEPT !.gone = TRUE]]
     \/ /\ d.new = d.old /\ ~sent[i].gone
        /\ fetches' = Append(fetches, d.new)
        /\ sent' = others /\ isSaving' = ~isSaving
        /\ UNCHANGED <<tab, draft, loading>>
     \/ /\ d.new = d.old /\ sent[i].gone
        /\ sent' = others
        /\ UNCHANGED <<tab, draft, loading, isSaving, fetches>>
  /\ UNCHANGED <<tables, edits, ops, torn, stale>>

\* The message is shown in the dialog.  The draft keeps what was applied as a change.
Fail(i) ==
  /\ sent[i].failed
  /\ sent' = RemoveAt(sent, i)
  /\ UNCHANGED <<tables, tab, draft, loading, isSaving, fetches, edits, ops, torn, stale>>

\* fetchTable.  A table that is gone is read as one without name and columns; after a failure the
\* editor of a table is one for a new table.
FetchAnswer(i) ==
  /\ fetches' = RemoveAt(fetches, i)
  /\ loading' = FALSE
  /\ \/ /\ draft' = IF fetches[i] \in DOMAIN tables THEN DraftOf(fetches[i]) ELSE Empty
        /\ UNCHANGED <<ops, stale>>
     \/ Op /\ stale' = TRUE /\ UNCHANGED draft
  /\ UNCHANGED <<tables, tab, isSaving, sent, edits, torn>>

Next ==
  \/ OnAddColumn \/ OnDiscard
  \/ \E k \in DOMAIN draft.columns :
       \/ RemoveColumn(k)
       \/ \E n \in Names : Rename(k, n)
       \/ \E f \in Features : Put(k, f) \/ Take(k, f)
       \/ \E j \in DOMAIN draft.columns : HandleDragEnd(k, j)
  \/ \E t \in Titles : RenameTable(t)
  \/ \E kind \in Kinds : NewConstraint(kind)
  \/ \E k \in DOMAIN draft.constraints :
       \/ RemoveConstraint(k)
       \/ \E n \in ColumnList : OnConstraintChange(k, <<n>>)
  \/ \E t \in DOMAIN tables : Elsewhere(t)
  \/ OnSaveToggle \/ Cancel \/ OnSave
  \/ \E i \in DOMAIN sent : Statement(i) \/ Complete(i) \/ Fail(i)
  \/ \E i \in DOMAIN fetches : FetchAnswer(i)

Spec == Init /\ [][Next]_vars
-----------------------------------------------------------------------------
Shown(d) == {d.columns[k].new[1] : k \in {j \in DOMAIN d.columns : d.columns[j].new # None}}

\* When all statements of a save were accepted, the table in the database has the columns the
\* editor showed, with everything shown for them -- if it was read before, nobody else changed
\* it, and nothing was shown that cannot be written.
ExecutedAsShown == \A i \in DOMAIN sent :
  LET d == sent[i].draft
      plain == \A c \in Shown(d) :
                 /\ c.has \cap {"empty", "fk"} = {}
                 /\ "auto" \in c.has => "pk" \in c.has
      done == sent[i].left = <<>> /\ ~sent[i].failed
  IN done /\ plain /\ sent[i].apart /\ ~torn /\ ~stale =>
       d.new \in DOMAIN tables /\ Range(tables[d.new].columns) = Shown(d)

\* At rest, what the editor shows as unchanged is what the database has.  A save that failed half
\* way or twice, an answer that came late, and changes from elsewhere are the exceptions.
UnchangedIsTrue ==
  sent = <<>> /\ fetches = <<>> /\ ~torn /\ ~stale /\ draft.old # Unnamed =>
    /\ draft.old \in DOMAIN tables
    /\ {draft.columns[k].old : k \in DOMAIN draft.columns} \ {None} =
         {<<c>> : c \in Range(tables[draft.old].columns)}
=============================================================================
