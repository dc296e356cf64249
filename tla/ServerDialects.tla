--------------------------- MODULE ServerDialects ---------------------------
(***************************************************************************)
(* The drivers of the studio for MySQL and Postgres: a schema is read with *)
(* one catalog query after another, while others change it; the table      *)
(* editor's draft is turned into statements that are sent in turn.         *)
(*                                                                         *)
(* The servers are external: what their catalogs answer and which of the   *)
(* generated statements they take.  Any statement may also be refused for  *)
(* the data it meets.  Collations, comments, sizes and CHECK are left out. *)
(***************************************************************************)
EXTENDS Integers, Sequences, FiniteSets, SequencesExt, FiniteSetsExt

CONSTANTS
  Databases,  \* schemas as they may be at first: name -> table
  Names,      \* names of columns the user types
  Lower,      \* what a name without quotes means to Postgres
  Types,      \* types of columns
  MaxEdits,   \* bound: edits of drafts
  MaxOps      \* bound: readings, saves and changes from elsewhere

None == <<>>
Target == "users"   \* the table a column's own foreign key names
Column(name, type) == [name |-> name, type |-> type, notNull |-> FALSE, default |-> "none"]
Key(name, kind, cols, table, refs) ==
  [name |-> name, kind |-> kind, cols |-> cols, table |-> table, refs |-> refs]
Change(old, new, cols) == [old |-> old, new |-> new, cols |-> cols, keys |-> <<>>]

VARIABLES
  dialect,
  db,         \* the schema: name -> [cols, keys]
  reading,    \* a reading under way: [kind, table, got]; got: query -> the schema it saw
  shown,      \* what the last reading made of it: [kind, tables], table -> [cols, pk, keys]
  failed,     \* the kind of the last reading, if it ended in an exception
  draft,      \* the table editor's: [old, new, cols, keys]
  left,       \* statements of a save that are still to be sent
  base,       \* the schema when the save began
  calm,       \* history: the schema did not change since the last reading began
  grown,      \* history: a table was created since then
  folded,     \* history: a DROP COLUMN reached another column
  saved,      \* history: the draft the server has just taken as a whole
  edits, ops

vars == <<dialect, db, reading, shown, failed, draft, left, base, calm, grown, folded, saved, edits, ops>>

Op == ops < MaxOps /\ ops' = ops + 1

Init ==
  /\ dialect \in {"mysql", "postgres"}
  /\ db \in Databases
  /\ reading = None /\ shown = None /\ failed = ""
  /\ draft = None /\ left = None /\ base = db
  /\ calm = TRUE /\ grown = FALSE /\ folded = FALSE /\ saved = None
  /\ edits = 0 /\ ops = 0
-----------------------------------------------------------------------------
(***************************************************************************)
(* The catalogs (external).                                                *)
(***************************************************************************)
NameSeq(cols) == [k \in DOMAIN cols |-> cols[k].name]
Primary(t) == UNION {ToSet(k.cols) : k \in {x \in ToSet(t.keys) : x.kind = "pk"}}

\* COLUMN_KEY = 'PRI': without a primary key, a unique key that cannot be null stands for it.
Pri(t) ==
  LET notNull == {c.name : c \in {x \in ToSet(t.cols) : x.notNull}}
      firm == SelectSeq(t.keys, LAMBDA k : k.kind = "unique" /\ ToSet(k.cols) \subseteq notNull)
  IN IF Primary(t) # {} THEN Primary(t) ELSE IF firm = <<>> THEN {} ELSE ToSet(firm[1].cols)

\* constraint_column_usage: the columns that constraints of this name are about, in any table.
Usage(tables, name) ==
  LET of(t) == SelectSeq(tables[t].keys, LAMBDA k : k.name = name)
      cells(t, k) == [j \in DOMAIN k.refs |-> [table |-> k.table, col |-> k.refs[j]]]
      own(t, k) == [j \in DOMAIN k.cols |-> [table |-> t, col |-> k.cols[j]]]
      about(t) == FlattenSeq([i \in DOMAIN of(t) |-> IF of(t)[i].kind = "fk" THEN cells(t, of(t)[i])
                                                     ELSE own(t, of(t)[i])])
      order == SetToSeq(DOMAIN tables)
  IN FlattenSeq([i \in DOMAIN order |-> about(order[i])])

\* A constraint joined with its columns and, by its name, with those it is about.
ConstraintRows(tables, t) ==
  LET row(k, c, u) == [name |-> k.name, kind |-> k.kind, col |-> c, table |-> u.table, ref |-> u.col]
      rows(k) == LET u == Usage(tables, k.name)
                 IN FlattenSeq([i \in DOMAIN k.cols |-> [j \in DOMAIN u |-> row(k, k.cols[i], u[j])]])
      keys == IF t \in DOMAIN tables THEN tables[t].keys ELSE <<>>
  IN FlattenSeq([i \in DOMAIN keys |-> rows(keys[i])])
-----------------------------------------------------------------------------
(***************************************************************************)
(* Reading.  A column is held with the features its constraint sets.       *)
(***************************************************************************)
MapColumn(c, key) ==
  [name |-> c.name, type |-> c.type,
   has |-> (IF c.notNull THEN {"notNull"} ELSE {}) \cup (IF key THEN {"pk"} ELSE {})
           \cup (IF c.default = "none" /\ ~c.notNull THEN {"null"} ELSE {})
           \cup (IF c.default = "none" THEN {} ELSE {c.default})]

PgColumn(c, key) ==
  [name |-> c.name, type |-> c.type,
   has |-> (IF c.notNull THEN {"notNull"} ELSE {}) \cup (IF key THEN {"pk"} ELSE {})
           \cup (IF c.default = "none" THEN {} ELSE {c.default})]

\* What a query saw of a table.
Saw(query, t) == IF t \in DOMAIN reading.got[query] THEN reading.got[query][t]
                 ELSE [cols |-> <<>>, keys |-> <<>>]

\* The columns of a constraint come with a later query than the constraint.
MySqlKeys(t) ==
  LET columns(k) == SelectSeq(Saw("keyColumns", t).keys, LAMBDA x : x.name = k.name)
  IN {LET c == columns(k) IN IF c = <<>> THEN [k EXCEPT !.cols = <<>>, !.table = "", !.refs = <<>>] ELSE c[1] :
        k \in ToSet(Saw("keys", t).keys)}

Columns(t) == LET seen == Saw("columns", t).cols
              IN [k \in DOMAIN seen |-> MapColumn(seen[k], seen[k].name \in Pri(Saw("columns", t)))]
Keys(t) == {[kind |-> k.kind, cols |-> k.cols, table |-> k.table, refs |-> k.refs] : k \in MySqlKeys(t)}

\* schemas(): the key is what the constraints mark, in the order of the columns.
MySqlSchemaTable(t) ==
  LET marked == UNION {ToSet(k.cols) : k \in {x \in MySqlKeys(t) : x.kind = "pk"}}
  IN [cols |-> Columns(t), keys |-> Keys(t),
      pk |-> SelectSeq(NameSeq(Saw("columns", t).cols), LAMBDA n : n \in marked)]

\* tableSchema(): the key is what the columns say.
MySqlTable(t) ==
  LET pri == Pri(Saw("columns", t))
  IN [cols |-> Columns(t), keys |-> Keys(t),
      pk |-> SelectSeq(NameSeq(Saw("columns", t).cols), LAMBDA n : n \in pri)]

PgFeature(rows, kind) == SelectSeq(rows, LAMBDA r : r.kind = kind)
PgForeign(rows) ==
  [kind |-> "fk", cols |-> <<Last(rows).col>>, table |-> Last(rows).table, refs |-> [j \in DOMAIN rows |-> rows[j].ref]]

\* schemas(): constraints are collected by the column they are about.
PgSchemaTable(t) ==
  LET rows == ConstraintRows(reading.got["keys"], t)
      of(c) == SelectSeq(rows, LAMBDA r : r.col = c)
      cols == {r.col : r \in ToSet(rows)}
      primary == SelectSeq(rows, LAMBDA r : PgFeature(of(r.col), "pk") # <<>>)
      seen == Saw("columns", t).cols
  IN [cols |-> [k \in DOMAIN seen |-> PgColumn(seen[k], FALSE)],
      pk |-> IF primary = <<>> THEN <<>>
             ELSE [j \in DOMAIN PgFeature(of(primary[1].col), "pk") |-> primary[1].col],
      keys |-> {PgForeign(PgFeature(of(c), "fk")) : c \in {x \in cols : PgFeature(of(x), "fk") # <<>>}}]

\* Fault: as for a unique constraint, only the last of the columns is kept.
PgPrimaryLast(rows) == IF rows = <<>> THEN <<>> ELSE <<Last(rows).col>>

PgPrimary(rows) == [j \in DOMAIN rows |-> rows[j].col]

\* tableSchema(): by the name of the constraint.
PgTable(t) ==
  LET rows == ConstraintRows(reading.got["keys"], t)
      pk == PgPrimary(PgFeature(rows, "pk"))
      of(n) == SelectSeq(rows, LAMBDA r : r.name = n)
      names == {r.name : r \in {x \in ToSet(rows) : x.kind = "fk"}}
      seen == Saw("columns", t).cols
  IN [cols |-> [k \in DOMAIN seen |-> PgColumn(seen[k], seen[k].name \in ToSet(pk))],
      pk |-> pk,
      keys |-> {PgForeign(of(n)) : n \in names}]

MySqlQueries == IF reading.kind = "schemas" THEN <<"tables", "columns", "keys", "keyColumns">>
                ELSE <<"columns", "keys", "keyColumns">>
PgQueries == IF reading.kind = "schemas" THEN <<"tables", "columns", "keys">> ELSE <<"columns", "keys">>
Queries == IF dialect = "mysql" THEN MySqlQueries ELSE PgQueries

StartReading(kind, t) ==
  /\ Op
  /\ reading = None /\ left = None
  /\ reading' = [kind |-> kind, table |-> t, got |-> [q \in {} |-> db]]
  /\ calm' = TRUE /\ grown' = FALSE /\ shown' = None /\ failed' = "" /\ saved' = None
  /\ UNCHANGED <<dialect, db, draft, left, base, folded, edits>>

\* batch: the queries are sent one by one.
Batch ==
  /\ reading # None
  /\ LET n == Cardinality(DOMAIN reading.got) + 1 IN
     /\ n <= Len(Queries)
     /\ reading' = [reading EXCEPT !.got = [q \in DOMAIN @ \cup {Queries[n]} |->
                                              IF q \in DOMAIN @ THEN @[q] ELSE db]]
  /\ UNCHANGED <<dialect, db, shown, failed, draft, left, base, calm, grown, folded, saved, edits, ops>>

\* MySQL's schemas() has no place for the columns of a table it did not list, its tableSchema()
\* none for a foreign key without columns.
Throws ==
  /\ dialect = "mysql"
  /\ \/ reading.kind = "schemas" /\ ~(DOMAIN reading.got["columns"] \subseteq DOMAIN reading.got["tables"])
     \/ /\ reading.kind = "table"
        /\ \E k \in MySqlKeys(reading.table) : k.kind = "fk" /\ k.cols = <<>>

SchemaOf(t) ==
  CASE dialect = "mysql" /\ reading.kind = "table" -> MySqlTable(t)
    [] dialect = "mysql" /\ reading.kind = "schemas" -> MySqlSchemaTable(t)
    [] dialect = "postgres" /\ reading.kind = "table" -> PgTable(t)
    [] dialect = "postgres" /\ reading.kind = "schemas" -> PgSchemaTable(t)

Listed == IF reading.kind = "schemas" THEN DOMAIN reading.got["tables"] ELSE {reading.table}

EndReading ==
  /\ reading # None /\ DOMAIN reading.got = ToSet(Queries)
  /\ reading' = None
  /\ IF Throws THEN failed' = reading.kind /\ UNCHANGED <<shown, draft>>
     ELSE /\ shown' = [kind |-> reading.kind, tables |-> [t \in Listed |-> SchemaOf(t)]]
          /\ draft' = IF reading.kind = "table"
                      THEN LET t == reading.table IN
                           Change(t, t, [k \in DOMAIN SchemaOf(t).cols |->
                                           [old |-> <<SchemaOf(t).cols[k]>>, new |-> <<SchemaOf(t).cols[k]>>]])
                      ELSE draft
          /\ UNCHANGED failed
  /\ UNCHANGED <<dialect, db, left, base, calm, grown, folded, saved, edits, ops>>
-----------------------------------------------------------------------------
(***************************************************************************)
(* The draft, edited in the table editor of SchemaChange.                  *)
(***************************************************************************)
NewTable ==
  /\ Op
  /\ draft = None /\ reading = None /\ shown = None
  /\ draft' = Change("", "new", <<[old |-> None, new |-> <<[name |-> "id", type |-> "int", has |-> {"pk"}]>>]>>)
  /\ UNCHANGED <<dialect, db, reading, shown, failed, left, base, calm, grown, folded, saved, edits>>

Edit(d) ==
  /\ edits < MaxEdits /\ edits' = edits + 1
  /\ left = None /\ saved = None /\ d # draft
  /\ draft' = d
  /\ UNCHANGED <<dialect, db, reading, shown, failed, left, base, calm, grown, folded, saved, ops>>

EditColumn(k) ==
  LET c == draft.cols[k].new[1]
      changed == {[c EXCEPT !.name = n] : n \in Names} \cup {[c EXCEPT !.type = t] : t \in Types}
                 \cup {[c EXCEPT !.has = SymDiff(@, {f})] : f \in {"notNull", "unique", "fk"}}
  IN /\ draft.cols[k].new # None
     /\ \/ \E new \in changed : Edit([draft EXCEPT !.cols[k].new = <<new>>])
        \/ Edit([draft EXCEPT !.cols = IF @[k].old = None THEN RemoveAt(@, k) ELSE [@ EXCEPT ![k].new = None]])

EditTable ==
  \/ \E n \in Names : \E t \in Types :
       Edit([draft EXCEPT !.cols = Append(@, [old |-> None, new |-> <<[name |-> n, type |-> t, has |-> {}]>>])])
  \/ Edit([draft EXCEPT !.new = "other"])
  \/ \E t \in DOMAIN db : \E n \in Names :
       Edit([draft EXCEPT !.keys = <<Key("", "fk", <<n>>, t, <<"id">>)>>])
-----------------------------------------------------------------------------
(***************************************************************************)
(* The statements.                                                         *)
(***************************************************************************)
Statement(op, name, arg) == [op |-> op, name |-> name, arg |-> arg]

\* What is written of a column: everything it has, its own foreign key in a form of the
\* dialect; when Postgres alters a column, its type only.
MySqlCreateColumn(c) ==
  [c EXCEPT !.has = (@ \ {"fk"}) \cup (IF "fk" \in @ THEN {"references"} ELSE {})]
PgCreateColumn(c, edit) ==
  [c EXCEPT !.has = IF edit THEN {}
                    ELSE (@ \ {"fk"}) \cup (IF "fk" \in @ THEN {"foreign key references"} ELSE {})]
CreateColumn(c) == IF dialect = "mysql" THEN MySqlCreateColumn(c) ELSE PgCreateColumn(c, FALSE)

ConstraintScript(name, has, cols, table) ==
  Key(name, IF "pk" \in has THEN "pk" ELSE IF "unique" \in has THEN "unique" ELSE "fk",
      cols, IF has \cap {"pk", "unique"} = {} THEN table ELSE "",
      IF has \cap {"pk", "unique"} = {} THEN <<"id">> ELSE <<>>)

RenameLine(old, new) == IF old.name = new.name THEN <<>> ELSE <<Statement("rename", old.name, new)>>
Differs(old, new) == [old EXCEPT !.name = new.name] # new

\* Fault: a column that is renamed is not modified.
MySqlColumnOnce(old, new) ==
  IF old.name # new.name THEN RenameLine(old, new)
  ELSE IF Differs(old, new) THEN <<Statement("modify", new.name, MySqlCreateColumn(new))>> ELSE <<>>

MySqlColumn(old, new) ==
  RenameLine(old, new)
  \o (IF Differs(old, new) THEN <<Statement("modify", new.name, MySqlCreateColumn(new))>> ELSE <<>>)

\* generateConstraintModifyScript is given a foreign key whatever the column has.
PgConstraint(c, table) ==
  LET target == IF "fk" \in c.has THEN Target ELSE "undefined"
      name == IF "unique" \in c.has THEN table \o "_" \o c.name \o "_key"
              ELSE table \o "_" \o target \o "_" \o c.name \o "_fkey"
  IN ConstraintScript(name, c.has, <<c.name>>, target)

PgColumnChange(old, new, table) ==
  LET con == PgConstraint(new, table)
  IN RenameLine(old, new)
     \o (IF ~Differs(old, new) THEN <<>>
         ELSE <<Statement("type", new.name, PgCreateColumn(new, TRUE)),
                Statement("dropKey", con.name, con), Statement("addKey", con.name, con)>>)

ColumnLines(d, c) ==
  IF c.new = None THEN <<Statement("drop", c.old[1].name, None)>>
  ELSE IF c.old = None THEN <<Statement("add", c.new[1].name, CreateColumn(c.new[1]))>>
  ELSE IF dialect = "mysql" THEN MySqlColumn(c.old[1], c.new[1])
  ELSE PgColumnChange(c.old[1], c.new[1], d.old)

\* Constraints of the draft are written when a table is created, and only then.
GenerateSchemaChange(d) ==
  IF d.old = ""
  THEN <<Statement("create", d.new, [cols |-> [k \in DOMAIN d.cols |-> CreateColumn(d.cols[k].new[1])],
                                     keys |-> d.keys])>>
  ELSE FlattenSeq([k \in DOMAIN d.cols |-> ColumnLines(d, d.cols[k])])
       \o (IF d.new # d.old THEN <<Statement("title", d.new, None)>> ELSE <<>>)

\* transaction: the statements go to the connection together and are carried out in turn.
Save ==
  /\ Op
  /\ draft # None /\ left = None /\ reading = None /\ saved = None
  /\ GenerateSchemaChange(draft) # <<>>
  /\ left' = GenerateSchemaChange(draft)
  /\ base' = db
  /\ UNCHANGED <<dialect, db, reading, shown, failed, draft, calm, grown, folded, saved, edits>>
-----------------------------------------------------------------------------
(***************************************************************************)
(* What the servers take (external): s is a statement, t the table altered.*)
(***************************************************************************)
Has(t, n) == n \in ToSet(NameSeq(t.cols))

\* What Postgres takes for the name written without quotes.
Written(n) == IF dialect = "postgres" THEN Lower[n] ELSE n

\* "DEFAULT 'now()'" and "NOT NULL DEFAULT NULL" are refused, and so is a column's
\* "FOREIGN KEY REFERENCES"; MySQL reads a column's REFERENCES and does nothing.
GoodColumn(c) == /\ "expression" \notin c.has
                 /\ ~({"null", "notNull"} \subseteq c.has)
                 /\ "foreign key references" \notin c.has

ColumnKeys(t, c) ==
  LET free == IF \E k \in ToSet(t.keys) : k.name = c.name THEN c.name \o "_2" ELSE c.name
  IN (IF "pk" \in c.has THEN <<Key("PRIMARY", "pk", <<c.name>>, "", <<>>)>> ELSE <<>>)
     \o (IF "unique" \in c.has THEN <<Key(free, "unique", <<c.name>>, "", <<>>)>> ELSE <<>>)

ServerColumn(c) == [name |-> c.name, type |-> c.type, notNull |-> c.has \cap {"notNull", "pk"} # {},
                    default |-> IF "value" \in c.has THEN "value" ELSE "none"]

OnePrimary(t, c) == "pk" \in c.has => \A k \in ToSet(t.keys) : k.kind # "pk"
Mentions(t, n) == \E k \in ToSet(t.keys) : k.kind = "fk" /\ n \in ToSet(k.cols)

Takes(s, t) ==
  CASE s.op = "add" -> ~Has(t, s.name) /\ GoodColumn(s.arg) /\ OnePrimary(t, s.arg)
    [] s.op = "drop" -> Has(t, Written(s.name)) /\ Len(t.cols) > 1 /\ ~Mentions(t, Written(s.name))
    [] s.op = "rename" -> Has(t, s.name) /\ ~Has(t, s.arg.name)
    [] s.op = "modify" -> Has(t, s.name) /\ GoodColumn(s.arg) /\ OnePrimary(t, s.arg)
    [] s.op = "type" -> Has(t, s.name)
    [] s.op = "dropKey" -> TRUE
    [] s.op = "addKey" -> /\ s.arg.kind = "fk" => s.arg.table \in DOMAIN db
                          /\ s.arg.kind = "pk" => \A k \in ToSet(t.keys) : k.kind # "pk"
    [] s.op = "title" -> dialect = "mysql" /\ s.name \notin DOMAIN db

Renamed(cols, old, new) == [k \in DOMAIN cols |-> IF cols[k] = old THEN new ELSE cols[k]]

Altered(s, t) ==
  LET others(n) == SelectSeq(t.cols, LAMBDA c : c.name # n)
      replaced(c) == [k \in DOMAIN t.cols |-> IF t.cols[k].name = s.name THEN c ELSE t.cols[k]]
      old == CHOOSE c \in ToSet(t.cols) : c.name = s.name
  IN CASE s.op = "add" -> [cols |-> Append(t.cols, ServerColumn(s.arg)), keys |-> t.keys \o ColumnKeys(t, s.arg)]
       [] s.op = "drop" -> [cols |-> others(Written(s.name)),
                            keys |-> SelectSeq(t.keys, LAMBDA k : Written(s.name) \notin ToSet(k.cols))]
       [] s.op = "rename" -> [cols |-> replaced([old EXCEPT !.name = s.arg.name]),
                              keys |-> [k \in DOMAIN t.keys |->
                                          [t.keys[k] EXCEPT !.cols = Renamed(@, s.name, s.arg.name)]]]
       [] s.op = "modify" -> [cols |-> replaced(ServerColumn(s.arg)), keys |-> t.keys \o ColumnKeys(t, s.arg)]
       [] s.op = "type" -> [t EXCEPT !.cols = replaced([old EXCEPT !.type = s.arg.type])]
       [] s.op = "dropKey" -> [t EXCEPT !.keys = SelectSeq(@, LAMBDA k : k.name # s.name)]
       [] s.op = "addKey" -> [t EXCEPT !.keys = Append(@, s.arg)]

Created(s) ==
  LET from(t, c) == [cols |-> Append(t.cols, ServerColumn(c)), keys |-> t.keys \o ColumnKeys(t, c)]
      whole == FoldLeft(from, [cols |-> <<>>, keys |-> <<>>], s.arg.cols)
  IN [whole EXCEPT !.keys = @ \o s.arg.keys]

\* Every table named exists, every column is there once, and there is one primary key.
TakesTable(s) ==
  LET t == Created(s) IN
  /\ s.name \notin DOMAIN db /\ t.cols # <<>>
  /\ IsInjective(NameSeq(t.cols))
  /\ \A c \in ToSet(s.arg.cols) : GoodColumn(c)
  /\ Len(SelectSeq(t.keys, LAMBDA k : k.kind = "pk")) <= 1
  /\ \A k \in ToSet(t.keys) : /\ ToSet(k.cols) \subseteq ToSet(NameSeq(t.cols))
                              /\ k.kind = "fk" => k.table \in DOMAIN db /\ ToSet(k.refs) \subseteq Primary(db[k.table])

Put(t, table) == [n \in DOMAIN db \cup {t} |-> IF n = t THEN table ELSE db[n]]

Execute ==
  LET s == Head(left)
      t == draft.old
  IN /\ left # None
     /\ CASE s.op = "create" -> TakesTable(s) /\ db' = Put(s.name, Created(s))
          [] s.op = "title" -> /\ t \in DOMAIN db /\ Takes(s, db[t])
                               /\ db' = [n \in (DOMAIN db \ {t}) \cup {s.name} |-> IF n = s.name THEN db[t] ELSE db[n]]
          [] OTHER -> t \in DOMAIN db /\ Takes(s, db[t]) /\ db' = Put(t, Altered(s, db[t]))
     /\ left' = Tail(left)
     /\ saved' = IF Tail(left) = <<>> THEN draft ELSE None
     /\ calm' = FALSE
     /\ folded' = (folded \/ (s.op = "drop" /\ Written(s.name) # s.name))
     /\ UNCHANGED <<dialect, reading, shown, failed, draft, base, grown, edits, ops>>

\* A statement is refused, and the rest is not sent.  MySQL keeps what it has done; with
\* Postgres it depends on the connection.
Refuse ==
  /\ left # None
  /\ left' = None
  /\ db' \in {db} \cup (IF dialect = "postgres" THEN {base} ELSE {})
  /\ calm' = (calm /\ db' = db)
  /\ UNCHANGED <<dialect, reading, shown, failed, draft, base, grown, folded, saved, edits, ops>>

\* Someone else creates or drops a table, or drops a constraint.
Elsewhere ==
  /\ Op
  /\ reading # None
  /\ \/ /\ "late" \notin DOMAIN db
        /\ db' = Put("late", [cols |-> <<Column("id", "int")>>, keys |-> <<>>])
        /\ grown' = TRUE
     \/ \E t \in DOMAIN db : db' = [n \in DOMAIN db \ {t} |-> db[n]] /\ UNCHANGED grown
     \/ \E t \in DOMAIN db : \E k \in DOMAIN db[t].keys :
          db' = [db EXCEPT ![t].keys = RemoveAt(@, k)] /\ UNCHANGED grown
  /\ calm' = FALSE
  /\ UNCHANGED <<dialect, reading, shown, failed, draft, left, base, folded, saved, edits>>

Next ==
  \* A refresh of the schema does not touch a draft: the two are taken in turn.
  \/ draft = None /\ (StartReading("schemas", "") \/ \E t \in DOMAIN db : StartReading("table", t))
  \/ Batch \/ EndReading
  \/ NewTable
  \/ draft # None /\ (\/ \E k \in DOMAIN draft.cols : EditColumn(k)
                      \/ EditTable)
  \/ Save \/ Execute \/ Refuse
  \/ Elsewhere

Spec == Init /\ [][Next]_vars
-----------------------------------------------------------------------------
Foreign(keys) == {[cols |-> k.cols, table |-> k.table, refs |-> k.refs] : k \in {x \in keys : x.kind = "fk"}}

\* Constraints of one column each, with names no other table uses.
Simple(tables) ==
  /\ \A t \in DOMAIN tables : \A k \in ToSet(tables[t].keys) : Len(k.cols) = 1
  /\ \A t, u \in DOMAIN tables : \A k \in ToSet(tables[t].keys) : \A j \in ToSet(tables[u].keys) :
       k.name = j.name => t = u

\* A schema read while nobody changed it is the schema: its columns, for MySQL its keys, for
\* Postgres the primary key of a table that is opened and, with simple constraints, all keys;
\* and a reading fails only when a table was created, or a constraint dropped, under it.
ReadIsCatalog ==
  /\ calm /\ shown # None => \A t \in DOMAIN shown.tables : LET read == shown.tables[t] IN
       /\ NameSeq(read.cols) = NameSeq(db[t].cols)
       /\ \A k \in DOMAIN db[t].cols : read.cols[k].type = db[t].cols[k].type
       /\ dialect = "mysql" => /\ Foreign(read.keys) = Foreign(ToSet(db[t].keys))
                               /\ Primary(db[t]) # {} => ToSet(read.pk) = Primary(db[t])
       /\ dialect = "postgres" /\ shown.kind = "table" => ToSet(read.pk) = Primary(db[t])
       /\ dialect = "postgres" /\ Simple(db) => /\ Foreign(read.keys) = Foreign(ToSet(db[t].keys))
                                                /\ ToSet(read.pk) = Primary(db[t])
  /\ failed = "schemas" => grown
  /\ failed = "table" => ~calm

\* A draft the server has taken as a whole is the table: its columns with their types, the keys
\* asked for and, for MySQL, what may be null.  Excluded: a DROP COLUMN, written without quotes,
\* that reached another column.
AcceptedAsShown ==
  saved # None /\ ~folded =>
    LET kept == SelectSeq(saved.cols, LAMBDA c : c.new # None)
        table == db[saved.new]
        asked(c) == c.new[1].has \ (IF c.old = None THEN {} ELSE c.old[1].has)
    IN /\ NameSeq(table.cols) = [k \in DOMAIN kept |-> kept[k].new[1].name]
       /\ \A k \in DOMAIN kept :
            LET c == kept[k].new[1] IN
            /\ table.cols[k].type = c.type
            /\ dialect = "mysql" /\ "pk" \notin c.has => (table.cols[k].notNull <=> "notNull" \in c.has)
            /\ "unique" \in asked(kept[k]) =>
                 \E key \in ToSet(table.keys) : key.kind \in {"pk", "unique"} /\ c.name \in ToSet(key.cols)
            /\ "pk" \in asked(kept[k]) => c.name \in Primary(table)
       /\ saved.old = "" => \A k \in ToSet(saved.keys) : k \in ToSet(table.keys)
=============================================================================
