----------------------------- MODULE SqlScripts -----------------------------
(***************************************************************************)
(* The scripts SQLite keeps of its tables and triggers, as the studio writes *)
(* them and as its parser reads them back.  A script is a sequence of tokens *)
(* without blanks, [kind, text]; a constraint is a function from the fields   *)
(* it sets.  No field means undefined.                                       *)
(***************************************************************************)
EXTENDS Integers, Sequences, FiniteSets, SequencesExt, FiniteSetsExt, TLC

CONSTANTS
  Tables,    \* tables the editor of the studio can describe: [columns, constraints]
  Scripts,   \* tables other clients created: [script, names], names the columns SQLite sees
  Added,     \* columns that ALTER TABLE may add
  Triggers,  \* triggers other clients created
  MaxSteps   \* bound: scripts written

None == <<>>

VARIABLES
  schema,   \* what SQLite keeps: the scripts of the table and of the trigger
  truth,    \* what was asked of SQLite: the table, the names of its columns, the trigger
  table,    \* the table as the studio read it, or None
  trigger,  \* the trigger as the studio read it, or None
  steps

vars == <<schema, truth, table, trigger, steps>>

-----------------------------------------------------------------------------
Word(text) == <<[kind |-> "word", text |-> text]>>
Words(texts) == [k \in DOMAIN texts |-> [kind |-> "word", text |-> texts[k]]]
Id(name) == <<[kind |-> "name", text |-> name]>>
Lit(kind, text) == <<[kind |-> kind, text |-> text]>>
Paren(tokens) == Word("(") \o tokens \o Word(")")
Commas(parts) ==
  IF parts = <<>> THEN <<>>
  ELSE Tail(FlattenSeq([k \in DOMAIN parts |-> Word(",") \o parts[k]]))
Ids(names) == Commas([k \in DOMAIN names |-> Id(names[k])])

\* wrapParen: an expression that begins and ends with a parenthesis is taken for a wrapped one.
WrapParen(e) == IF Len(e) >= 2 /\ e[1].text = "(" /\ e[Len(e)].text = ")" THEN e ELSE Paren(e)

\* A default that JavaScript takes for false, 0 or the empty text, is not written.
Falsy(value) == value \in {Lit("number", "0"), Lit("string", "")}

\* generateCreateColumn.
CreateColumn(col) ==
  LET con == col.con
      part(f, tokens) == IF f \in DOMAIN con THEN tokens ELSE <<>>
      conflict(f) == IF f \in DOMAIN con THEN Words(<<"ON", "CONFLICT", con[f]>>) ELSE <<>>
  IN Id(col.name) \o col.type
     \o part("primaryKey", Words(<<"PRIMARY", "KEY">>)
                           \o (IF "primaryKeyOrder" \in DOMAIN con THEN Word(con.primaryKeyOrder)
                               ELSE <<>>)
                           \o conflict("primaryKeyConflict")
                           \o (IF "autoIncrement" \in DOMAIN con THEN Word("AUTOINCREMENT")
                               ELSE <<>>))
     \o part("unique", Word("UNIQUE") \o conflict("uniqueConflict"))
     \o part("notNull", Words(<<"NOT", "NULL">>) \o conflict("notNullConflict"))
     \o part("defaultValue", IF Falsy(con.defaultValue) THEN <<>>
                             ELSE Word("DEFAULT") \o con.defaultValue)
     \o part("defaultExpression", Word("DEFAULT") \o WrapParen(con.defaultExpression))
     \o part("generated", Words(<<"GENERATED", "ALWAYS", "AS">>) \o WrapParen(con.generated)
                          \o Word(con.generatedType))
     \o part("check", Word("CHECK") \o WrapParen(con.check))
     \o part("foreignKey", Word("REFERENCES") \o Id(con.foreignKey.table)
                           \o Paren(Id(con.foreignKey.to[1])))

\* generateConstraintScript: the first kind that is set, without name and conflict clause.
ConstraintScript(con) ==
  CASE "primaryKey" \in DOMAIN con -> Words(<<"PRIMARY", "KEY">>) \o Paren(Ids(con.primaryColumns))
    [] "unique" \in DOMAIN con -> Word("UNIQUE") \o Paren(Ids(con.uniqueColumns))
    [] "check" \in DOMAIN con -> Word("CHECK") \o Paren(con.check)
    [] OTHER -> Words(<<"FOREIGN", "KEY">>) \o Paren(Ids(con.foreignKey.columns))
                \o Word("REFERENCES") \o Id(con.foreignKey.table) \o Paren(Ids(con.foreignKey.to))

CreateTable(t) ==
  Words(<<"CREATE", "TABLE">>) \o Id("t")
  \o Paren(Commas([k \in DOMAIN t.columns |-> CreateColumn(t.columns[k])]
                  \o [k \in DOMAIN t.constraints |-> ConstraintScript(t.constraints[k])]))

-----------------------------------------------------------------------------
\* CursorV2.  Past the end there is a token that matches nothing.
End == [kind |-> "end", text |-> ""]
At(c) == IF c = <<>> THEN End ELSE c[1]
Skip(c, n) == IF n >= Len(c) THEN <<>> ELSE SubSeq(c, n + 1, Len(c))
Match(c, word) == At(c).text = word /\ At(c).kind = "word"

Depth(c, k) == Cardinality({i \in 1 .. k : c[i].kind = "word" /\ c[i].text = "("})
               - Cardinality({i \in 1 .. k : c[i].kind = "word" /\ c[i].text = ")"})
Closing(c) == Min({k \in DOMAIN c : Depth(c, k) = 0})
ConsumeParen(c) == [inner |-> SubSeq(c, 2, Closing(c) - 1), rest |-> Skip(c, Closing(c))]

\* Up to the first place that is no comma where one should be.
ParseColumnList(c) ==
  LET stop == {k \in 1 .. Len(c) + 1 : k % 2 = 0 /\ (k > Len(c) \/ c[k].text # ",")}
              \cup {Len(c) + 1}
  IN [k \in 1 .. Min(stop) \div 2 |-> c[2 * k - 1].text]

ParseConflict(c) == IF Match(c, "ON") /\ Match(Skip(c, 1), "CONFLICT")
                    THEN [action |-> At(Skip(c, 2)).text, rest |-> Skip(c, 3)]
                    ELSE [action |-> "", rest |-> IF Match(c, "ON") THEN Skip(c, 1) ELSE c]

\* A field that is undefined is no field.
Field(f, set, value) == IF set THEN f :> value ELSE <<>>

Nothing == <<>>

ParseDefault(c) ==
  LET t == At(c)
  IN CASE t.kind \in {"string", "number"} -> [con |-> "defaultValue" :> <<t>>, rest |-> Skip(c, 1)]
       [] t.kind = "op" -> [con |-> "defaultValue" :>
                              IF t.text = "-" THEN SubSeq(c, 1, 2) ELSE SubSeq(c, 2, 2),
                            rest |-> Skip(c, 2)]
       [] Match(c, "(") -> [con |-> "defaultExpression" :> ConsumeParen(c).inner,
                            rest |-> ConsumeParen(c).rest]
       [] t.kind = "word" /\ t.text \in {"NULL", "TRUE", "CURRENT_TIME"} ->
            [con |-> "defaultExpression" :> <<t>>, rest |-> Skip(c, 1)]
       [] OTHER -> [con |-> Nothing, rest |-> c]

\* Fault: the type of a generated column is looked for where it stands.
GeneratedAt(c) ==
  LET p == ConsumeParen(c)
  IN [con |-> ("generated" :> p.inner) @@
              ("generatedType" :> IF Match(p.rest, "STORED") THEN "STORED" ELSE "VIRTUAL"),
      rest |-> p.rest]

\* GENERATED ALWAYS AS: one token is skipped before the type of the column is looked for, so
\* that no column is ever read as STORED.
ParseGenerated(c) ==
  LET p == ConsumeParen(c)
      after == Skip(p.rest, 1)
  IN [con |-> ("generated" :> p.inner) @@
              ("generatedType" :> IF Match(after, "STORED") THEN "STORED" ELSE "VIRTUAL"),
      rest |-> after]

\* REFERENCES: what stands before the next parenthesis or comma is skipped.
ParseReferences(c) ==
  LET stops == {k \in DOMAIN c : k > 1 /\ c[k].kind = "word" /\ c[k].text \in {"(", ","}}
      at == IF stops = {} THEN <<>> ELSE Skip(c, Min(stops) - 1)
      cols == IF Match(at, "(") THEN ParseColumnList(ConsumeParen(at).inner) ELSE <<>>
  IN [con |-> "foreignKey" :> [table |-> At(c).text, to |-> cols],
      rest |-> IF Match(at, "(") THEN ConsumeParen(at).rest ELSE at]

ParenOrNothing(c) == IF Match(c, "(") THEN ConsumeParen(c) ELSE [inner |-> <<>>, rest |-> c]

\* PRIMARY KEY after its column list a, then its order at b, its conflict clause d.
PrimaryKey(a, b, d) ==
  LET auto == Match(d.rest, "AUTOINCREMENT")
  IN [con |-> ("primaryKey" :> TRUE)
              @@ Field("primaryColumns", Match(a, "("), ParseColumnList(ParenOrNothing(a).inner))
              @@ Field("primaryKeyOrder", Match(b, "ASC") \/ Match(b, "DESC"), At(b).text)
              @@ Field("primaryKeyConflict", d.action # "", d.action)
              @@ Field("autoIncrement", auto, TRUE),
      rest |-> IF auto THEN Skip(d.rest, 1) ELSE d.rest]
AfterOrder(b) == IF Match(b, "ASC") \/ Match(b, "DESC") THEN Skip(b, 1) ELSE b
Unique(a, d) ==
  [con |-> ("unique" :> TRUE)
           @@ Field("uniqueColumns", Match(a, "("), ParseColumnList(ParenOrNothing(a).inner))
           @@ Field("uniqueConflict", d.action # "", d.action),
   rest |-> d.rest]
NotNull(d) ==
  [con |-> ("notNull" :> TRUE) @@ Field("notNullConflict", d.action # "", d.action), rest |-> d.rest]

\* One constraint, without a name and no foreign key of the table.
OneConstraint(c) ==
  CASE Match(c, "PRIMARY") ->
         LET a == Skip(c, 2)
             b == ParenOrNothing(a).rest
         IN PrimaryKey(a, b, ParseConflict(AfterOrder(b)))
    [] Match(c, "NOT") -> NotNull(ParseConflict(Skip(c, 2)))
    [] Match(c, "UNIQUE") -> LET a == Skip(c, 1) IN Unique(a, ParseConflict(ParenOrNothing(a).rest))
    [] Match(c, "DEFAULT") -> ParseDefault(Skip(c, 1))
    [] Match(c, "CHECK") -> [con |-> "check" :> <<At(Skip(c, 1))>>, rest |-> Skip(c, 2)]
    [] Match(c, "COLLATE") -> [con |-> "collate" :> At(Skip(c, 1)).text, rest |-> Skip(c, 2)]
    [] Match(c, "REFERENCES") -> ParseReferences(Skip(c, 1))
    [] Match(c, "GENERATED") -> ParseGenerated(Skip(c, 3))
    [] OTHER -> [con |-> Nothing, rest |-> c]

RECURSIVE ParseConstraint(_)

\* A constraint and those that follow it: the fields of a later one win, a name those of all.
Following(r) ==
  IF r.con = Nothing THEN r ELSE [ParseConstraint(r.rest) EXCEPT !.con = @ @@ r.con]
ForeignKey(columns, r) ==
  [con |-> "foreignKey" :> [table |-> r.con.foreignKey.table, to |-> r.con.foreignKey.to, columns |-> columns],
   rest |-> r.rest]

ParseConstraint(c) ==
  IF Match(c, "CONSTRAINT")
  THEN [ParseConstraint(Skip(c, 2)) EXCEPT !.con = ("name" :> c[2].text) @@ @]
  ELSE IF Match(c, "FOREIGN")
       THEN LET p == ConsumeParen(Skip(c, 2)) IN ForeignKey(ParseColumnList(p.inner), ParseConstraint(p.rest))
       ELSE Following(OneConstraint(c))

-----------------------------------------------------------------------------
\* parseColumnDef: the token after the name is the type, whatever it is.
ParseColumn(c) ==
  LET after == Skip(c, 2)
      p == IF Match(after, "(") THEN ConsumeParen(after) ELSE [inner |-> <<>>, rest |-> after]
      r == ParseConstraint(p.rest)
  IN [column |-> [name |-> At(c).text,
                  type |-> (IF Len(c) < 2 THEN <<>> ELSE <<c[2]>>)
                           \o (IF Match(after, "(") THEN Paren(p.inner) ELSE <<>>),
                  con |-> r.con, pk |-> "primaryKey" \in DOMAIN r.con],
      rest |-> r.rest]

\* What follows the next comma, even one inside parentheses.
AfterComma(c) ==
  LET commas == {k \in DOMAIN c : c[k].kind = "word" /\ c[k].text = ","}
  IN IF commas = {} THEN <<>> ELSE Skip(c, Min(commas))

RECURSIVE ParseDefinitions(_, _, _)

ParseDefinitions(c, columns, constraints) ==
  IF c = <<>> THEN [columns |-> columns, constraints |-> constraints]
  ELSE IF \E w \in {"CONSTRAINT", "PRIMARY", "UNIQUE", "CHECK", "FOREIGN"} : Match(c, w)
       THEN LET r == ParseConstraint(c)
            IN ParseDefinitions(AfterComma(r.rest), columns, Append(constraints, r.con))
       ELSE LET r == ParseColumn(c)
            IN ParseDefinitions(AfterComma(r.rest), Append(columns, r.column), constraints)

\* parseCreateTableScript: the keys of the table mark their columns, and a key of a column that
\* names none refers to the column of its own name.
ParseTable(script) ==
  LET inner == ConsumeParen(Skip(script, 3)).inner
      read == ParseDefinitions(inner, <<>>, <<>>)
      keyed == UNION {ToSet(read.constraints[k].primaryColumns) :
                        k \in {j \in DOMAIN read.constraints :
                                 "primaryColumns" \in DOMAIN read.constraints[j]}}
      own(con, name) == IF "foreignKey" \in DOMAIN con /\ con.foreignKey.to = <<>>
                        THEN [con EXCEPT !.foreignKey.to = <<name>>] ELSE con
      done(col) == [col EXCEPT !.pk = @ \/ col.name \in keyed, !.con = own(@, col.name)]
  IN [read EXCEPT !.columns = [k \in DOMAIN read.columns |-> done(read.columns[k])]]

-----------------------------------------------------------------------------
Clause(set, tokens) == IF set THEN tokens ELSE <<>>

\* Fault: the operation is written before the timing.
CreateTriggerSwapped(t) ==
  Words(<<"CREATE", "TRIGGER">>) \o Id("g") \o Word(t.operation) \o Word(t.when)
  \o Word("ON") \o Id("t") \o Words(<<"FOR", "EACH", "ROW", "BEGIN">>) \o t.statement \o Word("END")

\* createTrigger: neither the columns of UPDATE OF nor the WHEN clause is written.
CreateTrigger(t) ==
  Words(<<"CREATE", "TRIGGER">>) \o Id("g") \o Word(t.when) \o Word(t.operation)
  \o Word("ON") \o Id("t") \o Words(<<"FOR", "EACH", "ROW", "BEGIN">>) \o t.statement \o Word("END")

\* The same trigger as SQLite takes it (external).
FullTrigger(t) ==
  Words(<<"CREATE", "TRIGGER">>) \o Id("g") \o Word(t.when) \o Word(t.operation)
  \o Clause(t.columns # <<>>, Word("OF") \o Ids(t.columns))
  \o Word("ON") \o Id("t") \o Clause(t.condition # <<>>, Word("WHEN") \o t.condition)
  \o Word("BEGIN") \o t.statement \o Word("END")

IndexOf(c, word) == Min({k \in DOMAIN c : c[k].kind = "word" /\ c[k].text = word})

\* parseCreateTriggerScript: without a timing it is BEFORE; the condition keeps its WHEN; the
\* body ends with the last semicolon.
ParseTrigger(c) ==
  LET timed == c[4].text \in {"BEFORE", "AFTER"}
      op == IF timed THEN Skip(c, 4) ELSE Skip(c, 3)
      on == IndexOf(op, "ON")
      body == Skip(op, IndexOf(op, "BEGIN"))
      head == SubSeq(op, on + 2, IndexOf(op, "BEGIN") - 1)
      each == Match(head, "FOR")
  IN [when |-> IF timed THEN c[4].text ELSE "BEFORE", operation |-> op[1].text,
      columns |-> IF Match(Skip(op, 1), "OF") THEN ParseColumnList(SubSeq(op, 3, on - 1)) ELSE <<>>,
      condition |-> IF each THEN Skip(head, 4) ELSE head,
      statement |-> Front(body)]

-----------------------------------------------------------------------------
NamesOf(t) == [k \in DOMAIN t.columns |-> t.columns[k].name]

Init ==
  /\ \E g \in Triggers :
       \/ \E t \in Tables :
            /\ schema = [table |-> CreateTable(t), trigger |-> FullTrigger(g)]
            /\ truth = [table |-> t, names |-> NamesOf(t), trigger |-> g]
       \/ \E s \in Scripts :
            /\ schema = [table |-> s.script, trigger |-> FullTrigger(g)]
            /\ truth = [table |-> None, names |-> s.names, trigger |-> g]
  /\ table = None /\ trigger = None /\ steps = 0

Count == steps < MaxSteps /\ steps' = steps + 1

ReadTable ==
  /\ table = None /\ table' = ParseTable(schema.table)
  /\ UNCHANGED <<schema, truth, trigger, steps>>

\* ALTER TABLE ADD COLUMN: SQLite puts the column last in the script (external); a column can
\* follow a table constraint there.
AddColumn(col) ==
  /\ Count
  /\ col.name \notin ToSet(truth.names)
  /\ schema' = [schema EXCEPT !.table = Front(@) \o Word(",") \o CreateColumn(col) \o Word(")")]
  /\ truth' = [truth EXCEPT !.names = Append(@, col.name),
                 !.table = IF @ = None THEN @ ELSE [@ EXCEPT !.columns = Append(@, col)]]
  /\ table' = None
  /\ UNCHANGED trigger

OpenTrigger ==
  /\ trigger = None /\ trigger' = ParseTrigger(schema.trigger)
  /\ UNCHANGED <<schema, truth, table, steps>>

\* The body is edited, and the trigger dropped and created again.
SaveTrigger(body) ==
  /\ trigger # None /\ body # trigger.statement /\ Count
  /\ schema' = [schema EXCEPT !.trigger = CreateTrigger([trigger EXCEPT !.statement = body])]
  /\ truth' = [truth EXCEPT !.trigger.statement = body]
  /\ trigger' = None
  /\ UNCHANGED table

Next ==
  \/ ReadTable \/ OpenTrigger
  \/ \E col \in Added : AddColumn(col)
  \/ \E g \in Triggers : SaveTrigger(g.statement)

Spec == Init /\ [][Next]_vars

-----------------------------------------------------------------------------
\* What the script of a table the studio created cannot say, or its parser cannot read.
Sayable(con) ==
  /\ "check" \notin DOMAIN con
  /\ "generatedType" \in DOMAIN con => con.generatedType = "VIRTUAL"
  /\ "defaultValue" \in DOMAIN con => ~Falsy(con.defaultValue)

KeyedBy(t) == UNION {IF "primaryColumns" \in DOMAIN t.constraints[k]
                     THEN ToSet(t.constraints[k].primaryColumns) ELSE {} : k \in DOMAIN t.constraints}

\* A table the studio created and altered is read back as it was described, column by column and
\* constraint by constraint, whatever the order of its constraints -- unless it has a check, a
\* stored generated column or a default of 0 or '' (sqlite-generate-schema.ts:14,
\* sql-parse-table.ts:211).
CreatedIsReadBack ==
  LET t == truth.table IN
  (table # None /\ t # None /\ \A k \in DOMAIN t.columns : Sayable(t.columns[k].con)
                            /\ \A j \in DOMAIN t.constraints : Sayable(t.constraints[j])) =>
    /\ table.constraints = t.constraints
    /\ Len(table.columns) = Len(t.columns)
    /\ \A k \in DOMAIN t.columns :
         LET want == t.columns[k]
         IN table.columns[k] = [name |-> want.name, type |-> want.type, con |-> want.con,
                                pk |-> "primaryKey" \in DOMAIN want.con \/ want.name \in KeyedBy(t)]

\* What the parser stumbles over: a check, and a column of the table without a type.
Unread(c) ==
  \E k \in DOMAIN c : \/ c[k].text = "CHECK"
                      \/ c[k].kind = "name" /\ Depth(c, k) = 1 /\ c[k + 1].text \in {",", ")"}

\* Whoever wrote the script, and whatever columns were added behind its constraints, the columns
\* read are the columns the table has, in their order -- unless the script has a check or a
\* column without a type (sql-parse-table.ts:154, 329, 418).
ColumnsAreRead == table # None /\ ~Unread(schema.table) => NamesOf(table) = truth.names

\* A trigger keeps its timing and its operation when only its body is edited, and the body is
\* the one that was written (sqlite-base-driver.ts:276, sql-parse-trigger.ts:8).
EditedTriggerKeepsEvent ==
  trigger # None => /\ trigger.when = truth.trigger.when
                    /\ trigger.operation = truth.trigger.operation
                    /\ trigger.statement = truth.trigger.statement
=============================================================================
