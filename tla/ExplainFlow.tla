----------------------------- MODULE ExplainFlow -----------------------------
(***************************************************************************)
(* The picture of a query plan: the rows of EXPLAIN QUERY PLAN are turned    *)
(* into a block of the kind MySQL prints, and the block into boxes and       *)
(* arrows.  The picture is built once, when the tab that shows it mounts.    *)
(* A row says which words its detail holds; table is "" where SQLite names   *)
(* none.                                                                     *)
(***************************************************************************)
EXTENDS Integers, Sequences, FiniteSets, SequencesExt, FiniteSetsExt, TLC

CONSTANTS
  Plans,    \* answers of EXPLAIN: sequences of [id, parent, words, table]
  Blocks,   \* query blocks MySQL prints, for a driver of that dialect
  MaxRuns   \* bound: runs

None == "undefined"

VARIABLES
  runs,      \* runs in flight: what each will answer
  result,    \* the answer the query tab holds
  diagram,   \* what the mounted picture shows: [nodes, edges]
  clicks,
  alone      \* history: no run was started while another was in flight

vars == <<runs, result, diagram, clicks, alone>>

Init == runs = <<>> /\ result = <<>> /\ diagram = <<>> /\ clicks = 0 /\ alone = TRUE

-----------------------------------------------------------------------------
\* The table of a row: only a SCAN or a SEARCH has one.
ParseDetail(row) == IF row.words \cap {"SCAN", "SEARCH"} # {} THEN row.table ELSE ""

Under(rows, id) == SelectSeq(rows, LAMBDA r : r.parent = id)
HaveUnion(rows) == \E k \in DOMAIN rows : "UNION" \in rows[k].words

Block(id, tables) ==
  [id |-> id, ordering |-> FALSE, grouping |-> FALSE, tables |-> tables,
   union |-> FALSE, parts |-> <<>>]

\* Every row that has a table, whatever its parent; of a nested union, nothing.
TablesOf(rows) ==
  LET read == SelectSeq(rows, LAMBDA r : ParseDetail(r) # "")
  IN [k \in DOMAIN read |-> read[k].table]

BranchBlock(rows, row) ==
  LET inner == Under(rows, row.id)
  IN Block(row.id, IF HaveUnion(inner) THEN <<>> ELSE TablesOf(inner))

ConvertSQLiteRows(rows) ==
  IF ~HaveUnion(rows) THEN Block(0, TablesOf(rows))
  ELSE LET main == SelectSeq(rows, LAMBDA r : r.parent = 0)
           branches == IF main = <<>> THEN <<>> ELSE Under(rows, main[1].id)
       IN [Block(0, <<>>) EXCEPT
             !.union = TRUE,
             !.parts = [k \in DOMAIN branches |-> BranchBlock(rows, branches[k])]]

-----------------------------------------------------------------------------
Root == <<"query_block", 0>>
Union == <<"union_result">>
Ordering == <<"ordering_operation">>
Grouping == <<"group_operation">>
Loop(k) == <<"nested_loop", k>>
Table(name, id) == <<"table", name, id>>
Edge(from, to) == [source |-> from, target |-> to]
Blank == [nodes |-> <<>>, edges |-> <<>>]

\* The box the tables of a block hang from.
Anchor(b) == IF b.grouping THEN Grouping ELSE IF b.ordering THEN Ordering
             ELSE <<"query_block", b.id>>

Operations(b) ==
  [nodes |-> (IF b.ordering THEN <<Ordering>> ELSE <<>>)
             \o (IF b.grouping THEN <<Grouping>> ELSE <<>>),
   edges |-> (IF b.ordering THEN <<Edge(Ordering, Root)>> ELSE <<>>)
             \o (IF b.grouping THEN <<Edge(Grouping, IF b.ordering THEN Ordering ELSE Root)>>
                 ELSE <<>>)]

\* Fault: the last table hangs from a box that is not drawn.
LoopKeyOfItsOwn(k, n) == k

\* One box for each join but the last, which takes two tables.
LoopKey(k, n) == IF k = n - 1 THEN k - 1 ELSE k

Loops(b) ==
  LET n == Len(b.tables)
      r == Reverse(b.tables)
      at(k) == Table(r[k], b.id)
  IN [nodes |-> [k \in 1 .. n - 1 |-> Loop(k - 1)] \o [k \in 1 .. n |-> at(k)],
      edges |-> [k \in 1 .. n |-> Edge(Loop(k - 1), IF k = 1 THEN Anchor(b) ELSE Loop(k - 2))]
                \o [k \in 1 .. n |-> Edge(at(k), Loop(LoopKey(k - 1, n)))]]

OneTable(b) == LET t == Table(b.tables[1], b.id)
               IN [nodes |-> <<t>>, edges |-> <<Edge(t, Anchor(b))>>]

Together(a, b) == [nodes |-> a.nodes \o b.nodes, edges |-> a.edges \o b.edges]

\* A block without a table is not drawn at all.
BlockFlow(b) ==
  LET head == [nodes |-> <<<<"query_block", b.id>>>>,
               edges |-> IF b.id = 0 THEN <<>> ELSE <<Edge(<<"query_block", b.id>>, Union)>>]
      top == Together(head, Operations(b))
  IN IF b.tables = <<>> THEN Blank
     ELSE Together(top, IF Len(b.tables) = 1 THEN OneTable(b) ELSE Loops(b))

\* The box of the whole query is there twice when it is a union.
Flow(b) ==
  IF ~b.union THEN BlockFlow(b)
  ELSE FoldLeft(LAMBDA acc, part : Together(acc, BlockFlow(part)),
                [nodes |-> <<Root, Root, Union>>, edges |-> <<Edge(Union, Root)>>], b.parts)

-----------------------------------------------------------------------------
Item(answer) == IF answer.dialect = "sqlite" THEN ConvertSQLiteRows(answer.rows) ELSE answer.block

Answers == {[dialect |-> "sqlite", rows |-> p] : p \in Plans}
           \cup {[dialect |-> "mysql", block |-> b] : b \in Blocks}

\* Fault: the old answer and its picture stay until the new one is there.
ExplainKeepingData(answer) ==
  /\ clicks < MaxRuns /\ clicks' = clicks + 1
  /\ runs' = Append(runs, answer) /\ alone' = (alone /\ runs = <<>>)
  /\ UNCHANGED <<result, diagram>>

\* A run clears the result, and with it the tab of the picture.
Explain(answer) ==
  /\ clicks < MaxRuns /\ clicks' = clicks + 1
  /\ runs' = Append(runs, answer) /\ alone' = (alone /\ runs = <<>>)
  /\ result' = <<>> /\ diagram' = <<>>

\* The picture that is already there stays: its effect runs once.
Answered(i) ==
  /\ result' = runs[i]
  /\ diagram' = IF diagram = <<>> THEN Flow(Item(runs[i])) ELSE diagram
  /\ runs' = RemoveAt(runs, i)
  /\ UNCHANGED <<clicks, alone>>

\* The statement is refused: nothing is shown of it.
Refused(i) == runs' = RemoveAt(runs, i) /\ UNCHANGED <<result, diagram, clicks, alone>>

Next == \/ \E a \in Answers : Explain(a)
        \/ \E i \in DOMAIN runs : Answered(i) \/ Refused(i)

Spec == Init /\ [][Next]_vars

-----------------------------------------------------------------------------
Boxes(d) == ToSet(d.nodes)

\* The boxes arrows lead to from the boxes of a set, arrows of missing boxes left out.
Step(d, set) == set \cup {e.target : e \in {f \in ToSet(d.edges) :
                                             f.source \in set /\ f.target \in Boxes(d)}}

LeadsToRoot(d, box) ==
  Root \in FoldLeft(LAMBDA set, k : Step(d, set), {box}, [k \in DOMAIN d.nodes |-> k])

\* What a reader of the picture looks for: the tables of a plan, but for a union in a subquery.
TablesRead(b) == UNION ({ToSet(b.tables)} \cup {ToSet(b.parts[k].tables) : k \in DOMAIN b.parts})

TypeOK ==
  /\ \A i \in DOMAIN runs : runs[i] \in Answers
  /\ result \in Answers \cup {<<>>}
  /\ (diagram = <<>>) = (result = <<>>)

\* Every table the plan reads is a box of the picture, and the arrows that start at it lead,
\* over boxes that are drawn, to the query, although the last join's box is left out and the
\* boxes of all branches of a union have the same names (build-query-explanation-flow.ts:231).
\* And the picture is of the answer the tab holds, unless two runs overlapped.
PictureIsOfThePlan ==
  (alone /\ result # <<>>) =>
    LET b == Item(result) IN
    \A t \in TablesRead(b) :
       \E box \in Boxes(diagram) : box[1] = "table" /\ box[2] = t /\ LeadsToRoot(diagram, box)
=============================================================================
