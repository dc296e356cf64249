---------------------------- MODULE SchemaDiagram ----------------------------
(***************************************************************************)
(* The entity relationship diagram: a box for each table of the schema and   *)
(* an arrow for the foreign keys.  The tables that have a relationship are   *)
(* laid out by a library (external: any layout in ranks), the others are     *)
(* packed in columns to the right of them.                                   *)
(***************************************************************************)
EXTENDS Integers, Sequences, FiniteSets, SequencesExt, FiniteSetsExt

CONSTANTS
  Databases,  \* what the schema may be: functions from schema names to sequences of items,
              \* [name, type, cols, keys], a key [cols, table, to, at]
  Shift,      \* how far a box can be dragged
  MaxOps      \* bound: clicks, drags and changes of the schema

Margin == 50
Width == 300
Row == 32
None == <<>>

VARIABLES
  live,      \* the schema the studio holds
  schema,    \* the schema this tab took when it opened
  selected,  \* the schema name chosen in the tab
  boxes,     \* table -> [x, y, h]
  edges,     \* the set of arrows: [id, source, target, from, to]
  ops,
  moved      \* history: a box was dragged since the last layout

vars == <<live, schema, selected, boxes, edges, ops, moved>>

-----------------------------------------------------------------------------
Tables(items) == SelectSeq(items, LAMBDA t : t.type = "table")
Height(t) == t.cols * Row + Row

\* A key of a column always makes an arrow; one of the table only if it has one column and
\* leaves the table.
IsDrawn(t, k) == k.at = "column" \/ (k.table # t.name /\ Len(k.to) = 1)

\* The name of an arrow is that of its two tables.
EdgesOf(t) == {[id |-> <<t.name, k.table>>, source |-> t.name, target |-> k.table,
                from |-> k.cols[1], to |-> IF k.to = <<>> THEN "" ELSE k.to[1]] :
                 k \in {j \in t.keys : IsDrawn(t, j)}}
EdgesIn(items) == UNION {EdgesOf(items[i]) : i \in DOMAIN items}

Related(items) == LET e == EdgesIn(items)
                  IN {k.source : k \in e} \cup {k.target : k \in e}

\* dagre: every table has a rank, and those of a rank are one above the other (external).
RankLayout(tables, rank, down) ==
  [t \in {tables[i].name : i \in DOMAIN tables} |->
     LET at == CHOOSE i \in DOMAIN tables : tables[i].name = t
         before == {i \in 1 .. at - 1 : rank[tables[i].name] = rank[t]}
         tallest == Max({Height(tables[i]) : i \in DOMAIN tables})
     IN IF down
        THEN [x |-> Margin + Cardinality(before) * (Width + Margin),
              y |-> Margin + rank[t] * (tallest + Margin), h |-> Height(tables[at])]
        ELSE [x |-> Margin + rank[t] * (Width + Margin),
              y |-> Margin + MapThenSumSet(LAMBDA i : Height(tables[i]) + Margin, before),
              h |-> Height(tables[at])]]

-----------------------------------------------------------------------------
Total(tables) == FoldLeft(LAMBDA n, t : n + Height(t) + Margin, 0, tables)

\* Math.ceil(Math.sqrt(area) / MAX_NODE_WIDTH), in whole numbers.
ColumnCount(tables) ==
  Min({n \in 0 .. Len(tables) + 1 : n * n * Width >= Total(tables)})

Lowest(heights) == CHOOSE c \in DOMAIN heights : /\ heights[c] = Min(ToSet(heights))
                                                /\ \A d \in 1 .. c - 1 : heights[d] > heights[c]

Place(acc, t) ==
  LET c == Lowest(acc.heights)
  IN [heights |-> [acc.heights EXCEPT ![c] = @ + Height(t) + Margin],
      placed |-> Append(acc.placed, [name |-> t.name, col |-> c - 1, y |-> acc.heights[c],
                                     h |-> Height(t)])]

Packed(tables) ==
  FoldLeft(Place, [heights |-> [c \in 1 .. ColumnCount(tables) |-> 0], placed |-> <<>>],
           tables).placed

\* Fault: the width of the boxes on the right is not counted.
RightOfMargin(laid) ==
  IF DOMAIN laid = {} THEN 0 ELSE Max({laid[t].x : t \in DOMAIN laid}) + Margin

RightOf(laid) ==
  IF DOMAIN laid = {} THEN 0 ELSE Max({laid[t].x : t \in DOMAIN laid}) + Margin + Width

TopOf(laid) == IF DOMAIN laid = {} THEN 0 ELSE Min({laid[t].y : t \in DOMAIN laid})

\* mapSchema: the boxes, given the layout of the related tables.
MapSchema(items, rank, down) ==
  LET tables == Tables(items)
      linked == Related(tables)
      laid == RankLayout(SelectSeq(tables, LAMBDA t : t.name \in linked), rank, down)
      packed == Packed(SelectSeq(tables, LAMBDA t : t.name \notin linked))
      at(t) == CHOOSE i \in DOMAIN packed : packed[i].name = t
  IN [t \in {tables[i].name : i \in DOMAIN tables} |->
        IF t \in DOMAIN laid THEN laid[t]
        ELSE LET p == packed[at(t)]
             IN [x |-> RightOf(laid) + Margin + p.col * Width, y |-> TopOf(laid) + p.y, h |-> p.h]]

Ranks(items) == [Related(Tables(items)) -> {0, 1}]

-----------------------------------------------------------------------------
Draw(items, down) ==
  /\ \E rank \in Ranks(items) : boxes' = MapSchema(items, rank, down)
  /\ edges' = EdgesIn(Tables(items))
  /\ moved' = FALSE

Init ==
  /\ live \in Databases /\ schema = None /\ selected = "main"
  /\ boxes = <<>> /\ edges = {} /\ ops = 0 /\ moved = FALSE

Count == ops < MaxOps /\ ops' = ops + 1

\* The tab is opened: from here on it keeps this schema.
Open ==
  /\ schema = None /\ schema' = live
  /\ Draw(live[selected], FALSE)
  /\ UNCHANGED <<live, selected, ops>>

Close ==
  /\ schema # None /\ Count
  /\ schema' = None /\ boxes' = <<>> /\ edges' = {} /\ moved' = FALSE /\ selected' = "main"
  /\ UNCHANGED live

\* Another tab alters the schema, or the refresh button of this one brings what another client
\* altered: the diagram does not change.
Refresh(s) == Count /\ live' = s /\ UNCHANGED <<schema, selected, boxes, edges, moved>>

Select(name) ==
  /\ schema # None /\ name # selected /\ Count
  /\ selected' = name /\ Draw(schema[name], FALSE)
  /\ UNCHANGED <<live, schema>>

Align(down) ==
  /\ schema # None /\ Count
  /\ Draw(schema[selected], down)
  /\ UNCHANGED <<live, schema, selected>>

Drag(t) ==
  /\ Count
  /\ \E dx \in {0 - Shift, Shift} : boxes' = [boxes EXCEPT ![t].x = @ + dx]
  /\ moved' = TRUE
  /\ UNCHANGED <<live, schema, selected, edges>>

Next ==
  \/ Open \/ Close
  \/ \E s \in Databases : Refresh(s)
  \/ \E name \in {"main", "temp"} : Select(name)
  \/ \E down \in BOOLEAN : Align(down)
  \/ \E t \in DOMAIN boxes : Drag(t)

Spec == Init /\ [][Next]_vars

-----------------------------------------------------------------------------
\* Fault: the two sides are swapped.
SideOfSwapped(a, b) == IF a.x > b.x THEN "right" ELSE "left"

\* The side an arrow leaves a box from: that of the other box's centre.
SideOf(a, b) == IF a.x + Width \div 2 > b.x + Width \div 2 THEN "left" ELSE "right"

End(a, b) == IF SideOf(a, b) = "left" THEN a.x ELSE a.x + Width

Distance(m, n) == IF m > n THEN m - n ELSE n - m

Apart(a, b) ==
  \/ a.x + Width <= b.x \/ b.x + Width <= a.x
  \/ a.y + a.h <= b.y \/ b.y + b.h <= a.y

TypeOK ==
  /\ schema \in Databases \cup {None} /\ live \in Databases
  /\ \A e \in edges : e.source \in DOMAIN boxes

\* As laid out, no two boxes cover each other: neither two packed ones nor a packed one and one
\* the library placed (relational-diagram-tab/index.tsx:197-268).
BoxesApart == ~moved => \A t, u \in DOMAIN boxes : t # u => Apart(boxes[t], boxes[u])

\* An arrow between two boxes beside each other runs in the gap between them, wherever they were
\* dragged (erd-table-column-edge.tsx:12-75).
ArrowsRunBetween ==
  \A e \in edges : e.target \in DOMAIN boxes =>
    LET a == boxes[e.source]
        b == boxes[e.target]
        gap == Distance(a.x, b.x) - Width
    IN gap >= 0 => Distance(End(a, b), End(b, a)) = gap
=============================================================================
