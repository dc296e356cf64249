------------------------------ MODULE TableGrid ------------------------------
(***************************************************************************)
(* The grid every result is shown in: the ranges of cells that are selected, *)
(* the focus, the last cell reached with Shift and an arrow, and the mode    *)
(* in which the cell at the focus is edited.  Rows and columns count from 0. *)
(***************************************************************************)
EXTENDS Integers, Sequences, FiniteSets, TLC, SequencesExt, FiniteSetsExt

CONSTANTS
  Cols,     \* number of columns
  Fixed,    \* columns that cannot be edited
  MaxRows,  \* bound: rows of the grid
  MaxOps    \* bound: operations of the user

Nowhere == <<>>     \* no focus, no last move

VARIABLES
  rows,     \* number of rows
  ranges,   \* selectionRanges: [x1, y1, x2, y2]
  focus,    \* <<y, x>>, which may lie outside after rows were removed
  move,     \* lastMove, the same
  edit,     \* editMode
  ops,
  steady    \* history: since the focus was set the mouse was not used to extend the selection

vars == <<rows, ranges, focus, move, edit, ops, steady>>

Xs == 0..(Cols - 1)
Ys == 0..(rows - 1)
Span(y1, x1, y2, x2) == [x1 |-> Min({x1, x2}), y1 |-> Min({y1, y2}),
                          x2 |-> Max({x1, x2}), y2 |-> Max({y1, y2})]
RowsOf(y1, y2) == Span(y1, 0, y2, Cols - 1)
ColsOf(x1, x2) == Span(0, x1, rows - 1, x2)
Cell(y, x) == Span(y, x, y, x)

Cells(r) == {<<y, x>> : y \in r.y1..r.y2, x \in r.x1..r.x2}
Selected == UNION {Cells(ranges[k]) : k \in DOMAIN ranges}
Disjoint(rs) == \A j, k \in DOMAIN rs : j # k => Cells(rs[j]) \cap Cells(rs[k]) = {}

Init ==
  /\ rows \in 1..MaxRows /\ ranges = <<>> /\ focus = Nowhere /\ move = Nowhere
  /\ edit = FALSE /\ ops = 0 /\ steady = TRUE

-----------------------------------------------------------------------------
(***************************************************************************)
(* Ranges: one pass of mergeSelectionRanges, and another one for as long as  *)
(* the last range of a pass was merged.                                      *)
(***************************************************************************)
Touches(a, b) ==
  \/ a.y1 = b.y1 /\ a.y2 = b.y2 /\ a.x2 + 1 = b.x1
  \/ a.x1 = b.x1 /\ a.x2 = b.x2 /\ a.y2 + 1 = b.y1

Merge(acc, r) ==
  LET m == acc.merged
      into == Len(m) > 0 /\ Touches(m[Len(m)], r)
  IN [merged |-> IF into THEN [m EXCEPT ![Len(m)].x2 = Max({@, r.x2}), ![Len(m)].y2 = Max({@, r.y2})]
                 ELSE Append(m, r),
      again |-> into]

Above(a, b) == a.y1 < b.y1 \/ (a.y1 = b.y1 /\ a.x1 <= b.x1)

MergeSelectionRanges(rs) ==
  LET Passes[s \in Seq([x1 : Int, y1 : Int, x2 : Int, y2 : Int])] ==
        LET pass == FoldLeft(Merge, [merged |-> <<>>, again |-> FALSE], SortSeq(s, Above))
        IN IF pass.again THEN Passes[pass.merged] ELSE pass.merged
  IN Passes[rs]

\* Fault: the part above the removed cells keeps their first row.
SplitSelectionRangeShort(s, d) ==
  (IF d.y1 > s.y1 THEN <<[s EXCEPT !.y2 = d.y1]>> ELSE <<>>)
  \o (IF d.y2 < s.y2 THEN <<[s EXCEPT !.y1 = d.y2 + 1]>> ELSE <<>>)
  \o (IF d.x1 > s.x1 THEN <<[x1 |-> s.x1, x2 |-> d.x1 - 1, y1 |-> d.y1, y2 |-> d.y2]>> ELSE <<>>)
  \o (IF d.x2 < s.x2 THEN <<[x1 |-> d.x2 + 1, x2 |-> s.x2, y1 |-> d.y1, y2 |-> d.y2]>> ELSE <<>>)

\* What is left of s without d, which lies within s: above, below, left and right of it.
SplitSelectionRange(s, d) ==
  (IF d.y1 > s.y1 THEN <<[s EXCEPT !.y2 = d.y1 - 1]>> ELSE <<>>)
  \o (IF d.y2 < s.y2 THEN <<[s EXCEPT !.y1 = d.y2 + 1]>> ELSE <<>>)
  \o (IF d.x1 > s.x1 THEN <<[x1 |-> s.x1, x2 |-> d.x1 - 1, y1 |-> d.y1, y2 |-> d.y2]>> ELSE <<>>)
  \o (IF d.x2 < s.x2 THEN <<[x1 |-> d.x2 + 1, x2 |-> s.x2, y1 |-> d.y1, y2 |-> d.y2]>> ELSE <<>>)

Covers(r, d) == r.x1 <= d.x1 /\ r.x2 >= d.x2 /\ r.y1 <= d.y1 /\ r.y2 >= d.y2

\* addSelectionRange: the first range that holds all of d loses it, else d is added.
Toggled(d) ==
  LET holds == {k \in DOMAIN ranges : Covers(ranges[k], d)}
      k == Min(holds)
  IN MergeSelectionRanges(IF holds = {} THEN Append(ranges, d)
                          ELSE RemoveAt(ranges, k) \o SplitSelectionRange(ranges[k], d))

-----------------------------------------------------------------------------
Op == ops < MaxOps /\ ops' = ops + 1

\* An input is shown in the cell at the focus; it applies its value and leaves the edit mode as
\* soon as the keyboard's focus goes elsewhere.
Editing == edit /\ focus \in Ys \X (Xs \ Fixed)
Blur == edit' = (edit /\ ~Editing)

\* Fault: the focus moves and the last move stays.
SetFocusKeepingMove(y, x) == focus' = <<y, x>> /\ UNCHANGED move

SetFocus(y, x) == focus' = <<y, x>> /\ move' = Nowhere

\* The three ways to click a cell, the number of a row or the head of a column: alone, with Ctrl
\* and with Shift.
Click(range, y, x) ==
  /\ Op /\ ranges' = <<range>> /\ SetFocus(y, x) /\ steady' = (range = Cell(y, x))
  /\ Blur /\ UNCHANGED rows
CtrlClick(range, y, x) ==
  /\ Op /\ ranges' = Toggled(range) /\ SetFocus(y, x) /\ steady' = FALSE
  /\ Blur /\ UNCHANGED rows
ShiftClick(range) ==
  /\ Op /\ focus # Nowhere /\ ranges' = <<range>> /\ steady' = FALSE
  /\ Blur /\ UNCHANGED <<rows, focus, move>>

\* Without a focus Shift and Ctrl make no difference on the numbers and heads.
ClickCell(y, x) == Click(Cell(y, x), y, x)
ShiftCell(y, x) == ShiftClick(Span(focus[1], focus[2], y, x))
CtrlCell(y, x) ==      \* the one click that leaves the focus where it was
  /\ Op /\ ranges' = Toggled(Cell(y, x)) /\ steady' = FALSE
  /\ Blur /\ UNCHANGED <<rows, focus, move>>

ClickRow(y) == Click(RowsOf(y, y), y, 0)
CtrlRow(y) == focus # Nowhere /\ CtrlClick(RowsOf(y, y), y, 0)
ShiftRow(y) == ShiftClick(RowsOf(focus[1], y))

ClickCol(x) == Click(ColsOf(x, x), 0, x)
CtrlCol(x) == focus # Nowhere /\ CtrlClick(ColsOf(x, x), 0, x)
ShiftCol(x) == ShiftClick(ColsOf(focus[2], x))

-----------------------------------------------------------------------------
(***************************************************************************)
(* Keys.  While a cell is edited they belong to its input.                   *)
(***************************************************************************)
Key == Op /\ ~edit /\ focus # Nowhere

Arrows == {<<-1, 0>>, <<1, 0>>, <<0, -1>>, <<0, 1>>}

\* The selection stays behind.
Arrow(d) ==
  LET y == focus[1] + d[1]
      x == focus[2] + d[2]
  IN /\ Key /\ y >= 0 /\ x >= 0 /\ (d[1] = 1 => y < rows) /\ (d[2] = 1 => x < Cols)
     /\ SetFocus(y, x) /\ steady' = FALSE
     /\ UNCHANGED <<rows, ranges, edit>>

\* Row by row; from an input the edit mode goes along, wherever that leads.
Tab ==
  LET n == focus[1] * Cols + focus[2] + 1
  IN /\ Op /\ focus # Nowhere /\ (edit => Editing) /\ n \div Cols < rows
     /\ SetFocus(n \div Cols, n % Cols) /\ steady' = FALSE
     /\ UNCHANGED <<rows, ranges, edit>>

\* getSelectionRange: the first range with the focus in it.
AtFocus == {k \in DOMAIN ranges : focus \in Cells(ranges[k])}

ShiftArrow(d) ==
  LET r == ranges[Min(AtFocus)]
      last == IF move # Nowhere THEN move ELSE <<r.y2, r.x2>>
      y == IF d[1] < 0 THEN Max({last[1] - 1, 0})
           ELSE IF d[1] > 0 THEN Min({last[1] + 1, rows - 1}) ELSE last[1]
      x == IF d[2] < 0 THEN Max({last[2] - 1, 0})
           ELSE IF d[2] > 0 THEN Min({last[2] + 1, Cols - 1}) ELSE last[2]
  IN /\ Key /\ (move # Nowhere \/ AtFocus # {})
     /\ ranges' = <<Span(focus[1], focus[2], y, x)>> /\ move' = <<y, x>>
     /\ UNCHANGED <<rows, focus, edit, steady>>

\* Enter, a character or a double click.  Without a focus, or on a column that cannot be edited,
\* no input appears and all keys are dead until a cell with one is clicked.
EnterEditMode == ~edit /\ Op /\ edit' = TRUE /\ UNCHANGED <<rows, ranges, focus, move, steady>>
ExitEditMode == Editing /\ Op /\ edit' = FALSE /\ UNCHANGED <<rows, ranges, focus, move, steady>>

-----------------------------------------------------------------------------
\* insertNewRow selects the first cell to edit of the new row; a row that is removed or discarded leaves
\* focus and selection where they were, and a save that deleted rows clears the selection.
InsertNewRow ==
  LET y == IF focus = Nowhere THEN 0 ELSE focus[1]
      x == IF Fixed = Xs THEN 0 ELSE Min(Xs \ Fixed)
  IN /\ rows < MaxRows /\ rows' = rows + 1
     /\ Op /\ ranges' = <<Cell(y, x)>> /\ SetFocus(y, x) /\ steady' = TRUE /\ Blur
DropRow == /\ Op /\ rows > 0 /\ rows' = rows - 1 /\ steady' = FALSE
           /\ Blur /\ UNCHANGED <<ranges, focus, move>>
SavedWithoutRow == /\ Op /\ rows > 0 /\ rows' = rows - 1 /\ ranges' = <<>> /\ steady' = FALSE
                   /\ UNCHANGED <<focus, move, edit>>

Next ==
  \/ \E y \in Ys, x \in Xs : ClickCell(y, x) \/ ShiftCell(y, x) \/ CtrlCell(y, x)
  \/ \E y \in Ys : ClickRow(y) \/ CtrlRow(y) \/ ShiftRow(y)
  \/ \E x \in Xs : ClickCol(x) \/ CtrlCol(x) \/ ShiftCol(x)
  \/ \E d \in Arrows : Arrow(d) \/ ShiftArrow(d)
  \/ Tab \/ EnterEditMode \/ ExitEditMode
  \/ InsertNewRow \/ DropRow \/ SavedWithoutRow

Spec == Init /\ [][Next]_vars

-----------------------------------------------------------------------------
(***************************************************************************)
(* Action property.  As long as no two ranges share a cell, Ctrl and a click *)
(* on a cell selects or deselects that cell and no other: splitting a range  *)
(* around it and merging what touches keep every other cell as it was.       *)
(***************************************************************************)
CtrlClickStep ==
  \A y \in Ys, x \in Xs :
      CtrlCell(y, x) /\ Disjoint(ranges) =>
        /\ Disjoint(ranges')
        /\ Selected' = IF <<y, x>> \in Selected THEN Selected \ {<<y, x>>}
                       ELSE Selected \cup {<<y, x>>}
CtrlClickToggles == [][CtrlClickStep]_vars

(***************************************************************************)
(* Invariant.  After a move with Shift and an arrow that followed a click on *)
(* a cell the selection is the rectangle between the focus and the cell      *)
(* reached, through any number of such moves.                                *)
(***************************************************************************)
ShiftSpans ==
  steady /\ move # Nowhere => ranges = <<Span(focus[1], focus[2], move[1], move[2])>>
=============================================================================
