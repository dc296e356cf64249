---------------------------- MODULE TableViewport ----------------------------
(***************************************************************************)
(* Which cells of the grid are put on the page: getVisibleCellRange finds    *)
(* the rows and columns near what is in sight, and the rows of the page are  *)
(* filled up with empty cells that span the others.  Lengths are in pixels,  *)
(* rows and columns count from 0.                                            *)
(***************************************************************************)
EXTENDS Integers, Sequences, FiniteSets, SequencesExt, FiniteSetsExt

CONSTANTS
  RowHeight, RenderAhead, Gutter, Margin,
  Step,        \* the row height, and gutter, that scrollToCell assumes
  Widths,      \* widths of columns, the least one included
  Sizes,       \* sizes of the container: [w, h]
  Columns,     \* number of columns
  MaxRows      \* bound: rows

VARIABLES
  rows, widths,   \* number of rows; the width of each header
  top, left,      \* scroll offsets
  size,           \* of the container
  pinned,         \* the sticky column, -1 for none
  focus,          \* [x, y]
  range,          \* visibleRange; rowEnd is exclusive, colEnd is not
  due             \* the container was scrolled and its event is still to come

vars == <<rows, widths, top, left, size, pinned, focus, range, due>>

Xs == 0..(Columns - 1)
All == [k \in 1..Columns |-> k - 1]

\* headerAfterArranged: the columns from left to right, the sticky one first.
Arranged == IF pinned \in Xs THEN <<pinned>> \o SelectSeq(All, LAMBDA x : x # pinned) ELSE All

\* The left edges of the columns of sequence order, and of what follows the last one.
Edges(first, order, w) ==
  [i \in 0..Columns |-> first + FoldLeft(LAMBDA sum, x : sum + w[x], 0, SubSeq(order, 1, i))]

MaxTop(n, s) == Max({0, (n + 1) * RowHeight + Margin - s.h})
MaxLeft(w, s) == Max({0, Edges(Gutter, All, w)[Columns] - s.w})
Clamp(v, most) == Max({0, Min({v, most})})

-----------------------------------------------------------------------------
Ceil(a, b) == (a + b - 1) \div b

\* Fault: the rows that are drawn ahead above are not taken off again below.
VisibleRangeShort(n, edge, t, l, s) ==
  LET first == Max({0, t \div RowHeight - 1 - RenderAhead})
      after == {i \in Xs : edge[i] >= l}
      reach == {i \in Xs : edge[i + 1] >= l + s.w}
  IN [rowStart |-> first,
      rowEnd |-> Min({n, first + Ceil(s.h, RowHeight)}),
      colStart |-> IF after = {} THEN 0 ELSE Max({0, Min(after) - 1}),
      colEnd |-> IF reach = {} THEN Columns - 1 ELSE Min(reach)]

\* getVisibleCellRange.
VisibleRange(n, edge, t, l, s) ==
  LET first == Max({0, t \div RowHeight - 1 - RenderAhead})
      after == {i \in Xs : edge[i] >= l}
      reach == {i \in Xs : edge[i + 1] >= l + s.w}
  IN [rowStart |-> first,
      rowEnd |-> Min({n, first + Ceil(s.h, RowHeight) + RenderAhead}),
      colStart |-> IF after = {} THEN 0 ELSE Max({0, Min(after) - 1}),
      colEnd |-> IF reach = {} THEN Columns - 1 ELSE Min(reach)]

Recalculated ==
  /\ range' = VisibleRange(rows', Edges(Gutter, Arranged', widths'), top', left', size')
  /\ due' = FALSE

Init ==
  /\ rows = MaxRows /\ widths \in [Xs -> Widths] /\ top = 0 /\ left = 0 /\ size \in Sizes
  /\ pinned = -1 /\ focus = [x |-> 0, y |-> 0]
  /\ range = VisibleRange(rows, Edges(Gutter, All, widths), 0, 0, size) /\ due = FALSE

-----------------------------------------------------------------------------
\* The browser scrolls first and tells later.
Scroll(t, l) ==
  /\ <<t, l>> # <<top, left>>
  /\ top' = t /\ left' = l /\ due' = TRUE
  /\ UNCHANGED <<rows, widths, size, pinned, focus, range>>

OnContainerScroll ==
  /\ due /\ UNCHANGED <<rows, widths, top, left, size, pinned, focus>> /\ Recalculated

\* Everything else the range depends on is followed by the effect of useElementResize, once the
\* browser has brought the offsets back within the new extent.
Relayout ==
  /\ top' = Clamp(top, MaxTop(rows', size')) /\ left' = Clamp(left, MaxLeft(widths', size'))
  /\ Recalculated

Resize(s) == s # size /\ size' = s /\ UNCHANGED <<rows, widths, pinned, focus>> /\ Relayout
RowsChange(n) == n # rows /\ rows' = n /\ UNCHANGED <<widths, size, pinned, focus>> /\ Relayout
OnHeaderResize(x, w) ==
  /\ widths[x] # w /\ widths' = [widths EXCEPT ![x] = w]
  /\ UNCHANGED <<rows, size, pinned, focus>> /\ Relayout
PinColumn(x) ==
  /\ pinned' = IF x = pinned THEN -1 ELSE x
  /\ UNCHANGED <<rows, widths, size, focus>> /\ Relayout

-----------------------------------------------------------------------------
\* scrollToCell takes the columns in the order of the result and every row to be Step high.
ToRight(x) ==
  LET right == Edges(Step, All, widths)[x + 1]
  IN IF right - Step > left + size.w THEN right - size.w ELSE left
ToLeft(x) == LET edge == Edges(Step, All, widths)[x] IN IF edge < left THEN edge ELSE left
ToBottom(y) ==
  LET bottom == (y + 2) * Step IN IF bottom > top + size.h THEN bottom - size.h ELSE top
ToTop(y) == IF y * Step < top THEN y * Step ELSE top

MoveTo(x, y, t, l) ==
  /\ x \in Xs /\ y \in 0..(rows - 1)
  /\ focus' = [x |-> x, y |-> y]
  /\ top' = Clamp(t, MaxTop(rows, size)) /\ left' = Clamp(l, MaxLeft(widths, size))
  /\ due' = (due \/ top' # top \/ left' # left)
  /\ UNCHANGED <<rows, widths, size, pinned, range>>

ArrowRight == MoveTo(focus.x + 1, focus.y, ToTop(focus.y), ToRight(focus.x + 1))
ArrowLeft == MoveTo(focus.x - 1, focus.y, ToTop(focus.y), ToLeft(focus.x - 1))
ArrowUp == MoveTo(focus.x, focus.y - 1, ToTop(focus.y - 1), ToLeft(focus.x))
ArrowDown == MoveTo(focus.x, focus.y + 1, ToBottom(focus.y + 1), ToLeft(focus.x))

Next ==
  \/ \E t \in 0..MaxTop(rows, size) : Scroll(t, left)
  \/ \E l \in 0..MaxLeft(widths, size) : Scroll(top, l)
  \/ OnContainerScroll
  \/ \E s \in Sizes : Resize(s)
  \/ \E n \in 0..MaxRows : RowsChange(n)
  \/ \E x \in Xs : PinColumn(x) \/ \E w \in Widths : OnHeaderResize(x, w)
  \/ ArrowRight \/ ArrowLeft \/ ArrowUp \/ ArrowDown

Spec == Init /\ [][Next]_vars

-----------------------------------------------------------------------------
\* What renderCellList draws in a row: the sticky cell, a span for the columns on the left, the
\* cells themselves, and a span for the columns on the right.
Span(from, to) == Max({0, to - from})
Drawn == {Arranged[k + 1] : k \in range.colStart..range.colEnd} \ {pinned}
Filled ==
  LET sticky == IF pinned \in Xs THEN 1 ELSE 0
  IN sticky + Span(sticky, range.colStart) + Cardinality(Drawn) + Span(range.colEnd, Columns - 1)

\* Row y begins one row below the sticky head; the sticky gutter covers what is left of it.
WholeRows == {y \in 0..(rows - 1) : y * RowHeight >= top /\ (y + 2) * RowHeight <= top + size.h}

ColumnsInSight ==
  LET edge == Edges(Gutter, Arranged, widths)
  IN {Arranged[i + 1] : i \in {i \in Xs : edge[i] < left + size.w /\ edge[i + 1] > left + Gutter}}

DrawnRows == range.rowStart..(range.rowEnd - 1)

(***************************************************************************)
(* Invariant.  Once the events of a scroll are handled, every row that is    *)
(* wholly in sight and every column of which a part is in sight are drawn,   *)
(* and a row of the page has exactly one cell for each column -- a row with  *)
(* one too few would pull the cells of all following rows out of place.      *)
(***************************************************************************)
SightIsDrawn ==
  ~due => /\ WholeRows \subseteq DrawnRows
          /\ ColumnsInSight \subseteq Drawn \cup {pinned}
          /\ Filled = Columns
=============================================================================
