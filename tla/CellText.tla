------------------------------ MODULE CellText ------------------------------
(***************************************************************************)
(* Values of a table as text: copied to the clipboard and pasted back,       *)
(* exported to a file and imported again.  A text is a sequence of symbols,  *)
(* of which some separate ("," TAB LF EOL), enclose (Q for a double, P for a  *)
(* single quote) or are blank (SP); the word NULL is one symbol.  EOL stands  *)
(* for a carriage return and a line feed.                                    *)
(***************************************************************************)
EXTENDS Integers, Sequences, FiniteSets, SequencesExt, FiniteSetsExt

CONSTANTS
  Tables,    \* the tables there may be: sequences of rows, a row a sequence of values
  MaxPastes  \* bound: pastes

Null == [is |-> "null"]
Text(t) == [is |-> "text", text |-> t]
Lone(symbol) == <<symbol>>
None == <<>>

VARIABLES
  raw,        \* the rows as they were read
  shown,      \* what the grid shows: the rows with the edits that are not saved
  stray,      \* rows that hold an edit of a column that does not exist
  clipboard,  \* a text, or None
  copied,     \* the values that were copied, and whether as the grid shows them
  pasted,     \* <<row, column, rows before, how many rows and columns>> of the last paste
  file,       \* the exported file: [format, text]
  import,     \* rows an import has yet to insert, or None
  target,     \* the table imported into
  pastes

grid == <<raw, shown, stray, clipboard, copied, pasted, pastes>>
disk == <<file, import, target>>
vars == <<grid, disk>>

Rows == DOMAIN raw
Cols == DOMAIN raw[1]

-----------------------------------------------------------------------------
Holds(t, symbol) == symbol \in ToSet(t)
Doubled(t, enc) == FlattenSeq([k \in DOMAIN t |-> IF t[k] = enc THEN <<enc, enc>> ELSE <<t[k]>>])
Join(parts, sep) ==
  IF parts = <<>> THEN <<>>
  ELSE Tail(FlattenSeq([k \in DOMAIN parts |-> <<sep>> \o parts[k]]))

\* Fault: a text that holds only quotes is written as it is.
EscapeSeparators(v, sep, eol, enc) ==
  IF v = Null THEN Lone("NULL")
  ELSE IF Holds(v.text, sep) \/ Holds(v.text, eol)
       THEN <<enc>> \o Doubled(v.text, enc) \o <<enc>> ELSE v.text

\* escapeDelimitedValue: NULL is the word, and only a text that needs it is enclosed.
EscapeDelimited(v, sep, eol, enc) ==
  IF v = Null THEN Lone("NULL")
  ELSE IF Holds(v.text, sep) \/ Holds(v.text, eol) \/ Holds(v.text, enc)
       THEN <<enc>> \o Doubled(v.text, enc) \o <<enc>> ELSE v.text

Delimited(rows, sep, eol, enc) ==
  Join([i \in DOMAIN rows |->
          Join([j \in DOMAIN rows[i] |-> EscapeDelimited(rows[i][j], sep, eol, enc)], sep)], eol)

\* escapeSqlValue.
EscapeSql(v) == IF v = Null THEN Lone("NULL") ELSE <<"P">> \o Doubled(v.text, "P") \o <<"P">>

\* One line of VALUES for each row; the rest of the statement is the same for all.
SqlInsert(rows) ==
  Join([i \in DOMAIN rows |-> Join([j \in DOMAIN rows[i] |-> EscapeSql(rows[i][j])], ",")], "LF")

\* What String.split and String.trim do.
Split(t, symbol) ==
  LET step(acc, s) == IF s = symbol THEN Append(acc, <<>>)
                      ELSE [acc EXCEPT ![Len(acc)] = Append(@, s)]
  IN FoldLeft(step, <<<<>>>>, t)

Blank == {"SP", "TAB", "LF", "EOL"}
Trim(t) ==
  LET solid == {k \in DOMAIN t : t[k] \notin Blank}
  IN IF solid = {} THEN <<>> ELSE SubSeq(t, Min(solid), Max(solid))

-----------------------------------------------------------------------------
Init ==
  /\ raw \in Tables /\ shown = raw /\ stray = {}
  /\ clipboard = None /\ copied = None /\ pasted = None /\ pastes = 0
  /\ file = None /\ import = None /\ target = <<>>

Box(r1, c1, r2, c2, rows) == [i \in 1 .. r2 - r1 + 1 |-> SubSeq(rows[r1 + i - 1], c1, c2)]

\* Ctrl-C: one cell is copied as it is shown and as it is, more cells as they were read.
Copy(r1, c1, r2, c2) ==
  /\ r1 <= r2 /\ c1 <= c2
  /\ copied' = [rows |-> Box(r1, c1, r2, c2, shown),
                true |-> Box(r1, c1, r2, c2, shown) = Box(r1, c1, r2, c2, raw)]
  /\ clipboard' = IF r1 = r2 /\ c1 = c2
                  THEN IF shown[r1][c1] = Null THEN Lone("NULL") ELSE shown[r1][c1].text
                  ELSE Delimited(Box(r1, c1, r2, c2, raw), "TAB", "EOL", "Q")
  /\ pasted' = None
  /\ UNCHANGED <<raw, shown, stray, pastes, disk>>

\* "Copy as Excel": a whole row as it was read, nothing is enclosed, and what JavaScript takes
\* for a number is written as one: a blank text becomes 0.
ExcelValue(v) == IF v = Null THEN Lone("NULL") ELSE IF Trim(v.text) = <<>> THEN Lone("0") ELSE v.text

CopyAsExcel(i) ==
  /\ copied' = [rows |-> <<shown[i]>>,
                true |-> shown[i] = raw[i] /\ \A j \in Cols :
                           raw[i][j] # Null => Trim(raw[i][j].text) # <<>>]
  /\ clipboard' = Join([j \in Cols |-> ExcelValue(raw[i][j])], "TAB")
  /\ pasted' = None
  /\ UNCHANGED <<raw, shown, stray, pastes, disk>>

\* The same cells copied in a spreadsheet, which ends the last line as well.
CopyElsewhere(v) ==
  /\ copied' = [rows |-> <<<<v>>>>, true |-> TRUE]
  /\ clipboard' = Append(v.text, "EOL")
  /\ pasted' = None
  /\ UNCHANGED <<raw, shown, stray, pastes, disk>>

Pasted(t) == IF t = Lone("NULL") THEN Null ELSE Text(t)

\* Fault: the empty line at the end is pasted too.
LinesWithLast(t) == [i \in DOMAIN Split(t, "EOL") |-> Split(Split(t, "EOL")[i], "TAB")]

Lines(t) ==
  LET all == [i \in DOMAIN Split(t, "EOL") |-> Split(Split(t, "EOL")[i], "TAB")]
  IN IF Last(all) = <<<<>>>> THEN Front(all) ELSE all

\* Ctrl-V at a cell.  Rows below the last are left out; columns after the last are edits of a
\* column without a name.
Paste(y, x) ==
  /\ clipboard # None /\ pastes < MaxPastes /\ pastes' = pastes + 1
  /\ LET lines == Lines(clipboard)
         has(i, j) == i - y + 1 \in DOMAIN lines /\ j - x + 1 \in DOMAIN lines[i - y + 1]
     IN /\ shown' = [i \in Rows |-> [j \in Cols |->
                       IF has(i, j) THEN Pasted(lines[i - y + 1][j - x + 1]) ELSE shown[i][j]]]
        /\ stray' = stray \cup {i \in Rows : has(i, Len(raw[1]) + 1)}
  /\ pasted' = <<y, x, shown>>
  /\ UNCHANGED <<raw, clipboard, copied, disk>>

-----------------------------------------------------------------------------
\* "Export Table" reads the table again, and writes nothing of an empty one.
Export(format) ==
  /\ file = None
  /\ file' = [format |-> format,
              rows |-> IF format = "json" THEN raw ELSE <<>>,
              text |-> CASE format = "csv" -> Delimited(raw, ",", "LF", "Q")
                         [] format = "sql" -> SqlInsert(raw)
                         [] OTHER -> <<>>]
  /\ UNCHANGED <<grid, import, target>>

\* parseCSVLine: a quote inside quotes is doubled, a comma inside them separates nothing.
ParseCSVLine(line) ==
  LET step(acc, k) ==
        CASE acc.skip -> [acc EXCEPT !.skip = FALSE]
          [] line[k] = "Q" ->
               IF acc.open /\ k < Len(line) /\ line[k + 1] = "Q"
               THEN [acc EXCEPT !.current = Append(@, "Q"), !.skip = TRUE]
               ELSE [acc EXCEPT !.open = ~@]
          [] line[k] = "," /\ ~acc.open ->
               [acc EXCEPT !.cells = Append(@, Trim(acc.current)), !.current = <<>>]
          [] OTHER -> [acc EXCEPT !.current = Append(@, line[k])]
      end == FoldLeft(step, [cells |-> <<>>, current |-> <<>>, open |-> FALSE, skip |-> FALSE],
                      [k \in DOMAIN line |-> k])
  IN Append(end.cells, Trim(end.current))

\* Fault: only an empty text is NULL.
ImportedWord(t) == IF t = <<>> THEN Null ELSE Text(t)

Imported(t) == IF t \in {<<>>, Lone("NULL")} THEN Null ELSE Text(t)

\* The rows below the header, one for each line that is not blank.
CSVRows(text) ==
  LET lines == SelectSeq(Split(text, "LF"), LAMBDA line : Trim(line) # <<>>)
      cell(k, j) == LET cells == ParseCSVLine(lines[k])
                    IN IF j \in DOMAIN cells THEN Imported(cells[j]) ELSE Null
  IN [k \in DOMAIN lines |-> [j \in Cols |-> cell(k, j)]]

StartImport ==
  /\ file # None /\ file.format # "sql" /\ import = None
  /\ import' = IF file.format = "json" THEN file.rows ELSE CSVRows(file.text)
  /\ target' = <<>>
  /\ UNCHANGED <<grid, file>>

\* One INSERT for each row.
ImportRow ==
  /\ import # None
  /\ target' = Append(target, Head(import)) /\ import' = Tail(import)
  /\ UNCHANGED <<grid, file>>

\* An INSERT is refused: the rows before it stay.
RefuseRow ==
  /\ import # None
  /\ import' = None /\ file' = None
  /\ UNCHANGED <<grid, target>>

Next ==
  \/ \E r1, r2 \in Rows, c1, c2 \in Cols : Copy(r1, c1, r2, c2)
  \/ \E i \in Rows, j \in Cols : raw[i][j] # Null /\ CopyElsewhere(raw[i][j])
  \/ \E i \in Rows : CopyAsExcel(i)
  \/ \E y \in Rows, x \in Cols : Paste(y, x)
  \/ \E format \in {"csv", "json", "sql"} : pastes = 0 /\ Export(format)
  \/ StartImport \/ ImportRow \/ RefuseRow

Spec == Init /\ [][Next]_vars

-----------------------------------------------------------------------------
\* A value the clipboard can carry to the grid: its text holds no separator and no quote.
Carries(v) == v = Null \/ (ToSet(v.text) \cap {"TAB", "EOL", "Q"} = {} /\ v.text # Lone("NULL"))

Carried(c) ==
  /\ c.true
  /\ \A i \in DOMAIN c.rows : \A j \in DOMAIN c.rows[i] : Carries(c.rows[i][j])
  /\ Last(c.rows) # <<Text(<<>>)>>

\* What is pasted is what was copied, cell by cell from where the focus was, NULL as NULL, and no
\* other cell changes -- for values without separators or quotes, from rows without edits
\* (query-result-table.tsx:210-285).
PastedIsCopied ==
  (pasted # None /\ Carried(copied)) =>
    LET y == pasted[1]
        x == pasted[2]
    IN \A i \in Rows, j \in Cols :
         shown[i][j] = IF i - y + 1 \in DOMAIN copied.rows /\ j - x + 1 \in DOMAIN copied.rows[1]
                          /\ i >= y /\ j >= x
                       THEN copied.rows[i - y + 1][j - x + 1] ELSE pasted[3][i][j]

\* Values that a CSV file keeps.
Keeps(v) == v = Null \/ (~Holds(v.text, "LF") /\ Trim(v.text) = v.text
                          /\ v.text \notin {<<>>, Lone("NULL")})
KeptByCSV == \A i \in Rows, j \in Cols : Keeps(raw[i][j])

\* A table exported as CSV or JSON and imported again: the rows inserted so far are the first
\* rows of the table, for values without line feeds, without blanks around them, and neither
\* empty nor the word NULL; in a JSON file, for every value (schema-sidebar-list.tsx:185-287).
ImportIsExport ==
  (import # None /\ (file.format = "json" \/ KeptByCSV)) => target \o import = raw

\* A reader of the file that knows quotes (RFC 4180, or SQL): rows of texts.
ReadFile(text, quote) ==
  LET add(acc) == [acc EXCEPT !.row = Append(@, acc.cell), !.cell = <<>>]
      step(acc, k) ==
        CASE acc.skip -> [acc EXCEPT !.skip = FALSE]
          [] text[k] = quote ->
               IF acc.open /\ k < Len(text) /\ text[k + 1] = quote
               THEN [acc EXCEPT !.cell = Append(@, quote), !.skip = TRUE]
               ELSE [acc EXCEPT !.open = ~@]
          [] ~acc.open /\ text[k] = "," -> add(acc)
          [] ~acc.open /\ text[k] = "LF" -> [add(acc) EXCEPT !.rows = Append(@, add(acc).row), !.row = <<>>]
          [] OTHER -> [acc EXCEPT !.cell = Append(@, text[k])]
      end == add(FoldLeft(step, [rows |-> <<>>, row |-> <<>>, cell |-> <<>>, open |-> FALSE,
                                 skip |-> FALSE], [k \in DOMAIN text |-> k]))
  IN Append(end.rows, end.row)

\* The exported file says what the table holds, whatever separators, quotes and line feeds the
\* texts hold: a CSV file to a reader of RFC 4180, the VALUES of the INSERTs to SQLite.
FileReadsBack ==
  (file # None /\ file.format # "json") =>
    ReadFile(file.text, IF file.format = "csv" THEN "Q" ELSE "P")
      = [i \in Rows |-> [j \in Cols |-> IF raw[i][j] = Null THEN Lone("NULL") ELSE raw[i][j].text]]
=============================================================================
