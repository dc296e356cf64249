----------------------------- MODULE DataCatalog -----------------------------
(***************************************************************************)
(* The data catalog: notes on the columns of a table and a list of terms,  *)
(* kept by a driver whose calls wait a delay before they change anything   *)
(* and then notify the open tabs.                                          *)
(*                                                                         *)
(* A note is written whole by whoever changes one part of it: the switch   *)
(* of its row, the dialog of its row, and the form in a result's header.   *)
(* A change made to the array of terms in place is drawn only when the tab *)
(* is rendered for another reason.                                         *)
(***************************************************************************)
EXTENDS Integers, Sequences, FiniteSets, SequencesExt

CONSTANTS
  Texts,     \* definitions a user may type
  Samples,   \* sample data of a column
  MaxTerms,  \* bound: terms added
  MaxOps     \* bound: what the user does

None == "none"  \* no text, no samples, a switch nobody touched

VARIABLES
  columns,  \* the table's entry: its columns, by lower-case name
  alias,    \* what updateTable spread over the entry
  terms,    \* definitions of the driver: [id, text]
  calls,    \* calls waiting for the delay, in the order they were made
  row,      \* the column's row: [mount, on, dialog]
  header,   \* the form in a result's header
  page,     \* array of the terms tab: [array, same: it is the driver's array]
  screen,   \* the terms as last rendered
  form,     \* dialog of the terms tab
  ids,
  noted,    \* history: what the user last saved of each part of the note
  crossed,  \* history: a whole note was sent that was not a copy of the one stored
  formed,   \* history: a form made the note
  early,    \* history: a dialog was dismissed while its call waited
  removed,  \* history: ids of the terms deleted
  ops

vars == <<columns, alias, terms, calls, row, header, page, screen, form, ids, noted,
          crossed, formed, early, removed, ops>>

Closed == [open |-> FALSE]
Lower(name) == "column"  \* a row's and a header's spelling differ in case only
NoNote == [text |-> None, samples |-> None, hide |-> FALSE]
Has(name) == Lower(name) \in DOMAIN columns
Note(name) == IF Has(name) THEN columns[Lower(name)] ELSE NoNote
Switch(name) == Has(name) => Note(name).hide
Mounted == row.mount % 2 = 1

Init ==
  /\ columns = <<>> /\ alias = None /\ terms = <<>> /\ calls = <<>>
  /\ row = [mount |-> 0, on |-> TRUE, dialog |-> Closed]
  /\ header = Closed
  /\ page = [array |-> <<>>, same |-> TRUE] /\ screen = <<>> /\ form = Closed
  /\ ids = 0
  /\ noted = [text |-> None, samples |-> None, hide |-> {}]
  /\ crossed = FALSE /\ formed = FALSE /\ early = FALSE /\ removed = {} /\ ops = 0

-----------------------------------------------------------------------------
Act == ops < MaxOps /\ ops' = ops + 1
Terms == <<terms, page, screen, form, ids, removed>>
Notes == <<columns, alias, row, header, noted, crossed, formed>>

\* Every caller of updateColumn sends a whole note; copy is the note its other parts come from.
SendNote(name, note, copy, by, at) ==
  /\ calls' = Append(calls, [op |-> "column", name |-> name, note |-> note, by |-> by, at |-> at])
  /\ crossed' = (crossed \/ copy # Note(name) \/ \E i \in 1..Len(calls) : calls[i].op = "column")

\* Expanding the table mounts its rows, whose switches are set once; collapsing unmounts them.
Fold ==
  /\ Act /\ ~row.dialog.open /\ ~header.open /\ ~form.open
  /\ row' = [mount |-> row.mount + 1, on |-> Switch("row"), dialog |-> Closed]
  /\ crossed' = (crossed \/ \E i \in 1..Len(calls) : calls[i].op = "column")
  /\ UNCHANGED <<Terms, columns, alias, calls, header, noted, formed, early>>

\* Fault: the switch sends a note without samples.
FlipWithoutSamples(note, hide) == [note EXCEPT !.samples = None, !.hide = hide]

\* What the switch sends of the note of its last render.
Flip(note, hide) == [note EXCEPT !.hide = hide]

Toggle ==
  /\ Act /\ Mounted /\ ~row.dialog.open /\ ~header.open /\ ~form.open
  /\ SendNote("row", Flip(Note("row"), ~row.on), Note("row"), "switch", row.mount)
  /\ row' = [row EXCEPT !.on = ~@]
  /\ noted' = [noted EXCEPT !.hide = {~row.on}]
  /\ UNCHANGED <<Terms, columns, alias, header, formed, early>>

\* "Edit Column" is offered by a row that is on.
OpenColumn ==
  /\ Act /\ Mounted /\ row.on /\ ~row.dialog.open /\ ~header.open /\ ~form.open
  /\ row' = [row EXCEPT !.dialog = [open |-> TRUE, copy |-> Note("row"), busy |-> FALSE]]
  /\ UNCHANGED <<Terms, columns, alias, calls, header, noted, crossed, formed, early>>

\* The user types a definition, and types or has generated samples, and saves.
SaveColumn(t, s) ==
  LET d == row.dialog IN
  /\ Act /\ d.open /\ ~d.busy /\ t # None
  /\ s \in {d.copy.samples} \cup Samples
  /\ SendNote("row", [d.copy EXCEPT !.text = t, !.samples = s], d.copy, "dialog", row.mount)
  /\ row' = [row EXCEPT !.dialog.busy = TRUE]
  /\ noted' = [noted EXCEPT !.text = t, !.samples = s]
  /\ formed' = (formed \/ ~Has("row"))
  /\ UNCHANGED <<Terms, columns, alias, header, early>>

DismissColumn ==
  /\ row.dialog.open
  /\ row' = [row EXCEPT !.dialog = Closed]
  /\ early' = (early \/ row.dialog.busy)
  /\ UNCHANGED <<Terms, columns, alias, calls, header, noted, crossed, formed, ops>>

\* The menu of a result's header holds the note as it was when it opened.
OpenHeader ==
  /\ Act /\ ~row.dialog.open /\ ~header.open /\ ~form.open
  /\ header' = [open |-> TRUE, copy |-> Note("header")]
  /\ UNCHANGED <<Terms, columns, alias, calls, row, noted, crossed, formed, early>>

SaveHeader(t) ==
  /\ Act /\ header.open
  /\ SendNote("header", [header.copy EXCEPT !.text = t], header.copy, "header", 0)
  /\ noted' = [noted EXCEPT !.text = t]
  /\ formed' = (formed \/ ~Has("header"))
  /\ UNCHANGED <<Terms, columns, alias, row, header, early>>

CloseHeader ==
  /\ header.open /\ header' = Closed
  /\ UNCHANGED <<Terms, columns, alias, calls, row, noted, crossed, formed, early, ops>>

\* The table's own dialog and the one for virtual joins; neither is read by anything.
SaveTable(a) ==
  /\ Act /\ ~row.dialog.open /\ ~header.open /\ ~form.open
  /\ calls' = Append(calls, [op |-> "table", alias |-> a])
  /\ UNCHANGED <<Terms, Notes, early>>

SaveJoin ==
  /\ Act /\ ~row.dialog.open /\ ~header.open /\ ~form.open
  /\ calls' = Append(calls, [op |-> "join"])
  /\ UNCHANGED <<Terms, Notes, early>>

-----------------------------------------------------------------------------
\* A term as the dialog shows it: of a new one, or of the one that was clicked.
Offer(term) ==
  /\ Act /\ ~form.open /\ ~header.open /\ ~row.dialog.open
  /\ form' = [open |-> TRUE, term |-> term, busy |-> {}]
  /\ screen' = page.array
  /\ UNCHANGED <<Notes, terms, calls, page, ids, removed, early>>

OpenNew == Offer([id |-> 0, text |-> None])
OpenTerm(i) == i \in 1..Len(screen) /\ Offer(screen[i])

\* Saving does not disable the button that deletes, nor the other way round.
SendTerm(button, call) ==
  /\ Act /\ form.open /\ button \notin form.busy
  /\ calls' = Append(calls, call)
  /\ form' = [form EXCEPT !.busy = @ \cup {button}]
  /\ UNCHANGED <<Notes, terms, page, screen, ids, removed, early>>

SaveTerm(t) ==
  /\ form.open /\ (form.term.id = 0 => ids + Len(calls) < MaxTerms)
  /\ SendTerm("save", [op |-> "term", term |-> [form.term EXCEPT !.text = t]])
DeleteTerm == form.open /\ form.term.id # 0 /\ SendTerm("delete", [op |-> "delete", id |-> form.term.id])

DismissTerm ==
  /\ form.open /\ form' = Closed
  /\ early' = (early \/ form.busy # {})
  /\ screen' = page.array
  /\ UNCHANGED <<Notes, terms, calls, page, ids, removed, ops>>

-----------------------------------------------------------------------------
First == calls # <<>> /\ calls' = Tail(calls)

\* The subscriber of the terms tab sets the driver's array: React renders it if it is another.
Notified(ts, same) ==
  /\ page' = [array |-> ts, same |-> TRUE]
  /\ screen' = IF same THEN screen ELSE ts

\* Fault: the entry of the table is made anew.
PutAnew(name, note) == [k \in {Lower(name)} |-> [NoNote EXCEPT !.hide = note.hide]]

\* The note replaces the stored one under its lower-case name.
Put(name, note) == [k \in DOMAIN columns \cup {Lower(name)} |->
                      IF k = Lower(name) THEN note ELSE columns[k]]

\* The dialog of the row that sent a note closes, if it is still that row.
UpdateColumn ==
  LET c == Head(calls) IN
  /\ First /\ c.op = "column"
  /\ columns' = Put(c.name, c.note)
  /\ Notified(terms, page.same)
  /\ row' = IF c.by = "dialog" /\ c.at = row.mount THEN [row EXCEPT !.dialog = Closed] ELSE row
  /\ UNCHANGED <<alias, terms, header, form, ids, noted, crossed, formed, early, removed, ops>>

UpdateTable ==
  /\ First /\ Head(calls).op = "table"
  /\ alias' = Head(calls).alias
  /\ Notified(terms, page.same)
  /\ UNCHANGED <<columns, terms, row, header, form, ids, noted, crossed, formed, early, removed, ops>>

AddVirtualJoin ==
  /\ First /\ Head(calls).op = "join"
  /\ Notified(terms, page.same)
  /\ UNCHANGED <<columns, alias, terms, row, header, form, ids, noted, crossed, formed, early, removed, ops>>

\* The tab renders when its dialog closes, whichever dialog it is by now.
Ended(array) == form' = Closed /\ screen' = IF form.open THEN array ELSE screen

\* unshift, and replacing one entry, change the driver's array in place.
StoreTerm ==
  LET t == Head(calls).term
      i == SelectInSeq(terms, LAMBDA x : x.id = t.id)
      ts == IF t.id = 0 THEN <<[t EXCEPT !.id = ids + 1]>> \o terms
            ELSE IF i = 0 THEN terms ELSE [terms EXCEPT ![i] = t] IN
  /\ First /\ Head(calls).op = "term"
  /\ terms' = ts /\ ids' = IF t.id = 0 THEN ids + 1 ELSE ids
  /\ page' = [array |-> ts, same |-> TRUE]
  /\ Ended(ts)
  /\ UNCHANGED <<Notes, removed, early, ops>>

\* Fault: the subscribers are not told of a deletion.
DropQuietly(ts) == page' = [page EXCEPT !.same = FALSE] /\ Ended(page.array)

\* filter makes another array: the tab renders.
Drop(ts) ==
  /\ page' = [array |-> ts, same |-> TRUE]
  /\ form' = Closed /\ screen' = ts

DropTerm ==
  LET ts == SelectSeq(terms, LAMBDA x : x.id # Head(calls).id) IN
  /\ First /\ Head(calls).op = "delete"
  /\ terms' = ts /\ removed' = removed \cup {Head(calls).id}
  /\ Drop(ts)
  /\ UNCHANGED <<Notes, ids, early, ops>>

Next ==
  \/ Fold \/ Toggle \/ OpenColumn \/ DismissColumn \/ OpenHeader \/ CloseHeader
  \/ \E t \in Texts : SaveHeader(t) \/ SaveTable(t) \/ SaveTerm(t)
                      \/ \E s \in Samples \cup {None} : SaveColumn(t, s)
  \/ SaveJoin \/ OpenNew \/ (\E i \in 1..Len(screen) : OpenTerm(i)) \/ DeleteTerm \/ DismissTerm
  \/ UpdateColumn \/ UpdateTable \/ AddVirtualJoin \/ StoreTerm \/ DropTerm

Spec == Init /\ [][Next]_vars
-----------------------------------------------------------------------------
\* Whoever changes one part of a note carries the others: when no note was sent that another
\* had overtaken, the stored note has the text, the samples and the switch last saved, and the
\* row shows that switch unless a form made the note (data-catalog-table-column.tsx:46-58,
\* data-catalog-table-column-modal.tsx:60-76, table-result-header.tsx:24-38).
NotesAreKept ==
  (calls = <<>> /\ ~crossed) =>
    /\ noted.text # None => Note("row").text = noted.text
    /\ noted.samples # None => Note("row").samples = noted.samples
    /\ noted.hide \subseteq {Note("row").hide}
    /\ Mounted /\ ~formed => row.on = Switch("row")

\* Once every call is answered the tab shows the terms of the catalog, unless a dialog was
\* dismissed with its call still waiting; a deleted term never returns
\* (data-catalog-tab.tsx:26-35, driver-inmemory.ts:203-252).
TermsAreShown ==
  /\ (calls = <<>> /\ ~early) => screen = terms
  /\ \A i \in 1..Len(terms) : terms[i].id \notin removed
=============================================================================
