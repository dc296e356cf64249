------------------------------ MODULE ExportImport ------------------------------
(***************************************************************************)
(* Exports and imports of one database.  Both copy tables by attaching a   *)
(* temporary file to the only connection of the database, under a name     *)
(* that is always the same.  An import and a statement that writes run in  *)
(* the write queue, an export does not: its statements and theirs take     *)
(* turns on the connection.                                                *)
(***************************************************************************)
EXTENDS Integers, Sequences, FiniteSets

CONSTANTS
  Tables,           \* names of tables
  Slots,            \* requests at a time
  Asked,            \* lists of tables asked for
  Uploads,          \* uploaded files: rows of each table, or Missing
  MaxRows, MaxOps   \* bounds: rows written, requests

VARIABLES
  main,      \* rows of each table, or Missing
  attached,  \* databases attached to the connection, in their order: [as, slot]
  file,      \* the temporary file of each slot: rows of each table, or Missing
  calls,     \* [op, step, todo, asked, client]
  busy,      \* slot whose import the write queue runs, or 0
  before,    \* history: main when an export began
  dropped,   \* history: tables dropped since an export began
  crossed,   \* history: exports that ran beside another
  kept,      \* history: rows of answered writes, of tables not dropped since
  strayed,   \* history: a table was dropped while an export held one of its name
  nrows, ops

vars == <<main, attached, file, calls, busy, before, dropped, crossed, kept, strayed, nrows, ops>>
histories == <<before, dropped, crossed, strayed>>

Missing == {0}   \* no row is 0
Empty == [t \in Tables |-> Missing]
Free == [op |-> "none", step |-> "done", todo |-> <<>>, asked |-> <<>>, client |-> FALSE]
Running(c) == calls[c].step \notin {"done", "answered", "failed"}
Exporting(c) == calls[c].op = "export" /\ Running(c)

Init ==
  /\ main \in [Tables -> {Missing, {}}]
  /\ attached = <<>>
  /\ file = [c \in Slots |-> Empty]
  /\ calls = [c \in Slots |-> Free]
  /\ busy = 0
  /\ before = [c \in Slots |-> Empty] /\ dropped = [c \in Slots |-> {}] /\ crossed = {}
  /\ kept = [t \in Tables |-> {}] /\ strayed = FALSE
  /\ nrows = 0 /\ ops = 0

Op == ops < MaxOps /\ ops' = ops + 1
Goto(c, s) == calls' = [calls EXCEPT ![c].step = s]
NextTable(c) == calls' = [calls EXCEPT ![c].step = "table", ![c].todo = Tail(@)]
Table(c) == Head(calls[c].todo)

\* The database attached under a name, and the connection without it.
Holders(as) == {attached[i].slot : i \in {j \in 1..Len(attached) : attached[j].as = as}}
Attach(as, c) == attached' = Append(attached, [as |-> as, slot |-> c])
Detach(as) ==
  LET at == {i \in DOMAIN attached : attached[i].as = as}
  IN IF at = {} THEN UNCHANGED attached
     ELSE \E i \in at : attached' = [j \in 1..(Len(attached) - 1) |->
                                      IF j < i THEN attached[j] ELSE attached[j + 1]]
-----------------------------------------------------------------------------
\* Export asks for the connection as soon as its request is read.
Export(c, list) ==
  /\ ~Running(c) /\ Op
  /\ calls' = [calls EXCEPT ![c] = [op |-> "export", step |-> "attach", todo |-> list,
                                    asked |-> list, client |-> TRUE]]
  /\ file' = [file EXCEPT ![c] = Empty]
  /\ before' = [before EXCEPT ![c] = main]
  /\ dropped' = [dropped EXCEPT ![c] = {}]
  /\ LET others == {d \in Slots \ {c} : Exporting(d)}
     IN crossed' = IF others = {} THEN crossed \ {c} ELSE crossed \union others \union {c}
  /\ UNCHANGED <<main, attached, busy, kept, strayed, nrows>>

\* The name may be taken by another export: then nothing is detached either.
AttachDst(c) ==
  /\ Exporting(c) /\ calls[c].step = "attach"
  /\ IF Holders("export_dst") = {} THEN Attach("export_dst", c) /\ Goto(c, "table")
                                   ELSE UNCHANGED attached /\ Goto(c, "failed")
  /\ UNCHANGED <<main, file, busy, histories, kept, nrows, ops>>

\* The statement that created the table; a table that is not there is skipped.
ReadDDL(c) ==
  /\ Exporting(c) /\ calls[c].step = "table"
  /\ CASE calls[c].todo = <<>> -> Goto(c, "detach")
       [] calls[c].todo # <<>> /\ main[Table(c)] = Missing -> NextTable(c)
       [] OTHER -> Goto(c, "create")
  /\ UNCHANGED <<main, attached, file, busy, histories, kept, nrows, ops>>

\* Whatever file is attached by now gets the table, if it has none of its name.
CreateInDst(c) ==
  /\ Exporting(c) /\ calls[c].step = "create"
  /\ LET dst == {d \in Holders("export_dst") : file[d][Table(c)] = Missing}
     IN /\ file' = [d \in Slots |-> IF d \in dst THEN [file[d] EXCEPT ![Table(c)] = {}] ELSE file[d]]
        /\ Goto(c, IF dst = {} THEN "error" ELSE "copy")
  /\ UNCHANGED <<main, attached, busy, histories, kept, nrows, ops>>

CopyToDst(c) ==
  /\ Exporting(c) /\ calls[c].step = "copy"
  /\ LET t == Table(c)
         dst == {d \in Holders("export_dst") : main[t] # Missing /\ file[d][t] # Missing}
     IN /\ file' = [d \in Slots |->
                      IF d \in dst THEN [file[d] EXCEPT ![t] = @ \union main[t]] ELSE file[d]]
        /\ IF dst = {} THEN Goto(c, "error") ELSE NextTable(c)
  /\ UNCHANGED <<main, attached, busy, histories, kept, nrows, ops>>

\* Before the file is sent; that nothing is attached is only logged.
DetachDst(c) ==
  /\ Exporting(c) /\ calls[c].step = "detach"
  /\ Detach("export_dst") /\ Goto(c, "send")
  /\ UNCHANGED <<main, file, busy, histories, kept, nrows, ops>>

\* Fault: an export that failed leaves its file attached.
EndWithoutDetach(c) ==
  /\ Exporting(c) /\ calls[c].step \in {"send", "error"}
  /\ IF calls[c].step = "send" THEN Detach("export_dst") ELSE UNCHANGED attached
  /\ Goto(c, IF calls[c].step = "send" THEN "answered" ELSE "failed")
  /\ UNCHANGED <<main, file, busy, histories, kept, nrows, ops>>

\* The deferred DETACH, after the file was sent or the error: of whatever is attached by then.
EndExport(c) ==
  /\ Exporting(c) /\ calls[c].step \in {"send", "error"}
  /\ Detach("export_dst")
  /\ Goto(c, IF calls[c].step = "send" THEN "answered" ELSE "failed")
  /\ UNCHANGED <<main, file, busy, histories, kept, nrows, ops>>
-----------------------------------------------------------------------------
Import(c, list, upload) ==
  /\ ~Running(c) /\ Op
  /\ calls' = [calls EXCEPT ![c] = [op |-> "import", step |-> "queued", todo |-> list,
                                    asked |-> list, client |-> TRUE]]
  /\ file' = [file EXCEPT ![c] = upload]
  /\ UNCHANGED <<main, attached, busy, histories, kept, nrows>>

\* The client is gone: the handler removes the temporary file, the closure stays in the queue.
LeaveImport(c) ==
  /\ calls[c].op = "import" /\ Running(c) /\ calls[c].client
  /\ calls' = [calls EXCEPT ![c].client = FALSE]
  /\ file' = IF calls[c].step = "queued" THEN [file EXCEPT ![c] = Empty] ELSE file
  /\ UNCHANGED <<main, attached, busy, histories, kept, nrows, ops>>

\* ATTACH makes a file that is not there.
AttachSrc(c) ==
  /\ calls[c].op = "import" /\ calls[c].step = "queued" /\ busy = 0
  /\ busy' = c
  /\ Attach("import_src", c) /\ Goto(c, "table")
  /\ UNCHANGED <<main, file, histories, kept, nrows, ops>>

\* A table the file does not have is skipped; one the database does not have is created.
CreateTable(c) ==
  /\ busy = c /\ calls[c].step = "table" /\ calls[c].todo # <<>>
  /\ LET t == Table(c)
         found == \E d \in Holders("import_src") : file[d][t] # Missing
     IN /\ main' = [main EXCEPT ![t] = IF found /\ @ = Missing THEN {} ELSE @]
        /\ IF found THEN Goto(c, "copy") ELSE NextTable(c)
  /\ UNCHANGED <<attached, file, busy, histories, kept, nrows, ops>>

\* INSERT OR IGNORE INTO main; the columns may not match those of the table that is there.
CopyFromSrc(c) ==
  /\ busy = c /\ calls[c].step = "copy"
  /\ LET t == Table(c)
     IN \/ /\ main' = [main EXCEPT ![t] = @ \union UNION {file[d][t] : d \in Holders("import_src")}]
           /\ NextTable(c)
        \/ Goto(c, "error") /\ UNCHANGED main
  /\ UNCHANGED <<attached, file, busy, histories, kept, nrows, ops>>

EndImport(c) ==
  /\ busy = c /\ (calls[c].step = "error" \/ (calls[c].step = "table" /\ calls[c].todo = <<>>))
  /\ Detach("import_src") /\ busy' = 0
  /\ Goto(c, IF calls[c].step = "error" THEN "failed" ELSE "answered")
  /\ UNCHANGED <<main, file, histories, kept, nrows, ops>>
-----------------------------------------------------------------------------
\* A name without a schema that main does not have is that of the first attached file that has.
FirstWith(t) ==
  LET with == {i \in 1..Len(attached) : file[attached[i].slot][t] # Missing}
  IN {attached[i].slot : i \in {j \in with : \A k \in with : j <= k}}

\* A statement of Exec, run by the write queue: INSERT, CREATE TABLE and DROP TABLE.
Insert(t) ==
  /\ busy = 0 /\ nrows < MaxRows /\ Op
  /\ nrows' = nrows + 1
  /\ \/ /\ main[t] # Missing
        /\ main' = [main EXCEPT ![t] = @ \union {nrows'}] /\ UNCHANGED file
     \/ /\ main[t] = Missing /\ FirstWith(t) # {} /\ UNCHANGED main
        /\ file' = [d \in Slots |-> IF d \in FirstWith(t) THEN [file[d] EXCEPT ![t] = @ \union {nrows'}]
                                                         ELSE file[d]]
  /\ kept' = [kept EXCEPT ![t] = @ \union {nrows'}]
  /\ UNCHANGED <<attached, calls, busy, histories>>

Create(t) ==
  /\ busy = 0 /\ main[t] = Missing /\ Op
  /\ main' = [main EXCEPT ![t] = {}]
  /\ UNCHANGED <<attached, file, calls, busy, histories, kept, nrows>>

Drop(t) ==
  /\ busy = 0 /\ main[t] # Missing /\ Op
  /\ main' = [main EXCEPT ![t] = Missing]
  /\ kept' = [kept EXCEPT ![t] = {}]
  /\ dropped' = [c \in Slots |-> dropped[c] \union {t}]
  /\ strayed' = (strayed \/ (\E c \in Slots : Exporting(c)))
  /\ UNCHANGED <<attached, file, calls, busy, before, crossed, nrows>>

Next ==
  \/ \E c \in Slots :
       \/ AttachDst(c) \/ ReadDDL(c) \/ CreateInDst(c) \/ CopyToDst(c) \/ DetachDst(c) \/ EndExport(c)
       \/ LeaveImport(c) \/ AttachSrc(c) \/ CreateTable(c) \/ CopyFromSrc(c) \/ EndImport(c)
       \/ \E list \in Asked : Export(c, list) \/ \E upload \in Uploads : Import(c, list, upload)
  \/ \E t \in Tables : Insert(t) \/ Create(t) \/ Drop(t)

Spec == Init /\ [][Next]_vars
-----------------------------------------------------------------------------
Answered(c, op) == calls[c].op = op /\ calls[c].step = "answered"
Wanted(c) == {calls[c].asked[i] : i \in 1..Len(calls[c].asked)}

\* An export that ran beside no other has what every table it was asked for held when it began,
\* if the table was not dropped since.
ExportIsWhole ==
  \A c \in Slots : Answered(c, "export") /\ c \notin crossed =>
    \A t \in Wanted(c) \ dropped[c] : before[c][t] # Missing => before[c][t] \subseteq file[c][t]

\* When nothing runs nothing is attached, whichever request detached the file of which.
NothingStaysAttached == (\A c \in Slots : ~Running(c)) => attached = <<>>

\* A write that was answered stays in the database until its table is dropped, imports and
\* exports beside it, unless a table was dropped during an export.
WritesStay == ~strayed => \A t \in Tables : kept[t] \subseteq main[t]
=============================================================================
