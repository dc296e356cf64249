------------------------------ MODULE SavedDocs ------------------------------
(***************************************************************************)
(* Saved queries and their folders: the IndexedDB driver, whose calls are   *)
(* several transactions each, the save button of the query tabs and the     *)
(* sidebar, which reads the list again whenever the driver reports a        *)
(* change.                                                                  *)
(*                                                                          *)
(* A call is a record of tasks; one step of it is one transaction together  *)
(* with what its continuation does.  Transactions of different calls        *)
(* interleave; the reads of two lists are answered in the order they were   *)
(* asked for, as IndexedDB does for transactions on the same stores.        *)
(***************************************************************************)
EXTENDS Integers, Sequences, FiniteSets, SequencesExt

CONSTANTS
  Tabs,      \* query tabs
  MaxIds,    \* bound: folders and documents created
  MaxClicks  \* bound: what the user does

None == 0

VARIABLES
  namespaces,  \* store "namespace": ids
  docs,        \* store "saved_doc": id -> namespace_id
  ids,         \* generateId: ids handed out
  tasks,       \* running calls, in the order they were made
  list,        \* docList of the sidebar: namespace -> documents
  tab,         \* per tab: [open, doc, own, loading, menu]
  late,        \* history: documents added to a folder that was gone
  clicks

vars == <<namespaces, docs, ids, tasks, list, tab, late, clicks>>

Task(op, who, ns, doc) ==
  [op |-> op, step |-> 1, who |-> who, ns |-> ns, doc |-> doc, seen |-> {}]
Refresh == Task("list", None, None, None)
Closed == [open |-> FALSE, doc |-> None, own |-> FALSE, loading |-> FALSE, menu |-> {}]
Grouped(ns, ds) == [n \in ns |-> {d \in DOMAIN ds : ds[d] = n}]

Init ==
  /\ namespaces = {} /\ docs = <<>> /\ ids = 0
  /\ tasks = <<Refresh>>
  /\ list = <<>>
  /\ tab = [q \in Tabs |-> [Closed EXCEPT !.open = (q = CHOOSE t \in Tabs : TRUE)]]
  /\ late = {} /\ clicks = 0

Click(ts) ==
  /\ clicks < MaxClicks /\ clicks' = clicks + 1
  /\ tasks' = tasks \o ts
  /\ UNCHANGED <<namespaces, docs, ids, list, late>>

\* onSaveQuery; finding out the folders does not disable the button.
Save(q) ==
  /\ tab[q].open /\ ~tab[q].loading /\ tab[q].menu = {}
  /\ IF tab[q].doc # None
       THEN /\ tab' = [tab EXCEPT ![q].loading = TRUE]
            /\ Click(<<Task("update", q, None, tab[q].doc)>>)
       ELSE Click(<<Task("ask", q, None, None)>>) /\ UNCHANGED tab

Pick(q, n) ==
  /\ n \in tab[q].menu
  /\ tab' = [tab EXCEPT ![q].menu = {}, ![q].loading = TRUE]
  /\ Click(<<IF tab[q].doc # None THEN Task("update", q, None, tab[q].doc)
             ELSE Task("create", q, n, None)>>)

OpenDoc(q, n, d) ==
  /\ ~tab[q].open /\ n \in DOMAIN list /\ d \in list[n]
  /\ tab' = [tab EXCEPT ![q] = [Closed EXCEPT !.open = TRUE, !.doc = d]]
  /\ Click(<<>>)

CreateFolder == Click(<<Task("folder", None, None, None)>>) /\ UNCHANGED tab
RemoveDoc(n, d) ==
  /\ n \in DOMAIN list /\ d \in list[n]
  /\ Click(<<Task("removeDoc", None, n, d)>>) /\ UNCHANGED tab
RemoveFolder(n) ==
  /\ n \in DOMAIN list
  /\ Click(<<Task("removeFolder", None, n, None)>>) /\ UNCHANGED tab

-----------------------------------------------------------------------------
\* triggerChange: the call is over and the sidebar reads the list again.
Changed(i) == Append(RemoveAt(tasks, i), Refresh)
Advance(i, seen) == [tasks EXCEPT ![i].step = @ + 1, ![i].seen = seen]
InOrder(i) == \A j \in 1..(i - 1) : tasks[j].op = "list" => tasks[i].step < tasks[j].step

\* getNamespaces: an empty store gets the folder "Workplace", in a second transaction.
\* The continuation of the reader runs with what the store held when it was read.
ReadNamespaces(i) ==
  /\ tasks[i].step = 1 /\ tasks[i].op \in {"list", "ask", "removeFolder"}
  /\ tasks[i].op = "list" => InOrder(i)
  /\ tasks' = IF namespaces # {} THEN [Advance(i, namespaces) EXCEPT ![i].step = 3]
              ELSE Advance(i, {})
  /\ UNCHANGED <<namespaces, docs, ids, list, tab, late, clicks>>

AddWorkplace(i) ==
  /\ tasks[i].step = 2 /\ tasks[i].op \in {"list", "ask", "removeFolder"} /\ ids < MaxIds
  /\ ids' = ids + 1 /\ namespaces' = namespaces \cup {ids + 1}
  /\ tasks' = Append(Advance(i, {ids + 1}), Refresh)
  /\ UNCHANGED <<docs, list, tab, late, clicks>>

\* getDocs: every document, under the folders that were read before.
ReadDocs(i) ==
  /\ tasks[i].step = 3 /\ tasks[i].op = "list" /\ InOrder(i)
  /\ list' = Grouped(tasks[i].seen, docs)
  /\ tasks' = RemoveAt(tasks, i)
  /\ UNCHANGED <<namespaces, docs, ids, tab, late, clicks>>

\* One folder is saved to at once, several are offered in a menu.
Answered(i) ==
  LET t == tasks[i] IN
  /\ t.step = 3 /\ t.op = "ask"
  /\ IF Cardinality(t.seen) = 1
       THEN /\ tasks' = Append(RemoveAt(tasks, i),
                               Task("create", t.who, CHOOSE n \in t.seen : TRUE, None))
            /\ tab' = [tab EXCEPT ![t.who].loading = TRUE]
       ELSE /\ tasks' = RemoveAt(tasks, i)
            /\ tab' = [tab EXCEPT ![t.who].menu = t.seen]
  /\ UNCHANGED <<namespaces, docs, ids, list, late, clicks>>

\* A rejected call: only the button is enabled again.
Rejected(i) ==
  /\ tasks' = RemoveAt(tasks, i)
  /\ tab' = [tab EXCEPT ![tasks[i].who].loading = FALSE]
  /\ UNCHANGED <<namespaces, docs, ids, list, late, clicks>>

CreateDocFindsFolder(i) ==
  /\ tasks[i].step = 1 /\ tasks[i].op = "create"
  /\ IF tasks[i].ns \notin namespaces THEN Rejected(i)
     ELSE tasks' = Advance(i, {}) /\ UNCHANGED <<namespaces, docs, ids, list, tab, late, clicks>>

\* Fault: the change is not reported.
CreateDocQuietly(i) ==
  LET t == tasks[i] IN
  /\ t.step = 2 /\ t.op = "create" /\ ids < MaxIds
  /\ ids' = ids + 1
  /\ docs' = [d \in DOMAIN docs \cup {ids + 1} |-> IF d = ids + 1 THEN t.ns ELSE docs[d]]
  /\ tasks' = RemoveAt(tasks, i)
  /\ tab' = [tab EXCEPT ![t.who].doc = ids + 1, ![t.who].own = TRUE, ![t.who].loading = FALSE]
  /\ late' = IF t.ns \in namespaces THEN late ELSE late \cup {ids + 1}
  /\ UNCHANGED <<namespaces, list, clicks>>

\* createDoc adds; onComplete keeps the id and gives the tab the identifier of the document.
CreateDoc(i) ==
  LET t == tasks[i] IN
  /\ t.step = 2 /\ t.op = "create" /\ ids < MaxIds
  /\ ids' = ids + 1
  /\ docs' = [d \in DOMAIN docs \cup {ids + 1} |-> IF d = ids + 1 THEN t.ns ELSE docs[d]]
  /\ tasks' = Changed(i)
  /\ tab' = [tab EXCEPT ![t.who].doc = ids + 1, ![t.who].own = TRUE, ![t.who].loading = FALSE]
  /\ late' = IF t.ns \in namespaces THEN late ELSE late \cup {ids + 1}
  /\ UNCHANGED <<namespaces, list, clicks>>

UpdateDocFinds(i) ==
  LET t == tasks[i] IN
  /\ t.op = "update" /\ t.step \in {1, 2}
  /\ IF (t.step = 1 /\ t.doc \notin DOMAIN docs) \/ (t.step = 2 /\ t.ns \notin namespaces)
       THEN Rejected(i)
       ELSE /\ tasks' = [Advance(i, {}) EXCEPT ![i].ns = IF t.step = 1 THEN docs[t.doc] ELSE @]
            /\ UNCHANGED <<namespaces, docs, ids, list, tab, late, clicks>>

\* The update of a document that is gone by now changes nothing.
UpdateDoc(i) ==
  /\ tasks[i].op = "update" /\ tasks[i].step = 3
  /\ tasks' = Changed(i)
  /\ tab' = [tab EXCEPT ![tasks[i].who].loading = FALSE]
  /\ UNCHANGED <<namespaces, docs, ids, list, late, clicks>>

AddFolder(i) ==
  /\ tasks[i].op = "folder" /\ ids < MaxIds
  /\ ids' = ids + 1 /\ namespaces' = namespaces \cup {ids + 1}
  /\ tasks' = Append(Changed(i), Refresh)
  /\ UNCHANGED <<docs, list, tab, late, clicks>>

\* The tabs whose identifier is that of a removed document; a tab that was opened from the
\* list has another identifier and stays.
CloseTabs(ds) == [q \in Tabs |-> IF tab[q].own /\ tab[q].doc \in ds THEN Closed ELSE tab[q]]
Without(ds) == [d \in DOMAIN docs \ ds |-> docs[d]]

DeleteDoc(i) ==
  /\ tasks[i].op = "removeDoc"
  /\ docs' = Without({tasks[i].doc})
  /\ tasks' = Append(Changed(i), Refresh)
  /\ tab' = CloseTabs({tasks[i].doc})
  /\ UNCHANGED <<namespaces, ids, list, late, clicks>>

\* The dialog reads the documents of the folder, then the folder is removed ...
DeleteFolder(i) ==
  LET t == tasks[i] IN
  /\ t.op = "removeFolder" /\ t.step \in {3, 4}
  /\ IF t.step = 3
       THEN tasks' = Advance(i, {d \in DOMAIN docs : docs[d] = t.ns}) /\ UNCHANGED namespaces
       ELSE tasks' = Advance(i, t.seen) /\ namespaces' = namespaces \ {t.ns}
  /\ UNCHANGED <<docs, ids, list, tab, late, clicks>>

\* Fault: only the documents that were listed in the dialog are deleted.
DeleteDocsListed(i) ==
  LET t == tasks[i] IN
  /\ t.op = "removeFolder" /\ t.step = 5
  /\ docs' = Without(t.seen)
  /\ tasks' = Append(Changed(i), Refresh)
  /\ tab' = CloseTabs(t.seen)
  /\ UNCHANGED <<namespaces, ids, list, late, clicks>>

\* ... and then whatever is in it by now.
DeleteDocs(i) ==
  LET t == tasks[i] IN
  /\ t.op = "removeFolder" /\ t.step = 5
  /\ docs' = Without({d \in DOMAIN docs : docs[d] = t.ns})
  /\ tasks' = Append(Changed(i), Refresh)
  /\ tab' = CloseTabs(t.seen)
  /\ UNCHANGED <<namespaces, ids, list, late, clicks>>

Step(i) ==
  \/ ReadNamespaces(i) \/ AddWorkplace(i) \/ ReadDocs(i) \/ Answered(i)
  \/ CreateDocFindsFolder(i) \/ CreateDoc(i) \/ UpdateDocFinds(i) \/ UpdateDoc(i)
  \/ AddFolder(i) \/ DeleteDoc(i) \/ DeleteFolder(i) \/ DeleteDocs(i)

Next ==
  \/ \E q \in Tabs : Save(q)
  \/ \E q \in Tabs, n \in 1..MaxIds : Pick(q, n)
  \/ \E q \in Tabs, n, d \in 1..MaxIds : OpenDoc(q, n, d)
  \/ CreateFolder
  \/ \E n, d \in 1..MaxIds : RemoveDoc(n, d)
  \/ \E n \in 1..MaxIds : RemoveFolder(n)
  \/ \E i \in DOMAIN tasks : Step(i)

Spec == Init /\ [][Next]_vars
-----------------------------------------------------------------------------
\* Every document is in a folder, or no list would show it again and no save would find its
\* folder: removing a folder also removes what was saved to it after the dialog had looked.
\* The one exception is a document whose folder went away between the two transactions of
\* createDoc.
NoOrphans ==
  \A d \in DOMAIN docs :
    \/ docs[d] \in namespaces \/ d \in late
    \/ \E i \in DOMAIN tasks : tasks[i].op = "removeFolder" /\ tasks[i].ns = docs[d]

\* When nothing is running, the sidebar shows what is stored.
QuietListIsStore == tasks = <<>> => list = Grouped(namespaces, docs)
=============================================================================
