---------------------------- MODULE ElectronDocs ----------------------------
(***************************************************************************)
(* ElectronSavedDocs: the saved queries of the desktop application, kept   *)
(* in one file that is loaded once and written as a whole at each change.  *)
(* Every method first waits for getNamespaces; while nothing is cached     *)
(* each of them loads the file for itself.                                 *)
(***************************************************************************)
EXTENDS Integers, Sequences, FiniteSets, SequencesExt

CONSTANTS
  MaxIds,    \* bound: documents and namespaces created
  MaxCalls   \* bound: methods called

None == <<>>
Workspace == 0   \* the namespace of an empty file; others are numbered as created

VARIABLES
  disk,      \* the file: [namespaces, docs], docs: id -> [namespace, content]
  cache,     \* cacheNamespaceList and cacheDocs
  calls,     \* methods that wait for a load: [kind, arg, got, fresh]
  saves,     \* contents on their way to the file, in the order they were sent
  ids,       \* ids generated
  ops,
  mine,      \* history: the documents created and not removed, alone or with their namespace
  reloaded,  \* history: a load older than a change was taken for the cache
  lost       \* history: a save failed

vars == <<disk, cache, calls, saves, ids, ops, mine, reloaded, lost>>

Empty == [namespaces |-> {}, docs |-> [i \in {} |-> 0]]
OneDoc == [namespaces |-> {1}, docs |-> [i \in {2} |-> [namespace |-> 1, content |-> 0]]]

Init ==
  /\ disk \in {Empty, OneDoc}
  /\ cache = None /\ calls = <<>> /\ saves = <<>>
  /\ ids = 2 /\ ops = 0
  /\ mine = disk.docs /\ reloaded = FALSE /\ lost = FALSE

\* An empty file stands for one namespace without documents, which is not written back.
Loaded(file) ==
  IF file.namespaces = {} THEN [Empty EXCEPT !.namespaces = {Workspace}] ELSE file

\* What getDocs lists: the documents of the namespaces there are.
GetDocs(file) == [i \in {j \in DOMAIN file.docs : file.docs[j].namespace \in file.namespaces} |-> file.docs[i]]

\* What a method does once the namespaces are there.
CreateNamespace(c) == [c EXCEPT !.namespaces = @ \cup {ids + 1}]
RemoveNamespace(c, n) == [c EXCEPT !.namespaces = @ \ {n}]

\* Fault: the list of a namespace is replaced by the new document.
CreateDocAlone(c, n) ==
  [c EXCEPT !.docs = [i \in {ids + 1} \cup {j \in DOMAIN @ : @[j].namespace # n} |->
                        IF i = ids + 1 THEN [namespace |-> n, content |-> 0] ELSE @[i]]]

CreateDoc(c, n) ==
  [c EXCEPT !.docs = [i \in {ids + 1} \cup DOMAIN @ |->
                        IF i = ids + 1 THEN [namespace |-> n, content |-> 0] ELSE @[i]]]
UpdateDoc(c, d) == [c EXCEPT !.docs[d].content = @ + 1]
RemoveDoc(c, d) == [c EXCEPT !.docs = [i \in DOMAIN @ \ {d} |-> @[i]]]

\* createDoc needs its namespace and updateDoc its document; without it they throw.
Throws(c, kind, arg) ==
  \/ kind = "createDoc" /\ arg \notin c.namespaces
  \/ kind = "updateDoc" /\ arg \notin DOMAIN c.docs

After(c, kind, arg) ==
  CASE kind = "createNamespace" -> CreateNamespace(c)
    [] kind = "removeNamespace" -> RemoveNamespace(c, arg)
    [] kind = "createDoc" -> CreateDoc(c, arg)
    [] kind = "updateDoc" -> UpdateDoc(c, arg)
    [] kind = "removeDoc" -> RemoveDoc(c, arg)

\* What the caller of a method that succeeded may count on.
Promised(kind, arg) ==
  CASE kind = "createDoc" -> (ids + 1 :> [namespace |-> arg, content |-> 0]) @@ mine
    [] kind = "updateDoc" -> [i \in DOMAIN mine |-> IF i = arg THEN [mine[i] EXCEPT !.content = @ + 1] ELSE mine[i]]
    [] kind = "removeDoc" -> Restrict(mine, DOMAIN mine \ {arg})
    [] kind = "removeNamespace" -> Restrict(mine, {i \in DOMAIN mine : mine[i].namespace # arg})
    [] OTHER -> mine

\* A method goes on with the cache c, of which it sends the whole to the file; nobody waits
\* for that.  The loads still under way are older than the change.
Perform(c, kind, arg, others) ==
  IF kind = "getDocs" \/ Throws(c, kind, arg)
  THEN cache' = c /\ calls' = others /\ UNCHANGED <<saves, ids, mine>>
  ELSE /\ cache' = After(c, kind, arg)
       /\ saves' = Append(saves, cache')
       /\ ids' = IF kind \in {"createNamespace", "createDoc"} THEN ids + 1 ELSE ids
       /\ mine' = Promised(kind, arg)
       /\ calls' = [j \in DOMAIN others |-> [others[j] EXCEPT !.fresh = others[j].got = None]]

\* A method is called; with a cache it goes on at once, else it sends a load.
Invoke(kind, arg) ==
  /\ ops < MaxCalls /\ ops' = ops + 1
  /\ kind \in {"createNamespace", "createDoc"} => ids + Len(calls) < 2 + MaxIds
  /\ IF cache # None THEN Perform(cache, kind, arg, calls)
     ELSE /\ calls' = Append(calls, [kind |-> kind, arg |-> arg, got |-> None, fresh |-> TRUE])
          /\ UNCHANGED <<cache, saves, ids, mine>>
  /\ UNCHANGED <<disk, reloaded, lost>>

\* The main process reads the file for a load, with or without the saves under way.
Read(k) ==
  /\ calls[k].got = None
  /\ calls' = [calls EXCEPT ![k].got = disk, ![k].fresh = saves = <<>>]
  /\ UNCHANGED <<disk, cache, saves, ids, ops, mine, reloaded, lost>>

\* getNamespaces goes on: what was loaded is the cache, whatever it was by now.
GetNamespaces(k) ==
  /\ calls[k].got # None
  /\ Perform(Loaded(calls[k].got), calls[k].kind, calls[k].arg, RemoveAt(calls, k))
  /\ reloaded' = (reloaded \/ ~calls[k].fresh)
  /\ UNCHANGED <<disk, ops, lost>>

\* The file is written, or the write fails and is forgotten.
Write ==
  /\ saves # <<>>
  /\ saves' = Tail(saves)
  /\ \/ disk' = Head(saves) /\ UNCHANGED lost
     \/ lost' = TRUE /\ UNCHANGED disk
  /\ UNCHANGED <<cache, calls, ids, ops, mine, reloaded>>

\* The window is closed and opened again: the cache and what waits are gone, the saves are not.
Restart ==
  /\ ops < MaxCalls /\ ops' = ops + 1
  /\ cache # None
  /\ cache' = None /\ calls' = <<>>
  /\ UNCHANGED <<disk, saves, ids, mine, reloaded, lost>>

\* The namespaces and documents someone may know of.
Known == Workspace..(2 + MaxIds)

Next ==
  \/ \E kind \in {"createNamespace", "getDocs"} : Invoke(kind, None)
  \/ \E a \in Known : \E kind \in {"removeNamespace", "createDoc", "updateDoc", "removeDoc"} : Invoke(kind, a)
  \/ \E k \in DOMAIN calls : Read(k) \/ GetNamespaces(k)
  \/ Write \/ Restart

Spec == Init /\ [][Next]_vars
-----------------------------------------------------------------------------
\* Every document created and not removed is listed with its last content, and is in the
\* file when no save is under way, also after the window was closed and opened again.
\* Excluded: a save that failed, and a load older than a change (several methods called
\* before the first load was answered, or a window opened while the last save was under way).
DocsAreKept ==
  ~reloaded /\ ~lost =>
    /\ cache # None => GetDocs(cache) = mine
    /\ saves = <<>> => GetDocs(disk) = mine
=============================================================================
