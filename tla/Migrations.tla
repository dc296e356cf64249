------------------------------- MODULE Migrations -------------------------------
(***************************************************************************)
(* The start of the server on the data directory of an older version: the  *)
(* tables of store.db are rebuilt in the layout of this version, columns   *)
(* are added, and the prefixes of names are stripped from the files, from  *)
(* registry.db and from the metadata of files.  RunOnce remembers what was *)
(* done; the process may be killed between any two steps and is started    *)
(* again.  Names that differ by their prefix only are left out: renaming   *)
(* one file would replace the other.                                       *)
(***************************************************************************)
EXTENDS Integers, Sequences, FiniteSets

CONSTANTS
  Rows,         \* rows of each table of the older version
  Dbs,          \* databases of registry.db
  MaxCrashes    \* bound: crashes

VARIABLES
  pc,        \* the next step and its subject; Up when the server serves, Down after log.Fatal
  tbl,       \* databases and buckets: [layout, rows]
  tmp,       \* databases_new and buckets_new: rows, or Missing
  columns,   \* later columns of buckets
  applied,   \* schema_migrations
  registry,  \* registry.db: the name of each database, or no databases without the file
  disk,      \* files of the databases: [name, suf, of], of being history: whose it is
  spaces,    \* namespaces in files/metadata.db: the name of each bucket
  had,       \* history: rows of each table at first
  torn,      \* history: killed between two statements of a rebuild, which are no transaction
  crashes

vars == <<pc, tbl, tmp, columns, applied, registry, disk, spaces, had, torn, crashes>>
store == <<tbl, tmp, columns>>
legacy == <<registry, disk, spaces, had>>

Missing == {0}   \* no row is 0
Tables == {"databases", "buckets"}
Up == <<"up", "">>
Down == <<"down", "">>
Stripped(n) == <<"", n[2]>>
Suffixes == {"", "-wal"}

\* Every database has a file and its log, under the name the registry has for it.
OldFiles == {[name |-> <<registry[d], d>>, suf |-> s, of |-> d] : d \in DOMAIN registry, s \in Suffixes}

Init ==
  /\ pc = <<"schema", "">>
  /\ tbl \in [Tables -> {[layout |-> "none", rows |-> {}], [layout |-> "old", rows |-> Rows]}]
  /\ tmp = [t \in Tables |-> Missing]
  /\ columns = {}
  /\ applied = {}
  /\ registry \in UNION {[D -> {"", "D-"}] : D \in SUBSET Dbs}
  /\ disk = OldFiles
  /\ spaces \in [Dbs -> {"bkt-", "bkt-B-"}]
  /\ had = [t \in Tables |-> tbl[t].rows]
  /\ torn = FALSE /\ crashes = 0

Later == {"api_key_id", "storage_backend"}
After(s) == pc' = s
-----------------------------------------------------------------------------
\* CREATE TABLE IF NOT EXISTS: a table that is not there is made empty, in the new layout.
Schema ==
  /\ pc = <<"schema", "">> /\ After(<<"inspect", "databases">>)
  /\ tbl' = [t \in Tables |->
       IF tbl[t].layout = "none" THEN [layout |-> "new", rows |-> {}] ELSE tbl[t]]
  /\ columns' = IF tbl["buckets"].layout = "none" THEN Later ELSE columns
  /\ UNCHANGED <<tmp, applied, legacy, torn, crashes>>

Then(t) == IF t = "databases" THEN <<"inspect", "buckets">> ELSE <<"mark", "unified">>

\* migrateUnifiedSchema asks for the column display_name, under RunOnce.
Inspect(t) ==
  /\ pc = <<"inspect", t>>
  /\ After(IF "unified" \in applied THEN <<"once", "v2">>
           ELSE IF tbl[t].layout = "old" THEN <<"create", t>> ELSE Then(t))
  /\ UNCHANGED <<store, applied, legacy, torn, crashes>>

\* The statements of one Exec, each committed by itself.
CreateNew(t) ==
  /\ pc = <<"create", t>> /\ After(<<"insert", t>>)
  /\ tmp' = [tmp EXCEPT ![t] = IF @ = Missing THEN {} ELSE @]
  /\ UNCHANGED <<tbl, columns, applied, legacy, torn, crashes>>

\* A row that is there already is an error: log.Fatal.
InsertNew(t) ==
  /\ pc = <<"insert", t>>
  /\ IF tmp[t] \intersect tbl[t].rows = {}
     THEN tmp' = [tmp EXCEPT ![t] = @ \union tbl[t].rows] /\ After(<<"drop", t>>)
     ELSE UNCHANGED tmp /\ After(Down)
  /\ UNCHANGED <<tbl, columns, applied, legacy, torn, crashes>>

DropOld(t) ==
  /\ pc = <<"drop", t>> /\ After(<<"rename", t>>)
  /\ tbl' = [tbl EXCEPT ![t] = [layout |-> "none", rows |-> {}]]
  /\ UNCHANGED <<tmp, columns, applied, legacy, torn, crashes>>

RenameNew(t) ==
  /\ pc = <<"rename", t>> /\ After(Then(t))
  /\ tbl' = [tbl EXCEPT ![t] = [layout |-> "new", rows |-> tmp[t]]]
  /\ tmp' = [tmp EXCEPT ![t] = Missing]
  /\ columns' = IF t = "buckets" THEN {} ELSE columns
  /\ UNCHANGED <<applied, legacy, torn, crashes>>

\* The name is inserted after the function: killed in between, the function runs again.
Mark(name, then) ==
  /\ pc = <<"mark", name>> /\ After(then)
  /\ applied' = applied \union {name}
  /\ UNCHANGED <<store, legacy, torn, crashes>>

\* migrateRegistrySchema: a column that is not there is added.
AddColumn(name, column, then) ==
  /\ pc = <<"once", name>>
  /\ IF name \in applied THEN After(then) /\ UNCHANGED columns
     ELSE After(<<"mark", name>>) /\ columns' = columns \union {column}
  /\ UNCHANGED <<tbl, tmp, applied, legacy, torn, crashes>>
-----------------------------------------------------------------------------
\* Fault: the rows first.
PhasesRowsFirst == <<"registry", "files", "metadata">>

\* StripPrefixes: "rename files before touching DB rows so a crash between phases leaves us in
\* a re-runnable state".
Phases == <<"files", "registry", "metadata">>

AfterPhase(p) ==
  LET i == CHOOSE j \in 1..Len(Phases) : Phases[j] = p
  IN IF i < Len(Phases) THEN <<"phase", Phases[i + 1]>> ELSE <<"mark", "strip">>

Strip ==
  /\ pc = <<"once", "strip">>
  /\ After(IF "strip" \in applied THEN Up ELSE <<"phase", Phases[1]>>)
  /\ UNCHANGED <<store, applied, legacy, torn, crashes>>

\* One os.Rename: a file of a name the registry has with its prefix.
ToRename == {f \in disk : f.name[1] = "D-" /\ \E d \in DOMAIN registry : f.name = <<registry[d], d>>}
RenameFile(f) ==
  /\ pc = <<"phase", "files">> /\ f \in ToRename
  /\ disk' = {g \in disk \ {f} : ~(g.name = Stripped(f.name) /\ g.suf = f.suf)}
             \union {[f EXCEPT !.name = Stripped(f.name)]}
  /\ UNCHANGED <<pc, store, applied, registry, spaces, had, torn, crashes>>

FilesRenamed ==
  /\ pc = <<"phase", "files">> /\ ToRename = {} /\ After(AfterPhase("files"))
  /\ UNCHANGED <<store, applied, legacy, torn, crashes>>

\* Phases 2 and 3, a transaction each.
UpdateRegistry ==
  /\ pc = <<"phase", "registry">> /\ After(AfterPhase("registry"))
  /\ registry' = [d \in DOMAIN registry |-> ""]
  /\ UNCHANGED <<store, applied, disk, spaces, had, torn, crashes>>

UpdateFilesMetadata ==
  /\ pc = <<"phase", "metadata">> /\ After(AfterPhase("metadata"))
  /\ spaces' = [d \in Dbs |-> "bkt-"]
  /\ UNCHANGED <<store, applied, registry, disk, had, torn, crashes>>
-----------------------------------------------------------------------------
\* Killed and started again; or started again after log.Fatal.
Crash ==
  /\ pc # Up /\ crashes < MaxCrashes /\ crashes' = crashes + 1
  /\ torn' = (torn \/ pc[1] \in {"drop", "rename"})
  /\ After(<<"schema", "">>)
  /\ UNCHANGED <<store, applied, legacy>>

Next ==
  \/ Schema \/ Crash
  \/ \E t \in Tables : Inspect(t) \/ CreateNew(t) \/ InsertNew(t) \/ DropOld(t) \/ RenameNew(t)
  \/ Mark("unified", <<"once", "v2">>) \/ Mark("v2", <<"once", "v3">>)
  \/ Mark("v3", <<"once", "strip">>) \/ Mark("strip", Up)
  \/ AddColumn("v2", "api_key_id", <<"once", "v3">>)
  \/ AddColumn("v3", "storage_backend", <<"once", "strip">>)
  \/ Strip \/ (\E f \in disk : RenameFile(f)) \/ FilesRenamed
  \/ UpdateRegistry \/ UpdateFilesMetadata

Spec == Init /\ [][Next]_vars
-----------------------------------------------------------------------------
\* A server that serves has every row of the older version once, in the new layout with every
\* column, unless it was killed between two statements of a rebuild.
RowsAreMoved ==
  pc = Up /\ ~torn =>
    \A t \in Tables : /\ tbl[t].layout = "new" /\ tbl[t].rows = had[t]
                          /\ tmp[t] = Missing /\ columns = Later

\* A row is never in neither table, unless so.
RowsAreSomewhere ==
  ~torn => \A t \in Tables : tbl[t].layout = "none" /\ pc[1] # "schema" => tmp[t] = had[t]

\* A start does not fail for ever, unless so.
StartSucceeds == pc = Down => torn

\* Wherever the process was killed, a row of registry.db names the whole file of its database.
RowsNameTheirFiles ==
  pc = Up => \A d \in DOMAIN registry, s \in Suffixes :
                 [name |-> <<registry[d], d>>, suf |-> s, of |-> d] \in disk
=============================================================================
