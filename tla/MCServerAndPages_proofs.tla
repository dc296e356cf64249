---------------------- MODULE MCServerAndPages_proofs ----------------------
(***************************************************************************)
(* Proofs about parts around a database: the links to the files of         *)
(* buckets, the channels to a database elsewhere, exports and imports, the *)
(* start on the data of an older version, the caches, and the pages of the *)
(* databases.                                                              *)
(***************************************************************************)
EXTENDS MCServerAndPages, SequenceTheorems, TLAPS

(* A step of the sum is one of the part the behaviour is about. *)
LEMMA PartSteps ==
  ASSUME [Next]_vars
  PROVE  /\ part' = part
         /\ part = "buckets" => BucketsPart!Next \/ UNCHANGED buckets_vars
         /\ part = "embed" => EmbedPart!Next \/ UNCHANGED embed_vars
         /\ part = "cache" => CachePart!Next \/ UNCHANGED cache_vars
         /\ part = "moves" => MovesPart!Next \/ UNCHANGED moves_vars
         /\ part = "start" => StartPart!Next \/ UNCHANGED start_vars
         /\ part = "pages" => PagesPart!Next \/ UNCHANGED pages_vars
<1>1. CASE UNCHANGED vars
  BY <1>1 DEF vars
<1>2. CASE BucketsNext \/ EmbedNext \/ CacheNext \/ MovesNext \/ StartNext \/ PagesNext
  BY <1>2 DEF BucketsNext, EmbedNext, CacheNext, MovesNext, StartNext, PagesNext
<1>3. CASE Next /\ ~BucketsNext /\ ~EmbedNext /\ ~CacheNext /\ ~MovesNext /\ ~StartNext /\ ~PagesNext
  BY <1>3 DEF Next, FilesNext, MemoryNext, DocsNext, DesktopNext, CatalogNext, BoardNext
<1>4. QED
  BY <1>1, <1>2, <1>3

-----------------------------------------------------------------------------
(* The start on the data of an older version.  Two invariants are inductive side by side.     *)
(* Moving says, for each step of the start, in which of the two tables the rows are; it needs *)
(* that no rebuild was killed half-way (torn).  FilesNamed says that a file is under the name *)
(* the registry has for it or under that name without its prefix, the latter from the moment  *)
(* on that all files were renamed.                                                             *)

Layouts == {"none", "old", "new"}
StartNames == {"unified", "v2", "v3", "strip"}
StartSteps == {<<"schema", "">>, StartPart!Up, StartPart!Down}
           \cup ({"inspect", "create", "insert", "drop", "rename"} \X StartPart!Tables)
           \cup ({"once"} \X {"v2", "v3", "strip"}) \cup ({"mark"} \X StartNames)
           \cup ({"phase"} \X {"files", "registry", "metadata"})

Rebuilding == {"create", "insert", "drop", "rename"}
Works == {"inspect"} \cup Rebuilding

(* The steps of a start from some point on. *)
FromStrip == {<<"once", "strip">>, <<"mark", "strip">>, StartPart!Up, <<"phase", "files">>,
              <<"phase", "registry">>, <<"phase", "metadata">>}
FromV3 == FromStrip \cup {<<"once", "v3">>, <<"mark", "v3">>}
FromV2 == FromV3 \cup {<<"once", "v2">>, <<"mark", "v2">>}
FromUnified == FromV2 \cup {<<"mark", "unified">>}
FromBuckets == FromUnified \cup {<<x, "buckets">> : x \in Works}

StartTyped ==
  /\ start_pc \in StartSteps
  /\ start_tbl \in [StartPart!Tables -> [layout : Layouts, rows : SUBSET (OldRows \cup {0})]]
  /\ start_tmp \in [StartPart!Tables -> SUBSET (OldRows \cup {0})]
  /\ start_columns \subseteq StartPart!Later
  /\ start_applied \subseteq StartNames
  /\ start_had \in [StartPart!Tables -> SUBSET OldRows]

(* Where the rows of a table are. *)
Moving(t) ==
  /\ start_pc = <<"rename", t>> => start_tbl[t].layout = "none" /\ start_tmp[t] = start_had[t]
  /\ start_pc # <<"rename", t>> =>
       /\ start_tbl[t].rows = start_had[t]
       /\ start_pc # <<"schema", "">> => start_tbl[t].layout # "none"
       /\ start_tbl[t].layout = "none" => start_had[t] = {} /\ start_tmp[t] = StartPart!Missing
       /\ start_tbl[t].layout = "new" => start_tmp[t] = StartPart!Missing
       /\ start_pc = <<"insert", t>> => start_tmp[t] = {}
       /\ start_pc = <<"drop", t>> => start_tmp[t] = start_had[t]
       /\ start_tbl[t].layout = "old" /\ start_pc \notin {<<"insert", t>>, <<"drop", t>>} =>
            start_tmp[t] \in {StartPart!Missing, {}}
  /\ \A x \in Rebuilding : start_pc = <<x, t>> => "unified" \notin start_applied
  /\ \A x \in Rebuilding \ {"rename"} : start_pc = <<x, t>> => start_tbl[t].layout = "old"

(* What a start has done when it is at some step. *)
Done ==
  /\ start_pc \in FromBuckets \/ "unified" \in start_applied => start_tbl["databases"].layout = "new"
  /\ start_pc \in FromUnified \/ "unified" \in start_applied => start_tbl["buckets"].layout = "new"
  /\ start_pc \in FromV2 \/ start_applied # {} => "unified" \in start_applied
  /\ "v2" \in start_applied \/ start_pc \in FromV3 \cup {<<"mark", "v2">>} => "api_key_id" \in start_columns
  /\ "v3" \in start_applied \/ start_pc \in FromStrip \cup {<<"mark", "v3">>} =>
       "storage_backend" \in start_columns
  /\ start_pc # StartPart!Down

RowsMoved == ~start_torn => Done /\ \A t \in StartPart!Tables : Moving(t)

(* The file of a database, and the same file without its prefix. *)
File(d, s, p) == [name |-> <<p, d>>, suf |-> s, of |-> d]

Renamed == {<<"phase", "registry">>, <<"phase", "metadata">>, <<"mark", "strip">>, StartPart!Up}
FilesNamed ==
  /\ DOMAIN start_registry \subseteq OldDbs /\
       \A d \in DOMAIN start_registry : start_registry[d] \in {"", "D-"}
  /\ \A f \in start_disk : \E d \in OldDbs, s \in StartPart!Suffixes, p \in {"", "D-"} : f = File(d, s, p)
  /\ \A d \in DOMAIN start_registry, s \in StartPart!Suffixes :
       File(d, s, start_registry[d]) \in start_disk \/ File(d, s, "") \in start_disk
  /\ start_pc \in Renamed \/ "strip" \in start_applied =>
       \A d \in DOMAIN start_registry, s \in StartPart!Suffixes : File(d, s, "") \in start_disk
  /\ start_pc \in Renamed \ {<<"phase", "registry">>} \/ "strip" \in start_applied =>
       \A d \in DOMAIN start_registry : start_registry[d] = ""

StartInv == StartTyped /\ RowsMoved /\ FilesNamed

-----------------------------------------------------------------------------
(* The order of the phases of StripPrefixes. *)
LEMMA PhaseOrder ==
  /\ StartPart!Phases[1] = "files"
  /\ StartPart!AfterPhase("files") = <<"phase", "registry">>
  /\ StartPart!AfterPhase("registry") = <<"phase", "metadata">>
  /\ StartPart!AfterPhase("metadata") = <<"mark", "strip">>
<1>1. Len(StartPart!Phases) = 3 /\ StartPart!Phases[1] = "files" /\ StartPart!Phases[2] = "registry" /\
          StartPart!Phases[3] = "metadata"
  BY DEF StartPart!Phases
<1>2. (CHOOSE j \in 1..Len(StartPart!Phases) : StartPart!Phases[j] = "files") = 1
  BY <1>1
<1>3. (CHOOSE j \in 1..Len(StartPart!Phases) : StartPart!Phases[j] = "registry") = 2
  BY <1>1
<1>4. (CHOOSE j \in 1..Len(StartPart!Phases) : StartPart!Phases[j] = "metadata") = 3
  BY <1>1
<1>5. QED
  BY <1>1, <1>2, <1>3, <1>4 DEF StartPart!AfterPhase

(* Some steps of a start. *)
LEMMA StepsHave ==
  /\ StartPart!Up \in StartSteps
  /\ <<"once", "v2">> \in StartSteps /\ <<"once", "v3">> \in StartSteps /\ <<"once", "strip">> \in StartSteps
  /\ <<"phase", "files">> \in StartSteps /\ <<"phase", "registry">> \in StartSteps
  /\ <<"phase", "metadata">> \in StartSteps /\ <<"mark", "strip">> \in StartSteps
<1>1. StartPart!Up \in StartSteps
  BY DEF StartSteps
<1>2. \A s \in {"v2", "v3", "strip"} : <<"once", s>> \in StartSteps
  BY DEF StartSteps
<1>3. \A s \in {"files", "registry", "metadata"} : <<"phase", s>> \in StartSteps
  BY DEF StartSteps
<1>4. <<"mark", "strip">> \in StartSteps
  BY DEF StartSteps, StartNames
<1>5. QED
  BY <1>1, <1>2, <1>3, <1>4

(* Every step keeps the types. *)
LEMMA StartStepTyped == ASSUME StartTyped, StartPart!Next \/ UNCHANGED start_vars PROVE StartTyped'
<1> USE DEF StartTyped, StartPart!After, StartPart!legacy, StartPart!store, StartPart!Tables, StartNames,
        Layouts, StartPart!Missing, StartPart!Up, StartPart!Down
<1>1. CASE StartPart!Schema
  BY <1>1 DEF StartPart!Schema, StartSteps, StartPart!Later
<1>2. CASE StartPart!Crash
  BY <1>2 DEF StartPart!Crash, StartSteps
<1>3. ASSUME NEW t \in StartPart!Tables, StartPart!Inspect(t) PROVE StartTyped'
  BY <1>3 DEF StartPart!Inspect, StartPart!Then, StartSteps
<1>4. ASSUME NEW t \in StartPart!Tables, StartPart!CreateNew(t) PROVE StartTyped'
  BY <1>4 DEF StartPart!CreateNew, StartSteps
<1>5. ASSUME NEW t \in StartPart!Tables, StartPart!InsertNew(t) PROVE StartTyped'
  <2>1. <<"drop", t>> \in StartSteps /\ StartPart!Down \in StartSteps
    BY DEF StartSteps
  <2>2. CASE start_pc' = StartPart!Down
    BY <1>5, <2>1, <2>2 DEF StartPart!InsertNew
  <2>3. CASE start_pc' # StartPart!Down
    <3>1. start_tmp' = [start_tmp EXCEPT ![t] = start_tmp[t] \union start_tbl[t].rows] /\
              start_pc' = <<"drop", t>>
      BY <1>5, <2>3 DEF StartPart!InsertNew
    <3>2. start_tmp' \in [StartPart!Tables -> SUBSET (OldRows \cup {0})]
      BY <3>1
    <3>3. QED
      BY <1>5, <2>1, <3>1, <3>2 DEF StartPart!InsertNew
  <2>4. QED
    BY <2>2, <2>3
<1>6. ASSUME NEW t \in StartPart!Tables, StartPart!DropOld(t) PROVE StartTyped'
  <2>1. start_pc' \in StartSteps
    BY <1>6 DEF StartPart!DropOld, StartSteps
  <2>2. start_tbl' \in [StartPart!Tables -> [layout : Layouts, rows : SUBSET (OldRows \cup {0})]]
    BY <1>6 DEF StartPart!DropOld
  <2>3. QED
    BY <1>6, <2>1, <2>2 DEF StartPart!DropOld
<1>7. ASSUME NEW t \in StartPart!Tables, StartPart!RenameNew(t) PROVE StartTyped'
  <2>1. start_pc' \in StartSteps
    BY <1>7 DEF StartPart!RenameNew, StartPart!Then, StartSteps
  <2>2. start_tbl' \in [StartPart!Tables -> [layout : Layouts, rows : SUBSET (OldRows \cup {0})]]
    BY <1>7 DEF StartPart!RenameNew
  <2>3. QED
    BY <1>7, <2>1, <2>2 DEF StartPart!RenameNew
<1>8. ASSUME NEW name, NEW then \in StartSteps, name \in StartNames, StartPart!Mark(name,
          then) PROVE StartTyped'
  BY <1>8 DEF StartPart!Mark
<1>9. ASSUME NEW name \in {"v2", "v3"}, NEW column \in StartPart!Later, NEW then \in StartSteps,
          StartPart!AddColumn(name, column, then)
      PROVE  StartTyped'
  <2>1. <<"mark", name>> \in StartSteps
    BY DEF StartSteps
  <2>2. QED
    BY <1>9, <2>1 DEF StartPart!AddColumn
<1>10. CASE StartPart!Strip \/ StartPart!FilesRenamed \/ StartPart!UpdateRegistry \/
           StartPart!UpdateFilesMetadata
  <2>1. CASE StartPart!Strip
    <3>1. start_pc' \in {StartPart!Up, <<"phase", "files">>}
      BY <2>1, PhaseOrder DEF StartPart!Strip
    <3>2. QED
      BY <2>1, <3>1, StepsHave DEF StartPart!Strip
  <2>2. CASE StartPart!FilesRenamed
    BY <2>2, PhaseOrder, StepsHave DEF StartPart!FilesRenamed
  <2>3. CASE StartPart!UpdateRegistry
    BY <2>3, PhaseOrder, StepsHave DEF StartPart!UpdateRegistry
  <2>4. CASE StartPart!UpdateFilesMetadata
    BY <2>4, PhaseOrder, StepsHave DEF StartPart!UpdateFilesMetadata
  <2>5. QED
    BY <1>10, <2>1, <2>2, <2>3, <2>4
<1>11. ASSUME NEW f, StartPart!RenameFile(f) PROVE StartTyped'
  BY <1>11 DEF StartPart!RenameFile
<1>12. CASE UNCHANGED start_vars
  BY <1>12 DEF start_vars
<1>13. "api_key_id" \in StartPart!Later /\ "storage_backend" \in StartPart!Later
  BY DEF StartPart!Later
<1>14. QED
  BY <1>1, <1>2, <1>3, <1>4, <1>5, <1>6, <1>7, <1>8, <1>9, <1>10, <1>11, <1>12, <1>13,
      StepsHave DEF StartPart!Next

-----------------------------------------------------------------------------
(* A step that comes before the files are renamed, or stays after that, keeps their names. *)
LEMMA NamedStays ==
  ASSUME FilesNamed, UNCHANGED <<start_registry, start_disk>>,
         "strip" \in start_applied' => "strip" \in start_applied \/ start_pc = <<"mark", "strip">>,
         start_pc' \in Renamed => \/ start_pc \in Renamed \ {<<"phase", "registry">>}
                                  \/ "strip" \in start_applied
  PROVE  FilesNamed'
<1>1. start_pc' \in Renamed \/ "strip" \in start_applied' =>
          start_pc \in Renamed \ {<<"phase", "registry">>} \/ "strip" \in start_applied
  BY DEF Renamed
<1>2. /\ \A d \in DOMAIN start_registry : start_registry[d] \in {"", "D-"}
      /\ \A d \in DOMAIN start_registry, s \in StartPart!Suffixes :
           File(d, s, start_registry[d]) \in start_disk \/ File(d, s, "") \in start_disk
  BY DEF FilesNamed
<1>3. start_pc \in Renamed \ {<<"phase", "registry">>} \/ "strip" \in start_applied =>
        /\ \A d \in DOMAIN start_registry : start_registry[d] = ""
        /\ \A d \in DOMAIN start_registry, s \in StartPart!Suffixes : File(d, s, "") \in start_disk
  BY DEF FilesNamed
<1>4. QED
  BY <1>1, <1>2, <1>3 DEF FilesNamed

(* Renaming a file changes its name only. *)
LEMMA NewName ==
  ASSUME NEW N, NEW S, NEW O, NEW f \in [name : N, suf : S, of : O], NEW m
  PROVE  [f EXCEPT !.name = m] = [name |-> m, suf |-> f.suf, of |-> f.of]
OBVIOUS

(* A file without its prefix is no file of another database. *)
LEMMA RenameNamed == ASSUME FilesNamed, NEW f, StartPart!RenameFile(f) PROVE FilesNamed'
<1>1. f \in start_disk /\ f.name[1] = "D-" /\ UNCHANGED <<start_pc, start_registry, start_applied>>
  BY DEF StartPart!RenameFile, StartPart!ToRename, StartPart!store
<1>2. PICK d \in OldDbs, s \in StartPart!Suffixes : f = File(d, s, "D-")
  <2>1. PICK d \in OldDbs, s \in StartPart!Suffixes, p \in {"", "D-"} : f = File(d, s, p)
    BY <1>1 DEF FilesNamed
  <2>2. p = "D-"
    BY <1>1, <2>1 DEF File
  <2>3. QED
    BY <2>1, <2>2
<1>3. [f EXCEPT !.name = StartPart!Stripped(f.name)] = File(d, s, "")
  <2>1. f = [name |-> <<"D-", d>>, suf |-> s, of |-> d]
    BY <1>2 DEF File
  <2>2. f \in [name : {<<"D-", d>>}, suf : {s}, of : {d}] /\ f.suf = s /\ f.of = d
    BY <2>1
  <2>3. StartPart!Stripped(f.name) = <<"", d>>
    BY <2>1 DEF StartPart!Stripped
  <2>4. [f EXCEPT !.name = StartPart!Stripped(f.name)]
          = [name |-> StartPart!Stripped(f.name), suf |-> f.suf, of |-> f.of]
    BY <2>2, NewName
  <2>5. QED
    BY <2>2, <2>3, <2>4 DEF File
<1>4. StartPart!Stripped(f.name) = <<"", d>> /\ f.suf = s
  BY <1>2 DEF File, StartPart!Stripped
<1>5. start_disk' = {g \in start_disk \ {f} : ~(g.name = <<"", d>> /\ g.suf = s)} \union {File(d, s, "")}
  BY <1>3, <1>4 DEF StartPart!RenameFile
<1>6. ASSUME NEW e \in OldDbs, NEW u \in StartPart!Suffixes, NEW p \in {"", "D-"}, File(e, u,
          p) \in start_disk
      PROVE  File(e, u, p) \in start_disk' \/ (e = d /\ u = s /\ p = "D-")
  BY <1>2, <1>5, <1>6 DEF File
<1>7. \A g \in start_disk' : \E e \in OldDbs, u \in StartPart!Suffixes, p \in {"", "D-"} : g = File(e, u, p)
  BY <1>2, <1>5 DEF FilesNamed
<1>8. File(d, s, "") \in start_disk'
  BY <1>5
<1>9. \A e \in DOMAIN start_registry, u \in StartPart!Suffixes :
        File(e, u, start_registry[e]) \in start_disk' \/ File(e, u, "") \in start_disk'
  BY <1>6, <1>8 DEF FilesNamed
<1>10. \A e \in DOMAIN start_registry, u \in StartPart!Suffixes : File(e, u, "") \in start_disk => File(e,
           u, "") \in start_disk'
  BY <1>6 DEF FilesNamed
<1>11. QED
  BY <1>1, <1>7, <1>9, <1>10 DEF FilesNamed

(* When no file is left to rename, every database has its file without prefix. *)
LEMMA AllRenamed ==
  ASSUME FilesNamed, StartPart!ToRename = {}, NEW d \in DOMAIN start_registry, NEW s \in StartPart!Suffixes
  PROVE  File(d, s, "") \in start_disk
<1>1. CASE start_registry[d] = "D-"
  <2>1. File(d, s, "D-") \notin start_disk
    <3>1. File(d, s, "D-").name = <<start_registry[d], d>> /\ File(d, s, "D-").name[1] = "D-"
      BY <1>1 DEF File
    <3>2. QED
      BY <3>1 DEF StartPart!ToRename
  <2>2. QED
    BY <1>1, <2>1 DEF FilesNamed
<1>2. CASE start_registry[d] = ""
  BY <1>2 DEF FilesNamed
<1>3. QED
  BY <1>1, <1>2 DEF FilesNamed

(* Every step keeps names and files together. *)
LEMMA StepNamed == ASSUME StartTyped, FilesNamed, StartPart!Next \/ UNCHANGED start_vars PROVE FilesNamed'
<1> USE DEF StartPart!After, StartPart!legacy, StartPart!store, StartPart!Tables, StartNames,
        StartPart!Up, StartPart!Down
<1>1. ASSUME start_pc' \notin Renamed, UNCHANGED <<start_registry, start_disk,
          start_applied>> PROVE FilesNamed'
  BY <1>1, NamedStays
<1>2. CASE StartPart!Schema
  BY <1>1, <1>2 DEF StartPart!Schema, Renamed
<1>3. CASE StartPart!Crash
  BY <1>1, <1>3 DEF StartPart!Crash, Renamed
<1>4. ASSUME NEW t \in StartPart!Tables, StartPart!Inspect(t) \/ StartPart!CreateNew(t) \/
          StartPart!InsertNew(t) \/ StartPart!DropOld(t) \/ StartPart!RenameNew(t)
      PROVE  FilesNamed'
  <2>1. StartPart!Then(t) \notin Renamed
    BY DEF StartPart!Then, Renamed
  <2>2. CASE StartPart!Inspect(t)
    BY <1>1, <2>1, <2>2 DEF StartPart!Inspect, Renamed
  <2>3. CASE StartPart!CreateNew(t)
    BY <1>1, <2>3 DEF StartPart!CreateNew, Renamed
  <2>4. CASE StartPart!InsertNew(t)
    <3>1. UNCHANGED <<start_registry, start_disk, start_applied>>
      BY <2>4 DEF StartPart!InsertNew
    <3>2. start_pc' = <<"drop", t>> \/ start_pc' = StartPart!Down
      <4>1. CASE start_tmp[t] \intersect start_tbl[t].rows = {}
        BY <2>4, <4>1 DEF StartPart!InsertNew
      <4>2. CASE start_tmp[t] \intersect start_tbl[t].rows # {}
        BY <2>4, <4>2 DEF StartPart!InsertNew
      <4>3. QED
        BY <4>1, <4>2
    <3>3. <<"drop", t>> \notin Renamed /\ StartPart!Down \notin Renamed
      BY DEF Renamed
    <3>4. QED
      BY <1>1, <3>1, <3>2, <3>3
  <2>5. CASE StartPart!DropOld(t)
    BY <1>1, <2>5 DEF StartPart!DropOld, Renamed
  <2>6. CASE StartPart!RenameNew(t)
    BY <1>1, <2>1, <2>6 DEF StartPart!RenameNew
  <2>7. QED
    BY <1>4, <2>2, <2>3, <2>4, <2>5, <2>6
<1>5. ASSUME NEW name \in StartNames \ {"strip"}, NEW then, then \notin Renamed, StartPart!Mark(name,
          then) PROVE FilesNamed'
  BY <1>5, NamedStays DEF StartPart!Mark
<1>5a. CASE StartPart!Mark("strip", StartPart!Up)
  BY <1>5a, NamedStays DEF StartPart!Mark, Renamed
<1>5b. ASSUME NEW name \in {"v2", "v3"}, NEW column, NEW then, then \notin Renamed,
StartPart!AddColumn(name, column, then)
      PROVE  FilesNamed'
  <2>1. <<"mark", name>> \notin Renamed
    BY DEF Renamed
  <2>2. start_pc' \notin Renamed /\ UNCHANGED <<start_registry, start_disk, start_applied>>
    BY <1>5b, <2>1 DEF StartPart!AddColumn
  <2>3. QED
    BY <1>1, <2>2
<1>6. CASE StartPart!Strip
  BY <1>6, NamedStays, PhaseOrder DEF StartPart!Strip, Renamed
<1>7. CASE StartPart!FilesRenamed
  <2>1. StartPart!ToRename = {} /\ start_pc' = <<"phase", "registry">> /\ start_pc = <<"phase", "files">>
        /\ UNCHANGED <<start_registry, start_disk, start_applied>>
    BY <1>7, PhaseOrder DEF StartPart!FilesRenamed
  <2>2. \A d \in DOMAIN start_registry, s \in StartPart!Suffixes : File(d, s, "") \in start_disk
    BY <2>1, AllRenamed
  <2>3. QED
    BY <2>1, <2>2 DEF FilesNamed, Renamed
<1>8. CASE StartPart!UpdateRegistry
  <2>1. /\ start_pc = <<"phase", "registry">> /\ start_registry' = [d \in DOMAIN start_registry |-> ""]
        /\ UNCHANGED <<start_disk, start_applied>>
    BY <1>8 DEF StartPart!UpdateRegistry
  <2>2. \A d \in DOMAIN start_registry, s \in StartPart!Suffixes : File(d, s, "") \in start_disk
    BY <2>1 DEF FilesNamed, Renamed
  <2>3. QED
    BY <2>1, <2>2 DEF FilesNamed
<1>9. CASE StartPart!UpdateFilesMetadata
  BY <1>9, NamedStays, PhaseOrder DEF StartPart!UpdateFilesMetadata, Renamed
<1>10. ASSUME NEW f, StartPart!RenameFile(f) PROVE FilesNamed'
  BY <1>10, RenameNamed
<1>11. CASE UNCHANGED start_vars
  BY <1>11 DEF start_vars, FilesNamed
<1>12. \A s \in {"v2", "v3", "strip"} : <<"once", s>> \notin Renamed
  BY DEF Renamed
<1>13. QED
  BY <1>2, <1>3, <1>4, <1>5, <1>6, <1>7, <1>8, <1>9, <1>10, <1>11, <1>12, <1>5a, <1>5b DEF StartPart!Next
-----------------------------------------------------------------------------
(* No step of a start is about table u. *)
Elsewhere(u) == \A x \in Rebuilding : start_pc # <<x, u>>

(* A table is left alone by the steps about the other one. *)
LEMMA Rests ==
  ASSUME NEW u \in StartPart!Tables, Moving(u), Elsewhere(u), Elsewhere(u)', start_pc # <<"schema", "">>,
         start_tbl'[u] = start_tbl[u], start_tmp'[u] = start_tmp[u], start_had' = start_had
  PROVE  Moving(u)'
<1>1. /\ start_pc # <<"rename", u>> /\ start_pc # <<"insert", u>> /\ start_pc # <<"drop", u>>
      /\ start_pc' # <<"rename", u>> /\ start_pc' # <<"insert", u>> /\ start_pc' # <<"drop", u>>
  BY DEF Elsewhere, Rebuilding
<1>2. /\ start_tbl[u].rows = start_had[u] /\ start_tbl[u].layout # "none"
      /\ start_tbl[u].layout = "new" => start_tmp[u] = StartPart!Missing
      /\ start_tbl[u].layout = "old" => start_tmp[u] \in {StartPart!Missing, {}}
  BY <1>1 DEF Moving
<1>3. \A x \in Rebuilding : start_pc' # <<x, u>>
  BY DEF Elsewhere
<1>4. QED
  BY <1>1, <1>2, <1>3 DEF Moving

(* A start goes through its steps in this order. *)
LEMMA Order ==
  /\ FromStrip \subseteq FromV3 /\ FromV3 \subseteq FromV2 /\ FromV2 \subseteq FromUnified
  /\ FromUnified \subseteq FromBuckets
  /\ <<"once", "strip">> \in FromStrip /\ <<"mark", "strip">> \in FromStrip /\ StartPart!Up \in FromStrip
  /\ <<"phase", "files">> \in FromStrip /\ <<"phase", "registry">> \in FromStrip
  /\ <<"phase", "metadata">> \in FromStrip
  /\ <<"once", "v3">> \in FromV3 /\ <<"mark", "v3">> \in FromV3
  /\ <<"once", "v2">> \in FromV2 /\ <<"mark", "v2">> \in FromV2
  /\ <<"mark", "unified">> \in FromUnified
  /\ \A x \in Works : <<x, "buckets">> \in FromBuckets
<1>1. FromStrip \subseteq FromV3 /\ FromV3 \subseteq FromV2 /\ FromV2 \subseteq FromUnified
      /\ FromUnified \subseteq FromBuckets
  BY DEF FromV3, FromV2, FromUnified, FromBuckets
<1>2. /\ <<"once", "strip">> \in FromStrip /\ <<"mark", "strip">> \in FromStrip /\ StartPart!Up \in FromStrip
      /\ <<"phase", "files">> \in FromStrip /\ <<"phase", "registry">> \in FromStrip
      /\ <<"phase", "metadata">> \in FromStrip
  BY DEF FromStrip
<1>3. /\ <<"once", "v3">> \in FromV3 /\ <<"mark", "v3">> \in FromV3
      /\ <<"once", "v2">> \in FromV2 /\ <<"mark", "v2">> \in FromV2
      /\ <<"mark", "unified">> \in FromUnified
  BY DEF FromV3, FromV2, FromUnified
<1>4. \A x \in Works : <<x, "buckets">> \in FromBuckets
  BY DEF FromBuckets
<1>5. QED
  BY <1>1, <1>2, <1>3, <1>4

(* What comes before does not belong to the steps from some point on. *)
LEMMA Before ==
  /\ <<"once", "v2">> \notin FromV3 /\ <<"mark", "v2">> \notin FromV3
  /\ <<"once", "v3">> \notin FromStrip /\ <<"mark", "v3">> \notin FromStrip
  /\ <<"mark", "unified">> \notin FromV2
  /\ \A x \in Works, t \in StartPart!Tables : <<x, t>> \notin FromUnified
  /\ \A x \in Works : <<x, "databases">> \notin FromBuckets
  /\ <<"schema", "">> \notin FromBuckets
<1>1. /\ <<"once", "v2">> \notin FromV3 /\ <<"mark", "v2">> \notin FromV3
      /\ <<"once", "v3">> \notin FromStrip /\ <<"mark", "v3">> \notin FromStrip
  BY DEF FromV3, FromStrip, StartPart!Up
<1>2. <<"mark", "unified">> \notin FromV2
  BY DEF FromV2, FromV3, FromStrip, StartPart!Up
<1>3. \A x \in Works, y \in StartPart!Tables : <<x, y>> \notin FromUnified
  BY DEF Works, Rebuilding, StartPart!Tables, FromUnified, FromV2, FromV3, FromStrip, StartPart!Up
<1>4. <<"schema", "">> \notin FromUnified
  BY DEF FromUnified, FromV2, FromV3, FromStrip, StartPart!Up
<1>5. \A x \in Works : <<x, "databases">> \notin FromBuckets
  BY <1>3 DEF FromBuckets, StartPart!Tables
<1>6. <<"schema", "">> \notin FromBuckets
  BY <1>4 DEF FromBuckets
<1>7. QED
  BY <1>1, <1>2, <1>3, <1>5, <1>6 DEF StartPart!Tables

(* The rows are where they were after a step that touches no table and is about none. *)
LEMMA StoreRests ==
  ASSUME \A t \in StartPart!Tables : Moving(t) /\ Elsewhere(t) /\ Elsewhere(t)',
         UNCHANGED <<start_tbl, start_tmp, start_had>>, start_pc # <<"schema", "">>
  PROVE  \A t \in StartPart!Tables : Moving(t)'
<1>1. ASSUME NEW t \in StartPart!Tables PROVE Moving(t)'
  BY <1>1, Rests
<1>2. QED
  BY <1>1

(* The tables created, or left as they are. *)
LEMMA SchemaMoves ==
  ASSUME StartTyped, Done, \A t \in StartPart!Tables : Moving(t), StartPart!Schema
  PROVE  Done' /\ \A t \in StartPart!Tables : Moving(t)'
<1>1. /\ start_pc = <<"schema", "">> /\ start_pc' = <<"inspect", "databases">> /\ UNCHANGED <<start_tmp,
           start_applied, start_had>>
      /\ start_tbl' = [t \in StartPart!Tables |->
           IF start_tbl[t].layout = "none" THEN [layout |-> "new", rows |-> {}] ELSE start_tbl[t]]
      /\ start_columns' = IF start_tbl["buckets"].layout = "none" THEN StartPart!Later ELSE start_columns
  BY DEF StartPart!Schema, StartPart!After, StartPart!legacy
<1>2. ASSUME NEW t \in StartPart!Tables PROVE Moving(t)'
  <2>1. Moving(t)
    OBVIOUS
  <2>2. /\ start_tbl[t].rows = start_had[t]
        /\ start_tbl[t].layout = "none" => start_had[t] = {} /\ start_tmp[t] = StartPart!Missing
        /\ start_tbl[t].layout = "new" => start_tmp[t] = StartPart!Missing
        /\ start_tbl[t].layout = "old" => start_tmp[t] \in {StartPart!Missing, {}}
    BY <1>1, <2>1 DEF Moving
  <2>3. /\ start_tbl'[t].rows = start_had'[t]
        /\ start_tbl'[t].layout # "none"
        /\ start_tbl'[t].layout = "new" => start_tmp'[t] = StartPart!Missing
        /\ start_tbl'[t].layout = "old" => start_tmp'[t] \in {StartPart!Missing, {}}
    <3>1. CASE start_tbl[t].layout = "none"
      <4>1. start_tbl'[t] = [layout |-> "new", rows |-> {}]
        BY <1>1, <3>1
      <4>2. QED
        BY <1>1, <2>2, <3>1, <4>1
    <3>2. CASE start_tbl[t].layout # "none"
      <4>1. start_tbl'[t] = start_tbl[t]
        BY <1>1, <3>2
      <4>2. QED
        BY <1>1, <2>2, <3>2, <4>1
    <3>3. QED
      BY <3>1, <3>2
  <2>4. \A x \in Rebuilding : start_pc' # <<x, t>>
    BY <1>1 DEF Rebuilding
  <2>5. QED
    BY <1>1, <2>3, <2>4 DEF Moving, Rebuilding
<1>3. \A t \in StartPart!Tables : start_tbl[t].layout = "new" => start_tbl'[t].layout = "new"
  BY <1>1
<1>4. start_columns \subseteq start_columns'
  BY <1>1 DEF StartTyped
<1>5. start_pc' \notin FromBuckets
  BY <1>1, Before DEF Works
<1>6. Done'
  BY <1>1, <1>3, <1>4, <1>5, Order DEF Done, StartPart!Down, StartPart!Tables
<1>7. QED
  BY <1>2, <1>6

(* The layout is looked at. *)
LEMMA InspectMoves ==
  ASSUME StartTyped, Done, \A u \in StartPart!Tables : Moving(u), NEW t \in StartPart!Tables,
      StartPart!Inspect(t)
  PROVE  Done' /\ \A u \in StartPart!Tables : Moving(u)'
<1>1. start_pc = <<"inspect", t>> /\ UNCHANGED <<start_tbl, start_tmp, start_columns, start_applied,
          start_had>>
  BY DEF StartPart!Inspect, StartPart!store, StartPart!legacy
<1>2. \A u \in StartPart!Tables : Elsewhere(u)
  BY <1>1 DEF Elsewhere, Rebuilding
<1>3. start_tbl[t].layout \in {"old", "new"}
  BY <1>1 DEF StartTyped, Moving, Layouts
<1>4. CASE "unified" \in start_applied
  <2>1. start_pc' = <<"once", "v2">>
    BY <1>4 DEF StartPart!Inspect, StartPart!After
  <2>2. \A u \in StartPart!Tables : Elsewhere(u)'
    BY <2>1 DEF Elsewhere, Rebuilding
  <2>3. \A u \in StartPart!Tables : Moving(u)'
    BY <1>1, <1>2, <2>2, StoreRests
  <2>4. Done'
    BY <1>1, <1>4, <2>1, Order, Before DEF Done, StartPart!Down
  <2>5. QED
    BY <2>3, <2>4
<1>5. CASE "unified" \notin start_applied /\ start_tbl[t].layout = "old"
  <2>1. start_pc' = <<"create", t>>
    BY <1>5 DEF StartPart!Inspect, StartPart!After
  <2>2. ASSUME NEW u \in StartPart!Tables, u # t PROVE Moving(u)'
    <3>1. Elsewhere(u)'
      BY <2>1, <2>2 DEF Elsewhere
    <3>2. QED
      BY <1>1, <1>2, <3>1, Rests
  <2>3. Moving(t)'
    BY <1>1, <1>5, <2>1 DEF Moving, Rebuilding
  <2>4. "create" \in Works /\ "inspect" \in Works
    BY DEF Works, Rebuilding
  <2>5. start_pc' \in FromBuckets => start_pc \in FromBuckets
    <3>1. CASE t = "databases"
      BY <2>1, <2>4, <3>1, Before
    <3>2. CASE t = "buckets"
      BY <1>1, <2>4, <3>2, Order
    <3>3. QED
      BY <3>1, <3>2 DEF StartPart!Tables
  <2>6. start_pc' \notin FromUnified
    BY <2>1, <2>4, Before
  <2>7. Done'
    BY <1>1, <1>5, <2>1, <2>5, <2>6, Order DEF Done, StartPart!Down
  <2>8. QED
    BY <2>2, <2>3, <2>7
<1>6. CASE "unified" \notin start_applied /\ start_tbl[t].layout = "new"
  <2>1. start_pc' = StartPart!Then(t)
    BY <1>6 DEF StartPart!Inspect, StartPart!After
  <2>2. \A u \in StartPart!Tables : Elsewhere(u)'
    BY <2>1 DEF Elsewhere, Rebuilding, StartPart!Then
  <2>3. \A u \in StartPart!Tables : Moving(u)'
    BY <1>1, <1>2, <2>2, StoreRests
  <2>4. "inspect" \in Works
    BY DEF Works
  <2>5. CASE t = "databases"
    <3>1. start_pc' = <<"inspect", "buckets">> /\ start_pc' \notin FromUnified
      BY <2>1, <2>4, <2>5, Before DEF StartPart!Then, StartPart!Tables
    <3>2. QED
      BY <1>1, <1>6, <2>3, <2>5, <3>1, Order DEF Done, StartPart!Down
  <2>6. CASE t = "buckets"
    <3>1. start_pc' = <<"mark", "unified">> /\ start_pc' \notin FromV2 /\ start_pc \in FromBuckets
      BY <1>1, <2>1, <2>4, <2>6, Order, Before DEF StartPart!Then
    <3>2. start_pc' # <<"mark", "v2">> /\ start_pc' # <<"mark", "v3">> /\ start_pc' # StartPart!Down
      BY <3>1 DEF StartPart!Down
    <3>3. QED
      BY <1>1, <1>6, <2>3, <2>6, <3>1, <3>2, Order DEF Done
  <2>7. QED
    BY <2>5, <2>6 DEF StartPart!Tables
<1>7. QED
  BY <1>3, <1>4, <1>5, <1>6

(* A rebuild of a table is before unified, and leaves what comes before it alone. *)
LEMMA RebuildDone ==
  ASSUME Done, \A u \in StartPart!Tables : Moving(u), NEW t \in StartPart!Tables, NEW x \in Works,
      NEW y \in Works,
         start_pc = <<x, t>>, start_pc' = <<y, t>>, "unified" \notin start_applied,
         \A u \in StartPart!Tables : u # t => start_tbl'[u] = start_tbl[u], UNCHANGED <<start_columns,
         start_applied>>
  PROVE  Done'
<1>1. start_applied = {}
  BY Zenon DEF Done
<1>2. start_pc' \notin FromUnified
  BY Before
<1>3. start_pc' \in FromBuckets => t = "buckets" /\ start_pc \in FromBuckets
  BY Order, Before DEF StartPart!Tables
<1>4. "databases" \in StartPart!Tables
  BY DEF StartPart!Tables
<1>5. start_pc' \in FromBuckets => start_tbl'["databases"].layout = "new"
  BY <1>3, <1>4 DEF Done
<1>6. /\ start_pc' # <<"mark", "v2">> /\ start_pc' # <<"mark", "v3">> /\ start_pc' # StartPart!Down
  BY DEF StartPart!Down, Works, Rebuilding
<1>7. QED
  BY <1>1, <1>2, <1>5, <1>6, Order DEF Done

(* Creating the new table, unless a start that was killed has left one. *)
LEMMA CreateMoves ==
  ASSUME StartTyped, Done, \A u \in StartPart!Tables : Moving(u), NEW t \in StartPart!Tables,
      StartPart!CreateNew(t)
  PROVE  Done' /\ \A u \in StartPart!Tables : Moving(u)'
<1>1. /\ start_pc = <<"create", t>> /\ start_pc' = <<"insert", t>> /\ UNCHANGED <<start_tbl,
           start_columns, start_applied, start_had>>
      /\ start_tmp' = [start_tmp EXCEPT ![t] = IF start_tmp[t] = StartPart!Missing THEN {} ELSE start_tmp[t]]
  BY DEF StartPart!CreateNew, StartPart!After, StartPart!legacy
<1>2. start_tbl[t].layout = "old" /\ start_tbl[t].rows = start_had[t] /\
          start_tmp[t] \in {StartPart!Missing, {}} /\ "unified" \notin start_applied
  BY <1>1 DEF Moving, Rebuilding
<1>3. start_tmp'[t] = {} /\ \A u \in StartPart!Tables : u # t => start_tmp'[u] = start_tmp[u]
  BY <1>1, <1>2 DEF StartTyped
<1>4. Moving(t)'
  BY <1>1, <1>2, <1>3 DEF Moving, Rebuilding
<1>5. ASSUME NEW u \in StartPart!Tables, u # t PROVE Moving(u)'
  <2>1. Elsewhere(u) /\ Elsewhere(u)'
    BY <1>1, <1>5 DEF Elsewhere
  <2>2. QED
    BY <1>1, <1>3, <1>5, <2>1, Rests
<1>6. "create" \in Works /\ "insert" \in Works
  BY DEF Works, Rebuilding
<1>7. Done'
  BY <1>1, <1>2, <1>6, RebuildDone
<1>8. QED
  BY <1>4, <1>5, <1>7

(* Inserting the rows of the old table into the new one, which is empty. *)
LEMMA InsertMoves ==
  ASSUME StartTyped, Done, \A u \in StartPart!Tables : Moving(u), NEW t \in StartPart!Tables,
      StartPart!InsertNew(t)
  PROVE  Done' /\ \A u \in StartPart!Tables : Moving(u)'
<1>1. start_pc = <<"insert", t>> /\ UNCHANGED <<start_tbl, start_columns, start_applied, start_had>>
  BY DEF StartPart!InsertNew, StartPart!legacy
<1>2. start_tbl[t].layout = "old" /\ start_tbl[t].rows = start_had[t] /\ start_tmp[t] = {} /\
          "unified" \notin start_applied
  BY <1>1 DEF Moving, Rebuilding
<1>3. start_pc' = <<"drop", t>> /\
          start_tmp' = [start_tmp EXCEPT ![t] = start_tmp[t] \union start_tbl[t].rows]
  <2>1. start_tmp[t] \intersect start_tbl[t].rows = {}
    BY <1>2
  <2>2. QED
    BY <2>1 DEF StartPart!InsertNew, StartPart!After
<1>4. start_tmp'[t] = start_had[t] /\ \A u \in StartPart!Tables : u # t => start_tmp'[u] = start_tmp[u]
  BY <1>2, <1>3 DEF StartTyped
<1>5. Moving(t)'
  BY <1>1, <1>2, <1>3, <1>4 DEF Moving, Rebuilding
<1>6. ASSUME NEW u \in StartPart!Tables, u # t PROVE Moving(u)'
  <2>1. Elsewhere(u) /\ Elsewhere(u)'
    BY <1>1, <1>3, <1>6 DEF Elsewhere
  <2>2. QED
    BY <1>1, <1>4, <1>6, <2>1, Rests
<1>7. "insert" \in Works /\ "drop" \in Works
  BY DEF Works, Rebuilding
<1>8. Done'
  BY <1>1, <1>2, <1>3, <1>7, RebuildDone
<1>9. QED
  BY <1>5, <1>6, <1>8

(* Dropping the old table, of which the new one is a copy. *)
LEMMA DropMoves ==
  ASSUME StartTyped, Done, \A u \in StartPart!Tables : Moving(u), NEW t \in StartPart!Tables,
      StartPart!DropOld(t)
  PROVE  Done' /\ \A u \in StartPart!Tables : Moving(u)'
<1>1. /\ start_pc = <<"drop", t>> /\ start_pc' = <<"rename", t>> /\ UNCHANGED <<start_tmp, start_columns,
           start_applied, start_had>>
      /\ start_tbl' = [start_tbl EXCEPT ![t] = [layout |-> "none", rows |-> {}]]
  BY DEF StartPart!DropOld, StartPart!After, StartPart!legacy
<1>2. start_tbl[t].layout = "old" /\ start_tmp[t] = start_had[t] /\ "unified" \notin start_applied
  BY <1>1 DEF Moving, Rebuilding
<1>3. start_tbl'[t].layout = "none" /\ \A u \in StartPart!Tables : u # t => start_tbl'[u] = start_tbl[u]
  BY <1>1 DEF StartTyped
<1>4. Moving(t)'
  BY <1>1, <1>2, <1>3 DEF Moving, Rebuilding
<1>5. ASSUME NEW u \in StartPart!Tables, u # t PROVE Moving(u)'
  <2>1. Elsewhere(u) /\ Elsewhere(u)'
    BY <1>1, <1>5 DEF Elsewhere
  <2>2. QED
    BY <1>1, <1>3, <1>5, <2>1, Rests
<1>6. "drop" \in Works /\ "rename" \in Works
  BY DEF Works, Rebuilding
<1>7. Done'
  BY <1>1, <1>2, <1>3, <1>6, RebuildDone
<1>8. QED
  BY <1>4, <1>5, <1>7

(* The new table takes the name of the old one. *)
LEMMA RenameMoves ==
  ASSUME StartTyped, Done, \A u \in StartPart!Tables : Moving(u), NEW t \in StartPart!Tables,
      StartPart!RenameNew(t)
  PROVE  Done' /\ \A u \in StartPart!Tables : Moving(u)'
<1>1. /\ start_pc = <<"rename", t>> /\ start_pc' = StartPart!Then(t) /\ UNCHANGED <<start_applied, start_had>>
      /\ start_tbl' = [start_tbl EXCEPT ![t] = [layout |-> "new", rows |-> start_tmp[t]]]
      /\ start_tmp' = [start_tmp EXCEPT ![t] = StartPart!Missing]
      /\ start_columns' = IF t = "buckets" THEN {} ELSE start_columns
  BY DEF StartPart!RenameNew, StartPart!After, StartPart!legacy
<1>2. start_tmp[t] = start_had[t] /\ "unified" \notin start_applied
  BY <1>1 DEF Moving, Rebuilding
<1>3. /\ start_tbl'[t].layout = "new" /\ start_tbl'[t].rows = start_had[t] /\
           start_tmp'[t] = StartPart!Missing
      /\ \A u \in StartPart!Tables : u # t => start_tbl'[u] = start_tbl[u] /\ start_tmp'[u] = start_tmp[u]
  BY <1>1, <1>2 DEF StartTyped
<1>4. \A u \in StartPart!Tables : Elsewhere(u)'
  BY <1>1 DEF Elsewhere, Rebuilding, StartPart!Then
<1>5. Moving(t)'
  <2>1. start_pc' # <<"rename", t>> /\ start_pc' # <<"insert", t>> /\ start_pc' # <<"drop", t>>
    BY <1>4 DEF Elsewhere, Rebuilding
  <2>2. \A x \in Rebuilding : start_pc' # <<x, t>>
    BY <1>4 DEF Elsewhere
  <2>3. QED
    BY <1>1, <1>3, <2>1, <2>2 DEF Moving
<1>6. ASSUME NEW u \in StartPart!Tables, u # t PROVE Moving(u)'
  <2>1. Elsewhere(u) /\ start_pc # <<"schema", "">>
    BY <1>1, <1>6 DEF Elsewhere
  <2>2. QED
    BY <1>1, <1>3, <1>4, <1>6, <2>1, Rests
<1>7. start_applied = {}
  BY <1>2, Zenon DEF Done
<1>8. "rename" \in Works /\ "inspect" \in Works
  BY DEF Works, Rebuilding
<1>9. Done'
  <2>1. CASE t = "databases"
    <3>1. start_pc' = <<"inspect", "buckets">> /\ start_pc' \notin FromUnified
      BY <1>1, <1>8, <2>1, Before DEF StartPart!Then, StartPart!Tables
    <3>2. start_pc' # <<"mark", "v2">> /\ start_pc' # <<"mark", "v3">> /\ start_pc' # StartPart!Down
      BY <3>1 DEF StartPart!Down
    <3>3. QED
      BY <1>1, <1>3, <1>7, <2>1, <3>1, <3>2, Order DEF Done
  <2>2. CASE t = "buckets"
    <3>1. start_pc' = <<"mark", "unified">> /\ start_pc' \notin FromV2 /\ start_pc \in FromBuckets
      BY <1>1, <1>8, <2>2, Order, Before DEF StartPart!Then
    <3>2. start_pc' # <<"mark", "v2">> /\ start_pc' # <<"mark", "v3">> /\ start_pc' # StartPart!Down
      BY <3>1 DEF StartPart!Down
    <3>3. start_tbl'["databases"].layout = "new"
      BY <1>3, <2>2, <3>1 DEF Done, StartPart!Tables
    <3>4. QED
      BY <1>1, <1>3, <1>7, <2>2, <3>1, <3>2, <3>3, Order DEF Done
  <2>3. QED
    BY <2>1, <2>2 DEF StartPart!Tables
<1>10. QED
  BY <1>5, <1>6, <1>9

(* After the tables only columns are added, and steps are done and marked. *)
LEMMA LaterMoves ==
  ASSUME StartTyped, Done, \A u \in StartPart!Tables : Moving(u), UNCHANGED <<start_tbl, start_tmp,
      start_had>>,
         start_pc \in FromUnified, start_pc' \in FromV2, start_columns \subseteq start_columns',
         start_applied \subseteq start_applied', "unified" \in start_applied',
         "v2" \in start_applied' \/ start_pc' \in FromV3 \cup {<<"mark", "v2">>} =>
         "api_key_id" \in start_columns',
         "v3" \in start_applied' \/ start_pc' \in FromStrip \cup {<<"mark", "v3">>} =>
         "storage_backend" \in start_columns'
  PROVE  Done' /\ \A u \in StartPart!Tables : Moving(u)'
<1>1. ASSUME NEW s \in FromUnified, NEW u \in StartPart!Tables, NEW x \in Rebuilding PROVE s # <<x, u>>
  BY <1>1, Before DEF Works
<1>2. start_pc' \in FromUnified
  BY Order
<1>3. \A u \in StartPart!Tables : Elsewhere(u) /\ Elsewhere(u)'
  BY <1>1, <1>2 DEF Elsewhere
<1>4. start_pc # <<"schema", "">> /\ start_pc' # StartPart!Down
  <2>1. <<"schema", "">> \notin FromUnified /\ StartPart!Down \notin FromUnified
    BY DEF FromUnified, FromV2, FromV3, FromStrip, StartPart!Up, StartPart!Down
  <2>2. QED
    BY <1>2, <2>1, Zenon
<1>5. \A u \in StartPart!Tables : Moving(u)'
  BY <1>3, <1>4, StoreRests
<1>6. Done'
  BY <1>2, <1>4, Order DEF Done
<1>7. QED
  BY <1>5, <1>6

(* RunOnce marks what it did. *)
LEMMA MarkMoves ==
  ASSUME StartTyped, Done, \A u \in StartPart!Tables : Moving(u),
         \/ StartPart!Mark("unified", <<"once", "v2">>) \/ StartPart!Mark("v2", <<"once", "v3">>)
         \/ StartPart!Mark("v3", <<"once", "strip">>) \/ StartPart!Mark("strip", StartPart!Up)
  PROVE  Done' /\ \A u \in StartPart!Tables : Moving(u)'
<1> USE DEF StartPart!After, StartPart!store, StartPart!legacy
<1>1. CASE StartPart!Mark("unified", <<"once", "v2">>)
  BY <1>1, LaterMoves, Order, Before DEF StartPart!Mark, Done
<1>2. CASE StartPart!Mark("v2", <<"once", "v3">>)
  BY <1>2, LaterMoves, Order, Before DEF StartPart!Mark, Done
<1>3. CASE StartPart!Mark("v3", <<"once", "strip">>)
  BY <1>3, LaterMoves, Order, Before DEF StartPart!Mark, Done
<1>4. CASE StartPart!Mark("strip", StartPart!Up)
  BY <1>4, LaterMoves, Order, Before DEF StartPart!Mark, Done, StartPart!Up
<1>5. QED
  BY <1>1, <1>2, <1>3, <1>4

(* Adding the later columns, unless they are marked as added. *)
LEMMA ColumnMoves ==
  ASSUME StartTyped, Done, \A u \in StartPart!Tables : Moving(u),
         \/ StartPart!AddColumn("v2", "api_key_id", <<"once", "v3">>)
         \/ StartPart!AddColumn("v3", "storage_backend", <<"once", "strip">>)
  PROVE  Done' /\ \A u \in StartPart!Tables : Moving(u)'
<1> USE DEF StartPart!After, StartPart!legacy
<1>1. CASE StartPart!AddColumn("v2", "api_key_id", <<"once", "v3">>)
  <2>1. CASE "v2" \in start_applied
    <3>1. /\ start_pc = <<"once", "v2">> /\ start_pc' = <<"once", "v3">>
          /\ UNCHANGED <<start_tbl, start_tmp, start_columns, start_applied, start_had>>
      BY <1>1, <2>1 DEF StartPart!AddColumn
    <3>2. QED
      BY <2>1, <3>1, LaterMoves, Order, Before DEF Done
  <2>2. CASE "v2" \notin start_applied
    <3>1. /\ start_pc = <<"once", "v2">> /\ start_pc' = <<"mark", "v2">>
          /\ start_columns' = start_columns \union {"api_key_id"} /\ UNCHANGED <<start_tbl, start_tmp,
               start_applied, start_had>>
      BY <1>1, <2>2 DEF StartPart!AddColumn
    <3>2. start_pc' \notin FromStrip \cup {<<"mark", "v3">>} /\ start_pc' \in FromV2
      BY <3>1, Order, Before
    <3>3. QED
      BY <2>2, <3>1, <3>2, LaterMoves, Order DEF Done
  <2>3. QED
    BY <2>1, <2>2
<1>2. CASE StartPart!AddColumn("v3", "storage_backend", <<"once", "strip">>)
  BY <1>2, LaterMoves, Order, Before DEF StartPart!AddColumn, Done
<1>3. QED
  BY <1>1, <1>2

(* The phases of StripPrefixes, which leave store.db alone. *)
LEMMA StripMoves ==
  ASSUME StartTyped, Done, \A u \in StartPart!Tables : Moving(u), NEW f,
         StartPart!Strip \/ StartPart!RenameFile(f) \/ StartPart!FilesRenamed \/
         StartPart!UpdateRegistry \/ StartPart!UpdateFilesMetadata
  PROVE  Done' /\ \A u \in StartPart!Tables : Moving(u)'
<1>1. /\ start_pc \in FromStrip /\ start_pc' \in FromStrip
      /\ UNCHANGED <<start_tbl, start_tmp, start_columns, start_applied, start_had>>
  BY PhaseOrder, Order DEF StartPart!Strip, StartPart!RenameFile, StartPart!FilesRenamed,
      StartPart!UpdateRegistry, StartPart!UpdateFilesMetadata,
                          StartPart!After, StartPart!store, StartPart!legacy
<1>2. QED
  BY <1>1, LaterMoves, Order, Before DEF Done

(* Killed outside of a drop and a rename. *)
LEMMA CrashMoves ==
  ASSUME StartTyped, Done, \A u \in StartPart!Tables : Moving(u), StartPart!Crash, ~start_torn'
  PROVE  Done' /\ \A u \in StartPart!Tables : Moving(u)'
<1>1. /\ start_pc' = <<"schema", "">> /\ start_pc[1] \notin {"drop", "rename"}
      /\ UNCHANGED <<start_tbl, start_tmp, start_columns, start_applied, start_had>>
  BY DEF StartPart!Crash, StartPart!After, StartPart!store, StartPart!legacy
<1>2. ASSUME NEW u \in StartPart!Tables PROVE Moving(u)'
  <2>1. start_pc # <<"drop", u>> /\ start_pc # <<"rename", u>>
    <3>1. <<"drop", u>>[1] = "drop" /\ <<"rename", u>>[1] = "rename"
      OBVIOUS
    <3>2. QED
      BY <1>1, <3>1
  <2>2. /\ start_tbl[u].rows = start_had[u]
        /\ start_tbl[u].layout = "none" => start_had[u] = {} /\ start_tmp[u] = StartPart!Missing
        /\ start_tbl[u].layout = "new" => start_tmp[u] = StartPart!Missing
        /\ start_tbl[u].layout = "old" => start_tmp[u] \in {StartPart!Missing, {}}
    BY <2>1 DEF Moving
  <2>3. \A x \in Rebuilding : start_pc' # <<x, u>>
    BY <1>1 DEF Rebuilding, StartPart!Tables
  <2>4. start_pc' # <<"rename", u>> /\ start_pc' # <<"insert", u>> /\ start_pc' # <<"drop", u>>
    BY <1>1
  <2>5. QED
    BY <1>1, <2>2, <2>3, <2>4 DEF Moving
<1>3. start_pc' \notin FromBuckets /\ start_pc' # <<"mark", "v2">> /\ start_pc' # <<"mark", "v3">> /\
          start_pc' # StartPart!Down
  BY <1>1, Before DEF StartPart!Down
<1>4. Done'
  BY <1>1, <1>3, Order DEF Done
<1>5. QED
  BY <1>2, <1>4

(* Every step moves rows as said, unless a rebuild was killed half-way. *)
LEMMA StepMoved == ASSUME StartTyped, RowsMoved, StartPart!Next \/ UNCHANGED start_vars PROVE RowsMoved'
<1> SUFFICES ASSUME ~start_torn' PROVE Done' /\ \A t \in StartPart!Tables : Moving(t)'
  BY DEF RowsMoved
<1>1. ~start_torn
  <2>1. CASE StartPart!Crash
    BY <2>1 DEF StartPart!Crash
  <2>2. CASE ~StartPart!Crash /\ StartPart!Next
    BY <2>2 DEF StartPart!Next, StartPart!Schema, StartPart!Inspect, StartPart!CreateNew,
        StartPart!InsertNew, StartPart!DropOld, StartPart!RenameNew, StartPart!Mark, StartPart!AddColumn,
                StartPart!Strip, StartPart!RenameFile, StartPart!FilesRenamed, StartPart!UpdateRegistry,
                StartPart!UpdateFilesMetadata
  <2>3. QED
    BY <2>1, <2>2 DEF start_vars
<1>2. Done /\ \A t \in StartPart!Tables : Moving(t)
  BY <1>1 DEF RowsMoved
<1>3. CASE StartPart!Schema \/ StartPart!Crash
  BY <1>2, <1>3, SchemaMoves, CrashMoves
<1>4. ASSUME NEW t \in StartPart!Tables, StartPart!Inspect(t) \/ StartPart!CreateNew(t) \/
          StartPart!InsertNew(t) \/ StartPart!DropOld(t) \/ StartPart!RenameNew(t)
      PROVE  Done' /\ \A u \in StartPart!Tables : Moving(u)'
  BY <1>2, <1>4, InspectMoves, CreateMoves, InsertMoves, DropMoves, RenameMoves
<1>5. CASE \/ StartPart!Mark("unified", <<"once", "v2">>) \/ StartPart!Mark("v2", <<"once", "v3">>)
           \/ StartPart!Mark("v3", <<"once", "strip">>) \/ StartPart!Mark("strip", StartPart!Up)
  BY <1>2, <1>5, MarkMoves
<1>6. CASE \/ StartPart!AddColumn("v2", "api_key_id", <<"once", "v3">>)
           \/ StartPart!AddColumn("v3", "storage_backend", <<"once", "strip">>)
  BY <1>2, <1>6, ColumnMoves
<1>7. ASSUME NEW f, StartPart!Strip \/ StartPart!RenameFile(f) \/ StartPart!FilesRenamed \/
          StartPart!UpdateRegistry \/ StartPart!UpdateFilesMetadata
      PROVE  Done' /\ \A u \in StartPart!Tables : Moving(u)'
  BY <1>2, <1>7, StripMoves
<1>8. CASE UNCHANGED start_vars
  BY <1>2, <1>8 DEF start_vars, Done, Moving
<1>9. QED
  BY <1>3, <1>4, <1>5, <1>6, <1>7, <1>8 DEF StartPart!Next

-----------------------------------------------------------------------------
(* The data directory of an older version, before the start. *)
LEMMA StartInit == ASSUME 0 \notin OldRows, StartPart!Init PROVE StartInv
<1>1. StartTyped
  <2>1. start_pc \in StartSteps /\ start_columns \subseteq StartPart!Later /\
            start_applied \subseteq StartNames
    BY DEF StartPart!Init, StartSteps
  <2>2. /\ start_tbl \in [StartPart!Tables -> [layout : Layouts, rows : SUBSET (OldRows \cup {0})]]
        /\ start_had \in [StartPart!Tables -> SUBSET OldRows]
    <3>1. \A t \in StartPart!Tables : /\ start_tbl[t] \in [layout : Layouts, rows : SUBSET (OldRows \cup {0})]
                                      /\ start_tbl[t].rows \in SUBSET OldRows
      <4>1. start_tbl \in [StartPart!Tables ->
              {[layout |-> "none", rows |-> {}], [layout |-> "old", rows |-> OldRows]}]
        BY DEF StartPart!Init
      <4>2. QED
        BY <4>1 DEF Layouts
    <3>2. start_tbl = [t \in StartPart!Tables |-> start_tbl[t]] /\
              start_had = [t \in StartPart!Tables |-> start_tbl[t].rows]
      BY DEF StartPart!Init
    <3>3. QED
      BY <3>1, <3>2
  <2>3. start_tmp \in [StartPart!Tables -> SUBSET (OldRows \cup {0})]
    BY DEF StartPart!Init, StartPart!Missing
  <2>4. QED
    BY <2>1, <2>2, <2>3 DEF StartTyped
<1>2. RowsMoved
  <2>1. start_pc = <<"schema", "">> /\ start_applied = {}
    BY DEF StartPart!Init
  <2>2. ASSUME NEW t \in StartPart!Tables PROVE Moving(t)
    <3>1. /\ start_tbl[t].rows = start_had[t] /\ start_tmp[t] = StartPart!Missing
          /\ start_tbl[t] \in {[layout |-> "none", rows |-> {}], [layout |-> "old", rows |-> OldRows]}
      BY DEF StartPart!Init
    <3>2. start_tbl[t].layout = "none" => start_had[t] = {}
      BY <3>1
    <3>3. start_tbl[t].layout # "new"
      BY <3>1
    <3>4. start_pc # <<"rename", t>> /\ start_pc # <<"insert", t>> /\ start_pc # <<"drop", t>>
      BY <2>1
    <3>5. \A x \in Rebuilding : start_pc # <<x, t>>
      BY <2>1 DEF Rebuilding
    <3>6. QED
      BY <2>1, <3>1, <3>2, <3>3, <3>4, <3>5 DEF Moving
  <2>3. start_pc \notin FromBuckets /\ start_pc # <<"mark", "v2">> /\ start_pc # <<"mark", "v3">> /\
            start_pc # StartPart!Down
    BY <2>1, Before DEF StartPart!Down
  <2>4. Done
    BY <2>1, <2>3, Order DEF Done
  <2>5. QED
    BY <2>2, <2>4 DEF RowsMoved
<1>3. FilesNamed
  <2>1. PICK D \in SUBSET OldDbs : start_registry \in [D -> {"", "D-"}]
    <3>1. start_registry \in UNION {[D -> {"", "D-"}] : D \in SUBSET OldDbs}
      BY DEF StartPart!Init
    <3>2. PICK S \in {[D -> {"", "D-"}] : D \in SUBSET OldDbs} : start_registry \in S
      BY <3>1
    <3>3. QED
      BY <3>2
  <2>2. /\ \A f \in start_disk : \E d \in DOMAIN start_registry, s \in StartPart!Suffixes : f = File(d, s,
             start_registry[d])
        /\ \A d \in DOMAIN start_registry, s \in StartPart!Suffixes : File(d, s,
             start_registry[d]) \in start_disk
    <3>1. start_disk = StartPart!OldFiles
      BY DEF StartPart!Init
    <3>2. QED
      BY <3>1 DEF StartPart!OldFiles, File
  <2>3. start_pc \notin Renamed /\ "strip" \notin start_applied
    <3>1. start_pc = <<"schema", "">> /\ start_applied = {}
      BY DEF StartPart!Init
    <3>2. QED
      BY <3>1 DEF Renamed, StartPart!Up
  <2>4. DOMAIN start_registry \subseteq OldDbs /\
            \A d \in DOMAIN start_registry : start_registry[d] \in {"", "D-"}
    BY <2>1
  <2>5. ASSUME NEW f \in start_disk PROVE \E d \in OldDbs, s \in StartPart!Suffixes,
            p \in {"", "D-"} : f = File(d, s, p)
    <3>1. PICK d \in DOMAIN start_registry, s \in StartPart!Suffixes : f = File(d, s, start_registry[d])
      BY <2>2
    <3>2. d \in OldDbs /\ start_registry[d] \in {"", "D-"}
      BY <2>4
    <3>3. QED
      BY <3>1, <3>2
  <2>6. QED
    BY <2>2, <2>3, <2>4, <2>5 DEF FilesNamed
<1>4. QED
  BY <1>1, <1>2, <1>3 DEF StartInv

(* What the invariant is for. *)
LEMMA StartImplied == ASSUME StartInv PROVE StartPart!RowsAreMoved /\ StartPart!RowsAreSomewhere /\
StartPart!StartSucceeds /\ StartPart!RowsNameTheirFiles
<1>1. StartPart!RowsAreMoved
  <2> SUFFICES ASSUME start_pc = StartPart!Up, ~start_torn, NEW t \in StartPart!Tables
               PROVE  start_tbl[t].layout = "new" /\ start_tbl[t].rows = start_had[t] /\
                   start_tmp[t] = StartPart!Missing /\ start_columns = StartPart!Later
    BY DEF StartPart!RowsAreMoved
  <2>1. Done /\ Moving(t) /\ start_columns \subseteq StartPart!Later
    BY DEF StartInv, RowsMoved, StartTyped
  <2>2. start_tbl[t].layout = "new" /\ start_columns = StartPart!Later
    BY <2>1, Order DEF Done, StartPart!Later, StartPart!Tables
  <2>3. start_pc # <<"rename", t>>
    BY DEF StartPart!Up
  <2>4. QED
    BY <2>1, <2>2, <2>3 DEF Moving
<1>2. StartPart!RowsAreSomewhere
  <2> SUFFICES ASSUME ~start_torn, NEW t \in StartPart!Tables, start_tbl[t].layout = "none",
          start_pc[1] # "schema"
               PROVE  start_tmp[t] = start_had[t]
    BY DEF StartPart!RowsAreSomewhere
  <2>1. <<"schema", "">>[1] = "schema"
    OBVIOUS
  <2>2. start_pc # <<"schema", "">>
    BY <2>1
  <2>3. Moving(t)
    BY DEF StartInv, RowsMoved
  <2>4. QED
    BY <2>2, <2>3 DEF Moving
<1>3. StartPart!StartSucceeds
  BY DEF StartInv, RowsMoved, Done, StartPart!StartSucceeds
<1>4. StartPart!RowsNameTheirFiles
  <2> SUFFICES ASSUME start_pc = StartPart!Up, NEW d \in DOMAIN start_registry, NEW s \in StartPart!Suffixes
               PROVE  [name |-> <<start_registry[d], d>>, suf |-> s, of |-> d] \in start_disk
    BY DEF StartPart!RowsNameTheirFiles
  <2>1. StartPart!Up \in Renamed /\ StartPart!Up # <<"phase", "registry">>
    BY DEF Renamed, StartPart!Up
  <2>2. start_registry[d] = "" /\ File(d, s, "") \in start_disk
    BY <2>1 DEF StartInv, FilesNamed
  <2>3. QED
    BY <2>2 DEF File
<1>5. QED
  BY <1>1, <1>2, <1>3, <1>4

(* A step of the sum keeps what is said of the start. *)
LEMMA StartStep == ASSUME StartInv, StartPart!Next \/ UNCHANGED start_vars PROVE StartInv'
BY StartStepTyped, StepMoved, StepNamed DEF StartInv

-----------------------------------------------------------------------------
(* The pages of the databases *)

(* The requests in flight, and those of the page mounted. *)
Sent == {pages_reqs[k] : k \in DOMAIN pages_reqs}
Mine == {r \in Sent : r.mount = pages_mount}
ReadOf(p) == IF p = "settings" THEN "get" ELSE p

(* A deleted database has a slug that is no name. *)
Registry ==
  /\ pages_clock \in Nat
  /\ PagesPart!Live \subseteq DBNames /\ PagesPart!Dead \subseteq DBNames \X Nat
  /\ \A s \in DOMAIN pages_rows : pages_rows[s].name \in DBNames

(* The deleted databases are asked for by their names, and so refused. *)
IsRequest(r) ==
  /\ DOMAIN r = {"kind", "arg", "mount", "answer", "data", "version"}
  /\ r.mount \in Nat /\ r.mount <= pages_mount
  /\ r.version \in Nat /\ r.version <= pages_clock
  /\ r.kind = "create" => r.arg \in DBNames
  /\ r.kind \in {"restore", "erase"} => r.arg \in DBNames /\ r.answer # "ok"
  /\ r.kind = "deleted" /\ r.answer = "ok" => \A d \in r.data : d.name \in DBNames
  /\ r.answer \in {"none", "ok", "lost", "refused"}

(* What a page sends. *)
Belongs(r) ==
  /\ r.kind \in PagesPart!Reads => r.kind = ReadOf(pages_page) /\ r.arg = pages_at
  /\ r.kind \notin PagesPart!Reads =>
       \/ r.kind = "create" /\ pages_page \in {"home", "new"}
       \/ r.kind \in {"activate", "deactivate", "reset", "drop"} /\ pages_page = "settings" /\
            r.arg = pages_at /\ ~pages_loading
       \/ r.kind \in {"restore", "erase"} /\ pages_page = "deleted"

PagesTyped ==
  /\ pages_page \in PagesPart!Pages /\ pages_mount \in Nat /\ pages_seen \in Nat /\ pages_seen <= pages_clock
  /\ pages_reqs \in Seq(Sent)
  /\ \A r \in Sent : IsRequest(r)
  /\ \A r \in Mine : Belongs(r)
  /\ pages_page = "deleted" /\ pages_data # Nothing /\ pages_data # Broken =>
       \A d \in pages_data : d.name \in DBNames
  /\ pages_page \in {"home", "deleted"} => pages_at = Nothing
  /\ pages_mixed => pages_page = "deleted"

(* Two requests j and k of the page are not of the same button. *)
Apart(j, k) ==
  /\ pages_reqs[j].mount = pages_mount /\ pages_reqs[k].mount = pages_mount /\
       pages_reqs[j].kind \notin PagesPart!Reads
  /\ pages_page \in {"new", "settings"} => PagesPart!Button(pages_reqs[j]) = PagesPart!Button(pages_reqs[k])
  => j = k

Disabled ==
  /\ pages_page \in {"new", "settings"} => \A r \in Mine : r.kind \notin PagesPart!Reads =>
       PagesPart!Button(r) \in pages_busy
  /\ pages_page # "home" /\ ~pages_mixed => \A j, k \in DOMAIN pages_reqs : Apart(j, k)

Status(kind) == IF kind = "activate" THEN "active" ELSE "inactive"
ToLeave(r) == r.kind \in {"create", "drop"} /\ r.answer = "ok"
ToRead(r) == r.kind \in PagesPart!Reads /\ (r.answer # "ok" \/ r.version = pages_clock)
Toggled(r) == r.kind \in {"activate", "deactivate"} /\ r.answer = "ok"

(* After it the page is another, is read again, or shows what is so now. *)
OnItsWay == \E r \in Mine : ToLeave(r) \/ ToRead(r)

(* Answers that would show what is past are known by their version. *)
ReadsKnown ==
  \A r \in Mine : r.kind \in PagesPart!Reads /\ r.answer = "ok" =>
    /\ \/ r.data = PagesPart!View(pages_page, pages_at) \/ r.version < pages_seen \/ OnItsWay
       \/ \E t \in Mine : Toggled(t) /\ r.version < t.version
    /\ r.version = pages_clock => r.data = PagesPart!View(pages_page, pages_at)

TogglesKnown ==
  \A t \in Mine : Toggled(t) =>
    (\E r \in Mine : ToLeave(r)) \/ (pages_at \in DOMAIN pages_rows /\
        pages_rows[pages_at].status = Status(t.kind))

ShownOrComing == (pages_data = PagesPart!View(pages_page, pages_at) /\ ~pages_loading) \/ OnItsWay \/
    \E t \in Mine : Toggled(t)

Fresh ==
  /\ ReadsKnown /\ TogglesKnown /\ ShownOrComing
  /\ \A r \in Sent : r.kind \notin PagesPart!Reads => r.mount = pages_mount

PagesInv == Registry /\ PagesTyped /\ Disabled /\ (pages_orderly /\ pages_page # "new" => Fresh)

-----------------------------------------------------------------------------
(* What is left of a sequence. *)
LEMMA Removal ==
  ASSUME NEW S, NEW s \in Seq(S), NEW k \in 1..Len(s)
  PROVE  /\ PagesPart!RemoveAt(s, k) \in Seq(S) /\ Len(PagesPart!RemoveAt(s, k)) = Len(s) - 1
         /\ \A j \in 1..(Len(s) - 1) : PagesPart!RemoveAt(s, k)[j] = IF j < k THEN s[j] ELSE s[j + 1]
<1> DEFINE a == SubSeq(s, 1, k - 1)
           b == SubSeq(s, k + 1, Len(s))
<1>1. a \in Seq(S) /\ Len(a) = k - 1 /\ \A j \in 1..(k - 1) : a[j] = s[j]
  OBVIOUS
<1>2. b \in Seq(S) /\ Len(b) = Len(s) - k /\ \A j \in 1..(Len(s) - k) : b[j] = s[k + j]
  OBVIOUS
<1>3. PagesPart!RemoveAt(s, k) = a \o b
  BY DEF PagesPart!RemoveAt
<1> HIDE DEF a, b
<1>4. /\ a \o b \in Seq(S) /\ Len(a \o b) = Len(a) + Len(b)
      /\ \A j \in 1..(Len(a) + Len(b)) : (a \o b)[j] = IF j <= Len(a) THEN a[j] ELSE b[j - Len(a)]
  BY <1>1, <1>2, ConcatProperties
<1>5. ASSUME NEW j \in 1..(Len(s) - 1) PROVE (a \o b)[j] = IF j < k THEN s[j] ELSE s[j + 1]
  <2>1. CASE j < k
    BY <1>1, <1>2, <1>4, <2>1
  <2>2. CASE j >= k
    <3>1. (a \o b)[j] = b[j - (k - 1)] /\ j - (k - 1) \in 1..(Len(s) - k)
      <4>1. j \in 1..(Len(a) + Len(b)) /\ ~(j <= Len(a)) /\ Len(a) = k - 1
        BY <1>1, <1>2, <2>2
      <4>2. QED
        BY <1>4, <2>2, <4>1
    <3>2. b[j - (k - 1)] = s[k + (j - (k - 1))]
      BY <1>2, <3>1
    <3>3. k + (j - (k - 1)) = j + 1 /\ ~(j < k)
      BY <2>2
    <3>4. (a \o b)[j] = s[j + 1]
      BY <3>1, <3>2, <3>3, Zenon
    <3>5. QED
      BY <3>3, <3>4
  <2>3. j < k \/ j >= k
    OBVIOUS
  <2>4. QED
    BY <2>1, <2>2, <2>3, Zenon
<1>6. Len(a \o b) = Len(s) - 1
  BY <1>1, <1>2, <1>4
<1>7. QED
  BY <1>3, <1>4, <1>5, <1>6

(* A sequence is one of its elements. *)
LEMMA OfItsElements == ASSUME NEW S, NEW s \in Seq(S) PROVE s \in Seq({s[j] : j \in DOMAIN s})
OBVIOUS

(* One request less. *)
LEMMA RequestGone ==
  ASSUME PagesTyped, NEW k \in DOMAIN pages_reqs, NEW t, t = PagesPart!RemoveAt(pages_reqs, k)
  PROVE  /\ t \in Seq(Sent)
         /\ \A r \in Sent : r # pages_reqs[k] => \E j \in DOMAIN t : t[j] = r
         /\ \E f \in [DOMAIN t -> DOMAIN pages_reqs] :
              /\ \A i, j \in DOMAIN t : f[i] = f[j] => i = j
              /\ \A j \in DOMAIN t : t[j] = pages_reqs[f[j]] /\ f[j] # k
<1>1. pages_reqs \in Seq(Sent) /\ k \in 1..Len(pages_reqs) /\ DOMAIN pages_reqs = 1..Len(pages_reqs) /\
          Len(pages_reqs) \in Nat
  BY DEF PagesTyped
<1>2. /\ t \in Seq(Sent) /\ Len(t) = Len(pages_reqs) - 1
      /\ \A j \in 1..(Len(pages_reqs) - 1) : t[j] = IF j < k THEN pages_reqs[j] ELSE pages_reqs[j + 1]
  BY <1>1, Removal
<1>3. DOMAIN t = 1..(Len(pages_reqs) - 1)
  BY <1>1, <1>2
<1> DEFINE f == [j \in DOMAIN t |-> IF j < k THEN j ELSE j + 1]
<1>4. /\ f \in [DOMAIN t -> DOMAIN pages_reqs]
      /\ \A i, j \in DOMAIN t : f[i] = f[j] => i = j
      /\ \A j \in DOMAIN t : t[j] = pages_reqs[f[j]] /\ f[j] # k
  BY <1>1, <1>2, <1>3
<1>5. ASSUME NEW r \in Sent, r # pages_reqs[k] PROVE \E j \in DOMAIN t : t[j] = r
  <2>1. PICK i \in 1..Len(pages_reqs) : r = pages_reqs[i]
    BY <1>1 DEF Sent
  <2>2. CASE i < k
    BY <1>1, <1>2, <1>3, <2>1, <2>2
  <2>3. CASE i > k
    <3>1. i - 1 \in DOMAIN t /\ t[i - 1] = pages_reqs[i]
      BY <1>1, <1>2, <1>3, <2>3
    <3>2. QED
      BY <2>1, <3>1
  <2>4. QED
    BY <1>1, <1>5, <2>1, <2>2, <2>3
<1> HIDE DEF f
<1>6. QED
  BY <1>2, <1>4, <1>5

(* One request more. *)
LEMMA RequestSent ==
  ASSUME NEW S, NEW s \in Seq(S), NEW e, pages_reqs' = Append(s, e)
  PROVE  /\ pages_reqs' \in Seq(Sent') /\ Sent' = {s[j] : j \in DOMAIN s} \cup {e}
         /\ DOMAIN pages_reqs' = DOMAIN s \cup {Len(s) + 1} /\ Len(s) + 1 \notin DOMAIN s
         /\ pages_reqs'[Len(s) + 1] = e
         /\ \A j \in DOMAIN s : pages_reqs'[j] = s[j]
<1>1. pages_reqs' \in Seq(S \cup {e}) /\ Len(pages_reqs') = Len(s) + 1 /\ Len(s) \in Nat
      /\ DOMAIN s = 1..Len(s) /\ DOMAIN pages_reqs' = 1..(Len(s) + 1)
      /\ pages_reqs'[Len(s) + 1] = e /\ \A j \in 1..Len(s) : pages_reqs'[j] = s[j]
  <2>1. s \in Seq(S \cup {e})
    OBVIOUS
  <2>2. QED
    BY <2>1
<1>2. DOMAIN pages_reqs' = DOMAIN s \cup {Len(s) + 1} /\ Len(s) + 1 \notin DOMAIN s
  BY <1>1
<1>3. Sent' = {s[j] : j \in DOMAIN s} \cup {e}
  BY <1>1, <1>2 DEF Sent
<1>4. pages_reqs' \in Seq(Sent')
  BY <1>1, <1>2 DEF Sent
<1>5. QED
  BY <1>1, <1>2, <1>3, <1>4

(* A request is answered. *)
LEMMA RequestAnswered ==
  ASSUME PagesTyped, NEW k \in DOMAIN pages_reqs, NEW e, pages_reqs' = [pages_reqs EXCEPT ![k] = e]
  PROVE  /\ pages_reqs' \in Seq(Sent') /\ Sent' \subseteq Sent \cup {e} /\ e \in Sent'
         /\ \A r \in Sent : r # pages_reqs[k] => r \in Sent'
         /\ DOMAIN pages_reqs' = DOMAIN pages_reqs /\ pages_reqs'[k] = e
         /\ \A j \in DOMAIN pages_reqs : j # k => pages_reqs'[j] = pages_reqs[j]
<1>1. pages_reqs \in Seq(Sent)
  BY DEF PagesTyped
<1>2. DOMAIN pages_reqs' = DOMAIN pages_reqs /\ pages_reqs'[k] = e /\
          \A j \in DOMAIN pages_reqs : j # k => pages_reqs'[j] = pages_reqs[j]
  OBVIOUS
<1>3. Sent' \subseteq Sent \cup {e} /\ e \in Sent'
  BY <1>2 DEF Sent
<1>4. \A r \in Sent : r # pages_reqs[k] => r \in Sent'
  BY <1>2 DEF Sent
<1>5. pages_reqs' \in Seq(Sent')
  <2>1. pages_reqs \in Seq(Sent \cup {e}) /\ k \in 1..Len(pages_reqs)
    BY <1>1
  <2>2. pages_reqs' \in Seq(Sent \cup {e})
    BY <2>1, ExceptSeq
  <2> DEFINE t == [pages_reqs EXCEPT ![k] = e]
  <2>3. t \in Seq(Sent \cup {e})
    BY <2>2
  <2> HIDE DEF t
  <2>4. t \in Seq({t[j] : j \in DOMAIN t})
    BY <2>3, OfItsElements
  <2>5. QED
    BY <2>4 DEF Sent, t
<1>6. QED
  BY <1>2, <1>3, <1>4, <1>5

-----------------------------------------------------------------------------
(* What a page shows depends on the registry and on which page it is. *)
LEMMA ViewKept ==
  ASSUME UNCHANGED <<pages_rows, pages_page, pages_at>>
  PROVE  PagesPart!View(pages_page, pages_at)' = PagesPart!View(pages_page, pages_at)
BY DEF PagesPart!View, PagesPart!Live, PagesPart!Dead

LEMMA RegistryKept == ASSUME Registry, UNCHANGED <<pages_rows, pages_clock>> PROVE Registry'
BY DEF Registry, PagesPart!Live, PagesPart!Dead

(* Dialogs and questions. *)
LEMMA DialogKeeps ==
  ASSUME PagesInv, UNCHANGED <<pages_rows, pages_clock, pages_page, pages_at, pages_mount, pages_data,
      pages_loading, pages_reqs, PagesPart!history>>,
         pages_busy' = pages_busy \/ pages_page = "home"
  PROVE  PagesInv'
<1>1. Registry' /\ PagesPart!View(pages_page, pages_at)' = PagesPart!View(pages_page, pages_at)
  BY RegistryKept, ViewKept DEF PagesInv
<1>2. Sent' = Sent /\ Mine' = Mine
  BY DEF Sent, Mine
<1>3. PagesTyped'
  BY <1>2 DEF PagesInv, PagesTyped, PagesPart!history, IsRequest, Belongs
<1>4. Disabled'
  BY <1>2 DEF PagesInv, Disabled, Apart, PagesPart!Button, PagesPart!history
<1>5. pages_orderly' /\ pages_page' # "new" => Fresh'
  BY <1>1, <1>2 DEF PagesInv, Fresh, ReadsKnown, TogglesKnown, ShownOrComing, OnItsWay, ToLeave, ToRead,
                    Toggled, PagesPart!history
<1>6. QED
  BY <1>1, <1>3, <1>4, <1>5 DEF PagesInv

(* A request of a button b that was not disabled. *)
LEMMA PressKeeps ==
  ASSUME PagesInv, NEW b, NEW kind, NEW arg, PagesPart!Press(b, kind, arg), kind \notin PagesPart!Reads,
         IsRequest(PagesPart!Request(kind, arg, pages_mount)), Belongs(PagesPart!Request(kind, arg,
             pages_mount)),
         PagesPart!Button(PagesPart!Request(kind, arg, pages_mount)) = b,
         pages_page = "deleted" => pages_mixed' = (pages_mixed \/
             \E k \in DOMAIN pages_reqs : pages_reqs[k].mount = pages_mount),
         pages_page # "deleted" => pages_mixed' = pages_mixed /\ b \notin PagesPart!Reads
  PROVE  PagesInv'
<1> DEFINE r == PagesPart!Request(kind, arg, pages_mount)
<1>1. /\ b \notin pages_busy /\ (pages_page # "deleted" => pages_busy' = pages_busy \cup {b})
      /\ pages_reqs' = Append(pages_reqs, r)
      /\ UNCHANGED <<pages_rows, pages_clock, pages_page, pages_at, pages_mount, pages_data,
           pages_loading, pages_seen, pages_orderly>>
  BY DEF PagesPart!Press
<1>2. r.kind = kind /\ r.mount = pages_mount /\ r.answer = "none"
  BY DEF PagesPart!Request
<1>3. IsRequest(r) /\ Belongs(r) /\ PagesPart!Button(r) = b
  OBVIOUS
<1> HIDE DEF r
<1>4. Registry' /\ PagesPart!View(pages_page, pages_at)' = PagesPart!View(pages_page, pages_at)
  BY <1>1, RegistryKept, ViewKept DEF PagesInv
<1>5. pages_reqs \in Seq(Sent)
  BY DEF PagesInv, PagesTyped
<1>6. /\ pages_reqs' \in Seq(Sent') /\ Sent' = Sent \cup {r}
      /\ DOMAIN pages_reqs' = DOMAIN pages_reqs \cup {Len(pages_reqs) + 1} /\
           Len(pages_reqs) + 1 \notin DOMAIN pages_reqs
      /\ pages_reqs'[Len(pages_reqs) + 1] = r
      /\ \A j \in DOMAIN pages_reqs : pages_reqs'[j] = pages_reqs[j]
  BY <1>1, <1>5, RequestSent DEF Sent
<1>7. Mine' = Mine \cup {r}
  BY <1>1, <1>2, <1>6 DEF Mine
<1>8. PagesTyped'
  BY <1>1, <1>3, <1>6, <1>7 DEF PagesInv, PagesTyped, IsRequest, Belongs
<1>9. Disabled'
  <2>1. ASSUME pages_page \in {"new", "settings"}, NEW q \in Mine',
            q.kind \notin PagesPart!Reads PROVE PagesPart!Button(q) \in pages_busy'
    BY <1>1, <1>3, <1>7, <2>1 DEF PagesInv, Disabled
  <2>2. ASSUME pages_page # "home", ~pages_mixed', NEW j \in DOMAIN pages_reqs',
            NEW k \in DOMAIN pages_reqs' PROVE Apart(j, k)'
    <3>1. ~pages_mixed
      BY <2>2 DEF PagesInv, PagesTyped
    <3>2. CASE j \in DOMAIN pages_reqs /\ k \in DOMAIN pages_reqs
      BY <1>1, <1>6, <2>2, <3>1, <3>2 DEF PagesInv, Disabled, Apart, PagesPart!Button
    <3>3. CASE j = Len(pages_reqs) + 1 /\ k = Len(pages_reqs) + 1
      BY <3>3 DEF Apart
    <3>4. ASSUME NEW i \in DOMAIN pages_reqs,
              pages_reqs[i].mount = pages_mount PROVE pages_page # "deleted" /\
                  PagesPart!Button(pages_reqs[i]) # b
      <4>1. pages_page # "deleted"
        BY <2>2, <3>4
      <4>2. pages_page \in {"new", "settings"} /\ pages_reqs[i] \in Mine
        BY <2>2, <3>4, <4>1 DEF PagesInv, PagesTyped, PagesPart!Pages, Mine, Sent
      <4>3. CASE pages_reqs[i].kind \notin PagesPart!Reads
        BY <1>1, <4>2, <4>3 DEF PagesInv, Disabled
      <4>4. CASE pages_reqs[i].kind \in PagesPart!Reads
        <5>1. PagesPart!Button(pages_reqs[i]) \in PagesPart!Reads
          BY <4>4 DEF PagesPart!Button, PagesPart!Reads
        <5>2. QED
          BY <4>1, <5>1
      <4>5. QED
        BY <4>1, <4>3, <4>4
    <3>5. QED
      BY <1>1, <1>3, <1>6, <2>2, <3>2, <3>3, <3>4 DEF PagesInv, PagesTyped, PagesPart!Pages, Apart,
          PagesPart!Button
  <2>3. QED
    BY <1>1, <2>1, <2>2 DEF Disabled, PagesPart!Button
<1>10. ASSUME pages_orderly, pages_page # "new" PROVE Fresh'
  <2>1. OnItsWay => OnItsWay'
    BY <1>1, <1>7 DEF OnItsWay, ToLeave, ToRead
  <2>2. QED
    BY <1>1, <1>2, <1>4, <1>6, <1>7, <1>10, <2>1
    DEF PagesInv, Fresh, ReadsKnown, TogglesKnown, ShownOrComing, Toggled
<1>11. QED
  BY <1>1, <1>4, <1>8, <1>9, <1>10 DEF PagesInv

(* A request as it is sent. *)
LEMMA RequestMade ==
  ASSUME PagesInv, NEW kind, NEW arg, kind \in {"create", "restore", "erase"} => arg \in DBNames
  PROVE  /\ IsRequest(PagesPart!Request(kind, arg, pages_mount))
         /\ PagesPart!Request(kind, arg, pages_mount).kind = kind /\ PagesPart!Request(kind, arg,
              pages_mount).arg = arg
         /\ PagesPart!Request(kind, arg, pages_mount).mount = pages_mount /\ PagesPart!Request(kind, arg,
              pages_mount).answer = "none"
<1>1. pages_mount \in Nat /\ pages_clock \in Nat
  BY DEF PagesInv, PagesTyped, Registry
<1>2. QED
  BY <1>1 DEF IsRequest, PagesPart!Request

(* The buttons and forms. *)
LEMMA PressesKeep ==
  ASSUME PagesInv,
         \/ \E n \in DBNames : PagesPart!Create(n)
         \/ PagesPart!HandleToggleStatus \/ PagesPart!HandleResetDatabase \/ PagesPart!HandleDropDatabase
         \/ \E d \in pages_data : PagesPart!HandleRestore(d) \/ PagesPart!HandleHardDelete(d)
  PROVE  PagesInv'
<1>1. CASE \E n \in DBNames : PagesPart!Create(n)
  <2>1. PICK n \in DBNames : PagesPart!Create(n)
    BY <1>1
  <2>2. PagesPart!Press("create", "create", n) /\ pages_page \in {"new", "home"} /\ pages_mixed' = pages_mixed
    BY <2>1 DEF PagesPart!Create
  <2>3. Belongs(PagesPart!Request("create", n, pages_mount)) /\
            PagesPart!Button(PagesPart!Request("create", n, pages_mount)) = "create"
    BY <2>2, RequestMade DEF Belongs, PagesPart!Button, PagesPart!Reads
  <2>4. QED
    BY <2>2, <2>3, RequestMade, PressKeeps DEF PagesPart!Reads
<1>2. CASE PagesPart!HandleToggleStatus
  <2>1. PICK kind \in {"activate", "deactivate"} : PagesPart!Press("status", kind, pages_at)
    BY <1>2 DEF PagesPart!HandleToggleStatus
  <2>2. pages_page = "settings" /\ ~pages_loading /\ pages_mixed' = pages_mixed
    BY <1>2 DEF PagesPart!HandleToggleStatus, PagesPart!SettingsShown
  <2>3. Belongs(PagesPart!Request(kind, pages_at, pages_mount)) /\
            PagesPart!Button(PagesPart!Request(kind, pages_at, pages_mount)) = "status"
    BY <2>2, RequestMade DEF Belongs, PagesPart!Button, PagesPart!Reads
  <2>4. QED
    BY <2>1, <2>2, <2>3, RequestMade, PressKeeps DEF PagesPart!Reads
<1>3. CASE PagesPart!HandleResetDatabase
  <2>1. PagesPart!Press("reset", "reset", pages_at) /\ pages_page = "settings" /\ ~pages_loading /\
            pages_mixed' = pages_mixed
    BY <1>3 DEF PagesPart!HandleResetDatabase, PagesPart!SettingsShown
  <2>2. Belongs(PagesPart!Request("reset", pages_at, pages_mount)) /\
            PagesPart!Button(PagesPart!Request("reset", pages_at, pages_mount)) = "reset"
    BY <2>1, RequestMade DEF Belongs, PagesPart!Button, PagesPart!Reads
  <2>3. QED
    BY <2>1, <2>2, RequestMade, PressKeeps DEF PagesPart!Reads
<1>4. CASE PagesPart!HandleDropDatabase
  <2>1. PagesPart!Press("drop", "drop", pages_at) /\ pages_page = "settings" /\ ~pages_loading /\
            pages_mixed' = pages_mixed
    BY <1>4 DEF PagesPart!HandleDropDatabase, PagesPart!SettingsShown
  <2>2. Belongs(PagesPart!Request("drop", pages_at, pages_mount)) /\
            PagesPart!Button(PagesPart!Request("drop", pages_at, pages_mount)) = "drop"
    BY <2>1, RequestMade DEF Belongs, PagesPart!Button, PagesPart!Reads
  <2>3. QED
    BY <2>1, <2>2, RequestMade, PressKeeps DEF PagesPart!Reads
<1>5. CASE \E d \in pages_data : PagesPart!HandleRestore(d) \/ PagesPart!HandleHardDelete(d)
  <2>1. PICK d \in pages_data, kind \in {"restore", "erase"} :
          /\ PagesPart!DeletedShown /\ PagesPart!Press(d.name, kind, d.name)
          /\ pages_mixed' = (pages_mixed \/ \E k \in DOMAIN pages_reqs : pages_reqs[k].mount = pages_mount)
    BY <1>5 DEF PagesPart!HandleRestore, PagesPart!HandleHardDelete
  <2>2. pages_page = "deleted" /\ d.name \in DBNames
    BY <2>1 DEF PagesPart!DeletedShown, PagesInv, PagesTyped
  <2>3. Belongs(PagesPart!Request(kind, d.name, pages_mount)) /\ PagesPart!Button(PagesPart!Request(kind,
            d.name, pages_mount)) = d.name
    BY <2>2, RequestMade DEF Belongs, PagesPart!Button, PagesPart!Reads
  <2>4. QED
    BY <2>1, <2>2, <2>3, RequestMade, PressKeeps DEF PagesPart!Reads
<1>6. QED
  BY <1>1, <1>2, <1>3, <1>4, <1>5

(* Another page: what is still in flight is not its own, but the read it begins with. *)
LEMMA MountKeeps ==
  ASSUME PagesInv, NEW p \in PagesPart!Pages, NEW s, NEW t \in Seq(Sent), PagesPart!Mount(p, s, t),
         p # "settings" => s = Nothing, UNCHANGED <<pages_rows, pages_clock>>
  PROVE  PagesInv'
<1>1. /\ pages_page' = p /\ pages_at' = s /\ pages_mount' = pages_mount + 1 /\ pages_seen' = 0 /\
           pages_mixed' = FALSE /\ pages_data' = Nothing
      /\ pages_reqs' = t \o PagesPart!FirstRead(p, s, pages_mount + 1)
      /\ pages_orderly' = \A k \in DOMAIN t : t[k].kind \in PagesPart!Reads
  BY DEF PagesPart!Mount
<1>2. pages_mount \in Nat /\ pages_mount + 1 \in Nat /\ pages_mount < pages_mount + 1 /\
          pages_clock \in Nat /\ pages_mount + 1 # pages_mount
  BY DEF PagesInv, PagesTyped, Registry
<1>3. Registry'
  BY RegistryKept DEF PagesInv
<1>4. \A j \in DOMAIN t : t[j] \in Sent
  OBVIOUS
<1> DEFINE r == PagesPart!Request(ReadOf(p), s, pages_mount + 1)
<1>5. /\ r.kind = ReadOf(p) /\ r.arg = s /\ r.mount = pages_mount + 1 /\ r.answer = "none" /\ r.version = 0
      /\ DOMAIN r = {"kind", "arg", "mount", "answer", "data", "version"}
  BY DEF PagesPart!Request
<1>6. p # "new" => ReadOf(p) \in PagesPart!Reads
  BY DEF PagesPart!Pages, PagesPart!Reads, ReadOf
<1>7. pages_reqs' = IF p = "new" THEN t ELSE Append(t, r)
  <2>1. t \o <<>> = t
    BY ConcatEmptySeq
  <2>2. t \o <<r>> = Append(t, r)
    BY AppendIsConcat
  <2>3. PagesPart!FirstRead(p, s, pages_mount + 1) = IF p = "new" THEN <<>> ELSE <<r>>
    BY DEF PagesPart!FirstRead, PagesPart!Pages, ReadOf
  <2>4. QED
    BY <1>1, <2>1, <2>2, <2>3
<1> HIDE DEF r
<1>8. /\ pages_reqs' \in Seq(Sent') /\ Sent' \subseteq Sent \cup {r} /\ (p # "new" => r \in Sent')
      /\ p = "new" => Sent' \subseteq Sent
      /\ \A j \in DOMAIN pages_reqs' : (j \in DOMAIN t /\ pages_reqs'[j] = t[j]) \/ (p # "new" /\
           pages_reqs'[j] = r)
  <2>1. CASE p = "new"
    <3>1. pages_reqs' = t
      BY <1>7, <2>1
    <3>2. t \in Seq({t[j] : j \in DOMAIN t})
      BY OfItsElements
    <3>3. QED
      BY <1>4, <2>1, <3>1, <3>2 DEF Sent
  <2>2. CASE p # "new"
    <3>1. pages_reqs' = Append(t, r)
      BY <1>7, <2>2
    <3>2. /\ pages_reqs' \in Seq(Sent') /\ Sent' = {t[j] : j \in DOMAIN t} \cup {r}
          /\ DOMAIN pages_reqs' = DOMAIN t \cup {Len(t) + 1} /\ pages_reqs'[Len(t) + 1] = r
          /\ \A j \in DOMAIN t : pages_reqs'[j] = t[j]
      BY <3>1, RequestSent
    <3>3. QED
      BY <1>4, <2>2, <3>2
  <2>3. QED
    BY <2>1, <2>2
<1>9. \A q \in Sent : IsRequest(q) /\ q.mount # pages_mount + 1
  BY <1>2 DEF PagesInv, PagesTyped, IsRequest
<1>10. Mine' = IF p = "new" THEN {} ELSE {r}
  BY <1>1, <1>5, <1>8, <1>9 DEF Mine
<1>11. PagesTyped'
  <2>1. \A q \in Sent' : IsRequest(q)'
    BY <1>1, <1>2, <1>5, <1>6, <1>8, <1>9 DEF IsRequest, PagesPart!Reads, ReadOf, PagesPart!Pages
  <2>2. \A q \in Mine' : Belongs(q)'
    BY <1>1, <1>5, <1>6, <1>10 DEF Belongs
  <2>3. QED
    BY <1>1, <1>2, <1>8, <2>1, <2>2 DEF PagesTyped
<1>12. Disabled'
  <2>1. \A q \in Mine' : q.kind \in PagesPart!Reads
    BY <1>5, <1>6, <1>10
  <2>2. \A j \in DOMAIN pages_reqs' : pages_reqs'[j].mount = pages_mount' => pages_reqs'[j] \in Mine'
    BY DEF Mine, Sent
  <2>3. QED
    BY <2>1, <2>2 DEF Disabled, Apart
<1>13. ASSUME pages_orderly', p # "new" PROVE Fresh'
  <2>1. OnItsWay'
    BY <1>5, <1>6, <1>10, <1>13 DEF OnItsWay, ToRead
  <2>2. \A q \in Mine' : q.kind \in PagesPart!Reads /\ q.answer = "none"
    BY <1>5, <1>6, <1>10
  <2>3. \A q \in Sent' : q.kind \in PagesPart!Reads
    <3>1. \A j \in DOMAIN t : t[j].kind \in PagesPart!Reads
      BY <1>1, <1>13
    <3>2. \A j \in DOMAIN pages_reqs' : pages_reqs'[j].kind \in PagesPart!Reads
      BY <1>5, <1>6, <1>8, <3>1
    <3>3. QED
      BY <3>2 DEF Sent
  <2>4. QED
    BY <2>1, <2>2, <2>3 DEF Fresh, ReadsKnown, TogglesKnown, ShownOrComing, Toggled, PagesPart!Reads
<1>14. QED
  BY <1>1, <1>3, <1>11, <1>12, <1>13 DEF PagesInv

(* The links. *)
LEMMA NavigateKeeps ==
  ASSUME PagesInv, NEW p \in PagesPart!Pages, NEW s, PagesPart!Navigate(p, s)
  PROVE  PagesInv'
<1>1. PagesPart!Mount(p, s, pages_reqs) /\ (p # "settings" => s = Nothing) /\ UNCHANGED <<pages_rows,
          pages_clock>>
  BY DEF PagesPart!Navigate
<1>2. pages_reqs \in Seq(Sent)
  BY DEF PagesInv, PagesTyped
<1>3. QED
  BY <1>1, <1>2, MountKeeps

(* router.push("/") *)
LEMMA LeaveKeeps ==
  ASSUME PagesInv, NEW k \in DOMAIN pages_reqs, PagesPart!AnswerAndLeave(k)
  PROVE  PagesInv'
<1>1. PagesPart!Mount("home", Nothing, PagesPart!RemoveAt(pages_reqs, k)) /\ UNCHANGED <<pages_rows,
          pages_clock>>
  BY DEF PagesPart!AnswerAndLeave
<1>2. pages_reqs \in Seq(Sent) /\ k \in 1..Len(pages_reqs)
  BY DEF PagesInv, PagesTyped
<1>3. PagesPart!RemoveAt(pages_reqs, k) \in Seq(Sent)
  BY <1>2, Removal
<1>4. QED
  BY <1>1, <1>3, MountKeeps DEF PagesPart!Pages

(* The same buttons of the same page, whatever was answered, and reads besides. *)
LEMMA DisabledKept ==
  ASSUME PagesInv, PagesTyped', UNCHANGED <<pages_page, pages_mount, pages_mixed>>,
         NEW D \in SUBSET DOMAIN pages_reqs', NEW f \in [D -> DOMAIN pages_reqs],
         \A i, j \in D : f[i] = f[j] => i = j,
         \A i \in D : pages_reqs'[i].mount = pages_mount =>
           /\ pages_reqs'[i].mount = pages_reqs[f[i]].mount /\ pages_reqs'[i].kind = pages_reqs[f[i]].kind
           /\ pages_reqs'[i].arg = pages_reqs[f[i]].arg
           /\ pages_page \in {"new", "settings"} /\ pages_reqs'[i].kind \notin PagesPart!Reads =>
                PagesPart!Button(pages_reqs'[i]) \in pages_busy',
         \A i \in DOMAIN pages_reqs' : i \notin D => pages_reqs'[i].kind \in PagesPart!Reads /\
             pages_page \in {"home", "settings"}
  PROVE  Disabled'
<1>1. ASSUME pages_page \in {"new", "settings"}, NEW q \in Mine',
          q.kind \notin PagesPart!Reads PROVE PagesPart!Button(q) \in pages_busy'
  BY <1>1 DEF Mine, Sent
<1>2. ASSUME pages_page # "home", ~pages_mixed, NEW j \in DOMAIN pages_reqs',
          NEW k \in DOMAIN pages_reqs' PROVE Apart(j, k)'
  <2>1. CASE j \in D /\ k \in D
    <3>1. Apart(f[j], f[k]) /\ f[j] \in DOMAIN pages_reqs /\ f[k] \in DOMAIN pages_reqs
      BY <1>2, <2>1 DEF PagesInv, Disabled
    <3>2. QED
      BY <2>1, <3>1 DEF Apart, PagesPart!Button
  <2>2. CASE j \notin D
    BY <2>2 DEF Apart
  <2>3. CASE k \notin D /\ pages_reqs'[j].mount = pages_mount /\ pages_reqs'[j].kind \notin PagesPart!Reads
    <3>1. pages_page = "settings" /\ PagesPart!Button(pages_reqs'[k]) \in PagesPart!Reads
      BY <1>2, <2>3 DEF PagesPart!Button, PagesPart!Reads
    <3>2. pages_reqs'[j] \in Mine'
      BY <2>3 DEF Mine, Sent
    <3>3. Belongs(pages_reqs[j])'
      BY <3>2 DEF PagesTyped
    <3>4. pages_reqs'[j].kind \in {"activate", "deactivate", "reset", "drop"}
      BY <2>3, <3>1, <3>3 DEF Belongs
    <3>5. PagesPart!Button(pages_reqs'[j]) \notin PagesPart!Reads
      BY <3>4 DEF PagesPart!Button, PagesPart!Reads
    <3>6. QED
      BY <3>1, <3>5 DEF Apart, PagesPart!Button
  <2>4. QED
    BY <2>1, <2>2, <2>3 DEF Apart
<1>3. QED
  BY <1>1, <1>2 DEF Disabled

(* Refused, or lost before anything was done. *)
LEMMA RefuseKeeps ==
  ASSUME PagesInv, NEW k \in DOMAIN pages_reqs, PagesPart!Refuse(k)
  PROVE  PagesInv'
<1>1. PICK how \in {"refused", "lost"} : pages_reqs' = [pages_reqs EXCEPT ![k].answer = how]
  BY DEF PagesPart!Refuse
<1>2. /\ pages_reqs[k].answer = "none"
      /\ UNCHANGED <<pages_rows, pages_clock, pages_page, pages_at, pages_mount, pages_data,
           pages_loading, pages_busy, pages_seen, pages_orderly, pages_mixed>>
  BY DEF PagesPart!Refuse, PagesPart!pageVars, PagesPart!history
<1> PICK e : e = [pages_reqs[k] EXCEPT !.answer = how]
  OBVIOUS
<1>3. pages_reqs' = [pages_reqs EXCEPT ![k] = e] /\ pages_reqs[k] \in Sent /\ IsRequest(pages_reqs[k])
  BY <1>1 DEF PagesInv, PagesTyped, Sent
<1>4. /\ e.answer = how /\ DOMAIN e = {"kind", "arg", "mount", "answer", "data", "version"}
      /\ e.kind = pages_reqs[k].kind /\ e.arg = pages_reqs[k].arg /\ e.mount = pages_reqs[k].mount /\
           e.version = pages_reqs[k].version
  BY <1>3 DEF IsRequest
<1>5. /\ pages_reqs' \in Seq(Sent') /\ Sent' \subseteq Sent \cup {e} /\ e \in Sent'
      /\ \A r \in Sent : r # pages_reqs[k] => r \in Sent'
      /\ DOMAIN pages_reqs' = DOMAIN pages_reqs /\ pages_reqs'[k] = e
      /\ \A j \in DOMAIN pages_reqs : j # k => pages_reqs'[j] = pages_reqs[j]
  BY <1>3, RequestAnswered DEF PagesInv
<1>6. Mine' \subseteq Mine \cup {e} /\ (\A r \in Mine : r # pages_reqs[k] => r \in Mine')
      /\ (pages_reqs[k] \in Mine <=> e \in Mine') /\ (e \in Mine' => e.mount = pages_mount)
  BY <1>2, <1>3, <1>4, <1>5 DEF Mine
<1>7. Registry' /\ PagesPart!View(pages_page, pages_at)' = PagesPart!View(pages_page, pages_at)
  BY <1>2, RegistryKept, ViewKept DEF PagesInv
<1>8. PagesTyped'
  <2>1. IsRequest(e)' /\ \A r \in Sent : IsRequest(r)'
    BY <1>2, <1>3, <1>4 DEF PagesInv, PagesTyped, IsRequest
  <2>2. \A r \in Mine' : Belongs(r)'
    BY <1>2, <1>3, <1>4, <1>6 DEF PagesInv, PagesTyped, Belongs
  <2>3. QED
    BY <1>2, <1>5, <2>1, <2>2 DEF PagesInv, PagesTyped
<1>9. Disabled'
  <2> DEFINE f == [j \in DOMAIN pages_reqs' |-> j]
  <2>1. \A j \in DOMAIN pages_reqs' : /\ pages_reqs'[j].mount = pages_reqs[j].mount /\
                                           pages_reqs'[j].kind = pages_reqs[j].kind
                                 /\ pages_reqs'[j].arg = pages_reqs[j].arg
    BY <1>4, <1>5
  <2>2. ASSUME NEW j \in DOMAIN pages_reqs', pages_reqs'[j].mount = pages_mount,
            pages_page \in {"new", "settings"}, pages_reqs'[j].kind \notin PagesPart!Reads
        PROVE  PagesPart!Button(pages_reqs'[j]) \in pages_busy'
    <3>1. pages_reqs[j] \in Mine /\ pages_reqs[j].kind \notin PagesPart!Reads
      BY <1>5, <2>1, <2>2 DEF Mine, Sent
    <3>2. PagesPart!Button(pages_reqs'[j]) = PagesPart!Button(pages_reqs[j])
      BY <2>1 DEF PagesPart!Button
    <3>3. QED
      BY <1>2, <2>2, <3>1, <3>2 DEF PagesInv, Disabled
  <2>3. f \in [DOMAIN pages_reqs' -> DOMAIN pages_reqs] /\
            DOMAIN pages_reqs' \in SUBSET DOMAIN pages_reqs' /\ \A j \in DOMAIN pages_reqs' : f[j] = j
    BY <1>5
  <2> HIDE DEF f
  <2>4. QED
    BY <1>2, <1>8, <2>1, <2>2, <2>3, DisabledKept
<1>10. ASSUME pages_orderly, pages_page # "new" PROVE Fresh'
  <2>1. pages_reqs[k] \in Mine /\ e.kind \in PagesPart!Reads => ToRead(e)'
    BY <1>1, <1>4 DEF ToRead
  <2>2. OnItsWay => OnItsWay'
    BY <1>1, <1>2, <1>4, <1>6, <2>1 DEF OnItsWay, ToLeave, ToRead
  <2>3. \A t \in Mine : Toggled(t) \/ ToLeave(t) => t \in Mine'
    BY <1>2, <1>6 DEF Toggled, ToLeave
  <2>4. \A r \in Mine' : r.answer = "ok" => r \in Mine
    BY <1>1, <1>4, <1>6
  <2>5. \A r \in Sent' : r.kind \notin PagesPart!Reads => r.mount = pages_mount
    BY <1>3, <1>4, <1>5, <1>10 DEF PagesInv, Fresh
  <2>6. QED
    BY <1>2, <1>7, <1>10, <2>2, <2>3, <2>4, <2>5
    DEF PagesInv, Fresh, ReadsKnown, TogglesKnown, ShownOrComing, Toggled, ToLeave
<1>11. QED
  BY <1>2, <1>7, <1>8, <1>9, <1>10 DEF PagesInv

(* An answer was taken: its request is gone, and perhaps the page is read again. *)
Again(q) == q.kind \in PagesPart!Reads /\ q.answer = "none" /\ q.mount = pages_mount

LEMMA AnswerGone ==
  ASSUME PagesInv, NEW k \in DOMAIN pages_reqs, UNCHANGED <<pages_rows, pages_clock, pages_page, pages_at,
      pages_mount, pages_mixed>>,
         pages_reqs' = PagesPart!RemoveAt(pages_reqs, k) \/ (pages_page \in {"home", "settings"} /\
             PagesPart!ReadAgain(k, ReadOf(pages_page), pages_at)),
         pages_seen' \in Nat, pages_seen' <= pages_clock, pages_loading' = FALSE \/
             pages_loading' = pages_loading,
         pages_page = "deleted" /\ pages_data' # Nothing /\ pages_data' # Broken =>
             \A d \in pages_data' : d.name \in DBNames,
         \/ pages_busy' = pages_busy \/ pages_page \in {"home", "deleted"}
         \/ pages_busy' = pages_busy \ {PagesPart!Button(pages_reqs[k])} /\ pages_reqs[k].mount = pages_mount
  PROVE  /\ Registry' /\ PagesTyped' /\ Disabled' /\ PagesPart!View(pages_page,
              pages_at)' = PagesPart!View(pages_page, pages_at)
         /\ \A q \in Sent' : q \in Sent \/ Again(q)
         /\ \A q \in Mine' : q \in Mine \/ Again(q)
         /\ \A q \in Mine : q # pages_reqs[k] => q \in Mine'
         /\ pages_reqs' # PagesPart!RemoveAt(pages_reqs, k) => \E q \in Mine' : Again(q)
<1>1. PICK t : t = PagesPart!RemoveAt(pages_reqs, k)
  OBVIOUS
<1>2. /\ t \in Seq(Sent)
      /\ \A r \in Sent : r # pages_reqs[k] => \E j \in DOMAIN t : t[j] = r
  BY <1>1, RequestGone DEF PagesInv
<1>3. PICK f \in [DOMAIN t -> DOMAIN pages_reqs] :
        /\ \A i, j \in DOMAIN t : f[i] = f[j] => i = j
        /\ \A j \in DOMAIN t : t[j] = pages_reqs[f[j]] /\ f[j] # k
  BY <1>1, RequestGone DEF PagesInv
<1>4. PICK e : e = PagesPart!Request(ReadOf(pages_page), pages_at, pages_mount)
  OBVIOUS
<1>5. /\ pages_page \in {"home", "settings"} => IsRequest(e) /\ e.kind \in PagesPart!Reads
      /\ e.kind = ReadOf(pages_page) /\ e.arg = pages_at /\ e.mount = pages_mount /\ e.answer = "none"
  <2>1. pages_page \in {"home", "settings"} => ReadOf(pages_page) \in {"home", "get"}
    BY DEF ReadOf
  <2>2. ReadOf(pages_page) \notin {"create", "restore", "erase"}
    BY DEF PagesInv, PagesTyped, PagesPart!Pages, ReadOf
  <2>3. QED
    BY <1>4, <2>1, <2>2, RequestMade DEF PagesPart!Reads
<1>6. /\ pages_reqs' \in Seq(Sent') /\ DOMAIN t \in SUBSET DOMAIN pages_reqs'
      /\ \A j \in DOMAIN t : pages_reqs'[j] = t[j]
      /\ \A j \in DOMAIN pages_reqs' : j \in DOMAIN t \/ (pages_page \in {"home", "settings"} /\
           pages_reqs'[j] = e)
      /\ pages_reqs' # t => e \in Sent'
  <2>1. CASE pages_reqs' = t
    <3>1. t \in Seq({t[j] : j \in DOMAIN t})
      BY <1>2, OfItsElements
    <3>2. QED
      BY <2>1, <3>1 DEF Sent
  <2>2. CASE pages_page \in {"home", "settings"} /\ pages_reqs' = Append(t, e)
    <3>1. /\ pages_reqs' \in Seq(Sent') /\ Sent' = {t[j] : j \in DOMAIN t} \cup {e}
          /\ DOMAIN pages_reqs' = DOMAIN t \cup {Len(t) + 1} /\ pages_reqs'[Len(t) + 1] = e
          /\ \A j \in DOMAIN t : pages_reqs'[j] = t[j]
      BY <1>2, <2>2, RequestSent
    <3>2. QED
      BY <2>2, <3>1
  <2>3. QED
    BY <1>1, <1>4, <2>1, <2>2 DEF PagesPart!ReadAgain
<1>7. \A q \in Sent' : q \in Sent \/ (q = e /\ pages_page \in {"home", "settings"})
  <2>1. \A j \in DOMAIN t : t[j] \in Sent
    BY <1>2
  <2>2. \A j \in DOMAIN pages_reqs' : pages_reqs'[j] \in Sent \/ (pages_reqs'[j] = e /\
            pages_page \in {"home", "settings"})
    BY <1>6, <2>1
  <2>3. QED
    BY <2>2 DEF Sent
<1>8. \A q \in Mine' : q \in Mine \/ (q = e /\ pages_page \in {"home", "settings"})
  BY <1>7 DEF Mine
<1>9. \A q \in Mine : q # pages_reqs[k] => q \in Mine'
  <2>1. \A q \in Sent : q # pages_reqs[k] => q \in Sent'
    BY <1>2, <1>6 DEF Sent
  <2>2. QED
    BY <2>1 DEF Mine
<1>10. Registry' /\ PagesPart!View(pages_page, pages_at)' = PagesPart!View(pages_page, pages_at)
  BY RegistryKept, ViewKept DEF PagesInv
<1>11. PagesTyped'
  <2>1. \A q \in Sent' : IsRequest(q)'
    BY <1>5, <1>7 DEF PagesInv, PagesTyped, IsRequest
  <2>2. \A q \in Mine' : Belongs(q)'
    BY <1>5, <1>8 DEF PagesInv, PagesTyped, Belongs
  <2>3. QED
    BY <1>6, <2>1, <2>2 DEF PagesInv, PagesTyped
<1>12. Disabled'
  <2>1. ASSUME NEW i \in DOMAIN t, pages_reqs'[i].mount = pages_mount, pages_page \in {"new", "settings"},
            pages_reqs'[i].kind \notin PagesPart!Reads
        PROVE  PagesPart!Button(pages_reqs'[i]) \in pages_busy'
    <3>1. pages_reqs'[i] = pages_reqs[f[i]] /\ f[i] # k /\ f[i] \in DOMAIN pages_reqs /\
              pages_reqs[f[i]] \in Mine
      BY <1>3, <1>6, <2>1 DEF Mine, Sent
    <3>2. PagesPart!Button(pages_reqs[f[i]]) \in pages_busy
      BY <2>1, <3>1 DEF PagesInv, Disabled
    <3>3. ~pages_mixed
      BY <2>1 DEF PagesInv, PagesTyped
    <3>4. pages_reqs[k].mount = pages_mount =>
              PagesPart!Button(pages_reqs[f[i]]) # PagesPart!Button(pages_reqs[k])
      BY <2>1, <3>1, <3>3 DEF PagesInv, Disabled, Apart
    <3>5. QED
      BY <2>1, <3>1, <3>2, <3>4
  <2>2. \A j \in DOMAIN pages_reqs' : j \notin DOMAIN t => pages_reqs'[j].kind \in PagesPart!Reads /\
            pages_page \in {"home", "settings"}
    BY <1>5, <1>6
  <2>3. \A j \in DOMAIN t : pages_reqs'[j] = pages_reqs[f[j]]
    BY <1>3, <1>6
  <2>4. DOMAIN t \in SUBSET DOMAIN pages_reqs' /\ f \in [DOMAIN t -> DOMAIN pages_reqs]
        /\ \A i, j \in DOMAIN t : f[i] = f[j] => i = j
    BY <1>3, <1>6
  <2>5. ASSUME NEW i \in DOMAIN t, pages_reqs'[i].mount = pages_mount
        PROVE  /\ pages_reqs'[i].mount = pages_reqs[f[i]].mount
               /\ pages_reqs'[i].kind = pages_reqs[f[i]].kind
               /\ pages_reqs'[i].arg = pages_reqs[f[i]].arg
               /\ pages_page \in {"new", "settings"} /\ pages_reqs'[i].kind \notin PagesPart!Reads =>
                    PagesPart!Button(pages_reqs'[i]) \in pages_busy'
    BY <2>1, <2>3, <2>5
  <2>6. UNCHANGED <<pages_page, pages_mount, pages_mixed>>
    BY <1>6, <1>5
  <2>7. QED
    BY <1>11, <2>2, <2>4, <2>5, <2>6, DisabledKept
<1>13. pages_reqs' # PagesPart!RemoveAt(pages_reqs, k) => e \in Mine' /\ Again(e)
  BY <1>1, <1>5, <1>6 DEF Mine, Again, PagesPart!ReadAgain
<1>14. QED
  BY <1>5, <1>7, <1>8, <1>9, <1>10, <1>11, <1>12, <1>13 DEF Again

(* What is said of the requests of the page stays when one goes that changes nothing. *)
LEMMA FreshKept ==
  ASSUME PagesInv, NEW k \in DOMAIN pages_reqs, UNCHANGED <<pages_clock, pages_page, pages_at,
      pages_mount, pages_rows, pages_seen, pages_data, pages_loading>>,
         PagesPart!View(pages_page, pages_at)' = PagesPart!View(pages_page, pages_at), pages_orderly,
             pages_page # "new",
         \A q \in Sent' : q \in Sent \/ Again(q),
         \A q \in Mine' : q \in Mine \/ Again(q),
         \A q \in Mine : q # pages_reqs[k] => q \in Mine',
         pages_reqs[k] \in Mine => ~ToLeave(pages_reqs[k]) /\ ~ToRead(pages_reqs[k]) /\
             ~Toggled(pages_reqs[k])
  PROVE  Fresh'
<1>1. \A q \in Mine : ToLeave(q) \/ ToRead(q) \/ Toggled(q) => q \in Mine'
  OBVIOUS
<1>2. OnItsWay => OnItsWay'
  BY <1>1 DEF OnItsWay, ToLeave, ToRead
<1>3. \A q \in Mine' : q.answer = "ok" => q \in Mine
  BY DEF Again
<1>4. ReadsKnown'
  BY <1>1, <1>2, <1>3 DEF PagesInv, Fresh, ReadsKnown, Toggled
<1>5. TogglesKnown'
  BY <1>1, <1>3 DEF PagesInv, Fresh, TogglesKnown, Toggled, ToLeave
<1>6. ShownOrComing'
  BY <1>1, <1>2 DEF PagesInv, Fresh, ShownOrComing, Toggled
<1>7. QED
  BY <1>4, <1>5, <1>6 DEF PagesInv, Fresh, Again

(* The page was left. *)
LEMMA LateKeeps == ASSUME PagesInv, NEW k \in DOMAIN pages_reqs, PagesPart!LateAnswer(k) PROVE PagesInv'
<1>1. /\ pages_reqs' = PagesPart!RemoveAt(pages_reqs, k) /\ pages_reqs[k].mount # pages_mount
      /\ UNCHANGED <<pages_rows, pages_clock, pages_page, pages_at, pages_mount, pages_data,
           pages_loading, pages_busy, pages_seen, pages_orderly, pages_mixed>>
  BY DEF PagesPart!LateAnswer, PagesPart!Done, PagesPart!Mounted, PagesPart!pageVars, PagesPart!history
<1>2. pages_seen \in Nat /\ pages_seen <= pages_clock /\ pages_reqs[k] \notin Mine
      /\ (pages_page = "deleted" /\ pages_data # Nothing /\ pages_data # Broken =>
           \A d \in pages_data : d.name \in DBNames)
  BY <1>1 DEF PagesInv, PagesTyped, Mine
<1>3. QED
  BY <1>1, <1>2, AnswerGone, FreshKept DEF PagesInv

(* An operation was refused, or its answer lost. *)
LEMMA NotDoneKeeps ==
  ASSUME PagesInv, NEW k \in DOMAIN pages_reqs, PagesPart!LostAnswer(k) \/ PagesPart!RefusedAnswer(k)
  PROVE  PagesInv'
<1>1. /\ pages_reqs' = PagesPart!RemoveAt(pages_reqs, k) /\ pages_reqs[k].mount = pages_mount
      /\ pages_reqs[k].kind \notin PagesPart!Reads /\ pages_reqs[k].answer # "ok"
      /\ UNCHANGED <<pages_rows, pages_clock, pages_page, pages_at, pages_mount, pages_data,
           pages_loading, pages_seen, pages_orderly, pages_mixed>>
  BY DEF PagesPart!LostAnswer, PagesPart!RefusedAnswer, PagesPart!Done, PagesPart!Mounted, PagesPart!history
<1>2. \/ pages_busy' = pages_busy \/ pages_page \in {"home", "deleted"}
      \/ pages_busy' = pages_busy \ {PagesPart!Button(pages_reqs[k])} /\ pages_reqs[k].mount = pages_mount
  BY DEF PagesPart!LostAnswer, PagesPart!RefusedAnswer, PagesPart!Mounted, PagesPart!Freed
<1>3. pages_seen \in Nat /\ pages_seen <= pages_clock
      /\ (pages_page = "deleted" /\ pages_data # Nothing /\ pages_data # Broken =>
           \A d \in pages_data : d.name \in DBNames)
  BY DEF PagesInv, PagesTyped
<1>4. ~ToLeave(pages_reqs[k]) /\ ~ToRead(pages_reqs[k]) /\ ~Toggled(pages_reqs[k])
  BY <1>1 DEF ToLeave, ToRead, Toggled
<1>5. QED
  BY <1>1, <1>2, <1>3, <1>4, AnswerGone, FreshKept DEF PagesInv

(* The database was emptied. *)
LEMMA ResetKeeps == ASSUME PagesInv, NEW k \in DOMAIN pages_reqs, PagesPart!ResetAnswer(k) PROVE PagesInv'
<1>1. /\ PagesPart!ReadAgain(k, "get", pages_at) /\ pages_reqs[k].mount = pages_mount /\
           pages_reqs[k].kind = "reset"
      /\ UNCHANGED <<pages_rows, pages_clock, pages_page, pages_at, pages_mount, pages_data,
           pages_loading, pages_seen, pages_orderly, pages_mixed>>
      /\ pages_busy' = PagesPart!Freed(pages_reqs[k])
  BY DEF PagesPart!ResetAnswer, PagesPart!Mounted, PagesPart!history
<1>2. pages_seen \in Nat /\ pages_seen <= pages_clock /\ Belongs(pages_reqs[k])
      /\ (pages_page = "deleted" /\ pages_data # Nothing /\ pages_data # Broken =>
           \A d \in pages_data : d.name \in DBNames)
  BY <1>1 DEF PagesInv, PagesTyped, Mine, Sent
<1>3. pages_page = "settings" /\ ReadOf(pages_page) = "get" /\
          pages_busy' = pages_busy \ {PagesPart!Button(pages_reqs[k])}
  BY <1>1, <1>2 DEF Belongs, PagesPart!Reads, ReadOf, PagesPart!Freed
<1>4. ~ToLeave(pages_reqs[k]) /\ ~ToRead(pages_reqs[k]) /\ ~Toggled(pages_reqs[k])
  BY <1>1 DEF ToLeave, ToRead, Toggled, PagesPart!Reads
<1>5. QED
  BY <1>1, <1>2, <1>3, <1>4, AnswerGone, FreshKept DEF PagesInv

(* A database was made from the dashboard, which is read again. *)
LEMMA CreatedKeeps == ASSUME PagesInv, NEW k \in DOMAIN pages_reqs, PagesPart!CreatedAnswer(k) PROVE PagesInv'
<1>1. /\ PagesPart!ReadAgain(k, "home", Nothing) /\ pages_page = "home"
      /\ UNCHANGED <<pages_rows, pages_clock, pages_page, pages_at, pages_mount, pages_data,
           pages_loading, pages_seen, pages_orderly, pages_mixed>>
  BY DEF PagesPart!CreatedAnswer, PagesPart!history
<1>2. pages_seen \in Nat /\ pages_seen <= pages_clock /\ pages_at = Nothing /\ ReadOf(pages_page) = "home"
  BY <1>1 DEF PagesInv, PagesTyped, ReadOf
<1>3. /\ Registry' /\ PagesTyped' /\ Disabled' /\ PagesPart!View(pages_page,
           pages_at)' = PagesPart!View(pages_page, pages_at)
      /\ \A q \in Sent' : q \in Sent \/ Again(q)
      /\ \A q \in Mine' : q \in Mine \/ Again(q)
  BY <1>1, <1>2, AnswerGone
<1>4. \E q \in Mine' : Again(q)
  <2>1. PICK e : e = PagesPart!Request("home", Nothing, pages_mount)
    OBVIOUS
  <2>2. Again(e)
    BY <2>1, RequestMade DEF Again, PagesPart!Reads
  <2>3. pages_reqs' = Append(PagesPart!RemoveAt(pages_reqs, k), e) /\ PagesPart!RemoveAt(pages_reqs,
            k) \in Seq(Sent)
    BY <1>1, <2>1, RequestGone DEF PagesPart!ReadAgain, PagesInv
  <2>4. e \in Sent'
    BY <2>3, RequestSent
  <2>5. QED
    BY <1>1, <2>2, <2>4 DEF Mine, Again
<1>5. ASSUME pages_orderly PROVE Fresh'
  <2>1. OnItsWay'
    BY <1>4 DEF OnItsWay, ToRead, Again
  <2>2. \A q \in Mine' : ~Toggled(q)
    BY <1>1, <1>3 DEF PagesInv, PagesTyped, Belongs, Toggled, Again, PagesPart!Reads
  <2>3. \A q \in Mine' : q.answer = "ok" => q \in Mine
    BY <1>3 DEF Again
  <2>4. QED
    BY <1>1, <1>3, <1>5, <2>1, <2>2, <2>3
    DEF PagesInv, Fresh, ReadsKnown, TogglesKnown, ShownOrComing, Toggled, Again
<1>6. QED
  BY <1>1, <1>3, <1>5 DEF PagesInv

(* The later of two versions. *)
LEMMA Later ==
  ASSUME NEW a \in Nat, NEW b \in Nat
  PROVE  PagesPart!Max({a, b}) = IF a >= b THEN a ELSE b
<1> DEFINE m == IF a >= b THEN a ELSE b
<1>1. m \in {a, b} /\ \A y \in {a, b} : m >= y
  OBVIOUS
<1>2. \A x \in {a, b} : (\A y \in {a, b} : x >= y) => x = m
  OBVIOUS
<1> HIDE DEF m
<1>3. PagesPart!Max({a, b}) = m
  BY <1>1, <1>2 DEF PagesPart!Max
<1>4. QED
  BY <1>3 DEF m

(* The status was set: it is shown. *)
LEMMA StatusKeeps == ASSUME PagesInv, NEW k \in DOMAIN pages_reqs, PagesPart!StatusAnswer(k) PROVE PagesInv'
<1>1. PICK r : r = pages_reqs[k]
  OBVIOUS
<1>2. /\ pages_reqs' = PagesPart!RemoveAt(pages_reqs, k) /\ r.mount = pages_mount /\ r.answer = "ok"
      /\ r.kind \in {"activate", "deactivate"}
      /\ pages_busy' = PagesPart!Freed(r) /\ pages_data' = Status(r.kind) /\
           pages_seen' = PagesPart!Max({pages_seen, r.version})
      /\ UNCHANGED <<pages_rows, pages_clock, pages_page, pages_at, pages_mount, pages_loading,
           pages_orderly, pages_mixed>>
  BY <1>1 DEF PagesPart!StatusAnswer, PagesPart!Mounted, PagesPart!Done, Status
<1>3. r \in Mine /\ IsRequest(r) /\ Belongs(r) /\ pages_seen \in Nat /\ pages_seen <= pages_clock /\
          pages_clock \in Nat
  BY <1>1, <1>2 DEF PagesInv, PagesTyped, Registry, Mine, Sent
<1>4. pages_page = "settings" /\ ~pages_loading /\ pages_busy' = pages_busy \ {PagesPart!Button(r)}
  BY <1>2, <1>3 DEF Belongs, PagesPart!Reads, PagesPart!Freed
<1>5. r.version \in Nat /\ pages_seen' \in Nat /\ pages_seen' <= pages_clock /\
          pages_seen <= pages_seen' /\ r.version <= pages_seen'
  BY <1>2, <1>3, Later DEF IsRequest
<1>6. /\ Registry' /\ PagesTyped' /\ Disabled' /\ PagesPart!View(pages_page,
           pages_at)' = PagesPart!View(pages_page, pages_at)
      /\ \A q \in Sent' : q \in Sent \/ Again(q)
      /\ \A q \in Mine' : q \in Mine \/ Again(q)
      /\ \A q \in Mine : q # r => q \in Mine'
  BY <1>1, <1>2, <1>4, <1>5, AnswerGone
<1>7. ASSUME pages_orderly PROVE Fresh'
  <2>1. ~ToLeave(r) /\ ~ToRead(r) /\ Toggled(r)
    BY <1>2 DEF ToLeave, ToRead, Toggled, PagesPart!Reads
  <2>2. OnItsWay => OnItsWay'
    BY <1>2, <1>6, <2>1 DEF OnItsWay, ToLeave, ToRead
  <2>3. \A q \in Mine' : q.answer = "ok" => q \in Mine /\ q.version \in Nat
    BY <1>6 DEF PagesInv, PagesTyped, IsRequest, Mine, Again
  <2>4. ReadsKnown'
    <3>1. ASSUME NEW q \in Mine', q.kind \in PagesPart!Reads, q.answer = "ok"
          PROVE  \/ q.data = PagesPart!View(pages_page, pages_at) \/ q.version < pages_seen' \/ OnItsWay'
                 \/ \E t \in Mine' : Toggled(t) /\ q.version < t.version
      <4>1. q \in Mine /\ q.version \in Nat
        BY <2>3, <3>1
      <4>2. CASE q.version < pages_seen
        BY <1>3, <1>5, <4>1, <4>2
      <4>3. CASE \E t \in Mine : Toggled(t) /\ q.version < t.version
        <5>1. PICK t \in Mine : Toggled(t) /\ q.version < t.version
          BY <4>3
        <5>2. CASE t = r
          BY <1>5, <4>1, <5>1, <5>2
        <5>3. CASE t # r
          BY <1>6, <5>1, <5>3
        <5>4. QED
          BY <5>2, <5>3
      <4>4. QED
        BY <1>4, <1>7, <2>2, <3>1, <4>1, <4>2, <4>3 DEF PagesInv, Fresh, ReadsKnown
    <3>2. QED
      BY <1>2, <1>4, <1>6, <1>7, <2>3, <3>1 DEF PagesInv, Fresh, ReadsKnown, Toggled
  <2>5. TogglesKnown'
    BY <1>2, <1>4, <1>6, <1>7, <2>1, <2>3 DEF PagesInv, Fresh, TogglesKnown, Toggled, ToLeave
  <2>6. ShownOrComing'
    <3>1. CASE \E q \in Mine : ToLeave(q)
      BY <2>2, <3>1 DEF OnItsWay, ShownOrComing
    <3>2. CASE pages_at \in DOMAIN pages_rows /\ pages_rows[pages_at].status = Status(r.kind)
      <4>1. pages_data' = PagesPart!View(pages_page, pages_at)
        BY <1>2, <1>4, <3>2 DEF PagesPart!View
      <4>2. QED
        BY <1>2, <1>4, <1>6, <4>1 DEF ShownOrComing
    <3>3. QED
      BY <1>3, <1>4, <1>7, <2>1, <3>1, <3>2 DEF PagesInv, Fresh, TogglesKnown
  <2>7. QED
    BY <1>2, <1>4, <1>6, <1>7, <2>4, <2>5, <2>6 DEF PagesInv, Fresh, Again
<1>8. QED
  BY <1>2, <1>6, <1>7 DEF PagesInv

(* A list or a status was read. *)
LEMMA ReadKeeps == ASSUME PagesInv, NEW k \in DOMAIN pages_reqs, PagesPart!ReadAnswer(k) PROVE PagesInv'
<1>1. PICK r : r = pages_reqs[k]
  OBVIOUS
<1>2. /\ r.kind \in PagesPart!Reads /\ r.answer # "none" /\ r.mount = pages_mount
      /\ pages_reqs' = PagesPart!RemoveAt(pages_reqs, k) /\ pages_loading' = FALSE
      /\ pages_data' = CASE r.answer = "ok" -> r.data
                   [] r.answer # "ok" /\ pages_page = "home" -> {}
                   [] r.answer = "refused" /\ pages_page # "home" -> Broken
                   [] r.answer = "lost" /\ pages_page # "home" -> pages_data
      /\ pages_orderly' = (pages_orderly /\ r.answer = "ok" /\ r.version >= pages_seen)
      /\ pages_seen' = IF r.answer = "ok" THEN PagesPart!Max({pages_seen, r.version}) ELSE pages_seen
      /\ UNCHANGED <<pages_rows, pages_clock, pages_page, pages_at, pages_mount, pages_busy, pages_mixed>>
  BY <1>1 DEF PagesPart!ReadAnswer, PagesPart!Mounted, PagesPart!Done
<1>3. r \in Mine /\ IsRequest(r) /\ Belongs(r) /\ pages_seen \in Nat /\ pages_seen <= pages_clock /\
          pages_clock \in Nat
  BY <1>1, <1>2 DEF PagesInv, PagesTyped, Registry, Mine, Sent
<1>4. pages_seen' \in Nat /\ pages_seen' <= pages_clock /\ pages_seen <= pages_seen' /\
          (r.answer = "ok" => r.version <= pages_seen')
  BY <1>2, <1>3, Later DEF IsRequest
<1>5. pages_page = "deleted" /\ pages_data' # Nothing /\ pages_data' # Broken =>
          \A d \in pages_data' : d.name \in DBNames
  <2>1. CASE r.answer = "ok"
    <3>1. pages_data' = r.data
      BY <1>2, <2>1
    <3>2. pages_page = "deleted" => r.kind = "deleted"
      BY <1>2, <1>3 DEF Belongs, ReadOf
    <3>3. QED
      BY <1>3, <2>1, <3>1, <3>2 DEF IsRequest
  <2>2. CASE r.answer # "ok" /\ pages_page = "deleted"
    <3>1. pages_data' = Broken \/ pages_data' = pages_data
      BY <1>2, <1>3, <2>2 DEF IsRequest
    <3>2. QED
      BY <3>1 DEF PagesInv, PagesTyped
  <2>3. QED
    BY <2>1, <2>2
<1>6. /\ Registry' /\ PagesTyped' /\ Disabled' /\ PagesPart!View(pages_page,
           pages_at)' = PagesPart!View(pages_page, pages_at)
      /\ \A q \in Sent' : q \in Sent \/ Again(q)
      /\ \A q \in Mine' : q \in Mine \/ Again(q)
      /\ \A q \in Mine : q # r => q \in Mine'
  BY <1>1, <1>2, <1>4, <1>5, AnswerGone
<1>7. ASSUME pages_orderly', pages_page # "new" PROVE Fresh'
  <2>1. pages_orderly /\ r.answer = "ok" /\ r.version >= pages_seen /\ r.version \in Nat /\
            pages_data' = r.data
    BY <1>2, <1>3, <1>7 DEF IsRequest
  <2>2. ~ToLeave(r) /\ ~Toggled(r) /\ (r.version < pages_clock => ~ToRead(r))
    BY <1>2, <1>3, <2>1 DEF ToLeave, ToRead, Toggled, PagesPart!Reads
  <2>3. \A q \in Mine : ToLeave(q) \/ Toggled(q) => q \in Mine'
    BY <1>6, <2>2
  <2>4. OnItsWay /\ r.version < pages_clock => OnItsWay'
    BY <1>2, <1>6, <2>2 DEF OnItsWay, ToLeave, ToRead
  <2>5. \A q \in Mine' : q.answer = "ok" => q \in Mine /\ q.version \in Nat /\ q.version <= pages_clock
    BY <1>6 DEF PagesInv, PagesTyped, IsRequest, Mine, Again
  <2>6. Fresh
    BY <1>7, <2>1 DEF PagesInv
  <2>7. ReadsKnown'
    <3>1. ASSUME NEW q \in Mine', q.kind \in PagesPart!Reads, q.answer = "ok"
          PROVE  \/ q.data = PagesPart!View(pages_page, pages_at) \/ q.version < pages_seen' \/ OnItsWay'
                 \/ \E t \in Mine' : Toggled(t) /\ q.version < t.version
      <4>1. q \in Mine /\ q.version \in Nat /\ q.version <= pages_clock
        BY <2>5, <3>1
      <4>2. CASE q.version = pages_clock
        BY <2>6, <3>1, <4>1, <4>2 DEF Fresh, ReadsKnown
      <4>3. CASE q.version < pages_clock /\ r.version = pages_clock
        BY <1>4, <2>1, <4>1, <4>3
      <4>4. CASE r.version < pages_clock
        <5>1. q.version < pages_seen => q.version < pages_seen'
          BY <1>3, <1>4, <4>1
        <5>2. QED
          BY <2>3, <2>4, <2>6, <3>1, <4>1, <4>4, <5>1 DEF Fresh, ReadsKnown
      <4>5. QED
        BY <1>3, <4>1, <4>2, <4>3, <4>4 DEF IsRequest
    <3>2. QED
      BY <1>2, <1>6, <2>5, <2>6, <3>1 DEF Fresh, ReadsKnown, Toggled
  <2>8. TogglesKnown'
    BY <1>2, <1>6, <2>3, <2>5, <2>6 DEF Fresh, TogglesKnown, Toggled, ToLeave
  <2>9. ShownOrComing'
    <3>1. CASE r.data = PagesPart!View(pages_page, pages_at)
      BY <1>2, <1>6, <2>1, <3>1 DEF ShownOrComing
    <3>2. CASE r.data # PagesPart!View(pages_page, pages_at)
      <4>1. r.version < pages_clock
        BY <1>2, <1>3, <2>1, <2>6, <3>2 DEF Fresh, ReadsKnown, IsRequest
      <4>2. OnItsWay \/ \E t \in Mine : Toggled(t)
        BY <1>2, <1>3, <2>1, <2>6, <3>2 DEF Fresh, ReadsKnown
      <4>3. QED
        BY <2>3, <2>4, <4>1, <4>2 DEF ShownOrComing, Toggled
    <3>3. QED
      BY <3>1, <3>2
  <2>10. QED
    BY <1>2, <1>6, <2>6, <2>7, <2>8, <2>9 DEF Fresh, Again
<1>8. QED
  BY <1>2, <1>6, <1>7 DEF PagesInv

-----------------------------------------------------------------------------
(* What an operation does to the registry. *)
LEMMA EffectKeeps ==
  ASSUME PagesInv, NEW r \in Sent, PagesPart!Accepts(r), pages_rows' = PagesPart!Effect(r),
      pages_clock' \in Nat
  PROVE  /\ Registry'
         /\ r.kind \notin {"restore", "erase"}
         /\ r.kind \notin {"create", "drop", "activate", "deactivate"} => pages_rows' = pages_rows
         /\ r.kind \in {"activate", "deactivate"} =>
              r.arg \in DOMAIN pages_rows' /\ pages_rows'[r.arg].status = Status(r.kind)
<1>1. Registry /\ IsRequest(r)
  BY DEF PagesInv, PagesTyped
<1>2. r.kind \notin {"restore", "erase"}
  BY <1>1, PagesAssumption DEF PagesPart!Accepts, Registry, IsRequest
<1>3. CASE r.kind \notin {"create", "drop", "activate", "deactivate"}
  <2>1. pages_rows' = pages_rows
    BY <1>2, <1>3 DEF PagesPart!Effect
  <2>2. QED
    BY <1>1, <1>2, <1>3, <2>1 DEF Registry, PagesPart!Live, PagesPart!Dead
<1>4. CASE r.kind = "create"
  <2>1. pages_rows' = [x \in DOMAIN pages_rows \cup {r.arg} |->
                   IF x = r.arg THEN [name |-> r.arg, status |-> "active"] ELSE pages_rows[x]]
    BY <1>4 DEF PagesPart!Effect, PagesPart!With
  <2>2. r.arg \in DBNames
    BY <1>1, <1>4 DEF IsRequest
  <2>3. QED
    BY <1>1, <1>4, <2>1, <2>2 DEF Registry, PagesPart!Live, PagesPart!Dead
<1>5. CASE r.kind \in {"activate", "deactivate"}
  <2>1. pages_rows' = [x \in DOMAIN pages_rows \cup {r.arg} |->
                   IF x = r.arg THEN [name |-> pages_rows[r.arg].name, status |-> Status(r.kind)] ELSE pages_rows[x]]
    BY <1>5 DEF PagesPart!Effect, PagesPart!With, Status
  <2>2. r.arg \in PagesPart!Live
    BY <1>5 DEF PagesPart!Accepts
  <2>3. Status(r.kind) # "deleted"
    BY DEF Status
  <2>4. QED
    BY <1>1, <1>2, <1>5, <2>1, <2>2, <2>3 DEF Registry, PagesPart!Live, PagesPart!Dead
<1>6. CASE r.kind = "drop"
  <2>1. PICK d : d = <<r.arg, pages_clock>>
    OBVIOUS
  <2>2. pages_rows' = [x \in (DOMAIN pages_rows \ {r.arg}) \cup {d} |->
                   IF x = d THEN [name |-> pages_rows[r.arg].name, status |-> "deleted"] ELSE pages_rows[x]]
    BY <1>6, <2>1 DEF PagesPart!Effect
  <2>3. r.arg \in PagesPart!Live
    BY <1>6 DEF PagesPart!Accepts
  <2>4. d \in DBNames \X Nat
    BY <1>1, <2>1, <2>3 DEF Registry
  <2>5. QED
    BY <1>1, <1>6, <2>2, <2>3, <2>4 DEF Registry, PagesPart!Live, PagesPart!Dead
<1>7. QED
  BY <1>2, <1>3, <1>4, <1>5, <1>6

(* A request is carried out. *)
LEMMA OperationKeeps == ASSUME PagesInv, NEW k \in DOMAIN pages_reqs, PagesPart!Serve(k) PROVE PagesInv'
<1> PICK r : r = pages_reqs[k]
  OBVIOUS
<1> PICK changes : changes = (r.kind \notin PagesPart!Reads /\ PagesPart!Effect(r) # pages_rows)
  OBVIOUS
<1> PICK shown : shown = IF r.kind = "home" THEN PagesPart!View("home", Nothing)
                         ELSE IF r.kind = "get" THEN PagesPart!View("settings", r.arg)
                         ELSE IF r.kind = "deleted" THEN PagesPart!View("deleted", Nothing) ELSE Nothing
  OBVIOUS
<1>1. PICK how \in {"ok", "lost"} :
        /\ r.answer = "none" /\ PagesPart!Accepts(r) /\ pages_rows' = PagesPart!Effect(r)
        /\ pages_clock' = pages_clock + (IF changes THEN 1 ELSE 0)
        /\ pages_reqs' = [pages_reqs EXCEPT ![k].answer = how, ![k].version = pages_clock', ![k].data = shown]
        /\ pages_orderly' = (pages_orderly /\ (how = "lost" => ~changes))
        /\ UNCHANGED <<pages_page, pages_at, pages_mount, pages_data, pages_loading, pages_busy,
             pages_seen, pages_mixed>>
  BY DEF PagesPart!Serve, PagesPart!pageVars
<1>2. PICK e : e = [pages_reqs[k] EXCEPT !.answer = how, !.version = pages_clock', !.data = shown]
  OBVIOUS
<1>3. pages_reqs' = [pages_reqs EXCEPT ![k] = e] /\ r \in Sent /\ IsRequest(r) /\ Registry /\
          pages_clock \in Nat
  BY <1>1, <1>2 DEF PagesInv, PagesTyped, Registry, Sent
<1>4. /\ e.answer = how /\ e.version = pages_clock' /\ e.data = shown
      /\ DOMAIN e = {"kind", "arg", "mount", "answer", "data", "version"}
      /\ e.kind = r.kind /\ e.arg = r.arg /\ e.mount = r.mount
  BY <1>1, <1>2, <1>3 DEF IsRequest
<1>5. pages_clock' \in Nat /\ pages_clock <= pages_clock' /\ (changes => pages_clock < pages_clock') /\
          (~changes => pages_clock' = pages_clock)
  BY <1>1, <1>3
<1>6. /\ Registry'
      /\ r.kind \notin {"restore", "erase"}
      /\ r.kind \notin {"create", "drop", "activate", "deactivate"} => pages_rows' = pages_rows
      /\ r.kind \in {"activate", "deactivate"} => r.arg \in DOMAIN pages_rows' /\
           pages_rows'[r.arg].status = Status(r.kind)
  BY <1>1, <1>3, <1>5, EffectKeeps
<1>7. ~changes => pages_rows' = pages_rows /\ PagesPart!View(pages_page,
          pages_at)' = PagesPart!View(pages_page, pages_at)
  <2>1. r.kind \in PagesPart!Reads => pages_rows' = pages_rows
    BY <1>6 DEF PagesPart!Reads
  <2>2. QED
    BY <1>1, <2>1, ViewKept
<1>8. /\ pages_reqs' \in Seq(Sent') /\ Sent' \subseteq Sent \cup {e} /\ e \in Sent'
      /\ \A q \in Sent : q # r => q \in Sent'
      /\ DOMAIN pages_reqs' = DOMAIN pages_reqs /\ pages_reqs'[k] = e
      /\ \A j \in DOMAIN pages_reqs : j # k => pages_reqs'[j] = pages_reqs[j]
  <2>1. PagesTyped /\ pages_reqs' = [pages_reqs EXCEPT ![k] = e]
    BY <1>3 DEF PagesInv
  <2>2. QED
    BY <2>1, RequestAnswered
<1>9. Mine' \subseteq Mine \cup {e} /\ (\A q \in Mine : q # r => q \in Mine')
      /\ (r \in Mine <=> e \in Mine') /\ (e \in Mine' => e.mount = pages_mount)
  BY <1>1, <1>3, <1>4, <1>8 DEF Mine
<1>10. PagesTyped'
  <2>1. e.kind = "deleted" => \A d \in e.data : d.name \in DBNames
    <3>1. PagesPart!View("deleted",
              Nothing) = {[slug |-> x, name |-> pages_rows[x].name] : x \in PagesPart!Dead}
      BY DEF PagesPart!View
    <3>2. \A d \in PagesPart!View("deleted", Nothing) : d.name \in DBNames
      BY <1>3, <3>1 DEF Registry, PagesPart!Dead
    <3>3. QED
      BY <1>4, <3>2
  <2>2. IsRequest(e)'
    BY <1>1, <1>3, <1>4, <1>5, <1>6, <2>1 DEF IsRequest
  <2>3. \A q \in Sent : IsRequest(q)'
    BY <1>1, <1>3, <1>5 DEF PagesInv, PagesTyped, IsRequest
  <2>4. \A q \in Mine' : Belongs(q)'
    BY <1>1, <1>4, <1>9 DEF PagesInv, PagesTyped, Belongs
  <2>5. pages_seen' <= pages_clock'
    BY <1>1, <1>3, <1>5 DEF PagesInv, PagesTyped
  <2>6. QED
    BY <1>1, <1>8, <2>2, <2>3, <2>4, <2>5 DEF PagesInv, PagesTyped
<1>11. Disabled'
  <2> DEFINE f == [j \in DOMAIN pages_reqs' |-> j]
  <2>1. \A j \in DOMAIN pages_reqs' : /\ pages_reqs'[j].mount = pages_reqs[j].mount /\
                                           pages_reqs'[j].kind = pages_reqs[j].kind
                                 /\ pages_reqs'[j].arg = pages_reqs[j].arg
    BY <1>1, <1>4, <1>8
  <2>2. ASSUME NEW j \in DOMAIN pages_reqs', pages_reqs'[j].mount = pages_mount,
            pages_page \in {"new", "settings"}, pages_reqs'[j].kind \notin PagesPart!Reads
        PROVE  PagesPart!Button(pages_reqs'[j]) \in pages_busy'
    <3>1. pages_reqs[j] \in Mine /\ pages_reqs[j].kind \notin PagesPart!Reads
      BY <1>8, <2>1, <2>2 DEF Mine, Sent
    <3>2. PagesPart!Button(pages_reqs'[j]) = PagesPart!Button(pages_reqs[j])
      BY <2>1 DEF PagesPart!Button
    <3>3. QED
      BY <1>1, <2>2, <3>1, <3>2 DEF PagesInv, Disabled
  <2>3. f \in [DOMAIN pages_reqs' -> DOMAIN pages_reqs] /\
            DOMAIN pages_reqs' \in SUBSET DOMAIN pages_reqs' /\ \A j \in DOMAIN pages_reqs' : f[j] = j
    BY <1>8
  <2> HIDE DEF f
  <2>4. QED
    BY <1>1, <1>10, <2>1, <2>2, <2>3, DisabledKept
<1>12. ASSUME pages_orderly', pages_page # "new" PROVE Fresh'
  <2>1. Fresh /\ pages_orderly /\ (how = "lost" => ~changes)
    BY <1>1, <1>12 DEF PagesInv
  <2>2. ~ToLeave(r) /\ ~Toggled(r) /\ (r.kind \in PagesPart!Reads => ToRead(r))
    BY <1>1 DEF ToLeave, Toggled, ToRead
  <2>3. \A q \in Mine : ToLeave(q) \/ Toggled(q) => q \in Mine'
    BY <1>9, <2>2
  <2>4. \A q \in Sent' : q.kind \notin PagesPart!Reads => q.mount = pages_mount
    BY <1>3, <1>4, <1>8, <2>1 DEF Fresh
  <2>5. \A q \in Mine : q.version \in Nat /\ q.version <= pages_clock
    BY DEF PagesInv, PagesTyped, Mine, IsRequest
  <2>6. CASE ~changes
    <3>1. pages_rows' = pages_rows /\ pages_clock' = pages_clock /\ PagesPart!View(pages_page,
              pages_at)' = PagesPart!View(pages_page, pages_at)
      BY <1>5, <1>7, <2>6
    <3>2. r.kind \in PagesPart!Reads => ToRead(e)'
      BY <1>4 DEF ToRead
    <3>3. OnItsWay => OnItsWay'
      BY <1>9, <2>2, <2>3, <3>1, <3>2 DEF OnItsWay, ToLeave, ToRead
    <3>4. e \in Mine' /\ e.kind \in PagesPart!Reads => e.data = PagesPart!View(pages_page, pages_at)
      <4>1. ASSUME e \in Mine', e.kind \in PagesPart!Reads PROVE e.kind = ReadOf(pages_page) /\
                e.arg = pages_at
        BY <1>1, <1>10, <4>1 DEF PagesTyped, Belongs
      <4>2. ASSUME e \in Mine', e.kind \in PagesPart!Reads PROVE pages_page \in PagesPart!Pages /\
                (pages_page \in {"home", "deleted"} => pages_at = Nothing)
        BY DEF PagesInv, PagesTyped
      <4>3. QED
        BY <1>1, <1>4, <1>12, <4>1, <4>2 DEF ReadOf, PagesPart!Reads, PagesPart!Pages
    <3>5. e \in Mine' /\ Toggled(e) => pages_at \in DOMAIN pages_rows /\
              pages_rows[pages_at].status = Status(e.kind)
      <4>1. ASSUME e \in Mine', Toggled(e) PROVE e.arg = pages_at
        BY <1>1, <1>10, <4>1 DEF PagesTyped, Belongs, Toggled, PagesPart!Reads
      <4>2. QED
        BY <1>4, <1>6, <3>1, <4>1 DEF Toggled
    <3>6. ReadsKnown'
      BY <1>1, <1>4, <1>9, <2>1, <2>3, <3>1, <3>3, <3>4 DEF Fresh, ReadsKnown, Toggled
    <3>7. TogglesKnown'
      BY <1>1, <1>9, <2>1, <2>3, <3>1, <3>5 DEF Fresh, TogglesKnown, Toggled, ToLeave
    <3>8. ShownOrComing'
      BY <1>1, <2>1, <2>3, <3>1, <3>3 DEF Fresh, ShownOrComing, Toggled
    <3>9. QED
      BY <1>1, <2>4, <3>6, <3>7, <3>8 DEF Fresh
  <2>7. CASE changes
    <3>1. r.mount = pages_mount /\ r \in Mine /\ how = "ok" /\ e \in Mine'
      BY <1>1, <1>3, <1>9, <2>1, <2>7 DEF Fresh, Mine
    <3>2. r.kind \in {"create", "drop", "activate", "deactivate"}
      BY <1>1, <1>6, <2>7
    <3>3. pages_clock' \in Nat /\ pages_clock < pages_clock'
      BY <1>5, <2>7
    <3>4. e.kind \notin PagesPart!Reads
      BY <1>4, <3>2 DEF PagesPart!Reads
    <3>5. \A q \in Mine' : q.kind \in PagesPart!Reads => q \in Mine /\ q.version < pages_clock' /\
              q.version # pages_clock'
      BY <1>3, <1>9, <2>5, <3>3, <3>4
    <3>6. CASE r.kind \in {"create", "drop"}
      <4>1. ToLeave(e)
        BY <1>4, <3>1, <3>6 DEF ToLeave
      <4>2. OnItsWay'
        BY <3>1, <4>1 DEF OnItsWay, ToLeave
      <4>3. QED
        BY <1>1, <2>4, <3>1, <3>5, <4>1, <4>2 DEF Fresh, ReadsKnown, TogglesKnown, ShownOrComing, ToLeave
    <3>7. CASE r.kind \in {"activate", "deactivate"}
      <4>1. Toggled(e) /\ e.version = pages_clock'
        BY <1>4, <3>1, <3>7 DEF Toggled
      <4>2. pages_page = "settings" /\ r.arg = pages_at
        BY <3>1, <3>7 DEF PagesInv, PagesTyped, Belongs, PagesPart!Reads
      <4>3. pages_at \in DOMAIN pages_rows' /\ pages_rows'[pages_at].status = Status(e.kind)
        BY <1>4, <1>6, <3>7, <4>2
      <4>4. ASSUME NEW q \in Mine', Toggled(q) PROVE q = e
        <5>1. PICK j \in DOMAIN pages_reqs : q = pages_reqs'[j]
          BY <1>8 DEF Mine, Sent
        <5>2. CASE j # k
          <6>1. pages_reqs[j] = q /\ q.mount = pages_mount
            BY <1>1, <1>8, <5>1, <5>2 DEF Mine
          <6>2. PagesPart!Button(q) = "status" /\ PagesPart!Button(r) = "status" /\
                    q.kind \notin PagesPart!Reads
            BY <3>7, <4>4 DEF PagesPart!Button, Toggled, PagesPart!Reads
          <6>3. Apart(j, k)
            BY <4>2, <5>1 DEF PagesInv, PagesTyped, Disabled
          <6>4. QED
            BY <1>1, <3>1, <5>2, <6>1, <6>2, <6>3 DEF Apart
        <5>3. QED
          BY <1>8, <5>1, <5>2
      <4>5. ReadsKnown'
        BY <3>1, <3>5, <4>1 DEF ReadsKnown, Toggled
      <4>6. TogglesKnown'
        BY <1>1, <4>3, <4>4 DEF TogglesKnown, Toggled
      <4>7. ShownOrComing'
        BY <3>1, <4>1 DEF ShownOrComing, Toggled
      <4>8. QED
        BY <1>1, <2>4, <4>5, <4>6, <4>7 DEF Fresh
    <3>8. QED
      BY <3>2, <3>6, <3>7
  <2>8. QED
    BY <2>6, <2>7
<1>13. QED
  BY <1>1, <1>6, <1>10, <1>11, <1>12 DEF PagesInv

(* The dashboard, with the registry as it was read. *)
LEMMA PagesInit == ASSUME PagesPart!Init PROVE PagesInv
<1>1. PICK dead \in SUBSET DBNames :
        pages_rows = [s \in (DBNames \ dead) \cup (dead \X {PageClicks}) |->
                  IF s \in DBNames THEN [name |-> s, status |-> "active"]
                  ELSE [name |-> s[1], status |-> "deleted"]]
  BY DEF PagesPart!Init
<1>2. /\ pages_clock = 0 /\ pages_page = "home" /\ pages_at = Nothing /\ pages_mount = 1 /\
           pages_data = PagesPart!View("home", Nothing)
      /\ pages_loading = FALSE /\ pages_reqs = <<>> /\ pages_seen = 0 /\ pages_mixed = FALSE
  BY DEF PagesPart!Init
<1>3. ASSUME NEW s \in DOMAIN pages_rows
      PROVE  IF s \in DBNames THEN pages_rows[s].name \in DBNames /\ pages_rows[s].status = "active"
             ELSE pages_rows[s].name \in DBNames /\ pages_rows[s].status = "deleted" /\ s \in DBNames \X Nat
  <2>1. CASE s \in DBNames
    BY <1>1, <1>3, <2>1
  <2>2. CASE s \notin DBNames
    <3>1. s \in dead \X {PageClicks}
      BY <1>1, <1>3, <2>2
    <3>2. s[1] \in DBNames /\ s \in DBNames \X Nat
      <4>1. PICK n \in dead : s = <<n, PageClicks>>
        BY <3>1
      <4>2. QED
        BY <4>1, PagesAssumption
    <3>3. QED
      BY <1>1, <1>3, <2>2, <3>2
  <2>3. QED
    BY <2>1, <2>2
<1>4. Registry
  BY <1>2, <1>3 DEF Registry, PagesPart!Live, PagesPart!Dead
<1>5. Sent = {} /\ Mine = {} /\ pages_reqs \in Seq(Sent) /\ DOMAIN pages_reqs = {}
  BY <1>2 DEF Sent, Mine
<1>6. QED
  BY <1>2, <1>4, <1>5
  DEF PagesInv, PagesTyped, PagesPart!Pages, Disabled, Fresh, ReadsKnown, TogglesKnown, ShownOrComing

(* Every step of the pages and of the server. *)
LEMMA PagesStep == ASSUME PagesInv, PagesPart!Next PROVE PagesInv'
<1>1. CASE \E p \in PagesPart!Pages : \E s \in DBNames \cup {Nothing} : PagesPart!Navigate(p, s)
  BY <1>1, NavigateKeeps
<1>2. CASE PagesPart!OpenDialog \/ PagesPart!CloseDialog \/ PagesPart!AskReset \/
          PagesPart!CancelQuestion \/ \E d \in pages_data : PagesPart!AskHardDelete(d)
  <2>1. /\ UNCHANGED <<pages_rows, pages_clock, pages_page, pages_at, pages_mount, pages_data,
             pages_loading, pages_reqs, PagesPart!history>>
        /\ pages_busy' = pages_busy \/ pages_page = "home"
    BY <1>2 DEF PagesPart!OpenDialog, PagesPart!CloseDialog, PagesPart!AskReset, PagesPart!CancelQuestion,
        PagesPart!AskHardDelete
  <2>2. QED
    BY <2>1, DialogKeeps
<1>3. CASE \/ \E n \in DBNames : PagesPart!Create(n)
           \/ PagesPart!HandleToggleStatus \/ PagesPart!HandleResetDatabase \/ PagesPart!HandleDropDatabase
           \/ \E d \in pages_data : PagesPart!HandleRestore(d) \/ PagesPart!HandleHardDelete(d)
  BY <1>3, PressesKeep
<1>4. ASSUME NEW k \in DOMAIN pages_reqs,
             \/ PagesPart!Serve(k) \/ PagesPart!Refuse(k)
             \/ PagesPart!LateAnswer(k) \/ PagesPart!AnswerAndLeave(k) \/ PagesPart!ReadAnswer(k) \/
                  PagesPart!LostAnswer(k) \/ PagesPart!RefusedAnswer(k)
             \/ PagesPart!CreatedAnswer(k) \/ PagesPart!StatusAnswer(k) \/ PagesPart!ResetAnswer(k)
      PROVE  PagesInv'
  BY <1>4, OperationKeeps, RefuseKeeps, LateKeeps, LeaveKeeps, ReadKeeps, NotDoneKeeps, CreatedKeeps,
     StatusKeeps, ResetKeeps
<1>5. QED
  BY <1>1, <1>2, <1>3, <1>4 DEF PagesPart!Next

(* Nothing in flight: nothing is on its way. *)
LEMMA PagesTrue == ASSUME PagesInv PROVE PagesPart!QuietPageIsTrue /\ PagesPart!OneRequestPerButton
<1>1. ASSUME pages_orderly, pages_reqs = <<>>,
          pages_page # "new" PROVE pages_data = PagesPart!View(pages_page, pages_at) /\ ~pages_loading
  <2>1. Mine = {}
    BY <1>1 DEF Mine, Sent
  <2>2. QED
    BY <1>1, <2>1 DEF PagesInv, Fresh, ShownOrComing, OnItsWay
<1>2. ASSUME ~pages_mixed, pages_page # "home", NEW j \in DOMAIN pages_reqs, NEW k \in DOMAIN pages_reqs,
             {pages_reqs[j].mount, pages_reqs[k].mount} = {pages_mount},
                 pages_reqs[j].kind \notin PagesPart!Reads,
                     PagesPart!Button(pages_reqs[j]) = PagesPart!Button(pages_reqs[k])
      PROVE  j = k
  <2>1. pages_reqs[j].mount = pages_mount /\ pages_reqs[k].mount = pages_mount
    BY <1>2
  <2>2. QED
    BY <1>2, <2>1 DEF PagesInv, Disabled, Apart
<1>3. QED
  BY <1>1, <1>2 DEF PagesPart!QuietPageIsTrue, PagesPart!OneRequestPerButton

(* The pages of the databases show the registry once everything is answered, unless an answer    *)
(* was overtaken or lost, and no button runs its operation twice, for any databases and however  *)
(* many clicks, visits and requests in flight.                                                   *)
THEOREM PagesAreTrueHolds == Spec => []PagesAreTrue
<1> DEFINE Inv == part = "pages" => PagesInv
<1>1. Init => Inv
  BY PagesInit DEF Init, OnlyAtFirst
<1>2. Inv /\ [Next]_vars => Inv'
  <2>1. ASSUME PagesInv, UNCHANGED pages_vars PROVE PagesInv'
    BY <2>1, DialogKeeps DEF pages_vars, PagesPart!history
  <2>2. QED
    BY <2>1, PartSteps, PagesStep
<1>3. Inv => PagesAreTrue
  BY PagesTrue DEF PagesAreTrue
<1>4. QED
  BY <1>1, <1>2, <1>3, PTL DEF Spec

-----------------------------------------------------------------------------
(* Links to the files of buckets *)

(* A token whose revocation was answered is past its last second or its revocation is there. *)
Remembered ==
  \A t \in buckets_tokens : t.id \in buckets_refused =>
    \/ t.until <= buckets_now
    \/ \E r \in buckets_revocations : r.id = t.id /\ r.slug = t.slug /\ r.until = t.until

(* A token has an id of its own, and what was revoked is a token. *)
Numbered ==
  /\ \A t \in buckets_tokens : t.until \in Int
  /\ \A t, u \in buckets_tokens : t.id = u.id => t = u
  /\ \A id \in buckets_refused : \E t \in buckets_tokens : t.id = id

(* A file lies where it was uploaded or where the links of its bucket look. *)
Placed ==
  \A f \in buckets_files :
    /\ f.to \in BucketSlugs
    /\ (f.space = f.to /\ BucketsPart!Exists(f.to)) \/ f.space = BucketsPart!LinkSpace(f.to)

BucketsInv ==
  /\ buckets_now \in Nat
  /\ DOMAIN buckets_bucket = BucketSlugs
  /\ Numbered /\ Remembered /\ Placed
  /\ BucketsPart!RevokedIsRefused /\ BucketsPart!LinkOpensItsBucket

(* Without an answer there is none that is wrong. *)
LEMMA NoAnswer ==
  ASSUME buckets_got = {}
  PROVE  BucketsPart!RevokedIsRefused /\ BucketsPart!LinkOpensItsBucket
BY DEF BucketsPart!RevokedIsRefused, BucketsPart!LinkOpensItsBucket

(* No bucket, no file and no token. *)
LEMMA BucketsInit == ASSUME BucketsPart!Init PROVE BucketsInv
<1>1. buckets_tokens = {} /\ buckets_refused = {} /\ buckets_files = {} /\ buckets_got = {} /\ buckets_now = 0
      /\ DOMAIN buckets_bucket = BucketSlugs
  BY DEF BucketsPart!Init
<1>2. QED
  BY <1>1, NoAnswer DEF BucketsInv, Numbered, Remembered, Placed

(* A link is made: its token has a new id, which was not revoked. *)
LEMMA IssueKeeps ==
  ASSUME BucketsInv, NEW s, NEW scope, NEW file, BucketsPart!Issue(s, scope, file),
         UNCHANGED <<buckets_refused, buckets_revocations, buckets_now>>
  PROVE  Numbered' /\ Remembered'
<1>1. PICK id \in 1..MaxLinks :
        /\ \A u \in buckets_tokens : u.id # id
        /\ buckets_tokens' = buckets_tokens \cup
             {[id |-> id, slug |-> s, scope |-> scope, until |-> buckets_now + TokenTTL, file |-> file]}
  BY DEF BucketsPart!Issue
<1> DEFINE t == [id |-> id, slug |-> s, scope |-> scope, until |-> buckets_now + TokenTTL, file |-> file]
<1>2. t.id = id /\ t.until \in Int
  BY LinksAssumption DEF BucketsInv
<1>3. buckets_tokens' = buckets_tokens \cup {t}
  BY <1>1
<1> HIDE DEF t
<1>4. t.id \notin buckets_refused
  BY <1>1, <1>2 DEF BucketsInv, Numbered
<1>5. Numbered'
  BY <1>1, <1>2, <1>3 DEF BucketsInv, Numbered
<1>6. Remembered'
  BY <1>3, <1>4 DEF BucketsInv, Remembered
<1>7. QED
  BY <1>5, <1>6

(* A token is revoked: what was remembered of others stays. *)
LEMMA RevokeKeeps ==
  ASSUME BucketsInv, NEW s, NEW who, NEW t \in buckets_tokens, NEW byToken,
         BucketsPart!RevokeFileToken(s, who, t, byToken)
  PROVE  Numbered' /\ Remembered'
<1> DEFINE r == [id |-> t.id, slug |-> s, until |-> t.until]
<1>1. /\ t.slug = s /\ UNCHANGED <<buckets_tokens, buckets_now>>
      /\ buckets_revocations' = {q \in buckets_revocations : q.id # t.id} \cup {r}
      /\ buckets_refused' = buckets_refused \cup {t.id}
  BY DEF BucketsPart!RevokeFileToken
<1>2. r.id = t.id /\ r.slug = s /\ r.until = t.until
  OBVIOUS
<1> HIDE DEF r
<1>3. Numbered'
  BY <1>1 DEF BucketsInv, Numbered
<1>4. ASSUME NEW u \in buckets_tokens, u.id \in buckets_refused'
      PROVE  \/ u.until <= buckets_now
             \/ \E q \in buckets_revocations' : q.id = u.id /\ q.slug = u.slug /\ q.until = u.until
  <2>1. CASE u.id = t.id
    <3>1. u = t
      BY <2>1 DEF BucketsInv, Numbered
    <3>2. QED
      BY <1>1, <1>2, <3>1
  <2>2. CASE u.id # t.id
    <3>1. u.id \in buckets_refused
      BY <1>1, <1>4, <2>2
    <3>2. CASE u.until <= buckets_now
      BY <3>2
    <3>3. CASE \E q \in buckets_revocations : q.id = u.id /\ q.slug = u.slug /\ q.until = u.until
      BY <1>1, <2>2, <3>3
    <3>4. QED
      BY <3>1, <3>2, <3>3 DEF BucketsInv, Remembered
  <2>3. QED
    BY <2>1, <2>2
<1>5. Remembered'
  BY <1>1, <1>4 DEF Remembered
<1>6. QED
  BY <1>3, <1>5

(* What is cleaned up has ended, and time only ends more. *)
LEMMA TimeKeeps ==
  ASSUME BucketsInv, BucketsPart!Cleanup \/ BucketsPart!Tick
  PROVE  Numbered' /\ Remembered'
<1>1. /\ UNCHANGED <<buckets_tokens, buckets_refused>>
      /\ buckets_now' \in Nat /\ buckets_now <= buckets_now'
      /\ buckets_revocations' = buckets_revocations \/ buckets_now' = buckets_now
      /\ \A r \in buckets_revocations : r.until > buckets_now => r \in buckets_revocations'
  BY DEF BucketsPart!Cleanup, BucketsPart!Tick, BucketsInv
<1>2. Numbered'
  BY <1>1 DEF BucketsInv, Numbered
<1>3. ASSUME NEW t \in buckets_tokens, t.id \in buckets_refused
      PROVE  \/ t.until <= buckets_now'
             \/ \E r \in buckets_revocations' : r.id = t.id /\ r.slug = t.slug /\ r.until = t.until
  <2>1. t.until \in Int /\ buckets_now \in Int
    BY DEF BucketsInv, Numbered
  <2>2. CASE t.until <= buckets_now
    BY <1>1, <2>1, <2>2
  <2>3. CASE t.until > buckets_now
    <3>1. PICK r \in buckets_revocations : r.id = t.id /\ r.slug = t.slug /\ r.until = t.until
      BY <1>3, <2>1, <2>3 DEF BucketsInv, Remembered
    <3>2. r \in buckets_revocations'
      BY <1>1, <2>3, <3>1
    <3>3. QED
      BY <3>1, <3>2
  <2>4. QED
    BY <2>1, <2>2, <2>3
<1>4. QED
  BY <1>1, <1>2, <1>3 DEF Remembered

(* Tokens and revocations. *)
LEMMA TokensKept == ASSUME BucketsInv, BucketsPart!Next PROVE Numbered' /\ Remembered' /\ buckets_now' \in Nat
<1>1. buckets_now' \in Nat
  BY DEF BucketsInv, BucketsPart!Next, BucketsPart!InsertBucket, BucketsPart!DeleteBucket,
         BucketsPart!UploadFile, BucketsPart!DeleteFile, BucketsPart!PresignDownload,
         BucketsPart!PresignUpload, BucketsPart!RevokeFileToken, BucketsPart!FileShortlink,
         BucketsPart!UploadShortlink, BucketsPart!Cleanup, BucketsPart!Tick
<1>2. CASE UNCHANGED <<buckets_tokens, buckets_revocations, buckets_refused, buckets_now>>
  BY <1>2 DEF BucketsInv, Numbered, Remembered
<1>3. CASE \E s \in BucketSlugs, who \in {"admin", "key"}, f \in buckets_files :
             BucketsPart!PresignDownload(s, who, f)
  <2>1. PICK s \in BucketSlugs, who \in {"admin", "key"}, f \in buckets_files :
          BucketsPart!PresignDownload(s, who, f)
    BY <1>3
  <2>2. BucketsPart!Issue(s, "files:read", f.id) /\ UNCHANGED <<buckets_refused, buckets_revocations, buckets_now>>
    BY <2>1 DEF BucketsPart!PresignDownload
  <2>3. QED
    BY <1>1, <2>2, IssueKeeps
<1>4. CASE \E s \in BucketSlugs, who \in {"admin", "key"} : BucketsPart!PresignUpload(s, who)
  <2>1. PICK s \in BucketSlugs, who \in {"admin", "key"} : BucketsPart!PresignUpload(s, who)
    BY <1>4
  <2>2. BucketsPart!Issue(s, "files:write", 0) /\ UNCHANGED <<buckets_refused, buckets_revocations, buckets_now>>
    BY <2>1 DEF BucketsPart!PresignUpload
  <2>3. QED
    BY <1>1, <2>2, IssueKeeps
<1>5. CASE \E s \in BucketSlugs, who \in {"admin", "key"}, t \in buckets_tokens, byToken \in BOOLEAN :
             BucketsPart!RevokeFileToken(s, who, t, byToken)
  BY <1>1, <1>5, RevokeKeeps
<1>6. CASE BucketsPart!Cleanup
  BY <1>1, <1>6, TimeKeeps
<1>7. CASE BucketsPart!Tick
  BY <1>1, <1>7, TimeKeeps
<1>8. QED
  BY <1>2, <1>3, <1>4, <1>5, <1>6, <1>7
  DEF BucketsPart!Next, BucketsPart!InsertBucket, BucketsPart!DeleteBucket, BucketsPart!UploadFile,
      BucketsPart!DeleteFile, BucketsPart!FileShortlink, BucketsPart!UploadShortlink

(* A file is put where its bucket or the links of its bucket look, and stays there. *)
LEMMA StoreKeepsPlaced ==
  ASSUME BucketsInv, NEW s \in BucketSlugs, NEW space, NEW until, BucketsPart!Store(space, until, s),
         BucketsPart!Exists(s), space \in {s, BucketsPart!LinkSpace(s)}, buckets_bucket' = buckets_bucket
  PROVE  Placed'
<1> DEFINE f == [id |-> buckets_nfiles', space |-> space, until |-> until, to |-> s]
<1>1. f.space = space /\ f.to = s
  OBVIOUS
<1>2. buckets_files' = buckets_files \cup {f}
  BY DEF BucketsPart!Store
<1> HIDE DEF f
<1>3. QED
  BY <1>1, <1>2 DEF BucketsInv, Placed, BucketsPart!Exists

(* Wherever the step is from. *)
LEMMA FilesPlaced == ASSUME BucketsInv, BucketsPart!Next PROVE Placed'
<1>1. CASE buckets_files' \subseteq buckets_files /\ buckets_bucket' = buckets_bucket
  BY <1>1 DEF BucketsInv, Placed, BucketsPart!Exists
<1>2. CASE \E s \in BucketSlugs : BucketsPart!InsertBucket(s) \/ BucketsPart!DeleteBucket(s)
  <2>1. buckets_files' = buckets_files /\ \A t \in BucketSlugs : BucketsPart!Exists(t) => BucketsPart!Exists(t)'
    BY <1>2 DEF BucketsInv, BucketsPart!InsertBucket, BucketsPart!DeleteBucket, BucketsPart!Exists
  <2>2. QED
    BY <2>1 DEF BucketsInv, Placed
<1>3. CASE \E s \in BucketSlugs, who \in {"admin", "key"} :
             \E until \in {buckets_now + FileTTL, BucketsPart!Forever} : BucketsPart!UploadFile(s, who, until)
  <2>1. PICK s \in BucketSlugs, until \in {buckets_now + FileTTL, BucketsPart!Forever} :
               BucketsPart!Store(s, until, s) /\ BucketsPart!Exists(s)
               /\ buckets_bucket' = buckets_bucket
    BY <1>3 DEF BucketsPart!UploadFile, BucketsPart!Authorized
  <2>2. QED
    BY <2>1, StoreKeepsPlaced
<1>4. CASE \E s \in BucketSlugs, t \in buckets_tokens : BucketsPart!UploadShortlink(s, t)
  <2>1. PICK s \in BucketSlugs : /\ BucketsPart!Store(BucketsPart!LinkSpace(s), BucketsPart!Forever, s)
                                 /\ BucketsPart!Exists(s) /\ buckets_bucket' = buckets_bucket
    BY <1>4 DEF BucketsPart!UploadShortlink
  <2>2. QED
    BY <2>1, StoreKeepsPlaced
<1>5. QED
  BY <1>1, <1>2, <1>3, <1>4
  DEF BucketsPart!Next, BucketsPart!DeleteFile, BucketsPart!PresignDownload, BucketsPart!PresignUpload,
      BucketsPart!RevokeFileToken, BucketsPart!FileShortlink, BucketsPart!Cleanup, BucketsPart!Tick

(* What a link answers, from what is remembered and where the files lie. *)
LEMMA AnswerIsRight ==
  ASSUME BucketsInv, NEW s \in BucketSlugs, NEW t \in buckets_tokens, NEW id, BucketsPart!FileShortlink(s, t, id)
  PROVE  (BucketsPart!RevokedIsRefused /\ BucketsPart!LinkOpensItsBucket)'
<1> DEFINE found == {f \in buckets_files : f.id = id /\ f.space = BucketsPart!LinkSpace(s)}
           g == [token |-> t, id |-> id, found |-> found, stored |-> {f \in buckets_files : f.id = id}]
<1>1. buckets_got' = {g} /\ UNCHANGED <<buckets_bucket, buckets_now, buckets_refused>>
  BY DEF BucketsPart!FileShortlink
<1>2. t.slug = s /\ t.until >= buckets_now
  BY DEF BucketsPart!FileShortlink, BucketsPart!Verify
<1>3. \A r \in buckets_revocations : r.id = t.id /\ r.slug = s => ~(r.until > buckets_now)
  BY DEF BucketsPart!FileShortlink, BucketsPart!IsFileTokenRevoked
<1>4. g.token = t /\ g.found = found
  OBVIOUS
<1> HIDE DEF g
<1>5. ASSUME t.id \in buckets_refused PROVE buckets_now = t.until
  <2>1. t.until \in Int /\ buckets_now \in Int
    BY DEF BucketsInv, Numbered
  <2>2. t.until <= buckets_now
    BY <1>2, <1>3, <1>5, <2>1 DEF BucketsInv, Remembered
  <2>3. QED
    BY <1>2, <2>1, <2>2
<1>6. BucketsPart!RevokedIsRefused'
  BY <1>1, <1>4, <1>5 DEF BucketsPart!RevokedIsRefused
<1>7. ASSUME BucketsPart!Apart(s), NEW f \in found PROVE f.to = s
  <2>1. f \in buckets_files /\ f.space = BucketsPart!LinkSpace(s)
    OBVIOUS
  <2>2. f.to \in BucketSlugs
    BY <2>1 DEF BucketsInv, Placed
  <2>3. CASE f.space = f.to /\ BucketsPart!Exists(f.to)
    BY <1>7, <2>1, <2>2, <2>3 DEF BucketsPart!Apart
  <2>4. CASE f.space = BucketsPart!LinkSpace(f.to)
    BY <2>1, <2>2, <2>4, LinksAssumption
  <2>5. QED
    BY <2>1, <2>3, <2>4 DEF BucketsInv, Placed
<1> HIDE DEF found
<1>8. BucketsPart!Apart(s)' = BucketsPart!Apart(s)
  BY <1>1 DEF BucketsPart!Apart, BucketsPart!Exists
<1>9. BucketsPart!LinkOpensItsBucket'
  BY <1>1, <1>2, <1>4, <1>7, <1>8 DEF BucketsPart!LinkOpensItsBucket
<1>10. QED
  BY <1>6, <1>9

(* The invariant of the buckets. *)
LEMMA BucketsStep == ASSUME BucketsInv, BucketsPart!Next PROVE BucketsInv'
<1>1. DOMAIN buckets_bucket' = BucketSlugs
  BY DEF BucketsInv, BucketsPart!Next, BucketsPart!InsertBucket, BucketsPart!DeleteBucket,
         BucketsPart!UploadFile, BucketsPart!DeleteFile, BucketsPart!PresignDownload,
         BucketsPart!PresignUpload, BucketsPart!RevokeFileToken, BucketsPart!FileShortlink,
         BucketsPart!UploadShortlink, BucketsPart!Cleanup, BucketsPart!Tick
<1>2. (BucketsPart!RevokedIsRefused /\ BucketsPart!LinkOpensItsBucket)'
  <2>1. CASE buckets_got' = {}
    BY <2>1 DEF BucketsPart!RevokedIsRefused, BucketsPart!LinkOpensItsBucket
  <2>2. CASE \E s \in BucketSlugs, t \in buckets_tokens, id \in 1..buckets_nfiles : BucketsPart!FileShortlink(s, t, id)
    <3>1. PICK s \in BucketSlugs, t \in buckets_tokens, id \in 1..buckets_nfiles :
               BucketsPart!FileShortlink(s, t, id)
      BY <2>2
    <3>2. QED
      BY <3>1, AnswerIsRight
  <2>3. QED
    BY <2>1, <2>2
    DEF BucketsPart!Next, BucketsPart!InsertBucket, BucketsPart!DeleteBucket, BucketsPart!UploadFile,
        BucketsPart!DeleteFile, BucketsPart!PresignDownload, BucketsPart!PresignUpload,
        BucketsPart!RevokeFileToken, BucketsPart!UploadShortlink, BucketsPart!Cleanup, BucketsPart!Tick
<1>3. QED
  BY <1>1, <1>2, TokensKept, FilesPlaced DEF BucketsInv

(* A revoked link opens nothing, and a link opens what was given to its bucket. *)
THEOREM LinksOpenTheirOwnHolds == Spec => []LinksOpenTheirOwn
<1> DEFINE Inv == part = "buckets" => BucketsInv
<1>1. Init => Inv
  BY BucketsInit DEF Init, OnlyAtFirst
<1>2. Inv /\ [Next]_vars => Inv'
  <2>1. ASSUME BucketsInv, UNCHANGED buckets_vars PROVE BucketsInv'
    BY <2>1 DEF buckets_vars, BucketsInv, Numbered, Remembered, Placed, BucketsPart!RevokedIsRefused,
                BucketsPart!LinkOpensItsBucket, BucketsPart!Apart, BucketsPart!Exists
  <2>2. QED
    BY <2>1, PartSteps, BucketsStep
<1>3. Inv => LinksOpenTheirOwn
  BY DEF BucketsInv, LinksOpenTheirOwn
<1>4. QED
  BY <1>1, <1>2, <1>3, PTL DEF Spec

-----------------------------------------------------------------------------
(* Channels to a database elsewhere *)

(* The promises of a connection: question by number. *)
Promises == UNION {[S -> Nat] : S \in SUBSET Nat}
Connections == [state : {"connecting", "ready", "closed"}, counter : Nat, queryPromise : Promises]

(* One listener: the only one of a socket, or of the window. *)
Single == embed_via = "socket" \/ Len(embed_conns) <= 1

OnTheWay == embed_requests \cup embed_answers
Waiting(c) == embed_conns[c].queryPromise

(* What is on its way carries a number its connection gave; while somebody waits for the number it is *)
(* the one who asked. *)
Addressed ==
  \A x \in OnTheWay :
    /\ x.conn \in DOMAIN embed_conns
    /\ x.id \in Nat /\ x.id <= embed_conns[x.conn].counter
    /\ x.id \in DOMAIN Waiting(x.conn) => Waiting(x.conn)[x.id] = x.of

(* A question is settled or on its way to somebody who waits for it. *)
Followed(n) ==
  n \in DOMAIN embed_settled \/
  \E x \in OnTheWay : x.of = n /\ x.conn = embed_asked[n] /\ x.id \in DOMAIN Waiting(x.conn)

EmbedTyped ==
  /\ embed_via \in {"window", "socket"}
  /\ embed_conns \in Seq(Connections)
  /\ embed_asked \in Seq(Nat)

EmbedInv ==
  /\ EmbedTyped /\ Addressed
  /\ \A n \in DOMAIN embed_settled : embed_settled[n].by = n
  /\ \A n \in DOMAIN embed_asked :
       /\ embed_asked[n] \in DOMAIN embed_conns
       /\ embed_conns[embed_asked[n]].state # "connecting"
       /\ embed_conns[embed_asked[n]].state = "ready" => Followed(n)

(* Nothing was asked yet. *)
LEMMA EmbedInit == ASSUME EmbedPart!Init PROVE EmbedInv
BY DEF EmbedPart!Init, EmbedInv, EmbedTyped, Addressed, OnTheWay

(* A number that is answered or given. *)
LEMMA PromisesKept ==
  ASSUME NEW f \in Promises, NEW i, NEW n \in Nat
  PROVE  /\ i \in Nat => EmbedPart!With(f, {i}, n) \in Promises
         /\ [j \in DOMAIN f \ {i} |-> f[j]] \in Promises
         /\ DOMAIN f \subseteq Nat
<1>1. DOMAIN f \subseteq Nat /\ \A j \in DOMAIN f : f[j] \in Nat
  BY DEF Promises
<1>2. EmbedPart!With(f, {i}, n) \in [DOMAIN f \cup {i} -> Nat]
  BY <1>1 DEF EmbedPart!With
<1>3. [j \in DOMAIN f \ {i} |-> f[j]] \in [DOMAIN f \ {i} -> Nat]
  BY <1>1
<1>4. (i \in Nat => DOMAIN f \cup {i} \in SUBSET Nat) /\ DOMAIN f \ {i} \in SUBSET Nat
  BY <1>1
<1> HIDE DEF Promises
<1>5. QED
  BY <1>1, <1>2, <1>3, <1>4 DEF Promises

(* Nobody waits. *)
LEMMA NoPromise == [i \in {} |-> 0] \in Promises
<1>1. [i \in {} |-> 0] \in [{} -> Nat] /\ {} \in SUBSET Nat
  OBVIOUS
<1>2. QED
  BY <1>1 DEF Promises

(* Another state of a connection. *)
LEMMA StateChanged ==
  ASSUME EmbedTyped, NEW c \in DOMAIN embed_conns, NEW s \in {"connecting", "ready", "closed"},
         embed_conns' = [embed_conns EXCEPT ![c].state = s]
  PROVE  /\ embed_conns' \in Seq(Connections) /\ DOMAIN embed_conns' = DOMAIN embed_conns
         /\ \A d \in DOMAIN embed_conns : /\ embed_conns'[d].counter = embed_conns[d].counter
                                          /\ embed_conns'[d].queryPromise = embed_conns[d].queryPromise
                                          /\ d # c => embed_conns'[d] = embed_conns[d]
         /\ embed_conns'[c].state = s
<1> DEFINE k == [embed_conns[c] EXCEPT !.state = s]
<1>1. embed_conns \in Seq(Connections) /\ embed_conns[c] \in Connections
  BY DEF EmbedTyped
<1>2. k \in Connections /\ k.counter = embed_conns[c].counter /\ k.queryPromise = embed_conns[c].queryPromise
      /\ k.state = s
  BY <1>1 DEF Connections
<1>3. embed_conns' = [embed_conns EXCEPT ![c] = k]
  OBVIOUS
<1> HIDE DEF k
<1>4. QED
  BY <1>1, <1>2, <1>3

(* A connection is made. *)
LEMMA ListenKeeps == ASSUME EmbedInv, EmbedPart!Listen PROVE EmbedInv'
<1> DEFINE new == [state |-> IF embed_via = "window" THEN "ready" ELSE "connecting",
                   counter |-> 0, queryPromise |-> [i \in {} |-> 0]]
<1>1. new \in Connections
  BY NoPromise DEF Connections
<1>2. embed_conns' = Append(embed_conns, new)
      /\ UNCHANGED <<embed_via, embed_requests, embed_answers, embed_asked, embed_settled>>
  BY DEF EmbedPart!Listen
<1> HIDE DEF new
<1>3. embed_conns' \in Seq(Connections)
  BY <1>1, <1>2 DEF EmbedInv, EmbedTyped
<1>4. \A c \in DOMAIN embed_conns : c \in DOMAIN embed_conns' /\ embed_conns'[c] = embed_conns[c]
  BY <1>1, <1>2 DEF EmbedInv, EmbedTyped
<1>5. Addressed'
  BY <1>2, <1>4 DEF EmbedInv, EmbedTyped, Addressed, OnTheWay, Waiting
<1>6. \A n \in DOMAIN embed_asked : Followed(n) => Followed(n)'
  BY <1>2, <1>4 DEF EmbedInv, EmbedTyped, Followed, Addressed, OnTheWay, Waiting
<1>7. QED
  BY <1>2, <1>3, <1>4, <1>5, <1>6 DEF EmbedInv, EmbedTyped

(* A socket opens: nothing was asked on it. *)
LEMMA ReadyKeeps == ASSUME EmbedInv, NEW c \in DOMAIN embed_conns, EmbedPart!OnReady(c) PROVE EmbedInv'
<1>1. /\ embed_conns[c].state = "connecting"
      /\ embed_conns' = [embed_conns EXCEPT ![c].state = "ready"]
      /\ UNCHANGED <<embed_via, embed_requests, embed_answers, embed_asked, embed_settled>>
  BY DEF EmbedPart!OnReady
<1>2. /\ embed_conns' \in Seq(Connections) /\ DOMAIN embed_conns' = DOMAIN embed_conns
      /\ \A d \in DOMAIN embed_conns : /\ embed_conns'[d].counter = embed_conns[d].counter
                                       /\ embed_conns'[d].queryPromise = embed_conns[d].queryPromise
                                       /\ d # c => embed_conns'[d] = embed_conns[d]
      /\ embed_conns'[c].state = "ready"
  BY <1>1, StateChanged DEF EmbedInv
<1>4. Addressed'
  BY <1>1, <1>2 DEF EmbedInv, EmbedTyped, Addressed, OnTheWay, Waiting
<1>5. \A n \in DOMAIN embed_asked : Followed(n) => Followed(n)'
  BY <1>1, <1>2 DEF EmbedInv, EmbedTyped, Followed, Addressed, OnTheWay, Waiting
<1>6. QED
  BY <1>1, <1>2, <1>4, <1>5 DEF EmbedInv, EmbedTyped

(* A socket closes: what was asked on it is not followed any more. *)
LEMMA CloseKeeps == ASSUME EmbedInv, NEW c \in DOMAIN embed_conns, EmbedPart!Close(c) PROVE EmbedInv'
<1>1. /\ embed_conns' = [embed_conns EXCEPT ![c].state = "closed"]
      /\ embed_requests' = {r \in embed_requests : r.conn # c}
      /\ embed_answers' = {a \in embed_answers : a.conn # c}
      /\ UNCHANGED <<embed_via, embed_asked, embed_settled>>
  BY DEF EmbedPart!Close
<1>2. /\ embed_conns' \in Seq(Connections) /\ DOMAIN embed_conns' = DOMAIN embed_conns
      /\ \A d \in DOMAIN embed_conns : /\ embed_conns'[d].counter = embed_conns[d].counter
                                       /\ embed_conns'[d].queryPromise = embed_conns[d].queryPromise
                                       /\ d # c => embed_conns'[d] = embed_conns[d]
      /\ embed_conns'[c].state = "closed"
  BY <1>1, StateChanged DEF EmbedInv
<1>4. Addressed'
  BY <1>1, <1>2 DEF EmbedInv, EmbedTyped, Addressed, OnTheWay, Waiting
<1>5. \A n \in DOMAIN embed_asked : embed_asked[n] # c /\ Followed(n) => Followed(n)'
  BY <1>1, <1>2 DEF EmbedInv, EmbedTyped, Followed, Addressed, OnTheWay, Waiting
<1>6. QED
  BY <1>1, <1>2, <1>4, <1>5 DEF EmbedInv, EmbedTyped

(* A question is answered: it goes on under its number. *)
LEMMA ServeKeeps ==
  ASSUME EmbedInv, NEW r \in embed_requests, NEW error \in BOOLEAN, EmbedPart!Serve(r, error)
  PROVE  EmbedInv'
<1> DEFINE a == [conn |-> r.conn, id |-> r.id, of |-> r.of, error |-> error]
<1>1. /\ embed_requests' = embed_requests \ {r} /\ embed_answers' = embed_answers \cup {a}
      /\ UNCHANGED <<embed_via, embed_conns, embed_asked, embed_settled>>
  BY DEF EmbedPart!Serve
<1>2. a.conn = r.conn /\ a.id = r.id /\ a.of = r.of
  OBVIOUS
<1> HIDE DEF a
<1>3. Addressed'
  BY <1>1, <1>2 DEF EmbedInv, EmbedTyped, Addressed, OnTheWay, Waiting
<1>4. \A n \in DOMAIN embed_asked : Followed(n) => Followed(n)'
  BY <1>1, <1>2 DEF Followed, OnTheWay, Waiting
<1>5. QED
  BY <1>1, <1>3, <1>4 DEF EmbedInv, EmbedTyped

(* Another connection in the place of one. *)
LEMMA ConnectionChanged ==
  ASSUME EmbedTyped, NEW c \in DOMAIN embed_conns, NEW k \in Connections,
         embed_conns' = [embed_conns EXCEPT ![c] = k]
  PROVE  /\ embed_conns' \in Seq(Connections) /\ DOMAIN embed_conns' = DOMAIN embed_conns
         /\ \A d \in DOMAIN embed_conns : d # c => embed_conns'[d] = embed_conns[d]
         /\ embed_conns'[c] = k
BY DEF EmbedTyped

(* A question is asked: its number was never given before. *)
LEMMA QueryKeeps == ASSUME EmbedInv, NEW c \in DOMAIN embed_conns, EmbedPart!Query(c) PROVE EmbedInv'
<1> PICK n \in Nat : n = Len(embed_asked) + 1
  BY DEF EmbedInv, EmbedTyped
<1> DEFINE id == embed_conns[c].counter + 1
           k == [embed_conns[c] EXCEPT !.counter = id, !.queryPromise = EmbedPart!With(Waiting(c), {id}, n)]
           r == [conn |-> c, id |-> id, of |-> n]
<1>1. /\ embed_conns[c].state # "connecting"
      /\ embed_asked' = Append(embed_asked, c)
      /\ embed_requests' = IF embed_conns[c].state = "closed" THEN embed_requests ELSE embed_requests \cup {r}
      /\ UNCHANGED <<embed_via, embed_answers, embed_settled>>
  BY DEF EmbedPart!Query, EmbedPart!NextId
<1>2. embed_conns' = [embed_conns EXCEPT ![c] = k]
  BY DEF EmbedPart!Query, EmbedPart!NextId, Waiting
<1>3. embed_conns[c] \in Connections /\ Waiting(c) \in Promises /\ id \in Nat /\ c \in Nat
  <2>1. embed_conns[c] \in Connections /\ c \in Nat
    BY DEF EmbedInv, EmbedTyped
  <2>2. QED
    BY <2>1 DEF Connections, Waiting
<1>4. k \in Connections
  <2>1. EmbedPart!With(Waiting(c), {id}, n) \in Promises
    BY <1>3, PromisesKept
  <2>2. QED
    BY <1>3, <2>1 DEF Connections
<1>5. k.state = embed_conns[c].state /\ k.counter = id /\ k.queryPromise = EmbedPart!With(Waiting(c), {id}, n)
  BY <1>3 DEF Connections
<1>6. r.conn = c /\ r.id = id /\ r.of = n
  OBVIOUS
<1> HIDE DEF r, k
<1>7. /\ embed_conns' \in Seq(Connections) /\ DOMAIN embed_conns' = DOMAIN embed_conns
      /\ \A d \in DOMAIN embed_conns : d # c => embed_conns'[d] = embed_conns[d]
      /\ embed_conns'[c] = k
  BY <1>2, <1>4, ConnectionChanged DEF EmbedInv
<1>8. /\ DOMAIN k.queryPromise = DOMAIN Waiting(c) \cup {id}
      /\ k.queryPromise[id] = n
      /\ \A i \in DOMAIN Waiting(c) : i # id => k.queryPromise[i] = Waiting(c)[i]
  BY <1>5 DEF EmbedPart!With
<1>9. \A x \in OnTheWay' : x \in OnTheWay \/ (x = r /\ embed_conns[c].state # "closed")
  BY <1>1 DEF OnTheWay
<1>10. Addressed'
  <2>1. ASSUME NEW x \in OnTheWay', x = r \/ (x \in OnTheWay /\ x.conn = c)
        PROVE  /\ x.conn = c /\ x.id \in Nat /\ x.id <= id
               /\ x.id \in DOMAIN k.queryPromise => k.queryPromise[x.id] = x.of
    <3>1. CASE x = r
      BY <1>3, <1>6, <1>8, <3>1
    <3>2. CASE x \in OnTheWay /\ x.conn = c
      <4>1. /\ x.id \in Nat /\ x.id < id
            /\ x.id \in DOMAIN Waiting(c) => Waiting(c)[x.id] = x.of
        BY <1>3, <3>2 DEF EmbedInv, EmbedTyped, Addressed, Connections
      <4>2. QED
        BY <1>3, <1>8, <3>2, <4>1
    <3>3. QED
      BY <2>1, <3>1, <3>2
  <2>2. ASSUME NEW x \in OnTheWay, x.conn # c
        PROVE  /\ x.conn \in DOMAIN embed_conns' /\ x.id \in Nat /\ x.id <= embed_conns'[x.conn].counter
               /\ x.id \in DOMAIN Waiting(x.conn)' => Waiting(x.conn)'[x.id] = x.of
    BY <1>7, <2>2 DEF EmbedInv, EmbedTyped, Addressed, Waiting
  <2>3. QED
    BY <1>5, <1>7, <1>9, <2>1, <2>2 DEF Addressed, Waiting
<1>11. ASSUME NEW m \in DOMAIN embed_asked, Followed(m) PROVE Followed(m)'
  <2>1. OnTheWay \subseteq OnTheWay' /\ embed_asked'[m] = embed_asked[m] /\ embed_settled' = embed_settled
    BY <1>1 DEF EmbedInv, EmbedTyped, OnTheWay
  <2>2. \A d \in DOMAIN embed_conns : DOMAIN Waiting(d) \subseteq DOMAIN Waiting(d)'
    BY <1>7, <1>8 DEF Waiting
  <2>3. \A x \in OnTheWay : x.conn \in DOMAIN embed_conns
    BY DEF EmbedInv, EmbedTyped, Addressed
  <2>4. QED
    BY <1>11, <2>1, <2>2, <2>3 DEF Followed
<1>12. embed_conns[c].state # "closed" => Followed(n)'
  <2>1. ASSUME embed_conns[c].state # "closed" PROVE r \in OnTheWay'
    BY <1>1, <2>1 DEF OnTheWay
  <2>2. embed_asked'[n] = c
    BY <1>1 DEF EmbedInv, EmbedTyped
  <2>3. r.id \in DOMAIN Waiting(c)'
    BY <1>6, <1>7, <1>8 DEF Waiting
  <2>4. QED
    BY <1>6, <2>1, <2>2, <2>3 DEF Followed
<1>13. embed_asked' \in Seq(Nat) /\ DOMAIN embed_asked' = DOMAIN embed_asked \cup {n}
       /\ embed_asked'[n] = c /\ \A m \in DOMAIN embed_asked : embed_asked'[m] = embed_asked[m]
  BY <1>1, <1>3 DEF EmbedInv, EmbedTyped
<1>14. \A d \in DOMAIN embed_conns : embed_conns'[d].state = embed_conns[d].state
  BY <1>5, <1>7
<1> HIDE DEF id
<1>15. \A m \in DOMAIN embed_asked' :
         /\ embed_asked'[m] \in DOMAIN embed_conns'
         /\ embed_conns'[embed_asked'[m]].state # "connecting"
         /\ embed_conns'[embed_asked'[m]].state = "ready" => Followed(m)'
  <2>1. ASSUME NEW m \in DOMAIN embed_asked
        PROVE  /\ embed_asked'[m] \in DOMAIN embed_conns'
               /\ embed_conns'[embed_asked'[m]].state # "connecting"
               /\ embed_conns'[embed_asked'[m]].state = "ready" => Followed(m)'
    <3>1. /\ embed_asked[m] \in DOMAIN embed_conns
          /\ embed_conns[embed_asked[m]].state # "connecting"
          /\ embed_conns[embed_asked[m]].state = "ready" => Followed(m)
      BY DEF EmbedInv, EmbedTyped
    <3>2. embed_asked'[m] = embed_asked[m]
      BY <1>13
    <3>3. QED
      BY <1>7, <1>11, <1>14, <3>1, <3>2
  <2>2. /\ embed_asked'[n] \in DOMAIN embed_conns'
        /\ embed_conns'[embed_asked'[n]].state # "connecting"
        /\ embed_conns'[embed_asked'[n]].state = "ready" => Followed(n)'
    BY <1>1, <1>7, <1>12, <1>13, <1>14
  <2>3. QED
    BY <1>13, <2>1, <2>2
<1>16. QED
  BY <1>1, <1>7, <1>10, <1>13, <1>15 DEF EmbedInv, EmbedTyped

(* A message settles the promise that waits for its number: the question it answers. *)
LEMMA MessageKeeps ==
  ASSUME EmbedInv, Single, NEW a \in embed_answers, EmbedPart!OnMessage(a)
  PROVE  EmbedInv'
<1> DEFINE c == a.conn
           heard == a.id \in DOMAIN Waiting(c)
           k == [embed_conns[c] EXCEPT !.queryPromise = [i \in DOMAIN Waiting(c) \ {a.id} |-> Waiting(c)[i]]]
<1>1. c \in DOMAIN embed_conns /\ a.id \in Nat /\ (heard => Waiting(c)[a.id] = a.of)
  BY DEF EmbedInv, EmbedTyped, Addressed, OnTheWay
<1>2. \A d \in DOMAIN embed_conns : embed_via = "window" \/ d = c => d = c
  BY <1>1 DEF EmbedInv, EmbedTyped, Single
<1>3. EmbedPart!Hearers(a) = IF heard THEN {c} ELSE {}
  BY <1>1, <1>2 DEF EmbedPart!Hearers, Waiting
<1>4. /\ embed_answers' = embed_answers \ {a}
      /\ UNCHANGED <<embed_via, embed_requests, embed_asked>>
      /\ embed_settled' = EmbedPart!With(embed_settled, {embed_conns[d].queryPromise[a.id] : d \in EmbedPart!Hearers(a)},
                                         [by |-> a.of, error |-> a.error])
  BY DEF EmbedPart!OnMessage
<1>5. /\ DOMAIN embed_settled' = DOMAIN embed_settled \cup (IF heard THEN {a.of} ELSE {})
      /\ heard => embed_settled'[a.of].by = a.of
      /\ \A n \in DOMAIN embed_settled : n # a.of \/ ~heard => embed_settled'[n] = embed_settled[n]
  <2>1. {embed_conns[d].queryPromise[a.id] : d \in EmbedPart!Hearers(a)} = IF heard THEN {a.of} ELSE {}
    BY <1>1, <1>3 DEF Waiting
  <2>2. QED
    BY <1>4, <2>1 DEF EmbedPart!With
<1>6. embed_conns' = IF heard THEN [embed_conns EXCEPT ![c] = k] ELSE embed_conns
  <2>1. embed_conns' = [d \in DOMAIN embed_conns |->
                          IF d \in EmbedPart!Hearers(a)
                          THEN [embed_conns[d] EXCEPT !.queryPromise =
                                  [i \in DOMAIN embed_conns[d].queryPromise \ {a.id} |-> embed_conns[d].queryPromise[i]]]
                          ELSE embed_conns[d]]
    BY DEF EmbedPart!OnMessage
  <2>2. embed_conns = [d \in DOMAIN embed_conns |-> embed_conns[d]]
    BY DEF EmbedInv, EmbedTyped
  <2>3. QED
    BY <1>1, <1>3, <2>1, <2>2 DEF Waiting
<1>7. embed_conns[c] \in Connections /\ Waiting(c) \in Promises
  <2>1. embed_conns[c] \in Connections
    BY <1>1 DEF EmbedInv, EmbedTyped
  <2>2. QED
    BY <2>1 DEF Connections, Waiting
<1>8. /\ k \in Connections /\ k.state = embed_conns[c].state /\ k.counter = embed_conns[c].counter
      /\ k.queryPromise = [i \in DOMAIN Waiting(c) \ {a.id} |-> Waiting(c)[i]]
  <2>1. [i \in DOMAIN Waiting(c) \ {a.id} |-> Waiting(c)[i]] \in Promises
    BY <1>1, <1>7, PromisesKept
  <2>2. QED
    BY <1>7, <2>1 DEF Connections
<1> HIDE DEF k
<1>9. /\ embed_conns' \in Seq(Connections) /\ DOMAIN embed_conns' = DOMAIN embed_conns
      /\ \A d \in DOMAIN embed_conns : /\ embed_conns'[d].state = embed_conns[d].state
                                       /\ embed_conns'[d].counter = embed_conns[d].counter
                                       /\ d # c => embed_conns'[d] = embed_conns[d]
      /\ DOMAIN Waiting(c)' = DOMAIN Waiting(c) \ {a.id}
      /\ \A i \in DOMAIN Waiting(c)' : Waiting(c)'[i] = Waiting(c)[i]
  <2>1. CASE heard
    <3>1. /\ embed_conns' \in Seq(Connections) /\ DOMAIN embed_conns' = DOMAIN embed_conns
          /\ \A d \in DOMAIN embed_conns : d # c => embed_conns'[d] = embed_conns[d]
          /\ embed_conns'[c] = k
      BY <1>1, <1>6, <1>8, <2>1, ConnectionChanged DEF EmbedInv
    <3>2. QED
      BY <1>1, <1>8, <3>1 DEF Waiting
  <2>2. CASE ~heard
    BY <1>6, <2>2 DEF EmbedInv, EmbedTyped, Waiting
  <2>3. QED
    BY <2>1, <2>2
<1> HIDE DEF heard
<1>10. Addressed'
  <2>1. \A x \in OnTheWay' : x \in OnTheWay
    BY <1>4 DEF OnTheWay
  <2>2. ASSUME NEW x \in OnTheWay
        PROVE  /\ x.conn \in DOMAIN embed_conns' /\ x.id \in Nat
               /\ x.id <= embed_conns'[x.conn].counter
               /\ x.id \in DOMAIN Waiting(x.conn)' => Waiting(x.conn)'[x.id] = x.of
    <3>1. /\ x.conn \in DOMAIN embed_conns /\ x.id \in Nat /\ x.id <= embed_conns[x.conn].counter
          /\ x.id \in DOMAIN Waiting(x.conn) => Waiting(x.conn)[x.id] = x.of
      BY DEF EmbedInv, EmbedTyped, Addressed
    <3>2. CASE x.conn = c
      BY <1>9, <3>1, <3>2
    <3>3. CASE x.conn # c
      BY <1>9, <3>1, <3>3 DEF Waiting
    <3>4. QED
      BY <3>2, <3>3
  <2>3. QED
    BY <2>1, <2>2 DEF Addressed
<1>11. ASSUME NEW n \in DOMAIN embed_asked, Followed(n) PROVE Followed(n)'
  <2>1. CASE n \in DOMAIN embed_settled
    BY <1>5, <2>1 DEF Followed
  <2>2. CASE \E x \in OnTheWay : x.of = n /\ x.conn = embed_asked[n] /\ x.id \in DOMAIN Waiting(x.conn)
    <3>1. PICK x \in OnTheWay : x.of = n /\ x.conn = embed_asked[n] /\ x.id \in DOMAIN Waiting(x.conn)
      BY <2>2
    <3>2. Waiting(x.conn)[x.id] = n /\ x.conn \in DOMAIN embed_conns
      BY <3>1 DEF EmbedInv, EmbedTyped, Addressed
    <3>3. CASE x.conn = c /\ x.id = a.id
      BY <1>1, <1>5, <3>1, <3>2, <3>3 DEF Followed, heard
    <3>4. CASE ~(x.conn = c /\ x.id = a.id)
      <4>1. x \in OnTheWay'
        BY <1>4, <3>1, <3>4 DEF OnTheWay
      <4>2. x.id \in DOMAIN Waiting(x.conn)'
        BY <1>9, <3>1, <3>2, <3>4 DEF Waiting
      <4>3. QED
        BY <1>4, <3>1, <4>1, <4>2 DEF Followed
    <3>5. QED
      BY <3>3, <3>4
  <2>3. QED
    BY <1>11, <2>1, <2>2 DEF Followed
<1>12. EmbedTyped' /\ \A n \in DOMAIN embed_settled' : embed_settled'[n].by = n
  <2>1. EmbedTyped'
    BY <1>4, <1>9 DEF EmbedInv, EmbedTyped
  <2>2. \A n \in DOMAIN embed_settled' : embed_settled'[n].by = n
    BY <1>5 DEF EmbedInv
  <2>3. QED
    BY <2>1, <2>2
<1>13. ASSUME NEW n \in DOMAIN embed_asked'
       PROVE  /\ embed_asked'[n] \in DOMAIN embed_conns'
              /\ embed_conns'[embed_asked'[n]].state # "connecting"
              /\ embed_conns'[embed_asked'[n]].state = "ready" => Followed(n)'
  <2>1. embed_asked' = embed_asked
    BY <1>4
  <2>2. /\ embed_asked[n] \in DOMAIN embed_conns
        /\ embed_conns[embed_asked[n]].state # "connecting"
        /\ embed_conns[embed_asked[n]].state = "ready" => Followed(n)
    BY <2>1 DEF EmbedInv
  <2>3. QED
    BY <1>9, <1>11, <2>1, <2>2
<1>14. QED
  BY <1>10, <1>12, <1>13 DEF EmbedInv

(* However many listen, connections stay connections. *)
LEMMA EmbedTypedStep == ASSUME EmbedTyped, EmbedPart!Next PROVE EmbedTyped'
<1>1. CASE EmbedPart!Listen
  <2>1. [state |-> IF embed_via = "window" THEN "ready" ELSE "connecting",
         counter |-> 0, queryPromise |-> [i \in {} |-> 0]] \in Connections
    BY NoPromise DEF Connections
  <2>2. QED
    BY <1>1, <2>1 DEF EmbedPart!Listen, EmbedTyped
<1>2. CASE \E c \in DOMAIN embed_conns : EmbedPart!OnReady(c)
  BY <1>2, StateChanged DEF EmbedPart!OnReady, EmbedTyped
<1>3. CASE \E c \in DOMAIN embed_conns : EmbedPart!Close(c)
  BY <1>3, StateChanged DEF EmbedPart!Close, EmbedTyped
<1>4. CASE \E c \in DOMAIN embed_conns : EmbedPart!Query(c)
  <2>1. PICK c \in DOMAIN embed_conns : EmbedPart!Query(c)
    BY <1>4
  <2> PICK n \in Nat : n = Len(embed_asked) + 1
    BY DEF EmbedTyped
  <2> DEFINE id == embed_conns[c].counter + 1
             k == [embed_conns[c] EXCEPT !.counter = id, !.queryPromise = EmbedPart!With(Waiting(c), {id}, n)]
  <2>2. embed_conns' = [embed_conns EXCEPT ![c] = k] /\ embed_asked' = Append(embed_asked, c) /\ embed_via' = embed_via
    BY <2>1 DEF EmbedPart!Query, EmbedPart!NextId, Waiting
  <2>3. embed_conns[c] \in Connections /\ c \in Nat
    BY DEF EmbedTyped
  <2>4. Waiting(c) \in Promises /\ id \in Nat
    BY <2>3 DEF Connections, Waiting
  <2>5. EmbedPart!With(Waiting(c), {id}, n) \in Promises
    BY <2>4, PromisesKept
  <2>6. k \in Connections
    BY <2>3, <2>4, <2>5 DEF Connections
  <2> HIDE DEF k
  <2>7. QED
    BY <2>2, <2>3, <2>6, ConnectionChanged DEF EmbedTyped
<1>5. CASE \E r \in embed_requests, error \in BOOLEAN : EmbedPart!Serve(r, error)
  BY <1>5 DEF EmbedPart!Serve, EmbedTyped
<1>6. CASE \E a \in embed_answers : EmbedPart!OnMessage(a)
  <2>1. PICK a \in embed_answers : EmbedPart!OnMessage(a)
    BY <1>6
  <2> DEFINE k(d) == [embed_conns[d] EXCEPT !.queryPromise =
                        [i \in DOMAIN embed_conns[d].queryPromise \ {a.id} |-> embed_conns[d].queryPromise[i]]]
  <2>2. /\ embed_conns' = [d \in DOMAIN embed_conns |->
                           IF d \in EmbedPart!Hearers(a) THEN k(d) ELSE embed_conns[d]]
        /\ UNCHANGED <<embed_via, embed_asked>>
    BY <2>1 DEF EmbedPart!OnMessage
  <2>3. ASSUME NEW d \in DOMAIN embed_conns PROVE embed_conns[d] \in Connections /\ k(d) \in Connections
    <3>1. embed_conns[d] \in Connections
      BY DEF EmbedTyped
    <3>2. embed_conns[d].queryPromise \in Promises
      BY <3>1 DEF Connections
    <3>3. [i \in DOMAIN embed_conns[d].queryPromise \ {a.id} |-> embed_conns[d].queryPromise[i]] \in Promises
      BY <3>2, PromisesKept
    <3>4. QED
      BY <3>1, <3>3 DEF Connections
  <2> HIDE DEF k
  <2>4. embed_conns' \in [1..Len(embed_conns) -> Connections] /\ Len(embed_conns) \in Nat
    BY <2>2, <2>3 DEF EmbedTyped
  <2>5. QED
    BY <2>2, <2>4 DEF EmbedTyped
<1>7. QED
  BY <1>1, <1>2, <1>3, <1>4, <1>5, <1>6 DEF EmbedPart!Next

(* Channels keep the invariant while there is one listener. *)
LEMMA EmbedStep == ASSUME EmbedTyped, Single => EmbedInv, EmbedPart!Next, Single' PROVE EmbedInv'
<1>1. Single
  <2>1. CASE EmbedPart!Listen
    <3>1. Len(embed_conns') = Len(embed_conns) + 1 /\ embed_via' = embed_via /\ Len(embed_conns) \in Nat
      BY <2>1 DEF EmbedPart!Listen, EmbedTyped
    <3>2. QED
      BY <3>1 DEF Single
  <2>2. CASE DOMAIN embed_conns' = DOMAIN embed_conns
    <3>1. Len(embed_conns') = Len(embed_conns)
      BY <2>2, EmbedTypedStep DEF EmbedTyped
    <3>2. embed_via' = embed_via
      BY DEF EmbedPart!Next, EmbedPart!Listen, EmbedPart!OnReady, EmbedPart!Query, EmbedPart!Close,
             EmbedPart!Serve, EmbedPart!OnMessage
    <3>3. QED
      BY <3>1, <3>2 DEF Single
  <2>3. CASE ~EmbedPart!Listen
    <3>1. DOMAIN embed_conns' = DOMAIN embed_conns
      BY <2>3 DEF EmbedPart!Next, EmbedPart!OnReady, EmbedPart!Query, EmbedPart!Close,
                  EmbedPart!Serve, EmbedPart!OnMessage
    <3>2. QED
      BY <2>2, <3>1
  <2>4. QED
    BY <2>1, <2>3
<1>2. EmbedInv
  BY <1>1
<1>3. CASE EmbedPart!Listen
  BY <1>2, <1>3, ListenKeeps
<1>4. CASE \E c \in DOMAIN embed_conns : EmbedPart!OnReady(c)
  BY <1>2, <1>4, ReadyKeeps
<1>5. CASE \E c \in DOMAIN embed_conns : EmbedPart!Query(c)
  BY <1>2, <1>5, QueryKeeps
<1>6. CASE \E c \in DOMAIN embed_conns : EmbedPart!Close(c)
  BY <1>2, <1>6, CloseKeeps
<1>7. CASE \E r \in embed_requests, error \in BOOLEAN : EmbedPart!Serve(r, error)
  BY <1>2, <1>7, ServeKeeps
<1>8. CASE \E a \in embed_answers : EmbedPart!OnMessage(a)
  BY <1>1, <1>2, <1>8, MessageKeeps
<1>9. QED
  BY <1>3, <1>4, <1>5, <1>6, <1>7, <1>8 DEF EmbedPart!Next

(* The exclusion of the property. *)
LEMMA SingleOrMore == ASSUME EmbedTyped, ~Single PROVE embed_via # "socket" /\ Len(embed_conns) # 1
<1> DEFINE n == Len(embed_conns)
<1>1. embed_via # "socket" /\ ~(n <= 1)
  BY DEF Single
<1> HIDE DEF n
<1>2. n # 1
  BY <1>1
<1>3. QED
  BY <1>1, <1>2 DEF n

(* A question is settled by its own answer, and none of an open connection is forgotten. *)
THEOREM EmbedAnswersHolds == Spec => []EmbedAnswers
<1> DEFINE Inv == part = "embed" => EmbedTyped /\ (Single => EmbedInv)
<1>1. Init => Inv
  BY EmbedInit DEF Init, OnlyAtFirst, EmbedInv
<1>2. Inv /\ [Next]_vars => Inv'
  <2>1. ASSUME EmbedTyped /\ (Single => EmbedInv), UNCHANGED embed_vars
        PROVE  (EmbedTyped /\ (Single => EmbedInv))'
    BY <2>1 DEF embed_vars, Single, EmbedInv, EmbedTyped, Addressed, Followed, OnTheWay, Waiting
  <2>2. QED
    BY <2>1, PartSteps, EmbedStep, EmbedTypedStep
<1>3. Inv => EmbedAnswers
  <2>1. ASSUME EmbedInv PROVE EmbedPart!OwnAnswer
    <3>1. ASSUME OnTheWay = {}, NEW n \in DOMAIN embed_asked, embed_conns[embed_asked[n]].state = "ready"
          PROVE  n \in DOMAIN embed_settled
      BY <2>1, <3>1 DEF EmbedInv, Followed
    <3>2. embed_requests = {} /\ embed_answers = {} => OnTheWay = {}
      BY DEF OnTheWay
    <3>3. \A n \in DOMAIN embed_settled : embed_settled[n].by = n
      BY <2>1 DEF EmbedInv
    <3>4. QED
      BY <3>1, <3>2, <3>3 DEF EmbedPart!OwnAnswer
  <2>2. ASSUME EmbedTyped, ~Single PROVE EmbedPart!OwnAnswer
    BY <2>2, SingleOrMore DEF EmbedPart!OwnAnswer
  <2>3. QED
    BY <2>1, <2>2 DEF EmbedAnswers
<1>4. QED
  BY <1>1, <1>2, <1>3, PTL DEF Spec

-----------------------------------------------------------------------------
(* Exports and imports: what is proved of them for any tables, instantiated as the part is. *)

Moves == INSTANCE ExportImport_proofs WITH
  Tables <- {"t", "u"}, Slots <- MoveSlots, Asked <- {<<"t", "u">>}, Uploads <- Uploads,
  MaxRows <- MaxWrites, MaxOps <- MaxMoves, main <- moves_main, attached <- moves_attached,
  file <- moves_file, calls <- moves_calls, busy <- moves_busy, before <- moves_before,
  dropped <- moves_dropped, crossed <- moves_crossed, kept <- moves_kept,
  strayed <- moves_strayed, nrows <- moves_nrows, ops <- moves_ops

(* The lists asked for and the files uploaded are of tables. *)
LEMMA MovesParameters == Moves!Parameters
<1>1. 0 \notin MoveSlots /\ {<<"t", "u">>} \subseteq Seq({"t", "u"})
  BY MovesAssumption
<1>2. {11} \in Moves!Content /\ {0} \in Moves!Content /\ {12} \in Moves!Content
  BY DEF Moves!Content, Moves!Missing
<1>3. Uploads \subseteq [{"t", "u"} -> Moves!Content]
  BY <1>2 DEF Uploads
<1>4. QED
  BY <1>1, <1>3 DEF Moves!Parameters

(* The part begins as the module does. *)
LEMMA MovesInit == ASSUME MovesPart!Init PROVE Moves!IInv
<1>1. Moves!Init
  BY DEF MovesPart!Init, MovesPart!Empty, MovesPart!Free, MovesPart!Missing,
         Moves!Init, Moves!Empty, Moves!Free, Moves!Missing
<1>2. QED
  BY <1>1, MovesParameters, Moves!InitInv

(* A step of an export is that of the module. *)
LEMMA ExportSteps ==
  ASSUME NEW c, NEW list
  PROVE  /\ MovesPart!AttachDst(c) => Moves!AttachDst(c)
         /\ MovesPart!ReadDDL(c) => Moves!ReadDDL(c)
         /\ MovesPart!CreateInDst(c) => Moves!CreateInDst(c)
         /\ MovesPart!CopyToDst(c) => Moves!CopyToDst(c)
         /\ MovesPart!DetachDst(c) => Moves!DetachDst(c)
         /\ MovesPart!EndExport(c) => Moves!EndExport(c)
         /\ MovesPart!Export(c, list) => Moves!Export(c, list)
<1> USE DEF MovesPart!Goto, MovesPart!NextTable, MovesPart!Table, MovesPart!Holders, MovesPart!Attach,
            MovesPart!Detach, MovesPart!Running, MovesPart!Exporting, MovesPart!Missing,
            MovesPart!histories, MovesPart!Op, MovesPart!Empty, Moves!Goto, Moves!NextTable, Moves!Table,
            Moves!Holders, Moves!Attach, Moves!Detach, Moves!Running, Moves!Exporting, Moves!Missing,
            Moves!histories, Moves!Op, Moves!Empty
<1>1. MovesPart!AttachDst(c) => Moves!AttachDst(c)
  BY DEF MovesPart!AttachDst, Moves!AttachDst
<1>2. MovesPart!ReadDDL(c) => Moves!ReadDDL(c)
  BY DEF MovesPart!ReadDDL, Moves!ReadDDL
<1>3. MovesPart!CreateInDst(c) => Moves!CreateInDst(c)
  BY DEF MovesPart!CreateInDst, Moves!CreateInDst
<1>4. MovesPart!CopyToDst(c) => Moves!CopyToDst(c)
  BY DEF MovesPart!CopyToDst, Moves!CopyToDst
<1>5. MovesPart!DetachDst(c) => Moves!DetachDst(c)
  BY DEF MovesPart!DetachDst, Moves!DetachDst
<1>6. MovesPart!EndExport(c) => Moves!EndExport(c)
  BY DEF MovesPart!EndExport, Moves!EndExport
<1>7. MovesPart!Export(c, list) => Moves!Export(c, list)
  BY DEF MovesPart!Export, Moves!Export
<1>8. QED
  BY <1>1, <1>2, <1>3, <1>4, <1>5, <1>6, <1>7

(* So is one of an import. *)
LEMMA ImportSteps ==
  ASSUME NEW c, NEW list, NEW upload
  PROVE  /\ MovesPart!LeaveImport(c) => Moves!LeaveImport(c)
         /\ MovesPart!AttachSrc(c) => Moves!AttachSrc(c)
         /\ MovesPart!CreateTable(c) => Moves!CreateTable(c)
         /\ MovesPart!CopyFromSrc(c) => Moves!CopyFromSrc(c)
         /\ MovesPart!EndImport(c) => Moves!EndImport(c)
         /\ MovesPart!Import(c, list, upload) => Moves!Import(c, list, upload)
<1> USE DEF MovesPart!Goto, MovesPart!NextTable, MovesPart!Table, MovesPart!Holders, MovesPart!Attach,
            MovesPart!Detach, MovesPart!Running, MovesPart!Missing, MovesPart!histories, MovesPart!Op,
            MovesPart!Empty, Moves!Goto, Moves!NextTable, Moves!Table, Moves!Holders, Moves!Attach,
            Moves!Detach, Moves!Running, Moves!Missing, Moves!histories, Moves!Op, Moves!Empty
<1>1. MovesPart!LeaveImport(c) => Moves!LeaveImport(c)
  BY DEF MovesPart!LeaveImport, Moves!LeaveImport
<1>2. MovesPart!AttachSrc(c) => Moves!AttachSrc(c)
  BY DEF MovesPart!AttachSrc, Moves!AttachSrc
<1>3. MovesPart!CreateTable(c) => Moves!CreateTable(c)
  BY DEF MovesPart!CreateTable, Moves!CreateTable
<1>4. MovesPart!CopyFromSrc(c) => Moves!CopyFromSrc(c)
  BY DEF MovesPart!CopyFromSrc, Moves!CopyFromSrc
<1>5. MovesPart!EndImport(c) => Moves!EndImport(c)
  BY DEF MovesPart!EndImport, Moves!EndImport
<1>6. MovesPart!Import(c, list, upload) => Moves!Import(c, list, upload)
  BY DEF MovesPart!Import, Moves!Import
<1>7. QED
  BY <1>1, <1>2, <1>3, <1>4, <1>5, <1>6

(* And a statement that writes. *)
LEMMA WriteSteps ==
  ASSUME NEW t
  PROVE  /\ MovesPart!Insert(t) => Moves!Insert(t)
         /\ MovesPart!Create(t) => Moves!Create(t)
         /\ MovesPart!Drop(t) => Moves!Drop(t)
<1> USE DEF MovesPart!Running, MovesPart!Exporting, MovesPart!Missing, MovesPart!histories, MovesPart!Op,
            MovesPart!FirstWith, Moves!Running, Moves!Exporting, Moves!Missing, Moves!histories, Moves!Op,
            Moves!FirstWith
<1>1. MovesPart!Insert(t) => Moves!Insert(t)
  BY DEF MovesPart!Insert, Moves!Insert
<1>2. MovesPart!Create(t) => Moves!Create(t)
  BY DEF MovesPart!Create, Moves!Create
<1>3. MovesPart!Drop(t) => Moves!Drop(t)
  BY DEF MovesPart!Drop, Moves!Drop
<1>4. QED
  BY <1>1, <1>2, <1>3

(* The part goes on as the module does. *)
LEMMA MovesStep == ASSUME Moves!IInv, MovesPart!Next \/ UNCHANGED moves_vars PROVE Moves!IInv'
<1>1. MovesPart!Next => Moves!Next
  BY ExportSteps, ImportSteps, WriteSteps DEF MovesPart!Next, Moves!Next
<1>2. UNCHANGED moves_vars => UNCHANGED Moves!vars
  BY DEF moves_vars, Moves!vars
<1>3. QED
  BY <1>1, <1>2, MovesParameters, Moves!StepInv

(* What the invariant of the module implies is what is asked of the part. *)
LEMMA MovesImplied ==
  ASSUME Moves!IInv
  PROVE  MovesPart!ExportIsWhole /\ MovesPart!NothingStaysAttached /\ MovesPart!WritesStay
<1>1. Moves!ExportIsWhole /\ Moves!NothingStaysAttached /\ Moves!WritesStay
  BY MovesParameters, Moves!InvImplies
<1>2. MovesPart!ExportIsWhole
  BY <1>1 DEF MovesPart!ExportIsWhole, MovesPart!Answered, MovesPart!Wanted, MovesPart!Missing,
              Moves!ExportIsWhole, Moves!Answered, Moves!Wanted, Moves!Missing
<1>3. MovesPart!NothingStaysAttached
  BY <1>1 DEF MovesPart!NothingStaysAttached, MovesPart!Running, Moves!NothingStaysAttached, Moves!Running
<1>4. MovesPart!WritesStay
  BY <1>1 DEF MovesPart!WritesStay, Moves!WritesStay
<1>5. QED
  BY <1>2, <1>3, <1>4

(* Nothing is lost on the way, in the database or out of it: an export that ran beside no    *)
(* other has its tables (handlers/dbio.go, Export), nothing stays attached to the connection, *)
(* a write that was answered stays; and a server that serves has every row and file of the    *)
(* older version, wherever its start was killed (migrations, StripPrefixes).                  *)
THEOREM MovesAreWholeHolds == Spec => []MovesAreWhole
<1> DEFINE Inv == (part = "moves" => Moves!IInv) /\ (part = "start" => StartInv)
<1>1. Init => Inv
  BY MovesInit, StartInit, MovesAssumption DEF Init, OnlyAtFirst
<1>2. Inv /\ [Next]_vars => Inv'
  BY PartSteps, MovesStep, StartStep
<1>3. Inv => MovesAreWhole
  BY MovesImplied, StartImplied DEF MovesAreWhole
<1>4. QED
  BY <1>1, <1>2, <1>3, PTL DEF Spec

-----------------------------------------------------------------------------
(* Caches and the rate limit *)

Caches == INSTANCE TieredCache_proofs WITH
  Procs <- Procs, Calls <- Calls, L1TTL <- L1TTL, KeyTTL <- KeyTTL, SessionTTL <- SessionTTL,
  Limit <- RateLimit, Window <- RateWindow, None <- NoValue, MaxVersion <- MaxVersion,
  MaxNow <- MaxTime, MaxOps <- MaxChanges,
  kind <- cache_kind, redis <- cache_redis, now <- cache_now, l1 <- cache_l1,
  l2 <- cache_l2, row <- cache_row, flight <- cache_flight, calls <- cache_calls,
  rate <- cache_rate, ended <- cache_ended, known <- cache_known,
  passed <- cache_passed, slow <- cache_slow, overlap <- cache_overlap,
  outage <- cache_outage, ops <- cache_ops

(* Times to live pass, and what stands for no value is none. *)
LEMMA CachesParameters == Caches!Parameters
BY CachesAssumption DEF Caches!Parameters

(* The part begins as the module does. *)
LEMMA CachesInit == ASSUME CachePart!Init PROVE Caches!IInv
<1>1. Caches!Init
  BY Zenon DEF CachePart!Init, CachePart!Never, CachePart!Absent, CachePart!Free, CachePart!Idle,
               Caches!Init, Caches!Never, Caches!Absent, Caches!Free, Caches!Idle
<1>2. QED
  BY <1>1, CachesParameters, Caches!IInvInit

(* A step of a read is that of the module. *)
LEMMA ReadSteps ==
  ASSUME NEW c, NEW p
  PROVE  /\ CachePart!StartRead(c, p) => Caches!StartRead(c, p)
         /\ CachePart!FlightRead(p) => Caches!FlightRead(p)
         /\ CachePart!FlightEnd(p) => Caches!FlightEnd(p)
         /\ CachePart!ReadRow(c) => Caches!ReadRow(c)
         /\ CachePart!SetL1(c) => Caches!SetL1(c)
         /\ CachePart!SetL2(c) => Caches!SetL2(c)
<1> USE DEF CachePart!Get, CachePart!TTL, CachePart!IsFree, CachePart!Op, CachePart!Open, CachePart!Begin,
            CachePart!Goto, CachePart!tiers, CachePart!facts, CachePart!Never, CachePart!Absent,
            CachePart!Free, CachePart!Idle, CachePart!Asked, CachePart!Failed, Caches!Get, Caches!TTL,
            Caches!IsFree, Caches!Op, Caches!Open, Caches!Begin, Caches!Goto, Caches!tiers, Caches!facts,
            Caches!Never, Caches!Absent, Caches!Free, Caches!Idle, Caches!Asked, Caches!Failed
<1>1. CachePart!StartRead(c, p) => Caches!StartRead(c, p)
  BY DEF CachePart!StartRead, Caches!StartRead
<1>2. CachePart!FlightRead(p) => Caches!FlightRead(p)
  BY DEF CachePart!FlightRead, Caches!FlightRead
<1>3. CachePart!FlightEnd(p) => Caches!FlightEnd(p)
  BY DEF CachePart!FlightEnd, Caches!FlightEnd
<1>4. CachePart!ReadRow(c) => Caches!ReadRow(c)
  BY DEF CachePart!ReadRow, Caches!ReadRow
<1>5. CachePart!SetL1(c) => Caches!SetL1(c)
  BY DEF CachePart!SetL1, Caches!SetL1
<1>6. CachePart!SetL2(c) => Caches!SetL2(c)
  BY DEF CachePart!SetL2, Caches!SetL2
<1>7. QED
  BY <1>1, <1>2, <1>3, <1>4, <1>5, <1>6

(* So is one of a change. *)
LEMMA ChangeSteps ==
  ASSUME NEW c, NEW p
  PROVE  /\ CachePart!Login(c, p) => Caches!Login(c, p)
         /\ CachePart!Logout(c, p) => Caches!Logout(c, p)
         /\ CachePart!ChangeList(c, p) => Caches!ChangeList(c, p)
         /\ CachePart!RevokeAPIKey => Caches!RevokeAPIKey
         /\ CachePart!DelL1(c) => Caches!DelL1(c)
         /\ CachePart!DelL2(c) => Caches!DelL2(c)
<1> USE DEF CachePart!Get, CachePart!TTL, CachePart!IsFree, CachePart!Op, CachePart!Open, CachePart!Begin,
            CachePart!Goto, CachePart!tiers, CachePart!facts, CachePart!Never, CachePart!Absent,
            CachePart!Free, CachePart!Idle, CachePart!Asked, CachePart!Failed, CachePart!Max, Caches!Get,
            Caches!TTL, Caches!IsFree, Caches!Op, Caches!Open, Caches!Begin, Caches!Goto, Caches!tiers,
            Caches!facts, Caches!Never, Caches!Absent, Caches!Free, Caches!Idle, Caches!Asked,
            Caches!Failed, Caches!Max
<1>1. CachePart!Login(c, p) => Caches!Login(c, p)
  BY DEF CachePart!Login, Caches!Login
<1>2. CachePart!Logout(c, p) => Caches!Logout(c, p)
  BY DEF CachePart!Logout, Caches!Logout
<1>3. CachePart!ChangeList(c, p) => Caches!ChangeList(c, p)
  BY DEF CachePart!ChangeList, Caches!ChangeList
<1>4. CachePart!RevokeAPIKey => Caches!RevokeAPIKey
  BY DEF CachePart!RevokeAPIKey, Caches!RevokeAPIKey
<1>5. CachePart!DelL1(c) => Caches!DelL1(c)
  BY DEF CachePart!DelL1, Caches!DelL1
<1>6. CachePart!DelL2(c) => Caches!DelL2(c)
  BY DEF CachePart!DelL2, Caches!DelL2
<1>7. QED
  BY <1>1, <1>2, <1>3, <1>4, <1>5, <1>6

(* And one of a request that is counted, of a process or of the clock. *)
LEMMA ServerSteps ==
  ASSUME NEW p
  PROVE  /\ CachePart!IncrRateLimit => Caches!IncrRateLimit
         /\ CachePart!Restart(p) => Caches!Restart(p)
         /\ CachePart!RedisFails => Caches!RedisFails
         /\ CachePart!RedisReturns => Caches!RedisReturns
         /\ CachePart!Tick => Caches!Tick
<1> USE DEF CachePart!IsFree, CachePart!Op, CachePart!Open, CachePart!tiers, CachePart!facts,
            CachePart!Absent, CachePart!Free, CachePart!Idle, CachePart!Asked, CachePart!Counted,
            Caches!IsFree, Caches!Op, Caches!Open, Caches!tiers, Caches!facts, Caches!Absent, Caches!Free,
            Caches!Idle, Caches!Asked, Caches!Counted
<1>1. CachePart!IncrRateLimit => Caches!IncrRateLimit
  BY DEF CachePart!IncrRateLimit, Caches!IncrRateLimit
<1>2. CachePart!Restart(p) => Caches!Restart(p)
  BY DEF CachePart!Restart, Caches!Restart
<1>3. CachePart!RedisFails => Caches!RedisFails
  BY DEF CachePart!RedisFails, Caches!RedisFails
<1>4. CachePart!RedisReturns => Caches!RedisReturns
  BY DEF CachePart!RedisReturns, Caches!RedisReturns
<1>5. CachePart!Tick => Caches!Tick
  BY DEF CachePart!Tick, Caches!Tick
<1>6. QED
  BY <1>1, <1>2, <1>3, <1>4, <1>5

(* The part goes on as the module does. *)
LEMMA CachesStep == ASSUME Caches!IInv, CachePart!Next \/ UNCHANGED cache_vars PROVE Caches!IInv'
<1>1. CachePart!Step => Caches!Step
  BY ReadSteps, ChangeSteps, ServerSteps DEF CachePart!Step, Caches!Step
<1>2. CachePart!Overlapping' <=> Caches!Overlapping'
  BY DEF CachePart!Overlapping, CachePart!Changing, CachePart!Reading, CachePart!IsFree,
         Caches!Overlapping, Caches!Changing, Caches!Reading, Caches!IsFree
<1>3. CachePart!Next => Caches!Next
  BY <1>1, <1>2 DEF CachePart!Next, Caches!Next
<1>4. UNCHANGED cache_vars => UNCHANGED Caches!vars
  BY DEF cache_vars, Caches!vars
<1>5. QED
  BY <1>3, <1>4, CachesParameters, Caches!IInvStep

(* What the invariant of the module implies is what is asked of the part. *)
LEMMA CachesImplied ==
  ASSUME Caches!IInv
  PROVE  CachePart!AnswersAreRecent /\ CachePart!OwnChangesAreSeen /\ CachePart!RateIsBounded
<1>1. Caches!AnswersAreRecent /\ Caches!OwnChangesAreSeen /\ Caches!RateIsBounded
  BY CachesParameters, Caches!InvImplies
<1>2. QED
  BY <1>1 DEF CachePart!AnswersAreRecent, CachePart!OwnChangesAreSeen, CachePart!RateIsBounded,
              CachePart!Served, CachePart!IsFree, Caches!AnswersAreRecent, Caches!OwnChangesAreSeen,
              Caches!RateIsBounded, Caches!Served, Caches!IsFree

(* What a cache answers was true until recently, for the times to live of its tiers; a        *)
(* process does not take back what it answered a change of; and no more requests of a key are *)
(* let through in a window than the limit (cache.go, tiered.go).                              *)
THEOREM CachesAreRecentHolds == Spec => []CachesAreRecent
<1> DEFINE Inv == part = "cache" => Caches!IInv
<1>1. Init => Inv
  BY CachesInit DEF Init, OnlyAtFirst
<1>2. Inv /\ [Next]_vars => Inv'
  BY PartSteps, CachesStep
<1>3. Inv => CachesAreRecent
  BY CachesImplied DEF CachesAreRecent
<1>4. QED
  BY <1>1, <1>2, <1>3, PTL DEF Spec
=============================================================================
