# mesahub-core: models, checks and proofs

mesahub-core is a Go server (`src/server/`) that hosts many small SQLite databases and a
content-addressed file store behind one HTTP API, with an admin front end (`src/admin/`, a fork of a
database studio) and a supervisor (`src/supervisord.conf`) that restarts the server when it dies.
This directory holds TLA+ models of the parts in which the order of steps, the boundaries of data or
a failure half-way matter, their TLC configurations, and theorems about them checked by TLAPS.

Paths below are relative to `src/server/`, or to `src/admin/src/` where they end in `.ts` or `.tsx`.

## Inventory

The server:

| Component | State | Operations | Talks to | Hard part | Module |
|---|---|---|---|---|---|
| Write queue `queue/queue.go` | channels, worker goroutines, wait group | `Enqueue`, worker loop, `Stop` | every write handler, `main` | cancellation in two selects, close of a channel that callers hold, drain | `WriteQueue`, `SerialExecutor` |
| Start-up and shutdown `cmd/server/main.go` | HTTP server, deferred closes | `srv.Shutdown` (15 s), `wq.Stop`, closes in reverse order | all | handlers that outlive the timeout | `WriteQueue`, `Migrations` |
| Connection pool `db/pool.go` | name -> `*sql.DB` under an RWMutex | `Get`, `Remove`, `Close` | data handlers, registry | double-checked look-up, files renamed under a connection | `DBLifecycle` |
| Registry `db/registry.go` | rows of databases, keys, sessions, buckets, revocations; list cache | insert, status, soft delete, restore, hard delete, revoke | pool, files, cache | three stores without a transaction over them | `DBLifecycle`, `TieredCache`, `Buckets`, `Migrations` |
| Life-cycle handlers `handler/db.go` | none of their own | `CreateDB`, `PatchDB`, `DeleteDB`, `DeletedDBAction` | registry, pool | checks made long before effects | `DBLifecycle` |
| Exec and query `handler/exec.go`, `query.go` | captured handle | reads directly, writes through the queue | pool, queue, auth | the handle is older than the execution | `DBLifecycle`, `WriteQueue` |
| Import, export `handler/import_export.go` | temporary files, ATTACH on the shared connection | import in the queue, export beside it | pool, queue | two exports on one connection | `ExportImport` |
| File store `files/` | `files`, `blob_refs`, the blobs directory | `Upload`, `DeleteByID`, `CleanupExpired` | buckets, maintenance | reference counts without a transaction over table, count and disk | `FileStore` |
| Buckets, links, tokens `files/bucket_storage.go`, `handler/bucket_admin.go`, `filetoken/` | bucket rows, revocations | uploads, signed links, revocation | file store, registry | two namespaces of files, expiry against revocation | `Buckets` |
| Tiered cache `cache/`, keys and sessions `auth/` | L1 memory, optional Redis | get, set, evict, rate limit | registry | several processes, TTLs that add up, read-then-set | `TieredCache` |
| Migrations `migrate/`, registry | `schema_migrations`, files of old versions | `RunOnce`, table rebuild, `StripPrefixes` | files, registry | a kill between two steps | `Migrations` |

The front end:

| Component | State | Hard part | Module |
|---|---|---|---|
| File explorer of a database and of a bucket | rows of the last list, folders made here | answers in any order; folders outlive the database | `FileBrowser`, `FolderMemory` |
| Dashboard, registration, settings, deleted databases | rows, busy buttons, questions | an answer to a page that was left | `AdminPages` |
| Editable table | rows with pending edits, selection, saves | indexes used after the list changed; a save that fails half-way | `TableEditor` |
| Tabs and their channels | list, selection | a save that ends for a list that was left | `StudioTabs` |
| Schema, schema editor, diagram | schema, drafts, boxes | refreshes that overtake each other; statements without a transaction | `SchemaStore`, `SchemaChange`, `SchemaDiagram` |
| Grid, result bar, export | ranges, focus, listeners told late, remembered settings | a button that shows a selection of another result | `TableGrid`, `ResultPanel`, `ExportSettings`, `TableViewport` |
| Query tab, plans, assistant | runs, results, widgets over text | overlapping runs; late answers | `QueryTab`, `ExplainFlow`, `InlinePrompt` |
| Values and scripts | none (algorithms) | round trips through text, bytes and SQL | `V8Values`, `CellText`, `SqlScripts`, `ResultHeaders` |
| Saved queries, notes, boards | IndexedDB, a driver with delays | calls of several transactions; copies written whole | `SavedDocs`, `ElectronDocs`, `DataCatalog`, `Board` |
| Drivers | questions in flight; catalogs of MySQL and Postgres | one window hears every answer; a schema read in several queries | `EmbedChannel`, `ServerDialects`, `DoltSidebar` |

`SavedDocs`, `ElectronDocs`, `DataCatalog`, `Board`, `EmbedChannel`, `ServerDialects` and
`DoltSidebar` model code that is part of the studio and is not reachable from the pages of this
server (`_viewer.tsx` passes no drivers for documents, boards or notes, and one SQLite dialect).

What makes each correct:

* **Write queue.** Closures of a database run one at a time and in order, each at most once; a
  caller that was refused can be sure its write never happens; a stop loses nothing that was
  accepted, and ends.
* **Pool, registry and files.** A row leads to the file with the data written to it, under any name
  the file went through; at most one connection per name; a reset erases.
* **File store.** A listed file can be served; a reference count never falls below the rows that
  need the blob; the quota is exceeded by a bounded amount only.
* **Caches.** What is answered was true until a bounded time ago; a process does not take back what
  it has answered; the rate limit holds in every window.
* **Buckets.** A revoked token is refused, and a link opens files of its own bucket.
* **Exports and imports.** An export holds what the database held; nothing stays attached; the
  writes of others stay.
* **Migrations.** After any kills a start succeeds, with every row and every file under its new
  name.
* **Pages and studio.** Once nothing is in flight, what is shown is what is stored; no click acts on
  something else than what it was made on; what is copied, exported or written as SQL reads back the
  same.

The hazards, each at its line with the properties that would catch it, are in `PROJECT.json`.

## Modules

Operators introduced by a comment `Fault:` are mistakes one could make in the definition that
follows them. They are no part of the specification: substituting one for its definition shows that
a property notices (`mutants` in `PROJECT.json`).

Three modules put independent parts into one run: `MCServerAndPages`, `MCStudioWindows` and
`MCStudioData`. A variable `part` names the part a behaviour is about; the others' variables are
`<<>>` and stay so. The state graph is the disjoint sum of the parts' graphs, and a property reads
`part = "x" => XPart!P`. Parts that do share state are in one module.

History variables (commented `history:`) record what happened for use in properties; no action of
the program reads them. Many properties are stated for histories of a certain kind (*while Redis
answers*, *when removals do not overlap*); outside them the code promises nothing, and the section
on observations says what happens there.

### WriteQueue

State: `workers` is the map's key set, `live` the goroutines the wait group counts, `buf` the
channel buffers, `cur` the closure a worker is in, `reply` the one-slot reply channels. A caller
(`pc`) is in its handler, in the first select, in the second, or done. `Stop` deletes every channel
from the map, so a database has at most one channel before `Stop` and one after: channels are pairs
of a database and a generation, and `Closed` follows from the main goroutine's `phase`.

Actions: `WorkerFor` is `workerFor` under its mutex; `Send`, `SendOnClosed` and `CancelEnqueue` are
the outcomes of the first select, `Receive` and `CancelWait` of the second, where Go may pick any
ready case; `TakeJob`, `FinishJob` and `WorkerExit` are the worker's loop; `StopClose` and
`StopWait` the halves of `Stop` inside and outside the mutex; `Terminate`, `ShutdownReturns` and
`Exit` are `main`. A closure's outcome is arbitrary. A send on a closed channel panics in its
handler, which the router's recoverer turns into a response. `timedOut` records that `srv.Shutdown`
gave up: `Stop` then runs beside live handlers.

Fairness (`write_queue_live` only): weak fairness of each caller, of each worker and of the main
goroutine is the Go scheduler's. Weak fairness of `Run`, that closures return, is assumed only of
databases outside `StuckDBs`; SQLite's `busy_timeout` and the request context give most closures an
end. Nothing is assumed of clients, of disconnects or of signals.

### DBLifecycle

A name is the sequence of a slug and the epochs appended to it by soft deletes, as in
`slug-1700000000-1700000100`. `fs` maps a name to the inodes of its `.db` and `.db-wal`; `conn`
keeps the inodes its connection was opened on, whatever happens to the names; `pool` is
`Pool.conns`. The `-shm` file holds no data and is left out. A request slot runs one handler, with
one step for each piece that another request or a crash can come between: each rename, each removal,
each locked region and each registry statement. Slots are reused, so at most `|Requests|` handlers
run at a time, in any number one after the other up to `MaxOps`.

SQLite is external. What the model uses of it: opening creates a missing database file; a WAL beside
an empty database file is discarded; the last connection of a file that still has its name
checkpoints the WAL into it on close and deletes the WAL; a database whose name was taken away is
not checkpointed; an idle connection closes and its handle reconnects by path. Every write goes to
the WAL; that SQLite also checkpoints in between only makes fewer things fail.

The write path is `Exec`: registry check, `Pool.Get`, then, at any later moment, the execution of
the closure on the handle obtained. The queue is not part of this module: a write is one step, which
is what `WriteQueue` establishes for databases with one worker. `Careful` restricts operators, not
the server: life-cycle requests are issued while nothing else runs and deletes a second apart.
`DataFollowsRow` and `ErasedStaysErased` are stated for that discipline, `NoLeakedConnection` needs
none.

History variables: `acked` (writes answered with success), `home` (id of the row a write was
addressed to), `gone` (content a hard delete or reset unlinked), `erased` (content visible when a
successful reset began), `torn` (a crash came inside a life-cycle request).

### FileStore

`files`, `refs` and `blobs` are the two tables and the directory; `tmp` holds the `.tmp` files of
`writeBlob`, which two uploads of the same content share; `dir` says that the blobs directory
exists, because the second of two concurrent deletes of a file calls `os.Remove` on the directory
itself. The metadata database has one connection, so a statement or transaction is a step. One
namespace is modelled, uploads have an id of their own, an expiry is "later" until it becomes "due".
The quota on bytes has the shape of the quota on files and is left out, as is
`DeleteAllForDatabase`, which has no caller.

`BlobKept` and `RefsCoverRows` are stated for histories in which no request that removes files
overlapped another request (`overlapped`) and no crash came between a row and its count (`torn`).
Uploads may overlap each other freely, and a removal may crash at any step. `QuotaOvershootBounded`
needs no such condition.

### TieredCache

A behaviour is about one key of one `kind`: an API key, a list of databases, an admin session or a
rate counter. `l1` is the `memClient` of each process, `l2` Redis, each a value (the number of a
version) with the time it runs out; `row` is the registry. A request (`calls`) goes through the
steps of `ValidateTemplateKey`, `ValidateSession`, the cached lists and their writers: `StartRead`
looks into L1, `FlightRead` and `FlightEnd` are the `singleflight` question to Redis that several
requests of a process share, `ReadRow` the registry, `SetL1` and `SetL2` the two halves of `Set`,
`DelL1` and `DelL2` of `Delete`. `RevokeAPIKey` changes the row only. `IncrRateLimit` counts in the
window of Redis, `RedisFails` and `RedisReturns` are outages, `Tick` is time.

`slow` records that time passed while a request held a value in its hands, `outage` that Redis was
down when something was to be deleted or counted, `overlap` that a change and a read of one process
overlapped. `AnswersAreRecent` (while quick and without outage) bounds the age of what is answered
by the TTL of Redis plus that of L1; `OwnChangesAreSeen` says that a process never answers something
older than the change it has answered; `RateIsBounded` bounds what passes in any window.

### Buckets, ExportImport, Migrations

`Buckets`: rows of buckets, files by namespace (`UploadFile` stores under the slug, an upload link
under `bkt-` and the slug), issued tokens, `file_token_revocations`. A link for a download is
checked by expiry, scope, bucket and revocation, one for an upload not by revocation; `Cleanup`
removes expired files and revocations.

`ExportImport`: one connection whose attached databases are a list, because SQLite finds the first
of equal names. An export takes a step per statement (`AttachDst`, `ReadDDL`, `CreateInDst`,
`CopyToDst`, `DetachDst`), other requests in between; an import runs in the queue (`busy`).
`LeaveImport` is the client that goes away while its closure waits, which removes the uploaded file.

`Migrations`: the steps of `NewRegistry` and `main` in order (`pc`), each statement of the rebuild
of `databases` and `buckets` its own step, `RunOnce`'s marks, the added columns, and the renames of
`StripPrefixes`; `Crash` may come between any two.

### Pages (MCServerAndPages)

In all of them a request is in `reqs` until its answer is handled: `Serve` and `Refuse` are the
server, the `...Answer` actions the continuation in the browser. Answers come in any order.

| Module | State and actions | Properties |
|---|---|---|
| `FileBrowser` | server's `files`; the page's `rows`, `folder`, `custom` folders, chosen file; `Select`, `CreateFolder`, `ChooseFile`, `OnUpload`, `OnDelete`, `ConfirmDelete` | every listed file is reachable in some folder; a quiet page shows the files there are |
| `FolderMemory` | localStorage under name and identity; `Open`, `Identify`, `Render`, `CreateFolder`, `Recreate` | no folder of a database of the same name that is gone; a folder survives a reload |
| `AdminPages` | one mounted page, its busy button and question; `Navigate`, `Create`, `HandleToggleStatus`, `HandleResetDatabase`, `HandleDropDatabase`, `HandleRestore`, `HandleHardDelete` | a quiet page tells the truth; one request per button |
| `SavedDocs` | IndexedDB stores, tasks of several transactions, the sidebar's list; `Save`, `Pick`, `OpenDoc`, `RemoveDoc`, `RemoveFolder` | no document without its folder; a quiet list is the store |
| `ElectronDocs` | one file, loaded once, written whole; `Invoke`, `Read`, `GetNamespaces`, `Write`, `Restart` | documents are kept unless a load or save failed them |
| `EmbedChannel` | connections, questions, answers that every listener of the window hears | a question is settled by its own answer |
| `DataCatalog` | notes written whole from three places, terms, the driver's delay | notes are not lost to another part's save; terms are shown |
| `Board` | value, board, the storage's copy, queued puts, chart queries | what is saved is stored; a chart shows the rows of its own query; typing is kept |

### Studio windows (MCStudioWindows)

| Module | State and actions | Properties |
|---|---|---|
| `StudioTabs` | list of tabs by version, selected index, saves in flight; `Open`, `Select`, `CloseButton`, `Drag`, `DropTable`, `StartSave`, `EndSave` | the selected tab is shown; a save replaces its own tab (step) |
| `SchemaStore` | the schema shown, reads in flight, dialogs, statements sent one by one | a quiet schema is the database's; the mass dialog's marks are what happened |
| `SchemaChange` | draft of a table, statements sent, re-read; `Rename`, `RemoveColumn`, `Put`, `NewConstraint`, `OnSave`, `Statement`, `Fail` | what is executed is what the draft shows; an unchanged draft is the table |
| `SchemaDiagram` | boxes and arrows; `Open`, `Select`, `Align`, `Drag`, `Refresh` | boxes do not overlap; arrows run between boxes that are there |
| `TableGrid` | ranges, focus, edit mode; clicks, Shift, Ctrl, arrows, inserted and dropped rows | Shift selects the rectangle to the focus; Ctrl-click adds or takes one (step) |
| `ResultPanel` | selection, listeners told 5 ms late, settings of the export | the total is of the selection; what is exported is what is selected (step) |
| `ExportSettings` | a copy per button, localStorage | options typed for a format are found again |
| `InlinePrompt` | text, widget with the place and text it replaced, questions | the editor holds what was typed and accepted |
| `DoltSidebar` | repository, lists of the sidebar, flows of three queries | a quiet sidebar is the repository |

### Studio data (MCStudioData)

| Module | State and actions | Properties |
|---|---|---|
| `QueryTab` | text, placeholders found a second late, runs of several statements, result tabs | results and summary are of one run; the selected tab exists; a schema refresh is asked for |
| `ExplainFlow` | rows of a plan, blocks, boxes | the picture is of the plan and has every table in it |
| `TableViewport` | widths, scroll, pinned columns, rows put on the page | every cell in sight is on the page, at its place |
| `V8Values` | a heap of objects that share and contain each other, written as V8 does | it is read back as it was |
| `ResultHeaders` | three readings of a table's schema | an editable row is exactly one row; an arrow leads to a key |
| `CellText` | cells, clipboard, files, import | pasting and importing give what was copied and exported |
| `SqlScripts` | scripts of tables and triggers as tokens | what is written is parsed back; an edited trigger keeps its event |
| `ServerDialects` | catalogs read in several queries, drafts turned into statements | what was read is the catalog; what the server took is what was shown |

### TableEditor

Rows of `OptimizeTableState` with raw values, pending changes and marks for new and removed rows;
`changeLogs`, the selection; fetches and saves of the table-data tab. `EditCell`, `NewRow`,
`DuplicateRow`, `DeleteSelected`, `Discard`, `StartPaste`/`FinishPaste` are the user's, `Commit`
starts a save, `RunStatement`, `FailStatement`, `FinishSave` are the statements `filedb.ts`
sends one by one, `StartFetch`, `ReadFetch`, `ShowFetch` a reload. `PendingIsExact`: the change log
names exactly the rows that differ. `ScreenMirrorsTable`: what is not pending is what the table
holds, while nothing disturbed the tab (`calm`). `SavedAsShown`: a save writes what was on the
screen.

## Runs

All runs set `CHECK_DEADLOCK FALSE`: an idle server or page with no requests left within the bounds
stops legitimately, as does a server that has exited.

| Run | Question | Properties | Distinct states |
|---|---|---|---|
| `write_queue` | safety and refinement of the queue | `TypeOK`, `AtMostOnce`, `RefusedNeverRuns`, `StopDrains`, `GracefulShutdownIsSafe`, `ImplementsSerialExecutor` | 92 k |
| `write_queue_live` | do callers, jobs and shutdown get on, under fairness? | `ShutdownCompletes`, `AcceptedRun`, `CallsReturn` | 80 k |
| `db_lifecycle` | does data follow its row, with careful operators? | `TypeOK`, `DataFollowsRow`, `ErasedStaysErased` | 489 k |
| `db_races` | one connection per name, everything racing and crashing | `NoLeakedConnection` | 665 k |
| `torn_delete` | "WAL is checkpointed before rename" | `NothingLost` | violated |
| `file_store` | blobs, counts and quota | `TypeOK`, `BlobKept`, `RefsCoverRows`, `QuotaOvershootBounded` | 3.6 M |
| `presigned_link` | "a time-limited shortlink URL for the given file" | `LinkOpensItsFile` | violated |
| `server_and_pages` | twelve parts around a database: caches, buckets, moves, start, and the admin pages | `CachesAreRecent`, `LinksOpenTheirOwn`, `MovesAreWhole`, `FilesAreListed`, `PagesAreTrue`, `SavedIsKept`, `EmbedAnswers` | 3.2 M |
| `studio_windows` | nine parts of the studio: tabs, schema, editors, selection, export | `TabIsShown`, `SchemaIsTrue`, `ChangesAreTrue`, `PromptLeavesMine`, `ShiftSelectsRectangle`, `ButtonsFollowTable`, and the steps `SelectedIsExported`, `SavesReplaceTheirOwn` | 1.4 M |
| `studio_data` | eight parts about data: runs, values, texts, scripts, catalogs | `QueryTabIsOfOneRun`, `WhatIsSeenIsDrawn`, `RowsAndArrows`, `ValuesSurvive`, `SchemasReadBack` | 0.9 M |
| `table_editor` | is what is pending, shown and saved the same? | `PendingIsExact`, `ScreenMirrorsTable`, `SavedAsShown` | 4.5 M |
| `delete_selected` | "Delete selected row(s)" | `DeletesOnlySelected` | violated |

The properties of the sums are conjunctions, one conjunct per part: `CachesAreRecent` is
`AnswersAreRecent`, `OwnChangesAreSeen` and `RateIsBounded` of `TieredCache`; `LinksOpenTheirOwn` is
`RevokedIsRefused` and `LinkOpensItsBucket` of `Buckets`; `MovesAreWhole` is `ExportIsWhole`,
`NothingStaysAttached` and `WritesStay` of `ExportImport` with `RowsAreMoved`, `RowsAreSomewhere`,
`StartSucceeds` and `RowsNameTheirFiles` of `Migrations`; the others are named in the `MC` modules
in the same way.

### Bounds, and why they are enough

* Queue: three calls at depth 2 put one closure in the worker and two jobs in the buffer, so that
  order matters, or two jobs in the buffer and a caller blocked in the send, each of which may be
  cancelled or overtaken by `Stop`; a fourth only repeats a position. The liveness run has two calls
  on a healthy database at depth 1, so that one of them can be blocked in the send, and one that a
  stuck database holds for good. A caller blocked behind a stuck closure and a full buffer takes two
  calls more, which is beyond a liveness run.
* Life cycle: six operations on one slug allow create, write, delete, re-create, restore or delete
  of the deleted name, and write again, with both name collisions and idle closes in between; names
  are independent otherwise. Two requests are what every race listed needs. Twelve inodes exceed
  what names and handles can hold at once and four handles what pool and slots can reference, so
  opening never waits for the model's sake.
* File store: two contents and two paths allow sharing, replacement by the same and by another
  content; a limit of two files is reached and overshot with four uploads.
* Caches: two processes, two calls, times to live 2, 2 and 3, a limit of 2 in a window of 2, a clock
  to 3, three changes or faults. A value can be filled at the end of its time in Redis and then live
  its time in L1; two calls of one process can share a flight, and two of different processes race a
  deletion.
* Buckets: two slugs of which one is the link namespace of the other, two files, two tokens, eight
  requests, tokens of two seconds. Exports and imports: two tables, two at a time, three requests.
  Start: two rows, two databases, two kills, so that a kill can also hit the repair of the one
  before.
* Pages: three files of which two fill the limit, two requests in flight and two clicks (explorer);
  two databases, three openings (folders); two names, three pages mounted one after the other, two
  requests (pages); three clicks on two ids (saved queries); three calls (desktop); two connections,
  four questions (channels); six operations (catalog, board).
* Studio windows: three tabs and four versions of the list; two reads in flight and three operations
  (schema); three edits and three operations (schema editor); two widgets, queries and prompts
  (assistant); three databases (diagram); two branches and two flows (Dolt); three by three cells
  and four operations (grid).
* Studio data: three documents, three runs and one edit; eight plans; two columns and five rows;
  heaps of two nodes with two children; seven tables with two alterations; cells of 1x2, 2x1 and 2x2
  with every value that has a separator, a quote, a blank or a line feed; two steps on a script; two
  catalogs with two edits and three operations.
* Table editor: two rows, three edits, two saves, one refresh: a save can be overtaken by an edit, a
  second save and a reload.

Symmetry is used in safety runs over calls, requests, handles, writes, paths and contents, which no
definition distinguishes; ids, inodes, epochs and versions are numbers and are not permuted.

## Theorems

Assumptions are the named `ASSUME`s of the modules: types of the parameters, finiteness of
`Requests` and `Inodes`, and that sentinels are not members of the sets they complete. TLC evaluates
them in every run. `TieredCache_proofs` and `ExportImport_proofs` state them as `Parameters` in their
theorems, and `MCServerAndPages_proofs` shows that the parts of the run keep them.
The runs of several parts name theirs after the part, such as `TabsAssumption`, `ChangeAssumption`
(the table edited has a name, and columns of different names) and `CachesAssumption`.

* `WriteQueue_proofs`. The invariant `IInv` strengthens the properties with how the history of a
  channel decomposes: `accepted` is `ran` followed by the buffer (so order and at-most-once follow
  from each call being sent once), where each caller's program counter puts it, that replies belong
  to executed jobs, and that workers exist exactly for channels that have jobs or are open. From it:
  `TypeCorrect`, `AtMostOnceHolds`, `RefusedNeverRunsHolds`, `StopDrainsHolds`,
  `GracefulShutdownIsSafeHolds`, and `Refinement`: every step is a `SerialExecutor` step or a
  stutter under the mapping that takes `accepted` for the log and the executed prefix of `ran` for
  its progress.
* `DBLifecycle_proofs`. `LifeCycleTypesHold` and `NoLeakedConnectionHolds`, for any number of
  databases, requests and handles and whatever they race to do. The properties are inductive together
  with what a request slot holds at each step (`Slots`), the exact match of pool and connections
  (`Conns`), and a count of the ids given out (`Counted`), by which a new row finds an id of its own.
  `DataFollowsRowHolds` and `ErasedStaysErasedHolds` are under `Careful`: the
  operators of life-cycle requests work one at a time and delete no more than once a second. The code
  does not enforce this, so it is a hypothesis of the theorems and not an assumption of the module;
  without it TLC finds both properties violated. A hypothesis on torn kills is part of
  `DataFollowsRow` itself. Neither property is inductive, since a row's files move over a chain of names.
  The invariant `DInv` adds
  - `Rows`: a slug with its first delete belongs to one row for good, and so does an id;
  - `Untouched` and `Spent`: a name a later delete will give has no files and no connection yet; a
    name that was left for good has no row under it, so that the connection a restore may leave there
    in the pool is never used for another row;
  - `Requested`: what a request relies on between its steps, such as that the captured handle is still
    the pooled one when the write executes, or that the pool is empty when the row is renamed;
  - `Disk` and `Pooled`: which files may be linked where, one name per file, and which of them a
    connection has open;
  - `Contents`: between steps of a delete or restore a row's writes are split over two names and the
    open connection, and together they are what it was given;
  - `Erased`: nothing erased is in a file that a row, a request or a connection can reach.
* `FileStore_proofs`. `FileTypesHold`, `RefsCoverRowsHolds`, `BlobKeptHolds`. Neither of the
  last two is inductive: a count is correct only together with the uploads that have stored their
  row and not yet counted it, and a blob is kept only because whoever removes works alone. The
  invariant counts rows plus uploads in progress against the references (`Cover`), puts the blob of
  each of them on the disk (`Present`), says what a request holds at its step (`Locals`, `Phases`),
  and that a removal has no company (`Alone`); all of it holds or the history is `overlapped` or
  `torn`. `QuotaOvershootBoundedHolds`: an upload that read a usage below the limit holds a place in
  a budget until it inserts its row or fails; places and rows together never exceed
  `MaxFiles - 1 + |Requests|`.
* `TieredCache_proofs`. `AnswersAreRecentHolds`, `OwnChangesAreSeenHolds` and `RateIsBoundedHolds`, for
  any processes, calls, times to live and limit. A value on its way into a cache has not ended yet, because no time passes
  while it is (`FreshCall`, unless `slow`); so each tier bounds how long after its end it is still
  there (`Fresh`). For a session this needs that Redis holds only one that has not ended
  (`Session`), for which a session begins and ends once (`Started`). A process keeps nothing older
  than its own changes (`Own`) because `DelL1` is done before the answer and no read of that process
  is on its way meanwhile. Of the requests the rate limit lets through, the last ones belong to the
  window that each of them renewed, and its counter has counted them; all others came a window ago
  (`Metered`).
* `ExportImport_proofs`. `ExportIsWholeHolds`, `NothingStaysAttachedHolds` and `WritesStayHolds`,
  for any tables, requests, lists and uploads. All statements name the one file that is attached for
  exports and the one for imports, whoever attached it. `Owned` says whose it is: an import's while
  the queue runs it, an export's between its `ATTACH` and any export's `DETACH`. An export that no
  other ran beside therefore keeps its own file, and each table it was asked for is still to do or
  copied (`Progress`). A write lands in `main` because no attached file of an export has a table
  that `main` has not (`Safe`), unless one was dropped meanwhile (`strayed`).
* `MCServerAndPages_proofs`. Five of the seven properties of the run, whatever its bounds.
  - `LinksOpenTheirOwnHolds`: a token that was revoked is past its last second or still has its
    revocation (`Remembered`: clean-up removes none that matters), ids are of one token each
    (`Numbered`), and every file lies in its bucket's namespace or in that of its bucket's links
    (`Placed`). `LinksAssumption` is what the proof needs of the concatenation of strings: two slugs
    have two link namespaces.
  - `EmbedAnswersHolds`: while a channel has one listener, a question or answer on its way has a
    number that was given once, and the promise waiting for that number is the question's own
    (`Addressed`); a question of an open connection is settled, or on its way and waited for
    (`Followed`).
  - `MovesAreWholeHolds` and `CachesAreRecentHolds`: `ExportImport_proofs` and `TieredCache_proofs` are
    instantiated as the parts are, each action of a part is shown to be that of the instance, and
    their invariants carried over.
  - `MovesAreWholeHolds` is about the start on the data of an older version too, for any rows,
    databases and number of kills (`StartInv`). Two invariants are inductive side by side.
    `RowsMoved` says what a start has done when it is at a step (`Done`) and in which table the rows
    of each table are (`Moving`): while it is rebuilt in one of the two, and the other is missing,
    empty or a copy; a kill between `DROP` and `RENAME` breaks it, which is what `torn` excludes.
    `FilesNamed` keeps the file of each database under the registry's name for it or under that name
    without its prefix, and under the latter once all files are renamed: this is why the rows come
    after the files.
  - `PagesAreTrueHolds`: in an orderly history what a page shows is what is so, or something is
    still in flight that will change it (`ShownOrComing`): a read that is not answered yet or was
    served since the last change, a creation or deletion whose answer leads to another read
    (`OnItsWay`), or a status whose answer is shown itself. Answers that would bring the past back
    are stale by their version, or one of these follows them (`ReadsKnown`), and a status on its way
    is the one the registry has unless the database was deleted since (`TogglesKnown`). No button
    sends twice because the one of a request in flight is disabled (`Disabled`); that needs every
    request to be of a page that sends it (`Belongs`). `PagesAssumption`: the slug of a deleted
    database is no name. The deleted databases are therefore asked for by names the registry has not,
    so those requests are never carried out (`IsRequest`).
* `TableEditor_proofs`. `PendingIsExactHolds`, `ScreenMirrorsTableHolds` and `SavedAsShownHolds`,
  for any table, values, selection and any order of edits, pastes, saves and answers. The invariant
  `IInv` is an exact screen (the log names the rows on the screen that have a change, every index has
  its object, every object its two columns), a table with keys out of `Ids`, and calls on their way
  whose statements, records and rows have their shape: a record that comes back late is merged into
  the rows then. One lemma per operation on a screen (`ChangeValueIsExact`, `RemoveRowIsExact`,
  `ApplyChangesIsExact` ...) and one per action; each also says that the rows that came from the
  table keep the values they came with (`Keeps`), and that no change is logged twice.
  The other two properties say nothing of the middle of a save, so `MInv` does: the rows whose
  statement was executed stand in the table as they were returned, the others that are not new as
  they came, each once (`Mirrored`, under `calm`). `StatementMirrors` shows that any next statement
  of the plan keeps this, whether it inserts, deletes or updates and under whatever key;
  `AppliedMirrors` that the screen which takes the records over mirrors the table again. A fetch
  counts as `alone` only if no save began since (`Alone`), so the screen it brings does too. At the
  end of a save `Faithful` (what was returned is what was seen) and the mirror give `SavedAsShown`.
  What needs induction over the turns of a loop (filters, the removal of a selection) goes by the
  smallest counterexample, since the library's induction theorems take an operator.

* `MCStudioWindows_proofs`. Five of the six invariants and one of the two action properties of the
  run, whatever its bounds, which are constants of `MCStudioWindows`. (The tables of a result and
  the selections of the panel stay those of the run.)
  - `TabIsShownHolds` and `SavesReplaceTheirOwnHolds`, from one invariant (`TabsInv`): the tabs shown
    have different keys, and a save that holds the list on the screen is of the tab at its place in
    it (`OfItsTab`). Each operation on a list needs what it does to length and members: `Without` and
    the place that is found (`FoundPlace`) are by the smallest counterexample. Lists are kept by
    version, so a save of an older list that ends marks the history as `stale`.
  - `PromptLeavesMineHolds`: while a prompt is open the editor is what was typed and accepted with
    the suggestion in the place the prompt was opened over, and the closure of the prompt still has
    the text of that place (`ItsPlace`). So putting that text back gives what was there before
    (lemmas on replacing a segment of a sequence).
  - `ChangesAreTrueHolds`: while nothing was `torn` or `stale`, the saves are `Orderly`. Between two
    statements of the only save the table has the columns of the places behind as they are written
    and those of the places ahead as they were (`Halfway`), no two of one name (`KeptApart`), and
    what is left to send is what is made of the places ahead (`Rest`). So each kind of statement
    has a lemma of what it makes of the columns (`DropDone`, `AddDone`, `RenameDone`, `TitleDone`,
    `CreateDone`), and `LineDone` takes the place it was made of from ahead to behind. Saves in
    flight together are of one draft (`OneDraft`), or of one that changes nothing and so executes
    nothing (`Plain`, `NothingExecuted`). The screen is the table (`Synced`), or a save or a fetch is
    on its way that will make it so (`Coming`).
  - `ShiftSelectsRectangleHolds`: inductive as it stands, once the spans of two corners are known to
    be the same in either order.
  - `ButtonsFollowTableHolds`: the total is never of a page that was not read yet and a stale timer
    id remains only after a hasty discard (`PanelInv`); every copy of the settings, the stored one
    too, is complete and knows the last options of each format that is not in `clash`
    (`SettingsInv`).

Model-checked only: liveness under fairness; `FilesAreListed`, whose count of the files below each
folder is a sum over a set (a fold, and so induction over data), and `SchemaIsTrue`, whose diagram is
laid out by a fold; `SelectedIsExported`, whose ranges are merged and sorted by the library's
recursive operators; `SavedIsKept`, whose screens catch up with data over several requests; and the
properties of `studio_data`, whose parts use recursion over trees and scripts.

## Findings

Three runs show a statement of the sources that the code does not keep:

1. `torn_delete`: a soft delete renames the files before it closes the connection
   (registry.go:450-463); a kill between two renames loses acknowledged writes.
2. `presigned_link`: a download link made by `PresignDownloadFile` is always answered with 404
   (bucket_admin.go:521), because it looks for the file in the namespace of upload links.
3. `delete_selected`: deleting a selection whose first row was never saved marks a row that was not
   selected (table-data-tab.tsx:178).

## Observations

What the exclusions in the properties stand for. On the server:

* After a timed-out shutdown a database can have two writers (queue.go:61). A closure enqueued with
  a cancelled context may run (queue.go:48; queue_test.go:118 says it "should never actually run").
* A reset that races with `Pool.Get` leaves the old data readable (pool.go:88). The pragmas of a
  connection are lost when it is closed idle and opened again (pool.go:101-120).
* `restore` in `deleted/page.tsx` sends the name without the suffix a soft delete gave it;
  `DeletedDBAction` (db.go:212) looks for the suffixed slug and answers 404.
* A blob is deleted while its count is one (storage.go:348-353).
* A revoked key stays valid for `apiKeyTTL` + `l1TTL` = 20 minutes, where a comment says 15;
  `RevokeAPIKey` does not touch the caches. A non-empty list in Redis can never be read back (an
  array into `map[string]any`). Every request renews the window of the rate limit.
* Files uploaded by link do not appear in a bucket's list. The slug `bkt-a` shares a namespace with
  the links of bucket `a`. `DeleteBucket` leaves files, key and links working. A revoked token is
  valid again in its last second.
* Three overlapping exports can mix their files (deferred DETACH); a write to a table dropped during
  an export may land in the exported file. The import of a client that left attaches a new, empty
  file and leaves it behind.
* The rebuild of a table is several statements and no transaction: a kill after the INSERT makes
  every later start fail, one after the DROP empties the table (registry.go:169-170 says "It is
  idempotent — safe to call on every startup."). `StripPrefixes` renames `D-x` over an existing `x`.

In the front end: two list answers in the wrong order leave the older list; the page that was left
still navigates; a folder made before the identity of a database is known is remembered for
"unknown"; a save of a tab ends in whatever tab is open then; an answer for a closed prompt is
written into the next one; the aggregate of a selection stays after the table was read again; a
foreign key given as a constraint of the table makes the arrow look for the referring column's name;
default 0 and CHECK are lost when a script is read back; `DROP COLUMN` without quotes can reach
another column (Postgres).

## Not modelled

* REST row API, system handler: the same `Enqueue` and `Exec` as `WriteQueue` and `DBLifecycle`;
  what is left is building SQL text.
* Authentication middleware and login: comparisons without state, but for the session cache of
  `TieredCache`.
* Telemetry, configuration, helpers, request logging: independent counters, pure functions,
  plumbing.
* Front-end API routes, session middleware: they forward requests; the pages' models have answers
  that are refused or lost.
* UI widgets, charts, icons, the agent drivers: drawing and text.
* Process supervision: external; it is why the server's models have a crash and a restart.
* Liveness outside the queue: a request to the server may be lost and nothing retries it, so that no
  page promises that something eventually happens.

## Possible continuations

An abstract catalogue (row -> content) that `DBLifecycle` implements under `Careful`, with
`DataFollowsRowHolds` as its mapping.
