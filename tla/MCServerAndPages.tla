----------------------------- MODULE MCServerAndPages -----------------------------
(*****************************************************************************)
(* Instances of what surrounds a database: on the server its caches, the     *)
(* buckets, exports and imports and the migrations; in the admin             *)
(* application the pages, the saved queries, notes and boards, and the       *)
(* channels to a database elsewhere. The parts share nothing, so one run     *)
(* explores each of them from its own initial states.                        *)
(*****************************************************************************)
EXTENDS Integers, Sequences, FiniteSets, TLC

CONSTANTS
  DBNames,          \* names of databases
  PageClicks, PageVisits, PageRequests,  \* bounds of the pages of the databases
  Nothing, Broken,  \* null, and an error object where data is expected
  NoEntry,          \* no entry in localStorage
  NoValue,          \* no value in a cache
  Procs, Calls,                       \* server processes, requests at a time
  L1TTL, KeyTTL, SessionTTL,          \* times to live of the caches
  RateLimit, RateWindow,              \* requests of a key in a window
  MaxVersion, MaxTime, MaxChanges,    \* bounds of the caches
  BucketSlugs,                        \* slugs of buckets
  TokenTTL, FileTTL,                  \* lifetime of the token of a link, of a file with expires_in
  MaxStored, MaxLinks, MaxSeconds, MaxRequests,  \* bounds of the buckets
  MaxConns, MaxQuestions,             \* bounds of the channels
  MoveSlots, MaxWrites, MaxMoves,     \* exports and imports at a time, and their bounds
  OldRows, OldDbs, MaxKills           \* what an older version left, and a bound

VARIABLES
  part,  \* the part this behaviour is about
  files_files, files_made, files_folder, files_rows, files_custom, files_chosen,
  files_uploading, files_loading, files_error, files_dialog, files_reqs, files_orderly,
  files_ops,
  memory_db, memory_store, memory_open, memory_key, memory_custom, memory_next,
  memory_made, memory_torn, memory_opens,
  pages_rows, pages_clock, pages_page, pages_at, pages_mount, pages_data, pages_loading,
  pages_error, pages_busy, pages_confirm, pages_reqs, pages_seen, pages_orderly,
  pages_mixed, pages_ops,
  docs_namespaces, docs_docs, docs_ids, docs_tasks, docs_list, docs_tab, docs_late,
  docs_clicks,
  desktop_disk, desktop_cache, desktop_calls, desktop_saves, desktop_ids, desktop_ops,
  desktop_mine, desktop_reloaded, desktop_lost,
  embed_via, embed_conns, embed_requests, embed_answers, embed_asked, embed_settled,
  catalog_columns, catalog_alias, catalog_terms, catalog_calls, catalog_row,
  catalog_header, catalog_page, catalog_screen, catalog_form, catalog_ids,
  catalog_noted, catalog_crossed, catalog_formed, catalog_early, catalog_removed,
  catalog_ops,
  board_value, board_board, board_puts, board_disk, board_ids, board_mode, board_editor,
  board_dialog, board_pick, board_panel, board_dirty, board_torn, board_typed,
  board_overlap, board_rerun, board_ops,
  cache_kind, cache_redis, cache_now, cache_l1, cache_l2, cache_row, cache_flight,
  cache_calls, cache_rate, cache_ended, cache_known, cache_passed, cache_slow,
  cache_overlap, cache_outage, cache_ops,
  buckets_bucket, buckets_files, buckets_tokens, buckets_revocations, buckets_now,
  buckets_got, buckets_refused, buckets_nfiles, buckets_ops,
  moves_main, moves_attached, moves_file, moves_calls, moves_busy, moves_before,
  moves_dropped, moves_crossed, moves_kept, moves_strayed, moves_nrows, moves_ops,
  start_pc, start_tbl, start_tmp, start_columns, start_applied, start_registry,
  start_disk, start_spaces, start_had, start_torn, start_crashes

Folders == {<<>>, <<"docs">>, <<"docs", "api">>, <<"docs2">>}

\* Files uploaded for an import: one of both tables, one without the first.
Uploads == {[x \in {"t", "u"} |-> IF x = "t" THEN rows ELSE {12}] : rows \in {{11}, {0}}}

FilesPart == INSTANCE FileBrowser WITH
  Folders <- Folders, Longer <- {<<"docs2", "docs">>}, Limit <- 2, MaxFiles <- 3,
  MaxOps <- 2, MaxReqs <- 2, files <- files_files, made <- files_made,
  folder <- files_folder, rows <- files_rows, custom <- files_custom,
  chosen <- files_chosen, uploading <- files_uploading, loading <- files_loading,
  error <- files_error, dialog <- files_dialog, reqs <- files_reqs,
  orderly <- files_orderly, ops <- files_ops
files_vars ==
  <<files_files, files_made, files_folder, files_rows, files_custom, files_chosen,
    files_uploading, files_loading, files_error, files_dialog, files_reqs,
    files_orderly, files_ops>>

MemoryPart == INSTANCE FolderMemory WITH
  Names <- {"f", "g"}, Absent <- NoEntry, MaxDbs <- 2, MaxOpens <- 3, db <- memory_db,
  store <- memory_store, open <- memory_open, key <- memory_key,
  custom <- memory_custom, next <- memory_next, made <- memory_made,
  torn <- memory_torn, opens <- memory_opens
memory_vars ==
  <<memory_db, memory_store, memory_open, memory_key, memory_custom, memory_next,
    memory_made, memory_torn, memory_opens>>

\* The slug of a deleted database, its name and a number, is no name.
ASSUME PagesAssumption == PageClicks \in Nat /\ \A n \in DBNames : n \notin DBNames \X Nat

PagesPart == INSTANCE AdminPages WITH
  Names <- DBNames, Nothing <- Nothing, Broken <- Broken, MaxOps <- PageClicks,
  MaxMounts <- PageVisits, MaxReqs <- PageRequests, rows <- pages_rows, clock <- pages_clock, page <- pages_page,
  at <- pages_at, mount <- pages_mount, data <- pages_data, loading <- pages_loading,
  error <- pages_error, busy <- pages_busy, confirm <- pages_confirm,
  reqs <- pages_reqs, seen <- pages_seen, orderly <- pages_orderly,
  mixed <- pages_mixed, ops <- pages_ops
pages_vars ==
  <<pages_rows, pages_clock, pages_page, pages_at, pages_mount, pages_data, pages_loading,
    pages_error, pages_busy, pages_confirm, pages_reqs, pages_seen, pages_orderly,
    pages_mixed, pages_ops>>

DocsPart == INSTANCE SavedDocs WITH
  Tabs <- {1, 2}, MaxIds <- 2, MaxClicks <- 3, namespaces <- docs_namespaces,
  docs <- docs_docs, ids <- docs_ids, tasks <- docs_tasks, list <- docs_list,
  tab <- docs_tab, late <- docs_late, clicks <- docs_clicks
docs_vars ==
  <<docs_namespaces, docs_docs, docs_ids, docs_tasks, docs_list, docs_tab, docs_late,
    docs_clicks>>

DesktopPart == INSTANCE ElectronDocs WITH
  MaxIds <- 2, MaxCalls <- 3, disk <- desktop_disk, cache <- desktop_cache,
  calls <- desktop_calls, saves <- desktop_saves, ids <- desktop_ids,
  ops <- desktop_ops, mine <- desktop_mine, reloaded <- desktop_reloaded,
  lost <- desktop_lost
desktop_vars ==
  <<desktop_disk, desktop_cache, desktop_calls, desktop_saves, desktop_ids, desktop_ops,
    desktop_mine, desktop_reloaded, desktop_lost>>

EmbedPart == INSTANCE EmbedChannel WITH
  MaxConns <- MaxConns, MaxQuestions <- MaxQuestions, via <- embed_via, conns <- embed_conns,
  requests <- embed_requests, answers <- embed_answers, asked <- embed_asked,
  settled <- embed_settled
embed_vars == <<embed_via, embed_conns, embed_requests, embed_answers, embed_asked, embed_settled>>

CatalogPart == INSTANCE DataCatalog WITH
  Texts <- {"a", "b"}, Samples <- {"s"}, MaxTerms <- 2, MaxOps <- 6,
  columns <- catalog_columns, alias <- catalog_alias, terms <- catalog_terms,
  calls <- catalog_calls, row <- catalog_row, header <- catalog_header,
  page <- catalog_page, screen <- catalog_screen, form <- catalog_form,
  ids <- catalog_ids, noted <- catalog_noted, crossed <- catalog_crossed,
  formed <- catalog_formed, early <- catalog_early, removed <- catalog_removed,
  ops <- catalog_ops
catalog_vars ==
  <<catalog_columns, catalog_alias, catalog_terms, catalog_calls, catalog_row,
    catalog_header, catalog_page, catalog_screen, catalog_form, catalog_ids,
    catalog_noted, catalog_crossed, catalog_formed, catalog_early, catalog_removed,
    catalog_ops>>

BoardPart == INSTANCE Board WITH
  Sqls <- {"s", "t"}, Picks <- {"p", "q"}, MaxCharts <- 2, MaxFilters <- 1, MaxOps <- 6,
  value <- board_value, board <- board_board, puts <- board_puts, disk <- board_disk,
  ids <- board_ids, mode <- board_mode, editor <- board_editor, dialog <- board_dialog,
  pick <- board_pick, panel <- board_panel, dirty <- board_dirty, torn <- board_torn,
  typed <- board_typed, overlap <- board_overlap, rerun <- board_rerun, ops <- board_ops
board_vars ==
  <<board_value, board_board, board_puts, board_disk, board_ids, board_mode, board_editor,
    board_dialog, board_pick, board_panel, board_dirty, board_torn, board_typed,
    board_overlap, board_rerun, board_ops>>

\* Times to live pass, and what stands for no value is none.
ASSUME CachesAssumption ==
  /\ L1TTL \in Nat \ {0} /\ KeyTTL \in Nat \ {0} /\ SessionTTL \in Nat \ {0}
  /\ RateLimit \in Nat /\ RateWindow \in Nat
  /\ MaxVersion \in Nat \ {0} /\ MaxTime \in Nat
  /\ NoValue \notin Int /\ NoValue \notin Procs

CachePart == INSTANCE TieredCache WITH
  Procs <- Procs, Calls <- Calls, L1TTL <- L1TTL, KeyTTL <- KeyTTL, SessionTTL <- SessionTTL,
  Limit <- RateLimit, Window <- RateWindow, None <- NoValue, MaxVersion <- MaxVersion,
  MaxNow <- MaxTime, MaxOps <- MaxChanges,
  kind <- cache_kind, redis <- cache_redis, now <- cache_now, l1 <- cache_l1,
  l2 <- cache_l2, row <- cache_row, flight <- cache_flight, calls <- cache_calls,
  rate <- cache_rate, ended <- cache_ended, known <- cache_known,
  passed <- cache_passed, slow <- cache_slow, overlap <- cache_overlap,
  outage <- cache_outage, ops <- cache_ops
cache_vars ==
  <<cache_kind, cache_redis, cache_now, cache_l1, cache_l2, cache_row, cache_flight,
    cache_calls, cache_rate, cache_ended, cache_known, cache_passed, cache_slow,
    cache_overlap, cache_outage, cache_ops>>

BucketsPart == INSTANCE Buckets WITH
  Slugs <- BucketSlugs, TokenTTL <- TokenTTL, FileTTL <- FileTTL, MaxFiles <- MaxStored,
  MaxTokens <- MaxLinks, MaxNow <- MaxSeconds, MaxOps <- MaxRequests, bucket <- buckets_bucket, files <- buckets_files,
  tokens <- buckets_tokens, revocations <- buckets_revocations, now <- buckets_now,
  got <- buckets_got, refused <- buckets_refused, nfiles <- buckets_nfiles,
  ops <- buckets_ops
buckets_vars ==
  <<buckets_bucket, buckets_files, buckets_tokens, buckets_revocations, buckets_now,
    buckets_got, buckets_refused, buckets_nfiles, buckets_ops>>

\* The links of two buckets have two namespaces.
ASSUME LinksAssumption ==
  /\ TokenTTL \in Nat
  /\ \A s, t \in BucketSlugs : BucketsPart!LinkSpace(s) = BucketsPart!LinkSpace(t) => s = t

\* 0 stands for no request and for no row.
ASSUME MovesAssumption == 0 \notin MoveSlots /\ 0 \notin OldRows

MovesPart == INSTANCE ExportImport WITH
  Tables <- {"t", "u"}, Slots <- MoveSlots, Asked <- {<<"t", "u">>}, Uploads <- Uploads,
  MaxRows <- MaxWrites, MaxOps <- MaxMoves, main <- moves_main, attached <- moves_attached,
  file <- moves_file, calls <- moves_calls, busy <- moves_busy, before <- moves_before,
  dropped <- moves_dropped, crossed <- moves_crossed, kept <- moves_kept,
  strayed <- moves_strayed, nrows <- moves_nrows, ops <- moves_ops
moves_vars ==
  <<moves_main, moves_attached, moves_file, moves_calls, moves_busy, moves_before,
    moves_dropped, moves_crossed, moves_kept, moves_strayed, moves_nrows, moves_ops>>

StartPart == INSTANCE Migrations WITH
  Rows <- OldRows, Dbs <- OldDbs, MaxCrashes <- MaxKills, pc <- start_pc, tbl <- start_tbl,
  tmp <- start_tmp, columns <- start_columns, applied <- start_applied,
  registry <- start_registry, disk <- start_disk, spaces <- start_spaces,
  had <- start_had, torn <- start_torn, crashes <- start_crashes
start_vars ==
  <<start_pc, start_tbl, start_tmp, start_columns, start_applied, start_registry,
    start_disk, start_spaces, start_had, start_torn, start_crashes>>

\* A behaviour is one of one part; the variables of the others are empty and stay so.
OnlyAtFirst(p) ==
  /\ IF p = "files" THEN FilesPart!Init
     ELSE files_files = <<>> /\ files_made = <<>> /\ files_folder = <<>> /\
          files_rows = <<>> /\ files_custom = <<>> /\ files_chosen = <<>> /\
          files_uploading = <<>> /\ files_loading = <<>> /\ files_error = <<>> /\
          files_dialog = <<>> /\ files_reqs = <<>> /\ files_orderly = <<>> /\
          files_ops = <<>>
  /\ IF p = "memory" THEN MemoryPart!Init
     ELSE memory_db = <<>> /\ memory_store = <<>> /\ memory_open = <<>> /\
          memory_key = <<>> /\ memory_custom = <<>> /\ memory_next = <<>> /\
          memory_made = <<>> /\ memory_torn = <<>> /\ memory_opens = <<>>
  /\ IF p = "pages" THEN PagesPart!Init
     ELSE pages_rows = <<>> /\ pages_clock = <<>> /\ pages_page = <<>> /\ pages_at = <<>>
          /\ pages_mount = <<>> /\ pages_data = <<>> /\ pages_loading = <<>> /\
          pages_error = <<>> /\ pages_busy = <<>> /\ pages_confirm = <<>> /\
          pages_reqs = <<>> /\ pages_seen = <<>> /\ pages_orderly = <<>> /\
          pages_mixed = <<>> /\ pages_ops = <<>>
  /\ IF p = "docs" THEN DocsPart!Init
     ELSE docs_namespaces = <<>> /\ docs_docs = <<>> /\ docs_ids = <<>> /\
          docs_tasks = <<>> /\ docs_list = <<>> /\ docs_tab = <<>> /\ docs_late = <<>> /\
          docs_clicks = <<>>
  /\ IF p = "desktop" THEN DesktopPart!Init
     ELSE desktop_disk = <<>> /\ desktop_cache = <<>> /\ desktop_calls = <<>> /\
          desktop_saves = <<>> /\ desktop_ids = <<>> /\ desktop_ops = <<>> /\
          desktop_mine = <<>> /\ desktop_reloaded = <<>> /\ desktop_lost = <<>>
  /\ IF p = "embed" THEN EmbedPart!Init
     ELSE embed_via = <<>> /\ embed_conns = <<>> /\ embed_requests = <<>> /\
          embed_answers = <<>> /\ embed_asked = <<>> /\ embed_settled = <<>>
  /\ IF p = "catalog" THEN CatalogPart!Init
     ELSE catalog_columns = <<>> /\ catalog_alias = <<>> /\ catalog_terms = <<>> /\
          catalog_calls = <<>> /\ catalog_row = <<>> /\ catalog_header = <<>> /\
          catalog_page = <<>> /\ catalog_screen = <<>> /\ catalog_form = <<>> /\
          catalog_ids = <<>> /\ catalog_noted = <<>> /\ catalog_crossed = <<>> /\
          catalog_formed = <<>> /\ catalog_early = <<>> /\ catalog_removed = <<>> /\
          catalog_ops = <<>>
  /\ IF p = "board" THEN BoardPart!Init
     ELSE board_value = <<>> /\ board_board = <<>> /\ board_puts = <<>> /\
          board_disk = <<>> /\ board_ids = <<>> /\ board_mode = <<>> /\
          board_editor = <<>> /\ board_dialog = <<>> /\ board_pick = <<>> /\
          board_panel = <<>> /\ board_dirty = <<>> /\ board_torn = <<>> /\
          board_typed = <<>> /\ board_overlap = <<>> /\ board_rerun = <<>> /\
          board_ops = <<>>
  /\ IF p = "cache" THEN CachePart!Init
     ELSE cache_kind = <<>> /\ cache_redis = <<>> /\ cache_now = <<>> /\ cache_l1 = <<>>
          /\ cache_l2 = <<>> /\ cache_row = <<>> /\ cache_flight = <<>> /\
          cache_calls = <<>> /\ cache_rate = <<>> /\ cache_ended = <<>> /\
          cache_known = <<>> /\ cache_passed = <<>> /\ cache_slow = <<>> /\
          cache_overlap = <<>> /\ cache_outage = <<>> /\ cache_ops = <<>>
  /\ IF p = "buckets" THEN BucketsPart!Init
     ELSE buckets_bucket = <<>> /\ buckets_files = <<>> /\ buckets_tokens = <<>> /\
          buckets_revocations = <<>> /\ buckets_now = <<>> /\ buckets_got = <<>> /\
          buckets_refused = <<>> /\ buckets_nfiles = <<>> /\ buckets_ops = <<>>
  /\ IF p = "moves" THEN MovesPart!Init
     ELSE moves_main = <<>> /\ moves_attached = <<>> /\ moves_file = <<>> /\
          moves_calls = <<>> /\ moves_busy = <<>> /\ moves_before = <<>> /\
          moves_dropped = <<>> /\ moves_crossed = <<>> /\ moves_kept = <<>> /\
          moves_strayed = <<>> /\ moves_nrows = <<>> /\ moves_ops = <<>>
  /\ IF p = "start" THEN StartPart!Init
     ELSE start_pc = <<>> /\ start_tbl = <<>> /\ start_tmp = <<>> /\ start_columns = <<>>
          /\ start_applied = <<>> /\ start_registry = <<>> /\ start_disk = <<>> /\
          start_spaces = <<>> /\ start_had = <<>> /\ start_torn = <<>> /\
          start_crashes = <<>>

Init == part \in {"files", "memory", "pages", "docs", "desktop", "embed",
                  "catalog", "board", "cache", "buckets",
                  "moves", "start"} /\ OnlyAtFirst(part)

FilesNext ==
  /\ part = "files" /\ FilesPart!Next
  /\ UNCHANGED <<part, memory_vars, pages_vars, docs_vars, desktop_vars, embed_vars,
                 catalog_vars, board_vars, cache_vars, buckets_vars, moves_vars,
                 start_vars>>

MemoryNext ==
  /\ part = "memory" /\ MemoryPart!Next
  /\ UNCHANGED <<part, files_vars, pages_vars, docs_vars, desktop_vars, embed_vars,
                 catalog_vars, board_vars, cache_vars, buckets_vars, moves_vars,
                 start_vars>>

PagesNext ==
  /\ part = "pages" /\ PagesPart!Next
  /\ UNCHANGED <<part, files_vars, memory_vars, docs_vars, desktop_vars, embed_vars,
                 catalog_vars, board_vars, cache_vars, buckets_vars, moves_vars,
                 start_vars>>

DocsNext ==
  /\ part = "docs" /\ DocsPart!Next
  /\ UNCHANGED <<part, files_vars, memory_vars, pages_vars, desktop_vars, embed_vars,
                 catalog_vars, board_vars, cache_vars, buckets_vars, moves_vars,
                 start_vars>>

DesktopNext ==
  /\ part = "desktop" /\ DesktopPart!Next
  /\ UNCHANGED <<part, files_vars, memory_vars, pages_vars, docs_vars, embed_vars,
                 catalog_vars, board_vars, cache_vars, buckets_vars, moves_vars,
                 start_vars>>

EmbedNext ==
  /\ part = "embed" /\ EmbedPart!Next
  /\ UNCHANGED <<part, files_vars, memory_vars, pages_vars, docs_vars, desktop_vars,
                 catalog_vars, board_vars, cache_vars, buckets_vars, moves_vars,
                 start_vars>>

CatalogNext ==
  /\ part = "catalog" /\ CatalogPart!Next
  /\ UNCHANGED <<part, files_vars, memory_vars, pages_vars, docs_vars, desktop_vars,
                 embed_vars, board_vars, cache_vars, buckets_vars, moves_vars,
                 start_vars>>

BoardNext ==
  /\ part = "board" /\ BoardPart!Next
  /\ UNCHANGED <<part, files_vars, memory_vars, pages_vars, docs_vars, desktop_vars,
                 embed_vars, catalog_vars, cache_vars, buckets_vars, moves_vars,
                 start_vars>>

CacheNext ==
  /\ part = "cache" /\ CachePart!Next
  /\ UNCHANGED <<part, files_vars, memory_vars, pages_vars, docs_vars, desktop_vars,
                 embed_vars, catalog_vars, board_vars, buckets_vars, moves_vars,
                 start_vars>>

BucketsNext ==
  /\ part = "buckets" /\ BucketsPart!Next
  /\ UNCHANGED <<part, files_vars, memory_vars, pages_vars, docs_vars, desktop_vars,
                 embed_vars, catalog_vars, board_vars, cache_vars, moves_vars,
                 start_vars>>

MovesNext ==
  /\ part = "moves" /\ MovesPart!Next
  /\ UNCHANGED <<part, files_vars, memory_vars, pages_vars, docs_vars, desktop_vars,
                 embed_vars, catalog_vars, board_vars, cache_vars, buckets_vars,
                 start_vars>>

StartNext ==
  /\ part = "start" /\ StartPart!Next
  /\ UNCHANGED <<part, files_vars, memory_vars, pages_vars, docs_vars, desktop_vars,
                 embed_vars, catalog_vars, board_vars, cache_vars, buckets_vars,
                 moves_vars>>

Next == FilesNext \/ MemoryNext \/ PagesNext \/ DocsNext \/ DesktopNext \/ EmbedNext \/
        CatalogNext \/ BoardNext \/ CacheNext \/ BucketsNext \/ MovesNext \/ StartNext

vars == <<part, files_vars, memory_vars, pages_vars, docs_vars, desktop_vars, embed_vars,
          catalog_vars, board_vars, cache_vars, buckets_vars, moves_vars, start_vars>>
Spec == Init /\ [][Next]_vars
-----------------------------------------------------------------------------
\* The files page: what it lists is shown, with nothing in flight it is what is stored, and the
\* folders a user made survive and are shown for their own database only.
FilesAreListed ==
  /\ part = "files" => FilesPart!ListedIsShown /\ FilesPart!QuietIsFresh
  /\ part = "memory" => MemoryPart!NoFolderOfAnotherDatabase /\ MemoryPart!FolderSurvives

\* The pages of the databases show the registry once everything is answered, and no button runs
\* its operation twice.
PagesAreTrue == part = "pages" => PagesPart!QuietPageIsTrue /\ PagesPart!OneRequestPerButton


\* Saved queries: none without its folder, and the list is what is stored; in the desktop
\* application what was saved is listed and in the file.  Notes, terms and boards: what was
\* saved is stored and shown.
SavedIsKept ==
  /\ part = "docs" => DocsPart!NoOrphans /\ DocsPart!QuietListIsStore
  /\ part = "desktop" => DesktopPart!DocsAreKept
  /\ part = "catalog" => CatalogPart!NotesAreKept /\ CatalogPart!TermsAreShown
  /\ part = "board" => BoardPart!BoardIsStored /\ BoardPart!ChartIsOfItsQuery
                         /\ BoardPart!EditorKeepsTyping

\* Channels: a question is settled by its own answer.
EmbedAnswers == part = "embed" => EmbedPart!OwnAnswer


\* What a cache answers was true until recently, a process does not take back what it answered,
\* and the rate limit holds in every minute.
CachesAreRecent ==
  part = "cache" => CachePart!AnswersAreRecent /\ CachePart!OwnChangesAreSeen /\ CachePart!RateIsBounded

\* A revoked link opens nothing, and a link opens what was given to its bucket.
LinksOpenTheirOwn == part = "buckets" => BucketsPart!RevokedIsRefused /\ BucketsPart!LinkOpensItsBucket

\* Exports are whole and leave nothing attached, writes beside them stay, and the start on an
\* older data directory brings over every row and file, however often it is killed.
MovesAreWhole ==
  /\ part = "moves" => MovesPart!ExportIsWhole /\ MovesPart!NothingStaysAttached /\ MovesPart!WritesStay
  /\ part = "start" => StartPart!RowsAreMoved /\ StartPart!RowsAreSomewhere /\ StartPart!StartSucceeds
                         /\ StartPart!RowsNameTheirFiles
=============================================================================
