---------------------------- MODULE DBLifecycle ----------------------------
(***************************************************************************)
(* The life of a tenant database across three stores that no transaction   *)
(* spans: its row in the registry (server/db/registry.go), its file and    *)
(* WAL sidecar on disk, and its connection in the pool (server/db/pool.go),*)
(* driven by the handlers of server/handler/db.go and exec.go.             *)
(*                                                                         *)
(* A handler is a request that runs concurrently with the others, one      *)
(* action per step that other requests, or a crash, can come between.      *)
(* A name is the sequence of its slug and the epochs soft deletes appended *)
(* to it.  A file is an inode: rename moves it, a connection keeps it.     *)
(* SQLite is external and modelled by how it treats the two files.         *)
(***************************************************************************)
EXTENDS Integers, Sequences, FiniteSets, TLC

CONSTANTS
  Slugs,     \* names that CreateDB is called with
  Requests,  \* request slots: how many requests run at the same time
  Handles,   \* *sql.DB objects
  Writes,    \* tokens for the effects of write statements, one per write
  MaxEpoch,  \* bound: the clock's last second
  MaxNest,   \* bound: soft deletes of one file, deleted names included
  MaxOps,    \* bound: requests in a behaviour
  Inodes,    \* numbers for files
  Careful,   \* operators run life-cycle requests alone, one delete a second
  None

ASSUME BoundsAssumption == MaxEpoch \in Nat \ {0} /\ MaxNest \in Nat /\ MaxOps \in Nat
ASSUME InodesAssumption == Inodes \subseteq Nat /\ IsFiniteSet(Inodes)
ASSUME CarefulAssumption == Careful \in BOOLEAN

Epochs == 1..MaxEpoch
Deletes == UNION {[1..k -> Epochs] : k \in 0..MaxNest}
Names == UNION {{<<s>> \o q : q \in Deletes} : s \in Slugs}

ASSUME NoneAssumption == None \notin Inodes \cup Handles \cup Writes /\ None \notin Names

VARIABLES
  rows,    \* registry: name -> id, status ("none": no row) and original_slug
  fs,      \* directory: name -> inode of name.db and of name.db-wal, or None
  data,    \* inode -> the writes recorded in it
  pool,    \* Pool.conns: name -> handle, or None
  conn,    \* handle -> its connection: open on two inodes, idle or closed
  req,     \* request slot -> what it executes and where it is
  clock,   \* time.Now().Unix()
  ops,     \* requests started
  acked,   \* history: writes whose request was answered with success
  gone,    \* history: writes whose file a hard delete or a reset unlinked
  erased,  \* history: writes visible before a reset that reported success
  home,    \* history: write -> id of the row its request found
  lastDelete, \* history: second of the latest soft delete
  torn     \* history: a crash came when a life-cycle request was half done

History == <<acked, gone, erased, home, lastDelete, torn>>
vars == <<rows, fs, data, pool, conn, req, clock, ops, History>>

NoRow == [id |-> 0, status |-> "none", orig |-> None]
NoFiles == [db |-> None, wal |-> None]
ClosedConn == [state |-> "closed", name |-> None, db |-> None, wal |-> None]
IdleSlot == [op |-> "idle", step |-> "idle", name |-> None, to |-> None,
             handle |-> None, write |-> None, seen |-> {}]

Exists(n) == rows[n].status # "none"
DeletedName(n) == Append(n, clock)   \* fmt.Sprintf("%s-%d", slug, epoch)

Init ==
  /\ rows = [n \in Names |-> NoRow]
  /\ fs = [n \in Names |-> NoFiles]
  /\ data = [i \in Inodes |-> {}]
  /\ pool = [n \in Names |-> None]
  /\ conn = [h \in Handles |-> ClosedConn]
  /\ req = [r \in Requests |-> IdleSlot]
  /\ clock = 1
  /\ ops = 0
  /\ acked = {} /\ gone = {} /\ erased = {}
  /\ home = [w \in Writes |-> 0]
  /\ lastDelete = 0
  /\ torn = FALSE

-----------------------------------------------------------------------------
(* SQLite and the file system *)

Content(i) == IF i = None THEN {} ELSE data[i]
FileContent(n) == Content(fs[n].db) \cup Content(fs[n].wal)

\* What a statement on database n would see now: through the pooled connection
\* if it is open, else by opening the files; a WAL without its file is dropped.
Visible(n) ==
  IF pool[n] # None /\ conn[pool[n]].state = "open"
  THEN Content(conn[pool[n]].db) \cup Content(conn[pool[n]].wal)
  ELSE IF fs[n].db = None THEN {} ELSE FileContent(n)

InUse == (UNION {{fs[n].db, fs[n].wal} : n \in Names})
           \cup (UNION {{conn[h].db, conn[h].wal} : h \in Handles})
FreshDb == CHOOSE i \in Inodes \ InUse : TRUE
FreshWal == CHOOSE i \in Inodes \ (InUse \cup {FreshDb}) : TRUE
Room == Cardinality(Inodes \ InUse) >= 2   \* bound: numbers for two files are left

\* Opening by path creates missing files; beside an empty database file a WAL
\* left over from another one is deleted and a new one is begun.
OpenConn(h, n) ==
  LET new == fs[n].db = None
      db == IF new THEN FreshDb ELSE fs[n].db
      wal == IF new \/ fs[n].wal = None THEN FreshWal ELSE fs[n].wal IN
  /\ Room
  /\ fs' = [fs EXCEPT ![n] = [db |-> db, wal |-> wal]]
  /\ data' = [i \in Inodes |->
       IF i \in {db, wal} \ {fs[n].db, fs[n].wal} THEN {} ELSE data[i]]
  /\ conn' = [conn EXCEPT ![h] = [state |-> "open", name |-> n, db |-> db, wal |-> wal]]

\* Closing the last connection of a file that still has its name moves the WAL
\* into the database file and deletes it.
CloseConn(h, to) ==
  LET c == conn[h]
      last == \A g \in Handles \ {h} : conn[g].db # c.db
      checkpoint == c.state = "open" /\ last /\ fs[c.name].db = c.db IN
  /\ conn' = [conn EXCEPT ![h] = to]
  /\ data' = IF checkpoint THEN [data EXCEPT ![c.db] = @ \cup data[c.wal]] ELSE data
  /\ fs' = IF checkpoint THEN [fs EXCEPT ![c.name].wal = None] ELSE fs

\* database/sql drops a connection that was idle for ConnMaxIdleTime; the handle
\* stays usable and reconnects by path.
IdleClose(h) ==
  /\ conn[h].state = "open"
  /\ CloseConn(h, [ClosedConn EXCEPT !.state = "idle", !.name = conn[h].name])
  /\ UNCHANGED <<rows, pool, req, clock, ops, History>>

-----------------------------------------------------------------------------
(* Requests.  A handler's registry check and its failure paths before the    *)
(* first effect change nothing: a request starts with its check passed.      *)

LifeCycle == {"delete", "restore", "hardDelete", "reset"}

\* Under Careful a life-cycle request finds no other request and keeps out new
\* ones; deletes are at least a second apart.
MayStart(op) ==
  /\ ops < MaxOps
  /\ Careful =>
       /\ \A r \in Requests : req[r].op \notin LifeCycle
       /\ op \in LifeCycle => \A r \in Requests : req[r].op = "idle"
       /\ op = "delete" => clock > lastDelete

StartWith(r, op, slot) ==
  /\ req[r].op = "idle"
  /\ MayStart(op)
  /\ req' = [req EXCEPT ![r] = [slot EXCEPT !.op = op]]
  /\ ops' = ops + 1

StartTo(r, op, n, to, step) == StartWith(r, op, [IdleSlot EXCEPT !.step = step, !.name = n, !.to = to])
Start(r, op, n, step) == StartTo(r, op, n, None, step)

Goto(r, from, to) == req[r].step = from /\ req' = [req EXCEPT ![r].step = to]
Finish(r) == req' = [req EXCEPT ![r] = IdleSlot]

\* CreateDB: "Database already exists" unless the slug is free.
StartCreate(r, n) ==
  /\ Len(n) = 1
  /\ ~Exists(n)
  /\ Start(r, "create", n, "get")
  /\ UNCHANGED <<rows, fs, data, pool, conn, clock, History>>

\* Exec of a write: GetDatabase and authorisation.  An admin may write to inactive
\* and deleted databases too, so the row need only exist.
StartWrite(r, n, w) ==
  /\ Exists(n)
  /\ home[w] = 0
  /\ StartWith(r, "write", [IdleSlot EXCEPT !.step = "get", !.name = n, !.write = w])
  /\ home' = [home EXCEPT ![w] = rows[n].id]
  /\ UNCHANGED <<rows, fs, data, pool, conn, clock, acked, gone, erased, lastDelete, torn>>

\* DeleteDB checks only that the row exists, whatever its status.
StartDelete(r, n) ==
  /\ Exists(n)
  /\ Len(n) <= MaxNest
  /\ StartTo(r, "delete", n, DeletedName(n), "renameDb")
  /\ lastDelete' = clock
  /\ UNCHANGED <<rows, fs, data, pool, conn, clock, acked, gone, erased, home, torn>>

\* DeletedDBAction, restore: a deleted row whose original slug is free.
StartRestore(r, n) ==
  /\ rows[n].status = "deleted"
  /\ rows[n].orig # None
  /\ ~Exists(rows[n].orig)
  /\ StartTo(r, "restore", n, rows[n].orig, "renameDb")
  /\ UNCHANGED <<rows, fs, data, pool, conn, clock, History>>

StartHardDelete(r, n) ==
  /\ rows[n].status = "deleted"
  /\ Start(r, "hardDelete", n, "removeDb")
  /\ UNCHANGED <<rows, fs, data, pool, conn, clock, History>>

\* PatchDB, reset_db: the row exists and os.Stat finds the file.
StartReset(r, n) ==
  /\ Exists(n)
  /\ fs[n].db # None
  /\ StartWith(r, "reset", [IdleSlot EXCEPT !.step = "close", !.name = n, !.seen = Visible(n)])
  /\ UNCHANGED <<rows, fs, data, pool, conn, clock, History>>

\* Fault: the status of the request body is not validated.
SetAnyStatus(r, n, status) ==
  /\ Exists(n)
  /\ req[r].op = "idle" /\ MayStart("setStatus")
  /\ rows' = [rows EXCEPT ![n].status = "other"]
  /\ ops' = ops + 1
  /\ UNCHANGED <<fs, data, pool, conn, req, clock, History>>

\* PatchDB, set_status: SetDatabaseStatus updates any row of that slug.
SetStatus(r, n, status) ==
  /\ Exists(n)
  /\ req[r].op = "idle" /\ MayStart("setStatus")
  /\ rows' = [rows EXCEPT ![n].status = status]
  /\ ops' = ops + 1
  /\ UNCHANGED <<fs, data, pool, conn, req, clock, History>>

-----------------------------------------------------------------------------
(* Pool.Get, of CreateDB and of the data handlers *)

Got(r, h) ==
  req' = [req EXCEPT ![r].handle = h, ![r].step = IF req[r].op = "create" THEN "insert" ELSE "exec"]

\* Under the read lock.
GetFast(r) ==
  LET h == pool[req[r].name] IN
  /\ req[r].step = "get"
  /\ IF h # None THEN Got(r, h) ELSE Goto(r, "get", "getSlow")
  /\ UNCHANGED <<rows, fs, data, pool, conn, clock, ops, History>>

Unreferenced(h) == conn[h] = ClosedConn /\ \A q \in Requests : req[q].handle # h

\* Fault: no second look under the write lock.
GetSlowUnchecked(r) ==
  LET n == req[r].name IN
  /\ req[r].step = "getSlow"
  /\ \E h \in Handles :
       /\ Unreferenced(h)
       /\ OpenConn(h, n)
       /\ pool' = [pool EXCEPT ![n] = h]
       /\ Got(r, h)
  /\ UNCHANGED <<rows, clock, ops, History>>

\* Under the write lock: looked up again, else opened and stored.
GetSlow(r) ==
  LET n == req[r].name IN
  /\ req[r].step = "getSlow"
  /\ UNCHANGED <<rows, clock, ops, History>>
  /\ \/ /\ pool[n] # None
        /\ Got(r, pool[n])
        /\ UNCHANGED <<fs, data, pool, conn>>
     \/ /\ pool[n] = None
        /\ \E h \in Handles :
             /\ Unreferenced(h)
             /\ OpenConn(h, n)
             /\ pool' = [pool EXCEPT ![n] = h]
             /\ Got(r, h)

FreshId == CHOOSE i \in 1..MaxOps : (\A w \in Writes : home[w] # i) /\ (\A n \in Names : rows[n].id # i)

\* CreateDB: InsertDatabase; the UNIQUE constraint refuses a slug that is taken.
InsertRow(r) ==
  LET n == req[r].name IN
  /\ req[r].step = "insert"
  /\ rows' = IF Exists(n) THEN rows
             ELSE [rows EXCEPT ![n] = [id |-> FreshId, status |-> "active", orig |-> None]]
  /\ Finish(r)
  /\ UNCHANGED <<fs, data, pool, conn, clock, ops, History>>

-----------------------------------------------------------------------------
(* The write closure, on the handle the handler got before it was queued *)

Reconnect(r) ==
  LET h == req[r].handle IN
  /\ req[r].step = "exec"
  /\ conn[h].state = "idle"
  /\ OpenConn(h, conn[h].name)
  /\ UNCHANGED <<rows, pool, req, clock, ops, History>>

ExecWrite(r) ==
  LET c == conn[req[r].handle] IN
  /\ req[r].step = "exec"
  /\ c.state = "open"
  /\ data' = [data EXCEPT ![c.wal] = @ \cup {req[r].write}]
  /\ acked' = acked \cup {req[r].write}
  /\ Finish(r)
  /\ UNCHANGED <<rows, fs, pool, conn, clock, ops, gone, erased, home, lastDelete, torn>>

\* "sql: database is closed": the request fails.
ExecClosed(r) ==
  /\ req[r].step = "exec"
  /\ conn[req[r].handle].state = "closed"
  /\ Finish(r)
  /\ UNCHANGED <<rows, fs, data, pool, conn, clock, ops, History>>

-----------------------------------------------------------------------------
(* Soft delete and restore: rename name.db, then its sidecars (the -shm file  *)
(* holds no data), then, for a delete, close the pooled connection, then      *)
(* update the row.  A rename replaces what its target named.                  *)

RenameDb(r) ==
  LET n == req[r].name
      to == req[r].to IN
  /\ Goto(r, "renameDb", "renameWal")
  /\ fs' = IF fs[n].db = None THEN fs
           ELSE [fs EXCEPT ![to].db = fs[n].db, ![n].db = None]
  /\ UNCHANGED <<rows, data, pool, conn, clock, ops, History>>

\* Fault: only the database file is renamed.
SkipSidecars(r) ==
  /\ Goto(r, "renameWal", IF req[r].op = "delete" THEN "close" ELSE "update")
  /\ UNCHANGED <<rows, fs, data, pool, conn, clock, ops, History>>

RenameWal(r) ==
  LET n == req[r].name
      to == req[r].to IN
  /\ Goto(r, "renameWal", IF req[r].op = "delete" THEN "close" ELSE "update")
  /\ fs' = IF fs[n].wal = None THEN fs
           ELSE [fs EXCEPT ![to].wal = fs[n].wal, ![n].wal = None]
  /\ UNCHANGED <<rows, data, pool, conn, clock, ops, History>>

\* Fault: the pooled connection is left alone.
KeepPooled(r) ==
  /\ Goto(r, "close", IF req[r].op = "delete" THEN "update" ELSE "removeDb")
  /\ UNCHANGED <<rows, fs, data, pool, conn, clock, ops, History>>

\* Close the pooled connection and forget it: under the pool's lock, in
\* SoftDeleteDatabase after the renames and in Pool.Remove before the removals.
ClosePooled(r) ==
  LET n == req[r].name IN
  /\ Goto(r, "close", IF req[r].op = "delete" THEN "update" ELSE "removeDb")
  /\ pool' = [pool EXCEPT ![n] = None]
  /\ IF pool[n] = None THEN UNCHANGED <<fs, data, conn>> ELSE CloseConn(pool[n], ClosedConn)
  /\ UNCHANGED <<rows, clock, ops, History>>

\* UPDATE databases SET slug = ... WHERE slug = ...: nothing if the row has gone,
\* refused by the UNIQUE constraint if the new slug is taken.
UpdateRow(r) ==
  LET n == req[r].name
      to == req[r].to
      row == IF req[r].op = "delete" THEN [rows[n] EXCEPT !.status = "deleted", !.orig = n]
             ELSE [rows[n] EXCEPT !.status = "active", !.orig = None] IN
  /\ req[r].step = "update"
  /\ rows' = IF Exists(n) /\ ~Exists(to) THEN [rows EXCEPT ![n] = NoRow, ![to] = row] ELSE rows
  /\ Finish(r)
  /\ UNCHANGED <<fs, data, pool, conn, clock, ops, History>>

-----------------------------------------------------------------------------
(* Hard delete and reset: remove name.db, then its sidecars.  A reset does so *)
(* twice, in Pool.Remove and once more in PatchDB; a hard delete then deletes *)
(* the row.                                                                   *)

RemoveDb(r) ==
  LET n == req[r].name IN
  /\ \/ Goto(r, "removeDb", "removeWal") \/ Goto(r, "removeDb2", "removeWal2")
  /\ gone' = IF fs[n].db = None THEN gone ELSE gone \cup FileContent(n)
  /\ fs' = [fs EXCEPT ![n].db = None]
  /\ UNCHANGED <<rows, data, pool, conn, clock, ops, acked, erased, home, lastDelete, torn>>

RemoveWal(r) ==
  LET n == req[r].name IN
  /\ Goto(r, "removeWal", IF req[r].op = "reset" THEN "removeDb2" ELSE "deleteRow")
  /\ fs' = [fs EXCEPT ![n].wal = None]
  /\ UNCHANGED <<rows, data, pool, conn, clock, ops, History>>

\* The reset answers with success.
FinishReset(r) ==
  /\ req[r].step = "removeWal2"
  /\ fs' = [fs EXCEPT ![req[r].name].wal = None]
  /\ erased' = erased \cup req[r].seen
  /\ Finish(r)
  /\ UNCHANGED <<rows, data, pool, conn, clock, ops, acked, gone, home, lastDelete, torn>>

DeleteRow(r) ==
  /\ req[r].step = "deleteRow"
  /\ rows' = [rows EXCEPT ![req[r].name] = NoRow]
  /\ Finish(r)
  /\ UNCHANGED <<fs, data, pool, conn, clock, ops, History>>

-----------------------------------------------------------------------------
Tick ==
  /\ clock < MaxEpoch
  /\ clock' = clock + 1
  /\ UNCHANGED <<rows, fs, data, pool, conn, req, ops, History>>

\* A renaming request whose row is not yet updated; a removal without its WAL's or row's.
HalfDone(r) ==
  \/ req[r].to # None /\ req[r].step # "renameDb"
  \/ req[r].step \in {"removeWal", "deleteRow"}

\* The process is killed and started again: registry and files survive, nothing
\* is checkpointed.
Crash ==
  /\ pool' = [n \in Names |-> None]
  /\ conn' = [h \in Handles |-> ClosedConn]
  /\ req' = [r \in Requests |-> IdleSlot]
  /\ torn' = (torn \/ \E r \in Requests : HalfDone(r))
  /\ UNCHANGED <<rows, fs, data, clock, ops, acked, gone, erased, home, lastDelete>>

StartRequest(r) ==
  \E n \in Names :
    \/ StartCreate(r, n) \/ StartDelete(r, n) \/ StartRestore(r, n)
    \/ StartHardDelete(r, n) \/ StartReset(r, n)
    \/ \E w \in Writes : StartWrite(r, n, w)
    \/ \E status \in {"active", "inactive"} : SetStatus(r, n, status)

Step(r) ==
  \/ GetFast(r) \/ GetSlow(r) \/ InsertRow(r)
  \/ Reconnect(r) \/ ExecWrite(r) \/ ExecClosed(r)
  \/ RenameDb(r) \/ RenameWal(r) \/ ClosePooled(r) \/ UpdateRow(r)
  \/ RemoveDb(r) \/ RemoveWal(r) \/ FinishReset(r) \/ DeleteRow(r)

Next ==
  \/ \E r \in Requests : StartRequest(r) \/ Step(r)
  \/ \E h \in Handles : IdleClose(h)
  \/ Tick \/ Crash

Spec == Init /\ [][Next]_vars
-----------------------------------------------------------------------------
(* Correctness *)

Steps == {"idle", "get", "getSlow", "insert", "exec", "renameDb", "renameWal", "close",
          "update", "removeDb", "removeWal", "removeDb2", "removeWal2", "deleteRow"}
Ops == {"idle", "create", "write"} \cup LifeCycle
File == Inodes \cup {None}
MaybeName == Names \cup {None}

Row == [id : 0..MaxOps, status : {"none", "active", "inactive", "deleted"}, orig : MaybeName]
Files == [db : File, wal : File]
Connection == [state : {"open", "idle", "closed"}, name : MaybeName, db : File, wal : File]
Request == [op : Ops, step : Steps, name : MaybeName, to : MaybeName, handle : Handles \cup {None},
            write : Writes \cup {None}, seen : SUBSET Writes]

\* The shape of every variable; a row is in one of three states.
TypeOK ==
  /\ rows \in [Names -> Row]
  /\ fs \in [Names -> Files]
  /\ data \in [Inodes -> SUBSET Writes]
  /\ pool \in [Names -> Handles \cup {None}]
  /\ conn \in [Handles -> Connection]
  /\ req \in [Requests -> Request]
  /\ clock \in Epochs
  /\ ops \in 0..MaxOps
  /\ acked \subseteq Writes /\ gone \subseteq Writes /\ erased \subseteq Writes
  /\ home \in [Writes -> 0..MaxOps]
  /\ lastDelete \in 0..MaxEpoch
  /\ torn \in BOOLEAN

\* Pool.Get hands out the one connection of a name: no handle stays open outside
\* the pool, whatever requests race to open, close and remove it.
NoLeakedConnection ==
  \A h \in Handles : conn[h].state # "closed" => pool[conn[h].name] = h

\* An acknowledged write stays in a file that has a name, until a hard delete or
\* a reset unlinks it: neither soft delete, restore, idle connections nor a
\* crash loses it.
NothingLost ==
  acked \subseteq gone \cup UNION {FileContent(n) : n \in Names}

\* Between life-cycle requests every registered database, deleted ones included,
\* shows exactly the acknowledged writes addressed to it since its last reset,
\* under whatever name it has got, and none of another database.
DataFollowsRow ==
  (~torn /\ \A r \in Requests : req[r].op \notin LifeCycle) =>
    \A n \in Names : Exists(n) => Visible(n) = {w \in acked \ gone : home[w] = rows[n].id}

\* "so the DB is truly empty": nothing written before a successful reset can be
\* read from any database afterwards.
ErasedStaysErased == \A n \in Names : Exists(n) => Visible(n) \cap erased = {}

\* For TLC: slots, connection objects and tokens are interchangeable.
Symmetry == Permutations(Requests) \cup Permutations(Handles) \cup Permutations(Writes)
=============================================================================
