----------------------------- MODULE FileStore -----------------------------
(***************************************************************************)
(* Content-addressed file storage (server/files/storage.go, metadata.go):  *)
(* rows of the files table, reference counts of the blob_refs table and    *)
(* blobs on disk, which uploads, deletions and the expiry clean-up change  *)
(* one after the other, without a transaction or a lock around them.       *)
(*                                                                         *)
(* One namespace of files is modelled; a blob is its content hash.  The    *)
(* metadata database has one connection, so a statement or a transaction   *)
(* is one step.  An id is the number of the upload that made it: UUIDs are *)
(* never used twice.                                                       *)
(***************************************************************************)
EXTENDS Integers, FiniteSets, TLC

CONSTANTS
  Requests,  \* request slots: how many requests run at the same time
  Paths,     \* logical paths (folder and file name)
  Hashes,    \* contents
  MaxFiles,  \* Limits.MaxFilesPerDB
  MaxOps,    \* bound: requests in a behaviour
  None

ASSUME RequestsAssumption == IsFiniteSet(Requests)
ASSUME LimitsAssumption == MaxFiles \in Nat \ {0} /\ MaxOps \in Nat
ASSUME NoneAssumption == None \notin Hashes \cup Paths

Ids == 1..MaxOps
EmptyHash == "emptyHash"   \* the hash DeleteFile returns for a row that is gone

VARIABLES
  files,    \* files table: id -> path, content hash and expiry, or NoFile
  refs,     \* blob_refs table: hash -> ref_count, 0 if there is no row
  blobs,    \* contents of the blobs directory
  tmp,      \* hashes with a temporary file in it
  dir,      \* the blobs directory exists
  req,      \* request slot -> what it executes and where it is
  ops,      \* requests started
  overlapped, \* history: a request that removes files ran beside another one
  torn      \* history: a crash came between a file's row and its reference count

table == <<files, refs>>
disk == <<blobs, tmp, dir>>
history == <<overlapped, torn>>
vars == <<table, disk, req, ops, history>>

NoFile == [path |-> None, hash |-> None, expiry |-> "never"]
IdleSlot == [op |-> "idle", step |-> "idle", path |-> None, hash |-> None, mode |-> None,
             expiry |-> "never", id |-> 0, old |-> 0, count |-> 0, todo |-> {}]

Stored == {i \in Ids : files[i] # NoFile}
Rows(h) == {i \in Stored : files[i].hash = h}
Due == {i \in Stored : files[i].expiry = "due"}
Newest(S) == CHOOSE i \in S : \A j \in S : j <= i

Init ==
  /\ files = [i \in Ids |-> NoFile]
  /\ refs = [h \in Hashes |-> 0]
  /\ blobs = {} /\ tmp = {} /\ dir = TRUE
  /\ req = [r \in Requests |-> IdleSlot]
  /\ ops = 0
  /\ overlapped = FALSE /\ torn = FALSE

-----------------------------------------------------------------------------
Removing == {"delete", "cleanup"}

Removes(slot) == slot.op \in Removing \/ slot.old # 0
Busy == {r \in Requests : req[r].op # "idle"}

\* overlapped' for a request slot whose record becomes slot.
Overlap(r, slot) ==
  overlapped' = (overlapped \/ \E q \in Busy \ {r} : Removes(slot) \/ Removes(req[q]))

Start(r, slot) ==
  /\ req[r].op = "idle"
  /\ ops < MaxOps
  /\ ops' = ops + 1
  /\ req' = [req EXCEPT ![r] = slot]
  /\ Overlap(r, slot)
  /\ UNCHANGED torn

At(r, step) == req[r].step = step
Goto(r, step) == req' = [req EXCEPT ![r].step = step]
Finish(r) == req' = [req EXCEPT ![r] = IdleSlot]

-----------------------------------------------------------------------------
(* Upload *)

\* Validation, then step 6: usage of the namespace.
StartUpload(r, p, h, mode, expiry) ==
  /\ Start(r, [IdleSlot EXCEPT !.op = "upload", !.step = "lookup", !.path = p, !.hash = h,
                 !.mode = mode, !.expiry = expiry, !.id = ops + 1, !.count = Cardinality(Stored)])
  /\ UNCHANGED <<table, disk>>

\* Fault: the limit is off by one.
LookupOffByOne(r) ==
  LET same == {i \in Stored : files[i].path = req[r].path}
      old == IF same = {} THEN 0 ELSE Newest(same)
      count == IF old = 0 THEN req[r].count ELSE req[r].count - 1
      slot == [req[r] EXCEPT !.step = "stat", !.old = old]
      refused == (old # 0 /\ req[r].mode = "error") \/ count > MaxFiles IN
  /\ At(r, "lookup")
  /\ IF refused THEN Finish(r) /\ UNCHANGED overlapped
     ELSE req' = [req EXCEPT ![r] = slot] /\ Overlap(r, slot)
  /\ UNCHANGED <<table, disk, ops, torn>>

\* Step 7: the newest row of the path, the conflict mode, the quota; a refusal
\* ends the request.
Lookup(r) ==
  LET same == {i \in Stored : files[i].path = req[r].path}
      old == IF same = {} THEN 0 ELSE Newest(same)
      count == IF old = 0 THEN req[r].count ELSE req[r].count - 1
      slot == [req[r] EXCEPT !.step = "stat", !.old = old]
      refused == (old # 0 /\ req[r].mode = "error") \/ count >= MaxFiles IN
  /\ At(r, "lookup")
  /\ IF refused THEN Finish(r) /\ UNCHANGED overlapped
     ELSE req' = [req EXCEPT ![r] = slot] /\ Overlap(r, slot)
  /\ UNCHANGED <<table, disk, ops, torn>>

\* Step 9: is the blob there already?
StatBlob(r) ==
  /\ At(r, "stat")
  /\ Goto(r, IF req[r].hash \in blobs THEN "row" ELSE "writeTmp")
  /\ UNCHANGED <<table, disk, ops, history>>

\* writeBlob: a temporary file named after the hash, then a rename; either fails
\* if what it needs is not there, and the upload with it.
WriteTmp(r) ==
  /\ At(r, "writeTmp")
  /\ IF dir THEN tmp' = tmp \cup {req[r].hash} /\ Goto(r, "renameTmp")
     ELSE UNCHANGED tmp /\ Finish(r)
  /\ UNCHANGED <<table, blobs, dir, ops, history>>

RenameTmp(r) ==
  LET h == req[r].hash IN
  /\ At(r, "renameTmp")
  /\ IF h \in tmp THEN tmp' = tmp \ {h} /\ blobs' = blobs \cup {h} /\ Goto(r, "row")
     ELSE UNCHANGED <<tmp, blobs>> /\ Finish(r)
  /\ UNCHANGED <<table, dir, ops, history>>

\* Step 10: InsertFile, or ReplaceFile in a transaction, which fails if the row to
\* replace is gone.
PutRow(r) ==
  LET old == req[r].old
      row == [path |-> req[r].path, hash |-> req[r].hash, expiry |-> req[r].expiry] IN
  /\ At(r, "row")
  /\ IF old # 0 /\ old \notin Stored THEN Finish(r) /\ UNCHANGED files
     ELSE /\ files' = [i \in Ids |-> IF i = req[r].id THEN row
                                      ELSE IF i = old THEN NoFile ELSE files[i]]
          /\ req' = [req EXCEPT ![r].step = "incr",
                                ![r].todo = IF old = 0 THEN {} ELSE {files[old].hash}]
  /\ UNCHANGED <<refs, disk, ops, history>>

\* Fault: ON CONFLICT DO NOTHING.
IncrNewOnly(r) ==
  /\ At(r, "incr")
  /\ refs' = [refs EXCEPT ![req[r].hash] = IF @ = 0 THEN 1 ELSE @]
  /\ IF req[r].old = 0 THEN Finish(r) ELSE Goto(r, "decr")
  /\ UNCHANGED <<files, disk, ops, history>>

IncrBlobRef(r) ==
  /\ At(r, "incr")
  /\ refs' = [refs EXCEPT ![req[r].hash] = @ + 1]
  /\ IF req[r].old = 0 THEN Finish(r) ELSE Goto(r, "decr")
  /\ UNCHANGED <<files, disk, ops, history>>

-----------------------------------------------------------------------------
(* DeleteByID *)

StartDelete(r, i) ==
  /\ i \in Stored
  /\ Start(r, [IdleSlot EXCEPT !.op = "delete", !.step = "select", !.id = i])
  /\ UNCHANGED <<table, disk>>

\* DeleteFile: SELECT, then DELETE; a row that is gone has the empty hash.
SelectHash(r) ==
  LET i == req[r].id IN
  /\ At(r, "select")
  /\ req' = [req EXCEPT ![r].step = IF i \in Stored THEN "deleteRow" ELSE "decr",
                        ![r].todo = {IF i \in Stored THEN files[i].hash ELSE EmptyHash}]
  /\ UNCHANGED <<table, disk, ops, history>>

DeleteRow(r) ==
  /\ At(r, "deleteRow")
  /\ files' = [files EXCEPT ![req[r].id] = NoFile]
  /\ Goto(r, "decr")
  /\ UNCHANGED <<refs, disk, ops, history>>

-----------------------------------------------------------------------------
(* CleanupExpired *)

\* SELECT DISTINCT content_hash of the rows that are due.
StartCleanup(r) ==
  /\ Start(r, [IdleSlot EXCEPT !.op = "cleanup", !.step = "deleteDue",
                 !.todo = {files[i].hash : i \in Due}])
  /\ UNCHANGED <<table, disk>>

\* DELETE of the rows that are due by now.
DeleteDue(r) ==
  /\ At(r, "deleteDue")
  /\ files' = [i \in Ids |-> IF i \in Due THEN NoFile ELSE files[i]]
  /\ IF req[r].todo = {} THEN Finish(r) ELSE Goto(r, "decr")
  /\ UNCHANGED <<refs, disk, ops, history>>

-----------------------------------------------------------------------------
(* DecrBlobRef, a transaction, and the removal of the blob *)

\* Fault: a missing row is counted below zero.
DecrementedBelow(h) == IF h \in Hashes THEN refs[h] - 1 ELSE 0

Decremented(h) == IF h \in Hashes /\ refs[h] > 0 THEN refs[h] - 1 ELSE 0
Done(r, h) ==
  req' = IF req[r].todo = {h} THEN [req EXCEPT ![r] = IdleSlot]
         ELSE [req EXCEPT ![r].step = "decr", ![r].todo = @ \ {h}, ![r].hash = None]

\* Fault: the blob is removed whatever remains.
DecrAndRemove(r, h) ==
  /\ At(r, "decr")
  /\ h \in req[r].todo
  /\ refs' = IF h \in Hashes THEN [refs EXCEPT ![h] = Decremented(h)] ELSE refs
  /\ req' = [req EXCEPT ![r].step = "remove", ![r].hash = h]
  /\ UNCHANGED <<files, disk, ops, history>>

\* A replacement by the same content never removes the blob.
DecrBlobRef(r, h) ==
  LET same == req[r].op = "upload" /\ h = req[r].hash IN
  /\ At(r, "decr")
  /\ h \in req[r].todo
  /\ refs' = IF h \in Hashes THEN [refs EXCEPT ![h] = Decremented(h)] ELSE refs
  /\ IF Decremented(h) = 0 /\ ~same
     THEN req' = [req EXCEPT ![r].step = "remove", ![r].hash = h] ELSE Done(r, h)
  /\ UNCHANGED <<files, disk, ops, history>>

\* os.Remove of the blob; of the blobs directory itself for the empty hash, which
\* succeeds if it has no entries.
RemoveBlob(r) ==
  LET h == req[r].hash IN
  /\ At(r, "remove")
  /\ blobs' = blobs \ {h}
  /\ dir' = IF h = EmptyHash /\ blobs \cup tmp = {} THEN FALSE ELSE dir
  /\ Done(r, h)
  /\ UNCHANGED <<table, tmp, ops, history>>

-----------------------------------------------------------------------------
\* Time passes: a file becomes due.
Expire(i) ==
  /\ files[i].expiry = "later"
  /\ files' = [files EXCEPT ![i].expiry = "due"]
  /\ UNCHANGED <<refs, disk, req, ops, history>>

\* The process is killed and started again: NewStorage makes the directory.
Crash ==
  /\ req' = [r \in Requests |-> IdleSlot]
  /\ dir' = TRUE
  /\ torn' = (torn \/ \E r \in Requests : At(r, "incr"))
  /\ UNCHANGED <<table, blobs, tmp, ops, overlapped>>

Step(r) ==
  \/ Lookup(r) \/ StatBlob(r) \/ WriteTmp(r) \/ RenameTmp(r) \/ PutRow(r) \/ IncrBlobRef(r)
  \/ SelectHash(r) \/ DeleteRow(r) \/ DeleteDue(r) \/ RemoveBlob(r)
  \/ \E h \in req[r].todo : DecrBlobRef(r, h)

StartRequest(r) ==
  \/ \E p \in Paths, h \in Hashes, mode \in {"replace", "error"}, expiry \in {"never", "later"} :
       StartUpload(r, p, h, mode, expiry)
  \/ \E i \in Ids : StartDelete(r, i)
  \/ StartCleanup(r)

Next ==
  \/ \E r \in Requests : StartRequest(r) \/ Step(r)
  \/ \E i \in Ids : Expire(i)
  \/ Crash

Spec == Init /\ [][Next]_vars
-----------------------------------------------------------------------------
(* Correctness *)

Steps == {"idle", "lookup", "stat", "writeTmp", "renameTmp", "row", "incr", "select",
          "deleteRow", "deleteDue", "decr", "remove"}
Expiries == {"never", "later", "due"}

\* The shape of every variable; a count is never below zero.
TypeOK ==
  /\ files \in [Ids -> [path : Paths \cup {None}, hash : Hashes \cup {None}, expiry : Expiries]]
  /\ refs \in [Hashes -> Nat]
  /\ blobs \subseteq Hashes /\ tmp \subseteq Hashes /\ dir \in BOOLEAN
  /\ \A r \in Requests :
       /\ req[r].op \in {"idle", "upload"} \cup Removing
       /\ req[r].step \in Steps
       /\ req[r].hash \in Hashes \cup {None, EmptyHash}
       /\ req[r].id \in 0..MaxOps /\ req[r].old \in 0..MaxOps /\ req[r].count \in Nat
       /\ req[r].todo \subseteq Hashes \cup {EmptyHash}
  /\ ops \in 0..MaxOps
  /\ overlapped \in BOOLEAN /\ torn \in BOOLEAN

\* As long as removals ran alone and no crash separated a row from its reference,
\* every stored file can be served: its blob is on disk at every step of uploads
\* that run side by side, of a removal, and after any crash.
BlobKept == overlapped \/ torn \/ \A i \in Stored : files[i].hash \in blobs

\* A count never falls below the rows that need the blob (it may stay above, which
\* only leaks): whoever takes it to zero may remove the blob.
RefsCoverRows ==
  overlapped \/ torn \/
    \A h \in Hashes :
      Cardinality(Rows(h)) <= refs[h] + Cardinality({r \in Requests : At(r, "incr") /\ req[r].hash = h})

\* MaxFilesPerDB is checked long before the row is inserted; racing uploads can
\* exceed it, by no more than the uploads that race.
QuotaOvershootBounded == Cardinality(Stored) <= MaxFiles + Cardinality(Requests) - 1

\* For TLC: slots, paths and contents are interchangeable.
Symmetry == Permutations(Requests) \cup Permutations(Paths) \cup Permutations(Hashes)
=============================================================================
