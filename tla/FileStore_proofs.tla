-------------------------- MODULE FileStore_proofs --------------------------
(***************************************************************************)
(* The rows, the reference counts and the blobs of the file store, for any *)
(* number of requests, contents and paths: every variable keeps its type,  *)
(* counts cover rows, and the blob of a stored file is on disk.            *)
(*                                                                         *)
(* Counts cover rows is not inductive.  A removal takes its rows out first *)
(* and pays for each content afterwards, one reference for however many    *)
(* rows: until then it owes one (Owed), and by the time it removes a blob  *)
(* no row needs it (Local).  Both hold because a removal that overlaps     *)
(* nothing is alone (Alone).                                               *)
(***************************************************************************)
EXTENDS FileStore, FiniteSetTheorems, TLAPS

Loading == {"lookup", "stat", "writeTmp", "renameTmp", "row"}

FileRows == [path : Paths, hash : Hashes, expiry : Expiries] \cup {NoFile}
IsSlot(s) ==
  /\ DOMAIN s = {"op", "step", "path", "hash", "mode", "expiry", "id", "old", "count", "todo"}
  /\ s.op \in {"idle", "upload"} \cup Removing /\ s.step \in Steps
  /\ s.hash \in Hashes \cup {None, EmptyHash} /\ s.expiry \in Expiries
  /\ s.id \in 0..MaxOps /\ s.old \in 0..MaxOps /\ s.count \in Nat
  /\ s.todo \subseteq Hashes \cup {EmptyHash}

Typed ==
  /\ files \in [Ids -> FileRows]
  /\ refs \in [Hashes -> Nat]
  /\ blobs \subseteq Hashes /\ tmp \subseteq Hashes /\ dir \in BOOLEAN
  /\ DOMAIN req = Requests /\ \A r \in Requests : IsSlot(req[r])
  /\ ops \in 0..MaxOps
  /\ overlapped \in BOOLEAN /\ torn \in BOOLEAN

(* Which steps belong to which operation. *)
Phase(s) ==
  /\ s.op = "idle" <=> s.step = "idle"
  /\ s.step \in Loading \cup {"incr"} => s.op = "upload" /\ s.path \in Paths /\ s.hash \in Hashes
  /\ s.step = "lookup" => s.old = 0
  /\ s.step \in Loading \/ (s.step = "incr" /\ s.old = 0) => s.todo = {}
  /\ s.step \in {"select", "deleteRow"} => s.op = "delete" /\ s.id \in Ids
  /\ s.step = "deleteDue" => s.op = "cleanup"
  /\ s.step \in {"decr", "remove"} => Removes(s)
  /\ s.step = "remove" => s.hash \in s.todo
Phases == \A r \in Requests : Phase(req[r])

TInv == Typed /\ Phases

(* A removal that overlaps nothing is alone. *)
Alone ==
  \A r, q \in Requests :
    req[r].op # "idle" /\ Removes(req[r]) /\ q # r => req[q].op = "idle"

Adding(h) == {r \in Requests : At(r, "incr") /\ req[r].hash = h}
Owes(s, h) ==
  /\ h \in s.todo
  /\ s.step \in {"incr", "decr"} \/ (s.step = "remove" /\ h # s.hash)
Owed(h) == \E r \in Requests : Owes(req[r], h)
Cover ==
  \A h \in Hashes :
    Cardinality(Rows(h)) + (IF Owed(h) THEN 1 ELSE 0) <= refs[h] + Cardinality(Adding(h))

Present == \A i \in Stored : files[i].hash \in blobs
Local(s) ==
  /\ s.step = "row" => s.hash \in blobs
  /\ s.step = "select" => s.id \in Stored
  /\ s.step = "deleteRow" => s.id \in Stored /\ s.todo = {files[s.id].hash}
  /\ s.step = "deleteDue" => \A h \in s.todo : \E i \in Due : files[i].hash = h
  /\ s.step = "remove" => \A i \in Stored : files[i].hash # s.hash
Locals == \A r \in Requests : Local(req[r])

Good == Alone /\ Cover /\ Present /\ Locals
IInv == TInv /\ (overlapped \/ torn \/ Good)

-----------------------------------------------------------------------------
(* The newest of some rows is one of them. *)
LEMMA NewestIsMember ==
  ASSUME NEW S \in SUBSET Ids, S # {}
  PROVE  Newest(S) \in S
<1> DEFINE T == {MaxOps - i : i \in S}
<1>1. T \subseteq Nat /\ T # {}
  BY LimitsAssumption DEF Ids
<1>2. PICK x \in T : \A y \in T : ~(<<y, x>> \in OpToRel(<, Nat))
  BY <1>1, WFMin, NatLessThanWellFounded
<1>3. \A y \in T : ~(y < x)
  BY <1>1, <1>2 DEF OpToRel
<1>4. PICK i \in S : x = MaxOps - i
  BY <1>2
<1>5. \A j \in S : j <= i
  <2>1. \A j \in S : ~(MaxOps - j < MaxOps - i)
    BY <1>3, <1>4
  <2>2. QED
    BY <2>1, LimitsAssumption DEF Ids
<1>6. QED
  BY <1>5 DEF Newest

(* The absence of a file is not a row. *)
LEMMA NoFileIsNoRow == \A row \in [path : Paths, hash : Hashes, expiry : Expiries] : row # NoFile
BY NoneAssumption DEF NoFile

(* Stored files have rows with a path, a content and an expiry. *)
LEMMA StoredIsTyped ==
  ASSUME Typed
  PROVE  /\ Stored \subseteq Ids /\ Due \subseteq Stored
         /\ \A i \in Stored : files[i] \in [path : Paths, hash : Hashes, expiry : Expiries]
BY DEF Typed, Stored, Due, FileRows

(* There are finitely many stored files. *)
LEMMA CountIsNatural == IsFiniteSet(Stored) /\ Cardinality(Stored) \in Nat
<1>1. IsFiniteSet(Ids)
  BY FS_Interval, LimitsAssumption DEF Ids
<1>2. IsFiniteSet(Stored)
  BY <1>1, FS_Subset DEF Stored
<1>3. QED
  BY <1>2, FS_CardinalityType

(* An idle slot is well formed and holds nothing. *)
LEMMA IdleIsTyped == IsSlot(IdleSlot) /\ Phase(IdleSlot) /\ Local(IdleSlot)
<1>1. IsSlot(IdleSlot)
  BY LimitsAssumption DEF IdleSlot, IsSlot, Removing, Steps, Expiries
<1>2. Phase(IdleSlot) /\ Local(IdleSlot)
  BY DEF IdleSlot, Phase, Local, Loading
<1>3. QED
  BY <1>1, <1>2

(* A step of one request whose slot becomes slot. *)
LEMMA SlotTyped ==
  ASSUME TInv, NEW r \in Requests, NEW slot, IsSlot(slot), Phase(slot),
         req' = [req EXCEPT ![r] = slot]
  PROVE  DOMAIN req' = Requests /\ (\A q \in Requests : IsSlot(req'[q])) /\ Phases'
<1>1. \A q \in Requests : req'[q] = IF q = r THEN slot ELSE req[q]
  BY DEF TInv, Typed
<1>2. \A q \in Requests : IsSlot(req'[q]) /\ Phase(req'[q])
  BY <1>1 DEF TInv, Typed, Phases
<1>3. QED
  BY <1>2 DEF TInv, Typed, Phases, Phase, Removes

-----------------------------------------------------------------------------
(* Types. *)

(* A request begins. *)
LEMMA StartTyped ==
  ASSUME TInv, NEW r \in Requests, StartRequest(r)
  PROVE  TInv'
<1>1. ASSUME NEW slot, IsSlot(slot), Phase(slot), Start(r, slot), UNCHANGED <<table, disk>>
      PROVE  TInv'
  <2>1. DOMAIN req' = Requests /\ (\A q \in Requests : IsSlot(req'[q])) /\ Phases'
    BY <1>1, SlotTyped DEF Start
  <2>2. ops' \in 0..MaxOps /\ overlapped' \in BOOLEAN /\ torn' \in BOOLEAN
    BY <1>1, LimitsAssumption DEF Start, Overlap, TInv, Typed
  <2>3. QED
    BY <1>1, <2>1, <2>2 DEF TInv, Typed, table, disk
<1>2. ASSUME NEW p \in Paths, NEW h \in Hashes, NEW mode \in {"replace", "error"},
             NEW expiry \in {"never", "later"}, StartUpload(r, p, h, mode, expiry)
      PROVE  TInv'
  <2> DEFINE n == Cardinality(Stored)
             new == ops + 1
             slot == [IdleSlot EXCEPT !.op = "upload", !.step = "lookup", !.path = p, !.hash = h,
                        !.mode = mode, !.expiry = expiry, !.id = new, !.count = n]
  <2>1. n \in Nat /\ new \in 0..MaxOps
    BY <1>2, CountIsNatural, LimitsAssumption DEF StartUpload, Start, TInv, Typed
  <2>2. Start(r, slot) /\ UNCHANGED <<table, disk>>
    BY <1>2 DEF StartUpload
  <2> HIDE DEF n, new
  <2>3. /\ DOMAIN slot = DOMAIN IdleSlot
        /\ slot.op = "upload" /\ slot.step = "lookup" /\ slot.path = p /\ slot.hash = h
        /\ slot.expiry = expiry /\ slot.id = new /\ slot.old = 0 /\ slot.count = n
        /\ slot.todo = {}
    BY DEF IdleSlot
  <2>4. IsSlot(slot) /\ Phase(slot)
    <3> HIDE DEF slot
    <3>1. DOMAIN slot = {"op", "step", "path", "hash", "mode", "expiry", "id", "old", "count", "todo"}
      BY <2>3 DEF IdleSlot
    <3>2. IsSlot(slot)
      BY <2>1, <2>3, <3>1, LimitsAssumption DEF IsSlot, Steps, Expiries
    <3>3. QED
      BY <2>3, <3>2 DEF Phase, Loading
  <2>5. QED
    BY <1>1, <2>2, <2>4
<1>3. ASSUME NEW i \in Ids, StartDelete(r, i) PROVE TInv'
  <2> DEFINE slot == [IdleSlot EXCEPT !.op = "delete", !.step = "select", !.id = i]
  <2>1. IsSlot(slot)
    BY LimitsAssumption DEF IdleSlot, IsSlot, Removing, Steps, Expiries, Ids
  <2>2. Phase(slot)
    BY DEF IdleSlot, Phase, Loading
  <2>3. Start(r, slot) /\ UNCHANGED <<table, disk>>
    BY <1>3 DEF StartDelete
  <2>4. QED
    BY <1>1, <2>1, <2>2, <2>3
<1>4. CASE StartCleanup(r)
  <2> DEFINE hashes == {files[i].hash : i \in Due}
             slot == [IdleSlot EXCEPT !.op = "cleanup", !.step = "deleteDue", !.todo = hashes]
  <2>1. hashes \subseteq Hashes
    BY StoredIsTyped DEF TInv
  <2>2. Start(r, slot) /\ UNCHANGED <<table, disk>>
    BY <1>4 DEF StartCleanup
  <2> HIDE DEF hashes
  <2>3. IsSlot(slot)
    BY <2>1, LimitsAssumption DEF IdleSlot, IsSlot, Removing, Steps, Expiries
  <2>4. Phase(slot)
    BY DEF IdleSlot, Phase, Loading
  <2>5. QED
    BY <1>1, <2>2, <2>3, <2>4
<1>5. QED
  BY <1>2, <1>3, <1>4 DEF StartRequest

(* A request that moves on or ends, whatever else it does to typed state. *)
LEMMA MoveTyped ==
  ASSUME TInv, NEW r \in Requests, NEW slot, IsSlot(slot), Phase(slot),
         req' = [req EXCEPT ![r] = slot], ops' = ops,
         files' \in [Ids -> FileRows], refs' \in [Hashes -> Nat],
         blobs' \subseteq Hashes, tmp' \subseteq Hashes, dir' \in BOOLEAN,
         overlapped' \in BOOLEAN, torn' \in BOOLEAN
  PROVE  TInv'
BY SlotTyped DEF TInv, Typed

(* A request that goes on to its next step stays well formed. *)
LEMMA GotoTyped ==
  ASSUME TInv, NEW r \in Requests, NEW step \in Steps, Goto(r, step),
         Phase([req[r] EXCEPT !.step = step])
  PROVE  /\ req' = [req EXCEPT ![r] = [req[r] EXCEPT !.step = step]]
         /\ IsSlot([req[r] EXCEPT !.step = step])
BY DEF Goto, TInv, Typed, IsSlot

(* Looking up the path and counting the files (storage.go, Upload) keeps types and phases. *)
LEMMA LookupTyped ==
  ASSUME TInv, NEW r \in Requests, Lookup(r)
  PROVE  TInv'
<1> DEFINE same == {i \in Stored : files[i].path = req[r].path}
           old == IF same = {} THEN 0 ELSE Newest(same)
           count == IF old = 0 THEN req[r].count ELSE req[r].count - 1
           slot == [[req[r] EXCEPT !.step = "stat"] EXCEPT !.old = old]
           refused == (old # 0 /\ req[r].mode = "error") \/ count >= MaxFiles
<1>1. IsSlot(req[r]) /\ Phase(req[r]) /\ req[r].step = "lookup"
  BY DEF TInv, Typed, Phases, Lookup, At
<1>2. old \in 0..MaxOps
  <2>1. same # {} => Newest(same) \in same
    BY NewestIsMember DEF Stored
  <2>2. QED
    BY <2>1, LimitsAssumption DEF Stored, Ids
<1>3. UNCHANGED <<table, disk, ops, torn>> /\ overlapped' \in BOOLEAN
  BY DEF Lookup, Overlap, TInv, Typed
<1>4. \/ req' = [req EXCEPT ![r] = IdleSlot]
      \/ req' = [req EXCEPT ![r] = slot]
  BY <1>1 DEF Lookup, Finish, IsSlot
<1> HIDE DEF old
<1>5. IsSlot(slot)
  BY <1>1, <1>2 DEF IsSlot, Steps
<1>6. Phase(slot)
  BY <1>1 DEF Phase, Loading
<1>7. QED
  BY <1>3, <1>4, <1>5, <1>6, IdleIsTyped, MoveTyped DEF TInv, Typed, table, disk

(* Writing the row in place of the old one keeps types and phases. *)
LEMMA PutRowTyped ==
  ASSUME TInv, NEW r \in Requests, PutRow(r)
  PROVE  TInv'
<1> DEFINE old == req[r].old
           row == [path |-> req[r].path, hash |-> req[r].hash, expiry |-> req[r].expiry]
           todo == IF old = 0 THEN {} ELSE {files[old].hash}
           slot == [[req[r] EXCEPT !.step = "incr"] EXCEPT !.todo = todo]
<1>1. IsSlot(req[r]) /\ Phase(req[r]) /\ req[r].step = "row"
  BY DEF TInv, Typed, Phases, PutRow, At
<1>2. UNCHANGED <<refs, disk, ops, history>>
  BY DEF PutRow
<1>3. CASE old # 0 /\ old \notin Stored
  BY <1>2, <1>3, IdleIsTyped, MoveTyped DEF PutRow, Finish, TInv, Typed, disk, history
<1>4. CASE ~(old # 0 /\ old \notin Stored)
  <2>1. row \in FileRows
    BY <1>1 DEF IsSlot, Phase, Loading, FileRows
  <2>2. files' \in [Ids -> FileRows]
    BY <1>4, <2>1 DEF PutRow, TInv, Typed, FileRows
  <2>3. todo \subseteq Hashes
    BY <1>4, StoredIsTyped DEF TInv
  <2>4. req' = [req EXCEPT ![r] = slot]
    BY <1>1, <1>4 DEF PutRow, TInv, Typed, IsSlot
  <2> HIDE DEF todo
  <2>5. IsSlot(slot)
    BY <1>1, <2>3 DEF IsSlot, Steps
  <2>6. CASE old = 0
    <3>1. todo = {}
      BY <2>6 DEF todo
    <3>2. Phase(slot)
      BY <1>1, <3>1 DEF Phase, Loading, IsSlot
    <3>3. QED
      BY <1>2, <2>2, <2>4, <2>5, <3>2, MoveTyped DEF TInv, Typed, disk, history
  <2>7. CASE old # 0
    <3>1. Phase(slot)
      BY <1>1, <2>7 DEF Phase, Loading, IsSlot
    <3>2. QED
      BY <1>2, <2>2, <2>4, <2>5, <3>1, MoveTyped DEF TInv, Typed, disk, history
  <2>8. QED
    BY <2>6, <2>7
<1>5. QED
  BY <1>3, <1>4

(* Done moves a removal to its next content, or ends it. *)
LEMMA DoneTyped ==
  ASSUME TInv, NEW r \in Requests, NEW h, Done(r, h), req[r].step \in {"decr", "remove"}
  PROVE  \E slot : IsSlot(slot) /\ Phase(slot) /\ req' = [req EXCEPT ![r] = slot]
<1> DEFINE left == req[r].todo \ {h}
           slot == [[[req[r] EXCEPT !.step = "decr"] EXCEPT !.todo = left] EXCEPT !.hash = None]
<1>1. IsSlot(req[r]) /\ Phase(req[r])
  BY DEF TInv, Typed, Phases
<1>2. CASE req[r].todo = {h}
  BY <1>2, IdleIsTyped DEF Done
<1>3. CASE req[r].todo # {h}
  <2>1. req' = [req EXCEPT ![r] = slot]
    BY <1>1, <1>3 DEF Done, TInv, Typed, IsSlot
  <2>2. left \subseteq Hashes \cup {EmptyHash}
    BY <1>1 DEF IsSlot
  <2> HIDE DEF left
  <2>3. IsSlot(slot)
    BY <1>1, <2>2 DEF IsSlot, Steps
  <2>4. Phase(slot)
    BY <1>1 DEF Phase, Loading, IsSlot, Removes
  <2>5. QED
    BY <2>1, <2>3, <2>4
<1>4. QED
  BY <1>2, <1>3

(* Every step of a request keeps the types. *)
LEMMA StepTyped ==
  ASSUME TInv, NEW r \in Requests, Step(r)
  PROVE  TInv'
<1>1. IsSlot(req[r]) /\ Phase(req[r])
  BY DEF TInv, Typed, Phases
<1>2. CASE StatBlob(r)
  <2> DEFINE step == IF req[r].hash \in blobs THEN "row" ELSE "writeTmp"
  <2>1. Phase([req[r] EXCEPT !.step = step]) /\ step \in Steps
    BY <1>1, <1>2 DEF StatBlob, At, Phase, Loading, IsSlot, Steps
  <2>2. QED
    BY <1>2, <2>1, GotoTyped, MoveTyped DEF StatBlob, TInv, Typed, table, disk, history
<1>3. CASE WriteTmp(r)
  <2>1. Phase([req[r] EXCEPT !.step = "renameTmp"]) /\ req[r].hash \in Hashes
    BY <1>1, <1>3 DEF WriteTmp, At, Phase, Loading, IsSlot
  <2>2. CASE dir
    <3>1. tmp' \subseteq Hashes /\ Goto(r, "renameTmp")
      BY <1>3, <2>1, <2>2 DEF WriteTmp, TInv, Typed
    <3>2. QED
      BY <1>3, <2>1, <3>1, GotoTyped, MoveTyped DEF WriteTmp, TInv, Typed, table, disk, history, Steps
  <2>3. CASE ~dir
    BY <1>3, <2>3, IdleIsTyped, MoveTyped DEF WriteTmp, Finish, TInv, Typed, table, disk, history
  <2>4. QED
    BY <2>2, <2>3
<1>4. CASE RenameTmp(r)
  <2>1. Phase([req[r] EXCEPT !.step = "row"]) /\ req[r].hash \in Hashes
    BY <1>1, <1>4 DEF RenameTmp, At, Phase, Loading, IsSlot
  <2>2. CASE req[r].hash \in tmp
    <3>1. tmp' \subseteq Hashes /\ blobs' \subseteq Hashes /\ Goto(r, "row")
      BY <1>4, <2>1, <2>2 DEF RenameTmp, TInv, Typed
    <3>2. QED
      BY <1>4, <2>1, <3>1, GotoTyped, MoveTyped DEF RenameTmp, TInv, Typed, table, disk, history, Steps
  <2>3. CASE req[r].hash \notin tmp
    BY <1>4, <2>3, IdleIsTyped, MoveTyped DEF RenameTmp, Finish, TInv, Typed, table, disk, history
  <2>4. QED
    BY <2>2, <2>3
<1>5. CASE IncrBlobRef(r)
  <2>1. refs' \in [Hashes -> Nat]
    <3>1. req[r].hash \in Hashes /\ refs \in [Hashes -> Nat]
      BY <1>1, <1>5 DEF IncrBlobRef, At, Phase, TInv, Typed
    <3>2. refs[req[r].hash] + 1 \in Nat
      BY <3>1
    <3>3. QED
      BY <1>5, <3>1, <3>2 DEF IncrBlobRef
  <2>2. CASE req[r].old = 0
    BY <1>5, <2>1, <2>2, IdleIsTyped, MoveTyped DEF IncrBlobRef, Finish, TInv, Typed, disk, history
  <2>3. CASE req[r].old # 0
    <3>1. Phase([req[r] EXCEPT !.step = "decr"])
      BY <1>1, <1>5, <2>3 DEF IncrBlobRef, At, Phase, Loading, IsSlot, Removes
    <3>2. QED
      BY <1>5, <2>1, <2>3, <3>1, GotoTyped, MoveTyped
      DEF IncrBlobRef, TInv, Typed, disk, history, Steps
  <2>4. QED
    BY <2>2, <2>3
<1>6. CASE SelectHash(r)
  <2> DEFINE i == req[r].id
             step == IF i \in Stored THEN "deleteRow" ELSE "decr"
             todo == {IF i \in Stored THEN files[i].hash ELSE EmptyHash}
             slot == [[req[r] EXCEPT !.step = step] EXCEPT !.todo = todo]
  <2>1. req' = [req EXCEPT ![r] = slot]
    BY <1>1, <1>6 DEF SelectHash, TInv, Typed, IsSlot
  <2>2. todo \subseteq Hashes \cup {EmptyHash} /\ step \in {"deleteRow", "decr"}
    BY StoredIsTyped DEF TInv
  <2> HIDE DEF todo, step
  <2>3. IsSlot(slot)
    BY <1>1, <2>2 DEF IsSlot, Steps
  <2>4. Phase(slot)
    BY <1>1, <1>6, <2>2 DEF SelectHash, At, Phase, Loading, IsSlot, Removes, Removing
  <2>5. QED
    BY <1>6, <2>1, <2>3, <2>4, MoveTyped DEF SelectHash, TInv, Typed, table, disk, history
<1>7. CASE DeleteRow(r)
  <2>1. Phase([req[r] EXCEPT !.step = "decr"])
    BY <1>1, <1>7 DEF DeleteRow, At, Phase, Loading, IsSlot, Removes, Removing
  <2>2. files' \in [Ids -> FileRows]
    BY <1>7 DEF DeleteRow, TInv, Typed, FileRows
  <2>3. QED
    BY <1>7, <2>1, <2>2, GotoTyped, MoveTyped DEF DeleteRow, TInv, Typed, disk, history, Steps
<1>8. CASE DeleteDue(r)
  <2>1. files' \in [Ids -> FileRows]
    BY <1>8 DEF DeleteDue, TInv, Typed, FileRows
  <2>2. Phase([req[r] EXCEPT !.step = "decr"])
    BY <1>1, <1>8 DEF DeleteDue, At, Phase, Loading, IsSlot, Removes, Removing
  <2>3. CASE req[r].todo = {}
    BY <1>8, <2>1, <2>3, IdleIsTyped, MoveTyped DEF DeleteDue, Finish, TInv, Typed, disk, history
  <2>4. CASE req[r].todo # {}
    BY <1>8, <2>1, <2>2, <2>4, GotoTyped, MoveTyped DEF DeleteDue, TInv, Typed, disk, history, Steps
  <2>5. QED
    BY <2>3, <2>4
<1>9. CASE RemoveBlob(r)
  <2>1. \E slot : IsSlot(slot) /\ Phase(slot) /\ req' = [req EXCEPT ![r] = slot]
    BY <1>9, DoneTyped DEF RemoveBlob, At
  <2>2. blobs' \subseteq Hashes /\ dir' \in BOOLEAN
    BY <1>9 DEF RemoveBlob, TInv, Typed
  <2>3. QED
    BY <1>9, <2>1, <2>2, MoveTyped DEF RemoveBlob, TInv, Typed, table, history
<1>10. ASSUME NEW h \in req[r].todo, DecrBlobRef(r, h) PROVE TInv'
  <2> DEFINE slot == [[req[r] EXCEPT !.step = "remove"] EXCEPT !.hash = h]
  <2>1. \/ Done(r, h)
        \/ req' = [req EXCEPT ![r] = slot]
    BY <1>1, <1>10 DEF DecrBlobRef, TInv, Typed, IsSlot
  <2>2. IsSlot(slot) /\ Phase(slot)
    BY <1>1, <1>10 DEF DecrBlobRef, At, IsSlot, Phase, Loading, Steps, Removes
  <2>3. \E s : IsSlot(s) /\ Phase(s) /\ req' = [req EXCEPT ![r] = s]
    BY <1>10, <2>1, <2>2, DoneTyped DEF DecrBlobRef, At
  <2>4. refs' \in [Hashes -> Nat]
    BY <1>10 DEF DecrBlobRef, Decremented, TInv, Typed
  <2>5. QED
    BY <1>10, <2>3, <2>4, MoveTyped DEF DecrBlobRef, TInv, Typed, disk, history
<1>11. QED
  BY <1>2, <1>3, <1>4, <1>5, <1>6, <1>7, <1>8, <1>9, <1>10, LookupTyped, PutRowTyped DEF Step

(* Every step of the specification keeps the types. *)
LEMMA NextTyped == TInv /\ [Next]_vars => TInv'
<1> SUFFICES ASSUME TInv, [Next]_vars PROVE TInv'
  OBVIOUS
<1>1. ASSUME NEW r \in Requests, StartRequest(r) \/ Step(r) PROVE TInv'
  BY <1>1, StartTyped, StepTyped
<1>2. ASSUME NEW i \in Ids, Expire(i) PROVE TInv'
  <2>1. files' \in [Ids -> FileRows]
    <3>1. files[i] # NoFile /\ files \in [Ids -> FileRows]
      BY <1>2 DEF Expire, NoFile, TInv, Typed
    <3>2. [files[i] EXCEPT !.expiry = "due"] \in FileRows
      BY <3>1 DEF FileRows, Expiries
    <3>3. QED
      BY <1>2, <3>1, <3>2 DEF Expire
  <2>2. QED
    BY <1>2, <2>1 DEF Expire, TInv, Typed, Phases, Phase, Removes, disk, history
<1>3. CASE Crash
  <2>1. DOMAIN req' = Requests /\ \A r \in Requests : req'[r] = IdleSlot
    BY <1>3 DEF Crash
  <2>2. \A r \in Requests : IsSlot(req'[r]) /\ Phase(req'[r])
    BY <2>1, IdleIsTyped
  <2>3. torn' \in BOOLEAN
    BY <1>3 DEF Crash, TInv, Typed
  <2>4. QED
    BY <1>3, <2>1, <2>2, <2>3 DEF Crash, TInv, Typed, Phases, Phase, Removes, table
<1>4. CASE UNCHANGED vars
  BY <1>4 DEF vars, TInv, Typed, Phases, Phase, Removes, table, disk, history
<1>5. QED
  BY <1>1, <1>2, <1>3, <1>4 DEF Next

(* The empty store has its types and phases. *)
LEMMA InitTyped == Init => TInv
<1> SUFFICES ASSUME Init PROVE TInv
  OBVIOUS
<1>1. \A r \in Requests : IsSlot(req[r]) /\ Phase(req[r])
  BY IdleIsTyped DEF Init
<1>2. files \in [Ids -> FileRows] /\ refs \in [Hashes -> Nat] /\ DOMAIN req = Requests
  BY DEF Init, FileRows
<1>3. blobs \subseteq Hashes /\ tmp \subseteq Hashes /\ ops \in 0..MaxOps
  BY LimitsAssumption DEF Init
<1>4. dir \in BOOLEAN /\ overlapped \in BOOLEAN /\ torn \in BOOLEAN
  BY Zenon DEF Init
<1>5. QED
  BY <1>1, <1>2, <1>3, <1>4 DEF TInv, Typed, Phases

(* Every variable keeps its type through every interleaving and crash; in particular no
   count goes below zero. *)
THEOREM FileTypesHold == Spec => []TypeOK
<1>1. TInv => TypeOK
  BY DEF TInv, Typed, TypeOK, FileRows, NoFile, IsSlot, Expiries
<1>2. QED
  BY <1>1, InitTyped, NextTyped, PTL DEF Spec

-----------------------------------------------------------------------------
(* Counts and blobs.  First the sets that are counted. *)

(* The rows and the uploads of a content are finitely many. *)
LEMMA Counted ==
  ASSUME NEW h
  PROVE  /\ IsFiniteSet(Rows(h)) /\ Cardinality(Rows(h)) \in Nat
         /\ IsFiniteSet(Adding(h)) /\ Cardinality(Adding(h)) \in Nat
<1>1. IsFiniteSet(Rows(h))
  BY CountIsNatural, FS_Subset DEF Rows
<1>2. IsFiniteSet(Adding(h))
  BY RequestsAssumption, FS_Subset DEF Adding
<1>3. QED
  BY <1>1, <1>2, FS_CardinalityType

(* A subset has no more elements. *)
LEMMA Fewer ==
  ASSUME NEW S, IsFiniteSet(S), NEW T, T \subseteq S
  PROVE  Cardinality(T) \in Nat /\ Cardinality(S) \in Nat /\ Cardinality(T) <= Cardinality(S)
BY FS_Subset, FS_CardinalityType

(* A subset without one element has at least one element less. *)
LEMMA OneLess ==
  ASSUME NEW S, IsFiniteSet(S), NEW x \in S, NEW T, T \subseteq S \ {x}
  PROVE  Cardinality(T) \in Nat /\ Cardinality(S) \in Nat /\ Cardinality(T) <= Cardinality(S) - 1
<1>1. IsFiniteSet(S \ {x}) /\ Cardinality(S \ {x}) = Cardinality(S) - 1
  BY FS_RemoveElement
<1>2. QED
  BY <1>1, Fewer

(* A subset of one element more has at most one element more. *)
LEMMA OneMore ==
  ASSUME NEW S, IsFiniteSet(S), NEW x, NEW T, T \subseteq S \cup {x}
  PROVE  Cardinality(T) \in Nat /\ Cardinality(S) \in Nat /\ Cardinality(T) <= Cardinality(S) + 1
<1>1. /\ IsFiniteSet(S \cup {x})
      /\ Cardinality(S \cup {x}) = IF x \in S THEN Cardinality(S) ELSE Cardinality(S) + 1
  BY FS_AddElement
<1>2. Cardinality(S) \in Nat
  BY FS_CardinalityType
<1>3. Cardinality(T) \in Nat /\ Cardinality(T) <= Cardinality(S \cup {x})
  BY <1>1, Fewer
<1>4. Cardinality(S \cup {x}) <= Cardinality(S) + 1 /\ Cardinality(S \cup {x}) \in Nat
  BY <1>1, <1>2
<1>5. QED
  BY <1>2, <1>3, <1>4

(* Exchanging one element for another adds none. *)
LEMMA OneExchanged ==
  ASSUME NEW S, IsFiniteSet(S), NEW x \in S, NEW y, NEW T, T \subseteq (S \ {x}) \cup {y}
  PROVE  Cardinality(T) \in Nat /\ Cardinality(S) \in Nat /\ Cardinality(T) <= Cardinality(S)
<1>1. IsFiniteSet(S \ {x}) /\ Cardinality(S \ {x}) = Cardinality(S) - 1
  BY FS_RemoveElement
<1>2. Cardinality(T) \in Nat /\ Cardinality(T) <= Cardinality(S \ {x}) + 1
  BY <1>1, OneMore
<1>3. Cardinality(S) \in Nat
  BY FS_CardinalityType
<1>4. QED
  BY <1>1, <1>2, <1>3

(* How a slot changes. *)
OthersStay(r) == \A q \in Requests : q # r => req'[q] = req[q]

(* A request that goes on keeps what it holds, and the others keep all. *)
LEMMA GotoShape ==
  ASSUME TInv, NEW r \in Requests, NEW step, Goto(r, step)
  PROVE  /\ OthersStay(r)
         /\ req'[r].step = step /\ req'[r].op = req[r].op /\ req'[r].old = req[r].old
         /\ req'[r].hash = req[r].hash /\ req'[r].todo = req[r].todo /\ req'[r].id = req[r].id
<1>1. IsSlot(req[r]) /\ DOMAIN req = Requests
  BY DEF TInv, Typed
<1>2. QED
  BY <1>1 DEF Goto, OthersStay, IsSlot

(* A request that ends holds nothing, and the others keep all. *)
LEMMA FinishShape ==
  ASSUME TInv, NEW r \in Requests, req' = [req EXCEPT ![r] = IdleSlot]
  PROVE  /\ OthersStay(r)
         /\ req'[r].step = "idle" /\ req'[r].op = "idle" /\ req'[r].todo = {}
BY DEF TInv, Typed, OthersStay, IdleSlot

(* A content dealt with is struck off, and the request ends when none is left. *)
LEMMA DoneShape ==
  ASSUME TInv, NEW r \in Requests, NEW h, Done(r, h)
  PROVE  /\ OthersStay(r)
         /\ \/ req'[r].step = "idle" /\ req'[r].op = "idle" /\ req'[r].todo = {}
            \/ /\ req'[r].step = "decr" /\ req'[r].todo = req[r].todo \ {h}
               /\ req'[r].op = req[r].op /\ req'[r].old = req[r].old
<1>1. IsSlot(req[r]) /\ DOMAIN req = Requests
  BY DEF TInv, Typed
<1>2. CASE req[r].todo = {h}
  BY <1>2, FinishShape DEF Done
<1>3. CASE req[r].todo # {h}
  BY <1>1, <1>3 DEF Done, OthersStay, IsSlot
<1>4. QED
  BY <1>2, <1>3

(* Beside a request no removal runs, and beside a removal nothing does. *)
LEMMA Others ==
  ASSUME TInv, Alone, NEW r \in Requests, req[r].op # "idle", NEW q \in Requests, q # r
  PROVE  /\ req[q].step \in Loading \cup {"idle", "incr"}
         /\ Removes(req[r]) => req[q].step = "idle"
         /\ req[q].step = "incr" => req[q].old = 0
<1>1. Phase(req[q]) /\ IsSlot(req[q])
  BY DEF TInv, Typed, Phases
<1>2. ~(req[q].op # "idle" /\ Removes(req[q]))
  BY DEF Alone
<1>3. Removes(req[r]) => req[q].op = "idle"
  BY DEF Alone
<1>4. QED
  BY <1>1, <1>2, <1>3 DEF Phase, IsSlot, Steps, Loading, Removes, Removing

(* No step but the beginning of a request makes removals overlap. *)
LEMMA AloneKept ==
  ASSUME TInv, Alone, NEW r \in Requests, OthersStay(r),
         \/ req'[r].op = "idle"
         \/ req[r].op # "idle" /\ req'[r].op = req[r].op /\ req'[r].old = req[r].old
  PROVE  Alone'
BY DEF Alone, OthersStay, Removes

(* A request that starts or finds what it will replace overlaps nothing. *)
LEMMA AloneNoticed ==
  ASSUME TInv, Alone, NEW r \in Requests, NEW slot, req' = [req EXCEPT ![r] = slot],
         Overlap(r, slot), ~overlapped'
  PROVE  Alone'
<1>1. \A q \in Requests : req'[q] = IF q = r THEN slot ELSE req[q]
  BY DEF TInv, Typed
<1>2. \A q \in Busy \ {r} : ~Removes(slot) /\ ~Removes(req[q])
  BY DEF Overlap
<1>3. QED
  BY <1>1, <1>2 DEF Alone, Busy, Removes

-----------------------------------------------------------------------------
(* A step of one request that touches neither table, removes no blob and owes nothing new. *)
LEMMA QuietStep ==
  ASSUME TInv, Good, NEW r \in Requests, OthersStay(r), UNCHANGED table, blobs \subseteq blobs',
         req[r].step # "incr", req'[r].step # "incr",
         \A h \in Hashes : Owes(req'[r], h) => Owes(req[r], h),
         Alone', Local(req[r])'
  PROVE  Good'
<1>1. Stored' = Stored /\ Due' = Due /\ \A h : Rows(h)' = Rows(h)
  BY DEF table, Stored, Due, Rows
<1>2. ASSUME NEW h \in Hashes
      PROVE  Adding(h)' = Adding(h) /\ (Owed(h)' => Owed(h))
  BY DEF Adding, At, Owed, OthersStay, Owes
<1>3. Cover'
  <2> SUFFICES ASSUME NEW h \in Hashes
               PROVE  Cardinality(Rows(h)') + (IF Owed(h)' THEN 1 ELSE 0)
                        <= refs'[h] + Cardinality(Adding(h)')
    BY DEF Cover
  <2>1. Cardinality(Rows(h)) + (IF Owed(h) THEN 1 ELSE 0) <= refs[h] + Cardinality(Adding(h))
    BY DEF Good, Cover
  <2>2. refs' = refs /\ refs[h] \in Nat
    BY DEF table, TInv, Typed
  <2>3. Cardinality(Rows(h)) \in Nat /\ Cardinality(Adding(h)) \in Nat
    BY Counted
  <2>4. QED
    BY <1>1, <1>2, <2>1, <2>2, <2>3
<1>4. Present'
  BY <1>1 DEF Good, Present, table
<1>5. Locals'
  <2> SUFFICES ASSUME NEW q \in Requests, q # r PROVE Local(req[q])'
    BY DEF Locals
  <2>1. Local(req[q]) /\ req'[q] = req[q] /\ files' = files
    BY DEF Good, Locals, OthersStay, table
  <2>2. QED
    BY <1>1, <2>1 DEF Local
<1>6. QED
  BY <1>3, <1>4, <1>5 DEF Good

(* The beginning of a request keeps counts, rows and blobs in agreement. *)
LEMMA StartGood ==
  ASSUME TInv, Good, NEW r \in Requests, StartRequest(r), ~overlapped'
  PROVE  Good'
<1>1. req[r].op = "idle" /\ req[r].step = "idle" /\ UNCHANGED <<table, disk>>
  BY DEF StartRequest, StartUpload, StartDelete, StartCleanup, Start, TInv, Phases, Phase
<1>2. ASSUME NEW slot, Start(r, slot), slot.step \in {"lookup", "select", "deleteDue"},
             Local(req[r])'
      PROVE  Good'
  <2>1. req'[r] = slot /\ OthersStay(r)
    BY <1>2 DEF Start, TInv, Typed, OthersStay
  <2>2. Alone'
    BY <1>2, AloneNoticed DEF Start, Good
  <2>3. \A h \in Hashes : ~Owes(slot, h)
    BY <1>2 DEF Owes
  <2>4. QED
    BY <1>1, <1>2, <2>1, <2>2, <2>3, QuietStep DEF disk
<1>3. ASSUME NEW p \in Paths, NEW h \in Hashes, NEW mode \in {"replace", "error"},
             NEW expiry \in {"never", "later"}, StartUpload(r, p, h, mode, expiry)
      PROVE  Good'
  <2> DEFINE n == Cardinality(Stored)
             new == ops + 1
             slot == [IdleSlot EXCEPT !.op = "upload", !.step = "lookup", !.path = p, !.hash = h,
                        !.mode = mode, !.expiry = expiry, !.id = new, !.count = n]
  <2>1. Start(r, slot)
    BY <1>3 DEF StartUpload
  <2> HIDE DEF n, new
  <2>2. slot.step = "lookup"
    BY DEF IdleSlot
  <2>3. req'[r].step = "lookup"
    BY <2>1, <2>2 DEF Start, TInv, Typed
  <2>4. Local(req[r])'
    BY <2>3 DEF Local
  <2>5. QED
    BY <1>2, <2>1, <2>2, <2>4
<1>4. ASSUME NEW i \in Ids, StartDelete(r, i) PROVE Good'
  <2> DEFINE slot == [IdleSlot EXCEPT !.op = "delete", !.step = "select", !.id = i]
  <2>1. Start(r, slot) /\ i \in Stored
    BY <1>4 DEF StartDelete
  <2>2. slot.step = "select" /\ slot.id = i
    BY DEF IdleSlot
  <2>3. req'[r].step = "select" /\ req'[r].id = i /\ files' = files
    BY <1>1, <2>1, <2>2 DEF Start, TInv, Typed, table
  <2>4. Local(req[r])'
    BY <2>1, <2>3 DEF Local, Stored
  <2>5. QED
    BY <1>2, <2>1, <2>2, <2>4
<1>5. CASE StartCleanup(r)
  <2> DEFINE hashes == {files[i].hash : i \in Due}
             slot == [IdleSlot EXCEPT !.op = "cleanup", !.step = "deleteDue", !.todo = hashes]
  <2>1. Start(r, slot)
    BY <1>5 DEF StartCleanup
  <2>2. slot.step = "deleteDue" /\ slot.todo = hashes
    BY DEF IdleSlot
  <2>3. req'[r].step = "deleteDue" /\ req'[r].todo = hashes /\ files' = files
    BY <1>1, <2>1, <2>2 DEF Start, TInv, Typed, table
  <2>4. \A h \in req'[r].todo : \E i \in Due : files[i].hash = h
    BY <2>3
  <2>5. Due' = Due
    BY <2>3 DEF Due, Stored
  <2>6. Local(req[r])'
    BY <2>3, <2>4, <2>5 DEF Local
  <2>7. QED
    BY <1>2, <2>1, <2>2, <2>6
<1>6. QED
  BY <1>3, <1>4, <1>5 DEF StartRequest

(* The steps of an upload before its row. *)
LEMMA LoadGood ==
  ASSUME TInv, Good, NEW r \in Requests, Lookup(r) \/ StatBlob(r) \/ WriteTmp(r) \/ RenameTmp(r),
         ~overlapped'
  PROVE  Good'
<1>1. Phase(req[r]) /\ Local(req[r])
  BY DEF TInv, Phases, Good, Locals
<1>2. /\ req[r].step \in Loading /\ req[r].op = "upload" /\ req[r].todo = {}
      /\ UNCHANGED table /\ blobs \subseteq blobs'
  BY <1>1 DEF Lookup, StatBlob, WriteTmp, RenameTmp, At, Phase, Loading, disk
<1>3. CASE req' = [req EXCEPT ![r] = IdleSlot]
  <2>1. OthersStay(r) /\ req'[r].step = "idle" /\ req'[r].op = "idle" /\ req'[r].todo = {}
    BY <1>3, FinishShape
  <2>2. Alone' /\ Local(req[r])'
    BY <2>1, AloneKept DEF Good, Local
  <2>3. QED
    BY <1>2, <2>1, <2>2, QuietStep DEF Owes, Loading
<1>4. ASSUME NEW step \in {"row", "writeTmp", "renameTmp"}, Goto(r, step),
             step = "row" => req[r].hash \in blobs'
      PROVE  Good'
  <2>1. /\ OthersStay(r) /\ req'[r].step = step /\ req'[r].op = req[r].op
        /\ req'[r].old = req[r].old /\ req'[r].hash = req[r].hash /\ req'[r].todo = {}
    BY <1>2, <1>4, GotoShape
  <2>2. Alone' /\ Local(req[r])'
    BY <1>2, <1>4, <2>1, AloneKept DEF Good, Local
  <2>3. QED
    BY <1>2, <1>4, <2>1, <2>2, QuietStep DEF Owes, Loading
<1>5. CASE Lookup(r) /\ req' # [req EXCEPT ![r] = IdleSlot]
  <2> DEFINE same == {i \in Stored : files[i].path = req[r].path}
             old == IF same = {} THEN 0 ELSE Newest(same)
             slot == [[req[r] EXCEPT !.step = "stat"] EXCEPT !.old = old]
  <2>1. req' = [req EXCEPT ![r] = slot] /\ Overlap(r, slot)
    BY <1>5 DEF Lookup, Finish
  <2> HIDE DEF old
  <2>2. OthersStay(r) /\ req'[r].step = "stat" /\ req'[r].todo = {}
    BY <1>2, <2>1 DEF TInv, Typed, IsSlot, OthersStay
  <2>3. Alone' /\ Local(req[r])'
    BY <2>1, <2>2, AloneNoticed DEF Good, Local
  <2>4. QED
    BY <1>2, <2>2, <2>3, QuietStep DEF Owes, Loading
<1>6. CASE StatBlob(r)
  BY <1>2, <1>4, <1>6 DEF StatBlob
<1>7. CASE WriteTmp(r)
  BY <1>3, <1>4, <1>7 DEF WriteTmp, Finish
<1>8. CASE RenameTmp(r)
  BY <1>3, <1>4, <1>8 DEF RenameTmp, Finish
<1>9. QED
  BY <1>3, <1>5, <1>6, <1>7, <1>8

(* The row is inserted, or takes the place of another: its blob is there, its count is
   still to come, and the count of the row it replaced is owed. *)
LEMMA PutRowGood ==
  ASSUME TInv, Good, NEW r \in Requests, PutRow(r)
  PROVE  Good'
<1> DEFINE old == req[r].old
           h1 == req[r].hash
           id == req[r].id
<1>1. /\ IsSlot(req[r]) /\ Phase(req[r]) /\ Local(req[r]) /\ req[r].step = "row"
      /\ req[r].op = "upload" /\ req[r].todo = {} /\ h1 \in Hashes /\ h1 \in blobs
      /\ UNCHANGED <<refs, blobs>>
  BY DEF TInv, Typed, Phases, Phase, Loading, Good, Locals, Local, PutRow, At, disk
<1>2. CASE old # 0 /\ old \notin Stored
  <2>1. req' = [req EXCEPT ![r] = IdleSlot] /\ UNCHANGED table
    BY <1>1, <1>2 DEF PutRow, Finish, table
  <2>2. OthersStay(r) /\ req'[r].step = "idle" /\ req'[r].op = "idle" /\ req'[r].todo = {}
    BY <2>1, FinishShape
  <2>3. Alone' /\ Local(req[r])'
    BY <2>2, AloneKept DEF Good, Local
  <2>4. QED
    BY <1>1, <2>1, <2>2, <2>3, QuietStep DEF Owes
<1>3. CASE ~(old # 0 /\ old \notin Stored)
  <2> DEFINE row == [path |-> req[r].path, hash |-> h1, expiry |-> req[r].expiry]
  <2>1. files' = [i \in Ids |-> IF i = id THEN row ELSE IF i = old THEN NoFile ELSE files[i]]
    BY <1>3 DEF PutRow
  <2>2. /\ OthersStay(r) /\ req'[r].step = "incr" /\ req'[r].op = req[r].op
        /\ req'[r].old = old /\ req'[r].hash = h1
        /\ req'[r].todo = IF old = 0 THEN {} ELSE {files[old].hash}
    <3> DEFINE todo == IF old = 0 THEN {} ELSE {files[old].hash}
               slot == [[req[r] EXCEPT !.step = "incr"] EXCEPT !.todo = todo]
    <3>1. req' = [req EXCEPT ![r] = slot]
      BY <1>1, <1>3 DEF PutRow, TInv, Typed, IsSlot
    <3>2. OthersStay(r) /\ req'[r] = slot
      BY <3>1 DEF TInv, Typed, OthersStay
    <3> HIDE DEF todo
    <3>3. /\ slot.step = "incr" /\ slot.op = req[r].op /\ slot.old = old /\ slot.hash = h1
          /\ slot.todo = todo
      BY <1>1 DEF IsSlot
    <3> HIDE DEF slot
    <3>4. QED
      BY <3>2, <3>3 DEF todo
  <2>3. Alone'
    BY <1>1, <2>2, AloneKept DEF Good
  <2>4. \A q \in Requests : q # r => req[q].step \in Loading \cup {"idle", "incr"}
    BY <1>1, Others DEF Good
  <2>5. \A i \in Stored' : i \in Ids /\ (i = id \/ (i # old /\ i \in Stored /\ files'[i] = files[i]))
    BY <2>1 DEF Stored
  <2>6. id \in Stored' => files'[id].hash = h1
    BY <2>1 DEF Stored
  <2>7. Present'
    BY <1>1, <2>5, <2>6 DEF Good, Present
  <2>8. Locals'
    <3> SUFFICES ASSUME NEW q \in Requests PROVE Local(req[q])'
      BY DEF Locals
    <3>1. CASE q = r
      BY <2>2, <3>1 DEF Local
    <3>2. CASE q # r
      BY <1>1, <2>2, <2>4, <3>2 DEF Local, Loading, OthersStay, Good, Locals
    <3>3. QED
      BY <3>1, <3>2
  <2>9. Cover'
    <3> SUFFICES ASSUME NEW h \in Hashes
                 PROVE  Cardinality(Rows(h)') + (IF Owed(h)' THEN 1 ELSE 0)
                          <= refs'[h] + Cardinality(Adding(h)')
      BY DEF Cover
    <3>1. Cardinality(Rows(h)) + (IF Owed(h) THEN 1 ELSE 0) <= refs[h] + Cardinality(Adding(h))
      BY DEF Good, Cover
    <3>2. refs' = refs /\ refs[h] \in Nat
      BY <1>1 DEF TInv, Typed
    <3>3. /\ IsFiniteSet(Rows(h)) /\ Cardinality(Rows(h)) \in Nat
          /\ IsFiniteSet(Adding(h)) /\ Cardinality(Adding(h)) \in Nat
      BY Counted
    <3>4. Adding(h)' = IF h = h1 THEN Adding(h) \cup {r} ELSE Adding(h)
      BY <1>1, <2>2 DEF Adding, At, OthersStay
    <3>5. Cardinality(Adding(h)') = Cardinality(Adding(h)) + (IF h = h1 THEN 1 ELSE 0)
      <4>1. r \notin Adding(h)
        BY <1>1 DEF Adding, At
      <4>2. Cardinality(Adding(h) \cup {r}) = Cardinality(Adding(h)) + 1
        BY <3>3, <4>1, FS_AddElement
      <4>3. QED
        BY <3>3, <3>4, <4>2
    <3>6. h # h1 => Rows(h)' \subseteq Rows(h) \ {old}
      BY <2>5, <2>6 DEF Rows
    <3>7. h = h1 => Rows(h)' \subseteq (Rows(h) \ {old}) \cup {id}
      BY <2>5, <2>6 DEF Rows
    <3>8. CASE old = 0
      <4>1. Owed(h)' => Owed(h)
        BY <1>1, <2>2, <3>8 DEF Owed, Owes, OthersStay
      <4>2. Cardinality(Rows(h)') <= Cardinality(Rows(h)) + (IF h = h1 THEN 1 ELSE 0)
        <5>1. CASE h = h1
          <6>1. Rows(h)' \subseteq Rows(h) \cup {id}
            BY <3>7, <5>1
          <6>2. QED
            BY <3>3, <5>1, <6>1, OneMore
        <5>2. CASE h # h1
          <6>1. Rows(h)' \subseteq Rows(h)
            BY <3>6, <5>2
          <6>2. QED
            BY <3>3, <5>2, <6>1, Fewer
        <5>3. QED
          BY <5>1, <5>2
      <4>3. Cardinality(Rows(h)') \in Nat
        <5>1. Rows(h)' \subseteq Rows(h) \cup {id}
          BY <3>6, <3>7
        <5>2. QED
          BY <3>3, <5>1, OneMore
      <4>4. QED
        BY <3>1, <3>2, <3>3, <3>5, <4>1, <4>2, <4>3
    <3>9. CASE old # 0
      <4> DEFINE h0 == files[old].hash
      <4>1. Removes(req[r]) /\ old \in Stored
        BY <1>3, <3>9 DEF Removes
      <4>2. \A q \in Requests : q # r => req[q].step = "idle"
        BY <1>1, <4>1, Others DEF Good
      <4>3. ~Owed(h) /\ Adding(h) = {}
        BY <1>1, <4>2 DEF Owed, Owes, Adding, At
      <4>4. Owed(h)' => h = h0
        BY <2>2, <3>9, <4>2 DEF Owed, Owes, OthersStay
      <4>5. Cardinality(Adding(h)) = 0
        BY <4>3, FS_EmptySet
      <4>6. h = h0 => old \in Rows(h)
        BY <4>1 DEF Rows
      <4>7. CASE h = h0 /\ h = h1
        <5>1. Cardinality(Rows(h)') \in Nat /\ Cardinality(Rows(h)') <= Cardinality(Rows(h))
          BY <3>3, <3>7, <4>6, <4>7, OneExchanged
        <5>2. QED
          BY <3>1, <3>2, <3>3, <3>5, <4>3, <4>5, <4>7, <5>1
      <4>8. CASE h = h0 /\ h # h1
        <5>1. Cardinality(Rows(h)') \in Nat /\ Cardinality(Rows(h)') <= Cardinality(Rows(h)) - 1
          BY <3>3, <3>6, <4>6, <4>8, OneLess
        <5>2. QED
          BY <3>1, <3>2, <3>3, <3>5, <4>3, <4>5, <4>8, <5>1
      <4>9. CASE h # h0 /\ h = h1
        <5>1. Rows(h)' \subseteq Rows(h) \cup {id}
          BY <3>7, <4>9
        <5>2. Cardinality(Rows(h)') \in Nat /\ Cardinality(Rows(h)') <= Cardinality(Rows(h)) + 1
          BY <3>3, <5>1, OneMore
        <5>3. QED
          BY <3>1, <3>2, <3>3, <3>5, <4>3, <4>4, <4>5, <4>9, <5>2
      <4>10. CASE h # h0 /\ h # h1
        <5>1. Rows(h)' \subseteq Rows(h)
          BY <3>6, <4>10
        <5>2. Cardinality(Rows(h)') \in Nat /\ Cardinality(Rows(h)') <= Cardinality(Rows(h))
          BY <3>3, <5>1, Fewer
        <5>3. QED
          BY <3>1, <3>2, <3>3, <3>5, <4>3, <4>4, <4>5, <4>10, <5>2
      <4>11. QED
        BY <4>7, <4>8, <4>9, <4>10
    <3>10. QED
      BY <3>8, <3>9
  <2>10. QED
    BY <2>3, <2>7, <2>8, <2>9 DEF Good
<1>4. QED
  BY <1>2, <1>3

(* The count that was to come. *)
LEMMA IncrGood ==
  ASSUME TInv, Good, NEW r \in Requests, IncrBlobRef(r)
  PROVE  Good'
<1> DEFINE h1 == req[r].hash
<1>1. /\ Phase(req[r]) /\ req[r].step = "incr" /\ req[r].op = "upload" /\ h1 \in Hashes
      /\ UNCHANGED <<files, blobs>>
  BY DEF TInv, Phases, Phase, IncrBlobRef, At, disk
<1>2. /\ OthersStay(r)
      /\ \/ req'[r].step = "idle" /\ req'[r].op = "idle" /\ req'[r].todo = {}
         \/ /\ req'[r].step = "decr" /\ req'[r].op = req[r].op /\ req'[r].old = req[r].old
            /\ req'[r].todo = req[r].todo
  BY GotoShape, FinishShape DEF IncrBlobRef, Finish
<1>3. Alone'
  BY <1>1, <1>2, AloneKept DEF Good
<1>4. Stored' = Stored /\ Due' = Due /\ \A h : Rows(h)' = Rows(h)
  BY <1>1 DEF Stored, Due, Rows
<1>5. Present'
  BY <1>1, <1>4 DEF Good, Present
<1>6. Locals'
  <2> SUFFICES ASSUME NEW q \in Requests PROVE Local(req[q])'
    BY DEF Locals
  <2>1. CASE q = r
    BY <1>2, <2>1 DEF Local
  <2>2. CASE q # r
    BY <1>1, <1>2, <1>4, <2>2 DEF Good, Locals, Local, OthersStay
  <2>3. QED
    BY <2>1, <2>2
<1>7. Cover'
  <2> SUFFICES ASSUME NEW h \in Hashes
               PROVE  Cardinality(Rows(h)') + (IF Owed(h)' THEN 1 ELSE 0)
                        <= refs'[h] + Cardinality(Adding(h)')
    BY DEF Cover
  <2>1. Cardinality(Rows(h)) + (IF Owed(h) THEN 1 ELSE 0) <= refs[h] + Cardinality(Adding(h))
    BY DEF Good, Cover
  <2>2. refs[h] \in Nat /\ refs'[h] = refs[h] + (IF h = h1 THEN 1 ELSE 0)
    BY <1>1 DEF TInv, Typed, IncrBlobRef
  <2>3. /\ Cardinality(Rows(h)) \in Nat
        /\ IsFiniteSet(Adding(h)) /\ Cardinality(Adding(h)) \in Nat
    BY Counted
  <2>4. Owed(h)' => Owed(h)
    BY <1>1, <1>2 DEF Owed, Owes, OthersStay
  <2>5. Adding(h)' = Adding(h) \ {r} /\ (r \in Adding(h) <=> h = h1)
    BY <1>1, <1>2 DEF Adding, At, OthersStay
  <2>6. Cardinality(Adding(h)') = Cardinality(Adding(h)) - (IF h = h1 THEN 1 ELSE 0)
    <3>1. Cardinality(Adding(h) \ {r}) =
            IF r \in Adding(h) THEN Cardinality(Adding(h)) - 1 ELSE Cardinality(Adding(h))
      BY <2>3, FS_RemoveElement
    <3>2. QED
      BY <2>3, <2>5, <3>1
  <2>7. QED
    BY <1>4, <2>1, <2>2, <2>3, <2>4, <2>6
<1>8. QED
  BY <1>3, <1>5, <1>6, <1>7 DEF Good

(* A removal takes rows out and owes a reference for each content it took a row of. *)
LEMMA TakenOut ==
  ASSUME TInv, Good, NEW r \in Requests, req[r].step \in {"deleteRow", "deleteDue"}, OthersStay(r),
         Stored' \subseteq Stored, \A i \in Stored' : files'[i] = files[i],
         UNCHANGED <<refs, blobs>>,
         \/ req'[r].step = "idle" /\ req'[r].op = "idle"
         \/ req'[r].step = "decr" /\ req'[r].op = req[r].op /\ req'[r].old = req[r].old,
         \A h \in Hashes : Owes(req'[r], h) => \E i \in Stored \ Stored' : files[i].hash = h
  PROVE  Good'
<1>1. Phase(req[r]) /\ Removes(req[r]) /\ req[r].op # "idle"
  BY DEF TInv, Phases, Phase, Removes, Removing
<1>2. \A q \in Requests : q # r => req[q].step = "idle"
  BY <1>1, Others DEF Good
<1>3. Alone'
  BY <1>1, AloneKept DEF Good
<1>4. Present'
  BY DEF Good, Present
<1>5. Locals'
  BY <1>2 DEF Locals, Local, OthersStay
<1>6. Cover'
  <2> SUFFICES ASSUME NEW h \in Hashes
               PROVE  Cardinality(Rows(h)') + (IF Owed(h)' THEN 1 ELSE 0)
                        <= refs'[h] + Cardinality(Adding(h)')
    BY DEF Cover
  <2>1. Cardinality(Rows(h)) + (IF Owed(h) THEN 1 ELSE 0) <= refs[h] + Cardinality(Adding(h))
    BY DEF Good, Cover
  <2>2. refs' = refs /\ refs[h] \in Nat
    BY DEF TInv, Typed
  <2>3. IsFiniteSet(Rows(h)) /\ Cardinality(Rows(h)) \in Nat
    BY Counted
  <2>4. Adding(h) = {} /\ Adding(h)' = {} /\ ~Owed(h)
    BY <1>2 DEF Adding, At, Owed, Owes, OthersStay
  <2>5. Cardinality(Adding(h)) = 0 /\ Cardinality(Adding(h)') = 0
    BY <2>4, FS_EmptySet
  <2>6. Rows(h)' \subseteq Rows(h)
    BY DEF Rows
  <2>7. CASE Owed(h)'
    <3>1. Owes(req'[r], h)
      BY <1>2, <2>7 DEF Owed, Owes, OthersStay
    <3>2. PICK i \in Stored \ Stored' : files[i].hash = h
      BY <3>1
    <3>3. i \in Rows(h) /\ Rows(h)' \subseteq Rows(h) \ {i}
      BY <2>6, <3>2 DEF Rows
    <3>4. Cardinality(Rows(h)') \in Nat /\ Cardinality(Rows(h)') <= Cardinality(Rows(h)) - 1
      BY <2>3, <3>3, OneLess
    <3>5. QED
      BY <2>1, <2>2, <2>3, <2>4, <2>5, <2>7, <3>4
  <2>8. CASE ~Owed(h)'
    <3>1. Cardinality(Rows(h)') \in Nat /\ Cardinality(Rows(h)') <= Cardinality(Rows(h))
      BY <2>3, <2>6, Fewer
    <3>2. QED
      BY <2>1, <2>2, <2>3, <2>4, <2>5, <2>8, <3>1
  <2>9. QED
    BY <2>7, <2>8
<1>7. QED
  BY <1>3, <1>4, <1>5, <1>6 DEF Good

(* So do the steps that remove rows (metadata.go, DeleteByID and CleanupExpired), *)
LEMMA DeleteGood ==
  ASSUME TInv, Good, NEW r \in Requests, SelectHash(r) \/ DeleteRow(r) \/ DeleteDue(r)
  PROVE  Good'
<1>1. Phase(req[r]) /\ IsSlot(req[r]) /\ Local(req[r]) /\ req[r].op # "idle"
  BY DEF TInv, Typed, Phases, Phase, Good, Locals, SelectHash, DeleteRow, DeleteDue, At
<1>2. CASE SelectHash(r)
  <2> DEFINE i == req[r].id
             todo == {IF i \in Stored THEN files[i].hash ELSE EmptyHash}
             step == IF i \in Stored THEN "deleteRow" ELSE "decr"
             slot == [[req[r] EXCEPT !.step = step] EXCEPT !.todo = todo]
  <2>1. req[r].step = "select" /\ i \in Stored /\ UNCHANGED <<table, disk>>
    BY <1>1, <1>2 DEF SelectHash, At, Local
  <2>2. req' = [req EXCEPT ![r] = slot]
    BY <1>1, <1>2 DEF SelectHash, TInv, Typed, IsSlot
  <2>3. OthersStay(r) /\ req'[r] = slot
    BY <2>2 DEF TInv, Typed, OthersStay
  <2>4. step = "deleteRow" /\ todo = {files[i].hash}
    BY <2>1
  <2> HIDE DEF todo, step
  <2>5. /\ slot.step = step /\ slot.todo = todo /\ slot.id = i
        /\ slot.op = req[r].op /\ slot.old = req[r].old
    BY <1>1 DEF IsSlot
  <2> HIDE DEF slot
  <2>6. Alone'
    BY <1>1, <2>3, <2>5, AloneKept DEF Good
  <2>7. Stored' = Stored /\ files' = files
    BY <2>1 DEF Stored, table
  <2>8. Local(req[r])'
    BY <2>1, <2>3, <2>4, <2>5, <2>7 DEF Local
  <2>9. QED
    BY <2>1, <2>3, <2>4, <2>5, <2>6, <2>8, QuietStep DEF Owes, disk
<1>3. CASE DeleteRow(r)
  <2> DEFINE i == req[r].id
  <2>1. req[r].step = "deleteRow" /\ i \in Stored /\ req[r].todo = {files[i].hash}
    BY <1>1, <1>3 DEF DeleteRow, At, Local
  <2>2. Stored' = Stored \ {i} /\ \A j \in Stored' : files'[j] = files[j]
    BY <1>3 DEF DeleteRow, Stored, TInv, Typed
  <2>3. /\ OthersStay(r) /\ req'[r].step = "decr" /\ req'[r].op = req[r].op
        /\ req'[r].old = req[r].old /\ req'[r].todo = {files[i].hash}
    BY <1>3, <2>1, GotoShape DEF DeleteRow
  <2>4. \A h \in Hashes : Owes(req'[r], h) => \E j \in Stored \ Stored' : files[j].hash = h
    BY <2>1, <2>2, <2>3 DEF Owes
  <2>5. UNCHANGED <<refs, blobs>>
    BY <1>3 DEF DeleteRow, disk
  <2>6. QED
    BY <2>1, <2>2, <2>3, <2>4, <2>5, TakenOut
<1>4. CASE DeleteDue(r)
  <2>1. req[r].step = "deleteDue" /\ \A h \in req[r].todo : \E i \in Due : files[i].hash = h
    BY <1>1, <1>4 DEF DeleteDue, At, Local
  <2>2. Stored' = Stored \ Due /\ \A j \in Stored' : files'[j] = files[j]
    BY <1>4 DEF DeleteDue, Stored
  <2>3. /\ OthersStay(r)
        /\ \/ req'[r].step = "idle" /\ req'[r].op = "idle" /\ req'[r].todo = {}
           \/ /\ req'[r].step = "decr" /\ req'[r].op = req[r].op /\ req'[r].old = req[r].old
              /\ req'[r].todo = req[r].todo
    BY <1>4, GotoShape, FinishShape DEF DeleteDue, Finish
  <2>4. \A h \in Hashes : Owes(req'[r], h) => \E j \in Stored \ Stored' : files[j].hash = h
    <3>1. \A i \in Due : i \in Stored \ Stored'
      BY <2>2 DEF Due
    <3>2. QED
      BY <2>1, <2>3, <3>1 DEF Owes
  <2>5. UNCHANGED <<refs, blobs>>
    BY <1>4 DEF DeleteDue, disk
  <2>6. QED
    BY <2>1, <2>2, <2>3, <2>4, <2>5, TakenOut
<1>5. QED
  BY <1>2, <1>3, <1>4

(* The reference is paid; with the last one no row is left that needs the blob. *)
LEMMA DecrGood ==
  ASSUME TInv, Good, NEW r \in Requests, NEW h1 \in req[r].todo, DecrBlobRef(r, h1)
  PROVE  Good'
<1>1. /\ Phase(req[r]) /\ IsSlot(req[r]) /\ req[r].step = "decr" /\ Removes(req[r])
      /\ req[r].op # "idle" /\ UNCHANGED <<files, blobs>>
  BY DEF TInv, Typed, Phases, Phase, DecrBlobRef, At, disk
<1>2. \A q \in Requests : q # r => req[q].step = "idle"
  BY <1>1, Others DEF Good
<1>3. \A h : Adding(h) = {} /\ Cardinality(Adding(h)) = 0
  BY <1>1, <1>2, FS_EmptySet DEF Adding, At
<1>4. /\ OthersStay(r)
      /\ \/ req'[r].step = "idle" /\ req'[r].op = "idle" /\ req'[r].todo = {}
         \/ /\ req'[r].step = "decr" /\ req'[r].todo = req[r].todo \ {h1}
            /\ req'[r].op = req[r].op /\ req'[r].old = req[r].old
         \/ /\ req'[r].step = "remove" /\ req'[r].hash = h1 /\ req'[r].todo = req[r].todo
            /\ req'[r].op = req[r].op /\ req'[r].old = req[r].old /\ Decremented(h1) = 0
  <2>1. CASE Done(r, h1)
    BY <2>1, DoneShape
  <2>2. CASE ~Done(r, h1)
    BY <1>1, <2>2 DEF DecrBlobRef, TInv, Typed, OthersStay, IsSlot
  <2>3. QED
    BY <2>1, <2>2
<1>5. Alone'
  BY <1>1, <1>4, AloneKept DEF Good
<1>6. Stored' = Stored /\ \A h : Rows(h)' = Rows(h)
  BY <1>1 DEF Stored, Rows
<1>7. Present'
  BY <1>1, <1>6 DEF Good, Present
<1>8. \A h \in Hashes : Adding(h)' = {} /\ Cardinality(Adding(h)') = 0
  BY <1>2, <1>4, FS_EmptySet DEF Adding, At, OthersStay
<1>9. \A h \in Hashes : Owed(h)' => h # h1 /\ Owed(h)
  BY <1>1, <1>2, <1>4 DEF Owed, Owes, OthersStay
<1>10. Owed(h1)
  BY <1>1 DEF Owed, Owes
<1>11. \A h \in Hashes : refs[h] \in Nat /\ refs'[h] = IF h = h1 THEN Decremented(h1) ELSE refs[h]
  BY DEF DecrBlobRef, TInv, Typed
<1>12. ASSUME NEW h \in Hashes
       PROVE  Cardinality(Rows(h)') + (IF Owed(h)' THEN 1 ELSE 0) <= refs'[h]
  <2>1. Cardinality(Rows(h)) + (IF Owed(h) THEN 1 ELSE 0) <= refs[h] + Cardinality(Adding(h))
    BY DEF Good, Cover
  <2>2. Cardinality(Rows(h)) \in Nat
    BY Counted
  <2>3. CASE h = h1
    <3>1. Cardinality(Rows(h)) + 1 <= refs[h]
      BY <1>3, <1>10, <1>11, <2>1, <2>2, <2>3
    <3>2. refs'[h] = refs[h] - 1
      BY <1>11, <2>2, <2>3, <3>1 DEF Decremented
    <3>3. QED
      BY <1>6, <1>9, <1>11, <2>2, <2>3, <3>1, <3>2
  <2>4. CASE h # h1
    BY <1>3, <1>6, <1>9, <1>11, <2>1, <2>2, <2>4
  <2>5. QED
    BY <2>3, <2>4
<1>13. Cover'
  <2> SUFFICES ASSUME NEW h \in Hashes
               PROVE  Cardinality(Rows(h)') + (IF Owed(h)' THEN 1 ELSE 0)
                        <= refs'[h] + Cardinality(Adding(h)')
    BY DEF Cover
  <2>1. Decremented(h) \in Nat
    BY <1>11 DEF Decremented
  <2>2. refs'[h] \in Nat
    BY <1>11, <2>1
  <2>3. QED
    BY <1>8, <1>12, <2>2
<1>14. Locals'
  <2> SUFFICES ASSUME NEW q \in Requests PROVE Local(req[q])'
    BY DEF Locals
  <2>1. CASE q # r
    BY <1>2, <1>4, <2>1 DEF Local, OthersStay
  <2>2. CASE q = r /\ req'[r].step = "remove"
    <3>1. ASSUME NEW i \in Stored, files[i].hash = h1 PROVE FALSE
      <4>1. h1 \in Hashes
        BY <3>1, StoredIsTyped DEF TInv
      <4>2. refs'[h1] = 0
        BY <1>4, <1>11, <2>2, <4>1
      <4>3. Cardinality(Rows(h1)) <= 0 /\ Cardinality(Rows(h1)) \in Nat
        BY <1>6, <1>9, <1>12, <4>1, <4>2, Counted
      <4>4. Rows(h1) = {}
        BY <4>3, Counted, FS_EmptySet
      <4>5. QED
        BY <3>1, <4>4 DEF Rows
    <3>2. QED
      BY <1>1, <1>4, <1>6, <2>2, <3>1 DEF Local
  <2>3. CASE q = r /\ req'[r].step # "remove"
    BY <1>4, <2>3 DEF Local
  <2>4. QED
    BY <2>1, <2>2, <2>3
<1>15. QED
  BY <1>5, <1>7, <1>13, <1>14 DEF Good

(* the removal of a blob whose count was zero (storage.go), *)
LEMMA RemoveGood ==
  ASSUME TInv, Good, NEW r \in Requests, RemoveBlob(r)
  PROVE  Good'
<1> DEFINE h1 == req[r].hash
<1>1. /\ Phase(req[r]) /\ Local(req[r]) /\ req[r].step = "remove" /\ Removes(req[r])
      /\ req[r].op # "idle" /\ UNCHANGED <<files, refs>> /\ blobs' = blobs \ {h1} /\ Done(r, h1)
  BY DEF TInv, Phases, Phase, RemoveBlob, At, table, Good, Locals
<1>2. \A q \in Requests : q # r => req[q].step = "idle"
  BY <1>1, Others DEF Good
<1>3. /\ OthersStay(r)
      /\ \/ req'[r].step = "idle" /\ req'[r].op = "idle" /\ req'[r].todo = {}
         \/ /\ req'[r].step = "decr" /\ req'[r].todo = req[r].todo \ {h1}
            /\ req'[r].op = req[r].op /\ req'[r].old = req[r].old
  BY <1>1, DoneShape
<1>4. Alone'
  BY <1>1, <1>3, AloneKept DEF Good
<1>5. Stored' = Stored /\ \A h : Rows(h)' = Rows(h)
  BY <1>1 DEF Stored, Rows
<1>6. Present'
  BY <1>1, <1>5 DEF Good, Present, Local
<1>7. Locals'
  BY <1>2, <1>3 DEF Locals, Local, OthersStay
<1>8. \A h \in Hashes : Adding(h)' = Adding(h) /\ (Owed(h)' => Owed(h))
  BY <1>1, <1>2, <1>3 DEF Adding, At, Owed, Owes, OthersStay
<1>9. Cover'
  <2> SUFFICES ASSUME NEW h \in Hashes
               PROVE  Cardinality(Rows(h)') + (IF Owed(h)' THEN 1 ELSE 0)
                        <= refs'[h] + Cardinality(Adding(h)')
    BY DEF Cover
  <2>1. Cardinality(Rows(h)) + (IF Owed(h) THEN 1 ELSE 0) <= refs[h] + Cardinality(Adding(h))
    BY DEF Good, Cover
  <2>2. refs[h] \in Nat /\ Cardinality(Rows(h)) \in Nat /\ Cardinality(Adding(h)) \in Nat
    BY Counted DEF TInv, Typed
  <2>3. QED
    BY <1>1, <1>5, <1>8, <2>1, <2>2
<1>10. QED
  BY <1>4, <1>6, <1>7, <1>9 DEF Good

-----------------------------------------------------------------------------
(* The invariant, and what follows from it. *)

(* and time, which only makes files due. *)
LEMMA ExpireGood ==
  ASSUME TInv, Good, NEW i \in Ids, Expire(i)
  PROVE  Good'
<1>1. /\ \A j \in Ids : files'[j].hash = files[j].hash /\ (files'[j] = NoFile <=> files[j] = NoFile)
      /\ \A j \in Ids : files[j].expiry = "due" => files'[j].expiry = "due"
  <2>1. files[i] # NoFile /\ files[i] \in [path : Paths, hash : Hashes, expiry : Expiries]
    BY DEF Expire, NoFile, TInv, Typed, FileRows
  <2>2. files'[i].hash = files[i].hash /\ files'[i].expiry = "due"
    BY <2>1 DEF Expire, TInv, Typed
  <2>3. \A j \in Ids : j # i => files'[j] = files[j]
    BY DEF Expire, TInv, Typed
  <2>4. files'[i] # NoFile
    BY <2>2 DEF NoFile
  <2>5. QED
    BY <2>1, <2>2, <2>3, <2>4
<1>2. Stored' = Stored /\ Due \subseteq Due' /\ \A h : Rows(h)' = Rows(h)
  BY <1>1 DEF Stored, Due, Rows
<1>3. UNCHANGED <<req, refs, blobs>>
  BY DEF Expire, disk
<1>4. Alone' /\ Present'
  BY <1>1, <1>2, <1>3 DEF Good, Alone, Removes, Present, Stored
<1>5. Locals'
  <2> SUFFICES ASSUME NEW q \in Requests PROVE Local(req[q])'
    BY DEF Locals
  <2>1. Local(req[q])
    BY DEF Good, Locals
  <2>2. \A j \in Stored : files'[j].hash = files[j].hash
    BY <1>1 DEF Stored
  <2>3. \A j \in Due : j \in Due' /\ files'[j].hash = files[j].hash
    BY <1>2, <2>2 DEF Due
  <2>4. QED
    BY <1>2, <1>3, <2>1, <2>2, <2>3 DEF Local
<1>6. Cover'
  BY <1>2, <1>3 DEF Good, Cover, Owed, Adding, At
<1>7. QED
  BY <1>4, <1>5, <1>6 DEF Good

(* A kill anywhere but between a row and its count. *)
LEMMA CrashGood ==
  ASSUME TInv, Good, Crash, ~torn'
  PROVE  Good'
<1>1. \A q \in Requests : req'[q] = IdleSlot /\ req[q].step # "incr"
  BY DEF Crash, At, TInv, Typed
<1>2. UNCHANGED <<files, refs, blobs>>
  BY DEF Crash, table
<1>3. Stored' = Stored /\ \A h : Rows(h)' = Rows(h)
  BY <1>2 DEF Stored, Rows
<1>4. Alone' /\ Present' /\ Locals'
  BY <1>1, <1>2, <1>3 DEF Good, Alone, Present, Locals, Local, IdleSlot
<1>5. Cover'
  <2> SUFFICES ASSUME NEW h \in Hashes
               PROVE  Cardinality(Rows(h)') + (IF Owed(h)' THEN 1 ELSE 0)
                        <= refs'[h] + Cardinality(Adding(h)')
    BY DEF Cover
  <2>1. Cardinality(Rows(h)) + (IF Owed(h) THEN 1 ELSE 0) <= refs[h] + Cardinality(Adding(h))
    BY DEF Good, Cover
  <2>2. refs[h] \in Nat /\ Cardinality(Rows(h)) \in Nat /\ Cardinality(Adding(h)) \in Nat
    BY Counted DEF TInv, Typed
  <2>3. Adding(h) = {} /\ Adding(h)' = {} /\ ~Owed(h)'
    BY <1>1 DEF Adding, At, Owed, Owes, IdleSlot
  <2>4. QED
    BY <1>2, <1>3, <2>1, <2>2, <2>3
<1>6. QED
  BY <1>4, <1>5 DEF Good

(* What was torn or overlapped once stays so. *)
Monotone == (overlapped => overlapped') /\ (torn => torn')

(* An overlap that happened stays recorded. *)
LEMMA OverlapStays == ASSUME NEW r, NEW slot, Overlap(r, slot) PROVE overlapped => overlapped'
BY Zenon DEF Overlap

(* A step that leaves the history alone keeps it. *)
LEMMA UnchangedStays == ASSUME UNCHANGED history PROVE Monotone
<1>1. overlapped' = overlapped /\ torn' = torn
  BY DEF history
<1>2. QED
  BY <1>1, Zenon DEF Monotone

(* No step takes back what the history recorded. *)
LEMMA HistoryStays == TInv /\ [Next]_vars => Monotone
<1> SUFFICES ASSUME TInv, [Next]_vars PROVE Monotone
  OBVIOUS
<1>1. ASSUME NEW r \in Requests, StartRequest(r) PROVE Monotone
  <2>1. ASSUME NEW slot, Start(r, slot) PROVE Monotone
    <3>1. overlapped => overlapped'
      BY <2>1, OverlapStays, Zenon DEF Start
    <3>2. torn => torn'
      BY <2>1, Zenon DEF Start
    <3>3. QED
      BY <3>1, <3>2, Zenon DEF Monotone
  <2>2. \E slot : Start(r, slot)
    BY <1>1 DEF StartRequest, StartUpload, StartDelete, StartCleanup
  <2>3. QED
    BY <2>1, <2>2
<1>2. ASSUME NEW r \in Requests, Step(r) PROVE Monotone
  <2>1. CASE Lookup(r)
    <3>1. overlapped => overlapped'
      BY <2>1, OverlapStays, Zenon DEF Lookup
    <3>2. torn => torn'
      BY <2>1, Zenon DEF Lookup
    <3>3. QED
      BY <3>1, <3>2, Zenon DEF Monotone
  <2>2. CASE ~Lookup(r)
    <3>1. UNCHANGED history
      BY <1>2, <2>2 DEF Step, StatBlob, WriteTmp, RenameTmp, PutRow, IncrBlobRef, SelectHash,
                        DeleteRow, DeleteDue, RemoveBlob, DecrBlobRef
    <3>2. QED
      BY <3>1, UnchangedStays
  <2>3. QED
    BY <2>1, <2>2
<1>3. ASSUME NEW i \in Ids, Expire(i) PROVE Monotone
  BY <1>3, UnchangedStays DEF Expire
<1>4. CASE Crash
  BY <1>4, Zenon DEF Crash, Monotone
<1>5. CASE UNCHANGED vars
  BY <1>5, UnchangedStays DEF vars
<1>6. QED
  BY <1>1, <1>2, <1>3, <1>4, <1>5 DEF Next

(* Every step of a history without overlaps and torn crashes keeps the agreement. *)
LEMMA NextGood == TInv /\ Good /\ [Next]_vars /\ ~overlapped' /\ ~torn' => Good'
<1> SUFFICES ASSUME TInv, Good, [Next]_vars, ~overlapped', ~torn' PROVE Good'
  OBVIOUS
<1>1. ASSUME NEW r \in Requests, Step(r) PROVE Good'
  BY <1>1, LoadGood, PutRowGood, IncrGood, DeleteGood, DecrGood, RemoveGood DEF Step
<1>2. CASE UNCHANGED vars
  <2>1. UNCHANGED <<files, refs, blobs, req>>
    BY <1>2 DEF vars, table, disk
  <2>2. Stored' = Stored /\ Due' = Due /\ \A h : Rows(h)' = Rows(h) /\ Adding(h)' = Adding(h)
    BY <2>1 DEF Stored, Due, Rows, Adding, At
  <2>3. QED
    BY <2>1, <2>2 DEF Good, Alone, Removes, Cover, Owed, Present, Locals, Local
<1>3. QED
  BY <1>1, <1>2, StartGood, ExpireGood, CrashGood DEF Next

(* The strengthened invariant holds in every reachable state. *)
LEMMA Invariance == Spec => []IInv
<1>1. Init => IInv
  <2> SUFFICES ASSUME Init PROVE Good
    BY InitTyped DEF IInv
  <2>1. \A r \in Requests : req[r] = IdleSlot
    BY DEF Init
  <2>2. Stored = {} /\ Due = {}
    BY DEF Init, Stored, Due
  <2>3. Alone /\ Present /\ Locals
    BY <2>1, <2>2 DEF Alone, Present, Locals, Local, IdleSlot
  <2>4. \A h \in Hashes : Rows(h) = {} /\ Adding(h) = {} /\ ~Owed(h) /\ refs[h] = 0
    BY <2>1, <2>2 DEF Rows, Adding, At, Owed, Owes, IdleSlot, Init
  <2>5. Cover
    BY <2>4, FS_EmptySet DEF Cover
  <2>6. QED
    BY <2>3, <2>5 DEF Good
<1>2. IInv /\ [Next]_vars => IInv'
  <2> SUFFICES ASSUME IInv, [Next]_vars, ~overlapped', ~torn' PROVE Good'
    BY NextTyped DEF IInv
  <2>1. QED
    BY NextGood, HistoryStays DEF IInv, Monotone
<1>3. QED
  BY <1>1, <1>2, PTL DEF Spec

(* For any number of racing uploads, deletes and clean-ups of which no removal overlapped
   another request: counts cover the rows that need a blob (metadata.go, storage.go). *)
THEOREM RefsCoverRowsHolds == Spec => []RefsCoverRows
<1>1. IInv => RefsCoverRows
  <2> SUFFICES ASSUME IInv, ~overlapped, ~torn, NEW h \in Hashes
               PROVE  Cardinality(Rows(h)) <= refs[h] + Cardinality(Adding(h))
    BY DEF RefsCoverRows, Adding
  <2>1. Cardinality(Rows(h)) + (IF Owed(h) THEN 1 ELSE 0) <= refs[h] + Cardinality(Adding(h))
    BY DEF IInv, Good, Cover
  <2>2. refs[h] \in Nat /\ Cardinality(Rows(h)) \in Nat /\ Cardinality(Adding(h)) \in Nat
    BY Counted DEF IInv, TInv, Typed
  <2>3. QED
    BY <2>1, <2>2
<1>2. QED
  BY <1>1, Invariance, PTL

(* Under the same condition the blob of every stored file is on disk, at every step and
   after any crash that did not come between a row and its count. *)
THEOREM BlobKeptHolds == Spec => []BlobKept
<1>1. IInv => BlobKept
  BY DEF IInv, Good, Present, BlobKept
<1>2. QED
  BY <1>1, Invariance, PTL
-----------------------------------------------------------------------------
(***************************************************************************)
(* The limit on files.  However many uploads race, they exceed it by no    *)
(* more than their number less one.                                        *)
(*                                                                         *)
(* QuotaOvershootBounded is not inductive: it does not count the uploads   *)
(* that passed, or will pass, the check and have not inserted their row.   *)
(* The inductive invariant (QInv) gives each of them its place in the      *)
(* budget: an upload enters it only when the usage it read was below the   *)
(* limit, and gives its place to the row it inserts.                       *)
(***************************************************************************)
Checked == {"stat", "writeTmp", "renameTmp", "row"}

Admitted(s) ==
  /\ DOMAIN s = {"op", "step", "path", "hash", "mode", "expiry", "id", "old", "count", "todo"}
  /\ s.count \in Nat
  /\ s.step = "lookup" => s.old = 0
  /\ s.step \in Checked /\ s.old = 0 => s.count < MaxFiles

\* The slot of an upload that will add a row unless it fails.
Adds(s) == s.step \in {"lookup"} \cup Checked /\ s.old = 0 /\ s.count < MaxFiles
Adders == {r \in Requests : Adds(req[r])}

Shapes ==
  /\ DOMAIN files = Ids
  /\ DOMAIN req = Requests
  /\ \A r \in Requests : Admitted(req[r])

Budget == Cardinality(Stored) + Cardinality(Adders) <= MaxFiles - 1 + Cardinality(Requests)

QInv == Shapes /\ Budget

-----------------------------------------------------------------------------
(* Sets whose cardinalities the budget adds up are finite. *)
LEMMA FiniteStored == IsFiniteSet(Stored) /\ Cardinality(Stored) \in Nat
<1>1. IsFiniteSet(Ids)
  BY FS_Interval, LimitsAssumption DEF Ids
<1>2. IsFiniteSet(Stored)
  BY <1>1, FS_Subset DEF Stored
<1>3. QED
  BY <1>2, FS_CardinalityType

(* There are no more requests about to add a row than requests. *)
LEMMA FiniteAdders ==
  /\ IsFiniteSet(Adders) /\ Cardinality(Adders) \in Nat
  /\ Cardinality(Requests) \in Nat /\ Cardinality(Adders) <= Cardinality(Requests)
BY FS_Subset, FS_CardinalityType, RequestsAssumption DEF Adders

(* An idle slot is well formed and about to add nothing. *)
LEMMA IdleIsAdmitted == Admitted(IdleSlot) /\ ~Adds(IdleSlot)
BY DEF Admitted, IdleSlot, Adds, Checked

(* A step that adds neither a row nor an adder keeps the invariant. *)
LEMMA NothingAdded ==
  ASSUME QInv, Shapes', Stored' \subseteq Stored, Adders' \subseteq Adders
  PROVE  QInv'
<1>1. Cardinality(Stored') <= Cardinality(Stored) /\ Cardinality(Stored') \in Nat
  BY FiniteStored, FS_Subset, FS_CardinalityType
<1>2. Cardinality(Adders') <= Cardinality(Adders) /\ Cardinality(Adders') \in Nat
  BY FiniteAdders, FS_Subset, FS_CardinalityType
<1>3. QED
  BY <1>1, <1>2, FiniteStored, FiniteAdders, LimitsAssumption DEF QInv, Budget

(* The same for a step of one request whose slot becomes slot. *)
LEMMA SlotStep ==
  ASSUME QInv, NEW r \in Requests, NEW slot, req' = [req EXCEPT ![r] = slot],
         Admitted(slot), Adds(slot) => Adds(req[r]),
         DOMAIN files' = Ids, Stored' \subseteq Stored
  PROVE  QInv'
<1>1. /\ DOMAIN req' = Requests
      /\ \A q \in Requests : req'[q] = IF q = r THEN slot ELSE req[q]
  BY DEF QInv, Shapes
<1>2. Shapes'
  <2>1. \A q \in Requests : Admitted(req'[q])
    BY <1>1 DEF QInv, Shapes
  <2>2. QED
    BY <1>1, <2>1 DEF Shapes, Admitted
<1>3. Adders' \subseteq Adders
  BY <1>1 DEF Adders, Adds
<1>4. QED
  BY <1>2, <1>3, NothingAdded

(* A request that ends keeps the invariant. *)
LEMMA FinishStep ==
  ASSUME QInv, NEW r \in Requests, Finish(r), DOMAIN files' = Ids, Stored' \subseteq Stored
  PROVE  QInv'
BY SlotStep, IdleIsAdmitted DEF Finish

(* So does one that goes on, unless it has just counted the files. *)
LEMMA GotoStep ==
  ASSUME QInv, NEW r \in Requests, NEW step, Goto(r, step), step # "lookup",
         step \in Checked => req[r].step \in Checked,
         DOMAIN files' = Ids, Stored' \subseteq Stored
  PROVE  QInv'
<1> DEFINE slot == [req[r] EXCEPT !.step = step]
<1>1. req' = [req EXCEPT ![r] = slot]
  BY DEF Goto, QInv, Shapes
<1>2. Admitted(slot) /\ (Adds(slot) => Adds(req[r]))
  <2>1. Admitted(req[r])
    BY DEF QInv, Shapes
  <2>2. QED
    BY <2>1 DEF Admitted, Adds
<1>3. QED
  BY <1>1, <1>2, SlotStep

(* A step that leaves the rows alone stores nothing new. *)
LEMMA FilesKept ==
  ASSUME QInv, UNCHANGED files
  PROVE  DOMAIN files' = Ids /\ Stored' \subseteq Stored
BY DEF QInv, Shapes, Stored
-----------------------------------------------------------------------------
(* The two steps that add. *)

(* An upload begins: it is an adder if the usage it reads is below the limit,
   and then the adders, however many, fit the budget. *)
LEMMA StartUploadKeeps ==
  ASSUME QInv, NEW r \in Requests, NEW p, NEW h, NEW mode, NEW expiry,
         StartUpload(r, p, h, mode, expiry)
  PROVE  QInv'
<1> DEFINE slot == [IdleSlot EXCEPT !.op = "upload", !.step = "lookup", !.path = p, !.hash = h,
                      !.mode = mode, !.expiry = expiry, !.id = ops + 1, !.count = Cardinality(Stored)]
<1>1. req' = [req EXCEPT ![r] = slot] /\ UNCHANGED files
  BY DEF StartUpload, Start, table
<1>2. Admitted(slot) /\ slot.count = Cardinality(Stored)
  BY FiniteStored DEF Admitted, IdleSlot, Checked
<1>3. CASE Cardinality(Stored) < MaxFiles
  <2>1. Shapes'
    <3>1. \A q \in Requests : Admitted(req'[q])
      BY <1>1, <1>2 DEF QInv, Shapes
    <3>2. QED
      BY <1>1, <3>1 DEF QInv, Shapes, Admitted
  <2>2. Stored' = Stored
    BY <1>1 DEF Stored
  <2>3. Cardinality(Adders') \in Nat /\ Cardinality(Adders') <= Cardinality(Requests)
    BY FS_Subset, FS_CardinalityType, RequestsAssumption DEF Adders
  <2>4. QED
    BY <1>3, <2>1, <2>2, <2>3, FiniteStored, FiniteAdders, LimitsAssumption DEF QInv, Budget
<1>4. CASE ~(Cardinality(Stored) < MaxFiles)
  <2>1. ~Adds(slot)
    BY <1>2, <1>4 DEF Adds
  <2>2. QED
    BY <1>1, <1>2, <2>1, FilesKept, SlotStep
<1>5. QED
  BY <1>3, <1>4

(* The row is inserted: an adder leaves, or a row is replaced. *)
LEMMA PutRowKeeps ==
  ASSUME QInv, NEW r \in Requests, PutRow(r)
  PROVE  QInv'
<1> DEFINE old == req[r].old
           todo == IF old = 0 THEN {} ELSE {files[old].hash}
           slot == [[req[r] EXCEPT !.step = "incr"] EXCEPT !.todo = todo]
<1>1. CASE old # 0 /\ old \notin Stored
  BY <1>1, FilesKept, FinishStep DEF PutRow
<1>2. CASE ~(old # 0 /\ old \notin Stored)
  <2>1. Admitted(req[r]) /\ req[r].step = "row"
    BY DEF QInv, Shapes, PutRow, At
  <2>2. req' = [req EXCEPT ![r] = slot]
    BY <1>2, <2>1 DEF PutRow, QInv, Shapes, Admitted
  <2>3. Admitted(slot) /\ ~Adds(slot)
    BY <2>1 DEF Admitted, Adds, Checked
  <2>4. PICK row : files' = [i \in Ids |-> IF i = req[r].id THEN row
                                            ELSE IF i = old THEN NoFile ELSE files[i]]
    BY <1>2 DEF PutRow
  <2>5. Shapes'
    <3>1. \A q \in Requests : Admitted(req'[q])
      BY <2>2, <2>3 DEF QInv, Shapes
    <3>2. QED
      BY <2>2, <2>4, <3>1 DEF QInv, Shapes, Admitted
  <2>6. \A q \in Requests : Adds(req'[q]) => Adds(req[q]) /\ q # r
    BY <2>2, <2>3 DEF QInv, Shapes, Adds
  <2>7. CASE old = 0
    <3>1. r \in Adders
      BY <2>1, <2>7 DEF Adders, Adds, Admitted, Checked
    <3>2. Adders' \subseteq Adders \ {r}
      BY <2>6 DEF Adders
    <3>3. /\ IsFiniteSet(Adders \ {r})
          /\ Cardinality(Adders \ {r}) = Cardinality(Adders) - 1
      BY <3>1, FiniteAdders, FS_RemoveElement
    <3>4. Cardinality(Adders') <= Cardinality(Adders) - 1 /\ Cardinality(Adders') \in Nat
      BY <3>2, <3>3, FS_Subset, FS_CardinalityType
    <3>5. Stored' \subseteq Stored \cup {req[r].id}
      BY <2>4 DEF Stored
    <3>6. /\ IsFiniteSet(Stored \cup {req[r].id})
          /\ Cardinality(Stored \cup {req[r].id}) <= Cardinality(Stored) + 1
      <4> DEFINE id == req[r].id
      <4> HIDE DEF id
      <4>1. /\ IsFiniteSet(Stored \cup {id})
            /\ Cardinality(Stored \cup {id}) =
                 IF id \in Stored THEN Cardinality(Stored) ELSE Cardinality(Stored) + 1
        BY FiniteStored, FS_AddElement
      <4>2. Cardinality(Stored \cup {id}) <= Cardinality(Stored) + 1
        BY <4>1, FiniteStored
      <4>3. QED
        BY <4>1, <4>2 DEF id
    <3>7. Cardinality(Stored') <= Cardinality(Stored) + 1 /\ Cardinality(Stored') \in Nat
      <4>1. Cardinality(Stored') <= Cardinality(Stored \cup {req[r].id}) /\ IsFiniteSet(Stored')
        BY <3>5, <3>6, FS_Subset
      <4>2. Cardinality(Stored') \in Nat /\ Cardinality(Stored \cup {req[r].id}) \in Nat
        BY <3>6, <4>1, FS_CardinalityType
      <4>3. QED
        BY <3>6, <4>1, <4>2, FiniteStored
    <3>8. QED
      BY <2>5, <3>4, <3>7, FiniteStored, FiniteAdders, LimitsAssumption DEF QInv, Budget
  <2>8. CASE old # 0
    <3>1. Adders' \subseteq Adders
      BY <2>6 DEF Adders
    <3>2. Cardinality(Adders') <= Cardinality(Adders) /\ Cardinality(Adders') \in Nat
      BY <3>1, FiniteAdders, FS_Subset, FS_CardinalityType
    <3>3. Stored' \subseteq (Stored \ {old}) \cup {req[r].id}
      BY <2>4 DEF Stored
    <3>4. /\ IsFiniteSet(Stored \ {old})
          /\ Cardinality(Stored \ {old}) = Cardinality(Stored) - 1
      BY <1>2, <2>8, FiniteStored, FS_RemoveElement
    <3>5. /\ IsFiniteSet((Stored \ {old}) \cup {req[r].id})
          /\ Cardinality((Stored \ {old}) \cup {req[r].id}) <= Cardinality(Stored)
      <4> DEFINE kept == Stored \ {old}
                 id == req[r].id
      <4>1. IsFiniteSet(kept) /\ Cardinality(kept) = Cardinality(Stored) - 1
        BY <3>4
      <4> HIDE DEF kept, id
      <4>2. /\ IsFiniteSet(kept \cup {id})
            /\ Cardinality(kept \cup {id}) =
                 IF id \in kept THEN Cardinality(kept) ELSE Cardinality(kept) + 1
        BY <4>1, FS_AddElement
      <4>3. IsFiniteSet(kept \cup {id}) /\ Cardinality(kept \cup {id}) <= Cardinality(Stored)
        BY <4>1, <4>2, FiniteStored
      <4>4. QED
        BY <4>3 DEF kept, id
    <3>6. Cardinality(Stored') <= Cardinality(Stored) /\ Cardinality(Stored') \in Nat
      BY <3>3, <3>5, FS_Subset, FS_CardinalityType, FiniteStored
    <3>7. QED
      BY <2>5, <3>2, <3>6, FiniteStored, FiniteAdders, LimitsAssumption DEF QInv, Budget
  <2>9. QED
    BY <2>7, <2>8
<1>3. QED
  BY <1>1, <1>2

-----------------------------------------------------------------------------
(* The check, and the steps that only move a slot on. *)

(* The count is below the limit when a request becomes one about to add (storage.go, Upload). *)
LEMMA LookupKeeps ==
  ASSUME QInv, NEW r \in Requests, Lookup(r)
  PROVE  QInv'
<1> DEFINE same == {i \in Stored : files[i].path = req[r].path}
           old == IF same = {} THEN 0 ELSE Newest(same)
           count == IF old = 0 THEN req[r].count ELSE req[r].count - 1
           slot == [[req[r] EXCEPT !.step = "stat"] EXCEPT !.old = old]
           refused == (old # 0 /\ req[r].mode = "error") \/ count >= MaxFiles
<1>1. Admitted(req[r]) /\ req[r].step = "lookup" /\ UNCHANGED files
  BY DEF QInv, Shapes, Lookup, At, table
<1>2. CASE refused
  BY <1>1, <1>2, FilesKept, FinishStep DEF Lookup
<1>3. CASE ~refused
  <2>1. req' = [req EXCEPT ![r] = slot]
    BY <1>3 DEF Lookup
  <2> HIDE DEF same
  <2>2. Admitted(slot)
    BY <1>1, <1>3, LimitsAssumption DEF Admitted, Checked
  <2>3. Adds(slot) => Adds(req[r])
    BY <1>1 DEF Adds, Admitted, Checked
  <2>4. QED
    BY <1>1, <2>1, <2>2, <2>3, FilesKept, SlotStep
<1>4. QED
  BY <1>2, <1>3

(* Every step of a request keeps the invariant. *)
LEMMA StepKeeps ==
  ASSUME QInv, NEW r \in Requests, Step(r)
  PROVE  QInv'
<1>1. CASE StatBlob(r)
  BY <1>1, FilesKept, GotoStep DEF StatBlob, At, table, Checked
<1>2. CASE WriteTmp(r)
  BY <1>2, FilesKept, GotoStep, FinishStep DEF WriteTmp, At, table, Checked
<1>3. CASE RenameTmp(r)
  BY <1>3, FilesKept, GotoStep, FinishStep DEF RenameTmp, At, table, Checked
<1>4. CASE IncrBlobRef(r)
  BY <1>4, FilesKept, GotoStep, FinishStep DEF IncrBlobRef, Checked
<1>5. CASE SelectHash(r)
  <2> DEFINE i == req[r].id
             step == IF i \in Stored THEN "deleteRow" ELSE "decr"
             todo == {IF i \in Stored THEN files[i].hash ELSE EmptyHash}
             slot == [[req[r] EXCEPT !.step = step] EXCEPT !.todo = todo]
  <2>1. req' = [req EXCEPT ![r] = slot] /\ Admitted(req[r]) /\ UNCHANGED files
    BY <1>5 DEF SelectHash, QInv, Shapes, Admitted, table
  <2>2. Admitted(slot) /\ ~Adds(slot)
    BY <2>1 DEF Admitted, Adds, Checked
  <2>3. QED
    BY <2>1, <2>2, FilesKept, SlotStep
<1>6. CASE DeleteRow(r)
  <2>1. DOMAIN files' = Ids /\ Stored' \subseteq Stored
    BY <1>6 DEF DeleteRow, QInv, Shapes, Stored
  <2>2. QED
    BY <1>6, <2>1, GotoStep DEF DeleteRow, Checked
<1>7. CASE DeleteDue(r)
  <2>1. DOMAIN files' = Ids /\ Stored' \subseteq Stored
    BY <1>7 DEF DeleteDue, Stored
  <2>2. QED
    BY <1>7, <2>1, GotoStep, FinishStep DEF DeleteDue, Checked
<1>8. ASSUME NEW h, Done(r, h), UNCHANGED files PROVE QInv'
  <2> DEFINE slot == [[[req[r] EXCEPT !.step = "decr"] EXCEPT !.todo = @ \ {h}] EXCEPT !.hash = None]
  <2>1. CASE req[r].todo = {h}
    BY <1>8, <2>1, FilesKept, FinishStep DEF Done, Finish
  <2>2. CASE req[r].todo # {h}
    <3>1. req' = [req EXCEPT ![r] = slot] /\ Admitted(req[r])
      BY <1>8, <2>2 DEF Done, QInv, Shapes, Admitted
    <3>2. Admitted(slot) /\ ~Adds(slot)
      BY <3>1 DEF Admitted, Adds, Checked
    <3>3. QED
      BY <1>8, <3>1, <3>2, FilesKept, SlotStep
  <2>3. QED
    BY <2>1, <2>2
<1>9. CASE RemoveBlob(r)
  BY <1>8, <1>9 DEF RemoveBlob, table
<1>10. ASSUME NEW h \in req[r].todo, DecrBlobRef(r, h) PROVE QInv'
  <2> DEFINE slot == [[req[r] EXCEPT !.step = "remove"] EXCEPT !.hash = h]
  <2>1. UNCHANGED files /\ (Done(r, h) \/ req' = [req EXCEPT ![r] = slot])
    BY <1>10 DEF DecrBlobRef, QInv, Shapes, Admitted
  <2>2. Admitted(req[r])
    BY DEF QInv, Shapes
  <2>3. Admitted(slot) /\ ~Adds(slot)
    BY <2>2 DEF Admitted, Adds, Checked
  <2>4. QED
    BY <1>8, <2>1, <2>3, FilesKept, SlotStep
<1>11. QED
  BY <1>1, <1>2, <1>3, <1>4, <1>5, <1>6, <1>7, <1>9, <1>10, LookupKeeps, PutRowKeeps DEF Step

(* A request begins. *)
LEMMA StartKeeps ==
  ASSUME QInv, NEW r \in Requests, StartRequest(r)
  PROVE  QInv'
<1>1. ASSUME NEW slot, Start(r, slot), UNCHANGED files, Admitted(slot), ~Adds(slot) PROVE QInv'
  BY <1>1, FilesKept, SlotStep DEF Start
<1>2. ASSUME NEW i \in Ids, StartDelete(r, i) PROVE QInv'
  <2> DEFINE slot == [IdleSlot EXCEPT !.op = "delete", !.step = "select", !.id = i]
  <2>1. Admitted(slot) /\ ~Adds(slot)
    BY DEF Admitted, IdleSlot, Adds, Checked
  <2>2. Start(r, slot) /\ UNCHANGED files
    BY <1>2 DEF StartDelete, table
  <2>3. QED
    BY <1>1, <2>1, <2>2
<1>3. CASE StartCleanup(r)
  <2> DEFINE hashes == {files[i].hash : i \in Due}
             slot == [IdleSlot EXCEPT !.op = "cleanup", !.step = "deleteDue", !.todo = hashes]
  <2>1. Admitted(slot) /\ ~Adds(slot)
    BY DEF Admitted, IdleSlot, Adds, Checked
  <2>2. Start(r, slot) /\ UNCHANGED files
    BY <1>3 DEF StartCleanup, table
  <2>3. QED
    BY <1>1, <2>1, <2>2
<1>4. QED
  BY <1>2, <1>3, StartUploadKeeps DEF StartRequest

-----------------------------------------------------------------------------
(* With n requests at a time, never more than MaxFiles + n - 1 files are stored:
   the check of storage.go that runs long before the insert fails no further. *)
THEOREM QuotaOvershootBoundedHolds == Spec => []QuotaOvershootBounded
<1>1. ASSUME Init PROVE QInv
  <2>1. Shapes
    BY <1>1, IdleIsAdmitted DEF Init, Shapes
  <2>2. Stored = {} /\ Adders = {}
    BY <1>1, IdleIsAdmitted DEF Init, Stored, Adders
  <2>3. QED
    BY <2>1, <2>2, FS_EmptySet, FiniteAdders, LimitsAssumption DEF QInv, Budget
<1>2. ASSUME QInv, [Next]_vars PROVE QInv'
  <2>1. ASSUME NEW r \in Requests, StartRequest(r) \/ Step(r) PROVE QInv'
    BY <1>2, <2>1, StartKeeps, StepKeeps
  <2>2. ASSUME NEW i \in Ids, Expire(i) PROVE QInv'
    <3>1. files[i] # NoFile /\ UNCHANGED req
      BY <2>2 DEF Expire, NoFile
    <3>2. DOMAIN files' = Ids /\ Stored' \subseteq Stored
      BY <1>2, <2>2, <3>1 DEF Expire, QInv, Shapes, Stored
    <3>3. Shapes' /\ Adders' = Adders
      BY <1>2, <3>1, <3>2 DEF QInv, Shapes, Admitted, Adders, Adds
    <3>4. QED
      BY <1>2, <3>2, <3>3, NothingAdded
  <2>3. CASE Crash
    <3>1. UNCHANGED files /\ \A r \in Requests : req'[r] = IdleSlot
      BY <2>3 DEF Crash, table
    <3>2. DOMAIN req' = Requests /\ \A r \in Requests : Admitted(req'[r]) /\ ~Adds(req'[r])
      BY <2>3, <3>1, IdleIsAdmitted DEF Crash
    <3>3. Shapes' /\ Adders' \subseteq Adders
      BY <1>2, <3>1, <3>2 DEF QInv, Shapes, Admitted, Adders, Adds
    <3>4. QED
      BY <1>2, <3>1, <3>3, FilesKept, NothingAdded
  <2>4. CASE UNCHANGED vars
    <3>1. UNCHANGED <<files, req>>
      BY <2>4 DEF vars, table
    <3>2. Shapes' /\ Adders' \subseteq Adders
      BY <1>2, <3>1 DEF QInv, Shapes, Admitted, Adders, Adds
    <3>3. QED
      BY <1>2, <3>1, <3>2, FilesKept, NothingAdded
  <2>5. QED
    BY <1>2, <2>1, <2>2, <2>3, <2>4 DEF Next
<1>3. QInv => QuotaOvershootBounded
  BY FiniteStored, FiniteAdders, LimitsAssumption DEF QInv, Budget, QuotaOvershootBounded
<1>4. QED
  BY <1>1, <1>2, <1>3, PTL DEF Spec
=============================================================================
