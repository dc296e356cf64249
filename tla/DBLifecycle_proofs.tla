------------------------ MODULE DBLifecycle_proofs ------------------------
(***************************************************************************)
(* For any number of requests, names, handles, writes and seconds, and     *)
(* whatever requests race to do: every variable has its type, and a        *)
(* connection that is not closed is the pooled one of its name.  When      *)
(* operators run life-cycle requests alone and delete at most once a       *)
(* second (Careful), every registered database also shows its own          *)
(* acknowledged writes and nothing a reset erased.                         *)
(*                                                                         *)
(* The first inductive invariant says what a request slot holds at each    *)
(* step, so that the steps of Pool.Get and ClosePooled touch exactly the   *)
(* pool entry they lock, and counts the ids given out, so that a new row   *)
(* finds one.                                                              *)
(*                                                                         *)
(* The second one follows a database through its names.  A name            *)
(* is ahead of the deletes so far, and then nothing has its files; or it   *)
(* can still be given to a row; or it is spent: no row is under it and     *)
(* none will be, so a connection that a restore left in the pool beside it *)
(* is never used for another database.  Between the steps of a life-cycle  *)
(* request the content of its row is split over two names.                 *)
(***************************************************************************)
EXTENDS DBLifecycle, FiniteSetTheorems, SequenceTheorems, TLAPS

\* What a request slot holds, by operation.
Slot(s) ==
  /\ s.op = "idle" => s = IdleSlot
  /\ s.op = "create" => s.step \in {"get", "getSlow", "insert"} /\ Len(s.name) = 1
  /\ s.op = "write" => s.step \in {"get", "getSlow", "exec"} /\ s.write \in Writes
  /\ s.op = "delete" => s.step \in {"renameDb", "renameWal", "close", "update"}
  /\ s.op = "restore" => s.step \in {"renameDb", "renameWal", "update"}
  /\ s.op = "hardDelete" => s.step \in {"removeDb", "removeWal", "deleteRow"}
  /\ s.op = "reset" => s.step \in {"close", "removeDb", "removeWal", "removeDb2", "removeWal2"}
  /\ s.op # "idle" => s.name \in Names
  /\ s.op \in {"delete", "restore"} => s.to \in Names
  /\ s.op \notin {"delete", "restore"} => s.to = None
  /\ s.step = "exec" => s.handle \in Handles

Slots == \A r \in Requests : Slot(req[r])

\* m is n, or n with epochs of later deletes.
Under(n, m) == Len(n) <= Len(m) /\ \A i \in 1..Len(n) : m[i] = n[i]

(* Connections *)

Conns ==
  /\ \A n \in Names : pool[n] # None => conn[pool[n]].state # "closed" /\ conn[pool[n]].name = n
  /\ \A h \in Handles : conn[h].state # "closed" => conn[h].name \in Names /\ pool[conn[h].name] = h
  /\ \A h \in Handles : conn[h].state = "open" => conn[h].db \in Inodes /\ conn[h].wal \in Inodes

(* Numbers *)

\* Every id was given to a row by a request, and a creating request has none yet.
Ids == ({rows[n].id : n \in Names} \cup {home[w] : w \in Writes}) \ {0}
Creating == {r \in Requests : req[r].op = "create"}
Counted ==
  /\ IsFiniteSet(Ids) /\ IsFiniteSet(Creating)
  /\ Cardinality(Ids) + Cardinality(Creating) <= ops

-----------------------------------------------------------------------------
(* Names *)

(* The parts of a name: its slug, then the epochs of its deletes. *)
LEMMA NameParts ==
  ASSUME NEW n \in Names
  PROVE  /\ n \in Seq(Slugs \cup Epochs)
         /\ Len(n) \in Nat /\ Len(n) >= 1 /\ Len(n) <= MaxNest + 1 /\ DOMAIN n = 1..Len(n)
         /\ n[1] \in Slugs /\ \A i \in 2..Len(n) : n[i] \in Epochs
<1>0. PICK s \in Slugs, q \in Deletes : n = <<s>> \o q
  BY DEF Names
<1>1. PICK k \in 0..MaxNest : q \in [1..k -> Epochs]
  BY DEF Deletes
<1>2. k \in Nat /\ k <= MaxNest
  BY <1>1, BoundsAssumption
<1>3. q \in Seq(Slugs \cup Epochs) /\ Len(q) = k
  BY <1>1, <1>2
<1>4. <<s>> \in Seq(Slugs \cup Epochs) /\ Len(<<s>>) = 1
  OBVIOUS
<1>5. n \in Seq(Slugs \cup Epochs) /\ Len(n) = 1 + k
  BY <1>0, <1>1, <1>2, <1>3, <1>4
<1>6. n[1] = s /\ \A i \in 2..(1 + k) : n[i] = q[i - 1]
  BY <1>0, <1>1, <1>2, <1>3, <1>4
<1>7. \A i \in 2..(1 + k) : n[i] \in Epochs
  <2>1. \A j \in 1..k : q[j] \in Epochs
    BY <1>1
  <2>2. \A i \in 2..(1 + k) : i - 1 \in 1..k
    BY <1>2
  <2>3. QED
    BY <1>6, <2>1, <2>2
<1>8. DOMAIN n = 1..Len(n)
  BY <1>5
<1>9. QED
  BY <1>2, <1>5, <1>6, <1>7, <1>8, BoundsAssumption

(* A soft delete gives a name (SoftDeleteDatabase). *)
LEMMA AppendName ==
  ASSUME NEW n \in Names, NEW e \in Epochs, Len(n) <= MaxNest
  PROVE  Append(n, e) \in Names
<1>0. PICK s \in Slugs, q \in Deletes : n = <<s>> \o q
  BY DEF Names
<1>1. PICK k \in 0..MaxNest : q \in [1..k -> Epochs]
  BY DEF Deletes
<1>2. k \in Nat /\ q \in Seq(Epochs) /\ Len(q) = k
  BY <1>1, BoundsAssumption
<1>3. Len(n) = 1 + k
  BY <1>0, <1>1, <1>2
<1>4. k + 1 \in 0..MaxNest
  BY <1>2, <1>3, BoundsAssumption
<1>5. Append(q, e) \in [1..(k + 1) -> Epochs]
  <2> DEFINE a == Append(q, e)
  <2>1. a \in Seq(Epochs) /\ Len(a) = k + 1
    BY <1>2
  <2>2. a \in [1..Len(a) -> Epochs]
    BY <2>1, LenProperties
  <2>3. QED
    BY <2>1, <2>2
<1>6. Append(n, e) = <<s>> \o Append(q, e)
  <2> DEFINE a == Append(n, e)
             b == <<s>> \o Append(q, e)
  <2>1. n \in Seq(Slugs \cup Epochs) /\ e \in Slugs \cup Epochs
    BY NameParts
  <2>2. a \in Seq(Slugs \cup Epochs) /\ Len(a) = k + 2
    BY <2>1, <1>2, <1>3
  <2>3. Append(q, e) \in Seq(Slugs \cup Epochs) /\ Len(Append(q, e)) = k + 1 /\ <<s>> \in Seq(Slugs \cup Epochs)
    BY <1>2
  <2>4. b \in Seq(Slugs \cup Epochs) /\ Len(b) = k + 2
    BY <2>3, <1>2
  <2>5. \A i \in 1..(k + 2) : a[i] = b[i]
    BY <1>0, <1>1, <1>2, <1>3, <2>1, <2>3
  <2>6. QED
    BY <2>2, <2>4, <2>5, <1>2, SeqEqual
<1>7. Append(q, e) \in Deletes
  BY <1>4, <1>5 DEF Deletes
<1>8. <<s>> \o Append(q, e) \in {<<s>> \o p : p \in Deletes}
  BY <1>7
<1>9. \E t \in Slugs : Append(n, e) \in {<<t>> \o p : p \in Deletes}
  BY <1>6, <1>8
<1>10. QED
  BY <1>9 DEF Names

(* What a name with one delete more is made of. *)
LEMMA AppendParts ==
  ASSUME NEW n \in Names, NEW e \in Epochs
  PROVE  /\ Len(Append(n, e)) = Len(n) + 1 /\ Append(n, e)[Len(n) + 1] = e
         /\ \A i \in 1..Len(n) : Append(n, e)[i] = n[i]
         /\ Append(n, e) # n /\ Under(n, Append(n, e))
<1>1. n \in Seq(Slugs \cup Epochs) /\ Len(n) \in Nat
  BY NameParts
<1>2. /\ Len(Append(n, e)) = Len(n) + 1 /\ Append(n, e)[Len(n) + 1] = e
      /\ \A i \in 1..Len(n) : Append(n, e)[i] = n[i]
  BY <1>1
<1>3. QED
  BY <1>1, <1>2 DEF Under

(* A name is determined by its length and its parts. *)
LEMMA SameName ==
  ASSUME NEW n \in Names, NEW m \in Names, Len(n) = Len(m), \A i \in 1..Len(n) : n[i] = m[i]
  PROVE  n = m
BY NameParts
-----------------------------------------------------------------------------
(* Requests: each way a slot changes, for one step of any handler. *)

USE DEF History

(* An idle slot is a request slot. *)
LEMMA IdleIsRequest == IdleSlot \in Request /\ Slot(IdleSlot)
BY DEF IdleSlot, Request, Slot, Ops, Steps, MaybeName

(* A request that ends leaves its slot idle. *)
LEMMA FinishSlot ==
  ASSUME TypeOK, Slots, NEW r \in Requests, Finish(r)
  PROVE  /\ req' \in [Requests -> Request] /\ Slots'
         /\ req'[r] = IdleSlot /\ \A q \in Requests \ {r} : req'[q] = req[q]
<1>1. /\ req' \in [Requests -> Request]
      /\ req'[r] = IdleSlot /\ \A q \in Requests \ {r} : req'[q] = req[q]
  BY IdleIsRequest DEF TypeOK, Finish
<1>2. QED
  BY <1>1, IdleIsRequest DEF Slots

(* One that goes on keeps everything but its step, *)
LEMMA GotoSlot ==
  ASSUME TypeOK, Slots, NEW r \in Requests, NEW from \in Steps, NEW to \in Steps, Goto(r, from, to),
         Slot([req[r] EXCEPT !.step = to])
  PROVE  /\ req' \in [Requests -> Request] /\ Slots'
         /\ req'[r] = [req[r] EXCEPT !.step = to] /\ \A q \in Requests \ {r} : req'[q] = req[q]
<1>1. req[r] \in Request
  BY DEF TypeOK
<1>2. [req[r] EXCEPT !.step = to] \in Request
  BY <1>1 DEF Request
<1>3. req' = [req EXCEPT ![r] = [req[r] EXCEPT !.step = to]]
  BY DEF TypeOK, Goto
<1>4. /\ req' \in [Requests -> Request]
      /\ req'[r] = [req[r] EXCEPT !.step = to] /\ \A q \in Requests \ {r} : req'[q] = req[q]
  BY <1>2, <1>3 DEF TypeOK
<1>5. QED
  BY <1>4 DEF Slots

(* one that has its connection from the pool (pool.go, Get) also that handle, *)
LEMMA GotSlot ==
  ASSUME TypeOK, Slots, NEW r \in Requests, NEW h \in Handles, req[r].step \in {"get", "getSlow"}, Got(r, h)
  PROVE  /\ req' \in [Requests -> Request] /\ Slots'
         /\ req'[r] = [[req[r] EXCEPT !.handle = h] EXCEPT !.step = IF req[r].op = "create" THEN "insert" ELSE "exec"]
         /\ \A q \in Requests \ {r} : req'[q] = req[q]
<1> DEFINE to == IF req[r].op = "create" THEN "insert" ELSE "exec"
           slot == [[req[r] EXCEPT !.handle = h] EXCEPT !.step = to]
<1>1. req[r] \in Request /\ Slot(req[r]) /\ to \in Steps
  BY DEF TypeOK, Slots, Steps
<1>2. slot \in Request
  BY <1>1 DEF Request
<1>3. req' = [req EXCEPT ![r] = slot]
  BY <1>1 DEF TypeOK, Got, Request
<1>4. req[r].op \in {"create", "write"}
  BY <1>1 DEF Slot, IdleSlot, Request, Ops, LifeCycle
<1>5. Slot(slot)
  BY <1>1, <1>4 DEF Slot, Request
<1>6. /\ req' \in [Requests -> Request]
      /\ req'[r] = slot /\ \A q \in Requests \ {r} : req'[q] = req[q]
  BY <1>2, <1>3 DEF TypeOK
<1>7. QED
  BY <1>5, <1>6 DEF Slots

(* and one that begins what its handler gives it. *)
LEMMA StartSlot ==
  ASSUME TypeOK, Slots, NEW r \in Requests, NEW op \in Ops, NEW slot \in Request, StartWith(r, op, slot),
         Slot([slot EXCEPT !.op = op])
  PROVE  /\ req' \in [Requests -> Request] /\ Slots'
         /\ req[r] = IdleSlot /\ req'[r] = [slot EXCEPT !.op = op]
         /\ \A q \in Requests \ {r} : req'[q] = req[q]
         /\ ops' \in 0..MaxOps /\ ops' = ops + 1
<1>1. [slot EXCEPT !.op = op] \in Request
  BY DEF Request
<1>2. /\ req' \in [Requests -> Request]
      /\ req'[r] = [slot EXCEPT !.op = op] /\ \A q \in Requests \ {r} : req'[q] = req[q]
  BY <1>1 DEF TypeOK, StartWith
<1>3. ops' \in 0..MaxOps /\ ops' = ops + 1
  BY BoundsAssumption DEF TypeOK, StartWith, MayStart
<1>4. req[r] = IdleSlot
  BY DEF StartWith, Slots, Slot
<1>5. QED
  BY <1>2, <1>3, <1>4 DEF Slots

-----------------------------------------------------------------------------
(* Files and connections *)

(* The files of names and connections are in use. *)
LEMMA UsedFiles ==
  /\ \A n \in Names : fs[n].db \in InUse /\ fs[n].wal \in InUse
  /\ \A h \in Handles : conn[h].db \in InUse /\ conn[h].wal \in InUse
<1>1. ASSUME NEW n \in Names PROVE fs[n].db \in InUse /\ fs[n].wal \in InUse
  <2>1. {fs[n].db, fs[n].wal} \in {{fs[m].db, fs[m].wal} : m \in Names}
    OBVIOUS
  <2>2. QED
    BY <2>1 DEF InUse
<1>2. ASSUME NEW h \in Handles PROVE conn[h].db \in InUse /\ conn[h].wal \in InUse
  <2>1. {conn[h].db, conn[h].wal} \in {{conn[g].db, conn[g].wal} : g \in Handles}
    OBVIOUS
  <2>2. QED
    BY <2>1 DEF InUse
<1>3. QED
  BY <1>1, <1>2

(* Two numbers are left when there is room. *)
LEMMA RoomForTwo ==
  ASSUME Room
  PROVE  \E i, j \in Inodes \ InUse : i # j
<1> DEFINE free == Inodes \ InUse
<1>1. IsFiniteSet(free) /\ Cardinality(free) \in Nat /\ Cardinality(free) >= 2
  BY InodesAssumption, FS_Subset, FS_CardinalityType DEF Room
<1>2. PICK i \in free : TRUE
  BY <1>1, FS_EmptySet
<1>3. IsFiniteSet(free \ {i}) /\ Cardinality(free \ {i}) = Cardinality(free) - 1
  BY <1>1, <1>2, FS_RemoveElement
<1>4. PICK j \in free \ {i} : TRUE
  BY <1>1, <1>3, FS_EmptySet
<1>5. QED
  BY <1>2, <1>4

(* Opening by path: the name and the connection get the same two files, those of
   the name where it has a database file, else new ones with nothing in them. *)
LEMMA OpenEffect ==
  ASSUME TypeOK, NEW h \in Handles, NEW n \in Names, OpenConn(h, n)
  PROVE  /\ fs' \in [Names -> Files] /\ data' \in [Inodes -> SUBSET Writes] /\ conn' \in [Handles -> Connection]
         /\ \A m \in Names \ {n} : fs'[m] = fs[m]
         /\ \A g \in Handles \ {h} : conn'[g] = conn[g]
         /\ conn'[h].state = "open" /\ conn'[h].name = n
         /\ conn'[h].db = fs'[n].db /\ conn'[h].wal = fs'[n].wal
         /\ fs'[n].db \in Inodes /\ fs'[n].wal \in Inodes
         /\ \/ fs'[n].db = fs[n].db
            \/ fs[n].db = None /\ fs'[n].db \notin InUse /\ data'[fs'[n].db] = {}
         /\ \/ fs'[n].wal = fs[n].wal /\ fs[n].db # None
            \/ /\ fs[n].db = None \/ fs[n].wal = None
               /\ fs'[n].wal \notin InUse /\ fs'[n].wal # fs'[n].db /\ data'[fs'[n].wal] = {}
         /\ \A i \in Inodes : i \in InUse => data'[i] = data[i]
         /\ \A i \in Inodes : data'[i] = data[i] \/ data'[i] = {}
<1> DEFINE new == fs[n].db = None
           db == IF new THEN FreshDb ELSE fs[n].db
           wal == IF new \/ fs[n].wal = None THEN FreshWal ELSE fs[n].wal
<1>1. PICK one \in Inodes \ InUse, two \in Inodes \ InUse : one # two
  BY RoomForTwo DEF OpenConn
<1>2. FreshDb \in Inodes \ InUse
  BY <1>1 DEF FreshDb
<1>3. FreshWal \in Inodes \ (InUse \cup {FreshDb})
  <2>1. \E k \in Inodes \ (InUse \cup {FreshDb}) : TRUE
    BY <1>1
  <2>2. QED
    BY <2>1 DEF FreshWal
<1>4. fs[n] \in Files /\ fs[n].db \in Inodes \cup {None} /\ fs[n].wal \in Inodes \cup {None}
  BY DEF TypeOK, Files, File
<1>5. fs[n].db \in InUse /\ fs[n].wal \in InUse
  BY UsedFiles
<1>6. db \in Inodes /\ wal \in Inodes
  BY <1>2, <1>3, <1>4
<1>7. /\ fs' = [fs EXCEPT ![n] = [db |-> db, wal |-> wal]]
      /\ data' = [i \in Inodes |-> IF i \in {db, wal} \ {fs[n].db, fs[n].wal} THEN {} ELSE data[i]]
      /\ conn' = [conn EXCEPT ![h] = [state |-> "open", name |-> n, db |-> db, wal |-> wal]]
  BY DEF OpenConn
<1>8. [db |-> db, wal |-> wal] \in Files
  BY <1>6 DEF Files, File
<1>9. [state |-> "open", name |-> n, db |-> db, wal |-> wal] \in Connection
  BY <1>6 DEF Connection, File, MaybeName
<1>10. /\ fs' \in [Names -> Files] /\ conn' \in [Handles -> Connection]
       /\ \A m \in Names \ {n} : fs'[m] = fs[m]
       /\ \A g \in Handles \ {h} : conn'[g] = conn[g]
       /\ fs'[n].db = db /\ fs'[n].wal = wal
       /\ conn'[h] = [state |-> "open", name |-> n, db |-> db, wal |-> wal]
  BY <1>7, <1>8, <1>9 DEF TypeOK
<1>11. data' \in [Inodes -> SUBSET Writes] /\ \A i \in Inodes : data'[i] = data[i] \/ data'[i] = {}
  BY <1>7 DEF TypeOK
<1>12. \A i \in Inodes : i \in InUse => data'[i] = data[i]
  <2>1. \A i \in InUse : i \in {db, wal} => i \in {fs[n].db, fs[n].wal}
    BY <1>2, <1>3
  <2>2. QED
    BY <1>7, <2>1
<1>13. db = fs[n].db \/ (fs[n].db = None /\ db \notin InUse /\ data'[db] = {})
  BY <1>2, <1>5, <1>6, <1>7
<1>14. \/ wal = fs[n].wal /\ fs[n].db # None
       \/ /\ fs[n].db = None \/ fs[n].wal = None
          /\ wal \notin InUse /\ wal # db /\ data'[wal] = {}
  <2>1. CASE new \/ fs[n].wal = None
    <3>1. wal = FreshWal /\ wal \notin InUse /\ wal # FreshDb
      BY <1>3, <2>1
    <3>2. wal # db
      BY <1>5, <3>1
    <3>3. data'[wal] = {}
      BY <1>5, <1>6, <1>7, <3>1
    <3>4. QED
      BY <2>1, <3>1, <3>2, <3>3
  <2>2. CASE ~new /\ fs[n].wal # None
    BY <2>2
  <2>3. QED
    BY <2>1, <2>2
<1>15. QED
  BY <1>6, <1>10, <1>11, <1>12, <1>13, <1>14

(* Closing: at most the WAL of the connection's name goes, into its database file. *)
LEMMA CloseEffect ==
  ASSUME TypeOK, Conns, NEW h \in Handles, NEW to \in Connection, CloseConn(h, to), conn[h].state # "closed"
  PROVE  /\ fs' \in [Names -> Files] /\ data' \in [Inodes -> SUBSET Writes] /\ conn' \in [Handles -> Connection]
         /\ conn'[h] = to /\ \A g \in Handles \ {h} : conn'[g] = conn[g]
         /\ \/ UNCHANGED <<fs, data>>
            \/ /\ conn[h].state = "open" /\ fs[conn[h].name].db = conn[h].db
               /\ \A m \in Names : fs'[m].db = fs[m].db
               /\ \A m \in Names \ {conn[h].name} : fs'[m] = fs[m]
               /\ fs'[conn[h].name].wal = None
               /\ data'[conn[h].db] = data[conn[h].db] \cup data[conn[h].wal]
               /\ \A i \in Inodes \ {conn[h].db} : data'[i] = data[i]
<1> DEFINE c == conn[h]
           last == \A g \in Handles \ {h} : conn[g].db # c.db
           checkpoint == c.state = "open" /\ last /\ fs[c.name].db = c.db
<1>1. c.name \in Names /\ (c.state = "open" => c.db \in Inodes /\ c.wal \in Inodes)
  BY DEF Conns
<1>2. /\ conn' = [conn EXCEPT ![h] = to]
      /\ data' = IF checkpoint THEN [data EXCEPT ![c.db] = @ \cup data[c.wal]] ELSE data
      /\ fs' = IF checkpoint THEN [fs EXCEPT ![c.name].wal = None] ELSE fs
  BY DEF CloseConn
<1>3. conn' \in [Handles -> Connection] /\ conn'[h] = to /\ \A g \in Handles \ {h} : conn'[g] = conn[g]
  BY <1>2 DEF TypeOK
<1>4. CASE ~checkpoint
  BY <1>2, <1>3, <1>4 DEF TypeOK
<1>5. CASE checkpoint
  <2>1. data' = [data EXCEPT ![c.db] = data[c.db] \cup data[c.wal]]
    BY <1>2, <1>5
  <2>2. /\ data' \in [Inodes -> SUBSET Writes]
        /\ data'[c.db] = data[c.db] \cup data[c.wal]
        /\ \A i \in Inodes \ {c.db} : data'[i] = data[i]
    BY <1>1, <1>5, <2>1 DEF TypeOK
  <2>3. fs' = [fs EXCEPT ![c.name] = [fs[c.name] EXCEPT !.wal = None]]
    BY <1>2, <1>5
  <2>4. fs[c.name] \in Files
    BY <1>1 DEF TypeOK
  <2>5. [fs[c.name] EXCEPT !.wal = None] \in Files /\ [fs[c.name] EXCEPT !.wal = None].db = fs[c.name].db
        /\ [fs[c.name] EXCEPT !.wal = None].wal = None
    BY <2>4 DEF Files, File
  <2>6. /\ fs' \in [Names -> Files]
        /\ \A m \in Names : fs'[m].db = fs[m].db
        /\ \A m \in Names \ {c.name} : fs'[m] = fs[m]
        /\ fs'[c.name].wal = None
    BY <1>1, <2>3, <2>5 DEF TypeOK
  <2>7. QED
    BY <1>3, <1>5, <2>2, <2>6
<1>6. QED
  BY <1>4, <1>5

(* The pool and its connections agree after an open, *)
LEMMA OpenConns ==
  ASSUME TypeOK, Conns, NEW h \in Handles, NEW n \in Names, OpenConn(h, n), pool[n] \in {None, h},
         pool' = [pool EXCEPT ![n] = h],
         conn[h].state = "closed" \/ conn[h].name = n
  PROVE  Conns'
<1>1. /\ \A g \in Handles \ {h} : conn'[g] = conn[g]
      /\ conn'[h].state = "open" /\ conn'[h].name = n
      /\ conn'[h].db \in Inodes /\ conn'[h].wal \in Inodes
  BY OpenEffect
<1>2. /\ pool'[n] = h /\ \A m \in Names \ {n} : pool'[m] = pool[m]
      /\ \A m \in Names : pool[m] \in Handles \cup {None}
  BY DEF TypeOK
<1>3. h # None
  BY NoneAssumption
<1>4. ASSUME NEW m \in Names, pool'[m] # None
      PROVE  conn'[pool'[m]].state # "closed" /\ conn'[pool'[m]].name = m
  <2>1. CASE m = n
    BY <1>1, <1>2, <2>1
  <2>2. CASE m # n
    <3>1. pool'[m] = pool[m] /\ pool[m] \in Handles
      BY <1>2, <1>4, <2>2
    <3>2. conn[pool[m]].state # "closed" /\ conn[pool[m]].name = m
      BY <1>4, <3>1 DEF Conns
    <3>3. pool[m] # h
      BY <2>2, <3>2
    <3>4. QED
      BY <1>1, <3>1, <3>2, <3>3
  <2>3. QED
    BY <2>1, <2>2
<1>5. ASSUME NEW g \in Handles, conn'[g].state # "closed"
      PROVE  conn'[g].name \in Names /\ pool'[conn'[g].name] = g
  <2>1. CASE g = h
    BY <1>1, <1>2, <2>1
  <2>2. CASE g # h
    <3>1. conn'[g] = conn[g] /\ conn[g].name \in Names /\ pool[conn[g].name] = g
      BY <1>1, <1>5, <2>2 DEF Conns
    <3>2. conn[g].name # n
      BY <1>3, <2>2, <3>1, NoneAssumption
    <3>3. QED
      BY <1>2, <3>1, <3>2
  <2>3. QED
    BY <2>1, <2>2
<1>6. \A g \in Handles : conn'[g].state = "open" => conn'[g].db \in Inodes /\ conn'[g].wal \in Inodes
  BY <1>1 DEF Conns
<1>7. QED
  BY <1>4, <1>5, <1>6 DEF Conns

(* after a close that also forgets the connection, *)
LEMMA CloseConns ==
  ASSUME TypeOK, Conns, NEW n \in Names, pool[n] # None, CloseConn(pool[n], ClosedConn),
         pool' = [pool EXCEPT ![n] = None]
  PROVE  Conns'
<1> DEFINE h == pool[n]
<1>1. h \in Handles /\ conn[h].state # "closed" /\ conn[h].name = n
  BY DEF TypeOK, Conns
<1>2. ClosedConn \in Connection /\ ClosedConn.state = "closed"
  BY DEF ClosedConn, Connection, MaybeName, File
<1>3. conn'[h].state = "closed" /\ \A g \in Handles \ {h} : conn'[g] = conn[g]
  BY <1>1, <1>2, CloseEffect
<1>4. /\ pool'[n] = None /\ \A m \in Names \ {n} : pool'[m] = pool[m]
      /\ \A m \in Names : pool[m] \in Handles \cup {None}
  BY DEF TypeOK
<1>5. ASSUME NEW m \in Names, pool'[m] # None
      PROVE  conn'[pool'[m]].state # "closed" /\ conn'[pool'[m]].name = m
  <2>1. m # n /\ pool'[m] = pool[m] /\ pool[m] \in Handles
    BY <1>4, <1>5
  <2>2. conn[pool[m]].state # "closed" /\ conn[pool[m]].name = m
    BY <1>5, <2>1 DEF Conns
  <2>3. pool[m] # h
    BY <1>1, <2>1, <2>2
  <2>4. QED
    BY <1>3, <2>1, <2>2, <2>3
<1>6. ASSUME NEW g \in Handles, conn'[g].state # "closed"
      PROVE  conn'[g].name \in Names /\ pool'[conn'[g].name] = g
  <2>1. g # h /\ conn'[g] = conn[g]
    BY <1>3, <1>6
  <2>2. conn[g].name \in Names /\ pool[conn[g].name] = g
    BY <1>6, <2>1 DEF Conns
  <2>3. conn[g].name # n
    BY <2>1, <2>2
  <2>4. QED
    BY <1>4, <2>1, <2>2, <2>3
<1>7. \A g \in Handles : conn'[g].state = "open" => conn'[g].db \in Inodes /\ conn'[g].wal \in Inodes
  BY <1>3 DEF Conns
<1>8. QED
  BY <1>5, <1>6, <1>7 DEF Conns

(* and after an idle close, which keeps the pool entry. *)
LEMMA IdleConns ==
  ASSUME TypeOK, Conns, NEW h \in Handles, IdleClose(h)
  PROVE  /\ Conns'
         /\ fs' \in [Names -> Files] /\ data' \in [Inodes -> SUBSET Writes] /\ conn' \in [Handles -> Connection]
         /\ conn'[h].state = "idle" /\ conn'[h].name = conn[h].name
         /\ \A g \in Handles \ {h} : conn'[g] = conn[g]
<1> DEFINE to == [ClosedConn EXCEPT !.state = "idle", !.name = conn[h].name]
<1>1. conn[h].state = "open" /\ CloseConn(h, to) /\ pool' = pool
  BY DEF IdleClose
<1>2. conn[h].name \in Names
  BY <1>1 DEF Conns
<1>3. ClosedConn \in Connection
  BY DEF ClosedConn, Connection, MaybeName, File
<1>4. to \in Connection /\ to.state = "idle" /\ to.name = conn[h].name
  BY <1>2, <1>3 DEF Connection, MaybeName
<1>5. /\ fs' \in [Names -> Files] /\ data' \in [Inodes -> SUBSET Writes] /\ conn' \in [Handles -> Connection]
      /\ conn'[h] = to /\ \A g \in Handles \ {h} : conn'[g] = conn[g]
  BY <1>1, <1>4, CloseEffect
<1>6. conn'[h].state = "idle" /\ conn'[h].name = conn[h].name
  BY <1>4, <1>5
<1>7. \A m \in Names : pool[m] \in Handles \cup {None}
  BY DEF TypeOK
<1>8. Conns'
  <2>1. ASSUME NEW m \in Names, pool[m] # None
        PROVE  conn'[pool[m]].state # "closed" /\ conn'[pool[m]].name = m
    <3>1. pool[m] \in Handles /\ conn[pool[m]].state # "closed" /\ conn[pool[m]].name = m
      BY <1>7, <2>1 DEF Conns
    <3>2. QED
      BY <1>5, <1>6, <3>1
  <2>2. ASSUME NEW g \in Handles, conn'[g].state # "closed"
        PROVE  conn'[g].name \in Names /\ pool[conn'[g].name] = g
    <3>1. conn[g].state # "closed" /\ conn'[g].name = conn[g].name
      BY <1>1, <1>5, <1>6, <2>2
    <3>2. QED
      BY <3>1 DEF Conns
  <2>3. \A g \in Handles : conn'[g].state = "open" => conn'[g].db \in Inodes /\ conn'[g].wal \in Inodes
    BY <1>5, <1>6 DEF Conns
  <2>4. QED
    BY <1>1, <2>1, <2>2, <2>3 DEF Conns
<1>9. QED
  BY <1>5, <1>6, <1>8

(* The ids of rows, and those that writes remember. *)
LEMMA IdsUsed ==
  /\ \A n \in Names : rows[n].id \in Ids \cup {0}
  /\ \A w \in Writes : home[w] \in Ids \cup {0}
BY DEF Ids

(* A step that gives out no id, and starts no create, keeps the count. *)
LEMMA CountedKeeps ==
  ASSUME TypeOK, Counted, ops' \in Nat, ops' >= ops,
         \A n \in Names : rows'[n].id \in Ids \cup {0},
         \A w \in Writes : home'[w] \in Ids \cup {0},
         \A q \in Requests : req'[q].op = "create" => req[q].op = "create"
  PROVE  Counted'
<1>1. Ids' \subseteq Ids
  BY DEF Ids
<1>2. Creating' \subseteq Creating
  BY DEF Creating
<1>3. /\ IsFiniteSet(Ids') /\ Cardinality(Ids') <= Cardinality(Ids)
      /\ IsFiniteSet(Creating') /\ Cardinality(Creating') <= Cardinality(Creating)
  BY <1>1, <1>2, FS_Subset DEF Counted
<1>4. /\ Cardinality(Ids) \in Nat /\ Cardinality(Creating) \in Nat
      /\ Cardinality(Ids') \in Nat /\ Cardinality(Creating') \in Nat
  BY <1>3, FS_CardinalityType DEF Counted
<1>5. ops \in Nat
  BY BoundsAssumption DEF TypeOK
<1>6. QED
  BY <1>3, <1>4, <1>5 DEF Counted

(* A create that starts counts as the id it will take. *)
LEMMA CountedStarts ==
  ASSUME TypeOK, Counted, NEW r \in Requests, ops' = ops + 1, UNCHANGED <<rows, home>>,
         \A q \in Requests \ {r} : req'[q] = req[q]
  PROVE  Counted'
<1>1. Ids' = Ids
  BY DEF Ids
<1>2. Creating' \subseteq Creating \cup {r}
  BY DEF Creating
<1>2a. Cardinality(Ids) \in Nat /\ Cardinality(Creating) \in Nat
  BY FS_CardinalityType DEF Counted
<1>3. IsFiniteSet(Creating \cup {r}) /\ Cardinality(Creating \cup {r}) <= Cardinality(Creating) + 1
  <2>1. IsFiniteSet(Creating)
    BY DEF Counted
  <2>2. /\ IsFiniteSet(Creating \cup {r})
        /\ Cardinality(Creating \cup {r}) = IF r \in Creating THEN Cardinality(Creating) ELSE Cardinality(Creating) + 1
    BY <2>1, FS_AddElement
  <2>3. QED
    BY <1>2a, <2>2
<1>4. IsFiniteSet(Creating') /\ Cardinality(Creating') <= Cardinality(Creating \cup {r})
  BY <1>2, <1>3, FS_Subset
<1>5. Cardinality(Creating') \in Nat /\ Cardinality(Creating \cup {r}) \in Nat
  BY <1>3, <1>4, FS_CardinalityType
<1>6. ops \in Nat
  BY BoundsAssumption DEF TypeOK
<1>7. QED
  BY <1>1, <1>2a, <1>3, <1>4, <1>5, <1>6 DEF Counted

(* An id is left for a row to be inserted (databases.id). *)
LEMMA IdIsLeft ==
  ASSUME TypeOK, Counted, NEW r \in Requests, req[r].op = "create"
  PROVE  FreshId \in 1..MaxOps /\ FreshId \notin Ids
<1>1. r \in Creating
  BY DEF Creating
<1>2. Cardinality(Creating) # 0 /\ Cardinality(Creating) \in Nat /\ Cardinality(Ids) \in Nat
  BY <1>1, FS_EmptySet, FS_CardinalityType DEF Counted
<1>3. ops \in Nat /\ ops <= MaxOps /\ MaxOps \in Nat
  BY BoundsAssumption DEF TypeOK
<1>4. Cardinality(Ids) < MaxOps
  BY <1>2, <1>3 DEF Counted
<1>5. PICK i \in 1..MaxOps : i \notin Ids
  <2>1. SUFFICES ASSUME 1..MaxOps \subseteq Ids PROVE FALSE
    OBVIOUS
  <2>2. Cardinality(1..MaxOps) <= Cardinality(Ids)
    BY <2>1, FS_Subset DEF Counted
  <2>3. Cardinality(1..MaxOps) = MaxOps
    BY <1>3, FS_Interval
  <2>4. QED
    BY <1>2, <1>3, <1>4, <2>2, <2>3
<1>6. \A j \in 1..MaxOps : j \notin Ids <=> (\A w \in Writes : home[w] # j) /\ (\A n \in Names : rows[n].id # j)
  BY <1>3 DEF Ids
<1>7. QED
  BY <1>5, <1>6 DEF FreshId

-----------------------------------------------------------------------------
(* The inductive invariant, action by action *)

TInv == TypeOK /\ Slots /\ Conns /\ Counted

(* It holds when the process starts on an empty volume. *)
LEMMA InitTypes == Init => TInv
<1> SUFFICES ASSUME Init PROVE TInv
  OBVIOUS
<1>1. NoRow \in Row /\ NoFiles \in Files /\ ClosedConn \in Connection /\ ClosedConn.state = "closed"
  BY BoundsAssumption DEF NoRow, NoFiles, ClosedConn, Row, Files, Connection, MaybeName, File
<1>2. TypeOK
  <2>1. /\ rows \in [Names -> Row] /\ fs \in [Names -> Files] /\ data \in [Inodes -> SUBSET Writes]
        /\ pool \in [Names -> Handles \cup {None}] /\ conn \in [Handles -> Connection]
        /\ req \in [Requests -> Request]
    BY <1>1, IdleIsRequest DEF Init
  <2>2. clock \in Epochs /\ ops \in 0..MaxOps /\ lastDelete \in 0..MaxEpoch
    BY BoundsAssumption DEF Init, Epochs
  <2>3. home \in [Writes -> 0..MaxOps]
    BY BoundsAssumption DEF Init
  <2>4. acked \subseteq Writes /\ gone \subseteq Writes /\ erased \subseteq Writes /\ torn \in BOOLEAN
    BY DEF Init
  <2>5. QED
    BY <2>1, <2>2, <2>3, <2>4 DEF TypeOK
<1>3. Slots
  BY IdleIsRequest DEF Init, Slots
<1>4. Conns
  BY <1>1 DEF Init, Conns
<1>5. Counted
  <2>1. Ids = {}
    BY DEF Init, Ids, NoRow
  <2>2. Creating = {}
    BY DEF Init, Creating, IdleSlot
  <2>3. QED
    BY <2>1, <2>2, FS_EmptySet DEF Counted, Init
<1>6. QED
  BY <1>2, <1>3, <1>4, <1>5 DEF TInv

(* A step of a running request that changes no row and no connection. *)
LEMMA QuietTypes ==
  ASSUME TInv, UNCHANGED <<rows, pool, conn, clock, ops, home, lastDelete, torn>>,
         req' \in [Requests -> Request], Slots',
         \A q \in Requests : req'[q].op = "create" => req[q].op = "create",
         fs' \in [Names -> Files], data' \in [Inodes -> SUBSET Writes],
         acked' \subseteq Writes, gone' \subseteq Writes, erased' \subseteq Writes
  PROVE  TInv'
<1> USE DEF TInv
<1>1. TypeOK'
  BY DEF TypeOK
<1>2. Conns'
  BY DEF Conns
<1>3. Counted'
  <2>1. ops \in Nat
    BY BoundsAssumption DEF TypeOK
  <2>2. QED
    BY <2>1, IdsUsed, CountedKeeps
<1>4. QED
  BY <1>1, <1>2, <1>3

(* What a request has in its slot, by its step. *)
LEMMA SlotAt ==
  ASSUME TypeOK, Slots, NEW r \in Requests
  PROVE  /\ req[r] \in Request /\ Slot(req[r])
         /\ req[r].step # "idle" => req[r].op # "idle" /\ req[r].name \in Names
         /\ req[r].step \in {"get", "getSlow"} => req[r].op \in {"create", "write"}
         /\ req[r].step = "insert" => req[r].op = "create"
         /\ req[r].step = "exec" => req[r].op = "write" /\ req[r].write \in Writes /\ req[r].handle \in Handles
         /\ req[r].step \in {"renameDb", "renameWal", "update"} =>
              req[r].op \in {"delete", "restore"} /\ req[r].to \in Names
         /\ req[r].step = "close" => req[r].op \in {"delete", "reset"}
         /\ req[r].step \in {"removeDb", "removeWal"} => req[r].op \in {"hardDelete", "reset"}
         /\ req[r].step \in {"removeDb2", "removeWal2"} => req[r].op = "reset"
         /\ req[r].step = "deleteRow" => req[r].op = "hardDelete"
<1>1. req[r] \in Request /\ Slot(req[r])
  BY DEF TypeOK, Slots
<1>2. req[r].op \in {"idle", "create", "write", "delete", "restore", "hardDelete", "reset"}
  BY <1>1 DEF Request, Ops, LifeCycle
<1>3. QED
  BY <1>1, <1>2 DEF Slot, IdleSlot

(* Requests start. *)
LEMMA StartTypes ==
  ASSUME TInv, NEW r \in Requests, StartRequest(r)
  PROVE  TInv'
<1> USE DEF TInv
<1>0. PICK n \in Names :
        \/ StartCreate(r, n) \/ StartDelete(r, n) \/ StartRestore(r, n)
        \/ StartHardDelete(r, n) \/ StartReset(r, n)
        \/ \E w \in Writes : StartWrite(r, n, w)
        \/ \E status \in {"active", "inactive"} : SetStatus(r, n, status)
  BY DEF StartRequest
<1>1. ASSUME NEW op \in Ops, NEW slot \in Request, StartWith(r, op, slot), Slot([slot EXCEPT !.op = op]),
             UNCHANGED <<rows, fs, data, pool, conn, clock, acked, gone, erased, torn>>,
             home' \in [Writes -> 0..MaxOps], \A w \in Writes : home'[w] \in Ids \cup {0},
             lastDelete' \in 0..MaxEpoch, op = "create" => home' = home
      PROVE  TInv'
  <2>1. /\ req' \in [Requests -> Request] /\ Slots'
        /\ req[r] = IdleSlot /\ req'[r] = [slot EXCEPT !.op = op]
        /\ \A q \in Requests \ {r} : req'[q] = req[q]
        /\ ops' \in 0..MaxOps /\ ops' = ops + 1
    BY <1>1, StartSlot
  <2>2. TypeOK'
    BY <1>1, <2>1 DEF TypeOK
  <2>3. Conns'
    BY <1>1 DEF Conns
  <2>4. Counted'
    <3>1. CASE op = "create"
      BY <1>1, <2>1, <3>1, CountedStarts
    <3>2. CASE op # "create"
      <4>1. req'[r].op = op
        BY <2>1 DEF Request
      <4>2. ops \in Nat /\ ops' \in Nat /\ ops' >= ops
        BY <2>1, BoundsAssumption DEF TypeOK
      <4>3. \A m \in Names : rows'[m].id \in Ids \cup {0}
        BY <1>1, IdsUsed
      <4>4. \A q \in Requests : req'[q].op = "create" => req[q].op = "create"
        BY <2>1, <3>2, <4>1
      <4>5. QED
        BY <1>1, <4>2, <4>3, <4>4, CountedKeeps
    <3>3. QED
      BY <3>1, <3>2
  <2>5. QED
    BY <2>1, <2>2, <2>3, <2>4
<1>2. home \in [Writes -> 0..MaxOps] /\ (\A w \in Writes : home[w] \in Ids \cup {0}) /\ lastDelete \in 0..MaxEpoch
  BY IdsUsed DEF TypeOK
<1>3. IdleSlot \in Request /\ LifeCycle \subseteq Ops /\ {"create", "write"} \subseteq Ops
  BY IdleIsRequest DEF Ops
<1>4. CASE StartCreate(r, n)
  <2> DEFINE slot == [IdleSlot EXCEPT !.step = "get", !.name = n, !.to = None]
  <2>1. StartWith(r, "create", slot) /\ Len(n) = 1
    BY <1>4 DEF StartCreate, Start, StartTo
  <2>2. slot \in Request /\ Slot([slot EXCEPT !.op = "create"])
    BY <1>3, <2>1 DEF Slot, Request, Steps, MaybeName, IdleSlot
  <2>3. QED
    BY <1>1, <1>2, <1>3, <1>4, <2>1, <2>2 DEF StartCreate
<1>5. CASE StartDelete(r, n)
  <2> DEFINE slot == [IdleSlot EXCEPT !.step = "renameDb", !.name = n, !.to = DeletedName(n)]
  <2>1. StartWith(r, "delete", slot) /\ Len(n) <= MaxNest /\ lastDelete' = clock
    BY <1>5 DEF StartDelete, StartTo
  <2>2. DeletedName(n) \in Names /\ clock \in 0..MaxEpoch
    BY <2>1, AppendName, BoundsAssumption DEF DeletedName, TypeOK, Epochs
  <2>3. slot \in Request /\ Slot([slot EXCEPT !.op = "delete"])
    BY <1>3, <2>2 DEF Slot, Request, Steps, MaybeName, IdleSlot
  <2>4. "delete" \in Ops
    BY DEF Ops, LifeCycle
  <2>5. UNCHANGED <<rows, fs, data, pool, conn, clock, acked, gone, erased, torn, home>>
    BY <1>5 DEF StartDelete
  <2>6. QED
    BY <1>1, <1>2, <2>1, <2>2, <2>3, <2>4, <2>5
<1>6. CASE StartRestore(r, n)
  <2> DEFINE slot == [IdleSlot EXCEPT !.step = "renameDb", !.name = n, !.to = rows[n].orig]
  <2>1. StartWith(r, "restore", slot) /\ rows[n].orig # None
    BY <1>6 DEF StartRestore, StartTo
  <2>2. rows[n].orig \in Names
    BY <2>1 DEF TypeOK, Row, MaybeName
  <2>3. slot \in Request /\ Slot([slot EXCEPT !.op = "restore"])
    BY <1>3, <2>2 DEF Slot, Request, Steps, MaybeName, IdleSlot
  <2>4. "restore" \in Ops
    BY DEF Ops, LifeCycle
  <2>5. UNCHANGED <<rows, fs, data, pool, conn, clock, acked, gone, erased, torn, home, lastDelete>>
    BY <1>6 DEF StartRestore
  <2>6. QED
    BY <1>1, <1>2, <2>1, <2>3, <2>4, <2>5
<1>7. CASE StartHardDelete(r, n)
  <2> DEFINE slot == [IdleSlot EXCEPT !.step = "removeDb", !.name = n, !.to = None]
  <2>1. StartWith(r, "hardDelete", slot)
    BY <1>7 DEF StartHardDelete, Start, StartTo
  <2>2. slot \in Request /\ Slot([slot EXCEPT !.op = "hardDelete"])
    BY <1>3 DEF Slot, Request, Steps, MaybeName, IdleSlot
  <2>3. "hardDelete" \in Ops
    BY DEF Ops, LifeCycle
  <2>4. UNCHANGED <<rows, fs, data, pool, conn, clock, acked, gone, erased, torn, home, lastDelete>>
    BY <1>7 DEF StartHardDelete
  <2>5. QED
    BY <1>1, <1>2, <2>1, <2>2, <2>3, <2>4
<1>8. CASE StartReset(r, n)
  <2> DEFINE slot == [IdleSlot EXCEPT !.step = "close", !.name = n, !.seen = Visible(n)]
  <2>1. StartWith(r, "reset", slot)
    BY <1>8 DEF StartReset
  <2>2. Visible(n) \subseteq Writes
    <3>1. \A i \in File : Content(i) \subseteq Writes
      BY NoneAssumption DEF Content, File, TypeOK
    <3>2. fs[n].db \in File /\ fs[n].wal \in File
      BY DEF TypeOK, Files
    <3>3. pool[n] # None => conn[pool[n]].db \in File /\ conn[pool[n]].wal \in File
      BY DEF TypeOK, Connection
    <3>4. QED
      BY <3>1, <3>2, <3>3 DEF Visible, FileContent
  <2>3. slot \in Request /\ Slot([slot EXCEPT !.op = "reset"])
    BY <1>3, <2>2 DEF Slot, Request, Steps, MaybeName, IdleSlot
  <2>4. "reset" \in Ops
    BY DEF Ops, LifeCycle
  <2>5. UNCHANGED <<rows, fs, data, pool, conn, clock, acked, gone, erased, torn, home, lastDelete>>
    BY <1>8 DEF StartReset
  <2>6. QED
    BY <1>1, <1>2, <2>1, <2>3, <2>4, <2>5
<1>9. ASSUME NEW w \in Writes, StartWrite(r, n, w) PROVE TInv'
  <2> DEFINE slot == [IdleSlot EXCEPT !.step = "get", !.name = n, !.write = w]
  <2>1. StartWith(r, "write", slot)
    BY <1>9 DEF StartWrite
  <2>2. slot \in Request /\ Slot([slot EXCEPT !.op = "write"])
    BY <1>3, <1>9 DEF Slot, Request, Steps, MaybeName, IdleSlot
  <2>3. home' = [home EXCEPT ![w] = rows[n].id]
    BY <1>9 DEF StartWrite
  <2>4. rows[n].id \in 0..MaxOps /\ rows[n].id \in Ids \cup {0}
    BY IdsUsed DEF TypeOK, Row
  <2>5. home' \in [Writes -> 0..MaxOps] /\ \A v \in Writes : home'[v] \in Ids \cup {0}
    BY <1>2, <2>3, <2>4
  <2>6. UNCHANGED <<rows, fs, data, pool, conn, clock, acked, gone, erased, torn, lastDelete>>
    BY <1>9 DEF StartWrite
  <2>7. "write" \in Ops /\ "write" # "create"
    BY <1>3
  <2>8. QED
    BY <1>1, <1>2, <2>1, <2>2, <2>5, <2>6, <2>7
<1>10. ASSUME NEW status \in {"active", "inactive"}, SetStatus(r, n, status) PROVE TInv'
  <2>1. /\ rows' = [rows EXCEPT ![n] = [rows[n] EXCEPT !.status = status]]
        /\ UNCHANGED <<fs, data, pool, conn, req, clock, History>>
        /\ ops < MaxOps /\ ops' = ops + 1
    BY <1>10 DEF SetStatus, MayStart
  <2>2. rows[n] \in Row
    BY DEF TypeOK
  <2>3. [rows[n] EXCEPT !.status = status] \in Row /\ [rows[n] EXCEPT !.status = status].id = rows[n].id
    BY <2>2 DEF Row
  <2>4. rows' \in [Names -> Row] /\ \A m \in Names : rows'[m].id = rows[m].id
    BY <2>1, <2>3 DEF TypeOK
  <2>5. ops \in Nat /\ ops' \in Nat /\ ops' \in 0..MaxOps /\ ops' >= ops
    BY <2>1, BoundsAssumption DEF TypeOK
  <2>6. TypeOK'
    BY <2>1, <2>4, <2>5 DEF TypeOK
  <2>7. Slots' /\ Conns'
    BY <2>1 DEF Slots, Conns
  <2>8. Counted'
    BY <2>1, <2>4, <2>5, IdsUsed, CountedKeeps
  <2>9. QED
    BY <2>6, <2>7, <2>8
<1>11. QED
  BY <1>0, <1>4, <1>5, <1>6, <1>7, <1>8, <1>9, <1>10

(* Pool.Get, with the insertion of the new row behind it. *)
LEMMA GetTypes ==
  ASSUME TInv, NEW r \in Requests, GetFast(r) \/ GetSlow(r) \/ InsertRow(r)
  PROVE  TInv'
<1> USE DEF TInv
<1> DEFINE n == req[r].name
<1>0. ops \in Nat /\ ops >= ops
  BY BoundsAssumption DEF TypeOK
<1>1. ASSUME req[r].step \in {"get", "getSlow"}, NEW h \in Handles, Got(r, h)
      PROVE  /\ req' \in [Requests -> Request] /\ Slots'
             /\ \A q \in Requests : req'[q].op = "create" => req[q].op = "create"
  <2>1. /\ req' \in [Requests -> Request] /\ Slots'
        /\ req'[r] = [[req[r] EXCEPT !.handle = h] EXCEPT !.step = IF req[r].op = "create" THEN "insert" ELSE "exec"]
        /\ \A q \in Requests \ {r} : req'[q] = req[q]
    BY <1>1, GotSlot
  <2>2. req'[r].op = req[r].op
    BY <2>1, SlotAt DEF Request
  <2>3. QED
    BY <2>1, <2>2
<1>2. CASE GetFast(r)
  <2>1. req[r].step = "get" /\ UNCHANGED <<rows, fs, data, pool, conn, clock, ops, History>>
    BY <1>2 DEF GetFast
  <2>2. n \in Names /\ req[r].op \in {"create", "write"}
    BY <2>1, SlotAt
  <2>3. /\ req' \in [Requests -> Request] /\ Slots'
        /\ \A q \in Requests : req'[q].op = "create" => req[q].op = "create"
    <3>1. CASE pool[n] # None
      <4>1. pool[n] \in Handles /\ Got(r, pool[n])
        BY <1>2, <2>2, <3>1 DEF GetFast, TypeOK
      <4>2. QED
        BY <1>1, <2>1, <4>1
    <3>2. CASE pool[n] = None
      <4>1. Goto(r, "get", "getSlow")
        BY <1>2, <3>2 DEF GetFast
      <4>2. Slot([req[r] EXCEPT !.step = "getSlow"])
        BY <2>2, SlotAt DEF Slot, Request
      <4>3. "get" \in Steps /\ "getSlow" \in Steps
        BY DEF Steps
      <4>4. /\ req' \in [Requests -> Request] /\ Slots'
            /\ req'[r] = [req[r] EXCEPT !.step = "getSlow"] /\ \A q \in Requests \ {r} : req'[q] = req[q]
        BY <4>1, <4>2, <4>3, GotoSlot
      <4>5. req'[r].op = req[r].op
        BY <4>4, SlotAt DEF Request
      <4>6. QED
        BY <4>4, <4>5
    <3>3. QED
      BY <3>1, <3>2
  <2>4. QED
    BY <2>1, <2>3, QuietTypes DEF TypeOK
<1>3. CASE GetSlow(r)
  <2>1. req[r].step = "getSlow" /\ UNCHANGED <<rows, clock, ops, History>>
    BY <1>3 DEF GetSlow
  <2>2. n \in Names
    BY <2>1, SlotAt
  <2>3. CASE pool[n] # None /\ Got(r, pool[n]) /\ UNCHANGED <<fs, data, pool, conn>>
    <3>1. pool[n] \in Handles
      BY <2>2, <2>3 DEF TypeOK
    <3>2. QED
      BY <1>1, <2>1, <2>3, <3>1, QuietTypes DEF TypeOK
  <2>4. ASSUME pool[n] = None, NEW h \in Handles, Unreferenced(h), OpenConn(h, n),
               pool' = [pool EXCEPT ![n] = h], Got(r, h)
        PROVE  TInv'
    <3>1. conn[h].state = "closed"
      BY <2>4 DEF Unreferenced, ClosedConn
    <3>2. Conns'
      BY <2>2, <2>4, <3>1, OpenConns
    <3>3. fs' \in [Names -> Files] /\ data' \in [Inodes -> SUBSET Writes] /\ conn' \in [Handles -> Connection]
      BY <2>2, <2>4, OpenEffect
    <3>4. pool' \in [Names -> Handles \cup {None}]
      BY <2>4 DEF TypeOK
    <3>5. TypeOK'
      BY <1>1, <2>1, <2>4, <3>3, <3>4 DEF TypeOK
    <3>6. Counted'
      BY <1>0, <1>1, <2>1, <2>4, IdsUsed, CountedKeeps
    <3>7. QED
      BY <1>1, <2>1, <2>4, <3>2, <3>5, <3>6
  <2>5. QED
    BY <1>3, <2>3, <2>4 DEF GetSlow
<1>4. CASE InsertRow(r)
  <2>1. req[r].step = "insert" /\ Finish(r) /\ UNCHANGED <<fs, data, pool, conn, clock, ops, History>>
    BY <1>4 DEF InsertRow
  <2>2. n \in Names /\ req[r].op = "create"
    BY <2>1, SlotAt
  <2>3. /\ req' \in [Requests -> Request] /\ Slots'
        /\ req'[r] = IdleSlot /\ \A q \in Requests \ {r} : req'[q] = req[q]
    BY <2>1, FinishSlot
  <2>4. Creating' = Creating \ {r} /\ r \in Creating
    BY <2>2, <2>3 DEF Creating, IdleSlot
  <2>5. FreshId \in 1..MaxOps /\ FreshId \notin Ids
    BY <2>2, IdIsLeft
  <2>6. CASE Exists(n)
    <3>1. rows' = rows
      BY <1>4, <2>6 DEF InsertRow
    <3>2. \A q \in Requests : req'[q].op = "create" => req[q].op = "create"
      BY <2>2, <2>3
    <3>3. QED
      BY <2>1, <2>3, <3>1, <3>2, QuietTypes DEF TypeOK
  <2>7. CASE ~Exists(n)
    <3> DEFINE row == [id |-> FreshId, status |-> "active", orig |-> None]
    <3>1. rows' = [rows EXCEPT ![n] = row]
      BY <1>4, <2>7 DEF InsertRow
    <3>2. row \in Row /\ row.id = FreshId
      BY <2>5, BoundsAssumption DEF Row, MaybeName
    <3>3. rows' \in [Names -> Row] /\ rows'[n].id = FreshId /\ \A m \in Names \ {n} : rows'[m] = rows[m]
      BY <2>2, <3>1, <3>2 DEF TypeOK
    <3>4. TypeOK'
      BY <2>1, <2>3, <3>3 DEF TypeOK
    <3>5. Conns'
      BY <2>1 DEF Conns
    <3>6. Ids' \subseteq Ids \cup {FreshId}
      BY <2>1, <3>3 DEF Ids
    <3>7. IsFiniteSet(Ids) /\ IsFiniteSet(Creating)
      BY DEF Counted
    <3>8. /\ IsFiniteSet(Ids \cup {FreshId}) /\ Cardinality(Ids \cup {FreshId}) = Cardinality(Ids) + 1
          /\ IsFiniteSet(Creating \ {r}) /\ Cardinality(Creating \ {r}) = Cardinality(Creating) - 1
      BY <2>4, <2>5, <3>7, FS_AddElement, FS_RemoveElement
    <3>9. IsFiniteSet(Ids') /\ Cardinality(Ids') <= Cardinality(Ids \cup {FreshId})
      BY <3>6, <3>8, FS_Subset
    <3>10. Cardinality(Ids) \in Nat /\ Cardinality(Creating) \in Nat /\ Cardinality(Ids') \in Nat
      BY <3>7, <3>9, FS_CardinalityType
    <3>11. Counted'
      BY <1>0, <2>1, <2>4, <3>8, <3>9, <3>10 DEF Counted
    <3>12. QED
      BY <2>3, <3>4, <3>5, <3>11
  <2>8. QED
    BY <2>6, <2>7
<1>5. QED
  BY <1>2, <1>3, <1>4

(* The write, on the handle it was queued with. *)
LEMMA WriteTypes ==
  ASSUME TInv, NEW r \in Requests, Reconnect(r) \/ ExecWrite(r) \/ ExecClosed(r)
  PROVE  TInv'
<1> USE DEF TInv
<1>0. ops \in Nat /\ ops >= ops
  BY BoundsAssumption DEF TypeOK
<1>1. /\ req[r].step = "exec" /\ req[r].op = "write"
      /\ req[r].write \in Writes /\ req[r].handle \in Handles
  BY SlotAt DEF Reconnect, ExecWrite, ExecClosed
<1>2. CASE Reconnect(r)
  <2> DEFINE h == req[r].handle
             n == conn[h].name
  <2>1. conn[h].state = "idle" /\ OpenConn(h, n) /\ UNCHANGED <<rows, pool, req, clock, ops, History>>
    BY <1>2 DEF Reconnect
  <2>2. n \in Names /\ pool[n] = h
    BY <1>1, <2>1 DEF Conns
  <2>3. pool' = [pool EXCEPT ![n] = h]
    BY <2>1, <2>2 DEF TypeOK
  <2>4. Conns'
    BY <1>1, <2>1, <2>2, <2>3, OpenConns
  <2>5. fs' \in [Names -> Files] /\ data' \in [Inodes -> SUBSET Writes] /\ conn' \in [Handles -> Connection]
    BY <1>1, <2>1, <2>2, OpenEffect
  <2>6. TypeOK'
    BY <2>1, <2>5 DEF TypeOK
  <2>7. Slots'
    BY <2>1 DEF Slots
  <2>8. Counted'
    BY <1>0, <2>1, IdsUsed, CountedKeeps
  <2>9. QED
    BY <2>4, <2>6, <2>7, <2>8
<1>3. CASE ExecWrite(r) \/ ExecClosed(r)
  <2>1. Finish(r) /\ UNCHANGED <<rows, fs, pool, conn, clock, ops, gone, erased, home, lastDelete, torn>>
    BY <1>3 DEF ExecWrite, ExecClosed
  <2>2. /\ req' \in [Requests -> Request] /\ Slots'
        /\ req'[r] = IdleSlot /\ \A q \in Requests \ {r} : req'[q] = req[q]
    BY <2>1, FinishSlot
  <2>3. \A q \in Requests : req'[q].op = "create" => req[q].op = "create"
    BY <2>2 DEF IdleSlot
  <2>4. data' \in [Inodes -> SUBSET Writes] /\ acked' \subseteq Writes
    <3>1. CASE ExecWrite(r)
      <4>1. /\ data' = [data EXCEPT ![conn[req[r].handle].wal] = @ \cup {req[r].write}]
            /\ acked' = acked \cup {req[r].write}
        BY <3>1 DEF ExecWrite
      <4>2. QED
        BY <1>1, <4>1 DEF TypeOK
    <3>2. CASE ExecClosed(r)
      BY <3>2 DEF ExecClosed, TypeOK
    <3>3. QED
      BY <1>3, <3>1, <3>2
  <2>5. QED
    BY <2>1, <2>2, <2>3, <2>4, QuietTypes DEF TypeOK
<1>4. QED
  BY <1>2, <1>3

(* The steps of the life-cycle requests. *)
LEMMA LifeCycleTypes ==
  ASSUME TInv, NEW r \in Requests,
         \/ RenameDb(r) \/ RenameWal(r) \/ ClosePooled(r) \/ UpdateRow(r)
         \/ RemoveDb(r) \/ RemoveWal(r) \/ FinishReset(r) \/ DeleteRow(r)
  PROVE  TInv'
<1> USE DEF TInv
<1> DEFINE n == req[r].name
           to == req[r].to
<1>0. ops \in Nat /\ ops >= ops
  BY BoundsAssumption DEF TypeOK
<1>1. n \in Names /\ req[r] \in Request /\ Slot(req[r])
  <2>1. req[r].step # "idle"
    BY DEF RenameDb, RenameWal, ClosePooled, UpdateRow, RemoveDb, RemoveWal, FinishReset, DeleteRow, Goto
  <2>2. QED
    BY <2>1, SlotAt
<1>2. ASSUME NEW from \in Steps, NEW step \in Steps, Goto(r, from, step), Slot([req[r] EXCEPT !.step = step])
      PROVE  /\ req' \in [Requests -> Request] /\ Slots'
             /\ \A q \in Requests : req'[q].op = "create" => req[q].op = "create"
  <2>1. /\ req' \in [Requests -> Request] /\ Slots'
        /\ req'[r] = [req[r] EXCEPT !.step = step] /\ \A q \in Requests \ {r} : req'[q] = req[q]
    BY <1>2, GotoSlot
  <2>2. req'[r].op = req[r].op
    BY <1>1, <2>1 DEF Request
  <2>3. QED
    BY <2>1, <2>2
<1>3. ASSUME Finish(r)
      PROVE  /\ req' \in [Requests -> Request] /\ Slots'
             /\ \A q \in Requests : req'[q].op = "create" => req[q].op = "create"
  <2>1. /\ req' \in [Requests -> Request] /\ Slots'
        /\ req'[r] = IdleSlot /\ \A q \in Requests \ {r} : req'[q] = req[q]
    BY <1>3, FinishSlot
  <2>2. QED
    BY <2>1 DEF IdleSlot
<1>4. fs[n] \in Files /\ fs[n].db \in File /\ fs[n].wal \in File
  BY <1>1 DEF TypeOK, Files
<1>5. NoFiles \in Files /\ None \in File
  BY DEF NoFiles, Files, File
<1>6. CASE RenameDb(r)
  <2>1. /\ Goto(r, "renameDb", "renameWal") /\ req[r].step = "renameDb"
        /\ UNCHANGED <<rows, data, pool, conn, clock, ops, History>>
    BY <1>6 DEF RenameDb, Goto
  <2>2. req[r].op \in {"delete", "restore"} /\ to \in Names
    BY <2>1, SlotAt
  <2>3. Slot([req[r] EXCEPT !.step = "renameWal"])
    BY <1>1, <2>2 DEF Slot, Request
  <2>4. fs' \in [Names -> Files]
    BY <1>4, <1>5, <1>6, <2>2 DEF RenameDb, TypeOK, Files
  <2>5. "renameDb" \in Steps /\ "renameWal" \in Steps
    BY DEF Steps
  <2>6. QED
    BY <1>2, <2>1, <2>3, <2>4, <2>5, QuietTypes DEF TypeOK
<1>7. CASE RenameWal(r)
  <2> DEFINE step == IF req[r].op = "delete" THEN "close" ELSE "update"
  <2>1. /\ Goto(r, "renameWal", step) /\ req[r].step = "renameWal"
        /\ UNCHANGED <<rows, data, pool, conn, clock, ops, History>>
    BY <1>7 DEF RenameWal, Goto
  <2>2. req[r].op \in {"delete", "restore"} /\ to \in Names
    BY <2>1, SlotAt
  <2>3. Slot([req[r] EXCEPT !.step = step])
    BY <1>1, <2>2 DEF Slot, Request
  <2>4. fs' \in [Names -> Files]
    BY <1>4, <1>5, <1>7, <2>2 DEF RenameWal, TypeOK, Files
  <2>5. "renameWal" \in Steps /\ step \in Steps
    BY DEF Steps
  <2>6. QED
    BY <1>2, <2>1, <2>3, <2>4, <2>5, QuietTypes DEF TypeOK
<1>8. CASE ClosePooled(r)
  <2> DEFINE step == IF req[r].op = "delete" THEN "update" ELSE "removeDb"
  <2>1. /\ Goto(r, "close", step) /\ req[r].step = "close"
        /\ pool' = [pool EXCEPT ![n] = None]
        /\ UNCHANGED <<rows, clock, ops, History>>
    BY <1>8 DEF ClosePooled, Goto
  <2>2. req[r].op \in {"delete", "reset"}
    BY <2>1, SlotAt
  <2>3. Slot([req[r] EXCEPT !.step = step])
    BY <1>1, <2>2 DEF Slot, Request
  <2>4. "close" \in Steps /\ step \in Steps
    BY DEF Steps
  <2>5. /\ req' \in [Requests -> Request] /\ Slots'
        /\ \A q \in Requests : req'[q].op = "create" => req[q].op = "create"
    BY <1>2, <2>1, <2>3, <2>4
  <2>6. pool' \in [Names -> Handles \cup {None}]
    BY <2>1 DEF TypeOK
  <2>7. /\ fs' \in [Names -> Files] /\ data' \in [Inodes -> SUBSET Writes] /\ conn' \in [Handles -> Connection]
        /\ Conns'
    <3>1. CASE pool[n] = None
      <4>1. UNCHANGED <<fs, data, conn>> /\ pool' = pool
        BY <1>1, <1>8, <2>1, <3>1 DEF ClosePooled, TypeOK
      <4>2. QED
        BY <4>1 DEF TypeOK, Conns
    <3>2. CASE pool[n] # None
      <4>1. CloseConn(pool[n], ClosedConn)
        BY <1>8, <3>2 DEF ClosePooled
      <4>2. pool[n] \in Handles /\ conn[pool[n]].state # "closed"
        BY <1>1, <3>2 DEF TypeOK, Conns
      <4>3. ClosedConn \in Connection
        BY DEF ClosedConn, Connection, MaybeName, File
      <4>4. QED
        BY <1>1, <2>1, <3>2, <4>1, <4>2, <4>3, CloseEffect, CloseConns
    <3>3. QED
      BY <3>1, <3>2
  <2>8. TypeOK'
    BY <2>1, <2>5, <2>6, <2>7 DEF TypeOK
  <2>9. Counted'
    BY <1>0, <2>1, <2>5, IdsUsed, CountedKeeps
  <2>10. QED
    BY <2>5, <2>7, <2>8, <2>9
<1>9. CASE UpdateRow(r) \/ DeleteRow(r)
  <2>1. Finish(r) /\ UNCHANGED <<fs, data, pool, conn, clock, ops, History>>
    BY <1>9 DEF UpdateRow, DeleteRow
  <2>2. NoRow \in Row /\ NoRow.id = 0
    BY BoundsAssumption DEF NoRow, Row, MaybeName
  <2>3. rows[n] \in Row
    BY <1>1 DEF TypeOK
  <2>4. rows' \in [Names -> Row] /\ \A m \in Names : rows'[m].id \in Ids \cup {0}
    <3>1. CASE UpdateRow(r)
      <4> DEFINE deleted == [rows[n] EXCEPT !.status = "deleted", !.orig = n]
                 active == [rows[n] EXCEPT !.status = "active", !.orig = None]
                 row == IF req[r].op = "delete" THEN deleted ELSE active
      <4>1. /\ deleted \in Row /\ deleted.id = rows[n].id
            /\ active \in Row /\ active.id = rows[n].id
        BY <1>1, <2>3 DEF Row, MaybeName
      <4>2. row \in Row /\ row.id = rows[n].id
        BY <4>1
      <4>3. rows' = IF Exists(n) /\ ~Exists(to) THEN [rows EXCEPT ![n] = NoRow, ![to] = row] ELSE rows
        BY <3>1 DEF UpdateRow
      <4>4. to \in Names
        BY <3>1, SlotAt DEF UpdateRow
      <4> HIDE DEF row
      <4>5. QED
        BY <1>1, <2>2, <4>2, <4>3, <4>4, IdsUsed DEF TypeOK
    <3>2. CASE DeleteRow(r)
      BY <2>2, <3>2, IdsUsed DEF DeleteRow, TypeOK
    <3>3. QED
      BY <1>9, <3>1, <3>2
  <2>5. TypeOK'
    BY <1>3, <2>1, <2>4 DEF TypeOK
  <2>6. Conns'
    BY <2>1 DEF Conns
  <2>7. Counted'
    BY <1>0, <1>3, <2>1, <2>4, IdsUsed, CountedKeeps
  <2>8. QED
    BY <1>3, <2>1, <2>5, <2>6, <2>7
<1>10. CASE RemoveDb(r)
  <2>1. /\ \/ Goto(r, "removeDb", "removeWal") /\ req[r].step = "removeDb"
           \/ Goto(r, "removeDb2", "removeWal2") /\ req[r].step = "removeDb2"
        /\ UNCHANGED <<rows, data, pool, conn, clock, ops, acked, erased, home, lastDelete, torn>>
    BY <1>10 DEF RemoveDb, Goto
  <2>2. \/ req[r].step = "removeDb" /\ req[r].op \in {"hardDelete", "reset"}
        \/ req[r].step = "removeDb2" /\ req[r].op = "reset"
    BY <2>1, SlotAt
  <2>3. /\ req[r].step = "removeDb" => Slot([req[r] EXCEPT !.step = "removeWal"])
        /\ req[r].step = "removeDb2" => Slot([req[r] EXCEPT !.step = "removeWal2"])
    BY <1>1, <2>2 DEF Slot, Request
  <2>4. {"removeDb", "removeWal", "removeDb2", "removeWal2"} \subseteq Steps
    BY DEF Steps
  <2>5. fs' \in [Names -> Files]
    BY <1>4, <1>5, <1>10 DEF RemoveDb, TypeOK, Files
  <2>6. FileContent(n) \subseteq Writes
    BY <1>4, NoneAssumption DEF FileContent, Content, File, TypeOK
  <2>7. gone' \subseteq Writes
    BY <1>10, <2>6 DEF RemoveDb, TypeOK
  <2>8. /\ req' \in [Requests -> Request] /\ Slots'
        /\ \A q \in Requests : req'[q].op = "create" => req[q].op = "create"
    BY <1>2, <2>1, <2>3, <2>4
  <2>9. QED
    BY <2>1, <2>5, <2>7, <2>8, QuietTypes DEF TypeOK
<1>11. CASE RemoveWal(r)
  <2> DEFINE step == IF req[r].op = "reset" THEN "removeDb2" ELSE "deleteRow"
  <2>1. /\ Goto(r, "removeWal", step) /\ req[r].step = "removeWal"
        /\ UNCHANGED <<rows, data, pool, conn, clock, ops, History>>
    BY <1>11 DEF RemoveWal, Goto
  <2>2. req[r].op \in {"hardDelete", "reset"}
    BY <2>1, SlotAt
  <2>3. Slot([req[r] EXCEPT !.step = step])
    BY <1>1, <2>2 DEF Slot, Request
  <2>4. fs' \in [Names -> Files]
    BY <1>4, <1>5, <1>11 DEF RemoveWal, TypeOK, Files
  <2>5. "removeWal" \in Steps /\ step \in Steps
    BY DEF Steps
  <2>6. QED
    BY <1>2, <2>1, <2>3, <2>4, <2>5, QuietTypes DEF TypeOK
<1>12. CASE FinishReset(r)
  <2>1. Finish(r) /\ UNCHANGED <<rows, data, pool, conn, clock, ops, acked, gone, home, lastDelete, torn>>
    BY <1>12 DEF FinishReset
  <2>2. fs' \in [Names -> Files]
    BY <1>4, <1>5, <1>12 DEF FinishReset, TypeOK, Files
  <2>3. erased' \subseteq Writes
    BY <1>1, <1>12 DEF FinishReset, TypeOK, Request
  <2>4. QED
    BY <1>3, <2>1, <2>2, <2>3, QuietTypes DEF TypeOK
<1>13. QED
  BY <1>6, <1>7, <1>8, <1>9, <1>10, <1>11, <1>12

(* Time, idle connections and crashes. *)
LEMMA OtherTypes ==
  ASSUME TInv, Tick \/ Crash \/ (\E h \in Handles : IdleClose(h)) \/ UNCHANGED vars
  PROVE  TInv'
<1> USE DEF TInv
<1>0. ops \in Nat /\ ops >= ops
  BY BoundsAssumption DEF TypeOK
<1>1. CASE UNCHANGED vars
  <2>1. UNCHANGED <<rows, fs, data, pool, conn, req, clock, ops, History>>
    BY <1>1 DEF vars
  <2>2. TypeOK' /\ Slots' /\ Conns'
    BY <2>1 DEF TypeOK, Slots, Conns
  <2>3. Counted'
    BY <1>0, <2>1, IdsUsed, CountedKeeps
  <2>4. QED
    BY <2>2, <2>3
<1>2. CASE Tick
  <2>1. clock < MaxEpoch /\ clock' = clock + 1 /\ UNCHANGED <<rows, fs, data, pool, conn, req, ops, History>>
    BY <1>2 DEF Tick
  <2>2. clock' \in Epochs
    BY <2>1, BoundsAssumption DEF TypeOK, Epochs
  <2>3. TypeOK' /\ Slots' /\ Conns'
    BY <2>1, <2>2 DEF TypeOK, Slots, Conns
  <2>4. Counted'
    BY <1>0, <2>1, IdsUsed, CountedKeeps
  <2>5. QED
    BY <2>3, <2>4
<1>3. CASE Crash
  <2>1. /\ pool' = [n \in Names |-> None] /\ conn' = [h \in Handles |-> ClosedConn]
        /\ req' = [q \in Requests |-> IdleSlot]
        /\ UNCHANGED <<rows, fs, data, clock, ops, acked, gone, erased, home, lastDelete>>
        /\ torn' \in BOOLEAN
    BY <1>3 DEF Crash, TypeOK
  <2>2. ClosedConn \in Connection /\ ClosedConn.state = "closed"
    BY DEF ClosedConn, Connection, MaybeName, File
  <2>3. TypeOK'
    BY <2>1, <2>2, IdleIsRequest DEF TypeOK
  <2>4. Slots' /\ Conns'
    BY <2>1, <2>2, IdleIsRequest DEF Slots, Conns
  <2>5. Counted'
    BY <1>0, <2>1, IdsUsed, CountedKeeps DEF IdleSlot
  <2>6. QED
    BY <2>3, <2>4, <2>5
<1>4. ASSUME NEW h \in Handles, IdleClose(h) PROVE TInv'
  <2>1. UNCHANGED <<rows, pool, req, clock, ops, History>>
    BY <1>4 DEF IdleClose
  <2>2. /\ Conns'
        /\ fs' \in [Names -> Files] /\ data' \in [Inodes -> SUBSET Writes] /\ conn' \in [Handles -> Connection]
    BY <1>4, IdleConns
  <2>3. TypeOK' /\ Slots'
    BY <2>1, <2>2 DEF TypeOK, Slots
  <2>4. Counted'
    BY <1>0, <2>1, IdsUsed, CountedKeeps
  <2>5. QED
    BY <2>2, <2>3, <2>4
<1>5. QED
  BY <1>1, <1>2, <1>3, <1>4

(* So every step keeps the invariant, *)
LEMMA NextTypes == TInv /\ [Next]_vars => TInv'
<1> SUFFICES ASSUME TInv, [Next]_vars PROVE TInv'
  OBVIOUS
<1>1. CASE Next
  BY <1>1, StartTypes, GetTypes, WriteTypes, LifeCycleTypes, OtherTypes DEF Next, Step
<1>2. CASE UNCHANGED vars
  BY <1>2, OtherTypes
<1>3. QED
  BY <1>1, <1>2

-----------------------------------------------------------------------------
(* and it holds always. *)
LEMMA TypesInvariant == Spec => []TInv
BY InitTypes, NextTypes, PTL DEF Spec

(* Every variable of the life cycle keeps its type: a new row always finds an
   unused id, a deleted database's name stays within the names, and a file
   that is opened is one. *)
THEOREM LifeCycleTypesHold == Spec => []TypeOK
<1>1. TInv => TypeOK
  BY DEF TInv
<1>2. QED
  BY <1>1, TypesInvariant, PTL

(* Whatever requests, crashes and idle time do, a name has one connection that
   is not closed, and the pool has it. *)
THEOREM NoLeakedConnectionHolds == Spec => []NoLeakedConnection
<1>1. TInv => NoLeakedConnection
  BY DEF TInv, Conns, NoLeakedConnection
<1>2. QED
  BY <1>1, TypesInvariant, PTL

-----------------------------------------------------------------------------
(* What a database shows, when operators are careful *)

(* Requests *)

\* A life-cycle request finds no other request, and keeps them out.
Alone == \A r, q \in Requests : req[r].op \in LifeCycle /\ q # r => req[q].op = "idle"

(* Names *)

\* No row is under n, and the deletes to come are later than its last one.
Spent(n) ==
  /\ Len(n) > 1 /\ n[Len(n)] <= lastDelete
  /\ \A m \in Names : Exists(m) => ~Under(n, m)

Ahead(n) == Len(n) > 1 /\ n[Len(n)] > lastDelete

\* Ids and lineages (a slug and its first delete) are those of one row.
Rows ==
  /\ \A n \in Names : rows[n].status = "none" => rows[n] = NoRow
  /\ \A n \in Names : Exists(n) => rows[n].id # 0
  /\ \A n, m \in Names : Exists(n) /\ Exists(m) /\ rows[n].id = rows[m].id => n = m
  /\ \A n \in Names : Exists(n) => \A i \in 2..Len(n) : n[i] <= lastDelete
  /\ \A n, m \in Names : Exists(n) /\ Exists(m) /\ Len(n) > 1 /\ Len(m) > 1 /\ n[1] = m[1] /\ n[2] = m[2] => n = m
  /\ \A n \in Names : rows[n].orig # None => \E e \in Epochs : n = Append(rows[n].orig, e)
  /\ \A n \in Names : rows[n].status = "deleted" => Len(n) > 1
  /\ lastDelete <= clock

\* A name that a later delete will give has no files and no connection.
Untouched == \A n \in Names : Ahead(n) => fs[n] = NoFiles /\ pool[n] = None

\* What a request relies on from one step to the next.
Pending(r) ==
  LET s == req[r] IN
  /\ s.op # "write" => s.write = None
  /\ s.op = "write" =>
       /\ Exists(s.name) /\ home[s.write] = rows[s.name].id /\ s.write \notin acked
       /\ \A q \in Requests : req[q].write = s.write => q = r
       /\ s.step = "exec" => pool[s.name] = s.handle
  /\ s.op = "delete" =>
       /\ s.to = Append(s.name, lastDelete) /\ lastDelete \in Epochs
       /\ \A m \in Names : Exists(m) => \A i \in 2..Len(m) : m[i] < lastDelete
       /\ s.step = "close" => fs[s.name].wal = None
       /\ s.step = "update" => pool[s.name] = None
  /\ s.op = "restore" => \E e \in Epochs : s.name = Append(s.to, e)
  /\ s.op \in {"delete", "restore"} =>
       /\ ~Exists(s.to) /\ pool[s.to] = None
       /\ s.step # "renameDb" => fs[s.name].db = None
  /\ s.op = "hardDelete" => Len(s.name) > 1
  /\ s.op = "reset" /\ s.step # "close" => pool[s.name] = None
  /\ s.op \in LifeCycle => Exists(s.name)
  /\ s.step = "removeWal" => fs[s.name].db = None
  /\ s.step \in {"update", "deleteRow", "removeDb2", "removeWal2"} => fs[s.name] = NoFiles

Requested == \A r \in Requests : Pending(r)

(* Files *)

Holds(n, i) == i = fs[n].db \/ i = fs[n].wal
Named(i) == \E n \in Names : Holds(n, i)

\* A file has one name, and an acknowledged write is in one named file.
Disk ==
  /\ \A n, m \in Names : fs[n].db # None /\ fs[n].db = fs[m].db => n = m
  /\ \A n, m \in Names : fs[n].wal # None /\ fs[n].wal = fs[m].wal => n = m
  /\ \A n, m \in Names : fs[n].db # None => fs[n].db # fs[m].wal
  /\ \A i \in Inodes : data[i] \subseteq acked
  /\ \A i, j \in Inodes : Named(i) /\ Named(j) /\ i # j => data[i] \cap data[j] = {}

Open(n) == pool[n] # None /\ conn[pool[n]].state = "open"
Matches(n) == Open(n) => fs[n].db = conn[pool[n]].db /\ fs[n].wal = conn[pool[n]].wal
Half(n) == \E r \in Requests : HalfDone(r) /\ req[r].name = n

\* A pooled connection has the files of its name, but for a name being given up
\* or given up for good.
Pooled ==
  /\ \A n \in Names : Matches(n) \/ Half(n) \/ (Spent(n) /\ fs[n] = NoFiles)
  /\ \A n \in Names : pool[n] # None =>
       Exists(n) \/ Spent(n) \/ \E r \in Requests : req[r].op = "create" /\ req[r].name = n

(* Contents *)

Due(n) == {w \in acked \ gone : home[w] = rows[n].id}

\* The files of n hold what is due to its row, all of it, or nothing.
Settled(n) ==
  /\ fs[n].db = None => fs[n].wal = None
  /\ FileContent(n) = IF Exists(n) THEN Due(n) ELSE {}

\* Between two steps of a request on n, its row's content is where the steps put it.
Split(op, step, n, to) ==
  /\ step = "renameWal" =>
       /\ Content(fs[to].wal) = {} /\ Content(fs[to].db) \cup Content(fs[n].wal) = Due(n)
       /\ fs[n].wal # None => fs[to].db # None
       /\ fs[to].db = None => fs[to].wal = None
  /\ step = "update" \/ (op = "delete" /\ step = "close") =>
       FileContent(to) = Due(n) /\ (fs[to].db = None => fs[to].wal = None)
  /\ step \in {"removeWal", "deleteRow"} => Due(n) = {}

Between(r) == Split(req[r].op, req[r].step, req[r].name, req[r].to)

Involved(n) == \E r \in Requests : HalfDone(r) /\ n \in {req[r].name, req[r].to}

Contents ==
  /\ gone \subseteq acked
  /\ \A w \in acked : home[w] # 0
  /\ ~torn =>
       /\ \A n \in Names : Involved(n) \/ Settled(n)
       /\ \A r \in Requests : HalfDone(r) => Between(r)

\* What a reset erased is in no file that has a name or that a connection of a
\* registered database has; nor will what a running one has seen be elsewhere.
Erased ==
  /\ erased \subseteq acked
  /\ \A i \in Inodes : Named(i) => data[i] \cap erased = {}
  /\ \A n \in Names : Exists(n) /\ Open(n) =>
       (data[conn[pool[n]].db] \cup data[conn[pool[n]].wal]) \cap erased = {}
  /\ \A r \in Requests : req[r].op = "reset" =>
       /\ req[r].seen \subseteq acked
       /\ \A i \in Inodes : Named(i) /\ ~Holds(req[r].name, i) => data[i] \cap req[r].seen = {}

-----------------------------------------------------------------------------
(* What each action changes, in the terms of the invariant *)

USE DEF History

DInv == TInv /\ Alone /\ Rows /\ Untouched /\ Requested /\ Disk /\ Pooled /\ Contents /\ Erased

Others(r) == \A q \in Requests \ {r} : req'[q] = req[q]

\* Request r goes on to another step, ends, or begins.
Moves(r, step) ==
  /\ Others(r) /\ req'[r].step = step
  /\ req'[r].op = req[r].op /\ req'[r].name = req[r].name /\ req'[r].to = req[r].to
  /\ req'[r].write = req[r].write /\ req'[r].seen = req[r].seen
Ends(r) == Others(r) /\ req'[r] = IdleSlot
Begins(r, op, n, step) ==
  /\ Others(r) /\ req[r] = IdleSlot
  /\ req'[r].op = op /\ req'[r].name = n /\ req'[r].step = step
  /\ \A q \in Requests : req[q].op \notin LifeCycle
  /\ op \in LifeCycle => \A q \in Requests : req[q].op = "idle"

\* Goto moves a request on and leaves the rest of its slot.
LEMMA GotoMoves ==
  ASSUME TInv, NEW r \in Requests, NEW from, NEW to \in Steps, Goto(r, from, to)
  PROVE  Moves(r, to) /\ req[r].step = from
<1>1. req[r] \in Request
  BY DEF TInv, TypeOK
<1>2. req' = [req EXCEPT ![r] = [req[r] EXCEPT !.step = to]] /\ req[r].step = from
  BY DEF TInv, TypeOK, Goto
<1>3. req'[r] = [req[r] EXCEPT !.step = to] /\ Others(r)
  BY <1>2 DEF TInv, TypeOK, Others
<1>4. QED
  BY <1>1, <1>2, <1>3 DEF Moves, Request

\* So does Got, which also gives it a handle.
LEMMA GotMoves ==
  ASSUME TInv, NEW r \in Requests, NEW h \in Handles, Got(r, h), req[r].step \in {"get", "getSlow"}
  PROVE  /\ Moves(r, IF req[r].op = "create" THEN "insert" ELSE "exec") /\ req'[r].handle = h
         /\ req[r].op \in {"create", "write"}
<1>1. req[r] \in Request /\ req[r].op \in {"create", "write"}
  BY SlotAt DEF TInv
<1>2. /\ req'[r] = [[req[r] EXCEPT !.handle = h] EXCEPT !.step = IF req[r].op = "create" THEN "insert" ELSE "exec"]
      /\ Others(r)
  BY GotSlot DEF TInv, Others
<1>3. QED
  BY <1>1, <1>2 DEF Moves, Request

\* Finish ends a request.
LEMMA FinishEnds ==
  ASSUME TInv, NEW r \in Requests, Finish(r)
  PROVE  Ends(r)
BY FinishSlot DEF TInv, Ends, Others

\* A careful start finds no life-cycle request, and a life-cycle request no other.
LEMMA StartBegins ==
  ASSUME TInv, Careful, NEW r \in Requests, NEW op \in Ops, op # "idle", NEW slot \in Request, StartWith(r, op, slot)
  PROVE  /\ Begins(r, op, slot.name, slot.step)
         /\ req'[r].to = slot.to /\ req'[r].write = slot.write /\ req'[r].seen = slot.seen
<1>1. /\ req[r].op = "idle" /\ req' = [req EXCEPT ![r] = [slot EXCEPT !.op = op]]
      /\ \A q \in Requests : req[q].op \notin LifeCycle
      /\ op \in LifeCycle => \A q \in Requests : req[q].op = "idle"
  BY DEF StartWith, MayStart
<1>2. req[r] = IdleSlot
  BY <1>1 DEF TInv, Slots, Slot
<1>3. req'[r] = [slot EXCEPT !.op = op] /\ Others(r)
  BY <1>1 DEF TInv, TypeOK, Others
<1>4. QED
  BY <1>1, <1>2, <1>3 DEF Begins, Request

(* Requests that start *)

\* CreateDB begins on a slug that no row has.
LEMMA StartCreateEffect ==
  ASSUME TInv, Careful, NEW r \in Requests, NEW n \in Names, StartCreate(r, n)
  PROVE  /\ Begins(r, "create", n, "get") /\ req'[r].to = None /\ req'[r].write = None /\ ~Exists(n) /\ Len(n) = 1
         /\ UNCHANGED <<rows, fs, data, pool, conn, clock, History>>
<1> DEFINE slot == [IdleSlot EXCEPT !.step = "get", !.name = n, !.to = None]
<1>1. /\ StartWith(r, "create", slot) /\ ~Exists(n) /\ Len(n) = 1
      /\ UNCHANGED <<rows, fs, data, pool, conn, clock, History>>
  BY DEF StartCreate, Start, StartTo
<1>2. IdleSlot \in Request /\ "create" \in Ops /\ IdleSlot.write = None
  BY IdleIsRequest DEF Ops, IdleSlot
<1>3. slot \in Request /\ slot.name = n /\ slot.step = "get" /\ slot.to = None /\ slot.write = None
  BY <1>2 DEF Request, Steps, MaybeName
<1>4. QED
  BY <1>1, <1>2, <1>3, StartBegins

\* A write begins on a registered database, whose row it remembers.
LEMMA StartWriteEffect ==
  ASSUME TInv, Careful, NEW r \in Requests, NEW n \in Names, NEW w \in Writes, StartWrite(r, n, w)
  PROVE  /\ Begins(r, "write", n, "get") /\ req'[r].to = None /\ req'[r].write = w
         /\ Exists(n) /\ home[w] = 0
         /\ home' \in [Writes -> 0..MaxOps] /\ home'[w] = rows[n].id /\ \A v \in Writes \ {w} : home'[v] = home[v]
         /\ UNCHANGED <<rows, fs, data, pool, conn, clock, acked, gone, erased, lastDelete, torn>>
<1> DEFINE slot == [IdleSlot EXCEPT !.step = "get", !.name = n, !.write = w]
<1>1. /\ StartWith(r, "write", slot) /\ Exists(n) /\ home[w] = 0 /\ home' = [home EXCEPT ![w] = rows[n].id]
      /\ UNCHANGED <<rows, fs, data, pool, conn, clock, acked, gone, erased, lastDelete, torn>>
  BY DEF StartWrite
<1>2. IdleSlot \in Request /\ "write" \in Ops /\ IdleSlot.to = None
  BY IdleIsRequest DEF Ops, IdleSlot
<1>3. slot \in Request /\ slot.name = n /\ slot.step = "get" /\ slot.to = None /\ slot.write = w
  BY <1>2 DEF Request, Steps, MaybeName
<1>4. rows[n].id \in 0..MaxOps /\ home \in [Writes -> 0..MaxOps]
  BY DEF TInv, TypeOK, Row
<1>5. QED
  BY <1>1, <1>2, <1>3, <1>4, StartBegins

\* A soft delete begins with a name no earlier delete gave.
LEMMA StartDeleteEffect ==
  ASSUME TInv, Careful, NEW r \in Requests, NEW n \in Names, StartDelete(r, n)
  PROVE  /\ Begins(r, "delete", n, "renameDb") /\ req'[r].to = Append(n, clock) /\ req'[r].write = None
         /\ Append(n, clock) \in Names /\ clock \in Epochs /\ Exists(n)
         /\ lastDelete < clock /\ lastDelete' = clock
         /\ UNCHANGED <<rows, fs, data, pool, conn, clock, acked, gone, erased, home, torn>>
<1> DEFINE slot == [IdleSlot EXCEPT !.step = "renameDb", !.name = n, !.to = Append(n, clock)]
<1>1. /\ StartWith(r, "delete", slot) /\ Exists(n) /\ Len(n) <= MaxNest /\ lastDelete' = clock
      /\ UNCHANGED <<rows, fs, data, pool, conn, clock, acked, gone, erased, home, torn>>
  BY DEF StartDelete, StartTo, DeletedName
<1>2. IdleSlot \in Request /\ "delete" \in Ops /\ IdleSlot.write = None
  BY IdleIsRequest DEF Ops, LifeCycle, IdleSlot
<1>3. clock \in Epochs /\ Append(n, clock) \in Names
  BY <1>1, AppendName DEF TInv, TypeOK
<1>4. slot \in Request /\ slot.name = n /\ slot.step = "renameDb" /\ slot.to = Append(n, clock) /\ slot.write = None
  BY <1>2, <1>3 DEF Request, Steps, MaybeName
<1>5. lastDelete < clock
  BY <1>1, BoundsAssumption DEF StartWith, MayStart, TInv, TypeOK, Epochs
<1>6. QED
  BY <1>1, <1>2, <1>3, <1>4, <1>5, StartBegins

\* A restore begins with an original name that no row has.
LEMMA StartRestoreEffect ==
  ASSUME TInv, Careful, NEW r \in Requests, NEW n \in Names, StartRestore(r, n)
  PROVE  /\ Begins(r, "restore", n, "renameDb") /\ req'[r].to = rows[n].orig /\ req'[r].write = None
         /\ rows[n].orig \in Names /\ rows[n].orig # None
         /\ rows[n].status = "deleted" /\ ~Exists(rows[n].orig)
         /\ UNCHANGED <<rows, fs, data, pool, conn, clock, History>>
<1> DEFINE slot == [IdleSlot EXCEPT !.step = "renameDb", !.name = n, !.to = rows[n].orig]
<1>1. /\ StartWith(r, "restore", slot) /\ rows[n].status = "deleted" /\ rows[n].orig # None /\ ~Exists(rows[n].orig)
      /\ UNCHANGED <<rows, fs, data, pool, conn, clock, History>>
  BY DEF StartRestore, StartTo
<1>2. IdleSlot \in Request /\ "restore" \in Ops /\ IdleSlot.write = None
  BY IdleIsRequest DEF Ops, LifeCycle, IdleSlot
<1>3. rows[n].orig \in Names
  BY <1>1 DEF TInv, TypeOK, Row, MaybeName
<1>4. slot \in Request /\ slot.name = n /\ slot.step = "renameDb" /\ slot.to = rows[n].orig /\ slot.write = None
  BY <1>2, <1>3 DEF Request, Steps, MaybeName
<1>5. QED
  BY <1>1, <1>2, <1>3, <1>4, StartBegins

\* A hard delete begins on a deleted row.
LEMMA StartHardDeleteEffect ==
  ASSUME TInv, Careful, NEW r \in Requests, NEW n \in Names, StartHardDelete(r, n)
  PROVE  /\ Begins(r, "hardDelete", n, "removeDb") /\ req'[r].to = None /\ req'[r].write = None
         /\ rows[n].status = "deleted"
         /\ UNCHANGED <<rows, fs, data, pool, conn, clock, History>>
<1> DEFINE slot == [IdleSlot EXCEPT !.step = "removeDb", !.name = n, !.to = None]
<1>1. /\ StartWith(r, "hardDelete", slot) /\ rows[n].status = "deleted"
      /\ UNCHANGED <<rows, fs, data, pool, conn, clock, History>>
  BY DEF StartHardDelete, Start, StartTo
<1>2. IdleSlot \in Request /\ "hardDelete" \in Ops /\ IdleSlot.write = None
  BY IdleIsRequest DEF Ops, LifeCycle, IdleSlot
<1>3. slot \in Request /\ slot.name = n /\ slot.step = "removeDb" /\ slot.to = None /\ slot.write = None
  BY <1>2 DEF Request, Steps, MaybeName
<1>4. QED
  BY <1>1, <1>2, <1>3, StartBegins

\* A reset begins on a registered database and remembers what it shows.
LEMMA StartResetEffect ==
  ASSUME TInv, Careful, NEW r \in Requests, NEW n \in Names, StartReset(r, n)
  PROVE  /\ Begins(r, "reset", n, "close") /\ req'[r].to = None /\ req'[r].write = None /\ req'[r].seen = Visible(n)
         /\ Exists(n)
         /\ UNCHANGED <<rows, fs, data, pool, conn, clock, History>>
<1> DEFINE slot == [IdleSlot EXCEPT !.step = "close", !.name = n, !.seen = Visible(n)]
<1>1. /\ StartWith(r, "reset", slot) /\ Exists(n)
      /\ UNCHANGED <<rows, fs, data, pool, conn, clock, History>>
  BY DEF StartReset
<1>2. IdleSlot \in Request /\ "reset" \in Ops /\ IdleSlot.write = None /\ IdleSlot.to = None
  BY IdleIsRequest DEF Ops, LifeCycle, IdleSlot
<1>3. Visible(n) \subseteq Writes
  <2>1. \A i \in File : Content(i) \subseteq Writes
    BY NoneAssumption DEF Content, File, TInv, TypeOK
  <2>2. fs[n].db \in File /\ fs[n].wal \in File
    BY DEF TInv, TypeOK, Files
  <2>3. pool[n] # None => conn[pool[n]].db \in File /\ conn[pool[n]].wal \in File
    BY DEF TInv, TypeOK, Connection
  <2>4. QED
    BY <2>1, <2>2, <2>3 DEF Visible, FileContent
<1>4. slot \in Request /\ slot.name = n /\ slot.step = "close" /\ slot.to = None /\ slot.write = None /\ slot.seen = Visible(n)
  BY <1>2, <1>3 DEF Request, Steps, MaybeName
<1>5. QED
  BY <1>1, <1>2, <1>4, StartBegins

\* A status update keeps the id and the original name of the row.
LEMMA SetStatusEffect ==
  ASSUME TInv, NEW r \in Requests, NEW n \in Names, NEW status \in {"active", "inactive"}, SetStatus(r, n, status)
  PROVE  /\ Exists(n) /\ rows'[n].status = status /\ rows'[n].id = rows[n].id /\ rows'[n].orig = rows[n].orig
         /\ \A m \in Names \ {n} : rows'[m] = rows[m]
         /\ UNCHANGED <<fs, data, pool, conn, req, clock, History>>
<1>1. /\ rows' = [rows EXCEPT ![n] = [rows[n] EXCEPT !.status = status]] /\ Exists(n)
      /\ UNCHANGED <<fs, data, pool, conn, req, clock, History>>
  BY DEF SetStatus
<1>2. rows[n] \in Row
  BY DEF TInv, TypeOK
<1>3. rows'[n] = [rows[n] EXCEPT !.status = status] /\ \A m \in Names \ {n} : rows'[m] = rows[m]
  BY <1>1 DEF TInv, TypeOK
<1>4. QED
  BY <1>1, <1>2, <1>3 DEF Row

(* Requests that are half done *)

\* A request is half done when its files are moved or removed and its row is not.
LEMMA HalfIs ==
  ASSUME TInv, NEW r \in Requests
  PROVE  /\ HalfDone(r) <=> \/ req[r].op \in {"delete", "restore"} /\ req[r].step # "renameDb"
                            \/ req[r].step \in {"removeWal", "deleteRow"}
         /\ HalfDone(r) => req[r].op \in LifeCycle /\ req[r].name \in Names
<1>1. req[r].op \in {"delete", "restore"} <=> req[r].to # None
  <2>1. Slot(req[r])
    BY SlotAt DEF TInv
  <2>2. req[r].op \in {"delete", "restore"} => req[r].to \in Names
    BY <2>1 DEF Slot
  <2>3. req[r].op \notin {"delete", "restore"} => req[r].to = None
    BY <2>1 DEF Slot
  <2>4. QED
    BY <2>2, <2>3, NoneAssumption
<1>2. HalfDone(r) <=> \/ req[r].op \in {"delete", "restore"} /\ req[r].step # "renameDb"
                      \/ req[r].step \in {"removeWal", "deleteRow"}
  BY <1>1 DEF HalfDone
<1>3. req[r].step \in {"removeWal", "deleteRow"} => req[r].op \in {"hardDelete", "reset"}
  BY SlotAt DEF TInv
<1>4. req[r].op \in LifeCycle => req[r].name \in Names
  BY SlotAt DEF TInv, Slot, LifeCycle
<1>5. QED
  BY <1>2, <1>3, <1>4 DEF LifeCycle

\* The same of the next state.
LEMMA HalfIsNext ==
  ASSUME TInv', NEW r \in Requests
  PROVE  HalfDone(r)' <=> \/ req'[r].op \in {"delete", "restore"} /\ req'[r].step # "renameDb"
                          \/ req'[r].step \in {"removeWal", "deleteRow"}
<1>1. req'[r].op \in {"delete", "restore"} => req'[r].to \in Names
  BY DEF TInv, Slots, Slot
<1>2. req'[r].op \notin {"delete", "restore"} => req'[r].to = None
  BY DEF TInv, Slots, Slot
<1>3. QED
  BY <1>1, <1>2, NoneAssumption DEF HalfDone

\* No life-cycle request is running, so none is half done.
Calm == \A r \in Requests : req[r].op \notin LifeCycle

\* Without life-cycle requests nothing is half done.
LEMMA CalmIsWhole ==
  ASSUME TInv, Calm
  PROVE  \A r \in Requests : ~HalfDone(r)
BY HalfIs DEF Calm

\* The same of the next state.
LEMMA CalmIsWholeNext ==
  ASSUME TInv', Calm'
  PROVE  \A r \in Requests : ~HalfDone(r)'
<1>1. ASSUME NEW r \in Requests PROVE ~HalfDone(r)'
  <2>1. req'[r].op \notin LifeCycle /\ Slot(req'[r])
    BY DEF Calm, TInv, Slots
  <2>2. req'[r].step \notin {"removeWal", "deleteRow"}
    <3>1. req'[r].op \in {"idle", "create", "write"}
      BY <2>1 DEF TInv, TypeOK, Request, Ops
    <3>2. QED
      BY <2>1, <3>1 DEF Slot, IdleSlot
  <2>3. QED
    BY <2>1, <2>2, HalfIsNext DEF LifeCycle
<1>2. QED
  BY <1>1

(* A running create or write is no life-cycle request's business. *)
LEMMA DataIsCalm ==
  ASSUME TInv, Alone, NEW r \in Requests, req[r].op \in {"create", "write"}
  PROVE  Calm
BY DEF Alone, Calm, LifeCycle

(* A life-cycle request is the only one. *)
LEMMA LifeIsAlone ==
  ASSUME TInv, Alone, NEW r \in Requests, req[r].op \in LifeCycle
  PROVE  \A q \in Requests \ {r} : req[q] = IdleSlot /\ ~HalfDone(q)
<1>1. \A q \in Requests \ {r} : req[q] = IdleSlot
  BY DEF Alone, TInv, Slots, Slot
<1>2. QED
  BY <1>1, HalfIs DEF IdleSlot, LifeCycle

(* Names *)

\* A registered name is neither given up for good nor ahead of the deletes.
LEMMA ExistsIsLive ==
  ASSUME TInv, Rows, NEW n \in Names, Exists(n)
  PROVE  ~Spent(n) /\ ~Ahead(n) /\ rows[n].id # 0
<1>1. Len(n) \in Nat
  BY NameParts
<1>2. Under(n, n)
  BY <1>1 DEF Under
<1>3. Len(n) > 1 => n[Len(n)] <= lastDelete
  BY <1>1 DEF Rows
<1>4. Len(n) > 1 => n[Len(n)] \in Epochs /\ lastDelete \in Int
  BY <1>1, NameParts DEF TInv, TypeOK
<1>5. QED
  BY <1>2, <1>3, <1>4 DEF Spent, Ahead, Rows, Epochs

\* Nor is a slug.
LEMMA SlugIsLive ==
  ASSUME NEW n \in Names, Len(n) = 1
  PROVE  ~Spent(n) /\ ~Ahead(n)
BY DEF Spent, Ahead

(* The pooled connection of a name has its files, unless it is spent or half moved. *)
LEMMA PooledFiles ==
  ASSUME DInv, NEW n \in Names, Open(n), fs[n].db # None
  PROVE  fs[n].db = conn[pool[n]].db /\ fs[n].wal = conn[pool[n]].wal
<1>1. ~Half(n)
  <2>1. ASSUME NEW r \in Requests, HalfDone(r), req[r].name = n PROVE FALSE
    <3>1. \/ req[r].op \in {"delete", "restore"} /\ req[r].step # "renameDb"
          \/ req[r].step \in {"removeWal", "deleteRow"}
      BY <2>1, HalfIs DEF DInv
    <3>2. Pending(r)
      BY DEF DInv, Requested
    <3>3. QED
      BY <2>1, <3>1, <3>2 DEF Pending, NoFiles
  <2>2. QED
    BY <2>1 DEF Half
<1>2. QED
  BY <1>1 DEF DInv, Pooled, Matches, NoFiles

\* An open connection of a registered name that no request is moving has its files.
LEMMA CalmFiles ==
  ASSUME DInv, NEW n \in Names, Open(n), Exists(n), \A r \in Requests : HalfDone(r) => req[r].name # n
  PROVE  fs[n].db = conn[pool[n]].db /\ fs[n].wal = conn[pool[n]].wal
BY ExistsIsLive DEF DInv, Pooled, Matches, Half

(* Steps of running requests *)

\* h is opened by path for n, by a request that works on n.
Opens(h, n) ==
  /\ h \in Handles /\ n \in Names /\ ~Open(n) /\ Calm
  /\ \E r \in Requests : req[r].op \in {"create", "write"} /\ req[r].name = n /\ Others(r)
       /\ req'[r].op = req[r].op /\ req'[r].name = n /\ req'[r].to = req[r].to /\ req'[r].write = req[r].write
       /\ (req'[r].step = "exec" => pool'[n] = req'[r].handle)
  /\ pool[n] \in {None, h} /\ pool'[n] = h /\ \A m \in Names \ {n} : pool'[m] = pool[m]
  /\ conn[h].state # "open" /\ (pool[n] = None => conn[h].state = "closed")
  /\ \A m \in Names \ {n} : fs'[m] = fs[m]
  /\ \A g \in Handles \ {h} : conn'[g] = conn[g]
  /\ conn'[h].state = "open" /\ conn'[h].name = n
  /\ conn'[h].db = fs'[n].db /\ conn'[h].wal = fs'[n].wal
  /\ fs'[n].db \in Inodes /\ fs'[n].wal \in Inodes
  /\ \/ fs'[n].db = fs[n].db
     \/ fs[n].db = None /\ fs'[n].db \notin InUse /\ data'[fs'[n].db] = {}
  /\ \/ fs'[n].wal = fs[n].wal /\ fs[n].db # None
     \/ /\ fs[n].db = None \/ fs[n].wal = None
        /\ fs'[n].wal \notin InUse /\ fs'[n].wal # fs'[n].db /\ data'[fs'[n].wal] = {}
  /\ \A i \in Inodes : i \in InUse => data'[i] = data[i]
  /\ \A i \in Inodes : data'[i] = data[i] \/ data'[i] = {}
  /\ UNCHANGED <<rows, clock, History>>

\* Request r looks a connection up in the pool, or has to open one.
Looks(r) ==
  /\ req[r].op \in {"create", "write"}
  /\ \E step \in {"getSlow", "insert", "exec"} : Moves(r, step)
  /\ req'[r].step = "exec" => pool[req[r].name] = req'[r].handle
  /\ UNCHANGED <<rows, fs, data, pool, conn, clock, History>>

\* Pool.Get finds the connection of the name, or opens it.
LEMMA GetEffect ==
  ASSUME DInv, NEW r \in Requests, GetFast(r) \/ GetSlow(r)
  PROVE  Looks(r) \/ \E h \in Handles : Opens(h, req[r].name)
<1> DEFINE n == req[r].name
<1> USE DEF DInv
<1>0. n \in Names /\ req[r].op \in {"create", "write"} /\ req[r].step \in {"get", "getSlow"}
  <2>1. req[r].step \in {"get", "getSlow"}
    BY DEF GetFast, GetSlow
  <2>2. QED
    BY <2>1, SlotAt DEF TInv
<1>1. ASSUME NEW h \in Handles, pool[n] = h, Got(r, h), UNCHANGED <<rows, fs, data, pool, conn, clock, History>>
      PROVE  Looks(r)
  <2>1. Moves(r, IF req[r].op = "create" THEN "insert" ELSE "exec") /\ req'[r].handle = h
    BY <1>0, <1>1, GotMoves
  <2>2. \E step \in {"getSlow", "insert", "exec"} : Moves(r, step)
    BY <2>1
  <2>3. QED
    BY <1>0, <1>1, <2>1, <2>2 DEF Looks
<1>2. pool[n] \in Handles \cup {None}
  BY <1>0 DEF TInv, TypeOK
<1>3. CASE GetFast(r)
  <2>1. UNCHANGED <<rows, fs, data, pool, conn, clock, History>>
    BY <1>3 DEF GetFast
  <2>2. CASE pool[n] # None
    BY <1>1, <1>2, <1>3, <2>1, <2>2 DEF GetFast
  <2>3. CASE pool[n] = None
    <3>1. Goto(r, "get", "getSlow")
      BY <1>3, <2>3 DEF GetFast
    <3>2. Moves(r, "getSlow")
      BY <3>1, GotoMoves DEF Steps
    <3>3. req'[r].step = "getSlow"
      BY <3>2 DEF Moves
    <3>4. QED
      BY <1>0, <2>1, <3>2, <3>3 DEF Looks
  <2>4. QED
    BY <2>2, <2>3
<1>4. CASE GetSlow(r)
  <2>1. UNCHANGED <<rows, clock, History>>
    BY <1>4 DEF GetSlow
  <2>2. CASE pool[n] # None /\ Got(r, pool[n]) /\ UNCHANGED <<fs, data, pool, conn>>
    BY <1>1, <1>2, <2>1, <2>2
  <2>3. ASSUME pool[n] = None, NEW h \in Handles, Unreferenced(h), OpenConn(h, n),
               pool' = [pool EXCEPT ![n] = h], Got(r, h)
        PROVE  Opens(h, n)
    <3>1. conn[h].state = "closed"
      BY <2>3 DEF Unreferenced, ClosedConn
    <3>2. Moves(r, IF req[r].op = "create" THEN "insert" ELSE "exec") /\ req'[r].handle = h
      BY <1>0, <2>3, GotMoves
    <3>3. pool'[n] = h /\ \A m \in Names \ {n} : pool'[m] = pool[m]
      BY <1>0, <2>3 DEF TInv, TypeOK
    <3>4. ~Open(n)
      BY <2>3 DEF Open
    <3>5. Calm
      BY <1>0, DataIsCalm
    <3>6. \E q \in Requests : req[q].op \in {"create", "write"} /\ req[q].name = n /\ Others(q)
            /\ req'[q].op = req[q].op /\ req'[q].name = n /\ req'[q].to = req[q].to /\ req'[q].write = req[q].write
            /\ (req'[q].step = "exec" => pool'[n] = req'[q].handle)
      BY <1>0, <3>2, <3>3 DEF Moves
    <3> HIDE DEF n
    <3>8. TypeOK
      BY DEF TInv
    <3>7. QED
      BY <1>0, <2>1, <2>3, <3>1, <3>3, <3>4, <3>5, <3>6, <3>8, OpenEffect DEF Opens
  <2>4. QED
    BY <1>4, <2>2, <2>3 DEF GetSlow
<1>5. QED
  BY <1>3, <1>4

\* A handle reconnects to the files of the name it was got for.
LEMMA ReconnectEffect ==
  ASSUME DInv, NEW r \in Requests, Reconnect(r)
  PROVE  Opens(req[r].handle, req[r].name) /\ req' = req /\ Exists(req[r].name)
<1> USE DEF DInv
<1> DEFINE n == req[r].name
           h == req[r].handle
<1>1. /\ req[r].step = "exec" /\ conn[h].state = "idle" /\ OpenConn(h, conn[h].name)
      /\ UNCHANGED <<rows, pool, req, clock, ops, History>>
  BY DEF Reconnect
<1>2. req[r].op = "write" /\ h \in Handles /\ n \in Names /\ TypeOK
  BY <1>1, SlotAt DEF TInv
<1>3. Pending(r)
  BY DEF Requested
<1>4. pool[n] = h /\ Exists(n)
  BY <1>1, <1>2, <1>3 DEF Pending
<1>5. h # None
  BY <1>2, NoneAssumption
<1>6. conn[h].name = n
  BY <1>2, <1>4, <1>5 DEF TInv, Conns
<1>7. ~Open(n)
  BY <1>1, <1>4 DEF Open
<1>8. Calm
  BY <1>2, DataIsCalm
<1>9. \E q \in Requests : req[q].op \in {"create", "write"} /\ req[q].name = n /\ Others(q)
        /\ req'[q].op = req[q].op /\ req'[q].name = n /\ req'[q].to = req[q].to /\ req'[q].write = req[q].write
        /\ (req'[q].step = "exec" => pool'[n] = req'[q].handle)
  BY <1>1, <1>2, <1>4 DEF Others
<1>10. pool'[n] = h /\ pool[n] # None
  BY <1>1, <1>4, <1>5
<1>11. OpenConn(h, n)
  BY <1>1, <1>6
<1> HIDE DEF n, h
<1>12. Opens(h, n)
  BY <1>1, <1>2, <1>4, <1>7, <1>8, <1>9, <1>10, <1>11, OpenEffect DEF Opens
<1>13. QED
  BY <1>1, <1>4, <1>12 DEF n, h

\* CreateDB inserts a row with a new id, unless the slug was taken meanwhile.
LEMMA InsertRowEffect ==
  ASSUME DInv, NEW r \in Requests, InsertRow(r)
  PROVE  /\ req[r].op = "create" /\ req[r].name \in Names /\ Len(req[r].name) = 1 /\ Ends(r) /\ Calm
         /\ UNCHANGED <<fs, data, pool, conn, clock, History>>
         /\ \/ Exists(req[r].name) /\ rows' = rows
            \/ /\ ~Exists(req[r].name) /\ \A m \in Names \ {req[r].name} : rows'[m] = rows[m]
               /\ rows'[req[r].name] = [id |-> FreshId, status |-> "active", orig |-> None]
               /\ FreshId # 0 /\ FreshId \notin Ids
<1> USE DEF DInv
<1> DEFINE n == req[r].name
           row == [id |-> FreshId, status |-> "active", orig |-> None]
<1>1. /\ req[r].step = "insert" /\ Finish(r) /\ UNCHANGED <<fs, data, pool, conn, clock, History>>
      /\ rows' = IF Exists(n) THEN rows ELSE [rows EXCEPT ![n] = row]
  BY DEF InsertRow
<1>2. req[r].op = "create" /\ n \in Names /\ Len(n) = 1
  BY <1>1, SlotAt DEF TInv, Slot
<1>3. FreshId \in 1..MaxOps /\ FreshId \notin Ids
  BY <1>2, IdIsLeft DEF TInv
<1>4. FreshId # 0
  BY <1>3, BoundsAssumption
<1>5. Ends(r) /\ Calm
  BY <1>1, <1>2, FinishEnds, DataIsCalm
<1>6. CASE Exists(n)
  BY <1>1, <1>2, <1>5, <1>6
<1>7. CASE ~Exists(n)
  <2>1. rows'[n] = row /\ \A m \in Names \ {n} : rows'[m] = rows[m]
    BY <1>1, <1>2, <1>7 DEF TInv, TypeOK
  <2>2. QED
    BY <1>1, <1>2, <1>3, <1>4, <1>5, <1>7, <2>1
<1>8. QED
  BY <1>6, <1>7

\* A write reaches the WAL of its database.
LEMMA ExecWriteEffect ==
  ASSUME DInv, NEW r \in Requests, ExecWrite(r)
  PROVE  /\ req[r].op = "write" /\ req[r].name \in Names /\ req[r].write \in Writes /\ Ends(r) /\ Calm
         /\ Exists(req[r].name) /\ home[req[r].write] = rows[req[r].name].id /\ req[r].write \notin acked
         /\ Open(req[r].name)
         /\ fs[req[r].name].wal \in Inodes /\ fs[req[r].name].db \in Inodes
         /\ fs[req[r].name].db = conn[pool[req[r].name]].db /\ fs[req[r].name].wal = conn[pool[req[r].name]].wal
         /\ acked' = acked \cup {req[r].write}
         /\ data'[fs[req[r].name].wal] = data[fs[req[r].name].wal] \cup {req[r].write}
         /\ \A i \in Inodes \ {fs[req[r].name].wal} : data'[i] = data[i]
         /\ UNCHANGED <<rows, fs, pool, conn, clock, gone, erased, home, lastDelete, torn>>
<1> USE DEF DInv
<1> DEFINE n == req[r].name
           h == req[r].handle
<1>1. /\ req[r].step = "exec" /\ conn[h].state = "open" /\ Finish(r)
      /\ data' = [data EXCEPT ![conn[h].wal] = data[conn[h].wal] \cup {req[r].write}]
      /\ acked' = acked \cup {req[r].write}
      /\ UNCHANGED <<rows, fs, pool, conn, clock, gone, erased, home, lastDelete, torn>>
  BY DEF ExecWrite
<1>2. req[r].op = "write" /\ h \in Handles /\ n \in Names /\ req[r].write \in Writes
  BY <1>1, SlotAt DEF TInv
<1>3. Pending(r)
  BY DEF Requested
<1>4. pool[n] = h /\ Exists(n) /\ home[req[r].write] = rows[n].id /\ req[r].write \notin acked
  BY <1>1, <1>2, <1>3 DEF Pending
<1>5. Open(n)
  BY <1>1, <1>2, <1>4, NoneAssumption DEF Open
<1>6. Ends(r) /\ Calm
  BY <1>1, <1>2, FinishEnds, DataIsCalm
<1>7. \A q \in Requests : ~HalfDone(q)
  BY <1>6, CalmIsWhole
<1>8. fs[n].db = conn[h].db /\ fs[n].wal = conn[h].wal
  BY <1>2, <1>4, <1>5, <1>7, CalmFiles
<1>9. conn[h].db \in Inodes /\ conn[h].wal \in Inodes
  BY <1>1, <1>2 DEF TInv, Conns
<1>10. data'[conn[h].wal] = data[conn[h].wal] \cup {req[r].write} /\ \A i \in Inodes \ {conn[h].wal} : data'[i] = data[i]
  BY <1>1, <1>9 DEF TInv, TypeOK
<1>11. QED
  BY <1>1, <1>2, <1>4, <1>5, <1>6, <1>8, <1>9, <1>10

\* A write whose handle is closed changes nothing.
LEMMA ExecClosedEffect ==
  ASSUME DInv, NEW r \in Requests, ExecClosed(r)
  PROVE  /\ req[r].op = "write" /\ Ends(r) /\ Calm
         /\ UNCHANGED <<rows, fs, data, pool, conn, clock, History>>
<1>1. req[r].step = "exec" /\ Finish(r) /\ UNCHANGED <<rows, fs, data, pool, conn, clock, History>>
  BY DEF ExecClosed
<1>2. req[r].op = "write"
  BY <1>1, SlotAt DEF DInv, TInv
<1>3. QED
  BY <1>1, <1>2, FinishEnds, DataIsCalm DEF DInv

\* The database file gets its new name; nothing else moves.
LEMMA RenameDbEffect ==
  ASSUME DInv, NEW r \in Requests, RenameDb(r)
  PROVE  /\ req[r].op \in {"delete", "restore"} /\ req[r].step = "renameDb" /\ Moves(r, "renameWal")
         /\ req[r].name \in Names /\ req[r].to \in Names /\ req[r].name # req[r].to
         /\ \A m \in Names \ {req[r].name, req[r].to} : fs'[m] = fs[m]
         /\ fs'[req[r].name].db = None /\ fs'[req[r].name].wal = fs[req[r].name].wal
         /\ fs'[req[r].to].wal = fs[req[r].to].wal
         /\ fs'[req[r].to].db = IF fs[req[r].name].db = None THEN fs[req[r].to].db ELSE fs[req[r].name].db
         /\ UNCHANGED <<rows, data, pool, conn, clock, History>>
<1> USE DEF DInv
<1> DEFINE n == req[r].name
           to == req[r].to
<1>1. /\ Goto(r, "renameDb", "renameWal")
      /\ fs' = IF fs[n].db = None THEN fs ELSE [fs EXCEPT ![to].db = fs[n].db, ![n].db = None]
      /\ UNCHANGED <<rows, data, pool, conn, clock, History>>
  BY DEF RenameDb
<1>2. Moves(r, "renameWal") /\ req[r].step = "renameDb"
  BY <1>1, GotoMoves DEF Steps
<1>3. req[r].op \in {"delete", "restore"} /\ to \in Names /\ n \in Names
  BY <1>2, SlotAt DEF TInv
<1>4. n # to
  BY <1>3, AppendParts DEF Requested, Pending, TInv, TypeOK
<1>5. fs \in [Names -> Files]
  BY DEF TInv, TypeOK
<1>6. CASE fs[n].db = None
  BY <1>1, <1>2, <1>3, <1>4, <1>6
<1>7. CASE fs[n].db # None
  <2>1. fs' = [fs EXCEPT ![to].db = fs[n].db, ![n].db = None]
    BY <1>1, <1>7
  <2>2. /\ \A m \in Names \ {n, to} : fs'[m] = fs[m]
        /\ fs'[n].db = None /\ fs'[n].wal = fs[n].wal
        /\ fs'[to].wal = fs[to].wal /\ fs'[to].db = fs[n].db
    BY <1>3, <1>4, <1>5, <2>1 DEF Files
  <2>3. QED
    BY <1>1, <1>2, <1>3, <1>4, <1>7, <2>2
<1>8. QED
  BY <1>6, <1>7

\* Then the WAL does, and the old name has no files.
LEMMA RenameWalEffect ==
  ASSUME DInv, NEW r \in Requests, RenameWal(r)
  PROVE  /\ req[r].op \in {"delete", "restore"} /\ req[r].step = "renameWal"
         /\ Moves(r, IF req[r].op = "delete" THEN "close" ELSE "update")
         /\ req[r].name \in Names /\ req[r].to \in Names /\ req[r].name # req[r].to
         /\ \A m \in Names \ {req[r].name, req[r].to} : fs'[m] = fs[m]
         /\ fs[req[r].name].db = None
         /\ fs'[req[r].name] = NoFiles
         /\ fs'[req[r].to].db = fs[req[r].to].db
         /\ fs'[req[r].to].wal = IF fs[req[r].name].wal = None THEN fs[req[r].to].wal ELSE fs[req[r].name].wal
         /\ UNCHANGED <<rows, data, pool, conn, clock, History>>
<1> USE DEF DInv
<1> DEFINE n == req[r].name
           to == req[r].to
           step == IF req[r].op = "delete" THEN "close" ELSE "update"
<1>1. /\ Goto(r, "renameWal", step)
      /\ fs' = IF fs[n].wal = None THEN fs ELSE [fs EXCEPT ![to].wal = fs[n].wal, ![n].wal = None]
      /\ UNCHANGED <<rows, data, pool, conn, clock, History>>
  BY DEF RenameWal
<1>2. step \in Steps
  BY DEF Steps
<1>3. Moves(r, step) /\ req[r].step = "renameWal"
  BY <1>1, <1>2, GotoMoves
<1>4. req[r].op \in {"delete", "restore"} /\ to \in Names /\ n \in Names
  BY <1>3, SlotAt DEF TInv
<1>5. Pending(r)
  BY DEF Requested
<1>6. n # to /\ fs[n].db = None
  BY <1>3, <1>4, <1>5, AppendParts DEF Pending, TInv, TypeOK
<1>7. fs \in [Names -> Files]
  BY DEF TInv, TypeOK
<1>8. CASE fs[n].wal = None
  <2>1. fs' = fs /\ fs[n] = NoFiles
    BY <1>1, <1>4, <1>6, <1>7, <1>8 DEF NoFiles, Files
  <2>2. QED
    BY <1>1, <1>3, <1>4, <1>6, <1>8, <2>1
<1>9. CASE fs[n].wal # None
  <2>1. fs' = [fs EXCEPT ![to].wal = fs[n].wal, ![n].wal = None]
    BY <1>1, <1>9
  <2>2. /\ \A m \in Names \ {n, to} : fs'[m] = fs[m]
        /\ fs'[n].db = None /\ fs'[n].wal = None
        /\ fs'[to].db = fs[to].db /\ fs'[to].wal = fs[n].wal
    BY <1>4, <1>6, <1>7, <2>1 DEF Files
  <2>3. fs'[n] \in Files
    BY <1>4, <1>6, <1>7, <2>1 DEF Files, File
  <2>4. QED
    BY <1>1, <1>3, <1>4, <1>6, <1>9, <2>2, <2>3 DEF NoFiles, Files
<1>10. QED
  BY <1>8, <1>9

\* Then the row gets the new name, which no row and no connection has.
LEMMA UpdateRowEffect ==
  ASSUME DInv, NEW r \in Requests, UpdateRow(r)
  PROVE  /\ req[r].op \in {"delete", "restore"} /\ req[r].step = "update" /\ Ends(r)
         /\ req[r].name \in Names /\ req[r].to \in Names /\ req[r].name # req[r].to
         /\ Exists(req[r].name) /\ ~Exists(req[r].to) /\ pool[req[r].to] = None /\ fs[req[r].name] = NoFiles
         /\ \A m \in Names \ {req[r].name, req[r].to} : rows'[m] = rows[m]
         /\ rows'[req[r].name] = NoRow
         /\ rows'[req[r].to].id = rows[req[r].name].id
         /\ req[r].op = "delete" => rows'[req[r].to].status = "deleted" /\ rows'[req[r].to].orig = req[r].name
         /\ req[r].op = "restore" => rows'[req[r].to].status = "active" /\ rows'[req[r].to].orig = None
         /\ UNCHANGED <<fs, data, pool, conn, clock, History>>
<1> USE DEF DInv
<1> DEFINE n == req[r].name
           to == req[r].to
           deleted == [rows[n] EXCEPT !.status = "deleted", !.orig = n]
           active == [rows[n] EXCEPT !.status = "active", !.orig = None]
<1>1. /\ req[r].step = "update" /\ Finish(r)
      /\ rows' = IF Exists(n) /\ ~Exists(to)
                 THEN [rows EXCEPT ![n] = NoRow, ![to] = IF req[r].op = "delete" THEN deleted ELSE active] ELSE rows
      /\ UNCHANGED <<fs, data, pool, conn, clock, History>>
  BY DEF UpdateRow
<1>2. req[r].op \in {"delete", "restore"} /\ to \in Names /\ n \in Names /\ Ends(r)
  BY <1>1, SlotAt, FinishEnds DEF TInv
<1>3. Pending(r)
  BY DEF Requested
<1>4. Exists(n) /\ ~Exists(to) /\ pool[to] = None /\ fs[n] = NoFiles
  BY <1>1, <1>2, <1>3 DEF Pending, LifeCycle
<1>5. n # to
  BY <1>4
<1>6. rows[n] \in Row
  BY <1>2 DEF TInv, TypeOK
<1>7. /\ deleted.id = rows[n].id /\ deleted.status = "deleted" /\ deleted.orig = n
      /\ active.id = rows[n].id /\ active.status = "active" /\ active.orig = None
  BY <1>6 DEF Row
<1> HIDE DEF deleted, active
<1>8. rows' = [rows EXCEPT ![n] = NoRow, ![to] = IF req[r].op = "delete" THEN deleted ELSE active]
  BY <1>1, <1>4
<1>9. /\ \A m \in Names \ {n, to} : rows'[m] = rows[m]
      /\ rows'[n] = NoRow /\ rows'[to] = IF req[r].op = "delete" THEN deleted ELSE active
  BY <1>2, <1>5, <1>8 DEF TInv, TypeOK
<1>10. QED
  BY <1>1, <1>2, <1>4, <1>5, <1>7, <1>9

\* The database file is removed, and its writes are gone.
LEMMA RemoveDbEffect ==
  ASSUME DInv, NEW r \in Requests, RemoveDb(r)
  PROVE  /\ \/ req[r].step = "removeDb" /\ Moves(r, "removeWal") /\ req[r].op \in {"hardDelete", "reset"}
            \/ req[r].step = "removeDb2" /\ Moves(r, "removeWal2") /\ req[r].op = "reset"
         /\ req[r].name \in Names /\ Exists(req[r].name)
         /\ \A m \in Names \ {req[r].name} : fs'[m] = fs[m]
         /\ fs'[req[r].name].db = None /\ fs'[req[r].name].wal = fs[req[r].name].wal
         /\ gone' = IF fs[req[r].name].db = None THEN gone ELSE gone \cup FileContent(req[r].name)
         /\ UNCHANGED <<rows, data, pool, conn, clock, acked, erased, home, lastDelete, torn>>
<1> USE DEF DInv
<1> DEFINE n == req[r].name
<1>1. /\ Goto(r, "removeDb", "removeWal") \/ Goto(r, "removeDb2", "removeWal2")
      /\ gone' = IF fs[n].db = None THEN gone ELSE gone \cup FileContent(n)
      /\ fs' = [fs EXCEPT ![n].db = None]
      /\ UNCHANGED <<rows, data, pool, conn, clock, acked, erased, home, lastDelete, torn>>
  BY DEF RemoveDb
<1>2. \/ req[r].step = "removeDb" /\ Moves(r, "removeWal")
      \/ req[r].step = "removeDb2" /\ Moves(r, "removeWal2")
  BY <1>1, GotoMoves DEF Steps
<1>3. /\ n \in Names
      /\ req[r].step = "removeDb" => req[r].op \in {"hardDelete", "reset"}
      /\ req[r].step = "removeDb2" => req[r].op = "reset"
  BY <1>2, SlotAt DEF TInv
<1>4. Exists(n)
  BY <1>2, <1>3 DEF Requested, Pending, LifeCycle
<1>5. fs \in [Names -> Files]
  BY DEF TInv, TypeOK
<1>6. /\ \A m \in Names \ {n} : fs'[m] = fs[m]
      /\ fs'[n].db = None /\ fs'[n].wal = fs[n].wal
  BY <1>1, <1>3, <1>5 DEF Files
<1>7. QED
  BY <1>1, <1>2, <1>3, <1>4, <1>6

\* Then the WAL is, and the name has no files.
LEMMA RemoveWalEffect ==
  ASSUME DInv, NEW r \in Requests, RemoveWal(r)
  PROVE  /\ req[r].step = "removeWal" /\ req[r].op \in {"hardDelete", "reset"}
         /\ Moves(r, IF req[r].op = "reset" THEN "removeDb2" ELSE "deleteRow")
         /\ req[r].name \in Names /\ Exists(req[r].name)
         /\ \A m \in Names \ {req[r].name} : fs'[m] = fs[m]
         /\ fs'[req[r].name] = NoFiles
         /\ UNCHANGED <<rows, data, pool, conn, clock, History>>
<1> USE DEF DInv
<1> DEFINE n == req[r].name
           step == IF req[r].op = "reset" THEN "removeDb2" ELSE "deleteRow"
<1>1. /\ Goto(r, "removeWal", step) /\ fs' = [fs EXCEPT ![n].wal = None]
      /\ UNCHANGED <<rows, data, pool, conn, clock, History>>
  BY DEF RemoveWal
<1>2. step \in Steps
  BY DEF Steps
<1>3. req[r].step = "removeWal" /\ Moves(r, step)
  BY <1>1, <1>2, GotoMoves
<1>4. n \in Names /\ req[r].op \in {"hardDelete", "reset"}
  BY <1>3, SlotAt DEF TInv
<1>5. Exists(n) /\ fs[n].db = None
  BY <1>3, <1>4 DEF Requested, Pending, LifeCycle
<1>6. fs \in [Names -> Files]
  BY DEF TInv, TypeOK
<1>7. /\ \A m \in Names \ {n} : fs'[m] = fs[m]
      /\ fs'[n].db = None /\ fs'[n].wal = None /\ fs'[n] \in Files
  BY <1>1, <1>4, <1>5, <1>6 DEF Files, File
<1>8. fs'[n] = NoFiles
  BY <1>7 DEF NoFiles, Files
<1>9. QED
  BY <1>1, <1>3, <1>4, <1>5, <1>7, <1>8

\* A reset answers when its name has no files and no connection.
LEMMA FinishResetEffect ==
  ASSUME DInv, NEW r \in Requests, FinishReset(r)
  PROVE  /\ req[r].step = "removeWal2" /\ req[r].op = "reset" /\ Ends(r)
         /\ req[r].name \in Names /\ Exists(req[r].name) /\ pool[req[r].name] = None
         /\ fs[req[r].name] = NoFiles /\ fs' = fs
         /\ erased' = erased \cup req[r].seen
         /\ UNCHANGED <<rows, data, pool, conn, clock, acked, gone, home, lastDelete, torn>>
<1> USE DEF DInv
<1> DEFINE n == req[r].name
<1>1. /\ req[r].step = "removeWal2" /\ fs' = [fs EXCEPT ![n].wal = None] /\ Finish(r)
      /\ erased' = erased \cup req[r].seen
      /\ UNCHANGED <<rows, data, pool, conn, clock, acked, gone, home, lastDelete, torn>>
  BY DEF FinishReset
<1>2. n \in Names /\ req[r].op = "reset" /\ Ends(r)
  BY <1>1, SlotAt, FinishEnds DEF TInv
<1>3. Exists(n) /\ fs[n] = NoFiles /\ pool[n] = None
  BY <1>1, <1>2 DEF Requested, Pending, LifeCycle
<1>4. fs' = fs
  BY <1>1, <1>2, <1>3 DEF TInv, TypeOK, Files, NoFiles
<1>5. QED
  BY <1>1, <1>2, <1>3, <1>4

\* A hard delete deletes the row of a name without files.
LEMMA DeleteRowEffect ==
  ASSUME DInv, NEW r \in Requests, DeleteRow(r)
  PROVE  /\ req[r].step = "deleteRow" /\ req[r].op = "hardDelete" /\ Ends(r)
         /\ req[r].name \in Names /\ Exists(req[r].name) /\ Len(req[r].name) > 1
         /\ fs[req[r].name] = NoFiles
         /\ \A m \in Names \ {req[r].name} : rows'[m] = rows[m]
         /\ rows'[req[r].name] = NoRow
         /\ UNCHANGED <<fs, data, pool, conn, clock, History>>
<1> USE DEF DInv
<1> DEFINE n == req[r].name
<1>1. /\ req[r].step = "deleteRow" /\ rows' = [rows EXCEPT ![n] = NoRow] /\ Finish(r)
      /\ UNCHANGED <<fs, data, pool, conn, clock, History>>
  BY DEF DeleteRow
<1>2. n \in Names /\ req[r].op = "hardDelete" /\ Ends(r)
  BY <1>1, SlotAt, FinishEnds DEF TInv
<1>3. Exists(n) /\ Len(n) > 1 /\ fs[n] = NoFiles
  BY <1>1, <1>2 DEF Requested, Pending, LifeCycle
<1>4. rows'[n] = NoRow /\ \A m \in Names \ {n} : rows'[m] = rows[m]
  BY <1>1, <1>2 DEF TInv, TypeOK
<1>5. QED
  BY <1>1, <1>2, <1>3, <1>4

\* The connection of n is closed; a checkpoint moves its WAL into its database file.
Closes(n) ==
  /\ n \in Names /\ pool[n] \in Handles
  /\ conn'[pool[n]].state # "open" /\ \A g \in Handles \ {pool[n]} : conn'[g] = conn[g]
  /\ pool'[n] \in {None, pool[n]} /\ \A m \in Names \ {n} : pool'[m] = pool[m]
  /\ \/ UNCHANGED <<fs, data>>
     \/ /\ fs[n].db \in Inodes /\ fs[n].wal \in Inodes /\ Open(n)
        /\ fs[n].db = conn[pool[n]].db /\ fs[n].wal = conn[pool[n]].wal
        /\ \A m \in Names \ {n} : fs'[m] = fs[m]
        /\ fs'[n].db = fs[n].db /\ fs'[n].wal = None
        /\ data'[fs[n].db] = data[fs[n].db] \cup data[fs[n].wal]
        /\ \A i \in Inodes \ {fs[n].db} : data'[i] = data[i]
  /\ UNCHANGED <<rows, clock, History>>

\* CloseConn on a pooled connection does what Closes says.
LEMMA CloseCloses ==
  ASSUME DInv, NEW n \in Names, pool[n] # None, NEW to \in Connection, to.state # "open",
         CloseConn(pool[n], to), pool'[n] \in {None, pool[n]}, \A m \in Names \ {n} : pool'[m] = pool[m],
         UNCHANGED <<rows, clock, History>>
  PROVE  Closes(n)
<1> USE DEF DInv
<1> DEFINE h == pool[n]
<1>1. h \in Handles /\ conn[h].state # "closed" /\ conn[h].name = n /\ TypeOK /\ Conns
  BY DEF TInv, TypeOK, Conns
<1>2. /\ conn'[h] = to /\ \A g \in Handles \ {h} : conn'[g] = conn[g]
      /\ \/ UNCHANGED <<fs, data>>
         \/ /\ conn[h].state = "open" /\ fs[n].db = conn[h].db
            /\ \A m \in Names : fs'[m].db = fs[m].db
            /\ \A m \in Names \ {n} : fs'[m] = fs[m]
            /\ fs'[n].wal = None
            /\ data'[conn[h].db] = data[conn[h].db] \cup data[conn[h].wal]
            /\ \A i \in Inodes \ {conn[h].db} : data'[i] = data[i]
  BY <1>1, CloseEffect
<1>3. ASSUME conn[h].state = "open", fs[n].db = conn[h].db
      PROVE  fs[n].db \in Inodes /\ fs[n].wal \in Inodes /\ Open(n) /\ fs[n].wal = conn[h].wal
  <2>1. conn[h].db \in Inodes /\ conn[h].wal \in Inodes
    BY <1>1, <1>3 DEF Conns
  <2>2. Open(n) /\ fs[n].db # None
    BY <1>3, <2>1, NoneAssumption DEF Open
  <2>3. QED
    BY <1>3, <2>1, <2>2, PooledFiles
<1>4. QED
  BY <1>1, <1>2, <1>3 DEF Closes

\* A connection idle too long is closed and stays in the pool.
LEMMA IdleCloseEffect ==
  ASSUME DInv, NEW h \in Handles, IdleClose(h)
  PROVE  req' = req /\ \E n \in Names : Closes(n) /\ pool' = pool
<1> USE DEF DInv
<1> DEFINE n == conn[h].name
           to == [ClosedConn EXCEPT !.state = "idle", !.name = n]
<1>1. conn[h].state = "open" /\ CloseConn(h, to) /\ UNCHANGED <<rows, pool, req, clock, ops, History>>
  BY DEF IdleClose
<1>2. n \in Names /\ pool[n] = h /\ pool[n] # None
  BY <1>1, NoneAssumption DEF TInv, Conns
<1>3. ClosedConn \in Connection
  BY DEF ClosedConn, Connection, MaybeName, File
<1>4. to \in Connection /\ to.state = "idle"
  BY <1>2, <1>3 DEF Connection, MaybeName
<1> HIDE DEF n, to
<1>5. Closes(n)
  BY <1>1, <1>2, <1>4, CloseCloses
<1>6. QED
  BY <1>1, <1>2, <1>5

\* A request closes the connection of its name, if any, and the pool forgets it.
LEMMA ClosePooledEffect ==
  ASSUME DInv, NEW r \in Requests, ClosePooled(r)
  PROVE  /\ req[r].step = "close" /\ req[r].op \in {"delete", "reset"} /\ req[r].name \in Names
         /\ Moves(r, IF req[r].op = "delete" THEN "update" ELSE "removeDb")
         /\ pool'[req[r].name] = None
         /\ \/ Closes(req[r].name)
            \/ UNCHANGED <<rows, fs, data, pool, conn, clock, History>>
<1> USE DEF DInv
<1> DEFINE n == req[r].name
           step == IF req[r].op = "delete" THEN "update" ELSE "removeDb"
<1>1. /\ Goto(r, "close", step) /\ pool' = [pool EXCEPT ![n] = None]
      /\ IF pool[n] = None THEN UNCHANGED <<fs, data, conn>> ELSE CloseConn(pool[n], ClosedConn)
      /\ UNCHANGED <<rows, clock, ops, History>>
  BY DEF ClosePooled
<1>2. step \in Steps
  BY DEF Steps
<1>3. req[r].step = "close" /\ Moves(r, step)
  BY <1>1, <1>2, GotoMoves
<1>4. n \in Names /\ req[r].op \in {"delete", "reset"}
  BY <1>3, SlotAt DEF TInv
<1>5. /\ pool'[n] = None /\ \A m \in Names \ {n} : pool'[m] = pool[m]
      /\ pool[n] = None => pool' = pool
  BY <1>1, <1>4 DEF TInv, TypeOK
<1>6. ClosedConn \in Connection /\ ClosedConn.state # "open"
  BY DEF ClosedConn, Connection, MaybeName, File
<1>7. CASE pool[n] = None
  BY <1>1, <1>3, <1>4, <1>5, <1>7
<1>8. CASE pool[n] # None
  <2>1. CloseConn(pool[n], ClosedConn)
    BY <1>1, <1>8
  <2> HIDE DEF n
  <2>2. Closes(n)
    BY <1>1, <1>4, <1>5, <1>6, <1>8, <2>1, CloseCloses
  <2>3. QED
    BY <1>3, <1>4, <1>5, <2>2 DEF n
<1>9. QED
  BY <1>7, <1>8

-----------------------------------------------------------------------------
(* Which actions change which variables *)

\* The steps that change the registry or the second of the latest delete.
LEMMA RowsFrame ==
  ASSUME [Next]_vars
  PROVE  \/ UNCHANGED <<rows, lastDelete>> /\ clock' \in {clock, clock + 1}
         \/ \E r \in Requests :
              \/ \E n \in Names : StartDelete(r, n) \/ \E status \in {"active", "inactive"} : SetStatus(r, n, status)
              \/ InsertRow(r) \/ UpdateRow(r) \/ DeleteRow(r)
<1>1. CASE UNCHANGED vars
  BY <1>1 DEF vars
<1>2. ASSUME NEW r \in Requests, StartRequest(r)
      PROVE  \/ UNCHANGED <<rows, lastDelete, clock>>
             \/ \E n \in Names : StartDelete(r, n) \/ \E status \in {"active", "inactive"} : SetStatus(r, n, status)
  BY <1>2 DEF StartRequest, StartCreate, StartRestore, StartHardDelete, StartReset, StartWrite
<1>3. ASSUME NEW r \in Requests, Step(r)
      PROVE  UNCHANGED <<rows, lastDelete, clock>> \/ InsertRow(r) \/ UpdateRow(r) \/ DeleteRow(r)
  BY <1>3 DEF Step, GetFast, GetSlow, Reconnect, ExecWrite, ExecClosed, RenameDb, RenameWal, ClosePooled,
              RemoveDb, RemoveWal, FinishReset
<1>4. CASE (\E h \in Handles : IdleClose(h)) \/ Tick \/ Crash
  BY <1>4 DEF IdleClose, Tick, Crash
<1>5. QED
  BY <1>1, <1>2, <1>3, <1>4 DEF Next

\* The steps that change the directory or the files.
LEMMA FilesFrame ==
  ASSUME [Next]_vars
  PROVE  \/ UNCHANGED <<fs, data>>
         \/ \E r \in Requests :
              \/ GetFast(r) \/ GetSlow(r) \/ Reconnect(r) \/ ExecWrite(r) \/ RenameDb(r) \/ RenameWal(r)
              \/ ClosePooled(r) \/ RemoveDb(r) \/ RemoveWal(r) \/ FinishReset(r)
         \/ \E h \in Handles : IdleClose(h)
<1>1. CASE UNCHANGED vars
  BY <1>1 DEF vars
<1>2. ASSUME NEW r \in Requests, StartRequest(r)
      PROVE  UNCHANGED <<fs, data>>
  BY <1>2 DEF StartRequest, StartCreate, StartDelete, StartRestore, StartHardDelete, StartReset, StartWrite, SetStatus
<1>3. ASSUME NEW r \in Requests, InsertRow(r) \/ ExecClosed(r) \/ UpdateRow(r) \/ DeleteRow(r)
      PROVE  UNCHANGED <<fs, data>>
  BY <1>3 DEF InsertRow, ExecClosed, UpdateRow, DeleteRow
<1>4. CASE Tick \/ Crash
  BY <1>4 DEF Tick, Crash
<1>5. QED
  BY <1>1, <1>2, <1>3, <1>4 DEF Next, Step

\* The steps that change the pool or the connections.
LEMMA PoolFrame ==
  ASSUME [Next]_vars
  PROVE  \/ UNCHANGED <<pool, conn>>
         \/ \E r \in Requests : GetFast(r) \/ GetSlow(r) \/ Reconnect(r) \/ ClosePooled(r)
         \/ Crash
         \/ \E h \in Handles : IdleClose(h)
<1>1. CASE UNCHANGED vars
  BY <1>1 DEF vars
<1>2. ASSUME NEW r \in Requests, StartRequest(r)
      PROVE  UNCHANGED <<pool, conn>>
  BY <1>2 DEF StartRequest, StartCreate, StartDelete, StartRestore, StartHardDelete, StartReset, StartWrite, SetStatus
<1>3. ASSUME NEW r \in Requests,
             \/ InsertRow(r) \/ ExecWrite(r) \/ ExecClosed(r) \/ RenameDb(r) \/ RenameWal(r)
             \/ UpdateRow(r) \/ DeleteRow(r) \/ RemoveDb(r) \/ RemoveWal(r) \/ FinishReset(r)
      PROVE  UNCHANGED <<pool, conn>>
  BY <1>3 DEF InsertRow, ExecWrite, ExecClosed, RenameDb, RenameWal, UpdateRow, DeleteRow, RemoveDb, RemoveWal, FinishReset
<1>4. CASE Tick
  BY <1>4 DEF Tick
<1>5. QED
  BY <1>1, <1>2, <1>3, <1>4 DEF Next, Step

\* A step moves its own request on, or ends it.
LEMMA StepMoves ==
  ASSUME DInv, NEW r \in Requests, Step(r)
  PROVE  req' = req \/ (\E step \in Steps : Moves(r, step)) \/ Ends(r)
<1>1. CASE GetFast(r) \/ GetSlow(r)
  <2>1. CASE GetFast(r)
    <3>1. req[r].name \in Names /\ req[r].step = "get"
      BY <2>1, SlotAt DEF GetFast, DInv, TInv
    <3>2. pool[req[r].name] \in Handles \cup {None}
      BY <3>1 DEF DInv, TInv, TypeOK
    <3>3. Goto(r, "get", "getSlow") \/ (pool[req[r].name] \in Handles /\ Got(r, pool[req[r].name]))
      BY <2>1, <3>2 DEF GetFast
    <3>4. Moves(r, "getSlow") \/ Moves(r, IF req[r].op = "create" THEN "insert" ELSE "exec")
      BY <3>1, <3>3, GotoMoves, GotMoves DEF DInv, Steps
    <3>5. QED
      BY <3>4 DEF Steps
  <2>2. CASE GetSlow(r)
    <3>1. req[r].name \in Names /\ req[r].step = "getSlow"
      BY <2>2, SlotAt DEF GetSlow, DInv, TInv
    <3>2. pool[req[r].name] \in Handles \cup {None}
      BY <3>1 DEF DInv, TInv, TypeOK
    <3>3. \E h \in Handles : Got(r, h)
      BY <2>2, <3>2 DEF GetSlow
    <3>4. Moves(r, IF req[r].op = "create" THEN "insert" ELSE "exec")
      BY <3>1, <3>3, GotMoves DEF DInv
    <3>5. QED
      BY <3>4 DEF Steps
  <2>3. QED
    BY <1>1, <2>1, <2>2
<1>2. CASE Reconnect(r)
  BY <1>2 DEF Reconnect
<1>3. CASE InsertRow(r) \/ ExecWrite(r) \/ ExecClosed(r) \/ UpdateRow(r) \/ FinishReset(r) \/ DeleteRow(r)
  BY <1>3, FinishEnds DEF DInv, InsertRow, ExecWrite, ExecClosed, UpdateRow, FinishReset, DeleteRow
<1>4. CASE RenameDb(r) \/ RenameWal(r) \/ ClosePooled(r) \/ RemoveDb(r) \/ RemoveWal(r)
  <2>1. \E from \in Steps, to \in Steps : Goto(r, from, to)
    BY <1>4 DEF RenameDb, RenameWal, ClosePooled, RemoveDb, RemoveWal, Steps
  <2>2. QED
    BY <2>1, GotoMoves DEF DInv
<1>5. QED
  BY <1>1, <1>2, <1>3, <1>4 DEF Step

\* A step moves, ends or begins one request; a crash ends all.
LEMMA RequestFrame ==
  ASSUME DInv, Careful, [Next]_vars
  PROVE  \/ req' = req
         \/ \A q \in Requests : req'[q] = IdleSlot
         \/ \E r \in Requests :
              \/ \E step \in Steps : Moves(r, step)
              \/ Ends(r)
              \/ \E op \in Ops \ {"idle"}, n \in Names, step \in Steps : Begins(r, op, n, step)
<1>1. CASE UNCHANGED vars
  BY <1>1 DEF vars
<1>2. ASSUME NEW r \in Requests, StartRequest(r)
      PROVE  req' = req \/ \E op \in Ops \ {"idle"}, n \in Names, step \in Steps : Begins(r, op, n, step)
  <2>1. PICK n \in Names :
        \/ StartCreate(r, n) \/ StartDelete(r, n) \/ StartRestore(r, n)
        \/ StartHardDelete(r, n) \/ StartReset(r, n)
        \/ \E w \in Writes : StartWrite(r, n, w)
        \/ \E status \in {"active", "inactive"} : SetStatus(r, n, status)
    BY <1>2 DEF StartRequest
  <2>2. {"create", "write", "delete", "restore", "hardDelete", "reset"} \subseteq Ops \ {"idle"}
    BY DEF Ops, LifeCycle
  <2>3. {"get", "renameDb", "removeDb", "close"} \subseteq Steps
    BY DEF Steps
  <2>4. \/ Begins(r, "create", n, "get") \/ Begins(r, "write", n, "get") \/ Begins(r, "delete", n, "renameDb")
        \/ Begins(r, "restore", n, "renameDb") \/ Begins(r, "hardDelete", n, "removeDb") \/ Begins(r, "reset", n, "close")
        \/ req' = req
    BY <2>1, StartCreateEffect, StartWriteEffect, StartDeleteEffect, StartRestoreEffect, StartHardDeleteEffect,
       StartResetEffect, SetStatusEffect DEF DInv
  <2>5. QED
    BY <2>2, <2>3, <2>4
<1>3. ASSUME NEW r \in Requests, Step(r)
      PROVE  req' = req \/ (\E step \in Steps : Moves(r, step)) \/ Ends(r)
  BY <1>3, StepMoves
<1>4. CASE (\E h \in Handles : IdleClose(h)) \/ Tick \/ Crash
  BY <1>4 DEF IdleClose, Tick, Crash
<1>5. QED
  BY <1>1, <1>2, <1>3, <1>4 DEF Next

-----------------------------------------------------------------------------
(* Each part of the invariant is kept. *)

\* Life-cycle requests stay alone.
LEMMA AloneKept ==
  ASSUME DInv, Careful, [Next]_vars
  PROVE  Alone'
<1> USE DEF DInv
<1>1. CASE req' = req
  BY <1>1 DEF Alone
<1>2. CASE \A q \in Requests : req'[q] = IdleSlot
  BY <1>2 DEF Alone, IdleSlot
<1>3. ASSUME NEW r \in Requests, NEW step \in Steps, Moves(r, step) PROVE Alone'
  BY <1>3 DEF Alone, Moves, Others
<1>4. ASSUME NEW r \in Requests, Ends(r) PROVE Alone'
  BY <1>4 DEF Alone, Ends, Others, IdleSlot, LifeCycle
<1>5. ASSUME NEW r \in Requests, NEW op \in Ops \ {"idle"}, NEW n \in Names, NEW step \in Steps, Begins(r, op, n, step)
      PROVE  Alone'
  BY <1>5 DEF Alone, Begins, Others
<1>6. QED
  BY <1>1, <1>2, <1>3, <1>4, <1>5, RequestFrame

\* Rows that keep their ids and lineages, or are gone, stay rows of one table.
LEMMA RowsFewer ==
  ASSUME Rows, UNCHANGED <<lastDelete, clock>>,
         \A m \in Names : rows'[m].status = "none" => rows'[m] = NoRow,
         \A m \in Names : Exists(m)' => Exists(m) /\ rows'[m].id = rows[m].id,
         \A m \in Names : rows'[m].orig # None => rows'[m].orig = rows[m].orig,
         \A m \in Names : rows'[m].status = "deleted" => Len(m) > 1
  PROVE  Rows'
<1>1. \A n \in Names : Exists(n)' => rows'[n].id # 0
  BY DEF Rows
<1>2. \A n, m \in Names : Exists(n)' /\ Exists(m)' /\ rows'[n].id = rows'[m].id => n = m
  BY DEF Rows
<1>3. \A n \in Names : Exists(n)' => \A i \in 2..Len(n) : n[i] <= lastDelete'
  BY DEF Rows
<1>4. \A n, m \in Names :
        Exists(n)' /\ Exists(m)' /\ Len(n) > 1 /\ Len(m) > 1 /\ n[1] = m[1] /\ n[2] = m[2] => n = m
  BY DEF Rows
<1>5. \A n \in Names : rows'[n].orig # None => \E e \in Epochs : n = Append(rows'[n].orig, e)
  BY DEF Rows
<1>6. lastDelete' <= clock'
  BY DEF Rows
<1>7. QED
  BY <1>1, <1>2, <1>3, <1>4, <1>5, <1>6 DEF Rows

\* Ids and lineages stay those of one row.
LEMMA RowsKept ==
  ASSUME DInv, Careful, [Next]_vars
  PROVE  Rows'
<1> USE DEF DInv
<1>0. /\ rows \in [Names -> Row] /\ lastDelete \in Int /\ clock \in Int
      /\ \A n \in Names : Len(n) \in Nat /\ \A i \in 2..Len(n) : n[i] \in Int
  BY NameParts, BoundsAssumption DEF TInv, TypeOK, Epochs
<1>1. CASE UNCHANGED <<rows, lastDelete>> /\ clock' \in {clock, clock + 1}
  BY <1>0, <1>1 DEF Rows, Exists
<1>2. ASSUME NEW r \in Requests, NEW n \in Names, StartDelete(r, n) PROVE Rows'
  <2>1. lastDelete < clock /\ lastDelete' = clock /\ UNCHANGED <<rows, clock>>
    BY <1>2, StartDeleteEffect
  <2>2. QED
    BY <1>0, <2>1 DEF Rows, Exists
<1>3. ASSUME NEW r \in Requests, NEW n \in Names, NEW status \in {"active", "inactive"}, SetStatus(r, n, status)
      PROVE  Rows'
  <2>1. /\ Exists(n) /\ rows'[n].status = status /\ rows'[n].id = rows[n].id /\ rows'[n].orig = rows[n].orig
        /\ \A m \in Names \ {n} : rows'[m] = rows[m]
        /\ UNCHANGED <<lastDelete, clock>>
    BY <1>3, SetStatusEffect
  <2>2. \A m \in Names : (Exists(m)' <=> Exists(m)) /\ rows'[m].id = rows[m].id /\ rows'[m].orig = rows[m].orig
    BY <2>1 DEF Exists
  <2>3. \A m \in Names : rows'[m].status = "none" => rows'[m] = NoRow
    BY <2>1 DEF Rows
  <2>4. \A m \in Names : rows'[m].status = "deleted" => Len(m) > 1
    BY <2>1 DEF Rows
  <2>5. QED
    BY <2>1, <2>2, <2>3, <2>4, RowsFewer
<1>4. ASSUME NEW r \in Requests, InsertRow(r) PROVE Rows'
  <2> DEFINE n == req[r].name
  <2>1. n \in Names /\ Len(n) = 1 /\ UNCHANGED <<lastDelete, clock>>
    BY <1>4, InsertRowEffect
  <2>2. CASE rows' = rows
    BY <2>1, <2>2 DEF Rows, Exists
  <2>3. CASE /\ ~Exists(n) /\ \A m \in Names \ {n} : rows'[m] = rows[m]
             /\ rows'[n] = [id |-> FreshId, status |-> "active", orig |-> None]
             /\ FreshId # 0 /\ FreshId \notin Ids
    <3>1. rows'[n].status = "active" /\ rows'[n].orig = None /\ rows'[n].id = FreshId
      BY <2>3
    <3>2. \A m \in Names \ {n} : Exists(m) => rows[m].id # FreshId
      BY <2>3, IdsUsed DEF Rows, Exists
    <3> HIDE DEF n
    <3>3. \A m \in Names : Exists(m)' => Exists(m) \/ m = n
      BY <2>3 DEF Exists
    <3>4. /\ \A m \in Names : rows'[m].status = "none" => rows'[m] = NoRow
          /\ \A m \in Names : Exists(m)' => rows'[m].id # 0
          /\ \A m, k \in Names : Exists(m)' /\ Exists(k)' /\ rows'[m].id = rows'[k].id => m = k
      BY <2>3, <3>1, <3>2, <3>3 DEF Rows
    <3>5. \A m \in Names : Exists(m)' => \A i \in 2..Len(m) : m[i] <= lastDelete
      BY <1>0, <2>1, <3>3 DEF Rows
    <3>6. \A m, k \in Names : Exists(m)' /\ Exists(k)' /\ Len(m) > 1 /\ Len(k) > 1 /\ m[1] = k[1] /\ m[2] = k[2] => m = k
      BY <2>1, <3>3 DEF Rows
    <3>7. \A m \in Names : rows'[m].orig # None => \E e \in Epochs : m = Append(rows'[m].orig, e)
      BY <2>3, <3>1 DEF Rows
    <3>8. \A m \in Names : rows'[m].status = "deleted" => Len(m) > 1
      BY <2>3, <3>1 DEF Rows
    <3>9. QED
      BY <2>1, <3>4, <3>5, <3>6, <3>7, <3>8 DEF Rows
  <2>4. QED
    BY <1>4, <2>2, <2>3, InsertRowEffect
<1>5. ASSUME NEW r \in Requests, UpdateRow(r) PROVE Rows'
  <2> DEFINE n == req[r].name
             to == req[r].to
  <2>1. /\ req[r].op \in {"delete", "restore"}
        /\ n \in Names /\ to \in Names /\ n # to /\ Exists(n) /\ ~Exists(to)
        /\ \A m \in Names \ {n, to} : rows'[m] = rows[m]
        /\ rows'[n] = NoRow
        /\ rows'[to].id = rows[n].id
        /\ req[r].op = "delete" => rows'[to].status = "deleted" /\ rows'[to].orig = n
        /\ req[r].op = "restore" => rows'[to].status = "active" /\ rows'[to].orig = None
        /\ UNCHANGED <<lastDelete, clock>>
    BY <1>5, UpdateRowEffect
  <2>2. NoRow.status = "none" /\ NoRow.orig = None
    BY DEF NoRow
  <2>3. Pending(r)
    BY DEF Requested
  <2> HIDE DEF n, to
  <2>4. rows'[to].status # "none" /\ rows'[n].status = "none" /\ rows'[n].orig = None
    BY <2>1, <2>2
  <2>5. /\ \A m \in Names : rows'[m].status = "none" => rows'[m] = NoRow
        /\ \A m \in Names : Exists(m)' => rows'[m].id # 0
        /\ \A m, k \in Names : Exists(m)' /\ Exists(k)' /\ rows'[m].id = rows'[k].id => m = k
    <3>1. \A m \in Names : Exists(m)' => m = to \/ (m \notin {n, to} /\ Exists(m) /\ rows'[m] = rows[m])
      BY <2>1, <2>4 DEF Exists
    <3>2. \A m \in Names : rows'[m].status = "none" => rows'[m] = NoRow
      BY <2>1, <2>4 DEF Rows
    <3>3. rows[n].id # 0 /\ \A m \in Names : Exists(m) /\ rows[m].id = rows[n].id => m = n
      BY <2>1 DEF Rows
    <3>4. \A m \in Names : Exists(m)' => rows'[m].id # 0
      BY <2>1, <3>1, <3>3 DEF Rows
    <3>5. ASSUME NEW m \in Names, NEW k \in Names, Exists(m)', Exists(k)', rows'[m].id = rows'[k].id, m # to
          PROVE  m = k
      <4>1. m # n /\ Exists(m) /\ rows'[m] = rows[m]
        BY <3>1, <3>5
      <4>2. k # to
        BY <2>1, <3>3, <3>5, <4>1
      <4>3. Exists(k) /\ rows'[k] = rows[k]
        BY <3>1, <3>5, <4>2
      <4>4. QED
        BY <3>5, <4>1, <4>3 DEF Rows
    <3>6. QED
      BY <3>2, <3>4, <3>5
  <2>6. CASE req[r].op = "delete"
    <3>1. /\ to = Append(n, lastDelete) /\ lastDelete \in Epochs
          /\ \A m \in Names : Exists(m) => \A i \in 2..Len(m) : m[i] < lastDelete
      BY <2>3, <2>6 DEF Pending, n, to
    <3>2. Len(to) = Len(n) + 1 /\ to[Len(n) + 1] = lastDelete /\ \A i \in 1..Len(n) : to[i] = n[i]
      BY <2>1, <3>1, AppendParts
    <3>3. Len(n) \in Nat /\ (Len(n) = 1 \/ Len(n) > 1)
      <4>1. Len(n) \in Nat /\ Len(n) >= 1
        BY <2>1, NameParts
      <4>2. \A k \in Nat : k >= 1 => k = 1 \/ k > 1
        OBVIOUS
      <4>3. QED
        BY <4>1, <4>2, Zenon
    <3>4. \A i \in 2..Len(to) : to[i] <= lastDelete
      BY <1>0, <2>1, <3>1, <3>2, <3>3 DEF Rows, Exists
    <3>5. ASSUME NEW m \in Names, Exists(m), m # n, Len(m) > 1, to[1] = m[1], to[2] = m[2]
          PROVE  FALSE
      <4>1. CASE Len(n) = 1
        <5>1. to[2] = lastDelete
          BY <3>2, <4>1
        <5>2. 2 \in 2..Len(m) /\ m[2] \in Int
          BY <1>0, <3>5
        <5>3. m[2] < lastDelete
          BY <3>1, <3>5, <5>2
        <5>4. QED
          BY <1>0, <3>5, <5>1, <5>2, <5>3
      <4>2. CASE Len(n) > 1
        BY <2>1, <3>2, <3>5, <4>2 DEF Rows, Exists
      <4>3. QED
        BY <3>3, <4>1, <4>2
    <3>6. /\ \A m \in Names : rows'[m].status = "none" => rows'[m] = NoRow
          /\ \A m \in Names : Exists(m)' => rows'[m].id # 0
          /\ \A m, k \in Names : Exists(m)' /\ Exists(k)' /\ rows'[m].id = rows'[k].id => m = k
      BY <2>5, Zenon
    <3>7. \A m \in Names : Exists(m)' => \A i \in 2..Len(m) : m[i] <= lastDelete
      BY <2>1, <2>4, <3>4 DEF Rows, Exists
    <3>8. \A m, k \in Names : Exists(m)' /\ Exists(k)' /\ Len(m) > 1 /\ Len(k) > 1 /\ m[1] = k[1] /\ m[2] = k[2] => m = k
      BY <2>1, <2>4, <3>5 DEF Rows, Exists
    <3>9. \A m \in Names : rows'[m].orig # None => \E e \in Epochs : m = Append(rows'[m].orig, e)
      <4>1. ASSUME NEW m \in Names, rows'[m].orig # None, m # to
            PROVE  \E e \in Epochs : m = Append(rows'[m].orig, e)
        <5>1. m # n
          BY <2>4, <4>1
        <5>2. rows'[m] = rows[m]
          BY <2>1, <4>1, <5>1
        <5>3. QED
          BY <4>1, <5>2 DEF Rows
      <4>2. rows'[to].orig = n
        BY <2>1, <2>6
      <4>3. \E e \in Epochs : to = Append(rows'[to].orig, e)
        BY <3>1, <4>2
      <4>4. QED
        BY <4>1, <4>3
    <3>10. \A m \in Names : rows'[m].status = "deleted" => Len(m) > 1
      BY <2>1, <2>4, <3>2, <3>3 DEF Rows, Exists
    <3>11. QED
      BY <2>1, <3>6, <3>7, <3>8, <3>9, <3>10 DEF Rows, Exists
  <2>7. CASE req[r].op = "restore"
    <3>1. PICK e \in Epochs : n = Append(to, e)
      BY <2>3, <2>7 DEF Pending, n, to
    <3>2. Len(n) = Len(to) + 1 /\ \A i \in 1..Len(to) : n[i] = to[i]
      BY <2>1, <3>1, AppendParts
    <3>3. Len(to) \in Nat /\ Len(to) >= 1
      BY <2>1, NameParts
    <3>4. \A i \in 2..Len(to) : to[i] <= lastDelete
      BY <1>0, <2>1, <3>2, <3>3 DEF Rows, Exists
    <3>5. ASSUME NEW m \in Names, Exists(m), m # n, Len(m) > 1, Len(to) > 1, to[1] = m[1], to[2] = m[2]
          PROVE  FALSE
      BY <2>1, <3>2, <3>3, <3>5 DEF Rows, Exists
    <3>6. /\ \A m \in Names : rows'[m].status = "none" => rows'[m] = NoRow
          /\ \A m \in Names : Exists(m)' => rows'[m].id # 0
          /\ \A m, k \in Names : Exists(m)' /\ Exists(k)' /\ rows'[m].id = rows'[k].id => m = k
      BY <2>5, Zenon
    <3>7. \A m \in Names : Exists(m)' => \A i \in 2..Len(m) : m[i] <= lastDelete
      BY <2>1, <2>4, <3>4 DEF Rows, Exists
    <3>8. \A m, k \in Names : Exists(m)' /\ Exists(k)' /\ Len(m) > 1 /\ Len(k) > 1 /\ m[1] = k[1] /\ m[2] = k[2] => m = k
      BY <2>1, <2>4, <3>5 DEF Rows, Exists
    <3>9. \A m \in Names : rows'[m].orig # None => \E f \in Epochs : m = Append(rows'[m].orig, f)
      BY <2>1, <2>4, <2>7 DEF Rows, Exists
    <3>10. \A m \in Names : rows'[m].status = "deleted" => Len(m) > 1
      BY <2>1, <2>4, <2>7 DEF Rows, Exists
    <3>11. QED
      BY <2>1, <3>6, <3>7, <3>8, <3>9, <3>10 DEF Rows, Exists
  <2>8. QED
    BY <2>1, <2>6, <2>7
<1>6. ASSUME NEW r \in Requests, DeleteRow(r) PROVE Rows'
  <2> DEFINE n == req[r].name
  <2>1. /\ n \in Names /\ rows'[n] = NoRow /\ \A m \in Names \ {n} : rows'[m] = rows[m]
        /\ UNCHANGED <<lastDelete, clock>>
    BY <1>6, DeleteRowEffect
  <2>2. rows'[n].status = "none" /\ rows'[n].orig = None
    BY <2>1 DEF NoRow
  <2> HIDE DEF n
  <2>3. \A m \in Names : Exists(m)' => Exists(m) /\ m # n
    BY <2>1, <2>2 DEF Exists
  <2>4. \A m \in Names : rows'[m].status = "none" => rows'[m] = NoRow
    BY <2>1 DEF Rows
  <2>5. \A m \in Names : rows'[m].status = "deleted" => Len(m) > 1
    BY <2>1, <2>2 DEF Rows
  <2>6. /\ \A m \in Names : Exists(m)' => Exists(m) /\ rows'[m].id = rows[m].id
        /\ \A m \in Names : rows'[m].orig # None => rows'[m].orig = rows[m].orig
    BY <2>1, <2>2, <2>3
  <2>7. QED
    BY <2>1, <2>4, <2>5, <2>6, RowsFewer
<1>7. QED
  BY <1>1, <1>2, <1>3, <1>4, <1>5, <1>6, RowsFrame

\* What a step does to the directory, the files and the pool.
LEMMA FilesSteps ==
  ASSUME DInv, Careful, [Next]_vars
  PROVE  \/ UNCHANGED <<fs, data, pool, conn>>
         \/ \E h \in Handles, n \in Names : Opens(h, n)
         \/ \E n \in Names : Closes(n)
         \/ \E r \in Requests : ExecWrite(r) \/ RenameDb(r) \/ RenameWal(r) \/ RemoveDb(r) \/ RemoveWal(r) \/ FinishReset(r)
         \/ Crash
<1>1. ASSUME NEW r \in Requests, GetFast(r) \/ GetSlow(r)
      PROVE  UNCHANGED <<fs, data, pool, conn>> \/ \E h \in Handles, n \in Names : Opens(h, n)
  <2>1. Looks(r) => UNCHANGED <<fs, data, pool, conn>>
    BY DEF Looks
  <2>2. \A h, n : Opens(h, n) => h \in Handles /\ n \in Names
    BY DEF Opens
  <2>3. QED
    BY <1>1, <2>1, <2>2, GetEffect
<1>2. ASSUME NEW r \in Requests, Reconnect(r)
      PROVE  \E h \in Handles, n \in Names : Opens(h, n)
  <2>1. \A h, n : Opens(h, n) => h \in Handles /\ n \in Names
    BY DEF Opens
  <2>2. QED
    BY <1>2, <2>1, ReconnectEffect
<1>3. ASSUME NEW r \in Requests, ClosePooled(r)
      PROVE  UNCHANGED <<fs, data, pool, conn>> \/ \E n \in Names : Closes(n)
  BY <1>3, ClosePooledEffect
<1>4. ASSUME NEW h \in Handles, IdleClose(h)
      PROVE  \E n \in Names : Closes(n)
  BY <1>4, IdleCloseEffect DEF Closes
<1>5. ASSUME NEW r \in Requests, ExecWrite(r) \/ RenameDb(r) \/ RenameWal(r) \/ RemoveDb(r) \/ RemoveWal(r) \/ FinishReset(r)
      PROVE  UNCHANGED <<pool, conn>>
  BY <1>5 DEF ExecWrite, RenameDb, RenameWal, RemoveDb, RemoveWal, FinishReset
<1>6. Crash => UNCHANGED <<fs, data>>
  BY DEF Crash
<1>7. QED
  BY <1>1, <1>2, <1>3, <1>4, <1>5, <1>6, FilesFrame, PoolFrame

\* A connection is opened for a slug or for a registered database.
LEMMA OpensLive ==
  ASSUME DInv, NEW h \in Handles, NEW n \in Names, Opens(h, n)
  PROVE  ~Ahead(n) /\ ~Spent(n) /\ ~Half(n)
<1>1. PICK r \in Requests : req[r].op \in {"create", "write"} /\ req[r].name = n
  BY DEF Opens
<1>2. Pending(r) /\ Slot(req[r])
  BY DEF DInv, Requested, TInv, Slots
<1>3. Len(n) = 1 \/ Exists(n)
  BY <1>1, <1>2 DEF Pending, Slot
<1>4. ~Half(n)
  BY CalmIsWhole DEF DInv, Half, Opens
<1>5. QED
  BY <1>3, <1>4, ExistsIsLive, SlugIsLive DEF DInv

\* Both names of a rename have only epochs of deletes so far.
LEMMA RenamedArePast ==
  ASSUME DInv, NEW r \in Requests, req[r].op \in {"delete", "restore"}
  PROVE  /\ req[r].name \in Names /\ req[r].to \in Names
         /\ ~Ahead(req[r].name) /\ ~Ahead(req[r].to)
         /\ Exists(req[r].name) /\ ~Spent(req[r].name)
<1> DEFINE n == req[r].name
           to == req[r].to
<1>1. /\ n \in Names /\ to \in Names /\ Pending(r)
      /\ req[r].op \in LifeCycle
  BY DEF DInv, TInv, Slots, Slot, Requested, LifeCycle
<1>2. Exists(n)
  BY <1>1 DEF Pending
<1>3. ~Ahead(n) /\ ~Spent(n)
  BY <1>1, <1>2, ExistsIsLive DEF DInv
<1>4. lastDelete \in Int
  BY BoundsAssumption DEF DInv, TInv, TypeOK
<1>5. CASE req[r].op = "delete"
  <2>1. to = Append(n, lastDelete) /\ lastDelete \in Epochs
    BY <1>1, <1>5 DEF Pending
  <2> HIDE DEF n, to
  <2>2. to[Len(to)] = lastDelete
    BY <1>1, <2>1, AppendParts
  <2>3. ~Ahead(to)
    BY <1>4, <2>2 DEF Ahead
  <2>4. QED
    BY <1>1, <1>2, <1>3, <2>3 DEF n, to
<1>6. CASE req[r].op = "restore"
  <2>1. PICK e \in Epochs : n = Append(to, e)
    BY <1>1, <1>6 DEF Pending
  <2> HIDE DEF n, to
  <2>2. Len(n) = Len(to) + 1 /\ \A i \in 1..Len(to) : n[i] = to[i]
    BY <1>1, <2>1, AppendParts
  <2>3. Len(to) \in Nat /\ \A i \in 2..Len(n) : n[i] <= lastDelete
    BY <1>1, <1>2, NameParts DEF DInv, Rows
  <2>4. ASSUME Len(to) > 1 PROVE to[Len(to)] <= lastDelete
    BY <2>2, <2>3, <2>4
  <2>5. \A i \in 2..Len(to) : to[i] \in Int
    BY <1>1, NameParts DEF Epochs
  <2>6. ~Ahead(to)
    BY <1>4, <2>3, <2>4, <2>5 DEF Ahead
  <2>7. QED
    BY <1>1, <1>2, <1>3, <2>6 DEF n, to
<1>7. QED
  BY <1>5, <1>6

\* Deletes only come later: a name is ahead only if it was.
LEMMA AheadWas ==
  ASSUME DInv, TInv', Careful, [Next]_vars, NEW n \in Names, Ahead(n)'
  PROVE  Ahead(n)
<1>1. lastDelete' >= lastDelete
  <2>1. ASSUME NEW r \in Requests, NEW m \in Names, StartDelete(r, m) PROVE lastDelete' > lastDelete
    <3>1. lastDelete < clock /\ lastDelete' = clock
      BY <2>1, StartDeleteEffect DEF DInv
    <3>2. QED
      BY <3>1
  <2>2. \A r \in Requests, m \in Names, status \in {"active", "inactive"} : SetStatus(r, m, status) => lastDelete' = lastDelete
    BY DEF SetStatus, History
  <2>3. \A r \in Requests : InsertRow(r) \/ UpdateRow(r) \/ DeleteRow(r) => lastDelete' = lastDelete
    BY DEF InsertRow, UpdateRow, DeleteRow, History
  <2>4. lastDelete \in Int
    BY BoundsAssumption DEF DInv, TInv, TypeOK
  <2>5. lastDelete' = lastDelete \/ lastDelete' > lastDelete
    BY <2>1, <2>2, <2>3, RowsFrame
  <2>6. lastDelete' \in Int
    BY BoundsAssumption DEF TInv, TypeOK
  <2>7. QED
    BY <2>4, <2>5, <2>6
<1>2. lastDelete \in Int /\ lastDelete' \in Int
  BY BoundsAssumption DEF DInv, TInv, TypeOK
<1>3. Len(n) > 1 => n[Len(n)] \in Int
  BY NameParts DEF Epochs
<1>4. Len(n) > 1 /\ n[Len(n)] > lastDelete'
  BY DEF Ahead
<1>5. QED
  BY <1>1, <1>2, <1>3, <1>4 DEF Ahead

\* A name that deletes have not reached stays without files and connection.
LEMMA UntouchedKept ==
  ASSUME DInv, TInv', Careful, [Next]_vars
  PROVE  Untouched'
<1> SUFFICES ASSUME NEW n \in Names, Ahead(n)'
             PROVE  fs'[n] = NoFiles /\ pool'[n] = None
  BY DEF Untouched
<1>1. Ahead(n) /\ fs[n] = NoFiles /\ pool[n] = None
  BY AheadWas DEF DInv, Untouched
<1>2. None \notin Handles /\ \A m \in Names : Exists(m) => m # n
  BY <1>1, NoneAssumption, ExistsIsLive DEF DInv
<1>3. CASE UNCHANGED <<fs, data, pool, conn>>
  BY <1>1, <1>3
<1>4. ASSUME NEW h \in Handles, NEW m \in Names, Opens(h, m)
      PROVE  fs'[n] = NoFiles /\ pool'[n] = None
  BY <1>1, <1>4, OpensLive DEF Opens
<1>5. ASSUME NEW m \in Names, Closes(m)
      PROVE  fs'[n] = NoFiles /\ pool'[n] = None
  BY <1>1, <1>2, <1>5 DEF Closes
<1>6. ASSUME NEW r \in Requests, RenameDb(r) \/ RenameWal(r)
      PROVE  fs'[n] = NoFiles /\ pool'[n] = None
  <2>1. req[r].op \in {"delete", "restore"} /\ pool' = pool
        /\ \A m \in Names \ {req[r].name, req[r].to} : fs'[m] = fs[m]
    BY <1>6, RenameDbEffect, RenameWalEffect
  <2>2. QED
    BY <1>1, <2>1, RenamedArePast
<1>7. ASSUME NEW r \in Requests, ExecWrite(r) \/ RemoveDb(r) \/ RemoveWal(r) \/ FinishReset(r)
      PROVE  fs'[n] = NoFiles /\ pool'[n] = None
  BY <1>1, <1>2, <1>7, ExecWriteEffect, RemoveDbEffect, RemoveWalEffect, FinishResetEffect
<1>8. CASE Crash
  BY <1>1, <1>8 DEF Crash
<1>9. QED
  BY <1>3, <1>4, <1>5, <1>6, <1>7, <1>8, FilesSteps
-----------------------------------------------------------------------------
(* What requests rely on *)

\* A slot that has become free relies on nothing.
LEMMA FreePends ==
  ASSUME NEW q \in Requests, req'[q] = IdleSlot
  PROVE  Pending(q)'
BY DEF Pending, IdleSlot, LifeCycle

\* When a life-cycle request takes a step, every other slot is free.
LEMMA LifeOthers ==
  ASSUME DInv, NEW r \in Requests, req[r].op \in LifeCycle, Others(r)
  PROVE  \A q \in Requests \ {r} : req'[q] = IdleSlot
BY LifeIsAlone DEF DInv, Others

\* A request that is no life-cycle request relies on its row, and on the pool
\* when it has got its handle.
LEMMA DataPends ==
  ASSUME TInv', NEW q \in Requests, req'[q].op \notin LifeCycle,
         req'[q].op # "write" => req'[q].write = None,
         req'[q].op = "write" =>
           /\ Exists(req[q].name)' /\ home'[req'[q].write] = rows'[req'[q].name].id /\ req'[q].write \notin acked'
           /\ \A p \in Requests : req'[p].write = req'[q].write => p = q
           /\ req'[q].step = "exec" => pool'[req'[q].name] = req'[q].handle
  PROVE  Pending(q)'
<1>1. req'[q].op \in Ops /\ Slot(req'[q])
  BY DEF TInv, TypeOK, Slots, Request
<1>2. req'[q].step \in {"idle", "get", "getSlow", "insert", "exec"}
  BY <1>1 DEF Slot, Ops, LifeCycle, IdleSlot
<1>3. QED
  BY <1>2 DEF Pending, LifeCycle

\* A request that begins finds what it relies on, and takes it from no other.
LEMMA StartPends ==
  ASSUME DInv, TInv', Careful, NEW r \in Requests, StartRequest(r)
  PROVE  Requested'
<1> SUFFICES ASSUME NEW q \in Requests PROVE Pending(q)'
  BY DEF Requested
<1> USE DEF DInv
<1>0. PICK n \in Names :
        \/ StartCreate(r, n) \/ StartDelete(r, n) \/ StartRestore(r, n)
        \/ StartHardDelete(r, n) \/ StartReset(r, n)
        \/ \E w \in Writes : StartWrite(r, n, w)
        \/ \E status \in {"active", "inactive"} : SetStatus(r, n, status)
  BY DEF StartRequest
<1>1. Pending(q) /\ \A p \in Requests : Pending(p) /\ Slot(req[p]) /\ req[p] \in Request
  BY DEF Requested, TInv, TypeOK, Slots
<1>2. /\ None \notin Writes /\ lastDelete \in Int /\ clock \in Int
      /\ \A m \in Names : Len(m) \in Nat /\ \A i \in 2..Len(m) : m[i] \in Int
  BY NoneAssumption, NameParts, BoundsAssumption DEF TInv, TypeOK, Epochs
<1>3. CASE \E op \in LifeCycle, step \in Steps : Begins(r, op, n, step) /\ q # r
  <2>1. req'[q] = req[q] /\ req[q].op = "idle"
    BY <1>3 DEF Begins, Others
  <2>2. req[q] = IdleSlot
    BY <1>1, <2>1 DEF Slot
  <2>3. QED
    BY <2>1, <2>2, FreePends
<1>4. CASE StartCreate(r, n)
  <2>1. /\ Begins(r, "create", n, "get") /\ req'[r].write = None
        /\ UNCHANGED <<rows, pool, home, acked>>
    BY <1>4, StartCreateEffect DEF History
  <2>2. CASE q = r
    BY <2>1, <2>2, DataPends DEF Begins, LifeCycle
  <2>3. CASE q # r
    <3>1. req'[q] = req[q] /\ req[q].op \notin LifeCycle
      BY <2>1, <2>3 DEF Begins, Others
    <3>2. req[q].op = "write" => \A p \in Requests : req'[p].write = req[q].write => p = q
      BY <1>1, <1>2, <2>1 DEF Begins, Others, Pending, Slot
    <3>3. QED
      BY <1>1, <2>1, <3>1, <3>2, DataPends DEF Pending, Exists
  <2>4. QED
    BY <2>2, <2>3
<1>5. ASSUME NEW w \in Writes, StartWrite(r, n, w) PROVE Pending(q)'
  <2>1. /\ Begins(r, "write", n, "get") /\ req'[r].write = w
        /\ Exists(n) /\ home[w] = 0 /\ home'[w] = rows[n].id /\ \A v \in Writes \ {w} : home'[v] = home[v]
        /\ UNCHANGED <<rows, pool, acked>>
    BY <1>5, StartWriteEffect
  <2>2. w \notin acked
    BY <2>1 DEF Contents
  <2>3. \A p \in Requests : req[p].write # w
    <3>1. ASSUME NEW p \in Requests, req[p].write = w PROVE FALSE
      <4>1. req[p].op = "write" /\ Exists(req[p].name) /\ req[p].name \in Names /\ home[w] = rows[req[p].name].id
        BY <1>1, <1>2, <3>1 DEF Pending, Slot
      <4>2. QED
        BY <2>1, <4>1 DEF Rows
    <3>2. QED
      BY <3>1
  <2>4. CASE q = r
    <3>1. \A p \in Requests : req'[p].write = w => p = r
      BY <2>1, <2>3 DEF Begins, Others
    <3>2. req'[r].op = "write" /\ req'[r].step = "get" /\ req'[r].name = n
      BY <2>1 DEF Begins
    <3>3. QED
      BY <2>1, <2>2, <2>4, <3>1, <3>2, DataPends DEF LifeCycle, Exists
  <2>5. CASE q # r
    <3>1. req'[q] = req[q] /\ req[q].op \notin LifeCycle
      BY <2>1, <2>5 DEF Begins, Others
    <3>2. req[q].op = "write" => home'[req[q].write] = home[req[q].write]
      BY <1>1, <2>1, <2>3 DEF Slot
    <3>3. req[q].op = "write" => \A p \in Requests : req'[p].write = req[q].write => p = q
      BY <1>1, <2>1, <2>3 DEF Begins, Others, Pending
    <3>4. QED
      BY <1>1, <2>1, <3>1, <3>2, <3>3, DataPends DEF Pending, Exists
  <2>6. QED
    BY <2>4, <2>5
<1>6. CASE StartDelete(r, n)
  <2>1. /\ Begins(r, "delete", n, "renameDb") /\ req'[r].to = Append(n, clock) /\ req'[r].write = None
        /\ Append(n, clock) \in Names /\ clock \in Epochs /\ Exists(n)
        /\ lastDelete < clock /\ lastDelete' = clock
        /\ UNCHANGED <<rows, fs, pool>>
    BY <1>6, StartDeleteEffect
  <2> DEFINE to == Append(n, clock)
  <2>2. Len(to) = Len(n) + 1 /\ to[Len(to)] = clock /\ Len(n) >= 1 /\ to \in Names
    BY <2>1, AppendParts, NameParts
  <2>3. \A m \in Names : Exists(m) => \A i \in 2..Len(m) : m[i] < clock
    BY <1>2, <2>1 DEF Rows
  <2> HIDE DEF to
  <2>4. ~Exists(to) /\ Ahead(to)
    BY <1>2, <2>1, <2>2, <2>3 DEF Ahead
  <2>5. pool[to] = None
    BY <2>2, <2>4 DEF Untouched
  <2>6. CASE q = r
    <3>1. req'[r].op = "delete" /\ req'[r].step = "renameDb" /\ req'[r].name = n /\ req'[r].to = to
      BY <2>1 DEF Begins, to
    <3>2. to = Append(n, lastDelete')
      BY <2>1 DEF to
    <3>3. rows'[n].status # "none" /\ rows'[to].status = "none" /\ \A m \in Names : Exists(m)' => Exists(m)
      BY <2>1, <2>4 DEF Exists
    <3>4. \A m \in Names : Exists(m)' => \A i \in 2..Len(m) : m[i] < lastDelete'
      BY <2>1, <2>3, <3>3
    <3>5. QED
      BY <2>1, <2>5, <2>6, <3>1, <3>2, <3>3, <3>4 DEF Pending, LifeCycle, Exists
  <2>7. QED
    BY <1>3, <2>1, <2>6 DEF LifeCycle, Steps
<1>7. CASE StartRestore(r, n)
  <2>1. /\ Begins(r, "restore", n, "renameDb") /\ req'[r].to = rows[n].orig /\ req'[r].write = None
        /\ rows[n].orig \in Names /\ rows[n].orig # None
        /\ rows[n].status = "deleted" /\ ~Exists(rows[n].orig)
        /\ UNCHANGED <<rows, fs, pool>>
    BY <1>7, StartRestoreEffect
  <2>2. Exists(n)
    BY <2>1 DEF Exists
  <2>3. PICK e \in Epochs : n = Append(rows[n].orig, e)
    BY <2>1 DEF Rows
  <2>4. Under(rows[n].orig, n)
    BY <2>1, <2>3, AppendParts
  <2>5. ~Spent(rows[n].orig)
    BY <2>2, <2>4 DEF Spent
  <2>6. \A p \in Requests : req[p].op # "create"
    BY <2>1 DEF Begins, LifeCycle
  <2>7. pool[rows[n].orig] = None
    BY <2>1, <2>5, <2>6 DEF Pooled
  <2>8. CASE q = r
    <3>1. req'[r].op = "restore" /\ req'[r].step = "renameDb" /\ req'[r].name = n
      BY <2>1 DEF Begins
    <3>2. QED
      BY <2>1, <2>2, <2>3, <2>7, <2>8, <3>1 DEF Pending, LifeCycle, Exists
  <2>9. QED
    BY <1>3, <2>1, <2>8 DEF LifeCycle, Steps
<1>8. CASE StartHardDelete(r, n)
  <2>1. /\ Begins(r, "hardDelete", n, "removeDb") /\ req'[r].write = None
        /\ rows[n].status = "deleted" /\ rows' = rows
    BY <1>8, StartHardDeleteEffect
  <2>2. Exists(n) /\ Len(n) > 1
    BY <2>1 DEF Exists, Rows
  <2>3. CASE q = r
    BY <2>1, <2>2, <2>3 DEF Pending, Begins, Exists
  <2>4. QED
    BY <1>3, <2>1, <2>3 DEF LifeCycle, Steps
<1>9. CASE StartReset(r, n)
  <2>1. Begins(r, "reset", n, "close") /\ req'[r].write = None /\ Exists(n) /\ rows' = rows
    BY <1>9, StartResetEffect
  <2>2. CASE q = r
    BY <2>1, <2>2 DEF Pending, Begins, Exists
  <2>3. QED
    BY <1>3, <2>1, <2>2 DEF LifeCycle, Steps
<1>10. ASSUME NEW status \in {"active", "inactive"}, SetStatus(r, n, status) PROVE Pending(q)'
  <2>1. /\ Exists(n) /\ rows'[n].status = status /\ rows'[n].id = rows[n].id
        /\ \A m \in Names \ {n} : rows'[m] = rows[m]
        /\ UNCHANGED <<fs, pool, req, home, acked, lastDelete>>
    BY <1>10, SetStatusEffect DEF History
  <2>2. \A m \in Names : (Exists(m)' <=> Exists(m)) /\ rows'[m].id = rows[m].id
    BY <2>1 DEF Exists
  <2>3. /\ req[q].op # "idle" => req[q].name \in Names
        /\ req[q].op \in {"delete", "restore"} => req[q].to \in Names
        /\ req[q].op \in LifeCycle \cup {"write"} => req[q].op # "idle"
    BY <1>1 DEF Slot, LifeCycle
  <2>4. QED
    BY <1>1, <2>1, <2>2, <2>3 DEF Pending
<1>11. QED
  BY <1>0, <1>4, <1>5, <1>6, <1>7, <1>8, <1>9, <1>10
\* The steps of creates and writes leave each what it relies on.
LEMMA DataStepPends ==
  ASSUME DInv, TInv', NEW r \in Requests,
         \/ GetFast(r) \/ GetSlow(r) \/ InsertRow(r) \/ Reconnect(r) \/ ExecWrite(r) \/ ExecClosed(r)
  PROVE  Requested'
<1> SUFFICES ASSUME NEW q \in Requests PROVE Pending(q)'
  BY DEF Requested
<1> USE DEF DInv
<1>1. \A p \in Requests : Pending(p) /\ Slot(req[p]) /\ req[p] \in Request
  BY DEF Requested, TInv, TypeOK, Slots
<1>2. None \notin Writes /\ None \notin Handles
  BY NoneAssumption
<1>3. ASSUME NEW h \in Handles, NEW n \in Names, Opens(h, n) PROVE Pending(q)'
  <2>1. PICK p \in Requests :
          /\ req[p].op \in {"create", "write"} /\ req[p].name = n /\ Others(p)
          /\ req'[p].op = req[p].op /\ req'[p].name = n /\ req'[p].to = req[p].to /\ req'[p].write = req[p].write
          /\ (req'[p].step = "exec" => pool'[n] = req'[p].handle)
    BY <1>3 DEF Opens
  <2>2. \A s \in Requests : req'[s].write = req[s].write /\ req'[s].op = req[s].op /\ req'[s].name = req[s].name
    BY <2>1 DEF Others
  <2>3. req[q].op \notin LifeCycle /\ UNCHANGED <<rows, home, acked>>
    BY <1>3 DEF Opens, Calm, History
  <2>4. req'[q].op = "write" /\ req'[q].step = "exec" => pool'[req'[q].name] = req'[q].handle
    <3>1. CASE q = p
      BY <2>1, <3>1
    <3>2. CASE q # p
      <4>1. req'[q] = req[q]
        BY <2>1, <3>2 DEF Others
      <4>2. ASSUME req[q].op = "write", req[q].step = "exec" PROVE pool'[req[q].name] = req[q].handle
        <5>1. pool[req[q].name] = req[q].handle /\ req[q].handle \in Handles /\ req[q].name \in Names
          BY <1>1, <4>2 DEF Pending, Slot
        <5>2. QED
          BY <1>2, <1>3, <5>1 DEF Opens
      <4>3. QED
        BY <4>1, <4>2
    <3>3. QED
      BY <3>1, <3>2
  <2>5. QED
    BY <1>1, <2>2, <2>3, <2>4, DataPends DEF Pending, Exists
<1>4. CASE Looks(r)
  <2>1. /\ req[r].op \in {"create", "write"} /\ UNCHANGED <<rows, pool, home, acked>>
        /\ \E step \in {"getSlow", "insert", "exec"} : Moves(r, step)
        /\ req'[r].step = "exec" => pool[req[r].name] = req'[r].handle
    BY <1>4 DEF Looks, History
  <2>2. \A s \in Requests : req'[s].write = req[s].write /\ req'[s].op = req[s].op /\ req'[s].name = req[s].name
    BY <2>1 DEF Moves, Others
  <2>3. Calm
    BY <2>1, DataIsCalm
  <2>4. q # r => req'[q] = req[q]
    BY <2>1 DEF Moves, Others
  <2>5. req'[q].op = "write" /\ req'[q].step = "exec" => pool'[req'[q].name] = req'[q].handle
    BY <1>1, <2>1, <2>2, <2>4 DEF Pending
  <2>6. QED
    BY <1>1, <2>1, <2>2, <2>3, <2>5, DataPends DEF Pending, Exists, Calm
<1>5. CASE GetFast(r) \/ GetSlow(r)
  <2>1. CASE Looks(r)
    BY <1>4, <2>1
  <2>2. ASSUME NEW h \in Handles, Opens(h, req[r].name) PROVE Pending(q)'
    <3>1. req[r].name \in Names
      BY <2>2 DEF Opens
    <3>2. QED
      BY <1>3, <2>2, <3>1
  <2>3. QED
    BY <1>5, <2>1, <2>2, GetEffect
<1>6. CASE Reconnect(r)
  <2>1. Opens(req[r].handle, req[r].name)
    BY <1>6, ReconnectEffect
  <2>2. req[r].handle \in Handles /\ req[r].name \in Names
    BY <2>1 DEF Opens
  <2>3. QED
    BY <1>3, <2>1, <2>2
<1>7. ASSUME Ends(r), Calm, UNCHANGED <<pool, home>>,
             \A m \in Names : Exists(m) => rows'[m] = rows[m],
             req[q].op = "write" /\ q # r => req[q].write \notin acked'
      PROVE  Pending(q)'
  <2>1. CASE q = r
    BY <1>7, <2>1, FreePends DEF Ends
  <2>2. CASE q # r
    <3>1. req'[q] = req[q] /\ req[q].op \notin LifeCycle
      BY <1>7, <2>2 DEF Ends, Others, Calm
    <3>2. req[q].op = "write" => \A p \in Requests : req'[p].write = req[q].write => p = q
      BY <1>1, <1>2, <1>7 DEF Ends, Others, Pending, IdleSlot, Slot
    <3>3. req[q].op = "write" => req[q].name \in Names /\ rows'[req[q].name] = rows[req[q].name]
      BY <1>1, <1>7 DEF Pending, Slot
    <3>4. QED
      BY <1>1, <1>7, <2>2, <3>1, <3>2, <3>3, DataPends DEF Pending, Exists
  <2>3. QED
    BY <2>1, <2>2
<1>8. req[q].op = "write" => req[q].write \notin acked
  BY <1>1 DEF Pending
<1>9. CASE InsertRow(r)
  BY <1>7, <1>8, <1>9, InsertRowEffect DEF History
<1>10. CASE ExecClosed(r)
  BY <1>7, <1>8, <1>10, ExecClosedEffect DEF History
<1>11. CASE ExecWrite(r)
  <2>1. /\ Ends(r) /\ Calm /\ UNCHANGED <<pool, home, rows>> /\ acked' = acked \cup {req[r].write}
    BY <1>11, ExecWriteEffect
  <2>2. req[q].op = "write" /\ q # r => req[q].write # req[r].write
    BY <1>1 DEF Pending
  <2>3. QED
    BY <1>7, <1>8, <2>1, <2>2
<1>12. QED
  BY <1>5, <1>6, <1>9, <1>10, <1>11

\* So do the steps of life-cycle requests.
LEMMA LifeStepPends ==
  ASSUME DInv, NEW r \in Requests,
         \/ RenameDb(r) \/ RenameWal(r) \/ ClosePooled(r) \/ UpdateRow(r)
         \/ RemoveDb(r) \/ RemoveWal(r) \/ FinishReset(r) \/ DeleteRow(r)
  PROVE  Requested'
<1> SUFFICES ASSUME NEW q \in Requests PROVE Pending(q)'
  BY DEF Requested
<1> USE DEF DInv
<1> DEFINE n == req[r].name
           to == req[r].to
<1>1. Pending(r) /\ Slot(req[r]) /\ (req[r].op \in {"delete", "restore", "hardDelete", "reset"} => req[r].op \in LifeCycle)
  BY DEF Requested, TInv, Slots, LifeCycle
<1>2. ASSUME req[r].op \in {"delete", "restore", "hardDelete", "reset"}, Others(r), q # r
      PROVE  Pending(q)'
  BY <1>1, <1>2, LifeOthers, FreePends
<1>3. ASSUME req[r].op \in {"delete", "restore", "hardDelete", "reset"}, Ends(r) PROVE Pending(q)'
  BY <1>2, <1>3, FreePends DEF Ends
<1>4. CASE RenameDb(r)
  <2>1. /\ req[r].op \in {"delete", "restore"} /\ req[r].step = "renameDb" /\ Moves(r, "renameWal")
        /\ fs'[n].db = None
        /\ UNCHANGED <<rows, pool, lastDelete>>
    BY <1>4, RenameDbEffect DEF History
  <2>2. CASE q = r
    BY <1>1, <2>1, <2>2 DEF Pending, Moves, Exists, LifeCycle
  <2>3. QED
    BY <1>2, <2>1, <2>2 DEF Moves
<1>5. CASE RenameWal(r)
  <2>1. /\ req[r].op \in {"delete", "restore"} /\ req[r].step = "renameWal"
        /\ Moves(r, IF req[r].op = "delete" THEN "close" ELSE "update")
        /\ fs'[n] = NoFiles /\ fs'[n].db = None /\ fs'[n].wal = None
        /\ UNCHANGED <<rows, pool, lastDelete>>
    BY <1>5, RenameWalEffect DEF History, NoFiles
  <2>2. CASE q = r
    BY <1>1, <2>1, <2>2 DEF Pending, Moves, Exists, LifeCycle
  <2>3. QED
    BY <1>2, <2>1, <2>2 DEF Moves
<1>6. CASE ClosePooled(r)
  <2>1. /\ req[r].step = "close" /\ req[r].op \in {"delete", "reset"} /\ n \in Names
        /\ Moves(r, IF req[r].op = "delete" THEN "update" ELSE "removeDb")
        /\ pool'[n] = None /\ UNCHANGED <<rows, lastDelete>>
        /\ Closes(n) \/ UNCHANGED <<fs, pool>>
    BY <1>6, ClosePooledEffect DEF Closes, History
  <2>2. \A m \in Names \ {n} : pool'[m] = pool[m]
    BY <2>1 DEF Closes
  <2>3. CASE q = r
    <3>1. CASE req[r].op = "delete"
      <4>1. fs[n].db = None /\ fs[n].wal = None /\ to \in Names
        BY <1>1, <2>1, <3>1 DEF Pending, Slot
      <4>2. fs' = fs
        BY <2>1, <4>1, NoneAssumption DEF Closes
      <4>3. fs[n] = NoFiles
        BY <2>1, <4>1 DEF TInv, TypeOK, Files, NoFiles
      <4>4. pool'[to] = None
        BY <1>1, <2>1, <2>2, <3>1, <4>1 DEF Pending
      <4>5. req'[r].op = "delete" /\ req'[r].step = "update" /\ req'[r].name = n /\ req'[r].to = to
            /\ req'[r].write = req[r].write
        BY <2>1, <3>1 DEF Moves
      <4>6. QED
        BY <1>1, <2>1, <2>3, <3>1, <4>1, <4>2, <4>3, <4>4, <4>5 DEF Pending, Exists, LifeCycle
    <3>2. CASE req[r].op = "reset"
      BY <1>1, <2>1, <2>3, <3>2 DEF Pending, Moves, Exists, LifeCycle
    <3>3. QED
      BY <2>1, <3>1, <3>2
  <2>4. QED
    BY <1>2, <2>1, <2>3 DEF Moves
<1>7. CASE RemoveDb(r)
  <2>1. /\ \/ req[r].step = "removeDb" /\ Moves(r, "removeWal") /\ req[r].op \in {"hardDelete", "reset"}
           \/ req[r].step = "removeDb2" /\ Moves(r, "removeWal2") /\ req[r].op = "reset"
        /\ n \in Names /\ Exists(n)
        /\ fs'[n].db = None /\ fs'[n].wal = fs[n].wal
        /\ UNCHANGED <<rows, pool, lastDelete>>
    BY <1>7, RemoveDbEffect
  <2>2. fs' \in [Names -> Files]
    BY <1>7, LifeCycleTypes DEF TInv, TypeOK
  <2>3. req[r].step = "removeDb2" => fs'[n] = NoFiles
    <3>1. ASSUME req[r].step = "removeDb2" PROVE fs'[n].wal = None
      BY <1>1, <2>1, <3>1 DEF Pending, NoFiles
    <3>2. QED
      BY <2>1, <2>2, <3>1 DEF Files, NoFiles
  <2>4. CASE q = r
    BY <1>1, <2>1, <2>3, <2>4 DEF Pending, Moves, Exists, LifeCycle
  <2>5. QED
    BY <1>2, <2>1, <2>4 DEF Moves
<1>8. CASE RemoveWal(r)
  <2>1. /\ req[r].step = "removeWal" /\ req[r].op \in {"hardDelete", "reset"}
        /\ Moves(r, IF req[r].op = "reset" THEN "removeDb2" ELSE "deleteRow")
        /\ n \in Names /\ Exists(n)
        /\ fs'[n] = NoFiles
        /\ UNCHANGED <<rows, pool, lastDelete>>
    BY <1>8, RemoveWalEffect DEF History
  <2>2. CASE q = r
    BY <1>1, <2>1, <2>2 DEF Pending, Moves, Exists, LifeCycle
  <2>3. QED
    BY <1>2, <2>1, <2>2 DEF Moves
<1>9. CASE UpdateRow(r)
  BY <1>3, <1>9, UpdateRowEffect
<1>10. CASE FinishReset(r)
  BY <1>3, <1>10, FinishResetEffect
<1>11. CASE DeleteRow(r)
  BY <1>3, <1>11, DeleteRowEffect
<1>12. QED
  BY <1>4, <1>5, <1>6, <1>7, <1>8, <1>9, <1>10, <1>11

\* What each request relies on stays true from its step to its next.
LEMMA RequestedKept ==
  ASSUME DInv, TInv', Careful, [Next]_vars
  PROVE  Requested'
<1> USE DEF DInv
<1>1. CASE UNCHANGED vars
  BY <1>1 DEF vars, History, Requested, Pending, Exists
<1>2. CASE Tick
  BY <1>2 DEF Tick, History, Requested, Pending, Exists
<1>3. CASE Crash
  <2>1. \A q \in Requests : req'[q] = IdleSlot
    BY <1>3 DEF Crash
  <2>2. QED
    BY <2>1, FreePends DEF Requested
<1>4. ASSUME NEW h \in Handles, IdleClose(h) PROVE Requested'
  <2>1. PICK n \in Names : Closes(n)
    BY <1>4, IdleCloseEffect DEF Closes
  <2>2. req' = req /\ pool' = pool /\ UNCHANGED <<rows, acked, home, lastDelete>>
    BY <1>4, IdleCloseEffect DEF Closes, History
  <2>3. fs' \in [Names -> Files]
    BY DEF TInv, TypeOK
  <2>4. \A m \in Names : fs'[m].db = fs[m].db /\ (fs[m].wal = None => fs'[m].wal = None)
    BY <2>1 DEF Closes
  <2>5. \A m \in Names : fs[m] = NoFiles => fs'[m] = NoFiles
    BY <2>3, <2>4 DEF Files, NoFiles
  <2>6. \A q \in Requests : Slot(req[q]) /\ req[q] \in Request
    BY DEF TInv, TypeOK, Slots
  <2>7. ASSUME NEW q \in Requests PROVE Pending(q)'
    <3>1. Pending(q) /\ req'[q] = req[q] /\ Slot(req[q])
      BY <2>2, <2>6 DEF Requested
    <3>2. req[q].step # "idle" => req[q].name \in Names
      BY <3>1 DEF Slot, IdleSlot
    <3>3. QED
      BY <2>2, <2>4, <2>5, <3>1, <3>2 DEF Pending, Exists, Slot, LifeCycle
  <2>8. QED
    BY <2>7 DEF Requested
<1>5. ASSUME NEW r \in Requests, Step(r) PROVE Requested'
  BY <1>5, DataStepPends, LifeStepPends DEF Step
<1>6. QED
  BY <1>1, <1>2, <1>3, <1>4, <1>5, StartPends DEF Next
-----------------------------------------------------------------------------
(* Files have one name, and writes one file *)

\* Which steps change the history variables.
LEMMA HistoryFrame ==
  ASSUME [Next]_vars
  PROVE  /\ acked' = acked \/ \E r \in Requests : ExecWrite(r)
         /\ gone' = gone \/ \E r \in Requests : RemoveDb(r)
         /\ erased' = erased \/ \E r \in Requests : FinishReset(r)
         /\ home' = home \/ \E r \in Requests, n \in Names, w \in Writes : StartWrite(r, n, w)
         /\ torn' = torn \/ Crash
<1>1. CASE UNCHANGED vars
  BY <1>1 DEF vars, History
<1>2. ASSUME NEW r \in Requests, StartRequest(r)
      PROVE  /\ UNCHANGED <<acked, gone, erased, torn>>
             /\ home' = home \/ \E n \in Names, w \in Writes : StartWrite(r, n, w)
  BY <1>2 DEF StartRequest, StartCreate, StartDelete, StartRestore, StartHardDelete, StartReset, StartWrite, SetStatus, History
<1>3. ASSUME NEW r \in Requests, Step(r)
      PROVE  /\ UNCHANGED <<home, torn>>
             /\ acked' = acked \/ ExecWrite(r)
             /\ gone' = gone \/ RemoveDb(r)
             /\ erased' = erased \/ FinishReset(r)
  BY <1>3 DEF Step, GetFast, GetSlow, InsertRow, Reconnect, ExecWrite, ExecClosed, RenameDb, RenameWal, ClosePooled, UpdateRow,
              RemoveDb, RemoveWal, FinishReset, DeleteRow, History
<1>4. CASE (\E h \in Handles : IdleClose(h)) \/ Tick
  BY <1>4 DEF IdleClose, Tick, History
<1>5. CASE Crash
  BY <1>5 DEF Crash
<1>6. QED
  BY <1>1, <1>2, <1>3, <1>4, <1>5 DEF Next

\* Acknowledged writes stay acknowledged.
LEMMA AckedGrows ==
  ASSUME DInv, [Next]_vars
  PROVE  acked \subseteq acked'
BY HistoryFrame, ExecWriteEffect

\* A file that gets a name when a connection is opened is new and empty.
LEMMA NamedByOpen ==
  ASSUME DInv, NEW h \in Handles, NEW n \in Names, Opens(h, n), NEW i \in Inodes, Named(i)'
  PROVE  (Named(i) /\ data'[i] = data[i]) \/ (i \notin InUse /\ data'[i] = {})
<1>1. PICK m \in Names : i = fs'[m].db \/ i = fs'[m].wal
  BY DEF Named, Holds
<1>2. CASE m # n
  <2>1. fs'[m] = fs[m]
    BY <1>2 DEF Opens
  <2>2. QED
    BY <1>1, <2>1, UsedFiles DEF Named, Holds, Opens
<1>3. CASE m = n
  BY <1>1, <1>3, UsedFiles DEF Named, Holds, Opens
<1>4. QED
  BY <1>2, <1>3

\* Closing a connection names no file.
LEMMA NamedByClose ==
  ASSUME NEW n \in Names, Closes(n), NEW i \in Inodes, Named(i)'
  PROVE  Named(i)
<1>1. \A m \in Names : fs'[m].db = fs[m].db /\ (fs'[m].wal = fs[m].wal \/ fs'[m].wal = None)
  BY DEF Closes
<1>2. QED
  BY <1>1, NoneAssumption DEF Named, Holds

\* The steps of a life-cycle request name no file but those they rename.
LEMMA NamedByLife ==
  ASSUME DInv, NEW r \in Requests, RenameDb(r) \/ RenameWal(r) \/ RemoveDb(r) \/ RemoveWal(r) \/ FinishReset(r),
         NEW i \in Inodes, Named(i)'
  PROVE  Named(i)
<1>1. ASSUME NEW m \in Names
      PROVE  \E k, l \in Names : fs'[m].db \in {fs[k].db, None} /\ fs'[m].wal \in {fs[l].wal, None}
  <2>1. CASE RenameDb(r)
    BY <2>1, RenameDbEffect
  <2>2. CASE RenameWal(r)
    BY <2>2, RenameWalEffect DEF NoFiles
  <2>3. CASE RemoveDb(r)
    BY <2>3, RemoveDbEffect
  <2>4. CASE RemoveWal(r)
    BY <2>4, RemoveWalEffect DEF NoFiles
  <2>5. CASE FinishReset(r)
    BY <2>5, FinishResetEffect
  <2>6. QED
    BY <2>1, <2>2, <2>3, <2>4, <2>5
<1>2. PICK m \in Names : i = fs'[m].db \/ i = fs'[m].wal
  BY DEF Named, Holds
<1>3. PICK k, l \in Names : fs'[m].db \in {fs[k].db, None} /\ fs'[m].wal \in {fs[l].wal, None}
  BY <1>1
<1>4. QED
  BY <1>2, <1>3, NoneAssumption DEF Named, Holds

\* No step gives a file a second name, or a write a second file.
LEMMA DiskKept ==
  ASSUME DInv, Careful, [Next]_vars
  PROVE  Disk'
<1> USE DEF DInv
<1>1. acked \subseteq acked'
  BY AckedGrows
<1>2. CASE UNCHANGED <<fs, data>>
  BY <1>1, <1>2 DEF Disk, Named, Holds
<1>3. ASSUME NEW h \in Handles, NEW n \in Names, Opens(h, n) PROVE Disk'
  <2>1. /\ \A m, k \in Names : fs'[m].db # None /\ fs'[m].db = fs'[k].db => m = k
        /\ \A m, k \in Names : fs'[m].wal # None /\ fs'[m].wal = fs'[k].wal => m = k
    BY <1>3, UsedFiles DEF Disk, Opens
  <2>2. \A m, k \in Names : fs'[m].db # None => fs'[m].db # fs'[k].wal
    BY <1>3, UsedFiles, NoneAssumption DEF Disk, Opens
  <2>3. \A i \in Inodes : data'[i] \subseteq acked'
    BY <1>1, <1>3 DEF Disk, Opens
  <2>4. ASSUME NEW i \in Inodes, NEW j \in Inodes, Named(i)', Named(j)', i # j
        PROVE  data'[i] \cap data'[j] = {}
    BY <1>3, <2>4, NamedByOpen DEF Disk
  <2>5. QED
    BY <2>1, <2>2, <2>3, <2>4 DEF Disk
<1>4. ASSUME NEW n \in Names, Closes(n) PROVE Disk'
  <2>1. CASE UNCHANGED <<fs, data>>
    BY <1>2, <2>1
  <2>2. CASE /\ fs[n].db \in Inodes /\ fs[n].wal \in Inodes
             /\ \A m \in Names \ {n} : fs'[m] = fs[m]
             /\ fs'[n].db = fs[n].db /\ fs'[n].wal = None
             /\ data'[fs[n].db] = data[fs[n].db] \cup data[fs[n].wal]
             /\ \A i \in Inodes \ {fs[n].db} : data'[i] = data[i]
    <3>1. /\ \A m, k \in Names : fs'[m].db # None /\ fs'[m].db = fs'[k].db => m = k
          /\ \A m, k \in Names : fs'[m].wal # None /\ fs'[m].wal = fs'[k].wal => m = k
          /\ \A m, k \in Names : fs'[m].db # None => fs'[m].db # fs'[k].wal
      BY <2>2 DEF Disk
    <3>2. \A i \in Inodes : data'[i] \subseteq acked'
      BY <1>1, <2>2 DEF Disk
    <3>3. \A i \in Inodes : i = fs[n].wal => ~Named(i)'
      <4>1. fs[n].wal # None
        BY <2>2, NoneAssumption
      <4>2. \A m \in Names : fs'[m].db = fs[m].db /\ ((m # n /\ fs'[m].wal = fs[m].wal) \/ fs'[m].wal = None)
        BY <2>2
      <4>3. \A m \in Names : fs[n].wal # fs'[m].db /\ fs[n].wal # fs'[m].wal
        BY <2>2, <4>1, <4>2 DEF Disk
      <4>4. QED
        BY <4>3 DEF Named, Holds
    <3>4. ASSUME NEW i \in Inodes, NEW j \in Inodes, Named(i)', Named(j)', i # j
          PROVE  data'[i] \cap data'[j] = {}
      <4>1. Named(i) /\ Named(j)
        BY <1>4, <3>4, NamedByClose
      <4>2. i # fs[n].wal /\ j # fs[n].wal
        BY <3>3, <3>4
      <4>3. Named(fs[n].wal)
        BY DEF Named, Holds
      <4>4. QED
        BY <2>2, <3>4, <4>1, <4>2, <4>3 DEF Disk
    <3>5. QED
      BY <3>1, <3>2, <3>4 DEF Disk
  <2>3. QED
    BY <1>4, <2>1, <2>2 DEF Closes
<1>5. ASSUME NEW r \in Requests, ExecWrite(r) PROVE Disk'
  <2> DEFINE i0 == fs[req[r].name].wal
  <2>1. /\ i0 \in Inodes /\ req[r].write \notin acked /\ acked' = acked \cup {req[r].write} /\ fs' = fs
        /\ data'[i0] = data[i0] \cup {req[r].write} /\ \A i \in Inodes \ {i0} : data'[i] = data[i]
    BY <1>5, ExecWriteEffect
  <2> HIDE DEF i0
  <2>2. \A i \in Inodes : Named(i)' <=> Named(i)
    BY <2>1 DEF Named, Holds
  <2>3. /\ \A m, k \in Names : fs'[m].db # None /\ fs'[m].db = fs'[k].db => m = k
        /\ \A m, k \in Names : fs'[m].wal # None /\ fs'[m].wal = fs'[k].wal => m = k
        /\ \A m, k \in Names : fs'[m].db # None => fs'[m].db # fs'[k].wal
    BY <2>1 DEF Disk
  <2>4. \A i \in Inodes : data'[i] \subseteq acked'
    BY <2>1 DEF Disk
  <2>5. ASSUME NEW i \in Inodes, NEW j \in Inodes, Named(i)', Named(j)', i # j
        PROVE  data'[i] \cap data'[j] = {}
    <3>1. data[i] \cap data[j] = {} /\ data[i] \subseteq acked /\ data[j] \subseteq acked
      BY <2>2, <2>5 DEF Disk
    <3>2. QED
      BY <2>1, <2>5, <3>1
  <2>6. QED
    BY <2>3, <2>4, <2>5 DEF Disk
<1>6. ASSUME NEW r \in Requests, RenameDb(r) \/ RenameWal(r) \/ RemoveDb(r) \/ RemoveWal(r) \/ FinishReset(r) PROVE Disk'
  <2>1. /\ \A m, k \in Names : fs'[m].db # None /\ fs'[m].db = fs'[k].db => m = k
        /\ \A m, k \in Names : fs'[m].wal # None /\ fs'[m].wal = fs'[k].wal => m = k
        /\ \A m, k \in Names : fs'[m].db # None => fs'[m].db # fs'[k].wal
    <3>1. CASE RenameDb(r)
      BY <3>1, RenameDbEffect DEF Disk
    <3>2. CASE RenameWal(r)
      BY <3>2, RenameWalEffect DEF Disk, NoFiles
    <3>3. CASE RemoveDb(r)
      BY <3>3, RemoveDbEffect DEF Disk
    <3>4. CASE RemoveWal(r)
      BY <3>4, RemoveWalEffect DEF Disk, NoFiles
    <3>5. CASE FinishReset(r)
      BY <3>5, FinishResetEffect DEF Disk
    <3>6. QED
      BY <1>6, <3>1, <3>2, <3>3, <3>4, <3>5
  <2>2. data' = data
    BY <1>6, RenameDbEffect, RenameWalEffect, RemoveDbEffect, RemoveWalEffect, FinishResetEffect
  <2>3. \A i \in Inodes : Named(i)' => Named(i)
    BY <1>6, NamedByLife
  <2>4. QED
    BY <1>1, <2>1, <2>2, <2>3 DEF Disk
<1>7. CASE Crash
  BY <1>2, <1>7 DEF Crash
<1>8. QED
  BY <1>2, <1>3, <1>4, <1>5, <1>6, <1>7, FilesSteps
-----------------------------------------------------------------------------
(* The pool *)

\* No registered database has a name that continues that of another one's
\* deleted copies.
LEMMA OneOfLineage ==
  ASSUME TInv, Rows, NEW n \in Names, NEW m \in Names, Len(n) > 1, Exists(n), Exists(m), Under(n, m)
  PROVE  m = n
<1>1. Len(n) \in Nat /\ Len(m) \in Nat
  BY NameParts
<1>2. Len(m) > 1 /\ m[1] = n[1] /\ m[2] = n[2]
  BY <1>1 DEF Under
<1>3. QED
  BY <1>2 DEF Rows

\* A name given up for good is not given out again while the pool has it.
LEMMA SpentStays ==
  ASSUME DInv, TInv', Careful, [Next]_vars, NEW n \in Names, Spent(n), pool[n] # None
  PROVE  Spent(n)'
<1> USE DEF DInv
<1>0. /\ lastDelete \in Int /\ lastDelete' \in Int /\ clock \in Int
      /\ Len(n) \in Nat /\ Len(n) > 1 /\ n[Len(n)] \in Int /\ n[Len(n)] <= lastDelete
      /\ \A m \in Names : Exists(m) => ~Under(n, m)
  BY NameParts, BoundsAssumption DEF TInv, TypeOK, Epochs, Spent
<1>1. CASE UNCHANGED <<rows, lastDelete>>
  BY <1>0, <1>1 DEF Spent, Exists
<1>2. ASSUME NEW r \in Requests, NEW m \in Names, StartDelete(r, m) PROVE Spent(n)'
  <2>1. lastDelete < lastDelete' /\ rows' = rows
    BY <1>2, StartDeleteEffect
  <2>2. QED
    BY <1>0, <2>1 DEF Spent, Exists
<1>3. ASSUME NEW r \in Requests, NEW m \in Names, NEW status \in {"active", "inactive"}, SetStatus(r, m, status)
      PROVE  Spent(n)'
  <2>1. Exists(m) /\ \A k \in Names \ {m} : rows'[k] = rows[k]
    BY <1>3, SetStatusEffect
  <2>2. lastDelete' = lastDelete /\ \A k \in Names : Exists(k)' => Exists(k)
    BY <1>3, <2>1, SetStatusEffect DEF Exists, History
  <2>3. QED
    BY <1>0, <2>2 DEF Spent
<1>4. ASSUME NEW r \in Requests, InsertRow(r) PROVE Spent(n)'
  <2>1. /\ req[r].name \in Names /\ Len(req[r].name) = 1 /\ lastDelete' = lastDelete
        /\ \A m \in Names \ {req[r].name} : rows'[m] = rows[m]
    BY <1>4, InsertRowEffect DEF History
  <2>2. ~Under(n, req[r].name)
    BY <1>0, <2>1 DEF Under
  <2>3. QED
    BY <1>0, <2>1, <2>2 DEF Spent, Exists
<1>5. ASSUME NEW r \in Requests, UpdateRow(r) PROVE Spent(n)'
  <2> DEFINE k == req[r].name
             to == req[r].to
  <2>1. /\ req[r].op \in {"delete", "restore"} /\ k \in Names /\ to \in Names /\ Exists(k) /\ pool[to] = None
        /\ \A m \in Names \ {k, to} : rows'[m] = rows[m]
        /\ rows'[k] = NoRow /\ lastDelete' = lastDelete
    BY <1>5, UpdateRowEffect DEF History
  <2>2. Pending(r)
    BY DEF Requested
  <2>3. CASE req[r].op = "delete"
    <3>1. to = Append(k, lastDelete) /\ lastDelete \in Epochs
      BY <2>2, <2>3 DEF Pending
    <3> HIDE DEF k, to
    <3>2. Len(to) = Len(k) + 1 /\ \A i \in 1..Len(k) : to[i] = k[i]
      BY <2>1, <3>1, AppendParts
    <3>3. n # to
      BY <2>1
    <3>4. ASSUME Under(n, to) PROVE FALSE
      <4>1. Len(n) <= Len(to) /\ \A i \in 1..Len(n) : to[i] = n[i]
        BY <3>4 DEF Under
      <4>2. Len(n) # Len(to)
        BY <2>1, <3>3, <4>1, SameName
      <4>3. Len(k) \in Nat
        BY <2>1, NameParts
      <4>4. Under(n, k)
        BY <1>0, <3>2, <4>1, <4>2, <4>3 DEF Under
      <4>5. QED
        BY <1>0, <2>1, <4>4
    <3>5. \A m \in Names : Exists(m)' => Exists(m) \/ m = to
      BY <2>1 DEF Exists, NoRow
    <3>6. QED
      BY <1>0, <2>1, <3>4, <3>5 DEF Spent
  <2>4. CASE req[r].op = "restore"
    <3>1. PICK e \in Epochs : k = Append(to, e)
      BY <2>2, <2>4 DEF Pending
    <3> HIDE DEF k, to
    <3>2. Len(k) = Len(to) + 1 /\ \A i \in 1..Len(to) : k[i] = to[i]
      BY <2>1, <3>1, AppendParts
    <3>3. Len(to) \in Nat
      BY <2>1, NameParts
    <3>4. Under(n, to) => Under(n, k)
      BY <1>0, <3>2, <3>3 DEF Under
    <3>5. \A m \in Names : Exists(m)' => Exists(m) \/ m = to
      BY <2>1 DEF Exists, NoRow
    <3>6. QED
      BY <1>0, <2>1, <3>4, <3>5 DEF Spent
  <2>5. QED
    BY <2>1, <2>3, <2>4
<1>6. ASSUME NEW r \in Requests, DeleteRow(r) PROVE Spent(n)'
  <2>1. /\ \A m \in Names \ {req[r].name} : rows'[m] = rows[m]
        /\ rows'[req[r].name] = NoRow /\ lastDelete' = lastDelete
    BY <1>6, DeleteRowEffect DEF History
  <2>2. \A m \in Names : Exists(m)' => Exists(m)
    BY <2>1 DEF Exists, NoRow
  <2>3. QED
    BY <1>0, <2>1, <2>2 DEF Spent
<1>7. QED
  BY <1>1, <1>2, <1>3, <1>4, <1>5, <1>6, RowsFrame

\* Handles of two names are two handles.
LEMMA HandlesDiffer ==
  ASSUME TInv, NEW n \in Names, NEW m \in Names, pool[n] # None, pool[m] = pool[n]
  PROVE  m = n
BY DEF TInv, Conns

Used(n) == pool[n] # None => Exists(n) \/ Spent(n) \/ \E r \in Requests : req[r].op = "create" /\ req[r].name = n
Fits(n) == Matches(n) \/ Half(n) \/ (Spent(n) /\ fs[n] = NoFiles)

\* A name whose files and connection a step leaves alone stays as it is.
LEMMA FitsStays ==
  ASSUME DInv, TInv', Careful, [Next]_vars, NEW n \in Names, fs'[n] = fs[n], pool'[n] \in {None, pool[n]},
         pool[n] # None => conn'[pool[n]] = conn[pool[n]],
         Half(n) => Half(n)'
  PROVE  Fits(n)'
<1>1. Fits(n)
  BY DEF DInv, Pooled, Fits
<1>2. CASE pool'[n] = None
  BY <1>2 DEF Fits, Matches, Open
<1>3. CASE pool'[n] = pool[n] /\ pool[n] # None
  <2>1. Matches(n) => Matches(n)'
    BY <1>3 DEF Matches, Open
  <2>2. Spent(n) => Spent(n)'
    BY <1>3, SpentStays
  <2>3. QED
    BY <1>1, <2>1, <2>2 DEF Fits
<1>4. QED
  BY <1>2, <1>3

\* A name in the pool stays registered, being created, or given up for good.
LEMMA UsedStays ==
  ASSUME DInv, TInv', Careful, [Next]_vars, NEW n \in Names, pool'[n] \in {None, pool[n]},
         Exists(n) => Exists(n)' \/ Spent(n)',
         \A r \in Requests : req[r].op = "create" /\ req[r].name = n =>
            Exists(n)' \/ (req'[r].op = "create" /\ req'[r].name = n)
  PROVE  Used(n)'
<1>1. Used(n)
  BY DEF DInv, Pooled, Used
<1>2. pool[n] # None /\ Spent(n) => Spent(n)'
  BY SpentStays
<1>3. QED
  BY <1>1, <1>2 DEF Used
\* Beginning a request leaves files and pool alone, and no request was half done.
LEMMA StartPool ==
  ASSUME DInv, TInv', Careful, [Next]_vars, NEW r \in Requests, StartRequest(r)
  PROVE  Pooled'
<1> SUFFICES ASSUME NEW n \in Names PROVE Fits(n)' /\ Used(n)'
  BY DEF Pooled, Fits, Used
<1> USE DEF DInv
<1>1. CASE \E m \in Names, status \in {"active", "inactive"} : SetStatus(r, m, status)
  <2>1. PICK m \in Names, status \in {"active", "inactive"} : SetStatus(r, m, status)
    BY <1>1
  <2>2. /\ Exists(m) /\ rows'[m].status = status /\ \A k \in Names \ {m} : rows'[k] = rows[k]
        /\ UNCHANGED <<fs, data, pool, conn, req>>
    BY <2>1, SetStatusEffect
  <2>3. Exists(n) => Exists(n)'
    BY <2>2 DEF Exists
  <2>4. Half(n) => Half(n)'
    BY <2>2 DEF Half, HalfDone
  <2>5. QED
    BY <2>2, <2>3, <2>4, FitsStays, UsedStays
<1>2. CASE ~\E m \in Names, status \in {"active", "inactive"} : SetStatus(r, m, status)
  <2>1. UNCHANGED <<fs, data, pool, conn, rows>> /\ \E op \in Ops, m \in Names, step \in Steps : Begins(r, op, m, step)
    <3>1. PICK m \in Names :
            \/ StartCreate(r, m) \/ StartDelete(r, m) \/ StartRestore(r, m)
            \/ StartHardDelete(r, m) \/ StartReset(r, m)
            \/ \E w \in Writes : StartWrite(r, m, w)
      BY <1>2 DEF StartRequest
    <3>2. {"create", "write", "delete", "restore", "hardDelete", "reset"} \subseteq Ops
      BY DEF Ops, LifeCycle
    <3>3. {"get", "renameDb", "removeDb", "close"} \subseteq Steps
      BY DEF Steps
    <3>4. /\ UNCHANGED <<fs, data, pool, conn, rows>>
          /\ \/ Begins(r, "create", m, "get") \/ Begins(r, "write", m, "get") \/ Begins(r, "delete", m, "renameDb")
             \/ Begins(r, "restore", m, "renameDb") \/ Begins(r, "hardDelete", m, "removeDb") \/ Begins(r, "reset", m, "close")
      BY <3>1, StartCreateEffect, StartWriteEffect, StartDeleteEffect, StartRestoreEffect, StartHardDeleteEffect,
         StartResetEffect
    <3>5. QED
      BY <3>2, <3>3, <3>4
  <2>2. Calm
    BY <2>1 DEF Begins, Calm
  <2>3. ~Half(n)
    BY <2>2, CalmIsWhole DEF Half
  <2>4. \A q \in Requests : req[q].op = "create" => req'[q] = req[q]
    BY <2>1 DEF Begins, Others, IdleSlot
  <2>5. Exists(n) => Exists(n)'
    BY <2>1 DEF Exists
  <2>6. QED
    BY <2>1, <2>3, <2>4, <2>5, FitsStays, UsedStays
<1>3. QED
  BY <1>1, <1>2

\* A connection is opened on the files of its name.
LEMMA OpenPool ==
  ASSUME DInv, TInv', Careful, [Next]_vars, NEW h \in Handles, NEW k \in Names, Opens(h, k)
  PROVE  Pooled'
<1> SUFFICES ASSUME NEW n \in Names PROVE Fits(n)' /\ Used(n)'
  BY DEF Pooled, Fits, Used
<1> USE DEF DInv
<1>0. PICK r \in Requests : /\ req[r].op \in {"create", "write"} /\ req[r].name = k /\ Others(r)
                            /\ req'[r].op = req[r].op /\ req'[r].name = k
  BY DEF Opens
<1>1. \A q \in Requests : req'[q].op = req[q].op /\ req'[q].name = req[q].name
  BY <1>0 DEF Others
<1>2. ~Half(n)
  BY CalmIsWhole DEF Half, Opens
<1>3. Exists(n)' <=> Exists(n)
  BY DEF Opens, Exists
<1>4. CASE n = k
  <2>1. Fits(n)'
    BY <1>4 DEF Fits, Matches, Open, Opens
  <2>2. req[r].op = "write" => Exists(k)
    BY <1>0 DEF Requested, Pending
  <2>3. Used(n)'
    BY <1>0, <1>3, <1>4, <2>2 DEF Used
  <2>4. QED
    BY <2>1, <2>3
<1>5. CASE n # k
  <2>1. fs'[n] = fs[n] /\ pool'[n] = pool[n]
    BY <1>5 DEF Opens
  <2>2. ASSUME pool[n] # None PROVE conn'[pool[n]] = conn[pool[n]]
    <3>1. pool[n] \in Handles
      BY <2>2 DEF TInv, TypeOK
    <3>2. pool[n] # h
      <4>1. CASE pool[k] = None
        BY <2>2, <4>1 DEF Opens, TInv, Conns
      <4>2. CASE pool[k] = h
        BY <1>5, <2>2, <4>2, HandlesDiffer
      <4>3. QED
        BY <4>1, <4>2 DEF Opens
    <3>3. QED
      BY <3>1, <3>2 DEF Opens
  <2>3. QED
    BY <1>1, <1>2, <1>3, <2>1, <2>2, FitsStays, UsedStays
<1>6. QED
  BY <1>4, <1>5

\* A closed connection needs no files; the others keep theirs.
LEMMA ClosePool ==
  ASSUME DInv, TInv', Careful, [Next]_vars, NEW k \in Names, Closes(k),
         \A n \in Names : Half(n) => Half(n)',
         \A q \in Requests : req'[q].op = req[q].op /\ req'[q].name = req[q].name
  PROVE  Pooled'
<1> SUFFICES ASSUME NEW n \in Names PROVE Fits(n)' /\ Used(n)'
  BY DEF Pooled, Fits, Used
<1> USE DEF DInv
<1>1. pool'[n] \in {None, pool[n]} /\ (Exists(n) => Exists(n)')
  BY DEF Closes, Exists
<1>2. Used(n)'
  BY <1>1, UsedStays
<1>3. CASE n = k
  BY <1>2, <1>3, NoneAssumption DEF Fits, Matches, Open, Closes
<1>4. CASE n # k
  <2>1. fs'[n] = fs[n]
    BY <1>4 DEF Closes
  <2>2. ASSUME pool[n] # None PROVE conn'[pool[n]] = conn[pool[n]]
    <3>1. pool[n] \in Handles /\ pool[n] # pool[k]
      BY <1>4, <2>2, HandlesDiffer DEF TInv, TypeOK
    <3>2. QED
      BY <3>1 DEF Closes
  <2>3. QED
    BY <1>1, <1>2, <2>1, <2>2, FitsStays
<1>5. QED
  BY <1>2, <1>3, <1>4

\* A data request's other steps.
LEMMA DataPool ==
  ASSUME DInv, TInv', Careful, [Next]_vars, NEW r \in Requests,
         Looks(r) \/ InsertRow(r) \/ ExecWrite(r) \/ ExecClosed(r)
  PROVE  Pooled'
<1> SUFFICES ASSUME NEW n \in Names PROVE Fits(n)' /\ Used(n)'
  BY DEF Pooled, Fits, Used
<1> USE DEF DInv
<1>1. UNCHANGED <<fs, pool, conn>> /\ Calm
  <2>1. Looks(r) => Calm
    BY DataIsCalm DEF Looks
  <2>2. QED
    BY <2>1, InsertRowEffect, ExecWriteEffect, ExecClosedEffect DEF Looks
<1>2. ~Half(n)
  BY <1>1, CalmIsWhole DEF Half
<1>3. Exists(n) => Exists(n)'
  BY InsertRowEffect, ExecWriteEffect, ExecClosedEffect DEF Looks, Exists
<1>4. ASSUME NEW q \in Requests, req[q].op = "create", req[q].name = n
      PROVE  Exists(n)' \/ (req'[q].op = "create" /\ req'[q].name = n)
  <2>1. CASE q # r
    BY <1>4, <2>1, InsertRowEffect, ExecWriteEffect, ExecClosedEffect DEF Looks, Moves, Ends, Others
  <2>2. CASE q = r /\ Looks(r)
    BY <1>4, <2>2 DEF Looks, Moves
  <2>3. CASE q = r /\ InsertRow(r)
    BY <1>4, <2>3, InsertRowEffect DEF Exists
  <2>4. QED
    BY <1>4, <2>1, <2>2, <2>3, ExecWriteEffect, ExecClosedEffect
<1>5. QED
  BY <1>1, <1>2, <1>3, <1>4, FitsStays, UsedStays

\* A life-cycle request moves or removes the files of the name it gives up.
LEMMA LifePool ==
  ASSUME DInv, TInv', Careful, [Next]_vars, NEW r \in Requests,
         \/ RenameDb(r) \/ RenameWal(r) \/ UpdateRow(r) \/ RemoveDb(r) \/ RemoveWal(r) \/ FinishReset(r) \/ DeleteRow(r)
  PROVE  Pooled'
<1> SUFFICES ASSUME NEW n \in Names PROVE Fits(n)' /\ Used(n)'
  BY DEF Pooled, Fits, Used
<1> USE DEF DInv
<1> DEFINE k == req[r].name
           to == req[r].to
<1>1. req[r].op \in LifeCycle /\ Pending(r) /\ UNCHANGED <<pool, conn>>
  BY RenameDbEffect, RenameWalEffect, UpdateRowEffect, RemoveDbEffect, RemoveWalEffect, FinishResetEffect, DeleteRowEffect
     DEF LifeCycle, Requested
<1>2. /\ \A q \in Requests : req[q].op # "create"
      /\ \A m \in Names \ {k} : ~Half(m)
  BY <1>1, LifeIsAlone DEF LifeCycle, Half, IdleSlot
<1>3. ASSUME fs'[n] = fs[n], n # k, Exists(n) => Exists(n)' \/ Spent(n)' PROVE Fits(n)' /\ Used(n)'
  BY <1>1, <1>2, <1>3, FitsStays, UsedStays
<1>4. ASSUME pool[n] = None PROVE Fits(n)' /\ Used(n)'
  BY <1>1, <1>4 DEF Fits, Used, Matches, Open
<1>5. ASSUME HalfDone(r)', req'[r].name = n, rows' = rows PROVE Fits(n)' /\ Used(n)'
  <2>1. Half(n)'
    BY <1>5 DEF Half
  <2>2. Exists(n) => Exists(n)'
    BY <1>5 DEF Exists
  <2>3. Used(n)'
    BY <1>1, <1>2, <2>2, UsedStays
  <2>4. QED
    BY <2>1, <2>3 DEF Fits
<1>6. CASE RenameDb(r) \/ RenameWal(r)
  <2>1. /\ req[r].op \in {"delete", "restore"} /\ \E step \in {"renameWal", "close", "update"} : Moves(r, step)
        /\ \A m \in Names \ {k, to} : fs'[m] = fs[m]
        /\ rows' = rows
    BY <1>6, RenameDbEffect, RenameWalEffect
  <2>2. HalfDone(r)' /\ req'[r].name = k
    BY <2>1, HalfIsNext DEF Moves
  <2>3. pool[to] = None
    BY <1>1, <2>1 DEF Pending
  <2>4. Exists(n) => Exists(n)'
    BY <2>1 DEF Exists
  <2>5. QED
    BY <1>3, <1>4, <1>5, <2>1, <2>2, <2>3, <2>4
<1>7. CASE RemoveDb(r)
  <2>1. /\ \/ req[r].step = "removeDb" /\ Moves(r, "removeWal")
           \/ req[r].step = "removeDb2" /\ req[r].op = "reset"
        /\ \A m \in Names \ {k} : fs'[m] = fs[m]
        /\ rows' = rows
    BY <1>7, RemoveDbEffect
  <2>2. CASE req[r].step = "removeDb"
    <3>1. HalfDone(r)' /\ req'[r].name = k
      BY <2>1, <2>2, HalfIsNext DEF Moves
    <3>2. QED
      BY <1>3, <1>5, <2>1, <3>1 DEF Exists
  <2>3. CASE req[r].step = "removeDb2"
    <3>1. pool[k] = None
      BY <1>1, <2>1, <2>3 DEF Pending
    <3>2. QED
      BY <1>3, <1>4, <2>1, <3>1 DEF Exists
  <2>4. QED
    BY <2>1, <2>2, <2>3
<1>8. CASE RemoveWal(r)
  <2>1. /\ req[r].step = "removeWal" /\ req[r].op \in {"hardDelete", "reset"}
        /\ Moves(r, IF req[r].op = "reset" THEN "removeDb2" ELSE "deleteRow")
        /\ \A m \in Names \ {k} : fs'[m] = fs[m]
        /\ rows' = rows
    BY <1>8, RemoveWalEffect
  <2>2. CASE req[r].op = "hardDelete"
    <3>1. HalfDone(r)' /\ req'[r].name = k
      BY <2>1, <2>2, HalfIsNext DEF Moves
    <3>2. QED
      BY <1>3, <1>5, <2>1, <3>1 DEF Exists
  <2>3. CASE req[r].op = "reset"
    <3>1. pool[k] = None
      BY <1>1, <2>1, <2>3 DEF Pending
    <3>2. QED
      BY <1>3, <1>4, <2>1, <3>1 DEF Exists
  <2>4. QED
    BY <2>1, <2>2, <2>3
<1>9. CASE FinishReset(r)
  BY <1>3, <1>4, <1>9, FinishResetEffect DEF Exists
<1>10. ASSUME n = k, rows'[n] = NoRow, \A m \in Names : Exists(m)' => Exists(m) \/ m = to,
              lastDelete' = lastDelete, Exists(n), Len(n) > 1, to = None \/ (to \in Names /\ Len(to) < Len(n))
       PROVE  Spent(n)'
  <2>1. \A i \in 2..Len(n) : n[i] <= lastDelete
    BY <1>10 DEF Rows
  <2>2. Len(n) \in Nat
    BY <1>10, NameParts
  <2>3. n[Len(n)] <= lastDelete
    BY <1>10, <2>1, <2>2
  <2>4. ASSUME NEW m \in Names, Exists(m)', Under(n, m) PROVE FALSE
    <3>1. m # n
      BY <1>10, <2>4 DEF Exists, NoRow
    <3>2. m # to
      <4>1. Len(m) \in Nat /\ Len(n) <= Len(m)
        BY <2>4, NameParts DEF Under
      <4>2. QED
        BY <1>10, <2>2, <2>4, <4>1, NoneAssumption
    <3>3. Exists(m)
      BY <1>10, <2>4, <3>2
    <3>4. QED
      BY <1>10, <2>4, <3>1, <3>3, OneOfLineage
  <2>5. QED
    BY <1>10, <2>3, <2>4 DEF Spent, Under
<1>11. CASE UpdateRow(r)
  <2>1. /\ req[r].op \in {"delete", "restore"} /\ req[r].step = "update"
        /\ k \in Names /\ to \in Names /\ Exists(k) /\ pool[to] = None /\ fs[k] = NoFiles
        /\ \A m \in Names \ {k, to} : rows'[m] = rows[m]
        /\ rows'[k] = NoRow /\ fs' = fs /\ lastDelete' = lastDelete
    BY <1>11, UpdateRowEffect DEF History
  <2>2. CASE n = to
    BY <1>4, <2>1, <2>2
  <2>3. CASE n # k /\ n # to
    BY <1>3, <2>1, <2>3 DEF Exists
  <2>4. CASE n = k /\ req[r].op = "delete"
    <3>1. pool[k] = None
      BY <1>1, <2>1, <2>4 DEF Pending
    <3>2. QED
      BY <1>4, <2>4, <3>1
  <2>5. CASE n = k /\ req[r].op = "restore"
    <3>1. PICK e \in Epochs : k = Append(to, e)
      BY <1>1, <2>5 DEF Pending
    <3>2. Len(to) \in Nat /\ Len(to) >= 1
      BY <2>1, NameParts
    <3>3. Len(Append(to, e)) = Len(to) + 1
      BY <2>1, AppendParts
    <3>4. Len(k) > 1 /\ Len(to) < Len(k)
      BY <3>1, <3>2, <3>3
    <3>5. \A m \in Names : Exists(m)' => Exists(m) \/ m = to
      BY <2>1 DEF Exists, NoRow
    <3>6. Spent(n)'
      BY <1>10, <2>1, <2>5, <3>4, <3>5
    <3>7. QED
      BY <2>1, <2>5, <3>6 DEF Fits, Used
  <2>6. QED
    BY <2>1, <2>2, <2>3, <2>4, <2>5
<1>12. CASE DeleteRow(r)
  <2>1. /\ k \in Names /\ Exists(k) /\ Len(k) > 1 /\ fs[k] = NoFiles /\ req[r].op = "hardDelete"
        /\ \A m \in Names \ {k} : rows'[m] = rows[m]
        /\ rows'[k] = NoRow /\ fs' = fs /\ lastDelete' = lastDelete
    BY <1>12, DeleteRowEffect DEF History
  <2>2. to = None
    BY <2>1 DEF TInv, Slots, Slot
  <2>3. \A m \in Names : Exists(m)' => Exists(m) \/ m = to
    BY <2>1 DEF Exists, NoRow
  <2>4. CASE n = k
    <3>1. Spent(n)'
      BY <1>10, <2>1, <2>2, <2>3, <2>4
    <3>2. QED
      BY <2>1, <2>4, <3>1 DEF Fits, Used
  <2>5. CASE n # k
    BY <1>3, <2>1, <2>5 DEF Exists
  <2>6. QED
    BY <2>4, <2>5
<1>13. QED
  BY <1>6, <1>7, <1>8, <1>9, <1>11, <1>12

\* A pooled connection stays on the files of its name, whatever step is taken.
LEMMA PooledKept ==
  ASSUME DInv, TInv', Careful, [Next]_vars
  PROVE  Pooled'
<1> USE DEF DInv
<1>1. CASE UNCHANGED vars \/ Tick
  <2>1. UNCHANGED <<rows, fs, pool, conn, req, lastDelete>>
    BY <1>1 DEF vars, Tick, History
  <2>2. QED
    BY <2>1 DEF Pooled, Matches, Open, Half, HalfDone, Spent, Exists
<1>2. CASE Crash
  BY <1>2 DEF Crash, Pooled, Matches, Open
<1>3. ASSUME NEW h \in Handles, IdleClose(h) PROVE Pooled'
  <2>1. req' = req /\ \E n \in Names : Closes(n)
    BY <1>3, IdleCloseEffect DEF Closes
  <2>2. \A n \in Names : Half(n) => Half(n)'
    BY <2>1 DEF Half, HalfDone
  <2>3. QED
    BY <2>1, <2>2, ClosePool
<1>4. ASSUME NEW r \in Requests, GetFast(r) \/ GetSlow(r) \/ Reconnect(r) PROVE Pooled'
  <2>1. \A h, n : Opens(h, n) => h \in Handles /\ n \in Names
    BY DEF Opens
  <2>2. QED
    BY <1>4, <2>1, GetEffect, ReconnectEffect, OpenPool, DataPool
<1>5. ASSUME NEW r \in Requests, ClosePooled(r) PROVE Pooled'
  <2>1. /\ req[r].step = "close" /\ req[r].op \in {"delete", "reset"} /\ req[r].name \in Names
        /\ Moves(r, IF req[r].op = "delete" THEN "update" ELSE "removeDb")
        /\ Closes(req[r].name) \/ UNCHANGED <<rows, fs, data, pool, conn, clock, History>>
    BY <1>5, ClosePooledEffect
  <2>2. \A q \in Requests : req'[q].op = req[q].op /\ req'[q].name = req[q].name
    BY <2>1 DEF Moves, Others
  <2>3. ASSUME NEW q \in Requests, HalfDone(q) PROVE HalfDone(q)'
    <3>1. CASE q = r
      BY <2>1, <2>3, <3>1, HalfIs, HalfIsNext DEF Moves
    <3>2. CASE q # r
      BY <2>1, <2>3, <3>2 DEF Moves, Others, HalfDone
    <3>3. QED
      BY <3>1, <3>2
  <2>4. \A n \in Names : Half(n) => Half(n)'
    BY <2>2, <2>3 DEF Half
  <2>5. CASE Closes(req[r].name)
    BY <2>1, <2>2, <2>4, <2>5, ClosePool
  <2>6. CASE UNCHANGED <<rows, fs, data, pool, conn, clock, History>>
    <3>1. ASSUME NEW n \in Names PROVE Fits(n)' /\ Used(n)'
      BY <2>2, <2>4, <2>6, FitsStays, UsedStays DEF Exists
    <3>2. QED
      BY <3>1 DEF Pooled, Fits, Used
  <2>7. QED
    BY <2>1, <2>5, <2>6
<1>6. QED
  BY <1>1, <1>2, <1>3, <1>4, <1>5, StartPool, DataPool, LifePool DEF Next, Step
-----------------------------------------------------------------------------
(* Contents *)

Whole == \A n \in Names : Settled(n)
NoHalf == \A r \in Requests : ~HalfDone(r)
Parts ==
  /\ \A n \in Names : Involved(n) \/ Settled(n)
  /\ \A r \in Requests : HalfDone(r) => Between(r)

\* Without a request half done, every name is settled.
LEMMA WholeNow ==
  ASSUME DInv, ~torn, NoHalf
  PROVE  Whole
BY DEF DInv, Contents, Whole, NoHalf, Involved

\* When every name is settled and no request half done, contents are where they should be.
LEMMA WholeNext ==
  ASSUME Whole', NoHalf'
  PROVE  Parts'
BY DEF Whole, NoHalf, Parts

\* The files that a directory entry names are files.
LEMMA FilesAt ==
  ASSUME TInv, NEW n \in Names
  PROVE  /\ fs[n].db \in Inodes \cup {None} /\ fs[n].wal \in Inodes \cup {None}
         /\ fs[n].db \in Inodes => data[fs[n].db] \in SUBSET Writes
         /\ fs[n].wal \in Inodes => data[fs[n].wal] \in SUBSET Writes
BY DEF TInv, TypeOK, Files, File

\* What is due to a row changes only with acknowledgements, removals and its id.
LEMMA DueStays ==
  ASSUME DInv, [Next]_vars, NEW n \in Names, rows'[n].id = rows[n].id, acked' = acked, gone' = gone
  PROVE  Due(n)' = Due(n)
<1>1. \A w \in acked : home'[w] = home[w]
  <2>1. ASSUME NEW r \in Requests, NEW m \in Names, NEW w \in Writes, StartWrite(r, m, w), NEW v \in acked
        PROVE  home'[v] = home[v]
    <3>1. home[w] = 0 /\ home' = [home EXCEPT ![w] = rows[m].id]
      BY <2>1 DEF StartWrite
    <3>2. v # w /\ v \in Writes
      BY <3>1 DEF DInv, TInv, TypeOK, Contents
    <3>3. QED
      BY <3>1, <3>2 DEF DInv, TInv, TypeOK
  <2>2. QED
    BY <2>1, HistoryFrame
<1>2. QED
  BY <1>1 DEF Due

\* A name stays settled while its content, row and what is due to it stay.
LEMMA SettledStays ==
  ASSUME DInv, [Next]_vars, NEW n \in Names, Settled(n), FileContent(n)' = FileContent(n),
         fs'[n].db = None => fs'[n].wal = None,
         rows'[n].id = rows[n].id, Exists(n)' <=> Exists(n), acked' = acked, gone' = gone
  PROVE  Settled(n)'
BY DueStays DEF Settled

\* Two rows have nothing due in common.
LEMMA DueDiffers ==
  ASSUME DInv, NEW n \in Names, NEW m \in Names, Exists(n), Exists(m), m # n
  PROVE  Due(n) \cap Due(m) = {}
BY DEF DInv, Rows, Due

\* When nothing but requests, statuses and the clock change, names stay settled.
LEMMA StartParts ==
  ASSUME DInv, TInv', Careful, ~torn, NEW r \in Requests, StartRequest(r)
  PROVE  Parts'
<1> USE DEF DInv
<1>0. [Next]_vars
  BY DEF Next
<1>1. PICK n \in Names :
        \/ StartCreate(r, n) \/ StartDelete(r, n) \/ StartRestore(r, n)
        \/ StartHardDelete(r, n) \/ StartReset(r, n)
        \/ \E w \in Writes : StartWrite(r, n, w)
        \/ \E status \in {"active", "inactive"} : SetStatus(r, n, status)
  BY DEF StartRequest
<1>2. /\ UNCHANGED <<fs, data, acked, gone>>
      /\ \A m \in Names : rows'[m].id = rows[m].id /\ (Exists(m)' <=> Exists(m))
  <2>1. CASE \E status \in {"active", "inactive"} : SetStatus(r, n, status)
    <3>1. PICK status \in {"active", "inactive"} : SetStatus(r, n, status)
      BY <2>1
    <3>2. /\ Exists(n) /\ rows'[n].status = status /\ rows'[n].id = rows[n].id
          /\ \A m \in Names \ {n} : rows'[m] = rows[m]
          /\ UNCHANGED <<fs, data, acked, gone>>
      BY <3>1, SetStatusEffect DEF History
    <3>3. QED
      BY <3>2 DEF Exists
  <2>2. CASE ~\E status \in {"active", "inactive"} : SetStatus(r, n, status)
    <3>1. UNCHANGED <<fs, data, acked, gone, rows>>
      BY <1>1, <2>2 DEF StartCreate, StartDelete, StartRestore, StartHardDelete, StartReset, StartWrite, History
    <3>2. QED
      BY <3>1 DEF Exists
  <2>3. QED
    BY <2>1, <2>2
<1>3. Calm /\ NoHalf'
  <2>1. CASE \E status \in {"active", "inactive"} : SetStatus(r, n, status)
    <3>1. Calm /\ req' = req
      BY <2>1 DEF SetStatus, MayStart, Calm
    <3>2. Calm'
      BY <3>1 DEF Calm
    <3>3. QED
      BY <3>1, <3>2, CalmIsWholeNext DEF NoHalf
  <2>2. CASE ~\E status \in {"active", "inactive"} : SetStatus(r, n, status)
    <3>1. \/ Begins(r, "create", n, "get") \/ Begins(r, "write", n, "get") \/ Begins(r, "delete", n, "renameDb")
          \/ Begins(r, "restore", n, "renameDb") \/ Begins(r, "hardDelete", n, "removeDb") \/ Begins(r, "reset", n, "close")
      BY <1>1, <2>2, StartCreateEffect, StartWriteEffect, StartDeleteEffect, StartRestoreEffect, StartHardDeleteEffect,
         StartResetEffect
    <3>2. Calm
      BY <3>1 DEF Begins, Calm
    <3>3. \A q \in Requests \ {r} : ~HalfDone(q)'
      <4>1. \A q \in Requests \ {r} : req'[q] = req[q]
        BY <3>1 DEF Begins, Others
      <4>2. QED
        BY <3>2, <4>1, CalmIsWhole DEF HalfDone
    <3>4. ~HalfDone(r)'
      BY <3>1, HalfIsNext DEF Begins
    <3>5. QED
      BY <3>2, <3>3, <3>4 DEF NoHalf
  <2>3. QED
    BY <2>1, <2>2
<1>4. Whole
  BY <1>3, WholeNow, CalmIsWhole DEF NoHalf
<1>5. \A m \in Names : FileContent(m)' = FileContent(m) /\ (fs'[m].db = None => fs'[m].wal = None)
  BY <1>2, <1>4 DEF FileContent, Content, Whole, Settled
<1>6. Whole'
  BY <1>0, <1>2, <1>4, <1>5, SettledStays DEF Whole
<1>7. QED
  BY <1>3, <1>6, WholeNext

\* Opening a connection changes no content.
LEMMA OpenContent ==
  ASSUME DInv, Whole, NEW h \in Handles, NEW k \in Names, Opens(h, k), NEW n \in Names
  PROVE  FileContent(n)' = FileContent(n) /\ (fs'[n].db = None => fs'[n].wal = None)
<1>1. /\ fs[n].db \in InUse /\ fs[n].wal \in InUse
      /\ fs[n].db \in Inodes \cup {None} /\ fs[n].wal \in Inodes \cup {None}
      /\ fs[n].db = None => fs[n].wal = None
  BY UsedFiles, FilesAt DEF DInv, Whole, Settled
<1>2. \A i \in Inodes : i \in InUse => data'[i] = data[i]
  BY DEF Opens
<1>3. CASE n # k
  BY <1>1, <1>2, <1>3 DEF FileContent, Content, Opens
<1>4. CASE n = k
  <2>1. fs'[n].db \in Inodes /\ fs'[n].wal \in Inodes
    BY <1>4 DEF Opens
  <2>2. CASE fs[n].db = None
    <3>1. data'[fs'[n].db] = {} /\ data'[fs'[n].wal] = {}
      BY <1>1, <1>4, <2>1, <2>2, NoneAssumption DEF Opens
    <3>2. QED
      BY <1>1, <2>1, <2>2, <3>1, NoneAssumption DEF FileContent, Content
  <2>3. CASE fs[n].db # None
    <3>1. fs'[n].db = fs[n].db /\ data'[fs[n].db] = data[fs[n].db]
      BY <1>1, <1>2, <1>4, <2>3 DEF Opens
    <3>2. CASE fs'[n].wal = fs[n].wal
      BY <1>1, <1>2, <2>1, <3>1, <3>2 DEF FileContent, Content
    <3>3. CASE fs'[n].wal # fs[n].wal
      <4>1. fs[n].wal = None /\ data'[fs'[n].wal] = {}
        BY <1>4, <2>3, <3>3 DEF Opens
      <4>2. QED
        BY <1>1, <2>1, <3>1, <4>1, NoneAssumption DEF FileContent, Content
    <3>4. QED
      BY <3>2, <3>3
  <2>4. QED
    BY <2>2, <2>3
<1>5. QED
  BY <1>3, <1>4

\* Closing a connection changes no content.
LEMMA CloseContent ==
  ASSUME DInv, NEW k \in Names, Closes(k), NEW n \in Names
  PROVE  /\ FileContent(n)' = FileContent(n) /\ fs'[n].db = fs[n].db
         /\ fs'[n].wal = fs[n].wal \/ fs'[n].wal = None
         /\ n # k \/ fs[n].db = None =>
              fs'[n] = fs[n] /\ Content(fs[n].db)' = Content(fs[n].db) /\ Content(fs[n].wal)' = Content(fs[n].wal)
<1>1. /\ fs[n].db \in Inodes \cup {None} /\ fs[n].wal \in Inodes \cup {None}
      /\ None \notin Inodes
  BY FilesAt, NoneAssumption DEF DInv
<1>2. CASE UNCHANGED <<fs, data>>
  BY <1>2 DEF FileContent, Content
<1>3. CASE /\ fs[k].db \in Inodes /\ fs[k].wal \in Inodes
           /\ \A m \in Names \ {k} : fs'[m] = fs[m]
           /\ fs'[k].db = fs[k].db /\ fs'[k].wal = None
           /\ data'[fs[k].db] = data[fs[k].db] \cup data[fs[k].wal]
           /\ \A i \in Inodes \ {fs[k].db} : data'[i] = data[i]
  <2>1. CASE n = k
    BY <1>1, <1>3, <2>1 DEF FileContent, Content
  <2>2. CASE n # k
    <3>1. fs[n].db # fs[k].db /\ fs[n].wal # fs[k].db
      BY <1>1, <1>3, <2>2 DEF DInv, Disk
    <3>2. fs'[n] = fs[n]
      BY <1>3, <2>2
    <3>3. Content(fs[n].db)' = Content(fs[n].db) /\ Content(fs[n].wal)' = Content(fs[n].wal)
      BY <1>1, <1>3, <3>1, <3>2 DEF Content
    <3>4. QED
      BY <2>2, <3>2, <3>3 DEF FileContent
  <2>3. QED
    BY <2>1, <2>2
<1>4. QED
  BY <1>2, <1>3 DEF Closes
\* Data requests: a new row has nothing due, and a write is due to its own row.
LEMMA DataParts ==
  ASSUME DInv, TInv', Careful, ~torn, NEW r \in Requests,
         \/ GetFast(r) \/ GetSlow(r) \/ InsertRow(r) \/ Reconnect(r) \/ ExecWrite(r) \/ ExecClosed(r)
  PROVE  Parts'
<1> USE DEF DInv
<1>0. [Next]_vars
  BY DEF Next, Step
<1>1. Calm /\ (\A q \in Requests \ {r} : req'[q] = req[q]) /\ req'[r].op \in {"idle", "create", "write"}
  <2>1. CASE GetFast(r) \/ GetSlow(r)
    <3>1. \E step \in Steps : Moves(r, step)
      <4>1. CASE GetFast(r)
        <5>1. req[r].name \in Names /\ req[r].step = "get"
          BY <4>1, SlotAt DEF GetFast, TInv
        <5>2. pool[req[r].name] \in Handles \cup {None}
          BY <5>1 DEF TInv, TypeOK
        <5>3. Goto(r, "get", "getSlow") \/ (pool[req[r].name] \in Handles /\ Got(r, pool[req[r].name]))
          BY <4>1, <5>2 DEF GetFast
        <5>4. "getSlow" \in Steps /\ (IF req[r].op = "create" THEN "insert" ELSE "exec") \in Steps
          BY DEF Steps
        <5>5. QED
          BY <5>1, <5>3, <5>4, GotoMoves, GotMoves
      <4>2. CASE GetSlow(r)
        <5>1. req[r].name \in Names /\ req[r].step = "getSlow"
          BY <4>2, SlotAt DEF GetSlow, TInv
        <5>2. pool[req[r].name] \in Handles \cup {None}
          BY <5>1 DEF TInv, TypeOK
        <5>3. \E h \in Handles : Got(r, h)
          BY <4>2, <5>2 DEF GetSlow
        <5>4. (IF req[r].op = "create" THEN "insert" ELSE "exec") \in Steps
          BY DEF Steps
        <5>5. QED
          BY <5>1, <5>3, <5>4, GotMoves
      <4>3. QED
        BY <2>1, <4>1, <4>2
    <3>2. req[r].op \in {"create", "write"}
      BY <2>1, SlotAt DEF GetFast, GetSlow, Goto, TInv
    <3>3. Calm
      BY <3>2, DataIsCalm
    <3>4. QED
      BY <3>1, <3>2, <3>3 DEF Moves, Others
  <2>2. CASE Reconnect(r)
    <3>1. req' = req /\ Calm /\ req[r].op \in Ops
      BY <2>2, ReconnectEffect DEF Opens, TInv, TypeOK, Request
    <3>2. QED
      BY <3>1 DEF Calm, Ops
  <2>3. CASE InsertRow(r) \/ ExecWrite(r) \/ ExecClosed(r)
    BY <2>3, InsertRowEffect, ExecWriteEffect, ExecClosedEffect DEF Ends, Others, IdleSlot
  <2>4. QED
    BY <2>1, <2>2, <2>3
<1>2. NoHalf /\ NoHalf'
  <2>1. Calm'
    BY <1>1 DEF Calm, LifeCycle
  <2>2. QED
    BY <1>1, <2>1, CalmIsWhole, CalmIsWholeNext DEF NoHalf
<1>3. Whole
  BY <1>2, WholeNow
<1>4. SUFFICES Whole'
  BY <1>2, WholeNext
<1>5. SUFFICES ASSUME NEW n \in Names PROVE Settled(n)'
  BY DEF Whole
<1>6. Settled(n) /\ (fs[n].db = None => fs[n].wal = None)
  BY <1>3 DEF Whole, Settled
<1>7. ASSUME UNCHANGED <<rows, fs, data, acked, gone>> PROVE Settled(n)'
  <2>1. FileContent(n)' = FileContent(n) /\ (Exists(n)' <=> Exists(n))
    BY <1>7 DEF FileContent, Content, Exists
  <2>2. QED
    BY <1>0, <1>6, <1>7, <2>1, SettledStays
<1>8. ASSUME NEW h \in Handles, NEW k \in Names, Opens(h, k) PROVE Settled(n)'
  <2>1. UNCHANGED <<rows, acked, gone>>
    BY <1>8 DEF Opens, History
  <2>2. QED
    BY <1>0, <1>3, <1>6, <1>8, <2>1, OpenContent, SettledStays DEF Exists
<1>9. CASE GetFast(r) \/ GetSlow(r) \/ Reconnect(r)
  <2>1. \A h, k : Opens(h, k) => h \in Handles /\ k \in Names
    BY DEF Opens
  <2>2. Looks(r) => UNCHANGED <<rows, fs, data, acked, gone>>
    BY DEF Looks, History
  <2>3. QED
    BY <1>7, <1>8, <1>9, <2>1, <2>2, GetEffect, ReconnectEffect
<1>10. CASE ExecClosed(r)
  BY <1>7, <1>10, ExecClosedEffect DEF History
<1>11. CASE InsertRow(r)
  <2> DEFINE k == req[r].name
  <2>1. /\ UNCHANGED <<fs, data, acked, gone, home>> /\ k \in Names
        /\ \/ Exists(k) /\ rows' = rows
           \/ /\ ~Exists(k) /\ \A m \in Names \ {k} : rows'[m] = rows[m]
              /\ rows'[k] = [id |-> FreshId, status |-> "active", orig |-> None]
              /\ FreshId # 0 /\ FreshId \notin Ids
    BY <1>11, InsertRowEffect DEF History
  <2>2. FileContent(n)' = FileContent(n)
    BY <2>1 DEF FileContent, Content
  <2>3. CASE n # k \/ rows' = rows
    <3>1. rows'[n] = rows[n]
      BY <2>1, <2>3
    <3>2. QED
      BY <1>0, <1>6, <2>1, <2>2, <3>1, SettledStays DEF Exists
  <2>4. CASE n = k /\ rows' # rows
    <3>1. FileContent(n) = {}
      BY <1>6, <2>1, <2>4 DEF Settled
    <3>2. rows'[n].id = FreshId
      BY <2>1, <2>4
    <3>3. \A w \in acked : home[w] # FreshId
      BY <2>1, <2>4, IdsUsed DEF TInv, TypeOK
    <3>4. Due(n)' = {}
      BY <2>1, <3>2, <3>3 DEF Due
    <3>5. QED
      BY <1>6, <2>1, <2>2, <3>1, <3>4 DEF Settled
  <2>5. QED
    BY <2>3, <2>4
<1>12. CASE ExecWrite(r)
  <2> DEFINE k == req[r].name
             w == req[r].write
             i == fs[k].wal
  <2>1. /\ k \in Names /\ w \in Writes /\ Exists(k) /\ home[w] = rows[k].id /\ w \notin acked
        /\ i \in Inodes /\ acked' = acked \cup {w}
        /\ data'[i] = data[i] \cup {w} /\ \A j \in Inodes \ {i} : data'[j] = data[j]
        /\ UNCHANGED <<rows, fs, gone, home>>
    BY <1>12, ExecWriteEffect
  <2> HIDE DEF k, w
  <2>2. w \notin gone /\ rows[k].id # 0
    BY <2>1 DEF Contents, Rows
  <2>3. /\ fs[n].db \in Inodes \cup {None} /\ fs[n].wal \in Inodes \cup {None} /\ None \notin Inodes
    BY FilesAt, NoneAssumption
  <2>4. Exists(n)' <=> Exists(n)
    BY <2>1 DEF Exists
  <2>5. CASE n = k
    <3>1. FileContent(n)' = FileContent(n) \cup {w}
      BY <2>1, <2>3, <2>5 DEF FileContent, Content
    <3>2. Due(n)' = Due(n) \cup {w}
      BY <2>1, <2>2, <2>5 DEF Due
    <3>3. QED
      BY <1>6, <2>1, <2>4, <2>5, <3>1, <3>2 DEF Settled
  <2>6. CASE n # k
    <3>1. fs[n].db # i /\ fs[n].wal # i
      BY <2>1, <2>3, <2>6 DEF Disk
    <3>2. FileContent(n)' = FileContent(n)
      BY <2>1, <2>3, <3>1 DEF FileContent, Content
    <3>3. Exists(n) => Due(n)' = Due(n)
      BY <2>1, <2>6 DEF Due, Rows
    <3>4. QED
      BY <1>6, <2>1, <2>4, <3>2, <3>3 DEF Settled
  <2>7. QED
    BY <2>5, <2>6
<1>13. QED
  BY <1>9, <1>10, <1>11, <1>12

\* Where the content of a row is does not change while its files stay.
LEMMA SplitStays ==
  ASSUME DInv, [Next]_vars, UNCHANGED <<rows, acked, gone>>, NEW n \in Names, NEW to, NEW op, NEW step, Split(op, step, n, to),
         step \in {"removeWal", "deleteRow"}
           \/ /\ to \in Names /\ fs'[n] = fs[n] /\ fs'[to] = fs[to]
              /\ Content(fs[n].wal)' = Content(fs[n].wal)
              /\ Content(fs[to].db)' = Content(fs[to].db) /\ Content(fs[to].wal)' = Content(fs[to].wal)
  PROVE  Split(op, step, n, to)' /\ (op = "delete" /\ step = "close" => Split(op, "update", n, to)')
<1>1. Due(n)' = Due(n)
  BY DueStays
<1>2. CASE step \in {"removeWal", "deleteRow"}
  BY <1>1, <1>2 DEF Split
<1>3. CASE /\ to \in Names /\ fs'[n] = fs[n] /\ fs'[to] = fs[to]
           /\ Content(fs[n].wal)' = Content(fs[n].wal)
           /\ Content(fs[to].db)' = Content(fs[to].db) /\ Content(fs[to].wal)' = Content(fs[to].wal)
  <2>1. FileContent(to)' = FileContent(to)
    BY <1>3 DEF FileContent
  <2>2. QED
    BY <1>1, <1>3, <2>1 DEF Split
<1>4. QED
  BY <1>2, <1>3

\* Closing a connection leaves alone what a request has half done.
LEMMA CloseParts ==
  ASSUME DInv, TInv', Careful, [Next]_vars, ~torn, NEW k \in Names, Closes(k),
         \A q \in Requests : HalfDone(q)' <=> HalfDone(q),
         \A q \in Requests : HalfDone(q) =>
           /\ req'[q].op = req[q].op /\ req'[q].name = req[q].name /\ req'[q].to = req[q].to
           /\ req'[q].step = req[q].step \/ (req[q].op = "delete" /\ req[q].step = "close" /\ req'[q].step = "update")
  PROVE  Parts'
<1> USE DEF DInv
<1>1. UNCHANGED <<rows, acked, gone>> /\ Parts
  BY DEF Closes, History, Contents, Parts
<1>2. ASSUME NEW n \in Names PROVE Involved(n)' \/ Settled(n)'
  <2>1. CASE Involved(n)
    BY <2>1 DEF Involved
  <2>2. CASE Settled(n)
    <3>1. fs'[n].db = None => fs'[n].wal = None
      BY <2>2, CloseContent DEF Settled
    <3>2. QED
      BY <1>1, <2>2, <3>1, CloseContent, SettledStays DEF Exists
  <2>3. QED
    BY <1>1, <2>1, <2>2 DEF Parts
<1>3. ASSUME NEW q \in Requests, HalfDone(q)' PROVE Between(q)'
  <2> DEFINE n == req[q].name
             to == req[q].to
  <2>1. /\ HalfDone(q) /\ Split(req[q].op, req[q].step, n, to) /\ n \in Names
        /\ req'[q].op = req[q].op /\ req'[q].name = n /\ req'[q].to = to
        /\ req'[q].step = req[q].step \/ (req[q].op = "delete" /\ req[q].step = "close" /\ req'[q].step = "update")
    BY <1>1, <1>3, HalfIs DEF Parts, Between
  <2>2. \/ req[q].step \in {"removeWal", "deleteRow"}
        \/ /\ to \in Names /\ fs'[n] = fs[n] /\ fs'[to] = fs[to]
           /\ data'[fs[n].wal] = data[fs[n].wal] \/ fs[n].wal = None
           /\ data'[fs[to].db] = data[fs[to].db] \/ fs[to].db = None
           /\ data'[fs[to].wal] = data[fs[to].wal] \/ fs[to].wal = None
    <3>1. CASE req[q].op \in {"delete", "restore"} /\ req[q].step # "renameDb"
      <4>1. fs[n].db = None /\ pool[to] = None /\ to \in Names
        BY <3>1, RenamedArePast DEF Requested, Pending
      <4>2. k # to
        BY <4>1, NoneAssumption DEF Closes
      <4>3. QED
        BY <2>1, <4>1, <4>2, CloseContent DEF Content
    <3>2. QED
      BY <2>1, <3>1, HalfIs
  <2>3. \/ req[q].step \in {"removeWal", "deleteRow"}
        \/ /\ to \in Names /\ fs'[n] = fs[n] /\ fs'[to] = fs[to]
           /\ (IF fs'[n].wal = None THEN {} ELSE data'[fs'[n].wal]) = Content(fs[n].wal)
           /\ (IF fs'[to].db = None THEN {} ELSE data'[fs'[to].db]) = Content(fs[to].db)
           /\ (IF fs'[to].wal = None THEN {} ELSE data'[fs'[to].wal]) = Content(fs[to].wal)
    BY <2>2 DEF Content
  <2>4. ASSUME NEW m, NEW t, NEW op, NEW step, m = n, t = to, op = req[q].op, step = req[q].step
        PROVE  Split(op, step, m, t)' /\ (op = "delete" /\ step = "close" => Split(op, "update", m, t)')
    BY <1>1, <2>1, <2>3, <2>4, SplitStays DEF Content
  <2>5. QED
    BY <2>1, <2>4 DEF Between, Split
<1>4. QED
  BY <1>2, <1>3 DEF Parts
\* Soft delete and restore carry a row's content from one name to another.
LEMMA RenameParts ==
  ASSUME DInv, TInv', Careful, ~torn, NEW r \in Requests, RenameDb(r) \/ RenameWal(r) \/ UpdateRow(r)
  PROVE  Parts'
<1> USE DEF DInv
<1> DEFINE n == req[r].name
           to == req[r].to
<1>0. [Next]_vars
  BY DEF Next, Step
<1>1. /\ req[r].op \in {"delete", "restore"} /\ req[r].op \in LifeCycle
      /\ n \in Names /\ to \in Names /\ n # to /\ Exists(n) /\ ~Exists(to)
      /\ Others(r) /\ UNCHANGED <<data, acked, gone, home>>
  BY RenameDbEffect, RenameWalEffect, UpdateRowEffect DEF Requested, Pending, Moves, Ends, History, LifeCycle
<1>2. \A q \in Requests \ {r} : ~HalfDone(q) /\ ~HalfDone(q)'
  BY <1>1, LifeIsAlone, HalfIsNext DEF Others, IdleSlot
<1>3. Parts
  BY DEF Contents, Parts
<1>4. ASSUME NEW m \in Names, m # n, m # to PROVE Settled(m)
  BY <1>2, <1>3, <1>4 DEF Parts, Involved
<1>5. ASSUME NEW m \in Names, m # n, m # to, fs'[m] = fs[m], rows'[m] = rows[m] PROVE Settled(m)'
  <2>1. Settled(m)
    BY <1>4, <1>5
  <2>2. FileContent(m)' = FileContent(m) /\ (Exists(m)' <=> Exists(m)) /\ (fs'[m].db = None => fs'[m].wal = None)
    BY <1>1, <1>5, <2>1 DEF FileContent, Content, Exists, Settled
  <2>3. QED
    BY <1>0, <1>1, <1>5, <2>1, <2>2, SettledStays
<1>6. CASE RenameDb(r)
  <2>1. /\ req[r].step = "renameDb" /\ Moves(r, "renameWal")
        /\ \A m \in Names \ {n, to} : fs'[m] = fs[m]
        /\ fs'[n].db = None /\ fs'[n].wal = fs[n].wal
        /\ fs'[to].wal = fs[to].wal
        /\ fs'[to].db = IF fs[n].db = None THEN fs[to].db ELSE fs[n].db
        /\ rows' = rows
    BY <1>6, RenameDbEffect
  <2>2. ~HalfDone(r)
    BY <1>1, <2>1, HalfIs
  <2>3. Settled(n) /\ Settled(to)
    BY <1>1, <1>2, <1>3, <2>2 DEF Parts, Involved
  <2>4. /\ fs[n].db = None => fs[n].wal = None
        /\ fs[to].db = None => fs[to].wal = None
        /\ Content(fs[n].db) \cup Content(fs[n].wal) = Due(n)
        /\ Content(fs[to].db) = {} /\ Content(fs[to].wal) = {}
    BY <1>1, <2>3 DEF Settled, FileContent
  <2>5. req'[r].step = "renameWal" /\ req'[r].name = n /\ req'[r].to = to
    BY <2>1 DEF Moves
  <2>6. HalfDone(r)'
    BY <1>1, <2>1, HalfIsNext DEF Moves
  <2>7. ASSUME NEW a, NEW b, a = n, b = to PROVE Split("delete", "renameWal", a, b)'
    <3>1. Due(a)' = Due(a)
      BY <1>0, <1>1, <2>1, <2>7, DueStays
    <3>2. Content(fs[b].wal)' = {}
      BY <1>1, <2>1, <2>4, <2>7 DEF Content
    <3>3. (Content(fs[b].db) \cup Content(fs[a].wal))' = Due(a)
      <4>1. CASE fs[n].db = None
        BY <1>1, <2>1, <2>4, <2>7, <4>1 DEF Content
      <4>2. CASE fs[n].db # None
        BY <1>1, <2>1, <2>4, <2>7, <4>2 DEF Content
      <4>3. QED
        BY <4>1, <4>2
    <3>4. /\ fs'[a].wal # None => fs'[b].db # None
          /\ fs'[b].db = None => fs'[b].wal = None
      BY <2>1, <2>4, <2>7
    <3>5. QED
      BY <3>1, <3>2, <3>3, <3>4 DEF Split
  <2>8. Between(r)'
    BY <2>5, <2>7 DEF Between, Split
  <2>9. \A m \in Names : m \in {n, to} => Involved(m)'
    BY <2>5, <2>6 DEF Involved
  <2>10. \A m \in Names : m \notin {n, to} => Settled(m)'
    BY <1>5, <2>1
  <2>11. QED
    BY <1>2, <2>8, <2>9, <2>10 DEF Parts
<1>7. CASE RenameWal(r)
  <2>1. /\ req[r].step = "renameWal"
        /\ Moves(r, IF req[r].op = "delete" THEN "close" ELSE "update")
        /\ \A m \in Names \ {n, to} : fs'[m] = fs[m]
        /\ fs'[to].db = fs[to].db
        /\ fs'[to].wal = IF fs[n].wal = None THEN fs[to].wal ELSE fs[n].wal
        /\ rows' = rows
    BY <1>7, RenameWalEffect
  <2>2. HalfDone(r) /\ HalfDone(r)'
    BY <1>1, <2>1, HalfIs, HalfIsNext DEF Moves
  <2>3. /\ Content(fs[to].wal) = {} /\ Content(fs[to].db) \cup Content(fs[n].wal) = Due(n)
        /\ fs[n].wal # None => fs[to].db # None
        /\ fs[to].db = None => fs[to].wal = None
    BY <1>3, <2>1, <2>2 DEF Parts, Between, Split
  <2>4. /\ req'[r].name = n /\ req'[r].to = to /\ req'[r].op = req[r].op
        /\ req'[r].step = IF req[r].op = "delete" THEN "close" ELSE "update"
    BY <2>1 DEF Moves
  <2>5. ASSUME NEW a, NEW b, a = n, b = to
        PROVE  Split("delete", "close", a, b)' /\ Split("restore", "update", a, b)'
    <3>1. Due(a)' = Due(a)
      BY <1>0, <1>1, <2>1, <2>5, DueStays
    <3>2. FileContent(b)' = Due(a)
      <4>1. CASE fs[n].wal = None
        BY <1>1, <2>1, <2>3, <2>5, <4>1 DEF FileContent, Content
      <4>2. CASE fs[n].wal # None
        BY <1>1, <2>1, <2>3, <2>5, <4>2 DEF FileContent, Content
      <4>3. QED
        BY <4>1, <4>2
    <3>3. fs'[b].db = None => fs'[b].wal = None
      BY <2>1, <2>3, <2>5
    <3>4. QED
      BY <3>1, <3>2, <3>3 DEF Split
  <2>6. Between(r)'
    <3>1. CASE req[r].op = "delete"
      BY <2>4, <2>5, <3>1 DEF Between, Split
    <3>2. CASE req[r].op = "restore"
      BY <2>4, <2>5, <3>2 DEF Between, Split
    <3>3. QED
      BY <1>1, <3>1, <3>2
  <2>7. \A m \in Names : m \in {n, to} => Involved(m)'
    BY <2>2, <2>4 DEF Involved
  <2>8. \A m \in Names : m \notin {n, to} => Settled(m)'
    BY <1>5, <2>1
  <2>9. QED
    BY <1>2, <2>6, <2>7, <2>8 DEF Parts
<1>8. CASE UpdateRow(r)
  <2>1. /\ req[r].step = "update" /\ Ends(r)
        /\ fs[n] = NoFiles
        /\ \A m \in Names \ {n, to} : rows'[m] = rows[m]
        /\ rows'[n] = NoRow
        /\ rows'[to].id = rows[n].id /\ rows'[to].status # "none"
        /\ fs' = fs
    BY <1>8, UpdateRowEffect
  <2>2. HalfDone(r)
    BY <1>1, <2>1, HalfIs
  <2>3. NoHalf'
    <3>1. ~HalfDone(r)'
      BY <2>1, HalfIsNext DEF Ends, IdleSlot
    <3>2. QED
      BY <1>2, <3>1 DEF NoHalf
  <2>4. FileContent(to) = Due(n) /\ (fs[to].db = None => fs[to].wal = None)
    BY <1>3, <2>1, <2>2 DEF Parts, Between, Split
  <2>5. ASSUME NEW m \in Names PROVE Settled(m)'
    <3>1. CASE m = n
      BY <2>1, <3>1 DEF Settled, FileContent, Content, NoFiles, Exists, NoRow
    <3>2. CASE m = to
      <4>1. FileContent(m)' = FileContent(m)
        BY <1>1, <2>1 DEF FileContent, Content
      <4>2. Due(m)' = Due(n)
        BY <1>1, <2>1, <3>2 DEF Due
      <4>3. Exists(m)'
        BY <2>1, <3>2 DEF Exists
      <4>4. QED
        BY <2>1, <2>4, <3>2, <4>1, <4>2, <4>3 DEF Settled
    <3>3. CASE m # n /\ m # to
      BY <1>5, <2>1, <3>3
    <3>4. QED
      BY <3>1, <3>2, <3>3
  <2>6. QED
    BY <2>3, <2>5, WholeNext DEF Whole
<1>9. QED
  BY <1>6, <1>7, <1>8

\* Hard delete and reset let go of exactly what is due to their row.
LEMMA RemoveParts ==
  ASSUME DInv, TInv', Careful, ~torn, NEW r \in Requests, RemoveDb(r) \/ RemoveWal(r) \/ FinishReset(r) \/ DeleteRow(r)
  PROVE  Parts'
<1> USE DEF DInv
<1> DEFINE n == req[r].name
<1>0. [Next]_vars
  BY DEF Next, Step
<1>1. /\ req[r].op \in {"hardDelete", "reset"} /\ req[r].op \in LifeCycle
      /\ n \in Names /\ Exists(n) /\ req[r].to = None /\ None \notin Names
      /\ Others(r) /\ UNCHANGED <<data, acked, home>>
  BY NoneAssumption, RemoveDbEffect, RemoveWalEffect, FinishResetEffect, DeleteRowEffect
     DEF Moves, Ends, History, LifeCycle, TInv, Slots, Slot
<1>2. \A q \in Requests \ {r} : ~HalfDone(q) /\ ~HalfDone(q)'
  BY <1>1, LifeIsAlone, HalfIsNext DEF Others, IdleSlot
<1>3. Parts
  BY DEF Contents, Parts
<1>4. ASSUME NEW m \in Names, m # n PROVE Settled(m)
  BY <1>1, <1>2, <1>3, <1>4 DEF Parts, Involved
<1>5. ASSUME NEW m \in Names, m # n, fs'[m] = fs[m], rows'[m] = rows[m], Exists(m) => Due(m)' = Due(m) PROVE Settled(m)'
  <2>1. Settled(m)
    BY <1>4, <1>5
  <2>2. FileContent(m)' = FileContent(m) /\ (Exists(m)' <=> Exists(m)) /\ (fs'[m].db = None => fs'[m].wal = None)
    BY <1>1, <1>5, <2>1 DEF FileContent, Content, Exists, Settled
  <2>3. QED
    BY <1>5, <2>1, <2>2 DEF Settled
<1>6. ASSUME NEW m \in Names, rows'[m] = rows[m], gone' = gone PROVE Due(m)' = Due(m)
  BY <1>0, <1>1, <1>6, DueStays
<1>7. ASSUME fs'[n] = NoFiles, {w \in acked' \ gone' : home'[w] = rows'[n].id} = {},
             NEW m \in Names, m = n
      PROVE  Settled(m)'
  <2>1. FileContent(m)' = {} /\ fs'[m].wal = None
    BY <1>7 DEF FileContent, Content, NoFiles
  <2>2. Due(m)' = {}
    BY <1>7 DEF Due
  <2>3. QED
    BY <2>1, <2>2 DEF Settled
<1>8. CASE RemoveDb(r) /\ req[r].step = "removeDb"
  <2>1. /\ Moves(r, "removeWal")
        /\ \A m \in Names \ {n} : fs'[m] = fs[m]
        /\ gone' = IF fs[n].db = None THEN gone ELSE gone \cup FileContent(n)
        /\ rows' = rows
    BY <1>8, RemoveDbEffect
  <2>2. ~HalfDone(r)
    BY <1>1, <1>8, HalfIs
  <2>3. Settled(n)
    BY <1>1, <1>2, <1>3, <2>2 DEF Parts, Involved
  <2>4. FileContent(n) = Due(n) /\ (fs[n].db = None => FileContent(n) = {})
    BY <1>1, <2>3 DEF Settled, FileContent, Content
  <2>5. gone' = gone \cup Due(n)
    BY <2>1, <2>4
  <2>6. HalfDone(r)' /\ req'[r].step = "removeWal" /\ req'[r].name = n
    BY <1>1, <2>1, HalfIsNext DEF Moves
  <2>7. {w \in acked' \ gone' : home'[w] = rows'[n].id} = {}
    BY <1>1, <2>1, <2>5 DEF Due
  <2>8. Between(r)'
    BY <1>1, <2>1, <2>6, <2>7 DEF Between, Split, Due, Moves
  <2>9. ASSUME NEW m \in Names, m # n PROVE Settled(m)'
    <3>1. ASSUME Exists(m) PROVE Due(m)' = Due(m)
      <4>1. Due(m) \cap Due(n) = {}
        BY <1>1, <2>9, <3>1, DueDiffers
      <4>2. QED
        BY <1>1, <2>1, <2>5, <4>1 DEF Due
    <3>2. QED
      BY <1>5, <2>1, <2>9, <3>1
  <2>10. \A m \in Names : m = n => Involved(m)'
    BY <2>6 DEF Involved
  <2>11. QED
    BY <1>2, <2>8, <2>9, <2>10 DEF Parts
<1>9. CASE RemoveDb(r) /\ req[r].step = "removeDb2"
  <2>1. /\ Moves(r, "removeWal2") /\ req[r].op = "reset"
        /\ \A m \in Names \ {n} : fs'[m] = fs[m]
        /\ fs'[n].db = None /\ fs'[n].wal = fs[n].wal
        /\ gone' = IF fs[n].db = None THEN gone ELSE gone \cup FileContent(n)
        /\ rows' = rows
    BY <1>9, RemoveDbEffect
  <2>2. fs[n] = NoFiles
    BY <1>9 DEF Requested, Pending
  <2>3. gone' = gone /\ fs'[n].wal = None
    BY <2>1, <2>2 DEF NoFiles
  <2>4. fs'[n] = NoFiles
    <3>1. fs'[n] \in Files
      BY <1>1 DEF TInv, TypeOK
    <3>2. QED
      BY <2>1, <2>3, <3>1 DEF Files, NoFiles
  <2>5. ~HalfDone(r) /\ ~HalfDone(r)'
    BY <1>1, <1>9, <2>1, HalfIs, HalfIsNext DEF Moves
  <2>6. Settled(n)
    BY <1>1, <1>2, <1>3, <2>5 DEF Parts, Involved
  <2>7. Due(n) = {}
    BY <1>1, <2>2, <2>6 DEF Settled, FileContent, Content, NoFiles
  <2>8. {w \in acked' \ gone' : home'[w] = rows'[n].id} = {}
    BY <1>1, <2>1, <2>3, <2>7 DEF Due
  <2>9. Whole'
    BY <1>5, <1>6, <1>7, <2>1, <2>3, <2>4, <2>8 DEF Whole
  <2>10. QED
    BY <1>2, <2>5, <2>9, WholeNext DEF NoHalf
<1>10. CASE RemoveWal(r)
  <2>1. /\ req[r].step = "removeWal"
        /\ Moves(r, IF req[r].op = "reset" THEN "removeDb2" ELSE "deleteRow")
        /\ \A m \in Names \ {n} : fs'[m] = fs[m]
        /\ fs'[n] = NoFiles
        /\ UNCHANGED <<rows, gone>>
    BY <1>10, RemoveWalEffect DEF History
  <2>2. HalfDone(r)
    BY <2>1, HalfIs
  <2>3. Due(n) = {}
    BY <1>3, <2>1, <2>2 DEF Parts, Between, Split
  <2>4. {w \in acked' \ gone' : home'[w] = rows'[n].id} = {}
    BY <1>1, <2>1, <2>3 DEF Due
  <2>5. Whole'
    BY <1>5, <1>6, <1>7, <2>1, <2>4 DEF Whole
  <2>6. Between(r)'
    BY <1>1, <2>1, <2>4 DEF Between, Split, Due, Moves
  <2>7. QED
    BY <1>2, <2>5, <2>6 DEF Whole, Parts
<1>11. CASE FinishReset(r)
  <2>1. /\ req[r].step = "removeWal2" /\ Ends(r) /\ fs' = fs /\ UNCHANGED <<rows, gone>>
    BY <1>11, FinishResetEffect
  <2>2. ~HalfDone(r) /\ ~HalfDone(r)'
    BY <1>1, <2>1, HalfIs, HalfIsNext DEF Ends, IdleSlot
  <2>3. NoHalf /\ NoHalf'
    BY <1>2, <2>2 DEF NoHalf
  <2>4. Whole
    BY <2>3, WholeNow
  <2>5. ASSUME NEW m \in Names PROVE Settled(m)'
    <3>1. Settled(m) /\ (fs[m].db = None => fs[m].wal = None)
      BY <2>4 DEF Whole, Settled
    <3>2. FileContent(m)' = FileContent(m) /\ (Exists(m)' <=> Exists(m))
      BY <1>1, <2>1 DEF FileContent, Content, Exists
    <3>3. QED
      BY <1>0, <1>1, <2>1, <3>1, <3>2, SettledStays
  <2>6. QED
    BY <2>3, <2>5, WholeNext DEF Whole
<1>12. CASE DeleteRow(r)
  <2>1. /\ Ends(r) /\ fs[n] = NoFiles
        /\ \A m \in Names \ {n} : rows'[m] = rows[m]
        /\ rows'[n] = NoRow /\ UNCHANGED <<fs, gone>>
    BY <1>12, DeleteRowEffect DEF History
  <2>2. ~HalfDone(r)'
    BY <2>1, HalfIsNext DEF Ends, IdleSlot
  <2>3. \A m \in Names : m = n => ~Exists(m)'
    BY <2>1 DEF Exists, NoRow
  <2>4. \A m \in Names : m = n => Settled(m)'
    BY <2>1, <2>3 DEF Settled, FileContent, Content, NoFiles
  <2>5. \A m \in Names : m # n => Settled(m)'
    BY <1>5, <1>6, <2>1
  <2>6. QED
    BY <1>2, <2>2, <2>4, <2>5, WholeNext DEF Whole, NoHalf
<1>13. QED
  BY <1>8, <1>9, <1>10, <1>11, <1>12, RemoveDbEffect

\* Whatever step is taken, a row's content stays where its requests put it.
LEMMA ContentsKept ==
  ASSUME DInv, TInv', Careful, [Next]_vars
  PROVE  Contents'
<1> USE DEF DInv
<1>1. gone' \subseteq acked'
  <2>1. acked \subseteq acked' /\ gone \subseteq acked
    BY AckedGrows DEF Contents
  <2>2. ASSUME NEW r \in Requests, RemoveDb(r) PROVE gone' \subseteq acked'
    <3>1. req[r].name \in Names
      BY <2>2, RemoveDbEffect
    <3>2. FileContent(req[r].name) \subseteq acked
      BY <3>1, FilesAt DEF FileContent, Content, Disk
    <3>3. QED
      BY <2>1, <2>2, <3>2, RemoveDbEffect
  <2>3. QED
    BY <2>1, <2>2, HistoryFrame
<1>2. ASSUME NEW w \in acked' PROVE home'[w] # 0
  <2>1. ASSUME NEW r \in Requests, ExecWrite(r) PROVE home'[w] # 0
    <3>1. /\ acked' = acked \cup {req[r].write} /\ home' = home /\ home[req[r].write] = rows[req[r].name].id
          /\ req[r].name \in Names /\ Exists(req[r].name)
      BY <2>1, ExecWriteEffect
    <3>2. QED
      BY <3>1 DEF Contents, Rows
  <2>2. ASSUME NEW r \in Requests, NEW n \in Names, NEW v \in Writes, StartWrite(r, n, v) PROVE home'[w] # 0
    <3>1. /\ acked' = acked /\ Exists(n) /\ home'[v] = rows[n].id /\ \A u \in Writes \ {v} : home'[u] = home[u]
      BY <2>2, StartWriteEffect
    <3>2. w \in Writes
      BY DEF TInv, TypeOK
    <3>3. QED
      BY <3>1, <3>2 DEF Contents, Rows
  <2>3. CASE acked' = acked /\ home' = home
    BY <2>3 DEF Contents
  <2>4. QED
    BY <2>1, <2>2, <2>3, HistoryFrame
<1>3. ASSUME ~torn' PROVE Parts'
  <2>1. CASE Crash
    <3>1. ~torn /\ NoHalf
      BY <1>3, <2>1 DEF Crash, NoHalf, TInv, TypeOK
    <3>2. Whole
      BY <3>1, WholeNow
    <3>3. UNCHANGED <<rows, fs, data, acked, gone>>
      BY <2>1 DEF Crash
    <3>4. ASSUME NEW m \in Names PROVE Settled(m)'
      <4>1. Settled(m) /\ (fs[m].db = None => fs[m].wal = None)
        BY <3>2 DEF Whole, Settled
      <4>2. FileContent(m)' = FileContent(m) /\ (Exists(m)' <=> Exists(m))
        BY <3>3 DEF FileContent, Content, Exists
      <4>3. QED
        BY <3>3, <4>1, <4>2, SettledStays
    <3>5. NoHalf'
      <4>1. \A q \in Requests : req'[q].step = "idle" /\ req'[q].op = "idle"
        BY <2>1 DEF Crash, IdleSlot
      <4>2. QED
        BY <4>1, HalfIsNext DEF NoHalf
    <3>6. QED
      BY <3>4, <3>5, WholeNext DEF Whole
  <2>2. CASE ~Crash
    <3>1. ~torn
      BY <1>3, <2>2, HistoryFrame
    <3>2. CASE UNCHANGED vars \/ Tick
      <4>1. UNCHANGED <<rows, fs, data, req, acked, gone, home>>
        BY <3>2 DEF vars, Tick, History
      <4>2. Parts
        BY <3>1 DEF Contents, Parts
      <4>3. QED
        BY <4>1, <4>2 DEF Parts, Involved, HalfDone, Settled, FileContent, Content, Due, Exists, Between, Split
    <3>3. ASSUME NEW h \in Handles, IdleClose(h) PROVE Parts'
      <4>1. req' = req /\ \E n \in Names : Closes(n)
        BY <3>3, IdleCloseEffect DEF Closes
      <4>2. \A q \in Requests : HalfDone(q)' <=> HalfDone(q)
        BY <4>1 DEF HalfDone
      <4>3. QED
        BY <3>1, <4>1, <4>2, CloseParts
    <3>4. ASSUME NEW r \in Requests, ClosePooled(r) PROVE Parts'
      <4>1. /\ req[r].step = "close" /\ req[r].op \in {"delete", "reset"} /\ req[r].name \in Names
            /\ Moves(r, IF req[r].op = "delete" THEN "update" ELSE "removeDb")
            /\ Closes(req[r].name) \/ UNCHANGED <<rows, fs, data, pool, conn, clock, History>>
        BY <3>4, ClosePooledEffect
      <4>2. ASSUME NEW q \in Requests
            PROVE  /\ HalfDone(q)' <=> HalfDone(q)
                   /\ HalfDone(q) =>
                      /\ req'[q].op = req[q].op /\ req'[q].name = req[q].name /\ req'[q].to = req[q].to
                      /\ req'[q].step = req[q].step \/ (req[q].op = "delete" /\ req[q].step = "close" /\ req'[q].step = "update")
        <5>1. CASE q = r
          BY <4>1, <5>1, HalfIs, HalfIsNext DEF Moves
        <5>2. CASE q # r
          BY <4>1, <5>2 DEF Moves, Others, HalfDone
        <5>3. QED
          BY <5>1, <5>2
      <4>3. CASE Closes(req[r].name)
        BY <3>1, <4>1, <4>2, <4>3, CloseParts
      <4>4. CASE UNCHANGED <<rows, fs, data, pool, conn, clock, History>>
        <5>1. UNCHANGED <<rows, fs, data, acked, gone, home>> /\ Parts
          BY <3>1, <4>4 DEF History, Contents, Parts
        <5>2. ASSUME NEW m \in Names PROVE Involved(m)' \/ Settled(m)'
          <6>1. Involved(m) => Involved(m)'
            BY <4>2 DEF Involved
          <6>2. Settled(m) => Settled(m)'
            BY <5>1 DEF Settled, FileContent, Content, Due, Exists
          <6>3. QED
            BY <5>1, <6>1, <6>2 DEF Parts
        <5>3. ASSUME NEW q \in Requests, HalfDone(q)' PROVE Between(q)'
          <6>1. Between(q)
            BY <4>2, <5>1, <5>3 DEF Parts
          <6>2. QED
            BY <4>2, <5>1, <5>3, <6>1 DEF Between, Split, FileContent, Content, Due
        <5>4. QED
          BY <5>2, <5>3 DEF Parts
      <4>5. QED
        BY <4>1, <4>3, <4>4
    <3>5. QED
      BY <2>2, <3>1, <3>2, <3>3, <3>4, StartParts, DataParts, RenameParts, RemoveParts DEF Next, Step
  <2>3. QED
    BY <2>1, <2>2
<1>4. QED
  BY <1>1, <1>2, <1>3 DEF Contents, Parts
-----------------------------------------------------------------------------
(* What a reset erased *)

\* No step brings a write that was erased into a file in use.
LEMMA CleanStays ==
  ASSUME DInv, Careful, [Next]_vars, NEW i \in Inodes, i \in InUse, data[i] \cap erased = {}
  PROVE  data'[i] \cap erased = {}
<1> USE DEF DInv
<1>1. CASE data' = data
  BY <1>1
<1>2. ASSUME NEW h \in Handles, NEW n \in Names, Opens(h, n) PROVE data'[i] \cap erased = {}
  BY <1>2 DEF Opens
<1>3. ASSUME NEW n \in Names, Closes(n) PROVE data'[i] \cap erased = {}
  <2>1. CASE data' = data
    BY <2>1
  <2>2. CASE /\ fs[n].db \in Inodes /\ fs[n].wal \in Inodes
             /\ data'[fs[n].db] = data[fs[n].db] \cup data[fs[n].wal]
             /\ \A j \in Inodes \ {fs[n].db} : data'[j] = data[j]
    <3>1. Named(fs[n].db) /\ Named(fs[n].wal)
      BY DEF Named, Holds
    <3>2. data[fs[n].db] \cap erased = {} /\ data[fs[n].wal] \cap erased = {}
      BY <2>2, <3>1 DEF Erased
    <3>3. QED
      BY <2>2, <3>2
  <2>3. QED
    BY <1>3, <2>1, <2>2 DEF Closes
<1>4. ASSUME NEW r \in Requests, ExecWrite(r) PROVE data'[i] \cap erased = {}
  <2>1. req[r].write \notin erased
    BY <1>4, ExecWriteEffect DEF Erased
  <2>2. data'[i] = data[i] \/ data'[i] = data[i] \cup {req[r].write}
    BY <1>4, ExecWriteEffect
  <2>3. QED
    BY <2>1, <2>2
<1>5. ASSUME NEW r \in Requests, RenameDb(r) \/ RenameWal(r) \/ RemoveDb(r) \/ RemoveWal(r) \/ FinishReset(r) PROVE data' = data
  BY <1>5, RenameDbEffect, RenameWalEffect, RemoveDbEffect, RemoveWalEffect, FinishResetEffect
<1>6. Crash => data' = data
  BY DEF Crash
<1>7. QED
  BY <1>1, <1>2, <1>3, <1>4, <1>5, <1>6, FilesSteps

\* A file with a name after a step had one, or is new and empty.
LEMMA NamedWas ==
  ASSUME DInv, Careful, [Next]_vars, NEW i \in Inodes, Named(i)'
  PROVE  (Named(i) /\ i \in InUse) \/ data'[i] = {}
<1>1. Named(i) => i \in InUse
  BY UsedFiles DEF Named, Holds
<1>2. CASE fs' = fs
  BY <1>1, <1>2 DEF Named, Holds
<1>3. Crash => fs' = fs
  BY DEF Crash
<1>4. \A r \in Requests : ExecWrite(r) => fs' = fs
  BY DEF ExecWrite
<1>5. QED
  BY <1>1, <1>2, <1>3, <1>4, FilesSteps, NamedByOpen, NamedByClose, NamedByLife

\* A connection open after a step was, or the step opened it.
LEMMA OpenWas ==
  ASSUME DInv, Careful, [Next]_vars, NEW n \in Names, Open(n)'
  PROVE  \/ Open(n) /\ pool'[n] = pool[n] /\ conn'[pool'[n]] = conn[pool[n]] /\ pool[n] \in Handles
         \/ \E h \in Handles : Opens(h, n)
<1> USE DEF DInv
<1>0. pool[n] \in Handles \cup {None}
  BY DEF TInv, TypeOK
<1>1. CASE UNCHANGED <<pool, conn>>
  BY <1>0, <1>1 DEF Open
<1>2. ASSUME NEW h \in Handles, NEW k \in Names, Opens(h, k), k # n
      PROVE  Open(n) /\ pool'[n] = pool[n] /\ conn'[pool'[n]] = conn[pool[n]] /\ pool[n] \in Handles
  <2>1. pool'[n] = pool[n] /\ pool[n] # None
    BY <1>2 DEF Opens, Open
  <2>2. pool[n] # h
    <3>1. CASE pool[k] = None
      BY <1>0, <1>2, <2>1, <3>1 DEF Opens, TInv, Conns
    <3>2. CASE pool[k] = h
      BY <1>2, <2>1, <3>2, HandlesDiffer
    <3>3. QED
      BY <1>2, <3>1, <3>2 DEF Opens
  <2>3. conn'[pool[n]] = conn[pool[n]]
    BY <1>0, <1>2, <2>1, <2>2 DEF Opens
  <2>4. QED
    BY <1>0, <2>1, <2>3 DEF Open
<1>3. ASSUME NEW k \in Names, Closes(k)
      PROVE  Open(n) /\ pool'[n] = pool[n] /\ conn'[pool'[n]] = conn[pool[n]] /\ pool[n] \in Handles
  <2>1. n # k
    BY <1>3 DEF Closes, Open
  <2>2. pool'[n] = pool[n] /\ pool[n] # None
    BY <1>3, <2>1 DEF Closes, Open
  <2>3. pool[n] # pool[k]
    BY <2>1, <2>2, HandlesDiffer
  <2>4. conn'[pool[n]] = conn[pool[n]]
    BY <1>0, <1>3, <2>2, <2>3 DEF Closes
  <2>5. QED
    BY <1>0, <2>2, <2>4 DEF Open
<1>4. ASSUME NEW r \in Requests, ExecWrite(r) \/ RenameDb(r) \/ RenameWal(r) \/ RemoveDb(r) \/ RemoveWal(r) \/ FinishReset(r)
      PROVE  UNCHANGED <<pool, conn>>
  BY <1>4 DEF ExecWrite, RenameDb, RenameWal, RemoveDb, RemoveWal, FinishReset
<1>5. ~Crash
  BY DEF Crash, Open
<1>6. QED
  BY <1>1, <1>2, <1>3, <1>4, <1>5, FilesSteps

\* A name that a step registers has the files of its connection.
LEMMA ExistsWas ==
  ASSUME DInv, Careful, [Next]_vars, NEW n \in Names, Exists(n)', ~Exists(n), Open(n)'
  PROVE  UNCHANGED <<fs, data, pool, conn, erased>> /\ Matches(n)
<1> USE DEF DInv
<1>1. ~UNCHANGED rows
  BY DEF Exists
<1>2. ASSUME NEW r \in Requests, InsertRow(r) PROVE UNCHANGED <<fs, data, pool, conn, erased>> /\ Matches(n)
  <2>1. n = req[r].name /\ Len(n) = 1 /\ Calm /\ UNCHANGED <<fs, data, pool, conn, erased>>
    BY <1>2, InsertRowEffect DEF Exists, History
  <2>2. ~Spent(n) /\ ~Half(n)
    BY <2>1, SlugIsLive, CalmIsWhole DEF Half
  <2>3. QED
    BY <2>1, <2>2 DEF Pooled
<1>3. ASSUME NEW r \in Requests, UpdateRow(r) PROVE FALSE
  <2>1. n = req[r].to
    BY <1>3, UpdateRowEffect DEF Exists, NoRow
  <2>2. pool'[n] = None
    BY <1>3, <2>1, UpdateRowEffect
  <2>3. QED
    BY <2>2 DEF Open
<1>4. ASSUME NEW r \in Requests, DeleteRow(r) PROVE FALSE
  BY <1>4, DeleteRowEffect DEF Exists, NoRow
<1>5. ASSUME NEW r \in Requests, NEW m \in Names, StartDelete(r, m) PROVE FALSE
  BY <1>1, <1>5 DEF StartDelete
<1>6. ASSUME NEW r \in Requests, NEW m \in Names, NEW status \in {"active", "inactive"}, SetStatus(r, m, status) PROVE FALSE
  BY <1>6, SetStatusEffect DEF Exists
<1>7. QED
  BY <1>1, <1>2, <1>3, <1>4, <1>5, <1>6, RowsFrame

\* When a reset answers, what it saw is in no file with a name and in no connection.
LEMMA SeenIsGone ==
  ASSUME DInv, NEW r \in Requests, FinishReset(r)
  PROVE  /\ \A i \in Inodes : Named(i) => data[i] \cap req[r].seen = {}
         /\ \A n \in Names : Exists(n) /\ Open(n) =>
              (data[conn[pool[n]].db] \cup data[conn[pool[n]].wal]) \cap req[r].seen = {}
         /\ req[r].seen \subseteq acked
<1> USE DEF DInv
<1>1. /\ req[r].op = "reset" /\ req[r].step = "removeWal2" /\ req[r].name \in Names /\ fs[req[r].name] = NoFiles
      /\ req[r].op \in LifeCycle
  BY FinishResetEffect DEF LifeCycle
<1>2. \A i \in Inodes : ~Holds(req[r].name, i)
  BY <1>1, NoneAssumption DEF Holds, NoFiles
<1>3. \A i \in Inodes : Named(i) => data[i] \cap req[r].seen = {}
  BY <1>1, <1>2 DEF Erased
<1>4. \A q \in Requests : ~HalfDone(q)
  BY <1>1, LifeIsAlone, HalfIs
<1>5. ASSUME NEW n \in Names, Exists(n), Open(n)
      PROVE  (data[conn[pool[n]].db] \cup data[conn[pool[n]].wal]) \cap req[r].seen = {}
  <2>1. fs[n].db = conn[pool[n]].db /\ fs[n].wal = conn[pool[n]].wal
    BY <1>4, <1>5, CalmFiles
  <2>2. pool[n] \in Handles
    BY <1>5 DEF Open, TInv, TypeOK
  <2>3. fs[n].db \in Inodes /\ fs[n].wal \in Inodes
    BY <1>5, <2>1, <2>2 DEF Open, TInv, Conns
  <2>4. Named(fs[n].db) /\ Named(fs[n].wal)
    BY DEF Named, Holds
  <2>5. QED
    BY <1>3, <2>1, <2>3, <2>4
<1>6. QED
  BY <1>1, <1>3, <1>5 DEF Erased

\* A reset sees only what the files of its database hold.
LEMMA SeenIsHeld ==
  ASSUME DInv, NoHalf, NEW n \in Names, Exists(n)
  PROVE  Visible(n) \subseteq FileContent(n)
<1>1. CASE Open(n)
  <2>1. fs[n].db = conn[pool[n]].db /\ fs[n].wal = conn[pool[n]].wal
    BY <1>1, CalmFiles DEF NoHalf
  <2>2. QED
    BY <1>1, <2>1 DEF Visible, Open, FileContent
<1>2. CASE ~Open(n)
  BY <1>2 DEF Visible, Open, FileContent
<1>3. QED
  BY <1>1, <1>2
\* A running reset's files are the only ones with what it saw.
LEMMA SeenKept ==
  ASSUME DInv, TInv', Careful, [Next]_vars, NEW r \in Requests, req'[r].op = "reset"
  PROVE  /\ req'[r].seen \subseteq acked'
         /\ \A i \in Inodes : Named(i)' /\ ~(i = fs'[req'[r].name].db \/ i = fs'[req'[r].name].wal) =>
              data'[i] \cap req'[r].seen = {}
<1> USE DEF DInv
<1>0. acked \subseteq acked'
  BY AckedGrows
<1>1. ASSUME NEW n \in Names, StartReset(r, n) PROVE req'[r].seen \subseteq acked /\
        \A i \in Inodes : Named(i) /\ ~(i = fs[n].db \/ i = fs[n].wal) => data[i] \cap req'[r].seen = {}
  <2>1. /\ Begins(r, "reset", n, "close") /\ req'[r].seen = Visible(n) /\ Exists(n)
    BY <1>1, StartResetEffect
  <2>2. NoHalf
    BY <2>1, CalmIsWhole DEF Begins, Calm, NoHalf
  <2>3. Visible(n) \subseteq FileContent(n)
    BY <2>1, <2>2, SeenIsHeld
  <2>4. /\ fs[n].db \in Inodes \cup {None} /\ fs[n].wal \in Inodes \cup {None}
    BY FilesAt
  <2>5. FileContent(n) \subseteq acked
    BY <2>4 DEF FileContent, Content, Disk
  <2>6. ASSUME NEW i \in Inodes, Named(i), i # fs[n].db, i # fs[n].wal PROVE data[i] \cap FileContent(n) = {}
    <3>1. fs[n].db # None => data[i] \cap data[fs[n].db] = {}
      BY <2>4, <2>6 DEF Disk, Named, Holds
    <3>2. fs[n].wal # None => data[i] \cap data[fs[n].wal] = {}
      BY <2>4, <2>6 DEF Disk, Named, Holds
    <3>3. QED
      BY <3>1, <3>2 DEF FileContent, Content
  <2>7. QED
    BY <2>1, <2>3, <2>5, <2>6
<1>2. ASSUME NEW n \in Names, StartReset(r, n) PROVE UNCHANGED <<fs, data>> /\ req'[r].name = n
  BY <1>2, StartResetEffect DEF Begins
<1>3. ASSUME req[r].op = "reset", req'[r].seen = req[r].seen, req'[r].name = req[r].name
      PROVE  /\ req'[r].seen \subseteq acked'
             /\ \A i \in Inodes : Named(i)' /\ ~(i = fs'[req'[r].name].db \/ i = fs'[req'[r].name].wal) =>
                  data'[i] \cap req'[r].seen = {}
  <2> DEFINE n == req[r].name
             seen == req[r].seen
  <2>1. /\ n \in Names /\ seen \subseteq acked
        /\ \A i \in Inodes : Named(i) /\ ~(i = fs[n].db \/ i = fs[n].wal) => data[i] \cap seen = {}
        /\ req[r].op \in LifeCycle /\ req[r].op \notin {"create", "write", "delete", "restore", "hardDelete"}
    BY <1>3 DEF Erased, Holds, TInv, Slots, Slot, LifeCycle
  <2>2. \A q \in Requests : req[q].op \in {"idle", "reset"}
    BY <1>3, <2>1, LifeIsAlone DEF IdleSlot
  <2> HIDE DEF n, seen
  <2>3. CASE UNCHANGED <<fs, data>>
    BY <1>0, <1>3, <2>1, <2>3 DEF Named, Holds, n, seen
  <2>4. ASSUME NEW h \in Handles, NEW k \in Names, Opens(h, k) PROVE FALSE
    BY <2>1, <2>4 DEF Opens, Calm, n
  <2>5. ASSUME NEW k \in Names, Closes(k)
        PROVE  \A i \in Inodes : Named(i)' /\ ~(i = fs'[n].db \/ i = fs'[n].wal) => data'[i] \cap seen = {}
    <3>1. CASE UNCHANGED <<fs, data>>
      BY <2>1, <3>1 DEF Named, Holds
    <3>2. CASE /\ fs[k].db \in Inodes /\ fs[k].wal \in Inodes
               /\ \A m \in Names \ {k} : fs'[m] = fs[m]
               /\ fs'[k].db = fs[k].db /\ fs'[k].wal = None
               /\ data'[fs[k].db] = data[fs[k].db] \cup data[fs[k].wal]
               /\ \A i \in Inodes \ {fs[k].db} : data'[i] = data[i]
      <4> SUFFICES ASSUME NEW i \in Inodes, Named(i)', i # fs'[n].db, i # fs'[n].wal
                   PROVE  data'[i] \cap seen = {}
        OBVIOUS
      <4>1. Named(i)
        BY <2>5, NamedByClose
      <4>2. PICK m \in Names : i = fs'[m].db \/ i = fs'[m].wal
        BY DEF Named, Holds
      <4>3. i # fs[n].db /\ i # fs[n].wal
        <5>1. fs'[n].db = fs[n].db /\ (fs'[n].wal = fs[n].wal \/ n = k)
          BY <2>1, <3>2
        <5>2. i = fs[k].wal => FALSE
          <6>1. m # k \/ i = fs[k].db
            BY <3>2, <4>2, NoneAssumption
          <6>2. m # k => i = fs[m].db \/ i = fs[m].wal
            BY <3>2, <4>2
          <6>3. QED
            BY <3>2, <6>1, <6>2, NoneAssumption DEF Disk
        <5>3. QED
          BY <5>1, <5>2
      <4>4. data[i] \cap seen = {}
        BY <2>1, <4>1, <4>3
      <4>5. CASE i = fs[k].db
        <5>1. k # n
          BY <4>3, <4>5
        <5>2. Named(fs[k].wal) /\ fs[k].wal # fs[n].db /\ fs[k].wal # fs[n].wal
          BY <2>1, <3>2, <5>1, NoneAssumption DEF Disk, Named, Holds
        <5>3. data[fs[k].wal] \cap seen = {}
          BY <2>1, <3>2, <5>2
        <5>4. QED
          BY <3>2, <4>4, <4>5, <5>3
      <4>6. CASE i # fs[k].db
        BY <3>2, <4>4, <4>6
      <4>7. QED
        BY <4>5, <4>6
    <3>3. QED
      BY <2>5, <3>1, <3>2 DEF Closes
  <2>6. ASSUME NEW q \in Requests, ExecWrite(q) \/ RenameDb(q) \/ RenameWal(q) PROVE FALSE
    BY <2>2, <2>6, ExecWriteEffect, RenameDbEffect, RenameWalEffect
  <2>7. ASSUME NEW q \in Requests, RemoveDb(q) \/ RemoveWal(q)
        PROVE  \A i \in Inodes : Named(i)' /\ ~(i = fs'[n].db \/ i = fs'[n].wal) => data'[i] \cap seen = {}
    <3>1. q = r
      <4>1. req[q].op # "idle"
        BY <2>7, RemoveDbEffect, RemoveWalEffect
      <4>2. QED
        BY <2>1, <4>1, LifeIsAlone DEF IdleSlot
    <3>2. /\ \A m \in Names \ {n} : fs'[m] = fs[m]
          /\ data' = data
      BY <2>7, <3>1, RemoveDbEffect, RemoveWalEffect DEF n
    <3>3. fs'[n].db = None /\ (fs'[n].wal = None \/ fs'[n].wal = fs[n].wal)
      BY <2>7, <3>1, RemoveDbEffect, RemoveWalEffect DEF n, NoFiles
    <3>4. SUFFICES ASSUME NEW i \in Inodes, Named(i)', i # fs'[n].db, i # fs'[n].wal
                   PROVE  data'[i] \cap seen = {}
      OBVIOUS
    <3>5. PICK m \in Names : i = fs'[m].db \/ i = fs'[m].wal
      BY <3>4 DEF Named, Holds
    <3>6. m # n /\ (i = fs[m].db \/ i = fs[m].wal)
      BY <3>2, <3>4, <3>5
    <3>7. i # fs[n].db /\ i # fs[n].wal
      BY <2>1, <3>4, <3>6, NoneAssumption DEF Disk
    <3>8. Named(i)
      BY <3>6 DEF Named, Holds
    <3>9. QED
      BY <2>1, <3>2, <3>7, <3>8
  <2>8. ASSUME NEW q \in Requests, FinishReset(q) PROVE UNCHANGED <<fs, data>>
    BY <2>8, FinishResetEffect
  <2>9. Crash => UNCHANGED <<fs, data>>
    BY DEF Crash
  <2>10. QED
    BY <1>0, <1>3, <2>1, <2>3, <2>4, <2>5, <2>6, <2>7, <2>8, <2>9, FilesSteps DEF n, seen
<1>4. CASE \E q \in Requests, n \in Names : StartReset(q, n)
  <2>1. PICK q \in Requests, n \in Names : StartReset(q, n)
    BY <1>4
  <2>2. CASE q = r
    BY <1>0, <1>1, <1>2, <2>1, <2>2 DEF Named, Holds
  <2>3. CASE q # r
    <3>1. Begins(q, "reset", n, "close")
      BY <2>1, StartResetEffect
    <3>2. req'[r] = req[r] /\ req[r].op = "idle"
      BY <2>3, <3>1 DEF Begins, Others, LifeCycle
    <3>3. QED
      BY <3>2
  <2>4. QED
    BY <2>2, <2>3
<1>5. CASE ~\E q \in Requests, n \in Names : StartReset(q, n)
  <2>1. req[r].op = "reset" /\ req'[r].seen = req[r].seen /\ req'[r].name = req[r].name
    <3>1. ASSUME NEW q \in Requests, StartRequest(q)
          PROVE  req'[r].op = req[r].op /\ req'[r].seen = req[r].seen /\ req'[r].name = req[r].name
      <4>1. PICK n \in Names :
              \/ StartCreate(q, n) \/ StartDelete(q, n) \/ StartRestore(q, n) \/ StartHardDelete(q, n)
              \/ \E w \in Writes : StartWrite(q, n, w)
              \/ \E status \in {"active", "inactive"} : SetStatus(q, n, status)
        BY <1>5, <3>1 DEF StartRequest
      <4>2. \/ Begins(q, "create", n, "get") \/ Begins(q, "write", n, "get") \/ Begins(q, "delete", n, "renameDb")
            \/ Begins(q, "restore", n, "renameDb") \/ Begins(q, "hardDelete", n, "removeDb")
            \/ req' = req
        BY <4>1, StartCreateEffect, StartWriteEffect, StartDeleteEffect, StartRestoreEffect, StartHardDeleteEffect,
           SetStatusEffect
      <4>3. q = r => req' = req
        BY <4>2 DEF Begins
      <4>4. QED
        BY <4>2, <4>3 DEF Begins, Others
    <3>2. ASSUME \E q \in Requests, op \in Ops \ {"idle"}, n \in Names, step \in Steps : Begins(q, op, n, step),
                 ~\E q \in Requests : StartRequest(q)
          PROVE  req' = req
      <4>1. PICK q \in Requests : req[q] = IdleSlot /\ req'[q].op # "idle"
        BY <3>2 DEF Begins
      <4>2. req[q].op = "idle" /\ req[q].step = "idle" /\ req[q].name = None
        BY <4>1 DEF IdleSlot
      <4>3. ASSUME NEW p \in Requests, Step(p) PROVE FALSE
        <5>1. req[p].step # "idle"
          BY <4>3 DEF Step, GetFast, GetSlow, InsertRow, Reconnect, ExecWrite, ExecClosed, RenameDb, RenameWal, ClosePooled,
                      UpdateRow, RemoveDb, RemoveWal, FinishReset, DeleteRow, Goto
        <5>2. p # q
          BY <4>2, <5>1
        <5>3. req'[q] = req[q]
          <6>1. req' = req \/ (\E step \in Steps : Moves(p, step)) \/ Ends(p)
            BY <4>3, StepMoves
          <6>2. QED
            BY <5>2, <6>1 DEF Moves, Ends, Others
        <5>4. QED
          BY <4>1, <4>2, <5>3
      <4>4. CASE (\E h \in Handles : IdleClose(h)) \/ Tick \/ UNCHANGED vars
        BY <4>4 DEF IdleClose, Tick, vars
      <4>5. CASE Crash
        BY <4>1, <4>5 DEF Crash, IdleSlot
      <4>6. QED
        BY <3>2, <4>3, <4>4, <4>5 DEF Next
    <3>3. QED
      BY <3>1, <3>2, RequestFrame DEF Moves, Ends, Others, IdleSlot
  <2>2. QED
    BY <1>3, <2>1
<1>6. QED
  BY <1>4, <1>5
\* What a reset erased is brought back by no step.
LEMMA ErasedKept ==
  ASSUME DInv, TInv', Careful, [Next]_vars
  PROVE  Erased'
<1> USE DEF DInv
<1>1. erased' = erased \/ \E r \in Requests : FinishReset(r)
  BY HistoryFrame
<1>2. erased' \subseteq acked'
  <2>1. acked \subseteq acked'
    BY AckedGrows
  <2>2. ASSUME NEW r \in Requests, FinishReset(r) PROVE erased' = erased \cup req[r].seen /\ req[r].seen \subseteq acked
    BY <2>2, FinishResetEffect, SeenIsGone
  <2>3. QED
    BY <1>1, <2>1, <2>2 DEF Erased
<1>3. ASSUME NEW i \in Inodes, Named(i)' PROVE data'[i] \cap erased' = {}
  <2>1. CASE erased' = erased
    <3>1. CASE data'[i] = {}
      BY <3>1
    <3>2. CASE Named(i) /\ i \in InUse
      BY <2>1, <3>2, CleanStays DEF Erased
    <3>3. QED
      BY <1>3, <3>1, <3>2, NamedWas
  <2>2. ASSUME NEW r \in Requests, FinishReset(r) PROVE data'[i] \cap erased' = {}
    <3>1. erased' = erased \cup req[r].seen /\ data' = data /\ fs' = fs
      BY <2>2, FinishResetEffect
    <3>2. Named(i)
      BY <1>3, <3>1 DEF Named, Holds
    <3>3. data[i] \cap req[r].seen = {}
      BY <2>2, <3>2, SeenIsGone
    <3>4. QED
      BY <3>1, <3>2, <3>3 DEF Erased
  <2>3. QED
    BY <1>1, <2>1, <2>2
<1>4. ASSUME NEW n \in Names, Exists(n)', Open(n)'
      PROVE  (data'[conn'[pool'[n]].db] \cup data'[conn'[pool'[n]].wal]) \cap erased' = {}
  <2>1. ASSUME NEW h \in Handles, Opens(h, n)
        PROVE  (data'[conn'[pool'[n]].db] \cup data'[conn'[pool'[n]].wal]) \cap erased' = {}
    <3>1. conn'[pool'[n]].db = fs'[n].db /\ conn'[pool'[n]].wal = fs'[n].wal /\ fs'[n].db \in Inodes /\ fs'[n].wal \in Inodes
      BY <2>1 DEF Opens
    <3>2. \A i \in Inodes : i = fs'[n].db \/ i = fs'[n].wal => Named(i)'
      BY DEF Named, Holds
    <3>3. QED
      BY <1>3, <3>1, <3>2
  <2>2. ASSUME Open(n), pool'[n] = pool[n], conn'[pool'[n]] = conn[pool[n]], pool[n] \in Handles
        PROVE  (data'[conn'[pool'[n]].db] \cup data'[conn'[pool'[n]].wal]) \cap erased' = {}
    <3>1. conn[pool[n]].db \in Inodes /\ conn[pool[n]].wal \in Inodes
      BY <2>2 DEF Open, TInv, Conns
    <3>2. CASE Exists(n) /\ erased' = erased
      <4>1. data[conn[pool[n]].db] \cap erased = {} /\ data[conn[pool[n]].wal] \cap erased = {}
        BY <2>2, <3>2 DEF Erased
      <4>2. conn[pool[n]].db \in InUse /\ conn[pool[n]].wal \in InUse
        BY <2>2, UsedFiles
      <4>3. data'[conn[pool[n]].db] \cap erased = {} /\ data'[conn[pool[n]].wal] \cap erased = {}
        BY <3>1, <4>1, <4>2, CleanStays
      <4>4. QED
        BY <2>2, <3>2, <4>3
    <3>3. CASE ~Exists(n)
      <4>1. UNCHANGED <<fs, data, pool, conn, erased>> /\ Matches(n)
        BY <1>4, <3>3, ExistsWas
      <4>2. conn[pool[n]].db = fs[n].db /\ conn[pool[n]].wal = fs[n].wal
        BY <2>2, <4>1 DEF Matches
      <4>3. Named(conn[pool[n]].db) /\ Named(conn[pool[n]].wal)
        BY <4>2 DEF Named, Holds
      <4>4. data[conn[pool[n]].db] \cap erased = {} /\ data[conn[pool[n]].wal] \cap erased = {}
        BY <3>1, <4>3 DEF Erased
      <4>5. QED
        BY <4>1, <4>4
    <3>4. ASSUME NEW r \in Requests, FinishReset(r), Exists(n)
          PROVE  (data'[conn'[pool'[n]].db] \cup data'[conn'[pool'[n]].wal]) \cap erased' = {}
      <4>1. erased' = erased \cup req[r].seen /\ data' = data
        BY <3>4, FinishResetEffect
      <4>2. (data[conn[pool[n]].db] \cup data[conn[pool[n]].wal]) \cap req[r].seen = {}
        BY <2>2, <3>4, SeenIsGone
      <4>3. (data[conn[pool[n]].db] \cup data[conn[pool[n]].wal]) \cap erased = {}
        BY <2>2, <3>4 DEF Erased
      <4>4. QED
        BY <2>2, <4>1, <4>2, <4>3
    <3>5. QED
      BY <1>1, <3>2, <3>3, <3>4
  <2>3. QED
    BY <1>4, <2>1, <2>2, OpenWas
<1>5. ASSUME NEW r \in Requests, req'[r].op = "reset"
      PROVE  /\ req'[r].seen \subseteq acked'
             /\ \A i \in Inodes : Named(i)' /\ ~(i = fs'[req'[r].name].db \/ i = fs'[req'[r].name].wal) =>
                  data'[i] \cap req'[r].seen = {}
  BY <1>5, SeenKept
<1>6. QED
  BY <1>2, <1>3, <1>4, <1>5 DEF Erased, Holds

-----------------------------------------------------------------------------
(* The theorems *)

\* At the beginning there are no rows, files, connections or requests.
LEMMA InitData == Init => DInv
<1> SUFFICES ASSUME Init PROVE DInv
  OBVIOUS
<1>1. TInv
  BY InitTypes
<1>2. /\ \A n \in Names : rows[n] = NoRow /\ fs[n] = NoFiles /\ pool[n] = None
      /\ \A i \in Inodes : data[i] = {}
      /\ \A r \in Requests : req[r] = IdleSlot
      /\ clock = 1 /\ lastDelete = 0 /\ acked = {} /\ gone = {} /\ erased = {}
  BY DEF Init
<1>3. \A n \in Names : ~Exists(n) /\ rows[n].orig = None /\ rows[n].status = "none" /\ ~Open(n)
  BY <1>2 DEF Exists, NoRow, Open
<1>4. Alone
  BY <1>2 DEF Alone, IdleSlot
<1>5. Rows
  BY <1>2, <1>3 DEF Rows
<1>6. Untouched
  BY <1>2 DEF Untouched
<1>7. Requested
  BY <1>2 DEF Requested, Pending, IdleSlot, LifeCycle
<1>8. Disk
  <2>1. \A i \in Inodes : ~Named(i)
    BY <1>2, NoneAssumption DEF Named, Holds, NoFiles
  <2>2. QED
    BY <1>2, <2>1 DEF Disk, NoFiles
<1>9. Pooled
  BY <1>2, <1>3 DEF Pooled, Matches
<1>10. Contents
  <2>1. \A r \in Requests : ~HalfDone(r)
    BY <1>2 DEF HalfDone, IdleSlot
  <2>2. \A n \in Names : Settled(n)
    BY <1>2, <1>3 DEF Settled, FileContent, Content, NoFiles
  <2>3. QED
    BY <1>2, <2>1, <2>2 DEF Contents
<1>11. Erased
  BY <1>2, <1>3 DEF Erased, IdleSlot
<1>12. QED
  BY <1>1, <1>4, <1>5, <1>6, <1>7, <1>8, <1>9, <1>10, <1>11 DEF DInv

\* Every step keeps the whole invariant.
LEMMA NextData ==
  ASSUME Careful, DInv, [Next]_vars
  PROVE  DInv'
<1>1. TInv'
  BY NextTypes DEF DInv
<1>2. QED
  BY <1>1, AloneKept, RowsKept, UntouchedKept, RequestedKept, DiskKept, PooledKept, ContentsKept, ErasedKept DEF DInv

\* The invariant holds in every reachable state when requests are run carefully.
LEMMA DataInvariant == ASSUME Careful PROVE Spec => []DInv
<1>1. DInv /\ [Next]_vars => DInv'
  BY NextData
<1>2. QED
  BY <1>1, InitData, PTL DEF Spec

\* Between life-cycle requests a registered database shows exactly the
\* acknowledged writes addressed to it since its last reset, under whatever name
\* it has got, through a pooled connection or by opening its files.
THEOREM DataFollowsRowHolds == ASSUME Careful PROVE Spec => []DataFollowsRow
<1>1. DInv => DataFollowsRow
  <2> SUFFICES ASSUME DInv, ~torn, \A r \in Requests : req[r].op \notin LifeCycle, NEW n \in Names, Exists(n)
               PROVE  Visible(n) = {w \in acked \ gone : home[w] = rows[n].id}
    BY DEF DataFollowsRow
  <2>1. NoHalf
    BY CalmIsWhole DEF DInv, Calm, NoHalf
  <2>2. Settled(n)
    BY <2>1, WholeNow DEF Whole
  <2>3. FileContent(n) = Due(n) /\ (fs[n].db = None => FileContent(n) = {})
    BY <2>2 DEF Settled, FileContent, Content
  <2>4. CASE Open(n)
    <3>1. fs[n].db = conn[pool[n]].db /\ fs[n].wal = conn[pool[n]].wal
      BY <2>1, <2>4, CalmFiles DEF NoHalf
    <3>2. Visible(n) = FileContent(n)
      BY <2>4, <3>1 DEF Visible, Open, FileContent
    <3>3. QED
      BY <2>3, <3>2 DEF Due
  <2>5. CASE ~Open(n)
    <3>1. Visible(n) = FileContent(n)
      BY <2>3, <2>5 DEF Visible, Open
    <3>2. QED
      BY <2>3, <3>1 DEF Due
  <2>6. QED
    BY <2>4, <2>5
<1>2. QED
  BY <1>1, DataInvariant, PTL

\* Nothing written before a successful reset can be read from any registered
\* database afterwards, at any moment, through its connection or its files.
THEOREM ErasedStaysErasedHolds == ASSUME Careful PROVE Spec => []ErasedStaysErased
<1>1. DInv => ErasedStaysErased
  <2> SUFFICES ASSUME DInv, NEW n \in Names, Exists(n)
               PROVE  Visible(n) \cap erased = {}
    BY DEF ErasedStaysErased
  <2>1. CASE Open(n)
    <3>1. pool[n] \in Handles
      BY <2>1 DEF Open, DInv, TInv, TypeOK
    <3>2. conn[pool[n]].db \in Inodes /\ conn[pool[n]].wal \in Inodes /\ None \notin Inodes
      BY <2>1, <3>1, NoneAssumption DEF Open, DInv, TInv, Conns
    <3>3. Visible(n) = data[conn[pool[n]].db] \cup data[conn[pool[n]].wal]
      BY <2>1, <3>2 DEF Visible, Open, Content
    <3>4. QED
      BY <2>1, <3>3 DEF DInv, Erased
  <2>2. CASE ~Open(n)
    <3>1. Visible(n) \subseteq FileContent(n)
      BY <2>2 DEF Visible, Open
    <3>2. fs[n].db \in Inodes \cup {None} /\ fs[n].wal \in Inodes \cup {None}
      BY FilesAt DEF DInv
    <3>3. \A i \in Inodes : i = fs[n].db \/ i = fs[n].wal => data[i] \cap erased = {}
      BY DEF DInv, Erased, Named, Holds
    <3>4. FileContent(n) \cap erased = {}
      BY <3>2, <3>3 DEF FileContent, Content
    <3>5. QED
      BY <3>1, <3>4
  <2>3. QED
    BY <2>1, <2>2
<1>2. QED
  BY <1>1, DataInvariant, PTL
=============================================================================
