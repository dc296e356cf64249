------------------------- MODULE ExportImport_proofs -------------------------
(***************************************************************************)
(* An export that ran beside no other is whole, nothing stays attached and *)
(* an answered write stays, for any tables, requests, lists and uploads.   *)
(*                                                                         *)
(* All statements name the one file attached for exports and the one       *)
(* attached for imports; the invariant says whose they are at each step    *)
(* (Owned).  A row goes astray only if an export holds a table the         *)
(* database no longer has (Safe), and an export is whole because each      *)
(* table is still to do or copied (Progress).                              *)
(***************************************************************************)
EXTENDS ExportImport, TLAPS

Content == {s \in SUBSET Int : s = Missing \/ 0 \notin s}

(* Slots are not 0, and lists and uploads are of tables. *)
Parameters ==
  /\ 0 \notin Slots
  /\ Asked \subseteq Seq(Tables)
  /\ Uploads \subseteq [Tables -> Content]

ExportSteps == {"attach", "table", "create", "copy", "detach", "send", "error", "answered", "failed"}
ImportSteps == {"queued", "table", "copy", "error", "answered", "failed"}
Requests == [op : {"none", "export", "import"}, step : ExportSteps \cup ImportSteps \cup {"done"},
             todo : Seq(Tables), asked : Seq(Tables), client : BOOLEAN]
Entries == [as : {"export_dst", "import_src"}, slot : Slots]

(* Every name is attached once. *)
Named ==
  /\ attached \in Seq(Entries)
  /\ \A i, j \in DOMAIN attached : attached[i].as = attached[j].as => i = j

Typed ==
  /\ main \in [Tables -> Content] /\ file \in [Slots -> [Tables -> Content]]
  /\ calls \in [Slots -> Requests] /\ busy \in Slots \cup {0}
  /\ before \in [Slots -> [Tables -> Content]] /\ dropped \in [Slots -> SUBSET Tables]
  /\ crossed \subseteq Slots /\ strayed \in BOOLEAN
  /\ kept \in [Tables -> SUBSET (Nat \ {0})] /\ nrows \in Nat
  /\ Named

(* The steps of each kind of request. *)
Phased ==
  \A c \in Slots :
    /\ calls[c].op = "none" => calls[c].step = "done"
    /\ calls[c].op = "export" => calls[c].step \in ExportSteps
    /\ calls[c].op = "import" => calls[c].step \in ImportSteps
    /\ calls[c].step \in {"create", "copy"} => calls[c].todo # <<>>
    /\ calls[c].step \in {"detach", "send", "answered"} /\ calls[c].op = "export" => calls[c].todo = <<>>

Dst == Holders("export_dst")
Src == Holders("import_src")
Holding == {"table", "create", "copy", "detach", "error"}

(* Whose the attached files are. *)
Owned ==
  /\ Src = IF busy = 0 THEN {} ELSE {busy}
  /\ \A c \in Dst : c \in Slots /\ calls[c].op = "export" /\ calls[c].step \in Holding
  /\ \A c, d \in Dst : c = d
  /\ \A c \in Slots : busy = c <=> calls[c].op = "import" /\ calls[c].step \in {"table", "copy", "error"}

(* What an export and an import rely on at their steps. *)
Copying ==
  \A c \in Slots :
    /\ calls[c].op = "export" /\ calls[c].step = "attach" => file[c] = Empty
    /\ calls[c].op = "import" /\ calls[c].step = "copy" =>
         main[Table(c)] # Missing /\ file[c][Table(c)] # Missing

(* No attached file of an export has a table that the database has not. *)
Safe ==
  ~strayed =>
    /\ \A d \in Dst, t \in Tables : file[d][t] # Missing => main[t] # Missing
    /\ \A c \in Slots : calls[c].op = "export" /\ calls[c].step \in {"create", "copy"} => main[Table(c)] # Missing
    /\ \A t \in Tables : kept[t] \subseteq main[t]

Todo(c) == {calls[c].todo[i] : i \in 1..Len(calls[c].todo)}
Copied(c, t) == file[c][t] # Missing /\ before[c][t] \subseteq file[c][t]

(* An export that runs beside no other keeps its file attached, and each table is still to do or *)
(* copied.                                                                                       *)
Progress ==
  /\ \A c, d \in Slots : Exporting(c) /\ Exporting(d) /\ c # d => c \in crossed
  /\ \A c \in Slots : Exporting(c) =>
       \A t \in Tables \ dropped[c] : before[c][t] # Missing => main[t] # Missing /\ before[c][t] \subseteq main[t]
  /\ \A c \in Slots : calls[c].op = "export" /\ c \notin crossed =>
       /\ calls[c].step \in Holding \ {"error"} => c \in Dst
       /\ calls[c].step = "copy" => file[c][Table(c)] # Missing
       /\ calls[c].step \notin {"error", "failed"} =>
            \A t \in Wanted(c) \ dropped[c] : before[c][t] # Missing => t \in Todo(c) \/ Copied(c, t)

IInv == Typed /\ Phased /\ Owned /\ Copying /\ Safe /\ Progress

-----------------------------------------------------------------------------
(* What is attached *)

(* The holders of a name. *)
LEMMA HoldersAre ==
  ASSUME Named, NEW as
  PROVE  /\ \A d \in Holders(as) : d \in Slots /\ \E i \in DOMAIN attached : attached[i].as = as /\ attached[i].slot = d
         /\ \A i \in DOMAIN attached : attached[i].as = as => attached[i].slot \in Holders(as)
         /\ \A c, d \in Holders(as) : c = d
<1>1. DOMAIN attached = 1..Len(attached) /\ \A i \in DOMAIN attached : attached[i].slot \in Slots
  <2>1. DOMAIN attached = 1..Len(attached) /\ \A i \in DOMAIN attached : attached[i] \in Entries
    BY DEF Named
  <2>2. QED
    BY <2>1 DEF Entries
<1>2. Holders(as) = {attached[i].slot : i \in {j \in DOMAIN attached : attached[j].as = as}}
  BY <1>1 DEF Holders
<1>3. \A i, j \in DOMAIN attached : attached[i].as = attached[j].as => i = j
  BY DEF Named
<1>4. QED
  BY <1>1, <1>2, <1>3

(* Something is attached under a name that is free. *)
LEMMA AttachIs ==
  ASSUME Named, NEW as \in {"export_dst", "import_src"}, NEW c \in Slots, Holders(as) = {}, Attach(as, c)
  PROVE  Named' /\ Holders(as)' = {c}
         /\ \A other \in {"export_dst", "import_src"} \ {as} : Holders(other)' = Holders(other)
<1> DEFINE e == [as |-> as, slot |-> c]
           n == Len(attached) + 1
<1>1. e \in Entries /\ e.as = as /\ e.slot = c
  BY DEF Entries
<1>2. attached' = Append(attached, e) /\ attached \in Seq(Entries)
  BY DEF Attach, Named
<1> HIDE DEF e
<1>3. attached' \in Seq(Entries) /\ DOMAIN attached' = DOMAIN attached \cup {n} /\ attached'[n] = e /\ n \notin DOMAIN attached
      /\ \A i \in DOMAIN attached : attached'[i] = attached[i]
  BY <1>1, <1>2
<1>4. \A i \in DOMAIN attached : attached[i].as # as
  BY HoldersAre
<1> HIDE DEF n
<1>5. Named'
  <2>1. \A i, j \in DOMAIN attached' : attached'[i].as = attached'[j].as => i = j
    BY <1>1, <1>3, <1>4 DEF Named
  <2>2. QED
    BY <1>3, <2>1 DEF Named
<1>6. \A x : Holders(x) = {attached[i].slot : i \in {j \in DOMAIN attached : attached[j].as = x}}
  BY <1>2 DEF Holders
<1>7. \A x : Holders(x)' = {attached'[i].slot : i \in {j \in DOMAIN attached' : attached'[j].as = x}}
  <2>1. DOMAIN attached' = 1..Len(attached')
    BY <1>3
  <2>2. QED
    BY <2>1 DEF Holders
<1>8. Holders(as)' = {c}
  <2>1. {j \in DOMAIN attached : attached'[j].as = as} = {}
    BY <1>3, <1>4
  <2>2. {j \in DOMAIN attached' : attached'[j].as = as} = {n}
    BY <1>1, <1>3, <2>1
  <2>3. {attached'[i].slot : i \in {n}} = {c}
    BY <1>1, <1>3
  <2>4. QED
    BY <1>7, <2>2, <2>3
<1>9. ASSUME NEW other \in {"export_dst", "import_src"} \ {as} PROVE Holders(other)' = Holders(other)
  <2>1. \A d \in Holders(other)' : d \in Holders(other)
    BY <1>1, <1>3, <1>6, <1>7
  <2>2. \A d \in Holders(other) : d \in Holders(other)'
    BY <1>1, <1>3, <1>6, <1>7
  <2>3. QED
    BY <2>1, <2>2
<1>10. QED
  BY <1>5, <1>8, <1>9

(* A name is detached, if it is attached. *)
LEMMA DetachIs ==
  ASSUME Named, NEW as \in {"export_dst", "import_src"}, Detach(as)
  PROVE  Named' /\ Holders(as)' = {}
         /\ \A other \in {"export_dst", "import_src"} \ {as} : Holders(other)' = Holders(other)
<1> DEFINE at == {i \in DOMAIN attached : attached[i].as = as}
<1>1. attached \in Seq(Entries) /\ DOMAIN attached = 1..Len(attached) /\ Len(attached) \in Nat
  BY DEF Named
<1>2. \A x : Holders(x) = {attached[i].slot : i \in {j \in DOMAIN attached : attached[j].as = x}}
  BY <1>1 DEF Holders
<1>3. CASE at = {}
  <2>1. attached' = attached
    BY <1>3 DEF Detach
  <2>2. \A x : Holders(x)' = Holders(x)
    BY <2>1 DEF Holders
  <2>3. Holders(as) = {}
    BY <1>2, <1>3
  <2>4. QED
    BY <2>1, <2>2, <2>3 DEF Named
<1>4. CASE at # {}
  <2>1. PICK i \in at : attached' = [j \in 1..(Len(attached) - 1) |-> IF j < i THEN attached[j] ELSE attached[j + 1]]
    BY <1>4 DEF Detach
  <2> DEFINE n == Len(attached)
             old(j) == IF j < i THEN j ELSE j + 1
  <2>2. i \in 1..n /\ n \in Nat /\ attached[i].as = as
    BY <1>1
  <2>3. \A j \in 1..(n - 1) : old(j) \in 1..n /\ old(j) # i /\ attached'[j] = attached[old(j)]
    BY <2>1, <2>2
  <2>4. \A k \in 1..n : k # i => \E j \in 1..(n - 1) : old(j) = k
    <3>1. ASSUME NEW k \in 1..n, k # i PROVE \E j \in 1..(n - 1) : old(j) = k
      <4>1. CASE k < i
        BY <2>2, <4>1
      <4>2. CASE k > i
        <5>1. k - 1 \in 1..(n - 1) /\ old(k - 1) = k
          BY <2>2, <4>2
        <5>2. QED
          BY <5>1
      <4>3. QED
        BY <2>2, <3>1, <4>1, <4>2
    <3>2. QED
      BY <3>1
  <2>5. \A j, k \in 1..(n - 1) : old(j) = old(k) => j = k
    BY <2>2
  <2>6. attached' \in Seq(Entries) /\ DOMAIN attached' = 1..(n - 1)
    <3>1. attached' \in [1..(n - 1) -> Entries] /\ n - 1 \in Nat
      BY <1>1, <2>1, <2>2, <2>3
    <3>2. QED
      BY <3>1
  <2> HIDE DEF n, old
  <2>7. DOMAIN attached = 1..n
    BY <1>1 DEF n
  <2>8. Named'
    BY <2>3, <2>5, <2>6, <2>7 DEF Named
  <2>9. \A x : Holders(x)' = {attached'[j].slot : j \in {k \in DOMAIN attached' : attached'[k].as = x}}
    <3>1. DOMAIN attached' = 1..Len(attached')
      BY <2>6
    <3>2. QED
      BY <3>1 DEF Holders
  <2>10. \A k \in 1..n : attached[k].as = as => k = i
    BY <2>2, <2>7 DEF Named
  <2>11. Holders(as)' = {}
    BY <2>3, <2>6, <2>9, <2>10
  <2>12. ASSUME NEW other \in {"export_dst", "import_src"} \ {as} PROVE Holders(other)' = Holders(other)
    <3>1. \A d \in Holders(other)' : d \in Holders(other)
      BY <1>2, <2>3, <2>6, <2>7, <2>9
    <3>2. \A d \in Holders(other) : d \in Holders(other)'
      <4>1. ASSUME NEW k \in 1..n, attached[k].as = other PROVE attached[k].slot \in Holders(other)'
        <5>1. k # i
          BY <2>2, <4>1
        <5>2. PICK j \in 1..(n - 1) : old(j) = k
          BY <2>4, <5>1
        <5>3. QED
          BY <2>3, <2>6, <2>9, <4>1, <5>2
      <4>2. QED
        BY <1>2, <2>7, <4>1
    <3>3. QED
      BY <3>1, <3>2
  <2>13. QED
    BY <2>8, <2>11, <2>12
<1>5. QED
  BY <1>3, <1>4

(* Every attached file is held. *)
LEMMA EverySlotHolds == ASSUME Named, NEW i \in DOMAIN attached PROVE attached[i].slot \in Dst \cup Src
<1>1. attached[i] \in Entries
  BY DEF Named
<1>2. attached[i].as \in {"export_dst", "import_src"}
  BY <1>1 DEF Entries
<1>3. \A as : attached[i].as = as => attached[i].slot \in Holders(as)
  BY HoldersAre
<1>4. QED
  BY <1>2, <1>3 DEF Dst, Src

(* Who has a table that the database has not. *)
LEMMA FirstWithIs ==
  ASSUME Named, NEW t
  PROVE  FirstWith(t) \subseteq {d \in Dst \cup Src : file[d][t] # Missing}
<1>1. \A d \in FirstWith(t) : \E i \in DOMAIN attached : attached[i].slot = d /\ file[d][t] # Missing
  BY DEF FirstWith, Named
<1>2. \A i \in DOMAIN attached : attached[i].slot \in Dst \cup Src
  BY EverySlotHolds
<1>3. QED
  BY <1>1, <1>2

(* Nobody holds anything. *)
LEMMA NobodyHolds == ASSUME Named, Dst = {}, Src = {} PROVE attached = <<>>
<1>1. \A i \in DOMAIN attached : FALSE
  BY EverySlotHolds
<1>2. attached \in Seq(Entries) /\ Len(attached) \in Nat /\ DOMAIN attached = 1..Len(attached)
  BY DEF Named
<1> DEFINE n == Len(attached)
<1> HIDE DEF n
<1>3. n = 0
  <2>1. n \in Nat /\ (n # 0 => 1 \in 1..n)
    BY <1>2 DEF n
  <2>2. QED
    BY <1>1, <1>2, <2>1 DEF n
<1>4. QED
  BY <1>2, <1>3 DEF n

-----------------------------------------------------------------------------
(* The requests of a step *)

Steps == ExportSteps \cup ImportSteps \cup {"done"}

(* A request keeps its kind and its lists. *)
Alike(c) ==
  /\ calls'[c].op = calls[c].op /\ calls'[c].todo = calls[c].todo
  /\ Wanted(c)' = Wanted(c) /\ Todo(c)' = Todo(c) /\ Table(c)' = Table(c)

Others(c) == \A d \in Slots \ {c} : Alike(d) /\ calls'[d].step = calls[d].step

(* A request gets on. *)
LEMMA Stepped ==
  ASSUME Typed, NEW c \in Slots, NEW s \in Steps, Goto(c, s)
  PROVE  calls' \in [Slots -> Requests] /\ calls'[c].step = s /\ Alike(c) /\ Others(c)
<1> DEFINE k == [calls[c] EXCEPT !.step = s]
<1>1. calls[c] \in Requests /\ calls \in [Slots -> Requests]
  BY DEF Typed
<1>2. k \in Requests /\ k.step = s /\ k.op = calls[c].op /\ k.todo = calls[c].todo /\ k.asked = calls[c].asked
  BY <1>1 DEF Requests, Steps
<1>3. calls' = [calls EXCEPT ![c] = k]
  BY DEF Goto
<1> HIDE DEF k
<1>4. calls' \in [Slots -> Requests] /\ calls'[c] = k /\ \A d \in Slots \ {c} : calls'[d] = calls[d]
  BY <1>1, <1>2, <1>3
<1>5. Alike(c) /\ calls'[c].step = s
  BY <1>2, <1>4 DEF Alike, Wanted, Todo, Table
<1>6. Others(c)
  BY <1>4 DEF Others, Alike, Wanted, Todo, Table
<1>7. QED
  BY <1>4, <1>5, <1>6

(* A request goes on to its next table. *)
LEMMA Advanced ==
  ASSUME Typed, NEW c \in Slots, calls[c].todo # <<>>, NextTable(c)
  PROVE  /\ calls' \in [Slots -> Requests] /\ calls'[c].step = "table" /\ calls'[c].op = calls[c].op /\ Others(c)
         /\ Wanted(c)' = Wanted(c) /\ Todo(c) \subseteq Todo(c)' \cup {Table(c)} /\ Table(c) \in Tables
<1> DEFINE k == [calls[c] EXCEPT !.step = "table", !.todo = Tail(@)]
           old == calls[c].todo
<1>1. calls[c] \in Requests /\ calls \in [Slots -> Requests]
  BY DEF Typed
<1>2. old \in Seq(Tables)
  BY <1>1 DEF Requests
<1>3. k.step = "table" /\ k.op = calls[c].op /\ k.todo = Tail(old) /\ k.asked = calls[c].asked
  BY <1>1 DEF Requests
<1>4. k \in Requests
  <2>1. Tail(old) \in Seq(Tables)
    BY <1>2
  <2>2. QED
    BY <1>1, <2>1 DEF Requests, ExportSteps
<1>5. calls' = [calls EXCEPT ![c] = k]
  BY <1>1 DEF NextTable
<1> HIDE DEF k
<1>6. calls' \in [Slots -> Requests] /\ calls'[c] = k /\ \A d \in Slots \ {c} : calls'[d] = calls[d]
  BY <1>1, <1>4, <1>5
<1>7. Others(c)
  BY <1>6 DEF Others, Alike, Wanted, Todo, Table
<1>8. Wanted(c)' = Wanted(c)
  BY <1>3, <1>6 DEF Wanted
<1>9. Table(c) = old[1] /\ Table(c) \in Tables
  BY <1>2 DEF Table
<1>10. Todo(c) \subseteq Todo(c)' \cup {Table(c)}
  <2>1. ASSUME NEW i \in 1..Len(old), i # 1 PROVE old[i] \in Todo(c)'
    <3>1. i - 1 \in 1..Len(Tail(old)) /\ Tail(old)[i - 1] = old[i]
      BY <1>2, <2>1
    <3>2. QED
      BY <1>3, <1>6, <3>1 DEF Todo
  <2>2. QED
    BY <1>9, <2>1 DEF Todo
<1>11. QED
  BY <1>3, <1>6, <1>7, <1>8, <1>9, <1>10

(* A request begins. *)
LEMMA Begun ==
  ASSUME Typed, NEW c \in Slots, NEW o \in {"export", "import"}, NEW s \in Steps, NEW list \in Seq(Tables),
         calls' = [calls EXCEPT ![c] = [op |-> o, step |-> s, todo |-> list, asked |-> list, client |-> TRUE]]
  PROVE  calls' \in [Slots -> Requests] /\ calls'[c].step = s /\ calls'[c].op = o /\ Others(c)
         /\ Wanted(c)' = Todo(c)'
<1> DEFINE k == [op |-> o, step |-> s, todo |-> list, asked |-> list, client |-> TRUE]
<1>1. k \in Requests /\ k.op = o /\ k.step = s /\ k.todo = list /\ k.asked = list
  BY DEF Requests, Steps
<1>2. calls \in [Slots -> Requests] /\ calls' = [calls EXCEPT ![c] = k]
  BY DEF Typed
<1> HIDE DEF k
<1>3. calls' \in [Slots -> Requests] /\ calls'[c] = k /\ \A d \in Slots \ {c} : calls'[d] = calls[d]
  BY <1>1, <1>2
<1>4. Others(c)
  BY <1>3 DEF Others, Alike, Wanted, Todo, Table
<1>5. Wanted(c)' = Todo(c)'
  BY <1>1, <1>3 DEF Wanted, Todo
<1>6. QED
  BY <1>1, <1>3, <1>4, <1>5

(* The table a request is at, and the tables it has to do. *)
LEMMA TableIs ==
  ASSUME Typed, NEW c \in Slots
  PROVE  /\ calls[c].todo # <<>> => Table(c) \in Tables
         /\ calls[c].todo = <<>> => Todo(c) = {}
         /\ Wanted(c) \subseteq Tables
<1>1. calls[c].todo \in Seq(Tables) /\ calls[c].asked \in Seq(Tables)
  BY DEF Typed, Requests
<1>2. QED
  BY <1>1 DEF Table, Todo, Wanted

-----------------------------------------------------------------------------
(* The steps of an export *)

(* What is attached stays attached. *)
LEMMA SameHolders ==
  ASSUME attached' = attached
  PROVE  Dst' = Dst /\ Src' = Src /\ (Named => Named')
BY DEF Dst, Src, Holders, Named

(* An export begins with an empty file. *)
LEMMA ExportKeeps ==
  ASSUME Parameters, IInv, NEW c \in Slots, NEW list \in Asked, Export(c, list)
  PROVE  IInv'
<1>1. calls' \in [Slots -> Requests] /\ calls'[c].step = "attach" /\ calls'[c].op = "export" /\ Others(c)
      /\ Wanted(c)' = Todo(c)'
  BY Begun DEF Export, Parameters, IInv, Steps, ExportSteps
<1>2. /\ ~Running(c)
      /\ file' = [file EXCEPT ![c] = Empty]
      /\ before' = [before EXCEPT ![c] = main] /\ dropped' = [dropped EXCEPT ![c] = {}]
      /\ UNCHANGED <<main, attached, busy, kept, strayed, nrows>>
      /\ \A d \in Slots \ {c} : Exporting(d) => c \in crossed' /\ d \in crossed'
      /\ \A d \in Slots \ {c} : d \in crossed => d \in crossed'
      /\ crossed' \subseteq Slots
  BY DEF Export, IInv, Typed
<1>3. Dst' = Dst /\ Src' = Src /\ Named'
  BY <1>2, SameHolders DEF IInv, Typed
<1>4. Typed'
  <2>1. Empty \in [Tables -> Content]
    BY DEF Empty, Content, Missing
  <2>2. QED
    BY <1>1, <1>2, <1>3, <2>1 DEF IInv, Typed
<1>5. Phased'
  BY <1>1 DEF IInv, Phased, Others, Alike, ExportSteps
<1>6. c \notin Dst /\ c # busy
  BY <1>2 DEF IInv, Owned, Holding, Running
<1>7. Owned'
  BY <1>1, <1>2, <1>3, <1>6 DEF IInv, Owned, Others, Alike
<1>8. /\ file'[c] = Empty /\ before'[c] = main /\ dropped'[c] = {}
      /\ \A d \in Slots \ {c} : file'[d] = file[d] /\ before'[d] = before[d] /\ dropped'[d] = dropped[d]
  BY <1>2 DEF IInv, Typed
<1>9. Copying'
  BY <1>1, <1>2, <1>8 DEF IInv, Copying, Others, Alike, Empty
<1>10. Safe'
  BY <1>1, <1>2, <1>3, <1>6, <1>8 DEF IInv, Safe, Owned, Others, Alike
<1>11. Progress'
  <2>1. \A x, y \in Slots : Exporting(x)' /\ Exporting(y)' /\ x # y => x \in crossed'
    BY <1>1, <1>2 DEF IInv, Progress, Others, Alike, Exporting, Running
  <2>2. ASSUME NEW d \in Slots, Exporting(d)', NEW t \in Tables \ dropped'[d], before'[d][t] # Missing
        PROVE  main'[t] # Missing /\ before'[d][t] \subseteq main'[t]
    BY <1>1, <1>2, <1>8, <2>2 DEF IInv, Progress, Others, Alike, Exporting, Running
  <2>3. ASSUME NEW d \in Slots, calls'[d].op = "export", d \notin crossed'
        PROVE  /\ calls'[d].step \in Holding \ {"error"} => d \in Dst'
               /\ calls'[d].step = "copy" => file'[d][Table(d)'] # Missing
               /\ calls'[d].step \notin {"error", "failed"} =>
                    \A t \in Wanted(d)' \ dropped'[d] : before'[d][t] # Missing => t \in Todo(d)' \/ Copied(d, t)'
    <3>1. CASE d = c
      BY <1>1, <3>1 DEF Holding
    <3>2. CASE d # c
      <4>1. d \notin crossed /\ calls[d].op = "export" /\ calls'[d].step = calls[d].step
        BY <1>1, <1>2, <2>3, <3>2 DEF Others, Alike
      <4>2. \A t : Copied(d, t)' <=> Copied(d, t)
        BY <1>8, <3>2 DEF Copied
      <4>3. QED
        BY <1>1, <1>3, <1>8, <3>2, <4>1, <4>2 DEF IInv, Progress, Others, Alike
    <3>3. QED
      BY <3>1, <3>2
  <2>4. QED
    BY <2>1, <2>2, <2>3 DEF Progress
<1>12. QED
  BY <1>4, <1>5, <1>7, <1>9, <1>10, <1>11 DEF IInv

(* A step of an export that leaves the database and the files alone: what it has to see to. *)
LEMMA ExportStep ==
  ASSUME Parameters, IInv, NEW c \in Slots, Exporting(c),
         UNCHANGED <<main, file, busy, histories, kept, nrows>>, Named', Src' = Src,
         calls' \in [Slots -> Requests], Others(c), calls'[c].op = "export", Wanted(c)' = Wanted(c),
         calls'[c].step \in ExportSteps \ {"attach", "copy"},
         calls'[c].step = "create" => calls'[c].todo # <<>> /\ main[Table(c)'] # Missing,
         calls'[c].step \in {"detach", "send", "answered"} => calls'[c].todo = <<>>,
         \A d \in Dst' : /\ d \in Dst \/ (d = c /\ file[c] = Empty)
                         /\ d = c => calls'[c].step \in Holding,
         \A d, e \in Dst' : d = e,
         c \notin crossed =>
           /\ calls'[c].step \in Holding \ {"error"} => c \in Dst'
           /\ calls'[c].step \notin {"error", "failed"} =>
                \A t \in Wanted(c) \ dropped[c] : before[c][t] # Missing => t \in Todo(c)' \/ Copied(c, t)
  PROVE  IInv'
<1>1. Typed'
  BY DEF IInv, Typed, histories
<1>2. Phased'
  BY DEF IInv, Phased, Others, Alike, ExportSteps
<1>3. c # busy /\ busy' = busy
  BY DEF IInv, Owned, Exporting
<1>4. Owned'
  BY <1>3 DEF IInv, Owned, Others, Alike, Exporting
<1>5. Copying'
  BY DEF IInv, Copying, Others, Alike, Empty
<1>6. Safe'
  <2>1. \A d \in Dst' : d \in Dst \/ \A t \in Tables : file[d][t] = Missing
    BY DEF Empty
  <2>2. QED
    BY <2>1 DEF IInv, Safe, Others, Alike, histories
<1>7. Progress'
  <2>1. \A d \in Slots : Exporting(d)' => Exporting(d)
    BY DEF Others, Alike, Exporting, Running
  <2>2. \A x, y \in Slots : Exporting(x)' /\ Exporting(y)' /\ x # y => x \in crossed'
    BY <2>1 DEF IInv, Progress, histories
  <2>3. \A d \in Slots : Exporting(d)' =>
          \A t \in Tables \ dropped'[d] : before'[d][t] # Missing => main'[t] # Missing /\ before'[d][t] \subseteq main'[t]
    BY <2>1 DEF IInv, Progress, histories
  <2>4. \A d, t : Copied(d, t)' <=> Copied(d, t)
    BY DEF Copied, histories
  <2>5. ASSUME NEW d \in Slots, calls'[d].op = "export", d \notin crossed'
        PROVE  /\ calls'[d].step \in Holding \ {"error"} => d \in Dst'
               /\ calls'[d].step = "copy" => file'[d][Table(d)'] # Missing
               /\ calls'[d].step \notin {"error", "failed"} =>
                    \A t \in Wanted(d)' \ dropped'[d] : before'[d][t] # Missing => t \in Todo(d)' \/ Copied(d, t)'
    <3>1. CASE d = c
      BY <2>4, <2>5, <3>1 DEF histories
    <3>2. CASE d # c
      <4>1. d \notin crossed /\ calls[d].op = "export" /\ calls'[d].step = calls[d].step
        BY <2>5, <3>2 DEF Others, Alike, histories
      <4>2. ~Exporting(d)
        BY <3>2, <4>1 DEF IInv, Progress
      <4>3. calls[d].step \notin Holding
        BY <4>1, <4>2 DEF Exporting, Running, Holding
      <4>4. calls[d].step # "copy"
        BY <4>3 DEF Holding
      <4>5. QED
        BY <2>4, <3>2, <4>1, <4>3, <4>4 DEF IInv, Progress, Others, Alike, histories
    <3>3. QED
      BY <3>1, <3>2
  <2>6. QED
    BY <2>2, <2>3, <2>5 DEF Progress
<1>8. QED
  BY <1>1, <1>2, <1>4, <1>5, <1>6, <1>7 DEF IInv

(* The file of an export is attached while no other is. *)
LEMMA AttachDstKeeps == ASSUME Parameters, IInv, NEW c \in Slots, AttachDst(c) PROVE IInv'
<1>1. /\ Exporting(c) /\ calls[c].step = "attach" /\ calls[c].op = "export"
      /\ UNCHANGED <<main, file, busy, histories, kept, nrows>>
  BY DEF AttachDst, Exporting
<1>2. Todo(c)' = Todo(c) => (calls'[c].step \notin {"error", "failed"} =>
        (c \notin crossed => \A t \in Wanted(c) \ dropped[c] : before[c][t] # Missing => t \in Todo(c)' \/ Copied(c, t)))
  BY <1>1 DEF IInv, Progress
<1>3. CASE Dst = {}
  <2>1. Attach("export_dst", c) /\ Goto(c, "table")
    BY <1>3 DEF AttachDst, Dst
  <2>2. calls' \in [Slots -> Requests] /\ calls'[c].step = "table" /\ Alike(c) /\ Others(c)
    BY <2>1, Stepped DEF IInv, Steps, ExportSteps
  <2>3. Named' /\ Dst' = {c} /\ Src' = Src
    BY <1>3, <2>1, AttachIs DEF IInv, Typed, Dst, Src
  <2>4. file[c] = Empty
    BY <1>1 DEF IInv, Copying
  <2>5. QED
    BY <1>1, <1>2, <2>2, <2>3, <2>4, ExportStep DEF Alike, Holding, ExportSteps
<1>4. CASE Dst # {}
  <2>1. attached' = attached /\ Goto(c, "failed")
    BY <1>4 DEF AttachDst, Dst
  <2>2. calls' \in [Slots -> Requests] /\ calls'[c].step = "failed" /\ Alike(c) /\ Others(c)
    BY <2>1, Stepped DEF IInv, Steps, ExportSteps
  <2>3. Named' /\ Dst' = Dst /\ Src' = Src
    BY <2>1, SameHolders DEF IInv, Typed
  <2>4. c \notin Dst /\ \A d, e \in Dst : d = e
    BY <1>1 DEF IInv, Owned, Holding
  <2>5. QED
    BY <1>1, <2>2, <2>3, <2>4, ExportStep DEF Alike, Holding, ExportSteps
<1>5. QED
  BY <1>3, <1>4

(* The next table of an export is there, or it is skipped: then it was dropped since. *)
LEMMA ReadDDLKeeps == ASSUME Parameters, IInv, NEW c \in Slots, ReadDDL(c) PROVE IInv'
<1>1. /\ Exporting(c) /\ calls[c].step = "table" /\ calls[c].op = "export" /\ attached' = attached
      /\ UNCHANGED <<main, file, busy, histories, kept, nrows>>
  BY DEF ReadDDL, Exporting
<1>2. Named' /\ Dst' = Dst /\ Src' = Src /\ \A d, e \in Dst : d = e
  BY <1>1, SameHolders DEF IInv, Typed, Owned
<1>3. c \notin crossed =>
        /\ c \in Dst
        /\ \A t \in Wanted(c) \ dropped[c] : before[c][t] # Missing => t \in Todo(c) \/ Copied(c, t)
  BY <1>1 DEF IInv, Progress, Holding
<1>4. CASE calls[c].todo = <<>>
  <2>1. Goto(c, "detach")
    BY <1>4 DEF ReadDDL
  <2>2. calls' \in [Slots -> Requests] /\ calls'[c].step = "detach" /\ Alike(c) /\ Others(c)
    BY <2>1, Stepped DEF IInv, Steps, ExportSteps
  <2>3. QED
    BY <1>1, <1>2, <1>3, <1>4, <2>2, ExportStep DEF Alike, Holding, ExportSteps
<1>5. CASE calls[c].todo # <<>> /\ main[Table(c)] = Missing
  <2>1. NextTable(c)
    BY <1>5 DEF ReadDDL
  <2>2. /\ calls' \in [Slots -> Requests] /\ calls'[c].step = "table" /\ calls'[c].op = "export" /\ Others(c)
        /\ Wanted(c)' = Wanted(c) /\ Todo(c) \subseteq Todo(c)' \cup {Table(c)} /\ Table(c) \in Tables
    BY <1>1, <1>5, <2>1, Advanced DEF IInv
  <2>3. Table(c) \in dropped[c] \/ before[c][Table(c)] = Missing
    BY <1>1, <1>5, <2>2 DEF IInv, Progress
  <2>4. QED
    BY <1>1, <1>2, <1>3, <2>2, <2>3, ExportStep DEF Holding, ExportSteps
<1>6. CASE calls[c].todo # <<>> /\ main[Table(c)] # Missing
  <2>1. Goto(c, "create")
    BY <1>6 DEF ReadDDL
  <2>2. calls' \in [Slots -> Requests] /\ calls'[c].step = "create" /\ Alike(c) /\ Others(c)
    BY <2>1, Stepped DEF IInv, Steps, ExportSteps
  <2>3. QED
    BY <1>1, <1>2, <1>3, <1>6, <2>2, ExportStep DEF Alike, Holding, ExportSteps
<1>7. QED
  BY <1>4, <1>5, <1>6

(* The file is detached before it is sent. *)
LEMMA DetachDstKeeps == ASSUME Parameters, IInv, NEW c \in Slots, DetachDst(c) PROVE IInv'
<1>1. /\ Exporting(c) /\ calls[c].step = "detach" /\ calls[c].op = "export"
      /\ Detach("export_dst") /\ Goto(c, "send")
      /\ UNCHANGED <<main, file, busy, histories, kept, nrows>>
  BY DEF DetachDst, Exporting
<1>2. calls' \in [Slots -> Requests] /\ calls'[c].step = "send" /\ Alike(c) /\ Others(c)
  BY <1>1, Stepped DEF IInv, Steps, ExportSteps
<1>3. Named' /\ Dst' = {} /\ Src' = Src
  BY <1>1, DetachIs DEF IInv, Typed, Dst, Src
<1>4. calls[c].todo = <<>>
  BY <1>1 DEF IInv, Phased
<1>5. c \notin crossed =>
        \A t \in Wanted(c) \ dropped[c] : before[c][t] # Missing => t \in Todo(c) \/ Copied(c, t)
  BY <1>1 DEF IInv, Progress
<1>6. QED
  BY <1>1, <1>2, <1>3, <1>4, <1>5, ExportStep DEF Alike, Holding, ExportSteps

(* At the end whatever is attached for exports is detached. *)
LEMMA EndExportKeeps == ASSUME Parameters, IInv, NEW c \in Slots, EndExport(c) PROVE IInv'
<1>1. /\ Exporting(c) /\ calls[c].step \in {"send", "error"} /\ calls[c].op = "export"
      /\ Detach("export_dst") /\ Goto(c, IF calls[c].step = "send" THEN "answered" ELSE "failed")
      /\ UNCHANGED <<main, file, busy, histories, kept, nrows>>
  BY DEF EndExport, Exporting
<1>2. Named' /\ Dst' = {} /\ Src' = Src
  BY <1>1, DetachIs DEF IInv, Typed, Dst, Src
<1>3. CASE calls[c].step = "send"
  <2>1. calls' \in [Slots -> Requests] /\ calls'[c].step = "answered" /\ Alike(c) /\ Others(c)
    BY <1>1, <1>3, Stepped DEF IInv, Steps, ExportSteps
  <2>2. calls[c].todo = <<>>
    BY <1>1, <1>3 DEF IInv, Phased
  <2>3. c \notin crossed =>
          \A t \in Wanted(c) \ dropped[c] : before[c][t] # Missing => t \in Todo(c) \/ Copied(c, t)
    BY <1>1, <1>3 DEF IInv, Progress
  <2>4. QED
    BY <1>1, <1>2, <2>1, <2>2, <2>3, ExportStep DEF Alike, Holding, ExportSteps
<1>4. CASE calls[c].step = "error"
  <2>1. calls' \in [Slots -> Requests] /\ calls'[c].step = "failed" /\ Alike(c) /\ Others(c)
    BY <1>1, <1>4, Stepped DEF IInv, Steps, ExportSteps
  <2>2. QED
    BY <1>1, <1>2, <2>1, ExportStep DEF Alike, Holding, ExportSteps
<1>5. QED
  BY <1>1, <1>3, <1>4

(* Tables of files get rows and none is lost. *)
Grows ==
  /\ file' \in [Slots -> [Tables -> Content]]
  /\ \A d \in Slots, t \in Tables : file[d][t] # Missing => file'[d][t] # Missing /\ file[d][t] \subseteq file'[d][t]
  /\ \A d \in Slots : d \notin Dst => file'[d] = file[d]

(* A file of an export gets a table or its rows. *)
LEMMA WriteStep ==
  ASSUME Parameters, IInv, NEW c \in Slots, calls[c].op = "export", calls[c].step \in {"create", "copy"},
         UNCHANGED <<main, attached, busy, histories, kept, nrows>>, Grows,
         ~strayed => \A d \in Dst, t \in Tables : file'[d][t] # Missing => file[d][t] # Missing \/ main[t] # Missing,
         calls' \in [Slots -> Requests], Others(c), calls'[c].op = "export", Wanted(c)' = Wanted(c),
         calls'[c].step \in {"table", "copy"},
         calls'[c].step = "copy" => calls[c].step = "create" /\ calls'[c].todo = calls[c].todo,
         c \notin crossed =>
           /\ calls'[c].step = "copy" => file'[c][Table(c)'] # Missing
           /\ \A t \in Wanted(c) \ dropped[c] :
                before[c][t] # Missing => t \in Todo(c)' \/ Copied(c, t) \/ Copied(c, t)'
  PROVE  IInv'
<1>1. Named' /\ Dst' = Dst /\ Src' = Src
  BY SameHolders DEF IInv, Typed
<1>2. Typed'
  BY <1>1 DEF IInv, Typed, histories, Grows
<1>3. calls[c].todo # <<>> /\ Exporting(c) /\ c # busy
  BY DEF IInv, Phased, Exporting, Running, Owned
<1>4. Phased'
  BY <1>3 DEF IInv, Phased, Others, Alike, ExportSteps
<1>5. Owned'
  BY <1>1, <1>3 DEF IInv, Owned, Others, Alike, Holding
<1>6. \A d \in Slots : calls[d].step = "attach" => d \notin Dst
  BY DEF IInv, Owned, Holding
<1>7. \A d \in Slots : calls[d].step \in {"create", "copy"} => Table(d) \in Tables
  BY TableIs DEF IInv, Phased
<1>8. Copying'
  <2>1. ASSUME NEW d \in Slots, d # c
        PROVE  /\ calls'[d].op = "export" /\ calls'[d].step = "attach" => file'[d] = Empty'
               /\ calls'[d].op = "import" /\ calls'[d].step = "copy" =>
                    main'[Table(d)'] # Missing /\ file'[d][Table(d)'] # Missing
    BY <1>6, <1>7, <2>1 DEF IInv, Copying, Others, Alike, Empty, Grows
  <2>2. QED
    BY <2>1 DEF Copying
<1>9. Safe'
  <2>1. Table(c)' = Table(c) \/ calls'[c].step # "copy"
    BY DEF Table
  <2>2. QED
    BY <1>1, <2>1 DEF IInv, Safe, Owned, Others, Alike, histories
<1>10. \A d \in Slots, t \in Tables : Copied(d, t) => Copied(d, t)'
  <2>1. before' = before
    BY DEF histories
  <2>2. QED
    BY <2>1 DEF Copied, Grows
<1>11. Progress'
  <2>1. \A d \in Slots : Exporting(d)' => Exporting(d)
    BY <1>3 DEF Others, Alike, Exporting, Running
  <2>2. \A x, y \in Slots : Exporting(x)' /\ Exporting(y)' /\ x # y => x \in crossed'
    BY <2>1 DEF IInv, Progress, histories
  <2>3. \A d \in Slots : Exporting(d)' =>
          \A t \in Tables \ dropped'[d] : before'[d][t] # Missing => main'[t] # Missing /\ before'[d][t] \subseteq main'[t]
    BY <2>1 DEF IInv, Progress, histories
  <2>4. ASSUME NEW d \in Slots, calls'[d].op = "export", d \notin crossed'
        PROVE  /\ calls'[d].step \in Holding \ {"error"} => d \in Dst'
               /\ calls'[d].step = "copy" => file'[d][Table(d)'] # Missing
               /\ calls'[d].step \notin {"error", "failed"} =>
                    \A t \in Wanted(d)' \ dropped'[d] : before'[d][t] # Missing => t \in Todo(d)' \/ Copied(d, t)'
    <3>1. Wanted(d) \subseteq Tables
      BY TableIs DEF IInv
    <3>2. CASE d = c
      <4>1. c \notin crossed /\ c \in Dst
        BY <2>4, <3>2 DEF IInv, Progress, Holding, histories
      <4>2. QED
        BY <1>1, <1>10, <3>1, <3>2, <4>1 DEF histories
    <3>3. CASE d # c
      <4>1. d \notin crossed /\ calls[d].op = "export" /\ calls'[d].step = calls[d].step
        BY <2>4, <3>3 DEF Others, Alike, histories
      <4>2. ~Exporting(d)
        BY <1>3, <3>3, <4>1 DEF IInv, Progress
      <4>3. calls[d].step \notin Holding
        BY <4>1, <4>2 DEF Exporting, Running, Holding
      <4>4. calls[d].step # "copy"
        BY <4>3 DEF Holding
      <4>5. QED
        BY <1>10, <3>1, <3>3, <4>1, <4>3, <4>4 DEF IInv, Progress, Others, Alike, histories
    <3>4. QED
      BY <3>2, <3>3
  <2>5. QED
    BY <2>2, <2>3, <2>4 DEF Progress
<1>12. QED
  BY <1>2, <1>4, <1>5, <1>8, <1>9, <1>11 DEF IInv

(* The table is made in the file that is attached. *)
LEMMA CreateInDstKeeps == ASSUME Parameters, IInv, NEW c \in Slots, CreateInDst(c) PROVE IInv'
<1> DEFINE t == Table(c)
           dst == {d \in Dst : file[d][t] = Missing}
<1>1. /\ Exporting(c) /\ calls[c].step = "create" /\ calls[c].op = "export"
      /\ file' = [d \in Slots |-> IF d \in dst THEN [file[d] EXCEPT ![t] = {}] ELSE file[d]]
      /\ Goto(c, IF dst = {} THEN "error" ELSE "copy")
      /\ UNCHANGED <<main, attached, busy, histories, kept, nrows>>
  BY DEF CreateInDst, Exporting, Dst
<1>2. calls[c].todo # <<>> /\ t \in Tables
  BY <1>1, TableIs DEF IInv, Phased
<1>3. file \in [Slots -> [Tables -> Content]] /\ Dst \subseteq Slots
  BY DEF IInv, Typed, Owned
<1>4. CASE dst = {}
  <2>1. file' = file
    BY <1>1, <1>3, <1>4
  <2>2. calls' \in [Slots -> Requests] /\ calls'[c].step = "error" /\ Alike(c) /\ Others(c)
    BY <1>1, <1>4, Stepped DEF IInv, Steps, ExportSteps
  <2>3. Named' /\ Dst' = Dst /\ Src' = Src /\ \A d, e \in Dst : d = e
    BY <1>1, SameHolders DEF IInv, Typed, Owned
  <2>4. QED
    BY <1>1, <2>1, <2>2, <2>3, ExportStep DEF Alike, Holding, ExportSteps
<1>5. CASE dst # {}
  <2>1. calls' \in [Slots -> Requests] /\ calls'[c].step = "copy" /\ Alike(c) /\ Others(c)
    BY <1>1, <1>5, Stepped DEF IInv, Steps, ExportSteps
  <2>2. \A d \in Slots, x \in Tables :
          file'[d][x] = IF d \in Dst /\ x = t /\ file[d][t] = Missing THEN {} ELSE file[d][x]
    BY <1>1, <1>2, <1>3
  <2>3. file' \in [Slots -> [Tables -> Content]]
    <3>1. {} \in Content
      BY DEF Content
    <3>2. QED
      BY <1>1, <1>2, <1>3, <3>1
  <2>4. Grows
    <3>1. \A d \in Slots : d \notin Dst => file'[d] = file[d]
      BY <1>1
    <3>2. QED
      BY <2>2, <2>3, <3>1 DEF Grows
  <2>5. c \notin crossed =>
          /\ file'[c][Table(c)'] # Missing
          /\ \A x \in Wanted(c) \ dropped[c] : before[c][x] # Missing => x \in Todo(c)' \/ Copied(c, x)
    <3>1. c \notin crossed => c \in Dst
      BY <1>1 DEF IInv, Progress, Holding
    <3>2. Table(c)' = t
      BY <2>1 DEF Alike
    <3>3. {} # Missing
      BY DEF Missing
    <3>4. c \notin crossed => file'[c][t] # Missing
      BY <1>2, <2>2, <3>1, <3>3
    <3>5. c \notin crossed => \A x \in Wanted(c) \ dropped[c] : before[c][x] # Missing => x \in Todo(c)' \/ Copied(c, x)
      BY <1>1, <2>1 DEF IInv, Progress, Alike
    <3>6. QED
      BY <3>2, <3>4, <3>5
  <2>6. ~strayed => main[t] # Missing
    BY <1>1 DEF IInv, Safe
  <2>7. ~strayed => \A d \in Dst, x \in Tables : file'[d][x] # Missing => file[d][x] # Missing \/ main[x] # Missing
    BY <1>3, <2>2, <2>6
  <2>8. QED
    BY <1>1, <2>1, <2>4, <2>5, <2>7, WriteStep DEF Alike
<1>6. QED
  BY <1>4, <1>5

(* The rows are copied into the file that is attached. *)
LEMMA CopyToDstKeeps == ASSUME Parameters, IInv, NEW c \in Slots, CopyToDst(c) PROVE IInv'
<1> DEFINE t == Table(c)
           dst == {d \in Dst : main[t] # Missing /\ file[d][t] # Missing}
<1>1. /\ Exporting(c) /\ calls[c].step = "copy" /\ calls[c].op = "export"
      /\ file' = [d \in Slots |-> IF d \in dst THEN [file[d] EXCEPT ![t] = @ \union main[t]] ELSE file[d]]
      /\ IF dst = {} THEN Goto(c, "error") ELSE NextTable(c)
      /\ UNCHANGED <<main, attached, busy, histories, kept, nrows>>
  BY DEF CopyToDst, Exporting, Dst
<1>2. calls[c].todo # <<>> /\ t \in Tables
  BY <1>1, TableIs DEF IInv, Phased
<1>3. file \in [Slots -> [Tables -> Content]] /\ main \in [Tables -> Content] /\ Dst \subseteq Slots
  BY DEF IInv, Typed, Owned
<1>4. CASE dst = {}
  <2>1. file' = file
    BY <1>1, <1>3, <1>4
  <2>2. calls' \in [Slots -> Requests] /\ calls'[c].step = "error" /\ Alike(c) /\ Others(c)
    BY <1>1, <1>4, Stepped DEF IInv, Steps, ExportSteps
  <2>3. Named' /\ Dst' = Dst /\ Src' = Src /\ \A d, e \in Dst : d = e
    BY <1>1, SameHolders DEF IInv, Typed, Owned
  <2>4. QED
    BY <1>1, <2>1, <2>2, <2>3, ExportStep DEF Alike, Holding, ExportSteps
<1>5. CASE dst # {}
  <2>1. /\ calls' \in [Slots -> Requests] /\ calls'[c].step = "table" /\ calls'[c].op = "export" /\ Others(c)
        /\ Wanted(c)' = Wanted(c) /\ Todo(c) \subseteq Todo(c)' \cup {t}
    BY <1>1, <1>2, <1>5, Advanced DEF IInv
  <2>2. \A d \in Slots, x \in Tables :
          file'[d][x] = IF d \in dst /\ x = t THEN file[d][t] \cup main[t] ELSE file[d][x]
    BY <1>1, <1>2, <1>3
  <2>3. \A d \in dst : file[d][t] \cup main[t] \in Content /\ file[d][t] \cup main[t] # Missing
    BY <1>2, <1>3 DEF Content, Missing
  <2>4. file' \in [Slots -> [Tables -> Content]]
    BY <1>1, <1>2, <1>3, <2>3
  <2>5. Grows
    <3>1. \A d \in Slots : d \notin Dst => file'[d] = file[d]
      BY <1>1
    <3>2. \A d \in Slots, x \in Tables : file[d][x] # Missing => file'[d][x] # Missing /\ file[d][x] \subseteq file'[d][x]
      BY <2>2, <2>3
    <3>3. QED
      BY <2>4, <3>1, <3>2 DEF Grows
  <2>6. \A d \in Dst, x \in Tables : file'[d][x] # Missing => file[d][x] # Missing \/ main[x] # Missing
    BY <1>3, <2>2
  <2>7. ASSUME c \notin crossed, NEW x \in Wanted(c) \ dropped[c], before[c][x] # Missing
        PROVE  x \in Todo(c)' \/ Copied(c, x) \/ Copied(c, x)'
    <3>1. x \in Todo(c) \/ Copied(c, x)
      BY <1>1, <2>7 DEF IInv, Progress
    <3>2. CASE x = t
      <4>1. main[t] # Missing /\ before[c][t] \subseteq main[t]
        BY <1>1, <1>2, <2>7, <3>2 DEF IInv, Progress
      <4>2. c \in Dst /\ file[c][t] # Missing
        BY <1>1, <2>7 DEF IInv, Progress, Holding
      <4>3. c \in dst /\ file'[c][t] = file[c][t] \cup main[t] /\ before' = before
        BY <1>1, <1>2, <2>2, <4>1, <4>2 DEF histories
      <4>4. QED
        BY <2>3, <3>2, <4>1, <4>3 DEF Copied
    <3>3. QED
      BY <2>1, <3>1, <3>2
  <2>8. QED
    BY <1>1, <2>1, <2>5, <2>6, <2>7, WriteStep
<1>6. QED
  BY <1>4, <1>5

-----------------------------------------------------------------------------
(* The steps of an import *)

(* Tables of the database get rows and none is lost. *)
MainGrows ==
  /\ main' \in [Tables -> Content]
  /\ \A t \in Tables : main[t] # Missing => main'[t] # Missing /\ main[t] \subseteq main'[t]

(* A step of an import: what it has to see to. *)
LEMMA ImportStep ==
  ASSUME Parameters, IInv, NEW c \in Slots, c \notin Dst, MainGrows,
         UNCHANGED <<histories, kept, nrows>>,
         file' \in [Slots -> [Tables -> Content]], \A d \in Slots \ {c} : file'[d] = file[d],
         Named', Dst' = Dst, Src' = IF busy' = 0 THEN {} ELSE {busy'}, busy' \in Slots \cup {0},
         \A d \in Slots \ {c} : busy' = d <=> busy = d,
         busy' = c <=> calls'[c].step \in {"table", "copy", "error"},
         calls' \in [Slots -> Requests], Others(c), calls'[c].op = "import", calls'[c].step \in ImportSteps,
         calls'[c].step = "copy" =>
           calls'[c].todo # <<>> /\ main'[Table(c)'] # Missing /\ file'[c][Table(c)'] # Missing
  PROVE  IInv'
<1>1. Typed'
  BY DEF IInv, Typed, histories, MainGrows
<1>2. Phased'
  BY DEF IInv, Phased, Others, Alike, ImportSteps
<1>3. Owned'
  BY DEF IInv, Owned, Others, Alike
<1>4. \A d \in Slots : calls[d].step \in {"create", "copy"} => Table(d) \in Tables
  BY TableIs DEF IInv, Phased
<1>5. Copying'
  <2>1. ASSUME NEW d \in Slots, d # c
        PROVE  /\ calls'[d].op = "export" /\ calls'[d].step = "attach" => file'[d] = Empty'
               /\ calls'[d].op = "import" /\ calls'[d].step = "copy" =>
                    main'[Table(d)'] # Missing /\ file'[d][Table(d)'] # Missing
    BY <1>4, <2>1 DEF IInv, Copying, Others, Alike, Empty, MainGrows
  <2>2. QED
    BY <2>1 DEF Copying
<1>6. Safe'
  <2>1. ASSUME ~strayed, NEW t \in Tables PROVE kept[t] \subseteq main'[t]
    <3>1. CASE main[t] # Missing
      BY <2>1, <3>1 DEF IInv, Safe, MainGrows
    <3>2. CASE main[t] = Missing
      <4>1. kept[t] \subseteq Nat \ {0} /\ kept[t] \subseteq main[t]
        BY <2>1 DEF IInv, Safe, Typed
      <4>2. kept[t] = {}
        BY <3>2, <4>1 DEF Missing
      <4>3. QED
        BY <4>2
    <3>3. QED
      BY <3>1, <3>2
  <2>2. \A d \in Dst : d # c /\ d \in Slots
    BY DEF IInv, Owned
  <2>3. strayed' = strayed /\ kept' = kept
    BY DEF histories
  <2>4. ASSUME ~strayed, NEW d \in Dst, NEW t \in Tables, file'[d][t] # Missing PROVE main'[t] # Missing
    BY <2>2, <2>4 DEF IInv, Safe, MainGrows
  <2>5. ASSUME ~strayed, NEW d \in Slots, calls'[d].op = "export", calls'[d].step \in {"create", "copy"}
        PROVE  main'[Table(d)'] # Missing
    <3>1. d # c
      BY <2>5
    <3>2. QED
      BY <1>4, <2>5, <3>1 DEF IInv, Safe, MainGrows, Others, Alike
  <2>6. QED
    BY <2>1, <2>3, <2>4, <2>5 DEF Safe
<1>7. Progress'
  <2>1. \A d \in Slots : calls'[d].op = "export" => d # c /\ calls[d].op = "export" /\ calls'[d].step = calls[d].step
    BY DEF Others, Alike
  <2>2. \A d \in Slots : Exporting(d)' => Exporting(d)
    BY <2>1 DEF Exporting, Running
  <2>3. \A x, y \in Slots : Exporting(x)' /\ Exporting(y)' /\ x # y => x \in crossed'
    BY <2>2 DEF IInv, Progress, histories
  <2>4. ASSUME NEW d \in Slots, Exporting(d)', NEW t \in Tables \ dropped'[d], before'[d][t] # Missing
        PROVE  main'[t] # Missing /\ before'[d][t] \subseteq main'[t]
    BY <2>2, <2>4 DEF IInv, Progress, histories, MainGrows
  <2>5. ASSUME NEW d \in Slots, calls'[d].op = "export", d \notin crossed'
        PROVE  /\ calls'[d].step \in Holding \ {"error"} => d \in Dst'
               /\ calls'[d].step = "copy" => file'[d][Table(d)'] # Missing
               /\ calls'[d].step \notin {"error", "failed"} =>
                    \A t \in Wanted(d)' \ dropped'[d] : before'[d][t] # Missing => t \in Todo(d)' \/ Copied(d, t)'
    <3>1. d # c /\ d \notin crossed /\ before' = before /\ dropped' = dropped
      BY <2>1, <2>5 DEF histories
    <3>2. file'[d] = file[d] /\ \A t : Copied(d, t)' <=> Copied(d, t)
      BY <3>1 DEF Copied
    <3>3. QED
      BY <2>1, <2>5, <3>1, <3>2 DEF IInv, Progress, Others, Alike
  <2>6. QED
    BY <2>3, <2>4, <2>5 DEF Progress
<1>8. QED
  BY <1>1, <1>2, <1>3, <1>5, <1>6, <1>7 DEF IInv

(* A database that stays as it is. *)
LEMMA SameMain == ASSUME IInv, main' = main PROVE MainGrows
BY DEF IInv, Typed, MainGrows

(* An import waits with its upload. *)
LEMMA ImportKeeps ==
  ASSUME Parameters, IInv, NEW c \in Slots, NEW list \in Asked, NEW upload \in Uploads, Import(c, list, upload)
  PROVE  IInv'
<1>1. calls' \in [Slots -> Requests] /\ calls'[c].step = "queued" /\ calls'[c].op = "import" /\ Others(c)
  BY Begun DEF Import, Parameters, IInv, Steps, ImportSteps
<1>2. /\ ~Running(c)
      /\ file' = [file EXCEPT ![c] = upload]
      /\ UNCHANGED <<main, attached, busy, histories, kept, nrows>>
  BY DEF Import
<1>3. Dst' = Dst /\ Src' = Src /\ Named'
  BY <1>2, SameHolders DEF IInv, Typed
<1>4. c \notin Dst /\ c # busy
  BY <1>2 DEF IInv, Owned, Holding, Running
<1>5. file' \in [Slots -> [Tables -> Content]] /\ \A d \in Slots \ {c} : file'[d] = file[d]
  BY <1>2 DEF IInv, Typed, Parameters
<1>6. busy \in Slots \cup {0} /\ Src = IF busy = 0 THEN {} ELSE {busy}
  BY DEF IInv, Typed, Owned
<1>7. QED
  BY <1>1, <1>2, <1>3, <1>4, <1>5, <1>6, SameMain, ImportStep DEF ImportSteps

(* The client of an import leaves: an upload that waits is removed. *)
LEMMA LeaveImportKeeps == ASSUME Parameters, IInv, NEW c \in Slots, LeaveImport(c) PROVE IInv'
<1> DEFINE k == [calls[c] EXCEPT !.client = FALSE]
<1>1. /\ calls[c].op = "import" /\ calls' = [calls EXCEPT ![c] = k]
      /\ file' = IF calls[c].step = "queued" THEN [file EXCEPT ![c] = Empty] ELSE file
      /\ UNCHANGED <<main, attached, busy, histories, kept, nrows>>
  BY DEF LeaveImport
<1>2. calls[c] \in Requests /\ calls \in [Slots -> Requests] /\ file \in [Slots -> [Tables -> Content]]
  BY DEF IInv, Typed
<1>3. k \in Requests /\ k.step = calls[c].step /\ k.op = calls[c].op /\ k.todo = calls[c].todo
  BY <1>2 DEF Requests
<1> HIDE DEF k
<1>4. calls' \in [Slots -> Requests] /\ calls'[c] = k /\ \A d \in Slots \ {c} : calls'[d] = calls[d]
  BY <1>1, <1>2, <1>3
<1>5. Others(c) /\ Table(c)' = Table(c)
  BY <1>3, <1>4 DEF Others, Alike, Wanted, Todo, Table
<1>6. Dst' = Dst /\ Src' = Src /\ Named'
  BY <1>1, SameHolders DEF IInv, Typed
<1>7. c \notin Dst /\ busy \in Slots \cup {0} /\ Src = (IF busy = 0 THEN {} ELSE {busy})
      /\ (busy = c <=> calls[c].step \in {"table", "copy", "error"})
  BY <1>1 DEF IInv, Typed, Owned
<1>8. /\ file' \in [Slots -> [Tables -> Content]] /\ \A d \in Slots \ {c} : file'[d] = file[d]
      /\ calls[c].step # "queued" => file' = file
  <2>1. Empty \in [Tables -> Content]
    BY DEF Empty, Content, Missing
  <2>2. QED
    BY <1>1, <1>2, <2>1
<1>9. calls[c].step \in ImportSteps
      /\ (calls[c].step = "copy" => calls[c].todo # <<>> /\ main[Table(c)] # Missing /\ file[c][Table(c)] # Missing)
  BY <1>1 DEF IInv, Phased, Copying
<1>10. QED
  BY <1>1, <1>3, <1>4, <1>5, <1>6, <1>7, <1>8, <1>9, SameMain, ImportStep

(* The upload is attached when the write queue runs the import. *)
LEMMA AttachSrcKeeps == ASSUME Parameters, IInv, NEW c \in Slots, AttachSrc(c) PROVE IInv'
<1>1. /\ calls[c].op = "import" /\ calls[c].step = "queued" /\ busy = 0 /\ busy' = c
      /\ Attach("import_src", c) /\ Goto(c, "table")
      /\ UNCHANGED <<main, file, histories, kept, nrows>>
  BY DEF AttachSrc
<1>2. calls' \in [Slots -> Requests] /\ calls'[c].step = "table" /\ Alike(c) /\ Others(c)
  BY <1>1, Stepped DEF IInv, Steps, ImportSteps
<1>3. Src = {} /\ c \notin Dst /\ c # 0 /\ 0 \notin Slots
  BY <1>1 DEF IInv, Owned, Parameters
<1>4. Named' /\ Src' = {c} /\ Dst' = Dst
  BY <1>1, <1>3, AttachIs DEF IInv, Typed, Dst, Src
<1>5. file' \in [Slots -> [Tables -> Content]]
  BY <1>1 DEF IInv, Typed
<1>6. QED
  BY <1>1, <1>2, <1>3, <1>4, <1>5, SameMain, ImportStep DEF Alike, ImportSteps

(* What a step of the running import finds. *)
LEMMA Importing ==
  ASSUME Parameters, IInv, NEW c \in Slots, busy = c
  PROVE  /\ calls[c].op = "import" /\ Src = {c} /\ c \notin Dst /\ c # 0
         /\ main \in [Tables -> Content] /\ file \in [Slots -> [Tables -> Content]]
BY DEF IInv, Typed, Owned, Parameters

(* A table is made, or skipped if the upload does not have it. *)
LEMMA CreateTableKeeps == ASSUME Parameters, IInv, NEW c \in Slots, CreateTable(c) PROVE IInv'
<1> DEFINE t == Table(c)
           found == file[c][t] # Missing
<1>1. /\ busy = c /\ calls[c].step = "table" /\ calls[c].todo # <<>>
      /\ UNCHANGED <<attached, file, busy, histories, kept, nrows>>
  BY DEF CreateTable
<1>2. /\ calls[c].op = "import" /\ Src = {c} /\ c \notin Dst /\ c # 0
      /\ main \in [Tables -> Content] /\ file \in [Slots -> [Tables -> Content]]
  BY <1>1, Importing
<1>3. t \in Tables
  BY <1>1, TableIs DEF IInv
<1>4. /\ main' = [main EXCEPT ![t] = IF found /\ @ = Missing THEN {} ELSE @]
      /\ IF found THEN Goto(c, "copy") ELSE NextTable(c)
  BY <1>2 DEF CreateTable, Src
<1>5. main' \in [Tables -> Content] /\ MainGrows /\ (found => main'[t] # Missing)
  <2>1. {} \in Content /\ {} # Missing
    BY DEF Content, Missing
  <2>2. main' \in [Tables -> Content]
    BY <1>2, <1>4, <2>1
  <2>3. QED
    BY <1>2, <1>3, <1>4, <2>1, <2>2 DEF MainGrows
<1>6. Dst' = Dst /\ Src' = Src /\ Named'
  BY <1>1, SameHolders DEF IInv, Typed
<1>7. CASE found
  <2>1. calls' \in [Slots -> Requests] /\ calls'[c].step = "copy" /\ Alike(c) /\ Others(c)
    BY <1>4, <1>7, Stepped DEF IInv, Steps, ImportSteps
  <2>2. QED
    BY <1>1, <1>2, <1>5, <1>6, <1>7, <2>1, ImportStep DEF Alike, ImportSteps
<1>8. CASE ~found
  <2>1. calls' \in [Slots -> Requests] /\ calls'[c].step = "table" /\ calls'[c].op = "import" /\ Others(c)
    BY <1>1, <1>2, <1>4, <1>8, Advanced DEF IInv
  <2>2. QED
    BY <1>1, <1>2, <1>5, <1>6, <2>1, ImportStep DEF ImportSteps
<1>9. QED
  BY <1>7, <1>8

(* Its rows are copied into the database. *)
LEMMA CopyFromSrcKeeps == ASSUME Parameters, IInv, NEW c \in Slots, CopyFromSrc(c) PROVE IInv'
<1> DEFINE t == Table(c)
<1>1. /\ busy = c /\ calls[c].step = "copy"
      /\ UNCHANGED <<attached, file, busy, histories, kept, nrows>>
  BY DEF CopyFromSrc
<1>2. /\ calls[c].op = "import" /\ Src = {c} /\ c \notin Dst /\ c # 0
      /\ main \in [Tables -> Content] /\ file \in [Slots -> [Tables -> Content]]
  BY <1>1, Importing
<1>3. calls[c].todo # <<>> /\ t \in Tables
  BY <1>1, TableIs DEF IInv, Phased
<1>4. Dst' = Dst /\ Src' = Src /\ Named'
  BY <1>1, SameHolders DEF IInv, Typed
<1>5. CASE Goto(c, "error") /\ main' = main
  <2>1. calls' \in [Slots -> Requests] /\ calls'[c].step = "error" /\ Alike(c) /\ Others(c)
    BY <1>5, Stepped DEF IInv, Steps, ImportSteps
  <2>2. QED
    BY <1>1, <1>2, <1>4, <1>5, <2>1, SameMain, ImportStep DEF Alike, ImportSteps
<1>6. CASE main' = [main EXCEPT ![t] = @ \union UNION {file[d][t] : d \in Src}] /\ NextTable(c)
  <2>1. calls' \in [Slots -> Requests] /\ calls'[c].step = "table" /\ calls'[c].op = "import" /\ Others(c)
    BY <1>2, <1>3, <1>6, Advanced DEF IInv
  <2>2. UNION {file[d][t] : d \in Src} = file[c][t]
    BY <1>2
  <2>3. main[t] # Missing /\ file[c][t] # Missing
    BY <1>1, <1>2 DEF IInv, Copying
  <2>4. main[t] \cup file[c][t] \in Content /\ main[t] \cup file[c][t] # Missing
    BY <1>2, <1>3, <2>3 DEF Content, Missing
  <2>5. MainGrows
    <3>1. main' \in [Tables -> Content]
      BY <1>2, <1>3, <1>6, <2>2, <2>4
    <3>2. QED
      BY <1>2, <1>3, <1>6, <2>2, <2>4, <3>1 DEF MainGrows
  <2>6. QED
    BY <1>1, <1>2, <1>4, <2>1, <2>5, ImportStep DEF ImportSteps
<1>7. QED
  BY <1>5, <1>6 DEF CopyFromSrc, Src

(* The upload is detached. *)
LEMMA EndImportKeeps == ASSUME Parameters, IInv, NEW c \in Slots, EndImport(c) PROVE IInv'
<1>1. /\ busy = c /\ busy' = 0
      /\ Detach("import_src") /\ Goto(c, IF calls[c].step = "error" THEN "failed" ELSE "answered")
      /\ UNCHANGED <<main, file, histories, kept, nrows>>
  BY DEF EndImport
<1>2. /\ calls[c].op = "import" /\ Src = {c} /\ c \notin Dst /\ c # 0
      /\ main \in [Tables -> Content] /\ file \in [Slots -> [Tables -> Content]]
  BY <1>1, Importing
<1>3. calls' \in [Slots -> Requests] /\ calls'[c].step \in {"failed", "answered"} /\ Alike(c) /\ Others(c)
  BY <1>1, Stepped DEF IInv, Steps, ImportSteps
<1>4. Named' /\ Src' = {} /\ Dst' = Dst
  BY <1>1, DetachIs DEF IInv, Typed, Dst, Src
<1>5. 0 \notin Slots
  BY DEF Parameters
<1>6. QED
  BY <1>1, <1>2, <1>3, <1>4, <1>5, SameMain, ImportStep DEF Alike, ImportSteps

-----------------------------------------------------------------------------
(* Statements *)

(* Nothing of the requests changes. *)
LEMMA CallsSame ==
  ASSUME calls' = calls
  PROVE  \A d : /\ Wanted(d)' = Wanted(d) /\ Todo(d)' = Todo(d) /\ Table(d)' = Table(d)
                /\ Exporting(d)' <=> Exporting(d)
BY DEF Wanted, Todo, Table, Exporting, Running

(* A statement that removes nothing: what it has to see to. *)
LEMMA StatementStep ==
  ASSUME Parameters, IInv, busy = 0, UNCHANGED <<attached, calls, busy, histories>>, MainGrows, Grows,
         ~strayed => file' = file /\ \A t \in Tables : kept'[t] \subseteq main'[t],
         kept' \in [Tables -> SUBSET (Nat \ {0})], nrows' \in Nat
  PROVE  IInv'
<1>1. Named' /\ Dst' = Dst /\ Src' = Src
  BY SameHolders DEF IInv, Typed
<1>2. Typed'
  BY <1>1 DEF IInv, Typed, histories, MainGrows, Grows
<1>3. Phased'
  BY DEF IInv, Phased
<1>4. Owned'
  BY <1>1 DEF IInv, Owned
<1>5. \A d \in Slots : calls[d].step \in {"create", "copy"} => Table(d) \in Tables
  BY TableIs DEF IInv, Phased
<1>6. \A d \in Slots : calls[d].step = "attach" => file'[d] = file[d]
  BY DEF IInv, Owned, Holding, Grows
<1>7. Copying'
  <2>1. ASSUME NEW d \in Slots, calls[d].op = "import" PROVE calls[d].step # "copy"
    BY <2>1 DEF IInv, Owned, Parameters
  <2>2. QED
    BY <1>6, <2>1 DEF IInv, Copying, Empty
<1>8. Safe'
  <2>1. strayed' = strayed
    BY DEF histories
  <2>2. ASSUME ~strayed, NEW d \in Dst, NEW t \in Tables, file'[d][t] # Missing PROVE main'[t] # Missing
    BY <2>2 DEF IInv, Safe, MainGrows
  <2>3. ASSUME ~strayed, NEW d \in Slots, calls[d].op = "export", calls[d].step \in {"create", "copy"}
        PROVE  main'[Table(d)] # Missing
    BY <1>5, <2>3 DEF IInv, Safe, MainGrows
  <2>4. QED
    BY <1>1, <2>1, <2>2, <2>3, CallsSame DEF Safe
<1>9. Progress'
  <2>1. crossed' = crossed /\ before' = before /\ dropped' = dropped
    BY DEF histories
  <2>2. \A x, y \in Slots : Exporting(x)' /\ Exporting(y)' /\ x # y => x \in crossed'
    BY <2>1, CallsSame DEF IInv, Progress
  <2>3. ASSUME NEW d \in Slots, Exporting(d), NEW t \in Tables \ dropped[d], before[d][t] # Missing
        PROVE  main'[t] # Missing /\ before[d][t] \subseteq main'[t]
    BY <2>3 DEF IInv, Progress, MainGrows
  <2>4. \A d \in Slots, t \in Tables : Copied(d, t) => Copied(d, t)'
    BY <2>1 DEF Copied, Grows
  <2>5. ASSUME NEW d \in Slots, calls[d].op = "export", d \notin crossed
        PROVE  /\ calls[d].step \in Holding \ {"error"} => d \in Dst'
               /\ calls[d].step = "copy" => file'[d][Table(d)] # Missing
               /\ calls[d].step \notin {"error", "failed"} =>
                    \A t \in Wanted(d) \ dropped[d] : before[d][t] # Missing => t \in Todo(d) \/ Copied(d, t)'
    <3>1. Wanted(d) \subseteq Tables
      BY TableIs DEF IInv
    <3>2. QED
      BY <1>1, <1>5, <2>4, <2>5, <3>1 DEF IInv, Progress, Grows
  <2>6. QED
    BY <2>1, <2>2, <2>3, <2>5, CallsSame DEF Progress
<1>10. QED
  BY <1>2, <1>3, <1>4, <1>7, <1>8, <1>9 DEF IInv

(* Files that stay as they are. *)
LEMMA SameFiles == ASSUME IInv, file' = file PROVE Grows
BY DEF IInv, Typed, Grows

(* A row is written: into the database, or astray. *)
LEMMA InsertKeeps == ASSUME Parameters, IInv, NEW t \in Tables, Insert(t) PROVE IInv'
<1>1. /\ busy = 0 /\ nrows' = nrows + 1 /\ UNCHANGED <<attached, calls, busy, histories>>
      /\ kept' = [kept EXCEPT ![t] = @ \union {nrows'}]
  BY DEF Insert
<1>2. /\ main \in [Tables -> Content] /\ file \in [Slots -> [Tables -> Content]]
      /\ kept \in [Tables -> SUBSET (Nat \ {0})] /\ nrows \in Nat
  BY DEF IInv, Typed
<1> PICK n \in Nat \ {0} : n = nrows'
  BY <1>1, <1>2
<1>3. kept' \in [Tables -> SUBSET (Nat \ {0})] /\ nrows' \in Nat
  BY <1>1, <1>2
<1>4. \A s \in Content : s # Missing => s \cup {n} \in Content /\ s \cup {n} # Missing
  BY DEF Content, Missing
<1>5. CASE main[t] # Missing /\ main' = [main EXCEPT ![t] = @ \union {n}] /\ file' = file
  <2>1. MainGrows
    <3>1. main' \in [Tables -> Content]
      BY <1>2, <1>4, <1>5
    <3>2. QED
      BY <1>2, <1>4, <1>5, <3>1 DEF MainGrows
  <2>2. \A x \in Tables : main'[x] = (IF x = t THEN main[x] \cup {n} ELSE main[x])
                          /\ kept'[x] = (IF x = t THEN kept[x] \cup {n} ELSE kept[x])
    BY <1>1, <1>2, <1>5
  <2>3. ~strayed => \A x \in Tables : kept'[x] \subseteq main'[x]
    BY <2>2 DEF IInv, Safe
  <2>4. QED
    BY <1>1, <1>3, <1>5, <2>1, <2>3, SameFiles, StatementStep
<1>6. CASE /\ main[t] = Missing /\ FirstWith(t) # {} /\ main' = main
           /\ file' = [d \in Slots |-> IF d \in FirstWith(t) THEN [file[d] EXCEPT ![t] = @ \union {n}] ELSE file[d]]
  <2>1. Src = {}
    BY <1>1 DEF IInv, Owned
  <2>2. FirstWith(t) \subseteq {d \in Dst : file[d][t] # Missing}
    BY <2>1, FirstWithIs DEF IInv, Typed
  <2>3. strayed
    BY <1>6, <2>2 DEF IInv, Safe
  <2>4. Grows
    <3>1. file' \in [Slots -> [Tables -> Content]]
      BY <1>2, <1>4, <1>6, <2>2
    <3>2. \A d \in Slots : d \notin Dst => file'[d] = file[d]
      BY <1>6, <2>2
    <3>3. \A d \in Slots, x \in Tables :
            file'[d][x] = IF d \in FirstWith(t) /\ x = t THEN file[d][x] \cup {n} ELSE file[d][x]
      BY <1>2, <1>6
    <3>4. \A d \in Slots, x \in Tables : file[d][x] \in Content
      BY <1>2
    <3>5. \A d \in Slots, x \in Tables :
            file[d][x] # Missing => file'[d][x] # Missing /\ file[d][x] \subseteq file'[d][x]
      BY <1>4, <3>3, <3>4
    <3>6. QED
      BY <3>1, <3>2, <3>5 DEF Grows
  <2>5. QED
    BY <1>1, <1>3, <1>6, <2>3, <2>4, SameMain, StatementStep
<1>7. QED
  BY <1>5, <1>6 DEF Insert

(* A table is made. *)
LEMMA CreateKeeps == ASSUME Parameters, IInv, NEW t \in Tables, Create(t) PROVE IInv'
<1>1. /\ busy = 0 /\ main[t] = Missing /\ main' = [main EXCEPT ![t] = {}]
      /\ UNCHANGED <<attached, file, calls, busy, histories, kept, nrows>>
  BY DEF Create
<1>2. main \in [Tables -> Content] /\ kept \in [Tables -> SUBSET (Nat \ {0})] /\ nrows \in Nat
  BY DEF IInv, Typed
<1>3. MainGrows
  <2>1. {} \in Content
    BY DEF Content
  <2>2. main' \in [Tables -> Content]
    BY <1>1, <1>2, <2>1
  <2>3. QED
    BY <1>1, <1>2, <2>2 DEF MainGrows
<1>4. ~strayed => \A x \in Tables : kept[x] \subseteq main'[x]
  <2>1. ASSUME ~strayed PROVE kept[t] = {}
    <3>1. kept[t] \subseteq main[t] /\ kept[t] \subseteq Nat \ {0}
      BY <1>2, <2>1 DEF IInv, Safe
    <3>2. QED
      BY <1>1, <3>1 DEF Missing
  <2>2. QED
    BY <1>1, <1>2, <2>1 DEF IInv, Safe
<1>5. QED
  BY <1>1, <1>2, <1>3, <1>4, SameFiles, StatementStep

(* A table is dropped: an export that runs is told so by the histories. *)
LEMMA DropKeeps == ASSUME Parameters, IInv, NEW t \in Tables, Drop(t) PROVE IInv'
<1>1. /\ busy = 0 /\ main[t] # Missing
      /\ main' = [main EXCEPT ![t] = Missing] /\ kept' = [kept EXCEPT ![t] = {}]
      /\ dropped' = [c \in Slots |-> dropped[c] \union {t}]
      /\ strayed' = (strayed \/ (\E c \in Slots : Exporting(c)))
      /\ UNCHANGED <<attached, file, calls, busy, before, crossed, nrows>>
  BY DEF Drop
<1>2. Named' /\ Dst' = Dst /\ Src' = Src
  BY <1>1, SameHolders DEF IInv, Typed
<1>3. Typed'
  <2>1. Missing \in Content
    BY DEF Content, Missing
  <2>2. QED
    BY <1>1, <1>2, <2>1 DEF IInv, Typed
<1>4. Phased' /\ Owned'
  BY <1>1, <1>2 DEF IInv, Phased, Owned
<1>5. Copying'
  <2>1. ASSUME NEW d \in Slots, calls[d].op = "import" PROVE calls[d].step # "copy"
    BY <1>1, <2>1 DEF IInv, Owned, Parameters
  <2>2. QED
    BY <1>1, <2>1 DEF IInv, Copying, Empty
<1>6. \A x \in Tables \ {t} : main'[x] = main[x] /\ kept'[x] = kept[x]
  BY <1>1 DEF IInv, Typed
<1>7. Safe'
  <2>1. kept'[t] = {}
    BY <1>1 DEF IInv, Typed
  <2>2. ASSUME ~strayed' PROVE ~strayed /\ Dst = {} /\ \A c \in Slots : ~Exporting(c)
    <3>1. \A c \in Dst : Exporting(c) /\ c \in Slots
      BY DEF IInv, Owned, Exporting, Running, Holding
    <3>2. QED
      BY <1>1, <2>2, <3>1
  <2>3. \A c \in Slots : calls[c].op = "export" /\ calls[c].step \in {"create", "copy"} => Exporting(c)
    BY DEF Exporting, Running
  <2>4. QED
    BY <1>1, <1>2, <1>6, <2>1, <2>2, <2>3 DEF IInv, Safe
<1>8. Progress'
  <2>1. \A d \in Slots : dropped'[d] = dropped[d] \cup {t}
    BY <1>1
  <2>2. \A d, x : Copied(d, x)' <=> Copied(d, x)
    BY <1>1 DEF Copied
  <2>3. \A x, y \in Slots : Exporting(x)' /\ Exporting(y)' /\ x # y => x \in crossed'
    BY <1>1, CallsSame DEF IInv, Progress
  <2>4. ASSUME NEW d \in Slots, Exporting(d), NEW x \in Tables \ dropped'[d], before[d][x] # Missing
        PROVE  main'[x] # Missing /\ before[d][x] \subseteq main'[x]
    BY <1>6, <2>1, <2>4 DEF IInv, Progress
  <2>5. ASSUME NEW d \in Slots, calls[d].op = "export", d \notin crossed
        PROVE  /\ calls[d].step \in Holding \ {"error"} => d \in Dst'
               /\ calls[d].step = "copy" => file[d][Table(d)] # Missing
               /\ calls[d].step \notin {"error", "failed"} =>
                    \A x \in Wanted(d) \ dropped'[d] : before[d][x] # Missing => x \in Todo(d) \/ Copied(d, x)'
    BY <1>2, <2>1, <2>2, <2>5 DEF IInv, Progress
  <2>6. QED
    BY <1>1, <2>3, <2>4, <2>5, CallsSame DEF Progress
<1>9. QED
  BY <1>3, <1>4, <1>5, <1>7, <1>8 DEF IInv

-----------------------------------------------------------------------------
(* The invariant *)

LEMMA InitInv == ASSUME Parameters, Init PROVE IInv
<1>1. /\ main \in [Tables -> {Missing, {}}] /\ attached = <<>> /\ file = [c \in Slots |-> Empty]
      /\ calls = [c \in Slots |-> Free] /\ busy = 0
      /\ before = [c \in Slots |-> Empty] /\ dropped = [c \in Slots |-> {}] /\ crossed = {}
      /\ kept = [t \in Tables |-> {}] /\ strayed = FALSE /\ nrows = 0
  BY DEF Init
<1>2. Named /\ Dst = {} /\ Src = {}
  <2>1. attached \in Seq(Entries) /\ DOMAIN attached = {} /\ Len(attached) = 0
    BY <1>1
  <2>2. QED
    BY <2>1 DEF Named, Dst, Src, Holders
<1>3. Free \in Requests /\ Free.step = "done" /\ Free.op = "none"
  BY DEF Free, Requests
<1>4. {Missing, {}} \subseteq Content /\ Empty \in [Tables -> Content]
  BY DEF Content, Missing, Empty
<1>5. Typed
  BY <1>1, <1>2, <1>3, <1>4 DEF Typed
<1>6. \A c \in Slots : calls[c].step = "done" /\ calls[c].op = "none"
  BY <1>1, <1>3
<1>7. Phased /\ Owned /\ Copying /\ Progress
  BY <1>1, <1>2, <1>6 DEF Phased, Owned, Copying, Progress, Exporting, Parameters
<1>8. Safe
  BY <1>1, <1>2, <1>6 DEF Safe
<1>9. QED
  BY <1>5, <1>7, <1>8 DEF IInv

(* Every step keeps it. *)
LEMMA StepInv == ASSUME Parameters, IInv, [Next]_vars PROVE IInv'
<1>1. CASE UNCHANGED vars
  <2>1. UNCHANGED <<main, attached, file, calls, busy, histories, kept, nrows>>
    BY <1>1 DEF vars, histories
  <2>2. Named' /\ Dst' = Dst /\ Src' = Src
    BY <2>1, SameHolders DEF IInv, Typed
  <2>3. Empty' = Empty
    BY DEF Empty
  <2>4. QED
    BY <2>1, <2>2, <2>3, CallsSame
    DEF IInv, Typed, Phased, Owned, Copying, Safe, Progress, Copied, histories
<1>2. CASE \E c \in Slots : AttachDst(c) \/ ReadDDL(c) \/ CreateInDst(c) \/ CopyToDst(c) \/ DetachDst(c) \/ EndExport(c)
  BY <1>2, AttachDstKeeps, ReadDDLKeeps, CreateInDstKeeps, CopyToDstKeeps, DetachDstKeeps, EndExportKeeps
<1>3. CASE \E c \in Slots : LeaveImport(c) \/ AttachSrc(c) \/ CreateTable(c) \/ CopyFromSrc(c) \/ EndImport(c)
  BY <1>3, LeaveImportKeeps, AttachSrcKeeps, CreateTableKeeps, CopyFromSrcKeeps, EndImportKeeps
<1>4. CASE \E c \in Slots, list \in Asked : Export(c, list) \/ \E upload \in Uploads : Import(c, list, upload)
  BY <1>4, ExportKeeps, ImportKeeps
<1>5. CASE \E t \in Tables : Insert(t) \/ Create(t) \/ Drop(t)
  BY <1>5, InsertKeeps, CreateKeeps, DropKeeps
<1>6. QED
  BY <1>1, <1>2, <1>3, <1>4, <1>5 DEF Next

(* What it says of an answered export, of an idle server and of writes. *)
LEMMA InvImplies == ASSUME Parameters, IInv PROVE ExportIsWhole /\ NothingStaysAttached /\ WritesStay
<1>1. ASSUME NEW c \in Slots, Answered(c, "export"), c \notin crossed, NEW t \in Wanted(c) \ dropped[c],
             before[c][t] # Missing
      PROVE  before[c][t] \subseteq file[c][t]
  <2>1. t \in Todo(c) \/ Copied(c, t)
    BY <1>1 DEF IInv, Progress, Answered
  <2>2. Todo(c) = {}
    BY <1>1, TableIs DEF IInv, Phased, Answered
  <2>3. QED
    BY <2>1, <2>2 DEF Copied
<1>2. ASSUME \A c \in Slots : ~Running(c) PROVE attached = <<>>
  <2>1. Dst = {}
    BY <1>2 DEF IInv, Owned, Holding, Running
  <2>2. Src = {}
    BY <1>2 DEF IInv, Owned, Typed, Running
  <2>3. QED
    BY <2>1, <2>2, NobodyHolds DEF IInv, Typed
<1>3. WritesStay
  BY DEF IInv, Safe, WritesStay
<1>4. QED
  BY <1>1, <1>2, <1>3 DEF ExportIsWhole, NothingStaysAttached

LEMMA Invariant == ASSUME Parameters PROVE Spec => []IInv
<1>1. Init => IInv
  BY InitInv
<1>2. IInv /\ [Next]_vars => IInv'
  BY StepInv
<1>3. QED
  BY <1>1, <1>2, PTL DEF Spec

(* An export that ran beside no other has what every table held when it began (Export of    *)
(* export_import.go), whatever imports and statements ran meanwhile.                        *)
THEOREM ExportIsWholeHolds == ASSUME Parameters PROVE Spec => []ExportIsWhole
<1>1. IInv => ExportIsWhole
  BY InvImplies
<1>2. QED
  BY <1>1, Invariant, PTL

(* An idle server has nothing attached: no export and no import leaves its file behind on   *)
(* the connection, whoever detached which.                                                  *)
THEOREM NothingStaysAttachedHolds == ASSUME Parameters PROVE Spec => []NothingStaysAttached
<1>1. IInv => NothingStaysAttached
  BY InvImplies
<1>2. QED
  BY <1>1, Invariant, PTL

(* An answered write stays in its table beside exports and imports, unless a table was      *)
(* dropped during an export.                                                                *)
THEOREM WritesStayHolds == ASSUME Parameters PROVE Spec => []WritesStay
<1>1. IInv => WritesStay
  BY InvImplies
<1>2. QED
  BY <1>1, Invariant, PTL
=============================================================================
