------------------------- MODULE TieredCache_proofs -------------------------
(***************************************************************************)
(* How old an answer from the caches can be, for any number of processes,  *)
(* requests and versions, and any times to live: an API key that was       *)
(* revoked is refused once the time of both tiers has passed, and what a   *)
(* process has answered a change of it does not contradict afterwards.     *)
(*                                                                         *)
(* Neither is inductive.  A value on its way into a cache has not ended    *)
(* yet, because no time passes (slow); the tiers then bound how long it    *)
(* stays (Fresh).  A change and a read of one process do not overlap       *)
(* (overlap), so that what DelL1 removed stays away until the answer (Own).*)
(***************************************************************************)
EXTENDS TieredCache, TLAPS

(* Times to live pass, and no version is the absence of one. *)
Parameters ==
  /\ L1TTL \in Nat \ {0} /\ KeyTTL \in Nat \ {0} /\ SessionTTL \in Nat \ {0}
  /\ MaxVersion \in Nat \ {0} /\ MaxNow \in Nat
  /\ Limit \in Nat /\ Window \in Nat
  /\ None \notin Int /\ None \notin Procs

Version == 1..MaxVersion
Ops == {"none", "read", "login", "logout", "change"}
Filling == {"set1", "set2"}
Dropping == {"del1", "del2"}
Steps == {"done", "wait", "row"} \cup Filling \cup Dropping

Entries == [val : Version \cup {None}, until : Int]
Slots == [op : Ops, at : Procs \cup {None}, step : Steps, val : Version \cup {None, 0},
          since : Int, when : Int]

Typed ==
  /\ kind \in {"key", "list", "session", "rate"}
  /\ redis \in {"up", "down", "none"}
  /\ now \in 0..MaxNow /\ ops \in Nat
  /\ l1 \in [Procs -> Entries] /\ l2 \in Entries
  /\ row \in 0..MaxVersion /\ (kind \in {"key", "session"} => row \in {0, 1})
  /\ flight \in [Procs -> {Idle, Asked, Failed, None} \cup Version]
  /\ calls \in [Calls -> Slots]
  /\ ended \in [Version -> 0..Never]
  /\ known \in [Procs -> Version \cup {2}]

(* The time a value spends in Redis and still counts as recent. *)
Grace == IF kind = "key" THEN KeyTTL ELSE 0

(* Versions end when the clock says, and the current one has not ended. *)
Ends ==
  /\ \A v \in Version : ended[v] # Never => ended[v] <= now
  /\ row # 0 => ended[row] = Never
  /\ kind = "list" => row # 0 /\ \A v \in Version : row <= v => ended[v] = Never
  /\ kind = "key" => l2.until <= now + KeyTTL
  /\ \A p \in Procs : l1[p].until <= now + Grace + L1TTL

(* Which steps belong to which request; a session begins and ends once. *)
Phase(s) ==
  /\ s.op = "none" => s.step = "done"
  /\ s.op # "none" => s.at \in Procs
  /\ s.op = "read" => /\ s.step \notin Dropping /\ kind # "rate"
                      /\ s.step \in {"row", "set1", "set2"} => kind # "session"
                      /\ s.step = "done" => s.val \in Version \cup {0}
  /\ s.op = "change" /\ s.step # "done" =>
       s.step \in Dropping /\ kind = "list" /\ s.val \in 1..row
  /\ s.op = "login" /\ s.step # "done" =>
       s.step \in Filling /\ kind = "session" /\ s.val = 1 /\ row = 0 /\ ended[1] = Never
  /\ s.op = "logout" /\ s.step # "done" => s.step \in Dropping /\ kind = "session" /\ row = 1
  /\ s.step \in Filling => s.val \in Version
  /\ s.step # "done" => ops > 0
Started ==
  /\ \A c \in Calls : Phase(calls[c])
  /\ \A c, d \in Calls : \A o \in {"login", "logout"} :
       calls[c].op = o /\ calls[d].op = o /\ ~IsFree(c) /\ ~IsFree(d) => c = d
  /\ kind = "session" /\ ops = 0 => row = 0 /\ ended[1] = Never
(* A process knows of no change that was not made, nor of a logout before it. *)
Knows ==
  /\ kind = "key" => \A p \in Procs : known[p] = 1
  /\ kind = "list" => \A p \in Procs : known[p] <= row
  /\ kind = "session" /\ ended[1] = Never => \A p \in Procs : known[p] = 1
(* A question to Redis is asked for a request; a list is never read from there. *)
Waits ==
  /\ kind = "list" => \A p \in Procs : flight[p] \notin Version
  /\ \A p \in Procs : flight[p] # Idle =>
       \E c \in Calls : calls[c].op = "read" /\ calls[c].step = "wait" /\ calls[c].at = p
Phases == Started /\ Knows /\ Waits

(* A session that Redis has is one that has not ended. *)
Session ==
  /\ kind = "session" => redis \in {"up", "down"}
  /\ kind = "session" /\ l2.val \in Version => l2.val = 1 /\ ended[1] = Never

(* Nothing is in a cache, or on its way there, for longer than it may be. *)
FreshCall(s) ==
  /\ s.step \in Filling => now <= ended[s.val]
  /\ s.op = "read" /\ s.step = "done" /\ s.val # 0 => s.when < ended[s.val] + Grace + L1TTL
Fresh ==
  /\ \A p \in Procs : l1[p].val \in Version => l1[p].until <= ended[l1[p].val] + Grace + L1TTL
  /\ kind = "key" /\ l2.val \in Version => l2.until <= ended[l2.val] + KeyTTL
  /\ \A p \in Procs : flight[p] \in Version => now <= ended[flight[p]] + Grace
  /\ \A c \in Calls : FreshCall(calls[c])

(* A process keeps nothing older than its own changes, and knows it while it reads. *)
OwnCall(s) ==
  /\ s.op # "none" => s.since <= known[s.at]
  /\ s.step \in Filling => known[s.at] <= s.val
  /\ s.op = "read" /\ s.step = "done" /\ s.val # 0 => s.since <= s.val
  /\ s.step = "del2" => l1[s.at] = Absent
Own ==
  /\ ~Overlapping
  /\ \A p \in Procs : l1[p].val \in Version => known[p] <= l1[p].val
  /\ \A p \in Procs : flight[p] \in Version => known[p] <= flight[p]
  /\ \A c \in Calls : OwnCall(calls[c])

(* The last requests let through are those of the window that is renewed, and it has counted     *)
(* them; the others came a window ago.                                                           *)
Metered ==
  /\ passed \in Seq(Int) /\ rate \in [val : Nat, until : Int]
  /\ \A i \in DOMAIN passed : passed[i] <= now /\ passed[i] + Window <= rate.until
  /\ \E n \in Nat : n <= rate.val /\ \A i \in 1..(Len(passed) - n) : passed[i] + Window <= now
  /\ \A i \in DOMAIN passed : i + Limit \in DOMAIN passed => passed[i] + Window <= passed[i + Limit]

TInv == Typed /\ Ends /\ Phases
RecentInv == TInv /\ (outage \/ Session) /\ (slow \/ outage \/ Fresh)
OwnInv == TInv /\ (outage \/ Session) /\ (overlap \/ outage \/ Own)
RateInv == TInv /\ (redis = "none" \/ outage \/ Metered)
IInv == RecentInv /\ OwnInv /\ RateInv

-----------------------------------------------------------------------------
(* Only one call changes, and those that were answered are gone. *)
Rest(D) == \A d \in D : calls'[d] = IF IsFree(d) THEN Free ELSE calls[d]
Only(c, s) == calls' \in [Calls -> Slots] /\ calls'[c] = s /\ Rest(Calls \ {c})

(* A free call is one of the slots. *)
LEMMA FreeIsSlot == Parameters => Free \in Slots /\ Free.step = "done" /\ Free.op = "none"
BY DEF Free, Slots, Ops, Steps, Parameters

(* What a request that begins puts in its slot. *)
LEMMA OpenIs ==
  ASSUME Parameters, Typed
  PROVE  /\ Open \in [Calls -> Slots]
         /\ \A d \in Calls : Open[d] = IF IsFree(d) THEN Free ELSE calls[d]
<1>1. calls \in [Calls -> Slots] /\ Free \in Slots
  BY FreeIsSlot DEF Typed
<1>2. QED
  BY <1>1 DEF Open

(* No call changes. *)
LEMMA Quiet ==
  ASSUME Parameters, Typed, calls' = Open
  PROVE  calls' \in [Calls -> Slots] /\ Rest(Calls)
BY OpenIs DEF Rest

(* A call takes a slot. *)
LEMMA Begun ==
  ASSUME Parameters, Typed, NEW c \in Calls, NEW o \in Ops, NEW p \in Procs, NEW s \in Steps,
         NEW v \in Version \cup {None, 0}, Begin(c, o, p, s, v)
  PROVE  Only(c, [op |-> o, at |-> p, step |-> s, val |-> v, since |-> known[p], when |-> now])
<1> DEFINE new == [op |-> o, at |-> p, step |-> s, val |-> v, since |-> known[p], when |-> now]
<1>1. new \in Slots
  <2>1. known[p] \in Int /\ now \in Int
    BY DEF Typed, Version, Parameters
  <2>2. QED
    BY <2>1 DEF Slots
<1>2. calls' = [Open EXCEPT ![c] = new]
  BY DEF Begin
<1> HIDE DEF new
<1>3. Only(c, new)
  BY <1>1, <1>2, OpenIs DEF Only, Rest
<1>4. QED
  BY <1>3 DEF new

Moved(r, s, v, w) == [r EXCEPT !.step = s, !.val = v, !.when = w]
(* A request that goes on to its next step keeps who asked and where. *)
LEMMA MovedIs ==
  ASSUME NEW r \in Slots, NEW s, NEW v, NEW w
  PROVE  Moved(r, s, v, w) =
           [op |-> r.op, at |-> r.at, step |-> s, val |-> v, since |-> r.since, when |-> w]
<1>1. r = [f \in {"op", "at", "step", "val", "since", "when"} |-> r[f]]
  BY DEF Slots
<1> DEFINE new == [op |-> r.op, at |-> r.at, step |-> s, val |-> v, since |-> r.since, when |-> w]
           old == Moved(r, s, v, w)
<1>2. /\ DOMAIN old = {"op", "at", "step", "val", "since", "when"}
      /\ old.op = r.op /\ old.at = r.at /\ old.step = s /\ old.val = v /\ old.since = r.since
      /\ old.when = w
  BY <1>1 DEF Moved
<1>3. old = [f \in DOMAIN old |-> old[f]]
  BY <1>1 DEF Moved
<1> HIDE DEF old
<1>4. old = new
  BY <1>2, <1>3
<1>5. QED
  BY <1>4 DEF old

(* A call goes on to its next step. *)
LEMMA GoneTo ==
  ASSUME Parameters, Typed, NEW c \in Calls, ~IsFree(c), NEW s \in Steps,
         NEW v \in Version \cup {None, 0}, Goto(c, s, v)
  PROVE  Only(c, [op |-> calls[c].op, at |-> calls[c].at, step |-> s, val |-> v,
                  since |-> calls[c].since, when |-> now])
<1> DEFINE new == [op |-> calls[c].op, at |-> calls[c].at, step |-> s, val |-> v,
                   since |-> calls[c].since, when |-> now]
<1>1. calls[c] \in Slots /\ now \in Int
  BY DEF Typed, Parameters
<1>2. new \in Slots
  BY <1>1 DEF Slots
<1>3. Moved(calls[c], s, v, now) = new
  BY <1>1, MovedIs
<1>4. calls' = [Open EXCEPT ![c] = Moved(calls[c], s, v, now)]
  BY OpenIs DEF Goto, Moved
<1> HIDE DEF new
<1>5. Only(c, new)
  BY <1>2, <1>3, <1>4, OpenIs DEF Only, Rest
<1>6. QED
  BY <1>5 DEF new

(* The larger of two times. *)
LEMMA MaxOfTwo ==
  ASSUME NEW a \in Int, NEW b \in Int
  PROVE  Max({a, b}) \in {a, b} /\ Max({a, b}) >= a /\ Max({a, b}) >= b
<1>1. \E m \in {a, b} : \A n \in {a, b} : m >= n
  BY DEF Max
<1>2. Max({a, b}) \in {a, b} /\ \A n \in {a, b} : Max({a, b}) >= n
  BY <1>1 DEF Max
<1>3. QED
  BY <1>2

(* What is in a cache and has not run out is a version. *)
LEMMA GetIs ==
  ASSUME Parameters, Typed, NEW e \in Entries
  PROVE  Get(e) \in Version \cup {None} /\ (Get(e) # None => Get(e) = e.val /\ now < e.until)
BY DEF Get, Entries, Parameters, Version

(* Times are numbers, and no version is the absence of one. *)
LEMMA Constants ==
  ASSUME Parameters, Typed
  PROVE  /\ Version \subseteq Int /\ 0 \notin Version /\ None \notin Version /\ 1 \in Version
         /\ TTL \in Nat /\ L1TTL \in Nat /\ Grace \in Nat /\ Never \in Nat /\ now \in Nat
         /\ Absent \in Entries /\ Absent.val = None /\ Absent.until = 0
         /\ now < Never /\ now + L1TTL < Never /\ row \in Nat
BY DEF Parameters, Typed, Version, TTL, Grace, Never, Absent, Entries

(* Every action with the types of what it assigns. *)
LEMMA FlightEndCalls ==
  ASSUME Parameters, TInv, NEW p \in Procs, FlightEnd(p)
  PROVE  LET hit == flight[p] \in Version
             step == IF hit \/ kind = "session" THEN "done" ELSE "row"
             val == IF hit THEN flight[p] ELSE 0
         IN /\ calls' \in [Calls -> Slots]
            /\ \A d \in Calls :
                 IF calls[d].at = p /\ calls[d].step = "wait"
                 THEN calls'[d] = [op |-> calls[d].op, at |-> p, step |-> step, val |-> val,
                                   since |-> calls[d].since, when |-> now]
                 ELSE calls'[d] = IF IsFree(d) THEN Free ELSE calls[d]
            /\ l1' = IF hit THEN [l1 EXCEPT ![p] = [val |-> val, until |-> now + L1TTL]] ELSE l1
<1> DEFINE hit == flight[p] \in Version
           step == IF hit \/ kind = "session" THEN "done" ELSE "row"
           val == IF hit THEN flight[p] ELSE 0
           new(d) == [op |-> calls[d].op, at |-> p, step |-> step, val |-> val,
                      since |-> calls[d].since, when |-> now]
<1>1. Typed
  BY DEF TInv
<1>2. hit <=> flight[p] \notin {None, Failed}
  <2>1. flight[p] \in {Idle, Asked, Failed, None} \cup Version /\ flight[p] \notin {Idle, Asked}
    BY <1>1 DEF Typed, FlightEnd
  <2>2. Failed \notin Version /\ None \notin Version
    BY <1>1, Constants DEF Failed, Version, Parameters
  <2>3. QED
    BY <2>1, <2>2
<1>3. calls' = [d \in Calls |-> IF calls[d].at = p /\ calls[d].step = "wait"
                                THEN Moved(calls[d], step, val, now) ELSE Open[d]]
  BY <1>2, Zenon DEF FlightEnd, Moved
<1>4. step \in Steps /\ val \in Version \cup {None, 0} /\ now \in Int
  BY <1>1, Constants DEF Steps
<1> HIDE DEF step, val
<1>5. \A d \in Calls : calls[d].at = p => Moved(calls[d], step, val, now) = new(d)
  BY <1>1, MovedIs DEF Typed
<1>6. \A d \in Calls : calls[d].at = p => new(d) \in Slots
  BY <1>1, <1>4 DEF Typed, Slots
<1>7. calls' \in [Calls -> Slots]
  BY <1>1, <1>3, <1>5, <1>6, OpenIs
<1>8. \A d \in Calls :
        IF calls[d].at = p /\ calls[d].step = "wait"
        THEN calls'[d] = new(d)
        ELSE calls'[d] = IF IsFree(d) THEN Free ELSE calls[d]
  BY <1>1, <1>3, <1>5, OpenIs
<1>9. l1' = IF hit THEN [l1 EXCEPT ![p] = [val |-> val, until |-> now + L1TTL]] ELSE l1
  BY <1>2 DEF FlightEnd, val
<1>10. QED
  BY <1>7, <1>8, <1>9 DEF step, val

(* What a call in progress is, from its step. *)
LEMMA CallIs ==
  ASSUME Parameters, TInv, NEW c \in Calls
  PROVE  /\ calls[c] \in Slots /\ calls[c].op \in Ops /\ calls[c].step \in Steps
         /\ calls[c].val \in Version \cup {None, 0}
         /\ ~IsFree(c) => calls[c].at \in Procs
         /\ calls[c].step \in Filling => calls[c].val \in Version
         /\ calls[c].step \in Dropping => /\ calls[c].op \in {"change", "logout"}
                                          /\ calls[c].op = "change" => calls[c].val \in 1..row
<1>1. calls[c] \in Slots /\ Phase(calls[c])
  BY DEF TInv, Typed, Phases, Started
<1>2. QED
  BY <1>1 DEF Slots, Phase, IsFree, Ops, Dropping, Filling

(* Every step keeps the types. *)
LEMMA StepTyped ==
  ASSUME Parameters, TInv, Step
  PROVE  Typed'
<1>0. Typed
  BY DEF TInv
<1>1. ASSUME NEW c \in Calls, NEW p \in Procs, StartRead(c, p) PROVE Typed'
  <2>1. CASE Get(l1[p]) # None
    <3>1. l1[p] \in Entries /\ l1[p].val \in Version
      BY <1>0, <2>1, GetIs DEF Typed
    <3>2. Only(c, [op |-> "read", at |-> p, step |-> "done", val |-> l1[p].val,
                   since |-> known[p], when |-> now])
      BY <1>0, <1>1, <2>1, <3>1, Begun DEF StartRead, Ops, Steps
    <3>3. QED
      BY <1>0, <1>1, <2>1, <3>2 DEF StartRead, Typed, Only, facts, Op
  <2>2. CASE Get(l1[p]) = None
    <3>1. Only(c, [op |-> "read", at |-> p, step |-> "wait", val |-> None,
                   since |-> known[p], when |-> now])
      BY <1>0, <1>1, <2>2, Begun DEF StartRead, Ops, Steps
    <3>2. flight' = [flight EXCEPT ![p] = IF @ = Idle THEN Asked ELSE @]
      BY <1>1, <2>2 DEF StartRead
    <3>3. QED
      BY <1>0, <1>1, <2>2, <3>1, <3>2 DEF StartRead, Typed, Only, facts, Op
  <2>3. QED
    BY <2>1, <2>2
<1>2. ASSUME NEW p \in Procs, FlightRead(p) PROVE Typed'
  <2>1. Get(l2) \in Version \cup {None}
    BY <1>0, GetIs DEF Typed
  <2>2. flight' \in [Procs -> {Idle, Asked, Failed, None} \cup Version]
    BY <1>0, <1>2, <2>1 DEF FlightRead, Typed
  <2>3. QED
    BY <1>0, <1>2, <2>2, Quiet DEF FlightRead, Typed, facts
<1>3. ASSUME NEW p \in Procs, FlightEnd(p) PROVE Typed'
  <2>1. calls' \in [Calls -> Slots] /\ l1' \in [Procs -> Entries]
    BY <1>0, <1>3, FlightEndCalls, Constants DEF Typed, Entries
  <2>2. flight' \in [Procs -> {Idle, Asked, Failed, None} \cup Version]
    BY <1>0, <1>3 DEF FlightEnd, Typed
  <2>3. QED
    BY <1>0, <1>3, <2>1, <2>2 DEF FlightEnd, Typed, facts
<1>4. ASSUME NEW c \in Calls, ReadRow(c) PROVE Typed'
  <2>1. row \in Version \cup {0}
    BY <1>0 DEF Typed, Parameters, Version
  <2>2. calls' \in [Calls -> Slots]
    BY <1>0, <1>4, <2>1, GoneTo DEF ReadRow, IsFree, Steps, Filling, Only
  <2>3. QED
    BY <1>0, <1>4, <2>2 DEF ReadRow, Typed, facts, tiers
<1>5. ASSUME NEW c \in Calls, SetL1(c) PROVE Typed'
  <2>1. calls[c].val \in Version /\ calls[c].at \in Procs /\ ~IsFree(c)
    BY <1>5, CallIs DEF SetL1, Filling, IsFree
  <2>2. calls' \in [Calls -> Slots]
    BY <1>0, <1>5, <2>1, GoneTo DEF SetL1, Steps, Filling, Only
  <2>3. l1' \in [Procs -> Entries]
    BY <1>0, <1>5, <2>1, Constants DEF SetL1, Typed, Entries
  <2>4. QED
    BY <1>0, <1>5, <2>2, <2>3 DEF SetL1, Typed, facts
<1>6. ASSUME NEW c \in Calls, SetL2(c) PROVE Typed'
  <2>1. calls[c].val \in Version /\ ~IsFree(c)
    BY <1>6, CallIs DEF SetL2, Filling, IsFree
  <2>2. calls' \in [Calls -> Slots]
    BY <1>0, <1>6, <2>1, GoneTo DEF SetL2, Steps, Only
  <2>3. l2' \in Entries
    BY <1>0, <1>6, <2>1, Constants DEF SetL2, Typed, Entries
  <2>4. row' = row \/ (row' = 1 /\ kind = "session")
    <3>1. Phase(calls[c])
      BY DEF TInv, Phases, Started
    <3>2. QED
      BY <1>6, <3>1 DEF SetL2, Phase
  <2>5. row' \in 0..MaxVersion /\ (kind \in {"key", "session"} => row' \in {0, 1})
    BY <1>0, <2>4 DEF Typed, Parameters
  <2>6. QED
    BY <1>0, <1>6, <2>2, <2>3, <2>5 DEF SetL2, Typed
<1>7. ASSUME NEW c \in Calls, NEW p \in Procs, Login(c, p) PROVE Typed'
  <2>1. calls' \in [Calls -> Slots]
    BY <1>0, <1>7, Begun, Constants DEF Login, Ops, Steps, Filling, Only
  <2>2. QED
    BY <1>0, <1>7, <2>1 DEF Login, Typed, facts, tiers, Op
<1>8. ASSUME NEW c \in Calls, NEW p \in Procs, Logout(c, p) PROVE Typed'
  <2>1. calls' \in [Calls -> Slots]
    BY <1>0, <1>8, Begun, Constants DEF Logout, Ops, Steps, Dropping, Only
  <2>2. QED
    BY <1>0, <1>8, <2>1 DEF Logout, Typed, facts, tiers, Op
<1>9. ASSUME NEW c \in Calls, NEW p \in Procs, ChangeList(c, p) PROVE Typed'
  <2>1. row + 1 \in Version /\ row + 1 \in 0..MaxVersion
    BY <1>0, <1>9 DEF ChangeList, Typed, Parameters, Version
  <2>2. calls' \in [Calls -> Slots]
    BY <1>0, <1>9, <2>1, Begun DEF ChangeList, Ops, Steps, Dropping, Only
  <2>3. ended' \in [Version -> 0..Never]
    <3>1. now \in 0..Never /\ ended \in [Version -> 0..Never] /\ ended' = [ended EXCEPT ![row] = now]
      BY <1>0, <1>9, Constants DEF ChangeList, Typed
    <3>2. QED
      BY <3>1
  <2>4. QED
    BY <1>0, <1>9, <2>1, <2>2, <2>3 DEF ChangeList, Typed, tiers, Op
<1>10. ASSUME RevokeAPIKey PROVE Typed'
  <2>1. ended' \in [Version -> 0..Never]
    BY <1>0, <1>10, Constants DEF RevokeAPIKey, Typed
  <2>2. QED
    <3>1. calls' \in [Calls -> Slots] /\ row' = 0 /\ ops' \in Nat /\ 0 \in 0..MaxVersion
      BY <1>0, <1>10, Quiet, Constants DEF RevokeAPIKey, Typed, Op, Parameters
    <3>2. QED
      BY <1>0, <1>10, <2>1, <3>1 DEF RevokeAPIKey, Typed, tiers
<1>11. ASSUME NEW c \in Calls, DelL1(c) PROVE Typed'
  <2>1. calls[c].val \in Version \cup {None, 0} /\ calls[c].at \in Procs /\ ~IsFree(c)
    BY <1>11, CallIs DEF DelL1, IsFree
  <2>2. calls' \in [Calls -> Slots]
    BY <1>0, <1>11, <2>1, GoneTo DEF DelL1, Steps, Dropping, Only
  <2>3. l1' \in [Procs -> Entries]
    BY <1>0, <1>11, <2>1, Constants DEF DelL1, Typed
  <2>4. QED
    BY <1>0, <1>11, <2>2, <2>3 DEF DelL1, Typed, facts
<1>12. ASSUME NEW c \in Calls, DelL2(c) PROVE Typed'
  <2>1. /\ calls[c].val \in Version \cup {None, 0} /\ calls[c].at \in Procs /\ ~IsFree(c)
        /\ calls[c].op \in {"change", "logout"}
        /\ calls[c].op = "change" => calls[c].val \in 1..row
    BY <1>12, CallIs DEF DelL2, IsFree, Dropping
  <2>2. calls' \in [Calls -> Slots]
    BY <1>0, <1>12, <2>1, GoneTo DEF DelL2, Steps, Only
  <2>3. l2' \in Entries
    BY <1>0, <1>12, Constants DEF DelL2, Typed
  <2>4. ended' \in [Version -> 0..Never]
    BY <1>0, <1>12, Constants DEF DelL2, Typed
  <2>5. row' \in 0..MaxVersion /\ (kind \in {"key", "session"} => row' \in {0, 1})
    BY <1>0, <1>12 DEF DelL2, Typed, Parameters
  <2>6. known' \in [Procs -> Version \cup {2}]
    <3> DEFINE new == IF calls[c].op = "logout" THEN 2 ELSE calls[c].val
               p == calls[c].at
    <3>1. new \in Version \cup {2} /\ known[p] \in Version \cup {2}
      <4>1. row \in 0..MaxVersion /\ MaxVersion \in Nat /\ known[p] \in Version \cup {2}
        BY <1>0, <2>1 DEF Typed, Parameters
      <4>2. calls[c].op = "change" => calls[c].val \in Version
        BY <2>1, <4>1 DEF Version
      <4>3. QED
        BY <2>1, <4>1, <4>2
    <3>2. known' = [known EXCEPT ![p] = Max({known[p], new})]
      BY <1>12 DEF DelL2
    <3> HIDE DEF new
    <3>3. Max({known[p], new}) \in {known[p], new}
      <4>1. new \in Int /\ known[p] \in Int
        BY <1>0, <3>1, Constants
      <4>2. QED
        BY <4>1, MaxOfTwo
    <3>4. QED
      BY <1>0, <2>1, <3>1, <3>2, <3>3 DEF Typed
  <2>7. QED
    BY <1>0, <1>12, <2>2, <2>3, <2>4, <2>5, <2>6 DEF DelL2, Typed
<1>13. ASSUME IncrRateLimit PROVE Typed'
  BY <1>0, <1>13, Quiet DEF IncrRateLimit, Typed, tiers, Op
<1>14. ASSUME NEW p \in Procs, Restart(p) PROVE Typed'
  <2>1. calls' \in [Calls -> Slots]
    BY <1>0, <1>14, OpenIs, FreeIsSlot DEF Restart
  <2>2. l1' \in [Procs -> Entries] /\ flight' \in [Procs -> {Idle, Asked, Failed, None} \cup Version]
    BY <1>0, <1>14, Constants DEF Restart, Typed
  <2>3. QED
    BY <1>0, <1>14, <2>1, <2>2 DEF Restart, Typed, facts, Op
<1>15. ASSUME RedisFails \/ RedisReturns PROVE Typed'
  BY <1>0, <1>15, Quiet DEF RedisFails, RedisReturns, Typed, tiers, facts, Op
<1>16. ASSUME Tick PROVE Typed'
  <2>1. now' \in 0..MaxNow
    BY <1>0, <1>16 DEF Tick, Typed, Parameters
  <2>2. QED
    BY <1>0, <1>16, <2>1, Quiet DEF Tick, Typed, tiers, facts
<1>17. QED
  BY <1>1, <1>2, <1>3, <1>4, <1>5, <1>6, <1>7, <1>8, <1>9, <1>10, <1>11, <1>12, <1>13, <1>14,
     <1>15, <1>16 DEF Step

-----------------------------------------------------------------------------
(* Entries that are new in a cache live as long as the tier says. *)
LEMMA L1Lives ==
  ASSUME Parameters, TInv, Step, NEW p \in Procs
  PROVE  l1'[p] = l1[p] \/ l1'[p].until <= now + L1TTL
<1>0. Typed
  BY DEF TInv
<1>1. ASSUME NEW c \in Calls, NEW q \in Procs, StartRead(c, q) PROVE l1' = l1
  BY <1>1 DEF StartRead
<1>2. ASSUME NEW q \in Procs, FlightEnd(q) PROVE l1'[p] = l1[p] \/ l1'[p].until <= now + L1TTL
  BY <1>0, <1>2, FlightEndCalls, Constants DEF Typed
<1>3. ASSUME NEW c \in Calls, SetL1(c) PROVE l1'[p] = l1[p] \/ l1'[p].until <= now + L1TTL
  BY <1>0, <1>3, Constants DEF SetL1, Typed
<1>4. ASSUME NEW c \in Calls, DelL1(c) PROVE l1'[p] = l1[p] \/ l1'[p].until <= now + L1TTL
  BY <1>0, <1>4, Constants DEF DelL1, Typed
<1>5. ASSUME NEW q \in Procs, Restart(q) PROVE l1'[p] = l1[p] \/ l1'[p].until <= now + L1TTL
  BY <1>0, <1>5, Constants DEF Restart, Typed
<1>6. QED
  BY <1>1, <1>2, <1>3, <1>4, <1>5
  DEF Step, FlightRead, ReadRow, SetL2, Login, Logout, ChangeList, RevokeAPIKey, DelL2,
      IncrRateLimit, RedisFails, RedisReturns, Tick, tiers

(* An entry that is new in Redis lives as long as Set2 says (cache.go, Set). *)
LEMMA L2Lives ==
  ASSUME Parameters, TInv, Step
  PROVE  l2' = l2 \/ l2'.until <= now + TTL
<1>1. ASSUME NEW c \in Calls, SetL2(c) PROVE l2' = l2 \/ l2'.until <= now + TTL
  BY <1>1, Constants DEF SetL2, TInv
<1>2. ASSUME NEW c \in Calls, DelL2(c) PROVE l2' = l2 \/ l2'.until <= now + TTL
  BY <1>2, Constants DEF DelL2, TInv
<1>3. QED
  BY <1>1, <1>2
  DEF Step, StartRead, FlightRead, FlightEnd, ReadRow, SetL1, Login, Logout, ChangeList,
      RevokeAPIKey, DelL1, IncrRateLimit, Restart, RedisFails, RedisReturns, Tick, tiers

(* What the cache is used for never changes. *)
LEMMA KindStays ==
  ASSUME Parameters, TInv, Step
  PROVE  kind' = kind /\ now' >= now
<1>1. kind' = kind
  BY DEF Step, StartRead, FlightRead, FlightEnd, ReadRow, SetL1, SetL2, Login, Logout, ChangeList,
         RevokeAPIKey, DelL1, DelL2, IncrRateLimit, Restart, RedisFails, RedisReturns, Tick,
         tiers, facts
<1>2. now' = now \/ now' = now + 1
  BY DEF Step, StartRead, FlightRead, FlightEnd, ReadRow, SetL1, SetL2, Login, Logout, ChangeList,
         RevokeAPIKey, DelL1, DelL2, IncrRateLimit, Restart, RedisFails, RedisReturns, Tick
<1>3. QED
  BY <1>1, <1>2, Constants DEF TInv

(* A version ends now or has ended already, the current one has not. *)
LEMMA StepEnds ==
  ASSUME Parameters, TInv, Step
  PROVE  Ends'
<1>0. Typed /\ Typed' /\ Ends /\ kind' = kind
  BY StepTyped, KindStays DEF TInv
<1> USE <1>0
<1>1. now' >= now /\ now' \in Nat
  BY Constants, KindStays DEF Typed, Parameters
<1>2. \A p \in Procs : l1'[p].until <= now' + Grace + L1TTL
  <2>1. ASSUME NEW p \in Procs PROVE l1'[p].until <= now' + Grace + L1TTL
    <3>1. l1[p].until \in Int /\ l1'[p].until \in Int /\ l1[p].until <= now + Grace + L1TTL
      BY DEF Typed, Ends, Entries
    <3>2. QED
      BY <3>1, <1>1, L1Lives, Constants
  <2>2. QED
    BY <2>1
<1>3. kind = "key" => l2'.until <= now' + KeyTTL
  <2>1. l2'.until \in Int /\ l2.until \in Int /\ KeyTTL \in Nat /\ (kind = "key" => TTL = KeyTTL)
    BY DEF Typed, Entries, Parameters, TTL
  <2>2. QED
    BY <2>1, <1>1, L2Lives, Constants DEF Ends
<1>4. Grace' = Grace
  BY DEF Grace
<1> DEFINE Facts == /\ \A v \in Version : ended[v] # Never => ended[v] <= now
                    /\ row # 0 => ended[row] = Never
                    /\ kind = "list" => row # 0 /\ \A v \in Version : row <= v => ended[v] = Never
<1>5. Facts
  BY DEF Ends
<1>6. Facts'
  <2>1. CASE row' = row /\ ended' = ended
    <3>1. \A v \in Version : ended[v] # Never => ended[v] <= now'
      BY <1>1, <1>5, Constants DEF Typed
    <3>2. QED
      BY <1>5, <2>1, <3>1
  <2>2. ASSUME NEW c \in Calls, SetL2(c) PROVE Facts'
    <3>1. CASE row' = row
      BY <2>1, <2>2, <3>1 DEF SetL2
    <3>2. CASE row' # row
      <4>1. Phase(calls[c])
        BY DEF TInv, Phases, Started
      <4>2. row' = 1 /\ ended' = ended /\ ended[1] = Never /\ kind = "session" /\ now' = now
        BY <2>2, <3>2, <4>1 DEF SetL2, Phase, Filling
      <4>3. QED
        BY <1>5, <4>2
    <3>3. QED
      BY <3>1, <3>2
  <2>3. ASSUME NEW c \in Calls, NEW p \in Procs, ChangeList(c, p) PROVE Facts'
    <3>1. /\ kind = "list" /\ row' = row + 1 /\ ended' = [ended EXCEPT ![row] = now] /\ now' = now
          /\ row \in Nat /\ row < MaxVersion
      BY <2>3, Constants DEF ChangeList
    <3>2. \A v \in Version : ended'[v] = IF v = row THEN now ELSE ended[v]
      BY <3>1 DEF Typed
    <3>3. row' \in Version /\ row' # 0
      BY <3>1 DEF Version, Parameters
    <3>4. \A v \in Version : row' <= v => ended'[v] = Never
      BY <1>5, <3>1, <3>2, Constants
    <3>5. \A v \in Version : ended'[v] # Never => ended'[v] <= now'
      BY <1>5, <3>1, <3>2, Constants
    <3>6. ended'[row'] = Never
      BY <3>1, <3>3, <3>4
    <3>7. QED
      BY <3>1, <3>3, <3>4, <3>5, <3>6
  <2>4. ASSUME RevokeAPIKey PROVE Facts'
    <3>1. kind = "key" /\ row' = 0 /\ ended' = [ended EXCEPT ![1] = now] /\ now' = now
      BY <2>4 DEF RevokeAPIKey
    <3>2. \A v \in Version : ended'[v] = IF v = 1 THEN now ELSE ended[v]
      BY <3>1 DEF Typed
    <3>3. QED
      BY <1>5, <3>1, <3>2, Constants
  <2>5. ASSUME NEW c \in Calls, DelL2(c) PROVE Facts'
    <3>1. CASE calls[c].op # "logout"
      BY <2>1, <2>5, <3>1 DEF DelL2
    <3>2. CASE calls[c].op = "logout"
      <4>1. Phase(calls[c])
        BY DEF TInv, Phases, Started
      <4>2. kind = "session" /\ row' = 0 /\ ended' = [ended EXCEPT ![1] = now] /\ now' = now
        BY <2>5, <3>2, <4>1 DEF DelL2, Phase
      <4>3. \A v \in Version : ended'[v] = IF v = 1 THEN now ELSE ended[v]
        BY <4>2 DEF Typed
      <4>4. QED
        BY <1>5, <4>2, <4>3, Constants
    <3>3. QED
      BY <3>1, <3>2
  <2>6. QED
    BY <2>1, <2>2, <2>3, <2>4, <2>5
    DEF Step, StartRead, FlightRead, FlightEnd, ReadRow, SetL1, Login, Logout, DelL1,
        IncrRateLimit, Restart, RedisFails, RedisReturns, Tick, tiers, facts
<1>7. Never' = Never
  BY DEF Never
<1>8. QED
  BY <1>2, <1>3, <1>4, <1>6, <1>7 DEF Ends

-----------------------------------------------------------------------------
(* What leaves the phases of the other calls true. *)
Steady ==
  /\ kind' = kind /\ ops' \in Nat /\ ops' >= ops
  /\ kind = "list" => row' >= row
  /\ kind = "session" => row' = row /\ ended'[1] = ended[1]

(* A request that does not move keeps its phase. *)
LEMMA StillPhase ==
  ASSUME Parameters, TInv, Typed', Steady, NEW d \in Calls,
         calls'[d] = Free \/ calls'[d] = calls[d]
  PROVE  Phase(calls[d])'
<1>1. CASE calls'[d] = Free
  BY <1>1, FreeIsSlot DEF Phase, Dropping, Filling
<1>2. CASE calls'[d] = calls[d]
  <2>1. Phase(calls[d]) /\ ops \in Nat /\ row \in Nat /\ row' \in Nat /\ calls[d] \in Slots
    BY DEF TInv, Phases, Started, Typed, Parameters
  <2>2. calls'[d].op = "change" /\ calls'[d].step # "done" => calls'[d].val \in 1..row'
    BY <1>2, <2>1 DEF Phase, Steady
  <2>3. QED
    BY <1>2, <2>1, <2>2 DEF Phase, Steady
<1>3. QED
  BY <1>1, <1>2

(* Only one call changes, and neither begins nor ends a session. *)
LEMMA OnlyStarted ==
  ASSUME Parameters, TInv, Typed', Steady, NEW c \in Calls, NEW s \in Slots, Only(c, s),
         Phase(calls[c])',
         s.op \in {"login", "logout"} /\ s.step # "done" =>
           \/ calls[c].op = s.op /\ ~IsFree(c)
           \/ \A d \in Calls : calls[d].op = s.op => IsFree(d)
  PROVE  Started'
<1>1. \A d \in Calls : Phase(calls[d])'
  BY StillPhase DEF Only, Rest
<1>2. ASSUME NEW d \in Calls, NEW e \in Calls, NEW o \in {"login", "logout"},
             calls'[d].op = o, calls'[e].op = o, ~IsFree(d)', ~IsFree(e)'
      PROVE  d = e
  <2>1. \A f \in Calls \ {c} : calls'[f].op = o /\ ~IsFree(f)' => calls[f].op = o /\ ~IsFree(f)
    BY FreeIsSlot DEF Only, Rest, IsFree
  <2>2. calls'[c].op = o /\ ~IsFree(c)' =>
          \/ calls[c].op = o /\ ~IsFree(c)
          \/ \A f \in Calls : calls[f].op = o => IsFree(f)
    BY DEF Only, IsFree
  <2>3. \A f, g \in Calls : calls[f].op = o /\ calls[g].op = o /\ ~IsFree(f) /\ ~IsFree(g) => f = g
    BY DEF TInv, Phases, Started
  <2>4. QED
    BY <1>2, <2>1, <2>2, <2>3
<1>3. kind' = "session" /\ ops' = 0 => row' = 0 /\ ended'[1] = Never
  BY DEF TInv, Typed, Phases, Started, Steady
<1>4. Never' = Never
  BY DEF Never
<1>5. QED
  BY <1>1, <1>2, <1>3, <1>4 DEF Started

(* A call ends, and with it at most the one login or logout. *)
LEMMA FewerStarted ==
  ASSUME Parameters, TInv, Typed', Steady,
         \A d \in Calls : calls'[d] = Free \/ (calls'[d] = calls[d] /\ ~IsFree(d))
  PROVE  Started'
<1>1. \A d \in Calls : Phase(calls[d])'
  BY StillPhase
<1>2. \A d \in Calls : \A o \in {"login", "logout"} :
        calls'[d].op = o /\ ~IsFree(d)' => calls[d].op = o /\ ~IsFree(d)
  BY FreeIsSlot DEF IsFree
<1>3. \A d, e \in Calls : \A o \in {"login", "logout"} :
        calls[d].op = o /\ calls[e].op = o /\ ~IsFree(d) /\ ~IsFree(e) => d = e
  BY DEF TInv, Phases, Started
<1>4. kind' = "session" /\ ops' = 0 => row' = 0 /\ ended'[1] = Never
  BY DEF TInv, Typed, Phases, Started, Steady
<1>5. Never' = Never
  BY DEF Never
<1>6. QED
  BY <1>1, <1>2, <1>3, <1>4, <1>5 DEF Started

(* No call moves: those in progress keep their phases. *)
LEMMA RestStarted ==
  ASSUME Parameters, TInv, Typed', Steady, Rest(Calls)
  PROVE  Started'
<1>1. \A d \in Calls : calls'[d] = Free \/ (calls'[d] = calls[d] /\ ~IsFree(d))
  BY DEF Rest
<1>2. QED
  BY <1>1, FewerStarted

(* The one login, or the one logout, of a session is answered. *)
LEMMA LastStarted ==
  ASSUME Parameters, TInv, Typed', kind = "session", kind' = kind, ops' = ops,
         NEW c \in Calls, NEW s \in Slots, Only(c, s), s.op = calls[c].op, s.step = "done",
         s.at \in Procs, calls[c].op \in {"login", "logout"}, ~IsFree(c)
  PROVE  Started'
<1>1. \A d \in Calls : Phase(calls[d]) /\ calls[d] \in Slots
  BY DEF TInv, Phases, Started, Typed
<1>2. ASSUME NEW d \in Calls \ {c}, ~IsFree(d) PROVE calls[d].op = "read"
  <2>1. calls[d].op # calls[c].op
    BY <1>2 DEF TInv, Phases, Started
  <2>2. calls[d].op \notin {"login", "logout"}
    BY <1>1, <1>2, <2>1 DEF Phase, IsFree
  <2>3. QED
    BY <1>1, <1>2, <2>2 DEF Phase, IsFree, Slots, Ops
<1>3. \A d \in Calls \ {c} : calls'[d] = Free \/ (calls'[d] = calls[d] /\ calls[d].op = "read")
  BY <1>2 DEF Only, Rest
<1>4. ops > 0
  BY <1>1 DEF Phase, IsFree
<1>5. calls'[c] = s /\ Phase(calls[c])'
  BY <1>1, <1>4 DEF Only, Phase, Filling, Dropping
<1>6. ASSUME NEW d \in Calls \ {c} PROVE Phase(calls[d])'
  <2>1. CASE calls'[d] = Free
    BY <2>1, FreeIsSlot DEF Phase, Dropping, Filling
  <2>2. CASE calls'[d] = calls[d] /\ calls[d].op = "read"
    BY <1>1, <1>4, <2>2 DEF Phase
  <2>3. QED
    BY <1>3, <2>1, <2>2
<1>7. \A d \in Calls : calls'[d].op \in {"login", "logout"} => IsFree(d)'
  BY <1>3, <1>5, FreeIsSlot DEF IsFree
<1>8. ~(ops' = 0)
  BY <1>4 DEF TInv, Typed
<1>9. QED
  BY <1>5, <1>6, <1>7, <1>8 DEF Started

(* What the processes know still fits the row. *)
LEMMA StillKnows ==
  ASSUME Parameters, TInv, Steady, known' = known, row' \in Int
  PROVE  Knows'
<1>1. known \in [Procs -> Version \cup {2}] /\ row \in Nat /\ Never' = Never
  BY Constants DEF TInv, Typed, Never
<1>2. QED
  BY <1>1, Constants DEF TInv, Phases, Knows, Steady, Typed

(* A call that waits goes on waiting, and a flight that began has one. *)
LEMMA StillWaits ==
  ASSUME Parameters, TInv, kind' = kind, NEW D \in SUBSET Calls, Rest(D),
         \A c \in Calls \ D : calls[c].step # "wait",
         kind = "list" => \A p \in Procs : flight'[p] \notin Version,
         \A p \in Procs : flight'[p] # Idle =>
           flight[p] # Idle \/ \E c \in Calls : /\ calls'[c].op = "read" /\ calls'[c].step = "wait"
                                                /\ calls'[c].at = p
  PROVE  Waits'
<1>1. ASSUME NEW p \in Procs, flight[p] # Idle
      PROVE  \E c \in Calls : calls'[c].op = "read" /\ calls'[c].step = "wait" /\ calls'[c].at = p
  <2>1. PICK c \in Calls : calls[c].op = "read" /\ calls[c].step = "wait" /\ calls[c].at = p
    BY <1>1 DEF TInv, Phases, Waits
  <2>2. c \in D
    BY <2>1
  <2>3. calls'[c] = calls[c]
    BY <2>1, <2>2 DEF Rest, IsFree
  <2>4. QED
    BY <2>1, <2>3
<1>2. Version' = Version /\ Idle' = Idle
  BY DEF Version, Idle
<1>3. QED
  BY <1>1, <1>2 DEF Waits

(* Every action starts, moves and ends calls as the phases say. *)
LEMMA StepPhases ==
  ASSUME Parameters, TInv, Step
  PROVE  Phases'
<1>0. Typed /\ Typed' /\ Started /\ Knows /\ Waits
  BY StepTyped DEF TInv, Phases
<1> USE <1>0
<1>a. row \in Nat /\ row' \in Nat /\ ops \in Nat /\ ops' \in Nat
  BY DEF Typed, Parameters
<1>1. ASSUME NEW c \in Calls, NEW p \in Procs, StartRead(c, p) PROVE Phases'
  <2>1. Steady /\ known' = known /\ ops' > 0 /\ kind # "rate"
    BY <1>1, <1>a DEF StartRead, Steady, facts, Op
  <2>2. CASE Get(l1[p]) # None
    <3> DEFINE s == [op |-> "read", at |-> p, step |-> "done", val |-> l1[p].val,
                     since |-> known[p], when |-> now]
    <3>1. l1[p].val \in Version
      BY <2>2, GetIs DEF Typed
    <3>2. Only(c, s)
      BY <1>1, <2>2, <3>1, Begun DEF StartRead, Ops, Steps
    <3>3. Phase(calls[c])'
      BY <2>1, <3>1, <3>2 DEF Only, Phase, Dropping, Filling, Steady
    <3>4. Started'
      <4>1. s \in Slots /\ s.op = "read"
        BY <3>2 DEF Only, Typed
      <4> HIDE DEF s
      <4>2. QED
        BY <2>1, <3>2, <3>3, <4>1, OnlyStarted
    <3>5. Waits'
      BY <1>1, <2>1, <2>2, <3>2, StillWaits DEF StartRead, IsFree, Only, Waits, Steady
    <3>6. QED
      BY <1>a, <2>1, <3>4, <3>5, StillKnows DEF Phases
  <2>3. CASE Get(l1[p]) = None
    <3> DEFINE s == [op |-> "read", at |-> p, step |-> "wait", val |-> None,
                     since |-> known[p], when |-> now]
    <3>1. Only(c, s)
      BY <1>1, <2>3, Begun DEF StartRead, Ops, Steps
    <3>2. Phase(calls[c])'
      BY <2>1, <3>1 DEF Only, Phase, Dropping, Filling, Steady
    <3>3. Started'
      <4>1. s \in Slots /\ s.op = "read"
        BY <3>1 DEF Only, Typed
      <4> HIDE DEF s
      <4>2. QED
        BY <2>1, <3>1, <3>2, <4>1, OnlyStarted
    <3>4. flight' = [flight EXCEPT ![p] = IF @ = Idle THEN Asked ELSE @]
      BY <1>1, <2>3 DEF StartRead
    <3>5. /\ \A q \in Procs : flight'[q] # Idle => flight[q] # Idle \/ q = p
          /\ \A q \in Procs : flight'[q] \in Version => flight[q] \in Version
      BY <3>4, Constants DEF Typed, Asked, Version, Parameters
    <3>6. Waits'
      BY <1>1, <2>1, <3>1, <3>5, StillWaits DEF StartRead, IsFree, Only, Waits, Steady
    <3>7. QED
      BY <1>a, <2>1, <3>3, <3>6, StillKnows DEF Phases
  <2>4. QED
    BY <2>2, <2>3
<1>2. ASSUME NEW p \in Procs, FlightRead(p) PROVE Phases'
  <2>1. Steady /\ known' = known /\ Rest(Calls)
    BY <1>2, <1>a, Quiet DEF FlightRead, Steady, facts
  <2>2. flight[p] # Idle
    BY <1>2 DEF FlightRead, Idle, Asked
  <2>3. kind = "list" => flight'[p] \notin Version
    <3>1. Get(l2) \in Version \cup {None} /\ Failed \notin Version /\ None \notin Version
      <4>1. l2 \in Entries
        BY DEF Typed
      <4>2. Get(l2) \in Version \cup {None}
        BY <4>1, GetIs, Zenon
      <4>3. None \notin Version
        BY Constants, Zenon
      <4>4. Failed \notin Version
        BY DEF Failed, Version, Parameters
      <4>5. QED
        BY <4>2, <4>3, <4>4, Zenon
    <3>2. QED
      BY <1>2, <3>1 DEF FlightRead, Typed
  <2>4. \A q \in Procs : flight'[q] = flight[q] \/ q = p
    BY <1>2 DEF FlightRead, Typed
  <2>5. Waits'
    BY <2>1, <2>2, <2>3, <2>4, StillWaits DEF Waits, Steady
  <2>6. QED
    BY <1>a, <2>1, <2>5, RestStarted, StillKnows DEF Phases
<1>3. ASSUME NEW p \in Procs, FlightEnd(p) PROVE Phases'
  <2> DEFINE hit == flight[p] \in Version
             step == IF hit \/ kind = "session" THEN "done" ELSE "row"
             val == IF hit THEN flight[p] ELSE 0
             D == {d \in Calls : ~(calls[d].at = p /\ calls[d].step = "wait")}
  <2>1. Steady /\ known' = known
    <3>1. UNCHANGED <<kind, row, ended, known, ops>>
      BY <1>3, Zenon DEF FlightEnd, facts
    <3>2. QED
      BY <1>a, <3>1 DEF Steady
  <2>2. /\ Rest(D)
        /\ \A d \in Calls \ D :
             calls'[d] = [op |-> calls[d].op, at |-> p, step |-> step, val |-> val,
                          since |-> calls[d].since, when |-> now]
    BY <1>3, FlightEndCalls DEF Rest
  <2>3. \A d \in Calls \ D : /\ calls'[d].op = "read" /\ calls'[d].step \in {"done", "row"}
                             /\ Phase(calls[d])'
    <3>1. SUFFICES ASSUME NEW d \in Calls \ D
                   PROVE  /\ calls'[d].op = "read" /\ calls'[d].step \in {"done", "row"}
                          /\ Phase(calls[d])'
      OBVIOUS
    <3>2. Phase(calls[d]) /\ calls[d].step = "wait" /\ calls[d] \in Slots /\ calls[d].op \in Ops
      BY DEF Started, Typed, Slots
    <3>3. calls[d].op = "read" /\ ops > 0 /\ kind # "rate"
      BY <3>2 DEF Phase, Ops, Dropping, Filling
    <3>4. /\ step \in {"done", "row"} /\ (step = "row" => kind # "session")
          /\ (step = "done" => val \in Version \cup {0})
      OBVIOUS
    <3> HIDE DEF step, val, D
    <3>5. /\ calls'[d].op = "read" /\ calls'[d].at = p /\ calls'[d].step = step
          /\ calls'[d].val = val
      <4>1. calls'[d] = [op |-> calls[d].op, at |-> p, step |-> step, val |-> val,
                         since |-> calls[d].since, when |-> now]
        BY <2>2, Zenon
      <4>2. QED
        BY <3>3, <4>1
    <3>6. kind' = kind /\ ops' > 0
      BY <2>1, <3>3, <1>a DEF Steady
    <3>7. QED
      BY <3>3, <3>4, <3>5, <3>6 DEF Phase, Dropping, Filling
  <2>4. \A d \in Calls : Phase(calls[d])'
    BY <2>1, <2>2, <2>3, StillPhase DEF Rest
  <2>5. \A d \in Calls : \A o \in {"login", "logout"} :
          calls'[d].op = o /\ ~IsFree(d)' => calls[d].op = o /\ ~IsFree(d)
    BY <2>2, <2>3, FreeIsSlot DEF Rest, IsFree
  <2>6. \A d, e \in Calls : \A o \in {"login", "logout"} :
          calls[d].op = o /\ calls[e].op = o /\ ~IsFree(d) /\ ~IsFree(e) => d = e
    BY DEF Started
  <2>7. (kind' = "session" /\ ops' = 0 => row' = 0 /\ ended'[1] = Never) /\ Never' = Never
    BY <2>1, <1>a DEF Started, Steady, Never
  <2>8. Started'
    BY <2>4, <2>5, <2>6, <2>7 DEF Started
  <2>9. flight' = [flight EXCEPT ![p] = Idle] /\ kind' = kind
    BY <1>3 DEF FlightEnd, facts
  <2>10. /\ \A q \in Procs : flight'[q] \in Version => flight[q] \in Version
         /\ \A q \in Procs : flight'[q] # Idle => flight[q] # Idle /\ q # p
    BY <2>9, Constants DEF Typed, Idle, Version
  <2>11. \A q \in Procs : flight'[q] # Idle =>
           \E d \in Calls : calls'[d].op = "read" /\ calls'[d].step = "wait" /\ calls'[d].at = q
    <3>1. SUFFICES ASSUME NEW q \in Procs, flight'[q] # Idle
                   PROVE  \E d \in Calls : /\ calls'[d].op = "read" /\ calls'[d].step = "wait"
                                           /\ calls'[d].at = q
      OBVIOUS
    <3>2. PICK d \in Calls : calls[d].op = "read" /\ calls[d].step = "wait" /\ calls[d].at = q
      BY <2>10, <3>1 DEF Waits
    <3>3. calls'[d] = calls[d]
      BY <2>2, <2>10, <3>1, <3>2 DEF Rest, IsFree
    <3>4. QED
      BY <3>2, <3>3
  <2>12. Version' = Version /\ Idle' = Idle
    BY DEF Version, Idle
  <2>13. Waits'
    BY <2>9, <2>10, <2>11, <2>12 DEF Waits
  <2>14. QED
    BY <1>a, <2>1, <2>8, <2>13, StillKnows DEF Phases
<1>4. ASSUME NEW c \in Calls, ReadRow(c) PROVE Phases'
  <2>1. calls[c].op = "read" /\ kind \in {"key", "list"} /\ ops > 0 /\ calls[c].at \in Procs
    BY <1>4, CallIs DEF ReadRow, Started, Phase, Ops, Dropping, Filling, Typed
  <2>2. Steady /\ known' = known /\ flight' = flight /\ ~IsFree(c) /\ calls[c].step # "wait"
    BY <1>4, <1>a DEF ReadRow, Steady, facts, tiers, IsFree
  <2>3. PICK s \in Slots : Only(c, s) /\ s.op = "read" /\ s.at = calls[c].at /\ s.val = row
                           /\ s.step = IF row = 0 THEN "done" ELSE "set1"
    <3> DEFINE new == [op |-> calls[c].op, at |-> calls[c].at,
                       step |-> IF row = 0 THEN "done" ELSE "set1", val |-> row,
                       since |-> calls[c].since, when |-> now]
    <3>1. row \in Version \cup {0}
      BY DEF Typed, Parameters, Version
    <3>2. Only(c, new)
      BY <1>4, <2>2, <3>1, GoneTo DEF ReadRow, Steps, Filling
    <3>3. new \in Slots
      BY <3>2 DEF Only
    <3>4. QED
      BY <2>1, <3>2, <3>3
  <2>4. Phase(calls[c])'
    <3>1. row \in Version \cup {0}
      BY DEF Typed, Parameters, Version
    <3>2. QED
      BY <1>a, <2>1, <2>2, <2>3, <3>1 DEF Only, Phase, Dropping, Filling, Steady
  <2>5. Started'
    BY <2>2, <2>3, <2>4, OnlyStarted
  <2>6. Waits'
    BY <2>2, <2>3, StillWaits DEF Only, Waits, Steady
  <2>7. QED
    BY <1>a, <2>2, <2>5, <2>6, StillKnows DEF Phases
<1>5. ASSUME NEW c \in Calls, SetL1(c) PROVE Phases'
  <2>1. Phase(calls[c]) /\ calls[c].val \in Version
    BY <1>5, CallIs DEF SetL1, Started, Filling
  <2>2. Steady /\ known' = known /\ flight' = flight /\ ~IsFree(c) /\ calls[c].step = "set1"
    BY <1>5, <1>a DEF SetL1, Steady, facts, IsFree
  <2>3. PICK s \in Slots : Only(c, s) /\ s.op = calls[c].op /\ s.at = calls[c].at
                           /\ s.val = calls[c].val /\ s.step = "set2"
    <3> DEFINE new == [op |-> calls[c].op, at |-> calls[c].at, step |-> "set2",
                       val |-> calls[c].val, since |-> calls[c].since, when |-> now]
    <3>1. Only(c, new)
      BY <1>5, <2>1, <2>2, GoneTo DEF SetL1, Steps, Filling
    <3>2. new \in Slots
      BY <3>1 DEF Only
    <3>3. QED
      BY <3>1, <3>2
  <2>4. Phase(calls[c])'
    BY <1>a, <2>1, <2>2, <2>3 DEF Only, Phase, Dropping, Filling, Steady
  <2>5. Started'
    BY <2>2, <2>3, <2>4, OnlyStarted
  <2>6. Waits'
    BY <2>2, <2>3, StillWaits DEF Only, Waits, Steady
  <2>7. QED
    BY <1>a, <2>2, <2>5, <2>6, StillKnows DEF Phases
<1>6. ASSUME NEW c \in Calls, SetL2(c) PROVE Phases'
  <2>1. Phase(calls[c]) /\ calls[c].val \in Version /\ calls[c].at \in Procs
    BY <1>6, CallIs DEF SetL2, Started, Filling, IsFree
  <2>2. /\ known' = known /\ flight' = flight /\ ~IsFree(c) /\ calls[c].step = "set2"
        /\ kind' = kind /\ ended' = ended /\ ops' = ops
    BY <1>6 DEF SetL2, IsFree
  <2>3. PICK s \in Slots : Only(c, s) /\ s.op = calls[c].op /\ s.at = calls[c].at
                           /\ s.val = calls[c].val /\ s.step = "done"
    <3> DEFINE new == [op |-> calls[c].op, at |-> calls[c].at, step |-> "done",
                       val |-> calls[c].val, since |-> calls[c].since, when |-> now]
    <3>1. Only(c, new)
      BY <1>6, <2>1, <2>2, GoneTo DEF SetL2, Steps
    <3>2. new \in Slots
      BY <3>1 DEF Only
    <3>3. QED
      BY <3>1, <3>2
  <2>4. Waits'
    BY <2>2, <2>3, StillWaits DEF Only, Waits
  <2>5. CASE row' = row
    <3>1. Steady
      BY <1>a, <2>2, <2>5 DEF Steady
    <3>2. Phase(calls[c])'
      BY <1>a, <2>1, <2>2, <2>3 DEF Only, Phase, Dropping, Filling
    <3>3. Started'
      BY <2>2, <2>3, <3>1, <3>2, OnlyStarted
    <3>4. QED
      BY <1>a, <2>2, <2>4, <3>1, <3>3, StillKnows DEF Phases
  <2>6. CASE row' # row
    <3>1. calls[c].op = "login" /\ kind = "session"
      BY <1>6, <2>1, <2>6 DEF SetL2, Phase
    <3>2. Started'
      BY <2>1, <2>2, <2>3, <3>1, LastStarted
    <3>3. Knows'
      BY <2>2, <3>1 DEF Knows, Never
    <3>4. QED
      BY <2>4, <3>2, <3>3 DEF Phases
  <2>7. QED
    BY <2>5, <2>6
<1>7. ASSUME NEW c \in Calls, NEW p \in Procs, Login(c, p) PROVE Phases'
  <2>1. /\ Steady /\ known' = known /\ flight' = flight /\ ops' > 0 /\ kind' = "session"
        /\ row' = 0 /\ ended'[1] = Never
    BY <1>7, <1>a DEF Login, Steady, facts, tiers, Op, Started
  <2>2. \A d \in Calls : IsFree(d)
    BY <1>7, <1>a DEF Login, Started, Phase, IsFree
  <2>3. PICK s \in Slots : Only(c, s) /\ s.op = "login" /\ s.at = p /\ s.val = 1 /\ s.step = "set1"
    <3> DEFINE new == [op |-> "login", at |-> p, step |-> "set1", val |-> 1,
                       since |-> known[p], when |-> now]
    <3>1. Only(c, new)
      BY <1>7, Begun, Constants DEF Login, Ops, Steps, Filling
    <3>2. new \in Slots
      BY <3>1 DEF Only
    <3>3. QED
      BY <3>1, <3>2
  <2>4. Phase(calls[c])'
    BY <2>1, <2>3, Constants DEF Only, Phase, Dropping, Filling, Never
  <2>5. Started'
    BY <2>1, <2>2, <2>3, <2>4, OnlyStarted
  <2>6. Waits'
    BY <2>1, <2>2, <2>3, StillWaits DEF Only, Waits, IsFree, Steady
  <2>7. QED
    BY <1>a, <2>1, <2>5, <2>6, StillKnows DEF Phases
<1>8. ASSUME NEW c \in Calls, NEW p \in Procs, Logout(c, p) PROVE Phases'
  <2>1. /\ Steady /\ known' = known /\ flight' = flight /\ ops' > 0 /\ kind' = "session"
        /\ row' = 1 /\ IsFree(c) /\ \A d \in Calls : calls[d].op # "logout"
    BY <1>8, <1>a DEF Logout, Steady, facts, tiers, Op
  <2>2. PICK s \in Slots : Only(c, s) /\ s.op = "logout" /\ s.at = p /\ s.step = "del1"
    <3> DEFINE new == [op |-> "logout", at |-> p, step |-> "del1", val |-> 1,
                       since |-> known[p], when |-> now]
    <3>1. Only(c, new)
      BY <1>8, Begun, Constants DEF Logout, Ops, Steps, Dropping
    <3>2. new \in Slots
      BY <3>1 DEF Only
    <3>3. QED
      BY <3>1, <3>2
  <2>3. Phase(calls[c])'
    BY <2>1, <2>2 DEF Only, Phase, Dropping, Filling
  <2>4. Started'
    BY <2>1, <2>2, <2>3, OnlyStarted
  <2>5. Waits'
    BY <2>1, <2>2, StillWaits DEF Only, Waits, IsFree, Steady
  <2>6. QED
    BY <1>a, <2>1, <2>4, <2>5, StillKnows DEF Phases
<1>9. ASSUME NEW c \in Calls, NEW p \in Procs, ChangeList(c, p) PROVE Phases'
  <2>1. /\ Steady /\ known' = known /\ flight' = flight /\ ops' > 0 /\ kind' = "list"
        /\ row' = row + 1 /\ row + 1 \in Version /\ IsFree(c)
    BY <1>9, <1>a DEF ChangeList, Steady, tiers, Op, Version, Parameters
  <2>2. PICK s \in Slots : Only(c, s) /\ s.op = "change" /\ s.at = p /\ s.step = "del1"
                           /\ s.val = row + 1
    <3> DEFINE new == [op |-> "change", at |-> p, step |-> "del1", val |-> row + 1,
                       since |-> known[p], when |-> now]
    <3>1. Only(c, new)
      BY <1>9, <2>1, Begun DEF ChangeList, Ops, Steps, Dropping
    <3>2. new \in Slots
      BY <3>1 DEF Only
    <3>3. QED
      BY <3>1, <3>2
  <2>3. Phase(calls[c])'
    BY <1>a, <2>1, <2>2 DEF Only, Phase, Dropping, Filling
  <2>4. Started'
    BY <2>1, <2>2, <2>3, OnlyStarted
  <2>5. Waits'
    BY <2>1, <2>2, StillWaits DEF Only, Waits, IsFree, Steady
  <2>6. QED
    BY <1>a, <2>1, <2>4, <2>5, StillKnows DEF Phases
<1>10. ASSUME RevokeAPIKey PROVE Phases'
  <2>1. Steady /\ known' = known /\ flight' = flight /\ Rest(Calls)
    BY <1>10, <1>a, Quiet DEF RevokeAPIKey, Steady, tiers, Op
  <2>2. Waits'
    BY <2>1, StillWaits DEF Waits, Steady
  <2>3. QED
    BY <1>a, <2>1, <2>2, RestStarted, StillKnows DEF Phases
<1>11. ASSUME NEW c \in Calls, DelL1(c) PROVE Phases'
  <2>1. Phase(calls[c]) /\ calls[c].at \in Procs /\ calls[c].val \in Version \cup {None, 0}
    BY <1>11, CallIs DEF DelL1, Started, IsFree
  <2>2. Steady /\ known' = known /\ flight' = flight /\ ~IsFree(c) /\ calls[c].step = "del1"
    BY <1>11, <1>a DEF DelL1, Steady, facts, IsFree
  <2>3. PICK s \in Slots : Only(c, s) /\ s.op = calls[c].op /\ s.at = calls[c].at
                           /\ s.val = calls[c].val /\ s.step = "del2"
    <3> DEFINE new == [op |-> calls[c].op, at |-> calls[c].at, step |-> "del2",
                       val |-> calls[c].val, since |-> calls[c].since, when |-> now]
    <3>1. Only(c, new)
      BY <1>11, <2>1, <2>2, GoneTo DEF DelL1, Steps, Dropping
    <3>2. new \in Slots
      BY <3>1 DEF Only
    <3>3. QED
      BY <3>1, <3>2
  <2>4. Phase(calls[c])'
    <3>1. row' = row /\ ended' = ended
      BY <1>11 DEF DelL1, facts
    <3>2. QED
      BY <1>a, <2>1, <2>2, <2>3, <3>1 DEF Only, Phase, Dropping, Filling, Steady
  <2>5. Started'
    BY <2>2, <2>3, <2>4, OnlyStarted
  <2>6. Waits'
    BY <2>2, <2>3, StillWaits DEF Only, Waits, Steady
  <2>7. QED
    BY <1>a, <2>2, <2>5, <2>6, StillKnows DEF Phases
<1>12. ASSUME NEW c \in Calls, DelL2(c) PROVE Phases'
  <2>1. /\ Phase(calls[c]) /\ calls[c].at \in Procs /\ calls[c].val \in Version \cup {None, 0}
        /\ calls[c].op \in {"change", "logout"} /\ ~IsFree(c) /\ calls[c].step = "del2"
    BY <1>12, CallIs DEF DelL2, Started, IsFree, Dropping
  <2>2. flight' = flight /\ kind' = kind /\ ops' = ops
    BY <1>12 DEF DelL2
  <2>3. PICK s \in Slots : Only(c, s) /\ s.op = calls[c].op /\ s.at = calls[c].at
                           /\ s.val = calls[c].val /\ s.step = "done"
    <3> DEFINE new == [op |-> calls[c].op, at |-> calls[c].at, step |-> "done",
                       val |-> calls[c].val, since |-> calls[c].since, when |-> now]
    <3>1. Only(c, new)
      BY <1>12, <2>1, GoneTo DEF DelL2, Steps
    <3>2. new \in Slots
      BY <3>1 DEF Only
    <3>3. QED
      BY <3>1, <3>2
  <2>4. Waits'
    BY <2>1, <2>2, <2>3, StillWaits DEF Only, Waits
  <2>5. CASE calls[c].op = "change"
    <3>1. kind = "list" /\ row' = row /\ ended' = ended /\ calls[c].val \in 1..row
      BY <1>12, <2>1, <2>5 DEF DelL2, Phase
    <3>2. Steady
      BY <1>a, <2>2, <3>1 DEF Steady
    <3>3. Phase(calls[c])'
      BY <2>1, <2>3, <2>5 DEF Only, Phase, Dropping, Filling
    <3>4. Started'
      BY <2>3, <2>5, <3>2, <3>3, OnlyStarted
    <3>5. known' = [known EXCEPT ![calls[c].at] = Max({known[calls[c].at], calls[c].val})]
      BY <1>12, <2>5 DEF DelL2
    <3>6. known[calls[c].at] \in Int /\ known[calls[c].at] <= row /\ calls[c].val \in Int
      BY <1>a, <2>1, <3>1, Constants DEF Knows, Typed
    <3>7. \A p \in Procs : known'[p] <= row'
      <4> DEFINE m == Max({known[calls[c].at], calls[c].val})
      <4>1. m <= row
        <5>1. m \in {known[calls[c].at], calls[c].val}
          BY <3>6, MaxOfTwo
        <5> HIDE DEF m
        <5>2. QED
          BY <1>a, <3>1, <3>6, <5>1
      <4> HIDE DEF m
      <4>2. known' = [known EXCEPT ![calls[c].at] = m] /\ row' = row
        BY <3>1, <3>5 DEF m
      <4>3. QED
        BY <2>1, <3>1, <4>1, <4>2 DEF Knows, Typed
    <3>8. QED
      BY <2>2, <2>4, <3>1, <3>4, <3>7 DEF Phases, Knows
  <2>6. CASE calls[c].op = "logout"
    <3>1. kind = "session" /\ ended' = [ended EXCEPT ![1] = now]
      BY <1>12, <2>1, <2>6 DEF DelL2, Phase
    <3>2. Started'
      BY <2>1, <2>2, <2>3, <2>6, <3>1, LastStarted
    <3>3. ended'[1] # Never /\ Never' = Never
      BY <3>1, Constants DEF Typed, Never
    <3>4. QED
      BY <2>2, <2>4, <3>1, <3>2, <3>3 DEF Phases, Knows
  <2>7. QED
    BY <2>1, <2>5, <2>6
<1>13. ASSUME IncrRateLimit PROVE Phases'
  <2>1. Steady /\ known' = known /\ flight' = flight /\ Rest(Calls)
    BY <1>13, <1>a, Quiet DEF IncrRateLimit, Steady, tiers, Op
  <2>2. Waits'
    BY <2>1, StillWaits DEF Waits, Steady
  <2>3. QED
    BY <1>a, <2>1, <2>2, RestStarted, StillKnows DEF Phases
<1>14. ASSUME NEW p \in Procs, Restart(p) PROVE Phases'
  <2>1. Steady /\ known' = known
    BY <1>14, <1>a DEF Restart, Steady, facts, Op
  <2>2. /\ \A d \in Calls : calls'[d] = Free \/ (calls'[d] = calls[d] /\ ~IsFree(d))
        /\ \A d \in Calls : calls[d].at # p /\ ~IsFree(d) => calls'[d] = calls[d]
    BY <1>14, OpenIs DEF Restart
  <2>3. /\ \A q \in Procs : flight'[q] \in Version => flight[q] \in Version
        /\ \A q \in Procs : flight'[q] # Idle => flight[q] # Idle /\ q # p
    BY <1>14, Constants DEF Restart, Typed, Idle, Version
  <2>4. Waits'
    <3>1. ASSUME NEW q \in Procs, flight'[q] # Idle
          PROVE  \E d \in Calls : /\ calls'[d].op = "read" /\ calls'[d].step = "wait"
                                  /\ calls'[d].at = q
      <4>1. PICK d \in Calls : calls[d].op = "read" /\ calls[d].step = "wait" /\ calls[d].at = q
        BY <2>3, <3>1 DEF Waits
      <4>2. calls'[d] = calls[d]
        BY <2>2, <2>3, <3>1, <4>1 DEF IsFree
      <4>3. QED
        BY <4>1, <4>2
    <3>2. Version' = Version /\ Idle' = Idle
      BY DEF Version, Idle
    <3>3. QED
      BY <2>1, <2>3, <3>1, <3>2 DEF Waits, Steady
  <2>5. QED
    BY <1>a, <2>1, <2>2, <2>4, FewerStarted, StillKnows DEF Phases
<1>15. ASSUME RedisFails \/ RedisReturns PROVE Phases'
  <2>1. Steady /\ known' = known /\ flight' = flight /\ Rest(Calls)
    BY <1>15, <1>a, Quiet DEF RedisFails, RedisReturns, Steady, tiers, facts, Op
  <2>2. Waits'
    BY <2>1, StillWaits DEF Waits, Steady
  <2>3. QED
    BY <1>a, <2>1, <2>2, RestStarted, StillKnows DEF Phases
<1>16. ASSUME Tick PROVE Phases'
  <2>1. Steady /\ known' = known /\ flight' = flight /\ Rest(Calls)
    BY <1>16, <1>a, Quiet DEF Tick, Steady, tiers, facts
  <2>2. Waits'
    BY <2>1, StillWaits DEF Waits, Steady
  <2>3. QED
    BY <1>a, <2>1, <2>2, RestStarted, StillKnows DEF Phases
<1>17. QED
  BY <1>1, <1>2, <1>3, <1>4, <1>5, <1>6, <1>7, <1>8, <1>9, <1>10, <1>11, <1>12, <1>13, <1>14,
     <1>15, <1>16 DEF Step

(* Types, ends of versions and phases are kept together. *)
LEMMA StepTInv == ASSUME Parameters, TInv, Step PROVE TInv'
BY StepTyped, StepEnds, StepPhases DEF TInv

-----------------------------------------------------------------------------
(* A version that ends, ends now. *)
LEMMA EndsNow ==
  ASSUME Parameters, TInv, Step
  PROVE  \A v \in Version : ended'[v] \in {ended[v], now} /\ ended'[v] \in Int /\ ended[v] \in Int
<1>0. ended \in [Version -> 0..Never] /\ now \in Nat
  BY Constants DEF TInv, Typed
<1> DEFINE Now == \A v \in Version : ended'[v] \in {ended[v], now}
<1>1. ASSUME NEW c \in Calls, NEW p \in Procs, ChangeList(c, p) PROVE Now
  BY <1>0, <1>1 DEF ChangeList
<1>2. ASSUME RevokeAPIKey PROVE Now
  BY <1>0, <1>2 DEF RevokeAPIKey
<1>3. ASSUME NEW c \in Calls, DelL2(c) PROVE Now
  BY <1>0, <1>3 DEF DelL2
<1>4. ended' = ended => Now
  OBVIOUS
<1>5. Now
  BY <1>1, <1>2, <1>3, <1>4
  DEF Step, StartRead, FlightRead, FlightEnd, ReadRow, SetL1, SetL2, Login, Logout, DelL1,
      IncrRateLimit, Restart, RedisFails, RedisReturns, Tick, tiers, facts
<1>6. QED
  BY <1>0, <1>5

(* What is recorded stays recorded. *)
LEMMA SlowStays == Step => (slow => slow')
BY Zenon DEF Step, StartRead, FlightRead, FlightEnd, ReadRow, SetL1, SetL2, Login, Logout, ChangeList,
       RevokeAPIKey, DelL1, DelL2, IncrRateLimit, Restart, RedisFails, RedisReturns, Tick

(* An outage of Redis that happened stays recorded. *)
LEMMA OutageStays == Step => (outage => outage')
BY Zenon DEF Step, StartRead, FlightRead, FlightEnd, ReadRow, SetL1, SetL2, Login, Logout, ChangeList,
       RevokeAPIKey, DelL1, DelL2, IncrRateLimit, Restart, RedisFails, RedisReturns, Tick

(* No time passes while a value is on its way. *)
LEMMA TimeStands ==
  ASSUME Parameters, TInv, Step, ~slow',
         \/ \E c \in Calls : calls[c].step \in Filling
         \/ \E p \in Procs : flight[p] \in Version
  PROVE  now' = now
<1>1. CASE Tick
  <2>1. ~ \E c \in Calls : calls[c].step \in {"set1", "set2"}
    BY <1>1, Zenon DEF Tick
  <2>2. ~ \E p \in Procs : flight[p] \notin {Idle, Asked}
    BY <1>1, Zenon DEF Tick
  <2>3. Idle \notin Version /\ Asked \notin Version
    BY DEF Idle, Asked, Version, Parameters
  <2>4. QED
    BY <2>1, <2>2, <2>3 DEF Filling
<1>2. CASE ~Tick
  BY <1>2
  DEF Step, StartRead, FlightRead, FlightEnd, ReadRow, SetL1, SetL2, Login, Logout, ChangeList,
      RevokeAPIKey, DelL1, DelL2, IncrRateLimit, Restart, RedisFails, RedisReturns
<1>3. QED
  BY <1>1, <1>2

(* Redis has no session that has ended: whoever ends one removes it there, or Redis is down. *)
LEMMA StepSession ==
  ASSUME Parameters, TInv, Step, Session, ~outage'
  PROVE  Session'
<1>0. Typed /\ kind' = kind /\ Never' = Never /\ Version' = Version
  BY KindStays DEF TInv, Never, Version
<1>1. kind = "session" => redis' \in {"up", "down"}
  BY DEF Session, Step, StartRead, FlightRead, FlightEnd, ReadRow, SetL1, SetL2, Login, Logout,
         ChangeList, RevokeAPIKey, DelL1, DelL2, IncrRateLimit, Restart, RedisFails, RedisReturns, Tick
<1>2. ASSUME kind = "session", l2'.val \in Version PROVE l2'.val = 1 /\ ended'[1] = Never
  <2>1. ASSUME NEW c \in Calls, SetL2(c) PROVE l2'.val = 1 /\ ended'[1] = Never
    <3>1. ended' = ended
      BY <2>1 DEF SetL2
    <3>2. CASE l2' = l2
      BY <1>2, <3>1, <3>2 DEF Session
    <3>3. CASE l2'.val = calls[c].val
      <4>1. Phase(calls[c]) /\ calls[c].op \in Ops /\ calls[c].step = "set2"
        BY <2>1, CallIs DEF SetL2, TInv, Phases, Started
      <4>2. calls[c].val = 1 /\ ended[1] = Never
        BY <1>2, <4>1 DEF Phase, Ops, Filling, Dropping
      <4>3. QED
        BY <3>1, <3>3, <4>2
    <3>4. QED
      BY <2>1, <3>2, <3>3 DEF SetL2
  <2>2. ASSUME NEW c \in Calls, DelL2(c) PROVE l2'.val = 1 /\ ended'[1] = Never
    <3>1. CASE redis = "up"
      BY <1>2, <2>2, <3>1, Constants, <1>0 DEF DelL2
    <3>2. CASE redis = "down"
      <4>1. outage'
        BY <2>2, <3>2, Zenon DEF DelL2
      <4>2. QED
        BY <4>1
    <3>3. CASE redis \notin {"up", "down"}
      BY <1>2, <3>3 DEF Session
    <3>4. QED
      BY <3>1, <3>2, <3>3
  <2>3. CASE l2' = l2 /\ ended' = ended
    BY <1>2, <2>3 DEF Session
  <2>4. QED
    BY <1>2, <2>1, <2>2, <2>3
    DEF Step, StartRead, FlightRead, FlightEnd, ReadRow, SetL1, Login, Logout, ChangeList,
        RevokeAPIKey, DelL1, IncrRateLimit, Restart, RedisFails, RedisReturns, Tick, tiers, facts
<1>3. QED
  BY <1>0, <1>1, <1>2 DEF Session

-----------------------------------------------------------------------------
(* A call that does not move holds what has not ended. *)
LEMMA StillFresh ==
  ASSUME Parameters, TInv, Step, Fresh, ~slow', NEW d \in Calls,
         calls'[d] = Free \/ (calls'[d] = calls[d] /\ ~IsFree(d))
  PROVE  FreshCall(calls[d])'
<1>1. CASE calls'[d] = Free
  BY <1>1, FreeIsSlot DEF FreshCall, Filling
<1>2. CASE calls'[d] = calls[d] /\ ~IsFree(d)
  <2>1. CASE calls[d].step \in Filling
    <3>1. /\ calls[d].val \in Version /\ now <= ended[calls[d].val] /\ now' = now /\ now \in Nat
          /\ calls[d].step # "done"
      BY <2>1, CallIs, TimeStands, Constants DEF Fresh, FreshCall, TInv, Filling
    <3>2. now <= ended'[calls[d].val]
      BY <3>1, EndsNow
    <3>3. QED
      BY <1>2, <3>1, <3>2 DEF FreshCall
  <2>2. CASE calls[d].step \notin Filling
    BY <1>2, <2>2 DEF FreshCall, IsFree
  <2>3. QED
    BY <2>1, <2>2
<1>3. QED
  BY <1>1, <1>2

(* One call moves to a fresh slot, the others stay fresh. *)
LEMMA OnlyFresh ==
  ASSUME Parameters, TInv, Step, Fresh, ~slow', NEW c \in Calls, NEW s, Only(c, s), FreshCall(calls[c])'
  PROVE  \A d \in Calls : FreshCall(calls[d])'
<1>1. \A d \in Calls \ {c} : calls'[d] = Free \/ (calls'[d] = calls[d] /\ ~IsFree(d))
  BY DEF Only, Rest
<1>2. QED
  BY <1>1, StillFresh

(* No call moves, and no time passes under one: all stay fresh. *)
LEMMA RestFresh ==
  ASSUME Parameters, TInv, Step, Fresh, ~slow', Rest(Calls)
  PROVE  \A d \in Calls : FreshCall(calls[d])'
<1>1. \A d \in Calls : calls'[d] = Free \/ (calls'[d] = calls[d] /\ ~IsFree(d))
  BY DEF Rest
<1>2. QED
  BY <1>1, StillFresh

(* What L1 kept it may keep. *)
LEMMA StillL1 ==
  ASSUME Parameters, TInv, Step, Fresh, NEW p \in Procs, l1'[p] = l1[p], l1[p].val \in Version
  PROVE  l1'[p].until <= ended'[l1'[p].val] + Grace + L1TTL
<1>1. l1[p].until <= ended[l1[p].val] + Grace + L1TTL /\ l1[p].until <= now + Grace + L1TTL
  BY DEF Fresh, TInv, Ends
<1>2. ended'[l1[p].val] \in {ended[l1[p].val], now}
  BY EndsNow
<1>3. QED
  BY <1>1, <1>2

(* What is new in Redis is not kept there for too long. *)
LEMMA StepL2Fresh ==
  ASSUME Parameters, TInv, Step, Fresh, ~slow', kind = "key", l2'.val \in Version
  PROVE  l2'.until <= ended'[l2'.val] + KeyTTL
<1>0. Typed
  BY DEF TInv
<1>1. ASSUME NEW c \in Calls, SetL2(c), l2' # l2 PROVE l2'.until <= ended'[l2'.val] + KeyTTL
  <2>1. l2' = [val |-> calls[c].val, until |-> now + KeyTTL] /\ ended' = ended
    BY <1>1 DEF SetL2, TTL
  <2>2. now <= ended[calls[c].val] /\ calls[c].val \in Version
    BY <1>1, CallIs DEF SetL2, Fresh, FreshCall, Filling
  <2>3. now \in Nat /\ KeyTTL \in Nat /\ ended[calls[c].val] \in Int
    BY <2>2, <1>0, EndsNow, Constants DEF Parameters
  <2>4. QED
    BY <2>1, <2>2, <2>3
<1>2. ASSUME NEW c \in Calls, DelL2(c), l2' # l2 PROVE FALSE
  BY <1>0, <1>2, Constants DEF DelL2
<1>3. CASE l2' = l2
  <2>1. l2.until <= ended[l2.val] + KeyTTL /\ l2.until <= now + KeyTTL
    BY <1>3 DEF Fresh, TInv, Ends
  <2>2. ended'[l2.val] \in {ended[l2.val], now}
    BY <1>3, EndsNow
  <2>3. QED
    BY <1>3, <2>1, <2>2
<1>4. QED
  BY <1>1, <1>2, <1>3
  DEF Step, StartRead, FlightRead, FlightEnd, ReadRow, SetL1, Login, Logout, ChangeList,
      RevokeAPIKey, DelL1, IncrRateLimit, Restart, RedisFails, RedisReturns, Tick, tiers

(* What a process hears from Redis changes in three ways. *)
LEMMA FlightMoves ==
  ASSUME Parameters, TInv, Step, NEW p \in Procs
  PROVE  flight'[p] = flight[p] \/ FlightRead(p) \/ flight'[p] \in {Idle, Asked}
<1>0. Typed
  BY DEF TInv
<1>1. ASSUME NEW q \in Procs, FlightRead(q) PROVE flight'[p] = flight[p] \/ FlightRead(p)
  BY <1>0, <1>1 DEF FlightRead, Typed
<1>2. ASSUME NEW q \in Procs, FlightEnd(q) PROVE flight'[p] = flight[p] \/ flight'[p] = Idle
  <2>1. flight' = [flight EXCEPT ![q] = Idle]
    BY <1>2 DEF FlightEnd
  <2>2. QED
    BY <1>0, <2>1 DEF Typed
<1>3. ASSUME NEW q \in Procs, Restart(q) PROVE flight'[p] = flight[p] \/ flight'[p] = Idle
  BY <1>0, <1>3 DEF Restart, Typed
<1>4. ASSUME NEW c \in Calls, NEW q \in Procs, StartRead(c, q)
      PROVE  flight'[p] = flight[p] \/ flight'[p] = Asked
  BY <1>0, <1>4 DEF StartRead, Typed
<1>5. QED
  BY <1>1, <1>2, <1>3, <1>4
  DEF Step, ReadRow, SetL1, SetL2, Login, Logout, ChangeList, RevokeAPIKey, DelL1, DelL2,
      IncrRateLimit, RedisFails, RedisReturns, Tick, tiers

(* What Redis says has not ended for longer than it may be there. *)
LEMMA StepFlightFresh ==
  ASSUME Parameters, TInv, Step, Fresh, Session, ~slow', NEW p \in Procs, flight'[p] \in Version
  PROVE  now' <= ended'[flight'[p]] + Grace
<1>0. Typed /\ Waits'
  BY StepPhases DEF TInv, Phases
<1>1. CASE flight'[p] = flight[p]
  <2>1. now' = now /\ now <= ended[flight[p]] + Grace /\ now \in Nat /\ Grace \in Nat
    BY <1>0, <1>1, TimeStands, Constants DEF Fresh
  <2>2. ended'[flight[p]] \in {ended[flight[p]], now}
    BY <1>1, EndsNow
  <2>3. QED
    BY <1>1, <2>1, <2>2
<1>2. ASSUME FlightRead(p) PROVE now' <= ended'[flight'[p]] + Grace
  <2>1. kind # "list" /\ kind # "rate"
    <3>1. kind' = "list" => flight'[p] \notin Version
      BY <1>0 DEF Waits, Version
    <3>2. \E c \in Calls : calls[c].op = "read" /\ calls[c].step = "wait" /\ calls[c].at = p
      BY <1>2 DEF TInv, Phases, Waits, FlightRead, Idle, Asked
    <3>3. kind # "rate"
      BY <3>2 DEF TInv, Phases, Started, Phase
    <3>4. QED
      BY <3>1, <3>3, KindStays
  <2>2. flight'[p] = Get(l2)
    <3>1. Failed \notin Version /\ None \notin Version
      BY <1>0, Constants DEF Failed, Version, Parameters
    <3>2. QED
      BY <1>0, <1>2, <3>1 DEF FlightRead, Typed
  <2>3. flight'[p] = l2.val /\ now < l2.until
    BY <1>0, <2>2, GetIs, Constants DEF Typed
  <2>4. ended' = ended /\ now' = now
    BY <1>2 DEF FlightRead, facts
  <2>5. CASE kind = "key"
    <3>1. l2.until <= ended[l2.val] + KeyTTL /\ Grace = KeyTTL
      BY <2>3, <2>5 DEF Fresh, Grace
    <3>2. l2.until \in Int /\ KeyTTL \in Nat /\ now \in Nat /\ ended[l2.val] \in Int
      BY <1>0, <2>3, EndsNow, Constants DEF Typed, Entries, Parameters
    <3>3. QED
      BY <2>3, <2>4, <3>1, <3>2
  <2>6. CASE kind = "session"
    BY <1>0, <2>3, <2>4, <2>6, Constants DEF Session
  <2>7. QED
    BY <1>0, <2>1, <2>5, <2>6 DEF Typed
<1>3. flight'[p] = flight[p] \/ FlightRead(p) \/ flight'[p] \in {Idle, Asked}
  BY FlightMoves
<1>4. Idle \notin Version /\ Asked \notin Version
  BY DEF Idle, Asked, Version, Parameters
<1>5. QED
  BY <1>1, <1>2, <1>3, <1>4

(* What is new in a process's memory is not kept there for too long. *)
LEMMA StepL1Fresh ==
  ASSUME Parameters, TInv, Step, Fresh, ~slow', NEW p \in Procs, l1'[p].val \in Version
  PROVE  l1'[p].until <= ended'[l1'[p].val] + Grace + L1TTL
<1>0. Typed
  BY DEF TInv
<1> DEFINE Goal == l1'[p].until <= ended'[l1'[p].val] + Grace + L1TTL
<1>1. ASSUME l1'[p] = l1[p] PROVE Goal
  BY <1>1, StillL1
<1>2. ASSUME NEW q \in Procs, FlightEnd(q), l1'[p] # l1[p] PROVE Goal
  <2>1. flight[q] \in Version /\ l1'[p] = [val |-> flight[q], until |-> now + L1TTL] /\ ended' = ended
    <3>1. ended' = ended
      BY <1>2, Zenon DEF FlightEnd, facts
    <3>2. QED
      BY <1>0, <1>2, <3>1, FlightEndCalls DEF Typed
  <2>2. now <= ended[flight[q]] + Grace /\ ended[flight[q]] \in Int
    BY <2>1, EndsNow DEF Fresh
  <2>3. QED
    BY <1>0, <2>1, <2>2, Constants
<1>3. ASSUME NEW c \in Calls, SetL1(c), l1'[p] # l1[p] PROVE Goal
  <2>1. l1'[p] = [val |-> calls[c].val, until |-> now + L1TTL] /\ ended' = ended
    BY <1>0, <1>3 DEF SetL1, Typed, facts
  <2>2. now <= ended[calls[c].val] /\ calls[c].val \in Version
    BY <1>3, CallIs DEF SetL1, Fresh, FreshCall, Filling
  <2>3. ended[calls[c].val] \in Int
    BY <2>2, EndsNow
  <2>4. QED
    BY <1>0, <2>1, <2>2, <2>3, Constants
<1>4. ASSUME NEW c \in Calls, DelL1(c), l1'[p] # l1[p] PROVE Goal
  BY <1>0, <1>4, Constants DEF DelL1, Typed
<1>5. ASSUME NEW q \in Procs, Restart(q), l1'[p] # l1[p] PROVE Goal
  BY <1>0, <1>5, Constants DEF Restart, Typed
<1>6. QED
  BY <1>1, <1>2, <1>3, <1>4, <1>5
  DEF Step, StartRead, FlightRead, ReadRow, SetL2, Login, Logout, ChangeList, RevokeAPIKey,
      DelL2, IncrRateLimit, RedisFails, RedisReturns, Tick, tiers

(* What is answered has just been found recent. *)
LEMMA StepCallsFresh ==
  ASSUME Parameters, TInv, Step, Fresh, ~slow'
  PROVE  \A d \in Calls : FreshCall(calls[d])'
<1>0. Typed /\ Grace' = Grace
  BY KindStays DEF TInv, Grace
<1> DEFINE Goal == \A d \in Calls : FreshCall(calls[d])'
<1>1. ASSUME NEW c \in Calls, NEW p \in Procs, StartRead(c, p) PROVE Goal
  <2>0. ended' = ended
    BY <1>1 DEF StartRead, facts
  <2>1. CASE Get(l1[p]) # None
    <3>1. l1[p].val \in Version /\ now < l1[p].until /\ l1[p].until \in Int
      BY <1>0, <2>1, GetIs DEF Typed, Entries
    <3>2. Only(c, [op |-> "read", at |-> p, step |-> "done", val |-> l1[p].val,
                   since |-> known[p], when |-> now])
      BY <1>0, <1>1, <2>1, <3>1, Begun DEF StartRead, Ops, Steps
    <3>3. now < ended'[l1[p].val] + Grace + L1TTL
      <4>1. l1[p].until <= ended[l1[p].val] + Grace + L1TTL /\ ended[l1[p].val] \in Int
        BY <3>1, EndsNow DEF Fresh
      <4>2. QED
        BY <1>0, <2>0, <3>1, <4>1, Constants
    <3>4. FreshCall(calls[c])'
      BY <1>0, <3>2, <3>3 DEF Only, FreshCall, Filling
    <3>5. QED
      BY <3>2, <3>4, OnlyFresh
  <2>2. CASE Get(l1[p]) = None
    <3>1. Only(c, [op |-> "read", at |-> p, step |-> "wait", val |-> None,
                   since |-> known[p], when |-> now])
      BY <1>0, <1>1, <2>2, Begun DEF StartRead, Ops, Steps
    <3>2. FreshCall(calls[c])'
      BY <3>1 DEF Only, FreshCall, Filling
    <3>3. QED
      BY <3>1, <3>2, OnlyFresh
  <2>3. QED
    BY <2>1, <2>2
<1>2. ASSUME NEW p \in Procs, FlightRead(p) PROVE Goal
  BY <1>0, <1>2, Quiet, RestFresh DEF FlightRead
<1>3. ASSUME NEW p \in Procs, FlightEnd(p) PROVE Goal
  <2> DEFINE hit == flight[p] \in Version
             step == IF hit \/ kind = "session" THEN "done" ELSE "row"
             val == IF hit THEN flight[p] ELSE 0
  <2>0. ended' = ended
    BY <1>3, Zenon DEF FlightEnd, facts
  <2>1. val # 0 => now < ended'[val] + Grace + L1TTL
    <3>1. hit => now <= ended[flight[p]] + Grace /\ ended[flight[p]] \in Int
      BY EndsNow DEF Fresh
    <3>2. L1TTL > 0 /\ L1TTL \in Nat
      BY DEF Parameters
    <3>3. QED
      BY <1>0, <2>0, <3>1, <3>2, Constants
  <2>2. step \in {"done", "row"}
    OBVIOUS
  <2>3. \A d \in Calls :
          IF calls[d].at = p /\ calls[d].step = "wait"
          THEN calls'[d] = [op |-> calls[d].op, at |-> p, step |-> step, val |-> val,
                            since |-> calls[d].since, when |-> now]
          ELSE calls'[d] = IF IsFree(d) THEN Free ELSE calls[d]
    BY <1>3, FlightEndCalls
  <2> HIDE DEF step, val
  <2>4. ASSUME NEW d \in Calls PROVE FreshCall(calls[d])'
    <3>1. CASE calls[d].at = p /\ calls[d].step = "wait"
      <4>1. calls'[d] = [op |-> calls[d].op, at |-> p, step |-> step, val |-> val,
                         since |-> calls[d].since, when |-> now]
        BY <2>3, <3>1
      <4>2. QED
        BY <1>0, <2>1, <2>2, <4>1 DEF FreshCall, Filling
    <3>2. CASE ~(calls[d].at = p /\ calls[d].step = "wait")
      <4>1. calls'[d] = Free \/ (calls'[d] = calls[d] /\ ~IsFree(d))
        BY <2>3, <3>2
      <4>2. QED
        BY <4>1, StillFresh
    <3>3. QED
      BY <3>1, <3>2
  <2>5. QED
    BY <2>4
<1>4. ASSUME NEW c \in Calls, ReadRow(c) PROVE Goal
  <2>1. ended' = ended /\ now' = now /\ ~IsFree(c)
    BY <1>4 DEF ReadRow, facts, IsFree
  <2>2. row \in Version \cup {0}
    BY <1>0 DEF Typed, Parameters, Version
  <2>3. Only(c, [op |-> calls[c].op, at |-> calls[c].at, step |-> IF row = 0 THEN "done" ELSE "set1",
                 val |-> row, since |-> calls[c].since, when |-> now])
    BY <1>0, <1>4, <2>1, <2>2, GoneTo DEF ReadRow, Steps, Filling
  <2>4. row # 0 => now <= ended[row]
    BY <1>0, Constants DEF TInv, Ends
  <2>5. FreshCall(calls[c])'
    BY <2>1, <2>3, <2>4 DEF Only, FreshCall, Filling
  <2>6. QED
    BY <2>3, <2>5, OnlyFresh
<1>5. ASSUME NEW c \in Calls, SetL1(c) PROVE Goal
  <2>1. /\ ended' = ended /\ now' = now /\ ~IsFree(c) /\ calls[c].val \in Version
        /\ now <= ended[calls[c].val]
    BY <1>5, CallIs DEF SetL1, facts, IsFree, Filling, Fresh, FreshCall
  <2>2. Only(c, [op |-> calls[c].op, at |-> calls[c].at, step |-> "set2", val |-> calls[c].val,
                 since |-> calls[c].since, when |-> now])
    BY <1>0, <1>5, <2>1, GoneTo DEF SetL1, Steps, Filling
  <2>3. FreshCall(calls[c])'
    BY <2>1, <2>2 DEF Only, FreshCall
  <2>4. QED
    BY <2>2, <2>3, OnlyFresh
<1>6. ASSUME NEW c \in Calls, SetL2(c) PROVE Goal
  <2>1. /\ ended' = ended /\ now' = now /\ ~IsFree(c) /\ calls[c].val \in Version
        /\ now <= ended[calls[c].val]
    BY <1>6, CallIs DEF SetL2, IsFree, Filling, Fresh, FreshCall
  <2>2. Only(c, [op |-> calls[c].op, at |-> calls[c].at, step |-> "done", val |-> calls[c].val,
                 since |-> calls[c].since, when |-> now])
    BY <1>0, <1>6, <2>1, GoneTo DEF SetL2, Steps
  <2>3. now < ended[calls[c].val] + Grace + L1TTL
    <3>1. ended[calls[c].val] \in Int /\ L1TTL > 0 /\ L1TTL \in Nat
      BY <2>1, EndsNow DEF Parameters
    <3>2. QED
      BY <1>0, <2>1, <3>1, Constants
  <2>4. FreshCall(calls[c])'
    BY <1>0, <2>1, <2>2, <2>3 DEF Only, FreshCall, Filling
  <2>5. QED
    BY <2>2, <2>4, OnlyFresh
<1>7. ASSUME NEW c \in Calls, NEW p \in Procs, Login(c, p) PROVE Goal
  <2>1. ended' = ended /\ now' = now /\ ended[1] = Never
    BY <1>7 DEF Login, facts, TInv, Phases, Started
  <2>2. Only(c, [op |-> "login", at |-> p, step |-> "set1", val |-> 1, since |-> known[p],
                 when |-> now])
    BY <1>0, <1>7, Begun, Constants DEF Login, Ops, Steps, Filling
  <2>3. FreshCall(calls[c])'
    BY <1>0, <2>1, <2>2, Constants DEF Only, FreshCall
  <2>4. QED
    BY <2>2, <2>3, OnlyFresh
<1>8. ASSUME NEW c \in Calls, NEW p \in Procs, Logout(c, p) PROVE Goal
  <2>1. Only(c, [op |-> "logout", at |-> p, step |-> "del1", val |-> 1, since |-> known[p],
                 when |-> now])
    BY <1>0, <1>8, Begun, Constants DEF Logout, Ops, Steps, Dropping
  <2>2. FreshCall(calls[c])'
    BY <2>1 DEF Only, FreshCall, Filling
  <2>3. QED
    BY <2>1, <2>2, OnlyFresh
<1>9. ASSUME NEW c \in Calls, NEW p \in Procs, ChangeList(c, p) PROVE Goal
  <2>0. row + 1 \in Version
    BY <1>0, <1>9 DEF ChangeList, Typed, Parameters, Version
  <2>1. Only(c, [op |-> "change", at |-> p, step |-> "del1", val |-> row + 1,
                 since |-> known[p], when |-> now])
    BY <1>0, <1>9, <2>0, Begun DEF ChangeList, Ops, Steps, Dropping
  <2>2. FreshCall(calls[c])'
    BY <2>1 DEF Only, FreshCall, Filling
  <2>3. QED
    BY <2>1, <2>2, OnlyFresh
<1>10. ASSUME NEW c \in Calls, DelL1(c) \/ DelL2(c) PROVE Goal
  <2>1. /\ ~IsFree(c) /\ calls[c].val \in Version \cup {None, 0}
        /\ calls[c].op \in {"change", "logout"}
    BY <1>10, CallIs DEF DelL1, DelL2, IsFree, Dropping
  <2>2. PICK s \in {"del2", "done"} :
          Only(c, [op |-> calls[c].op, at |-> calls[c].at, step |-> s, val |-> calls[c].val,
                   since |-> calls[c].since, when |-> now])
    BY <1>0, <1>10, <2>1, GoneTo DEF DelL1, DelL2, Steps, Dropping
  <2>3. FreshCall(calls[c])'
    BY <2>1, <2>2 DEF Only, FreshCall, Filling
  <2>4. QED
    BY <2>2, <2>3, OnlyFresh
<1>11. ASSUME NEW p \in Procs, Restart(p) PROVE Goal
  <2>1. \A d \in Calls : calls'[d] = Free \/ (calls'[d] = calls[d] /\ ~IsFree(d))
    BY <1>0, <1>11, OpenIs DEF Restart
  <2>2. QED
    BY <2>1, StillFresh
<1>12. ASSUME RevokeAPIKey \/ IncrRateLimit \/ RedisFails \/ RedisReturns \/ Tick PROVE Goal
  <2>1. calls' = Open
    BY <1>12 DEF RevokeAPIKey, IncrRateLimit, RedisFails, RedisReturns, Tick
  <2>2. QED
    BY <1>0, <2>1, Quiet, RestFresh
<1>13. QED
  BY <1>1, <1>2, <1>3, <1>4, <1>5, <1>6, <1>7, <1>8, <1>9, <1>10, <1>11, <1>12 DEF Step

(* Every step keeps everything fresh while calls are quick. *)
LEMMA StepFresh ==
  ASSUME Parameters, TInv, Step, Session, Fresh, ~slow'
  PROVE  Fresh'
<1>1. Grace' = Grace /\ Version' = Version /\ kind' = kind
  BY KindStays DEF Grace, Version
<1>2. QED
  BY <1>1, StepL1Fresh, StepL2Fresh, StepFlightFresh, StepCallsFresh DEF Fresh

-----------------------------------------------------------------------------
(* While a process answers a change of its own, it reads nothing. *)
LEMMA Apart ==
  ASSUME Parameters, TInv, Own, NEW c \in Calls, calls[c].step \in Dropping
  PROVE  /\ flight[calls[c].at] = Idle
         /\ \A d \in Calls : calls[d].at = calls[c].at /\ ~IsFree(d) =>
              calls[d].step \in Dropping /\ calls[d].op # "none"
<1>1. Changing(c) /\ calls[c].at \in Procs /\ Phase(calls[c])
  BY CallIs DEF Changing, IsFree, Dropping, TInv, Phases, Started
<1>2. \A d \in Calls : calls[d].at = calls[c].at => ~Reading(d)
  BY <1>1 DEF Own, Overlapping
<1>3. flight[calls[c].at] = Idle
  BY <1>1, <1>2 DEF TInv, Phases, Waits, Reading, IsFree
<1>4. ASSUME NEW d \in Calls, calls[d].at = calls[c].at, ~IsFree(d)
      PROVE  calls[d].step \in Dropping /\ calls[d].op # "none"
  <2>1. Phase(calls[d]) /\ calls[d].op \in Ops /\ calls[d].op # "read" /\ calls[c].op \in Ops
    BY <1>2, <1>4, CallIs DEF TInv, Phases, Started, Reading
  <2>2. calls[d].op # "login"
    BY <1>1, <1>4, <2>1, CallIs DEF Phase, IsFree, Dropping, Filling
  <2>3. QED
    BY <1>4, <2>1, <2>2 DEF Phase, IsFree, Ops
<1>5. QED
  BY <1>3, <1>4

(* A call that does not move still fits what its process knows. *)
LEMMA StillOwn ==
  ASSUME Parameters, TInv, Own, NEW d \in Calls,
         calls'[d] = Free \/ (calls'[d] = calls[d] /\ ~IsFree(d)),
         ~IsFree(d) => known'[calls[d].at] = known[calls[d].at],
         calls[d].step = "del2" => l1'[calls[d].at] \in {l1[calls[d].at], Absent}
  PROVE  OwnCall(calls[d])'
<1>1. CASE calls'[d] = Free
  BY <1>1, FreeIsSlot DEF OwnCall, Filling
<1>2. CASE calls'[d] = calls[d] /\ ~IsFree(d)
  <2>1. OwnCall(calls[d]) /\ Absent' = Absent
    BY DEF Own, Absent
  <2>2. QED
    BY <1>2, <2>1 DEF OwnCall, IsFree
<1>3. QED
  BY <1>1, <1>2

(* One call moves to a slot that fits what its process knows, the others stay so. *)
LEMMA OnlyOwn ==
  ASSUME Parameters, TInv, Own, known' = known, NEW c \in Calls, NEW s, Only(c, s),
         OwnCall(calls[c])',
         \A d \in Calls \ {c} : calls[d].step = "del2" => l1'[calls[d].at] \in {l1[calls[d].at], Absent}
  PROVE  \A d \in Calls : OwnCall(calls[d])'
<1>1. \A d \in Calls \ {c} : calls'[d] = Free \/ (calls'[d] = calls[d] /\ ~IsFree(d))
  BY DEF Only, Rest
<1>2. \A d \in Calls \ {c} : OwnCall(calls[d])'
  BY <1>1, StillOwn
<1>3. QED
  BY <1>2

(* No call moves and no memory changes: all fit what their processes know. *)
LEMMA RestOwn ==
  ASSUME Parameters, TInv, Own, known' = known, l1' = l1, Rest(Calls)
  PROVE  \A d \in Calls : OwnCall(calls[d])'
<1>1. \A d \in Calls : calls'[d] = Free \/ (calls'[d] = calls[d] /\ ~IsFree(d))
  BY DEF Rest
<1>2. QED
  BY <1>1, StillOwn

(* What a process may be told has not been changed by it since. *)
LEMMA StepFlightOwn ==
  ASSUME Parameters, TInv, Step, Own, Session, NEW p \in Procs, flight'[p] \in Version
  PROVE  known'[p] <= flight'[p]
<1>0. Typed /\ Waits'
  BY StepPhases DEF TInv, Phases
<1>1. CASE flight'[p] = flight[p]
  <2>1. ASSUME NEW c \in Calls, DelL2(c) PROVE known'[p] = known[p]
    <3>1. calls[c].at # p
      BY <1>1, <2>1, Apart, Constants DEF DelL2, Dropping, Idle, Version
    <3>2. QED
      BY <1>0, <2>1, <3>1 DEF DelL2, Typed
  <2>2. known'[p] = known[p]
    BY <2>1 DEF Step, StartRead, FlightRead, FlightEnd, ReadRow, SetL1, SetL2, Login, Logout,
                ChangeList, RevokeAPIKey, DelL1, IncrRateLimit, Restart, RedisFails, RedisReturns,
                Tick, facts
  <2>3. QED
    BY <1>1, <2>2 DEF Own
<1>2. ASSUME FlightRead(p) PROVE known'[p] <= flight'[p]
  <2>1. kind \in {"key", "session"} /\ known' = known
    <3>1. kind' = "list" => flight'[p] \notin Version
      BY <1>0 DEF Waits, Version
    <3>2. \E c \in Calls : calls[c].op = "read" /\ calls[c].step = "wait" /\ calls[c].at = p
      BY <1>2 DEF TInv, Phases, Waits, FlightRead, Idle, Asked
    <3>3. kind # "rate"
      BY <3>2 DEF TInv, Phases, Started, Phase
    <3>4. QED
      BY <1>0, <1>2, <3>1, <3>3, KindStays DEF Typed, FlightRead, facts
  <2>2. flight'[p] = Get(l2)
    <3>1. Failed \notin Version /\ None \notin Version
      BY <1>0, Constants DEF Failed, Version, Parameters
    <3>2. QED
      BY <1>0, <1>2, <3>1 DEF FlightRead, Typed
  <2>3. flight'[p] = l2.val
    BY <1>0, <2>2, GetIs, Constants DEF Typed
  <2>4. known[p] = 1
    BY <2>1, <2>3 DEF TInv, Phases, Knows, Session
  <2>5. QED
    BY <2>1, <2>4 DEF Version, Parameters
<1>3. flight'[p] = flight[p] \/ FlightRead(p) \/ flight'[p] \in {Idle, Asked}
  BY FlightMoves
<1>4. Idle \notin Version /\ Asked \notin Version
  BY DEF Idle, Asked, Version, Parameters
<1>5. QED
  BY <1>1, <1>2, <1>3, <1>4

(* What is new in a process's memory is no older than its own changes. *)
LEMMA StepL1Own ==
  ASSUME Parameters, TInv, Step, Own, NEW p \in Procs, l1'[p].val \in Version
  PROVE  known'[p] <= l1'[p].val
<1>0. Typed
  BY DEF TInv
<1> DEFINE Goal == known'[p] <= l1'[p].val
<1>1. ASSUME NEW q \in Procs, FlightEnd(q) PROVE Goal
  <2>1. known' = known
    BY <1>1, Zenon DEF FlightEnd, facts
  <2>2. CASE l1'[p] = l1[p]
    BY <2>1, <2>2 DEF Own
  <2>3. CASE l1'[p] # l1[p]
    <3>1. q = p /\ flight[q] \in Version /\ l1'[p] = [val |-> flight[q], until |-> now + L1TTL]
      BY <1>0, <1>1, <2>3, FlightEndCalls DEF Typed
    <3>2. QED
      BY <2>1, <3>1 DEF Own
  <2>4. QED
    BY <2>2, <2>3
<1>2. ASSUME NEW c \in Calls, SetL1(c) PROVE Goal
  <2>1. known' = known /\ l1' = [l1 EXCEPT ![calls[c].at] = [val |-> calls[c].val, until |-> now + L1TTL]]
    BY <1>2 DEF SetL1, facts
  <2>2. known[calls[c].at] <= calls[c].val
    BY <1>2 DEF SetL1, Own, OwnCall, Filling
  <2>3. QED
    BY <1>0, <2>1, <2>2 DEF Own, Typed
<1>3. ASSUME NEW c \in Calls, DelL1(c) PROVE Goal
  BY <1>0, <1>3, Constants DEF DelL1, facts, Own, Typed
<1>4. ASSUME NEW q \in Procs, Restart(q) PROVE Goal
  BY <1>0, <1>4, Constants DEF Restart, facts, Own, Typed
<1>5. ASSUME NEW c \in Calls, DelL2(c) PROVE Goal
  <2>1. l1' = l1 /\ l1[calls[c].at].val \notin Version
    BY <1>0, <1>5, Constants DEF DelL2, Own, OwnCall
  <2>2. known'[p] = known[p]
    BY <1>0, <1>5, <2>1 DEF DelL2, Typed
  <2>3. QED
    BY <2>1, <2>2 DEF Own
<1>6. ASSUME l1' = l1, known' = known PROVE Goal
  BY <1>6 DEF Own
<1>7. QED
  BY <1>1, <1>2, <1>3, <1>4, <1>5, <1>6
  DEF Step, StartRead, FlightRead, ReadRow, SetL2, Login, Logout, ChangeList, RevokeAPIKey,
      IncrRateLimit, RedisFails, RedisReturns, Tick, tiers, facts

(* What a call holds after a step is no older than its process's own changes. *)
LEMMA StepCallsOwn ==
  ASSUME Parameters, TInv, Step, Own
  PROVE  \A d \in Calls : OwnCall(calls[d])'
<1>0. Typed /\ known \in [Procs -> Version \cup {2}] /\ Version \cup {2} \subseteq Int
  BY Constants DEF TInv, Typed
<1> DEFINE Goal == \A d \in Calls : OwnCall(calls[d])'
<1>1. ASSUME NEW c \in Calls, NEW p \in Procs, StartRead(c, p) PROVE Goal
  <2>1. known' = known /\ l1' = l1
    BY <1>1 DEF StartRead, facts
  <2>2. CASE Get(l1[p]) # None
    <3>1. l1[p].val \in Version /\ known[p] <= l1[p].val
      BY <1>0, <2>2, GetIs DEF Typed, Own
    <3>2. Only(c, [op |-> "read", at |-> p, step |-> "done", val |-> l1[p].val,
                   since |-> known[p], when |-> now])
      BY <1>0, <1>1, <2>2, <3>1, Begun DEF StartRead, Ops, Steps
    <3>3. OwnCall(calls[c])'
      BY <1>0, <2>1, <3>1, <3>2 DEF Only, OwnCall, Filling
    <3>4. QED
      BY <2>1, <3>2, <3>3, OnlyOwn
  <2>3. CASE Get(l1[p]) = None
    <3>1. Only(c, [op |-> "read", at |-> p, step |-> "wait", val |-> None,
                   since |-> known[p], when |-> now])
      BY <1>0, <1>1, <2>3, Begun DEF StartRead, Ops, Steps
    <3>2. OwnCall(calls[c])'
      BY <1>0, <2>1, <3>1 DEF Only, OwnCall, Filling
    <3>3. QED
      BY <2>1, <3>1, <3>2, OnlyOwn
  <2>4. QED
    BY <2>2, <2>3
<1>2. ASSUME NEW p \in Procs, FlightRead(p) PROVE Goal
  BY <1>0, <1>2, Quiet, RestOwn DEF FlightRead, facts
<1>3. ASSUME NEW p \in Procs, FlightEnd(p) PROVE Goal
  <2> DEFINE hit == flight[p] \in Version
             step == IF hit \/ kind = "session" THEN "done" ELSE "row"
             val == IF hit THEN flight[p] ELSE 0
  <2>1. known' = known
    BY <1>3, Zenon DEF FlightEnd, facts
  <2>2. val # 0 => known[p] <= val
    BY DEF Own
  <2>3. step \in {"done", "row"}
    OBVIOUS
  <2>4. \A d \in Calls :
          IF calls[d].at = p /\ calls[d].step = "wait"
          THEN calls'[d] = [op |-> calls[d].op, at |-> p, step |-> step, val |-> val,
                            since |-> calls[d].since, when |-> now]
          ELSE calls'[d] = IF IsFree(d) THEN Free ELSE calls[d]
    BY <1>3, FlightEndCalls
  <2>5. \A q \in Procs : q # p => l1'[q] = l1[q]
    BY <1>0, <1>3, FlightEndCalls DEF Typed
  <2>6. \A d \in Calls : calls[d].step = "del2" => calls[d].at # p /\ calls[d].at \in Procs
    BY <1>3, Apart, CallIs DEF FlightEnd, Dropping, IsFree
  <2> HIDE DEF step, val
  <2>7. ASSUME NEW d \in Calls PROVE OwnCall(calls[d])'
    <3>1. CASE calls[d].at = p /\ calls[d].step = "wait"
      <4>1. calls'[d] = [op |-> calls[d].op, at |-> p, step |-> step, val |-> val,
                         since |-> calls[d].since, when |-> now]
        BY <2>4, <3>1
      <4>2. OwnCall(calls[d]) /\ calls[d].since \in Int /\ calls[d].op # "none"
        BY <1>0, <3>1 DEF Own, Typed, Slots, TInv, Phases, Started, Phase
      <4>3. calls[d].since <= known[p] /\ (val # 0 => calls[d].since <= val)
        <5>1. calls[d].since <= known[p] /\ known[p] \in Int
          BY <1>0, <3>1, <4>2 DEF OwnCall
        <5>2. val \in Int
          BY <1>0, Constants DEF val
        <5>3. QED
          BY <2>2, <4>2, <5>1, <5>2
      <4>4. QED
        BY <2>1, <2>3, <4>1, <4>3 DEF OwnCall, Filling
    <3>2. CASE ~(calls[d].at = p /\ calls[d].step = "wait")
      <4>1. calls'[d] = Free \/ (calls'[d] = calls[d] /\ ~IsFree(d))
        BY <2>4, <3>2
      <4>2. QED
        BY <2>1, <2>5, <2>6, <4>1, StillOwn
    <3>3. QED
      BY <3>1, <3>2
  <2>8. QED
    BY <2>7
<1>4. ASSUME NEW c \in Calls, ReadRow(c) PROVE Goal
  <2>1. /\ known' = known /\ l1' = l1 /\ ~IsFree(c) /\ calls[c].step = "row" /\ OwnCall(calls[c])
        /\ calls[c].op = "read" /\ kind \in {"key", "list"} /\ calls[c].at \in Procs
    BY <1>0, <1>4, CallIs DEF ReadRow, facts, tiers, IsFree, Own, TInv, Phases, Started, Phase, Ops,
                              Dropping, Filling, Typed
  <2>2. row \in Version \cup {0}
    BY <1>0 DEF Typed, Parameters, Version
  <2>3. Only(c, [op |-> calls[c].op, at |-> calls[c].at, step |-> IF row = 0 THEN "done" ELSE "set1",
                 val |-> row, since |-> calls[c].since, when |-> now])
    BY <1>0, <1>4, <2>1, <2>2, GoneTo DEF ReadRow, Steps, Filling
  <2>4. row # 0 => known[calls[c].at] <= row
    BY <1>0, <2>1, <2>2 DEF TInv, Phases, Knows, Typed
  <2>5. OwnCall(calls[c])'
    BY <2>1, <2>3, <2>4 DEF Only, OwnCall, Filling
  <2>6. QED
    BY <2>1, <2>3, <2>5, OnlyOwn
<1>5. ASSUME NEW c \in Calls, SetL1(c) PROVE Goal
  <2>1. /\ known' = known /\ ~IsFree(c) /\ calls[c].val \in Version /\ calls[c].at \in Procs
        /\ calls[c].step = "set1" /\ OwnCall(calls[c]) /\ calls[c].op # "none"
    BY <1>5, CallIs DEF SetL1, facts, IsFree, Filling, Own, TInv, Phases, Started, Phase
  <2>2. Only(c, [op |-> calls[c].op, at |-> calls[c].at, step |-> "set2", val |-> calls[c].val,
                 since |-> calls[c].since, when |-> now])
    BY <1>0, <1>5, <2>1, GoneTo DEF SetL1, Steps, Filling
  <2>3. OwnCall(calls[c])'
    BY <2>1, <2>2 DEF Only, OwnCall, Filling
  <2>4. \A d \in Calls : calls[d].step = "del2" => calls[d].at # calls[c].at /\ calls[d].at \in Procs
    BY <2>1, Apart, CallIs DEF Dropping, IsFree
  <2>5. \A q \in Procs : q # calls[c].at => l1'[q] = l1[q]
    BY <1>0, <1>5 DEF SetL1, Typed
  <2>6. QED
    BY <2>1, <2>2, <2>3, <2>4, <2>5, OnlyOwn
<1>6. ASSUME NEW c \in Calls, SetL2(c) PROVE Goal
  <2>1. /\ known' = known /\ l1' = l1 /\ ~IsFree(c) /\ calls[c].val \in Version
        /\ calls[c].at \in Procs /\ calls[c].step = "set2" /\ OwnCall(calls[c])
        /\ calls[c].op # "none" /\ calls[c].since \in Int
    BY <1>0, <1>6, CallIs DEF SetL2, IsFree, Filling, Own, TInv, Phases, Started, Phase, Slots
  <2>2. Only(c, [op |-> calls[c].op, at |-> calls[c].at, step |-> "done", val |-> calls[c].val,
                 since |-> calls[c].since, when |-> now])
    BY <1>0, <1>6, <2>1, GoneTo DEF SetL2, Steps
  <2>3. calls[c].since <= calls[c].val
    BY <1>0, <2>1, Constants DEF OwnCall, Filling
  <2>4. OwnCall(calls[c])'
    BY <2>1, <2>2, <2>3 DEF Only, OwnCall, Filling
  <2>5. QED
    BY <2>1, <2>2, <2>4, OnlyOwn
<1>7. ASSUME NEW c \in Calls, NEW p \in Procs, Login(c, p) PROVE Goal
  <2>1. known' = known /\ l1' = l1 /\ known[p] = 1
    BY <1>7 DEF Login, facts, tiers, TInv, Phases, Started, Knows
  <2>2. Only(c, [op |-> "login", at |-> p, step |-> "set1", val |-> 1, since |-> known[p],
                 when |-> now])
    BY <1>0, <1>7, Begun, Constants DEF Login, Ops, Steps, Filling
  <2>3. OwnCall(calls[c])'
    BY <2>1, <2>2 DEF Only, OwnCall
  <2>4. QED
    BY <2>1, <2>2, <2>3, OnlyOwn
<1>8. ASSUME NEW c \in Calls, NEW p \in Procs, Logout(c, p) PROVE Goal
  <2>1. Only(c, [op |-> "logout", at |-> p, step |-> "del1", val |-> 1, since |-> known[p],
                 when |-> now])
    BY <1>0, <1>8, Begun, Constants DEF Logout, Ops, Steps, Dropping
  <2>2. known' = known /\ l1' = l1
    BY <1>8 DEF Logout, facts, tiers
  <2>3. OwnCall(calls[c])'
    BY <1>0, <2>1, <2>2 DEF Only, OwnCall, Filling
  <2>4. QED
    BY <2>1, <2>2, <2>3, OnlyOwn
<1>9. ASSUME NEW c \in Calls, NEW p \in Procs, ChangeList(c, p) PROVE Goal
  <2>1. row + 1 \in Version /\ known' = known /\ l1' = l1
    BY <1>0, <1>9 DEF ChangeList, Typed, Parameters, Version, tiers
  <2>2. Only(c, [op |-> "change", at |-> p, step |-> "del1", val |-> row + 1,
                 since |-> known[p], when |-> now])
    BY <1>0, <1>9, <2>1, Begun DEF ChangeList, Ops, Steps, Dropping
  <2>3. OwnCall(calls[c])'
    BY <1>0, <2>1, <2>2 DEF Only, OwnCall, Filling
  <2>4. QED
    BY <2>1, <2>2, <2>3, OnlyOwn
<1>10. ASSUME NEW c \in Calls, DelL1(c) PROVE Goal
  <2>1. /\ ~IsFree(c) /\ calls[c].val \in Version \cup {None, 0} /\ calls[c].at \in Procs
        /\ calls[c].op \in {"change", "logout"} /\ OwnCall(calls[c]) /\ known' = known
    BY <1>10, CallIs DEF DelL1, IsFree, Dropping, Own, facts
  <2>2. Only(c, [op |-> calls[c].op, at |-> calls[c].at, step |-> "del2", val |-> calls[c].val,
                 since |-> calls[c].since, when |-> now])
    BY <1>0, <1>10, <2>1, GoneTo DEF DelL1, Steps, Dropping
  <2>3. l1'[calls[c].at] = Absent /\ Absent' = Absent /\ \A q \in Procs : l1'[q] \in {l1[q], Absent}
    BY <1>0, <1>10, <2>1 DEF DelL1, Typed, Absent
  <2>4. OwnCall(calls[c])'
    BY <2>1, <2>2, <2>3 DEF Only, OwnCall, Filling
  <2>5. \A d \in Calls : calls[d].step = "del2" => calls[d].at \in Procs
    BY CallIs DEF IsFree
  <2>6. QED
    BY <2>1, <2>2, <2>3, <2>4, <2>5, OnlyOwn
<1>11. ASSUME NEW c \in Calls, DelL2(c) PROVE Goal
  <2>1. /\ ~IsFree(c) /\ calls[c].val \in Version \cup {None, 0} /\ calls[c].at \in Procs
        /\ calls[c].op \in {"change", "logout"} /\ OwnCall(calls[c]) /\ l1' = l1
        /\ calls[c].op = "change" => calls[c].val \in 1..row
    BY <1>11, CallIs DEF DelL2, IsFree, Dropping, Own
  <2>2. Only(c, [op |-> calls[c].op, at |-> calls[c].at, step |-> "done", val |-> calls[c].val,
                 since |-> calls[c].since, when |-> now])
    BY <1>0, <1>11, <2>1, GoneTo DEF DelL2, Steps
  <2> DEFINE p == calls[c].at
             new == IF calls[c].op = "logout" THEN 2 ELSE calls[c].val
             m == Max({known[p], new})
  <2>3. known[p] \in Int /\ m >= known[p] /\ m \in Int
    <3>1. known[p] \in Int
      BY <1>0, <2>1
    <3>2. new \in Int
      BY <2>1, Constants DEF TInv
    <3> HIDE DEF new
    <3>3. m \in {known[p], new} /\ m >= known[p]
      BY <3>1, <3>2, MaxOfTwo
    <3> HIDE DEF m
    <3>4. QED
      BY <3>1, <3>2, <3>3
  <2>4. known' = [known EXCEPT ![p] = m]
    BY <1>11 DEF DelL2
  <2> HIDE DEF m, new
  <2>5. \A q \in Procs : known'[q] = known[q] \/ (q = p /\ known'[q] = m)
    BY <1>0, <2>4
  <2>6. ASSUME NEW d \in Calls PROVE OwnCall(calls[d])'
    <3>1. OwnCall(calls[d]) /\ calls[d] \in Slots /\ calls[d].since \in Int /\ Absent' = Absent
      BY <1>0 DEF Own, Typed, Slots, Absent
    <3>2. CASE d = c
      <4>1. known'[p] = m /\ calls[c].since <= m
        BY <1>0, <2>1, <2>3, <2>4, <3>1, <3>2 DEF OwnCall
      <4>2. QED
        BY <2>1, <2>2, <3>2, <4>1 DEF Only, OwnCall, Filling
    <3>3. CASE d # c /\ IsFree(d)
      BY <2>2, <3>3, FreeIsSlot DEF Only, Rest, OwnCall, Filling
    <3>4. CASE d # c /\ ~IsFree(d)
      <4>1. calls'[d] = calls[d] /\ calls[d].at \in Procs
        BY <2>2, <3>4, CallIs DEF Only, Rest
      <4>2. CASE calls[d].at # p
        BY <2>1, <2>5, <3>1, <3>4, <4>1, <4>2 DEF OwnCall, IsFree
      <4>3. CASE calls[d].at = p
        <5>1. calls[d].step \in Dropping /\ calls[d].op # "none"
          BY <1>11, <3>4, <4>3, Apart DEF DelL2, Dropping
        <5>2. calls[d].since <= known'[p]
          BY <1>0, <2>1, <2>3, <2>4, <3>1, <4>3, <5>1 DEF OwnCall
        <5>3. QED
          BY <2>1, <3>1, <4>1, <4>3, <5>1, <5>2 DEF OwnCall, Filling, Dropping
      <4>4. QED
        BY <4>2, <4>3
    <3>5. QED
      BY <3>2, <3>3, <3>4
  <2>7. QED
    BY <2>6
<1>12. ASSUME NEW p \in Procs, Restart(p) PROVE Goal
  <2>1. \A d \in Calls : calls'[d] = Free \/ (calls'[d] = calls[d] /\ ~IsFree(d))
    BY <1>0, <1>12, OpenIs DEF Restart
  <2>2. known' = known /\ \A q \in Procs : l1'[q] \in {l1[q], Absent}
    BY <1>0, <1>12 DEF Restart, facts, Typed
  <2>3. \A d \in Calls : calls[d].step = "del2" => calls[d].at \in Procs
    BY CallIs DEF IsFree
  <2>4. QED
    BY <2>1, <2>2, <2>3, StillOwn
<1>13. ASSUME RevokeAPIKey \/ IncrRateLimit \/ RedisFails \/ RedisReturns \/ Tick PROVE Goal
  <2>1. calls' = Open /\ known' = known /\ l1' = l1
    BY <1>13 DEF RevokeAPIKey, IncrRateLimit, RedisFails, RedisReturns, Tick, tiers, facts
  <2>2. QED
    BY <1>0, <2>1, Quiet, RestOwn
<1>14. QED
  BY <1>1, <1>2, <1>3, <1>4, <1>5, <1>6, <1>7, <1>8, <1>9, <1>10, <1>11, <1>12, <1>13 DEF Step

(* Every step keeps a process's own changes in sight, unless a change and a read overlap. *)
LEMMA StepOwn ==
  ASSUME Parameters, TInv, Step, Session, Own, ~Overlapping'
  PROVE  Own'
<1>1. Version' = Version
  BY DEF Version
<1>2. QED
  BY <1>1, StepL1Own, StepFlightOwn, StepCallsOwn DEF Own

-----------------------------------------------------------------------------
(* The caches start empty, so all invariants hold at first. *)
LEMMA InitInv == ASSUME Parameters, Init PROVE TInv /\ Session /\ Fresh /\ Own
<1>1. Never \in Nat /\ Never # 0 /\ Version \subseteq Int /\ 1 \in Version /\ 0 \notin Version
      /\ None \notin Version
  BY DEF Never, Version, Parameters
<1>2. /\ Absent \in Entries /\ Absent.val = None /\ Absent.until = 0 /\ Free \in Slots
      /\ Free.step = "done" /\ Free.op = "none"
  BY FreeIsSlot DEF Absent, Entries
<1>3. /\ ended = [v \in Version |-> Never] /\ l1 = [p \in Procs |-> Absent] /\ l2 = Absent
      /\ calls = [c \in Calls |-> Free] /\ flight = [p \in Procs |-> Idle] /\ now = 0
      /\ known = [p \in Procs |-> 1] /\ ops = 0 /\ row \in {0, 1} /\ Idle \notin Version
      /\ kind \in {"key", "list", "session", "rate"} /\ row = IF kind = "session" THEN 0 ELSE 1
      /\ redis \in {"up", "none"} /\ (kind = "session" => redis = "up")
  BY DEF Init, Version, Idle
<1>4. Typed
  BY <1>1, <1>2, <1>3 DEF Typed, Parameters
<1>5. Ends
  <2>1. Grace + L1TTL >= 0 /\ KeyTTL >= 0 /\ Grace \in Nat /\ L1TTL \in Nat /\ KeyTTL \in Nat
    BY DEF Grace, Parameters
  <2>2. QED
    BY <1>1, <1>2, <1>3, <2>1 DEF Ends
<1>6. Phases
  BY <1>1, <1>2, <1>3 DEF Phases, Started, Knows, Waits, Phase, IsFree, Filling, Dropping
<1>7. Session /\ Fresh
  BY <1>1, <1>2, <1>3 DEF Session, Fresh, FreshCall, Filling
<1>8. Own
  <2>1. ~Overlapping
    BY <1>2, <1>3 DEF Overlapping, Changing
  <2>2. \A c \in Calls : OwnCall(calls[c])
    BY <1>2, <1>3 DEF OwnCall, Filling
  <2>3. QED
    BY <1>1, <1>2, <1>3, <2>1, <2>2 DEF Own
<1>9. QED
  BY <1>4, <1>5, <1>6, <1>7, <1>8 DEF TInv

(* A step that changes nothing keeps the invariants. *)
LEMMA StutterInv ==
  ASSUME TInv, UNCHANGED vars
  PROVE  /\ TInv' /\ (Session => Session') /\ (Fresh => Fresh') /\ (Own => Own')
         /\ slow' = slow /\ outage' = outage /\ overlap' = overlap
<1>1. UNCHANGED <<kind, redis, now, l1, l2, row, flight, calls, ended, known, ops, slow, outage, overlap>>
  BY DEF vars
<1>2. TInv'
  <2>1. Typed' /\ Ends'
    BY <1>1 DEF TInv, Typed, Ends, Grace
  <2>2. Phases'
    BY <1>1 DEF TInv, Phases, Started, Knows, Waits, Phase, IsFree
  <2>3. QED
    BY <2>1, <2>2 DEF TInv
<1>3. Session => Session'
  BY <1>1 DEF Session
<1>4. Fresh => Fresh'
  BY <1>1 DEF Fresh, FreshCall, Grace
<1>5. Own => Own'
  BY <1>1 DEF Own, OwnCall, Overlapping, Changing, Reading, IsFree
<1>6. QED
  BY <1>1, <1>2, <1>3, <1>4, <1>5

(* No step but a request changes the counter, and none turns the clock back or Redis off. *)
LEMMA StepMeters ==
  ASSUME Parameters, TInv, Step
  PROVE  /\ IncrRateLimit \/ UNCHANGED <<rate, passed>>
         /\ now' \in {now, now + 1} /\ now \in Nat
         /\ redis = "none" <=> redis' = "none"
<1>1. IncrRateLimit \/ UNCHANGED <<rate, passed>>
  BY Zenon DEF Step, StartRead, FlightRead, FlightEnd, ReadRow, SetL1, SetL2, Login, Logout, ChangeList,
     RevokeAPIKey, DelL1, DelL2, Restart, RedisFails, RedisReturns, Tick, facts
<1>2. now' \in {now, now + 1} /\ now \in Nat
  <2>1. now' = now \/ now' = now + 1
    BY Zenon DEF Step, StartRead, FlightRead, FlightEnd, ReadRow, SetL1, SetL2, Login, Logout, ChangeList,
       RevokeAPIKey, IncrRateLimit, DelL1, DelL2, Restart, RedisFails, RedisReturns, Tick
  <2>2. QED
    BY <2>1 DEF TInv, Typed
<1>3. redis = "none" <=> redis' = "none"
  <2>1. redis' = redis \/ RedisFails \/ RedisReturns
    BY Zenon DEF Step, StartRead, FlightRead, FlightEnd, ReadRow, SetL1, SetL2, Login, Logout, ChangeList,
       RevokeAPIKey, IncrRateLimit, DelL1, DelL2, Restart, Tick
  <2>2. QED
    BY <2>1 DEF RedisFails, RedisReturns
<1>4. QED
  BY <1>1, <1>2, <1>3

(* A request is let through: fewer than the limit came in this window, the others a window ago. *)
LEMMA LetThrough ==
  ASSUME Parameters, Metered, now \in Nat, now' = now, rate' = Counted, rate'.val <= Limit,
         passed' = Append(passed, now)
  PROVE  Metered'
<1> DEFINE live == now < rate.until
<1> PICK n \in Nat : n <= rate.val /\ \A i \in 1..(Len(passed) - n) : passed[i] + Window <= now
  BY DEF Metered
<1> PICK m \in Nat : m = Len(passed)
  BY DEF Metered
<1> PICK k \in Nat : k = IF live THEN n + 1 ELSE 1
  OBVIOUS
<1>1. /\ Window \in Nat /\ Limit \in Nat /\ rate.val \in Nat /\ rate.until \in Int
      /\ passed \in Seq(Int) /\ DOMAIN passed = 1..m
      /\ rate'.val = (IF live THEN rate.val ELSE 0) + 1 /\ rate'.until = now + Window
      /\ rate' \in [val : Nat, until : Int]
  BY DEF Metered, Counted, Parameters
<1>2. /\ passed' \in Seq(Int) /\ Len(passed') = m + 1 /\ DOMAIN passed' = 1..(m + 1)
      /\ passed'[m + 1] = now /\ \A i \in 1..m : passed'[i] = passed[i]
  BY <1>1
<1>3. \A i \in 1..m : passed[i] \in Int /\ passed[i] <= now /\ passed[i] + Window <= rate.until
  <2>1. \A i \in DOMAIN passed : passed[i] <= now /\ passed[i] + Window <= rate.until
    BY DEF Metered
  <2>2. \A i \in DOMAIN passed : passed[i] \in Int
    BY <1>1
  <2>3. QED
    BY <1>1, <2>1, <2>2
<1>4. k <= rate'.val /\ k >= 1
  BY <1>1
<1>5. \A i \in 1..(m + 1 - k) : i \in 1..m /\ passed[i] + Window <= now
  <2>1. CASE live
    BY <2>1
  <2>2. CASE ~live
    BY <1>1, <1>3, <2>2
  <2>3. QED
    BY <2>1, <2>2
<1> HIDE DEF live
<1>6. \A i \in 1..(m + 1) : passed'[i] <= now' /\ passed'[i] + Window <= rate'.until
  BY <1>1, <1>2, <1>3
<1>7. k <= rate'.val /\ \A i \in 1..(Len(passed') - k) : passed'[i] + Window <= now'
  BY <1>2, <1>4, <1>5
<1>8. ASSUME NEW i \in 1..(m + 1), i + Limit \in 1..(m + 1)
      PROVE  passed'[i] + Window <= passed'[i + Limit]
  <2> PICK j \in 1..(m + 1) : j = i + Limit
    BY <1>8
  <2>0. Limit \in Nat /\ i <= j
    BY DEF Parameters
  <2>1. CASE j \in 1..m
    <3>1. i \in 1..m
      BY <2>0, <2>1
    <3>2. passed[i] + Window <= passed[i + Limit]
      BY <1>1, <2>1, <3>1 DEF Metered
    <3>3. QED
      BY <1>2, <2>1, <3>1, <3>2
  <2>2. CASE j = m + 1
    <3>1. i \in 1..(m + 1 - k)
      BY <1>1, <1>4, <2>2
    <3>2. QED
      BY <1>2, <1>5, <2>2, <3>1
  <2>3. QED
    BY <2>1, <2>2
<1>9. QED
  BY <1>1, <1>2, <1>6, <1>7, <1>8 DEF Metered

(* A request is refused: it counts, and the window is renewed. *)
LEMMA TurnedAway ==
  ASSUME Parameters, Metered, now \in Nat, now' = now, rate' = Counted, passed' = passed
  PROVE  Metered'
<1> PICK n \in Nat : n <= rate.val /\ \A i \in 1..(Len(passed) - n) : passed[i] + Window <= now
  BY DEF Metered
<1> PICK m \in Nat : m = Len(passed)
  BY DEF Metered
<1> PICK k \in Nat : k = IF now < rate.until THEN n ELSE 0
  OBVIOUS
<1>1. /\ Window \in Nat /\ rate.val \in Nat /\ rate.until \in Int
      /\ rate' \in [val : Nat, until : Int] /\ rate'.until = now + Window
      /\ rate'.val = (IF now < rate.until THEN rate.val ELSE 0) + 1
  BY DEF Metered, Counted, Parameters
<1>2. passed \in Seq(Int) /\ DOMAIN passed = 1..m
  BY DEF Metered
<1>3. \A i \in 1..m : passed[i] \in Int /\ passed[i] <= now /\ passed[i] + Window <= rate.until
  <2>1. \A i \in DOMAIN passed : passed[i] <= now /\ passed[i] + Window <= rate.until
    BY DEF Metered
  <2>2. \A i \in DOMAIN passed : passed[i] \in Int
    BY <1>2
  <2>3. QED
    BY <1>2, <2>1, <2>2
<1>4. k <= rate'.val /\ \A i \in 1..(Len(passed') - k) : passed'[i] + Window <= now'
  BY <1>1, <1>3
<1>5. \A i \in DOMAIN passed' : passed'[i] <= now' /\ passed'[i] + Window <= rate'.until
  BY <1>1, <1>2, <1>3
<1>6. QED
  BY <1>1, <1>2, <1>4, <1>5 DEF Metered

(* Time passes. *)
LEMMA LaterMetered ==
  ASSUME Parameters, Metered, now \in Nat, now' \in {now, now + 1}, UNCHANGED <<rate, passed>>
  PROVE  Metered'
<1> PICK n \in Nat : n <= rate.val /\ \A i \in 1..(Len(passed) - n) : passed[i] + Window <= now
  BY DEF Metered
<1>1. \A i \in 1..(Len(passed) - n) : i \in DOMAIN passed
  BY DEF Metered
<1>2. \A i \in DOMAIN passed : passed[i] \in Int /\ Window \in Nat
  BY DEF Metered, Parameters
<1>3. \A i \in 1..(Len(passed') - n) : passed'[i] + Window <= now'
  BY <1>1, <1>2
<1>4. \A i \in DOMAIN passed' : passed'[i] <= now' /\ passed'[i] + Window <= rate'.until
  BY <1>2 DEF Metered
<1>5. QED
  BY <1>3, <1>4 DEF Metered

(* With a Redis that answers, requests are metered. *)
LEMMA StepMetered ==
  ASSUME Parameters, TInv, Step, redis # "none", ~outage', Metered
  PROVE  Metered'
<1>1. now \in Nat /\ now' \in {now, now + 1} /\ (IncrRateLimit \/ UNCHANGED <<rate, passed>>)
  BY StepMeters
<1>2. CASE IncrRateLimit
  <2>1. redis \in {"up", "down"}
    BY DEF TInv, Typed
  <2>2. redis = "up" /\ now' = now /\ rate' = Counted
    BY <1>2, <2>1 DEF IncrRateLimit
  <2>3. CASE rate'.val > Limit
    BY <1>1, <1>2, <2>2, <2>3, TurnedAway DEF IncrRateLimit
  <2>4. CASE ~(rate'.val > Limit)
    <3>1. passed' = Append(passed, now)
      BY <1>2, <2>2, <2>4 DEF IncrRateLimit
    <3>2. rate'.val <= Limit
      BY <2>2, <2>4 DEF Counted, Metered, Parameters
    <3>3. QED
      BY <1>1, <2>2, <3>1, <3>2, LetThrough
  <2>5. QED
    BY <2>3, <2>4
<1>3. QED
  BY <1>1, <1>2, LaterMetered

(* The three invariants at first. *)
LEMMA IInvInit == ASSUME Parameters, Init PROVE IInv
<1>1. passed = <<>> /\ rate = [val |-> 0, until |-> 0]
  BY DEF Init
<1>2. 0 <= rate.val /\ Len(passed) = 0 /\ DOMAIN passed = {}
  BY <1>1
<1>3. Metered
  <2>1. \A i \in 1..(Len(passed) - 0) : passed[i] + Window <= now
    BY <1>2
  <2>2. QED
    BY <1>1, <1>2, <2>1 DEF Metered
<1>4. QED
  BY <1>3, InitInv DEF IInv, RecentInv, OwnInv, RateInv

(* And after every step. *)
LEMMA IInvStep == ASSUME Parameters, IInv, [Next]_vars PROVE IInv'
<1>1. ASSUME Step, overlap' = (overlap \/ Overlapping') PROVE IInv'
  <2>1. TInv /\ TInv'
    BY <1>1, StepTInv DEF IInv, RecentInv
  <2>2. ~outage' => ~outage /\ Session /\ Session'
    BY <1>1, OutageStays, StepSession, Zenon DEF IInv, RecentInv
  <2>3. ~outage' /\ ~slow' => Fresh'
    BY <1>1, <2>1, <2>2, SlowStays, StepFresh, Zenon DEF IInv, RecentInv
  <2>4. ~overlap' => ~overlap /\ ~Overlapping'
    BY <1>1, Zenon
  <2>5. ~outage' /\ ~overlap' => Own'
    BY <1>1, <2>1, <2>2, <2>4, StepOwn, Zenon DEF IInv, OwnInv
  <2>6. redis' = "none" \/ outage' \/ Metered'
    <3>1. redis = "none" <=> redis' = "none"
      BY <1>1, <2>1, StepMeters
    <3>2. ASSUME redis # "none", ~outage' PROVE Metered'
      <4>1. Metered
        BY <2>2, <3>2, Zenon DEF IInv, RateInv
      <4>2. QED
        BY <1>1, <2>1, <3>2, <4>1, StepMetered
    <3>3. QED
      BY <3>1, <3>2
  <2>7. QED
    BY <2>1, <2>2, <2>3, <2>5, <2>6, Zenon DEF IInv, RecentInv, OwnInv, RateInv
<1>2. ASSUME UNCHANGED vars PROVE IInv'
  <2>1. UNCHANGED <<redis, outage, rate, passed, now>>
    BY <1>2 DEF vars
  <2>2. Metered => Metered'
    BY <2>1 DEF Metered
  <2>3. QED
    BY <1>2, <2>1, <2>2, StutterInv, Zenon DEF IInv, RecentInv, OwnInv, RateInv
<1>3. QED
  BY <1>1, <1>2, Zenon DEF Next

(* What the invariants are for. *)
LEMMA InvImplies == ASSUME Parameters, IInv PROVE AnswersAreRecent /\ OwnChangesAreSeen /\ RateIsBounded
<1>1. AnswersAreRecent
  <2> SUFFICES ASSUME ~slow, ~outage, NEW c \in Calls, Served(c)
               PROVE  calls[c].when < ended[calls[c].val] + (IF kind = "key" THEN KeyTTL ELSE 0) + L1TTL
    BY Zenon DEF AnswersAreRecent
  <2>1. FreshCall(calls[c])
    BY Zenon DEF IInv, RecentInv, Fresh
  <2>2. QED
    BY <2>1 DEF FreshCall, Served, IsFree, Grace
<1>2. OwnChangesAreSeen
  <2> SUFFICES ASSUME ~overlap, ~outage, NEW c \in Calls, Served(c)
               PROVE  calls[c].val >= calls[c].since
    BY Zenon DEF OwnChangesAreSeen
  <2>1. OwnCall(calls[c]) /\ calls[c] \in Slots
    BY Zenon DEF IInv, OwnInv, Own, TInv, Typed
  <2>2. calls[c].since <= calls[c].val
    BY <2>1 DEF OwnCall, Served, IsFree
  <2>3. QED
    BY <2>2
<1>3. RateIsBounded
  BY DEF IInv, RateInv, Metered, RateIsBounded
<1>4. QED
  BY <1>1, <1>2, <1>3

(* The invariants hold in every state. *)
LEMMA Invariant == ASSUME Parameters PROVE Spec => []IInv
<1>1. Init => IInv
  BY IInvInit
<1>2. IInv /\ [Next]_vars => IInv'
  BY IInvStep
<1>3. QED
  BY <1>1, <1>2, PTL DEF Spec

(* Whatever the number of processes and requests and however long values may live: unless a
   request was held up with a value in its hands or Redis was down, a key is served for less
   than both times to live after its revocation, a list or a session for less than that of
   L1 (cache.go: SetAPIKey, GetAPIKey, SetJSON, GetJSON, SetSession, GetSession). *)
THEOREM AnswersAreRecentHolds == ASSUME Parameters PROVE Spec => []AnswersAreRecent
BY InvImplies, Invariant, PTL

(* Whatever the number of processes and requests: once a process has answered a change of a
   list or a logout, nothing it reads afterwards is older, unless it was reading meanwhile or
   Redis was down (cache.go: DeleteKey, DeleteSession). *)
THEOREM OwnChangesAreSeenHolds == ASSUME Parameters PROVE Spec => []OwnChangesAreSeen
BY InvImplies, Invariant, PTL

(* Whatever the limit and the window: every request renews the window of the counter, so the
   requests let through of any stretch of its length were counted together, as long as Redis
   answers (cache.go: IncrRateLimit). *)
THEOREM RateIsBoundedHolds == ASSUME Parameters PROVE Spec => []RateIsBounded
BY InvImplies, Invariant, PTL
=============================================================================
