----------------------------- MODULE AdminPages -----------------------------
(***************************************************************************)
(* The pages of the admin front end that manage databases: the dashboard   *)
(* with its "new database" dialog, the registration page, the settings of  *)
(* a database and the deleted databases.                                   *)
(*                                                                         *)
(* One page is mounted at a time.  Its requests are answered in any order, *)
(* refused, or lost; answers to a page that was left change no state, but  *)
(* the handlers that navigate still do.                                    *)
(***************************************************************************)
EXTENDS Integers, Sequences, FiniteSets, SequencesExt, FiniteSetsExt

CONSTANTS
  Names,      \* names of databases; a database made here has its name as slug
  Nothing,    \* null
  Broken,     \* an error object where the page expects its data
  MaxOps,     \* bound: clicks that send a request
  MaxMounts,  \* bound: pages visited
  MaxReqs     \* bound: requests in flight

VARIABLES
  rows,       \* the registry: slug -> [name, status]
  clock,      \* changes to the registry so far
  page, at,   \* the page mounted and, for the settings, its database
  mount,      \* counts pages visited
  data,       \* what the page shows
  loading, error,
  busy,       \* what is disabled: buttons of the settings and of the forms, actionLoading
  confirm,    \* confirmReset, confirmHardDelete, the dialog of the dashboard
  reqs,       \* requests in flight, in the order they were sent
  seen, orderly, mixed,   \* history: see the properties
  ops

pageVars == <<page, at, mount, data, loading, error, busy, confirm>>
history == <<seen, orderly, mixed>>
vars == <<rows, clock, pageVars, reqs, history, ops>>

Pages == {"home", "new", "settings", "deleted"}
Reads == {"home", "get", "deleted"}
Slugs == Names \cup (Names \X (0..MaxOps))
Live == {s \in DOMAIN rows : rows[s].status # "deleted"}
Dead == DOMAIN rows \ Live

\* What an up-to-date page shows.
View(p, s) ==
  CASE p = "home" -> {[slug |-> x, status |-> rows[x].status] : x \in Live}
    [] p = "settings" -> IF s \in DOMAIN rows THEN rows[s].status ELSE Broken
    [] p = "deleted" -> {[slug |-> x, name |-> rows[x].name] : x \in Dead}
    [] p = "new" -> Nothing

Request(kind, arg, m) ==
  [kind |-> kind, arg |-> arg, mount |-> m, answer |-> "none", data |-> Nothing, version |-> 0]

FirstRead(p, s, m) ==
  CASE p = "home" -> <<Request("home", Nothing, m)>>
    [] p = "settings" -> <<Request("get", s, m)>>
    [] p = "deleted" -> <<Request("deleted", Nothing, m)>>
    [] p = "new" -> <<>>

Init ==
  /\ \E dead \in SUBSET Names :   \* deleted before
       rows = [s \in (Names \ dead) \cup (dead \X {MaxOps}) |->
                 IF s \in Names THEN [name |-> s, status |-> "active"]
                 ELSE [name |-> s[1], status |-> "deleted"]]
  /\ clock = 0
  /\ page = "home" /\ at = Nothing /\ mount = 1
  /\ data = View("home", Nothing)
  /\ loading = FALSE /\ error = FALSE
  /\ busy = {} /\ confirm = Nothing
  /\ reqs = <<>>
  /\ seen = 0 /\ orderly = TRUE /\ mixed = FALSE
  /\ ops = 0

\* A page is mounted anew; requests is what is left in flight.
Mount(p, s, requests) ==
  /\ page' = p /\ at' = s /\ mount' = mount + 1
  /\ data' = Nothing
  /\ loading' = (p # "new") /\ error' = FALSE
  /\ busy' = {} /\ confirm' = Nothing
  /\ reqs' = requests \o FirstRead(p, s, mount + 1)
  /\ seen' = 0 /\ mixed' = FALSE
  /\ orderly' = \A k \in DOMAIN requests : requests[k].kind \in Reads

\* The links of the pages: a database's settings, the deleted databases, and back.
Navigate(p, s) ==
  /\ mount < MaxMounts
  /\ p # page
  /\ p = "settings" => page = "home" /\ s \in {r.slug : r \in IF data = Nothing THEN {} ELSE data}
  /\ p # "settings" => s = Nothing
  /\ Mount(p, s, reqs)
  /\ UNCHANGED <<rows, clock, ops>>

\* Fault: the button is not disabled while its request runs.
PressAlways(b, kind, arg) ==
  /\ ops < MaxOps /\ Len(reqs) < MaxReqs
  /\ ops' = ops + 1
  /\ busy' = IF page = "deleted" THEN {b} ELSE busy \cup {b}
  /\ error' = FALSE
  /\ reqs' = Append(reqs, Request(kind, arg, mount))
  /\ UNCHANGED <<rows, clock, page, at, mount, data, loading, seen, orderly>>

\* A button b that sends a request and is disabled meanwhile.
Press(b, kind, arg) ==
  /\ ops < MaxOps /\ Len(reqs) < MaxReqs
  /\ ops' = ops + 1
  /\ b \notin busy
  /\ busy' = IF page = "deleted" THEN {b} ELSE busy \cup {b}
  /\ error' = FALSE
  /\ reqs' = Append(reqs, Request(kind, arg, mount))
  /\ UNCHANGED <<rows, clock, page, at, mount, data, loading, seen, orderly>>

\* The dialog of the dashboard opens empty and is closed at any time.
OpenDialog ==
  /\ page = "home" /\ confirm = Nothing
  /\ confirm' = "dialog" /\ busy' = {} /\ error' = FALSE
  /\ UNCHANGED <<rows, clock, page, at, mount, data, loading, reqs, history, ops>>

CloseDialog ==
  /\ page = "home" /\ confirm # Nothing
  /\ confirm' = Nothing
  /\ UNCHANGED <<rows, clock, page, at, mount, data, loading, error, busy, reqs, history, ops>>

\* handleSubmit of the dialog and of the registration page.
Create(n) ==
  /\ page = "new" \/ (page = "home" /\ confirm = "dialog")
  /\ Press("create", "create", n)
  /\ UNCHANGED <<confirm, mixed>>

SettingsShown == page = "settings" /\ ~loading /\ data # Nothing

HandleToggleStatus ==
  /\ SettingsShown
  /\ Press("status", IF data = "active" THEN "deactivate" ELSE "activate", at)
  /\ UNCHANGED <<confirm, mixed>>

AskReset ==
  /\ SettingsShown /\ confirm = Nothing
  /\ confirm' = "reset"
  /\ UNCHANGED <<rows, clock, page, at, mount, data, loading, error, busy, reqs, history, ops>>

HandleResetDatabase ==
  /\ SettingsShown /\ confirm = "reset"
  /\ Press("reset", "reset", at)
  /\ UNCHANGED <<confirm, mixed>>

\* The name has been typed in.
HandleDropDatabase ==
  /\ SettingsShown
  /\ Press("drop", "drop", at)
  /\ UNCHANGED <<confirm, mixed>>

DeletedShown == page = "deleted" /\ ~loading /\ data # Broken /\ data # Nothing

\* Both handlers are given db.name.
HandleRestore(d) ==
  /\ DeletedShown /\ d \in data /\ confirm # d.name
  /\ Press(d.name, "restore", d.name)
  /\ mixed' = (mixed \/ \E k \in DOMAIN reqs : reqs[k].mount = mount)
  /\ UNCHANGED confirm

AskHardDelete(d) ==
  /\ DeletedShown /\ d \in data /\ d.name \notin busy
  /\ confirm' = d.name
  /\ UNCHANGED <<rows, clock, page, at, mount, data, loading, error, busy, reqs, history, ops>>

HandleHardDelete(d) ==
  /\ DeletedShown /\ d \in data /\ confirm = d.name
  /\ Press(d.name, "erase", d.name)
  /\ mixed' = (mixed \/ \E k \in DOMAIN reqs : reqs[k].mount = mount)
  /\ UNCHANGED confirm

\* "Cancel" beside a question, while the request runs too.
CancelQuestion ==
  /\ page \in {"settings", "deleted"} /\ confirm # Nothing
  /\ confirm' = Nothing
  /\ UNCHANGED <<rows, clock, page, at, mount, data, loading, error, busy, reqs, history, ops>>
-----------------------------------------------------------------------------
(***************************************************************************)
(* The server: a request is carried out, refused or lost.                  *)
(***************************************************************************)
Accepts(r) ==
  CASE r.kind \in {"home", "deleted"} -> TRUE
    [] r.kind = "create" -> r.arg \notin DOMAIN rows
    [] r.kind \in {"restore", "erase"} -> r.arg \in Dead /\ (r.kind = "restore" => rows[r.arg].name \notin Live)
    [] OTHER -> r.arg \in Live

With(s, name, status) ==
  [x \in DOMAIN rows \cup {s} |-> IF x = s THEN [name |-> name, status |-> status] ELSE rows[x]]
Without(s) == [x \in DOMAIN rows \ {s} |-> rows[x]]

Effect(r) ==
  CASE r.kind = "create" -> With(r.arg, r.arg, "active")
    [] r.kind = "activate" -> With(r.arg, rows[r.arg].name, "active")
    [] r.kind = "deactivate" -> With(r.arg, rows[r.arg].name, "inactive")
    [] r.kind = "drop" -> [x \in (DOMAIN rows \ {r.arg}) \cup {<<r.arg, clock>>} |->
                             IF x = <<r.arg, clock>> THEN [name |-> rows[r.arg].name, status |-> "deleted"]
                             ELSE rows[x]]
    [] r.kind = "erase" -> Without(r.arg)
    [] r.kind = "restore" -> [x \in (DOMAIN rows \ {r.arg}) \cup {r.arg[1]} |->
                                IF x = r.arg[1] THEN [name |-> rows[r.arg].name, status |-> "active"]
                                ELSE rows[x]]
    [] OTHER -> rows

Serve(k) ==
  LET r == reqs[k]
      changes == r.kind \notin Reads /\ Effect(r) # rows
  IN /\ r.answer = "none" /\ Accepts(r)
     /\ rows' = Effect(r)
     /\ clock' = clock + (IF changes THEN 1 ELSE 0)
     /\ \E how \in {"ok", "lost"} :
          /\ reqs' = [reqs EXCEPT
               ![k].answer = how, ![k].version = clock',
               ![k].data = IF r.kind = "home" THEN View("home", Nothing)
                           ELSE IF r.kind = "get" THEN View("settings", r.arg)
                           ELSE IF r.kind = "deleted" THEN View("deleted", Nothing) ELSE Nothing]
          /\ orderly' = (orderly /\ (how = "lost" => ~changes))
     /\ UNCHANGED <<pageVars, seen, mixed, ops>>

Refuse(k) ==
  /\ reqs[k].answer = "none"
  /\ \E how \in {"refused", "lost"} : reqs' = [reqs EXCEPT ![k].answer = how]
  /\ UNCHANGED <<rows, clock, pageVars, history, ops>>

(***************************************************************************)
(* The answers.                                                            *)
(***************************************************************************)
Done(k) == reqs' = RemoveAt(reqs, k)
Mounted(r) == r.mount = mount

\* The page was left: setState does nothing.
LateAnswer(k) ==
  LET r == reqs[k] IN
  /\ r.answer # "none" /\ ~Mounted(r)
  /\ Done(k)
  /\ UNCHANGED <<rows, clock, pageVars, history, ops>>

\* router.push("/") after a drop, or after a creation on the registration page, from wherever.
AnswerAndLeave(k) ==
  LET r == reqs[k] IN
  /\ r.answer = "ok"
  /\ r.kind = "drop" \/ (r.kind = "create" /\ page = "new" /\ Mounted(r))
  /\ mount < MaxMounts
  /\ Mount("home", Nothing, RemoveAt(reqs, k))
  /\ UNCHANGED <<rows, clock, ops>>

\* The dashboard takes a list it could not read for an empty one; the other pages take the
\* body of an error for their data.
ReadAnswer(k) ==
  LET r == reqs[k] IN
  /\ r.kind \in Reads /\ r.answer # "none" /\ Mounted(r)
  /\ Done(k)
  /\ loading' = FALSE
  /\ error' = (error \/ (r.answer = "lost" /\ page # "home"))
  /\ data' = CASE r.answer = "ok" -> r.data
               [] r.answer # "ok" /\ page = "home" -> {}
               [] r.answer = "refused" /\ page # "home" -> Broken
               [] r.answer = "lost" /\ page # "home" -> data
  /\ orderly' = (orderly /\ r.answer = "ok" /\ r.version >= seen)
  /\ seen' = IF r.answer = "ok" THEN Max({seen, r.version}) ELSE seen
  /\ UNCHANGED <<rows, clock, page, at, mount, busy, confirm, mixed, ops>>

Button(r) == IF r.kind \in {"restore", "erase"} THEN r.arg
             ELSE IF r.kind \in {"activate", "deactivate"} THEN "status" ELSE r.kind
Freed(r) == IF page = "deleted" THEN {} ELSE busy \ {Button(r)}

\* fetch threw: only the dialog of the dashboard and no page has a handler.
LostAnswer(k) ==
  LET r == reqs[k] IN
  /\ r.kind \notin Reads /\ r.answer = "lost" /\ Mounted(r)
  /\ Done(k)
  /\ busy' = IF page = "home" THEN busy \ {"create"} ELSE busy
  /\ error' = (error \/ page = "home")
  /\ UNCHANGED <<rows, clock, page, at, mount, data, loading, confirm, history, ops>>

RefusedAnswer(k) ==
  LET r == reqs[k] IN
  /\ r.kind \notin Reads /\ r.answer = "refused" /\ Mounted(r)
  /\ Done(k)
  /\ busy' = Freed(r)
  /\ error' = TRUE
  /\ confirm' = IF r.kind = "erase" THEN Nothing ELSE confirm
  /\ UNCHANGED <<rows, clock, page, at, mount, data, loading, history, ops>>

ReadAgain(k, kind, arg) == reqs' = Append(RemoveAt(reqs, k), Request(kind, arg, mount))

\* Fault: the dashboard is not refreshed after a creation.
OkAnswerWithoutRefresh(k) ==
  LET r == reqs[k] IN
  /\ r.kind = "create" /\ r.answer = "ok" /\ Mounted(r) /\ page = "home"
  /\ Done(k)
  /\ busy' = Freed(r) /\ confirm' = Nothing
  /\ UNCHANGED <<rows, clock, page, at, mount, data, loading, error, history, ops>>

\* onCreated closes whichever dialog is open and refreshes the dashboard.
CreatedAnswer(k) ==
  LET r == reqs[k] IN
  /\ r.kind = "create" /\ r.answer = "ok" /\ Mounted(r) /\ page = "home"
  /\ ReadAgain(k, "home", Nothing)
  /\ busy' = Freed(r) /\ confirm' = Nothing
  /\ UNCHANGED <<rows, clock, page, at, mount, data, loading, error, history, ops>>

StatusAnswer(k) ==
  LET r == reqs[k] IN
  /\ r.kind \in {"activate", "deactivate"} /\ r.answer = "ok" /\ Mounted(r)
  /\ Done(k)
  /\ busy' = Freed(r)
  /\ data' = IF r.kind = "activate" THEN "active" ELSE "inactive"
  /\ seen' = Max({seen, r.version})
  /\ UNCHANGED <<rows, clock, page, at, mount, loading, error, confirm, orderly, mixed, ops>>

ResetAnswer(k) ==
  LET r == reqs[k] IN
  /\ r.kind = "reset" /\ r.answer = "ok" /\ Mounted(r)
  /\ ReadAgain(k, "get", at)
  /\ busy' = Freed(r) /\ confirm' = Nothing
  /\ UNCHANGED <<rows, clock, page, at, mount, data, loading, error, history, ops>>

Next ==
  \/ \E p \in Pages : \E s \in Names \cup {Nothing} : Navigate(p, s)
  \/ OpenDialog \/ CloseDialog
  \/ \E n \in Names : Create(n)
  \/ HandleToggleStatus \/ AskReset \/ HandleResetDatabase \/ HandleDropDatabase
  \/ \E d \in IF DeletedShown THEN data ELSE {} :
       HandleRestore(d) \/ AskHardDelete(d) \/ HandleHardDelete(d)
  \/ CancelQuestion
  \/ \E k \in DOMAIN reqs :
       \/ Serve(k) \/ Refuse(k)
       \/ LateAnswer(k) \/ AnswerAndLeave(k) \/ ReadAnswer(k) \/ LostAnswer(k) \/ RefusedAnswer(k)
       \/ CreatedAnswer(k) \/ StatusAnswer(k) \/ ResetAnswer(k)

Spec == Init /\ [][Next]_vars
-----------------------------------------------------------------------------
\* With nothing in flight and no error on the page it shows the registry as it is.  "Orderly"
\* excludes what the pages do not handle: an answer overtaken by a newer one, a change whose
\* answer was lost, and one still in flight when the page was opened.
QuietPageIsTrue ==
  orderly /\ reqs = <<>> /\ ~error /\ page # "new" => data = View(page, at) /\ ~loading

\* A button is disabled while its request runs, so no operation runs twice.  The deleted page
\* has one actionLoading for all its rows: there it holds for one row at a time.  The
\* dashboard's dialog can be closed and opened again while it creates.
OneRequestPerButton ==
  ~mixed /\ page # "home" => \A j, k \in DOMAIN reqs :
    /\ {reqs[j].mount, reqs[k].mount} = {mount}
    /\ reqs[j].kind \notin Reads
    /\ Button(reqs[j]) = Button(reqs[k])
    => j = k
=============================================================================
