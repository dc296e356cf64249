----------------------------- MODULE DoltSidebar -----------------------------
(***************************************************************************)
(* The Dolt extension of the studio: the branches, the commits and the     *)
(* changed tables of a repository, each with its buttons.  A button calls  *)
(* a procedure of the server and refreshes the sidebar, which takes three  *)
(* queries one after another; flows of several buttons interleave.         *)
(*                                                                         *)
(* A schema is selected.  The repository is external: branches are         *)
(* sequences of commits, newest first, each with a working set of its own. *)
(***************************************************************************)
EXTENDS Integers, Sequences, FiniteSets, SequencesExt, FiniteSetsExt

CONSTANTS
  Tables,    \* tables of the schema
  Branches,  \* names of branches; "main" is one
  MaxOps,    \* bound: buttons pressed and changes made elsewhere
  MaxFlows   \* bound: calls and refreshes under way when a button is pressed

VARIABLES
  log,       \* the repository: branch -> commits
  work,      \* branch -> [changed, staged]
  active,    \* active_branch()
  clock,     \* changes of the repository so far
  branchList, selectedBranch, commitList, statusList,
  busy,      \* items whose button shows "loading": <<table, staged, press>>
  message, loading,   \* the commit form: its text is not empty, a commit runs
  modal,     \* the "create branch" dialogs, of the toolbar and of the log: [open, from, loading]
  flows,     \* calls and refreshes under way: [kind, arg, step, done, ok, data, version]
  seen,      \* history: for each list, the version shown
  foreign,   \* history: version of the last change made elsewhere
  orderly,   \* history: no answer was lost, or overtaken by a newer one
  ops

repository == <<log, work, active, clock>>
page == <<branchList, selectedBranch, commitList, statusList>>
controls == <<busy, message, loading, modal>>
history == <<seen, foreign, orderly>>
vars == <<repository, page, controls, flows, history, ops>>

Steps == <<"branches", "log", "status">>
NoBranch == [open |-> FALSE, from |-> 0, loading |-> FALSE]
Flow(kind, arg, step) ==
  [kind |-> kind, arg |-> arg, step |-> step, done |-> FALSE, ok |-> FALSE, data |-> {}, version |-> 0]
Refresh == Flow("refresh", <<>>, "branches")

Status(b) == {[table |-> t, staged |-> FALSE] : t \in work[b].changed}
             \cup {[table |-> t, staged |-> TRUE] : t \in work[b].staged}

\* The sidebar and, inside it, the list of changes each refresh when they are mounted.
Init ==
  /\ log = [b \in {"main"} |-> <<1>>]
  /\ work = [b \in {"main"} |-> [changed |-> Tables, staged |-> {}]]
  /\ active = "main" /\ clock = 1
  /\ branchList = {} /\ selectedBranch = "main" /\ commitList = <<>> /\ statusList = {}
  /\ busy = {} /\ message = FALSE /\ loading = FALSE
  /\ modal = [m \in {"toolbar", "log"} |-> NoBranch]
  /\ flows = <<Refresh, Refresh>>
  /\ seen = [s \in ToSet(Steps) |-> 0] /\ foreign = 0 /\ orderly = TRUE
  /\ ops = 0

Start(f) == ops < MaxOps /\ Len(flows) < MaxFlows /\ ops' = ops + 1 /\ flows' = Append(flows, f)
-----------------------------------------------------------------------------
\* The plus and the minus of an item.  An item that leaves its list forgets that it waits.
Waiting(t, staged) == \E i \in busy : i[1] = t /\ i[2] = staged

Stage(t) ==
  /\ [table |-> t, staged |-> FALSE] \in statusList /\ ~Waiting(t, FALSE)
  /\ Start(Flow("add", <<t, ops>>, "call"))
  /\ busy' = busy \cup {<<t, FALSE, ops>>}
  /\ UNCHANGED <<repository, page, message, loading, modal, history>>

Unstage(t) ==
  /\ [table |-> t, staged |-> TRUE] \in statusList /\ ~Waiting(t, TRUE)
  /\ Start(Flow("reset", <<t, ops>>, "call"))
  /\ busy' = busy \cup {<<t, TRUE, ops>>}
  /\ UNCHANGED <<repository, page, message, loading, modal, history>>

TypeMessage ==
  /\ ~message /\ message' = TRUE
  /\ UNCHANGED <<repository, page, busy, loading, modal, flows, history, ops>>

OnCommitClicked ==
  /\ \E s \in statusList : s.staged
  /\ message /\ ~loading
  /\ loading' = TRUE
  /\ Start(Flow("commit", <<>>, "call"))
  /\ UNCHANGED <<repository, page, busy, message, modal, history>>

OnCheckoutBranch(b) ==
  /\ b \in branchList
  /\ Start(Flow("checkout", <<b>>, "call"))
  /\ UNCHANGED <<repository, page, controls, history>>

\* "Reset (Soft)" of a commit, confirmed in the common dialog.
OnResetClicked(c) ==
  /\ c \in ToSet(commitList)
  /\ Start(Flow("rewind", <<c>>, "call"))
  /\ UNCHANGED <<repository, page, controls, history>>

OnRefresh ==
  /\ Start(Refresh)
  /\ UNCHANGED <<repository, page, controls, history>>

\* The dialog is closed at any time; a dialog that is opened again starts afresh.
OpenModal(m, c) ==
  /\ \A n \in DOMAIN modal : ~modal[n].open
  /\ IF m = "log" THEN c \in ToSet(commitList) ELSE c = 0
  /\ modal' = [modal EXCEPT ![m] = [open |-> TRUE, from |-> c, loading |-> FALSE]]
  /\ UNCHANGED <<repository, page, busy, message, loading, flows, history, ops>>

CloseModal(m) ==
  /\ modal[m].open
  /\ modal' = [modal EXCEPT ![m] = NoBranch]
  /\ UNCHANGED <<repository, page, busy, message, loading, flows, history, ops>>

OnSaveClicked(m, b) ==
  /\ modal[m].open /\ ~modal[m].loading
  /\ modal' = [modal EXCEPT ![m].loading = TRUE]
  /\ Start(Flow("create", <<m, b, modal[m].from>>, "call"))
  /\ UNCHANGED <<repository, page, busy, message, loading, history>>
-----------------------------------------------------------------------------
(***************************************************************************)
(* The repository (external).                                              *)
(***************************************************************************)
Move(b, changed, staged) == [work EXCEPT ![b] = [changed |-> changed, staged |-> staged]]
Everywhere == UNION {ToSet(log[b]) : b \in DOMAIN log}

\* The commits from c on, in whichever branch it is found.
From(c) == LET s == log[CHOOSE b \in DOMAIN log : c \in ToSet(log[b])]
           IN SubSeq(s, SelectInSeq(s, LAMBDA x : x = c), Len(s))

Call(f) ==
  LET w == work[active] IN
  CASE f.kind = "add" -> /\ f.arg[1] \in w.changed
                         /\ work' = Move(active, w.changed \ {f.arg[1]}, w.staged \cup {f.arg[1]})
                         /\ UNCHANGED <<log, active>>
    [] f.kind = "reset" -> /\ work' = Move(active, w.changed \cup ({f.arg[1]} \cap w.staged), w.staged \ {f.arg[1]})
                           /\ UNCHANGED <<log, active>>
    [] f.kind = "commit" -> /\ w.staged # {}
                            /\ log' = [log EXCEPT ![active] = <<clock + 1>> \o @]
                            /\ work' = Move(active, w.changed, {})
                            /\ UNCHANGED active
    [] f.kind = "rewind" -> /\ f.arg[1] \in Everywhere
                            /\ log' = [log EXCEPT ![active] = From(f.arg[1])]
                            /\ UNCHANGED <<work, active>>
    [] f.kind = "checkout" -> /\ f.arg[1] \in DOMAIN log
                              /\ active' = f.arg[1]
                              /\ UNCHANGED <<log, work>>
    [] f.kind = "create" ->
         LET b == f.arg[2]
             c == f.arg[3]
         IN /\ b \notin DOMAIN log /\ (c = 0 \/ c \in Everywhere)
            /\ log' = [x \in DOMAIN log \cup {b} |->
                         IF x # b THEN log[x] ELSE IF c = 0 THEN log[active] ELSE From(c)]
            /\ work' = [x \in DOMAIN log \cup {b} |->
                          IF x # b THEN work[x] ELSE [changed |-> {}, staged |-> {}]]
            /\ active' = b

Query(f) ==
  CASE f.step = "branches" -> {<<b, b = active>> : b \in DOMAIN log}
    [] f.step = "log" -> {log[active]}
    [] f.step = "status" -> Status(active)

\* The server carries out what is asked, or refuses it; the answer may be lost.
Serve(k) ==
  /\ ~flows[k].done
  /\ \E ok \in BOOLEAN :
       /\ IF flows[k].step = "call"
          THEN Call(flows[k]) /\ clock' = clock + 1
          ELSE UNCHANGED repository
       /\ flows' = [flows EXCEPT ![k].done = TRUE, ![k].ok = ok, ![k].version = clock',
                                 ![k].data = IF flows[k].step = "call" THEN {} ELSE Query(flows[k])]
       /\ orderly' = (orderly /\ ok)
  /\ UNCHANGED <<page, controls, seen, foreign, ops>>

Refuse(k) ==
  /\ ~flows[k].done /\ flows[k].step = "call"
  /\ flows' = [flows EXCEPT ![k].done = TRUE]
  /\ UNCHANGED <<repository, page, controls, history, ops>>

Elsewhere(t) ==
  /\ ops < MaxOps /\ ops' = ops + 1
  /\ t \notin work[active].changed
  /\ work' = Move(active, work[active].changed \cup {t}, work[active].staged)
  /\ clock' = clock + 1 /\ foreign' = clock + 1
  /\ UNCHANGED <<log, active, page, controls, flows, seen, orderly>>
-----------------------------------------------------------------------------
(***************************************************************************)
(* The answers.                                                            *)
(***************************************************************************)
Freed(f) == IF f.kind \in {"add", "reset"} THEN busy \ {<<f.arg[1], f.kind = "reset", f.arg[2]>>} ELSE busy
Continue(k, f) == flows' = [flows EXCEPT ![k] = [f EXCEPT !.done = FALSE, !.ok = FALSE, !.data = {}]]

\* Whatever was called is followed by a refresh, for which an item goes on waiting.
CallAnswer(k) ==
  LET f == flows[k] IN
  /\ f.step = "call" /\ f.done /\ f.kind \notin {"commit", "create"}
  /\ IF f.ok THEN Continue(k, [f EXCEPT !.step = "branches"]) /\ UNCHANGED busy
     ELSE flows' = RemoveAt(flows, k) /\ busy' = Freed(f)
  /\ UNCHANGED <<repository, page, message, loading, modal, history, ops>>

\* Fault: a commit is not followed by a refresh.
CommitAnswerWithoutRefresh(k) ==
  LET f == flows[k] IN
  /\ f.step = "call" /\ f.done /\ f.kind = "commit"
  /\ loading' = FALSE
  /\ message' = (message /\ ~f.ok)
  /\ flows' = RemoveAt(flows, k)
  /\ UNCHANGED <<repository, page, busy, modal, history, ops>>

CommitAnswer(k) ==
  LET f == flows[k] IN
  /\ f.step = "call" /\ f.done /\ f.kind = "commit"
  /\ loading' = FALSE
  /\ message' = (message /\ ~f.ok)
  /\ flows' = IF f.ok THEN [flows EXCEPT ![k] = Refresh] ELSE RemoveAt(flows, k)
  /\ UNCHANGED <<repository, page, busy, modal, history, ops>>

\* The answer closes the dialog, or shows its error in it, whatever it was opened for since.
CreateAnswer(k) ==
  LET f == flows[k] IN
  /\ f.step = "call" /\ f.done /\ f.kind = "create"
  /\ modal' = [modal EXCEPT ![f.arg[1]] = IF f.ok THEN NoBranch ELSE [@ EXCEPT !.loading = FALSE]]
  /\ flows' = IF f.ok THEN [flows EXCEPT ![k] = Refresh] ELSE RemoveAt(flows, k)
  /\ UNCHANGED <<repository, page, busy, message, loading, history, ops>>

\* refreshDoltSchema: each answer is shown at once, and the next query sent.
RefreshAnswer(k) ==
  LET f == flows[k]
      next == [branches |-> "log", log |-> "status", status |-> "end"][f.step]
      current == {b[1] : b \in {x \in f.data : x[2]}}
  IN /\ f.step # "call" /\ f.done
     /\ IF f.ok /\ f.step = "branches"
        THEN /\ branchList' = {b[1] : b \in f.data}
             /\ selectedBranch' = IF current = {} THEN "main" ELSE CHOOSE b \in current : TRUE
        ELSE UNCHANGED <<branchList, selectedBranch>>
     /\ commitList' = IF f.ok /\ f.step = "log" THEN CHOOSE s \in f.data : TRUE ELSE commitList
     /\ statusList' = IF f.ok /\ f.step = "status" THEN f.data ELSE statusList
     /\ IF f.ok /\ next # "end" THEN Continue(k, [f EXCEPT !.step = next]) /\ UNCHANGED busy
        ELSE /\ flows' = RemoveAt(flows, k)
             /\ busy' = {i \in Freed(f) : [table |-> i[1], staged |-> i[2]] \in statusList'}
     /\ seen' = IF f.ok THEN [seen EXCEPT ![f.step] = f.version] ELSE seen
     /\ orderly' = (orderly /\ f.ok /\ f.version >= seen[f.step])
     /\ UNCHANGED <<repository, message, loading, modal, foreign, ops>>

Next ==
  \/ \E t \in Tables : Stage(t) \/ Unstage(t) \/ Elsewhere(t)
  \/ TypeMessage \/ OnCommitClicked \/ OnRefresh
  \/ \E b \in Branches : OnCheckoutBranch(b)
  \/ \E c \in Everywhere : OnResetClicked(c)
  \/ \E m \in DOMAIN modal : \/ \E c \in Everywhere \cup {0} : OpenModal(m, c)
                             \/ CloseModal(m)
                             \/ \E b \in Branches : OnSaveClicked(m, b)
  \/ \E k \in DOMAIN flows : \/ Serve(k) \/ Refuse(k)
                             \/ CallAnswer(k) \/ CommitAnswer(k) \/ CreateAnswer(k) \/ RefreshAnswer(k)

Spec == Init /\ [][Next]_vars
-----------------------------------------------------------------------------
\* With nothing under way the sidebar shows the repository: its branches, the one that is
\* checked out with its commits, and its changes; none of the buttons waits.  Excluded: an
\* answer that was lost or overtaken by a newer one, and a change made elsewhere since.
QuietSidebarIsRepository ==
  flows = <<>> /\ orderly /\ (\A s \in DOMAIN seen : seen[s] >= foreign) =>
    /\ branchList = DOMAIN log /\ selectedBranch = active
    /\ commitList = log[active] /\ statusList = Status(active)
    /\ busy = {} /\ ~loading
=============================================================================
