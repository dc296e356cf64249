----------------------------- MODULE StudioTabs -----------------------------
(***************************************************************************)
(* The tabs of the database studio: the list and the selected index kept   *)
(* by DatabaseGui, the bar of WindowTabs that changes them, the channels   *)
(* that open, replace and close tabs, and the saves of the table editor,   *)
(* the view and trigger editors and the query editor that end in one of    *)
(* them.                                                                   *)
(*                                                                         *)
(* A save ends with the list and the index of the render in which it was   *)
(* started (replaceCurrentTab, changeCurrentTab), or with the tab that is  *)
(* selected when it ends (the replace channel).  Lists of tabs are kept by *)
(* version because two saves may hold, and change in place, the same list. *)
(***************************************************************************)
EXTENDS Integers, Sequences, SequencesExt

CONSTANTS
  Tables,    \* names a table can have
  View,      \* name of the one view
  Doc,       \* the document the first query is saved as
  MaxTabs,   \* bound: tabs opened
  MaxLists   \* bound: lists of tabs set

VARIABLES
  lists,     \* the arrays of tabs set so far, the last one is shown
  selected,  \* selectedTabIndex, from 0
  exists,    \* tables and views of the database
  saves,     \* saves waiting for their answer
  modal,     \* the tab whose dialog covers the page, 0 for none
  fresh,     \* tabs opened so far; the number of a tab is its component instance
  stale,     \* history: a save ended for a list or a tab that had been left
  clash      \* history: two tabs had the same key

vars == <<lists, selected, exists, saves, modal, fresh, stale, clash>>

tabs == Last(lists)
Tab(key, n) == [key |-> key, ident |-> key, n |-> n]
At(s, i) == s[i + 1]
Indexes == 0..(Len(tabs) - 1)
\* findIndex: the first of the places that are looked for, -1 if there is none.
FoundIndex(places) == IF places = {} THEN -1 ELSE Min(places) - 1
Named(s, ident) == {i \in DOMAIN s : s[i].ident = ident}
Keyed(s, key) == {i \in DOMAIN s : s[i].key = key}

\* filter: the tabs of s that are not in these, in their order.
Without(s, these) ==
  LET kept[n \in 0..Len(s)] ==
        IF n = 0 THEN <<>> ELSE IF s[n] \in these THEN kept[n - 1] ELSE Append(kept[n - 1], s[n])
  IN kept[Len(s)]

Distinct(s) == \A i, j \in DOMAIN s : s[i].key = s[j].key => i = j

SetTabs(s) ==
  /\ Len(lists) < MaxLists
  /\ lists' = Append(lists, s)
  /\ clash' = (clash \/ ~Distinct(s))

Init ==
  /\ lists = <<<<Tab(<<"query", 1>>, 1)>>>>
  /\ selected = 0
  /\ exists = {CHOOSE t \in Tables : TRUE}
  /\ saves = <<>> /\ modal = 0 /\ fresh = 1
  /\ stale = FALSE /\ clash = FALSE

\* The keys the sidebar, the menus and the lists of the studio open.
Openable ==
  {<<"table", t>> : t \in exists \cap Tables} \cup {<<"schema", t>> : t \in exists \cap Tables}
    \cup {<<"view", View>> : v \in exists \cap {View}}
    \cup {<<"schema", "">>, <<"view", "">>, <<"query", fresh + 1>>}

Open(key) ==
  LET at == FoundIndex(Named(tabs, key)) IN
  /\ modal = 0 /\ fresh < MaxTabs
  /\ IF at >= 0
       THEN selected' = at /\ UNCHANGED <<lists, fresh, clash>>
       ELSE /\ fresh' = fresh + 1
            /\ SetTabs(Append(tabs, Tab(key, fresh + 1)))
            /\ selected' = Len(tabs)
  /\ UNCHANGED <<exists, saves, modal, stale>>

Select(i) ==
  /\ modal = 0
  /\ selected' = i
  /\ UNCHANGED <<lists, exists, saves, modal, fresh, stale, clash>>

\* Fault: the selection is moved only when the selected tab itself is closed.
CloseKeepingSelected(i) ==
  /\ modal = 0
  /\ SetTabs(Without(tabs, {t \in Range(tabs) : t.key = At(tabs, i).key}))
  /\ selected' = IF selected = i THEN Len(tabs) - 2 ELSE selected
  /\ UNCHANGED <<exists, saves, modal, fresh, stale>>

\* The close button removes every tab with the key.
CloseButton(i) ==
  LET newTabs == Without(tabs, {t \in Range(tabs) : t.key = At(tabs, i).key}) IN
  /\ modal = 0
  /\ selected' = IF selected >= i THEN Len(newTabs) - 1 ELSE selected
  /\ SetTabs(newTabs)
  /\ UNCHANGED <<exists, saves, modal, fresh, stale>>

\* The sidebar removed the saved document: its tabs are closed by identifier.
CloseChannel ==
  LET newTabs == Without(tabs, {t \in Range(tabs) : t.ident = <<"saved-query", Doc>>})
      keep == FoundIndex(Named(newTabs, At(tabs, selected).ident))
  IN
  /\ modal = 0 /\ Len(newTabs) < Len(tabs)
  /\ SetTabs(newTabs)
  /\ selected' = IF selected \notin Indexes THEN selected
                 ELSE IF keep >= 0 THEN keep
                 ELSE IF selected < Len(newTabs) THEN selected ELSE Len(newTabs) - 1
  /\ UNCHANGED <<exists, saves, modal, fresh, stale>>

Drag(i, j) ==
  LET rest == RemoveAt(tabs, i + 1)
      newTabs == InsertAt(rest, j + 1, At(tabs, i))
  IN
  /\ modal = 0 /\ i # j
  /\ SetTabs(newTabs)
  /\ selected' = IF selected \in Indexes THEN FoundIndex(Keyed(newTabs, At(tabs, selected).key))
                   ELSE -1
  /\ UNCHANGED <<exists, saves, modal, fresh, stale>>

DropTable(t) ==
  /\ modal = 0 /\ t \in exists
  /\ exists' = exists \ {t}
  /\ UNCHANGED <<lists, selected, saves, modal, fresh, stale, clash>>

-----------------------------------------------------------------------------
\* "Continue" in the dialog of an editor, or the save button of a query: the closure
\* holds the list and the index of this render.  The dialog of the table editor does not
\* disable its button, so the same change can be sent twice.
StartSave(old, new) ==
  LET key == At(tabs, selected).key IN
  /\ selected \in Indexes /\ Len(saves) < 2
  /\ modal = 0 \/ (modal = At(tabs, selected).n /\ key[1] \in {"schema", "_schema"})
  /\ \/ key[1] \in {"schema", "_schema"} /\ old = key[2] /\ new \in Tables
     \/ key[1] = "view" /\ old = key[2] /\ new = View
     \/ /\ At(tabs, selected).ident = <<"query", 1>> /\ old = "" /\ new = Doc
        /\ \A s \in Range(saves) : s.new # Doc
  /\ saves' = Append(saves, [kind |-> key[1], old |-> old, new |-> new,
                             list |-> Len(lists), at |-> selected, n |-> At(tabs, selected).n])
  /\ modal' = IF key[1] = "query" THEN 0 ELSE At(tabs, selected).n
  /\ UNCHANGED <<lists, selected, exists, fresh, stale, clash>>

\* Escape closes the dialog of a save that is still running.
Escape ==
  /\ modal # 0
  /\ modal' = 0
  /\ UNCHANGED <<lists, selected, exists, saves, fresh, stale, clash>>

Accepted(s) ==
  \/ s.kind = "query"
  \/ s.new = s.old \/ s.new \notin exists

Applied(s) == IF s.kind = "query" THEN exists ELSE (exists \ {s.old}) \cup {s.new}

\* replaceCurrentTab: the slot of the old list is overwritten and the old list is shown.
ReplaceCurrent(s) ==
  LET old == lists[s.list]
      now == [old EXCEPT ![s.at + 1] = Tab(<<"_schema", s.new>>, fresh + 1)]
  IN
  /\ Len(lists) < MaxLists
  /\ lists' = Append([lists EXCEPT ![s.list] = now], now)
  /\ clash' = (clash \/ ~Distinct(now))
  /\ fresh' = fresh + 1
  /\ UNCHANGED selected

\* changeCurrentTab: the tab object itself is changed, in every list that holds it.
ChangeCurrent(s) ==
  LET Renamed(l) == [i \in DOMAIN l |-> IF l[i].n = s.n
                       THEN [l[i] EXCEPT !.ident = <<"saved-query", s.new>>] ELSE l[i]]
      all == [v \in DOMAIN lists |-> Renamed(lists[v])]
  IN
  /\ Len(lists) < MaxLists
  /\ lists' = Append(all, all[s.list])
  /\ clash' = (clash \/ ~Distinct(lists[s.list]))
  /\ UNCHANGED <<selected, fresh>>

\* Fault: the index is not passed on, the first tab is replaced.
ReplaceFirst(s) ==
  /\ SetTabs([tabs EXCEPT ![1] = Tab(<<"view", s.new>>, fresh + 1)])
  /\ fresh' = fresh + 1
  /\ UNCHANGED selected

\* The replace channel: select the tab if it is open, else replace the selected one.
ReplaceChannel(s) ==
  LET key == <<"view", s.new>>
      at == FoundIndex(Named(tabs, key))
  IN
  IF at >= 0
    THEN selected' = at /\ UNCHANGED <<lists, fresh, clash>>
    ELSE /\ SetTabs([i \in DOMAIN tabs |->
                       IF i = selected + 1 THEN Tab(key, fresh + 1) ELSE tabs[i]])
         /\ fresh' = fresh + 1
         /\ UNCHANGED selected

\* The table editor toggles its dialog, so one that was closed during the save comes back.
Closed(s) ==
  IF modal = s.n THEN 0
  ELSE IF modal = 0 /\ s.kind \in {"schema", "_schema"} /\ s.new = s.old THEN s.n
  ELSE modal

EndSave(i) ==
  LET s == saves[i] IN
  /\ saves' = RemoveAt(saves, i)
  /\ IF ~Accepted(s)
       THEN UNCHANGED <<lists, selected, exists, modal, fresh, stale, clash>>
       ELSE /\ exists' = Applied(s)
            /\ \/ s.kind = "query" /\ ChangeCurrent(s)
               \/ s.kind = "view" /\ ReplaceChannel(s)
               \/ s.kind \notin {"query", "view"} /\ s.new # s.old /\ ReplaceCurrent(s)
               \/ /\ s.kind \notin {"query", "view"} /\ s.new = s.old
                  /\ UNCHANGED <<lists, selected, fresh, clash>>
            /\ stale' = (stale \/ s.list # Len(lists) \/ s.at # selected)
            /\ modal' = Closed(s)

Next ==
  \/ \E key \in Openable : Open(key)
  \/ \E i \in Indexes : Select(i) \/ CloseButton(i)
  \/ CloseChannel
  \/ \E i, j \in Indexes : Drag(i, j)
  \/ \E t \in Tables : DropTable(t)
  \/ \E old, new \in Tables \cup {View, Doc, ""} : StartSave(old, new)
  \/ Escape
  \/ \E i \in DOMAIN saves : EndSave(i)

Spec == Init /\ [][Next]_vars
-----------------------------------------------------------------------------
\* A tab is shown whenever there is one: closing, dragging and replacing keep the selected
\* index inside the list.  A save that ends for a list that is no longer shown can break it,
\* and so can two tabs with one key, of which the close button removes both.
SelectedIsShown == ~stale /\ ~clash /\ tabs # <<>> => selected \in Indexes

Instances(s) == {t.n : t \in Range(s)}
ReplaceStep ==
  Len(saves') < Len(saves) /\ ~stale' =>
    \E s \in Range(saves) : Instances(tabs) \ Instances(tabs') \subseteq {s.n}

\* What a tab holds that was not saved is lost only when it is closed or when its own save
\* replaces it, as long as no save ends after its tab was left.
OnlyOwnSaveReplaces == [][ReplaceStep]_vars
=============================================================================
