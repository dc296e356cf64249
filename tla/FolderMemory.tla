---------------------------- MODULE FolderMemory ----------------------------
(***************************************************************************)
(* Folders a user makes in a database's file explorer exist only in the    *)
(* browser's localStorage, under the database's name and its identity,     *)
(* which the page learns from the server after it has opened.  A database  *)
(* deleted and created again under the name has another identity.          *)
(***************************************************************************)
EXTENDS Integers, FiniteSets

CONSTANTS
  Names,      \* names of folders
  Absent,     \* no entry in localStorage, nothing read that waits for a render
  MaxDbs,     \* bound: databases that have had the name
  MaxOpens    \* bound: times the page is opened

Unknown == 0  \* the identity until the server has answered

VARIABLES
  db,         \* identity of the database that has the name now
  store,      \* localStorage: identity -> folders
  open,       \* the page is open
  key,        \* dbIdentity
  custom,     \* customFolders
  next,       \* setCustomFolders(...) waiting for the next render
  made,       \* history: <<folder, database it was made in, Unknown before the answer>>
  torn,       \* history: the page was closed between an effect and the next render
  opens

vars == <<db, store, open, key, custom, next, made, torn, opens>>

Init ==
  /\ db = 1
  /\ store = [k \in 0..MaxDbs |-> Absent]
  /\ open = FALSE /\ key = Unknown /\ custom = {} /\ next = Absent
  /\ made = {} /\ torn = FALSE /\ opens = 0

\* Fault: the write effect is declared before the read effect.
EffectsWriteFirst(k, shown) ==
  store' = [store EXCEPT ![k] = shown] /\ next' = shown

\* The effects of a commit that changed the key: read the entry, then write what is shown.
Effects(k, shown) ==
  /\ next' = store[k]
  /\ store' = [store EXCEPT ![k] = shown]

Open ==
  /\ ~open /\ opens < MaxOpens
  /\ open' = TRUE /\ opens' = opens + 1
  /\ key' = Unknown
  /\ custom' = {}
  /\ Effects(Unknown, {})
  /\ UNCHANGED <<db, made, torn>>

\* The state set by the read effect is rendered, and the write effect runs again.
Render ==
  /\ open /\ next # Absent
  /\ custom' = next
  /\ store' = [store EXCEPT ![key] = next]
  /\ next' = Absent
  /\ UNCHANGED <<db, open, key, made, torn, opens>>

\* Fault: the identity is left out of the storage key.
IdentifyByName ==
  /\ open /\ key = Unknown /\ next = Absent
  /\ key' = 1
  /\ Effects(1, custom)
  /\ UNCHANGED <<db, open, custom, made, torn, opens>>

\* loadDbIdentity answers; a lookup that fails leaves the key as it is.
Identify ==
  /\ open /\ key = Unknown /\ next = Absent
  /\ key' = db
  /\ Effects(db, custom)
  /\ UNCHANGED <<db, open, custom, made, torn, opens>>

CreateFolder(f) ==
  /\ open /\ next = Absent
  /\ custom' = custom \cup {f}
  /\ store' = [store EXCEPT ![key] = custom \cup {f}]
  /\ made' = made \cup {<<f, IF key = Unknown THEN Unknown ELSE db>>}
  /\ UNCHANGED <<db, open, key, next, torn, opens>>

Close ==
  /\ open
  /\ open' = FALSE
  /\ key' = Unknown /\ custom' = {} /\ next' = Absent
  /\ torn' = (torn \/ next # Absent)
  /\ UNCHANGED <<db, store, made, opens>>

Recreate ==
  /\ ~open /\ db < MaxDbs
  /\ db' = db + 1
  /\ UNCHANGED <<store, open, key, custom, next, made, torn, opens>>

Next == Open \/ Render \/ Identify \/ (\E f \in Names : CreateFolder(f)) \/ Close \/ Recreate

Spec == Init /\ [][Next]_vars
-----------------------------------------------------------------------------
Settled == open /\ next = Absent

\* The identity is part of the key so that a database does not show the folders of an
\* earlier one with its name.  It holds for folders made once the identity was known; one
\* made before it is remembered for "unknown", and so for every database of that name.
NoFolderOfAnotherDatabase ==
  Settled => \A f \in custom : <<f, db>> \in made \/ <<f, Unknown>> \in made

\* A folder made in an identified database is there whenever the page is opened on it again,
\* unless the page was once closed between two effects: each commit writes before the value
\* just read has been rendered, so the entry is then left empty.
FolderSurvives ==
  Settled /\ ~torn /\ key # Unknown => \A m \in made : m[2] = db => m[1] \in custom
=============================================================================
