---------------------------- MODULE FileBrowser ----------------------------
(***************************************************************************)
(* The file explorer of the admin front end: the page of a database's      *)
(* files and, with the same text, the page of a bucket's files.            *)
(*                                                                         *)
(* The server keeps files with a folder path; the page keeps the rows of   *)
(* the last list it was given and derives folders and files from them.     *)
(* Requests are answered in any order, refused, or lost.  A folder is a    *)
(* sequence of names, <<>> the root; files are numbered as uploaded.       *)
(***************************************************************************)
EXTENDS Integers, Sequences, FiniteSets, SequencesExt, FiniteSetsExt

CONSTANTS
  Folders,   \* the folders that occur, with the folders above them, the root included
  Longer,    \* pairs <<m, n>> of names where m begins with n
  Limit,     \* files in an answer, 200 in the code
  MaxFiles,  \* bound: files that ever exist
  MaxOps,    \* bound: the user's clicks that send a request
  MaxReqs    \* bound: requests in flight

VARIABLES
  files,     \* the server's files: number -> folder
  made,      \* files uploaded so far
  folder,    \* currentFolder
  rows,      \* rows: files of the last list shown
  custom,    \* customFolders
  chosen,    \* fileInput # null
  uploading, loading, error,
  dialog,    \* deleteConfirmation
  reqs,      \* requests in flight, in the order they were sent
  orderly,   \* history: see Quiet
  ops        \* history: clicks used

vars == <<files, made, folder, rows, custom, chosen, uploading, loading, error,
          dialog, reqs, orderly, ops>>

NoDialog == [isOpen |-> FALSE, id |-> 0, isDeleting |-> FALSE]

Request(kind, where, id, by) ==
  [kind |-> kind, folder |-> where, id |-> id, by |-> by, answer |-> "none", rows |-> {}]

\* folder_path LIKE 'p%': a comparison of texts, not of paths.
Like(f, p) ==
  \/ IsPrefix(p, f)
  \/ /\ Len(f) >= Len(p)
     /\ IsPrefix(Front(p), f)
     /\ <<f[Len(p)], Last(p)>> \in Longer

\* ORDER BY uploaded_at DESC LIMIT Limit
Listing(p) ==
  LET all == {n \in DOMAIN files : Like(files[n], p)}
      newest == {n \in all : Cardinality({m \in all : m > n}) < Limit}
  IN {[id |-> n, folder |-> files[n]] : n \in newest}

(***************************************************************************)
(* What the page derives from its rows.                                    *)
(***************************************************************************)
Below(f, p) == IsPrefix(p, f) /\ f # p
Child(f, p) == SubSeq(f, 1, Len(p) + 1)

FolderOptions == ({r.folder : r \in rows} \cup custom) \ {<<>>}

ChildFolders == {Child(f, folder) : f \in {g \in FolderOptions : Below(g, folder)}}

\* Fault: a path belongs to a child whose name only begins like it.
ChildCountByText(c) == Cardinality({r \in rows : Like(r.folder, c)})

ChildCount(c) == Cardinality({r \in rows : Below(r.folder, folder) /\ Child(r.folder, folder) = c})

FilesInCurrentFolder == {r \in rows : r.folder = folder}

\* The rows folderStatistics adds up for a child.
Statistics(c) == {r \in rows : r.folder = c \/ Below(r.folder, c)}

\* The details of a child in their dialog.
Details(c) == [fileCount |-> ChildCount(c), summed |-> Cardinality(Statistics(c))]

-----------------------------------------------------------------------------
Init ==
  /\ files \in [1..2 -> Folders]
  /\ made = 2
  /\ folder = <<>>
  /\ rows = {}
  /\ custom \in {{}, {CHOOSE f \in Folders : Len(f) = 2}}
  /\ chosen = FALSE
  /\ uploading = FALSE
  /\ loading = TRUE
  /\ error = FALSE
  /\ dialog = NoDialog
  /\ reqs = <<Request("list", <<>>, 0, "effect")>>
  /\ orderly = TRUE
  /\ ops = 0

\* loadFiles of the render that showed folder p.
LoadFiles(rest, p, by) ==
  /\ loading' = TRUE
  /\ error' = FALSE
  /\ reqs' = Append(rest, Request("list", p, 0, by))

Click == ops < MaxOps /\ Len(reqs) < MaxReqs /\ ~dialog.isOpen /\ ops' = ops + 1

\* setCurrentFolder and, when the folder is another, the effect that follows the render.
OnSelectFolder(p) ==
  /\ folder' = p
  /\ IF p = folder THEN error' = FALSE /\ UNCHANGED <<loading, reqs, orderly>>
     ELSE /\ LoadFiles(reqs, p, "effect")
          /\ orderly' = (orderly /\ \A k \in DOMAIN reqs : reqs[k].kind = "list")

\* The breadcrumb, "..", and the rows of folders.
Navigable == {SubSeq(folder, 1, n) : n \in 0..Len(folder)} \cup ChildFolders

Select(p) ==
  /\ Click
  /\ p \in Navigable
  /\ OnSelectFolder(p)
  /\ UNCHANGED <<files, made, rows, custom, chosen, uploading, dialog>>

CreateFolder(p) ==
  /\ Click
  /\ p # <<>>
  /\ custom' = custom \cup {p}
  /\ OnSelectFolder(p)
  /\ UNCHANGED <<files, made, rows, chosen, uploading, dialog>>

ChooseFile ==
  /\ ~chosen /\ ~dialog.isOpen
  /\ chosen' = TRUE
  /\ UNCHANGED <<files, made, folder, rows, custom, uploading, loading, error, dialog, reqs, orderly, ops>>

OnUpload ==
  /\ Click
  /\ ~uploading
  /\ IF chosen
     THEN /\ uploading' = TRUE
          /\ error' = FALSE
          /\ reqs' = Append(reqs, Request("upload", folder, 0, "user"))
     ELSE error' = TRUE /\ UNCHANGED <<uploading, reqs>>
  /\ UNCHANGED <<files, made, folder, rows, custom, chosen, loading, dialog, orderly>>

OnDelete(r) ==
  /\ ~dialog.isOpen
  /\ dialog' = [isOpen |-> TRUE, id |-> r.id, isDeleting |-> FALSE]
  /\ UNCHANGED <<files, made, folder, rows, custom, chosen, uploading, loading, error, reqs, orderly, ops>>

\* Cancel, Escape or a click beside the dialog; the last two also while it is deleting.
CloseDialog ==
  /\ dialog.isOpen
  /\ dialog' = NoDialog
  /\ UNCHANGED <<files, made, folder, rows, custom, chosen, uploading, loading, error, reqs, orderly, ops>>

ConfirmDelete ==
  /\ dialog.isOpen /\ ~dialog.isDeleting
  /\ ops < MaxOps /\ Len(reqs) < MaxReqs /\ ops' = ops + 1
  /\ dialog' = [dialog EXCEPT !.isDeleting = TRUE]
  /\ error' = FALSE
  /\ reqs' = Append(reqs, Request("delete", folder, dialog.id, "user"))
  /\ UNCHANGED <<files, made, folder, rows, custom, chosen, uploading, loading, orderly>>

-----------------------------------------------------------------------------
\* The server: a request is carried out, refused or lost, with its effect or without.
Effect(r) ==
  CASE r.kind = "upload" -> /\ made' = made + 1
                            /\ files' = [n \in DOMAIN files \cup {made + 1} |->
                                           IF n = made + 1 THEN r.folder ELSE files[n]]
    [] r.kind = "delete" -> /\ files' = [n \in DOMAIN files \ {r.id} |-> files[n]]
                            /\ UNCHANGED made
    [] r.kind = "list" -> UNCHANGED <<files, made>>

Serve(k) ==
  LET r == reqs[k] IN
  /\ r.answer = "none"
  /\ r.kind = "upload" => made < MaxFiles
  /\ r.kind = "delete" => r.id \in DOMAIN files
  /\ Effect(r)
  /\ \E how \in {"ok", "lost"} :
       /\ reqs' = [reqs EXCEPT ![k].answer = how,
                               ![k].rows = IF r.kind = "list" THEN Listing(r.folder) ELSE {}]
       /\ orderly' = (orderly /\ how = "ok")
  /\ UNCHANGED <<folder, rows, custom, chosen, uploading, loading, error, dialog, ops>>

Refuse(k) ==
  /\ reqs[k].answer = "none"
  /\ \E how \in {"refused", "lost"} : reqs' = [reqs EXCEPT ![k].answer = how]
  /\ orderly' = (orderly /\ reqs[k].kind # "list")
  /\ UNCHANGED <<files, made, folder, rows, custom, chosen, uploading, loading, error, dialog, ops>>

\* A lost list: only the effect's caller clears "loading"; a deletion's has no handler at all.
ListAnswer(k) ==
  LET r == reqs[k] IN
  /\ r.kind = "list" /\ r.answer # "none"
  /\ reqs' = RemoveAt(reqs, k)
  /\ loading' = (r.answer = "lost" /\ r.by # "effect" /\ loading)
  /\ rows' = IF r.answer = "ok" THEN r.rows ELSE rows
  /\ error' = (error \/ r.answer = "refused" \/ (r.answer = "lost" /\ r.by # "delete"))
  /\ orderly' = (orderly /\ \A j \in 1..(k - 1) : reqs[j].kind # "list")
  /\ UNCHANGED <<files, made, folder, custom, chosen, uploading, dialog, ops>>

UploadAnswer(k) ==
  LET r == reqs[k] IN
  /\ r.kind = "upload" /\ r.answer # "none"
  /\ uploading' = (r.answer = "lost")
  /\ chosen' = (chosen /\ r.answer # "ok")
  /\ IF r.answer = "ok" THEN LoadFiles(RemoveAt(reqs, k), r.folder, "upload")
     ELSE error' = TRUE /\ reqs' = RemoveAt(reqs, k) /\ UNCHANGED loading
  /\ UNCHANGED <<files, made, folder, rows, custom, dialog, orderly, ops>>

\* Fault: the list is not read again once the file is deleted.
DeleteAnswerWithoutReload(k) ==
  LET r == reqs[k] IN
  /\ r.kind = "delete" /\ r.answer # "none"
  /\ dialog' = IF r.answer = "lost" THEN dialog ELSE NoDialog
  /\ error' = (error \/ r.answer = "refused")
  /\ reqs' = RemoveAt(reqs, k)
  /\ UNCHANGED <<files, made, folder, rows, custom, chosen, uploading, loading, orderly, ops>>

DeleteAnswer(k) ==
  LET r == reqs[k] IN
  /\ r.kind = "delete" /\ r.answer # "none"
  /\ dialog' = IF r.answer = "lost" THEN dialog ELSE NoDialog
  /\ IF r.answer = "ok" THEN LoadFiles(RemoveAt(reqs, k), r.folder, "delete")
     ELSE error' = (error \/ r.answer = "refused") /\ reqs' = RemoveAt(reqs, k) /\ UNCHANGED loading
  /\ UNCHANGED <<files, made, folder, rows, custom, chosen, uploading, orderly, ops>>

Next ==
  \/ \E p \in Folders : Select(p) \/ CreateFolder(p)
  \/ ChooseFile
  \/ OnUpload
  \/ \E r \in FilesInCurrentFolder : OnDelete(r)
  \/ CloseDialog
  \/ ConfirmDelete
  \/ \E k \in DOMAIN reqs : \/ Serve(k)
                            \/ Refuse(k)
                            \/ ListAnswer(k)
                            \/ UploadAnswer(k)
                            \/ DeleteAnswer(k)

Spec == Init /\ [][Next]_vars
-----------------------------------------------------------------------------
\* Every listed file at or below the current folder is in exactly one line of the table, as
\* a file or in the number beside its folder; a folder's number, and the files its
\* statistics add up, are those below it, and not those of a folder named alike; and
\* every folder the user made there can be reached.
ListedIsShown ==
  /\ Cardinality({r \in rows : IsPrefix(folder, r.folder)})
       = Cardinality(FilesInCurrentFolder) + MapThenSumSet(ChildCount, ChildFolders)
  /\ \A c \in ChildFolders : Details(c).fileCount = Details(c).summed
  /\ \A f \in custom : Below(f, folder) => Child(f, folder) \in Navigable

\* With nothing in flight and no error on the page the rows are what the server would list
\* for the folder shown, uploads and deletions included.  "Orderly" excludes what the
\* page does not handle: an answer to a list overtaken by another's, a folder left while an
\* upload or a deletion is in flight, and an answer that is lost.
QuietIsFresh ==
  orderly /\ reqs = <<>> /\ ~error => rows = Listing(folder) /\ ~loading
=============================================================================
