------------------------------ MODULE InlinePrompt ------------------------------
(***************************************************************************)
(* The assistant of the SQL editor (Ctrl-B): CodeMirrorPromptPlugin, the       *)
(* PromptWidget it opens over some lines, whose closure keeps the place and    *)
(* the text it replaced, and the form inside it.  Answers come when they come. *)
(* A text is a sequence of tokens, a place a number of tokens before it.       *)
(***************************************************************************)
EXTENDS Integers, Sequences, FiniteSets

CONSTANTS
  Text,        \* what the editor holds at first
  MaxWidgets,  \* bound: prompts opened
  MaxQueries,  \* bound: questions asked
  MaxPrompts,  \* bound: instructions typed in a prompt
  MaxEdits     \* bound: tokens typed in the editor

VARIABLES
  doc,         \* the text of the editor
  widget,      \* closures of the prompts opened: [from, to, orig, suggested, counter]
  top,         \* the prompt on the screen, 0 for none
  isActive,    \* plugin.isActive
  locked,      \* the editor is read-only
  form,        \* of the prompt on the screen: [prompt, previous, loading, cancelled]
  asked,       \* questions in flight: [widget, expected, prompt, id]
  queries,     \* number of questions asked
  mine,        \* history: the text as typed and accepted
  edits,
  late,        \* history: an answer for a closed prompt was written into the editor
  doubled      \* history: a prompt was opened over another

vars == <<doc, widget, top, isActive, locked, form, asked, queries, mine, edits, late, doubled>>

NoForm == [prompt |-> 0, previous |-> 0, loading |-> FALSE, cancelled |-> FALSE]

Replaced(text, from, to, with) == SubSeq(text, 1, from) \o with \o SubSeq(text, to + 1, Len(text))
\* Every answer is a text of its own; their lengths differ.
AnswerOf(id) == [k \in 1 .. 1 + (id % 2) |-> 100 + id]

-----------------------------------------------------------------------------
\* The constructor of PromptWidget.
NewWidget(from, to) ==
  LET orig == SubSeq(doc, from + 1, to)
  IN [from |-> from, to |-> to, orig |-> orig, suggested |-> orig, counter |-> 1]

\* openPrompt over the statement or the lines selected; a prompt that was there is destroyed
\* after the new one was made, and unlocks the editor.
OpenPrompt(from, to) ==
  /\ Len(widget) < MaxWidgets
  /\ from \in 0 .. Len(doc) /\ to \in from .. Len(doc)
  /\ widget' = Append(widget, NewWidget(from, to))
  /\ top' = Len(widget) + 1 /\ form' = NoForm
  /\ isActive' = (top = 0) /\ locked' = (top = 0)
  /\ doubled' = (doubled \/ top # 0)
  /\ UNCHANGED <<doc, asked, queries, mine, edits, late>>

\* reverseSuggestion: puts the original text back in the place of the suggestion.
Reversed(w, text) ==
  IF w.suggested = w.orig THEN text ELSE Replaced(text, w.from, w.from + Len(w.suggested), w.orig)

TypePrompt ==
  /\ top # 0 /\ form.prompt < MaxPrompts
  /\ form' = [form EXCEPT !.prompt = @ + 1]
  /\ UNCHANGED <<doc, widget, top, isActive, locked, asked, queries, mine, edits, late, doubled>>

\* Enter submits a first instruction and Ctrl-Enter a changed one, another on the way or not;
\* Ctrl-Enter accepts what answers the instruction as it stands.
CanSubmit == top # 0 /\ form.prompt # 0 /\ form.prompt # form.previous
CanAccept == top # 0 /\ form.previous # 0 /\ form.prompt = form.previous

Submit ==
  /\ CanSubmit /\ queries < MaxQueries
  /\ queries' = queries + 1
  /\ asked' = asked \cup {[widget |-> top, expected |-> widget[top].counter,
                           prompt |-> form.prompt, id |-> queries + 1]}
  /\ form' = [form EXCEPT !.loading = TRUE, !.cancelled = FALSE]
  /\ UNCHANGED <<doc, widget, top, isActive, locked, mine, edits, late, doubled>>

-----------------------------------------------------------------------------
\* The place is in the text still; CodeMirror throws otherwise.
InText(w, text) == w.from + Len(w.suggested) <= Len(text) /\ w.to <= Len(Reversed(w, text))

\* The rest of onGenerate, for question q of widget w.
Wanted(q, w) == isActive /\ q.expected = w.counter

\* Fault: a suggestion is put in the place of the selection without the last one being reversed.
WriteOver(w, answer, text) == Replaced(text, w.from, w.to, answer)

Write(w, answer, text) == Replaced(Reversed(w, text), w.from, w.to, answer)

\* The form of the prompt hears of its own questions.
Heard(q, ok) ==
  form' = IF q.widget # top THEN form
          ELSE [form EXCEPT !.loading = FALSE,
                            !.previous = IF ok /\ ~form.cancelled THEN q.prompt ELSE @]

Answer(q, ok) ==
  LET w == widget[q.widget]
      use == ok /\ Wanted(q, w)
      throws == use /\ ~InText(w, doc)
  IN /\ q \in asked /\ asked' = asked \ {q}
     /\ doc' = IF use /\ ~throws THEN Write(w, AnswerOf(q.id), doc) ELSE doc
     /\ widget' = [widget EXCEPT ![q.widget].counter = @ + 1,
                                 ![q.widget].suggested = IF use /\ ~throws THEN AnswerOf(q.id) ELSE @]
     /\ Heard(q, ok /\ ~throws)
     /\ late' = (late \/ (use /\ q.widget # top))
     /\ UNCHANGED <<top, isActive, locked, queries, mine, edits, doubled>>

-----------------------------------------------------------------------------
Cancel ==
  /\ top # 0 /\ form.loading
  /\ widget' = [widget EXCEPT ![top].counter = @ + 1]
  /\ form' = [form EXCEPT !.loading = FALSE, !.cancelled = TRUE]
  /\ UNCHANGED <<doc, top, isActive, locked, asked, queries, mine, edits, late, doubled>>

Reject ==
  /\ top # 0 /\ ~form.loading
  /\ doc' = Reversed(widget[top], doc)
  /\ widget' = [widget EXCEPT ![top].suggested = widget[top].orig]
  /\ form' = [form EXCEPT !.previous = 0]
  /\ UNCHANGED <<top, isActive, locked, asked, queries, mine, edits, late, doubled>>

\* closePrompt, and destroy.
Hidden ==
  /\ top' = 0 /\ isActive' = FALSE /\ locked' = FALSE /\ form' = NoForm

\* Fault: closing leaves the suggestion.
CloseOnly ==
  /\ top # 0 /\ Hidden
  /\ UNCHANGED <<doc, widget, asked, queries, mine, edits, late, doubled>>

Close ==
  /\ top # 0 /\ Hidden
  /\ doc' = Reversed(widget[top], doc)
  /\ UNCHANGED <<widget, asked, queries, mine, edits, late, doubled>>

Accept ==
  /\ CanAccept /\ Hidden
  /\ mine' = doc
  /\ UNCHANGED <<doc, widget, asked, queries, edits, late, doubled>>

\* The user types in the editor; a token typed is its number.
Edit(at) ==
  /\ ~locked /\ edits < MaxEdits /\ at \in 0 .. Len(doc)
  /\ edits' = edits + 1
  /\ doc' = Replaced(doc, at, at, <<edits>>)
  /\ mine' = IF at <= Len(mine) THEN Replaced(mine, at, at, <<edits>>) ELSE mine
  /\ UNCHANGED <<widget, top, isActive, locked, form, asked, queries, late, doubled>>

Init ==
  /\ doc = Text /\ mine = Text /\ widget = <<>> /\ top = 0 /\ form = NoForm
  /\ isActive = FALSE /\ locked = FALSE /\ asked = {} /\ queries = 0 /\ edits = 0
  /\ late = FALSE /\ doubled = FALSE

Next ==
  \/ \E from, to \in 0 .. Len(doc) : OpenPrompt(from, to)
  \/ TypePrompt \/ Submit \/ Cancel \/ Reject \/ Close \/ Accept
  \/ \E q \in asked, ok \in BOOLEAN : Answer(q, ok)
  \/ \E at \in 0 .. Len(doc) : Edit(at)

Spec == Init /\ [][Next]_vars

-----------------------------------------------------------------------------
(***************************************************************************)
(* Invariant.  Between prompts the editor holds what was typed and accepted,   *)
(* and nothing of a suggestion that was rejected, cancelled or closed upon --  *)
(* unless an answer came for a prompt closed before while another was open,    *)
(* or a prompt was opened over another, whose suggestion then stays.           *)
(***************************************************************************)
EditorIsMine == top = 0 /\ ~late /\ ~doubled => doc = mine
=============================================================================
