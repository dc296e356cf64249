--------------------------- MODULE SerialExecutor ---------------------------
(***************************************************************************)
(* What a serialised write queue promises, without channels or goroutines: *)
(* every lane is a log of submitted calls; calls of a lane are executed    *)
(* one after the other in the order of the log, each at most once; a call  *)
(* is answered with the outcome of its own execution, or abandoned.        *)
(***************************************************************************)
EXTENDS Naturals, Sequences

CONSTANTS Calls, Lanes

Outcomes == {"ok", "err"}

VARIABLES
  log,      \* lane -> calls in the order they were submitted
  done,     \* lane -> how many calls of the log have been executed
  outcome,  \* call -> "none" or the outcome of its execution
  answer    \* call -> "open", the outcome reported, or "abandoned"

avars == <<log, done, outcome, answer>>

Init ==
  /\ log = [l \in Lanes |-> <<>>]
  /\ done = [l \in Lanes |-> 0]
  /\ outcome = [c \in Calls |-> "none"]
  /\ answer = [c \in Calls |-> "open"]

Submitted(c) == \E l \in Lanes : \E i \in 1..Len(log[l]) : log[l][i] = c

Submit(c, l) ==
  /\ answer[c] = "open"
  /\ ~Submitted(c)
  /\ log' = [log EXCEPT ![l] = Append(@, c)]
  /\ UNCHANGED <<done, outcome, answer>>

Execute(l, r) ==
  /\ done[l] < Len(log[l])
  /\ done' = [done EXCEPT ![l] = @ + 1]
  /\ outcome' = [outcome EXCEPT ![log[l][done[l] + 1]] = r]
  /\ UNCHANGED <<log, answer>>

Answer(c) ==
  /\ answer[c] = "open"
  /\ outcome[c] # "none"
  /\ answer' = [answer EXCEPT ![c] = outcome[c]]
  /\ UNCHANGED <<log, done, outcome>>

\* The caller stops waiting: a submitted call may still be executed, one that
\* was not submitted never will be (Submit needs an open answer).
Abandon(c) ==
  /\ answer[c] = "open"
  /\ answer' = [answer EXCEPT ![c] = "abandoned"]
  /\ UNCHANGED <<log, done, outcome>>

Next ==
  \/ \E c \in Calls, l \in Lanes : Submit(c, l)
  \/ \E l \in Lanes, r \in Outcomes : Execute(l, r)
  \/ \E c \in Calls : Answer(c) \/ Abandon(c)

Spec == Init /\ [][Next]_avars
=============================================================================
