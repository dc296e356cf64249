---------------------------- MODULE EmbedChannel ----------------------------
(***************************************************************************)
(* The drivers that have no database of their own and ask elsewhere: the   *)
(* iframe driver posts to its parent window, where every connection of the *)
(* window hears every answer; the playground driver has a web socket, of   *)
(* which it is the only listener.  Questions are told apart by a number    *)
(* that each connection counts for itself.                                 *)
(***************************************************************************)
EXTENDS Integers, Sequences, FiniteSets

CONSTANTS
  MaxConns,      \* bound: connections opened
  MaxQuestions   \* bound: questions asked

VARIABLES
  via,        \* "window" or "socket"
  conns,      \* IframeConnection / MySQLPlaygroundQueryable: [state, counter, queryPromise]
  requests,   \* questions on their way: [conn, id, of]
  answers,    \* answers on their way: [conn, id, of, error]
  asked,      \* questions asked, by whom
  settled     \* what became of the questions: n -> [by, error], by: the question answered

vars == <<via, conns, requests, answers, asked, settled>>

\* f with the value v at every member of S.
With(f, S, v) == [x \in DOMAIN f \cup S |-> IF x \in S THEN v ELSE f[x]]

Init ==
  /\ via \in {"window", "socket"}
  /\ conns = <<>> /\ requests = {} /\ answers = {} /\ asked = <<>>
  /\ settled = [n \in {} |-> 0]

\* A connection is made and listens; a socket takes no messages before it is open.
Listen ==
  /\ Len(conns) < MaxConns
  /\ conns' = Append(conns, [state |-> IF via = "window" THEN "ready" ELSE "connecting",
                             counter |-> 0, queryPromise |-> [i \in {} |-> 0]])
  /\ UNCHANGED <<via, requests, answers, asked, settled>>

\* "ready" arrives: from now on the driver is used.
OnReady(c) ==
  /\ conns[c].state = "connecting"
  /\ conns' = [conns EXCEPT ![c].state = "ready"]
  /\ UNCHANGED <<via, requests, answers, asked, settled>>

\* Fault: a question is numbered by the questions that wait.
NextIdByWaiting(conn) == 1 + Cardinality(DOMAIN conn.queryPromise)

NextId(conn) == conn.counter + 1

\* query and transaction: what a closed socket is given to send is dropped.
Query(c) ==
  LET n == Len(asked) + 1
      id == NextId(conns[c])
  IN /\ n <= MaxQuestions
     /\ conns[c].state # "connecting"
     /\ asked' = Append(asked, c)
     /\ conns' = [conns EXCEPT ![c].counter = @ + 1, ![c].queryPromise = With(@, {id}, n)]
     /\ requests' = IF conns[c].state = "closed" THEN requests
                    ELSE requests \cup {[conn |-> c, id |-> id, of |-> n]}
     /\ UNCHANGED <<via, answers, settled>>

\* The other side answers the questions in any order, with a result or an error.
Serve(r, error) ==
  /\ requests' = requests \ {r}
  /\ answers' = answers \cup {[conn |-> r.conn, id |-> r.id, of |-> r.of, error |-> error]}
  /\ UNCHANGED <<via, conns, asked, settled>>

Hearers(a) ==
  {c \in DOMAIN conns : /\ via = "window" \/ c = a.conn
                        /\ a.id \in DOMAIN conns[c].queryPromise}

\* A message settles the promise of its number wherever it is heard; others ignore it.
OnMessage(a) ==
  LET questions == {conns[c].queryPromise[a.id] : c \in Hearers(a)}
  IN /\ answers' = answers \ {a}
     /\ settled' = With(settled, questions, [by |-> a.of, error |-> a.error])
     /\ conns' = [c \in DOMAIN conns |->
                    IF c \in Hearers(a)
                    THEN [conns[c] EXCEPT !.queryPromise = [i \in DOMAIN @ \ {a.id} |-> @[i]]]
                    ELSE conns[c]]
     /\ UNCHANGED <<via, requests, asked>>

\* close(): nothing more goes out or comes in; the promises are left alone.
Close(c) ==
  /\ via = "socket" /\ conns[c].state = "ready"
  /\ conns' = [conns EXCEPT ![c].state = "closed"]
  /\ requests' = {r \in requests : r.conn # c}
  /\ answers' = {a \in answers : a.conn # c}
  /\ UNCHANGED <<via, asked, settled>>

Next ==
  \/ Listen
  \/ \E c \in DOMAIN conns : OnReady(c) \/ Query(c) \/ Close(c)
  \/ \E r \in requests, error \in BOOLEAN : Serve(r, error)
  \/ \E a \in answers : OnMessage(a)

Spec == Init /\ [][Next]_vars
-----------------------------------------------------------------------------
\* However the answers are ordered, a question is settled by its own answer, and no question of
\* an open connection is forgotten.  Excluded: a second connection in one window, whose numbers
\* start at 1 as well (a driver that is left keeps listening).
OwnAnswer ==
  via = "socket" \/ Len(conns) = 1 =>
    /\ \A n \in DOMAIN settled : settled[n].by = n
    /\ requests = {} /\ answers = {} =>
         \A n \in DOMAIN asked : conns[asked[n]].state = "ready" => n \in DOMAIN settled
=============================================================================
