----------------------------- MODULE WriteQueue -----------------------------
(***************************************************************************)
(* server/queue/queue.go: one buffered channel and one worker goroutine    *)
(* per database, callers that enqueue a closure and wait for its reply,    *)
(* and Stop; with the shutdown of cmd/server/main.go that decides when     *)
(* Stop runs while HTTP handlers may still be alive.                       *)
(*                                                                         *)
(* A call is one request whose handler calls Enqueue once.  Stop deletes   *)
(* every channel from the map, so a database has at most one channel       *)
(* before Stop and one after it: a channel is a pair <<db, generation>>.   *)
(***************************************************************************)
EXTENDS Integers, Sequences, FiniteSets

CONSTANTS
  Calls,     \* the requests
  DBs,       \* database names
  Route,     \* the database each request addresses
  MayLeave,  \* requests whose client may disconnect
  MaxDepth,  \* the argument of New
  StuckDBs,  \* databases whose closures may never return (no fairness)
  NoCall, NoChan

ASSUME DepthAssumption == MaxDepth \in Int
ASSUME RouteAssumption == Route \in [Calls -> DBs]
ASSUME StuckAssumption == StuckDBs \subseteq DBs
ASSUME NoCallAssumption == NoCall \notin Calls

Chans == DBs \X {0, 1}
ASSUME NoChanAssumption == NoChan \notin Chans

DefaultDepth == 256
Depth == IF MaxDepth <= 0 THEN DefaultDepth ELSE MaxDepth

VARIABLES
  phase,     \* the main goroutine: serving, shutdown, the steps of Stop, exited
  timedOut,  \* srv.Shutdown gave up on handlers that were still running
  pc,        \* call -> where its handler is
  chan,      \* call -> the channel workerFor returned to it
  ctxDone,   \* call -> its request context is cancelled
  workers,   \* the keys of q.workers
  live,      \* channels whose worker goroutine has not exited (q.wg)
  buf,       \* channel -> jobs in its buffer
  cur,       \* channel -> the job whose closure its worker runs
  reply,     \* call -> content of its reply channel, kept after it is read
  accepted,  \* history: channel -> jobs in the order they were sent
  ran        \* history: channel -> jobs in the order their closures started

mainVars == <<phase, timedOut>>
callVars == <<pc, chan, ctxDone>>
queueVars == <<workers, live, buf, cur, reply, accepted, ran>>
vars == <<mainVars, callVars, queueVars>>

Pending == {"handler", "sending", "waiting"}
Answered == {"ok", "err"}
Cancelled == {"enqueueCancelled", "waitCancelled"}
Finished == Answered \cup Cancelled \cup {"panicked"}

Active == {c \in Calls : pc[c] \in Pending}
Elems(s) == {s[i] : i \in 1..Len(s)}
Generation == IF phase \in {"serving", "shutdown", "stopping"} THEN 0 ELSE 1
Closed(ch) == ch[2] < Generation
ProcessUp == phase # "exited"   \* nothing moves after the process has exited

Init ==
  /\ phase = "serving"
  /\ timedOut = FALSE
  /\ pc = [c \in Calls |-> "new"]
  /\ chan = [c \in Calls |-> NoChan]
  /\ ctxDone = [c \in Calls |-> FALSE]
  /\ workers = {}
  /\ live = {}
  /\ buf = [ch \in Chans |-> <<>>]
  /\ cur = [ch \in Chans |-> NoCall]
  /\ reply = [c \in Calls |-> "none"]
  /\ accepted = [ch \in Chans |-> <<>>]
  /\ ran = [ch \in Chans |-> <<>>]

-----------------------------------------------------------------------------
(* The caller of Enqueue *)

Goto(c, from, to) ==
  /\ ProcessUp
  /\ pc[c] = from
  /\ pc' = [pc EXCEPT ![c] = to]

\* The HTTP server hands a request to its handler; Shutdown closes the listeners.
Admit(c) ==
  /\ phase = "serving"
  /\ Goto(c, "new", "handler")
  /\ UNCHANGED <<mainVars, chan, ctxDone, queueVars>>

\* The client disconnects: r.Context() is cancelled.
CancelContext(c) ==
  /\ ProcessUp
  /\ c \in MayLeave
  /\ pc[c] \in Pending
  /\ ~ctxDone[c]
  /\ ctxDone' = [ctxDone EXCEPT ![c] = TRUE]
  /\ UNCHANGED <<mainVars, pc, chan, queueVars>>

\* Enqueue begins: workerFor finds the channel or makes it and starts a worker.
WorkerFor(c) ==
  LET d == Route[c]
      ch == <<d, Generation>> IN
  /\ Goto(c, "handler", "sending")
  /\ chan' = [chan EXCEPT ![c] = ch]
  /\ workers' = workers \cup {d}
  /\ live' = IF d \in workers THEN live ELSE live \cup {ch}
  /\ UNCHANGED <<mainVars, ctxDone, buf, cur, reply, accepted, ran>>

\* First select, send case: the buffer has room and the channel is open.
Send(c) ==
  LET ch == chan[c] IN
  /\ Goto(c, "sending", "waiting")
  /\ ~Closed(ch)
  /\ Len(buf[ch]) < Depth
  /\ buf' = [buf EXCEPT ![ch] = Append(@, c)]
  /\ accepted' = [accepted EXCEPT ![ch] = Append(@, c)]
  /\ UNCHANGED <<mainVars, chan, ctxDone, workers, live, cur, reply, ran>>

\* First select, send case on a channel that Stop closed after workerFor
\* returned it: the goroutine panics (the router's Recoverer answers 500).
SendOnClosed(c) ==
  /\ Goto(c, "sending", "panicked")
  /\ Closed(chan[c])
  /\ UNCHANGED <<mainVars, chan, ctxDone, queueVars>>

\* Fault: one select for both the send and the reply.
CancelAfterSend(c) ==
  /\ ctxDone[c]
  /\ Goto(c, "waiting", "enqueueCancelled")
  /\ UNCHANGED <<mainVars, chan, ctxDone, queueVars>>

\* First select, ctx.Done case.  Go picks any ready case of a select.
CancelEnqueue(c) ==
  /\ ctxDone[c]
  /\ Goto(c, "sending", "enqueueCancelled")
  /\ UNCHANGED <<mainVars, chan, ctxDone, queueVars>>

\* Fault: the caller does not wait for the reply.
ReceiveEarly(c) ==
  /\ Goto(c, "waiting", reply[c])
  /\ UNCHANGED <<mainVars, chan, ctxDone, queueVars>>

\* Second select: the reply, or ctx.Done.
Receive(c) ==
  /\ reply[c] # "none"
  /\ Goto(c, "waiting", reply[c])
  /\ UNCHANGED <<mainVars, chan, ctxDone, queueVars>>

\* Fault: cancellation is looked at only once the reply is there.
CancelWaitLate(c) ==
  /\ ctxDone[c]
  /\ reply[c] # "none"
  /\ Goto(c, "waiting", "waitCancelled")
  /\ UNCHANGED <<mainVars, chan, ctxDone, queueVars>>

CancelWait(c) ==
  /\ ctxDone[c]
  /\ Goto(c, "waiting", "waitCancelled")
  /\ UNCHANGED <<mainVars, chan, ctxDone, queueVars>>

-----------------------------------------------------------------------------
(* runWorker *)

\* Fault: the job stays in the buffer.
PeekJob(ch) ==
  /\ ProcessUp
  /\ ch \in live
  /\ cur[ch] = NoCall
  /\ buf[ch] # <<>>
  /\ cur' = [cur EXCEPT ![ch] = Head(buf[ch])]
  /\ ran' = [ran EXCEPT ![ch] = Append(@, Head(buf[ch]))]
  /\ UNCHANGED <<mainVars, callVars, workers, live, buf, reply, accepted>>

\* Fault: the newest job first.
TakeNewestJob(ch) ==
  LET n == Len(buf[ch]) IN
  /\ ProcessUp
  /\ ch \in live
  /\ cur[ch] = NoCall
  /\ buf[ch] # <<>>
  /\ cur' = [cur EXCEPT ![ch] = buf[ch][n]]
  /\ buf' = [buf EXCEPT ![ch] = SubSeq(@, 1, n - 1)]
  /\ ran' = [ran EXCEPT ![ch] = Append(@, buf[ch][n])]
  /\ UNCHANGED <<mainVars, callVars, workers, live, reply, accepted>>

TakeJob(ch) ==
  /\ ProcessUp
  /\ ch \in live
  /\ cur[ch] = NoCall
  /\ buf[ch] # <<>>
  /\ cur' = [cur EXCEPT ![ch] = Head(buf[ch])]
  /\ buf' = [buf EXCEPT ![ch] = Tail(@)]
  /\ ran' = [ran EXCEPT ![ch] = Append(@, Head(buf[ch]))]
  /\ UNCHANGED <<mainVars, callVars, workers, live, reply, accepted>>

\* The closure returns r; the reply channel is buffered, so the send never blocks.
FinishJob(ch, r) ==
  /\ ProcessUp
  /\ cur[ch] # NoCall
  /\ reply' = [reply EXCEPT ![cur[ch]] = r]
  /\ cur' = [cur EXCEPT ![ch] = NoCall]
  /\ UNCHANGED <<mainVars, callVars, workers, live, buf, accepted, ran>>

\* Fault: the worker leaves as soon as its channel is closed.
ExitOnClose(ch) ==
  /\ ProcessUp
  /\ ch \in live
  /\ Closed(ch)
  /\ cur[ch] = NoCall
  /\ live' = live \ {ch}
  /\ phase' = IF phase = "waiting" /\ live = {ch} THEN "returned" ELSE phase
  /\ UNCHANGED <<timedOut, callVars, workers, buf, cur, reply, accepted, ran>>

\* Fault: no wg.Done.
ExitWithoutDone(ch) ==
  /\ ProcessUp
  /\ ch \in live
  /\ Closed(ch)
  /\ cur[ch] = NoCall
  /\ buf[ch] = <<>>
  /\ live' = live \ {ch}
  /\ UNCHANGED <<mainVars, callVars, workers, buf, cur, reply, accepted, ran>>

\* The range loop ends on a closed and empty channel; wg.Done releases a
\* waiting Stop when the count reaches zero.
WorkerExit(ch) ==
  /\ ProcessUp
  /\ ch \in live
  /\ Closed(ch)
  /\ cur[ch] = NoCall
  /\ buf[ch] = <<>>
  /\ live' = live \ {ch}
  /\ phase' = IF phase = "waiting" /\ live = {ch} THEN "returned" ELSE phase
  /\ UNCHANGED <<timedOut, callVars, workers, buf, cur, reply, accepted, ran>>

-----------------------------------------------------------------------------
(* The main goroutine: SIGTERM, srv.Shutdown with its timeout, Stop, exit *)

\* Fault: the queue is stopped before the HTTP server.
TerminateQueueFirst ==
  /\ phase = "serving"
  /\ phase' = "stopping"
  /\ UNCHANGED <<timedOut, callVars, queueVars>>

Terminate ==
  /\ phase = "serving"
  /\ phase' = "shutdown"
  /\ UNCHANGED <<timedOut, callVars, queueVars>>

\* Shutdown returns when no handler is left, or after 15 seconds regardless.
ShutdownReturns ==
  /\ phase = "shutdown"
  /\ phase' = "stopping"
  /\ timedOut' = (Active # {})
  /\ UNCHANGED <<callVars, queueVars>>

\* Stop, under q.mu: every channel is closed and deleted from the map.
StopClose ==
  /\ phase = "stopping"
  /\ phase' = "closed"
  /\ workers' = {}
  /\ UNCHANGED <<timedOut, callVars, live, buf, cur, reply, accepted, ran>>

\* Fault: Stop does not wait.
StopWithoutWait ==
  /\ phase = "closed"
  /\ phase' = "returned"
  /\ UNCHANGED <<timedOut, callVars, queueVars>>

\* Stop, after unlocking: wg.Wait.
StopWait ==
  /\ phase = "closed"
  /\ phase' = IF live = {} THEN "returned" ELSE "waiting"
  /\ UNCHANGED <<timedOut, callVars, queueVars>>

\* The remaining defers close storage, registry and pool; main returns.
Exit ==
  /\ phase = "returned"
  /\ phase' = "exited"
  /\ UNCHANGED <<timedOut, callVars, queueVars>>

-----------------------------------------------------------------------------
Caller(c) ==
  \/ WorkerFor(c) \/ Send(c) \/ SendOnClosed(c)
  \/ CancelEnqueue(c) \/ Receive(c) \/ CancelWait(c)

Run(ch) == \E r \in Answered : FinishJob(ch, r)
Worker(ch) == TakeJob(ch) \/ Run(ch) \/ WorkerExit(ch)
Main == ShutdownReturns \/ StopClose \/ StopWait \/ Exit

Next ==
  \/ \E c \in Calls : Admit(c) \/ CancelContext(c) \/ Caller(c)
  \/ \E ch \in Chans : Worker(ch)
  \/ Terminate \/ Main

(* The Go scheduler runs every goroutine that can run; a closure returns     *)
(* unless its database is stuck; main goes on once it was told to shut down. *)
(* Nothing makes clients send requests, disconnect, or the process be told   *)
(* to terminate.                                                             *)
Fairness ==
  /\ \A c \in Calls : WF_vars(Caller(c))
  /\ \A ch \in Chans : WF_vars(TakeJob(ch) \/ WorkerExit(ch))
  /\ \A ch \in Chans : ch[1] \notin StuckDBs => WF_vars(Run(ch))
  /\ WF_vars(Main)

Spec == Init /\ [][Next]_vars
FairSpec == Spec /\ Fairness
-----------------------------------------------------------------------------
(* Correctness *)

\* The shape of every variable; no handler returns before it has an outcome.
TypeOK ==
  /\ phase \in {"serving", "shutdown", "stopping", "closed", "waiting", "returned", "exited"}
  /\ timedOut \in BOOLEAN
  /\ pc \in [Calls -> {"new"} \cup Pending \cup Finished]
  /\ chan \in [Calls -> Chans \cup {NoChan}]
  /\ ctxDone \in [Calls -> BOOLEAN]
  /\ workers \subseteq DBs
  /\ live \subseteq Chans
  /\ buf \in [Chans -> Seq(Calls)]
  /\ cur \in [Chans -> Calls \cup {NoCall}]
  /\ reply \in [Calls -> {"none"} \cup Answered]
  /\ accepted \in [Chans -> Seq(Calls)]
  /\ ran \in [Chans -> Seq(Calls)]

\* A write that was accepted is applied at most once, whatever its caller was
\* told: no closure starts twice, on one channel or on two.
AtMostOnce ==
  \A ch1, ch2 \in Chans : \A i \in 1..Len(ran[ch1]), j \in 1..Len(ran[ch2]) :
    ran[ch1][i] = ran[ch2][j] => ch1 = ch2 /\ i = j

\* The errors a client may safely retry on: a caller that was refused before its
\* job was queued ("enqueue cancelled", or the panic on a closed channel) knows
\* that its write was not and will never be applied.
RefusedNeverRuns ==
  \A c \in Calls : pc[c] \in {"enqueueCancelled", "panicked"} =>
    \A ch \in Chans : c \notin Elems(accepted[ch])

\* "Stop drains": when Stop returns, every job that was accepted on a channel it
\* closed has run and its outcome is in its reply channel, also for callers
\* that left, and also when handlers outlived the shutdown timeout.
StopDrains ==
  phase \in {"returned", "exited"} =>
    \A d \in DBs : LET ch == <<d, 0>> IN
      /\ cur[ch] = NoCall
      /\ \A c \in Elems(accepted[ch]) : reply[c] # "none"

\* Two closures never run on one database at the same time.
OneWriterPerDB == \A d \in DBs : cur[<<d, 0>>] = NoCall \/ cur[<<d, 1>>] = NoCall

\* As long as srv.Shutdown saw every handler end before its timeout, writes of a
\* database are serialised throughout and no caller panics on a closed channel.
GracefulShutdownIsSafe ==
  timedOut \/ (OneWriterPerDB /\ \A c \in Calls : pc[c] # "panicked")

\* Channels, workers, cancellation and Stop together behave as serial logs: jobs
\* of a channel run one at a time in the order they were sent, each once, and a
\* caller is answered with the outcome of its own job or gives up.
Executed == [ch \in Chans |-> Len(ran[ch]) - (IF cur[ch] = NoCall THEN 0 ELSE 1)]
Verdict == [c \in Calls |-> IF pc[c] \in Answered THEN pc[c]
                            ELSE IF pc[c] \in Finished THEN "abandoned" ELSE "open"]

Executor == INSTANCE SerialExecutor WITH
  Lanes <- Chans, log <- accepted, done <- Executed, outcome <- reply, answer <- Verdict

ImplementsSerialExecutor == Executor!Spec

\* Enqueue "blocks until the write completes or ctx is cancelled": every caller
\* returns, unless it waits on a stuck database with a live context.  A stuck
\* database never holds up the callers of another one.
CallsReturn ==
  \A c \in Calls :
    pc[c] \in Pending ~>
      \/ phase = "exited" \/ pc[c] \in Finished
      \/ Route[c] \in StuckDBs /\ ~ctxDone[c]

\* A job accepted before Stop is run even when nobody waits for it any more and
\* even when shutdown has begun; the process does not exit before.
AcceptedRun ==
  \A c \in Calls, d \in DBs \ StuckDBs :
    c \in Elems(accepted[<<d, 0>>]) ~> c \in Elems(ran[<<d, 0>>])

\* Unless a closure never returns or a handler outlives the timeout, a shutdown
\* ends: Stop is never left waiting for a worker that waits for more jobs.
ShutdownCompletes ==
  phase = "shutdown" ~>
    phase = "exited" \/ timedOut \/ \E ch \in Chans : ch[1] \in StuckDBs /\ cur[ch] # NoCall
=============================================================================
