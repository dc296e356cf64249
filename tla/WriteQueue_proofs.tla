-------------------------- MODULE WriteQueue_proofs --------------------------
(***************************************************************************)
(* Proofs about WriteQueue, for every number of calls and databases, every *)
(* depth and with any client free to disconnect.                           *)
(***************************************************************************)
EXTENDS WriteQueue, SequenceTheorems, TLAPS

USE DepthAssumption, RouteAssumption, NoCallAssumption, NoChanAssumption

Phases == {"serving", "shutdown", "stopping", "closed", "waiting", "returned", "exited"}

PastSend == {"waiting", "ok", "err", "waitCancelled"}

\* A job's place: the runs of a channel followed by its buffer are what it accepted.
FifoInv == \A ch \in Chans : accepted[ch] = ran[ch] \o buf[ch]

\* A call is accepted once, and only callers past their first select have been.
OnceInv ==
  /\ \A ch1, ch2 \in Chans : \A i \in 1..Len(accepted[ch1]), j \in 1..Len(accepted[ch2]) :
       accepted[ch1][i] = accepted[ch2][j] => ch1 = ch2 /\ i = j
  /\ \A ch \in Chans : \A i \in 1..Len(accepted[ch]) :
       pc[accepted[ch][i]] \in PastSend

\* The worker's job is the last one it started, and exactly the jobs it started
\* before that one have an outcome; only an accepted job has one.
ReplyInv ==
  /\ \A c \in Calls : reply[c] # "none" => pc[c] \in PastSend
  /\ \A ch \in Chans :
    /\ cur[ch] # NoCall => Len(ran[ch]) > 0 /\ cur[ch] = ran[ch][Len(ran[ch])]
    /\ \A i \in 1..Len(accepted[ch]) :
         reply[accepted[ch][i]] = "none" <=>
           i > Len(ran[ch]) \/ (cur[ch] # NoCall /\ i = Len(ran[ch]))

\* Workers: a channel somebody can still send on has one, a channel without one
\* is empty and idle, and none of the closed channels has one once Stop returned.
WorkerInv ==
  /\ \A c \in Calls : pc[c] = "sending" =>
       /\ chan[c] \in Chans
       /\ chan[c][2] <= Generation
       /\ ~Closed(chan[c]) => chan[c] \in live
  /\ \A d \in workers : <<d, Generation>> \in live
  /\ \A ch \in Chans \ live : buf[ch] = <<>> /\ cur[ch] = NoCall
  /\ phase \in {"returned", "exited"} => \A d \in DBs : <<d, 0>> \notin live

\* After a shutdown that saw every handler end nobody is left to send, and
\* before Stop (or then) no second-generation channel is in use.
GracefulInv ==
  /\ phase \in {"serving", "shutdown"} => ~timedOut
  /\ ~timedOut => \A c \in Calls :
       /\ pc[c] # "panicked"
       /\ phase \notin {"serving", "shutdown"} => pc[c] \notin Pending
  /\ Generation = 0 \/ ~timedOut =>
       \A d \in DBs : buf[<<d, 1>>] = <<>> /\ cur[<<d, 1>>] = NoCall

IInv == TypeOK /\ FifoInv /\ OnceInv /\ ReplyInv /\ WorkerInv /\ GracefulInv
-----------------------------------------------------------------------------
(* The initial state has the types. *)
LEMMA TypeInit == Init => TypeOK
<1> DEFINE E == <<>>
<1>1. E \in Seq(Calls)
  OBVIOUS
<1>2. Init => /\ phase = "serving" /\ timedOut = FALSE /\ workers = {} /\ live = {}
              /\ buf = [ch \in Chans |-> E] /\ accepted = [ch \in Chans |-> E]
              /\ ran = [ch \in Chans |-> E]
  BY DEF Init
<1> HIDE DEF E
<1>3. Init => /\ buf \in [Chans -> Seq(Calls)]
              /\ accepted \in [Chans -> Seq(Calls)]
              /\ ran \in [Chans -> Seq(Calls)]
  BY <1>1, <1>2
<1>4. Init => /\ pc \in [Calls -> {"new"} \cup Pending \cup Finished]
              /\ chan \in [Calls -> Chans \cup {NoChan}]
              /\ ctxDone \in [Calls -> BOOLEAN]
  BY DEF Init
<1>5. Init => /\ cur \in [Chans -> Calls \cup {NoCall}]
              /\ reply \in [Calls -> {"none"} \cup Answered]
  BY DEF Init
<1>6. Init => /\ phase \in Phases
              /\ timedOut \in BOOLEAN
              /\ workers \subseteq DBs
              /\ live \subseteq Chans
  BY <1>2 DEF Phases
<1>7. QED
  BY <1>3, <1>4, <1>5, <1>6 DEF TypeOK, Phases

(* The variables hold what their comments say: TypeOK is inductive. *)
THEOREM TypeCorrect == Spec => []TypeOK
<1>1. Init => TypeOK
  BY TypeInit
<1>2. TypeOK /\ [Next]_vars => TypeOK'
  <2> SUFFICES ASSUME TypeOK, [Next]_vars PROVE TypeOK'
    OBVIOUS
  <2> USE DEF TypeOK, mainVars, callVars, queueVars, Goto
  <2>1. ASSUME NEW c \in Calls, Admit(c) PROVE TypeOK'
    BY <2>1 DEF Admit, Pending
  <2>2. ASSUME NEW c \in Calls, CancelContext(c) PROVE TypeOK'
    BY <2>2 DEF CancelContext
  <2>3. ASSUME NEW c \in Calls, WorkerFor(c) PROVE TypeOK'
    <3> DEFINE ch == <<Route[c], Generation>>
    <3>1. Route[c] \in DBs
      OBVIOUS
    <3>2. ch \in Chans
      BY <3>1 DEF Chans, Generation
    <3> HIDE DEF ch
    <3>3. QED
      BY <2>3, <3>1, <3>2 DEF WorkerFor, Pending, ch
  <2>4. ASSUME NEW c \in Calls, Send(c) PROVE TypeOK'
    <3>1. CASE chan[c] \in Chans
      <4>1. /\ Append(buf[chan[c]], c) \in Seq(Calls)
            /\ Append(accepted[chan[c]], c) \in Seq(Calls)
        BY <3>1
      <4>2. QED
        BY <2>4, <3>1, <4>1 DEF Send, Pending
    <3>2. CASE chan[c] \notin Chans
      BY <2>4, <3>2 DEF Send, Pending
    <3>3. QED
      BY <3>1, <3>2
  <2>5. ASSUME NEW c \in Calls, SendOnClosed(c) PROVE TypeOK'
    BY <2>5 DEF SendOnClosed, Finished
  <2>6. ASSUME NEW c \in Calls, CancelEnqueue(c) PROVE TypeOK'
    BY <2>6 DEF CancelEnqueue, Finished, Cancelled
  <2>7. ASSUME NEW c \in Calls, Receive(c) PROVE TypeOK'
    BY <2>7 DEF Receive, Finished, Answered
  <2>8. ASSUME NEW c \in Calls, CancelWait(c) PROVE TypeOK'
    BY <2>8 DEF CancelWait, Finished, Cancelled
  <2>9. ASSUME NEW ch \in Chans, TakeJob(ch) PROVE TypeOK'
    <3>1. Head(buf[ch]) \in Calls /\ Tail(buf[ch]) \in Seq(Calls)
      BY <2>9 DEF TakeJob
    <3>2. QED
      BY <2>9, <3>1 DEF TakeJob
  <2>10. ASSUME NEW ch \in Chans, NEW r \in Answered, FinishJob(ch, r) PROVE TypeOK'
    BY <2>10 DEF FinishJob
  <2>11. ASSUME NEW ch \in Chans, WorkerExit(ch) PROVE TypeOK'
    BY <2>11 DEF WorkerExit
  <2>12. CASE Terminate
    BY <2>12 DEF Terminate
  <2>13. CASE Main
    BY <2>13 DEF Main, ShutdownReturns, StopClose, StopWait, Exit
  <2>14. CASE UNCHANGED vars
    BY <2>14 DEF vars
  <2>15. QED
    BY <2>1, <2>2, <2>3, <2>4, <2>5, <2>6, <2>7, <2>8, <2>9, <2>10, <2>11, <2>12,
       <2>13, <2>14 DEF Next, Caller, Worker, Run
<1>3. QED
  BY <1>1, <1>2, PTL DEF Spec
-----------------------------------------------------------------------------
(* The inductive invariant *)

\* Which steps touch the logs of a channel.
LEMMA LogSteps ==
  ASSUME [Next]_vars
  PROVE  \/ \E c \in Calls : Send(c)
         \/ \E ch \in Chans : TakeJob(ch)
         \/ UNCHANGED <<buf, accepted, ran>>
BY DEF Next, Caller, Worker, Run, Main, Admit, CancelContext, WorkerFor, SendOnClosed,
       CancelEnqueue, Receive, CancelWait, FinishJob, WorkerExit, Terminate,
       ShutdownReturns, StopClose, StopWait, Exit, vars, queueVars

\* The first element of a sequence moves to the end of the one before it.
LEMMA ShiftHead ==
  ASSUME NEW S, NEW r \in Seq(S), NEW b \in Seq(S), b # <<>>
  PROVE  /\ Append(r, Head(b)) \o Tail(b) = r \o b
         /\ Head(b) \in S /\ Tail(b) \in Seq(S)
<1>1. Head(b) \in S /\ Tail(b) \in Seq(S)
  BY HeadTailProperties
<1>2. Len(b) \in Nat /\ Len(b) # 0
  BY EmptySeq, LenProperties
<1>3. b = <<Head(b)>> \o Tail(b)
  <2>1. SubSeq(b, 1, Len(b)) = <<b[1]>> \o SubSeq(b, 2, Len(b))
    BY <1>2, SubSeqRecursiveFirst
  <2>2. SubSeq(b, 1, Len(b)) = b /\ Tail(b) = SubSeq(b, 2, Len(b))
    BY SubSeqFull, TailIsSubSeq
  <2>3. Head(b) = b[1]
    OBVIOUS
  <2>4. QED
    BY <2>1, <2>2, <2>3
<1>4. <<Head(b)>> \in Seq(S)
  BY <1>1
<1>5. Append(r, Head(b)) = r \o <<Head(b)>>
  BY <1>1, AppendIsConcat
<1>6. (r \o <<Head(b)>>) \o Tail(b) = r \o (<<Head(b)>> \o Tail(b))
  BY <1>1, <1>4, ConcatAssociative
<1>7. QED
  BY <1>1, <1>3, <1>5, <1>6

\* Appending to the second of two sequences appends to their concatenation.
LEMMA AppendSecond ==
  ASSUME NEW r \in Seq(Calls), NEW b \in Seq(Calls), NEW x \in Calls
  PROVE  Append(r \o b, x) = r \o Append(b, x)
<1>1. <<x>> \in Seq(Calls) /\ r \o b \in Seq(Calls)
  BY ConcatProperties
<1>2. Append(b, x) = b \o <<x>> /\ Append(r \o b, x) = (r \o b) \o <<x>>
  BY <1>1, AppendIsConcat
<1>3. QED
  BY <1>1, <1>2, ConcatAssociative

\* Jobs leave the buffer in the order they entered it.
LEMMA FifoStep ==
  ASSUME TypeOK, FifoInv, [Next]_vars
  PROVE  FifoInv'
<1>1. ASSUME NEW c \in Calls, Send(c), NEW ch \in Chans
      PROVE  accepted'[ch] = ran'[ch] \o buf'[ch]
  <2>1. CASE ch = chan[c]
    <3>1. /\ buf'[ch] = Append(buf[ch], c)
          /\ accepted'[ch] = Append(accepted[ch], c)
          /\ ran'[ch] = ran[ch]
      BY <1>1, <2>1 DEF Send, TypeOK
    <3>2. accepted[ch] = ran[ch] \o buf[ch] /\ ran[ch] \in Seq(Calls) /\ buf[ch] \in Seq(Calls)
      BY DEF FifoInv, TypeOK
    <3>3. Append(ran[ch] \o buf[ch], c) = ran[ch] \o Append(buf[ch], c)
      BY <3>2, AppendSecond, Zenon
    <3>4. QED
      BY <3>1, <3>2, <3>3, Zenon
  <2>2. CASE ch # chan[c]
    BY <1>1, <2>2 DEF Send, TypeOK, FifoInv
  <2>3. QED
    BY <2>1, <2>2
<1>2. ASSUME NEW w \in Chans, TakeJob(w), NEW ch \in Chans
      PROVE  accepted'[ch] = ran'[ch] \o buf'[ch]
  <2>1. CASE ch = w
    <3>1. /\ buf[ch] # <<>>
          /\ buf'[ch] = Tail(buf[ch])
          /\ ran'[ch] = Append(ran[ch], Head(buf[ch]))
          /\ accepted'[ch] = accepted[ch]
      BY <1>2, <2>1 DEF TakeJob, TypeOK
    <3>2. accepted[ch] = ran[ch] \o buf[ch] /\ ran[ch] \in Seq(Calls) /\ buf[ch] \in Seq(Calls)
      BY DEF FifoInv, TypeOK
    <3>3. Append(ran[ch], Head(buf[ch])) \o Tail(buf[ch]) = ran[ch] \o buf[ch]
      <4>1. ran[ch] \in Seq(Calls) /\ buf[ch] \in Seq(Calls) /\ buf[ch] # <<>>
        BY <3>1, <3>2, Zenon
      <4>2. QED
        BY <4>1, ShiftHead, Zenon
    <3>4. QED
      BY <3>1, <3>2, <3>3, Zenon
  <2>2. CASE ch # w
    BY <1>2, <2>2 DEF TakeJob, TypeOK, FifoInv
  <2>3. QED
    BY <2>1, <2>2
<1>3. CASE UNCHANGED <<buf, accepted, ran>>
  BY <1>3 DEF FifoInv
<1>4. QED
  BY <1>1, <1>2, <1>3, LogSteps DEF FifoInv
\* What Send does to the elements of a log: the old ones stay, the caller is last.
LEMMA SendElems ==
  ASSUME TypeOK, WorkerInv, NEW c \in Calls, Send(c)
  PROVE  /\ chan[c] \in Chans
         /\ pc[c] = "sending" /\ pc' = [pc EXCEPT ![c] = "waiting"]
         /\ Len(accepted[chan[c]]) \in Nat
         /\ Len(accepted'[chan[c]]) = Len(accepted[chan[c]]) + 1
         /\ accepted'[chan[c]][Len(accepted[chan[c]]) + 1] = c
         /\ \A i \in 1..Len(accepted[chan[c]]) : accepted'[chan[c]][i] = accepted[chan[c]][i]
         /\ \A ch \in Chans \ {chan[c]} : accepted'[ch] = accepted[ch]
<1>1. chan[c] \in Chans /\ pc[c] = "sending" /\ pc' = [pc EXCEPT ![c] = "waiting"]
  BY DEF Send, Goto, WorkerInv
<1>2. /\ accepted[chan[c]] \in Seq(Calls)
      /\ accepted'[chan[c]] = Append(accepted[chan[c]], c)
      /\ \A ch \in Chans \ {chan[c]} : accepted'[ch] = accepted[ch]
  BY <1>1 DEF Send, TypeOK
<1>3. Len(accepted[chan[c]]) \in Nat
  BY <1>2, LenProperties
<1>4. QED
  BY <1>1, <1>2, <1>3, AppendProperties

(* An element of a log after a send was there before, or is the caller's. *)
LEMMA SendIndex ==
  ASSUME TypeOK, WorkerInv, NEW c \in Calls, Send(c),
         NEW ch \in Chans, NEW i \in 1..Len(accepted'[ch])
  PROVE  \/ i \in 1..Len(accepted[ch]) /\ accepted'[ch][i] = accepted[ch][i]
         \/ ch = chan[c] /\ i = Len(accepted[ch]) + 1 /\ accepted'[ch][i] = c
<1>1. CASE ch = chan[c]
  <2> DEFINE n == Len(accepted[ch])
  <2>1. n \in Nat /\ Len(accepted'[ch]) = n + 1 /\ accepted'[ch][n + 1] = c
    BY <1>1, SendElems
  <2>2. \A j \in 1..n : accepted'[ch][j] = accepted[ch][j]
    BY <1>1, SendElems
  <2>3. i \in 1..(n + 1)
    BY <2>1
  <2> HIDE DEF n
  <2>4. i \in 1..n \/ i = n + 1
    BY <2>1, <2>3
  <2>5. QED
    BY <1>1, <2>1, <2>2, <2>4 DEF n
<1>2. CASE ch # chan[c]
  BY <1>2, SendElems
<1>3. QED
  BY <1>1, <1>2

\* Once past the first select a caller stays past it.
LEMMA PcSteps ==
  ASSUME TypeOK, [Next]_vars, NEW x \in Calls, pc[x] \in PastSend
  PROVE  pc'[x] \in PastSend
<1> USE DEF TypeOK, PastSend, Goto
<1>1. ASSUME NEW c \in Calls, Admit(c) \/ CancelContext(c) \/ WorkerFor(c) \/ Send(c)
                            \/ SendOnClosed(c) \/ CancelEnqueue(c) \/ CancelWait(c)
      PROVE  pc'[x] \in PastSend
  BY <1>1 DEF Admit, CancelContext, WorkerFor, Send, SendOnClosed, CancelEnqueue, CancelWait
<1>2. ASSUME NEW c \in Calls, Receive(c) PROVE pc'[x] \in PastSend
  BY <1>2 DEF Receive, Answered
<1>3. ASSUME NEW ch \in Chans, Worker(ch) PROVE pc'[x] \in PastSend
  BY <1>3 DEF Worker, TakeJob, Run, FinishJob, WorkerExit, callVars
<1>4. CASE Terminate \/ Main \/ UNCHANGED vars
  BY <1>4 DEF Terminate, Main, ShutdownReturns, StopClose, StopWait, Exit, callVars, vars
<1>5. QED
  BY <1>1, <1>2, <1>3, <1>4 DEF Next, Caller

(* No step puts a caller twice in the logs. *)
LEMMA OnceStep ==
  ASSUME TypeOK, OnceInv, WorkerInv, [Next]_vars
  PROVE  OnceInv'
<1>1. ASSUME NEW c \in Calls, Send(c) PROVE OnceInv'
  <2>1. \A ch \in Chans : \A i \in 1..Len(accepted[ch]) : accepted[ch][i] # c
    <3>1. pc[c] = "sending"
      BY <1>1, SendElems, Zenon
    <3>2. "sending" \notin PastSend
      BY DEF PastSend
    <3>3. \A ch \in Chans : \A i \in 1..Len(accepted[ch]) : pc[accepted[ch][i]] \in PastSend
      BY Zenon DEF OnceInv
    <3>4. QED
      BY <3>1, <3>2, <3>3
  <2>2. ASSUME NEW ch1 \in Chans, NEW ch2 \in Chans, NEW i \in 1..Len(accepted'[ch1]),
               NEW j \in 1..Len(accepted'[ch2]), accepted'[ch1][i] = accepted'[ch2][j]
        PROVE  ch1 = ch2 /\ i = j
    <3>1. \/ i \in 1..Len(accepted[ch1]) /\ accepted'[ch1][i] = accepted[ch1][i]
          \/ ch1 = chan[c] /\ i = Len(accepted[ch1]) + 1 /\ accepted'[ch1][i] = c
      BY <1>1, SendIndex
    <3>2. \/ j \in 1..Len(accepted[ch2]) /\ accepted'[ch2][j] = accepted[ch2][j]
          \/ ch2 = chan[c] /\ j = Len(accepted[ch2]) + 1 /\ accepted'[ch2][j] = c
      BY <1>1, SendIndex
    <3>3. QED
      BY <2>1, <2>2, <3>1, <3>2 DEF OnceInv
  <2>3. ASSUME NEW ch \in Chans, NEW i \in 1..Len(accepted'[ch])
        PROVE  pc'[accepted'[ch][i]] \in PastSend
    <3>1. CASE i \in 1..Len(accepted[ch]) /\ accepted'[ch][i] = accepted[ch][i]
      <4>1. accepted[ch][i] \in Calls
        BY <3>1, ElementOfSeq DEF TypeOK
      <4>2. QED
        BY <3>1, <4>1, PcSteps DEF OnceInv
    <3>2. CASE accepted'[ch][i] = c
      BY <3>2, <1>1, SendElems DEF TypeOK, PastSend
    <3>3. QED
      BY <1>1, <3>1, <3>2, SendIndex
  <2>4. QED
    BY <2>2, <2>3 DEF OnceInv
<1>2. CASE UNCHANGED accepted
  <2>1. ASSUME NEW ch \in Chans, NEW i \in 1..Len(accepted[ch])
        PROVE  pc'[accepted[ch][i]] \in PastSend
    <3>1. accepted[ch][i] \in Calls
      BY ElementOfSeq DEF TypeOK
    <3>2. QED
      BY <3>1, PcSteps DEF OnceInv
  <2>2. QED
    BY <1>2, <2>1 DEF OnceInv
<1>3. QED
  BY <1>1, <1>2, LogSteps DEF TakeJob
\* How the started jobs sit in the log of what was accepted.
LEMMA RanElems ==
  ASSUME TypeOK, FifoInv, NEW ch \in Chans
  PROVE  /\ Len(ran[ch]) \in Nat /\ Len(accepted[ch]) \in Nat /\ Len(buf[ch]) \in Nat
         /\ Len(accepted[ch]) = Len(ran[ch]) + Len(buf[ch])
         /\ \A i \in 1..Len(ran[ch]) : ran[ch][i] = accepted[ch][i] /\ i \in 1..Len(accepted[ch])
         /\ buf[ch] # <<>> => /\ Len(buf[ch]) > 0
                             /\ Head(buf[ch]) = accepted[ch][Len(ran[ch]) + 1]
                             /\ Head(buf[ch]) \in Calls
<1>1. ran[ch] \in Seq(Calls) /\ buf[ch] \in Seq(Calls) /\ accepted[ch] = ran[ch] \o buf[ch]
  BY DEF TypeOK, FifoInv
<1>2. Len(ran[ch]) \in Nat /\ Len(buf[ch]) \in Nat
  BY <1>1, LenProperties
<1>3. /\ Len(accepted[ch]) = Len(ran[ch]) + Len(buf[ch])
      /\ \A i \in 1..(Len(ran[ch]) + Len(buf[ch])) :
           accepted[ch][i] = IF i <= Len(ran[ch]) THEN ran[ch][i] ELSE buf[ch][i - Len(ran[ch])]
  <2> DEFINE r == ran[ch]  b == buf[ch]
  <2>1. r \in Seq(Calls) /\ b \in Seq(Calls) /\ accepted[ch] = r \o b
    BY <1>1
  <2> HIDE DEF r, b
  <2>2. /\ Len(r \o b) = Len(r) + Len(b)
        /\ \A i \in 1..(Len(r) + Len(b)) :
             (r \o b)[i] = IF i <= Len(r) THEN r[i] ELSE b[i - Len(r)]
    BY <2>1, ConcatProperties
  <2>3. QED
    BY <2>1, <2>2 DEF r, b
<1>4. ASSUME buf[ch] # <<>>
      PROVE  Len(buf[ch]) > 0 /\ Head(buf[ch]) = buf[ch][1] /\ Head(buf[ch]) \in Calls
  BY <1>1, <1>2, <1>4, EmptySeq, HeadTailProperties
<1> DEFINE n == Len(ran[ch])  m == Len(buf[ch])
<1>5. n \in Nat /\ m \in Nat
  BY <1>2
<1>6. \A i \in 1..(n + m) : accepted[ch][i] = IF i <= n THEN ran[ch][i] ELSE buf[ch][i - n]
  BY <1>3
<1>7. Len(accepted[ch]) = n + m
  BY <1>3
<1> HIDE DEF n, m
<1>8. \A i \in 1..n : ran[ch][i] = accepted[ch][i] /\ i \in 1..(n + m)
  BY <1>5, <1>6
<1>9. m > 0 => accepted[ch][n + 1] = buf[ch][1]
  <2> SUFFICES ASSUME m > 0 PROVE accepted[ch][n + 1] = buf[ch][1]
    OBVIOUS
  <2>1. n + 1 \in 1..(n + m) /\ ~(n + 1 <= n) /\ (n + 1) - n = 1
    BY <1>5
  <2>2. QED
    BY <1>6, <2>1
<1>10. Len(accepted[ch]) \in Nat
  BY <1>5, <1>7
<1>11. \A i \in 1..n : ran[ch][i] = accepted[ch][i] /\ i \in 1..Len(accepted[ch])
  BY <1>7, <1>8
<1>12. ASSUME buf[ch] # <<>>
       PROVE  Len(buf[ch]) > 0 /\ Head(buf[ch]) = accepted[ch][n + 1] /\ Head(buf[ch]) \in Calls
  BY <1>12, <1>4, <1>9 DEF m
<1>13. QED
  BY <1>5, <1>7, <1>10, <1>11, <1>12 DEF n, m

\* Which steps touch what ReplyInv relates.
LEMMA ReplySteps ==
  ASSUME [Next]_vars
  PROVE  \/ \E c \in Calls : Send(c)
         \/ \E ch \in Chans : TakeJob(ch)
         \/ \E ch \in Chans, r \in Answered : FinishJob(ch, r)
         \/ UNCHANGED <<cur, reply, accepted, ran>>
BY DEF Next, Caller, Worker, Run, Main, Admit, CancelContext, WorkerFor, SendOnClosed,
       CancelEnqueue, Receive, CancelWait, WorkerExit, Terminate,
       ShutdownReturns, StopClose, StopWait, Exit, vars, queueVars

\* The worker's own job is accepted and unanswered.
LEMMA CurIsAccepted ==
  ASSUME TypeOK, FifoInv, OnceInv, ReplyInv, NEW ch \in Chans, cur[ch] # NoCall
  PROVE  /\ Len(ran[ch]) \in 1..Len(accepted[ch])
         /\ cur[ch] = accepted[ch][Len(ran[ch])]
         /\ cur[ch] \in Calls /\ pc[cur[ch]] \in PastSend
<1>1. Len(ran[ch]) > 0 /\ cur[ch] = ran[ch][Len(ran[ch])] /\ cur[ch] \in Calls
  BY DEF ReplyInv, TypeOK
<1>2. Len(ran[ch]) \in Nat /\ Len(ran[ch]) \in 1..Len(ran[ch])
  BY <1>1, RanElems
<1>3. Len(ran[ch]) \in 1..Len(accepted[ch]) /\ cur[ch] = accepted[ch][Len(ran[ch])]
  BY <1>1, <1>2, RanElems
<1>4. QED
  BY <1>1, <1>3 DEF OnceInv

(* Every step keeps replies in agreement with the logs. *)
LEMMA ReplyStep ==
  ASSUME TypeOK, FifoInv, OnceInv, ReplyInv, WorkerInv, [Next]_vars
  PROVE  ReplyInv'
<1>1. ASSUME NEW c \in Calls, reply[c] # "none" PROVE pc'[c] \in PastSend
  BY <1>1, PcSteps DEF ReplyInv
<1>2. ASSUME NEW c \in Calls, Send(c) PROVE ReplyInv'
  <2>1. UNCHANGED <<cur, reply, ran>>
    BY <1>2 DEF Send
  <2>2. reply[c] = "none"
    BY <1>2, SendElems DEF ReplyInv, PastSend
  <2>3. ASSUME NEW ch \in Chans, NEW i \in 1..Len(accepted'[ch])
        PROVE  reply[accepted'[ch][i]] = "none" <=>
                 i > Len(ran[ch]) \/ (cur[ch] # NoCall /\ i = Len(ran[ch]))
    <3>1. CASE i \in 1..Len(accepted[ch]) /\ accepted'[ch][i] = accepted[ch][i]
      BY <3>1 DEF ReplyInv
    <3>2. CASE i = Len(accepted[ch]) + 1 /\ accepted'[ch][i] = c
      <4> DEFINE n == Len(ran[ch])  m == Len(buf[ch])
      <4>0. n \in Nat /\ m \in Nat /\ i = (n + m) + 1
        BY <3>2, RanElems
      <4> HIDE DEF n, m
      <4>1. i > n
        BY <4>0
      <4> USE DEF n
      <4>2. QED
        BY <4>1, <3>2, <2>2
    <3>3. QED
      BY <1>2, <3>1, <3>2, SendIndex
  <2>4. QED
    BY <1>1, <2>1, <2>3 DEF ReplyInv
<1>3. ASSUME NEW w \in Chans, TakeJob(w) PROVE ReplyInv'
  <2>1. /\ UNCHANGED <<reply, accepted, pc>>
        /\ buf[w] # <<>> /\ cur[w] = NoCall
        /\ cur'[w] = Head(buf[w])
        /\ ran'[w] = Append(ran[w], Head(buf[w]))
        /\ \A ch \in Chans \ {w} : cur'[ch] = cur[ch] /\ ran'[ch] = ran[ch]
    BY <1>3 DEF TakeJob, TypeOK, callVars
  <2>2. Len(ran[w]) \in Nat /\ Head(buf[w]) \in Calls /\ Head(buf[w]) # NoCall
    BY <2>1, RanElems
  <2>3. Len(ran'[w]) = Len(ran[w]) + 1 /\ ran'[w][Len(ran[w]) + 1] = Head(buf[w])
    <3>1. ran[w] \in Seq(Calls)
      BY DEF TypeOK
    <3>2. QED
      BY <2>1, <2>2, <3>1, AppendProperties
  <2>4. cur'[w] # NoCall /\ Len(ran'[w]) > 0 /\ cur'[w] = ran'[w][Len(ran'[w])]
    BY <2>1, <2>2, <2>3
  <2>5. ASSUME NEW i \in 1..Len(accepted[w])
        PROVE  reply[accepted[w][i]] = "none" <=>
                 i > Len(ran'[w]) \/ (cur'[w] # NoCall /\ i = Len(ran'[w]))
    <3>1. reply[accepted[w][i]] = "none" <=> i > Len(ran[w])
      BY <2>1 DEF ReplyInv
    <3>2. i \in Int /\ Len(ran[w]) \in Int
      BY <2>2, RanElems
    <3>3. i > Len(ran[w]) <=> i > Len(ran[w]) + 1 \/ i = Len(ran[w]) + 1
      BY <3>2
    <3>4. QED
      BY <2>3, <2>4, <3>1, <3>3
  <2>6. \A c \in Calls : reply[c] # "none" => pc[c] \in PastSend
    BY DEF ReplyInv
  <2>7. QED
    BY <2>1, <2>4, <2>5, <2>6 DEF ReplyInv
<1>4. ASSUME NEW w \in Chans, NEW r \in Answered, FinishJob(w, r) PROVE ReplyInv'
  <2>1. /\ UNCHANGED <<accepted, ran, pc>>
        /\ cur[w] # NoCall
        /\ cur' = [cur EXCEPT ![w] = NoCall]
        /\ reply' = [reply EXCEPT ![cur[w]] = r]
        /\ r # "none"
    BY <1>4 DEF FinishJob, callVars, Answered
  <2>2. /\ Len(ran[w]) \in 1..Len(accepted[w]) /\ cur[w] = accepted[w][Len(ran[w])]
        /\ cur[w] \in Calls /\ pc[cur[w]] \in PastSend
    BY <2>1, CurIsAccepted
  <2>3. ASSUME NEW c \in Calls, reply'[c] # "none" PROVE pc'[c] \in PastSend
    BY <2>1, <2>2, <2>3 DEF ReplyInv, TypeOK
  <2>4. ASSUME NEW ch \in Chans, NEW i \in 1..Len(accepted[ch])
        PROVE  reply'[accepted[ch][i]] = "none" <=>
                 i > Len(ran[ch]) \/ (cur'[ch] # NoCall /\ i = Len(ran[ch]))
    <3>0. accepted[ch][i] \in Calls
      BY ElementOfSeq DEF TypeOK
    <3>1. CASE ch = w /\ i = Len(ran[w])
      <4>1. Len(ran[w]) \in Nat /\ ~(i > Len(ran[w]))
        BY <3>1, RanElems
      <4>2. QED
        BY <2>1, <2>2, <3>0, <3>1, <4>1 DEF TypeOK
    <3>2. CASE ~(ch = w /\ i = Len(ran[w]))
      <4>1. accepted[ch][i] # cur[w]
        BY <2>2, <3>2 DEF OnceInv
      <4>2. reply'[accepted[ch][i]] = reply[accepted[ch][i]]
        BY <2>1, <3>0, <4>1 DEF TypeOK
      <4>3. CASE ch = w
        BY <2>1, <3>2, <4>2, <4>3 DEF ReplyInv, TypeOK
      <4>4. CASE ch # w
        BY <2>1, <4>2, <4>4 DEF ReplyInv, TypeOK
      <4>5. QED
        BY <4>3, <4>4
    <3>3. QED
      BY <3>1, <3>2
  <2>5. \A ch \in Chans : cur'[ch] # NoCall => Len(ran'[ch]) > 0 /\ cur'[ch] = ran'[ch][Len(ran'[ch])]
    BY <2>1 DEF ReplyInv, TypeOK
  <2>6. QED
    BY <2>1, <2>3, <2>4, <2>5 DEF ReplyInv
<1>5. CASE UNCHANGED <<cur, reply, accepted, ran>>
  BY <1>1, <1>5 DEF ReplyInv
<1>6. QED
  BY <1>2, <1>3, <1>4, <1>5, ReplySteps
(* Every step keeps channels, workers and jobs in progress in agreement. *)
LEMMA WorkerStep ==
  ASSUME TypeOK, WorkerInv, [Next]_vars
  PROVE  WorkerInv'
<1> USE DEF WorkerInv, mainVars, callVars, queueVars
<1>0. Generation \in {0, 1}
  BY DEF Generation
<1>1. ASSUME NEW c \in Calls,
             Admit(c) \/ CancelContext(c) \/ SendOnClosed(c) \/ CancelEnqueue(c)
               \/ CancelWait(c)
      PROVE  WorkerInv'
  BY <1>1 DEF TypeOK, Goto, Admit, CancelContext, SendOnClosed, CancelEnqueue,
              CancelWait, Generation, Closed
<1>2. ASSUME NEW c \in Calls, Receive(c) PROVE WorkerInv'
  BY <1>2 DEF TypeOK, Goto, Receive, Answered, Generation, Closed
<1>3. ASSUME NEW c \in Calls, WorkerFor(c) PROVE WorkerInv'
  <2> DEFINE s == <<Route[c], Generation>>
  <2>1. Route[c] \in DBs /\ s \in Chans /\ s[2] = Generation /\ Generation' = Generation
    BY <1>0, <1>3 DEF WorkerFor, Chans, Generation
  <2>2. s \in live' /\ live \subseteq live' /\ live' \subseteq live \cup {s}
    BY <1>3 DEF WorkerFor
  <2>3. ASSUME NEW x \in Calls, pc'[x] = "sending"
        PROVE  chan'[x] \in Chans /\ chan'[x][2] <= Generation' /\ (~Closed(chan[x])' => chan'[x] \in live')
    <3>1. CASE x = c
      <4>1. chan'[x] = s
        BY <1>3, <3>1 DEF WorkerFor, TypeOK
      <4>2. QED
        BY <4>1, <2>1, <2>2, <1>0
    <3>2. CASE x # c
      <4>1. pc[x] = "sending" /\ chan'[x] = chan[x]
        BY <1>3, <2>3, <3>2 DEF WorkerFor, Goto, TypeOK
      <4>2. QED
        BY <4>1, <2>1, <2>2 DEF Closed
    <3>3. QED
      BY <3>1, <3>2
  <2>4. \A d \in workers' : <<d, Generation'>> \in live'
    BY <1>3, <2>1, <2>2 DEF WorkerFor
  <2>5. \A ch \in Chans \ live' : buf'[ch] = <<>> /\ cur'[ch] = NoCall
    BY <1>3, <2>2 DEF WorkerFor
  <2>6. ASSUME phase' \in {"returned", "exited"}, NEW d \in DBs PROVE <<d, 0>> \notin live'
    <3>1. phase \in {"returned", "exited"} /\ Generation = 1
      BY <1>3, <2>6 DEF WorkerFor, Generation
    <3>2. <<d, 0>> # s /\ <<d, 0>> \notin live
      BY <3>1
    <3>3. QED
      BY <2>2, <3>2
  <2>7. QED
    BY <2>3, <2>4, <2>5, <2>6
<1>4. ASSUME NEW c \in Calls, Send(c) PROVE WorkerInv'
  <2>1. chan[c] \in live /\ pc[c] = "sending"
    BY <1>4 DEF Send, Goto
  <2>2. \A ch \in Chans \ live : buf'[ch] = buf[ch]
    BY <1>4, <2>1 DEF Send, TypeOK
  <2>3. /\ UNCHANGED <<phase, chan, workers, live, cur>>
        /\ \A x \in Calls : pc'[x] = "sending" => pc[x] = "sending"
    BY <1>4 DEF Send, Goto, TypeOK
  <2>4. QED
    BY <2>2, <2>3 DEF Generation, Closed
<1>5. ASSUME NEW w \in Chans, TakeJob(w) PROVE WorkerInv'
  <2>1. w \in live /\ UNCHANGED <<phase, pc, chan, workers, live>>
    BY <1>5 DEF TakeJob
  <2>2. \A ch \in Chans \ live : buf'[ch] = buf[ch] /\ cur'[ch] = cur[ch]
    BY <1>5, <2>1 DEF TakeJob, TypeOK
  <2>3. QED
    BY <2>1, <2>2 DEF Generation, Closed
<1>6. ASSUME NEW w \in Chans, NEW r \in Answered, FinishJob(w, r) PROVE WorkerInv'
  <2>1. UNCHANGED <<phase, pc, chan, workers, live, buf>>
    BY <1>6 DEF FinishJob
  <2>2. \A ch \in Chans \ live : cur'[ch] = NoCall
    BY <1>6 DEF FinishJob, TypeOK
  <2>3. QED
    BY <2>1, <2>2 DEF Generation, Closed
<1>7. ASSUME NEW w \in Chans, WorkerExit(w) PROVE WorkerInv'
  <2>1. /\ Closed(w) /\ cur[w] = NoCall /\ buf[w] = <<>> /\ live' = live \ {w}
        /\ UNCHANGED <<pc, chan, workers, buf, cur>>
        /\ phase' = IF phase = "waiting" /\ live = {w} THEN "returned" ELSE phase
    BY <1>7 DEF WorkerExit
  <2>2. Generation' = Generation
    BY <2>1 DEF Generation
  <2>3. ASSUME NEW x \in Calls, pc[x] = "sending"
        PROVE  ~Closed(chan[x])' => chan[x] \in live'
    BY <2>1, <2>2, <2>3 DEF Closed
  <2>4. \A d \in workers : <<d, Generation>> \in live'
    BY <1>0, <2>1 DEF Closed, TypeOK
  <2>5. phase' \in {"returned", "exited"} => \A d \in DBs : <<d, 0>> \notin live'
    BY <2>1
  <2>6. QED
    BY <2>1, <2>2, <2>3, <2>4, <2>5
<1>8. CASE Terminate \/ ShutdownReturns \/ Exit \/ UNCHANGED vars
  BY <1>8 DEF Terminate, ShutdownReturns, Exit, vars, Generation, Closed, TypeOK
<1>9. CASE StopClose
  <2>1. Generation = 0 /\ Generation' = 1 /\ workers' = {} /\ UNCHANGED <<pc, chan, live, buf, cur>>
    BY <1>9 DEF StopClose, Generation
  <2>2. \A x \in Calls : pc[x] = "sending" => chan[x][2] \in {0, 1} /\ chan[x][2] <= 0
    BY <2>1 DEF Chans
  <2>3. phase' = "closed"
    BY <1>9 DEF StopClose
  <2>4. QED
    BY <2>1, <2>2, <2>3 DEF Closed
<1>10. CASE StopWait
  BY <1>10 DEF StopWait, Generation, Closed, TypeOK
<1>11. QED
  BY <1>1, <1>2, <1>3, <1>4, <1>5, <1>6, <1>7, <1>8, <1>9, <1>10
  DEF Next, Caller, Worker, Run, Main
(* Until the shutdown times out, no step starts a second worker or breaks a send. *)
LEMMA GracefulStep ==
  ASSUME TypeOK, WorkerInv, GracefulInv, [Next]_vars
  PROVE  GracefulInv'
<1> USE DEF GracefulInv, mainVars, callVars, queueVars
<1>0. Generation \in {0, 1} /\ (Generation = 1 => phase \notin {"serving", "shutdown"})
  BY DEF Generation
<1>1. ASSUME NEW c \in Calls,
             Admit(c) \/ CancelContext(c) \/ CancelEnqueue(c) \/ CancelWait(c) \/ WorkerFor(c)
      PROVE  GracefulInv'
  BY <1>1 DEF TypeOK, Goto, Admit, CancelContext, CancelEnqueue, CancelWait, WorkerFor,
              Pending, Generation
<1>2. ASSUME NEW c \in Calls, Receive(c) PROVE GracefulInv'
  BY <1>2 DEF TypeOK, Goto, Receive, Answered, Pending, Generation
<1>3. ASSUME NEW c \in Calls, SendOnClosed(c) PROVE GracefulInv'
  <2>1. pc[c] = "sending" /\ Closed(chan[c]) /\ chan[c] \in Chans
    BY <1>3 DEF SendOnClosed, Goto, WorkerInv
  <2>2. Generation = 1
    BY <2>1, <1>0 DEF Closed, Chans
  <2>3. timedOut
    BY <2>1, <2>2, <1>0 DEF Pending, TypeOK
  <2>4. UNCHANGED <<phase, timedOut, buf, cur>>
    BY <1>3 DEF SendOnClosed
  <2>5. QED
    BY <1>0, <2>2, <2>3, <2>4 DEF Generation
<1>4. ASSUME NEW c \in Calls, Send(c) PROVE GracefulInv'
  <2>1. /\ pc[c] = "sending" /\ chan[c] \in Chans /\ chan[c][2] <= Generation
        /\ pc' = [pc EXCEPT ![c] = "waiting"]
        /\ UNCHANGED <<phase, timedOut, cur>>
    BY <1>4 DEF Send, Goto, WorkerInv
  <2>2. ASSUME Generation = 0 \/ ~timedOut, NEW d \in DBs PROVE buf'[<<d, 1>>] = buf[<<d, 1>>]
    <3>1. Generation = 0
      BY <2>1, <2>2, <1>0 DEF Pending
    <3>2. chan[c] # <<d, 1>>
      BY <2>1, <3>1
    <3>3. QED
      BY <1>4, <3>2 DEF Send, TypeOK, Chans
  <2>3. QED
    BY <2>1, <2>2 DEF Generation, Pending, TypeOK
<1>5. ASSUME NEW w \in Chans, TakeJob(w) PROVE GracefulInv'
  <2>1. buf[w] # <<>> /\ UNCHANGED <<phase, timedOut, pc>>
    BY <1>5 DEF TakeJob
  <2>2. ASSUME Generation = 0 \/ ~timedOut, NEW d \in DBs
        PROVE  buf'[<<d, 1>>] = buf[<<d, 1>>] /\ cur'[<<d, 1>>] = cur[<<d, 1>>]
    <3>1. w # <<d, 1>>
      BY <2>1, <2>2
    <3>2. QED
      BY <1>5, <3>1 DEF TakeJob, TypeOK, Chans
  <2>3. QED
    BY <2>1, <2>2 DEF Generation
<1>6. ASSUME NEW w \in Chans, NEW r \in Answered, FinishJob(w, r) PROVE GracefulInv'
  <2>1. UNCHANGED <<phase, timedOut, pc, buf>>
    BY <1>6 DEF FinishJob
  <2>2. \A ch \in Chans : cur'[ch] = cur[ch] \/ cur'[ch] = NoCall
    BY <1>6 DEF FinishJob, TypeOK
  <2>3. QED
    BY <2>1, <2>2 DEF Generation, Chans
<1>7. ASSUME NEW w \in Chans, WorkerExit(w) PROVE GracefulInv'
  BY <1>7 DEF WorkerExit, Generation
<1>8. CASE Terminate \/ Exit \/ StopWait \/ StopClose \/ UNCHANGED vars
  BY <1>8 DEF Terminate, Exit, StopWait, StopClose, vars, Generation
<1>9. CASE ShutdownReturns
  BY <1>9 DEF ShutdownReturns, Generation, Active, TypeOK
<1>10. QED
  BY <1>1, <1>2, <1>3, <1>4, <1>5, <1>6, <1>7, <1>8, <1>9
  DEF Next, Caller, Worker, Run, Main

(* IInv is inductive: the theorems below are read off it. *)
THEOREM Invariance == Spec => []IInv
<1>1. Init => IInv
  <2> SUFFICES ASSUME Init PROVE IInv
    OBVIOUS
  <2>1. TypeOK
    BY TypeInit
  <2>2. \A ch \in Chans : accepted[ch] = <<>> /\ ran[ch] = <<>> /\ buf[ch] = <<>> /\ cur[ch] = NoCall
    BY DEF Init
  <2>3. Len(<<>>) = 0
    BY EmptySeq
  <2>4. FifoInv
    <3>1. <<>> \o <<>> = <<>>
      BY EmptySeq, ConcatEmptySeq
    <3>2. QED
      BY <2>2, <3>1, Zenon DEF FifoInv
  <2>5. OnceInv
    BY <2>2, <2>3 DEF OnceInv
  <2>6. ReplyInv
    BY <2>2, <2>3 DEF ReplyInv, Init
  <2>7. WorkerInv
    BY <2>2 DEF WorkerInv, Init
  <2>8. GracefulInv
    BY <2>2 DEF GracefulInv, Init, Chans
  <2>9. QED
    BY <2>1, <2>4, <2>5, <2>6, <2>7, <2>8 DEF IInv
<1>2. IInv /\ TypeOK' /\ [Next]_vars => IInv'
  BY FifoStep, OnceStep, ReplyStep, WorkerStep, GracefulStep DEF IInv
<1>3. QED
  BY <1>1, <1>2, TypeCorrect, PTL DEF Spec

(* A caller that was refused before its job was queued never has it run. *)
THEOREM RefusedNeverRunsHolds == Spec => []RefusedNeverRuns
<1>1. IInv => RefusedNeverRuns
  BY DEF IInv, OnceInv, RefusedNeverRuns, Elems, PastSend
<1>2. QED
  BY <1>1, Invariance, PTL

(* When Stop has returned every job accepted before it has its outcome. *)
THEOREM StopDrainsHolds == Spec => []StopDrains
<1>1. IInv => StopDrains
  <2> SUFFICES ASSUME IInv, phase \in {"returned", "exited"}, NEW d \in DBs,
                      NEW i \in 1..Len(accepted[<<d, 0>>])
               PROVE  cur[<<d, 0>>] = NoCall /\ reply[accepted[<<d, 0>>][i]] # "none"
    <3>1. IInv /\ phase \in {"returned", "exited"} => \A d \in DBs : cur[<<d, 0>>] = NoCall
      BY DEF IInv, WorkerInv, Chans
    <3>2. QED
      BY <3>1 DEF StopDrains, Elems
  <2> DEFINE ch == <<d, 0>>
  <2>1. ch \in Chans /\ ch \notin live
    BY DEF IInv, WorkerInv, Chans
  <2>2. buf[ch] = <<>> /\ cur[ch] = NoCall
    BY <2>1 DEF IInv, WorkerInv
  <2> HIDE DEF ch
  <2>3. Len(accepted[ch]) = Len(ran[ch]) /\ Len(ran[ch]) \in Nat
    <3>1. accepted[ch] = ran[ch] \o <<>> /\ ran[ch] \in Seq(Calls)
      BY <2>1, <2>2 DEF IInv, FifoInv, TypeOK
    <3>2. QED
      BY <3>1, ConcatEmptySeq, LenProperties
  <2>4. i \in 1..Len(accepted[ch])
    BY DEF ch
  <2>5. ~(i > Len(ran[ch]))
    BY <2>3, <2>4
  <2>6. reply[accepted[ch][i]] # "none"
    BY <2>1, <2>2, <2>4, <2>5 DEF IInv, ReplyInv
  <2>7. QED
    BY <2>2, <2>6 DEF ch
<1>2. QED
  BY <1>1, Invariance, PTL

(* Unless handlers outlived the shutdown, writes stay serialised and nobody panics. *)
THEOREM GracefulShutdownIsSafeHolds == Spec => []GracefulShutdownIsSafe
<1>1. IInv => GracefulShutdownIsSafe
  BY DEF IInv, GracefulInv, GracefulShutdownIsSafe, OneWriterPerDB, TypeOK
<1>2. QED
  BY <1>1, Invariance, PTL

(* No closure starts twice. *)
THEOREM AtMostOnceHolds == Spec => []AtMostOnce
<1>1. IInv => AtMostOnce
  <2> SUFFICES ASSUME IInv, NEW ch1 \in Chans, NEW ch2 \in Chans, NEW i \in 1..Len(ran[ch1]),
                      NEW j \in 1..Len(ran[ch2]), ran[ch1][i] = ran[ch2][j]
               PROVE  ch1 = ch2 /\ i = j
    BY DEF AtMostOnce
  <2>1. ran[ch1][i] = accepted[ch1][i] /\ i \in 1..Len(accepted[ch1])
    BY RanElems DEF IInv
  <2>2. ran[ch2][j] = accepted[ch2][j] /\ j \in 1..Len(accepted[ch2])
    BY RanElems DEF IInv
  <2>3. accepted[ch1][i] = accepted[ch2][j]
    BY <2>1, <2>2, Zenon
  <2>4. QED
    BY <2>1, <2>2, <2>3 DEF IInv, OnceInv
<1>2. QED
  BY <1>1, Invariance, PTL
-----------------------------------------------------------------------------
(* Refinement *)

\* Steps that leave the logs, the outcomes and the verdicts alone are stutters.
LEMMA StutterStep ==
  ASSUME UNCHANGED <<accepted, reply, Executed, Verdict>>
  PROVE  UNCHANGED Executor!avars
BY DEF Executor!avars

LEMMA VerdictSteps ==
  ASSUME TypeOK, NEW c \in Calls, NEW to, pc' = [pc EXCEPT ![c] = to]
  PROVE  Verdict' = [Verdict EXCEPT ![c] = IF to \in Answered THEN to
                       ELSE IF to \in Finished THEN "abandoned" ELSE "open"]
BY DEF Verdict, TypeOK

\* Every step of the queue is a step of the serial executor or a stutter.
LEMMA ExecutorStep ==
  ASSUME IInv, [Next]_vars
  PROVE  [Executor!Next]_(Executor!avars)
<1> USE DEF mainVars, callVars, queueVars
<1>0. TypeOK /\ FifoInv /\ OnceInv /\ ReplyInv /\ WorkerInv
  BY DEF IInv
<1>1. ASSUME NEW c \in Calls, Send(c) PROVE Executor!Submit(c, chan[c]) /\ chan[c] \in Chans
  <2>1. chan[c] \in Chans /\ pc[c] = "sending" /\ pc' = [pc EXCEPT ![c] = "waiting"]
    BY <1>0, <1>1, SendElems
  <2>2. Verdict[c] = "open"
    BY <2>1 DEF Verdict, Answered, Finished, Cancelled
  <2>3. Verdict' = Verdict
    <3>1. \A x \in Calls \ {c} : pc'[x] = pc[x]
      BY <1>0, <2>1 DEF TypeOK
    <3>2. pc'[c] \notin Answered /\ pc'[c] \notin Finished /\ pc[c] \notin Answered /\ pc[c] \notin Finished
      BY <1>0, <2>1 DEF TypeOK, Answered, Finished, Cancelled
    <3>3. QED
      BY <3>1, <3>2 DEF Verdict
  <2>4. accepted' = [accepted EXCEPT ![chan[c]] = Append(@, c)] /\ Executed' = Executed /\ reply' = reply
    BY <1>1 DEF Send, Executed
  <2>5. ~Executor!Submitted(c)
    BY <1>0, <2>1 DEF OnceInv, PastSend, Executor!Submitted
  <2>6. QED
    BY <2>1, <2>2, <2>3, <2>4, <2>5 DEF Executor!Submit
<1>2. ASSUME NEW w \in Chans, TakeJob(w) PROVE UNCHANGED Executor!avars
  <2>1. UNCHANGED <<accepted, reply, Verdict>>
    BY <1>2 DEF TakeJob, Verdict
  <2>2. /\ cur[w] = NoCall /\ cur'[w] # NoCall /\ Len(ran[w]) \in Nat
        /\ Len(ran'[w]) = Len(ran[w]) + 1
        /\ \A ch \in Chans \ {w} : cur'[ch] = cur[ch] /\ ran'[ch] = ran[ch]
    <3>1. buf[w] # <<>>
      BY <1>2 DEF TakeJob
    <3>2. Len(ran[w]) \in Nat /\ Head(buf[w]) \in Calls /\ ran[w] \in Seq(Calls)
      BY <1>0, <3>1, RanElems DEF TypeOK
    <3>3. /\ cur[w] = NoCall /\ cur'[w] = Head(buf[w])
          /\ ran'[w] = Append(ran[w], Head(buf[w]))
          /\ \A ch \in Chans \ {w} : cur'[ch] = cur[ch] /\ ran'[ch] = ran[ch]
      BY <1>0, <1>2 DEF TakeJob, TypeOK
    <3>4. QED
      BY <3>2, <3>3, AppendProperties
  <2>3. Executed' = Executed
    <3> DEFINE n == Len(ran[w])
               E(ch) == Len(ran[ch]) - (IF cur[ch] = NoCall THEN 0 ELSE 1)
    <3>1. Len(ran'[w]) - (IF cur'[w] = NoCall THEN 0 ELSE 1) = n
      <4>1. n \in Nat /\ Len(ran'[w]) = n + 1
        BY <2>2
      <4> HIDE DEF n
      <4>2. QED
        BY <2>2, <4>1
    <3>2. E(w) = n
      <4>1. n \in Nat /\ E(w) = n - 0
        BY <2>2
      <4> HIDE DEF n, E
      <4>2. QED
        BY <4>1
    <3>3. \A ch \in Chans : Len(ran'[ch]) - (IF cur'[ch] = NoCall THEN 0 ELSE 1) = E(ch)
      BY <2>2, <3>1, <3>2
    <3>4. Executed' = [ch \in Chans |-> Len(ran'[ch]) - (IF cur'[ch] = NoCall THEN 0 ELSE 1)]
      BY DEF Executed
    <3>5. Executed = [ch \in Chans |-> E(ch)]
      BY DEF Executed
    <3> HIDE DEF n, E
    <3>6. QED
      BY <3>3, <3>4, <3>5
  <2>4. QED
    BY <2>1, <2>3, StutterStep
<1>3. ASSUME NEW w \in Chans, NEW r \in Answered, FinishJob(w, r) PROVE Executor!Execute(w, r)
  <2>1. /\ UNCHANGED <<accepted, ran, Verdict>>
        /\ cur[w] # NoCall
        /\ cur' = [cur EXCEPT ![w] = NoCall]
        /\ reply' = [reply EXCEPT ![cur[w]] = r]
    BY <1>3 DEF FinishJob, Verdict
  <2>2. Len(ran[w]) \in 1..Len(accepted[w]) /\ cur[w] = accepted[w][Len(ran[w])]
    BY <1>0, <2>1, CurIsAccepted
  <2>3. Len(ran[w]) \in Nat /\ Len(accepted[w]) \in Nat
    BY <1>0, RanElems
  <2> DEFINE n == Len(ran[w])
             m == Len(accepted[w])
  <2>4. Executed[w] = n - 1 /\ Executed[w] < m /\ Executed[w] + 1 = n
    <3>1. Executed[w] = n - 1
      BY <2>1 DEF Executed
    <3>2. n \in Nat /\ m \in Nat /\ n \in 1..m
      BY <2>2, <2>3
    <3> HIDE DEF n, m
    <3>3. QED
      BY <3>1, <3>2
  <2>5. Executed' = [Executed EXCEPT ![w] = @ + 1]
    <3>1. \A ch \in Chans \ {w} : cur'[ch] = cur[ch]
      BY <1>0, <2>1 DEF TypeOK
    <3>2. cur'[w] = NoCall
      BY <1>0, <2>1 DEF TypeOK
    <3>3. Executed' = [ch \in Chans |-> Len(ran[ch]) - (IF cur'[ch] = NoCall THEN 0 ELSE 1)]
      BY <2>1 DEF Executed
    <3>4. Executed'[w] = Executed[w] + 1
      <4>1. Executed'[w] = n - 0
        BY <3>2, <3>3
      <4> HIDE DEF n
      <4>2. QED
        BY <2>3, <2>4, <4>1 DEF n
    <3>5. \A ch \in Chans \ {w} : Executed'[ch] = Executed[ch]
      BY <3>1, <3>3 DEF Executed
    <3>6. Executed' = [ch \in Chans |-> Executed'[ch]] /\ Executed = [ch \in Chans |-> Executed[ch]]
      BY <3>3 DEF Executed
    <3>7. QED
      BY <3>4, <3>5, <3>6
  <2>6. QED
    BY <2>1, <2>2, <2>4, <2>5 DEF Executor!Execute
<1>4. ASSUME NEW c \in Calls, Receive(c) PROVE Executor!Answer(c)
  <2>1. /\ pc[c] = "waiting" /\ reply[c] # "none" /\ pc' = [pc EXCEPT ![c] = reply[c]]
        /\ UNCHANGED <<accepted, reply, ran, cur>>
    BY <1>4 DEF Receive, Goto
  <2>2. Verdict[c] = "open" /\ reply[c] \in Answered
    BY <1>0, <2>1 DEF Verdict, Answered, Finished, Cancelled, TypeOK
  <2>3. Verdict' = [Verdict EXCEPT ![c] = reply[c]]
    BY <1>0, <2>1, <2>2, VerdictSteps
  <2>4. QED
    BY <2>1, <2>2, <2>3 DEF Executor!Answer, Executed
<1>5. ASSUME NEW c \in Calls, SendOnClosed(c) \/ CancelEnqueue(c) \/ CancelWait(c)
      PROVE  Executor!Abandon(c)
  <2>1. PICK to \in Cancelled \cup {"panicked"} : pc' = [pc EXCEPT ![c] = to]
    BY <1>5 DEF SendOnClosed, CancelEnqueue, CancelWait, Goto, Cancelled
  <2>2. pc[c] \in {"sending", "waiting"} /\ UNCHANGED <<accepted, reply, ran, cur>>
    BY <1>5 DEF SendOnClosed, CancelEnqueue, CancelWait, Goto
  <2>3. Verdict[c] = "open"
    BY <2>2 DEF Verdict, Answered, Finished, Cancelled
  <2>4. Verdict' = [Verdict EXCEPT ![c] = "abandoned"]
    BY <1>0, <2>1, VerdictSteps DEF Answered, Finished, Cancelled
  <2>5. QED
    BY <2>2, <2>3, <2>4 DEF Executor!Abandon, Executed
<1>6. ASSUME NEW c \in Calls, Admit(c) \/ CancelContext(c) \/ WorkerFor(c)
      PROVE  UNCHANGED Executor!avars
  <2>1. UNCHANGED <<accepted, reply, ran, cur>>
    BY <1>6 DEF Admit, CancelContext, WorkerFor
  <2>2. Verdict' = Verdict
    BY <1>0, <1>6 DEF Admit, CancelContext, WorkerFor, Goto, Verdict, TypeOK, Answered,
                      Finished, Cancelled
  <2>3. QED
    BY <2>1, <2>2, StutterStep DEF Executed
<1>7. ASSUME NEW w \in Chans, WorkerExit(w) PROVE UNCHANGED Executor!avars
  BY <1>7, StutterStep DEF WorkerExit, Executed, Verdict
<1>8. CASE Terminate \/ Main \/ UNCHANGED vars
  BY <1>8, StutterStep DEF Terminate, Main, ShutdownReturns, StopClose, StopWait, Exit, vars,
                           Executed, Verdict
<1>9. QED
  BY <1>1, <1>2, <1>3, <1>4, <1>5, <1>6, <1>7, <1>8
  DEF Next, Caller, Worker, Run, Executor!Next, Executor!Outcomes, Answered

(* The queue of goroutines and channels implements serial logs of writes. *)
THEOREM Refinement == Spec => ImplementsSerialExecutor
<1>1. Init => Executor!Init
  <2>1. Init => Executed = [ch \in Chans |-> 0]
    BY EmptySeq DEF Init, Executed
  <2>2. Init => Verdict = [c \in Calls |-> "open"]
    BY DEF Init, Verdict, Answered, Finished, Cancelled
  <2>3. QED
    BY <2>1, <2>2 DEF Init, Executor!Init
<1>2. IInv /\ [Next]_vars => [Executor!Next]_(Executor!avars)
  BY ExecutorStep
<1>3. QED
  BY <1>1, <1>2, Invariance, PTL DEF Spec, ImplementsSerialExecutor, Executor!Spec
=============================================================================
