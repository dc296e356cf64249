------------------------------ MODULE TieredCache ------------------------------
(***************************************************************************)
(* What the server keeps in its in-process cache (L1) and in Redis (L2)    *)
(* and reads through them: validated API keys, admin sessions, lists of    *)
(* databases, and the counters of the rate limit.  Several server          *)
(* processes may share one Redis, and there may be none.  A behaviour is   *)
(* about one key of one kind; its value is the number of its version.      *)
(***************************************************************************)
EXTENDS Integers, Sequences, FiniteSetsExt

CONSTANTS
  Procs,                        \* server processes
  Calls,                        \* slots for requests being served
  L1TTL, KeyTTL, SessionTTL,    \* l1TTL, apiKeyTTL, sessionTTL in units of time
  Limit, Window,                \* rateLimitPerMinute, its minute
  None,                         \* no value
  MaxVersion, MaxNow, MaxOps    \* bounds: versions of a list, the clock, requests and faults

VARIABLES
  kind,     \* "key", "list", "session" or "rate": what the behaviour is about
  redis,    \* "up", "down", or "none" without REDIS_URL
  now,
  l1, l2,   \* memClient of each process, Redis: [val, until]
  row,      \* version in the registry, or 0: key revoked, no session
  flight,   \* the singleflight group of each process: Idle, Asked, or what Redis said
  calls,    \* [op, at, step, val, since, when]
  rate,     \* MH::sh:ratelimit: [val, until]
  ended,    \* history: when a version stopped being true
  known,    \* history: least version a process may still answer after its own changes
  passed,   \* history: when a request came that the rate limit let through
  slow,     \* history: time passed while a value was on its way into a cache
  overlap,  \* history: a change and a read through the cache overlapped in one process
  outage,   \* history: Redis was down when something was to be deleted or counted
  ops

vars == <<kind, redis, now, l1, l2, row, flight, calls, rate, ended, known, passed, slow,
          overlap, outage, ops>>
tiers == <<l1, l2, flight>>
facts == <<kind, row, ended, known, rate, passed>>

Never == MaxNow + L1TTL + KeyTTL + 1
Absent == [val |-> None, until |-> 0]
Free == [op |-> "none", at |-> None, step |-> "done", val |-> None, since |-> 0, when |-> 0]
Idle == -3       \* no version is negative
Asked == -2
Failed == -1

Get(e) == IF now < e.until THEN e.val ELSE None
TTL == IF kind = "key" THEN KeyTTL ELSE IF kind = "session" THEN SessionTTL ELSE L1TTL
IsFree(c) == calls[c].step = "done"
Reading(c) == calls[c].op = "read" /\ ~IsFree(c)
Changing(c) == calls[c].op \in {"change", "logout"} /\ ~IsFree(c)

Init ==
  /\ kind \in {"key", "list", "session", "rate"}
  /\ redis \in {"up", "none"}
  /\ kind = "session" => redis = "up"   \* without Redis a session is a signed cookie
  /\ now = 0
  /\ l1 = [p \in Procs |-> Absent] /\ l2 = Absent
  /\ row = IF kind = "session" THEN 0 ELSE 1
  /\ flight = [p \in Procs |-> Idle]
  /\ calls = [c \in Calls |-> Free]
  /\ rate = [val |-> 0, until |-> 0]
  /\ ended = [v \in 1..MaxVersion |-> Never]
  /\ known = [p \in Procs |-> 1]
  /\ passed = <<>>
  /\ slow = FALSE /\ overlap = FALSE /\ outage = FALSE
  /\ ops = 0

Op == ops < (IF kind = "rate" THEN MaxOps + Limit ELSE MaxOps) /\ ops' = ops + 1
Open == [c \in Calls |-> IF IsFree(c) THEN Free ELSE calls[c]]   \* answered requests are gone
Begin(c, o, p, s, v) ==
  calls' = [Open EXCEPT ![c] = [op |-> o, at |-> p, step |-> s, val |-> v,
                                since |-> known[p], when |-> now]]
Goto(c, s, v) == calls' = [Open EXCEPT ![c].step = s, ![c].val = v, ![c].when = now]
-----------------------------------------------------------------------------
\* GetAPIKey, GetJSON, GetSession: from L1, or wait for the one question to L2 of this process.
StartRead(c, p) ==
  /\ kind # "rate" /\ IsFree(c) /\ Op
  /\ kind = "session" => row = 1 \/ ended[1] < Never   \* the browser has the cookie
  /\ \/ /\ Get(l1[p]) # None
        /\ Begin(c, "read", p, "done", l1[p].val)
        /\ UNCHANGED <<l1, flight>>
     \/ /\ Get(l1[p]) = None
        /\ Begin(c, "read", p, "wait", None)
        /\ flight' = [flight EXCEPT ![p] = IF @ = Idle THEN Asked ELSE @]
        /\ UNCHANGED l1   \* entries are not prolonged by a hit
  /\ UNCHANGED <<l2, facts, redis, now, slow, outage>>

\* What L2 says. A list is decoded as an object, which it is not: an error.
FlightRead(p) ==
  /\ flight[p] = Asked
  /\ flight' = [flight EXCEPT ![p] =
       CASE redis = "none" -> None
         [] redis = "down" -> Failed
         [] kind = "list" /\ Get(l2) # None -> Failed
         [] OTHER -> Get(l2)]
  /\ calls' = Open /\ UNCHANGED <<l1, l2, facts, redis, now, slow, outage, ops>>

\* The question is answered: L1 is filled, and all who waited share the answer. An error is a
\* miss to whoever reads the registry next, and no session to ValidateSession.
FlightEnd(p) ==
  /\ flight[p] \notin {Idle, Asked}
  /\ flight' = [flight EXCEPT ![p] = Idle]
  /\ LET hit == flight[p] \notin {None, Failed}
         after == IF hit THEN "done" ELSE IF kind = "session" THEN "done" ELSE "row"
         val == IF hit THEN flight[p] ELSE 0
     IN /\ l1' = IF hit THEN [l1 EXCEPT ![p] = [val |-> val, until |-> now + L1TTL]] ELSE l1
        /\ calls' = [c \in Calls |->
             IF calls[c].at = p /\ calls[c].step = "wait"
             THEN [calls[c] EXCEPT !.step = after, !.val = val, !.when = now] ELSE Open[c]]
  /\ UNCHANGED <<l2, facts, redis, now, slow, outage, ops>>

\* GetAPIKeyByHash finds active keys only; ListDatabasesByOwner always has a list.
ReadRow(c) ==
  /\ calls[c].step = "row"
  /\ Goto(c, IF row = 0 THEN "done" ELSE "set1", row)
  /\ UNCHANGED <<tiers, facts, redis, now, slow, outage, ops>>

\* Fault: the entry of L1 lives as long as that of L2.
SetL1ForLong(c) ==
  /\ calls[c].step = "set1"
  /\ l1' = [l1 EXCEPT ![calls[c].at] = [val |-> calls[c].val, until |-> now + TTL]]
  /\ Goto(c, "set2", calls[c].val)
  /\ UNCHANGED <<l2, flight, facts, redis, now, slow, outage, ops>>

\* SetAPIKey, SetJSON, SetSession: first L1, for its own time to live, then L2.
SetL1(c) ==
  /\ calls[c].step = "set1"
  /\ l1' = [l1 EXCEPT ![calls[c].at] = [val |-> calls[c].val, until |-> now + L1TTL]]
  /\ Goto(c, "set2", calls[c].val)
  /\ UNCHANGED <<l2, flight, facts, redis, now, slow, outage, ops>>

\* An error is ignored, except by IssueSession, which then issues no cookie.
SetL2(c) ==
  /\ calls[c].step = "set2"
  /\ l2' = IF redis = "up" THEN [val |-> calls[c].val, until |-> now + TTL] ELSE l2
  /\ row' = IF calls[c].op = "login" /\ redis = "up" THEN calls[c].val ELSE row
  /\ Goto(c, "done", calls[c].val)
  /\ UNCHANGED <<l1, flight, kind, ended, known, rate, passed, redis, now, slow, outage, ops>>
-----------------------------------------------------------------------------
\* IssueSession, the first request of a browser.
Login(c, p) ==
  /\ kind = "session" /\ ops = 0 /\ Op
  /\ Begin(c, "login", p, "set1", 1)
  /\ UNCHANGED <<tiers, facts, redis, now, slow, outage>>

\* DestroySession with the cookie of the session.
Logout(c, p) ==
  /\ kind = "session" /\ row = 1 /\ IsFree(c) /\ Op
  /\ \A d \in Calls : calls[d].op # "logout"
  /\ Begin(c, "logout", p, "del1", 1)
  /\ UNCHANGED <<tiers, facts, redis, now, slow, outage>>

\* A statement that changes the list of databases: INSERT, UPDATE or DELETE.
ChangeList(c, p) ==
  /\ kind = "list" /\ row < MaxVersion /\ IsFree(c) /\ Op
  /\ row' = row + 1
  /\ ended' = [ended EXCEPT ![row] = now]
  /\ Begin(c, "change", p, "del1", row + 1)
  /\ UNCHANGED <<tiers, kind, known, rate, passed, redis, now, slow, outage>>

\* RevokeAPIKey: the row only.
RevokeAPIKey ==
  /\ kind = "key" /\ row = 1 /\ Op
  /\ row' = 0
  /\ ended' = [ended EXCEPT ![1] = now]
  /\ calls' = Open /\ UNCHANGED <<tiers, kind, known, rate, passed, redis, now, slow, outage>>

\* Fault: only the shared tier is told.
DelNothing(c) ==
  /\ calls[c].step = "del1"
  /\ Goto(c, "del2", calls[c].val)
  /\ UNCHANGED <<tiers, facts, redis, now, slow, outage, ops>>

\* DeleteKey, DeleteSession: first L1 of this process, then L2.
DelL1(c) ==
  /\ calls[c].step = "del1"
  /\ l1' = [l1 EXCEPT ![calls[c].at] = Absent]
  /\ Goto(c, "del2", calls[c].val)
  /\ UNCHANGED <<l2, flight, facts, redis, now, slow, outage, ops>>

\* An error is ignored.
DelL2(c) ==
  LET p == calls[c].at
      out == calls[c].op = "logout"
  IN /\ calls[c].step = "del2"
     /\ l2' = IF redis = "up" THEN Absent ELSE l2
     /\ outage' = (outage \/ redis = "down")
     /\ row' = IF out THEN 0 ELSE row
     /\ ended' = IF out THEN [ended EXCEPT ![1] = now] ELSE ended
     /\ known' = [known EXCEPT ![p] = Max({@, IF out THEN 2 ELSE calls[c].val})]
     /\ Goto(c, "done", calls[c].val)
     /\ UNCHANGED <<l1, flight, kind, rate, passed, redis, now, slow, ops>>
-----------------------------------------------------------------------------
\* Fault: the window starts with its first request and is not renewed.
CountFromFirst ==
  LET live == now < rate.until
  IN [val |-> (IF live THEN rate.val ELSE 0) + 1, until |-> IF live THEN rate.until ELSE now + Window]

\* INCR and EXPIRE: every request counts and renews the window.
Counted == [val |-> (IF now < rate.until THEN rate.val ELSE 0) + 1, until |-> now + Window]

\* A request under an API key. Without an answer the count is 0, which is let through.
IncrRateLimit ==
  /\ kind = "rate" /\ Op
  /\ rate' = IF redis = "up" THEN Counted ELSE rate
  /\ passed' = IF redis = "up" /\ rate'.val > Limit THEN passed
               ELSE Append(passed, now)
  /\ outage' = (outage \/ redis = "down")
  /\ calls' = Open /\ UNCHANGED <<tiers, kind, row, ended, known, redis, now, slow>>
-----------------------------------------------------------------------------
\* A process is killed and started again: its L1 and its requests are gone.
Restart(p) ==
  /\ Op
  /\ l1' = [l1 EXCEPT ![p] = Absent]
  /\ flight' = [flight EXCEPT ![p] = Idle]
  /\ calls' = [c \in Calls |-> IF calls[c].at = p THEN Free ELSE Open[c]]
  /\ UNCHANGED <<l2, facts, redis, now, slow, outage>>

RedisFails == redis = "up" /\ Op /\ redis' = "down" /\
              calls' = Open /\ UNCHANGED <<tiers, facts, now, slow, outage>>
RedisReturns == redis = "down" /\ redis' = "up" /\
                calls' = Open /\ UNCHANGED <<tiers, facts, now, slow, outage, ops>>

Tick ==
  /\ now < MaxNow
  /\ now' = now + 1
  /\ slow' = (slow \/ (\E c \in Calls : calls[c].step \in {"set1", "set2"})
                   \/ (\E p \in Procs : flight[p] \notin {Idle, Asked}))
  /\ calls' = Open /\ UNCHANGED <<tiers, facts, redis, outage, ops>>

Step ==
  \/ \E p \in Procs : FlightRead(p) \/ FlightEnd(p) \/ Restart(p)
  \/ \E c \in Calls, p \in Procs :
       StartRead(c, p) \/ Login(c, p) \/ Logout(c, p) \/ ChangeList(c, p)
  \/ \E c \in Calls : ReadRow(c) \/ SetL1(c) \/ SetL2(c) \/ DelL1(c) \/ DelL2(c)
  \/ RevokeAPIKey \/ IncrRateLimit \/ RedisFails \/ RedisReturns \/ Tick

Overlapping == \E c, d \in Calls : Changing(c) /\ Reading(d) /\ calls[c].at = calls[d].at

Next == Step /\ overlap' = (overlap \/ Overlapping')

Spec == Init /\ [][Next]_vars
-----------------------------------------------------------------------------
Served(c) == calls[c].op = "read" /\ IsFree(c) /\ calls[c].val # 0

\* A value that is served was true until recently: an API key for the time of both tiers one
\* after the other, a list or a session for the time of L1. Not when a request is held up with
\* a value in its hands, and not for a session whose deletion Redis did not hear.
AnswersAreRecent ==
  ~slow /\ ~outage =>
    \A c \in Calls : Served(c) =>
      calls[c].when < ended[calls[c].val] + (IF kind = "key" THEN KeyTTL ELSE 0) + L1TTL

\* Once a process has answered a change of a list or a logout, it serves nothing older, unless
\* a read of its own overlapped the change.
OwnChangesAreSeen ==
  ~overlap /\ ~outage => \A c \in Calls : Served(c) => calls[c].val >= calls[c].since

\* In no stretch of the length of a window are more requests let through than the limit, while
\* there is a Redis to count them: one by the limit later than another comes a window later.
RateIsBounded ==
  redis # "none" /\ ~outage =>
    \A i \in DOMAIN passed : i + Limit \in DOMAIN passed => passed[i] + Window <= passed[i + Limit]
=============================================================================
