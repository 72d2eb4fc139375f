-------------------------- MODULE OnDemandRefresher --------------------------
(***************************************************************************)
(* onDemandRefresher.Ensure (cmd/proxy-pools/main.go): what every request  *)
(* runs before it may use the pool.  The first request to find the pool    *)
(* due for a refresh fetches a new list while the others wait on a channel *)
(* that it closes; the proxy API is called at no other time.               *)
(*                                                                         *)
(* A request is a goroutine of the HTTP server.  The steps of Ensure are   *)
(* cut where the code releases the mutex r.mu or blocks:                   *)
(*                                                                         *)
(*    ensure     about to take r.mu at the top of the loop                 *)
(*    waiting    in the select, holding the channel of another's fetch     *)
(*    fetching   in Fetch, with r.mu released                              *)
(*    publishing between Fetch and Replace and the second critical section *)
(*    returned   Ensure has returned err[r]                                *)
(*                                                                         *)
(* Time is a countdown: wait is how long nextRefresh is still ahead.       *)
(***************************************************************************)
EXTENDS RefreshSchedule, Pool

CONSTANTS
  Requests,
  Channels,     \* what make(chan struct{}) may return
  NoChannel,    \* the nil channel
  Lists,        \* the proxy lists the API may answer with
  MaxAge        \* bound of the history clock: no delay is longer

\* ParseProxyList never returns an empty list, nor a nil entry.
ASSUME RefresherAssumption ==
  /\ NoChannel \notin Channels
  /\ \A list \in Lists : list \in Seq(Proxies) /\ list # <<>>
  /\ MaxAge \in Nat
  /\ \A configured \in Configured : MaximumBackoff(NewSchedule(configured)) <= MaxAge

VARIABLES
  pool,
  schedule,
  inFlight,     \* the channel of the fetch under way, or NoChannel
  closed,       \* the channels that have been closed
  wait,         \* ticks until nextRefresh
  lastErr,
  pc,
  done,         \* done[r]: the channel r made or captured in Ensure
  err,          \* err[r]: refreshErr while publishing, Ensure's result afterwards;
                \* while fetching, the error a doomed call is going to return
  cancelled,    \* requests whose context is done
  stopped,      \* rootCtx, which Fetch runs under, is done
  age           \* history: ticks since the last fetch was published

refresherVars == <<schedule, inFlight, closed, wait, lastErr, age>>
requestVars   == <<pc, done, err, cancelled>>
vars == <<pool, refresherVars, requestVars, stopped>>

FetchErrors == {"rate_limited", "fetch_failed"}
Errors      == FetchErrors \cup {"nil", "empty_pool", "cancelled"}

Init ==
  /\ pool = EmptyPool
  /\ \E configured \in Configured : schedule = NewSchedule(configured)
  /\ inFlight = NoChannel
  /\ closed = {}
  /\ wait = 0
  /\ lastErr = "nil"
  /\ pc = [r \in Requests |-> "idle"]
  /\ done = [r \in Requests |-> NoChannel]
  /\ err = [r \in Requests |-> "nil"]
  /\ cancelled = {}
  /\ stopped = FALSE
  /\ age = MaxAge

-----------------------------------------------------------------------------
\* The server starts a goroutine for a request, and it calls Ensure.
Arrive(r) ==
  /\ pc[r] = "idle"
  /\ pc' = [pc EXCEPT ![r] = "ensure"]
  /\ UNCHANGED <<pool, refresherVars, done, err, cancelled, stopped>>

\* The client goes away, or the server closes its connection.
Cancel(r) ==
  /\ pc[r] # "idle" /\ r \notin cancelled
  /\ cancelled' = cancelled \cup {r}
  /\ UNCHANGED <<pool, refresherVars, pc, done, err, stopped>>

\* First critical section, another request is fetching: wait for its channel.
AwaitFlight(r) ==
  /\ pc[r] = "ensure" /\ inFlight # NoChannel
  /\ pc' = [pc EXCEPT ![r] = "waiting"]
  /\ done' = [done EXCEPT ![r] = inFlight]
  /\ UNCHANGED <<pool, refresherVars, err, cancelled, stopped>>

\* The select finds the channel closed, and Ensure starts over.
Wake(r) ==
  /\ pc[r] = "waiting" /\ done[r] \in closed
  /\ pc' = [pc EXCEPT ![r] = "ensure"]
  /\ done' = [done EXCEPT ![r] = NoChannel]
  /\ UNCHANGED <<pool, refresherVars, err, cancelled, stopped>>

\* The select finds the request's context done.
GiveUp(r) ==
  /\ pc[r] = "waiting" /\ r \in cancelled
  /\ pc' = [pc EXCEPT ![r] = "returned"]
  /\ done' = [done EXCEPT ![r] = NoChannel]
  /\ err' = [err EXCEPT ![r] = "cancelled"]
  /\ UNCHANGED <<pool, refresherVars, cancelled, stopped>>

\* Mutants of HeldAnswer: the last error is forgotten; it is looked at first.
HeldAnswerGeneric == IF PoolLen(pool) > 0 THEN "nil" ELSE "empty_pool"
HeldAnswerErrorFirst == lastErr

\* What Ensure answers before nextRefresh, from the pool and the last error.
HeldAnswer ==
  IF PoolLen(pool) > 0 THEN "nil" ELSE IF lastErr # "nil" THEN lastErr ELSE "empty_pool"

\* First critical section, the pool is not due yet.
AnswerFromPool(r) ==
  /\ pc[r] = "ensure" /\ inFlight = NoChannel /\ wait > 0
  /\ pc' = [pc EXCEPT ![r] = "returned"]
  /\ err' = [err EXCEPT ![r] = HeldAnswer]
  /\ UNCHANGED <<pool, refresherVars, done, cancelled, stopped>>

\* A channel value that no variable of the program refers to any more.
Unused == Channels \ ({inFlight} \cup {done[r] : r \in Requests})

\* Mutant of BeginFetch: it does not look at inFlight.
BeginFetchUnchecked(r) ==
  /\ pc[r] = "ensure" /\ wait = 0
  /\ \E channel \in Unused :
       /\ inFlight' = channel
       /\ done' = [done EXCEPT ![r] = channel]
       /\ closed' = closed \ {channel}
  /\ pc' = [pc EXCEPT ![r] = "fetching"]
  /\ err' = [err EXCEPT ![r] = IF stopped THEN "fetch_failed" ELSE "nil"]
  /\ UNCHANGED <<pool, schedule, wait, lastErr, cancelled, stopped, age>>

\* First critical section, the pool is due: publish a channel and call Fetch.  A
\* call made under a context that is already done can only fail.
BeginFetch(r) ==
  /\ pc[r] = "ensure" /\ inFlight = NoChannel /\ wait = 0
  /\ \E channel \in Unused :
       /\ inFlight' = channel
       /\ done' = [done EXCEPT ![r] = channel]
       /\ closed' = closed \ {channel}
  /\ pc' = [pc EXCEPT ![r] = "fetching"]
  /\ err' = [err EXCEPT ![r] = IF stopped THEN "fetch_failed" ELSE "nil"]
  /\ UNCHANGED <<pool, schedule, wait, lastErr, cancelled, stopped, age>>

\* Fetch returns a list, and Replace installs it under the pool's own mutex.
FetchSucceeds(r) ==
  /\ pc[r] = "fetching" /\ err[r] = "nil"
  /\ \E list \in Lists :
       /\ pool' = Installed(pool, list)
       /\ err' = [err EXCEPT ![r] = ReplaceErr(list)]
  /\ pc' = [pc EXCEPT ![r] = "publishing"]
  /\ UNCHANGED <<refresherVars, done, cancelled, stopped>>

\* Fetch returns an error: a 429 or its text, or anything else.
FetchFails(r) ==
  /\ pc[r] = "fetching"
  /\ \E fetchErr \in FetchErrors :
       /\ err[r] = "nil" \/ err[r] = fetchErr
       /\ err' = [err EXCEPT ![r] = fetchErr]
  /\ pc' = [pc EXCEPT ![r] = "publishing"]
  /\ UNCHANGED <<pool, refresherVars, done, cancelled, stopped>>

\* Mutant of Publish: the channel is dropped without being closed.
PublishWithoutClose(r) ==
  /\ pc[r] = "publishing"
  /\ schedule' = AfterRefresh(schedule, err[r])
  /\ wait' = Delay(schedule')
  /\ age' = 0
  /\ lastErr' = err[r]
  /\ inFlight' = NoChannel
  /\ pc' = [pc EXCEPT ![r] = "returned"]
  /\ done' = [done EXCEPT ![r] = NoChannel]
  /\ err' = [err EXCEPT ![r] = IF PoolLen(pool) > 0 THEN "nil" ELSE @]
  /\ UNCHANGED <<pool, closed, cancelled, stopped>>

\* Second critical section: the schedule, the next refresh and the error are
\* recorded, the channel is closed, and Ensure returns.
Publish(r) ==
  /\ pc[r] = "publishing"
  /\ schedule' = AfterRefresh(schedule, err[r])
  /\ wait' = Delay(schedule')
  /\ age' = 0
  /\ lastErr' = err[r]
  /\ inFlight' = NoChannel
  /\ closed' = closed \cup {done[r]}
  /\ pc' = [pc EXCEPT ![r] = "returned"]
  /\ done' = [done EXCEPT ![r] = NoChannel]
  /\ err' = [err EXCEPT ![r] = IF PoolLen(pool) > 0 THEN "nil" ELSE @]
  /\ UNCHANGED <<pool, cancelled, stopped>>

\* The request is over, and so is its context.
Depart(r) ==
  /\ pc[r] = "returned"
  /\ pc' = [pc EXCEPT ![r] = "idle"]
  /\ err' = [err EXCEPT ![r] = "nil"]
  /\ cancelled' = cancelled \ {r}
  /\ UNCHANGED <<pool, refresherVars, done, stopped>>

Ensure(r) ==
  \/ AwaitFlight(r) \/ Wake(r) \/ GiveUp(r) \/ AnswerFromPool(r)
  \/ BeginFetch(r) \/ FetchSucceeds(r) \/ FetchFails(r) \/ Publish(r)

\* Time passes.  Nothing tells ages beyond the longest delay apart.
Tick ==
  /\ wait > 0 \/ age < MaxAge
  /\ wait' = IF wait > 0 THEN wait - 1 ELSE 0
  /\ age' = IF age < MaxAge THEN age + 1 ELSE age
  /\ UNCHANGED <<pool, schedule, inFlight, closed, lastErr, requestVars, stopped>>

\* SIGINT or SIGTERM: main's rootCtx is done, and Fetch runs under it.
Stop ==
  /\ ~stopped
  /\ stopped' = TRUE
  /\ UNCHANGED <<pool, refresherVars, requestVars>>

Next ==
  \/ \E r \in Requests : Arrive(r) \/ Cancel(r) \/ Ensure(r) \/ Depart(r)
  \/ Tick
  \/ Stop

Spec == Init /\ [][Next]_vars

-----------------------------------------------------------------------------
(***************************************************************************)
(* Fairness.  The Go scheduler runs a runnable goroutine eventually, the   *)
(* mutex hands itself over to a starving waiter, and Fetch ends because    *)
(* its http.Client has a timeout.  The shortest delay is 20 seconds: a     *)
(* goroutine that can run is assumed to reach its next step before that    *)
(* much time has passed.  No request is assumed to arrive or to leave.     *)
(***************************************************************************)
Runnable(r) == pc[r] = "ensure" \/ (pc[r] = "waiting" /\ done[r] \in closed)

PromptNext ==
  \/ \E r \in Requests : Arrive(r) \/ Cancel(r) \/ Ensure(r) \/ Depart(r)
  \/ Tick /\ \A r \in Requests : ~Runnable(r)
  \/ Stop

PromptSpec ==
  Init /\ [][PromptNext]_vars /\ \A r \in Requests : WF_vars(Ensure(r))

-----------------------------------------------------------------------------
TypeOK ==
  /\ pool \in Pools
  /\ schedule \in Schedules
  /\ inFlight \in Channels \cup {NoChannel}
  /\ closed \subseteq Channels
  /\ wait \in 0..MaxAge
  /\ lastErr \in Errors \ {"cancelled"}
  /\ pc \in [Requests -> {"idle", "ensure", "waiting", "fetching", "publishing", "returned"}]
  /\ done \in [Requests -> Channels \cup {NoChannel}]
  /\ err \in [Requests -> Errors]
  /\ cancelled \subseteq Requests
  /\ stopped \in BOOLEAN
  /\ age \in 0..MaxAge

Flying(r) == pc[r] \in {"fetching", "publishing"}

\* Concurrent requests share one fetch (main.go:115-117): at most one request is
\* between the two critical sections, inFlight is its channel, and inFlight is
\* nil as soon as there is none.
SingleFlight ==
  /\ \A r, s \in Requests : Flying(r) /\ Flying(s) => r = s
  /\ \A r \in Requests : Flying(r) => inFlight = done[r]
  /\ inFlight # NoChannel => \E r \in Requests : Flying(r)

\* A request that waits will be woken: its channel is closed already, or it is the
\* channel of the fetch under way, still open, which Publish will close.  The
\* channel was read under r.mu but is waited on after r.mu is released (main.go:149-157).
NoLostWakeup ==
  /\ inFlight \notin closed
  /\ \A r \in Requests : pc[r] = "waiting" => done[r] \in closed \/ done[r] = inFlight

\* Ensure returns nil only when there is a proxy to use, and there still is one
\* whenever its caller gets to use it, whatever refreshes failed meanwhile
\* (main.go:163-165, 207-209).
ReadyMeansProxies ==
  \A r \in Requests : pc[r] = "returned" /\ err[r] = "nil" => PoolLen(pool) > 0

RefusesHonestly(r) ==
  pc[r] # "returned" /\ pc'[r] = "returned" /\ err'[r] \notin {"nil", "cancelled"} =>
    /\ PoolLen(pool) = 0
    /\ err'[r] = lastErr'
    /\ err'[r] \in FetchErrors

\* Ensure refuses a live request only when the pool is empty, with the error of the
\* last fetch, and never with the error of a caller's own context.  The generic
\* ErrEmptyPool at the end of the branch (main.go:169) is never reached.
RefusalIsHonest == [][\A r \in Requests : RefusesHonestly(r)]_vars

FetchesLateEnough(r) ==
  pc[r] = "ensure" /\ pc'[r] = "fetching" =>
    /\ age >= schedule.base
    /\ lastErr = "rate_limited" => age >= MinimumBackoff

\* The proxy API is called no sooner than the configured interval after the last
\* call ended, and no sooner than the minimum backoff after a rate limit, however
\* many requests found the pool due (main.go:160, 189-190).
FetchesAreSpaced == [][\A r \in Requests : FetchesLateEnough(r)]_vars

Answer(error) ==
  CASE error = "nil" -> "ready" [] error = "cancelled" -> "abandoned" [] OTHER -> "refused"

\* What a caller of Ensure sees of each request.
Calls ==
  [r \in Requests |->
     CASE pc[r] = "idle" -> "idle"
       [] pc[r] = "returned" -> Answer(err[r])
       [] OTHER -> "calling"]

Contract == INSTANCE EnsureContract WITH call <- Calls

\* What Ensure promises to the handler: the channels, the schedule, the clock and
\* the errors of the protocol are invisible to its callers (main.go:146-211).
ImplementsContract == Contract!Spec

\* A request that calls Ensure is answered, as the leader of a fetch or after one.
EnsureReturns == \A r \in Requests : pc[r] = "ensure" ~> pc[r] = "returned"

=============================================================================
