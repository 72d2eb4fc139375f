--------------------------- MODULE RefresherProofs ---------------------------
(***************************************************************************)
(* The properties of OnDemandRefresher for any number of requests, any     *)
(* lists of proxies, and any intervals.  IInv is the inductive invariant:  *)
(* its four parts are about types, about the fetch under way, about what   *)
(* may be answered, and about time.                                        *)
(***************************************************************************)
EXTENDS OnDemandRefresher, DataLemmas

PcStates == {"idle", "ensure", "waiting", "fetching", "publishing", "returned"}

Types ==
  /\ pool \in Pools
  /\ WellFormed(schedule)
  /\ inFlight \in Channels \cup {NoChannel}
  /\ closed \subseteq Channels
  /\ wait \in 0..MaxAge
  /\ lastErr \in FetchErrors \cup {"nil"}
  /\ pc \in [Requests -> PcStates]
  /\ done \in [Requests -> Channels \cup {NoChannel}]
  /\ err \in [Requests -> Errors]
  /\ cancelled \subseteq Requests
  /\ stopped \in BOOLEAN
  /\ age \in 0..MaxAge

\* The leader's channel is inFlight, a waiter's is inFlight or closed.
Flight ==
  /\ \A r \in Requests : Flying(r) => done[r] = inFlight /\ inFlight # NoChannel
  /\ \A r, s \in Requests : Flying(r) /\ Flying(s) => r = s
  /\ inFlight # NoChannel => \E r \in Requests : Flying(r)
  /\ inFlight \notin closed
  /\ \A r \in Requests : pc[r] = "waiting" => done[r] \in closed \/ done[r] = inFlight
  /\ \A r \in Requests : pc[r] = "waiting" => done[r] # NoChannel

\* A success is recorded, carried or answered only with proxies in the pool.
Answers ==
  /\ \A r \in Requests : pc[r] = "fetching" => err[r] \in {"nil", "fetch_failed"}
  /\ \A r \in Requests : pc[r] = "publishing" =>
       /\ err[r] \in FetchErrors \cup {"nil"}
       /\ err[r] = "nil" => PoolLen(pool) > 0
  /\ \A r \in Requests : pc[r] = "returned" /\ err[r] = "nil" => PoolLen(pool) > 0
  /\ wait > 0 /\ lastErr = "nil" => PoolLen(pool) > 0

\* The delay has passed once the countdown is over.
Clock ==
  /\ schedule.current <= wait + age
  /\ lastErr = "rate_limited" => MinimumBackoff <= schedule.current
  /\ NoOverflow => Backed(schedule)

IInv == Types /\ Flight /\ Answers /\ Clock

-----------------------------------------------------------------------------
\* A list of the API is installed as it is, and is not empty.
LEMMA InstalledList ==
  ASSUME NEW p, NEW list \in Lists
  PROVE  /\ Installed(p, list) \in Pools
         /\ PoolLen(Installed(p, list)) > 0
         /\ ReplaceErr(list) = "nil"
<1>1. list \in Seq(Proxies) /\ list # <<>>
  BY RefresherAssumption
<1>2. Installed(p, list) = [proxies |-> list, next |-> 0]
  BY <1>1 DEF Installed
<1>3. 0 \in 0..CounterRange - 1
  BY PoolAssumption
<1>4. Len(list) > 0
  BY <1>1
<1> QED
  BY <1>1, <1>2, <1>3, <1>4 DEF Pools, PoolLen, ReplaceErr

\* No delay is longer than the bound of the clock.
LEMMA DelayIsTimed ==
  ASSUME NEW s, WellFormed(s)
  PROVE  s.current \in 1..MaxAge
<1>1. PICK configured \in Configured : s.base = NewSchedule(configured).base
  BY DEF WellFormed
<1>2. MaximumBackoff(s) = MaximumBackoff(NewSchedule(configured))
  BY <1>1 DEF MaximumBackoff
<1>3. MaximumBackoff(s) <= MaxAge /\ MaxAge \in Nat
  BY <1>2, RefresherAssumption
<1>4. s.current <= MaximumBackoff(s) /\ s.current \in 1..MaxDuration
  BY DEF WellFormed, Schedules
<1>5. MaximumBackoff(s) \in 1..MaxDuration
  BY BaseInRange
<1> QED
  BY <1>3, <1>4, <1>5, ScheduleAssumption

\* Before the first request there is no channel and no answer.
LEMMA InitIInv == Init => IInv
<1> SUFFICES ASSUME Init PROVE IInv
  OBVIOUS
<1>1. PICK configured \in Configured : schedule = NewSchedule(configured)
  BY DEF Init
<1>2. WellFormed(schedule) /\ Backed(schedule)
  BY <1>1, NewScheduleWellFormed
<1>3. schedule.current \in 1..MaxAge
  BY <1>2, DelayIsTimed
<1>4. pool \in Pools
  <2>1. <<>> \in Seq(Proxies) /\ 0 \in 0..CounterRange - 1
    BY PoolAssumption
  <2> QED
    BY <2>1 DEF Init, EmptyPool, Pools
<1>5. Types
  <2>1. wait \in 0..MaxAge /\ age \in 0..MaxAge
    BY RefresherAssumption DEF Init
  <2>2. /\ inFlight \in Channels \cup {NoChannel} /\ closed \subseteq Channels
        /\ lastErr \in FetchErrors \cup {"nil"} /\ cancelled \subseteq Requests
        /\ stopped \in BOOLEAN
    BY DEF Init
  <2>3. /\ pc \in [Requests -> PcStates]
        /\ done \in [Requests -> Channels \cup {NoChannel}]
        /\ err \in [Requests -> Errors]
    BY DEF Init, Errors, PcStates
  <2> QED
    BY <1>2, <1>4, <2>1, <2>2, <2>3 DEF Types
<1>6. Flight
  BY <1>5, RefresherAssumption DEF Init, Flight, Flying
<1>7. Answers
  BY <1>5 DEF Init, Answers
<1>8. Clock
  BY <1>2, <1>3, RefresherAssumption DEF Init, Clock
<1> QED
  BY <1>5, <1>6, <1>7, <1>8 DEF IInv

\* Every step keeps the types.
LEMMA NextTypes == IInv /\ [Next]_vars => Types'
<1> SUFFICES ASSUME IInv, [Next]_vars PROVE Types'
  OBVIOUS
<1> USE DEF Types, refresherVars, requestVars, PcStates
<1>0. Types /\ Answers
  BY DEF IInv
<1>1. ASSUME NEW r \in Requests, Arrive(r) \/ Cancel(r) \/ AwaitFlight(r) \/ Wake(r) \/ Depart(r)
      PROVE  Types'
  BY <1>0, <1>1 DEF Arrive, Cancel, AwaitFlight, Wake, Depart, Errors
<1>2. ASSUME NEW r \in Requests, GiveUp(r) \/ AnswerFromPool(r)
      PROVE  Types'
  BY <1>0, <1>2 DEF GiveUp, AnswerFromPool, HeldAnswer, Errors, FetchErrors
<1>3. ASSUME NEW r \in Requests, BeginFetch(r)
      PROVE  Types'
  BY <1>0, <1>3 DEF BeginFetch, Unused, Errors, FetchErrors
<1>4. ASSUME NEW r \in Requests, FetchSucceeds(r)
      PROVE  Types'
  <2>1. pool' \in Pools
    BY <1>4, InstalledList DEF FetchSucceeds
  <2>2. err' \in [Requests -> Errors]
    BY <1>0, <1>4, InstalledList DEF FetchSucceeds, Errors
  <2> QED
    BY <1>0, <1>4, <2>1, <2>2 DEF FetchSucceeds
<1>5. ASSUME NEW r \in Requests, FetchFails(r)
      PROVE  Types'
  BY <1>0, <1>5 DEF FetchFails, Errors, FetchErrors
<1>6. ASSUME NEW r \in Requests, Publish(r)
      PROVE  Types'
  <2>1. WellFormed(schedule')
    BY <1>0, <1>6, AfterRefreshKeeps DEF Publish
  <2>2. wait' \in 0..MaxAge /\ age' \in 0..MaxAge
    BY <1>6, <2>1, DelayIsTimed, RefresherAssumption DEF Publish, Delay
  <2>3. lastErr' \in FetchErrors \cup {"nil"} /\ err' \in [Requests -> Errors]
    BY <1>0, <1>6 DEF Publish, Answers, Errors
  <2>4. closed' \subseteq Channels /\ inFlight' \in Channels \cup {NoChannel}
        /\ done' \in [Requests -> Channels \cup {NoChannel}]
    <3>1. done[r] \in Channels
      BY <1>6, <1>0 DEF IInv, Flight, Flying, Publish
    <3> QED
      BY <1>0, <1>6, <3>1 DEF Publish
  <2> QED
    BY <1>0, <1>6, <2>1, <2>2, <2>3, <2>4 DEF Publish, WellFormed
<1>7. CASE Tick
  BY <1>0, <1>7, RefresherAssumption DEF Tick
<1>8. CASE Stop
  BY <1>0, <1>8 DEF Stop
<1>9. CASE UNCHANGED vars
  BY <1>0, <1>9 DEF vars
<1> QED
  BY <1>1, <1>2, <1>3, <1>4, <1>5, <1>6, <1>7, <1>8, <1>9 DEF Next, Ensure

\* The fetch under way: only BeginFetch opens one, only its leader ends it.
LEMMA NextFlight == IInv /\ [Next]_vars => Flight'
<1> SUFFICES ASSUME IInv, [Next]_vars PROVE Flight'
  OBVIOUS
<1> USE DEF Flight, Flying, Types, refresherVars, requestVars
<1>0. Types /\ Flight /\ NoChannel \notin Channels
  BY RefresherAssumption DEF IInv
<1>1. ASSUME NEW r \in Requests, Arrive(r) \/ Cancel(r) \/ AwaitFlight(r) \/ Wake(r) \/ Depart(r)
      PROVE  Flight'
  BY <1>0, <1>1 DEF Arrive, Cancel, AwaitFlight, Wake, Depart
<1>2. ASSUME NEW r \in Requests, GiveUp(r) \/ AnswerFromPool(r)
      PROVE  Flight'
  BY <1>0, <1>2 DEF GiveUp, AnswerFromPool
<1>3. ASSUME NEW r \in Requests, BeginFetch(r)
      PROVE  Flight'
  <2>1. PICK channel \in Unused :
          /\ inFlight' = channel
          /\ done' = [done EXCEPT ![r] = channel]
          /\ closed' = closed \ {channel}
    BY <1>3 DEF BeginFetch
  <2>2. channel \in Channels /\ channel # NoChannel /\ \A q \in Requests : done[q] # channel
    BY <1>0, <2>1 DEF Unused
  <2>3. inFlight = NoChannel /\ pc' = [pc EXCEPT ![r] = "fetching"] /\ pc[r] = "ensure"
    BY <1>3 DEF BeginFetch
  <2>4. \A q \in Requests : ~Flying(q)
    BY <1>0, <2>3
  <2>5. \A q \in Requests : Flying(q)' => q = r
    BY <1>0, <2>3, <2>4
  <2>6. \A q \in Requests : pc'[q] = "waiting" => pc[q] = "waiting" /\ done'[q] = done[q]
    BY <1>0, <2>1, <2>3
  <2> QED
    BY <1>0, <2>1, <2>2, <2>3, <2>5, <2>6
<1>4. ASSUME NEW r \in Requests, FetchSucceeds(r) \/ FetchFails(r)
      PROVE  Flight'
  BY <1>0, <1>4 DEF FetchSucceeds, FetchFails
<1>5. ASSUME NEW r \in Requests, Publish(r)
      PROVE  Flight'
  <2>1. Flying(r) /\ done[r] = inFlight /\ \A q \in Requests : Flying(q) => q = r
    BY <1>0, <1>5 DEF Publish
  <2>2. /\ inFlight' = NoChannel /\ closed' = closed \cup {inFlight}
        /\ pc' = [pc EXCEPT ![r] = "returned"] /\ done' = [done EXCEPT ![r] = NoChannel]
    BY <1>5, <2>1 DEF Publish
  <2>3. \A q \in Requests : ~Flying(q)'
    BY <1>0, <2>1, <2>2
  <2>4. NoChannel \notin closed'
    BY <1>0, <2>1, <2>2
  <2> QED
    BY <1>0, <2>1, <2>2, <2>3, <2>4
<1>6. CASE Tick \/ Stop \/ UNCHANGED vars
  BY <1>0, <1>6 DEF Tick, Stop, vars
<1> QED
  BY <1>1, <1>2, <1>3, <1>4, <1>5, <1>6 DEF Next, Ensure

\* The pool is never emptied, so a success that was recorded stays good.
LEMMA PoolStays ==
  IInv /\ [Next]_vars /\ PoolLen(pool) > 0 => PoolLen(pool') > 0
<1> SUFFICES ASSUME IInv, [Next]_vars, PoolLen(pool) > 0 PROVE PoolLen(pool') > 0
  OBVIOUS
<1>1. ASSUME NEW r \in Requests, FetchSucceeds(r)
      PROVE  PoolLen(pool') > 0
  BY <1>1, InstalledList DEF FetchSucceeds
<1>2. ASSUME NEW r \in Requests,
             Arrive(r) \/ Cancel(r) \/ AwaitFlight(r) \/ Wake(r) \/ GiveUp(r) \/ AnswerFromPool(r)
               \/ BeginFetch(r) \/ FetchFails(r) \/ Publish(r) \/ Depart(r)
      PROVE  pool' = pool
  BY <1>2 DEF Arrive, Cancel, AwaitFlight, Wake, GiveUp, AnswerFromPool, BeginFetch, FetchFails,
              Publish, Depart
<1>3. CASE Tick \/ Stop \/ UNCHANGED vars
  BY <1>3 DEF Tick, Stop, vars
<1> QED
  BY <1>1, <1>2, <1>3 DEF Next, Ensure

\* Every step keeps what may be answered.
LEMMA NextAnswers == IInv /\ [Next]_vars => Answers'
<1> SUFFICES ASSUME IInv, [Next]_vars PROVE Answers'
  OBVIOUS
<1> USE DEF Answers, Types, refresherVars, requestVars
<1>0. Types /\ Answers /\ (PoolLen(pool) > 0 => PoolLen(pool') > 0)
  BY PoolStays DEF IInv
<1> HIDE DEF PoolLen
<1>1. ASSUME NEW r \in Requests, Arrive(r) \/ Cancel(r) \/ AwaitFlight(r) \/ Wake(r) \/ Depart(r)
      PROVE  Answers'
  BY <1>0, <1>1 DEF Arrive, Cancel, AwaitFlight, Wake, Depart
<1>2. ASSUME NEW r \in Requests, GiveUp(r) \/ AnswerFromPool(r)
      PROVE  Answers'
  BY <1>0, <1>2 DEF GiveUp, AnswerFromPool, HeldAnswer
<1>3. ASSUME NEW r \in Requests, BeginFetch(r)
      PROVE  Answers'
  BY <1>0, <1>3 DEF BeginFetch
<1>4. ASSUME NEW r \in Requests, FetchSucceeds(r)
      PROVE  Answers'
  <2>1. PoolLen(pool') > 0 /\ err' = [err EXCEPT ![r] = "nil"]
    BY <1>4, InstalledList DEF FetchSucceeds
  <2> QED
    BY <1>0, <1>4, <2>1 DEF FetchSucceeds
<1>5. ASSUME NEW r \in Requests, FetchFails(r)
      PROVE  Answers'
  BY <1>0, <1>5 DEF FetchFails, FetchErrors
<1>6. ASSUME NEW r \in Requests, Publish(r)
      PROVE  Answers'
  BY <1>0, <1>6 DEF Publish
<1>7. CASE Tick
  BY <1>0, <1>7 DEF Tick
<1>8. CASE Stop \/ UNCHANGED vars
  BY <1>0, <1>8 DEF Stop, vars
<1> QED
  BY <1>1, <1>2, <1>3, <1>4, <1>5, <1>6, <1>7, <1>8 DEF Next, Ensure

\* Every step keeps the fetches apart.
LEMMA NextClock == IInv /\ [Next]_vars => Clock'
<1> SUFFICES ASSUME IInv, [Next]_vars PROVE Clock'
  OBVIOUS
<1> USE DEF refresherVars, requestVars
<1>0. /\ WellFormed(schedule) /\ wait \in 0..MaxAge /\ age \in 0..MaxAge /\ MaxAge \in Nat
      /\ schedule.current \in 1..MaxAge /\ Clock
  BY DelayIsTimed, RefresherAssumption DEF IInv, Types
<1>1. ASSUME NEW r \in Requests,
             Arrive(r) \/ Cancel(r) \/ AwaitFlight(r) \/ Wake(r) \/ GiveUp(r) \/ AnswerFromPool(r)
               \/ BeginFetch(r) \/ FetchSucceeds(r) \/ FetchFails(r) \/ Depart(r)
      PROVE  UNCHANGED <<schedule, wait, lastErr, age>>
  BY <1>1 DEF Arrive, Cancel, AwaitFlight, Wake, GiveUp, AnswerFromPool, BeginFetch, FetchSucceeds,
              FetchFails, Depart
<1>2. ASSUME UNCHANGED <<schedule, wait, lastErr, age>>
      PROVE  Clock'
  BY <1>0, <1>2 DEF Clock, Backed
<1>3. ASSUME NEW r \in Requests, Publish(r)
      PROVE  Clock'
  <2>1. /\ schedule' = AfterRefresh(schedule, err[r])
        /\ wait' = schedule'.current /\ age' = 0 /\ lastErr' = err[r]
    BY <1>3 DEF Publish, Delay
  <2>2. schedule'.current \in 1..MaxAge
    BY <1>0, <2>1, AfterRefreshKeeps, DelayIsTimed
  <2>3. /\ err[r] = "rate_limited" => MinimumBackoff <= schedule'.current
        /\ NoOverflow => Backed(schedule')
    BY <1>0, <2>1, AfterRefreshKeeps DEF Clock
  <2>4. schedule'.current <= wait' + age'
    BY <2>1, <2>2
  <2> QED
    BY <2>1, <2>3, <2>4 DEF Clock, Backed
<1>4. CASE Tick
  <2>1. schedule' = schedule /\ lastErr' = lastErr
    BY <1>4 DEF Tick
  <2>2. schedule.current <= wait' + age'
    BY <1>0, <1>4 DEF Tick, Clock
  <2> QED
    BY <1>0, <2>1, <2>2 DEF Clock, Backed
<1>5. CASE Stop \/ UNCHANGED vars
  BY <1>2, <1>5 DEF Stop, vars
<1> QED
  BY <1>1, <1>2, <1>3, <1>4, <1>5 DEF Next, Ensure

\* The properties rest on this invariant.
LEMMA InvariantHolds == Spec => []IInv
<1>1. IInv /\ [Next]_vars => IInv'
  BY NextTypes, NextFlight, NextAnswers, NextClock DEF IInv
<1> QED
  BY <1>1, InitIInv, PTL DEF Spec

-----------------------------------------------------------------------------
\* The types of the refresher's state; the countdown never exceeds the longest
\* backoff, with or without overflow (main.go:118-144).
THEOREM RefresherTypeOK == Spec => []TypeOK
<1>1. IInv => TypeOK
  BY DEF IInv, Types, TypeOK, WellFormed, Errors, FetchErrors, PcStates
<1> QED
  BY <1>1, InvariantHolds, PTL

\* Concurrent requests share one fetch (main.go:115-117), for any number of them.
THEOREM RefresherSingleFlight == Spec => []SingleFlight
<1>1. IInv => SingleFlight
  BY DEF IInv, Flight, SingleFlight
<1> QED
  BY <1>1, InvariantHolds, PTL

\* A waiter's channel is closed or belongs to the fetch under way (main.go:149-157).
THEOREM RefresherNoLostWakeup == Spec => []NoLostWakeup
<1>1. IInv => NoLostWakeup
  BY DEF IInv, Flight, NoLostWakeup
<1> QED
  BY <1>1, InvariantHolds, PTL

\* Whoever Ensure let through still has a proxy to use (main.go:163-165, 207-209).
THEOREM RefresherReadyMeansProxies == Spec => []ReadyMeansProxies
<1>1. IInv => ReadyMeansProxies
  BY DEF IInv, Answers, ReadyMeansProxies
<1> QED
  BY <1>1, InvariantHolds, PTL

\* A request that returns in this step is one of three.
LEMMA WhoReturns ==
  ASSUME NEW r \in Requests, Types, Next, pc[r] # "returned", pc'[r] = "returned"
  PROVE  GiveUp(r) \/ AnswerFromPool(r) \/ Publish(r)
<1> USE DEF Types, refresherVars, requestVars
<1>1. ASSUME NEW q \in Requests,
             Arrive(q) \/ Cancel(q) \/ AwaitFlight(q) \/ Wake(q) \/ BeginFetch(q)
               \/ FetchSucceeds(q) \/ FetchFails(q) \/ Depart(q)
      PROVE  FALSE
  BY <1>1 DEF Arrive, Cancel, AwaitFlight, Wake, BeginFetch, FetchSucceeds, FetchFails, Depart
<1>2. ASSUME NEW q \in Requests, GiveUp(q) \/ AnswerFromPool(q) \/ Publish(q)
      PROVE  q = r
  BY <1>2 DEF GiveUp, AnswerFromPool, Publish
<1>3. ~Tick /\ ~Stop
  BY DEF Tick, Stop
<1> QED
  BY <1>1, <1>2, <1>3 DEF Next, Ensure

\* Ensure refuses a live request only with an empty pool, and with the error of the
\* last fetch (main.go:163-169, 207-210).
THEOREM RefresherRefusalIsHonest == Spec => RefusalIsHonest
<1>1. IInv /\ [Next]_vars => [\A r \in Requests : RefusesHonestly(r)]_vars
  <2> SUFFICES ASSUME IInv, Next, NEW r \in Requests,
                      pc[r] # "returned", pc'[r] = "returned", err'[r] \notin {"nil", "cancelled"}
               PROVE  PoolLen(pool) = 0 /\ err'[r] = lastErr' /\ err'[r] \in FetchErrors
    BY DEF RefusesHonestly
  <2>0. Types /\ Answers /\ PoolLen(pool) \in Nat
    BY DEF IInv, Types, Pools, PoolLen
  <2>1. CASE GiveUp(r)
    BY <2>0, <2>1 DEF GiveUp, Types
  <2>2. CASE AnswerFromPool(r)
    <3>1. err'[r] = HeldAnswer /\ lastErr' = lastErr /\ wait > 0
      BY <2>0, <2>2 DEF AnswerFromPool, Types, refresherVars
    <3>2. PoolLen(pool) = 0 /\ lastErr # "nil"
      BY <2>0, <3>1 DEF HeldAnswer, Answers
    <3> QED
      BY <2>0, <3>1, <3>2 DEF HeldAnswer, Types
  <2>3. CASE Publish(r)
    BY <2>0, <2>3 DEF Publish, Types, Answers
  <2> QED
    BY <2>0, <2>1, <2>2, <2>3, WhoReturns
<1> QED
  BY <1>1, InvariantHolds, PTL DEF Spec, RefusalIsHonest

\* The proxy API is spared: a fetch starts no sooner than the configured interval
\* after the last one ended, nor than 40 seconds after a rate limit (main.go:160,
\* 189-190), if twice any configured interval fits in a time.Duration.
THEOREM RefresherFetchesAreSpaced ==
  ASSUME NoOverflow
  PROVE  Spec => FetchesAreSpaced
<1>1. IInv /\ [Next]_vars => [\A r \in Requests : FetchesLateEnough(r)]_vars
  <2> SUFFICES ASSUME IInv, Next, NEW r \in Requests, pc[r] = "ensure", pc'[r] = "fetching"
               PROVE  age >= schedule.base /\ (lastErr = "rate_limited" => age >= MinimumBackoff)
    BY DEF FetchesLateEnough
  <2>0. Types /\ Clock
    BY DEF IInv
  <2>1. wait = 0
    <3>1. ASSUME NEW q \in Requests,
                 Arrive(q) \/ Cancel(q) \/ AwaitFlight(q) \/ Wake(q) \/ GiveUp(q)
                   \/ AnswerFromPool(q) \/ FetchSucceeds(q) \/ FetchFails(q) \/ Publish(q) \/ Depart(q)
          PROVE  FALSE
      BY <2>0, <3>1 DEF Types, Arrive, Cancel, AwaitFlight, Wake, GiveUp, AnswerFromPool,
                        FetchSucceeds, FetchFails, Publish, Depart
    <3>2. ~Tick /\ ~Stop
      BY DEF Tick, Stop, requestVars
    <3> QED
      BY <3>1, <3>2 DEF Next, Ensure, BeginFetch
  <2>2. /\ schedule.current \in Int /\ schedule.base \in Int /\ age \in Int
        /\ schedule.current <= age /\ schedule.base <= schedule.current
    BY <2>0, <2>1, RefresherAssumption DEF Types, Clock, Backed, WellFormed, Schedules
  <2> QED
    BY <2>0, <2>2, ScheduleAssumption DEF Clock
<1> QED
  BY <1>1, InvariantHolds, PTL DEF Spec, FetchesAreSpaced

\* Every step of the detailed protocol is a step of the contract or changes nothing
\* the contract sees (main.go:146-211).
THEOREM RefresherImplementsContract == Spec => ImplementsContract
<1>1. Init => Contract!Init
  BY DEF Init, Contract!Init, EmptyPool, Contract!EmptyPool, Calls
<1>2. IInv /\ [Next]_vars => [Contract!Next]_(Contract!gateVars)
  <2> SUFFICES ASSUME IInv, [Next]_vars
               PROVE  Contract!Next \/ UNCHANGED Contract!gateVars
    OBVIOUS
  <2> USE DEF refresherVars, requestVars, Contract!gateVars
  <2>0. Types /\ Answers
    BY DEF IInv
  <2>1. \A r \in Requests : pc[r] \notin {"idle", "returned"} => Calls[r] = "calling"
    BY DEF Calls
  <2>2. ASSUME NEW r \in Requests,
               AwaitFlight(r) \/ Wake(r) \/ BeginFetch(r) \/ FetchFails(r)
        PROVE  UNCHANGED Contract!gateVars
    <3>1. UNCHANGED <<pool, cancelled>>
      BY <2>2 DEF AwaitFlight, Wake, BeginFetch, FetchFails
    <3>2. \A q \in Requests :
            \/ pc'[q] = pc[q] /\ err'[q] = err[q]
            \/ pc[q] \notin {"idle", "returned"} /\ pc'[q] \notin {"idle", "returned"}
      BY <2>0, <2>2 DEF AwaitFlight, Wake, BeginFetch, FetchFails, Types
    <3>3. Calls' = Calls
      BY <3>2 DEF Calls
    <3> QED
      BY <3>1, <3>3
  <2>3. ASSUME NEW r \in Requests, Arrive(r)
        PROVE  Contract!Call(r)
    BY <2>0, <2>3 DEF Arrive, Contract!Call, Calls, Types
  <2>4. ASSUME NEW r \in Requests, Cancel(r)
        PROVE  Contract!Cancel(r)
    <3>1. Calls[r] # "idle"
      BY <2>4 DEF Cancel, Calls, Answer
    <3> QED
      BY <2>4, <3>1 DEF Cancel, Contract!Cancel, Calls
  <2>5. ASSUME NEW r \in Requests, GiveUp(r)
        PROVE  Contract!Abandon(r)
    <3>1. Calls[r] = "calling" /\ r \in cancelled /\ UNCHANGED <<pool, cancelled>>
      BY <2>1, <2>5 DEF GiveUp
    <3>2. Calls' = [Calls EXCEPT ![r] = "abandoned"]
      BY <2>0, <2>5 DEF GiveUp, Calls, Answer, Types
    <3> QED
      BY <3>1, <3>2 DEF Contract!Abandon
  <2>6. ASSUME NEW r \in Requests, AnswerFromPool(r) \/ Publish(r)
        PROVE  Contract!Ready(r) \/ Contract!Refuse(r)
    <3>1. Calls[r] = "calling" /\ UNCHANGED <<pool, cancelled>> /\ PoolLen(pool) \in Nat
      BY <2>0, <2>1, <2>6 DEF AnswerFromPool, Publish, Types, Pools, PoolLen
    <3>2. /\ pc' = [pc EXCEPT ![r] = "returned"]
          /\ \A q \in Requests : q # r => err'[q] = err[q]
      BY <2>0, <2>6 DEF AnswerFromPool, Publish, Types
    <3>3. IF PoolLen(pool) > 0 THEN err'[r] = "nil" ELSE err'[r] \in FetchErrors \cup {"empty_pool"}
      BY <2>0, <2>6, <3>1 DEF AnswerFromPool, Publish, HeldAnswer, Types, Answers
    <3>4. Answer(err'[r]) = IF PoolLen(pool) > 0 THEN "ready" ELSE "refused"
      BY <3>3 DEF Answer, FetchErrors
    <3>5. Calls' = [Calls EXCEPT ![r] = Answer(err'[r])]
      BY <2>0, <3>2 DEF Calls, Types
    <3>6. Contract!PoolLen(pool) = PoolLen(pool)
      BY DEF Contract!PoolLen, PoolLen
    <3>7. CASE PoolLen(pool) > 0
      BY <3>1, <3>4, <3>5, <3>6, <3>7 DEF Contract!Ready
    <3>8. CASE PoolLen(pool) = 0
      BY <3>1, <3>4, <3>5, <3>6, <3>8 DEF Contract!Refuse
    <3> QED
      BY <3>1, <3>7, <3>8
  <2>7. ASSUME NEW r \in Requests, FetchSucceeds(r)
        PROVE  Contract!Refill
    <3>1. UNCHANGED cancelled /\ Calls[r] = "calling"
      BY <2>1, <2>7 DEF FetchSucceeds
    <3>2. PICK list \in Lists : pool' = Installed(pool, list)
      BY <2>7 DEF FetchSucceeds
    <3>3. Calls' = Calls
      <4>1. \A q \in Requests :
              \/ pc'[q] = pc[q] /\ err'[q] = err[q]
              \/ pc[q] \notin {"idle", "returned"} /\ pc'[q] \notin {"idle", "returned"}
        BY <2>0, <2>7 DEF FetchSucceeds, Types
      <4> QED
        BY <4>1 DEF Calls
    <3> QED
      BY <3>1, <3>2, <3>3 DEF Contract!Refill, Contract!Calling, Contract!Installed, Installed
  <2>8. ASSUME NEW r \in Requests, Depart(r)
        PROVE  Contract!Leave(r)
    <3>1. Calls[r] \notin {"idle", "calling"}
      BY <2>0, <2>8 DEF Depart, Calls, Answer, Types
    <3>2. Calls' = [Calls EXCEPT ![r] = "idle"]
      BY <2>0, <2>8 DEF Depart, Calls, Types
    <3> QED
      BY <2>8, <3>1, <3>2 DEF Depart, Contract!Leave
  <2>9. CASE Tick \/ Stop \/ UNCHANGED vars
    BY <2>9 DEF Tick, Stop, vars, Calls
  <2> QED
    BY <2>2, <2>3, <2>4, <2>5, <2>6, <2>7, <2>8, <2>9 DEF Next, Ensure, Contract!Next
<1> QED
  BY <1>1, <1>2, InvariantHolds, PTL DEF Spec, ImplementsContract, Contract!Spec

=============================================================================
