----------------------------- MODULE SupplyProofs -----------------------------
(***************************************************************************)
(* The schedule, and the composition of API, schedule and pool, for every  *)
(* set of answers, list of proxies, configured interval and width of       *)
(* time.Duration.  The schedule of the composition is the one of           *)
(* ScheduleRecovery, whose theorems hold in it; what it adds is the pool:  *)
(* the loops that make the list are unfolded with Folding, and the places  *)
(* the rotation goes through are remainders of the counter.                *)
(***************************************************************************)
EXTENDS ProxySupply, DataLemmas

(* The schedule. *)

\* calm is what the schedule has counted, while it is backed off.
CountedOrLonger == schedule.base < schedule.current => calm = schedule.successes

IInv ==
  /\ WellFormed(schedule)
  /\ calm \in 0..3
  /\ CountedOrLonger

\* What does not need the durations to be free of overflow.
LEMMA InitIInv == Init => IInv
<1> SUFFICES ASSUME Init PROVE IInv
  OBVIOUS
<1>1. PICK configured \in Configured : schedule = NewSchedule(configured)
  BY DEF Init
<1>2. WellFormed(schedule)
  BY <1>1, NewScheduleWellFormed
<1>3. schedule.base = schedule.current /\ schedule.base \in 1..MaxDuration
  BY <1>1, <1>2, BaseInRange DEF NewSchedule
<1> QED
  BY <1>2, <1>3 DEF Init, IInv, CountedOrLonger

\* A refresh keeps the invariant: a rate limit and a halving reset both counts,
\* and a counted success adds one to both.
LEMMA NextIInv == IInv /\ [Next]_vars => IInv'
<1> SUFFICES ASSUME IInv, [Next]_vars PROVE IInv'
  OBVIOUS
<1>0. /\ WellFormed(schedule) /\ schedule \in Schedules
      /\ schedule.current \in Int /\ schedule.base \in Int /\ schedule.successes \in 0..2
  BY DEF IInv, WellFormed, Schedules
<1>1. ASSUME NEW result \in Results, Refresh(result)
      PROVE  IInv'
  <2>1. WellFormed(schedule)'
    BY <1>0, <1>1, AfterRefreshKeeps DEF Refresh, WellFormed
  <2>2. (calm \in 0..3)'
    BY <1>1 DEF IInv, Refresh
  <2>3. CASE result = "rate_limited"
    <3>1. schedule'.successes = 0 /\ calm' = 0
      BY <1>1, <2>3 DEF Refresh, AfterRefresh, RateLimited
    <3> QED
      BY <2>1, <2>2, <3>1 DEF IInv, CountedOrLonger
  <2>4. CASE result = "nil"
    <3>1. schedule' = Succeeded(schedule)
      BY <1>1, <2>4 DEF Refresh, AfterRefresh
    <3>2. CASE schedule.current <= schedule.base
      BY <1>0, <2>1, <2>2, <3>1, <3>2 DEF Succeeded, IInv, CountedOrLonger
    <3>3. CASE schedule.base < schedule.current /\ schedule.successes < 2
      <4>1. /\ schedule'.successes = schedule.successes + 1
            /\ schedule'.current = schedule.current
        BY <1>0, <3>1, <3>3 DEF Succeeded, Schedules
      <4>2. calm = schedule.successes
        BY <3>3 DEF IInv, CountedOrLonger
      <4>3. calm' = calm + 1
        BY <1>0, <1>1, <2>4, <3>3, <4>1, <4>2 DEF Refresh
      <4> QED
        BY <2>1, <2>2, <4>1, <4>2, <4>3 DEF IInv, CountedOrLonger
    <3>4. CASE schedule.base < schedule.current /\ schedule.successes = 2
      <4> DEFINE half  == schedule.current \div 2
                 lower == IF half < schedule.base THEN schedule.base ELSE half
      <4>1. half \in Int /\ half < schedule.current
        BY <1>0, <3>4, BaseInRange, ScheduleAssumption
      <4>2. schedule' = [base |-> schedule.base, current |-> lower, successes |-> 0]
        BY <1>0, <3>1, <3>4 DEF Succeeded
      <4> HIDE DEF half
      <4>3. schedule'.current # schedule.current /\ schedule'.successes = 0
        BY <1>0, <3>4, <4>1, <4>2
      <4>4. calm' = 0
        BY <1>1, <4>3 DEF Refresh
      <4> QED
        BY <2>1, <2>2, <4>3, <4>4 DEF IInv, CountedOrLonger
    <3> QED
      BY <1>0, <3>2, <3>3, <3>4
  <2>5. CASE result = "fetch_failed"
    <3>1. schedule' = schedule /\ calm' = calm
      BY <1>1, <2>5 DEF Refresh, AfterRefresh
    <3> QED
      BY <2>1, <2>2, <3>1 DEF IInv, CountedOrLonger
  <2> QED
    BY <2>3, <2>4, <2>5 DEF Results
<1>2. CASE UNCHANGED vars
  BY <1>2 DEF vars, IInv, CountedOrLonger, WellFormed
<1> QED
  BY <1>1, <1>2 DEF Next

\* The schedule's fields keep their types, whatever the configured interval: an
\* overflow of the doubling cannot make the delay negative (main.go:240-247).
THEOREM ScheduleTypeOK == Spec => []TypeOK
<1>1. IInv => TypeOK
  BY DEF IInv, TypeOK, WellFormed
<1> QED
  BY <1>1, InitIInv, NextIInv, PTL DEF Spec

\* The delay shrinks only on the third success since it last changed or since the
\* last rate limit (main.go:251-264), if twice any configured interval fits in a
\* time.Duration: otherwise a rate limit may shorten it.
THEOREM ScheduleRecoversSlowly ==
  ASSUME NoOverflow
  PROVE  Spec => RecoveryTakesThreeSuccesses
<1>1. IInv /\ [Next]_vars => [schedule'.current < schedule.current => calm = 2 /\ calm' = 0]_vars
  <2> SUFFICES ASSUME IInv, [Next]_vars, schedule'.current < schedule.current
               PROVE  calm = 2 /\ calm' = 0
    OBVIOUS
  <2>0. WellFormed(schedule) /\ schedule.current \in Int /\ schedule.base \in Int
    BY DEF IInv, WellFormed, Schedules
  <2>1. schedule' # schedule
    BY <2>0
  <2>2. PICK result \in Results : Refresh(result)
    BY <2>1 DEF Next, vars
  <2>3. result # "rate_limited"
    <3> SUFFICES ASSUME result = "rate_limited" PROVE FALSE
      OBVIOUS
    <3>1. schedule' = RateLimited(schedule)
      BY <2>2 DEF Refresh, AfterRefresh
    <3>2. schedule'.current \in Int
      BY <2>0, <3>1, RateLimitedKeeps DEF WellFormed, Schedules
    <3> QED
      BY <2>0, <3>1, <3>2, RateLimitedKeeps
  <2>4. schedule' = Succeeded(schedule)
    BY <2>1, <2>2, <2>3 DEF Results, Refresh, AfterRefresh
  <2>5. schedule.successes = 2
    BY <2>0, <2>4, SucceededKeeps
  <2>6. schedule.base < schedule.current
    BY <2>0, <2>1, <2>4 DEF Succeeded
  <2>7. calm = 2
    BY <2>5, <2>6 DEF IInv, CountedOrLonger
  <2>8. schedule'.current # schedule.current
    BY <2>0
  <2> QED
    BY <2>2, <2>7, <2>8 DEF Refresh
<1> QED
  BY <1>1, InitIInv, NextIInv, PTL DEF Spec, RecoveryTakesThreeSuccesses

\* The delay never drops below the configured interval, and never exceeds two
\* minutes or the interval (main.go:231-264), if twice any configured interval fits
\* in a time.Duration.
THEOREM ScheduleDelayWithinBounds ==
  ASSUME NoOverflow
  PROVE  Spec => []DelayWithinBounds
<1> DEFINE BInv == IInv /\ Backed(schedule)
<1>1. Init => Backed(schedule)
  BY NewScheduleWellFormed DEF Init
<1>2. BInv /\ [Next]_vars => Backed(schedule)'
  <2> SUFFICES ASSUME IInv, Backed(schedule), [Next]_vars PROVE Backed(schedule)'
    OBVIOUS
  <2>1. CASE UNCHANGED vars
    BY <2>1 DEF vars, Backed
  <2>2. CASE Next
    <3>1. PICK result \in Results : schedule' = AfterRefresh(schedule, result)
      BY <2>2 DEF Next, Refresh
    <3>2. Backed(AfterRefresh(schedule, result))
      BY <3>1, AfterRefreshKeeps DEF IInv
    <3> QED
      BY <3>1, <3>2 DEF Backed
  <2> QED
    BY <2>1, <2>2
<1>3. BInv => DelayWithinBounds
  BY DEF IInv, Backed, DelayWithinBounds, WellFormed
<1> QED
  BY <1>1, <1>2, <1>3, InitIInv, NextIInv, PTL DEF Spec

\* Only a success shortens the delay (main.go:184-188), if twice any configured
\* interval fits in a time.Duration.
THEOREM ScheduleTroubleNeverShortens ==
  ASSUME NoOverflow
  PROVE  Spec => TroubleNeverShortensDelay
<1>1. IInv /\ [Next]_vars =>
        [schedule'.current < schedule.current => schedule' = Succeeded(schedule)]_vars
  <2> SUFFICES ASSUME IInv, [Next]_vars, schedule'.current < schedule.current
               PROVE  schedule' = Succeeded(schedule)
    OBVIOUS
  <2>0. WellFormed(schedule) /\ schedule.current \in Int
    BY DEF IInv, WellFormed, Schedules
  <2>1. schedule' # schedule
    BY <2>0
  <2>2. PICK result \in Results : schedule' = AfterRefresh(schedule, result)
    BY <2>1 DEF Next, vars, Refresh
  <2>3. result # "rate_limited"
    <3> SUFFICES ASSUME result = "rate_limited" PROVE FALSE
      OBVIOUS
    <3>1. schedule' = RateLimited(schedule)
      BY <2>2 DEF AfterRefresh
    <3>2. schedule'.current \in Int
      BY <2>0, <3>1, RateLimitedKeeps DEF WellFormed, Schedules
    <3> QED
      BY <2>0, <3>1, <3>2, RateLimitedKeeps
  <2> QED
    BY <2>1, <2>2, <2>3 DEF Results, AfterRefresh
<1> QED
  BY <1>1, InitIInv, NextIInv, PTL DEF Spec, TroubleNeverShortensDelay

-----------------------------------------------------------------------------
(* Schedule and pool. *)

\* What a refresh does to schedule and pool, by the error it ends with: Replace
\* refuses an empty list only, and nothing is installed after any other failure.
LEMMA RefreshFromEffect ==
  ASSUME NEW answer, RefreshFrom(answer)
  PROVE  \E err \in Results \cup {"empty_pool"} :
           /\ Refresh(err)
           /\ err = "nil" => pool'.proxies # <<>> /\ pool'.next = 0
           /\ err \in {"rate_limited", "fetch_failed"} => UNCHANGED <<pool, last, seen>>
<1> DEFINE fetched == Fetch(answer)
<1>1. fetched.err \in Results
  BY DEF Fetch, Failed, Results
<1>2. CASE fetched.err = "nil"
  <2> DEFINE copied == Copied(fetched.proxies)
  <2>1. /\ pool' = Installed(pool, copied)
        /\ last' = [NoResult EXCEPT !.err = ReplaceErr(copied)]
        /\ Refresh(last'.err)
    BY <1>2 DEF RefreshFrom, Replace
  <2> HIDE DEF copied
  <2>2. last'.err = ReplaceErr(copied)
    BY <2>1 DEF NoResult
  <2>3. CASE copied = <<>>
    BY <2>1, <2>2, <2>3 DEF ReplaceErr
  <2>4. CASE copied # <<>>
    BY <2>1, <2>2, <2>4 DEF ReplaceErr, Installed, Results
  <2> QED
    BY <2>3, <2>4
<1>3. CASE fetched.err # "nil"
  <2>1. Refresh(fetched.err) /\ UNCHANGED <<pool, last, seen>>
    BY <1>3 DEF RefreshFrom
  <2> HIDE DEF fetched
  <2> QED
    BY <1>1, <1>3, <2>1
<1> QED
  BY <1>2, <1>3

\* To the schedule a refused list is a refresh that failed.
LEMMA SupplyStepIsScheduleStep == [SupplyNext]_supplyVars => [Next]_vars
<1> SUFFICES ASSUME [SupplyNext]_supplyVars PROVE [Next]_vars
  OBVIOUS
<1>1. CASE NextWithCycle \/ NextWithCycleEmpty \/ UNCHANGED supplyVars
  BY <1>1 DEF NextWithCycle, NextWithCycleEmpty, supplyVars
<1>2. ASSUME NEW answer \in Answers, RefreshFrom(answer)
      PROVE  Next
  <2>1. PICK err \in Results \cup {"empty_pool"} : Refresh(err)
    BY <1>2, RefreshFromEffect
  <2>2. CASE err = "empty_pool"
    <3>1. Refresh("fetch_failed")
      BY <2>1, <2>2 DEF Refresh, AfterRefresh
    <3> QED
      BY <3>1 DEF Next, Results
  <2> QED
    BY <2>1, <2>2 DEF Next
<1> QED
  BY <1>1, <1>2 DEF SupplyNext

\* The schedule of the composition is a schedule: what the theorems above show of any
\* sequence of results holds for the results Fetch and Replace have (main.go:177-188).
THEOREM SupplyRunsSchedule == SupplySpec => Spec
BY SupplyStepIsScheduleStep, PTL DEF SupplySpec, SupplyInit, Spec

\* A success is counted, or the delay shortened, only with a new list in place and
\* the rotation at its start; a longer delay leaves the rotation alone.
THEOREM SupplyScheduleFollowsPool ==
  ASSUME NoOverflow
  PROVE  SupplySpec => ScheduleFollowsPool
<1> DEFINE Better == schedule'.current < schedule.current \/ schedule'.successes > schedule.successes
           Worse  == schedule'.current > schedule.current
           Step   == /\ Better => pool'.proxies # <<>> /\ pool'.next = 0
                     /\ Worse => UNCHANGED <<pool, seen>>
<1>1. IInv /\ [SupplyNext]_supplyVars => [Step]_supplyVars
  <2> SUFFICES ASSUME IInv, SupplyNext PROVE Step
    OBVIOUS
  <2>0. /\ WellFormed(schedule) /\ schedule.current \in Int /\ schedule.successes \in 0..2
    BY DEF IInv, WellFormed, Schedules
  <2>1. CASE NextWithCycle \/ NextWithCycleEmpty
    <3>1. schedule' = schedule
      BY <2>1 DEF NextWithCycle, NextWithCycleEmpty, vars
    <3>2. ~Better /\ ~Worse
      BY <2>0, <3>1
    <3> QED
      BY <3>2
  <2>2. ASSUME NEW answer \in Answers, RefreshFrom(answer)
        PROVE  Step
    <3>1. PICK err \in Results \cup {"empty_pool"} :
            /\ Refresh(err)
            /\ err = "nil" => pool'.proxies # <<>> /\ pool'.next = 0
            /\ err \in {"rate_limited", "fetch_failed"} => UNCHANGED <<pool, last, seen>>
      BY <2>2, RefreshFromEffect
    <3>2. schedule' = AfterRefresh(schedule, err)
      BY <3>1 DEF Refresh
    <3>3. CASE err = "nil"
      <4>1. schedule' = Succeeded(schedule)
        BY <3>2, <3>3 DEF AfterRefresh
      <4>2. schedule'.current \in Int /\ schedule'.current <= schedule.current
        BY <2>0, <4>1, SucceededKeeps DEF WellFormed, Schedules
      <4>3. ~Worse
        BY <2>0, <4>2
      <4> QED
        BY <3>1, <3>3, <4>3
    <3>4. CASE err = "rate_limited"
      <4>1. schedule' = RateLimited(schedule)
        BY <3>2, <3>4 DEF AfterRefresh
      <4>2. schedule'.current \in Int /\ schedule.current <= schedule'.current
        BY <2>0, <4>1, RateLimitedKeeps DEF WellFormed, Schedules
      <4>3. schedule'.successes = 0
        BY <4>1 DEF RateLimited
      <4>4. ~Better
        BY <2>0, <4>2, <4>3
      <4> QED
        BY <3>1, <3>4, <4>4
    <3>5. CASE err \in {"fetch_failed", "empty_pool"}
      <4>1. schedule' = schedule
        BY <3>2, <3>5 DEF AfterRefresh
      <4>2. ~Better /\ ~Worse
        BY <2>0, <4>1
      <4> QED
        BY <4>2
    <3> QED
      BY <3>3, <3>4, <3>5 DEF Results
  <2> QED
    BY <2>1, <2>2 DEF SupplyNext
<1>2. SupplyInit => Init
  BY DEF SupplyInit
<1> QED
  BY <1>1, <1>2, InitIInv, NextIInv, SupplyStepIsScheduleStep, PTL
  DEF SupplySpec, ScheduleFollowsPool

-----------------------------------------------------------------------------
(* The loops that make the list. *)

\* The loops of ParseProxyList and Replace, as Folding takes them.
KeptIn(list, item, context) == Kept(list, item)
Parsing == INSTANCE Folding WITH Op <- KeptIn

CopiedIn(list, proxy, context) == WithoutNil(list, proxy)
Copying == INSTANCE Folding WITH Op <- CopiedIn

\* Replace keeps a list without nil entries as it is.
LEMMA CopiedWhole ==
  ASSUME NEW list \in Seq(Proxies)
  PROVE  Copied(list) = list
<1> DEFINE n == Len(list)
<1>1. n \in Nat /\ DOMAIN list = 1..n
  OBVIOUS
<1>2. Copied(list) = Copying!Fold(<<>>, list, 0)
  BY DEF Copied, CopiedIn, FoldLeft, MapThenFoldSet, Max,
         Copying!Fold, Copying!FoldLeft, Copying!MapThenFoldSet, Copying!Max
<1>3. PICK acc :
        /\ acc[0] = <<>>
        /\ \A k \in 1..n : acc[k] = CopiedIn(acc[k - 1], list[k], 0)
        /\ Copied(list) = acc[n]
  BY <1>1, <1>2, Copying!FoldSteps
<1> HIDE DEF n
<1> DEFINE T == {k \in 0..n : /\ acc[k] \in Seq(Proxies)
                              /\ Len(acc[k]) = k
                              /\ \A i \in 1..k : acc[k][i] = list[i]}
<1>0. n \in Nat /\ DOMAIN list = 1..n
  BY <1>1 DEF n
<1>4. 0 \in T
  <2>1. 0 \in 0..n /\ <<>> \in Seq(Proxies) /\ Len(<<>>) = 0 /\ 1..0 = {}
    BY <1>0
  <2> QED
    BY <1>3, <2>1
<1>5. ASSUME NEW k \in 0..n - 1, k \in T
      PROVE  k + 1 \in T
  <2>1. k \in Nat /\ k + 1 \in 1..n /\ (k + 1) - 1 = k
    BY <1>0
  <2>2. acc[k + 1] = WithoutNil(acc[k], list[k + 1])
    BY <1>3, <2>1 DEF CopiedIn
  <2>3. list[k + 1] \in Proxies
    BY <1>0, <2>1
  <2> DEFINE old == acc[k]
             new == acc[k + 1]
  <2> HIDE DEF old, new
  <2>4. old \in Seq(Proxies) /\ Len(old) = k /\ \A i \in 1..k : old[i] = list[i]
    BY <1>5 DEF old
  <2>5. new = Append(old, list[k + 1])
    BY <2>2, <2>3, PoolAssumption DEF WithoutNil, old, new
  <2>6. /\ new \in Seq(Proxies) /\ Len(new) = k + 1
        /\ \A i \in 1..k : new[i] = old[i]
        /\ new[k + 1] = list[k + 1]
    BY <2>1, <2>3, <2>4, <2>5
  <2>7. \A i \in 1..k + 1 : i \in 1..k \/ i = k + 1
    BY <2>1
  <2>8. \A i \in 1..k + 1 : new[i] = list[i]
    BY <2>4, <2>6, <2>7
  <2>9. k + 1 \in 0..n
    BY <2>1
  <2> QED
    BY <2>6, <2>8, <2>9 DEF new
<1>6. n \in T
  <2> HIDE DEF T
  <2>1. \A k \in 0..n : k \in T
    BY <1>1, <1>4, <1>5, Copying!IntervalInduction
  <2> QED
    BY <1>1, <2>1
<1> QED
  BY <1>1, <1>3, <1>6 DEF n

\* What the loop has done after n items: NamesOnce, of the first n.
NamesOnceUpTo(list, items, n) ==
  /\ \A k \in DOMAIN list : \E i \in FirstUsable(items) : i <= n /\ list[k] = Key(items[i])
  /\ \A i \in 1..n : Usable(items[i]) => \E k \in DOMAIN list : list[k] = Key(items[i])
  /\ \A i, j \in FirstUsable(items) : \A k, l \in DOMAIN list :
       list[k] = Key(items[i]) /\ list[l] = Key(items[j]) => (k < l <=> i < j)

\* ParseProxyList names every usable host and port once, where it comes first.
LEMMA ParsedOnce ==
  ASSUME NEW items \in Seq(Items),
         \A i \in DOMAIN items : Usable(items[i]) => Key(items[i]) \in Proxies
  PROVE  /\ ParseProxyList(items) \in Seq(Proxies)
         /\ NamesOnce(ParseProxyList(items), items)
<1> DEFINE n == Len(items)
<1>1. n \in Nat /\ DOMAIN items = 1..n
  OBVIOUS
<1>2. ParseProxyList(items) = Parsing!Fold(<<>>, items, 0)
  BY DEF ParseProxyList, KeptIn, FoldLeft, MapThenFoldSet, Max,
         Parsing!Fold, Parsing!FoldLeft, Parsing!MapThenFoldSet, Parsing!Max
<1>3. PICK acc :
        /\ acc[0] = <<>>
        /\ \A k \in 1..n : acc[k] = KeptIn(acc[k - 1], items[k], 0)
        /\ ParseProxyList(items) = acc[n]
  BY <1>1, <1>2, Parsing!FoldSteps
<1> HIDE DEF n
<1>0. n \in Nat /\ DOMAIN items = 1..n
  BY <1>1 DEF n
<1> DEFINE T == {k \in 0..n : acc[k] \in Seq(Proxies) /\ NamesOnceUpTo(acc[k], items, k)}
<1>4. 0 \in T
  <2>1. 0 \in 0..n /\ <<>> \in Seq(Proxies) /\ DOMAIN <<>> = {} /\ 1..0 = {}
    BY <1>0
  <2>2. NamesOnceUpTo(<<>>, items, 0)
    BY <2>1 DEF NamesOnceUpTo
  <2> QED
    BY <1>3, <2>1, <2>2
<1>5. ASSUME NEW m \in 0..n - 1, m \in T
      PROVE  m + 1 \in T
  <2> DEFINE item == items[m + 1]
             old  == acc[m]
             new  == acc[m + 1]
  <2>1. m \in Nat /\ m + 1 \in 1..n /\ (m + 1) - 1 = m
    BY <1>1
  <2>2. new = Kept(old, item)
    BY <1>3, <2>1 DEF KeptIn
  <2>3. old \in Seq(Proxies) /\ NamesOnceUpTo(old, items, m)
    BY <1>5
  <2> HIDE DEF new, old, item
  <2>4. CASE Usable(item) /\ Key(item) \notin ToSet(old)
    <3>1. new = Append(old, Key(item)) /\ Key(item) \in Proxies
      BY <1>1, <2>1, <2>2, <2>4 DEF Kept, item
    <3>2. /\ new \in Seq(Proxies) /\ Len(new) = Len(old) + 1
          /\ \A k \in 1..Len(old) : new[k] = old[k]
          /\ new[Len(old) + 1] = Key(item)
          /\ Len(old) \in Nat
      BY <2>3, <3>1
    <3>3. DOMAIN new = 1..Len(old) + 1 /\ DOMAIN old = 1..Len(old)
      BY <2>3, <3>2
    <3>4. \A k \in DOMAIN old : old[k] # Key(item)
      BY <2>4 DEF ToSet
    <3>5. m + 1 \in FirstUsable(items)
      <4>1. \A j \in 1..m : Usable(items[j]) => Key(items[j]) # Key(item)
        BY <2>3, <3>4 DEF NamesOnceUpTo
      <4> QED
        BY <1>1, <2>1, <2>4, <4>1 DEF FirstUsable, item
    <3>6. NamesOnceUpTo(new, items, m + 1)
      <4>1. \A k \in DOMAIN new : \E i \in FirstUsable(items) :
              i <= m + 1 /\ new[k] = Key(items[i])
        <5> SUFFICES ASSUME NEW k \in DOMAIN new
                     PROVE  \E i \in FirstUsable(items) : i <= m + 1 /\ new[k] = Key(items[i])
          OBVIOUS
        <5>1. CASE k \in 1..Len(old)
          <6>1. PICK i \in FirstUsable(items) : i <= m /\ old[k] = Key(items[i])
            BY <2>3, <3>3, <5>1 DEF NamesOnceUpTo
          <6>2. i \in 1..n
            BY <1>1 DEF FirstUsable
          <6> QED
            BY <2>1, <3>2, <5>1, <6>1, <6>2
        <5>2. CASE k = Len(old) + 1
          BY <2>1, <3>2, <3>5, <5>2 DEF item
        <5> QED
          BY <3>2, <3>3, <5>1, <5>2
      <4>2. \A i \in 1..m + 1 : Usable(items[i]) => \E k \in DOMAIN new : new[k] = Key(items[i])
        <5> SUFFICES ASSUME NEW i \in 1..m + 1, Usable(items[i])
                     PROVE  \E k \in DOMAIN new : new[k] = Key(items[i])
          OBVIOUS
        <5>1. CASE i \in 1..m
          BY <2>3, <3>2, <3>3, <5>1 DEF NamesOnceUpTo
        <5>2. CASE i = m + 1
          BY <3>2, <3>3, <5>2 DEF item
        <5> QED
          BY <2>1, <5>1, <5>2
      <4>3. ASSUME NEW i \in FirstUsable(items), NEW j \in FirstUsable(items),
                   NEW k \in DOMAIN new, NEW l \in DOMAIN new,
                   new[k] = Key(items[i]), new[l] = Key(items[j])
            PROVE  k < l <=> i < j
        <5>1. \A p \in FirstUsable(items), q \in 1..Len(old) :
                old[q] = Key(items[p]) => p \in 1..m
          <6> SUFFICES ASSUME NEW p \in FirstUsable(items), NEW q \in 1..Len(old),
                              old[q] = Key(items[p])
                       PROVE  p \in 1..m
            OBVIOUS
          <6>1. PICK f \in FirstUsable(items) : f <= m /\ old[q] = Key(items[f])
            BY <2>3, <3>3 DEF NamesOnceUpTo
          <6>2. p \in 1..n /\ f \in 1..n
            BY <1>1 DEF FirstUsable
          <6>3. ~(f < p)
            <7> SUFFICES ASSUME f < p PROVE FALSE
              OBVIOUS
            <7>1. f \in 1..p - 1 /\ Usable(items[f]) /\ Key(items[f]) = Key(items[p])
              BY <6>1, <6>2 DEF FirstUsable
            <7> QED
              BY <7>1 DEF FirstUsable
          <6> QED
            BY <2>1, <6>1, <6>2, <6>3
        <5>2. \A p \in FirstUsable(items) : p \in 1..n
          BY <1>1 DEF FirstUsable
        <5>3. \A p \in FirstUsable(items) : Key(items[p]) = Key(item) => p = m + 1
          <6> SUFFICES ASSUME NEW p \in FirstUsable(items), Key(items[p]) = Key(item)
                       PROVE  p = m + 1
            OBVIOUS
          <6>1. ~(p < m + 1) /\ ~(m + 1 < p)
            BY <3>5, <2>1, <5>2 DEF FirstUsable, item
          <6> QED
            BY <2>1, <5>2, <6>1
        <5>4. CASE k \in 1..Len(old) /\ l \in 1..Len(old)
          BY <2>3, <3>2, <3>3, <4>3, <5>4 DEF NamesOnceUpTo
        <5>5. CASE k \in 1..Len(old) /\ l = Len(old) + 1
          <6>1. i \in 1..m /\ j = m + 1
            BY <3>2, <4>3, <5>1, <5>3, <5>5
          <6> QED
            BY <2>1, <3>2, <5>5, <6>1
        <5>6. CASE k = Len(old) + 1 /\ l \in 1..Len(old)
          <6>1. j \in 1..m /\ i = m + 1
            BY <3>2, <4>3, <5>1, <5>3, <5>6
          <6> QED
            BY <2>1, <3>2, <5>6, <6>1
        <5>7. CASE k = Len(old) + 1 /\ l = Len(old) + 1
          <6>1. j = m + 1 /\ i = m + 1
            BY <3>2, <4>3, <5>3, <5>7
          <6> QED
            BY <3>2, <5>7, <6>1
        <5> QED
          BY <3>2, <3>3, <5>4, <5>5, <5>6, <5>7
      <4> QED
        BY <4>1, <4>2, <4>3 DEF NamesOnceUpTo
    <3> QED
      BY <2>1, <3>2, <3>6 DEF new
  <2>5. CASE ~Usable(item) \/ Key(item) \in ToSet(old)
    <3>1. new = old
      BY <2>2, <2>5 DEF Kept
    <3>2. Usable(item) => \E k \in DOMAIN old : old[k] = Key(item)
      BY <2>5 DEF ToSet
    <3>3. \A i \in FirstUsable(items) : i \in 1..n
      BY <1>1 DEF FirstUsable
    <3>4. NamesOnceUpTo(old, items, m + 1)
      <4>1. \A i \in 1..m + 1 : i \in 1..m \/ i = m + 1
        BY <2>1
      <4>2. \A i \in FirstUsable(items) : i <= m => i <= m + 1
        BY <2>1, <3>3
      <4> QED
        BY <2>3, <3>2, <4>1, <4>2 DEF NamesOnceUpTo, item
    <3> QED
      BY <2>1, <2>3, <3>1, <3>4 DEF new
  <2> QED
    BY <2>4, <2>5
<1>6. n \in T
  <2> HIDE DEF T
  <2>1. \A k \in 0..n : k \in T
    BY <1>1, <1>4, <1>5, Parsing!IntervalInduction
  <2> QED
    BY <1>1, <2>1
<1>7. ParseProxyList(items) \in Seq(Proxies) /\ NamesOnceUpTo(ParseProxyList(items), items, n)
  BY <1>3, <1>6
<1>8. \A i \in FirstUsable(items) : i \in 1..n /\ Usable(items[i])
  BY <1>1 DEF FirstUsable
<1> QED
  BY <1>7, <1>8 DEF NamesOnce, NamesOnceUpTo

-----------------------------------------------------------------------------
(* The pool. *)

\* Different places of a list that names its proxies once hold different proxies.
LEMMA NamesOnceInjective ==
  ASSUME NEW list, NEW items, NamesOnce(list, items), DOMAIN list \subseteq Int,
         NEW k \in DOMAIN list, NEW l \in DOMAIN list, list[k] = list[l]
  PROVE  k = l
<1>1. PICK i \in FirstUsable(items) : list[k] = Key(items[i])
  BY DEF NamesOnce
<1>2. (k < l <=> i < i) /\ (l < k <=> i < i)
  BY <1>1 DEF NamesOnce
<1> QED
  BY <1>2

\* What a refresh leaves in the pool: what it held, or one answer, whole, and the
\* rotation at its start.
LEMMA RefreshFromPool ==
  ASSUME NEW answer \in Answers, RefreshFrom(answer)
  PROVE  \/ UNCHANGED <<pool, last, seen>>
         \/ LET list == ParseProxyList(answer.items)
            IN  /\ Fetch(answer) = [err |-> "nil", proxies |-> list]
                /\ list \in Seq(Proxies) /\ list # <<>>
                /\ NamesOnce(list, answer.items)
                /\ pool' = [proxies |-> list, next |-> 0]
                /\ seen' = {}
                /\ last' = NoResult
<1> DEFINE list == ParseProxyList(answer.items)
<1>1. CASE Fetch(answer).err = "nil"
  <2>1. Fetch(answer) = [err |-> "nil", proxies |-> list] /\ list # <<>>
    BY <1>1 DEF Fetch, Failed
  <2>2. list \in Seq(Proxies) /\ NamesOnce(list, answer.items)
    BY AnswersAssumption, ParsedOnce
  <2>3. Replace(Fetch(answer).proxies)
    BY <1>1 DEF RefreshFrom
  <2> HIDE DEF list
  <2>4. Copied(list) = list
    BY <2>2, CopiedWhole
  <2>5. Replace(list)
    BY <2>1, <2>3
  <2>6. /\ pool' = [proxies |-> list, next |-> 0]
        /\ seen' = {}
        /\ last' = NoResult
    BY <2>1, <2>4, <2>5 DEF Replace, Installed, ReplaceErr, NoResult
  <2> QED
    BY <2>1, <2>2, <2>6 DEF list
<1>2. CASE Fetch(answer).err # "nil"
  BY <1>2 DEF RefreshFrom
<1> QED
  BY <1>1, <1>2

\* The pool is well typed, and holds one answer: this is inductive as it stands.
PoolInv == pool \in Pools /\ PoolIsOneAnswer

\* Fetch returns a list only from an answer that is one.
LEMMA OnlyListsAreFetched ==
  ASSUME NEW answer, Fetch(answer).err = "nil"
  PROVE  IsList(answer)
<1>1. \A e : Failed(e).err = e
  BY DEF Failed
<1>2. CASE ~answer.read \/ answer.size > MaxAPIResponseSize
  <2>1. Fetch(answer) = Failed("fetch_failed")
    BY <1>2 DEF Fetch
  <2> QED
    BY <1>1, <2>1
<1>3. CASE ~(~answer.read \/ answer.size > MaxAPIResponseSize)
  <2>1. CASE answer.status = 429
    <3>1. Fetch(answer) = Failed("rate_limited")
      BY <1>3, <2>1 DEF Fetch
    <3> QED
      BY <1>1, <3>1
  <2>2. CASE answer.status # 429 /\ answer.status \notin 200..299
    <3>1. Fetch(answer) = Failed("fetch_failed")
      BY <1>3, <2>2 DEF Fetch
    <3> QED
      BY <1>1, <3>1
  <2>3. CASE answer.status # 429 /\ answer.status \in 200..299 /\ answer.saysTooMany
    <3>1. Fetch(answer) = Failed("rate_limited")
      BY <1>3, <2>3 DEF Fetch
    <3> QED
      BY <1>1, <3>1
  <2>4. CASE answer.status \in 200..299 /\ ~answer.saysTooMany
    BY <1>3, <2>4 DEF IsList
  <2> QED
    BY <2>1, <2>2, <2>3, <2>4
<1> QED
  BY <1>2, <1>3

\* The pool is empty at first.
LEMMA InitPoolInv == SupplyInit => PoolInv
BY PoolAssumption DEF SupplyInit, EmptyPool, PoolInv, Pools, PoolIsOneAnswer

\* A refresh installs what one answer lists, and nothing else touches the list.
LEMMA NextPoolInv == PoolInv /\ [SupplyNext]_supplyVars => PoolInv'
<1> SUFFICES ASSUME PoolInv, [SupplyNext]_supplyVars PROVE PoolInv'
  OBVIOUS
<1>1. ASSUME UNCHANGED pool
      PROVE  PoolInv'
  BY <1>1 DEF PoolInv, PoolIsOneAnswer
<1>2. CASE NextWithCycle
  <2>1. pool' = [pool EXCEPT !.next = (@ + 1) % CounterRange]
    BY <1>2 DEF NextWithCycle, Advanced
  <2>2. pool.next + 1 \in Nat /\ CounterRange \in Nat \ {0}
    BY PoolAssumption DEF PoolInv, Pools
  <2>3. (pool.next + 1) % CounterRange \in 0..CounterRange - 1
    BY <2>2
  <2>4. pool' \in Pools /\ pool'.proxies = pool.proxies
    BY <2>1, <2>3 DEF PoolInv, Pools
  <2> QED
    BY <2>4 DEF PoolInv, PoolIsOneAnswer
<1>3. ASSUME NEW answer \in Answers, RefreshFrom(answer)
      PROVE  PoolInv'
  <2> DEFINE list == ParseProxyList(answer.items)
  <2>1. CASE UNCHANGED pool
    BY <1>1, <2>1
  <2>2. CASE /\ Fetch(answer) = [err |-> "nil", proxies |-> list]
             /\ list \in Seq(Proxies)
             /\ NamesOnce(list, answer.items)
             /\ pool' = [proxies |-> list, next |-> 0]
    <3> HIDE DEF list
    <3>1. pool' \in Pools /\ pool'.proxies = list
      BY <2>2, PoolAssumption DEF Pools
    <3>2. IsList(answer)
      <4>1. Fetch(answer).err = "nil"
        BY <2>2
      <4> QED
        BY <4>1, OnlyListsAreFetched
    <3> QED
      BY <2>2, <3>1, <3>2 DEF PoolInv, PoolIsOneAnswer
  <2> QED
    BY <1>3, <2>1, <2>2, RefreshFromPool
<1> QED
  BY <1>1, <1>2, <1>3 DEF SupplyNext, NextWithCycleEmpty, supplyVars

\* The pool holds what one answer lists, whole and in its order, and never a rate limit,
\* an error page or a body that was cut, whatever the API answers and however refreshes
\* and selections interleave (fetcher.go:67-97, 158-203).
THEOREM SupplyPoolIsOneAnswer == SupplySpec => []PoolIsOneAnswer
<1>1. PoolInv => PoolIsOneAnswer
  BY DEF PoolInv
<1> QED
  BY <1>1, InitPoolInv, NextPoolInv, PTL DEF SupplySpec

\* Each proxy of the pool is in one place.
LEMMA PoolInjective ==
  ASSUME PoolInv
  PROVE  /\ pool.proxies \in Seq(Proxies)
         /\ PoolLen(pool) \in Nat
         /\ DOMAIN pool.proxies = 1..PoolLen(pool)
         /\ pool.next \in Nat
         /\ \A k, l \in 1..PoolLen(pool) : pool.proxies[k] = pool.proxies[l] => k = l
         /\ PoolLen(pool) = 0 <=> pool.proxies = <<>>
<1>1. /\ pool.proxies \in Seq(Proxies) /\ pool.next \in Nat
      /\ PoolLen(pool) \in Nat /\ DOMAIN pool.proxies = 1..PoolLen(pool)
      /\ PoolLen(pool) = 0 <=> pool.proxies = <<>>
  BY PoolAssumption DEF PoolInv, Pools, PoolLen
<1>2. ASSUME NEW k \in 1..PoolLen(pool), NEW l \in 1..PoolLen(pool),
             pool.proxies[k] = pool.proxies[l]
      PROVE  k = l
  <2>1. PICK answer \in Answers : NamesOnce(pool.proxies, answer.items)
    BY <1>1, <1>2 DEF PoolInv, PoolIsOneAnswer
  <2> QED
    BY <1>1, <1>2, <2>1, NamesOnceInjective
<1> QED
  BY <1>1, <1>2

\* The counter does not wrap in the middle of a pass.
Unbroken == KeepsPass(pool)

\* The range of the counter is a multiple of the length of every list.
LengthsDivide ==
  \A list \in Seq(Proxies) :
    list # <<>> /\ IsInjective(list) => CounterRange % Len(list) = 0

\* With such a range no pass is ever broken: what the theorems below assume of a run
\* is then true of every run, as it is of the runs TLC checks (pool.go:48-52).
THEOREM SupplyNeverBreaksPass ==
  ASSUME LengthsDivide
  PROVE  SupplySpec => []Unbroken
<1>1. PoolInv => Unbroken
  <2> SUFFICES ASSUME PoolInv, PoolLen(pool) > 0
               PROVE  CounterRange % PoolLen(pool) = 0
    BY DEF Unbroken, KeepsPass
  <2>1. pool.proxies \in Seq(Proxies) /\ pool.proxies # <<>> /\ IsInjective(pool.proxies)
    BY PoolInjective DEF IsInjective
  <2> QED
    BY <2>1 DEF LengthsDivide, PoolLen
<1> QED
  BY <1>1, InitPoolInv, NextPoolInv, PTL DEF SupplySpec

\* What a selection hands out, and where the rotation is then.
LEMMA Rotation ==
  ASSUME PoolInv, Unbroken, NextWithCycle
  PROVE  LET L == PoolLen(pool)
             r == pool.next % L
         IN  /\ L \in Nat \ {0} /\ r \in 0..L - 1
             /\ pool'.proxies = pool.proxies
             /\ pool'.next % L = IF r = L - 1 THEN 0 ELSE r + 1
             /\ Picked(pool) = pool.proxies[r + 1]
             /\ last' = [proxy |-> Picked(pool), cycle |-> r = L - 1, err |-> "nil"]
<1>1. pool \in Pools /\ PoolLen(pool) > 0 /\ pool' = Advanced(pool)
  BY DEF PoolInv, NextWithCycle
<1> DEFINE L == PoolLen(pool)
           r == pool.next % L
<1>2. /\ L \in Nat \ {0} /\ r \in 0..L - 1
      /\ Advanced(pool).proxies = pool.proxies
      /\ Advanced(pool).next % L = IF r = L - 1 THEN 0 ELSE r + 1
      /\ Picked(pool) = pool.proxies[r + 1]
      /\ CycleComplete(pool) <=> r = L - 1
  BY <1>1, AdvancedMoves DEF Unbroken
<1> HIDE DEF L, r
<1>3. last' = [proxy |-> Picked(pool), cycle |-> r = L - 1, err |-> "nil"]
  BY <1>2 DEF NextWithCycle, CycleComplete
<1> QED
  BY <1>1, <1>2, <1>3 DEF L, r

\* Some places of the rotation: what the pass that is under way has handed out.
HandedOut == {pool.proxies[i] : i \in 1..pool.next % PoolLen(pool)}

\* seen is the part of the list before the counter, or a whole pass, or nothing yet.
SeenInv ==
  IF PoolLen(pool) = 0 THEN seen = {}
  ELSE IF pool.next % PoolLen(pool) = 0 THEN seen \in {{}, Current}
  ELSE seen = HandedOut

PassInv == PoolInv /\ SeenInv

\* A selection, told from what the pass has handed out.
LEMMA SelectionKeepsPass ==
  ASSUME PassInv, Unbroken, NextWithCycle
  PROVE  /\ SeenInv'
         /\ last'.proxy \in seen => seen = Current
         /\ last'.cycle <=> seen' = Current
<1> DEFINE L == PoolLen(pool)
           r == pool.next % L
           list == pool.proxies
<1>1. /\ L \in Nat \ {0} /\ r \in 0..L - 1
      /\ pool'.proxies = list
      /\ pool'.next % L = IF r = L - 1 THEN 0 ELSE r + 1
      /\ Picked(pool) = list[r + 1]
      /\ last' = [proxy |-> list[r + 1], cycle |-> r = L - 1, err |-> "nil"]
  BY Rotation DEF PassInv
<1>2. /\ DOMAIN list = 1..L
      /\ \A k, l \in 1..L : list[k] = list[l] => k = l
  BY PoolInjective DEF PassInv
<1>3. seen' = IF seen = Current THEN {list[r + 1]} ELSE seen \cup {list[r + 1]}
  BY <1>1 DEF NextWithCycle
<1>4. Current = {list[i] : i \in 1..L} /\ Current' = Current /\ PoolLen(pool)' = L
  BY <1>1, <1>2 DEF Current, ToSet, PoolLen
<1>5. IF r = 0 THEN seen \in {{}, Current} ELSE seen = {list[i] : i \in 1..r}
  BY <1>1 DEF PassInv, SeenInv, HandedOut
<1>6. SeenInv' <=> IF pool'.next % L = 0 THEN seen' \in {{}, Current}
                   ELSE seen' = {list[i] : i \in 1..pool'.next % L}
  BY <1>1, <1>4 DEF SeenInv, HandedOut
<1>7. last'.proxy = list[r + 1] /\ (last'.cycle <=> r = L - 1)
  BY <1>1
<1> DEFINE nr == pool'.next % L
<1>8. nr = IF r = L - 1 THEN 0 ELSE r + 1
  BY <1>1
<1> HIDE DEF nr, r, L, list
<1>9. r # 0 => seen # Current /\ list[r + 1] \notin seen
  BY <1>1, <1>2, <1>4, <1>5
<1>10. seen' = {list[i] : i \in 1..r + 1}
  <2>1. {list[i] : i \in 1..r + 1} = {list[i] : i \in 1..r} \cup {list[r + 1]}
    BY <1>1
  <2>2. CASE r # 0
    BY <1>3, <1>5, <1>9, <2>1, <2>2
  <2>3. CASE r = 0
    <3>1. {list[i] : i \in 1..r} = {}
      BY <2>3
    <3> QED
      BY <1>3, <1>5, <2>1, <2>3, <3>1
  <2> QED
    BY <2>2, <2>3
<1>11. seen' = Current <=> r = L - 1
  <2>1. CASE r = L - 1
    BY <1>1, <1>4, <1>10, <2>1
  <2>2. CASE r # L - 1
    <3>1. L \in 1..L /\ ~(\E i \in 1..r + 1 : list[i] = list[L])
      BY <1>1, <1>2, <2>2
    <3> QED
      BY <1>4, <1>10, <2>2, <3>1
  <2> QED
    BY <2>1, <2>2
<1>12. list[r + 1] \in seen => seen = Current
  <2>1. CASE r = 0
    BY <1>5, <2>1
  <2> QED
    BY <1>9, <2>1
<1>13. SeenInv'
  <2>1. CASE r = L - 1
    BY <1>1, <1>6, <1>8, <1>11, <2>1 DEF nr
  <2>2. CASE r # L - 1
    BY <1>1, <1>6, <1>8, <1>10, <2>2 DEF nr
  <2> QED
    BY <2>1, <2>2
<1> QED
  BY <1>7, <1>11, <1>12, <1>13

\* A refresh starts a pass, and a selection takes it one place on.
LEMMA NextSeenInv == PassInv /\ Unbroken /\ [SupplyNext]_supplyVars => SeenInv'
<1> SUFFICES ASSUME PassInv, Unbroken, [SupplyNext]_supplyVars PROVE SeenInv'
  OBVIOUS
<1>1. ASSUME UNCHANGED <<pool, seen>>
      PROVE  SeenInv'
  BY <1>1 DEF PassInv, SeenInv, HandedOut, PoolLen, Current
<1>2. CASE NextWithCycle
  BY <1>2, SelectionKeepsPass
<1>3. ASSUME NEW answer \in Answers, RefreshFrom(answer)
      PROVE  SeenInv'
  <2> DEFINE list == ParseProxyList(answer.items)
  <2>1. CASE list \in Seq(Proxies) /\ list # <<>> /\ pool' = [proxies |-> list, next |-> 0] /\ seen' = {}
    <3> HIDE DEF list
    <3>1. PoolLen(pool)' \in Nat \ {0} /\ pool'.next = 0
      BY <2>1 DEF PoolLen
    <3>2. pool'.next % PoolLen(pool)' = 0
      <4>1. 0 = PoolLen(pool)' * 0 + 0 /\ 0 \in 0..PoolLen(pool)' - 1
        BY <3>1
      <4> QED
        BY <3>1, <4>1, ModUnique
    <3> QED
      BY <2>1, <3>1, <3>2 DEF SeenInv
  <2> QED
    BY <1>1, <1>3, <2>1, RefreshFromPool
<1> QED
  BY <1>1, <1>2, <1>3 DEF SupplyNext, NextWithCycleEmpty, supplyVars

\* No pass has begun at first.
LEMMA InitPassInv == SupplyInit => PassInv
<1> SUFFICES ASSUME SupplyInit PROVE PassInv
  OBVIOUS
<1>1. PoolLen(pool) = 0 /\ seen = {}
  BY DEF SupplyInit, EmptyPool, PoolLen
<1> QED
  BY <1>1, InitPoolInv DEF PassInv, SeenInv

\* A pass hands out every proxy of the list once before one comes again, and the flag
\* of NextWithCycle is raised by the call that ends it and by no other (pool.go:48-52),
\* while the counter does not wrap in the middle of a pass.
THEOREM SupplyPassesAreExact == SupplySpec /\ []Unbroken => PassesAreExact
<1> DEFINE Exact == Selected => /\ last'.proxy \in seen => seen = Current
                                /\ last'.cycle <=> seen' = Current
<1>1. PassInv /\ Unbroken /\ [SupplyNext]_supplyVars => [Exact]_<<pool, last, seen>>
  <2> SUFFICES ASSUME PassInv, Unbroken, SupplyNext, Selected, ~UNCHANGED <<pool, last, seen>>
               PROVE  /\ last'.proxy \in seen => seen = Current
                      /\ last'.cycle <=> seen' = Current
    BY DEF supplyVars
  <2>1. ~NextWithCycleEmpty
    BY DEF NextWithCycleEmpty, Selected, NoResult
  <2>2. ASSUME NEW answer \in Answers, RefreshFrom(answer)
        PROVE  FALSE
    BY <2>2, RefreshFromPool DEF Selected, NoResult
  <2>3. NextWithCycle
    BY <2>1, <2>2 DEF SupplyNext
  <2> QED
    BY <2>3, SelectionKeepsPass
<1>2. PassInv /\ Unbroken /\ [SupplyNext]_supplyVars => PassInv'
  BY NextPoolInv, NextSeenInv DEF PassInv
<1> QED
  BY <1>1, <1>2, InitPassInv, PTL DEF SupplySpec, PassesAreExact

\* The turn of a list and a counter.
TurnOf(list, next) == [i \in DOMAIN list |-> list[((next + i - 1) % Len(list)) + 1]]

\* A turn is as long as its list.
LEMMA TurnForm ==
  ASSUME NEW list \in Seq(Proxies), NEW next \in Nat
  PROVE  /\ TurnOf(list, next) = [i \in 1..Len(list) |-> list[((next + i - 1) % Len(list)) + 1]]
         /\ TurnOf(list, next) \in Seq(Proxies) /\ Len(TurnOf(list, next)) = Len(list)
<1> DEFINE L == Len(list)
           turn == TurnOf(list, next)
<1>1. L \in Nat /\ DOMAIN list = 1..L /\ list \in [1..L -> Proxies]
  OBVIOUS
<1> HIDE DEF L
<1>2. ASSUME NEW i \in 1..L
      PROVE  list[((next + i - 1) % L) + 1] \in Proxies
  <2>1. L \in Nat \ {0} /\ next + i - 1 \in Int
    BY <1>1
  <2>2. (next + i - 1) % L \in 0..L - 1
    BY <2>1, ModRange
  <2>3. ((next + i - 1) % L) + 1 \in 1..L
    BY <2>1, <2>2
  <2> QED
    BY <1>1, <2>3
<1>3. turn = [i \in 1..L |-> list[((next + i - 1) % L) + 1]]
  BY <1>1 DEF L, TurnOf
<1> HIDE DEF turn
<1>4. turn \in [1..L -> Proxies]
  BY <1>2, <1>3
<1>5. turn \in Seq(Proxies) /\ Len(turn) = L
  BY <1>1, <1>4
<1> QED
  BY <1>3, <1>5 DEF L, turn

\* A selection hands out the front of the turn, which goes to its end.
LEMMA SelectionTurns ==
  ASSUME PoolInv, Unbroken, NextWithCycle, PoolInv'
  PROVE  /\ Turn # <<>>
         /\ Turn' = Append(Tail(Turn), Head(Turn))
         /\ last'.proxy = Head(Turn) /\ last'.err = "nil"
<1> DEFINE L == PoolLen(pool)
           list == pool.proxies
           front == Turn
           after == Turn'
<1>1. /\ L \in Nat \ {0}
      /\ pool'.proxies = list
      /\ last' = [proxy |-> list[(pool.next % L) + 1], cycle |-> (pool.next % L) = L - 1, err |-> "nil"]
  BY Rotation
<1>2. /\ pool.next \in 0..CounterRange - 1 /\ CounterRange \in Nat \ {0}
      /\ pool'.next = (pool.next + 1) % CounterRange
  BY PoolAssumption DEF PoolInv, Pools, NextWithCycle, Advanced
<1>3. /\ front = [i \in 1..L |-> list[((pool.next + i - 1) % L) + 1]]
      /\ front \in Seq(Proxies) /\ Len(front) = L
  <2>1. list \in Seq(Proxies) /\ pool.next \in Nat /\ Len(list) = L
    BY PoolInjective DEF PoolLen
  <2>2. front = TurnOf(list, pool.next)
    BY DEF Turn, TurnOf, PoolLen
  <2> HIDE DEF list, front, L
  <2> QED
    BY <2>1, <2>2, TurnForm
<1>4. /\ after = [i \in 1..L |-> list[((pool'.next + i - 1) % L) + 1]]
      /\ after \in Seq(Proxies) /\ Len(after) = L
  <2>1. list \in Seq(Proxies) /\ pool'.next \in Nat /\ Len(list) = L
    BY <1>1, PoolInjective, PoolAssumption DEF PoolLen, PoolInv, Pools
  <2>2. after = TurnOf(list, pool'.next)
    BY <1>1 DEF Turn, TurnOf, PoolLen
  <2> HIDE DEF list, after, L
  <2> QED
    BY <2>1, <2>2, TurnForm
<1>0. pool.next = CounterRange - 1 => CounterRange % L = 0
  BY <1>1 DEF Unbroken, KeepsPass
<1> HIDE DEF L, list, front, after
<1>5. ASSUME NEW i \in 1..L
      PROVE  (pool'.next + i - 1) % L = (pool.next + i) % L
  <2>1. CASE pool.next = CounterRange - 1
    <3>1. pool'.next = 0
      <4>1. CounterRange = CounterRange * 1 + 0 /\ 0 \in 0..CounterRange - 1
        BY <1>2
      <4>2. CounterRange % CounterRange = 0
        BY <1>2, <4>1, ModUnique
      <4> QED
        BY <1>2, <2>1, <4>2
    <3> DEFINE d == CounterRange \div L
    <3>2. CounterRange = (L * d) + 0 /\ d \in Int
      BY <1>0, <1>1, <1>2, <2>1, ModRange
    <3> HIDE DEF d
    <3>3. pool.next + i = (i - 1) + L * d
      BY <1>1, <1>2, <2>1, <3>2
    <3>4. ((i - 1) + L * d) % L = (i - 1) % L
      <4>1. i - 1 \in Int /\ L \in Nat \ {0} /\ d \in Int
        BY <1>1, <3>2
      <4> QED
        BY <4>1, ModPasses
    <3> QED
      BY <3>1, <3>3, <3>4
  <2>2. CASE pool.next # CounterRange - 1
    <3>1. pool.next + 1 = CounterRange * 0 + (pool.next + 1) /\ pool.next + 1 \in 0..CounterRange - 1
      BY <1>2, <2>2
    <3>2. pool'.next = pool.next + 1
      BY <1>2, <3>1, ModUnique
    <3>3. pool'.next + i - 1 = pool.next + i
      BY <1>1, <1>2, <3>2
    <3> QED
      BY <3>3
  <2> QED
    BY <2>1, <2>2
<1>6. /\ front # <<>> /\ Head(front) = front[1] /\ Head(front) \in Proxies
      /\ Tail(front) \in Seq(Proxies) /\ Len(Tail(front)) = L - 1
      /\ \A i \in 1..L - 1 : Tail(front)[i] = front[i + 1]
  <2>1. front \in Seq(Proxies) /\ Len(front) = L /\ L \in Nat \ {0}
    BY <1>1, <1>3
  <2> QED
    BY <2>1
<1>7. front[1] = list[(pool.next % L) + 1]
  <2>1. pool.next + 1 - 1 = pool.next /\ 1 \in 1..L
    BY <1>1, <1>2
  <2> QED
    BY <1>3, <2>1
<1> DEFINE turned == Append(Tail(front), Head(front))
<1>8. turned \in Seq(Proxies) /\ Len(turned) = L
  <2>1. L \in Nat \ {0}
    BY <1>1
  <2> QED
    BY <1>6, <2>1
<1>9. ASSUME NEW i \in 1..L
      PROVE  turned[i] = after[i]
  <2>1. after[i] = list[((pool.next + i) % L) + 1]
    BY <1>4, <1>5
  <2>2. CASE i < L
    <3>1. turned[i] = front[i + 1] /\ i + 1 \in 1..L
      <4>1. L \in Nat \ {0} /\ i \in 1..L - 1
        BY <1>1, <2>2
      <4> QED
        BY <1>6, <4>1
    <3>2. pool.next + (i + 1) - 1 = pool.next + i
      BY <1>1, <1>2
    <3> QED
      BY <1>3, <2>1, <3>1, <3>2
  <2>3. CASE i = L
    <3>0. L \in Nat \ {0} /\ pool.next \in Int
      BY <1>1, <1>2
    <3>1. turned[i] = front[1]
      BY <1>6, <2>3, <3>0
    <3> DEFINE d == 1
    <3>3. L * d = L /\ d \in Int
      BY <3>0
    <3> HIDE DEF d
    <3>2. (pool.next + L * d) % L = pool.next % L
      BY <3>0, <3>3, ModPasses
    <3> QED
      BY <1>7, <2>1, <2>3, <3>1, <3>2, <3>3
  <2> HIDE DEF turned
  <2>4. L \in Nat
    BY <1>1
  <2> QED
    BY <2>2, <2>3, <2>4
<1>10. turned = after
  <2> HIDE DEF turned
  <2> QED
    BY <1>4, <1>8, <1>9
<1>11. last'.proxy = Head(front) /\ last'.err = "nil"
  BY <1>1, <1>6, <1>7
<1> QED
  BY <1>6, <1>10, <1>11 DEF front, after

\* Installing a list makes it the turn.
LEMMA InstalledTurn ==
  ASSUME PoolInv', NEW list, pool' = [proxies |-> list, next |-> 0]
  PROVE  Turn' = list
<1> DEFINE L == Len(list)
<1>1. /\ L \in Nat /\ Turn' = [i \in 1..L |-> list[((0 + i - 1) % L) + 1]]
      /\ list \in Seq(Proxies) /\ DOMAIN list = 1..L
  <2>1. pool'.proxies = list /\ pool'.next = 0 /\ list \in Seq(Proxies)
    BY DEF PoolInv, Pools
  <2> QED
    BY <2>1 DEF Turn, PoolLen
<1> HIDE DEF L
<1>2. ASSUME NEW i \in 1..L
      PROVE  list[((0 + i - 1) % L) + 1] = list[i]
  <2>1. i - 1 = L * 0 + (i - 1) /\ i - 1 \in 0..L - 1 /\ L \in Nat \ {0}
    BY <1>1
  <2>2. (i - 1) % L = i - 1
    BY <2>1, ModUnique
  <2>3. 0 + i - 1 = i - 1 /\ (i - 1) + 1 = i
    BY <1>1
  <2> QED
    BY <2>2, <2>3
<1>3. Turn' = [i \in 1..L |-> list[i]]
  BY <1>1, <1>2
<1>4. list = [i \in 1..L |-> list[i]]
  BY <1>1
<1> QED
  BY <1>3, <1>4

\* Every step of the composition is one of the queue, or leaves the queue alone.
LEMMA SupplyStepIsRoundRobinStep ==
  PoolInv /\ PoolInv' /\ Unbroken /\ [SupplyNext]_supplyVars
    => [RR!Next]_<<Turn, <<last.proxy, last.err>>>>
<1> SUFFICES ASSUME PoolInv, PoolInv', Unbroken, [SupplyNext]_supplyVars
             PROVE  [RR!Next]_<<Turn, <<last.proxy, last.err>>>>
  OBVIOUS
<1>1. ASSUME UNCHANGED <<pool, last>>
      PROVE  UNCHANGED <<Turn, <<last.proxy, last.err>>>>
  BY <1>1 DEF Turn, PoolLen
<1>2. CASE NextWithCycle
  <2>1. RR!HandOut
    BY <1>2, SelectionTurns DEF RR!HandOut
  <2> QED
    BY <2>1 DEF RR!Next
<1>3. CASE NextWithCycleEmpty
  <2>1. pool' = pool /\ last'.proxy = NilProxy /\ last'.err = "empty_pool"
    BY <1>3 DEF NextWithCycleEmpty, NoResult
  <2>2. Turn = <<>>
    <3>1. DOMAIN pool.proxies = {}
      BY <1>3, PoolInjective DEF NextWithCycleEmpty
    <3> QED
      BY <3>1 DEF Turn
  <2>3. Turn' = Turn
    BY <2>1 DEF Turn, PoolLen
  <2>4. RR!Refuse
    BY <2>1, <2>2, <2>3 DEF RR!Refuse
  <2> QED
    BY <2>4 DEF RR!Next
<1>4. ASSUME NEW answer \in Answers, RefreshFrom(answer)
      PROVE  [RR!Next]_<<Turn, <<last.proxy, last.err>>>>
  <2> DEFINE list == ParseProxyList(answer.items)
  <2>1. CASE /\ Fetch(answer) = [err |-> "nil", proxies |-> list]
             /\ list # <<>>
             /\ pool' = [proxies |-> list, next |-> 0]
             /\ last' = NoResult
    <3> HIDE DEF list
    <3>1. Turn' = list
      BY <2>1, InstalledTurn
    <3>2. list \in FetchedLists
      BY <2>1 DEF FetchedLists
    <3>3. RR!Install(list)
      BY <2>1, <3>1 DEF RR!Install, NoResult
    <3> QED
      BY <3>2, <3>3 DEF RR!Next
  <2> QED
    BY <1>1, <1>4, <2>1, RefreshFromPool
<1> QED
  BY <1>1, <1>2, <1>3, <1>4 DEF SupplyNext, supplyVars

\* Callers see a queue: list and counter implement RoundRobin, and a refresh that fails
\* leaves every later turn as it was (pool.go:40-79, main.go:177-181), while the counter
\* does not wrap in the middle of a pass.
THEOREM SupplyImplementsRoundRobin == SupplySpec /\ []Unbroken => ImplementsRoundRobin
<1>1. SupplyInit => RR!Init
  <2> SUFFICES ASSUME SupplyInit PROVE RR!Init
    OBVIOUS
  <2>1. pool = EmptyPool /\ last = NoResult
    BY DEF SupplyInit
  <2>2. Turn = <<>>
    <3>1. DOMAIN pool.proxies = {}
      BY <2>1 DEF EmptyPool
    <3> QED
      BY <3>1 DEF Turn
  <2> QED
    BY <2>1, <2>2 DEF RR!Init, NoResult
<1> QED
  BY <1>1, InitPoolInv, NextPoolInv, SupplyStepIsRoundRobinStep, PTL
  DEF SupplySpec, ImplementsRoundRobin, RR!Spec

=============================================================================
