------------------------------ MODULE DataLemmas ------------------------------
(***************************************************************************)
(* What the methods of the refresher's two data types return:              *)
(* refreshSchedule for every configured interval and every width of        *)
(* time.Duration, and Pool for every list and every width of its counter.  *)
(***************************************************************************)
EXTENDS RefreshSchedule, Pool, TLAPS

(* The schedule. *)

\* The part of a schedule's state that holds whatever the arithmetic does.
WellFormed(s) ==
  /\ s \in Schedules
  /\ \E configured \in Configured : s.base = NewSchedule(configured).base
  /\ MinimumInterval <= s.current
  /\ s.current <= MaximumBackoff(s)

\* Doubling a delay that is at most the maximum backoff stays in range.
NoOverflow == \A configured \in Configured : 2 * configured <= MaxDuration

\* A delay between the base and the maximum, and a success count only above it.
Backed(s) ==
  /\ s.base <= s.current
  /\ s.successes > 0 => s.base < s.current

\* newRefreshSchedule returns a schedule at its base, of at least 20 seconds.
LEMMA NewScheduleWellFormed ==
  ASSUME NEW configured \in Configured
  PROVE  /\ WellFormed(NewSchedule(configured))
         /\ Backed(NewSchedule(configured))
BY ScheduleAssumption DEF WellFormed, Backed, NewSchedule, Schedules, MaximumBackoff

\* Where a base comes from: it is positive and fits in a Duration twice, if the
\* configured intervals do.
LEMMA BaseInRange ==
  ASSUME NEW s, WellFormed(s)
  PROVE  /\ s.base \in 1..MaxDuration
         /\ MinimumInterval <= s.base
         /\ MaximumBackoff(s) \in 1..MaxDuration
         /\ NoOverflow => 2 * MaximumBackoff(s) <= MaxDuration
<1>1. PICK configured \in Configured : s.base = NewSchedule(configured).base
  BY DEF WellFormed
<1>2. configured \in 1..MaxDuration
  BY ScheduleAssumption
<1>3. s.base = IF configured < MinimumInterval THEN MinimumInterval ELSE configured
  BY <1>1 DEF NewSchedule
<1>4. NoOverflow => 2 * configured <= MaxDuration
  BY DEF NoOverflow
<1> QED
  BY <1>2, <1>3, <1>4, ScheduleAssumption DEF MaximumBackoff

\* The backed-off delay lies between the minimum and the maximum backoff, even
\* when the doubling overflows.
LEMMA BackoffBounds ==
  ASSUME NEW s, WellFormed(s)
  PROVE  /\ Backoff(s) \in 1..MaxDuration
         /\ MinimumBackoff <= Backoff(s)
         /\ Backoff(s) <= MaximumBackoff(s)
         /\ NoOverflow => s.current <= Backoff(s)
<1>1. s.current \in 1..MaxDuration /\ s.current <= MaximumBackoff(s)
  BY DEF WellFormed, Schedules
<1>2. Doubled(s.current) \in Int
  BY <1>1, ScheduleAssumption DEF Doubled
<1>3. NoOverflow => s.current <= Doubled(s.current)
  BY <1>1, BaseInRange, ScheduleAssumption DEF Doubled
<1>4. MinimumBackoff <= MaximumBackoff(s) /\ MaximumBackoff(s) \in 1..MaxDuration
  BY BaseInRange, ScheduleAssumption DEF MaximumBackoff
<1> HIDE DEF MaximumBackoff, Doubled
<1> QED
  BY <1>1, <1>2, <1>3, <1>4, ScheduleAssumption DEF Backoff

\* rateLimited keeps the base, and leaves a delay of at least 40 seconds.
LEMMA RateLimitedKeeps ==
  ASSUME NEW s, WellFormed(s)
  PROVE  /\ WellFormed(RateLimited(s))
         /\ MinimumBackoff <= RateLimited(s).current
         /\ RateLimited(s).base = s.base
         /\ NoOverflow => s.current <= RateLimited(s).current
<1>1. s \in Schedules
  BY DEF WellFormed
<1>2. /\ RateLimited(s).base = s.base
      /\ RateLimited(s).current = Backoff(s)
      /\ RateLimited(s).successes = 0
      /\ RateLimited(s) = [base |-> s.base, current |-> Backoff(s), successes |-> 0]
  BY <1>1 DEF RateLimited, Schedules
<1>3. MaximumBackoff(RateLimited(s)) = MaximumBackoff(s)
  BY <1>2 DEF MaximumBackoff
<1>4. RateLimited(s) \in Schedules
  BY <1>1, <1>2, BackoffBounds DEF Schedules
<1>5. MinimumInterval <= Backoff(s)
  BY BackoffBounds, ScheduleAssumption
<1> QED
  BY <1>2, <1>3, <1>4, <1>5, BackoffBounds DEF WellFormed

\* succeeded never raises the delay and never leaves it below the base it was above;
\* it lowers it only after two earlier successes were counted.
LEMMA SucceededKeeps ==
  ASSUME NEW s, WellFormed(s)
  PROVE  /\ WellFormed(Succeeded(s))
         /\ Succeeded(s).base = s.base
         /\ Succeeded(s).current <= s.current
         /\ Succeeded(s).current < s.current => s.successes = 2
         /\ Backed(s) => Backed(Succeeded(s))
<1>1. /\ s \in Schedules /\ s.base \in 1..MaxDuration /\ s.current \in 1..MaxDuration
      /\ s.successes \in 0..2
  BY DEF WellFormed, Schedules
<1>2. MinimumInterval <= s.base /\ MinimumInterval <= s.current /\ s.current <= MaximumBackoff(s)
  BY BaseInRange DEF WellFormed
<1>3. CASE s.current <= s.base
  BY <1>1, <1>3 DEF Succeeded
<1>4. CASE s.base < s.current /\ s.successes < 2
  <2>1. Succeeded(s) = [base |-> s.base, current |-> s.current, successes |-> s.successes + 1]
    BY <1>1, <1>4 DEF Succeeded, Schedules
  <2>2. MaximumBackoff(Succeeded(s)) = MaximumBackoff(s)
    BY <2>1 DEF MaximumBackoff
  <2>3. Succeeded(s) \in Schedules
    BY <1>1, <1>4, <2>1 DEF Schedules
  <2> QED
    BY <1>1, <1>4, <2>1, <2>2, <2>3 DEF WellFormed, Backed
<1>5. CASE s.base < s.current /\ s.successes = 2
  <2> DEFINE half  == s.current \div 2
             lower == IF half < s.base THEN s.base ELSE half
  <2>1. half \in Int /\ half <= s.current
    BY <1>1
  <2> HIDE DEF half
  <2>2. lower \in 1..MaxDuration /\ s.base <= lower /\ lower <= s.current
    BY <1>1, <1>5, <2>1, ScheduleAssumption
  <2>3. Succeeded(s) = [base |-> s.base, current |-> lower, successes |-> 0]
    BY <1>1, <1>5 DEF Succeeded, half
  <2> HIDE DEF lower
  <2>4. MaximumBackoff(Succeeded(s)) = MaximumBackoff(s) /\ MaximumBackoff(s) \in Int
    BY <2>3, BaseInRange DEF MaximumBackoff
  <2>5. Succeeded(s) \in Schedules
    BY <1>1, <2>2, <2>3 DEF Schedules
  <2>6. MinimumInterval <= lower /\ lower <= MaximumBackoff(s)
    BY <1>1, <1>2, <2>2, <2>4, ScheduleAssumption
  <2> QED
    BY <1>1, <1>5, <2>2, <2>3, <2>4, <2>5, <2>6 DEF WellFormed, Backed
<1> QED
  BY <1>1, <1>3, <1>4, <1>5

\* One refresh, whatever its result, keeps the schedule well formed and its base.
LEMMA AfterRefreshKeeps ==
  ASSUME NEW s, WellFormed(s), NEW refreshErr
  PROVE  /\ WellFormed(AfterRefresh(s, refreshErr))
         /\ AfterRefresh(s, refreshErr).base = s.base
         /\ refreshErr = "rate_limited" =>
              MinimumBackoff <= AfterRefresh(s, refreshErr).current
         /\ NoOverflow /\ Backed(s) => Backed(AfterRefresh(s, refreshErr))
<1>1. CASE refreshErr = "rate_limited"
  <2>1. AfterRefresh(s, refreshErr) = RateLimited(s)
    BY <1>1 DEF AfterRefresh
  <2>2. RateLimited(s).successes = 0
    BY DEF RateLimited, WellFormed, Schedules
  <2>3. s.base \in Int /\ s.current \in Int /\ RateLimited(s).current \in Int
    BY RateLimitedKeeps DEF WellFormed, Schedules
  <2> QED
    BY <2>1, <2>2, <2>3, RateLimitedKeeps DEF Backed
<1>2. CASE refreshErr = "nil"
  <2>1. AfterRefresh(s, refreshErr) = Succeeded(s)
    BY <1>2 DEF AfterRefresh
  <2> QED
    BY <1>2, <2>1, SucceededKeeps
<1>3. CASE refreshErr \notin {"rate_limited", "nil"}
  <2>1. AfterRefresh(s, refreshErr) = s
    BY <1>3 DEF AfterRefresh
  <2> QED
    BY <1>3, <2>1
<1> QED
  BY <1>1, <1>2, <1>3

-----------------------------------------------------------------------------
(* Remainders. *)

\* A number is so many whole passes and a rest.
LEMMA ModRange ==
  ASSUME NEW a \in Int, NEW L \in Nat \ {0}
  PROVE  a % L \in 0..L - 1 /\ a \div L \in Int /\ a = (L * (a \div L)) + (a % L)
OBVIOUS

\* There is one way to write it so.
LEMMA ModUnique ==
  ASSUME NEW a \in Int, NEW L \in Nat \ {0}, NEW q \in Int, NEW r \in 0..L - 1, a = (L * q) + r
  PROVE  a % L = r
<1> DEFINE m == a % L
           d == a \div L
<1>1. m \in 0..L - 1 /\ d \in Int /\ a = (L * d) + m
  BY ModRange
<1> HIDE DEF m, d
<1>2. L * (q - d) = m - r
  BY <1>1
<1>3. q - d = 0
  <2>1. CASE q - d >= 1
    <3>1. L * (q - d) >= L
      BY <2>1, <1>1
    <3> QED
      BY <3>1, <1>1, <1>2
  <2>2. CASE q - d <= -1
    <3>1. L * (q - d) <= -L
      BY <2>2, <1>1
    <3> QED
      BY <3>1, <1>1, <1>2
  <2> QED
    BY <2>1, <2>2, <1>1
<1>4. L * (q - d) = 0
  BY <1>3
<1> QED
  BY <1>2, <1>4, <1>1 DEF m

\* The next number is one place on, or at the start of a pass.
LEMMA ModStep ==
  ASSUME NEW a \in Nat, NEW L \in Nat \ {0}
  PROVE  (a + 1) % L = IF a % L = L - 1 THEN 0 ELSE (a % L) + 1
<1> DEFINE m == a % L
           d == a \div L
<1>1. m \in 0..L - 1 /\ d \in Int /\ a = (L * d) + m
  BY ModRange
<1> HIDE DEF m, d
<1>2. CASE m = L - 1
  <2>1. a + 1 = (L * (d + 1)) + 0
    BY <1>1, <1>2
  <2>2. d + 1 \in Int /\ 0 \in 0..L - 1 /\ a + 1 \in Int
    BY <1>1
  <2>3. (a + 1) % L = 0
    BY <2>1, <2>2, ModUnique
  <2> QED
    BY <1>2, <2>3 DEF m
<1>3. CASE m # L - 1
  <2>1. a + 1 = (L * d) + (m + 1)
    BY <1>1
  <2>2. m + 1 \in 0..L - 1
    BY <1>1, <1>3
  <2>3. (a + 1) % L = m + 1
    BY <1>1, <2>1, <2>2, ModUnique
  <2> QED
    BY <1>3, <2>3 DEF m
<1> QED
  BY <1>2, <1>3 DEF m

\* Whole passes do not move the rotation.
LEMMA ModPasses ==
  ASSUME NEW a \in Int, NEW L \in Nat \ {0}, NEW d \in Int
  PROVE  (a + L * d) % L = a % L
<1> DEFINE q == a \div L
           r == a % L
<1>1. r \in 0..L - 1 /\ q \in Int /\ a = (L * q) + r
  BY ModRange
<1> HIDE DEF q, r
<1>2. a + L * d = L * (q + d) + r
  BY <1>1
<1>3. L * d \in Int /\ q + d \in Int
  BY <1>1
<1>4. (a + L * d) % L = r
  BY <1>1, <1>2, <1>3, ModUnique
<1> QED
  BY <1>4 DEF r

-----------------------------------------------------------------------------
(* The rotation. *)

\* The counter does not wrap in the middle of a pass: either it is not at the end of
\* its range (2^64 selections without a refresh), or the length of the list divides
\* the range.
KeepsPass(p) ==
  PoolLen(p) > 0 /\ p.next = CounterRange - 1 => CounterRange % PoolLen(p) = 0

\* Where the rotation is after a selection: one place on, and after the last place at
\* the first.
LEMMA AdvancedMoves ==
  ASSUME NEW p \in Pools, PoolLen(p) > 0, KeepsPass(p)
  PROVE  LET L == PoolLen(p)
             r == p.next % L
         IN  /\ L \in Nat \ {0} /\ r \in 0..L - 1
             /\ Advanced(p).proxies = p.proxies
             /\ Advanced(p).next % L = IF r = L - 1 THEN 0 ELSE r + 1
             /\ Picked(p) = p.proxies[r + 1]
             /\ CycleComplete(p) <=> r = L - 1
<1> DEFINE L == PoolLen(p)
           r == p.next % L
           new == Advanced(p)
<1>1. PoolLen(p) \in Nat \ {0} /\ p.next \in 0..CounterRange - 1 /\ CounterRange \in Nat \ {0}
  BY PoolAssumption DEF Pools, PoolLen
<1> HIDE DEF L
<1>2. p.next \in Nat /\ L \in Nat \ {0} /\ r \in 0..L - 1
  <2>1. p.next \in Nat /\ L \in Nat \ {0}
    BY <1>1 DEF L
  <2>2. p.next % L \in 0..L - 1
    BY <2>1
  <2> QED
    BY <2>1, <2>2
<1>3. new.proxies = p.proxies /\ new.next = (p.next + 1) % CounterRange
  BY DEF Advanced, Pools
<1>4. new.next % L = (p.next + 1) % L
  <2>1. CASE p.next = CounterRange - 1
    <3>1. CounterRange % CounterRange = 0 /\ 0 % L = 0
      <4>1. CounterRange = CounterRange * 1 + 0 /\ 0 = L * 0 + 0
        BY <1>1, <1>2
      <4>2. 0 \in 0..CounterRange - 1 /\ 0 \in 0..L - 1
        BY <1>1, <1>2
      <4>3. CounterRange % CounterRange = 0
        BY <1>1, <4>1, <4>2, ModUnique
      <4>4. 0 % L = 0
        BY <1>2, <4>1, <4>2, ModUnique
      <4> QED
        BY <4>3, <4>4
    <3>2. p.next + 1 = CounterRange /\ CounterRange % L = 0
      BY <1>1, <2>1 DEF KeepsPass, L
    <3> QED
      BY <1>3, <3>1, <3>2
  <2>2. CASE p.next # CounterRange - 1
    <3>1. p.next + 1 = CounterRange * 0 + (p.next + 1) /\ p.next + 1 \in 0..CounterRange - 1
      BY <1>1, <2>2
    <3>2. (p.next + 1) % CounterRange = p.next + 1
      BY <1>1, <3>1, ModUnique
    <3> QED
      BY <1>3, <3>2
  <2> QED
    BY <2>1, <2>2
<1>5. new.next % L = IF r = L - 1 THEN 0 ELSE r + 1
  <2>1. (p.next + 1) % L = IF p.next % L = L - 1 THEN 0 ELSE (p.next % L) + 1
    BY <1>2, ModStep
  <2> QED
    BY <1>4, <2>1
<1>6. CycleComplete(p) <=> r = L - 1
  <2>1. CycleComplete(p) <=> new.next % L = 0
    BY DEF CycleComplete, L
  <2> QED
    BY <1>2, <1>5, <2>1
<1>7. Picked(p) = p.proxies[r + 1]
  BY DEF Picked, L
<1> QED
  BY <1>2, <1>3, <1>5, <1>6, <1>7 DEF L

=============================================================================
