--------------------------- MODULE RefreshSchedule ---------------------------
(***************************************************************************)
(* refreshSchedule (cmd/proxy-pools/main.go): the delay the refresher      *)
(* waits after one proxy API call before the next one is due.  The value   *)
(* is a record with the struct's three fields and every method is a pure   *)
(* function of it: the struct is only touched under the refresher's lock.  *)
(*                                                                         *)
(* Durations are counted in ticks of a fixed length, MaxDuration being the *)
(* largest value of time.Duration (a signed integer).                      *)
(***************************************************************************)
EXTENDS Integers

CONSTANTS
  Configured,       \* values -refresh / PROXY_REFRESH_INTERVAL may have
  MinimumInterval,  \* newRefreshSchedule's minimumInterval (20s)
  MinimumBackoff,   \* rateLimited's minimumBackoff (40s)
  DefaultMaximum,   \* rateLimited's defaultMaximum (2m)
  MaxDuration       \* largest time.Duration

\* parseConfig refuses an interval that is not positive.
ASSUME ScheduleAssumption ==
  /\ MinimumInterval \in Nat \ {0}
  /\ MinimumBackoff \in Nat /\ MinimumInterval <= MinimumBackoff
  /\ DefaultMaximum \in Nat /\ MinimumBackoff <= DefaultMaximum
  /\ MaxDuration \in Nat /\ 2 * DefaultMaximum <= MaxDuration
  /\ Configured \subseteq 1..MaxDuration

Schedules == [base : 1..MaxDuration, current : 1..MaxDuration, successes : 0..2]

NewSchedule(configured) ==
  LET base == IF configured < MinimumInterval THEN MinimumInterval ELSE configured
  IN  [base |-> base, current |-> base, successes |-> 0]

\* Mutant of Delay: the backoff is computed but not used.
DelayWithoutBackoff(s) == s.base

Delay(s) == s.current

MaximumBackoff(s) == IF DefaultMaximum < s.base THEN s.base ELSE DefaultMaximum

\* current * 2 in the signed arithmetic of time.Duration.
Doubled(d) == IF 2 * d <= MaxDuration THEN 2 * d ELSE 2 * d - 2 * (MaxDuration + 1)

\* The doubled delay, raised to minimumBackoff, then cut at the maximum.
Backoff(s) ==
  LET next   == Doubled(s.current)
      raised == IF next < MinimumBackoff THEN MinimumBackoff ELSE next
  IN  IF raised > MaximumBackoff(s) THEN MaximumBackoff(s) ELSE raised

\* Mutants of RateLimited: the success count survives the rate limit; the maximum is
\* two minutes for longer intervals too.
RateLimitedKeepsCount(s) == [s EXCEPT !.current = Backoff(s)]
RateLimitedFixedMaximum(s) ==
  [base |-> s.base, successes |-> 0,
   current |-> IF Backoff(s) > DefaultMaximum THEN DefaultMaximum ELSE Backoff(s)]

RateLimited(s) == [base |-> s.base, current |-> Backoff(s), successes |-> 0]

\* Mutant of Succeeded: halved without the floor at the base.
SucceededNoFloor(s) ==
  IF s.current <= s.base THEN s
  ELSE IF s.successes < 2 THEN [s EXCEPT !.successes = @ + 1]
  ELSE [s EXCEPT !.current = @ \div 2, !.successes = 0]

\* Every third success above the base halves the delay, never below the base.
Succeeded(s) ==
  LET half == s.current \div 2
  IN  IF s.current <= s.base THEN s
      ELSE IF s.successes + 1 < 3 THEN [s EXCEPT !.successes = @ + 1]
      ELSE [base |-> s.base, current |-> IF half < s.base THEN s.base ELSE half, successes |-> 0]

\* A failure that is not a rate limit leaves the schedule alone.
AfterRefresh(s, refreshErr) ==
  CASE refreshErr = "rate_limited" -> RateLimited(s)
    [] refreshErr = "nil"          -> Succeeded(s)
    [] OTHER                       -> s

=============================================================================
