--------------------------- MODULE ScheduleRecovery ---------------------------
(***************************************************************************)
(* The life of one refreshSchedule: any sequence of refresh results        *)
(* applied to it, in the order onDemandRefresher.Ensure applies them.      *)
(***************************************************************************)
EXTENDS RefreshSchedule

VARIABLES
  schedule,
  calm       \* successes since the delay last changed or a rate limit, up to 3

vars == <<schedule, calm>>

Results == {"nil", "rate_limited", "fetch_failed"}

Init ==
  /\ \E configured \in Configured : schedule = NewSchedule(configured)
  /\ calm = 0

Refresh(result) ==
  /\ schedule' = AfterRefresh(schedule, result)
  /\ calm' = IF result = "rate_limited" \/ schedule'.current # schedule.current THEN 0
             ELSE IF result = "nil" /\ calm < 3 THEN calm + 1
             ELSE calm

Next == \E result \in Results : Refresh(result)

Spec == Init /\ [][Next]_vars

-----------------------------------------------------------------------------
TypeOK ==
  /\ schedule \in Schedules
  /\ calm \in 0..3

\* The delay never leaves the interval from the configured base to the larger
\* of two minutes and the base, whatever the sequence of results; a pending
\* success count exists only while the schedule is backed off (main.go:231-264).
DelayWithinBounds ==
  /\ schedule.base <= schedule.current
  /\ schedule.current <= MaximumBackoff(schedule)
  /\ schedule.successes > 0 => schedule.base < schedule.current

\* The delay shrinks only on the third success since it last changed, and a rate
\* limit in between starts the count again (successesAtBackoff, main.go:255-263).
RecoveryTakesThreeSuccesses ==
  [][schedule'.current < schedule.current => calm = 2 /\ calm' = 0]_vars

\* Only a success may shrink the delay: a rate-limited answer, and any other
\* failure, leaves it at least as long as it was (main.go:184-188, 240-247).
TroubleNeverShortensDelay ==
  [][schedule'.current < schedule.current => schedule' = Succeeded(schedule)]_vars

=============================================================================
