---------------------------- MODULE EnsureContract ----------------------------
(***************************************************************************)
(* What onDemandRefresher.Ensure promises to the proxy handler, without a  *)
(* word on how: the pool is filled only on behalf of a request that is in  *)
(* Ensure, a request is let through only with proxies in the pool, and it  *)
(* is turned away only when there are none or when its client is gone.     *)
(***************************************************************************)
EXTENDS Pool

CONSTANTS Requests, Lists

VARIABLES
  pool,
  call,         \* call[r]: idle, calling, or the answer Ensure gave
  cancelled     \* requests whose context is done

gateVars == <<pool, call, cancelled>>

Calling == {r \in Requests : call[r] = "calling"}

Init ==
  /\ pool = EmptyPool
  /\ call = [r \in Requests |-> "idle"]
  /\ cancelled = {}

Call(r) ==
  /\ call[r] = "idle"
  /\ call' = [call EXCEPT ![r] = "calling"]
  /\ UNCHANGED <<pool, cancelled>>

Cancel(r) ==
  /\ call[r] # "idle"
  /\ cancelled' = cancelled \cup {r}
  /\ UNCHANGED <<pool, call>>

\* No background timer fills the pool while the service is idle.
Refill ==
  /\ Calling # {}
  /\ \E list \in Lists : pool' = Installed(pool, list)
  /\ UNCHANGED <<call, cancelled>>

Ready(r) ==
  /\ call[r] = "calling" /\ PoolLen(pool) > 0
  /\ call' = [call EXCEPT ![r] = "ready"]
  /\ UNCHANGED <<pool, cancelled>>

Refuse(r) ==
  /\ call[r] = "calling" /\ PoolLen(pool) = 0
  /\ call' = [call EXCEPT ![r] = "refused"]
  /\ UNCHANGED <<pool, cancelled>>

Abandon(r) ==
  /\ call[r] = "calling" /\ r \in cancelled
  /\ call' = [call EXCEPT ![r] = "abandoned"]
  /\ UNCHANGED <<pool, cancelled>>

Leave(r) ==
  /\ call[r] \notin {"idle", "calling"}
  /\ call' = [call EXCEPT ![r] = "idle"]
  /\ cancelled' = cancelled \ {r}
  /\ UNCHANGED pool

Next ==
  \/ Refill
  \/ \E r \in Requests : Call(r) \/ Cancel(r) \/ Ready(r) \/ Refuse(r) \/ Abandon(r) \/ Leave(r)

Spec == Init /\ [][Next]_gateVars
=============================================================================
