----------------------------- MODULE ServerProofs -----------------------------
(***************************************************************************)
(* The safety of the proxy server's retry loops, for any number of         *)
(* requests and any lists: what they find, replay, and have tried when     *)
(* they give up.                                                           *)
(***************************************************************************)
EXTENDS ProxyServer, DataLemmas, FiniteSetTheorems

\* The answer Ensure has given at each stage.  Once the pool has been filled it is
\* never empty again, so that "ready" stays true.
AnswerInv ==
  \A r \in Requests :
    /\ stage[r] = "idle" => call[r] = "idle"
    /\ stage[r] = "prepare" => call[r] # "idle"
    /\ stage[r] \in {"select", "forward", "relay", "tunnel"} => call[r] = "ready"
    /\ stage[r] = "done" => call[r] # "calling"
    /\ call[r] = "idle" => r \notin cancelled
    /\ call[r] = "ready" => PoolLen(pool) > 0

\* A turn of the loop begins only below the bound, which is 1 for what cannot be
\* replayed; outside of the loop its variables are reset.
LoopInv ==
  \A r \in Requests :
    /\ stage[r] = "select" => attempt[r] < attempts[r]
    /\ stage[r] = "forward" => attempt[r] <= attempts[r]
    /\ stage[r] \in {"prepare", "select", "forward"} => kind[r] \in Kinds
    /\ stage[r] \in {"select", "forward"} /\ kind[r] = "single" => attempts[r] = 1
    /\ stage[r] \notin {"select", "forward"} => attempt[r] = 0

IInv == ServerTypeOK /\ AnswerInv /\ LoopInv

-----------------------------------------------------------------------------
\* A selection leaves the list as it is and hands out one of its proxies.
LEMMA SelectionKeepsList ==
  ASSUME ServerAssumption, PoolAssumption,
         pool \in [proxies : Lists \cup {<<>>}, next : 0..CounterRange - 1],
         PoolLen(pool) > 0
  PROVE  /\ Picked(pool) \in Proxies
         /\ Advanced(pool) \in [proxies : Lists \cup {<<>>}, next : 0..CounterRange - 1]
         /\ PoolLen(Advanced(pool)) > 0
<1>1. pool.proxies \in Seq(Proxies) /\ pool.proxies # <<>> /\ pool.next \in Nat
  BY DEF ServerAssumption, PoolAssumption, PoolLen
<1>2. (pool.next % Len(pool.proxies)) + 1 \in 1..Len(pool.proxies)
  BY <1>1
<1>3. (pool.next + 1) % CounterRange \in 0..CounterRange - 1
  BY <1>1 DEF PoolAssumption
<1> QED
  BY <1>1, <1>2, <1>3 DEF Picked, Advanced, PoolLen

\* Whatever list is installed, the pool is not empty afterwards.
LEMMA RefillFillsPool ==
  ASSUME ServerAssumption, PoolAssumption, Refill
  PROVE  /\ pool' \in [proxies : Lists \cup {<<>>}, next : 0..CounterRange - 1]
         /\ PoolLen(pool') > 0
<1>1. PICK list \in Lists : pool' = Installed(pool, list)
  BY DEF Refill
<1>2. list \in Seq(Proxies) /\ list # <<>>
  BY DEF ServerAssumption
<1> QED
  BY <1>1, <1>2 DEF Installed, PoolLen, PoolAssumption

\* The bound of a loop is between 1 and 3, and 1 for what cannot be replayed.
LEMMA AttemptsBounded ==
  ASSUME ServerAssumption, ServerTypeOK, NEW k
  PROVE  Attempts(k) \in 1..3 /\ (k = "single" => Attempts(k) = 1)
<1>1. PoolLen(pool) \in Nat
  BY DEF ServerAssumption, ServerTypeOK, PoolLen
<1> QED
  BY <1>1 DEF Attempts

\* No request is at work at first.
LEMMA InitHolds == ASSUME PoolAssumption PROVE ServerInit => IInv
<1> SUFFICES ASSUME ServerInit PROVE IInv
  OBVIOUS
<1>1. ServerTypeOK
  BY PoolAssumption DEF ServerInit, Init, EmptyPool, ServerTypeOK, OvertakenTypeOK
<1>2. AnswerInv /\ LoopInv
  BY DEF ServerInit, Init, AnswerInv, LoopInv
<1> QED
  BY <1>1, <1>2 DEF IInv

\* Steps of a request that leave the pool alone.
LEMMA RequestKeepsIInv ==
  ASSUME ServerAssumption, IInv, NEW r \in Requests,
         \/ Forbid(r) \/ Serve(r) \/ Prepare(r) \/ PrepareFails(r) \/ BadTarget(r)
         \/ Dispatch(r) \/ ForwardSucceeds(r) \/ ForwardFails(r) \/ Relay(r) \/ Finish(r)
         \/ ClientLeaves(r)
  PROVE  IInv'
<1> USE DEF ServerTypeOK, gateVars, handlerVars, loopVars
<1>0. OvertakenTypeOK'
  <2>1. \/ overtaken' = overtaken \/ overtaken' = [overtaken EXCEPT ![r] = 0]
    BY DEF Forbid, Serve, Prepare, PrepareFails, BadTarget, Dispatch, ForwardSucceeds,
           ForwardFails, Relay, Finish, ClientLeaves, LeaveLoop
  <2>2. overtaken \in [Requests -> Nat]
    BY DEF IInv, OvertakenTypeOK
  <2> QED
    BY <2>1, <2>2 DEF OvertakenTypeOK
<1>1. CASE Forbid(r)
  <2>1. ServerTypeOK'
    BY <1>0, <1>1, ServerAssumption DEF IInv, Forbid, Done
  <2>2. AnswerInv'
    BY <1>1 DEF IInv, AnswerInv, Forbid, Done
  <2>3. LoopInv'
    BY <1>1 DEF IInv, LoopInv, Forbid, Done
  <2> QED
    BY <2>1, <2>2, <2>3 DEF IInv
<1>2. CASE Serve(r)
  <2>1. ServerTypeOK'
    BY <1>0, <1>2, ServerAssumption DEF IInv, Serve, Call
  <2>2. AnswerInv'
    BY <1>2 DEF IInv, AnswerInv, Serve, Call
  <2>3. LoopInv'
    BY <1>2 DEF IInv, LoopInv, Serve, Call
  <2> QED
    BY <2>1, <2>2, <2>3 DEF IInv
<1>3. CASE Prepare(r)
  <2>1. ServerTypeOK'
    BY <1>0, <1>3, ServerAssumption DEF IInv, Prepare, Ready, Refuse, Abandon
  <2>2. AnswerInv'
    BY <1>3 DEF IInv, AnswerInv, Prepare, Ready, Refuse, Abandon
  <2>3. LoopInv'
    BY <1>3 DEF IInv, LoopInv, Prepare, Ready, Refuse, Abandon
  <2> QED
    BY <2>1, <2>2, <2>3 DEF IInv
<1>4. CASE PrepareFails(r)
  <2>1. ServerTypeOK'
    BY <1>0, <1>4, ServerAssumption DEF IInv, PrepareFails, Done
  <2>2. AnswerInv'
    BY <1>4 DEF IInv, AnswerInv, PrepareFails, Done
  <2>3. LoopInv'
    BY <1>4 DEF IInv, LoopInv, PrepareFails, Done
  <2> QED
    BY <2>1, <2>2, <2>3 DEF IInv
<1>5. CASE BadTarget(r)
  <2>1. ServerTypeOK'
    BY <1>0, <1>5, ServerAssumption DEF IInv, BadTarget, Done
  <2>2. AnswerInv'
    BY <1>5 DEF IInv, AnswerInv, BadTarget, Done
  <2>3. LoopInv'
    BY <1>5 DEF IInv, LoopInv, BadTarget, Done
  <2> QED
    BY <2>1, <2>2, <2>3 DEF IInv
<1>6. CASE Dispatch(r)
  <2>1. ServerTypeOK'
    BY <1>0, <1>6, AttemptsBounded DEF IInv, Dispatch
  <2>2. AnswerInv'
    BY <1>6 DEF IInv, AnswerInv, Dispatch, Attempts
  <2>3. LoopInv'
    BY <1>6, AttemptsBounded DEF IInv, LoopInv, Dispatch
  <2> QED
    BY <2>1, <2>2, <2>3 DEF IInv
<1>7. CASE ForwardSucceeds(r)
  <2>1. ServerTypeOK'
    BY <1>0, <1>7, ServerAssumption DEF IInv, ForwardSucceeds, LeaveLoop
  <2>2. AnswerInv'
    BY <1>7 DEF IInv, AnswerInv, ForwardSucceeds, LeaveLoop
  <2>3. LoopInv'
    BY <1>7 DEF IInv, LoopInv, ForwardSucceeds, LeaveLoop
  <2> QED
    BY <2>1, <2>2, <2>3 DEF IInv
<1>8. CASE ForwardFails(r)
  <2>1. ServerTypeOK'
    <3>1. CASE attempt[r] < attempts[r] /\ r \notin cancelled
      <4>1. /\ stage' = [stage EXCEPT ![r] = "select"]
            /\ UNCHANGED <<pool, call, cancelled, phase, kind, attempts, attempt, tried, refilled>>
        BY <1>8, <3>1 DEF ForwardFails
      <4> QED
        BY <1>0, <4>1 DEF IInv
    <3>2. CASE ~(attempt[r] < attempts[r] /\ r \notin cancelled)
      <4>1. Done(r) /\ LeaveLoop(r) /\ UNCHANGED <<pool, call, cancelled, phase>>
        BY <1>8, <3>2 DEF ForwardFails
      <4> QED
        BY <1>0, <4>1 DEF IInv, Done, LeaveLoop
    <3> QED
      BY <3>1, <3>2
  <2>2. AnswerInv'
    BY <1>8 DEF IInv, AnswerInv, ForwardFails, Done, LeaveLoop
  <2>3. LoopInv'
    BY <1>8 DEF IInv, LoopInv, ForwardFails, Done, LeaveLoop
  <2> QED
    BY <2>1, <2>2, <2>3 DEF IInv
<1>9. CASE Relay(r)
  <2>1. ServerTypeOK'
    BY <1>0, <1>9, ServerAssumption DEF IInv, Relay, Done
  <2>2. AnswerInv'
    BY <1>9 DEF IInv, AnswerInv, Relay, Done
  <2>3. LoopInv'
    BY <1>9 DEF IInv, LoopInv, Relay, Done
  <2> QED
    BY <2>1, <2>2, <2>3 DEF IInv
<1>10. CASE Finish(r)
  <2>1. ServerTypeOK'
    BY <1>0, <1>10, ServerAssumption DEF IInv, Finish
  <2>2. AnswerInv'
    BY <1>10 DEF IInv, AnswerInv, Finish
  <2>3. LoopInv'
    BY <1>10 DEF IInv, LoopInv, Finish
  <2> QED
    BY <2>1, <2>2, <2>3 DEF IInv
<1>11. CASE ClientLeaves(r)
  <2>1. ServerTypeOK'
    BY <1>0, <1>11, ServerAssumption DEF IInv, ClientLeaves, Cancel
  <2>2. AnswerInv'
    BY <1>11 DEF IInv, AnswerInv, ClientLeaves, Cancel
  <2>3. LoopInv'
    BY <1>11 DEF IInv, LoopInv, ClientLeaves, Cancel
  <2> QED
    BY <2>1, <2>2, <2>3 DEF IInv
<1> QED
  BY <1>1, <1>2, <1>3, <1>4, <1>5, <1>6, <1>7, <1>8, <1>9, <1>10, <1>11

\* A selection advances the shared rotation, and is a turn of one request's loop.
LEMMA SelectKeepsIInv ==
  ASSUME ServerAssumption, PoolAssumption, IInv, NEW r \in Requests, Select(r)
  PROVE  IInv'
<1>1. /\ Picked(pool) \in Proxies
      /\ pool' \in [proxies : Lists \cup {<<>>}, next : 0..CounterRange - 1]
      /\ PoolLen(pool') > 0
  BY SelectionKeepsList DEF Select, IInv, ServerTypeOK
<1>2. ServerTypeOK'
  <2>1. attempt' \in [Requests -> 0..3]
    BY DEF Select, IInv, ServerTypeOK, LoopInv
  <2>2. tried' \in [Requests -> SUBSET Proxies]
    BY <1>1 DEF Select, IInv, ServerTypeOK
  <2>3. OvertakenTypeOK'
    BY DEF Select, IInv, ServerTypeOK, OvertakenTypeOK
  <2> QED
    BY <1>1, <2>1, <2>2, <2>3 DEF Select, IInv, ServerTypeOK
<1>3. AnswerInv'
  BY <1>1 DEF Select, IInv, ServerTypeOK, AnswerInv
<1>4. LoopInv'
  BY DEF Select, IInv, ServerTypeOK, LoopInv
<1> QED
  BY <1>2, <1>3, <1>4 DEF IInv

\* A refresh may come between any two steps of a request.
LEMMA RefreshKeepsIInv ==
  ASSUME ServerAssumption, PoolAssumption, IInv, Refresh
  PROVE  IInv'
<1>1. /\ pool' \in [proxies : Lists \cup {<<>>}, next : 0..CounterRange - 1]
      /\ PoolLen(pool') > 0
      /\ UNCHANGED <<call, cancelled>>
  BY RefillFillsPool DEF Refresh, Refill
<1>2. ServerTypeOK'
  BY <1>1 DEF Refresh, IInv, ServerTypeOK, OvertakenTypeOK
<1>3. AnswerInv' /\ LoopInv'
  BY <1>1 DEF Refresh, IInv, ServerTypeOK, AnswerInv, LoopInv
<1> QED
  BY <1>2, <1>3 DEF IInv

\* Every step keeps the invariant.
LEMMA NextKeepsIInv ==
  ASSUME ServerAssumption, PoolAssumption, IInv, [ServerNext]_vars
  PROVE  IInv'
<1>1. CASE Refresh
  BY <1>1, RefreshKeepsIInv
<1>2. ASSUME NEW r \in Requests, RequestStep(r)
      PROVE  IInv'
  BY <1>2, RequestKeepsIInv, SelectKeepsIInv DEF RequestStep
<1>3. CASE Shutdown \/ Drained \/ DrainTimeout \/ ListenFails \/ UNCHANGED vars
  BY <1>3 DEF Shutdown, Drained, DrainTimeout, ListenFails, vars, gateVars, handlerVars, loopVars,
              IInv, ServerTypeOK, OvertakenTypeOK, AnswerInv, LoopInv
<1> QED
  BY <1>1, <1>2, <1>3 DEF ServerNext

\* The three invariants rest on this one.
LEMMA ServerIInv == ServerSpec => []IInv
<1>1. ServerInit => IInv
  BY InitHolds, PoolAssumption
<1>2. IInv /\ [ServerNext]_vars => IInv'
  BY NextKeepsIInv, ServerAssumption, PoolAssumption
<1> QED
  BY <1>1, <1>2, PTL DEF ServerSpec

\* No request begins a fourth turn of its loop, and every variable keeps its type
\* (handler.go:156-190, 318-327).
THEOREM ServerTypesHold == ServerSpec => []ServerTypeOK
BY ServerIInv, PTL DEF IInv

\* The pool that was checked in Ensure is not empty at any later turn, whoever else
\* selects from it and whatever it is refilled with (handler.go:158-161, 229-231).
THEOREM ServerLoopFindsUpstream == ServerSpec => []LoopFindsUpstream
<1>1. IInv => LoopFindsUpstream
  BY DEF IInv, AnswerInv, LoopFindsUpstream
<1> QED
  BY <1>1, ServerIInv, PTL

\* What cannot be replayed is sent once, and nothing is sent a fourth time
\* (handler.go:318-327).
THEOREM ServerNeverReplays == ServerSpec => []NeverReplayed
<1>1. IInv => NeverReplayed
  BY DEF IInv, ServerTypeOK, LoopInv, NeverReplayed
<1> QED
  BY <1>1, ServerIInv, PTL

-----------------------------------------------------------------------------
(* What a loop has tried, as long as the pool is not refilled. *)

\* The place in the list that was handed out k selections ago, less than a pass.
Behind(p, k) ==
  LET r == p.next % PoolLen(p)
  IN  IF k <= r THEN r - k ELSE r - k + PoolLen(p)

\* While its turns and the selections of others between them do not make more than a
\* pass, a loop has tried a different place behind the rotation on every turn.
LoopNeverReturned(r) ==
  /\ tried[r] \subseteq {pool.proxies[Behind(pool, k) + 1] : k \in 1..attempt[r] + overtaken[r]}
  /\ IsFiniteSet(tried[r]) /\ Cardinality(tried[r]) = attempt[r]

\* Until a refill, the bound of a loop is the one the pool gives.
TriedOf(r) ==
  /\ ~Forwarding(r) => tried[r] = {}
  /\ attempt[r] = 0 => overtaken[r] = 0
  /\ Forwarding(r) /\ r \notin refilled =>
       /\ attempts[r] = Attempts(kind[r])
       /\ WithinPass(r) => LoopNeverReturned(r)

TriedInv == \A r \in Requests : TriedOf(r)

\* A selection puts every place one further behind, and hands out one that is not
\* less than a pass behind.
LEMMA SelectionMoves ==
  ASSUME pool \in [proxies : Lists \cup {<<>>}, next : 0..CounterRange - 1],
         PoolLen(pool) > 0, KeepsPass(pool),
         NEW n \in 0..PoolLen(pool) - 1
  PROVE  LET new == Advanced(pool)
         IN  /\ PoolLen(new) = PoolLen(pool)
             /\ {new.proxies[Behind(new, k) + 1] : k \in 1..n + 1}
                  = {pool.proxies[Behind(pool, k) + 1] : k \in 1..n} \cup {Picked(pool)}
             /\ Picked(pool) \notin {pool.proxies[Behind(pool, k) + 1] : k \in 1..n}
<1> DEFINE L == PoolLen(pool)
           list == pool.proxies
           new == Advanced(pool)
           r == pool.next % L
           s == new.next % L
<1>1. list \in Seq(Proxies) /\ IsInjective(list) /\ pool \in Pools
  <2>1. list \in Lists
    BY DEF PoolLen
  <2> QED
    BY <2>1, ServerAssumption, DistinctAssumption DEF Pools
<1>2. /\ L \in Nat \ {0} /\ r \in 0..L - 1
      /\ new.proxies = list
      /\ s = IF r = L - 1 THEN 0 ELSE r + 1
      /\ Picked(pool) = list[r + 1]
  BY <1>1, AdvancedMoves
<1>3. PoolLen(new) = L /\ DOMAIN list = 1..L
  BY <1>1, <1>2 DEF PoolLen
<1>4. \A k : Behind(pool, k) = IF k <= r THEN r - k ELSE r - k + L
  BY DEF Behind
<1>5. \A k : Behind(new, k) = IF k <= s THEN s - k ELSE s - k + L
  BY <1>3 DEF Behind
<1> HIDE DEF L, r, s, list, new
<1>6. n \in 0..L - 1
  BY DEF L
<1>7. Behind(new, 1) = r
  BY <1>2, <1>5
<1>8. \A k \in 1..n : Behind(new, k + 1) = Behind(pool, k)
  BY <1>2, <1>4, <1>5, <1>6
<1>9. \A k \in 1..n : Behind(pool, k) \in 0..L - 1 /\ Behind(pool, k) # r
  BY <1>2, <1>4, <1>6
<1> DEFINE before == {list[Behind(pool, k) + 1] : k \in 1..n}
           after  == {list[Behind(new, k) + 1] : k \in 1..n + 1}
<1>10. after = before \cup {list[r + 1]}
  <2>1. ASSUME NEW k \in 1..n + 1
        PROVE  list[Behind(new, k) + 1] \in before \cup {list[r + 1]}
    <3>1. CASE k = 1
      BY <1>7, <3>1
    <3>2. CASE k # 1
      <4>1. k - 1 \in 1..n /\ (k - 1) + 1 = k
        BY <1>6, <3>2
      <4>2. Behind(new, k) = Behind(pool, k - 1)
        BY <1>8, <4>1
      <4> QED
        BY <4>1, <4>2
    <3> QED
      BY <3>1, <3>2
  <2>2. list[r + 1] \in after
    <3>1. 1 \in 1..n + 1
      BY <1>6
    <3> QED
      BY <1>7, <3>1
  <2>3. ASSUME NEW k \in 1..n
        PROVE  list[Behind(pool, k) + 1] \in after
    <3>1. k + 1 \in 1..n + 1
      BY <1>6
    <3> QED
      BY <1>8, <3>1
  <2> QED
    BY <2>1, <2>2, <2>3
<1>11. list[r + 1] \notin before
  <2> SUFFICES ASSUME NEW k \in 1..n, list[Behind(pool, k) + 1] = list[r + 1]
               PROVE  FALSE
    OBVIOUS
  <2>1. Behind(pool, k) + 1 \in 1..L /\ r + 1 \in 1..L /\ Behind(pool, k) + 1 # r + 1
    BY <1>2, <1>9
  <2> QED
    BY <1>1, <1>3, <2>1 DEF IsInjective
<1>12. {new.proxies[Behind(new, k) + 1] : k \in 1..n + 1} = after
  BY <1>2
<1> HIDE DEF before, after
<1>13. {new.proxies[Behind(new, k) + 1] : k \in 1..n + 1} = before \cup {Picked(pool)}
  BY <1>2, <1>10, <1>12
<1>14. Picked(pool) \notin before /\ PoolLen(new) = L
  BY <1>2, <1>3, <1>11
<1> QED
  BY <1>13, <1>14 DEF before, list, new, L

\* The bound the pool gives to a loop that is at work is not more than a pass.
LEMMA AttemptsFit ==
  ASSUME IInv, NEW r \in Requests, Forwarding(r)
  PROVE  /\ PoolLen(pool) \in Nat \ {0}
         /\ Attempts(kind[r]) <= PoolLen(pool)
<1>1. PoolLen(pool) > 0
  BY DEF IInv, AnswerInv, Forwarding
<1>2. PoolLen(pool) \in Nat
  BY ServerAssumption DEF IInv, ServerTypeOK, PoolLen
<1> QED
  BY <1>1, <1>2 DEF Attempts

\* A turn of a loop tries one more place, and overtakes the others.
LEMMA SelectKeepsTried ==
  ASSUME IInv, TriedInv, KeepsPass(pool), NEW r \in Requests, Select(r)
  PROVE  TriedInv'
<1> DEFINE L == PoolLen(pool)
           Handed(p, n) == {p.proxies[Behind(p, k) + 1] : k \in 1..n}
<1>1. /\ stage[r] = "select" /\ L > 0 /\ pool' = Advanced(pool)
      /\ attempt' = [attempt EXCEPT ![r] = @ + 1]
      /\ tried' = IF r \in refilled THEN tried ELSE [tried EXCEPT ![r] = @ \cup {Picked(pool)}]
      /\ stage' = [stage EXCEPT ![r] = "forward"]
      /\ UNCHANGED <<kind, attempts, refilled>>
  BY DEF Select
<1>2. \A q \in Requests :
        overtaken'[q] = IF /\ q # r /\ attempt[q] > 0 /\ q \notin refilled
                           /\ attempts[q] + overtaken[q] <= L
                        THEN overtaken[q] + 1 ELSE overtaken[q]
  BY DEF Select, WithinPass
<1>3. ServerTypeOK /\ L \in Nat
  BY ServerAssumption DEF IInv, ServerTypeOK, PoolLen
<1>4. ASSUME NEW n \in 0..L - 1
      PROVE  /\ PoolLen(pool') = L
             /\ Handed(pool', n + 1) = Handed(pool, n) \cup {Picked(pool)}
             /\ Picked(pool) \notin Handed(pool, n)
  BY <1>1, <1>3, SelectionMoves DEF ServerTypeOK
<1>5. PoolLen(pool') = L
  <2>1. 0 \in 0..L - 1
    BY <1>1, <1>3
  <2> QED
    BY <1>4, <2>1
<1>6. \A k : Attempts(k)' = Attempts(k)
  BY <1>5 DEF Attempts
<1> HIDE DEF L, Handed
<1>7. ASSUME NEW q \in Requests, q # r
      PROVE  TriedOf(q)'
  <2> DEFINE n == attempt[q] + overtaken[q]
  <2>1. /\ stage'[q] = stage[q] /\ tried'[q] = tried[q] /\ attempt'[q] = attempt[q]
        /\ attempts'[q] = attempts[q] /\ kind'[q] = kind[q] /\ (Forwarding(q)' <=> Forwarding(q))
    BY <1>1, <1>3, <1>7 DEF ServerTypeOK, Forwarding
  <2>2. /\ attempt[q] \in Nat /\ overtaken[q] \in Nat /\ attempts[q] \in Nat
        /\ attempt[q] <= attempts[q] /\ TriedOf(q)
    <3>1. attempt[q] \in Nat /\ attempts[q] \in Nat /\ attempt[q] <= attempts[q]
      BY <1>3 DEF ServerTypeOK, IInv, LoopInv
    <3>2. overtaken[q] \in Nat
      BY <1>3 DEF ServerTypeOK, OvertakenTypeOK
    <3> QED
      BY <3>1, <3>2 DEF TriedInv
  <2>3. attempt[q] = 0 => overtaken'[q] = 0
    BY <1>2, <2>2 DEF TriedOf
  <2>4. ASSUME Forwarding(q), q \notin refilled, attempts[q] + overtaken'[q] <= L
        PROVE  LoopNeverReturned(q)'
    <3>1. CASE attempt[q] = 0
      <4>1. LoopNeverReturned(q) /\ overtaken[q] = 0 /\ overtaken'[q] = 0
        BY <1>3, <2>2, <2>3, <2>4, <3>1 DEF TriedOf, WithinPass, L
      <4>2. tried[q] = {}
        <5>1. 1..attempt[q] + overtaken[q] = {}
          BY <3>1, <4>1
        <5> QED
          BY <4>1, <5>1 DEF LoopNeverReturned
      <4> QED
        BY <2>1, <4>1, <4>2 DEF LoopNeverReturned
    <3>2. CASE attempt[q] # 0
      <4>1. overtaken'[q] = overtaken[q] + 1 /\ n \in 0..L - 1 /\ attempt[q] + overtaken'[q] = n + 1
        BY <1>2, <1>3, <1>7, <2>2, <2>4, <3>2
      <4>2. LoopNeverReturned(q)
        BY <1>3, <2>2, <2>4, <4>1 DEF TriedOf, WithinPass, L
      <4>3. tried[q] \subseteq Handed(pool', n + 1)
        BY <1>4, <4>1, <4>2 DEF LoopNeverReturned, Handed
      <4> QED
        BY <2>1, <4>1, <4>2, <4>3 DEF LoopNeverReturned, Handed
    <3> QED
      BY <3>1, <3>2
  <2> QED
    BY <1>1, <1>5, <1>6, <2>1, <2>2, <2>3, <2>4 DEF TriedOf, WithinPass
<1>8. TriedOf(r)'
  <2> DEFINE n == attempt[r] + overtaken[r]
  <2>1. /\ Forwarding(r) /\ Forwarding(r)' /\ overtaken'[r] = overtaken[r]
        /\ attempt'[r] = attempt[r] + 1 /\ attempts'[r] = attempts[r]
        /\ r \notin refilled => tried'[r] = tried[r] \cup {Picked(pool)}
        /\ attempt[r] \in Nat /\ attempts[r] \in Nat /\ attempt[r] < attempts[r]
        /\ overtaken[r] \in Nat /\ TriedOf(r)
    <3>1. overtaken[r] \in Nat /\ overtaken'[r] = overtaken[r]
      BY <1>2, <1>3 DEF ServerTypeOK, OvertakenTypeOK
    <3>2. /\ Forwarding(r) /\ Forwarding(r)' /\ attempt[r] \in Nat
          /\ attempt'[r] = attempt[r] + 1 /\ attempts'[r] = attempts[r]
          /\ r \notin refilled => tried'[r] = tried[r] \cup {Picked(pool)}
      BY <1>1, <1>3 DEF Forwarding, ServerTypeOK
    <3>3. attempts[r] \in Nat /\ attempt[r] < attempts[r]
      BY <1>1, <1>3 DEF ServerTypeOK, IInv, LoopInv
    <3> QED
      BY <3>1, <3>2, <3>3 DEF TriedInv
  <2>2. ASSUME r \notin refilled, attempts[r] + overtaken'[r] <= L
        PROVE  LoopNeverReturned(r)'
    <3>1. n \in 0..L - 1 /\ attempt'[r] + overtaken'[r] = n + 1
      BY <1>3, <2>1, <2>2
    <3>2. LoopNeverReturned(r)
      BY <1>3, <2>1, <2>2, <3>1 DEF TriedOf, WithinPass, L
    <3>3. /\ tried'[r] \subseteq Handed(pool', n + 1)
          /\ Picked(pool) \notin tried[r]
      BY <1>4, <2>1, <2>2, <3>1, <3>2 DEF LoopNeverReturned, Handed
    <3>4. IsFiniteSet(tried'[r]) /\ Cardinality(tried'[r]) = attempt'[r]
      <4>1. IsFiniteSet(tried[r]) /\ Cardinality(tried[r]) = attempt[r] /\ Picked(pool) \notin tried[r]
        BY <3>2, <3>3 DEF LoopNeverReturned
      <4>2. /\ IsFiniteSet(tried[r] \cup {Picked(pool)})
            /\ Cardinality(tried[r] \cup {Picked(pool)}) = attempt[r] + 1
        BY <4>1, FS_AddElement
      <4> QED
        BY <2>1, <2>2, <4>2
    <3> QED
      BY <3>1, <3>3, <3>4 DEF LoopNeverReturned, Handed
  <2>3. attempt'[r] # 0
    BY <2>1
  <2> QED
    BY <1>1, <1>5, <1>6, <2>1, <2>2, <2>3 DEF TriedOf, WithinPass
<1> QED
  BY <1>7, <1>8 DEF TriedInv

\* Every other step of a request leaves the pool and the other requests alone.
LEMMA RequestKeepsTried ==
  ASSUME IInv, TriedInv, NEW r \in Requests,
         \/ Forbid(r) \/ Serve(r) \/ Prepare(r) \/ PrepareFails(r) \/ BadTarget(r)
         \/ Dispatch(r) \/ ForwardSucceeds(r) \/ ForwardFails(r) \/ Relay(r) \/ Finish(r)
         \/ ClientLeaves(r)
  PROVE  TriedInv'
<1> USE DEF ServerTypeOK, gateVars, handlerVars, loopVars
<1>1. ServerTypeOK /\ pool' = pool
  BY DEF IInv, Forbid, Serve, Call, Prepare, Ready, Refuse, Abandon, PrepareFails, BadTarget,
         Dispatch, ForwardSucceeds, ForwardFails, Relay, Finish, ClientLeaves, Cancel
<1>0. /\ \A q \in Requests : q # r => overtaken'[q] = overtaken[q]
      /\ LeaveLoop(r) => overtaken'[r] = 0
  <2>1. overtaken \in [Requests -> Nat]
    BY DEF IInv, OvertakenTypeOK
  <2>2. \/ overtaken' = overtaken \/ overtaken' = [overtaken EXCEPT ![r] = 0]
    BY DEF Forbid, Serve, Prepare, PrepareFails, BadTarget, Dispatch, ForwardSucceeds,
           ForwardFails, Relay, Finish, ClientLeaves, LeaveLoop
  <2> QED
    BY <2>1, <2>2 DEF LeaveLoop
<1>2. \A q \in Requests : q # r =>
        /\ stage'[q] = stage[q] /\ kind'[q] = kind[q] /\ attempts'[q] = attempts[q]
        /\ attempt'[q] = attempt[q] /\ tried'[q] = tried[q] /\ overtaken'[q] = overtaken[q]
        /\ (q \in refilled' <=> q \in refilled)
  BY <1>0, <1>1 DEF Forbid, Serve, Prepare, PrepareFails, BadTarget, Dispatch,
              ForwardSucceeds, ForwardFails, Relay, Finish, ClientLeaves, Done, LeaveLoop
<1>3. ASSUME NEW q \in Requests,
             stage'[q] = stage[q] /\ kind'[q] = kind[q] /\ attempts'[q] = attempts[q]
               /\ attempt'[q] = attempt[q] /\ tried'[q] = tried[q] /\ overtaken'[q] = overtaken[q]
               /\ (q \in refilled' <=> q \in refilled)
      PROVE  TriedOf(q)'
  <2>1. Forwarding(q)' <=> Forwarding(q)
    BY <1>3 DEF Forwarding
  <2>2. LoopNeverReturned(q)' <=> LoopNeverReturned(q)
    BY <1>1, <1>3 DEF LoopNeverReturned
  <2>3. Attempts(kind[q])' = Attempts(kind[q]) /\ PoolLen(pool)' = PoolLen(pool)
    BY <1>1, <1>3 DEF Attempts
  <2> QED
    BY <1>1, <1>3, <2>1, <2>2, <2>3 DEF TriedInv, TriedOf, WithinPass
<1>4. TriedOf(r)'
  <2>1. CASE Forbid(r) \/ Serve(r) \/ PrepareFails(r) \/ BadTarget(r) \/ Relay(r) \/ Finish(r)
    <3>1. ~Forwarding(r) /\ ~Forwarding(r)' /\ UNCHANGED loopVars
      BY <1>1, <2>1 DEF Forbid, Serve, PrepareFails, BadTarget, Relay, Finish, Done, Forwarding
    <3> QED
      BY <3>1 DEF TriedInv, TriedOf
  <2>2. CASE Prepare(r) \/ ClientLeaves(r)
    <3>1. UNCHANGED handlerVars
      BY <2>2 DEF Prepare, ClientLeaves
    <3> QED
      BY <1>3, <3>1
  <2>3. CASE Dispatch(r)
    <3>1. /\ ~Forwarding(r) /\ Forwarding(r)' /\ UNCHANGED <<kind, attempt, tried, overtaken>>
          /\ attempts'[r] = Attempts(kind[r])
      BY <1>1, <2>3 DEF Dispatch, Forwarding
    <3>2. tried[r] = {} /\ attempt[r] = 0 /\ overtaken[r] = 0
      BY <3>1 DEF TriedInv, TriedOf, IInv, LoopInv, Forwarding
    <3>3. LoopNeverReturned(r)'
      BY <3>1, <3>2, FS_EmptySet DEF LoopNeverReturned
    <3>4. Attempts(kind[r])' = Attempts(kind[r])
      BY <1>1, <3>1 DEF Attempts
    <3> QED
      BY <3>1, <3>2, <3>3, <3>4 DEF TriedOf
  <2>4. CASE ForwardSucceeds(r)
    BY <1>0, <1>1, <2>4 DEF ForwardSucceeds, LeaveLoop, Forwarding, TriedOf
  <2>5. CASE ForwardFails(r)
    <3>1. CASE attempt[r] < attempts[r] /\ r \notin cancelled
      <4>1. /\ Forwarding(r) /\ Forwarding(r)' /\ UNCHANGED <<kind, loopVars>>
        BY <1>1, <2>5, <3>1 DEF ForwardFails, Forwarding
      <4>2. LoopNeverReturned(r)' <=> LoopNeverReturned(r)
        BY <1>1, <4>1 DEF LoopNeverReturned
      <4>3. Attempts(kind[r])' = Attempts(kind[r]) /\ PoolLen(pool)' = PoolLen(pool)
        BY <1>1, <4>1 DEF Attempts
      <4> QED
        BY <4>1, <4>2, <4>3 DEF TriedInv, TriedOf, WithinPass
    <3>2. CASE ~(attempt[r] < attempts[r] /\ r \notin cancelled)
      BY <1>0, <1>1, <2>5, <3>2 DEF ForwardFails, Done, LeaveLoop, Forwarding, TriedOf
    <3> QED
      BY <3>1, <3>2
  <2> QED
    BY <2>1, <2>2, <2>3, <2>4, <2>5
<1> QED
  BY <1>2, <1>3, <1>4 DEF TriedInv

\* Every step keeps it; after a refresh nothing is said of the loops at work.
LEMMA NextKeepsTried ==
  ASSUME IInv, TriedInv, KeepsPass(pool), [ServerNext]_vars
  PROVE  TriedInv'
<1>1. CASE Refresh
  <2>1. /\ UNCHANGED <<stage, attempt>>
        /\ \A q \in Requests : tried'[q] = {} /\ overtaken'[q] = 0
        /\ refilled' = refilled \cup {q \in Requests : Forwarding(q)}
    BY <1>1 DEF Refresh
  <2> QED
    BY <2>1 DEF TriedInv, TriedOf, Forwarding
<1>2. ASSUME NEW r \in Requests, RequestStep(r)
      PROVE  TriedInv'
  BY <1>2, RequestKeepsTried, SelectKeepsTried DEF RequestStep
<1>3. CASE Shutdown \/ Drained \/ DrainTimeout \/ ListenFails \/ UNCHANGED vars
  BY <1>3 DEF Shutdown, Drained, DrainTimeout, ListenFails, vars, gateVars, handlerVars, loopVars,
              TriedInv, TriedOf, WithinPass, LoopNeverReturned, Forwarding, Attempts
<1> QED
  BY <1>1, <1>2, <1>3 DEF ServerNext

\* Where the range of the counter is a multiple of the length of every list, no pass is
\* ever broken: the theorem below then speaks of every run (pool.go:48-52).
THEOREM ServerNeverBreaksPass ==
  ASSUME \A list \in Lists : CounterRange % Len(list) = 0
  PROVE  ServerSpec => []KeepsPass(pool)
<1>1. IInv => KeepsPass(pool)
  <2> SUFFICES ASSUME IInv, PoolLen(pool) > 0
               PROVE  CounterRange % PoolLen(pool) = 0
    BY DEF KeepsPass
  <2>1. pool.proxies \in Lists
    BY DEF IInv, ServerTypeOK, PoolLen
  <2> QED
    BY <2>1 DEF PoolLen
<1> QED
  BY <1>1, ServerIInv, PTL

\* A request ends in 502 only after as many different upstreams failed as its loop may
\* try, unless the pool was refilled between its turns or others selected so often that
\* more than a pass went by, for lists of any length and any number of requests
\* (handler.go:156-186, 227-240).  KeepsPass says that the 64-bit counter does not wrap
\* in the middle of a pass: at the wrap a list of three hands out one upstream twice.
THEOREM ServerGivesUpAfterDistinctUpstreams ==
  ServerSpec /\ []KeepsPass(pool) => GivesUpAfterDistinctUpstreams
<1> DEFINE Enough ==
             \A r \in Requests :
               GivesUp(r) /\ r \notin refilled /\ WithinPass(r) => TriedEnough(r)
<1>1. ServerInit => TriedInv
  BY DEF ServerInit, TriedInv, TriedOf, Forwarding
<1>2. IInv /\ TriedInv /\ KeepsPass(pool) /\ [ServerNext]_vars => TriedInv'
  BY NextKeepsTried
<1>3. IInv /\ TriedInv /\ [ServerNext]_vars => [Enough]_vars
  <2> SUFFICES ASSUME IInv, TriedInv, ServerNext, NEW r \in Requests,
                      GivesUp(r), r \notin refilled, WithinPass(r)
               PROVE  TriedEnough(r)
    OBVIOUS
  <2>1. ServerTypeOK /\ stage[r] = "forward" /\ stage'[r] = "done"
    BY DEF IInv, GivesUp
  <2>2. ForwardFails(r)
    <3>1. ~Refresh /\ ~Shutdown /\ ~Drained /\ ~DrainTimeout /\ ~ListenFails
      BY <2>1 DEF Refresh, Shutdown, Drained, DrainTimeout, ListenFails, handlerVars
    <3>2. PICK q \in Requests : RequestStep(q)
      BY <3>1 DEF ServerNext
    <3>3. q = r
      BY <2>1, <3>2 DEF RequestStep, Forbid, Serve, Prepare, PrepareFails, BadTarget, Dispatch,
              Select, ForwardSucceeds, ForwardFails, Relay, Finish, ClientLeaves, Done,
              handlerVars, ServerTypeOK
    <3> QED
      BY <2>1, <3>2, <3>3 DEF RequestStep, Forbid, Serve, Prepare, PrepareFails, BadTarget,
              Dispatch, Select, ForwardSucceeds, Relay, Finish, ClientLeaves, handlerVars,
              ServerTypeOK
  <2>3. kind[r] # "single" /\ r \notin cancelled
    BY DEF GivesUp
  <2>4. attempt[r] = attempts[r]
    <3>1. ~(attempt[r] < attempts[r])
      BY <2>1, <2>2, <2>3 DEF ForwardFails, ServerTypeOK
    <3>2. attempt[r] <= attempts[r] /\ attempt[r] \in Nat /\ attempts[r] \in Nat
      BY <2>1 DEF IInv, LoopInv, ServerTypeOK
    <3> QED
      BY <3>1, <3>2
  <2>5. Forwarding(r)
    BY <2>1 DEF Forwarding
  <2>6. attempts[r] = Attempts(kind[r]) /\ LoopNeverReturned(r) /\ PoolLen(pool) \in Nat \ {0}
    BY <2>4, <2>5, AttemptsFit DEF TriedInv, TriedOf
  <2> QED
    BY <2>3, <2>4, <2>6 DEF LoopNeverReturned, Attempts, TriedEnough
<1> QED
  BY <1>1, <1>2, <1>3, ServerIInv, PTL DEF ServerSpec, GivesUpAfterDistinctUpstreams

=============================================================================
