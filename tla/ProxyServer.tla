----------------------------- MODULE ProxyServer -----------------------------
(***************************************************************************)
(* The HTTP proxy (internal/proxyserver/handler.go) in the process that    *)
(* cmd/proxy-pools/main.go builds around it.  Every request is a goroutine *)
(* of net/http running ServeHTTP: the IP allowlist, Ensure (through its    *)
(* contract, module EnsureContract), then handleHTTP or handleConnect,     *)
(* whose retry loop takes one upstream after another from the shared pool. *)
(* A signal makes main stop accepting, drain for a while, and exit.        *)
(*                                                                         *)
(* A request is of one of three kinds: "retryable" (GET or HEAD without a  *)
(* body), "single" (any other plain request, which may have one) and       *)
(* "connect".                                                              *)
(***************************************************************************)
EXTENDS EnsureContract

CONSTANTS
  Kinds,          \* the kinds of requests that arrive
  Clients,        \* addresses requests come from
  AllowedIPs      \* those PROXY_ALLOW_IPS lists; none means no restriction

ASSUME ServerAssumption ==
  /\ Kinds \subseteq {"retryable", "single", "connect"}
  /\ AllowedIPs \subseteq Clients
  /\ \A list \in Lists : list \in Seq(Proxies) /\ list # <<>>

\* ParseProxyList drops the repetitions (PoolIsOneAnswer of ProxySupply).
ASSUME DistinctAssumption == \A list \in Lists : IsInjective(list)

VARIABLES
  phase,        \* main: serving, draining, exited
  stage,        \* where ServeHTTP stands
  kind,
  attempts,     \* the bound of the retry loop, computed before its first turn
  attempt,      \* the turns of the loop begun so far
  tried,        \* history: the upstreams a loop has tried, until a refill
  overtaken,    \* history: selections of others since its first turn, until a refill
  refilled      \* history: requests whose loop was entered before the last refill

loopVars == <<attempts, attempt, tried, overtaken, refilled>>
handlerVars == <<stage, kind, loopVars>>
vars == <<gateVars, phase, handlerVars>>

\* The states in which ServeHTTP has taken a decision on the pool's contents.
Forwarding(r) == stage[r] \in {"select", "forward"}

ServerInit ==
  /\ Init
  /\ phase = "serving"
  /\ stage = [r \in Requests |-> "idle"]
  /\ kind = [r \in Requests |-> "none"]
  /\ attempts = [r \in Requests |-> 0]
  /\ attempt = [r \in Requests |-> 0]
  /\ tried = [r \in Requests |-> {}]
  /\ overtaken = [r \in Requests |-> 0]
  /\ refilled = {}

-----------------------------------------------------------------------------
IsAllowed(client) == AllowedIPs = {} \/ client \in AllowedIPs

\* The handler is through with the request, and the variables of its loop are gone.
Done(r) ==
  /\ stage' = [stage EXCEPT ![r] = "done"]
  /\ kind' = [kind EXCEPT ![r] = "none"]

LeaveLoop(r) ==
  /\ attempts' = [attempts EXCEPT ![r] = 0]
  /\ attempt' = [attempt EXCEPT ![r] = 0]
  /\ tried' = [tried EXCEPT ![r] = {}]
  /\ overtaken' = [overtaken EXCEPT ![r] = 0]
  /\ refilled' = refilled \ {r}

\* isAllowed has said no: 403, before Ensure.
Forbid(r) ==
  /\ phase = "serving" /\ stage[r] = "idle"
  /\ \E client \in Clients : ~IsAllowed(client)
  /\ Done(r)
  /\ UNCHANGED <<gateVars, phase, loopVars>>

\* ServeHTTP calls prepareRequest, which is Ensure.
Serve(r) ==
  /\ phase = "serving" /\ stage[r] = "idle"
  /\ \E client \in Clients : IsAllowed(client)
  /\ Call(r)
  /\ stage' = [stage EXCEPT ![r] = "prepare"]
  /\ \E k \in Kinds : kind' = [kind EXCEPT ![r] = k]
  /\ UNCHANGED <<phase, loopVars>>

\* Ensure's answer, or its refusal, or the end of the request's context.
Prepare(r) ==
  /\ stage[r] = "prepare"
  /\ Ready(r) \/ Refuse(r) \/ Abandon(r)
  /\ UNCHANGED <<phase, handlerVars>>

\* Mutant of PrepareFails: a request whose client is gone is forgotten.
PrepareFailsIfRefused(r) ==
  /\ stage[r] = "prepare" /\ call[r] = "refused"
  /\ Done(r)
  /\ UNCHANGED <<gateVars, phase, loopVars>>

\* proxyError: 502.
PrepareFails(r) ==
  /\ stage[r] = "prepare" /\ call[r] \in {"refused", "abandoned"}
  /\ Done(r)
  /\ UNCHANGED <<gateVars, phase, loopVars>>

\* connectTarget refuses the host of a CONNECT: 502.
BadTarget(r) ==
  /\ stage[r] = "prepare" /\ call[r] = "ready" /\ kind[r] = "connect"
  /\ Done(r)
  /\ UNCHANGED <<gateVars, phase, loopVars>>

\* Mutant of Attempts: any method is retried.
AttemptsAnyMethod(k) ==
  IF PoolLen(pool) < 1 THEN 1 ELSE IF PoolLen(pool) < 3 THEN PoolLen(pool) ELSE 3

\* httpAttempts and its copy in handleConnect: three upstreams, or as many as
\* there are, and one for what cannot be replayed.
Attempts(k) ==
  IF k = "single" \/ PoolLen(pool) < 1 THEN 1
  ELSE IF PoolLen(pool) < 3 THEN PoolLen(pool) ELSE 3

\* Mutant of Dispatch: the error of Ensure is ignored.
DispatchRegardless(r) ==
  /\ stage[r] = "prepare" /\ call[r] \in {"ready", "refused"}
  /\ stage' = [stage EXCEPT ![r] = "select"]
  /\ attempts' = [attempts EXCEPT ![r] = Attempts(kind[r])]
  /\ UNCHANGED <<gateVars, phase, kind, attempt, tried, overtaken, refilled>>

\* handleHTTP or handleConnect computes how often it will try.
Dispatch(r) ==
  /\ stage[r] = "prepare" /\ call[r] = "ready"
  /\ stage' = [stage EXCEPT ![r] = "select"]
  /\ attempts' = [attempts EXCEPT ![r] = Attempts(kind[r])]
  /\ UNCHANGED <<gateVars, phase, kind, attempt, tried, overtaken, refilled>>

\* The turns of a loop and the selections of others between them are at most a pass of
\* the list.  Beyond that the others are no longer counted.
WithinPass(r) == attempts[r] + overtaken[r] <= PoolLen(pool)

\* nextProxy: the next upstream of the pool everyone shares.
Select(r) ==
  /\ stage[r] = "select" /\ PoolLen(pool) > 0
  /\ attempt' = [attempt EXCEPT ![r] = @ + 1]
  /\ tried' = IF r \in refilled THEN tried ELSE [tried EXCEPT ![r] = @ \cup {Picked(pool)}]
  /\ pool' = Advanced(pool)
  /\ stage' = [stage EXCEPT ![r] = "forward"]
  /\ overtaken' = [q \in Requests |->
       IF q # r /\ attempt[q] > 0 /\ q \notin refilled /\ WithinPass(q)
       THEN overtaken[q] + 1 ELSE overtaken[q]]
  /\ UNCHANGED <<call, cancelled, phase, kind, attempts, refilled>>

\* RoundTrip, or openUpstreamTunnel, went through.  A CONNECT looks at its context only
\* while it dials; what follows, from the hijack on, is its tunnel here, and the subject
\* of ConnectTunnel.
ForwardSucceeds(r) ==
  /\ stage[r] = "forward" /\ (r \notin cancelled \/ kind[r] = "connect")
  /\ stage' = [stage EXCEPT ![r] = IF kind[r] = "connect" THEN "tunnel" ELSE "relay"]
  /\ kind' = [kind EXCEPT ![r] = "none"]
  /\ LeaveLoop(r)
  /\ UNCHANGED <<gateVars, phase>>

\* Mutants of ForwardFails: the loop never ends; it ends after the first failure.
ForwardFailsForever(r) ==
  /\ stage[r] = "forward"
  /\ stage' = [stage EXCEPT ![r] = "select"]
  /\ UNCHANGED <<gateVars, phase, kind, loopVars>>
ForwardFailsOnce(r) ==
  /\ stage[r] = "forward"
  /\ Done(r) /\ LeaveLoop(r)
  /\ UNCHANGED <<gateVars, phase>>

\* The upstream failed, or answered with a status that counts as its failure: the
\* loop goes on unless its bound is reached or the request's context is done.
ForwardFails(r) ==
  /\ stage[r] = "forward"
  /\ IF attempt[r] < attempts[r] /\ r \notin cancelled
     THEN /\ stage' = [stage EXCEPT ![r] = "select"]
          /\ UNCHANGED <<kind, loopVars>>
     ELSE Done(r) /\ LeaveLoop(r)
  /\ UNCHANGED <<gateVars, phase>>

\* The body has been copied, or one half of the tunnel has ended.
Relay(r) ==
  /\ stage[r] \in {"relay", "tunnel"}
  /\ Done(r)
  /\ UNCHANGED <<gateVars, phase, loopVars>>

\* ServeHTTP returns; the slot is free for another request.
Finish(r) ==
  /\ stage[r] = "done"
  /\ stage' = [stage EXCEPT ![r] = "idle"]
  /\ call' = [call EXCEPT ![r] = "idle"]
  /\ cancelled' = cancelled \ {r}
  /\ UNCHANGED <<pool, phase, kind, loopVars>>

\* The refresher installs a new list while requests are at work.
Refresh ==
  /\ Refill
  /\ refilled' = refilled \cup {q \in Requests : Forwarding(q)}
  /\ tried' = [q \in Requests |-> {}] /\ overtaken' = [q \in Requests |-> 0]
  /\ UNCHANGED <<phase, stage, kind, attempts, attempt>>

\* Once the answer is under way, the end of the client is the end of Relay.
ClientLeaves(r) ==
  /\ stage[r] \in {"prepare", "select", "forward"} /\ r \notin cancelled
  /\ Cancel(r)
  /\ UNCHANGED <<phase, handlerVars>>

RequestStep(r) ==
  \/ Forbid(r) \/ Serve(r) \/ Prepare(r) \/ PrepareFails(r) \/ BadTarget(r) \/ Dispatch(r)
  \/ Select(r) \/ ForwardSucceeds(r) \/ ForwardFails(r) \/ Relay(r) \/ Finish(r)
  \/ ClientLeaves(r)

-----------------------------------------------------------------------------
\* A signal arrives and main calls server.Shutdown, which closes the listener: a
\* request accepted in between is one that came just before the signal.
Shutdown ==
  /\ phase = "serving" /\ phase' = "draining"
  /\ UNCHANGED <<gateVars, handlerVars>>

\* Shutdown returns once every connection it tracks is idle.  A hijacked one, the
\* client's side of a tunnel, is no longer tracked.
Drained ==
  /\ phase = "draining"
  /\ \A r \in Requests : stage[r] \in {"idle", "tunnel"}
  /\ phase' = "exited"
  /\ UNCHANGED <<gateVars, handlerVars>>

\* Mutant of DrainTimeout: there is no timeout.
DrainTimeoutNever == FALSE /\ UNCHANGED vars

\* The shutdown timeout has passed: server.Close, and main returns.
DrainTimeout ==
  /\ phase = "draining" /\ phase' = "exited"
  /\ UNCHANGED <<gateVars, handlerVars>>

\* ListenAndServe has failed before any signal: Fatalf ends the process.
ListenFails ==
  /\ phase = "serving" /\ phase' = "exited"
  /\ UNCHANGED <<gateVars, handlerVars>>

ServerNext ==
  \/ phase # "exited" /\ (Refresh \/ \E r \in Requests : RequestStep(r))
  \/ Shutdown \/ Drained \/ DrainTimeout \/ ListenFails

ServerSpec == ServerInit /\ [][ServerNext]_vars

\* RoundTrip is sending a body.  Its timeout for the response headers starts only
\* when the body is written, the server has no ReadTimeout, and the connection to the
\* upstream no deadline: a client that stalls, or an upstream that stops reading, holds
\* it for as long as it likes.  Once the context is done it returns.
BodyUnderway(r) == stage[r] = "forward" /\ kind[r] = "single" /\ r \notin cancelled

\* Ensure answers (EnsureReturns of OnDemandRefresher) and a handler goroutine goes on.
\* A round trip without a body ends, because dialing and the wait for the response
\* headers have timeouts and the request's own head is taken to fit the socket's
\* buffers; so does a CONNECT handshake, under its deadline (HandshakeEnds of
\* ConnectTunnel).  How long a client takes to send its body or to read its answer, or
\* keeps a tunnel, is not bounded, so a round trip with a body has no fairness, nor has
\* Relay; the timer of Shutdown does fire.
Progress(r) ==
  \/ Prepare(r) \/ PrepareFails(r) \/ BadTarget(r) \/ Dispatch(r) \/ Select(r)
  \/ ~BodyUnderway(r) /\ (ForwardSucceeds(r) \/ ForwardFails(r))
  \/ Finish(r)

Fairness ==
  /\ \A r \in Requests : WF_vars(phase # "exited" /\ Progress(r))
  /\ WF_vars(DrainTimeout)

FairServerSpec == ServerSpec /\ Fairness

-----------------------------------------------------------------------------
OvertakenTypeOK == overtaken \in [Requests -> Nat]

ServerTypeOK ==
  /\ pool \in [proxies : Lists \cup {<<>>}, next : 0..CounterRange - 1]
  /\ call \in [Requests -> {"idle", "calling", "ready", "refused", "abandoned"}]
  /\ cancelled \subseteq Requests
  /\ phase \in {"serving", "draining", "exited"}
  /\ stage \in [Requests -> {"idle", "prepare", "select", "forward", "relay", "tunnel", "done"}]
  /\ kind \in [Requests -> Kinds \cup {"none"}]
  /\ attempts \in [Requests -> 0..3]
  /\ attempt \in [Requests -> 0..3]
  /\ tried \in [Requests -> SUBSET Proxies]
  /\ OvertakenTypeOK
  /\ refilled \subseteq Requests

\* A request that gets to the retry loop finds an upstream on every turn, although
\* the pool was checked in Ensure and is read again, under another mutex, any time
\* later: the ErrEmptyPool branches (handler.go:158-161, 229-231) are never taken.
LoopFindsUpstream ==
  \A r \in Requests : stage[r] = "select" => PoolLen(pool) > 0

\* What cannot be replayed is sent once: a request with a body or an unsafe method
\* never reaches a second upstream, and no request reaches a fourth (handler.go:318-327).
NeverReplayed ==
  \A r \in Requests :
    /\ kind[r] = "single" => attempt[r] <= 1
    /\ attempt[r] <= 3

\* The request ends in 502 in this step because the upstreams failed.
GivesUp(r) ==
  stage[r] = "forward" /\ stage'[r] = "done" /\ kind[r] # "single" /\ r \notin cancelled

TriedEnough(r) ==
  Cardinality(tried[r]) = IF PoolLen(pool) < 3 THEN PoolLen(pool) ELSE 3

\* A retryable request or a CONNECT comes back to an upstream that has already failed
\* it only if its own turns and the selections of others between them make more than a
\* pass of the list: with fewer of those it fails only after three different upstreams
\* failed, or all of them, unless the list was replaced meanwhile (handler.go:156-186,
\* 227-240).
GivesUpAfterDistinctUpstreams ==
  [][\A r \in Requests :
       GivesUp(r) /\ r \notin refilled /\ WithinPass(r) => TriedEnough(r)]_vars

\* handler_test.go:123, TestHTTPGetRetriesNextUpstream: of two upstreams the first
\* one fails, and the request succeeds through the other.
RetryReachesNextUpstream ==
  [][\A r \in Requests : GivesUp(r) /\ r \notin refilled => TriedEnough(r)]_vars

\* Every request is relayed or answered with an error, or the process ends first; one
\* with a body at least gets to its upstream, and is answered once its context is done
\* (handler.go:110-126, 156-190, 227-248).
RequestsAreAnswered ==
  \A r \in Requests :
    stage[r] # "idle" ~> \/ stage[r] \in {"relay", "tunnel", "idle"} \/ BodyUnderway(r)
                         \/ phase = "exited"

\* A signal ends the process although tunnels and slow clients are never done
\* (main.go:88-108).
SignalEndsProcess == phase = "draining" ~> phase = "exited"

=============================================================================
