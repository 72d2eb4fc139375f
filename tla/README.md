# A verification project for proxy-pools

`proxy-pools` is one Go program with two modes. In **proxy mode** it is an HTTP proxy
that forwards every request through one of a list of upstream proxies, which it fetches
from a proxy API when a request needs it. In **subscription mode** it merges Clash
subscriptions, writes a configuration with one local listener per node, and supervises
a Mihomo process that serves them. In subscription mode it is a systemd service, and the
`pp` command changes its subscriptions. This directory holds TLA+ modules that model both,
TLC configurations that check them on small instances, and proofs that TLAPS checks for
every instance. Paths below are relative to the repository.

## 1. Inventory

| Part | State | Operations | Interacts with |
|---|---|---|---|
| `refreshSchedule`, `cmd/proxy-pools/main.go:213` | `base`, `current`, `successesAtBackoff` | `newRefreshSchedule`, `delay`, `rateLimited`, `succeeded` | owned by the refresher, touched under its mutex |
| `Pool`, `internal/proxypool/pool.go` | `proxies`, `next`, its own mutex | `NextWithCycle`, `Replace`, `Len` | the refresher replaces the list, the handlers select from it |
| `onDemandRefresher`, `main.go:115` | `nextRefresh`, `lastErr`, `inFlight`, the schedule | `Ensure` | called by every request; calls `Fetch`, then `Replace` |
| `Handler`, `internal/proxyserver/handler.go` | none of its own; the loop variables of each request | `ServeHTTP`, `handleHTTP`, `handleConnect` | `Ensure`, then the pool, then an upstream |
| CONNECT tunnel, `handler.go:276-388` | two connections, a deadline, two buffered readers, the `done` channel | `openUpstreamTunnel`, `tunnel`, `copyHalf` | two goroutines besides the handler's |
| `main` in proxy mode, `main.go:48-109` | the server, `rootCtx` | serve, `Shutdown`, exit | signals; the requests still at work |
| Listener ports, `main.go:536-586, 695` | `portByName`, `ports.tsv` | load, allocate, write | the supervisor; read again after a restart |
| Managed Mihomo, `main.go:383-525` | the subscription in effect, the process, six files | boot, select, fetch, stop, start, wait until ready | SIGHUP, SIGTERM, a ticker, Mihomo, systemd, `deploy/pp` |
| Listener credentials, `main.go:588-673` | `auth.tsv`, `listeners.tsv`, `proxies.json` | read, complete, rewrite | `pp reset-auth` empties `auth.tsv` from outside |
| Proxy API fetcher, `internal/proxypool/fetcher.go` | none | `Fetch`, `ParseProxyList` | the API; the refresher, which owns it |
| Clash subscriptions, `internal/clash/config.go`, `main.go:457` | none | `DownloadURL`, `Parse`, `MergeSubscriptions`, `ExportJSON`, `PrepareRuntimeConfig` | the supervisor, which gives them the port map |
| Mihomo download, `internal/mihomo/managed.go` | the cached binary | `DownloadLatest`, `Start` | the supervisor, before anything else |
| Mihomo client, `internal/mihomo/client.go` | none | `WaitReady`, `PutListener` | Mihomo's controller |
| `pp`, `deploy/pp` | the encrypted subscription list, the environment file | `add`, `remove`, `update`, `reset-auth`, `restart`, ... | systemd; the supervisor's files |
| Service, `deploy/install.sh`, `proxy-pools.service` | active, waiting to be restarted, or not | the wrapper, restart on failure | decrypts the list `pp` writes for the program |

What is hard here, and what makes each part correct:

* **Refresher.** Requests meet in `Ensure`, which releases its mutex to wait and to fetch.
  One fetch for all of them, no waiter left behind, no answer that the pool contradicts,
  no API call sooner than the schedule allows.
* **Handler.** The pool is checked in `Ensure` and read again later, under another mutex,
  turn by turn of a retry loop that shares the rotation with all other requests. The loop
  must find an upstream, must not repeat what cannot be repeated, and should reach upstreams
  that differ.
* **Tunnel.** Three goroutines, two connections, a deadline, four ways to fail on each
  attempt. Nothing may leak, no byte may be lost, nothing may hang.
* **Shutdown.** Some requests never end; the process must.
* **Ports and passwords.** Users keep them in other programs. They must be unique, and
  survive refreshes, restarts and, as far as in-place rewriting allows, crashes.
* **Answers of the API.** They may be broken, rate limited, repetitive, or a list and a rate limit at once. The
  pool, the schedule and the rotation must take an answer for the same thing.
* **Subscriptions.** Several documents, one list of nodes, three files that describe it. Names repeat, documents
  break; users and Mihomo must be told the same.
* **Changes of the subscriptions.** `pp` rewrites a file without a lock and restarts a service that may be
  reading it, downloading its binary or waiting to be restarted. What `pp` reports must be what is stored, what
  is stored must be what runs in the end, and no kill may leave something half-written that is taken for whole.
* **Supervisor.** One Mihomo at a time, files and process that agree whatever step fails,
  no signal lost, and an end when asked for.

`PROJECT.json` lists the hazards at their lines with the properties that cover them.

## 2. Modules

    RefreshSchedule   ProxyFetch   Pool              Subscriptions     MihomoDownload
       |    \             |       /  |  \                  |                 |
       |  ScheduleRecovery|     /    |   \           ListenerPorts      ServiceStart
       |              \   |    /     |    \                |              /
       |             ProxySupply     |   EnsureContract  Publication    /
       |               |     :       |     :      |             \     /
       |               |  RoundRobin |     :   ProxyServer   SubscriptionProofs
       +----------- OnDemandRefresher......+
                                                      ManagedMihomo   ConnectTunnel
       DataLemmas, SupplyProofs,                            |               |
       RefresherProofs, ServerProofs                  ManagedProofs    TunnelProofs

Lines are `EXTENDS`, dots an implementation shown with `INSTANCE ... WITH`: `ProxySupply` implements `RoundRobin`,
`OnDemandRefresher` implements `EnsureContract`. `SubscriptionProofs` extends both `Publication` and `ServiceStart`.
The proofs about `ProxySupply`, `OnDemandRefresher` and `ProxyServer` share `DataLemmas`; those about loops
instantiate `Folding` with the operator that is folded.

`RefreshSchedule` and `Pool` are data types: a record and the pure function each method is
of it. They are modules without variables because their owner's mutex makes every method
atomic. `ProxyFetch`, `Subscriptions` and `ListenerPorts` have none because the functions they model keep no state. The other modules are state machines.

**RefreshSchedule / ScheduleRecovery.** The record has the struct's three fields; durations
are ticks, and `Doubled` wraps as `time.Duration` does. `ScheduleRecovery` applies any
sequence of refresh results to one schedule.

**ProxyFetch.** An answer of the API has what `Fetch` tests of it, in the order it does: was it read, its length,
its status, whether its text says "too many requests", its items. An item is what `url.Parse` makes of it.
`ParseProxyList` folds one turn of the code's loop (`Kept`) over the items.

**Pool / ProxySupply / RoundRobin.** `next` is a counter that only a replacement resets; it
is taken modulo the list's length at each selection. `RoundRobin` knows only a queue. `ProxySupply` composes
fetcher, pool and schedule as `Ensure` calls them (`RefreshFrom`) with the selections of requests in between,
maps counter and list to the queue (`Turn`), and implements `RoundRobin`.

**OnDemandRefresher.** A request is a goroutine, and `pc` says where in `Ensure` it stands;
the steps are cut exactly where the code releases `r.mu` or blocks:

| Action | Code |
|---|---|
| `AwaitFlight`, `Wake`, `GiveUp` | `main.go:147-158`: take the channel under the lock, wait on it without |
| `AnswerFromPool` | `160-171`: not due yet, answer from the pool and the last error |
| `BeginFetch` | `173-177`: publish a channel, unlock, fetch |
| `FetchSucceeds`, `FetchFails` | `177-181`: `Fetch` returns; `Replace` under the pool's mutex |
| `Publish` | `183-210`: schedule, `nextRefresh`, `lastErr`, `close(done)`, the answer |
| `Tick` | time; `wait` is how far ahead `nextRefresh` is |
| `Stop` | `51`: `rootCtx`, under which `Fetch` runs, is done |

A channel is a value of `Channels`; one that no variable holds may be made again, which is
what garbage collection allows. `EnsureContract` is what callers may rely on: the pool is
filled only while somebody is in `Ensure`, *ready* only with proxies, *refused* only without,
*abandoned* only by a request whose context is done.

**ProxyServer** is built on the contract, not on the refresher: `Prepare` is its `Ready`,
`Refuse` or `Abandon`, `Refresh` its `Refill`. `Dispatch` computes the number of attempts,
`Select` takes the next upstream of the shared pool, `ForwardSucceeds` and `ForwardFails`
are the round trip or the tunnel's handshake, and `Shutdown`, `Drained`, `DrainTimeout` and `ListenFails`
are the ends of `main`. The IP allowlist is in `Forbid` and `Serve`. Two histories say who disturbs a retry loop:
`overtaken` counts what others select between its turns, until that makes more than a pass of the list; `refilled` has the loops
whose list was replaced, of which nothing more is recorded.

**ConnectTunnel** is one CONNECT in detail: dial, deadline, handshake, hijack, two copying
goroutines, the first end that closes both connections. Per direction it counts bytes sent,
taken from the socket, held in a buffered reader, and delivered. When the client cannot be answered, the deferred
calls close the body of the upstream's 200 before its connection, which may read that body to its end (`discard`).

**Subscriptions** is what `internal/clash/config.go` computes: `Merge` folds one turn of the merge's loop over the
items of all documents; `ListenerList`, `ExportJSON` and `RuntimeListeners` are the three views of the result.
A name is the trimmed one, and an item says whether its text has blanks around it, which decides whether
`ExportJSON` finds its port.

**ListenerPorts** is `allocateListenerPorts` as a fold over the node list. **Publication** runs both inside the
supervisor: a start or a refresh downloads what the servers happen to answer, merges, allocates, and writes
`ports.tsv`, `listeners.tsv`, `proxies.json` and `config.yaml` one after the other; the port map is kept
in memory from one refresh to the next and in `ports.tsv` from one run to the next. A crash, or a failed write,
leaves part of the file, its last line cut inside the number. The other three files are
never read back, so what an earlier start left in them is not kept.

**MihomoDownload / ServiceStart.** The program's first steps, `DownloadLatest`, are part of the service's way from
the wrapper to a running Mihomo (`stage`): `Decrypt`, `FromCache` or `Download`, `Write`, `Rename`, `Runs`. Any of
them may fail, and the service waits and starts again. `pp add` and `pp remove` are processes of their own, any
number of them at a time, that read and rewrite the list (`stored`):

| Action | Code |
|---|---|
| `Load` | `deploy/pp:28-36, 55-57, 130-140`: decrypt, compare, and leave if nothing changes |
| `Cut`, `SaveSubscriptions` | `38-45, 141-145`: `install` replaces the file before it writes it, or `rm` |
| `TestFinds`, `Restart`, `StopService` | `59, 147-152`: `remove` looks at the file again to choose |
| `Interrupt` | the command is killed |
| `Decrypt`, `NothingToDecrypt` | `deploy/install.sh:66-80`: the wrapper |
| `Fails`, `RestartSec` | `proxy-pools.service:16-17` |

`told` is what the commands have reported as configured; it is emptied when commands overlap or one is killed,
and filled again when somebody looks (`pp subscriptions`) and restarts (`Recover`).

**ManagedMihomo** is the supervisor, one step for each file it writes. Around it: Mihomo,
which may die at any time; systemd, which kills the control group when the supervisor has
ended and starts it again; the subscription servers; SIGHUP and SIGTERM; and `pp reset-auth`
in its two steps. `os.WriteFile` empties a file before it writes, so a crash and a failed write may
both leave the file of the moment empty or cut (`DiskMayTear`). A subscription stands for its nodes and ports, and one password for the
credentials of a node that is in all subscriptions. The process is named `first` or `later`
because the deferred `stopManagedMihomo(cmd)` of line 418 keeps the first one.

History variables (`age`, `calm`, `seen`, `tried`, `overtaken`, `refilled`, `served`, `lost`, `revoked`,
`asked`, `trouble`, `told`) let a property speak of the past. No guard of the code's own actions reads them; only
`Recover`, somebody's repair of the list, waits for `trouble`.

A definition whose comment begins with "Mutant of" is a plausible mistake in the definition
after it. No specification uses it. `PROJECT.json` names for each checked property a
mutant that violates it, which shows that the property can fail.

## 3. Runs

| Run | Question | Instance | States |
|---|---|---|---|
| `proxy_supply` | Do pool, schedule and rotation take every answer for the same thing? | 44 answers, the real constants in seconds, 16 intervals around them; counter range 12 | 11 k |
| `refresher` | Is `Ensure` safe, and does it implement its contract? | 3 requests, 3 channels, 2 lists, tick of 20 s | 0.7 M |
| `refresher_live` | Does every call of `Ensure` return? | 2 requests | 0.2 M |
| `proxy_server` | What do retry loops find when others overtake them and refill the pool; are requests answered, does a signal end the process? | 2 requests of 3 kinds, lists of 4 and of 1 | 0.5 M |
| `retry_interference` | Does a retry reach the other upstream? (it may not) | 2 requests, a list of 2 | violated |
| `connect_tunnel` | Does a tunnel leak, lose bytes, or hang? | 2 attempts, 2 bytes each way | 18 k |
| `publication` | Are ports unique and stable, and do the three files agree? | 31 pairs of documents, 3 names, ports 1..4, `portStart` 1 or 3 | 8.8 k |
| `ports_stolen` | Does an existing node always keep its port? (it does not) | the same | violated |
| `export_remote` | Does the export name local listeners only? (it does not) | the same | violated |
| `managed_mihomo` | What runs, what is published, are signals honoured? | 2 subscriptions, 2 passwords | 0.26 M |
| `reset_race` | Does `pp reset-auth` change the passwords? (not always) | the same | violated |
| `service_start` | Is what `pp` reports stored, and what is stored run in the end? | 2 commands, 2 URLs, a size limit of 1 and sizes 1 and 2 | 0.27 M |

**Why the bounds suffice.** The 44 answers are every order of the tests in `Fetch` at their limits, and bodies that
name up to three proxies, two of them on one host, once or twice, among every kind of item that is skipped; a
list of three makes a pass with a first, a middle and a last turn. The answers that are no lists name proxies in an order no
list has, and the documents that are no subscriptions a node no other one has, so that one taken for good would show. A counter range of 12 is a multiple of every
list length, as no run of the program reaches the end of 64 bits. Three requests are a fetching one, one that
waits on its channel, and one that
comes when the fetch has ended; the proofs cover any number. With ticks of 20 seconds the
minimum interval is 1, the back-off 2, and 3 stands for the two minutes: one interval equals
the minimum and one lies above it, and the maximum differs from both. Two requests are a
retry loop and whoever overtakes it, as often as it likes; with a list of four a loop of three turns may be overtaken once within a
pass of the list, and more often beyond it, and a list of one is shorter than its bound. Two bytes let one be in the buffer and one in the socket, two attempts make one
retry. Two documents whose names overlap, repeat, have blanks or are missing give the merge an item to keep and one
to drop within and across documents; three nodes and four ports reach a full range, a port below `portStart`, and a
node that comes back. Two subscriptions of `ManagedMihomo` are a change and the way back. Two URLs are an only, a first
and a last entry, and two commands overlap at every step; the download needs sizes at and above its limit only.

**`CHECK_DEADLOCK FALSE`** is in the runs of `ProxyServer`, whose process exits, and of
`ConnectTunnel`, whose handler returns.

**Fairness.**
* `OnDemandRefresher`: weak fairness of a request's steps in `Ensure`. The scheduler runs
  runnable goroutines, `sync.Mutex` hands itself to a starving waiter, and `Fetch` ends by its
  client's timeout (a positive option). `PromptSpec` adds that time does not pass over
  a goroutine that can take its next step: the shortest delay is 20 seconds, and a waiter that is
  not run for 20 seconds after its wakeup could meet the next fetch, again and again.
* `ProxyServer`: weak fairness of the steps of a handler that have a timeout or none to wait for,
  and of the shutdown timer. None for `Relay`: a client may read as slowly as it likes. None for the round trip of a request
  that may have a body, unless its context is done (`BodyUnderway`): the timeout for the response headers (`handler.go:100`)
  starts when the body is written, and neither the server (`main.go:79-84`) nor the connection has one before, so a client that
  stalls or an upstream that stops reading holds it. A request of another method without a body is in the same kind and is
  not promised more. For a request without a body the head is taken to fit the buffers of the socket.
* `ConnectTunnel`: weak fairness of the handler's own steps, of the dialer's and the handshake's
  timeouts, of operations on a closed connection, and of the read of a body (`discard`) whose upstream has ended.
  None for what a peer does: neither answers, nor sends, nor reads, nor ends. The dial timeout is positive (`parseConfig`).
* `ServiceStart`: weak fairness of the service's way to a running Mihomo, and strong fairness of the steps that may
  fail (download, write, rename, the subscriptions' fetch): each is tried again after every `RestartSec`, and is
  taken not to fail for ever. None for `pp` commands: nobody has to finish one.
* `ManagedMihomo`: weak fairness of the supervisor: downloads and `WaitReady` have timeouts, and
  Mihomo is taken to end on SIGTERM, for `stopManagedMihomo` waits without one. Strong
  fairness of the select's `ctx.Done` case, since Go picks a ready case at random.

## 4. Disagreements with what the repository says

1. **A retry may meet the upstream that just failed** (`retry_interference`). The loop of
   `handleHTTP` and of `handleConnect` takes the next upstream of the rotation that all requests share. With
   two upstreams, one broken, a second request between the two turns makes both turns
   reach the broken one: 502, though `TestHTTPGetRetriesNextUpstream` (`handler_test.go:123`) says the
   working one answers. `GivesUpAfterDistinctUpstreams` is what does hold: a loop comes back to an upstream only when
   its turns and the selections of others between them make more than a pass of the list.
2. **A new node may take an existing node's port** (`ports_stolen`). README.md:73 says that existing nodes keep
   their ports when possible; a new node listed before an old one takes the first port that no
   *earlier* node uses (`main.go:573-576`). `LosesPortOnlyToEarlierNode` says what holds.
3. **A padded name is exported with its remote endpoint** (`export_remote`). `ExportJSON` looks the port up by the
   name as it is written (`config.go:69`), the map has trimmed names (`config.go:253`); Mihomo's configuration trims, so the
   listener exists, but the export names the node's own server. The comment at `config.go:46-47` says that the endpoint
   is the local listener. `ViewsAgree` is what holds for all other names.
4. **`pp reset-auth` may change nothing** (`reset_race`). `loadListenerAuth` reads `auth.tsv` and later rewrites it;
   emptied in between, during a refresh or a start, it gets the old passwords back, and the restart
   loads them (`main.go:619-652`, `deploy/pp:184-188`).

## 5. Proofs

Eight modules hold proofs. Two of them are shared by the others:

* **Folding**: induction along a sequence. The library's induction theorems take a predicate as a parameter, which the
  installed provers cannot instantiate. `IntervalInduction` does without: a subset of `0..n` that has 0, and with every number
  the next, is the whole of it, because the numbers it lacks have a least one (`LeastOfNaturals`, from the library's
  well-founded orders). With it `FoldSteps` shows that `FoldLeft`, as the community modules define it, goes through the values that
  the loop's body makes of each element in turn. A module that proves something of a loop names what
  the loop has done after `k` elements, and shows that one turn keeps it.
* **DataLemmas**: what each method of the schedule and of the pool returns. `AdvancedMoves` says where the rotation stands after a
  selection: one place on in the list, and after the last place at the first.

On them rest:

* **SupplyProofs**, in four parts.
  *Schedule*: the type invariant, `DelayWithinBounds`, `RecoveryTakesThreeSuccesses` and
  that only a success shortens the delay, for every set of intervals. `IInv` ties the history variable `calm` to the
  schedule's own count: without that, a step could not know that a count of 2 means two successes.
  *Composition*: the schedule inside `ProxySupply` is a run of `ScheduleRecovery` for any set of answers, so the theorems
  above hold of it; and `ScheduleFollowsPool`. `RefreshFromEffect` says what a refresh does to pool and schedule by the
  error it ends with; the rest is the schedule's own invariant.
  *Pool*: `PoolIsOneAnswer`. Only an answer that came whole, with a status of success and no word of a rate limit, is installed (`OnlyListsAreFetched`). The loops of `ParseProxyList` and `Replace` are unfolded; after `k` items the list has each usable
  host and port among them once, where it is first named, in order.
  *Rotation*: `PassesAreExact` and `ImplementsRoundRobin`. `SeenInv` says that what a pass has handed out is the list up to the counter,
  or all of it, or nothing yet. For the refinement, a selection that moves the counter one place on is shown to move the head of
  the queue `Turn` to its end, and a refresh to install the queue it fetched or to leave it alone; every step maps to a step of
  `RoundRobin` or to a stutter.
* **RefresherProofs**: for any number of requests, channels and lists, all the properties of the
  `refresher` run, the type invariant, and that whoever is let through finds a proxy. The invariant `IInv` has four parts.
  *Types*. *Flight*: at most one request is between the two critical sections; it holds the channel that is `inFlight`,
  which is open, and a waiter holds that one or a closed one. *Answers*: a success is recorded, carried or answered only
  with proxies in the pool, and an unexpired countdown after a success means the pool has some. *Clock*:
  what has passed since the last fetch and what is left of the countdown add up to at least the delay.
  `SingleFlight` alone is not inductive: a closed `inFlight`, or a waiter with the nil channel, would satisfy it and
  break it at the next step. `RefresherImplementsContract` shows that `Init` maps to the contract's
  `Init` and that each step maps to one of its steps or to a stutter.
* **ServerProofs**: `LoopFindsUpstream`, `NeverReplayed`, `GivesUpAfterDistinctUpstreams` and the type invariant of `ProxyServer`, for any
  number of requests and any lists without repetition. `IInv` adds to the types what Ensure has answered at each stage, and that a
  pool once filled is never empty again (so that `ready` stays true while others select and refill), and where a turn of
  the loop stands below its bound. The third property needs `TriedInv`: while its own turns and the selections of others between them fit in
  one pass of the list, what a loop has tried are `attempt` different places among those the rotation has just passed (`Behind`), and its bound is still the one that
  follows from the pool. A selection of another request counts as overtaking every loop that has begun; a refresh marks every loop under way.
* **TunnelProofs**: the three safety properties of `connect_tunnel`, the type invariant, and that no byte is skipped, for any
  number of attempts and bytes. `IInv` has a part for each resource: the streams (what is delivered and held is what was taken, and that
  is at most what was sent), the connections (who has which one at which step), the deadline, the
  copying goroutines (each that ended has put one value into `done`), and what an ended copy means while both
  connections are whole. `NothingLeaks` speaks of the end only; without the connections' part nothing is known of the step before it.
* **ManagedProofs**: `OneMihomo`, `ServedIsPublished`, `FailedStartLeavesNone`, `PasswordsSurvive` and the type invariant, for any subscriptions
  and passwords. `IInv` adds which files this start has written so far (`auth.tsv` may have been emptied again since), and which
  process may run at each step; the deferred stop of the first process is why the latter tells `first` from `later`. `KeptInv` follows the last password through the next start: it is in
  `auth.tsv` and in the memory of a start that has read it, unless the file was emptied, or torn while it was written (`TornFilesTyped` says what
  a torn write leaves).
* **SubscriptionProofs**, for any documents, names, numbers of nodes and ports, URLs and commands, in three parts.
  *Publication*: all safety properties of the `publication` run. `MergedFrom` says what the two nested loops of the merge have kept
  once they have passed some of the items: the first of each name, in order; a merge that did not fail has seen no document that is none. `Allotted` says what the allocation has done after `k` nodes:
  each has a port of its own; every port from `portStart` to below `nextPort` is in use, so the search that never goes back misses
  no free one and gives up only when there are more nodes than ports (a count of the ports in use,
  `FullMeansMore`); and whoever lost a port lost it to a node before. `PublicationInv` carries this
  over the steps: what is in memory is the merge and the allocation of the documents in effect (`InEffect`), and each
  file holds what follows from it, from the step after its own on (`Written`). The properties speak of the end of a start;
  they are not inductive, because they say nothing of the steps in between.
  *Binary*: `CachedBinaryIsWhole`. The binary in memory is as sound as the cached one (`DownloadInv`).
  *Stored list*: `RunsWhatIsStored`, `StoreIsAsReported` and the type invariant. For the first (`StaleInv`), a service with
  another list than the stored one implies a command that still has to restart or stop it, or that was killed. For the second
  (`StoreInv`), a command that is alone carries its change from its plan to the store (`Underway`): at every step the list is either still as
  reported or already with the change of the command that has yet to report it. That includes what `grep -Fvx` leaves of the list (`WithoutIs`).

Each module with constants names what it assumes of them (`ScheduleAssumption`, `PoolAssumption`, `RefresherAssumption`,
`ServerAssumption`, `DistinctAssumption`, `AnswersAssumption`, `SubscriptionAssumption`, `CutPortsAssumption`, `PublicationAssumption`,
`TunnelAssumption`, `ManagedAssumption`, `DownloadAssumption`, `ServiceAssumption`), and TLC evaluates
these on every run that extends the module. `DistinctAssumption`, that no list has a proxy twice, is what `PoolIsOneAnswer`
says of every list the fetcher installs. Five theorems (`ScheduleDelayWithinBounds`, `ScheduleRecoversSlowly`,
`ScheduleTroubleNeverShortens`, `SupplyScheduleFollowsPool`, `RefresherFetchesAreSpaced`) have the hypothesis `NoOverflow`: twice the configured
interval fits in a `time.Duration`, that is,
it is below 146 years. For longer ones the doubled delay is negative and the back-off falls to 40 seconds.

Three theorems (`SupplyPassesAreExact`, `SupplyImplementsRoundRobin`, `ServerGivesUpAfterDistinctUpstreams`) speak of runs in which the
64-bit counter does not wrap in the middle of a pass (`KeepsPass`): it would take 2^64 selections without a refresh. At
such a wrap the claim is really false, for 2^64 is not a multiple of 3 and a list of three would hand out its first proxy twice in a
row. `SupplyNeverBreaksPass` and `ServerNeverBreaksPass` show that a counter whose range is a multiple of every list's length never
breaks a pass, so that for it the theorems hold of every run; that is the case for lists whose lengths are powers of two in the program, and for
all lists in the runs.

**Model-checked only.** Liveness (`EnsureReturns`, `RequestsAreAnswered`, `SignalEndsProcess`, `OneEndEndsBoth`, `HandshakeEnds`,
`UpdateIsHonoured`, `StopEnds`, `StoredListIsRun`), which is out of the prover's reach. Every invariant and every action property
of a passing run, and both refinements, are proved, under the hypotheses named above.

## 6. Not modelled

* Headers, trailers, bodies, the transport's connection pool; which statuses of an upstream count as its failure. An upstream
  that breaks in the middle of a chunked body is therefore not told from one that ends it.
* Credentials of upstreams, log lines and the redaction of URLs in `Fetch`.
* Of a Clash document, everything but the list of proxies, their names and endpoints.
* Node names with tabs or the name `NAME`, which the TSV files cannot hold.
* The merge of `auth.tsv` by node name; a second process on the controller's address; a SIGHUP that reaches Mihomo as well, or
  the wrapper before it has become the program; systemd's limit on how often a unit may be started in a row.
* One-shot synchronisation (`-clash-config`): PUT requests without state of their own. Configuration: flags and environment.
* The installer, but for the wrapper and the start at its end; `pp listen` and `pp allowlist`, which change a line of the
  environment file and restart; `pp export`, which formats what `proxies.json` says.

## 7. Plan

Done, in this order: schedule, pool, refresher, contract, server, tunnel, ports, supervisor; then fetcher, subscriptions and
published files, download, service and `pp`; proofs of the schedule, the refresher, the server, the tunnel, the supervisor and
the service; then of the loops: the supply's pool and rotation, the merge, the allocation, the published files, the stored list, and
the upstreams a retry loop tries.

1. *Prove.* That `EnsureContract`, as `ProxyServer` uses it, is what `OnDemandRefresher` gives it with `ProxySupply`'s pool inside (now
   shown for each by itself).
2. *Extend.* Credentials by node in `ManagedMihomo`, a foreign process on the controller's address, failure statuses of an
   upstream in `ProxyServer`.
