----------------------------- MODULE ProxySupply -----------------------------
(***************************************************************************)
(* The upstream proxies from the API's answer to the request that uses     *)
(* one: Fetch, Replace and the schedule in the order Ensure calls them,    *)
(* and NextWithCycle.  Only one refresh is under way at a time             *)
(* (OnDemandRefresher!SingleFlight), and nobody reads the schedule between *)
(* Replace and its update, so that a refresh is one step here; selections  *)
(* come between any two of them, each under the pool's mutex as a whole.   *)
(***************************************************************************)
EXTENDS ScheduleRecovery, Pool, ProxyFetch

CONSTANT Answers       \* the answers of the proxy API

\* The proxies of the pool are the hosts and ports the answers may name.
ASSUME AnswersAssumption ==
  \A answer \in Answers :
    /\ answer.items \in Seq(Items)
    /\ \A i \in DOMAIN answer.items :
         Usable(answer.items[i]) => Key(answer.items[i]) \in Proxies

VARIABLES
  pool,
  last,        \* [proxy, cycle, err] of the last NextWithCycle or Replace
  seen         \* history: the proxies handed out since the pass began

supplyVars == <<vars, pool, last, seen>>

Current == ToSet(pool.proxies)

NoResult == [proxy |-> NilProxy, cycle |-> FALSE, err |-> "nil"]

SupplyInit ==
  /\ Init
  /\ pool = EmptyPool
  /\ last = NoResult
  /\ seen = {}

NextWithCycle ==
  /\ PoolLen(pool) > 0
  /\ last' = [proxy |-> Picked(pool), cycle |-> CycleComplete(pool), err |-> "nil"]
  /\ pool' = Advanced(pool)
  /\ seen' = IF seen = Current THEN {Picked(pool)} ELSE seen \cup {Picked(pool)}
  /\ UNCHANGED vars

NextWithCycleEmpty ==
  /\ PoolLen(pool) = 0
  /\ last' = [NoResult EXCEPT !.err = "empty_pool"]
  /\ UNCHANGED <<vars, pool, seen>>

Replace(list) ==
  /\ pool' = Installed(pool, Copied(list))
  /\ last' = [NoResult EXCEPT !.err = ReplaceErr(Copied(list))]
  /\ seen' = IF Copied(list) = <<>> THEN seen ELSE {}

\* Ensure between its critical sections, and the head of the second one.
RefreshFrom(answer) ==
  LET fetched == Fetch(answer)
  IN  IF fetched.err = "nil"
      THEN Replace(fetched.proxies) /\ Refresh(last'.err)
      ELSE Refresh(fetched.err) /\ UNCHANGED <<pool, last, seen>>

SupplyNext ==
  \/ NextWithCycle
  \/ NextWithCycleEmpty
  \/ \E answer \in Answers : RefreshFrom(answer)

SupplySpec == SupplyInit /\ [][SupplyNext]_supplyVars

-----------------------------------------------------------------------------
Selected == last'.proxy # NilProxy /\ UNCHANGED vars

\* A pass hands out every proxy of the list once before it hands one out again,
\* and the flag of NextWithCycle is raised by the call that ends the pass and by
\* no other, however the calls and the refreshes interleave (pool.go:48-52).  It
\* needs the list of ParseProxyList to be free of repetitions (fetcher.go:191-196).
PassesAreExact ==
  [][Selected =>
       /\ last'.proxy \in seen => seen = Current
       /\ last'.cycle <=> seen' = Current]_<<pool, last, seen>>

\* The list the rotation will follow, starting at the counter.
Turn ==
  [i \in DOMAIN pool.proxies |->
     pool.proxies[((pool.next + i - 1) % PoolLen(pool)) + 1]]

FetchedLists == {Fetch(answer).proxies : answer \in Answers} \ {<<>>}

RR == INSTANCE RoundRobin WITH
        Lists  <- FetchedLists,
        turn   <- Turn,
        Nobody <- NilProxy,
        handed <- <<last.proxy, last.err>>

\* Callers cannot tell fetched list and counter from a queue of proxies: a refresh
\* that fails leaves every later turn as it was (pool.go:40-79, main.go:177-181).
ImplementsRoundRobin == RR!Spec

\* Schedule and pool agree on what a refresh was: one that counts a success or
\* shortens the delay has restarted the rotation with a list that is not empty,
\* and one that lengthens the delay has left every later turn as it was; an answer
\* that is a list and a rate limit at once included (main.go:177-188, fetcher.go:85).
ScheduleFollowsPool ==
  [][/\ (schedule'.current < schedule.current \/ schedule'.successes > schedule.successes)
          => (pool'.proxies # <<>> /\ pool'.next = 0)
     /\ (schedule'.current > schedule.current) => UNCHANGED <<pool, seen>>]_supplyVars

\* The first usable item of each host and port in a body.
FirstUsable(items) ==
  {i \in DOMAIN items :
     /\ Usable(items[i])
     /\ \A j \in 1..i - 1 : Usable(items[j]) => Key(items[j]) # Key(items[i])}

\* A list names every host and port of the items that can be used once, in the order
\* they are first named in, and nothing else.
NamesOnce(list, items) ==
  /\ \A k \in DOMAIN list : \E i \in FirstUsable(items) : list[k] = Key(items[i])
  /\ \A i \in FirstUsable(items) : \E k \in DOMAIN list : list[k] = Key(items[i])
  /\ \A i, j \in FirstUsable(items) : \A k, l \in DOMAIN list :
       list[k] = Key(items[i]) /\ list[l] = Key(items[j]) => (k < l <=> i < j)

\* An answer that came whole, with a status of success and no word of a rate limit.
IsList(answer) ==
  /\ answer.read /\ ~(answer.size > MaxAPIResponseSize)
  /\ answer.status \in 200..299 /\ ~answer.saysTooMany

\* The pool always holds what one answer of the API lists, whole and in its order:
\* every host and port once, where it is first named, and nothing that cannot be
\* used; and that answer was no error page, no rate limit, whatever its status said,
\* and not cut (fetcher.go:67-97, 158-203).  It is empty only until the first refresh
\* succeeds.
PoolIsOneAnswer ==
  pool.proxies # <<>> =>
    \E answer \in Answers : IsList(answer) /\ NamesOnce(pool.proxies, answer.items)

=============================================================================
