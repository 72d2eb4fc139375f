-------------------------------- MODULE Pool --------------------------------
(***************************************************************************)
(* Pool (internal/proxypool/pool.go): the list of upstream proxies and the *)
(* rotation counter.  Both fields are guarded by the pool's own mutex, so  *)
(* every method is one atomic function of the record [proxies, next].      *)
(*                                                                         *)
(* next is a uint64 that is never reset by a selection.  CounterRange is   *)
(* the number of its values, 2^64 in the program.                          *)
(***************************************************************************)
EXTENDS Integers, Sequences, SequencesExt

CONSTANTS
  Proxies,        \* upstream proxies, compared by the URL they hold
  NilProxy,       \* a nil *url.URL in a list passed to Replace
  CounterRange

ASSUME PoolAssumption ==
  /\ CounterRange \in Nat \ {0}
  /\ NilProxy \notin Proxies

Pools == [proxies : Seq(Proxies), next : 0..CounterRange - 1]

EmptyPool == [proxies |-> <<>>, next |-> 0]

PoolLen(p) == Len(p.proxies)

\* The proxy NextWithCycle hands out; the caller has seen PoolLen(p) > 0.
Picked(p) == p.proxies[(p.next % PoolLen(p)) + 1]

\* The counter moves on, and wraps as a uint64 does.
Advanced(p) == [p EXCEPT !.next = (@ + 1) % CounterRange]

CycleComplete(p) == Advanced(p).next % PoolLen(p) = 0

\* One turn of the loop in Replace, which copies the entries that are not nil.
WithoutNil(list, proxy) == IF proxy = NilProxy THEN list ELSE Append(list, proxy)

Copied(list) == FoldLeft(WithoutNil, <<>>, list)

\* Mutant of Installed: the rotation is not restarted.
InstalledKeepsCounter(p, copied) ==
  IF copied = <<>> THEN p ELSE [p EXCEPT !.proxies = copied]

\* The locked half of Replace: an empty copy leaves the pool as it was.
Installed(p, copied) ==
  IF copied = <<>> THEN p ELSE [proxies |-> copied, next |-> 0]

ReplaceErr(copied) == IF copied = <<>> THEN "empty_pool" ELSE "nil"

=============================================================================
