------------------------------ MODULE ProxyFetch ------------------------------
(***************************************************************************)
(* Fetcher.Fetch and ParseProxyList (internal/proxypool/fetcher.go): what  *)
(* one answer of the proxy API is taken for.  An answer has what the code  *)
(* tests, in the order it does; its body is a sequence of items, and an    *)
(* item is what url.Parse makes of it.                                     *)
(***************************************************************************)
EXTENDS Integers, Sequences, SequencesExt

CONSTANTS
  MaxPort,       \* 65535
  MaxAPIResponseSize

\* An item without a scheme is read as an http one; "junk" does not parse.
Schemes == {"none", "http", "https", "junk"}

Items == [scheme : Schemes, host : STRING, port : Int, bare : BOOLEAN]

\* What Fetch may meet: no answer at all (no URL, transport, read error), or one.
NoAnswer == [read |-> FALSE, size |-> 0, status |-> 0, saysTooMany |-> FALSE, items |-> <<>>]

Usable(item) ==
  /\ item.scheme \in {"none", "http"}
  /\ item.host # ""
  /\ item.port \in 1..MaxPort
  /\ item.bare                     \* no path, query or fragment

\* The text of the host and port: what ParseProxyList compares.  A port is written
\* without leading zeros here, so that one text is one number.
Key(item) == <<item.host, item.port>>

\* Mutants of Kept: repeated entries are kept; the hosts are compared alone.
KeptAll(list, item) == IF Usable(item) THEN Append(list, Key(item)) ELSE list
KeptByHost(list, item) ==
  IF Usable(item) /\ item.host \notin {list[i][1] : i \in DOMAIN list}
  THEN Append(list, Key(item)) ELSE list

\* One turn of the loop: the item is appended, or skipped.
Kept(list, item) ==
  IF Usable(item) /\ Key(item) \notin ToSet(list) THEN Append(list, Key(item)) ELSE list

ParseProxyList(items) == FoldLeft(Kept, <<>>, items)

Failed(err) == [err |-> err, proxies |-> <<>>]

\* Mutant of Fetch: the text of an answer is not looked at.
FetchTrustsStatus(answer) ==
  IF /\ answer.read /\ answer.size <= MaxAPIResponseSize /\ answer.status \in 200..299
     /\ ParseProxyList(answer.items) # <<>>
  THEN [err |-> "nil", proxies |-> ParseProxyList(answer.items)]
  ELSE Failed(IF answer.status = 429 THEN "rate_limited" ELSE "fetch_failed")

\* A body that is too long or not read fails before its status is looked at, and
\* the text of a failure that is not a 429 does not make it a rate limit.
Fetch(answer) ==
  LET proxies == ParseProxyList(answer.items)
  IN  IF ~answer.read \/ answer.size > MaxAPIResponseSize THEN Failed("fetch_failed")
      ELSE IF answer.status = 429 THEN Failed("rate_limited")
      ELSE IF answer.status \notin 200..299 THEN Failed("fetch_failed")
      ELSE IF answer.saysTooMany THEN Failed("rate_limited")
      ELSE IF proxies = <<>> THEN Failed("fetch_failed")
      ELSE [err |-> "nil", proxies |-> proxies]

=============================================================================
