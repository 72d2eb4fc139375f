---------------------------- MODULE MCProxySupply ----------------------------
(***************************************************************************)
(* One tick is a second; the schedule's constants are the ones of the      *)
(* source, and the configured intervals lie below, at and above each of    *)
(* them.  The bodies name up to three proxies, two of them on one host,    *)
(* among items of every kind the parser skips.  No list is a rotation of   *)
(* another one, or RoundRobin could take a pool that goes on in the middle *)
(* of its new list for one that was given the rotated list.  CounterRange  *)
(* is a multiple of every length: no run of the program wraps a 64-bit     *)
(* counter.                                                                *)
(***************************************************************************)
EXTENDS ProxySupply

MCConfigured == {1, 19, 20, 21, 30, 39, 40, 41, 59, 60, 61, 119, 120, 121, 180, 3600}

Item(scheme, host, port, bare) ==
  [scheme |-> scheme, host |-> host, port |-> port, bare |-> bare]

a == Item("none", "h1", 1, TRUE)
b == Item("none", "h1", 2, TRUE)
c == Item("http", "h2", 1, TRUE)

Skipped ==
  {Item("https", "h1", 1, TRUE), Item("junk", "h1", 1, TRUE), Item("none", "", 1, TRUE),
   Item("none", "h2", 0, TRUE), Item("none", "h2", MaxPort + 1, TRUE),
   Item("http", "h1", 2, FALSE)}

MCProxies == {Key(a), Key(b), Key(c)}

\* The bodies of the answers.  In three of them a proxy is named twice.
Bodies ==
  {<<>>, <<a>>, <<a, [a EXCEPT !.scheme = "http"]>>, <<b, a, b>>, <<a, b, c, b>>,
   <<a, b, c>>, <<c>>, <<c, a>>}
    \cup {<<i>> : i \in Skipped} \cup {<<i, b, i, c>> : i \in Skipped}

Ok(items) ==
  [read |-> TRUE, size |-> MaxAPIResponseSize, status |-> 200, saysTooMany |-> FALSE,
   items |-> items]

\* Answers that are no lists name proxies in an order no list has.
MCAnswers ==
  {NoAnswer} \cup {Ok(items) : items \in Bodies} \cup {[Ok(<<a>>) EXCEPT !.status = 299]}
    \cup {answer \in {[Ok(<<c, b>>) EXCEPT !.status = s, !.saysTooMany = t, !.size = z] :
                         s \in {199, 200, 299, 300, 429, 500}, t \in BOOLEAN,
                         z \in {MaxAPIResponseSize, MaxAPIResponseSize + 1}} : ~IsList(answer)}
=============================================================================
