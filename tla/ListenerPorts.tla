---------------------------- MODULE ListenerPorts ----------------------------
(***************************************************************************)
(* allocateListenerPorts (cmd/proxy-pools/main.go), which gives each node  *)
(* the port of its local listener, and what a crash leaves of the file the *)
(* ports are kept in.                                                      *)
(***************************************************************************)
EXTENDS Subscriptions

CONSTANT CutPorts      \* what a line of ports.tsv that was cut may read as its port

ASSUME CutPortsAssumption == CutPorts \subseteq 1..MaxPort

NoPorts == [n \in {} |-> 0]

PortMaps == UNION {[S -> 1..MaxPort] : S \in SUBSET Names}

Grant(acc, name, port) ==
  [acc EXCEPT !.ports = [n \in DOMAIN @ \cup {name} |-> IF n = name THEN port ELSE @[n]]]

Used(acc) == {acc.ports[n] : n \in DOMAIN acc.ports}

Free(acc) == (acc.nextPort..MaxPort) \ Used(acc)

\* The first free port from nextPort on, or the end of the range.
Take(acc, name, free) ==
  IF free = {} THEN [acc EXCEPT !.full = TRUE]
  ELSE LET port == CHOOSE p \in free : \A q \in free : p <= q
       IN  [Grant(acc, name, port) EXCEPT !.nextPort = port + 1]

\* Mutants of Place: the range has no end; an existing port is kept without looking
\* at the ports in use; the last port is never given out; existing ports are ignored.
PlaceUnbounded(acc, name, existing) ==
  Take(acc, name, (acc.nextPort..MaxPort + 9) \ Used(acc))
PlaceKeepsAlways(acc, name, existing) ==
  IF acc.full THEN acc
  ELSE IF name \in DOMAIN existing THEN Grant(acc, name, existing[name])
  ELSE Take(acc, name, Free(acc))
PlaceStopsShort(acc, name, existing) ==
  IF acc.full THEN acc
  ELSE IF name \in DOMAIN existing /\ existing[name] \notin Used(acc)
  THEN Grant(acc, name, existing[name])
  ELSE Take(acc, name, Free(acc) \ {MaxPort})
PlaceForgets(acc, name, existing) == IF acc.full THEN acc ELSE Take(acc, name, Free(acc))

\* One turn of the loop: the node keeps its port if no node before it has it, and
\* otherwise takes the first free one from nextPort on.
Place(acc, name, existing) ==
  IF acc.full THEN acc
  ELSE IF name \in DOMAIN existing /\ existing[name] \notin Used(acc)
  THEN Grant(acc, name, existing[name])
  ELSE Take(acc, name, Free(acc))

\* The result of allocateListenerPorts: ports, or full when it returns its error.
Allocate(list, start, existing) ==
  FoldLeft(LAMBDA acc, name : Place(acc, name, existing),
           [ports |-> NoPorts, nextPort |-> start, full |-> FALSE],
           list)

\* What is left of a file that was being written: some lines, one of them cut.
Torn(map) ==
  {[n \in S |-> IF n = cut THEN port ELSE map[n]] :
     S \in SUBSET DOMAIN map, cut \in DOMAIN map, port \in CutPorts}

=============================================================================
