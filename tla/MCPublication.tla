---------------------------- MODULE MCPublication ----------------------------
(***************************************************************************)
(* Two subscriptions, and what their servers may answer: orders that       *)
(* differ, names that overlap, repeat within a document, or have blanks    *)
(* around them, nameless items, an empty list; and in either place a node  *)
(* that no other document has, in a document that is none, an error page   *)
(* and one too long.  Ports 1..4: from portStart 1 on there is room for    *)
(* the three nodes, and from 3 on there is not.                            *)
(***************************************************************************)
EXTENDS Publication

CONSTANTS n1, n2, n3

Item(name, padded, server) == [name |-> name, padded |-> padded, server |-> server]

Doc(items) == [status |-> 200, size |-> MaxSubscriptionSize, hasProxies |-> TRUE, items |-> items]

A == Item(n1, FALSE, "s1")
B == Item(n2, FALSE, "s1")
C == Item(n3, FALSE, "s1")
Other(item) == [item EXCEPT !.server = "s2"]
Padded(item) == [Other(item) EXCEPT !.padded = TRUE]
Nameless == Item(NoName, FALSE, "s1")

Good ==
  {Doc(<<A, B>>), Doc(<<B, Nameless, Other(A)>>), Doc(<<C, B, Other(C)>>),
   Doc(<<Padded(C)>>), Doc(<<>>)}

Bad ==
  {[Doc(<<C>>) EXCEPT !.status = 500], [Doc(<<C>>) EXCEPT !.size = @ + 1],
   [Doc(<<C>>) EXCEPT !.hasProxies = FALSE]}

MCSources ==
  {<<d, e>> : d, e \in Good} \cup UNION {{<<Doc(<<A, B>>), e>>, <<e, Doc(<<A, B>>)>>} : e \in Bad}
=============================================================================
