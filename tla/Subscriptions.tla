----------------------------- MODULE Subscriptions -----------------------------
(***************************************************************************)
(* What becomes of the downloaded Clash subscriptions                      *)
(* (internal/clash/config.go, and fetchMergedSubscription of main.go): the *)
(* merge by name, the node list, and the three views of the listeners that *)
(* are published: listeners.tsv, proxies.json and Mihomo's config.yaml.    *)
(*                                                                         *)
(* A document has what the code tests of it, and a sequence of items.  An  *)
(* item's name is the trimmed one; padded says that the document's text    *)
(* has blanks around it, which makes it another key of a Go map.           *)
(***************************************************************************)
EXTENDS Integers, FiniteSets, SequencesExt

CONSTANTS
  Names,               \* node names, trimmed
  NoName,              \* an item that is no mapping, or whose name is no text or blank
  Servers,             \* what an item says of the proxy it names
  Remote,              \* the endpoint an item itself names
  MaxPort,             \* 65535
  MaxSubscriptionSize

ASSUME SubscriptionAssumption ==
  /\ NoName \notin Names
  /\ MaxPort \in Nat \ {0}

Items == [name : Names \cup {NoName}, padded : BOOLEAN, server : Servers]

Documents == [status : Nat, size : Nat, hasProxies : BOOLEAN, items : Seq(Items)]

\* DownloadURL: an answer that cannot be read has status 0.
Downloads(doc) ==
  /\ doc.status \in 200..299
  /\ doc.size <= MaxSubscriptionSize

NamesOf(items) == {items[i].name : i \in DOMAIN items}

\* Mutant of Kept: the last item of a name wins.
KeptLast(items, item) ==
  IF item.name = NoName THEN items
  ELSE Append(SelectSeq(items, LAMBDA i : i.name # item.name), item)

\* One turn of MergeSubscriptions' inner loop; the item is kept as it is written.
Kept(items, item) ==
  IF item.name \in {NoName} \cup NamesOf(items) THEN items ELSE Append(items, item)

\* Parse: the trimmed names, in their order, unless it refuses the list.
ParseFails(items) ==
  \/ items = <<>>
  \/ NoName \in NamesOf(items)
  \/ Cardinality(NamesOf(items)) < Len(items)

Parse(items) == [i \in DOMAIN items |-> items[i].name]

\* MergeSubscriptions, as far as every document has a list.
Merge(docs) == FoldLeft(LAMBDA items, doc : FoldLeft(Kept, items, doc.items), <<>>, docs)

\* Mutant of MergeFails: the error of a document is overwritten by the next one's.
MergeFailsOnLast(docs) ==
  \/ docs # <<>> /\ LET doc == docs[Len(docs)] IN ~Downloads(doc) \/ ~doc.hasProxies
  \/ ParseFails(Merge(docs))

\* fetchMergedSubscription: one document that does not download or has no list of
\* proxies fails them all; an empty list does not.
MergeFails(docs) ==
  \/ \E i \in DOMAIN docs : ~Downloads(docs[i]) \/ ~docs[i].hasProxies
  \/ ParseFails(Merge(docs))

-----------------------------------------------------------------------------
\* writeListenerList: a line for each node.
ListenerList(nodes, portByName) ==
  [i \in DOMAIN nodes |-> [name |-> nodes[i], endpoint |-> portByName[nodes[i]]]]

\* ExportJSON looks the port up by the name as it is written.
ExportJSON(items, portByName) ==
  [i \in DOMAIN items |->
     [name     |-> items[i].name,
      endpoint |-> IF items[i].name \in DOMAIN portByName /\ ~items[i].padded
                   THEN portByName[items[i].name] ELSE Remote]]

\* Mutant of RuntimeListeners: ports are counted from portStart whatever was allocated.
RuntimeListenersByIndex(items, portStart, portByName) ==
  [i \in DOMAIN items |-> [name |-> items[i].name, endpoint |-> portStart + i - 1]]

\* PrepareRuntimeConfig looks the port up by the trimmed name; without one it counts
\* from portStart.
RuntimeListeners(items, portStart, portByName) ==
  [i \in DOMAIN items |->
     [name     |-> items[i].name,
      endpoint |-> IF items[i].name \in DOMAIN portByName
                   THEN portByName[items[i].name] ELSE portStart + i - 1]]

RuntimeConfig(items, portStart, portByName) ==
  [proxies |-> items, listeners |-> RuntimeListeners(items, portStart, portByName)]

=============================================================================
