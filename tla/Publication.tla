----------------------------- MODULE Publication -----------------------------
(***************************************************************************)
(* From the subscriptions to what users and Mihomo read: the supervisor    *)
(* downloads and merges them, gives every node a port, keeps the ports in  *)
(* memory from one refresh to the next and in ports.tsv from one run to    *)
(* the next, and rewrites listeners.tsv, proxies.json and config.yaml one  *)
(* after the other (runManagedMihomo and startManagedMihomo of main.go).   *)
(* It may be killed at any time.  Mihomo, credentials and the signals are  *)
(* in ManagedMihomo.                                                       *)
(*                                                                         *)
(* The steps: down, ports, list, export, config (each names the file that  *)
(* is written next), up.                                                   *)
(***************************************************************************)
EXTENDS ListenerPorts

CONSTANTS
  Sources,     \* what the subscription servers may answer, a document for each URL
  Starts       \* values MIHOMO_PORT_START may have

\* parseConfig refuses a portStart outside of the port range.
ASSUME PublicationAssumption == Starts \subseteq 1..MaxPort /\ Sources \subseteq Seq(Documents)

VARIABLES
  step,
  portStart,
  docs,        \* the documents of the subscription in effect
  nodes,       \* its node names, in order
  ports,       \* portByName
  saved,       \* what loadListenerPorts would read from ports.tsv
  list,        \* listeners.tsv, once this start has written it
  export,      \* proxies.json, likewise
  config,      \* config.yaml, likewise: Mihomo is started with it
  refused      \* the length of the node list just refused for want of ports, or 0

memory == <<portStart, docs, nodes, ports>>
files == <<list, export, config>>
vars == <<step, memory, saved, files, refused>>

NoConfig == [proxies |-> <<>>, listeners |-> <<>>]

\* What an earlier start wrote to the three files is never read again: it is left out.
FilesOutdated == list' = <<>> /\ export' = <<>> /\ config' = NoConfig

Init ==
  /\ step = "down"
  /\ portStart \in Starts
  /\ docs = <<>> /\ nodes = <<>>
  /\ ports = NoPorts /\ saved = NoPorts
  /\ list = <<>> /\ export = <<>> /\ config = NoConfig
  /\ refused = 0

\* A subscription that was downloaded and merged gets its ports, or is refused.
TakeOver(downloaded, existing) ==
  LET proxies == Parse(Merge(downloaded))
      result  == Allocate(proxies, portStart', existing)
  IN  /\ refused' = IF result.full THEN Len(proxies) ELSE 0
      /\ IF result.full
         THEN UNCHANGED <<step, docs, nodes, ports, files>>
         ELSE /\ docs' = downloaded /\ nodes' = proxies
              /\ ports' = result.ports /\ step' = "ports"
              /\ FilesOutdated
      /\ UNCHANGED saved

\* The process starts and reads ports.tsv; without nodes, or ports for them, it ends.
Boot(downloaded) ==
  /\ step = "down" /\ ~MergeFails(downloaded)
  /\ portStart' \in Starts
  /\ TakeOver(downloaded, saved)

\* A refresh found the merged subscription changed.  One that fails to download or
\* merge, or is the same, or finds no ports, leaves everything as it is.
Refresh(downloaded) ==
  /\ step = "up" /\ ~MergeFails(downloaded)
  /\ Merge(downloaded) # Merge(docs)
  /\ UNCHANGED portStart
  /\ TakeOver(downloaded, ports)

Save ==
  /\ step = "ports" /\ step' = "list"
  /\ saved' = ports
  /\ UNCHANGED <<memory, files, refused>>

WriteList ==
  /\ step = "list" /\ step' = "export"
  /\ list' = ListenerList(nodes, ports)
  /\ UNCHANGED <<memory, saved, export, config, refused>>

WriteExport ==
  /\ step = "export" /\ step' = "config"
  /\ export' = ExportJSON(Merge(docs), ports)
  /\ UNCHANGED <<memory, saved, list, config, refused>>

WriteConfig ==
  /\ step = "config" /\ step' = "up"
  /\ config' = RuntimeConfig(Merge(docs), portStart, ports)
  /\ UNCHANGED <<memory, saved, list, export, refused>>

\* The process ends, at any time, also because a file could not be written to its end;
\* only ports.tsv is ever read again.
Crash ==
  /\ step # "down" /\ step' = "down"
  /\ docs' = <<>> /\ nodes' = <<>> /\ ports' = NoPorts /\ refused' = 0
  /\ \/ UNCHANGED saved
     \/ step = "ports" /\ saved' \in Torn(ports)
  /\ FilesOutdated
  /\ UNCHANGED portStart

Next ==
  \/ \E downloaded \in Sources : Boot(downloaded) \/ Refresh(downloaded)
  \/ Save \/ WriteList \/ WriteExport \/ WriteConfig
  \/ Crash

Spec == Init /\ [][Next]_vars

-----------------------------------------------------------------------------
Entries(endpoints) == [name : Names, endpoint : endpoints]

TypeOK ==
  /\ step \in {"down", "ports", "list", "export", "config", "up"}
  /\ portStart \in Starts
  /\ docs \in Sources \cup {<<>>}
  /\ nodes \in Seq(Names) /\ IsInjective(nodes)
  /\ ports \in PortMaps /\ saved \in PortMaps
  /\ ToSet(list) \subseteq Entries(1..MaxPort)
  /\ ToSet(export) \subseteq Entries(1..MaxPort \cup {Remote})
  /\ ToSet(config.listeners) \subseteq Entries(1..MaxPort)
  /\ refused \in Nat

\* Every node has a port of its own, although the file it was read from may have
\* been cut, and nodes came, went and were reordered (main.go:564-584).
PortsAreUnique ==
  /\ DOMAIN ports = ToSet(nodes)
  /\ \A m, n \in DOMAIN ports : ports[m] = ports[n] => m = n

\* The allocation is given up only with more nodes than ports from portStart on, in
\* memory as well as after a restart (main.go:573-575).
RefusedOnlyWhenFull ==
  refused > 0 => refused > MaxPort - portStart + 1

\* The places of the items in a sequence of documents, and their order.
Places(sources) == UNION {{d} \X DOMAIN sources[d].items : d \in DOMAIN sources}

ItemAt(sources, p) == sources[p[1]].items[p[2]]

Before(p, q) == p[1] < q[1] \/ (p[1] = q[1] /\ p[2] < q[2])

\* The first place of each name.
FirstPlaces(sources) ==
  {p \in Places(sources) :
     /\ ItemAt(sources, p).name # NoName
     /\ \A q \in Places(sources) :
          Before(q, p) => ItemAt(sources, q).name # ItemAt(sources, p).name}

\* These are the items of the first places, all of them, in their order.
AreFirstOfName(items, sources) ==
  /\ \A k \in DOMAIN items : \E p \in FirstPlaces(sources) : items[k] = ItemAt(sources, p)
  /\ \A p \in FirstPlaces(sources) : \E k \in DOMAIN items : items[k] = ItemAt(sources, p)
  /\ \A p, q \in FirstPlaces(sources) : \A k, l \in DOMAIN items :
       items[k] = ItemAt(sources, p) /\ items[l] = ItemAt(sources, q)
         => (k < l <=> Before(p, q))

\* An answer with a list of nodes that came whole.
IsSubscription(doc) ==
  doc.status \in 200..299 /\ doc.size <= MaxSubscriptionSize /\ doc.hasProxies

\* What Mihomo runs with is the first item of each name over the documents of all the
\* URLs, in their order, and every one of them was a subscription that came whole: a
\* URL that fails never takes its nodes out of service, and an error page adds none,
\* also when documents broke, were refused, or came back in between
\* (config.go:266-267: "keeping the first proxy with a given name"; main.go:457-463).
ServesFirstOfName ==
  step = "up" =>
    /\ \A d \in DOMAIN docs : IsSubscription(docs[d])
    /\ AreFirstOfName(config.proxies, docs)

\* Once a start is through, the list, the export and Mihomo's listeners name the same
\* nodes in the same order and send their users to the same ports, whatever crashed
\* before; the export only for names without blanks around them (main.go:469-494).
ViewsAgree ==
  step = "up" =>
    /\ list = config.listeners
    /\ Len(export) = Len(list)
    /\ \A i \in DOMAIN export :
         ~config.proxies[i].padded => export[i] = list[i]

\* config.go:45-47: "ExportJSON creates an export of the locally generated SOCKS5
\* listeners ... the endpoint fields point at the managed local listener that clients
\* can actually use."
ExportIsLocal ==
  \A i \in DOMAIN export : export[i].endpoint # Remote

\* What allocateListenerPorts is given as existing in this step.
Existing == IF step = "down" THEN saved ELSE ports

\* This step takes over a subscription.
TakesOver == step' = "ports"

Position(name, seq) == CHOOSE i \in DOMAIN seq : seq[i] = name

\* A node loses its port only to a node before it in the subscription: to one that
\* is new, or that had the same port in a damaged file (main.go:565-571).
LosesPortOnlyToEarlierNode ==
  [][TakesOver =>
       \A n \in ToSet(nodes') \cap DOMAIN Existing :
         ports'[n] # Existing[n] =>
           \E m \in ToSet(nodes') :
             /\ Position(m, nodes') < Position(n, nodes')
             /\ ports'[m] = Existing[n]]_vars

\* README.md:73: "The node-to-port mapping is persisted, so existing nodes keep their
\* SOCKS5 ports across restarts and reinstallations when possible."
ExistingNodesKeepPorts ==
  [][TakesOver /\ Len(nodes') <= MaxPort - portStart' + 1 =>
       \A n \in ToSet(nodes') \cap DOMAIN Existing : ports'[n] = Existing[n]]_vars

=============================================================================
