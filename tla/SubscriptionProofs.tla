-------------------------- MODULE SubscriptionProofs --------------------------
(***************************************************************************)
(* The way of the subscriptions, for any documents, names, numbers of      *)
(* nodes and ports, URLs and pp commands: what is merged of them, the      *)
(* ports their nodes get, the files that publish them, and the list of     *)
(* URLs that pp stores and the service starts with.  The loops of the code *)
(* (merge, allocation, removal of a line) are folds, unfolded with module  *)
(* Folding.                                                                *)
(***************************************************************************)
EXTENDS Publication, ServiceStart, FiniteSetTheorems, TLAPS

(* The merge. *)

\* The two loops of MergeSubscriptions, as Folding takes them.
KeptOf(items, item, context) == Kept(items, item)
MergedOf(items, doc, context) == FoldLeft(Kept, items, doc.items)
Keeping == INSTANCE Folding WITH Op <- KeptOf
Merging == INSTANCE Folding WITH Op <- MergedOf

\* The places before item i + 1 of document d.
UpTo(sources, d, i) == {p \in Places(sources) : p[1] < d \/ (p[1] = d /\ p[2] <= i)}

\* What the loops have done once they have passed some places.
MergedFrom(items, sources, passed) ==
  /\ items \in Seq(Items)
  /\ \A k \in DOMAIN items : \E p \in FirstPlaces(sources) \cap passed :
       items[k] = ItemAt(sources, p)
  /\ \A p \in passed : ItemAt(sources, p).name # NoName =>
       \E k \in DOMAIN items : items[k].name = ItemAt(sources, p).name
  /\ \A p, q \in FirstPlaces(sources) : \A k, l \in DOMAIN items :
       items[k] = ItemAt(sources, p) /\ items[l] = ItemAt(sources, q)
         => (k < l <=> Before(p, q))

\* Places are pairs of numbers, ordered one after the other.
LEMMA PlacesAre ==
  ASSUME NEW sources \in Seq(Documents)
  PROVE  /\ \A p \in Places(sources) :
              /\ p[1] \in DOMAIN sources /\ p[2] \in DOMAIN sources[p[1]].items
              /\ p = <<p[1], p[2]>> /\ p[1] \in Nat /\ p[2] \in Nat
              /\ ItemAt(sources, p) \in Items
         /\ \A d \in DOMAIN sources : \A i \in DOMAIN sources[d].items :
              <<d, i>> \in Places(sources)
         /\ \A p, q \in Places(sources) : Before(p, q) \/ p = q \/ Before(q, p)
         /\ \A p, q \in Places(sources) : ~(Before(p, q) /\ Before(q, p))
<1>1. \A d \in DOMAIN sources : d \in Nat /\ sources[d].items \in Seq(Items)
  <2>1. \A d \in DOMAIN sources : d \in Nat /\ sources[d] \in Documents
    OBVIOUS
  <2> QED
    BY <2>1 DEF Documents
<1>2. ASSUME NEW p \in Places(sources)
      PROVE  /\ p[1] \in DOMAIN sources /\ p[2] \in DOMAIN sources[p[1]].items
             /\ p = <<p[1], p[2]>>
  BY DEF Places
<1>3. ASSUME NEW p \in Places(sources)
      PROVE  p[1] \in Nat /\ p[2] \in Nat /\ ItemAt(sources, p) \in Items
  <2> DEFINE items == sources[p[1]].items
  <2>1. items \in Seq(Items) /\ p[1] \in Nat /\ p[2] \in DOMAIN items
    BY <1>1, <1>2
  <2> HIDE DEF items
  <2>2. p[2] \in Nat /\ items[p[2]] \in Items
    BY <2>1
  <2> QED
    BY <2>1, <2>2 DEF ItemAt, items
<1>4. \A d \in DOMAIN sources : \A i \in DOMAIN sources[d].items : <<d, i>> \in Places(sources)
  BY DEF Places
<1>5. ASSUME NEW p \in Places(sources), NEW q \in Places(sources)
      PROVE  (Before(p, q) \/ p = q \/ Before(q, p)) /\ ~(Before(p, q) /\ Before(q, p))
  <2>1. p = <<p[1], p[2]>> /\ q = <<q[1], q[2]>>
    BY <1>2
  <2>2. p[1] \in Nat /\ p[2] \in Nat /\ q[1] \in Nat /\ q[2] \in Nat
    BY <1>3
  <2> QED
    BY <2>1, <2>2 DEF Before
<1> QED
  BY <1>2, <1>3, <1>4, <1>5

\* The first place of a name is one place.
LEMMA FirstPlaceUnique ==
  ASSUME NEW sources \in Seq(Documents), NEW p \in FirstPlaces(sources),
         NEW q \in FirstPlaces(sources), ItemAt(sources, p).name = ItemAt(sources, q).name
  PROVE  p = q
BY PlacesAre DEF FirstPlaces

\* The next item is kept if its place is the first of its name, and skipped if not.
LEMMA KeptMerges ==
  ASSUME NEW sources \in Seq(Documents), NEW items, NEW passed \in SUBSET Places(sources),
         MergedFrom(items, sources, passed),
         NEW p \in Places(sources),
         \A q \in Places(sources) : Before(q, p) <=> q \in passed
  PROVE  MergedFrom(Kept(items, ItemAt(sources, p)), sources, passed \cup {p})
<1> DEFINE item == ItemAt(sources, p)
           new  == Kept(items, item)
<1>1. items \in Seq(Items) /\ item \in Items
  BY PlacesAre DEF MergedFrom
<1>2. \A q \in passed : q \in Places(sources) /\ Before(q, p) /\ q # p
  BY PlacesAre
<1> HIDE DEF new, item
<1>3. CASE item.name = NoName \/ item.name \in NamesOf(items)
  <2>1. new = items
    BY <1>3 DEF Kept, new
  <2>2. item.name # NoName => \E k \in DOMAIN items : items[k].name = item.name
    BY <1>3 DEF NamesOf
  <2> QED
    BY <2>1, <2>2 DEF MergedFrom, item, new
<1>4. CASE item.name # NoName /\ item.name \notin NamesOf(items)
  <2>1. new = Append(items, item)
    BY <1>4 DEF Kept, new
  <2> DEFINE m == Len(items)
  <2>2. /\ m \in Nat /\ DOMAIN items = 1..m
        /\ new \in Seq(Items) /\ DOMAIN new = 1..m + 1
        /\ \A k \in 1..m : new[k] = items[k]
        /\ new[m + 1] = item
    BY <1>1, <2>1
  <2> HIDE DEF m
  <2>3. \A k \in 1..m + 1 : k \in 1..m \/ k = m + 1
    BY <2>2
  <2>4. m + 1 \in 1..m + 1 /\ \A k \in 1..m : k \in 1..m + 1 /\ k < m + 1
    BY <2>2
  <2>5. \A k \in 1..m : items[k].name # item.name
    BY <1>4, <2>2 DEF NamesOf
  <2>6. p \in FirstPlaces(sources)
    <3>1. \A q \in passed : ItemAt(sources, q).name # item.name
      BY <1>4, <2>2, <2>5 DEF MergedFrom
    <3> QED
      BY <1>4, <3>1 DEF FirstPlaces, item
  <2>7. \A k \in DOMAIN new : \E q \in FirstPlaces(sources) \cap (passed \cup {p}) :
          new[k] = ItemAt(sources, q)
    <3> SUFFICES ASSUME NEW k \in 1..m + 1
                 PROVE  \E q \in FirstPlaces(sources) \cap (passed \cup {p}) :
                          new[k] = ItemAt(sources, q)
      BY <2>2
    <3>1. CASE k \in 1..m
      BY <2>2, <3>1 DEF MergedFrom
    <3>2. CASE k = m + 1
      BY <2>2, <2>6, <3>2 DEF item
    <3> QED
      BY <2>3, <3>1, <3>2
  <2>8. \A q \in passed \cup {p} : ItemAt(sources, q).name # NoName =>
          \E k \in DOMAIN new : new[k].name = ItemAt(sources, q).name
    <3>1. \A q \in passed : ItemAt(sources, q).name # NoName =>
            \E k \in 1..m : items[k].name = ItemAt(sources, q).name
      BY <2>2 DEF MergedFrom
    <3> QED
      BY <2>2, <2>4, <3>1 DEF item
  <2>9. ASSUME NEW q \in FirstPlaces(sources), NEW r \in FirstPlaces(sources),
               NEW k \in DOMAIN new, NEW l \in DOMAIN new,
               new[k] = ItemAt(sources, q), new[l] = ItemAt(sources, r)
        PROVE  k < l <=> Before(q, r)
    <3>1. \A s \in FirstPlaces(sources), j \in 1..m : items[j] = ItemAt(sources, s) => s \in passed
      BY <2>2, FirstPlaceUnique DEF MergedFrom
    <3>2. \A s \in FirstPlaces(sources) : item = ItemAt(sources, s) => s = p
      BY <2>6, FirstPlaceUnique DEF item
    <3>3. CASE k \in 1..m /\ l \in 1..m
      BY <2>2, <2>9, <3>3 DEF MergedFrom
    <3>4. CASE k \in 1..m /\ l = m + 1
      <4>1. q \in passed /\ r = p
        BY <2>2, <2>9, <3>1, <3>2, <3>4
      <4> QED
        BY <1>2, <2>4, <3>4, <4>1
    <3>5. CASE k = m + 1 /\ l \in 1..m
      <4>1. r \in passed /\ q = p
        BY <2>2, <2>9, <3>1, <3>2, <3>5
      <4>2. ~(k < l)
        BY <2>2, <3>5
      <4>3. ~Before(q, r)
        BY <1>2, <4>1, PlacesAre
      <4> QED
        BY <4>2, <4>3
    <3>6. CASE k = m + 1 /\ l = m + 1
      <4>1. q = p /\ r = p
        BY <2>2, <2>9, <3>2, <3>6
      <4>2. ~Before(p, p) /\ ~(k < l)
        BY <2>2, <3>6, PlacesAre
      <4> QED
        BY <4>1, <4>2
    <3> QED
      BY <2>2, <2>3, <3>3, <3>4, <3>5, <3>6
  <2> QED
    BY <2>2, <2>7, <2>8, <2>9 DEF MergedFrom, new, item
<1> QED
  BY <1>3, <1>4

\* The loop over the items of one document.
LEMMA DocumentMerges ==
  ASSUME NEW sources \in Seq(Documents), NEW d \in DOMAIN sources, NEW items,
         MergedFrom(items, sources, UpTo(sources, d, 0))
  PROVE  MergedFrom(FoldLeft(Kept, items, sources[d].items), sources, UpTo(sources, d + 1, 0))
<1> DEFINE doc == sources[d].items
           n   == Len(doc)
<1>1. d \in Nat /\ n \in Nat /\ DOMAIN doc = 1..n
  <2>1. d \in Nat /\ sources[d] \in Documents
    OBVIOUS
  <2>2. doc \in Seq(Items)
    BY <2>1 DEF Documents
  <2> QED
    BY <2>1, <2>2
<1> HIDE DEF n
<1>2. FoldLeft(Kept, items, doc) = Keeping!Fold(items, doc, 0)
  BY DEF KeptOf, FoldLeft, MapThenFoldSet, Max,
         Keeping!Fold, Keeping!FoldLeft, Keeping!MapThenFoldSet, Keeping!Max
<1>3. PICK acc :
        /\ acc[0] = items
        /\ \A k \in 1..n : acc[k] = KeptOf(acc[k - 1], doc[k], 0)
        /\ FoldLeft(Kept, items, doc) = acc[n]
  BY <1>1, <1>2, Keeping!FoldSteps
<1> DEFINE T == {k \in 0..n : MergedFrom(acc[k], sources, UpTo(sources, d, k))}
<1>4. 0 \in T
  BY <1>1, <1>3
<1>5. ASSUME NEW k \in 0..n - 1, k \in T
      PROVE  k + 1 \in T
  <2> DEFINE p == <<d, k + 1>>
             passed == UpTo(sources, d, k)
  <2>1. k \in Nat /\ k + 1 \in 1..n /\ (k + 1) - 1 = k /\ k + 1 \in 0..n
    BY <1>1
  <2>2. p \in Places(sources) /\ p[1] = d /\ p[2] = k + 1
    BY <1>1, <2>1, PlacesAre
  <2>3. acc[k + 1] = Kept(acc[k], ItemAt(sources, p))
    BY <1>3, <2>1 DEF KeptOf, ItemAt
  <2>4. passed \in SUBSET Places(sources)
    BY DEF UpTo
  <2>5. ASSUME NEW q \in Places(sources)
        PROVE  /\ Before(q, p) <=> q \in passed
               /\ q \in UpTo(sources, d, k + 1) <=> (q \in passed \/ q = p)
    <3>1. q[1] \in Nat /\ q[2] \in Nat /\ q = <<q[1], q[2]>>
      BY PlacesAre
    <3>2. Before(q, p) <=> q \in passed
      BY <1>1, <2>1, <2>2, <3>1 DEF Before, UpTo
    <3>3. q = p <=> q[1] = d /\ q[2] = k + 1
      BY <3>1
    <3>4. q \in UpTo(sources, d, k + 1) <=> (q \in passed \/ q = p)
      BY <1>1, <2>1, <3>1, <3>3 DEF UpTo
    <3> QED
      BY <3>2, <3>4
  <2> HIDE DEF p, passed
  <2>6. UpTo(sources, d, k + 1) = passed \cup {p}
    <3>1. UpTo(sources, d, k + 1) \subseteq Places(sources)
      BY DEF UpTo
    <3> QED
      BY <2>2, <2>4, <2>5, <3>1
  <2>7. MergedFrom(acc[k], sources, passed)
    BY <1>5 DEF passed
  <2>8. MergedFrom(acc[k + 1], sources, passed \cup {p})
    BY <2>2, <2>3, <2>4, <2>5, <2>7, KeptMerges
  <2> QED
    BY <2>1, <2>6, <2>8
<1>6. n \in T
  <2> HIDE DEF T
  <2>1. \A k \in 0..n : k \in T
    BY <1>1, <1>4, <1>5, Keeping!IntervalInduction
  <2> QED
    BY <1>1, <2>1
<1>7. UpTo(sources, d, n) = UpTo(sources, d + 1, 0)
  <2> SUFFICES ASSUME NEW q \in Places(sources)
               PROVE  (q[1] < d \/ (q[1] = d /\ q[2] <= n))
                        <=> (q[1] < d + 1 \/ (q[1] = d + 1 /\ q[2] <= 0))
    BY DEF UpTo
  <2>1. q[1] \in DOMAIN sources /\ q[1] \in Nat /\ q[2] \in DOMAIN sources[q[1]].items
    BY PlacesAre
  <2>2. q[1] = d => q[2] \in 1..n
    BY <1>1, <2>1
  <2>3. sources[q[1]] \in Documents
    BY <2>1
  <2>4. q[2] \in Nat /\ q[2] > 0
    <3>1. sources[q[1]].items \in Seq(Items)
      BY <2>3 DEF Documents
    <3> QED
      BY <2>1, <3>1
  <2> QED
    BY <1>1, <2>1, <2>2, <2>4
<1> QED
  BY <1>3, <1>6, <1>7

\* The loop over the documents.
LEMMA MergeMerges ==
  ASSUME NEW sources \in Seq(Documents)
  PROVE  MergedFrom(Merge(sources), sources, Places(sources))
<1> DEFINE n == Len(sources)
<1>1. n \in Nat /\ DOMAIN sources = 1..n
  OBVIOUS
<1> HIDE DEF n
<1>2. Merge(sources) = Merging!Fold(<<>>, sources, 0)
  BY DEF Merge, MergedOf, FoldLeft, MapThenFoldSet, Max,
         Merging!Fold, Merging!FoldLeft, Merging!MapThenFoldSet, Merging!Max
<1>3. PICK acc :
        /\ acc[0] = <<>>
        /\ \A k \in 1..n : acc[k] = MergedOf(acc[k - 1], sources[k], 0)
        /\ Merge(sources) = acc[n]
  BY <1>1, <1>2, Merging!FoldSteps
<1> DEFINE T == {k \in 0..n : MergedFrom(acc[k], sources, UpTo(sources, k + 1, 0))}
<1>4. 0 \in T
  <2>1. 0 \in 0..n /\ 0 + 1 = 1 /\ <<>> \in Seq(Items) /\ DOMAIN <<>> = {}
    BY <1>1
  <2>2. UpTo(sources, 1, 0) = {}
    <3> SUFFICES ASSUME NEW q \in Places(sources), q[1] < 1 \/ (q[1] = 1 /\ q[2] <= 0)
                 PROVE  FALSE
      BY DEF UpTo
    <3>1. q[1] \in 1..n /\ q[2] \in DOMAIN sources[q[1]].items /\ sources[q[1]] \in Documents
      BY <1>1, PlacesAre
    <3>2. sources[q[1]].items \in Seq(Items)
      BY <3>1 DEF Documents
    <3>3. q[2] \in Nat /\ q[2] > 0
      BY <3>1, <3>2
    <3> QED
      BY <1>1, <3>1, <3>3
  <2>3. MergedFrom(<<>>, sources, {})
    BY <2>1 DEF MergedFrom
  <2> QED
    BY <1>3, <2>1, <2>2, <2>3
<1>5. ASSUME NEW k \in 0..n - 1, k \in T
      PROVE  k + 1 \in T
  <2>1. k + 1 \in 1..n /\ (k + 1) - 1 = k /\ k + 1 \in 0..n
    BY <1>1
  <2>2. acc[k + 1] = FoldLeft(Kept, acc[k], sources[k + 1].items)
    BY <1>3, <2>1 DEF MergedOf
  <2> DEFINE d == k + 1
  <2>3. d \in DOMAIN sources /\ MergedFrom(acc[k], sources, UpTo(sources, d, 0))
    BY <1>1, <1>5, <2>1
  <2> HIDE DEF d
  <2>4. MergedFrom(FoldLeft(Kept, acc[k], sources[d].items), sources, UpTo(sources, d + 1, 0))
    BY <2>3, DocumentMerges
  <2> QED
    BY <2>1, <2>2, <2>4 DEF d
<1>6. n \in T
  <2> HIDE DEF T
  <2>1. \A k \in 0..n : k \in T
    BY <1>1, <1>4, <1>5, Merging!IntervalInduction
  <2> QED
    BY <1>1, <2>1
<1>7. UpTo(sources, n + 1, 0) = Places(sources)
  <2>1. \A q \in Places(sources) : q[1] \in 1..n
    BY <1>1, PlacesAre
  <2>2. \A q \in Places(sources) : q[1] < n + 1
    BY <1>1, <2>1
  <2> QED
    BY <2>2 DEF UpTo
<1> QED
  BY <1>3, <1>6, <1>7

\* The merge lists the first item of each name, and no name twice.
LEMMA MergeIsFirstOfName ==
  ASSUME NEW sources \in Seq(Documents)
  PROVE  /\ Merge(sources) \in Seq(Items)
         /\ AreFirstOfName(Merge(sources), sources)
         /\ \A k \in DOMAIN Merge(sources) : Merge(sources)[k].name \in Names
         /\ \A k, l \in DOMAIN Merge(sources) :
              Merge(sources)[k].name = Merge(sources)[l].name => k = l
<1> DEFINE items == Merge(sources)
<1>1. MergedFrom(items, sources, Places(sources))
  BY MergeMerges
<1> HIDE DEF items
<1>2. FirstPlaces(sources) \cap Places(sources) = FirstPlaces(sources)
  BY DEF FirstPlaces
<1>3. \A k \in DOMAIN items : \E p \in FirstPlaces(sources) : items[k] = ItemAt(sources, p)
  BY <1>1, <1>2 DEF MergedFrom
<1>4. ASSUME NEW p \in FirstPlaces(sources)
      PROVE  \E k \in DOMAIN items : items[k] = ItemAt(sources, p)
  <2>1. p \in Places(sources) /\ ItemAt(sources, p).name # NoName
    BY DEF FirstPlaces
  <2>2. PICK k \in DOMAIN items : items[k].name = ItemAt(sources, p).name
    BY <1>1, <2>1 DEF MergedFrom
  <2>3. PICK q \in FirstPlaces(sources) : items[k] = ItemAt(sources, q)
    BY <1>3
  <2> QED
    BY <2>2, <2>3, FirstPlaceUnique
<1>5. \A p, q \in FirstPlaces(sources) : \A k, l \in DOMAIN items :
        items[k] = ItemAt(sources, p) /\ items[l] = ItemAt(sources, q)
          => (k < l <=> Before(p, q))
  BY <1>1 DEF MergedFrom
<1>6. items \in Seq(Items)
  BY <1>1 DEF MergedFrom
<1>7. AreFirstOfName(items, sources)
  BY <1>3, <1>4, <1>5 DEF AreFirstOfName
<1>8. \A k \in DOMAIN items : items[k].name \in Names
  <2> SUFFICES ASSUME NEW k \in DOMAIN items PROVE items[k].name \in Names
    OBVIOUS
  <2>1. items[k].name # NoName
    BY <1>3 DEF FirstPlaces
  <2>2. items[k] \in Items
    BY <1>6
  <2> QED
    BY <2>1, <2>2 DEF Items
<1>9. ASSUME NEW k \in DOMAIN items, NEW l \in DOMAIN items, items[k].name = items[l].name
      PROVE  k = l
  <2>1. PICK p \in FirstPlaces(sources) : items[k] = ItemAt(sources, p)
    BY <1>3
  <2>2. PICK q \in FirstPlaces(sources) : items[l] = ItemAt(sources, q)
    BY <1>3
  <2>3. p = q
    BY <1>9, <2>1, <2>2, FirstPlaceUnique
  <2>4. p \in Places(sources)
    BY DEF FirstPlaces
  <2>5. ~Before(p, p)
    BY <2>4, PlacesAre
  <2>6. ~(k < l) /\ ~(l < k)
    BY <1>5, <2>1, <2>2, <2>3, <2>5
  <2>7. k \in Int /\ l \in Int
    BY <1>6
  <2> QED
    BY <2>6, <2>7
<1> QED
  BY <1>6, <1>7, <1>8, <1>9 DEF items

-----------------------------------------------------------------------------
(* The allocation of ports. *)

\* The loop of allocateListenerPorts, as Folding takes it.
Placing == INSTANCE Folding WITH Op <- Place

Allocations == [ports : PortMaps, nextPort : 1..MaxPort + 1, full : BOOLEAN]

\* What the loop has done after k nodes: they have a port each, none but theirs below
\* nextPort is free, and who lost a port lost it to one before.
Allotted(acc, names, k, start, existing) ==
  /\ acc \in Allocations
  /\ acc.full => Len(names) > MaxPort - start + 1
  /\ ~acc.full =>
       /\ DOMAIN acc.ports = {names[i] : i \in 1..k}
       /\ \A m, n \in DOMAIN acc.ports : acc.ports[m] = acc.ports[n] => m = n
       /\ start <= acc.nextPort
       /\ \A p \in start..acc.nextPort - 1 : p \in Used(acc)
       /\ \A i \in 1..k :
            names[i] \in DOMAIN existing /\ acc.ports[names[i]] # existing[names[i]] =>
              \E j \in 1..i - 1 : acc.ports[names[j]] = existing[names[i]]

\* The maps allocateListenerPorts makes and loadListenerPorts reads.
LEMMA PortMapsAre ==
  ASSUME NEW map
  PROVE  map \in PortMaps <=> \E S \in SUBSET Names : map \in [S -> 1..MaxPort]
BY DEF PortMaps

\* A grant adds one port.
LEMMA GrantIs ==
  ASSUME NEW acc \in Allocations, NEW name \in Names, name \notin DOMAIN acc.ports,
         NEW port \in 1..MaxPort
  PROVE  LET new == Grant(acc, name, port)
         IN  /\ new \in Allocations
             /\ new.full = acc.full /\ new.nextPort = acc.nextPort
             /\ DOMAIN new.ports = DOMAIN acc.ports \cup {name}
             /\ new.ports[name] = port
             /\ \A n \in DOMAIN acc.ports : new.ports[n] = acc.ports[n]
             /\ Used(new) = Used(acc) \cup {port}
<1> DEFINE new  == Grant(acc, name, port)
           more == [n \in DOMAIN acc.ports \cup {name} |-> IF n = name THEN port ELSE acc.ports[n]]
<1>1. PICK S \in SUBSET Names : acc.ports \in [S -> 1..MaxPort]
  BY PortMapsAre DEF Allocations
<1>2. new = [acc EXCEPT !.ports = more]
  BY DEF Grant
<1>3. new = [ports |-> more, nextPort |-> acc.nextPort, full |-> acc.full]
  BY <1>2 DEF Allocations
<1>4. more \in [S \cup {name} -> 1..MaxPort]
  BY <1>1
<1>5. more \in PortMaps
  BY <1>4, PortMapsAre
<1> HIDE DEF new, more
<1>6. new \in Allocations
  BY <1>3, <1>5 DEF Allocations
<1>7. /\ DOMAIN more = DOMAIN acc.ports \cup {name}
      /\ more[name] = port
      /\ \A n \in DOMAIN acc.ports : more[n] = acc.ports[n]
  BY DEF more
<1>8. new.ports = more
  BY <1>3
<1>9. Used(new) = Used(acc) \cup {port}
  BY <1>7, <1>8 DEF Used
<1> QED
  BY <1>3, <1>6, <1>7, <1>8, <1>9 DEF new

\* A node that keeps its port, or takes a new one, has what the others do not have.
LEMMA GrantedKeeps ==
  ASSUME NEW names \in Seq(Names), IsInjective(names), NEW start \in 1..MaxPort,
         NEW existing \in PortMaps,
         NEW k \in 0..Len(names) - 1, NEW acc, Allotted(acc, names, k, start, existing),
         ~acc.full, NEW port \in 1..MaxPort, port \notin Used(acc),
         NEW next \in 1..MaxPort + 1, start <= next,
         \A p \in start..next - 1 : p \in Used(acc) \cup {port},
         LET name == names[k + 1]
         IN  name \in DOMAIN existing /\ port # existing[name] => existing[name] \in Used(acc)
  PROVE  Allotted([Grant(acc, names[k + 1], port) EXCEPT !.nextPort = next],
                  names, k + 1, start, existing)
<1> DEFINE name    == names[k + 1]
           granted == Grant(acc, name, port)
           new     == [granted EXCEPT !.nextPort = next]
<1>1. /\ k \in Nat /\ k + 1 \in 1..Len(names) /\ DOMAIN names = 1..Len(names)
      /\ 1..k + 1 = 1..k \cup {k + 1} /\ k + 1 \notin 1..k
      /\ \A i \in 1..k : i \in 1..Len(names)
      /\ name \in Names
  OBVIOUS
<1>2. acc \in Allocations /\ DOMAIN acc.ports = {names[i] : i \in 1..k}
  BY DEF Allotted
<1>3. name \notin DOMAIN acc.ports
  BY <1>1, <1>2 DEF IsInjective
<1> HIDE DEF name
<1>4. /\ granted \in Allocations
      /\ granted.full = acc.full
      /\ DOMAIN granted.ports = DOMAIN acc.ports \cup {name}
      /\ granted.ports[name] = port
      /\ \A n \in DOMAIN acc.ports : granted.ports[n] = acc.ports[n]
      /\ Used(granted) = Used(acc) \cup {port}
  BY <1>1, <1>2, <1>3, GrantIs
<1> HIDE DEF granted
<1>5. new = [ports |-> granted.ports, nextPort |-> next, full |-> granted.full]
  BY <1>4 DEF Allocations
<1> HIDE DEF new
<1>6. /\ new \in Allocations /\ ~new.full /\ new.nextPort = next
      /\ new.ports = granted.ports /\ Used(new) = Used(granted)
  BY <1>4, <1>5 DEF Allocations, Used
<1>7. DOMAIN new.ports = {names[i] : i \in 1..k + 1}
  BY <1>1, <1>2, <1>4, <1>6 DEF name
<1>8. \A m, n \in DOMAIN new.ports : new.ports[m] = new.ports[n] => m = n
  <2>1. \A n \in DOMAIN acc.ports : acc.ports[n] # port
    BY DEF Used
  <2> QED
    BY <1>4, <1>6, <2>1 DEF Allotted
<1>9. ASSUME NEW i \in 1..k + 1, names[i] \in DOMAIN existing,
             new.ports[names[i]] # existing[names[i]]
      PROVE  \E j \in 1..i - 1 : new.ports[names[j]] = existing[names[i]]
  <2>1. \A j \in 1..k : names[j] \in DOMAIN acc.ports /\ new.ports[names[j]] = acc.ports[names[j]]
    BY <1>2, <1>4, <1>6
  <2>2. CASE i \in 1..k
    <3>1. PICK j \in 1..i - 1 : acc.ports[names[j]] = existing[names[i]]
      BY <1>9, <2>1, <2>2 DEF Allotted
    <3>2. j \in 1..k
      BY <1>1, <2>2
    <3> QED
      BY <2>1, <3>1, <3>2
  <2>3. CASE i = k + 1
    <3>1. name \in DOMAIN existing /\ port # existing[name]
      BY <1>4, <1>6, <1>9, <2>3 DEF name
    <3>2. existing[name] \in Used(acc)
      BY <3>1 DEF name
    <3>3. PICK n \in DOMAIN acc.ports : acc.ports[n] = existing[name]
      BY <3>2 DEF Used
    <3>4. PICK j \in 1..k : n = names[j]
      BY <1>2, <3>3
    <3>5. j \in 1..i - 1
      BY <1>1, <2>3
    <3> QED
      BY <2>1, <2>3, <3>3, <3>4, <3>5 DEF name
  <2> QED
    BY <1>1, <2>2, <2>3
<1>10. \A p \in start..new.nextPort - 1 : p \in Used(new)
  BY <1>4, <1>6
<1> QED
  BY <1>6, <1>7, <1>8, <1>9, <1>10 DEF Allotted, new, granted, name

\* No free port is left only when there are more nodes than ports from start on.
LEMMA FullMeansMore ==
  ASSUME NEW names \in Seq(Names), NEW start \in 1..MaxPort, NEW existing,
         NEW k \in 0..Len(names) - 1, NEW acc, Allotted(acc, names, k, start, existing),
         ~acc.full, Free(acc) = {}
  PROVE  Len(names) > MaxPort - start + 1
<1>1. acc.nextPort \in 1..MaxPort + 1 /\ MaxPort \in Nat /\ k \in Nat /\ Len(names) \in Nat
  BY SubscriptionAssumption DEF Allotted, Allocations
<1>2. ASSUME NEW p \in start..MaxPort
      PROVE  p \in Used(acc)
  <2>1. CASE p < acc.nextPort
    <3>1. p \in start..acc.nextPort - 1
      BY <1>1, <2>1
    <3> QED
      BY <3>1 DEF Allotted
  <2>2. CASE p >= acc.nextPort
    <3>1. p \in acc.nextPort..MaxPort
      BY <1>1, <2>2
    <3> QED
      BY <3>1 DEF Free
  <2> QED
    BY <1>1, <2>1, <2>2
<1>3. \A p \in start..MaxPort : \E i \in 1..k : acc.ports[names[i]] = p
  BY <1>2 DEF Used, Allotted
<1> DEFINE who == [p \in start..MaxPort |-> CHOOSE i \in 1..k : acc.ports[names[i]] = p]
<1>4. \A p \in start..MaxPort : who[p] \in 1..k /\ acc.ports[names[who[p]]] = p
  BY <1>3
<1>5. who \in Injection(start..MaxPort, 1..k)
  <2>1. who \in [start..MaxPort -> 1..k]
    BY <1>4
  <2> HIDE DEF who
  <2>2. \A p, q \in start..MaxPort : who[p] = who[q] => p = q
    BY <1>4
  <2> QED
    BY <2>1, <2>2 DEF Injection, IsInjective
<1> HIDE DEF who
<1>6. /\ IsFiniteSet(1..k) /\ Cardinality(1..k) = k
      /\ Cardinality(start..MaxPort) = MaxPort - start + 1
  <2>1. /\ IsFiniteSet(1..k)
        /\ Cardinality(1..k) = IF 1 > k THEN 0 ELSE k - 1 + 1
        /\ Cardinality(start..MaxPort) = IF start > MaxPort THEN 0 ELSE MaxPort - start + 1
    BY <1>1, FS_Interval
  <2> QED
    BY <1>1, <2>1
<1>7. Cardinality(start..MaxPort) <= Cardinality(1..k)
  BY <1>5, <1>6, FS_Injection
<1> QED
  BY <1>1, <1>6, <1>7

\* One node: it keeps its port, or takes the first one that is free, or is refused.
LEMMA PlaceKeeps ==
  ASSUME NEW names \in Seq(Names), IsInjective(names), NEW start \in 1..MaxPort,
         NEW existing \in PortMaps,
         NEW k \in 0..Len(names) - 1, NEW acc, Allotted(acc, names, k, start, existing)
  PROVE  Allotted(Place(acc, names[k + 1], existing), names, k + 1, start, existing)
<1> DEFINE name == names[k + 1]
           new  == Place(acc, name, existing)
<1>1. acc \in Allocations /\ acc.nextPort \in 1..MaxPort + 1 /\ MaxPort \in Nat /\ start \in Nat
  BY SubscriptionAssumption DEF Allotted, Allocations
<1>2. CASE acc.full
  <2>1. new = acc
    BY <1>2 DEF Place
  <2> QED
    BY <1>2, <2>1 DEF Allotted
<1>3. CASE ~acc.full /\ name \in DOMAIN existing /\ existing[name] \notin Used(acc)
  <2> DEFINE port == existing[name]
             next == acc.nextPort
             granted == Grant(acc, name, port)
  <2>1. new = granted
    BY <1>3 DEF Place
  <2>2. port \in 1..MaxPort
    BY <1>3, PortMapsAre
  <2>3. granted = [granted EXCEPT !.nextPort = next]
    <3>1. name \in Names /\ name \notin DOMAIN acc.ports
      <4>1. k + 1 \in 1..Len(names) /\ \A i \in 1..k : i \in 1..Len(names) /\ i # k + 1
        OBVIOUS
      <4> QED
        BY <1>3, <4>1 DEF Allotted, IsInjective
    <3> HIDE DEF name, port
    <3>2. granted \in Allocations /\ granted.nextPort = next
      BY <1>1, <2>2, <3>1, GrantIs
    <3> HIDE DEF granted, next
    <3> QED
      BY <3>2 DEF Allocations
  <2>4. /\ ~acc.full /\ port \notin Used(acc) /\ next \in 1..MaxPort + 1 /\ start <= next
        /\ \A p \in start..next - 1 : p \in Used(acc) \cup {port}
        /\ name \in DOMAIN existing /\ port # existing[name] => existing[name] \in Used(acc)
    BY <1>1, <1>3 DEF Allotted
  <2>5. Allotted([granted EXCEPT !.nextPort = next], names, k + 1, start, existing)
    <3> HIDE DEF port, next
    <3> QED
      BY <2>2, <2>4, GrantedKeeps
  <2> QED
    BY <2>1, <2>3, <2>5
<1>4. CASE /\ ~acc.full /\ ~(name \in DOMAIN existing /\ existing[name] \notin Used(acc))
           /\ Free(acc) = {}
  <2>1. new = [acc EXCEPT !.full = TRUE]
    BY <1>4 DEF Place, Take
  <2>2. new = [ports |-> acc.ports, nextPort |-> acc.nextPort, full |-> TRUE]
    BY <1>1, <2>1 DEF Allocations
  <2>3. Len(names) > MaxPort - start + 1
    BY <1>4, FullMeansMore
  <2>4. new.full /\ new \in Allocations
    BY <1>1, <2>2 DEF Allocations
  <2> QED
    BY <2>3, <2>4 DEF Allotted
<1>5. CASE /\ ~acc.full /\ ~(name \in DOMAIN existing /\ existing[name] \notin Used(acc))
           /\ Free(acc) # {}
  <2> DEFINE free == Free(acc)
             port == CHOOSE p \in free : \A q \in free : p <= q
             next == port + 1
  <2>1. new = [Grant(acc, name, port) EXCEPT !.nextPort = next]
    BY <1>5 DEF Place, Take
  <2>2. free \in SUBSET Nat
    BY <1>1 DEF Free
  <2>3. port \in free /\ \A q \in free : port <= q
    <3>1. \E p \in free : \A q \in free : p <= q
      <4> HIDE DEF free
      <4> QED
        BY <1>5, <2>2, Placing!LeastOfNaturals DEF free
    <3> HIDE DEF free
    <3> QED
      BY <3>1
  <2> HIDE DEF port
  <2>4. port \in acc.nextPort..MaxPort /\ port \notin Used(acc)
    BY <2>3 DEF Free
  <2>5. start <= acc.nextPort /\ \A p \in start..acc.nextPort - 1 : p \in Used(acc)
    BY <1>5 DEF Allotted
  <2>6. port \in 1..MaxPort /\ next \in 1..MaxPort + 1 /\ start <= next
    BY <1>1, <2>4, <2>5
  <2>7. \A p \in start..next - 1 : p \in Used(acc) \cup {port}
    <3> SUFFICES ASSUME NEW p \in start..next - 1, p # port PROVE p \in Used(acc)
      OBVIOUS
    <3>1. CASE p < acc.nextPort
      <4>1. p \in start..acc.nextPort - 1
        BY <1>1, <2>4, <3>1
      <4> QED
        BY <2>5, <4>1
    <3>2. CASE p >= acc.nextPort
      <4>1. p \in acc.nextPort..MaxPort /\ ~(port <= p)
        BY <1>1, <2>4, <3>2
      <4> QED
        BY <2>3, <4>1 DEF Free
    <3> QED
      BY <1>1, <2>4, <3>1, <3>2
  <2>8. name \in DOMAIN existing /\ port # existing[name] => existing[name] \in Used(acc)
    BY <1>5
  <2>9. ~acc.full
    BY <1>5
  <2> HIDE DEF next
  <2>10. Allotted([Grant(acc, name, port) EXCEPT !.nextPort = next], names, k + 1, start, existing)
    BY <2>4, <2>6, <2>7, <2>8, <2>9, GrantedKeeps
  <2> QED
    BY <2>1, <2>10
<1> QED
  BY <1>2, <1>3, <1>4, <1>5

\* allocateListenerPorts gives every node a port of its own, or finds more nodes than
\* ports; a node that loses its port loses it to one before.
LEMMA AllocateAllots ==
  ASSUME NEW names \in Seq(Names), IsInjective(names), NEW start \in 1..MaxPort,
         NEW existing \in PortMaps
  PROVE  Allotted(Allocate(names, start, existing), names, Len(names), start, existing)
<1> DEFINE n == Len(names)
           first == [ports |-> NoPorts, nextPort |-> start, full |-> FALSE]
<1>1. n \in Nat /\ DOMAIN names = 1..n
  OBVIOUS
<1> HIDE DEF n, first
<1>2. Allocate(names, start, existing) = Placing!Fold(first, names, existing)
  BY DEF Allocate, first, FoldLeft, MapThenFoldSet, Max,
         Placing!Fold, Placing!FoldLeft, Placing!MapThenFoldSet, Placing!Max
<1>3. PICK acc :
        /\ acc[0] = first
        /\ \A k \in 1..n : acc[k] = Place(acc[k - 1], names[k], existing)
        /\ Allocate(names, start, existing) = acc[n]
  BY <1>1, <1>2, Placing!FoldSteps
<1> DEFINE T == {k \in 0..n : Allotted(acc[k], names, k, start, existing)}
<1>4. 0 \in T
  <2>1. 0 \in 0..n /\ 1..0 = {} /\ start..start - 1 = {}
    BY <1>1
  <2>2. NoPorts \in PortMaps /\ DOMAIN NoPorts = {}
    <3>1. NoPorts \in [{} -> 1..MaxPort] /\ {} \in SUBSET Names
      BY DEF NoPorts
    <3> QED
      BY <3>1, PortMapsAre DEF NoPorts
  <2>3. first \in Allocations /\ first.full = FALSE /\ first.nextPort = start /\ first.ports = NoPorts
    BY <2>2, SubscriptionAssumption DEF first, Allocations
  <2>4. Allotted(first, names, 0, start, existing)
    BY <2>1, <2>2, <2>3 DEF Allotted
  <2> QED
    BY <1>3, <2>1, <2>4
<1>5. ASSUME NEW k \in 0..n - 1, k \in T
      PROVE  k + 1 \in T
  <2>1. k + 1 \in 1..n /\ (k + 1) - 1 = k /\ k + 1 \in 0..n
    BY <1>1
  <2>2. acc[k + 1] = Place(acc[k], names[k + 1], existing)
    BY <1>3, <2>1
  <2>3. Allotted(acc[k], names, k, start, existing)
    BY <1>5
  <2>4. Allotted(acc[k + 1], names, k + 1, start, existing)
    BY <2>2, <2>3, PlaceKeeps DEF n
  <2> QED
    BY <2>1, <2>4
<1>6. n \in T
  <2> HIDE DEF T
  <2>1. \A k \in 0..n : k \in T
    BY <1>1, <1>4, <1>5, Placing!IntervalInduction
  <2> QED
    BY <1>1, <2>1
<1> QED
  BY <1>3, <1>6 DEF n

-----------------------------------------------------------------------------
(* What is published. *)

\* The list Parse makes of documents that merge.
LEMMA ParseIs ==
  ASSUME NEW downloaded \in Sources
  PROVE  LET items == Merge(downloaded)
             names == Parse(items)
         IN  /\ items \in Seq(Items) /\ AreFirstOfName(items, downloaded)
             /\ names \in Seq(Names) /\ IsInjective(names)
             /\ DOMAIN names = DOMAIN items /\ Len(names) \in Nat
             /\ \A i \in DOMAIN items : names[i] = items[i].name
             /\ ~MergeFails(downloaded) => Len(names) > 0
<1> DEFINE items == Merge(downloaded)
           names == Parse(items)
<1>1. downloaded \in Seq(Documents)
  BY PublicationAssumption
<1>2. /\ items \in Seq(Items) /\ AreFirstOfName(items, downloaded)
      /\ \A k \in DOMAIN items : items[k].name \in Names
      /\ \A k, l \in DOMAIN items : items[k].name = items[l].name => k = l
  BY <1>1, MergeIsFirstOfName
<1> HIDE DEF items
<1>3. Len(items) \in Nat /\ DOMAIN items = 1..Len(items)
  BY <1>2
<1>4. names = [i \in 1..Len(items) |-> items[i].name]
  BY <1>3 DEF Parse
<1>5. names \in [1..Len(items) -> Names]
  BY <1>2, <1>3, <1>4
<1> HIDE DEF names
<1>6. names \in Seq(Names) /\ Len(names) = Len(items)
  BY <1>3, <1>5
<1>7. IsInjective(names)
  BY <1>2, <1>3, <1>4 DEF IsInjective
<1>8. ~MergeFails(downloaded) => items # <<>>
  BY DEF MergeFails, ParseFails, items
<1>9. items # <<>> => Len(names) > 0
  BY <1>2, <1>3, <1>6
<1>10. DOMAIN names = DOMAIN items /\ \A i \in DOMAIN items : names[i] = items[i].name
  BY <1>3, <1>4
<1> QED
  BY <1>2, <1>3, <1>6, <1>7, <1>8, <1>9, <1>10 DEF names, items

\* The subscription in effect and the ports of its nodes.
InEffect ==
  /\ docs \in Sources /\ ~MergeFails(docs)
  /\ nodes = Parse(Merge(docs))
  /\ DOMAIN ports = ToSet(nodes)

\* What is written of it: each file from the step after its own on.
Written ==
  /\ list = IF step \in {"export", "config", "up"} THEN ListenerList(nodes, ports) ELSE <<>>
  /\ export = IF step \in {"config", "up"} THEN ExportJSON(Merge(docs), ports) ELSE <<>>
  /\ config = IF step = "up" THEN RuntimeConfig(Merge(docs), portStart, ports) ELSE NoConfig

PublicationInv ==
  /\ step \in {"down", "ports", "list", "export", "config", "up"}
  /\ portStart \in Starts
  /\ ports \in PortMaps /\ saved \in PortMaps
  /\ \A m, n \in DOMAIN ports : ports[m] = ports[n] => m = n
  /\ IF step = "down" THEN docs = <<>> /\ nodes = <<>> /\ ports = NoPorts ELSE InEffect
  /\ Written
  /\ refused \in Nat
  /\ refused > 0 => refused > MaxPort - portStart + 1

\* Nothing allocated is a map as well.
LEMMA NoPortsIs == NoPorts \in PortMaps /\ DOMAIN NoPorts = {} /\ DOMAIN <<>> = {} /\ ToSet(<<>>) = {}
<1>1. NoPorts \in [{} -> 1..MaxPort] /\ {} \in SUBSET Names /\ DOMAIN <<>> = {}
  BY DEF NoPorts
<1>2. NoPorts \in PortMaps
  BY <1>1, PortMapsAre
<1> QED
  BY <1>1, <1>2 DEF ToSet

\* What a subscription that is taken over is taken over with: nobody loses a port but
\* to a node before; what is refused has more nodes than there are ports.
LEMMA TakeOverIs ==
  ASSUME NEW downloaded \in Sources, ~MergeFails(downloaded), NEW existing \in PortMaps,
         portStart' \in Starts, TakeOver(downloaded, existing)
  PROVE  LET names == Parse(Merge(downloaded))
         IN  \/ /\ refused' = Len(names) /\ Len(names) \in Nat
                /\ Len(names) > MaxPort - portStart' + 1
                /\ UNCHANGED <<step, docs, nodes, ports, list, export, config, saved>>
             \/ /\ refused' = 0 /\ docs' = downloaded /\ nodes' = names /\ step' = "ports"
                /\ ports' \in PortMaps /\ DOMAIN ports' = ToSet(names)
                /\ \A m, n \in DOMAIN ports' : ports'[m] = ports'[n] => m = n
                /\ \A i \in DOMAIN names :
                     names[i] \in DOMAIN existing /\ ports'[names[i]] # existing[names[i]] =>
                       \E j \in DOMAIN names : j < i /\ ports'[names[j]] = existing[names[i]]
                /\ FilesOutdated /\ saved' = saved
<1> DEFINE names  == Parse(Merge(downloaded))
           result == Allocate(names, portStart', existing)
<1>1. names \in Seq(Names) /\ IsInjective(names) /\ Len(names) \in Nat
  BY ParseIs
<1>2. portStart' \in 1..MaxPort
  BY PublicationAssumption
<1> DEFINE start == portStart'
<1> HIDE DEF names
<1>3. Allotted(result, names, Len(names), start, existing)
  <2> HIDE DEF start
  <2> QED
    BY <1>1, <1>2, AllocateAllots DEF start
<1> HIDE DEF result
<1>4. CASE result.full
  <2>1. /\ refused' = Len(names)
        /\ UNCHANGED <<step, docs, nodes, ports, list, export, config, saved>>
    BY <1>4 DEF TakeOver, files, result, names
  <2> QED
    BY <1>1, <1>3, <1>4, <2>1 DEF Allotted, names
<1>5. CASE ~result.full
  <2>1. /\ refused' = 0 /\ docs' = downloaded /\ nodes' = names /\ step' = "ports"
        /\ ports' = result.ports /\ FilesOutdated /\ saved' = saved
    BY <1>5 DEF TakeOver, result, names
  <2>2. DOMAIN names = 1..Len(names)
    BY <1>1
  <2>3. ToSet(names) = {names[i] : i \in 1..Len(names)}
    BY <2>2 DEF ToSet
  <2>4. ports' \in PortMaps
    BY <1>3, <2>1 DEF Allotted, Allocations
  <2>5. ASSUME NEW i \in DOMAIN names, names[i] \in DOMAIN existing,
               ports'[names[i]] # existing[names[i]]
        PROVE  \E j \in DOMAIN names : j < i /\ ports'[names[j]] = existing[names[i]]
    <3>1. PICK j \in 1..i - 1 : ports'[names[j]] = existing[names[i]]
      BY <1>3, <1>5, <2>1, <2>2, <2>5 DEF Allotted
    <3>2. j \in DOMAIN names /\ j < i
      BY <1>1, <2>2
    <3> QED
      BY <3>1, <3>2
  <2> QED
    BY <1>3, <1>5, <2>1, <2>3, <2>4, <2>5 DEF Allotted, names
<1> QED
  BY <1>4, <1>5

\* A subscription that is taken over keeps the invariant, or leaves everything.
LEMMA TakenOver ==
  ASSUME PublicationInv, NEW downloaded \in Sources, ~MergeFails(downloaded),
         NEW existing \in PortMaps, portStart' \in Starts,
         step = "down" \/ (step = "up" /\ portStart' = portStart),
         TakeOver(downloaded, existing)
  PROVE  PublicationInv'
<1> DEFINE names == Parse(Merge(downloaded))
<1>1. /\ saved \in PortMaps /\ ports \in PortMaps
      /\ step \in {"down", "ports", "list", "export", "config", "up"}
      /\ \A m, n \in DOMAIN ports : ports[m] = ports[n] => m = n
      /\ IF step = "down" THEN docs = <<>> /\ nodes = <<>> /\ ports = NoPorts ELSE InEffect
      /\ Written
  BY DEF PublicationInv
<1>2. CASE /\ refused' = Len(names) /\ Len(names) \in Nat
           /\ Len(names) > MaxPort - portStart' + 1
           /\ UNCHANGED <<step, docs, nodes, ports, list, export, config, saved>>
  <2>1. InEffect => InEffect'
    BY <1>2 DEF InEffect
  <2>2. IF step' = "down" THEN docs' = <<>> /\ nodes' = <<>> /\ ports' = NoPorts ELSE InEffect'
    BY <1>1, <1>2, <2>1
  <2>3. Written'
    BY <1>1, <1>2 DEF Written
  <2>4. refused' \in Nat /\ (refused' > 0 => refused' > MaxPort - portStart' + 1)
    BY <1>2
  <2>5. /\ step' \in {"down", "ports", "list", "export", "config", "up"}
        /\ ports' \in PortMaps /\ saved' \in PortMaps
        /\ \A m, n \in DOMAIN ports' : ports'[m] = ports'[n] => m = n
    BY <1>1, <1>2
  <2> QED
    BY <2>2, <2>3, <2>4, <2>5 DEF PublicationInv
<1>3. CASE /\ refused' = 0 /\ docs' = downloaded /\ nodes' = names /\ step' = "ports"
           /\ ports' \in PortMaps /\ DOMAIN ports' = ToSet(names)
           /\ \A m, n \in DOMAIN ports' : ports'[m] = ports'[n] => m = n
           /\ FilesOutdated /\ saved' = saved
  <2>1. InEffect'
    BY <1>3 DEF InEffect
  <2>2. Written'
    BY <1>3 DEF Written, FilesOutdated
  <2>3. refused' \in Nat /\ ~(refused' > 0)
    BY <1>3
  <2> QED
    BY <1>1, <1>3, <2>1, <2>2, <2>3 DEF PublicationInv
<1> QED
  BY <1>2, <1>3, TakeOverIs

\* What is left of a file that was being written is a map from nodes to ports.
LEMMA TornIsPorts ==
  ASSUME NEW map \in PortMaps, NEW torn \in Torn(map)
  PROVE  torn \in PortMaps
<1>1. PICK S \in SUBSET Names : map \in [S -> 1..MaxPort]
  BY PortMapsAre
<1>2. PICK T \in SUBSET DOMAIN map, cut \in DOMAIN map, port \in CutPorts :
        torn = [n \in T |-> IF n = cut THEN port ELSE map[n]]
  BY DEF Torn
<1>3. torn \in [T -> 1..MaxPort] /\ T \in SUBSET Names
  BY <1>1, <1>2, CutPortsAssumption
<1> QED
  BY <1>3, PortMapsAre

\* Every step keeps the invariant.
LEMMA PublicationStep == PublicationInv /\ [Next]_vars => PublicationInv'
<1> SUFFICES ASSUME PublicationInv, [Next]_vars
             PROVE  PublicationInv'
  OBVIOUS
<1>1. /\ step \in {"down", "ports", "list", "export", "config", "up"}
      /\ portStart \in Starts
      /\ ports \in PortMaps /\ saved \in PortMaps
      /\ \A m, n \in DOMAIN ports : ports[m] = ports[n] => m = n
      /\ IF step = "down" THEN docs = <<>> /\ nodes = <<>> /\ ports = NoPorts ELSE InEffect
      /\ Written
      /\ refused \in Nat
      /\ refused > 0 => refused > MaxPort - portStart + 1
  BY DEF PublicationInv
<1>2. ASSUME NEW downloaded \in Sources, Boot(downloaded)
      PROVE  PublicationInv'
  BY <1>1, <1>2, TakenOver DEF Boot
<1>3. ASSUME NEW downloaded \in Sources, Refresh(downloaded)
      PROVE  PublicationInv'
  <2>1. portStart' = portStart /\ TakeOver(downloaded, ports) /\ step = "up" /\ ~MergeFails(downloaded)
    BY <1>3 DEF Refresh
  <2> QED
    BY <1>1, <2>1, TakenOver
<1>4. CASE Save
  <2>1. InEffect /\ Written
    BY <1>1, <1>4 DEF Save
  <2>2. InEffect' /\ Written'
    BY <1>4, <2>1 DEF Save, memory, files, InEffect, Written
  <2> QED
    BY <1>1, <1>4, <2>2 DEF Save, memory, files, PublicationInv
<1>5. CASE WriteList
  <2>1. InEffect /\ Written
    BY <1>1, <1>5 DEF WriteList
  <2>2. InEffect' /\ Written'
    BY <1>5, <2>1 DEF WriteList, memory, InEffect, Written
  <2> QED
    BY <1>1, <1>5, <2>2 DEF WriteList, memory, PublicationInv
<1>6. CASE WriteExport
  <2>1. InEffect /\ Written
    BY <1>1, <1>6 DEF WriteExport
  <2>2. InEffect' /\ Written'
    BY <1>6, <2>1 DEF WriteExport, memory, InEffect, Written
  <2> QED
    BY <1>1, <1>6, <2>2 DEF WriteExport, memory, PublicationInv
<1>7. CASE WriteConfig
  <2>1. InEffect /\ Written
    BY <1>1, <1>7 DEF WriteConfig
  <2>2. InEffect' /\ Written'
    BY <1>7, <2>1 DEF WriteConfig, memory, InEffect, Written
  <2> QED
    BY <1>1, <1>7, <2>2 DEF WriteConfig, memory, PublicationInv
<1>8. CASE Crash
  <2>1. saved' \in PortMaps
    BY <1>1, <1>8, TornIsPorts DEF Crash
  <2>2. Written'
    BY <1>8 DEF Crash, FilesOutdated, Written
  <2>3. ports' \in PortMaps /\ \A m, n \in DOMAIN ports' : ports'[m] = ports'[n] => m = n
    BY <1>8, NoPortsIs DEF Crash
  <2> QED
    BY <1>1, <1>8, <2>1, <2>2, <2>3 DEF Crash, PublicationInv
<1>9. CASE UNCHANGED vars
  <2>1. (InEffect => InEffect') /\ Written'
    BY <1>1, <1>9 DEF vars, memory, files, InEffect, Written
  <2> QED
    BY <1>1, <1>9, <2>1 DEF vars, memory, files, PublicationInv
<1> QED
  BY <1>2, <1>3, <1>4, <1>5, <1>6, <1>7, <1>8, <1>9 DEF Next

\* So it always holds.
LEMMA PublicationInvHolds == Spec => []PublicationInv
<1>1. Init => PublicationInv
  <2> SUFFICES ASSUME Init PROVE PublicationInv
    OBVIOUS
  <2>1. Written
    BY DEF Init, Written
  <2> QED
    BY <2>1, NoPortsIs DEF Init, PublicationInv
<1> QED
  BY <1>1, PublicationStep, PTL DEF Spec

\* The entries of the three files are nodes with ports, in the files' own kinds.
LEMMA EntriesHavePorts ==
  ASSUME PublicationInv
  PROVE  /\ ToSet(list) \subseteq Entries(1..MaxPort)
         /\ ToSet(export) \subseteq Entries(1..MaxPort \cup {Remote})
         /\ ToSet(config.listeners) \subseteq Entries(1..MaxPort)
<1>1. Written /\ ports \in PortMaps
  BY DEF PublicationInv
<1>2. ASSUME list # <<>> \/ export # <<>> \/ config # NoConfig
      PROVE  InEffect
  BY <1>2 DEF PublicationInv, Written
<1> DEFINE items == Merge(docs)
<1>3. ASSUME InEffect
      PROVE  /\ nodes \in Seq(Names) /\ DOMAIN nodes = DOMAIN items
             /\ \A i \in DOMAIN items : nodes[i] = items[i].name
             /\ \A i \in DOMAIN items : nodes[i] \in Names /\ nodes[i] \in DOMAIN ports
             /\ \A i \in DOMAIN items : ports[nodes[i]] \in 1..MaxPort
  <2>1. docs \in Sources /\ nodes = Parse(items)
    BY <1>3 DEF InEffect
  <2>2. /\ nodes \in Seq(Names) /\ DOMAIN nodes = DOMAIN items
        /\ \A i \in DOMAIN items : nodes[i] = items[i].name
    BY <2>1, ParseIs
  <2> HIDE DEF items
  <2>3. \A i \in DOMAIN items : nodes[i] \in Names /\ nodes[i] \in DOMAIN ports
    BY <1>3, <2>2 DEF InEffect, ToSet
  <2>4. PICK S \in SUBSET Names : ports \in [S -> 1..MaxPort]
    BY <1>1, PortMapsAre
  <2> QED
    BY <2>2, <2>3, <2>4
<1> HIDE DEF items
<1>4. ToSet(list) \subseteq Entries(1..MaxPort)
  <2>1. CASE list = <<>>
    BY <2>1, NoPortsIs
  <2>2. CASE list # <<>>
    <3>1. list = ListenerList(nodes, ports)
      BY <1>1, <2>2 DEF Written
    <3> QED
      BY <1>2, <1>3, <2>2, <3>1 DEF ListenerList, ToSet, Entries
  <2> QED
    BY <2>1, <2>2
<1>5. ToSet(export) \subseteq Entries(1..MaxPort \cup {Remote})
  <2>1. CASE export = <<>>
    BY <2>1, NoPortsIs
  <2>2. CASE export # <<>>
    <3>1. export = ExportJSON(items, ports)
      BY <1>1, <2>2 DEF Written, items
    <3> QED
      BY <1>2, <1>3, <2>2, <3>1 DEF ExportJSON, ToSet, Entries
  <2> QED
    BY <2>1, <2>2
<1>6. ToSet(config.listeners) \subseteq Entries(1..MaxPort)
  <2>1. CASE config = NoConfig
    BY <2>1, NoPortsIs DEF NoConfig
  <2>2. CASE config # NoConfig
    <3>1. config.listeners = RuntimeListeners(items, portStart, ports)
      BY <1>1, <2>2 DEF Written, RuntimeConfig, items
    <3> QED
      BY <1>2, <1>3, <2>2, <3>1 DEF RuntimeListeners, ToSet, Entries
  <2> QED
    BY <2>1, <2>2
<1> QED
  BY <1>4, <1>5, <1>6

\* Every file, and the maps in memory and on disk, hold nodes and ports of the range,
\* whatever was cut off ports.tsv; the node list names no node twice.
THEOREM PublicationTypesHold == Spec => []TypeOK
<1>1. PublicationInv => TypeOK
  <2> SUFFICES ASSUME PublicationInv PROVE TypeOK
    OBVIOUS
  <2>1. /\ step \in {"down", "ports", "list", "export", "config", "up"}
        /\ portStart \in Starts /\ ports \in PortMaps /\ saved \in PortMaps
        /\ refused \in Nat
    BY DEF PublicationInv
  <2>2. docs \in Sources \cup {<<>>} /\ nodes \in Seq(Names) /\ IsInjective(nodes)
    <3>1. CASE step = "down"
      <4>1. docs = <<>> /\ nodes = <<>>
        BY <3>1 DEF PublicationInv
      <4>2. IsInjective(<<>>) /\ <<>> \in Seq(Names)
        BY NoPortsIs DEF IsInjective
      <4> QED
        BY <4>1, <4>2
    <3>2. CASE step # "down"
      <4>1. docs \in Sources /\ nodes = Parse(Merge(docs))
        BY <3>2 DEF PublicationInv, InEffect
      <4> QED
        BY <4>1, ParseIs
    <3> QED
      BY <3>1, <3>2
  <2> QED
    BY <2>1, <2>2, EntriesHavePorts DEF TypeOK
<1> QED
  BY <1>1, PublicationInvHolds, PTL

\* allocateListenerPorts gives every node a port, and no two of them the same, also
\* when the ports were read from a file that was cut or names a port twice.
THEOREM PublicationPortsAreUnique == Spec => []PortsAreUnique
<1>1. PublicationInv => PortsAreUnique
  <2> SUFFICES ASSUME PublicationInv PROVE PortsAreUnique
    OBVIOUS
  <2>1. DOMAIN ports = ToSet(nodes)
    BY NoPortsIs DEF PublicationInv, InEffect
  <2> QED
    BY <2>1 DEF PublicationInv, PortsAreUnique
<1> QED
  BY <1>1, PublicationInvHolds, PTL

\* The supervisor refuses a subscription for want of ports only if it has more nodes
\* than there are ports from MIHOMO_PORT_START on.
THEOREM PublicationRefusedOnlyWhenFull == Spec => []RefusedOnlyWhenFull
<1>1. PublicationInv => RefusedOnlyWhenFull
  BY DEF PublicationInv, RefusedOnlyWhenFull
<1> QED
  BY <1>1, PublicationInvHolds, PTL

\* Mihomo's configuration lists the first item of each name over all documents, in
\* their order: what MergeSubscriptions' two loops compute, for any documents, none of
\* which failed.
THEOREM PublicationServesFirstOfName == Spec => []ServesFirstOfName
<1>1. PublicationInv => ServesFirstOfName
  <2> SUFFICES ASSUME PublicationInv, step = "up"
               PROVE  /\ \A d \in DOMAIN docs : IsSubscription(docs[d])
                      /\ AreFirstOfName(config.proxies, docs)
    BY DEF ServesFirstOfName
  <2>1. docs \in Sources /\ ~MergeFails(docs) /\ config.proxies = Merge(docs)
    BY DEF PublicationInv, InEffect, Written, RuntimeConfig
  <2>2. \A d \in DOMAIN docs : IsSubscription(docs[d])
    BY <2>1 DEF MergeFails, Downloads, IsSubscription
  <2> QED
    BY <2>1, <2>2, ParseIs
<1> QED
  BY <1>1, PublicationInvHolds, PTL

\* writeListenerList, ExportJSON and PrepareRuntimeConfig, which look the ports up by
\* three different ways, publish the same nodes with the same ports.
THEOREM PublicationViewsAgree == Spec => []ViewsAgree
<1>1. PublicationInv => ViewsAgree
  <2> SUFFICES ASSUME PublicationInv, step = "up"
               PROVE  /\ list = config.listeners
                      /\ Len(export) = Len(list)
                      /\ \A i \in DOMAIN export :
                           ~config.proxies[i].padded => export[i] = list[i]
    BY DEF ViewsAgree
  <2> DEFINE items == Merge(docs)
  <2>1. InEffect /\ Written
    BY DEF PublicationInv
  <2>2. docs \in Sources /\ nodes = Parse(items)
    BY <2>1 DEF InEffect
  <2>3. /\ items \in Seq(Items) /\ nodes \in Seq(Names)
        /\ DOMAIN nodes = DOMAIN items
        /\ \A i \in DOMAIN items : nodes[i] = items[i].name
    BY <2>2, ParseIs
  <2>4. /\ list = ListenerList(nodes, ports) /\ export = ExportJSON(items, ports)
        /\ config.proxies = items
        /\ config.listeners = RuntimeListeners(items, portStart, ports)
    BY <2>1 DEF Written, RuntimeConfig
  <2> HIDE DEF items
  <2>5. \A i \in DOMAIN items : items[i].name \in DOMAIN ports
    BY <2>1, <2>3 DEF InEffect, ToSet
  <2>6. list = config.listeners
    BY <2>3, <2>4, <2>5 DEF ListenerList, RuntimeListeners
  <2>7. DOMAIN items = 1..Len(items) /\ Len(items) \in Nat
    BY <2>3
  <2>8. Len(export) = Len(items) /\ Len(list) = Len(items)
    BY <2>3, <2>4, <2>7 DEF ExportJSON, ListenerList
  <2>9. ASSUME NEW i \in DOMAIN export, ~config.proxies[i].padded
        PROVE  export[i] = list[i]
    <3>1. i \in DOMAIN items /\ i \in DOMAIN nodes
      BY <2>3, <2>4 DEF ExportJSON
    <3>2. export[i] = [name |-> items[i].name, endpoint |-> ports[items[i].name]]
      BY <2>4, <2>5, <2>9, <3>1 DEF ExportJSON
    <3>3. list[i] = [name |-> nodes[i], endpoint |-> ports[nodes[i]]]
      BY <2>4, <3>1 DEF ListenerList
    <3> QED
      BY <2>3, <3>1, <3>2, <3>3
  <2> QED
    BY <2>6, <2>8, <2>9
<1> QED
  BY <1>1, PublicationInvHolds, PTL

\* A node of a list without duplicates is at one position.
LEMMA PositionIs ==
  ASSUME NEW seq, IsInjective(seq), NEW i \in DOMAIN seq
  PROVE  Position(seq[i], seq) = i
BY DEF Position, IsInjective

\* allocateListenerPorts, over any list of nodes and any ports kept in memory or read
\* back from ports.tsv, takes a port away only in favour of a node before.
THEOREM PublicationLosesPortOnlyToEarlierNode == Spec => LosesPortOnlyToEarlierNode
<1> DEFINE OnlyToEarlier ==
     TakesOver =>
       \A n \in ToSet(nodes') \cap DOMAIN Existing :
         ports'[n] # Existing[n] =>
           \E m \in ToSet(nodes') :
             /\ Position(m, nodes') < Position(n, nodes')
             /\ ports'[m] = Existing[n]
<1>1. ASSUME PublicationInv, [Next]_vars
      PROVE  [OnlyToEarlier]_vars
  <2> SUFFICES ASSUME vars' # vars, TakesOver,
                      NEW n \in ToSet(nodes') \cap DOMAIN Existing,
                      ports'[n] # Existing[n]
               PROVE  \E m \in ToSet(nodes') :
                        /\ Position(m, nodes') < Position(n, nodes')
                        /\ ports'[m] = Existing[n]
    OBVIOUS
  <2>1. PICK downloaded \in Sources : Boot(downloaded) \/ Refresh(downloaded)
    BY <1>1 DEF Next, TakesOver, Save, WriteList, WriteExport, WriteConfig, Crash
  <2>2. /\ TakeOver(downloaded, Existing) /\ ~MergeFails(downloaded)
        /\ portStart' \in Starts /\ Existing \in PortMaps
        /\ step # "ports"
    BY <1>1, <2>1 DEF Boot, Refresh, Existing, PublicationInv
  <2> DEFINE names == Parse(Merge(downloaded))
  <2>3. /\ nodes' = names
        /\ \A i \in DOMAIN names :
             names[i] \in DOMAIN Existing /\ ports'[names[i]] # Existing[names[i]] =>
               \E j \in DOMAIN names : j < i /\ ports'[names[j]] = Existing[names[i]]
    BY <2>2, TakeOverIs DEF TakesOver
  <2>4. IsInjective(names)
    BY ParseIs
  <2> HIDE DEF names
  <2>5. PICK i \in DOMAIN names : names[i] = n
    BY <2>3 DEF ToSet
  <2>6. PICK j \in DOMAIN names : j < i /\ ports'[names[j]] = Existing[n]
    BY <2>3, <2>5
  <2>7. Position(names[j], names) = j /\ Position(n, names) = i
    BY <2>4, <2>5, PositionIs
  <2>8. names[j] \in ToSet(nodes')
    BY <2>3 DEF ToSet
  <2> QED
    BY <2>3, <2>6, <2>7, <2>8
<1> QED
  BY <1>1, PublicationInvHolds, PTL DEF Spec, LosesPortOnlyToEarlierNode

-----------------------------------------------------------------------------
(* The binaries a start of the service downloads. *)

\* A binary beyond the limit is cut, and no other.
Sound(file) == Whole(file) \/ file.size > MaxSize

\* What is about to be cached is as sound as what is cached.
DownloadInv ==
  /\ cache # Nothing => Sound(cache)
  /\ binary # Nothing => Sound(binary)

\* What a step of the service or of pp may do to the binaries.
LEMMA BinariesStep ==
  ASSUME [ServiceNext]_serviceVars
  PROVE  DownloadNext \/ (cache' = cache /\ binary' \in {Nothing, binary})
<1>1. CASE UNCHANGED serviceVars
  BY <1>1 DEF serviceVars, downloadVars
<1>2. CASE \E c \in Commands : \E ch \in Changes : Begin(c, ch)
  BY <1>2 DEF Begin, downloadVars
<1>3. ASSUME NEW c \in Commands, Command(c) \/ Interrupt(c)
      PROVE  cache' = cache /\ binary' \in {Nothing, binary}
  <2>1. CASE Restart(c) \/ StopService(c)
    BY <2>1 DEF Restart, StopService, Restarted
  <2>2. CASE Load(c) \/ Cut(c) \/ SaveSubscriptions(c) \/ TestFinds(c) \/ Interrupt(c)
    BY <2>2 DEF Load, Cut, SaveSubscriptions, TestFinds, Interrupt, downloadVars
  <2> QED
    BY <1>3, <2>1, <2>2 DEF Command
<1>4. CASE Recover
  BY <1>4 DEF Recover, Restarted
<1>5. CASE Progress \/ ProgramFails
  BY <1>5 DEF Progress, ProgramFails, RestartSec, Decrypt, NothingToDecrypt,
              ProgramDownloads, Runs, Fails
<1> QED
  BY <1>1, <1>2, <1>3, <1>4, <1>5 DEF ServiceNext

\* No kill, failed download or cut archive leaves a part of a binary in the cache,
\* unless the binary is beyond the limit (managed.go:48, 86-98, 109-127).
THEOREM ServiceCachesWhole == ServiceSpec => []CachedBinaryIsWhole
<1>1. ServiceInit => DownloadInv
  BY DEF ServiceInit, DownloadInit, DownloadInv
<1>2. DownloadInv /\ [ServiceNext]_serviceVars => DownloadInv'
  <2> SUFFICES ASSUME DownloadInv, [ServiceNext]_serviceVars PROVE DownloadInv'
    OBVIOUS
  <2>1. CASE cache' = cache /\ binary' \in {Nothing, binary}
    BY <2>1 DEF DownloadInv, Sound, Whole
  <2>2. CASE FromCache \/ Write
    BY <2>2 DEF FromCache, Write, DownloadInv, Sound, Whole
  <2>3. CASE \E asset \in Assets : Download(asset)
    <3>1. PICK asset \in Assets : Download(asset)
      BY <2>3
    <3>2. Sound(Extracted(asset))
      BY DEF Sound, Whole, Extracted, Limited
    <3> QED
      BY <3>1, <3>2 DEF Download, DownloadInv, Sound, Whole
  <2>4. CASE Rename
    BY <2>4 DEF Rename, DownloadInv, Sound, Whole
  <2> QED
    BY <2>1, <2>2, <2>3, <2>4, BinariesStep DEF DownloadNext
<1>3. DownloadInv => CachedBinaryIsWhole
  BY DEF DownloadInv, CachedBinaryIsWhole, Sound
<1> QED
  BY <1>1, <1>2, <1>3, PTL DEF ServiceSpec

-----------------------------------------------------------------------------
(* The list of URLs, and the list the service runs with. *)

\* The commands that have begun to replace the list, and will restart the service or
\* stop it before they end.
Replacing == {c \in Commands : pc[c] \in {"save", "test", "restart", "stop"}}

\* A service that runs an older list is about to be restarted.
StaleInv ==
  /\ pc \in [Commands -> {"idle", "load", "cut", "save", "test", "restart", "stop"}]
  /\ trouble # "kill" /\ urls # Nothing /\ urls # stored => Replacing # {}

\* A command that replaces the list is one that restarts or stops the service later, unless
\* it is killed.
LEMMA CommandsKeepStaleInv ==
  ASSUME StaleInv, NEW c \in Commands, Command(c) \/ Interrupt(c)
  PROVE  StaleInv'
<1>1. CASE Restart(c) \/ StopService(c)
  BY <1>1 DEF Restart, StopService, Restarted, Leave, StaleInv
<1>2. CASE Load(c)
  <2>1. pc[c] = "load" /\ pc' \in {[pc EXCEPT ![c] = "idle"], [pc EXCEPT ![c] = "cut"]}
    BY <1>2 DEF Load, Leave, Goto
  <2>2. trouble' = trouble /\ urls' = urls /\ stored' = stored
    BY <1>2 DEF Load, Report, history
  <2>3. Replacing \subseteq Replacing'
    BY <2>1 DEF StaleInv, Replacing
  <2> QED
    BY <2>1, <2>2, <2>3 DEF StaleInv
<1>3. CASE Cut(c) \/ SaveSubscriptions(c) \/ TestFinds(c)
  <2>1. pc' \in {[pc EXCEPT ![c] = to] : to \in {"save", "test", "restart", "stop"}}
    BY <1>3 DEF Cut, SaveSubscriptions, TestFinds, Goto, AfterSave
  <2>2. c \in Replacing'
    BY <2>1 DEF StaleInv, Replacing
  <2> QED
    BY <2>1, <2>2 DEF StaleInv
<1>4. CASE Interrupt(c)
  BY <1>4 DEF Interrupt, Leave, Trouble, StaleInv
<1> QED
  BY <1>1, <1>2, <1>3, <1>4 DEF Command

\* Every other step leaves the list, or starts the service with it.
LEMMA StaleInvInductive == StaleInv /\ [ServiceNext]_serviceVars => StaleInv'
<1> SUFFICES ASSUME StaleInv, [ServiceNext]_serviceVars PROVE StaleInv'
  OBVIOUS
<1>1. CASE UNCHANGED serviceVars
  BY <1>1 DEF serviceVars, commandVars, history, StaleInv, Replacing
<1>2. ASSUME NEW c \in Commands, NEW ch \in Changes, Begin(c, ch)
      PROVE  StaleInv'
  <2>1. pc[c] = "idle" /\ pc' = [pc EXCEPT ![c] = "load"]
    BY <1>2 DEF Begin, Goto
  <2>2. urls' = urls /\ stored' = stored /\ (trouble' # "kill" => trouble # "kill")
    BY <1>2 DEF Begin, Trouble, history
  <2>3. Replacing \subseteq Replacing'
    BY <2>1 DEF StaleInv, Replacing
  <2> QED
    BY <2>1, <2>2, <2>3 DEF StaleInv
<1>3. CASE Recover
  BY <1>3 DEF Recover, Restarted, commandVars, StaleInv
<1>4. CASE Decrypt
  BY <1>4 DEF Decrypt, commandVars, StaleInv
<1>5. CASE NothingToDecrypt \/ ProgramFails
  BY <1>5 DEF NothingToDecrypt, ProgramFails, Fails, commandVars, StaleInv
<1>6. CASE RestartSec \/ ProgramDownloads \/ Runs
  BY <1>6 DEF RestartSec, ProgramDownloads, Runs, commandVars, history, StaleInv, Replacing
<1> QED
  BY <1>1, <1>2, <1>3, <1>4, <1>5, <1>6, CommandsKeepStaleInv DEF ServiceNext, Progress

\* However many pp commands overlap, once they are all through the service runs with
\* the list that is stored, if none was killed (deploy/pp:60, 149).
THEOREM ServiceRunsWhatIsStored == ServiceSpec => []RunsWhatIsStored
<1>1. ServiceInit => StaleInv
  BY DEF ServiceInit, StaleInv
<1>2. StaleInv => RunsWhatIsStored
  BY DEF StaleInv, RunsWhatIsStored, Replacing, Busy
<1> QED
  BY <1>1, <1>2, StaleInvInductive, PTL DEF ServiceSpec

\* The loop of grep -v, as Folding takes it.
Removing == INSTANCE Folding WITH Op <- LineKept

\* Removing a URL leaves a list of the others.
LEMMA WithoutIs ==
  ASSUME NEW old \in Lists, NEW url
  PROVE  Without(old, url) \in Lists /\ ToSet(Without(old, url)) = ToSet(old) \ {url}
<1> DEFINE n == Len(old)
<1>1. old \in Seq(URLs) /\ n \in Nat /\ DOMAIN old = 1..n
  BY DEF Lists
<1>2. \A i, j \in 1..n : old[i] = old[j] => i = j
  BY <1>1 DEF Lists, IsInjective
<1>3. Without(old, url) = Removing!Fold(<<>>, old, url)
  BY DEF Without, LineKept, FoldLeft, MapThenFoldSet, Max,
         Removing!Fold, Removing!FoldLeft, Removing!MapThenFoldSet, Removing!Max
<1>4. PICK acc :
        /\ acc[0] = <<>>
        /\ \A k \in 1..n : acc[k] = LineKept(acc[k - 1], old[k], url)
        /\ Without(old, url) = acc[n]
  BY <1>1, <1>3, Removing!FoldSteps
<1> HIDE DEF n
<1> DEFINE Copy(k) == /\ acc[k] \in Seq(URLs)
                      /\ IsInjective(acc[k])
                      /\ ToSet(acc[k]) = {old[i] : i \in 1..k} \ {url}
           T == {k \in 0..n : Copy(k)}
<1>5. 0 \in T
  <2>1. 0 \in 0..n /\ <<>> \in Seq(URLs) /\ DOMAIN <<>> = {} /\ 1..0 = {}
    BY <1>1 DEF n
  <2> QED
    BY <1>4, <2>1 DEF IsInjective, ToSet
<1>6. ASSUME NEW k \in 0..n - 1, k \in T
      PROVE  k + 1 \in T
  <2> DEFINE kept == acc[k]
             more == acc[k + 1]
             line == old[k + 1]
             before == {old[i] : i \in 1..k}
  <2>0. n \in Nat /\ k \in Nat /\ k + 1 \in 1..n /\ (k + 1) - 1 = k /\ k + 1 \in 0..n
    BY <1>1 DEF n
  <2>1. more = LineKept(kept, line, url)
    BY <1>4, <2>0
  <2>2. kept \in Seq(URLs) /\ IsInjective(kept) /\ ToSet(kept) = before \ {url}
    BY <1>6
  <2>3. line \in URLs /\ line \notin before
    <3>1. \A i \in 1..k : i \in 1..n /\ i # k + 1
      BY <2>0
    <3> QED
      BY <1>1, <1>2, <2>0, <3>1 DEF n
  <2>4. {old[i] : i \in 1..k + 1} = before \cup {line}
    <3>1. 1..k + 1 = 1..k \cup {k + 1}
      BY <2>0
    <3> QED
      BY <3>1
  <2> HIDE DEF kept, more, line, before
  <2>5. more \in Seq(URLs) /\ IsInjective(more) /\ ToSet(more) = (before \cup {line}) \ {url}
    <3>1. CASE line = url
      BY <2>1, <2>2, <3>1 DEF LineKept
    <3>2. CASE line # url
      <4>1. more = Append(kept, line)
        BY <2>1, <3>2 DEF LineKept
      <4> DEFINE m == Len(kept)
      <4>2. /\ m \in Nat /\ DOMAIN kept = 1..m
            /\ more \in Seq(URLs) /\ DOMAIN more = 1..m + 1
            /\ \A i \in 1..m : more[i] = kept[i]
            /\ more[m + 1] = line
        BY <2>2, <2>3, <4>1
      <4> HIDE DEF m
      <4>3. \A i \in 1..m + 1 : i \in 1..m \/ i = m + 1
        BY <4>2
      <4>4. m + 1 \in 1..m + 1 /\ \A i \in 1..m : i \in 1..m + 1
        BY <4>2
      <4>5. \A i \in 1..m : kept[i] # line
        BY <2>2, <2>3, <4>2 DEF ToSet
      <4>6. IsInjective(more)
        BY <2>2, <4>2, <4>3, <4>5 DEF IsInjective
      <4>7. ToSet(more) = ToSet(kept) \cup {line}
        BY <4>2, <4>3, <4>4 DEF ToSet
      <4> QED
        BY <2>2, <3>2, <4>2, <4>6, <4>7
    <3> QED
      BY <3>1, <3>2
  <2> QED
    BY <2>0, <2>4, <2>5 DEF more
<1>7. Copy(n)
  <2> HIDE DEF Copy
  <2>1. \A k \in 0..n : k \in T
    BY <1>1, <1>5, <1>6, Removing!IntervalInduction DEF n
  <2>2. n \in 0..n
    BY <1>1 DEF n
  <2> QED
    BY <2>1, <2>2
<1>8. ToSet(old) = {old[i] : i \in 1..n}
  BY <1>1 DEF ToSet, n
<1> QED
  BY <1>4, <1>7, <1>8 DEF Lists

\* What a command that is through has made of the set of URLs.
Effect(set, ch) == IF ch.verb = "add" THEN set \cup {ch.url} ELSE set \ {ch.url}

\* A change leaves a list, of the URLs it should have.
LEMMA ChangedIs ==
  ASSUME NEW old \in Lists, NEW ch \in Changes
  PROVE  Changed(old, ch) \in Lists /\ ToSet(Changed(old, ch)) = Effect(ToSet(old), ch)
<1>1. ch.verb \in {"add", "remove"} /\ ch.url \in URLs
  BY DEF Changes
<1>2. CASE ch.verb = "remove"
  BY <1>2, WithoutIs DEF Changed, Effect
<1>3. CASE ch.verb = "add" /\ ch.url \in ToSet(old)
  BY <1>3 DEF Changed, Effect
<1>4. CASE ch.verb = "add" /\ ch.url \notin ToSet(old)
  <2> DEFINE m == Len(old)
             more == Append(old, ch.url)
  <2>1. Changed(old, ch) = more
    BY <1>4 DEF Changed
  <2>2. /\ m \in Nat /\ DOMAIN old = 1..m
        /\ more \in Seq(URLs) /\ DOMAIN more = 1..m + 1
        /\ \A i \in 1..m : more[i] = old[i]
        /\ more[m + 1] = ch.url
    BY <1>1 DEF Lists
  <2> HIDE DEF m, more
  <2>3. \A i \in 1..m + 1 : i \in 1..m \/ i = m + 1
    BY <2>2
  <2>4. m + 1 \in 1..m + 1 /\ \A i \in 1..m : i \in 1..m + 1
    BY <2>2
  <2>5. \A i \in 1..m : old[i] # ch.url
    BY <1>4, <2>2 DEF ToSet
  <2>6. IsInjective(more)
    BY <2>2, <2>3, <2>5 DEF IsInjective, Lists
  <2>7. ToSet(more) = ToSet(old) \cup {ch.url}
    BY <2>2, <2>3, <2>4 DEF ToSet
  <2> QED
    BY <1>4, <2>1, <2>2, <2>6, <2>7 DEF Lists, Effect
<1> QED
  BY <1>1, <1>2, <1>3, <1>4

CommandSteps == {"idle", "load", "cut", "save", "test", "restart", "stop"}

\* The types; a command that is under way knows what it is to do.
ServiceTypeInv ==
  /\ ServiceTypeOK
  /\ \A c \in Busy : change[c] \in Changes
  /\ \A c \in Commands : pc[c] \in {"cut", "save"} => plan[c] \in Lists

\* The command's change is on its way: into its plan, and from there into the store.
Underway(c) ==
  /\ pc[c] \in {"load", "cut"} => stored \in Lists /\ ToSet(stored) = told
  /\ pc[c] \in {"cut", "save"} => ToSet(plan[c]) = Effect(told, change[c])
  /\ pc[c] \in {"test", "restart", "stop"} =>
       stored \in Lists /\ ToSet(stored) = Effect(told, change[c])

\* Without trouble there is one command at a time, and what it has not stored yet it
\* still has to do.
StoreInv ==
  trouble = "none" =>
    /\ Busy = {} => stored \in Lists /\ ToSet(stored) = told
    /\ \A c \in Busy : Busy = {c} /\ Underway(c)

\* Only the pp commands change the list and what is known of it.
LEMMA ServiceLeavesStore ==
  ASSUME Progress \/ ProgramFails
  PROVE  UNCHANGED <<stored, pc, change, plan, trouble, told>>
BY DEF Progress, ProgramFails, RestartSec, Decrypt, NothingToDecrypt, ProgramDownloads,
       Runs, Fails, commandVars, history

\* The empty list is one.
LEMMA EmptyIsList == <<>> \in Lists /\ ToSet(<<>>) = {}
<1>1. <<>> \in Seq(URLs) /\ DOMAIN <<>> = {}
  OBVIOUS
<1> QED
  BY <1>1 DEF Lists, IsInjective, ToSet

\* The installation leaves a list of at most one URL, and no command under way.
LEMMA ServiceInitInv == ServiceInit => ServiceTypeInv /\ StoreInv
<1> SUFFICES ASSUME ServiceInit PROVE ServiceTypeInv /\ StoreInv
  OBVIOUS
<1>1. stored \in Lists /\ ToSet(stored) \subseteq URLs /\ told = ToSet(stored)
  <2>1. CASE stored = <<>>
    BY <2>1, EmptyIsList DEF ServiceInit
  <2>2. CASE \E u \in URLs : stored = <<u>>
    <3>1. PICK u \in URLs : stored = <<u>>
      BY <2>2
    <3>2. stored \in Seq(URLs) /\ DOMAIN stored = 1..1 /\ stored[1] = u
      BY <3>1
    <3>3. \A i \in 1..1 : i = 1
      OBVIOUS
    <3> QED
      BY <3>2, <3>3 DEF Lists, IsInjective, ToSet, ServiceInit
  <2> QED
    BY <2>1, <2>2 DEF ServiceInit
<1>2. Busy = {} /\ \A c \in Commands : pc[c] = "idle"
  BY DEF ServiceInit, Busy
<1>3. ServiceTypeOK
  BY <1>1 DEF ServiceInit, ServiceTypeOK, DownloadInit
<1> QED
  BY <1>1, <1>2, <1>3 DEF ServiceTypeInv, StoreInv

\* What a step of the service leaves in memory and in the cache.
LEMMA ServiceKeepsTypes ==
  ASSUME ServiceTypeOK, Progress \/ ProgramFails
  PROVE  /\ stage' \in {"waiting", "wrapper", "stat", "write", "rename", "fetch", "running"}
         /\ binary' \in Binaries \cup {Nothing} /\ cache' \in Binaries \cup {Nothing}
         /\ urls' \in Lists \cup {Nothing}
<1>1. CASE ProgramFails \/ NothingToDecrypt
  BY <1>1 DEF ProgramFails, NothingToDecrypt, Fails, ServiceTypeOK
<1>2. CASE RestartSec \/ Decrypt \/ Runs
  BY <1>2 DEF RestartSec, Decrypt, Runs, ServiceTypeOK
<1>3. CASE ProgramDownloads
  <2>1. urls' = urls /\ DownloadNext
    BY <1>3 DEF ProgramDownloads
  <2>2. CASE FromCache \/ Write \/ Rename
    BY <2>1, <2>2 DEF FromCache, Write, Rename, ServiceTypeOK
  <2>3. ASSUME NEW asset \in Assets, Download(asset)
        PROVE  /\ stage' = "write" /\ cache' = cache
               /\ binary' \in Binaries
    <3>1. asset.binary \in Sizes /\ asset.binary \in Nat
      BY DownloadAssumption DEF Assets
    <3>2. Limited(asset.binary) \in 0..MaxSize
      BY <3>1, DownloadAssumption DEF Limited
    <3> QED
      BY <2>3, <3>1, <3>2 DEF Download, Extracted, Binaries
  <2> QED
    BY <2>1, <2>2, <2>3 DEF DownloadNext, ServiceTypeOK
<1> QED
  BY <1>1, <1>2, <1>3 DEF Progress

\* A command that comes to its end reports what is stored.
LEMMA ReportKeeps ==
  ASSUME ServiceTypeInv, StoreInv, NEW c \in Commands, pc[c] # "idle", Leave(c), Report(c),
         stored' = stored,
         trouble = "none" => stored \in Lists /\ ToSet(stored) = Effect(told, change[c])
  PROVE  /\ pc' \in [Commands -> CommandSteps] /\ change' \in [Commands -> Changes \cup {Nothing}]
         /\ plan' \in [Commands -> Lists \cup {Nothing}]
         /\ trouble' = trouble /\ told' \subseteq URLs
         /\ \A d \in Busy' : d \in Busy /\ change'[d] = change[d]
         /\ \A d \in Commands : pc'[d] \in {"cut", "save"} => pc[d] = pc'[d] /\ plan'[d] = plan[d]
         /\ StoreInv'
<1>1. c \in Busy /\ change[c] \in Changes
  BY DEF ServiceTypeInv, Busy
<1>2. /\ pc' = [pc EXCEPT ![c] = "idle"]
      /\ change' = [change EXCEPT ![c] = Nothing]
      /\ plan' = [plan EXCEPT ![c] = Nothing]
      /\ pc \in [Commands -> CommandSteps] /\ change \in [Commands -> Changes \cup {Nothing}]
      /\ plan \in [Commands -> Lists \cup {Nothing}] /\ told \subseteq URLs
  BY DEF Leave, ServiceTypeInv, ServiceTypeOK, CommandSteps
<1>3. trouble' = trouble /\ told' = IF trouble # "none" THEN told ELSE Effect(told, change[c])
  BY DEF Report, Effect
<1>4. change[c].url \in URLs
  BY <1>1 DEF Changes
<1>5. told' \subseteq URLs
  BY <1>2, <1>3, <1>4 DEF Effect
<1>6. Busy' = Busy \ {c}
  BY <1>2 DEF Busy
<1>7. StoreInv'
  BY <1>1, <1>3, <1>6 DEF StoreInv
<1>8. /\ pc' \in [Commands -> CommandSteps] /\ change' \in [Commands -> Changes \cup {Nothing}]
      /\ plan' \in [Commands -> Lists \cup {Nothing}]
  BY <1>2 DEF CommandSteps
<1>9. \A d \in Busy' : d \in Busy /\ change'[d] = change[d]
  BY <1>2, <1>6 DEF Busy
<1>10. \A d \in Commands : pc'[d] \in {"cut", "save"} => pc[d] = pc'[d] /\ plan'[d] = plan[d]
  BY <1>2
<1> QED
  BY <1>3, <1>5, <1>7, <1>8, <1>9, <1>10

\* A command that goes on from one step to the next: what it keeps.
LEMMA GoneOnKeeps ==
  ASSUME ServiceTypeInv, StoreInv, NEW c \in Commands, pc[c] # "idle",
         NEW to \in CommandSteps \ {"idle"}, Goto(c, to),
         UNCHANGED <<change, trouble, told>>,
         plan' \in [Commands -> Lists \cup {Nothing}],
         \A d \in Commands : d # c => plan'[d] = plan[d],
         to \in {"cut", "save"} => plan'[c] \in Lists,
         trouble = "none" /\ Busy = {c} => Underway(c)'
  PROVE  /\ pc' \in [Commands -> CommandSteps]
         /\ \A d \in Busy' : change'[d] \in Changes
         /\ \A d \in Commands : pc'[d] \in {"cut", "save"} => plan'[d] \in Lists
         /\ StoreInv'
<1>1. pc \in [Commands -> CommandSteps] /\ pc' = [pc EXCEPT ![c] = to]
  BY DEF ServiceTypeInv, ServiceTypeOK, CommandSteps, Goto
<1>2. c \in Busy /\ Busy' = Busy
  BY <1>1 DEF Busy, CommandSteps
<1>3. StoreInv'
  BY <1>2 DEF StoreInv
<1>4. pc' \in [Commands -> CommandSteps]
  BY <1>1
<1>5. \A d \in Busy' : change'[d] \in Changes
  BY <1>2 DEF ServiceTypeInv
<1>6. \A d \in Commands : pc'[d] \in {"cut", "save"} => plan'[d] \in Lists
  BY <1>1 DEF ServiceTypeInv
<1> QED
  BY <1>3, <1>4, <1>5, <1>6

ServiceInv == ServiceTypeInv /\ StoreInv

\* The part of the types that is about the service, not about the commands.
ServicePart ==
  /\ stage \in {"inactive", "waiting", "wrapper", "stat", "write", "rename", "fetch", "running"}
  /\ binary \in Binaries \cup {Nothing} /\ cache \in Binaries \cup {Nothing}
  /\ urls \in Lists \cup {Nothing}

\* A step of a command that is not its last one and leaves the service alone.
LEMMA CommandGoesOn ==
  ASSUME ServiceInv, NEW c \in Commands, pc[c] # "idle",
         NEW to \in CommandSteps \ {"idle"}, Goto(c, to),
         UNCHANGED <<downloadVars, urls, change, history>>,
         stored' \in Lists \cup {Damaged},
         plan' = plan \/ (\E new \in Lists : plan' = [plan EXCEPT ![c] = new]),
         to \in {"cut", "save"} => plan'[c] \in Lists,
         trouble = "none" /\ Busy = {c} => Underway(c)'
  PROVE  ServiceInv'
<1>1. /\ plan' \in [Commands -> Lists \cup {Nothing}]
      /\ \A d \in Commands : d # c => plan'[d] = plan[d]
  BY DEF ServiceInv, ServiceTypeInv, ServiceTypeOK
<1>2. UNCHANGED <<change, trouble, told>>
  BY DEF history
<1>3. /\ pc' \in [Commands -> CommandSteps]
      /\ \A d \in Busy' : change'[d] \in Changes
      /\ \A d \in Commands : pc'[d] \in {"cut", "save"} => plan'[d] \in Lists
      /\ StoreInv'
  BY <1>1, <1>2, GoneOnKeeps DEF ServiceInv
<1>4. ServiceTypeOK'
  BY <1>1, <1>2, <1>3 DEF ServiceInv, ServiceTypeInv, ServiceTypeOK, CommandSteps, downloadVars
<1> QED
  BY <1>3, <1>4 DEF ServiceInv, ServiceTypeInv

\* The end of a command that is through.
LEMMA CommandEnds ==
  ASSUME ServiceInv, NEW c \in Commands, pc[c] # "idle", Leave(c), Report(c), stored' = stored,
         ServicePart',
         trouble = "none" => stored \in Lists /\ ToSet(stored) = Effect(told, change[c])
  PROVE  ServiceInv'
<1>1. /\ pc' \in [Commands -> CommandSteps] /\ change' \in [Commands -> Changes \cup {Nothing}]
      /\ plan' \in [Commands -> Lists \cup {Nothing}]
      /\ trouble' = trouble /\ told' \subseteq URLs
      /\ \A d \in Busy' : d \in Busy /\ change'[d] = change[d]
      /\ \A d \in Commands : pc'[d] \in {"cut", "save"} => pc[d] = pc'[d] /\ plan'[d] = plan[d]
      /\ StoreInv'
  BY ReportKeeps DEF ServiceInv
<1>2. ServiceTypeOK'
  BY <1>1 DEF ServiceInv, ServiceTypeInv, ServiceTypeOK, CommandSteps, ServicePart
<1> QED
  BY <1>1, <1>2 DEF ServiceInv, ServiceTypeInv

\* What is known of a command that is under way, if there has been no trouble.
LEMMA AloneIsUnderway ==
  ASSUME ServiceInv, NEW c \in Commands, pc[c] # "idle"
  PROVE  /\ c \in Busy /\ change[c] \in Changes /\ ServicePart
         /\ trouble = "none" => Busy = {c} /\ Underway(c)
BY DEF ServiceInv, ServiceTypeInv, StoreInv, Busy, ServiceTypeOK, ServicePart

\* A command reads the list and plans the new one, or finds nothing to do.
LEMMA LoadKeeps ==
  ASSUME ServiceInv, NEW c \in Commands, Load(c)
  PROVE  ServiceInv'
<1>1. pc[c] = "load" /\ UNCHANGED <<downloadVars, stored, urls>>
  BY DEF Load
<1>2. change[c] \in Changes /\ ServicePart /\ (trouble = "none" => Busy = {c} /\ Underway(c))
  BY <1>1, AloneIsUnderway
<1>3. ServicePart'
  BY <1>1, <1>2 DEF ServicePart, downloadVars
<1>4. stored \in Lists \cup {Damaged}
  BY DEF ServiceInv, ServiceTypeInv, ServiceTypeOK
<1>5. Damaged \notin Lists
  BY ServiceAssumption DEF Lists
<1>6. trouble = "none" => stored \in Lists /\ ToSet(stored) = told
  BY <1>1, <1>2 DEF Underway
<1>7. CASE stored = Damaged
  <2>1. trouble # "none" /\ Leave(c) /\ UNCHANGED <<trouble, told>>
    BY <1>5, <1>6, <1>7 DEF Load, history
  <2>2. Report(c)
    BY <2>1 DEF Report
  <2> QED
    BY <1>1, <1>3, <2>1, <2>2, CommandEnds
<1>8. CASE stored # Damaged /\ Changed(stored, change[c]) = stored
  <2>1. Leave(c) /\ Report(c)
    BY <1>8 DEF Load
  <2>2. stored \in Lists /\ ToSet(stored) = Effect(ToSet(stored), change[c])
    BY <1>2, <1>4, <1>8, ChangedIs
  <2> QED
    BY <1>1, <1>3, <1>6, <2>1, <2>2, CommandEnds
<1>9. CASE stored # Damaged /\ Changed(stored, change[c]) # stored
  <2>1. /\ Goto(c, "cut") /\ UNCHANGED <<change, history>>
        /\ plan' = [plan EXCEPT ![c] = Changed(stored, change[c])]
    BY <1>9 DEF Load
  <2>2. /\ Changed(stored, change[c]) \in Lists
        /\ ToSet(Changed(stored, change[c])) = Effect(ToSet(stored), change[c])
    BY <1>2, <1>4, <1>9, ChangedIs
  <2>3. plan'[c] = Changed(stored, change[c]) /\ pc'[c] = "cut"
    BY <2>1 DEF Goto, ServiceInv, ServiceTypeInv, ServiceTypeOK
  <2>4. trouble = "none" => Underway(c)'
    BY <1>1, <1>6, <2>1, <2>2, <2>3 DEF Underway, history
  <2> QED
    BY <1>1, <1>4, <2>1, <2>2, <2>3, <2>4, CommandGoesOn DEF CommandSteps
<1> QED
  BY <1>7, <1>8, <1>9

\* The shell truncates the list, for the empty one or before the new one is encrypted.
LEMMA CutKeeps ==
  ASSUME ServiceInv, NEW c \in Commands, Cut(c)
  PROVE  ServiceInv'
<1>1. pc[c] = "cut" /\ UNCHANGED <<downloadVars, change, plan, urls, history>>
  BY DEF Cut
<1>2. plan[c] \in Lists /\ (trouble = "none" => Underway(c))
  BY <1>1, AloneIsUnderway DEF ServiceInv, ServiceTypeInv
<1>3. trouble = "none" => ToSet(plan[c]) = Effect(told, change[c])
  BY <1>1, <1>2 DEF Underway
<1>4. ASSUME NEW to \in CommandSteps, Goto(c, to)
      PROVE  pc'[c] = to
  BY <1>4 DEF Goto, ServiceInv, ServiceTypeInv, ServiceTypeOK
<1>5. CASE plan[c] = <<>>
  <2>1. stored' = <<>> /\ Goto(c, "test") /\ "test" \in CommandSteps \ {"idle"}
    BY <1>5 DEF Cut, CommandSteps
  <2>2. trouble = "none" => Underway(c)'
    BY <1>1, <1>3, <1>4, <1>5, <2>1, EmptyIsList DEF Underway, history
  <2> QED
    BY <1>1, <1>2, <2>1, <2>2, EmptyIsList, CommandGoesOn
<1>6. CASE plan[c] # <<>>
  <2>1. stored' \in {<<>>, Damaged} /\ Goto(c, "save") /\ "save" \in CommandSteps \ {"idle"}
    BY <1>6 DEF Cut, CommandSteps
  <2>2. trouble = "none" => Underway(c)'
    BY <1>1, <1>3, <1>4, <2>1 DEF Underway, history
  <2> QED
    BY <1>1, <1>2, <2>1, <2>2, EmptyIsList, CommandGoesOn
<1> QED
  BY <1>5, <1>6

\* The list is stored as planned.
LEMMA SaveKeeps ==
  ASSUME ServiceInv, NEW c \in Commands, SaveSubscriptions(c)
  PROVE  ServiceInv'
<1>1. pc[c] = "save" /\ stored' = plan[c] /\ UNCHANGED <<downloadVars, change, plan, urls, history>>
  BY DEF SaveSubscriptions
<1>2. plan[c] \in Lists /\ (trouble = "none" => Underway(c))
  BY <1>1, AloneIsUnderway DEF ServiceInv, ServiceTypeInv
<1>3. Goto(c, AfterSave(c)) /\ AfterSave(c) \in {"test", "restart"}
  BY DEF SaveSubscriptions, AfterSave
<1>4. pc'[c] = AfterSave(c) /\ AfterSave(c) \in CommandSteps \ {"idle"}
  BY <1>3 DEF Goto, ServiceInv, ServiceTypeInv, ServiceTypeOK, CommandSteps
<1>5. trouble = "none" => Underway(c)'
  BY <1>1, <1>2, <1>3, <1>4 DEF Underway, history
<1> QED
  BY <1>1, <1>2, <1>3, <1>4, <1>5, CommandGoesOn

\* pp remove looks if there is a list left.
LEMMA TestKeeps ==
  ASSUME ServiceInv, NEW c \in Commands, TestFinds(c)
  PROVE  ServiceInv'
<1> DEFINE to == IF stored = <<>> THEN "stop" ELSE "restart"
<1>1. pc[c] = "test" /\ UNCHANGED <<downloadVars, stored, change, plan, urls, history>>
  BY DEF TestFinds
<1>2. trouble = "none" => Underway(c)
  BY <1>1, AloneIsUnderway
<1>3. Goto(c, to) /\ to \in {"stop", "restart"}
  BY DEF TestFinds
<1> HIDE DEF to
<1>4. pc'[c] = to /\ to \in CommandSteps \ {"idle"}
  BY <1>3 DEF Goto, ServiceInv, ServiceTypeInv, ServiceTypeOK, CommandSteps
<1>5. trouble = "none" => Underway(c)'
  BY <1>1, <1>2, <1>3, <1>4 DEF Underway, history
<1>6. stored \in Lists \cup {Damaged}
  BY DEF ServiceInv, ServiceTypeInv, ServiceTypeOK
<1> QED
  BY <1>1, <1>3, <1>4, <1>5, <1>6, CommandGoesOn

\* A command ends, and restarts the service or stops it.
LEMMA EndKeeps ==
  ASSUME ServiceInv, NEW c \in Commands, Restart(c) \/ StopService(c)
  PROVE  ServiceInv'
<1>1. /\ pc[c] \in {"restart", "stop"} /\ Leave(c) /\ Report(c) /\ stored' = stored
      /\ stage' \in {"wrapper", "inactive"} /\ binary' = Nothing /\ urls' = Nothing /\ cache' = cache
  BY DEF Restart, StopService, Restarted
<1>2. ServicePart /\ (trouble = "none" => Underway(c))
  BY <1>1, AloneIsUnderway
<1>3. ServicePart'
  BY <1>1, <1>2 DEF ServicePart
<1>4. trouble = "none" => stored \in Lists /\ ToSet(stored) = Effect(told, change[c])
  BY <1>1, <1>2 DEF Underway
<1> QED
  BY <1>1, <1>3, <1>4, CommandEnds

\* A killed command: nothing is known of the list any more.
LEMMA InterruptKeeps ==
  ASSUME ServiceInv, NEW c \in Commands, Interrupt(c)
  PROVE  ServiceInv'
<1>1. /\ Leave(c) /\ trouble' = "kill" /\ told' = {}
      /\ UNCHANGED <<downloadVars, stored, urls>>
  BY DEF Interrupt, Trouble
<1>2. ServiceTypeOK'
  BY <1>1 DEF ServiceInv, ServiceTypeInv, ServiceTypeOK, Leave, downloadVars
<1>3. /\ \A d \in Busy' : d \in Busy /\ change'[d] = change[d]
      /\ \A d \in Commands : pc'[d] \in {"cut", "save"} => pc[d] = pc'[d] /\ plan'[d] = plan[d]
  BY <1>1 DEF ServiceInv, ServiceTypeInv, ServiceTypeOK, Leave, Busy
<1> QED
  BY <1>1, <1>2, <1>3 DEF ServiceInv, ServiceTypeInv, StoreInv

\* A command that begins while another one is under way is trouble.
LEMMA BeginKeeps ==
  ASSUME ServiceInv, NEW c \in Commands, NEW ch \in Changes, Begin(c, ch)
  PROVE  ServiceInv'
<1>1. /\ pc[c] = "idle" /\ pc' = [pc EXCEPT ![c] = "load"]
      /\ change' = [change EXCEPT ![c] = ch]
      /\ UNCHANGED <<downloadVars, stored, plan, urls>>
  BY DEF Begin, Goto
<1>2. /\ pc \in [Commands -> CommandSteps] /\ change \in [Commands -> Changes \cup {Nothing}]
  BY DEF ServiceInv, ServiceTypeInv, ServiceTypeOK, CommandSteps
<1>3. Busy' = Busy \cup {c} /\ pc'[c] = "load"
  BY <1>1, <1>2 DEF Busy, CommandSteps
<1>4. /\ trouble' \in {"none", "overlap", "kill"} /\ told' \subseteq URLs
      /\ trouble' = "none" => trouble = "none" /\ told' = told /\ Busy = {}
  BY DEF Begin, Trouble, history, ServiceInv, ServiceTypeInv, ServiceTypeOK
<1>5. ServiceTypeOK'
  BY <1>1, <1>2, <1>4 DEF ServiceInv, ServiceTypeInv, ServiceTypeOK, CommandSteps, downloadVars
<1>6. /\ \A d \in Busy' : change'[d] \in Changes
      /\ \A d \in Commands : pc'[d] \in {"cut", "save"} => plan'[d] \in Lists
  BY <1>1, <1>2, <1>3 DEF ServiceInv, ServiceTypeInv, Busy
<1>7. StoreInv'
  BY <1>1, <1>3, <1>4 DEF ServiceInv, StoreInv, Underway
<1> QED
  BY <1>5, <1>6, <1>7 DEF ServiceInv, ServiceTypeInv

\* Once somebody has looked, what the list holds is what is configured.
LEMMA RecoverKeeps == ServiceInv /\ Recover => ServiceInv'
<1> SUFFICES ASSUME ServiceInv, Recover PROVE ServiceInv'
  OBVIOUS
<1>1. /\ Busy = {} /\ stored \in Lists /\ told' = ToSet(stored) /\ trouble' = "none"
      /\ stage' = "wrapper" /\ binary' = Nothing /\ urls' = Nothing
      /\ UNCHANGED <<cache, stored, pc, change, plan>>
  BY DEF Recover, Restarted, commandVars, ServiceInv, ServiceTypeInv, ServiceTypeOK
<1>2. ToSet(stored) \subseteq URLs
  BY <1>1 DEF Lists, ToSet
<1>3. ServiceTypeOK' /\ Busy' = Busy
  BY <1>1, <1>2 DEF ServiceInv, ServiceTypeInv, ServiceTypeOK, Busy
<1> QED
  BY <1>1, <1>3 DEF ServiceInv, ServiceTypeInv, StoreInv

\* Every step keeps the invariant.
LEMMA ServiceStep == ServiceInv /\ [ServiceNext]_serviceVars => ServiceInv'
<1> SUFFICES ASSUME ServiceInv, [ServiceNext]_serviceVars PROVE ServiceInv'
  OBVIOUS
<1>1. ASSUME UNCHANGED <<stored, pc, change, plan, trouble, told>>, ServicePart'
      PROVE  ServiceInv'
  <2>1. Busy' = Busy
    BY <1>1 DEF Busy
  <2>2. ServiceTypeOK'
    BY <1>1 DEF ServiceInv, ServiceTypeInv, ServiceTypeOK, ServicePart
  <2> QED
    BY <1>1, <2>1, <2>2 DEF ServiceInv, ServiceTypeInv, StoreInv, Underway
<1>2. CASE UNCHANGED serviceVars
  <2>1. ServicePart'
    BY <1>2 DEF serviceVars, downloadVars, ServiceInv, ServiceTypeInv, ServiceTypeOK, ServicePart
  <2> QED
    BY <1>1, <1>2, <2>1 DEF serviceVars, commandVars, history
<1>3. ASSUME NEW c \in Commands, Command(c)
      PROVE  ServiceInv'
  BY <1>3, LoadKeeps, CutKeeps, SaveKeeps, TestKeeps, EndKeeps DEF Command
<1>4. CASE Progress \/ ProgramFails
  <2>1. ServicePart'
    BY <1>4, ServiceKeepsTypes DEF ServiceInv, ServiceTypeInv, ServicePart
  <2> QED
    BY <1>1, <1>4, <2>1, ServiceLeavesStore
<1> QED
  BY <1>2, <1>3, <1>4, BeginKeeps, InterruptKeeps, RecoverKeeps DEF ServiceNext

\* The list never has a URL twice, whatever the commands add, remove and overlap in.
THEOREM ServiceTypesHold == ServiceSpec => []ServiceTypeOK
<1>1. ServiceInv => ServiceTypeOK
  BY DEF ServiceInv, ServiceTypeInv
<1> QED
  BY <1>1, ServiceInitInv, ServiceStep, PTL DEF ServiceSpec, ServiceInv

\* As long as pp commands come one after the other and none is killed, what they
\* reported is what is stored (deploy/pp:38-65, 126-146).
THEOREM ServiceStoreIsAsReported == ServiceSpec => []StoreIsAsReported
<1>1. ServiceInv => StoreIsAsReported
  <2>1. Damaged \notin Lists
    BY ServiceAssumption DEF Lists
  <2> QED
    BY <2>1 DEF ServiceInv, StoreInv, StoreIsAsReported, Settled
<1> QED
  BY <1>1, ServiceInitInv, ServiceStep, PTL DEF ServiceSpec, ServiceInv

=============================================================================
