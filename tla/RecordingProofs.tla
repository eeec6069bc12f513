---------------------------- MODULE RecordingProofs ----------------------------
(* Proofs about Recording, for every set of histograms, fills, labels, pieces *)
(* and every number of fill calls.                                            *)
EXTENDS Recording, SetInduction, SequenceTheorems

-----------------------------------------------------------------------------
(* The nodes of one fill *)

\* What the fills' records are.
LEMMA FillFacts ==
    ASSUME NEW f \in Fills
    PROVE  /\ f.axis \in BOOLEAN /\ Nominal \in f.labels /\ f.labels \subseteq Labels
           /\ NoLabel \notin f.labels /\ IsFiniteSet(f.labels)
<1>1. f.axis \in BOOLEAN /\ Nominal \in f.labels /\ f.labels \in SUBSET Labels
  BY FillsAssumption
<1> QED
  BY <1>1, LabelsAssumption, FS_Subset

\* The labels that share l's node, and the sets of such labels.
UnitOf(f, l) == IF f.axis THEN GroupOf(f, l) ELSE {l}
UnitsOf(f) == IF f.axis THEN Groups(f) ELSE {{l} : l \in f.labels}

\* The units partition the labels, and each has one node.
LEMMA UnitFacts ==
    ASSUME NEW f \in Fills
    PROVE  /\ UnitsOf(f) = {UnitOf(f, l) : l \in f.labels}
           /\ IsFiniteSet(UnitsOf(f))
           /\ \A l \in f.labels : l \in UnitOf(f, l) /\ UnitOf(f, l) \subseteq f.labels
           /\ \A l, m \in f.labels : m \in UnitOf(f, l) =>
                /\ UnitOf(f, m) = UnitOf(f, l) /\ NodeOf(f, m) = NodeOf(f, l)
<1>1. UnitsOf(f) = {UnitOf(f, l) : l \in f.labels}
  BY DEF UnitsOf, UnitOf, Groups
<1>2. IsFiniteSet(UnitsOf(f))
  <2> DEFINE g == [l \in f.labels |-> UnitOf(f, l)]
  <2>1. g \in Surjection(f.labels, UnitsOf(f))
    BY <1>1 DEF Surjection
  <2> HIDE DEF g
  <2> QED
    BY <2>1, FillFacts, FS_Surjection
<1>3. ASSUME NEW l \in f.labels
      PROVE  l \in UnitOf(f, l) /\ UnitOf(f, l) \subseteq f.labels
  BY DEF UnitOf, GroupOf
<1>4. ASSUME NEW l \in f.labels, NEW m \in f.labels, m \in UnitOf(f, l)
      PROVE  /\ UnitOf(f, m) = UnitOf(f, l) /\ NodeOf(f, m) = NodeOf(f, l)
  <2>1. CASE f.axis
    <3>1. GroupOf(f, m) = GroupOf(f, l)
      BY <1>4, <2>1 DEF UnitOf, GroupOf
    <3> QED
      BY <2>1, <3>1 DEF UnitOf, NodeOf
  <2>2. CASE ~f.axis
    <3>1. m = l
      BY <1>4, <2>2 DEF UnitOf
    <3> QED
      BY <3>1
  <2> QED
    BY <2>1, <2>2
<1> QED
  BY <1>1, <1>2, <1>3, <1>4

NodesOf(f) == {NodeOf(f, l) : l \in f.labels}
Node == UNION {NodesOf(f) : f \in Fills}

\* o lists the fill's units in the order of the nodes it records.
Orders(f, new, n, o) ==
    /\ n \in Nat /\ o \in [1 .. n -> UnitsOf(f)]
    /\ \A i, j \in 1 .. n : o[i] = o[j] => i = j
    /\ \A u \in UnitsOf(f) : \E i \in 1 .. n : o[i] = u
    /\ new \in [1 .. n -> NodesOf(f)]
    /\ \A i \in 1 .. n : \A l \in o[i] : l \in f.labels /\ new[i] = NodeOf(f, l)

\* A fill records its units' nodes, each once.
LEMMA Ordered ==
    ASSUME NEW f \in Fills, NEW new \in NodeOrders(f)
    PROVE  \E n, o : Orders(f, new, n, o)
<1> DEFINE U == UnitsOf(f)
           n == Cardinality(U)
<1>1. n \in Nat /\ IsFiniteSet(U) /\ IsFiniteSet(1 .. n) /\ Cardinality(1 .. n) = n
  <2>1. n \in Nat /\ IsFiniteSet(U)
    BY UnitFacts, FS_CardinalityType
  <2> HIDE DEF n
  <2> QED
    BY <2>1, FS_Interval
<1>2. PICK o \in SetToSeqs(U) :
        new = [i \in DOMAIN o |-> NodeOf(f, CHOOSE l \in o[i] : TRUE)]
  BY DEF NodeOrders, UnitsOf
<1>3. o \in [1 .. n -> U] /\ \A i, j \in 1 .. n : o[i] = o[j] => i = j
  BY DEF SetToSeqs
<1>4. o \in Injection(1 .. n, U)
  BY <1>3 DEF Injection, IsInjective
<1>5. o \in Surjection(1 .. n, U)
  <2>1. Cardinality(1 .. n) = Cardinality(U)
    BY <1>1
  <2> HIDE DEF U, n
  <2> QED
    BY <1>1, <1>4, <2>1, FS_Injection
<1>6. \A u \in U : \E i \in 1 .. n : o[i] = u
  BY <1>5 DEF Surjection
<1>7. ASSUME NEW i \in 1 .. n
      PROVE  /\ new[i] \in NodesOf(f)
             /\ \A l \in o[i] : l \in f.labels /\ new[i] = NodeOf(f, l)
  <2>1. PICK k \in f.labels : o[i] = UnitOf(f, k)
    BY <1>3, UnitFacts
  <2>2. k \in o[i] /\ \A l \in o[i] : l \in f.labels /\ NodeOf(f, l) = NodeOf(f, k)
    BY <2>1, UnitFacts
  <2>3. new[i] = NodeOf(f, k)
    <3>1. (CHOOSE l \in o[i] : TRUE) \in o[i]
      BY <2>2
    <3>2. new[i] = NodeOf(f, CHOOSE l \in o[i] : TRUE)
      BY <1>2, <1>3
    <3> QED
      BY <2>2, <3>1, <3>2
  <2> QED
    BY <2>2, <2>3 DEF NodesOf
<1>8. new \in [1 .. n -> NodesOf(f)]
  BY <1>2, <1>3, <1>7
<1> HIDE DEF n
<1> QED
  BY <1>1, <1>3, <1>6, <1>7, <1>8 DEF Orders

\* They are a sequence of exactly the fill's nodes.
LEMMA NewNodes ==
    ASSUME NEW f \in Fills, NEW new \in NodeOrders(f)
    PROVE  /\ new \in Seq(NodesOf(f)) /\ NodesOf(f) \subseteq Node /\ new \in Seq(Node)
           /\ \A l \in f.labels : \E i \in DOMAIN new : new[i] = NodeOf(f, l)
<1>1. PICK n, o : Orders(f, new, n, o)
  BY Ordered
<1>2. /\ n \in Nat /\ o \in [1 .. n -> UnitsOf(f)]
      /\ \A i, j \in 1 .. n : o[i] = o[j] => i = j
      /\ \A u \in UnitsOf(f) : \E i \in 1 .. n : o[i] = u
      /\ new \in [1 .. n -> NodesOf(f)]
      /\ \A i \in 1 .. n : \A m \in o[i] : m \in f.labels /\ new[i] = NodeOf(f, m)
  BY <1>1 DEF Orders
<1>3. NodesOf(f) \subseteq Node
  BY DEF Node
<1>4. new \in [1 .. n -> NodesOf(f)] /\ new \in [1 .. n -> Node]
  BY <1>2, <1>3
<1>5. new \in Seq(NodesOf(f)) /\ new \in Seq(Node)
  BY <1>2, <1>4, SeqDef
<1>6. ASSUME NEW l \in f.labels PROVE \E i \in DOMAIN new : new[i] = NodeOf(f, l)
  <2>1. UnitOf(f, l) \in UnitsOf(f) /\ l \in UnitOf(f, l)
    BY UnitFacts
  <2>2. PICK i \in 1 .. n : o[i] = UnitOf(f, l)
    BY <1>2, <2>1
  <2> QED
    BY <1>2, <2>1, <2>2
<1> QED
  BY <1>3, <1>5, <1>6

\* What an axis fill adds to the universe of a label it carries is what the label
\* asks for, once: the label is in one group, and its group's node reads its members.
LEMMA AxisAdds ==
    ASSUME NEW f \in Fills, f.axis, NEW new \in NodeOrders(f), NEW l \in f.labels, NEW c
    PROVE  Cardinality({i \in DOMAIN new : AddsTo(new[i], l, c)})
             = IF Reaches(f, l) = c THEN 1 ELSE 0
<1>1. PICK n, o : Orders(f, new, n, o)
  BY Ordered
<1>2. /\ n \in Nat /\ o \in [1 .. n -> UnitsOf(f)]
      /\ \A i, j \in 1 .. n : o[i] = o[j] => i = j
      /\ \A u \in UnitsOf(f) : \E i \in 1 .. n : o[i] = u
      /\ new \in [1 .. n -> NodesOf(f)]
      /\ \A i \in 1 .. n : \A m \in o[i] : m \in f.labels /\ new[i] = NodeOf(f, m)
  BY <1>1 DEF Orders
<1>3. /\ UnitsOf(f) = {GroupOf(f, m) : m \in f.labels}
      /\ \A m \in f.labels : m \in GroupOf(f, m)
      /\ \A m, k \in f.labels : k \in GroupOf(f, m) => GroupOf(f, k) = GroupOf(f, m)
  BY DEF UnitsOf, Groups, GroupOf
<1>4. PICK j \in 1 .. n : o[j] = GroupOf(f, l)
  BY <1>2, <1>3
<1>5. ASSUME NEW i \in 1 .. n
      PROVE  /\ DOMAIN new[i].factors = o[i] /\ NoLabel \notin o[i]
             /\ l \in o[i] => i = j
  <2>1. PICK k \in f.labels : o[i] = GroupOf(f, k)
    BY <1>2, <1>3
  <2>2. new[i] = NodeOf(f, k) /\ NodeOf(f, k) = AxisNode(f, o[i])
    BY <1>2, <1>3, <2>1 DEF NodeOf
  <2>3. DOMAIN new[i].factors = o[i]
    BY <2>2 DEF AxisNode
  <2>4. NoLabel \notin o[i]
    BY <2>1, FillFacts DEF GroupOf
  <2>5. l \in o[i] => o[i] = o[j]
    BY <1>3, <1>4, <2>1
  <2> QED
    BY <1>2, <2>3, <2>4, <2>5
<1>6. new[j].value = f.value[l] /\ new[j].factors[l] = f.weight[l]
  <2>1. l \in GroupOf(f, l) /\ new[j] = AxisNode(f, GroupOf(f, l))
    BY <1>2, <1>3, <1>4 DEF NodeOf
  <2>2. (CHOOSE m \in GroupOf(f, l) : TRUE) \in GroupOf(f, l)
    BY <2>1
  <2>3. f.value[CHOOSE m \in GroupOf(f, l) : TRUE] = f.value[l]
    BY <2>2 DEF GroupOf
  <2> QED
    BY <2>1, <2>3 DEF AxisNode
<1>7. ASSUME NEW i \in 1 .. n
      PROVE  AddsTo(new[i], l, c) <=> i = j /\ Reaches(f, l) = c
  <2>1. DOMAIN new[i].factors \cap {NoLabel, l} = IF l \in o[i] THEN {l} ELSE {}
    BY <1>5
  <2>2. l \in o[i] <=> i = j
    BY <1>3, <1>4, <1>5
  <2>3. CASE i = j
    <3>1. AddsTo(new[i], l, c) <=> c = <<new[j].value, new[j].factors[l]>>
      BY <2>1, <2>2, <2>3 DEF AddsTo
    <3>2. Reaches(f, l) = <<f.value[l], f.weight[l]>>
      BY DEF Reaches
    <3> QED
      BY <1>6, <2>3, <3>1, <3>2
  <2>4. CASE i # j
    BY <2>1, <2>2, <2>4 DEF AddsTo
  <2> QED
    BY <2>3, <2>4
<1>8. DOMAIN new = 1 .. n
  BY <1>2
<1>9. CASE Reaches(f, l) = c
  <2>1. {i \in DOMAIN new : AddsTo(new[i], l, c)} = {j}
    BY <1>7, <1>8, <1>9
  <2> QED
    BY <1>9, <2>1, FS_Singleton
<1>10. CASE Reaches(f, l) # c
  <2>1. {i \in DOMAIN new : AddsTo(new[i], l, c)} = {}
    BY <1>7, <1>8, <1>10
  <2> QED
    BY <1>10, <2>1, FS_EmptySet
<1> QED
  BY <1>9, <1>10

\* A plain fill records one node, its nominal.
LEMMA PlainAdds ==
    ASSUME NEW f \in Fills, ~f.axis, f.labels = {Nominal}, NEW new \in NodeOrders(f)
    PROVE  Len(new) = 1 /\ new[1] = SiblingNode(f, Nominal)
<1>1. PICK n, o : Orders(f, new, n, o)
  BY Ordered
<1>2. /\ n \in Nat /\ o \in [1 .. n -> UnitsOf(f)]
      /\ \A i, j \in 1 .. n : o[i] = o[j] => i = j
      /\ \A u \in UnitsOf(f) : \E i \in 1 .. n : o[i] = u
      /\ new \in [1 .. n -> NodesOf(f)]
      /\ \A i \in 1 .. n : \A m \in o[i] : m \in f.labels /\ new[i] = NodeOf(f, m)
  BY <1>1 DEF Orders
<1>3. UnitsOf(f) = {{Nominal}}
  BY DEF UnitsOf
<1>4. PICK i \in 1 .. n : o[i] = {Nominal}
  BY <1>2, <1>3
<1>5. \A j \in 1 .. n : j = i
  <2> SUFFICES ASSUME NEW j \in 1 .. n PROVE j = i
    OBVIOUS
  <2>1. o[j] = o[i]
    BY <1>2, <1>3, <1>4
  <2> QED
    BY <1>2, <2>1
<1>6. n = 1 /\ i = 1
  <2>1. 1 \in 1 .. n /\ n \in 1 .. n
    BY <1>2, <1>4
  <2> QED
    BY <1>5, <2>1
<1>7. new[1] = SiblingNode(f, Nominal)
  BY <1>2, <1>4, <1>6 DEF NodeOf
<1>8. Len(new) = 1
  BY <1>2, <1>6, NewNodes, LenProperties
<1> QED
  BY <1>7, <1>8

\* Nodes staged one after the other add up, and so do the fills that ask.
LEMMA SumsConcat ==
    ASSUME NEW s \in Seq(Node), NEW t \in Seq(Node), NEW l, NEW c
    PROVE  Sums(s \o t, l, c) = Sums(s, l, c) + Sums(t, l, c)
<1> DEFINE E == {n \in Node : AddsTo(n, l, c)}
<1>1. ASSUME NEW u \in Seq(Node) PROVE Sums(u, l, c) = Cardinality(Hits(u, E))
  <2>1. \A i \in DOMAIN u : u[i] \in Node
    OBVIOUS
  <2>2. {i \in DOMAIN u : AddsTo(u[i], l, c)} = Hits(u, E)
    BY <2>1 DEF Hits
  <2> QED
    BY <2>2 DEF Sums
<1>2. s \o t \in Seq(Node)
  OBVIOUS
<1> HIDE DEF E
<1>3. Cardinality(Hits(s \o t, E)) = Cardinality(Hits(s, E)) + Cardinality(Hits(t, E))
  BY HitsConcat
<1> QED
  BY <1>1, <1>2, <1>3

-----------------------------------------------------------------------------
(* One histogram's records *)

MapOf(f) == [l \in f.labels |-> NodeOf(f, l)]

\* What one histogram has recorded, and the history of it.
Rec(h) ==
    [nodes |-> fill_nodes[h], maps |-> label_maps[h], specs |-> fill_specs[h],
     axis |-> axis_mode[h], labels |-> axis_labels[h], calls |-> log[h],
     half |-> h \in halved]

RecType ==
    [nodes : Seq(Node), maps : Seq({MapOf(f) : f \in Fills}), specs : Seq(SUBSET Labels),
     axis : BOOLEAN, labels : (SUBSET Labels) \cup {None}, calls : Seq(Fills), half : BOOLEAN]

\* Every fill that returned left its map and spec, in order, and its nodes are staged.
Logged(r) ==
    /\ Len(r.maps) = Len(r.calls) /\ Len(r.specs) = Len(r.calls)
    /\ \A k \in 1 .. Len(r.calls) :
        /\ r.maps[k] = MapOf(r.calls[k]) /\ r.specs[k] = SpecOf(r.calls[k])
        /\ \A l \in r.calls[k].labels :
            \E i \in DOMAIN r.nodes : r.nodes[i] = NodeOf(r.calls[k], l)

\* They all have the mode that was declared, and in axis mode the label set.
OneMode(r) ==
    /\ r.calls = <<>> => ~r.axis
    /\ \A k \in 1 .. Len(r.calls) :
        /\ r.calls[k].axis = r.axis
        /\ r.axis => r.calls[k].labels = r.labels

\* In axis mode the staged nodes add up to what the fills asked for.
AskedOf(calls, l, c) == Cardinality({k \in DOMAIN calls : Reaches(calls[k], l) = c})
AxisSums(r) == \A l \in r.labels : \A c \in Contents :
    /\ Sums(r.nodes, l, c) \in Nat /\ AskedOf(r.calls, l, c) \in Nat
    /\ Sums(r.nodes, l, c) = AskedOf(r.calls, l, c)

\* When no fill carries variations, the staged nodes are the fills' nodes.
PlainNodes(r) ==
    (\A k \in 1 .. Len(r.calls) : ~r.calls[k].axis /\ r.calls[k].labels = {Nominal}) =>
        /\ Len(r.nodes) = Len(r.calls)
        /\ \A k \in 1 .. Len(r.calls) : r.nodes[k] = SiblingNode(r.calls[k], Nominal)

\* A histogram an axis fill raised on midway keeps only what it logged.
Consistent(r) ==
    /\ Logged(r)
    /\ r.half => r.axis
    /\ r.axis => r.labels \in SUBSET Labels
    /\ ~r.half => OneMode(r) /\ PlainNodes(r)
    /\ ~r.half /\ r.axis => AxisSums(r)

LEMMA AskedAppend ==
    ASSUME NEW s \in Seq(Fills), NEW f \in Fills, NEW l, NEW c
    PROVE  AskedOf(Append(s, f), l, c)
             = AskedOf(s, l, c) + IF Reaches(f, l) = c THEN 1 ELSE 0
<1> DEFINE E == {g \in Fills : Reaches(g, l) = c}
<1>1. ASSUME NEW u \in Seq(Fills) PROVE AskedOf(u, l, c) = Cardinality(Hits(u, E))
  <2>1. \A i \in DOMAIN u : u[i] \in Fills
    OBVIOUS
  <2>2. {i \in DOMAIN u : Reaches(u[i], l) = c} = Hits(u, E)
    BY <2>1 DEF Hits
  <2> QED
    BY <2>2 DEF AskedOf
<1>2. Append(s, f) \in Seq(Fills)
  BY AppendProperties
<1>3. f \in E <=> Reaches(f, l) = c
  OBVIOUS
<1> HIDE DEF E
<1>4. Cardinality(Hits(Append(s, f), E)) = Cardinality(Hits(s, E)) + IF f \in E THEN 1 ELSE 0
  BY HitsAppend
<1> QED
  BY <1>1, <1>2, <1>3, <1>4

\* The nodes staged after those of a record leave its log as it was.
LEMMA LoggedExtends ==
    ASSUME NEW r \in RecType, Logged(r), NEW s \in RecType, NEW extra \in Seq(Node),
           s.nodes = r.nodes \o extra, s.maps = r.maps, s.specs = r.specs, s.calls = r.calls
    PROVE  Logged(s)
<1>1. r.nodes \in Seq(Node)
  BY DEF RecType
<1>2. \A i \in DOMAIN r.nodes : i \in DOMAIN s.nodes /\ s.nodes[i] = r.nodes[i]
  BY <1>1
<1> QED
  BY <1>2 DEF Logged

\* What a fill does to its histogram's record.
Filled(r, f, new) ==
    [nodes |-> r.nodes \o new, maps |-> Append(r.maps, MapOf(f)),
     specs |-> Append(r.specs, SpecOf(f)),
     axis |-> IF f.axis THEN TRUE ELSE r.axis,
     labels |-> IF f.axis THEN f.labels ELSE r.labels,
     calls |-> Append(r.calls, f), half |-> r.half]

AcceptedBy(r, f) ==
    r.specs # <<>> =>
        /\ f.axis = r.axis
        /\ f.axis /\ r.labels # None => f.labels = r.labels

LEMMA FilledType ==
    ASSUME NEW r \in RecType, NEW f \in Fills, NEW new \in NodeOrders(f)
    PROVE  Filled(r, f, new) \in RecType
<1>1. /\ r.nodes \in Seq(Node) /\ r.maps \in Seq({MapOf(g) : g \in Fills})
      /\ r.specs \in Seq(SUBSET Labels) /\ r.calls \in Seq(Fills)
      /\ r.axis \in BOOLEAN /\ r.labels \in (SUBSET Labels) \cup {None} /\ r.half \in BOOLEAN
  BY DEF RecType
<1>2. new \in Seq(Node) /\ f.labels \in SUBSET Labels /\ SpecOf(f) \in SUBSET Labels
  BY NewNodes, FillFacts DEF SpecOf
<1>3. MapOf(f) \in {MapOf(g) : g \in Fills}
  OBVIOUS
<1>4. r.nodes \o new \in Seq(Node)
  BY <1>1, <1>2
<1>5. Append(r.maps, MapOf(f)) \in Seq({MapOf(g) : g \in Fills})
  BY <1>1, <1>3, AppendProperties
<1>6. Append(r.specs, SpecOf(f)) \in Seq(SUBSET Labels)
  BY <1>1, <1>2, AppendProperties
<1>7. Append(r.calls, f) \in Seq(Fills)
  BY <1>1, AppendProperties
<1> QED
  BY <1>1, <1>2, <1>4, <1>5, <1>6, <1>7 DEF Filled, RecType

\* The fill keeps the record consistent.
LEMMA FilledConsistent ==
    ASSUME NEW r \in RecType, Consistent(r), NEW f \in Fills, NEW new \in NodeOrders(f),
           AcceptedBy(r, f)
    PROVE  Consistent(Filled(r, f, new))
<1> DEFINE s == Filled(r, f, new)
           n == Len(r.calls)
<1>1. /\ r.nodes \in Seq(Node) /\ new \in Seq(Node) /\ r.calls \in Seq(Fills) /\ n \in Nat
      /\ r.maps \in Seq({MapOf(g) : g \in Fills}) /\ r.specs \in Seq(SUBSET Labels)
      /\ Len(r.maps) = n /\ Len(r.specs) = n
      /\ r.axis \in BOOLEAN /\ f.axis \in BOOLEAN
  BY NewNodes, FillFacts DEF RecType, Consistent, Logged
<1>2. /\ s.nodes = r.nodes \o new /\ s.maps = Append(r.maps, MapOf(f))
      /\ s.specs = Append(r.specs, SpecOf(f)) /\ s.calls = Append(r.calls, f)
      /\ s.axis = (f.axis \/ r.axis) /\ s.half = r.half
      /\ s.labels = IF f.axis THEN f.labels ELSE r.labels
  BY <1>1 DEF Filled
<1> HIDE DEF s
<1>3. /\ Len(s.calls) = n + 1 /\ \A k \in 1 .. n : s.calls[k] = r.calls[k]
      /\ s.calls[n + 1] = f
  BY <1>1, <1>2
<1>4. /\ Len(s.maps) = n + 1 /\ \A k \in 1 .. n : s.maps[k] = r.maps[k]
      /\ s.maps[n + 1] = MapOf(f)
  BY <1>1, <1>2
<1>5. /\ Len(s.specs) = n + 1 /\ \A k \in 1 .. n : s.specs[k] = r.specs[k]
      /\ s.specs[n + 1] = SpecOf(f)
  BY <1>1, <1>2
<1>6. /\ Len(s.nodes) = Len(r.nodes) + Len(new)
      /\ Len(r.nodes) \in Nat /\ Len(new) \in Nat
      /\ DOMAIN s.nodes = 1 .. Len(r.nodes) + Len(new) /\ DOMAIN r.nodes = 1 .. Len(r.nodes)
      /\ \A i \in 1 .. Len(r.nodes) : s.nodes[i] = r.nodes[i]
      /\ \A i \in 1 .. Len(new) : s.nodes[Len(r.nodes) + i] = new[i]
  BY <1>1, <1>2
<1>7. Logged(s)
  <2>1. \A i \in DOMAIN r.nodes : i \in DOMAIN s.nodes /\ s.nodes[i] = r.nodes[i]
    BY <1>6
  <2>2. ASSUME NEW l \in f.labels PROVE \E i \in DOMAIN s.nodes : s.nodes[i] = NodeOf(f, l)
    <3>1. PICK j \in DOMAIN new : new[j] = NodeOf(f, l)
      BY NewNodes
    <3>2. j \in 1 .. Len(new)
      BY <1>1, <3>1
    <3>3. s.nodes[Len(r.nodes) + j] = NodeOf(f, l)
      BY <1>6, <3>1, <3>2
    <3>4. Len(r.nodes) + j \in 1 .. Len(r.nodes) + Len(new)
      BY <1>6, <3>2
    <3> QED
      BY <1>6, <3>3, <3>4
  <2>3. ASSUME NEW k \in 1 .. n
        PROVE  /\ s.maps[k] = MapOf(s.calls[k]) /\ s.specs[k] = SpecOf(s.calls[k])
               /\ \A l \in s.calls[k].labels :
                    \E i \in DOMAIN s.nodes : s.nodes[i] = NodeOf(s.calls[k], l)
    <3>1. /\ s.calls[k] = r.calls[k] /\ s.maps[k] = r.maps[k] /\ s.specs[k] = r.specs[k]
      BY <1>3, <1>4, <1>5
    <3>2. /\ r.maps[k] = MapOf(r.calls[k]) /\ r.specs[k] = SpecOf(r.calls[k])
          /\ \A l \in r.calls[k].labels :
               \E i \in DOMAIN r.nodes : r.nodes[i] = NodeOf(r.calls[k], l)
      BY DEF Consistent, Logged
    <3> QED
      BY ONLY <2>1, <3>1, <3>2
  <2>4. \A k \in 1 .. n + 1 : k \in 1 .. n \/ k = n + 1
    BY <1>1
  <2> QED
    BY <1>3, <1>4, <1>5, <2>2, <2>3, <2>4 DEF Logged
<1>8. s.half => s.axis
  BY <1>2 DEF Consistent
<1>9. s.axis => s.labels \in SUBSET Labels
  BY <1>2, FillFacts DEF Consistent
<1>10. ASSUME ~r.half, n # 0
       PROVE  f.axis = r.axis /\ (r.axis => f.labels = r.labels)
  <2>1. r.specs # <<>>
    BY <1>1, <1>10
  <2>2. r.axis => r.labels # None
    BY LabelsAssumption DEF Consistent
  <2> QED
    BY <2>1, <2>2 DEF AcceptedBy
<1>11. ASSUME ~r.half, n = 0 PROVE ~r.axis /\ r.nodes = <<>> /\ r.calls = <<>>
  <2>1. r.calls = <<>>
    BY <1>1, <1>11
  <2>2. \A k \in 1 .. Len(r.calls) : ~r.calls[k].axis /\ r.calls[k].labels = {Nominal}
    BY <1>11
  <2>3. Len(r.nodes) = 0
    BY <1>11, <2>2 DEF Consistent, PlainNodes
  <2> QED
    BY <1>1, <1>11, <2>1, <2>3 DEF Consistent, OneMode
<1>12. ASSUME ~s.half PROVE OneMode(s)
  <2>1. s.calls # <<>>
    BY <1>1, <1>3
  <2>2. f.axis = s.axis /\ (s.axis => f.labels = s.labels)
    <3>1. CASE n = 0
      BY <1>1, <1>2, <1>11, <1>12, <3>1
    <3>2. CASE n # 0
      BY <1>1, <1>2, <1>10, <1>12, <3>2
    <3> QED
      BY <3>1, <3>2
  <2>3. ASSUME NEW k \in 1 .. n
        PROVE  r.calls[k].axis = s.axis /\ (s.axis => r.calls[k].labels = s.labels)
    <3>1. n # 0
      BY <1>1
    <3>2. f.axis = r.axis /\ (r.axis => f.labels = r.labels)
      BY <1>2, <1>10, <1>12, <3>1
    <3>3. r.calls[k].axis = r.axis /\ (r.axis => r.calls[k].labels = r.labels)
      BY <1>2, <1>12 DEF Consistent, OneMode
    <3> QED
      BY <1>1, <1>2, <3>2, <3>3
  <2>4. \A k \in 1 .. n + 1 : k \in 1 .. n \/ k = n + 1
    BY <1>1
  <2> QED
    BY <1>3, <2>1, <2>2, <2>3, <2>4 DEF OneMode
<1>13. ASSUME ~s.half PROVE PlainNodes(s)
  <2> SUFFICES ASSUME \A k \in 1 .. n + 1 : ~s.calls[k].axis /\ s.calls[k].labels = {Nominal}
               PROVE  /\ Len(s.nodes) = n + 1
                      /\ \A k \in 1 .. n + 1 : s.nodes[k] = SiblingNode(s.calls[k], Nominal)
    BY <1>3 DEF PlainNodes
  <2>1. n + 1 \in 1 .. n + 1 /\ \A k \in 1 .. n : k \in 1 .. n + 1
    BY <1>1
  <2>2. ~f.axis /\ f.labels = {Nominal}
    BY <1>3, <2>1
  <2>3. Len(new) = 1 /\ new[1] = SiblingNode(f, Nominal)
    BY <2>2, PlainAdds
  <2>4. \A k \in 1 .. n : ~r.calls[k].axis /\ r.calls[k].labels = {Nominal}
    BY <1>3, <2>1
  <2>5. Len(r.nodes) = n /\ \A k \in 1 .. n : r.nodes[k] = SiblingNode(r.calls[k], Nominal)
    BY <1>2, <1>13, <2>4 DEF Consistent, PlainNodes
  <2>6. \A k \in 1 .. n + 1 : k \in 1 .. n \/ k = n + 1
    BY <1>1
  <2>7. s.nodes[n + 1] = SiblingNode(f, Nominal)
    BY <1>6, <2>3, <2>5
  <2> QED
    BY <1>3, <1>6, <2>3, <2>5, <2>6, <2>7
<1>14. ASSUME ~s.half, s.axis PROVE AxisSums(s)
  <2>1. f.axis /\ s.labels = f.labels
    BY <1>2, <1>10, <1>11, <1>14
  <2>2. SUFFICES ASSUME NEW l \in f.labels, NEW c \in Contents
                 PROVE  /\ Sums(s.nodes, l, c) \in Nat /\ AskedOf(s.calls, l, c) \in Nat
                        /\ Sums(s.nodes, l, c) = AskedOf(s.calls, l, c)
    BY <2>1 DEF AxisSums
  <2>3. /\ Sums(r.nodes, l, c) \in Nat /\ AskedOf(r.calls, l, c) \in Nat
        /\ Sums(r.nodes, l, c) = AskedOf(r.calls, l, c)
    <3>1. CASE n = 0
      <4>1. r.nodes = <<>> /\ r.calls = <<>>
        BY <1>2, <1>11, <1>14, <3>1
      <4>2. /\ {i \in DOMAIN r.nodes : AddsTo(r.nodes[i], l, c)} = {}
            /\ {k \in DOMAIN r.calls : Reaches(r.calls[k], l) = c} = {}
        BY <4>1
      <4> QED
        BY <4>2, FS_EmptySet DEF Sums, AskedOf
    <3>2. CASE n # 0
      <4>1. r.axis /\ l \in r.labels
        BY <1>2, <1>10, <1>14, <2>1, <3>2
      <4> QED
        BY <1>2, <1>14, <4>1 DEF Consistent, AxisSums
    <3> QED
      BY <3>1, <3>2
  <2>4. Sums(s.nodes, l, c) = Sums(r.nodes, l, c) + IF Reaches(f, l) = c THEN 1 ELSE 0
    <3>1. Sums(new, l, c) = IF Reaches(f, l) = c THEN 1 ELSE 0
      BY <2>1, AxisAdds, ZenonT(30) DEF Sums
    <3>2. Sums(r.nodes \o new, l, c) = Sums(r.nodes, l, c) + Sums(new, l, c)
      BY <1>1, SumsConcat
    <3> QED
      BY <1>2, <3>1, <3>2
  <2>5. AskedOf(s.calls, l, c) = AskedOf(r.calls, l, c) + IF Reaches(f, l) = c THEN 1 ELSE 0
    BY <1>1, <1>2, AskedAppend
  <2> QED
    BY <2>3, <2>4, <2>5
<1> QED
  BY <1>7, <1>8, <1>9, <1>12, <1>13, <1>14 DEF Consistent, s

-----------------------------------------------------------------------------
(* Every histogram's records *)

Layouts == UNION {[K -> Seq(Node)] : K \in SUBSET (Labels \cup {NoLabel})}
PiecesType ==
    [hist : Hists, layout : Layouts, marked : SUBSET Node, state : {"made", "fed", "broken"}]

TypeInv ==
    /\ alive \in SUBSET Hists /\ halved \in SUBSET alive
    /\ own = [h \in Hists |-> h]
    /\ fill_nodes \in [Hists -> Seq(Node)]
    /\ label_maps \in [Hists -> Seq({MapOf(f) : f \in Fills})]
    /\ fill_specs \in [Hists -> Seq(SUBSET Labels)]
    /\ axis_mode \in [Hists -> BOOLEAN]
    /\ axis_labels \in [Hists -> (SUBSET Labels) \cup {None}]
    /\ log \in [Hists -> Seq(Fills)]
    /\ pieces \in [Pieces -> PiecesType \cup {None}]

RecordsInv == \A h \in Hists : Consistent(Rec(h))

\* _variation_labels on a histogram's maps and a plan's marked nodes.
Outs(maps) == {Nominal} \cup UNION {DOMAIN m : m \in ToSet(maps)}
Found(maps, marked) ==
    \A l \in Outs(maps) \ {Nominal} : \A m \in ToSet(maps) : Resolved(m, l) \in marked

\* Pieces are of a histogram that exists, their plan marks what their layout reads, and a
\* broken one still misses a label's node.
LayoutInv ==
    \A q \in Pieces : pieces[q] # None =>
        /\ pieces[q].hist \in alive
        /\ \A key \in DOMAIN pieces[q].layout :
            ToSet(pieces[q].layout[key]) \subseteq pieces[q].marked
        /\ pieces[q].state = "broken" =>
            ~Found(label_maps[pieces[q].hist], pieces[q].marked)

Inv == TypeInv /\ RecordsInv /\ LayoutInv

LEMMA RecTyped ==
    ASSUME TypeInv, NEW h \in Hists
    PROVE  /\ Rec(h) \in RecType
           /\ Staged(h) = fill_nodes[h] /\ Maps(h) = label_maps[h] /\ Specs(h) = fill_specs[h]
<1>1. /\ fill_nodes[h] \in Seq(Node) /\ label_maps[h] \in Seq({MapOf(f) : f \in Fills})
      /\ fill_specs[h] \in Seq(SUBSET Labels) /\ axis_mode[h] \in BOOLEAN
      /\ axis_labels[h] \in (SUBSET Labels) \cup {None} /\ log[h] \in Seq(Fills)
  BY DEF TypeInv
<1>2. Rec(h) \in RecType
  BY <1>1 DEF Rec, RecType
<1>3. own[h] = h
  BY DEF TypeInv
<1> QED
  BY <1>2, <1>3 DEF Staged, Maps, Specs

\* A histogram a step does not touch keeps its record.
Same(h) ==
    /\ fill_nodes'[h] = fill_nodes[h] /\ label_maps'[h] = label_maps[h]
    /\ fill_specs'[h] = fill_specs[h] /\ axis_mode'[h] = axis_mode[h]
    /\ axis_labels'[h] = axis_labels[h] /\ log'[h] = log[h]
    /\ (h \in halved)' = (h \in halved)

LEMMA SameKeeps ==
    ASSUME NEW h, Same(h), Consistent(Rec(h))
    PROVE  Consistent(Rec(h))'
<1>1. Rec(h)' = Rec(h)
  BY DEF Same, Rec
<1> DEFINE r == Rec(h)
<1>2. Consistent(r')
  BY <1>1
<1> QED
  BY <1>2

-----------------------------------------------------------------------------
(* Steps *)

LEMMA InitInv == Init => Inv
<1> SUFFICES ASSUME Init PROVE Inv
  OBVIOUS
<1>1. /\ <<>> \in Seq(Node) /\ <<>> \in Seq({MapOf(f) : f \in Fills})
      /\ <<>> \in Seq(SUBSET Labels) /\ <<>> \in Seq(Fills)
  BY EmptySeq
<1>2. TypeInv
  <2>1. alive \in SUBSET Hists /\ halved \in SUBSET alive /\ own = [h \in Hists |-> h]
    BY FirstAssumption DEF Init
  <2>2. /\ fill_nodes \in [Hists -> Seq(Node)] /\ log \in [Hists -> Seq(Fills)]
        /\ label_maps \in [Hists -> Seq({MapOf(f) : f \in Fills})]
        /\ fill_specs \in [Hists -> Seq(SUBSET Labels)]
    BY <1>1 DEF Init
  <2>3. /\ axis_mode \in [Hists -> BOOLEAN]
        /\ axis_labels \in [Hists -> (SUBSET Labels) \cup {None}]
        /\ pieces \in [Pieces -> PiecesType \cup {None}]
    BY DEF Init
  <2> QED
    BY <2>1, <2>2, <2>3 DEF TypeInv
<1>3. ASSUME NEW h \in Hists PROVE Consistent(Rec(h))
  <2>1. /\ Rec(h).nodes = <<>> /\ Rec(h).maps = <<>> /\ Rec(h).specs = <<>>
        /\ ~Rec(h).axis /\ Rec(h).calls = <<>> /\ ~Rec(h).half
    BY DEF Init, Rec
  <2> DEFINE r == Rec(h)
  <2> HIDE DEF r
  <2>2. /\ r.nodes = <<>> /\ r.maps = <<>> /\ r.specs = <<>>
        /\ ~r.axis /\ r.calls = <<>> /\ ~r.half
    BY <2>1 DEF r
  <2>3. Logged(r) /\ OneMode(r) /\ PlainNodes(r)
    BY <2>2 DEF Logged, OneMode, PlainNodes
  <2>4. Consistent(r)
    BY <2>2, <2>3 DEF Consistent
  <2> QED
    BY <2>4 DEF r
<1>4. LayoutInv
  BY DEF Init, LayoutInv
<1> QED
  BY <1>2, <1>3, <1>4 DEF Inv, RecordsInv

\* A step that touches the records of h alone.
Touches(h) ==
    /\ own' = own
    /\ fill_nodes' = [fill_nodes EXCEPT ![h] = fill_nodes'[h]]
    /\ label_maps' = [label_maps EXCEPT ![h] = label_maps'[h]]
    /\ fill_specs' = [fill_specs EXCEPT ![h] = fill_specs'[h]]
    /\ axis_mode' = [axis_mode EXCEPT ![h] = axis_mode'[h]]
    /\ axis_labels' = [axis_labels EXCEPT ![h] = axis_labels'[h]]
    /\ log' = [log EXCEPT ![h] = log'[h]]
    /\ \A g \in Hists : g # h => (g \in halved)' = (g \in halved)

LEMMA TouchesKeeps ==
    ASSUME TypeInv, RecordsInv, NEW h \in Hists, Touches(h),
           Rec(h)' \in RecType, Consistent(Rec(h)'),
           alive' \in SUBSET Hists, halved' \in SUBSET alive',
           pieces' \in [Pieces -> PiecesType \cup {None}]
    PROVE  TypeInv' /\ RecordsInv'
<1>1. /\ fill_nodes'[h] \in Seq(Node) /\ label_maps'[h] \in Seq({MapOf(f) : f \in Fills})
      /\ fill_specs'[h] \in Seq(SUBSET Labels) /\ axis_mode'[h] \in BOOLEAN
      /\ axis_labels'[h] \in (SUBSET Labels) \cup {None} /\ log'[h] \in Seq(Fills)
  BY DEF Rec, RecType
<1>2. TypeInv'
  <2>1. /\ fill_nodes' \in [Hists -> Seq(Node)]
        /\ label_maps' \in [Hists -> Seq({MapOf(f) : f \in Fills})]
        /\ fill_specs' \in [Hists -> Seq(SUBSET Labels)]
    BY <1>1 DEF TypeInv, Touches
  <2>2. /\ axis_mode' \in [Hists -> BOOLEAN]
        /\ axis_labels' \in [Hists -> (SUBSET Labels) \cup {None}]
        /\ log' \in [Hists -> Seq(Fills)]
    BY <1>1 DEF TypeInv, Touches
  <2>3. own' = [g \in Hists |-> g]
    BY DEF TypeInv, Touches
  <2> QED
    BY <2>1, <2>2, <2>3 DEF TypeInv
<1>3. ASSUME NEW g \in Hists PROVE Consistent(Rec(g))'
  <2>1. CASE g = h
    BY <2>1
  <2>2. CASE g # h
    <3>1. Same(g)
      BY <2>2 DEF Touches, Same, TypeInv
    <3> QED
      BY <3>1, SameKeeps DEF RecordsInv
  <2> QED
    BY <2>1, <2>2
<1> QED
  BY <1>2, <1>3 DEF RecordsInv

\* A miss stays a miss while maps are only added.
LEMMA MissStays ==
    ASSUME NEW s, NEW t, ToSet(s) \subseteq ToSet(t), NEW marked, ~Found(s, marked)
    PROVE  ~Found(t, marked)
BY DEF Found, Outs

LEMMA LayoutsKept ==
    ASSUME TypeInv, LayoutInv, pieces' = pieces, alive \subseteq alive',
           \A h \in alive : ToSet(label_maps[h]) \subseteq ToSet(label_maps'[h])
    PROVE  LayoutInv'
<1> SUFFICES ASSUME NEW q \in Pieces, pieces[q] # None
             PROVE  /\ pieces[q].hist \in alive'
                    /\ \A key \in DOMAIN pieces[q].layout :
                        ToSet(pieces[q].layout[key]) \subseteq pieces[q].marked
                    /\ pieces[q].state = "broken" =>
                        ~Found(label_maps'[pieces[q].hist], pieces[q].marked)
  BY DEF LayoutInv
<1>1. /\ pieces[q].hist \in alive
      /\ \A key \in DOMAIN pieces[q].layout :
          ToSet(pieces[q].layout[key]) \subseteq pieces[q].marked
      /\ pieces[q].state = "broken" => ~Found(label_maps[pieces[q].hist], pieces[q].marked)
  BY DEF LayoutInv
<1> QED
  BY <1>1, MissStays

LEMMA FillKeeps ==
    ASSUME Inv, NEW h \in Hists, NEW f \in Fills, Fill(h, f)
    PROVE  Inv'
<1> USE DEF Inv
<1> DEFINE r == Rec(h)
<1>1. PICK new \in NodeOrders(f) :
        fill_nodes' = [fill_nodes EXCEPT ![own[h]] = fill_nodes[own[h]] \o new]
  BY DEF Fill
<1>2. own[h] = h /\ r \in RecType /\ Specs(h) = fill_specs[h] /\ Consistent(r)
  BY RecTyped DEF TypeInv, RecordsInv
<1>3. AcceptedBy(r, f)
  BY <1>2 DEF Fill, Records, Accepts, AcceptedBy, Rec
<1>4. /\ fill_nodes'[h] = fill_nodes[h] \o new
      /\ label_maps'[h] = Append(label_maps[h], MapOf(f))
      /\ fill_specs'[h] = Append(fill_specs[h], SpecOf(f))
      /\ log'[h] = Append(log[h], f)
  BY <1>1, <1>2 DEF Fill, TypeInv, MapOf
<1>5. /\ axis_mode'[h] = IF f.axis THEN TRUE ELSE axis_mode[h]
      /\ axis_labels'[h] = IF f.axis THEN f.labels ELSE axis_labels[h]
      /\ halved' = halved
  BY DEF Fill, Declare, TypeInv
<1>6. Rec(h)' = Filled(r, f, new)
  BY <1>4, <1>5 DEF Rec, Filled
<1>7. Rec(h)' \in RecType /\ Consistent(Rec(h)')
  BY <1>2, <1>3, <1>6, FilledType, FilledConsistent
<1>8. Touches(h)
  <2>1. /\ fill_nodes' = [fill_nodes EXCEPT ![h] = fill_nodes'[h]]
        /\ label_maps' = [label_maps EXCEPT ![h] = label_maps'[h]]
        /\ fill_specs' = [fill_specs EXCEPT ![h] = fill_specs'[h]]
        /\ log' = [log EXCEPT ![h] = log'[h]]
    BY <1>1, <1>2 DEF Fill, TypeInv
  <2>2. /\ axis_mode' = [axis_mode EXCEPT ![h] = axis_mode'[h]]
        /\ axis_labels' = [axis_labels EXCEPT ![h] = axis_labels'[h]]
    BY DEF Fill, Declare, TypeInv
  <2> QED
    BY <1>5, <2>1, <2>2 DEF Touches, Fill
<1>9. /\ alive' \in SUBSET Hists /\ halved' \in SUBSET alive'
      /\ pieces' \in [Pieces -> PiecesType \cup {None}]
  BY DEF Fill, TypeInv
<1>10. TypeInv' /\ RecordsInv'
  BY <1>7, <1>8, <1>9, TouchesKeeps
<1>11. LayoutInv'
  <2>1. ASSUME NEW g \in alive PROVE ToSet(label_maps[g]) \subseteq ToSet(label_maps'[g])
    <3>1. CASE g = h
      <4>1. label_maps[h] \in Seq({MapOf(k) : k \in Fills})
        BY DEF TypeInv
      <4>2. \A i \in DOMAIN label_maps[h] :
              i \in DOMAIN label_maps'[h] /\ label_maps'[h][i] = label_maps[h][i]
        BY <1>4, <4>1
      <4> QED
        BY <3>1, <4>2 DEF ToSet
    <3>2. CASE g # h
      BY <1>8, <3>2 DEF Touches, TypeInv
    <3> QED
      BY <3>1, <3>2
  <2>2. pieces' = pieces /\ alive' = alive
    BY DEF Fill
  <2> QED
    BY <2>1, <2>2, LayoutsKept
<1> QED
  BY <1>10, <1>11

LEMMA SiblingRaisesKeeps ==
    ASSUME Inv, NEW h \in Hists, NEW f \in Fills, SiblingRaises(h, f)
    PROVE  Inv'
<1>1. UNCHANGED <<alive, own, lists, axis_mode, axis_labels, pieces, log, halved>>
  BY DEF SiblingRaises
<1> QED
  BY <1>1 DEF Inv, TypeInv, RecordsInv, LayoutInv, Rec, lists

\* An axis fill that raises leaves what it has staged, and its mode.
LEMMA AxisRaisesKeeps ==
    ASSUME Inv, NEW h \in Hists, NEW f \in Fills, AxisRaises(h, f)
    PROVE  Inv'
<1> USE DEF Inv
<1> DEFINE r == Rec(h)
           s == Rec(h)'
<1>1. PICK new \in NodeOrders(f) : \E k \in 0 .. Len(new) - 1 :
        fill_nodes' = [fill_nodes EXCEPT ![own[h]] = fill_nodes[own[h]] \o SubSeq(new, 1, k)]
  BY DEF AxisRaises
<1>2. PICK k \in 0 .. Len(new) - 1 :
        fill_nodes' = [fill_nodes EXCEPT ![own[h]] = fill_nodes[own[h]] \o SubSeq(new, 1, k)]
  BY <1>1
<1> DEFINE extra == SubSeq(new, 1, k)
<1>3. extra \in Seq(Node)
  <2>1. new \in Seq(Node)
    BY NewNodes
  <2> QED
    BY <2>1
<1>4. own[h] = h /\ r \in RecType /\ Consistent(r) /\ fill_nodes[h] \in Seq(Node)
  BY RecTyped DEF TypeInv, RecordsInv
<1>5. f.axis /\ f.labels \in SUBSET Labels
  BY FillFacts DEF AxisRaises
<1>6. /\ fill_nodes'[h] = fill_nodes[h] \o extra
      /\ label_maps' = label_maps /\ fill_specs' = fill_specs /\ log' = log
      /\ axis_mode'[h] = TRUE /\ axis_labels'[h] = f.labels /\ h \in halved'
  <2>1. fill_nodes'[h] = fill_nodes[h] \o extra
    BY <1>2, <1>4 DEF TypeInv
  <2>2. label_maps' = label_maps /\ fill_specs' = fill_specs /\ log' = log /\ h \in halved'
    BY DEF AxisRaises
  <2>3. axis_mode'[h] = TRUE /\ axis_labels'[h] = f.labels
    BY <1>5 DEF AxisRaises, Declare, TypeInv
  <2> QED
    BY <2>1, <2>2, <2>3
<1>7. /\ s.nodes = r.nodes \o extra /\ s.maps = r.maps /\ s.specs = r.specs
      /\ s.calls = r.calls /\ s.axis /\ s.labels = f.labels /\ s.half
  BY <1>6 DEF Rec
<1>8. s \in RecType
  <2>1. fill_nodes'[h] \in Seq(Node)
    BY <1>3, <1>4, <1>6
  <2>2. /\ label_maps'[h] \in Seq({MapOf(g) : g \in Fills})
        /\ fill_specs'[h] \in Seq(SUBSET Labels) /\ log'[h] \in Seq(Fills)
    BY <1>6 DEF TypeInv
  <2>3. axis_mode'[h] \in BOOLEAN /\ axis_labels'[h] \in (SUBSET Labels) \cup {None}
    BY <1>5, <1>6
  <2> QED
    BY <2>1, <2>2, <2>3 DEF Rec, RecType
<1>9. Consistent(s)
  <2> HIDE DEF r, s, extra
  <2>1. Logged(s)
    BY <1>3, <1>4, <1>7, <1>8, LoggedExtends DEF Consistent
  <2> QED
    BY <1>5, <1>7, <2>1 DEF Consistent
<1>10. Touches(h)
  <2>1. fill_nodes' = [fill_nodes EXCEPT ![h] = fill_nodes'[h]]
    BY <1>2, <1>4 DEF TypeInv
  <2>2. /\ axis_mode' = [axis_mode EXCEPT ![h] = axis_mode'[h]]
        /\ axis_labels' = [axis_labels EXCEPT ![h] = axis_labels'[h]]
    BY DEF AxisRaises, Declare, TypeInv
  <2>3. /\ label_maps' = [label_maps EXCEPT ![h] = label_maps'[h]]
        /\ fill_specs' = [fill_specs EXCEPT ![h] = fill_specs'[h]]
        /\ log' = [log EXCEPT ![h] = log'[h]]
    BY <1>6 DEF TypeInv
  <2>4. own' = own /\ halved' = halved \cup {h}
    BY DEF AxisRaises
  <2> QED
    BY <2>1, <2>2, <2>3, <2>4 DEF Touches
<1>11. /\ alive' \in SUBSET Hists /\ halved' \in SUBSET alive'
       /\ pieces' \in [Pieces -> PiecesType \cup {None}]
  BY DEF AxisRaises, Records, TypeInv
<1>12. TypeInv' /\ RecordsInv'
  BY <1>8, <1>9, <1>10, <1>11, TouchesKeeps
<1>13. LayoutInv'
  <2>1. pieces' = pieces /\ alive' = alive
    BY DEF AxisRaises
  <2> QED
    BY <1>6, <2>1, LayoutsKept
<1> QED
  BY <1>12, <1>13

\* A copy starts with its original's records.
LEMMA CopyKeeps ==
    ASSUME Inv, NEW h \in Hists, NEW g \in Hists, Copy(h, g)
    PROVE  Inv'
<1> USE DEF Inv
<1>1. /\ own = [k \in Hists |-> k] /\ own[g] = g /\ own[h] = h
      /\ Rec(h) \in RecType /\ Consistent(Rec(h))
      /\ Staged(h) = fill_nodes[h] /\ Maps(h) = label_maps[h] /\ Specs(h) = fill_specs[h]
  BY RecTyped DEF TypeInv, RecordsInv
<1>2. h \in alive /\ g \in Hists \ alive /\ g # h /\ g \notin halved
  BY DEF Copy, TypeInv
<1>3. /\ fill_nodes' = [fill_nodes EXCEPT ![g] = fill_nodes[h]]
      /\ label_maps' = [label_maps EXCEPT ![g] = label_maps[h]]
      /\ fill_specs' = [fill_specs EXCEPT ![g] = fill_specs[h]]
      /\ axis_mode' = [axis_mode EXCEPT ![g] = axis_mode[h]]
      /\ axis_labels' = [axis_labels EXCEPT ![g] = axis_labels[h]]
      /\ log' = [log EXCEPT ![g] = log[h]]
      /\ halved' = IF h \in halved THEN halved \cup {g} ELSE halved
      /\ own' = own /\ alive' = alive \cup {g} /\ pieces' = pieces
  BY <1>1 DEF Copy
<1>4. /\ fill_nodes'[g] = fill_nodes[h] /\ label_maps'[g] = label_maps[h]
      /\ fill_specs'[g] = fill_specs[h] /\ axis_mode'[g] = axis_mode[h]
      /\ axis_labels'[g] = axis_labels[h] /\ log'[g] = log[h]
      /\ (g \in halved)' = (h \in halved)
  BY <1>2, <1>3 DEF TypeInv
<1>5. Rec(g)' = Rec(h)
  BY <1>4 DEF Rec
<1>6. Touches(g)
  <2>1. /\ fill_nodes' = [fill_nodes EXCEPT ![g] = fill_nodes'[g]]
        /\ label_maps' = [label_maps EXCEPT ![g] = label_maps'[g]]
        /\ fill_specs' = [fill_specs EXCEPT ![g] = fill_specs'[g]]
    BY <1>3, <1>4
  <2>2. /\ axis_mode' = [axis_mode EXCEPT ![g] = axis_mode'[g]]
        /\ axis_labels' = [axis_labels EXCEPT ![g] = axis_labels'[g]]
        /\ log' = [log EXCEPT ![g] = log'[g]]
    BY <1>3, <1>4
  <2>3. own' = own /\ \A k \in Hists : k # g => (k \in halved)' = (k \in halved)
    BY <1>3
  <2> QED
    BY <2>1, <2>2, <2>3 DEF Touches
<1>7. /\ alive' \in SUBSET Hists /\ halved' \in SUBSET alive'
      /\ pieces' \in [Pieces -> PiecesType \cup {None}]
  BY <1>3 DEF TypeInv
<1>8. TypeInv' /\ RecordsInv'
  BY <1>1, <1>5, <1>6, <1>7, TouchesKeeps
<1>9. LayoutInv'
  <2>1. \A k \in alive : label_maps'[k] = label_maps[k]
    BY <1>2, <1>3 DEF TypeInv
  <2> QED
    BY <1>3, <2>1, LayoutsKept
<1> QED
  BY <1>8, <1>9

\* The slots read nothing but staged nodes.
LEMMA OutsOf ==
    ASSUME Inv, NEW h \in Hists
    PROVE  /\ OutputLabels(h) = Outs(label_maps[h])
           /\ OutputLabels(h) \subseteq Labels
           /\ OutputLabels(h)
                = {Nominal} \cup UNION {log[h][k].labels : k \in 1 .. Len(log[h])}
           /\ DOMAIN label_maps[h] = 1 .. Len(log[h])
           /\ log[h] \in Seq(Fills)
           /\ \A k \in 1 .. Len(log[h]) : log[h][k] \in Fills
<1>1. /\ Rec(h) \in RecType /\ Maps(h) = label_maps[h] /\ Consistent(Rec(h))
      /\ label_maps[h] \in Seq({MapOf(f) : f \in Fills}) /\ log[h] \in Seq(Fills)
  BY RecTyped DEF Inv, RecordsInv, TypeInv
<1>2. Len(label_maps[h]) = Len(log[h])
      /\ \A k \in 1 .. Len(log[h]) : label_maps[h][k] = MapOf(log[h][k])
  BY <1>1 DEF Consistent, Logged, Rec
<1>3. DOMAIN label_maps[h] = 1 .. Len(log[h]) /\ \A k \in 1 .. Len(log[h]) : log[h][k] \in Fills
  BY <1>1, <1>2
<1>4. \A k \in 1 .. Len(log[h]) : DOMAIN label_maps[h][k] = log[h][k].labels
  BY <1>2 DEF MapOf
<1>5. OutputLabels(h) = {Nominal} \cup UNION {log[h][k].labels : k \in 1 .. Len(log[h])}
  BY <1>1, <1>3, <1>4 DEF OutputLabels, ToSet
<1>6. OutputLabels(h) \subseteq Labels
  BY <1>3, <1>5, FillFacts, LabelsAssumption
<1> QED
  BY <1>1, <1>3, <1>5, <1>6 DEF OutputLabels, Outs

\* What a fill's map resolves to is one of its nodes.
LEMMA ResolvedNode ==
    ASSUME Inv, NEW h \in Hists, NEW k \in 1 .. Len(log[h]), NEW l
    PROVE  LET n == IF l \in log[h][k].labels THEN l ELSE Nominal IN
           /\ n \in log[h][k].labels
           /\ Resolved(label_maps[h][k], l) = NodeOf(log[h][k], n)
           /\ Resolved(label_maps[h][k], l) \in ToSet(fill_nodes[h])
<1> DEFINE n == IF l \in log[h][k].labels THEN l ELSE Nominal
<1>1. n \in log[h][k].labels
  BY OutsOf, FillFacts
<1>2. label_maps[h][k] = MapOf(log[h][k])
  BY ZenonT(30) DEF Inv, RecordsInv, Consistent, Logged, Rec
<1>3. Resolved(label_maps[h][k], l) = NodeOf(log[h][k], n)
  BY <1>1, <1>2 DEF Resolved, MapOf
<1>4. \E i \in DOMAIN fill_nodes[h] : fill_nodes[h][i] = NodeOf(log[h][k], n)
  <2>1. Logged(Rec(h))
    BY DEF Inv, RecordsInv, Consistent
  <2>2. Rec(h).calls = log[h] /\ Rec(h).nodes = fill_nodes[h]
    BY DEF Rec
  <2>3. \A m \in log[h][k].labels :
          \E i \in DOMAIN fill_nodes[h] : fill_nodes[h][i] = NodeOf(log[h][k], m)
    BY <2>1, <2>2 DEF Logged
  <2> QED
    BY <1>1, <2>3
<1> QED
  BY <1>1, <1>3, <1>4 DEF ToSet

LEMMA SlotsRead ==
    ASSUME Inv, NEW h \in Hists
    PROVE  /\ Slots(h) \in Layouts
           /\ \A key \in DOMAIN Slots(h) : ToSet(Slots(h)[key]) \subseteq ToSet(fill_nodes[h])
<1>1. /\ Staged(h) = fill_nodes[h] /\ Maps(h) = label_maps[h]
      /\ fill_nodes[h] \in Seq(Node)
  BY RecTyped DEF Inv, TypeInv
<1> DEFINE varied == [l \in OutputLabels(h) |->
                        [k \in DOMAIN Maps(h) |-> Resolved(Maps(h)[k], l)]]
<1>2. ASSUME NEW l
      PROVE  /\ [k \in DOMAIN Maps(h) |-> Resolved(Maps(h)[k], l)] \in Seq(Node)
             /\ ToSet([k \in DOMAIN Maps(h) |-> Resolved(Maps(h)[k], l)])
                  \subseteq ToSet(fill_nodes[h])
  <2> DEFINE t == [k \in DOMAIN Maps(h) |-> Resolved(Maps(h)[k], l)]
  <2>1. DOMAIN t = 1 .. Len(log[h]) /\ Len(log[h]) \in Nat
    BY <1>1, OutsOf
  <2>2. \A k \in 1 .. Len(log[h]) : t[k] \in ToSet(fill_nodes[h])
    BY <1>1, <2>1, ResolvedNode
  <2>3. ToSet(fill_nodes[h]) \subseteq Node
    BY <1>1 DEF ToSet
  <2>4. t \in [1 .. Len(log[h]) -> Node]
    BY <2>1, <2>2, <2>3
  <2>5. t \in Seq(Node)
    <3> HIDE DEF t
    <3> QED
      BY <2>1, <2>4, SeqDef
  <2>6. ToSet(t) \subseteq ToSet(fill_nodes[h])
    <3> HIDE DEF t
    <3> QED
      BY <2>1, <2>2 DEF ToSet
  <2> QED
    BY <2>5, <2>6
<1>3. varied \in [OutputLabels(h) -> Seq(Node)]
  BY <1>2
<1>4. CASE axis_mode[h]
  <2>1. Slots(h) = [l \in {NoLabel} |-> fill_nodes[h]]
    BY <1>1, <1>4 DEF Slots
  <2>2. Slots(h) \in [{NoLabel} -> Seq(Node)]
    BY <1>1, <2>1
  <2> QED
    BY <2>1, <2>2 DEF Layouts
<1>5. CASE ~axis_mode[h] /\ OutputLabels(h) = {Nominal}
  <2>1. Slots(h) = [l \in {Nominal} |-> fill_nodes[h]]
    BY <1>1, <1>5 DEF Slots
  <2>2. Slots(h) \in [{Nominal} -> Seq(Node)]
    BY <1>1, <2>1
  <2> QED
    BY <2>1, <2>2, LabelsAssumption DEF Layouts
<1>6. CASE ~axis_mode[h] /\ OutputLabels(h) # {Nominal}
  <2>1. Slots(h) = varied
    BY <1>6 DEF Slots
  <2>2. Slots(h) \in Layouts
    BY <1>3, <2>1, OutsOf DEF Layouts
  <2> QED
    BY <1>2, <2>1, <2>2
<1> QED
  BY <1>4, <1>5, <1>6

LEMMA MakePiecesKeeps ==
    ASSUME Inv, NEW q \in Pieces, NEW h \in Hists, MakePieces(q, h)
    PROVE  Inv'
<1> DEFINE p == [hist |-> h, layout |-> Slots(h), state |-> "made", marked |-> ToSet(Staged(h))]
<1>1. /\ pieces' = [pieces EXCEPT ![q] = p] /\ h \in alive
      /\ UNCHANGED <<alive, own, lists, axis_mode, axis_labels, session, log, halved>>
  BY DEF MakePieces
<1>2. Staged(h) = fill_nodes[h] /\ ToSet(fill_nodes[h]) \subseteq Node
  <2>1. Staged(h) = fill_nodes[h] /\ fill_nodes[h] \in Seq(Node)
    BY RecTyped DEF Inv, TypeInv
  <2> QED
    BY <2>1 DEF ToSet
<1>3. p \in PiecesType
  BY <1>2, SlotsRead DEF PiecesType
<1>4. /\ p.hist = h /\ p.state = "made" /\ p.layout = Slots(h) /\ p.marked = ToSet(fill_nodes[h])
  BY <1>2
<1> HIDE DEF p
<1>5. TypeInv'
  BY <1>1, <1>3 DEF Inv, TypeInv, lists
<1>6. RecordsInv'
  BY <1>1 DEF Inv, RecordsInv, Rec, lists
<1>7. ASSUME NEW z \in Pieces, pieces'[z] # None
      PROVE  /\ pieces'[z].hist \in alive'
             /\ \A key \in DOMAIN pieces'[z].layout :
                 ToSet(pieces'[z].layout[key]) \subseteq pieces'[z].marked
             /\ pieces'[z].state = "broken" =>
                 ~Found(label_maps'[pieces'[z].hist], pieces'[z].marked)
  <2>1. CASE z = q
    <3>1. pieces'[z] = p
      BY <1>1, <2>1 DEF Inv, TypeInv
    <3> QED
      BY <1>1, <1>4, <3>1, SlotsRead
  <2>2. CASE z # q
    <3>1. pieces'[z] = pieces[z] /\ alive' = alive /\ label_maps' = label_maps
      BY <1>1, <2>2 DEF Inv, TypeInv, lists
    <3> QED
      BY <1>7, <3>1 DEF Inv, LayoutInv
  <2> QED
    BY <2>1, <2>2
<1>8. LayoutInv'
  BY <1>7 DEF LayoutInv
<1> QED
  BY <1>5, <1>6, <1>8 DEF Inv

LEMMA CompileKeeps ==
    ASSUME Inv, NEW q \in Pieces, Compile(q)
    PROVE  Inv'
<1> DEFINE p == [pieces[q] EXCEPT !.state = IF LabelsFound(pieces[q]) THEN "fed" ELSE "broken"]
<1>1. /\ pieces' = [pieces EXCEPT ![q] = p] /\ pieces[q] # None
      /\ UNCHANGED <<alive, own, lists, axis_mode, axis_labels, session, log, halved>>
  BY DEF Compile
<1>2. pieces[q] \in PiecesType
  BY <1>1 DEF Inv, TypeInv
<1>3. /\ p.hist = pieces[q].hist /\ p.layout = pieces[q].layout
      /\ p.marked = pieces[q].marked
      /\ p.state = IF LabelsFound(pieces[q]) THEN "fed" ELSE "broken"
      /\ p \in PiecesType /\ pieces[q].hist \in Hists
  BY <1>2 DEF PiecesType
<1>4. LabelsFound(pieces[q]) <=> Found(label_maps[p.hist], p.marked)
  <2>1. Maps(p.hist) = label_maps[p.hist] /\ OutputLabels(p.hist) = Outs(label_maps[p.hist])
    BY <1>3, RecTyped, OutsOf DEF Inv
  <2> QED
    BY <1>3, <2>1 DEF LabelsFound, Found
<1> HIDE DEF p
<1>5. TypeInv'
  BY <1>1, <1>3 DEF Inv, TypeInv, lists
<1>6. RecordsInv'
  BY <1>1 DEF Inv, RecordsInv, Rec, lists
<1>7. ASSUME NEW z \in Pieces, pieces'[z] # None
      PROVE  /\ pieces'[z].hist \in alive'
             /\ \A key \in DOMAIN pieces'[z].layout :
                 ToSet(pieces'[z].layout[key]) \subseteq pieces'[z].marked
             /\ pieces'[z].state = "broken" =>
                 ~Found(label_maps'[pieces'[z].hist], pieces'[z].marked)
  <2>1. CASE z = q
    <3>1. pieces'[z] = p /\ alive' = alive /\ label_maps' = label_maps
      BY <1>1, <2>1 DEF Inv, TypeInv, lists
    <3>2. /\ p.hist \in alive
          /\ \A key \in DOMAIN p.layout : ToSet(p.layout[key]) \subseteq p.marked
      BY <1>1, <1>3 DEF Inv, LayoutInv
    <3> QED
      BY <1>3, <1>4, <3>1, <3>2
  <2>2. CASE z # q
    <3>1. pieces'[z] = pieces[z] /\ alive' = alive /\ label_maps' = label_maps
      BY <1>1, <2>2 DEF Inv, TypeInv, lists
    <3> QED
      BY <1>7, <3>1 DEF Inv, LayoutInv
  <2> QED
    BY <2>1, <2>2
<1>8. LayoutInv'
  BY <1>7 DEF LayoutInv
<1> QED
  BY <1>5, <1>6, <1>8 DEF Inv

-----------------------------------------------------------------------------
(* Results *)

LEMMA NextInv == Inv /\ [Next]_vars => Inv'
<1> SUFFICES ASSUME Inv, [Next]_vars PROVE Inv'
  OBVIOUS
<1>1. ASSUME NEW h \in Hists, NEW f \in Fills,
             Fill(h, f) \/ SiblingRaises(h, f) \/ AxisRaises(h, f)
      PROVE  Inv'
  BY <1>1, FillKeeps, SiblingRaisesKeeps, AxisRaisesKeeps
<1>2. ASSUME NEW h \in Hists, NEW g \in Hists, Copy(h, g) PROVE Inv'
  BY <1>2, CopyKeeps
<1>3. ASSUME NEW q \in Pieces, (\E h \in Hists : MakePieces(q, h)) \/ Compile(q) PROVE Inv'
  BY <1>3, MakePiecesKeeps, CompileKeeps
<1>4. CASE UNCHANGED vars
  BY <1>4 DEF Inv, TypeInv, RecordsInv, LayoutInv, Rec, vars, lists
<1> QED
  BY <1>1, <1>2, <1>3, <1>4 DEF Next

\* Whatever fills, failed fills and copies led there, every histogram's lists hold the
\* fills that returned, in order, with nothing of another fill's (fill, _record_fill).
THEOREM RecordingInvariant == Spec => []Inv
<1>1. Init => Inv
  BY InitInv
<1>2. Inv /\ [Next]_vars => Inv'
  BY NextInv
<1> QED
  BY <1>1, <1>2, PTL DEF Spec

\* One output never mixes modes or label sets, for any number of fills and copies.
THEOREM OneSpecHolds == Spec => []OneSpec
<1>1. Inv => OneSpec
  <2> SUFFICES ASSUME Inv, NEW h \in alive \ halved, NEW s \in ToSet(Specs(h))
               PROVE  s = Specs(h)[1]
    BY DEF OneSpec
  <2>1. h \in Hists /\ Specs(h) = fill_specs[h] /\ Rec(h) \in RecType /\ Consistent(Rec(h))
    BY RecTyped DEF Inv, TypeInv, RecordsInv
  <2> DEFINE r == Rec(h)
  <2>2. r.specs = fill_specs[h] /\ ~r.half
    BY DEF Rec
  <2> HIDE DEF r
  <2>3. r.specs \in Seq(SUBSET Labels) /\ r.calls \in Seq(Fills)
    BY <2>1 DEF RecType, r
  <2>4. /\ Len(r.specs) = Len(r.calls)
        /\ \A k \in 1 .. Len(r.calls) :
            /\ r.specs[k] = SpecOf(r.calls[k]) /\ r.calls[k].axis = r.axis
            /\ r.axis => r.calls[k].labels = r.labels
    BY <2>1, <2>2 DEF Consistent, Logged, OneMode, r
  <2>5. \A k \in 1 .. Len(r.calls) : r.specs[k] = IF r.axis THEN r.labels ELSE {}
    BY <2>4 DEF SpecOf
  <2>6. PICK i \in 1 .. Len(r.specs) : s = r.specs[i]
    BY <2>1, <2>2, <2>3 DEF ToSet
  <2>7. 1 \in 1 .. Len(r.specs)
    BY <2>3, <2>6
  <2> QED
    BY <2>1, <2>2, <2>4, <2>5, <2>6, <2>7
<1> QED
  BY <1>1, RecordingInvariant, PTL

\* Filling one histogram, or failing to, never changes what a copy of it has recorded.
THEOREM CopiesStayApart == Spec => CopiesApart
<1>1. Inv /\ [Next]_vars =>
        [\A g, h \in alive : g # h =>
           \/ <<Staged(g), Maps(g), Specs(g)>>' = <<Staged(g), Maps(g), Specs(g)>>
           \/ <<Staged(h), Maps(h), Specs(h)>>' = <<Staged(h), Maps(h), Specs(h)>>]_vars
  <2> SUFFICES ASSUME Inv, Next, NEW g \in alive, NEW h \in alive, g # h
               PROVE  \/ <<Staged(g), Maps(g), Specs(g)>>' = <<Staged(g), Maps(g), Specs(g)>>
                      \/ <<Staged(h), Maps(h), Specs(h)>>' = <<Staged(h), Maps(h), Specs(h)>>
    OBVIOUS
  <2>1. /\ g \in Hists /\ h \in Hists /\ alive \subseteq Hists
        /\ own = [k \in Hists |-> k]
        /\ DOMAIN fill_nodes = Hists /\ DOMAIN label_maps = Hists /\ DOMAIN fill_specs = Hists
    BY DEF Inv, TypeInv
  <2>2. own' = own
    BY DEF Next, Fill, SiblingRaises, AxisRaises, Copy, MakePieces, Compile
  <2>3. \E z \in Hists : \A k \in Hists : k # z =>
          /\ fill_nodes'[k] = fill_nodes[k] /\ label_maps'[k] = label_maps[k]
          /\ fill_specs'[k] = fill_specs[k]
    <3>1. ASSUME NEW z \in Hists, NEW f \in Fills, Fill(z, f)
          PROVE  \A k \in Hists : k # z =>
                  /\ fill_nodes'[k] = fill_nodes[k] /\ label_maps'[k] = label_maps[k]
                  /\ fill_specs'[k] = fill_specs[k]
      BY <2>1, <3>1 DEF Fill
    <3>2. ASSUME NEW z \in Hists, NEW f \in Fills, AxisRaises(z, f)
          PROVE  \A k \in Hists : k # z =>
                  /\ fill_nodes'[k] = fill_nodes[k] /\ label_maps'[k] = label_maps[k]
                  /\ fill_specs'[k] = fill_specs[k]
      BY <2>1, <3>2 DEF AxisRaises
    <3>3. ASSUME NEW y \in Hists, NEW z \in Hists, Copy(y, z)
          PROVE  \A k \in Hists : k # z =>
                  /\ fill_nodes'[k] = fill_nodes[k] /\ label_maps'[k] = label_maps[k]
                  /\ fill_specs'[k] = fill_specs[k]
      BY <2>1, <3>3 DEF Copy
    <3>4. ASSUME NEW z \in Hists, NEW f \in Fills, SiblingRaises(z, f)
          PROVE  UNCHANGED lists
      BY <3>4 DEF SiblingRaises, lists
    <3>5. ASSUME NEW q \in Pieces, (\E k \in Hists : MakePieces(q, k)) \/ Compile(q)
          PROVE  UNCHANGED lists
      BY <3>5 DEF MakePieces, Compile, lists
    <3>6. UNCHANGED lists => \A k \in Hists :
            /\ fill_nodes'[k] = fill_nodes[k] /\ label_maps'[k] = label_maps[k]
            /\ fill_specs'[k] = fill_specs[k]
      BY DEF lists
    <3> QED
      BY <2>1, <3>1, <3>2, <3>3, <3>4, <3>5, <3>6 DEF Next
  <2>4. /\ Staged(g) = fill_nodes[g] /\ Maps(g) = label_maps[g] /\ Specs(g) = fill_specs[g]
        /\ Staged(h) = fill_nodes[h] /\ Maps(h) = label_maps[h] /\ Specs(h) = fill_specs[h]
        /\ Staged(g)' = fill_nodes'[g] /\ Maps(g)' = label_maps'[g] /\ Specs(g)' = fill_specs'[g]
        /\ Staged(h)' = fill_nodes'[h] /\ Maps(h)' = label_maps'[h] /\ Specs(h)' = fill_specs'[h]
    BY <2>1, <2>2 DEF Staged, Maps, Specs
  <2> QED
    BY <2>1, <2>3, <2>4
<1> QED
  BY <1>1, RecordingInvariant, PTL DEF Spec, CopiesApart

\* Compiling pieces of a histogram that was not filled since finds every label's node.
THEOREM LateFillsBreak == Spec => []BrokenByLateFill
<1>1. Inv => BrokenByLateFill
  <2> SUFFICES ASSUME Inv, NEW q \in Pieces, pieces[q] # None, pieces[q].state = "broken",
                      Slots(pieces[q].hist) = pieces[q].layout
               PROVE  FALSE
    BY DEF BrokenByLateFill
  <2> DEFINE h == pieces[q].hist
             marked == pieces[q].marked
  <2>1. /\ h \in Hists /\ ~Found(label_maps[h], marked)
        /\ \A key \in DOMAIN Slots(h) : ToSet(Slots(h)[key]) \subseteq marked
    BY DEF Inv, TypeInv, LayoutInv
  <2> HIDE DEF h, marked
  <2>2. PICK l \in Outs(label_maps[h]) \ {Nominal} : \E m \in ToSet(label_maps[h]) :
          Resolved(m, l) \notin marked
    BY <2>1 DEF Found
  <2>3. PICK k \in 1 .. Len(log[h]) : Resolved(label_maps[h][k], l) \notin marked
    BY <2>1, <2>2, OutsOf DEF ToSet
  <2>4. /\ Staged(h) = fill_nodes[h] /\ Maps(h) = label_maps[h]
        /\ OutputLabels(h) = Outs(label_maps[h])
    BY <2>1, RecTyped, OutsOf DEF Inv
  <2>5. CASE axis_mode[h]
    <3>1. Slots(h) = [key \in {NoLabel} |-> fill_nodes[h]]
      BY <2>4, <2>5 DEF Slots
    <3>2. ToSet(fill_nodes[h]) \subseteq marked
      BY <2>1, <3>1
    <3> QED
      BY <2>1, <2>3, <3>2, ResolvedNode
  <2>6. CASE ~axis_mode[h]
    <3>1. OutputLabels(h) # {Nominal} /\ l \in OutputLabels(h)
      BY <2>2, <2>4
    <3>2. Slots(h) = [key \in OutputLabels(h) |->
                        [j \in DOMAIN label_maps[h] |-> Resolved(label_maps[h][j], key)]]
      BY <2>4, <2>6, <3>1 DEF Slots
    <3>3. Slots(h)[l] = [j \in DOMAIN label_maps[h] |-> Resolved(label_maps[h][j], l)]
      BY <3>1, <3>2
    <3>4. l \in DOMAIN Slots(h)
      BY <3>1, <3>2
    <3>5. Resolved(label_maps[h][k], l) \in ToSet(Slots(h)[l])
      BY <2>1, <3>3, OutsOf DEF ToSet
    <3> QED
      BY <2>1, <2>3, <3>4, <3>5
  <2> QED
    BY <2>5, <2>6
<1> QED
  BY <1>1, RecordingInvariant, PTL

LEMMA SiblingFields ==
    ASSUME NEW f, NEW l
    PROVE  /\ SiblingNode(f, l).value = f.value[l]
           /\ DOMAIN SiblingNode(f, l).factors = {NoLabel}
           /\ SiblingNode(f, l).factors[NoLabel] = f.weight[l]
BY DEF SiblingNode

\* What the universes of a histogram add up to, when no fill raised midway.
LEMMA UniverseSums ==
    ASSUME Inv, NEW h \in alive \ halved, Staged(h) # <<>>,
           NEW l \in OutputLabels(h), NEW c \in Contents
    PROVE  Sums(Slots(h)[SlotOf(h, l)], l, c) = Asked(h, l, c)
<1> DEFINE r == Rec(h)
           n == Len(log[h])
<1>1. /\ h \in Hists /\ Staged(h) = fill_nodes[h] /\ Maps(h) = label_maps[h]
      /\ r \in RecType /\ Consistent(r) /\ n \in Nat /\ DOMAIN log[h] = 1 .. n
      /\ log[h] \in Seq(Fills) /\ fill_nodes[h] \in Seq(Node)
  <2>1. h \in Hists /\ log \in [Hists -> Seq(Fills)] /\ fill_nodes \in [Hists -> Seq(Node)]
    BY DEF Inv, TypeInv
  <2>2. log[h] \in Seq(Fills) /\ fill_nodes[h] \in Seq(Node)
    BY <2>1
  <2>3. Len(log[h]) \in Nat /\ DOMAIN log[h] = 1 .. Len(log[h])
    BY <2>2
  <2> QED
    BY <2>1, <2>2, <2>3, RecTyped DEF Inv, RecordsInv
<1>2. /\ r.nodes = fill_nodes[h] /\ r.calls = log[h] /\ ~r.half
      /\ r.axis = axis_mode[h] /\ r.labels = axis_labels[h]
  BY DEF Rec
<1> HIDE DEF r
<1>3. /\ OneMode(r) /\ PlainNodes(r) /\ (axis_mode[h] => AxisSums(r))
  BY <1>1, <1>2 DEF Consistent
<1>4. /\ \A k \in 1 .. n : log[h][k] \in Fills /\ Nominal \in log[h][k].labels
      /\ \A k \in 1 .. n : log[h][k].labels \subseteq OutputLabels(h)
      /\ OutputLabels(h) = {Nominal} \cup UNION {log[h][k].labels : k \in 1 .. n}
      /\ l # NoLabel
  BY <1>1, OutsOf, FillFacts, LabelsAssumption
<1>5. CASE axis_mode[h]
  <2>1. n # 0 /\ \A k \in 1 .. n : log[h][k].labels = axis_labels[h]
    <3>1. log[h] # <<>> /\ \A k \in 1 .. n : log[h][k].labels = axis_labels[h]
      BY <1>2, <1>3, <1>5 DEF OneMode
    <3> QED
      BY <1>1, <3>1
  <2>2. l \in axis_labels[h]
    <3>1. 1 \in 1 .. n
      BY <1>1, <2>1
    <3> QED
      BY <1>4, <2>1, <3>1
  <2>3. Slots(h) = [key \in {NoLabel} |-> fill_nodes[h]]
    BY <1>1, <1>5 DEF Slots
  <2>4. SlotOf(h, l) = NoLabel
    BY <2>3 DEF SlotOf
  <2>5. Slots(h)[SlotOf(h, l)] = fill_nodes[h]
    BY <2>3, <2>4
  <2>6. Sums(r.nodes, l, c) = AskedOf(r.calls, l, c)
    BY <1>2, <1>3, <1>5, <2>2 DEF AxisSums
  <2> QED
    BY <1>2, <2>5, <2>6 DEF Asked, AskedOf
<1>6. ASSUME ~axis_mode[h],
             NEW s, DOMAIN s = 1 .. n,
             \A k \in 1 .. n : s[k] = SiblingNode(log[h][k],
                IF l \in log[h][k].labels THEN l ELSE Nominal)
      PROVE  Sums(s, l, c) = Asked(h, l, c)
  <2>1. ASSUME NEW k \in 1 .. n PROVE AddsTo(s[k], l, c) <=> Reaches(log[h][k], l) = c
    <3> DEFINE m == IF l \in log[h][k].labels THEN l ELSE Nominal
               f == log[h][k]
    <3>1. /\ s[k].value = f.value[m]
          /\ DOMAIN s[k].factors = {NoLabel} /\ s[k].factors[NoLabel] = f.weight[m]
      BY <1>6, SiblingFields
    <3>2. Reaches(f, l) = <<f.value[m], f.weight[m]>>
      BY DEF Reaches
    <3> HIDE DEF m, f
    <3>3. DOMAIN s[k].factors \cap {NoLabel, l} = {NoLabel}
      BY <3>1
    <3>4. AddsTo(s[k], l, c) <=> c = <<f.value[m], f.weight[m]>>
      BY <3>1, <3>3 DEF AddsTo
    <3> QED
      BY <3>2, <3>4 DEF f
  <2>2. {i \in DOMAIN s : AddsTo(s[i], l, c)} = {k \in DOMAIN log[h] : Reaches(log[h][k], l) = c}
    BY <1>1, <1>6, <2>1
  <2> QED
    BY <2>2 DEF Sums, Asked
<1>7. CASE ~axis_mode[h] /\ OutputLabels(h) = {Nominal}
  <2>1. Slots(h) = [key \in {Nominal} |-> fill_nodes[h]]
    BY <1>1, <1>7 DEF Slots
  <2>2. SlotOf(h, l) = Nominal
    BY <2>1 DEF SlotOf
  <2>3. Slots(h)[SlotOf(h, l)] = fill_nodes[h]
    BY <2>1, <2>2
  <2>4. \A k \in 1 .. n : ~log[h][k].axis /\ log[h][k].labels = {Nominal}
    BY <1>1, <1>2, <1>3, <1>4, <1>7 DEF OneMode
  <2>5. /\ Len(fill_nodes[h]) = n
        /\ \A k \in 1 .. n : fill_nodes[h][k] = SiblingNode(log[h][k], Nominal)
    BY <1>2, <1>3, <2>4 DEF PlainNodes
  <2>6. DOMAIN fill_nodes[h] = 1 .. n
    BY <1>1, <2>5
  <2>7. l = Nominal
    BY <1>7
  <2> QED
    BY <1>6, <1>7, <2>3, <2>5, <2>6, <2>7
<1>8. CASE ~axis_mode[h] /\ OutputLabels(h) # {Nominal}
  <2> DEFINE s == [k \in DOMAIN label_maps[h] |-> Resolved(label_maps[h][k], l)]
  <2>1. Slots(h) = [key \in OutputLabels(h) |->
                      [k \in DOMAIN label_maps[h] |-> Resolved(label_maps[h][k], key)]]
    BY <1>1, <1>8 DEF Slots
  <2>2. DOMAIN Slots(h) = OutputLabels(h) /\ NoLabel \notin OutputLabels(h)
    BY <1>1, <2>1, OutsOf, LabelsAssumption
  <2>3. SlotOf(h, l) = l
    BY <1>8, <2>2 DEF SlotOf
  <2>4. Slots(h)[SlotOf(h, l)] = s
    BY <2>1, <2>3
  <2>5. DOMAIN s = 1 .. n
    BY <1>1, OutsOf
  <2>6. ASSUME NEW k \in 1 .. n
        PROVE  s[k] = SiblingNode(log[h][k], IF l \in log[h][k].labels THEN l ELSE Nominal)
    <3>1. s[k] = Resolved(label_maps[h][k], l)
      BY <2>5
    <3>2. ~log[h][k].axis
      BY <1>2, <1>3, <1>8 DEF OneMode
    <3> QED
      BY <1>1, <3>1, <3>2, ResolvedNode DEF NodeOf
  <2> HIDE DEF s
  <2> QED
    BY <1>6, <1>8, <2>4, <2>5, <2>6
<1> QED
  BY <1>5, <1>7, <1>8

\* Every universe of every histogram sums each of its fills exactly once, whatever copies,
\* modes and label sets, and whatever fills were refused or raised (_slots).
THEOREM UniversesHold == Spec => []UniversesSum
<1>1. Inv => UniversesSum
  BY UniverseSums DEF UniversesSum
<1> QED
  BY <1>1, RecordingInvariant, PTL

\* What Histogram.plan accepts is nominal only, and it sums each fill once.
THEOREM PlansAreNominal == Spec => []PlanIsNominal
<1>1. Inv => PlanIsNominal
  <2> SUFFICES ASSUME Inv, NEW h \in alive, Plans(h), NEW c \in Contents
               PROVE  Cardinality({i \in DOMAIN Staged(h) :
                        \E m \in DOMAIN Staged(h)[i].factors :
                          c = <<Staged(h)[i].value, Staged(h)[i].factors[m]>>})
                        = Asked(h, Nominal, c)
    BY DEF PlanIsNominal
  <2> DEFINE r == Rec(h)
             n == Len(log[h])
  <2>1. /\ h \in Hists /\ Staged(h) = fill_nodes[h] /\ Maps(h) = label_maps[h]
        /\ Consistent(r) /\ n \in Nat /\ DOMAIN log[h] = 1 .. n
        /\ fill_nodes[h] \in Seq(Node)
    BY RecTyped DEF Inv, TypeInv, RecordsInv
  <2>2. /\ r.nodes = fill_nodes[h] /\ r.calls = log[h] /\ r.axis = axis_mode[h]
        /\ r.maps = label_maps[h] /\ ~axis_mode[h]
    BY DEF Rec, Plans
  <2> HIDE DEF r
  <2>3. /\ Logged(r) /\ OneMode(r) /\ PlainNodes(r)
    BY <2>1, <2>2 DEF Consistent
  <2>4. ASSUME NEW k \in 1 .. n PROVE ~log[h][k].axis /\ log[h][k].labels = {Nominal}
    <3>1. log[h][k] \in Fills /\ DOMAIN label_maps[h] = 1 .. n
      BY <2>1, OutsOf
    <3>2. Cardinality(DOMAIN label_maps[h][k]) <= 1
      BY <2>1, <3>1 DEF Plans, ToSet
    <3>3. DOMAIN label_maps[h][k] = log[h][k].labels
      BY <2>2, <2>3, ZenonT(30) DEF Logged, MapOf
    <3>4. Nominal \in log[h][k].labels /\ IsFiniteSet(log[h][k].labels)
      BY <3>1, FillFacts
    <3>5. Cardinality({Nominal}) = 1 /\ Cardinality({Nominal}) <= Cardinality(log[h][k].labels)
          /\ (Cardinality({Nominal}) = Cardinality(log[h][k].labels)
                => log[h][k].labels = {Nominal})
      <4> DEFINE L == log[h][k].labels
      <4>1. {Nominal} \in SUBSET L /\ IsFiniteSet(L)
        BY <3>4
      <4> HIDE DEF L
      <4>2. /\ Cardinality({Nominal}) <= Cardinality(L)
            /\ Cardinality(L) = Cardinality({Nominal}) => L = {Nominal}
        BY <4>1, FS_Subset
      <4> QED
        BY <4>2, FS_Singleton DEF L
    <3>6. Cardinality(log[h][k].labels) \in Nat
      BY <3>4, FS_CardinalityType
    <3>7. log[h][k].labels = {Nominal}
      BY <3>2, <3>3, <3>5, <3>6
    <3> QED
      BY <2>2, <2>3, <3>7 DEF OneMode
  <2>5. /\ Len(fill_nodes[h]) = n
        /\ \A k \in 1 .. n : fill_nodes[h][k] = SiblingNode(log[h][k], Nominal)
    BY <2>2, <2>3, <2>4 DEF PlainNodes
  <2>6. DOMAIN fill_nodes[h] = 1 .. n
    BY <2>1, <2>5
  <2>7. ASSUME NEW k \in 1 .. n
        PROVE  (\E m \in DOMAIN fill_nodes[h][k].factors :
                  c = <<fill_nodes[h][k].value, fill_nodes[h][k].factors[m]>>)
               <=> Reaches(log[h][k], Nominal) = c
    <3> DEFINE f == log[h][k]
               t == fill_nodes[h][k]
    <3>1. /\ t.value = f.value[Nominal]
          /\ DOMAIN t.factors = {NoLabel} /\ t.factors[NoLabel] = f.weight[Nominal]
      BY <2>5, SiblingFields
    <3>2. Reaches(f, Nominal) = <<f.value[Nominal], f.weight[Nominal]>>
      BY DEF Reaches
    <3> HIDE DEF f, t
    <3>3. (\E m \in DOMAIN t.factors : c = <<t.value, t.factors[m]>>)
          <=> c = <<f.value[Nominal], f.weight[Nominal]>>
      BY <3>1
    <3> QED
      BY <3>2, <3>3 DEF f, t
  <2>8. {i \in DOMAIN fill_nodes[h] : \E m \in DOMAIN fill_nodes[h][i].factors :
          c = <<fill_nodes[h][i].value, fill_nodes[h][i].factors[m]>>}
        = {k \in DOMAIN log[h] : Reaches(log[h][k], Nominal) = c}
    BY <2>1, <2>6, <2>7
  <2> QED
    BY <2>1, <2>8 DEF Asked
<1> QED
  BY <1>1, RecordingInvariant, PTL
=============================================================================
