------------------------------ MODULE PlanProofs ------------------------------
(* Proofs about plans: PlanShape's nesting and specs come back whatever is     *)
(* planned, and Rebinding's plans run again, for every set of plans and        *)
(* partitions and every number of bindings and runs.                           *)
EXTENDS PlanShape, Rebinding, FiniteSetTheorems, SequenceTheorems, TLAPS

-----------------------------------------------------------------------------
(* A plan's slots *)

\* The slots of the outputs at the paths in P, keyed by name and label.
SlotOf(p, l) == [key |-> Named(p), label |-> l]
SlotsAt(P) == UNION {{SlotOf(p, l) : l \in Slots(given[p])} : p \in P}
SlotValue(P, growing) ==
    [k \in {<<key>> : key \in SlotsAt(P)} |-> Gathered(Flat[k[1].key], k[1].label, growing)]

\* No two outputs have one name.
Distinct == \A p, q \in Hists : Named(p) = Named(q) => p = q
InSession(s) == {p \in Hists : given[p].session = s}
InSessions(S) == {p \in Hists : given[p].session \in S}

LEMMA SlotsAre ==
    ASSUME NEW P, NEW k
    PROVE  k \in SlotsAt(P) <=> \E p \in P : \E l \in Slots(given[p]) : k = SlotOf(p, l)
BY DEF SlotsAt

\* The outputs by name are the histograms at their paths.
LEMMA FlatIs ==
    ASSUME Distinct
    PROVE  /\ DOMAIN Flat = {Named(p) : p \in Hists}
           /\ \A p \in Hists : Flat[Named(p)] = given[p]
<1>1. DOMAIN Flat = {Named(p) : p \in Hists}
  BY DEF Flat
<1>2. ASSUME NEW p \in Hists PROVE Flat[Named(p)] = given[p]
  <2>1. (CHOOSE q \in Hists : Named(q) = Named(p)) = p
    BY DEF Distinct
  <2> QED
    BY <2>1 DEF Flat
<1> QED
  BY <1>1, <1>2

\* One Session's value has the slots of its outputs.
LEMMA SessionIs ==
    ASSUME Distinct, NEW s, NEW growing
    PROVE  SessionValue(s, growing) = SlotValue(InSession(s), growing)
<1> DEFINE names == {n \in DOMAIN Flat : Flat[n].session = s}
           keys == UNION {{[key |-> n, label |-> l] : l \in Slots(Flat[n])} : n \in names}
<1>1. names = {Named(p) : p \in InSession(s)}
  BY FlatIs DEF InSession
<1>2. keys = SlotsAt(InSession(s))
  BY <1>1, FlatIs DEF SlotsAt, SlotOf, InSession
<1>3. SessionValue(s, growing)
        = [k \in {<<key>> : key \in keys} |-> Gathered(Flat[k[1].key], k[1].label, growing)]
  BY DEF SessionValue
<1> QED
  BY <1>2, <1>3 DEF SlotValue

LEMMA Pairs ==
    ASSUME NEW x, NEW y
    PROVE  /\ Tail(<<x>> \o <<y>>) = <<y>> /\ (<<x>> \o <<y>>)[1] = x
           /\ <<x>> \o <<y>> = <<x, y>>
<1> DEFINE S == {x, y}
           s == <<x>>
           t == <<y>>
           w == <<x, y>>
<1>1. s \in Seq(S) /\ t \in Seq(S) /\ w \in Seq(S)
  OBVIOUS
<1>2. Len(s) = 1 /\ Len(t) = 1 /\ s[1] = x /\ t[1] = y /\ Len(w) = 2 /\ w[1] = x /\ w[2] = y
  OBVIOUS
<1> HIDE DEF S, s, t, w
<1>3. s \o t \in Seq(S) /\ Len(s \o t) = 2 /\ (s \o t)[1] = x /\ (s \o t)[2] = y
  BY <1>1, <1>2, ConcatProperties
<1>4. s \o t = w
  BY <1>1, <1>2, <1>3, SeqEqual
<1>5. w # <<>>
  BY <1>2
<1>6. Tail(w) \in Seq(S) /\ Len(Tail(w)) = 1 /\ Tail(w)[1] = y
  BY <1>1, <1>2, <1>5, HeadTailProperties
<1>7. Tail(w) = t
  <2> DEFINE u == Tail(w)
  <2>1. u \in Seq(S) /\ t \in Seq(S) /\ Len(u) = 1 /\ Len(t) = 1 /\ u[1] = y /\ t[1] = y
    BY <1>1, <1>2, <1>6
  <2> HIDE DEF u
  <2>3. \A i \in 1 .. Len(u) : u[i] = t[i]
    BY <2>1
  <2>2. u = t
    BY <2>1, <2>3, SeqEqual
  <2> QED
    BY <2>2 DEF u
<1> QED
  BY <1>3, <1>4, <1>7 DEF s, t, w

\* The output a Session's part is named by.
FirstOf(s) == CHOOSE n \in DOMAIN Flat : Flat[n].session = s

\* Several Sessions' collated value, without its datasets, has the slots of those with tasks.
LEMMA CollatedIs ==
    ASSUME Distinct, NEW tasks, NEW growing
    PROVE  Slotted(CollatedValue(tasks, growing)) = SlotValue(InSessions(tasks), growing)
<1> DEFINE under(s) == {<<Plain(FirstOf(s))>> \o k : k \in DOMAIN SessionValue(s, growing)}
           keys == UNION {under(s) : s \in Groups \cap tasks}
           v == CollatedValue(tasks, growing)
           slots == SlotValue(InSessions(tasks), growing)
<1>1. v = [k \in keys |-> SessionValue(Flat[k[1].key].session, growing)[Tail(k)]]
  BY DEF CollatedValue, FirstOf
<1>2. ASSUME NEW s \in Groups
      PROVE  /\ FirstOf(s) \in DOMAIN Flat /\ Flat[FirstOf(s)].session = s
             /\ DOMAIN SessionValue(s, growing) = {<<key>> : key \in SlotsAt(InSession(s))}
  <2>1. PICK p \in Hists : given[p].session = s
    BY DEF Groups
  <2>2. Named(p) \in DOMAIN Flat /\ Flat[Named(p)].session = s
    BY <2>1, FlatIs
  <2>3. DOMAIN SessionValue(s, growing) = {<<key>> : key \in SlotsAt(InSession(s))}
    BY SessionIs DEF SlotValue
  <2> QED
    BY <2>2, <2>3 DEF FirstOf
<1>3. ASSUME NEW k
      PROVE  k \in keys <=> \E s \in Groups \cap tasks : \E key \in SlotsAt(InSession(s)) :
                              k = <<Plain(FirstOf(s))>> \o <<key>>
  <2>1. k \in keys <=> \E s \in Groups \cap tasks : k \in under(s)
    BY DEF keys
  <2>2. ASSUME NEW s \in Groups
        PROVE  k \in under(s) <=> \E key \in SlotsAt(InSession(s)) :
                                     k = <<Plain(FirstOf(s))>> \o <<key>>
    <3>1. k \in under(s) <=> \E x \in {<<key>> : key \in SlotsAt(InSession(s))} :
                                k = <<Plain(FirstOf(s))>> \o x
      BY <1>2
    <3> QED
      BY <3>1
  <2> HIDE DEF under
  <2> QED
    BY <2>1, <2>2
<1> HIDE DEF keys, v, slots
<1>4. ASSUME NEW s \in Groups \cap tasks, NEW key \in SlotsAt(InSession(s)),
             NEW k, k = <<Plain(FirstOf(s))>> \o <<key>>
      PROVE  /\ k \in keys /\ Tail(k) = <<key>> /\ key \in SlotsAt(InSessions(tasks))
             /\ v[k] = slots[<<key>>]
  <2>1. k \in keys
    BY <1>3, <1>4
  <2>2. Tail(k) = <<key>> /\ k[1].key = FirstOf(s)
    BY <1>4, Pairs DEF Plain
  <2>3. v[k] = SessionValue(s, growing)[<<key>>]
    BY <1>1, <1>2, <2>1, <2>2
  <2>4. key \in SlotsAt(InSessions(tasks))
    BY SlotsAre DEF InSession, InSessions
  <2>5. SessionValue(s, growing)[<<key>>] = slots[<<key>>]
    <3>1. SessionValue(s, growing)[<<key>>] = Gathered(Flat[key.key], key.label, growing)
      <4>1. SlotValue(InSession(s), growing)[<<key>>] = Gathered(Flat[key.key], key.label, growing)
        BY DEF SlotValue
      <4> QED
        BY <4>1, SessionIs
    <3>2. slots[<<key>>] = Gathered(Flat[key.key], key.label, growing)
      BY <2>4 DEF SlotValue, slots
    <3> QED
      BY <3>1, <3>2
  <2> QED
    BY <2>1, <2>2, <2>3, <2>4, <2>5
<1>5. ASSUME NEW key \in SlotsAt(InSessions(tasks))
      PROVE  \E s \in Groups \cap tasks : key \in SlotsAt(InSession(s))
  <2>1. PICK p \in InSessions(tasks) : \E l \in Slots(given[p]) : key = SlotOf(p, l)
    BY SlotsAre
  <2>2. given[p].session \in Groups \cap tasks /\ p \in InSession(given[p].session)
    BY DEF InSession, InSessions, Groups
  <2> QED
    BY <2>1, <2>2, SlotsAre
<1>6. DOMAIN v = keys
  BY <1>1
<1>7. {Tail(p) : p \in DOMAIN v} = {<<key>> : key \in SlotsAt(InSessions(tasks))}
  <2>1. ASSUME NEW p \in keys
        PROVE \E key \in SlotsAt(InSessions(tasks)) : Tail(p) = <<key>>
    <3>1. PICK s \in Groups \cap tasks :
            \E x \in SlotsAt(InSession(s)) : p = <<Plain(FirstOf(s))>> \o <<x>>
      BY <1>3
    <3>2. PICK x \in SlotsAt(InSession(s)) : p = <<Plain(FirstOf(s))>> \o <<x>>
      BY <3>1
    <3> QED
      BY <1>4, <3>2
  <2>2. ASSUME NEW key \in SlotsAt(InSessions(tasks)) PROVE \E p \in keys : Tail(p) = <<key>>
    BY <1>4, <1>5
  <2>3. {Tail(p) : p \in keys} = {<<key>> : key \in SlotsAt(InSessions(tasks))}
    <3> DEFINE A == {Tail(p) : p \in keys}
               B == {<<key>> : key \in SlotsAt(InSessions(tasks))}
    <3>1. ASSUME NEW x \in A PROVE x \in B
      <4>1. PICK p \in keys : x = Tail(p)
        OBVIOUS
      <4> QED
        BY <4>1, <2>1
    <3>2. ASSUME NEW x \in B PROVE x \in A
      <4>1. PICK key \in SlotsAt(InSessions(tasks)) : x = <<key>>
        OBVIOUS
      <4>2. PICK p \in keys : Tail(p) = <<key>>
        BY <2>2
      <4> QED
        BY <4>1, <4>2
    <3> HIDE DEF A, B
    <3>3. A = B
      BY <3>1, <3>2
    <3> QED
      BY <3>3 DEF A, B
  <2> QED
    BY <1>6, <2>3
<1>8. ASSUME NEW key \in SlotsAt(InSessions(tasks))
      PROVE  v[CHOOSE p \in DOMAIN v : Tail(p) = <<key>>] = slots[<<key>>]
  <2>1. PICK p \in keys : p = (CHOOSE q \in DOMAIN v : Tail(q) = <<key>>) /\ Tail(p) = <<key>>
    BY <1>6, <1>7
  <2>2. PICK s \in Groups \cap tasks :
            \E x \in SlotsAt(InSession(s)) : p = <<Plain(FirstOf(s))>> \o <<x>>
    BY <1>3
  <2>5. PICK other \in SlotsAt(InSession(s)) : p = <<Plain(FirstOf(s))>> \o <<other>>
    BY <2>2
  <2>3. Tail(p) = <<other>> /\ v[p] = slots[<<other>>]
    BY <1>4, <2>5
  <2>4. <<other>> = <<key>>
    BY <2>1, <2>3
  <2> QED
    BY <2>1, <2>3, <2>4
<1>9. slots = [k \in {<<key>> : key \in SlotsAt(InSessions(tasks))} |-> slots[k]]
  BY DEF slots, SlotValue
<1>10. Slotted(v) = [k \in {<<key>> : key \in SlotsAt(InSessions(tasks))} |->
                       v[CHOOSE p \in DOMAIN v : Tail(p) = k]]
  BY <1>7 DEF Slotted
<1>11. ASSUME NEW k \in {<<key>> : key \in SlotsAt(InSessions(tasks))}
       PROVE  v[CHOOSE p \in DOMAIN v : Tail(p) = k] = slots[k]
  BY <1>8
<1>12. Slotted(v) = slots
  BY <1>9, <1>10, <1>11
<1> QED
  BY <1>12 DEF v, slots

-----------------------------------------------------------------------------
(* A slot's place in the outputs *)

LEMMA GivenIs ==
    ASSUME given \in Givens
    PROVE  /\ IsFiniteSet(DOMAIN given) /\ DOMAIN given \subseteq Seq(Keys)
           /\ Hists \subseteq DOMAIN given
           /\ \A p, q \in Hists : ~IsStrictPrefix(p, q)
           /\ \A p \in Hists :
                /\ Bare \notin given[p].labels /\ None \notin given[p].labels
                /\ given[p].axis \in BOOLEAN /\ given[p].served \in BOOLEAN
                /\ \A i \in DOMAIN given[p].hist.axes : IsAxis(given[p].hist.axes[i])
                /\ \A q \in Hists : given[q].id = given[p].id => given[q].hist = given[p].hist
BY GivensAssumption DEF Hists

\* A slot's key says whether it has a label of its own.
Whole(l) == l \in {Bare, None}
LEMMA SlotsKnown ==
    ASSUME given \in Givens, NEW p \in Hists, NEW l \in Slots(given[p])
    PROVE  /\ Whole(l) => Slots(given[p]) = {l}
           /\ ~Whole(l) => /\ l \in given[p].labels /\ ~given[p].axis
                           /\ given[p].labels # {Nominal} /\ Slots(given[p]) = given[p].labels
BY GivenIs, DistinctAssumption DEF Slots, Whole

UnpackedAt(p, l) == UnpackedKey(SlotOf(p, l))
LEMMA UnpackedAtIs ==
    ASSUME NEW p, NEW l
    PROVE  /\ Whole(l) => UnpackedAt(p, l) = <<Plain(Named(p))>>
           /\ ~Whole(l) => UnpackedAt(p, l) = <<Plain(Named(p)), Plain(<<l>>)>>
BY DEF UnpackedAt, UnpackedKey, SlotOf, Whole

LEMMA PlainApart == ASSUME NEW x, NEW y, Plain(x) = Plain(y) PROVE x = y
<1>1. Plain(x).key = x /\ Plain(y).key = y
  BY DEF Plain
<1> QED
  BY <1>1

LEMMA UnpackedApart ==
    ASSUME given \in Givens, Distinct, NEW p \in Hists, NEW q \in Hists,
           NEW l \in Slots(given[p]), NEW m \in Slots(given[q]),
           UnpackedAt(p, l) = UnpackedAt(q, m)
    PROVE  p = q /\ l = m
<1> DEFINE x == Plain(Named(p))
           y == Plain(Named(q))
           v == Plain(<<l>>)
           w == Plain(<<m>>)
<1>4. UnpackedAt(p, l) = IF Whole(l) THEN <<x>> ELSE <<x, v>>
  BY UnpackedAtIs
<1>5. UnpackedAt(q, m) = IF Whole(m) THEN <<y>> ELSE <<y, w>>
  BY UnpackedAtIs
<1>6. x = y => Named(p) = Named(q)
  BY PlainApart
<1>7. v = w => <<l>> = <<m>>
  BY PlainApart
<1> HIDE DEF x, y, v, w
<1>1. CASE Whole(l) /\ Whole(m)
  <2>1. <<x>> = <<y>>
    BY <1>1, <1>4, <1>5
  <2>3. p = q
    BY <2>1, <1>6 DEF Distinct
  <2> QED
    BY <1>1, <2>3, SlotsKnown
<1>2. CASE ~Whole(l) /\ ~Whole(m)
  <2>1. <<x, v>> = <<y, w>>
    BY <1>2, <1>4, <1>5
  <2>2. Named(p) = Named(q) /\ <<l>> = <<m>>
    BY <2>1, <1>6, <1>7
  <2> QED
    BY <2>2 DEF Distinct
<1>3. CASE (Whole(l) /\ ~Whole(m)) \/ (~Whole(l) /\ Whole(m))
  <2>1. Len(<<x>>) = 1 /\ Len(<<y>>) = 1 /\ Len(<<x, v>>) = 2 /\ Len(<<y, w>>) = 2
    OBVIOUS
  <2>2. <<x>> = <<y, w>> \/ <<x, v>> = <<y>>
    BY <1>3, <1>4, <1>5
  <2> QED
    BY <2>1, <2>2
<1> QED
  BY <1>1, <1>2, <1>3

LEMMA HeadOfUnpacked ==
    ASSUME NEW p, NEW l
    PROVE  /\ Head(UnpackedAt(p, l)).key = Named(p)
           /\ Whole(l) => Tail(UnpackedAt(p, l)) = <<>>
           /\ ~Whole(l) => Tail(UnpackedAt(p, l)) = <<Plain(<<l>>)>>
<1> DEFINE x == Plain(Named(p))
           y == Plain(<<l>>)
<1>1. x.key = Named(p)
  BY DEF Plain
<1> HIDE DEF x, y
<1>2. CASE Whole(l)
  <2>1. UnpackedAt(p, l) = <<x>>
    BY <1>2, UnpackedAtIs DEF x
  <2>2. Head(<<x>>) = x /\ Tail(<<x>>) = <<>>
    OBVIOUS
  <2> QED
    BY <1>1, <1>2, <2>1, <2>2
<1>3. CASE ~Whole(l)
  <2>1. UnpackedAt(p, l) = <<x, y>>
    BY <1>3, UnpackedAtIs DEF x, y
  <2>2. Head(<<x, y>>) = x
    OBVIOUS
  <2>3. Tail(<<x, y>>) = <<y>>
    BY Pairs
  <2> QED
    BY <1>1, <1>3, <2>1, <2>2, <2>3 DEF y
<1> QED
  BY <1>2, <1>3

\* Unpacked, each slot of the outputs is under its own key.
LEMMA UnpackedIs ==
    ASSUME given \in Givens, Distinct, NEW P \in SUBSET Hists, NEW growing
    PROVE  LET u == Unpacked(SlotValue(P, growing))
           IN /\ \A k : k \in DOMAIN u <=>
                          \E p \in P : \E l \in Slots(given[p]) : k = UnpackedAt(p, l)
              /\ \A p \in P : \A l \in Slots(given[p]) :
                    u[UnpackedAt(p, l)] = Gathered(given[p], l, growing)
<1> DEFINE v == SlotValue(P, growing)
           to(k) == Front(k) \o UnpackedKey(Last(k))
           D == {to(k) : k \in DOMAIN v}
<1>1. Unpacked(v) = [q \in D |-> v[CHOOSE k \in DOMAIN v : to(k) = q]]
  BY DEF Unpacked
<1>2. ASSUME NEW key PROVE to(<<key>>) = UnpackedKey(key)
  <2>1. Last(<<key>>) = key
    BY DEF Last
  <2>2. Front(<<key>>) = <<>>
    BY SubSeqEmpty DEF Front
  <2> DEFINE a == Plain(key.key)
             b == Plain(<<key.label>>)
  <2>5. UnpackedKey(key) = IF key.label \in {Bare, None} THEN <<a>> ELSE <<a, b>>
    BY DEF UnpackedKey
  <2> HIDE DEF a, b
  <2>6. <<a>> \in Seq({a, b}) /\ <<a, b>> \in Seq({a, b})
    OBVIOUS
  <2>3. UnpackedKey(key) \in Seq({a, b})
    BY <2>5, <2>6
  <2>4. <<>> \o UnpackedKey(key) = UnpackedKey(key)
    BY <2>3, ConcatEmptySeq
  <2> QED
    BY <2>1, <2>2, <2>4
<1>3. ASSUME NEW k PROVE k \in DOMAIN v <=> \E p \in P : \E l \in Slots(given[p]) :
                                              k = <<SlotOf(p, l)>>
  BY SlotsAre DEF SlotValue
<1>4. ASSUME NEW p \in P, NEW l \in Slots(given[p])
      PROVE  /\ <<SlotOf(p, l)>> \in DOMAIN v
             /\ to(<<SlotOf(p, l)>>) = UnpackedAt(p, l)
             /\ v[<<SlotOf(p, l)>>] = Gathered(given[p], l, growing)
  <2>1. <<SlotOf(p, l)>> \in DOMAIN v /\ to(<<SlotOf(p, l)>>) = UnpackedAt(p, l)
    BY <1>2, <1>3 DEF UnpackedAt
  <2>2. SlotOf(p, l).key = Named(p) /\ SlotOf(p, l).label = l
    BY DEF SlotOf
  <2>3. v[<<SlotOf(p, l)>>] = Gathered(Flat[Named(p)], l, growing)
    BY <2>1, <2>2 DEF SlotValue
  <2> QED
    BY <2>1, <2>3, FlatIs
<1> HIDE DEF v, to
<1>5. ASSUME NEW k
      PROVE  k \in D <=> \E p \in P : \E l \in Slots(given[p]) : k = UnpackedAt(p, l)
  <2>1. ASSUME k \in D PROVE \E p \in P : \E l \in Slots(given[p]) : k = UnpackedAt(p, l)
    <3>1. PICK j \in DOMAIN v : k = to(j)
      BY <2>1
    <3>2. PICK p \in P : \E l \in Slots(given[p]) : j = <<SlotOf(p, l)>>
      BY <1>3
    <3> QED
      BY <1>4, <3>1, <3>2
  <2>2. ASSUME NEW p \in P, NEW l \in Slots(given[p]), k = UnpackedAt(p, l) PROVE k \in D
    BY <1>4, <2>2
  <2> QED
    BY <2>1, <2>2
<1>6. ASSUME NEW p \in P, NEW l \in Slots(given[p])
      PROVE  Unpacked(v)[UnpackedAt(p, l)] = Gathered(given[p], l, growing)
  <2>1. UnpackedAt(p, l) \in D
    BY <1>5
  <2>2. PICK k \in DOMAIN v : /\ k = (CHOOSE j \in DOMAIN v : to(j) = UnpackedAt(p, l))
                              /\ to(k) = UnpackedAt(p, l)
    BY <1>4
  <2>3. PICK q \in P : \E m \in Slots(given[q]) : k = <<SlotOf(q, m)>>
    BY <1>3
  <2>4. PICK m \in Slots(given[q]) : k = <<SlotOf(q, m)>>
    BY <2>3
  <2>5. q = p /\ m = l
    BY <1>4, <2>2, <2>4, UnpackedApart
  <2>6. Unpacked(v)[UnpackedAt(p, l)] = v[k]
    BY <1>1, <2>1, <2>2
  <2> QED
    BY <1>4, <2>4, <2>5, <2>6
<1>7. DOMAIN Unpacked(v) = D
  BY <1>1
<1> HIDE DEF D
<1>8. \A k : k \in DOMAIN Unpacked(v) <=>
               \E p \in P : \E l \in Slots(given[p]) : k = UnpackedAt(p, l)
  BY <1>5, <1>7
<1> QED
  BY <1>6, <1>8 DEF v

-----------------------------------------------------------------------------
(* The outputs *)

\* Where _Nested puts a slot.
Place(p, l) == p \o Tail(UnpackedAt(p, l))

LEMMA PlaceIs ==
    ASSUME given \in Givens, NEW p \in Hists, NEW l
    PROVE  /\ Whole(l) => Place(p, l) = p
           /\ ~Whole(l) => Place(p, l) = p \o <<Plain(<<l>>)>>
<1>1. p \in Seq(Keys)
  BY GivenIs
<1>2. p \o <<>> = p
  BY <1>1, ConcatEmptySeq
<1> QED
  BY <1>2, HeadOfUnpacked DEF Place

\* A path with something behind it is none of the others, as no path is another's prefix.
LEMMA LongerApart ==
    ASSUME given \in Givens, NEW p \in Hists, NEW q \in Hists, NEW x
    PROVE  p # q \o <<x>>
<1> SUFFICES ASSUME p = q \o <<x>> PROVE FALSE
  OBVIOUS
<1> DEFINE S == Keys \cup {x}
<1>1. q \in Seq(Keys)
  BY GivenIs
<1>2. q \in Seq(S) /\ <<x>> \in Seq(S) /\ Len(<<x>>) = 1
  BY <1>1
<1> HIDE DEF S
<1> DEFINE t == <<x>>
<1>3. t \in Seq(S) /\ Len(t) = 1
  BY <1>2
<1> HIDE DEF t
<1>4. /\ p \in Seq(S) /\ Len(p) = Len(q) + 1
      /\ \A i \in 1 .. Len(q) : p[i] = q[i]
  <2>1. p = q \o t
    BY DEF t
  <2>2. Len(q) \in Nat
    BY <1>2, LenProperties
  <2>3. /\ q \o t \in Seq(S) /\ Len(q \o t) = Len(q) + Len(t)
        /\ \A i \in 1 .. Len(q) + Len(t) :
              (q \o t)[i] = IF i <= Len(q) THEN q[i] ELSE t[i - Len(q)]
    BY <1>2, <1>3, ConcatProperties
  <2> QED
    BY <1>3, <2>1, <2>2, <2>3
<1>5. Len(q) \in Nat
  BY <1>2, LenProperties
<1>6. SubSeq(q, 1, Len(q)) = SubSeq(p, 1, Len(q))
  <2>1. \A i \in 1 .. Len(q) : q[i] \in S /\ p[i] \in S
    BY <1>2, <1>4, <1>5, ElementOfSeq
  <2> DEFINE a == SubSeq(q, 1, Len(q))
             b == SubSeq(p, 1, Len(q))
  <2>2. /\ a \in Seq(S) /\ Len(a) = Len(q) /\ \A i \in 1 .. Len(q) : a[i] = q[i]
    BY <1>5, <2>1, SubSeqProperties
  <2>3. /\ b \in Seq(S) /\ Len(b) = Len(q) /\ \A i \in 1 .. Len(q) : b[i] = p[i]
    BY <1>5, <2>1, SubSeqProperties
  <2> HIDE DEF a, b
  <2>4. a = b
    BY <1>4, <2>2, <2>3, SeqEqual
  <2> QED
    BY <2>4 DEF a, b
<1>7. IsStrictPrefix(q, p)
  BY <1>4, <1>5, <1>6 DEF IsStrictPrefix, IsPrefix
<1> QED
  BY <1>7, GivenIs

LEMMA SnocApart ==
    ASSUME NEW S, NEW p \in Seq(S), NEW q \in Seq(S), NEW x, NEW y,
           p \o <<x>> = q \o <<y>>
    PROVE  p = q /\ x = y
<1> DEFINE T == S \cup {x, y}
<1>1. p \in Seq(T) /\ q \in Seq(T) /\ x \in T /\ y \in T
  OBVIOUS
<1> HIDE DEF T
<1>2. p \o <<x>> = Append(p, x) /\ q \o <<y>> = Append(q, y)
  BY <1>1, AppendIsConcat
<1>3. Append(p, x) = Append(q, y)
  BY <1>2
<1> QED
  BY <1>1, <1>3, AppendInjective

LEMMA PlaceApart ==
    ASSUME given \in Givens, NEW p \in Hists, NEW q \in Hists,
           NEW l \in Slots(given[p]), NEW m \in Slots(given[q]), Place(p, l) = Place(q, m)
    PROVE  p = q /\ l = m
<1>1. CASE Whole(l) /\ Whole(m)
  <2>2. Place(p, l) = p
    BY <1>1, PlaceIs
  <2>3. Place(q, m) = q
    BY <1>1, PlaceIs
  <2>1. p = q
    BY <2>2, <2>3
  <2> QED
    BY <1>1, <2>1, SlotsKnown
<1>2. CASE ~Whole(l) /\ ~Whole(m)
  <2>1. p \o <<Plain(<<l>>)>> = q \o <<Plain(<<m>>)>>
    BY <1>2, PlaceIs
  <2>2. p \in Seq(Keys) /\ q \in Seq(Keys)
    BY GivenIs
  <2>3. p = q /\ Plain(<<l>>) = Plain(<<m>>)
    BY <2>1, <2>2, SnocApart
  <2>4. <<l>> = <<m>>
    BY <2>3, PlainApart
  <2> QED
    BY <2>3, <2>4
<1>3. CASE Whole(l) /\ ~Whole(m)
  <2>1. p = q \o <<Plain(<<m>>)>>
    BY <1>3, PlaceIs
  <2> QED
    BY <2>1, LongerApart
<1>4. CASE ~Whole(l) /\ Whole(m)
  <2>1. q = p \o <<Plain(<<l>>)>>
    BY <1>4, PlaceIs
  <2> QED
    BY <2>1, LongerApart
<1> QED
  BY <1>1, <1>2, <1>3, <1>4

\* _Nested puts each slot of the outputs at its place.
LEMMA NestedIs ==
    ASSUME given \in Givens, Distinct, NEW P \in SUBSET Hists, NEW growing
    PROVE  LET u == Nested(SlotValue(P, growing))
           IN /\ \A k : k \in DOMAIN u <=>
                          \E p \in P : \E l \in Slots(given[p]) : k = Place(p, l)
              /\ \A p \in P : \A l \in Slots(given[p]) :
                    u[Place(p, l)] = Gathered(given[p], l, growing)
<1> DEFINE results == Unpacked(SlotValue(P, growing))
           of(p) == {r \in DOMAIN results : Head(r).key = Named(p)}
           places == UNION {{<<p, r>> : r \in of(p)} : p \in Hists}
           put(x) == Result(x[1], Tail(x[2]))
           D == {Result(x[1], Tail(x[2])) : x \in places}
           u == Nested(SlotValue(P, growing))
<1>1. u = [q \in D |-> LET x == CHOOSE y \in places : put(y) = q IN results[x[2]]]
  BY DEF Nested
<1>2. ASSUME NEW k
      PROVE  k \in DOMAIN results <=>
                \E p \in P : \E l \in Slots(given[p]) : k = UnpackedAt(p, l)
  BY UnpackedIs
<1>3. ASSUME NEW p \in P, NEW l \in Slots(given[p])
      PROVE  results[UnpackedAt(p, l)] = Gathered(given[p], l, growing)
  BY UnpackedIs
<1> HIDE DEF results
<1>4. ASSUME NEW x
      PROVE  x \in places <=> \E p \in P : \E l \in Slots(given[p]) : x = <<p, UnpackedAt(p, l)>>
  <2>1. ASSUME x \in places
        PROVE  \E p \in P : \E l \in Slots(given[p]) : x = <<p, UnpackedAt(p, l)>>
    <3>1. PICK q \in Hists : \E r \in of(q) : x = <<q, r>>
      BY <2>1
    <3>2. PICK r \in DOMAIN results : Head(r).key = Named(q) /\ x = <<q, r>>
      BY <3>1
    <3>3. PICK p \in P : \E l \in Slots(given[p]) : r = UnpackedAt(p, l)
      BY <1>2
    <3>4. Named(p) = Named(q)
      BY <3>2, <3>3, HeadOfUnpacked
    <3>5. p = q
      BY <3>4 DEF Distinct
    <3> QED
      BY <3>2, <3>3, <3>5
  <2>2. ASSUME NEW p \in P, NEW l \in Slots(given[p]), x = <<p, UnpackedAt(p, l)>>
        PROVE  x \in places
    <3>1. UnpackedAt(p, l) \in DOMAIN results /\ Head(UnpackedAt(p, l)).key = Named(p)
      BY <1>2, HeadOfUnpacked
    <3>2. UnpackedAt(p, l) \in of(p)
      BY <3>1
    <3> QED
      BY <2>2, <3>2
  <2> QED
    BY <2>1, <2>2
<1> HIDE DEF places
<1>5. ASSUME NEW p \in P, NEW l \in Slots(given[p])
      PROVE  <<p, UnpackedAt(p, l)>> \in places /\ put(<<p, UnpackedAt(p, l)>>) = Place(p, l)
  BY <1>4 DEF Result, Place
<1> HIDE DEF put
<1>6. D = {put(x) : x \in places}
  BY DEF put
<1> HIDE DEF D
<1>7. ASSUME NEW k
      PROVE  k \in D <=> \E p \in P : \E l \in Slots(given[p]) : k = Place(p, l)
  <2>1. ASSUME k \in D PROVE \E p \in P : \E l \in Slots(given[p]) : k = Place(p, l)
    <3>1. PICK x \in places : k = put(x)
      BY <1>6, <2>1
    <3>2. PICK p \in P : \E l \in Slots(given[p]) : x = <<p, UnpackedAt(p, l)>>
      BY <1>4
    <3> QED
      BY <1>5, <3>1, <3>2
  <2>2. ASSUME NEW p \in P, NEW l \in Slots(given[p]), k = Place(p, l) PROVE k \in D
    BY <1>5, <1>6, <2>2
  <2> QED
    BY <2>1, <2>2
<1>8. ASSUME NEW p \in P, NEW l \in Slots(given[p])
      PROVE  u[Place(p, l)] = Gathered(given[p], l, growing)
  <2>1. PICK x \in places : /\ x = (CHOOSE y \in places : put(y) = Place(p, l))
                            /\ put(x) = Place(p, l)
    BY <1>5
  <2>2. PICK q \in P : \E m \in Slots(given[q]) : x = <<q, UnpackedAt(q, m)>>
    BY <1>4
  <2>3. PICK m \in Slots(given[q]) : x = <<q, UnpackedAt(q, m)>>
    BY <2>2
  <2>4. q = p /\ m = l
    BY <1>5, <2>1, <2>3, PlaceApart
  <2>5. Place(p, l) \in D
    BY <1>7
  <2>6. u[Place(p, l)] = results[x[2]]
    BY <1>1, <2>1, <2>5
  <2> QED
    BY <1>3, <2>3, <2>4, <2>6
<1>9. DOMAIN u = D
  BY <1>1
<1> HIDE DEF u
<1>10. \A k : k \in DOMAIN u <=> \E p \in P : \E l \in Slots(given[p]) : k = Place(p, l)
  BY <1>7, <1>9
<1> QED
  BY <1>8, <1>10 DEF u

-----------------------------------------------------------------------------
(* The spec of a histogram *)

\* An axis that loses nothing comes back as it went in, by a release that knows its options.
LEMMA AxisComesBack ==
    ASSUME NEW a, IsAxis(a), ~Lost(a), NEW growing \in BOOLEAN,
           growing \/ "growth" \notin a.traits
    PROVE  MakeAxis(IF growing THEN Encoded(a)
                    ELSE [Encoded(a) EXCEPT !.options = @ \ {"growth"}])
             = [a EXCEPT !.attrs = Metadata(@)]
<1> DEFINE e == Encoded(a)
           f == IF growing THEN e ELSE [e EXCEPT !.options = @ \ {"growth"}]
<1>1. e.options \subseteq a.traits
  BY DEF Encoded
<1>2. e = [type |-> e.type, bins |-> e.bins, metadata |-> e.metadata, options |-> e.options]
      /\ e.type = a.type /\ e.bins = a.bins /\ e.metadata = Metadata(a.attrs)
  BY DEF Encoded
<1> HIDE DEF e
<1>3. f = e
  <2>1. CASE growing
    BY <2>1
  <2>2. CASE ~growing
    <3>1. e.options \ {"growth"} = e.options
      BY <1>1, <2>2
    <3> QED
      BY <1>2, <2>2, <3>1
  <2> QED
    BY <2>1, <2>2
<1>4. a.transform = FALSE /\ MakeAxis(e).traits = a.traits
  BY DEF Lost, IsAxis, e
<1>5. MakeAxis(e) = [type |-> a.type, bins |-> a.bins, transform |-> FALSE,
                     attrs |-> Metadata(a.attrs), traits |-> MakeAxis(e).traits]
  BY <1>2 DEF MakeAxis
<1>6. a = [type |-> a.type, bins |-> a.bins, traits |-> a.traits, transform |-> a.transform,
           attrs |-> a.attrs]
  BY DEF IsAxis
<1>7. [a EXCEPT !.attrs = Metadata(@)]
        = [type |-> a.type, bins |-> a.bins, traits |-> a.traits, transform |-> a.transform,
           attrs |-> Metadata(a.attrs)]
  BY <1>6
<1> QED
  BY <1>3, <1>4, <1>5, <1>7 DEF e

\* What went in, with its attributes as strings.
Cleaned(h) ==
    [storage |-> h.storage,
     axes |-> [i \in DOMAIN h.axes |-> [h.axes[i] EXCEPT !.attrs = Metadata(@)]]]

LEMMA SpecComesBack ==
    ASSUME NEW h, \A i \in DOMAIN h.axes : IsAxis(h.axes[i]), Carries(h),
           NEW growing \in BOOLEAN, Version(h) \in Knows(growing)
    PROVE  ZeroOf(SpecOf(h), growing) = Cleaned(h)
<1> DEFINE z(i) == MakeAxis(IF growing THEN Encoded(h.axes[i])
                            ELSE [Encoded(h.axes[i]) EXCEPT !.options = @ \ {"growth"}])
           c(i) == [h.axes[i] EXCEPT !.attrs = Metadata(@)]
<1>1. ASSUME NEW i \in DOMAIN h.axes PROVE z(i) = c(i)
  <2>1. growing \/ "growth" \notin h.axes[i].traits
    BY DEF Version, Knows
  <2>2. ~Lost(h.axes[i])
    BY DEF Carries
  <2> QED
    BY <2>1, <2>2, AxisComesBack
<1>2. ZeroOf(SpecOf(h), growing)
        = [storage |-> h.storage, axes |-> [i \in DOMAIN h.axes |-> z(i)]]
  <2> DEFINE s == [version |-> Version(h), storage |-> h.storage,
                   axes |-> [i \in DOMAIN h.axes |-> Encoded(h.axes[i])]]
  <2>1. SpecOf(h) = s
    BY DEF SpecOf
  <2>2. /\ s.storage = h.storage /\ DOMAIN s.axes = DOMAIN h.axes
        /\ \A i \in DOMAIN h.axes : s.axes[i] = Encoded(h.axes[i])
    OBVIOUS
  <2> HIDE DEF s
  <2> QED
    BY <2>1, <2>2 DEF ZeroOf
<1> HIDE DEF z, c
<1>3. [i \in DOMAIN h.axes |-> z(i)] = [i \in DOMAIN h.axes |-> c(i)]
  BY <1>1
<1> QED
  BY <1>2, <1>3 DEF Cleaned, c

-----------------------------------------------------------------------------
(* The invariant *)

RunValue(tasks, growing) ==
    IF Cardinality(Groups) < 2 THEN SessionValue(CHOOSE s \in Groups : TRUE, growing)
    ELSE CollatedValue(tasks, growing)
\* A run's value is one that workers of some release gave it.
ValueIs ==
    phase = "ran" => \E growing \in BOOLEAN :
        /\ \A p \in Hists : Version(given[p].hist) \in Knows(growing)
        /\ value = RunValue(withTasks, growing)

Inv ==
    /\ given \in Givens /\ \A p \in Hists : Carries(given[p].hist)
    /\ phase \in {"planned", "ran"} => Refusals = {}
    /\ ValueIs /\ NestingComesBack /\ Carried

LEMMA RefusalsLeave ==
    ASSUME Refusals = {}
    PROVE  /\ Distinct /\ Hists # {}
           /\ Served # {} => ~(Cardinality(Groups) > 1) /\ \A p \in Hists : Len(p) = 1
<1>1. LeafErrors = {}
  BY DEF Refusals
<1>2. ~(\E p, q \in Hists : Clash(p, q))
  BY <1>1 DEF Refusals
<1>3. ~(Served # {} /\ (Cardinality(Groups) > 1 \/ \E p \in Hists : Len(p) # 1))
  BY <1>1, <1>2 DEF Refusals
<1>4. ManySessions = {} \/ Served # {}
  BY <1>1, <1>2, <1>3 DEF Refusals
<1>5. Hists # {}
  BY <1>1, <1>2, <1>3, <1>4 DEF Refusals
<1>6. Distinct
  BY <1>2 DEF Distinct, Clash
<1> QED
  BY <1>3, <1>5, <1>6

LEMMA GroupsAre ==
    ASSUME given \in Givens
    PROVE  /\ IsFiniteSet(Groups) /\ Cardinality(Groups) \in Nat
           /\ Hists # {} /\ Cardinality(Groups) < 2 =>
                InSession(CHOOSE s \in Groups : TRUE) = Hists
<1>1. IsFiniteSet(Hists)
  BY GivenIs, FS_Subset DEF Hists
<1>2. IsFiniteSet(Groups) /\ Cardinality(Groups) \in Nat
  <2> DEFINE f == [p \in Hists |-> given[p].session]
  <2>1. Groups = {f[p] : p \in Hists}
    BY DEF Groups
  <2>2. f \in Surjection(Hists, Groups)
    BY <2>1 DEF Surjection
  <2> QED
    BY <1>1, <2>2, FS_Surjection, FS_CardinalityType
<1>3. ASSUME Hists # {}, Cardinality(Groups) < 2
      PROVE  InSession(CHOOSE s \in Groups : TRUE) = Hists
  <2>1. Groups # {}
    BY <1>3 DEF Groups
  <2>2. Cardinality(Groups) = 1
    BY <1>2, <1>3, <2>1, FS_EmptySet
  <2>3. PICK s : Groups = {s}
    BY <1>2, <2>2, FS_Singleton
  <2>4. (CHOOSE x \in Groups : TRUE) = s
    BY <2>3
  <2>5. \A p \in Hists : given[p].session = s
    BY <2>3 DEF Groups
  <2> QED
    BY <2>4, <2>5 DEF InSession
<1> QED
  BY <1>2, <1>3

\* The outputs have the slots of the histograms that are present, each at its place: under
\* its name where a slot is served.
Put(p, l) == IF Served # {} THEN UnpackedAt(p, l) ELSE Place(p, l)
Outputs(v) ==
    IF Served # {} THEN Unpacked(v)
    ELSE IF Cardinality(Groups) < 2 THEN Nested(v) ELSE Nested(Slotted(v))
There(tasks) == {p \in Hists : Cardinality(Groups) < 2 \/ given[p].session \in tasks}

LEMMA OutputsAre ==
    ASSUME given \in Givens, Refusals = {}, NEW tasks, NEW growing
    PROVE  LET o == Outputs(RunValue(tasks, growing))
           IN /\ \A k : k \in DOMAIN o <=>
                          \E p \in There(tasks) : \E l \in Slots(given[p]) : k = Put(p, l)
              /\ \A p \in There(tasks) : \A l \in Slots(given[p]) :
                    o[Put(p, l)] = Gathered(given[p], l, growing)
<1> DEFINE P == There(tasks)
<1>1. Distinct /\ Hists # {}
  BY RefusalsLeave
<1>2. P \in SUBSET Hists
  BY DEF There
<1>3. CASE Cardinality(Groups) < 2
  <2>1. InSession(CHOOSE s \in Groups : TRUE) = Hists
    BY <1>1, <1>3, GroupsAre
  <2>2. P = Hists
    BY <1>3 DEF There
  <2>3. RunValue(tasks, growing) = SlotValue(P, growing)
    BY <1>1, <1>3, <2>1, <2>2, SessionIs DEF RunValue
  <2> HIDE DEF P
  <2>4. CASE Served # {}
    BY <1>1, <1>2, <2>3, <2>4, UnpackedIs DEF Outputs, Put, P
  <2>5. CASE Served = {}
    BY <1>1, <1>2, <1>3, <2>3, <2>5, NestedIs DEF Outputs, Put, P
  <2> QED
    BY <2>4, <2>5
<1>4. CASE ~(Cardinality(Groups) < 2)
  <2>1. Cardinality(Groups) > 1
    BY <1>4, GroupsAre
  <2>2. Served = {}
    BY <2>1, RefusalsLeave
  <2>3. P = InSessions(tasks)
    BY <1>4 DEF There, InSessions
  <2>4. Slotted(RunValue(tasks, growing)) = SlotValue(P, growing)
    BY <1>1, <1>4, <2>3, CollatedIs DEF RunValue
  <2>5. Outputs(RunValue(tasks, growing)) = Nested(SlotValue(P, growing))
    BY <1>4, <2>2, <2>4 DEF Outputs
  <2>6. \A p, l : Put(p, l) = Place(p, l)
    BY <2>2 DEF Put
  <2> DEFINE u == Nested(SlotValue(P, growing))
  <2>7. /\ \A k : k \in DOMAIN u <=>
                     \E p \in P : \E l \in Slots(given[p]) : k = Place(p, l)
        /\ \A p \in P : \A l \in Slots(given[p]) :
              u[Place(p, l)] = Gathered(given[p], l, growing)
    BY <1>1, <1>2, NestedIs
  <2> HIDE DEF u
  <2> QED
    BY <2>5, <2>6, <2>7 DEF u
<1> QED
  BY <1>3, <1>4

\* Where the property looks for a slot.
Wanted(p) == IF given[p].axis \/ given[p].labels = {Nominal} THEN {Bare} ELSE given[p].labels
WantedAt(p, l) == IF l = Bare THEN At(p) ELSE At(p) \o <<Plain(<<l>>)>>

Back(P) ==
    /\ DOMAIN out = UNION {{WantedAt(p, l) : l \in Wanted(p)} : p \in P}
    /\ \A p \in P : \A l \in Wanted(p) :
         /\ out[WantedAt(p, l)].id = given[p].id
         /\ l # Bare => out[WantedAt(p, l)].label = l

LEMMA NestingIs == NestingComesBack <=> (phase = "done" => Back({p \in Hists : Present(p)}))
  BY DEF NestingComesBack, Back, Wanted, WantedAt

LEMMA WantedIs ==
    ASSUME given \in Givens, NEW p \in Hists
    PROVE  /\ \A l \in Slots(given[p]) :
                \E w \in Wanted(p) : WantedAt(p, w) = Put(p, l) /\ (w # Bare => w = l)
           /\ \A w \in Wanted(p) :
                \E l \in Slots(given[p]) : WantedAt(p, w) = Put(p, l) /\ (w # Bare => w = l)
<1>1. ASSUME NEW l, Whole(l) PROVE Put(p, l) = WantedAt(p, Bare)
  BY <1>1, UnpackedAtIs, PlaceIs DEF Put, WantedAt, At
<1>2. ASSUME NEW l, ~Whole(l) PROVE Put(p, l) = WantedAt(p, l)
  <2>1. l # Bare
    BY <1>2 DEF Whole
  <2>2. CASE Served # {}
    BY <1>2, <2>1, <2>2, UnpackedAtIs, Pairs DEF Put, WantedAt, At
  <2>3. CASE Served = {}
    BY <1>2, <2>1, <2>3, PlaceIs DEF Put, WantedAt, At
  <2> QED
    BY <2>2, <2>3
<1>3. CASE given[p].axis \/ given[p].labels = {Nominal}
  <2>1. Wanted(p) = {Bare} /\ \A l \in Slots(given[p]) : Whole(l)
    BY <1>3 DEF Wanted, Slots, Whole
  <2>2. \E l : l \in Slots(given[p])
    BY <1>3 DEF Slots
  <2> QED
    BY <1>1, <2>1, <2>2
<1>4. CASE ~(given[p].axis \/ given[p].labels = {Nominal})
  <2>1. Wanted(p) = given[p].labels /\ Slots(given[p]) = given[p].labels
    BY <1>4 DEF Wanted, Slots
  <2>2. \A l \in given[p].labels : ~Whole(l)
    BY GivenIs DEF Whole
  <2> QED
    BY <1>2, <2>1, <2>2
<1> QED
  BY <1>3, <1>4

-----------------------------------------------------------------------------
(* The steps *)

LEMMA InitInv == Init => Inv
<1> SUFFICES ASSUME Init PROVE Inv
  OBVIOUS
<1>1. given \in Givens /\ phase = "given" /\ out = <<>>
  BY DEF Init
<1>2. \A p \in Hists : Carries(given[p].hist)
  BY DEF Init, Hists
<1> QED
  BY <1>1, <1>2 DEF Inv, ValueIs, NestingComesBack, Carried

\* What a run of the same plan gives.
LEMMA SameValue ==
    ASSUME given' = given, NEW tasks, NEW growing
    PROVE  RunValue(tasks, growing)' = RunValue(tasks, growing)
<1>1. Flat' = Flat /\ Groups' = Groups
  BY DEF Flat, Groups, Hists
<1>2. ASSUME NEW s PROVE SessionValue(s, growing)' = SessionValue(s, growing)
  BY <1>1 DEF SessionValue
<1>3. (CHOOSE s \in Groups : TRUE)' = (CHOOSE s \in Groups : TRUE)
  BY <1>1
<1>4. CollatedValue(tasks, growing)' = CollatedValue(tasks, growing)
  BY <1>1, <1>2 DEF CollatedValue
<1>5. SessionValue(CHOOSE s \in Groups : TRUE, growing)'
        = SessionValue(CHOOSE s \in Groups : TRUE, growing)
  BY <1>1 DEF SessionValue
<1> QED
  BY <1>1, <1>4, <1>5 DEF RunValue

\* What Finalize gives comes back where it went in, as it went in.
LEMMA FinalizeKeeps == ASSUME Inv, Finalize PROVE Inv'
<1>1. /\ phase = "ran" /\ phase' = "done" /\ out' = Outputs(value)
      /\ UNCHANGED <<given, partitions, said, withTasks, value>>
  BY DEF Finalize, Outputs
<1>2. given \in Givens /\ Refusals = {} /\ Hists' = Hists /\ Groups' = Groups
  BY <1>1 DEF Inv, Hists, Groups
<1>3. PICK growing \in BOOLEAN :
        /\ \A p \in Hists : Version(given[p].hist) \in Knows(growing)
        /\ value = RunValue(withTasks, growing)
  BY <1>1 DEF Inv, ValueIs
<1> DEFINE P == There(withTasks)
<1>4. /\ \A k : k \in DOMAIN out' <=>
                  \E p \in P : \E l \in Slots(given[p]) : k = Put(p, l)
      /\ \A p \in P : \A l \in Slots(given[p]) :
            out'[Put(p, l)] = Gathered(given[p], l, growing)
  BY <1>1, <1>2, <1>3, OutputsAre
<1>5. P \subseteq Hists /\ P = {p \in Hists : Present(p)}
  BY DEF There, Present
<1>6. ASSUME NEW p, NEW l
      PROVE  /\ Gathered(given[p], l, growing).id = given[p].id
             /\ Gathered(given[p], l, growing).label = l
             /\ Gathered(given[p], l, growing).hist = ZeroOf(SpecOf(given[p].hist), growing)
  BY DEF Gathered
<1>7. P' = P /\ \A p : Wanted(p)' = Wanted(p) /\ \A l : WantedAt(p, l)' = WantedAt(p, l)
  BY <1>1, <1>2 DEF There, Wanted, WantedAt, At, Served
<1> HIDE DEF P
<1>8. NestingComesBack'
  <2>1. DOMAIN out' = UNION {{WantedAt(p, w) : w \in Wanted(p)} : p \in P}
    <3>1. ASSUME NEW k
          PROVE  k \in DOMAIN out' <=> \E p \in P : \E w \in Wanted(p) : k = WantedAt(p, w)
      <4>1. ASSUME k \in DOMAIN out'
            PROVE  \E p \in P : \E w \in Wanted(p) : k = WantedAt(p, w)
        <5>1. PICK p \in P : \E l \in Slots(given[p]) : k = Put(p, l)
          BY <1>4, <4>1
        <5> QED
          BY <1>2, <1>5, <5>1, WantedIs
      <4>2. ASSUME NEW p \in P, NEW w \in Wanted(p), k = WantedAt(p, w)
            PROVE  k \in DOMAIN out'
        <5>1. PICK l \in Slots(given[p]) : WantedAt(p, w) = Put(p, l)
          BY <1>2, <1>5, WantedIs
        <5> QED
          BY <1>4, <4>2, <5>1
      <4> QED
        BY <4>1, <4>2
    <3> DEFINE A == DOMAIN out'
               B == UNION {{WantedAt(p, w) : w \in Wanted(p)} : p \in P}
    <3>2. \A k : k \in B <=> \E p \in P : \E w \in Wanted(p) : k = WantedAt(p, w)
      OBVIOUS
    <3> HIDE DEF B
    <3>3. \A k : k \in A <=> k \in B
      BY <3>1, <3>2
    <3> HIDE DEF A
    <3>4. A = B
      BY <3>3
    <3> QED
      BY <3>4 DEF A, B
  <2>2. ASSUME NEW p \in P, NEW w \in Wanted(p)
        PROVE  /\ out'[WantedAt(p, w)].id = given[p].id
               /\ w # Bare => out'[WantedAt(p, w)].label = w
    <3>1. PICK l \in Slots(given[p]) : WantedAt(p, w) = Put(p, l) /\ (w # Bare => w = l)
      BY <1>2, <1>5, WantedIs
    <3>2. out'[WantedAt(p, w)] = Gathered(given[p], l, growing)
      BY <1>4, <3>1
    <3> QED
      BY <1>6, <3>1, <3>2
  <2>3. (NestingComesBack <=> (phase = "done" => Back({p \in Hists : Present(p)})))'
    BY DEF NestingComesBack, Back, Wanted, WantedAt
  <2>4. {p \in Hists : Present(p)}' = P
    BY <1>1, <1>2, <1>5 DEF Present
  <2> QED
    BY <1>1, <1>7, <2>1, <2>2, <2>3, <2>4 DEF Back
<1>9. Carried'
  <2>1. ASSUME NEW q \in DOMAIN out', NEW p \in Hists, out'[q].id = given[p].id
        PROVE  out'[q].hist = Cleaned(given[p].hist)
    <3>1. PICK r \in P : \E l \in Slots(given[r]) : q = Put(r, l)
      BY <1>4
    <3>2. PICK l \in Slots(given[r]) : q = Put(r, l)
      BY <3>1
    <3>3. out'[q] = Gathered(given[r], l, growing)
      BY <1>4, <3>2
    <3>4. given[r].id = given[p].id
      BY <1>6, <2>1, <3>3
    <3>5. r \in Hists /\ given[r].hist = given[p].hist
      BY <1>2, <1>5, <3>4, GivenIs
    <3>6. \A i \in DOMAIN given[r].hist.axes : IsAxis(given[r].hist.axes[i])
      BY <1>2, <3>5, GivenIs
    <3>7. Carries(given[r].hist) /\ Version(given[r].hist) \in Knows(growing)
      BY <1>3, <3>5 DEF Inv
    <3>8. ZeroOf(SpecOf(given[r].hist), growing) = Cleaned(given[r].hist)
      BY <3>6, <3>7, SpecComesBack
    <3> QED
      BY <1>6, <3>3, <3>5, <3>8
  <2> QED
    BY <1>1, <1>2, <2>1 DEF Carried, Cleaned
<1>10. (\A p \in Hists : Carries(given[p].hist))'
  BY <1>1, <1>2 DEF Inv
<1> QED
  BY <1>1, <1>2, <1>8, <1>9, <1>10 DEF Inv, ValueIs

LEMMA NextInv == Inv /\ [Next]_vars => Inv'
<1> SUFFICES ASSUME Inv, [Next]_vars PROVE Inv'
  OBVIOUS
<1>1. ASSUME UNCHANGED <<given, partitions, phase, said, withTasks, value, out>> PROVE Inv'
  <2>1. /\ Hists' = Hists /\ Refusals' = Refusals /\ Served' = Served /\ Groups' = Groups
        /\ given' = given /\ phase' = phase /\ out' = out /\ withTasks' = withTasks
    BY <1>1 DEF Hists, Refusals, LeafErrors, Clash, Served, Groups, ManySessions
  <2>2. ASSUME NEW growing PROVE RunValue(withTasks, growing)' = RunValue(withTasks, growing)
    <3>1. PICK t : t = withTasks
      OBVIOUS
    <3>2. RunValue(t, growing)' = RunValue(t, growing)
      BY <2>1, SameValue
    <3>3. RunValue(withTasks, growing)' = RunValue(t, growing)'
      BY <2>1, <3>1 DEF RunValue, CollatedValue
    <3> QED
      BY <3>1, <3>2, <3>3
  <2>3. ValueIs'
    BY <1>1, <2>1, <2>2 DEF Inv, ValueIs
  <2>4. Carried'
    BY <2>1 DEF Inv, Carried
  <2>5. NestingComesBack'
    <3>1. {p \in Hists : Present(p)}' = {p \in Hists : Present(p)}
      BY <2>1 DEF Present
    <3>2. \A p : Wanted(p)' = Wanted(p) /\ \A l : WantedAt(p, l)' = WantedAt(p, l)
      BY <2>1 DEF Wanted, WantedAt, At
    <3>3. (NestingComesBack <=> (phase = "done" => Back({p \in Hists : Present(p)})))'
      BY DEF NestingComesBack, Back, Wanted, WantedAt
    <3>4. Back({p \in Hists : Present(p)})' <=> Back({p \in Hists : Present(p)})
      <4> DEFINE P == {p \in Hists : Present(p)}
                 Places == UNION {{WantedAt(p, l) : l \in Wanted(p)} : p \in P}
                 Found == \A p \in P : \A l \in Wanted(p) :
                            /\ out[WantedAt(p, l)].id = given[p].id
                            /\ l # Bare => out[WantedAt(p, l)].label = l
      <4>1. P' = P
        BY <3>1
      <4>2. Places' = Places
        <5>1. \A x : x \in Places <=> \E p \in P : \E l \in Wanted(p) : x = WantedAt(p, l)
          OBVIOUS
        <5>2. \A x : x \in Places' <=> \E p \in P' : \E l \in Wanted(p)' : x = WantedAt(p, l)'
          OBVIOUS
        <5> HIDE DEF P, Places
        <5>3. \A x : x \in Places' <=> x \in Places
          BY <3>2, <4>1, <5>1, <5>2
        <5> QED
          BY <5>3
      <4>3. Found' <=> Found
        <5> HIDE DEF P
        <5> QED
          BY <2>1, <3>2, <4>1
      <4>4. Back(P) <=> DOMAIN out = Places /\ Found
        BY DEF Back
      <4>5. (Back(P) <=> DOMAIN out = Places /\ Found)'
        BY DEF Back
      <4> HIDE DEF P, Places, Found
      <4>6. Back(P)' <=> Back(P)
        BY <2>1, <4>2, <4>3, <4>4, <4>5
      <4> QED
        BY <4>6 DEF P
    <3> QED
      BY <2>1, <3>1, <3>2, <3>3, <3>4, NestingIs DEF Inv
  <2> QED
    BY <2>1, <2>3, <2>4, <2>5 DEF Inv
<1>2. ASSUME given' = given, partitions' = partitions
      PROVE  /\ Hists' = Hists /\ Refusals' = Refusals
             /\ (\A p \in Hists : Carries(given[p].hist))'
  <2>1. Hists' = Hists
    BY <1>2 DEF Hists
  <2>2. Served' = Served /\ Groups' = Groups /\ LeafErrors' = LeafErrors
    BY <1>2, <2>1 DEF Served, Groups, LeafErrors
  <2>3. Refusals' = Refusals
    BY <1>2, <2>1, <2>2 DEF Refusals, Clash, ManySessions
  <2> QED
    BY <1>2, <2>1, <2>3 DEF Inv
<1>3. ASSUME phase' # "done" PROVE NestingComesBack' /\ Carried'
  BY <1>3 DEF NestingComesBack, Carried
<1>4. CASE Plan
  <2>1. given' = given /\ partitions' = partitions /\ phase' \in {"planned", "refused"}
        /\ (phase' = "planned" => Refusals = {})
    BY <1>4 DEF Plan
  <2> QED
    BY <1>2, <1>3, <2>1 DEF Inv, ValueIs
<1>5. ASSUME NEW tasks \in SUBSET Sessions, NEW growing \in BOOLEAN, Run(tasks, growing)
      PROVE  Inv'
  <2>1. /\ given' = given /\ partitions' = partitions /\ phase = "planned" /\ phase' = "ran"
        /\ withTasks' = tasks /\ value' = RunValue(tasks, growing)
        /\ \A p \in Hists : Version(given[p].hist) \in Knows(growing)
    BY <1>5 DEF Run, RunValue
  <2>2. RunValue(tasks, growing)' = RunValue(tasks, growing)
    BY <2>1, SameValue
  <2>3. RunValue(withTasks, growing)' = RunValue(tasks, growing)
    BY <2>1, <2>2 DEF RunValue, CollatedValue
  <2>4. ValueIs'
    BY <1>2, <2>1, <2>3 DEF ValueIs
  <2> QED
    BY <1>2, <1>3, <2>1, <2>4 DEF Inv
<1>6. CASE RunFails
  BY <1>2, <1>3, <1>6 DEF RunFails, Inv, ValueIs
<1>7. CASE Finalize
  BY <1>7, FinalizeKeeps
<1> QED
  BY <1>1, <1>4, <1>5, <1>6, <1>7 DEF Next, vars

LEMMA SpecInv == Spec => []Inv
  BY InitInv, NextInv, PTL DEF Spec

-----------------------------------------------------------------------------
(* The nesting and the specs *)

\* Whatever nesting of histograms is planned, in one Session or several, comes back in that
\* nesting.
THEOREM NestingHolds == Spec => []NestingComesBack
  BY SpecInv, PTL DEF Inv

\* Whatever axes Histogram(...) accepts come back as they went in, from either release.
THEOREM SpecsAreCarried == Spec => []Carried
  BY SpecInv, PTL DEF Inv

-----------------------------------------------------------------------------
(* Plans bound and run again: runs and what their bindings hold *)

BindType ==
    [plan : Plans, made : BOOLEAN, live : BOOLEAN, taken : [Partitions -> Nat]]
RunType ==
    [bind : Nat, plan : Plans, status : {"running", "done", "failed", "stopped"},
     tasks : SUBSET Partitions, read : SUBSET (Plans \cup {Unset}),
     value : {<<>>} \cup [Partitions -> Nat]]

TypeInv ==
    /\ backed \in BOOLEAN /\ positions \in Plans \cup {Unset} /\ served \in BOOLEAN
    /\ pc \in [Plans -> {"new", "compiling", "built", "placing", "served", "refused"}]
    /\ binds \in Seq(BindType)
    /\ runs \in Seq(RunType)

\* What a run has of its binding: the partitions it shipped, once each.
RunInv(i) ==
    LET r == runs[i] IN
    /\ r.bind \in 1 .. Len(binds) /\ r.plan = binds[r.bind].plan
    /\ backed /\ r.tasks # {} => binds[r.bind].made
    /\ backed => \A p \in r.tasks : binds[r.bind].taken[p] = 1
    /\ r.status = "done" => r.value = [p \in Partitions |-> 1]

\* A histogram goes only with a run that ended, and a run fails only for another's end.
Ended(i) == i \in 1 .. Len(runs) /\ runs[i].status = "done"
GoneInv(k) ==
    backed /\ binds[k].made /\ ~binds[k].live => \E j : Ended(j) /\ runs[j].bind = k
FailInv(i) ==
    runs[i].status = "failed" => \E j : Ended(j) /\ j # i /\ runs[j].bind = runs[i].bind

RunsInv == \A i \in 1 .. Len(runs) : RunInv(i) /\ FailInv(i)
BindsInv == \A k \in 1 .. Len(binds) : GoneInv(k)

PiecesInv == TypeInv /\ RunsInv /\ BindsInv

LEMMA Facts ==
    ASSUME TypeInv
    PROVE  /\ DOMAIN runs = 1 .. Len(runs) /\ Len(runs) \in Nat
           /\ DOMAIN binds = 1 .. Len(binds) /\ Len(binds) \in Nat
           /\ \A i \in 1 .. Len(runs) : runs[i] \in RunType
           /\ \A k \in 1 .. Len(binds) : binds[k] \in BindType
BY DEF TypeInv

LEMMA PiecesInitInv == PiecesInit => PiecesInv
<1> SUFFICES ASSUME PiecesInit PROVE PiecesInv
  OBVIOUS
<1>1. binds = <<>> /\ runs = <<>> /\ Len(binds) = 0 /\ Len(runs) = 0
  BY DEF PiecesInit
<1>2. <<>> \in Seq(BindType) /\ <<>> \in Seq(RunType)
  BY EmptySeq
<1>3. TypeInv
  BY <1>1, <1>2 DEF PiecesInit, TypeInv
<1> QED
  BY <1>1, <1>3 DEF PiecesInv, RunsInv, BindsInv

\* Building plans changes no run.
LEMMA BuildKeeps ==
    ASSUME PiecesInv, NEW b \in Plans,
           CompileChecks(b) \/ CompileRecords(b) \/ ServeChecks(b) \/ ServePlaces(b) \/ GiveUp(b)
    PROVE  PiecesInv'
<1>1. UNCHANGED <<backed, binds, runs>>
  BY DEF CompileChecks, CompileRecords, ServeChecks, ServePlaces, GiveUp
<1>2. TypeInv'
  BY <1>1 DEF PiecesInv, TypeInv, CompileChecks, CompileRecords, ServeChecks, ServePlaces, GiveUp
<1> QED
  BY <1>1, <1>2 DEF PiecesInv, RunsInv, BindsInv, RunInv, FailInv, GoneInv, Ended

\* A new binding is none of the old ones.
LEMMA BindKeeps ==
    ASSUME PiecesInv, NEW b \in Plans, Bind(b)
    PROVE  PiecesInv'
<1>1. /\ binds' = Append(binds, Bound(b))
      /\ UNCHANGED <<backed, positions, served, pc, runs>>
  BY DEF Bind
<1>2. Bound(b) \in BindType /\ ~Bound(b).made
  BY DEF Bound, NoTasks, BindType
<1> DEFINE n == Len(binds)
<1>3. /\ n \in Nat /\ Len(binds') = n + 1 /\ binds' \in Seq(BindType)
      /\ \A k \in 1 .. n : binds'[k] = binds[k]
      /\ binds'[n + 1] = Bound(b)
  BY <1>1, <1>2, AppendProperties DEF PiecesInv, TypeInv
<1>4. TypeInv'
  BY <1>1, <1>3 DEF PiecesInv, TypeInv
<1>5. ASSUME NEW i \in 1 .. Len(runs') PROVE RunInv(i)' /\ FailInv(i)'
  <2>1. runs' = runs /\ backed' = backed /\ RunInv(i) /\ FailInv(i)
    BY <1>1 DEF PiecesInv, RunsInv
  <2>2. runs[i].bind \in 1 .. n
    BY <2>1 DEF RunInv
  <2>3. runs[i].bind \in 1 .. n + 1 /\ binds'[runs[i].bind] = binds[runs[i].bind]
    BY <1>3, <2>2
  <2> QED
    BY <1>3, <2>1, <2>3 DEF RunInv, FailInv, Ended
<1>6. ASSUME NEW k \in 1 .. Len(binds') PROVE GoneInv(k)'
  <2>1. CASE k \in 1 .. n
    BY <1>1, <1>3, <2>1 DEF PiecesInv, BindsInv, GoneInv, Ended
  <2>2. CASE k = n + 1
    BY <1>2, <1>3, <2>2 DEF GoneInv
  <2> QED
    BY <1>3, <2>1, <2>2
<1> QED
  BY <1>4, <1>5, <1>6 DEF PiecesInv, RunsInv, BindsInv

LEMMA StartKeeps ==
    ASSUME PiecesInv, NEW k \in DOMAIN binds, Start(k)
    PROVE  PiecesInv'
<1> DEFINE new == [bind |-> k, plan |-> binds[k].plan, status |-> "running",
                   tasks |-> {}, read |-> {}, value |-> <<>>]
           n == Len(runs)
<1>1. runs' = Append(runs, new) /\ UNCHANGED <<backed, positions, served, pc, binds>>
  BY DEF Start
<1>2. k \in 1 .. Len(binds) /\ k \in Nat /\ binds[k] \in BindType
  BY Facts DEF PiecesInv
<1>3. /\ new \in RunType /\ new.bind = k /\ new.plan = binds[k].plan
      /\ new.status = "running" /\ new.tasks = {}
  BY <1>2 DEF RunType, BindType
<1> HIDE DEF new
<1>4. /\ n \in Nat /\ Len(runs') = n + 1 /\ runs' \in Seq(RunType)
      /\ \A i \in 1 .. n : runs'[i] = runs[i]
      /\ runs'[n + 1] = new
  BY <1>1, <1>3, AppendProperties DEF PiecesInv, TypeInv
<1>5. TypeInv'
  BY <1>1, <1>4 DEF PiecesInv, TypeInv
<1>6. ASSUME NEW j, Ended(j) PROVE Ended(j)' /\ runs'[j] = runs[j]
  BY <1>4, <1>6 DEF Ended
<1>7. ASSUME NEW i \in 1 .. Len(runs') PROVE RunInv(i)' /\ FailInv(i)'
  <2>1. CASE i \in 1 .. n
    <3>1. runs'[i] = runs[i] /\ RunInv(i) /\ FailInv(i) /\ binds' = binds /\ backed' = backed
      BY <1>1, <1>4, <2>1 DEF PiecesInv, RunsInv
    <3>2. RunInv(i)'
      BY <3>1 DEF RunInv
    <3>3. FailInv(i)'
      BY <1>6, <3>1 DEF FailInv
    <3> QED
      BY <3>2, <3>3
  <2>2. CASE i = n + 1
    BY <1>1, <1>2, <1>3, <1>4, <2>2 DEF RunInv, FailInv
  <2> QED
    BY <1>4, <2>1, <2>2
<1>8. ASSUME NEW m \in 1 .. Len(binds') PROVE GoneInv(m)'
  <2>1. GoneInv(m) /\ binds' = binds /\ backed' = backed
    BY <1>1 DEF PiecesInv, BindsInv
  <2> QED
    BY <1>6, <2>1 DEF GoneInv
<1> QED
  BY <1>5, <1>7, <1>8 DEF PiecesInv, RunsInv, BindsInv

LEMMA TaskKeeps ==
    ASSUME PiecesInv, NEW i \in DOMAIN runs, NEW p \in Partitions, Task(i, p)
    PROVE  PiecesInv'
<1> DEFINE r == runs[i]
           k == r.bind
           home == IF binds[k].made THEN binds[k]
                   ELSE [binds[k] EXCEPT !.made = TRUE, !.live = TRUE]
           ok == ~backed \/ home.live
           after == IF backed THEN IF ok THEN [home EXCEPT !.taken = Added(home, p)] ELSE home
                    ELSE binds[k]
           s == Ran(r, p, ok)
<1>1. /\ r.status = "running" /\ p \notin r.tasks
      /\ binds' = IF backed THEN [binds EXCEPT ![k] = after] ELSE binds
      /\ runs' = [runs EXCEPT ![i] = s]
      /\ UNCHANGED <<backed, positions, served, pc>>
  BY DEF Task
<1>2. /\ i \in 1 .. Len(runs) /\ r \in RunType /\ RunInv(i) /\ k \in 1 .. Len(binds)
      /\ binds[k] \in BindType /\ backed \in BOOLEAN /\ positions \in Plans \cup {Unset}
      /\ Len(runs) \in Nat /\ Len(binds) \in Nat
  BY Facts DEF PiecesInv, RunsInv, RunInv, TypeInv
<1>3. home \in BindType /\ home.plan = binds[k].plan /\ home.made
      /\ home.taken = binds[k].taken /\ (home.live \/ (binds[k].made /\ ~binds[k].live))
  BY <1>2 DEF BindType
<1>4. /\ after \in BindType /\ after.plan = binds[k].plan
      /\ backed => after.made /\ after.live = home.live
      /\ backed /\ ok => after.taken = [binds[k].taken EXCEPT ![p] = 1]
      /\ backed /\ ~ok => after.taken = binds[k].taken
  <2> HIDE DEF home
  <2>1. [home.taken EXCEPT ![p] = 1] \in [Partitions -> Nat]
    BY <1>3 DEF BindType
  <2> QED
    BY <1>2, <1>3, <2>1 DEF BindType, Added
<1>5. /\ s \in RunType /\ s.bind = k /\ s.plan = r.plan /\ s.value = r.value
      /\ s.status = (IF ok THEN "running" ELSE "failed")
      /\ s.tasks = (IF ok THEN r.tasks \cup {p} ELSE r.tasks)
  BY <1>1, <1>2 DEF Ran, RunType
<1>6. /\ ok \in BOOLEAN /\ (~ok => backed /\ binds[k].made /\ ~binds[k].live)
      /\ (backed => (ok <=> home.live))
  BY <1>2, <1>3
<1> HIDE DEF s, after, home, ok
<1>7. /\ Len(runs') = Len(runs) /\ runs' \in Seq(RunType) /\ runs'[i] = s
      /\ \A j \in 1 .. Len(runs) : j # i => runs'[j] = runs[j]
  BY <1>1, <1>2, <1>5, ExceptSeq DEF PiecesInv, TypeInv
<1>8. /\ Len(binds') = Len(binds) /\ binds' \in Seq(BindType)
      /\ backed => binds'[k] = after
      /\ ~backed => binds' = binds
      /\ \A m \in 1 .. Len(binds) : m # k => binds'[m] = binds[m]
  BY <1>1, <1>2, <1>4, ExceptSeq DEF PiecesInv, TypeInv
<1>9. TypeInv'
  BY <1>1, <1>7, <1>8 DEF PiecesInv, TypeInv
<1>10. ASSUME NEW j, Ended(j) PROVE j # i /\ Ended(j)' /\ runs'[j] = runs[j]
  BY <1>1, <1>7, <1>10 DEF Ended
<1>11. ASSUME NEW j \in 1 .. Len(runs) PROVE RunInv(j)'
  <2>1. RunInv(j) /\ runs[j] \in RunType
    BY Facts DEF PiecesInv, RunsInv
  <2>2. /\ runs'[j].bind = runs[j].bind /\ runs'[j].plan = runs[j].plan
        /\ runs'[j].value = runs[j].value
        /\ runs'[j].status = "done" => runs[j].status = "done"
        /\ runs'[j].tasks = runs[j].tasks \/ (j = i /\ ok /\ runs'[j].tasks = r.tasks \cup {p})
    BY <1>5, <1>7
  <2> DEFINE m == runs[j].bind
  <2>3. m \in 1 .. Len(binds) /\ binds[m] \in BindType /\ binds[m].plan = runs[j].plan
    BY <2>1, Facts DEF PiecesInv, RunInv
  <2>4. binds'[m].plan = binds[m].plan
    <3>1. CASE m = k /\ backed
      BY <1>4, <1>8, <3>1
    <3>2. CASE m # k \/ ~backed
      BY <1>8, <2>3, <3>2
    <3> QED
      BY <3>1, <3>2
  <2>5. ASSUME backed
        PROVE  /\ binds[m].made => binds'[m].made
               /\ m = k => binds'[m].made
               /\ \A x \in Partitions : binds[m].taken[x] = 1 => binds'[m].taken[x] = 1
               /\ m = k /\ ok => binds'[m].taken[p] = 1
    <3>1. CASE m # k
      BY <1>8, <2>3, <3>1
    <3>2. CASE m = k
      <4>1. binds'[m] = after /\ after.made
        BY <1>4, <1>8, <2>5, <3>2
      <4>2. \A x \in Partitions : binds[m].taken[x] = 1 => after.taken[x] = 1
        <5>1. CASE ok
          BY <1>4, <2>3, <2>5, <3>2, <5>1 DEF BindType
        <5>2. CASE ~ok
          BY <1>4, <2>5, <3>2, <5>2
        <5> QED
          BY <5>1, <5>2
      <4>3. ok => after.taken[p] = 1
        BY <1>4, <2>3, <2>5, <3>2 DEF BindType
      <4> QED
        BY <4>1, <4>2, <4>3
    <3> QED
      BY <3>1, <3>2
  <2> HIDE DEF m
  <2>6. ASSUME backed, runs'[j].tasks # {} PROVE binds'[m].made
    BY <2>1, <2>2, <2>5, <2>6 DEF RunInv, m
  <2>7. ASSUME backed, NEW x \in runs'[j].tasks PROVE binds'[m].taken[x] = 1
    <3>1. x \in runs[j].tasks => x \in Partitions /\ binds[m].taken[x] = 1
      BY <2>1, <2>7 DEF RunInv, RunType, m
    <3>2. x \in runs[j].tasks \/ (j = i /\ ok /\ x = p)
      BY <2>2, <2>7
    <3> QED
      BY <2>5, <2>7, <3>1, <3>2 DEF m
  <2>8. runs'[j].status = "done" => runs'[j].value = [x \in Partitions |-> 1]
    BY <2>1, <2>2 DEF RunInv
  <2> QED
    <3>1. /\ runs'[j].bind = m /\ m \in 1 .. Len(binds')
          /\ runs'[j].plan = binds'[m].plan /\ backed' = backed
      BY <1>1, <1>8, <2>2, <2>3, <2>4 DEF m
    <3> QED
      BY ONLY <2>6, <2>7, <2>8, <3>1 DEF RunInv
<1>12. ASSUME NEW m \in 1 .. Len(binds) PROVE GoneInv(m)'
  <2>1. GoneInv(m)
    BY DEF PiecesInv, BindsInv
  <2>2. SUFFICES ASSUME backed, binds'[m].made, ~binds'[m].live
                 PROVE  \E j : Ended(j) /\ runs[j].bind = m
    BY <1>1, <1>10 DEF GoneInv
  <2>3. CASE m # k
    BY <1>8, <2>1, <2>2, <2>3 DEF GoneInv
  <2>4. CASE m = k
    BY <1>4, <1>6, <1>8, <2>1, <2>2, <2>4 DEF GoneInv
  <2> QED
    BY <2>3, <2>4
<1>13. ASSUME NEW j \in 1 .. Len(runs) PROVE FailInv(j)'
  <2>1. SUFFICES ASSUME runs'[j].status = "failed"
                 PROVE  \E x : Ended(x) /\ x # j /\ runs[x].bind = runs'[j].bind
    BY <1>10 DEF FailInv
  <2>2. CASE j # i
    BY <1>7, <2>1, <2>2 DEF PiecesInv, RunsInv, FailInv
  <2>3. CASE j = i
    <3>1. ~ok /\ runs'[j].bind = k
      BY <1>5, <1>7, <2>1, <2>3
    <3>2. \E x : Ended(x) /\ runs[x].bind = k
      BY <1>2, <1>6, <3>1 DEF PiecesInv, BindsInv, GoneInv
    <3> QED
      BY <1>10, <2>3, <3>1, <3>2
  <2> QED
    BY <2>2, <2>3
<1> QED
  BY <1>7, <1>8, <1>9, <1>11, <1>12, <1>13 DEF PiecesInv, RunsInv, BindsInv

LEMMA ResolveKeeps ==
    ASSUME PiecesInv, NEW i \in DOMAIN runs, Resolve(i)
    PROVE  PiecesInv'
<1> DEFINE r == runs[i]
           k == r.bind
           ok == ~backed \/ r.tasks = {} \/ binds[k].live
           s == [r EXCEPT !.status = IF ok THEN "done" ELSE "failed",
                          !.value = IF backed THEN binds[k].taken ELSE [p \in Partitions |-> 1]]
           after == Taken(binds[k])
<1>1. /\ r.status = "running" /\ r.tasks = Partitions
      /\ binds' = IF backed /\ ok THEN [binds EXCEPT ![k] = after] ELSE binds
      /\ runs' = [runs EXCEPT ![i] = s]
      /\ UNCHANGED <<backed, positions, served, pc>>
  BY DEF Resolve
<1>2. /\ i \in 1 .. Len(runs) /\ r \in RunType /\ RunInv(i) /\ k \in 1 .. Len(binds)
      /\ binds[k] \in BindType /\ backed \in BOOLEAN
      /\ Len(runs) \in Nat /\ Len(binds) \in Nat
  BY Facts DEF PiecesInv, RunsInv, RunInv, TypeInv
<1>3. /\ after \in BindType /\ after.plan = binds[k].plan /\ after.made = binds[k].made
      /\ after.taken = binds[k].taken
  BY <1>2 DEF Taken, BindType
<1>4. /\ s.bind = k /\ s.plan = r.plan /\ s.tasks = r.tasks
      /\ s.status = (IF ok THEN "done" ELSE "failed")
      /\ s.value = [p \in Partitions |-> 1] /\ s \in RunType
  <2>1. binds[k].taken \in [Partitions -> Nat]
    BY <1>2 DEF BindType
  <2>2. backed => binds[k].taken = [p \in Partitions |-> 1]
    BY <1>1, <1>2, <2>1 DEF RunInv
  <2> DEFINE v == IF backed THEN binds[k].taken ELSE [p \in Partitions |-> 1]
  <2>3. v = [p \in Partitions |-> 1] /\ v \in [Partitions -> Nat]
    BY <1>2, <2>2
  <2> HIDE DEF v
  <2>4. s = [r EXCEPT !.status = IF ok THEN "done" ELSE "failed", !.value = v]
    BY DEF v
  <2> HIDE DEF s
  <2> QED
    BY <1>2, <2>3, <2>4 DEF RunType
<1>5. ~ok => backed /\ binds[k].made /\ ~binds[k].live
  BY <1>2 DEF RunInv
<1> HIDE DEF s, after, ok
<1>6. /\ Len(runs') = Len(runs) /\ runs' \in Seq(RunType) /\ runs'[i] = s
      /\ \A j \in 1 .. Len(runs) : j # i => runs'[j] = runs[j]
  BY <1>1, <1>2, <1>4, ExceptSeq DEF PiecesInv, TypeInv
<1>7. /\ Len(binds') = Len(binds) /\ binds' \in Seq(BindType)
      /\ backed /\ ok => binds'[k] = after
      /\ ~(backed /\ ok) => binds' = binds
      /\ \A m \in 1 .. Len(binds) : m # k => binds'[m] = binds[m]
  BY <1>1, <1>2, <1>3, ExceptSeq DEF PiecesInv, TypeInv
<1>8. ASSUME NEW m \in 1 .. Len(binds)
      PROVE  /\ binds'[m].plan = binds[m].plan /\ binds'[m].made = binds[m].made
             /\ binds'[m].taken = binds[m].taken
  <2>1. CASE m = k /\ backed /\ ok
    BY <1>3, <1>7, <2>1
  <2>2. CASE ~(m = k /\ backed /\ ok)
    BY <1>7, <2>2
  <2> QED
    BY <2>1, <2>2
<1>9. TypeInv'
  BY <1>1, <1>6, <1>7 DEF PiecesInv, TypeInv
<1>10. ASSUME NEW j, Ended(j) PROVE j # i /\ Ended(j)' /\ runs'[j] = runs[j]
  BY <1>1, <1>6, <1>10 DEF Ended
<1>11. ASSUME NEW j \in 1 .. Len(runs) PROVE RunInv(j)'
  <2>1. RunInv(j)
    BY DEF PiecesInv, RunsInv
  <2>2. /\ runs'[j].bind = runs[j].bind /\ runs'[j].plan = runs[j].plan
        /\ runs'[j].tasks = runs[j].tasks
        /\ runs'[j].status = "done" => runs'[j].value = [p \in Partitions |-> 1]
    BY <1>4, <1>6, <2>1 DEF RunInv
  <2>3. runs[j].bind \in 1 .. Len(binds)
    BY <2>1 DEF RunInv
  <2> QED
    <3> DEFINE m == runs[j].bind
    <3>1. /\ runs'[j].bind = m /\ m \in 1 .. Len(binds') /\ backed' = backed
          /\ runs'[j].plan = runs[j].plan /\ runs'[j].tasks = runs[j].tasks
      BY <1>1, <1>7, <2>2, <2>3
    <3>2. /\ binds'[m].plan = binds[m].plan /\ binds'[m].made = binds[m].made
          /\ binds'[m].taken = binds[m].taken
      BY <1>8, <2>3
    <3>3. /\ runs[j].plan = binds[m].plan
          /\ backed /\ runs[j].tasks # {} => binds[m].made
          /\ backed => \A p \in runs[j].tasks : binds[m].taken[p] = 1
      BY <2>1 DEF RunInv
    <3>4. runs'[j].status = "done" => runs'[j].value = [p \in Partitions |-> 1]
      BY <2>2
    <3> HIDE DEF m
    <3> QED
      BY ONLY <3>1, <3>2, <3>3, <3>4 DEF RunInv
<1>12. ASSUME NEW m \in 1 .. Len(binds) PROVE GoneInv(m)'
  <2>1. CASE m = k /\ ok
    <3>1. Ended(i)' /\ runs'[i].bind = k
      BY <1>2, <1>4, <1>6, <2>1 DEF Ended
    <3> QED
      BY <2>1, <3>1 DEF GoneInv
  <2>2. CASE ~(m = k /\ ok)
    <3>1. binds'[m] = binds[m] /\ backed' = backed
      BY <1>1, <1>7, <2>2
    <3>2. GoneInv(m)
      BY DEF PiecesInv, BindsInv
    <3> QED
      BY <1>10, <3>1, <3>2 DEF GoneInv
  <2> QED
    BY <2>1, <2>2
<1>13. ASSUME NEW j \in 1 .. Len(runs) PROVE FailInv(j)'
  <2>1. CASE j # i
    BY <1>6, <1>10, <2>1 DEF PiecesInv, RunsInv, FailInv
  <2>2. CASE j = i /\ ok
    BY <1>4, <1>6, <2>2 DEF FailInv
  <2>3. CASE j = i /\ ~ok
    <3>1. PICK x : Ended(x) /\ runs[x].bind = k
      BY <1>2, <1>5, <2>3 DEF PiecesInv, BindsInv, GoneInv
    <3>2. runs'[j].bind = k
      BY <1>4, <1>6, <2>3
    <3> QED
      BY <1>10, <2>3, <3>1, <3>2 DEF FailInv
  <2> QED
    BY <2>1, <2>2, <2>3
<1> QED
  BY <1>6, <1>7, <1>9, <1>11, <1>12, <1>13 DEF PiecesInv, RunsInv, BindsInv

LEMMA StopKeeps ==
    ASSUME PiecesInv, NEW i \in DOMAIN runs, Stop(i)
    PROVE  PiecesInv'
<1> DEFINE s == [runs[i] EXCEPT !.status = "stopped"]
<1>1. /\ runs[i].status = "running" /\ runs' = [runs EXCEPT ![i] = s]
      /\ UNCHANGED <<backed, positions, served, pc, binds>>
  BY DEF Stop
<1>2. i \in 1 .. Len(runs) /\ runs[i] \in RunType /\ Len(runs) \in Nat
  BY Facts DEF PiecesInv
<1>3. /\ s \in RunType /\ s.status = "stopped" /\ s.bind = runs[i].bind
      /\ s.plan = runs[i].plan /\ s.tasks = runs[i].tasks
  BY <1>2 DEF RunType
<1> HIDE DEF s
<1>4. /\ Len(runs') = Len(runs) /\ runs' \in Seq(RunType) /\ runs'[i] = s
      /\ \A j \in 1 .. Len(runs) : j # i => runs'[j] = runs[j]
  BY <1>1, <1>2, <1>3, ExceptSeq DEF PiecesInv, TypeInv
<1>5. TypeInv'
  BY <1>1, <1>4 DEF PiecesInv, TypeInv
<1>6. ASSUME NEW j, Ended(j) PROVE Ended(j)' /\ runs'[j] = runs[j]
  BY <1>1, <1>4, <1>6 DEF Ended
<1>7. ASSUME NEW j \in 1 .. Len(runs) PROVE RunInv(j)' /\ FailInv(j)'
  <2>1. RunInv(j) /\ FailInv(j)
    BY DEF PiecesInv, RunsInv
  <2>2. CASE j = i
    BY <1>1, <1>3, <1>4, <2>1, <2>2 DEF RunInv, FailInv
  <2>3. CASE j # i
    <3>1. runs'[j] = runs[j]
      BY <1>4, <2>3
    <3>2. RunInv(j)'
      BY <1>1, <2>1, <3>1 DEF RunInv
    <3>3. FailInv(j)'
      BY <1>6, <2>1, <3>1 DEF FailInv
    <3> QED
      BY <3>2, <3>3
  <2> QED
    BY <2>2, <2>3
<1>8. ASSUME NEW m \in 1 .. Len(binds) PROVE GoneInv(m)'
  <2>1. GoneInv(m) /\ binds' = binds /\ backed' = backed
    BY <1>1 DEF PiecesInv, BindsInv
  <2> QED
    BY <1>6, <2>1 DEF GoneInv
<1> QED
  BY <1>1, <1>4, <1>5, <1>7, <1>8 DEF PiecesInv, RunsInv, BindsInv

LEMMA PiecesNextInv == PiecesInv /\ [PiecesNext]_piecesVars => PiecesInv'
<1> SUFFICES ASSUME PiecesInv, [PiecesNext]_piecesVars PROVE PiecesInv'
  OBVIOUS
<1>1. CASE UNCHANGED piecesVars
  BY <1>1 DEF piecesVars, PiecesInv, TypeInv, RunsInv, BindsInv, RunInv, FailInv, GoneInv, Ended
<1>2. ASSUME NEW b \in Plans,
             \/ CompileChecks(b) \/ CompileRecords(b) \/ ServeChecks(b) \/ ServePlaces(b)
             \/ GiveUp(b) \/ Bind(b)
      PROVE  PiecesInv'
  BY <1>2, BuildKeeps, BindKeeps
<1>3. ASSUME NEW k \in DOMAIN binds, Start(k) PROVE PiecesInv'
  BY <1>3, StartKeeps
<1>4. ASSUME NEW i \in DOMAIN runs, Resolve(i) \/ Stop(i) \/ \E p \in Partitions : Task(i, p)
      PROVE  PiecesInv'
  BY <1>4, ResolveKeeps, StopKeeps, TaskKeeps
<1> QED
  BY <1>1, <1>2, <1>3, <1>4 DEF PiecesNext

\* Each binding has its own histogram, which holds each shipped partition once and goes
\* only with a run that ended, however plans are built, bound and run.
THEOREM RebindingInvariant == PiecesSpec => []PiecesInv
<1> QED
  BY PiecesInitInv, PiecesNextInv, PTL DEF PiecesSpec

\* A run fails only because another run of its binding ended: never the first, never one
\* on handles of its own, with any number of plans, bindings and runs.
THEOREM FailuresAreReuse == PiecesSpec => []FailsForReuse
<1>1. PiecesInv => FailsForReuse
  <2> SUFFICES ASSUME PiecesInv, NEW i \in DOMAIN runs, runs[i].status = "failed"
               PROVE  \E j \in DOMAIN runs :
                        j # i /\ runs[j].bind = runs[i].bind /\ runs[j].status = "done"
    BY DEF FailsForReuse
  <2>1. DOMAIN runs = 1 .. Len(runs) /\ FailInv(i)
    BY Facts DEF PiecesInv, RunsInv
  <2> QED
    BY <2>1 DEF FailInv, Ended
<1> QED
  BY <1>1, RebindingInvariant, PTL

-----------------------------------------------------------------------------
(* Plans built one after the other *)

\* Pieces have the positions of the one plan that got through the compile hook, and what
\* was bound and read is of that plan.
OnePlan ==
    /\ \A b, c \in Busy : b = c
    /\ \A b \in Plans : pc[b] = "compiling" => positions = Unset
    /\ \A b \in Plans : pc[b] \in {"built", "placing", "served"} => positions = b
    /\ \A k \in 1 .. Len(binds) : binds[k].plan = positions
    /\ \A i \in 1 .. Len(runs) : runs[i].read \subseteq {positions}

\* Few busy builders are none but b.
LEMMA NoneBusy ==
    ASSUME OnePlan, NEW b, Builders = 1, Cardinality(Busy \ {b}) < Builders
    PROVE  Busy \subseteq {b}
<1> SUFFICES ASSUME NEW c \in Busy, c # b PROVE FALSE
  OBVIOUS
<1>1. Busy \ {b} = {c}
  BY DEF OnePlan
<1>2. Cardinality(Busy \ {b}) = 1
  BY <1>1, FS_Singleton
<1> QED
  BY <1>2

LEMMA OnePlanKept ==
    ASSUME Builders = 1, PiecesInv, OnePlan, [PiecesNext]_piecesVars
    PROVE  OnePlan'
<1>1. pc \in [Plans -> {"new", "compiling", "built", "placing", "served", "refused"}]
  BY DEF PiecesInv, TypeInv
<1>2. CASE UNCHANGED piecesVars
  BY <1>2 DEF piecesVars, OnePlan, Busy
<1>3. ASSUME NEW b \in Plans, CompileChecks(b) PROVE OnePlan'
  <2>1. Busy \ {b} = Busy /\ Cardinality(Busy \ {b}) < Builders
    BY <1>3 DEF CompileChecks, Busy
  <2>2. Busy = {}
    BY <2>1, NoneBusy
  <2>3. \A c \in Plans : c # b => pc'[c] = pc[c]
    BY <1>1, <1>3 DEF CompileChecks
  <2>4. pc'[b] \in {"refused", "compiling"} /\ (pc'[b] = "compiling" => positions = Unset)
    BY <1>1, <1>3 DEF CompileChecks
  <2>5. Busy' \subseteq {b}
    BY <2>2, <2>3 DEF Busy
  <2>6. UNCHANGED <<positions, binds, runs>>
    BY <1>3 DEF CompileChecks
  <2> QED
    BY <2>3, <2>4, <2>5, <2>6 DEF OnePlan
<1>4. ASSUME NEW b \in Plans, CompileRecords(b) PROVE OnePlan'
  <2>1. b \in Busy /\ positions = Unset /\ positions' = b /\ UNCHANGED <<binds, runs>>
    BY <1>4 DEF CompileRecords, OnePlan, Busy
  <2>2. \A c \in Plans : c # b => pc'[c] = pc[c]
    BY <1>1, <1>4 DEF CompileRecords
  <2>3. pc'[b] \in {"built", "refused"}
    BY <1>1, <1>4 DEF CompileRecords
  <2>4. Busy' \subseteq Busy
    BY <2>1, <2>2 DEF Busy
  <2>5. \A c \in Plans : c # b =>
          pc[c] \notin {"compiling", "built", "placing", "served"}
    BY <2>1, UnsetAssumption DEF OnePlan, Busy
  <2>6. Len(binds) = 0
    <3>1. \A k \in 1 .. Len(binds) : FALSE
      BY <2>1, Facts, UnsetAssumption DEF OnePlan, PiecesInv, BindType
    <3> QED
      BY <3>1, Facts DEF PiecesInv
  <2>7. \A i \in 1 .. Len(runs) : FALSE
    BY <2>6 DEF PiecesInv, RunsInv, RunInv
  <2> QED
    BY <2>1, <2>2, <2>3, <2>4, <2>5, <2>6, <2>7 DEF OnePlan
<1>5. ASSUME NEW b \in Plans, ServeChecks(b) PROVE OnePlan'
  <2>1. Busy \subseteq {b} /\ positions = b
    BY <1>5, NoneBusy DEF ServeChecks, OnePlan
  <2>2. \A c \in Plans : c # b => pc'[c] = pc[c]
    BY <1>1, <1>5 DEF ServeChecks
  <2>3. pc'[b] \in {"placing", "refused", "served"}
    BY <1>1, <1>5 DEF ServeChecks
  <2>4. Busy' \subseteq {b}
    BY <2>1, <2>2 DEF Busy
  <2>5. UNCHANGED <<positions, binds, runs>>
    BY <1>5 DEF ServeChecks
  <2> QED
    BY <2>1, <2>2, <2>3, <2>4, <2>5 DEF OnePlan
<1>6. ASSUME NEW b \in Plans, ServePlaces(b) \/ GiveUp(b) PROVE OnePlan'
  <2>1. b \in Busy /\ positions = b
    BY <1>6 DEF ServePlaces, GiveUp, OnePlan, Busy
  <2>2. \A c \in Plans : c # b => pc'[c] = pc[c]
    BY <1>1, <1>6 DEF ServePlaces, GiveUp
  <2>3. pc'[b] \in {"served", "built", "refused"}
    BY <1>1, <1>6 DEF ServePlaces, GiveUp
  <2>4. Busy' \subseteq Busy
    BY <2>1, <2>2 DEF Busy
  <2>5. UNCHANGED <<positions, binds, runs>>
    BY <1>6 DEF ServePlaces, GiveUp
  <2> QED
    BY <2>1, <2>2, <2>3, <2>4, <2>5 DEF OnePlan
<1>7. ASSUME NEW b \in Plans, Bind(b) PROVE OnePlan'
  <2>1. /\ binds' = Append(binds, Bound(b)) /\ positions = b /\ Bound(b).plan = b
        /\ UNCHANGED <<positions, pc, runs>>
    BY <1>7 DEF Bind, OnePlan, Bound
  <2>2. binds \in Seq(BindType)
    BY DEF PiecesInv, TypeInv
  <2>3. /\ Len(binds) \in Nat /\ Len(binds') = Len(binds) + 1
        /\ \A k \in 1 .. Len(binds) : binds'[k] = binds[k]
        /\ binds'[Len(binds) + 1] = Bound(b)
    BY <2>1, <2>2
  <2>4. \A k \in 1 .. Len(binds') : binds'[k].plan = positions
    <3>1. \A k \in 1 .. Len(binds) + 1 : k \in 1 .. Len(binds) \/ k = Len(binds) + 1
      BY <2>3
    <3> QED
      BY <2>1, <2>3, <3>1 DEF OnePlan
  <2> QED
    BY <2>1, <2>4 DEF OnePlan, Busy
<1>8. ASSUME NEW k \in DOMAIN binds, Start(k) PROVE OnePlan'
  <2> DEFINE new == [bind |-> k, plan |-> binds[k].plan, status |-> "running",
                     tasks |-> {}, read |-> {}, value |-> <<>>]
  <2>1. /\ runs' = Append(runs, new) /\ new.read = {}
        /\ UNCHANGED <<positions, pc, binds>>
    BY <1>8 DEF Start
  <2> HIDE DEF new
  <2>2. runs \in Seq(RunType)
    BY DEF PiecesInv, TypeInv
  <2>3. /\ Len(runs) \in Nat /\ Len(runs') = Len(runs) + 1
        /\ \A i \in 1 .. Len(runs) : runs'[i] = runs[i]
        /\ runs'[Len(runs) + 1] = new
    BY <2>1, <2>2
  <2>4. \A i \in 1 .. Len(runs') : runs'[i].read \subseteq {positions}
    <3>1. \A i \in 1 .. Len(runs) + 1 : i \in 1 .. Len(runs) \/ i = Len(runs) + 1
      BY <2>3
    <3> QED
      BY <2>1, <2>3, <3>1 DEF OnePlan
  <2> QED
    BY <2>1, <2>4 DEF OnePlan, Busy
\* Steps of a run read at the positions, and change no plan.
<1>9. ASSUME UNCHANGED <<positions, pc>>,
             Len(binds') = Len(binds), Len(runs') = Len(runs),
             \A k \in 1 .. Len(binds) : binds'[k].plan = binds[k].plan,
             \A i \in 1 .. Len(runs) : runs'[i].read \subseteq runs[i].read \cup {positions}
      PROVE  OnePlan'
  <2>1. Busy' = Busy
    BY <1>9 DEF Busy
  <2> QED
    BY <1>9, <2>1 DEF OnePlan
<1>10. ASSUME NEW i \in DOMAIN runs, NEW p \in Partitions, Task(i, p) PROVE OnePlan'
  <2> DEFINE k == runs[i].bind
             home == IF binds[k].made THEN binds[k]
                     ELSE [binds[k] EXCEPT !.made = TRUE, !.live = TRUE]
             ok == ~backed \/ home.live
             after == IF ok THEN [home EXCEPT !.taken = Added(home, p)] ELSE home
             s == Ran(runs[i], p, ok)
  <2>1. /\ binds' = IF backed THEN [binds EXCEPT ![k] = after] ELSE binds
        /\ runs' = [runs EXCEPT ![i] = s] /\ UNCHANGED <<positions, pc>>
    BY <1>10 DEF Task
  <2>2. /\ i \in 1 .. Len(runs) /\ runs[i] \in RunType /\ k \in 1 .. Len(binds)
        /\ binds[k] \in BindType
    BY Facts DEF PiecesInv, RunsInv, RunInv
  <2>3. after.plan = binds[k].plan /\ s.read = runs[i].read \cup {positions}
    BY <2>2 DEF BindType, RunType, Ran
  <2> HIDE DEF after, s, k
  <2>4. Len(binds') = Len(binds) /\ \A m \in 1 .. Len(binds) : binds'[m].plan = binds[m].plan
    BY <2>1, <2>2, <2>3 DEF PiecesInv, TypeInv
  <2>5. /\ Len(runs') = Len(runs)
        /\ \A j \in 1 .. Len(runs) : runs'[j].read \subseteq runs[j].read \cup {positions}
    BY <2>1, <2>2, <2>3 DEF PiecesInv, TypeInv
  <2> QED
    BY <1>9, <2>1, <2>4, <2>5
<1>11. ASSUME NEW i \in DOMAIN runs, Resolve(i) PROVE OnePlan'
  <2> DEFINE k == runs[i].bind
             ok == ~backed \/ runs[i].tasks = {} \/ binds[k].live
             after == Taken(binds[k])
             s == [runs[i] EXCEPT !.status = IF ok THEN "done" ELSE "failed",
                     !.value = IF backed THEN binds[k].taken ELSE [p \in Partitions |-> 1]]
  <2>1. /\ binds' = IF backed /\ ok THEN [binds EXCEPT ![k] = after] ELSE binds
        /\ runs' = [runs EXCEPT ![i] = s] /\ UNCHANGED <<positions, pc>>
    BY <1>11 DEF Resolve
  <2>2. /\ i \in 1 .. Len(runs) /\ runs[i] \in RunType /\ k \in 1 .. Len(binds)
        /\ binds[k] \in BindType
    BY Facts DEF PiecesInv, RunsInv, RunInv
  <2>3. after.plan = binds[k].plan /\ s.read = runs[i].read
    BY <2>2 DEF BindType, RunType, Taken
  <2> HIDE DEF after, s, k, ok
  <2>4. Len(binds') = Len(binds) /\ \A m \in 1 .. Len(binds) : binds'[m].plan = binds[m].plan
    BY <2>1, <2>2, <2>3 DEF PiecesInv, TypeInv
  <2>5. /\ Len(runs') = Len(runs)
        /\ \A j \in 1 .. Len(runs) : runs'[j].read \subseteq runs[j].read \cup {positions}
    BY <2>1, <2>2, <2>3 DEF PiecesInv, TypeInv
  <2> QED
    BY <1>9, <2>1, <2>4, <2>5
<1>12. ASSUME NEW i \in DOMAIN runs, Stop(i) PROVE OnePlan'
  <2> DEFINE s == [runs[i] EXCEPT !.status = "stopped"]
  <2>1. runs' = [runs EXCEPT ![i] = s] /\ UNCHANGED <<positions, pc, binds>>
    BY <1>12 DEF Stop
  <2>2. i \in 1 .. Len(runs) /\ runs[i] \in RunType
    BY Facts DEF PiecesInv
  <2>3. s.read = runs[i].read
    BY <2>2 DEF RunType
  <2> HIDE DEF s
  <2>4. /\ Len(runs') = Len(runs)
        /\ \A j \in 1 .. Len(runs) : runs'[j].read \subseteq runs[j].read \cup {positions}
    BY <2>1, <2>2, <2>3 DEF PiecesInv, TypeInv
  <2> QED
    BY <1>9, <2>1, <2>4
<1> QED
  BY <1>2, <1>3, <1>4, <1>5, <1>6, <1>7, <1>8, <1>10, <1>11, <1>12 DEF PiecesNext

\* When plans are built one after the other, a run that ends well read its own plan's
\* fills and has each partition once, whatever was built, bound and run before it.
THEOREM RunsAreExact ==
    ASSUME Builders = 1
    PROVE  PiecesSpec => []RunsExact
<1>1. PiecesInit => OnePlan
  <2> SUFFICES ASSUME PiecesInit PROVE OnePlan
    OBVIOUS
  <2>1. /\ Busy = {} /\ \A b \in Plans : pc[b] = "new"
        /\ binds = <<>> /\ runs = <<>>
    BY DEF PiecesInit, Busy
  <2> QED
    BY <2>1 DEF OnePlan
<1>2. PiecesInv /\ OnePlan /\ [PiecesNext]_piecesVars => OnePlan'
  BY OnePlanKept
<1>3. PiecesInv /\ OnePlan => RunsExact
  <2> SUFFICES ASSUME PiecesInv, OnePlan, NEW i \in DOMAIN runs, runs[i].status = "done"
               PROVE  /\ runs[i].read \subseteq {runs[i].plan}
                      /\ runs[i].value = [p \in Partitions |-> 1]
    BY DEF RunsExact
  <2>1. i \in 1 .. Len(runs) /\ RunInv(i)
    BY Facts DEF PiecesInv, RunsInv
  <2>2. runs[i].plan = positions
    BY <2>1 DEF RunInv, OnePlan
  <2> QED
    BY <2>1, <2>2 DEF RunInv, OnePlan
<1> QED
  BY <1>1, <1>2, <1>3, RebindingInvariant, PTL DEF PiecesSpec
=============================================================================
