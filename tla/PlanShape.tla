------------------------------ MODULE PlanShape ------------------------------
(* gh.plan's outputs, from the nesting the caller passes to the value it gets  *)
(* back: each histogram gets the "/"-joined name of its path, each Session's   *)
(* histograms one plan keyed by slots, several plans one collated value, and   *)
(* the finalize puts every slot back at its path.  A slot's partials are       *)
(* rebuilt from its histogram's spec where they are filled.                    *)
EXTENDS SpecCodec, Sequences, SequencesExt, FiniteSets, FiniteSetsExt, Functions

CONSTANTS
    Givens,         \* what plan() may be called with: functions from paths to leaves
    Keys,           \* the keys of their mappings
    Sessions,
    Nominal,        \* the central label
    Bare,           \* no label: a slot keyed by its name (by (name, None) under None)
    Other, Empty    \* leaves: something not a histogram, and a mapping without entries

\* A mapping's key is [text, tuple]: what str() gives of it, split at "/", and whether it
\* is a tuple; two keys may have one text, as 1 and "1".  A histogram leaf is
\* [id, session, labels, axis, served, hist]; session None is one without staged fills,
\* hist what its spec is made of.
ASSUME DistinctAssumption == Cardinality({Nominal, Bare, None, Other, Empty}) = 5

VARIABLES
    given,          \* the nesting passed: path -> leaf
    partitions,     \* whether partitions= is given
    phase,
    said,           \* why plan() refused, or None
    withTasks,      \* the Sessions that have tasks
    value,          \* the run's value: key path -> [id, label, hist], hist as rebuilt
    out             \* what the caller gets: path -> the same

vars == <<given, partitions, phase, said, withTasks, value, out>>

\* Keys of a value: plain ones of the caller's or by name, and (name, label) tuples.
Plain(k) == [key |-> k, label |-> Bare]
IsHist(leaf) == leaf \notin {Other, Empty}
Hists == {p \in DOMAIN given : IsHist(given[p])}

\* A nesting is finite, and has one thing at each path; a histogram's id is its own, and
\* its axes are records.
ASSUME GivensAssumption ==
    \A g \in Givens :
        /\ IsFiniteSet(DOMAIN g) /\ DOMAIN g \subseteq Seq(Keys)
        /\ \A p, q \in DOMAIN g : ~IsStrictPrefix(p, q)
        /\ \A p \in DOMAIN g : IsHist(g[p]) =>
            /\ {Bare, None} \cap g[p].labels = {} /\ {g[p].axis, g[p].served} \subseteq BOOLEAN
            /\ \A i \in DOMAIN g[p].hist.axes : IsAxis(g[p].hist.axes[i])
            /\ \A q \in DOMAIN g : IsHist(g[q]) /\ g[q].id = g[p].id => g[q].hist = g[p].hist

\* _named: the path's keys joined by "/".
Named(path) == FlattenSeq([i \in DOMAIN path |-> path[i].text])

\* _leaves: what it refuses: a tuple among a mapping's keys, and what is neither a
\* histogram nor a mapping.  A mapping without entries has no leaves.
LeafErrors ==
    {"tuple key" : p \in {q \in DOMAIN given : \E i \in DOMAIN q : q[i].tuple}}
        \cup {"not a histogram" : p \in {q \in DOMAIN given : given[q] = Other}}

\* Clash gone wrong: only paths of one depth are compared.
ClashAtOneDepth(p, q) == p # q /\ Len(p) = Len(q) /\ Named(p) = Named(q)

Clash(p, q) == p # q /\ Named(p) = Named(q)

Served == {p \in Hists : given[p].served}
Groups == {given[p].session : p \in Hists}

\* partitions= with several Sessions.
ManySessions == IF partitions /\ Cardinality(Groups) > 1 THEN {"partitions"} ELSE {}

\* What plan() refuses, in the order it looks; pieces() has the last word.
Refusals ==
    IF LeafErrors # {} THEN LeafErrors
    ELSE IF \E p, q \in Hists : Clash(p, q) THEN {"one name"}
    ELSE IF Served # {} /\ (Cardinality(Groups) > 1 \/ \E p \in Hists : Len(p) # 1)
    THEN {"nested served"}
    ELSE IF Served = {} /\ ManySessions # {} THEN ManySessions
    ELSE IF Hists = {} \/ None \in Groups THEN {"nothing staged"}
    ELSE {}

\* flat: dict by name, a later output of the same name replacing an earlier one.
Flat == [n \in {Named(p) : p \in Hists} |-> given[CHOOSE p \in Hists : Named(p) = n]]

\* _slots: the keys of one output: bare, (name, None), or (name, label).
Slots(h) ==
    IF h.axis THEN {None} ELSE IF h.labels = {Nominal} THEN {Bare} ELSE h.labels

\* A worker of some release fills what it rebuilds from the spec, with the slot's label.
Gathered(h, l, growing) == [id |-> h.id, label |-> l, hist |-> ZeroOf(SpecOf(h.hist), growing)]

\* One Session's value: every slot of its outputs, keyed by output name and slot.
SessionValue(s, growing) ==
    LET names == {n \in DOMAIN Flat : Flat[n].session = s}
        keys == UNION {{[key |-> n, label |-> l] : l \in Slots(Flat[n])} : n \in names}
    IN [k \in {<<key>> : key \in keys} |-> Gathered(Flat[k[1].key], k[1].label, growing)]

\* graphed.collate: each part's value under the name of its first output; a Session
\* without tasks is absent.
CollatedValue(tasks, growing) ==
    LET first(s) == CHOOSE n \in DOMAIN Flat : Flat[n].session = s
        under(s) == {<<Plain(first(s))>> \o k : k \in DOMAIN SessionValue(s, growing)}
        keys == UNION {under(s) : s \in Groups \cap tasks}
    IN [k \in keys |-> SessionValue(Flat[k[1].key].session, growing)[Tail(k)]]

\* Where unpack puts a slot: its name, and under it the label of a (name, label).
UnpackedKey(k) ==
    IF k.label \in {Bare, None} THEN <<Plain(k.key)>>
    ELSE <<Plain(k.key), Plain(<<k.label>>)>>

\* unpack, in every mapping of the value down to the slots.
Unpacked(v) ==
    LET to(p) == Front(p) \o UnpackedKey(Last(p))
    IN [q \in {to(p) : p \in DOMAIN v} |-> v[CHOOSE p \in DOMAIN v : to(p) = q]]

\* Where _Nested puts an entry r of the results of the output at path p.
Result(p, r) == p \o r

\* _Nested: the results, each back at its output's path.
Nested(slots) ==
    LET results == Unpacked(slots)
        of(p) == {r \in DOMAIN results : Head(r).key = Named(p)}
        places == UNION {{<<p, r>> : r \in of(p)} : p \in Hists}
    IN [q \in {Result(x[1], Tail(x[2])) : x \in places} |->
            LET x == CHOOSE y \in places : Result(y[1], Tail(y[2])) = q IN results[x[2]]]

\* Without its datasets: {k: v for part in value.values() for k, v in part.items()}.
Slotted(v) == [k \in {Tail(p) : p \in DOMAIN v} |-> v[CHOOSE p \in DOMAIN v : Tail(p) = k]]

\* Histogram(...) has refused what a spec cannot carry.
Init ==
    /\ given \in {g \in Givens : \A p \in DOMAIN g : IsHist(g[p]) => Carries(g[p].hist)}
    /\ partitions \in BOOLEAN
    /\ phase = "given"
    /\ said = None
    /\ withTasks = {}
    /\ value = <<>>
    /\ out = <<>>

Plan ==
    /\ phase = "given"
    /\ IF Refusals = {} THEN phase' = "planned" /\ UNCHANGED said
       ELSE phase' = "refused" /\ said' \in Refusals
    /\ UNCHANGED <<given, partitions, withTasks, value, out>>

\* The run's value, by workers of one release: one Session's slots, the zero ones when it
\* has no tasks, or several Sessions' collated.
Run(tasks, growing) ==
    /\ phase = "planned"
    /\ \A p \in Hists : Version(given[p].hist) \in Knows(growing)
    /\ phase' = "ran"
    /\ withTasks' = tasks
    /\ value' = IF Cardinality(Groups) < 2 THEN SessionValue(CHOOSE s \in Groups : TRUE, growing)
                ELSE CollatedValue(tasks, growing)
    /\ UNCHANGED <<given, partitions, said, out>>

\* zero_of raises on a version its release does not know.
RunFails ==
    /\ phase = "planned"
    /\ \E p \in Hists : Version(given[p].hist) \notin Knows(FALSE)
    /\ phase' = "failed"
    /\ UNCHANGED <<given, partitions, said, withTasks, value, out>>

\* The plan's finalize: _Nested, but a served plan's value stays slot-keyed, and the
\* caller's unpack gives the outputs.
Finalize ==
    /\ phase = "ran"
    /\ phase' = "done"
    /\ out' = IF Served # {} THEN Unpacked(value)
              ELSE IF Cardinality(Groups) < 2 THEN Nested(value) ELSE Nested(Slotted(value))
    /\ UNCHANGED <<given, partitions, said, withTasks, value>>

Next ==
    \/ Plan
    \/ \E tasks \in SUBSET Sessions, growing \in BOOLEAN : Run(tasks, growing)
    \/ RunFails
    \/ Finalize

Spec == Init /\ [][Next]_vars

-----------------------------------------------------------------------------
(* Properties *)

\* An entry of the value: a served output's one key is its name.
At(p) == IF Served # {} THEN <<Plain(Named(p))>> ELSE p
Present(p) == Cardinality(Groups) < 2 \/ given[p].session \in withTasks

\* "run(plan).value comes back in the nesting that went in": at every histogram's path
\* is that histogram, each label's own of a varied one below it, and nothing else is in
\* it; a Session without tasks is absent (plan, _Nested, unpack).
NestingComesBack ==
    phase = "done" =>
        LET labels(p) == IF given[p].axis \/ given[p].labels = {Nominal} THEN {Bare}
                         ELSE given[p].labels
            at(p, l) == IF l = Bare THEN At(p) ELSE At(p) \o <<Plain(<<l>>)>>
            places == {p \in Hists : Present(p)}
        IN /\ DOMAIN out = UNION {{at(p, l) : l \in labels(p)} : p \in places}
           /\ \A p \in places : \A l \in labels(p) :
                /\ out[at(p, l)].id = given[p].id
                /\ l # Bare => out[at(p, l)].label = l

\* "Never dropped": what comes back has each axis's bins, flow and growth as they went in,
\* and its attributes as strings, whichever release filled it: Histogram(...) refused the
\* rest, or the workers' zero_of did (_axis_spec, _make_axis).
Carried ==
    phase = "done" => \A q \in DOMAIN out : \A p \in Hists : out[q].id = given[p].id =>
        LET h == given[p].hist
        IN out[q].hist = [storage |-> h.storage, axes |-> [i \in DOMAIN h.axes |->
                             [h.axes[i] EXCEPT !.attrs = Metadata(@)]]]
=============================================================================
