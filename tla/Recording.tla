------------------------------ MODULE Recording ------------------------------
(* What Histogram.fill records and what a plan reads of it: a fill lowers to  *)
(* one node per label (sibling mode) or one per group of labels on a declared *)
(* variation axis (axis mode); copies share the session's nodes but not the   *)
(* lists; pieces take the slot layout and are compiled into one plan.         *)
(*                                                                            *)
(* A node is what it is interned by: [value, factors], the value member it    *)
(* reads and, per label of its loop, the weight member. A sibling node has    *)
(* one factor, under NoLabel.                                                 *)
EXTENDS Naturals, FiniteSets, Sequences, SequencesExt

CONSTANTS
    Hists,          \* histogram objects: the first one built, and its copies
    First,          \* the one built by Histogram(...)
    Fills,          \* the fill calls made on them, each
                    \* [axis, labels, value, weight]: whether it asks for axis
                    \* mode, its labels, and each label's value and weight member
    Labels,         \* the variation labels
    Nominal,        \* the label every fill has
    NoLabel,        \* the factor of a sibling node; the label of an axis-mode slot
    Pieces,         \* the HistogramPieces made
    None,           \* no labels declared, no pieces yet
    MaxFills        \* bound: fill calls on a histogram that return; an axis fill
                    \* raises midway only while fewer nodes are staged

ASSUME LabelsAssumption ==
    /\ IsFiniteSet(Labels) /\ Nominal \in Labels
    /\ NoLabel \notin Labels
    /\ \A labels \in SUBSET Labels : labels # None
ASSUME FirstAssumption == First \in Hists
ASSUME FillsAssumption ==
    \A f \in Fills :
        /\ Nominal \in f.labels /\ f.labels \subseteq Labels
        /\ f.axis \in BOOLEAN
        /\ DOMAIN f.value = f.labels /\ DOMAIN f.weight = f.labels
ASSUME BoundAssumption == MaxFills \in Nat

VARIABLES
    alive,          \* the histogram objects that exist
    own,            \* own[h]: the lists h's attributes refer to
    fill_nodes,     \* fill_nodes[r]: _fill_nodes
    label_maps,     \* label_maps[r]: _label_maps, one {label: node} per fill
    fill_specs,     \* fill_specs[r]: _fill_specs, each as the axis it declares
    axis_mode,      \* axis_mode[h]: _axis_mode
    axis_labels,    \* axis_labels[h]: _axis_labels, None until declared
    session,        \* the nodes recorded on the session's graph
    pieces,         \* pieces[q]: None or [hist, layout, marked, state]
    log,            \* log[h]: the fills that returned (history)
    halved          \* the histograms an axis fill raised on midway, and their copies
                    \* (history)

lists == <<fill_nodes, label_maps, fill_specs>>
vars == <<alive, own, lists, axis_mode, axis_labels, session, pieces, log, halved>>

Init ==
    /\ alive = {First}
    /\ own = [h \in Hists |-> h]
    /\ fill_nodes = [r \in Hists |-> <<>>]
    /\ label_maps = [r \in Hists |-> <<>>]
    /\ fill_specs = [r \in Hists |-> <<>>]
    /\ axis_mode = [h \in Hists |-> FALSE]
    /\ axis_labels = [h \in Hists |-> None]
    /\ session = {}
    /\ pieces = [q \in Pieces |-> None]
    /\ log = [h \in Hists |-> <<>>]
    /\ halved = {}

-----------------------------------------------------------------------------
(* Recording *)

Staged(h) == fill_nodes[own[h]]
Maps(h) == label_maps[own[h]]
Specs(h) == fill_specs[own[h]]

\* The labels of fill f that share the value member of label l.
GroupOf(f, l) == {m \in f.labels : f.value[m] = f.value[l]}
Groups(f) == {GroupOf(f, l) : l \in f.labels}

SiblingNode(f, l) ==
    [value |-> f.value[l], factors |-> [m \in {NoLabel} |-> f.weight[l]]]
AxisNode(f, G) ==
    [value |-> f.value[CHOOSE l \in G : TRUE], factors |-> [l \in G |-> f.weight[l]]]

\* The node the fill records for label l.
NodeOf(f, l) == IF f.axis THEN AxisNode(f, GroupOf(f, l)) ELSE SiblingNode(f, l)

\* The nodes a fill records, in the order it records them: nominal's leads.
NodeOrders(f) ==
    LET units == IF f.axis THEN Groups(f) ELSE {{l} : l \in f.labels}
        unit(o, i) == CHOOSE l \in o[i] : TRUE
    IN {[i \in DOMAIN o |-> NodeOf(f, unit(o, i))] :
            o \in {o \in SetToSeqs(units) : Nominal \in o[1]}}

\* The axis the fill's node declares: none, or the sorted label set.
SpecOf(f) == IF f.axis THEN f.labels ELSE {}

\* Accepts gone wrong: the label set is not compared.
AcceptsAnyLabels(h, f) == Specs(h) # <<>> => f.axis = axis_mode[h]

\* _checked_operands and the first check of _record_axis_fill: the mode is the
\* first recorded fill's, and so is an axis fill's label set.
Accepts(h, f) ==
    Specs(h) # <<>> =>
        /\ f.axis = axis_mode[h]
        /\ f.axis /\ axis_labels[h] # None => f.labels = axis_labels[h]

\* Whether the bounds let f be recorded now on h.
Records(h, f) ==
    /\ h \in alive
    /\ Len(log[h]) < MaxFills
    /\ Accepts(h, f)

\* An axis fill fixes the mode before it records a node.
Declare(h, f) ==
    IF f.axis
    THEN /\ axis_mode' = [axis_mode EXCEPT ![h] = TRUE]
         /\ axis_labels' = [axis_labels EXCEPT ![h] = f.labels]
    ELSE UNCHANGED <<axis_mode, axis_labels>>

\* The fill records all its nodes and appends to its histogram's lists.
Fill(h, f) ==
    /\ Records(h, f)
    /\ \E new \in NodeOrders(f) :
        /\ session' = session \cup Range(new)
        /\ fill_nodes' = [fill_nodes EXCEPT ![own[h]] = @ \o new]
    /\ label_maps' = [label_maps EXCEPT ![own[h]] =
            Append(@, [l \in f.labels |-> NodeOf(f, l)])]
    /\ fill_specs' = [fill_specs EXCEPT ![own[h]] = Append(@, SpecOf(f))]
    /\ Declare(h, f)
    /\ log' = [log EXCEPT ![h] = Append(@, f)]
    /\ UNCHANGED <<alive, own, pieces, halved>>

\* SiblingRaises gone wrong: the nodes made so far are appended.
SiblingRaisesHavingAppended(h, f) ==
    /\ ~f.axis
    /\ Records(h, f)
    /\ \E new \in NodeOrders(f) : \E k \in 0 .. Len(new) - 1 :
        /\ session' = session \cup {new[i] : i \in 1 .. k}
        /\ fill_nodes' = [fill_nodes EXCEPT ![own[h]] = @ \o SubSeq(new, 1, k)]
    /\ UNCHANGED <<alive, own, label_maps, fill_specs, axis_mode, axis_labels, pieces, log, halved>>

\* Recording raises after some of the fill's nodes. A sibling fill extends its
\* lists only after the last one; an axis fill has appended each node it has.
SiblingRaises(h, f) ==
    /\ ~f.axis
    /\ Records(h, f)
    /\ \E new \in NodeOrders(f) : \E k \in 0 .. Len(new) - 1 :
        session' = session \cup {new[i] : i \in 1 .. k}
    /\ UNCHANGED <<alive, own, lists, axis_mode, axis_labels, pieces, log, halved>>

AxisRaises(h, f) ==
    /\ f.axis
    /\ Len(Staged(h)) < MaxFills
    /\ Records(h, f)
    /\ Declare(h, f)
    /\ \E new \in NodeOrders(f) : \E k \in 0 .. Len(new) - 1 :
        /\ session' = session \cup {new[i] : i \in 1 .. k}
        /\ fill_nodes' = [fill_nodes EXCEPT ![own[h]] = @ \o SubSeq(new, 1, k)]
    /\ halved' = halved \cup {h}
    /\ UNCHANGED <<alive, own, label_maps, fill_specs, pieces, log>>

\* Copy gone wrong: the lists are shared with the copy.
CopySharing(h, g) ==
    /\ h \in alive /\ g \in Hists \ alive
    /\ alive' = alive \cup {g}
    /\ own' = [own EXCEPT ![g] = own[h]]
    /\ axis_mode' = [axis_mode EXCEPT ![g] = axis_mode[h]]
    /\ axis_labels' = [axis_labels EXCEPT ![g] = axis_labels[h]]
    /\ log' = [log EXCEPT ![g] = log[h]]
    /\ halved' = IF h \in halved THEN halved \cup {g} ELSE halved
    /\ UNCHANGED <<lists, session, pieces>>

\* copy.copy(h), copy.deepcopy(h): the copy g has lists of its own with what h
\* recorded (_import_bh_), and the nodes themselves stay the session's.
Copy(h, g) ==
    /\ h \in alive /\ g \in Hists \ alive
    /\ alive' = alive \cup {g}
    /\ fill_nodes' = [fill_nodes EXCEPT ![own[g]] = Staged(h)]
    /\ label_maps' = [label_maps EXCEPT ![own[g]] = Maps(h)]
    /\ fill_specs' = [fill_specs EXCEPT ![own[g]] = Specs(h)]
    /\ axis_mode' = [axis_mode EXCEPT ![g] = axis_mode[h]]
    /\ axis_labels' = [axis_labels EXCEPT ![g] = axis_labels[h]]
    /\ log' = [log EXCEPT ![g] = log[h]]
    /\ halved' = IF h \in halved THEN halved \cup {g} ELSE halved
    /\ UNCHANGED <<own, session, pieces>>

-----------------------------------------------------------------------------
(* Planning *)

\* The node of label l in one fill's map: its own, or its nominal one.
Resolved(m, l) == IF l \in DOMAIN m THEN m[l] ELSE m[Nominal]

\* _output_labels: every label of any fill.
OutputLabels(h) == {Nominal} \cup UNION {DOMAIN m : m \in ToSet(Maps(h))}

\* _slots: per slot, the nodes it sums. Axis mode has one slot, under NoLabel;
\* an unvaried output one, the bare name, here under Nominal.
Slots(h) ==
    IF axis_mode[h] THEN [l \in {NoLabel} |-> Staged(h)]
    ELSE IF OutputLabels(h) = {Nominal} THEN [l \in {Nominal} |-> Staged(h)]
    ELSE [l \in OutputLabels(h) |-> [k \in DOMAIN Maps(h) |-> Resolved(Maps(h)[k], l)]]

\* Plans gone wrong: histograms with variations are taken too.
PlansAnySibling(h) == Staged(h) # <<>> /\ ~axis_mode[h]

\* Histogram.plan takes no histogram whose fills carry variations.
Plans(h) ==
    /\ Staged(h) # <<>>
    /\ ~axis_mode[h]
    /\ \A m \in ToSet(Maps(h)) : Cardinality(DOMAIN m) <= 1

\* MakePieces gone wrong: the varied slots are left out.
MakePiecesOfNominal(q, h) ==
    /\ pieces[q] = None
    /\ h \in alive /\ Staged(h) # <<>> /\ Specs(h) # <<>>
    /\ pieces' = [pieces EXCEPT ![q] =
            [hist |-> h, layout |-> Slots(h), state |-> "made",
             marked |-> {m[Nominal] : m \in ToSet(Maps(h))}]]
    /\ UNCHANGED <<alive, own, lists, axis_mode, axis_labels, session, log, halved>>

\* pieces({name: h}): the slot layout, and the nodes the plan marks.
MakePieces(q, h) ==
    /\ pieces[q] = None
    /\ h \in alive /\ Staged(h) # <<>> /\ Specs(h) # <<>>
    /\ pieces' = [pieces EXCEPT ![q] =
            [hist |-> h, layout |-> Slots(h), state |-> "made",
             marked |-> ToSet(Staged(h))]]
    /\ UNCHANGED <<alive, own, lists, axis_mode, axis_labels, session, log, halved>>

\* _variation_labels looks up every varied label's node in the compiled graph,
\* which holds the marked ones.
LabelsFound(p) ==
    \A l \in OutputLabels(p.hist) \ {Nominal} :
        \A m \in ToSet(Maps(p.hist)) : Resolved(m, l) \in p.marked

\* HistogramPieces.on_compiled: once per pieces. It records the positions, then
\* reads the labels of the histogram as it is now, and raises when it misses one.
Compile(q) ==
    /\ pieces[q] # None
    /\ pieces[q].state = "made"
    /\ pieces' = [pieces EXCEPT ![q].state = IF LabelsFound(pieces[q]) THEN "fed" ELSE "broken"]
    /\ UNCHANGED <<alive, own, lists, axis_mode, axis_labels, session, log, halved>>

Next ==
    \/ \E h \in Hists, f \in Fills :
        Fill(h, f) \/ SiblingRaises(h, f) \/ AxisRaises(h, f)
    \/ \E h, g \in Hists : Copy(h, g)
    \/ \E q \in Pieces : (\E h \in Hists : MakePieces(q, h)) \/ Compile(q)

Spec == Init /\ [][Next]_vars

-----------------------------------------------------------------------------
(* Properties *)

\* What node n adds to universe l: the value and weight members it reads.
AddsTo(n, l, c) ==
    \E m \in DOMAIN n.factors \cap {NoLabel, l} : c = <<n.value, n.factors[m]>>
Sums(nodes, l, c) == Cardinality({i \in DOMAIN nodes : AddsTo(nodes[i], l, c)})

\* What the fills of h that returned asked of universe l: each once, with its
\* nominal members when it does not carry l.
Reaches(f, l) == LET r == IF l \in f.labels THEN l ELSE Nominal IN <<f.value[r], f.weight[r]>>
Asked(h, l, c) == Cardinality({k \in DOMAIN log[h] : Reaches(log[h][k], l) = c})
Contents == UNION {{<<f.value[l], f.weight[l]>> : l \in f.labels} : f \in Fills}

SlotOf(h, l) ==
    CHOOSE key \in DOMAIN Slots(h) : key \in {l, NoLabel} \/ DOMAIN Slots(h) = {Nominal}

\* Every label's universe sums every fill exactly once, in the members that label
\* resolves to, whatever copies and refused fills led there (_slots).  Not of a histogram
\* an axis fill raised on midway: its nodes stay staged, and so does the mode.
UniversesSum ==
    \A h \in alive \ halved : Staged(h) # <<>> =>
        \A l \in OutputLabels(h) : \A c \in Contents :
            Sums(Slots(h)[SlotOf(h, l)], l, c) = Asked(h, l, c)

\* What Histogram.plan sums is nominal, each fill once: the universes of a
\* varied histogram are never merged.
PlanIsNominal ==
    \A h \in alive : Plans(h) =>
        \A c \in Contents :
            Cardinality({i \in DOMAIN Staged(h) : \E m \in DOMAIN Staged(h)[i].factors :
                c = <<Staged(h)[i].value, Staged(h)[i].factors[m]>>})
            = Asked(h, Nominal, c)

\* One output has one spec, the layout's, its first fill's; again not where an axis fill
\* raised, which leaves its mode and labels behind.
OneSpec == \A h \in alive \ halved : \A s \in ToSet(Specs(h)) : s = Specs(h)[1]

\* Compiling pieces misses a label's node only when the histogram was filled after they
\* were taken: "every node feeding a MARKED fill survives" until then (_variation_labels).
BrokenByLateFill ==
    \A q \in Pieces : pieces[q] # None /\ pieces[q].state = "broken" =>
        Slots(pieces[q].hist) # pieces[q].layout

\* A step changes what one histogram recorded, never that of a copy as well.
CopiesApart ==
    [][\A g, h \in alive : g # h =>
         \/ <<Staged(g), Maps(g), Specs(g)>>' = <<Staged(g), Maps(g), Specs(g)>>
         \/ <<Staged(h), Maps(h), Specs(h)>>' = <<Staged(h), Maps(h), Specs(h)>>]_vars
=============================================================================
