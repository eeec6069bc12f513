------------------------------ MODULE Lowering ------------------------------
(* How one fill call becomes nodes: its values, weight factors and sample are *)
(* unified, lifted and laid out as a node's inputs, with an evaluator that    *)
(* takes them off by position; nodes find their evaluators in registries      *)
(* merged over every histogram of a plan.  Recording has the lists and the    *)
(* modes; here it is what each label of each fill is filled with.             *)
EXTENDS Naturals, FiniteSets, Sequences, SequencesExt

CONSTANTS
    Hists,          \* deferred histograms of one spec, on one session
    Calls,          \* the fill calls, see below
    Ambient,        \* Ambient[c]: the weight of event context c, or Absent
    Depth,          \* Depth[b]: list depth of base column b
    Strings,        \* the base columns that have no power
    Nominal,        \* the label every operand has
    None,
    MaxFills        \* bound: fill calls that recorded anything, in all

(* A call is [args, weights, unweighted, sample, axis]; args and weights are  *)
(* sequences of operands, sample an operand or Absent.  An operand is         *)
(*   [kind |-> "const", value]: a scalar;                                     *)
(*   [kind |-> "factor", labels, member]: a ScalarFactor, a scalar per label; *)
(*   [kind |-> "array", labels, member, ctx]: an Array or a Varied of them,   *)
(* labels in its own order, Nominal first; ctx is its event context, 0 none,  *)
(* and each context is a selection of the ones below it.  A column (a graph   *)
(* node) is [base, at, scales]: the base column, the context whose rows it    *)
(* has, and the scalars multiplied into it.                                   *)

Absent == [kind |-> "none"]
IsConst(x) == x.kind = "const"
IsFactor(x) == x.kind = "factor"
IsArray(x) == x.kind = "array"
\* The members of a sequence that are in a set, in their order.
Only(xs, S) ==
    LET only[i \in 0 .. Len(xs)] ==
            IF i = 0 THEN <<>>
            ELSE only[i - 1] \o (IF xs[i] \in S THEN <<xs[i]>> ELSE <<>>)
    IN only[Len(xs)]
NodeFactors(xs) == Only(xs, {x \in ToSet(xs) : IsArray(x)})
MemberOf(x, l) == x.member[IF l \in DOMAIN x.member THEN l ELSE Nominal]
Optional(x) == IF x = Absent THEN <<>> ELSE <<x>>

\* An operand as it is passed: its members are columns at its own context, which
\* nothing was multiplied into.
Labelled(x) ==
    /\ x.labels \in Seq(DOMAIN x.member) /\ IsInjective(x.labels)
    /\ DOMAIN x.member = ToSet(x.labels)
    /\ Nominal \in DOMAIN x.member /\ None \notin DOMAIN x.member
Operand(x) ==
    \/ IsConst(x) /\ x = [kind |-> "const", value |-> x.value] /\ x.value # None
    \/ IsFactor(x) /\ x = [kind |-> "factor", labels |-> x.labels, member |-> x.member]
       /\ Labelled(x)
    \/ /\ IsArray(x) /\ Labelled(x) /\ x.ctx \in {0} \cup DOMAIN Ambient
       /\ x = [kind |-> "array", labels |-> x.labels, member |-> x.member, ctx |-> x.ctx]
       /\ x.member \in [DOMAIN x.member -> [base : DOMAIN Depth, at : {x.ctx}, scales : {<<>>}]]

ASSUME NoneAssumption == None # Nominal
ASSUME DepthAssumption == \A b \in DOMAIN Depth : <<"ones", b>> \notin DOMAIN Depth
ASSUME AmbientAssumption ==
    /\ DOMAIN Ambient \subseteq Nat \ {0} /\ IsFiniteSet(DOMAIN Ambient)
    /\ \A c \in DOMAIN Ambient : Ambient[c] # Absent =>
        Operand(Ambient[c]) /\ IsArray(Ambient[c]) /\ Ambient[c].ctx = c
\* A histogram has as many axes as another: they have one spec.
ASSUME CallsAssumption ==
    \A f \in Calls :
        /\ f.args \in Seq(ToSet(f.args)) /\ f.weights \in Seq(ToSet(f.weights))
        /\ \A x \in ToSet(f.args \o f.weights) : Operand(x)
        /\ f.sample # Absent => Operand(f.sample)
        /\ {f.axis, f.unweighted} \subseteq BOOLEAN
        /\ ~\E x \in ToSet(f.args) \cup {f.sample} : IsFactor(x)
        /\ \E x \in ToSet(f.args) : IsArray(x)
        /\ f.unweighted => f.weights = <<>>
        /\ \A g \in Calls : Len(f.args) = Len(g.args)
ASSUME HistsAssumption == IsFiniteSet(Hists)
ASSUME BoundAssumption == MaxFills \in Nat

VARIABLES
    session,        \* the columns and fill nodes recorded on the session's graph
    axis_mode,      \* axis_mode[h]
    axis_labels,    \* axis_labels[h]: the first axis fill's labels, or None
    evaluators,     \* evaluators[h]: by content hash, as materialize reads them
    partials,       \* partials[h]: by external key, as a plan reads them
    log             \* the calls: [hist, call, nodes], label to node, or <<>> if refused

vars == <<session, axis_mode, axis_labels, evaluators, partials, log>>

Init ==
    /\ session = {}
    /\ axis_mode = [h \in Hists |-> FALSE]
    /\ axis_labels = [h \in Hists |-> None]
    /\ evaluators = [h \in Hists |-> <<>>]
    /\ partials = [h \in Hists |-> <<>>]
    /\ log = <<>>

-----------------------------------------------------------------------------
(* Operands *)

Values(f) == NodeFactors(f.args)
Given(f) == Values(f) \o NodeFactors(f.weights) \o NodeFactors(<<f.sample>>)

\* unify_contexts: the innermost of the operands' contexts, 0 when none has one.
Unified(f) == Max({0} \cup {Given(f)[i].ctx : i \in DOMAIN Given(f)})
AmbientOf(f) == IF f.unweighted \/ Unified(f) = 0 THEN Absent ELSE Ambient[Unified(f)]

\* reindex_to: an operand of an outer context re-indexed to c's rows.
ReindexTo(x, c) ==
    IF x.ctx \in {0, c} THEN x
    ELSE [x EXCEPT !.ctx = c, !.member = [l \in DOMAIN @ |-> [@[l] EXCEPT !.at = c]]]

Extend(s, t) == s \o Only(t, ToSet(t) \ ToSet(s))

\* The product of an array and a scalar factor, label by label.
Times(x, factor) ==
    LET labels == Extend(x.labels, factor.labels)
    IN [x EXCEPT !.labels = labels,
                 !.member = [l \in ToSet(labels) |->
                     [MemberOf(x, l) EXCEPT !.scales = Append(@, MemberOf(factor, l))]]]

\* _ones: a one per entry of the first value that is numeric.
Numeric(f) ==
    Only(Values(f), {x \in ToSet(Values(f)) : x.member[Nominal].base \notin Strings})
Ones(f) ==
    LET x == Numeric(f)[1]
    IN [kind |-> "array", labels |-> <<Nominal>>, ctx |-> x.ctx,
        member |-> [l \in {Nominal} |-> [x.member[Nominal] EXCEPT !.base = <<"ones", @>>]]]

\* _lifted: the scalar factors go into the first array factor, or into ones.
Lifted(f) ==
    LET factors == {x \in ToSet(f.weights) : IsFactor(x)}
        flat == Only(f.weights, factors)
        rest == Only(f.weights, ToSet(f.weights) \ factors)
        arrayed == IF NodeFactors(rest) = <<>> THEN <<Ones(f)>> \o rest ELSE rest
        first == Min({i \in DOMAIN arrayed : IsArray(arrayed[i])})
    IN IF flat = <<>> THEN f.weights
       ELSE [arrayed EXCEPT ![first] = FoldLeft(Times, @, flat)]

\* What _checked_operands and _lifted refuse, recording nothing, of calls otherwise
\* well formed. A sample goes with the one storage of the histograms or never does:
\* boost raises on any other fill, when it is evaluated.
Accepts(h, f) ==
    /\ (\E k \in DOMAIN log : log[k].hist = h /\ log[k].nodes # <<>>) => f.axis = axis_mode[h]
    /\ \A k \in DOMAIN log : (log[k].call.sample = Absent) <=> (f.sample = Absent)
    /\ (\E i \in DOMAIN f.weights : IsFactor(f.weights[i])) /\ NodeFactors(f.weights) = <<>>
           => Numeric(f) # <<>>

\* The call's operands once unified: what both lowerings read (_Lowering).
Axes(f) == [i \in DOMAIN Values(f) |-> ReindexTo(Values(f)[i], Unified(f))]
Applied(f) ==
    LET ws == NodeFactors(Lifted(f))
    IN Optional(AmbientOf(f)) \o [i \in DOMAIN ws |-> ReindexTo(ws[i], Unified(f))]
Sampled(f) ==
    IF IsArray(f.sample) THEN <<ReindexTo(f.sample, Unified(f))>> ELSE <<>>

\* _fold_labels, over the columns the call reads.
Labels(f) ==
    FoldLeft(LAMBDA seen, x : Extend(seen, x.labels), <<Nominal>>,
             Axes(f) \o Applied(f) \o Sampled(f))

\* _constants: the scalars by slot; a weight's slot counts the ambient one.
Fixed(f) ==
    LET slots(xs) == [i \in {i \in DOMAIN xs : IsConst(xs[i])} |-> xs[i].value]
    IN [axes |-> slots(f.args), weights |-> slots(Optional(AmbientOf(f)) \o Lifted(f)),
        sample |-> IF IsConst(f.sample) THEN f.sample.value ELSE None]

NWeights(f) == Len(Optional(AmbientOf(f)) \o Lifted(f))

\* The evaluator of a sibling node; an axis node's has its labels and axis too.
Shape(f) ==
    [axis |-> {}, n_axes |-> Len(f.args), has_weight |-> NWeights(f) > 0,
     has_sample |-> f.sample # Absent, n_weights |-> Max({NWeights(f), 1}),
     variation |-> <<>>, fixed |-> Fixed(f)]

\* _mixed_row_spaces and the rest of what makes a fill record its broadcasts.
Broadcast(f) ==
    LET depth(x) == Depth[IF x.member[Nominal].base \in DOMAIN Depth
                          THEN x.member[Nominal].base ELSE x.member[Nominal].base[2]]
        varied(x) == Len(x.labels) > 1
    IN \/ Unified(f) # 0
       \/ \E x \in ToSet(Given(f) \o NodeFactors(Lifted(f))) : varied(x)
       \/ \E x \in ToSet(Applied(f)) : depth(x) < depth(Axes(f)[1])

\* Blame gone wrong: the ambient weight is not told from the first factor.
BlameWithoutAmbient(f) ==
    IF Unified(f) # 0 /\ Values(f)[1].ctx = 0
    THEN [i \in DOMAIN Applied(f) |-> <<"value", 0>>]
    ELSE [i \in DOMAIN Applied(f) |-> <<"weight", i - 1>>]

\* _blame: per applied factor, the coordinate its guard names.
Blame(f) ==
    IF Unified(f) # 0 /\ Values(f)[1].ctx = 0
    THEN [i \in DOMAIN Applied(f) |-> <<"value", 0>>]
    ELSE (IF AmbientOf(f) = Absent THEN <<>> ELSE <<<<"ambient", 0>>>>)
             \o [i \in DOMAIN NodeFactors(Lifted(f)) |-> <<"weight", i - 1>>]

-----------------------------------------------------------------------------
(* Nodes *)

Input(column) == [column |-> column, blame |-> None, like |-> None]

\* The weight inputs of label l against value: guarded and broadcast, or as they are.
WeightBlock(f, l, value) ==
    [i \in DOMAIN Applied(f) |->
        LET narrowed == MemberOf(Applied(f)[i], l)
        IN IF Broadcast(f) THEN [column |-> narrowed, blame |-> Blame(f)[i], like |-> value]
                           ELSE Input(narrowed)]
Members(xs, l) == [i \in DOMAIN xs |-> Input(MemberOf(xs[i], l))]

\* FillChash gone wrong: an unweighted fill has the canonical hash.
FillChashAnyWeight(ev) ==
    [axis |-> ev.axis, n_weights |-> ev.n_weights, variation |-> ev.variation, fixed |-> ev.fixed]

\* _fill_chash, as what it folds in; the spec is the histograms' one.
FillChash(ev) ==
    [axis |-> ev.axis, has_weight |-> ev.has_weight, n_weights |-> ev.n_weights,
     variation |-> ev.variation, fixed |-> ev.fixed]

\* A fill node, and external_key of it; FillParams is _fill_params.
FillParams(f, ev) ==
    [axis |-> ev.axis, n_axes |-> Len(Values(f)), weighted |-> ev.has_weight,
     sampled |-> ev.has_sample, variation |-> ev.variation, n_weights |-> ev.n_weights,
     fixed |-> ev.fixed]
FillNode(f, ev, inputs) ==
    [inputs |-> inputs, params |-> FillParams(f, ev), chash |-> FillChash(ev)]
ExternalKey(node) == <<node.chash, node.params>>

\* A sibling node's inputs: its value members, its weights, its sample.
SiblingInputs(f, l) ==
    LET values == Members(Axes(f), l)
    IN values \o WeightBlock(f, l, values[1].column) \o Members(Sampled(f), l)
SiblingNode(f, l) == FillNode(f, Shape(f), SiblingInputs(f, l))

\* The labels of one axis node: those whose value and sample members are l's.
GroupOf(f, l) ==
    Only(Labels(f), {m \in ToSet(Labels(f)) :
        \A x \in ToSet(Axes(f) \o Sampled(f)) : MemberOf(x, m) = MemberOf(x, l)})

\* AxisInputs gone wrong: the sample comes last, as in a sibling's.
AxisInputsSampleLast(f, group) ==
    LET values == Members(Axes(f), group[1])
    IN values \o FlattenSeq([k \in DOMAIN group |-> WeightBlock(f, group[k], values[1].column)])
       \o Members(Sampled(f), group[1])

\* An axis node's inputs: value members, sample, then the weights of each label.
AxisInputs(f, group) ==
    LET values == Members(Axes(f), group[1])
    IN values \o Members(Sampled(f), group[1])
       \o FlattenSeq([k \in DOMAIN group |-> WeightBlock(f, group[k], values[1].column)])
AxisShape(f, group) == [Shape(f) EXCEPT !.axis = ToSet(Labels(f)), !.variation = group]
AxisNode(f, group) == FillNode(f, AxisShape(f, group), AxisInputs(f, group))

NodeOf(f, l) == IF f.axis THEN AxisNode(f, GroupOf(f, l)) ELSE SiblingNode(f, l)
ShapeOf(f, l) == IF f.axis THEN AxisShape(f, GroupOf(f, l)) ELSE Shape(f)
NodesOf(f) == [l \in ToSet(Labels(f)) |-> NodeOf(f, l)]
ShapesOf(f) == [l \in ToSet(Labels(f)) |-> ShapeOf(f, l)]

\* The columns recorded before a node is: what lifting and re-indexing make.
Prepared(f) ==
    UNION {{x.member[l] : l \in DOMAIN x.member} : x \in
        (ToSet(NodeFactors(Lifted(f))) \cup ToSet(Axes(f) \o Applied(f) \o Sampled(f)))
            \ ToSet(Given(f) \o Optional(AmbientOf(f)))}

\* A dictionary updated with another one's entries.
Over(new, old) ==
    [k \in DOMAIN new \cup DOMAIN old |-> IF k \in DOMAIN new THEN new[k] ELSE old[k]]

\* _register, once per node, under its label's key: the last one under a key stays.
Registered(registry, shapes, keys) ==
    LET made == {[key |-> keys[l], ev |-> shapes[l]] : l \in DOMAIN shapes}
    IN Over([k \in {m.key : m \in made} |-> (CHOOSE m \in made : m.key = k).ev], registry)

ChashOf(node) == node.chash

\* _guard: one evaluator per coordinate blamed, under its own hash.
Guards(f) ==
    IF Broadcast(f) THEN [k \in {[guard |-> b] : b \in Range(Blame(f))} |-> k] ELSE <<>>

\* A call lowered: its labels, their nodes and evaluators, its guards, and what is
\* recorded before (_Lowering); a fill makes it once.
LoweringOf(f) ==
    [labels |-> Labels(f), nodes |-> NodesOf(f), shapes |-> ShapesOf(f),
     guards |-> Guards(f), prepared |-> Prepared(f)]

\* An axis fill keeps the first one's labels.
Matches(h, f, labels) ==
    f.axis /\ axis_labels[h] # None => ToSet(labels) = ToSet(axis_labels[h])

Fill(h, f) ==
    /\ Len(log) < MaxFills /\ Accepts(h, f)
    /\ \E low \in {LoweringOf(f)} :
        /\ Matches(h, f, low.labels)
        /\ session' = session \cup low.prepared \cup Range(low.nodes)
        /\ axis_mode' = [axis_mode EXCEPT ![h] = f.axis]
        /\ axis_labels' = [axis_labels EXCEPT ![h] = IF f.axis THEN low.labels ELSE @]
        /\ evaluators' = [evaluators EXCEPT ![h] =
                Over(low.guards, Registered(@, low.shapes,
                    [l \in DOMAIN low.nodes |-> ChashOf(low.nodes[l])]))]
        /\ partials' = [partials EXCEPT ![h] =
                Registered(@, low.shapes, [l \in DOMAIN low.nodes |-> ExternalKey(low.nodes[l])])]
        /\ log' = Append(log, [hist |-> h, call |-> f, nodes |-> low.nodes])

\* An axis fill whose labels are refused, once its operands are lifted and re-indexed.
RefuseLabels(h, f) ==
    /\ Len(log) < MaxFills /\ Accepts(h, f)
    /\ \E low \in {LoweringOf(f)} :
        /\ ~Matches(h, f, low.labels)
        /\ session' = session \cup low.prepared
        /\ log' = Append(log, [hist |-> h, call |-> f, nodes |-> <<>>])
        /\ UNCHANGED <<axis_mode, axis_labels, evaluators, partials>>

Next == \E h \in Hists, f \in Calls : Fill(h, f) \/ RefuseLabels(h, f)

Spec == Init /\ [][Next]_vars

-----------------------------------------------------------------------------
(* Evaluation *)

Raises == <<>>      \* no cell: boost, or popping an input too many, raised

\* _place: n columns, each constant in its slot and the others off rest in order.
Taken(n, fixed) == Cardinality((1 .. n) \ DOMAIN fixed)
Place(rest, n, fixed) ==
    [i \in 1 .. n |-> IF i \in DOMAIN fixed THEN [const |-> fixed[i]] ELSE rest[Taken(i, fixed)]]
Drop(rest, n) == SubSeq(rest, n + 1, Len(rest))

\* FillEvaluator._fill: the cells one chunk's inputs are filled into, by label, as
\* the columns each is filled with; what is left of the inputs is not read.
Evaluate(ev, inputs) ==
    LET nAxes == Taken(ev.n_axes, ev.fixed.axes)
        block == IF ev.has_weight THEN Taken(ev.n_weights, ev.fixed.weights) ELSE 0
        popped == IF ev.has_sample /\ ev.fixed.sample = None THEN 1 ELSE 0
        rest == Drop(inputs, nAxes)
        axes == Place(inputs, ev.n_axes, ev.fixed.axes)
        weight(r) == IF ev.has_weight THEN Place(r, ev.n_weights, ev.fixed.weights) ELSE <<>>
        sample(r) == IF ~ev.has_sample THEN <<>>
                     ELSE IF popped = 0 THEN <<[const |-> ev.fixed.sample]>> ELSE <<r[1]>>
        loops == Max({1, Len(ev.variation)})
    IN IF Len(inputs) < nAxes + popped + loops * block THEN Raises
       ELSE IF ev.variation = <<>>
       THEN <<[label |-> None, axes |-> axes, weight |-> weight(rest),
               sample |-> sample(Drop(rest, block))]>>
       ELSE [k \in DOMAIN ev.variation |->
               [label |-> ev.variation[k], axes |-> axes, sample |-> sample(rest),
                weight |-> weight(Drop(rest, popped + (k - 1) * block))]]

-----------------------------------------------------------------------------
(* Properties *)

\* A column as the scalars and base it multiplies; ones multiply nothing.
Content(input) ==
    IF "const" \in DOMAIN input THEN <<input.const>>
    ELSE LET c == input.column
         IN (IF c.base \in DOMAIN Depth THEN <<<<c.base, c.at>>>> ELSE <<>>) \o c.scales
Counts(s) == [a \in ToSet(s) |-> Cardinality({i \in DOMAIN s : s[i] = a})]
Filled(cell) ==
    [axes |-> [i \in DOMAIN cell.axes |-> Content(cell.axes[i])],
     weight |-> Counts(FlattenSeq([i \in DOMAIN cell.weight |-> Content(cell.weight[i])])),
     sample |-> [i \in DOMAIN cell.sample |-> Content(cell.sample[i])]]

\* What the call says label l is filled with: each operand's member for it, at the
\* rows of the innermost context, unless the operand has none.
Meant(f, x, l) ==
    IF IsConst(x) THEN <<x.value>>
    ELSE IF IsFactor(x) THEN <<MemberOf(x, l)>>
    ELSE <<<<MemberOf(x, l).base, IF x.ctx = 0 THEN 0 ELSE Unified(f)>>>> \o MemberOf(x, l).scales
Asked(f, l) ==
    LET factors == Optional(AmbientOf(f)) \o f.weights
    IN [axes |-> [i \in DOMAIN f.args |-> Meant(f, f.args[i], l)],
        weight |-> Counts(FlattenSeq([i \in DOMAIN factors |-> Meant(f, factors[i], l)])),
        sample |-> [i \in DOMAIN Optional(f.sample) |-> Meant(f, f.sample, l)]]

\* A plan's registry: the histograms' own merged in some order, a later one over
\* an earlier one's entry (pieces, gh.evaluators).
Merged(registry, order) == FoldLeft(LAMBDA all, h : Over(registry[h], all), <<>>, order)
Orders == SetToSeqs(Hists)

\* Label l of a logged fill is filled, by the evaluator its node finds, in one cell.
FillsAsAsked(entry, l, registry, Key(_)) ==
    LET node == entry.nodes[l]
        cells == Evaluate(registry[Key(node)], node.inputs)
        own == {k \in DOMAIN cells : cells[k].label \in {l, None}}
    IN /\ Cardinality(own) = 1
       /\ \A k \in own : Filled(cells[k]) = Asked(entry.call, l)

\* In a plan of the histograms together, every label of every fill is filled with
\* that label's members of the values, the ambient weight, each factor once, and
\* the sample, at one context's rows, whichever evaluator its key finds there
\* (pieces merges the partials; FillEvaluator takes the inputs off by position).
PlanFillsAsAsked ==
    \A order \in Orders : \A k \in DOMAIN log : \A l \in DOMAIN log[k].nodes :
        FillsAsAsked(log[k], l, Merged(partials, order), ExternalKey)

\* So is it by gh.evaluators, where the content hash alone is the key: "two
\* same-spec fills whose evaluators DIFFER must get distinct hashes" (_fill_chash).
MaterializeFillsAsAsked ==
    \A order \in Orders : \A k \in DOMAIN log : \A l \in DOMAIN log[k].nodes :
        FillsAsAsked(log[k], l, Merged(evaluators, order), ChashOf)

Guarded(k, l) == {i \in ToSet(log[k].nodes[l].inputs) : i.blame # None}
GuardsFactor(i, x) == \E m \in DOMAIN x.member : x.member[m].base = i.column.base

\* A guard blames the operand it guards: the ambient weight; the i-th array of
\* weight=, or the ones that stand for it; or the first value, when that is the
\* one without a context (_blame).
BlamesTheOffender ==
    \A k \in DOMAIN log : \A l \in DOMAIN log[k].nodes : \A i \in Guarded(k, l) :
        LET f == log[k].call
            ws == NodeFactors(f.weights)
        IN CASE i.blame[1] = "ambient" -> GuardsFactor(i, AmbientOf(f))
             [] i.blame[1] = "value" -> Values(f)[1].ctx = 0 /\ \E x \in ToSet(Given(f)) : x.ctx > 0
             [] OTHER -> IF ws = <<>> THEN i.column.base \notin DOMAIN Depth
                                      ELSE GuardsFactor(i, ws[i.blame[2] + 1])
=============================================================================
