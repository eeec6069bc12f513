------------------------------ MODULE Reduction ------------------------------
(* One histogram's way through a run: each task fills its chunk into fresh    *)
(* partials (FillEvaluator), sums them into its slot (_SumFills), and the     *)
(* runner adds the tasks' slots, neighbours only, in any tree                 *)
(* (add_histograms).  A histogram has one category axis and one axis of unit  *)
(* bins; each of them may grow; a partial is chunked or dense.                *)
EXTENDS Integers, FiniteSets, Sequences, SequencesExt

CONSTANTS
    Tasks,          \* how many tasks: they are 1 .. Tasks, in partition order
    Cats,           \* the categories
    Shapes,         \* the specs: [grows, cats, widens, lo, n, dense]
    Runs,           \* [reads, data]: the outputs a slot's fills read, and per
                    \* task and output the batches its evaluator fills
    Inf             \* a value no bin holds

(* A spec s declares s.cats (and grows them, or keeps an overflow bin) and the *)
(* bins s.lo .. s.lo + s.n - 1 (and widens them, or not); s.dense says the    *)
(* histogram is dense_backed.  A batch is [odd, events], odd when its values  *)
(* are ones the grouping by category cannot reproduce; an event is [cat, x].  *)

Events == [cat : Cats, x : Int \cup {Inf}]
BatchTypes == [odd : BOOLEAN, events : Seq(Events)]

Batches(r, p, o) == r.data[p][o]
EventsOf(bs) == FlattenSeq([k \in DOMAIN bs |-> bs[k].events])

ASSUME TasksAssumption == Tasks \in Nat \ {0}
ASSUME ShapesAssumption ==
    \A s \in Shapes : /\ s \in [grows : BOOLEAN, widens : BOOLEAN, dense : BOOLEAN,
                                cats : Seq(Cats), lo : Int, n : Nat \ {0}]
                      /\ IsInjective(s.cats)
ASSUME RunsAssumption ==
    \A r \in Runs : /\ DOMAIN r.data = 1 .. Tasks
                    /\ \A p \in 1 .. Tasks : /\ r.data[p] \in Seq(Seq(BatchTypes))
                                             /\ r.reads \in Seq(DOMAIN r.data[p])

\* No value that grows an axis follows a non-finite one in the same partial: boost
\* then moves the non-finite one's entry, which the docs exclude and so does Widened.
ASSUME FiniteFirst ==
    \A r \in Runs, p \in 1 .. Tasks : \A o \in DOMAIN r.data[p] :
        LET es == EventsOf(Batches(r, p, o))
        IN \A i, j \in DOMAIN es : i < j /\ es[i].x = Inf => es[j].x = Inf

VARIABLES
    shape,          \* the histogram's spec
    run,            \* the staged fills and the data
    tree,           \* tree[p]: the partial that starts at task p, 0 being the empty one
    upto,           \* upto[p]: the last task it holds
    result          \* the plan's value

vars == <<shape, run, tree, upto, result>>

None == [rep |-> "none"]
Refused == [rep |-> "refused"]      \* what boost's + raises on
IsChunked(h) == h.rep = "chunked"
Position(s, c) == CHOOSE i \in DOMAIN s : s[i] = c
Seen(s, c) == IF c \in Range(s) THEN s ELSE Append(s, c)
Extend(s, t) == FoldLeft(LAMBDA seen, c : Seen(seen, c), s, t)
FirstSeen(s) == Extend(<<>>, s)

-----------------------------------------------------------------------------
(* Dense histograms: rows are categories by index (an axis that does not grow *)
(* has one more, its overflow), columns are bins, 0 and n + 1 the flow bins.  *)

Rows(s, cats) == 1 .. Len(cats) + (IF s.grows THEN 0 ELSE 1)
RowOf(s, cats, c) == IF c \in Range(cats) THEN Position(cats, c) ELSE Len(cats) + 1
ColumnOf(lo, n, x) ==
    IF x = Inf \/ x >= lo + n THEN n + 1 ELSE IF x < lo THEN 0 ELSE x - lo + 1
DenseHist(s, cats, lo, n, At(_, _)) ==
    [rep |-> "dense", cats |-> cats, lo |-> lo, n |-> n,
     bins |-> [c \in Rows(s, cats) \X (0 .. n + 1) |-> At(c[1], c[2])]]
ZeroOf(s) == DenseHist(s, s.cats, s.lo, s.n, LAMBDA r, i : 0)

\* h's count at row r and column i of an axis of categories cats.
AtRow(s, h, cats, r, i) ==
    IF r > Len(cats) THEN h.bins[<<Len(h.cats) + 1, i>>]
    ELSE IF cats[r] \in Range(h.cats) THEN h.bins[<<Position(h.cats, cats[r]), i>>] ELSE 0

\* _union: the axis spanning a's and b's, on their one grid; a's own when the axis
\* does not grow or the two are equal.
Union(s, a, b) ==
    LET k == b.lo - a.lo
    IN IF ~s.widens THEN [lo |-> a.lo, n |-> a.n]
       ELSE [lo |-> IF k < 0 THEN b.lo ELSE a.lo,
             n |-> Max({a.n, k + b.n}) - Min({0, k})]

\* _onto: h on the wider axis u, bins shifted, flow bins to flow bins.
Onto(s, h, u) ==
    LET first == h.lo - u.lo
    IN DenseHist(s, h.cats, u.lo, u.n,
           LAMBDA r, i : IF i = 0 THEN h.bins[<<r, 0>>]
                         ELSE IF i = u.n + 1 THEN h.bins[<<r, h.n + 1>>]
                         ELSE IF i - first \in 1 .. h.n THEN h.bins[<<r, i - first>>]
                         ELSE 0)

\* boost's +: refused unless the bins are the same; growing categories come out as
\* a's, then b's new ones.
Native(s, a, b) ==
    LET cats == IF s.grows THEN Extend(a.cats, b.cats) ELSE a.cats
    IN IF <<a.lo, a.n>> # <<b.lo, b.n>> THEN Refused
       ELSE DenseHist(s, cats, a.lo, a.n,
                LAMBDA r, i : AtRow(s, a, cats, r, i) + AtRow(s, b, cats, r, i))

\* boost's fill of one event, growing the axes that grow; then of a batch.
EagerFillOne(s, h, e) ==
    LET cats == IF s.grows THEN Extend(h.cats, <<e.cat>>) ELSE h.cats
        fits == ~s.widens \/ e.x = Inf \/ e.x \in h.lo .. h.lo + h.n - 1
        lo == IF fits THEN h.lo ELSE Min({h.lo, e.x})
        n == IF fits THEN h.n ELSE Max({h.lo + h.n - 1, e.x}) - lo + 1
        g == IF fits THEN h ELSE Onto(s, h, [lo |-> lo, n |-> n])
    IN DenseHist(s, cats, lo, n,
           LAMBDA r, i : AtRow(s, g, cats, r, i)
               + IF <<r, i>> = <<RowOf(s, cats, e.cat), ColumnOf(lo, n, e.x)>> THEN 1 ELSE 0)
EagerFill(s, h, events) == FoldLeft(LAMBDA g, e : EagerFillOne(s, g, e), h, events)

-----------------------------------------------------------------------------
(* Chunked partials: per category key one slice of the other axis.  A growing *)
(* axis is keyed by category, a declared one by row.                          *)

Chunkable(s) == ~s.widens
KeyOf(s, c) == IF s.grows THEN c ELSE RowOf(s, s.cats, c)
NoChunks(s) ==
    [rep |-> "chunked", keys |-> IF s.grows THEN s.cats ELSE <<>>, chunks |-> <<>>]
Empty(s) == IF Chunkable(s) THEN NoChunks(s) ELSE ZeroOf(s)

\* One key's slice more, as hist's ChunkedHist adds it.
ChunkAt(h, k, i) == IF k \in DOMAIN h.chunks THEN h.chunks[k][i] ELSE 0
AddSlice(s, h, k, slice) ==
    [h EXCEPT !.keys = Extend(@, <<k>>),
              !.chunks = [j \in DOMAIN @ \cup {k} |->
                  IF j = k THEN [i \in 0 .. s.n + 1 |-> ChunkAt(h, k, i) + slice[i]]
                           ELSE @[j]]]

\* _groups: the batch by key, in first-seen order; Chunked.fill fills each group.
GroupKeys(s, events) == FirstSeen([j \in DOMAIN events |-> KeyOf(s, events[j].cat)])
Slice(s, k, events) ==
    [i \in 0 .. s.n + 1 |-> Cardinality({j \in DOMAIN events :
        KeyOf(s, events[j].cat) = k /\ ColumnOf(s.lo, s.n, events[j].x) = i})]
FillChunks(s, h, events) ==
    FoldLeft(LAMBDA g, k : AddSlice(s, g, k, Slice(s, k, events)), h, GroupKeys(s, events))

\* Merged gone wrong: the right operand's order first.
MergedRightFirst(s, a, b) == FoldLeft(LAMBDA g, k : AddSlice(s, g, k, a.chunks[k]), b,
                                      SelectSeq(a.keys, LAMBDA k : k \in DOMAIN a.chunks))

\* Chunked.iadd and Chunked.merged.
Merged(s, a, b) ==
    [rep |-> "chunked", keys |-> Extend(a.keys, b.keys),
     chunks |-> [k \in DOMAIN a.chunks \cup DOMAIN b.chunks |->
                     [i \in 0 .. s.n + 1 |-> ChunkAt(a, k, i) + ChunkAt(b, k, i)]]]

\* Chunked.dense: the growing categories as filled, every slice at its row.
Dense(s, h) ==
    IF IsChunked(h)
    THEN LET cats == IF s.grows THEN h.keys ELSE s.cats
         IN DenseHist(s, cats, s.lo, s.n,
                LAMBDA r, i : ChunkAt(h, IF s.grows THEN cats[r] ELSE r, i))
    ELSE h

\* Chunked.fill, or the dense fill it falls back to and then stays with.
Fill(s, h, b) ==
    IF IsChunked(h) /\ ~b.odd THEN FillChunks(s, h, b.events)
                              ELSE EagerFill(s, Dense(s, h), b.events)

\* The dense half of add_histograms: the sum on the union of the bins.
AddDense(s, x, y) ==
    LET a == Dense(s, x)
        b == Dense(s, y)
        u == Union(s, a, b)
    IN IF Refused \in {x, y} THEN Refused
       ELSE IF <<a.lo, a.n>> # <<b.lo, b.n>> /\ s.widens
       THEN Native(s, Onto(s, a, u), Onto(s, b, u))
       ELSE Native(s, a, b)

\* add_histograms: chunked when both are, else dense, on the union of the bins.
AddHistograms(s, x, y) ==
    IF IsChunked(x) /\ IsChunked(y) THEN Merged(s, x, y) ELSE AddDense(s, x, y)

-----------------------------------------------------------------------------
(* The plan's callables, and the runner that calls them *)

ZeroHist(s) == IF s.dense THEN ZeroOf(s) ELSE Empty(s)
Evaluate(s, batches) == FoldLeft(LAMBDA h, b : Fill(s, h, b), Empty(s), batches)

\* SumFills gone wrong: a shared output is read once.
SumOutputs(s, fills, reads) ==
    FoldLeft(LAMBDA total, o : AddHistograms(s, total, fills[o]), ZeroHist(s), FirstSeen(reads))

\* _SumFills: every staged fill read at its position, a shared output once per fill.
SumFills(s, fills, reads) ==
    FoldLeft(LAMBDA total, o : AddHistograms(s, total, fills[o]), ZeroHist(s), reads)

Init ==
    /\ shape \in Shapes
    /\ run \in Runs
    /\ tree = [p \in 0 .. Tasks |-> IF p = 0 THEN ZeroHist(shape) ELSE None]
    /\ upto = [p \in 0 .. Tasks |-> p]
    /\ result = None

\* Task p: evaluate the plan's outputs on its chunk, and reduce them.
Task(p) ==
    /\ p > 0 /\ tree[p] = None /\ upto[p] = p
    /\ \A q \in 0 .. p - 1 : upto[q] < p
    /\ LET fills == [o \in DOMAIN run.data[p] |-> Evaluate(shape, Batches(run, p, o))]
       IN tree' = [tree EXCEPT ![p] = SumFills(shape, fills, run.reads)]
    /\ UNCHANGED <<shape, run, upto, result>>

\* The runner combines two neighbours, the lower-numbered tasks on the left.
Combine(p) ==
    LET q == upto[p] + 1
    IN /\ q <= Tasks /\ tree[p] # None /\ tree[q] # None
       /\ tree' = [tree EXCEPT ![p] = AddHistograms(shape, tree[p], tree[q]), ![q] = None]
       /\ upto' = [upto EXCEPT ![p] = upto[q]]
       /\ UNCHANGED <<shape, run, result>>

\* The plan's finalize, on what is left: every slot dense.
Finalize ==
    /\ upto[0] = Tasks /\ result = None
    /\ result' = Dense(shape, tree[0])
    /\ UNCHANGED <<shape, run, tree, upto>>

Over == result # None /\ UNCHANGED vars

Next ==
    \/ \E p \in 1 .. Tasks : Task(p)
    \/ \E p \in 0 .. Tasks : Combine(p)
    \/ Finalize
    \/ Over

Spec == Init /\ [][Next]_vars

-----------------------------------------------------------------------------
(* Properties *)

\* The events of the staged fills of tasks p .. q: task by task, and within one,
\* fill by fill.
EventsIn(p, q) ==
    FlattenSeq([k \in 1 .. q - p + 1 |-> FlattenSeq([j \in DOMAIN run.reads |->
        EventsOf(Batches(run, p + k - 1, run.reads[j]))])])

\* What the docs say a run gives: categories in first-seen order, bins from the
\* lowest value to the highest, and every event counted at its place.
Counted(s, events) ==
    LET seen == [j \in DOMAIN events |-> events[j].cat]
        cats == IF s.grows THEN Extend(s.cats, FirstSeen(seen)) ELSE s.cats
        finite == {events[j].x : j \in DOMAIN events} \ {Inf}
        spanned == finite \cup {s.lo, s.lo + s.n - 1}
        lo == IF s.widens THEN Min(spanned) ELSE s.lo
        n == IF s.widens THEN Max(spanned) - lo + 1 ELSE s.n
    IN DenseHist(s, cats, lo, n, LAMBDA r, i : Cardinality({j \in DOMAIN events :
           /\ RowOf(s, cats, events[j].cat) = r
           /\ ColumnOf(lo, n, events[j].x) = i}))

Held(p) == IF p = 0 THEN EventsIn(1, upto[0]) ELSE EventsIn(p, upto[p])
Present == {p \in 0 .. Tasks : tree[p] # None}

\* Whatever tree the runner combines in, each partial stands for exactly the
\* events of its tasks: the categories in partition order, the bins spanning
\* them, every entry in its bin, and a fill the optimizer merged with another
\* counted once per staged fill.
PartialsAddUp == \A p \in Present : Dense(shape, tree[p]) = Counted(shape, Held(p))

\* "A single fill's categories in first-appearance order ... everything else equals
\* one eager fill": with one fill of finite values, the result is boost's own
\* fill of the whole dataset, chunked or not, whatever the tree.
SingleFillIsEager ==
    LET events == EventsIn(1, Tasks)
    IN result # None /\ Len(run.reads) = 1 /\ (\A j \in DOMAIN events : events[j].x # Inf)
           => result = EagerFill(shape, ZeroOf(shape), events)

=============================================================================
