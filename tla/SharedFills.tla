----------------------------- MODULE SharedFills -----------------------------
(* Which object a sum changes.  A plan's slots may read one evaluated fill    *)
(* several times: a fill without a label's variation is every label's, and    *)
(* the optimizer merges equal fills.  _SumFills adds in place onto a total it *)
(* owns (Chunked.iadd); the combine makes new partials and may be given the   *)
(* same operands again.  Reduction has the numbers; here a partial is an      *)
(* object on a heap, and its content the fills added into it.                 *)
EXTENDS Naturals, FiniteSets, Sequences, SequencesExt

CONSTANTS
    Tasks,          \* how many tasks: 1 .. Tasks, in partition order
    Layouts,        \* the slot layouts: sequences of [reads, dense, kind]
    Outputs,        \* how many outputs a task evaluates to
    BH,             \* the kind a fill is evaluated to
    None,
    MaxCombines     \* bound: combines in all

ASSUME NumbersAssumption == {Tasks, Outputs, MaxCombines} \subseteq Nat /\ Tasks > 0
ASSUME NoneAssumption == None \notin Nat
ASSUME LayoutsAssumption ==
    \A lay \in Layouts :
        /\ Len(lay) \in Nat \ {0} /\ DOMAIN lay = 1 .. Len(lay)
        /\ \A s \in DOMAIN lay : lay[s].reads \in Seq(1 .. Outputs)

VARIABLES
    layout,         \* the plan's slots
    heap,           \* the partials made: [rep, kind, bag], by number
    fills,          \* fills[t]: <<>>, or the partial of each output of task t
    group,          \* group[t]: per slot the total so far, None before it starts
    at,             \* <<task, slot, read>>: what is added next
    values          \* the finished groups: [first, last, slots]

vars == <<layout, heap, fills, group, at, values>>

\* A partial's bag counts, per <<task, output>>, how often that fill is in it.
Cells == (1 .. Tasks) \X (1 .. Outputs)
NoFills == [c \in Cells |-> 0]
Plus(a, b) == [c \in Cells |-> a[c] + b[c]]
Partial(rep, kind, bag) == [rep |-> rep, kind |-> kind, bag |-> bag]
New == Len(heap) + 1

\* _ZeroHist, _GroupZero: the empty partial of a slot.
Zero(slot) == Partial(IF slot.dense THEN "dense" ELSE "chunked", slot.kind, NoFills)

\* Chunked.merged and boost's +: a new partial of a's kind, chunked when both are.
Sum(a, b) ==
    Partial(IF {a.rep, b.rep} = {"chunked"} THEN "chunked" ELSE "dense", a.kind,
            Plus(a.bag, b.bag))

Init ==
    /\ layout \in Layouts
    /\ heap = [s \in DOMAIN layout |-> Zero(layout[s])]
    /\ fills = [t \in 1 .. Tasks |-> <<>>]
    /\ group = [t \in 1 .. Tasks |-> [s \in DOMAIN layout |-> None]]
    /\ at = <<1, 1, 1>>
    /\ values = {[first |-> 1, last |-> 0, slots |-> [s \in DOMAIN layout |-> s]]}

Task == at[1]
Slot == at[2]
Summing == Task <= Tasks /\ fills[Task] # <<>>

\* The next task evaluates its outputs, chunked, or dense where a chunk's values made
\* it so.  Tasks share no partial, so they run one after the other here.
Evaluate(reps) ==
    /\ Task <= Tasks /\ fills[Task] = <<>>
    /\ fills' = [fills EXCEPT ![Task] = [o \in 1 .. Outputs |-> Len(heap) + o]]
    /\ heap' = heap \o [o \in 1 .. Outputs |->
                  Partial(reps[o], BH, [NoFills EXCEPT ![<<Task, o>>] = 1])]
    /\ UNCHANGED <<layout, group, at, values>>

\* _SumFills: a slot's total starts as a zero of its own.
Start ==
    /\ Summing /\ group[Task][Slot] = None
    /\ heap' = Append(heap, Zero(layout[Slot]))
    /\ group' = [group EXCEPT ![Task][Slot] = New]
    /\ UNCHANGED <<layout, fills, at, values>>

\* Added gone wrong: a fill is added in place on whichever partial is chunked.
AddedEitherWay(total, fill) ==
    IF "chunked" \in {heap[total].rep, heap[fill].rep}
    THEN LET own == IF heap[total].rep = "chunked" THEN total ELSE fill
         IN <<[heap EXCEPT ![own] = [Sum(@, heap[IF own = total THEN fill ELSE total])
                                     EXCEPT !.rep = "chunked"]], own>>
    ELSE <<Append(heap, Sum(heap[total], heap[fill])), New>>

\* Chunked.iadd on the total when both are chunked, else add_histograms: the heap
\* afterwards and the total.
Added(total, fill) ==
    IF {heap[total].rep, heap[fill].rep} = {"chunked"}
    THEN <<[heap EXCEPT ![total] = Sum(@, heap[fill])], total>>
    ELSE <<Append(heap, Sum(heap[total], heap[fill])), New>>

\* The next fill of the slot, read at its position.
Add ==
    /\ Summing /\ group[Task][Slot] # None /\ at[3] <= Len(layout[Slot].reads)
    /\ LET sum == Added(group[Task][Slot], fills[Task][layout[Slot].reads[at[3]]])
       IN heap' = sum[1] /\ group' = [group EXCEPT ![Task][Slot] = sum[2]]
    /\ at' = [at EXCEPT ![3] = @ + 1]
    /\ UNCHANGED <<layout, fills, values>>

\* The slot is summed: on to the next one, and after the last the task's value.
Done ==
    /\ Summing /\ group[Task][Slot] # None /\ at[3] > Len(layout[Slot].reads)
    /\ IF Slot < Len(layout)
       THEN at' = <<Task, Slot + 1, 1>> /\ UNCHANGED values
       ELSE /\ at' = <<Task + 1, 1, 1>>
            /\ values' = values \cup {[first |-> Task, last |-> Task, slots |-> group[Task]]}
    /\ UNCHANGED <<layout, heap, fills, group>>

\* Combined gone wrong: the left operand is added onto in place.
CombinedInPlace(a, b) ==
    <<[n \in DOMAIN heap |->
         IF \E s \in DOMAIN layout : n = a.slots[s]
         THEN LET s == CHOOSE s \in DOMAIN layout : n = a.slots[s]
              IN Sum(heap[n], heap[b.slots[s]])
         ELSE heap[n]], a.slots>>

\* _add_groups: add_histograms slot by slot.
Combined(a, b) ==
    <<heap \o [s \in DOMAIN layout |-> Sum(heap[a.slots[s]], heap[b.slots[s]])],
      [s \in DOMAIN layout |-> Len(heap) + s]>>

\* The runner combines two neighbours; it keeps them, and may combine them again.
Combine(a, b) ==
    /\ a.last + 1 = b.first /\ b.last >= b.first
    /\ Cardinality(values) - Task < MaxCombines     \* the zero and Task - 1 tasks' are no combine
    /\ LET c == Combined(a, b)
       IN /\ heap' = c[1]
          /\ values' = values \cup {[first |-> a.first, last |-> b.last, slots |-> c[2]]}
    /\ UNCHANGED <<layout, fills, group, at>>

Next ==
    \/ \E reps \in [1 .. Outputs -> {"chunked", "dense"}] : Evaluate(reps)
    \/ Start \/ Add \/ Done
    \/ \E a, b \in values : Combine(a, b)

Spec == Init /\ [][Next]_vars

-----------------------------------------------------------------------------
(* Properties *)

Values == {v.slots[s] : v \in values, s \in DOMAIN layout}
Fills == UNION {ToSet(fills[t]) : t \in 1 .. Tasks}

\* A slot's value holds each fill it reads once per read, of each of its tasks, and no
\* other, however its slots share fills and however often it was combined (_SumFills).
SlotsSum ==
    \A v \in values : \A s \in DOMAIN layout : \A c \in Cells :
        heap[v.slots[s]].bag[c] =
            IF c[1] \in v.first .. v.last
            THEN Cardinality({k \in DOMAIN layout[s].reads : layout[s].reads[k] = c[2]}) ELSE 0

\* No step changes an evaluated fill or a finished value: "neither operand changes"
\* (add_histograms), and iadd's "the caller owns self".
PartialsKept == [][\A n \in Values \cup Fills : heap'[n] = heap[n]]_vars
=============================================================================
