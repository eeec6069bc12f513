# graphed-histogram: models, checks and proofs

graphed-histogram records histogram fills into a graphed session, turns them into plans, and
aggregates what the tasks of a plan fill: in memory, chunked by category, or on histserv servers
sized and packed before the run. This directory holds TLA+ models of that code, the TLC
configurations that check them, and proofs about all of them. Paths below are relative to the
repository; the package is `src/graphed_histogram/`.

## Inventory

| Part | Code | State it keeps | Operations | Hard because |
|---|---|---|---|---|
| Recording | `boost.py` `Histogram`, `_fill.py` folding | fill nodes, label maps, fill specs, mode and axis labels, evaluators | `fill` in sibling or axis mode, copies, `plan`, `fill_nodes`, `recording` | calls in any order, fills that raise half way, copies that must not share lists, pieces taken before later fills |
| Planning | `boost.py` `pieces`, `HistogramPieces`, `_slots`, `_variation_labels` | a slot layout, marked nodes, compiled positions, `served` | `pieces`, `on_compiled`, `serve` | what was read when the pieces were taken is used after the compile |
| Plan shape | `boost.py` `plan`, `_leaves`, `_Nested`, `unpack`, `label_listing` | none | reshape nested mappings, one plan per session | joined names that meet; Sessions without tasks |
| Fill evaluation | `_fill.py` `FillEvaluator` | none | fill one chunk, looping over labels in axis mode | operand order; chunked or dense |
| Row-space guard | `_fill.py` `_mixed_row_spaces`, `_WeightGuard`, `check_fill_types` | none | decide at record time, repair or blame at run time | two decisions that must agree |
| Spec codec | `_spec.py` | none | encode, decode, hash an axis list | options the encoding drops |
| Combining | `_combine.py` | positions of the compiled fills | `_SumFills`, `_GroupReduce`, `add_histograms`, `_GroupZero` | grown axes, every merge tree, shared outputs |
| Chunked partials | `_chunked.py` | category keys, one slice per key | `fill`, `iadd`, `merged`, `dense` | stands for a dense histogram bin for bin; in-place sums |
| Packing | `_histserv.py` `Context`, `_Pack`, `_serve` | the registry of packs, each pack's servers | make a context, serve a plan | concurrent serves, size model, refusals before placement |
| Served process | `_histserv.py` `_Served`, `_Handles`, `_ship`, `Receipt` | the ids of the server-side histograms per process, a lock | bind, call, pickle, add receipts, resolve | threads, worker processes, retries, lost and late RPCs, dying servers |
| Client cache | `_histserv.py` `_CLIENTS`, `_call` | a client per process and endpoint | look up or make, call | fork |
| Un-run warning | `boost.py` `_warn_if_unrun`, `_warns` | a registry of lines in each histogram's `__dict__`, made at its first warning | warn once per registry and line; copy, convert, add | a copy's `__dict__` has what the original's had, at that moment |
| Surface | `histserv.py`, `__init__.py`, `factory`, `histogram`, ... | none | set a context; build and fill once | none |

How they interact: `Histogram.fill` records nodes; `pieces` reads the recording and lays out
slots; the shared engine compiles them and calls `on_compiled`; a task evaluates every marked fill
(`FillEvaluator`) and reduces (`_GroupReduce`); a slot that is histserv-backed was placed by
`_serve` on a `Context`'s server, and its reduced partial is shipped (`_ship`) under the ids of
`_Handles`; the runner adds the tasks' values (`_add_groups`), resolves receipts
(`resolve_services`) and finalizes.

What makes each part correct, and the hazards behind it, is in `PROJECT.json` under `hazards`,
each at its line with the properties that would catch it.

## Modules

| Module | Models | Run |
|---|---|---|
| `ServedFills` | one run of one bound, served plan | `served_threads`, `served_liveness` |
| `FillOnce` | what that run promises, abstractly | as a property of `ServedFills` |
| `Rebinding` | the plans of one pieces, bound and run several times | `rebinding` |
| `ClientCache` | `_call`'s clients per process and endpoint, with forks | `client_cache` |
| `Packing` | contexts, packs and concurrent serves | `packing` |
| `Recording` | fills, copies, pieces and the compile hook | `recording` |
| `Lowering` | what a fill's operands become, and how a node is evaluated | `lowering` |
| `RowSpaces` | type checks, guard and broadcast of one fill's rows | `row_spaces` |
| `Reduction` | a slot's partials from evaluation to the plan's value | `reduction` |
| `SharedFills` | which object each sum changes | `shared_fills` |
| `PlanShape` | a plan's outputs from the nesting passed to the value got back | `plan_shape` |
| `SpecCodec` | spec encoding and decoding, in two releases; used by `PlanShape` | `plan_shape` |
| `UnrunWarnings` | which read of which copy warns | `unrun_warnings` |
| `ServedFillsProofs` | proofs about `ServedFills`, that it implements `FillOnce`, and about the `ClientCache` it calls through | |
| `PackingWarningsProofs` | proofs about `Packing`, and about `UnrunWarnings` | |
| `LoweringProofs` | proofs about `Lowering` | |
| `RecordingProofs` | proofs about `Recording` | |
| `PlanProofs` | proofs about plans: `PlanShape` with `SpecCodec`, and `Rebinding` | |
| `EvaluationProofs` | proofs about what a task evaluates: `RowSpaces` and `SharedFills` | |
| `ReductionProofs` | proofs about `Reduction` | |
| `SetInduction` | for the proofs: induction on numbers, finite sets and sequences, left folds, sums, counts, extremal members | |
| `MC...` | instances for TLC | |

Definitions commented "... gone wrong" (`PerAttemptId`, `AcquireUnlocked`, `SumOutputs`, ...) are
not part of any specification: each states a plausible mistake before the definition it distorts,
and `PROJECT.json` pairs it with the property that catches it.

### ServedFills

An actor is a driver thread or a worker process. `ids[c]` and `lock[c]` are the `_Handles` of
process `c`; `pc`, `task`, `at` and `making` are where an actor stands in `_Served.__call__` or
`__reduce__`: `"ids"` before `_Handles.ids`' lock, `"making"` inside its comprehension, one step
per slot, `"ship"` and `"wait"` around each `FillMany`. `flying` holds requests sent and not yet
handled, also those whose sender gave up. A server histogram `h` is `born` for a slot, `live` until
it is deleted or its server dies, has taken the unique ids `uids[h]`, and holds each partition's
partial `sum[h][p]` times. `Return` is the runner adding a task's receipts (`_add_groups`,
`Receipt.__add__`), once per partition; `Resolve` is `Receipt.snapshot(delete=True)`, slot by slot.

External, modelled from how the code uses it: the histserv server (fresh ids, a repeated unique id
answers `ALREADY_EXISTS`, an unknown histogram `NOT_FOUND`, a `FillMany` is atomic), the RPC
channel, and the graphed runner (it retries a task a bounded number of times, keeps one value per
partition, pickles the plan for workers, resolves when every task is done).

Faults: an RPC that fails before or after the server acted, an `Init` whose reply is lost, a worker
or a server that dies, a server replaced by another on the same port.

### FillOnce

Per slot: which partitions were added, whether it is open, lost or taken, and what was taken. A
partition is added at most once; only a slot that is not lost and holds every partition can be
taken. `ServedFills!ImplementsFillOnce` maps the slot's published histogram onto it.

### Packing

One thread per served plan. `_LOCK`, the registry `_PACKS` (`args`, `servers`), and per serve the
slots it has still to place. `Choose` and `Put` are the two halves of `_Pack.place`, kept apart so
that the lock matters; `Refuses` is what `_serve` raises on before it takes the lock. The size
model is `_predict` in integers, doubled because `_FILL_A` and `_FILL_B` are halves. `Joined` is a
server that takes one more slot.

### Recording

A node is the record it is interned by: the value member it reads and its weight members. A fill
is one of a small set of calls; `Fill` does the whole of `Histogram.fill` for one that succeeds,
`SiblingRaises` and `AxisRaises` are a fill that raises while recording its nodes, after what the
code did until then. `Copy` is `copy.copy` and `copy.deepcopy`, with `own` the list objects each
histogram refers to. `MakePieces`, `Compile` and `Plans` are `pieces`, `on_compiled` and what
`Histogram.plan` accepts. `log` is a history variable: the fills that returned. The labels are a
finite set with `Nominal` in it, and `None`, the value of a field not set, is no set of labels.

### Reduction

One slot of a plan with one category axis and one axis of unit bins, either of which may grow.
`Evaluate` is `FillEvaluator` over a chunk's batches (the labels of an axis-mode fill are batches),
`SumFills` is `_SumFills`, reading each staged fill at its position, `AddHistograms` is
`add_histograms` with `_union` and `_onto`, `Merged` is `Chunked.iadd` and `Chunked.merged`. The
runner combines any two neighbours at any time, the lower-numbered on the left, beginning with the
plan's empty value. boost-histogram's own fill and `+`, and ChunkedHist's sum, are external.

Counts stand for the storage: exact sums only. What boost does to a non-finite entry when its axis
grows later in the same partial is excluded by `FiniteFirst`, as `docs/design.rst` ("Growth axes")
excludes it; rounding at a bin edge and inexact grids are excluded by integer bins.

### Lowering

`Fill` is `Histogram.fill` on the operands `_checked_operands` accepts: their common context, the
ambient weight, re-indexing, the flat factors lifted into the first array (`Lifted`), the constants
by slot (`Fixed`), the labels, and then a node per label (`SiblingNode`) or per group of labels
(`AxisNode`), each with its inputs in order, its evaluator, the two registries' entries and its
guards (`Blame`). `RefuseLabels` is an axis fill refused for its labels, after its operands were
lifted. `Evaluate` is `FillEvaluator._fill` on symbolic columns: it takes inputs off by position.
The properties compare what it fills with what the call says (`Asked`), under the evaluator the
node finds when the registries of all histograms of a plan are merged, in any order. A column is the
base it comes from, the context whose rows it has and the scalars multiplied into it.

### RowSpaces

One fill on one chunk. `Record` decides from the operands' forms alone (`CheckFillTypes`,
`MixedRowSpaces`); `Chunk` then evaluates a chunk, where `Guard` is `_WeightGuard`, `Renest` is
`_renest` and `BroadcastLike` the backend's. A row is a tag, the event and the entry it belongs to,
so that a factor multiplied into another event's entry is visible in the result. Whether the
backend carries a value's missing entries over into the broadcast is free (`carried`). The weights
are multiplied before boost sees them, and numpy's product repeats a factor that has a single entry
over the whole chunk (`Repeated`); whether boost then does the same with a column of one entry or
refuses it is free (`repeats`).

### SharedFills

A heap of partials, each with its representation, its class and, as its content, how often each
task's output is in it. `Start` and `Add` are `_SumFills` (a zero of its own, `Chunked.iadd` where
both are chunked, `add_histograms` otherwise), `Combine` is `_add_groups`, which the runner may
apply to the same values again. A layout has a slot and reads outputs there are: the code refuses
pieces without any.

### PlanShape and SpecCodec

`Plan` is `plan()`: refused for one of `Refusals`, or one plan per Session. `Run` gives the slots'
values, collated when there are several Sessions; `Finalize` is `_Nested`, and `unpack` for a served
plan. `Clash`, `Named` and `Flat` are the joined names. Every value is `ZeroOf(SpecOf(...))` of its
histogram, where `Run` may be by workers of this release or of one that knows version 1 only.
`Carries` is what `Histogram(...)` refuses at construction.

### ClientCache

`clients[q]` and `tableLock[q]` are `_CLIENTS` and `_CLIENTS_LOCK` as the process with pid `q` has them;
`births[q]` tells a process from an earlier one with its pid. `Fork` copies both and the forking
thread alone, so a lock held by another is never released in the child (`Orphaned`); `Exit` frees
the pid. `Hit`, `Miss`, `Made` and `Failed` are the body of `_call` under the lock.

### Rebinding

`positions` and `served` are the fields `on_compiled` and `serve` test and set, in two steps.
`Bind` is `bind_services`: fresh handles. A run's `Task` reads at `positions`, makes the histogram
on first use and adds its partition unless it was added; `Resolve` deletes the histogram, or, for a
plan without tasks, resolves an empty receipt, which needs no server; `Stop` is a runner that gives
up. `Builders` is how many threads build plans at once; the run has one.

### UnrunWarnings

`registry[h]` is the dict of lines (`_warned`) a histogram was given at its first warning,
which `copy.copy` shares and a deep copy copies; `lists[h]` the fill lists. `Warned` is
`_warn_if_unrun`, `Operands` the seam of `+`. `ChangeFilters` is Python emptying every registry when
the warning filters change.

## Runs

| Run | Instance | Shows |
|---|---|---|
| `served_threads` | 2 threads, 2 partitions, 2 slots on 2 servers, 2 attempts, 2 faults, 6 histograms | each resolved slot holds each partition once; fills reach published histograms only; receipts add; a run fails only for a cause; nothing filled is left behind; the run implements `FillOnce` |
| `served_liveness` | 2 threads, 1 worker, 1 partition, 1 fault, fair | a process's ids are the driver's and never change; a waiter for the ids is served; the run ends |
| `packing` | 2 names, 3 argument sets, 5 plans, 9 slots, fair | no server overflows, none opens while another has room, declared and placed agree, refusals place nothing, servers keep their slots, serves end |
| `recording` | 2 histograms, both modes, 2 fills each, one pieces; fills may raise half way | each universe sums each fill once; a single-histogram plan is nominal; one spec each; the compile hook fails only for a fill after the pieces; copies apart |
| `lowering` | 2 histograms of 2 axes, 2 nested contexts, 82 calls, 2 fills | a label's node is filled with that label's operands, in a plan and in `materialize`; a guard names its operand |
| `row_spaces` | 205 chunks of none to 4 events, 272 calls, up to 2 factors | unflattened fills never raise and never slip an event; what does not line up is named |
| `reduction` | 3 tasks, 1 or 2 staged fills, batches of up to 2 events, 8 shapes | each partial stands for exactly its tasks' events in partition order; a single fill equals one eager fill |
| `shared_fills` | 2 tasks, 2 slots, 2 outputs, 2 combines, 72 layouts | a slot's value holds each fill it reads once per read; no fill or value is changed |
| `client_cache` | 2 pids, 3 processes, 2 threads, 2 endpoints, 3 calls, fair | no client is shared by processes; one per endpoint; a caller gets past the lock |
| `plan_shape` | 1 to 3 of 9 paths, 7 kinds of leaf, 2 Sessions; 1 or 2 axes of every type | the nesting comes back; so do the axes, or the plan or its workers refuse |
| `unrun_warnings` | 3 histograms, 2 lines, 2 fills, 3 uses | a use shows warnings of its operands only; strangers never hide each other |
| `rebinding` | 2 plans, 2 partitions, 2 bindings, 3 runs | a run that ends well has its own plan's fills, each partition once; one fails only for reuse |

Bounds and why they suffice. Two threads are enough for two to meet at `_Handles.ids`; two slots
for a comprehension to fail between them and for two servers to differ; two attempts and two faults
for a lost reply, a late fill and a dead server to meet in one run. `Hists` is large enough for the
histograms every failed creation leaves behind (a creation needs a fresh id, so it blocks when there
is none; six covers the two slots made once and twice more). Packing's units are scaled so that a
few slots fill a server, and its nine slots include one too big for every offer, one past the
message ceiling and one plan that is refused. Two fills per histogram are the least that mix label
sets, or that collide in a registry. Three tasks are the least with two merge trees; batches contain
values below, in and above the initial bins, a non-finite one, and a batch the chunked grouping
refuses. Chunks of `row_spaces` include some with as many entries as events, none, one event or one entry,
empty events and missing entries. Three processes and two pids give a grandchild its grandparent's pid, with its
table. Three histograms are the least for a sum of two and its copy. Two bindings and three runs
let one binding be run again and the other not.

`CHECK_DEADLOCK FALSE` stands where the system may stop: a user may stop calling (`Recording`,
`Lowering`, `UnrunWarnings`), one fill, plan or value is followed to its end (`RowSpaces`,
`PlanShape`, `SharedFills`), processes have made their calls or wait for an orphaned lock
(`ClientCache`), runs are over (`Rebinding`). In the others the last state stutters explicitly
(`Over`), and deadlock is checked.

Fairness. `ServedFills!FairSpec` asks for weak fairness of each actor's own steps (threads and
workers run), of the servers handling requests (every RPC has a deadline, and the request is
handled or the fault ends it), and of the runner; no fault and no pickle is forced. Waiting for a
lock is weakly fair because its holder's steps are, and it is held for finitely many. `Packing`
asks for weak fairness of each serve's steps, `ClientCache` of each thread's steps in a call. There
the lock may go to any waiter, and a caller is served because calls are finitely many.

## Where code and text part

Met while modelling. No property of a run states them, because the code behaves otherwise; the
models have the behaviour, and the properties say what holds beside it.

- `_Handles` says its ids are "created once" (`_histserv.py:414`). A creation that fails half way
  (`:426`) leaves the histograms it made on their servers and the next call makes them again.
  Nothing ever fills the leftovers (`FillsArePublished`), but they take memory the packing did not
  count.
- An axis-mode fill that raises while it records a later group has set the mode and appended the
  earlier groups' nodes, without a label map (`boost.py:497`, `:511`).
  `tests/frozen/m48/test_fill_divergence.py` calls that state "half a fill". `Recording` marks such
  histograms, and their copies, as `halved`, and states `PlanIsNominal`,
  `UniversesSum` and `OneSpec` of the others.
- The compile hook reads the histograms' label maps as they are then (`boost.py:1014`), while the
  nodes were marked when the pieces were taken: after a fill in between it meets a node without a
  position. `BrokenByLateFill` says that nothing else breaks it.
- An axis fill refused for its label set (`boost.py:487`) has recorded the nodes lifting and
  re-indexing made, though `fill` says lifting waits until "every refusal has had its say" (`:302`).
- A guard's `weight[i]` counts the factors left after lifting (`_fill.py:416`), not the entries of
  `weight=`, which is what a test's name says.
- A flattened factor as long as the chunk has events is taken for a per-event one (`_fill.py:335`);
  `docs/changelog.rst` says the pairing "names the operand instead of guessing". `EventsNeverSlip`
  is of values and factors that are not flattened.
- A value with missing entries that is left with one entry on a chunk can slip, should boost repeat
  it: the broadcast need not drop the factor's entries the value misses, and boost would then fill
  the one entry with the weights of them all. `EventsNeverSlip` excepts that chunk
  (`Present(chunk) # 1`); nothing in the repository's code stands against it.
- A copy's first read on a line is hidden when the registry it was given has that line
  (`boost.py:679`); `docs/design.rst` says "once per histogram per line". `OnlyKinHide` is what
  holds.
- `HistogramPieces.serve` and `on_compiled` test and set without a lock (`boost.py:787`, `:766`): of
  two threads that build plans with one pieces both pass, and `RunsExact` fails with `Builders = 2`.

## Theorems

Each is proved for every value of the constants, from the assumptions named in the module about
them. Behind each group stands one inductive invariant with the types of the variables in it; every
action is shown to preserve it, in a lemma or a step of its own.

### `ServedFills`

For any threads, workers, partitions, slots, servers, attempts and faults, where the sets of actors
are disjoint, `None` and `Refused` are no histograms and a slot has a home. `InvHolds` is the
invariant, and from it:

- `TypesHold`: `TypeOK`;
- `EveryTaskFillsOnce`: `ResolvedOnce`;
- `OrphansStayEmpty`: `FillsArePublished`;
- `ReceiptsAlwaysAdd`: `NeverRefused`;
- `ServersAreLeftEmpty`: `NothingLeft`;
- `FailuresHaveCause`: `TasksFailForCause`;
- the step properties `IdsStayPublished` (`IdsArePublishedOnce`) and `RunFillsOnce`
  (`ImplementsFillOnce`, given at least one partition: without one, an empty receipt is resolved
  although its histogram may be lost, which the abstract specification does not have).

Why the invariant is stronger than the properties. That a resolved slot holds each partition once
follows from a chain: a partition in `done` was shipped for every slot (`DoneHeld`), a shipped slot
accepted the partition's id in the histogram the process's ids name (`ShippedHeld`), those ids are
the driver's (`WorkersAgree`), requests in flight name them too (`FlyingInv`), a histogram counts a
partition once exactly when it took its id (`Counted`), and only published histograms take any
(`OnlyPublished`). That the ids are published once needs the lock: one maker per process
(`MakerAlone`), whose comprehension so far is made of unused histograms born for their slots
(`MakingSoFar`, `BornForSlot`). `ReceiptsInv` and `ResolveInv` tie the runner's value and the
resolution to them. `FailuresHaveCause` counts: while no histogram is lost, the attempts of one
partition that have ended are at most the faults so far (`AttemptsInv`, where the attempts that run
are one per actor), so a task that used up its attempts met as many faults.

### `ClientCache`

For any pids, threads, endpoints, forks and calls, `None` being none of them: `LocksHeld`
(`LocksOK`), `ChannelsStayApart` (`ChannelsApart`) and `OneClientEach` (`OneClient`). That two
processes never use one client holds because what a thread uses has its own pid in the key
(`UsesItsKey`), so a client inherited from a living parent is never found. That there is one per
endpoint needs the lock: who makes a client found none (`MakingIsMiss`), and only its holder is
inside (`LocksOK`), which a fork keeps because the forking thread is not in a call.

### `Packing`

For any names, arguments, plans, units, and finitely many slots with distinct ranks:
`PackingInvariant`, `SizesHold` (`ServersFit`), `FirstFit` (`NoRoomBefore`), `RefusalsComeFirst`
(`RefusedTakesNothing`), `ServicesAlike` (`ServicesAgree`) and `ServersStay` (`ServersKeep`).

`ServersFit` alone is not inductive: `Put` writes what `Choose` decided a step before. `ChosenInv`
says that what it decided still holds, which it does because the serve that places holds the lock
(`LockInv`) and a context's arguments are set only while it has no servers. `NoRoomBefore` survives
later slots because a server's prediction only grows with what it holds (`PredictGrows`, from sums
over finite sets), so a server that had no room has none later (`FitsShrinks`). `HomesInv` and
`ServersInv` tie the two records of a placement, and with `DeclaredInv` they say when a declared
service may no longer change.

### `Recording`

For any histograms, calls, pieces and number of fills, and finitely many labels:
`RecordingInvariant`, `OneSpecHolds` (`OneSpec`), `CopiesStayApart` (`CopiesApart`),
`LateFillsBreak` (`BrokenByLateFill`), `UniversesHold` (`UniversesSum`) and `PlansAreNominal`
(`PlanIsNominal`).

The invariant says of each histogram that its lists are what its fills made of them (`Consistent`):
the maps and specs are those of the fills that returned, in order (`Logged`), all of the mode and
label set that was declared (`OneMode`), and each universe's nodes add up to what those fills asked
of it (`AxisSums`, `PlainNodes`). That a fill extends it is a count of the nodes of a concatenation
(`HitsConcat`), with each label in one group of an axis-mode fill (`UnitFacts`). A histogram on
which an axis fill raised half way keeps `Logged` only, as the code does. `LayoutInv` says that
pieces mark what their layout reads, whatever is filled afterwards.

### `Rebinding`

For any plans, partitions, bindings and runs: `RebindingInvariant` and `FailuresAreReuse`
(`FailsForReuse`), for any number of builders: a binding holds each partition a run of it shipped
once (`RunInv`), and its histogram goes only with a run that ended (`GoneInv`). `RunsAreExact`
(`RunsExact`) has the hypothesis `Builders = 1`, because the code does not exclude two threads that
build plans with the same pieces and the property fails for them (above): then the positions are
those of the one plan that got through the compile hook (`OnePlan`).

### `SharedFills`

For any tasks, outputs, combines and layouts that are not empty: `SharedInvariant`, `ValuesSum`
(`SlotsSum`) and `OperandsStay` (`PartialsKept`). In a task's run, the totals of the slots before
the current one are whole, the current one's is a prefix of its reads, and the later ones' are not
begun (`TotalsInv`). That adding onto a total in place changes nothing else needs `ApartInv`: the
total is no value, no fill and no other slot's total.

### `UnrunWarnings`

For any histograms, lines, fills and uses: `RegistriesAreKin`, `OperandsWarn`
(`UseShowsItsOperands`) and `StrangersNeverHide` (`OnlyKinHide`). A registry was made for one of the
histogram's kin (`KinRegistry`) and each line in it was read by one of them (`SeenInv`), through
the up to four warnings of one `+` (`Warns`, `Sound`).

### `Reduction`

For any categories, shapes, batches, tasks, staged fills and orders of combining:
`PartialsAddUpHolds` (`PartialsAddUp`) and `SingleFillIsEagerHolds` (`SingleFillIsEager`). The
invariant says of every partial that is present that it is a form of the events it stands for: the
dense histogram those events fill or, where the bin axis does not grow, the chunked one (`Forms`);
so none was refused. Evaluating a chunk makes such a form; what carries the rest is that adding two forms, dense or chunked in any mixture, gives a
form of the events of both in order (`AddForms`). That rests on what `_union` and `_onto` do to grown
axes (the categories of both in order of first appearance, the bins of both), on `AddFull` for the
dense sum, and on `MergedForm` and `DenseForm`: a merge of chunked partials, made dense, is the dense
sum. The recursion over events, batches and slices is in left folds, whose one step is a lemma
(`FoldAppend`) used through instances of `SetInduction`.

### `Lowering`

For any fills of any finite number of histograms of one number of axes, with operands as
`_checked_operands` lets them through (an operand's columns are at its own context, nothing was
multiplied into them, its labels are distinct and the nominal one is among them; an array among the
values) and finitely many contexts, whose ambient weights are arrays at them: `Invariance`,
`PlanFills` (`PlanFillsAsAsked`), `MaterializeFills` (`MaterializeFillsAsAsked`) and `BlameIsRight`
(`BlamesTheOffender`).

The invariant, `IInv`, ties the log to the two registries of each histogram: a recorded fill has
exactly its call's nodes, every such node's key is in the registry (`RegistryGood`), and whatever is
there is a guard or the evaluator some recorded node of that key asks for. The key is the content
hash in one registry and the external's in the other. It is needed because a registry is a dict that
later fills overwrite, and a plan merges the histograms' in an order nobody fixes: two fills may
share a key, and then the theorem is that their evaluators are the same (`LookupRight`), which holds
because the hash folds in all an evaluator has but the number of axes and the sample, which are
the histogram's.

What a fill records is compared with what its call asks (`Asked`) in three parts. First, lifting:
how often a scalar or column is in the weights of a label (`Tally`) is not changed when the scalars
are taken out and multiplied into the first array, or into ones when there is none (`TallyParts`,
`TallyFactors`); the order of a product is all that lifting changes. Second, positions: the evaluator
takes off as many inputs for a list as slots have no constant (`TakenIs`), and places them so that
input and constant alternate as in the call (`PlaceIs`); in sibling mode sample and weights follow
the values in the one order, in axis mode in the other, with one block of weights per label
(`Stacked`). Third, labels: the labels of one node agree on every column it reads but the weights, so
that a node is filled for each label of its group with that label's columns. A guard's blame is of
the factor at its own position (`BlameRight`), as an ambient weight is in front of both the factors
and their names, or of neither.

### `PlanShape` and `SpecCodec`

For any finite nestings, leaves, Sessions and axes: `NestingHolds` (`NestingComesBack`) and
`SpecsAreCarried` (`Carried`). A plan that is not refused has outputs whose joined names are distinct
(`Clash` refused the others), and a nesting has one thing at each path, so no path is another's
prefix: each slot of the value has one place, and the places are apart. From that `NestedIs`: what
`_Nested` builds from the slots has each slot at its output's path, and nothing else; collating the
values of several Sessions keeps the slots' order. `AxisComesBack` is the codec, one axis type at a
time: what encoding drops is what `Histogram(...)` refuses or what the version tells the worker.

### `RowSpaces`

For any calls and any chunks, of however many events and with any counts: `RowsInvariant`,
`UnflattenedFillsHolds` (`UnflattenedFills`), `EventsNeverSlipHolds` (`EventsNeverSlip`) and
`OffenderNamedHolds` (`OffenderNamed`). Only a whole column of one entry is ever repeated. Where
the value, another axis and the factors are of one length nothing is (`InStepAsIs`), and a value of
several entries that no factor is shorter than fills only with columns of its length
(`InStepLong`). The invariant keeps what recording
decided: the types were checked, and without a broadcast no factor is shallower than a value with
nothing missing. The lemmas relate two columns row by row. If in every event the factor has as many
entries as the value, and each entry that is there in the value is there in the factor and its own
(`Paired`), the flattened columns are in step as soon as they are of one length (`Lined`, `CatLined`).
`Widened`, `RenestIs` and `WithoutDeep` say that the broadcast, the renesting and dropping missing
entries keep the value's counts; `CatLength` that a renested factor is cut where the value is.

### `SetInduction`

The library's induction theorems take a predicate, which the provers here cannot instantiate.
`NatSetInduction`, `FiniteSetInduction` and `SeqInduction` state induction about a set instead (the
set of the numbers, subsets or sequences for which a formula holds), from the library's facts about
well-founded relations. A left fold with an operator that is a constant of the module takes one more
element in one more step (`FoldAppend`); each use is an instance with the operator it folds. From
them: a finite set's sum does not depend on the order it is taken in
and grows with the set (`TotalsRemove`, `TotalsGrow`), how often a sequence hits a set
(`HitsConcat`, `HitsAppend`), and extremal members (`MinMax`).

### Only model-checked

Liveness under fairness, which the prover does not reach: `ServesEnd`, `IdsAreServed`, `RunEnds`,
`CallersServed`. Every other property of the runs, invariants and step properties alike, is stated
by a theorem.

## Not modelled, and why

- The surface modules (`histserv.py`, `factory`, `histogram`, `histogram2d`, `histogramdd`): they
  set a context, or build a `Histogram` and fill it once, and keep no state.
- A plan over a join, which graphed builds; `label_listing`, which lists a plan's labels and has no
  effect; `hold_partials`, which only chooses what a plan reads.
- The unknown-variance mark of a chunked partial, and what boost does to values at a bin's edge.
- The reflected operators (`eager + h`) and `repr`, which read no other state than `+` and a
  read do.
- Docs, benchmarks, CI and scripts. Formatting, plan summaries and error texts throughout.

Type invariants are proved (with the invariants above) or left to what the properties already
read: no run spends time on one.

## Plan

1. Done: `FillOnce`, `ServedFills`, `Packing`, `Recording`, `Reduction`, `Lowering`, `RowSpaces`,
   `SharedFills`, `PlanShape` with `SpecCodec`, `ClientCache`, `UnrunWarnings` and `Rebinding`, and
   the proofs listed above.
2. Next model: `Serving`, `Packing` and `ServedFills` in one: what a server holds stays under its
   prediction, leftovers of failed creations included or not.
