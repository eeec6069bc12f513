------------------------------ MODULE Rebinding ------------------------------
(* One HistogramPieces and the plans made of it: the compile hook and serve    *)
(* each refuse a second plan, by a check before a write; a plan is run several *)
(* times, bound again for each run (_Served.bind_services) or not, each run    *)
(* resolving, so deleting, what its handles made.  ServedFills has one run in  *)
(* detail; here a task is one step.                                            *)
EXTENDS Naturals, Sequences, FiniteSets

CONSTANTS
    Plans,          \* the plans someone builds with these pieces
    Partitions,     \* the partitions of each
    Builders,       \* how many threads build plans at once
    Unset,
    MaxBinds,       \* bound: times the runner binds a plan
    MaxRuns         \* bound: runs

ASSUME BoundsAssumption == {Builders, MaxBinds, MaxRuns} \subseteq Nat
ASSUME UnsetAssumption == Unset \notin Plans

VARIABLES
    backed,         \* whether a slot of the pieces is histserv-backed
    positions,      \* reduce.positions: the plan they are of, or Unset
    served,         \* HistogramPieces.served
    pc,             \* pc[b]: where the building of plan b is
    binds,          \* the bound processes: [plan, made, live, taken], by number
    runs            \* the runs: [bind, plan, status, tasks, read, value]

piecesVars == <<backed, positions, served, pc, binds, runs>>

Busy == {b \in Plans : pc[b] \in {"compiling", "built", "placing"}}

NoTasks == [p \in Partitions |-> 0]

PiecesInit ==
    /\ backed \in BOOLEAN
    /\ positions = Unset
    /\ served = FALSE
    /\ pc = [b \in Plans |-> "new"]
    /\ binds = <<>>
    /\ runs = <<>>

\* on_compiled refuses pieces that have positions ...
CompileChecks(b) ==
    /\ pc[b] = "new" /\ Cardinality(Busy) < Builders
    /\ pc' = [pc EXCEPT ![b] = IF positions # Unset THEN "refused" ELSE "compiling"]
    /\ UNCHANGED <<backed, positions, served, binds, runs>>

\* ... and records them; what aggregate_plan does after its hook may still raise.
CompileRecords(b) ==
    /\ pc[b] = "compiling"
    /\ positions' = b
    /\ \E next \in {"built", "refused"} : pc' = [pc EXCEPT ![b] = next]
    /\ UNCHANGED <<backed, served, binds, runs>>

\* serve returns a plan without backed slots as it is, and refuses pieces that served one,
\* be it the same plan.
ServeChecks(b) ==
    /\ pc[b] \in {"built", "served"} /\ Cardinality(Busy \ {b}) < Builders
    /\ pc' = [pc EXCEPT ![b] = IF backed /\ ~served THEN "placing"
                               ELSE IF backed /\ pc[b] = "built" THEN "refused" ELSE "served"]
    /\ UNCHANGED <<backed, positions, served, binds, runs>>

\* _serve places and declares the slots, then served is set; or it raises, and is not.
ServePlaces(b) ==
    /\ pc[b] = "placing"
    /\ \/ pc' = [pc EXCEPT ![b] = "served"] /\ served' = TRUE
       \/ pc' = [pc EXCEPT ![b] = "built"] /\ UNCHANGED served
    /\ UNCHANGED <<backed, positions, binds, runs>>

\* Whoever built it gives up: a plan serve raised for need not be served again.
GiveUp(b) ==
    /\ pc[b] = "built"
    /\ pc' = [pc EXCEPT ![b] = "refused"]
    /\ UNCHANGED <<backed, positions, served, binds, runs>>

\* Bound gone wrong: the handles are those of the plan's last binding.
BoundAgain(b) ==
    LET before == {k \in DOMAIN binds : binds[k].plan = b}
    IN IF before = {} THEN [plan |-> b, made |-> FALSE, live |-> FALSE, taken |-> NoTasks]
       ELSE binds[CHOOSE k \in before : \A j \in before : j <= k]

\* bind_services: a copy with fresh handles, no histogram made.
Bound(b) == [plan |-> b, made |-> FALSE, live |-> FALSE, taken |-> NoTasks]

Bind(b) ==
    /\ pc[b] = "served" /\ Len(binds) < MaxBinds
    /\ binds' = Append(binds, Bound(b))
    /\ UNCHANGED <<backed, positions, served, pc, runs>>

\* A run of a bound process, which another run may have had before or has now.
Start(k) ==
    /\ k \in DOMAIN binds /\ Len(runs) < MaxRuns
    /\ runs' = Append(runs, [bind |-> k, plan |-> binds[k].plan, status |-> "running",
                             tasks |-> {}, read |-> {}, value |-> <<>>])
    /\ UNCHANGED <<backed, positions, served, pc, binds>>

\* Added gone wrong: under an id of its own, each run's fill is added.
AddedEachRun(home, p) == [home.taken EXCEPT ![p] = @ + 1]

\* FillMany under the partition's id: added once, ALREADY_EXISTS after that.
Added(home, p) == [home.taken EXCEPT ![p] = 1]

\* What a task's run has after it, be it the failure.
Ran(run, p, ok) ==
    [run EXCEPT !.status = IF ok THEN run.status ELSE "failed",
                !.tasks = IF ok THEN run.tasks \cup {p} ELSE run.tasks,
                !.read = run.read \cup {positions}]

\* A task reads the fills at the positions, makes the histogram on the handles' first
\* use, and ships its partial under its partition's id; NOT_FOUND fails the run.
Task(i, p) ==
    LET k == runs[i].bind
        home == IF binds[k].made THEN binds[k] ELSE [binds[k] EXCEPT !.made = TRUE, !.live = TRUE]
        ok == ~backed \/ home.live
    IN /\ runs[i].status = "running" /\ p \notin runs[i].tasks
       /\ binds' = IF backed
                   THEN [binds EXCEPT ![k] =
                           IF ok THEN [home EXCEPT !.taken = Added(home, p)] ELSE home]
                   ELSE binds
       /\ runs' = [runs EXCEPT ![i] = Ran(runs[i], p, ok)]
       /\ UNCHANGED <<backed, positions, served, pc>>

\* The snapshot deletes the histogram.
Taken(home) == [home EXCEPT !.live = FALSE]

\* resolve_services, every task being done: the value is what the server holds, and an
\* empty receipt's, of a plan without tasks, needs no server.
Resolve(i) ==
    LET k == runs[i].bind
        ok == ~backed \/ runs[i].tasks = {} \/ binds[k].live
    IN /\ runs[i].status = "running" /\ runs[i].tasks = Partitions
       /\ binds' = IF backed /\ ok THEN [binds EXCEPT ![k] = Taken(@)] ELSE binds
       /\ runs' = [runs EXCEPT ![i] =
                     [@ EXCEPT !.status = IF ok THEN "done" ELSE "failed",
                               !.value = IF backed THEN binds[k].taken
                                         ELSE [p \in Partitions |-> 1]]]
       /\ UNCHANGED <<backed, positions, served, pc>>

\* The runner stops, at any point before it resolves; what it made stays on the server.
Stop(i) ==
    /\ runs[i].status = "running"
    /\ runs' = [runs EXCEPT ![i].status = "stopped"]
    /\ UNCHANGED <<backed, positions, served, pc, binds>>

PiecesNext ==
    \/ \E b \in Plans :
        \/ CompileChecks(b) \/ CompileRecords(b) \/ ServeChecks(b) \/ ServePlaces(b)
        \/ GiveUp(b) \/ Bind(b)
    \/ \E k \in DOMAIN binds : Start(k)
    \/ \E i \in DOMAIN runs : Resolve(i) \/ Stop(i) \/ \E p \in Partitions : Task(i, p)

PiecesSpec == PiecesInit /\ [][PiecesNext]_piecesVars

-----------------------------------------------------------------------------
(* Properties *)

\* A run that ends well read its own plan's fills, though another was compiled with the same
\* pieces, and has each partition once, whatever ran before on its handles.
RunsExact ==
    \A i \in DOMAIN runs : runs[i].status = "done" =>
        /\ runs[i].read \subseteq {runs[i].plan}
        /\ runs[i].value = [p \in Partitions |-> 1]

\* A run fails only when another run of the same binding took its histogram: a plan bound
\* again runs again ("fresh handles").
FailsForReuse ==
    \A i \in DOMAIN runs : runs[i].status = "failed" =>
        \E j \in DOMAIN runs : j # i /\ runs[j].bind = runs[i].bind /\ runs[j].status = "done"
=============================================================================
