----------------------------- MODULE ServedFills -----------------------------
(* A served plan's run: driver threads and worker processes that share the    *)
(* handles of one bound plan (_Served, _Handles), create its server-side      *)
(* histograms, ship each partition's partial (_ship) over an unreliable RPC   *)
(* channel, and the driver that adds the receipts (Receipt.__add__) and       *)
(* resolves them (resolve_services).                                          *)
EXTENDS Naturals, FiniteSets

CONSTANTS
    Threads,        \* driver threads: they run tasks, or pickle the plan for a worker
    Workers,        \* worker processes: each runs tasks with an unpickled plan
    Driver,         \* the driver process
    Partitions,     \* one partition per task (_serve refuses a repeated one)
    NSlots,         \* how many backed slots the plan has
    Servers,        \* the histserv servers
    HomeOf,         \* HomeOf[s]: the server slot s is placed on
    Hists,          \* the histogram ids the servers can hand out, numbered
    None,           \* no histogram, no lock holder, no task
    Refused,        \* what adding two different receipts gives
    MaxTries,       \* bound: attempts the runner gives one task
    MaxFaults       \* bound: faults in one behaviour

Slots == 1 .. NSlots
Actors == Threads \cup Workers
Procs == {Driver} \cup Workers

ASSUME SlotsAssumption == NSlots \in Nat \ {0}
ASSUME BoundAssumption == MaxTries \in Nat \ {0} /\ MaxFaults \in Nat
ASSUME HomeAssumption == HomeOf \in [Slots -> Servers]
ASSUME ActorAssumption ==
    Threads \cap Workers = {} /\ Driver \notin Workers /\ None \notin Actors
ASSUME HistsAssumption == Hists \subseteq Nat
ASSUME NoneAssumption == None \notin Hists /\ None \notin Partitions
ASSUME RefusedAssumption == Refused \notin Hists \cup {None}

VARIABLES
    \* the handles of the plan, one _Handles per process that holds a copy
    loaded,         \* processes that hold a copy of the bound plan
    ids,            \* ids[c]: _Handles._ids in process c, NoIds for None
    lock,           \* lock[c]: who holds _Handles._lock in process c
    \* the actors
    pc,             \* pc[a]: where actor a is
    task,           \* task[a]: the partition a runs; None while it pickles
    try,            \* try[a]: which attempt of that task it is
    at,             \* at[a]: the slot a's loop over the slots is at
    making,         \* making[a]: the ids a's dict comprehension has so far
    flying,         \* the FillMany requests sent and not yet handled
    \* the servers
    born,           \* born[h]: the slot id h was made for, 0 while unused
    live,           \* the histograms the servers hold
    uids,           \* uids[h]: the unique ids h has taken
    sum,            \* sum[h]: how often each partition's partial was added to h
    \* the runner in the driver
    tries,          \* tries[p]: attempts started
    done,           \* partitions whose value is in `value`
    value,          \* value[s]: the combined receipt of slot s, None when empty
    status,         \* how the run stands
    resolved,       \* how many slots resolve_services has resolved
    result,         \* result[s]: the value it resolved slot s to
    faults          \* faults so far

handles == <<loaded, ids, lock>>
actors == <<pc, task, try, at, making, flying>>
servers == <<born, live, uids, sum>>
runner == <<tries, done, value, status, resolved, result>>
vars == <<handles, actors, servers, runner, faults>>

NoIds == [s \in Slots |-> None]
Nothing == [p \in Partitions |-> 0]
Proc(a) == IF a \in Threads THEN Driver ELSE a

\* UniqueId gone wrong: each attempt has an id of its own.
PerAttemptId(p, n) == <<p, n>>

\* The unique id of a fill: the partition, whichever attempt sends it.
UniqueId(p, n) == p

\* The FillMany request _ship builds for the slot actor a is at.
Request(a) ==
    [by |-> a, part |-> task[a], try |-> try[a], slot |-> at[a],
     hist |-> ids[Proc(a)][at[a]], uid |-> UniqueId(task[a], try[a])]

\* Accepted gone wrong: the code of a fill received before raises.
AcceptOnlyOK(code) == code = "OK"

\* Accepted gone wrong: every code is taken for success.
AcceptEvery(code) == TRUE

\* The status codes after which _ship returns its receipt; the others raise.
Accepted(code) == code \in {"OK", "ALREADY_EXISTS"}

\* Receipt.__add__ on the histogram ids: None is the empty receipt, two
\* different histograms refuse to add.
AddReceipts(x, y) ==
    IF y = None \/ y = x THEN x
    ELSE IF x = None THEN y
    ELSE Refused

Init ==
    /\ loaded = {Driver}
    /\ ids = [c \in Procs |-> NoIds]
    /\ lock = [c \in Procs |-> None]
    /\ pc = [a \in Actors |-> "idle"]
    /\ task = [a \in Actors |-> None]
    /\ try = [a \in Actors |-> 0]
    /\ at = [a \in Actors |-> 1]
    /\ making = [a \in Actors |-> NoIds]
    /\ flying = {}
    /\ born = [h \in Hists |-> 0]
    /\ live = {}
    /\ uids = [h \in Hists |-> {}]
    /\ sum = [h \in Hists |-> Nothing]
    /\ tries = [p \in Partitions |-> 0]
    /\ done = {}
    /\ value = [s \in Slots |-> None]
    /\ status = "running"
    /\ resolved = 0
    /\ result = [s \in Slots |-> Nothing]
    /\ faults = 0

Fault == faults < MaxFaults /\ faults' = faults + 1

\* Actor a's call raises: it drops its task, and the lock if it holds it.
Raise(a) ==
    /\ pc' = [pc EXCEPT ![a] = "idle"]
    /\ task' = [task EXCEPT ![a] = None]

-----------------------------------------------------------------------------
\* The runner starts an attempt at partition p in actor a: _Served.__call__.
\* A retry may start while an earlier attempt still runs.
StartCall(a, p) ==
    /\ status = "running"
    /\ pc[a] = "idle"
    /\ Proc(a) \in loaded
    /\ p \notin done
    /\ tries[p] < MaxTries
    /\ tries' = [tries EXCEPT ![p] = @ + 1]
    /\ task' = [task EXCEPT ![a] = p]
    /\ try' = [try EXCEPT ![a] = tries[p] + 1]
    /\ pc' = [pc EXCEPT ![a] = "ids"]
    /\ UNCHANGED <<handles, at, making, flying, servers,
                   done, value, status, resolved, result, faults>>

\* StartPickle gone wrong: the state is handed out without the ids.
StartPickleLazily(t) ==
    /\ status = "running"
    /\ Workers \ loaded # {}
    /\ pc[t] = "idle"
    /\ pc' = [pc EXCEPT ![t] = "pickled"]
    /\ UNCHANGED <<handles, task, try, at, making, flying, servers, runner, faults>>

\* Driver thread t pickles the bound plan for a worker: _Served.__reduce__
\* makes the ids before it hands out the state.
StartPickle(t) ==
    /\ status = "running"
    /\ Workers \ loaded # {}
    /\ pc[t] = "idle"
    /\ pc' = [pc EXCEPT ![t] = "ids"]
    /\ UNCHANGED <<handles, task, try, at, making, flying, servers, runner, faults>>

\* A worker unpickles it: the ids of _Handles.__getstate__, and a lock of its own.
Unpickle(t, w) ==
    /\ pc[t] = "pickled"
    /\ w \notin loaded
    /\ loaded' = loaded \cup {w}
    /\ ids' = [ids EXCEPT ![w] = ids[Driver]]
    /\ lock' = [lock EXCEPT ![w] = None]
    /\ pc' = [pc EXCEPT ![t] = "idle"]
    /\ UNCHANGED <<task, try, at, making, flying, servers, runner, faults>>

\* The pickle is not used after all: the workers it was for are gone or loaded.
DropPickle(t) ==
    /\ pc[t] = "pickled"
    /\ Workers \subseteq loaded
    /\ pc' = [pc EXCEPT ![t] = "idle"]
    /\ UNCHANGED <<handles, task, try, at, making, flying, servers, runner, faults>>

-----------------------------------------------------------------------------
\* Where a goes with the ids in hand: on with its task, or with its pickle.
AfterIds(a) == IF task[a] = None THEN "pickled" ELSE "ship"

\* _Handles.ids finds the ids there.
Reuse(a) ==
    /\ pc[a] = "ids"
    /\ lock[Proc(a)] = None
    /\ ids[Proc(a)] # NoIds
    /\ pc' = [pc EXCEPT ![a] = AfterIds(a)]
    /\ at' = [at EXCEPT ![a] = 1]
    /\ UNCHANGED <<handles, task, try, making, flying, servers, runner, faults>>

\* Acquire gone wrong: the ids are made without the lock.
AcquireUnlocked(a) ==
    /\ pc[a] = "ids"
    /\ ids[Proc(a)] = NoIds
    /\ pc' = [pc EXCEPT ![a] = "making"]
    /\ at' = [at EXCEPT ![a] = 1]
    /\ making' = [making EXCEPT ![a] = NoIds]
    /\ UNCHANGED <<handles, task, try, flying, servers, runner, faults>>

\* _Handles.ids finds none and starts to make them, holding the lock.
Acquire(a) ==
    /\ pc[a] = "ids"
    /\ lock[Proc(a)] = None
    /\ ids[Proc(a)] = NoIds
    /\ lock' = [lock EXCEPT ![Proc(a)] = a]
    /\ pc' = [pc EXCEPT ![a] = "making"]
    /\ at' = [at EXCEPT ![a] = 1]
    /\ making' = [making EXCEPT ![a] = NoIds]
    /\ UNCHANGED <<loaded, ids, task, try, flying, servers, runner, faults>>

\* The id a server answers Init with: no histogram had it before. Ids are
\* numbered in the order they are handed out.
Unused == {h \in Hists : born[h] = 0}
Fresh == {h \in Unused : \A g \in Unused : h <= g}

\* Histogram h is made on slot s's server.
Host(h, s) ==
    /\ born' = [born EXCEPT ![h] = s]
    /\ live' = live \cup {h}
    /\ UNCHANGED <<uids, sum>>

\* _create makes the histogram of the slot a's comprehension is at.
Create(a) ==
    /\ pc[a] = "making"
    /\ at[a] \in Slots
    /\ \E h \in Fresh :
        /\ Host(h, at[a])
        /\ making' = [making EXCEPT ![a][at[a]] = h]
    /\ at' = [at EXCEPT ![a] = @ + 1]
    /\ UNCHANGED <<handles, pc, task, try, flying, runner, faults>>

\* CreateRaises gone wrong: the lock is not released on the way out.
CreateRaisesHoldingLock(a) ==
    /\ pc[a] = "making"
    /\ at[a] \in Slots
    /\ Fault
    /\ \/ UNCHANGED servers
       \/ \E h \in Fresh : Host(h, at[a])
    /\ Raise(a)
    /\ UNCHANGED <<handles, try, at, making, flying, runner>>

\* Its Init RPC raises - the histogram not made, or made and its id lost with
\* the reply. The comprehension is dropped: _ids stays None, the lock is released.
CreateRaises(a) ==
    /\ pc[a] = "making"
    /\ at[a] \in Slots
    /\ Fault
    /\ \/ UNCHANGED servers
       \/ \E h \in Fresh : Host(h, at[a])
    /\ lock' = [lock EXCEPT ![Proc(a)] = None]
    /\ Raise(a)
    /\ UNCHANGED <<loaded, ids, try, at, making, flying, runner>>

\* Every slot has its histogram: _ids is set and the lock released.
Publish(a) ==
    /\ pc[a] = "making"
    /\ at[a] = NSlots + 1
    /\ ids' = [ids EXCEPT ![Proc(a)] = making[a]]
    /\ lock' = [lock EXCEPT ![Proc(a)] = None]
    /\ pc' = [pc EXCEPT ![a] = AfterIds(a)]
    /\ at' = [at EXCEPT ![a] = 1]
    /\ UNCHANGED <<loaded, task, try, making, flying, servers, runner, faults>>
-----------------------------------------------------------------------------
\* The RPC of the slot a is at came back with code: on to the next slot, or
\* the call raises.
Answered(a, code) ==
    IF Accepted(code)
    THEN /\ at' = [at EXCEPT ![a] = @ + 1]
         /\ pc' = [pc EXCEPT ![a] = "ship"]
         /\ UNCHANGED task
    ELSE /\ Raise(a)
         /\ UNCHANGED at

\* _ship sends the FillMany of the slot a is at.
Ship(a) ==
    /\ pc[a] = "ship"
    /\ at[a] \in Slots
    /\ flying' = flying \cup {Request(a)}
    /\ pc' = [pc EXCEPT ![a] = "wait"]
    /\ UNCHANGED <<handles, task, try, at, making, servers, runner, faults>>

\* What a server answers to FillMany r.
AnswerTo(r) ==
    IF r.hist \notin live THEN "NOT_FOUND"
    ELSE IF r.uid \in uids[r.hist] THEN "ALREADY_EXISTS"
    ELSE "OK"

\* A server handles FillMany r, whose sender may have given up on it.
Handle(r) ==
    /\ r \in flying
    /\ flying' = flying \ {r}
    /\ IF AnswerTo(r) = "OK"
       THEN /\ uids' = [uids EXCEPT ![r.hist] = @ \cup {r.uid}]
            /\ sum' = [sum EXCEPT ![r.hist][r.part] = @ + 1]
       ELSE UNCHANGED <<uids, sum>>
    /\ IF pc[r.by] = "wait" /\ r = Request(r.by)
       THEN Answered(r.by, AnswerTo(r))
       ELSE UNCHANGED <<pc, task, at>>
    /\ UNCHANGED <<handles, try, making, born, live, runner, faults>>

\* The RPC fails at a: its server or the connection is gone, the deadline is
\* past, or the connection goes to another server that shares the port. The
\* request is lost, or a server handles it later.
RpcFails(a) ==
    /\ pc[a] = "wait"
    /\ Fault
    /\ \E code \in {"UNAVAILABLE", "DEADLINE_EXCEEDED", "NOT_FOUND"} : Answered(a, code)
    /\ \/ flying' = flying \ {Request(a)}
       \/ UNCHANGED flying
    /\ UNCHANGED <<handles, try, making, servers, runner>>

\* _Served.__call__ returns the group of receipts and the runner adds it to
\* the value it has (_add_groups), once per partition.
Return(a) ==
    /\ pc[a] = "ship"
    /\ at[a] = NSlots + 1
    /\ IF status = "running" /\ task[a] \notin done
       THEN LET new == [s \in Slots |-> AddReceipts(value[s], ids[Proc(a)][s])] IN
            IF \E s \in Slots : new[s] = Refused
            THEN /\ status' = "refused"
                 /\ UNCHANGED <<done, value>>
            ELSE /\ done' = done \cup {task[a]}
                 /\ value' = new
                 /\ UNCHANGED status
       ELSE UNCHANGED <<done, value, status>>
    /\ Raise(a)
    /\ UNCHANGED <<handles, try, at, making, flying, servers, tries, resolved, result, faults>>
-----------------------------------------------------------------------------
\* A worker process dies, with its copy of the plan and the call it runs.
WorkerDies(w) ==
    /\ Fault
    /\ w \in loaded
    /\ loaded' = loaded \ {w}
    /\ ids' = [ids EXCEPT ![w] = NoIds]
    /\ lock' = [lock EXCEPT ![w] = None]
    /\ Raise(w)
    /\ UNCHANGED <<try, at, making, flying, servers, runner>>

\* A server dies, or is replaced by a fresh one: what it held is gone.
ServerDies(v) ==
    /\ Fault
    /\ LET kept == {h \in live : HomeOf[born[h]] # v} IN
        /\ kept # live
        /\ live' = kept
    /\ UNCHANGED <<handles, actors, born, uids, sum, runner>>

-----------------------------------------------------------------------------
\* A task has no attempt left and none running: the run fails.
TasksFail ==
    /\ status = "running"
    /\ \E p \in Partitions \ done :
        /\ tries[p] = MaxTries
        /\ \A a \in Actors : task[a] # p
    /\ status' = "tasks failed"
    /\ UNCHANGED <<handles, actors, servers, tries, done, value, resolved, result, faults>>

\* Every task has returned: the driver turns to resolve_services.
StartResolve ==
    /\ status = "running"
    /\ done = Partitions
    /\ status' = "resolving"
    /\ UNCHANGED <<handles, actors, servers, tries, done, value, resolved, result, faults>>

NextSlot == resolved + 1

\* Resolve gone wrong: the value is handed back and not deleted.
ResolveKeeping ==
    /\ status = "resolving"
    /\ NextSlot \in Slots
    /\ value[NextSlot] # None => value[NextSlot] \in live
    /\ result' = [result EXCEPT ![NextSlot] =
            IF value[NextSlot] = None THEN @ ELSE sum[value[NextSlot]]]
    /\ resolved' = NextSlot
    /\ UNCHANGED <<handles, actors, servers, tries, done, value, status, faults>>

\* Receipt.snapshot(delete=True) of the next slot: an empty receipt is an empty
\* histogram, any other is read from its server and dropped there.
Resolve ==
    /\ status = "resolving"
    /\ NextSlot \in Slots
    /\ IF value[NextSlot] = None
       THEN UNCHANGED <<live, result>>
       ELSE /\ value[NextSlot] \in live
            /\ result' = [result EXCEPT ![NextSlot] = sum[value[NextSlot]]]
            /\ live' = live \ {value[NextSlot]}
    /\ resolved' = NextSlot
    /\ UNCHANGED <<handles, actors, born, uids, sum, tries, done, value, status, faults>>

\* Its Snapshot RPC raises: the server has no such histogram, or the call fails
\* before or after the server dropped it. The value is lost with the run.
ResolveRaises ==
    /\ status = "resolving"
    /\ NextSlot \in Slots
    /\ value[NextSlot] # None
    /\ \/ value[NextSlot] \notin live /\ UNCHANGED <<live, faults>>
       \/ Fault /\ UNCHANGED live
       \/ Fault /\ live' = live \ {value[NextSlot]}
    /\ status' = "resolve failed"
    /\ UNCHANGED <<handles, actors, born, uids, sum, tries, done, value, resolved, result>>

\* Every slot is resolved: the run hands its value back.
Finish ==
    /\ status = "resolving"
    /\ resolved = NSlots
    /\ status' = "done"
    /\ UNCHANGED <<handles, actors, servers, tries, done, value, resolved, result, faults>>

\* The run is over and no actor has anything left to do.
Over ==
    /\ status \in {"done", "tasks failed", "resolve failed", "refused"}
    /\ flying = {}
    /\ \A a \in Actors : pc[a] = "idle"
    /\ UNCHANGED vars

Act(a) ==
    \/ \E p \in Partitions : StartCall(a, p)
    \/ Reuse(a)
    \/ Acquire(a)
    \/ Create(a)
    \/ CreateRaises(a)
    \/ Publish(a)
    \/ Ship(a)
    \/ RpcFails(a)
    \/ Return(a)

Pickling(t) ==
    \/ StartPickle(t)
    \/ \E w \in Workers : Unpickle(t, w)
    \/ DropPickle(t)

Run == TasksFail \/ StartResolve \/ Resolve \/ ResolveRaises \/ Finish

Next ==
    \/ \E a \in Actors : Act(a)
    \/ \E t \in Threads : Pickling(t)
    \/ \E r \in flying : Handle(r)
    \/ \E w \in Workers : WorkerDies(w)
    \/ \E v \in Servers : ServerDies(v)
    \/ Run
    \/ Over

Spec == Init /\ [][Next]_vars

\* What the threads, the runner and the servers eventually do: an actor goes on
\* with its call, every RPC ends (each has a deadline), the runner starts the
\* tasks it has left and resolves. Nothing forces a fault or a pickle to start.
Fairness ==
    /\ \A a \in Actors :
        /\ WF_vars(\E p \in Partitions : StartCall(a, p))
        /\ WF_vars(Reuse(a) \/ Acquire(a))
        /\ WF_vars(Create(a) \/ Publish(a))
        /\ WF_vars(Ship(a) \/ Return(a))
    /\ \A t \in Threads : WF_vars((\E w \in Workers : Unpickle(t, w)) \/ DropPickle(t))
    /\ WF_vars(\E r \in flying : Handle(r))
    /\ WF_vars(Run)

FairSpec == Spec /\ Fairness

-----------------------------------------------------------------------------
(* Properties *)

IdMaps == [Slots -> Hists \cup {None}]
Requests ==
    [by : Actors, part : Partitions, try : 0 .. MaxTries, slot : Slots,
     hist : Hists, uid : Partitions]

\* The variables keep their types.
TypeOK ==
    /\ loaded \subseteq Procs /\ Driver \in loaded
    /\ ids \in [Procs -> IdMaps]
    /\ lock \in [Procs -> Actors \cup {None}]
    /\ pc \in [Actors -> {"idle", "ids", "making", "pickled", "ship", "wait"}]
    /\ task \in [Actors -> Partitions \cup {None}]
    /\ try \in [Actors -> 0 .. MaxTries]
    /\ at \in [Actors -> 1 .. NSlots + 1]
    /\ making \in [Actors -> IdMaps]
    /\ flying \subseteq Requests
    /\ born \in [Hists -> 0 .. NSlots]
    /\ live \subseteq Hists
    /\ uids \in [Hists -> SUBSET Partitions]
    /\ sum \in [Hists -> [Partitions -> Nat]]
    /\ tries \in [Partitions -> 0 .. MaxTries]
    /\ done \subseteq Partitions
    /\ value \in [Slots -> Hists \cup {None}]
    /\ status \in {"running", "refused", "tasks failed",
                   "resolving", "resolve failed", "done"}
    /\ resolved \in 0 .. NSlots
    /\ result \in [Slots -> [Partitions -> Nat]]
    /\ faults \in 0 .. MaxFaults

\* A slot the run resolves holds every partition exactly once, whatever was
\* retried, lost, late or created twice on the way: a run fails rather than
\* hand back a wrong sum (design.rst "A retried task fills once").
ResolvedOnce ==
    \A s \in Slots : s <= resolved => \A p \in Partitions : result[s][p] = 1

\* Fills reach only the histograms the driver published, the ones the receipts
\* name: what a failed _Handles.ids leaves behind on a server stays empty.
FillsArePublished ==
    \A h \in Hists : \A p \in Partitions :
        sum[h][p] > 0 => born[h] \in Slots /\ h = ids[Driver][born[h]]

\* The receipts of one run never refuse to add, in whatever threads and
\* processes its tasks ran (Receipt.__add__, _Served.__reduce__).
NeverRefused == status # "refused"

\* The tasks of a run fail only when its servers lost a histogram or there were
\* as many faults as a task has attempts: a retry finds its earlier attempt's
\* fills and counts them as done (_ship on ALREADY_EXISTS).
TasksFailForCause ==
    status = "tasks failed" =>
        \/ faults >= MaxTries
        \/ \E s \in Slots : ids[Driver][s] # None /\ ids[Driver][s] \notin live

\* A run that hands its value back leaves none of the histograms it filled on
\* a server (_GroupReduce.resolve_services deletes what it reads).
NothingLeft ==
    status = "done" =>
        \A h \in live : \A p \in Partitions : sum[h][p] = 0

\* The ids a process holds never change while it lives, and a worker's are the
\* driver's: no attempt, thread or process fills a histogram of its own.
IdsArePublishedOnce ==
    [][\A c \in loaded \cap loaded' :
         /\ ids[c] # NoIds => ids'[c] = ids[c]
         /\ ids'[c] # NoIds => ids'[c] = ids'[Driver]]_vars

\* The lock of a process is never left behind, and no waiter starves: an actor
\* that asks for the ids gets them, or its call raises or dies.
IdsAreServed == \A a \in Actors : pc[a] = "ids" ~> pc[a] # "ids"

\* The run ends: with its value, or with an error.
RunEnds == <>(status \notin {"running", "resolving"})

\* The run implements FillOnce: a slot's sum is what its published histogram
\* took, until it is resolved or lost.
HistOf(s) == ids[Driver][s]
Abstract == INSTANCE FillOnce WITH
    added <- [s \in Slots |-> IF HistOf(s) = None THEN {} ELSE uids[HistOf(s)]],
    outcome <- [s \in Slots |->
        IF s <= resolved THEN "taken"
        ELSE IF HistOf(s) # None /\ HistOf(s) \notin live THEN "lost"
        ELSE "open"],
    taken <- [s \in Slots |-> IF s <= resolved THEN result[s] ELSE Nothing]
ImplementsFillOnce == Abstract!Spec
=============================================================================
