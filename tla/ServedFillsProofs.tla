-------------------------- MODULE ServedFillsProofs --------------------------
(* Proofs about ServedFills, for every number of threads, workers, slots,     *)
(* partitions, attempts and faults: an inductive invariant and what follows   *)
(* from it, what a step may do, the refinement of FillOnce, and why tasks     *)
(* fail.  Then the same about ClientCache, through which every fill is sent.  *)
EXTENDS ServedFills, ClientCache, FiniteSetTheorems, TLAPS

-----------------------------------------------------------------------------
(* The inductive invariant *)

Published == ids[Driver] # NoIds

\* A process has all of its ids or none.
IdsWhole == \A c \in Procs : ids[c] # NoIds => \A s \in Slots : ids[c][s] \in Hists

\* A worker has the driver's ids, from the moment it holds the plan until it dies.
WorkersAgree ==
    \A w \in Workers :
        /\ w \in loaded => ids[w] = ids[Driver] /\ Published
        /\ w \notin loaded => ids[w] = NoIds /\ pc[w] = "idle"

\* Only a driver thread ever makes ids, alone, while there are none.
MakerAlone ==
    \A t \in Actors : pc[t] = "making" =>
        t \in Threads /\ lock[Driver] = t /\ ~Published

\* The ids a thread has made so far are its slots'.
MakingSoFar ==
    \A t \in Actors : pc[t] = "making" =>
        \A s \in Slots : s < at[t] =>
            making[t][s] \in Hists /\ born[making[t][s]] = s

\* The published ids are their slots'; every histogram was made for a slot.
BornForSlot ==
    /\ Published => \A s \in Slots : born[ids[Driver][s]] = s
    /\ \A h \in live : born[h] # 0

\* An actor past the ids has them; one that ships runs a task.
PathInv ==
    \A a \in Actors :
        /\ pc[a] \in {"ship", "wait"} => task[a] \in Partitions /\ Published
        /\ pc[a] = "wait" => at[a] \in Slots
        /\ pc[a] = "pickled" => a \in Threads /\ Published
        /\ pc[a] \in {"ids", "making"} /\ task[a] = None => a \in Threads

\* Requests go to the published histograms, under their partition.
FlyingInv ==
    \A r \in flying : Published /\ r.uid = r.part /\ r.hist = ids[Driver][r.slot]

\* A histogram has added the partitions whose unique id it took, once each.
Counted ==
    \A h \in Hists : \A p \in Partitions : sum[h][p] = IF p \in uids[h] THEN 1 ELSE 0

\* Only published histograms took any.
OnlyPublished ==
    \A h \in Hists : uids[h] # {} =>
        Published /\ born[h] \in Slots /\ h = ids[Driver][born[h]]

\* Slot s holds partition p, unless its server lost the slot.
Holds(s, p) == ids[Driver][s] \in live => p \in uids[ids[Driver][s]]

\* What an actor shipped is held.
ShippedHeld ==
    \A a \in Actors : pc[a] \in {"ship", "wait"} =>
        \A s \in Slots : s < at[a] => Holds(s, task[a])

\* What the driver has a receipt for is held.
DoneHeld == \A p \in done : Published /\ \A s \in Slots : Holds(s, p)

\* The combined receipt of a slot is empty or its published histogram.
ReceiptsInv ==
    /\ done = {} => \A s \in Slots : value[s] = None
    /\ done # {} => \A s \in Slots : value[s] = ids[Driver][s]
    /\ status # "refused"

\* A run resolves only what every task has filled.
ResolveInv ==
    /\ status \in {"resolving", "resolve failed", "done"} => done = Partitions
    /\ status \in {"running", "tasks failed"} => resolved = 0
    /\ status = "done" => resolved = NSlots
    /\ \A s \in Slots : s <= resolved => \A p \in Partitions : result[s][p] = 1

\* A resolved slot's histogram is off its server (when there is a task at all).
ResolvedGone ==
    Partitions # {} =>
        \A s \in Slots : s <= resolved => Published /\ ids[Driver][s] \notin live

Inv ==
    /\ TypeOK
    /\ IdsWhole /\ WorkersAgree
    /\ MakerAlone /\ MakingSoFar /\ BornForSlot
    /\ PathInv /\ FlyingInv
    /\ Counted /\ OnlyPublished
    /\ ShippedHeld /\ DoneHeld
    /\ ReceiptsInv /\ ResolveInv /\ ResolvedGone

-----------------------------------------------------------------------------
\* The processes and actors.
LEMMA ProcFacts ==
    /\ Driver \in Procs /\ Driver \notin Workers /\ 1 \in Slots
    /\ Workers \subseteq Procs /\ Workers \subseteq Actors /\ Threads \subseteq Actors
    /\ \A a \in Actors :
        /\ Proc(a) \in Procs
        /\ a \in Threads => Proc(a) = Driver /\ a \notin Workers
        /\ a \in Workers => Proc(a) = a
        /\ a \notin Workers => a \in Threads
BY ActorAssumption, SlotsAssumption DEF Procs, Proc, Actors, Slots

\* The slots and the loop over them.
LEMMA SlotFacts ==
    /\ \A s \in Slots :
        /\ s \in Nat /\ s # 0 /\ ~(s < 1)
        /\ s < NSlots + 1 /\ s + 1 \in 1 .. NSlots + 1
    /\ 1 \in 1 .. NSlots + 1 /\ Slots \subseteq 0 .. NSlots
    /\ NoIds \in IdMaps /\ NoIds[1] = None
BY SlotsAssumption DEF Slots, NoIds, IdMaps

\* The types the steps below use.
LEMMA TypeFacts ==
    ASSUME Inv
    PROVE  /\ \A a \in Actors : at[a] \in 1 .. NSlots + 1
           /\ \A a \in Actors : task[a] \in Partitions \cup {None}
           /\ \A a \in Actors : making[a] \in IdMaps
           /\ live \subseteq Hists /\ done \subseteq Partitions
BY DEF Inv, TypeOK

\* A fault keeps the count of faults within its bound.
LEMMA FaultsBounded ==
    ASSUME Inv, Fault
    PROVE  faults' \in 0 .. MaxFaults
<1>1. faults \in 0 .. MaxFaults
  BY DEF Inv, TypeOK
<1> QED
  BY <1>1, BoundAssumption DEF Fault

\* The invariant holds at the start.
LEMMA InitInv ==
    ASSUME Init
    PROVE  Inv
<1>1. TypeOK
  BY SlotsAssumption, BoundAssumption, ProcFacts DEF Init, TypeOK, Slots, IdMaps,
     NoIds, Nothing
<1>2. IdsWhole
  BY ProcFacts, SlotsAssumption, ActorAssumption DEF Init, IdsWhole, Published,
     NoIds, Nothing, Holds, Slots
<1>3. WorkersAgree
  BY ProcFacts DEF Init, WorkersAgree
<1>4. MakerAlone
  BY ProcFacts, SlotsAssumption, ActorAssumption DEF Init, MakerAlone, Published,
     NoIds, Nothing, Holds, Slots
<1>5. MakingSoFar
  BY ProcFacts, SlotsAssumption, ActorAssumption DEF Init, MakingSoFar, Published,
     NoIds, Nothing, Holds, Slots
<1>6. BornForSlot
  BY ProcFacts, SlotsAssumption, ActorAssumption DEF Init, BornForSlot, Published,
     NoIds, Nothing, Holds, Slots
<1>7. PathInv
  BY ProcFacts, SlotsAssumption, ActorAssumption DEF Init, PathInv, Published,
     NoIds, Nothing, Holds, Slots
<1>8. FlyingInv
  BY ProcFacts, SlotsAssumption, ActorAssumption DEF Init, FlyingInv, Published,
     NoIds, Nothing, Holds, Slots
<1>9. Counted
  BY ProcFacts, SlotsAssumption, ActorAssumption DEF Init, Counted, Published,
     NoIds, Nothing, Holds, Slots
<1>10. OnlyPublished
  BY ProcFacts, SlotsAssumption, ActorAssumption DEF Init, OnlyPublished, Published,
     NoIds, Nothing, Holds, Slots
<1>11. ShippedHeld
  BY ProcFacts, SlotsAssumption, ActorAssumption DEF Init, ShippedHeld, Published,
     NoIds, Nothing, Holds, Slots
<1>12. DoneHeld
  BY ProcFacts, SlotsAssumption, ActorAssumption DEF Init, DoneHeld, Published,
     NoIds, Nothing, Holds, Slots
<1>13. ReceiptsInv
  BY ProcFacts, SlotsAssumption, ActorAssumption DEF Init, ReceiptsInv, Published,
     NoIds, Nothing, Holds, Slots
<1>14. ResolveInv
  BY ProcFacts, SlotsAssumption, ActorAssumption DEF Init, ResolveInv, Published,
     NoIds, Nothing, Holds, Slots
<1>15. ResolvedGone
  BY ProcFacts, SlotsAssumption, ActorAssumption DEF Init, ResolvedGone, Published,
     NoIds, Nothing, Holds, Slots
<1> QED
  BY <1>1, <1>2, <1>3, <1>4, <1>5, <1>6, <1>7, <1>8, <1>9, <1>10, <1>11, <1>12,
     <1>13, <1>14, <1>15 DEF Inv

\* StartCall keeps the invariant.
LEMMA StartCallKeeps ==
    ASSUME Inv, NEW a \in Actors, NEW p \in Partitions, StartCall(a, p)
    PROVE  Inv'
<1>0. /\ pc[a] = "idle" /\ Proc(a) \in loaded /\ status = "running"
      /\ \A b \in Actors : pc'[b] = IF b = a THEN "ids" ELSE pc[b]
      /\ \A b \in Actors : task'[b] = IF b = a THEN p ELSE task[b]
      /\ UNCHANGED <<loaded, ids, lock, at, making, flying, born, live, uids, sum,
                     done, value, status, resolved, result, faults>>
  BY ProcFacts DEF Inv, TypeOK, StartCall, handles, servers
<1>1. TypeOK'
  <2>1. tries[p] + 1 \in 0 .. MaxTries
    BY BoundAssumption DEF Inv, TypeOK, StartCall
  <2> QED
    BY <2>1 DEF Inv, TypeOK, StartCall, handles, servers
<1>2. WorkersAgree'
  BY <1>0, ProcFacts, SlotFacts, TypeFacts DEF Inv, WorkersAgree, Published
<1>3. MakerAlone'
  BY <1>0, ProcFacts, SlotFacts, TypeFacts DEF Inv, MakerAlone, WorkersAgree, Published
<1>4. MakingSoFar'
  BY <1>0, ProcFacts, SlotFacts, TypeFacts DEF Inv, MakingSoFar
<1>5. PathInv'
  BY <1>0, ProcFacts, TypeFacts, NoneAssumption DEF Inv, PathInv, Published
<1>6. ShippedHeld'
  BY <1>0, ProcFacts, SlotFacts, TypeFacts DEF Inv, ShippedHeld, Holds
<1>7. IdsWhole' /\ BornForSlot' /\ FlyingInv'
  BY <1>0 DEF Inv, IdsWhole, BornForSlot, FlyingInv, Published
<1>8. Counted' /\ OnlyPublished' /\ DoneHeld'
  BY <1>0 DEF Inv, Counted, OnlyPublished, DoneHeld, Holds, Published
<1>9. ReceiptsInv' /\ ResolveInv' /\ ResolvedGone'
  BY <1>0 DEF Inv, ReceiptsInv, ResolveInv, ResolvedGone, Published
<1> QED
  BY <1>1, <1>2, <1>3, <1>4, <1>5, <1>6, <1>7, <1>8, <1>9 DEF Inv

\* StartPickle keeps the invariant.
LEMMA StartPickleKeeps ==
    ASSUME Inv, NEW t \in Threads, StartPickle(t)
    PROVE  Inv'
<1>0. /\ t \in Actors
      /\ \A b \in Actors : pc'[b] = IF b = t THEN "ids" ELSE pc[b]
      /\ UNCHANGED <<loaded, ids, lock, task, try, at, making, flying, born, live,
                     uids, sum, tries, done, value, status, resolved, result, faults>>
  BY ProcFacts DEF Inv, TypeOK, StartPickle, Actors, Actors, handles, servers, runner
<1>1. TypeOK'
  BY ProcFacts, SlotFacts DEF Inv, TypeOK, StartPickle, handles, servers, runner
<1>2. WorkersAgree'
  BY <1>0, ProcFacts, SlotFacts, TypeFacts DEF Inv, WorkersAgree, Published
<1>3. MakerAlone'
  BY <1>0, ProcFacts, SlotFacts, TypeFacts DEF Inv, MakerAlone, WorkersAgree, Published
<1>4. MakingSoFar'
  BY <1>0, ProcFacts, SlotFacts, TypeFacts DEF Inv, MakingSoFar
<1>5. PathInv'
  BY <1>0, ProcFacts, SlotFacts, TypeFacts DEF Inv, PathInv, WorkersAgree, Published
<1>6. ShippedHeld'
  BY <1>0, ProcFacts, SlotFacts, TypeFacts DEF Inv, ShippedHeld, Holds
<1>7. IdsWhole' /\ BornForSlot' /\ FlyingInv'
  BY <1>0 DEF Inv, IdsWhole, BornForSlot, FlyingInv, Published
<1>8. Counted' /\ OnlyPublished' /\ DoneHeld'
  BY <1>0 DEF Inv, Counted, OnlyPublished, DoneHeld, Holds, Published
<1>9. ReceiptsInv' /\ ResolveInv' /\ ResolvedGone'
  BY <1>0 DEF Inv, ReceiptsInv, ResolveInv, ResolvedGone, Published
<1> QED
  BY <1>1, <1>2, <1>3, <1>4, <1>5, <1>6, <1>7, <1>8, <1>9 DEF Inv

\* Unpickle keeps the invariant.
LEMMA UnpickleKeeps ==
    ASSUME Inv, NEW t \in Threads, NEW w \in Workers, Unpickle(t, w)
    PROVE  Inv'
<1>0. /\ t \in Actors /\ pc[t] = "pickled"
      /\ loaded' = loaded \cup {w}
      /\ \A b \in Actors : pc'[b] = IF b = t THEN "idle" ELSE pc[b]
      /\ \A b \in Procs : ids'[b] = IF b = w THEN ids[Driver] ELSE ids[b]
      /\ \A b \in Procs : lock'[b] = IF b = w THEN None ELSE lock[b]
      /\ UNCHANGED <<task, try, at, making, flying, born, live, uids, sum, tries,
                     done, value, status, resolved, result, faults>>
  BY ProcFacts DEF Inv, TypeOK, Unpickle, Actors, Actors, servers, runner
<1>1. TypeOK'
  BY ProcFacts, SlotFacts, ZenonT(30) DEF Inv, TypeOK, Unpickle, servers, runner
<1>2. IdsWhole'
  BY <1>0, ProcFacts, SlotFacts, TypeFacts DEF Inv, IdsWhole
<1>3. WorkersAgree'
  BY <1>0, ProcFacts DEF Inv, WorkersAgree, PathInv, Published
<1>4. MakerAlone'
  BY <1>0, ProcFacts, SlotFacts, TypeFacts DEF Inv, MakerAlone, WorkersAgree, Published
<1>5. MakingSoFar'
  BY <1>0, ProcFacts, SlotFacts, TypeFacts DEF Inv, MakingSoFar
<1>6. BornForSlot'
  BY <1>0, ProcFacts, SlotFacts, TypeFacts DEF Inv, BornForSlot, Published
<1>7. PathInv'
  BY <1>0, ProcFacts, SlotFacts, TypeFacts DEF Inv, PathInv, WorkersAgree, Published
<1>8. FlyingInv'
  BY <1>0, ProcFacts, SlotFacts, TypeFacts DEF Inv, FlyingInv, Published
<1>9. OnlyPublished'
  BY <1>0, ProcFacts, SlotFacts, TypeFacts DEF Inv, OnlyPublished, Published
<1>10. ShippedHeld'
  BY <1>0, ProcFacts, SlotFacts, TypeFacts DEF Inv, ShippedHeld, Holds
<1>11. DoneHeld'
  BY <1>0, ProcFacts, SlotFacts, TypeFacts DEF Inv, DoneHeld, Holds, Published
<1>12. ReceiptsInv'
  BY <1>0, ProcFacts, SlotFacts, TypeFacts DEF Inv, ReceiptsInv
<1>13. ResolvedGone'
  BY <1>0, ProcFacts, SlotFacts, TypeFacts DEF Inv, ResolvedGone, Published
<1>14. Counted' /\ ResolveInv'
  BY <1>0 DEF Inv, Counted, ResolveInv
<1> QED
  BY <1>1, <1>2, <1>3, <1>4, <1>5, <1>6, <1>7, <1>8, <1>9, <1>10, <1>11, <1>12,
     <1>13, <1>14 DEF Inv

\* DropPickle keeps the invariant.
LEMMA DropPickleKeeps ==
    ASSUME Inv, NEW t \in Threads, DropPickle(t)
    PROVE  Inv'
<1>0. /\ t \in Actors
      /\ \A b \in Actors : pc'[b] = IF b = t THEN "idle" ELSE pc[b]
      /\ UNCHANGED <<loaded, ids, lock, task, try, at, making, flying, born, live,
                     uids, sum, tries, done, value, status, resolved, result, faults>>
  BY ProcFacts DEF Inv, TypeOK, DropPickle, Actors, Actors, handles, servers, runner
<1>1. TypeOK'
  BY ProcFacts, SlotFacts DEF Inv, TypeOK, DropPickle, handles, servers, runner
<1>2. WorkersAgree'
  BY <1>0, ProcFacts, SlotFacts, TypeFacts DEF Inv, WorkersAgree, Published
<1>3. MakerAlone'
  BY <1>0, ProcFacts, SlotFacts, TypeFacts DEF Inv, MakerAlone, WorkersAgree, Published
<1>4. MakingSoFar'
  BY <1>0, ProcFacts, SlotFacts, TypeFacts DEF Inv, MakingSoFar
<1>5. PathInv'
  BY <1>0, ProcFacts, SlotFacts, TypeFacts DEF Inv, PathInv, WorkersAgree, Published
<1>6. ShippedHeld'
  BY <1>0, ProcFacts, SlotFacts, TypeFacts DEF Inv, ShippedHeld, Holds
<1>7. IdsWhole' /\ BornForSlot' /\ FlyingInv'
  BY <1>0 DEF Inv, IdsWhole, BornForSlot, FlyingInv, Published
<1>8. Counted' /\ OnlyPublished' /\ DoneHeld'
  BY <1>0 DEF Inv, Counted, OnlyPublished, DoneHeld, Holds, Published
<1>9. ReceiptsInv' /\ ResolveInv' /\ ResolvedGone'
  BY <1>0 DEF Inv, ReceiptsInv, ResolveInv, ResolvedGone, Published
<1> QED
  BY <1>1, <1>2, <1>3, <1>4, <1>5, <1>6, <1>7, <1>8, <1>9 DEF Inv

\* Reuse keeps the invariant.
LEMMA ReuseKeeps ==
    ASSUME Inv, NEW a \in Actors, Reuse(a)
    PROVE  Inv'
<1>0. /\ pc[a] = "ids" /\ ids[Proc(a)] # NoIds
      /\ \A b \in Actors : pc'[b] = IF b = a THEN AfterIds(a) ELSE pc[b]
      /\ \A b \in Actors : at'[b] = IF b = a THEN 1 ELSE at[b]
      /\ AfterIds(a) \in {"pickled", "ship"} /\ (AfterIds(a) = "pickled" <=> task[a] = None)
      /\ UNCHANGED <<loaded, ids, lock, task, try, making, flying, born, live, uids,
                     sum, tries, done, value, status, resolved, result, faults>>
  BY ProcFacts DEF Inv, TypeOK, Reuse, AfterIds, handles, servers, runner
<1>1. TypeOK'
  BY <1>0, SlotFacts DEF Inv, TypeOK, Reuse, handles, servers, runner
<1>2. WorkersAgree'
  BY <1>0, ProcFacts, SlotFacts, TypeFacts DEF Inv, WorkersAgree, Published
<1>3. MakerAlone'
  BY <1>0, ProcFacts, SlotFacts, TypeFacts DEF Inv, MakerAlone, WorkersAgree, Published
<1>4. MakingSoFar'
  BY <1>0, ProcFacts, SlotFacts, TypeFacts DEF Inv, MakingSoFar
<1>5. PathInv'
  BY <1>0, ProcFacts, SlotFacts, TypeFacts DEF Inv, PathInv, WorkersAgree, Published
<1>6. ShippedHeld'
  BY <1>0, ProcFacts, SlotFacts, TypeFacts DEF Inv, ShippedHeld, Holds
<1>7. IdsWhole' /\ BornForSlot' /\ FlyingInv'
  BY <1>0 DEF Inv, IdsWhole, BornForSlot, FlyingInv, Published
<1>8. Counted' /\ OnlyPublished' /\ DoneHeld'
  BY <1>0 DEF Inv, Counted, OnlyPublished, DoneHeld, Holds, Published
<1>9. ReceiptsInv' /\ ResolveInv' /\ ResolvedGone'
  BY <1>0 DEF Inv, ReceiptsInv, ResolveInv, ResolvedGone, Published
<1> QED
  BY <1>1, <1>2, <1>3, <1>4, <1>5, <1>6, <1>7, <1>8, <1>9 DEF Inv

\* Acquire keeps the invariant.
LEMMA AcquireKeeps ==
    ASSUME Inv, NEW a \in Actors, Acquire(a)
    PROVE  Inv'
<1>0. /\ pc[a] = "ids" /\ ids[Proc(a)] = NoIds /\ lock[Proc(a)] = None
      /\ \A b \in Actors : pc'[b] = IF b = a THEN "making" ELSE pc[b]
      /\ \A b \in Actors : at'[b] = IF b = a THEN 1 ELSE at[b]
      /\ \A b \in Procs : lock'[b] = IF b = Proc(a) THEN a ELSE lock[b]
      /\ \A b \in Actors : making'[b] = IF b = a THEN NoIds ELSE making[b]
      /\ UNCHANGED <<loaded, ids, task, try, flying, born, live, uids, sum, tries,
                     done, value, status, resolved, result, faults>>
  BY ProcFacts DEF Inv, TypeOK, Acquire, servers, runner
<1>a. a \in Threads /\ Proc(a) = Driver /\ ~Published
  BY <1>0, ProcFacts DEF Inv, WorkersAgree, Published
<1>b. \A t \in Actors : pc[t] # "making"
  BY <1>0, <1>a, ActorAssumption DEF Inv, MakerAlone
<1>1. TypeOK'
  BY ProcFacts, SlotFacts DEF Inv, TypeOK, Acquire, servers, runner
<1>2. WorkersAgree'
  BY <1>0, <1>a, ProcFacts DEF Inv, WorkersAgree, Published
<1>3. MakerAlone'
  BY <1>0, <1>a, <1>b, ProcFacts DEF Inv, MakerAlone, Published
<1>4. MakingSoFar'
  BY <1>0, <1>b, SlotFacts DEF Inv, MakingSoFar
<1>5. PathInv'
  BY <1>0, ProcFacts, SlotFacts, TypeFacts DEF Inv, PathInv, WorkersAgree, Published
<1>6. ShippedHeld'
  BY <1>0, ProcFacts, SlotFacts, TypeFacts DEF Inv, ShippedHeld, Holds
<1>7. IdsWhole' /\ BornForSlot' /\ FlyingInv'
  BY <1>0 DEF Inv, IdsWhole, BornForSlot, FlyingInv, Published
<1>8. Counted' /\ OnlyPublished' /\ DoneHeld'
  BY <1>0 DEF Inv, Counted, OnlyPublished, DoneHeld, Holds, Published
<1>9. ReceiptsInv' /\ ResolveInv' /\ ResolvedGone'
  BY <1>0 DEF Inv, ReceiptsInv, ResolveInv, ResolvedGone, Published
<1> QED
  BY <1>1, <1>2, <1>3, <1>4, <1>5, <1>6, <1>7, <1>8, <1>9 DEF Inv

\* Create keeps the invariant.
LEMMA CreateKeeps ==
    ASSUME Inv, NEW a \in Actors, Create(a)
    PROVE  Inv'
<1>0. /\ pc[a] = "making" /\ at[a] \in Slots
      /\ \A b \in Actors : at'[b] = IF b = a THEN at[a] + 1 ELSE at[b]
      /\ UNCHANGED <<loaded, ids, lock, pc, task, try, flying, uids, sum, tries, done,
                     value, status, resolved, result, faults>>
  BY ProcFacts DEF Inv, TypeOK, Create, Host, handles, runner
<1>a. a \in Threads /\ ~Published /\ \A t \in Actors : pc[t] = "making" => t = a
  BY <1>0 DEF Inv, MakerAlone
<1>b. PICK h \in Fresh : Host(h, at[a]) /\ making' = [making EXCEPT ![a][at[a]] = h]
  BY DEF Create
<1>c. h \in Hists /\ born[h] = 0
  BY DEF Fresh, Unused
<1>d. /\ \A g \in Hists : born'[g] = IF g = h THEN at[a] ELSE born[g]
      /\ live' = live \cup {h}
      /\ \A s \in Slots : making'[a][s] = IF s = at[a] THEN h ELSE making[a][s]
  BY <1>0, <1>b, <1>c DEF Inv, TypeOK, Host, IdMaps
<1>e. \A s \in Slots : s < at[a] + 1 <=> s < at[a] \/ s = at[a]
  BY <1>0, SlotsAssumption DEF Slots
<1>1. TypeOK'
  <2>1. at[a] + 1 \in 1 .. NSlots + 1 /\ at[a] \in 0 .. NSlots
    BY <1>0, SlotFacts
  <2>2. making' \in [Actors -> IdMaps]
    BY <1>0, <1>b, <1>c DEF Inv, TypeOK, IdMaps
  <2> QED
    BY <2>1, <2>2, <1>0, <1>b, <1>c DEF Inv, TypeOK, Create, Host, handles, runner
<1>2. MakingSoFar'
  <2> SUFFICES ASSUME NEW t \in Actors, pc'[t] = "making", NEW s \in Slots, s < at'[t]
               PROVE  making'[t][s] \in Hists /\ born'[making'[t][s]] = s
    BY DEF MakingSoFar
  <2>1. t = a
    BY <1>0, <1>a
  <2>2. CASE s = at[a]
    BY <2>1, <2>2, <1>c, <1>d
  <2>3. CASE s < at[a]
    <3>1. making[a][s] \in Hists /\ born[making[a][s]] = s
      BY <2>3, <1>0 DEF Inv, MakingSoFar
    <3>2. s # 0 /\ s # at[a]
      BY <2>3, <1>0, SlotFacts, SlotsAssumption DEF Slots
    <3> QED
      BY <2>1, <3>1, <3>2, <1>c, <1>d
  <2> QED
    BY <2>1, <2>2, <2>3, <1>0, <1>e
<1>3. BornForSlot'
  BY <1>0, <1>a, <1>c, <1>d, SlotFacts, TypeFacts DEF Inv, BornForSlot, Published
<1>4. PathInv'
  BY <1>0, ProcFacts, SlotFacts, TypeFacts DEF Inv, PathInv, WorkersAgree, Published
<1>5. OnlyPublished'
  BY <1>0, <1>a, <1>c, <1>d, SlotFacts DEF Inv, OnlyPublished, Published
<1>6. ShippedHeld'
  BY <1>0, <1>a DEF Inv, ShippedHeld, PathInv, Published
<1>7. DoneHeld'
  BY <1>0, <1>a DEF Inv, DoneHeld, Published
<1>8. ResolvedGone'
  BY <1>0, <1>a DEF Inv, ResolvedGone, Published
<1>9. IdsWhole' /\ WorkersAgree' /\ MakerAlone'
  BY <1>0 DEF Inv, IdsWhole, WorkersAgree, MakerAlone, Published
<1>10. FlyingInv' /\ Counted' /\ ReceiptsInv'
  BY <1>0 DEF Inv, FlyingInv, Counted, ReceiptsInv, Published
<1>11. ResolveInv'
  BY <1>0 DEF Inv, ResolveInv
<1> QED
  BY <1>1, <1>2, <1>3, <1>4, <1>5, <1>6, <1>7, <1>8, <1>9, <1>10, <1>11 DEF Inv

\* CreateRaises keeps the invariant.
LEMMA CreateRaisesKeeps ==
    ASSUME Inv, NEW a \in Actors, CreateRaises(a)
    PROVE  Inv'
<1>0. /\ pc[a] = "making" /\ at[a] \in Slots
      /\ \A b \in Actors : pc'[b] = IF b = a THEN "idle" ELSE pc[b]
      /\ \A b \in Actors : task'[b] = IF b = a THEN None ELSE task[b]
      /\ \A b \in Procs : lock'[b] = IF b = Proc(a) THEN None ELSE lock[b]
      /\ UNCHANGED <<loaded, ids, try, at, making, flying, uids, sum, tries, done,
                     value, status, resolved, result>>
  BY ProcFacts DEF Inv, TypeOK, CreateRaises, Raise, Host, Fault, servers, runner
<1>a. /\ a \in Threads /\ Proc(a) = Driver /\ ~Published
      /\ \A t \in Actors : pc[t] = "making" => t = a
  BY <1>0, ProcFacts DEF Inv, MakerAlone
<1>b. /\ \A g \in Hists : born'[g] = born[g] \/ (born[g] = 0 /\ born'[g] = at[a])
      /\ \A g \in live' : g \in live \/ (g \in Hists /\ born'[g] = at[a])
  <2>1. CASE UNCHANGED servers
    BY <2>1 DEF servers, Inv, TypeOK
  <2>2. CASE \E h \in Fresh : Host(h, at[a])
    <3>1. PICK h \in Fresh : Host(h, at[a])
      BY <2>2
    <3>2. h \in Hists /\ born[h] = 0
      BY DEF Fresh, Unused
    <3>3. born \in [Hists -> 0 .. NSlots]
      BY DEF Inv, TypeOK
    <3>4. born' = [born EXCEPT ![h] = at[a]] /\ live' = live \cup {h}
      BY <3>1 DEF Host
    <3>5. \A g \in Hists : born'[g] = IF g = h THEN at[a] ELSE born[g]
      BY <3>3, <3>4
    <3>6. \A g \in Hists : born'[g] = born[g] \/ (born[g] = 0 /\ born'[g] = at[a])
      BY <3>2, <3>5
    <3> QED
      BY <3>2, <3>4, <3>5, <3>6
  <2> QED
    BY <2>1, <2>2 DEF CreateRaises
<1>1. TypeOK'
  <2>1. faults' \in 0 .. MaxFaults
    BY FaultsBounded DEF CreateRaises
  <2>2. born' \in [Hists -> 0 .. NSlots] /\ live' \subseteq Hists
    <3>1. CASE UNCHANGED servers
      BY <3>1 DEF servers, Inv, TypeOK
    <3>2. CASE \E h \in Fresh : Host(h, at[a])
      BY <3>2, <1>0, SlotFacts DEF Inv, TypeOK, Host, Fresh, Unused
    <3> QED
      BY <3>1, <3>2 DEF CreateRaises
  <2> QED
    BY <2>1, <2>2, <1>0, ProcFacts DEF Inv, TypeOK, CreateRaises, Raise
<1>2. WorkersAgree'
  BY <1>0, <1>a, ProcFacts DEF Inv, WorkersAgree, Published
<1>3. MakerAlone'
  BY <1>0, ProcFacts, SlotFacts, TypeFacts DEF Inv, MakerAlone, WorkersAgree, Published
<1>4. MakingSoFar'
  BY <1>0, <1>a DEF Inv, MakingSoFar
<1>5. BornForSlot'
  BY <1>0, <1>a, <1>b, SlotFacts, TypeFacts DEF Inv, BornForSlot, Published
<1>6. PathInv'
  BY <1>0, ProcFacts, SlotFacts, TypeFacts DEF Inv, PathInv, WorkersAgree, Published
<1>7. OnlyPublished'
  BY <1>0, <1>a, <1>b, SlotFacts DEF Inv, OnlyPublished, Published
<1>8. ShippedHeld'
  BY <1>0, <1>a DEF Inv, ShippedHeld, PathInv, Published
<1>9. DoneHeld'
  BY <1>0, <1>a DEF Inv, DoneHeld, Published
<1>10. ResolvedGone'
  BY <1>0, <1>a DEF Inv, ResolvedGone, Published
<1>11. IdsWhole' /\ FlyingInv' /\ Counted'
  BY <1>0 DEF Inv, IdsWhole, FlyingInv, Counted, Published
<1>12. ReceiptsInv' /\ ResolveInv'
  BY <1>0 DEF Inv, ReceiptsInv, ResolveInv
<1> QED
  BY <1>1, <1>2, <1>3, <1>4, <1>5, <1>6, <1>7, <1>8, <1>9, <1>10, <1>11, <1>12 DEF Inv

\* Publish keeps the invariant.
LEMMA PublishKeeps ==
    ASSUME Inv, NEW a \in Actors, Publish(a)
    PROVE  Inv'
<1>0. /\ pc[a] = "making" /\ at[a] = NSlots + 1
      /\ \A b \in Actors : pc'[b] = IF b = a THEN AfterIds(a) ELSE pc[b]
      /\ \A b \in Actors : at'[b] = IF b = a THEN 1 ELSE at[b]
      /\ AfterIds(a) \in {"pickled", "ship"} /\ (AfterIds(a) = "pickled" <=> task[a] = None)
      /\ \A b \in Procs : lock'[b] = IF b = Proc(a) THEN None ELSE lock[b]
      /\ \A b \in Procs : ids'[b] = IF b = Proc(a) THEN making[a] ELSE ids[b]
      /\ UNCHANGED <<loaded, task, try, making, flying, born, live, uids, sum, tries,
                     done, value, status, resolved, result, faults>>
  BY ProcFacts DEF Inv, TypeOK, Publish, AfterIds, servers, runner
<1>a. /\ a \in Threads /\ Proc(a) = Driver /\ ~Published
      /\ \A t \in Actors : pc[t] = "making" => t = a
  BY <1>0, ProcFacts DEF Inv, MakerAlone
<1>b. \A s \in Slots : making[a][s] \in Hists /\ born[making[a][s]] = s
  BY <1>0, SlotFacts DEF Inv, MakingSoFar
<1>c. ids'[Driver] = making[a] /\ making[a] # NoIds
  BY <1>0, <1>a, <1>b, ProcFacts, SlotFacts, NoneAssumption
<1>d. \A c \in Procs : c # Driver => ids'[c] = ids[c]
  BY <1>0, <1>a
<1>e. \A b \in Actors : pc[b] \notin {"ship", "wait", "pickled"}
  BY <1>a DEF Inv, PathInv
<1>f. /\ \A w \in Workers : w \notin loaded
      /\ flying = {} /\ done = {}
      /\ \A h \in Hists : uids[h] = {}
  BY <1>a DEF Inv, WorkersAgree, FlyingInv, DoneHeld, OnlyPublished
<1>1. TypeOK'
  <2>1. ids' \in [Procs -> IdMaps] /\ lock' \in [Procs -> Actors \cup {None}]
    BY ProcFacts DEF Inv, TypeOK, Publish
  <2>2. /\ pc' \in [Actors -> {"idle", "ids", "making", "pickled", "ship", "wait"}]
        /\ at' \in [Actors -> 1 .. NSlots + 1]
    BY SlotFacts DEF Inv, TypeOK, Publish, AfterIds
  <2> QED
    BY <2>1, <2>2, <1>0 DEF Inv, TypeOK
<1>2. IdsWhole'
  BY <1>b, <1>c, <1>d DEF Inv, IdsWhole
<1>3. WorkersAgree'
  BY <1>0, <1>a, <1>c, <1>d, <1>f, ProcFacts DEF Inv, WorkersAgree, Published
<1>4. MakerAlone'
  BY <1>0, <1>a DEF Inv, MakerAlone
<1>5. MakingSoFar'
  BY <1>0, <1>a DEF Inv, MakingSoFar
<1>6. BornForSlot'
  BY <1>0, <1>b, <1>c DEF Inv, BornForSlot, Published
<1>7. PathInv'
  BY <1>0, <1>a, <1>c, <1>e, TypeFacts DEF Inv, PathInv, Published
<1>8. FlyingInv'
  BY <1>0, <1>f DEF Inv, FlyingInv
<1>9. OnlyPublished'
  BY <1>0, <1>f DEF Inv, OnlyPublished
<1>10. ShippedHeld'
  BY <1>0, <1>e, SlotFacts DEF Inv, ShippedHeld
<1>11. DoneHeld'
  BY <1>0, <1>f DEF Inv, DoneHeld
<1>12. ReceiptsInv'
  BY <1>0, <1>f DEF Inv, ReceiptsInv
<1>13. ResolvedGone'
  BY <1>0, <1>a DEF Inv, ResolvedGone, Published
<1>14. Counted' /\ ResolveInv'
  BY <1>0 DEF Inv, Counted, ResolveInv
<1> QED
  BY <1>1, <1>2, <1>3, <1>4, <1>5, <1>6, <1>7, <1>8, <1>9, <1>10, <1>11, <1>12,
     <1>13, <1>14 DEF Inv

\* Ship keeps the invariant.
LEMMA ShipKeeps ==
    ASSUME Inv, NEW a \in Actors, Ship(a)
    PROVE  Inv'
<1>0. /\ pc[a] = "ship" /\ at[a] \in Slots
      /\ \A b \in Actors : pc'[b] = IF b = a THEN "wait" ELSE pc[b]
      /\ flying' = flying \cup {Request(a)}
      /\ UNCHANGED <<loaded, ids, lock, task, try, at, making, born, live, uids, sum,
                     tries, done, value, status, resolved, result, faults>>
  BY ProcFacts DEF Inv, TypeOK, Ship, handles, servers, runner
<1>a. Proc(a) \in Procs /\ ids[Proc(a)] = ids[Driver] /\ Published /\ task[a] \in Partitions
  BY <1>0, ProcFacts DEF Inv, PathInv, WorkersAgree, Published
<1>b. /\ Request(a).uid = Request(a).part
      /\ Request(a).hist = ids[Driver][Request(a).slot]
  BY <1>a DEF Request, UniqueId
<1>1. TypeOK'
  <2>1. Request(a) \in Requests
    BY <1>0, <1>a, ProcFacts DEF Inv, TypeOK, IdsWhole, Published, Request,
       UniqueId, Requests
  <2> QED
    BY <2>1 DEF Inv, TypeOK, Ship, handles, servers, runner
<1>2. WorkersAgree'
  BY <1>0, ProcFacts, SlotFacts, TypeFacts DEF Inv, WorkersAgree, Published
<1>3. MakerAlone'
  BY <1>0, ProcFacts, SlotFacts, TypeFacts DEF Inv, MakerAlone, WorkersAgree, Published
<1>4. MakingSoFar'
  BY <1>0, ProcFacts, SlotFacts, TypeFacts DEF Inv, MakingSoFar
<1>5. PathInv'
  BY <1>0, ProcFacts, SlotFacts, TypeFacts DEF Inv, PathInv, WorkersAgree, Published
<1>6. FlyingInv'
  BY <1>0, <1>a, <1>b DEF Inv, FlyingInv, Published
<1>7. ShippedHeld'
  BY <1>0, ProcFacts, SlotFacts, TypeFacts DEF Inv, ShippedHeld, Holds
<1>8. IdsWhole' /\ BornForSlot' /\ Counted'
  BY <1>0 DEF Inv, IdsWhole, BornForSlot, Counted, Published
<1>9. OnlyPublished' /\ DoneHeld' /\ ReceiptsInv'
  BY <1>0 DEF Inv, OnlyPublished, DoneHeld, ReceiptsInv, Holds, Published
<1>10. ResolveInv' /\ ResolvedGone'
  BY <1>0 DEF Inv, ResolveInv, ResolvedGone, Published
<1> QED
  BY <1>1, <1>2, <1>3, <1>4, <1>5, <1>6, <1>7, <1>8, <1>9, <1>10 DEF Inv

\* Handle keeps the invariant.
LEMMA HandleKeeps ==
    ASSUME Inv, NEW r \in flying, Handle(r)
    PROVE  Inv'
<1>0. /\ UNCHANGED <<loaded, ids, lock, try, making, born, live, tries, done, value,
                     status, resolved, result, faults>>
  BY ProcFacts DEF Inv, TypeOK, Handle, Answered, Raise, handles, runner
<1>a. /\ r \in Requests /\ Published /\ r.uid = r.part /\ r.hist = ids[Driver][r.slot]
      /\ flying' = flying \ {r}
  BY DEF Inv, TypeOK, FlyingInv, Handle
<1>b. r.by \in Actors /\ r.part \in Partitions /\ r.slot \in Slots /\ r.hist \in Hists
  BY <1>a DEF Requests
<1>c. /\ \A h \in Hists : uids'[h] =
            IF AnswerTo(r) = "OK" /\ h = r.hist THEN uids[h] \cup {r.uid} ELSE uids[h]
      /\ \A h \in Hists, p \in Partitions : sum'[h][p] =
            IF AnswerTo(r) = "OK" /\ h = r.hist /\ p = r.part
            THEN sum[h][p] + 1 ELSE sum[h][p]
  <2>1. uids \in [Hists -> SUBSET Partitions] /\ sum \in [Hists -> [Partitions -> Nat]]
    BY DEF Inv, TypeOK
  <2>2. CASE AnswerTo(r) = "OK"
    <3>1. /\ uids' = [uids EXCEPT ![r.hist] = @ \cup {r.uid}]
          /\ sum' = [sum EXCEPT ![r.hist][r.part] = @ + 1]
      BY <2>2 DEF Handle
    <3> QED
      BY <1>b, <2>1, <2>2, <3>1
  <2>3. CASE AnswerTo(r) # "OK"
    BY <2>3 DEF Handle
  <2> QED
    BY <2>2, <2>3
<1>d. \A b \in Actors :
        \/ pc'[b] = pc[b] /\ task'[b] = task[b] /\ at'[b] = at[b]
        \/ /\ pc[b] = "wait" /\ pc'[b] = "ship"
           /\ r = Request(b) /\ Accepted(AnswerTo(r))
           /\ task'[b] = task[b] /\ at'[b] = at[b] + 1
        \/ pc[b] = "wait" /\ pc'[b] = "idle" /\ task'[b] = None /\ at'[b] = at[b]
  <2>0. /\ pc \in [Actors -> {"idle", "ids", "making", "pickled", "ship", "wait"}]
        /\ task \in [Actors -> Partitions \cup {None}]
        /\ at \in [Actors -> 1 .. NSlots + 1]
    BY DEF Inv, TypeOK
  <2>1. CASE ~(pc[r.by] = "wait" /\ r = Request(r.by))
    BY <2>1 DEF Handle
  <2>2. CASE pc[r.by] = "wait" /\ r = Request(r.by)
    <3>1. Answered(r.by, AnswerTo(r))
      BY <2>2 DEF Handle
    <3>2. CASE Accepted(AnswerTo(r))
      <4>1. /\ at' = [at EXCEPT ![r.by] = @ + 1]
            /\ pc' = [pc EXCEPT ![r.by] = "ship"]
            /\ task' = task
        BY <3>1, <3>2 DEF Answered
      <4> QED
        BY <4>1, <3>2, <2>2, <2>0, <1>b
    <3>3. CASE ~Accepted(AnswerTo(r))
      <4>1. /\ at' = at
            /\ pc' = [pc EXCEPT ![r.by] = "idle"]
            /\ task' = [task EXCEPT ![r.by] = None]
        BY <3>1, <3>3 DEF Answered, Raise
      <4> QED
        BY <4>1, <2>2, <2>0, <1>b
    <3> QED
      BY <3>2, <3>3
  <2> QED
    BY <2>1, <2>2
<1>e. AnswerTo(r) = "OK" => r.uid \notin uids[r.hist]
  BY DEF AnswerTo
<1>f. Accepted(AnswerTo(r)) => r.uid \in uids'[r.hist]
  BY <1>b, <1>c DEF AnswerTo, Accepted
<1>1. TypeOK'
  <2>1. uids' \in [Hists -> SUBSET Partitions] /\ sum' \in [Hists -> [Partitions -> Nat]]
    <3>1. uids \in [Hists -> SUBSET Partitions] /\ sum \in [Hists -> [Partitions -> Nat]]
      BY DEF Inv, TypeOK
    <3>2. CASE AnswerTo(r) = "OK"
      <4>1. /\ uids' = [uids EXCEPT ![r.hist] = @ \cup {r.uid}]
            /\ sum' = [sum EXCEPT ![r.hist][r.part] = @ + 1]
        BY <3>2 DEF Handle
      <4>2. [sum[r.hist] EXCEPT ![r.part] = sum[r.hist][r.part] + 1] \in [Partitions -> Nat]
        BY <3>1, <1>b
      <4> QED
        BY <1>a, <1>b, <3>1, <4>1, <4>2
    <3>3. CASE AnswerTo(r) # "OK"
      BY <3>1, <3>3 DEF Handle
    <3> QED
      BY <3>2, <3>3
  <2>2. pc[r.by] = "wait" => at[r.by] + 1 \in 1 .. NSlots + 1
    BY <1>b, SlotFacts DEF Inv, PathInv
  <2>3. /\ pc' \in [Actors -> {"idle", "ids", "making", "pickled", "ship", "wait"}]
        /\ task' \in [Actors -> Partitions \cup {None}]
        /\ at' \in [Actors -> 1 .. NSlots + 1]
    BY <1>b, <2>2 DEF Inv, TypeOK, Handle, Answered, Raise
  <2> QED
    BY <2>1, <2>3, <1>a, <1>0 DEF Inv, TypeOK
<1>2. WorkersAgree'
  BY <1>0, <1>d, ProcFacts DEF Inv, WorkersAgree, Published
<1>3. MakerAlone'
  BY <1>0, <1>d DEF Inv, MakerAlone, Published
<1>4. MakingSoFar'
  BY <1>0, <1>d DEF Inv, MakingSoFar
<1>5. PathInv'
  BY <1>0, <1>a, <1>d DEF Inv, PathInv, Published
<1>6. FlyingInv'
  BY <1>0, <1>a DEF Inv, FlyingInv, Published
<1>7. Counted'
  <2> SUFFICES ASSUME NEW h \in Hists, NEW p \in Partitions
               PROVE  sum'[h][p] = IF p \in uids'[h] THEN 1 ELSE 0
    BY DEF Counted
  <2>1. sum[h][p] = IF p \in uids[h] THEN 1 ELSE 0
    BY DEF Inv, Counted
  <2>2. /\ uids'[h] = IF AnswerTo(r) = "OK" /\ h = r.hist
                      THEN uids[h] \cup {r.part} ELSE uids[h]
        /\ sum'[h][p] = IF AnswerTo(r) = "OK" /\ h = r.hist /\ p = r.part
                        THEN sum[h][p] + 1 ELSE sum[h][p]
    BY <1>a, <1>c
  <2>3. CASE AnswerTo(r) = "OK" /\ h = r.hist /\ p = r.part
    <3>1. p \notin uids[h] /\ p \in uids'[h] /\ sum'[h][p] = sum[h][p] + 1
      BY <2>2, <2>3, <1>a, <1>e
    <3> QED
      BY <3>1, <2>1
  <2>4. CASE ~(AnswerTo(r) = "OK" /\ h = r.hist /\ p = r.part)
    <3>1. sum'[h][p] = sum[h][p]
      BY <2>4, <2>2
    <3>2. p \in uids'[h] <=> p \in uids[h]
      BY <2>4, <2>2
    <3> QED
      BY <3>1, <3>2, <2>1
  <2> QED
    BY <2>3, <2>4
<1>8. OnlyPublished'
  <2> SUFFICES ASSUME NEW h \in Hists, uids'[h] # {}
               PROVE  Published /\ born[h] \in Slots /\ h = ids[Driver][born[h]]
    BY <1>0 DEF OnlyPublished, Published
  <2>1. CASE h = r.hist
    BY <2>1, <1>a, <1>b DEF Inv, BornForSlot
  <2>2. CASE h # r.hist
    BY <2>2, <1>c DEF Inv, OnlyPublished
  <2> QED
    BY <2>1, <2>2
<1>9. ShippedHeld'
  <2> SUFFICES ASSUME NEW b \in Actors, pc'[b] \in {"ship", "wait"},
                      NEW s \in Slots, s < at'[b]
               PROVE  Holds(s, task[b])' /\ task'[b] = task[b]
    BY <1>0, <1>d DEF ShippedHeld, Holds
  <2>1. ids[Driver][s] \in Hists
    BY <1>a, ProcFacts DEF Inv, IdsWhole, Published
  <2>2. CASE pc'[b] = pc[b] /\ task'[b] = task[b] /\ at'[b] = at[b]
    BY <2>1, <2>2, <1>0, <1>c DEF Inv, ShippedHeld, Holds
  <2>3. CASE /\ pc[b] = "wait" /\ pc'[b] = "ship"
             /\ r = Request(b) /\ Accepted(AnswerTo(r))
             /\ task'[b] = task[b] /\ at'[b] = at[b] + 1
    <3>1. at[b] \in Slots /\ r.uid = task[b] /\ r.slot = at[b]
      BY <2>3 DEF Inv, PathInv, Request, UniqueId
    <3>2. s < at[b] \/ s = at[b]
      BY <3>1, <2>3, SlotsAssumption DEF Slots
    <3>3. CASE s = at[b]
      BY <3>1, <3>3, <2>3, <1>a, <1>f, <1>0 DEF Holds
    <3>4. CASE s < at[b]
      BY <3>4, <2>3, <2>1, <1>0, <1>c DEF Inv, ShippedHeld, Holds
    <3> QED
      BY <3>2, <3>3, <3>4, <2>3
  <2> QED
    BY <2>2, <2>3, <1>d
<1>10. DoneHeld'
  <2>1. ASSUME NEW p \in done, NEW s \in Slots
        PROVE  Holds(s, p)'
    <3>1. Published /\ Holds(s, p)
      BY DEF Inv, DoneHeld
    <3>2. ids[Driver][s] \in Hists
      BY <3>1, ProcFacts DEF Inv, IdsWhole, Published
    <3>3. uids[ids[Driver][s]] \subseteq uids'[ids[Driver][s]]
      BY <3>2, <1>c
    <3> QED
      BY <3>1, <3>3, <1>0 DEF Holds
  <2>2. \A p \in done : Published'
    BY <1>0 DEF Inv, DoneHeld, Published
  <2> QED
    BY <2>1, <2>2, <1>0 DEF DoneHeld
<1>11. IdsWhole' /\ BornForSlot' /\ ReceiptsInv'
  BY <1>0 DEF Inv, IdsWhole, BornForSlot, ReceiptsInv, Published
<1>12. ResolveInv' /\ ResolvedGone'
  BY <1>0 DEF Inv, ResolveInv, ResolvedGone, Published
<1> QED
  BY <1>1, <1>2, <1>3, <1>4, <1>5, <1>6, <1>7, <1>8, <1>9, <1>10, <1>11, <1>12 DEF Inv

\* RpcFails keeps the invariant.
LEMMA RpcFailsKeeps ==
    ASSUME Inv, NEW a \in Actors, RpcFails(a)
    PROVE  Inv'
<1>0. /\ UNCHANGED <<loaded, ids, lock, try, making, born, live, uids, sum, tries,
                     done, value, status, resolved, result>>
  BY ProcFacts DEF Inv, TypeOK, RpcFails, Raise, Fault, Answered, handles, servers,
     runner
<1>a. Raise(a) /\ UNCHANGED at /\ flying' \subseteq flying /\ pc[a] = "wait"
  BY DEF RpcFails, Answered, Accepted
<1>b. /\ \A b \in Actors : pc'[b] = IF b = a THEN "idle" ELSE pc[b]
      /\ \A b \in Actors : task'[b] = IF b = a THEN None ELSE task[b]
  BY <1>a DEF Inv, TypeOK, Raise
<1>1. TypeOK'
  <2>1. faults' \in 0 .. MaxFaults
    BY FaultsBounded DEF RpcFails
  <2> QED
    BY <2>1, <1>a DEF Inv, TypeOK, RpcFails, Raise, handles, servers, runner
<1>2. WorkersAgree'
  BY <1>0, <1>a, <1>b, ProcFacts DEF Inv, WorkersAgree, Published
<1>3. MakerAlone'
  BY <1>0, <1>a, <1>b DEF Inv, MakerAlone, Published
<1>4. MakingSoFar'
  BY <1>0, <1>a, <1>b DEF Inv, MakingSoFar, Published
<1>5. PathInv'
  BY <1>0, <1>a, <1>b DEF Inv, PathInv, Published
<1>6. FlyingInv'
  BY <1>0, <1>a DEF Inv, FlyingInv, Published
<1>7. ShippedHeld'
  BY <1>0, <1>a, <1>b DEF Inv, ShippedHeld, Holds
<1>8. IdsWhole' /\ BornForSlot' /\ Counted'
  BY <1>0 DEF Inv, IdsWhole, BornForSlot, Counted, Published
<1>9. OnlyPublished' /\ DoneHeld' /\ ReceiptsInv'
  BY <1>0 DEF Inv, OnlyPublished, DoneHeld, ReceiptsInv, Holds, Published
<1>10. ResolveInv' /\ ResolvedGone'
  BY <1>0 DEF Inv, ResolveInv, ResolvedGone, Published
<1> QED
  BY <1>1, <1>2, <1>3, <1>4, <1>5, <1>6, <1>7, <1>8, <1>9, <1>10 DEF Inv

\* Return keeps the invariant.
LEMMA ReturnKeeps ==
    ASSUME Inv, NEW a \in Actors, Return(a)
    PROVE  Inv'
<1>0. /\ pc[a] = "ship" /\ at[a] = NSlots + 1
      /\ \A b \in Actors : pc'[b] = IF b = a THEN "idle" ELSE pc[b]
      /\ \A b \in Actors : task'[b] = IF b = a THEN None ELSE task[b]
      /\ UNCHANGED <<loaded, ids, lock, try, at, making, flying, born, live, uids,
                     sum, tries, resolved, result, faults>>
  BY ProcFacts DEF Inv, TypeOK, Return, Raise, handles, servers
<1>a. /\ ids[Proc(a)] = ids[Driver] /\ Published
      /\ task[a] \in Partitions
      /\ \A s \in Slots : ids[Driver][s] \in Hists
  BY <1>0, ProcFacts DEF Inv, PathInv, WorkersAgree, IdsWhole, Published
<1>b. \A s \in Slots : AddReceipts(value[s], ids[Proc(a)][s]) = ids[Driver][s]
  BY <1>a, NoneAssumption DEF Inv, ReceiptsInv, AddReceipts
<1>c. \/ UNCHANGED <<status, done, value>>
      \/ /\ UNCHANGED status
         /\ status = "running"
         /\ done' = done \cup {task[a]}
         /\ value' = [s \in Slots |-> ids[Driver][s]]
  BY <1>a, <1>b, RefusedAssumption DEF Return
<1>d. \A s \in Slots : Holds(s, task[a])
  BY <1>0, SlotFacts DEF Inv, ShippedHeld
<1>1. TypeOK'
  BY <1>a, <1>c DEF Inv, TypeOK, Return, Raise, handles, servers
<1>2. WorkersAgree'
  BY <1>0, ProcFacts, SlotFacts, TypeFacts DEF Inv, WorkersAgree, Published
<1>3. MakerAlone'
  BY <1>0, ProcFacts, SlotFacts, TypeFacts DEF Inv, MakerAlone, WorkersAgree, Published
<1>4. MakingSoFar'
  BY <1>0, ProcFacts, SlotFacts, TypeFacts DEF Inv, MakingSoFar
<1>5. PathInv'
  BY <1>0, ProcFacts, SlotFacts, TypeFacts DEF Inv, PathInv, WorkersAgree, Published
<1>6. ShippedHeld'
  BY <1>0, ProcFacts, SlotFacts, TypeFacts DEF Inv, ShippedHeld, Holds
<1>7. DoneHeld'
  BY <1>0, <1>a, <1>c, <1>d DEF Inv, DoneHeld, Holds, Published
<1>8. ReceiptsInv'
  BY <1>0, <1>a, <1>c DEF Inv, ReceiptsInv
<1>9. ResolveInv'
  BY <1>0, <1>a, <1>c, TypeFacts DEF Inv, ResolveInv
<1>10. IdsWhole' /\ BornForSlot' /\ FlyingInv'
  BY <1>0 DEF Inv, IdsWhole, BornForSlot, FlyingInv, Published
<1>11. Counted' /\ OnlyPublished' /\ ResolvedGone'
  BY <1>0 DEF Inv, Counted, OnlyPublished, ResolvedGone, Published
<1> QED
  BY <1>1, <1>2, <1>3, <1>4, <1>5, <1>6, <1>7, <1>8, <1>9, <1>10, <1>11 DEF Inv

\* WorkerDies keeps the invariant.
LEMMA WorkerDiesKeeps ==
    ASSUME Inv, NEW w \in Workers, WorkerDies(w)
    PROVE  Inv'
<1>0. /\ w \in Actors /\ w \in loaded
      /\ loaded' = loaded \ {w}
      /\ \A b \in Actors : pc'[b] = IF b = w THEN "idle" ELSE pc[b]
      /\ \A b \in Actors : task'[b] = IF b = w THEN None ELSE task[b]
      /\ \A b \in Procs : ids'[b] = IF b = w THEN NoIds ELSE ids[b]
      /\ \A b \in Procs : lock'[b] = IF b = w THEN None ELSE lock[b]
      /\ UNCHANGED <<try, at, making, flying, born, live, uids, sum, tries, done,
                     value, status, resolved, result>>
  BY ProcFacts DEF Inv, TypeOK, WorkerDies, Raise, Fault, Actors, servers, runner
<1>1. TypeOK'
  <2>1. faults' \in 0 .. MaxFaults
    BY FaultsBounded DEF WorkerDies
  <2> QED
    BY <2>1, ProcFacts, SlotFacts DEF Inv, TypeOK, WorkerDies, Raise, servers, runner
<1>2. IdsWhole'
  BY <1>0, ProcFacts, SlotFacts, TypeFacts DEF Inv, IdsWhole
<1>3. WorkersAgree'
  BY <1>0, ProcFacts, SlotFacts, TypeFacts DEF Inv, WorkersAgree, Published
<1>4. MakerAlone'
  BY <1>0, ProcFacts, SlotFacts, TypeFacts DEF Inv, MakerAlone, WorkersAgree, Published
<1>5. MakingSoFar'
  BY <1>0, ProcFacts, SlotFacts, TypeFacts DEF Inv, MakingSoFar
<1>6. BornForSlot'
  BY <1>0, ProcFacts, SlotFacts, TypeFacts DEF Inv, BornForSlot, Published
<1>7. PathInv'
  BY <1>0, ProcFacts, SlotFacts, TypeFacts DEF Inv, PathInv, WorkersAgree, Published
<1>8. FlyingInv'
  BY <1>0, ProcFacts, SlotFacts, TypeFacts DEF Inv, FlyingInv, Published
<1>9. OnlyPublished'
  BY <1>0, ProcFacts, SlotFacts, TypeFacts DEF Inv, OnlyPublished, Published
<1>10. ShippedHeld'
  BY <1>0, ProcFacts, SlotFacts, TypeFacts DEF Inv, ShippedHeld, Holds
<1>11. DoneHeld'
  BY <1>0, ProcFacts, SlotFacts, TypeFacts DEF Inv, DoneHeld, Holds, Published
<1>12. ReceiptsInv'
  BY <1>0, ProcFacts, SlotFacts, TypeFacts DEF Inv, ReceiptsInv
<1>13. ResolvedGone'
  BY <1>0, ProcFacts, SlotFacts, TypeFacts DEF Inv, ResolvedGone, Published
<1>14. Counted' /\ ResolveInv'
  BY <1>0 DEF Inv, Counted, ResolveInv
<1> QED
  BY <1>1, <1>2, <1>3, <1>4, <1>5, <1>6, <1>7, <1>8, <1>9, <1>10, <1>11, <1>12,
     <1>13, <1>14 DEF Inv

\* ServerDies keeps the invariant.
LEMMA ServerDiesKeeps ==
    ASSUME Inv, NEW v \in Servers, ServerDies(v)
    PROVE  Inv'
<1>0. /\ live' \subseteq live
      /\ UNCHANGED <<loaded, ids, lock, pc, task, try, at, making, flying, born, uids,
                     sum, tries, done, value, status, resolved, result>>
  BY ProcFacts DEF Inv, TypeOK, ServerDies, Fault, handles, actors, runner
<1>1. TypeOK'
  <2>1. faults' \in 0 .. MaxFaults
    BY FaultsBounded DEF ServerDies
  <2> QED
    BY <2>1, <1>0 DEF Inv, TypeOK
<1>2. BornForSlot'
  BY <1>0 DEF Inv, BornForSlot, Published
<1>3. ShippedHeld'
  BY <1>0 DEF Inv, ShippedHeld, Holds, Published
<1>4. DoneHeld'
  BY <1>0 DEF Inv, DoneHeld, Holds, Published
<1>5. ResolvedGone'
  BY <1>0 DEF Inv, ResolvedGone, Published
<1>6. IdsWhole' /\ WorkersAgree' /\ MakerAlone'
  BY <1>0 DEF Inv, IdsWhole, WorkersAgree, MakerAlone, Published
<1>7. MakingSoFar' /\ PathInv' /\ FlyingInv'
  BY <1>0 DEF Inv, MakingSoFar, PathInv, FlyingInv, Published
<1>8. Counted' /\ OnlyPublished' /\ ReceiptsInv'
  BY <1>0 DEF Inv, Counted, OnlyPublished, ReceiptsInv, Published
<1>9. ResolveInv'
  BY <1>0 DEF Inv, ResolveInv
<1> QED
  BY <1>1, <1>2, <1>3, <1>4, <1>5, <1>6, <1>7, <1>8, <1>9 DEF Inv

\* TasksFail keeps the invariant.
LEMMA TasksFailKeeps ==
    ASSUME Inv, TasksFail
    PROVE  Inv'
<1>0. /\ status = "running" /\ status' = "tasks failed"
      /\ UNCHANGED <<loaded, ids, lock, pc, task, try, at, making, flying, born, live,
                     uids, sum, tries, done, value, resolved, result, faults>>
  BY ProcFacts DEF Inv, TypeOK, TasksFail, handles, actors, servers
<1>1. TypeOK'
  BY ProcFacts, SlotFacts DEF Inv, TypeOK, TasksFail, handles, actors, servers
<1>2. ReceiptsInv'
  BY <1>0 DEF Inv, ReceiptsInv
<1>3. ResolveInv'
  BY <1>0 DEF Inv, ResolveInv
<1>4. IdsWhole' /\ WorkersAgree' /\ MakerAlone'
  BY <1>0 DEF Inv, IdsWhole, WorkersAgree, MakerAlone, Published
<1>5. MakingSoFar' /\ BornForSlot' /\ PathInv'
  BY <1>0 DEF Inv, MakingSoFar, BornForSlot, PathInv, Published
<1>6. FlyingInv' /\ Counted' /\ OnlyPublished'
  BY <1>0 DEF Inv, FlyingInv, Counted, OnlyPublished, Published
<1>7. ShippedHeld' /\ DoneHeld' /\ ResolvedGone'
  BY <1>0 DEF Inv, ShippedHeld, DoneHeld, ResolvedGone, Holds, Published
<1> QED
  BY <1>1, <1>2, <1>3, <1>4, <1>5, <1>6, <1>7 DEF Inv

\* StartResolve keeps the invariant.
LEMMA StartResolveKeeps ==
    ASSUME Inv, StartResolve
    PROVE  Inv'
<1>0. /\ done = Partitions /\ status = "running" /\ status' = "resolving"
      /\ UNCHANGED <<loaded, ids, lock, pc, task, try, at, making, flying, born, live,
                     uids, sum, tries, done, value, resolved, result, faults>>
  BY ProcFacts DEF Inv, TypeOK, StartResolve, handles, actors, servers
<1>1. TypeOK'
  BY ProcFacts, SlotFacts DEF Inv, TypeOK, StartResolve, handles, actors, servers
<1>2. ReceiptsInv'
  BY <1>0 DEF Inv, ReceiptsInv
<1>3. ResolveInv'
  BY <1>0 DEF Inv, ResolveInv
<1>4. IdsWhole' /\ WorkersAgree' /\ MakerAlone'
  BY <1>0 DEF Inv, IdsWhole, WorkersAgree, MakerAlone, Published
<1>5. MakingSoFar' /\ BornForSlot' /\ PathInv'
  BY <1>0 DEF Inv, MakingSoFar, BornForSlot, PathInv, Published
<1>6. FlyingInv' /\ Counted' /\ OnlyPublished'
  BY <1>0 DEF Inv, FlyingInv, Counted, OnlyPublished, Published
<1>7. ShippedHeld' /\ DoneHeld' /\ ResolvedGone'
  BY <1>0 DEF Inv, ShippedHeld, DoneHeld, ResolvedGone, Holds, Published
<1> QED
  BY <1>1, <1>2, <1>3, <1>4, <1>5, <1>6, <1>7 DEF Inv

\* Resolve keeps the invariant.
LEMMA ResolveKeeps ==
    ASSUME Inv, Resolve
    PROVE  Inv'
<1>0. /\ status = "resolving" /\ live' \subseteq live
      /\ UNCHANGED <<loaded, ids, lock, pc, task, try, at, making, flying, born, uids,
                     sum, tries, done, value, status, faults>>
  BY ProcFacts DEF Inv, TypeOK, Resolve, handles, actors
<1>a. NextSlot \in Slots /\ resolved' = NextSlot /\ done = Partitions
  BY <1>0 DEF Inv, ResolveInv, Resolve
<1>b. \A s \in Slots : s # NextSlot => result'[s] = result[s]
  BY DEF Inv, TypeOK, Resolve
<1>c. \A p \in Partitions : result'[NextSlot][p] = 1
  <2> SUFFICES ASSUME NEW p \in Partitions
               PROVE  result'[NextSlot][p] = 1
    OBVIOUS
  <2>1. /\ Published
        /\ value[NextSlot] = ids[Driver][NextSlot]
        /\ Holds(NextSlot, p)
    BY <1>a DEF Inv, DoneHeld, ReceiptsInv
  <2>2. value[NextSlot] \in Hists /\ value[NextSlot] # None
    BY <1>a, <2>1, ProcFacts, NoneAssumption DEF Inv, IdsWhole, Published
  <2>3. /\ value[NextSlot] \in live
        /\ result'[NextSlot] = sum[value[NextSlot]]
    BY <1>a, <2>2 DEF Inv, TypeOK, Resolve
  <2> QED
    BY <2>1, <2>2, <2>3 DEF Inv, Counted, Holds
<1>d. \A s \in Slots : s <= NextSlot => s <= resolved \/ s = NextSlot
  <2>0. resolved \in 0 .. NSlots
    BY DEF Inv, TypeOK
  <2>1. resolved \in Nat
    BY <2>0, SlotsAssumption
  <2> QED
    BY <2>1, SlotsAssumption DEF Slots, NextSlot
<1>1. TypeOK'
  <2>1. resolved' \in 0 .. NSlots
    BY <1>a, SlotFacts
  <2>2. result' \in [Slots -> [Partitions -> Nat]]
    BY <1>a DEF Inv, TypeOK, Resolve
  <2> QED
    BY <2>1, <2>2, <1>0 DEF Inv, TypeOK
<1>2. BornForSlot'
  BY <1>0 DEF Inv, BornForSlot, Published
<1>3. ShippedHeld'
  BY <1>0 DEF Inv, ShippedHeld, Holds, Published
<1>4. DoneHeld'
  BY <1>0 DEF Inv, DoneHeld, Holds, Published
<1>5. ResolveInv'
  BY <1>0, <1>a, <1>b, <1>c, <1>d DEF Inv, ResolveInv
<1>6. ResolvedGone'
  <2> SUFFICES ASSUME Partitions # {}, NEW s \in Slots, s <= NextSlot
               PROVE  Published /\ ids[Driver][s] \notin live'
    BY <1>0, <1>a DEF ResolvedGone, Published
  <2>1. Published /\ value[NextSlot] = ids[Driver][NextSlot]
    BY <1>a DEF Inv, DoneHeld, ReceiptsInv
  <2>2. value[NextSlot] # None
    BY <1>a, <2>1, ProcFacts, NoneAssumption DEF Inv, IdsWhole, Published
  <2>3. live' = live \ {value[NextSlot]}
    BY <2>2 DEF Resolve
  <2> QED
    BY <1>d, <2>1, <2>3 DEF Inv, ResolvedGone
<1>7. IdsWhole' /\ WorkersAgree' /\ MakerAlone'
  BY <1>0 DEF Inv, IdsWhole, WorkersAgree, MakerAlone, Published
<1>8. MakingSoFar' /\ PathInv' /\ FlyingInv'
  BY <1>0 DEF Inv, MakingSoFar, PathInv, FlyingInv, Published
<1>9. Counted' /\ OnlyPublished' /\ ReceiptsInv'
  BY <1>0 DEF Inv, Counted, OnlyPublished, ReceiptsInv, Published
<1> QED
  BY <1>1, <1>2, <1>3, <1>4, <1>5, <1>6, <1>7, <1>8, <1>9 DEF Inv

\* ResolveRaises keeps the invariant.
LEMMA ResolveRaisesKeeps ==
    ASSUME Inv, ResolveRaises
    PROVE  Inv'
<1>0. /\ status = "resolving" /\ status' = "resolve failed" /\ live' \subseteq live
      /\ UNCHANGED <<loaded, ids, lock, pc, task, try, at, making, flying, born, uids,
                     sum, tries, done, value, resolved, result>>
  BY ProcFacts DEF Inv, TypeOK, ResolveRaises, Fault, handles, actors
<1>1. TypeOK'
  <2>1. faults' \in 0 .. MaxFaults
    BY FaultsBounded DEF ResolveRaises, Inv, TypeOK
  <2> QED
    BY <2>1, <1>0 DEF Inv, TypeOK
<1>2. BornForSlot'
  BY <1>0 DEF Inv, BornForSlot, Published
<1>3. ShippedHeld'
  BY <1>0 DEF Inv, ShippedHeld, Holds, Published
<1>4. DoneHeld'
  BY <1>0 DEF Inv, DoneHeld, Holds, Published
<1>5. ReceiptsInv'
  BY <1>0 DEF Inv, ReceiptsInv
<1>6. ResolveInv'
  BY <1>0 DEF Inv, ResolveInv
<1>7. ResolvedGone'
  BY <1>0 DEF Inv, ResolvedGone, Published
<1>8. IdsWhole' /\ WorkersAgree' /\ MakerAlone'
  BY <1>0 DEF Inv, IdsWhole, WorkersAgree, MakerAlone, Published
<1>9. MakingSoFar' /\ PathInv' /\ FlyingInv'
  BY <1>0 DEF Inv, MakingSoFar, PathInv, FlyingInv, Published
<1>10. Counted' /\ OnlyPublished'
  BY <1>0 DEF Inv, Counted, OnlyPublished, Published
<1> QED
  BY <1>1, <1>2, <1>3, <1>4, <1>5, <1>6, <1>7, <1>8, <1>9, <1>10 DEF Inv

\* Finish keeps the invariant.
LEMMA FinishKeeps ==
    ASSUME Inv, Finish
    PROVE  Inv'
<1>0. /\ status = "resolving" /\ status' = "done" /\ resolved = NSlots
      /\ UNCHANGED <<loaded, ids, lock, pc, task, try, at, making, flying, born, live,
                     uids, sum, tries, done, value, resolved, result, faults>>
  BY ProcFacts DEF Inv, TypeOK, Finish, handles, actors, servers
<1>1. TypeOK'
  BY ProcFacts, SlotFacts DEF Inv, TypeOK, Finish, handles, actors, servers
<1>2. ReceiptsInv'
  BY <1>0 DEF Inv, ReceiptsInv
<1>3. ResolveInv'
  BY <1>0 DEF Inv, ResolveInv
<1>4. IdsWhole' /\ WorkersAgree' /\ MakerAlone'
  BY <1>0 DEF Inv, IdsWhole, WorkersAgree, MakerAlone, Published
<1>5. MakingSoFar' /\ BornForSlot' /\ PathInv'
  BY <1>0 DEF Inv, MakingSoFar, BornForSlot, PathInv, Published
<1>6. FlyingInv' /\ Counted' /\ OnlyPublished'
  BY <1>0 DEF Inv, FlyingInv, Counted, OnlyPublished, Published
<1>7. ShippedHeld' /\ DoneHeld' /\ ResolvedGone'
  BY <1>0 DEF Inv, ShippedHeld, DoneHeld, ResolvedGone, Holds, Published
<1> QED
  BY <1>1, <1>2, <1>3, <1>4, <1>5, <1>6, <1>7 DEF Inv

\* A step that changes nothing keeps the invariant.
LEMMA StutterKeeps ==
    ASSUME Inv, UNCHANGED vars
    PROVE  Inv'
<1>0. /\ UNCHANGED <<loaded, ids, lock, pc, task, try, at, making, flying, born, live,
                     uids, sum, tries, done, value, status, resolved, result, faults>>
  BY DEF vars, handles, actors, servers, runner
<1>1. TypeOK'
  BY <1>0 DEF Inv, TypeOK
<1>2. IdsWhole' /\ WorkersAgree' /\ MakerAlone'
  BY <1>0 DEF Inv, IdsWhole, WorkersAgree, MakerAlone, Published
<1>3. MakingSoFar' /\ BornForSlot' /\ PathInv'
  BY <1>0 DEF Inv, MakingSoFar, BornForSlot, PathInv, Published
<1>4. FlyingInv' /\ Counted' /\ OnlyPublished'
  BY <1>0 DEF Inv, FlyingInv, Counted, OnlyPublished, Published
<1>5. ShippedHeld' /\ DoneHeld' /\ ReceiptsInv'
  BY <1>0 DEF Inv, ShippedHeld, DoneHeld, ReceiptsInv, Holds, Published
<1>6. ResolveInv' /\ ResolvedGone'
  BY <1>0 DEF Inv, ResolveInv, ResolvedGone, Published
<1> QED
  BY <1>1, <1>2, <1>3, <1>4, <1>5, <1>6 DEF Inv

\* Every step keeps the invariant.
LEMMA NextKeeps ==
    ASSUME Inv, [Next]_vars
    PROVE  Inv'
<1>1. CASE UNCHANGED vars
  BY <1>1, StutterKeeps
<1>2. CASE \E a \in Actors : Act(a)
  <2>1. PICK a \in Actors : Act(a)
    BY <1>2
  <2> QED
    BY <2>1, StartCallKeeps, ReuseKeeps, AcquireKeeps, CreateKeeps, CreateRaisesKeeps,
       PublishKeeps, ShipKeeps, RpcFailsKeeps, ReturnKeeps DEF Act
<1>3. CASE \E t \in Threads : Pickling(t)
  BY <1>3, StartPickleKeeps, UnpickleKeeps, DropPickleKeeps DEF Pickling
<1>4. CASE \E r \in flying : Handle(r)
  BY <1>4, HandleKeeps
<1>5. CASE (\E w \in Workers : WorkerDies(w)) \/ (\E v \in Servers : ServerDies(v))
  BY <1>5, WorkerDiesKeeps, ServerDiesKeeps
<1>6. CASE Run
  BY <1>6, TasksFailKeeps, StartResolveKeeps, ResolveKeeps, ResolveRaisesKeeps, FinishKeeps
     DEF Run
<1> QED
  BY <1>1, <1>2, <1>3, <1>4, <1>5, <1>6 DEF Next, Over

-----------------------------------------------------------------------------
(* The theorems *)

\* The invariant is inductive, so it holds in every state of every run.
THEOREM InvHolds == Spec => []Inv
<1>1. Init => Inv
  BY InitInv
<1>2. Inv /\ [Next]_vars => Inv'
  BY NextKeeps
<1> QED
  BY <1>1, <1>2, PTL DEF Spec

\* Every variable of the threads, the handles, the servers and the runner keeps
\* its type.
THEOREM TypesHold == Spec => []TypeOK
<1>1. Inv => TypeOK
  BY DEF Inv
<1> QED
  BY <1>1, InvHolds, PTL

\* A slot the run resolves (_GroupReduce.resolve_services) holds every partition
\* exactly once, whatever was retried (_ship on ALREADY_EXISTS), lost, late, or
\* left behind by a failed _Handles.ids.
THEOREM EveryTaskFillsOnce == Spec => []ResolvedOnce
<1>1. Inv => ResolvedOnce
  BY DEF Inv, ResolveInv, ResolvedOnce
<1> QED
  BY <1>1, InvHolds, PTL

\* Fills reach only the histograms _Handles published in the driver: an orphan
\* of a failed comprehension stays empty.
THEOREM OrphansStayEmpty == Spec => []FillsArePublished
<1>1. Inv => FillsArePublished
  BY DEF Inv, Counted, OnlyPublished, FillsArePublished
<1> QED
  BY <1>1, InvHolds, PTL

\* The receipts of one run always add (Receipt.__add__): threads and processes
\* that race to create a plan's histograms end with the same ids.
THEOREM ReceiptsAlwaysAdd == Spec => []NeverRefused
<1>1. Inv => NeverRefused
  BY DEF Inv, ReceiptsInv, NeverRefused
<1> QED
  BY <1>1, InvHolds, PTL

\* A run that hands its value back leaves no histogram it filled on a server
\* (_GroupReduce.resolve_services deletes what it reads).
THEOREM ServersAreLeftEmpty == Spec => []NothingLeft
<1>1. ASSUME Inv, status = "done", NEW h \in live, NEW p \in Partitions
      PROVE  sum[h][p] = 0
  <2>1. h \in Hists /\ resolved = NSlots
    BY <1>1, TypeFacts DEF Inv, ResolveInv
  <2>2. CASE p \in uids[h]
    <3>1. born[h] \in Slots /\ h = ids[Driver][born[h]]
      BY <2>1, <2>2, <1>1 DEF Inv, OnlyPublished
    <3>2. born[h] <= resolved
      BY <2>1, <3>1, SlotsAssumption DEF Slots
    <3> QED
      BY <1>1, <3>1, <3>2 DEF Inv, ResolvedGone
  <2>3. CASE p \notin uids[h]
    BY <2>1, <2>3, <1>1 DEF Inv, Counted
  <2> QED
    BY <2>2, <2>3
<1>2. Inv => NothingLeft
  BY <1>1 DEF NothingLeft
<1> QED
  BY <1>2, InvHolds, PTL


-----------------------------------------------------------------------------
(* What a step may do *)

\* A step leaves the ids of every process alone, or publishes the driver's, or
\* gives a worker the driver's, or takes a dead worker's.
LEMMA IdSteps ==
    ASSUME Inv, [Next]_vars
    PROVE  \/ UNCHANGED <<loaded, ids>>
           \/ \E a \in Actors : Publish(a)
           \/ \E t \in Threads, w \in Workers : Unpickle(t, w)
           \/ \E w \in Workers : WorkerDies(w)
<1>1. CASE UNCHANGED vars
  BY <1>1 DEF vars, handles
<1>2. CASE \E a \in Actors : Act(a)
  BY <1>2 DEF Act, StartCall, Reuse, Acquire, Create, CreateRaises, Ship, RpcFails, Return,
              handles
<1>3. CASE \E t \in Threads : Pickling(t)
  BY <1>3 DEF Pickling, StartPickle, Unpickle, DropPickle, handles
<1>4. CASE \E r \in flying : Handle(r)
  BY <1>4 DEF Handle, handles
<1>5. CASE (\E w \in Workers : WorkerDies(w)) \/ (\E v \in Servers : ServerDies(v))
  BY <1>5 DEF ServerDies, handles
<1>6. CASE Run
  BY <1>6 DEF Run, TasksFail, StartResolve, Resolve, ResolveRaises, Finish, handles
<1> QED
  BY <1>1, <1>2, <1>3, <1>4, <1>5, <1>6 DEF Next, Over

\* Publishing is a driver thread's, while the driver has no ids.
LEMMA PublishFirst ==
    ASSUME Inv, NEW a \in Actors, Publish(a)
    PROVE  /\ ~Published /\ loaded' = loaded
           /\ \A c \in Procs : c # Driver => ids'[c] = ids[c]
<1>1. a \in Threads /\ Proc(a) = Driver /\ ~Published
  BY ProcFacts DEF Inv, MakerAlone, Publish
<1> QED
  BY <1>1 DEF Inv, TypeOK, Publish

\* The ids of a living process are what one publication in the driver made them:
\* no thread or process ends up with a _Handles of its own.
THEOREM IdsStayPublished == Spec => IdsArePublishedOnce
<1>1. ASSUME Inv, Inv', [Next]_vars, NEW c \in loaded \cap loaded'
      PROVE  /\ ids[c] # NoIds => ids'[c] = ids[c]
             /\ ids'[c] # NoIds => ids'[c] = ids'[Driver]
  <2>1. c \in Procs /\ (c = Driver \/ c \in Workers)
    BY <1>1 DEF Inv, TypeOK, Procs
  <2>2. ids'[c] # NoIds => ids'[c] = ids'[Driver]
    BY <1>1, <2>1 DEF Inv, WorkersAgree
  <2>3. CASE \E a \in Actors : Publish(a)
    <3>1. ids[c] = NoIds \/ ids'[c] = ids[c]
      BY <1>1, <2>1, <2>3, PublishFirst DEF Published
    <3> QED
      BY <3>1, <2>2
  <2>4. CASE \E t \in Threads, w \in Workers : Unpickle(t, w)
    <3>1. ids'[c] = ids[c]
      BY <1>1, <2>1, <2>4 DEF Unpickle, Inv, TypeOK
    <3> QED
      BY <3>1, <2>2
  <2>5. CASE \E w \in Workers : WorkerDies(w)
    <3>1. ids'[c] = ids[c]
      BY <1>1, <2>1, <2>5 DEF WorkerDies, Inv, TypeOK
    <3> QED
      BY <3>1, <2>2
  <2> QED
    BY <1>1, <2>2, <2>3, <2>4, <2>5, IdSteps
<1>2. Inv /\ Inv' /\ [Next]_vars =>
      [\A c \in loaded \cap loaded' :
         /\ ids[c] # NoIds => ids'[c] = ids[c]
         /\ ids'[c] # NoIds => ids'[c] = ids'[Driver]]_vars
  BY <1>1
<1> QED
  BY <1>2, InvHolds, PTL DEF Spec, IdsArePublishedOnce

-----------------------------------------------------------------------------
(* The refinement *)

\* What FillOnce sees of slot s.
AddedTo(s) == IF HistOf(s) = None THEN {} ELSE uids[HistOf(s)]
OutcomeOf(s) ==
    IF s <= resolved THEN "taken"
    ELSE IF HistOf(s) # None /\ HistOf(s) \notin live THEN "lost"
    ELSE "open"
TakenOf(s) == IF s <= resolved THEN result[s] ELSE Nothing

\* A step that leaves what FillOnce sees of each slot leaves FillOnce unchanged.
LEMMA Stutters ==
    ASSUME \A s \in Slots :
            /\ AddedTo(s)' = AddedTo(s)
            /\ OutcomeOf(s)' = OutcomeOf(s)
            /\ TakenOf(s)' = TakenOf(s)
    PROVE  UNCHANGED Abstract!vars
BY DEF Abstract!vars, AddedTo, OutcomeOf, TakenOf

\* A step that loses the slots in S is FillOnce's Lose.
LEMMA Loses ==
    ASSUME NEW S \in SUBSET Slots,
           \A s \in Slots :
            /\ AddedTo(s)' = AddedTo(s)
            /\ OutcomeOf(s)' = IF s \in S THEN "lost" ELSE OutcomeOf(s)
            /\ s \in S => OutcomeOf(s) = "open"
            /\ TakenOf(s)' = TakenOf(s)
    PROVE  Abstract!Lose(S)
BY DEF Abstract!Lose, AddedTo, OutcomeOf, TakenOf

\* Partition p reaches slot s: FillOnce's Add.
LEMMA Adds ==
    ASSUME NEW s \in Slots, NEW p \in Partitions,
           \A t \in Slots : AddedTo(t)' = IF t = s THEN AddedTo(t) \cup {p} ELSE AddedTo(t),
           \A t \in Slots : OutcomeOf(t)' = OutcomeOf(t) /\ TakenOf(t)' = TakenOf(t),
           OutcomeOf(s) = "open", p \notin AddedTo(s)
    PROVE  Abstract!Add(s, p)
BY DEF Abstract!Add, AddedTo, OutcomeOf, TakenOf

\* Slot s's value is handed back: FillOnce's Take.
LEMMA Takes ==
    ASSUME NEW s \in Slots,
           \A t \in Slots : AddedTo(t)' = AddedTo(t),
           \A t \in Slots : OutcomeOf(t)' = IF t = s THEN "taken" ELSE OutcomeOf(t),
           \A t \in Slots : TakenOf(t)' = IF t = s THEN [p \in Partitions |-> 1] ELSE TakenOf(t),
           OutcomeOf(s) = "open", AddedTo(s) = Partitions
    PROVE  Abstract!Take(s)
BY DEF Abstract!Take, Abstract!Everything, AddedTo, OutcomeOf, TakenOf

\* What FillOnce sees depends on these variables only.
LEMMA Sees ==
    ASSUME UNCHANGED <<ids, uids, live, resolved, result>>
    PROVE  UNCHANGED Abstract!vars
<1>1. \A s \in Slots : /\ AddedTo(s)' = AddedTo(s)
                       /\ OutcomeOf(s)' = OutcomeOf(s)
                       /\ TakenOf(s)' = TakenOf(s)
  BY DEF AddedTo, OutcomeOf, TakenOf, HistOf
<1> QED
  BY <1>1, Stutters

\* Of the ids, on the driver's only.
LEMMA SeesDriver ==
    ASSUME ids'[Driver] = ids[Driver], UNCHANGED <<uids, live, resolved, result>>
    PROVE  UNCHANGED Abstract!vars
<1>1. \A s \in Slots : /\ AddedTo(s)' = AddedTo(s)
                       /\ OutcomeOf(s)' = OutcomeOf(s)
                       /\ TakenOf(s)' = TakenOf(s)
  BY DEF AddedTo, OutcomeOf, TakenOf, HistOf
<1> QED
  BY <1>1, Stutters

\* The published histograms of two slots are two histograms.
LEMMA OneHistEach ==
    ASSUME Inv
    PROVE  \A s \in Slots :
            /\ HistOf(s) # None <=> Published
            /\ Published => HistOf(s) \in Hists /\ born[HistOf(s)] = s
<1>1. Published => \A s \in Slots : HistOf(s) \in Hists /\ born[HistOf(s)] = s
  BY ProcFacts DEF Inv, IdsWhole, BornForSlot, Published, HistOf
<1>2. ~Published => \A s \in Slots : HistOf(s) = None
  BY DEF Published, HistOf, NoIds
<1> QED
  BY <1>1, <1>2, NoneAssumption

LEMMA InitRefines ==
    ASSUME Init
    PROVE  Abstract!Init
<1>1. \A s \in Slots : HistOf(s) = None /\ ~(s <= resolved)
  BY ProcFacts, SlotsAssumption DEF Init, HistOf, NoIds, Slots
<1>2. /\ \A s \in Slots : AddedTo(s) = {}
      /\ \A s \in Slots : OutcomeOf(s) = "open"
      /\ \A s \in Slots : TakenOf(s) = Nothing
  BY <1>1 DEF AddedTo, OutcomeOf, TakenOf
<1> QED
  BY <1>2 DEF Abstract!Init, AddedTo, OutcomeOf, TakenOf, Nothing, Abstract!Nothing

LEMMA PublishRefines ==
    ASSUME Inv, Inv', NEW a \in Actors, Publish(a)
    PROVE  \E S \in SUBSET Slots : Abstract!Lose(S)
<1>1. ~Published /\ flying = {} /\ \A h \in Hists : uids[h] = {}
  BY PublishFirst DEF Inv, FlyingInv, OnlyPublished
<1>2. UNCHANGED <<uids, live, resolved, result>>
  BY DEF Publish, servers, runner
<1>3. \A s \in Slots : HistOf(s) = None /\ (HistOf(s)' = None \/ HistOf(s)' \in Hists)
  <2>1. ids' \in [Procs -> IdMaps]
    BY DEF Inv, TypeOK
  <2>2. ids'[Driver] \in [Slots -> Hists \cup {None}]
    BY <2>1, ProcFacts DEF IdMaps
  <2> QED
    BY <1>1, <2>2, OneHistEach DEF HistOf
<1> DEFINE S ==
      {s \in Slots : ~(s <= resolved) /\ HistOf(s)' # None /\ HistOf(s)' \notin live}
<1>4. \A s \in Slots : /\ AddedTo(s)' = AddedTo(s)
                       /\ TakenOf(s)' = TakenOf(s)
  BY <1>1, <1>2, <1>3 DEF AddedTo, TakenOf
<1>5. \A s \in Slots : /\ OutcomeOf(s)' = IF s \in S THEN "lost" ELSE OutcomeOf(s)
                       /\ s \in S => OutcomeOf(s) = "open"
  BY <1>2, <1>3 DEF OutcomeOf
<1> QED
  BY <1>4, <1>5, Loses

\* Making a histogram, while none is published, shows nothing.
LEMMA CreateRefines ==
    ASSUME Inv, NEW a \in Actors, Create(a) \/ CreateRaises(a)
    PROVE  UNCHANGED Abstract!vars
<1>1. ~Published
  BY DEF Inv, MakerAlone, Create, CreateRaises
<1>2. UNCHANGED <<ids, uids, resolved, result>>
  BY DEF Create, CreateRaises, Host, handles, servers, runner
<1>3. \A s \in Slots : HistOf(s) = None /\ HistOf(s)' = None
  BY <1>1, <1>2, OneHistEach DEF HistOf
<1>4. \A s \in Slots : /\ AddedTo(s)' = AddedTo(s)
                       /\ OutcomeOf(s)' = OutcomeOf(s)
                       /\ TakenOf(s)' = TakenOf(s)
  BY <1>2, <1>3 DEF AddedTo, OutcomeOf, TakenOf
<1> QED
  BY <1>4, Stutters

\* A step that only takes histograms from the servers loses their slots.
LEMMA LiveShrinks ==
    ASSUME Inv, UNCHANGED <<ids, uids, resolved, result>>, live' \subseteq live
    PROVE  \E S \in SUBSET Slots : Abstract!Lose(S)
<1> DEFINE S == {s \in Slots : ~(s <= resolved) /\ HistOf(s) \in live \ live'}
<1>2. \A s \in Slots : HistOf(s)' = HistOf(s) /\ (HistOf(s) \in live => HistOf(s) # None)
  BY NoneAssumption, TypeFacts DEF HistOf
<1>3. \A s \in Slots : /\ AddedTo(s)' = AddedTo(s)
                       /\ TakenOf(s)' = TakenOf(s)
  BY <1>2 DEF AddedTo, TakenOf
<1>4. \A s \in Slots : /\ OutcomeOf(s)' = IF s \in S THEN "lost" ELSE OutcomeOf(s)
                       /\ s \in S => OutcomeOf(s) = "open"
  BY <1>2 DEF OutcomeOf
<1> QED
  BY <1>3, <1>4, Loses

LEMMA HandleRefines ==
    ASSUME Inv, NEW r \in flying, Handle(r)
    PROVE  UNCHANGED Abstract!vars \/ \E s \in Slots, p \in Partitions : Abstract!Add(s, p)
<1>1. UNCHANGED <<ids, live, resolved, result>>
  BY DEF Handle, handles, runner
<1>2. r \in Requests /\ Published /\ r.uid = r.part /\ r.hist = HistOf(r.slot)
  BY DEF Inv, TypeOK, FlyingInv, HistOf
<1>3. r.slot \in Slots /\ r.part \in Partitions
  BY <1>2 DEF Requests
<1>4. CASE AnswerTo(r) # "OK"
  BY <1>1, <1>4, Sees DEF Handle
<1>5. CASE AnswerTo(r) = "OK"
  <2>1. uids' = [uids EXCEPT ![r.hist] = @ \cup {r.uid}]
    BY <1>5 DEF Handle
  <2>2. r.hist \in live /\ r.uid \notin uids[r.hist]
    BY <1>5 DEF AnswerTo
  <2>3. \A t \in Slots :
          /\ HistOf(t)' = HistOf(t) /\ HistOf(t) \in Hists /\ HistOf(t) # None
          /\ HistOf(t) = r.hist => t = r.slot
    BY <1>1, <1>2, <1>3, OneHistEach DEF HistOf
  <2>4. \A t \in Slots : AddedTo(t)' =
          IF t = r.slot THEN AddedTo(t) \cup {r.part} ELSE AddedTo(t)
    BY <1>2, <2>1, <2>3 DEF AddedTo, Inv, TypeOK
  <2>5. \A t \in Slots : OutcomeOf(t)' = OutcomeOf(t) /\ TakenOf(t)' = TakenOf(t)
    BY <1>1, <2>3 DEF OutcomeOf, TakenOf
  <2>6. OutcomeOf(r.slot) = "open"
    BY <1>2, <1>3, <2>2 DEF OutcomeOf, Inv, ResolvedGone, HistOf
  <2>7. r.part \notin AddedTo(r.slot)
    BY <1>2, <1>3, <2>2, <2>3 DEF AddedTo
  <2> QED
    BY <1>3, <2>4, <2>5, <2>6, <2>7, Adds
<1> QED
  BY <1>4, <1>5

LEMMA ResolveRefines ==
    ASSUME Inv, Inv', Partitions # {}, Resolve
    PROVE  \E s \in Slots : Abstract!Take(s)
<1>1. /\ NextSlot \in Slots /\ resolved' = NextSlot /\ done = Partitions
      /\ UNCHANGED <<ids, uids>>
  BY DEF Resolve, Inv, ResolveInv, handles
<1>2. Published /\ value[NextSlot] = HistOf(NextSlot)
  BY <1>1 DEF Inv, DoneHeld, ReceiptsInv, HistOf
<1>3. \A t \in Slots :
        /\ HistOf(t)' = HistOf(t) /\ HistOf(t) \in Hists /\ HistOf(t) # None
        /\ HistOf(t) = HistOf(NextSlot) => t = NextSlot
  BY <1>1, <1>2, OneHistEach DEF HistOf
<1>4. /\ HistOf(NextSlot) \in live
      /\ live' = live \ {HistOf(NextSlot)}
      /\ result' = [result EXCEPT ![NextSlot] = sum[HistOf(NextSlot)]]
  BY <1>1, <1>2, <1>3 DEF Resolve
<1>5. /\ \A t \in Slots : t <= resolved' <=> t <= resolved \/ t = NextSlot
      /\ ~(NextSlot <= resolved)
  <2>1. resolved \in 0 .. NSlots
    BY DEF Inv, TypeOK
  <2> QED
    BY <1>1, <2>1, SlotsAssumption DEF Slots, NextSlot
<1>6. \A t \in Slots : AddedTo(t)' = AddedTo(t)
  BY <1>1, <1>3 DEF AddedTo
<1>7. \A t \in Slots : OutcomeOf(t)' = IF t = NextSlot THEN "taken" ELSE OutcomeOf(t)
  BY <1>1, <1>3, <1>4, <1>5 DEF OutcomeOf
<1>8. /\ result'[NextSlot] = [p \in Partitions |-> 1]
      /\ \A t \in Slots : t # NextSlot => result'[t] = result[t]
  <2>1. /\ result'[NextSlot] \in [Partitions -> Nat]
        /\ \A p \in Partitions : result'[NextSlot][p] = 1
    BY <1>1, <1>5 DEF Inv, TypeOK, ResolveInv
  <2>2. \A t \in Slots : t # NextSlot => result'[t] = result[t]
    BY <1>4 DEF Inv, TypeOK
  <2> QED
    BY <2>1, <2>2
<1>9. \A t \in Slots : TakenOf(t)' =
        IF t = NextSlot THEN [p \in Partitions |-> 1] ELSE TakenOf(t)
  BY <1>1, <1>5, <1>8 DEF TakenOf
<1>10. OutcomeOf(NextSlot) = "open"
  BY <1>1, <1>4, <1>5 DEF OutcomeOf
<1>11. AddedTo(NextSlot) = Partitions
  <2>1. \A p \in Partitions : p \in uids[HistOf(NextSlot)]
    BY <1>1, <1>4 DEF Inv, DoneHeld, Holds, HistOf
  <2>2. uids[HistOf(NextSlot)] \subseteq Partitions
    BY <1>1, <1>3 DEF Inv, TypeOK
  <2> QED
    BY <1>1, <1>3, <2>1, <2>2 DEF AddedTo
<1> QED
  BY <1>1, <1>6, <1>7, <1>9, <1>10, <1>11, Takes

\* A worker's own ids are not the driver's.
LEMMA ElsewhereKeeps ==
    ASSUME Inv, NEW w \in Workers, NEW m, ids' = [ids EXCEPT ![w] = m]
    PROVE  ids'[Driver] = ids[Driver]
<1>1. w # Driver /\ Driver \in Procs
  BY ProcFacts
<1>2. ids \in [Procs -> IdMaps]
  BY DEF Inv, TypeOK
<1> QED
  BY <1>1, <1>2

\* Every step of the run is a step of FillOnce, or leaves it unchanged.
LEMMA StepRefines ==
    ASSUME Inv, Inv', Partitions # {}, [Next]_vars
    PROVE  [Abstract!Next]_(Abstract!vars)
<1>1. CASE UNCHANGED vars
  BY <1>1, Sees DEF vars, handles, servers, runner
<1>2. CASE \E a \in Actors : Act(a)
  <2>1. PICK a \in Actors : Act(a)
    BY <1>2
  <2>2. CASE Publish(a)
    BY <2>2, PublishRefines DEF Abstract!Next
  <2>3. CASE Create(a) \/ CreateRaises(a)
    BY <2>3, CreateRefines
  <2>4. CASE ~Publish(a) /\ ~Create(a) /\ ~CreateRaises(a)
    <3>1. UNCHANGED <<ids, uids, live, resolved, result>>
      BY <2>1, <2>4 DEF Act, StartCall, Reuse, Acquire, Ship, RpcFails, Return,
         handles, servers, runner
    <3> QED
      BY <3>1, Sees
  <2> QED
    BY <2>2, <2>3, <2>4
<1>3. CASE \E t \in Threads : Pickling(t)
  <2>1. CASE \E t \in Threads : StartPickle(t) \/ DropPickle(t)
    <3>1. UNCHANGED <<ids, uids, live, resolved, result>>
      BY <2>1 DEF StartPickle, DropPickle, handles, servers, runner
    <3> QED
      BY <3>1, Sees
  <2>2. CASE \E t \in Threads, w \in Workers : Unpickle(t, w)
    <3>1. PICK t \in Threads, w \in Workers : Unpickle(t, w)
      BY <2>2
    <3>2. ids' = [ids EXCEPT ![w] = ids[Driver]] /\ UNCHANGED <<uids, live, resolved, result>>
      BY <3>1 DEF Unpickle, servers, runner
    <3>3. ids'[Driver] = ids[Driver]
      BY <3>2, ElsewhereKeeps
    <3> QED
      BY <3>2, <3>3, SeesDriver
  <2> QED
    BY <1>3, <2>1, <2>2 DEF Pickling
<1>4. CASE \E r \in flying : Handle(r)
  BY <1>4, HandleRefines DEF Abstract!Next
<1>5. CASE \E w \in Workers : WorkerDies(w)
  <2>1. PICK w \in Workers : WorkerDies(w)
    BY <1>5
  <2>2. ids' = [ids EXCEPT ![w] = NoIds] /\ UNCHANGED <<uids, live, resolved, result>>
    BY <2>1 DEF WorkerDies, servers, runner
  <2>3. ids'[Driver] = ids[Driver]
    BY <2>2, ElsewhereKeeps
  <2> QED
    BY <2>2, <2>3, SeesDriver
<1>6. CASE \E v \in Servers : ServerDies(v)
  <2>1. UNCHANGED <<ids, uids, resolved, result>> /\ live' \subseteq live
    BY <1>6 DEF ServerDies, handles, runner
  <2> QED
    BY <2>1, LiveShrinks DEF Abstract!Next
<1>7. CASE Resolve
  BY <1>7, ResolveRefines DEF Abstract!Next
<1>8. CASE ResolveRaises
  <2>1. UNCHANGED <<ids, uids, resolved, result>> /\ live' \subseteq live
    BY <1>8 DEF ResolveRaises, handles
  <2> QED
    BY <2>1, LiveShrinks DEF Abstract!Next
<1>9. CASE TasksFail \/ StartResolve \/ Finish
  <2>1. UNCHANGED <<ids, uids, live, resolved, result>>
    BY <1>9 DEF TasksFail, StartResolve, Finish, handles, servers
  <2> QED
    BY <2>1, Sees
<1> QED
  BY <1>1, <1>2, <1>3, <1>4, <1>5, <1>6, <1>7, <1>8, <1>9 DEF Next, Run, Over

\* The whole run promises what FillOnce does, when it has a task: a slot's sum
\* takes each partition once, and is handed back whole or not at all.
THEOREM RunFillsOnce ==
    ASSUME Partitions # {}
    PROVE  Spec => ImplementsFillOnce
<1>1. Init => Abstract!Init
  BY InitRefines
<1>2. Inv /\ Inv' /\ [Next]_vars => [Abstract!Next]_(Abstract!vars)
  BY StepRefines
<1> QED
  BY <1>1, <1>2, InvHolds, PTL DEF Spec, ImplementsFillOnce, Abstract!Spec

-----------------------------------------------------------------------------
(* Why tasks fail *)

\* The actors that run an attempt at partition p, and whether a slot is lost.
Running(p) == {a \in Actors : task[a] = p}
Lost == \E s \in Slots : ids[Driver][s] # None /\ ids[Driver][s] \notin live

\* An actor between calls runs none.
FreeInv == \A a \in Actors : pc[a] \in {"idle", "pickled"} => task[a] = None

\* Of the attempts at a partition that is not done, as many ended as there were faults at
\* most, unless a slot is lost.
AttemptsInv ==
    /\ \A p \in Partitions : IsFiniteSet(Running(p))
    /\ status = "running" => \A p \in Partitions \ done :
         Lost \/ tries[p] <= Cardinality(Running(p)) + faults

CauseInv == FreeInv /\ AttemptsInv /\ TasksFailForCause

\* The types this count uses.
LEMMA CountTypes ==
    ASSUME Inv
    PROVE  /\ faults \in Nat /\ MaxTries \in Nat
           /\ \A p \in Partitions : tries[p] \in Nat
           /\ task \in [Actors -> Partitions \cup {None}] /\ None \notin Partitions
           /\ tries \in [Partitions -> 0 .. MaxTries] /\ DOMAIN pc = Actors
<1>1. /\ faults \in 0 .. MaxFaults /\ tries \in [Partitions -> 0 .. MaxTries]
      /\ task \in [Actors -> Partitions \cup {None}] /\ DOMAIN pc = Actors
  BY DEF Inv, TypeOK
<1>2. 0 .. MaxFaults \subseteq Nat /\ 0 .. MaxTries \subseteq Nat /\ MaxTries \in Nat
  BY BoundAssumption
<1>3. \A p \in Partitions : tries[p] \in 0 .. MaxTries
  BY <1>1
<1> QED
  BY <1>1, <1>2, <1>3, NoneAssumption

\* A lost slot stays lost: its histogram's id is published, and is not made again.
LEMMA LostStays ==
    ASSUME Inv, [Next]_vars, Lost
    PROVE  Lost'
<1>1. PICK s \in Slots : ids[Driver][s] # None /\ ids[Driver][s] \notin live
  BY DEF Lost
<1>2. Published
  BY <1>1 DEF Published, NoIds
<1>3. ids'[Driver] = ids[Driver]
  <2>1. CASE \E a \in Actors : Publish(a)
    BY <1>2, <2>1, PublishFirst
  <2>2. CASE \E t \in Threads, w \in Workers : Unpickle(t, w)
    <3>1. PICK t \in Threads, w \in Workers : Unpickle(t, w)
      BY <2>2
    <3>2. ids' = [ids EXCEPT ![w] = ids[Driver]]
      BY <3>1 DEF Unpickle
    <3> QED
      BY <3>2, ElsewhereKeeps
  <2>3. CASE \E w \in Workers : WorkerDies(w)
    <3>1. PICK w \in Workers : ids' = [ids EXCEPT ![w] = NoIds]
      BY <2>3 DEF WorkerDies
    <3> QED
      BY <3>1, ElsewhereKeeps
  <2> QED
    BY <2>1, <2>2, <2>3, IdSteps
<1>4. live' \subseteq live
  <2>1. CASE UNCHANGED vars
    BY <2>1 DEF vars, servers
  <2>2. CASE \E a \in Actors : Act(a)
    <3>1. \A a \in Actors : ~Create(a) /\ ~CreateRaises(a)
      BY <1>2 DEF Inv, MakerAlone, Create, CreateRaises
    <3> QED
      BY <2>2, <3>1
         DEF Act, StartCall, Reuse, Acquire, Publish, Ship, RpcFails, Return, servers
  <2>3. CASE \E t \in Threads : Pickling(t)
    BY <2>3 DEF Pickling, StartPickle, Unpickle, DropPickle, servers
  <2>4. CASE \E r \in flying : Handle(r)
    BY <2>4 DEF Handle
  <2>5. CASE (\E w \in Workers : WorkerDies(w)) \/ (\E v \in Servers : ServerDies(v))
    BY <2>5 DEF WorkerDies, ServerDies, servers
  <2>6. CASE Run
    BY <2>6 DEF Run, TasksFail, StartResolve, Resolve, ResolveRaises, Finish, servers
  <2> QED
    BY <2>1, <2>2, <2>3, <2>4, <2>5, <2>6 DEF Next, Over
<1> QED
  BY <1>1, <1>3, <1>4 DEF Lost

\* An attempt that ends is accounted for: its partition is done, a fault ended it, or a
\* slot is lost.
LEMMA AttemptEnds ==
    ASSUME Inv, AttemptsInv, NEW a \in Actors, task' = [task EXCEPT ![a] = None],
           tries' = tries, done \subseteq done', status' = status \/ status' # "running",
           faults' \in Nat, faults <= faults', Lost => Lost',
           \/ task[a] \in done' \/ task[a] = None \/ faults' = faults + 1 \/ Lost'
           \/ status' # "running"
    PROVE  AttemptsInv'
<1>1. /\ task \in [Actors -> Partitions \cup {None}] /\ None \notin Partitions
      /\ faults \in Nat /\ \A p \in Partitions : tries[p] \in Nat
  BY CountTypes
<1>2. ASSUME NEW p \in Partitions
      PROVE  /\ Running(p)' = IF task[a] = p THEN Running(p) \ {a} ELSE Running(p)
             /\ IsFiniteSet(Running(p)') /\ Cardinality(Running(p)) \in Nat
             /\ Cardinality(Running(p)') =
                  IF task[a] = p THEN Cardinality(Running(p)) - 1 ELSE Cardinality(Running(p))
  <2>1. Running(p)' = IF task[a] = p THEN Running(p) \ {a} ELSE Running(p)
    BY <1>1 DEF Running
  <2>2. IsFiniteSet(Running(p)) /\ (task[a] = p => a \in Running(p))
    BY DEF AttemptsInv, Running
  <2> DEFINE R == Running(p)
  <2> HIDE DEF R
  <2>3. IsFiniteSet(R) /\ (task[a] = p => a \in R)
    BY <2>2 DEF R
  <2>4. /\ Cardinality(R) \in Nat
        /\ task[a] = p => IsFiniteSet(R \ {a}) /\ Cardinality(R \ {a}) = Cardinality(R) - 1
    BY <2>3, FS_CardinalityType, FS_RemoveElement
  <2> QED
    BY <2>1, <2>3, <2>4 DEF R
<1>3. ASSUME status' = "running", NEW p \in Partitions \ done', ~Lost'
      PROVE  tries[p] <= Cardinality(Running(p)') + faults'
  <2>1. tries[p] <= Cardinality(Running(p)) + faults
    BY <1>3 DEF AttemptsInv
  <2>2. task[a] # p \/ faults' = faults + 1
    BY <1>1, <1>3
  <2> QED
    BY <1>1, <1>2, <2>1, <2>2
<1> QED
  BY <1>2, <1>3 DEF AttemptsInv

\* A step that starts and ends no attempt.
LEMMA NoAttemptEnds ==
    ASSUME Inv, AttemptsInv, task' = task, tries' = tries, done' = done,
           status' = status \/ status' # "running",
           faults' \in Nat, faults <= faults', Lost => Lost'
    PROVE  AttemptsInv'
<1>1. faults \in Nat /\ \A p \in Partitions : tries[p] \in Nat
  BY CountTypes
<1>2. \A p \in Partitions : /\ Running(p)' = Running(p) /\ IsFiniteSet(Running(p))
                            /\ Cardinality(Running(p)) \in Nat
  BY FS_CardinalityType DEF Running, AttemptsInv
<1>3. ASSUME status' = "running", NEW p \in Partitions \ done, ~Lost'
      PROVE  tries[p] <= Cardinality(Running(p)) + faults'
  <2>1. tries[p] <= Cardinality(Running(p)) + faults
    BY <1>3 DEF AttemptsInv
  <2> QED
    BY <1>1, <1>2, <2>1
<1> QED
  BY <1>2, <1>3 DEF AttemptsInv

LEMMA AttemptStarts ==
    ASSUME Inv, FreeInv, AttemptsInv, Lost => Lost',
           NEW a \in Actors, NEW q \in Partitions, StartCall(a, q)
    PROVE  AttemptsInv'
<1>1. /\ task' = [task EXCEPT ![a] = q] /\ tries' = [tries EXCEPT ![q] = tries[q] + 1]
      /\ task[a] = None /\ None \notin Partitions
      /\ UNCHANGED <<done, faults, status>>
  BY NoneAssumption DEF StartCall, FreeInv
<1>2. /\ task \in [Actors -> Partitions \cup {None}]
      /\ faults \in Nat /\ \A p \in Partitions : tries[p] \in Nat
      /\ \A p \in Partitions : tries'[p] = IF p = q THEN tries[p] + 1 ELSE tries[p]
  BY <1>1, CountTypes
<1>3. ASSUME NEW p \in Partitions
      PROVE  /\ IsFiniteSet(Running(p)') /\ Cardinality(Running(p)) \in Nat
             /\ Cardinality(Running(p)') =
                  IF p = q THEN Cardinality(Running(p)) + 1 ELSE Cardinality(Running(p))
  <2>1. Running(p)' = IF p = q THEN Running(p) \cup {a} ELSE Running(p)
    BY <1>1, <1>2 DEF Running
  <2>2. IsFiniteSet(Running(p)) /\ a \notin Running(p)
    BY <1>1 DEF AttemptsInv, Running
  <2> DEFINE R == Running(p)
  <2> HIDE DEF R
  <2>3. IsFiniteSet(R) /\ a \notin R
    BY <2>2 DEF R
  <2>4. /\ Cardinality(R) \in Nat
        /\ IsFiniteSet(R \cup {a}) /\ Cardinality(R \cup {a}) = Cardinality(R) + 1
    BY <2>3, FS_CardinalityType, FS_AddElement
  <2> QED
    BY <2>1, <2>3, <2>4 DEF R
<1>4. ASSUME status = "running", NEW p \in Partitions \ done, ~Lost'
      PROVE  tries'[p] <= Cardinality(Running(p)') + faults
  <2>1. tries[p] <= Cardinality(Running(p)) + faults
    BY <1>4 DEF AttemptsInv
  <2> QED
    BY <1>2, <1>3, <2>1
<1> QED
  BY <1>1, <1>3, <1>4 DEF AttemptsInv

\* A server's answer ends an attempt only when the slot's histogram is gone.
LEMMA HandleEnds ==
    ASSUME Inv, NEW r \in flying, Handle(r)
    PROVE  \/ UNCHANGED <<pc, task>>
           \/ pc' = [pc EXCEPT ![r.by] = "ship"] /\ UNCHANGED task
           \/ /\ pc' = [pc EXCEPT ![r.by] = "idle"] /\ task' = [task EXCEPT ![r.by] = None]
              /\ Lost'
<1>1. /\ r.slot \in Slots /\ r.hist \in Hists /\ r.hist = ids[Driver][r.slot]
      /\ UNCHANGED <<ids, live>>
  BY DEF Inv, TypeOK, Requests, FlyingInv, Handle, handles
<1>2. AnswerTo(r) = "NOT_FOUND" => r.hist \notin live
  BY DEF AnswerTo
<1>3. r.hist \notin live => Lost'
  BY <1>1, NoneAssumption DEF Lost
<1>4. AnswerTo(r) \in {"NOT_FOUND", "OK", "ALREADY_EXISTS"}
  BY DEF AnswerTo
<1> QED
  BY <1>2, <1>3, <1>4 DEF Handle, Answered, Accepted, Raise

\* What every step does to the count of faults and to the status.
LEMMA FaultsGrow ==
    ASSUME Inv, [Next]_vars
    PROVE  faults' \in Nat /\ faults <= faults'
<1>1. faults \in Nat
  BY CountTypes
<1>2. faults' = faults \/ faults' = faults + 1
  <2>1. CASE UNCHANGED vars
    BY <2>1 DEF vars
  <2>2. CASE \E a \in Actors : Act(a)
    BY <2>2 DEF Act, StartCall, Reuse, Acquire, Create, CreateRaises, Publish, Ship, RpcFails,
                Return, Fault
  <2>3. CASE \E t \in Threads : Pickling(t)
    BY <2>3 DEF Pickling, StartPickle, Unpickle, DropPickle
  <2>4. CASE \E r \in flying : Handle(r)
    BY <2>4 DEF Handle
  <2>5. CASE (\E w \in Workers : WorkerDies(w)) \/ (\E v \in Servers : ServerDies(v))
    BY <2>5 DEF WorkerDies, ServerDies, Fault
  <2>6. CASE Run
    BY <2>6 DEF Run, TasksFail, StartResolve, Resolve, ResolveRaises, Finish, Fault
  <2> QED
    BY <2>1, <2>2, <2>3, <2>4, <2>5, <2>6 DEF Next, Over
<1> QED
  BY <1>1, <1>2

LEMMA FreeKeeps ==
    ASSUME Inv, FreeInv, [Next]_vars
    PROVE  FreeInv'
<1>1. pc \in [Actors -> {"idle", "ids", "making", "pickled", "ship", "wait"}]
      /\ task \in [Actors -> Partitions \cup {None}]
  BY DEF Inv, TypeOK
<1>2. CASE UNCHANGED vars
  BY <1>2 DEF vars, actors, FreeInv
<1>3. CASE \E a \in Actors : Act(a)
  <2>1. PICK a \in Actors : Act(a)
    BY <1>3
  <2>2. CASE \E p \in Partitions : StartCall(a, p)
    BY <1>1, <2>2 DEF StartCall, FreeInv
  <2>3. CASE Reuse(a) \/ Publish(a)
    BY <1>1, <2>3 DEF Reuse, Publish, AfterIds, FreeInv
  <2>4. CASE Acquire(a) \/ Create(a) \/ Ship(a)
    BY <1>1, <2>4 DEF Acquire, Create, Ship, FreeInv
  <2>5. CASE CreateRaises(a) \/ RpcFails(a) \/ Return(a)
    BY <1>1, <2>5 DEF CreateRaises, RpcFails, Return, Answered, Raise, FreeInv
  <2> QED
    BY <2>1, <2>2, <2>3, <2>4, <2>5 DEF Act
<1>4. CASE \E t \in Threads : Pickling(t)
  <2>1. Threads \subseteq Actors
    BY ProcFacts
  <2> QED
    BY <1>1, <1>4, <2>1 DEF Pickling, StartPickle, Unpickle, DropPickle, FreeInv
<1>5. CASE \E r \in flying : Handle(r)
  BY <1>1, <1>5, HandleEnds DEF FreeInv
<1>6. CASE \E w \in Workers : WorkerDies(w)
  BY <1>1, <1>6 DEF WorkerDies, Raise, FreeInv
<1>7. CASE \E v \in Servers : ServerDies(v)
  BY <1>7 DEF ServerDies, actors, FreeInv
<1>8. CASE Run
  BY <1>8 DEF Run, TasksFail, StartResolve, Resolve, ResolveRaises, Finish, actors, FreeInv
<1> QED
  BY <1>2, <1>3, <1>4, <1>5, <1>6, <1>7, <1>8 DEF Next, Over

LEMMA AttemptsKeep ==
    ASSUME Inv, FreeInv, AttemptsInv, [Next]_vars
    PROVE  AttemptsInv'
<1>1. (Lost => Lost') /\ faults' \in Nat /\ faults <= faults'
  BY LostStays, FaultsGrow
<1> DEFINE Same == /\ task' = task /\ tries' = tries /\ done' = done
                   /\ status' = status \/ status' # "running"
           Ends(a) == /\ task' = [task EXCEPT ![a] = None] /\ tries' = tries
                      /\ done \subseteq done' /\ (status' = status \/ status' # "running")
                      /\ \/ task[a] \in done' \/ task[a] = None \/ faults' = faults + 1 \/ Lost'
                         \/ status' # "running"
<1>2. CASE Same
  BY <1>1, <1>2, NoAttemptEnds
<1>3. ASSUME NEW a \in Actors, Ends(a) PROVE AttemptsInv'
  BY <1>1, <1>3, AttemptEnds
<1>4. CASE UNCHANGED vars
  <2>1. Same
    BY <1>4 DEF vars, actors, runner
  <2> QED
    BY <2>1, <1>2
<1>5. CASE \E a \in Actors : Act(a)
  <2>1. PICK a \in Actors : Act(a)
    BY <1>5
  <2>2. CASE \E p \in Partitions : StartCall(a, p)
    BY <1>1, <2>2, AttemptStarts
  <2>3. CASE Reuse(a) \/ Acquire(a) \/ Create(a) \/ Publish(a) \/ Ship(a)
    <3>1. Same
      BY <2>3 DEF Reuse, Acquire, Create, Publish, Ship, runner
    <3> QED
      BY <3>1, <1>2
  <2>4. CASE CreateRaises(a)
    <3>1. Ends(a)
      BY <2>4 DEF CreateRaises, Raise, Fault, runner
    <3> QED
      BY <3>1, <1>3
  <2>5. CASE RpcFails(a)
    <3>1. Same \/ Ends(a)
      BY <2>5 DEF RpcFails, Answered, Raise, Fault, runner
    <3> QED
      BY <3>1, <1>2, <1>3
  <2>6. CASE Return(a)
    <3>1. Ends(a)
      BY <2>6 DEF Return, Raise
    <3> QED
      BY <3>1, <1>3
  <2> QED
    BY <2>1, <2>2, <2>3, <2>4, <2>5, <2>6 DEF Act
<1>6. CASE \E t \in Threads : Pickling(t)
  <2>1. Same
    BY <1>6 DEF Pickling, StartPickle, Unpickle, DropPickle, runner
  <2> QED
    BY <2>1, <1>2
<1>7. CASE \E r \in flying : Handle(r)
  <2>1. PICK r \in flying : Handle(r)
    BY <1>7
  <2>2. UNCHANGED runner /\ r.by \in Actors
    BY <2>1 DEF Handle, Inv, TypeOK, Requests
  <2>3. Same \/ Ends(r.by)
    BY <2>1, <2>2, HandleEnds DEF runner
  <2> QED
    BY <2>2, <2>3, <1>2, <1>3
<1>8. CASE \E w \in Workers : WorkerDies(w)
  <2>1. PICK w \in Workers : WorkerDies(w)
    BY <1>8
  <2>2. w \in Actors /\ Ends(w)
    BY <2>1, ProcFacts DEF WorkerDies, Raise, Fault, runner
  <2> QED
    BY <2>2, <1>3
<1>9. CASE \E v \in Servers : ServerDies(v)
  <2>1. Same
    BY <1>9 DEF ServerDies, actors, runner
  <2> QED
    BY <2>1, <1>2
<1>10. CASE Run
  <2>1. Same
    BY <1>10 DEF Run, TasksFail, StartResolve, Resolve, ResolveRaises, Finish, actors
  <2> QED
    BY <2>1, <1>2
<1> QED
  BY <1>4, <1>5, <1>6, <1>7, <1>8, <1>9, <1>10 DEF Next, Over

\* Where a run's tasks come to fail, its last attempt was lost to a fault too.
LEMMA FailsForCause ==
    ASSUME Inv, CauseInv, [Next]_vars
    PROVE  TasksFailForCause'
<1> SUFFICES ASSUME status' = "tasks failed" PROVE faults' >= MaxTries \/ Lost'
  BY DEF TasksFailForCause, Lost
<1>1. /\ faults' \in Nat /\ faults <= faults'
      /\ faults \in Nat /\ MaxTries \in Nat
  BY FaultsGrow, CountTypes
<1>2. ASSUME faults >= MaxTries \/ Lost PROVE faults' >= MaxTries \/ Lost'
  <2>1. CASE Lost
    BY <2>1, LostStays
  <2>2. CASE faults >= MaxTries
    <3>1. faults' >= MaxTries
      BY ONLY <1>1, <2>2
    <3> QED
      BY <3>1
  <2> QED
    BY <1>2, <2>1, <2>2
<1>3. CASE status = "tasks failed"
  <2>1. faults >= MaxTries \/ Lost
    BY <1>3 DEF CauseInv, TasksFailForCause, Lost
  <2> QED
    BY <2>1, <1>2
<1>4. CASE status # "tasks failed"
  <2>1. TasksFail
    <3>1. ~UNCHANGED status
      BY <1>4
    <3>2. ~(\E a \in Actors : Act(a))
      <4>1. \A a \in Actors : Return(a) => status' \in {status, "refused"}
        BY DEF Return
      <4> QED
        BY <3>1, <4>1 DEF Act, StartCall, Reuse, Acquire, Create, CreateRaises, Publish, Ship,
                          RpcFails, runner
    <3>3. ~(\E t \in Threads : Pickling(t))
      BY <3>1 DEF Pickling, StartPickle, Unpickle, DropPickle, runner
    <3>4. /\ ~(\E r \in flying : Handle(r)) /\ ~(\E w \in Workers : WorkerDies(w))
          /\ ~(\E v \in Servers : ServerDies(v))
      BY <3>1 DEF Handle, WorkerDies, ServerDies, runner
    <3>5. Run
      BY <3>1, <3>2, <3>3, <3>4 DEF Next, Over, vars, runner
    <3> QED
      BY <1>4, <3>5 DEF Run, StartResolve, Resolve, ResolveRaises, Finish
  <2>2. PICK p \in Partitions \ done : tries[p] = MaxTries /\ \A a \in Actors : task[a] # p
    BY <2>1 DEF TasksFail
  <2>3. Running(p) = {} /\ status = "running"
    BY <2>1, <2>2 DEF Running, TasksFail
  <2>4. Lost \/ MaxTries <= 0 + faults
    BY <2>2, <2>3, FS_EmptySet DEF CauseInv, AttemptsInv
  <2>5. faults >= MaxTries \/ Lost
    <3>1. CASE MaxTries <= 0 + faults
      <4>1. faults >= MaxTries
        BY ONLY <1>1, <3>1
      <4> QED
        BY <4>1
    <3> QED
      BY <2>4, <3>1
  <2> QED
    BY <1>2, <2>5
<1> QED
  BY <1>3, <1>4

\* A run's tasks fail only when its servers lost a histogram or there were as many faults as
\* a task has attempts (_ship takes ALREADY_EXISTS for success; the runner's retries).
THEOREM FailuresHaveCause == Spec => []TasksFailForCause
<1>1. Init => CauseInv
  <2> SUFFICES ASSUME Init PROVE CauseInv
    OBVIOUS
  <2>1. \A a \in Actors : task[a] = None
    BY DEF Init
  <2>2. \A p \in Partitions : Running(p) = {} /\ tries[p] = 0
    BY <2>1, NoneAssumption DEF Running, Init
  <2>3. faults = 0 /\ status = "running"
    BY DEF Init
  <2>4. AttemptsInv
    BY <2>2, <2>3, FS_EmptySet DEF AttemptsInv
  <2> QED
    BY <2>1, <2>3, <2>4 DEF CauseInv, FreeInv, TasksFailForCause
<1>2. Inv /\ CauseInv /\ [Next]_vars => CauseInv'
  BY FreeKeeps, AttemptsKeep, FailsForCause DEF CauseInv
<1>3. CauseInv => TasksFailForCause
  BY DEF CauseInv
<1> QED
  BY <1>1, <1>2, <1>3, InvHolds, PTL DEF Spec

-----------------------------------------------------------------------------
(* The clients it is called through, ClientCache's: for any processes,        *)
(* threads and endpoints, no living process uses another's client, and a      *)
(* process makes one client per endpoint, through any forks.                  *)

Clients == [key : Pids \X Endpoints, serial : Nat, by : Callers]
CallPlaces == {"none", "idle", "waiting", "locked", "making", "rpc"}

ClientTypes ==
    /\ births \in [Pids -> Nat \cup {Nil}]
    /\ clients \in [Pids -> SUBSET Clients]
    /\ tableLock \in [Pids -> Callers \cup {Nil}]
    /\ place \in [Users -> CallPlaces]
    /\ calls \in
        [Users -> [endpoint : Endpoints \cup {Nil}, client : Clients \cup {Nil}]]
    /\ started \in Nat \ {0}

\* A thread in a call has its endpoint.
CallsNamed ==
    \A a \in Users : place[a] \in {"waiting", "locked", "making", "rpc"} =>
        calls[a].endpoint \in Endpoints

\* Who makes a client found none, and the lock keeps it so.
MakingIsMiss == \A a \in Users : place[a] = "making" => Found(a) = {}

\* The client in use is the one of its process's key.
UsesItsKey ==
    \A a \in Users : place[a] = "rpc" =>
        calls[a].client \in Clients /\ calls[a].client.key[1] = a[1]

ClientInv ==
    /\ ClientTypes /\ LocksOK
    /\ CallsNamed /\ MakingIsMiss /\ UsesItsKey /\ OneClient

LEMMA ClientInit == CacheInit => ClientInv
<1> SUFFICES ASSUME CacheInit PROVE ClientInv
  OBVIOUS
<1> PICK q \in Pids, t \in Callers :
        /\ births = [p \in Pids |-> IF p = q THEN 1 ELSE Nil]
        /\ clients = [p \in Pids |-> {}]
        /\ tableLock = [p \in Pids |-> Nil]
        /\ place = [a \in Users |-> IF a = <<q, t>> THEN "idle" ELSE "none"]
        /\ calls = [a \in Users |-> Quiet]
        /\ started = 1
  BY DEF CacheInit
<1>1. ClientTypes
  BY DEF ClientTypes, Users, CallPlaces, Quiet, Clients
<1>2. LocksOK
  BY NilAssumption DEF LocksOK, Alive, Inside, Orphaned, Users
<1>3. CallsNamed /\ MakingIsMiss /\ UsesItsKey
  BY DEF CallsNamed, MakingIsMiss, UsesItsKey, Users
<1>4. OneClient
  BY DEF OneClient
<1> QED
  BY <1>1, <1>2, <1>3, <1>4 DEF ClientInv

\* A call touches neither table nor lock.
LEMMA CallKeeps ==
    ASSUME ClientInv, NEW a \in Users, NEW e \in Endpoints, Call(a, e)
    PROVE ClientInv'
<1> USE NilAssumption DEF ClientInv, ClientTypes, Users, Call
<1>1. ClientTypes'
  BY DEF CallPlaces, Clients, Quiet, Key
<1>2. LocksOK'
  BY DEF LocksOK, Alive, Inside, Orphaned, CallPlaces
<1>3. CallsNamed'
  BY DEF CallsNamed, Quiet, CallPlaces
<1>4. MakingIsMiss'
  BY DEF MakingIsMiss, Found, Key, CallsNamed, LocksOK, Inside,
         CallPlaces
<1>5. UsesItsKey'
  BY DEF UsesItsKey, Found, Key, Clients, CallsNamed, CallPlaces
<1>6. OneClient'
  BY DEF OneClient, Found, Key, Alive, LocksOK,
         MakingIsMiss, Clients
<1> QED
  BY <1>1, <1>2, <1>3, <1>4, <1>5, <1>6

\* The lock goes to one thread, which was in no call's inside.
LEMMA LockTaken ==
    ASSUME ClientInv, NEW a \in Users, TakeLock(a)
    PROVE ClientInv'
<1> USE NilAssumption DEF ClientInv, ClientTypes, Users, TakeLock
<1>1. ClientTypes'
  BY DEF CallPlaces, Clients, Quiet, Key
<1>2. LocksOK'
  BY DEF LocksOK, Alive, Inside, Orphaned, CallPlaces
<1>3. CallsNamed'
  BY DEF CallsNamed, Quiet, CallPlaces
<1>4. MakingIsMiss'
  BY DEF MakingIsMiss, Found, Key, CallsNamed, LocksOK, Inside,
         CallPlaces
<1>5. UsesItsKey'
  BY DEF UsesItsKey, Found, Key, Clients, CallsNamed, CallPlaces
<1>6. OneClient'
  BY DEF OneClient, Found, Key, Alive, LocksOK,
         MakingIsMiss, Clients
<1> QED
  BY <1>1, <1>2, <1>3, <1>4, <1>5, <1>6

\* A hit leaves with a client of its process's key.
LEMMA HitKeeps ==
    ASSUME ClientInv, NEW a \in Users, Hit(a)
    PROVE ClientInv'
<1> USE NilAssumption DEF ClientInv, ClientTypes, Users, Hit
<1>1. ClientTypes'
  BY DEF Found, CallPlaces, Clients
<1>2. LocksOK'
  BY DEF LocksOK, Alive, Inside, Orphaned, CallPlaces
<1>3. CallsNamed'
  BY DEF CallsNamed, Quiet, CallPlaces
<1>4. MakingIsMiss'
  BY DEF MakingIsMiss, Found, Key, CallsNamed, LocksOK, Inside,
         CallPlaces
<1>5. UsesItsKey'
  BY DEF UsesItsKey, Found, Key, Clients, CallsNamed, CallPlaces
<1>6. OneClient'
  BY DEF OneClient, Found, Key, Alive, LocksOK,
         MakingIsMiss, Clients
<1> QED
  BY <1>1, <1>2, <1>3, <1>4, <1>5, <1>6

\* A miss is what its table has then.
LEMMA MissKeeps ==
    ASSUME ClientInv, NEW a \in Users, Miss(a)
    PROVE ClientInv'
<1> USE NilAssumption DEF ClientInv, ClientTypes, Users, Miss
<1>1. ClientTypes'
  BY DEF CallPlaces, Clients, Quiet, Key
<1>2. LocksOK'
  BY DEF LocksOK, Alive, Inside, Orphaned, CallPlaces
<1>3. CallsNamed'
  BY DEF CallsNamed, Quiet, CallPlaces
<1>4. MakingIsMiss'
  BY DEF MakingIsMiss, Found, Key, CallsNamed, LocksOK, Inside,
         CallPlaces
<1>5. UsesItsKey'
  BY DEF UsesItsKey, Found, Key, Clients, CallsNamed, CallPlaces
<1>6. OneClient'
  BY DEF OneClient, Found, Key, Alive, LocksOK,
         MakingIsMiss, Clients
<1> QED
  BY <1>1, <1>2, <1>3, <1>4, <1>5, <1>6

\* Only the maker's table grows, by a key that was not in it.
LEMMA MadeKeeps ==
    ASSUME ClientInv, NEW a \in Users, Made(a)
    PROVE ClientInv'
<1> USE NilAssumption DEF ClientInv, ClientTypes, Users, Made
<1>1. ClientTypes'
  BY SMTT(30) DEF Key, CallPlaces, Clients, LocksOK, Alive, CallsNamed
<1>2. LocksOK'
  BY DEF LocksOK, Alive, Inside, Orphaned, CallPlaces
<1>3. CallsNamed'
  BY DEF CallsNamed, Quiet, CallPlaces
<1>4. MakingIsMiss'
  BY DEF MakingIsMiss, Found, Key, CallsNamed, LocksOK, Inside,
         CallPlaces
<1>5. UsesItsKey'
  BY DEF UsesItsKey, Key, Clients, CallsNamed, CallPlaces, LocksOK, Alive
<1>6. OneClient'
  BY SMTT(30) DEF OneClient, Found, Key, Alive, LocksOK,
         MakingIsMiss, Clients
<1> QED
  BY <1>1, <1>2, <1>3, <1>4, <1>5, <1>6

\* A failure gives the lock back.
LEMMA FailedKeeps ==
    ASSUME ClientInv, NEW a \in Users, Failed(a)
    PROVE ClientInv'
<1> USE NilAssumption DEF ClientInv, ClientTypes, Users, Failed
<1>1. ClientTypes'
  BY DEF CallPlaces, Clients, Quiet, Key
<1>2. LocksOK'
  BY DEF LocksOK, Alive, Inside, Orphaned, CallPlaces
<1>3. CallsNamed'
  BY DEF CallsNamed, Quiet, CallPlaces
<1>4. MakingIsMiss'
  BY DEF MakingIsMiss, Found, Key, CallsNamed, LocksOK, Inside,
         CallPlaces
<1>5. UsesItsKey'
  BY DEF UsesItsKey, Found, Key, Clients, CallsNamed, CallPlaces
<1>6. OneClient'
  BY DEF OneClient, Found, Key, Alive, LocksOK,
         MakingIsMiss, Clients
<1> QED
  BY <1>1, <1>2, <1>3, <1>4, <1>5, <1>6

\* An answer touches neither table nor lock.
LEMMA AnswerKeeps ==
    ASSUME ClientInv, NEW a \in Users, Answer(a)
    PROVE ClientInv'
<1> USE NilAssumption DEF ClientInv, ClientTypes, Users, Answer
<1>1. ClientTypes'
  BY DEF CallPlaces, Clients, Quiet, Key
<1>2. LocksOK'
  BY DEF LocksOK, Alive, Inside, Orphaned, CallPlaces
<1>3. CallsNamed'
  BY DEF CallsNamed, Quiet, CallPlaces
<1>4. MakingIsMiss'
  BY DEF MakingIsMiss, Found, Key, CallsNamed, LocksOK, Inside,
         CallPlaces
<1>5. UsesItsKey'
  BY DEF UsesItsKey, Found, Key, Clients, CallsNamed, CallPlaces
<1>6. OneClient'
  BY DEF OneClient, Found, Key, Alive, LocksOK,
         MakingIsMiss, Clients
<1> QED
  BY <1>1, <1>2, <1>3, <1>4, <1>5, <1>6

\* A new thread is in no call.
LEMMA StartThreadKeeps ==
    ASSUME ClientInv, NEW a \in Users, NEW t \in Callers, StartThread(a, t)
    PROVE ClientInv'
<1> USE NilAssumption DEF ClientInv, ClientTypes, Users, StartThread
<1>1. ClientTypes'
  BY DEF CallPlaces, Clients, Quiet, Key
<1>2. LocksOK'
  BY DEF LocksOK, Alive, Inside, Orphaned, CallPlaces
<1>3. CallsNamed'
  BY DEF CallsNamed, Quiet, CallPlaces
<1>4. MakingIsMiss'
  BY DEF MakingIsMiss, Found, Key, CallsNamed, LocksOK, Inside,
         CallPlaces
<1>5. UsesItsKey'
  BY DEF UsesItsKey, Found, Key, Clients, CallsNamed, CallPlaces
<1>6. OneClient'
  BY DEF OneClient, Found, Key, Alive, LocksOK,
         MakingIsMiss, Clients
<1> QED
  BY <1>1, <1>2, <1>3, <1>4, <1>5, <1>6

\* A child has its parent's table and one thread, in no call.
LEMMA ForkKeeps ==
    ASSUME ClientInv, NEW a \in Users, NEW q \in Pids, Fork(a, q)
    PROVE ClientInv'
<1> USE NilAssumption DEF ClientInv, ClientTypes, Users, Fork
<1>1. ClientTypes'
  BY DEF CallPlaces, Clients, Quiet, Key
<1>2. LocksOK'
  BY DEF LocksOK, Alive, Inside, Orphaned, CallPlaces
<1>3. CallsNamed'
  BY DEF CallsNamed, Quiet, CallPlaces
<1>4. MakingIsMiss'
  BY DEF MakingIsMiss, Found, Key, CallsNamed, LocksOK, Inside,
         CallPlaces
<1>5. UsesItsKey'
  BY DEF UsesItsKey, Found, Key, Clients, CallsNamed, CallPlaces
<1>6. OneClient'
  BY DEF OneClient, Found, Key, Alive, LocksOK,
         MakingIsMiss, Clients
<1> QED
  BY <1>1, <1>2, <1>3, <1>4, <1>5, <1>6

\* An ended process has no threads.
LEMMA ExitKeeps ==
    ASSUME ClientInv, NEW q \in Pids, Exit(q)
    PROVE ClientInv'
<1> USE NilAssumption DEF ClientInv, ClientTypes, Users, Exit
<1>1. ClientTypes'
  BY DEF CallPlaces, Clients, Quiet, Key
<1>2. LocksOK'
  BY DEF LocksOK, Alive, Inside, Orphaned, CallPlaces
<1>3. CallsNamed'
  BY DEF CallsNamed, Quiet, CallPlaces
<1>4. MakingIsMiss'
  BY DEF MakingIsMiss, Found, Key, CallsNamed, LocksOK, Inside,
         CallPlaces
<1>5. UsesItsKey'
  BY DEF UsesItsKey, Found, Key, Clients, CallsNamed, CallPlaces
<1>6. OneClient'
  BY DEF OneClient, Found, Key, Alive, LocksOK,
         MakingIsMiss, Clients
<1> QED
  BY <1>1, <1>2, <1>3, <1>4, <1>5, <1>6

LEMMA ClientStutter == ClientInv /\ UNCHANGED cacheVars => ClientInv'
  BY DEF ClientInv, ClientTypes, LocksOK, CallsNamed, MakingIsMiss, UsesItsKey,
         OneClient, cacheVars,
         Found, Alive, Inside, Orphaned

LEMMA ClientStep == ClientInv /\ [CacheNext]_cacheVars => ClientInv'
<1> SUFFICES ASSUME ClientInv, [CacheNext]_cacheVars PROVE ClientInv'
  OBVIOUS
<1>1. CASE UNCHANGED cacheVars
  BY <1>1, ClientStutter
<1>2. ASSUME NEW a \in Users, NEW e \in Endpoints, Call(a, e) PROVE ClientInv'
  BY <1>2, CallKeeps
<1>3. ASSUME NEW a \in Users, Step(a) PROVE ClientInv'
  BY <1>3, LockTaken, HitKeeps, MissKeeps, MadeKeeps, AnswerKeeps DEF Step
<1>4. ASSUME NEW a \in Users, Failed(a) PROVE ClientInv'
  BY <1>4, FailedKeeps
<1>5. ASSUME NEW a \in Users, NEW t \in Callers, StartThread(a, t) PROVE ClientInv'
  BY <1>5, StartThreadKeeps
<1>6. ASSUME NEW a \in Users, NEW q \in Pids, Fork(a, q) PROVE ClientInv'
  BY <1>6, ForkKeeps
<1>7. ASSUME NEW q \in Pids, Exit(q) PROVE ClientInv'
  BY <1>7, ExitKeeps
<1> QED
  BY <1>1, <1>2, <1>3, <1>4, <1>5, <1>6, <1>7 DEF CacheNext

LEMMA ClientInvariance == CacheSpec => []ClientInv
  BY ClientInit, ClientStep, PTL DEF CacheSpec

-----------------------------------------------------------------------------
(* Theorems *)

\* Threads run in living processes, the lock is where its holder is, and the driver's lock
\* is never orphaned.
THEOREM LocksHeld == CacheSpec => []LocksOK
  BY ClientInvariance, PTL DEF ClientInv

\* However often processes fork and pids are given out again, no two living ones use one
\* client.
THEOREM ChannelsStayApart == CacheSpec => []ChannelsApart
<1>1. ClientInv => ChannelsApart
  BY DEF ClientInv, UsesItsKey, ChannelsApart
<1> QED
  BY <1>1, ClientInvariance, PTL

\* A process makes one client per endpoint.
THEOREM OneClientEach == CacheSpec => []OneClient
  BY ClientInvariance, PTL DEF ClientInv
=============================================================================
