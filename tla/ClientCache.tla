----------------------------- MODULE ClientCache -----------------------------
(* _call's cached clients: one gRPC client per process and endpoint, made      *)
(* under a lock by the first thread that calls the endpoint.  A process may be *)
(* forked at any of these steps: the child has the table and the lock as they  *)
(* are in its parent then, and only a copy of the thread that forked.          *)
EXTENDS Naturals, FiniteSets

CONSTANTS
    Pids,           \* process ids; an ended process's is given out again
    Callers,        \* the threads a process may have
    Endpoints,
    Nil,
    MaxForks,       \* bound: processes started after the first
    MaxCalls        \* bound: calls in all; a run makes finitely many

ASSUME NilAssumption == Nil \notin Pids \cup Callers \cup Nat
ASSUME CallBoundsAssumption == {MaxForks, MaxCalls} \subseteq Nat

VARIABLES
    births,         \* births[q]: the serial of pid q's process, Nil when there is none
    clients,        \* clients[q]: set of [key, serial, by]: the table of pid q's process
    tableLock,      \* tableLock[q]: the thread holding pid q's lock, or Nil
    place,          \* place[<<q, t>>]: where thread t of pid q's process is
    calls,          \* calls[<<q, t>>]: [endpoint, client] of its call
    started,        \* processes started so far
    called          \* calls made so far

cacheVars == <<births, clients, tableLock, place, calls, started, called>>

Users == Pids \X Callers
Alive(q) == births[q] # Nil
Quiet == [endpoint |-> Nil, client |-> Nil]

\* Key gone wrong: by the endpoint alone.
KeyByEndpoint(q, e) == <<Nil, e>>

\* What the table is keyed by: os.getpid() and the endpoint.
Key(q, e) == <<q, e>>

\* The driver, with one thread.
CacheInit == \E q \in Pids, t \in Callers :
    /\ births = [p \in Pids |-> IF p = q THEN 1 ELSE Nil]
    /\ clients = [p \in Pids |-> {}]
    /\ tableLock = [p \in Pids |-> Nil]
    /\ place = [a \in Users |-> IF a = <<q, t>> THEN "idle" ELSE "none"]
    /\ calls = [a \in Users |-> Quiet]
    /\ started = 1
    /\ called = 0

\* A thread calls an endpoint: it waits for the lock.
Call(a, e) ==
    /\ place[a] = "idle" /\ called < MaxCalls
    /\ called' = called + 1
    /\ place' = [place EXCEPT ![a] = "waiting"]
    /\ calls' = [calls EXCEPT ![a] = [endpoint |-> e, client |-> Nil]]
    /\ UNCHANGED <<births, clients, tableLock, started>>

\* TakeLock gone wrong: no lock.
TakeNoLock(a) ==
    /\ place[a] = "waiting"
    /\ place' = [place EXCEPT ![a] = "locked"]
    /\ UNCHANGED <<births, clients, tableLock, calls, started, called>>

TakeLock(a) ==
    /\ place[a] = "waiting" /\ tableLock[a[1]] = Nil
    /\ tableLock' = [tableLock EXCEPT ![a[1]] = a[2]]
    /\ place' = [place EXCEPT ![a] = "locked"]
    /\ UNCHANGED <<births, clients, calls, started, called>>

Found(a) == {c \in clients[a[1]] : c.key = Key(a[1], calls[a].endpoint)}

\* The table has the client: out of the lock with it.
Hit(a) == \E c \in Found(a) :
    /\ place[a] = "locked"
    /\ tableLock' = [tableLock EXCEPT ![a[1]] = Nil]
    /\ place' = [place EXCEPT ![a] = "rpc"]
    /\ calls' = [calls EXCEPT ![a].client = c]
    /\ UNCHANGED <<births, clients, started, called>>

\* It has none: Client(...) begins.
Miss(a) ==
    /\ place[a] = "locked" /\ Found(a) = {}
    /\ place' = [place EXCEPT ![a] = "making"]
    /\ UNCHANGED <<births, clients, tableLock, calls, started, called>>

\* The client is made, kept, and used.
Made(a) ==
    LET c == [key |-> Key(a[1], calls[a].endpoint), serial |-> births[a[1]], by |-> a[2]]
    IN /\ place[a] = "making"
       /\ clients' = [clients EXCEPT ![a[1]] = @ \cup {c}]
       /\ tableLock' = [tableLock EXCEPT ![a[1]] = Nil]
       /\ place' = [place EXCEPT ![a] = "rpc"]
       /\ calls' = [calls EXCEPT ![a].client = c]
       /\ UNCHANGED <<births, started, called>>

\* Failed gone wrong: the lock is kept (acquire and release without "with").
FailedHolding(a) ==
    /\ place[a] = "making"
    /\ place' = [place EXCEPT ![a] = "idle"]
    /\ calls' = [calls EXCEPT ![a] = Quiet]
    /\ UNCHANGED <<births, clients, tableLock, started, called>>

\* Importing histserv, splitting the endpoint or Client(...) raises: nothing is kept.
Failed(a) ==
    /\ place[a] = "making"
    /\ tableLock' = [tableLock EXCEPT ![a[1]] = Nil]
    /\ place' = [place EXCEPT ![a] = "idle"]
    /\ calls' = [calls EXCEPT ![a] = Quiet]
    /\ UNCHANGED <<births, clients, started, called>>

\* The RPC answers, or raises a HistservError: the client is kept either way.
Answer(a) ==
    /\ place[a] = "rpc"
    /\ place' = [place EXCEPT ![a] = "idle"]
    /\ calls' = [calls EXCEPT ![a] = Quiet]
    /\ UNCHANGED <<births, clients, tableLock, started, called>>

\* A process starts another of its threads.
StartThread(a, t) ==
    /\ place[a] = "idle" /\ place[<<a[1], t>>] = "none"
    /\ place' = [place EXCEPT ![<<a[1], t>>] = "idle"]
    /\ UNCHANGED <<births, clients, tableLock, calls, started, called>>

\* os.fork by a thread that is not in a call: the child q is a copy with that thread.
Fork(a, q) ==
    /\ place[a] = "idle" /\ ~Alive(q) /\ started <= MaxForks
    /\ births' = [births EXCEPT ![q] = started + 1]
    /\ clients' = [clients EXCEPT ![q] = clients[a[1]]]
    /\ tableLock' = [tableLock EXCEPT ![q] = tableLock[a[1]]]
    /\ place' = [place EXCEPT ![<<q, a[2]>>] = "idle"]
    /\ started' = started + 1
    /\ UNCHANGED <<calls, called>>

\* A process ends, at any step.
Exit(q) ==
    /\ Alive(q)
    /\ births' = [births EXCEPT ![q] = Nil]
    /\ clients' = [clients EXCEPT ![q] = {}]
    /\ tableLock' = [tableLock EXCEPT ![q] = Nil]
    /\ place' = [a \in Users |-> IF a[1] = q THEN "none" ELSE place[a]]
    /\ calls' = [a \in Users |-> IF a[1] = q THEN Quiet ELSE calls[a]]
    /\ UNCHANGED <<started, called>>

Step(a) == TakeLock(a) \/ Hit(a) \/ Miss(a) \/ Made(a) \/ Answer(a)

CacheNext ==
    \/ \E a \in Users :
        \/ \E e \in Endpoints : Call(a, e)
        \/ Step(a) \/ Failed(a)
        \/ \E t \in Callers : StartThread(a, t)
        \/ \E q \in Pids : Fork(a, q)
    \/ \E q \in Pids : Exit(q)

\* A running thread runs on; a call need not be made, nor a process end.  The lock may
\* go to any waiting thread: no starving only because the calls are finitely many.
CacheSpec ==
    /\ CacheInit /\ [][CacheNext]_cacheVars
    /\ \A a \in Users : WF_cacheVars(Step(a))

-----------------------------------------------------------------------------
(* Properties *)

\* The lock is held by a thread inside it, or in a child by one that was at the fork.
Inside(a) == place[a] \in {"locked", "making"}
Orphaned(q) == tableLock[q] # Nil /\ ~Inside(<<q, tableLock[q]>>)

\* Threads run in living processes, and only in the driver is a lock never orphaned.
LocksOK ==
    /\ \A a \in Users : place[a] # "none" => Alive(a[1])
    /\ \A a \in Users : Inside(a) => tableLock[a[1]] = a[2]
    /\ \A q \in Pids : births[q] = 1 => ~Orphaned(q)

\* Two living processes never use one client: "a forked worker never reuses its parent's
\* channel" (_CLIENTS).  A client of an ended process may be found by one of its
\* descendants that has its pid.
ChannelsApart ==
    \A a, b \in Users :
        place[a] = "rpc" /\ place[b] = "rpc" /\ calls[a].client = calls[b].client => a[1] = b[1]

\* A process makes one client per endpoint, however many threads call it at once.
OneClient ==
    \A q \in Pids : Alive(q) => \A c, d \in clients[q] : c.key = d.key => c = d

\* A caller gets its client, its call fails or its process ends, unless the process was
\* forked while another thread held the lock: that child waits for ever, the driver never.
CallersServed ==
    \A a \in Users : place[a] = "waiting" ~>
        (place[a] # "waiting" \/ (births[a[1]] # 1 /\ Orphaned(a[1])))
=============================================================================
