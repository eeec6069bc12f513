------------------------------- MODULE Packing -------------------------------
(* Histserv contexts and the servers their slots are packed onto: the name    *)
(* registry (_PACKS), and every plan's serve (_serve), which places the       *)
(* plan's backed slots one by one (_Pack.place) under one lock.               *)
EXTENDS Naturals, FiniteSets, Sequences, FiniteSetsExt

CONSTANTS
    Names,          \* context names
    Args,           \* what contexts ask for: [offer: sizes in MiB, workers]
    Plans,          \* the plans served, each by a thread of its own
    Slots,          \* their backed slots
    PlanOf,         \* PlanOf[s]: the plan of slot s
    NameOf,         \* NameOf[s]: the name of slot s's context
    SizeOf,         \* SizeOf[s]: its _Size, [chunks, dense, tasks]
    Rank,           \* Rank[s]: its key's place in string order
    Adaptive,       \* plans _serve refuses: next_tasks, or a repeated partition
    MiB, Base, PerHist, PerTask, PerConn,   \* the size model's constants
    Ceiling, Envelope,                      \* the message limit, and what a fill adds
    None            \* no lock holder, no server yet

FillA2 == 11        \* twice _FILL_A
FillB2 == 7         \* twice _FILL_B

ASSUME ArgsAssumption ==
    \A g \in Args : g.offer \subseteq Nat /\ IsFiniteSet(g.offer) /\ g.workers \in Nat
ASSUME SlotsAssumption ==
    /\ IsFiniteSet(Slots)
    /\ PlanOf \in [Slots -> Plans]
    /\ NameOf \in [Slots -> Names]
    /\ SizeOf \in [Slots -> [chunks : Nat \ {0}, dense : Nat \ {0}, tasks : Nat]]
    /\ Rank \in [Slots -> Nat]
    /\ \A s, t \in Slots : Rank[s] = Rank[t] => s = t
ASSUME UnitsAssumption ==
    /\ MiB \in Nat \ {0}
    /\ {Base, PerHist, PerTask, PerConn, Ceiling, Envelope} \subseteq Nat
ASSUME NoneAssumption == None \notin Plans /\ None \notin Nat

VARIABLES
    lock,           \* who holds _LOCK
    args,           \* args[n]: the arguments of the pack _PACKS holds under n
    servers,        \* servers[n]: that pack's servers, by index
    contexts,       \* the Context objects made: [name, args]
    pc,             \* pc[b]: where plan b's serve is
    todo,           \* todo[b]: the slots it has still to place
    chosen,         \* chosen[b]: the server index place found for the next one
    homes,          \* homes[s]: the index of the server slot s was placed on
    declared        \* the services declared: [name, index, size]

vars == <<lock, args, servers, contexts, pc, todo, chosen, homes, declared>>

Stored(s) == SizeOf[s].chunks * SizeOf[s].dense

\* _predict, doubled: FillA2 and FillB2 are whole.
Held(s) ==
    PerHist + PerTask * SizeOf[s].tasks + (SizeOf[s].chunks + 1) * SizeOf[s].dense
Predict2(S, w) ==
    2 * (Base + MapThenSumSet(Held, S) + PerConn * w)
        + (FillA2 + FillB2 * w) * Max({Stored(s) : s \in S})

Fits(S, size, w) == Predict2(S, w) <= 2 * size * MiB
CeilDiv(n, d) == (n + d - 1) \div d

Init ==
    /\ lock = None
    /\ args = [n \in Names |-> None]
    /\ servers = [n \in Names |-> <<>>]
    /\ contexts = {}
    /\ pc = [b \in Plans |-> "new"]
    /\ todo = [b \in Plans |-> {}]
    /\ chosen = [b \in Plans |-> None]
    /\ homes = [s \in Slots |-> None]
    /\ declared = {}

-----------------------------------------------------------------------------
(* Context.__init__ *)

\* The offers and worker counts a Context accepts.
Valid(g) ==
    /\ g.offer # {}
    /\ Base <= Min(g.offer) * MiB
    /\ g.workers >= 1

\* NewContext gone wrong: a name in use starts over.
NewContextReplacing(n, g) ==
    /\ lock = None
    /\ Valid(g)
    /\ args' = [args EXCEPT ![n] = g]
    /\ servers' = [servers EXCEPT ![n] = <<>>]
    /\ contexts' = contexts \cup {[name |-> n, args |-> g]}
    /\ UNCHANGED <<lock, pc, todo, chosen, homes, declared>>

\* The name is free: the context holds a pack of its own. It is held with other
\* arguments: refused. It is held with equal ones: the context shares the pack.
NewContext(n, g) ==
    /\ lock = None
    /\ Valid(g)
    /\ IF args[n] = None
       THEN /\ args' = [args EXCEPT ![n] = g]
            /\ contexts' = contexts \cup {[name |-> n, args |-> g]}
       ELSE /\ UNCHANGED args
            /\ contexts' = IF args[n] = g
                           THEN contexts \cup {[name |-> n, args |-> g]}
                           ELSE contexts
    /\ UNCHANGED <<lock, servers, pc, todo, chosen, homes, declared>>

-----------------------------------------------------------------------------
(* _serve *)

SlotsOf(b) == {s \in Slots : PlanOf[s] = b}
Refuses(b) == b \in Adaptive \/ \E s \in SlotsOf(b) : Stored(s) + Envelope > Ceiling

\* Serve gone wrong: the message limit is not checked before placing.
ServeAnySize(b) ==
    /\ pc[b] = "new"
    /\ \A s \in SlotsOf(b) : args[NameOf[s]] # None
    /\ pc' = [pc EXCEPT ![b] = IF b \in Adaptive THEN "refused" ELSE "lock"]
    /\ UNCHANGED <<lock, args, servers, contexts, todo, chosen, homes, declared>>

\* Plan b's serve passes its refusals, or raises before it placed anything.
\* Its histograms exist, and with them their contexts.
Serve(b) ==
    /\ pc[b] = "new"
    /\ \A s \in SlotsOf(b) : args[NameOf[s]] # None
    /\ pc' = [pc EXCEPT ![b] = IF Refuses(b) THEN "refused" ELSE "lock"]
    /\ UNCHANGED <<lock, args, servers, contexts, todo, chosen, homes, declared>>

\* Enter gone wrong: placing without the lock.
EnterUnlocked(b) ==
    /\ pc[b] = "lock"
    /\ pc' = [pc EXCEPT ![b] = "place"]
    /\ todo' = [todo EXCEPT ![b] = SlotsOf(b)]
    /\ UNCHANGED <<lock, args, servers, contexts, chosen, homes, declared>>

\* It takes _LOCK for all of its placements.
Enter(b) ==
    /\ pc[b] = "lock"
    /\ lock = None
    /\ lock' = b
    /\ pc' = [pc EXCEPT ![b] = "place"]
    /\ todo' = [todo EXCEPT ![b] = SlotsOf(b)]
    /\ UNCHANGED <<args, servers, contexts, chosen, homes, declared>>

\* Largest first, ties by key.
Before(s, t) ==
    \/ Stored(s) > Stored(t)
    \/ Stored(s) = Stored(t) /\ Rank[s] < Rank[t]
FirstOf(S) == CHOOSE s \in S : \A t \in S \ {s} : Before(s, t)

\* The servers of name n with room for slot s.
HasRoom(n, i, s) ==
    /\ ~servers[n][i].alone
    /\ Fits(servers[n][i].sizes \cup {s}, servers[n][i].size, args[n].workers)

\* Roomy gone wrong: only the last server is tried.
RoomyLast(n, s) == {i \in {Len(servers[n])} \ {0} : HasRoom(n, i, s)}

Roomy(n, s) == {i \in DOMAIN servers[n] : HasRoom(n, i, s)}

\* _Pack.place reads the servers: the first with room, else the index of a new one.
Choose(b) ==
    /\ pc[b] = "place"
    /\ todo[b] # {}
    /\ LET s == FirstOf(todo[b])
           roomy == Roomy(NameOf[s], s)
       IN chosen' = [chosen EXCEPT ![b] =
            IF roomy # {} THEN Min(roomy) ELSE Len(servers[NameOf[s]]) + 1]
    /\ pc' = [pc EXCEPT ![b] = "put"]
    /\ UNCHANGED <<lock, args, servers, contexts, todo, homes, declared>>

\* A new server for slot s under name n: at the smallest offered size that
\* holds it, else of its own.
OpenFor(n, s) ==
    LET holding == {z \in args[n].offer : Fits({s}, z, args[n].workers)}
    IN IF holding # {}
       THEN [size |-> Min(holding), alone |-> FALSE, sizes |-> {s}]
       ELSE [size |-> CeilDiv(Predict2({s}, args[n].workers), 2 * MiB),
             alone |-> TRUE, sizes |-> {s}]

\* A server with slot s on it as well.
Joined(server, s) == [server EXCEPT !.sizes = @ \cup {s}]

\* _Pack.place writes: the slot joins the chosen server, or opens it.
Put(b) ==
    /\ pc[b] = "put"
    /\ LET s == FirstOf(todo[b])
           n == NameOf[s]
           i == chosen[b]
       IN /\ servers' = [servers EXCEPT ![n] =
                IF i <= Len(servers[n]) THEN [servers[n] EXCEPT ![i] = Joined(servers[n][i], s)]
                ELSE Append(servers[n], OpenFor(n, s))]
          /\ homes' = [homes EXCEPT ![s] = i]
          /\ todo' = [todo EXCEPT ![b] = @ \ {s}]
    /\ pc' = [pc EXCEPT ![b] = "place"]
    /\ UNCHANGED <<lock, args, contexts, chosen, declared>>

\* Leave gone wrong: the lock is not released.
LeaveLocked(b) ==
    /\ pc[b] = "place"
    /\ todo[b] = {}
    /\ pc' = [pc EXCEPT ![b] = "declare"]
    /\ UNCHANGED <<lock, args, servers, contexts, todo, chosen, homes, declared>>

\* Every slot is placed: the lock is released.
Leave(b) ==
    /\ pc[b] = "place"
    /\ todo[b] = {}
    /\ lock' = None
    /\ pc' = [pc EXCEPT ![b] = "declare"]
    /\ UNCHANGED <<args, servers, contexts, todo, chosen, homes, declared>>

\* Service gone wrong: the size follows the load.
ServiceAsLoaded(n, i) ==
    [name |-> n, index |-> i,
     size |-> CeilDiv(Predict2(servers[n][i].sizes, args[n].workers), 2 * MiB)]

\* The servers it landed on become services of the session and the plan.
Service(n, i) == [name |-> n, index |-> i, size |-> servers[n][i].size]
Declare(b) ==
    /\ pc[b] = "declare"
    /\ declared' = declared \cup {Service(NameOf[s], homes[s]) : s \in SlotsOf(b)}
    /\ pc' = [pc EXCEPT ![b] = "served"]
    /\ UNCHANGED <<lock, args, servers, contexts, todo, chosen, homes>>

-----------------------------------------------------------------------------
\* One step of plan b's serve.
Step(b) == Serve(b) \/ Enter(b) \/ Choose(b) \/ Put(b) \/ Leave(b) \/ Declare(b)

\* Every plan is served or refused.
Over ==
    /\ \A b \in Plans : pc[b] \in {"served", "refused"}
    /\ UNCHANGED vars

Next ==
    \/ \E n \in Names, g \in Args : NewContext(n, g)
    \/ \E b \in Plans : Step(b)
    \/ Over

Spec == Init /\ [][Next]_vars

\* A serve that started goes on; nothing makes a plan's serve start.
FairSpec ==
    Spec /\ \A b \in Plans :
        WF_vars(Enter(b) \/ Choose(b) \/ Put(b) \/ Leave(b) \/ Declare(b))

-----------------------------------------------------------------------------
(* Properties *)

\* The size model holds each server under the size it is given, however serves
\* of several plans interleave (design.rst "What the sizes guarantee").
ServersFit ==
    \A n \in Names : \A i \in DOMAIN servers[n] :
        Fits(servers[n][i].sizes, servers[n][i].size, args[n].workers)

\* First fit, seen from the packing it leaves: a slot sits on a later server
\* only when no earlier open one could take it - then or ever after.
NoRoomBefore ==
    \A n \in Names : \A i \in DOMAIN servers[n] :
      ~servers[n][i].alone =>
        \A j \in DOMAIN servers[n] : i < j =>
            \A s \in servers[n][j].sizes :
                ~Fits(servers[n][i].sizes \cup {s}, servers[n][i].size, args[n].workers)

\* A refused serve opens no server and takes no room: every refusal precedes
\* placement (_serve).
RefusedTakesNothing ==
    \A n \in Names : \A i \in DOMAIN servers[n] :
        \A s \in servers[n][i].sizes : ~Refuses(PlanOf[s])

\* A service a plan was served with names its server as it is: plans that share
\* a server declare the same service, which starts once.
ServicesAgree ==
    \A s \in Slots : pc[PlanOf[s]] = "served" =>
        \A d \in declared :
            d.name = NameOf[s] /\ d.index = homes[s] =>
                d = Service(NameOf[s], homes[s])

\* A server once opened keeps its index, its size and the slots it has.
ServersKeep ==
    [][\A n \in Names : \A i \in DOMAIN servers[n] :
         /\ i \in DOMAIN servers'[n]
         /\ servers'[n][i].size = servers[n][i].size
         /\ servers'[n][i].alone = servers[n][i].alone
         /\ servers[n][i].sizes \subseteq servers'[n][i].sizes]_vars

\* A serve that asks for the lock ends, whoever else serves.
ServesEnd == \A b \in Plans : pc[b] = "lock" ~> pc[b] = "served"
=============================================================================
