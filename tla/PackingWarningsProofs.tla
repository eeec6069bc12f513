-------------------------- MODULE PackingWarningsProofs --------------------------
(* Proofs about Packing, for every set of plans, slots and contexts, and about    *)
(* UnrunWarnings, for any histograms, lines, fills and uses.                      *)
EXTENDS Packing, UnrunWarnings, SetInduction

-----------------------------------------------------------------------------
(* Packing: the size model *)

\* The packing's units are numbers.
LEMMA Units ==
    /\ MiB \in Nat /\ MiB # 0 /\ Base \in Nat /\ PerHist \in Nat /\ PerTask \in Nat
    /\ PerConn \in Nat
BY UnitsAssumption

LEMMA SlotsFinite == IsFiniteSet(Slots)
BY SlotsAssumption

\* What a slot stores and holds.
LEMMA SlotSizes ==
    ASSUME NEW s \in Slots
    PROVE  Stored(s) \in Nat /\ Held(s) \in Nat
<1>1. /\ SizeOf[s].chunks \in Nat /\ SizeOf[s].dense \in Nat /\ SizeOf[s].tasks \in Nat
  BY SlotsAssumption
<1>2. \A a, b \in Nat : a * b \in Nat
  OBVIOUS
<1>3. PerTask * SizeOf[s].tasks \in Nat /\ (SizeOf[s].chunks + 1) * SizeOf[s].dense \in Nat
  BY <1>1, <1>2, Units
<1>4. Stored(s) \in Nat
  BY <1>1, <1>2 DEF Stored
<1>5. Held(s) \in Nat
  BY <1>3, Units DEF Held
<1> QED
  BY <1>4, <1>5

\* The part of the prediction that is summed over slots.
LEMMA HeldSum ==
    ASSUME NEW S \in SUBSET Slots
    PROVE  MapThenSumSet(Held, S) = Totals([s \in Slots |-> Held(s)], Slots)[S]
<1> DEFINE v == [s \in Slots |-> Held(s)]
           w == [s \in S |-> Held(s)]
<1>1. v \in [Slots -> Nat] /\ w \in [S -> Nat] /\ \A s \in S : w[s] = v[s]
  BY SlotSizes
<1>2. MapThenSumSet(Held, S) = Total(w, S)
  BY ZenonT(30) DEF MapThenSumSet, MapThenFoldSet, Total, Totals, SumStep, AnyOf
<1> HIDE DEF v, w
<1>3. Total(w, S) = Totals(v, Slots)[S]
  BY ONLY <1>1, SlotsFinite, S \in SUBSET Slots, TotalsAgree
<1> QED
  BY <1>2, <1>3 DEF v

\* The prediction is a number, and more slots are never predicted to need less.
LEMMA PredictGrows ==
    ASSUME NEW T \in SUBSET Slots, NEW S \in SUBSET T, S # {}, NEW w \in Nat
    PROVE  /\ Predict2(S, w) \in Nat
           /\ Predict2(S, w) <= Predict2(T, w)
<1> DEFINE v == [s \in Slots |-> Held(s)]
           u == [s \in Slots |-> Stored(s)]
           M(A) == Max({Stored(s) : s \in A})
           H(A) == MapThenSumSet(Held, A)
<1>1. S \in SUBSET Slots
  OBVIOUS
<1>2. H(S) \in Nat /\ H(T) \in Nat /\ H(S) <= H(T)
  <2>1. v \in [Slots -> Nat]
    BY SlotSizes
  <2>2. H(S) = Totals(v, Slots)[S] /\ H(T) = Totals(v, Slots)[T]
    BY <1>1, HeldSum
  <2> HIDE DEF v
  <2>3. /\ Totals(v, Slots)[S] \in Nat /\ Totals(v, Slots)[T] \in Nat
        /\ Totals(v, Slots)[S] <= Totals(v, Slots)[T]
    BY ONLY <2>1, SlotsFinite, T \in SUBSET Slots, S \in SUBSET T, TotalsGrow
  <2> QED
    BY <2>2, <2>3
<1>3. M(S) \in Nat /\ M(T) \in Nat /\ M(S) <= M(T)
  <2>1. u \in [Slots -> Nat]
    BY SlotSizes
  <2>2. \A A \in SUBSET Slots : {Stored(s) : s \in A} = {u[s] : s \in A}
    OBVIOUS
  <2> HIDE DEF u
  <2>3. /\ Max({u[s] : s \in S}) \in Nat /\ Max({u[s] : s \in T}) \in Nat
        /\ Max({u[s] : s \in S}) <= Max({u[s] : s \in T})
    BY ONLY <2>1, SlotsFinite, T \in SUBSET Slots, S \in SUBSET T, S # {}, MaxOfImage
  <2> QED
    BY <1>1, <2>2, <2>3
<1> HIDE DEF M, H
<1> DEFINE c == FillA2 + FillB2 * w
<1>4. c \in Nat /\ PerConn * w \in Nat
  <2>1. \A a, b \in Nat : a * b \in Nat
    OBVIOUS
  <2> QED
    BY <2>1, Units DEF FillA2, FillB2
<1>5. c * M(S) \in Nat /\ c * M(T) \in Nat /\ c * M(S) <= c * M(T)
  <2>1. \A a, x, y \in Nat : x <= y => a * x \in Nat /\ a * y \in Nat /\ a * x <= a * y
    OBVIOUS
  <2> HIDE DEF c
  <2> QED
    BY <1>3, <1>4, <2>1
<1> DEFINE k == PerConn * w
           mS == c * M(S)
           mT == c * M(T)
<1>6. /\ Predict2(S, w) = 2 * (Base + H(S) + k) + mS
      /\ Predict2(T, w) = 2 * (Base + H(T) + k) + mT
  BY DEF Predict2, M, H
<1> HIDE DEF k, mS, mT
<1>7. k \in Nat /\ mS \in Nat /\ mT \in Nat /\ mS <= mT
  BY <1>4, <1>5 DEF k, mS, mT
<1> QED
  BY <1>2, <1>6, <1>7, Units

\* Where a set does not fit, no larger one does.
LEMMA FitsShrinks ==
    ASSUME NEW T \in SUBSET Slots, NEW S \in SUBSET T, S # {}, NEW w \in Nat,
           NEW size \in Nat, Fits(T, size, w)
    PROVE  Fits(S, size, w)
<1>1. Predict2(S, w) \in Nat /\ Predict2(T, w) \in Nat /\ Predict2(S, w) <= Predict2(T, w)
  <2>1. T # {} /\ T \in SUBSET T
    OBVIOUS
  <2> QED
    BY <2>1, PredictGrows
<1>2. 2 * size * MiB \in Nat
  <2>1. \A a, b \in Nat : 2 * a * b \in Nat
    OBVIOUS
  <2> QED
    BY <2>1, Units
<1> DEFINE z == 2 * size * MiB
<1> HIDE DEF z
<1> QED
  BY <1>1, <1>2 DEF Fits, z

\* Rounding up to whole units is enough of them.
LEMMA CeilDivEnough ==
    ASSUME NEW n \in Nat, NEW d \in Nat, d # 0
    PROVE  CeilDiv(n, d) \in Nat /\ n <= CeilDiv(n, d) * d
<1> DEFINE m == n + d - 1
           q == m \div d
<1>1. m \in Nat
  OBVIOUS
<1> HIDE DEF m
<1>2. q \in Nat /\ m = d * q + (m % d) /\ m % d \in 0 .. d - 1
  BY <1>1
<1> QED
  BY <1>1, <1>2 DEF m, CeilDiv

\* Of any slots there is one to place first.
LEMMA FirstOfIsOne ==
    ASSUME NEW S \in SUBSET Slots, S # {}
    PROVE  FirstOf(S) \in S
<1> DEFINE F == {A \in SUBSET Slots : A # {} => \E s \in A : \A t \in A \ {s} : Before(s, t)}
<1>1. {} \in F
  OBVIOUS
<1>2. ASSUME NEW A \in SUBSET Slots, NEW x \in Slots \ A, A \in F
      PROVE  A \cup {x} \in F
  <2>1. CASE A = {}
    BY <2>1
  <2>2. CASE A # {}
    <3>1. PICK s \in A : \A t \in A \ {s} : Before(s, t)
      BY <1>2, <2>2
    <3>2. \A t \in Slots : Stored(t) \in Nat /\ Rank[t] \in Nat
      BY SlotSizes, SlotsAssumption
    <3>3. \A t, u \in Slots : Rank[t] = Rank[u] => t = u
      BY SlotsAssumption
    <3>4. CASE Before(s, x)
      BY <3>1, <3>4
    <3>5. CASE ~Before(s, x)
      <4>1. Before(x, s)
        BY <1>2, <3>1, <3>2, <3>3, <3>5 DEF Before
      <4>2. \A t \in A : Before(x, t)
        BY <3>1, <3>2, <4>1 DEF Before
      <4> QED
        BY <4>2
    <3> QED
      BY <3>4, <3>5
  <2> QED
    BY <2>1, <2>2
<1>3. IsFiniteSet(S)
  BY SlotsFinite, FS_Subset
<1>4. \A A \in SUBSET S : \A x \in S \ A : A \in F => A \cup {x} \in F
  BY <1>2
<1>5. S \in F
  <2> HIDE DEF F
  <2> QED
    BY <1>1, <1>3, <1>4, FiniteSetInduction
<1> QED
  BY <1>5 DEF FirstOf

-----------------------------------------------------------------------------
(* The inductive invariant *)

Phases == {"new", "refused", "lock", "place", "put", "declare", "served"}
Server == [size : Nat, alone : BOOLEAN, sizes : SUBSET Slots]

TypeInv ==
    /\ lock \in Plans \cup {None}
    /\ args \in [Names -> Args \cup {None}]
    /\ servers \in [Names -> Seq(Server)]
    /\ pc \in [Plans -> Phases]
    /\ todo \in [Plans -> SUBSET Slots]
    /\ chosen \in [Plans -> Nat \cup {None}]
    /\ homes \in [Slots -> Nat \cup {None}]

\* Who places holds the lock, and who holds it places.
LockInv == \A b \in Plans : pc[b] \in {"place", "put"} <=> lock = b

\* What a serve that passed its refusals knows, and what it has to place.
PathInv ==
    \A b \in Plans :
        /\ todo[b] \subseteq SlotsOf(b)
        /\ pc[b] \notin {"place", "put"} => todo[b] = {}
        /\ pc[b] \notin {"new", "refused"} =>
            ~Refuses(b) /\ \A s \in SlotsOf(b) : args[NameOf[s]] # None

\* Until it writes, what a serve read of the servers holds: the server it chose has
\* room, or is new, and none before it has.
ChosenFor(b) ==
    LET s == FirstOf(todo[b])
        n == NameOf[s]
    IN  /\ todo[b] # {}
        /\ chosen[b] \in 1 .. Len(servers[n]) + 1
        /\ chosen[b] <= Len(servers[n]) => HasRoom(n, chosen[b], s)
        /\ \A i \in DOMAIN servers[n] : i < chosen[b] => ~HasRoom(n, i, s)
ChosenInv == \A b \in Plans : pc[b] = "put" => ChosenFor(b)

\* The slots a serve has placed.
Placed(s) == pc[PlanOf[s]] \notin {"new", "refused", "lock"} /\ s \notin todo[PlanOf[s]]

\* A placed slot has a server; a server has slots, all of them placed under its name.
HomesInv == \A s \in Slots : Placed(s) => homes[s] \in DOMAIN servers[NameOf[s]]
ServersInv ==
    \A n \in Names : \A i \in DOMAIN servers[n] :
        /\ servers[n][i].sizes # {}
        /\ \A s \in servers[n][i].sizes : NameOf[s] = n /\ Placed(s)

\* A declared service is its server as it is now.
DeclaredInv ==
    \A d \in declared :
        /\ d.name \in Names /\ d.index \in DOMAIN servers[d.name]
        /\ d = Service(d.name, d.index)

Inv ==
    /\ TypeInv /\ LockInv /\ PathInv /\ ChosenInv
    /\ HomesInv /\ ServersInv /\ DeclaredInv
    /\ ServersFit /\ NoRoomBefore

-----------------------------------------------------------------------------
(* What the steps do *)

\* A context's arguments, when there are some.
LEMMA ArgsFacts ==
    ASSUME Inv, NEW n \in Names, args[n] # None
    PROVE  /\ args[n].offer \in SUBSET Nat /\ IsFiniteSet(args[n].offer)
           /\ args[n].workers \in Nat
BY ArgsAssumption DEF Inv, TypeInv

\* The servers of a context are a sequence of servers; one that is there has arguments.
LEMMA ServerFacts ==
    ASSUME Inv, NEW n \in Names
    PROVE  /\ servers[n] \in Seq(Server) /\ Len(servers[n]) \in Nat
           /\ DOMAIN servers[n] = 1 .. Len(servers[n])
           /\ \A i \in DOMAIN servers[n] :
                /\ servers[n][i] \in Server
                /\ args[n] # None
<1>1. servers[n] \in Seq(Server)
  BY DEF Inv, TypeInv
<1>2. ASSUME NEW i \in DOMAIN servers[n] PROVE args[n] # None
  <2>1. PICK s \in servers[n][i].sizes : NameOf[s] = n /\ Placed(s)
    BY <1>2 DEF Inv, ServersInv
  <2>2. s \in Slots
    <3>1. servers[n][i] \in Server
      BY <1>1, <1>2
    <3> QED
      BY <2>1, <3>1 DEF Server
  <2>3. PlanOf[s] \in Plans /\ s \in SlotsOf(PlanOf[s])
    BY <2>2, SlotsAssumption DEF SlotsOf
  <2> QED
    BY <2>1, <2>3 DEF Inv, PathInv, Placed
<1> QED
  BY <1>1, <1>2

\* The slot a serve is about to place.
LEMMA NextSlot ==
    ASSUME Inv, NEW b \in Plans, todo[b] # {}
    PROVE  /\ FirstOf(todo[b]) \in todo[b] /\ FirstOf(todo[b]) \in Slots
           /\ PlanOf[FirstOf(todo[b])] = b
           /\ NameOf[FirstOf(todo[b])] \in Names
           /\ pc[b] \in {"place", "put"} /\ lock = b
           /\ args[NameOf[FirstOf(todo[b])]] # None
<1>1. todo[b] \in SUBSET Slots /\ todo[b] \subseteq SlotsOf(b)
  BY DEF Inv, TypeInv, PathInv
<1>2. FirstOf(todo[b]) \in todo[b]
  BY <1>1, FirstOfIsOne
<1>3. pc[b] \in {"place", "put"} /\ lock = b
  BY DEF Inv, PathInv, LockInv
<1> QED
  BY <1>1, <1>2, <1>3, SlotsAssumption DEF Inv, PathInv, SlotsOf

\* A new server is one, holds the slot it is opened for, and that only.
LEMMA OpenForFits ==
    ASSUME Inv, NEW n \in Names, NEW s \in Slots, args[n] # None
    PROVE  /\ OpenFor(n, s) \in Server /\ OpenFor(n, s).sizes = {s}
           /\ Fits({s}, OpenFor(n, s).size, args[n].workers)
<1> DEFINE w == args[n].workers
           holding == {z \in args[n].offer : Fits({s}, z, w)}
           P == Predict2({s}, w)
<1>1. args[n].offer \in SUBSET Nat /\ IsFiniteSet(args[n].offer) /\ w \in Nat
  BY ArgsFacts
<1> HIDE DEF w
<1>2. CASE holding # {}
  <2>1. Min(holding) \in holding
    <3>1. holding \in SUBSET Nat /\ IsFiniteSet(holding)
      BY <1>1, FS_Subset
    <3> HIDE DEF holding
    <3> QED
      BY <1>2, <3>1, MinMax
  <2>2. Min(holding) \in Nat /\ Fits({s}, Min(holding), w)
    BY <1>1, <2>1
  <2>3. OpenFor(n, s) = [size |-> Min(holding), alone |-> FALSE, sizes |-> {s}]
    BY <1>2 DEF OpenFor, w
  <2> HIDE DEF holding
  <2> QED
    BY <2>2, <2>3 DEF Server, w
<1>3. CASE holding = {}
  <2> DEFINE z == CeilDiv(P, 2 * MiB)
  <2>1. P \in Nat
    <3>1. {s} \in SUBSET Slots /\ {s} \in SUBSET {s} /\ {s} # {}
      OBVIOUS
    <3> QED
      BY <1>1, <3>1, PredictGrows
  <2>2. 2 * MiB \in Nat /\ 2 * MiB # 0
    BY Units
  <2> HIDE DEF P
  <2>3. z \in Nat /\ P <= z * (2 * MiB)
    BY <2>1, <2>2, CeilDivEnough
  <2>4. OpenFor(n, s) = [size |-> z, alone |-> TRUE, sizes |-> {s}]
    BY <1>3 DEF OpenFor, w, P
  <2> HIDE DEF z
  <2>5. z * (2 * MiB) = 2 * z * MiB
    BY <2>3, Units
  <2>6. Fits({s}, z, w)
    BY <2>3, <2>5 DEF Fits, P
  <2> QED
    BY <2>3, <2>4, <2>6 DEF Server, w
<1> QED
  BY <1>2, <1>3

\* Put writes one server: the chosen one, which has room, or a new one.
PutEffect(b, s, n, i) ==
    /\ s \in todo[b] /\ s \in Slots /\ PlanOf[s] = b /\ n \in Names
    /\ lock = b /\ args[n] # None
    /\ i \in 1 .. Len(servers[n]) + 1
    /\ servers' \in [Names -> Seq(Server)]
    /\ \A m \in Names : m # n => servers'[m] = servers[m]
    /\ DOMAIN servers'[n] = DOMAIN servers[n] \cup {i}
    /\ \A j \in DOMAIN servers[n] : j # i => servers'[n][j] = servers[n][j]
    /\ i \in DOMAIN servers[n] =>
         /\ HasRoom(n, i, s)
         /\ servers'[n][i] = Joined(servers[n][i], s)
    /\ i \notin DOMAIN servers[n] => servers'[n][i] = OpenFor(n, s)
    /\ \A j \in DOMAIN servers[n] : j < i => ~HasRoom(n, j, s)
    /\ homes' = [homes EXCEPT ![s] = i]
    /\ todo' = [todo EXCEPT ![b] = @ \ {s}]
    /\ pc' = [pc EXCEPT ![b] = "place"]
    /\ UNCHANGED <<lock, args, chosen, declared>>

LEMMA PutWrites ==
    ASSUME Inv, NEW b \in Plans, Put(b),
           NEW s, s = FirstOf(todo[b]), NEW n, n = NameOf[s], NEW i, i = chosen[b]
    PROVE  PutEffect(b, s, n, i)
<1>1. pc[b] = "put"
  BY DEF Put
<1>2. /\ todo[b] # {}
      /\ i \in 1 .. Len(servers[n]) + 1
      /\ i <= Len(servers[n]) => HasRoom(n, i, s)
      /\ \A j \in DOMAIN servers[n] : j < i => ~HasRoom(n, j, s)
  BY <1>1 DEF Inv, ChosenInv, ChosenFor
<1>3. s \in todo[b] /\ s \in Slots /\ PlanOf[s] = b /\ n \in Names /\ lock = b /\ args[n] # None
  BY <1>2, NextSlot
<1>4. /\ servers[n] \in Seq(Server) /\ Len(servers[n]) \in Nat
      /\ DOMAIN servers[n] = 1 .. Len(servers[n])
  BY <1>3, ServerFacts
<1>5. servers' = [servers EXCEPT ![n] =
                IF i <= Len(servers[n]) THEN [servers[n] EXCEPT ![i] = Joined(servers[n][i], s)]
                ELSE Append(servers[n], OpenFor(n, s))]
  BY DEF Put
<1>6. servers \in [Names -> Seq(Server)]
  BY DEF Inv, TypeInv
<1>7. OpenFor(n, s) \in Server
  BY <1>3, OpenForFits
<1>8. CASE i <= Len(servers[n])
  <2> DEFINE t == [servers[n] EXCEPT ![i] = Joined(servers[n][i], s)]
  <2>1. i \in DOMAIN servers[n] /\ servers[n][i] \in Server
    BY <1>2, <1>4, <1>8
  <2>2. Joined(servers[n][i], s) \in Server
    BY <1>3, <2>1 DEF Server, Joined
  <2>3. t \in Seq(Server) /\ DOMAIN t = DOMAIN servers[n]
    BY <1>4, <2>1, <2>2
  <2>4. t[i] = Joined(servers[n][i], s)
    BY <2>1
  <2>5. \A j \in DOMAIN servers[n] : j # i => t[j] = servers[n][j]
    OBVIOUS
  <2>6. servers' = [servers EXCEPT ![n] = t]
    BY <1>3, <1>5, <1>6, <1>8
  <2> HIDE DEF t
  <2>7. servers' \in [Names -> Seq(Server)] /\ servers'[n] = t
    BY <1>3, <1>6, <2>3, <2>6
  <2>8. \A m \in Names : m # n => servers'[m] = servers[m]
    BY <1>6, <2>6
  <2>9. DOMAIN servers'[n] = DOMAIN servers[n] \cup {i}
    BY <2>1, <2>3, <2>7
  <2> QED
    BY <1>2, <1>3, <1>8, <2>1, <2>4, <2>5, <2>7, <2>8, <2>9 DEF Put, PutEffect
<1>9. CASE ~(i <= Len(servers[n]))
  <2> DEFINE t == Append(servers[n], OpenFor(n, s))
  <2>1. i = Len(servers[n]) + 1 /\ i \notin DOMAIN servers[n]
    BY <1>2, <1>4, <1>9
  <2>2. /\ t \in Seq(Server) /\ DOMAIN t = DOMAIN servers[n] \cup {i}
        /\ t[i] = OpenFor(n, s)
        /\ \A j \in DOMAIN servers[n] : t[j] = servers[n][j]
    BY <1>4, <1>7, <2>1
  <2>3. servers' = [servers EXCEPT ![n] = t]
    BY <1>3, <1>5, <1>6, <1>9
  <2> HIDE DEF t
  <2>4. servers' \in [Names -> Seq(Server)] /\ servers'[n] = t
    BY <1>3, <1>6, <2>2, <2>3
  <2>5. \A m \in Names : m # n => servers'[m] = servers[m]
    BY <1>6, <2>3
  <2> QED
    BY <1>2, <1>3, <2>1, <2>2, <2>4, <2>5 DEF Put, PutEffect
<1> QED
  BY <1>8, <1>9

-----------------------------------------------------------------------------
(* Every step keeps the invariant *)

\* The invariant holds at the start.
LEMMA InitInv ==
    ASSUME Init
    PROVE  Inv
<1>1. \A n \in Names : servers[n] = <<>> /\ DOMAIN servers[n] = {}
  BY DEF Init
<1>2. TypeInv
  BY DEF Init, TypeInv, Phases
<1>3. LockInv /\ PathInv /\ ChosenInv
  BY NoneAssumption DEF Init, LockInv, PathInv, ChosenInv
<1>4. HomesInv
  BY SlotsAssumption DEF Init, HomesInv, Placed
<1>5. ServersInv /\ ServersFit /\ NoRoomBefore
  BY <1>1 DEF ServersInv, ServersFit, NoRoomBefore
<1>6. DeclaredInv
  BY DEF Init, DeclaredInv
<1> QED
  BY <1>2, <1>3, <1>4, <1>5, <1>6 DEF Inv

\* A new context's arguments are set only while its name has no server.
LEMMA NewContextKeeps ==
    ASSUME Inv, NEW n \in Names, NEW g \in Args, NewContext(n, g)
    PROVE  Inv'
<1>1. /\ (args' = [args EXCEPT ![n] = g] /\ args[n] = None) \/ args' = args
      /\ UNCHANGED <<lock, servers, pc, todo, chosen, homes, declared>>
  BY DEF NewContext
<1>2. \A m \in Names : args[m] # None => args'[m] = args[m]
  BY <1>1 DEF Inv, TypeInv
<1>3. TypeInv'
  BY <1>1 DEF Inv, TypeInv
<1>4. \A m \in Names : \A i \in DOMAIN servers[m] : args'[m] = args[m]
  BY <1>2, ServerFacts
<1>5. LockInv' /\ HomesInv' /\ ServersInv' /\ DeclaredInv'
  BY <1>1 DEF Inv, LockInv, HomesInv, ServersInv, Placed, DeclaredInv, Service
<1>6. PathInv'
  <2>1. \A s \in Slots : args[NameOf[s]] # None => args'[NameOf[s]] # None
    BY <1>2, SlotsAssumption
  <2> QED
    BY <1>1, <2>1 DEF Inv, PathInv, SlotsOf, Refuses
<1>7. ChosenInv'
  <2> SUFFICES ASSUME NEW b \in Plans, pc[b] = "put",
                      NEW s, s = FirstOf(todo[b]), NEW m, m = NameOf[s]
               PROVE  /\ todo[b] # {}
                      /\ chosen[b] \in 1 .. Len(servers[m]) + 1
                      /\ chosen[b] <= Len(servers[m]) => HasRoom(m, chosen[b], s)'
                      /\ \A i \in DOMAIN servers[m] : i < chosen[b] => ~HasRoom(m, i, s)'
    <3>1. UNCHANGED <<servers, todo, chosen>> /\ pc' = pc
      BY <1>1
    <3> QED
      BY <3>1, ZenonT(30) DEF ChosenInv, ChosenFor, HasRoom
  <2>1. /\ todo[b] # {}
        /\ chosen[b] \in 1 .. Len(servers[m]) + 1
        /\ chosen[b] <= Len(servers[m]) => HasRoom(m, chosen[b], s)
        /\ \A i \in DOMAIN servers[m] : i < chosen[b] => ~HasRoom(m, i, s)
    BY DEF Inv, ChosenInv, ChosenFor
  <2>2. args'[m] = args[m]
    BY <1>2, <2>1, NextSlot
  <2> QED
    BY <1>1, <2>1, <2>2 DEF HasRoom
<1>8. ServersFit' /\ NoRoomBefore'
  BY <1>1, <1>4 DEF Inv, ServersFit, NoRoomBefore
<1> QED
  BY <1>3, <1>5, <1>6, <1>7, <1>8 DEF Inv

\* A step that changes neither the servers nor the arguments, and places no slot, keeps
\* what holds of the servers.
LEMMA ServersFrame ==
    ASSUME Inv, UNCHANGED <<args, servers, homes>>, \A s \in Slots : Placed(s)' <=> Placed(s)
    PROVE  HomesInv' /\ ServersInv' /\ ServersFit' /\ NoRoomBefore'
<1>1. HomesInv'
  BY DEF Inv, HomesInv
<1>2. ServersInv'
  <2>1. \A n \in Names : \A i \in DOMAIN servers[n] : servers[n][i].sizes \subseteq Slots
    BY ServerFacts DEF Server
  <2> QED
    BY <2>1 DEF Inv, ServersInv
<1>3. ServersFit' /\ NoRoomBefore'
  BY DEF Inv, ServersFit, NoRoomBefore
<1> QED
  BY <1>1, <1>2, <1>3

\* Nor what a serve has chosen, unless it is that serve's step.
LEMMA ChosenFrame ==
    ASSUME Inv, UNCHANGED <<args, servers>>,
           \A c \in Plans : pc'[c] = "put" =>
               pc[c] = "put" /\ todo'[c] = todo[c] /\ chosen'[c] = chosen[c]
    PROVE  ChosenInv'
<1> SUFFICES ASSUME NEW c \in Plans, pc'[c] = "put" PROVE ChosenFor(c)'
  BY DEF ChosenInv
<1>1. ChosenFor(c) /\ todo'[c] = todo[c] /\ chosen'[c] = chosen[c]
  BY DEF Inv, ChosenInv
<1> QED
  BY <1>1 DEF ChosenFor, HasRoom

\* Serve keeps the invariant.
LEMMA ServeKeeps ==
    ASSUME Inv, NEW b \in Plans, Serve(b)
    PROVE  Inv'
<1>1. /\ pc[b] = "new" /\ pc' = [pc EXCEPT ![b] = IF Refuses(b) THEN "refused" ELSE "lock"]
      /\ \A s \in SlotsOf(b) : args[NameOf[s]] # None
      /\ UNCHANGED <<lock, args, servers, todo, chosen, homes, declared>>
  BY DEF Serve
<1>2. TypeInv'
  BY <1>1 DEF Inv, TypeInv, Phases
<1>3. \A c \in Plans : pc'[c] = IF c = b THEN IF Refuses(b) THEN "refused" ELSE "lock"
                                ELSE pc[c]
  BY <1>1 DEF Inv, TypeInv
<1>4. LockInv'
  BY <1>1, <1>3 DEF Inv, LockInv
<1>5. PathInv'
  BY <1>1, <1>3 DEF Inv, PathInv
<1>6. ChosenInv'
  BY <1>1, <1>3, ChosenFrame
<1>7. \A s \in Slots : Placed(s)' <=> Placed(s)
  BY <1>1, <1>3, SlotsAssumption DEF Placed
<1>8. DeclaredInv'
  BY <1>1 DEF Inv, DeclaredInv, Service
<1> QED
  BY <1>1, <1>2, <1>4, <1>5, <1>6, <1>7, <1>8, ServersFrame DEF Inv

\* Enter keeps the invariant.
LEMMA EnterKeeps ==
    ASSUME Inv, NEW b \in Plans, Enter(b)
    PROVE  Inv'
<1>1. /\ pc[b] = "lock" /\ lock = None /\ lock' = b
      /\ pc' = [pc EXCEPT ![b] = "place"]
      /\ todo' = [todo EXCEPT ![b] = SlotsOf(b)]
      /\ UNCHANGED <<args, servers, chosen, homes, declared>>
  BY DEF Enter
<1>2. TypeInv'
  BY <1>1 DEF Inv, TypeInv, Phases, SlotsOf
<1>3. \A c \in Plans : /\ pc'[c] = IF c = b THEN "place" ELSE pc[c]
                       /\ todo'[c] = IF c = b THEN SlotsOf(b) ELSE todo[c]
  BY <1>1 DEF Inv, TypeInv
<1>4. LockInv'
  BY <1>1, <1>3, NoneAssumption DEF Inv, LockInv
<1>5. PathInv'
  BY <1>1, <1>3 DEF Inv, PathInv
<1>6. ChosenInv'
  BY <1>1, <1>3, ChosenFrame
<1>7. \A s \in Slots : Placed(s)' <=> Placed(s)
  <2> SUFFICES ASSUME NEW s \in Slots PROVE Placed(s)' <=> Placed(s)
    OBVIOUS
  <2>1. PlanOf[s] \in Plans
    BY SlotsAssumption
  <2>2. CASE PlanOf[s] = b
    <3>1. s \in SlotsOf(b)
      BY <2>2 DEF SlotsOf
    <3> QED
      BY <1>1, <1>3, <2>1, <2>2, <3>1 DEF Placed
  <2>3. CASE PlanOf[s] # b
    BY <1>3, <2>1, <2>3 DEF Placed
  <2> QED
    BY <2>2, <2>3
<1>8. DeclaredInv'
  BY <1>1 DEF Inv, DeclaredInv, Service
<1> QED
  BY <1>1, <1>2, <1>4, <1>5, <1>6, <1>7, <1>8, ServersFrame DEF Inv

\* Choose keeps the invariant: what it chose has room, or is new.
LEMMA ChooseKeeps ==
    ASSUME Inv, NEW b \in Plans, Choose(b)
    PROVE  Inv'
<1> DEFINE s == FirstOf(todo[b])
           n == NameOf[s]
           roomy == Roomy(n, s)
           i == IF roomy # {} THEN Min(roomy) ELSE Len(servers[n]) + 1
<1>1. /\ pc[b] = "place" /\ todo[b] # {}
      /\ chosen' = [chosen EXCEPT ![b] = i]
      /\ pc' = [pc EXCEPT ![b] = "put"]
      /\ UNCHANGED <<lock, args, servers, todo, homes, declared>>
  BY DEF Choose
<1>2. n \in Names
  BY <1>1, NextSlot
<1>3. /\ i \in 1 .. Len(servers[n]) + 1
      /\ i <= Len(servers[n]) => HasRoom(n, i, s)
      /\ \A j \in DOMAIN servers[n] : j < i => ~HasRoom(n, j, s)
  <2>1. DOMAIN servers[n] = 1 .. Len(servers[n]) /\ Len(servers[n]) \in Nat
    BY <1>2, ServerFacts
  <2>2. roomy = {j \in DOMAIN servers[n] : HasRoom(n, j, s)}
    BY DEF Roomy
  <2> HIDE DEF s, n, roomy
  <2>3. CASE roomy = {}
    BY <2>1, <2>2, <2>3
  <2>4. CASE roomy # {}
    <3>1. roomy \in SUBSET Nat /\ IsFiniteSet(roomy)
      <4>1. IsFiniteSet(1 .. Len(servers[n])) /\ roomy \in SUBSET (1 .. Len(servers[n]))
        BY <2>1, <2>2, FS_Interval
      <4>2. 1 .. Len(servers[n]) \in SUBSET Nat
        BY <2>1
      <4> QED
        BY <4>1, <4>2, FS_Subset
    <3>2. Min(roomy) \in roomy /\ \A k \in roomy : Min(roomy) <= k
      BY <2>4, <3>1, MinMax
    <3>3. \A j \in DOMAIN servers[n] : j < Min(roomy) => j \notin roomy
      <4> SUFFICES ASSUME NEW j \in roomy, j < Min(roomy) PROVE FALSE
        OBVIOUS
      <4>1. Min(roomy) <= j /\ Min(roomy) \in Nat /\ j \in Nat
        BY <3>1, <3>2
      <4> QED
        BY <4>1
    <3> QED
      BY <2>1, <2>2, <2>4, <3>2, <3>3
  <2> QED
    BY <2>3, <2>4
<1> HIDE DEF i
<1>4. i \in Nat
  BY <1>2, <1>3, ServerFacts
<1>5. TypeInv'
  BY <1>1, <1>4 DEF Inv, TypeInv, Phases
<1>6. \A c \in Plans : /\ pc'[c] = IF c = b THEN "put" ELSE pc[c]
                       /\ chosen'[c] = IF c = b THEN i ELSE chosen[c]
  BY <1>1 DEF Inv, TypeInv
<1>7. LockInv' /\ PathInv'
  BY <1>1, <1>6 DEF Inv, LockInv, PathInv
<1>8. ChosenInv'
  <2> SUFFICES ASSUME NEW c \in Plans, pc'[c] = "put" PROVE ChosenFor(c)'
    BY DEF ChosenInv
  <2>1. CASE c = b
    <3>1. ChosenFor(b)' = (/\ todo[b] # {}
                           /\ i \in 1 .. Len(servers[n]) + 1
                           /\ i <= Len(servers[n]) => HasRoom(n, i, s)
                           /\ \A j \in DOMAIN servers[n] : j < i => ~HasRoom(n, j, s))
      BY <1>1, <1>6, ZenonT(30) DEF ChosenFor, HasRoom
    <3> QED
      BY <1>1, <1>3, <2>1, <3>1
  <2>2. CASE c # b
    <3>1. ChosenFor(c) /\ todo'[c] = todo[c] /\ chosen'[c] = chosen[c]
      BY <1>1, <1>6, <2>2 DEF Inv, ChosenInv
    <3> QED
      BY <1>1, <3>1 DEF ChosenFor, HasRoom
  <2> QED
    BY <2>1, <2>2
<1>9. \A t \in Slots : Placed(t)' <=> Placed(t)
  BY <1>1, <1>6, SlotsAssumption DEF Placed
<1>10. DeclaredInv'
  BY <1>1 DEF Inv, DeclaredInv, Service
<1> QED
  BY <1>1, <1>5, <1>7, <1>8, <1>9, <1>10, ServersFrame DEF Inv

\* Leave keeps the invariant.
LEMMA LeaveKeeps ==
    ASSUME Inv, NEW b \in Plans, Leave(b)
    PROVE  Inv'
<1>1. /\ pc[b] = "place" /\ todo[b] = {} /\ lock' = None
      /\ pc' = [pc EXCEPT ![b] = "declare"]
      /\ UNCHANGED <<args, servers, todo, chosen, homes, declared>>
  BY DEF Leave
<1>2. TypeInv'
  BY <1>1 DEF Inv, TypeInv, Phases
<1>3. \A c \in Plans : pc'[c] = IF c = b THEN "declare" ELSE pc[c]
  BY <1>1 DEF Inv, TypeInv
<1>4. LockInv'
  BY <1>1, <1>3, NoneAssumption DEF Inv, LockInv
<1>5. PathInv'
  BY <1>1, <1>3 DEF Inv, PathInv
<1>6. ChosenInv'
  BY <1>1, <1>3, ChosenFrame
<1>7. \A s \in Slots : Placed(s)' <=> Placed(s)
  BY <1>1, <1>3, SlotsAssumption DEF Placed
<1>8. DeclaredInv'
  BY <1>1 DEF Inv, DeclaredInv, Service
<1> QED
  BY <1>1, <1>2, <1>4, <1>5, <1>6, <1>7, <1>8, ServersFrame DEF Inv

\* Declare keeps the invariant: the plan's slots all have servers.
LEMMA DeclareKeeps ==
    ASSUME Inv, NEW b \in Plans, Declare(b)
    PROVE  Inv'
<1>1. /\ pc[b] = "declare"
      /\ declared' = declared \cup {Service(NameOf[s], homes[s]) : s \in SlotsOf(b)}
      /\ pc' = [pc EXCEPT ![b] = "served"]
      /\ UNCHANGED <<lock, args, servers, todo, chosen, homes>>
  BY DEF Declare
<1>2. TypeInv'
  BY <1>1 DEF Inv, TypeInv, Phases
<1>3. \A c \in Plans : pc'[c] = IF c = b THEN "served" ELSE pc[c]
  BY <1>1 DEF Inv, TypeInv
<1>4. LockInv'
  BY <1>1, <1>3 DEF Inv, LockInv
<1>5. PathInv'
  BY <1>1, <1>3 DEF Inv, PathInv
<1>6. ChosenInv'
  BY <1>1, <1>3, ChosenFrame
<1>7. \A s \in Slots : Placed(s)' <=> Placed(s)
  BY <1>1, <1>3, SlotsAssumption DEF Placed
<1>8. DeclaredInv'
  <2>1. ASSUME NEW s \in SlotsOf(b)
        PROVE  NameOf[s] \in Names /\ homes[s] \in DOMAIN servers[NameOf[s]]
    <3>1. s \in Slots /\ PlanOf[s] = b /\ todo[b] = {} /\ NameOf[s] \in Names
      BY <1>1, SlotsAssumption DEF SlotsOf, Inv, PathInv
    <3>2. Placed(s)
      BY <1>1, <3>1 DEF Placed
    <3> QED
      BY <3>1, <3>2 DEF Inv, HomesInv
  <2>2. \A m, k : Service(m, k)' = Service(m, k)
    BY <1>1 DEF Service
  <2>3. \A m, k : Service(m, k).name = m /\ Service(m, k).index = k
    BY DEF Service
  <2>4. ASSUME NEW d \in declared'
        PROVE  /\ d.name \in Names /\ d.index \in DOMAIN servers[d.name]
               /\ d = Service(d.name, d.index)
    <3>1. CASE d \in declared
      BY <3>1 DEF Inv, DeclaredInv
    <3>2. CASE d \notin declared
      <4>1. PICK s \in SlotsOf(b) : d = Service(NameOf[s], homes[s])
        BY <1>1, <3>2
      <4> QED
        BY <2>1, <2>3, <4>1
    <3> QED
      BY <3>1, <3>2
  <2> QED
    BY <1>1, <2>2, <2>4 DEF DeclaredInv
<1> QED
  BY <1>1, <1>2, <1>4, <1>5, <1>6, <1>7, <1>8, ServersFrame DEF Inv

\* A server stays where it is, of the size it is, and keeps its slots.
Kept ==
    \A n \in Names : \A i \in DOMAIN servers[n] :
        /\ i \in DOMAIN servers'[n]
        /\ servers'[n][i].size = servers[n][i].size
        /\ servers'[n][i].alone = servers[n][i].alone
        /\ servers[n][i].sizes \subseteq servers'[n][i].sizes

LEMMA PutKeepsServers ==
    ASSUME Inv, NEW b \in Plans, Put(b)
    PROVE  Kept
<1> DEFINE s == FirstOf(todo[b])
           n == NameOf[s]
           i == chosen[b]
<1>1. PutEffect(b, s, n, i)
  BY PutWrites
<1>2. n \in Names /\ (i \in DOMAIN servers[n] => servers[n][i] \in Server)
  BY <1>1, ServerFacts DEF PutEffect
<1> HIDE DEF s, n, i
<1>3. ASSUME NEW m \in Names, NEW j \in DOMAIN servers[m]
      PROVE  /\ j \in DOMAIN servers'[m]
             /\ servers'[m][j].size = servers[m][j].size
             /\ servers'[m][j].alone = servers[m][j].alone
             /\ servers[m][j].sizes \subseteq servers'[m][j].sizes
  <2>1. CASE m # n \/ j # i
    BY <1>1, <1>3, <2>1 DEF PutEffect
  <2>2. CASE m = n /\ j = i
    BY <1>1, <1>2, <1>3, <2>2 DEF Joined, Server, PutEffect
  <2> QED
    BY <2>1, <2>2
<1> QED
  BY <1>3 DEF Kept

\* Put keeps the invariant: the server it writes still fits, and the servers before it
\* have still no room for the slots after them.
LEMMA PutKeeps ==
    ASSUME Inv, NEW b \in Plans, Put(b)
    PROVE  Inv'
<1> DEFINE s == FirstOf(todo[b])
           n == NameOf[s]
           i == chosen[b]
           w == args[n].workers
<1>1. /\ s \in todo[b] /\ s \in Slots /\ PlanOf[s] = b /\ n \in Names
      /\ lock = b /\ args[n] # None
      /\ i \in 1 .. Len(servers[n]) + 1
      /\ servers' \in [Names -> Seq(Server)]
      /\ \A m \in Names : m # n => servers'[m] = servers[m]
      /\ DOMAIN servers'[n] = DOMAIN servers[n] \cup {i}
      /\ \A j \in DOMAIN servers[n] : j # i => servers'[n][j] = servers[n][j]
      /\ i \in DOMAIN servers[n] =>
            /\ HasRoom(n, i, s)
            /\ servers'[n][i] = Joined(servers[n][i], s)
      /\ i \notin DOMAIN servers[n] => servers'[n][i] = OpenFor(n, s)
      /\ \A j \in DOMAIN servers[n] : j < i => ~HasRoom(n, j, s)
      /\ homes' = [homes EXCEPT ![s] = i]
      /\ todo' = [todo EXCEPT ![b] = @ \ {s}]
      /\ pc' = [pc EXCEPT ![b] = "place"]
      /\ UNCHANGED <<lock, args, chosen, declared>>
  BY PutWrites DEF PutEffect
<1>2. Kept /\ pc[b] = "put"
  BY PutKeepsServers DEF Put
<1>3. /\ OpenFor(n, s) \in Server /\ OpenFor(n, s).sizes = {s}
      /\ Fits({s}, OpenFor(n, s).size, w)
  BY <1>1, OpenForFits
<1>4. /\ DOMAIN servers[n] = 1 .. Len(servers[n]) /\ Len(servers[n]) \in Nat
      /\ \A j \in DOMAIN servers[n] : servers[n][j] \in Server
      /\ i \in Nat /\ w \in Nat
  BY <1>1, ServerFacts, ArgsFacts
<1> HIDE DEF s, n, i, w
<1>5. \A c \in Plans : /\ pc'[c] = IF c = b THEN "place" ELSE pc[c]
                       /\ todo'[c] = IF c = b THEN todo[b] \ {s} ELSE todo[c]
  BY <1>1 DEF Inv, TypeInv
<1>6. TypeInv'
  BY <1>1, <1>4 DEF Inv, TypeInv, Phases
<1>7. LockInv'
  BY <1>1, <1>2, <1>5 DEF Inv, LockInv
<1>8. PathInv'
  BY <1>1, <1>2, <1>5 DEF Inv, PathInv
<1>9. ChosenInv'
  BY <1>1, <1>5 DEF Inv, LockInv, ChosenInv
<1>10. \A t \in Slots : (t = s => Placed(t)') /\ (t # s => (Placed(t)' <=> Placed(t)))
  BY <1>1, <1>2, <1>5, SlotsAssumption DEF Placed
<1>11. HomesInv'
  <2> SUFFICES ASSUME NEW t \in Slots, Placed(t)'
               PROVE  homes'[t] \in DOMAIN servers'[NameOf[t]]
    BY DEF HomesInv
  <2>1. CASE t = s
    BY <1>1, <2>1 DEF n, Inv, TypeInv
  <2>2. CASE t # s
    <3>1. homes[t] \in DOMAIN servers[NameOf[t]] /\ NameOf[t] \in Names
      BY <1>10, <2>2, SlotsAssumption DEF Inv, HomesInv
    <3> QED
      BY <1>1, <1>2, <2>2, <3>1 DEF Kept, Inv, TypeInv
  <2> QED
    BY <2>1, <2>2
<1>12. ServersInv'
  <2> SUFFICES ASSUME NEW m \in Names, NEW j \in DOMAIN servers'[m]
               PROVE  /\ servers'[m][j].sizes # {}
                      /\ \A t \in servers'[m][j].sizes : NameOf[t] = m /\ Placed(t)'
    BY DEF ServersInv
  <2>1. ASSUME j \in DOMAIN servers[m]
        PROVE  /\ servers[m][j].sizes # {} /\ servers[m][j].sizes \subseteq Slots
               /\ \A t \in servers[m][j].sizes : NameOf[t] = m /\ Placed(t)'
    <3>1. servers[m][j] \in Server
      BY <2>1, ServerFacts
    <3> QED
      BY <1>10, <2>1, <3>1 DEF Inv, ServersInv, Server
  <2>2. CASE (m # n \/ j # i) /\ j \in DOMAIN servers[m]
    BY <1>1, <2>1, <2>2
  <2>3. CASE m = n /\ j = i /\ j \in DOMAIN servers[m]
    <3>1. servers'[m][j].sizes = servers[m][j].sizes \cup {s}
      BY <1>1, <1>4, <2>3 DEF Joined, Server
    <3> QED
      BY <1>1, <1>10, <2>1, <2>3, <3>1 DEF n
  <2>4. CASE j \notin DOMAIN servers[m]
    <3>1. m = n /\ j = i /\ servers'[m][j].sizes = {s}
      BY <1>1, <1>3, <2>4
    <3> QED
      BY <1>1, <1>10, <3>1 DEF n
  <2> QED
    BY <2>2, <2>3, <2>4
<1>13. DeclaredInv'
  <2>1. \A m \in Names : \A j \in DOMAIN servers[m] :
            j \in DOMAIN servers'[m] /\ Service(m, j)' = Service(m, j)
    BY <1>2 DEF Kept, Service
  <2> QED
    BY <1>1, <2>1 DEF Inv, DeclaredInv
<1>14. ServersFit'
  <2> SUFFICES ASSUME NEW m \in Names, NEW j \in DOMAIN servers'[m]
               PROVE  Fits(servers'[m][j].sizes, servers'[m][j].size, args[m].workers)
    BY <1>1 DEF ServersFit
  <2>1. CASE (m # n \/ j # i) /\ j \in DOMAIN servers[m]
    BY <1>1, <2>1 DEF Inv, ServersFit
  <2>2. CASE m = n /\ j = i /\ j \in DOMAIN servers[m]
    <3>1. /\ servers'[m][j].sizes = servers[m][j].sizes \cup {s}
          /\ servers'[m][j].size = servers[m][j].size
      BY <1>1, <1>4, <2>2 DEF Joined, Server
    <3> QED
      BY <1>1, <2>2, <3>1 DEF HasRoom
  <2>3. CASE j \notin DOMAIN servers[m]
    BY <1>1, <1>3, <2>3 DEF w
  <2> QED
    BY <2>1, <2>2, <2>3
<1>15. NoRoomBefore'
  <2> SUFFICES ASSUME NEW m \in Names, NEW k \in DOMAIN servers'[m],
                      ~servers'[m][k].alone,
                      NEW j \in DOMAIN servers'[m], k < j,
                      NEW t \in servers'[m][j].sizes
               PROVE  ~Fits(servers'[m][k].sizes \cup {t}, servers'[m][k].size,
                            args[m].workers)
    BY <1>1 DEF NoRoomBefore
  <2>1. CASE m # n
    BY <1>1, <2>1 DEF Inv, NoRoomBefore
  <2>2. CASE m = n
    <3>1. k \in DOMAIN servers[n]
      BY <1>1, <1>4, <2>2
    <3>2. servers[n][k] \in Server /\ servers'[n][k] \in Server
      <4>1. servers'[n] \in Seq(Server)
        BY <1>1
      <4>2. servers'[n][k] \in Server
        BY <2>2, <4>1
      <4> QED
        BY <1>4, <3>1, <4>2
    <3>3. /\ servers'[n][k].size = servers[n][k].size
          /\ servers'[n][k].alone = servers[n][k].alone
          /\ servers[n][k].sizes \subseteq servers'[n][k].sizes
      BY <1>1, <1>2, <3>1 DEF Kept
    <3>4. CASE j \in DOMAIN servers[n] /\ t \in servers[n][j].sizes
      <4>1. ~Fits(servers[n][k].sizes \cup {t}, servers[n][k].size, w)
        BY <2>2, <3>1, <3>3, <3>4 DEF w, Inv, NoRoomBefore
      <4>2. t \in Slots
        BY <1>4, <3>4 DEF Server
      <4> DEFINE A == servers[n][k].sizes \cup {t}
                 B == servers'[n][k].sizes \cup {t}
      <4>3. B \in SUBSET Slots /\ A \in SUBSET B /\ A # {} /\ servers[n][k].size \in Nat
        BY <3>2, <3>3, <4>2 DEF Server
      <4> HIDE DEF A, B
      <4>4. ~Fits(B, servers[n][k].size, w)
        <5> SUFFICES ASSUME Fits(B, servers[n][k].size, w) PROVE FALSE
          OBVIOUS
        <5>1. Fits(A, servers[n][k].size, w)
          BY <1>4, <4>3, FitsShrinks
        <5> QED
          BY <4>1, <5>1 DEF A
      <4> QED
        BY <2>2, <3>3, <4>4 DEF B, w
    <3>5. CASE ~(j \in DOMAIN servers[n] /\ t \in servers[n][j].sizes)
      <4>1. j = i /\ t = s
        <5>1. j = i
          BY <1>1, <2>2, <3>5
        <5>2. CASE i \in DOMAIN servers[n]
          BY <1>1, <1>4, <2>2, <3>5, <5>1, <5>2 DEF Joined, Server
        <5>3. CASE i \notin DOMAIN servers[n]
          BY <1>1, <1>3, <2>2, <5>1, <5>3
        <5> QED
          BY <5>1, <5>2, <5>3
      <4>2. k # i /\ servers'[n][k] = servers[n][k] /\ ~HasRoom(n, k, s)
        BY <1>1, <1>4, <3>1, <4>1
      <4> QED
        BY <2>2, <4>1, <4>2 DEF HasRoom
    <3> QED
      BY <3>4, <3>5
  <2> QED
    BY <2>1, <2>2
<1> QED
  BY <1>6, <1>7, <1>8, <1>9, <1>11, <1>12, <1>13, <1>14, <1>15 DEF Inv

\* A step that changes nothing keeps the invariant.
LEMMA StutterKeeps ==
    ASSUME Inv, UNCHANGED vars
    PROVE  Inv'
<1> USE DEF vars
<1>1. TypeInv' /\ LockInv' /\ PathInv'
  BY DEF Inv, TypeInv, LockInv, PathInv
<1>2. ChosenInv'
  BY ChosenFrame
<1>3. HomesInv' /\ ServersInv' /\ ServersFit' /\ NoRoomBefore'
  BY ServersFrame DEF Placed
<1>4. DeclaredInv'
  BY DEF Inv, DeclaredInv, Service
<1> QED
  BY <1>1, <1>2, <1>3, <1>4 DEF Inv

\* Every step keeps the invariant.
LEMMA NextKeeps ==
    ASSUME Inv, [Next]_vars
    PROVE  Inv'
<1>1. CASE \E n \in Names, g \in Args : NewContext(n, g)
  BY <1>1, NewContextKeeps
<1>2. ASSUME NEW b \in Plans, Step(b) PROVE Inv'
  BY <1>2, ServeKeeps, EnterKeeps, ChooseKeeps, PutKeeps, LeaveKeeps, DeclareKeeps DEF Step
<1>3. CASE Over
  BY <1>3, StutterKeeps DEF Over
<1>4. CASE UNCHANGED vars
  BY <1>4, StutterKeeps
<1> QED
  BY <1>1, <1>2, <1>3, <1>4 DEF Next

-----------------------------------------------------------------------------
(* Theorems *)

\* The packing invariant: of the serves, one places at a time, and what it read of the
\* servers holds until it writes (_LOCK around _Pack.place).
THEOREM PackingInvariant == Spec => []Inv
<1>1. Init => Inv
  BY InitInv
<1>2. Inv /\ [Next]_vars => Inv'
  BY NextKeeps
<1> QED
  BY <1>1, <1>2, PTL DEF Spec

\* Each server holds, by the size model, the slots placed on it in the size it was given,
\* however the serves of any number of plans interleave (_Pack.place).
THEOREM SizesHold == Spec => []ServersFit
<1>1. Inv => ServersFit
  BY DEF Inv
<1> QED
  BY <1>1, PackingInvariant, PTL

\* First fit: no slot is ever on a server while an earlier open one could take it, though
\* servers fill up after it was placed (_Pack.place).
THEOREM FirstFit == Spec => []NoRoomBefore
<1>1. Inv => NoRoomBefore
  BY DEF Inv
<1> QED
  BY <1>1, PackingInvariant, PTL

\* A refused serve has no slot on any server (_serve).
THEOREM RefusalsComeFirst == Spec => []RefusedTakesNothing
<1>1. Inv => RefusedTakesNothing
  <2> SUFFICES ASSUME Inv, NEW n \in Names, NEW i \in DOMAIN servers[n],
                      NEW s \in servers[n][i].sizes
               PROVE  ~Refuses(PlanOf[s])
    BY DEF RefusedTakesNothing
  <2>1. s \in Slots
    BY ServerFacts DEF Server
  <2>2. Placed(s) /\ PlanOf[s] \in Plans
    BY <2>1, SlotsAssumption DEF Inv, ServersInv
  <2> QED
    BY <2>2 DEF Placed, Inv, PathInv
<1> QED
  BY <1>1, PackingInvariant, PTL

\* The service a served slot's server was declared as is that server as it is, so plans
\* that share one declare it alike (Context._place, _serve).
THEOREM ServicesAlike == Spec => []ServicesAgree
<1>1. Inv => ServicesAgree
  BY DEF Inv, DeclaredInv, ServicesAgree
<1> QED
  BY <1>1, PackingInvariant, PTL

\* No step moves, resizes or empties a server (_Pack).
THEOREM ServersStay == Spec => ServersKeep
<1>1. Inv /\ [Next]_vars => [Kept]_vars
  <2> SUFFICES ASSUME Inv, Next PROVE Kept
    OBVIOUS
  <2>1. UNCHANGED servers => Kept
    BY DEF Kept
  <2>2. CASE \E n \in Names, g \in Args : NewContext(n, g)
    BY <2>1, <2>2 DEF NewContext
  <2>3. ASSUME NEW b \in Plans, Step(b) PROVE Kept
    BY <2>1, <2>3, PutKeepsServers DEF Step, Serve, Enter, Choose, Leave, Declare
  <2>4. CASE Over
    BY <2>1, <2>4 DEF Over, vars
  <2> QED
    BY <2>2, <2>3, <2>4 DEF Next
<1> QED
  BY <1>1, PackingInvariant, PTL DEF Spec, ServersKeep, Kept

-----------------------------------------------------------------------------
(* Unrun warnings: the invariant *)

WarningsTypeInv ==
    /\ lists \in [Hists -> Hists \cup {Nothing}]
    /\ staged \in [Hists -> Nat]
    /\ deferred \in [Hists -> BOOLEAN]
    /\ registry \in [Hists -> Hists \cup {Nothing}]
    /\ seen \in [Hists -> SUBSET Lines]
    /\ origin \in [Hists -> Hists \cup {Nothing}]
    /\ uses \in Nat

\* A histogram has its own lists, and its registry was made for one of its kin.
OwnLists == \A h \in Made : lists[h] = h
KinRegistry ==
    \A h \in Hists : registry[h] # Nothing =>
        h \in Made /\ registry[h] \in Made /\ origin[registry[h]] = origin[h]

\* A line in a registry was read by one of its kin; a histogram not made yet has none.
ReadBefore(lines, reads, made, kin) ==
    \A r \in Hists : \A l \in lines[r] :
        r \in made /\ \E k \in made : kin[k] = kin[r] /\ <<k, l>> \in reads
SeenInv == ReadBefore(seen, readOn, Made, origin)

WarningsInv == WarningsTypeInv /\ OwnLists /\ KinRegistry /\ SeenInv /\ UseShowsItsOperands

-----------------------------------------------------------------------------
(* One warning *)

\* What the registries of a histogram may become while a use runs: w is of the kin kept in
\* kin, and each line in it was read by one of its kin, or it is the use's line.
States == [registry : [Hists -> Hists \cup {Nothing}], seen : [Hists -> SUBSET Lines],
           shown : SUBSET Hists]
Sound(w, made, kin) ==
    \A h \in Hists : w.registry[h] # Nothing =>
        h \in made /\ w.registry[h] \in made /\ kin[w.registry[h]] = kin[h]

\* Warning of h, from w to v, keeps the registries its kin's, adds no line but the use's, to a
\* registry of h's kin, and shows at most h: it hides h only when the line was there.
Warns(w, v, made, kin, h, fills, line) ==
    /\ v \in States /\ Sound(v, made, kin)
    /\ w.shown \subseteq v.shown /\ v.shown \subseteq w.shown \cup {h}
    /\ line \in w.seen[RegistryOf(w.registry, h)] => v.shown = w.shown
    /\ fills > 0 /\ h \notin v.shown => line \in w.seen[RegistryOf(w.registry, h)]
    /\ \A r \in Hists : w.seen[r] \subseteq v.seen[r]
    /\ \A r \in Hists : \A l \in v.seen[r] :
         l \in w.seen[r] \/ (l = line /\ r \in made /\ kin[r] = kin[h])
    /\ \A r \in Hists : line \in v.seen[r] /\ line \notin w.seen[r] => h \in v.shown
    /\ \A g \in Hists : RegistryOf(v.registry, g) = RegistryOf(w.registry, g)
    /\ \A g \in Hists : w.registry[g] # Nothing => v.registry[g] # Nothing
    /\ fills > 0 => v.registry[h] # Nothing /\ line \in v.seen[RegistryOf(v.registry, h)]

LEMMA WarnsOne ==
    ASSUME NEW made \in SUBSET Hists, NEW kin, NEW w \in States, Sound(w, made, kin),
           NEW h \in made, NEW fills \in Nat, NEW line \in Lines
    PROVE  Warns(w, Warned(w, h, fills, line), made, kin, h, fills, line)
<1> DEFINE r == RegistryOf(w.registry, h)
           v == Warned(w, h, fills, line)
           next == [registry |-> [w.registry EXCEPT ![h] = r],
                    seen |-> [w.seen EXCEPT ![r] = w.seen[r] \cup {line}],
                    shown |-> IF line \in w.seen[r] THEN w.shown ELSE w.shown \cup {h}]
<1>1. /\ w.registry \in [Hists -> Hists \cup {Nothing}] /\ w.seen \in [Hists -> SUBSET Lines]
      /\ w.shown \in SUBSET Hists /\ h \in Hists
  BY DEF States
<1>2. r \in made /\ r \in Hists /\ kin[r] = kin[h] /\ r # Nothing
  BY <1>1, NothingAssumption DEF RegistryOf, Sound
<1>3. CASE fills = 0
  <2>1. v = w /\ ~(fills > 0)
    BY <1>3 DEF Warned
  <2>2. Warns(w, w, made, kin, h, fills, line)
    BY <1>1, <2>1 DEF Warns
  <2> QED
    BY <2>1, <2>2
<1>4. CASE fills # 0
  <2>1. v = next
    BY <1>4 DEF Warned
  <2> HIDE DEF r, v
  <2>2. /\ v.registry = [w.registry EXCEPT ![h] = r]
        /\ v.seen = [w.seen EXCEPT ![r] = w.seen[r] \cup {line}]
        /\ v.shown = IF line \in w.seen[r] THEN w.shown ELSE w.shown \cup {h}
    BY <2>1
  <2>3. v \in States
    <3>1. /\ v.registry \in [Hists -> Hists \cup {Nothing}] /\ v.seen \in [Hists -> SUBSET Lines]
          /\ v.shown \in SUBSET Hists
      BY <1>1, <1>2, <2>2
    <3> QED
      BY <2>1, <3>1, <2>2 DEF States
  <2>4. Sound(v, made, kin)
    BY <1>1, <1>2, <2>2 DEF Sound
  <2>5. \A g \in Hists : RegistryOf(v.registry, g) = RegistryOf(w.registry, g)
    BY <1>1, <1>2, <2>2 DEF RegistryOf, r
  <2>6. RegistryOf(v.registry, h) = r
    BY <1>1, <2>5 DEF r
  <2>7. /\ \A q \in Hists : \A l \in v.seen[q] :
             l \in w.seen[q] \/ (l = line /\ q \in made /\ kin[q] = kin[h])
        /\ \A q \in Hists : line \in v.seen[q] /\ line \notin w.seen[q] => h \in v.shown
        /\ line \in v.seen[r]
        /\ h \notin v.shown => line \in w.seen[r]
        /\ w.shown \subseteq v.shown /\ v.shown \subseteq w.shown \cup {h}
    BY <1>1, <1>2, <2>2
  <2>8. /\ \A g \in Hists : w.registry[g] # Nothing => v.registry[g] # Nothing
        /\ v.registry[h] # Nothing
        /\ \A g \in Hists : w.seen[g] \subseteq v.seen[g]
        /\ line \in w.seen[r] => v.shown = w.shown
    BY <1>1, <1>2, <2>2
  <2> QED
    BY <2>3, <2>4, <2>5, <2>6, <2>7, <2>8 DEF r, v, Warns
<1> QED
  BY <1>3, <1>4

LEMMA Start ==
    ASSUME WarningsInv
    PROVE  /\ Unwarned \in States /\ Unwarned.shown = {}
           /\ Unwarned.registry = registry /\ Unwarned.seen = seen
           /\ Sound(Unwarned, Made, origin)
           /\ Made \subseteq Hists /\ \A h \in Made : Fills(h) = staged[h] /\ Fills(h) \in Nat
           /\ \A h \in Made : origin[h] \in Hists \cup {Nothing}
<1>1. /\ lists \in [Hists -> Hists \cup {Nothing}] /\ staged \in [Hists -> Nat]
      /\ registry \in [Hists -> Hists \cup {Nothing}] /\ seen \in [Hists -> SUBSET Lines]
      /\ origin \in [Hists -> Hists \cup {Nothing}]
  BY DEF WarningsInv, WarningsTypeInv
<1>2. Made \subseteq Hists /\ \A h \in Made : Fills(h) = staged[h] /\ Fills(h) \in Nat
  BY <1>1 DEF Made, Fills, WarningsInv, OwnLists
<1>3. Unwarned \in States /\ Unwarned.shown = {}
      /\ Unwarned.registry = registry /\ Unwarned.seen = seen
  BY <1>1 DEF Unwarned, States
<1>4. Sound(Unwarned, Made, origin)
  BY <1>3 DEF Sound, WarningsInv, KinRegistry
<1> QED
  BY <1>1, <1>2, <1>3, <1>4

\* A read that is hidden was hidden by one of its kin.
LEMMA HiddenByKin ==
    ASSUME WarningsInv, NEW h \in Made, NEW line \in Lines, line \in seen[RegistryOf(registry, h)]
    PROVE  \E k \in Made : origin[k] = origin[h] /\ <<k, line>> \in readOn
<1>1. h \in Hists /\ registry[h] \in Hists \cup {Nothing}
  BY Start DEF WarningsInv, WarningsTypeInv
<1> DEFINE r == RegistryOf(registry, h)
<1>2. r \in Hists /\ origin[r] = origin[h]
  BY <1>1 DEF RegistryOf, WarningsInv, KinRegistry
<1>3. \E k \in Made : origin[k] = origin[r] /\ <<k, line>> \in readOn
  BY <1>2 DEF WarningsInv, SeenInv, ReadBefore
<1> QED
  BY <1>2, <1>3

-----------------------------------------------------------------------------
(* Steps *)

\* A use whose warnings are sound: every line it adds is its own, in a registry of the kin
\* of what it read, and it shows at most what it read.
LEMMA UseKeeps ==
    ASSUME WarningsInv, NEW line \in Lines, NEW read \in SUBSET Made', NEW w \in States,
           Using(line, read, w),
           Made \subseteq Made', \A h \in Made : origin'[h] = origin[h],
           lists' \in [Hists -> Hists \cup {Nothing}], staged' \in [Hists -> Nat],
           deferred' \in [Hists -> BOOLEAN], origin' \in [Hists -> Hists \cup {Nothing}],
           OwnLists', Sound(w, Made', origin'), w.shown \subseteq read,
           \A r \in Hists : \A l \in w.seen[r] :
              \/ l \in seen[r]
              \/ l = line /\ r \in Made' /\ \E k \in read : origin'[k] = origin'[r]
    PROVE  WarningsInv'
<1>1. /\ registry' = w.registry /\ seen' = w.seen /\ uses' = uses + 1
      /\ readOn' = readOn \cup (read \X {line}) /\ last'.shown = w.shown /\ last'.read = read
  BY DEF Using
<1>2. WarningsTypeInv'
  <2>1. w.registry \in [Hists -> Hists \cup {Nothing}] /\ w.seen \in [Hists -> SUBSET Lines]
    BY DEF States
  <2> QED
    BY <1>1, <2>1 DEF WarningsInv, WarningsTypeInv
<1>3. KinRegistry'
  BY <1>1 DEF Sound, KinRegistry
<1>4. SeenInv'
  <2> SUFFICES ASSUME NEW r \in Hists, NEW l \in w.seen[r]
               PROVE  /\ r \in Made'
                      /\ \E k \in Made' : origin'[k] = origin'[r] /\ <<k, l>> \in readOn'
    BY <1>1 DEF SeenInv, ReadBefore
  <2>1. CASE l \in seen[r]
    <3>1. r \in Made
      BY <2>1 DEF WarningsInv, SeenInv, ReadBefore
    <3>2. PICK k \in Made : origin[k] = origin[r] /\ <<k, l>> \in readOn
      BY <2>1 DEF WarningsInv, SeenInv, ReadBefore
    <3>3. k \in Made' /\ origin'[k] = origin'[r] /\ <<k, l>> \in readOn'
      BY <1>1, <3>1, <3>2
    <3> QED
      BY <3>1, <3>3
  <2>2. CASE l = line /\ r \in Made' /\ \E k \in read : origin'[k] = origin'[r]
    <3>1. PICK k \in read : origin'[k] = origin'[r]
      BY <2>2
    <3>2. k \in Made' /\ <<k, l>> \in readOn'
      BY <1>1, <2>2
    <3> QED
      BY <2>2, <3>1, <3>2
  <2> QED
    BY <2>1, <2>2
<1>5. UseShowsItsOperands'
  BY <1>1 DEF UseShowsItsOperands
<1> QED
  BY <1>2, <1>3, <1>4, <1>5 DEF WarningsInv

LEMMA ReadKeeps ==
    ASSUME WarningsInv, NEW h \in Hists, NEW line \in Lines, Read(h, line)
    PROVE  /\ WarningsInv'
           /\ \A g \in Made : g \in last'.read /\ Fills(g) > 0 /\ g \notin last'.shown =>
                \E k \in Made : origin[k] = origin[g] /\ <<k, last'.line>> \in readOn
<1> DEFINE w == Warned(Unwarned, h, Fills(h), line)
<1>1. /\ h \in Made /\ Using(line, {h}, w)
      /\ UNCHANGED <<lists, staged, deferred, origin>> /\ Made' = Made
  BY DEF Read, Made
<1>2. /\ Unwarned \in States /\ Sound(Unwarned, Made, origin) /\ Made \in SUBSET Hists
      /\ Fills(h) \in Nat /\ Unwarned.shown = {}
      /\ Unwarned.registry = registry /\ Unwarned.seen = seen /\ line \in Lines
  BY <1>1, Start
<1> HIDE DEF w
<1>3. Warns(Unwarned, w, Made, origin, h, Fills(h), line)
  BY <1>1, <1>2, WarnsOne DEF w
<1>4. /\ w \in States /\ Sound(w, Made, origin) /\ w.shown \subseteq {h}
      /\ \A r \in Hists : \A l \in w.seen[r] :
           l \in seen[r] \/ (l = line /\ r \in Made /\ origin[r] = origin[h])
      /\ Fills(h) > 0 /\ h \notin w.shown => line \in seen[RegistryOf(registry, h)]
  BY <1>2, <1>3 DEF Warns
<1>5. WarningsInv'
  <2>1. /\ lists' \in [Hists -> Hists \cup {Nothing}] /\ staged' \in [Hists -> Nat]
        /\ deferred' \in [Hists -> BOOLEAN] /\ origin' \in [Hists -> Hists \cup {Nothing}]
        /\ OwnLists'
    BY <1>1 DEF WarningsInv, WarningsTypeInv, OwnLists
  <2>2. {h} \in SUBSET Made' /\ Sound(w, Made', origin')
    BY <1>1, <1>4
  <2>3. \A r \in Hists : \A l \in w.seen[r] :
           \/ l \in seen[r]
           \/ l = line /\ r \in Made' /\ \E k \in {h} : origin'[k] = origin'[r]
    BY <1>1, <1>4
  <2> QED
    BY <1>1, <1>4, <2>1, <2>2, <2>3, UseKeeps
<1>6. last'.read = {h} /\ last'.shown = w.shown /\ last'.line = line
  BY <1>1 DEF Using
<1>7. Fills(h) > 0 /\ h \notin w.shown =>
        \E k \in Made : origin[k] = origin[h] /\ <<k, line>> \in readOn
  BY <1>1, <1>4, HiddenByKin
<1> QED
  BY <1>5, <1>6, <1>7

\* A copy is of its original's kin.
LEMMA Copies ==
    ASSUME WarningsInv, NEW h \in Hists, NEW c \in Hists, Copied(h, c)
    PROVE  /\ h \in Made /\ c \notin Made /\ Made' = Made \cup {c} /\ h # c
           /\ \A g \in Made : origin'[g] = origin[g] /\ g # c
           /\ origin'[c] = origin[h]
           /\ lists' \in [Hists -> Hists \cup {Nothing}] /\ staged' \in [Hists -> Nat]
           /\ origin' \in [Hists -> Hists \cup {Nothing}] /\ OwnLists'
           /\ registry[c] = Nothing /\ seen[c] = {}
<1>1. /\ h \in Made /\ c \notin Made /\ lists' = [lists EXCEPT ![c] = c]
      /\ staged' = [staged EXCEPT ![c] = Fills(h)]
      /\ origin' = [origin EXCEPT ![c] = origin[h]]
  BY DEF Copied, CopiedLists
<1>2. /\ lists \in [Hists -> Hists \cup {Nothing}] /\ staged \in [Hists -> Nat]
      /\ origin \in [Hists -> Hists \cup {Nothing}] /\ Fills(h) \in Nat
      /\ seen \in [Hists -> SUBSET Lines]
  BY <1>1, Start DEF WarningsInv, WarningsTypeInv
<1>3. Made' = Made \cup {c}
  BY <1>1, <1>2, NothingAssumption DEF Made
<1>4. OwnLists'
  BY <1>1, <1>2, <1>3 DEF OwnLists, WarningsInv
<1>5. registry[c] = Nothing /\ seen[c] = {}
  BY <1>1 DEF WarningsInv, KinRegistry, SeenInv, ReadBefore
<1> QED
  BY <1>1, <1>2, <1>3, <1>4, <1>5 DEF Made

\* What the seams of a use start from, once the copy has the original's registry.
LEMMA Inherits ==
    ASSUME NEW made \in SUBSET Hists, NEW kin, NEW w \in States, Sound(w, made, kin),
           NEW h \in made, NEW c \in made, kin[c] = kin[h],
           NEW v, v = [w EXCEPT !.registry[c] = w.registry[h]]
    PROVE  /\ v \in States /\ Sound(v, made, kin) /\ v.seen = w.seen /\ v.shown = w.shown
           /\ v.registry[c] = w.registry[h]
           /\ \A g \in Hists : g # c => v.registry[g] = w.registry[g]
<1>1. /\ w.registry \in [Hists -> Hists \cup {Nothing}] /\ w.seen \in [Hists -> SUBSET Lines]
      /\ w.shown \in SUBSET Hists /\ DOMAIN w = {"registry", "seen", "shown"}
  BY DEF States
<1>2. /\ v.registry = [w.registry EXCEPT ![c] = w.registry[h]]
      /\ v.seen = w.seen /\ v.shown = w.shown
      /\ v = [registry |-> v.registry, seen |-> v.seen, shown |-> v.shown]
  BY <1>1 DEF States
<1>3. h \in Hists /\ c \in Hists /\ v.registry \in [Hists -> Hists \cup {Nothing}]
  BY <1>1, <1>2
<1>4. v \in States
  BY <1>1, <1>2, <1>3 DEF States
<1>5. Sound(v, made, kin)
  BY <1>1, <1>2, <1>3 DEF Sound
<1> QED
  BY <1>1, <1>2, <1>3, <1>4, <1>5

LEMMA ConvertKeeps ==
    ASSUME WarningsInv, NEW h \in Hists, NEW c \in Hists, NEW line \in Lines, Convert(h, c, line)
    PROVE  WarningsInv' /\ last'.read = {c} /\ c \notin Made
<1> DEFINE u == [Unwarned EXCEPT !.registry[c] = registry[h]]
           w == Warned(u, c, Fills(h), line)
           made == Made \cup {c}
<1>1. /\ Copied(h, c) /\ deferred' = [deferred EXCEPT ![c] = FALSE]
      /\ Using(line, {c}, w) /\ last'.read = {c}
  BY DEF Convert, Using
<1>2. /\ h \in Made /\ c \notin Made /\ Made' = made /\ h # c
      /\ \A g \in Made : origin'[g] = origin[g] /\ g # c
      /\ origin'[c] = origin[h] /\ registry[c] = Nothing
      /\ lists' \in [Hists -> Hists \cup {Nothing}] /\ staged' \in [Hists -> Nat]
      /\ origin' \in [Hists -> Hists \cup {Nothing}] /\ OwnLists'
  BY <1>1, Copies
<1>3. /\ Unwarned \in States /\ Sound(Unwarned, Made, origin)
      /\ Unwarned.shown = {} /\ Unwarned.registry = registry /\ Unwarned.seen = seen
      /\ made \in SUBSET Hists /\ h \in made /\ c \in made /\ Fills(h) \in Nat
  BY <1>2, Start
<1> HIDE DEF w, u, made
<1>4. Sound(Unwarned, made, origin')
  BY <1>2, <1>3 DEF Sound, made
<1>5. u = [Unwarned EXCEPT !.registry[c] = Unwarned.registry[h]]
  BY <1>3 DEF u
<1>6. /\ u \in States /\ Sound(u, made, origin') /\ u.seen = seen /\ u.shown = {}
  BY <1>2, <1>3, <1>4, <1>5, Inherits, SMTT(30)
<1>7. Warns(u, w, made, origin', c, Fills(h), line)
  BY <1>3, <1>6, WarnsOne DEF w
<1>8. /\ w \in States /\ Sound(w, made, origin') /\ w.shown \subseteq {c}
      /\ \A r \in Hists : \A l \in w.seen[r] :
           l \in seen[r] \/ (l = line /\ r \in made /\ origin'[r] = origin'[c])
  BY <1>6, <1>7 DEF Warns
<1>9. WarningsInv'
  <2>1. deferred' \in [Hists -> BOOLEAN]
    BY <1>1 DEF WarningsInv, WarningsTypeInv
  <2>2. {c} \in SUBSET Made' /\ Sound(w, Made', origin') /\ Made \subseteq Made'
    BY <1>2, <1>3, <1>8 DEF made
  <2>3. \A r \in Hists : \A l \in w.seen[r] :
           \/ l \in seen[r]
           \/ l = line /\ r \in Made' /\ \E k \in {c} : origin'[k] = origin'[r]
    BY <1>2, <1>8
  <2> QED
    BY <1>1, <1>2, <1>8, <2>1, <2>2, <2>3, UseKeeps, SMTT(30)
<1> QED
  BY <1>1, <1>2, <1>9

\* The sum of h and g warns of h, of g, of the copy and of g again.
LEMMA AddKeeps ==
    ASSUME WarningsInv, NEW h \in Hists, NEW g \in Hists, NEW c \in Hists, NEW line \in Lines,
           Add(h, g, c, line)
    PROVE  /\ WarningsInv'
           /\ \A f \in Made : f \in last'.read /\ Fills(f) > 0 /\ f \notin last'.shown =>
                \E k \in Made : /\ origin[k] = origin[f]
                                /\ <<k, last'.line>> \in readOn \/ k \in last'.shown
<1> DEFINE w1 == Warned(Unwarned, h, Fills(h), line)
           w2 == Warned(w1, g, Fills(g), line)
           u == [w2 EXCEPT !.registry[c] = w2.registry[h]]
           w3 == Warned(u, c, Fills(h), line)
           w4 == Warned(w3, g, Fills(g), line)
           made == Made \cup {c}
<1>1. /\ Copied(h, c) /\ g \in Made /\ deferred' = deferred
      /\ Using(line, {h, g}, w4)
      /\ last'.read = {h, g} /\ last'.line = line /\ last'.shown = w4.shown
  BY DEF Add, Operands, Using
<1>2. /\ h \in Made /\ c \notin Made /\ Made' = made /\ h # c
      /\ \A f \in Made : origin'[f] = origin[f] /\ f # c
      /\ origin'[c] = origin[h] /\ registry[c] = Nothing
      /\ lists' \in [Hists -> Hists \cup {Nothing}] /\ staged' \in [Hists -> Nat]
      /\ origin' \in [Hists -> Hists \cup {Nothing}] /\ OwnLists'
  BY <1>1, Copies
<1>3. /\ Unwarned \in States /\ Sound(Unwarned, Made, origin)
      /\ Unwarned.shown = {} /\ Unwarned.registry = registry /\ Unwarned.seen = seen
      /\ made \in SUBSET Hists /\ h \in made /\ g \in made /\ c \in made
      /\ Fills(h) \in Nat /\ Fills(g) \in Nat
  BY <1>1, <1>2, Start
<1> HIDE DEF w1, w2, u, w3, w4, made
<1>4. Sound(Unwarned, made, origin')
  BY <1>2, <1>3 DEF Sound, made
<1>5. Warns(Unwarned, w1, made, origin', h, Fills(h), line)
  BY <1>3, <1>4, WarnsOne DEF w1
<1>6. Warns(w1, w2, made, origin', g, Fills(g), line)
  <2>1. w1 \in States /\ Sound(w1, made, origin')
    BY <1>5 DEF Warns
  <2> QED
    BY <1>3, <2>1, WarnsOne DEF w2
<1>7. /\ w2 \in States /\ u \in States /\ Sound(u, made, origin')
      /\ u.seen = w2.seen /\ u.shown = w2.shown /\ u.registry[c] = w2.registry[h]
  <2>1. w2 \in States /\ Sound(w2, made, origin')
    BY <1>6 DEF Warns
  <2> QED
    <3>1. u = [w2 EXCEPT !.registry[c] = w2.registry[h]] /\ origin'[c] = origin'[h]
      BY <1>2 DEF u
    <3>2. made \in SUBSET Hists /\ h \in made /\ c \in made
      BY <1>3
    <3>3. /\ u \in States /\ Sound(u, made, origin') /\ u.seen = w2.seen /\ u.shown = w2.shown
          /\ u.registry[c] = w2.registry[h]
      BY ONLY <2>1, <3>1, <3>2, Inherits, SMTT(30)
    <3> QED
      BY <2>1, <3>3
<1>8. Warns(u, w3, made, origin', c, Fills(h), line)
  BY <1>3, <1>7, WarnsOne DEF w3
<1>9. Warns(w3, w4, made, origin', g, Fills(g), line)
  <2>1. w3 \in States /\ Sound(w3, made, origin')
    BY <1>8 DEF Warns
  <2> QED
    BY <1>3, <2>1, WarnsOne DEF w4
\* By the time the copy is warned of, its registry has the line.
<1>10. w3.shown = w2.shown
  <2>1. CASE Fills(h) > 0
    <3>1. w1.registry[h] # Nothing /\ line \in w1.seen[RegistryOf(w1.registry, h)]
      BY <1>5, <2>1 DEF Warns
    <3>2. h \in Hists /\ RegistryOf(w1.registry, h) \in Hists
      BY <1>5, <3>1 DEF Warns, States, RegistryOf
    <3>3. w2.registry[h] # Nothing /\ RegistryOf(w2.registry, h) = RegistryOf(w1.registry, h)
      BY <1>6, <3>1 DEF Warns
    <3>4. line \in w2.seen[RegistryOf(w2.registry, h)]
      BY <1>6, <3>1, <3>2, <3>3 DEF Warns
    <3>5. RegistryOf(u.registry, c) = RegistryOf(w2.registry, h)
      BY <1>7, <3>3 DEF RegistryOf
    <3> QED
      BY <1>7, <1>8, <3>4, <3>5 DEF Warns
  <2>2. CASE Fills(h) = 0
    BY <1>7, <2>2 DEF w3, Warned
  <2> QED
    BY <1>3, <2>1, <2>2
<1>11. w4 \in States /\ Sound(w4, made, origin') /\ w4.shown \subseteq {h, g}
       /\ w1.shown \subseteq w4.shown /\ w2.shown \subseteq w4.shown
  BY <1>3, <1>5, <1>6, <1>9, <1>10 DEF Warns
<1>12. \A r \in Hists : \A l \in w4.seen[r] :
          l \in seen[r]
          \/ (l = line /\ r \in made /\ (origin'[r] = origin'[h] \/ origin'[r] = origin'[g]))
  <2>1. \A r \in Hists : \A l \in w4.seen[r] :
          l \in w3.seen[r] \/ (l = line /\ r \in made /\ origin'[r] = origin'[g])
    BY <1>9 DEF Warns
  <2>2. \A r \in Hists : \A l \in w3.seen[r] :
          l \in w2.seen[r] \/ (l = line /\ r \in made /\ origin'[r] = origin'[h])
    BY <1>2, <1>7, <1>8 DEF Warns
  <2>3. \A r \in Hists : \A l \in w2.seen[r] :
          l \in w1.seen[r] \/ (l = line /\ r \in made /\ origin'[r] = origin'[g])
    BY <1>6 DEF Warns
  <2>4. \A r \in Hists : \A l \in w1.seen[r] :
          l \in seen[r] \/ (l = line /\ r \in made /\ origin'[r] = origin'[h])
    BY <1>3, <1>5 DEF Warns
  <2> QED
    BY <2>1, <2>2, <2>3, <2>4
<1>13. WarningsInv'
  <2>1. deferred' \in [Hists -> BOOLEAN]
    BY <1>1 DEF WarningsInv, WarningsTypeInv
  <2>2. {h, g} \in SUBSET Made' /\ Sound(w4, Made', origin') /\ Made \subseteq Made'
    BY <1>2, <1>3, <1>11 DEF made
  <2>3. \A r \in Hists : \A l \in w4.seen[r] :
           \/ l \in seen[r]
           \/ l = line /\ r \in Made' /\ \E k \in {h, g} : origin'[k] = origin'[r]
    BY <1>2, <1>12
  <2> QED
    BY <1>1, <1>2, <1>11, <2>1, <2>2, <2>3, UseKeeps, SMTT(30)
<1>14. Fills(h) > 0 /\ h \notin w4.shown =>
         \E k \in Made : origin[k] = origin[h] /\ <<k, line>> \in readOn
  <2>1. Fills(h) > 0 /\ h \notin w1.shown => line \in seen[RegistryOf(registry, h)]
    BY <1>3, <1>5 DEF Warns
  <2> QED
    BY <1>2, <1>11, <2>1, HiddenByKin
<1>15. ASSUME Fills(g) > 0, g \notin w4.shown
       PROVE  \E k \in Made : /\ origin[k] = origin[g]
                              /\ <<k, line>> \in readOn \/ k \in w4.shown
  <2> DEFINE r == RegistryOf(registry, g)
  <2>1. line \in w1.seen[r]
    <3>1. line \in w1.seen[RegistryOf(w1.registry, g)]
      BY <1>6, <1>11, <1>15 DEF Warns
    <3> QED
      BY <1>3, <1>5, <3>1 DEF Warns
  <2>2. r \in Hists /\ origin[r] = origin[g]
    BY <1>1 DEF RegistryOf, WarningsInv, KinRegistry, WarningsTypeInv
  <2>3. CASE line \in seen[r]
    BY <1>1, <2>3, HiddenByKin
  <2>4. CASE line \notin seen[r]
    <3>1. h \in w1.shown /\ origin'[r] = origin'[h] /\ r \in made
      BY <1>3, <1>5, <2>1, <2>2, <2>4 DEF Warns
    <3>2. r \in Made
      BY <1>1, <1>2 DEF RegistryOf, WarningsInv, KinRegistry
    <3>3. origin[h] = origin[g] /\ h \in w4.shown
      BY <1>2, <1>11, <2>2, <3>1, <3>2
    <3> QED
      BY <1>2, <3>3
  <2> QED
    BY <2>3, <2>4
<1> QED
  BY <1>1, <1>13, <1>14, <1>15

LEMMA NewKeeps ==
    ASSUME WarningsInv, NEW h \in Hists, New(h)
    PROVE  WarningsInv'
<1>1. /\ h \notin Made /\ lists' = [lists EXCEPT ![h] = h] /\ origin' = [origin EXCEPT ![h] = h]
      /\ last' = NoUse /\ UNCHANGED <<staged, deferred, registry, seen, uses, readOn>>
  BY DEF New
<1>2. WarningsTypeInv'
  BY <1>1 DEF WarningsInv, WarningsTypeInv
<1>3. Made' = Made \cup {h} /\ \A g \in Made : origin'[g] = origin[g]
  BY <1>1, NothingAssumption DEF Made, WarningsInv, WarningsTypeInv
<1>4. OwnLists'
  BY <1>1, <1>3 DEF OwnLists, Made, WarningsInv, WarningsTypeInv
<1>5. KinRegistry'
  BY <1>1, <1>3 DEF KinRegistry, WarningsInv
<1>6. SeenInv'
  BY <1>1, <1>3 DEF SeenInv, ReadBefore, WarningsInv
<1>7. UseShowsItsOperands'
  BY <1>1 DEF NoUse, UseShowsItsOperands
<1> QED
  BY <1>2, <1>4, <1>5, <1>6, <1>7 DEF WarningsInv

LEMMA FillKeeps ==
    ASSUME WarningsInv, NEW h \in Hists, Fill(h)
    PROVE  WarningsInv'
<1>1. /\ staged' = [staged EXCEPT ![lists[h]] = staged[lists[h]] + 1] /\ last' = NoUse
      /\ UNCHANGED <<lists, deferred, registry, seen, origin, uses, readOn>> /\ Made' = Made
      /\ h \in Made
  BY DEF Fill, Made
<1>2. WarningsTypeInv'
  <2>1. lists[h] = h
    BY <1>1 DEF WarningsInv, OwnLists
  <2>2. staged' \in [Hists -> Nat]
    BY <1>1, <2>1 DEF WarningsInv, WarningsTypeInv
  <2> QED
    BY <1>1, <2>2 DEF WarningsInv, WarningsTypeInv
<1>3. OwnLists' /\ KinRegistry' /\ SeenInv'
  BY <1>1 DEF OwnLists, KinRegistry, SeenInv, ReadBefore, WarningsInv
<1>4. UseShowsItsOperands'
  BY <1>1 DEF NoUse, UseShowsItsOperands
<1> QED
  BY <1>2, <1>3, <1>4 DEF WarningsInv

LEMMA CopyKeeps ==
    ASSUME WarningsInv, NEW h \in Hists, NEW c \in Hists, Copy(h, c) \/ DeepCopy(h, c)
    PROVE  WarningsInv'
<1>1. /\ Copied(h, c) /\ last' = NoUse /\ UNCHANGED <<deferred, uses, readOn>>
  BY DEF Copy, DeepCopy
<1>2. /\ h \in Made /\ c \notin Made /\ Made' = Made \cup {c}
      /\ \A g \in Made : origin'[g] = origin[g] /\ g # c
      /\ origin'[c] = origin[h] /\ registry[c] = Nothing /\ seen[c] = {}
      /\ lists' \in [Hists -> Hists \cup {Nothing}] /\ staged' \in [Hists -> Nat]
      /\ origin' \in [Hists -> Hists \cup {Nothing}] /\ OwnLists'
  BY <1>1, Copies
<1>3. /\ registry \in [Hists -> Hists \cup {Nothing}] /\ seen \in [Hists -> SUBSET Lines]
      /\ \A g \in Hists : registry[g] # Nothing =>
           g \in Made /\ registry[g] \in Made /\ origin[registry[g]] = origin[g]
  BY DEF WarningsInv, WarningsTypeInv, KinRegistry
<1>4. /\ registry' \in [Hists -> Hists \cup {Nothing}] /\ seen' \in [Hists -> SUBSET Lines]
      /\ KinRegistry'
  <2>1. CASE Copy(h, c)
    BY <1>2, <1>3, <2>1 DEF Copy, KinRegistry
  <2>2. CASE DeepCopy(h, c)
    BY <1>2, <1>3, <2>2 DEF DeepCopy, KinRegistry
  <2> QED
    BY <2>1, <2>2
<1>5. \A r \in Hists : \/ seen'[r] = seen[r]
                       \/ r = c /\ registry[h] # Nothing /\ seen'[r] = seen[registry[h]]
  BY <1>2, <1>3, ZenonT(30) DEF Copy, DeepCopy
<1>6. SeenInv'
  <2> SUFFICES ASSUME NEW r \in Hists, NEW l \in seen'[r]
               PROVE  r \in Made' /\ \E k \in Made' : origin'[k] = origin'[r] /\ <<k, l>> \in readOn
    BY <1>1 DEF SeenInv, ReadBefore
  <2>1. CASE seen'[r] = seen[r]
    <3>1. r \in Made /\ \E k \in Made : origin[k] = origin[r] /\ <<k, l>> \in readOn
      BY <2>1 DEF WarningsInv, SeenInv, ReadBefore
    <3> QED
      BY <1>2, <3>1
  <2>2. CASE r = c /\ registry[h] # Nothing /\ seen'[r] = seen[registry[h]]
    <3>1. registry[h] \in Hists /\ origin[registry[h]] = origin[h]
      BY <1>2, <1>3, <2>2 DEF Made
    <3>2. \E k \in Made : origin[k] = origin[registry[h]] /\ <<k, l>> \in readOn
      BY <2>2, <3>1 DEF WarningsInv, SeenInv, ReadBefore
    <3> QED
      BY <1>2, <2>2, <3>1, <3>2
  <2> QED
    BY <1>5, <2>1, <2>2
<1>7. UseShowsItsOperands'
  BY <1>1 DEF NoUse, UseShowsItsOperands
<1> QED
  BY <1>1, <1>2, <1>4, <1>6, <1>7 DEF WarningsInv, WarningsTypeInv

LEMMA ChangeFiltersKeeps ==
    ASSUME WarningsInv, ChangeFilters
    PROVE  WarningsInv'
<1>1. /\ seen' = [h \in Hists |-> {}] /\ last' = NoUse
      /\ UNCHANGED <<lists, staged, deferred, registry, origin, uses>> /\ Made' = Made
  BY DEF ChangeFilters, Made
<1> QED
  BY <1>1 DEF WarningsInv, WarningsTypeInv, OwnLists, KinRegistry, SeenInv, ReadBefore, NoUse,
              UseShowsItsOperands

LEMMA WarningsInitInv == WarningsInit => WarningsInv
<1> SUFFICES ASSUME WarningsInit PROVE WarningsInv
  OBVIOUS
<1>1. PICK h \in Hists : lists = [g \in Hists |-> IF g = h THEN h ELSE Nothing] /\ origin = lists
  BY DEF WarningsInit
<1>2. WarningsTypeInv
  BY <1>1 DEF WarningsInit, WarningsTypeInv
<1>3. OwnLists
  BY <1>1, NothingAssumption DEF OwnLists, Made
<1>4. KinRegistry /\ SeenInv /\ UseShowsItsOperands
  BY DEF WarningsInit, KinRegistry, SeenInv, ReadBefore, NoUse, UseShowsItsOperands
<1> QED
  BY <1>2, <1>3, <1>4 DEF WarningsInv

\* A step reads nothing, or is a read, a conversion or a sum.
LEMMA Steps ==
    ASSUME WarningsInv, [WarningsNext]_warningsVars
    PROVE  \/ WarningsInv' /\ uses' = uses
           \/ \E h \in Hists, line \in Lines : Read(h, line)
           \/ \E h \in Hists, c \in Hists, line \in Lines : Convert(h, c, line)
           \/ \E h \in Hists, g \in Hists, c \in Hists, line \in Lines : Add(h, g, c, line)
<1>1. ASSUME NEW h \in Hists, New(h) PROVE WarningsInv' /\ uses' = uses
  BY <1>1, NewKeeps DEF New
<1>2. ASSUME NEW h \in Hists, Fill(h) PROVE WarningsInv' /\ uses' = uses
  BY <1>2, FillKeeps DEF Fill
<1>3. ASSUME NEW h \in Hists, NEW c \in Hists, Copy(h, c) \/ DeepCopy(h, c)
      PROVE  WarningsInv' /\ uses' = uses
  BY <1>3, CopyKeeps DEF Copy, DeepCopy
<1>4. CASE ChangeFilters
  BY <1>4, ChangeFiltersKeeps DEF ChangeFilters
<1>5. CASE UNCHANGED warningsVars
  BY <1>5 DEF warningsVars, WarningsInv, WarningsTypeInv, OwnLists, KinRegistry, SeenInv,
              ReadBefore, Made, UseShowsItsOperands
<1> QED
  BY <1>1, <1>2, <1>3, <1>4, <1>5 DEF WarningsNext

-----------------------------------------------------------------------------
(* Theorems *)

\* A registry is shared by copies of one original only, and has only lines one of them was
\* read on (copy.copy, copy.deepcopy, _import_bh_).
THEOREM RegistriesAreKin == WarningsSpec => []WarningsInv
<1>1. WarningsInit => WarningsInv
  BY WarningsInitInv
<1>2. WarningsInv /\ [WarningsNext]_warningsVars => WarningsInv'
  BY Steps, ReadKeeps, ConvertKeeps, AddKeeps
<1> QED
  BY <1>1, <1>2, PTL DEF WarningsSpec

\* A use shows warnings of its operands only; the copy that arithmetic makes shows none
\* (_warn_if_unrun at the seams of __add__ and _export_bh_).
THEOREM OperandsWarn == WarningsSpec => []UseShowsItsOperands
<1>1. WarningsInv => UseShowsItsOperands
  BY DEF WarningsInv
<1> QED
  BY <1>1, RegistriesAreKin, PTL

\* A warning is hidden only by a read, on that line, of the histogram or of its kin.
THEOREM StrangersNeverHide == WarningsSpec => OnlyKinHide
<1>1. WarningsInv /\ [WarningsNext]_warningsVars =>
        [uses' > uses =>
          \A h \in Made : h \in last'.read /\ Fills(h) > 0 /\ h \notin last'.shown =>
            \E k \in Made : /\ origin[k] = origin[h]
                            /\ <<k, last'.line>> \in readOn \/ k \in last'.shown]_warningsVars
  <2> SUFFICES ASSUME WarningsInv, [WarningsNext]_warningsVars, uses' > uses,
                      NEW h \in Made, h \in last'.read, Fills(h) > 0, h \notin last'.shown
               PROVE  \E k \in Made : /\ origin[k] = origin[h]
                                      /\ <<k, last'.line>> \in readOn \/ k \in last'.shown
    OBVIOUS
  <2>1. uses' # uses
    <3>1. uses \in Nat
      BY DEF WarningsInv, WarningsTypeInv
    <3> QED
      BY <3>1
  <2>2. ASSUME NEW g \in Hists, NEW line \in Lines, Read(g, line)
        PROVE  \E k \in Made : origin[k] = origin[h] /\ <<k, last'.line>> \in readOn
    BY <2>2, ReadKeeps
  <2>3. \A g \in Hists, c \in Hists, line \in Lines : ~Convert(g, c, line)
    BY ConvertKeeps
  <2>4. ASSUME NEW f \in Hists, NEW g \in Hists, NEW c \in Hists, NEW line \in Lines,
               Add(f, g, c, line)
        PROVE  \E k \in Made : /\ origin[k] = origin[h]
                               /\ <<k, last'.line>> \in readOn \/ k \in last'.shown
    BY <2>4, AddKeeps
  <2> QED
    BY <2>1, <2>2, <2>3, <2>4, Steps
<1> QED
  BY <1>1, RegistriesAreKin, PTL DEF WarningsSpec, OnlyKinHide
=============================================================================
