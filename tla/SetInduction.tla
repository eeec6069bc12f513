----------------------------- MODULE SetInduction -----------------------------
(* Induction over natural numbers, sequences and finite sets, stated about    *)
(* sets rather than predicates, and what follows from it: extremal elements,  *)
(* sums over a finite set that do not depend on the order they are taken in,  *)
(* counts over a sequence, and the step of a left fold.                       *)
EXTENDS Integers, Sequences, SequencesExt, FiniteSetsExt, FiniteSetTheorems, TLAPS

CONSTANT Op(_, _, _)    \* the operator of the folds: Op(p, acc, x) is x folded into acc
                        \* under the parameters p; only what is said of folds depends on it

-----------------------------------------------------------------------------
(* Induction *)

\* A non-empty set of natural numbers has a least member.
THEOREM LeastNatural ==
    ASSUME NEW T \in SUBSET Nat, T # {}
    PROVE  \E m \in T : \A k \in T : m <= k
<1> DEFINE R == OpToRel(<, Nat)
<1>1. IsWellFoundedOn(R, Nat)
  BY NatLessThanWellFounded
<1>2. \A x, y \in Nat : x < y => <<x, y>> \in R
  BY DEF OpToRel
<1> HIDE DEF R
<1>3. PICK x \in T : \A y \in T : <<y, x>> \notin R
  BY <1>1, WFMin
<1>4. ASSUME NEW y \in T PROVE x <= y
  <2>1. ~(y < x)
    BY <1>2, <1>3
  <2> QED
    BY <2>1
<1> QED
  BY <1>4

\* A set with 0 and the successor of each of its members has every natural number.
THEOREM NatSetInduction ==
    ASSUME NEW T, 0 \in T, \A k \in Nat : k \in T => k + 1 \in T
    PROVE  Nat \subseteq T
<1> DEFINE C == Nat \ T
<1> SUFFICES ASSUME C # {} PROVE FALSE
  OBVIOUS
<1>1. PICK m \in C : \A k \in C : m <= k
  <2>1. C \in SUBSET Nat
    OBVIOUS
  <2> HIDE DEF C
  <2> QED
    BY <2>1, LeastNatural
<1>2. m - 1 \in Nat /\ m - 1 \notin C
  BY <1>1
<1> QED
  BY <1>1, <1>2

\* A set with the empty sequence, and with one element more of each of its sequences
\* over S, has every sequence over S.
THEOREM SeqInduction ==
    ASSUME NEW S, NEW T, <<>> \in T,
           \A s \in Seq(S) : \A c \in S : s \in T => Append(s, c) \in T
    PROVE  Seq(S) \subseteq T
<1> DEFINE L == {n \in Nat : \A s \in Seq(S) : Len(s) = n => s \in T}
<1>1. 0 \in L
  OBVIOUS
<1>2. ASSUME NEW n \in Nat, n \in L PROVE n + 1 \in L
  <2>1. ASSUME NEW s \in Seq(S), Len(s) = n + 1 PROVE s \in T
    <3> DEFINE front == SubSeq(s, 1, n)
    <3>1. front \in Seq(S) /\ Len(front) = n /\ s[n + 1] \in S
      BY <2>1
    <3>2. s = Append(front, s[n + 1])
      <4>1. /\ Append(front, s[n + 1]) \in Seq(S)
            /\ Len(Append(front, s[n + 1])) = n + 1
        BY <3>1
      <4>2. ASSUME NEW i \in 1 .. n + 1 PROVE s[i] = Append(front, s[n + 1])[i]
        BY <2>1, <3>1, <4>2
      <4> HIDE DEF front
      <4> QED
        BY <2>1, <4>1, <4>2
    <3> HIDE DEF front
    <3> QED
      BY <1>2, <3>1, <3>2
  <2> QED
    BY <2>1
<1> HIDE DEF L
<1>3. Nat \subseteq L
  BY <1>1, <1>2, NatSetInduction
<1> QED
  BY <1>3 DEF L

\* A family that has a subset of X whenever it has it without any one member has them all.
THEOREM FiniteSetDescent ==
    ASSUME NEW X, IsFiniteSet(X), NEW F,
           \A A \in SUBSET X : (\A x \in A : A \ {x} \in F) => A \in F
    PROVE  SUBSET X \subseteq F
<1> DEFINE R == StrictSubsetOrdering(X)
           C == {A \in SUBSET X : A \notin F}
<1> SUFFICES ASSUME C # {} PROVE FALSE
  OBVIOUS
<1>1. IsWellFoundedOn(R, SUBSET X)
  <2>1. IsWellFoundedOn(R, FiniteSubsetsOf(X))
    BY ONLY FS_StrictSubsetOrderingWellFounded
  <2>2. FiniteSubsetsOf(X) = SUBSET X
    BY ONLY IsFiniteSet(X), FS_FiniteSubsetsOfFinite
  <2> QED
    BY ONLY <2>1, <2>2
<1>2. PICK A \in C : \A B \in C : <<B, A>> \notin R
  <2>1. C \subseteq SUBSET X
    OBVIOUS
  <2> HIDE DEF C, R
  <2> QED
    BY <1>1, <2>1, WFMin
<1>3. ASSUME NEW x \in A PROVE A \ {x} \in F
  <2>1. A \ {x} \in SUBSET X /\ A \in SUBSET X /\ A \ {x} # A
    BY <1>2, <1>3
  <2>2. <<A \ {x}, A>> \in R
    BY <2>1 DEF StrictSubsetOrdering
  <2> QED
    BY <1>2, <2>1, <2>2
<1> QED
  BY <1>2, <1>3

\* A family of subsets of X that has the empty set, and A with one more member of X
\* whenever it has A, has X.
THEOREM FiniteSetInduction ==
    ASSUME NEW X, IsFiniteSet(X), NEW F,
           {} \in F,
           \A A \in SUBSET X : \A x \in X \ A : A \in F => A \cup {x} \in F
    PROVE  X \in F
<1>1. ASSUME NEW A \in SUBSET X, \A x \in A : A \ {x} \in F
      PROVE  A \in F
  <2>1. CASE A = {}
    BY <2>1
  <2>2. CASE A # {}
    <3>1. PICK x \in A : A \ {x} \in F
      BY <1>1, <2>2
    <3> DEFINE B == A \ {x}
    <3>2. B \in SUBSET X /\ x \in X \ B /\ A = B \cup {x} /\ B \in F
      BY <3>1
    <3> HIDE DEF B
    <3> QED
      BY <3>2
  <2> QED
    BY <2>1, <2>2
<1> QED
  BY <1>1, FiniteSetDescent

\* A finite set of integers that is not empty has Min and Max.
THEOREM MinMax ==
    ASSUME NEW S \in SUBSET Int, IsFiniteSet(S), S # {}
    PROVE  /\ Min(S) \in S /\ \A k \in S : Min(S) <= k
           /\ Max(S) \in S /\ \A k \in S : k <= Max(S)
<1> DEFINE F == {A \in SUBSET S : A # {} => /\ \E m \in A : \A k \in A : k <= m
                                            /\ \E m \in A : \A k \in A : m <= k}
<1>1. {} \in F
  OBVIOUS
<1>2. ASSUME NEW A \in SUBSET S, NEW x \in S \ A, A \in F
      PROVE  A \cup {x} \in F
  <2>1. CASE A = {}
    BY <2>1
  <2>2. CASE A # {}
    <3>1. PICK m \in A : \A k \in A : k <= m
      BY <1>2, <2>2
    <3>2. PICK l \in A : \A k \in A : l <= k
      BY <1>2, <2>2
    <3>3. \E y \in A \cup {x} : \A k \in A \cup {x} : k <= y
      <4>1. CASE x <= m
        BY <3>1, <4>1
      <4>2. CASE ~(x <= m)
        <5>1. \A k \in A \cup {x} : k <= x
          BY <3>1, <4>2
        <5> QED
          BY <5>1
      <4> QED
        BY <4>1, <4>2
    <3>4. \E y \in A \cup {x} : \A k \in A \cup {x} : y <= k
      <4>1. CASE l <= x
        BY <3>2, <4>1
      <4>2. CASE ~(l <= x)
        <5>1. \A k \in A \cup {x} : x <= k
          BY <3>2, <4>2
        <5> QED
          BY <5>1
      <4> QED
        BY <4>1, <4>2
    <3> QED
      BY <3>3, <3>4
  <2> QED
    BY <2>1, <2>2
<1>3. S \in F
  <2> HIDE DEF F
  <2> QED
    BY <1>1, <1>2, FiniteSetInduction
<1>4. \E m \in S : \A k \in S : m >= k
  BY <1>3
<1>5. \E m \in S : \A k \in S : m =< k
  BY <1>3
<1> QED
  BY <1>4, <1>5 DEF Min, Max

\* So has the image of a finite set, and more is never less.
THEOREM MaxOfImage ==
    ASSUME NEW X, IsFiniteSet(X), NEW f \in [X -> Nat],
           NEW B \in SUBSET X, NEW A \in SUBSET B, A # {}
    PROVE  /\ Max({f[x] : x \in A}) \in Nat
           /\ Max({f[x] : x \in A}) <= Max({f[x] : x \in B})
<1>1. ASSUME NEW S \in SUBSET X, S # {}
      PROVE  /\ {f[x] : x \in S} \in SUBSET Nat /\ {f[x] : x \in S} # {}
             /\ IsFiniteSet({f[x] : x \in S})
  <2> DEFINE g == [x \in S |-> f[x]]
             T == {f[x] : x \in S}
  <2>1. g \in Surjection(S, T)
    BY DEF Surjection
  <2>2. IsFiniteSet(S)
    BY FS_Subset
  <2> QED
    BY <1>1, <2>1, <2>2, FS_Surjection
<1>2. A \in SUBSET X /\ B # {}
  OBVIOUS
<1> DEFINE SA == {f[x] : x \in A}
           SB == {f[x] : x \in B}
<1>3. SA \subseteq SB
  OBVIOUS
<1>4. SA \in SUBSET Nat /\ SA # {} /\ IsFiniteSet(SA)
  BY <1>1, <1>2
<1>5. SB \in SUBSET Nat /\ SB # {} /\ IsFiniteSet(SB)
  BY <1>1, <1>2
<1> HIDE DEF SA, SB
<1>6. Max(SA) \in SA
  BY <1>4, MinMax
<1>7. \A k \in SB : k <= Max(SB)
  BY <1>5, MinMax
<1> QED
  BY <1>3, <1>4, <1>6, <1>7 DEF SA, SB

-----------------------------------------------------------------------------
(* Sums *)

\* What MapThenSumSet computes of the values v on X and its subsets, and of X.
AnyOf(A) == CHOOSE x \in A : TRUE
SumStep(v, g, A) == IF A = {} THEN 0 ELSE v[AnyOf(A)] + g[A \ {AnyOf(A)}]
Totals(v, X) == CHOOSE g : g = [A \in SUBSET X |-> SumStep(v, g, A)]
Total(v, X) == Totals(v, X)[X]

\* Some function meets the recursion on the subsets of X.
LEMMA TotalsExist ==
    ASSUME NEW X, IsFiniteSet(X), NEW v \in [X -> Nat]
    PROVE  \E g \in [SUBSET X -> Nat] : \A A \in SUBSET X : g[A] = SumStep(v, g, A)
<1> DEFINE Upto(g, k) ==
             \A A \in SUBSET X : Cardinality(A) <= k => g[A] = SumStep(v, g, A)
           F == {k \in Nat : \E g \in [SUBSET X -> Nat] : Upto(g, k)}
<1>1. \A A \in SUBSET X :
        /\ IsFiniteSet(A) /\ Cardinality(A) \in Nat /\ Cardinality(A) <= Cardinality(X)
        /\ A # {} => /\ AnyOf(A) \in A /\ v[AnyOf(A)] \in Nat
                     /\ A \ {AnyOf(A)} \in SUBSET X
                     /\ Cardinality(A \ {AnyOf(A)}) = Cardinality(A) - 1
  BY FS_Subset, FS_CardinalityType, FS_RemoveElement DEF AnyOf
<1>2. 0 \in F
  <2> DEFINE z == [A \in SUBSET X |-> 0]
  <2>1. z \in [SUBSET X -> Nat]
    OBVIOUS
  <2>2. Upto(z, 0)
    <3> SUFFICES ASSUME NEW A \in SUBSET X, Cardinality(A) <= 0
                 PROVE  z[A] = SumStep(v, z, A)
      OBVIOUS
    <3>1. A = {}
      <4>1. IsFiniteSet(A) /\ Cardinality(A) \in Nat
        BY <1>1
      <4>2. Cardinality(A) = 0
        BY <4>1
      <4> QED
        BY <4>1, <4>2, FS_EmptySet
    <3> QED
      BY <3>1 DEF SumStep
  <2> QED
    BY <2>1, <2>2
<1>3. ASSUME NEW k \in Nat, k \in F PROVE k + 1 \in F
  <2>1. PICK g \in [SUBSET X -> Nat] : Upto(g, k)
    BY <1>3
  <2> DEFINE h == [A \in SUBSET X |-> SumStep(v, g, A)]
  <2>2. h \in [SUBSET X -> Nat]
    BY <1>1 DEF SumStep
  <2>3. Upto(h, k + 1)
    <3> SUFFICES ASSUME NEW A \in SUBSET X, Cardinality(A) <= k + 1
                 PROVE  h[A] = SumStep(v, h, A)
      OBVIOUS
    <3>1. CASE A = {}
      BY <3>1 DEF SumStep
    <3>2. CASE A # {}
      <4> DEFINE B == A \ {AnyOf(A)}
      <4>1. B \in SUBSET X /\ Cardinality(B) <= k
        BY <1>1, <3>2
      <4>2. h[B] = g[B]
        BY <2>1, <4>1
      <4> QED
        BY <3>2, <4>1, <4>2 DEF SumStep
    <3> QED
      BY <3>1, <3>2
  <2>4. \E f \in [SUBSET X -> Nat] : Upto(f, k + 1)
    <3> HIDE DEF Upto, h
    <3> QED
      BY <2>2, <2>3
  <2> HIDE DEF Upto
  <2> QED
    BY <2>4
<1>4. Cardinality(X) \in F
  <2> HIDE DEF F
  <2> QED
    BY <1>2, <1>3, NatSetInduction, FS_CardinalityType
<1>5. PICK g \in [SUBSET X -> Nat] : Upto(g, Cardinality(X))
  BY <1>4
<1>6. \A A \in SUBSET X : g[A] = SumStep(v, g, A)
  BY <1>1, <1>5
<1> QED
  BY <1>6

\* So Totals is one, and meets the recursion.
THEOREM TotalsDef ==
    ASSUME NEW X, IsFiniteSet(X), NEW v \in [X -> Nat]
    PROVE  /\ Totals(v, X) \in [SUBSET X -> Nat]
           /\ \A A \in SUBSET X : Totals(v, X)[A] = SumStep(v, Totals(v, X), A)
<1> DEFINE g == Totals(v, X)
<1>1. \E f : f = [A \in SUBSET X |-> SumStep(v, f, A)]
  <2>1. PICK f \in [SUBSET X -> Nat] : \A A \in SUBSET X : f[A] = SumStep(v, f, A)
    BY ONLY IsFiniteSet(X), v \in [X -> Nat], TotalsExist, ZenonT(30)
  <2>2. f = [A \in SUBSET X |-> SumStep(v, f, A)]
    BY <2>1
  <2> QED
    BY <2>2
<1>2. g = [A \in SUBSET X |-> SumStep(v, g, A)]
  BY <1>1 DEF Totals
<1> HIDE DEF g
<1>3. \A A \in SUBSET X : g[A] = SumStep(v, g, A)
  BY <1>2
<1> DEFINE F == {A \in SUBSET X : g[A] \in Nat}
<1>4. ASSUME NEW A \in SUBSET X, \A x \in A : A \ {x} \in F
      PROVE  A \in F
  <2>1. CASE A = {}
    <3>1. g[A] = 0
      BY <1>3, <2>1 DEF SumStep
    <3> QED
      BY <3>1
  <2>2. CASE A # {}
    <3>1. AnyOf(A) \in A /\ v[AnyOf(A)] \in Nat
      BY <2>2 DEF AnyOf
    <3>2. g[A \ {AnyOf(A)}] \in Nat
      BY <1>4, <3>1
    <3>3. g[A] = v[AnyOf(A)] + g[A \ {AnyOf(A)}]
      BY <1>3, <2>2 DEF SumStep
    <3>4. \A a, b \in Nat : a + b \in Nat
      OBVIOUS
    <3>5. g[A] \in Nat
      BY ONLY <3>1, <3>2, <3>3, <3>4
    <3> QED
      BY <3>5
  <2> QED
    BY <2>1, <2>2
<1>5. SUBSET X \subseteq F
  <2> HIDE DEF F
  <2> QED
    BY <1>4, FiniteSetDescent
<1> QED
  BY <1>2, <1>3, <1>5 DEF g

\* What is summed does not depend on the set the values are given on.
THEOREM TotalsAgree ==
    ASSUME NEW X, IsFiniteSet(X), NEW v \in [X -> Nat],
           NEW Y \in SUBSET X, NEW w \in [Y -> Nat], \A x \in Y : w[x] = v[x]
    PROVE  Total(w, Y) = Totals(v, X)[Y]
<1> DEFINE g == Totals(v, X)
           h == Totals(w, Y)
           F == {A \in SUBSET Y : h[A] = g[A]}
<1>1. IsFiniteSet(Y)
  BY FS_Subset
<1>2. \A A \in SUBSET Y : g[A] = SumStep(v, g, A)
  BY TotalsDef
<1>3. \A A \in SUBSET Y : h[A] = SumStep(w, h, A)
  BY <1>1, TotalsDef
<1> HIDE DEF g, h
<1>4. ASSUME NEW A \in SUBSET Y, \A x \in A : A \ {x} \in F
      PROVE  A \in F
  <2>1. CASE A = {}
    BY <1>2, <1>3, <2>1 DEF SumStep
  <2>2. CASE A # {}
    <3>1. AnyOf(A) \in A
      BY <2>2 DEF AnyOf
    <3>2. h[A \ {AnyOf(A)}] = g[A \ {AnyOf(A)}] /\ w[AnyOf(A)] = v[AnyOf(A)]
      BY <1>4, <3>1
    <3> QED
      BY <1>2, <1>3, <2>2, <3>2 DEF SumStep
  <2> QED
    BY <2>1, <2>2
<1>5. SUBSET Y \subseteq F
  <2> HIDE DEF F
  <2> QED
    BY <1>1, <1>4, FiniteSetDescent
<1> QED
  BY <1>5 DEF g, h, Total

\* Any member may be taken first.
THEOREM TotalsRemove ==
    ASSUME NEW X, IsFiniteSet(X), NEW v \in [X -> Nat],
           NEW B \in SUBSET X, NEW y \in B
    PROVE  Totals(v, X)[B] = v[y] + Totals(v, X)[B \ {y}]
<1> DEFINE g == Totals(v, X)
           F == {A \in SUBSET X : \A x \in A : g[A] = v[x] + g[A \ {x}]}
<1>1. /\ g \in [SUBSET X -> Nat]
      /\ \A A \in SUBSET X : g[A] = SumStep(v, g, A)
  BY TotalsDef
<1> HIDE DEF g
<1>2. ASSUME NEW A \in SUBSET X, \A x \in A : A \ {x} \in F, NEW x \in A
      PROVE  g[A] = v[x] + g[A \ {x}]
  <2> DEFINE c == AnyOf(A)
             D == (A \ {x}) \ {c}
  <2>1. c \in A /\ A # {}
    BY DEF AnyOf
  <2>2. g[A] = v[c] + g[A \ {c}]
    BY <1>1, <2>1 DEF SumStep
  <2> HIDE DEF c
  <2>3. CASE c = x
    BY <2>2, <2>3
  <2>4. CASE c # x
    <3>1. D = (A \ {c}) \ {x}
      OBVIOUS
    <3>2. g[A \ {c}] = v[x] + g[D]
      <4>1. A \ {c} \in F /\ x \in A \ {c}
        BY <1>2, <2>1, <2>4
      <4> HIDE DEF D
      <4> QED
        BY <3>1, <4>1
    <3>3. g[A \ {x}] = v[c] + g[D]
      <4>1. A \ {x} \in F /\ c \in A \ {x}
        BY <1>2, <2>1, <2>4
      <4> QED
        BY <4>1
    <3>4. v[c] \in Nat /\ v[x] \in Nat /\ g[D] \in Nat
      BY <1>1, <2>1
    <3> HIDE DEF D
    <3> QED
      BY <2>2, <3>2, <3>3, <3>4
  <2> QED
    BY <2>3, <2>4
<1>3. \A A \in SUBSET X : (\A x \in A : A \ {x} \in F) => A \in F
  BY <1>2
<1>4. SUBSET X \subseteq F
  <2> HIDE DEF F
  <2> QED
    BY <1>3, FiniteSetDescent
<1> QED
  BY <1>4 DEF g

\* A sum over a set is at least that over a part of it.
THEOREM TotalsGrow ==
    ASSUME NEW X, IsFiniteSet(X), NEW v \in [X -> Nat],
           NEW B \in SUBSET X, NEW A \in SUBSET B
    PROVE  /\ Totals(v, X)[A] \in Nat /\ Totals(v, X)[B] \in Nat
           /\ Totals(v, X)[A] <= Totals(v, X)[B]
<1> DEFINE g == Totals(v, X)
           F == {C \in SUBSET X : A \subseteq C => g[A] <= g[C]}
<1>1. g \in [SUBSET X -> Nat]
  BY TotalsDef
<1>2. ASSUME NEW C \in SUBSET X, \A x \in C : C \ {x} \in F
      PROVE  C \in F
  <2> SUFFICES ASSUME A \subseteq C PROVE g[A] <= g[C]
    OBVIOUS
  <2>1. CASE A = C
    BY <1>1, <2>1
  <2>2. CASE A # C
    <3>1. PICK x \in C : x \notin A
      BY <2>2
    <3>2. g[C] = v[x] + g[C \ {x}]
      BY <3>1, TotalsRemove
    <3>3. g[A] <= g[C \ {x}]
      BY <1>2, <3>1
    <3>4. v[x] \in Nat /\ g[C \ {x}] \in Nat /\ g[A] \in Nat
      BY <1>1, <3>1
    <3> HIDE DEF g
    <3> QED
      BY <3>2, <3>3, <3>4
  <2> QED
    BY <2>1, <2>2
<1>3. SUBSET X \subseteq F
  <2> HIDE DEF F
  <2> QED
    BY <1>2, FiniteSetDescent
<1> QED
  BY <1>1, <1>3

-----------------------------------------------------------------------------
(* Counting in sequences *)

\* Where a sequence has a member of E.
Hits(s, E) == {i \in DOMAIN s : s[i] \in E}

\* Two sequences, one after the other, have what each has.
THEOREM HitsConcat ==
    ASSUME NEW D, NEW s \in Seq(D), NEW t \in Seq(D), NEW E
    PROVE  /\ IsFiniteSet(Hits(s, E)) /\ IsFiniteSet(Hits(t, E))
           /\ Cardinality(Hits(s \o t, E)) = Cardinality(Hits(s, E)) + Cardinality(Hits(t, E))
<1> DEFINE m == Len(s)
           A == Hits(s, E)
           B == Hits(t, E)
           C == {m + j : j \in B}
<1>1. /\ m \in Nat /\ DOMAIN s = 1 .. m /\ Len(t) \in Nat /\ DOMAIN t = 1 .. Len(t)
      /\ DOMAIN (s \o t) = 1 .. m + Len(t)
      /\ \A i \in 1 .. m : (s \o t)[i] = s[i]
      /\ \A i \in 1 .. Len(t) : (s \o t)[m + i] = t[i]
  OBVIOUS
<1>2. IsFiniteSet(A) /\ IsFiniteSet(B)
  <2>1. IsFiniteSet(1 .. m) /\ IsFiniteSet(1 .. Len(t))
    BY <1>1, FS_Interval
  <2>2. A \in SUBSET (1 .. m) /\ B \in SUBSET (1 .. Len(t))
    BY <1>1 DEF Hits
  <2> QED
    BY <2>1, <2>2, FS_Subset
<1>3. Hits(s \o t, E) = A \cup C
  <2>1. ASSUME NEW i \in Hits(s \o t, E) PROVE i \in A \cup C
    <3>1. i \in 1 .. m + Len(t) /\ (s \o t)[i] \in E
      BY <1>1 DEF Hits
    <3>2. CASE i <= m
      BY <1>1, <3>1, <3>2 DEF Hits
    <3>3. CASE ~(i <= m)
      <4>1. i - m \in 1 .. Len(t) /\ m + (i - m) = i
        BY <1>1, <3>1, <3>3
      <4>2. i - m \in B
        BY <1>1, <3>1, <4>1 DEF Hits
      <4> QED
        BY <4>1, <4>2
    <3> QED
      BY <3>2, <3>3
  <2>2. A \subseteq Hits(s \o t, E)
    BY <1>1 DEF Hits
  <2>3. ASSUME NEW j \in B PROVE m + j \in Hits(s \o t, E)
    <3>1. j \in 1 .. Len(t) /\ t[j] \in E
      BY <1>1 DEF Hits
    <3>2. m + j \in 1 .. m + Len(t) /\ (s \o t)[m + j] = t[j]
      BY <1>1, <3>1
    <3> QED
      BY <1>1, <3>1, <3>2 DEF Hits
  <2> QED
    BY <2>1, <2>2, <2>3
<1>4. A \subseteq 1 .. m /\ B \subseteq 1 .. Len(t)
  BY <1>1 DEF Hits
<1>5. A \cap C = {}
  BY <1>1, <1>4
<1>6. IsFiniteSet(C) /\ Cardinality(C) = Cardinality(B)
  <2> DEFINE f == [j \in B |-> m + j]
  <2>1. f \in Bijection(B, C)
    <3>1. \A j \in B : j \in Nat /\ f[j] = m + j
      BY <1>1, <1>4
    <3>2. f \in [B -> C]
      OBVIOUS
    <3>3. \A j, k \in B : f[j] = f[k] => j = k
      <4> HIDE DEF f, B
      <4> QED
        BY <1>1, <3>1
    <3>4. \A c \in C : \E j \in B : f[j] = c
      OBVIOUS
    <3> HIDE DEF f, B, C
    <3> QED
      BY <3>2, <3>3, <3>4 DEF Bijection, Injection, IsInjective, Surjection
  <2>2. ExistsBijection(B, C)
    BY <2>1 DEF ExistsBijection
  <2> HIDE DEF B, C
  <2> QED
    BY <1>2, <2>2, FS_Bijection
<1>7. Cardinality(A \cup C) = Cardinality(A) + Cardinality(C) - Cardinality(A \cap C)
  <2> HIDE DEF A, B, C
  <2> QED
    BY <1>2, <1>6, FS_Union
<1>8. Cardinality(A) \in Nat /\ Cardinality(C) \in Nat /\ Cardinality(A \cap C) = 0
  <2> HIDE DEF A, C
  <2> QED
    BY <1>2, <1>5, <1>6, FS_CardinalityType, FS_EmptySet
<1> HIDE DEF A, B, C
<1> QED
  BY <1>2, <1>3, <1>6, <1>7, <1>8 DEF A, B

\* One element more has what the sequence has, and itself.
THEOREM HitsAppend ==
    ASSUME NEW D, NEW s \in Seq(D), NEW e \in D, NEW E
    PROVE  /\ IsFiniteSet(Hits(s, E)) /\ Cardinality(Hits(s, E)) \in Nat
           /\ Cardinality(Hits(Append(s, e), E))
                = Cardinality(Hits(s, E)) + IF e \in E THEN 1 ELSE 0
<1>1. <<e>> \in Seq(D) /\ Append(s, e) = s \o <<e>>
  OBVIOUS
<1>2. Cardinality(Hits(<<e>>, E)) = IF e \in E THEN 1 ELSE 0
  <2>1. Hits(<<e>>, E) = IF e \in E THEN {1} ELSE {}
    BY DEF Hits
  <2> QED
    BY <2>1, FS_Singleton, FS_EmptySet
<1>3. /\ IsFiniteSet(Hits(s, E))
      /\ Cardinality(Hits(s \o <<e>>, E))
           = Cardinality(Hits(s, E)) + Cardinality(Hits(<<e>>, E))
  <2> DEFINE t == <<e>>
  <2>1. t \in Seq(D)
    BY <1>1
  <2> HIDE DEF t
  <2>2. /\ IsFiniteSet(Hits(s, E))
        /\ Cardinality(Hits(s \o t, E)) = Cardinality(Hits(s, E)) + Cardinality(Hits(t, E))
    BY <2>1, HitsConcat
  <2> QED
    BY <2>2 DEF t
<1>4. Cardinality(Hits(s, E)) \in Nat
  BY <1>3, FS_CardinalityType
<1> QED
  BY <1>1, <1>2, <1>3, <1>4

-----------------------------------------------------------------------------
(* Left folds, step by step.  Op is a constant, so each fold of a model is an *)
(* instance of this module: what follows is proved once for all of them.      *)

Folded(p, base, seq) == FoldLeft(LAMBDA acc, x : Op(p, acc, x), base, seq)

\* FoldLeft's recursion, over the sets of a sequence's positions.
Iterates(p, base, seq, n, f) ==
    f = [T \in SUBSET (1 .. n) |->
            IF T = {} THEN base ELSE Op(p, f[T \ {Max(T)}], seq[Max(T)])]

LEMMA MaxIsLast ==
    ASSUME NEW n \in Nat, NEW T \in SUBSET (1 .. n), T # {}
    PROVE  Max(T) \in T /\ (\A k \in T : k <= Max(T))
<1>1. T \in SUBSET Int
  OBVIOUS
<1>2. IsFiniteSet(T)
  <2>1. IsFiniteSet(1 .. n)
    BY FS_Interval
  <2> QED
    BY <2>1, FS_Subset
<1> QED
  BY <1>1, <1>2, MinMax

LEMMA MaxIsTop ==
    ASSUME NEW n \in Nat, NEW T \in SUBSET (1 .. n), n \in T
    PROVE  Max(T) = n
<1>1. Max(T) \in T /\ (\A k \in T : k <= Max(T))
  BY MaxIsLast
<1>2. Max(T) \in 1 .. n /\ n <= Max(T)
  BY <1>1
<1> QED
  BY <1>2

\* The recursion has a solution.
LEMMA FoldExists ==
    ASSUME NEW p, NEW base, NEW seq, NEW n \in Nat
    PROVE  \E f : Iterates(p, base, seq, n, f)
<1> DEFINE L == {k \in Nat : \E f : Iterates(p, base, seq, k, f)}
<1>1. 0 \in L
  <2>1. SUBSET (1 .. 0) = {{}}
    OBVIOUS
  <2>2. Iterates(p, base, seq, 0, [T \in {{}} |-> base])
    BY <2>1 DEF Iterates
  <2> QED
    BY <2>2
<1>2. ASSUME NEW k \in Nat, k \in L PROVE k + 1 \in L
  <2>1. PICK f : Iterates(p, base, seq, k, f)
    BY <1>2
  <2> DEFINE g == [T \in SUBSET (1 .. k + 1) |->
                      IF k + 1 \in T THEN Op(p, f[T \ {k + 1}], seq[k + 1]) ELSE f[T]]
             h == [T \in SUBSET (1 .. k + 1) |->
                      IF T = {} THEN base ELSE Op(p, g[T \ {Max(T)}], seq[Max(T)])]
  <2>2. ASSUME NEW T \in SUBSET (1 .. k + 1) PROVE g[T] = h[T]
    <3>1. CASE k + 1 \in T
      <4>1. Max(T) = k + 1
        <5> DEFINE m == k + 1
        <5>1. m \in Nat /\ T \in SUBSET (1 .. m) /\ m \in T
          BY <3>1
        <5> HIDE DEF m, g, h
        <5>2. Max(T) = m
          BY <5>1, MaxIsTop
        <5> QED
          BY <5>2 DEF m
      <4>2. T \ {k + 1} \in SUBSET (1 .. k) /\ k + 1 \notin T \ {k + 1}
        OBVIOUS
      <4>3. g[T \ {k + 1}] = f[T \ {k + 1}]
        BY <4>2
      <4>4. T # {}
        BY <3>1
      <4>5. g[T] = Op(p, f[T \ {k + 1}], seq[k + 1])
        BY <3>1
      <4>6. h[T] = Op(p, g[T \ {Max(T)}], seq[Max(T)])
        <5> HIDE DEF g
        <5> QED
          BY <4>4
      <4> HIDE DEF g, h
      <4> QED
        BY <4>1, <4>3, <4>5, <4>6
    <3>2. CASE k + 1 \notin T
      <4>1. T \in SUBSET (1 .. k)
        BY <3>2
      <4>2. f[T] = IF T = {} THEN base ELSE Op(p, f[T \ {Max(T)}], seq[Max(T)])
        BY <2>1, <4>1 DEF Iterates
      <4>3. ASSUME T # {} PROVE g[T \ {Max(T)}] = f[T \ {Max(T)}]
        <5>1. T \ {Max(T)} \in SUBSET (1 .. k + 1) /\ k + 1 \notin T \ {Max(T)}
          BY <3>2
        <5> QED
          BY <5>1
      <4>4. g[T] = f[T]
        BY <3>2
      <4>5. h[T] = IF T = {} THEN base ELSE Op(p, g[T \ {Max(T)}], seq[Max(T)])
        <5> HIDE DEF g
        <5> QED
          OBVIOUS
      <4> HIDE DEF g, h
      <4> QED
        BY <4>2, <4>3, <4>4, <4>5
    <3> QED
      BY <3>1, <3>2
  <2>3. g = h
    <3> HIDE DEF g
    <3>1. DOMAIN h = SUBSET (1 .. k + 1)
      OBVIOUS
    <3>2. g = [T \in SUBSET (1 .. k + 1) |-> g[T]]
      BY DEF g
    <3> QED
      BY <2>2, <3>2
  <2>4. Iterates(p, base, seq, k + 1, g)
    <3> HIDE DEF g
    <3> QED
      BY <2>3 DEF Iterates
  <2> QED
    BY <2>4
<1> HIDE DEF L
<1>3. Nat \subseteq L
  BY <1>1, <1>2, NatSetInduction
<1> QED
  BY <1>3 DEF L

\* The recursion's value over the first k positions is the fold of their elements.
LEMMA FoldIs ==
    ASSUME NEW p, NEW base, NEW S, NEW seq \in Seq(S)
    PROVE  \E f : /\ Iterates(p, base, seq, Len(seq), f)
                  /\ Folded(p, base, seq) = f[1 .. Len(seq)]
<1> DEFINE n == Len(seq)
           f == CHOOSE f : Iterates(p, base, seq, n, f)
<1>1. n \in Nat /\ DOMAIN seq = 1 .. n
  OBVIOUS
<1>2. Iterates(p, base, seq, n, f)
  BY <1>1, FoldExists
<1>3. Folded(p, base, seq) = f[1 .. n]
  <2>1. Folded(p, base, seq) =
            LET it == CHOOSE g : g = [T \in SUBSET DOMAIN seq |->
                          IF T = {} THEN base ELSE Op(p, g[T \ {Max(T)}], seq[Max(T)])]
            IN it[DOMAIN seq]
    BY DEF Folded, FoldLeft, MapThenFoldSet
  <2> QED
    BY <1>1, <2>1 DEF Iterates
<1> QED
  BY <1>2, <1>3

\* The fold of nothing is the base.
THEOREM FoldNil ==
    ASSUME NEW p, NEW base
    PROVE  Folded(p, base, <<>>) = base
<1>1. <<>> \in Seq({}) /\ Len(<<>>) = 0
  OBVIOUS
<1>2. PICK f : /\ Iterates(p, base, <<>>, Len(<<>>), f)
               /\ Folded(p, base, <<>>) = f[1 .. Len(<<>>)]
  BY <1>1, FoldIs
<1>3. 1 .. Len(<<>>) = {} /\ {} \in SUBSET (1 .. Len(<<>>))
  BY <1>1
<1>4. f[{}] = base
  BY <1>2, <1>3 DEF Iterates
<1> QED
  BY <1>2, <1>3, <1>4

\* Two solutions for sequences that agree up to k agree on the first k positions.
LEMMA FoldsAgree ==
    ASSUME NEW p, NEW base, NEW s, NEW t, NEW m \in Nat, NEW n \in Nat, m <= n,
           \A i \in 1 .. m : s[i] = t[i],
           NEW f, Iterates(p, base, s, m, f), NEW g, Iterates(p, base, t, n, g)
    PROVE  f[1 .. m] = g[1 .. m]
<1> DEFINE L == {k \in Nat : k <= m => f[1 .. k] = g[1 .. k]}
<1>1. 0 \in L
  <2>1. 1 .. 0 = {} /\ {} \in SUBSET (1 .. m) /\ {} \in SUBSET (1 .. n)
    OBVIOUS
  <2>2. f[{}] = base /\ g[{}] = base
    BY <2>1 DEF Iterates
  <2> QED
    BY <2>1, <2>2
<1>2. ASSUME NEW k \in Nat, k \in L PROVE k + 1 \in L
  <2> SUFFICES ASSUME k + 1 <= m PROVE f[1 .. k + 1] = g[1 .. k + 1]
    OBVIOUS
  <2> DEFINE T == 1 .. k + 1
  <2>1. T \in SUBSET (1 .. m) /\ T \in SUBSET (1 .. n) /\ T # {}
    OBVIOUS
  <2>2. Max(T) = k + 1
    <3> DEFINE l == k + 1
    <3>1. l \in Nat /\ T \in SUBSET (1 .. l) /\ l \in T
      OBVIOUS
    <3> HIDE DEF T, l
    <3>2. Max(T) = l
      BY <3>1, MaxIsTop
    <3> QED
      BY <3>2 DEF l
  <2>3. T \ {Max(T)} = 1 .. k
    BY <2>2
  <2> HIDE DEF T
  <2>4. /\ f[T] = Op(p, f[T \ {Max(T)}], s[Max(T)])
        /\ g[T] = Op(p, g[T \ {Max(T)}], t[Max(T)])
    BY <2>1 DEF Iterates
  <2>5. f[1 .. k] = g[1 .. k] /\ s[k + 1] = t[k + 1]
    BY <1>2
  <2> QED
    BY <2>2, <2>3, <2>4, <2>5 DEF T
<1> HIDE DEF L
<1>3. Nat \subseteq L
  BY <1>1, <1>2, NatSetInduction
<1> QED
  BY <1>3 DEF L

\* The last element is folded in last.
THEOREM FoldAppend ==
    ASSUME NEW p, NEW base, NEW S, NEW seq \in Seq(S), NEW x \in S
    PROVE  Folded(p, base, Append(seq, x)) = Op(p, Folded(p, base, seq), x)
<1> DEFINE n == Len(seq)
           more == Append(seq, x)
           T == 1 .. n + 1
<1>1. n \in Nat /\ more \in Seq(S) /\ Len(more) = n + 1 /\ more[n + 1] = x
  OBVIOUS
<1>2. \A i \in 1 .. n : seq[i] = more[i]
  OBVIOUS
<1> HIDE DEF more
<1>3. PICK f : Iterates(p, base, seq, n, f) /\ Folded(p, base, seq) = f[1 .. n]
  BY FoldIs
<1>4. PICK g : Iterates(p, base, more, n + 1, g) /\ Folded(p, base, more) = g[1 .. n + 1]
  BY <1>1, FoldIs
<1> HIDE DEF n
<1>5. f[1 .. n] = g[1 .. n]
  BY <1>1, <1>2, <1>3, <1>4, FoldsAgree
<1>6. n + 1 \in Nat /\ T \in SUBSET (1 .. n + 1) /\ n + 1 \in T /\ T # {}
  <2>1. n + 1 \in Nat /\ n + 1 \in T
    BY <1>1
  <2>2. T \in SUBSET (1 .. n + 1)
    OBVIOUS
  <2> HIDE DEF T
  <2> QED
    BY <2>1, <2>2
<1>7. Max(T) = n + 1
  <2> DEFINE m == n + 1
  <2>1. m \in Nat /\ T \in SUBSET (1 .. m) /\ m \in T
    BY <1>6
  <2> HIDE DEF T, m
  <2>2. Max(T) = m
    BY <2>1, MaxIsTop
  <2> QED
    BY <2>2 DEF m
<1>8. T \ {Max(T)} = 1 .. n
  BY <1>1, <1>7
<1> HIDE DEF T
<1>9. g[T] = Op(p, g[T \ {Max(T)}], more[Max(T)])
  BY <1>4, <1>6 DEF Iterates
<1> QED
  BY <1>1, <1>3, <1>4, <1>5, <1>7, <1>8, <1>9 DEF more, T

-----------------------------------------------------------------------------
(* Flattened sequences *)

\* FlattenSeq's recursion has a solution.
Flattens(seqs, n, f) == f = [i \in 1 .. n |-> IF i = 1 THEN seqs[i] ELSE f[i - 1] \o seqs[i]]

LEMMA FlattenExists ==
    ASSUME NEW seqs, NEW n \in Nat
    PROVE  \E f : Flattens(seqs, n, f)
<1> DEFINE L == {k \in Nat : \E f : Flattens(seqs, k, f)}
<1>1. 0 \in L
  <2>1. Flattens(seqs, 0, [i \in {} |-> i])
    BY DEF Flattens
  <2> QED
    BY <2>1
<1>2. ASSUME NEW k \in Nat, k \in L PROVE k + 1 \in L
  <2>1. PICK f : Flattens(seqs, k, f)
    BY <1>2
  <2> DEFINE g == [i \in 1 .. k + 1 |-> IF i = k + 1
                      THEN IF i = 1 THEN seqs[i] ELSE f[i - 1] \o seqs[i] ELSE f[i]]
  <2>2. ASSUME NEW i \in 1 .. k + 1
        PROVE  g[i] = IF i = 1 THEN seqs[i] ELSE g[i - 1] \o seqs[i]
    <3>1. CASE i = k + 1
      BY <3>1
    <3>2. CASE i # k + 1
      <4>1. i \in 1 .. k /\ g[i] = f[i]
        BY <3>2
      <4>2. i # 1 => g[i - 1] = f[i - 1]
        BY <4>1
      <4> HIDE DEF g
      <4>3. f[i] = IF i = 1 THEN seqs[i] ELSE f[i - 1] \o seqs[i]
        BY <2>1, <4>1 DEF Flattens
      <4> QED
        BY <4>1, <4>2, <4>3
    <3> QED
      BY <3>1, <3>2
  <2>3. g = [i \in 1 .. k + 1 |-> g[i]]
    OBVIOUS
  <2> HIDE DEF g
  <2>4. Flattens(seqs, k + 1, g)
    BY <2>2, <2>3 DEF Flattens
  <2> QED
    BY <2>4
<1> HIDE DEF L
<1>3. Nat \subseteq L
  BY <1>1, <1>2, NatSetInduction
<1> QED
  BY <1>3 DEF L

LEMMA FlattenIs ==
    ASSUME NEW S, NEW seqs \in Seq(Seq(S)), seqs # <<>>
    PROVE  \E f : Flattens(seqs, Len(seqs), f) /\ FlattenSeq(seqs) = f[Len(seqs)]
<1>1. Len(seqs) \in Nat /\ Len(seqs) # 0
  OBVIOUS
<1> DEFINE f == CHOOSE f : Flattens(seqs, Len(seqs), f)
<1>2. Flattens(seqs, Len(seqs), f)
  BY <1>1, FlattenExists
<1>3. FlattenSeq(seqs) = f[Len(seqs)]
  BY <1>1 DEF FlattenSeq, Flattens
<1> QED
  BY <1>2, <1>3

LEMMA FlattenNil == FlattenSeq(<<>>) = <<>>
BY DEF FlattenSeq

LEMMA FlattenAppend ==
    ASSUME NEW S, NEW seqs \in Seq(Seq(S)), NEW t \in Seq(S)
    PROVE  FlattenSeq(Append(seqs, t)) = FlattenSeq(seqs) \o t
<1> DEFINE n == Len(seqs)
           more == Append(seqs, t)
<1>1. /\ n \in Nat /\ more \in Seq(Seq(S)) /\ Len(more) = n + 1 /\ more # <<>>
      /\ more[n + 1] = t /\ \A i \in 1 .. n : more[i] = seqs[i]
  <2> DEFINE D == Seq(S)
  <2>1. seqs \in Seq(D) /\ t \in D
    OBVIOUS
  <2> HIDE DEF D
  <2>2. /\ n \in Nat /\ more \in Seq(D) /\ Len(more) = n + 1
        /\ more[n + 1] = t /\ \A i \in 1 .. n : more[i] = seqs[i]
    BY <2>1
  <2>3. more # <<>>
    BY <2>2
  <2> QED
    BY <2>2, <2>3 DEF D
<1> HIDE DEF more
<1>2. PICK g : Flattens(more, n + 1, g) /\ FlattenSeq(more) = g[n + 1]
  BY <1>1, FlattenIs
<1>3. CASE seqs = <<>>
  <2>1. n = 0 /\ g[1] = t
    BY <1>1, <1>2, <1>3 DEF Flattens
  <2>2. FlattenSeq(seqs) \o t = t
    BY <1>3, FlattenNil
  <2> QED
    BY <1>2, <2>1, <2>2 DEF more
<1>4. CASE seqs # <<>>
  <2>1. PICK f : Flattens(seqs, n, f) /\ FlattenSeq(seqs) = f[n]
    BY <1>4, FlattenIs
  <2> DEFINE L == {k \in Nat : k + 1 <= n => f[k + 1] = g[k + 1]}
  <2>2. 0 \in L
    <3> SUFFICES ASSUME 1 <= n PROVE f[1] = g[1]
      OBVIOUS
    <3>1. f[1] = seqs[1] /\ g[1] = more[1]
      BY <1>1, <1>2, <2>1 DEF Flattens
    <3> QED
      BY <1>1, <3>1
  <2>3. ASSUME NEW k \in Nat, k \in L PROVE k + 1 \in L
    <3> SUFFICES ASSUME (k + 1) + 1 <= n PROVE f[(k + 1) + 1] = g[(k + 1) + 1]
      OBVIOUS
    <3> DEFINE j == (k + 1) + 1
    <3>1. j \in 1 .. n /\ j \in 1 .. n + 1 /\ j # 1 /\ j - 1 = k + 1
      BY <1>1
    <3> HIDE DEF j, n
    <3>2. f[j] = f[j - 1] \o seqs[j]
      BY <2>1, <3>1 DEF Flattens
    <3>3. g[j] = g[j - 1] \o more[j]
      BY <1>2, <3>1 DEF Flattens
    <3>4. f[j - 1] = g[j - 1]
      BY <1>1, <2>3, <3>1
    <3> QED
      BY <1>1, <3>1, <3>2, <3>3, <3>4 DEF j
  <2> HIDE DEF L
  <2>4. Nat \subseteq L
    BY <2>2, <2>3, NatSetInduction
  <2>5. n - 1 \in Nat
    BY <1>1, <1>4
  <2>6. f[n] = g[n]
    <3>1. n - 1 \in L
      BY <2>4, <2>5
    <3> QED
      BY <1>1, <2>5, <3>1 DEF L
  <2>7. g[n + 1] = g[n] \o t
    <3>1. n + 1 \in 1 .. n + 1 /\ n + 1 # 1 /\ (n + 1) - 1 = n
      BY <1>1, <2>5
    <3> QED
      BY <1>1, <1>2, <3>1 DEF Flattens
  <2> QED
    BY <1>2, <2>1, <2>6, <2>7 DEF more
<1> QED
  BY <1>3, <1>4

LEMMA FlattenType ==
    ASSUME NEW S, NEW seqs \in Seq(Seq(S))
    PROVE  FlattenSeq(seqs) \in Seq(S)
<1> DEFINE D == Seq(S)
           T == {q \in Seq(D) : FlattenSeq(q) \in D}
<1>1. <<>> \in T
  <2>1. <<>> \in D
    OBVIOUS
  <2> HIDE DEF D
  <2>2. <<>> \in Seq(D)
    OBVIOUS
  <2> QED
    BY <2>1, <2>2, FlattenNil
<1>2. ASSUME NEW q \in Seq(D), NEW t \in D, q \in T PROVE Append(q, t) \in T
  <2>1. FlattenSeq(Append(q, t)) = FlattenSeq(q) \o t
    BY FlattenAppend
  <2>2. Append(q, t) \in Seq(D)
    <3> HIDE DEF D
    <3> QED
      OBVIOUS
  <2>3. FlattenSeq(q) \o t \in D
    BY <1>2
  <2> QED
    BY <2>1, <2>2, <2>3
<1> HIDE DEF T, D
<1>3. Seq(D) \subseteq T
  BY <1>1, <1>2, SeqInduction
<1> QED
  BY <1>3 DEF T, D

LEMMA FlattenConcat ==
    ASSUME NEW S, NEW a \in Seq(Seq(S)), NEW b \in Seq(Seq(S))
    PROVE  FlattenSeq(a \o b) = FlattenSeq(a) \o FlattenSeq(b)
<1> DEFINE D == Seq(S)
           T == {q \in Seq(D) : FlattenSeq(a \o q) = FlattenSeq(a) \o FlattenSeq(q)}
<1>0. FlattenSeq(a) \in Seq(S)
  BY FlattenType
<1>1. <<>> \in T
  <2>1. a \o <<>> = a /\ FlattenSeq(a) \o <<>> = FlattenSeq(a)
    BY <1>0
  <2>2. <<>> \in Seq(D)
    <3> HIDE DEF D
    <3> QED
      OBVIOUS
  <2> HIDE DEF D
  <2> QED
    BY <2>1, <2>2, FlattenNil
<1>2. ASSUME NEW q \in Seq(D), NEW t \in D, q \in T PROVE Append(q, t) \in T
  <2>1. /\ a \o q \in Seq(Seq(S)) /\ a \o Append(q, t) = Append(a \o q, t)
        /\ Append(q, t) \in Seq(D)
    <3>1. a \in Seq(D)
      OBVIOUS
    <3> HIDE DEF D
    <3>2. a \o q \in Seq(D) /\ a \o Append(q, t) = Append(a \o q, t) /\ Append(q, t) \in Seq(D)
      BY <3>1
    <3> QED
      BY <3>2 DEF D
  <2>2. FlattenSeq(Append(a \o q, t)) = FlattenSeq(a \o q) \o t
    BY <2>1, FlattenAppend
  <2>3. FlattenSeq(Append(q, t)) = FlattenSeq(q) \o t
    BY FlattenAppend
  <2>4. FlattenSeq(q) \in Seq(S) /\ t \in Seq(S)
    BY FlattenType
  <2>5. (FlattenSeq(a) \o FlattenSeq(q)) \o t = FlattenSeq(a) \o (FlattenSeq(q) \o t)
    BY <1>0, <2>4
  <2> QED
    BY <1>2, <2>1, <2>2, <2>3, <2>5
<1> HIDE DEF T, D
<1>3. Seq(D) \subseteq T
  BY <1>1, <1>2, SeqInduction
<1> QED
  BY <1>3 DEF T, D
=============================================================================
