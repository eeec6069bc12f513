---------------------------- MODULE LoweringProofs ----------------------------
(* Proofs about Lowering, for any calls, contexts, histograms and merges: what a  *)
(* fill's operands become, node by node, is what the call asks for.               *)
EXTENDS Lowering, SetInduction

-----------------------------------------------------------------------------
(* The members of a sequence that are in a set *)

\* A member that stays, and the function that Only takes its result from.
Kept(x, S) == IF x \in S THEN <<x>> ELSE <<>>
Filters(xs, S, n, f) == f = [i \in 0 .. n |-> IF i = 0 THEN <<>> ELSE f[i - 1] \o Kept(xs[i], S)]

LEMMA FiltersExists ==
    ASSUME NEW xs, NEW S, NEW n \in Nat
    PROVE  \E f : Filters(xs, S, n, f)
<1> DEFINE L == {k \in Nat : \E f : Filters(xs, S, k, f)}
<1>1. 0 \in L
  <2>1. Filters(xs, S, 0, [i \in 0 .. 0 |-> <<>>])
    BY DEF Filters
  <2> QED
    BY <2>1
<1>2. ASSUME NEW k \in Nat, k \in L PROVE k + 1 \in L
  <2>1. PICK f : Filters(xs, S, k, f)
    BY <1>2
  <2> DEFINE g == [i \in 0 .. k + 1 |-> IF i = k + 1 THEN f[k] \o Kept(xs[i], S) ELSE f[i]]
  <2>2. ASSUME NEW i \in 0 .. k + 1
        PROVE  g[i] = IF i = 0 THEN <<>> ELSE g[i - 1] \o Kept(xs[i], S)
    <3>1. CASE i = k + 1
      <4>1. i # 0 /\ i - 1 = k /\ g[k] = f[k] /\ g[i] = f[k] \o Kept(xs[i], S)
        BY <3>1
      <4> QED
        BY <4>1
    <3>2. CASE i # k + 1
      <4>1. i \in 0 .. k /\ g[i] = f[i]
        BY <3>2
      <4>2. i # 0 => g[i - 1] = f[i - 1]
        BY <4>1
      <4> HIDE DEF g
      <4>3. f[i] = IF i = 0 THEN <<>> ELSE f[i - 1] \o Kept(xs[i], S)
        BY <2>1, <4>1 DEF Filters
      <4> QED
        BY <4>1, <4>2, <4>3
    <3> QED
      BY <3>1, <3>2
  <2>3. g = [i \in 0 .. k + 1 |-> g[i]]
    OBVIOUS
  <2> HIDE DEF g
  <2>4. Filters(xs, S, k + 1, g)
    BY <2>2, <2>3 DEF Filters
  <2> QED
    BY <2>4
<1> HIDE DEF L
<1>3. Nat \subseteq L
  BY <1>1, <1>2, NatSetInduction
<1> QED
  BY <1>3 DEF L

LEMMA OnlyIs ==
    ASSUME NEW xs, NEW S, Len(xs) \in Nat
    PROVE  \E f : Filters(xs, S, Len(xs), f) /\ Only(xs, S) = f[Len(xs)]
<1> DEFINE f == CHOOSE f : Filters(xs, S, Len(xs), f)
<1>1. Filters(xs, S, Len(xs), f)
  BY FiltersExists
<1>2. Only(xs, S) = f[Len(xs)]
  BY DEF Only, Filters, Kept
<1> QED
  BY <1>1, <1>2

LEMMA OnlyNil == ASSUME NEW S PROVE Only(<<>>, S) = <<>>
<1>1. Len(<<>>) = 0
  OBVIOUS
<1>2. PICK f : Filters(<<>>, S, 0, f) /\ Only(<<>>, S) = f[0]
  BY <1>1, OnlyIs
<1> QED
  BY <1>2 DEF Filters

LEMMA OnlyAppend ==
    ASSUME NEW U, NEW xs \in Seq(U), NEW x \in U, NEW S
    PROVE  Only(Append(xs, x), S) = Only(xs, S) \o Kept(x, S)
<1> DEFINE n == Len(xs)
           more == Append(xs, x)
<1>1. /\ n \in Nat /\ Len(more) = n + 1 /\ more[n + 1] = x
      /\ \A i \in 1 .. n : more[i] = xs[i]
  OBVIOUS
<1> HIDE DEF more
<1>2. PICK f : Filters(xs, S, n, f) /\ Only(xs, S) = f[n]
  BY <1>1, OnlyIs
<1>3. PICK g : Filters(more, S, n + 1, g) /\ Only(more, S) = g[n + 1]
  BY <1>1, OnlyIs
<1> DEFINE L == {k \in Nat : k <= n => f[k] = g[k]}
<1> HIDE DEF n
<1>4. 0 \in L
  BY <1>1, <1>2, <1>3 DEF Filters
<1>5. ASSUME NEW k \in Nat, k \in L PROVE k + 1 \in L
  <2> SUFFICES ASSUME k + 1 <= n PROVE f[k + 1] = g[k + 1]
    OBVIOUS
  <2>1. k + 1 \in 0 .. n /\ k + 1 \in 0 .. n + 1 /\ k + 1 # 0 /\ (k + 1) - 1 = k /\ k + 1 \in 1 .. n
    BY <1>1
  <2>2. f[k + 1] = f[k] \o Kept(xs[k + 1], S)
    BY <1>2, <2>1 DEF Filters
  <2>3. g[k + 1] = g[k] \o Kept(more[k + 1], S)
    BY <1>3, <2>1 DEF Filters
  <2>4. f[k] = g[k]
    BY <1>1, <1>5
  <2> QED
    BY <1>1, <2>1, <2>2, <2>3, <2>4
<1> HIDE DEF L
<1>6. Nat \subseteq L
  BY <1>4, <1>5, NatSetInduction
<1>7. f[n] = g[n]
  BY <1>1, <1>6 DEF L
<1>8. g[n + 1] = g[n] \o Kept(x, S)
  <2>1. n + 1 \in 0 .. n + 1 /\ n + 1 # 0 /\ (n + 1) - 1 = n
    BY <1>1
  <2> QED
    BY <1>1, <1>3, <2>1 DEF Filters
<1> QED
  BY <1>2, <1>3, <1>7, <1>8 DEF more

LEMMA KeptType ==
    ASSUME NEW U, NEW x \in U, NEW S
    PROVE  Kept(x, S) \in Seq(U \cap S) /\ Kept(x, S) \in Seq(U)
<1> DEFINE V == U \cap S
<1>1. x \in S => x \in V
  BY DEF V
<1> HIDE DEF V
<1>2. Kept(x, S) \in Seq(V)
  BY <1>1 DEF Kept
<1>3. Kept(x, S) \in Seq(U)
  BY DEF Kept
<1> QED
  BY <1>2, <1>3 DEF V

\* The members of U in S, and if S has all of U, the whole.
LEMMA OnlyType ==
    ASSUME NEW U, NEW xs \in Seq(U), NEW S
    PROVE  Only(xs, S) \in Seq(U \cap S) /\ Only(xs, S) \in Seq(U)
<1> DEFINE V == U \cap S
           T == {q \in Seq(U) : Only(q, S) \in Seq(V)}
<1> HIDE DEF V
<1>1. <<>> \in T
  <2>1. <<>> \in Seq(U) /\ <<>> \in Seq(V)
    OBVIOUS
  <2> QED
    BY <2>1, OnlyNil
<1>2. ASSUME NEW q \in Seq(U), NEW x \in U, q \in T PROVE Append(q, x) \in T
  <2>1. Only(Append(q, x), S) = Only(q, S) \o Kept(x, S)
    BY OnlyAppend
  <2>2. Kept(x, S) \in Seq(V)
    BY KeptType DEF V
  <2>3. Only(q, S) \o Kept(x, S) \in Seq(V)
    BY <1>2, <2>2
  <2>4. Append(q, x) \in Seq(U)
    OBVIOUS
  <2> QED
    BY <2>1, <2>3, <2>4
<1> HIDE DEF T
<1>3. Seq(U) \subseteq T
  BY <1>1, <1>2, SeqInduction
<1>4. Only(xs, S) \in Seq(V)
  BY <1>3 DEF T
<1>5. Seq(V) \subseteq Seq(U)
  <2>1. V \subseteq U
    BY DEF V
  <2> QED
    BY <2>1
<1> QED
  BY <1>4, <1>5 DEF V

LEMMA OnlyAgree ==
    ASSUME NEW U, NEW xs \in Seq(U), NEW S, NEW R, \A x \in U : x \in S <=> x \in R
    PROVE  Only(xs, S) = Only(xs, R)
<1> DEFINE T == {q \in Seq(U) : Only(q, S) = Only(q, R)}
<1>1. <<>> \in T
  <2>1. <<>> \in Seq(U)
    OBVIOUS
  <2> QED
    BY <2>1, OnlyNil
<1>2. ASSUME NEW q \in Seq(U), NEW x \in U, q \in T PROVE Append(q, x) \in T
  <2>1. /\ Only(Append(q, x), S) = Only(q, S) \o Kept(x, S)
        /\ Only(Append(q, x), R) = Only(q, R) \o Kept(x, R)
    BY OnlyAppend
  <2>2. Kept(x, S) = Kept(x, R)
    BY DEF Kept
  <2>3. Append(q, x) \in Seq(U)
    OBVIOUS
  <2> QED
    BY <1>2, <2>1, <2>2, <2>3
<1> HIDE DEF T
<1>3. Seq(U) \subseteq T
  BY <1>1, <1>2, SeqInduction
<1> QED
  BY <1>3 DEF T

LEMMA OnlyConcat ==
    ASSUME NEW U, NEW a \in Seq(U), NEW b \in Seq(U), NEW S
    PROVE  Only(a \o b, S) = Only(a, S) \o Only(b, S)
<1> DEFINE T == {q \in Seq(U) : Only(a \o q, S) = Only(a, S) \o Only(q, S)}
<1>0. Only(a, S) \in Seq(U)
  BY OnlyType
<1>1. <<>> \in T
  <2>1. a \o <<>> = a /\ Only(a, S) \o <<>> = Only(a, S)
    BY <1>0
  <2>2. <<>> \in Seq(U)
    OBVIOUS
  <2> QED
    BY <2>1, <2>2, OnlyNil
<1>2. ASSUME NEW q \in Seq(U), NEW x \in U, q \in T PROVE Append(q, x) \in T
  <2>1. a \o Append(q, x) = Append(a \o q, x) /\ a \o q \in Seq(U) /\ Append(q, x) \in Seq(U)
    OBVIOUS
  <2>2. Only(Append(a \o q, x), S) = Only(a \o q, S) \o Kept(x, S)
    BY <2>1, OnlyAppend
  <2>3. Only(Append(q, x), S) = Only(q, S) \o Kept(x, S)
    BY OnlyAppend
  <2>4. Only(q, S) \in Seq(U) /\ Kept(x, S) \in Seq(U)
    BY OnlyType, KeptType
  <2>5. (Only(a, S) \o Only(q, S)) \o Kept(x, S) = Only(a, S) \o (Only(q, S) \o Kept(x, S))
    BY <1>0, <2>4
  <2> QED
    BY <1>2, <2>1, <2>2, <2>3, <2>5
<1> HIDE DEF T
<1>3. Seq(U) \subseteq T
  BY <1>1, <1>2, SeqInduction
<1> QED
  BY <1>3 DEF T

\* How many of the first n are in S.
Sofar(xs, n, S) == Cardinality({k \in 1 .. n : xs[k] \in S})

LEMMA SofarNext ==
    ASSUME NEW xs, NEW n \in Nat, NEW S
    PROVE  /\ Sofar(xs, n, S) \in Nat /\ Sofar(xs, 0, S) = 0
           /\ Sofar(xs, n + 1, S) = Sofar(xs, n, S) + IF xs[n + 1] \in S THEN 1 ELSE 0
<1> DEFINE A(m) == {k \in 1 .. m : xs[k] \in S}
<1>1. IsFiniteSet(A(n))
  <2>1. IsFiniteSet(1 .. n)
    BY FS_Interval
  <2> QED
    BY <2>1, FS_Subset
<1>2. n + 1 \notin A(n)
  OBVIOUS
<1>3. A(n + 1) = IF xs[n + 1] \in S THEN A(n) \cup {n + 1} ELSE A(n)
  <2>1. 1 .. n + 1 = (1 .. n) \cup {n + 1}
    OBVIOUS
  <2> QED
    BY <2>1
<1>4. Cardinality(A(n) \cup {n + 1}) = Cardinality(A(n)) + 1 /\ Cardinality(A(n)) \in Nat
  <2> DEFINE X == A(n)
  <2> HIDE DEF X
  <2>1. IsFiniteSet(X) /\ n + 1 \notin X
    BY <1>1, <1>2 DEF X
  <2>2. Cardinality(X \cup {n + 1}) = Cardinality(X) + 1 /\ Cardinality(X) \in Nat
    BY <2>1, FS_AddElement, FS_CardinalityType
  <2> QED
    BY <2>2 DEF X
<1>5. Cardinality(A(n + 1)) = Cardinality(A(n)) + IF xs[n + 1] \in S THEN 1 ELSE 0
  <2> HIDE DEF A
  <2> QED
    BY <1>3, <1>4
<1>6. A(0) = {}
  OBVIOUS
<1> QED
  BY <1>4, <1>5, <1>6, FS_EmptySet DEF Sofar

\* A member in S is in its place.
LEMMA OnlyAt ==
    ASSUME NEW U, NEW xs \in Seq(U), NEW S
    PROVE  /\ Len(Only(xs, S)) = Sofar(xs, Len(xs), S)
           /\ \A i \in 1 .. Len(xs) : xs[i] \in S =>
                /\ Sofar(xs, i, S) \in 1 .. Len(Only(xs, S))
                /\ Only(xs, S)[Sofar(xs, i, S)] = xs[i]
<1> DEFINE Right(q) ==
             /\ Len(Only(q, S)) = Sofar(q, Len(q), S)
             /\ \A i \in 1 .. Len(q) : q[i] \in S =>
                  /\ Sofar(q, i, S) \in 1 .. Len(Only(q, S))
                  /\ Only(q, S)[Sofar(q, i, S)] = q[i]
           T == {q \in Seq(U) : Right(q)}
<1>1. <<>> \in T
  <2>1. Only(<<>>, S) = <<>> /\ Sofar(<<>>, 0, S) = 0
    BY OnlyNil, SofarNext
  <2>2. Len(<<>>) = 0 /\ 1 .. 0 = {} /\ <<>> \in Seq(U)
    OBVIOUS
  <2> QED
    BY <2>1, <2>2
<1>2. ASSUME NEW q \in Seq(U), NEW x \in U, q \in T PROVE Append(q, x) \in T
  <2> DEFINE r == Append(q, x)
             n == Len(q)
             o == Only(q, S)
  <2>1. /\ n \in Nat /\ Len(r) = n + 1 /\ r[n + 1] = x /\ r \in Seq(U)
        /\ \A i \in 1 .. n : r[i] = q[i]
    OBVIOUS
  <2>2. Only(r, S) = o \o Kept(x, S) /\ o \in Seq(U) /\ Len(o) \in Nat
    <3>1. Only(q, S) \in Seq(U)
      BY OnlyType
    <3>2. Only(Append(q, x), S) = Only(q, S) \o Kept(x, S)
      BY OnlyAppend
    <3>3. \A z \in Seq(U) : Len(z) \in Nat
      OBVIOUS
    <3> QED
      BY <3>1, <3>2, <3>3
  <2>3. ASSUME NEW i \in 0 .. n PROVE Sofar(r, i, S) = Sofar(q, i, S)
    <3> HIDE DEF r, n
    <3>1. {k \in 1 .. i : r[k] \in S} = {k \in 1 .. i : q[k] \in S}
      BY <2>1
    <3> QED
      BY <3>1 DEF Sofar
  <2>4. Sofar(r, n + 1, S) = Sofar(q, n, S) + IF x \in S THEN 1 ELSE 0
    <3>1. Sofar(r, n, S) = Sofar(q, n, S)
      BY <2>1, <2>3
    <3> HIDE DEF r, n
    <3>2. Sofar(r, n + 1, S) = Sofar(r, n, S) + IF r[n + 1] \in S THEN 1 ELSE 0
      BY <2>1, SofarNext
    <3> QED
      BY <2>1, <3>1, <3>2
  <2>5. Right(q)
    BY <1>2
  <2> HIDE DEF r, n, o
  <2>6. Len(Only(r, S)) = Sofar(r, n + 1, S)
    <3>1. Len(o) = Sofar(q, n, S)
      BY <2>5 DEF n, o
    <3>2. Len(o \o Kept(x, S)) = Len(o) + IF x \in S THEN 1 ELSE 0
      BY <2>2 DEF Kept
    <3> QED
      BY <2>2, <2>4, <3>1, <3>2
  <2>7. ASSUME NEW i \in 1 .. n + 1, r[i] \in S
        PROVE  /\ Sofar(r, i, S) \in 1 .. Len(Only(r, S))
               /\ Only(r, S)[Sofar(r, i, S)] = r[i]
    <3>1. CASE i = n + 1
      <4>1. /\ x \in S /\ Sofar(r, i, S) = Len(o) + 1
        BY <2>1, <2>4, <2>5, <2>7, <3>1 DEF n, o
      <4>2. Only(r, S) = o \o <<x>>
        BY <2>2, <4>1 DEF Kept
      <4>3. Len(o \o <<x>>) = Len(o) + 1 /\ (o \o <<x>>)[Len(o) + 1] = x
        BY <2>2
      <4> QED
        BY <2>1, <2>2, <3>1, <4>1, <4>2, <4>3
    <3>2. CASE i # n + 1
      <4>1. i \in 1 .. n /\ r[i] = q[i] /\ Sofar(r, i, S) = Sofar(q, i, S)
        BY <2>1, <2>3, <3>2
      <4>2. Sofar(q, i, S) \in 1 .. Len(o) /\ o[Sofar(q, i, S)] = q[i]
        BY <2>5, <2>7, <4>1 DEF n, o
      <4>3. ASSUME NEW j \in 1 .. Len(o)
          PROVE (o \o Kept(x, S))[j] = o[j] /\ j \in 1 .. Len(o \o Kept(x, S))
        <5>1. Kept(x, S) \in Seq(U)
          BY KeptType
        <5> HIDE DEF Kept
        <5> QED
          BY <2>2, <5>1
      <4> QED
        BY <2>2, <4>1, <4>2, <4>3
    <3> QED
      BY <3>1, <3>2
  <2>8. Right(r)
    BY <2>1, <2>6, <2>7
  <2> QED
    BY <2>1, <2>8 DEF r
<1> HIDE DEF T
<1>3. Seq(U) \subseteq T
  BY <1>1, <1>2, SeqInduction
<1> QED
  BY <1>3 DEF T

-----------------------------------------------------------------------------
(* Operands *)

LEMMA SeqOfItself ==
    ASSUME NEW S, NEW xs \in Seq(S)
    PROVE  /\ xs \in Seq(ToSet(xs)) /\ ToSet(xs) \subseteq S
           /\ ToSet(xs) = {xs[i] : i \in 1 .. Len(xs)}
<1>1. DOMAIN xs = 1 .. Len(xs) /\ Len(xs) \in Nat
  OBVIOUS
<1>2. ToSet(xs) = {xs[i] : i \in 1 .. Len(xs)}
  BY <1>1 DEF ToSet
<1> DEFINE T == ToSet(xs)
<1>3. \A i \in 1 .. Len(xs) : xs[i] \in T
  BY <1>2
<1>4. xs = [i \in 1 .. Len(xs) |-> xs[i]]
  BY <1>1
<1>5. T \subseteq S
  BY <1>2
<1> HIDE DEF T
<1>6. xs \in [1 .. Len(xs) -> T]
  BY <1>3, <1>4
<1>7. xs \in Seq(T)
  BY <1>1, <1>6
<1> QED
  BY <1>2, <1>5, <1>7 DEF T

\* The arrays of a list.
Arrays(X) == {x \in X : IsArray(x)}

LEMMA NodeFactorsIs ==
    ASSUME NEW X, NEW xs \in Seq(X)
    PROVE  /\ NodeFactors(xs) = Only(xs, Arrays(X))
           /\ NodeFactors(xs) \in Seq(Arrays(X))
<1> DEFINE S == {x \in ToSet(xs) : IsArray(x)}
           Y == ToSet(xs)
<1>1. xs \in Seq(Y) /\ Y \subseteq X
  BY SeqOfItself
<1>2. \A x \in Y : x \in S <=> x \in Arrays(X)
  BY <1>1 DEF Arrays
<1>3. NodeFactors(xs) = Only(xs, S)
  BY DEF NodeFactors
<1> HIDE DEF S, Y
<1>4. Only(xs, S) = Only(xs, Arrays(X))
  BY <1>1, <1>2, OnlyAgree
<1>5. X \cap Arrays(X) = Arrays(X)
  BY DEF Arrays
<1>6. Only(xs, Arrays(X)) \in Seq(Arrays(X))
  BY <1>5, OnlyType
<1> QED
  BY <1>3, <1>4, <1>6

LEMMA NodeFactorsConcat ==
    ASSUME NEW X, NEW xs \in Seq(X), NEW ys \in Seq(X)
    PROVE  NodeFactors(xs \o ys) = NodeFactors(xs) \o NodeFactors(ys)
<1>1. xs \o ys \in Seq(X)
  OBVIOUS
<1>2. /\ NodeFactors(xs \o ys) = Only(xs \o ys, Arrays(X))
      /\ NodeFactors(xs) = Only(xs, Arrays(X)) /\ NodeFactors(ys) = Only(ys, Arrays(X))
  BY <1>1, NodeFactorsIs
<1>3. Only(xs \o ys, Arrays(X)) = Only(xs, Arrays(X)) \o Only(ys, Arrays(X))
  BY OnlyConcat
<1> QED
  BY <1>2, <1>3

LEMMA NodeFactorsSingle ==
    ASSUME NEW x
    PROVE  NodeFactors(<<x>>) = IF IsArray(x) THEN <<x>> ELSE <<>>
<1>1. <<x>> \in Seq({x}) /\ <<x>> = Append(<<>>, x) /\ <<>> \in Seq({x}) /\ x \in {x}
  OBVIOUS
<1>2. NodeFactors(<<x>>) = Only(<<x>>, Arrays({x}))
  BY <1>1, NodeFactorsIs
<1>3. Only(Append(<<>>, x), Arrays({x})) = Only(<<>>, Arrays({x})) \o Kept(x, Arrays({x}))
  BY <1>1, OnlyAppend
<1>4. Only(<<>>, Arrays({x})) = <<>>
  BY OnlyNil
<1>5. x \in Arrays({x}) <=> IsArray(x)
  BY DEF Arrays
<1>6. <<>> \o Kept(x, Arrays({x})) = Kept(x, Arrays({x}))
  BY DEF Kept
<1> QED
  BY <1>1, <1>2, <1>3, <1>4, <1>5, <1>6 DEF Kept

LEMMA NodeFactorsNil == NodeFactors(<<>>) = <<>>
BY OnlyNil DEF NodeFactors

\* The contexts a call's arrays may be at; 0 is none.
Contexts == {0} \cup DOMAIN Ambient

\* The scalars a call multiplies into an array, and the columns it can make.
Factors(f) == {x \in ToSet(f.weights) : IsFactor(x)}
Scalars(f) == UNION {{x.member[l] : l \in DOMAIN x.member} : x \in Factors(f)}
Bases == DOMAIN Depth \cup {<<"ones", b>> : b \in DOMAIN Depth}
Columns(f, c) == [base : Bases, at : {c}, scales : Seq(Scalars(f))]

\* An array of a call: passed to it, made of ones, or with scalars multiplied in.
Lay(f, x) ==
    /\ IsArray(x) /\ Labelled(x) /\ x.ctx \in Contexts
    /\ x = [kind |-> "array", labels |-> x.labels, member |-> x.member, ctx |-> x.ctx]
    /\ x.member \in [DOMAIN x.member -> Columns(f, x.ctx)]

LEMMA OperandLay ==
    ASSUME NEW f, NEW x, Operand(x), IsArray(x)
    PROVE  /\ Lay(f, x)
           /\ \A l \in DOMAIN x.member :
               x.member[l].base \in DOMAIN Depth /\ x.member[l].scales = <<>>
<1>1. ~IsConst(x) /\ ~IsFactor(x)
  BY DEF IsArray, IsConst, IsFactor
<1>2. /\ Labelled(x) /\ x.ctx \in Contexts
      /\ x = [kind |-> "array", labels |-> x.labels, member |-> x.member, ctx |-> x.ctx]
      /\ x.member \in [DOMAIN x.member -> [base : DOMAIN Depth, at : {x.ctx}, scales : {<<>>}]]
  BY <1>1 DEF Operand, Contexts
<1>3. [base : DOMAIN Depth, at : {x.ctx}, scales : {<<>>}] \subseteq Columns(f, x.ctx)
  <2> DEFINE T == Seq(Scalars(f))
  <2>1. <<>> \in T
    OBVIOUS
  <2>2. DOMAIN Depth \subseteq Bases
    BY DEF Bases
  <2> HIDE DEF T
  <2>3. [base : DOMAIN Depth, at : {x.ctx}, scales : {<<>>}]
        \subseteq [base : Bases, at : {x.ctx}, scales : T]
    BY <2>1, <2>2
  <2> QED
    BY <2>3 DEF Columns, T
<1>4. x.member \in [DOMAIN x.member -> Columns(f, x.ctx)]
  BY <1>2, <1>3
<1> QED
  BY <1>2, <1>4 DEF Lay

\* The member for a label is one of the members.
Pick(x, l) == IF l \in DOMAIN x.member THEN l ELSE Nominal
LEMMA MemberIs ==
    ASSUME NEW x, Labelled(x), NEW l
    PROVE  MemberOf(x, l) = x.member[Pick(x, l)] /\ Pick(x, l) \in DOMAIN x.member
BY DEF Labelled, MemberOf, Pick

LEMMA MemberLay ==
    ASSUME NEW f, NEW x, Lay(f, x), NEW l
    PROVE  MemberOf(x, l) \in Columns(f, x.ctx)
BY MemberIs DEF Lay

\* What a call is given.
LEMMA CallIs ==
    ASSUME NEW f \in Calls
    PROVE  /\ f.args \in Seq(ToSet(f.args)) /\ f.weights \in Seq(ToSet(f.weights))
           /\ \A x \in ToSet(f.args) \cup ToSet(f.weights) : Operand(x)
           /\ f.sample # Absent => Operand(f.sample)
           /\ f.axis \in BOOLEAN /\ f.unweighted \in BOOLEAN
           /\ \A x \in ToSet(f.args) \cup {f.sample} : ~IsFactor(x)
           /\ \E x \in ToSet(f.args) : IsArray(x)
           /\ f.unweighted => f.weights = <<>>
<1>1. /\ f.args \in Seq(ToSet(f.args)) /\ f.weights \in Seq(ToSet(f.weights))
      /\ \A x \in ToSet(f.args \o f.weights) : Operand(x)
      /\ f.sample # Absent => Operand(f.sample)
      /\ f.axis \in BOOLEAN /\ f.unweighted \in BOOLEAN
      /\ \A x \in ToSet(f.args) \cup {f.sample} : ~IsFactor(x)
      /\ \E x \in ToSet(f.args) : IsArray(x)
      /\ f.unweighted => f.weights = <<>>
  BY CallsAssumption
<1>2. ToSet(f.args) \cup ToSet(f.weights) \subseteq ToSet(f.args \o f.weights)
  <2> DEFINE X == ToSet(f.args) \cup ToSet(f.weights)
             a == f.args
             b == f.weights
  <2>1. a \in Seq(X) /\ b \in Seq(X)
    <3>1. \A A, B : A \subseteq B => Seq(A) \subseteq Seq(B)
      OBVIOUS
    <3> QED
      BY <1>1, <3>1
  <2>2. ToSet(a) = {a[i] : i \in 1 .. Len(a)} /\ ToSet(b) = {b[i] : i \in 1 .. Len(b)}
    BY <2>1, SeqOfItself
  <2> HIDE DEF X, a, b
  <2>3. ASSUME NEW i \in 1 .. Len(a) PROVE i \in DOMAIN (a \o b) /\ (a \o b)[i] = a[i]
    BY <2>1
  <2>4. ASSUME NEW i \in 1 .. Len(b)
        PROVE Len(a) + i \in DOMAIN (a \o b) /\ (a \o b)[Len(a) + i] = b[i]
    BY <2>1
  <2> QED
    BY <2>2, <2>3, <2>4 DEF ToSet, a, b
<1> QED
  BY <1>1, <1>2

\* The arrays of a call.
Passed(f) == ToSet(f.args) \cup ToSet(f.weights) \cup {f.sample}

LEMMA PassedLay ==
    ASSUME NEW f \in Calls, NEW x \in Arrays(Passed(f))
    PROVE  /\ Operand(x) /\ Lay(f, x) /\ x.ctx \in Contexts
           /\ \A l \in DOMAIN x.member :
               x.member[l].base \in DOMAIN Depth /\ x.member[l].scales = <<>>
<1>1. IsArray(x) /\ x \in Passed(f)
  BY DEF Arrays
<1>2. Operand(x)
  <2>1. x = f.sample => x # Absent
    BY <1>1 DEF IsArray, Absent
  <2> QED
    BY <1>1, <2>1, CallIs DEF Passed
<1> QED
  BY <1>1, <1>2, OperandLay DEF Lay

LEMMA GivenType ==
    ASSUME NEW f \in Calls
    PROVE  /\ Values(f) \in Seq(Arrays(ToSet(f.args)))
           /\ NodeFactors(f.weights) \in Seq(Arrays(ToSet(f.weights)))
           /\ NodeFactors(<<f.sample>>) = IF IsArray(f.sample) THEN <<f.sample>> ELSE <<>>
           /\ Given(f) \in Seq(Arrays(Passed(f)))
<1>1. Values(f) \in Seq(Arrays(ToSet(f.args)))
      /\ NodeFactors(f.weights) \in Seq(Arrays(ToSet(f.weights)))
  BY CallIs, NodeFactorsIs DEF Values
<1>2. NodeFactors(<<f.sample>>) = IF IsArray(f.sample) THEN <<f.sample>> ELSE <<>>
  BY NodeFactorsSingle
<1> DEFINE P == Arrays(Passed(f))
<1>3. Arrays(ToSet(f.args)) \subseteq P /\ Arrays(ToSet(f.weights)) \subseteq P
  BY DEF Arrays, Passed
<1>4. IsArray(f.sample) => f.sample \in P
  BY DEF Arrays, Passed
<1> HIDE DEF P
<1>5. \A A, B : A \subseteq B => Seq(A) \subseteq Seq(B)
  OBVIOUS
<1>6. Values(f) \in Seq(P) /\ NodeFactors(f.weights) \in Seq(P)
      /\ NodeFactors(<<f.sample>>) \in Seq(P)
  <2>1. IsArray(f.sample) => <<f.sample>> \in Seq(P)
    BY <1>4
  <2>2. <<>> \in Seq(P)
    OBVIOUS
  <2> QED
    BY <1>1, <1>2, <1>3, <1>5, <2>1, <2>2
<1>7. Values(f) \o NodeFactors(f.weights) \o NodeFactors(<<f.sample>>) \in Seq(P)
  BY <1>6
<1> QED
  BY <1>1, <1>2, <1>7 DEF Given, P

LEMMA ContextsAreNat == Contexts \subseteq Nat /\ IsFiniteSet(Contexts) /\ 0 \in Contexts
<1>1. DOMAIN Ambient \subseteq Nat /\ IsFiniteSet(DOMAIN Ambient)
  BY AmbientAssumption
<1>2. IsFiniteSet({0})
  BY FS_Singleton
<1>3. IsFiniteSet(DOMAIN Ambient \cup {0})
  BY <1>1, <1>2, FS_Union
<1>4. Contexts = DOMAIN Ambient \cup {0}
  BY DEF Contexts
<1> QED
  BY <1>1, <1>3, <1>4

\* The unified context is one of the operands', if any has one.
LEMMA UnifiedIs ==
    ASSUME NEW f \in Calls
    PROVE  /\ Unified(f) \in Contexts /\ Unified(f) \in Nat
           /\ Unified(f) # 0 => \E i \in DOMAIN Given(f) : Given(f)[i].ctx = Unified(f)
<1> DEFINE C == {0} \cup {Given(f)[i].ctx : i \in DOMAIN Given(f)}
<1>1. \A i \in DOMAIN Given(f) : Given(f)[i].ctx \in Contexts
  <2>1. \A i \in DOMAIN Given(f) : Given(f)[i] \in Arrays(Passed(f))
    <3>1. \A S : \A s \in Seq(S) : \A i \in DOMAIN s : s[i] \in S
      OBVIOUS
    <3> QED
      BY <3>1, GivenType
  <2> QED
    BY <2>1, PassedLay
<1>2. C \subseteq Contexts /\ C # {}
  BY <1>1, ContextsAreNat
<1>3. IsFiniteSet(C) /\ C \subseteq Int
  <2> HIDE DEF C
  <2>1. IsFiniteSet(C)
    BY <1>2, ContextsAreNat, FS_Subset
  <2>2. C \subseteq Int
    BY <1>2, ContextsAreNat
  <2> QED
    BY <2>1, <2>2
<1>4. Unified(f) = Max(C)
  BY DEF Unified
<1>5. Max(C) \in C
  <2> HIDE DEF C
  <2> QED
    BY <1>2, <1>3, MinMax
<1> QED
  BY <1>2, <1>4, <1>5, ContextsAreNat

LEMMA AmbientIs ==
    ASSUME NEW f \in Calls, AmbientOf(f) # Absent
    PROVE  /\ Unified(f) # 0 /\ Operand(AmbientOf(f)) /\ IsArray(AmbientOf(f))
           /\ AmbientOf(f).ctx = Unified(f) /\ Lay(f, AmbientOf(f))
           /\ ~f.unweighted
<1>1. ~f.unweighted /\ Unified(f) # 0 /\ AmbientOf(f) = Ambient[Unified(f)]
  BY DEF AmbientOf
<1>2. Unified(f) \in DOMAIN Ambient
  BY <1>1, UnifiedIs DEF Contexts
<1>3. /\ Operand(Ambient[Unified(f)]) /\ IsArray(Ambient[Unified(f)])
      /\ Ambient[Unified(f)].ctx = Unified(f)
  BY <1>1, <1>2, AmbientAssumption
<1> QED
  BY <1>1, <1>3, OperandLay

LEMMA ColumnIs ==
    ASSUME NEW f, NEW c, NEW m \in Columns(f, c)
    PROVE  /\ m = [base |-> m.base, at |-> c, scales |-> m.scales]
           /\ m.base \in Bases /\ m.at = c /\ m.scales \in Seq(Scalars(f))
           /\ \A d : [m EXCEPT !.at = d] = [base |-> m.base, at |-> d, scales |-> m.scales]
           /\ \A d : [m EXCEPT !.at = d] \in Columns(f, d)
<1> DEFINE T == Seq(Scalars(f))
<1> HIDE DEF T
<1>1. m \in [base : Bases, at : {c}, scales : T]
  BY DEF Columns, T
<1>2. \A d : [base |-> m.base, at |-> d, scales |-> m.scales]
        \in [base : Bases, at : {d}, scales : T]
  BY <1>1
<1>3. \A d : [m EXCEPT !.at = d] = [base |-> m.base, at |-> d, scales |-> m.scales]
  BY <1>1
<1> QED
  BY <1>1, <1>2, <1>3 DEF Columns, T

\* Re-indexing moves the rows of an array that has a context, and nothing else.
Rows(x, c) == IF x.ctx = 0 THEN 0 ELSE c
LEMMA Reindexed ==
    ASSUME NEW f, NEW x, Lay(f, x), NEW c \in Contexts
    PROVE  /\ Lay(f, ReindexTo(x, c)) /\ ReindexTo(x, c).labels = x.labels
           /\ DOMAIN ReindexTo(x, c).member = DOMAIN x.member
           /\ ReindexTo(x, c).ctx = Rows(x, c)
           /\ \A l : MemberOf(ReindexTo(x, c), l) =
                [base |-> MemberOf(x, l).base, at |-> Rows(x, c), scales |-> MemberOf(x, l).scales]
<1>0. \A l : MemberOf(x, l) \in Columns(f, x.ctx)
  BY MemberLay
<1>1. CASE x.ctx \in {0, c}
  <2>1. ReindexTo(x, c) = x /\ x.ctx = Rows(x, c)
    BY <1>1 DEF ReindexTo, Rows
  <2>2. \A l : MemberOf(x, l) =
           [base |-> MemberOf(x, l).base, at |-> x.ctx, scales |-> MemberOf(x, l).scales]
    BY <1>0, ColumnIs
  <2> QED
    BY <2>1, <2>2
<1>2. CASE x.ctx \notin {0, c}
  <2> DEFINE member == [l \in DOMAIN x.member |-> [x.member[l] EXCEPT !.at = c]]
             y == [kind |-> "array", labels |-> x.labels, member |-> member, ctx |-> c]
  <2>1. x = [kind |-> "array", labels |-> x.labels, member |-> x.member, ctx |-> x.ctx]
    BY DEF Lay
  <2>2. ReindexTo(x, c) = y
    <3>1. ReindexTo(x, c) = [x EXCEPT !.ctx = c, !.member = member]
      BY <1>2 DEF ReindexTo
    <3> HIDE DEF member
    <3> DEFINE labels == x.labels
               old == x.member
               ctx == x.ctx
    <3>2. x = [kind |-> "array", labels |-> labels, member |-> old, ctx |-> ctx]
      BY <2>1
    <3> HIDE DEF labels, old, ctx
    <3> DEFINE z == [kind |-> "array", labels |-> labels, member |-> old, ctx |-> ctx]
    <3>4. [z EXCEPT !.ctx = c] = [kind |-> "array", labels |-> labels, member |-> old, ctx |-> c]
      OBVIOUS
    <3>5. [[kind |-> "array", labels |-> labels, member |-> old, ctx |-> c]
           EXCEPT !.member = member]
            = [kind |-> "array", labels |-> labels, member |-> member, ctx |-> c]
      OBVIOUS
    <3>3. [x EXCEPT !.ctx = c, !.member = member]
           = [kind |-> "array", labels |-> labels, member |-> member, ctx |-> c]
      BY <3>2, <3>4, <3>5, Zenon
    <3> QED
      BY <3>1, <3>3 DEF labels
  <2>3. \A l \in DOMAIN x.member : x.member[l] \in Columns(f, x.ctx)
    BY DEF Lay
  <2>4. \A l \in DOMAIN x.member :
            member[l] = [base |-> x.member[l].base, at |-> c, scales |-> x.member[l].scales]
    BY <2>3, ColumnIs
  <2>5. \A l \in DOMAIN x.member : member[l] \in Columns(f, c)
    BY <2>3, ColumnIs
  <2>6. DOMAIN member = DOMAIN x.member
    OBVIOUS
  <2>7. member \in [DOMAIN member -> Columns(f, c)]
    BY <2>5, <2>6
  <2> HIDE DEF member
  <2>8. y.labels = x.labels /\ y.member = member /\ y.ctx = c /\ y.kind = "array"
    OBVIOUS
  <2>10. Labelled(y)
    BY <2>6, <2>8 DEF Lay, Labelled
  <2>11. \A l : MemberOf(y, l) = member[Pick(x, l)]
    BY <2>6, <2>8 DEF MemberOf, Pick
  <2>12. \A l : MemberOf(x, l) = x.member[Pick(x, l)] /\ Pick(x, l) \in DOMAIN x.member
    BY MemberIs DEF Lay
  <2>13. Rows(x, c) = c
    BY <1>2 DEF Rows
  <2> QED
    BY <2>2, <2>4, <2>6, <2>7, <2>8, <2>10, <2>11, <2>12, <2>13 DEF Lay, IsArray
<1> QED
  BY <1>1, <1>2

-----------------------------------------------------------------------------
(* Labels *)

LEMMA ToSetAppend ==
    ASSUME NEW U, NEW s \in Seq(U), NEW x \in U
    PROVE  ToSet(Append(s, x)) = ToSet(s) \cup {x}
<1> DEFINE r == Append(s, x)
<1>1. /\ DOMAIN s = 1 .. Len(s) /\ DOMAIN r = 1 .. Len(s) + 1 /\ Len(s) \in Nat
      /\ \A i \in 1 .. Len(s) : r[i] = s[i]
      /\ r[Len(s) + 1] = x
  OBVIOUS
<1> HIDE DEF r
<1>2. 1 .. Len(s) + 1 = (1 .. Len(s)) \cup {Len(s) + 1}
  BY <1>1
<1>3. ToSet(r) = ToSet(s) \cup {x}
  BY <1>1, <1>2 DEF ToSet
<1> QED
  BY <1>3 DEF r

LEMMA ToSetConcat ==
    ASSUME NEW U, NEW s \in Seq(U), NEW t \in Seq(U)
    PROVE  ToSet(s \o t) = ToSet(s) \cup ToSet(t)
<1> DEFINE r == s \o t
           m == Len(s)
           n == Len(t)
<1>1. /\ m \in Nat /\ n \in Nat /\ DOMAIN s = 1 .. m /\ DOMAIN t = 1 .. n /\ DOMAIN r = 1 .. m + n
      /\ \A i \in 1 .. m : r[i] = s[i]
      /\ \A i \in 1 .. n : r[m + i] = t[i]
  OBVIOUS
<1> HIDE DEF r, m, n
<1>2. ASSUME NEW i \in 1 .. m + n PROVE r[i] \in ToSet(s) \cup ToSet(t)
  <2>1. i \in 1 .. m \/ (i - m \in 1 .. n /\ i = m + (i - m))
    BY <1>1
  <2> QED
    BY <1>1, <2>1 DEF ToSet
<1>3. ASSUME NEW i \in 1 .. m PROVE i \in 1 .. m + n
  BY <1>1
<1>4. ASSUME NEW i \in 1 .. n PROVE m + i \in 1 .. m + n
  BY <1>1
<1>5. ToSet(r) = ToSet(s) \cup ToSet(t)
  <2>1. ToSet(r) \subseteq ToSet(s) \cup ToSet(t)
    <3>1. ToSet(r) = {r[i] : i \in 1 .. m + n}
      BY <1>1 DEF ToSet
    <3> QED
      BY <1>2, <3>1
  <2>2. ToSet(s) \subseteq ToSet(r)
    BY <1>1, <1>3 DEF ToSet
  <2>3. ToSet(t) \subseteq ToSet(r)
    BY <1>1, <1>4 DEF ToSet
  <2> QED
    BY <2>1, <2>2, <2>3
<1> QED
  BY <1>5 DEF r

LEMMA InjectiveAppend ==
    ASSUME NEW U, NEW s \in Seq(U), NEW x \in U
    PROVE  IsInjective(Append(s, x)) <=> IsInjective(s) /\ x \notin ToSet(s)
<1> DEFINE r == Append(s, x)
           n == Len(s)
<1>1. /\ n \in Nat /\ DOMAIN s = 1 .. n /\ DOMAIN r = 1 .. n + 1
      /\ \A i \in 1 .. n : r[i] = s[i]
      /\ r[n + 1] = x
  OBVIOUS
<1> HIDE DEF r, n
<1>2. 1 .. n + 1 = (1 .. n) \cup {n + 1} /\ n + 1 \notin 1 .. n
  BY <1>1
<1>3. IsInjective(r) <=> IsInjective(s) /\ x \notin ToSet(s)
  BY <1>1, <1>2 DEF IsInjective, ToSet
<1> QED
  BY <1>3 DEF r

LEMMA InjectiveConcat ==
    ASSUME NEW U, NEW s \in Seq(U), NEW t \in Seq(U), IsInjective(s), IsInjective(t),
           ToSet(s) \cap ToSet(t) = {}
    PROVE  IsInjective(s \o t)
<1> DEFINE r == s \o t
           m == Len(s)
           n == Len(t)
<1>1. /\ m \in Nat /\ n \in Nat /\ DOMAIN s = 1 .. m /\ DOMAIN t = 1 .. n /\ DOMAIN r = 1 .. m + n
      /\ \A i \in 1 .. m : r[i] = s[i]
      /\ \A i \in 1 .. n : r[m + i] = t[i]
  OBVIOUS
<1> HIDE DEF r, m, n
<1>2. ASSUME NEW i \in 1 .. m + n, NEW j \in 1 .. m + n, r[i] = r[j] PROVE i = j
  <2>1. i \in 1 .. m \/ (i - m \in 1 .. n /\ i = m + (i - m))
    BY <1>1
  <2>2. j \in 1 .. m \/ (j - m \in 1 .. n /\ j = m + (j - m))
    BY <1>1
  <2>3. CASE i \in 1 .. m /\ j \in 1 .. m
    BY <1>1, <1>2, <2>3 DEF IsInjective
  <2>4. CASE i \in 1 .. m /\ j \notin 1 .. m
    <3>1. r[i] \in ToSet(s) /\ r[j] \in ToSet(t)
      BY <1>1, <2>2, <2>4 DEF ToSet
    <3> QED
      BY <1>2, <3>1
  <2>5. CASE i \notin 1 .. m /\ j \in 1 .. m
    <3>1. r[j] \in ToSet(s) /\ r[i] \in ToSet(t)
      BY <1>1, <2>1, <2>5 DEF ToSet
    <3> QED
      BY <1>2, <3>1
  <2>6. CASE i \notin 1 .. m /\ j \notin 1 .. m
    <3>1. i - m \in 1 .. n /\ j - m \in 1 .. n /\ t[i - m] = r[i] /\ t[j - m] = r[j]
      BY <1>1, <2>1, <2>2, <2>6
    <3>2. i - m = j - m
      BY <1>1, <1>2, <3>1 DEF IsInjective
    <3> QED
      BY <1>1, <3>2
  <2> QED
    BY <2>3, <2>4, <2>5, <2>6
<1>3. IsInjective(r)
  BY <1>1, <1>2 DEF IsInjective
<1> QED
  BY <1>3 DEF r

LEMMA KeptSet == ASSUME NEW x, NEW S PROVE ToSet(Kept(x, S)) = {x} \cap S
<1>1. CASE x \in S
  <2>1. <<x>> \in Seq({x}) /\ DOMAIN <<x>> = {1} /\ <<x>>[1] = x
    OBVIOUS
  <2>2. ToSet(<<x>>) = {x}
    BY <2>1 DEF ToSet
  <2> QED
    BY <1>1, <2>2 DEF Kept
<1>2. CASE x \notin S
  <2>1. ToSet(<<>>) = {}
    BY DEF ToSet
  <2> QED
    BY <1>2, <2>1 DEF Kept
<1> QED
  BY <1>1, <1>2

LEMMA OnlyHas ==
    ASSUME NEW U, NEW xs \in Seq(U), NEW S
    PROVE  ToSet(Only(xs, S)) = ToSet(xs) \cap S
<1> DEFINE T == {q \in Seq(U) : ToSet(Only(q, S)) = ToSet(q) \cap S}
<1>1. <<>> \in T
  <2>1. <<>> \in Seq(U) /\ ToSet(<<>>) = {}
    BY DEF ToSet
  <2> QED
    BY <2>1, OnlyNil
<1>2. ASSUME NEW q \in Seq(U), NEW x \in U, q \in T PROVE Append(q, x) \in T
  <2>1. Only(Append(q, x), S) = Only(q, S) \o Kept(x, S) /\ Append(q, x) \in Seq(U)
    BY OnlyAppend
  <2>2. Only(q, S) \in Seq(U) /\ Kept(x, S) \in Seq(U)
    BY OnlyType, KeptType
  <2>3. ToSet(Only(q, S) \o Kept(x, S)) = ToSet(Only(q, S)) \cup ToSet(Kept(x, S))
    BY <2>2, ToSetConcat
  <2>4. ToSet(Append(q, x)) = ToSet(q) \cup {x}
    BY ToSetAppend
  <2>5. ToSet(Kept(x, S)) = {x} \cap S
    BY KeptSet
  <2>6. ToSet(Only(q, S)) = ToSet(q) \cap S
    BY <1>2
  <2>7. ToSet(Only(Append(q, x), S)) = ToSet(Append(q, x)) \cap S
    BY <2>1, <2>3, <2>4, <2>5, <2>6
  <2> QED
    BY <2>1, <2>7
<1> HIDE DEF T
<1>3. Seq(U) \subseteq T
  BY <1>1, <1>2, SeqInduction
<1> QED
  BY <1>3 DEF T

LEMMA OnlyInjective ==
    ASSUME NEW U, NEW xs \in Seq(U), NEW S, IsInjective(xs)
    PROVE  IsInjective(Only(xs, S))
<1> DEFINE T == {q \in Seq(U) : IsInjective(q) => IsInjective(Only(q, S))}
<1>0. IsInjective(<<>>)
  BY DEF IsInjective
<1>1. <<>> \in T
  <2>1. <<>> \in Seq(U)
    OBVIOUS
  <2> QED
    BY <1>0, <2>1, OnlyNil
<1>2. ASSUME NEW q \in Seq(U), NEW x \in U, q \in T PROVE Append(q, x) \in T
  <2>1. Append(q, x) \in Seq(U)
    OBVIOUS
  <2> SUFFICES ASSUME IsInjective(Append(q, x)) PROVE IsInjective(Only(Append(q, x), S))
    BY <2>1
  <2>2. Only(Append(q, x), S) = Only(q, S) \o Kept(x, S)
    BY OnlyAppend
  <2>3. IsInjective(q) /\ x \notin ToSet(q)
    BY InjectiveAppend
  <2>4. Only(q, S) \in Seq(U) /\ Kept(x, S) \in Seq(U) /\ IsInjective(Only(q, S))
    BY <1>2, <2>3, OnlyType, KeptType
  <2>5. ToSet(Only(q, S)) \cap ToSet(Kept(x, S)) = {}
    BY <2>3, KeptSet, OnlyHas
  <2>6. IsInjective(Kept(x, S))
    BY DEF Kept, IsInjective
  <2> QED
    BY <2>2, <2>4, <2>5, <2>6, InjectiveConcat
<1> HIDE DEF T
<1>3. Seq(U) \subseteq T
  BY <1>1, <1>2, SeqInduction
<1> QED
  BY <1>3 DEF T

LEMMA ExtendIs ==
    ASSUME NEW U, NEW s \in Seq(U), NEW t \in Seq(U), IsInjective(s), IsInjective(t)
    PROVE  /\ Extend(s, t) \in Seq(U) /\ IsInjective(Extend(s, t))
           /\ ToSet(Extend(s, t)) = ToSet(s) \cup ToSet(t)
<1> DEFINE N == ToSet(t) \ ToSet(s)
<1>1. Only(t, N) \in Seq(U) /\ IsInjective(Only(t, N)) /\ ToSet(Only(t, N)) = N
  <2>1. Only(t, N) \in Seq(U)
    BY OnlyType
  <2>2. IsInjective(Only(t, N))
    BY OnlyInjective
  <2>3. ToSet(Only(t, N)) = ToSet(t) \cap N
    BY OnlyHas
  <2> QED
    BY <2>1, <2>2, <2>3
<1>2. ToSet(s) \cap N = {} /\ ToSet(s) \cup N = ToSet(s) \cup ToSet(t)
  OBVIOUS
<1>3. Extend(s, t) = s \o Only(t, N)
  BY DEF Extend
<1> HIDE DEF N
<1>4. s \o Only(t, N) \in Seq(U)
  BY <1>1
<1> QED
  BY <1>1, <1>2, <1>3, <1>4, InjectiveConcat, ToSetConcat

-----------------------------------------------------------------------------
(* Scalar factors multiplied into an array *)

LEMMA FactorIs ==
    ASSUME NEW f \in Calls, NEW x \in Factors(f)
    PROVE  Labelled(x) /\ \A l : MemberOf(x, l) \in Scalars(f)
<1>1. Operand(x) /\ IsFactor(x)
  BY CallIs DEF Factors
<1>2. Labelled(x)
  BY <1>1 DEF Operand, IsFactor, IsConst, IsArray
<1>3. \A l : MemberOf(x, l) = x.member[Pick(x, l)] /\ Pick(x, l) \in DOMAIN x.member
  BY <1>2, MemberIs
<1> QED
  BY <1>2, <1>3 DEF Scalars


LEMMA ColumnScaled ==
    ASSUME NEW f, NEW c, NEW m \in Columns(f, c), NEW v \in Scalars(f)
    PROVE  /\ [m EXCEPT !.scales = Append(@, v)] =
                [base |-> m.base, at |-> m.at, scales |-> Append(m.scales, v)]
           /\ [m EXCEPT !.scales = Append(@, v)] \in Columns(f, c)
<1> DEFINE T == Seq(Scalars(f))
           b == m.base
           at == m.at
           s == m.scales
           t == Append(s, v)
<1>1. m = [base |-> b, at |-> at, scales |-> s] /\ b \in Bases /\ at = c /\ s \in T
  BY ColumnIs
<1>2. t \in T
  BY <1>1
<1> HIDE DEF T, b, at, s, t
<1>3. [base |-> b, at |-> at, scales |-> t] \in [base : Bases, at : {c}, scales : T]
  BY <1>1, <1>2
<1>4. [m EXCEPT !.scales = Append(@, v)] = [m EXCEPT !.scales = t]
  BY DEF s, t
<1>5. [m EXCEPT !.scales = t] = [base |-> b, at |-> at, scales |-> t]
  BY <1>1
<1> QED
  BY <1>3, <1>4, <1>5 DEF Columns, T, b, at, s, t

\* The product has the labels of both, and each label's scalar behind its column.
LEMMA TimesIs ==
    ASSUME NEW f \in Calls, NEW x, Lay(f, x), NEW factor \in Factors(f)
    PROVE  /\ Lay(f, Times(x, factor)) /\ Times(x, factor).ctx = x.ctx
           /\ \A l : MemberOf(Times(x, factor), l) =
                [base |-> MemberOf(x, l).base, at |-> MemberOf(x, l).at,
                 scales |-> Append(MemberOf(x, l).scales, MemberOf(factor, l))]
<1> DEFINE labels == Extend(x.labels, factor.labels)
           scaled(l) == [MemberOf(x, l) EXCEPT !.scales = Append(@, MemberOf(factor, l))]
           member == [l \in ToSet(labels) |-> scaled(l)]
           y == [kind |-> "array", labels |-> labels, member |-> member, ctx |-> x.ctx]
           S == DOMAIN x.member \cup DOMAIN factor.member
<1>1. /\ x.labels \in Seq(DOMAIN x.member) /\ IsInjective(x.labels)
      /\ DOMAIN x.member = ToSet(x.labels)
      /\ Nominal \in DOMAIN x.member /\ None \notin DOMAIN x.member
      /\ x = [kind |-> "array", labels |-> x.labels, member |-> x.member, ctx |-> x.ctx]
      /\ x.ctx \in Contexts
  BY DEF Lay, Labelled
<1>2. /\ factor.labels \in Seq(DOMAIN factor.member) /\ IsInjective(factor.labels)
      /\ DOMAIN factor.member = ToSet(factor.labels)
      /\ None \notin DOMAIN factor.member
  BY FactorIs DEF Labelled
<1>3. x.labels \in Seq(S) /\ factor.labels \in Seq(S)
  <2>1. \A A, B : A \subseteq B => Seq(A) \subseteq Seq(B)
    OBVIOUS
  <2> QED
    BY <1>1, <1>2, <2>1
<1>4. labels \in Seq(S) /\ IsInjective(labels) /\ ToSet(labels) = S
  <2> HIDE DEF S
  <2>1. ToSet(labels) = ToSet(x.labels) \cup ToSet(factor.labels)
    BY <1>1, <1>2, <1>3, ExtendIs
  <2>2. labels \in Seq(S) /\ IsInjective(labels)
    BY <1>1, <1>2, <1>3, ExtendIs
  <2> QED
    BY <1>1, <1>2, <2>1, <2>2 DEF S
<1>5. Times(x, factor) = y
  <2>1. Times(x, factor) = [x EXCEPT !.labels = labels, !.member = member]
    BY DEF Times
  <2> HIDE DEF labels, member
  <2>2. x = [kind |-> "array", labels |-> x.labels, member |-> x.member, ctx |-> x.ctx]
    BY <1>1
  <2> DEFINE a == x.labels
             b == x.member
             c == x.ctx
  <2> HIDE DEF a, b, c
  <2>4. x = [kind |-> "array", labels |-> a, member |-> b, ctx |-> c]
    BY <2>2 DEF a, b, c
  <2>5. [x EXCEPT !.labels = labels, !.member = member] =
            [kind |-> "array", labels |-> labels, member |-> member, ctx |-> c]
    <3>1. [[kind |-> "array", labels |-> a, member |-> b, ctx |-> c] EXCEPT !.labels = labels]
            = [kind |-> "array", labels |-> labels, member |-> b, ctx |-> c]
      OBVIOUS
    <3>2. [[kind |-> "array", labels |-> labels, member |-> b, ctx |-> c] EXCEPT !.member = member]
            = [kind |-> "array", labels |-> labels, member |-> member, ctx |-> c]
      OBVIOUS
    <3> QED
      BY <2>4, <3>1, <3>2, Zenon
  <2>3. [x EXCEPT !.labels = labels, !.member = member] =
            [kind |-> "array", labels |-> labels, member |-> member, ctx |-> x.ctx]
    BY <2>5 DEF c
  <2> QED
    BY <2>1, <2>3
<1>6. \A l : MemberOf(x, l) \in Columns(f, x.ctx) /\ MemberOf(factor, l) \in Scalars(f)
  BY MemberLay, FactorIs
<1>7. \A l : /\ scaled(l) = [base |-> MemberOf(x, l).base, at |-> MemberOf(x, l).at,
                              scales |-> Append(MemberOf(x, l).scales, MemberOf(factor, l))]
             /\ scaled(l) \in Columns(f, x.ctx)
  BY <1>6, ColumnScaled
<1>8. DOMAIN member = S /\ \A l \in S : member[l] = scaled(l)
  BY <1>4
<1>9. \A l : MemberOf(y, l) = scaled(l)
  <2> TAKE l
  <2>1. y.member = member
    OBVIOUS
  <2> HIDE DEF member, y
  <2>2. CASE l \in S
    BY <1>8, <2>1, <2>2 DEF MemberOf
  <2>3. CASE l \notin S
    <3>1. l \notin DOMAIN x.member /\ l \notin DOMAIN factor.member
      BY <2>3
    <3>2. MemberOf(x, l) = MemberOf(x, Nominal) /\ MemberOf(factor, l) = MemberOf(factor, Nominal)
      BY <3>1 DEF MemberOf
    <3>3. MemberOf(y, l) = member[Nominal]
      BY <1>8, <2>1, <2>3 DEF MemberOf
    <3>4. Nominal \in S
      BY <1>1
    <3> QED
      BY <1>8, <3>2, <3>3, <3>4
  <2> QED
    BY <2>2, <2>3
<1>10. member \in [S -> Columns(f, x.ctx)]
  <2>1. \A l \in S : member[l] \in Columns(f, x.ctx)
    BY <1>7, <1>8
  <2>2. member = [l \in S |-> member[l]]
    BY <1>4
  <2> HIDE DEF member
  <2> QED
    BY <2>1, <2>2
<1>11. Lay(f, y) /\ y.ctx = x.ctx
  <2> HIDE DEF member, labels
  <2>1. y.labels = labels /\ y.member = member /\ y.ctx = x.ctx /\ y.kind = "array"
    OBVIOUS
  <2>2. Nominal \in S /\ None \notin S
    BY <1>1, <1>2
  <2> HIDE DEF S
  <2>3. Labelled(y)
    BY <1>4, <1>8, <2>1, <2>2 DEF Labelled
  <2>4. y = [kind |-> "array", labels |-> y.labels, member |-> y.member, ctx |-> y.ctx]
    BY <2>1
  <2> HIDE DEF y
  <2> QED
    BY <1>1, <1>8, <1>10, <2>1, <2>3, <2>4 DEF Lay, IsArray
<1> HIDE DEF scaled, y
<1> QED
  BY <1>5, <1>7, <1>9, <1>11

\* The product of an array and scalars, as a fold the induction lemmas are about.
TimesOp(p, acc, x) == Times(acc, x)
Products == INSTANCE SetInduction WITH Op <- TimesOp
Product(x, flat) == FoldLeft(Times, x, flat)

LEMMA ProductIsFold ==
    ASSUME NEW x, NEW flat PROVE Product(x, flat) = Products!Folded(0, x, flat)
BY DEF Product, TimesOp, FoldLeft, MapThenFoldSet, Max, Products!Folded, Products!FoldLeft,
       Products!MapThenFoldSet, Products!Max


\* An element appended to a concatenation is appended to its second part.
Behind(s, t, x) == Append(s \o t, x) = s \o Append(t, x)
LEMMA AppendBehind ==
    ASSUME NEW U, NEW s \in Seq(U), NEW t \in Seq(U), NEW x \in U
    PROVE  Behind(s, t, x)
BY DEF Behind

LEMMA AppendIs ==
    ASSUME NEW U, NEW s \in Seq(U), NEW x \in U, NEW r,
           r \in Seq(U), Len(r) = Len(s) + 1,
           \A i \in 1 .. Len(s) : r[i] = s[i], r[Len(s) + 1] = x
    PROVE  r = Append(s, x)
<1> DEFINE t == Append(s, x)
           n == Len(s)
<1>1. /\ n \in Nat /\ t = [i \in 1 .. n + 1 |-> t[i]] /\ t[n + 1] = x
      /\ \A i \in 1 .. n : t[i] = s[i]
  <2>1. n \in Nat /\ t \in Seq(U) /\ Len(t) = n + 1
    OBVIOUS
  <2>2. t[n + 1] = x /\ \A i \in 1 .. n : t[i] = s[i]
    OBVIOUS
  <2> HIDE DEF t, n
  <2>3. t = [i \in 1 .. Len(t) |-> t[i]]
    BY <2>1
  <2> QED
    BY <2>1, <2>2, <2>3
<1> HIDE DEF t, n
<1>2. ASSUME NEW i \in 1 .. n + 1 PROVE r[i] = t[i]
  <2>1. i \in 1 .. n \/ i = n + 1
    BY <1>1
  <2> QED
    BY <1>1, <2>1 DEF n
<1>3. r = [i \in 1 .. n + 1 |-> r[i]]
  BY DEF n
<1>4. r = t
  BY <1>1, <1>2, <1>3
<1> QED
  BY <1>4 DEF t

\* The scalars of a list of factors, for one label.
Scale(flat, l) == [i \in DOMAIN flat |-> MemberOf(flat[i], l)]

LEMMA ScaleAppend ==
    ASSUME NEW f \in Calls, NEW flat \in Seq(Factors(f)), NEW x \in Factors(f), NEW l
    PROVE  /\ Scale(flat, l) \in Seq(Scalars(f))
           /\ Scale(Append(flat, x), l) = Append(Scale(flat, l), MemberOf(x, l))
<1> DEFINE n == Len(flat)
           r == Append(flat, x)
           S == Scalars(f)
           old == Scale(flat, l)
           new == Scale(r, l)
           v == MemberOf(x, l)
<1>1. /\ n \in Nat /\ DOMAIN flat = 1 .. n /\ DOMAIN r = 1 .. n + 1
      /\ \A i \in 1 .. n : r[i] = flat[i] /\ flat[i] \in Factors(f)
      /\ r[n + 1] = x
  OBVIOUS
<1>2. v \in S /\ \A i \in 1 .. n : MemberOf(flat[i], l) \in S
  BY <1>1, FactorIs
<1> HIDE DEF r, n
<1>3. old = [i \in 1 .. n |-> MemberOf(flat[i], l)]
  BY <1>1 DEF Scale
<1>4. new = [i \in 1 .. n + 1 |-> MemberOf(r[i], l)]
  BY <1>1 DEF Scale
<1> HIDE DEF S, v
<1>5. old \in Seq(S) /\ Len(old) = n
  <2>1. old \in [1 .. n -> S]
    BY <1>2, <1>3
  <2> QED
    BY <1>1, <2>1
<1>6. new = Append(old, v)
  <2>1. \A i \in 1 .. n : new[i] = old[i]
    BY <1>1, <1>3, <1>4
  <2>2. new[n + 1] = v
    BY <1>1, <1>4 DEF v
  <2>3. new \in [1 .. n + 1 -> S]
    <3>1. \A i \in 1 .. n + 1 : new[i] \in S
      <4>1. \A i \in 1 .. n + 1 : i \in 1 .. n \/ i = n + 1
        BY <1>1
      <4>2. \A i \in 1 .. n : new[i] \in S
        BY <1>2, <1>3, <2>1
      <4> QED
        BY <1>2, <2>2, <4>1, <4>2
    <3> QED
      BY <1>4, <3>1
  <2>6. new \in Seq(S) /\ Len(new) = n + 1
    BY <1>1, <2>3
  <2> HIDE DEF old, new
  <2>4. old \in Seq(S) /\ v \in S
    BY <1>2, <1>5
  <2>5. /\ new \in Seq(S) /\ Len(new) = Len(old) + 1 /\ new[Len(old) + 1] = v
        /\ \A i \in 1 .. Len(old) : new[i] = old[i]
    BY <1>5, <2>1, <2>2, <2>6
  <2> QED
    BY <2>4, <2>5, AppendIs
<1> QED
  BY <1>5, <1>6 DEF r, v, S

LEMMA ProductIs ==
    ASSUME NEW f \in Calls, NEW x, Lay(f, x), NEW flat \in Seq(Factors(f))
    PROVE  /\ Lay(f, Product(x, flat)) /\ Product(x, flat).ctx = x.ctx
           /\ \A l : MemberOf(Product(x, flat), l) =
                [base |-> MemberOf(x, l).base, at |-> MemberOf(x, l).at,
                 scales |-> MemberOf(x, l).scales \o Scale(flat, l)]
<1> DEFINE Good(q) ==
             /\ Lay(f, Product(x, q)) /\ Product(x, q).ctx = x.ctx
             /\ \A l : MemberOf(Product(x, q), l) =
                  [base |-> MemberOf(x, l).base, at |-> MemberOf(x, l).at,
                   scales |-> MemberOf(x, l).scales \o Scale(q, l)]
           T == {q \in Seq(Factors(f)) : Good(q)}
<1>0. \A l : /\ MemberOf(x, l) = [base |-> MemberOf(x, l).base, at |-> MemberOf(x, l).at,
                                   scales |-> MemberOf(x, l).scales]
             /\ MemberOf(x, l).scales \in Seq(Scalars(f))
  <2> TAKE l
  <2>1. MemberOf(x, l) \in Columns(f, x.ctx)
    BY MemberLay
  <2> QED
    BY <2>1, ColumnIs
<1>1. <<>> \in T
  <2>1. Product(x, <<>>) = x
    BY ProductIsFold, Products!FoldNil
  <2>2. \A l : Scale(<<>>, l) = <<>>
    BY DEF Scale
  <2>3. \A l : MemberOf(x, l).scales \o <<>> = MemberOf(x, l).scales
    BY <1>0
  <2>4. Good(<<>>)
    BY <1>0, <2>1, <2>2, <2>3
  <2>5. <<>> \in Seq(Factors(f))
    OBVIOUS
  <2> QED
    BY <2>4, <2>5
<1>2. ASSUME NEW q \in Seq(Factors(f)), NEW y \in Factors(f), q \in T PROVE Append(q, y) \in T
  <2> DEFINE z == Product(x, q)
             r == Append(q, y)
  <2>1. Product(x, r) = Times(z, y)
    <3>1. Products!Folded(0, x, Append(q, y)) = TimesOp(0, Products!Folded(0, x, q), y)
      BY Products!FoldAppend
    <3> QED
      BY <3>1, ProductIsFold DEF TimesOp
  <2>2. /\ Lay(f, z) /\ z.ctx = x.ctx
        /\ \A l : MemberOf(z, l) = [base |-> MemberOf(x, l).base, at |-> MemberOf(x, l).at,
                                     scales |-> MemberOf(x, l).scales \o Scale(q, l)]
    BY <1>2
  <2>3. r \in Seq(Factors(f))
    OBVIOUS
  <2>4. \A l : Scale(q, l) \in Seq(Scalars(f)) /\ Scale(r, l) = Append(Scale(q, l), MemberOf(y, l))
    BY ScaleAppend
  <2> HIDE DEF z, r
  <2>5. /\ Lay(f, Times(z, y)) /\ Times(z, y).ctx = z.ctx
        /\ \A l : MemberOf(Times(z, y), l) =
             [base |-> MemberOf(z, l).base, at |-> MemberOf(z, l).at,
              scales |-> Append(MemberOf(z, l).scales, MemberOf(y, l))]
    BY <2>2, TimesIs
  <2>6. \A l : Append(MemberOf(z, l).scales, MemberOf(y, l)) = MemberOf(x, l).scales \o Scale(r, l)
    <3> TAKE l
    <3> DEFINE s == MemberOf(x, l).scales
               t == Scale(q, l)
               v == MemberOf(y, l)
    <3>1. MemberOf(z, l).scales = s \o t
      BY <2>2
    <3>2. s \in Seq(Scalars(f)) /\ t \in Seq(Scalars(f))
           /\ v \in Scalars(f) /\ Scale(r, l) = Append(t, v)
      BY <1>0, <2>4, FactorIs
    <3> DEFINE S == Scalars(f)
    <3> HIDE DEF s, t, v, S
    <3>3. Append(s \o t, v) = s \o Append(t, v)
      <4>1. s \in Seq(S) /\ t \in Seq(S) /\ v \in S
        BY <3>2 DEF S
      <4>2. Behind(s, t, v)
        BY <4>1, AppendBehind
      <4> QED
        BY <4>2 DEF Behind
    <3> QED
      BY <3>1, <3>2, <3>3 DEF s, t, v
  <2>7. \A l : MemberOf(z, l).base = MemberOf(x, l).base /\ MemberOf(z, l).at = MemberOf(x, l).at
    BY <2>2
  <2>8. \A l : MemberOf(Times(z, y), l) =
             [base |-> MemberOf(x, l).base, at |-> MemberOf(x, l).at,
              scales |-> MemberOf(x, l).scales \o Scale(r, l)]
    BY <2>5, <2>6, <2>7
  <2>9. Good(r)
    BY <2>1, <2>2, <2>5, <2>8
  <2> QED
    BY <2>3, <2>9 DEF r
<1> HIDE DEF T
<1>3. Seq(Factors(f)) \subseteq T
  BY <1>1, <1>2, SeqInduction
<1> QED
  BY <1>3 DEF T

-----------------------------------------------------------------------------
(* What a list of operands contributes to a cell *)

\* What a column brings into a cell: its base at its context, and its scalars.
ColumnContent(c) == (IF c.base \in DOMAIN Depth THEN <<<<c.base, c.at>>>> ELSE <<>>) \o c.scales

\* The content of an operand for a label, re-indexed: a constant's and a factor's too.
Weighed(f, x, l) ==
    IF IsConst(x) THEN <<x.value>>
    ELSE IF IsFactor(x) THEN <<MemberOf(x, l)>>
    ELSE ColumnContent(MemberOf(ReindexTo(x, Unified(f)), l))

\* The things a call's weights are made of, and the weights among operands.
Atoms(f) ==
    Scalars(f) \cup {x.value : x \in {y \in ToSet(f.weights) : IsConst(y)}}
        \cup ((DOMAIN Depth) \X Contexts)

Weight(f, x) == (IsConst(x) /\ x.value \in Atoms(f)) \/ x \in Factors(f) \/ Lay(f, x)

LEMMA KindsDiffer ==
    ASSUME NEW f, NEW x
    PROVE  /\ IsConst(x) => ~IsFactor(x) /\ ~IsArray(x)
           /\ IsFactor(x) => ~IsArray(x)
           /\ Lay(f, x) => IsArray(x)
           /\ x \in Factors(f) => IsFactor(x)
BY DEF IsConst, IsFactor, IsArray, Lay, Factors

\* What an array contributes: its base at its rows, unless ones, and its scalars.
LEMMA WeighedLay ==
    ASSUME NEW f \in Calls, NEW x, Lay(f, x), NEW l
    PROVE  /\ Weighed(f, x, l) =
                (IF MemberOf(x, l).base \in DOMAIN Depth
                 THEN <<<<MemberOf(x, l).base, Rows(x, Unified(f))>>>> ELSE <<>>)
                    \o MemberOf(x, l).scales
           /\ Weighed(f, x, l) \in Seq(Atoms(f))
<1> DEFINE c == MemberOf(ReindexTo(x, Unified(f)), l)
           m == MemberOf(x, l)
           A == Atoms(f)
<1>1. Weighed(f, x, l) = ColumnContent(c)
  BY KindsDiffer DEF Weighed
<1>2. c = [base |-> m.base, at |-> Rows(x, Unified(f)), scales |-> m.scales]
  BY UnifiedIs, Reindexed
<1>3. c.base = m.base /\ c.at = Rows(x, Unified(f)) /\ c.scales = m.scales
  BY <1>2
<1>4. m.scales \in Seq(Scalars(f))
  BY MemberLay, ColumnIs
<1>5. m.scales \in Seq(A)
  <2>1. Scalars(f) \subseteq A
    BY DEF Atoms
  <2>2. \A P, Q : P \subseteq Q => Seq(P) \subseteq Seq(Q)
    OBVIOUS
  <2> QED
    BY <1>4, <2>1, <2>2
<1>6. m.base \in DOMAIN Depth => <<m.base, Rows(x, Unified(f))>> \in A
  BY UnifiedIs, ContextsAreNat DEF Atoms, Rows
<1> HIDE DEF c, m, A
<1>7. ASSUME NEW p, NEW s \in Seq(A), m.base \in DOMAIN Depth => p \in A
      PROVE (IF m.base \in DOMAIN Depth THEN <<p>> ELSE <<>>) \o s \in Seq(A)
  <2>1. <<>> \in Seq(A) /\ (m.base \in DOMAIN Depth => <<p>> \in Seq(A))
    BY <1>7
  <2>2. (IF m.base \in DOMAIN Depth THEN <<p>> ELSE <<>>) \in Seq(A)
    BY <2>1
  <2> QED
    BY <2>2
<1>8. ColumnContent(c) =
        (IF m.base \in DOMAIN Depth THEN <<<<m.base, Rows(x, Unified(f))>>>> ELSE <<>>) \o m.scales
  BY <1>3 DEF ColumnContent
<1> QED
  BY <1>1, <1>5, <1>6, <1>7, <1>8 DEF m, A

LEMMA WeighedType ==
    ASSUME NEW f \in Calls, NEW x, Weight(f, x), NEW l
    PROVE  Weighed(f, x, l) \in Seq(Atoms(f))
<1>1. CASE IsConst(x) /\ x.value \in Atoms(f)
  <2>1. Weighed(f, x, l) = <<x.value>>
    BY <1>1 DEF Weighed
  <2> QED
    BY <1>1, <2>1
<1>2. CASE x \in Factors(f)
  <2>1. Weighed(f, x, l) = <<MemberOf(x, l)>>
    BY <1>2, KindsDiffer DEF Weighed
  <2>2. MemberOf(x, l) \in Scalars(f)
    BY <1>2, FactorIs
  <2>3. MemberOf(x, l) \in Atoms(f)
    BY <2>2 DEF Atoms
  <2> QED
    BY <2>1, <2>3
<1>3. CASE Lay(f, x)
  BY <1>3, WeighedLay
<1> QED
  BY <1>1, <1>2, <1>3 DEF Weight

\* An operand as it is passed contributes what the call means by it.
LEMMA MeantIs ==
    ASSUME NEW f \in Calls, NEW x, Operand(x), NEW l
    PROVE  Meant(f, x, l) = Weighed(f, x, l)
<1>1. CASE IsConst(x)
  BY <1>1 DEF Meant, Weighed
<1>2. CASE IsFactor(x)
  BY <1>2 DEF Meant, Weighed, IsConst, IsFactor
<1>3. CASE IsArray(x)
  <2>1. Lay(f, x)
    BY <1>3, OperandLay
  <2>2. MemberOf(x, l).base \in DOMAIN Depth
    <3>1. \A k \in DOMAIN x.member : x.member[k].base \in DOMAIN Depth
      BY <1>3, OperandLay
    <3>2. MemberOf(x, l) = x.member[Pick(x, l)] /\ Pick(x, l) \in DOMAIN x.member
      BY <2>1, MemberIs DEF Lay
    <3> QED
      BY <3>1, <3>2
  <2>3. Weighed(f, x, l) = <<<<MemberOf(x, l).base, Rows(x, Unified(f))>>>> \o MemberOf(x, l).scales
    BY <2>1, <2>2, WeighedLay
  <2>4. ~IsConst(x) /\ ~IsFactor(x)
    BY <1>3, KindsDiffer
  <2> QED
    BY <2>3, <2>4 DEF Meant, Rows
<1> QED
  BY <1>1, <1>2, <1>3 DEF Operand

\* What a list contributes for a label, and how often an atom is in it.
Contents(f, xs, l) == FlattenSeq([i \in DOMAIN xs |-> Weighed(f, xs[i], l)])
Many(s, a) == Cardinality(Hits(s, {a}))
Tally(f, xs, l, a) == Many(Contents(f, xs, l), a)
Weights(f, X) == \A x \in X : Weight(f, x)

LEMMA ContentsAppend ==
    ASSUME NEW f \in Calls, NEW X, Weights(f, X), NEW xs \in Seq(X), NEW x \in X, NEW l
    PROVE  /\ Contents(f, xs, l) \in Seq(Atoms(f))
           /\ Contents(f, Append(xs, x), l) = Contents(f, xs, l) \o Weighed(f, x, l)
<1> DEFINE n == Len(xs)
           r == Append(xs, x)
           A == Atoms(f)
           old == [i \in DOMAIN xs |-> Weighed(f, xs[i], l)]
           new == [i \in DOMAIN r |-> Weighed(f, r[i], l)]
           v == Weighed(f, x, l)
           Q == Seq(A)
<1>1. /\ n \in Nat /\ DOMAIN xs = 1 .. n /\ DOMAIN r = 1 .. n + 1
      /\ \A i \in 1 .. n : r[i] = xs[i] /\ xs[i] \in X
      /\ r[n + 1] = x
  OBVIOUS
<1>2. v \in Q /\ \A i \in 1 .. n : Weighed(f, xs[i], l) \in Q
  BY <1>1, WeighedType DEF Weights
<1> HIDE DEF r, n
<1>3. old = [i \in 1 .. n |-> Weighed(f, xs[i], l)]
      /\ new = [i \in 1 .. n + 1 |-> Weighed(f, r[i], l)]
  BY <1>1
<1> HIDE DEF A, v, Q, old, new
<1>4. old \in Seq(Q) /\ Len(old) = n
  <2>1. old \in [1 .. n -> Q]
    BY <1>2, <1>3
  <2> QED
    BY <1>1, <2>1
<1>5. new \in Seq(Q) /\ Len(new) = n + 1 /\ new[n + 1] = v /\ \A i \in 1 .. n : new[i] = old[i]
  <2>1. new[n + 1] = v /\ \A i \in 1 .. n : new[i] = old[i] /\ new[i] \in Q
    BY <1>1, <1>2, <1>3 DEF v
  <2>2. \A i \in 1 .. n + 1 : i \in 1 .. n \/ i = n + 1
    BY <1>1
  <2>3. \A i \in 1 .. n + 1 : new[i] \in Q
    BY <1>2, <2>1, <2>2
  <2>4. new \in [1 .. n + 1 -> Q]
    BY <1>3, <2>3
  <2>5. new \in Seq(Q) /\ Len(new) = n + 1
    BY <1>1, <2>4
  <2> QED
    BY <2>1, <2>5
<1>6. new = Append(old, v)
  BY <1>2, <1>4, <1>5, AppendIs
<1>7. old \in Seq(Seq(A)) /\ v \in Seq(A)
  BY <1>2, <1>4 DEF Q
<1>8. FlattenSeq(Append(old, v)) = FlattenSeq(old) \o v
  BY <1>7, FlattenAppend
<1>9. FlattenSeq(old) \in Seq(A)
  BY <1>7, FlattenType
<1> QED
  BY <1>6, <1>8, <1>9 DEF Contents, old, new, v, A, r

LEMMA ContentsType ==
    ASSUME NEW f \in Calls, NEW X, Weights(f, X), NEW xs \in Seq(X), NEW l
    PROVE  Contents(f, xs, l) \in Seq(Atoms(f)) /\ Contents(f, <<>>, l) = <<>>
<1>1. Contents(f, <<>>, l) = <<>>
  <2>1. [i \in DOMAIN <<>> |-> Weighed(f, <<>>[i], l)] = <<>>
    OBVIOUS
  <2> QED
    BY <2>1, FlattenNil DEF Contents
<1>2. CASE X = {}
  <2>1. xs = <<>>
    BY <1>2
  <2>2. <<>> \in Seq(Atoms(f))
    OBVIOUS
  <2> QED
    BY <1>1, <2>1, <2>2
<1>3. CASE X # {}
  BY <1>1, <1>3, ContentsAppend
<1> QED
  BY <1>2, <1>3

LEMMA TallyAppend ==
    ASSUME NEW f \in Calls, NEW X, Weights(f, X), NEW xs \in Seq(X), NEW x \in X, NEW l, NEW a
    PROVE  /\ Tally(f, xs, l, a) \in Nat /\ Many(Weighed(f, x, l), a) \in Nat
           /\ Tally(f, Append(xs, x), l, a) = Tally(f, xs, l, a) + Many(Weighed(f, x, l), a)
<1> DEFINE s == Contents(f, xs, l)
           t == Weighed(f, x, l)
           A == Atoms(f)
<1>1. s \in Seq(A) /\ Contents(f, Append(xs, x), l) = s \o t
  BY ContentsAppend
<1>2. t \in Seq(A)
  BY WeighedType DEF Weights
<1> HIDE DEF s, t, A
<1>3. /\ IsFiniteSet(Hits(s, {a})) /\ IsFiniteSet(Hits(t, {a}))
      /\ Cardinality(Hits(s \o t, {a})) = Cardinality(Hits(s, {a})) + Cardinality(Hits(t, {a}))
  BY <1>1, <1>2, HitsConcat
<1>4. Cardinality(Hits(s, {a})) \in Nat /\ Cardinality(Hits(t, {a})) \in Nat
  BY <1>3, FS_CardinalityType
<1> QED
  BY <1>1, <1>3, <1>4 DEF Tally, Many, s, t

LEMMA TallyNil == ASSUME NEW f \in Calls, NEW l, NEW a PROVE Tally(f, <<>>, l, a) = 0
<1>1. <<>> \in Seq({}) /\ Weights(f, {})
  BY DEF Weights
<1>2. Contents(f, <<>>, l) = <<>>
  BY <1>1, ContentsType
<1>3. Hits(<<>>, {a}) = {}
  BY DEF Hits
<1> QED
  BY <1>2, <1>3, FS_EmptySet DEF Tally, Many

LEMMA TallyType ==
    ASSUME NEW f \in Calls, NEW X, Weights(f, X), NEW xs \in Seq(X), NEW l, NEW a
    PROVE  Tally(f, xs, l, a) \in Nat
<1>1. CASE X = {}
  <2>1. xs = <<>>
    BY <1>1
  <2> QED
    BY <2>1, TallyNil
<1>2. CASE X # {}
  BY <1>2, TallyAppend
<1> QED
  BY <1>1, <1>2

\* Two lists one behind the other contribute what each does.
LEMMA TallyConcat ==
    ASSUME NEW f \in Calls, NEW X, Weights(f, X), NEW xs \in Seq(X), NEW ys \in Seq(X), NEW l, NEW a
    PROVE  Tally(f, xs \o ys, l, a) = Tally(f, xs, l, a) + Tally(f, ys, l, a)
<1> DEFINE Sum(q) == Tally(f, xs \o q, l, a) = Tally(f, xs, l, a) + Tally(f, q, l, a)
           T == {q \in Seq(X) : Sum(q)}
<1>0. \A q \in Seq(X) : Tally(f, q, l, a) \in Nat
  BY TallyType
<1>1. <<>> \in T
  <2>1. xs \o <<>> = xs /\ <<>> \in Seq(X)
    OBVIOUS
  <2> QED
    BY <1>0, <2>1, TallyNil
<1>2. ASSUME NEW q \in Seq(X), NEW x \in X, q \in T PROVE Append(q, x) \in T
  <2>1. xs \o Append(q, x) = Append(xs \o q, x) /\ xs \o q \in Seq(X) /\ Append(q, x) \in Seq(X)
    OBVIOUS
  <2>2. Tally(f, Append(xs \o q, x), l, a) = Tally(f, xs \o q, l, a) + Many(Weighed(f, x, l), a)
    <3> DEFINE z == xs \o q
    <3>1. z \in Seq(X)
      BY <2>1
    <3> HIDE DEF z
    <3>2. Tally(f, Append(z, x), l, a) = Tally(f, z, l, a) + Many(Weighed(f, x, l), a)
      BY <3>1, TallyAppend
    <3> QED
      BY <3>2 DEF z
  <2>3. /\ Tally(f, Append(q, x), l, a) = Tally(f, q, l, a) + Many(Weighed(f, x, l), a)
        /\ Many(Weighed(f, x, l), a) \in Nat
    BY TallyAppend
  <2>4. Tally(f, xs \o q, l, a) = Tally(f, xs, l, a) + Tally(f, q, l, a)
    BY <1>2
  <2>5. Sum(Append(q, x))
    BY <1>0, <2>1, <2>2, <2>3, <2>4
  <2> QED
    BY <2>1, <2>5
<1> HIDE DEF T
<1>3. Seq(X) \subseteq T
  BY <1>1, <1>2, SeqInduction
<1> QED
  BY <1>3 DEF T

\* And so do the members of a list in a set and the others.
LEMMA TallyParts ==
    ASSUME NEW f \in Calls, NEW X, Weights(f, X), NEW xs \in Seq(X), NEW S, NEW l, NEW a
    PROVE  Tally(f, xs, l, a) = Tally(f, Only(xs, S), l, a) + Tally(f, Only(xs, X \ S), l, a)
<1> DEFINE Parts(q) ==
              Tally(f, q, l, a) = Tally(f, Only(q, S), l, a) + Tally(f, Only(q, X \ S), l, a)
           T == {q \in Seq(X) : Parts(q)}
<1>0. \A q \in Seq(X) : Tally(f, q, l, a) \in Nat
  BY TallyType
<1>1. <<>> \in T
  <2>1. <<>> \in Seq(X)
    OBVIOUS
  <2>2. Only(<<>>, S) = <<>> /\ Only(<<>>, X \ S) = <<>>
    BY OnlyNil
  <2>3. Tally(f, <<>>, l, a) = 0
    BY TallyNil
  <2> QED
    BY <2>1, <2>2, <2>3
<1>2. ASSUME NEW q \in Seq(X), NEW x \in X, q \in T PROVE Append(q, x) \in T
  <2> DEFINE r == Append(q, x)
             w == Many(Weighed(f, x, l), a)
  <2>1. r \in Seq(X)
    OBVIOUS
  <2>2. Tally(f, r, l, a) = Tally(f, q, l, a) + w /\ w \in Nat
    BY TallyAppend
  <2>3. Parts(q)
    BY <1>2
  <2>4. \A P : Only(q, P) \in Seq(X) /\ Tally(f, Only(q, P), l, a) \in Nat
    BY <1>0, OnlyType
  <2>5. \A P : Only(r, P) = Only(q, P) \o Kept(x, P)
    BY OnlyAppend
  <2>6. \A P : Tally(f, Only(r, P), l, a) =
                 Tally(f, Only(q, P), l, a) + IF x \in P THEN w ELSE 0
    <3> TAKE P
    <3>1. CASE x \in P
      <4>1. Only(q, P) \o <<x>> = Append(Only(q, P), x)
        BY <2>4
      <4>2. Tally(f, Append(Only(q, P), x), l, a) = Tally(f, Only(q, P), l, a) + w
        BY <2>4, TallyAppend
      <4> QED
        BY <2>5, <3>1, <4>1, <4>2 DEF Kept
    <3>2. CASE x \notin P
      <4>1. Only(q, P) \o <<>> = Only(q, P)
        BY <2>4
      <4>2. Only(r, P) = Only(q, P)
        BY <2>5, <3>2, <4>1 DEF Kept
      <4>3. Tally(f, Only(q, P), l, a) \in Nat
        BY <2>4
      <4>4. Tally(f, Only(q, P), l, a) = Tally(f, Only(q, P), l, a) + 0
        BY <4>3
      <4> QED
        BY <3>2, <4>2, <4>4
    <3> QED
      BY <3>1, <3>2
  <2> HIDE DEF r, w
  <2>7. Parts(r)
    <3>1. x \in S \/ x \in X \ S
      OBVIOUS
    <3>2. ~(x \in S /\ x \in X \ S)
      OBVIOUS
    <3>3. Tally(f, Only(r, S), l, a) = Tally(f, Only(q, S), l, a) + IF x \in S THEN w ELSE 0
      BY <2>6
    <3>4. Tally(f, Only(r, X \ S), l, a) = Tally(f, Only(q, X \ S), l, a)
             + IF x \in X \ S THEN w ELSE 0
      BY <2>6
    <3>5. Tally(f, Only(q, S), l, a) \in Nat /\ Tally(f, Only(q, X \ S), l, a) \in Nat
      BY <2>4
    <3> QED
      BY <2>2, <2>3, <3>1, <3>2, <3>3, <3>4, <3>5
  <2> QED
    BY <2>1, <2>7 DEF r
<1> HIDE DEF T
<1>3. Seq(X) \subseteq T
  BY <1>1, <1>2, SeqInduction
<1> QED
  BY <1>3 DEF T

LEMMA HitsType ==
    ASSUME NEW D, NEW s \in Seq(D), NEW a
    PROVE  /\ Many(s, a) \in Nat /\ (a \in ToSet(s) <=> Many(s, a) # 0)
           /\ Many(s, a) = Cardinality({i \in DOMAIN s : s[i] = a})
<1>1. DOMAIN s = 1 .. Len(s) /\ Len(s) \in Nat
  OBVIOUS
<1>2. IsFiniteSet(DOMAIN s)
  BY <1>1, FS_Interval
<1>3. IsFiniteSet(Hits(s, {a})) /\ Hits(s, {a}) = {i \in DOMAIN s : s[i] = a}
  <2>1. Hits(s, {a}) = {i \in DOMAIN s : s[i] = a}
    BY DEF Hits
  <2>2. Hits(s, {a}) \subseteq DOMAIN s
    BY <2>1
  <2> QED
    BY <1>2, <2>1, <2>2, FS_Subset
<1>4. Cardinality(Hits(s, {a})) \in Nat /\ (Cardinality(Hits(s, {a})) = 0 <=> Hits(s, {a}) = {})
  BY <1>3, FS_CardinalityType, FS_EmptySet
<1>5. a \in ToSet(s) <=> Hits(s, {a}) # {}
  BY <1>3 DEF ToSet
<1> QED
  BY <1>3, <1>4, <1>5 DEF Many

\* Lists with the same tally of every atom have the same counts.
LEMMA CountsEqual ==
    ASSUME NEW D, NEW s \in Seq(D), NEW t \in Seq(D), \A a : Many(s, a) = Many(t, a)
    PROVE  Counts(s) = Counts(t)
<1>1. \A a : /\ a \in ToSet(s) <=> Many(s, a) # 0
             /\ Many(s, a) = Cardinality({i \in DOMAIN s : s[i] = a})
  BY HitsType
<1>2. \A a : /\ a \in ToSet(t) <=> Many(t, a) # 0
             /\ Many(t, a) = Cardinality({i \in DOMAIN t : t[i] = a})
  BY HitsType
<1>3. ToSet(s) = ToSet(t)
  BY <1>1, <1>2
<1>4. Counts(s) = [a \in ToSet(s) |-> Many(s, a)] /\ Counts(t) = [a \in ToSet(t) |-> Many(t, a)]
  BY <1>1, <1>2 DEF Counts
<1> QED
  BY <1>3, <1>4

LEMMA OnlySingle ==
    ASSUME NEW x, NEW S
    PROVE  Only(<<x>>, S) = Kept(x, S)
<1>1. <<x>> = Append(<<>>, x) /\ <<>> \in Seq({x}) /\ x \in {x}
  OBVIOUS
<1>2. Only(Append(<<>>, x), S) = Only(<<>>, S) \o Kept(x, S)
  BY <1>1, OnlyAppend
<1>3. <<>> \o Kept(x, S) = Kept(x, S)
  BY DEF Kept
<1> QED
  BY <1>1, <1>2, <1>3, OnlyNil

LEMMA OnlyOfOnly ==
    ASSUME NEW U, NEW xs \in Seq(U), NEW S, NEW R \in SUBSET S
    PROVE  Only(Only(xs, S), R) = Only(xs, R)
<1> DEFINE T == {q \in Seq(U) : Only(Only(q, S), R) = Only(q, R)}
<1>1. <<>> \in T
  <2>1. <<>> \in Seq(U)
    OBVIOUS
  <2>2. Only(<<>>, S) = <<>> /\ Only(<<>>, R) = <<>>
    BY OnlyNil
  <2> QED
    BY <2>1, <2>2
<1>2. ASSUME NEW q \in Seq(U), NEW x \in U, q \in T PROVE Append(q, x) \in T
  <2>1. Append(q, x) \in Seq(U)
    OBVIOUS
  <2>2. Only(Append(q, x), S) = Only(q, S) \o Kept(x, S)
        /\ Only(Append(q, x), R) = Only(q, R) \o Kept(x, R)
    BY OnlyAppend
  <2>3. Only(q, S) \in Seq(U) /\ Kept(x, S) \in Seq(U)
    BY OnlyType, KeptType
  <2>4. Only(Only(q, S) \o Kept(x, S), R) = Only(Only(q, S), R) \o Only(Kept(x, S), R)
    <3> DEFINE a == Only(q, S)
               b == Kept(x, S)
    <3> HIDE DEF a, b
    <3>1. a \in Seq(U) /\ b \in Seq(U)
      BY <2>3 DEF a, b
    <3>2. Only(a \o b, R) = Only(a, R) \o Only(b, R)
      BY <3>1, OnlyConcat
    <3> QED
      BY <3>2 DEF a, b
  <2>5. Only(Kept(x, S), R) = Kept(x, R)
    BY OnlySingle, OnlyNil DEF Kept
  <2>6. Only(Only(q, S), R) = Only(q, R)
    BY <1>2
  <2>7. Only(Only(Append(q, x), S), R) = Only(Append(q, x), R)
    BY <2>2, <2>4, <2>5, <2>6
  <2> QED
    BY <2>1, <2>7
<1> HIDE DEF T
<1>3. Seq(U) \subseteq T
  BY <1>1, <1>2, SeqInduction
<1> QED
  BY <1>3 DEF T

\* Ones are an array that contributes nothing.
LEMMA OnesIs ==
    ASSUME NEW f \in Calls, Numeric(f) # <<>>
    PROVE  /\ Lay(f, Ones(f))
           /\ \A l : /\ MemberOf(Ones(f), l).base \notin DOMAIN Depth
                     /\ MemberOf(Ones(f), l).scales = <<>>
                     /\ Weighed(f, Ones(f), l) = <<>>
<1> DEFINE P == Arrays(ToSet(f.args))
           x == Numeric(f)[1]
           m == x.member[Nominal]
           b == m.base
           one == [m EXCEPT !.base = <<"ones", @>>]
           member == [l \in {Nominal} |-> one]
           y == [kind |-> "array", labels |-> <<Nominal>>, ctx |-> x.ctx, member |-> member]
<1>1. Ones(f) = y
  BY DEF Ones
<1>2. Numeric(f) \in Seq(P)
  <2>1. Values(f) \in Seq(P)
    BY GivenType
  <2> HIDE DEF P
  <2> QED
    BY <2>1, OnlyType DEF Numeric
<1>3. x \in P
  <2> DEFINE s == Numeric(f)
  <2>1. s \in Seq(P) /\ s # <<>>
    BY <1>2
  <2> HIDE DEF s, P
  <2>2. s[1] \in P
    BY <2>1
  <2> QED
    BY <2>2 DEF s
<1>4. x \in Arrays(Passed(f))
  BY <1>3 DEF Arrays, Passed
<1>5. Lay(f, x) /\ Nominal \in DOMAIN x.member /\ x.ctx \in Contexts
      /\ m.base \in DOMAIN Depth /\ m.scales = <<>>
  <2>1. Lay(f, x) /\ x.ctx \in Contexts
        /\ \A l \in DOMAIN x.member : x.member[l].base \in DOMAIN Depth /\ x.member[l].scales = <<>>
    BY <1>4, PassedLay
  <2>2. Nominal \in DOMAIN x.member
    BY <2>1 DEF Lay, Labelled
  <2> QED
    BY <2>1, <2>2
<1>6. m \in Columns(f, x.ctx)
  BY <1>5 DEF Lay
<1>7. m = [base |-> m.base, at |-> x.ctx, scales |-> m.scales]
  BY <1>6, ColumnIs
<1> HIDE DEF m, x
<1>8. one = [base |-> <<"ones", b>>, at |-> x.ctx, scales |-> <<>>]
  <2> DEFINE s == m.scales
             c == x.ctx
             base == <<"ones", b>>
  <2>1. m = [base |-> b, at |-> c, scales |-> s]
    BY <1>7
  <2>2. one = [m EXCEPT !.base = base]
    OBVIOUS
  <2>3. s = <<>>
    BY <1>5
  <2> HIDE DEF base, b, c, one, s
  <2>4. [m EXCEPT !.base = base] = [base |-> base, at |-> c, scales |-> s]
    BY <2>1
  <2> QED
    BY <2>2, <2>3, <2>4 DEF base, c
<1>9. one \in Columns(f, x.ctx) /\ one.base \notin DOMAIN Depth /\ one.scales = <<>>
  <2> DEFINE S == Seq(Scalars(f))
             base == <<"ones", b>>
  <2>1. <<>> \in S
    OBVIOUS
  <2>2. base \in Bases /\ base \notin DOMAIN Depth
    BY <1>5, DepthAssumption DEF Bases
  <2> HIDE DEF base, S
  <2>3. [base |-> base, at |-> x.ctx, scales |-> <<>>] \in [base : Bases, at : {x.ctx}, scales : S]
    BY <2>1, <2>2
  <2>4. one.base = base /\ one.scales = <<>>
    BY <1>8 DEF base
  <2> QED
    BY <1>8, <2>2, <2>3, <2>4 DEF Columns, S, base
<1> HIDE DEF one
<1>10. /\ y.labels = <<Nominal>> /\ y.member = member /\ y.ctx = x.ctx /\ y.kind = "array"
       /\ DOMAIN member = {Nominal} /\ member[Nominal] = one
       /\ y = [kind |-> "array", labels |-> y.labels, member |-> y.member, ctx |-> y.ctx]
  OBVIOUS
<1>11. <<Nominal>> \in Seq({Nominal}) /\ IsInjective(<<Nominal>>) /\ ToSet(<<Nominal>>) = {Nominal}
  <2>1. <<Nominal>> \in Seq({Nominal}) /\ DOMAIN <<Nominal>> = {1} /\ <<Nominal>>[1] = Nominal
    OBVIOUS
  <2> QED
    BY <2>1 DEF IsInjective, ToSet
<1>12. member \in [{Nominal} -> Columns(f, x.ctx)]
  BY <1>9
<1> HIDE DEF member, y
<1>13. Lay(f, y)
  <2>1. Labelled(y)
    BY <1>10, <1>11, NoneAssumption DEF Labelled
  <2>2. y.member \in [DOMAIN y.member -> Columns(f, y.ctx)]
    BY <1>10, <1>12
  <2> QED
    BY <1>5, <1>10, <2>1, <2>2 DEF Lay, IsArray
<1>14. \A l : MemberOf(y, l) = one
  BY <1>10 DEF MemberOf
<1>15. \A l : Weighed(f, y, l) = <<>>
  <2> TAKE l
  <2>1. Weighed(f, y, l) = <<>> \o <<>>
    BY <1>9, <1>13, <1>14, WeighedLay
  <2>2. <<>> \o <<>> = <<>>
    OBVIOUS
  <2> QED
    BY <2>1, <2>2
<1> QED
  BY <1>1, <1>9, <1>13, <1>14, <1>15

LEMMA TallySingle ==
    ASSUME NEW f \in Calls, NEW x, Weight(f, x), NEW l, NEW a
    PROVE  Tally(f, <<x>>, l, a) = Many(Weighed(f, x, l), a) /\ Many(Weighed(f, x, l), a) \in Nat
<1> DEFINE none == <<>>
           X == {x}
<1>1. <<x>> = Append(none, x) /\ none \in Seq(X) /\ x \in X /\ Weights(f, X)
  BY DEF Weights
<1>2. Tally(f, none, l, a) = 0
  BY TallyNil
<1> HIDE DEF none, X
<1>3. /\ Tally(f, Append(none, x), l, a) = Tally(f, none, l, a) + Many(Weighed(f, x, l), a)
      /\ Many(Weighed(f, x, l), a) \in Nat
  BY <1>1, TallyAppend
<1>4. Tally(f, <<x>>, l, a) = Tally(f, Append(none, x), l, a)
  BY <1>1, Zenon
<1> HIDE <1>1
<1>5. Tally(f, Append(none, x), l, a) = Many(Weighed(f, x, l), a)
  BY <1>2, <1>3
<1> QED
  BY <1>3, <1>4, <1>5, Zenon

\* The factors of a list contribute their scalars.
LEMMA TallyFactors ==
    ASSUME NEW f \in Calls, NEW flat \in Seq(Factors(f)), NEW l
    PROVE  Contents(f, flat, l) = Scale(flat, l)
<1> DEFINE T == {q \in Seq(Factors(f)) : Contents(f, q, l) = Scale(q, l)}
<1>0. Weights(f, Factors(f))
  BY DEF Weights, Weight
<1>1. <<>> \in T
  <2>1. <<>> \in Seq(Factors(f)) /\ Scale(<<>>, l) = <<>>
    BY DEF Scale
  <2>2. Contents(f, <<>>, l) = <<>>
    BY <1>0, <2>1, ContentsType
  <2> QED
    BY <2>1, <2>2
<1>2. ASSUME NEW q \in Seq(Factors(f)), NEW x \in Factors(f), q \in T PROVE Append(q, x) \in T
  <2>1. Append(q, x) \in Seq(Factors(f))
    OBVIOUS
  <2>2. Contents(f, Append(q, x), l) = Contents(f, q, l) \o Weighed(f, x, l)
    BY <1>0, ContentsAppend
  <2>3. Scale(q, l) \in Seq(Scalars(f))
        /\ Scale(Append(q, x), l) = Append(Scale(q, l), MemberOf(x, l))
    BY ScaleAppend
  <2>4. Weighed(f, x, l) = <<MemberOf(x, l)>>
    BY KindsDiffer DEF Weighed
  <2>5. Contents(f, q, l) = Scale(q, l)
    BY <1>2
  <2> DEFINE s == Scale(q, l)
             v == MemberOf(x, l)
  <2> HIDE DEF s, v
  <2>6. s \o <<v>> = Append(s, v)
    BY <2>3 DEF s
  <2>7. Contents(f, Append(q, x), l) = Scale(Append(q, x), l)
    BY <2>2, <2>3, <2>4, <2>5, <2>6 DEF s, v
  <2> QED
    BY <2>1, <2>7
<1> HIDE DEF T
<1>3. Seq(Factors(f)) \subseteq T
  BY <1>1, <1>2, SeqInduction
<1> QED
  BY <1>3 DEF T

\* Multiplied into an array, they contribute as much.
LEMMA TallyProduct ==
    ASSUME NEW f \in Calls, NEW x, Lay(f, x), NEW flat \in Seq(Factors(f)), NEW l, NEW a
    PROVE  Tally(f, <<Product(x, flat)>>, l, a) = Tally(f, <<x>>, l, a) + Tally(f, flat, l, a)
<1> DEFINE y == Product(x, flat)
           s == Weighed(f, x, l)
           t == Scale(flat, l)
           A == Atoms(f)
<1>1. /\ Lay(f, y) /\ y.ctx = x.ctx
      /\ MemberOf(y, l) = [base |-> MemberOf(x, l).base, at |-> MemberOf(x, l).at,
                           scales |-> MemberOf(x, l).scales \o t]
  BY ProductIs
<1>2. s \in Seq(A) /\ Weighed(f, y, l) \in Seq(A)
  BY <1>1, WeighedLay
<1>3. t \in Seq(Scalars(f)) /\ t \in Seq(A)
  <2>1. flat \in Seq(Factors(f))
    OBVIOUS
  <2>2. Weights(f, Factors(f))
    BY DEF Weights, Weight
  <2>3. Contents(f, flat, l) \in Seq(A)
    BY <2>2, ContentsType
  <2>4. Scalars(f) # {} \/ flat = <<>>
    <3>1. flat = <<>> \/ flat[1] \in Factors(f)
      OBVIOUS
    <3> QED
      BY <3>1, FactorIs
  <2>5. t \in Seq(Scalars(f))
    <3>1. CASE flat = <<>>
      <4>1. t = <<>>
        BY <3>1 DEF Scale
      <4> QED
        BY <4>1
    <3>2. CASE flat # <<>>
      <4>1. flat[1] \in Factors(f)
        BY <3>2
      <4> QED
        BY <4>1, ScaleAppend
    <3> QED
      BY <3>1, <3>2
  <2> QED
    BY <2>3, <2>5, TallyFactors
<1>4. Weighed(f, y, l) = s \o t
  <2> DEFINE m == MemberOf(x, l)
             at == <<<<m.base, Rows(x, Unified(f))>>>>
             head == IF m.base \in DOMAIN Depth THEN at ELSE <<>>
  <2>1. s = head \o m.scales
    BY WeighedLay
  <2>2. MemberOf(y, l).base = m.base /\ MemberOf(y, l).scales = m.scales \o t
    BY <1>1
  <2>3. Rows(y, Unified(f)) = Rows(x, Unified(f))
    BY <1>1 DEF Rows
  <2>4. Weighed(f, y, l) = head \o (m.scales \o t)
    BY <1>1, <2>2, <2>3, WeighedLay
  <2>5. m.scales \in Seq(Scalars(f))
    BY MemberLay, ColumnIs
  <2> DEFINE sc == m.scales
             S == Scalars(f)
             p == <<m.base, Rows(x, Unified(f))>>
             V == S \cup {p}
  <2>6. head \in Seq(V)
    <3>1. <<p>> \in Seq(V) /\ <<>> \in Seq(V)
      OBVIOUS
    <3> QED
      BY <3>1
  <2>7. sc \in Seq(V) /\ t \in Seq(V)
    <3>1. S \subseteq V
      OBVIOUS
    <3>2. \A P, Q : P \subseteq Q => Seq(P) \subseteq Seq(Q)
      OBVIOUS
    <3> QED
      BY <1>3, <2>5, <3>1, <3>2
  <2> HIDE DEF head, sc, V, t
  <2>8. head \o (sc \o t) = (head \o sc) \o t
    BY <2>6, <2>7
  <2> QED
    BY <2>1, <2>4, <2>8 DEF sc
<1>5. Many(s \o t, a) = Many(s, a) + Many(t, a)
  <2> HIDE DEF s, t, A
  <2> QED
    BY <1>2, <1>3, HitsConcat DEF Many
<1>6. Tally(f, <<y>>, l, a) = Many(Weighed(f, y, l), a) /\ Tally(f, <<x>>, l, a) = Many(s, a)
  <2>1. Weight(f, y) /\ Weight(f, x)
    BY <1>1 DEF Weight
  <2> HIDE DEF y, s
  <2> QED
    BY <2>1, TallySingle DEF s
<1>7. Tally(f, flat, l, a) = Many(t, a)
  BY TallyFactors DEF Tally
<1> QED
  BY <1>4, <1>5, <1>6, <1>7

-----------------------------------------------------------------------------
(* Lifting the scalar factors *)

\* What _lifted does not refuse.
Liftable(f) == Factors(f) # {} /\ NodeFactors(f.weights) = <<>> => Numeric(f) # <<>>

\* The factors, the other weights, those with an array to multiply, and that array's place.
Flat(f) == Only(f.weights, Factors(f))
Rest(f) == Only(f.weights, ToSet(f.weights) \ Factors(f))
Arrayed(f) == IF NodeFactors(Rest(f)) = <<>> THEN <<Ones(f)>> \o Rest(f) ELSE Rest(f)
First(f) == Min({i \in DOMAIN Arrayed(f) : IsArray(Arrayed(f)[i])})

LEMMA LiftedIs ==
    ASSUME NEW f
    PROVE  Lifted(f) = IF Flat(f) = <<>> THEN f.weights
                       ELSE [Arrayed(f) EXCEPT ![First(f)] = Product(@, Flat(f))]
BY DEF Lifted, Flat, Rest, Arrayed, First, Factors, Product

\* The constants and arrays of a list of weights.
Plain(f, x) == (IsConst(x) /\ x.value \in Atoms(f)) \/ Lay(f, x)
PlainSeq(f, xs) == xs \in Seq(ToSet(xs)) /\ \A x \in ToSet(xs) : Plain(f, x)

LEMMA WeightsArePlain ==
    ASSUME NEW f \in Calls
    PROVE  /\ \A x \in ToSet(f.weights) : Operand(x) /\ Weight(f, x)
           /\ \A x \in ToSet(f.weights) \ Factors(f) : Plain(f, x)
           /\ Flat(f) \in Seq(Factors(f)) /\ Rest(f) \in Seq(ToSet(f.weights) \ Factors(f))
           /\ Flat(f) = <<>> <=> Factors(f) = {}
           /\ NodeFactors(Rest(f)) = NodeFactors(f.weights)
<1> DEFINE W == ToSet(f.weights)
           F == Factors(f)
<1>1. F \subseteq W /\ f.weights \in Seq(W)
  BY CallIs DEF Factors
<1>2. ASSUME NEW x \in W PROVE Operand(x) /\ (x \in F \/ Plain(f, x))
  <2>1. Operand(x)
    BY CallIs
  <2>2. CASE IsConst(x)
    BY <2>1, <2>2 DEF Plain, Atoms
  <2>3. CASE IsFactor(x)
    BY <2>1, <2>3 DEF Factors
  <2>4. CASE IsArray(x)
    BY <2>1, <2>4, OperandLay DEF Plain
  <2> QED
    BY <2>1, <2>2, <2>3, <2>4 DEF Operand
<1>3. \A x : Plain(f, x) => Weight(f, x)
  BY DEF Plain, Weight
<1>4. \A x \in F : Weight(f, x)
  BY DEF Weight
<1>5. W \cap F = F /\ W \cap (W \ F) = W \ F
  BY <1>1
<1> HIDE DEF W, F
<1>6. Only(f.weights, F) \in Seq(W \cap F) /\ Only(f.weights, W \ F) \in Seq(W \cap (W \ F))
  BY <1>1, OnlyType
<1>7. ToSet(Only(f.weights, F)) = F
  <2> DEFINE w == f.weights
  <2>1. w \in Seq(W) /\ ToSet(w) = W
    BY <1>1 DEF W
  <2> HIDE DEF w
  <2>2. ToSet(Only(w, F)) = ToSet(w) \cap F
    BY <2>1, OnlyHas
  <2> QED
    BY <1>5, <2>1, <2>2 DEF w
<1>8. Only(f.weights, F) = <<>> <=> F = {}
  <2> DEFINE s == Only(f.weights, F)
  <2>1. s \in Seq(F) /\ ToSet(s) = F
    BY <1>5, <1>6, <1>7
  <2> HIDE DEF s
  <2>2. s = <<>> => F = {}
    BY <2>1 DEF ToSet
  <2>3. F = {} => s = <<>>
    BY <2>1
  <2> QED
    BY <2>2, <2>3 DEF s
<1>9. NodeFactors(Rest(f)) = NodeFactors(f.weights)
  <2> DEFINE R == W \ F
             A == Arrays(W)
             B == Arrays(R)
             w == f.weights
             s == Only(w, R)
  <2>1. s \in Seq(R) /\ w \in Seq(W)
    BY <1>1, <1>5, <1>6
  <2>2. A \subseteq R /\ \A x \in R : x \in B <=> x \in A
    BY DEF Arrays, F, Factors, IsArray, IsFactor
  <2> HIDE DEF R, A, B, w, s
  <2>3. NodeFactors(s) = Only(s, B) /\ NodeFactors(w) = Only(w, A)
    BY <2>1, NodeFactorsIs DEF A, B
  <2>4. Only(s, B) = Only(s, A)
    BY <2>1, <2>2, OnlyAgree
  <2>5. Only(Only(w, R), A) = Only(w, A)
    BY <2>1, <2>2, OnlyOfOnly
  <2> QED
    BY <2>3, <2>4, <2>5 DEF s, w, R, Rest, W, F
<1> QED
  BY <1>2, <1>3, <1>4, <1>5, <1>6, <1>8, <1>9 DEF W, F, Flat, Rest

\* The list with an array in it that the factors go into.
LEMMA ArrayedIs ==
    ASSUME NEW f \in Calls, Liftable(f), Factors(f) # {}
    PROVE  /\ PlainSeq(f, Arrayed(f)) /\ NodeFactors(Arrayed(f)) # <<>>
           /\ \A l, a : Tally(f, Arrayed(f), l, a) = Tally(f, Rest(f), l, a)
           /\ NodeFactors(f.weights) # <<>> => NodeFactors(Arrayed(f)) = NodeFactors(f.weights)
           /\ NodeFactors(f.weights) = <<>> => NodeFactors(Arrayed(f)) = <<Ones(f)>>
<1> DEFINE R == ToSet(f.weights) \ Factors(f)
           rest == Rest(f)
<1>1. /\ \A x \in R : Plain(f, x)
      /\ rest \in Seq(R) /\ NodeFactors(rest) = NodeFactors(f.weights)
  BY WeightsArePlain
<1> HIDE DEF R, rest
<1>2. CASE NodeFactors(f.weights) # <<>>
  <2>1. Arrayed(f) = rest
    BY <1>1, <1>2 DEF Arrayed, rest
  <2>2. rest \in Seq(ToSet(rest)) /\ ToSet(rest) \subseteq R
    BY <1>1, SeqOfItself
  <2> QED
    BY <1>1, <1>2, <2>1, <2>2 DEF PlainSeq, rest
<1>3. CASE NodeFactors(f.weights) = <<>>
  <2> DEFINE one == Ones(f)
             head == <<one>>
             X == R \cup {one}
             s == head \o rest
  <2>1. Arrayed(f) = s
    BY <1>1, <1>3 DEF Arrayed, rest
  <2>2. Lay(f, one) /\ \A l : Weighed(f, one, l) = <<>>
    BY <1>3, OnesIs DEF Liftable
  <2>3. Plain(f, one) /\ Weight(f, one)
    BY <2>2 DEF Plain, Weight
  <2>4. \A x \in X : Plain(f, x) /\ Weight(f, x)
    BY <1>1, <2>3 DEF Plain, Weight
  <2>5. head \in Seq(X) /\ rest \in Seq(X)
    <3>1. R \subseteq X /\ one \in X
      OBVIOUS
    <3> HIDE DEF X, one
    <3>2. \A P, Q : P \subseteq Q => Seq(P) \subseteq Seq(Q)
      OBVIOUS
    <3>3. <<one>> \in Seq(X)
      BY <3>1
    <3> QED
      BY <1>1, <3>1, <3>2, <3>3
  <2>6. IsArray(one)
    BY <2>2 DEF Lay
  <2>7. NodeFactors(head) = <<one>>
    BY <2>6, NodeFactorsSingle
  <2>8. Weights(f, X)
    BY <2>4 DEF Weights
  <2>9. \A l, a : Tally(f, head, l, a) = 0
    <3> TAKE l, a
    <3>1. Tally(f, head, l, a) = Many(Weighed(f, one, l), a)
      BY <2>3, TallySingle
    <3>2. Weighed(f, one, l) = <<>>
      BY <2>2
    <3>3. Hits(<<>>, {a}) = {}
      BY DEF Hits
    <3>4. Many(<<>>, a) = 0
      BY <3>3, FS_EmptySet DEF Many
    <3> QED
      BY <3>1, <3>2, <3>4
  <2> HIDE DEF head, X, one
  <2>10. NodeFactors(head \o rest) = NodeFactors(head) \o NodeFactors(rest)
    BY <2>5, NodeFactorsConcat
  <2>11. \A l, a : Tally(f, head \o rest, l, a) = Tally(f, head, l, a) + Tally(f, rest, l, a)
    BY <2>5, <2>8, TallyConcat
  <2>12. \A l, a : Tally(f, rest, l, a) \in Nat
    BY <2>5, <2>8, TallyType
  <2>13. s \in Seq(X)
    BY <2>5
  <2> HIDE DEF s
  <2>14. s \in Seq(ToSet(s)) /\ ToSet(s) \subseteq X
    BY <2>13, SeqOfItself
  <2>15. <<one>> \o <<>> = <<one>> /\ <<one>> # <<>>
    OBVIOUS
  <2>16. NodeFactors(s) = <<one>>
    BY <1>1, <1>3, <2>7, <2>10, <2>15 DEF s
  <2>17. \A l, a : Tally(f, s, l, a) = Tally(f, rest, l, a)
    BY <2>9, <2>11, <2>12 DEF s
  <2> QED
    BY <1>3, <2>1, <2>4, <2>14, <2>15, <2>16, <2>17 DEF PlainSeq, rest, one
<1> QED
  BY <1>2, <1>3

LEMMA NodeFactorsNone ==
    ASSUME NEW X, NEW xs \in Seq(X)
    PROVE  NodeFactors(xs) = <<>> <=> \A i \in 1 .. Len(xs) : ~IsArray(xs[i])
<1>1. NodeFactors(xs) = Only(xs, Arrays(X)) /\ NodeFactors(xs) \in Seq(Arrays(X))
  BY NodeFactorsIs
<1>2. ToSet(Only(xs, Arrays(X))) = ToSet(xs) \cap Arrays(X)
  BY OnlyHas
<1>3. ToSet(xs) = {xs[i] : i \in 1 .. Len(xs)} /\ ToSet(xs) \subseteq X
  BY SeqOfItself
<1> DEFINE s == NodeFactors(xs)
           A == Arrays(X)
<1>4. s \in Seq(A) /\ ToSet(s) = ToSet(xs) \cap A
  BY <1>1, <1>2
<1> HIDE DEF s, A
<1>5. s = <<>> <=> ToSet(s) = {}
  <2>1. DOMAIN s = 1 .. Len(s) /\ Len(s) \in Nat /\ (s = <<>> <=> Len(s) = 0)
    BY <1>4
  <2>2. Len(s) # 0 => 1 \in DOMAIN s
    BY <2>1
  <2>3. Len(s) = 0 => DOMAIN s = {}
    BY <2>1
  <2>4. ToSet(s) = {} <=> DOMAIN s = {}
    BY DEF ToSet
  <2> QED
    BY <2>1, <2>2, <2>3, <2>4
<1>6. ToSet(xs) \cap A = {} <=> \A i \in 1 .. Len(xs) : ~IsArray(xs[i])
  BY <1>3 DEF A, Arrays
<1> QED
  BY <1>4, <1>5, <1>6 DEF s

\* Where a sequence's elements come from when it is two sequences.
Joined(a, b, r) ==
    /\ Len(a) \in Nat /\ Len(b) \in Nat /\ Len(r) = Len(a) + Len(b)
    /\ DOMAIN a = 1 .. Len(a) /\ DOMAIN b = 1 .. Len(b) /\ DOMAIN r = 1 .. Len(r)
    /\ \A j \in 1 .. Len(a) : r[j] = a[j]
    /\ \A j \in 1 .. Len(b) : r[Len(a) + j] = b[j]

LEMMA ConcatJoins ==
    ASSUME NEW U, NEW a \in Seq(U), NEW b \in Seq(U)
    PROVE  Joined(a, b, a \o b) /\ a \o b \in Seq(U)
<1>1. a \o b \in Seq(U)
  OBVIOUS
<1>2. /\ Len(a) \in Nat /\ Len(b) \in Nat /\ Len(a \o b) = Len(a) + Len(b)
      /\ DOMAIN a = 1 .. Len(a) /\ DOMAIN b = 1 .. Len(b)
      /\ DOMAIN (a \o b) = 1 .. Len(a \o b)
  OBVIOUS
<1>3. \A j \in 1 .. Len(a) : (a \o b)[j] = a[j]
  OBVIOUS
<1>4. \A j \in 1 .. Len(b) : (a \o b)[Len(a) + j] = b[j]
  OBVIOUS
<1> QED
  BY <1>1, <1>2, <1>3, <1>4 DEF Joined

\* A sequence around its i-th element, and with another one there.
Split(s, i, y, a, b) ==
    /\ s = (a \o <<s[i]>>) \o b /\ [s EXCEPT ![i] = y] = (a \o <<y>>) \o b
    /\ Len(a) = i - 1 /\ \A j \in 1 .. i - 1 : a[j] = s[j]

LEMMA SplitAt ==
    ASSUME NEW U, NEW s \in Seq(U), NEW i \in 1 .. Len(s), NEW y \in U
    PROVE  \E a, b \in Seq(U) : Split(s, i, y, a, b)
<1> DEFINE n == Len(s)
           a == SubSeq(s, 1, i - 1)
           b == SubSeq(s, i + 1, n)
<1>1. n \in Nat /\ i \in 1 .. n /\ DOMAIN s = 1 .. n /\ \A j \in 1 .. n : s[j] \in U
  OBVIOUS
<1>2. /\ a \in Seq(U) /\ Len(a) = i - 1 /\ \A j \in 1 .. i - 1 : a[j] = s[j]
      /\ b \in Seq(U) /\ Len(b) = n - i /\ \A j \in 1 .. n - i : b[j] = s[i + j]
  OBVIOUS
<1> HIDE DEF a, b
<1>3. ASSUME NEW z \in U
      PROVE  (a \o <<z>>) \o b = [j \in 1 .. n |-> IF j = i THEN z ELSE s[j]]
  <2> DEFINE t == a \o <<z>>
             r == t \o b
  <2> DEFINE o == <<z>>
  <2>0. o \in Seq(U) /\ Len(o) = 1 /\ o[1] = z
    OBVIOUS
  <2> HIDE DEF o
  <2>1. t \in Seq(U) /\ Len(t) = i /\ t[i] = z /\ \A j \in 1 .. i - 1 : t[j] = s[j]
    <3>1. Joined(a, o, a \o o) /\ a \o o \in Seq(U)
      BY <1>2, <2>0, ConcatJoins
    <3>2. t = a \o o
      BY DEF o
    <3> HIDE DEF t
    <3>3. Joined(a, o, t) /\ t \in Seq(U)
      BY <3>1, <3>2
    <3>4. Len(t) = i /\ i = Len(a) + 1
      BY <1>1, <1>2, <2>0, <3>3 DEF Joined
    <3>5. t[Len(a) + 1] = o[1] /\ \A j \in 1 .. Len(a) : t[j] = a[j]
      BY <2>0, <3>3 DEF Joined
    <3> QED
      BY <1>2, <2>0, <3>3, <3>4, <3>5
  <2> HIDE DEF t
  <2>2. /\ r \in Seq(U) /\ Len(r) = n
        /\ \A j \in 1 .. i : r[j] = t[j]
        /\ \A j \in 1 .. n - i : r[i + j] = b[j]
    <3>1. Joined(t, b, r) /\ r \in Seq(U)
      BY <1>2, <2>1, ConcatJoins
    <3> HIDE DEF r
    <3> QED
      BY <1>1, <1>2, <2>1, <3>1 DEF Joined
  <2> HIDE DEF r
  <2>3. ASSUME NEW j \in 1 .. n PROVE r[j] = IF j = i THEN z ELSE s[j]
    <3>1. CASE j < i
      <4>1. j \in 1 .. i /\ j \in 1 .. i - 1
        BY <1>1, <3>1
      <4> QED
        BY <2>1, <2>2, <3>1, <4>1
    <3>2. CASE j = i
      <4>1. j \in 1 .. i
        BY <1>1, <3>2
      <4> QED
        BY <2>1, <2>2, <3>2, <4>1
    <3>3. CASE j > i
      <4>1. j - i \in 1 .. n - i /\ i + (j - i) = j
        BY <1>1, <3>3
      <4>2. r[j] = b[j - i] /\ b[j - i] = s[j]
        BY <1>2, <2>2, <4>1
      <4> QED
        BY <3>3, <4>2
    <3> QED
      BY <1>1, <3>1, <3>2, <3>3
  <2>4. r = [j \in 1 .. n |-> r[j]]
    BY <2>2
  <2>5. r = [j \in 1 .. n |-> IF j = i THEN z ELSE s[j]]
    BY <2>3, <2>4
  <2> QED
    BY <2>5 DEF r, t
<1>4. s = [j \in 1 .. n |-> IF j = i THEN s[i] ELSE s[j]]
  <2>1. s = [j \in 1 .. n |-> s[j]]
    OBVIOUS
  <2>2. [j \in 1 .. n |-> s[j]] = [j \in 1 .. n |-> IF j = i THEN s[i] ELSE s[j]]
    OBVIOUS
  <2> QED
    BY <2>1, <2>2
<1>5. [s EXCEPT ![i] = y] = [j \in 1 .. n |-> IF j = i THEN y ELSE s[j]]
  BY <1>1
<1>6. (a \o <<s[i]>>) \o b = [j \in 1 .. n |-> IF j = i THEN s[i] ELSE s[j]]
  BY <1>1, <1>3
<1>7. (a \o <<y>>) \o b = [j \in 1 .. n |-> IF j = i THEN y ELSE s[j]]
  BY <1>3
<1> HIDE DEF n
<1>8. s = (a \o <<s[i]>>) \o b
  BY <1>4, <1>6, Zenon
<1>9. [s EXCEPT ![i] = y] = (a \o <<y>>) \o b
  BY <1>5, <1>7, Zenon
<1> QED
  BY <1>2, <1>8, <1>9 DEF Split

\* What the arrays of the lifted list are to the arrays of the list as it is passed.
SameBases(x, y) == \A l : MemberOf(x, l).base = MemberOf(y, l).base
Alike(xs, ys) == Len(xs) = Len(ys) /\ \A i \in 1 .. Len(xs) : SameBases(xs[i], ys[i])
OnesOnly(xs) == Len(xs) = 1 /\ \A l : MemberOf(xs[1], l).base \notin DOMAIN Depth

\* Lifting leaves constants and arrays, with the arrays' columns, and what the weights
\* contribute to a cell.
LEMMA LiftedRight ==
    ASSUME NEW f \in Calls, Liftable(f)
    PROVE  /\ PlainSeq(f, Lifted(f))
           /\ \A l, a : Tally(f, Lifted(f), l, a) = Tally(f, f.weights, l, a)
           /\ \/ Alike(NodeFactors(Lifted(f)), NodeFactors(f.weights))
              \/ NodeFactors(f.weights) = <<>> /\ OnesOnly(NodeFactors(Lifted(f)))
<1>1. CASE Factors(f) = {}
  <2>1. Lifted(f) = f.weights
    BY <1>1, LiftedIs, WeightsArePlain
  <2>2. PlainSeq(f, f.weights)
    BY <1>1, CallIs, WeightsArePlain DEF PlainSeq
  <2>3. Alike(NodeFactors(f.weights), NodeFactors(f.weights))
    BY DEF Alike, SameBases
  <2> QED
    BY <2>1, <2>2, <2>3
<1>2. CASE Factors(f) # {}
  <2> DEFINE s == Arrayed(f)
             i == First(f)
             flat == Flat(f)
             x == s[i]
             y == Product(x, flat)
             X == ToSet(s) \cup {y}
             D == {j \in DOMAIN s : IsArray(s[j])}
  <2>1. /\ PlainSeq(f, s) /\ NodeFactors(s) # <<>>
        /\ \A l, a : Tally(f, s, l, a) = Tally(f, Rest(f), l, a)
        /\ NodeFactors(f.weights) # <<>> => NodeFactors(s) = NodeFactors(f.weights)
        /\ NodeFactors(f.weights) = <<>> => NodeFactors(s) = <<Ones(f)>>
    BY <1>2, ArrayedIs
  <2>2. s \in Seq(ToSet(s)) /\ \A z \in ToSet(s) : Plain(f, z)
    BY <2>1 DEF PlainSeq
  <2>3. flat \in Seq(Factors(f)) /\ flat # <<>>
    BY <1>2, WeightsArePlain
  <2>4. Lifted(f) = [s EXCEPT ![i] = y]
    BY <2>3, LiftedIs
  <2>5. i \in D /\ \A j \in D : i <= j
    <3>1. D # {}
      <4>1. ~\A j \in 1 .. Len(s) : ~IsArray(s[j])
        BY <2>1, <2>2, NodeFactorsNone
      <4>2. DOMAIN s = 1 .. Len(s)
        BY <2>2
      <4> QED
        BY <4>1, <4>2
    <3>2. D \subseteq 1 .. Len(s) /\ Len(s) \in Nat
      BY <2>2
    <3>3. IsFiniteSet(1 .. Len(s)) /\ 1 .. Len(s) \subseteq Int
      BY <3>2, FS_Interval
    <3>4. i = Min(D)
      BY DEF First
    <3> HIDE DEF D, i
    <3>5. IsFiniteSet(D) /\ D \in SUBSET Int
      BY <3>2, <3>3, FS_Subset
    <3> QED
      BY <3>1, <3>4, <3>5, MinMax
  <2>6. i \in 1 .. Len(s) /\ IsArray(x) /\ \A j \in 1 .. i - 1 : ~IsArray(s[j])
    <3>1. DOMAIN s = 1 .. Len(s) /\ Len(s) \in Nat
      BY <2>2
    <3>2. i \in 1 .. Len(s) /\ IsArray(s[i])
      BY <2>5, <3>1
    <3>3. ASSUME NEW j \in 1 .. i - 1 PROVE ~IsArray(s[j])
      <4>1. j \in 1 .. Len(s) /\ ~(i <= j)
        BY <3>1, <3>2
      <4> QED
        BY <2>5, <3>1, <4>1
    <3> QED
      BY <3>2, <3>3
  <2>7. x \in ToSet(s) /\ Plain(f, x) /\ Lay(f, x)
    <3>1. DOMAIN s = 1 .. Len(s)
      BY <2>2
    <3>2. x \in ToSet(s)
      BY <2>6, <3>1 DEF ToSet
    <3> QED
      BY <2>2, <2>6, <3>2, KindsDiffer DEF Plain
  <2>8. /\ Lay(f, y)
        /\ \A l : MemberOf(y, l).base = MemberOf(x, l).base
    <3>1. /\ Lay(f, y)
          /\ \A l : MemberOf(y, l) = [base |-> MemberOf(x, l).base, at |-> MemberOf(x, l).at,
                                      scales |-> MemberOf(x, l).scales \o Scale(flat, l)]
      BY <2>3, <2>7, ProductIs
    <3> HIDE DEF y
    <3> QED
      BY <3>1
  <2>9. \A z \in X : Plain(f, z) /\ Weight(f, z)
    BY <2>2, <2>8 DEF Plain, Weight
  <2>10. s \in Seq(X) /\ X # {} /\ x \in X /\ y \in X
    <3>1. \A P, Q : P \subseteq Q => Seq(P) \subseteq Seq(Q)
      OBVIOUS
    <3> QED
      BY <2>2, <2>7, <3>1
  <2>11. \A l, a : Tally(f, <<y>>, l, a) = Tally(f, <<x>>, l, a) + Tally(f, flat, l, a)
    BY <2>3, <2>7, TallyProduct
  <2>12. IsArray(x) /\ IsArray(y)
    BY <2>6, <2>8 DEF Lay
  <2>13. NodeFactors(<<x>>) = <<x>> /\ NodeFactors(<<y>>) = <<y>>
    BY <2>12, NodeFactorsSingle
  <2> HIDE DEF s, i, flat, y, X, D, x
  <2>13a. PICK a, b \in Seq(X) : Split(s, i, y, a, b)
    BY <2>6, <2>10, SplitAt
  <2>14. /\ s = (a \o <<x>>) \o b /\ [s EXCEPT ![i] = y] = (a \o <<y>>) \o b
         /\ Len(a) = i - 1 /\ \A j \in 1 .. i - 1 : a[j] = s[j]
    BY <2>13a DEF Split, x
  <2>15. <<x>> \in Seq(X) /\ <<y>> \in Seq(X)
    BY <2>10
  <2> DEFINE p == <<x>>
             q == <<y>>
             ap == a \o p
             aq == a \o q
             r == aq \o b
  <2>16. p \in Seq(X) /\ q \in Seq(X)
    BY <2>15
  <2>17. s = ap \o b /\ Lifted(f) = r
    BY <2>4, <2>14
  <2> HIDE DEF p, q
  <2>18. ap \in Seq(X) /\ aq \in Seq(X) /\ r \in Seq(X)
    BY <2>16
  <2>19. Weights(f, X)
    BY <2>9 DEF Weights
  <2>20. PlainSeq(f, Lifted(f))
    <3> HIDE DEF r
    <3>1. r \in Seq(ToSet(r)) /\ ToSet(r) \subseteq X
      BY <2>18, SeqOfItself
    <3> QED
      BY <2>9, <2>17, <3>1 DEF PlainSeq
  <2>21. \A l, e : Tally(f, Lifted(f), l, e) = Tally(f, f.weights, l, e)
    <3> TAKE l, e
    <3>1. Tally(f, ap, l, e) = Tally(f, a, l, e) + Tally(f, p, l, e)
      BY <2>16, <2>19, TallyConcat
    <3>2. Tally(f, aq, l, e) = Tally(f, a, l, e) + Tally(f, q, l, e)
      BY <2>16, <2>19, TallyConcat
    <3> HIDE DEF ap, aq
    <3>3. Tally(f, ap \o b, l, e) = Tally(f, ap, l, e) + Tally(f, b, l, e)
      BY <2>18, <2>19, TallyConcat
    <3>4. Tally(f, aq \o b, l, e) = Tally(f, aq, l, e) + Tally(f, b, l, e)
      BY <2>18, <2>19, TallyConcat
    <3>5. Tally(f, q, l, e) = Tally(f, p, l, e) + Tally(f, flat, l, e)
      BY <2>11 DEF p, q
    <3>6. /\ Tally(f, a, l, e) \in Nat /\ Tally(f, b, l, e) \in Nat
          /\ Tally(f, p, l, e) \in Nat /\ Tally(f, q, l, e) \in Nat
      BY <2>16, <2>19, TallyType
    <3>7. Tally(f, flat, l, e) \in Nat
      <4>1. Weights(f, Factors(f))
        BY DEF Weights, Weight
      <4> QED
        BY <2>3, <4>1, TallyType
    <3>8. Tally(f, f.weights, l, e) = Tally(f, flat, l, e) + Tally(f, Rest(f), l, e)
      <4>1. Weights(f, ToSet(f.weights)) /\ f.weights \in Seq(ToSet(f.weights))
        BY CallIs, WeightsArePlain DEF Weights
      <4> QED
        BY <4>1, TallyParts DEF Flat, Rest, flat
    <3>9. Tally(f, s, l, e) = Tally(f, Rest(f), l, e)
      BY <2>1 DEF s
    <3>10. Tally(f, s, l, e) = Tally(f, ap \o b, l, e)
      BY <2>17
    <3>11. Tally(f, Lifted(f), l, e) = Tally(f, aq \o b, l, e)
      BY <2>17
    <3> QED
      BY <3>1, <3>2, <3>3, <3>4, <3>5, <3>6, <3>7, <3>8, <3>9, <3>10, <3>11
  <2>22. NodeFactors(a) = <<>>
    <3>1. \A j \in 1 .. Len(a) : ~IsArray(a[j])
      BY <2>6, <2>14 DEF s, i
    <3> QED
      BY <3>1, NodeFactorsNone
  <2>23. NodeFactors(s) = <<x>> \o NodeFactors(b)
         /\ NodeFactors(Lifted(f)) = <<y>> \o NodeFactors(b)
    <3>1. NodeFactors(ap) = NodeFactors(a) \o NodeFactors(p)
          /\ NodeFactors(aq) = NodeFactors(a) \o NodeFactors(q)
      BY <2>16, NodeFactorsConcat
    <3>2. <<>> \o <<x>> = <<x>> /\ <<>> \o <<y>> = <<y>>
      OBVIOUS
    <3>3. NodeFactors(ap) = <<x>> /\ NodeFactors(aq) = <<y>>
      BY <2>13, <2>22, <3>1, <3>2 DEF p, q
    <3> HIDE DEF ap, aq
    <3>4. NodeFactors(ap \o b) = NodeFactors(ap) \o NodeFactors(b)
      BY <2>18, NodeFactorsConcat
    <3>5. NodeFactors(aq \o b) = NodeFactors(aq) \o NodeFactors(b)
      BY <2>18, NodeFactorsConcat
    <3> QED
      BY <2>17, <3>3, <3>4, <3>5
  <2>24. SameBases(y, x)
    BY <2>8 DEF SameBases, y, x
  <2>25. NodeFactors(b) \in Seq(Arrays(X))
    BY NodeFactorsIs
  <2> DEFINE t == NodeFactors(b)
             u == <<x>> \o t
             v == <<y>> \o t
  <2>26. /\ Len(u) = Len(t) + 1 /\ Len(v) = Len(t) + 1 /\ u[1] = x /\ v[1] = y /\ Len(t) \in Nat
         /\ \A j \in 2 .. Len(t) + 1 : u[j] = t[j - 1] /\ v[j] = t[j - 1]
    <3> DEFINE Y == Arrays(X) \cup {x, y}
    <3>1. t \in Seq(Y) /\ x \in Y /\ y \in Y
      <4>1. \A P, Q : P \subseteq Q => Seq(P) \subseteq Seq(Q)
        OBVIOUS
      <4> QED
        BY <2>25, <4>1
    <3> HIDE DEF Y, t
    <3> QED
      BY <3>1
  <2> HIDE DEF t, u, v
  <2>27. Alike(v, u)
    <3>1. ASSUME NEW j \in 1 .. Len(v) PROVE SameBases(v[j], u[j])
      <4>1. j = 1 \/ j \in 2 .. Len(t) + 1
        BY <2>26
      <4> QED
        BY <2>24, <2>26, <4>1 DEF SameBases
    <3> QED
      BY <2>26, <3>1 DEF Alike
  <2>28. CASE NodeFactors(f.weights) # <<>>
    <3>1. NodeFactors(s) = NodeFactors(f.weights)
      BY <2>1, <2>28 DEF s
    <3> QED
      BY <2>20, <2>21, <2>23, <2>27, <3>1 DEF u, v, t
  <2>29. CASE NodeFactors(f.weights) = <<>>
    <3>1. u = <<Ones(f)>>
      BY <2>1, <2>23, <2>29 DEF s, u, t
    <3>2. Len(<<Ones(f)>>) = 1 /\ <<Ones(f)>>[1] = Ones(f)
      OBVIOUS
    <3>3. Len(v) = 1 /\ SameBases(v[1], Ones(f))
      BY <2>27, <2>26, <3>1, <3>2 DEF Alike
    <3>4. \A l : MemberOf(Ones(f), l).base \notin DOMAIN Depth
      BY <1>2, <2>29, OnesIs DEF Liftable
    <3>5. OnesOnly(v)
      BY <3>3, <3>4 DEF OnesOnly, SameBases
    <3> QED
      BY <2>20, <2>21, <2>23, <2>29, <3>5 DEF v, t
  <2> QED
    BY <2>28, <2>29
<1> QED
  BY <1>1, <1>2

-----------------------------------------------------------------------------
(* What a call reads *)

\* The weight factors applied: the ambient weight and the lifted ones.
FactorList(f) == Optional(AmbientOf(f)) \o Lifted(f)
AskedFactors(f) == Optional(AmbientOf(f)) \o f.weights
Moved(f, xs) == [i \in DOMAIN xs |-> ReindexTo(xs[i], Unified(f))]
Lays(f, xs) == xs \in Seq(ToSet(xs)) /\ \A x \in ToSet(xs) : Lay(f, x)

LEMMA OptionalIs ==
    ASSUME NEW f \in Calls
    PROVE  LET amb == Optional(AmbientOf(f))
           IN /\ Lays(f, amb) /\ NodeFactors(amb) = amb /\ Moved(f, amb) = amb
              /\ \A x \in ToSet(amb) : Operand(x)
              /\ amb = <<>> \/ (amb = <<AmbientOf(f)>> /\ AmbientOf(f) # Absent)
<1> DEFINE a == AmbientOf(f)
           amb == Optional(a)
<1>1. CASE a = Absent
  <2>1. amb = <<>>
    BY <1>1 DEF Optional
  <2>2. ToSet(<<>>) = {} /\ Moved(f, <<>>) = <<>>
    BY DEF ToSet, Moved
  <2>3. <<>> \in Seq({})
    OBVIOUS
  <2> QED
    BY <2>1, <2>2, <2>3, NodeFactorsNil DEF Lays
<1>2. CASE a # Absent
  <2>1. amb = <<a>>
    BY <1>2 DEF Optional
  <2>2. Operand(a) /\ Lay(f, a) /\ IsArray(a) /\ a.ctx = Unified(f)
    BY <1>2, AmbientIs
  <2> HIDE DEF a
  <2>3. <<a>> \in Seq({a}) /\ DOMAIN <<a>> = {1} /\ <<a>>[1] = a
    OBVIOUS
  <2>4. ToSet(<<a>>) = {a}
    BY <2>3 DEF ToSet
  <2>5. ReindexTo(a, Unified(f)) = a
    BY <2>2 DEF ReindexTo
  <2>6. Moved(f, <<a>>) = <<a>>
    <3>1. Moved(f, <<a>>) = [i \in {1} |-> a]
      BY <2>3, <2>5 DEF Moved
    <3>2. <<a>> = [i \in {1} |-> a]
      OBVIOUS
    <3> QED
      BY <3>1, <3>2
  <2>7. NodeFactors(<<a>>) = <<a>>
    BY <2>2, NodeFactorsSingle
  <2> QED
    BY <1>2, <2>1, <2>2, <2>3, <2>4, <2>6, <2>7 DEF Lays, a
<1> QED
  BY <1>1, <1>2

LEMMA SeqOfDomain ==
    ASSUME NEW S, NEW n \in Nat, NEW s, s = [i \in 1 .. n |-> s[i]], \A i \in 1 .. n : s[i] \in S
    PROVE  s \in Seq(S) /\ Len(s) = n /\ DOMAIN s = 1 .. n
<1>1. s \in [1 .. n -> S]
  OBVIOUS
<1> QED
  BY <1>1

\* Re-indexed arrays are arrays.
LEMMA MovedIs ==
    ASSUME NEW f \in Calls, NEW xs, Lays(f, xs)
    PROVE  /\ Lays(f, Moved(f, xs)) /\ Len(Moved(f, xs)) = Len(xs) /\ Len(xs) \in Nat
           /\ DOMAIN xs = 1 .. Len(xs) /\ DOMAIN Moved(f, xs) = 1 .. Len(xs)
           /\ \A i \in 1 .. Len(xs) : Moved(f, xs)[i] = ReindexTo(xs[i], Unified(f))
               /\ Lay(f, xs[i])
<1> DEFINE n == Len(xs)
           s == Moved(f, xs)
           X == ToSet(xs)
           Y == {ReindexTo(x, Unified(f)) : x \in X}
<1>1. n \in Nat /\ DOMAIN xs = 1 .. n /\ xs \in Seq(X) /\ \A i \in 1 .. n : xs[i] \in X
  BY DEF Lays
<1>2. \A i \in 1 .. n : Lay(f, xs[i])
  BY <1>1 DEF Lays
<1>3. \A y \in Y : Lay(f, y)
  BY UnifiedIs, Reindexed DEF Lays
<1>4. s = [i \in 1 .. n |-> ReindexTo(xs[i], Unified(f))]
  BY <1>1 DEF Moved
<1>5. \A i \in 1 .. n : s[i] = ReindexTo(xs[i], Unified(f)) /\ s[i] \in Y
  BY <1>1, <1>4
<1> HIDE DEF n, s, X, Y
<1>6. s \in Seq(Y) /\ Len(s) = n /\ DOMAIN s = 1 .. n
  <2>1. s \in [1 .. n -> Y]
    BY <1>4, <1>5
  <2> QED
    BY <1>1, <2>1
<1>7. s \in Seq(ToSet(s)) /\ ToSet(s) \subseteq Y
  BY <1>6, SeqOfItself
<1> QED
  BY <1>1, <1>2, <1>3, <1>5, <1>6, <1>7 DEF Lays, n, s

LEMMA LaysConcat ==
    ASSUME NEW f, NEW xs, Lays(f, xs), NEW ys, Lays(f, ys)
    PROVE  Lays(f, xs \o ys)
<1> DEFINE X == ToSet(xs) \cup ToSet(ys)
           r == xs \o ys
<1>1. xs \in Seq(X) /\ ys \in Seq(X)
  <2>1. \A P, Q : P \subseteq Q => Seq(P) \subseteq Seq(Q)
    OBVIOUS
  <2> QED
    BY <2>1 DEF Lays
<1>2. \A x \in X : Lay(f, x)
  BY DEF Lays
<1> HIDE DEF X
<1>3. r \in Seq(X)
  BY <1>1
<1> HIDE DEF r
<1>4. r \in Seq(ToSet(r)) /\ ToSet(r) \subseteq X
  BY <1>3, SeqOfItself
<1> QED
  BY <1>2, <1>4 DEF Lays, r

\* A list of constants and arrays.
Slotted(f, xs) == xs \in Seq(ToSet(xs)) /\ \A x \in ToSet(xs) : IsConst(x) \/ Lay(f, x)

LEMMA SlottedArrays ==
    ASSUME NEW f \in Calls, NEW xs, Slotted(f, xs)
    PROVE  Lays(f, NodeFactors(xs))
<1> DEFINE X == ToSet(xs)
           s == NodeFactors(xs)
<1>1. s \in Seq(Arrays(X))
  BY NodeFactorsIs DEF Slotted
<1>2. \A x \in Arrays(X) : Lay(f, x)
  BY KindsDiffer DEF Arrays, Slotted
<1> HIDE DEF s, X
<1>3. s \in Seq(ToSet(s)) /\ ToSet(s) \subseteq Arrays(X)
  BY <1>1, SeqOfItself
<1> QED
  BY <1>2, <1>3 DEF Lays, s

LEMMA ListsSlotted ==
    ASSUME NEW f \in Calls, Liftable(f)
    PROVE  /\ Slotted(f, f.args) /\ Slotted(f, Lifted(f)) /\ Slotted(f, FactorList(f))
           /\ PlainSeq(f, FactorList(f))
           /\ f.sample # Absent => Slotted(f, <<f.sample>>)
           /\ NodeFactors(FactorList(f)) = Optional(AmbientOf(f)) \o NodeFactors(Lifted(f))
<1>1. Slotted(f, f.args)
  <2>1. \A x \in ToSet(f.args) : Operand(x) /\ ~IsFactor(x)
    BY CallIs
  <2>2. \A x \in ToSet(f.args) : IsConst(x) \/ Lay(f, x)
    BY <2>1, OperandLay DEF Operand
  <2> QED
    BY <2>2, CallIs DEF Slotted
<1>2. PlainSeq(f, Lifted(f))
  BY LiftedRight
<1>3. \A xs : PlainSeq(f, xs) => Slotted(f, xs)
  BY DEF PlainSeq, Slotted, Plain
<1> DEFINE a == Optional(AmbientOf(f))
           b == Lifted(f)
           X == ToSet(a) \cup ToSet(b)
           r == a \o b
<1>4. Lays(f, a) /\ NodeFactors(a) = a
  BY OptionalIs
<1>5. \A x \in X : Plain(f, x)
  BY <1>2, <1>4 DEF PlainSeq, Lays, Plain
<1>6. a \in Seq(X) /\ b \in Seq(X)
  <2>1. \A P, Q : P \subseteq Q => Seq(P) \subseteq Seq(Q)
    OBVIOUS
  <2> QED
    BY <1>2, <1>4, <2>1 DEF PlainSeq, Lays
<1> HIDE DEF a, b, X
<1>7. r \in Seq(X)
  BY <1>6
<1>8. NodeFactors(a \o b) = NodeFactors(a) \o NodeFactors(b)
  BY <1>6, NodeFactorsConcat
<1> HIDE DEF r
<1>9. r \in Seq(ToSet(r)) /\ ToSet(r) \subseteq X
  BY <1>7, SeqOfItself
<1>10. PlainSeq(f, r)
  BY <1>5, <1>9 DEF PlainSeq
<1>11. f.sample # Absent => Slotted(f, <<f.sample>>)
  <2> SUFFICES ASSUME f.sample # Absent PROVE Slotted(f, <<f.sample>>)
    OBVIOUS
  <2> DEFINE x == f.sample
  <2>1. Operand(x) /\ ~IsFactor(x)
    BY CallIs
  <2>2. IsConst(x) \/ Lay(f, x)
    BY <2>1, OperandLay DEF Operand
  <2> HIDE DEF x
  <2>3. <<x>> \in Seq({x}) /\ DOMAIN <<x>> = {1} /\ <<x>>[1] = x
    OBVIOUS
  <2>4. ToSet(<<x>>) = {x}
    BY <2>3 DEF ToSet
  <2> QED
    BY <2>2, <2>3, <2>4 DEF Slotted, x
<1>12. r = FactorList(f) /\ FactorList(f) = a \o b
  BY DEF r, a, b, FactorList
<1> QED
  BY <1>1, <1>2, <1>3, <1>4, <1>8, <1>10, <1>11, <1>12 DEF a, b

\* What is applied, filled and sampled are the lists' arrays, re-indexed.
LEMMA ReadsAre ==
    ASSUME NEW f \in Calls, Liftable(f)
    PROVE  /\ Applied(f) = Moved(f, NodeFactors(FactorList(f)))
           /\ Axes(f) = Moved(f, NodeFactors(f.args))
           /\ Sampled(f) = Moved(f, NodeFactors(<<f.sample>>))
           /\ Lays(f, Applied(f)) /\ Lays(f, Axes(f)) /\ Lays(f, Sampled(f))
<1> DEFINE a == Optional(AmbientOf(f))
           ws == NodeFactors(Lifted(f))
           mw == Moved(f, ws)
           r == a \o ws
           m == Moved(f, r)
<1>1. Lays(f, a) /\ Moved(f, a) = a
  BY OptionalIs
<1>2. Lays(f, ws) /\ NodeFactors(FactorList(f)) = r
  BY ListsSlotted, SlottedArrays
<1>3. Applied(f) = a \o mw
  BY DEF Applied, Moved
<1>4. Lays(f, r)
  BY <1>1, <1>2, LaysConcat
<1>5. a \o mw = m
  <2> DEFINE X == ToSet(a) \cup ToSet(ws) \cup ToSet(mw)
  <2>1. Lays(f, mw)
    BY <1>2, MovedIs
  <2>2. a \in Seq(X) /\ ws \in Seq(X) /\ mw \in Seq(X)
    <3>1. \A P, Q : P \subseteq Q => Seq(P) \subseteq Seq(Q)
      OBVIOUS
    <3> QED
      BY <1>1, <1>2, <2>1, <3>1 DEF Lays
  <2>3. /\ Len(mw) = Len(ws) /\ \A i \in 1 .. Len(ws) : mw[i] = ReindexTo(ws[i], Unified(f))
    BY <1>2, MovedIs
  <2>4. /\ Len(m) = Len(r) /\ DOMAIN m = 1 .. Len(r)
        /\ \A i \in 1 .. Len(r) : m[i] = ReindexTo(r[i], Unified(f))
    BY <1>4, MovedIs
  <2>5. \A i \in 1 .. Len(a) : a[i] = ReindexTo(a[i], Unified(f))
    BY <1>1, MovedIs
  <2> DEFINE q == a \o mw
  <2>6. m = [i \in 1 .. Len(r) |-> m[i]]
    BY <2>4 DEF Moved
  <2> HIDE DEF X, a, ws, mw, m
  <2>7. Joined(a, ws, r) /\ Joined(a, mw, q)
    BY <2>2, ConcatJoins
  <2>8. q = [i \in 1 .. Len(q) |-> q[i]]
    <3>1. q \in Seq(X)
      BY <2>2
    <3> HIDE DEF q
    <3> QED
      BY <3>1
  <2> HIDE DEF q, r
  <2>9. Len(q) = Len(r)
    BY <2>3, <2>7 DEF Joined
  <2>10. ASSUME NEW i \in 1 .. Len(r) PROVE q[i] = m[i]
    <3>1. i \in 1 .. Len(a) \/ (i - Len(a) \in 1 .. Len(ws) /\ i = Len(a) + (i - Len(a)))
      BY <2>7 DEF Joined
    <3>2. CASE i \in 1 .. Len(a)
      <4>1. q[i] = a[i] /\ r[i] = a[i]
        BY <2>7, <3>2 DEF Joined
      <4> QED
        BY <2>4, <2>5, <3>2, <4>1
    <3>3. CASE i - Len(a) \in 1 .. Len(ws) /\ i = Len(a) + (i - Len(a))
      <4> DEFINE j == i - Len(a)
      <4>1. j \in 1 .. Len(ws) /\ i = Len(a) + j
        BY <3>3
      <4> HIDE DEF j
      <4>2. q[i] = mw[j] /\ r[i] = ws[j]
        BY <2>3, <2>7, <4>1 DEF Joined
      <4> QED
        BY <2>3, <2>4, <4>1, <4>2
    <3> QED
      BY <3>1, <3>2, <3>3
  <2>11. q = m
    BY <2>6, <2>8, <2>9, <2>10
  <2> QED
    BY <2>11 DEF q
<1>6. Applied(f) = m
  BY <1>3, <1>5
<1>7. Axes(f) = Moved(f, NodeFactors(f.args)) /\ Lays(f, NodeFactors(f.args))
  BY ListsSlotted, SlottedArrays DEF Axes, Moved, Values
<1>8. Sampled(f) = Moved(f, NodeFactors(<<f.sample>>)) /\ Lays(f, NodeFactors(<<f.sample>>))
  <2> DEFINE x == f.sample
  <2>1. CASE IsArray(x)
    <3>1. x # Absent
      BY <2>1 DEF IsArray, Absent
    <3>2. Lays(f, NodeFactors(<<x>>)) /\ NodeFactors(<<x>>) = <<x>>
      BY <2>1, <3>1, ListsSlotted, SlottedArrays, NodeFactorsSingle
    <3>3. Sampled(f) = <<ReindexTo(x, Unified(f))>>
      BY <2>1 DEF Sampled
    <3> HIDE DEF x
    <3>4. Moved(f, <<x>>) = <<ReindexTo(x, Unified(f))>>
      <4>1. DOMAIN <<x>> = {1} /\ <<x>>[1] = x
        OBVIOUS
      <4>2. Moved(f, <<x>>) = [i \in {1} |-> ReindexTo(x, Unified(f))]
        BY <4>1 DEF Moved
      <4> DEFINE y == ReindexTo(x, Unified(f))
      <4> HIDE DEF y
      <4>3. <<y>> = [i \in {1} |-> y]
        OBVIOUS
      <4> QED
        BY <4>2, <4>3 DEF y
    <3> QED
      BY <3>2, <3>3, <3>4 DEF x
  <2>2. CASE ~IsArray(x)
    <3>1. NodeFactors(<<x>>) = <<>> /\ Sampled(f) = <<>>
      BY <2>2, NodeFactorsSingle DEF Sampled
    <3>2. Moved(f, <<>>) = <<>> /\ ToSet(<<>>) = {}
      BY DEF Moved, ToSet
    <3>3. <<>> \in Seq({})
      OBVIOUS
    <3> QED
      BY <3>1, <3>2, <3>3 DEF Lays
  <2> QED
    BY <2>1, <2>2
<1> QED
  BY <1>2, <1>4, <1>6, <1>7, <1>8, MovedIs

-----------------------------------------------------------------------------
(* The labels of a call *)

\* The labels of a list of operands, as a fold the induction lemmas are about.
LabelOp(p, seen, x) == Extend(seen, x.labels)
LabelFolds == INSTANCE SetInduction WITH Op <- LabelOp
LabelsOf(xs) == FoldLeft(LAMBDA seen, x : Extend(seen, x.labels), <<Nominal>>, xs)

LEMMA LabelsOfIsFold ==
    ASSUME NEW xs PROVE LabelsOf(xs) = LabelFolds!Folded(0, <<Nominal>>, xs)
BY DEF LabelsOf, LabelOp, FoldLeft, MapThenFoldSet, Max, LabelFolds!Folded, LabelFolds!FoldLeft,
       LabelFolds!MapThenFoldSet, LabelFolds!Max

\* Labels without repetition, the nominal one among them, None not.
LabelsGood(ls) ==
    /\ ls \in Seq(ToSet(ls)) /\ IsInjective(ls)
    /\ Nominal \in ToSet(ls) /\ None \notin ToSet(ls)

LEMMA LabelsOfGood ==
    ASSUME NEW f, NEW X, \A x \in X : Lay(f, x), NEW xs \in Seq(X)
    PROVE  LabelsGood(LabelsOf(xs))
<1> DEFINE L == {Nominal} \cup UNION {DOMAIN x.member : x \in X}
           Good(ls) == ls \in Seq(L) /\ IsInjective(ls) /\ Nominal \in ToSet(ls)
           T == {q \in Seq(X) : Good(LabelsOf(q))}
<1>1. <<>> \in T
  <2>1. LabelsOf(<<>>) = <<Nominal>>
    BY LabelsOfIsFold, LabelFolds!FoldNil
  <2>2. <<Nominal>> \in Seq(L) /\ DOMAIN <<Nominal>> = {1} /\ <<Nominal>>[1] = Nominal
    OBVIOUS
  <2>3. IsInjective(<<Nominal>>) /\ Nominal \in ToSet(<<Nominal>>)
    BY <2>2 DEF IsInjective, ToSet
  <2>4. <<>> \in Seq(X)
    OBVIOUS
  <2> HIDE DEF L
  <2> QED
    BY <2>1, <2>2, <2>3, <2>4
<1>2. ASSUME NEW q \in Seq(X), NEW x \in X, q \in T PROVE Append(q, x) \in T
  <2> DEFINE s == LabelsOf(q)
             t == x.labels
  <2>1. LabelsOf(Append(q, x)) = Extend(s, t)
    <3>1. LabelFolds!Folded(0, <<Nominal>>, Append(q, x)) =
            LabelOp(0, LabelFolds!Folded(0, <<Nominal>>, q), x)
      BY LabelFolds!FoldAppend
    <3> QED
      BY <3>1, LabelsOfIsFold DEF LabelOp
  <2>2. Append(q, x) \in Seq(X)
    OBVIOUS
  <2>3. Good(s)
    BY <1>2
  <2>4. t \in Seq(L) /\ IsInjective(t)
    <3>1. t \in Seq(DOMAIN x.member) /\ IsInjective(t)
      BY DEF Lay, Labelled
    <3>2. DOMAIN x.member \subseteq L
      OBVIOUS
    <3>3. \A P, Q : P \subseteq Q => Seq(P) \subseteq Seq(Q)
      OBVIOUS
    <3> QED
      BY <3>1, <3>2, <3>3
  <2> HIDE DEF s, t, L
  <2>5. /\ Extend(s, t) \in Seq(L) /\ IsInjective(Extend(s, t))
        /\ ToSet(Extend(s, t)) = ToSet(s) \cup ToSet(t)
    BY <2>3, <2>4, ExtendIs
  <2>6. Good(Extend(s, t))
    BY <2>3, <2>5
  <2> QED
    BY <2>1, <2>2, <2>6
<1>3. None \notin L
  BY NoneAssumption DEF Lay, Labelled
<1> HIDE DEF T, L
<1>4. Seq(X) \subseteq T
  BY <1>1, <1>2, SeqInduction
<1>5. Good(LabelsOf(xs))
  BY <1>4 DEF T
<1> DEFINE ls == LabelsOf(xs)
<1> HIDE DEF ls
<1>6. ls \in Seq(ToSet(ls)) /\ ToSet(ls) \subseteq L
  BY <1>5, SeqOfItself DEF ls
<1> QED
  BY <1>3, <1>5, <1>6 DEF LabelsGood, ls

LEMMA LabelsAre ==
    ASSUME NEW f \in Calls, Liftable(f)
    PROVE  LabelsGood(Labels(f))
<1> DEFINE p == Axes(f)
           q == Applied(f)
           r == Sampled(f)
           s == (p \o q) \o r
<1>1. Lays(f, p) /\ Lays(f, q) /\ Lays(f, r)
  BY ReadsAre
<1>2. Labels(f) = LabelsOf(s)
  BY DEF Labels, LabelsOf
<1> HIDE DEF p, q, r
<1>3. Lays(f, s)
  <2>1. Lays(f, p \o q)
    BY <1>1, LaysConcat
  <2> HIDE DEF s
  <2> DEFINE t == p \o q
  <2>2. Lays(f, t) /\ s = t \o r
    BY <2>1 DEF s
  <2> HIDE DEF t
  <2> QED
    BY <1>1, <2>2, LaysConcat
<1> HIDE DEF s
<1> QED
  BY <1>2, <1>3, LabelsOfGood DEF Lays

\* The labels of an axis node have its label once, and none that is not a label.
LEMMA GroupIs ==
    ASSUME NEW f \in Calls, Liftable(f), NEW l \in ToSet(Labels(f))
    PROVE  LET group == GroupOf(f, l)
           IN /\ group \in Seq(ToSet(group)) /\ IsInjective(group) /\ group # <<>>
              /\ l \in ToSet(group) /\ None \notin ToSet(group)
              /\ \A i \in 1 .. Len(group) : \A x \in ToSet(Axes(f) \o Sampled(f)) :
                    MemberOf(x, group[i]) = MemberOf(x, l)
<1> DEFINE ls == Labels(f)
           L == ToSet(ls)
           reads == ToSet(Axes(f) \o Sampled(f))
           S == {m \in L : \A x \in reads : MemberOf(x, m) = MemberOf(x, l)}
           g == Only(ls, S)
<1>1. ls \in Seq(L) /\ IsInjective(ls) /\ None \notin L
  BY LabelsAre DEF LabelsGood
<1>2. GroupOf(f, l) = g
  BY DEF GroupOf
<1>3. l \in S /\ S \subseteq L /\ \A m \in S : \A x \in reads : MemberOf(x, m) = MemberOf(x, l)
  OBVIOUS
<1>4. l \in L
  OBVIOUS
<1> HIDE DEF S, reads
<1>5. ToSet(g) = ToSet(ls) \cap S
  BY <1>1, OnlyHas
<1>6. IsInjective(g) /\ g \in Seq(L)
  <2> HIDE DEF ls, L
  <2> QED
    BY <1>1, OnlyType, OnlyInjective
<1>7. ToSet(g) = S
  BY <1>3, <1>5
<1> HIDE DEF g, ls
<1>8. g \in Seq(ToSet(g)) /\ ToSet(g) = {g[i] : i \in 1 .. Len(g)}
  BY <1>6, SeqOfItself
<1>9. g # <<>>
  BY <1>3, <1>7 DEF ToSet
<1> QED
  BY <1>1, <1>2, <1>3, <1>6, <1>7, <1>8, <1>9 DEF reads

-----------------------------------------------------------------------------
(* Taking inputs off by position *)

\* The constants of a list, by position.
Slots(xs) == [i \in {i \in DOMAIN xs : IsConst(xs[i])} |-> xs[i].value]

\* How many inputs the first n slots take.
LEMMA TakenIs ==
    ASSUME NEW f \in Calls, NEW xs, Slotted(f, xs), NEW n \in 0 .. Len(xs)
    PROVE  Taken(n, Slots(xs)) = Sofar(xs, n, Arrays(ToSet(xs)))
<1>1. DOMAIN xs = 1 .. Len(xs) /\ Len(xs) \in Nat
  BY DEF Slotted
<1>2. ASSUME NEW k \in 1 .. n PROVE k \notin DOMAIN Slots(xs) <=> xs[k] \in Arrays(ToSet(xs))
  <2>1. k \in 1 .. Len(xs)
    BY <1>1
  <2>2. xs[k] \in ToSet(xs) /\ k \in DOMAIN xs
    BY <1>1, <2>1 DEF ToSet
  <2>3. IsConst(xs[k]) \/ Lay(f, xs[k])
    BY <2>2 DEF Slotted
  <2>4. k \notin DOMAIN Slots(xs) <=> ~IsConst(xs[k])
    BY <2>2 DEF Slots
  <2> QED
    BY <2>2, <2>3, <2>4, KindsDiffer DEF Arrays
<1>3. (1 .. n) \ DOMAIN Slots(xs) = {k \in 1 .. n : xs[k] \in Arrays(ToSet(xs))}
  BY <1>2
<1> QED
  BY <1>3 DEF Taken, Sofar

LEMMA TakenAll ==
    ASSUME NEW f \in Calls, NEW xs, Slotted(f, xs)
    PROVE  Taken(Len(xs), Slots(xs)) = Len(NodeFactors(xs)) /\ Len(NodeFactors(xs)) \in Nat
<1>1. xs \in Seq(ToSet(xs)) /\ Len(xs) \in Nat /\ Len(xs) \in 0 .. Len(xs)
  BY DEF Slotted
<1>2. NodeFactors(xs) = Only(xs, Arrays(ToSet(xs))) /\ NodeFactors(xs) \in Seq(Arrays(ToSet(xs)))
  BY <1>1, NodeFactorsIs
<1>3. Len(Only(xs, Arrays(ToSet(xs)))) = Sofar(xs, Len(xs), Arrays(ToSet(xs)))
  BY <1>1, OnlyAt
<1>4. Len(NodeFactors(xs)) \in Nat
  BY <1>2
<1> QED
  BY <1>1, <1>2, <1>3, <1>4, TakenIs

\* The inputs of a node.
IsInput(i) == DOMAIN i = {"column", "blame", "like"}

\* Inputs that start with a list's arrays, re-indexed, one each, for a label.
Reads(f, xs, l, r) ==
    \A j \in 1 .. Len(NodeFactors(xs)) :
        IsInput(r[j]) /\ r[j].column = MemberOf(ReindexTo(NodeFactors(xs)[j], Unified(f)), l)

\* Placed, they and the constants are what the list contributes.
LEMMA PlaceIs ==
    ASSUME NEW f \in Calls, NEW xs, Slotted(f, xs), NEW l, NEW r, Reads(f, xs, l, r)
    PROVE  /\ DOMAIN Place(r, Len(xs), Slots(xs)) = 1 .. Len(xs) /\ DOMAIN xs = 1 .. Len(xs)
           /\ \A i \in 1 .. Len(xs) :
                Content(Place(r, Len(xs), Slots(xs))[i]) = Weighed(f, xs[i], l)
<1> DEFINE n == Len(xs)
           p == Place(r, n, Slots(xs))
           A == Arrays(ToSet(xs))
           k(i) == Sofar(xs, i, A)
<1>1. xs \in Seq(ToSet(xs)) /\ n \in Nat /\ DOMAIN xs = 1 .. n
  BY DEF Slotted
<1>2. p = [i \in 1 .. n |-> IF i \in DOMAIN Slots(xs) THEN [const |-> Slots(xs)[i]]
                            ELSE r[Taken(i, Slots(xs))]]
  BY DEF Place
<1>3. ASSUME NEW i \in 1 .. n PROVE Content(p[i]) = Weighed(f, xs[i], l)
  <2>0. xs[i] \in ToSet(xs) /\ (IsConst(xs[i]) \/ Lay(f, xs[i]))
    <3>1. xs[i] \in ToSet(xs)
      BY <1>1 DEF ToSet
    <3> QED
      BY <3>1 DEF Slotted
  <2>1. CASE IsConst(xs[i])
    <3>1. i \in DOMAIN Slots(xs) /\ Slots(xs)[i] = xs[i].value
      BY <1>1, <2>1 DEF Slots
    <3>2. p[i] = [const |-> xs[i].value]
      BY <1>2, <3>1
    <3> DEFINE v == xs[i].value
               c == [const |-> v]
    <3>3. "const" \in DOMAIN c /\ c.const = v
      OBVIOUS
    <3> HIDE DEF v, c
    <3>4. Content(c) = <<v>>
      BY <3>3 DEF Content
    <3> QED
      BY <2>1, <3>2, <3>4 DEF Weighed, v, c
  <2>2. CASE ~IsConst(xs[i])
    <3>1. i \notin DOMAIN Slots(xs)
      BY <2>2 DEF Slots
    <3>2. p[i] = r[k(i)]
      <4>1. Taken(i, Slots(xs)) = k(i)
        <5>1. i \in 0 .. Len(xs)
          BY <1>1
        <5> QED
          BY <5>1, TakenIs
      <4> QED
        BY <1>2, <3>1, <4>1
    <3>3. xs[i] \in A
      BY <2>0, <2>2, KindsDiffer DEF Arrays
    <3>4. NodeFactors(xs) = Only(xs, A)
      BY <1>1, NodeFactorsIs
    <3>5. k(i) \in 1 .. Len(Only(xs, A)) /\ Only(xs, A)[k(i)] = xs[i]
      <4> HIDE DEF A
      <4> QED
        BY <1>1, <3>3, OnlyAt
    <3> DEFINE j == k(i)
    <3>6. j \in 1 .. Len(NodeFactors(xs)) /\ NodeFactors(xs)[j] = xs[i] /\ p[i] = r[j]
      BY <3>2, <3>4, <3>5
    <3> HIDE DEF j, p, k, A
    <3>7. IsInput(p[i]) /\ p[i].column = MemberOf(ReindexTo(xs[i], Unified(f)), l)
      BY <3>6 DEF Reads
    <3>8. "const" \notin DOMAIN p[i]
      BY <3>7 DEF IsInput
    <3>9. Content(p[i]) = ColumnContent(p[i].column)
      BY <3>8 DEF Content, ColumnContent
    <3>10. ~IsFactor(xs[i])
      BY <2>0, <2>2, KindsDiffer
    <3> QED
      BY <2>2, <3>7, <3>9, <3>10 DEF Weighed
  <2> QED
    BY <2>1, <2>2
<1>4. DOMAIN p = 1 .. n
  BY <1>2
<1> QED
  BY <1>1, <1>3, <1>4

-----------------------------------------------------------------------------
(* A cell of a call *)

\* The weights as lifted contribute what the weights as passed do.
LEMMA FactorsRight ==
    ASSUME NEW f \in Calls, Liftable(f), NEW l
    PROVE  /\ Counts(Contents(f, FactorList(f), l)) = Counts(Contents(f, AskedFactors(f), l))
           /\ AskedFactors(f) \in Seq(ToSet(AskedFactors(f)))
           /\ \A x \in ToSet(AskedFactors(f)) : Operand(x)
<1> DEFINE a == Optional(AmbientOf(f))
           b == Lifted(f)
           c == f.weights
           X == ToSet(a) \cup ToSet(b) \cup ToSet(c)
           Y == ToSet(a) \cup ToSet(c)
           ab == a \o b
           ac == a \o c
<1>1. /\ Lays(f, a) /\ PlainSeq(f, b) /\ c \in Seq(ToSet(c))
      /\ \A e : Tally(f, b, l, e) = Tally(f, c, l, e)
      /\ \A x \in ToSet(c) : Operand(x) /\ Weight(f, x)
      /\ \A x \in ToSet(a) : Operand(x)
  BY OptionalIs, LiftedRight, CallIs, WeightsArePlain
<1>2. Weights(f, X)
  BY <1>1 DEF Weights, Weight, Lays, PlainSeq, Plain
<1>3. a \in Seq(X) /\ b \in Seq(X) /\ c \in Seq(X) /\ a \in Seq(Y) /\ c \in Seq(Y)
  <2>1. \A P, Q : P \subseteq Q => Seq(P) \subseteq Seq(Q)
    OBVIOUS
  <2> QED
    BY <1>1, <2>1 DEF Lays, PlainSeq
<1>4. FactorList(f) = ab /\ AskedFactors(f) = ac
  BY DEF FactorList, AskedFactors
<1>5. \A y \in Y : Operand(y)
  BY <1>1
<1> HIDE DEF a, b, c, X, Y
<1>6. \A e : /\ Tally(f, a \o b, l, e) = Tally(f, a, l, e) + Tally(f, b, l, e)
             /\ Tally(f, a \o c, l, e) = Tally(f, a, l, e) + Tally(f, c, l, e)
  BY <1>2, <1>3, TallyConcat
<1>7. ab \in Seq(X) /\ ac \in Seq(X) /\ ac \in Seq(Y)
  BY <1>3
<1>8. \A e : Tally(f, ab, l, e) = Tally(f, ac, l, e)
  BY <1>1, <1>6
<1> HIDE DEF ab, ac
<1>9. Contents(f, ab, l) \in Seq(Atoms(f)) /\ Contents(f, ac, l) \in Seq(Atoms(f))
  BY <1>2, <1>7, ContentsType
<1>10. Counts(Contents(f, ab, l)) = Counts(Contents(f, ac, l))
  BY <1>8, <1>9, CountsEqual DEF Tally
<1>11. ac \in Seq(ToSet(ac)) /\ ToSet(ac) \subseteq Y
  BY <1>7, SeqOfItself
<1> QED
  BY <1>4, <1>5, <1>10, <1>11

LEMMA MaxWithOne ==
    ASSUME NEW n \in Nat
    PROVE  Max({n, 1}) = IF n > 0 THEN n ELSE 1
<1> DEFINE S == {n, 1}
<1>1. IsFiniteSet(S) /\ S # {} /\ S \in SUBSET Int
  <2>1. IsFiniteSet({n}) /\ IsFiniteSet({1}) /\ S = {n} \cup {1}
    BY FS_Singleton
  <2>2. IsFiniteSet({n} \cup {1})
    BY <2>1, FS_Union
  <2> QED
    BY <2>1, <2>2
<1>2. n \in S /\ 1 \in S /\ \A k \in S : k = n \/ k = 1
  OBVIOUS
<1> HIDE DEF S
<1>3. Max(S) \in S /\ \A k \in S : k <= Max(S)
  BY <1>1, MinMax
<1> QED
  BY <1>2, <1>3 DEF S

\* The cell a label is filled into, from inputs that are read for it.
CellOf(f, rA, rW, rS, cell) ==
    /\ cell.axes = Place(rA, Len(f.args), Fixed(f).axes)
    /\ cell.weight = IF NWeights(f) > 0
                     THEN Place(rW, Max({NWeights(f), 1}), Fixed(f).weights) ELSE <<>>
    /\ cell.sample = IF f.sample = Absent THEN <<>>
                     ELSE IF Fixed(f).sample = None THEN <<rS[1]>>
                     ELSE <<[const |-> Fixed(f).sample]>>

LEMMA CellRight ==
    ASSUME NEW f \in Calls, Liftable(f), NEW l, NEW rA, NEW rW, NEW rS, NEW cell,
           CellOf(f, rA, rW, rS, cell), Reads(f, f.args, l, rA),
           NWeights(f) > 0 => Reads(f, FactorList(f), l, rW),
           IsArray(f.sample) => Reads(f, <<f.sample>>, l, rS)
    PROVE  Filled(cell) = Asked(f, l)
<1> DEFINE filledAxes == [i \in DOMAIN cell.axes |-> Content(cell.axes[i])]
           filledWeight == FlattenSeq([i \in DOMAIN cell.weight |-> Content(cell.weight[i])])
           filledSample == [i \in DOMAIN cell.sample |-> Content(cell.sample[i])]
           askedAxes == [i \in DOMAIN f.args |-> Meant(f, f.args[i], l)]
           factors == AskedFactors(f)
           askedWeight == FlattenSeq([i \in DOMAIN factors |-> Meant(f, factors[i], l)])
           askedSample == [i \in DOMAIN Optional(f.sample) |-> Meant(f, f.sample, l)]
<1>1. filledAxes = askedAxes
  <2>1. /\ DOMAIN Place(rA, Len(f.args), Slots(f.args)) = 1 .. Len(f.args)
        /\ DOMAIN f.args = 1 .. Len(f.args)
        /\ \A i \in 1 .. Len(f.args) :
              Content(Place(rA, Len(f.args), Slots(f.args))[i]) = Weighed(f, f.args[i], l)
    BY ListsSlotted, PlaceIs
  <2>2. cell.axes = Place(rA, Len(f.args), Slots(f.args))
    BY DEF CellOf, Fixed, Slots
  <2>3. ASSUME NEW i \in 1 .. Len(f.args) PROVE Meant(f, f.args[i], l) = Weighed(f, f.args[i], l)
    <3>1. f.args[i] \in ToSet(f.args)
      BY <2>1 DEF ToSet
    <3>2. Operand(f.args[i])
      BY <3>1, CallIs
    <3> QED
      BY <3>2, MeantIs
  <2> QED
    BY <2>1, <2>2, <2>3
<1>2. Counts(filledWeight) = Counts(askedWeight)
  <2>1. askedWeight = Contents(f, factors, l)
    <3>1. \A i \in DOMAIN factors : Meant(f, factors[i], l) = Weighed(f, factors[i], l)
      <4> TAKE i \in DOMAIN factors
      <4>1. factors[i] \in ToSet(factors)
        BY DEF ToSet
      <4>2. Operand(factors[i])
        BY <4>1, FactorsRight
      <4> QED
        BY <4>2, MeantIs
    <3>2. [i \in DOMAIN factors |-> Meant(f, factors[i], l)] =
            [i \in DOMAIN factors |-> Weighed(f, factors[i], l)]
      BY <3>1
    <3> QED
      BY <3>2 DEF Contents
  <2>2. filledWeight = Contents(f, FactorList(f), l)
    <3> DEFINE xs == FactorList(f)
               n == Len(xs)
    <3>1. Slotted(f, xs) /\ NWeights(f) = n /\ Fixed(f).weights = Slots(xs) /\ n \in Nat
      <4>1. Slotted(f, xs)
        BY ListsSlotted
      <4>2. NWeights(f) = n
        BY DEF NWeights, FactorList
      <4>3. Fixed(f).weights = Slots(xs)
        BY DEF Fixed, Slots, FactorList
      <4> QED
        BY <4>1, <4>2, <4>3 DEF Slotted
    <3>2. CASE n > 0
      <4>1. cell.weight = Place(rW, n, Slots(xs))
        BY <3>1, <3>2, MaxWithOne DEF CellOf
      <4>2. Reads(f, xs, l, rW)
        BY <3>1, <3>2
      <4>3. /\ DOMAIN Place(rW, n, Slots(xs)) = 1 .. n /\ DOMAIN xs = 1 .. n
            /\ \A i \in 1 .. n : Content(Place(rW, n, Slots(xs))[i]) = Weighed(f, xs[i], l)
        BY <3>1, <4>2, PlaceIs
      <4>4. [i \in DOMAIN cell.weight |-> Content(cell.weight[i])] =
              [i \in DOMAIN xs |-> Weighed(f, xs[i], l)]
        BY <4>1, <4>3
      <4> QED
        BY <4>4 DEF Contents
    <3>3. CASE ~(n > 0)
      <4>1. cell.weight = <<>> /\ DOMAIN xs = {}
        <5>1. cell.weight = <<>>
          BY <3>1, <3>3 DEF CellOf
        <5>2. n = 0 /\ DOMAIN xs = 1 .. n
          BY <3>1, <3>3 DEF Slotted
        <5> QED
          BY <5>1, <5>2
      <4>2. DOMAIN cell.weight = {}
        BY <4>1
      <4>3. [i \in DOMAIN cell.weight |-> Content(cell.weight[i])] =
              [i \in DOMAIN xs |-> Weighed(f, xs[i], l)]
        BY <4>1, <4>2
      <4> QED
        BY <4>3 DEF Contents
    <3> QED
      BY <3>2, <3>3
  <2> QED
    BY <2>1, <2>2, FactorsRight
<1>3. filledSample = askedSample
  <2> DEFINE x == f.sample
  <2>1. CASE x = Absent
    <3>1. cell.sample = <<>> /\ Optional(x) = <<>>
      BY <2>1 DEF CellOf, Optional
    <3> QED
      BY <3>1
  <2>2. CASE x # Absent
    <3>1. Operand(x) /\ ~IsFactor(x) /\ Optional(x) = <<x>>
      BY <2>2, CallIs DEF Optional
    <3>2. Meant(f, x, l) = Weighed(f, x, l)
      BY <3>1, MeantIs
    <3>3. \A s : Len(s) = 1 /\ DOMAIN s = {1} /\ Content(s[1]) = Weighed(f, x, l) =>
                [i \in DOMAIN s |-> Content(s[i])] = [i \in {1} |-> Weighed(f, x, l)]
      OBVIOUS
    <3>4. askedSample = [i \in {1} |-> Weighed(f, x, l)]
      <4>1. DOMAIN <<x>> = {1}
        OBVIOUS
      <4> QED
        BY <3>1, <3>2, <4>1
    <3>5. CASE IsConst(x)
      <4>1. Fixed(f).sample = x.value /\ x.value # None
        BY <3>1, <3>5 DEF Fixed, Operand, IsConst, IsFactor, IsArray
      <4> DEFINE v == x.value
                 c == [const |-> v]
                 s == <<c>>
      <4>2. cell.sample = s
        BY <2>2, <4>1 DEF CellOf
      <4>3. "const" \in DOMAIN c /\ c.const = v
        OBVIOUS
      <4>4. s = <<c>> /\ Len(s) = 1 /\ DOMAIN s = {1} /\ s[1] = c
        OBVIOUS
      <4>5. Weighed(f, x, l) = <<v>>
        BY <3>5 DEF Weighed
      <4> HIDE DEF v, c, s
      <4>6. Content(c) = <<v>>
        BY <4>3 DEF Content
      <4> QED
        BY <3>3, <3>4, <4>2, <4>4, <4>5, <4>6
    <3>6. CASE IsArray(x)
      <4>1. ~IsConst(x) /\ Fixed(f).sample = None
        BY <3>6 DEF Fixed, IsConst, IsArray
      <4> DEFINE c == rS[1]
                 s == <<c>>
      <4>2. cell.sample = s
        BY <2>2, <4>1 DEF CellOf
      <4>3. s = <<c>> /\ Len(s) = 1 /\ DOMAIN s = {1} /\ s[1] = c
        OBVIOUS
      <4>4. NodeFactors(<<x>>) = <<x>> /\ Len(<<x>>) = 1 /\ <<x>>[1] = x
        BY <3>6, NodeFactorsSingle
      <4>5. IsInput(c) /\ c.column = MemberOf(ReindexTo(x, Unified(f)), l)
        <5>1. 1 \in 1 .. Len(NodeFactors(<<x>>)) /\ NodeFactors(<<x>>)[1] = x
          BY <4>4
        <5> QED
          BY <3>6, <5>1 DEF Reads
      <4> HIDE DEF c, s
      <4>6. Content(c) = ColumnContent(c.column)
        BY <4>5 DEF Content, ColumnContent, IsInput
      <4>7. Content(c) = Weighed(f, x, l)
        BY <3>1, <4>1, <4>5, <4>6 DEF Weighed
      <4> QED
        BY <3>3, <3>4, <4>2, <4>3, <4>7
    <3> QED
      BY <3>1, <3>5, <3>6 DEF Operand
  <2> QED
    BY <2>1, <2>2
<1>4. Filled(cell) = [axes |-> filledAxes, weight |-> Counts(filledWeight), sample |-> filledSample]
  BY DEF Filled
<1>5. Asked(f, l) = [axes |-> askedAxes, weight |-> Counts(askedWeight), sample |-> askedSample]
  BY DEF Asked, AskedFactors
<1> HIDE DEF filledAxes, filledWeight, filledSample, askedAxes, askedWeight, askedSample
<1> QED
  BY <1>1, <1>2, <1>3, <1>4, <1>5

-----------------------------------------------------------------------------
(* The inputs of a node *)

\* One input for each array of a list.
Segment(f, xs, l, s) ==
    /\ s \in Seq(ToSet(s)) /\ Len(s) = Len(NodeFactors(xs)) /\ DOMAIN s = 1 .. Len(s)
    /\ Reads(f, xs, l, s)

LEMMA InputIs == ASSUME NEW c PROVE IsInput(Input(c)) /\ Input(c).column = c
BY DEF Input, IsInput

LEMMA MembersSegment ==
    ASSUME NEW f \in Calls, NEW xs, Slotted(f, xs), NEW l
    PROVE  Segment(f, xs, l, Members(Moved(f, NodeFactors(xs)), l))
<1> DEFINE ns == NodeFactors(xs)
           m == Moved(f, ns)
           s == Members(m, l)
           n == Len(ns)
<1>1. /\ n \in Nat /\ DOMAIN m = 1 .. n
      /\ \A i \in 1 .. n : m[i] = ReindexTo(ns[i], Unified(f))
  BY SlottedArrays, MovedIs
<1> HIDE DEF ns, m, n
<1>2. s = [i \in 1 .. n |-> Input(MemberOf(m[i], l))]
  BY <1>1 DEF Members
<1>3. \A i \in 1 .. n : IsInput(s[i]) /\ s[i].column = MemberOf(ReindexTo(ns[i], Unified(f)), l)
  BY <1>1, <1>2, InputIs
<1>4. s = [i \in 1 .. n |-> s[i]] /\ DOMAIN s = 1 .. n
  BY <1>2
<1> HIDE DEF s
<1>5. \A i \in 1 .. n : s[i] \in ToSet(s)
  BY <1>4 DEF ToSet
<1> DEFINE Y == ToSet(s)
<1> HIDE DEF Y
<1>6. s \in [1 .. n -> Y]
  BY <1>4, <1>5 DEF Y
<1>7. s \in Seq(Y) /\ Len(s) = n
  BY <1>1, <1>6
<1> QED
  BY <1>3, <1>4, <1>7 DEF Segment, Reads, Y, n, ns, s, m

LEMMA BlockSegment ==
    ASSUME NEW f \in Calls, Liftable(f), NEW l, NEW value
    PROVE  Segment(f, FactorList(f), l, WeightBlock(f, l, value))
<1> DEFINE ns == NodeFactors(FactorList(f))
           m == Applied(f)
           s == WeightBlock(f, l, value)
           n == Len(ns)
           in(i) == IF Broadcast(f)
                    THEN [column |-> MemberOf(m[i], l), blame |-> Blame(f)[i], like |-> value]
                    ELSE Input(MemberOf(m[i], l))
<1>1. /\ n \in Nat /\ DOMAIN m = 1 .. n
      /\ \A i \in 1 .. n : m[i] = ReindexTo(ns[i], Unified(f))
  <2>1. m = Moved(f, ns) /\ Slotted(f, FactorList(f))
    BY ReadsAre, ListsSlotted
  <2> HIDE DEF m
  <2> QED
    BY <2>1, SlottedArrays, MovedIs
<1>2. s = [i \in DOMAIN m |-> in(i)]
  BY DEF WeightBlock
<1> HIDE DEF ns, m, n, s
<1>3. ASSUME NEW i \in 1 .. n
      PROVE IsInput(s[i]) /\ s[i].column = MemberOf(ReindexTo(ns[i], Unified(f)), l)
  <2>1. s[i] = in(i)
    BY <1>1, <1>2
  <2>2. IsInput(in(i)) /\ in(i).column = MemberOf(m[i], l)
    BY InputIs DEF IsInput
  <2> HIDE DEF in
  <2> QED
    BY <1>1, <2>1, <2>2
<1>4. s = [i \in 1 .. n |-> s[i]] /\ DOMAIN s = 1 .. n
  BY <1>1, <1>2
<1>5. \A i \in 1 .. n : s[i] \in ToSet(s)
  BY <1>4 DEF ToSet
<1> DEFINE Y == ToSet(s)
<1> HIDE DEF Y
<1>6. s \in [1 .. n -> Y]
  BY <1>4, <1>5 DEF Y
<1>7. s \in Seq(Y) /\ Len(s) = n
  BY <1>1, <1>6
<1> QED
  BY <1>3, <1>4, <1>7 DEF Segment, Reads, Y, n, ns, s

LEMMA SegmentReads ==
    ASSUME NEW f, NEW xs, NEW l, NEW s, Segment(f, xs, l, s),
           NEW r, \A j \in 1 .. Len(s) : r[j] = s[j]
    PROVE  Reads(f, xs, l, r)
BY DEF Segment, Reads

LEMMA DropIs ==
    ASSUME NEW U, NEW r \in Seq(U), NEW n \in 0 .. Len(r)
    PROVE  /\ Drop(r, n) \in Seq(U) /\ Len(Drop(r, n)) = Len(r) - n
           /\ \A j \in 1 .. Len(r) - n : Drop(r, n)[j] = r[n + j]
<1> DEFINE s == SubSeq(r, n + 1, Len(r))
<1>1. s \in Seq(U) /\ Len(s) = Len(r) - n /\ \A j \in 1 .. Len(r) - n : s[j] = r[n + j]
  OBVIOUS
<1> HIDE DEF s
<1> QED
  BY <1>1 DEF Drop, s

\* Blocks of one length, one behind the other.
Blocks(U, n, bs) == bs \in Seq({s \in Seq(U) : Len(s) = n})
Stacked(U, n, bs, r) ==
    /\ r \in Seq(U) /\ Len(r) = Len(bs) * n
    /\ \A k \in 1 .. Len(bs) : \A j \in 1 .. n :
         (k - 1) * n + j \in 1 .. Len(r) /\ r[(k - 1) * n + j] = bs[k][j]

LEMMA FlattenBlocks ==
    ASSUME NEW U, NEW n \in Nat, NEW bs, Blocks(U, n, bs)
    PROVE  Stacked(U, n, bs, FlattenSeq(bs))
<1> DEFINE B == {s \in Seq(U) : Len(s) = n}
           Right(q) ==
             /\ FlattenSeq(q) \in Seq(U) /\ Len(FlattenSeq(q)) = Len(q) * n
             /\ \A k \in 1 .. Len(q) : \A j \in 1 .. n :
                  /\ (k - 1) * n + j \in 1 .. Len(FlattenSeq(q))
                  /\ FlattenSeq(q)[(k - 1) * n + j] = q[k][j]
           T == {q \in Seq(B) : Right(q)}
<1>1. <<>> \in T
  <2>1. <<>> \in Seq(B) /\ <<>> \in Seq(U) /\ Len(<<>>) = 0 /\ 0 * n = 0
    OBVIOUS
  <2>2. FlattenSeq(<<>>) = <<>>
    BY FlattenNil
  <2> DEFINE nil == <<>>
  <2> HIDE DEF nil
  <2>3. /\ nil \in Seq(U) /\ Len(nil) = 0 /\ nil \in Seq(B) /\ 0 * n = 0 /\ 1 .. 0 = {}
        /\ FlattenSeq(nil) = nil
    BY <2>1, <2>2 DEF nil
  <2>4. \A k \in 1 .. Len(nil) : FALSE
    BY <2>3
  <2>5. Right(nil)
    BY <2>3, <2>4
  <2> QED
    BY <2>3, <2>5 DEF nil
<1>2. ASSUME NEW q \in Seq(B), NEW b \in B, q \in T PROVE Append(q, b) \in T
  <2> DEFINE r == Append(q, b)
             m == Len(q)
             old == FlattenSeq(q)
             new == FlattenSeq(r)
             w == m * n
  <2>1. r \in Seq(B)
    OBVIOUS
  <2>2. Right(q)
    BY <1>2
  <2>3. new = old \o b
    <3>1. q \in Seq(Seq(U)) /\ b \in Seq(U)
      <4>1. B \subseteq Seq(U)
        OBVIOUS
      <4>2. \A P, Q : P \subseteq Q => Seq(P) \subseteq Seq(Q)
        OBVIOUS
      <4> QED
        BY <4>1, <4>2
    <3> QED
      BY <3>1, FlattenAppend
  <2>4. b \in Seq(U) /\ Len(b) = n
    OBVIOUS
  <2>5. /\ m \in Nat /\ Len(r) = m + 1 /\ r[m + 1] = b
        /\ \A k \in 1 .. m : r[k] = q[k]
    <3> HIDE DEF B
    <3> QED
      OBVIOUS
  <2>6. old \in Seq(U) /\ Len(old) = w /\ w \in Nat
    BY <2>2, <2>5
  <2>7. Joined(old, b, new) /\ new \in Seq(U)
    <3> HIDE DEF old
    <3> QED
      BY <2>3, <2>4, <2>6, ConcatJoins
  <2>8. (m + 1) * n = w + n /\ ((m + 1) - 1) * n = w
    BY <2>5
  <2> HIDE DEF r, old, new, B
  <2>9. ASSUME NEW k \in 1 .. m + 1, NEW j \in 1 .. n
        PROVE  (k - 1) * n + j \in 1 .. Len(new) /\ new[(k - 1) * n + j] = r[k][j]
    <3>1. CASE k = m + 1
      <4>1. (k - 1) * n = w
        BY <2>8, <3>1
      <4> HIDE DEF w
      <4> DEFINE p == (k - 1) * n + j
      <4>2. p = w + j /\ j \in 1 .. Len(b)
        BY <2>4, <4>1
      <4> HIDE DEF p
      <4>3. p \in 1 .. Len(new) /\ new[p] = b[j]
        BY <2>4, <2>6, <2>7, <4>2 DEF Joined
      <4>4. r[k] = b
        BY <2>5, <3>1
      <4> QED
        BY <4>3, <4>4 DEF p
    <3>2. CASE k # m + 1
      <4>1. k \in 1 .. m
        BY <2>5, <3>2
      <4> DEFINE p == (k - 1) * n + j
      <4>2. p \in 1 .. Len(old) /\ old[p] = q[k][j]
        BY <2>2, <4>1 DEF old
      <4> HIDE DEF p
      <4>3. p \in 1 .. Len(new) /\ new[p] = old[p]
        BY <2>4, <2>6, <2>7, <4>2 DEF Joined
      <4> QED
        BY <2>5, <4>1, <4>2, <4>3 DEF p
    <3> QED
      BY <3>1, <3>2
  <2>10. Len(new) = Len(r) * n
    <3>1. Len(new) = w + n
      BY <2>4, <2>6, <2>7 DEF Joined
    <3> QED
      BY <2>5, <2>8, <3>1
  <2>11. Right(r)
    BY <2>5, <2>7, <2>9, <2>10 DEF new
  <2> QED
    BY <2>1, <2>11 DEF r
<1> HIDE DEF T, B
<1>3. Seq(B) \subseteq T
  BY <1>1, <1>2, SeqInduction
<1>4. bs \in Seq(B)
  BY DEF Blocks, B
<1>5. Right(bs)
  BY <1>3, <1>4 DEF T
<1> QED
  BY <1>5 DEF Stacked

-----------------------------------------------------------------------------
(* What an evaluator fills from a node's inputs *)

\* How many inputs an evaluator takes for its axes, a label's weights and the sample, how
\* often it takes weights, and the cell it fills from where those begin.
NAxes(ev) == Taken(ev.n_axes, ev.fixed.axes)
BlockOf(ev) == IF ev.has_weight THEN Taken(ev.n_weights, ev.fixed.weights) ELSE 0
Popped(ev) == IF ev.has_sample /\ ev.fixed.sample = None THEN 1 ELSE 0
Loops(ev) == Max({1, Len(ev.variation)})
CellFrom(ev, label, rA, rW, rS) ==
    [label |-> label, axes |-> Place(rA, ev.n_axes, ev.fixed.axes),
     weight |-> IF ev.has_weight THEN Place(rW, ev.n_weights, ev.fixed.weights) ELSE <<>>,
     sample |-> IF ~ev.has_sample THEN <<>>
                ELSE IF Popped(ev) = 0 THEN <<[const |-> ev.fixed.sample]>> ELSE <<rS[1]>>]

LEMMA EvaluateIs ==
    ASSUME NEW ev, NEW inputs,
           ~(Len(inputs) < NAxes(ev) + Popped(ev) + Loops(ev) * BlockOf(ev))
    PROVE  LET rest == Drop(inputs, NAxes(ev))
           IN Evaluate(ev, inputs) =
                IF ev.variation = <<>>
                THEN <<CellFrom(ev, None, inputs, rest, Drop(rest, BlockOf(ev)))>>
                ELSE [k \in DOMAIN ev.variation |->
                        CellFrom(ev, ev.variation[k], inputs,
                                 Drop(rest, Popped(ev) + (k - 1) * BlockOf(ev)), rest)]
BY DEF Evaluate, NAxes, BlockOf, Popped, Loops, CellFrom

\* An evaluator made for a call, of a sibling node or an axis one.
Fits(f, ev) ==
    /\ ev.n_axes = Len(f.args) /\ ev.fixed = Fixed(f) /\ ev.n_weights = Max({NWeights(f), 1})
    /\ ev.has_weight = (NWeights(f) > 0) /\ ev.has_sample = (f.sample # Absent)

LEMMA ShapesFit ==
    ASSUME NEW f, NEW l
    PROVE  /\ Fits(f, ShapeOf(f, l))
           /\ ShapeOf(f, l).variation = IF f.axis THEN GroupOf(f, l) ELSE <<>>
BY DEF Fits, ShapeOf, AxisShape, Shape

LEMMA FitIs ==
    ASSUME NEW f \in Calls, Liftable(f), NEW ev, Fits(f, ev)
    PROVE  /\ NAxes(ev) = Len(NodeFactors(f.args)) /\ NAxes(ev) \in Nat
           /\ BlockOf(ev) = Len(NodeFactors(FactorList(f))) /\ BlockOf(ev) \in Nat
           /\ Popped(ev) = IF IsArray(f.sample) THEN 1 ELSE 0
           /\ NWeights(f) > 0 \/ BlockOf(ev) = 0
<1> DEFINE xs == FactorList(f)
<1>1. Fixed(f).axes = Slots(f.args) /\ Fixed(f).weights = Slots(xs) /\ NWeights(f) = Len(xs)
  BY DEF Fixed, Slots, NWeights, FactorList
<1>2. Slotted(f, f.args) /\ Slotted(f, xs) /\ Len(xs) \in Nat
  <2>1. \A X : \A s \in Seq(X) : Len(s) \in Nat
    OBVIOUS
  <2>2. Slotted(f, f.args) /\ Slotted(f, xs)
    BY ListsSlotted
  <2> HIDE DEF xs
  <2> QED
    BY <2>1, <2>2 DEF Slotted
<1>3. NAxes(ev) = Len(NodeFactors(f.args)) /\ NAxes(ev) \in Nat
  BY <1>1, <1>2, TakenAll DEF NAxes, Fits
<1>4. Taken(Len(xs), Slots(xs)) = Len(NodeFactors(xs)) /\ Len(NodeFactors(xs)) \in Nat
  BY <1>2, TakenAll
<1> HIDE DEF xs
<1>5. /\ BlockOf(ev) = Len(NodeFactors(xs)) /\ BlockOf(ev) \in Nat
      /\ NWeights(f) > 0 \/ BlockOf(ev) = 0
  <2>1. CASE NWeights(f) > 0
    <3>1. ev.n_weights = Len(xs) /\ ev.has_weight /\ ev.fixed.weights = Slots(xs)
      BY <1>1, <1>2, <2>1, MaxWithOne DEF Fits
    <3> QED
      BY <1>4, <2>1, <3>1 DEF BlockOf
  <2>2. CASE ~(NWeights(f) > 0)
    <3>1. Len(xs) = 0 /\ ~ev.has_weight
      <4>1. Len(xs) = 0
        BY <1>1, <1>2, <2>2
      <4>2. ~ev.has_weight
        BY <2>2, Zenon DEF Fits
      <4> QED
        BY <4>1, <4>2
    <3>2. (1 .. 0) \ DOMAIN Slots(xs) = {}
      OBVIOUS
    <3>3. Taken(0, Slots(xs)) = 0
      BY <3>2, FS_EmptySet DEF Taken
    <3> QED
      BY <1>4, <3>1, <3>3 DEF BlockOf
  <2> QED
    BY <2>1, <2>2
<1>6. Popped(ev) = IF IsArray(f.sample) THEN 1 ELSE 0
  <2>1. CASE f.sample = Absent
    <3>1. ~IsArray(f.sample)
      BY <2>1 DEF IsArray, Absent
    <3> QED
      BY <2>1, <3>1 DEF Popped, Fits
  <2>2. CASE f.sample # Absent
    <3>1. Operand(f.sample) /\ ~IsFactor(f.sample)
      BY <2>2, CallIs
    <3>2. CASE IsConst(f.sample)
      <4>1. ~IsArray(f.sample) /\ Fixed(f).sample # None
        BY <3>1, <3>2 DEF Fixed, Operand, IsConst, IsFactor, IsArray
      <4> QED
        BY <4>1 DEF Popped, Fits
    <3>3. CASE IsArray(f.sample)
      <4>1. Fixed(f).sample = None
        BY <3>3 DEF Fixed, IsConst, IsArray
      <4> QED
        BY <2>2, <3>3, <4>1 DEF Popped, Fits
    <3> QED
      BY <3>1, <3>2, <3>3 DEF Operand
  <2> QED
    BY <2>1, <2>2
<1> QED
  BY <1>3, <1>5, <1>6 DEF xs

\* The inputs the values, the factors and the sample are read from.
Supply(f, l, rA, rW, rS) ==
    /\ Reads(f, f.args, l, rA) /\ Reads(f, FactorList(f), l, rW)
    /\ IsArray(f.sample) => Reads(f, <<f.sample>>, l, rS)

LEMMA CellFits ==
    ASSUME NEW f \in Calls, Liftable(f), NEW ev, Fits(f, ev), NEW l, NEW label,
           NEW rA, NEW rW, NEW rS, Supply(f, l, rA, rW, rS)
    PROVE  /\ CellFrom(ev, label, rA, rW, rS).label = label
           /\ Filled(CellFrom(ev, label, rA, rW, rS)) = Asked(f, l)
<1> DEFINE cell == CellFrom(ev, label, rA, rW, rS)
<1>1. cell.label = label
  BY DEF CellFrom
<1>2. cell.sample = IF f.sample = Absent THEN <<>>
                    ELSE IF Fixed(f).sample = None THEN <<rS[1]>>
                    ELSE <<[const |-> Fixed(f).sample]>>
  <2>1. cell.sample = IF ~ev.has_sample THEN <<>>
                      ELSE IF Popped(ev) = 0 THEN <<[const |-> ev.fixed.sample]>> ELSE <<rS[1]>>
    BY DEF CellFrom
  <2>2. ev.has_sample => (Popped(ev) = 0 <=> ev.fixed.sample # None)
    BY DEF Popped
  <2> QED
    BY <2>1, <2>2 DEF Fits
<1>3. /\ cell.axes = Place(rA, Len(f.args), Fixed(f).axes)
      /\ cell.weight = IF NWeights(f) > 0
                       THEN Place(rW, Max({NWeights(f), 1}), Fixed(f).weights) ELSE <<>>
  BY DEF CellFrom, Fits
<1> HIDE DEF cell
<1>4. CellOf(f, rA, rW, rS, cell)
  BY <1>2, <1>3 DEF CellOf
<1>5. Filled(cell) = Asked(f, l)
  BY <1>4, CellRight DEF Supply
<1> QED
  BY <1>1, <1>5 DEF cell

\* The sample's input, when it is an array.
LEMMA SampleSegment ==
    ASSUME NEW f \in Calls, Liftable(f), NEW l
    PROVE  LET s == Members(Sampled(f), l)
           IN /\ s \in Seq(ToSet(s)) /\ Len(s) = IF IsArray(f.sample) THEN 1 ELSE 0
              /\ IsArray(f.sample) => Segment(f, <<f.sample>>, l, s)
<1> DEFINE s == Members(Sampled(f), l)
<1>1. CASE IsArray(f.sample)
  <2>1. Slotted(f, <<f.sample>>)
    <3>1. f.sample # Absent
      BY <1>1 DEF IsArray, Absent
    <3> QED
      BY <3>1, ListsSlotted
  <2>2. Segment(f, <<f.sample>>, l, s)
    BY <2>1, MembersSegment, ReadsAre
  <2>3. Len(NodeFactors(<<f.sample>>)) = 1
    BY <1>1, NodeFactorsSingle
  <2> HIDE DEF s
  <2> QED
    BY <1>1, <2>2, <2>3 DEF Segment, s
<1>2. CASE ~IsArray(f.sample)
  <2>1. Sampled(f) = <<>>
    BY <1>2 DEF Sampled
  <2>2. s = [i \in {} |-> Input(MemberOf(Sampled(f)[i], l))]
    BY <2>1 DEF Members
  <2>3. s = <<>>
    BY <2>2
  <2> DEFINE nil == <<>>
  <2>4. nil \in Seq(ToSet(s)) /\ Len(nil) = 0
    OBVIOUS
  <2> HIDE DEF s
  <2> QED
    BY <1>2, <2>3, <2>4 DEF s
<1> QED
  BY <1>1, <1>2

LEMMA PartsAre ==
    ASSUME NEW f \in Calls, Liftable(f), NEW l, NEW value
    PROVE  /\ Segment(f, f.args, l, Members(Axes(f), l))
           /\ Segment(f, FactorList(f), l, WeightBlock(f, l, value))
<1>1. Slotted(f, f.args) /\ Axes(f) = Moved(f, NodeFactors(f.args))
  BY ListsSlotted, ReadsAre
<1>2. Segment(f, f.args, l, Members(Axes(f), l))
  BY <1>1, MembersSegment
<1> QED
  BY <1>2, BlockSegment

\* One cell is label l's, and it is filled with what was asked.
FilledRight(f, l, cells) ==
    LET own == {k \in DOMAIN cells : cells[k].label \in {l, None}}
    IN /\ Cardinality(own) = 1
       /\ \A k \in own : Filled(cells[k]) = Asked(f, l)

LEMMA SiblingRight ==
    ASSUME NEW f \in Calls, Liftable(f), NEW l, NEW ev, Fits(f, ev), ev.variation = <<>>
    PROVE  FilledRight(f, l, Evaluate(ev, SiblingInputs(f, l)))
<1> DEFINE V == Members(Axes(f), l)
           W == WeightBlock(f, l, V[1].column)
           S == Members(Sampled(f), l)
           vw == V \o W
           r == vw \o S
           a == NAxes(ev)
           b == BlockOf(ev)
           p == Popped(ev)
           U == (ToSet(V) \cup ToSet(W)) \cup ToSet(S)
           rest == Drop(r, a)
           last == Drop(rest, b)
           cell == CellFrom(ev, None, r, rest, last)
<1>1. r = SiblingInputs(f, l)
  BY DEF SiblingInputs
<1>2. Segment(f, f.args, l, V) /\ Segment(f, FactorList(f), l, W)
  <2>1. \A v : Segment(f, FactorList(f), l, WeightBlock(f, l, v))
    BY PartsAre
  <2> QED
    BY <2>1, PartsAre
<1>3. /\ S \in Seq(ToSet(S)) /\ Len(S) = p /\ p \in {0, 1}
      /\ IsArray(f.sample) => Segment(f, <<f.sample>>, l, S) /\ p = 1
  BY SampleSegment, FitIs
<1>4. a \in Nat /\ b \in Nat /\ Len(V) = a /\ Len(W) = b
  BY <1>2, FitIs DEF Segment
<1>5. V \in Seq(ToSet(V)) /\ W \in Seq(ToSet(W))
  BY <1>2 DEF Segment
<1> HIDE DEF V, W, S, a, b, p
<1>6. V \in Seq(U) /\ W \in Seq(U) /\ S \in Seq(U)
  <2>1. \A P, Q : P \subseteq Q => Seq(P) \subseteq Seq(Q)
    OBVIOUS
  <2> QED
    BY <1>3, <1>5, <2>1
<1> HIDE DEF U
<1>7. Joined(V, W, vw) /\ vw \in Seq(U)
  BY <1>6, ConcatJoins
<1> HIDE DEF vw
<1>8. Joined(vw, S, r) /\ r \in Seq(U)
  BY <1>6, <1>7, ConcatJoins
<1> HIDE DEF r
<1>9. Len(vw) = a + b /\ Len(r) = (a + b) + p
  BY <1>3, <1>4, <1>7, <1>8 DEF Joined
<1>10. rest \in Seq(U) /\ Len(rest) = b + p /\ \A j \in 1 .. b + p : rest[j] = r[a + j]
  <2>1. a \in 0 .. Len(r) /\ Len(r) - a = b + p
    BY <1>3, <1>4, <1>9
  <2> HIDE DEF rest
  <2> QED
    BY <1>8, <2>1, DropIs DEF rest
<1> HIDE DEF rest
<1>11. \A j \in 1 .. p : last[j] = rest[b + j]
  <2>1. b \in 0 .. Len(rest) /\ Len(rest) - b = p
    BY <1>3, <1>4, <1>10
  <2> HIDE DEF last
  <2> QED
    BY <1>10, <2>1, DropIs DEF last
<1> HIDE DEF last
<1>12. Reads(f, f.args, l, r)
  <2>1. \A j \in 1 .. Len(V) : r[j] = V[j]
    BY <1>3, <1>4, <1>7, <1>8, <1>9 DEF Joined
  <2> QED
    BY <1>2, <2>1, SegmentReads
<1>13. Reads(f, FactorList(f), l, rest)
  <2>1. ASSUME NEW j \in 1 .. Len(W) PROVE rest[j] = W[j]
    <3>1. rest[j] = r[a + j]
      BY <1>3, <1>4, <1>10
    <3>2. r[a + j] = vw[a + j]
      BY <1>3, <1>4, <1>8, <1>9 DEF Joined
    <3>3. vw[a + j] = W[j]
      BY <1>4, <1>7 DEF Joined
    <3> QED
      BY <3>1, <3>2, <3>3
  <2> QED
    BY <1>2, <2>1, SegmentReads
<1>14. IsArray(f.sample) => Reads(f, <<f.sample>>, l, last)
  <2>1. ASSUME NEW j \in 1 .. Len(S) PROVE last[j] = S[j]
    <3>1. last[j] = rest[b + j]
      BY <1>3, <1>11
    <3>2. rest[b + j] = r[a + (b + j)]
      BY <1>3, <1>4, <1>10
    <3>3. a + (b + j) = Len(vw) + j
      BY <1>4, <1>9
    <3>4. r[Len(vw) + j] = S[j]
      BY <1>8 DEF Joined
    <3> QED
      BY <3>1, <3>2, <3>3, <3>4
  <2> QED
    BY <1>3, <2>1, SegmentReads
<1>15. cell.label = None /\ Filled(cell) = Asked(f, l)
  <2>1. Supply(f, l, r, rest, last)
    BY <1>12, <1>13, <1>14 DEF Supply
  <2> QED
    BY <2>1, CellFits
<1>16. Evaluate(ev, r) = <<cell>>
  <2>1. Loops(ev) * b = b
    <3>1. Len(<<>>) = 0 /\ {1, 0} = {0, 1}
      OBVIOUS
    <3>2. Loops(ev) = Max({0, 1})
      BY <3>1 DEF Loops
    <3>3. Loops(ev) = 1
      BY <3>2, MaxWithOne
    <3> QED
      BY <1>4, <3>3
  <2>2. ~(Len(r) < a + p + Loops(ev) * b)
    BY <1>3, <1>4, <1>9, <2>1
  <2> QED
    BY <2>2, EvaluateIs DEF a, b, p, rest, last
<1> HIDE DEF cell
<1>17. FilledRight(f, l, <<cell>>)
  <2> DEFINE cs == <<cell>>
             own == {k \in DOMAIN cs : cs[k].label \in {l, None}}
  <2>1. DOMAIN cs = {1} /\ cs[1] = cell
    OBVIOUS
  <2> HIDE DEF cs
  <2>2. own = {1}
    BY <1>15, <2>1
  <2>3. Cardinality(own) = 1
    BY <2>2, FS_Singleton
  <2>4. \A k \in own : Filled(cs[k]) = Asked(f, l)
    BY <1>15, <2>1, <2>2
  <2> QED
    BY <2>3, <2>4 DEF FilledRight, cs
<1> QED
  BY <1>1, <1>16, <1>17

LEMMA AxisRight ==
    ASSUME NEW f \in Calls, Liftable(f), NEW l \in ToSet(Labels(f)), NEW ev, Fits(f, ev),
           ev.variation = GroupOf(f, l)
    PROVE  FilledRight(f, l, Evaluate(ev, AxisInputs(f, GroupOf(f, l))))
<1> DEFINE g == GroupOf(f, l)
           V == Members(Axes(f), l)
           S == Members(Sampled(f), l)
           v == V[1].column
           bs == [k \in DOMAIN g |-> WeightBlock(f, g[k], v)]
           flat == FlattenSeq(bs)
           vs == V \o S
           r == vs \o flat
           a == NAxes(ev)
           b == BlockOf(ev)
           p == Popped(ev)
           U == (ToSet(V) \cup ToSet(S)) \cup UNION {ToSet(bs[k]) : k \in DOMAIN g}
           rest == Drop(r, a)
           at(k) == p + (k - 1) * b
           cell(k) == CellFrom(ev, g[k], r, Drop(rest, at(k)), rest)
<1>1. /\ g \in Seq(ToSet(g)) /\ IsInjective(g) /\ g # <<>> /\ l \in ToSet(g)
      /\ None \notin ToSet(g)
      /\ \A i \in 1 .. Len(g) : \A x \in ToSet(Axes(f) \o Sampled(f)) :
            MemberOf(x, g[i]) = MemberOf(x, l)
  BY GroupIs
<1>2. /\ Len(g) \in Nat /\ Len(g) > 0 /\ DOMAIN g = 1 .. Len(g)
      /\ \A i \in 1 .. Len(g) : g[i] \in ToSet(g)
      /\ \E i \in 1 .. Len(g) : g[i] = l
  <2> HIDE DEF g
  <2>1. Len(g) \in Nat /\ Len(g) > 0 /\ DOMAIN g = 1 .. Len(g)
    BY <1>1
  <2> QED
    BY <1>1, <2>1 DEF ToSet
<1>3. r = AxisInputs(f, g)
  <2>1. Members(Axes(f), g[1]) = V /\ Members(Sampled(f), g[1]) = S
    <3>1. ToSet(Axes(f) \o Sampled(f)) = ToSet(Axes(f)) \cup ToSet(Sampled(f))
      <4> DEFINE x == Axes(f)
                 y == Sampled(f)
                 X == ToSet(x) \cup ToSet(y)
      <4>1. x \in Seq(ToSet(x)) /\ y \in Seq(ToSet(y))
        BY ReadsAre DEF Lays
      <4> HIDE DEF x, y
      <4>2. \A P, Q : P \subseteq Q => Seq(P) \subseteq Seq(Q)
        OBVIOUS
      <4>3. x \in Seq(X) /\ y \in Seq(X)
        BY <4>1, <4>2
      <4> HIDE DEF X
      <4>4. ToSet(x \o y) = ToSet(x) \cup ToSet(y)
        BY <4>3, ToSetConcat
      <4> QED
        BY <4>4 DEF x, y
    <3>2. \A i \in DOMAIN Axes(f) : Axes(f)[i] \in ToSet(Axes(f))
      BY DEF ToSet
    <3>3. \A i \in DOMAIN Sampled(f) : Sampled(f)[i] \in ToSet(Sampled(f))
      BY DEF ToSet
    <3>4. 1 \in 1 .. Len(g)
      BY <1>2
    <3>5. \A i \in DOMAIN Axes(f) : MemberOf(Axes(f)[i], g[1]) = MemberOf(Axes(f)[i], l)
      BY <1>1, <3>1, <3>2, <3>4
    <3>6. \A i \in DOMAIN Sampled(f) :
            MemberOf(Sampled(f)[i], g[1]) = MemberOf(Sampled(f)[i], l)
      BY <1>1, <3>1, <3>3, <3>4
    <3> QED
      BY <3>5, <3>6 DEF Members
  <2> QED
    BY <2>1 DEF AxisInputs
<1> HIDE DEF g
<1>4. /\ Segment(f, f.args, l, V)
      /\ \A k \in 1 .. Len(g) : Segment(f, FactorList(f), g[k], bs[k])
  <2>1. \A m, u : Segment(f, FactorList(f), m, WeightBlock(f, m, u))
    BY PartsAre
  <2>2. \A k \in 1 .. Len(g) : bs[k] = WeightBlock(f, g[k], v)
    BY <1>2
  <2> QED
    BY <2>1, <2>2, PartsAre
<1>5. /\ S \in Seq(ToSet(S)) /\ Len(S) = p /\ p \in {0, 1}
      /\ IsArray(f.sample) => Segment(f, <<f.sample>>, l, S) /\ p = 1
  BY SampleSegment, FitIs
<1>6. /\ a \in Nat /\ b \in Nat /\ Len(V) = a /\ V \in Seq(ToSet(V))
      /\ \A k \in 1 .. Len(g) : Len(bs[k]) = b /\ bs[k] \in Seq(ToSet(bs[k]))
  BY <1>4, FitIs DEF Segment
<1>7. bs = [k \in 1 .. Len(g) |-> bs[k]]
  BY <1>2
<1> HIDE DEF V, S, bs, a, b, p
<1>8. V \in Seq(U) /\ S \in Seq(U) /\ \A k \in 1 .. Len(g) : bs[k] \in Seq(U)
  <2>1. \A P, Q : P \subseteq Q => Seq(P) \subseteq Seq(Q)
    OBVIOUS
  <2>2. \A k \in 1 .. Len(g) : ToSet(bs[k]) \subseteq U
    BY <1>2
  <2> QED
    BY <1>5, <1>6, <2>1, <2>2
<1> HIDE DEF U
<1>9. bs \in Seq({s \in Seq(U) : Len(s) = b}) /\ Len(bs) = Len(g)
  <2> DEFINE B == {s \in Seq(U) : Len(s) = b}
  <2>1. \A k \in 1 .. Len(g) : bs[k] \in B
    BY <1>6, <1>8
  <2> HIDE DEF B
  <2>2. bs \in [1 .. Len(g) -> B]
    BY <1>7, <2>1
  <2>3. bs \in Seq(B) /\ Len(bs) = Len(g)
    BY <1>2, <2>2
  <2> QED
    BY <2>3 DEF B
<1>10. /\ flat \in Seq(U) /\ Len(flat) = Len(g) * b
       /\ \A k \in 1 .. Len(g) : \A j \in 1 .. b :
            (k - 1) * b + j \in 1 .. Len(flat) /\ flat[(k - 1) * b + j] = bs[k][j]
  <2> DEFINE F == FlattenSeq(bs)
  <2>1. /\ F \in Seq(U) /\ Len(F) = Len(bs) * b
        /\ \A k \in 1 .. Len(bs) : \A j \in 1 .. b :
             (k - 1) * b + j \in 1 .. Len(F) /\ F[(k - 1) * b + j] = bs[k][j]
    <3>1. b \in Nat /\ Blocks(U, b, bs)
      BY <1>6, <1>9 DEF Blocks
    <3>2. Stacked(U, b, bs, F)
      BY <3>1, FlattenBlocks
    <3> HIDE DEF F
    <3> QED
      BY <3>2 DEF Stacked
  <2>2. flat = F /\ Len(bs) = Len(g)
    BY <1>9
  <2> HIDE DEF F, flat
  <2> QED
    BY <2>1, <2>2
<1> HIDE DEF flat
<1>11. Joined(V, S, vs) /\ vs \in Seq(U)
  BY <1>8, ConcatJoins
<1> HIDE DEF vs
<1>12. Joined(vs, flat, r) /\ r \in Seq(U)
  BY <1>10, <1>11, ConcatJoins
<1> HIDE DEF r
<1>13. Len(vs) = a + p /\ Len(flat) \in Nat /\ Len(r) = (a + p) + Len(flat)
  BY <1>5, <1>6, <1>11, <1>12 DEF Joined
<1>14. /\ rest \in Seq(U) /\ Len(rest) = p + Len(flat)
       /\ \A j \in 1 .. p + Len(flat) : rest[j] = r[a + j]
  <2>1. a \in 0 .. Len(r) /\ Len(r) - a = p + Len(flat)
    BY <1>5, <1>6, <1>13
  <2> HIDE DEF rest
  <2> QED
    BY <1>12, <2>1, DropIs DEF rest
<1> HIDE DEF rest
<1>15. Reads(f, f.args, l, r)
  <2>1. \A j \in 1 .. Len(V) : r[j] = V[j]
    BY <1>5, <1>6, <1>11, <1>12, <1>13 DEF Joined
  <2> QED
    BY <1>4, <2>1, SegmentReads
<1>16. IsArray(f.sample) => Reads(f, <<f.sample>>, l, rest)
  <2>1. ASSUME NEW j \in 1 .. Len(S) PROVE rest[j] = S[j]
    <3>1. rest[j] = r[a + j]
      BY <1>5, <1>13, <1>14
    <3>2. r[a + j] = vs[a + j]
      BY <1>5, <1>6, <1>12, <1>13 DEF Joined
    <3>3. vs[a + j] = S[j]
      BY <1>6, <1>11 DEF Joined
    <3> QED
      BY <3>1, <3>2, <3>3
  <2> QED
    BY <1>5, <2>1, SegmentReads
<1>17. ASSUME NEW k \in 1 .. Len(g)
       PROVE  Reads(f, FactorList(f), g[k], Drop(rest, at(k)))
  <2> DEFINE w == (k - 1) * b
             last == Drop(rest, at(k))
             q == at(k)
  <2>1. w \in Nat /\ w + b <= Len(flat) /\ q = p + w
    <3>1. k - 1 \in Nat /\ b \in Nat
      BY <1>2, <1>6
    <3>2. w \in Nat
      BY <3>1
    <3>3. CASE b = 0
      <4>1. w = 0
        BY <3>1, <3>3
      <4> HIDE DEF w
      <4> QED
        BY <1>13, <3>3, <4>1 DEF w
    <3>4. CASE b # 0
      <4>1. b \in 1 .. b
        BY <3>1, <3>4
      <4>2. w + b \in 1 .. Len(flat)
        BY <1>10, <4>1
      <4> HIDE DEF w
      <4> QED
        BY <1>13, <3>1, <3>2, <4>2 DEF w
    <3> QED
      BY <3>3, <3>4
  <2>2. \A j \in 1 .. b : flat[w + j] = bs[k][j]
    BY <1>10
  <2> HIDE DEF q, w
  <2>3. \A j \in 1 .. b : last[j] = rest[q + j]
    <3>1. q \in 0 .. Len(rest) /\ b <= Len(rest) - q
      BY <1>5, <1>6, <1>13, <1>14, <2>1
    <3>2. last = Drop(rest, q)
      BY DEF q
    <3> HIDE DEF last
    <3>3. \A j \in 1 .. Len(rest) - q : last[j] = rest[q + j]
      BY <1>14, <3>1, <3>2, DropIs
    <3> QED
      BY <1>5, <1>6, <1>13, <1>14, <2>1, <3>1, <3>3
  <2>4. ASSUME NEW j \in 1 .. Len(bs[k]) PROVE last[j] = bs[k][j]
    <3>0. j \in 1 .. b
      BY <1>6
    <3>1. last[j] = rest[q + j]
      BY <2>3, <3>0
    <3>2. rest[q + j] = r[a + (q + j)]
      BY <1>5, <1>6, <1>13, <1>14, <2>1, <3>0
    <3>3. a + (q + j) = Len(vs) + (w + j) /\ w + j \in 1 .. Len(flat)
      BY <1>5, <1>6, <1>13, <2>1, <3>0
    <3>4. r[Len(vs) + (w + j)] = flat[w + j]
      BY <1>12, <3>3 DEF Joined
    <3> QED
      BY <2>2, <3>0, <3>1, <3>2, <3>3, <3>4
  <2> HIDE DEF last
  <2>5. Reads(f, FactorList(f), g[k], last)
    BY <1>4, <2>4, SegmentReads
  <2> QED
    BY <2>5 DEF last
<1>18. \A k \in 1 .. Len(g) : cell(k).label = g[k] /\ (g[k] = l => Filled(cell(k)) = Asked(f, l))
  <2> TAKE k \in 1 .. Len(g)
  <2>1. cell(k).label = g[k]
    BY DEF CellFrom
  <2>2. ASSUME g[k] = l PROVE Filled(cell(k)) = Asked(f, l)
    <3>1. Supply(f, l, r, Drop(rest, at(k)), rest)
      BY <1>15, <1>16, <1>17, <2>2 DEF Supply
    <3> HIDE DEF at
    <3> QED
      BY <3>1, CellFits
  <2> QED
    BY <2>1, <2>2
<1>19. Evaluate(ev, r) = [k \in DOMAIN g |-> cell(k)]
  <2>1. Loops(ev) * b = Len(flat)
    <3>1. {1, Len(g)} = {Len(g), 1}
      OBVIOUS
    <3>2. Loops(ev) = Max({Len(g), 1})
      BY <3>1 DEF Loops, g
    <3>3. Loops(ev) = Len(g)
      BY <1>2, <3>2, MaxWithOne
    <3> QED
      BY <1>10, <3>3
  <2>2. ~(Len(r) < a + p + Loops(ev) * b)
    BY <1>5, <1>6, <1>13, <2>1
  <2>3. ev.variation = g /\ g # <<>>
    BY <1>1 DEF g
  <2> QED
    BY <2>2, <2>3, EvaluateIs DEF a, b, p, rest
<1> HIDE DEF cell
<1>20. FilledRight(f, l, [k \in DOMAIN g |-> cell(k)])
  <2> DEFINE cs == [k \in DOMAIN g |-> cell(k)]
             own == {k \in DOMAIN cs : cs[k].label \in {l, None}}
  <2>1. DOMAIN cs = 1 .. Len(g) /\ \A k \in 1 .. Len(g) : cs[k] = cell(k)
    BY <1>2
  <2> HIDE DEF cs
  <2>2. PICK i \in 1 .. Len(g) : g[i] = l
    BY <1>2
  <2>3. own = {i}
    <3>1. \A k \in 1 .. Len(g) : g[k] # None
      BY <1>1, <1>2
    <3>2. \A k \in 1 .. Len(g) : g[k] = l <=> k = i
      BY <1>1, <1>2, <2>2 DEF IsInjective
    <3> QED
      BY <1>18, <2>1, <2>2, <3>1, <3>2
  <2>4. Cardinality(own) = 1
    BY <2>3, FS_Singleton
  <2>5. \A k \in own : Filled(cs[k]) = Asked(f, l)
    BY <1>18, <2>1, <2>2, <2>3
  <2> QED
    BY <2>4, <2>5 DEF FilledRight, cs
<1> QED
  BY <1>3, <1>19, <1>20 DEF g

\* A node's own evaluator fills the node's labels as asked.
LEMMA OwnEvaluatorRight ==
    ASSUME NEW f \in Calls, Liftable(f), NEW l \in ToSet(Labels(f))
    PROVE  FilledRight(f, l, Evaluate(ShapeOf(f, l), NodeOf(f, l).inputs))
<1> DEFINE ev == ShapeOf(f, l)
<1>1. Fits(f, ev) /\ ev.variation = IF f.axis THEN GroupOf(f, l) ELSE <<>>
  BY ShapesFit
<1>2. NodeOf(f, l).inputs = IF f.axis THEN AxisInputs(f, GroupOf(f, l)) ELSE SiblingInputs(f, l)
  BY DEF NodeOf, AxisNode, SiblingNode, FillNode
<1> HIDE DEF ev
<1>3. FilledRight(f, l, Evaluate(ev, NodeOf(f, l).inputs))
  <2>1. CASE f.axis
    BY <1>1, <1>2, <2>1, AxisRight
  <2>2. CASE ~f.axis
    BY <1>1, <1>2, <2>2, SiblingRight
  <2> QED
    BY <2>1, <2>2
<1> QED
  BY <1>3 DEF ev

-----------------------------------------------------------------------------
(* The keys of nodes and the registries *)

\* The two ways a node finds its evaluator: in a plan and when it is materialized.
KeyBy(w, node) == IF w = "plan" THEN ExternalKey(node) ELSE ChashOf(node)
IsGuard(key) == \E b : key = [guard |-> b]

LEMMA ShapeIs ==
    ASSUME NEW f, NEW l
    PROVE  ShapeOf(f, l) =
             [axis |-> IF f.axis THEN ToSet(Labels(f)) ELSE {}, n_axes |-> Len(f.args),
              has_weight |-> NWeights(f) > 0, has_sample |-> f.sample # Absent,
              n_weights |-> Max({NWeights(f), 1}),
              variation |-> IF f.axis THEN GroupOf(f, l) ELSE <<>>, fixed |-> Fixed(f)]
BY DEF ShapeOf, AxisShape, Shape

LEMMA ChashIs ==
    ASSUME NEW f, NEW l
    PROVE  ChashOf(NodeOf(f, l)) = FillChash(ShapeOf(f, l))
BY DEF ChashOf, NodeOf, ShapeOf, AxisNode, SiblingNode, FillNode

\* Fills of one spec whose nodes share a key have one evaluator.
LEMMA KeyFixesShape ==
    ASSUME NEW w, NEW f \in Calls, NEW g \in Calls, NEW l, NEW m,
           KeyBy(w, NodeOf(f, l)) = KeyBy(w, NodeOf(g, m)),
           (f.sample = Absent) <=> (g.sample = Absent)
    PROVE  ShapeOf(f, l) = ShapeOf(g, m)
<1> DEFINE a == ShapeOf(f, l)
           b == ShapeOf(g, m)
<1>1. ChashOf(NodeOf(f, l)) = ChashOf(NodeOf(g, m))
  <2>1. CASE w = "plan"
    <3>1. ExternalKey(NodeOf(f, l)) = ExternalKey(NodeOf(g, m))
      BY <2>1 DEF KeyBy
    <3> QED
      BY <3>1 DEF ExternalKey, ChashOf
  <2>2. CASE w # "plan"
    BY <2>2 DEF KeyBy
  <2> QED
    BY <2>1, <2>2
<1>2. FillChash(a) = FillChash(b)
  BY <1>1, ChashIs
<1>3. Len(f.args) = Len(g.args)
  BY CallsAssumption
<1>4. /\ a.n_axes = Len(f.args) /\ b.n_axes = Len(g.args)
      /\ a.has_sample = (f.sample # Absent) /\ b.has_sample = (g.sample # Absent)
  BY ShapeIs
<1>5. a = [axis |-> a.axis, n_axes |-> a.n_axes, has_weight |-> a.has_weight,
           has_sample |-> a.has_sample, n_weights |-> a.n_weights,
           variation |-> a.variation, fixed |-> a.fixed]
  BY ShapeIs
<1>6. b = [axis |-> b.axis, n_axes |-> b.n_axes, has_weight |-> b.has_weight,
           has_sample |-> b.has_sample, n_weights |-> b.n_weights,
           variation |-> b.variation, fixed |-> b.fixed]
  BY ShapeIs
<1> HIDE DEF a, b
<1>7. a.has_sample = b.has_sample /\ a.n_axes = b.n_axes
  BY <1>3, <1>4
<1>8. /\ a.axis = b.axis /\ a.has_weight = b.has_weight /\ a.n_weights = b.n_weights
      /\ a.variation = b.variation /\ a.fixed = b.fixed
  BY <1>2 DEF FillChash
<1>9. a = b
  BY <1>5, <1>6, <1>7, <1>8
<1> QED
  BY <1>9 DEF a, b

LEMMA ChashNoGuard ==
    ASSUME NEW f, NEW l
    PROVE  ~IsGuard(ChashOf(NodeOf(f, l)))
<1>1. \A ev, b : FillChash(ev) # [guard |-> b]
  BY DEF FillChash
<1> QED
  BY <1>1, ChashIs DEF IsGuard

LEMMA OverIs ==
    ASSUME NEW new, NEW old
    PROVE  /\ DOMAIN Over(new, old) = DOMAIN new \cup DOMAIN old
           /\ \A k \in DOMAIN new : Over(new, old)[k] = new[k]
           /\ \A k \in DOMAIN old \ DOMAIN new : Over(new, old)[k] = old[k]
BY DEF Over

LEMMA RegisteredIs ==
    ASSUME NEW f, NEW registry, NEW keys
    PROVE  LET r == Registered(registry, ShapesOf(f), keys)
           IN /\ DOMAIN registry \subseteq DOMAIN r
              /\ \A l \in ToSet(Labels(f)) : keys[l] \in DOMAIN r
              /\ \A key \in DOMAIN r :
                   \/ key \in DOMAIN registry /\ r[key] = registry[key]
                   \/ \E l \in ToSet(Labels(f)) : key = keys[l] /\ r[key] = ShapeOf(f, l)
<1> DEFINE L == ToSet(Labels(f))
           shapes == ShapesOf(f)
           made == {[key |-> keys[l], ev |-> shapes[l]] : l \in DOMAIN shapes}
           new == [k \in {m.key : m \in made} |-> (CHOOSE m \in made : m.key = k).ev]
           r == Over(new, registry)
<1>0. DOMAIN shapes = L /\ \A l \in L : shapes[l] = ShapeOf(f, l)
  BY DEF ShapesOf
<1> HIDE DEF shapes, L
<1>1. Registered(registry, shapes, keys) = r
  BY DEF Registered
<1>2. DOMAIN new = {m.key : m \in made}
  OBVIOUS
<1>3. ASSUME NEW l \in L PROVE keys[l] \in DOMAIN new
  <2> DEFINE m == [key |-> keys[l], ev |-> shapes[l]]
  <2>1. m \in made /\ m.key = keys[l]
    BY <1>0
  <2> HIDE DEF made, m, new
  <2> QED
    BY <1>2, <2>1
<1>4. ASSUME NEW key \in DOMAIN new
      PROVE  \E l \in L : key = keys[l] /\ new[key] = ShapeOf(f, l)
  <2> DEFINE m == CHOOSE m \in made : m.key = key
  <2>1. m \in made /\ m.key = key
    <3>1. \E x \in made : x.key = key
      BY <1>2
    <3> HIDE DEF made
    <3> QED
      BY <3>1
  <2>2. new[key] = m.ev
    OBVIOUS
  <2> HIDE DEF m, new
  <2>3. PICK l \in L : m = [key |-> keys[l], ev |-> shapes[l]]
    BY <1>0, <2>1
  <2>4. m.key = keys[l] /\ m.ev = ShapeOf(f, l)
    BY <1>0, <2>3
  <2> QED
    BY <2>1, <2>2, <2>4
<1> HIDE DEF new
<1>5. /\ DOMAIN r = DOMAIN new \cup DOMAIN registry
      /\ \A k \in DOMAIN new : r[k] = new[k]
      /\ \A k \in DOMAIN registry \ DOMAIN new : r[k] = registry[k]
  BY OverIs
<1> HIDE DEF r
<1> QED
  BY <1>1, <1>3, <1>4, <1>5 DEF L, shapes

\* What a fill makes of its histogram's registry.
Updates(w, f, old, new) ==
    /\ DOMAIN old \subseteq DOMAIN new
    /\ \A l \in ToSet(Labels(f)) : KeyBy(w, NodeOf(f, l)) \in DOMAIN new
    /\ \A key \in DOMAIN new :
         \/ w = "hash" /\ IsGuard(key)
         \/ key \in DOMAIN old /\ new[key] = old[key]
         \/ \E l \in ToSet(Labels(f)) :
              key = KeyBy(w, NodeOf(f, l)) /\ new[key] = ShapeOf(f, l)

LEMMA PartialsUpdate ==
    ASSUME NEW f, NEW old
    PROVE  LET nodes == NodesOf(f)
           IN Updates("plan", f, old,
                      Registered(old, ShapesOf(f),
                                 [l \in DOMAIN nodes |-> ExternalKey(nodes[l])]))
<1> DEFINE nodes == NodesOf(f)
           keys == [l \in DOMAIN nodes |-> ExternalKey(nodes[l])]
<1>1. \A l \in ToSet(Labels(f)) : keys[l] = KeyBy("plan", NodeOf(f, l))
  BY DEF NodesOf, KeyBy
<1> HIDE DEF keys
<1>2. Updates("plan", f, old, Registered(old, ShapesOf(f), keys))
  BY <1>1, RegisteredIs DEF Updates
<1> QED
  BY <1>2 DEF keys

LEMMA EvaluatorsUpdate ==
    ASSUME NEW f, NEW old
    PROVE  LET nodes == NodesOf(f)
           IN Updates("hash", f, old, Over(Guards(f),
                      Registered(old, ShapesOf(f),
                                 [l \in DOMAIN nodes |-> ChashOf(nodes[l])])))
<1> DEFINE nodes == NodesOf(f)
           keys == [l \in DOMAIN nodes |-> ChashOf(nodes[l])]
           r == Registered(old, ShapesOf(f), keys)
           new == Over(Guards(f), r)
<1>1. \A l \in ToSet(Labels(f)) : keys[l] = KeyBy("hash", NodeOf(f, l))
  BY DEF NodesOf, KeyBy
<1> HIDE DEF keys
<1>2. Updates("hash", f, old, r)
  BY <1>1, RegisteredIs DEF Updates
<1>3. \A key \in DOMAIN Guards(f) : IsGuard(key)
  <2>1. CASE Broadcast(f)
    <3>1. DOMAIN Guards(f) = {[guard |-> b] : b \in Range(Blame(f))}
      BY <2>1 DEF Guards
    <3> QED
      BY <3>1 DEF IsGuard
  <2>2. CASE ~Broadcast(f)
    <3>1. Guards(f) = <<>>
      BY <2>2 DEF Guards
    <3>2. DOMAIN <<>> = {}
      OBVIOUS
    <3> QED
      BY <3>1, <3>2
  <2> QED
    BY <2>1, <2>2
<1> HIDE DEF r
<1>4. /\ DOMAIN new = DOMAIN Guards(f) \cup DOMAIN r
      /\ \A k \in DOMAIN r \ DOMAIN Guards(f) : new[k] = r[k]
  BY OverIs
<1> HIDE DEF new
<1>5. Updates("hash", f, old, new)
  <2>1. DOMAIN old \subseteq DOMAIN new
    BY <1>2, <1>4 DEF Updates
  <2>2. \A l \in ToSet(Labels(f)) : KeyBy("hash", NodeOf(f, l)) \in DOMAIN new
    BY <1>2, <1>4 DEF Updates
  <2>3. ASSUME NEW key \in DOMAIN new
        PROVE  \/ "hash" = "hash" /\ IsGuard(key)
               \/ key \in DOMAIN old /\ new[key] = old[key]
               \/ \E l \in ToSet(Labels(f)) :
                    key = KeyBy("hash", NodeOf(f, l)) /\ new[key] = ShapeOf(f, l)
    <3>1. CASE key \in DOMAIN Guards(f)
      BY <1>3, <3>1
    <3>2. CASE key \notin DOMAIN Guards(f)
      <4>1. key \in DOMAIN r /\ new[key] = r[key]
        BY <1>4, <3>2
      <4> QED
        BY <1>2, <4>1 DEF Updates
    <3> QED
      BY <3>1, <3>2
  <2> QED
    BY <2>1, <2>2, <2>3 DEF Updates
<1> QED
  BY <1>5 DEF new, r, keys

-----------------------------------------------------------------------------
(* What the log and the registries agree on *)

\* A fill's entry of the log has no nodes, when it raised, or all of its call's; and a
\* registry has every logged node's key and nothing but guards and their evaluators.
Entries == [hist : Hists, call : Calls, nodes : {<<>>} \cup {NodesOf(f) : f \in Calls}]
EntryGood(e) == e.nodes = <<>> \/ (e.nodes = NodesOf(e.call) /\ Liftable(e.call))
SampledAlike(f, g) == (f.sample = Absent) <=> (g.sample = Absent)
LogGood(lg) ==
    /\ lg \in Seq(Entries)
    /\ \A k \in 1 .. Len(lg) : EntryGood(lg[k])
    /\ \A j, k \in 1 .. Len(lg) : SampledAlike(lg[j].call, lg[k].call)
RegistryGood(w, reg, lg) ==
    /\ \A k \in 1 .. Len(lg) : \A l \in DOMAIN lg[k].nodes :
         KeyBy(w, lg[k].nodes[l]) \in DOMAIN reg[lg[k].hist]
    /\ \A h \in Hists : \A key \in DOMAIN reg[h] :
         \/ w = "hash" /\ IsGuard(key)
         \/ \E k \in 1 .. Len(lg) : \E l \in DOMAIN lg[k].nodes :
              key = KeyBy(w, lg[k].nodes[l]) /\ reg[h][key] = ShapeOf(lg[k].call, l)

LEMMA EntriesAppend ==
    ASSUME NEW X, NEW lg \in Seq(X), NEW e \in X
    PROVE  /\ Append(lg, e) \in Seq(X) /\ Len(lg) \in Nat /\ Len(Append(lg, e)) = Len(lg) + 1
           /\ Append(lg, e)[Len(lg) + 1] = e
           /\ \A k \in 1 .. Len(lg) : Append(lg, e)[k] = lg[k] /\ k \in 1 .. Len(lg) + 1
           /\ Len(lg) + 1 \in 1 .. Len(lg) + 1
           /\ \A k \in 1 .. Len(lg) + 1 : k \in 1 .. Len(lg) \/ k = Len(lg) + 1
OBVIOUS

LEMMA LogStep ==
    ASSUME NEW lg, LogGood(lg), NEW e \in Entries, EntryGood(e),
           \A k \in 1 .. Len(lg) : SampledAlike(lg[k].call, e.call)
    PROVE  LogGood(Append(lg, e))
<1> DEFINE new == Append(lg, e)
           n == Len(lg)
<1>1. /\ new \in Seq(Entries) /\ n \in Nat /\ Len(new) = n + 1 /\ new[n + 1] = e
      /\ \A k \in 1 .. n : new[k] = lg[k]
      /\ \A k \in 1 .. n + 1 : k \in 1 .. n \/ k = n + 1
  BY EntriesAppend DEF LogGood
<1> HIDE DEF new, n
<1>2. ASSUME NEW k \in 1 .. n + 1 PROVE EntryGood(new[k])
  BY <1>1 DEF LogGood, n
<1>3. ASSUME NEW j \in 1 .. n + 1, NEW k \in 1 .. n + 1
      PROVE  SampledAlike(new[j].call, new[k].call)
  BY <1>1 DEF LogGood, SampledAlike, n
<1> QED
  BY <1>1, <1>2, <1>3 DEF LogGood, new

LEMMA RegistryStep ==
    ASSUME NEW w, NEW lg \in Seq(Entries), NEW reg, DOMAIN reg = Hists, NEW h \in Hists,
           NEW f \in Calls, NEW new, Updates(w, f, reg[h], new), RegistryGood(w, reg, lg),
           NEW e \in Entries, e.hist = h, e.call = f, e.nodes = NodesOf(f)
    PROVE  RegistryGood(w, [reg EXCEPT ![h] = new], Append(lg, e))
<1> DEFINE reg2 == [reg EXCEPT ![h] = new]
           lg2 == Append(lg, e)
           n == Len(lg)
           L == ToSet(Labels(f))
<1>1. /\ n \in Nat /\ Len(lg2) = n + 1 /\ lg2[n + 1] = e /\ n + 1 \in 1 .. n + 1
      /\ \A k \in 1 .. n : lg2[k] = lg[k] /\ k \in 1 .. n + 1
      /\ \A k \in 1 .. n + 1 : k \in 1 .. n \/ k = n + 1
  BY EntriesAppend
<1>2. reg2[h] = new /\ \A g \in Hists : g # h => reg2[g] = reg[g]
  OBVIOUS
<1>3. \A k \in 1 .. n : lg[k].hist \in Hists
  <2>1. \A x \in Entries : x.hist \in Hists
    BY DEF Entries
  <2>2. \A k \in 1 .. n : lg[k] \in Entries
    OBVIOUS
  <2> QED
    BY <2>1, <2>2
<1>4. DOMAIN e.nodes = L /\ \A l \in L : e.nodes[l] = NodeOf(f, l)
  BY DEF NodesOf
<1> HIDE DEF reg2, lg2, n, L
<1>5. ASSUME NEW k \in 1 .. n + 1, NEW l \in DOMAIN lg2[k].nodes
      PROVE  KeyBy(w, lg2[k].nodes[l]) \in DOMAIN reg2[lg2[k].hist]
  <2>1. CASE k = n + 1
    <3>1. lg2[k] = e /\ l \in L
      BY <1>1, <1>4, <2>1
    <3>2. KeyBy(w, NodeOf(f, l)) \in DOMAIN new
      BY <3>1 DEF Updates, L
    <3> QED
      BY <1>2, <1>4, <3>1, <3>2
  <2>2. CASE k \in 1 .. n
    <3>1. lg2[k] = lg[k] /\ lg[k].hist \in Hists
      BY <1>1, <1>3, <2>2
    <3>2. KeyBy(w, lg[k].nodes[l]) \in DOMAIN reg[lg[k].hist]
      BY <2>2, <3>1 DEF RegistryGood, n
    <3> QED
      BY <1>2, <3>1, <3>2 DEF Updates
  <2> QED
    BY <1>1, <2>1, <2>2
<1>6. ASSUME NEW g \in Hists, NEW key \in DOMAIN reg2[g]
      PROVE  \/ w = "hash" /\ IsGuard(key)
             \/ \E k \in 1 .. n + 1 : \E l \in DOMAIN lg2[k].nodes :
                  key = KeyBy(w, lg2[k].nodes[l]) /\ reg2[g][key] = ShapeOf(lg2[k].call, l)
  <2>1. ASSUME key \in DOMAIN reg[g], reg2[g][key] = reg[g][key]
        PROVE  \/ w = "hash" /\ IsGuard(key)
               \/ \E k \in 1 .. n + 1 : \E l \in DOMAIN lg2[k].nodes :
                    key = KeyBy(w, lg2[k].nodes[l]) /\ reg2[g][key] = ShapeOf(lg2[k].call, l)
    <3>1. \/ w = "hash" /\ IsGuard(key)
          \/ \E k \in 1 .. n : \E l \in DOMAIN lg[k].nodes :
               key = KeyBy(w, lg[k].nodes[l]) /\ reg[g][key] = ShapeOf(lg[k].call, l)
      BY <2>1 DEF RegistryGood, n
    <3> QED
      BY <1>1, <2>1, <3>1
  <2>2. CASE g # h
    BY <1>2, <2>1, <2>2
  <2>3. CASE g = h
    <3>1. reg2[g] = new
      BY <1>2, <2>3
    <3>2. \/ w = "hash" /\ IsGuard(key)
          \/ key \in DOMAIN reg[h] /\ new[key] = reg[h][key]
          \/ \E l \in L : key = KeyBy(w, NodeOf(f, l)) /\ new[key] = ShapeOf(f, l)
      BY <3>1 DEF Updates, L
    <3>3. ASSUME NEW l \in L, key = KeyBy(w, NodeOf(f, l)), new[key] = ShapeOf(f, l)
          PROVE \E k \in 1 .. n + 1 : \E m \in DOMAIN lg2[k].nodes :
                  key = KeyBy(w, lg2[k].nodes[m]) /\ reg2[g][key] = ShapeOf(lg2[k].call, m)
      <4>1. /\ n + 1 \in 1 .. n + 1 /\ l \in DOMAIN lg2[n + 1].nodes
            /\ key = KeyBy(w, lg2[n + 1].nodes[l])
            /\ reg2[g][key] = ShapeOf(lg2[n + 1].call, l)
        BY <1>1, <1>4, <3>1, <3>3
      <4> QED
        BY <4>1
    <3> QED
      BY <2>1, <2>3, <3>1, <3>2, <3>3
  <2> QED
    BY <2>2, <2>3
<1> QED
  BY <1>1, <1>5, <1>6 DEF RegistryGood, reg2, lg2

\* A refused fill leaves the registries, and logs no node.
LEMMA RegistryKept ==
    ASSUME NEW w, NEW lg \in Seq(Entries), NEW reg, RegistryGood(w, reg, lg),
           NEW e \in Entries, e.nodes = <<>>
    PROVE  RegistryGood(w, reg, Append(lg, e))
<1> DEFINE lg2 == Append(lg, e)
           n == Len(lg)
<1>1. /\ n \in Nat /\ Len(lg2) = n + 1 /\ lg2[n + 1] = e
      /\ \A k \in 1 .. n : lg2[k] = lg[k] /\ k \in 1 .. n + 1
      /\ \A k \in 1 .. n + 1 : k \in 1 .. n \/ k = n + 1
  BY EntriesAppend
<1>2. DOMAIN e.nodes = {}
  OBVIOUS
<1> HIDE DEF lg2, n
<1>3. ASSUME NEW k \in 1 .. n + 1, NEW l \in DOMAIN lg2[k].nodes
      PROVE  KeyBy(w, lg2[k].nodes[l]) \in DOMAIN reg[lg2[k].hist]
  BY <1>1, <1>2 DEF RegistryGood, n
<1>4. ASSUME NEW g \in Hists, NEW key \in DOMAIN reg[g]
      PROVE  \/ w = "hash" /\ IsGuard(key)
             \/ \E k \in 1 .. n + 1 : \E l \in DOMAIN lg2[k].nodes :
                  key = KeyBy(w, lg2[k].nodes[l]) /\ reg[g][key] = ShapeOf(lg2[k].call, l)
  <2>1. \/ w = "hash" /\ IsGuard(key)
        \/ \E k \in 1 .. n : \E l \in DOMAIN lg[k].nodes :
             key = KeyBy(w, lg[k].nodes[l]) /\ reg[g][key] = ShapeOf(lg[k].call, l)
    BY DEF RegistryGood, n
  <2> QED
    BY <1>1, <2>1
<1> QED
  BY <1>1, <1>3, <1>4 DEF RegistryGood, lg2

-----------------------------------------------------------------------------
(* The registries merged *)

\* The merge of registries, as a fold the induction lemmas are about.
MergeOp(reg, all, h) == Over(reg[h], all)
Merges == INSTANCE SetInduction WITH Op <- MergeOp

LEMMA MergedIsFold ==
    ASSUME NEW reg, NEW order
    PROVE  Merged(reg, order) = Merges!Folded(reg, <<>>, order)
BY DEF Merged, MergeOp, FoldLeft, MapThenFoldSet, Max, Merges!Folded, Merges!FoldLeft,
       Merges!MapThenFoldSet, Merges!Max

\* Every entry of a merged registry is one of a histogram's, and none is left out.
MergeGood(reg, order, all) ==
    /\ \A i \in 1 .. Len(order) : DOMAIN reg[order[i]] \subseteq DOMAIN all
    /\ \A key \in DOMAIN all : \E h \in Hists : key \in DOMAIN reg[h] /\ all[key] = reg[h][key]

LEMMA MergedIs ==
    ASSUME NEW reg, NEW order \in Seq(Hists)
    PROVE  MergeGood(reg, order, Merged(reg, order))
<1> DEFINE T == {q \in Seq(Hists) : MergeGood(reg, q, Merged(reg, q))}
<1>1. <<>> \in T
  <2> DEFINE nil == <<>>
  <2>1. nil \in Seq(Hists) /\ 1 .. Len(nil) = {} /\ DOMAIN nil = {}
    OBVIOUS
  <2>2. Merged(reg, nil) = nil
    BY MergedIsFold, Merges!FoldNil
  <2> HIDE DEF nil
  <2>3. MergeGood(reg, nil, nil)
    BY <2>1 DEF MergeGood
  <2> QED
    BY <2>1, <2>2, <2>3 DEF nil
<1>2. ASSUME NEW q \in Seq(Hists), NEW h \in Hists, q \in T PROVE Append(q, h) \in T
  <2> DEFINE r == Append(q, h)
             n == Len(q)
             old == Merged(reg, q)
             all == Merged(reg, r)
  <2>1. all = Over(reg[h], old)
    <3>1. Merges!Folded(reg, <<>>, Append(q, h)) = MergeOp(reg, Merges!Folded(reg, <<>>, q), h)
      BY Merges!FoldAppend
    <3> QED
      BY <3>1, MergedIsFold DEF MergeOp
  <2>2. /\ r \in Seq(Hists) /\ Len(r) = n + 1 /\ r[n + 1] = h
        /\ \A k \in 1 .. n : r[k] = q[k]
        /\ \A k \in 1 .. n + 1 : k \in 1 .. n \/ k = n + 1
    BY EntriesAppend
  <2>3. MergeGood(reg, q, old)
    BY <1>2
  <2> HIDE DEF r, n, old, all
  <2>4. /\ DOMAIN all = DOMAIN reg[h] \cup DOMAIN old
        /\ \A k \in DOMAIN reg[h] : all[k] = reg[h][k]
        /\ \A k \in DOMAIN old \ DOMAIN reg[h] : all[k] = old[k]
    <3> DEFINE new == reg[h]
               o == Over(new, old)
    <3>1. /\ DOMAIN o = DOMAIN new \cup DOMAIN old
          /\ \A k \in DOMAIN new : o[k] = new[k]
          /\ \A k \in DOMAIN old \ DOMAIN new : o[k] = old[k]
      BY OverIs
    <3> HIDE DEF o
    <3> QED
      BY <2>1, <3>1 DEF o
  <2>5. ASSUME NEW i \in 1 .. n + 1 PROVE DOMAIN reg[r[i]] \subseteq DOMAIN all
    <3>1. CASE i = n + 1
      BY <2>2, <2>4, <3>1
    <3>2. CASE i \in 1 .. n
      <4>1. DOMAIN reg[q[i]] \subseteq DOMAIN old
        BY <2>3, <3>2 DEF MergeGood, n
      <4> QED
        BY <2>2, <2>4, <3>2, <4>1
    <3> QED
      BY <2>2, <3>1, <3>2
  <2>6. ASSUME NEW key \in DOMAIN all
        PROVE  \E g \in Hists : key \in DOMAIN reg[g] /\ all[key] = reg[g][key]
    <3>1. CASE key \in DOMAIN reg[h]
      BY <2>4, <3>1
    <3>2. CASE key \notin DOMAIN reg[h]
      <4>1. key \in DOMAIN old /\ all[key] = old[key]
        BY <2>4, <3>2
      <4> QED
        BY <2>3, <4>1 DEF MergeGood
    <3> QED
      BY <3>1, <3>2
  <2>7. MergeGood(reg, r, all)
    BY <2>2, <2>5, <2>6 DEF MergeGood
  <2> QED
    BY <2>2, <2>7 DEF r, all
<1> HIDE DEF T
<1>3. Seq(Hists) \subseteq T
  BY <1>1, <1>2, SeqInduction
<1> QED
  BY <1>3 DEF T

LEMMA OrdersCover ==
    ASSUME NEW order \in Orders
    PROVE  order \in Seq(Hists) /\ \A h \in Hists : \E i \in 1 .. Len(order) : order[i] = h
<1> DEFINE n == Cardinality(Hists)
           D == 1 .. n
<1>1. order \in [D -> Hists] /\ \A i, j \in D : i # j => order[i] # order[j]
  BY DEF Orders, SetToSeqs
<1>2. n \in Nat
  BY HistsAssumption, FS_CardinalityType
<1>3. order \in Seq(Hists) /\ Len(order) = n
  <2> HIDE DEF n
  <2> QED
    BY <1>1, <1>2
<1>4. IsFiniteSet(D) /\ Cardinality(D) = n
  BY <1>2, FS_Interval
<1> HIDE DEF D
<1>5. order \in Injection(D, Hists)
  BY <1>1 DEF Injection, IsInjective
<1>6. order \in Surjection(D, Hists)
  BY <1>4, <1>5, HistsAssumption, FS_Injection
<1>7. \A h \in Hists : \E i \in D : order[i] = h
  BY <1>6 DEF Surjection
<1> QED
  BY <1>3, <1>7 DEF D

\* What is logged of a call that recorded nodes.
LEMMA LoggedIs ==
    ASSUME NEW lg, LogGood(lg), NEW j \in 1 .. Len(lg)
    PROVE  /\ lg[j].call \in Calls /\ lg[j].hist \in Hists
           /\ \A m \in DOMAIN lg[j].nodes :
                /\ lg[j].nodes[m] = NodeOf(lg[j].call, m)
                /\ m \in ToSet(Labels(lg[j].call)) /\ Liftable(lg[j].call)
<1>1. lg[j] \in Entries
  <2>1. \A s \in Seq(Entries) : \A i \in 1 .. Len(s) : s[i] \in Entries
    OBVIOUS
  <2> QED
    BY <2>1 DEF LogGood
<1>2. lg[j].call \in Calls /\ lg[j].hist \in Hists
  BY <1>1 DEF Entries
<1>3. CASE lg[j].nodes = <<>>
  <2>1. DOMAIN <<>> = {}
    OBVIOUS
  <2> QED
    BY <1>2, <1>3, <2>1
<1>4. CASE lg[j].nodes = NodesOf(lg[j].call) /\ Liftable(lg[j].call)
  BY <1>2, <1>4 DEF NodesOf
<1> QED
  BY <1>3, <1>4 DEF LogGood, EntryGood

\* A node's key finds the evaluator of its call and label.
Finds(w, lg, reg, order, k, l) ==
    Merged(reg, order)[KeyBy(w, lg[k].nodes[l])] = ShapeOf(lg[k].call, l)

\* Whatever the order the registries are merged in, a node's key finds its own evaluator.
LEMMA LookupRight ==
    ASSUME NEW w, NEW lg, LogGood(lg), NEW reg, RegistryGood(w, reg, lg),
           NEW order \in Orders, NEW k \in 1 .. Len(lg), NEW l \in DOMAIN lg[k].nodes
    PROVE  Finds(w, lg, reg, order, k, l)
<1> DEFINE all == Merged(reg, order)
           e == lg[k]
           key == KeyBy(w, e.nodes[l])
<1>0. \A j \in 1 .. Len(lg) :
        /\ lg[j].call \in Calls /\ lg[j].hist \in Hists
        /\ \A m \in DOMAIN lg[j].nodes : lg[j].nodes[m] = NodeOf(lg[j].call, m)
  BY LoggedIs
<1>1. MergeGood(reg, order, all) /\ \E i \in 1 .. Len(order) : order[i] = e.hist
  BY <1>0, MergedIs, OrdersCover
<1>2. key \in DOMAIN reg[e.hist]
  BY DEF RegistryGood
<1> HIDE DEF all, key
<1>3. key \in DOMAIN all
  BY <1>1, <1>2 DEF MergeGood
<1>4. PICK h \in Hists : key \in DOMAIN reg[h] /\ all[key] = reg[h][key]
  BY <1>1, <1>3 DEF MergeGood
<1>5. key = KeyBy(w, NodeOf(e.call, l))
  BY <1>0 DEF key
<1>6. ~(w = "hash" /\ IsGuard(key))
  <2>1. w = "hash" => key = ChashOf(NodeOf(e.call, l))
    BY <1>5 DEF KeyBy
  <2> QED
    BY <2>1, ChashNoGuard
<1>7. PICK j \in 1 .. Len(lg) : \E m \in DOMAIN lg[j].nodes :
        key = KeyBy(w, lg[j].nodes[m]) /\ reg[h][key] = ShapeOf(lg[j].call, m)
  BY <1>4, <1>6 DEF RegistryGood
<1>8. PICK m \in DOMAIN lg[j].nodes :
        key = KeyBy(w, lg[j].nodes[m]) /\ reg[h][key] = ShapeOf(lg[j].call, m)
  BY <1>7
<1>9. KeyBy(w, NodeOf(lg[j].call, m)) = KeyBy(w, NodeOf(e.call, l))
  BY <1>0, <1>5, <1>8
<1>10. (lg[j].call.sample = Absent) <=> (e.call.sample = Absent)
  BY DEF LogGood, SampledAlike
<1>11. lg[j].call \in Calls /\ e.call \in Calls
  BY <1>0
<1> HIDE DEF e
<1>12. ShapeOf(lg[j].call, m) = ShapeOf(e.call, l)
  BY <1>9, <1>10, <1>11, KeyFixesShape
<1> QED
  BY <1>4, <1>8, <1>12 DEF Finds, all, key, e

-----------------------------------------------------------------------------
(* The invariant *)

\* Nodes are their calls', and both registries evaluate each as its call asks.
IInv ==
    /\ LogGood(log) /\ DOMAIN evaluators = Hists /\ DOMAIN partials = Hists
    /\ RegistryGood("hash", evaluators, log) /\ RegistryGood("plan", partials, log)

LEMMA InitIInv == Init => IInv
<1> SUFFICES ASSUME Init PROVE IInv
  OBVIOUS
<1> DEFINE nil == <<>>
<1>1. nil \in Seq(Entries) /\ 1 .. Len(nil) = {} /\ DOMAIN nil = {}
  OBVIOUS
<1>2. /\ log = nil /\ evaluators = [h \in Hists |-> nil] /\ partials = [h \in Hists |-> nil]
  BY DEF Init
<1> HIDE DEF nil
<1>3. LogGood(log)
  BY <1>1, <1>2 DEF LogGood
<1>4. RegistryGood("hash", evaluators, log) /\ RegistryGood("plan", partials, log)
  BY <1>1, <1>2 DEF RegistryGood
<1> QED
  BY <1>2, <1>3, <1>4 DEF IInv

LEMMA AcceptedIs ==
    ASSUME LogGood(log), NEW h, NEW f, Accepts(h, f)
    PROVE  Liftable(f) /\ \A k \in 1 .. Len(log) : SampledAlike(log[k].call, f)
<1>1. DOMAIN log = 1 .. Len(log)
  BY DEF LogGood
<1>2. \A k \in 1 .. Len(log) : SampledAlike(log[k].call, f)
  BY <1>1 DEF Accepts, SampledAlike
<1>3. Factors(f) # {} => \E i \in DOMAIN f.weights : IsFactor(f.weights[i])
  BY DEF Factors, ToSet
<1> QED
  BY <1>2, <1>3 DEF Accepts, Liftable

LEMMA NextIInv == ASSUME IInv, [Next]_vars PROVE IInv'
<1>1. ASSUME NEW h \in Hists, NEW f \in Calls, Fill(h, f) PROVE IInv'
  <2> DEFINE e == [hist |-> h, call |-> f, nodes |-> NodesOf(f)]
             nodes == NodesOf(f)
             evs == Over(Guards(f), Registered(evaluators[h], ShapesOf(f),
                                               [l \in DOMAIN nodes |-> ChashOf(nodes[l])]))
             parts == Registered(partials[h], ShapesOf(f),
                                 [l \in DOMAIN nodes |-> ExternalKey(nodes[l])])
  <2>1. /\ Accepts(h, f) /\ log' = Append(log, e)
        /\ evaluators' = [evaluators EXCEPT ![h] = evs]
        /\ partials' = [partials EXCEPT ![h] = parts]
    <3>1. PICK low \in {LoweringOf(f)} :
            /\ evaluators' = [evaluators EXCEPT ![h] =
                   Over(low.guards, Registered(evaluators[h], low.shapes,
                       [l \in DOMAIN low.nodes |-> ChashOf(low.nodes[l])]))]
            /\ partials' = [partials EXCEPT ![h] =
                   Registered(partials[h], low.shapes,
                       [l \in DOMAIN low.nodes |-> ExternalKey(low.nodes[l])])]
            /\ log' = Append(log, [hist |-> h, call |-> f, nodes |-> low.nodes])
      BY <1>1 DEF Fill
    <3>2. low.guards = Guards(f) /\ low.shapes = ShapesOf(f) /\ low.nodes = nodes
      BY DEF LoweringOf
    <3> QED
      BY <1>1, <3>1, <3>2 DEF Fill
  <2>2. Updates("hash", f, evaluators[h], evs) /\ Updates("plan", f, partials[h], parts)
    BY EvaluatorsUpdate, PartialsUpdate
  <2>3. e \in Entries /\ e.hist = h /\ e.call = f /\ e.nodes = NodesOf(f)
    <3>1. NodesOf(f) \in {<<>>} \cup {NodesOf(g) : g \in Calls}
      OBVIOUS
    <3> QED
      BY <3>1 DEF Entries
  <2> HIDE DEF e, evs, parts
  <2>4. Liftable(f) /\ \A k \in 1 .. Len(log) : SampledAlike(log[k].call, f)
    BY <2>1, AcceptedIs DEF IInv
  <2>5. LogGood(Append(log, e))
    <3>1. EntryGood(e)
      BY <2>3, <2>4 DEF EntryGood
    <3> QED
      BY <2>3, <2>4, <3>1, LogStep DEF IInv
  <2>6. log \in Seq(Entries)
    BY DEF IInv, LogGood
  <2>7. RegistryGood("hash", [evaluators EXCEPT ![h] = evs], Append(log, e))
    BY <2>2, <2>3, <2>6, RegistryStep DEF IInv
  <2>8. RegistryGood("plan", [partials EXCEPT ![h] = parts], Append(log, e))
    BY <2>2, <2>3, <2>6, RegistryStep DEF IInv
  <2>9. LogGood(log)' /\ RegistryGood("hash", evaluators, log)'
        /\ RegistryGood("plan", partials, log)'
    BY <2>1, <2>5, <2>7, <2>8
  <2>10. (DOMAIN evaluators)' = Hists /\ (DOMAIN partials)' = Hists
    BY <2>1 DEF IInv
  <2> QED
    BY <2>9, <2>10 DEF IInv
<1>2. ASSUME NEW h \in Hists, NEW f \in Calls, RefuseLabels(h, f) PROVE IInv'
  <2> DEFINE e == [hist |-> h, call |-> f, nodes |-> <<>>]
  <2>1. /\ Accepts(h, f) /\ log' = Append(log, e)
        /\ evaluators' = evaluators /\ partials' = partials
    BY <1>2 DEF RefuseLabels
  <2>2. e \in Entries /\ e.call = f /\ e.nodes = <<>>
    BY DEF Entries
  <2> HIDE DEF e
  <2>3. \A k \in 1 .. Len(log) : SampledAlike(log[k].call, f)
    BY <2>1, AcceptedIs DEF IInv
  <2>4. LogGood(Append(log, e))
    <3>1. EntryGood(e)
      BY <2>2 DEF EntryGood
    <3> QED
      BY <2>2, <2>3, <3>1, LogStep DEF IInv
  <2>5. log \in Seq(Entries)
    BY DEF IInv, LogGood
  <2>6. /\ RegistryGood("hash", evaluators, Append(log, e))
        /\ RegistryGood("plan", partials, Append(log, e))
    BY <2>2, <2>5, RegistryKept DEF IInv
  <2>7. LogGood(log)' /\ RegistryGood("hash", evaluators, log)'
        /\ RegistryGood("plan", partials, log)'
    BY <2>1, <2>4, <2>6
  <2> QED
    BY <2>1, <2>7 DEF IInv
<1>3. CASE UNCHANGED vars
  BY <1>3 DEF vars, IInv
<1> QED
  BY <1>1, <1>2, <1>3 DEF Next

\* The inductive invariant: the log holds typed entries, a fill's with the nodes of its
\* call, and each registry has, for every recorded node, an evaluator of its call's shape.
THEOREM Invariance == Spec => []IInv
BY InitIInv, NextIInv, PTL DEF Spec

\* A plan fills what was asked: the evaluator a node's external key finds, in the
\* partials merged in any order, takes the node's inputs off for its own label.
THEOREM PlanFills == Spec => []PlanFillsAsAsked
<1>1. ASSUME IInv PROVE PlanFillsAsAsked
  <2>1. ASSUME NEW order \in Orders, NEW k \in DOMAIN log, NEW l \in DOMAIN log[k].nodes
        PROVE  FillsAsAsked(log[k], l, Merged(partials, order), ExternalKey)
    <3> DEFINE f == log[k].call
    <3>1. LogGood(log) /\ k \in 1 .. Len(log) /\ RegistryGood("plan", partials, log)
      BY <1>1 DEF IInv, LogGood
    <3>2. /\ f \in Calls /\ log[k].nodes[l] = NodeOf(f, l)
          /\ l \in ToSet(Labels(f)) /\ Liftable(f)
      BY <3>1, LoggedIs
    <3>3. Merged(partials, order)[KeyBy("plan", log[k].nodes[l])] = ShapeOf(f, l)
      <4>1. Finds("plan", log, partials, order, k, l)
        BY <3>1, LookupRight
      <4> QED
        BY <4>1 DEF Finds
    <3> HIDE DEF f
    <3>4. FilledRight(f, l, Evaluate(ShapeOf(f, l), NodeOf(f, l).inputs))
      BY <3>2, OwnEvaluatorRight
    <3>5. KeyBy("plan", log[k].nodes[l]) = ExternalKey(log[k].nodes[l])
      BY DEF KeyBy
    <3> QED
      BY <3>2, <3>3, <3>4, <3>5 DEF FillsAsAsked, FilledRight, f
  <2> QED
    BY <2>1 DEF PlanFillsAsAsked
<1> QED
  BY <1>1, Invariance, PTL

\* So does materializing, where the content hash alone finds the evaluator.
THEOREM MaterializeFills == Spec => []MaterializeFillsAsAsked
<1>1. ASSUME IInv PROVE MaterializeFillsAsAsked
  <2>1. ASSUME NEW order \in Orders, NEW k \in DOMAIN log, NEW l \in DOMAIN log[k].nodes
        PROVE  FillsAsAsked(log[k], l, Merged(evaluators, order), ChashOf)
    <3> DEFINE f == log[k].call
    <3>1. LogGood(log) /\ k \in 1 .. Len(log) /\ RegistryGood("hash", evaluators, log)
      BY <1>1 DEF IInv, LogGood
    <3>2. /\ f \in Calls /\ log[k].nodes[l] = NodeOf(f, l)
          /\ l \in ToSet(Labels(f)) /\ Liftable(f)
      BY <3>1, LoggedIs
    <3>3. Merged(evaluators, order)[KeyBy("hash", log[k].nodes[l])] = ShapeOf(f, l)
      <4>1. Finds("hash", log, evaluators, order, k, l)
        BY <3>1, LookupRight
      <4> QED
        BY <4>1 DEF Finds
    <3> HIDE DEF f
    <3>4. FilledRight(f, l, Evaluate(ShapeOf(f, l), NodeOf(f, l).inputs))
      BY <3>2, OwnEvaluatorRight
    <3>5. KeyBy("hash", log[k].nodes[l]) = ChashOf(log[k].nodes[l])
      BY DEF KeyBy
    <3> QED
      BY <3>2, <3>3, <3>4, <3>5 DEF FillsAsAsked, FilledRight, f
  <2> QED
    BY <2>1 DEF MaterializeFillsAsAsked
<1> QED
  BY <1>1, Invariance, PTL

-----------------------------------------------------------------------------
(* What guards blame *)

\* An input is a member of the values or the sample, or one of a block of weights.
Supplied(f, i) ==
    \/ i.blame = None
    \/ \E j \in DOMAIN Applied(f) : \E m, v : i = WeightBlock(f, m, v)[j]

LEMMA MembersSupplied ==
    ASSUME NEW f, NEW xs, NEW m, NEW i \in ToSet(Members(xs, m))
    PROVE  Supplied(f, i)
BY DEF Supplied, Members, Input, ToSet

LEMMA BlockSupplied ==
    ASSUME NEW f, NEW m, NEW v, NEW i \in ToSet(WeightBlock(f, m, v))
    PROVE  Supplied(f, i)
<1>1. PICK j \in DOMAIN WeightBlock(f, m, v) : i = WeightBlock(f, m, v)[j]
  BY DEF ToSet
<1>2. DOMAIN WeightBlock(f, m, v) = DOMAIN Applied(f)
  BY DEF WeightBlock
<1> QED
  BY <1>1, <1>2 DEF Supplied

LEMMA SiblingSupplied ==
    ASSUME NEW f \in Calls, Liftable(f), NEW l, NEW i \in ToSet(SiblingInputs(f, l))
    PROVE  Supplied(f, i)
<1> DEFINE V == Members(Axes(f), l)
           W == WeightBlock(f, l, V[1].column)
           S == Members(Sampled(f), l)
           U == (ToSet(V) \cup ToSet(W)) \cup ToSet(S)
           vw == V \o W
           r == vw \o S
<1>1. V \in Seq(ToSet(V)) /\ W \in Seq(ToSet(W)) /\ S \in Seq(ToSet(S))
  <2>1. \A v : Segment(f, FactorList(f), l, WeightBlock(f, l, v)) /\ Segment(f, f.args, l, V)
    BY PartsAre
  <2> QED
    BY <2>1, SampleSegment DEF Segment
<1>2. r = SiblingInputs(f, l)
  BY DEF SiblingInputs
<1>3. \A x \in U : Supplied(f, x)
  BY MembersSupplied, BlockSupplied
<1> HIDE DEF V, W, S
<1>4. V \in Seq(U) /\ W \in Seq(U) /\ S \in Seq(U)
  <2>1. \A P, Q : P \subseteq Q => Seq(P) \subseteq Seq(Q)
    OBVIOUS
  <2> QED
    BY <1>1, <2>1
<1> HIDE DEF U
<1>5. vw \in Seq(U)
  BY <1>4
<1> HIDE DEF vw
<1>6. r \in Seq(U)
  BY <1>4, <1>5
<1> HIDE DEF r
<1>7. i \in U
  BY <1>2, <1>6 DEF ToSet
<1> QED
  BY <1>3, <1>7

LEMMA AxisSupplied ==
    ASSUME NEW f \in Calls, Liftable(f), NEW l \in ToSet(Labels(f)),
           NEW i \in ToSet(AxisInputs(f, GroupOf(f, l)))
    PROVE  Supplied(f, i)
<1> DEFINE g == GroupOf(f, l)
           V == Members(Axes(f), g[1])
           S == Members(Sampled(f), g[1])
           v == V[1].column
           bs == [k \in DOMAIN g |-> WeightBlock(f, g[k], v)]
           flat == FlattenSeq(bs)
           vs == V \o S
           r == vs \o flat
           U == (ToSet(V) \cup ToSet(S)) \cup UNION {ToSet(bs[k]) : k \in DOMAIN g}
<1>1. g \in Seq(ToSet(g))
  BY GroupIs
<1>2. r = AxisInputs(f, g)
  BY DEF AxisInputs
<1> HIDE DEF g
<1>3. Len(g) \in Nat /\ DOMAIN g = 1 .. Len(g)
  BY <1>1
<1>4. /\ V \in Seq(ToSet(V)) /\ S \in Seq(ToSet(S))
      /\ \A k \in DOMAIN g : bs[k] \in Seq(ToSet(bs[k]))
  <2>1. \A m, u : Segment(f, FactorList(f), m, WeightBlock(f, m, u))
    BY PartsAre
  <2>2. Segment(f, f.args, g[1], V)
    BY PartsAre
  <2> QED
    BY <2>1, <2>2, SampleSegment DEF Segment
<1>5. ASSUME NEW x \in U PROVE Supplied(f, x)
  <2>1. ASSUME NEW k \in DOMAIN g, x \in ToSet(bs[k]) PROVE Supplied(f, x)
    BY <2>1, BlockSupplied
  <2> QED
    BY <2>1, MembersSupplied
<1>6. bs = [k \in 1 .. Len(g) |-> bs[k]]
  BY <1>3
<1> HIDE DEF V, S, bs
<1>7. V \in Seq(U) /\ S \in Seq(U) /\ \A k \in 1 .. Len(g) : bs[k] \in Seq(U)
  <2>1. \A P, Q : P \subseteq Q => Seq(P) \subseteq Seq(Q)
    OBVIOUS
  <2> QED
    BY <1>3, <1>4, <2>1
<1> HIDE DEF U
<1>8. flat \in Seq(U)
  <2> DEFINE B == Seq(U)
  <2>1. \A k \in 1 .. Len(g) : bs[k] \in B
    BY <1>7
  <2> HIDE DEF B
  <2>2. bs \in [1 .. Len(g) -> B]
    BY <1>6, <2>1
  <2>3. bs \in Seq(B)
    BY <1>3, <2>2
  <2> QED
    BY <2>3, FlattenType DEF B
<1> HIDE DEF flat
<1>9. vs \in Seq(U)
  BY <1>7
<1> HIDE DEF vs
<1>10. r \in Seq(U)
  BY <1>8, <1>9
<1> HIDE DEF r
<1>11. i \in U
  BY <1>2, <1>10 DEF ToSet, g
<1> QED
  BY <1>5, <1>11

\* A guarded input is a factor's column under that factor's coordinate.
LEMMA GuardedIs ==
    ASSUME NEW f \in Calls, Liftable(f), NEW l \in ToSet(Labels(f)),
           NEW i \in ToSet(NodeOf(f, l).inputs), i.blame # None
    PROVE  \E j \in DOMAIN Applied(f) : \E m :
             i.column = MemberOf(Applied(f)[j], m) /\ i.blame = Blame(f)[j]
<1>1. NodeOf(f, l).inputs = IF f.axis THEN AxisInputs(f, GroupOf(f, l)) ELSE SiblingInputs(f, l)
  BY DEF NodeOf, AxisNode, SiblingNode, FillNode
<1>2. Supplied(f, i)
  <2>1. CASE f.axis
    BY <1>1, <2>1, AxisSupplied
  <2>2. CASE ~f.axis
    BY <1>1, <2>2, SiblingSupplied
  <2> QED
    BY <2>1, <2>2
<1>3. PICK j \in DOMAIN Applied(f) : \E m, v : i = WeightBlock(f, m, v)[j]
  BY <1>2 DEF Supplied
<1>4. PICK m, v : i = WeightBlock(f, m, v)[j]
  BY <1>3
<1> DEFINE c == MemberOf(Applied(f)[j], m)
<1>5. i = IF Broadcast(f) THEN [column |-> c, blame |-> Blame(f)[j], like |-> v] ELSE Input(c)
  BY <1>4 DEF WeightBlock
<1> HIDE DEF c
<1>6. i.column = c /\ i.blame = Blame(f)[j]
  BY <1>5 DEF Input
<1> QED
  BY <1>6 DEF c

\* What is blamed, factor by factor: all of them one value, or each its own weight.
LEMMA BlameIs ==
    ASSUME NEW f \in Calls, Liftable(f), NEW j \in DOMAIN Applied(f)
    PROVE  LET given == NodeFactors(Lifted(f))
           IN \/ /\ Unified(f) # 0 /\ Values(f)[1].ctx = 0 /\ Blame(f)[j] = <<"value", 0>>
              \/ /\ Blame(f)[j] = <<"ambient", 0>>
                 /\ \A m : MemberOf(Applied(f)[j], m).base = MemberOf(AmbientOf(f), m).base
                 /\ Lay(f, AmbientOf(f))
              \/ \E k \in 1 .. Len(given) :
                   /\ Blame(f)[j] = <<"weight", k - 1>>
                   /\ \A m : MemberOf(Applied(f)[j], m).base = MemberOf(given[k], m).base
<1> DEFINE ws == NodeFactors(Lifted(f))
           amb == Optional(AmbientOf(f))
           xs == amb \o ws
           n == Len(ws)
           named == [i \in DOMAIN ws |-> <<"weight", i - 1>>]
           first == IF AmbientOf(f) = Absent THEN <<>> ELSE <<<<"ambient", 0>>>>
<1>1. Lays(f, ws) /\ Lays(f, amb)
  BY ListsSlotted, SlottedArrays, OptionalIs
<1>2. /\ NodeFactors(FactorList(f)) = xs /\ Applied(f) = Moved(f, xs)
      /\ Slotted(f, FactorList(f))
  BY ListsSlotted, ReadsAre
<1>3. Lays(f, xs)
  BY <1>2, SlottedArrays
<1>4. /\ DOMAIN Applied(f) = 1 .. Len(xs)
      /\ \A i \in 1 .. Len(xs) : Lay(f, xs[i]) /\ Applied(f)[i] = ReindexTo(xs[i], Unified(f))
  BY <1>2, <1>3, MovedIs
<1>5. \A i \in 1 .. Len(xs) : \A m :
        MemberOf(Applied(f)[i], m).base = MemberOf(xs[i], m).base
  <2> TAKE i \in 1 .. Len(xs)
  <2>1. Unified(f) \in Contexts /\ Lay(f, xs[i])
    BY <1>4, UnifiedIs
  <2>2. \A m : MemberOf(ReindexTo(xs[i], Unified(f)), m) =
          [base |-> MemberOf(xs[i], m).base, at |-> Rows(xs[i], Unified(f)),
           scales |-> MemberOf(xs[i], m).scales]
    BY <2>1, Reindexed
  <2>3. ASSUME NEW m
        PROVE  MemberOf(ReindexTo(xs[i], Unified(f)), m).base = MemberOf(xs[i], m).base
    <3> DEFINE c == MemberOf(xs[i], m)
               d == MemberOf(ReindexTo(xs[i], Unified(f)), m)
    <3>1. d = [base |-> c.base, at |-> Rows(xs[i], Unified(f)), scales |-> c.scales]
      BY <2>2
    <3> HIDE DEF c, d
    <3>2. d.base = c.base
      BY <3>1
    <3> QED
      BY <3>2 DEF c, d
  <2>4. Applied(f)[i] = ReindexTo(xs[i], Unified(f))
    BY <1>4
  <2> HIDE DEF xs
  <2> QED
    BY <2>3, <2>4
<1>6. amb = <<>> \/ (amb = <<AmbientOf(f)>> /\ AmbientOf(f) # Absent)
  BY OptionalIs
<1>7. Blame(f) = IF Unified(f) # 0 /\ Values(f)[1].ctx = 0
                 THEN [i \in DOMAIN Applied(f) |-> <<"value", 0>>]
                 ELSE first \o named
  BY DEF Blame
<1>8. n \in Nat /\ DOMAIN ws = 1 .. n /\ amb \in Seq(ToSet(amb)) /\ ws \in Seq(ToSet(ws))
  BY <1>1, MovedIs DEF Lays
<1>9. /\ DOMAIN named = 1 .. n /\ Len(named) = n
      /\ \A i \in 1 .. n : named[i] = <<"weight", i - 1>>
  <2> HIDE DEF ws, n
  <2> QED
    BY <1>8
<1>10. CASE Unified(f) # 0 /\ Values(f)[1].ctx = 0
  BY <1>7, <1>10
<1>11. CASE ~(Unified(f) # 0 /\ Values(f)[1].ctx = 0) /\ AmbientOf(f) = Absent
  <2>1. amb = <<>> /\ first = <<>>
    BY <1>6, <1>11 DEF Optional
  <2>2. xs = ws
    <3> HIDE DEF ws, n
    <3> QED
      BY <1>8, <2>1
  <2>3. first \o named = named
    <3>1. named \in Seq(Nat \cup {named[i] : i \in 1 .. n})
      <4> HIDE DEF ws
      <4> QED
        BY <1>8, <1>9
    <3> HIDE DEF named
    <3> QED
      BY <2>1, <3>1
  <2>4. Blame(f)[j] = <<"weight", j - 1>> /\ j \in 1 .. n
    BY <1>4, <1>7, <1>9, <1>11, <2>2, <2>3
  <2> QED
    BY <1>4, <1>5, <2>2, <2>4
<1>12. CASE ~(Unified(f) # 0 /\ Values(f)[1].ctx = 0) /\ AmbientOf(f) # Absent
  <2> DEFINE a == AmbientOf(f)
             one == <<"ambient", 0>>
             Y == ToSet(amb) \cup ToSet(ws)
             Z == {one} \cup {named[i] : i \in 1 .. n}
             bl == first \o named
  <2>1. amb = <<a>> /\ first = <<one>>
    BY <1>6, <1>12 DEF Optional
  <2>2. amb \in Seq(Y) /\ ws \in Seq(Y)
    <3>1. \A P, Q : P \subseteq Q => Seq(P) \subseteq Seq(Q)
      OBVIOUS
    <3> HIDE DEF amb, ws
    <3> QED
      BY <1>8, <3>1
  <2>3. Lay(f, a)
    BY <1>12, AmbientIs
  <2>4. Joined(amb, ws, xs)
    <3> HIDE DEF amb, ws, Y
    <3> QED
      BY <2>2, ConcatJoins
  <2>5. first \in Seq(Z) /\ named \in Seq(Z)
    <3>1. first \in Seq(Z)
      <4> HIDE DEF named, one
      <4> QED
        BY <2>1
    <3> HIDE DEF ws, one
    <3>2. named \in Seq(Z)
      BY <1>8, <1>9
    <3> QED
      BY <3>1, <3>2
  <2>6. Joined(first, named, bl)
    <3> HIDE DEF first, named, Z
    <3> QED
      BY <2>5, ConcatJoins
  <2>7. Blame(f) = bl
    BY <1>7, <1>12
  <2>8. Len(amb) = 1 /\ amb[1] = a /\ Len(first) = 1 /\ first[1] = one
    <3> HIDE DEF a, one
    <3> QED
      BY <2>1
  <2> HIDE DEF amb, ws, xs, first, named, bl, n, one, a
  <2>9. j \in 1 .. 1 + n /\ Len(xs) = 1 + n
    BY <1>4, <2>4, <2>8 DEF Joined, n
  <2>10. CASE j = 1
    <3>1. xs[j] = a /\ bl[j] = one
      <4>1. 1 \in 1 .. 1
        OBVIOUS
      <4> QED
        BY <2>4, <2>6, <2>8, <2>10, <4>1 DEF Joined
    <3>2. \A m : MemberOf(Applied(f)[j], m).base = MemberOf(a, m).base
      BY <1>5, <2>9, <3>1
    <3> QED
      BY <2>3, <2>7, <3>1, <3>2 DEF a, one
  <2>11. CASE j # 1
    <3> DEFINE k == j - 1
    <3>1. k \in 1 .. n /\ j = 1 + k
      BY <1>8, <2>9, <2>11
    <3> HIDE DEF k
    <3>2. xs[1 + k] = ws[k] /\ bl[1 + k] = named[k]
      BY <1>9, <2>4, <2>6, <2>8, <3>1 DEF Joined, n
    <3>3. \A m : MemberOf(Applied(f)[j], m).base = MemberOf(ws[k], m).base
      BY <1>5, <2>9, <3>1, <3>2
    <3>4. Blame(f)[j] = <<"weight", k - 1>>
      BY <1>9, <2>7, <3>1, <3>2
    <3> QED
      BY <3>1, <3>3, <3>4 DEF ws, n
  <2> QED
    BY <2>10, <2>11
<1> QED
  BY <1>10, <1>11, <1>12

\* A guard blames the operand it guards.
BlamedRight(f, i) ==
    LET ws == NodeFactors(f.weights)
    IN CASE i.blame[1] = "ambient" -> GuardsFactor(i, AmbientOf(f))
         [] i.blame[1] = "value" -> Values(f)[1].ctx = 0 /\ \E x \in ToSet(Given(f)) : x.ctx > 0
         [] OTHER -> IF ws = <<>> THEN i.column.base \notin DOMAIN Depth
                                  ELSE GuardsFactor(i, ws[i.blame[2] + 1])

LEMMA BlameRight ==
    ASSUME NEW f \in Calls, Liftable(f), NEW j \in DOMAIN Applied(f), NEW m, NEW i,
           i.column = MemberOf(Applied(f)[j], m), i.blame = Blame(f)[j]
    PROVE  BlamedRight(f, i)
<1> DEFINE given == NodeFactors(Lifted(f))
           ws == NodeFactors(f.weights)
<1>1. CASE Unified(f) # 0 /\ Values(f)[1].ctx = 0 /\ Blame(f)[j] = <<"value", 0>>
  <2>1. i.blame[1] = "value" /\ i.blame[1] # "ambient"
    BY <1>1
  <2>2. PICK k \in DOMAIN Given(f) : Given(f)[k].ctx = Unified(f)
    BY <1>1, UnifiedIs
  <2>3. Given(f)[k] \in ToSet(Given(f)) /\ Given(f)[k].ctx > 0
    BY <1>1, <2>2, UnifiedIs DEF ToSet
  <2> QED
    BY <1>1, <2>1, <2>3 DEF BlamedRight
<1>2. CASE /\ Blame(f)[j] = <<"ambient", 0>> /\ Lay(f, AmbientOf(f))
           /\ \A k : MemberOf(Applied(f)[j], k).base = MemberOf(AmbientOf(f), k).base
  <2>1. i.blame[1] = "ambient"
    BY <1>2
  <2>2. i.column.base = MemberOf(AmbientOf(f), m).base
    BY <1>2
  <2>3. GuardsFactor(i, AmbientOf(f))
    BY <1>2, <2>2, MemberIs DEF GuardsFactor, Lay
  <2> QED
    BY <2>1, <2>3 DEF BlamedRight
<1>3. ASSUME NEW k \in 1 .. Len(given), Blame(f)[j] = <<"weight", k - 1>>,
             \A n : MemberOf(Applied(f)[j], n).base = MemberOf(given[k], n).base
      PROVE  BlamedRight(f, i)
  <2>1. /\ i.blame[1] = "weight" /\ i.blame[1] # "ambient" /\ i.blame[1] # "value"
        /\ i.blame[2] = k - 1
    BY <1>3
  <2>2. i.blame[2] + 1 = k
    BY <2>1
  <2>3. i.column.base = MemberOf(given[k], m).base
    BY <1>3
  <2>4. Alike(given, ws) \/ (ws = <<>> /\ OnesOnly(given))
    BY LiftedRight
  <2>5. Lays(f, ws)
    <3> DEFINE A == Arrays(ToSet(f.weights))
    <3>1. \A x \in A : Lay(f, x)
      BY CallIs, OperandLay DEF Arrays
    <3>2. ws \in Seq(A)
      BY CallIs, NodeFactorsIs
    <3> HIDE DEF A, ws
    <3>3. ws \in Seq(ToSet(ws)) /\ ToSet(ws) \subseteq A
      BY <3>2, SeqOfItself
    <3> QED
      BY <3>1, <3>3 DEF Lays
  <2> HIDE DEF given, ws
  <2>6. CASE ws = <<>>
    <3>1. Len(<<>>) = 0
      OBVIOUS
    <3>2. ~Alike(given, ws)
      BY <2>6, <3>1 DEF Alike
    <3>3. OnesOnly(given) /\ k = 1
      <4>1. OnesOnly(given) /\ Len(given) = 1
        BY <2>4, <3>2 DEF OnesOnly
      <4>2. k \in 1 .. Len(given)
        OBVIOUS
      <4> QED
        BY <4>1, <4>2
    <3>4. i.column.base \notin DOMAIN Depth
      BY <2>3, <3>3 DEF OnesOnly
    <3> QED
      BY <2>1, <2>6, <3>4 DEF BlamedRight, ws
  <2>7. CASE ws # <<>>
    <3>1. k \in 1 .. Len(ws) /\ SameBases(given[k], ws[k])
      BY <2>4, <2>7 DEF Alike
    <3>2. i.column.base = MemberOf(ws[k], m).base
      BY <2>3, <3>1 DEF SameBases
    <3>3. Lay(f, ws[k])
      BY <2>5, <3>1, MovedIs
    <3>4. GuardsFactor(i, ws[k])
      BY <3>2, <3>3, MemberIs DEF GuardsFactor, Lay
    <3> QED
      BY <2>1, <2>2, <2>7, <3>4 DEF BlamedRight, ws
  <2> QED
    BY <2>6, <2>7
<1> QED
  BY <1>1, <1>2, <1>3, BlameIs

\* A guard names the operand whose column it guards, for every call and context.
THEOREM BlameIsRight == Spec => []BlamesTheOffender
<1>1. ASSUME IInv PROVE BlamesTheOffender
  <2>1. ASSUME NEW k \in DOMAIN log, NEW l \in DOMAIN log[k].nodes, NEW i \in Guarded(k, l)
        PROVE  BlamedRight(log[k].call, i)
    <3> DEFINE f == log[k].call
    <3>1. LogGood(log) /\ k \in 1 .. Len(log)
      BY <1>1 DEF IInv, LogGood
    <3>2. /\ f \in Calls /\ log[k].nodes[l] = NodeOf(f, l)
          /\ l \in ToSet(Labels(f)) /\ Liftable(f)
      BY <3>1, LoggedIs
    <3>3. i \in ToSet(NodeOf(f, l).inputs) /\ i.blame # None
      BY <3>2 DEF Guarded
    <3> HIDE DEF f
    <3>4. PICK j \in DOMAIN Applied(f) :
            \E m : i.column = MemberOf(Applied(f)[j], m) /\ i.blame = Blame(f)[j]
      BY <3>2, <3>3, GuardedIs
    <3>5. PICK m : i.column = MemberOf(Applied(f)[j], m) /\ i.blame = Blame(f)[j]
      BY <3>4
    <3>6. BlamedRight(f, i)
      BY <3>2, <3>5, BlameRight
    <3> QED
      BY <3>6 DEF f
  <2> QED
    BY <2>1 DEF BlamesTheOffender, BlamedRight
<1> QED
  BY <1>1, Invariance, PTL
=============================================================================
