--------------------------- MODULE EvaluationProofs ---------------------------
(* Proofs about what a task evaluates: the rows of one fill (RowSpaces), for  *)
(* every call and every chunk, and the sums of a task's fills (SharedFills),  *)
(* for every number of tasks, outputs and combines and every layout.          *)
EXTENDS RowSpaces, SharedFills, SetInduction, FiniteSetTheorems, SequenceTheorems, TLAPS

-----------------------------------------------------------------------------
(* The entries of a column, row by row *)

Entries == Tags \cup {Missing}

LEMMA TagRows == Seq(Tags) \subseteq Seq(Entries) /\ Seq(Seq(Tags)) \subseteq Seq(Seq(Entries))
<1> DEFINE A == Seq(Tags)
           B == Seq(Entries)
<1>1. A \subseteq B
  <2> DEFINE S == Tags
             T == Entries
  <2>1. S \subseteq T
    BY DEF Entries
  <2> HIDE DEF S, T
  <2>2. \A s \in Seq(S) : s \in Seq(T)
    BY <2>1
  <2> QED
    BY <2>2 DEF S, T
<1> HIDE DEF A, B
<1>2. \A s \in Seq(A) : s \in Seq(B)
  BY <1>1
<1> QED
  BY <1>1, <1>2 DEF A, B

ThereOp(p, s, t) == IF t = Missing THEN s ELSE Append(s, t)
Theres == INSTANCE SetInduction WITH Op <- ThereOp

LEMMA ThereIsFold ==
    ASSUME NEW row
    PROVE  There(row) = Theres!Folded(0, <<>>, row)
BY DEF There, ThereOp, FoldLeft, MapThenFoldSet, Max,
       Theres!Folded, Theres!FoldLeft, Theres!MapThenFoldSet, Theres!Max

LEMMA ThereNil == There(<<>>) = <<>>
BY ThereIsFold, Theres!FoldNil

LEMMA ThereAppend ==
    ASSUME NEW row \in Seq(Entries), NEW t \in Entries
    PROVE  There(Append(row, t)) = IF t = Missing THEN There(row) ELSE Append(There(row), t)
<1>1. Theres!Folded(0, <<>>, Append(row, t)) = ThereOp(0, Theres!Folded(0, <<>>, row), t)
  BY Theres!FoldAppend
<1> QED
  BY <1>1, ThereIsFold DEF ThereOp

\* What is there are tags.
LEMMA ThereType == ASSUME NEW row \in Seq(Entries) PROVE There(row) \in Seq(Tags)
<1> DEFINE T == {r \in Seq(Entries) : There(r) \in Seq(Tags)}
<1>1. <<>> \in T
  <2>1. <<>> \in Seq(Entries) /\ <<>> \in Seq(Tags)
    OBVIOUS
  <2> QED
    BY <2>1, ThereNil
<1>2. ASSUME NEW r \in Seq(Entries), NEW t \in Entries, r \in T PROVE Append(r, t) \in T
  <2>1. There(r) \in Seq(Tags) /\ (t # Missing => t \in Tags)
    BY <1>2 DEF Entries
  <2>2. t # Missing => Append(There(r), t) \in Seq(Tags)
    BY <2>1
  <2>3. Append(r, t) \in Seq(Entries)
    OBVIOUS
  <2> QED
    BY <2>1, <2>2, <2>3, ThereAppend
<1>3. Seq(Entries) \subseteq T
  <2> HIDE DEF T
  <2> QED
    BY <1>1, <1>2, SeqInduction
<1> QED
  BY <1>3

\* Where nothing is missing, all are there.
LEMMA ThereWhole ==
    ASSUME NEW row \in Seq(Tags)
    PROVE  There(row) = row
<1> DEFINE T == {r \in Seq(Tags) : There(r) = r}
<1>1. <<>> \in T
  BY ThereNil
<1>2. ASSUME NEW r \in Seq(Tags), NEW t \in Tags, r \in T PROVE Append(r, t) \in T
  <2>1. r \in Seq(Entries) /\ t \in Entries /\ t # Missing
    BY MissingAssumption DEF Entries
  <2>2. There(Append(r, t)) = Append(There(r), t)
    BY <2>1, ThereAppend
  <2> QED
    BY <1>2, <2>2
<1>3. Seq(Tags) \subseteq T
  <2> HIDE DEF T
  <2> QED
    BY <1>1, <1>2, SeqInduction
<1> QED
  BY <1>3

RowOp(p, s, row) == s \o There(row)
Rows == INSTANCE SetInduction WITH Op <- RowOp

\* The entries of nested rows.
Cat(rows) == FoldLeft(LAMBDA s, row : s \o There(row), <<>>, rows)

LEMMA FlatIs ==
    ASSUME NEW col
    PROVE  Flat(col) = IF col.deep THEN Cat(col.rows) ELSE There(col.rows)
BY DEF Flat, Cat

LEMMA CatIsFold ==
    ASSUME NEW rows
    PROVE  Cat(rows) = Rows!Folded(0, <<>>, rows)
BY DEF Cat, RowOp, FoldLeft, MapThenFoldSet, Max,
       Rows!Folded, Rows!FoldLeft, Rows!MapThenFoldSet, Rows!Max

LEMMA CatNil == Cat(<<>>) = <<>>
BY CatIsFold, Rows!FoldNil

LEMMA CatAppend ==
    ASSUME NEW rows \in Seq(Seq(Entries)), NEW row \in Seq(Entries)
    PROVE  Cat(Append(rows, row)) = Cat(rows) \o There(row)
<1>1. Rows!Folded(0, <<>>, Append(rows, row)) = RowOp(0, Rows!Folded(0, <<>>, rows), row)
  BY Rows!FoldAppend
<1> QED
  BY <1>1, CatIsFold DEF RowOp

LEMMA CatType == ASSUME NEW rows \in Seq(Seq(Entries)) PROVE Cat(rows) \in Seq(Tags)
<1> DEFINE T == {r \in Seq(Seq(Entries)) : Cat(r) \in Seq(Tags)}
<1>1. <<>> \in T
  <2>1. <<>> \in Seq(Seq(Entries)) /\ <<>> \in Seq(Tags)
    OBVIOUS
  <2> QED
    BY <2>1, CatNil
<1>2. ASSUME NEW r \in Seq(Seq(Entries)), NEW t \in Seq(Entries), r \in T
      PROVE  Append(r, t) \in T
  <2>1. Cat(Append(r, t)) = Cat(r) \o There(t)
    BY CatAppend
  <2>2. Cat(r) \in Seq(Tags) /\ There(t) \in Seq(Tags)
    BY <1>2, ThereType
  <2>3. Cat(r) \o There(t) \in Seq(Tags)
    BY <2>2
  <2>4. Append(r, t) \in Seq(Seq(Entries))
    OBVIOUS
  <2> QED
    BY <2>1, <2>3, <2>4
<1>3. Seq(Seq(Entries)) \subseteq T
  <2> HIDE DEF T
  <2> QED
    BY <1>1, <1>2, SeqInduction
<1> QED
  BY <1>3

-----------------------------------------------------------------------------
(* Columns entry against entry *)

\* Where s has an entry t has one, and the two are a pair of W.
Paired(W, s, t) ==
    /\ Len(s) = Len(t)
    /\ \A j \in 1 .. Len(s) : s[j] # Missing => t[j] # Missing /\ <<s[j], t[j]>> \in W

\* u has no more than v, and with as many each is a pair of W.
Lined(W, u, v) ==
    /\ Len(u) <= Len(v)
    /\ Len(u) = Len(v) => \A k \in 1 .. Len(u) : <<u[k], v[k]>> \in W

LEMMA Unsnoc ==
    ASSUME NEW S, NEW q \in Seq(S), NEW n \in Nat, Len(q) = n + 1
    PROVE  /\ SubSeq(q, 1, n) \in Seq(S) /\ Len(SubSeq(q, 1, n)) = n /\ q[n + 1] \in S
           /\ q = Append(SubSeq(q, 1, n), q[n + 1])
           /\ \A k \in 1 .. n : SubSeq(q, 1, n)[k] = q[k]
<1>1. SubSeq(q, 1, n) \in Seq(S) /\ Len(SubSeq(q, 1, n)) = n /\ q[n + 1] \in S
  OBVIOUS
<1>2. \A k \in 1 .. n : SubSeq(q, 1, n)[k] = q[k]
  OBVIOUS
<1> DEFINE r == Append(SubSeq(q, 1, n), q[n + 1])
<1>3. r \in Seq(S) /\ Len(r) = n + 1 /\ \A k \in 1 .. n + 1 : r[k] = q[k]
  BY <1>1, <1>2
<1>4. r = q
  <2> HIDE DEF r
  <2> QED
    BY <1>3
<1> QED
  BY <1>1, <1>2, <1>4

LEMMA LinedConcat ==
    ASSUME NEW W, NEW u \in Seq(Tags), NEW v \in Seq(Tags), NEW a \in Seq(Tags),
           NEW b \in Seq(Tags), Lined(W, u, v), Lined(W, a, b)
    PROVE  Lined(W, u \o a, v \o b)
<1> DEFINE S == Tags
<1> HIDE DEF S
<1>1. u \in Seq(S) /\ v \in Seq(S) /\ a \in Seq(S) /\ b \in Seq(S)
  BY DEF S
<1>2. /\ Len(u \o a) = Len(u) + Len(a) /\ Len(v \o b) = Len(v) + Len(b)
      /\ Len(u) \in Nat /\ Len(a) \in Nat /\ Len(v) \in Nat /\ Len(b) \in Nat
  BY <1>1
<1>3. Len(u) <= Len(v) /\ Len(a) <= Len(b)
  BY DEF Lined
<1>4. ASSUME Len(u \o a) = Len(v \o b), NEW k \in 1 .. Len(u \o a)
      PROVE  <<(u \o a)[k], (v \o b)[k]>> \in W
  <2>1. Len(u) = Len(v) /\ Len(a) = Len(b)
    BY <1>2, <1>3, <1>4
  <2>2. CASE k <= Len(u)
    <3>1. k \in 1 .. Len(u) /\ (u \o a)[k] = u[k] /\ (v \o b)[k] = v[k]
      BY <1>1, <1>2, <1>4, <2>1, <2>2
    <3> QED
      BY <2>1, <3>1 DEF Lined
  <2>3. CASE k > Len(u)
    <3>1. /\ k - Len(u) \in 1 .. Len(a) /\ (u \o a)[k] = a[k - Len(u)]
          /\ (v \o b)[k] = b[k - Len(u)]
      BY <1>1, <1>2, <1>4, <2>1, <2>3
    <3> QED
      BY <2>1, <3>1 DEF Lined
  <2>4. k <= Len(u) \/ k > Len(u)
    BY <1>2, <1>4
  <2> QED
    BY <2>2, <2>3, <2>4
<1> QED
  BY <1>2, <1>3, <1>4 DEF Lined

LEMMA OneLined ==
    ASSUME NEW W, NEW c \in Tags, NEW d \in Tags, <<c, d>> \in W
    PROVE  /\ <<c>> \in Seq(Tags) /\ <<d>> \in Seq(Tags) /\ Lined(W, <<c>>, <<d>>)
           /\ \A u \in Seq(Tags) : Append(u, c) = u \o <<c>> /\ Append(u, d) = u \o <<d>>
<1> DEFINE S == Tags
<1>1. c \in S /\ d \in S
  OBVIOUS
<1> HIDE DEF S
<1>2. <<c>> \in Seq(S) /\ <<d>> \in Seq(S)
  BY <1>1
<1>4. ASSUME NEW u \in Seq(S), NEW x \in S PROVE Append(u, x) = u \o <<x>>
  BY AppendIsConcat
<1>3. Lined(W, <<c>>, <<d>>)
  BY DEF Lined
<1> QED
  BY <1>1, <1>2, <1>3, <1>4 DEF S

LEMMA ThereLined ==
    ASSUME NEW W, NEW s \in Seq(Entries), NEW t \in Seq(Entries), Paired(W, s, t)
    PROVE  Lined(W, There(s), There(t))
<1> DEFINE E == Seq(Entries)
           T == {r \in E : \A q \in E : Paired(W, r, q) => Lined(W, There(r), There(q))}
<1>1. <<>> \in T
  <2>1. ASSUME NEW q \in E, Paired(W, <<>>, q) PROVE Lined(W, There(<<>>), There(q))
    <3>1. q = <<>>
      BY <2>1 DEF Paired
    <3> QED
      BY <3>1, ThereNil DEF Lined
  <2>2. <<>> \in E
    OBVIOUS
  <2> QED
    BY <2>1, <2>2
<1>2. ASSUME NEW r \in E, NEW c \in Entries, r \in T PROVE Append(r, c) \in T
  <2>1. ASSUME NEW q \in E, Paired(W, Append(r, c), q)
        PROVE  Lined(W, There(Append(r, c)), There(q))
    <3> DEFINE n == Len(r)
               p == SubSeq(q, 1, n)
               d == q[n + 1]
    <3>0. n \in Nat /\ Len(q) = n + 1 /\ Len(Append(r, c)) = n + 1
      BY <2>1 DEF Paired
    <3>1. p \in Seq(Entries) /\ Len(p) = n /\ d \in Entries /\ q = Append(p, d)
      BY <3>0, Unsnoc
    <3>2. \A k \in 1 .. n : p[k] = q[k] /\ Append(r, c)[k] = r[k]
      BY <3>0, Unsnoc
    <3>3. Append(r, c)[n + 1] = c
      OBVIOUS
    <3> HIDE DEF p, d, n
    <3>4. c # Missing => d # Missing /\ <<c, d>> \in W
      BY <2>1, <3>0, <3>3 DEF Paired, d
    <3>5. Paired(W, r, p)
      BY <2>1, <3>0, <3>1, <3>2 DEF Paired, n
    <3>6. Lined(W, There(r), There(p))
      BY <1>2, <3>1, <3>5
    <3>7. /\ There(Append(r, c)) = IF c = Missing THEN There(r) ELSE Append(There(r), c)
          /\ There(q) = IF d = Missing THEN There(p) ELSE Append(There(p), d)
      BY <3>1, ThereAppend
    <3>8. There(r) \in Seq(Tags) /\ There(p) \in Seq(Tags)
      BY <3>1, ThereType
    <3>9. CASE c # Missing
      <4>1. c \in Tags /\ d \in Tags /\ <<c, d>> \in W
        BY <3>1, <3>4, <3>9 DEF Entries
      <4>2. /\ <<c>> \in Seq(Tags) /\ <<d>> \in Seq(Tags) /\ Lined(W, <<c>>, <<d>>)
            /\ Append(There(r), c) = There(r) \o <<c>>
            /\ Append(There(p), d) = There(p) \o <<d>>
        BY <3>8, <4>1, OneLined
      <4> QED
        BY <3>4, <3>6, <3>7, <3>8, <3>9, <4>2, LinedConcat
    <3>10. CASE c = Missing /\ d # Missing
      <4>1. /\ Len(Append(There(p), d)) = Len(There(p)) + 1 /\ Len(There(p)) \in Nat
            /\ Len(There(r)) \in Nat /\ Len(There(r)) <= Len(There(p))
        BY <3>6, <3>8 DEF Lined
      <4> QED
        BY <3>7, <3>10, <4>1 DEF Lined
    <3>11. CASE c = Missing /\ d = Missing
      BY <3>6, <3>7, <3>11
    <3> QED
      BY <3>9, <3>10, <3>11
  <2>2. Append(r, c) \in E
    OBVIOUS
  <2> QED
    BY <2>1, <2>2
<1>3. Seq(Entries) \subseteq T
  <2> HIDE DEF T
  <2> QED
    BY <1>1, <1>2, SeqInduction
<1> QED
  BY <1>3

\* So of nested rows, row by row.
LEMMA CatLined ==
    ASSUME NEW W, NEW s \in Seq(Seq(Entries)), NEW t \in Seq(Seq(Entries)), Len(s) = Len(t),
           \A e \in 1 .. Len(s) : Paired(W, s[e], t[e])
    PROVE  Lined(W, Cat(s), Cat(t))
<1> DEFINE R == Seq(Entries)
           Rowed(r, q) == Len(r) = Len(q) /\ \A e \in 1 .. Len(r) : Paired(W, r[e], q[e])
           T == {r \in Seq(R) : \A q \in Seq(R) : Rowed(r, q) => Lined(W, Cat(r), Cat(q))}
<1>1. <<>> \in T
  <2>1. ASSUME NEW q \in Seq(R), Rowed(<<>>, q) PROVE Lined(W, Cat(<<>>), Cat(q))
    <3>1. q = <<>>
      BY <2>1
    <3> QED
      BY <3>1, CatNil DEF Lined
  <2>2. <<>> \in Seq(R)
    OBVIOUS
  <2> QED
    BY <2>1, <2>2
<1>2. ASSUME NEW r \in Seq(R), NEW c \in R, r \in T PROVE Append(r, c) \in T
  <2>1. ASSUME NEW q \in Seq(R), Rowed(Append(r, c), q)
        PROVE  Lined(W, Cat(Append(r, c)), Cat(q))
    <3> DEFINE n == Len(r)
               p == SubSeq(q, 1, n)
               d == q[n + 1]
               a == Append(r, c)
    <3>0. n \in Nat /\ Len(q) = n + 1 /\ Len(a) = n + 1
      BY <2>1
    <3>1. p \in Seq(R) /\ Len(p) = n /\ d \in R /\ q = Append(p, d)
      <4> HIDE DEF R
      <4> QED
        BY <3>0, Unsnoc
    <3>2. \A k \in 1 .. n : p[k] = q[k] /\ a[k] = r[k]
      <4> HIDE DEF R
      <4> QED
        BY <3>0, Unsnoc
    <3>3. a[n + 1] = c
      OBVIOUS
    <3>4. Len(a) = Len(q) /\ \A e \in 1 .. Len(a) : Paired(W, a[e], q[e])
      BY <2>1
    <3> HIDE DEF p, a, n
    <3>5. Paired(W, c, d)
      BY <3>0, <3>3, <3>4
    <3> HIDE DEF d
    <3>6. Rowed(r, p)
      BY <3>0, <3>1, <3>2, <3>4 DEF n
    <3>7. Lined(W, Cat(r), Cat(p))
      BY <1>2, <3>1, <3>6
    <3>8. Cat(a) = Cat(r) \o There(c) /\ Cat(q) = Cat(p) \o There(d)
      BY <3>1, CatAppend DEF a
    <3>9. Lined(W, There(c), There(d))
      BY <3>1, <3>5, ThereLined
    <3>10. /\ Cat(r) \in Seq(Tags) /\ Cat(p) \in Seq(Tags)
           /\ There(c) \in Seq(Tags) /\ There(d) \in Seq(Tags)
      BY <3>1, CatType, ThereType
    <3> QED
      BY <3>7, <3>8, <3>9, <3>10, LinedConcat DEF a
  <2>2. Append(r, c) \in Seq(R)
    OBVIOUS
  <2> QED
    BY <2>1, <2>2
<1>3. Seq(R) \subseteq T
  <2> HIDE DEF T, R
  <2> QED
    BY <1>1, <1>2, SeqInduction
<1> QED
  BY <1>3

\* Rows alike in length, nothing missing, have as many entries.
LEMMA CatsAlike ==
    ASSUME NEW s \in Seq(Seq(Tags)), NEW t \in Seq(Seq(Tags)), Len(s) = Len(t),
           \A e \in 1 .. Len(s) : Len(s[e]) = Len(t[e])
    PROVE  Len(Cat(s)) = Len(Cat(t))
<1> DEFINE W == Tags \X Tags
<1>1. s \in Seq(Seq(Entries)) /\ t \in Seq(Seq(Entries))
  BY TagRows
<1>2. \A e \in 1 .. Len(s) : s[e] \in Seq(Tags) /\ t[e] \in Seq(Tags)
  OBVIOUS
<1>3. \A e \in 1 .. Len(s) : Paired(W, s[e], t[e]) /\ Paired(W, t[e], s[e])
  <2> SUFFICES ASSUME NEW e \in 1 .. Len(s)
               PROVE  Paired(W, s[e], t[e]) /\ Paired(W, t[e], s[e])
    OBVIOUS
  <2>1. Len(s[e]) = Len(t[e])
    OBVIOUS
  <2>2. ASSUME NEW j \in 1 .. Len(s[e]) PROVE s[e][j] \in Tags /\ t[e][j] \in Tags
    BY <1>2, <2>1
  <2> QED
    BY <2>1, <2>2, MissingAssumption DEF Paired
<1> HIDE DEF W
<1>4. Lined(W, Cat(s), Cat(t)) /\ Lined(W, Cat(t), Cat(s))
  BY <1>1, <1>3, CatLined
<1>5. Len(Cat(s)) \in Nat /\ Len(Cat(t)) \in Nat
  <2>1. Cat(s) \in Seq(Tags) /\ Cat(t) \in Seq(Tags)
    BY <1>1, CatType
  <2> QED
    BY <2>1
<1> QED
  BY <1>4, <1>5 DEF Lined

-----------------------------------------------------------------------------
(* A flat column cut at the counts of nested rows *)

SumOp(p, n, k) == n + Len(p[k])
Sums == INSTANCE SetInduction WITH Op <- SumOp

FirstRows(n) == [k \in 1 .. n |-> k]

LEMMA BeforeIsFold ==
    ASSUME NEW rows, NEW e
    PROVE  Before(rows, e) = Sums!Folded(rows, 0, FirstRows(e - 1))
BY DEF Before, SumOp, FirstRows, FoldLeft, MapThenFoldSet, Max,
       Sums!Folded, Sums!FoldLeft, Sums!MapThenFoldSet, Sums!Max

LEMMA BeforeNone == ASSUME NEW rows PROVE Before(rows, 1) = 0
<1>1. FirstRows(1 - 1) = <<>>
  BY DEF FirstRows
<1> QED
  BY <1>1, BeforeIsFold, Sums!FoldNil

LEMMA BeforeStep ==
    ASSUME NEW rows, NEW e \in Nat \ {0}
    PROVE  Before(rows, e + 1) = Before(rows, e) + Len(rows[e])
<1> DEFINE u == FirstRows(e - 1)
<1>2. u \in Seq(Nat) /\ FirstRows(e) = Append(u, e)
  BY DEF FirstRows
<1> HIDE DEF u
<1>3. Sums!Folded(rows, 0, Append(u, e)) = SumOp(rows, Sums!Folded(rows, 0, u), e)
  BY <1>2, Sums!FoldAppend
<1>4. e + 1 - 1 = e
  OBVIOUS
<1>5. Before(rows, e + 1) = SumOp(rows, Before(rows, e), e)
  <2>1. Before(rows, e + 1) = Sums!Folded(rows, 0, FirstRows(e + 1 - 1))
    BY BeforeIsFold
  <2>2. Before(rows, e) = Sums!Folded(rows, 0, u)
    BY BeforeIsFold DEF u
  <2> QED
    BY <1>2, <1>3, <1>4, <2>1, <2>2
<1> QED
  BY <1>5 DEF SumOp

LEMMA BeforeType ==
    ASSUME NEW S, NEW rows \in Seq(Seq(S)), NEW e \in 1 .. Len(rows) + 1
    PROVE  Before(rows, e) \in Nat
<1> DEFINE L == {n \in Nat : n <= Len(rows) => Before(rows, n + 1) \in Nat}
<1>1. 0 \in L
  BY BeforeNone
<1>2. ASSUME NEW n \in L PROVE n + 1 \in L
  <2> SUFFICES ASSUME n + 1 <= Len(rows) PROVE Before(rows, n + 2) \in Nat
    OBVIOUS
  <2>1. Before(rows, n + 1) \in Nat /\ rows[n + 1] \in Seq(S)
    OBVIOUS
  <2>2. Len(rows[n + 1]) \in Nat
    BY <2>1
  <2>3. n + 1 \in Nat \ {0} /\ n + 1 + 1 = n + 2
    OBVIOUS
  <2>4. Before(rows, n + 2) = Before(rows, n + 1) + Len(rows[n + 1])
    BY <2>3, BeforeStep
  <2> QED
    BY <2>1, <2>2, <2>4
<1>3. Nat \subseteq L
  <2> HIDE DEF L
  <2> QED
    BY <1>1, <1>2, NatSetInduction
<1>4. e - 1 \in Nat /\ e - 1 <= Len(rows) /\ (e - 1) + 1 = e
  OBVIOUS
<1>5. e - 1 \in L
  BY <1>3, <1>4
<1> QED
  BY <1>4, <1>5

LEMMA BeforeGrows ==
    ASSUME NEW S, NEW rows \in Seq(Seq(S)), NEW e \in 1 .. Len(rows) + 1
    PROVE  Before(rows, e) <= Before(rows, Len(rows) + 1)
<1> DEFINE L == {n \in Nat : e + n <= Len(rows) + 1 => Before(rows, e) <= Before(rows, e + n)}
<1>1. 0 \in L
  BY BeforeType
<1>2. ASSUME NEW n \in L PROVE n + 1 \in L
  <2> SUFFICES ASSUME e + n + 1 <= Len(rows) + 1
               PROVE  Before(rows, e) <= Before(rows, e + n + 1)
    OBVIOUS
  <2>1. e + n \in 1 .. Len(rows) /\ e + n \in Nat \ {0} /\ Before(rows, e) <= Before(rows, e + n)
    OBVIOUS
  <2>2. rows[e + n] \in Seq(S)
    BY <2>1
  <2>3. Len(rows[e + n]) \in Nat
    BY <2>2
  <2>4. Before(rows, e + n + 1) = Before(rows, e + n) + Len(rows[e + n])
    BY <2>1, BeforeStep
  <2>5. Before(rows, e) \in Nat /\ Before(rows, e + n) \in Nat
    BY <2>1, BeforeType
  <2> QED
    BY <2>1, <2>3, <2>4, <2>5
<1>3. Nat \subseteq L
  <2> HIDE DEF L
  <2> QED
    BY <1>1, <1>2, NatSetInduction
<1>4. /\ Len(rows) + 1 - e \in Nat /\ e + (Len(rows) + 1 - e) = Len(rows) + 1
      /\ Len(rows) \in Nat
  OBVIOUS
<1>5. Len(rows) + 1 - e \in L
  BY <1>3, <1>4
<1> QED
  BY <1>4, <1>5

\* Nothing missing, nested rows have as many entries as their counts add up to.
LEMMA CatLength ==
    ASSUME NEW rows \in Seq(Seq(Tags))
    PROVE  Len(Cat(rows)) = Before(rows, Len(rows) + 1)
<1> DEFINE p(n) == SubSeq(rows, 1, n)
           L == {n \in Nat : n <= Len(rows) => Len(Cat(p(n))) = Before(rows, n + 1)}
<1>1. 0 \in L
  <2>1. p(0) = <<>>
    OBVIOUS
  <2>2. Len(Cat(p(0))) = 0
    <3> HIDE DEF p
    <3> QED
      BY <2>1, CatNil
  <2>3. 0 + 1 = 1 /\ Before(rows, 1) = 0
    BY BeforeNone
  <2> QED
    BY <2>2, <2>3
<1>2. ASSUME NEW n \in L PROVE n + 1 \in L
  <2> SUFFICES ASSUME n + 1 <= Len(rows) PROVE Len(Cat(p(n + 1))) = Before(rows, n + 2)
    OBVIOUS
  <2>0. n \in Nat /\ Len(Cat(p(n))) = Before(rows, n + 1)
    OBVIOUS
  <2> DEFINE S == Seq(Tags)
             q == p(n + 1)
  <2>1. q \in Seq(S) /\ Len(q) = n + 1 /\ q[n + 1] = rows[n + 1]
    BY <2>0
  <2>2. SubSeq(q, 1, n) = p(n)
    BY <2>0, <2>1
  <2>3. q = Append(p(n), rows[n + 1]) /\ p(n) \in Seq(S) /\ rows[n + 1] \in S
    <3>1. q = Append(SubSeq(q, 1, n), q[n + 1]) /\ SubSeq(q, 1, n) \in Seq(S) /\ q[n + 1] \in S
      <4> HIDE DEF q, S
      <4> QED
        BY <2>0, <2>1, Unsnoc
    <3> HIDE DEF q, S, p
    <3> QED
      BY <2>1, <2>2, <3>1
  <2> HIDE DEF q, p, L
  <2>4. p(n) \in Seq(Seq(Entries)) /\ rows[n + 1] \in Seq(Entries)
    BY <2>3, TagRows
  <2>5. Cat(q) = Cat(p(n)) \o There(rows[n + 1])
    BY <2>3, <2>4, CatAppend
  <2>6. There(rows[n + 1]) = rows[n + 1]
    BY <2>3, ThereWhole
  <2>7. Cat(p(n)) \in Seq(Tags) /\ rows[n + 1] \in Seq(Tags)
    BY <2>3, <2>4, CatType
  <2>8. Len(Cat(q)) = Len(Cat(p(n))) + Len(rows[n + 1])
    BY <2>5, <2>6, <2>7
  <2>9. n + 1 \in Nat \ {0} /\ n + 1 + 1 = n + 2
    BY <2>0
  <2>10. Before(rows, n + 2) = Before(rows, n + 1) + Len(rows[n + 1])
    BY <2>9, BeforeStep
  <2> QED
    BY <2>0, <2>8, <2>10 DEF q
<1>3. Nat \subseteq L
  <2> HIDE DEF L
  <2> QED
    BY <1>1, <1>2, NatSetInduction
<1>4. Len(rows) \in Nat /\ p(Len(rows)) = rows
  OBVIOUS
<1>5. Len(rows) \in L
  BY <1>3, <1>4
<1>6. Len(Cat(p(Len(rows)))) = Before(rows, Len(rows) + 1)
  BY <1>4, <1>5
<1> QED
  BY <1>4, <1>6

\* A flat factor with as many entries takes the value's counts.
LEMMA RenestIs ==
    ASSUME NEW value, value.deep, value.rows \in Seq(Seq(Tags)),
           NEW col, col.rows \in Seq(Tags), Len(col.rows) = Len(Cat(value.rows))
    PROVE  LET w == Renest(value, col)
           IN /\ w = [deep |-> TRUE, rows |-> w.rows]
              /\ w.rows \in Seq(Seq(Tags)) /\ Len(w.rows) = Len(value.rows)
              /\ \A e \in 1 .. Len(w.rows) : Len(w.rows[e]) = Len(value.rows[e])
<1> DEFINE rows == value.rows
           n == Len(rows)
           cut(e) == SubSeq(col.rows, Before(rows, e) + 1, Before(rows, e + 1))
           w == Renest(value, col)
<1>1. n \in Nat /\ DOMAIN rows = 1 .. n
  OBVIOUS
<1>2. w = [deep |-> TRUE, rows |-> [e \in 1 .. n |-> cut(e)]]
  BY <1>1 DEF Renest
<1>3. ASSUME NEW e \in 1 .. n PROVE cut(e) \in Seq(Tags) /\ Len(cut(e)) = Len(rows[e])
  <2> DEFINE a == Before(rows, e)
             b == Before(rows, e + 1)
             S == Tags
  <2>1. e \in Nat \ {0} /\ e \in 1 .. n + 1 /\ e + 1 \in 1 .. n + 1
    BY <1>1
  <2>2. b = a + Len(rows[e]) /\ a \in Nat /\ b \in Nat /\ b <= Before(rows, n + 1)
    BY <2>1, BeforeStep, BeforeType, BeforeGrows
  <2>3. b <= Len(col.rows)
    BY <2>2, CatLength
  <2>4. Len(rows[e]) \in Nat
    <3>1. rows[e] \in Seq(Tags)
      OBVIOUS
    <3> QED
      BY <3>1
  <2> HIDE DEF a, b, S, rows
  <2>5. col.rows \in Seq(S)
    BY DEF S
  <2>6. SubSeq(col.rows, a + 1, b) \in Seq(S) /\ Len(SubSeq(col.rows, a + 1, b)) = b - a
    BY <2>2, <2>3, <2>4, <2>5
  <2> QED
    BY <2>2, <2>4, <2>6 DEF a, b, S
<1> HIDE DEF w, cut, rows
<1>4. w.rows = [e \in 1 .. n |-> cut(e)]
  BY <1>2
<1> DEFINE S == Seq(Tags)
<1>5. \A e \in 1 .. n : cut(e) \in S
  BY <1>3
<1> HIDE DEF S
<1>6. w.rows \in Seq(S) /\ Len(w.rows) = n
  BY <1>1, <1>4, <1>5
<1>7. \A e \in 1 .. n : Len(w.rows[e]) = Len(rows[e])
  BY <1>3, <1>4
<1> QED
  BY <1>1, <1>2, <1>4, <1>6, <1>7 DEF w, S, rows

-----------------------------------------------------------------------------
(* Columns of a chunk *)

Shallow(col) == col = [deep |-> FALSE, rows |-> col.rows] /\ col.rows \in Seq(Tags)
Deep(col) == col = [deep |-> TRUE, rows |-> col.rows] /\ col.rows \in Seq(Seq(Entries))
Whole(col) == Deep(col) /\ col.rows \in Seq(Seq(Tags))

LEMMA ColumnsDiffer ==
    ASSUME NEW d, NEW r
    PROVE  [deep |-> d, rows |-> r] \notin {Blamed, Raised}
<1> DEFINE col == [deep |-> d, rows |-> r]
<1>1. "deep" \in DOMAIN col /\ "deep" \notin DOMAIN Blamed /\ "deep" \notin DOMAIN Raised
  BY DEF Blamed, Raised
<1> HIDE DEF col
<1>2. col \notin {Blamed, Raised}
  BY <1>1
<1> QED
  BY <1>2 DEF col

LEMMA BlamedRaised == Blamed # Raised
BY DEF Blamed, Raised

\* No column's rows are NoRows.
LEMMA HasRows ==
    ASSUME NEW col, Shallow(col) \/ Deep(col)
    PROVE  col.rows # NoRows /\ col \notin {Blamed, Raised}
<1>1. col.rows # NoRows
  BY NoRowsAssumption, TagRows DEF Shallow, Deep, Entries
<1>2. col \notin {Blamed, Raised}
  BY ColumnsDiffer DEF Shallow, Deep
<1> QED
  BY <1>1, <1>2

LEMMA ChunkIs ==
    ASSUME NEW ck \in Chunks
    PROVE  /\ Len(ck) \in Nat /\ DOMAIN ck = 1 .. Len(ck)
           /\ \A e \in 1 .. Len(ck) : ck[e].own \in Nat /\ ck[e].gone \in BOOLEAN
<1> DEFINE R == [own : Nat, other : Nat, gone : BOOLEAN]
<1>1. ck \in Seq(R)
  BY ChunksAssumption
<1>2. \A e \in 1 .. Len(ck) : ck[e] \in R
  <2> HIDE DEF R
  <2> QED
    BY <1>1
<1>3. Len(ck) \in Nat /\ DOMAIN ck = 1 .. Len(ck)
  <2> HIDE DEF R
  <2> QED
    BY <1>1
<1> QED
  BY <1>1, <1>2, <1>3

Own(ck) == Nested(ck, "object", [e \in DOMAIN ck |-> ck[e].own])

LEMMA OwnIs ==
    ASSUME NEW ck \in Chunks
    PROVE  /\ Whole(Own(ck)) /\ Len(Own(ck).rows) = Len(ck)
           /\ \A e \in 1 .. Len(ck) :
                /\ Len(Own(ck).rows[e]) = ck[e].own
                /\ \A j \in 1 .. ck[e].own : Own(ck).rows[e][j] = <<"object", e, j>>
<1> DEFINE n == Len(ck)
           row(e) == [j \in 1 .. ck[e].own |-> <<"object", e, j>>]
           rows == [e \in 1 .. n |-> row(e)]
<1>1. n \in Nat /\ DOMAIN ck = 1 .. n /\ \A e \in 1 .. n : ck[e].own \in Nat
  BY ChunkIs
<1>2. Own(ck) = [deep |-> TRUE, rows |-> rows]
  BY <1>1 DEF Own, Nested
<1>3. ASSUME NEW e \in 1 .. n PROVE row(e) \in Seq(Tags) /\ Len(row(e)) = ck[e].own
  <2> DEFINE m == ck[e].own
             S == Tags
             r == row(e)
  <2>1. m \in Nat
    BY <1>1
  <2>2. \A j \in 1 .. m : <<"object", e, j>> \in S
    BY <1>1, <2>1 DEF Tags
  <2>3. r = [j \in 1 .. m |-> <<"object", e, j>>]
    OBVIOUS
  <2> HIDE DEF S, m, r
  <2>4. r \in Seq(S) /\ Len(r) = m
    BY <2>1, <2>2, <2>3
  <2> QED
    BY <2>4 DEF S, m, r
<1> DEFINE S == Seq(Tags)
<1>4. \A e \in 1 .. n : row(e) \in S
  BY <1>3
<1>5. \A e \in 1 .. n : rows[e] = row(e)
  OBVIOUS
<1>6. \A e \in 1 .. n : \A j \in 1 .. ck[e].own : row(e)[j] = <<"object", e, j>>
  OBVIOUS
<1> HIDE DEF S, row
<1>7. rows \in Seq(S) /\ Len(rows) = n
  BY <1>1, <1>4
<1> HIDE DEF rows
<1>8. Own(ck).rows = rows
  BY <1>2
<1>9. Whole(Own(ck))
  BY <1>2, <1>7, <1>8, TagRows DEF Whole, Deep, S
<1> QED
  BY <1>3, <1>5, <1>6, <1>7, <1>8, <1>9

\* The entries a value misses.
Gone(ck, missing, e, j) ==
    missing # "no" /\ ck[e].gone /\ (missing = "events" \/ j = 1)

LessGone(ck, missing, w, col) ==
    /\ Deep(w) /\ Len(w.rows) = Len(ck)
    /\ \A e \in 1 .. Len(ck) :
         /\ Len(w.rows[e]) = Len(col.rows[e])
         /\ \A j \in 1 .. Len(col.rows[e]) :
              w.rows[e][j] = IF Gone(ck, missing, e, j) THEN Missing ELSE col.rows[e][j]

LEMMA WithoutDeep ==
    ASSUME NEW ck \in Chunks, NEW missing \in {"no", "entries", "events"},
           NEW col, Deep(col), Len(col.rows) = Len(ck)
    PROVE  LessGone(ck, missing, Without(ck, missing, col), col)
<1> DEFINE n == Len(ck)
           R == Seq(Entries)
           row(e) ==
               IF missing = "no" \/ ~ck[e].gone THEN col.rows[e]
               ELSE IF ~col.deep THEN Missing
               ELSE IF missing = "events" THEN [j \in DOMAIN col.rows[e] |-> Missing]
               ELSE [j \in DOMAIN col.rows[e] |-> IF j = 1 THEN Missing ELSE col.rows[e][j]]
           w == Without(ck, missing, col)
<1>1. n \in Nat /\ \A e \in 1 .. n : ck[e].gone \in BOOLEAN
  BY ChunkIs
<1>2. /\ col = [deep |-> TRUE, rows |-> col.rows] /\ col.deep = TRUE
      /\ col.rows \in Seq(R) /\ DOMAIN col.rows = 1 .. n
  BY <1>1 DEF Deep
<1>3. w = [deep |-> TRUE, rows |-> [e \in 1 .. n |-> row(e)]]
  <2>1. w = [col EXCEPT !.rows = [e \in DOMAIN col.rows |-> row(e)]]
    BY DEF Without
  <2> HIDE DEF w, row, R
  <2> QED
    BY <1>2, <2>1
<1>4. ASSUME NEW e \in 1 .. n
      PROVE  /\ row(e) \in R /\ Len(row(e)) = Len(col.rows[e])
             /\ \A j \in 1 .. Len(col.rows[e]) :
                  row(e)[j] = IF Gone(ck, missing, e, j) THEN Missing ELSE col.rows[e][j]
  <2> DEFINE r == col.rows[e]
             m == Len(r)
             E == Entries
  <2>1. r \in R
    <3> HIDE DEF R
    <3> QED
      BY <1>2
  <2>2. m \in Nat /\ DOMAIN r = 1 .. m /\ \A j \in 1 .. m : r[j] \in E
    BY <2>1
  <2>3. Missing \in E
    BY DEF Entries
  <2>4. row(e) = IF missing = "no" \/ ~ck[e].gone THEN r
                 ELSE IF missing = "events" THEN [j \in 1 .. m |-> Missing]
                 ELSE [j \in 1 .. m |-> IF j = 1 THEN Missing ELSE r[j]]
    BY <1>2, <2>2
  <2> HIDE DEF r, E, row, m
  <2>5. r \in Seq(E) /\ Len(r) = m
    BY <2>1 DEF E, m
  <2>6. CASE missing = "no" \/ ~ck[e].gone
    BY <2>4, <2>5, <2>6 DEF Gone, r, E, m
  <2>7. CASE missing = "events" /\ ck[e].gone
    <3>1. row(e) = [j \in 1 .. m |-> Missing]
      BY <2>4, <2>7
    <3>2. row(e) \in Seq(E) /\ Len(row(e)) = m /\ \A j \in 1 .. m : row(e)[j] = Missing
      BY <2>2, <2>3, <3>1
    <3> QED
      BY <2>7, <3>2 DEF Gone, r, E, m
  <2>8. CASE missing = "entries" /\ ck[e].gone
    <3>1. row(e) = [j \in 1 .. m |-> IF j = 1 THEN Missing ELSE r[j]]
      BY <2>4, <2>8
    <3>2. /\ row(e) \in Seq(E) /\ Len(row(e)) = m
          /\ \A j \in 1 .. m : row(e)[j] = IF j = 1 THEN Missing ELSE r[j]
      BY <2>2, <2>3, <3>1
    <3> QED
      BY <2>8, <3>2 DEF Gone, r, E, m
  <2> QED
    BY <1>1, <2>6, <2>7, <2>8
<1> HIDE DEF row, R, w
<1>5. w.rows = [e \in 1 .. n |-> row(e)]
  BY <1>3
<1>6. w.rows \in Seq(R) /\ Len(w.rows) = n /\ \A e \in 1 .. n : w.rows[e] = row(e)
  BY <1>1, <1>4, <1>5
<1>7. Deep(w)
  BY <1>3, <1>5, <1>6 DEF Deep, R
<1> QED
  BY <1>4, <1>6, <1>7 DEF w, LessGone

\* A column with nothing missing is as it was.
LEMMA WithoutNo ==
    ASSUME NEW ck, NEW col, NEW d, col = [deep |-> d, rows |-> col.rows],
           NEW S, col.rows \in Seq(S)
    PROVE  Without(ck, "no", col) = col
<1>1. Without(ck, "no", col) = [col EXCEPT !.rows = [e \in DOMAIN @ |-> @[e]]]
  BY DEF Without
<1>2. [e \in DOMAIN col.rows |-> col.rows[e]] = col.rows
  OBVIOUS
<1> QED
  BY <1>1, <1>2

LEMMA ColumnsAre ==
    ASSUME call \in Calls, NEW ck \in Chunks
    PROVE  /\ Column(ck, call, "object") = Own(ck)
           /\ Shallow(Column(ck, call, "event")) /\ Len(Column(ck, call, "event").rows) = Len(ck)
           /\ \A e \in 1 .. Len(ck) : Column(ck, call, "event").rows[e] = <<"event", e, 0>>
           /\ Shallow(Column(ck, call, "selected"))
           /\ Shallow(Column(ck, call, "flat"))
           /\ Column(ck, call, "flat").rows = Flat(Without(ck, call.missing, Own(ck)))
           /\ Column(ck, call, "scalar") = [deep |-> FALSE, rows |-> NoRows]
<1> DEFINE n == Len(ck)
           events == [e \in 1 .. n |-> <<"event", e, 0>>]
           S == Tags
<1>1. n \in Nat /\ DOMAIN ck = 1 .. n
  BY ChunkIs
<1>2. /\ Column(ck, call, "event") = [deep |-> FALSE, rows |-> events]
      /\ Column(ck, call, "selected") = [deep |-> FALSE, rows |-> SubSeq(events, 2, n)]
  BY <1>1 DEF Column
<1>3. \A e \in 1 .. n : <<"event", e, 0>> \in S
  BY <1>1 DEF Tags
<1>4. Column(ck, call, "object") = Own(ck)
  BY DEF Column, Own
<1>5. Column(ck, call, "flat") = [deep |-> FALSE, rows |-> Flat(Without(ck, call.missing, Own(ck)))]
  BY DEF Column, Own
<1>6. Column(ck, call, "scalar") = [deep |-> FALSE, rows |-> NoRows]
  BY DEF Column
<1> HIDE DEF S
<1>7. events \in Seq(S) /\ Len(events) = n /\ \A e \in 1 .. n : events[e] = <<"event", e, 0>>
  BY <1>1, <1>3
<1> HIDE DEF events
<1>8. SubSeq(events, 2, n) \in Seq(S)
  BY <1>1, <1>7
<1>9. Flat(Without(ck, call.missing, Own(ck))) \in Seq(S)
  <2>1. call.missing \in {"no", "entries", "events"}
    BY CallsAssumption
  <2>2. Deep(Without(ck, call.missing, Own(ck)))
    BY <2>1, OwnIs, WithoutDeep DEF Whole, LessGone
  <2> QED
    BY <2>2, CatType, FlatIs DEF Deep, S
<1>10. /\ Shallow(Column(ck, call, "event")) /\ Column(ck, call, "event").rows = events
       /\ Shallow(Column(ck, call, "flat"))
       /\ Column(ck, call, "flat").rows = Flat(Without(ck, call.missing, Own(ck)))
  BY <1>2, <1>5, <1>7, <1>9 DEF Shallow, S
<1>11. Shallow(Column(ck, call, "selected"))
  <2> DEFINE r == SubSeq(events, 2, n)
  <2> HIDE DEF r
  <2>1. Column(ck, call, "selected") = [deep |-> FALSE, rows |-> r] /\ r \in Seq(S)
    BY <1>2, <1>8 DEF r
  <2> QED
    BY <2>1 DEF Shallow, S
<1> QED
  BY <1>4, <1>6, <1>7, <1>10, <1>11

LEMMA FlatWhole ==
    ASSUME NEW col
    PROVE  /\ Shallow(col) => Flat(col) = col.rows /\ Flat(col) \in Seq(Tags)
           /\ Deep(col) => Flat(col) = Cat(col.rows) /\ Flat(col) \in Seq(Tags)
<1>1. ASSUME Shallow(col) PROVE Flat(col) = col.rows /\ Flat(col) \in Seq(Tags)
  <2>1. col.deep = FALSE
    BY <1>1 DEF Shallow
  <2> QED
    BY <1>1, <2>1, FlatIs, ThereWhole DEF Shallow
<1>2. ASSUME Deep(col) PROVE Flat(col) = Cat(col.rows) /\ Flat(col) \in Seq(Tags)
  <2>1. col.deep = TRUE
    BY <1>2 DEF Deep
  <2> QED
    BY <1>2, <2>1, FlatIs, CatType DEF Deep
<1> QED
  BY <1>1, <1>2

-----------------------------------------------------------------------------
(* The broadcast *)

Repeats(w, value, col) ==
    /\ Whole(w) /\ Len(w.rows) = Len(value.rows)
    /\ \A e \in 1 .. Len(value.rows) :
         /\ Len(w.rows[e]) = Len(value.rows[e])
         /\ \A j \in 1 .. Len(value.rows[e]) : w.rows[e][j] = col.rows[e]

\* A flat factor with a row per event, repeated over the value's entries.
LEMMA Widened ==
    ASSUME NEW value, Deep(value), NEW col, Shallow(col), Len(col.rows) = Len(value.rows)
    PROVE  Repeats(BroadcastLike(value, col), value, col)
<1> DEFINE n == Len(value.rows)
           row(e) == [j \in DOMAIN value.rows[e] |-> col.rows[e]]
           S == Seq(Tags)
           w == BroadcastLike(value, col)
<1>1. col # Blamed /\ col.rows # NoRows /\ value.deep = TRUE /\ col.deep = FALSE
  BY HasRows DEF Deep, Shallow
<1>2. n \in Nat /\ DOMAIN value.rows = 1 .. n /\ \A e \in 1 .. n : value.rows[e] \in Seq(Entries)
  <2> DEFINE E == Seq(Entries)
  <2>1. value.rows \in Seq(E)
    BY DEF Deep
  <2> HIDE DEF E
  <2>2. n \in Nat /\ DOMAIN value.rows = 1 .. n /\ \A e \in 1 .. n : value.rows[e] \in E
    BY <2>1
  <2> QED
    BY <2>2 DEF E
<1>3. w = [deep |-> TRUE, rows |-> [e \in 1 .. n |-> row(e)]]
  BY <1>1, <1>2 DEF BroadcastLike
<1>4. ASSUME NEW e \in 1 .. n
      PROVE  /\ row(e) \in S /\ Len(row(e)) = Len(value.rows[e])
             /\ \A j \in 1 .. Len(value.rows[e]) : row(e)[j] = col.rows[e]
  <2> DEFINE m == Len(value.rows[e])
             T == Tags
  <2>1. m \in Nat /\ DOMAIN value.rows[e] = 1 .. m
    BY <1>2
  <2>2. col.rows[e] \in T
    BY <1>2 DEF Shallow
  <2>3. row(e) = [j \in 1 .. m |-> col.rows[e]]
    BY <2>1
  <2> HIDE DEF row, m, T
  <2>4. row(e) \in Seq(T) /\ Len(row(e)) = m /\ \A j \in 1 .. m : row(e)[j] = col.rows[e]
    BY <2>1, <2>2, <2>3
  <2> QED
    BY <2>4 DEF m, T
<1> HIDE DEF S, row, w
<1>5. w.rows = [e \in 1 .. n |-> row(e)]
  BY <1>3
<1>6. w.rows \in Seq(S) /\ Len(w.rows) = n /\ \A e \in 1 .. n : w.rows[e] = row(e)
  BY <1>2, <1>4, <1>5
<1>7. Whole(w)
  BY <1>3, <1>5, <1>6, TagRows DEF Whole, Deep, S
<1> QED
  BY <1>4, <1>6, <1>7 DEF w, Repeats

\* A nested factor with the value's counts is kept.
LEMMA KeptDeep ==
    ASSUME NEW value, Deep(value), NEW col, Deep(col), Len(col.rows) = Len(value.rows),
           \A e \in 1 .. Len(value.rows) : Len(col.rows[e]) = Len(value.rows[e])
    PROVE  BroadcastLike(value, col) = col
<1>1. col # Blamed /\ col.rows # NoRows /\ value.deep = TRUE /\ col.deep = TRUE
  BY HasRows DEF Deep
<1>2. DOMAIN col.rows = DOMAIN value.rows /\ DOMAIN value.rows = 1 .. Len(value.rows)
  <2> DEFINE E == Seq(Entries)
  <2>1. value.rows \in Seq(E) /\ col.rows \in Seq(E)
    BY DEF Deep
  <2> HIDE DEF E
  <2> QED
    BY <2>1
<1>3. [e \in DOMAIN col.rows |-> Len(col.rows[e])]
        = [e \in DOMAIN value.rows |-> Len(value.rows[e])]
  BY <1>2
<1> QED
  BY <1>1, <1>3 DEF BroadcastLike

-----------------------------------------------------------------------------
(* A factor guarded and broadcast, where nothing is missing *)

Wide(ck, f) == BroadcastLike(Value(ck, call), Guard(call, Value(ck, call), Column(ck, call, f)))
Fit(value, col) == Len(col.rows) \in {Len(value.rows), Len(Flat(value))}

\* Nothing to carry over: what the broadcast gives is the factor.
LEMMA LinedNo ==
    ASSUME recorded = "broadcast", call.missing = "no", NEW ck, NEW f, NEW carried,
           \/ Wide(ck, f) = Blamed \/ Wide(ck, f).rows = NoRows
           \/ Shallow(Wide(ck, f)) \/ Deep(Wide(ck, f))
    PROVE  LinedUp(call, ck, f, carried) = Wide(ck, f)
<1> DEFINE w == Wide(ck, f)
<1>1. LinedUp(call, ck, f, carried) =
        IF carried /\ w \notin {Blamed, Raised} /\ w.rows # NoRows /\ w.deep = Value(ck, call).deep
        THEN Without(ck, "no", w) ELSE w
  BY DEF LinedUp, Wide
<1>2. Shallow(w) \/ Deep(w) => Without(ck, "no", w) = w
  <2> HIDE DEF w
  <2> QED
    BY WithoutNo DEF Shallow, Deep
<1> HIDE DEF w
<1>3. w = Blamed \/ w.rows = NoRows \/ Shallow(w) \/ Deep(w)
  BY DEF w
<1> QED
  BY <1>1, <1>2, <1>3 DEF w

LEMMA DeepValue ==
    ASSUME call.missing = "no", NEW value, Whole(value), NEW col, Shallow(col)
    PROVE  LET w == BroadcastLike(value, Guard(call, value, col))
           IN IF Fit(value, col) THEN Whole(w) /\ Len(Flat(w)) = Len(Flat(value)) ELSE w = Blamed
<1>1. col.rows # NoRows /\ col # Blamed
  BY HasRows
<1>2. Deep(value) /\ value.deep = TRUE /\ value.rows \in Seq(Seq(Tags))
  BY DEF Whole, Deep
<1>3. Flat(value) = Cat(value.rows)
  BY <1>2, FlatWhole
<1>4. ASSUME NEW w, Whole(w), Len(w.rows) = Len(value.rows),
             \A e \in 1 .. Len(value.rows) : Len(w.rows[e]) = Len(value.rows[e])
      PROVE  Len(Flat(w)) = Len(Flat(value))
  <2>1. w.rows \in Seq(Seq(Tags)) /\ Flat(w) = Cat(w.rows)
    BY <1>4, FlatWhole DEF Whole
  <2> QED
    BY <1>2, <1>3, <1>4, <2>1, CatsAlike
<1>5. CASE Len(col.rows) = Len(value.rows)
  <2>1. Guard(call, value, col) = col
    BY <1>5 DEF Guard
  <2>2. Repeats(BroadcastLike(value, col), value, col)
    BY <1>2, <1>5, Widened
  <2> QED
    BY <1>4, <1>5, <2>1, <2>2 DEF Fit, Repeats
<1>6. CASE Len(col.rows) # Len(value.rows) /\ Len(col.rows) = Len(Flat(value))
  <2> DEFINE r == Renest(value, col)
  <2>1. Guard(call, value, col) = r
    BY <1>1, <1>6 DEF Guard
  <2>2. col.rows \in Seq(Tags)
    BY DEF Shallow
  <2>3. /\ r = [deep |-> TRUE, rows |-> r.rows] /\ r.rows \in Seq(Seq(Tags))
        /\ Len(r.rows) = Len(value.rows)
        /\ \A e \in 1 .. Len(r.rows) : Len(r.rows[e]) = Len(value.rows[e])
    BY <1>2, <1>3, <1>6, <2>2, RenestIs
  <2> HIDE DEF r
  <2>4. Whole(r)
    BY <2>3, TagRows DEF Whole, Deep
  <2>5. BroadcastLike(value, r) = r
    BY <1>2, <2>3, <2>4, KeptDeep DEF Whole
  <2> QED
    BY <1>4, <1>6, <2>1, <2>3, <2>4, <2>5 DEF Fit
<1>7. CASE ~Fit(value, col)
  <2>1. Guard(call, value, col) = Blamed
    BY <1>1, <1>7 DEF Guard, Fit
  <2> QED
    BY <1>7, <2>1 DEF BroadcastLike
<1> QED
  BY <1>5, <1>6, <1>7 DEF Fit

LEMMA ShallowValue ==
    ASSUME call.missing = "no", NEW value, Shallow(value), NEW col, Shallow(col) \/ Deep(col)
    PROVE  LET w == BroadcastLike(value, Guard(call, value, col))
           IN /\ Flat(value) = value.rows
              /\ IF Fit(value, col) THEN w = col ELSE w = Blamed
<1>1. col.rows # NoRows /\ col # Blamed
  BY HasRows
<1>2. value.deep = FALSE /\ Flat(value) = value.rows
  BY FlatWhole DEF Shallow
<1>3. CASE Len(col.rows) = Len(value.rows)
  <2>1. Guard(call, value, col) = col
    BY <1>3 DEF Guard
  <2> QED
    BY <1>2, <1>3, <2>1 DEF Fit, BroadcastLike
<1>4. CASE Len(col.rows) # Len(value.rows)
  <2>1. Guard(call, value, col) = Blamed
    BY <1>1, <1>2, <1>4 DEF Guard
  <2> QED
    BY <1>2, <1>4, <2>1 DEF Fit, BroadcastLike
<1> QED
  BY <1>2, <1>3, <1>4

LEMMA NoneMissing ==
    ASSUME call \in Calls, recorded = "broadcast", call.missing = "no", NEW ck \in Chunks,
           NEW f \in {"event", "object", "flat", "selected", "scalar"}, NEW carried,
           call.value \in {"event", "object", "flat"}, call.value = "event" => f # "object"
    PROVE  LET w == LinedUp(call, ck, f, carried)
               fits == f = "scalar" \/ Fit(Value(ck, call), Column(ck, call, f))
           IN IF fits
              THEN /\ w \notin {Blamed, Raised}
                   /\ w.rows = NoRows \/ Len(Flat(w)) = Len(Flat(Value(ck, call)))
              ELSE w = Blamed
<1> DEFINE v == Value(ck, call)
           c == Column(ck, call, f)
           w == Wide(ck, f)
<1>0. w = BroadcastLike(v, Guard(call, v, c))
  BY DEF Wide
<1>1. Whole(Own(ck)) /\ Without(ck, "no", Own(ck)) = Own(ck) /\ Len(Own(ck).rows) = Len(ck)
  BY OwnIs, WithoutNo DEF Whole, Deep
<1>2. /\ Column(ck, call, "object") = Own(ck) /\ Shallow(Column(ck, call, "event"))
      /\ Shallow(Column(ck, call, "selected")) /\ Shallow(Column(ck, call, "flat"))
      /\ Column(ck, call, "flat").rows = Flat(Own(ck))
      /\ Column(ck, call, "scalar") = [deep |-> FALSE, rows |-> NoRows]
  BY <1>1, ColumnsAre
<1>3. v = Column(ck, call, call.value)
  <2>1. Shallow(Column(ck, call, call.value)) \/ Deep(Column(ck, call, call.value))
    BY <1>1, <1>2 DEF Whole
  <2>2. v = Without(ck, "no", Column(ck, call, call.value))
    BY DEF Value
  <2> QED
    BY <2>1, <2>2, WithoutNo DEF Shallow, Deep
<1>4. CASE f = "scalar"
  <2>1. c = [deep |-> FALSE, rows |-> NoRows] /\ c # Blamed /\ c # Raised /\ c.rows = NoRows
    BY <1>2, <1>4, ColumnsDiffer
  <2>2. w = c
    BY <1>0, <2>1 DEF Guard, BroadcastLike
  <2> HIDE DEF w, c, v
  <2>3. LinedUp(call, ck, f, carried) = w
    BY <2>1, <2>2, LinedNo DEF w
  <2> QED
    BY <1>4, <2>1, <2>2, <2>3 DEF c, v
<1>5. CASE f # "scalar"
  <2>1. Shallow(c) \/ (f = "object" /\ c = Own(ck))
    BY <1>2, <1>5
  <2>2. /\ Fit(v, c) => (Shallow(w) \/ Deep(w)) /\ Len(Flat(w)) = Len(Flat(v))
        /\ ~Fit(v, c) => w = Blamed
    <3>1. CASE call.value = "object"
      <4>1. v = Own(ck)
        BY <1>2, <1>3, <3>1
      <4>2. CASE Shallow(c)
        <5> HIDE DEF w, c, v
        <5> QED
          BY <1>0, <1>1, <4>1, <4>2, DeepValue DEF Whole
      <4>3. CASE c = Own(ck)
        <5>1. c = v /\ Deep(v) /\ Fit(v, c)
          BY <1>1, <4>1, <4>3 DEF Fit, Whole
        <5> HIDE DEF w, c, v
        <5>2. Guard(call, v, c) = c
          BY <5>1 DEF Guard
        <5>3. BroadcastLike(v, c) = c
          BY <5>1, KeptDeep
        <5> QED
          BY <1>0, <5>1, <5>2, <5>3
      <4> QED
        BY <2>1, <4>2, <4>3
    <3>2. CASE call.value # "object"
      <4>1. Shallow(v)
        BY <1>2, <1>3, <3>2
      <4>2. Shallow(c) \/ Deep(c)
        BY <1>1, <2>1 DEF Whole
      <4>3. Flat(v) = v.rows /\ IF Fit(v, c) THEN w = c ELSE w = Blamed
        <5> HIDE DEF w, c, v
        <5> QED
          BY <1>0, <4>1, <4>2, ShallowValue
      <4>4. ASSUME Fit(v, c) PROVE Len(Flat(c)) = Len(Flat(v))
        <5>1. CASE Shallow(c)
          <6>1. Flat(c) = c.rows
            BY <5>1, FlatWhole
          <6> QED
            BY <4>3, <4>4, <6>1 DEF Fit
        <5>2. CASE f = "object" /\ c = Own(ck)
          <6>1. v = Column(ck, call, "flat")
            BY <1>3, <3>2, <5>2
          <6> QED
            BY <1>2, <4>3, <5>2, <6>1
        <5> QED
          BY <2>1, <5>1, <5>2
      <4> HIDE DEF w, c, v
      <4> QED
        BY <4>2, <4>3, <4>4
    <3> QED
      BY <3>1, <3>2
  <2> HIDE DEF w, c, v
  <2>3. LinedUp(call, ck, f, carried) = w
    BY <2>2, LinedNo DEF w
  <2>4. Fit(v, c) => w \notin {Blamed, Raised}
    BY <2>2, HasRows
  <2> QED
    BY <1>5, <2>2, <2>3, <2>4 DEF c, v
<1> QED
  BY <1>4, <1>5

-----------------------------------------------------------------------------
(* A nested value's entries against a factor's *)

\* An entry of the value with the entry it is filled with.
Agree == {x \in Tags \X Tags : With(x[1], x[2])}

\* What a chunk fills the first axis with, against another axis or a factor.
LEMMA LinedAgree ==
    ASSUME NEW u, NEW v, Lined(Agree, u, v), Len(u) = Len(v), NEW S, u \in Seq(S)
    PROVE  Aligned(u, v)
<1>1. DOMAIN u = 1 .. Len(u)
  OBVIOUS
<1>2. \A k \in 1 .. Len(u) : With(u[k], v[k])
  BY DEF Lined, Agree
<1> QED
  BY <1>1, <1>2 DEF Aligned

LEMMA SameEntry == ASSUME NEW t \in Tags PROVE <<t, t>> \in Agree
BY DEF Agree, With

\* Rows that miss entries, against the same rows.
LEMMA MissedPaired ==
    ASSUME NEW ck \in Chunks, NEW missing \in {"no", "entries", "events"},
           NEW a, LessGone(ck, missing, a, Own(ck)), NEW b, Whole(b), Len(b.rows) = Len(ck),
           \A e \in 1 .. Len(ck) : Len(b.rows[e]) = Len(Own(ck).rows[e]),
           \A e \in 1 .. Len(ck) : \A j \in 1 .. Len(b.rows[e]) :
              <<Own(ck).rows[e][j], b.rows[e][j]>> \in Agree
    PROVE  /\ Lined(Agree, Flat(a), Flat(b))
           /\ Lined(Agree, Flat(a), Flat(Without(ck, missing, b)))
<1> DEFINE w == Without(ck, missing, b)
           n == Len(ck)
<1>0. n \in Nat
  BY ChunkIs
<1>1. Deep(b) /\ b.rows \in Seq(Seq(Tags))
  BY DEF Whole
<1>2. LessGone(ck, missing, w, b)
  BY <1>1, WithoutDeep
<1> HIDE DEF w
<1>3. ASSUME NEW e \in 1 .. n
      PROVE  Paired(Agree, a.rows[e], b.rows[e]) /\ Paired(Agree, a.rows[e], w.rows[e])
  <2>1. Len(a.rows[e]) = Len(b.rows[e]) /\ Len(w.rows[e]) = Len(b.rows[e])
    BY <1>2, <1>3 DEF LessGone
  <2>2. b.rows[e] \in Seq(Tags)
    BY <1>1, <1>3
  <2>3. ASSUME NEW j \in 1 .. Len(b.rows[e]), a.rows[e][j] # Missing
        PROVE  /\ b.rows[e][j] # Missing /\ <<a.rows[e][j], b.rows[e][j]>> \in Agree
               /\ w.rows[e][j] = b.rows[e][j]
    <3>1. b.rows[e][j] \in Tags
      BY <2>2, <2>3
    <3>2. ~Gone(ck, missing, e, j) /\ a.rows[e][j] = Own(ck).rows[e][j]
      BY <1>3, <2>1, <2>3 DEF LessGone
    <3> QED
      BY <1>2, <1>3, <2>3, <3>1, <3>2, MissingAssumption DEF LessGone
  <2> QED
    BY <2>1, <2>3 DEF Paired
<1>4. /\ Flat(a) = Cat(a.rows) /\ Flat(b) = Cat(b.rows) /\ Flat(w) = Cat(w.rows)
      /\ a.rows \in Seq(Seq(Entries)) /\ b.rows \in Seq(Seq(Entries))
      /\ w.rows \in Seq(Seq(Entries))
  BY <1>1, <1>2, FlatWhole DEF Deep, LessGone
<1>5. Lined(Agree, Cat(a.rows), Cat(b.rows)) /\ Lined(Agree, Cat(a.rows), Cat(w.rows))
  <2>1. Len(a.rows) = n /\ Len(b.rows) = n /\ Len(w.rows) = n
    BY <1>2 DEF LessGone
  <2> QED
    BY <1>3, <1>4, <2>1, CatLined
<1> QED
  BY <1>4, <1>5 DEF w

LEMMA ObjectValue ==
    ASSUME call \in Calls, call.value = "object", NEW ck \in Chunks
    PROVE  /\ call.missing \in {"no", "entries", "events"}
           /\ LessGone(ck, call.missing, Value(ck, call), Own(ck))
<1>1. Value(ck, call) = Without(ck, call.missing, Own(ck))
  BY ColumnsAre DEF Value
<1>2. call.missing \in {"no", "entries", "events"}
  BY CallsAssumption
<1>3. Deep(Own(ck)) /\ Len(Own(ck).rows) = Len(ck)
  BY OwnIs DEF Whole
<1> QED
  BY <1>1, <1>2, <1>3, WithoutDeep

LEMMA OwnPaired ==
    ASSUME call \in Calls, call.value = "object", NEW ck \in Chunks
    PROVE  /\ Lined(Agree, Flat(Value(ck, call)), Flat(Own(ck)))
           /\ Lined(Agree, Flat(Value(ck, call)), Flat(Without(ck, call.missing, Own(ck))))
<1> DEFINE o == Own(ck)
           v == Value(ck, call)
<1>1. Whole(o) /\ Len(o.rows) = Len(ck)
  BY OwnIs
<1>2. \A e \in 1 .. Len(ck) : \A j \in 1 .. Len(o.rows[e]) :
         <<o.rows[e][j], o.rows[e][j]>> \in Agree
  <2> SUFFICES ASSUME NEW e \in 1 .. Len(ck), NEW j \in 1 .. Len(o.rows[e])
               PROVE  <<o.rows[e][j], o.rows[e][j]>> \in Agree
    OBVIOUS
  <2> DEFINE S == Seq(Tags)
  <2>1. o.rows[e] \in S
    <3> HIDE DEF S, o
    <3>1. o.rows \in Seq(S)
      BY <1>1 DEF Whole, S
    <3> QED
      BY <1>1, <3>1
  <2>2. o.rows[e][j] \in Tags
    <3> HIDE DEF o
    <3> QED
      BY <2>1
  <2> QED
    BY <2>2, SameEntry
<1>3. LessGone(ck, call.missing, v, o) /\ call.missing \in {"no", "entries", "events"}
  BY ObjectValue
<1> HIDE DEF v
<1> QED
  BY <1>1, <1>2, <1>3, MissedPaired DEF v

\* A factor per event or per object, guarded and broadcast: no entry slips.
LEMMA FactorPaired ==
    ASSUME call \in Calls, call.value = "object", recorded = "broadcast", NEW ck \in Chunks,
           NEW f \in {"event", "object"}, NEW carried
    PROVE  LET w == LinedUp(call, ck, f, carried)
           IN w.rows # NoRows /\ Lined(Agree, Flat(Value(ck, call)), Flat(w))
<1> DEFINE v == Value(ck, call)
           c == Column(ck, call, f)
           o == Own(ck)
           w == Wide(ck, f)
<1>1. LessGone(ck, call.missing, v, o) /\ call.missing \in {"no", "entries", "events"}
  BY ObjectValue
<1>2. Whole(o) /\ Len(o.rows) = Len(ck)
  BY OwnIs
<1>3. Len(c.rows) = Len(ck) /\ (f = "event" => Shallow(c)) /\ (f = "object" => c = o)
  BY <1>2, ColumnsAre
<1>4. Guard(call, v, c) = c
  <2> HIDE DEF v, c
  <2> QED
    BY <1>1, <1>3 DEF Guard, LessGone
<1>5. w = BroadcastLike(v, c)
  BY <1>4 DEF Wide
<1>6. /\ Whole(w) /\ Len(w.rows) = Len(ck)
      /\ \A e \in 1 .. Len(ck) : Len(w.rows[e]) = Len(o.rows[e])
      /\ Lined(Agree, Flat(v), Flat(w)) /\ Lined(Agree, Flat(v), Flat(Without(ck, call.missing, w)))
  <2>1. CASE f = "object"
    <3>1. w = o
      <4> HIDE DEF w, v, c, o
      <4> QED
        BY <1>1, <1>2, <1>3, <1>5, <2>1, KeptDeep DEF Whole, LessGone
    <3>2. /\ Lined(Agree, Flat(v), Flat(o))
          /\ Lined(Agree, Flat(v), Flat(Without(ck, call.missing, o)))
      BY OwnPaired
    <3> HIDE DEF w, v, c, o
    <3> QED
      BY <1>2, <3>1, <3>2
  <2>2. CASE f = "event"
    <3>1. \A e \in 1 .. Len(ck) : c.rows[e] = <<"event", e, 0>> /\ c.rows[e] \in Tags
      <4>1. \A e \in 1 .. Len(ck) : c.rows[e] = <<"event", e, 0>>
        BY <2>2, ColumnsAre
      <4>2. \A e \in 1 .. Len(ck) : <<"event", e, 0>> \in Tags
        BY ChunkIs DEF Tags
      <4> HIDE DEF c
      <4> QED
        BY <4>1, <4>2
    <3>2. \A e \in 1 .. Len(ck) : \A j \in 1 .. Len(o.rows[e]) : o.rows[e][j] = <<"object", e, j>>
      BY OwnIs
    <3>3. \A e \in 1 .. Len(ck) : \A j \in 1 .. Len(o.rows[e]) : <<"object", e, j>> \in Tags
      <4>1. \A e \in 1 .. Len(ck) : Len(o.rows[e]) = ck[e].own
        BY OwnIs
      <4> HIDE DEF o
      <4> QED
        BY <4>1, ChunkIs DEF Tags
    <3> HIDE DEF w, v, c, o
    <3>4. /\ Whole(w) /\ Len(w.rows) = Len(ck)
          /\ \A e \in 1 .. Len(ck) :
                /\ Len(w.rows[e]) = Len(o.rows[e])
                /\ \A j \in 1 .. Len(o.rows[e]) : w.rows[e][j] = c.rows[e]
      <4>1. Deep(v) /\ Shallow(c) /\ Len(c.rows) = Len(v.rows) /\ Len(v.rows) = Len(ck)
        BY <1>1, <1>3, <2>2 DEF LessGone
      <4>2. Repeats(w, v, c)
        BY <1>5, <4>1, Widened
      <4>3. \A e \in 1 .. Len(ck) : Len(v.rows[e]) = Len(o.rows[e])
        BY <1>1 DEF LessGone
      <4> QED
        BY <4>1, <4>2, <4>3 DEF Repeats
    <3>5. \A e \in 1 .. Len(ck) : \A j \in 1 .. Len(w.rows[e]) :
            <<o.rows[e][j], w.rows[e][j]>> \in Agree
      <4> SUFFICES ASSUME NEW e \in 1 .. Len(ck), NEW j \in 1 .. Len(w.rows[e])
                   PROVE  <<o.rows[e][j], w.rows[e][j]>> \in Agree
        OBVIOUS
      <4>1. o.rows[e][j] = <<"object", e, j>> /\ w.rows[e][j] = <<"event", e, 0>>
        BY <3>1, <3>2, <3>4
      <4>2. <<"object", e, j>> \in Tags /\ <<"event", e, 0>> \in Tags
        BY <3>1, <3>3, <3>4
      <4>3. With(<<"object", e, j>>, <<"event", e, 0>>)
        BY DEF With
      <4>4. <<<<"object", e, j>>, <<"event", e, 0>>>> \in Agree
        BY <4>2, <4>3 DEF Agree
      <4> QED
        BY <4>1, <4>4
    <3>6. /\ Lined(Agree, Flat(v), Flat(w))
          /\ Lined(Agree, Flat(v), Flat(Without(ck, call.missing, w)))
      BY <1>1, <3>4, <3>5, MissedPaired DEF o
    <3> QED
      BY <3>4, <3>6
  <2> QED
    BY <2>1, <2>2
<1>7. LinedUp(call, ck, f, carried) \in {w, Without(ck, call.missing, w)}
  BY DEF LinedUp, Wide
<1>8. /\ w.rows # NoRows /\ Without(ck, call.missing, w).rows # NoRows
  <2> HIDE DEF w
  <2>1. Deep(w) /\ Deep(Without(ck, call.missing, w))
    BY <1>1, <1>6, WithoutDeep DEF Whole, LessGone
  <2> QED
    BY <2>1, HasRows
<1> HIDE DEF w
<1> QED
  BY <1>6, <1>7, <1>8

-----------------------------------------------------------------------------
(* One chunk evaluated *)

Factor(ck, carried, i) == LinedUp(call, ck, call.factors[i], carried)
Leaves(ck) == Flat(Value(ck, call))
Seconds(ck) ==
    IF call.second = NoRows THEN Leaves(ck) ELSE Flat(Column(ck, call, call.second))

\* As long as the value's entries, be it a scalar.
LongAsValue(ck, w) ==
    w \notin {Blamed, Raised} /\ (w.rows = NoRows \/ Len(Flat(w)) = Len(Leaves(ck)))

\* Another axis and every factor as long as the value's entries.
AllLong(ck, carried) ==
    /\ Len(Seconds(ck)) = Len(Leaves(ck))
    /\ \A i \in DOMAIN call.factors : LongAsValue(ck, Factor(ck, carried, i))

FactorRows(ck, carried) == {i \in DOMAIN call.factors : Factor(ck, carried, i).rows # NoRows}
FactorLens(ck, carried) == {Len(Flat(Factor(ck, carried, i))) : i \in FactorRows(ck, carried)}
Lens(ck, carried) ==
    {Len(Leaves(ck)), Len(Seconds(ck))}
        \cup {LengthOf(w) : w \in {FactorLens(ck, carried)} \ {{}}}

\* What is filled, whether or not a single entry had to be repeated.
FilledWith(ck, carried, n) ==
    [is |-> "filled", value |-> Repeated(Leaves(ck), n), second |-> Repeated(Seconds(ck), n),
     factors |-> [i \in FactorRows(ck, carried) |-> Repeated(Flat(Factor(ck, carried, i)), n)]]

LEMMA LengthOfOne == ASSUME NEW n PROVE LengthOf({n}) = n /\ InStep({n})
<1>1. CASE n = 1
  BY <1>1 DEF LengthOf, InStep
<1>2. CASE n # 1
  <2>1. (CHOOSE m \in {n} : m # 1) = n
    BY <1>2
  <2> QED
    BY <1>2, <2>1 DEF LengthOf, InStep
<1> QED
  BY <1>1, <1>2

\* Columns all of the value's length are filled as they are.
LEMMA InStepAsIs ==
    ASSUME NEW ck, NEW carried, AllLong(ck, carried)
    PROVE  /\ InStep(FactorLens(ck, carried))
           /\ Lens(ck, carried) = {Len(Leaves(ck))}
           /\ LengthOf(Lens(ck, carried)) = Len(Leaves(ck))
<1> DEFINE L == Len(Leaves(ck))
           W == FactorLens(ck, carried)
<1>1. \A i \in FactorRows(ck, carried) : Len(Flat(Factor(ck, carried, i))) = L
  BY DEF AllLong, LongAsValue, FactorRows
<1>2. W = {} \/ W = {L}
  BY <1>1 DEF FactorLens
<1>3. InStep(W)
  BY <1>2, LengthOfOne DEF InStep
<1>4. {LengthOf(w) : w \in {W} \ {{}}} \in {{}, {L}}
  <2> HIDE DEF W, L
  <2>1. CASE W = {}
    BY <2>1
  <2>2. CASE W = {L}
    <3>1. LengthOf(W) = L /\ W # {}
      BY <2>2, LengthOfOne
    <3>2. {W} \ {{}} = {W}
      BY <3>1
    <3> QED
      BY <3>1, <3>2
  <2> QED
    BY <1>2, <2>1, <2>2
<1>5. Lens(ck, carried) = {L}
  BY <1>4 DEF Lens, AllLong
<1>6. LengthOf(Lens(ck, carried)) = L
  BY <1>5, LengthOfOne
<1> QED
  BY <1>3, <1>5, <1>6

LEMMA AtLeastLong == ASSUME NEW n \in Nat, n > 1, NEW m, n <= m PROVE m # 1
<1> SUFFICES ASSUME m = 1 PROVE FALSE
  OBVIOUS
<1>1. n <= 1
  OBVIOUS
<1> QED
  BY <1>1

\* Where no column is shorter than a value of several entries, being in step is being long.
LEMMA InStepLong ==
    ASSUME NEW ck, NEW carried, Len(Leaves(ck)) \in Nat, Len(Leaves(ck)) > 1,
           Len(Leaves(ck)) <= Len(Seconds(ck)),
           \A i \in FactorRows(ck, carried) :
              Len(Leaves(ck)) <= Len(Flat(Factor(ck, carried, i))),
           \A i \in DOMAIN call.factors : Factor(ck, carried, i) \notin {Blamed, Raised},
           InStep(FactorLens(ck, carried)),
           Lens(ck, carried) = {LengthOf(Lens(ck, carried))} \/ InStep(Lens(ck, carried))
    PROVE  AllLong(ck, carried)
<1> DEFINE L == Len(Leaves(ck))
           W == FactorLens(ck, carried)
           N == Lens(ck, carried)
           F(i) == Flat(Factor(ck, carried, i))
           R == FactorRows(ck, carried)
<1>1. InStep(N)
  <2> DEFINE m == LengthOf(N)
  <2> HIDE DEF m, N
  <2>1. CASE N = {m}
    BY <2>1, LengthOfOne
  <2> QED
    BY <2>1 DEF m, N
<1>2. L \in N /\ Len(Seconds(ck)) \in N /\ L # 1 /\ Len(Seconds(ck)) # 1
  <2>1. L \in N /\ Len(Seconds(ck)) \in N
    BY DEF Lens
  <2>2. Len(Seconds(ck)) # 1
    BY AtLeastLong
  <2> QED
    BY <2>1, <2>2
<1>3. Len(Seconds(ck)) = L
  BY <1>1, <1>2 DEF InStep
<1>4. ASSUME NEW i \in R PROVE Len(F(i)) = L
  <2>1. Len(F(i)) \in W /\ Len(F(i)) # 1
    <3>1. Len(F(i)) \in W
      BY DEF FactorLens
    <3>2. L <= Len(F(i))
      OBVIOUS
    <3>3. Len(F(i)) # 1
      BY <3>2, AtLeastLong
    <3> QED
      BY <3>1, <3>3
  <2>2. ~(W \subseteq {1}) /\ W # {}
    BY <2>1
  <2>3. LengthOf(W) \in W /\ LengthOf(W) # 1
    <3>1. \E m \in W : m # 1
      BY <2>1
    <3>2. LengthOf(W) = CHOOSE m \in W : m # 1
      BY <2>2 DEF LengthOf
    <3> HIDE DEF W
    <3> QED
      BY <3>1, <3>2
  <2>4. LengthOf(W) = Len(F(i))
    BY <2>1, <2>3 DEF InStep
  <2>5. LengthOf(W) \in N
    BY <2>2 DEF Lens
  <2> QED
    BY <1>1, <1>2, <2>3, <2>4, <2>5 DEF InStep
<1> QED
  BY <1>3, <1>4 DEF AllLong, LongAsValue, FactorRows

LEMMA ChunkGives ==
    ASSUME NEW ck, NEW carried, NEW repeats, Chunk(ck, carried, repeats)
    PROVE  \/ \E i \in DOMAIN call.factors : /\ Factor(ck, carried, i) = Blamed
                                            /\ result' = [is |-> "blamed", factor |-> i]
           \/ /\ \E i \in DOMAIN call.factors : Factor(ck, carried, i) = Raised
              /\ result' = Raised
           \/ LET n == LengthOf(Lens(ck, carried))
              IN /\ \A i \in DOMAIN call.factors : Factor(ck, carried, i) \notin {Blamed, Raised}
                 /\ \/ /\ InStep(FactorLens(ck, carried))
                       /\ Lens(ck, carried) = {n} \/ InStep(Lens(ck, carried))
                       /\ result' = FilledWith(ck, carried, n)
                    \/ /\ ~InStep(FactorLens(ck, carried)) \/ Lens(ck, carried) # {n}
                       /\ result' = Raised
<1> DEFINE D == DOMAIN call.factors
           F(i) == Factor(ck, carried, i)
           cols == [i \in D |-> LinedUp(call, ck, call.factors[i], carried)]
           failing == {i \in D : cols[i] = Blamed}
           arrays == {i \in D : cols[i].rows # NoRows}
           weights == {Len(Flat(cols[i])) : i \in arrays}
           lens == {Len(Leaves(ck)), Len(Seconds(ck))}
                       \cup {LengthOf(w) : w \in {weights} \ {{}}}
           n == LengthOf(lens)
           fill == [is |-> "filled", value |-> Repeated(Leaves(ck), n),
                    second |-> Repeated(Seconds(ck), n),
                    factors |-> [i \in arrays |-> Repeated(Flat(cols[i]), n)]]
<1>1. DOMAIN cols = D /\ \A i \in D : cols[i] = F(i)
  BY DEF Factor
<1>2. \/ failing # {} /\ \E i \in failing : result' = [is |-> "blamed", factor |-> i]
      \/ Raised \in Range(cols) /\ result' = Raised
      \/ /\ {Blamed, Raised} \cap Range(cols) = {}
         /\ result' = IF InStep(weights) /\ (lens = {n} \/ (repeats /\ InStep(lens)))
                      THEN fill ELSE Raised
  BY ZenonT(60) DEF Chunk, Leaves, Seconds
<1>3. \A x : x \in Range(cols) <=> \E i \in D : x = F(i)
  BY <1>1 DEF Range
<1>4. \A i : i \in failing <=> i \in D /\ F(i) = Blamed
  BY <1>1
<1>5. arrays = FactorRows(ck, carried)
  BY <1>1 DEF FactorRows
<1>6. weights = FactorLens(ck, carried)
  BY <1>1, <1>5 DEF FactorLens
<1>7. lens = Lens(ck, carried)
  BY <1>6 DEF Lens
<1>8. fill = FilledWith(ck, carried, LengthOf(Lens(ck, carried)))
  <2>1. \A i \in arrays : cols[i] = F(i)
    BY <1>1
  <2>2. [i \in arrays |-> Repeated(Flat(cols[i]), n)]
          = [i \in FactorRows(ck, carried) |-> Repeated(Flat(F(i)), n)]
    BY <1>5, <2>1
  <2> QED
    BY <1>7, <2>2 DEF FilledWith
<1> HIDE DEF cols, failing, weights, lens, arrays, fill
<1>9. CASE failing # {} /\ \E i \in failing : result' = [is |-> "blamed", factor |-> i]
  BY <1>4, <1>9
<1>10. CASE Raised \in Range(cols) /\ result' = Raised
  BY <1>3, <1>10
<1>11. CASE /\ {Blamed, Raised} \cap Range(cols) = {}
            /\ result' = IF InStep(weights) /\ (lens = {n} \/ (repeats /\ InStep(lens)))
                         THEN fill ELSE Raised
  <2>1. \A i \in D : F(i) \notin {Blamed, Raised}
    BY <1>3, <1>11
  <2> QED
    BY <1>6, <1>7, <1>8, <1>11, <2>1
<1> QED
  BY <1>2, <1>9, <1>10, <1>11

\* What the type check and the decision to record a broadcast say of the operands.
LEMMA OperandsAre ==
    ASSUME call \in Calls, CheckFillTypes(call)
    PROVE  /\ call.value \in {"event", "object", "flat"}
           /\ call.missing \in {"no", "entries", "events"}
           /\ call.second \in {NoRows, "object", "flat"} /\ call.value = "object"
                => call.second \in {NoRows, "object"}
           /\ \A i \in DOMAIN call.factors :
                 /\ call.factors[i] \in Kinds \ {"record"}
                 /\ call.factors[i] \in ToSet(call.factors)
           /\ ~MixedRowSpaces(call) /\ call.value = "object" /\ call.missing = "no"
                => \A i \in DOMAIN call.factors : call.factors[i] \notin {"event", "flat"}
<1> DEFINE D == DOMAIN call.factors
<1>1. /\ call.value \in {"event", "object", "flat", "record"}
      /\ call.missing \in {"no", "entries", "events"}
      /\ call.factors \in Seq(Kinds)
  BY CallsAssumption
<1>2. \A i \in D : call.factors[i] \in Kinds /\ call.factors[i] \in ToSet(call.factors)
  <2> DEFINE K == Kinds
  <2> HIDE DEF K
  <2>1. call.factors \in Seq(K)
    BY <1>1 DEF K
  <2>2. \A i \in D : call.factors[i] \in K /\ call.factors[i] \in ToSet(call.factors)
    BY <2>1 DEF ToSet
  <2> QED
    BY <2>2 DEF K
<1>3. "record" \notin ToSet(call.factors) /\ call.value # "record"
  BY DEF CheckFillTypes, ColumnsOf
<1>4. ASSUME call.second = "flat" PROVE call.value # "object"
  <2>1. "flat" \in ColumnsOf(call) /\ call.value \in ColumnsOf(call)
    BY <1>4, NoRowsAssumption DEF ColumnsOf, Kinds
  <2>2. Depth("flat") = Depth(call.value)
    BY <2>1 DEF CheckFillTypes
  <2>3. Depth("flat") = 1 /\ Depth("object") = 2
    BY DEF Depth
  <2> QED
    BY <2>2, <2>3
<1>5. ASSUME ~MixedRowSpaces(call), call.value = "object", call.missing = "no", NEW i \in D
      PROVE  call.factors[i] \notin {"event", "flat"}
  <2>1. Depth(call.factors[i]) \notin 1 .. Depth(call.value) - 1
    BY <1>2, <1>5 DEF MixedRowSpaces
  <2>2. Depth("event") = 1 /\ Depth("flat") = 1 /\ Depth("object") = 2
    BY DEF Depth
  <2> QED
    BY <1>5, <2>1, <2>2
<1> QED
  BY <1>1, <1>2, <1>3, <1>4, <1>5

-----------------------------------------------------------------------------
(* The invariant *)

\* What was recorded says what the forms are; the properties are the rest.
RowsInv ==
    /\ call \in Calls
    /\ recorded \in {"no", "refused", "plain", "broadcast"}
    /\ recorded \in {"no", "refused"} => result.is = "none"
    /\ recorded \in {"plain", "broadcast"} => CheckFillTypes(call)
    /\ recorded = "plain" => ~MixedRowSpaces(call)
    /\ UnflattenedFills
    /\ EventsNeverSlip
    /\ OffenderNamed

LEMMA NothingYet ==
    ASSUME result.is = "none"
    PROVE  UnflattenedFills /\ EventsNeverSlip /\ OffenderNamed
BY DEF UnflattenedFills, EventsNeverSlip, OffenderNamed

\* An unflattened value with nothing missing: its leaves are the chunk's own entries.
LEMMA WholeObject ==
    ASSUME call \in Calls, call.value = "object", call.missing = "no", NEW ck \in Chunks
    PROVE  Value(ck, call) = Own(ck) /\ Leaves(ck) = Flat(Own(ck)) /\ Leaves(ck) \in Seq(Tags)
<1>1. Whole(Own(ck)) /\ Own(ck) = [deep |-> TRUE, rows |-> Own(ck).rows]
  BY OwnIs DEF Whole, Deep
<1>2. Own(ck).rows \in Seq(Seq(Entries))
  BY <1>1 DEF Whole, Deep
<1>3. Without(ck, "no", Own(ck)) = Own(ck)
  BY <1>1, <1>2, WithoutNo
<1>4. Value(ck, call) = Own(ck)
  BY <1>3, ColumnsAre DEF Value
<1> QED
  BY <1>1, <1>4, FlatWhole DEF Leaves, Whole

\* Another axis of the chunk's own collection is as long as the value, and its own entries.
LEMMA SecondIs ==
    ASSUME call \in Calls, call.value = "object", NEW ck \in Chunks,
           call.second \in {NoRows, "object"}
    PROVE  /\ Lined(Agree, Leaves(ck), Seconds(ck)) /\ Leaves(ck) \in Seq(Tags)
           /\ call.missing = "no" => Len(Seconds(ck)) = Len(Leaves(ck))
<1>1. Leaves(ck) \in Seq(Tags)
  <2>1. Deep(Value(ck, call))
    BY ObjectValue DEF LessGone
  <2> QED
    BY <2>1, FlatWhole DEF Leaves
<1>2. Column(ck, call, "object") = Own(ck)
  BY ColumnsAre
<1>3. CASE call.second = NoRows
  <2>1. Seconds(ck) = Leaves(ck)
    BY <1>3 DEF Seconds
  <2> DEFINE u == Leaves(ck)
             S == Tags
  <2>2. ASSUME NEW t \in S PROVE <<t, t>> \in Agree
    BY SameEntry
  <2>3. u \in Seq(S)
    BY <1>1
  <2> HIDE DEF u, S
  <2>4. Len(u) \in Nat /\ \A k \in 1 .. Len(u) : u[k] \in S
    BY <2>3
  <2>5. Lined(Agree, u, u)
    BY <2>2, <2>4 DEF Lined
  <2> QED
    BY <1>1, <2>1, <2>5 DEF u
<1>4. CASE call.second = "object"
  <2>1. "object" # NoRows
    BY NoRowsAssumption DEF Kinds
  <2>2. Seconds(ck) = Flat(Own(ck))
    BY <1>2, <1>4, <2>1 DEF Seconds
  <2>3. Lined(Agree, Leaves(ck), Seconds(ck))
    BY <2>2, OwnPaired DEF Leaves
  <2> QED
    BY <1>1, <2>2, <2>3, WholeObject
<1> QED
  BY <1>3, <1>4

\* Where no broadcast is recorded and nothing is missing, a factor is per object or a scalar.
LEMMA PlainFactor ==
    ASSUME call \in Calls, call.value = "object", call.missing = "no", recorded = "plain",
           NEW ck \in Chunks, NEW carried, NEW i, call.factors[i] \in {"object", "scalar"}
    PROVE  /\ LongAsValue(ck, Factor(ck, carried, i))
           /\ call.factors[i] = "object" =>
                Lined(Agree, Leaves(ck), Flat(Factor(ck, carried, i)))
<1>1. Factor(ck, carried, i) = Column(ck, call, call.factors[i])
  BY DEF Factor, LinedUp
<1>2. CASE call.factors[i] = "object"
  <2>1. Factor(ck, carried, i) = Own(ck)
    BY <1>1, <1>2, ColumnsAre
  <2>2. Own(ck) \notin {Blamed, Raised}
    BY OwnIs, HasRows DEF Whole
  <2>3. Lined(Agree, Leaves(ck), Flat(Own(ck)))
    BY OwnPaired DEF Leaves
  <2> QED
    BY <2>1, <2>2, <2>3, WholeObject DEF LongAsValue
<1>3. CASE call.factors[i] = "scalar"
  <2>1. Factor(ck, carried, i) = [deep |-> FALSE, rows |-> NoRows]
    BY <1>1, <1>3, ColumnsAre
  <2> QED
    BY <1>3, <2>1, ColumnsDiffer DEF LongAsValue
<1> QED
  BY <1>2, <1>3

\* With a broadcast recorded and nothing missing, a factor is blamed or as long as the value.
LEMMA BroadcastFactor ==
    ASSUME call \in Calls, CheckFillTypes(call), recorded = "broadcast", call.missing = "no",
           NEW ck \in Chunks, NEW carried, NEW i \in DOMAIN call.factors,
           call.factors[i] # "other", call.value = "event" => call.factors[i] # "object"
    PROVE  LET f == call.factors[i]
           IN IF f = "scalar" \/ Fit(Value(ck, call), Column(ck, call, f))
              THEN LongAsValue(ck, Factor(ck, carried, i))
              ELSE Factor(ck, carried, i) = Blamed
<1>1. /\ call.value \in {"event", "object", "flat"}
      /\ call.factors[i] \in {"event", "object", "flat", "selected", "scalar"}
  BY OperandsAre DEF Kinds
<1> QED
  BY <1>1, NoneMissing DEF LongAsValue, Factor, Leaves

\* Unflattened with nothing missing, every column is as long as the value.
LEMMA UnflattenedLong ==
    ASSUME RowsInv, recorded \in {"plain", "broadcast"}, NEW ck \in Chunks, NEW carried,
           call.value = "object", call.missing = "no", call.second \in {NoRows, "object", "flat"},
           ToSet(call.factors) \subseteq {"event", "object", "flat", "scalar"}
    PROVE  AllLong(ck, carried)
<1> DEFINE D == DOMAIN call.factors
<1>1. call \in Calls /\ CheckFillTypes(call)
  BY DEF RowsInv
<1>2. Len(Seconds(ck)) = Len(Leaves(ck))
  BY <1>1, OperandsAre, SecondIs
<1>3. \A i \in D : call.factors[i] \in {"event", "object", "flat", "scalar"}
  BY <1>1, OperandsAre
<1>4. ASSUME NEW i \in D PROVE LongAsValue(ck, Factor(ck, carried, i))
  <2>1. CASE recorded = "plain"
    <3>1. ~MixedRowSpaces(call)
      BY <2>1 DEF RowsInv
    <3>2. call.factors[i] \in {"object", "scalar"}
      BY <1>1, <1>3, <1>4, <3>1, OperandsAre
    <3> QED
      BY <1>1, <2>1, <3>2, PlainFactor
  <2>2. CASE recorded = "broadcast"
    <3> DEFINE f == call.factors[i]
    <3>1. f = "scalar" \/ Fit(Value(ck, call), Column(ck, call, f))
      <4>1. Value(ck, call) = Own(ck) /\ Len(Own(ck).rows) = Len(ck)
        BY <1>1, WholeObject, OwnIs
      <4>2. f = "event" \/ f = "object" => Len(Column(ck, call, f).rows) = Len(ck)
        BY <1>1, ColumnsAre, OwnIs
      <4>3. f = "flat" => Column(ck, call, f).rows = Flat(Own(ck))
        <5>1. Whole(Own(ck)) /\ Own(ck) = [deep |-> TRUE, rows |-> Own(ck).rows]
          BY OwnIs DEF Whole, Deep
        <5>2. Own(ck).rows \in Seq(Seq(Entries))
          BY <5>1 DEF Whole, Deep
        <5>3. Without(ck, "no", Own(ck)) = Own(ck)
          BY <5>1, <5>2, WithoutNo
        <5> QED
          BY <1>1, <5>3, ColumnsAre
      <4> QED
        BY <1>3, <1>4, <4>1, <4>2, <4>3 DEF Fit
    <3> QED
      BY <1>1, <1>3, <1>4, <2>2, <3>1, BroadcastFactor
  <2> QED
    BY <2>1, <2>2
<1> QED
  BY <1>2, <1>4 DEF AllLong

LEMMA UnflattenedStep ==
    ASSUME RowsInv, NEW ck \in Chunks, NEW carried, NEW repeats, Chunk(ck, carried, repeats)
    PROVE  UnflattenedFills'
<1> SUFFICES ASSUME call.value = "object", call.missing = "no",
                    call.second \in {NoRows, "object", "flat"},
                    ToSet(call.factors) \subseteq {"event", "object", "flat", "scalar"}
             PROVE  result'.is = "filled"
  BY DEF UnflattenedFills, Chunk
<1>1. recorded \in {"plain", "broadcast"}
  BY DEF Chunk
<1>2. AllLong(ck, carried)
  BY <1>1, UnflattenedLong
<1>3. \A i \in DOMAIN call.factors : Factor(ck, carried, i) \notin {Blamed, Raised}
  BY <1>2 DEF AllLong, LongAsValue
<1>4. result' = FilledWith(ck, carried, LengthOf(Lens(ck, carried)))
  BY <1>2, <1>3, InStepAsIs, ChunkGives
<1> QED
  BY <1>4 DEF FilledWith

\* Columns in step stay so when both are of a single entry that is repeated.
LEMMA RepeatedAligned ==
    ASSUME NEW u \in Seq(Tags), NEW v, Lined(Agree, u, v), Len(u) = Len(v)
    PROVE  Aligned(Repeated(u, Len(u)), Repeated(v, Len(u)))
<1>1. CASE Len(u) = 1
  <2>1. With(u[1], v[1])
    BY <1>1 DEF Lined, Agree
  <2> QED
    BY <1>1, <2>1 DEF Repeated, Aligned
<1>2. CASE Len(u) # 1
  <2>1. Repeated(u, Len(u)) = u /\ Repeated(v, Len(u)) = v
    BY <1>2 DEF Repeated
  <2> QED
    BY <2>1, LinedAgree
<1> QED
  BY <1>1, <1>2

LEMMA NeverSlipStep ==
    ASSUME RowsInv, NEW ck \in Chunks, NEW carried, NEW repeats, Chunk(ck, carried, repeats)
    PROVE  EventsNeverSlip'
<1> SUFFICES ASSUME result'.is = "filled", call.value = "object",
                    call.missing = "no" \/ (recorded = "broadcast" /\ Len(Leaves(ck)) # 1),
                    call.second \in {NoRows, "object"},
                    ToSet(call.factors) \subseteq {"event", "object"}
             PROVE  /\ Aligned(result'.value, result'.second)
                    /\ \A i \in DOMAIN result'.factors : Aligned(result'.value, result'.factors[i])
  <2>1. chunk' = ck /\ call' = call /\ recorded' = recorded
    BY DEF Chunk
  <2>2. Present(chunk)' = Len(Leaves(ck))
    BY <2>1 DEF Present, Leaves
  <2> QED
    BY <2>1, <2>2 DEF EventsNeverSlip, Aligned, With
<1> DEFINE F(i) == Factor(ck, carried, i)
           n == LengthOf(Lens(ck, carried))
           L == Len(Leaves(ck))
<1>1. call \in Calls /\ CheckFillTypes(call) /\ recorded \in {"plain", "broadcast"}
  BY DEF RowsInv, Chunk
<1>2. /\ \A i \in DOMAIN call.factors : F(i) \notin {Blamed, Raised}
      /\ InStep(FactorLens(ck, carried))
      /\ Lens(ck, carried) = {n} \/ InStep(Lens(ck, carried))
      /\ result' = FilledWith(ck, carried, n)
  <2>1. \A i : result' # [is |-> "blamed", factor |-> i]
    OBVIOUS
  <2>2. result' # Raised
    BY DEF Raised
  <2> QED
    BY <2>1, <2>2, ChunkGives
<1>3. Lined(Agree, Leaves(ck), Seconds(ck)) /\ Leaves(ck) \in Seq(Tags)
  BY <1>1, SecondIs
<1>4. ASSUME NEW i \in FactorRows(ck, carried) PROVE Lined(Agree, Leaves(ck), Flat(F(i)))
  <2>0. i \in DOMAIN call.factors
    BY DEF FactorRows
  <2>1. call.factors[i] \in {"event", "object"}
    BY <1>1, <2>0, OperandsAre
  <2>2. CASE recorded = "plain"
    <3>1. ~MixedRowSpaces(call) /\ call.missing = "no"
      BY <2>2 DEF RowsInv
    <3>2. call.factors[i] = "object"
      BY <1>1, <2>0, <2>1, <3>1, OperandsAre
    <3> QED
      BY <1>1, <2>2, <3>1, <3>2, PlainFactor
  <2>3. CASE recorded = "broadcast"
    BY <1>1, <2>1, <2>3, FactorPaired DEF Factor, Leaves
  <2> QED
    BY <1>1, <2>2, <2>3
<1>5. L \in Nat
  BY <1>3
<1>6. AllLong(ck, carried) \/ L = 0
  <2>1. CASE call.missing = "no"
    BY <1>1, <2>1, UnflattenedLong
  <2>2. CASE call.missing # "no" /\ L # 0
    <3>1. L > 1
      <4>1. L # 1 /\ L # 0
        BY <2>2
      <4> HIDE DEF L
      <4> QED
        BY <1>5, <4>1
    <3>2. L <= Len(Seconds(ck)) /\ \A i \in FactorRows(ck, carried) : L <= Len(Flat(F(i)))
      BY <1>3, <1>4 DEF Lined
    <3> QED
      BY <1>2, <1>5, <3>1, <3>2, InStepLong
  <2> QED
    BY <2>1, <2>2
<1>7. /\ result'.value = Repeated(Leaves(ck), n) /\ result'.second = Repeated(Seconds(ck), n)
      /\ result'.factors = [i \in FactorRows(ck, carried) |-> Repeated(Flat(F(i)), n)]
  BY <1>2 DEF FilledWith
<1>8. CASE AllLong(ck, carried)
  <2>1. n = L /\ Len(Seconds(ck)) = L
    BY <1>8, InStepAsIs DEF AllLong
  <2>2. \A i \in FactorRows(ck, carried) : Len(Flat(F(i))) = L
    BY <1>8 DEF AllLong, LongAsValue, FactorRows
  <2>3. Aligned(Repeated(Leaves(ck), n), Repeated(Seconds(ck), n))
    BY <1>3, <2>1, RepeatedAligned
  <2>4. ASSUME NEW i \in FactorRows(ck, carried)
        PROVE  Aligned(Repeated(Leaves(ck), n), Repeated(Flat(F(i)), n))
    BY <1>3, <1>4, <2>1, <2>2, RepeatedAligned
  <2> HIDE DEF F, n, L
  <2> QED
    BY <1>7, <2>3, <2>4
<1>9. CASE L = 0
  <2>1. Repeated(Leaves(ck), n) = <<>>
    BY <1>3, <1>9 DEF Repeated
  <2>2. \A v : Aligned(<<>>, v)
    BY DEF Aligned
  <2> HIDE DEF F, n, L
  <2> QED
    BY <1>7, <2>1, <2>2
<1> QED
  BY <1>6, <1>8, <1>9

LEMMA OffenderStep ==
    ASSUME RowsInv, NEW ck \in Chunks, NEW carried, NEW repeats, Chunk(ck, carried, repeats)
    PROVE  OffenderNamed'
<1> DEFINE fits(f) == f = "scalar" \/ Fit(Value(ck, call), Column(ck, call, f))
<1> SUFFICES ASSUME recorded = "broadcast", call.missing = "no", call.second = NoRows,
                    "other" \notin Forms, ~(call.value = "event" /\ "object" \in Forms)
             PROVE  /\ result'.is # "raised"
                    /\ result'.is = "blamed" => ~fits(call.factors[result'.factor])
  BY DEF OffenderNamed, Forms, Present, Fit, Chunk, ColumnsOf
<1> DEFINE D == DOMAIN call.factors
<1>1. call \in Calls /\ CheckFillTypes(call)
  BY DEF RowsInv, Chunk
<1>2. Seconds(ck) = Leaves(ck)
  BY DEF Seconds
<1>3. ASSUME NEW i \in D
      PROVE  IF fits(call.factors[i]) THEN LongAsValue(ck, Factor(ck, carried, i))
             ELSE Factor(ck, carried, i) = Blamed
  <2>1. call.factors[i] \in Forms
    BY <1>1, <1>3, OperandsAre DEF Forms
  <2>2. call.factors[i] # "other" /\ (call.value = "event" => call.factors[i] # "object")
    BY <2>1
  <2> HIDE DEF D
  <2> QED
    BY <1>1, <1>3, <2>2, BroadcastFactor DEF D
<1>4. \A i \in D : /\ Factor(ck, carried, i) # Raised
                   /\ Factor(ck, carried, i) = Blamed => ~fits(call.factors[i])
                   /\ Factor(ck, carried, i) # Blamed => LongAsValue(ck, Factor(ck, carried, i))
  BY <1>3, BlamedRaised DEF LongAsValue
<1> HIDE DEF fits
<1>5. \/ \E i \in D : /\ Factor(ck, carried, i) = Blamed
                      /\ result' = [is |-> "blamed", factor |-> i]
      \/ result' = FilledWith(ck, carried, LengthOf(Lens(ck, carried)))
  <2>1. ASSUME \A i \in D : Factor(ck, carried, i) # Blamed
        PROVE  result' = FilledWith(ck, carried, LengthOf(Lens(ck, carried)))
    <3>1. AllLong(ck, carried)
      BY <1>2, <1>4, <2>1 DEF AllLong
    <3> QED
      BY <1>4, <2>1, <3>1, InStepAsIs, ChunkGives
  <2>2. ASSUME NEW i \in D, Factor(ck, carried, i) = Blamed
        PROVE  \E k \in D : /\ Factor(ck, carried, k) = Blamed
                            /\ result' = [is |-> "blamed", factor |-> k]
    BY <1>4, <2>2, ChunkGives
  <2> QED
    BY <2>1, <2>2
<1>6. ASSUME NEW i \in D, Factor(ck, carried, i) = Blamed,
             result' = [is |-> "blamed", factor |-> i]
      PROVE  result'.is # "raised" /\ ~fits(call.factors[result'.factor])
  BY <1>4, <1>6
<1>7. FilledWith(ck, carried, LengthOf(Lens(ck, carried))).is = "filled"
  BY DEF FilledWith
<1> QED
  BY <1>5, <1>6, <1>7

LEMMA RecordStep == ASSUME RowsInv, Record PROVE RowsInv'
<1>1. result'.is = "none" /\ call' = call
  BY DEF RowsInv, Record
<1>2. UnflattenedFills' /\ EventsNeverSlip' /\ OffenderNamed'
  BY <1>1 DEF UnflattenedFills, EventsNeverSlip, OffenderNamed
<1>3. /\ recorded' \in {"refused", "plain", "broadcast"}
      /\ recorded' \in {"plain", "broadcast"} => CheckFillTypes(call)
      /\ recorded' = "plain" => ~MixedRowSpaces(call)
  BY DEF Record
<1>4. CheckFillTypes(call)' <=> CheckFillTypes(call)
  BY <1>1 DEF CheckFillTypes, ColumnsOf
<1>5. MixedRowSpaces(call)' <=> MixedRowSpaces(call)
  BY <1>1 DEF MixedRowSpaces
<1> QED
  BY <1>1, <1>2, <1>3, <1>4, <1>5 DEF RowsInv

LEMMA ChunkStep ==
    ASSUME RowsInv, NEW ck \in Chunks, NEW carried, NEW repeats, Chunk(ck, carried, repeats)
    PROVE  RowsInv'
<1>1. call' = call /\ recorded' = recorded /\ recorded \in {"plain", "broadcast"}
  BY DEF Chunk
<1>2. UnflattenedFills' /\ EventsNeverSlip' /\ OffenderNamed'
  BY UnflattenedStep, NeverSlipStep, OffenderStep
<1>3. CheckFillTypes(call)' <=> CheckFillTypes(call)
  BY <1>1 DEF CheckFillTypes, ColumnsOf
<1>4. MixedRowSpaces(call)' <=> MixedRowSpaces(call)
  BY <1>1 DEF MixedRowSpaces
<1> QED
  BY <1>1, <1>2, <1>3, <1>4 DEF RowsInv

\* What was recorded fits the forms, and the three properties of a fill's rows hold.
THEOREM RowsInvariant == RowsSpec => []RowsInv
<1>1. RowsInit => RowsInv
  <2> SUFFICES ASSUME RowsInit PROVE RowsInv
    OBVIOUS
  <2>1. result.is = "none"
    BY DEF RowsInit
  <2> QED
    BY <2>1, NothingYet DEF RowsInit, RowsInv
<1>2. ASSUME RowsInv, RowsNext PROVE RowsInv'
  BY <1>2, RecordStep, ChunkStep DEF RowsNext
<1>3. ASSUME RowsInv, UNCHANGED rowsVars PROVE RowsInv'
  BY <1>3 DEF rowsVars, RowsInv, UnflattenedFills, EventsNeverSlip, OffenderNamed, Forms, Present
<1> QED
  BY <1>1, <1>2, <1>3, PTL DEF RowsSpec

\* Whatever a chunk's counts, an unflattened fill never raises: an axis or a sample of the
\* same objects has as many entries, and every factor takes the value's counts.
THEOREM UnflattenedFillsHolds == RowsSpec => []UnflattenedFills
<1>1. RowsInv => UnflattenedFills
  BY DEF RowsInv
<1> QED
  BY <1>1, RowsInvariant, PTL

\* On every chunk, the ones whose counts agree by chance as well, an entry is filled with
\* its own event's weight or its own: the guard reads the outer rows first, and a broadcast
\* drops the entries the value misses only where the value misses them.  (But for a value
\* with missing entries left with a single one, which boost may repeat.)
THEOREM EventsNeverSlipHolds == RowsSpec => []EventsNeverSlip
<1>1. RowsInv => EventsNeverSlip
  BY DEF RowsInv
<1> QED
  BY <1>1, RowsInvariant, PTL

\* A factor at no row space of the value is the one that is blamed, never left to raise.
THEOREM OffenderNamedHolds == RowsSpec => []OffenderNamed
<1>1. RowsInv => OffenderNamed
  BY DEF RowsInv
<1> QED
  BY <1>1, RowsInvariant, PTL

-----------------------------------------------------------------------------
(* Partials and how often a fill is in them *)

PartialKinds == {BH} \cup UNION {{lay[s].kind : s \in DOMAIN lay} : lay \in Layouts}
PartialType == [rep : {"dense", "chunked"}, kind : PartialKinds, bag : [Cells -> Nat]]

OneFill(t, o) == [NoFills EXCEPT ![<<t, o>>] = 1]

\* How often output o is among the first j reads, and what they sum to, of task t; and
\* what all reads sum to, of the tasks of a value.
ReadUpto(reads, j, o) == Cardinality({k \in 1 .. j : reads[k] = o})
Sofar(t, reads, j) == [c \in Cells |-> IF c[1] = t THEN ReadUpto(reads, j, c[2]) ELSE 0]
AllReads(v, reads) ==
    [c \in Cells |-> IF c[1] \in v.first .. v.last
                     THEN ReadUpto(reads, Len(reads), c[2]) ELSE 0]

LEMMA SumType ==
    ASSUME NEW a \in PartialType, NEW b \in PartialType
    PROVE  Sum(a, b) \in PartialType /\ Sum(a, b).bag = Plus(a.bag, b.bag)
<1>1. \A c \in Cells : a.bag[c] \in Nat /\ b.bag[c] \in Nat /\ a.bag[c] + b.bag[c] \in Nat
  BY DEF PartialType
<1>2. Plus(a.bag, b.bag) \in [Cells -> Nat]
  BY <1>1 DEF Plus
<1> QED
  BY <1>2 DEF Sum, Partial, PartialType

\* One more read is of its output and of no other.
LEMMA UptoNext ==
    ASSUME NEW reads, NEW j \in Nat, NEW o
    PROVE  /\ ReadUpto(reads, j, o) \in Nat /\ ReadUpto(reads, 0, o) = 0
           /\ ReadUpto(reads, j + 1, o) = ReadUpto(reads, j, o) + IF reads[j + 1] = o THEN 1 ELSE 0
<1> DEFINE A(m) == {k \in 1 .. m : reads[k] = o}
<1>1. IsFiniteSet(A(j))
  <2>1. IsFiniteSet(1 .. j)
    BY FS_Interval
  <2> QED
    BY <2>1, FS_Subset
<1>2. j + 1 \notin A(j)
  OBVIOUS
<1>3. A(j + 1) = IF reads[j + 1] = o THEN A(j) \cup {j + 1} ELSE A(j)
  <2>1. 1 .. j + 1 = (1 .. j) \cup {j + 1}
    OBVIOUS
  <2> QED
    BY <2>1
<1>4. Cardinality(A(j + 1)) = Cardinality(A(j)) + IF reads[j + 1] = o THEN 1 ELSE 0
  <2>1. /\ Cardinality(A(j) \cup {j + 1}) = Cardinality(A(j)) + 1
        /\ Cardinality(A(j)) \in Nat
    <3> DEFINE X == A(j)
    <3> HIDE DEF X
    <3>1. IsFiniteSet(X) /\ j + 1 \notin X
      BY <1>1, <1>2 DEF X
    <3>2. Cardinality(X \cup {j + 1}) = Cardinality(X) + 1 /\ Cardinality(X) \in Nat
      BY <3>1, FS_AddElement, FS_CardinalityType
    <3> QED
      BY <3>2 DEF X
  <2> HIDE DEF A
  <2> QED
    BY <1>3, <2>1
<1>5. A(0) = {} /\ Cardinality(A(j)) \in Nat
  BY <1>1, FS_CardinalityType
<1> QED
  BY <1>4, <1>5, FS_EmptySet DEF ReadUpto

-----------------------------------------------------------------------------
(* The invariant of the sums *)

TypeInv ==
    /\ layout \in Layouts
    /\ heap \in Seq(PartialType)
    /\ fills \in [1 .. Tasks -> {<<>>} \cup [1 .. Outputs -> 1 .. Len(heap)]]
    /\ group \in [1 .. Tasks -> [DOMAIN layout -> (1 .. Len(heap)) \cup {None}]]
    /\ at = <<Task, Slot, at[3]>>
    /\ Task \in 1 .. Tasks + 1 /\ Slot \in DOMAIN layout
    /\ at[3] \in 1 .. Len(layout[Slot].reads) + 1
    /\ \A v \in values :
        /\ v.first \in Nat /\ v.last \in Nat /\ v.first <= v.last + 1
        /\ v.slots \in [DOMAIN layout -> 1 .. Len(heap)]

\* Fills and finished values hold what they should.
FillsInv ==
    \A t \in 1 .. Tasks : fills[t] # <<>> =>
        /\ t <= Task
        /\ \A o \in 1 .. Outputs : heap[fills[t][o]].bag = OneFill(t, o)
ValuesInv ==
    \A v \in values : \A s \in DOMAIN layout : heap[v.slots[s]].bag = AllReads(v, layout[s].reads)

\* The task's totals: whole before the slot, a prefix of the reads at it, none after.
TotalsInv ==
    /\ Task <= Tasks => \A s \in DOMAIN layout :
        /\ group[Task][s] # None => fills[Task] # <<>>
        /\ s < Slot =>
            group[Task][s] # None
            /\ heap[group[Task][s]].bag = Sofar(Task, layout[s].reads, Len(layout[s].reads))
        /\ s = Slot =>
            IF group[Task][s] = None THEN at[3] = 1
            ELSE heap[group[Task][s]].bag = Sofar(Task, layout[s].reads, at[3] - 1)
        /\ s > Slot => group[Task][s] = None
    /\ \A t \in 1 .. Tasks : t > Task => \A s \in DOMAIN layout : group[t][s] = None

\* They are the task's own until it is done: no value, no fill and no other slot's total.
ApartInv ==
    Task <= Tasks => \A s \in DOMAIN layout : group[Task][s] # None =>
        /\ group[Task][s] \notin Values \cup Fills
        /\ \A r \in DOMAIN layout : r # s => group[Task][r] # group[Task][s]

SharedInv == TypeInv /\ FillsInv /\ ValuesInv /\ TotalsInv /\ ApartInv

LEMMA Facts ==
    ASSUME TypeInv
    PROVE  /\ Len(heap) \in Nat /\ DOMAIN heap = 1 .. Len(heap)
           /\ \A n \in 1 .. Len(heap) : heap[n] \in PartialType
           /\ Len(layout) \in Nat \ {0} /\ DOMAIN layout = 1 .. Len(layout)
           /\ \A s \in DOMAIN layout :
                /\ layout[s].reads \in Seq(1 .. Outputs) /\ Len(layout[s].reads) \in Nat
                /\ \A j \in 1 .. Len(layout[s].reads) : layout[s].reads[j] \in 1 .. Outputs
           /\ Tasks \in Nat /\ Tasks > 0 /\ Outputs \in Nat
<1>1. heap \in Seq(PartialType) /\ layout \in Layouts
  BY DEF TypeInv
<1>2. /\ Len(heap) \in Nat /\ DOMAIN heap = 1 .. Len(heap)
      /\ \A n \in 1 .. Len(heap) : heap[n] \in PartialType
  BY <1>1
<1>3. /\ Len(layout) \in Nat \ {0} /\ DOMAIN layout = 1 .. Len(layout)
      /\ \A s \in DOMAIN layout : layout[s].reads \in Seq(1 .. Outputs)
  BY <1>1, LayoutsAssumption
<1>4. ASSUME NEW s \in DOMAIN layout
      PROVE  /\ Len(layout[s].reads) \in Nat
             /\ \A j \in 1 .. Len(layout[s].reads) : layout[s].reads[j] \in 1 .. Outputs
  <2> DEFINE r == layout[s].reads
  <2>1. r \in Seq(1 .. Outputs)
    BY <1>3
  <2> HIDE DEF r
  <2>2. Len(r) \in Nat /\ \A j \in 1 .. Len(r) : r[j] \in 1 .. Outputs
    BY <2>1, LenProperties, ElementOfSeq
  <2> QED
    BY <2>2 DEF r
<1> QED
  BY <1>2, <1>3, <1>4, NumbersAssumption

\* What is in Values and Fills.
LEMMA Members ==
    ASSUME TypeInv
    PROVE  /\ \A v \in values : \A s \in DOMAIN layout :
                v.slots[s] \in Values /\ v.slots[s] \in 1 .. Len(heap)
           /\ \A t \in 1 .. Tasks : fills[t] # <<>> => \A o \in 1 .. Outputs :
                fills[t][o] \in Fills /\ fills[t][o] \in 1 .. Len(heap)
           /\ Values \subseteq 1 .. Len(heap) /\ Fills \subseteq 1 .. Len(heap)
<1>1. \A v \in values : v.slots \in [DOMAIN layout -> 1 .. Len(heap)]
  BY DEF TypeInv
<1>2. \A t \in 1 .. Tasks : fills[t] = <<>> \/ fills[t] \in [1 .. Outputs -> 1 .. Len(heap)]
  BY DEF TypeInv
<1>3. ASSUME NEW t \in 1 .. Tasks PROVE ToSet(fills[t]) \subseteq 1 .. Len(heap)
  <2>1. CASE fills[t] = <<>>
    BY <2>1 DEF ToSet
  <2>2. CASE fills[t] \in [1 .. Outputs -> 1 .. Len(heap)]
    BY <2>2 DEF ToSet
  <2> QED
    BY <1>2, <2>1, <2>2
<1>4. \A t \in 1 .. Tasks : fills[t] # <<>> => \A o \in 1 .. Outputs :
        fills[t][o] \in ToSet(fills[t]) /\ fills[t][o] \in 1 .. Len(heap)
  BY <1>2 DEF ToSet
<1> QED
  BY <1>1, <1>3, <1>4 DEF Values, Fills

LEMMA ZeroType ==
    ASSUME layout \in Layouts, NEW s \in DOMAIN layout
    PROVE  Zero(layout[s]) \in PartialType /\ Zero(layout[s]).bag = NoFills
<1>1. layout[s].kind \in PartialKinds /\ NoFills \in [Cells -> Nat]
  BY DEF PartialKinds, NoFills
<1> QED
  BY <1>1 DEF Zero, Partial, PartialType

LEMMA SharedInitInv == Init => SharedInv
<1> SUFFICES ASSUME Init PROVE SharedInv
  OBVIOUS
<1>1. layout \in Layouts /\ Len(layout) \in Nat \ {0} /\ DOMAIN layout = 1 .. Len(layout)
  BY LayoutsAssumption DEF Init
<1>2. heap \in Seq(PartialType) /\ Len(heap) = Len(layout)
      /\ \A s \in DOMAIN layout : heap[s].bag = NoFills
  <2>1. heap \in [1 .. Len(layout) -> PartialType]
    BY <1>1, ZeroType DEF Init
  <2>2. heap \in Seq(PartialType)
    BY <1>1, <2>1, SeqDef
  <2>3. DOMAIN heap = 1 .. Len(heap) /\ Len(heap) \in Nat
    BY <2>2
  <2>4. Len(heap) = Len(layout)
    BY <1>1, <2>1, <2>2, <2>3, LenProperties
  <2> QED
    BY <1>1, <2>2, <2>4, ZeroType DEF Init
<1>3. Task = 1 /\ Slot = 1 /\ at[3] = 1 /\ at = <<1, 1, 1>>
  BY DEF Init, Task, Slot
<1>4. /\ \A t \in 1 .. Tasks : fills[t] = <<>>
      /\ \A t \in 1 .. Tasks : group[t] = [s \in DOMAIN layout |-> None]
  BY DEF Init
<1>5. TypeInv
  <2>1. fills \in [1 .. Tasks -> {<<>>} \cup [1 .. Outputs -> 1 .. Len(heap)]]
    BY DEF Init
  <2>2. group \in [1 .. Tasks -> [DOMAIN layout -> (1 .. Len(heap)) \cup {None}]]
    BY DEF Init
  <2>3. Task \in 1 .. Tasks + 1 /\ Slot \in DOMAIN layout
    BY <1>1, <1>3, NumbersAssumption
  <2>4. at[3] \in 1 .. Len(layout[Slot].reads) + 1
    <3>1. layout[Slot].reads \in Seq(1 .. Outputs)
      BY <1>1, <2>3, LayoutsAssumption
    <3>2. Len(layout[Slot].reads) \in Nat
      BY <3>1
    <3> QED
      BY <1>3, <3>2
  <2>5. ASSUME NEW v \in values
        PROVE  /\ v.first \in Nat /\ v.last \in Nat /\ v.first <= v.last + 1
               /\ v.slots \in [DOMAIN layout -> 1 .. Len(heap)]
    <3>1. v.first = 1 /\ v.last = 0 /\ v.slots = [s \in DOMAIN layout |-> s]
      BY DEF Init
    <3> QED
      BY <1>1, <1>2, <3>1
  <2> QED
    BY <1>1, <1>2, <1>3, <2>1, <2>2, <2>3, <2>4, <2>5 DEF TypeInv
<1>6. FillsInv
  BY <1>4 DEF FillsInv
<1>7. ValuesInv
  <2> SUFFICES ASSUME NEW v \in values, NEW s \in DOMAIN layout
               PROVE  heap[v.slots[s]].bag = AllReads(v, layout[s].reads)
    BY DEF ValuesInv
  <2>1. v.first = 1 /\ v.last = 0 /\ v.slots[s] = s
    BY DEF Init
  <2>2. v.first .. v.last = {}
    BY <2>1
  <2>3. AllReads(v, layout[s].reads) = NoFills
    BY <2>2 DEF AllReads, NoFills
  <2> QED
    BY <1>2, <2>1, <2>3
<1>8. TotalsInv
  <2>1. \A t \in 1 .. Tasks : \A s \in DOMAIN layout : group[t][s] = None
    BY <1>4
  <2>2. \A s \in DOMAIN layout : ~(s < Slot)
    BY <1>1, <1>3
  <2> QED
    BY <1>3, <2>1, <2>2, NumbersAssumption DEF TotalsInv
<1>9. ApartInv
  <2>1. \A t \in 1 .. Tasks : \A s \in DOMAIN layout : group[t][s] = None
    BY <1>4
  <2> QED
    BY <1>3, <2>1, NumbersAssumption DEF ApartInv
<1> QED
  BY <1>5, <1>6, <1>7, <1>8, <1>9 DEF SharedInv

-----------------------------------------------------------------------------
(* Steps of the sums *)

\* The heap only grows, but for what is listed.
Keeps(S) ==
    /\ Len(heap') \in Nat /\ Len(heap) <= Len(heap')
    /\ \A n \in (1 .. Len(heap)) \ S : heap'[n] = heap[n]

LEMMA FillsKept ==
    ASSUME TypeInv, FillsInv, NEW S, S \cap Fills = {}, Keeps(S),
           UNCHANGED fills, Task <= Task', Task' \in Nat
    PROVE  FillsInv'
<1> SUFFICES ASSUME NEW t \in 1 .. Tasks, fills[t] # <<>>
             PROVE  t <= Task' /\ \A o \in 1 .. Outputs : heap'[fills[t][o]].bag = OneFill(t, o)
  BY DEF FillsInv
<1>1. t <= Task'
  BY NumbersAssumption DEF FillsInv, TypeInv
<1>2. ASSUME NEW o \in 1 .. Outputs PROVE heap'[fills[t][o]].bag = OneFill(t, o)
  <2>1. fills[t][o] \in Fills /\ fills[t][o] \in 1 .. Len(heap)
    BY Members
  <2>2. heap'[fills[t][o]] = heap[fills[t][o]]
    BY <2>1 DEF Keeps
  <2> QED
    BY <2>2 DEF FillsInv
<1> QED
  BY <1>1, <1>2

LEMMA ValuesKept ==
    ASSUME TypeInv, ValuesInv, NEW S, S \cap Values = {}, Keeps(S), UNCHANGED layout,
           NEW v \in values, NEW s \in DOMAIN layout
    PROVE  heap'[v.slots[s]].bag = AllReads(v, layout[s].reads)
<1>1. v.slots[s] \in Values /\ v.slots[s] \in 1 .. Len(heap)
  BY Members
<1>2. heap'[v.slots[s]] = heap[v.slots[s]]
  BY <1>1 DEF Keeps
<1> QED
  BY <1>2 DEF ValuesInv

\* Whatever the heap grows to, the types stay.
LEMMA TypesGrow ==
    ASSUME TypeInv, Len(heap') \in Nat, Len(heap) <= Len(heap'), UNCHANGED layout
    PROVE  /\ fills \in [1 .. Tasks -> {<<>>} \cup [1 .. Outputs -> 1 .. Len(heap')]]
           /\ group \in [1 .. Tasks -> [DOMAIN layout -> (1 .. Len(heap')) \cup {None}]]
           /\ \A v \in values :
                /\ v.first \in Nat /\ v.last \in Nat /\ v.first <= v.last + 1
                /\ v.slots \in [DOMAIN layout -> 1 .. Len(heap')]
<1>1. 1 .. Len(heap) \subseteq 1 .. Len(heap')
  BY Facts
<1>2. \A D : [D -> 1 .. Len(heap)] \subseteq [D -> 1 .. Len(heap')]
  BY <1>1
<1>3. [DOMAIN layout -> (1 .. Len(heap)) \cup {None}]
        \subseteq [DOMAIN layout -> (1 .. Len(heap')) \cup {None}]
  BY <1>1
<1>4. fills \in [1 .. Tasks -> {<<>>} \cup [1 .. Outputs -> 1 .. Len(heap')]]
  BY <1>2 DEF TypeInv
<1>5. group \in [1 .. Tasks -> [DOMAIN layout -> (1 .. Len(heap')) \cup {None}]]
  BY <1>3 DEF TypeInv
<1>6. \A v \in values :
        /\ v.first \in Nat /\ v.last \in Nat /\ v.first <= v.last + 1
        /\ v.slots \in [DOMAIN layout -> 1 .. Len(heap')]
  BY <1>2 DEF TypeInv
<1> QED
  BY <1>4, <1>5, <1>6

LEMMA EvaluateKeeps ==
    ASSUME SharedInv, NEW reps \in [1 .. Outputs -> {"chunked", "dense"}], Evaluate(reps)
    PROVE  SharedInv' /\ Keeps({})
<1> USE DEF SharedInv
<1> DEFINE new == [o \in 1 .. Outputs |->
                    Partial(reps[o], BH, [NoFills EXCEPT ![<<Task, o>>] = 1])]
           mine == [o \in 1 .. Outputs |-> Len(heap) + o]
           n == Len(heap)
<1>1. /\ Task \in 1 .. Tasks /\ fills[Task] = <<>>
      /\ heap' = heap \o new /\ fills' = [fills EXCEPT ![Task] = mine]
      /\ UNCHANGED <<layout, group, at, values>>
  BY Facts DEF Evaluate, TypeInv
<1>2. new \in [1 .. Outputs -> PartialType] /\ \A o \in 1 .. Outputs : new[o].bag = OneFill(Task, o)
  <2>1. ASSUME NEW o \in 1 .. Outputs PROVE OneFill(Task, o) \in [Cells -> Nat]
    BY <1>1 DEF OneFill, NoFills, Cells
  <2>2. BH \in PartialKinds
    BY DEF PartialKinds
  <2> QED
    BY <2>1, <2>2 DEF Partial, PartialType, OneFill
<1> HIDE DEF new
<1>3. /\ new \in Seq(PartialType) /\ Len(new) = Outputs
  <2>1. new \in Seq(PartialType)
    BY <1>2, Facts, SeqDef
  <2> QED
    BY <1>2, <2>1, Facts, LenProperties
<1>4. /\ heap' \in Seq(PartialType) /\ Len(heap') = n + Outputs /\ n \in Nat
      /\ \A i \in 1 .. n : heap'[i] = heap[i]
      /\ \A o \in 1 .. Outputs : heap'[n + o] = new[o]
  <2>1. heap \in Seq(PartialType)
    BY DEF TypeInv
  <2>2. heap' \in Seq(PartialType) /\ Len(heap') = n + Outputs /\ n \in Nat
    BY <1>1, <1>3, <2>1
  <2>3. \A i \in 1 .. n : heap'[i] = heap[i]
    BY <1>1, <1>3, <2>1
  <2>4. \A o \in 1 .. Outputs : heap'[n + o] = new[o]
    BY <1>1, <1>3, <2>1, Facts
  <2> QED
    BY <2>2, <2>3, <2>4
<1>5. Keeps({}) /\ Len(heap') \in Nat /\ n <= Len(heap')
  BY <1>4, Facts DEF Keeps
<1>6. UNCHANGED <<Task, Slot>>
  BY <1>1 DEF Task, Slot
<1>7. mine \in [1 .. Outputs -> 1 .. Len(heap')]
  BY <1>4, Facts
<1>8. TypeInv'
  <2>1. fills' \in [1 .. Tasks -> {<<>>} \cup [1 .. Outputs -> 1 .. Len(heap')]]
    <3>1. fills \in [1 .. Tasks -> {<<>>} \cup [1 .. Outputs -> 1 .. Len(heap')]]
      BY <1>1, <1>5, TypesGrow
    <3> QED
      BY <1>1, <1>7, <3>1
  <2> QED
    BY <1>1, <1>4, <1>5, <1>6, <2>1, TypesGrow DEF TypeInv
<1>9. FillsInv'
  <2> SUFFICES ASSUME NEW t \in 1 .. Tasks, fills'[t] # <<>>
               PROVE  t <= Task /\ \A o \in 1 .. Outputs : heap'[fills'[t][o]].bag = OneFill(t, o)
    BY <1>6 DEF FillsInv
  <2>1. CASE t = Task
    <3>1. fills'[t] = mine
      BY <1>1, <2>1 DEF TypeInv
    <3>2. \A o \in 1 .. Outputs : heap'[mine[o]].bag = OneFill(t, o)
      BY <1>2, <1>4, <2>1
    <3>3. t <= Task
      BY <2>1, Facts
    <3> QED
      BY <3>1, <3>2, <3>3
  <2>2. CASE t # Task
    <3>1. fills'[t] = fills[t]
      BY <1>1, <2>2 DEF TypeInv
    <3>2. \A o \in 1 .. Outputs : heap'[fills[t][o]] = heap[fills[t][o]]
      BY <1>4, <3>1, Members
    <3> QED
      BY <3>1, <3>2 DEF FillsInv
  <2> QED
    BY <2>1, <2>2
<1>10. ValuesInv'
  BY <1>1, <1>5, ValuesKept DEF ValuesInv
<1>11. ASSUME NEW s \in DOMAIN layout PROVE group[Task][s] = None
  BY <1>1 DEF TotalsInv
<1>12. TotalsInv'
  <2>1. \A s \in DOMAIN layout : ~(s < Slot) /\ (s = Slot => at[3] = 1)
    BY <1>1, <1>11 DEF TotalsInv
  <2> QED
    BY <1>1, <1>6, <1>11, <2>1 DEF TotalsInv
<1>13. ApartInv'
  BY <1>1, <1>6, <1>11 DEF ApartInv
<1> QED
  BY <1>5, <1>8, <1>9, <1>10, <1>12, <1>13

\* A new total is of the task's own.
LEMMA StartKeeps ==
    ASSUME SharedInv, Start
    PROVE  SharedInv' /\ Keeps({})
<1> USE DEF SharedInv
<1> DEFINE n == Len(heap)
<1>1. /\ Task \in 1 .. Tasks /\ fills[Task] # <<>> /\ group[Task][Slot] = None
      /\ Slot \in DOMAIN layout
      /\ heap' = Append(heap, Zero(layout[Slot]))
      /\ group' = [group EXCEPT ![Task][Slot] = n + 1]
      /\ UNCHANGED <<layout, fills, at, values>>
  BY Facts DEF Start, Summing, New, TypeInv
<1>2. Zero(layout[Slot]) \in PartialType /\ Zero(layout[Slot]).bag = NoFills
  BY ZeroType DEF TypeInv
<1>3. /\ heap' \in Seq(PartialType) /\ Len(heap') = n + 1 /\ n \in Nat
      /\ \A i \in 1 .. n : heap'[i] = heap[i]
      /\ heap'[n + 1] = Zero(layout[Slot])
  BY <1>1, <1>2, AppendProperties DEF TypeInv
<1>4. Keeps({}) /\ Len(heap') \in Nat /\ n <= Len(heap')
  BY <1>3, Facts DEF Keeps
<1>5. UNCHANGED <<Task, Slot, Values, Fills>>
  BY <1>1 DEF Task, Slot, Values, Fills
<1>6. /\ group'[Task][Slot] = n + 1
      /\ \A s \in DOMAIN layout : s # Slot => group'[Task][s] = group[Task][s]
      /\ \A t \in 1 .. Tasks : t # Task => group'[t] = group[t]
      /\ group' \in [1 .. Tasks -> [DOMAIN layout -> (1 .. Len(heap')) \cup {None}]]
  <2>1. group \in [1 .. Tasks -> [DOMAIN layout -> (1 .. Len(heap')) \cup {None}]]
    BY <1>1, <1>4, TypesGrow
  <2>2. n + 1 \in 1 .. Len(heap')
    BY <1>3
  <2> QED
    BY <1>1, <2>1, <2>2
<1>7. TypeInv'
  BY <1>1, <1>3, <1>4, <1>5, <1>6, TypesGrow DEF TypeInv
<1>8. FillsInv'
  <2>1. Task \in Nat /\ Task' = Task
    BY <1>1, <1>5, Facts
  <2>2. {} \cap Fills = {} /\ Task <= Task' /\ Task' \in Nat
    BY <2>1
  <2> QED
    BY <1>1, <1>4, <2>2, FillsKept
<1>9. ValuesInv'
  BY <1>1, <1>4, ValuesKept DEF ValuesInv
<1>10. n + 1 # None /\ at[3] = 1
  BY <1>1, <1>3, NoneAssumption DEF TotalsInv
<1>11. \A s \in DOMAIN layout : group[Task][s] # None =>
         group[Task][s] \in 1 .. n /\ heap'[group[Task][s]] = heap[group[Task][s]]
  BY <1>1, <1>3 DEF TypeInv
<1>12. TotalsInv'
  <2>1. ASSUME NEW s \in DOMAIN layout
        PROVE  /\ group'[Task][s] # None => fills[Task] # <<>>
               /\ s < Slot =>
                    group'[Task][s] # None
                    /\ heap'[group'[Task][s]].bag
                         = Sofar(Task, layout[s].reads, Len(layout[s].reads))
               /\ s = Slot =>
                    IF group'[Task][s] = None THEN at[3] = 1
                    ELSE heap'[group'[Task][s]].bag = Sofar(Task, layout[s].reads, at[3] - 1)
               /\ s > Slot => group'[Task][s] = None
    <3>1. CASE s = Slot
      <4>1. Sofar(Task, layout[s].reads, 0) = NoFills
        <5>1. \A o : ReadUpto(layout[s].reads, 0, o) = 0
          BY UptoNext
        <5> QED
          BY <5>1 DEF Sofar, NoFills
      <4>2. Slot \in Nat
        BY <1>1, Facts
      <4> QED
        BY <1>1, <1>2, <1>3, <1>6, <1>10, <3>1, <4>1, <4>2
    <3>2. CASE s # Slot
      <4>1. group'[Task][s] = group[Task][s]
        BY <1>6, <3>2
      <4>2. /\ group[Task][s] # None => fills[Task] # <<>>
            /\ s < Slot =>
                 group[Task][s] # None
                 /\ heap[group[Task][s]].bag
                      = Sofar(Task, layout[s].reads, Len(layout[s].reads))
            /\ s > Slot => group[Task][s] = None
        BY <1>1 DEF TotalsInv
      <4>3. group[Task][s] # None => heap'[group'[Task][s]].bag = heap[group[Task][s]].bag
        BY <1>11, <4>1
      <4> HIDE DEF Task, Slot
      <4> QED
        BY ONLY <3>2, <4>1, <4>2, <4>3
    <3> QED
      BY <3>1, <3>2
  <2>2. \A t \in 1 .. Tasks : t > Task => \A s \in DOMAIN layout : group'[t][s] = None
    BY <1>1, <1>6, Facts DEF TotalsInv
  <2>3. UNCHANGED <<layout, fills, at, Task, Slot>>
    BY <1>1, <1>5
  <2> QED
    BY ONLY <2>1, <2>2, <2>3 DEF TotalsInv
<1>13. ApartInv'
  <2> SUFFICES ASSUME NEW s \in DOMAIN layout, group'[Task][s] # None
               PROVE  /\ group'[Task][s] \notin Values \cup Fills
                      /\ \A r \in DOMAIN layout : r # s => group'[Task][r] # group'[Task][s]
    BY <1>1, <1>5 DEF ApartInv
  <2>1. n + 1 \notin 1 .. n
    BY <1>3
  <2>2. \A r \in DOMAIN layout : group[Task][r] # n + 1
    BY <1>10, <1>11, <2>1
  <2>3. CASE s = Slot
    <3>1. n + 1 \notin Values \cup Fills
      BY <2>1, Members
    <3> QED
      BY <1>6, <2>2, <2>3, <3>1
  <2>4. CASE s # Slot
    <3>1. group'[Task][s] = group[Task][s]
      BY <1>6, <2>4
    <3> QED
      BY <1>1, <1>6, <2>2, <2>4, <3>1 DEF ApartInv
  <2> QED
    BY <2>3, <2>4
<1> QED
  BY <1>4, <1>7, <1>8, <1>9, <1>12, <1>13

\* One more fill is one more read summed.
LEMMA AddsOne ==
    ASSUME NEW t \in 1 .. Tasks, NEW reads, NEW j \in Nat, reads[j + 1] \in 1 .. Outputs
    PROVE  Plus(Sofar(t, reads, j), OneFill(t, reads[j + 1])) = Sofar(t, reads, j + 1)
<1>1. ASSUME NEW c \in Cells
      PROVE  Sofar(t, reads, j)[c] + OneFill(t, reads[j + 1])[c] = Sofar(t, reads, j + 1)[c]
  <2>1. c = <<c[1], c[2]>> /\ <<t, reads[j + 1]>> \in Cells
    BY DEF Cells
  <2>2. OneFill(t, reads[j + 1])[c] = IF c[1] = t /\ c[2] = reads[j + 1] THEN 1 ELSE 0
    <3>1. c = <<t, reads[j + 1]>> <=> c[1] = t /\ c[2] = reads[j + 1]
      BY <2>1
    <3> QED
      BY <2>1, <3>1 DEF OneFill, NoFills
  <2>3. /\ ReadUpto(reads, j, c[2]) \in Nat
        /\ ReadUpto(reads, j + 1, c[2])
             = ReadUpto(reads, j, c[2]) + IF reads[j + 1] = c[2] THEN 1 ELSE 0
    BY UptoNext
  <2>4. /\ Sofar(t, reads, j)[c] = IF c[1] = t THEN ReadUpto(reads, j, c[2]) ELSE 0
        /\ Sofar(t, reads, j + 1)[c] = IF c[1] = t THEN ReadUpto(reads, j + 1, c[2]) ELSE 0
    BY DEF Sofar
  <2> QED
    BY <2>2, <2>3, <2>4
<1> QED
  BY <1>1 DEF Plus, Sofar

\* Adding changes the task's own total at most.
LEMMA AddKeeps ==
    ASSUME SharedInv, Add
    PROVE  SharedInv' /\ Keeps({group[Task][Slot]}) /\ group[Task][Slot] \notin Values \cup Fills
<1> USE DEF SharedInv
<1> DEFINE n == Len(heap)
           reads == layout[Slot].reads
           j == at[3] - 1
           total == group[Task][Slot]
           fill == fills[Task][reads[at[3]]]
           sum == Sum(heap[total], heap[fill])
           m == Added(total, fill)[2]
<1>1. /\ Task \in 1 .. Tasks /\ fills[Task] # <<>> /\ total # None /\ Slot \in DOMAIN layout
      /\ heap' = Added(total, fill)[1] /\ group' = [group EXCEPT ![Task][Slot] = m]
      /\ at' = [at EXCEPT ![3] = at[3] + 1] /\ UNCHANGED <<layout, fills, values>>
      /\ at[3] <= Len(reads)
  BY Facts DEF Add, Summing, TypeInv
<1>2. /\ j \in Nat /\ at[3] = j + 1 /\ Len(reads) \in Nat /\ at[3] \in 1 .. Len(reads)
      /\ reads[j + 1] \in 1 .. Outputs
  <2>1. Len(reads) \in Nat /\ \A i \in 1 .. Len(reads) : reads[i] \in 1 .. Outputs
    BY <1>1, Facts
  <2>2. at[3] \in 1 .. Len(reads) + 1
    BY DEF TypeInv
  <2> HIDE DEF reads
  <2>3. at[3] \in Nat /\ at[3] \in 1 .. Len(reads)
    BY <1>1, <2>1, <2>2
  <2>4. j \in Nat /\ at[3] = j + 1
    BY <2>3
  <2> QED
    BY <2>1, <2>3, <2>4
<1>3. /\ fill \in Fills /\ fill \in 1 .. n /\ total \in 1 .. n /\ n \in Nat
      /\ heap[fill] \in PartialType /\ heap[total] \in PartialType
      /\ heap[fill].bag = OneFill(Task, reads[j + 1])
      /\ heap[total].bag = Sofar(Task, reads, j)
  <2>1. fill \in Fills /\ fill \in 1 .. n
    BY <1>1, <1>2, Members
  <2>2. total \in 1 .. n
    BY <1>1 DEF TypeInv
  <2>3. heap[fill].bag = OneFill(Task, reads[j + 1])
    BY <1>1, <1>2 DEF FillsInv
  <2>4. heap[total].bag = Sofar(Task, reads, j)
    BY <1>1, Facts DEF TotalsInv
  <2> QED
    BY <2>1, <2>2, <2>3, <2>4, Facts
<1>4. sum \in PartialType /\ sum.bag = Sofar(Task, reads, j + 1)
  <2>1. sum \in PartialType /\ sum.bag = Plus(heap[total].bag, heap[fill].bag)
    BY ONLY <1>3, SumType
  <2>2. Plus(Sofar(Task, reads, j), OneFill(Task, reads[j + 1])) = Sofar(Task, reads, j + 1)
    BY ONLY <1>1, <1>2, AddsOne
  <2> QED
    BY <1>3, <2>1, <2>2
<1>5. \/ heap' = [heap EXCEPT ![total] = sum] /\ m = total
      \/ heap' = Append(heap, sum) /\ m = n + 1
  BY <1>1 DEF Added, New
<1> HIDE DEF sum, m, fill
<1>6. /\ heap' \in Seq(PartialType) /\ Len(heap') \in Nat /\ n <= Len(heap')
      /\ m \in 1 .. Len(heap') /\ heap'[m] = sum
      /\ \A i \in 1 .. n : i # total => heap'[i] = heap[i]
  <2>1. heap \in Seq(PartialType)
    BY DEF TypeInv
  <2>2. CASE heap' = [heap EXCEPT ![total] = sum] /\ m = total
    BY <1>3, <1>4, <2>1, <2>2, ExceptSeq
  <2>3. CASE heap' = Append(heap, sum) /\ m = n + 1
    BY <1>3, <1>4, <2>1, <2>3, AppendProperties
  <2> QED
    BY <1>5, <2>2, <2>3
<1>7. Keeps({total})
  BY <1>6 DEF Keeps
<1>8. /\ total \notin Values \cup Fills
      /\ \A s \in DOMAIN layout : s # Slot => group[Task][s] # total
  BY <1>1 DEF ApartInv
<1>9. /\ at' = <<Task, Slot, j + 2>> /\ UNCHANGED <<Task, Slot, Values, Fills>>
      /\ at'[3] = j + 2
  <2>1. at = <<Task, Slot, at[3]>>
    BY DEF TypeInv
  <2>2. at' = <<Task, Slot, j + 2>>
    BY <1>1, <1>2, <2>1
  <2> QED
    BY <1>1, <2>2 DEF Task, Slot, Values, Fills
<1>10. /\ group'[Task][Slot] = m
       /\ \A s \in DOMAIN layout : s # Slot => group'[Task][s] = group[Task][s]
       /\ \A t \in 1 .. Tasks : t # Task => group'[t] = group[t]
       /\ group' \in [1 .. Tasks -> [DOMAIN layout -> (1 .. Len(heap')) \cup {None}]]
  <2>1. group \in [1 .. Tasks -> [DOMAIN layout -> (1 .. Len(heap')) \cup {None}]]
    BY <1>1, <1>6, TypesGrow
  <2> QED
    BY <1>1, <1>6, <2>1
<1>11. TypeInv'
  <2>1. at'[3] \in 1 .. Len(reads) + 1 /\ at' = <<Task, Slot, at'[3]>>
    BY <1>2, <1>9, SMTT(30)
  <2>2. /\ fills \in [1 .. Tasks -> {<<>>} \cup [1 .. Outputs -> 1 .. Len(heap')]]
        /\ \A v \in values :
             /\ v.first \in Nat /\ v.last \in Nat /\ v.first <= v.last + 1
             /\ v.slots \in [DOMAIN layout -> 1 .. Len(heap')]
    BY <1>1, <1>6, TypesGrow
  <2>3. layout \in Layouts /\ Task \in 1 .. Tasks + 1
    BY DEF TypeInv
  <2> QED
    BY <1>1, <1>6, <1>9, <1>10, <2>1, <2>2, <2>3 DEF TypeInv
<1>12. FillsInv'
  <2>1. Task \in Nat
    BY <1>1, Facts
  <2>2. {total} \cap Fills = {} /\ Task <= Task' /\ Task' \in Nat
    BY <1>8, <1>9, <2>1
  <2> QED
    BY <1>1, <1>7, <2>2, FillsKept
<1>13. ValuesInv'
  <2>1. {total} \cap Values = {}
    BY <1>8
  <2> QED
    BY <1>1, <1>7, <2>1, ValuesKept DEF ValuesInv
<1>14. m # None /\ m \in Nat
  BY <1>6, NoneAssumption
<1>15. \A s \in DOMAIN layout : s # Slot /\ group[Task][s] # None =>
         /\ group[Task][s] \in 1 .. n /\ group[Task][s] # m
         /\ heap'[group[Task][s]] = heap[group[Task][s]]
  <2> SUFFICES ASSUME NEW s \in DOMAIN layout, s # Slot, group[Task][s] # None
               PROVE  /\ group[Task][s] \in 1 .. n /\ group[Task][s] # m
                      /\ heap'[group[Task][s]] = heap[group[Task][s]]
    OBVIOUS
  <2>1. group[Task][s] \in 1 .. n /\ group[Task][s] # total
    BY <1>1, <1>8, SMTT(30) DEF TypeInv
  <2> QED
    BY <1>3, <1>5, <1>6, <2>1
<1>16. TotalsInv'
  <2>1. ASSUME NEW s \in DOMAIN layout
        PROVE  /\ group'[Task][s] # None => fills[Task] # <<>>
               /\ s < Slot =>
                    group'[Task][s] # None
                    /\ heap'[group'[Task][s]].bag
                         = Sofar(Task, layout[s].reads, Len(layout[s].reads))
               /\ s = Slot =>
                    IF group'[Task][s] = None THEN at'[3] = 1
                    ELSE heap'[group'[Task][s]].bag = Sofar(Task, layout[s].reads, at'[3] - 1)
               /\ s > Slot => group'[Task][s] = None
    <3>1. CASE s = Slot
      <4>1. at'[3] - 1 = j + 1 /\ Slot \in Nat
        <5>1. at'[3] - 1 = j + 1
          BY ONLY <1>2, <1>9
        <5>2. Slot \in Nat
          BY <1>1, Facts
        <5> QED
          BY <5>1, <5>2
      <4>2. heap'[m].bag = Sofar(Task, layout[s].reads, at'[3] - 1)
        BY <1>4, <1>6, <3>1, <4>1
      <4> QED
        BY <1>1, <1>10, <1>14, <3>1, <4>1, <4>2
    <3>2. CASE s # Slot
      <4>1. group'[Task][s] = group[Task][s]
        BY <1>10, <3>2
      <4> QED
        BY <1>1, <1>15, <3>2, <4>1 DEF TotalsInv
    <3> QED
      BY <3>1, <3>2
  <2>2. \A t \in 1 .. Tasks : t > Task => \A s \in DOMAIN layout : group'[t][s] = None
    BY <1>1, <1>10, Facts DEF TotalsInv
  <2> QED
    BY <1>1, <1>9, <2>1, <2>2 DEF TotalsInv
<1>17. ApartInv'
  <2> SUFFICES ASSUME NEW s \in DOMAIN layout, group'[Task][s] # None
               PROVE  /\ group'[Task][s] \notin Values \cup Fills
                      /\ \A r \in DOMAIN layout : r # s => group'[Task][r] # group'[Task][s]
    BY <1>1, <1>9 DEF ApartInv
  <2>1. m \notin Values \cup Fills
    <3>1. n + 1 \notin Values \cup Fills
      BY <1>3, Members
    <3> QED
      BY <1>5, <1>8, <3>1
  <2>2. CASE s = Slot
    BY <1>10, <1>14, <1>15, <2>1, <2>2
  <2>3. CASE s # Slot
    <3>1. group'[Task][s] = group[Task][s] /\ group[Task][s] # m
      BY <1>10, <1>15, <2>3
    <3> QED
      BY <1>1, <1>10, <2>3, <3>1 DEF ApartInv
  <2> QED
    BY <2>2, <2>3
<1> QED
  BY <1>7, <1>8, <1>11, <1>12, <1>13, <1>16, <1>17

LEMMA DoneKeeps ==
    ASSUME SharedInv, Done
    PROVE  SharedInv'
<1> USE DEF SharedInv
<1> DEFINE reads == layout[Slot].reads
           v == [first |-> Task, last |-> Task, slots |-> group[Task]]
<1>1. /\ Task \in 1 .. Tasks /\ Task \in Nat /\ fills[Task] # <<>>
      /\ group[Task][Slot] # None /\ Slot \in DOMAIN layout
      /\ UNCHANGED <<layout, heap, fills, group>> /\ at[3] = Len(reads) + 1
      /\ DOMAIN layout = 1 .. Len(layout) /\ Len(layout) \in Nat \ {0}
      /\ Slot \in Nat /\ Len(reads) \in Nat
  <2>1. /\ Task <= Tasks /\ fills[Task] # <<>> /\ group[Task][Slot] # None
        /\ UNCHANGED <<layout, heap, fills, group>> /\ at[3] > Len(reads)
    BY DEF Done, Summing
  <2>2. /\ Task \in 1 .. Tasks + 1 /\ Slot \in DOMAIN layout
        /\ at[3] \in 1 .. Len(reads) + 1
    BY DEF TypeInv
  <2>3. /\ DOMAIN layout = 1 .. Len(layout) /\ Len(layout) \in Nat \ {0}
        /\ Len(reads) \in Nat /\ Tasks \in Nat
    BY <2>2, Facts
  <2> HIDE DEF reads
  <2>4. at[3] = Len(reads) + 1
    BY <2>1, <2>2, <2>3
  <2>5. Task \in 1 .. Tasks /\ Task \in Nat /\ Slot \in Nat
    BY <2>1, <2>2, <2>3
  <2> QED
    BY <2>1, <2>2, <2>3, <2>4, <2>5
<1>2. Keeps({})
  BY <1>1, Facts DEF Keeps
<1>3. heap[group[Task][Slot]].bag = Sofar(Task, reads, Len(reads))
  BY <1>1 DEF TotalsInv
<1>4. CASE Slot < Len(layout)
  <2>1. at' = <<Task, Slot + 1, 1>> /\ UNCHANGED values
    BY <1>4 DEF Done
  <2>2. Task' = Task /\ Slot' = Slot + 1 /\ at'[3] = 1 /\ Values' = Values /\ Fills' = Fills
    BY <1>1, <2>1 DEF Task, Slot, Values, Fills
  <2>3. Slot + 1 \in DOMAIN layout
    BY <1>1, <1>4
  <2>4. at'[3] \in 1 .. Len(layout[Slot + 1].reads) + 1
    BY <2>2, <2>3, Facts
  <2>5. TypeInv'
    BY <1>1, <2>1, <2>2, <2>3, <2>4 DEF TypeInv
  <2>6. FillsInv' /\ ValuesInv'
    BY <1>1, <2>1, <2>2 DEF FillsInv, ValuesInv
  <2>7. TotalsInv'
    <3>1. ASSUME NEW s \in DOMAIN layout
          PROVE  /\ s < Slot + 1 =>
                      group[Task][s] # None
                      /\ heap[group[Task][s]].bag
                           = Sofar(Task, layout[s].reads, Len(layout[s].reads))
                 /\ s = Slot + 1 => group[Task][s] = None
                 /\ s > Slot + 1 => group[Task][s] = None
      <4>1. s \in Nat
        BY <1>1
      <4>2. s < Slot \/ s = Slot \/ s > Slot
        BY <1>1, <4>1
      <4> QED
        BY <1>1, <1>3, <4>1, <4>2 DEF TotalsInv
    <3> QED
      BY <1>1, <2>2, <3>1 DEF TotalsInv
  <2>8. ApartInv'
    BY <1>1, <2>2 DEF ApartInv
  <2> QED
    BY <2>5, <2>6, <2>7, <2>8
<1>5. CASE ~(Slot < Len(layout))
  <2>1. at' = <<Task + 1, 1, 1>> /\ values' = values \cup {v}
    BY <1>5 DEF Done
  <2>2. Task' = Task + 1 /\ Slot' = 1 /\ at'[3] = 1
    BY <2>1 DEF Task, Slot
  <2>3. \A s \in DOMAIN layout :
          /\ group[Task][s] # None
          /\ heap[group[Task][s]].bag = Sofar(Task, layout[s].reads, Len(layout[s].reads))
    <3>1. \A s \in DOMAIN layout : s < Slot \/ s = Slot
      BY <1>1, <1>5
    <3> QED
      BY <1>1, <1>3, <3>1 DEF TotalsInv
  <2>4. group[Task] \in [DOMAIN layout -> 1 .. Len(heap)]
    <3>1. group[Task] \in [DOMAIN layout -> (1 .. Len(heap)) \cup {None}]
      BY <1>1 DEF TypeInv
    <3> QED
      BY <2>3, <3>1
  <2>5. TypeInv'
    <3>1. /\ v.first \in Nat /\ v.last \in Nat /\ v.first <= v.last + 1
          /\ v.slots \in [DOMAIN layout -> 1 .. Len(heap)]
      BY <1>1, <2>4
    <3>2. 1 \in DOMAIN layout /\ Task + 1 \in 1 .. Tasks + 1
      BY <1>1, Facts
    <3>3. 1 \in 1 .. Len(layout[1].reads) + 1
      BY <3>2, Facts
    <3>4. \A w \in values' :
            /\ w.first \in Nat /\ w.last \in Nat /\ w.first <= w.last + 1
            /\ w.slots \in [DOMAIN layout -> 1 .. Len(heap)]
      BY <2>1, <3>1 DEF TypeInv
    <3> QED
      BY <1>1, <2>1, <2>2, <3>2, <3>3, <3>4 DEF TypeInv
  <2>6. FillsInv'
    <3>1. {} \cap Fills = {} /\ Task <= Task' /\ Task' \in Nat
      BY <1>1, <2>2
    <3> QED
      BY <1>1, <1>2, <3>1, FillsKept
  <2>7. ValuesInv'
    <3>1. ASSUME NEW s \in DOMAIN layout PROVE heap[v.slots[s]].bag = AllReads(v, layout[s].reads)
      <4>1. \A c \in Cells : c[1] \in v.first .. v.last <=> c[1] = Task
        BY <1>1 DEF Cells
      <4>2. AllReads(v, layout[s].reads) = Sofar(Task, layout[s].reads, Len(layout[s].reads))
        BY <4>1 DEF AllReads, Sofar
      <4> QED
        BY <2>3, <4>2
    <3> HIDE DEF v
    <3> QED
      BY <1>1, <2>1, <3>1 DEF ValuesInv
  <2>8. Task + 1 <= Tasks => \A s \in DOMAIN layout : group[Task + 1][s] = None
    BY <1>1, Facts DEF TotalsInv
  <2>9. TotalsInv'
    <3>1. \A s \in DOMAIN layout : ~(s < 1)
      BY <1>1
    <3>2. \A t \in 1 .. Tasks : t > Task + 1 => t > Task
      BY <1>1
    <3> QED
      BY <1>1, <2>2, <2>8, <3>1, <3>2 DEF TotalsInv
  <2>10. ApartInv'
    BY <1>1, <2>2, <2>8 DEF ApartInv
  <2> QED
    BY <2>5, <2>6, <2>7, <2>9, <2>10
<1> QED
  BY <1>4, <1>5

\* Neighbours' tasks are one run of tasks.
LEMMA WholeAdds ==
    ASSUME NEW reads, Len(reads) \in Nat, NEW a, NEW b, NEW c,
           {a.first, a.last, b.first, b.last} \subseteq Nat,
           a.first <= a.last + 1, a.last + 1 = b.first, b.last >= b.first,
           c.first = a.first, c.last = b.last
    PROVE  Plus(AllReads(a, reads), AllReads(b, reads)) = AllReads(c, reads)
<1>1. ASSUME NEW x \in Cells
      PROVE  AllReads(a, reads)[x] + AllReads(b, reads)[x] = AllReads(c, reads)[x]
  <2>1. ReadUpto(reads, Len(reads), x[2]) \in Nat
    BY UptoNext
  <2>2. x[1] \in 1 .. Tasks
    BY DEF Cells
  <2>3. /\ AllReads(a, reads)[x] = IF x[1] \in a.first .. a.last
                                THEN ReadUpto(reads, Len(reads), x[2]) ELSE 0
        /\ AllReads(b, reads)[x] = IF x[1] \in b.first .. b.last
                                THEN ReadUpto(reads, Len(reads), x[2]) ELSE 0
        /\ AllReads(c, reads)[x] = IF x[1] \in c.first .. c.last
                                THEN ReadUpto(reads, Len(reads), x[2]) ELSE 0
    BY DEF AllReads
  <2>4. /\ x[1] \in c.first .. c.last <=> x[1] \in a.first .. a.last \/ x[1] \in b.first .. b.last
        /\ ~(x[1] \in a.first .. a.last /\ x[1] \in b.first .. b.last)
    BY <2>2
  <2> QED
    BY <2>1, <2>3, <2>4
<1> QED
  BY <1>1 DEF Plus, AllReads

\* A combine makes new partials only.
LEMMA CombineKeeps ==
    ASSUME SharedInv, NEW a \in values, NEW b \in values, Combine(a, b)
    PROVE  SharedInv' /\ Keeps({})
<1> USE DEF SharedInv
<1> DEFINE n == Len(heap)
           new == [s \in DOMAIN layout |-> Sum(heap[a.slots[s]], heap[b.slots[s]])]
           slots == [s \in DOMAIN layout |-> n + s]
           c == [first |-> a.first, last |-> b.last, slots |-> slots]
<1>1. /\ a.last + 1 = b.first /\ b.last >= b.first
      /\ heap' = heap \o new /\ values' = values \cup {c}
      /\ UNCHANGED <<layout, fills, group, at>>
  BY DEF Combine, Combined
<1>2. /\ {a.first, a.last, b.first, b.last} \subseteq Nat /\ a.first <= a.last + 1
      /\ \A s \in DOMAIN layout : a.slots[s] \in 1 .. n /\ b.slots[s] \in 1 .. n
      /\ n \in Nat /\ Len(layout) \in Nat /\ DOMAIN layout = 1 .. Len(layout)
  <2>1. /\ {a.first, a.last, b.first, b.last} \subseteq Nat /\ a.first <= a.last + 1
        /\ a.slots \in [DOMAIN layout -> 1 .. n] /\ b.slots \in [DOMAIN layout -> 1 .. n]
    BY DEF TypeInv
  <2> QED
    BY <2>1, Facts
<1>3. ASSUME NEW s \in DOMAIN layout
      PROVE  new[s] \in PartialType /\ new[s].bag = AllReads(c, layout[s].reads)
  <2> DEFINE x == heap[a.slots[s]]
             y == heap[b.slots[s]]
  <2>1. x \in PartialType /\ y \in PartialType /\ Len(layout[s].reads) \in Nat
    BY <1>2, Facts
  <2>2. x.bag = AllReads(a, layout[s].reads) /\ y.bag = AllReads(b, layout[s].reads)
    BY DEF ValuesInv
  <2>3. Sum(x, y) \in PartialType /\ Sum(x, y).bag = Plus(x.bag, y.bag)
    BY ONLY <2>1, SumType
  <2>4. c.first = a.first /\ c.last = b.last
    OBVIOUS
  <2> HIDE DEF c
  <2>5. AllReads(c, layout[s].reads)
          = Plus(AllReads(a, layout[s].reads), AllReads(b, layout[s].reads))
    BY ONLY <1>1, <1>2, <2>1, <2>4, WholeAdds, SMTT(30)
  <2> QED
    BY <2>2, <2>3, <2>5
<1>4. new \in Seq(PartialType) /\ Len(new) = Len(layout)
  <2>1. new \in [1 .. Len(layout) -> PartialType]
    BY <1>2, <1>3
  <2>2. DOMAIN new = 1 .. Len(layout)
    BY <1>2
  <2> HIDE DEF new
  <2>3. new \in Seq(PartialType)
    BY <1>2, <2>1, SeqDef
  <2> QED
    BY <1>2, <2>2, <2>3, LenProperties
<1> HIDE DEF new
<1>5. /\ heap' \in Seq(PartialType) /\ Len(heap') = n + Len(layout)
      /\ \A i \in 1 .. n : heap'[i] = heap[i]
      /\ \A s \in DOMAIN layout : heap'[n + s] = new[s]
  <2>1. heap \in Seq(PartialType)
    BY DEF TypeInv
  <2>2. heap' \in Seq(PartialType) /\ Len(heap') = n + Len(layout)
    <3>1. heap' = heap \o new
      BY <1>1
    <3>2. heap \o new \in Seq(PartialType) /\ Len(heap \o new) = n + Len(new)
      BY ONLY <1>4, <2>1, ConcatProperties
    <3> QED
      BY ONLY <1>4, <3>1, <3>2
  <2>3. \A i \in 1 .. n : heap'[i] = heap[i]
    BY <1>1, <1>4, <2>1
  <2>4. \A s \in DOMAIN layout : heap'[n + s] = new[s]
    BY <1>1, <1>2, <1>4, <2>1, SMTT(30)
  <2> QED
    BY <2>2, <2>3, <2>4
<1>6. Keeps({}) /\ Len(heap') \in Nat /\ n <= Len(heap')
  BY <1>2, <1>5 DEF Keeps
<1>7. UNCHANGED <<Task, Slot, Fills>>
  BY <1>1 DEF Task, Slot, Fills
<1>8. slots \in [DOMAIN layout -> n + 1 .. Len(heap')]
  BY <1>2, <1>5
<1>9. TypeInv'
  <2>1. /\ c.first \in Nat /\ c.last \in Nat /\ c.first <= c.last + 1
        /\ c.slots \in [DOMAIN layout -> 1 .. Len(heap')]
    <3>1. a.first <= b.last + 1 /\ a.first \in Nat /\ b.last \in Nat
      BY <1>1, <1>2
    <3>2. n + 1 .. Len(heap') \subseteq 1 .. Len(heap')
      BY <1>2, <1>6
    <3>3. slots \in [DOMAIN layout -> 1 .. Len(heap')]
      BY <1>8, <3>2
    <3> QED
      BY <3>1, <3>3
  <2> HIDE DEF c
  <2>2. \A v \in values' :
          /\ v.first \in Nat /\ v.last \in Nat /\ v.first <= v.last + 1
          /\ v.slots \in [DOMAIN layout -> 1 .. Len(heap')]
    BY <1>1, <1>6, <2>1, TypesGrow
  <2>3. /\ fills \in [1 .. Tasks -> {<<>>} \cup [1 .. Outputs -> 1 .. Len(heap')]]
        /\ group \in [1 .. Tasks -> [DOMAIN layout -> (1 .. Len(heap')) \cup {None}]]
    BY <1>1, <1>6, TypesGrow
  <2> QED
    BY <1>1, <1>5, <1>7, <2>2, <2>3 DEF TypeInv
<1>10. FillsInv'
  <2>1. Task \in Nat
    BY Facts DEF TypeInv
  <2>2. {} \cap Fills = {} /\ Task <= Task' /\ Task' \in Nat
    BY <1>7, <2>1
  <2> QED
    BY <1>1, <1>6, <2>2, FillsKept
<1>11. ValuesInv'
  <2>1. ASSUME NEW s \in DOMAIN layout
        PROVE  heap'[c.slots[s]].bag = AllReads(c, layout[s].reads)
    BY <1>3, <1>5
  <2>2. \A v \in values : \A s \in DOMAIN layout :
          heap'[v.slots[s]].bag = AllReads(v, layout[s].reads)
    BY <1>1, <1>6, ValuesKept
  <2> HIDE DEF c
  <2> QED
    BY <1>1, <2>1, <2>2, ZenonT(30) DEF ValuesInv
<1>12. \A t \in 1 .. Tasks : \A s \in DOMAIN layout : group[t][s] # None =>
         group[t][s] \in 1 .. n /\ heap'[group[t][s]] = heap[group[t][s]]
  BY <1>5, SMTT(30) DEF TypeInv
<1>13. TotalsInv'
  <2>1. ASSUME Task <= Tasks, NEW s \in DOMAIN layout
        PROVE  /\ group[Task][s] # None => fills[Task] # <<>>
               /\ s < Slot =>
                    group[Task][s] # None
                    /\ heap'[group[Task][s]].bag
                         = Sofar(Task, layout[s].reads, Len(layout[s].reads))
               /\ s = Slot =>
                    IF group[Task][s] = None THEN at[3] = 1
                    ELSE heap'[group[Task][s]].bag = Sofar(Task, layout[s].reads, at[3] - 1)
               /\ s > Slot => group[Task][s] = None
    <3>1. Task \in 1 .. Tasks
      BY <2>1, Facts DEF TypeInv
    <3>2. group[Task][s] # None => heap'[group[Task][s]] = heap[group[Task][s]]
      BY <1>12, <3>1
    <3> QED
      BY <2>1, <3>2 DEF TotalsInv
  <2> QED
    BY <1>1, <1>7, <2>1 DEF TotalsInv
<1>14. ApartInv'
  <2> SUFFICES ASSUME Task <= Tasks, NEW s \in DOMAIN layout, group[Task][s] # None
               PROVE  /\ group[Task][s] \notin Values' \cup Fills
                      /\ \A r \in DOMAIN layout : r # s => group[Task][r] # group[Task][s]
    BY <1>1, <1>7 DEF ApartInv
  <2>1. group[Task][s] \in 1 .. n
    BY <1>12, Facts DEF TypeInv
  <2>2. Values' \subseteq Values \cup n + 1 .. Len(heap')
    BY <1>1, <1>8 DEF Values
  <2>3. group[Task][s] \notin n + 1 .. Len(heap')
    BY <1>2, <2>1
  <2> QED
    BY <2>2, <2>3 DEF ApartInv
<1> QED
  BY <1>6, <1>9, <1>10, <1>11, <1>13, <1>14

-----------------------------------------------------------------------------
(* Theorems about the sums *)

\* Totals, fills and values stay apart and each holds what it should, whatever the tasks,
\* the layout and the order of combining (_SumFills, _add_groups, Chunked.iadd).
THEOREM SharedInvariant == Spec => []SharedInv
<1>1. Init => SharedInv
  BY SharedInitInv
<1>2. SharedInv /\ [Next]_vars => SharedInv'
  <2> SUFFICES ASSUME SharedInv, [Next]_vars PROVE SharedInv'
    OBVIOUS
  <2>1. ASSUME NEW reps \in [1 .. Outputs -> {"chunked", "dense"}], Evaluate(reps) PROVE SharedInv'
    BY <2>1, EvaluateKeeps
  <2>2. CASE Start
    BY <2>2, StartKeeps
  <2>3. CASE Add
    BY <2>3, AddKeeps
  <2>4. CASE Done
    BY <2>4, DoneKeeps
  <2>5. ASSUME NEW a \in values, NEW b \in values, Combine(a, b) PROVE SharedInv'
    BY <2>5, CombineKeeps
  <2>6. CASE UNCHANGED vars
    BY <2>6 DEF vars, SharedInv, TypeInv, FillsInv, ValuesInv, TotalsInv, ApartInv, Task, Slot,
                Values, Fills
  <2> QED
    BY <2>1, <2>2, <2>3, <2>4, <2>5, <2>6 DEF Next
<1> QED
  BY <1>1, <1>2, PTL DEF Spec

\* Every slot's value holds each fill it reads once per read, of each of its tasks.
THEOREM ValuesSum == Spec => []SlotsSum
<1>1. SharedInv => SlotsSum
  <2> SUFFICES ASSUME SharedInv, NEW v \in values, NEW s \in DOMAIN layout, NEW c \in Cells
               PROVE  heap[v.slots[s]].bag[c] =
                        IF c[1] \in v.first .. v.last
                        THEN Cardinality({k \in DOMAIN layout[s].reads :
                                            layout[s].reads[k] = c[2]}) ELSE 0
    BY DEF SlotsSum
  <2>1. heap[v.slots[s]].bag = AllReads(v, layout[s].reads)
    BY DEF SharedInv, ValuesInv
  <2>2. DOMAIN layout[s].reads = 1 .. Len(layout[s].reads)
    <3>1. layout[s].reads \in Seq(1 .. Outputs)
      BY Facts DEF SharedInv
    <3> QED
      BY <3>1
  <2> QED
    BY <2>1, <2>2 DEF AllReads, ReadUpto
<1> QED
  BY <1>1, SharedInvariant, PTL

\* No step changes a partial that a fill or a finished value is: only the task's own
\* total is added onto in place.
THEOREM OperandsStay == Spec => PartialsKept
<1>1. SharedInv /\ [Next]_vars => [\A n \in Values \cup Fills : heap'[n] = heap[n]]_vars
  <2> SUFFICES ASSUME SharedInv, Next PROVE \A n \in Values \cup Fills : heap'[n] = heap[n]
    OBVIOUS
  <2> DEFINE Kept == \A n \in Values \cup Fills : heap'[n] = heap[n]
  <2>1. ASSUME NEW S, Keeps(S), S \cap (Values \cup Fills) = {} PROVE Kept
    BY <2>1, Members DEF Keeps, SharedInv
  <2>2. ASSUME Keeps({}) PROVE Kept
    BY <2>1, <2>2
  <2>3. ASSUME NEW reps \in [1 .. Outputs -> {"chunked", "dense"}], Evaluate(reps) PROVE Kept
    BY <2>2, <2>3, EvaluateKeeps
  <2>4. CASE Start
    BY <2>2, <2>4, StartKeeps
  <2>5. CASE Add
    <3>1. /\ Keeps({group[Task][Slot]}) /\ group[Task][Slot] \notin Values \cup Fills
      BY <2>5, AddKeeps
    <3>2. {group[Task][Slot]} \cap (Values \cup Fills) = {}
      BY <3>1
    <3> QED
      BY <2>1, <3>1, <3>2
  <2>6. CASE Done
    BY <2>6 DEF Done
  <2>7. ASSUME NEW a \in values, NEW b \in values, Combine(a, b) PROVE Kept
    BY <2>2, <2>7, CombineKeeps
  <2> QED
    BY <2>3, <2>4, <2>5, <2>6, <2>7 DEF Next
<1> QED
  BY <1>1, SharedInvariant, PTL DEF Spec, PartialsKept
=============================================================================
