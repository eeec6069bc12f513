--------------------------- MODULE ReductionProofs ---------------------------
(* Proofs about Reduction, for any number of tasks, any specs and any data:   *)
(* each partial is one of the forms its events have, and adding two forms     *)
(* gives a form of the events of both.                                        *)
EXTENDS Reduction, SetInduction

-----------------------------------------------------------------------------
(* The folds *)

SeenOp(p, acc, x) == Seen(acc, x)
Joins == INSTANCE SetInduction WITH Op <- SeenOp

LEMMA ExtendIsFold ==
    ASSUME NEW s, NEW t
    PROVE  Extend(s, t) = Joins!Folded(0, s, t)
BY DEF Extend, SeenOp, FoldLeft, MapThenFoldSet, Max,
       Joins!Folded, Joins!FoldLeft, Joins!MapThenFoldSet, Joins!Max

-----------------------------------------------------------------------------
(* Keys in the order they were first seen *)

LEMMA ExtendNil == ASSUME NEW s PROVE Extend(s, <<>>) = s
BY ExtendIsFold, Joins!FoldNil

LEMMA ExtendAppend ==
    ASSUME NEW C, NEW s, NEW t \in Seq(C), NEW c \in C
    PROVE  Extend(s, Append(t, c)) = Seen(Extend(s, t), c)
<1>1. Joins!Folded(0, s, Append(t, c)) = SeenOp(0, Joins!Folded(0, s, t), c)
  BY Joins!FoldAppend
<1> QED
  BY <1>1, ExtendIsFold DEF SeenOp

LEMMA RangeAppend ==
    ASSUME NEW C, NEW s \in Seq(C), NEW c \in C
    PROVE  Range(Append(s, c)) = Range(s) \cup {c}
<1> DEFINE n == Len(s)
           t == Append(s, c)
<1>1. /\ DOMAIN t = 1 .. n + 1 /\ t[n + 1] = c /\ n \in Nat
      /\ DOMAIN s = 1 .. n /\ \A i \in 1 .. n : t[i] = s[i]
  OBVIOUS
<1> HIDE DEF n, t
<1>2. ASSUME NEW x \in Range(t) PROVE x \in Range(s) \cup {c}
  <2>1. PICK i \in 1 .. n + 1 : x = t[i]
    BY <1>1 DEF Range
  <2>2. CASE i = n + 1
    BY <1>1, <2>1, <2>2
  <2>3. CASE i # n + 1
    <3>1. i \in 1 .. n
      BY <1>1, <2>3
    <3> QED
      BY <1>1, <2>1, <3>1 DEF Range
  <2> QED
    BY <2>2, <2>3
<1>3. ASSUME NEW x \in Range(s) PROVE x \in Range(t)
  <2>1. PICK i \in 1 .. n : x = s[i]
    BY <1>1 DEF Range
  <2> QED
    BY <1>1, <2>1 DEF Range
<1>4. c \in Range(t)
  <2>1. n + 1 \in DOMAIN t
    BY <1>1
  <2> QED
    BY <1>1, <2>1 DEF Range
<1>5. Range(t) = Range(s) \cup {c}
  BY <1>2, <1>3, <1>4
<1> QED
  BY <1>5 DEF t

LEMMA SeenType ==
    ASSUME NEW C, NEW s \in Seq(C), NEW c \in C
    PROVE  /\ Seen(s, c) \in Seq(C)
           /\ Range(Seen(s, c)) = Range(s) \cup {c}
           /\ IsInjective(s) => IsInjective(Seen(s, c))
<1>1. CASE c \in Range(s)
  BY <1>1 DEF Seen
<1>2. CASE c \notin Range(s)
  <2> DEFINE n == Len(s)
             t == Append(s, c)
  <2>1. /\ t \in Seq(C) /\ DOMAIN t = 1 .. n + 1 /\ t[n + 1] = c /\ n \in Nat
        /\ DOMAIN s = 1 .. n /\ \A i \in 1 .. n : t[i] = s[i]
    OBVIOUS
  <2>2. Seen(s, c) = t
    BY <1>2 DEF Seen
  <2> HIDE DEF n, t
  <2>3. Range(t) = Range(s) \cup {c}
    BY RangeAppend DEF t
  <2>4. ASSUME IsInjective(s) PROVE IsInjective(t)
    <3> SUFFICES ASSUME NEW i \in DOMAIN t, NEW j \in DOMAIN t, t[i] = t[j] PROVE i = j
      BY DEF IsInjective
    <3>1. \A k \in 1 .. n : t[k] # c
      BY <1>2, <2>1 DEF Range
    <3>2. i \in 1 .. n + 1 /\ j \in 1 .. n + 1
      BY <2>1
    <3>3. CASE i = n + 1 \/ j = n + 1
      BY <2>1, <3>1, <3>2, <3>3
    <3>4. CASE i # n + 1 /\ j # n + 1
      <4>1. i \in 1 .. n /\ j \in 1 .. n
        BY <2>1, <3>2, <3>4
      <4> QED
        BY <2>1, <2>4, <4>1 DEF IsInjective
    <3> QED
      BY <3>3, <3>4
  <2> QED
    BY <2>1, <2>2, <2>3, <2>4
<1> QED
  BY <1>1, <1>2

\* An extended list has what both have, and no key twice.
LEMMA ExtendType ==
    ASSUME NEW C, NEW s \in Seq(C), NEW t \in Seq(C)
    PROVE  /\ Extend(s, t) \in Seq(C)
           /\ Range(Extend(s, t)) = Range(s) \cup Range(t)
           /\ IsInjective(s) => IsInjective(Extend(s, t))
<1> DEFINE Good(q) == /\ Extend(s, q) \in Seq(C)
                      /\ Range(Extend(s, q)) = Range(s) \cup Range(q)
                      /\ IsInjective(s) => IsInjective(Extend(s, q))
           T == {q \in Seq(C) : Good(q)}
<1>1. <<>> \in T
  <2>1. Range(<<>>) = {}
    BY DEF Range
  <2> QED
    BY <2>1, ExtendNil
<1>2. ASSUME NEW q \in Seq(C), NEW c \in C, q \in T PROVE Append(q, c) \in T
  <2>1. Extend(s, Append(q, c)) = Seen(Extend(s, q), c)
    BY ExtendAppend
  <2>2. /\ Seen(Extend(s, q), c) \in Seq(C)
        /\ Range(Seen(Extend(s, q), c)) = Range(Extend(s, q)) \cup {c}
        /\ IsInjective(Extend(s, q)) => IsInjective(Seen(Extend(s, q), c))
    BY <1>2, SeenType
  <2>3. Range(Append(q, c)) = Range(q) \cup {c}
    BY RangeAppend
  <2> QED
    BY <1>2, <2>1, <2>2, <2>3
<1> HIDE DEF T
<1>3. Seq(C) \subseteq T
  BY <1>1, <1>2, SeqInduction
<1> QED
  BY <1>3 DEF T

LEMMA ExtendConcat ==
    ASSUME NEW C, NEW s \in Seq(C), NEW t \in Seq(C), NEW u \in Seq(C)
    PROVE  Extend(s, t \o u) = Extend(Extend(s, t), u)
<1> DEFINE T == {q \in Seq(C) : Extend(s, t \o q) = Extend(Extend(s, t), q)}
<1>1. <<>> \in T
  BY ExtendNil
<1>2. ASSUME NEW q \in Seq(C), NEW c \in C, q \in T PROVE Append(q, c) \in T
  <2>1. t \o Append(q, c) = Append(t \o q, c) /\ t \o q \in Seq(C) /\ Append(q, c) \in Seq(C)
    OBVIOUS
  <2>2. Extend(s, Append(t \o q, c)) = Seen(Extend(s, t \o q), c)
    <3> DEFINE v == t \o q
    <3>1. v \in Seq(C)
      BY <2>1
    <3> HIDE DEF v
    <3>2. Extend(s, Append(v, c)) = Seen(Extend(s, v), c)
      BY <3>1, ExtendAppend
    <3> QED
      BY <3>2 DEF v
  <2>3. Extend(Extend(s, t), Append(q, c)) = Seen(Extend(Extend(s, t), q), c)
    BY ExtendAppend
  <2> QED
    BY <1>2, <2>1, <2>2, <2>3
<1> HIDE DEF T
<1>3. Seq(C) \subseteq T
  BY <1>1, <1>2, SeqInduction
<1> QED
  BY <1>3 DEF T

LEMMA ExtendKnown ==
    ASSUME NEW C, NEW s \in Seq(C), NEW t \in Seq(C), Range(t) \subseteq Range(s)
    PROVE  Extend(s, t) = s
<1> DEFINE T == {q \in Seq(C) : Range(q) \subseteq Range(s) => Extend(s, q) = s}
<1>1. <<>> \in T
  BY ExtendNil
<1>2. ASSUME NEW q \in Seq(C), NEW c \in C, q \in T PROVE Append(q, c) \in T
  <2>1. Range(Append(q, c)) = Range(q) \cup {c}
    BY RangeAppend
  <2>2. Extend(s, Append(q, c)) = Seen(Extend(s, q), c)
    BY ExtendAppend
  <2> QED
    BY <1>2, <2>1, <2>2 DEF Seen
<1> HIDE DEF T
<1>3. Seq(C) \subseteq T
  BY <1>1, <1>2, SeqInduction
<1> QED
  BY <1>3 DEF T

\* What a list starts from adds nothing to one that has it.
LEMMA ExtendAgain ==
    ASSUME NEW C, NEW s \in Seq(C), NEW u \in Seq(C), NEW t \in Seq(C),
           Range(u) \subseteq Range(s)
    PROVE  Extend(s, Extend(u, t)) = Extend(s, t)
<1> DEFINE T == {q \in Seq(C) : Extend(s, Extend(u, q)) = Extend(s, q)}
<1>1. <<>> \in T
  BY ExtendNil, ExtendKnown
<1>2. ASSUME NEW q \in Seq(C), NEW c \in C, q \in T PROVE Append(q, c) \in T
  <2> DEFINE v == Extend(u, q)
             w == Extend(s, q)
  <2>1. /\ v \in Seq(C) /\ Range(v) = Range(u) \cup Range(q)
        /\ w \in Seq(C) /\ Range(w) = Range(s) \cup Range(q)
    BY ExtendType
  <2>2. Extend(u, Append(q, c)) = Seen(v, c) /\ Extend(s, Append(q, c)) = Seen(w, c)
    BY ExtendAppend
  <2>3. Extend(s, v) = w
    BY <1>2
  <2>4. Extend(s, Append(v, c)) = Seen(Extend(s, v), c)
    BY <2>1, ExtendAppend
  <2> HIDE DEF v, w
  <2>5. Extend(s, Seen(v, c)) = Seen(w, c)
    <3>1. CASE c \in Range(v)
      BY <2>1, <2>3, <3>1 DEF Seen
    <3>2. CASE c \notin Range(v)
      <4>1. Seen(v, c) = Append(v, c)
        BY <3>2 DEF Seen
      <4> QED
        BY <2>3, <2>4, <4>1
    <3> QED
      BY <3>1, <3>2
  <2> QED
    BY <2>2, <2>5
<1> HIDE DEF T
<1>3. Seq(C) \subseteq T
  BY <1>1, <1>2, SeqInduction
<1> QED
  BY <1>3 DEF T

-----------------------------------------------------------------------------
(* A dense histogram of some events, on an axis of the bins lo .. lo + n - 1 *)

CatSeq(es) == [j \in DOMAIN es |-> es[j].cat]
CatsOf(s, es) == IF s.grows THEN Extend(s.cats, CatSeq(es)) ELSE s.cats

Cell(s, cats, lo, n, r, i) ==
    {e \in Events : RowOf(s, cats, e.cat) = r /\ ColumnOf(lo, n, e.x) = i}
CountAt(s, cats, lo, n, es, r, i) == Cardinality(Hits(es, Cell(s, cats, lo, n, r, i)))
Form(s, es, lo, n) ==
    DenseHist(s, CatsOf(s, es), lo, n,
        LAMBDA r, i : CountAt(s, CatsOf(s, es), lo, n, es, r, i))

LEMMA ShapeType ==
    ASSUME NEW s \in Shapes
    PROVE  /\ s.grows \in BOOLEAN /\ s.widens \in BOOLEAN /\ s.dense \in BOOLEAN
           /\ s.cats \in Seq(Cats) /\ IsInjective(s.cats)
           /\ s.lo \in Int /\ s.n \in Nat \ {0}
BY ShapesAssumption

LEMMA CatSeqType ==
    ASSUME NEW es \in Seq(Events)
    PROVE  CatSeq(es) \in Seq(Cats)
<1>1. DOMAIN es = 1 .. Len(es) /\ Len(es) \in Nat /\ \A j \in DOMAIN es : es[j] \in Events
  OBVIOUS
<1>2. \A j \in DOMAIN es : es[j].cat \in Cats
  BY <1>1 DEF Events
<1>3. CatSeq(es) \in [1 .. Len(es) -> Cats]
  BY <1>1, <1>2 DEF CatSeq
<1> QED
  BY <1>1, <1>3

LEMMA CatSeqAppend ==
    ASSUME NEW es \in Seq(Events), NEW e \in Events
    PROVE  CatSeq(Append(es, e)) = Append(CatSeq(es), e.cat)
<1> DEFINE m == Len(es)
           t == Append(es, e)
           u == Append(CatSeq(es), e.cat)
<1>1. /\ m \in Nat /\ DOMAIN es = 1 .. m /\ DOMAIN t = 1 .. m + 1 /\ t[m + 1] = e
      /\ \A j \in 1 .. m : t[j] = es[j]
  OBVIOUS
<1>2. DOMAIN CatSeq(es) = 1 .. m /\ \A j \in 1 .. m : CatSeq(es)[j] = es[j].cat
  BY <1>1 DEF CatSeq
<1>3. e.cat \in Cats
  BY DEF Events
<1>4. /\ CatSeq(es) \in Seq(Cats) /\ Len(CatSeq(es)) = m
  BY <1>1, <1>2, CatSeqType
<1>5. /\ u \in Seq(Cats) /\ DOMAIN u = 1 .. m + 1 /\ u[m + 1] = e.cat
      /\ \A j \in 1 .. m : u[j] = CatSeq(es)[j]
  BY <1>1, <1>3, <1>4
<1> HIDE DEF t, u, m
<1>6. \A j \in 1 .. m + 1 : u[j] = t[j].cat
  <2> SUFFICES ASSUME NEW j \in 1 .. m + 1 PROVE u[j] = t[j].cat
    OBVIOUS
  <2>1. j = m + 1 \/ j \in 1 .. m
    BY <1>1
  <2> QED
    BY <1>1, <1>2, <1>5, <2>1
<1>7. u = [j \in 1 .. m + 1 |-> u[j]]
  BY <1>5
<1>8. CatSeq(t) = [j \in 1 .. m + 1 |-> t[j].cat]
  BY <1>1 DEF CatSeq
<1> QED
  BY <1>6, <1>7, <1>8 DEF t, u

LEMMA CatSeqConcat ==
    ASSUME NEW es \in Seq(Events), NEW fs \in Seq(Events)
    PROVE  CatSeq(es \o fs) = CatSeq(es) \o CatSeq(fs)
<1> DEFINE T == {q \in Seq(Events) : CatSeq(es \o q) = CatSeq(es) \o CatSeq(q)}
<1>1. <<>> \in T
  <2>1. es \o <<>> = es /\ CatSeq(es) \o <<>> = CatSeq(es)
    BY CatSeqType
  <2>2. CatSeq(<<>>) = <<>> /\ <<>> \in Seq(Events)
    BY DEF CatSeq
  <2> QED
    BY <2>1, <2>2
<1>2. ASSUME NEW q \in Seq(Events), NEW e \in Events, q \in T PROVE Append(q, e) \in T
  <2>1. es \o Append(q, e) = Append(es \o q, e) /\ es \o q \in Seq(Events)
    OBVIOUS
  <2>2. CatSeq(Append(q, e)) = Append(CatSeq(q), e.cat)
    BY CatSeqAppend
  <2>3. CatSeq(Append(es \o q, e)) = Append(CatSeq(es \o q), e.cat)
    <3> DEFINE v == es \o q
    <3>1. v \in Seq(Events)
      BY <2>1
    <3> HIDE DEF v
    <3>2. CatSeq(Append(v, e)) = Append(CatSeq(v), e.cat)
      BY <3>1, CatSeqAppend
    <3> QED
      BY <3>2 DEF v
  <2>4. e.cat \in Cats /\ CatSeq(es) \in Seq(Cats) /\ CatSeq(q) \in Seq(Cats)
    BY CatSeqType DEF Events
  <2>5. CatSeq(es) \o Append(CatSeq(q), e.cat) = Append(CatSeq(es) \o CatSeq(q), e.cat)
    BY <2>4
  <2>6. Append(q, e) \in Seq(Events)
    OBVIOUS
  <2> QED
    BY <1>2, <2>1, <2>2, <2>3, <2>5, <2>6
<1> HIDE DEF T
<1>3. Seq(Events) \subseteq T
  BY <1>1, <1>2, SeqInduction
<1> QED
  BY <1>3 DEF T

\* The categories of some events are the declared ones and each of theirs, once.
LEMMA CatsOfType ==
    ASSUME NEW s \in Shapes, NEW es \in Seq(Events)
    PROVE  /\ CatsOf(s, es) \in Seq(Cats) /\ IsInjective(CatsOf(s, es))
           /\ Range(s.cats) \subseteq Range(CatsOf(s, es))
           /\ s.grows => \A j \in DOMAIN es : es[j].cat \in Range(CatsOf(s, es))
<1>1. CatSeq(es) \in Seq(Cats)
  BY CatSeqType
<1>2. /\ Extend(s.cats, CatSeq(es)) \in Seq(Cats)
      /\ Range(Extend(s.cats, CatSeq(es))) = Range(s.cats) \cup Range(CatSeq(es))
      /\ IsInjective(Extend(s.cats, CatSeq(es)))
  BY <1>1, ShapeType, ExtendType
<1>3. \A j \in DOMAIN es : es[j].cat \in Range(CatSeq(es))
  BY DEF CatSeq, Range
<1> QED
  BY <1>2, <1>3, ShapeType DEF CatsOf

LEMMA CatsOfConcat ==
    ASSUME NEW s \in Shapes, NEW es \in Seq(Events), NEW fs \in Seq(Events)
    PROVE  /\ s.grows => Extend(CatsOf(s, es), CatsOf(s, fs)) = CatsOf(s, es \o fs)
           /\ Range(CatsOf(s, es)) \subseteq Range(CatsOf(s, es \o fs))
           /\ Range(CatsOf(s, fs)) \subseteq Range(CatsOf(s, es \o fs))
<1>1. /\ CatSeq(es) \in Seq(Cats) /\ CatSeq(fs) \in Seq(Cats)
      /\ CatsOf(s, es) \in Seq(Cats) /\ CatsOf(s, fs) \in Seq(Cats)
      /\ Range(s.cats) \subseteq Range(CatsOf(s, es))
  BY CatSeqType, CatsOfType
<1>2. CASE s.grows
  <2>1. Extend(CatsOf(s, es), Extend(s.cats, CatSeq(fs))) = Extend(CatsOf(s, es), CatSeq(fs))
    BY <1>1, ShapeType, ExtendAgain
  <2>2. Extend(s.cats, CatSeq(es) \o CatSeq(fs)) = Extend(Extend(s.cats, CatSeq(es)), CatSeq(fs))
    BY <1>1, ShapeType, ExtendConcat
  <2>3. Extend(CatsOf(s, es), CatsOf(s, fs)) = CatsOf(s, es \o fs)
    <3>1. /\ CatsOf(s, es) = Extend(s.cats, CatSeq(es))
          /\ CatsOf(s, fs) = Extend(s.cats, CatSeq(fs))
          /\ CatsOf(s, es \o fs) = Extend(s.cats, CatSeq(es) \o CatSeq(fs))
      BY <1>2, CatSeqConcat DEF CatsOf
    <3> QED
      BY <2>1, <2>2, <3>1
  <2>4. Range(Extend(CatsOf(s, es), CatsOf(s, fs)))
          = Range(CatsOf(s, es)) \cup Range(CatsOf(s, fs))
    BY <1>1, ExtendType
  <2> QED
    BY <2>3, <2>4
<1>3. CASE ~s.grows
  BY <1>3 DEF CatsOf
<1> QED
  BY <1>2, <1>3

\* In a list without repetition a category has one row.
LEMMA RowOfIs ==
    ASSUME NEW s, NEW cats \in Seq(Cats), IsInjective(cats), NEW r \in 1 .. Len(cats), NEW c
    PROVE  (RowOf(s, cats, c) = r) <=> (c = cats[r])
<1>1. DOMAIN cats = 1 .. Len(cats) /\ Len(cats) \in Nat
  OBVIOUS
<1>2. CASE c \in Range(cats)
  <2>1. \E i \in DOMAIN cats : cats[i] = c
    BY <1>2 DEF Range
  <2>2. cats[Position(cats, c)] = c /\ Position(cats, c) \in DOMAIN cats
    BY <2>1 DEF Position
  <2>3. RowOf(s, cats, c) = Position(cats, c)
    BY <1>2 DEF RowOf
  <2> QED
    BY <1>1, <2>2, <2>3 DEF IsInjective
<1>3. CASE c \notin Range(cats)
  <2>1. RowOf(s, cats, c) = Len(cats) + 1
    BY <1>3 DEF RowOf
  <2>2. c # cats[r]
    BY <1>1, <1>3 DEF Range
  <2> QED
    BY <1>1, <2>1, <2>2
<1> QED
  BY <1>2, <1>3

LEMMA CountsAdd ==
    ASSUME NEW s, NEW cats, NEW lo, NEW n, NEW r, NEW i,
           NEW es \in Seq(Events), NEW fs \in Seq(Events)
    PROVE  CountAt(s, cats, lo, n, es \o fs, r, i)
             = CountAt(s, cats, lo, n, es, r, i) + CountAt(s, cats, lo, n, fs, r, i)
<1> DEFINE E == Cell(s, cats, lo, n, r, i)
<1> HIDE DEF E
<1>1. Cardinality(Hits(es \o fs, E)) = Cardinality(Hits(es, E)) + Cardinality(Hits(fs, E))
  BY HitsConcat
<1> QED
  BY <1>1 DEF CountAt, E

\* A form's bins hold its counts.
LEMMA FormBins ==
    ASSUME NEW s, NEW es, NEW lo, NEW n
    PROVE  /\ Form(s, es, lo, n).rep = "dense" /\ Form(s, es, lo, n).cats = CatsOf(s, es)
           /\ Form(s, es, lo, n).lo = lo /\ Form(s, es, lo, n).n = n
           /\ \A r \in Rows(s, CatsOf(s, es)), i \in 0 .. n + 1 :
                Form(s, es, lo, n).bins[<<r, i>>] = CountAt(s, CatsOf(s, es), lo, n, es, r, i)
BY DEF Form, DenseHist

\* Read at a row of a longer list, a form's bins still hold its counts.
LEMMA AtRowCounts ==
    ASSUME NEW s \in Shapes, NEW es \in Seq(Events), NEW lo, NEW n,
           NEW cats \in Seq(Cats), IsInjective(cats),
           IF s.grows THEN Range(CatsOf(s, es)) \subseteq Range(cats) ELSE cats = s.cats,
           NEW r \in Rows(s, cats), NEW i \in 0 .. n + 1
    PROVE  AtRow(s, Form(s, es, lo, n), cats, r, i) = CountAt(s, cats, lo, n, es, r, i)
<1> DEFINE had == CatsOf(s, es)
           h == Form(s, es, lo, n)
<1> SUFFICES AtRow(s, h, cats, r, i) = CountAt(s, cats, lo, n, es, r, i)
  OBVIOUS
<1>1. /\ Len(cats) \in Nat /\ DOMAIN cats = 1 .. Len(cats)
      /\ had \in Seq(Cats) /\ IsInjective(had)
      /\ Len(had) \in Nat /\ DOMAIN had = 1 .. Len(had)
  BY CatsOfType
<1>2. /\ h.cats = had
      /\ \A q \in Rows(s, had) : h.bins[<<q, i>>] = CountAt(s, had, lo, n, es, q, i)
  BY FormBins
<1>3. s.grows \in BOOLEAN
  BY ShapeType
<1>4. CASE ~s.grows
  <2>1. had = cats
    BY <1>4 DEF CatsOf
  <2>2. r \in 1 .. Len(cats) + 1
    BY <1>1, <1>4 DEF Rows
  <2>3. CASE r > Len(cats)
    <3>1. r = Len(cats) + 1
      BY <1>1, <2>2, <2>3
    <3> HIDE DEF had, h
    <3> QED
      BY <1>2, <2>1, <2>3, <3>1 DEF AtRow
  <2>4. CASE ~(r > Len(cats))
    <3>1. r \in 1 .. Len(cats) /\ cats[r] \in Range(cats)
      BY <1>1, <2>2, <2>4 DEF Range
    <3>2. RowOf(s, cats, cats[r]) = r
      BY <3>1, RowOfIs
    <3>3. Position(cats, cats[r]) = r
      BY <3>1, <3>2 DEF RowOf
    <3> HIDE DEF had, h
    <3> QED
      BY <1>2, <2>1, <2>4, <3>1, <3>3 DEF AtRow
  <2> QED
    BY <2>3, <2>4
<1>5. CASE s.grows
  <2>1. r \in 1 .. Len(cats) /\ ~(r > Len(cats))
    BY <1>1, <1>5 DEF Rows
  <2> DEFINE q == Position(had, cats[r])
             E == Cell(s, cats, lo, n, r, i)
             F == Cell(s, had, lo, n, q, i)
  <2>2. \A j \in DOMAIN es : es[j] \in Events /\ es[j].cat \in Range(had)
    BY <1>5, CatsOfType
  <2>3. CASE cats[r] \in Range(had)
    <3>1. q \in 1 .. Len(had) /\ had[q] = cats[r]
      <4>1. \E k \in DOMAIN had : had[k] = cats[r]
        BY <2>3 DEF Range
      <4> HIDE DEF had
      <4> QED
        BY <1>1, <4>1 DEF Position
    <3>2. q \in Rows(s, had)
      BY <1>5, <3>1 DEF Rows
    <3>3. Hits(es, E) = Hits(es, F)
      <4>1. ASSUME NEW j \in DOMAIN es PROVE es[j] \in E <=> es[j] \in F
        <5>1. (RowOf(s, cats, es[j].cat) = r) <=> (es[j].cat = cats[r])
          BY <2>1, RowOfIs
        <5>2. (RowOf(s, had, es[j].cat) = q) <=> (es[j].cat = had[q])
          <6> HIDE DEF q, had
          <6> QED
            BY <1>1, <3>1, RowOfIs
        <5> HIDE DEF q, had
        <5> QED
          BY <2>2, <3>1, <5>1, <5>2 DEF Cell
      <4> HIDE DEF E, F
      <4> QED
        BY <4>1 DEF Hits
    <3>4. AtRow(s, h, cats, r, i) = h.bins[<<q, i>>]
      <4> HIDE DEF h
      <4> QED
        BY <1>2, <2>1, <2>3 DEF AtRow
    <3>5. h.bins[<<q, i>>] = CountAt(s, had, lo, n, es, q, i)
      <4> HIDE DEF h, had, q
      <4> QED
        BY <1>2, <3>2
    <3> HIDE DEF h, had, q
    <3> QED
      BY <3>3, <3>4, <3>5 DEF CountAt
  <2>4. CASE cats[r] \notin Range(had)
    <3>1. AtRow(s, h, cats, r, i) = 0
      <4> HIDE DEF h
      <4> QED
        BY <1>2, <2>1, <2>4 DEF AtRow
    <3>2. Hits(es, E) = {}
      <4>1. ASSUME NEW j \in DOMAIN es PROVE es[j] \notin E
        <5>1. (RowOf(s, cats, es[j].cat) = r) <=> (es[j].cat = cats[r])
          BY <2>1, RowOfIs
        <5> HIDE DEF had
        <5> QED
          BY <2>2, <2>4, <5>1 DEF Cell
      <4> HIDE DEF E
      <4> QED
        BY <4>1 DEF Hits
    <3> QED
      BY <3>1, <3>2, FS_EmptySet DEF CountAt
  <2> QED
    BY <2>3, <2>4
<1> QED
  BY <1>3, <1>4, <1>5

\* boost's + of two forms on one axis is the form of the events of both.
LEMMA NativeForm ==
    ASSUME NEW s \in Shapes, NEW es \in Seq(Events), NEW fs \in Seq(Events), NEW lo, NEW n
    PROVE  Native(s, Form(s, es, lo, n), Form(s, fs, lo, n)) = Form(s, es \o fs, lo, n)
<1> DEFINE a == Form(s, es, lo, n)
           b == Form(s, fs, lo, n)
           cats == CatsOf(s, es \o fs)
<1>1. es \o fs \in Seq(Events)
  OBVIOUS
<1>2. a.cats = CatsOf(s, es) /\ b.cats = CatsOf(s, fs) /\ <<a.lo, a.n>> = <<b.lo, b.n>>
      /\ a.lo = lo /\ a.n = n
  BY FormBins
<1>3. (IF s.grows THEN Extend(a.cats, b.cats) ELSE a.cats) = cats
  BY <1>2, CatsOfConcat DEF CatsOf
<1>4. cats \in Seq(Cats) /\ IsInjective(cats)
  BY <1>1, CatsOfType
<1>5. /\ IF s.grows THEN Range(CatsOf(s, es)) \subseteq Range(cats) ELSE cats = s.cats
      /\ IF s.grows THEN Range(CatsOf(s, fs)) \subseteq Range(cats) ELSE cats = s.cats
  BY CatsOfConcat DEF CatsOf
<1>6. ASSUME NEW r \in Rows(s, cats), NEW i \in 0 .. n + 1
      PROVE  AtRow(s, a, cats, r, i) + AtRow(s, b, cats, r, i)
               = CountAt(s, cats, lo, n, es \o fs, r, i)
  <2> HIDE DEF cats
  <2>1. /\ AtRow(s, a, cats, r, i) = CountAt(s, cats, lo, n, es, r, i)
        /\ AtRow(s, b, cats, r, i) = CountAt(s, cats, lo, n, fs, r, i)
    BY <1>4, <1>5, AtRowCounts
  <2> QED
    BY <2>1, CountsAdd
<1>7. Native(s, a, b) = DenseHist(s, cats, lo, n,
            LAMBDA r, i : AtRow(s, a, cats, r, i) + AtRow(s, b, cats, r, i))
  <2> HIDE DEF a, b, cats
  <2> QED
    BY <1>2, <1>3 DEF Native, DenseHist
<1> HIDE DEF a, b, cats
<1>8. [c \in Rows(s, cats) \X (0 .. n + 1) |-> AtRow(s, a, cats, c[1], c[2])
                                                + AtRow(s, b, cats, c[1], c[2])]
        = [c \in Rows(s, cats) \X (0 .. n + 1) |-> CountAt(s, cats, lo, n, es \o fs, c[1], c[2])]
  BY <1>6
<1> QED
  BY <1>7, <1>8 DEF DenseHist, Form, a, b, cats

-----------------------------------------------------------------------------
(* The axis that spans some events *)

Spanned(s, es) == ({es[j].x : j \in DOMAIN es} \ {Inf}) \cup {s.lo, s.lo + s.n - 1}
LoOf(s, es) == IF s.widens THEN Min(Spanned(s, es)) ELSE s.lo
NOf(s, es) == IF s.widens THEN Max(Spanned(s, es)) - LoOf(s, es) + 1 ELSE s.n
Full(s, es) == Form(s, es, LoOf(s, es), NOf(s, es))

\* lo .. lo + n - 1 is the narrowest axis with every spanned value.
IsSpan(s, es, lo, n) ==
    /\ lo \in Int /\ n \in Int
    /\ lo \in Spanned(s, es) /\ lo + n - 1 \in Spanned(s, es)
    /\ \A x \in Spanned(s, es) : lo <= x /\ x <= lo + n - 1

LEMMA EventX ==
    ASSUME NEW es \in Seq(Events), NEW j \in DOMAIN es
    PROVE  es[j] \in Events /\ (es[j].x = Inf \/ es[j].x \in Int)
<1>1. es[j] \in Events
  OBVIOUS
<1> QED
  BY <1>1 DEF Events

LEMMA SpannedType ==
    ASSUME NEW s \in Shapes, NEW es \in Seq(Events)
    PROVE  /\ Spanned(s, es) \in SUBSET Int /\ IsFiniteSet(Spanned(s, es))
           /\ s.lo \in Spanned(s, es) /\ s.lo + s.n - 1 \in Spanned(s, es)
<1> DEFINE X == {es[j].x : j \in DOMAIN es}
           f == [j \in DOMAIN es |-> es[j].x]
<1>1. IsFiniteSet(X)
  <2>1. DOMAIN es = 1 .. Len(es) /\ Len(es) \in Nat
    OBVIOUS
  <2>2. IsFiniteSet(DOMAIN es)
    BY <2>1, FS_Interval
  <2>3. f \in Surjection(DOMAIN es, X)
    BY DEF Surjection
  <2> HIDE DEF f, X
  <2> QED
    BY <2>2, <2>3, FS_Surjection
<1>2. X \ {Inf} \in SUBSET Int
  BY EventX
<1>3. IsFiniteSet(X \ {Inf})
  <2> HIDE DEF X
  <2> QED
    BY <1>1, FS_Subset
<1> DEFINE E == {s.lo, s.lo + s.n - 1}
<1>4. IsFiniteSet(E) /\ E \in SUBSET Int
  <2>1. E = {s.lo} \cup {s.lo + s.n - 1}
    OBVIOUS
  <2>2. IsFiniteSet({s.lo} \cup {s.lo + s.n - 1})
    BY FS_Singleton, FS_AddElement
  <2> QED
    BY <2>1, <2>2, ShapeType
<1>5. Spanned(s, es) = (X \ {Inf}) \cup E
  BY DEF Spanned
<1> HIDE DEF X, E
<1>6. IsFiniteSet((X \ {Inf}) \cup E)
  BY <1>3, <1>4, FS_Union
<1>7. s.lo \in E /\ s.lo + s.n - 1 \in E
  BY DEF E
<1> QED
  BY <1>2, <1>4, <1>5, <1>6, <1>7

LEMMA SpanIs ==
    ASSUME NEW s \in Shapes, NEW es \in Seq(Events), s.widens
    PROVE  IsSpan(s, es, LoOf(s, es), NOf(s, es)) /\ NOf(s, es) \in Nat \ {0}
<1> DEFINE V == Spanned(s, es)
<1>1. V \in SUBSET Int /\ IsFiniteSet(V) /\ V # {}
  BY SpannedType
<1>2. LoOf(s, es) = Min(V) /\ NOf(s, es) = Max(V) - Min(V) + 1
  BY DEF LoOf, NOf
<1> HIDE DEF V
<1>3. /\ Min(V) \in V /\ \A k \in V : Min(V) <= k
      /\ Max(V) \in V /\ \A k \in V : k <= Max(V)
  BY <1>1, MinMax
<1>4. Min(V) \in Int /\ Max(V) \in Int /\ Min(V) <= Max(V)
  BY <1>1, <1>3
<1>5. Min(V) + (Max(V) - Min(V) + 1) - 1 = Max(V)
  BY <1>4
<1> QED
  BY <1>2, <1>3, <1>4, <1>5 DEF IsSpan, V

LEMMA SpanUnique ==
    ASSUME NEW s \in Shapes, NEW es \in Seq(Events), s.widens, NEW lo, NEW n,
           IsSpan(s, es, lo, n)
    PROVE  LoOf(s, es) = lo /\ NOf(s, es) = n
<1> DEFINE l == LoOf(s, es)
           m == NOf(s, es)
<1>1. IsSpan(s, es, l, m)
  BY SpanIs
<1> HIDE DEF l, m
<1>2. l <= lo /\ lo <= l /\ l \in Int /\ lo \in Int
  BY <1>1 DEF IsSpan
<1>3. l + m - 1 <= lo + n - 1 /\ lo + n - 1 <= l + m - 1 /\ m \in Int /\ n \in Int
  BY <1>1 DEF IsSpan
<1> QED
  BY <1>2, <1>3 DEF l, m

LEMMA SpanType ==
    ASSUME NEW s \in Shapes, NEW es \in Seq(Events)
    PROVE  /\ LoOf(s, es) \in Int /\ NOf(s, es) \in Nat \ {0}
           /\ s.widens => \A j \in DOMAIN es : es[j].x = Inf
                  \/ es[j].x \in LoOf(s, es) .. LoOf(s, es) + NOf(s, es) - 1
<1>1. CASE s.widens
  <2>1. IsSpan(s, es, LoOf(s, es), NOf(s, es)) /\ NOf(s, es) \in Nat \ {0}
    BY <1>1, SpanIs
  <2>2. \A j \in DOMAIN es : es[j].x = Inf \/ es[j].x \in Spanned(s, es)
    BY DEF Spanned
  <2>3. ASSUME NEW j \in DOMAIN es, es[j].x # Inf
        PROVE  es[j].x \in LoOf(s, es) .. LoOf(s, es) + NOf(s, es) - 1
    BY <2>1, <2>2, <2>3, EventX DEF IsSpan
  <2> QED
    BY <2>1, <2>3 DEF IsSpan
<1>2. CASE ~s.widens
  BY <1>2, ShapeType DEF LoOf, NOf
<1> QED
  BY <1>1, <1>2, ShapeType

LEMMA SpannedConcat ==
    ASSUME NEW s, NEW es \in Seq(Events), NEW fs \in Seq(Events)
    PROVE  Spanned(s, es \o fs) = Spanned(s, es) \cup Spanned(s, fs)
<1> DEFINE m == Len(es)
           k == Len(fs)
           t == es \o fs
<1>1. /\ m \in Nat /\ k \in Nat /\ DOMAIN es = 1 .. m /\ DOMAIN fs = 1 .. k
      /\ DOMAIN t = 1 .. m + k
      /\ \A j \in 1 .. m : t[j] = es[j]
      /\ \A j \in 1 .. k : t[m + j] = fs[j]
  OBVIOUS
<1> HIDE DEF m, k, t
<1>2. ASSUME NEW j \in DOMAIN t
      PROVE  (\E i \in DOMAIN es : t[j] = es[i]) \/ (\E i \in DOMAIN fs : t[j] = fs[i])
  <2>1. CASE j <= m
    BY <1>1, <2>1
  <2>2. CASE ~(j <= m)
    <3>1. j - m \in 1 .. k /\ m + (j - m) = j
      BY <1>1, <2>2
    <3> QED
      BY <1>1, <3>1
  <2> QED
    BY <2>1, <2>2
<1>3. ASSUME NEW i \in DOMAIN es PROVE \E j \in DOMAIN t : t[j] = es[i]
  BY <1>1
<1>4. ASSUME NEW i \in DOMAIN fs PROVE \E j \in DOMAIN t : t[j] = fs[i]
  <2>1. m + i \in DOMAIN t /\ t[m + i] = fs[i]
    BY <1>1
  <2> QED
    BY <2>1
<1>5. {t[j].x : j \in DOMAIN t} = {es[j].x : j \in DOMAIN es} \cup {fs[j].x : j \in DOMAIN fs}
  BY <1>2, <1>3, <1>4
<1> QED
  BY <1>5 DEF Spanned, t

\* Counted, by the span.
LEMMA CountedIsFull ==
    ASSUME NEW s \in Shapes, NEW es \in Seq(Events)
    PROVE  Counted(s, es) = Full(s, es)
<1> DEFINE cats == CatsOf(s, es)
           lo == LoOf(s, es)
           n == NOf(s, es)
<1>1. (IF s.grows THEN Extend(s.cats, FirstSeen(CatSeq(es))) ELSE s.cats) = cats
  <2> DEFINE z == <<>>
             c == CatSeq(es)
             b == s.cats
  <2>1. z \in Seq(Cats) /\ Range(z) \subseteq Range(b)
    BY DEF Range
  <2>2. c \in Seq(Cats) /\ b \in Seq(Cats)
    BY CatSeqType, ShapeType
  <2> HIDE DEF b, c, z
  <2>3. Extend(b, Extend(z, c)) = Extend(b, c)
    BY <2>1, <2>2, ExtendAgain
  <2> QED
    BY <2>3 DEF FirstSeen, CatsOf, b, c, z
<1>2. ASSUME NEW r, NEW i
      PROVE  {j \in DOMAIN es : RowOf(s, cats, es[j].cat) = r /\ ColumnOf(lo, n, es[j].x) = i}
               = Hits(es, Cell(s, cats, lo, n, r, i))
  <2> HIDE DEF cats, lo, n
  <2> QED
    BY EventX DEF Hits, Cell
<1>3. Counted(s, es) = DenseHist(s, cats, lo, n,
         LAMBDA r, i : Cardinality({j \in DOMAIN es :
             RowOf(s, cats, es[j].cat) = r /\ ColumnOf(lo, n, es[j].x) = i}))
  BY <1>1 DEF Counted, CatSeq, LoOf, NOf, Spanned, DenseHist
<1> QED
  BY <1>2, <1>3 DEF DenseHist, Full, Form, CountAt

LEMMA ColumnIs ==
    ASSUME NEW lo \in Int, NEW n \in Nat, NEW x, x = Inf \/ x \in lo .. lo + n - 1
    PROVE  ColumnOf(lo, n, x) = IF x = Inf THEN n + 1 ELSE x - lo + 1
BY DEF ColumnOf

\* A form on a wider axis is the form there: no value is off either.
LEMMA OntoForm ==
    ASSUME NEW s \in Shapes, NEW es \in Seq(Events),
           NEW lo \in Int, NEW n \in Nat \ {0}, NEW l \in Int, NEW m \in Nat \ {0},
           \A j \in DOMAIN es : es[j].x = Inf \/ es[j].x \in lo .. lo + n - 1,
           l <= lo, lo + n <= l + m
    PROVE  Onto(s, Form(s, es, lo, n), [lo |-> l, n |-> m]) = Form(s, es, l, m)
<1> DEFINE h == Form(s, es, lo, n)
           cats == CatsOf(s, es)
           first == lo - l
           bin(r, i) == IF i = 0 THEN h.bins[<<r, 0>>]
                        ELSE IF i = m + 1 THEN h.bins[<<r, n + 1>>]
                        ELSE IF i - first \in 1 .. n THEN h.bins[<<r, i - first>>]
                        ELSE 0
<1>1. ASSUME NEW j \in DOMAIN es
      PROVE  /\ ColumnOf(lo, n, es[j].x) = IF es[j].x = Inf THEN n + 1 ELSE es[j].x - lo + 1
             /\ ColumnOf(l, m, es[j].x) = IF es[j].x = Inf THEN m + 1 ELSE es[j].x - l + 1
             /\ es[j].x # Inf => es[j].x \in lo .. lo + n - 1
             /\ es[j].x # Inf => es[j].x \in Int
  <2> DEFINE x == es[j].x
  <2>1. x = Inf \/ x \in lo .. lo + n - 1
    OBVIOUS
  <2> HIDE DEF x
  <2>2. x = Inf \/ x \in l .. l + m - 1
    BY <2>1
  <2>3. ColumnOf(lo, n, x) = IF x = Inf THEN n + 1 ELSE x - lo + 1
    BY <2>1, ColumnIs
  <2>4. ColumnOf(l, m, x) = IF x = Inf THEN m + 1 ELSE x - l + 1
    BY <2>2, ColumnIs
  <2> QED
    BY <2>1, <2>3, <2>4 DEF x
<1>2. ASSUME NEW r, NEW i, NEW k,
             \A j \in DOMAIN es : ColumnOf(l, m, es[j].x) = i <=> ColumnOf(lo, n, es[j].x) = k
      PROVE  CountAt(s, cats, lo, n, es, r, k) = CountAt(s, cats, l, m, es, r, i)
  <2>1. Hits(es, Cell(s, cats, lo, n, r, k)) = Hits(es, Cell(s, cats, l, m, r, i))
    <3> HIDE DEF cats
    <3> QED
      BY <1>2, EventX DEF Hits, Cell
  <2> QED
    BY <2>1 DEF CountAt
<1>3. /\ h.cats = cats /\ h.lo = lo /\ h.n = n
      /\ \A r \in Rows(s, cats), i \in 0 .. n + 1 :
            h.bins[<<r, i>>] = CountAt(s, cats, lo, n, es, r, i)
  BY FormBins
<1>4. ASSUME NEW r \in Rows(s, cats), NEW i \in 0 .. m + 1
      PROVE  bin(r, i) = CountAt(s, cats, l, m, es, r, i)
  <2> HIDE DEF h, cats
  <2>1. CASE i = 0
    <3>1. \A j \in DOMAIN es : ColumnOf(l, m, es[j].x) = i <=> ColumnOf(lo, n, es[j].x) = 0
      BY <1>1, <2>1
    <3>2. 0 \in 0 .. n + 1
      OBVIOUS
    <3> QED
      BY <1>2, <1>3, <2>1, <3>1, <3>2
  <2>2. CASE i = m + 1
    <3>1. ASSUME NEW j \in DOMAIN es
          PROVE  ColumnOf(l, m, es[j].x) = i <=> ColumnOf(lo, n, es[j].x) = n + 1
      <4>1. CASE es[j].x = Inf
        BY <1>1, <2>2, <4>1
      <4>2. CASE es[j].x # Inf
        BY <1>1, <2>2, <4>2
      <4> QED
        BY <4>1, <4>2
    <3>2. n + 1 \in 0 .. n + 1 /\ i # 0
      BY <2>2
    <3> QED
      BY <1>2, <1>3, <2>2, <3>1, <3>2
  <2>3. CASE i # 0 /\ i # m + 1 /\ i - first \in 1 .. n
    <3>1. ASSUME NEW j \in DOMAIN es
          PROVE  ColumnOf(l, m, es[j].x) = i <=> ColumnOf(lo, n, es[j].x) = i - first
      <4>1. CASE es[j].x = Inf
        BY <1>1, <2>3, <4>1
      <4>2. CASE es[j].x # Inf
        <5> DEFINE x == es[j].x
        <5>1. x \in Int /\ ColumnOf(l, m, x) = x - l + 1 /\ ColumnOf(lo, n, x) = x - lo + 1
          BY <1>1, <4>2
        <5> HIDE DEF x
        <5>2. ColumnOf(l, m, x) = i <=> ColumnOf(lo, n, x) = i - first
          BY <5>1
        <5> QED
          BY <5>2 DEF x
      <4> QED
        BY <4>1, <4>2
    <3>2. i - first \in 0 .. n + 1
      BY <2>3
    <3>3. bin(r, i) = h.bins[<<r, i - first>>]
      BY <2>3
    <3>4. h.bins[<<r, i - first>>] = CountAt(s, cats, lo, n, es, r, i - first)
      BY <1>3, <3>2
    <3> HIDE DEF first
    <3> QED
      BY <1>2, <3>1, <3>3, <3>4
  <2>4. CASE i # 0 /\ i # m + 1 /\ i - first \notin 1 .. n
    <3>1. \A j \in DOMAIN es : ColumnOf(l, m, es[j].x) # i
      BY <1>1, <2>4
    <3>2. Hits(es, Cell(s, cats, l, m, r, i)) = {}
      BY <3>1 DEF Hits, Cell
    <3> QED
      BY <2>4, <3>2, FS_EmptySet DEF CountAt
  <2> QED
    BY <2>1, <2>2, <2>3, <2>4
<1>5. Onto(s, h, [lo |-> l, n |-> m]) = DenseHist(s, cats, l, m, bin)
  <2> HIDE DEF h, cats
  <2> QED
    BY <1>3 DEF Onto, DenseHist
<1> HIDE DEF h, cats, bin
<1>6. [c \in Rows(s, cats) \X (0 .. m + 1) |-> bin(c[1], c[2])]
        = [c \in Rows(s, cats) \X (0 .. m + 1) |-> CountAt(s, cats, l, m, es, c[1], c[2])]
  BY <1>4
<1> QED
  BY <1>5, <1>6 DEF DenseHist, Form, h, cats

-----------------------------------------------------------------------------
(* Adding dense histograms, and filling one *)

LEMMA MinMaxOfTwo ==
    ASSUME NEW a \in Int, NEW b \in Int
    PROVE  /\ Min({a, b}) = IF a <= b THEN a ELSE b
           /\ Max({a, b}) = IF a <= b THEN b ELSE a
<1>1. {a, b} \in SUBSET Int /\ {a, b} # {} /\ IsFiniteSet({a, b})
  <2>1. IsFiniteSet({a} \cup {b}) /\ {a, b} = {a} \cup {b}
    BY FS_Singleton, FS_AddElement
  <2> QED
    BY <2>1
<1>2. /\ Min({a, b}) \in {a, b} /\ \A k \in {a, b} : Min({a, b}) <= k
      /\ Max({a, b}) \in {a, b} /\ \A k \in {a, b} : k <= Max({a, b})
  BY <1>1, MinMax
<1> QED
  BY <1>2

\* The union of two spans is the span of both.
LEMMA UnionSpan ==
    ASSUME NEW s \in Shapes, NEW es \in Seq(Events), NEW fs \in Seq(Events), s.widens
    PROVE  LET u == Union(s, Full(s, es), Full(s, fs))
           IN /\ u = [lo |-> LoOf(s, es \o fs), n |-> NOf(s, es \o fs)]
              /\ u.lo <= LoOf(s, es) /\ LoOf(s, es) + NOf(s, es) <= u.lo + u.n
              /\ u.lo <= LoOf(s, fs) /\ LoOf(s, fs) + NOf(s, fs) <= u.lo + u.n
              /\ LoOf(s, es) = LoOf(s, fs) /\ NOf(s, es) = NOf(s, fs)
                   => u.lo = LoOf(s, es) /\ u.n = NOf(s, es)
<1> DEFINE a == LoOf(s, es)
           n == NOf(s, es)
           b == LoOf(s, fs)
           m == NOf(s, fs)
           k == b - a
           lo == IF k < 0 THEN b ELSE a
           end == IF n <= k + m THEN k + m ELSE n
           len == end - (IF 0 <= k THEN 0 ELSE k)
<1>1. /\ Full(s, es).lo = a /\ Full(s, es).n = n /\ Full(s, fs).lo = b /\ Full(s, fs).n = m
  BY FormBins DEF Full
<1>2. a \in Int /\ n \in Nat \ {0} /\ b \in Int /\ m \in Nat \ {0}
  BY SpanType
<1>3. IsSpan(s, es, a, n) /\ IsSpan(s, fs, b, m)
  BY SpanIs
<1> HIDE DEF a, n, b, m
<1>4. k \in Int /\ Max({n, k + m}) = end /\ Min({0, k}) = IF 0 <= k THEN 0 ELSE k
  <2>1. k \in Int /\ k + m \in Int /\ n \in Int /\ 0 \in Int
    BY <1>2
  <2> HIDE DEF k
  <2> QED
    BY <2>1, MinMaxOfTwo
<1>5. Union(s, Full(s, es), Full(s, fs)) = [lo |-> lo, n |-> len]
  BY <1>1, <1>4 DEF Union
<1>6. es \o fs \in Seq(Events) /\ Spanned(s, es \o fs) = Spanned(s, es) \cup Spanned(s, fs)
  BY SpannedConcat
<1>7. /\ lo \in Int /\ len \in Int /\ (lo = a \/ lo = b) /\ lo <= a /\ lo <= b
      /\ (lo + len - 1 = a + n - 1 \/ lo + len - 1 = b + m - 1)
      /\ a + n <= lo + len /\ b + m <= lo + len
      /\ a = b /\ n = m => lo = a /\ len = n
  BY <1>2
<1> HIDE DEF lo, len
<1>8. /\ lo \in Spanned(s, es \o fs) /\ lo + len - 1 \in Spanned(s, es \o fs)
  BY <1>3, <1>6, <1>7 DEF IsSpan
<1>9. ASSUME NEW x \in Spanned(s, es \o fs) PROVE lo <= x /\ x <= lo + len - 1
  <2>1. CASE x \in Spanned(s, es)
    <3>1. x \in Int /\ a <= x /\ x <= a + n - 1
      BY <1>3, <2>1, SpannedType DEF IsSpan
    <3> QED
      BY <1>2, <1>7, <3>1
  <2>2. CASE x \in Spanned(s, fs)
    <3>1. x \in Int /\ b <= x /\ x <= b + m - 1
      BY <1>3, <2>2, SpannedType DEF IsSpan
    <3> QED
      BY <1>2, <1>7, <3>1
  <2> QED
    BY <1>6, <2>1, <2>2
<1>10. IsSpan(s, es \o fs, lo, len)
  BY <1>7, <1>8, <1>9 DEF IsSpan
<1>11. LoOf(s, es \o fs) = lo /\ NOf(s, es \o fs) = len
  <2> DEFINE t == es \o fs
  <2>1. t \in Seq(Events) /\ IsSpan(s, t, lo, len)
    BY <1>6, <1>10
  <2> HIDE DEF t
  <2>2. LoOf(s, t) = lo /\ NOf(s, t) = len
    BY <2>1, SpanUnique
  <2> QED
    BY <2>2 DEF t
<1> QED
  BY <1>5, <1>7, <1>11 DEF a, n, b, m

\* Two dense histograms, brought onto the union of their axes where those differ, add
\* to the histogram of the events of both.
LEMMA AddFull ==
    ASSUME NEW s \in Shapes, NEW es \in Seq(Events), NEW fs \in Seq(Events), NEW x, NEW y,
           Dense(s, x) = Full(s, es), Dense(s, y) = Full(s, fs), x # Refused, y # Refused
    PROVE  AddDense(s, x, y) = Full(s, es \o fs)
<1> DEFINE a == Full(s, es)
           b == Full(s, fs)
           u == Union(s, a, b)
           lo == LoOf(s, es \o fs)
           n == NOf(s, es \o fs)
<1>1. /\ a.lo = LoOf(s, es) /\ a.n = NOf(s, es) /\ b.lo = LoOf(s, fs) /\ b.n = NOf(s, fs)
  BY FormBins DEF Full
<1>2. es \o fs \in Seq(Events)
  OBVIOUS
<1>3. AddDense(s, x, y) = IF <<a.lo, a.n>> # <<b.lo, b.n>> /\ s.widens
                          THEN Native(s, Onto(s, a, u), Onto(s, b, u)) ELSE Native(s, a, b)
  BY DEF AddDense
<1>4. CASE s.widens
  <2>1. /\ u = [lo |-> lo, n |-> n]
        /\ lo <= LoOf(s, es) /\ LoOf(s, es) + NOf(s, es) <= lo + n
        /\ lo <= LoOf(s, fs) /\ LoOf(s, fs) + NOf(s, fs) <= lo + n
        /\ LoOf(s, es) = LoOf(s, fs) /\ NOf(s, es) = NOf(s, fs)
             => lo = LoOf(s, es) /\ n = NOf(s, es)
    BY <1>4, UnionSpan
  <2>2. CASE <<a.lo, a.n>> # <<b.lo, b.n>>
    <3>1. lo \in Int /\ n \in Nat \ {0}
      BY <1>2, SpanType
    <3> HIDE DEF lo, n, u
    <3>2. Onto(s, a, u) = Form(s, es, lo, n)
      <4> DEFINE l == LoOf(s, es)
                 k == NOf(s, es)
      <4>1. /\ l \in Int /\ k \in Nat \ {0} /\ lo <= l /\ l + k <= lo + n
            /\ \A j \in DOMAIN es : es[j].x = Inf \/ es[j].x \in l .. l + k - 1
        BY <1>4, <2>1, SpanType
      <4>2. u = [lo |-> lo, n |-> n]
        BY <2>1
      <4> HIDE DEF l, k
      <4>3. Onto(s, Form(s, es, l, k), [lo |-> lo, n |-> n]) = Form(s, es, lo, n)
        BY <3>1, <4>1, OntoForm
      <4> QED
        BY <4>2, <4>3 DEF Full, l, k
    <3>3. Onto(s, b, u) = Form(s, fs, lo, n)
      <4> DEFINE l == LoOf(s, fs)
                 k == NOf(s, fs)
      <4>1. /\ l \in Int /\ k \in Nat \ {0} /\ lo <= l /\ l + k <= lo + n
            /\ \A j \in DOMAIN fs : fs[j].x = Inf \/ fs[j].x \in l .. l + k - 1
        BY <1>4, <2>1, SpanType
      <4>2. u = [lo |-> lo, n |-> n]
        BY <2>1
      <4> HIDE DEF l, k
      <4>3. Onto(s, Form(s, fs, l, k), [lo |-> lo, n |-> n]) = Form(s, fs, lo, n)
        BY <3>1, <4>1, OntoForm
      <4> QED
        BY <4>2, <4>3 DEF Full, l, k
    <3>4. Native(s, Form(s, es, lo, n), Form(s, fs, lo, n)) = Form(s, es \o fs, lo, n)
      BY NativeForm
    <3> HIDE DEF a, b
    <3>5. AddDense(s, x, y) = Form(s, es \o fs, lo, n)
      BY <1>3, <1>4, <2>2, <3>2, <3>3, <3>4
    <3> QED
      BY <3>5 DEF lo, n, Full
  <2>3. CASE <<a.lo, a.n>> = <<b.lo, b.n>>
    <3>1. LoOf(s, fs) = LoOf(s, es) /\ NOf(s, fs) = NOf(s, es)
      BY <1>1, <2>3
    <3>4. lo = LoOf(s, es) /\ n = NOf(s, es)
      BY <2>1, <3>1
    <3>5. Native(s, a, b) = Form(s, es \o fs, LoOf(s, es), NOf(s, es))
      BY <3>1, NativeForm DEF Full
    <3> HIDE DEF a, b
    <3>6. AddDense(s, x, y) = Form(s, es \o fs, lo, n)
      BY <1>3, <2>3, <3>4, <3>5
    <3> QED
      BY <3>6 DEF Full
  <2> QED
    BY <2>2, <2>3
<1>5. CASE ~s.widens
  <2>1. /\ LoOf(s, es) = s.lo /\ NOf(s, es) = s.n /\ LoOf(s, fs) = s.lo /\ NOf(s, fs) = s.n
        /\ lo = s.lo /\ n = s.n
    BY <1>5 DEF LoOf, NOf
  <2>2. Native(s, a, b) = Form(s, es \o fs, s.lo, s.n)
    BY <2>1, NativeForm DEF Full
  <2> HIDE DEF a, b
  <2>3. AddDense(s, x, y) = Form(s, es \o fs, lo, n)
    BY <1>3, <1>5, <2>1, <2>2
  <2> QED
    BY <2>3 DEF Full
<1> QED
  BY <1>4, <1>5, ShapeType

LEMMA CatsOfAppend ==
    ASSUME NEW s \in Shapes, NEW es \in Seq(Events), NEW e \in Events
    PROVE  /\ s.grows => Extend(CatsOf(s, es), <<e.cat>>) = CatsOf(s, Append(es, e))
           /\ Range(CatsOf(s, es)) \subseteq Range(CatsOf(s, Append(es, e)))
<1>1. e.cat \in Cats /\ CatSeq(es) \in Seq(Cats) /\ CatsOf(s, es) \in Seq(Cats)
  BY CatSeqType, CatsOfType DEF Events
<1>2. CASE s.grows
  <2>1. CatsOf(s, Append(es, e)) = Seen(CatsOf(s, es), e.cat)
    <3>1. Extend(s.cats, Append(CatSeq(es), e.cat)) = Seen(Extend(s.cats, CatSeq(es)), e.cat)
      BY <1>1, ExtendAppend
    <3> QED
      BY <1>2, <3>1, CatSeqAppend DEF CatsOf
  <2>2. Extend(CatsOf(s, es), <<e.cat>>) = Seen(CatsOf(s, es), e.cat)
    <3> DEFINE a == CatsOf(s, es)
               c == e.cat
               z == <<>>
    <3>1. z \in Seq(Cats) /\ <<c>> = Append(z, c) /\ c \in Cats
      BY <1>1
    <3> HIDE DEF a, c, z
    <3>2. Extend(a, Append(z, c)) = Seen(Extend(a, z), c)
      BY <3>1, ExtendAppend
    <3>3. Extend(a, z) = a
      BY ExtendNil DEF z
    <3> QED
      BY <3>1, <3>2, <3>3 DEF a, c
  <2>3. Range(Seen(CatsOf(s, es), e.cat)) = Range(CatsOf(s, es)) \cup {e.cat}
    BY <1>1, SeenType
  <2> QED
    BY <2>1, <2>2, <2>3
<1>3. CASE ~s.grows
  BY <1>3 DEF CatsOf
<1> QED
  BY <1>2, <1>3

LEMMA SpannedAppend ==
    ASSUME NEW s, NEW es \in Seq(Events), NEW e \in Events
    PROVE  Spanned(s, Append(es, e)) = Spanned(s, es) \cup ({e.x} \ {Inf})
<1> DEFINE m == Len(es)
           t == Append(es, e)
<1>1. /\ m \in Nat /\ DOMAIN es = 1 .. m /\ DOMAIN t = 1 .. m + 1 /\ t[m + 1] = e
      /\ \A j \in 1 .. m : t[j] = es[j]
  OBVIOUS
<1> HIDE DEF m, t
<1>2. {t[j].x : j \in DOMAIN t} = {es[j].x : j \in DOMAIN es} \cup {e.x}
  <2>1. ASSUME NEW j \in DOMAIN t PROVE t[j].x \in {es[i].x : i \in DOMAIN es} \cup {e.x}
    <3>1. j = m + 1 \/ j \in DOMAIN es
      BY <1>1
    <3> QED
      BY <1>1, <3>1
  <2>2. ASSUME NEW j \in DOMAIN es PROVE es[j].x \in {t[i].x : i \in DOMAIN t}
    BY <1>1
  <2>3. e.x \in {t[i].x : i \in DOMAIN t}
    BY <1>1
  <2> QED
    BY <2>1, <2>2, <2>3
<1> QED
  BY <1>2 DEF Spanned, t

LEMMA CountsAppend ==
    ASSUME NEW s, NEW cats, NEW lo, NEW n, NEW r, NEW i, NEW es \in Seq(Events), NEW e \in Events
    PROVE  CountAt(s, cats, lo, n, Append(es, e), r, i)
             = CountAt(s, cats, lo, n, es, r, i)
                 + IF RowOf(s, cats, e.cat) = r /\ ColumnOf(lo, n, e.x) = i THEN 1 ELSE 0
<1> DEFINE E == Cell(s, cats, lo, n, r, i)
<1>1. e \in E <=> RowOf(s, cats, e.cat) = r /\ ColumnOf(lo, n, e.x) = i
  BY DEF Cell
<1> HIDE DEF E
<1>2. Cardinality(Hits(Append(es, e), E)) = Cardinality(Hits(es, E)) + IF e \in E THEN 1 ELSE 0
  BY HitsAppend
<1> QED
  BY <1>1, <1>2 DEF CountAt, E

\* The axis boost grows to for one event spans it and what came before.
LEMMA GrownSpan ==
    ASSUME NEW s \in Shapes, NEW es \in Seq(Events), NEW e \in Events, s.widens, e.x # Inf,
           e.x \notin LoOf(s, es) .. LoOf(s, es) + NOf(s, es) - 1
    PROVE  LET lo == Min({LoOf(s, es), e.x})
               n == Max({LoOf(s, es) + NOf(s, es) - 1, e.x}) - lo + 1
           IN /\ lo = LoOf(s, Append(es, e)) /\ n = NOf(s, Append(es, e))
              /\ lo <= LoOf(s, es) /\ LoOf(s, es) + NOf(s, es) <= lo + n
<1> DEFINE a == LoOf(s, es)
           k == NOf(s, es)
           x == e.x
           t == Append(es, e)
           lo == IF a <= x THEN a ELSE x
           n == (IF a + k - 1 <= x THEN x ELSE a + k - 1) - lo + 1
<1>1. x \in Int /\ a \in Int /\ k \in Nat \ {0} /\ t \in Seq(Events)
  <2>1. e.x \in Int
    BY DEF Events
  <2>2. t \in Seq(Events)
    OBVIOUS
  <2> QED
    BY <2>1, <2>2, SpanType
<1>2. IsSpan(s, es, a, k) /\ Spanned(s, t) = Spanned(s, es) \cup {x}
  <2>1. IsSpan(s, es, a, k)
    BY SpanIs
  <2>2. Spanned(s, t) = Spanned(s, es) \cup ({e.x} \ {Inf})
    BY SpannedAppend
  <2>3. {e.x} \ {Inf} = {x}
    OBVIOUS
  <2> HIDE DEF a, k, t, x
  <2> QED
    BY <2>1, <2>2, <2>3
<1>3. Spanned(s, es) \in SUBSET Int
  BY SpannedType
<1> HIDE DEF a, k, x, t
<1>4. a + k - 1 \in Int
  BY <1>1
<1>5. Min({a, x}) = lo /\ Max({a + k - 1, x}) - Min({a, x}) + 1 = n
  <2> DEFINE b == a + k - 1
  <2>1. b \in Int
    BY <1>4
  <2> HIDE DEF b
  <2>2. /\ Min({a, x}) = IF a <= x THEN a ELSE x
        /\ Max({b, x}) = IF b <= x THEN x ELSE b
    BY <1>1, <2>1, MinMaxOfTwo
  <2> QED
    BY <2>2 DEF b
<1>6. /\ lo \in Int /\ n \in Int /\ (lo = a \/ lo = x) /\ lo <= a /\ lo <= x
      /\ (lo + n - 1 = a + k - 1 \/ lo + n - 1 = x)
      /\ a + k - 1 <= lo + n - 1 /\ x <= lo + n - 1
      /\ a + k <= lo + n
  BY <1>1
<1> HIDE DEF lo, n
<1>7. ASSUME NEW y \in Spanned(s, t) PROVE lo <= y /\ y <= lo + n - 1
  <2>1. CASE y \in Spanned(s, es)
    <3>1. y \in Int /\ a <= y /\ y <= a + k - 1
      BY <1>2, <1>3, <2>1 DEF IsSpan
    <3> QED
      BY <1>1, <1>6, <3>1
  <2>2. CASE y = x
    BY <1>6, <2>2
  <2> QED
    BY <1>2, <2>1, <2>2
<1>8. lo \in Spanned(s, t) /\ lo + n - 1 \in Spanned(s, t)
  BY <1>2, <1>6 DEF IsSpan
<1>9. IsSpan(s, t, lo, n)
  BY <1>6, <1>7, <1>8 DEF IsSpan
<1>10. LoOf(s, t) = lo /\ NOf(s, t) = n
  BY <1>1, <1>9, SpanUnique
<1> QED
  BY <1>5, <1>6, <1>10 DEF a, k, x, t

\* One that fits changes no axis.
LEMMA FittingSpan ==
    ASSUME NEW s \in Shapes, NEW es \in Seq(Events), NEW e \in Events,
           \/ ~s.widens
           \/ e.x = Inf
           \/ e.x \in LoOf(s, es) .. LoOf(s, es) + NOf(s, es) - 1
    PROVE  LoOf(s, Append(es, e)) = LoOf(s, es) /\ NOf(s, Append(es, e)) = NOf(s, es)
<1> DEFINE a == LoOf(s, es)
           k == NOf(s, es)
           t == Append(es, e)
<1>1. t \in Seq(Events)
  OBVIOUS
<1>2. CASE s.widens
  <2>1. IsSpan(s, es, a, k) /\ Spanned(s, t) = Spanned(s, es) \cup ({e.x} \ {Inf})
    BY <1>2, SpanIs, SpannedAppend
  <2>2. a \in Int /\ k \in Nat \ {0}
    BY SpanType
  <2>3. e.x = Inf \/ e.x \in a .. a + k - 1
    BY <1>2
  <2> HIDE DEF a, k, t
  <2>4. IsSpan(s, t, a, k)
    BY <2>1, <2>2, <2>3 DEF IsSpan
  <2>5. LoOf(s, t) = a /\ NOf(s, t) = k
    BY <1>1, <1>2, <2>4, SpanUnique
  <2> QED
    BY <2>5 DEF a, k, t
<1>3. CASE ~s.widens
  BY <1>3 DEF LoOf, NOf
<1> QED
  BY <1>2, <1>3

\* boost's fill of one event gives the histogram of the events with it.
LEMMA EagerOne ==
    ASSUME NEW s \in Shapes, NEW es \in Seq(Events), NEW e \in Events
    PROVE  EagerFillOne(s, Full(s, es), e) = Full(s, Append(es, e))
<1> DEFINE h == Full(s, es)
           t == Append(es, e)
           cats == CatsOf(s, t)
           lo == LoOf(s, t)
           n == NOf(s, t)
           fits == ~s.widens \/ e.x = Inf \/ e.x \in h.lo .. h.lo + h.n - 1
           g == Form(s, es, lo, n)
           low == IF fits THEN h.lo ELSE Min({h.lo, e.x})
           len == IF fits THEN h.n ELSE Max({h.lo + h.n - 1, e.x}) - low + 1
<1>1. h.cats = CatsOf(s, es) /\ h.lo = LoOf(s, es) /\ h.n = NOf(s, es)
  BY FormBins DEF Full
<1>2. t \in Seq(Events) /\ lo \in Int /\ n \in Nat \ {0}
  <2>1. t \in Seq(Events)
    OBVIOUS
  <2> HIDE DEF t
  <2> QED
    BY <2>1, SpanType
<1>3. (IF s.grows THEN Extend(h.cats, <<e.cat>>) ELSE h.cats) = cats
  BY <1>1, CatsOfAppend DEF CatsOf
<1>4. /\ low = lo /\ len = n
      /\ (IF fits THEN h ELSE Onto(s, h, [lo |-> low, n |-> len])) = g
  <2>1. CASE fits
    <3>1. LoOf(s, t) = LoOf(s, es) /\ NOf(s, t) = NOf(s, es)
      BY <1>1, <2>1, FittingSpan
    <3> HIDE DEF fits, t
    <3> QED
      BY <1>1, <2>1, <3>1 DEF Full
  <2>2. CASE ~fits
    <3> DEFINE a == LoOf(s, es)
               k == NOf(s, es)
    <3>1. s.widens /\ e.x # Inf /\ e.x \notin a .. a + k - 1
      BY <1>1, <2>2
    <3>2. /\ Min({a, e.x}) = lo /\ Max({a + k - 1, e.x}) - Min({a, e.x}) + 1 = n
          /\ lo <= a /\ a + k <= lo + n
      BY <3>1, GrownSpan
    <3>3. /\ a \in Int /\ k \in Nat \ {0}
          /\ \A j \in DOMAIN es : es[j].x = Inf \/ es[j].x \in a .. a + k - 1
      BY <3>1, SpanType
    <3>4. low = lo /\ len = n
      <4> HIDE DEF fits, h, lo, n
      <4> QED
        BY <1>1, <2>2, <3>2
    <3>8. lo <= a /\ a + k <= lo + n /\ lo \in Int /\ n \in Nat \ {0}
      BY <1>2, <3>2
    <3> HIDE DEF a, k, lo, n
    <3>5. Onto(s, Form(s, es, a, k), [lo |-> lo, n |-> n]) = Form(s, es, lo, n)
      BY <3>3, <3>8, OntoForm, ZenonT(30)
    <3>6. h = Form(s, es, a, k)
      BY DEF Full, a, k
    <3> HIDE DEF fits, h, low, len
    <3> QED
      BY <2>2, <3>4, <3>5, <3>6
  <2> QED
    BY <2>1, <2>2
<1>5. /\ cats \in Seq(Cats) /\ IsInjective(cats)
      /\ IF s.grows THEN Range(CatsOf(s, es)) \subseteq Range(cats) ELSE cats = s.cats
  <2>1. IF s.grows THEN Range(CatsOf(s, es)) \subseteq Range(cats) ELSE cats = s.cats
    BY CatsOfAppend DEF CatsOf
  <2>2. cats \in Seq(Cats) /\ IsInjective(cats)
    <3> HIDE DEF t
    <3> QED
      BY <1>2, CatsOfType
  <2> QED
    BY <2>1, <2>2
<1>6. ASSUME NEW r \in Rows(s, cats), NEW i \in 0 .. n + 1
      PROVE  AtRow(s, g, cats, r, i)
               + (IF <<r, i>> = <<RowOf(s, cats, e.cat), ColumnOf(lo, n, e.x)>> THEN 1 ELSE 0)
               = CountAt(s, cats, lo, n, t, r, i)
  <2> HIDE DEF cats, lo, n
  <2>1. AtRow(s, g, cats, r, i) = CountAt(s, cats, lo, n, es, r, i)
    BY <1>5, AtRowCounts
  <2>2. CountAt(s, cats, lo, n, t, r, i)
          = CountAt(s, cats, lo, n, es, r, i)
              + IF RowOf(s, cats, e.cat) = r /\ ColumnOf(lo, n, e.x) = i THEN 1 ELSE 0
    BY CountsAppend
  <2>3. (<<r, i>> = <<RowOf(s, cats, e.cat), ColumnOf(lo, n, e.x)>>)
          <=> (RowOf(s, cats, e.cat) = r /\ ColumnOf(lo, n, e.x) = i)
    OBVIOUS
  <2> HIDE DEF g, t
  <2> QED
    BY <2>1, <2>2, <2>3
<1>7. EagerFillOne(s, h, e) = DenseHist(s, cats, lo, n, LAMBDA r, i : AtRow(s, g, cats, r, i)
          + IF <<r, i>> = <<RowOf(s, cats, e.cat), ColumnOf(lo, n, e.x)>> THEN 1 ELSE 0)
  <2>1. EagerFillOne(s, h, e) =
          LET cs == IF s.grows THEN Extend(h.cats, <<e.cat>>) ELSE h.cats
              q == IF fits THEN h ELSE Onto(s, h, [lo |-> low, n |-> len])
          IN DenseHist(s, cs, low, len, LAMBDA r, i : AtRow(s, q, cs, r, i)
               + IF <<r, i>> = <<RowOf(s, cs, e.cat), ColumnOf(low, len, e.x)>> THEN 1 ELSE 0)
    <3> HIDE DEF h
    <3> QED
      BY DEF EagerFillOne, DenseHist
  <2> HIDE DEF h, cats, lo, n, g, fits, low, len
  <2> QED
    BY <1>3, <1>4, <2>1 DEF DenseHist
<1> HIDE DEF h, cats, lo, n, g
<1>8. [c \in Rows(s, cats) \X (0 .. n + 1) |-> AtRow(s, g, cats, c[1], c[2])
          + IF <<c[1], c[2]>> = <<RowOf(s, cats, e.cat), ColumnOf(lo, n, e.x)>> THEN 1 ELSE 0]
        = [c \in Rows(s, cats) \X (0 .. n + 1) |-> CountAt(s, cats, lo, n, t, c[1], c[2])]
  BY <1>6
<1> QED
  BY <1>7, <1>8 DEF DenseHist, Full, Form, h, cats, lo, n, t

-----------------------------------------------------------------------------
(* boost's fill of a sequence of events *)

Eagers == INSTANCE SetInduction WITH Op <- EagerFillOne

LEMMA EagerIsFold ==
    ASSUME NEW s, NEW h, NEW fs
    PROVE  EagerFill(s, h, fs) = Eagers!Folded(s, h, fs)
BY DEF EagerFill, FoldLeft, MapThenFoldSet, Max,
       Eagers!Folded, Eagers!FoldLeft, Eagers!MapThenFoldSet, Eagers!Max

\* It gives the histogram of the events that came before and these.
LEMMA EagerFull ==
    ASSUME NEW s \in Shapes, NEW es \in Seq(Events), NEW fs \in Seq(Events)
    PROVE  EagerFill(s, Full(s, es), fs) = Full(s, es \o fs)
<1> DEFINE h == Full(s, es)
           T == {us \in Seq(Events) : EagerFill(s, h, us) = Full(s, es \o us)}
<1>1. <<>> \in T
  <2>1. es \o <<>> = es /\ <<>> \in Seq(Events)
    OBVIOUS
  <2>2. EagerFill(s, h, <<>>) = h
    BY EagerIsFold, Eagers!FoldNil
  <2> QED
    BY <2>1, <2>2
<1>2. ASSUME NEW us \in Seq(Events), NEW e \in Events, us \in T PROVE Append(us, e) \in T
  <2> DEFINE all == es \o us
  <2>1. Append(us, e) \in Seq(Events) /\ all \in Seq(Events)
    OBVIOUS
  <2>2. es \o Append(us, e) = Append(all, e)
    OBVIOUS
  <2>3. EagerFill(s, h, Append(us, e)) = EagerFillOne(s, EagerFill(s, h, us), e)
    <3>1. Eagers!Folded(s, h, Append(us, e)) = EagerFillOne(s, Eagers!Folded(s, h, us), e)
      BY Eagers!FoldAppend
    <3> HIDE DEF h
    <3> QED
      BY <3>1, EagerIsFold
  <2>4. EagerFill(s, h, us) = Full(s, all)
    BY <1>2
  <2> HIDE DEF all, h
  <2>5. EagerFillOne(s, Full(s, all), e) = Full(s, Append(all, e))
    BY <2>1, EagerOne
  <2> QED
    BY <2>1, <2>2, <2>3, <2>4, <2>5
<1> HIDE DEF T
<1>3. Seq(Events) \subseteq T
  BY <1>1, <1>2, SeqInduction
<1> QED
  BY <1>3 DEF T, h

\* An empty histogram is that of no events.
LEMMA ZeroIsFull ==
    ASSUME NEW s \in Shapes
    PROVE  ZeroOf(s) = Full(s, <<>>)
<1> DEFINE z == <<>>
<1>1. z \in Seq(Events) /\ CatSeq(z) = <<>> /\ DOMAIN z = {}
  BY DEF CatSeq
<1> HIDE DEF z
<1>2. CatsOf(s, z) = s.cats
  BY <1>1, ExtendNil DEF CatsOf
<1>3. LoOf(s, z) = s.lo /\ NOf(s, z) = s.n
  <2>1. CASE s.widens
    <3>1. s.lo \in Int /\ s.n \in Nat \ {0}
      BY ShapeType
    <3>2. Spanned(s, z) = {s.lo, s.lo + s.n - 1}
      BY <1>1 DEF Spanned
    <3>3. IsSpan(s, z, s.lo, s.n)
      BY <3>1, <3>2 DEF IsSpan
    <3> QED
      BY <1>1, <2>1, <3>3, SpanUnique
  <2>2. CASE ~s.widens
    BY <2>2 DEF LoOf, NOf
  <2> QED
    BY <2>1, <2>2
<1>4. ASSUME NEW r, NEW i PROVE CountAt(s, s.cats, s.lo, s.n, z, r, i) = 0
  <2>1. Hits(z, Cell(s, s.cats, s.lo, s.n, r, i)) = {}
    BY <1>1 DEF Hits
  <2> QED
    BY <2>1, FS_EmptySet DEF CountAt
<1> QED
  BY <1>2, <1>3, <1>4 DEF Full, Form, ZeroOf, DenseHist, z

-----------------------------------------------------------------------------
(* Chunked partials.  The one of some events has their keys in the order they *)
(* were first seen, and per key the counts of its events.                     *)

Keys == Cats \cup Nat
KeySeq(s, es) == [j \in DOMAIN es |-> KeyOf(s, es[j].cat)]
FirstKeys(s) == IF s.grows THEN s.cats ELSE <<>>
KeysOf(s, es) == Extend(FirstKeys(s), KeySeq(s, es))
KeyCell(s, k, i) == {e \in Events : KeyOf(s, e.cat) = k /\ ColumnOf(s.lo, s.n, e.x) = i}
KeyCount(s, es, k, i) == Cardinality(Hits(es, KeyCell(s, k, i)))
ChunkForm(s, es) ==
    [rep |-> "chunked", keys |-> KeysOf(s, es),
     chunks |-> [k \in Range(KeySeq(s, es)) |-> [i \in 0 .. s.n + 1 |-> KeyCount(s, es, k, i)]]]

LEMMA KeyType ==
    ASSUME NEW s \in Shapes, NEW c \in Cats
    PROVE  KeyOf(s, c) \in Keys
<1>1. s.cats \in Seq(Cats)
  BY ShapeType
<1> DEFINE cats == s.cats
<1>2. Position(cats, c) \in Nat \/ c \notin Range(cats)
  <2> HIDE DEF cats
  <2>1. ASSUME c \in Range(cats) PROVE \E i \in DOMAIN cats : cats[i] = c
    BY <2>1 DEF Range
  <2>2. DOMAIN cats \subseteq Nat
    BY <1>1 DEF cats
  <2> QED
    BY <2>1, <2>2 DEF Position
<1>3. Len(cats) + 1 \in Nat
  BY <1>1
<1> HIDE DEF cats
<1> QED
  BY <1>2, <1>3 DEF KeyOf, RowOf, Keys, cats

LEMMA KeySeqType ==
    ASSUME NEW s \in Shapes, NEW es \in Seq(Events)
    PROVE  /\ KeySeq(s, es) \in Seq(Keys) /\ FirstKeys(s) \in Seq(Keys)
           /\ IsInjective(FirstKeys(s))
<1>1. ASSUME NEW j \in DOMAIN es PROVE KeyOf(s, es[j].cat) \in Keys
  <2>1. es[j].cat \in Cats
    <3>1. es[j] \in Events
      BY EventX
    <3> QED
      BY <3>1 DEF Events
  <2> QED
    BY <2>1, KeyType
<1>2. KeySeq(s, es) \in Seq(Keys)
  <2>1. DOMAIN es = 1 .. Len(es) /\ Len(es) \in Nat
    OBVIOUS
  <2> QED
    BY <1>1, <2>1 DEF KeySeq
<1>3. FirstKeys(s) \in Seq(Keys) /\ IsInjective(FirstKeys(s))
  <2>1. s.cats \in Seq(Keys) /\ IsInjective(s.cats)
    <3>1. s.cats \in Seq(Cats) /\ IsInjective(s.cats)
      BY ShapeType
    <3> QED
      BY <3>1 DEF Keys
  <2>2. <<>> \in Seq(Keys) /\ IsInjective(<<>>)
    BY DEF IsInjective
  <2> QED
    BY <2>1, <2>2 DEF FirstKeys
<1> QED
  BY <1>2, <1>3

LEMMA ConcatIs ==
    ASSUME NEW C, NEW a \in Seq(C), NEW b \in Seq(C)
    PROVE  a \o b = [j \in 1 .. Len(a) + Len(b) |-> IF j <= Len(a) THEN a[j] ELSE b[j - Len(a)]]
<1> DEFINE m == Len(a)
           k == Len(b)
           t == a \o b
<1>1. /\ m \in Nat /\ k \in Nat /\ t \in Seq(C) /\ DOMAIN t = 1 .. m + k
      /\ \A j \in 1 .. m + k : t[j] = IF j <= m THEN a[j] ELSE b[j - m]
  OBVIOUS
<1> HIDE DEF m, k, t
<1>2. t = [j \in 1 .. m + k |-> t[j]]
  BY <1>1
<1> QED
  BY <1>1, <1>2 DEF m, k, t

LEMMA KeySeqConcat ==
    ASSUME NEW s \in Shapes, NEW es \in Seq(Events), NEW fs \in Seq(Events)
    PROVE  KeySeq(s, es \o fs) = KeySeq(s, es) \o KeySeq(s, fs)
<1> DEFINE a == KeySeq(s, es)
           b == KeySeq(s, fs)
           c == KeySeq(s, es \o fs)
           m == Len(es)
           k == Len(fs)
           t == es \o fs
<1>1. /\ m \in Nat /\ k \in Nat /\ DOMAIN es = 1 .. m /\ DOMAIN fs = 1 .. k
      /\ DOMAIN t = 1 .. m + k
      /\ \A j \in 1 .. m + k : t[j] = IF j <= m THEN es[j] ELSE fs[j - m]
  OBVIOUS
<1>2. a \in Seq(Keys) /\ Len(a) = m /\ b \in Seq(Keys) /\ Len(b) = k
  <2>1. a \in Seq(Keys) /\ b \in Seq(Keys)
    BY KeySeqType
  <2>2. DOMAIN a = 1 .. m /\ DOMAIN b = 1 .. k
    BY <1>1 DEF KeySeq
  <2> HIDE DEF a, b, m, k
  <2> QED
    BY <1>1, <2>1, <2>2
<1>3. a \o b = [j \in 1 .. m + k |-> IF j <= m THEN a[j] ELSE b[j - m]]
  <2> HIDE DEF a, b, m, k
  <2>1. a \o b = [j \in 1 .. Len(a) + Len(b) |-> IF j <= Len(a) THEN a[j] ELSE b[j - Len(a)]]
    BY <1>2, ConcatIs
  <2> QED
    BY <1>2, <2>1
<1>4. c = [j \in 1 .. m + k |-> KeyOf(s, t[j].cat)]
  BY <1>1 DEF KeySeq
<1>5. ASSUME NEW j \in 1 .. m + k
      PROVE  KeyOf(s, t[j].cat) = IF j <= m THEN a[j] ELSE b[j - m]
  <2>1. CASE j <= m
    <3>1. j \in DOMAIN es /\ t[j] = es[j]
      BY <1>1, <2>1
    <3>2. a[j] = KeyOf(s, es[j].cat)
      BY <3>1 DEF KeySeq
    <3> HIDE DEF a, b, m, k, t
    <3> QED
      BY <2>1, <3>1, <3>2
  <2>2. CASE ~(j <= m)
    <3>1. j - m \in DOMAIN fs /\ t[j] = fs[j - m]
      BY <1>1, <2>2
    <3>2. b[j - m] = KeyOf(s, fs[j - m].cat)
      BY <3>1 DEF KeySeq
    <3> HIDE DEF a, b, m, k, t
    <3> QED
      BY <2>2, <3>1, <3>2
  <2> QED
    BY <2>1, <2>2
<1> HIDE DEF a, b, c, m, k, t
<1>6. c = a \o b
  BY <1>3, <1>4, <1>5
<1> QED
  BY <1>6 DEF a, b, c, t

LEMMA RangeConcat ==
    ASSUME NEW C, NEW a \in Seq(C), NEW b \in Seq(C)
    PROVE  Range(a \o b) = Range(a) \cup Range(b)
<1>1. /\ Len(a) \in Nat /\ Len(b) \in Nat /\ DOMAIN a = 1 .. Len(a) /\ DOMAIN b = 1 .. Len(b)
      /\ DOMAIN (a \o b) = 1 .. Len(a) + Len(b)
      /\ \A j \in 1 .. Len(a) : (a \o b)[j] = a[j]
      /\ \A j \in 1 .. Len(b) : (a \o b)[Len(a) + j] = b[j]
  OBVIOUS
<1> DEFINE m == Len(a)
           t == a \o b
<1> HIDE DEF m, t
<1>2. ASSUME NEW j \in DOMAIN t PROVE t[j] \in Range(a) \cup Range(b)
  <2>1. CASE j <= m
    <3>1. j \in DOMAIN a /\ t[j] = a[j]
      BY <1>1, <2>1 DEF m, t
    <3> QED
      BY <3>1 DEF Range
  <2>2. CASE ~(j <= m)
    <3>1. j - m \in DOMAIN b /\ t[m + (j - m)] = b[j - m] /\ m + (j - m) = j
      BY <1>1, <2>2 DEF m, t
    <3> QED
      BY <3>1 DEF Range
  <2> QED
    BY <2>1, <2>2
<1>3. ASSUME NEW j \in DOMAIN a PROVE a[j] \in Range(t)
  <2>1. j \in DOMAIN t /\ t[j] = a[j]
    BY <1>1 DEF t
  <2> QED
    BY <2>1 DEF Range
<1>4. ASSUME NEW j \in DOMAIN b PROVE b[j] \in Range(t)
  <2>1. m + j \in DOMAIN t /\ t[m + j] = b[j]
    BY <1>1 DEF m, t
  <2> QED
    BY <2>1 DEF Range
<1> QED
  BY <1>2, <1>3, <1>4 DEF Range, t

\* The keys of two partials' events, one after the other.
LEMMA KeysConcat ==
    ASSUME NEW s \in Shapes, NEW es \in Seq(Events), NEW fs \in Seq(Events)
    PROVE  /\ KeysOf(s, es) \in Seq(Keys)
           /\ Extend(KeysOf(s, es), KeySeq(s, fs)) = KeysOf(s, es \o fs)
           /\ Extend(KeysOf(s, es), KeysOf(s, fs)) = KeysOf(s, es \o fs)
           /\ Range(KeySeq(s, es \o fs)) = Range(KeySeq(s, es)) \cup Range(KeySeq(s, fs))
<1> DEFINE z == FirstKeys(s)
           a == KeySeq(s, es)
           b == KeySeq(s, fs)
<1>1. z \in Seq(Keys) /\ a \in Seq(Keys) /\ b \in Seq(Keys)
  BY KeySeqType
<1>2. KeySeq(s, es \o fs) = a \o b
  BY KeySeqConcat
<1> HIDE DEF z, a, b
<1>3. Extend(z, a) \in Seq(Keys) /\ Range(Extend(z, a)) = Range(z) \cup Range(a)
  BY <1>1, ExtendType
<1>4. Extend(z, a \o b) = Extend(Extend(z, a), b)
  BY <1>1, ExtendConcat
<1>5. Extend(Extend(z, a), Extend(z, b)) = Extend(Extend(z, a), b)
  <2> DEFINE y == Extend(z, a)
  <2>1. y \in Seq(Keys) /\ Range(z) \subseteq Range(y)
    BY <1>3
  <2> HIDE DEF y
  <2> QED
    BY <1>1, <2>1, ExtendAgain DEF y
<1>6. Range(a \o b) = Range(a) \cup Range(b)
  BY <1>1, RangeConcat
<1> QED
  BY <1>2, <1>3, <1>4, <1>5, <1>6 DEF KeysOf, z, a, b

\* What one event counts is counted once, whichever partial it was filled into.
LEMMA KeyCounts ==
    ASSUME NEW s, NEW k, NEW i, NEW es \in Seq(Events), NEW fs \in Seq(Events)
    PROVE  /\ KeyCount(s, es, k, i) \in Nat
           /\ KeyCount(s, es \o fs, k, i) = KeyCount(s, es, k, i) + KeyCount(s, fs, k, i)
           /\ k \notin Range(KeySeq(s, es)) => KeyCount(s, es, k, i) = 0
<1> DEFINE E == KeyCell(s, k, i)
<1>1. ASSUME k \notin Range(KeySeq(s, es)) PROVE Hits(es, E) = {}
  <2>1. ASSUME NEW j \in DOMAIN es PROVE KeyOf(s, es[j].cat) # k
    <3>1. KeySeq(s, es)[j] = KeyOf(s, es[j].cat) /\ j \in DOMAIN KeySeq(s, es)
      BY DEF KeySeq
    <3> QED
      BY <1>1, <3>1 DEF Range
  <2> QED
    BY <2>1 DEF Hits, KeyCell
<1> HIDE DEF E
<1>2. /\ IsFiniteSet(Hits(es, E))
      /\ Cardinality(Hits(es \o fs, E)) = Cardinality(Hits(es, E)) + Cardinality(Hits(fs, E))
  BY HitsConcat
<1>3. Cardinality(Hits(es, E)) \in Nat
  BY <1>2, FS_CardinalityType
<1> QED
  BY <1>1, <1>2, <1>3, FS_EmptySet DEF KeyCount, E

\* A partial's count at any key, filled or not.
LEMMA ChunkAtForm ==
    ASSUME NEW s, NEW es \in Seq(Events), NEW k, NEW i \in 0 .. s.n + 1
    PROVE  ChunkAt(ChunkForm(s, es), k, i) = KeyCount(s, es, k, i)
<1> DEFINE ks == Range(KeySeq(s, es))
           h == ChunkForm(s, es)
<1>1. /\ DOMAIN h.chunks = ks
      /\ k \in ks => h.chunks[k][i] = KeyCount(s, es, k, i)
  BY DEF ChunkForm
<1>2. k \notin ks => KeyCount(s, es, k, i) = 0
  <2>1. <<>> \in Seq(Events)
    OBVIOUS
  <2> QED
    BY <2>1, KeyCounts
<1> HIDE DEF ks, h
<1>3. ChunkAt(h, k, i) = KeyCount(s, es, k, i)
  BY <1>1, <1>2 DEF ChunkAt
<1> QED
  BY <1>3 DEF h

LEMMA SliceIs ==
    ASSUME NEW s, NEW k, NEW es \in Seq(Events)
    PROVE  Slice(s, k, es) = [i \in 0 .. s.n + 1 |-> KeyCount(s, es, k, i)]
<1>1. ASSUME NEW i
      PROVE  {j \in DOMAIN es : KeyOf(s, es[j].cat) = k /\ ColumnOf(s.lo, s.n, es[j].x) = i}
               = Hits(es, KeyCell(s, k, i))
  BY EventX DEF Hits, KeyCell
<1> QED
  BY <1>1 DEF Slice, KeyCount

\* Two partials of one plan merge into the partial of their events.
LEMMA MergedForm ==
    ASSUME NEW s \in Shapes, NEW es \in Seq(Events), NEW fs \in Seq(Events)
    PROVE  Merged(s, ChunkForm(s, es), ChunkForm(s, fs)) = ChunkForm(s, es \o fs)
<1> DEFINE a == ChunkForm(s, es)
           b == ChunkForm(s, fs)
           ks == Range(KeySeq(s, es \o fs))
<1>1. /\ a.keys = KeysOf(s, es) /\ DOMAIN a.chunks = Range(KeySeq(s, es))
      /\ b.keys = KeysOf(s, fs) /\ DOMAIN b.chunks = Range(KeySeq(s, fs))
  BY DEF ChunkForm
<1>2. Extend(a.keys, b.keys) = KeysOf(s, es \o fs)
  BY <1>1, KeysConcat
<1>3. DOMAIN a.chunks \cup DOMAIN b.chunks = ks
  BY <1>1, KeysConcat
<1>4. ASSUME NEW k, NEW i \in 0 .. s.n + 1
      PROVE  ChunkAt(a, k, i) + ChunkAt(b, k, i) = KeyCount(s, es \o fs, k, i)
  <2>1. ChunkAt(a, k, i) = KeyCount(s, es, k, i) /\ ChunkAt(b, k, i) = KeyCount(s, fs, k, i)
    BY ChunkAtForm
  <2> HIDE DEF a, b
  <2> QED
    BY <2>1, KeyCounts
<1> HIDE DEF a, b, ks
<1>5. [k \in ks |-> [i \in 0 .. s.n + 1 |-> ChunkAt(a, k, i) + ChunkAt(b, k, i)]]
        = [k \in ks |-> [i \in 0 .. s.n + 1 |-> KeyCount(s, es \o fs, k, i)]]
  BY <1>4
<1>6. Merged(s, a, b) = ChunkForm(s, es \o fs)
  BY <1>2, <1>3, <1>5 DEF Merged, ChunkForm, ks
<1> QED
  BY <1>6 DEF a, b

\* Chunked.dense gives the dense histogram of the same events.
LEMMA DenseForm ==
    ASSUME NEW s \in Shapes, ~s.widens, NEW es \in Seq(Events)
    PROVE  Dense(s, ChunkForm(s, es)) = Full(s, es)
<1> DEFINE h == ChunkForm(s, es)
           cats == CatsOf(s, es)
           At(r, i) == ChunkAt(h, IF s.grows THEN cats[r] ELSE r, i)
<1>1. h.rep = "chunked" /\ h.keys = KeysOf(s, es)
  BY DEF ChunkForm
<1>2. (IF s.grows THEN h.keys ELSE s.cats) = cats
  BY <1>1 DEF KeysOf, FirstKeys, KeySeq, KeyOf, CatsOf, CatSeq
<1>3. LoOf(s, es) = s.lo /\ NOf(s, es) = s.n
  BY DEF LoOf, NOf
<1>4. ASSUME NEW r \in Rows(s, cats), NEW i \in 0 .. s.n + 1
      PROVE  At(r, i) = CountAt(s, cats, s.lo, s.n, es, r, i)
  <2> DEFINE k == IF s.grows THEN cats[r] ELSE r
  <2>1. ChunkAt(h, k, i) = KeyCount(s, es, k, i)
    BY ChunkAtForm
  <2>2. ASSUME NEW c \in Cats PROVE (KeyOf(s, c) = k) <=> (RowOf(s, cats, c) = r)
    <3>1. CASE s.grows
      <4>1. cats \in Seq(Cats) /\ IsInjective(cats)
        BY CatsOfType
      <4> HIDE DEF cats
      <4>2. r \in 1 .. Len(cats)
        BY <3>1, <4>1 DEF Rows
      <4>3. (RowOf(s, cats, c) = r) <=> (c = cats[r])
        BY <4>1, <4>2, RowOfIs
      <4> QED
        BY <3>1, <4>3 DEF KeyOf
    <3>2. CASE ~s.grows
      BY <3>2 DEF KeyOf, CatsOf
    <3> QED
      BY <3>1, <3>2
  <2> HIDE DEF k, cats
  <2>3. KeyCell(s, k, i) = Cell(s, cats, s.lo, s.n, r, i)
    <3>1. \A e \in Events : e.cat \in Cats
      BY DEF Events
    <3> QED
      BY <2>2, <3>1 DEF KeyCell, Cell
  <2> HIDE DEF h
  <2> QED
    BY <2>1, <2>3 DEF KeyCount, CountAt, k
<1>5. Dense(s, h) = DenseHist(s, cats, s.lo, s.n, At)
  <2>1. Dense(s, h) = LET cs == IF s.grows THEN h.keys ELSE s.cats
                      IN DenseHist(s, cs, s.lo, s.n,
                             LAMBDA r, i : ChunkAt(h, IF s.grows THEN cs[r] ELSE r, i))
    <3> HIDE DEF h
    <3> QED
      BY <1>1 DEF Dense, IsChunked, DenseHist
  <2> HIDE DEF h, cats
  <2> QED
    BY <1>2, <2>1 DEF DenseHist
<1> HIDE DEF h, cats, At
<1>6. [c \in Rows(s, cats) \X (0 .. s.n + 1) |-> At(c[1], c[2])]
        = [c \in Rows(s, cats) \X (0 .. s.n + 1) |-> CountAt(s, cats, s.lo, s.n, es, c[1], c[2])]
  BY <1>4
<1> QED
  BY <1>3, <1>5, <1>6 DEF DenseHist, Full, Form, h, cats

LEMMA NoChunksForm ==
    ASSUME NEW s \in Shapes
    PROVE  NoChunks(s) = ChunkForm(s, <<>>)
<1> DEFINE z == <<>>
<1>1. KeySeq(s, z) = <<>>
  BY DEF KeySeq
<1> HIDE DEF z
<1>2. KeysOf(s, z) = FirstKeys(s)
  BY <1>1, ExtendNil DEF KeysOf
<1>3. Range(KeySeq(s, z)) = {}
  BY <1>1 DEF Range
<1>4. [k \in {} |-> [i \in 0 .. s.n + 1 |-> KeyCount(s, z, k, i)]] = <<>>
  OBVIOUS
<1> QED
  BY <1>2, <1>3, <1>4 DEF ChunkForm, NoChunks, FirstKeys, z

-----------------------------------------------------------------------------
(* Chunked.fill, a slice per key of the batch *)

SliceOp(p, g, k) == AddSlice(p[1], g, k, Slice(p[1], k, p[2]))
Slices == INSTANCE SetInduction WITH Op <- SliceOp

LEMMA FillIsFold ==
    ASSUME NEW s, NEW h, NEW fs
    PROVE  FillChunks(s, h, fs) = Slices!Folded(<<s, fs>>, h, GroupKeys(s, fs))
BY DEF FillChunks, SliceOp, FoldLeft, MapThenFoldSet, Max,
       Slices!Folded, Slices!FoldLeft, Slices!MapThenFoldSet, Slices!Max

\* The partial of es with the batch fs filled in at the keys ks.
Filling(s, es, fs, ks) ==
    [rep |-> "chunked", keys |-> Extend(KeysOf(s, es), ks),
     chunks |-> [k \in Range(KeySeq(s, es)) \cup Range(ks) |-> [i \in 0 .. s.n + 1 |->
                     IF k \in Range(ks) THEN KeyCount(s, es \o fs, k, i)
                                        ELSE KeyCount(s, es, k, i)]]]

IsPartial(h) == h = [rep |-> "chunked", keys |-> h.keys, chunks |-> h.chunks]
SliceAdded(s, h, k, slice) ==
    [rep |-> "chunked", keys |-> Extend(h.keys, <<k>>),
     chunks |-> [j \in DOMAIN h.chunks \cup {k} |->
         IF j = k THEN [i \in 0 .. s.n + 1 |-> ChunkAt(h, k, i) + slice[i]] ELSE h.chunks[j]]]

LEMMA AddSliceIs ==
    ASSUME NEW s, NEW k, NEW slice, NEW h, IsPartial(h)
    PROVE  AddSlice(s, h, k, slice) = SliceAdded(s, h, k, slice)
<1> DEFINE new == [j \in DOMAIN h.chunks \cup {k} |->
               IF j = k THEN [i \in 0 .. s.n + 1 |-> ChunkAt(h, k, i) + slice[i]]
                        ELSE h.chunks[j]]
           seen == Extend(h.keys, <<k>>)
           g == AddSlice(s, h, k, slice)
<1>1. g = [h EXCEPT !.keys = seen, !.chunks = new]
  BY DEF AddSlice
<1> HIDE DEF new, seen, g
<1>2. DOMAIN h = {"rep", "keys", "chunks"} /\ h.rep = "chunked"
  BY DEF IsPartial
<1>3. g = [f \in {"rep", "keys", "chunks"} |->
               IF f = "keys" THEN seen ELSE IF f = "chunks" THEN new ELSE "chunked"]
  BY <1>1, <1>2
<1>4. g = [rep |-> "chunked", keys |-> seen, chunks |-> new]
  BY <1>3
<1> QED
  BY <1>4 DEF g, new, seen, SliceAdded

\* One key more, that was not among them.
LEMMA FillingAppend ==
    ASSUME NEW s \in Shapes, NEW es \in Seq(Events), NEW fs \in Seq(Events),
           NEW ks \in Seq(Keys), NEW k \in Keys, k \notin Range(ks)
    PROVE  AddSlice(s, Filling(s, es, fs, ks), k, Slice(s, k, fs))
             = Filling(s, es, fs, Append(ks, k))
<1> DEFINE h == Filling(s, es, fs, ks)
           g == Filling(s, es, fs, Append(ks, k))
           slice == Slice(s, k, fs)
           old == Range(KeySeq(s, es)) \cup Range(ks)
           I == 0 .. s.n + 1
<1>1. /\ h.keys = Extend(KeysOf(s, es), ks) /\ h.rep = "chunked" /\ DOMAIN h.chunks = old
      /\ \A j \in old : h.chunks[j] = [i \in I |-> IF j \in Range(ks)
                                                   THEN KeyCount(s, es \o fs, j, i)
                                                   ELSE KeyCount(s, es, j, i)]
  BY DEF Filling
<1>2. Range(Append(ks, k)) = Range(ks) \cup {k}
  BY RangeAppend
<1>3. Extend(h.keys, <<k>>) = Extend(KeysOf(s, es), Append(ks, k))
  <2> DEFINE a == KeysOf(s, es)
             b == Extend(a, ks)
             z == <<>>
  <2>1. Extend(a, Append(ks, k)) = Seen(b, k)
    BY ExtendAppend
  <2>2. z \in Seq(Keys) /\ <<k>> = Append(z, k)
    OBVIOUS
  <2> HIDE DEF b, z
  <2>3. Extend(b, Append(z, k)) = Seen(Extend(b, z), k)
    BY <2>2, ExtendAppend
  <2>4. Extend(b, z) = b
    BY ExtendNil DEF z
  <2> HIDE DEF a, h
  <2> QED
    BY <1>1, <2>1, <2>2, <2>3, <2>4 DEF a, b
<1>4. ASSUME NEW i \in I PROVE ChunkAt(h, k, i) + slice[i] = KeyCount(s, es \o fs, k, i)
  <2>1. slice[i] = KeyCount(s, fs, k, i)
    <3>1. slice = [j \in I |-> KeyCount(s, fs, k, j)]
      BY SliceIs
    <3> HIDE DEF slice
    <3> QED
      BY <3>1
  <2>2. ChunkAt(h, k, i) = KeyCount(s, es, k, i)
    <3>1. CASE k \in old
      <4>1. h.chunks[k][i] = KeyCount(s, es, k, i)
        <5> HIDE DEF h, old
        <5> QED
          BY <1>1, <3>1
      <4> HIDE DEF h, old
      <4> QED
        BY <1>1, <3>1, <4>1 DEF ChunkAt
    <3>2. CASE k \notin old
      <4>1. KeyCount(s, es, k, i) = 0
        <5>1. <<>> \in Seq(Events) /\ k \notin Range(KeySeq(s, es))
          BY <3>2
        <5> QED
          BY <5>1, KeyCounts
      <4> HIDE DEF h, old
      <4> QED
        BY <1>1, <3>2, <4>1 DEF ChunkAt
    <3> QED
      BY <3>1, <3>2
  <2> HIDE DEF h, slice
  <2> QED
    BY <2>1, <2>2, KeyCounts
<1>5. old \cup {k} = Range(KeySeq(s, es)) \cup Range(Append(ks, k))
  BY <1>2
<1>6. AddSlice(s, h, k, slice)
        = [rep |-> "chunked", keys |-> Extend(h.keys, <<k>>),
           chunks |-> [j \in old \cup {k} |->
               IF j = k THEN [i \in I |-> ChunkAt(h, k, i) + slice[i]] ELSE h.chunks[j]]]
  <2>1. IsPartial(h)
    BY DEF Filling, IsPartial
  <2>2. DOMAIN h.chunks = old
    BY <1>1
  <2> HIDE DEF h, slice, old
  <2>3. AddSlice(s, h, k, slice) = SliceAdded(s, h, k, slice)
    BY <2>1, AddSliceIs
  <2> QED
    BY <2>2, <2>3 DEF SliceAdded
<1>7. ASSUME NEW j \in old \cup {k}
      PROVE  (IF j = k THEN [i \in I |-> ChunkAt(h, k, i) + slice[i]] ELSE h.chunks[j])
               = [i \in I |-> IF j \in Range(Append(ks, k)) THEN KeyCount(s, es \o fs, j, i)
                                                            ELSE KeyCount(s, es, j, i)]
  <2> HIDE DEF h, slice, I
  <2>1. CASE j = k
    <3>1. [i \in I |-> ChunkAt(h, k, i) + slice[i]] = [i \in I |-> KeyCount(s, es \o fs, k, i)]
      BY <1>4
    <3> QED
      BY <1>2, <2>1, <3>1
  <2>2. CASE j # k
    <3>1. j \in old
      BY <2>2
    <3> HIDE DEF old
    <3> QED
      BY <1>1, <1>2, <2>2, <3>1
  <2> QED
    BY <2>1, <2>2
<1>8. g = [rep |-> "chunked", keys |-> Extend(KeysOf(s, es), Append(ks, k)),
           chunks |-> [j \in old \cup {k} |->
               [i \in I |-> IF j \in Range(Append(ks, k)) THEN KeyCount(s, es \o fs, j, i)
                                                          ELSE KeyCount(s, es, j, i)]]]
  <2> HIDE DEF old
  <2> QED
    BY <1>5 DEF Filling
<1> HIDE DEF h, slice, old, I, g
<1>9. AddSlice(s, h, k, slice) = g
  BY <1>3, <1>6, <1>7, <1>8
<1> QED
  BY <1>9 DEF h, slice, g

\* Filling all the keys of a batch gives the partial of the events with the batch.
LEMMA FillForm ==
    ASSUME NEW s \in Shapes, NEW es \in Seq(Events), NEW fs \in Seq(Events)
    PROVE  FillChunks(s, ChunkForm(s, es), fs) = ChunkForm(s, es \o fs)
<1> DEFINE h == ChunkForm(s, es)
           p == <<s, fs>>
           T == {ks \in Seq(Keys) :
                    IsInjective(ks) => Slices!Folded(p, h, ks) = Filling(s, es, fs, ks)}
<1>1. <<>> \in T
  <2>1. <<>> \in Seq(Keys) /\ Range(<<>>) = {}
    BY DEF Range
  <2>2. Slices!Folded(p, h, <<>>) = h
    BY Slices!FoldNil
  <2>3. Extend(KeysOf(s, es), <<>>) = KeysOf(s, es)
    BY ExtendNil
  <2>4. Filling(s, es, fs, <<>>) = h
    BY <2>1, <2>3 DEF Filling, ChunkForm
  <2> QED
    BY <2>1, <2>2, <2>4
<1>2. ASSUME NEW ks \in Seq(Keys), NEW k \in Keys, ks \in T PROVE Append(ks, k) \in T
  <2> SUFFICES ASSUME IsInjective(Append(ks, k))
               PROVE  Slices!Folded(p, h, Append(ks, k)) = Filling(s, es, fs, Append(ks, k))
    OBVIOUS
  <2>1. IsInjective(ks) /\ k \notin Range(ks)
    <3> DEFINE m == Len(ks)
               t == Append(ks, k)
    <3>1. /\ m \in Nat /\ DOMAIN ks = 1 .. m /\ DOMAIN t = 1 .. m + 1
          /\ t[m + 1] = k /\ \A j \in 1 .. m : t[j] = ks[j]
      OBVIOUS
    <3>2. \A i, j \in DOMAIN t : t[i] = t[j] => i = j
      BY DEF IsInjective
    <3> HIDE DEF m, t
    <3>3. ASSUME NEW i \in DOMAIN ks, NEW j \in DOMAIN ks, ks[i] = ks[j] PROVE i = j
      <4>1. i \in DOMAIN t /\ j \in DOMAIN t /\ t[i] = t[j]
        BY <3>1, <3>3
      <4> QED
        BY <3>2, <4>1
    <3>4. ASSUME NEW i \in DOMAIN ks PROVE ks[i] # k
      <4>1. i \in DOMAIN t /\ m + 1 \in DOMAIN t /\ i # m + 1 /\ t[i] = ks[i]
        BY <3>1
      <4> QED
        BY <3>1, <3>2, <4>1
    <3> QED
      BY <3>3, <3>4 DEF IsInjective, Range
  <2>2. Slices!Folded(p, h, Append(ks, k)) = SliceOp(p, Slices!Folded(p, h, ks), k)
    BY Slices!FoldAppend
  <2>3. Slices!Folded(p, h, ks) = Filling(s, es, fs, ks)
    BY <1>2, <2>1
  <2>4. AddSlice(s, Filling(s, es, fs, ks), k, Slice(s, k, fs))
          = Filling(s, es, fs, Append(ks, k))
    BY <2>1, FillingAppend
  <2>5. SliceOp(p, Filling(s, es, fs, ks), k)
          = AddSlice(s, Filling(s, es, fs, ks), k, Slice(s, k, fs))
    BY DEF SliceOp
  <2> HIDE DEF h, p
  <2> QED
    BY <2>2, <2>3, <2>4, <2>5
<1> HIDE DEF T
<1>3. Seq(Keys) \subseteq T
  BY <1>1, <1>2, SeqInduction
<1> DEFINE a == KeySeq(s, es)
           b == KeySeq(s, fs)
           ks == Extend(<<>>, b)
<1>4. a \in Seq(Keys) /\ b \in Seq(Keys) /\ KeysOf(s, es) \in Seq(Keys)
  BY KeySeqType, KeysConcat
<1>5. ks \in Seq(Keys) /\ IsInjective(ks) /\ Range(ks) = Range(b)
  <2> DEFINE z == <<>>
  <2>1. z \in Seq(Keys) /\ IsInjective(z) /\ Range(z) = {}
    BY DEF IsInjective, Range
  <2> HIDE DEF z, b
  <2>2. /\ Extend(z, b) \in Seq(Keys) /\ Range(Extend(z, b)) = Range(z) \cup Range(b)
        /\ IsInjective(Extend(z, b))
    BY <1>4, <2>1, ExtendType, ZenonT(30)
  <2> QED
    BY <2>1, <2>2 DEF z
<1>6. GroupKeys(s, fs) = ks
  BY DEF GroupKeys, FirstSeen, KeySeq
<1>7. FillChunks(s, h, fs) = Filling(s, es, fs, ks)
  <2> HIDE DEF ks, h
  <2>1. ks \in T
    BY <1>3, <1>5
  <2> QED
    BY <1>5, <1>6, <2>1, FillIsFold DEF T
<1>8. Extend(KeysOf(s, es), ks) = KeysOf(s, es \o fs)
  <2> DEFINE y == KeysOf(s, es)
             z == <<>>
  <2>1. Extend(y, b) = KeysOf(s, es \o fs)
    BY KeysConcat
  <2>2. z \in Seq(Keys) /\ Range(z) \subseteq Range(y)
    BY DEF Range
  <2> HIDE DEF y, z, b
  <2>3. Extend(y, Extend(z, b)) = Extend(y, b)
    BY <1>4, <2>2, ExtendAgain DEF y
  <2> QED
    BY <2>1, <2>3 DEF y, z
<1>9. Range(a) \cup Range(ks) = Range(KeySeq(s, es \o fs))
  BY <1>5, KeysConcat
<1>10. ASSUME NEW k, NEW i
       PROVE  (IF k \in Range(ks) THEN KeyCount(s, es \o fs, k, i) ELSE KeyCount(s, es, k, i))
                = KeyCount(s, es \o fs, k, i)
  <2>1. CASE k \in Range(ks)
    BY <2>1
  <2>2. CASE k \notin Range(ks)
    <3>1. KeyCount(s, fs, k, i) = 0
      <4>1. k \notin Range(KeySeq(s, fs)) /\ <<>> \in Seq(Events)
        BY <1>5, <2>2
      <4> QED
        BY <4>1, KeyCounts
    <3>2. /\ KeyCount(s, es, k, i) \in Nat
          /\ KeyCount(s, es \o fs, k, i) = KeyCount(s, es, k, i) + KeyCount(s, fs, k, i)
      BY KeyCounts
    <3> HIDE DEF ks
    <3> QED
      BY <2>2, <3>1, <3>2
  <2> QED
    BY <2>1, <2>2
<1> HIDE DEF ks
<1>11. Filling(s, es, fs, ks) = ChunkForm(s, es \o fs)
  BY <1>8, <1>9, <1>10 DEF Filling, ChunkForm
<1> QED
  BY <1>7, <1>11 DEF h

-----------------------------------------------------------------------------
(* Whichever form a partial came to have, it stands for its events *)

Forms(s, es) == {Full(s, es)} \cup (IF s.widens THEN {} ELSE {ChunkForm(s, es)})

LEMMA FormsAre ==
    ASSUME NEW s \in Shapes, NEW es \in Seq(Events), NEW h \in Forms(s, es)
    PROVE  /\ h # None /\ h # Refused /\ Dense(s, h) = Full(s, es)
           /\ IsChunked(h) => ~s.widens /\ h = ChunkForm(s, es)
<1>1. CASE h = Full(s, es)
  <2>1. h.rep = "dense"
    BY <1>1, FormBins DEF Full
  <2> QED
    BY <1>1, <2>1 DEF Dense, IsChunked, None, Refused
<1>2. CASE ~s.widens /\ h = ChunkForm(s, es)
  <2>1. h.rep = "chunked"
    BY <1>2 DEF ChunkForm
  <2>2. Dense(s, h) = Full(s, es)
    BY <1>2, DenseForm
  <2> QED
    BY <1>2, <2>1, <2>2 DEF None, Refused
<1> QED
  BY <1>1, <1>2 DEF Forms

LEMMA FillForms ==
    ASSUME NEW s \in Shapes, NEW es \in Seq(Events), NEW h \in Forms(s, es), NEW b \in BatchTypes
    PROVE  Fill(s, h, b) \in Forms(s, es \o b.events)
<1>1. b.events \in Seq(Events)
  BY DEF BatchTypes
<1>2. CASE IsChunked(h) /\ ~b.odd
  <2>1. h = ChunkForm(s, es) /\ ~s.widens
    BY <1>2, FormsAre
  <2>2. FillChunks(s, ChunkForm(s, es), b.events) = ChunkForm(s, es \o b.events)
    BY <1>1, FillForm
  <2>3. Fill(s, h, b) = ChunkForm(s, es \o b.events)
    BY <1>2, <2>1, <2>2 DEF Fill
  <2> QED
    BY <2>1, <2>3 DEF Forms
<1>3. CASE ~(IsChunked(h) /\ ~b.odd)
  <2>1. Dense(s, h) = Full(s, es)
    BY FormsAre
  <2>2. EagerFill(s, Full(s, es), b.events) = Full(s, es \o b.events)
    BY <1>1, EagerFull
  <2>3. Fill(s, h, b) = Full(s, es \o b.events)
    BY <1>3, <2>1, <2>2 DEF Fill
  <2> QED
    BY <2>3 DEF Forms
<1> QED
  BY <1>2, <1>3

LEMMA AddForms ==
    ASSUME NEW s \in Shapes, NEW es \in Seq(Events), NEW fs \in Seq(Events),
           NEW x \in Forms(s, es), NEW y \in Forms(s, fs)
    PROVE  AddHistograms(s, x, y) \in Forms(s, es \o fs)
<1>1. CASE IsChunked(x) /\ IsChunked(y)
  <2>1. ~s.widens /\ x = ChunkForm(s, es) /\ y = ChunkForm(s, fs)
    BY <1>1, FormsAre
  <2>2. AddHistograms(s, x, y) = Merged(s, x, y)
    BY <1>1 DEF AddHistograms
  <2>3. AddHistograms(s, x, y) = ChunkForm(s, es \o fs)
    BY <2>1, <2>2, MergedForm
  <2> QED
    BY <2>1, <2>3 DEF Forms
<1>2. CASE ~(IsChunked(x) /\ IsChunked(y))
  <2>1. /\ Dense(s, x) = Full(s, es) /\ x # Refused
        /\ Dense(s, y) = Full(s, fs) /\ y # Refused
    BY FormsAre
  <2>2. AddDense(s, x, y) = Full(s, es \o fs)
    BY <2>1, AddFull
  <2>3. AddHistograms(s, x, y) = Full(s, es \o fs)
    BY <1>2, <2>2 DEF AddHistograms
  <2> QED
    BY <2>3 DEF Forms
<1> QED
  BY <1>1, <1>2

LEMMA EmptyForms ==
    ASSUME NEW s \in Shapes
    PROVE  Empty(s) \in Forms(s, <<>>) /\ ZeroHist(s) \in Forms(s, <<>>)
<1>1. ZeroOf(s) \in Forms(s, <<>>)
  BY ZeroIsFull DEF Forms
<1>2. ~s.widens => NoChunks(s) \in Forms(s, <<>>)
  BY NoChunksForm DEF Forms
<1>3. Empty(s) \in Forms(s, <<>>)
  BY <1>1, <1>2 DEF Empty, Chunkable
<1> QED
  BY <1>1, <1>3 DEF ZeroHist

-----------------------------------------------------------------------------
(* The evaluator, batch by batch, and the reduction, fill by fill *)

Evaluations == INSTANCE SetInduction WITH Op <- Fill

LEMMA EvaluateIsFold ==
    ASSUME NEW s, NEW bs
    PROVE  Evaluate(s, bs) = Evaluations!Folded(s, Empty(s), bs)
BY DEF Evaluate, FoldLeft, MapThenFoldSet, Max, Evaluations!Folded,
       Evaluations!FoldLeft, Evaluations!MapThenFoldSet, Evaluations!Max

LEMMA EventsOfAppend ==
    ASSUME NEW bs \in Seq(BatchTypes), NEW b \in BatchTypes
    PROVE  /\ EventsOf(bs) \in Seq(Events) /\ b.events \in Seq(Events)
           /\ EventsOf(Append(bs, b)) = EventsOf(bs) \o b.events
<1> DEFINE m == Len(bs)
           t == Append(bs, b)
           a == [k \in DOMAIN bs |-> bs[k].events]
           c == [k \in DOMAIN t |-> t[k].events]
           e == b.events
<1>1. /\ m \in Nat /\ DOMAIN bs = 1 .. m /\ DOMAIN t = 1 .. m + 1 /\ t[m + 1] = b
      /\ \A k \in 1 .. m : t[k] = bs[k] /\ bs[k] \in BatchTypes
  OBVIOUS
<1>2. e \in Seq(Events) /\ \A k \in 1 .. m : bs[k].events \in Seq(Events)
  BY <1>1 DEF BatchTypes
<1>3. a \in Seq(Seq(Events)) /\ Len(a) = m
  <2> HIDE DEF m
  <2>1. a = [k \in 1 .. m |-> bs[k].events]
    BY <1>1
  <2> HIDE DEF a
  <2> QED
    BY <1>1, <1>2, <2>1
<1>4. c = Append(a, e)
  <2> HIDE DEF m, t, e
  <2>1. c = [k \in 1 .. m + 1 |-> IF k = m + 1 THEN e ELSE a[k]]
    <3>1. ASSUME NEW k \in 1 .. m + 1 PROVE t[k].events = IF k = m + 1 THEN e ELSE a[k]
      <4>1. CASE k = m + 1
        BY <1>1, <4>1 DEF e
      <4>2. CASE k # m + 1
        <5>1. k \in 1 .. m
          BY <1>1, <4>2
        <5> QED
          BY <1>1, <4>2, <5>1
      <4> QED
        BY <4>1, <4>2
    <3> HIDE DEF a
    <3> QED
      BY <1>1, <3>1
  <2> DEFINE u == Append(a, e)
  <2> HIDE DEF a, c
  <2>2. /\ u \in Seq(Seq(Events)) /\ DOMAIN u = 1 .. m + 1 /\ u[m + 1] = e
        /\ \A k \in 1 .. m : u[k] = a[k]
    BY <1>1, <1>2, <1>3
  <2> HIDE DEF u
  <2>3. u = [k \in 1 .. m + 1 |-> u[k]]
    BY <2>2
  <2>4. ASSUME NEW k \in 1 .. m + 1 PROVE u[k] = IF k = m + 1 THEN e ELSE a[k]
    BY <1>1, <2>2
  <2> QED
    BY <2>1, <2>3, <2>4 DEF u
<1> HIDE DEF a, c, e
<1>5. FlattenSeq(Append(a, e)) = FlattenSeq(a) \o e
  BY <1>2, <1>3, FlattenAppend
<1>6. FlattenSeq(a) \in Seq(Events)
  BY <1>3, FlattenType
<1> QED
  BY <1>2, <1>4, <1>5, <1>6 DEF EventsOf, a, c, e, t

\* Evaluating a fill on its batches gives the histogram of their events.
LEMMA EvaluateForms ==
    ASSUME NEW s \in Shapes, NEW bs \in Seq(BatchTypes)
    PROVE  /\ EventsOf(bs) \in Seq(Events)
           /\ Evaluate(s, bs) \in Forms(s, EventsOf(bs))
<1> DEFINE T == {u \in Seq(BatchTypes) :
                    /\ EventsOf(u) \in Seq(Events)
                    /\ Evaluate(s, u) \in Forms(s, EventsOf(u))}
<1>1. <<>> \in T
  <2>1. <<>> \in Seq(BatchTypes) /\ <<>> \in Seq(Events)
    OBVIOUS
  <2>2. EventsOf(<<>>) = <<>>
    BY FlattenNil DEF EventsOf
  <2>3. Evaluate(s, <<>>) = Empty(s)
    BY EvaluateIsFold, Evaluations!FoldNil
  <2> QED
    BY <2>1, <2>2, <2>3, EmptyForms
<1>2. ASSUME NEW u \in Seq(BatchTypes), NEW b \in BatchTypes, u \in T PROVE Append(u, b) \in T
  <2>1. Append(u, b) \in Seq(BatchTypes)
    OBVIOUS
  <2>2. /\ EventsOf(u) \in Seq(Events) /\ b.events \in Seq(Events)
        /\ EventsOf(Append(u, b)) = EventsOf(u) \o b.events
    BY EventsOfAppend
  <2>3. Evaluate(s, Append(u, b)) = Fill(s, Evaluate(s, u), b)
    <3> DEFINE z == Empty(s)
    <3> HIDE DEF z
    <3>1. Evaluations!Folded(s, z, Append(u, b)) = Fill(s, Evaluations!Folded(s, z, u), b)
      BY Evaluations!FoldAppend
    <3> QED
      BY <3>1, EvaluateIsFold DEF z
  <2>4. Fill(s, Evaluate(s, u), b) \in Forms(s, EventsOf(u) \o b.events)
    <3> DEFINE es == EventsOf(u)
               h == Evaluate(s, u)
    <3>1. es \in Seq(Events) /\ h \in Forms(s, es)
      BY <1>2
    <3> HIDE DEF es, h
    <3>2. Fill(s, h, b) \in Forms(s, es \o b.events)
      BY <3>1, FillForms
    <3> QED
      BY <3>2 DEF es, h
  <2>5. EventsOf(Append(u, b)) \in Seq(Events)
    BY <2>2
  <2> QED
    BY <2>1, <2>2, <2>3, <2>4, <2>5
<1> HIDE DEF T
<1>3. Seq(BatchTypes) \subseteq T
  BY <1>1, <1>2, SeqInduction
<1> QED
  BY <1>3 DEF T

LEMMA EventsOfType ==
    ASSUME NEW bs \in Seq(BatchTypes)
    PROVE  EventsOf(bs) \in Seq(Events)
<1>1. [odd |-> FALSE, events |-> <<>>] \in BatchTypes
  BY DEF BatchTypes
<1> QED
  BY <1>1, EventsOfAppend

\* The events of one task's staged fills, fill by fill.
Read(d, reads) == FlattenSeq([j \in DOMAIN reads |-> EventsOf(d[reads[j]])])

LEMMA ReadAppend ==
    ASSUME NEW d \in Seq(Seq(BatchTypes)), NEW reads \in Seq(DOMAIN d), NEW o \in DOMAIN d
    PROVE  /\ Read(d, reads) \in Seq(Events) /\ EventsOf(d[o]) \in Seq(Events)
           /\ Read(d, Append(reads, o)) = Read(d, reads) \o EventsOf(d[o])
<1> DEFINE m == Len(reads)
           t == Append(reads, o)
           a == [j \in DOMAIN reads |-> EventsOf(d[reads[j]])]
           c == [j \in DOMAIN t |-> EventsOf(d[t[j]])]
           e == EventsOf(d[o])
           D == DOMAIN d
<1>1. /\ m \in Nat /\ DOMAIN reads = 1 .. m /\ DOMAIN t = 1 .. m + 1 /\ t[m + 1] = o
      /\ \A k \in 1 .. m : t[k] = reads[k] /\ reads[k] \in D
  <2>1. reads \in Seq(D) /\ o \in D
    OBVIOUS
  <2> HIDE DEF D
  <2> QED
    BY <2>1
<1>2. \A k \in D : EventsOf(d[k]) \in Seq(Events)
  <2>1. \A k \in D : d[k] \in Seq(BatchTypes)
    OBVIOUS
  <2> QED
    BY <2>1, EventsOfType
<1> HIDE DEF D
<1>3. e \in Seq(Events)
  BY <1>2 DEF D
<1>4. a \in Seq(Seq(Events)) /\ Len(a) = m
  <2> HIDE DEF m
  <2>1. a = [k \in 1 .. m |-> EventsOf(d[reads[k]])]
    BY <1>1
  <2> HIDE DEF a
  <2> QED
    BY <1>1, <1>2, <2>1
<1>5. c = Append(a, e)
  <2> HIDE DEF m, t, e
  <2>1. c = [k \in 1 .. m + 1 |-> IF k = m + 1 THEN e ELSE a[k]]
    <3>1. ASSUME NEW k \in 1 .. m + 1 PROVE EventsOf(d[t[k]]) = IF k = m + 1 THEN e ELSE a[k]
      <4>1. CASE k = m + 1
        BY <1>1, <4>1 DEF e
      <4>2. CASE k # m + 1
        <5>1. k \in 1 .. m
          BY <1>1, <4>2
        <5> QED
          BY <1>1, <4>2, <5>1
      <4> QED
        BY <4>1, <4>2
    <3> HIDE DEF a
    <3> QED
      BY <1>1, <3>1
  <2> DEFINE u == Append(a, e)
  <2> HIDE DEF a, c
  <2>2. m \in Nat
    BY <1>1
  <2>3. /\ u \in Seq(Seq(Events)) /\ DOMAIN u = 1 .. m + 1 /\ u[m + 1] = e
        /\ \A k \in 1 .. m : u[k] = a[k]
    BY ONLY <1>3, <1>4, <2>2 DEF u
  <2> HIDE DEF u
  <2>4. u = [k \in 1 .. m + 1 |-> u[k]]
    BY <2>3
  <2>5. ASSUME NEW k \in 1 .. m + 1 PROVE u[k] = IF k = m + 1 THEN e ELSE a[k]
    BY <2>3, <2>2
  <2> QED
    BY <2>1, <2>4, <2>5 DEF u
<1> HIDE DEF a, c, e
<1>6. FlattenSeq(Append(a, e)) = FlattenSeq(a) \o e
  BY <1>3, <1>4, FlattenAppend
<1>7. FlattenSeq(a) \in Seq(Events)
  BY <1>4, FlattenType
<1> QED
  BY <1>3, <1>5, <1>6, <1>7 DEF Read, a, c, e, t

SumOp(p, total, o) == AddHistograms(p[1], total, p[2][o])
Sums == INSTANCE SetInduction WITH Op <- SumOp

LEMMA SumIsFold ==
    ASSUME NEW s, NEW fills, NEW reads
    PROVE  SumFills(s, fills, reads) = Sums!Folded(<<s, fills>>, ZeroHist(s), reads)
BY DEF SumFills, SumOp, FoldLeft, MapThenFoldSet, Max,
       Sums!Folded, Sums!FoldLeft, Sums!MapThenFoldSet, Sums!Max

\* Summing a task's fills gives the histogram of their events, a shared output's once
\* per fill that reads it.
LEMMA SumForms ==
    ASSUME NEW s \in Shapes, NEW d \in Seq(Seq(BatchTypes)), NEW reads \in Seq(DOMAIN d)
    PROVE  /\ Read(d, reads) \in Seq(Events)
           /\ SumFills(s, [o \in DOMAIN d |-> Evaluate(s, d[o])], reads)
                \in Forms(s, Read(d, reads))
<1> DEFINE fills == [o \in DOMAIN d |-> Evaluate(s, d[o])]
           p == <<s, fills>>
           z == ZeroHist(s)
           D == DOMAIN d
           T == {u \in Seq(D) : /\ Read(d, u) \in Seq(Events)
                                /\ Sums!Folded(p, z, u) \in Forms(s, Read(d, u))}
<1>1. <<>> \in T
  <2>1. <<>> \in Seq(D) /\ <<>> \in Seq(Events)
    OBVIOUS
  <2>2. Read(d, <<>>) = <<>>
    BY FlattenNil DEF Read
  <2>3. Sums!Folded(p, z, <<>>) = z
    BY Sums!FoldNil
  <2>4. z \in Forms(s, <<>>)
    BY EmptyForms
  <2> HIDE DEF p, z, D
  <2> QED
    BY <2>1, <2>2, <2>3, <2>4
<1>2. ASSUME NEW u \in Seq(D), NEW o \in D, u \in T PROVE Append(u, o) \in T
  <2> DEFINE es == Read(d, u)
             fs == EventsOf(d[o])
             h == Sums!Folded(p, z, u)
  <2>1. Append(u, o) \in Seq(D)
    <3> HIDE DEF D
    <3> QED
      OBVIOUS
  <2>2. /\ es \in Seq(Events) /\ fs \in Seq(Events)
        /\ Read(d, Append(u, o)) = es \o fs
    BY ReadAppend
  <2>3. Sums!Folded(p, z, Append(u, o)) = SumOp(p, h, o)
    <3> HIDE DEF p, z, D
    <3> QED
      BY Sums!FoldAppend
  <2>4. SumOp(p, h, o) = AddHistograms(s, h, fills[o])
    <3> HIDE DEF h
    <3> QED
      BY DEF SumOp
  <2>5. h \in Forms(s, es)
    BY <1>2
  <2>6. fills[o] \in Forms(s, fs)
    <3>1. d[o] \in Seq(BatchTypes)
      OBVIOUS
    <3> QED
      BY <3>1, EvaluateForms
  <2>7. AddHistograms(s, h, fills[o]) \in Forms(s, es \o fs)
    <3> DEFINE y == fills[o]
    <3>1. y \in Forms(s, fs)
      BY <2>6
    <3> HIDE DEF es, fs, h, y
    <3>2. AddHistograms(s, h, y) \in Forms(s, es \o fs)
      BY <2>2, <2>5, <3>1, AddForms
    <3> QED
      BY <3>2 DEF y
  <2>8. es \o fs \in Seq(Events)
    <3> HIDE DEF es, fs
    <3> QED
      BY <2>2
  <2> HIDE DEF es, fs, h, fills, p, z, D
  <2> QED
    BY <2>1, <2>2, <2>3, <2>4, <2>7, <2>8
<1>3. Seq(D) \subseteq T
  <2> HIDE DEF T, D
  <2> QED
    BY <1>1, <1>2, SeqInduction
<1>4. reads \in T
  <2> HIDE DEF T
  <2> QED
    BY <1>3
<1>5. SumFills(s, fills, reads) = Sums!Folded(p, z, reads)
  BY SumIsFold
<1> HIDE DEF p, z, fills, D
<1> QED
  BY <1>4, <1>5 DEF fills

-----------------------------------------------------------------------------
(* The events of the tasks p .. q, of which a partial may hold any *)

TaskSeq(r, p, q) == [k \in 1 .. q - p + 1 |-> Read(r.data[p + k - 1], r.reads)]
In(r, p, q) == FlattenSeq(TaskSeq(r, p, q))
First(p) == IF p = 0 THEN 1 ELSE p

LEMMA HeldIs == /\ \A p, q : EventsIn(p, q) = In(run, p, q)
                /\ \A p : Held(p) = In(run, First(p), upto[p])
BY DEF EventsIn, Held, In, TaskSeq, Read, Batches, First

LEMMA ReadType ==
    ASSUME NEW d \in Seq(Seq(BatchTypes)), NEW reads \in Seq(DOMAIN d)
    PROVE  Read(d, reads) \in Seq(Events)
<1>1. CASE DOMAIN d = {}
  <2>1. reads = <<>>
    BY <1>1
  <2>2. Read(d, <<>>) = <<>> /\ <<>> \in Seq(Events)
    BY FlattenNil DEF Read
  <2> QED
    BY <2>1, <2>2
<1>2. CASE DOMAIN d # {}
  <2>1. PICK o : o \in DOMAIN d
    BY <1>2
  <2> QED
    BY <2>1, ReadAppend
<1> QED
  BY <1>1, <1>2

LEMMA RunType ==
    ASSUME NEW r \in Runs, NEW p \in 1 .. Tasks
    PROVE  /\ r.data[p] \in Seq(Seq(BatchTypes)) /\ r.reads \in Seq(DOMAIN r.data[p])
           /\ Read(r.data[p], r.reads) \in Seq(Events)
<1>1. r.data[p] \in Seq(Seq(BatchTypes)) /\ r.reads \in Seq(DOMAIN r.data[p])
  BY RunsAssumption
<1> DEFINE d == r.data[p]
           reads == r.reads
<1> HIDE DEF d, reads
<1>2. Read(d, reads) \in Seq(Events)
  <2>1. d \in Seq(Seq(BatchTypes)) /\ reads \in Seq(DOMAIN d)
    BY <1>1 DEF d, reads
  <2> QED
    BY <2>1, ReadType
<1> QED
  BY <1>1, <1>2 DEF d, reads

LEMMA TaskSeqType ==
    ASSUME NEW r \in Runs, NEW p \in 1 .. Tasks + 1, NEW q \in p - 1 .. Tasks
    PROVE  /\ TaskSeq(r, p, q) \in Seq(Seq(Events)) /\ Len(TaskSeq(r, p, q)) = q - p + 1
           /\ In(r, p, q) \in Seq(Events)
<1>1. q - p + 1 \in Nat
  BY TasksAssumption
<1>2. ASSUME NEW k \in 1 .. q - p + 1 PROVE Read(r.data[p + k - 1], r.reads) \in Seq(Events)
  <2> DEFINE j == p + k - 1
  <2>1. j \in 1 .. Tasks
    BY TasksAssumption
  <2> HIDE DEF j
  <2>2. Read(r.data[j], r.reads) \in Seq(Events)
    BY <2>1, RunType
  <2> QED
    BY <2>2 DEF j
<1>3. TaskSeq(r, p, q) \in Seq(Seq(Events)) /\ Len(TaskSeq(r, p, q)) = q - p + 1
  <2> DEFINE n == q - p + 1
  <2> HIDE DEF n
  <2> QED
    BY <1>1, <1>2 DEF TaskSeq, n
<1> QED
  BY <1>3, FlattenType DEF In

\* Neighbours' events, one after the other, are the events of both.
LEMMA InConcat ==
    ASSUME NEW r \in Runs, NEW p \in 1 .. Tasks, NEW q \in p - 1 .. Tasks, NEW t \in q .. Tasks
    PROVE  In(r, p, q) \o In(r, q + 1, t) = In(r, p, t)
<1> DEFINE a == TaskSeq(r, p, q)
           b == TaskSeq(r, q + 1, t)
           c == TaskSeq(r, p, t)
           m == q - p + 1
           k == t - q
<1>1. m \in Nat /\ k \in Nat /\ m + k = t - p + 1
  BY TasksAssumption
<1>2. a \in Seq(Seq(Events)) /\ Len(a) = m
  <2>1. p \in 1 .. Tasks + 1
    BY TasksAssumption
  <2> QED
    BY <2>1, TaskSeqType
<1>3. b \in Seq(Seq(Events)) /\ Len(b) = k
  <2> DEFINE o == q + 1
  <2>1. o \in 1 .. Tasks + 1 /\ t \in o - 1 .. Tasks /\ t - o + 1 = k
    BY TasksAssumption
  <2> HIDE DEF o
  <2>2. TaskSeq(r, o, t) \in Seq(Seq(Events)) /\ Len(TaskSeq(r, o, t)) = t - o + 1
    BY <2>1, TaskSeqType
  <2> QED
    BY <2>1, <2>2 DEF o
<1>4. a \o b = [j \in 1 .. m + k |-> IF j <= m THEN a[j] ELSE b[j - m]]
  <2> HIDE DEF a, b, m, k
  <2>1. a \o b = [j \in 1 .. Len(a) + Len(b) |-> IF j <= Len(a) THEN a[j] ELSE b[j - Len(a)]]
    BY <1>2, <1>3, ConcatIs
  <2> QED
    BY <1>2, <1>3, <2>1
<1>5. c = [j \in 1 .. m + k |-> Read(r.data[p + j - 1], r.reads)]
  BY <1>1 DEF TaskSeq
<1>6. ASSUME NEW j \in 1 .. m + k
      PROVE  Read(r.data[p + j - 1], r.reads) = IF j <= m THEN a[j] ELSE b[j - m]
  <2>1. CASE j <= m
    <3>1. j \in 1 .. q - p + 1
      BY <1>1, <2>1
    <3> QED
      BY <2>1, <3>1 DEF TaskSeq
  <2>2. CASE ~(j <= m)
    <3>1. j - m \in 1 .. t - (q + 1) + 1 /\ (q + 1) + (j - m) - 1 = p + j - 1
      BY <1>1, <2>2
    <3>2. b[j - m] = Read(r.data[(q + 1) + (j - m) - 1], r.reads)
      BY <3>1 DEF TaskSeq
    <3> HIDE DEF a, b, m
    <3> QED
      BY <2>2, <3>1, <3>2
  <2> QED
    BY <2>1, <2>2
<1> HIDE DEF a, b, c, m, k
<1>7. c = a \o b
  BY <1>4, <1>5, <1>6
<1>8. FlattenSeq(a \o b) = FlattenSeq(a) \o FlattenSeq(b)
  BY <1>2, <1>3, FlattenConcat
<1> QED
  BY <1>7, <1>8 DEF In, a, b, c

LEMMA InOne ==
    ASSUME NEW r \in Runs, NEW p \in 1 .. Tasks
    PROVE  In(r, p, p) = Read(r.data[p], r.reads)
<1> DEFINE x == Read(r.data[p], r.reads)
           z == <<>>
<1>1. x \in Seq(Events) /\ z \in Seq(Seq(Events))
  BY RunType
<1>2. TaskSeq(r, p, p) = [k \in 1 .. 1 |-> x]
  <2>1. p - p + 1 = 1
    OBVIOUS
  <2>2. \A k \in 1 .. 1 : p + k - 1 = p
    OBVIOUS
  <2> QED
    BY <2>1, <2>2 DEF TaskSeq
<1> HIDE DEF x
<1>3. [k \in 1 .. 1 |-> x] = Append(z, x)
  OBVIOUS
<1> HIDE DEF z
<1>4. FlattenSeq(Append(z, x)) = FlattenSeq(z) \o x
  BY <1>1, FlattenAppend
<1>5. FlattenSeq(z) \o x = x
  BY <1>1, FlattenNil DEF z
<1> QED
  BY <1>2, <1>3, <1>4, <1>5 DEF In, x

-----------------------------------------------------------------------------
(* The inductive invariant: every partial present stands for the events of its *)
(* tasks, in one form or the other, and the result for all of them.            *)

Inv == /\ shape \in Shapes /\ run \in Runs
       /\ DOMAIN tree = 0 .. Tasks /\ tree[0] # None
       /\ upto \in [0 .. Tasks -> 0 .. Tasks] /\ \A p \in 0 .. Tasks : upto[p] >= p
       /\ \A p \in Present : tree[p] \in Forms(shape, Held(p))
       /\ result # None => result = Full(shape, EventsIn(1, Tasks))

LEMMA HeldType ==
    ASSUME Inv, NEW p \in 0 .. Tasks
    PROVE  Held(p) \in Seq(Events)
<1> DEFINE a == First(p)
           q == upto[p]
<1>1. a \in 1 .. Tasks + 1 /\ q \in a - 1 .. Tasks
  <2>1. q \in 0 .. Tasks /\ q >= p
    BY DEF Inv
  <2> HIDE DEF q
  <2> QED
    BY <2>1, TasksAssumption DEF First
<1>2. run \in Runs
  BY DEF Inv
<1> HIDE DEF a, q
<1>3. In(run, a, q) \in Seq(Events)
  BY <1>1, <1>2, TaskSeqType
<1> QED
  BY <1>3, HeldIs DEF a, q

LEMMA InitInv == Init => Inv
<1> SUFFICES ASSUME Init PROVE Inv
  OBVIOUS
<1>1. shape \in Shapes /\ run \in Runs
  BY DEF Init
<1>2. /\ tree = [p \in 0 .. Tasks |-> IF p = 0 THEN ZeroHist(shape) ELSE None]
      /\ upto = [p \in 0 .. Tasks |-> p] /\ result = None
  BY DEF Init
<1>3. 0 \in 0 .. Tasks
  BY TasksAssumption
<1>4. tree[0] = ZeroHist(shape) /\ upto[0] = 0
  BY <1>2, <1>3
<1>5. tree[0] \in Forms(shape, Held(0))
  <2>1. EventsIn(1, 0) = <<>>
    <3>1. 1 .. 0 - 1 + 1 = {}
      OBVIOUS
    <3> QED
      BY <3>1, FlattenNil DEF EventsIn
  <2> QED
    BY <1>1, <1>4, <2>1, EmptyForms DEF Held
<1>6. tree[0] # None
  <2>1. <<>> \in Seq(Events)
    OBVIOUS
  <2> QED
    BY <1>1, <1>4, <2>1, EmptyForms, FormsAre
<1>7. Present = {0}
  BY <1>2, <1>3, <1>6 DEF Present
<1>8. upto \in [0 .. Tasks -> 0 .. Tasks] /\ \A p \in 0 .. Tasks : upto[p] >= p
  BY <1>2
<1> QED
  BY <1>1, <1>2, <1>5, <1>6, <1>7, <1>8 DEF Inv

\* A task's sum stands for its events.
LEMMA TaskStep ==
    ASSUME Inv, NEW p \in 1 .. Tasks, Task(p)
    PROVE  Inv'
<1> DEFINE d == run.data[p]
           h == SumFills(shape, [o \in DOMAIN d |-> Evaluate(shape, Batches(run, p, o))], run.reads)
<1>1. /\ shape \in Shapes /\ run \in Runs /\ upto[p] = p /\ p # 0 /\ p \in 0 .. Tasks
      /\ shape' = shape /\ run' = run /\ upto' = upto /\ result' = result
  BY DEF Inv, Task
<1>2. tree' = [tree EXCEPT ![p] = h]
  BY DEF Task
<1>3. h \in Forms(shape, Held(p))
  <2> DEFINE reads == run.reads
             s == shape
  <2>1. d \in Seq(Seq(BatchTypes)) /\ reads \in Seq(DOMAIN d) /\ s \in Shapes
    BY <1>1, RunType
  <2>2. h = SumFills(s, [o \in DOMAIN d |-> Evaluate(s, d[o])], reads)
    BY DEF Batches
  <2>3. Held(p) = Read(d, reads)
    <3>1. Held(p) = In(run, p, p)
      BY <1>1, HeldIs DEF First
    <3> QED
      BY <1>1, <3>1, InOne
  <2> HIDE DEF d, h, reads, s
  <2>4. SumFills(s, [o \in DOMAIN d |-> Evaluate(s, d[o])], reads) \in Forms(s, Read(d, reads))
    BY <2>1, SumForms
  <2> QED
    BY <2>2, <2>3, <2>4 DEF s
<1> HIDE DEF d, h
<1>4. DOMAIN tree' = 0 .. Tasks /\ tree'[0] # None
  BY <1>1, <1>2 DEF Inv
<1>5. \A q \in 0 .. Tasks : Held(q)' = Held(q)
  BY <1>1 DEF Held, EventsIn
<1>6. ASSUME NEW q \in Present' PROVE tree'[q] \in Forms(shape, Held(q))
  <2>1. CASE q = p
    <3>1. tree'[p] = h
      BY <1>1, <1>2 DEF Inv
    <3> QED
      BY <1>3, <2>1, <3>1
  <2>2. CASE q # p
    <3>1. q \in 0 .. Tasks /\ tree'[q] = tree[q] /\ tree'[q] # None
      BY <1>2, <2>2 DEF Present, Inv
    <3> QED
      BY <3>1 DEF Inv, Present
  <2> QED
    BY <2>1, <2>2
<1>7. \A q \in Present' : tree'[q] \in Forms(shape', Held(q)')
  <2>1. Present' \subseteq 0 .. Tasks
    BY DEF Present
  <2> QED
    BY <1>1, <1>5, <1>6, <2>1
<1>8. result' # None => result' = Full(shape', EventsIn(1, Tasks)')
  BY <1>1 DEF Inv, EventsIn
<1> QED
  BY <1>1, <1>4, <1>7, <1>8 DEF Inv

\* The sum of two neighbours stands for the events of both.
LEMMA CombineStep ==
    ASSUME Inv, NEW p \in 0 .. Tasks, Combine(p)
    PROVE  Inv'
<1> DEFINE q == upto[p] + 1
           t == upto[q]
           h == AddHistograms(shape, tree[p], tree[q])
           a == First(p)
<1>1. /\ shape \in Shapes /\ run \in Runs /\ upto[p] \in 0 .. Tasks /\ upto[p] >= p
      /\ q <= Tasks /\ tree[p] # None /\ tree[q] # None
      /\ shape' = shape /\ run' = run /\ result' = result
      /\ tree' = [tree EXCEPT ![p] = h, ![q] = None]
      /\ upto' = [upto EXCEPT ![p] = t]
  BY DEF Inv, Combine
<1>2. /\ q \in 1 .. Tasks /\ q \in 0 .. Tasks /\ q > p /\ q # p
      /\ upto[p] = q - 1 /\ t \in q .. Tasks
      /\ a \in 1 .. Tasks /\ q - 1 \in a - 1 .. Tasks /\ t \in q - 1 .. Tasks
  <2>1. q \in 1 .. Tasks /\ q \in 0 .. Tasks /\ q > p /\ upto[p] = q - 1
    BY <1>1, TasksAssumption
  <2> HIDE DEF q
  <2>2. t \in 0 .. Tasks /\ t >= q
    BY <2>1 DEF Inv
  <2> HIDE DEF t
  <2> QED
    BY <2>1, <2>2, TasksAssumption DEF First
<1> HIDE DEF q, t, h, a
<1>3. Held(p) = In(run, a, q - 1) /\ Held(q) = In(run, q, t)
  <2>1. First(q) = q
    BY <1>2 DEF First
  <2> QED
    BY <1>2, <2>1, HeldIs DEF a, t
<1>4. Held(p) \o Held(q) = In(run, a, t)
  <2> DEFINE b == q - 1
  <2>1. b \in a - 1 .. Tasks /\ t \in b .. Tasks /\ b + 1 = q
    BY <1>2
  <2> HIDE DEF b
  <2>2. In(run, a, b) \o In(run, b + 1, t) = In(run, a, t)
    BY <1>1, <1>2, <2>1, InConcat
  <2> QED
    BY <1>3, <2>1, <2>2 DEF b
<1>5. Held(p)' = In(run, a, t)
  <2>1. upto'[p] = t
    BY <1>1 DEF Inv
  <2> QED
    BY <1>1, <2>1 DEF Held, EventsIn, In, TaskSeq, Read, Batches, First, a
<1>6. h \in Forms(shape, In(run, a, t))
  <2> DEFINE es == Held(p)
             fs == Held(q)
             x == tree[p]
             y == tree[q]
  <2>1. es \in Seq(Events) /\ fs \in Seq(Events)
    BY <1>2, HeldType
  <2>2. x \in Forms(shape, es) /\ y \in Forms(shape, fs)
    BY <1>1, <1>2 DEF Inv, Present
  <2>3. h = AddHistograms(shape, x, y) /\ es \o fs = In(run, a, t)
    BY <1>4 DEF h
  <2> HIDE DEF es, fs, x, y
  <2>4. AddHistograms(shape, x, y) \in Forms(shape, es \o fs)
    BY <1>1, <2>1, <2>2, AddForms
  <2> QED
    BY <2>3, <2>4
<1>7. /\ DOMAIN tree' = 0 .. Tasks /\ tree'[p] = h /\ tree'[q] = None
      /\ \A k \in 0 .. Tasks : k # p /\ k # q => tree'[k] = tree[k]
  BY <1>1, <1>2 DEF Inv
<1>8. /\ upto' \in [0 .. Tasks -> 0 .. Tasks]
      /\ \A k \in 0 .. Tasks : upto'[k] >= k
      /\ \A k \in 0 .. Tasks : k # p => upto'[k] = upto[k]
  BY <1>1, <1>2 DEF Inv
<1>9. tree'[0] # None
  <2>1. CASE p = 0
    <3>1. h # None
      <4> DEFINE es == In(run, a, t)
      <4>1. es \in Seq(Events)
        <5>1. Held(p) \in Seq(Events) /\ Held(q) \in Seq(Events)
          BY <1>2, HeldType
        <5>2. Held(p) \o Held(q) \in Seq(Events)
          <6> DEFINE x == Held(p)
                     y == Held(q)
          <6> HIDE DEF x, y
          <6>1. x \in Seq(Events) /\ y \in Seq(Events)
            BY <5>1 DEF x, y
          <6>2. x \o y \in Seq(Events)
            BY <6>1
          <6> QED
            BY <6>2 DEF x, y
        <5> QED
          BY <1>4, <5>2
      <4> HIDE DEF es
      <4>2. h \in Forms(shape, es)
        BY <1>6 DEF es
      <4> QED
        BY <1>1, <4>1, <4>2, FormsAre
    <3> QED
      BY <1>7, <2>1, <3>1
  <2>2. CASE p # 0
    <3>1. 0 \in 0 .. Tasks /\ 0 # p /\ 0 # q
      BY <1>2, <2>2, TasksAssumption
    <3> QED
      BY <1>7, <3>1 DEF Inv
  <2> QED
    BY <2>1, <2>2
<1>10. ASSUME NEW k \in Present' PROVE tree'[k] \in Forms(shape', Held(k)')
  <2>1. k \in 0 .. Tasks /\ tree'[k] # None
    BY DEF Present
  <2>2. CASE k = p
    BY <1>1, <1>5, <1>6, <1>7, <2>2
  <2>3. CASE k # p
    <3>1. k # q
      BY <1>7, <2>1
    <3>2. tree'[k] = tree[k] /\ upto'[k] = upto[k]
      BY <1>7, <1>8, <2>1, <2>3, <3>1
    <3>3. tree[k] \in Forms(shape, Held(k))
      BY <2>1, <3>2 DEF Inv, Present
    <3>4. Held(k)' = Held(k)
      <4>1. Held(k) = In(run, First(k), upto[k])
        BY HeldIs
      <4>2. Held(k)' = In(run, First(k), upto[k])
        BY <1>1, <3>2 DEF Held, EventsIn, In, TaskSeq, Read, Batches, First
      <4> QED
        BY <4>1, <4>2
    <3> QED
      BY <1>1, <3>2, <3>3, <3>4
  <2> QED
    BY <2>2, <2>3
<1>11. result' # None => result' = Full(shape', EventsIn(1, Tasks)')
  BY <1>1 DEF Inv, EventsIn
<1> QED
  BY <1>1, <1>7, <1>8, <1>9, <1>10, <1>11 DEF Inv

\* The finalized slot stands for the events of all the tasks.
LEMMA FinalizeStep ==
    ASSUME Inv, Finalize
    PROVE  Inv'
<1>1. /\ shape \in Shapes /\ upto[0] = Tasks /\ result' = Dense(shape, tree[0])
      /\ shape' = shape /\ run' = run /\ upto' = upto /\ tree' = tree
  BY DEF Inv, Finalize
<1>2. 0 \in 0 .. Tasks /\ 0 \in Present
  BY TasksAssumption DEF Inv, Present
<1>3. tree[0] \in Forms(shape, Held(0)) /\ Held(0) \in Seq(Events)
  BY <1>2, HeldType DEF Inv
<1>4. Dense(shape, tree[0]) = Full(shape, Held(0))
  <2> DEFINE es == Held(0)
             x == tree[0]
  <2> HIDE DEF es, x
  <2>1. es \in Seq(Events) /\ x \in Forms(shape, es)
    BY <1>3 DEF es, x
  <2>2. Dense(shape, x) = Full(shape, es)
    BY <1>1, <2>1, FormsAre
  <2> QED
    BY <2>2 DEF es, x
<1>5. Held(0) = EventsIn(1, Tasks)
  BY <1>1 DEF Held
<1>6. \A p \in 0 .. Tasks : Held(p)' = Held(p)
  BY <1>1 DEF Held, EventsIn
<1>7. EventsIn(1, Tasks)' = EventsIn(1, Tasks)
  BY <1>1 DEF EventsIn
<1>8. ASSUME NEW p \in Present' PROVE tree'[p] \in Forms(shape', Held(p)')
  BY <1>1, <1>6 DEF Inv, Present
<1> QED
  BY <1>1, <1>4, <1>5, <1>7, <1>8 DEF Inv

LEMMA NextInv == Inv /\ [Next]_vars => Inv'
<1> SUFFICES ASSUME Inv, [Next]_vars PROVE Inv'
  OBVIOUS
<1>1. ASSUME NEW p \in 1 .. Tasks, Task(p) PROVE Inv'
  BY <1>1, TaskStep
<1>2. ASSUME NEW p \in 0 .. Tasks, Combine(p) PROVE Inv'
  BY <1>2, CombineStep
<1>3. ASSUME Finalize PROVE Inv'
  BY <1>3, FinalizeStep
<1>4. ASSUME UNCHANGED vars PROVE Inv'
  <2>1. /\ shape' = shape /\ run' = run /\ tree' = tree /\ upto' = upto /\ result' = result
    BY <1>4 DEF vars
  <2> QED
    BY <2>1 DEF Inv, Present, Held, EventsIn
<1> QED
  BY <1>1, <1>2, <1>3, <1>4 DEF Next, Over

LEMMA SpecInv == Spec => []Inv
BY InitInv, NextInv, PTL DEF Spec

\* The theorem of a run's partials: each is the histogram a documented run gives for
\* exactly the events of its tasks, whatever the tree and whichever were chunked.
THEOREM PartialsAddUpHolds == Spec => []PartialsAddUp
<1>1. Inv => PartialsAddUp
  <2> SUFFICES ASSUME Inv, NEW p \in Present
               PROVE  Dense(shape, tree[p]) = Counted(shape, Held(p))
    BY DEF PartialsAddUp
  <2>1. shape \in Shapes /\ tree[p] \in Forms(shape, Held(p)) /\ p \in 0 .. Tasks
    BY DEF Inv, Present
  <2>2. Held(p) \in Seq(Events)
    BY <2>1, HeldType
  <2>3. Dense(shape, tree[p]) = Full(shape, Held(p))
    BY <2>1, <2>2, FormsAre
  <2> QED
    BY <2>1, <2>2, <2>3, CountedIsFull
<1> QED
  BY <1>1, SpecInv, PTL

\* The theorem of the result: boost's own fill of the whole dataset in partition order.
THEOREM SingleFillIsEagerHolds == Spec => []SingleFillIsEager
<1>1. Inv => SingleFillIsEager
  <2> SUFFICES ASSUME Inv, result # None
               PROVE  result = EagerFill(shape, ZeroOf(shape), EventsIn(1, Tasks))
    BY DEF SingleFillIsEager
  <2> DEFINE es == EventsIn(1, Tasks)
             z == <<>>
  <2>1. shape \in Shapes /\ run \in Runs /\ result = Full(shape, es)
    BY DEF Inv
  <2>2. es \in Seq(Events) /\ z \in Seq(Events)
    <3>1. 1 \in 1 .. Tasks + 1 /\ Tasks \in 1 - 1 .. Tasks
      BY TasksAssumption
    <3>2. In(run, 1, Tasks) \in Seq(Events)
      BY <2>1, <3>1, TaskSeqType
    <3> QED
      BY <3>2, HeldIs
  <2> HIDE DEF es, z
  <2>3. EagerFill(shape, Full(shape, z), es) = Full(shape, z \o es)
    BY <2>1, <2>2, EagerFull
  <2>4. z \o es = es
    BY <2>2 DEF z
  <2>5. ZeroOf(shape) = Full(shape, z)
    BY <2>1, ZeroIsFull DEF z
  <2> QED
    BY <2>1, <2>3, <2>4, <2>5 DEF es
<1> QED
  BY <1>1, SpecInv, PTL
=============================================================================
