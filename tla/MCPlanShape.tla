----------------------------- MODULE MCPlanShape -----------------------------
(* PlanShape on small nestings: one to three leaves of two Sessions, under    *)
(* keys whose joined names may meet: 1 and "1", "a/b" and "b" below "a"; and  *)
(* single histograms of one or two axes, of every kind up to the bins.        *)
EXTENDS PlanShape

CONSTANTS one, two, up

Key(text) == [text |-> text, tuple |-> FALSE]
A == Key(<<"a">>)
B == Key(<<"b">>)
AB == Key(<<"a", "b">>)
One == [text |-> <<"1">>, tuple |-> FALSE, int |-> TRUE]
OneText == [text |-> <<"1">>, tuple |-> FALSE, int |-> FALSE]
Pair == [text |-> <<"(a, b)">>, tuple |-> TRUE]

MCKeys == {A, B, AB, One, OneText, Pair}
Paths == {<<>>, <<A>>, <<B>>, <<A, B>>, <<AB>>, <<A, A>>, <<One>>, <<OneText>>, <<Pair>>}

MCStr(v) == IF v = "int 1" THEN "1" ELSE v

Axis(type, traits, transform, attrs) ==
    [type |-> type, bins |-> "bins", traits |-> traits, transform |-> transform, attrs |-> attrs]

\* What boost-histogram's constructors allow of each type's options.
Flow == SUBSET {"underflow", "overflow"}
Both == {"underflow", "overflow"}
Options ==
    [Regular |-> Flow \cup {Both \cup {"growth"}, {"overflow", "circular"}},
     Variable |-> Flow \cup {Both \cup {"growth"}, {"overflow", "circular"}},
     Integer |-> Flow \cup {{"growth"}, {"circular"}, {"overflow", "circular"}},
     IntCategory |-> {{"overflow"}, {}, {"growth"}},
     StrCategory |-> {{"overflow"}, {}, {"growth"}},
     Boolean |-> {{}}]
Attrs == {<<>>} \cup [{"name"} -> {"x", "int 1", None}]
MCAxes ==
    UNION {{Axis(t, o, FALSE, a) : o \in Options[t], a \in Attrs} : t \in DOMAIN Options}
        \cup {Axis("Regular", Both, TRUE, <<>>)}

MCHists ==
    {[storage |-> s, axes |-> x] : s \in {"Double", "Weight"}, x \in [{1} -> MCAxes]}
    \cup {[storage |-> "Double", axes |-> x] :
            x \in [1 .. 2 -> {a \in MCAxes : a.attrs = <<>>}]}

Hist(id, session, labels, axis, served) ==
    [id |-> id, session |-> session, labels |-> labels, axis |-> axis, served |-> served,
     hist |-> [storage |-> "Double", axes |-> <<Axis("Regular", Both, FALSE, <<>>)>>]]

PlainHist == Hist("plain", one, {Nominal}, FALSE, FALSE)
Leaves ==
    {PlainHist, Hist("varied", two, {Nominal, up}, FALSE, FALSE),
     Hist("axis", one, {Nominal, up}, TRUE, FALSE), Hist("unfilled", None, {Nominal}, FALSE, FALSE),
     Hist("served", one, {Nominal, up}, FALSE, TRUE), Other, Empty}

\* No path is another's prefix: what is below a key is one thing.
MCGivens ==
    LET sets == {s \in kSubset(1, Paths) \cup kSubset(2, Paths) \cup kSubset(3, Paths) :
                    \A p, q \in s : ~IsStrictPrefix(p, q)}
    IN UNION {[s -> Leaves] : s \in sets}
        \cup {[p \in {<<A>>} |-> [PlainHist EXCEPT !.hist = h]] : h \in MCHists}
=============================================================================
