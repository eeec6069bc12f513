----------------------------- MODULE MCReduction -----------------------------
(* Reduction on a small instance: three tasks; one fill of single events in   *)
(* every task, one fill of longer batches in two of them, and two fills, or   *)
(* one output read twice, in two.                                             *)
EXTENDS Reduction

MCInf == 99
MCCats == {"a", "b", "c"}

MCShapes ==
    LET axes(g, w) == {[grows |-> g, cats |-> cats, widens |-> w, lo |-> 0, n |-> 2,
                        dense |-> d] : cats \in {<<>>, <<"b">>}, d \in BOOLEAN}
    IN {s \in axes(TRUE, TRUE) \cup axes(TRUE, FALSE) \cup axes(FALSE, FALSE) :
            (s.widens => ~s.dense) /\ (s.grows \/ s.cats # <<>>)}

Event(c, x) == [cat |-> c, x |-> x]
Batch(es) == [odd |-> FALSE, events |-> es]
OddBatch(es) == [odd |-> TRUE, events |-> es]

Low == Event("a", -2)
Mid == Event("b", 1)
High == Event("a", 4)
Far == Event("c", MCInf)

Singles == {<<Batch(<<>>)>>} \cup {<<Batch(<<e>>)>> : e \in {Low, Mid, High, Far}}
               \cup {<<OddBatch(<<High>>)>>}
Longer == {<<Batch(<<e, f>>)>> : e \in {Low, Mid, High}, f \in {Low, Mid, High, Far}}
              \cup {<<Batch(<<Mid>>), OddBatch(<<Low>>), Batch(<<High>>)>>}
Idle(o) == [k \in 1 .. o |-> <<Batch(<<>>)>>]

MCRuns ==
    {[reads |-> <<1>>, data |-> <<<<b1>>, <<b2>>, <<b3>>>>] :
        b1 \in Singles, b2 \in Singles, b3 \in Singles}
    \cup {[reads |-> <<1>>, data |-> <<<<b1>>, <<b2>>, Idle(1)>>] :
        b1 \in Longer, b2 \in Longer}
    \cup {[reads |-> r, data |-> <<<<b1, c1>>, Idle(2), <<b2, c2>>>>] :
        r \in {<<1, 2>>, <<2, 2>>},
        b1 \in Singles, b2 \in Singles, c1 \in {<<Batch(<<Mid, Low>>)>>, <<OddBatch(<<Far>>)>>},
        c2 \in {<<Batch(<<High>>)>>, <<Batch(<<Mid, Far>>)>>}}
=============================================================================
