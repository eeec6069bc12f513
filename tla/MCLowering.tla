----------------------------- MODULE MCLowering -----------------------------
(* Lowering on a small instance: two histograms of two axes, two nested event *)
(* contexts with a weight each, and calls with constants in every position,   *)
(* scalar factors with and without an array beside them, and loose operands.  *)
EXTENDS Lowering

CONSTANTS nominal, up, down, lumi, pt, pt_up, chan, sf, sf_down, ev_w, events_w, jets_w, jets_w_up,
          val, val_up, five, two, seven, one, more

ColumnAt(b, ctx) == [base |-> b, at |-> ctx, scales |-> <<>>]
Const(k) == [kind |-> "const", value |-> k]
Plain(b, ctx) ==
    [kind |-> "array", labels |-> <<nominal>>, ctx |-> ctx,
     member |-> [l \in {nominal} |-> ColumnAt(b, ctx)]]
Varied(b, label, shifted, ctx) ==
    [kind |-> "array", labels |-> <<nominal, label>>, ctx |-> ctx,
     member |-> [l \in {nominal, label} |-> ColumnAt(IF l = nominal THEN b ELSE shifted, ctx)]]
Lumi ==
    [kind |-> "factor", labels |-> <<nominal, lumi>>,
     member |-> [l \in {nominal, lumi} |-> IF l = nominal THEN one ELSE more]]

MCDepth == [b \in {pt, pt_up, chan, val, val_up} |-> 2]
               @@ [b \in {sf, sf_down, ev_w, events_w, jets_w, jets_w_up} |-> 1]
MCAmbient == <<Plain(events_w, 1), Varied(jets_w, up, jets_w_up, 2)>>
MCStrings == {chan}

Args == {<<Const(five), Plain(pt, 0)>>, <<Plain(pt, 1), Const(five)>>,
         <<Plain(chan, 1), Varied(pt, up, pt_up, 2)>>}
W == Plain(sf, 1)
WDown == Varied(sf, down, sf_down, 0)
V == Plain(ev_w, 0)
Weights == {<<>>, <<V>>, <<V, Const(two), W>>, <<Const(two), Lumi>>, <<Lumi, WDown, V>>}
Samples == {Const(seven), Varied(val, down, val_up, 0)}
Alike == Permutations(Hists)

MCCall(args, weights, unweighted, sample, axis) ==
    [args |-> args, weights |-> weights, unweighted |-> unweighted,
     sample |-> sample, axis |-> axis]

MCCalls ==
    {MCCall(a, ws, FALSE, Absent, m) :
        a \in Args \cup {<<Const(five), Plain(chan, 0)>>}, ws \in Weights, m \in BOOLEAN}
    \cup {MCCall(a, <<>>, TRUE, Absent, m) : a \in Args, m \in BOOLEAN}
    \cup {MCCall(a, ws, FALSE, k, m) :
            a \in Args, ws \in {<<>>, <<Const(two), V>>, <<WDown>>}, k \in Samples, m \in BOOLEAN}
=============================================================================
