---------------------------- MODULE MCRecording ----------------------------
(* Recording on a small instance: six fill calls, plain and varied, in both   *)
(* modes, on one histogram and a copy of it.                                  *)
EXTENDS Recording

CONSTANTS nominal, up, down, x, x_up, w, w_down

\* An unvaried fill; one whose weight varies; one whose value varies too.
Plain(axis) ==
    [axis |-> axis, labels |-> {nominal},
     value |-> [l \in {nominal} |-> x], weight |-> [l \in {nominal} |-> w]]
WeightVaried(axis) ==
    [axis |-> axis, labels |-> {nominal, down},
     value |-> [l \in {nominal, down} |-> x],
     weight |-> [l \in {nominal, down} |-> IF l = down THEN w_down ELSE w]]
BothVaried(axis) ==
    [axis |-> axis, labels |-> {nominal, down, up},
     value |-> [l \in {nominal, down, up} |-> IF l = up THEN x_up ELSE x],
     weight |-> [l \in {nominal, down, up} |-> IF l = down THEN w_down ELSE w]]

MCFills == UNION {{Plain(a), WeightVaried(a), BothVaried(a)} : a \in BOOLEAN}
=============================================================================
