--------------------------- MODULE MCSharedFills ---------------------------
(* SharedFills on a small instance: two slots of two tasks reading two        *)
(* outputs, apart, together, or one of them twice, chunked and dense.         *)
EXTENDS SharedFills

CONSTANTS hist

MCLayouts ==
    LET slots == {[reads |-> r, dense |-> d, kind |-> k] :
                    r \in {<<1>>, <<1, 2>>, <<2, 2>>}, d \in BOOLEAN, k \in {BH, hist}}
    IN {<<a, b>> \in slots \X slots : a.kind # b.kind}
=============================================================================
