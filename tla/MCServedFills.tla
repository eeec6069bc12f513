---------------------------- MODULE MCServedFills ----------------------------
(* ServedFills on small instances. *)
EXTENDS ServedFills, TLC

CONSTANTS S1, S2

\* A slot on a server each.
ApartHome == [s \in Slots |-> IF s = 1 THEN S1 ELSE S2]

Perms ==
    Permutations(Threads) \cup Permutations(Workers) \cup Permutations(Partitions)
=============================================================================
