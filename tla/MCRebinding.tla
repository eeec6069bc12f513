----------------------------- MODULE MCRebinding -----------------------------
(* Rebinding on a small instance: two plans, two bindings, three runs: one    *)
(* binding run twice and one run anew.                                        *)
EXTENDS Rebinding, TLC

Symmetry == Permutations(Plans) \cup Permutations(Partitions)
=============================================================================
