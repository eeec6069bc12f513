--------------------------- MODULE MCUnrunWarnings ---------------------------
(* UnrunWarnings on a small instance: three histograms make an original, its  *)
(* copy and a stranger, or the sum of two of them; of two lines one is read   *)
(* on and one is not.                                                         *)
EXTENDS UnrunWarnings, TLC

Symmetry == Permutations(Hists) \cup Permutations(Lines)
=============================================================================
