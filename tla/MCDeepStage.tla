----------------------------- MODULE MCDeepStage -----------------------------
(* Small instances of DeepStage.                                           *)
EXTENDS DeepStage, TLC

CONSTANTS w1, w2

Symmetry == Permutations(Workers)

=============================================================================
