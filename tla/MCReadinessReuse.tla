--------------------------- MODULE MCReadinessReuse ---------------------------
(* Small instances of ReadinessReuse.                                      *)
EXTENDS ReadinessReuse, TLC

CONSTANTS t1, t2, t3, r1

Symmetry == Permutations(Callers \ Passes)

=============================================================================
