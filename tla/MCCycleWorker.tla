---------------------------- MODULE MCCycleWorker ----------------------------
(* Small instances of CycleWorker.  A lease of one tick is enough: only      *)
(* whether it is live matters to a worker, CycleStore runs with two.         *)
EXTENDS CycleWorker, TLC

CONSTANTS c1, c2, w1, w2

Symmetry == Permutations(Cycles) \cup Permutations(Workers)

=============================================================================
