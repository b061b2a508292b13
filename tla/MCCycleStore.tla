---------------------------- MODULE MCCycleStore ----------------------------
(* A small instance of CycleStore: three cycles, two of them for the same   *)
(* market, and two owners.                                                  *)
EXTENDS CycleStore, TLC

CONSTANTS c1, c2, c3, o1, o2

MCMarketOf == [c \in Cycles |-> IF c = c3 THEN "ETF" ELSE "NSE"]

Symmetry == Permutations({c1, c2}) \cup Permutations({o1, o2})

=============================================================================
