-------------------------- MODULE MCPersistenceGate --------------------------
(* Small instances of PersistenceGate.                                     *)
EXTENDS PersistenceGate, TLC

CONSTANTS t1, t2, t3, r1

=============================================================================
