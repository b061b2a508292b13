------------------------------ MODULE AtomicRoles ------------------------------
(***************************************************************************)
(* What role administration promises, with no transaction, request or lock *)
(* in sight: administrators change one at a time, each change is made by   *)
(* somebody who may make it at the very moment it is made, to an account   *)
(* that is in the state the change needs at that moment, and is written    *)
(* down with its author; the first one is made once, before all others.    *)
(* RoleAdmin implements it.                                                *)
(***************************************************************************)
EXTENDS Sequences

CONSTANTS Users, Nobody

VARIABLES account, admins, audit

vars == <<account, admins, audit>>

Administrator(u) == u \in admins /\ account[u] = "active"

MayChange(by, u) == by = Nobody \/ (by # u /\ Administrator(by))

Written(u, action, op, by) ==
  audit' = Append(audit, [user |-> u, action |-> action, by |-> op, operator |-> by])

Init ==
  /\ account = [u \in Users |-> "none"]
  /\ admins = {}
  /\ audit = << >>

Grant(u, by) ==
  /\ MayChange(by, u)
  /\ account[u] = "active"
  /\ u \notin admins
  /\ admins' = admins \cup {u}
  /\ Written(u, "GRANT", "grant", by)
  /\ account' = account

Revoke(u, by) ==
  /\ MayChange(by, u)
  /\ u \in admins
  /\ \E v \in Users \ {u} : Administrator(v)
  /\ admins' = admins \ {u}
  /\ Written(u, "REVOKE", "revoke", by)
  /\ account' = account

Bootstrap(u) ==
  /\ audit = << >>
  /\ account[u] = "none"
  /\ account' = [account EXCEPT ![u] = "active"]
  /\ admins' = {u}
  /\ Written(u, "GRANT", "bootstrap", Nobody)

\* An account comes to exist, or is verified.
Advance(u) ==
  /\ \/ account[u] = "none" /\ account' = [account EXCEPT ![u] = "pending"]
     \/ account[u] = "pending" /\ account' = [account EXCEPT ![u] = "active"]
  /\ UNCHANGED <<admins, audit>>

Next ==
  \E u \in Users :
    \/ \E by \in Users \cup {Nobody} : Grant(u, by) \/ Revoke(u, by)
    \/ Bootstrap(u) \/ Advance(u)

Spec == Init /\ [][Next]_vars

=============================================================================
