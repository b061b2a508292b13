----------------------------- MODULE RoleAdmin -----------------------------
(* Who administers the platform: the auth service's RoleAdminService and     *)
(* FirstAdminBootstrapService over the tables app_users (account), the ADMIN *)
(* rows of app_user_roles (admins) and app_user_role_audit (audit).          *)
(* Requests of administrators, the role-admin command line and the first-    *)
(* admin bootstrap run in transactions on any number of service instances;   *)
(* one row, role_admin_lock, serialises them (changesHeldBy).  Registration  *)
(* and e-mail verification change accounts without that lock.  An operator   *)
(* of the command line is no account of the platform (Nobody).               *)
EXTENDS Naturals, Sequences, FiniteSets

CONSTANTS Users,       \* accounts that may come to exist
          Operators,   \* concurrent transactions
          Nobody,
          MaxChanges   \* bound on the audit trail

ASSUME RoleAssumption == /\ Nobody \notin Users \cup Operators
                         /\ IsFiniteSet(Users)
                         /\ MaxChanges \in Nat

VARIABLES account, admins, audit, changesHeldBy, change

roleVars == <<account, admins, audit, changesHeldBy, change>>

Changes == [op : {"grant", "revoke"}, actor : Users \cup {Nobody}, target : Users]
             \cup [op : {"bootstrap"}, actor : {Nobody}, target : Users]

NoChange == [pc |-> "idle", op |-> "none", actor |-> Nobody, target |-> Nobody]

InChange(c, pc) == [pc |-> pc, op |-> c.op, actor |-> c.actor, target |-> c.target]

(* An administrator that counts: ADMIN role, active and verified account.    *)
ActiveAdmins == {u \in admins : account[u] = "active"}

RoleInit ==
  /\ account = [u \in Users |-> "none"]
  /\ admins = {}
  /\ audit = << >>
  /\ changesHeldBy = Nobody
  /\ change = [o \in Operators |-> NoChange]

(* The transaction of operator o ends and lets go of the row lock.           *)
EndChange(o) ==
  /\ change' = [change EXCEPT ![o] = NoChange]
  /\ changesHeldBy' = IF changesHeldBy = o THEN Nobody ELSE changesHeldBy

Request(o, c) ==
  /\ change[o].pc = "idle"
  /\ change' = [change EXCEPT ![o] = InChange(c, "waiting")]
  /\ UNCHANGED <<account, admins, audit, changesHeldBy>>

(* The faulty form of LockChanges: it does not wait for the row.             *)
LockUnawaited(o) ==
  /\ change[o].pc = "waiting"
  /\ changesHeldBy' = o
  /\ change' = [change EXCEPT ![o].pc = "locked"]
  /\ UNCHANGED <<account, admins, audit>>

(* SELECT ... FOR UPDATE on the lock row, before anything else is read.      *)
LockChanges(o) ==
  /\ change[o].pc = "waiting"
  /\ changesHeldBy = Nobody
  /\ changesHeldBy' = o
  /\ change' = [change EXCEPT ![o].pc = "locked"]
  /\ UNCHANGED <<account, admins, audit>>

(* The faulty form of Permitted: the roles in the token are believed.        *)
PermittedByToken(c) ==
  c.actor = Nobody \/ c.actor # c.target

Permitted(c) ==
  c.actor = Nobody \/ (c.actor # c.target /\ c.actor \in ActiveAdmins)

GrantDue(c) ==
  Permitted(c) /\ account[c.target] = "active" /\ c.target \notin admins

(* The faulty form of RevokeDue: off by one.                                 *)
RevokeWhileAny(c) ==
  /\ Permitted(c)
  /\ c.target \in admins
  /\ account[c.target] = "active" => Cardinality(ActiveAdmins) > 0

RevokeDue(c) ==
  /\ Permitted(c)
  /\ c.target \in admins
  /\ account[c.target] = "active" => Cardinality(ActiveAdmins) > 1

BootstrapDue(c) == admins = {} /\ \A u \in Users : account[u] = "none"

Due(c) == CASE c.op = "grant" -> GrantDue(c)
            [] c.op = "revoke" -> RevokeDue(c)
            [] OTHER -> BootstrapDue(c)

(* The reads under the lock: the change is refused, finds nothing to do, or  *)
(* goes on to write.                                                         *)
Decide(o) ==
  /\ change[o].pc = "locked"
  /\ IF Due(change[o])
       THEN /\ change' = [change EXCEPT ![o].pc = "decided"]
            /\ UNCHANGED changesHeldBy
       ELSE EndChange(o)
  /\ UNCHANGED <<account, admins, audit>>

Entry(c, action) ==
  [user |-> c.target, action |-> action, by |-> c.op, operator |-> c.actor]

(* The role row and its audit row, in one commit.                            *)
CommitChange(o) ==
  LET c == change[o] IN
  /\ c.pc = "decided" /\ Len(audit) < MaxChanges
  /\ \/ /\ c.op = "grant"
        /\ admins' = admins \cup {c.target}
        /\ audit' = Append(audit, Entry(c, "GRANT"))
        /\ UNCHANGED account
     \/ /\ c.op = "revoke"
        /\ admins' = admins \ {c.target}
        /\ audit' = Append(audit, Entry(c, "REVOKE"))
        /\ UNCHANGED account
     \/ /\ c.op = "bootstrap"
        /\ account[c.target] = "none"    \* unique index on the e-mail
        /\ account' = [account EXCEPT ![c.target] = "active"]
        /\ admins' = admins \cup {c.target}
        /\ audit' = Append(audit, Entry(c, "GRANT"))
  /\ EndChange(o)

(* Any statement may fail: the transaction rolls back.                       *)
RollBack(o) ==
  /\ change[o].pc # "idle"
  /\ EndChange(o)
  /\ UNCHANGED <<account, admins, audit>>

Register(u) ==
  /\ account[u] = "none"
  /\ account' = [account EXCEPT ![u] = "pending"]
  /\ UNCHANGED <<admins, audit, changesHeldBy, change>>

VerifyAccount(u) ==
  /\ account[u] = "pending"
  /\ account' = [account EXCEPT ![u] = "active"]
  /\ UNCHANGED <<admins, audit, changesHeldBy, change>>

RoleNext ==
  \/ \E o \in Operators :
        \/ \E c \in Changes : Request(o, c)
        \/ LockChanges(o) \/ Decide(o) \/ CommitChange(o) \/ RollBack(o)
  \/ \E u \in Users : Register(u) \/ VerifyAccount(u)

RoleSpec == RoleInit /\ [][RoleNext]_roleVars

-----------------------------------------------------------------------------
(* What a reader of the tables sees: changes that each happen at once.       *)
Atomic == INSTANCE AtomicRoles

(* Every change that commits is one its author may make, to an account that  *)
(* is as the change needs it, at the moment of the commit, not only when the *)
(* transaction read it: "the lock must be taken before reading actor         *)
(* permissions or target roles" (RoleAdminService.lockChanges).              *)
ImplementsAtomicRoles == Atomic!Spec

-----------------------------------------------------------------------------
ChangeSteps == {"waiting", "locked", "decided"}

AuditEntries ==
  [user : Users, action : {"GRANT", "REVOKE"},
   by : {"grant", "revoke", "bootstrap"}, operator : Users \cup {Nobody}]

RoleTypeOK ==
  /\ account \in [Users -> {"none", "pending", "active"}]
  /\ admins \subseteq Users
  /\ audit \in Seq(AuditEntries)
  /\ changesHeldBy \in Operators \cup {Nobody}
  /\ change \in [Operators -> {NoChange} \cup
                   {InChange(c, pc) : c \in Changes, pc \in ChangeSteps}]

(* Once the platform has an administrator who can sign in, no sequence of    *)
(* changes leaves it without one: two administrators revoking each other in  *)
(* the same moment cannot both succeed (RoleAdminService.revokeFrom counts   *)
(* under the lock).                                                          *)
LastAdminStands == [][ActiveAdmins # {} => ActiveAdmins' # {}]_roleVars

(* "two concurrent bootstrap attempts against the same database can never    *)
(* both succeed" (FirstAdminBootstrapService), nor can a later one.          *)
OneBootstrap ==
  \A i, j \in 1 .. Len(audit) :
     audit[i].by = "bootstrap" /\ audit[j].by = "bootstrap" => i = j

(* The audit trail alone justifies every change: whoever made one, unless it *)
(* was the command line or the bootstrap, had been made an administrator by  *)
(* an earlier entry that no entry in between took back.                      *)
AuthorsWereAdmins ==
  \A i \in 1 .. Len(audit) : audit[i].operator # Nobody =>
    \E j \in 1 .. i - 1 :
      /\ audit[j].user = audit[i].operator /\ audit[j].action = "GRANT"
      /\ \A k \in j + 1 .. i - 1 : audit[k].user # audit[i].operator

=============================================================================
