--------------------------- MODULE RoleAdminProofs ---------------------------
(* For any number of accounts and of concurrent transactions: the platform   *)
(* is bootstrapped once, and never loses its last administrator.             *)
EXTENDS RoleAdmin, FiniteSetTheorems, SequenceTheorems, TLAPS

InProgress == {InChange(c, pc) : c \in Changes, pc \in ChangeSteps}

(* Between its reads and its commit a transaction holds the lock row.        *)
UnderLock ==
  \A o \in Operators : change[o].pc \in {"locked", "decided"} => changesHeldBy = o

AdminsActive == \A u \in admins : account[u] = "active"

(* What a transaction has read stays true until it commits: its author may   *)
(* still make the change, and the accounts are still as it needs them.       *)
ReadsStand ==
  \A o \in Operators :
     change[o].pc = "decided" =>
       /\ change[o].op # "bootstrap" => Permitted(change[o])
       /\ change[o].op = "grant" =>
            account[change[o].target] = "active" /\ change[o].target \notin admins
       /\ change[o].op = "revoke" =>
            change[o].target \in admins /\ \E u \in admins : u # change[o].target
       /\ change[o].op = "bootstrap" => admins = {} /\ change[o].actor = Nobody

(* The trail begins with the first administrator, and from then on there is  *)
(* one.                                                                      *)
TrailStarts == audit # << >> => admins # {}

(* The trail tells who is an administrator: the last entry of an account is  *)
(* a grant.                                                                  *)
TrailTells ==
  \A u \in admins : \E j \in 1 .. Len(audit) :
    /\ audit[j].user = u /\ audit[j].action = "GRANT"
    /\ \A k \in j + 1 .. Len(audit) : audit[k].user # u

TrailInv == TrailStarts /\ TrailTells /\ OneBootstrap /\ AuthorsWereAdmins

RoleInv == RoleTypeOK /\ UnderLock /\ AdminsActive /\ ReadsStand /\ TrailInv

-----------------------------------------------------------------------------
(* The parts of a change under way, and that it stays one from step to step. *)
LEMMA InProgressFields ==
  ASSUME NEW x \in InProgress
  PROVE  /\ x.pc \in ChangeSteps /\ x # NoChange
         /\ x.op \in {"grant", "revoke", "bootstrap"} /\ x.target \in Users
         /\ x.actor \in Users \cup {Nobody}
         /\ x.op = "bootstrap" => x.actor = Nobody
         /\ \A pc \in ChangeSteps : [x EXCEPT !.pc = pc] \in InProgress
<1>1. PICK c \in Changes, pc \in ChangeSteps : x = InChange(c, pc)
  BY DEF InProgress
<1>2. \A q \in ChangeSteps : [x EXCEPT !.pc = q] = InChange(c, q)
  BY <1>1 DEF InChange
<1>3. /\ c.op \in {"grant", "revoke", "bootstrap"} /\ c.target \in Users
      /\ c.actor \in Users \cup {Nobody}
      /\ c.op = "bootstrap" => c.actor = Nobody
  BY DEF Changes
<1>4. \A q \in ChangeSteps : InChange(c, q) \in InProgress
  BY DEF InProgress
<1>5. x.pc = pc /\ x.op = c.op /\ x.target = c.target /\ x.actor = c.actor
  BY <1>1 DEF InChange
<1>6. x # NoChange
  BY <1>5 DEF NoChange, ChangeSteps
<1> QED
  BY <1>2, <1>3, <1>4, <1>5, <1>6

(* An operator that is not idle has a change under way.                      *)
LEMMA OperatorAtWork ==
  ASSUME RoleTypeOK, NEW o \in Operators, change[o].pc # "idle"
  PROVE  change[o] \in InProgress
BY DEF RoleTypeOK, InProgress, NoChange

(* Ending a transaction keeps the types.                                     *)
LEMMA EndChangeType ==
  ASSUME RoleTypeOK, NEW o \in Operators, EndChange(o)
  PROVE  /\ change' \in [Operators -> {NoChange} \cup InProgress]
         /\ changesHeldBy' \in Operators \cup {Nobody}
BY DEF RoleTypeOK, EndChange, InProgress

(* If more than one administrator counts, another one stands beside any of   *)
(* them: what revokeFrom learns from its count.                              *)
LEMMA AnotherAdmin ==
  ASSUME RoleTypeOK, NEW t \in ActiveAdmins, Cardinality(ActiveAdmins) > 1
  PROVE  \E u \in admins : u # t
<1>1. SUFFICES ASSUME \A u \in admins : u = t PROVE FALSE
  OBVIOUS
<1>2. ActiveAdmins = {t}
  BY <1>1 DEF ActiveAdmins
<1>3. Cardinality(ActiveAdmins) = 1
  BY <1>2, FS_Singleton
<1> QED
  BY <1>3

(* The reads, where a step leaves the tables alone and decides nothing.      *)
LEMMA ReadsSame ==
  ASSUME ReadsStand, UNCHANGED <<account, admins>>,
         \A o \in Operators : change'[o].pc = "decided" => change'[o] = change[o]
  PROVE  ReadsStand'
<1> SUFFICES ASSUME NEW o \in Operators, change'[o].pc = "decided"
             PROVE  /\ change'[o] = change[o] /\ change[o].pc = "decided"
                    /\ Permitted(change[o])' <=> Permitted(change[o])
  BY DEF ReadsStand
<1> QED
  BY DEF Permitted, ActiveAdmins

(* The trail, where a step leaves it and the administrators alone.           *)
LEMMA TrailSame ==
  ASSUME TrailInv, UNCHANGED <<admins, audit>>
  PROVE  TrailInv'
BY DEF TrailInv, TrailStarts, TrailTells, OneBootstrap, AuthorsWereAdmins

(* The trail, where an entry is added to it.                                 *)
LEMMA TrailGrows ==
  ASSUME TrailInv, audit \in Seq(AuditEntries), NEW e \in AuditEntries,
         audit' = Append(audit, e), admins' # {},
         e.by = "bootstrap" => audit = << >>,
         e.operator # Nobody => e.operator \in admins,
         \A u \in admins' :
           (u = e.user /\ e.action = "GRANT") \/ (u # e.user /\ u \in admins)
  PROVE  TrailInv'
<1> DEFINE n == Len(audit)
<1>1. /\ n \in Nat /\ Len(audit') = n + 1 /\ audit'[n + 1] = e
      /\ \A i \in 1 .. n : audit'[i] = audit[i]
  OBVIOUS
<1>2. n = 0 <=> audit = << >>
  BY EmptySeq
<1> HIDE DEF n
<1>3. TrailStarts'
  BY DEF TrailStarts
<1>4. OneBootstrap'
  <2>1. ASSUME e.by = "bootstrap" PROVE n = 0
    BY <1>2, <2>1
  <2>2. \A i, j \in 1 .. n : audit[i].by = "bootstrap" /\ audit[j].by = "bootstrap" => i = j
    BY DEF TrailInv, OneBootstrap, n
  <2>3. SUFFICES ASSUME NEW i \in 1 .. n + 1, NEW j \in 1 .. n + 1,
                        audit'[i].by = "bootstrap", audit'[j].by = "bootstrap"
                 PROVE  i = j
    BY <1>1 DEF OneBootstrap
  <2>4. CASE i = n + 1 \/ j = n + 1
    BY <1>1, <2>1, <2>3, <2>4
  <2>5. CASE i # n + 1 /\ j # n + 1
    <3>1. i \in 1 .. n /\ j \in 1 .. n
      BY <1>1, <2>5
    <3> QED
      BY <1>1, <2>2, <2>3, <3>1
  <2> QED
    BY <2>4, <2>5
<1>5. \A u \in admins : \E j \in 1 .. n :
        /\ audit[j].user = u /\ audit[j].action = "GRANT"
        /\ \A k \in j + 1 .. n : audit[k].user # u
  BY DEF TrailInv, TrailTells, n
<1>6. TrailTells'
  <2>1. SUFFICES ASSUME NEW u \in admins'
                 PROVE  \E j \in 1 .. n + 1 :
                          /\ audit'[j].user = u /\ audit'[j].action = "GRANT"
                          /\ \A k \in j + 1 .. n + 1 : audit'[k].user # u
    BY <1>1 DEF TrailTells
  <2>2. CASE u = e.user /\ e.action = "GRANT"
    <3>1. \A k \in (n + 1) + 1 .. n + 1 : FALSE
      BY <1>1
    <3>2. n + 1 \in 1 .. n + 1
      BY <1>1
    <3> QED
      BY <1>1, <2>2, <3>1, <3>2
  <2>3. CASE u # e.user /\ u \in admins
    <3>1. PICK j \in 1 .. n : /\ audit[j].user = u /\ audit[j].action = "GRANT"
                              /\ \A k \in j + 1 .. n : audit[k].user # u
      BY <1>5, <2>3
    <3>2. \A k \in j + 1 .. n + 1 : k = n + 1 \/ k \in j + 1 .. n
      BY <1>1
    <3>3. \A k \in j + 1 .. n : k \in 1 .. n
      BY <1>1
    <3>4. \A k \in j + 1 .. n + 1 : audit'[k].user # u
      BY <1>1, <2>3, <3>1, <3>2, <3>3
    <3>5. j \in 1 .. n + 1
      BY <1>1
    <3> QED
      BY <1>1, <3>1, <3>4, <3>5
  <2> QED
    BY <2>2, <2>3
<1>7. AuthorsWereAdmins'
  <2>1. SUFFICES ASSUME NEW i \in 1 .. n + 1, audit'[i].operator # Nobody
                 PROVE  \E j \in 1 .. i - 1 :
                          /\ audit'[j].user = audit'[i].operator
                          /\ audit'[j].action = "GRANT"
                          /\ \A k \in j + 1 .. i - 1 : audit'[k].user # audit'[i].operator
    BY <1>1 DEF AuthorsWereAdmins
  <2>2. \A j \in 1 .. i - 1 : j \in 1 .. n /\ \A k \in j + 1 .. i - 1 : k \in 1 .. n
    BY <1>1
  <2>3. CASE i = n + 1
    <3>1. e.operator \in admins /\ i - 1 = n /\ audit'[i] = e
      BY <1>1, <2>1, <2>3
    <3>2. PICK j \in 1 .. n : /\ audit[j].user = e.operator /\ audit[j].action = "GRANT"
                              /\ \A k \in j + 1 .. n : audit[k].user # e.operator
      BY <1>5, <3>1
    <3> QED
      BY <1>1, <2>2, <3>1, <3>2
  <2>4. CASE i # n + 1
    <3>1. i \in 1 .. n
      BY <1>1, <2>4
    <3>2. PICK j \in 1 .. i - 1 :
            /\ audit[j].user = audit[i].operator /\ audit[j].action = "GRANT"
            /\ \A k \in j + 1 .. i - 1 : audit[k].user # audit[i].operator
      BY <1>1, <2>1, <3>1 DEF TrailInv, AuthorsWereAdmins, n
    <3> QED
      BY <1>1, <2>2, <3>1, <3>2
  <2> QED
    BY <2>3, <2>4
<1> QED
  BY <1>3, <1>4, <1>6, <1>7 DEF TrailInv

(* RoleInv holds initially and every step preserves it.                      *)
THEOREM RoleInitInv == RoleInit => RoleInv
<1> SUFFICES ASSUME RoleInit PROVE RoleInv
  OBVIOUS
<1>1. RoleTypeOK
  BY DEF RoleInit, RoleTypeOK
<1>2. UnderLock /\ AdminsActive /\ ReadsStand
  BY DEF RoleInit, UnderLock, AdminsActive, ReadsStand, NoChange
<1>3. TrailInv
  BY DEF RoleInit, TrailInv, TrailStarts, TrailTells, OneBootstrap, AuthorsWereAdmins
<1> QED
  BY <1>1, <1>2, <1>3 DEF RoleInv

(* Every step of a transaction, a registration and a verification keeps the  *)
(* invariant: what was read under the lock still holds at the commit.        *)
THEOREM RoleStepInv == RoleInv /\ [RoleNext]_roleVars => RoleInv'
<1> SUFFICES ASSUME RoleInv, [RoleNext]_roleVars PROVE RoleInv'
  OBVIOUS
<1> USE RoleAssumption
<1>0. RoleTypeOK
  BY DEF RoleInv
<1>t. change \in [Operators -> {NoChange} \cup InProgress]
  BY <1>0 DEF RoleTypeOK, InProgress
<1>1. ASSUME NEW o \in Operators, NEW c \in Changes, Request(o, c)
      PROVE  RoleInv'
  <2>1. InChange(c, "waiting") \in InProgress
    BY DEF InProgress, ChangeSteps
  <2>2. RoleTypeOK'
    BY <1>0, <1>1, <1>t, <2>1 DEF RoleTypeOK, Request, InProgress
  <2>3. InChange(c, "waiting").pc = "waiting"
    BY DEF InChange
  <2>4. UnderLock' /\ ReadsStand'
    BY <1>1, <1>t, <2>3, ReadsSame DEF RoleInv, UnderLock, Request
  <2> QED
    BY <1>1, <2>2, <2>4, TrailSame DEF RoleInv, Request, AdminsActive
<1>2. ASSUME NEW o \in Operators, LockChanges(o)
      PROVE  RoleInv'
  <2>1. change[o] \in InProgress
    BY <1>0, <1>2, OperatorAtWork DEF LockChanges
  <2>2. [change[o] EXCEPT !.pc = "locked"] \in InProgress
    BY <2>1, InProgressFields DEF ChangeSteps
  <2>3. RoleTypeOK'
    BY <1>0, <1>2, <1>t, <2>2 DEF RoleTypeOK, LockChanges, InProgress
  <2>4. \A p \in Operators : change[p].pc \notin {"locked", "decided"}
    BY <1>2 DEF RoleInv, UnderLock, LockChanges
  <2>5. [change[o] EXCEPT !.pc = "locked"].pc = "locked"
    BY <2>1 DEF InProgress, InChange
  <2>6. UnderLock' /\ ReadsStand'
    BY <1>2, <1>t, <2>4, <2>5 DEF UnderLock, ReadsStand, LockChanges
  <2> QED
    BY <1>2, <2>3, <2>6, TrailSame DEF RoleInv, LockChanges, AdminsActive
<1>3. ASSUME NEW o \in Operators, Decide(o)
      PROVE  RoleInv'
  <2>1. change[o] \in InProgress
    BY <1>0, <1>3, OperatorAtWork DEF Decide
  <2>2. CASE ~Due(change[o])
    <3>1. EndChange(o) /\ UNCHANGED <<account, admins, audit>>
      BY <1>3, <2>2 DEF Decide
    <3>2. RoleTypeOK'
      BY <1>0, <3>1, EndChangeType DEF RoleTypeOK, InProgress
    <3>3. UnderLock' /\ ReadsStand'
      BY <1>t, <3>1, ReadsSame DEF RoleInv, UnderLock, EndChange, NoChange
    <3> QED
      BY <3>1, <3>2, <3>3, TrailSame DEF RoleInv, AdminsActive
  <2>3. CASE Due(change[o])
    <3>1. /\ change' = [change EXCEPT ![o].pc = "decided"]
          /\ UNCHANGED <<account, admins, audit, changesHeldBy>>
      BY <1>3, <2>3 DEF Decide
    <3>2. [change[o] EXCEPT !.pc = "decided"] \in InProgress
      BY <2>1, InProgressFields DEF ChangeSteps
    <3>3. RoleTypeOK'
      BY <1>0, <1>t, <3>1, <3>2 DEF RoleTypeOK, InProgress
    <3>4. /\ [change[o] EXCEPT !.pc = "decided"].op = change[o].op
          /\ [change[o] EXCEPT !.pc = "decided"].target = change[o].target
          /\ [change[o] EXCEPT !.pc = "decided"].actor = change[o].actor
      BY <2>1 DEF InProgress, InChange
    <3>5. UnderLock'
      BY <1>3, <1>t, <3>1 DEF RoleInv, UnderLock, Decide
    <3>6. ASSUME change[o].op = "grant"
          PROVE  /\ Permitted(change[o])
                 /\ account[change[o].target] = "active" /\ change[o].target \notin admins
      BY <2>3, <3>6 DEF Due, GrantDue
    <3>7. ASSUME change[o].op = "revoke"
          PROVE  /\ Permitted(change[o])
                 /\ change[o].target \in admins /\ \E u \in admins : u # change[o].target
      <4>1. RevokeDue(change[o])
        BY <2>3, <3>7 DEF Due
      <4>2. change[o].target \in ActiveAdmins
        BY <4>1 DEF RevokeDue, RoleInv, AdminsActive, ActiveAdmins
      <4> QED
        BY <1>0, <4>1, <4>2, AnotherAdmin DEF RevokeDue, ActiveAdmins
    <3>8. change[o].op = "bootstrap" => admins = {} /\ change[o].actor = Nobody
      BY <2>1, <2>3, InProgressFields DEF Due, BootstrapDue
    <3>9. change[o].op \in {"grant", "revoke", "bootstrap"}
      BY <2>1, InProgressFields
    <3>10. ReadsStand'
      <4>1. \A p \in Operators : change'[p].pc = "decided" =>
              /\ p = o \/ change[p].pc = "decided"
              /\ change'[p].op = change[p].op /\ change'[p].target = change[p].target
              /\ change'[p].actor = change[p].actor
        BY <1>t, <3>1, <3>4
      <4>2. \A p \in Operators : change'[p].pc = "decided" =>
              (Permitted(change[p]) <=> Permitted(change[p])')
        BY <3>1, <4>1 DEF Permitted, ActiveAdmins
      <4> QED
        BY <3>1, <3>6, <3>7, <3>8, <3>9, <4>1, <4>2 DEF RoleInv, ReadsStand
    <3> QED
      BY <3>1, <3>3, <3>5, <3>10, TrailSame DEF RoleInv, AdminsActive
  <2> QED
    BY <2>2, <2>3
<1>4. ASSUME NEW o \in Operators, CommitChange(o)
      PROVE  RoleInv'
  <2> DEFINE c == change[o]
  <2>1. c \in InProgress
    BY <1>0, <1>4, OperatorAtWork DEF CommitChange
  <2>2. /\ c.target \in Users /\ c.op \in {"grant", "revoke", "bootstrap"}
        /\ c.actor \in Users \cup {Nobody}
    BY <2>1, InProgressFields
  <2>3. EndChange(o)
    BY <1>4 DEF CommitChange
  <2>4. \A p \in Operators : p # o => change[p].pc \notin {"locked", "decided"}
    BY <1>4 DEF RoleInv, UnderLock, CommitChange
  <2>5. UnderLock' /\ ReadsStand'
    BY <1>t, <2>3, <2>4 DEF UnderLock, ReadsStand, EndChange, NoChange
  <2>6. PICK e \in AuditEntries :
           /\ audit' = Append(audit, e)
           /\ e.by = c.op /\ e.user = c.target /\ e.operator = c.actor
           /\ e.action = "GRANT" <=> c.op # "revoke"
    BY <1>4, <2>2 DEF CommitChange, Entry, AuditEntries
  <2>7. /\ account' \in [Users -> {"none", "pending", "active"}]
        /\ admins' \subseteq Users /\ admins' # {}
        /\ \A u \in admins' : account'[u] = "active"
    <3>1. CASE c.op = "grant"
      <4>1. account' = account /\ admins' = admins \cup {c.target}
        BY <1>4, <3>1 DEF CommitChange
      <4>2. account[c.target] = "active"
        BY <1>4, <3>1 DEF CommitChange, RoleInv, ReadsStand
      <4> QED
        BY <1>0, <2>2, <4>1, <4>2 DEF RoleInv, RoleTypeOK, AdminsActive
    <3>2. CASE c.op = "revoke"
      BY <1>0, <1>4, <2>2, <3>2
      DEF CommitChange, RoleInv, RoleTypeOK, AdminsActive, ReadsStand
    <3>3. CASE c.op = "bootstrap"
      BY <1>0, <1>4, <2>2, <3>3
      DEF CommitChange, RoleInv, RoleTypeOK, AdminsActive, ReadsStand
    <3> QED
      BY <2>2, <3>1, <3>2, <3>3
  <2>8. audit' \in Seq(AuditEntries)
    BY <1>0, <2>6 DEF RoleTypeOK
  <2>9. RoleTypeOK'
    BY <1>0, <2>3, <2>7, <2>8, EndChangeType DEF RoleTypeOK, InProgress
  <2>10. TrailInv'
    <3>1. e.by = "bootstrap" => audit = << >>
      BY <1>4, <2>6 DEF RoleInv, ReadsStand, CommitChange, TrailInv, TrailStarts
    <3>2. e.operator # Nobody => e.operator \in admins
      BY <1>4, <2>6 DEF RoleInv, ReadsStand, CommitChange, Permitted, ActiveAdmins
    <3>3. \A u \in admins' :
            (u = e.user /\ e.action = "GRANT") \/ (u # e.user /\ u \in admins)
      BY <1>4, <2>6 DEF RoleInv, ReadsStand, CommitChange
    <3> QED
      BY <1>0, <2>6, <2>7, <3>1, <3>2, <3>3, TrailGrows DEF RoleInv, RoleTypeOK
  <2> QED
    BY <2>5, <2>7, <2>9, <2>10 DEF RoleInv, AdminsActive
<1>5. ASSUME NEW o \in Operators, RollBack(o)
      PROVE  RoleInv'
  <2>1. RoleTypeOK'
    BY <1>0, <1>5, EndChangeType DEF RoleTypeOK, RollBack, InProgress
  <2>2. UnderLock' /\ ReadsStand'
    BY <1>5, <1>t, ReadsSame DEF RoleInv, UnderLock, RollBack, EndChange, NoChange
  <2> QED
    BY <1>5, <2>1, <2>2, TrailSame DEF RoleInv, RollBack, AdminsActive
<1>6. ASSUME NEW u \in Users, Register(u) \/ VerifyAccount(u)
      PROVE  RoleInv'
  <2>1. RoleTypeOK'
    BY <1>0, <1>6 DEF RoleTypeOK, Register, VerifyAccount
  <2>2. \A v \in Users : account[v] = "active" => account'[v] = "active"
    BY <1>0, <1>6 DEF RoleTypeOK, Register, VerifyAccount
  <2>3. AdminsActive'
    BY <1>0, <1>6, <2>2 DEF RoleInv, RoleTypeOK, AdminsActive, Register, VerifyAccount
  <2>4. ReadsStand'
    <3>1. \A o \in Operators : change[o].pc = "decided" => change[o].target \in Users
      BY <1>0, OperatorAtWork, InProgressFields
    <3>2. UNCHANGED <<admins, change>>
      BY <1>6 DEF Register, VerifyAccount
    <3>3. ActiveAdmins \subseteq ActiveAdmins'
      BY <1>0, <2>2, <3>2 DEF ActiveAdmins, RoleTypeOK
    <3>4. \A o \in Operators : Permitted(change[o]) => Permitted(change[o])'
      BY <3>2, <3>3 DEF Permitted
    <3> QED
      BY <2>2, <3>1, <3>2, <3>4 DEF RoleInv, ReadsStand
  <2> QED
    BY <1>6, <2>1, <2>3, <2>4, TrailSame DEF RoleInv, Register, VerifyAccount, UnderLock
<1>7. ASSUME UNCHANGED roleVars
      PROVE  RoleInv'
  BY <1>7, TrailSame
  DEF roleVars, RoleInv, RoleTypeOK, UnderLock, AdminsActive, ReadsStand, Permitted,
      ActiveAdmins
<1> QED
  BY <1>1, <1>2, <1>3, <1>4, <1>5, <1>6, <1>7 DEF RoleNext

(* The invariant of role administration holds in every reachable state, for  *)
(* any number of accounts and concurrent transactions.                       *)
THEOREM RoleInvAlways == RoleSpec => []RoleInv
BY RoleInitInv, RoleStepInv, PTL DEF RoleSpec

(* The variables of the role tables have their types, whatever changes are   *)
(* requested of RoleAdminService.                                            *)
THEOREM RoleTypeAlways == RoleSpec => []RoleTypeOK
<1>1. RoleInv => RoleTypeOK
  BY DEF RoleInv
<1> QED
  BY <1>1, RoleInvAlways, PTL

(* FirstAdminBootstrapService makes a first administrator once, whatever     *)
(* bootstraps and role changes run at the same time.                         *)
THEOREM OneBootstrapAlways == RoleSpec => []OneBootstrap
<1>1. RoleInv => OneBootstrap
  BY DEF RoleInv, TrailInv
<1> QED
  BY <1>1, RoleInvAlways, PTL

(* No step of RoleAdminService, of the bootstrap or of a registration takes  *)
(* away the last administrator who can sign in.                              *)
THEOREM LastAdminAlways == RoleSpec => LastAdminStands
<1>1. RoleInv /\ [RoleNext]_roleVars => (admins # {} => admins' # {})
  <2> SUFFICES ASSUME RoleInv, [RoleNext]_roleVars, admins # {}
               PROVE  admins' # {}
    OBVIOUS
  <2>1. CASE \E o \in Operators : CommitChange(o)
    <3>1. PICK o \in Operators : CommitChange(o)
      BY <2>1
    <3> QED
      BY <3>1 DEF CommitChange, RoleInv, ReadsStand
  <2>2. CASE ~ \E o \in Operators : CommitChange(o)
    BY <2>2
    DEF RoleNext, roleVars, Request, LockChanges, Decide, RollBack, Register, VerifyAccount
  <2> QED
    BY <2>1, <2>2
<1>2. RoleInv => ActiveAdmins = admins
  BY DEF RoleInv, AdminsActive, ActiveAdmins
<1>3. RoleInv' => ActiveAdmins' = admins'
  BY DEF RoleInv, AdminsActive, ActiveAdmins
<1>4. RoleInv /\ RoleInv' /\ [RoleNext]_roleVars =>
        [ActiveAdmins # {} => ActiveAdmins' # {}]_roleVars
  BY <1>1, <1>2, <1>3
<1> QED
  BY <1>4, RoleInvAlways, PTL DEF RoleSpec, LastAdminStands

(* The audit trail of RoleAdminService justifies each of its entries.        *)
THEOREM AuthorsAlwaysWereAdmins == RoleSpec => []AuthorsWereAdmins
<1>1. RoleInv => AuthorsWereAdmins
  BY DEF RoleInv, TrailInv
<1> QED
  BY <1>1, RoleInvAlways, PTL

(* Transactions of RoleAdminService and of the bootstrap, interleaved with   *)
(* each other and with registrations, change the tables as AtomicRoles does: *)
(* what a commit writes is still due when it is written.                     *)
THEOREM RolesAreAtomic == RoleSpec => ImplementsAtomicRoles
<1>1. RoleInit => Atomic!Init
  BY DEF RoleInit, Atomic!Init
<1>2. RoleInv /\ [RoleNext]_roleVars => [Atomic!Next]_(Atomic!vars)
  <2> SUFFICES ASSUME RoleInv, [RoleNext]_roleVars
               PROVE  Atomic!Next \/ UNCHANGED Atomic!vars
    OBVIOUS
  <2>1. CASE \E o \in Operators : CommitChange(o)
    <3>1. PICK o \in Operators : CommitChange(o)
      BY <2>1
    <3> DEFINE c == change[o]
    <3>2. c \in InProgress
      BY <3>1, OperatorAtWork DEF CommitChange, RoleInv
    <3>3. c.target \in Users /\ c.actor \in Users \cup {Nobody}
      BY <3>2, InProgressFields
    <3>4. c.op # "bootstrap" => Atomic!MayChange(c.actor, c.target)
      BY <3>1 DEF RoleInv, ReadsStand, CommitChange, Permitted, ActiveAdmins,
                  Atomic!MayChange, Atomic!Administrator
    <3>5. CASE c.op = "grant"
      <4>1. Atomic!Grant(c.target, c.actor)
        BY <3>1, <3>4, <3>5
        DEF RoleInv, ReadsStand, CommitChange, Entry, Atomic!Grant, Atomic!Written
      <4> QED
        BY <3>3, <4>1 DEF Atomic!Next
    <3>6. CASE c.op = "revoke"
      <4>1. \E v \in Users \ {c.target} : Atomic!Administrator(v)
        BY <3>1, <3>6
        DEF RoleInv, RoleTypeOK, ReadsStand, CommitChange, AdminsActive, Atomic!Administrator
      <4>2. Atomic!Revoke(c.target, c.actor)
        BY <3>1, <3>4, <3>6, <4>1
        DEF RoleInv, ReadsStand, CommitChange, Entry, Atomic!Revoke, Atomic!Written
      <4> QED
        BY <3>3, <4>2 DEF Atomic!Next
    <3>7. CASE c.op = "bootstrap"
      <4>1. Atomic!Bootstrap(c.target)
        BY <3>1, <3>7
        DEF RoleInv, ReadsStand, TrailInv, TrailStarts, CommitChange, Entry,
            Atomic!Bootstrap, Atomic!Written
      <4> QED
        BY <3>3, <4>1 DEF Atomic!Next
    <3> QED
      BY <3>1, <3>5, <3>6, <3>7 DEF CommitChange
  <2>2. CASE \E u \in Users : Register(u) \/ VerifyAccount(u)
    BY <2>2 DEF Register, VerifyAccount, Atomic!Advance, Atomic!Next
  <2>3. CASE \/ \E o \in Operators : \/ \E c \in Changes : Request(o, c)
                                     \/ LockChanges(o) \/ Decide(o) \/ RollBack(o)
             \/ UNCHANGED roleVars
    BY <2>3 DEF Request, LockChanges, Decide, RollBack, roleVars, Atomic!vars
  <2> QED
    BY <2>1, <2>2, <2>3 DEF RoleNext
<1> QED
  BY <1>1, <1>2, RoleInvAlways, PTL DEF RoleSpec, ImplementsAtomicRoles, Atomic!Spec

=============================================================================
