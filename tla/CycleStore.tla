----------------------------- MODULE CycleStore -----------------------------
(***************************************************************************)
(* The durable half of Opportunity Radar: the tables                       *)
(* global_opportunity_cycle_run and global_opportunity_cycle_active, and   *)
(* the two projections a cycle publishes (the radar selection and the      *)
(* suggestion lifecycle).  One action per statement or transaction of      *)
(* CycleRunPersistenceMixin (app/cycle_checkpoint.py) and of the two       *)
(* publishing transactions of app/opportunity_persistence.py.  Each of     *)
(* them is one database transaction, so it is one step, and any owner may  *)
(* issue any of them at any time: who calls what, and when, is the         *)
(* business of CycleWorker.                                                *)
(*                                                                         *)
(* Time.  A lease is the number of ticks it still has: lease[c] > 0 is the *)
(* SQL test lease_expires_at > clock, and 0 stands both for an expired     *)
(* lease and for a NULL one.  The database clock runs by Tick.             *)
(***************************************************************************)
EXTENDS Naturals

CONSTANTS
  Cycles,        \* cycle ids; each names at most one run row, ever
  Owners,        \* owner ids; every worker process draws a fresh one
  Markets,       \* namespaces of the active slot ('NSE', 'ETF')
  MarketOf,      \* the market each cycle is created for
  LeaseSeconds,  \* ticks of a freshly granted lease
  NoCycle,       \* no row in the active slot
  NoOwner        \* owner_id IS NULL

ASSUME StoreAssumption ==
  /\ MarketOf \in [Cycles -> Markets]
  /\ LeaseSeconds \in Nat \ {0}
  /\ NoCycle \notin Cycles
  /\ NoOwner \notin Owners

VARIABLES
  status,       \* status column; "ABSENT" while the row does not exist
  owner,        \* owner_id column
  lease,        \* ticks left before lease_expires_at
  asOf,         \* as_of column, named by the owner that stamped it
  slot,         \* global_opportunity_cycle_active, keyed by market
  radar,        \* cycles with a published selection
  suggested     \* cycles whose suggestion lifecycle was projected

vars == <<status, owner, lease, asOf, slot, radar, suggested>>

Active == {"ACCEPTED", "RUNNING", "PUBLISHED", "CANCEL_REQUESTED"}
Terminal == {"COMPLETED", "FAILED", "CANCELLED"}
Statuses == {"ABSENT"} \cup Active \cup Terminal

Init ==
  /\ status = [c \in Cycles |-> "ABSENT"]
  /\ owner = [c \in Cycles |-> NoOwner]
  /\ lease = [c \in Cycles |-> 0]
  /\ asOf = [c \in Cycles |-> NoOwner]
  /\ slot = [m \in Markets |-> NoCycle]
  /\ radar = {}
  /\ suggested = {}

----------------------------------------------------------------------------
(* The guards the statements share. *)

\* "owner_id = ? AND lease_expires_at > clock"
OwnsLive(c, o) == owner[c] = o /\ lease[c] > 0

\* Faulty form of Unheld: a lease counts as expired one tick too early.
UnheldEarly(c) == owner[c] = NoOwner \/ lease[c] <= 1

\* "owner_id IS NULL OR lease_expires_at IS NULL OR lease_expires_at <= clock"
Unheld(c) == owner[c] = NoOwner \/ lease[c] = 0

\* Faulty form of Sources: a published run may still fail.
SourcesFailPublished(new) ==
  CASE new = "COMPLETED" -> {"RUNNING", "PUBLISHED"}
    [] new = "CANCELLED" -> {"ACCEPTED", "RUNNING", "CANCEL_REQUESTED"}
    [] OTHER             -> {"ACCEPTED", "RUNNING", "PUBLISHED"}

\* The statuses from which update_cycle_run may move to a given status.
Sources(new) ==
  CASE new = "COMPLETED" -> {"RUNNING", "PUBLISHED"}
    [] new = "CANCELLED" -> {"ACCEPTED", "RUNNING", "CANCEL_REQUESTED"}
    [] OTHER             -> {"ACCEPTED", "RUNNING"}

\* Faulty form of Finish: owner and lease stay on the ended run.
FinishKeepsLease(c, new) ==
  /\ status' = [status EXCEPT ![c] = new]
  /\ slot' = [m \in Markets |-> IF slot[m] = c THEN NoCycle ELSE slot[m]]
  /\ UNCHANGED <<owner, lease, asOf, radar, suggested>>

\* The end of a run, as every terminal transition writes it: the status,
\* owner_id and lease NULL, and the active slot deleted.
Finish(c, new) ==
  /\ status' = [status EXCEPT ![c] = new]
  /\ owner' = [owner EXCEPT ![c] = NoOwner]
  /\ lease' = [lease EXCEPT ![c] = 0]
  /\ slot' = [m \in Markets |-> IF slot[m] = c THEN NoCycle ELSE slot[m]]
  /\ UNCHANGED <<asOf, radar, suggested>>

----------------------------------------------------------------------------
(* One action per statement or transaction. *)

\* Faulty form of CreateCycleRun: no uniqueness of the market in the slot table.
CreateOverActive(c) ==
  /\ status[c] = "ABSENT"
  /\ status' = [status EXCEPT ![c] = "ACCEPTED"]
  /\ slot' = [slot EXCEPT ![MarketOf[c]] = c]
  /\ UNCHANGED <<owner, lease, asOf, radar, suggested>>

\* The inserting transaction of create_cycle_run.  PRIMARY KEY(market) makes
\* the second of two concurrent creators fail as a whole, which changes
\* nothing; the caller then reads the winner's row.
CreateCycleRun(c) ==
  /\ status[c] = "ABSENT"
  /\ slot[MarketOf[c]] = NoCycle
  /\ status' = [status EXCEPT ![c] = "ACCEPTED"]
  /\ slot' = [slot EXCEPT ![MarketOf[c]] = c]
  /\ UNCHANGED <<owner, lease, asOf, radar, suggested>>

\* Faulty form of ClaimCycleRun: the WHERE clause forgets the lease.
ClaimAnyActive(c, o) ==
  /\ status[c] \in Active
  /\ status' = [status EXCEPT ![c] = IF @ = "ACCEPTED" THEN "RUNNING" ELSE @]
  /\ owner' = [owner EXCEPT ![c] = o]
  /\ lease' = [lease EXCEPT ![c] = LeaseSeconds]
  /\ UNCHANGED <<asOf, slot, radar, suggested>>

\* Take, or keep, the lease when it is free, ours or expired.
ClaimCycleRun(c, o) ==
  /\ status[c] \in Active
  /\ Unheld(c) \/ owner[c] = o
  /\ status' = [status EXCEPT ![c] = IF @ = "ACCEPTED" THEN "RUNNING" ELSE @]
  /\ owner' = [owner EXCEPT ![c] = o]
  /\ lease' = [lease EXCEPT ![c] = LeaseSeconds]
  /\ UNCHANGED <<asOf, slot, radar, suggested>>

\* The heartbeat's renewal; a lapsed lease cannot be renewed.
RenewCycleLease(c, o) ==
  /\ OwnsLive(c, o)
  /\ status[c] \in Active
  /\ lease' = [lease EXCEPT ![c] = LeaseSeconds]
  /\ UNCHANGED <<status, owner, asOf, slot, radar, suggested>>

\* Give the lease up and leave the run resumable.
ReleaseCycleRun(c, o) ==
  /\ OwnsLive(c, o)
  /\ status[c] \in Active
  /\ owner' = [owner EXCEPT ![c] = NoOwner]
  /\ lease' = [lease EXCEPT ![c] = 0]
  /\ UNCHANGED <<status, asOf, slot, radar, suggested>>

\* update_cycle_run(status=new): fenced on the lease and on the old status.
UpdateStatus(c, o, new) ==
  /\ OwnsLive(c, o)
  /\ status[c] \in Sources(new)
  /\ Finish(c, new)

\* update_cycle_run(as_of=...): the instant the cycle is evaluated at.
StampAsOf(c, o) ==
  /\ OwnsLive(c, o)
  /\ status[c] \in {"ACCEPTED", "RUNNING"}
  /\ asOf' = [asOf EXCEPT ![c] = o]
  /\ UNCHANGED <<status, owner, lease, slot, radar, suggested>>

\* fail_unowned_cycle_run: no owner needed, but none may hold the lease.
FailUnowned(c) ==
  /\ status[c] \in {"ACCEPTED", "RUNNING"}
  /\ Unheld(c)
  /\ Finish(c, "FAILED")

\* Faulty forms of RequestCancel: it frees the slot at once, or it accepts a
\* published run.
RequestCancelFreesSlot(c) ==
  /\ status[c] \in {"ACCEPTED", "RUNNING"}
  /\ status' = [status EXCEPT ![c] = "CANCEL_REQUESTED"]
  /\ slot' = [m \in Markets |-> IF slot[m] = c THEN NoCycle ELSE slot[m]]
  /\ UNCHANGED <<owner, lease, asOf, radar, suggested>>

RequestCancelPublished(c) ==
  /\ status[c] \in {"ACCEPTED", "RUNNING", "PUBLISHED"}
  /\ status' = [status EXCEPT ![c] = "CANCEL_REQUESTED"]
  /\ UNCHANGED <<owner, lease, asOf, slot, radar, suggested>>

\* request_cycle_cancel: phase one of a cancellation keeps owner, lease and
\* slot.
RequestCancel(c) ==
  /\ status[c] \in {"ACCEPTED", "RUNNING"}
  /\ status' = [status EXCEPT ![c] = "CANCEL_REQUESTED"]
  /\ UNCHANGED <<owner, lease, asOf, slot, radar, suggested>>

\* cancel_cycle_run: phase two, by the lease holder.
CancelCycleRun(c, o) ==
  /\ OwnsLive(c, o)
  /\ status[c] \in {"CANCEL_REQUESTED", "RUNNING", "ACCEPTED"}
  /\ Finish(c, "CANCELLED")

\* Faulty form of CancelUnowned: it writes a status that no other statement
\* knows.
CancelUnownedMisspelt(c) ==
  /\ status[c] = "CANCEL_REQUESTED"
  /\ Unheld(c)
  /\ Finish(c, "CANCELED")

\* cancel_cycle_run_unowned: phase two, by an operator.
CancelUnowned(c) ==
  /\ status[c] = "CANCEL_REQUESTED"
  /\ Unheld(c)
  /\ Finish(c, "CANCELLED")

\* Faulty form of PublishCycle: the fence lets a cancelled run through.
PublishCancelled(c, o) ==
  /\ OwnsLive(c, o)
  /\ status[c] \in {"RUNNING", "CANCEL_REQUESTED"}
  /\ status' = [status EXCEPT ![c] = "PUBLISHED"]
  /\ radar' = radar \cup {c}
  /\ UNCHANGED <<owner, lease, asOf, slot, suggested>>

\* publish_opportunity_cycle with its fence: the flip to PUBLISHED and the
\* radar selection commit together, and the fence is tested again before the
\* commit.
PublishCycle(c, o) ==
  /\ OwnsLive(c, o)
  /\ status[c] = "RUNNING"
  /\ status' = [status EXCEPT ![c] = "PUBLISHED"]
  /\ radar' = radar \cup {c}
  /\ UNCHANGED <<owner, lease, asOf, slot, suggested>>

\* persist_global_suggestion_lifecycle with its fence; INSERT OR IGNORE and
\* the fingerprints make it idempotent.
PersistSuggestions(c, o) ==
  /\ OwnsLive(c, o)
  /\ status[c] = "PUBLISHED"
  /\ suggested' = suggested \cup {c}
  /\ UNCHANGED <<status, owner, lease, asOf, slot, radar>>

\* The database clock moves towards the expiry of c's lease.
Tick(c) ==
  /\ lease[c] > 0
  /\ lease' = [lease EXCEPT ![c] = @ - 1]
  /\ UNCHANGED <<status, owner, asOf, slot, radar, suggested>>

OwnerStep(c, o) ==
  \/ ClaimCycleRun(c, o)
  \/ RenewCycleLease(c, o)
  \/ ReleaseCycleRun(c, o)
  \/ \E new \in Terminal : UpdateStatus(c, o, new)
  \/ StampAsOf(c, o)
  \/ CancelCycleRun(c, o)
  \/ PublishCycle(c, o)
  \/ PersistSuggestions(c, o)

AnyoneStep(c) ==
  \/ CreateCycleRun(c)
  \/ FailUnowned(c)
  \/ RequestCancel(c)
  \/ CancelUnowned(c)
  \/ Tick(c)

Next == \E c \in Cycles : AnyoneStep(c) \/ \E o \in Owners : OwnerStep(c, o)

Spec == Init /\ [][Next]_vars

----------------------------------------------------------------------------
(* What the tables promise to a reader who knows nothing of owners, leases
   and slots: CycleLifecycle, with ACCEPTED and RUNNING both "OPEN". *)

Phase == [c \in Cycles |->
  CASE status[c] = "ABSENT"                   -> "NEW"
    [] status[c] \in {"ACCEPTED", "RUNNING"} -> "OPEN"
    [] OTHER                                  -> status[c]]

Lifecycle == INSTANCE CycleLifecycle WITH
  phase <- Phase, shown <- radar, projected <- suggested

\* The store implements the abstract lifecycle: every statement is one of its
\* steps or changes nothing a reader of the lifecycle sees.
ImplementsLifecycle == Lifecycle!Spec

----------------------------------------------------------------------------
(* Properties. *)

\* Every column keeps its type (the schema of cycle_checkpoint.py).
TypeOK ==
  /\ status \in [Cycles -> Statuses]
  /\ owner \in [Cycles -> Owners \cup {NoOwner}]
  /\ lease \in [Cycles -> 0..LeaseSeconds]
  /\ asOf \in [Cycles -> Owners \cup {NoOwner}]
  /\ slot \in [Markets -> Cycles \cup {NoCycle}]
  /\ radar \in SUBSET Cycles
  /\ suggested \in SUBSET Cycles

\* The slot of a market and the run rows agree in both directions: a run that
\* can still be resumed occupies its market's slot, so a second one cannot be
\* admitted (create_cycle_run), and a finished run never keeps the slot, so
\* the market is never blocked by a run nobody will resume.
SlotConsistent ==
  \A c \in Cycles : \A m \in Markets :
    slot[m] = c <=> (status[c] \in Active /\ MarketOf[c] = m)

\* At most one run per market can be resumed (create_cycle_run's promise to
\* concurrent replicas).
OneActivePerMarket ==
  \A c, d \in Cycles :
    (status[c] \in Active /\ status[d] \in Active /\ MarketOf[c] = MarketOf[d])
      => c = d

\* A lease is only ever held by somebody, on a run that has left ACCEPTED and
\* has not ended: no terminal transition leaves a lease that a zombie could
\* still write under.
LeaseHeldByOwner ==
  \A c \in Cycles :
    /\ lease[c] > 0 => owner[c] # NoOwner
    /\ owner[c] # NoOwner => status[c] \in Active \ {"ACCEPTED"}

\* What users can see is never withdrawn: a cycle whose selection is in the
\* radar is published or completed, never cancelled or failed, whatever the
\* order of cancel requests, publication, expiry and takeover; and
\* suggestions exist only for a published cycle.
PublishedStands ==
  /\ \A c \in radar : status[c] \in {"PUBLISHED", "COMPLETED"}
  /\ \A c \in Cycles : status[c] = "PUBLISHED" => c \in radar
  /\ suggested \subseteq radar

\* A run that ended stays exactly as it ended, and a run whose cancellation was
\* requested can only end cancelled: no claim, late write or takeover brings
\* it back.
EndIsFinal ==
  [][\A c \in Cycles :
       /\ status[c] \in Terminal =>
            /\ status'[c] = status[c]
            /\ owner'[c] = owner[c]
            /\ asOf'[c] = asOf[c]
            /\ c \in radar' <=> c \in radar
            /\ c \in suggested' <=> c \in suggested
       /\ status[c] = "CANCEL_REQUESTED" =>
            status'[c] \in {"CANCEL_REQUESTED", "CANCELLED"}]_vars

\* A live lease is not taken from its holder: while it has ticks left, the
\* owner changes only to nobody, and only by a step that releases the run or
\* ends it (claim_cycle_run's WHERE clause).
LiveLeaseIsExclusive ==
  [][\A c \in Cycles :
       lease[c] > 0 /\ owner'[c] # owner[c] =>
         owner'[c] = NoOwner /\ lease'[c] = 0]_vars

=============================================================================
