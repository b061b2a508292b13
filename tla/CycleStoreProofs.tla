-------------------------- MODULE CycleStoreProofs --------------------------
(***************************************************************************)
(* Proofs about CycleStore, for any number of cycles, owners and markets   *)
(* and any lease length.                                                   *)
(*                                                                         *)
(* The argument.  TypeOK is inductive alone.  SlotConsistent and           *)
(* LeaseHeldByOwner are inductive over it; PublishedStands is too, because *)
(* PublishCycle is the only step that enters PUBLISHED or extends radar,   *)
(* it does both, and the only way out of PUBLISHED is UpdateStatus to      *)
(* COMPLETED.  OneActivePerMarket follows from SlotConsistent: two active  *)
(* runs of a market would both be the value of one slot.                   *)
(***************************************************************************)
EXTENDS CycleStore, TLAPS

\* The inductive invariant.
StoreInv ==
  /\ TypeOK
  /\ SlotConsistent
  /\ LeaseHeldByOwner
  /\ PublishedStands

\* Ending a run keeps the types.
LEMMA FinishType ==
  ASSUME NEW c \in Cycles, NEW new \in Terminal, TypeOK, Finish(c, new)
  PROVE  TypeOK'
  <1>1. 0 \in 0..LeaseSeconds
    BY StoreAssumption
  <1>2. status' \in [Cycles -> Statuses]
    BY DEF TypeOK, Finish, Statuses
  <1>3. owner' \in [Cycles -> Owners \cup {NoOwner}]
    BY DEF TypeOK, Finish
  <1>4. lease' \in [Cycles -> 0..LeaseSeconds]
    BY <1>1 DEF TypeOK, Finish
  <1>5. slot' \in [Markets -> Cycles \cup {NoCycle}]
    BY DEF TypeOK, Finish
  <1>6. QED
    BY <1>2, <1>3, <1>4, <1>5 DEF TypeOK, Finish

\* TypeOK is kept by every step of the store.
LEMMA TypeStep == TypeOK /\ [Next]_vars => TypeOK'
  <1> SUFFICES ASSUME TypeOK, [Next]_vars PROVE TypeOK'
    OBVIOUS
  <1>0. /\ LeaseSeconds \in Nat /\ LeaseSeconds > 0
        /\ LeaseSeconds \in 0..LeaseSeconds /\ 0 \in 0..LeaseSeconds
    BY StoreAssumption
  <1>1. CASE UNCHANGED vars
    BY <1>1 DEF TypeOK, vars
  <1>2. ASSUME NEW c \in Cycles, AnyoneStep(c) PROVE TypeOK'
    <2>1. CASE CreateCycleRun(c)
      BY <2>1, StoreAssumption DEF TypeOK, CreateCycleRun, Statuses, Active
    <2>2. CASE FailUnowned(c)
      BY <2>2, FinishType DEF FailUnowned, Terminal
    <2>3. CASE RequestCancel(c)
      BY <2>3 DEF TypeOK, RequestCancel, Statuses, Active
    <2>4. CASE CancelUnowned(c)
      BY <2>4, FinishType DEF CancelUnowned, Terminal
    <2>5. CASE Tick(c)
      <3>1. lease[c] \in 0..LeaseSeconds /\ lease[c] > 0
        BY <2>5 DEF TypeOK, Tick
      <3>2. lease[c] - 1 \in 0..LeaseSeconds
        BY <3>1, <1>0
      <3>3. QED
        BY <2>5, <3>2 DEF TypeOK, Tick
    <2>6. QED
      BY <1>2, <2>1, <2>2, <2>3, <2>4, <2>5 DEF AnyoneStep
  <1>3. ASSUME NEW c \in Cycles, NEW o \in Owners, OwnerStep(c, o) PROVE TypeOK'
    <2>1. CASE ClaimCycleRun(c, o)
      <3>1. status' \in [Cycles -> Statuses]
        BY <2>1 DEF TypeOK, ClaimCycleRun, Statuses, Active
      <3>2. QED
        BY <2>1, <3>1, <1>0 DEF TypeOK, ClaimCycleRun
    <2>2. CASE RenewCycleLease(c, o)
      BY <2>2, <1>0 DEF TypeOK, RenewCycleLease
    <2>3. CASE ReleaseCycleRun(c, o)
      BY <2>3, <1>0 DEF TypeOK, ReleaseCycleRun
    <2>4. CASE \E new \in Terminal : UpdateStatus(c, o, new)
      BY <2>4, FinishType DEF UpdateStatus
    <2>5. CASE StampAsOf(c, o)
      BY <2>5 DEF TypeOK, StampAsOf
    <2>6. CASE CancelCycleRun(c, o)
      BY <2>6, FinishType DEF CancelCycleRun, Terminal
    <2>7. CASE PublishCycle(c, o)
      BY <2>7 DEF TypeOK, PublishCycle, Statuses, Active
    <2>8. CASE PersistSuggestions(c, o)
      BY <2>8 DEF TypeOK, PersistSuggestions
    <2>9. QED
      BY <1>3, <2>1, <2>2, <2>3, <2>4, <2>5, <2>6, <2>7, <2>8 DEF OwnerStep
  <1>4. QED
    BY <1>1, <1>2, <1>3 DEF Next

\* Every column keeps its type, whatever the sizes of the constants.
THEOREM TypeCorrect == Spec => []TypeOK
  <1>1. Init => TypeOK
    BY StoreAssumption DEF Init, TypeOK, Statuses
  <1>2. QED
    BY <1>1, TypeStep, PTL DEF Spec

\* Ending an active run keeps the slots, the leases and the publications in
\* order, provided a published run only ends COMPLETED.
LEMMA FinishInv ==
  ASSUME NEW c \in Cycles, NEW new \in Terminal, StoreInv, Finish(c, new),
         status[c] \in Active,
         status[c] = "PUBLISHED" => new = "COMPLETED"
  PROVE  SlotConsistent' /\ LeaseHeldByOwner' /\ PublishedStands'
  <1>1. /\ \A d \in Cycles : status'[d] = IF d = c THEN new ELSE status[d]
        /\ \A d \in Cycles : owner'[d] = IF d = c THEN NoOwner ELSE owner[d]
        /\ \A d \in Cycles : lease'[d] = IF d = c THEN 0 ELSE lease[d]
        /\ \A m \in Markets : slot'[m] = IF slot[m] = c THEN NoCycle ELSE slot[m]
        /\ radar' = radar /\ suggested' = suggested
    BY DEF Finish, StoreInv, TypeOK
  <1>2. new \notin Active
    BY DEF Terminal, Active
  <1>3. SlotConsistent'
    BY <1>1, <1>2, StoreAssumption DEF SlotConsistent, StoreInv
  <1>4. LeaseHeldByOwner'
    BY <1>1 DEF LeaseHeldByOwner, StoreInv
  <1>5. PublishedStands'
    <2>1. ASSUME NEW d \in radar' PROVE status'[d] \in {"PUBLISHED", "COMPLETED"}
      <3>1. d \in Cycles /\ status[d] \in {"PUBLISHED", "COMPLETED"}
        BY <1>1, <2>1 DEF PublishedStands, StoreInv, TypeOK
      <3>2. d = c => new = "COMPLETED"
        BY <3>1 DEF Active
      <3>3. QED
        BY <1>1, <3>1, <3>2
    <2>2. ASSUME NEW d \in Cycles, status'[d] = "PUBLISHED" PROVE d \in radar'
      BY <1>1, <1>2, <2>2 DEF PublishedStands, StoreInv, Active
    <2>3. QED
      BY <1>1, <2>1, <2>2 DEF PublishedStands, StoreInv
  <1>6. QED
    BY <1>3, <1>4, <1>5

\* Admitting a run.
LEMMA CreateInv ==
  ASSUME NEW c \in Cycles, StoreInv, CreateCycleRun(c)
  PROVE  SlotConsistent' /\ LeaseHeldByOwner' /\ PublishedStands'
  <1> DEFINE m0 == MarketOf[c]
  <1>1. /\ m0 \in Markets /\ status[c] = "ABSENT" /\ slot[m0] = NoCycle
        /\ \A d \in Cycles : status'[d] = IF d = c THEN "ACCEPTED" ELSE status[d]
        /\ \A m \in Markets : slot'[m] = IF m = m0 THEN c ELSE slot[m]
        /\ owner' = owner /\ lease' = lease
        /\ radar' = radar /\ suggested' = suggested
    BY StoreAssumption DEF CreateCycleRun, StoreInv, TypeOK
  <1>2. SlotConsistent'
    BY <1>1, StoreAssumption DEF SlotConsistent, StoreInv, Active
  <1>3. LeaseHeldByOwner'
    BY <1>1 DEF LeaseHeldByOwner, StoreInv, Active
  <1>4. PublishedStands'
    BY <1>1 DEF PublishedStands, StoreInv, TypeOK
  <1>5. QED
    BY <1>2, <1>3, <1>4

\* Taking the lease.
LEMMA ClaimInv ==
  ASSUME NEW c \in Cycles, NEW o \in Owners, StoreInv, ClaimCycleRun(c, o)
  PROVE  SlotConsistent' /\ LeaseHeldByOwner' /\ PublishedStands'
  <1>1. /\ status[c] \in Active
        /\ \A d \in Cycles : status'[d] =
             IF d = c /\ status[c] = "ACCEPTED" THEN "RUNNING" ELSE status[d]
        /\ \A d \in Cycles : owner'[d] = IF d = c THEN o ELSE owner[d]
        /\ \A d \in Cycles : lease'[d] = IF d = c THEN LeaseSeconds ELSE lease[d]
        /\ slot' = slot /\ radar' = radar /\ suggested' = suggested
    BY DEF ClaimCycleRun, StoreInv, TypeOK
  <1>2. SlotConsistent'
    BY <1>1 DEF SlotConsistent, StoreInv, Active
  <1>3. LeaseHeldByOwner'
    BY <1>1, StoreAssumption DEF LeaseHeldByOwner, StoreInv, Active
  <1>4. PublishedStands'
    BY <1>1 DEF PublishedStands, StoreInv, TypeOK
  <1>5. QED
    BY <1>2, <1>3, <1>4

\* Asking for a cancellation.
LEMMA RequestCancelInv ==
  ASSUME NEW c \in Cycles, StoreInv, RequestCancel(c)
  PROVE  SlotConsistent' /\ LeaseHeldByOwner' /\ PublishedStands'
  <1>1. /\ status[c] \in {"ACCEPTED", "RUNNING"}
        /\ \A d \in Cycles : status'[d] =
             IF d = c THEN "CANCEL_REQUESTED" ELSE status[d]
        /\ owner' = owner /\ lease' = lease /\ slot' = slot
        /\ radar' = radar /\ suggested' = suggested
    BY DEF RequestCancel, StoreInv, TypeOK
  <1>2. SlotConsistent'
    BY <1>1 DEF SlotConsistent, StoreInv, Active
  <1>3. LeaseHeldByOwner'
    BY <1>1 DEF LeaseHeldByOwner, StoreInv, Active
  <1>4. PublishedStands'
    BY <1>1 DEF PublishedStands, StoreInv, TypeOK
  <1>5. QED
    BY <1>2, <1>3, <1>4

\* Publishing.
LEMMA PublishInv ==
  ASSUME NEW c \in Cycles, NEW o \in Owners, StoreInv, PublishCycle(c, o)
  PROVE  SlotConsistent' /\ LeaseHeldByOwner' /\ PublishedStands'
  <1>1. /\ status[c] = "RUNNING"
        /\ \A d \in Cycles : status'[d] = IF d = c THEN "PUBLISHED" ELSE status[d]
        /\ owner' = owner /\ lease' = lease /\ slot' = slot
        /\ radar' = radar \cup {c} /\ suggested' = suggested
        /\ radar \subseteq Cycles
    BY DEF PublishCycle, StoreInv, TypeOK
  <1>2. SlotConsistent'
    BY <1>1 DEF SlotConsistent, StoreInv, Active
  <1>3. LeaseHeldByOwner'
    BY <1>1 DEF LeaseHeldByOwner, StoreInv, Active
  <1>4. PublishedStands'
    BY <1>1 DEF PublishedStands, StoreInv, TypeOK
  <1>5. QED
    BY <1>2, <1>3, <1>4

\* The steps that touch only owner, lease, as_of or the suggestions.
LEMMA QuietInv ==
  ASSUME NEW c \in Cycles, NEW o \in Owners, StoreInv,
         \/ RenewCycleLease(c, o) \/ ReleaseCycleRun(c, o) \/ StampAsOf(c, o)
         \/ PersistSuggestions(c, o)
  PROVE  SlotConsistent' /\ LeaseHeldByOwner' /\ PublishedStands'
  <1>1. CASE RenewCycleLease(c, o)
    BY <1>1 DEF RenewCycleLease, OwnsLive, StoreInv, TypeOK, SlotConsistent,
                LeaseHeldByOwner, PublishedStands
  <1>2. CASE ReleaseCycleRun(c, o)
    BY <1>2 DEF ReleaseCycleRun, StoreInv, TypeOK, SlotConsistent,
                LeaseHeldByOwner, PublishedStands
  <1>3. CASE StampAsOf(c, o)
    BY <1>3 DEF StampAsOf, StoreInv, SlotConsistent, LeaseHeldByOwner,
                PublishedStands
  <1>4. CASE PersistSuggestions(c, o)
    BY <1>4 DEF PersistSuggestions, StoreInv, SlotConsistent,
                LeaseHeldByOwner, PublishedStands
  <1>5. QED
    BY <1>1, <1>2, <1>3, <1>4

\* StoreInv is inductive.
LEMMA StoreInvStep == StoreInv /\ [Next]_vars => StoreInv'
  <1> SUFFICES ASSUME StoreInv, [Next]_vars
               PROVE  SlotConsistent' /\ LeaseHeldByOwner' /\ PublishedStands'
    BY TypeStep DEF StoreInv
  <1>1. CASE UNCHANGED vars
    BY <1>1 DEF vars, StoreInv, SlotConsistent, LeaseHeldByOwner, PublishedStands
  <1>2. ASSUME NEW c \in Cycles, AnyoneStep(c)
        PROVE  SlotConsistent' /\ LeaseHeldByOwner' /\ PublishedStands'
    <2>1. CASE CreateCycleRun(c)
      BY <2>1, CreateInv
    <2>2. CASE FailUnowned(c)
      BY <2>2, FinishInv DEF FailUnowned, Terminal, Active
    <2>3. CASE RequestCancel(c)
      BY <2>3, RequestCancelInv
    <2>4. CASE CancelUnowned(c)
      BY <2>4, FinishInv DEF CancelUnowned, Terminal, Active
    <2>5. CASE Tick(c)
      BY <2>5 DEF Tick, StoreInv, TypeOK, SlotConsistent, LeaseHeldByOwner,
                  PublishedStands
    <2>6. QED
      BY <1>2, <2>1, <2>2, <2>3, <2>4, <2>5 DEF AnyoneStep
  <1>3. ASSUME NEW c \in Cycles, NEW o \in Owners, OwnerStep(c, o)
        PROVE  SlotConsistent' /\ LeaseHeldByOwner' /\ PublishedStands'
    <2>1. CASE ClaimCycleRun(c, o)
      BY <2>1, ClaimInv
    <2>2. CASE \/ RenewCycleLease(c, o) \/ ReleaseCycleRun(c, o)
               \/ StampAsOf(c, o) \/ PersistSuggestions(c, o)
      BY <2>2, QuietInv
    <2>3. CASE \E new \in Terminal : UpdateStatus(c, o, new)
      <3>1. PICK new \in Terminal : UpdateStatus(c, o, new)
        BY <2>3
      <3>2. status[c] \in Active /\ (status[c] = "PUBLISHED" => new = "COMPLETED")
        BY <3>1 DEF UpdateStatus, Sources, Terminal, Active
      <3>3. QED
        BY <3>1, <3>2, FinishInv DEF UpdateStatus
    <2>4. CASE CancelCycleRun(c, o)
      BY <2>4, FinishInv DEF CancelCycleRun, Terminal, Active
    <2>5. CASE PublishCycle(c, o)
      BY <2>5, PublishInv
    <2>6. QED
      BY <1>3, <2>1, <2>2, <2>3, <2>4, <2>5 DEF OwnerStep
  <1>4. QED
    BY <1>1, <1>2, <1>3 DEF Next

\* StoreInv holds in every reachable state.
LEMMA StoreInvAlways == Spec => []StoreInv
  <1>1. Init => StoreInv
    <2>1. Init => TypeOK
      BY StoreAssumption DEF Init, TypeOK, Statuses
    <2>2. Init => SlotConsistent /\ LeaseHeldByOwner /\ PublishedStands
      BY StoreAssumption DEF Init, SlotConsistent, LeaseHeldByOwner,
                             PublishedStands, Active
    <2>3. QED
      BY <2>1, <2>2 DEF StoreInv
  <1>2. QED
    BY <1>1, StoreInvStep, PTL DEF Spec

\* The slot and the run rows agree in every reachable state.
THEOREM SlotCorrect == Spec => []SlotConsistent
  BY StoreInvAlways, PTL DEF StoreInv

\* Two active runs of one market never coexist.
THEOREM AdmissionCorrect == Spec => []OneActivePerMarket
  <1>1. StoreInv => OneActivePerMarket
    <2> SUFFICES ASSUME StoreInv, NEW c \in Cycles, NEW d \in Cycles,
                        status[c] \in Active, status[d] \in Active,
                        MarketOf[c] = MarketOf[d]
                 PROVE  c = d
      BY DEF OneActivePerMarket
    <2>1. MarketOf[c] \in Markets
      BY StoreAssumption
    <2>2. slot[MarketOf[c]] = c /\ slot[MarketOf[c]] = d
      BY <2>1 DEF StoreInv, SlotConsistent
    <2>3. QED
      BY <2>2
  <1>2. QED
    BY <1>1, StoreInvAlways, PTL

\* A lease always has a holder, and its run is under way.
THEOREM LeaseCorrect == Spec => []LeaseHeldByOwner
  BY StoreInvAlways, PTL DEF StoreInv

\* A published cycle is never cancelled or failed.
THEOREM PublicationCorrect == Spec => []PublishedStands
  BY StoreInvAlways, PTL DEF StoreInv

\* Finish touches one run only, and only its status, owner and lease.
LEMMA FinishLocal ==
  ASSUME NEW c \in Cycles, NEW new, TypeOK, Finish(c, new)
  PROVE  /\ status'[c] = new
         /\ owner'[c] = NoOwner /\ lease'[c] = 0
         /\ \A d \in Cycles \ {c} : /\ status'[d] = status[d]
                                    /\ owner'[d] = owner[d]
                                    /\ lease'[d] = lease[d]
         /\ asOf' = asOf /\ radar' = radar /\ suggested' = suggested
  BY DEF Finish, TypeOK

\* What the two action properties below say of one run.
EndKept(c) ==
  /\ status[c] \in Terminal =>
       /\ status'[c] = status[c]
       /\ owner'[c] = owner[c]
       /\ asOf'[c] = asOf[c]
       /\ c \in radar' <=> c \in radar
       /\ c \in suggested' <=> c \in suggested
  /\ status[c] = "CANCEL_REQUESTED" =>
       status'[c] \in {"CANCEL_REQUESTED", "CANCELLED"}

LeaseKept(c) ==
  lease[c] > 0 /\ owner'[c] # owner[c] => owner'[c] = NoOwner /\ lease'[c] = 0

\* A terminating step respects both.
LEMMA FinishKeeps ==
  ASSUME NEW c \in Cycles, NEW new \in Terminal, TypeOK, Finish(c, new),
         status[c] \in Active,
         status[c] = "CANCEL_REQUESTED" => new = "CANCELLED",
         NEW d \in Cycles
  PROVE  EndKept(d) /\ LeaseKept(d)
  BY FinishLocal DEF EndKept, LeaseKept, Active, Terminal

\* Every step respects both.
LEMMA StepKeeps ==
  ASSUME StoreInv, [Next]_vars, NEW d \in Cycles
  PROVE  EndKept(d) /\ LeaseKept(d)
  <1>0. TypeOK
    BY DEF StoreInv
  <1>1. CASE UNCHANGED vars
    BY <1>1 DEF vars, EndKept, LeaseKept
  <1>2. ASSUME NEW c \in Cycles, AnyoneStep(c) PROVE EndKept(d) /\ LeaseKept(d)
    <2>1. CASE CreateCycleRun(c)
      BY <2>1, <1>0 DEF CreateCycleRun, TypeOK, EndKept, LeaseKept, Terminal
    <2>2. CASE FailUnowned(c)
      BY <2>2, <1>0, FinishKeeps DEF FailUnowned, Terminal, Active
    <2>3. CASE RequestCancel(c)
      BY <2>3, <1>0 DEF RequestCancel, TypeOK, EndKept, LeaseKept, Terminal
    <2>4. CASE CancelUnowned(c)
      BY <2>4, <1>0, FinishKeeps DEF CancelUnowned, Terminal, Active
    <2>5. CASE Tick(c)
      BY <2>5, <1>0 DEF Tick, TypeOK, EndKept, LeaseKept
    <2>6. QED
      BY <1>2, <2>1, <2>2, <2>3, <2>4, <2>5 DEF AnyoneStep
  <1>3. ASSUME NEW c \in Cycles, NEW o \in Owners, OwnerStep(c, o)
        PROVE  EndKept(d) /\ LeaseKept(d)
    <2>1. CASE ClaimCycleRun(c, o)
      <3>1. lease[c] > 0 => owner[c] # NoOwner
        BY DEF StoreInv, LeaseHeldByOwner
      <3>2. QED
        BY <2>1, <3>1, <1>0 DEF ClaimCycleRun, Unheld, TypeOK, EndKept,
                                LeaseKept, Terminal, Active
    <2>2. CASE RenewCycleLease(c, o)
      BY <2>2, <1>0 DEF RenewCycleLease, TypeOK, EndKept, LeaseKept
    <2>3. CASE ReleaseCycleRun(c, o)
      BY <2>3, <1>0 DEF ReleaseCycleRun, TypeOK, EndKept, LeaseKept, Terminal,
                        Active
    <2>4. CASE \E new \in Terminal : UpdateStatus(c, o, new)
      <3>1. PICK new \in Terminal : UpdateStatus(c, o, new)
        BY <2>4
      <3>2. /\ status[c] \in Active
            /\ status[c] = "CANCEL_REQUESTED" => new = "CANCELLED"
        BY <3>1 DEF UpdateStatus, Sources, Terminal, Active
      <3>3. QED
        BY <3>1, <3>2, <1>0, FinishKeeps DEF UpdateStatus
    <2>5. CASE StampAsOf(c, o)
      BY <2>5, <1>0 DEF StampAsOf, TypeOK, EndKept, LeaseKept, Terminal
    <2>6. CASE CancelCycleRun(c, o)
      BY <2>6, <1>0, FinishKeeps DEF CancelCycleRun, Terminal, Active
    <2>7. CASE PublishCycle(c, o)
      BY <2>7, <1>0 DEF PublishCycle, TypeOK, EndKept, LeaseKept, Terminal
    <2>8. CASE PersistSuggestions(c, o)
      BY <2>8, <1>0 DEF PersistSuggestions, TypeOK, EndKept, LeaseKept, Terminal
    <2>9. QED
      BY <1>3, <2>1, <2>2, <2>3, <2>4, <2>5, <2>6, <2>7, <2>8 DEF OwnerStep
  <1>4. QED
    BY <1>1, <1>2, <1>3 DEF Next

\* Terminal runs are final and a requested cancellation cannot be undone.
THEOREM EndCorrect == Spec => EndIsFinal
  <1>1. StoreInv /\ [Next]_vars => \A d \in Cycles : EndKept(d)
    BY StepKeeps
  <1>2. StoreInv /\ [Next]_vars =>
          [\A c \in Cycles :
             /\ status[c] \in Terminal =>
                  /\ status'[c] = status[c]
                  /\ owner'[c] = owner[c]
                  /\ asOf'[c] = asOf[c]
                  /\ c \in radar' <=> c \in radar
                  /\ c \in suggested' <=> c \in suggested
             /\ status[c] = "CANCEL_REQUESTED" =>
                  status'[c] \in {"CANCEL_REQUESTED", "CANCELLED"}]_vars
    BY <1>1 DEF EndKept
  <1>3. QED
    BY <1>2, StoreInvAlways, PTL DEF Spec, EndIsFinal

\* A live lease never changes hands.
THEOREM LeaseExclusive == Spec => LiveLeaseIsExclusive
  <1>1. StoreInv /\ [Next]_vars =>
          [\A c \in Cycles : lease[c] > 0 /\ owner'[c] # owner[c] =>
                               owner'[c] = NoOwner /\ lease'[c] = 0]_vars
    BY StepKeeps DEF LeaseKept
  <1>2. QED
    BY <1>1, StoreInvAlways, PTL DEF Spec, LiveLeaseIsExclusive

\* The phase a reader of the lifecycle sees, status by status.
LEMMA PhaseOf ==
  ASSUME NEW c \in Cycles
  PROVE  /\ status[c] = "ABSENT" => Phase[c] = "NEW"
         /\ status[c] \in {"ACCEPTED", "RUNNING"} => Phase[c] = "OPEN"
         /\ status[c] \in Terminal \cup {"PUBLISHED", "CANCEL_REQUESTED"}
              => Phase[c] = status[c]
  BY DEF Phase, Terminal

\* A step that sets one status changes one phase.
LEMMA PhaseStep ==
  ASSUME TypeOK, NEW c \in Cycles, NEW new,
         status' = [status EXCEPT ![c] = new]
  PROVE  /\ new = "ABSENT" => Phase' = [Phase EXCEPT ![c] = "NEW"]
         /\ new \in {"ACCEPTED", "RUNNING"} => Phase' = [Phase EXCEPT ![c] = "OPEN"]
         /\ new \in Terminal \cup {"PUBLISHED", "CANCEL_REQUESTED"}
              => Phase' = [Phase EXCEPT ![c] = new]
  BY DEF Phase, TypeOK, Terminal

\* A step that leaves every status alone leaves every phase alone.
LEMMA PhaseSame == status' = status => Phase' = Phase
  BY DEF Phase

\* Ending an active run is an End step of the lifecycle.
LEMMA FinishEnds ==
  ASSUME TypeOK, NEW c \in Cycles, NEW new \in Terminal, Finish(c, new),
         \/ status[c] \in {"ACCEPTED", "RUNNING"}
         \/ status[c] = "PUBLISHED" /\ new = "COMPLETED"
         \/ status[c] = "CANCEL_REQUESTED" /\ new = "CANCELLED"
  PROVE  Lifecycle!Next
  <1>1. Phase' = [Phase EXCEPT ![c] = new]
    BY PhaseStep DEF Finish
  <1>2. new \in Lifecycle!WaysToEnd(Phase[c])
    BY PhaseOf DEF Lifecycle!WaysToEnd, Lifecycle!Ends, Terminal
  <1>3. Lifecycle!End(c)
    BY <1>1, <1>2 DEF Lifecycle!End, Finish
  <1>4. QED
    BY <1>3 DEF Lifecycle!Next

\* Every step of the store is a step of the lifecycle or invisible in it.
LEMMA StepRefines ==
  ASSUME StoreInv, [Next]_vars
  PROVE  [Lifecycle!Next]_(Lifecycle!vars)
  <1>0. TypeOK
    BY DEF StoreInv
  <1> DEFINE Hidden == Phase' = Phase /\ radar' = radar /\ suggested' = suggested
  <1>a. Hidden => UNCHANGED Lifecycle!vars
    BY DEF Lifecycle!vars
  <1>1. CASE UNCHANGED vars
    BY <1>1, <1>a, PhaseSame DEF vars
  <1>2. ASSUME NEW c \in Cycles, AnyoneStep(c) PROVE Lifecycle!Next \/ Hidden
    <2>1. CASE CreateCycleRun(c)
      <3>1. Phase' = [Phase EXCEPT ![c] = "OPEN"]
        BY <2>1, <1>0, PhaseStep DEF CreateCycleRun
      <3>2. Phase[c] = "NEW"
        BY <2>1, PhaseOf DEF CreateCycleRun
      <3>3. ASSUME NEW d \in Cycles, MarketOf[d] = MarketOf[c]
            PROVE  Phase[d] \notin Lifecycle!Unfinished
        <4>1. MarketOf[c] \in Markets /\ slot[MarketOf[c]] # d
          BY <2>1, StoreAssumption DEF CreateCycleRun
        <4>2. status[d] \notin Active /\ status[d] \in Statuses
          BY <4>1, <3>3, <1>0 DEF StoreInv, SlotConsistent, TypeOK
        <4>3. status[d] = "ABSENT" \/ status[d] \in Terminal
          BY <4>2 DEF Statuses
        <4>4. QED
          BY <4>3, PhaseOf DEF Lifecycle!Unfinished, Terminal
      <3>4. Lifecycle!Open(c)
        BY <2>1, <3>1, <3>2, <3>3 DEF Lifecycle!Open, CreateCycleRun
      <3>5. QED
        BY <3>4 DEF Lifecycle!Next
    <2>2. CASE FailUnowned(c)
      BY <2>2, <1>0, FinishEnds DEF FailUnowned, Terminal
    <2>3. CASE RequestCancel(c)
      <3>1. Phase' = [Phase EXCEPT ![c] = "CANCEL_REQUESTED"]
        BY <2>3, <1>0, PhaseStep DEF RequestCancel
      <3>2. Lifecycle!AskCancel(c)
        BY <2>3, <3>1, PhaseOf DEF RequestCancel, Lifecycle!AskCancel
      <3>3. QED
        BY <3>2 DEF Lifecycle!Next
    <2>4. CASE CancelUnowned(c)
      BY <2>4, <1>0, FinishEnds DEF CancelUnowned, Terminal
    <2>5. CASE Tick(c)
      BY <2>5, PhaseSame DEF Tick
    <2>6. QED
      BY <1>2, <2>1, <2>2, <2>3, <2>4, <2>5 DEF AnyoneStep
  <1>3. ASSUME NEW c \in Cycles, NEW o \in Owners, OwnerStep(c, o)
        PROVE  Lifecycle!Next \/ Hidden
    <2>1. CASE ClaimCycleRun(c, o)
      <3>1. Phase' = Phase
        BY <2>1, <1>0 DEF ClaimCycleRun, Phase, TypeOK
      <3>2. QED
        BY <2>1, <3>1 DEF ClaimCycleRun
    <2>2. CASE RenewCycleLease(c, o) \/ ReleaseCycleRun(c, o) \/ StampAsOf(c, o)
      BY <2>2, PhaseSame DEF RenewCycleLease, ReleaseCycleRun, StampAsOf
    <2>3. CASE \E new \in Terminal : UpdateStatus(c, o, new)
      <3>1. PICK new \in Terminal : UpdateStatus(c, o, new)
        BY <2>3
      <3>2. \/ status[c] \in {"ACCEPTED", "RUNNING"}
            \/ status[c] = "PUBLISHED" /\ new = "COMPLETED"
            \/ status[c] = "CANCEL_REQUESTED" /\ new = "CANCELLED"
        BY <3>1 DEF UpdateStatus, Sources, Terminal
      <3>3. QED
        BY <3>1, <3>2, <1>0, FinishEnds DEF UpdateStatus
    <2>4. CASE CancelCycleRun(c, o)
      BY <2>4, <1>0, FinishEnds DEF CancelCycleRun, Terminal
    <2>5. CASE PublishCycle(c, o)
      <3>1. Phase' = [Phase EXCEPT ![c] = "PUBLISHED"]
        BY <2>5, <1>0, PhaseStep DEF PublishCycle
      <3>2. Lifecycle!Publish(c)
        BY <2>5, <3>1, PhaseOf DEF PublishCycle, Lifecycle!Publish
      <3>3. QED
        BY <3>2 DEF Lifecycle!Next
    <2>6. CASE PersistSuggestions(c, o)
      <3>1. Lifecycle!Project(c)
        BY <2>6, PhaseSame, PhaseOf DEF PersistSuggestions, Lifecycle!Project
      <3>2. QED
        BY <3>1 DEF Lifecycle!Next
    <2>7. QED
      BY <1>3, <2>1, <2>2, <2>3, <2>4, <2>5, <2>6 DEF OwnerStep
  <1>4. QED
    BY <1>1, <1>2, <1>3, <1>a DEF Next

\* The statements of the store, interleaved in any order by any owners,
\* implement the lifecycle a client relies on.
THEOREM StoreImplementsLifecycle == Spec => ImplementsLifecycle
  <1>1. Init => Lifecycle!Init
    BY DEF Init, Lifecycle!Init, Phase
  <1>2. StoreInv /\ [Next]_vars => [Lifecycle!Next]_(Lifecycle!vars)
    BY StepRefines
  <1>3. QED
    BY <1>1, <1>2, StoreInvAlways, PTL
    DEF Spec, ImplementsLifecycle, Lifecycle!Spec

=============================================================================
