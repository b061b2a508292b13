------------------------- MODULE CycleWorkerProofs -------------------------
(***************************************************************************)
(* Proofs about CycleWorker, for any number of cycles and workers, any     *)
(* lease length and any bounds.                                            *)
(*                                                                         *)
(* The argument.  Every step of a worker is a statement of CycleStore or   *)
(* leaves the tables alone, once the process variable that names a cycle   *)
(* (cur, found, asked) is known to name one where it is used: InHand.      *)
(* InHand needs the types of the process variables, ProcessTypes, and is   *)
(* inductive with them.                                                    *)
(*                                                                         *)
(* What relates the tables to a worker's place in its loop has an          *)
(* inductive invariant of its own each: Stamping, Holding, Projected and   *)
(* CacheInv.                                                               *)
(***************************************************************************)
EXTENDS CycleWorker, TLAPS

\* The part of TypeOK that is about processes.
ProcessTypes ==
  /\ pc \in [Workers -> PCs]
  /\ cur \in [Workers -> Cycles \cup {NoCycle}]
  /\ outcome \in [Workers -> {"RUNNING", "LAPSED", "COMPLETED", "CANCELLED", "FAILED"}]
  /\ leave \in [Workers -> {"idle", "dead", "tail"}]
  /\ beat \in [Workers -> BOOLEAN]
  /\ active \in [Workers -> Cycles \cup {NoCycle}]
  /\ queue \in [Workers -> Cycles \cup {NoCycle}]
  /\ found \in [Workers -> Cycles \cup {NoCycle}]
  /\ api \in [Workers -> Calls]
  /\ asked \in [Workers -> Cycles \cup {NoCycle}]
  /\ stalls \in 0..MaxStalls
  /\ faults \in 0..MaxFaults

InRun == Starting \cup Running \cup Handling \cup Ending

\* A process that is inside _run_one, or whose heart beats, has a cycle in
\* hand; so has one that is about to enqueue what it has read or created.
InHand ==
  \A w \in Workers :
    /\ pc[w] \in InRun => cur[w] \in Cycles
    /\ beat[w] => cur[w] \in Cycles
    /\ pc[w] = "offer" => found[w] \in Cycles
    /\ api[w] \in {"admit", "offer", "resume"} => asked[w] \in Cycles

WorkerInv == ProcessTypes /\ InHand

\* A deployment starts with no process in a run.
LEMMA InitInv == Init => WorkerInv
  <1>1. 0 \in 0..MaxStalls /\ 0 \in 0..MaxFaults
    BY WorkerAssumption
  <1>2. QED
    BY <1>1 DEF Init, WorkerInv, ProcessTypes, InHand, InRun, Starting, Running,
      Handling, Ending, Resting, PCs, Calls

\* The vocabulary of every step below: where a process is, and the parts of the
\* invariant.
USE DEF At, Goto, WorkerInv, ProcessTypes, InHand, InRun, Starting, Running,
  Handling, Ending, Resting, PCs, Calls, Call, OnlyPc, Offer,
  cacheVars, loopVars, apiVars, boundVars

\* The process part of starting, polling and submitting.
LEMMA ApiInv ==
  ASSUME NEW w \in Workers, WorkerInv,
         \/ Start(w) \/ Restart(w) \/ Poll(w) \/ PollOffer(w) \/ Dequeue(w)
         \/ Submit(w) \/ DropStale(w) \/ Create(w) \/ Admit(w) \/ Lookup(w)
         \/ LookupOffer(w) \/ ManualLookup(w) \/ ManualResume(w) \/ SubmitFault(w)
  PROVE  WorkerInv'
  <1>1. CASE Start(w)
    BY <1>1 DEF Start
  <1>2. CASE Restart(w)
    BY <1>2 DEF Restart
  <1>3. CASE Poll(w)
    BY <1>3 DEF Poll
  <1>4. CASE PollOffer(w)
    BY <1>4 DEF PollOffer
  <1>5. CASE Dequeue(w)
    BY <1>5 DEF Dequeue
  <1>6. CASE Submit(w)
    BY <1>6 DEF Submit
  <1>7. CASE DropStale(w)
    BY <1>7 DEF DropStale
  <1>8. CASE Create(w)
    BY <1>8 DEF Create
  <1>9. CASE Admit(w)
    BY <1>9 DEF Admit
  <1>10. CASE Lookup(w)
    BY <1>10 DEF Lookup
  <1>11. CASE LookupOffer(w)
    BY <1>11 DEF LookupOffer
  <1>12. CASE ManualLookup(w)
    BY <1>12 DEF ManualLookup
  <1>13. CASE ManualResume(w)
    BY <1>13 DEF ManualResume
  <1>14. CASE SubmitFault(w)
    BY <1>14 DEF SubmitFault
  <1>15. QED
    BY <1>1, <1>2, <1>3, <1>4, <1>5, <1>6, <1>7, <1>8, <1>9, <1>10, <1>11, <1>12,
      <1>13, <1>14

\* The process part of _run_one and of the end of close().
LEMMA RunInv ==
  ASSUME NEW w \in Workers, WorkerInv, RunStep(w)
  PROVE  WorkerInv'
  <1>1. CASE Claim(w)
    BY <1>1 DEF Claim
  <1>2. CASE Screen(w)
    <2>1. /\ cur[w] \in Cycles
          /\ \E there \in {"idle", "drain", "begin"} : Goto(w, there)
          /\ active' = active \/ active' = [active EXCEPT ![w] = NoCycle]
          /\ beat' = beat \/ beat' = [beat EXCEPT ![w] = TRUE]
          /\ UNCHANGED <<cur, outcome, leave, found, queue, apiVars, boundVars>>
      BY <1>2 DEF Screen
    <2>2. active' \in [Workers -> Cycles \cup {NoCycle}]
      BY <2>1
    <2>3. beat' \in [Workers -> BOOLEAN] /\ \A v \in Workers : beat'[v] => v = w \/ beat[v]
      BY <2>1
    <2>4. pc' \in [Workers -> PCs] /\ \A v \in Workers : v # w => pc'[v] = pc[v]
      BY <2>1
    <2>5. ProcessTypes'
      BY <2>1, <2>2, <2>3, <2>4
    <2>6. InHand'
      BY <2>1, <2>3, <2>4
    <2>7. QED
      BY <2>5, <2>6
  <1>3. CASE Drain(w)
    BY <1>3 DEF Drain
  <1>4. CASE Begin(w)
    BY <1>4 DEF Begin
  <1>5. CASE Enter(w)
    BY <1>5 DEF Enter
  <1>6. CASE Stamp(w)
    BY <1>6 DEF Stamp, Fenced
  <1>7. CASE Work(w)
    BY <1>7 DEF Work
  <1>8. CASE Publish(w)
    BY <1>8 DEF Publish, Fenced
  <1>9. CASE Project(w)
    BY <1>9 DEF Project, Fenced
  <1>10. CASE Recheck(w)
    BY <1>10 DEF Recheck, ClearOwnActive
  <1>12. CASE Complete(w)
    BY <1>12 DEF Complete, Fenced
  <1>13. CASE Cancelled(w)
    BY <1>13 DEF Cancelled, DrainedCancel
  <1>14. CASE Stop(w)
    BY <1>14 DEF Stop, DrainedCancel
  <1>15. CASE Release(w)
    BY <1>15 DEF Release, Fenced
  <1>16. CASE Fail(w)
    BY <1>16 DEF Fail
  <1>17. CASE Lost(w)
    BY <1>17 DEF Lost
  <1>18. CASE Final(w)
    BY <1>18 DEF Final, LeaveRun, ClearOwnActive
  <1>19. CASE Log(w)
    BY <1>19 DEF Log, LeaveRun, ClearOwnActive
  <1>20. CASE Tail(w)
    BY <1>20 DEF Tail, Vanish
  <1>21. QED
    BY <1>1, <1>2, <1>3, <1>4, <1>5, <1>6, <1>7, <1>8, <1>9, <1>10,
      <1>12, <1>13, <1>14, <1>15, <1>16, <1>17, <1>18, <1>19, <1>20 DEF RunStep

\* The process part of the heartbeat, of shutdowns, crashes and failing calls.
LEMMA OutsideInv ==
  ASSUME NEW w \in Workers, WorkerInv,
         Renew(w) \/ BeatLost(w) \/ Shutdown(w) \/ Crash(w) \/ DbFault(w)
  PROVE  WorkerInv'
  <1>1. CASE Renew(w)
    BY <1>1 DEF Renew
  <1>2. CASE BeatLost(w)
    BY <1>2 DEF BeatLost
  <1>3. CASE Shutdown(w)
    <2>1. /\ leave' = [leave EXCEPT ![w] = "tail"]
          /\ found' = [found EXCEPT ![w] = NoCycle]
          /\ \/ pc' = pc
             \/ Goto(w, "tail")
             \/ pc[w] \in InRun /\ (Goto(w, "stop") \/ Goto(w, "final"))
          /\ beat' = beat \/ beat' = [beat EXCEPT ![w] = FALSE]
          /\ pc'[w] # "offer"
          /\ UNCHANGED <<cur, outcome, cacheVars, apiVars, boundVars>>
      BY <1>3 DEF Shutdown
    <2>2. leave' \in [Workers -> {"idle", "dead", "tail"}]
      BY <2>1
    <2>3. beat' \in [Workers -> BOOLEAN] /\ \A v \in Workers : beat'[v] => beat[v]
      BY <2>1
    <2>4. /\ pc' \in [Workers -> PCs]
          /\ \A v \in Workers : pc'[v] \in InRun => pc[v] \in InRun
          /\ \A v \in Workers : pc'[v] = "offer" => v # w /\ pc[v] = "offer"
      BY <2>1
    <2>5. found' \in [Workers -> Cycles \cup {NoCycle}]
      BY <2>1
    <2>6. ProcessTypes'
      BY <2>1, <2>2, <2>3, <2>4, <2>5
    <2>7. InHand'
      BY <2>1, <2>3, <2>4
    <2>8. QED
      BY <2>6, <2>7
  <1>4. CASE Crash(w)
    BY <1>4 DEF Crash, Vanish
  <1>5. CASE DbFault(w)
    <2>1. /\ faults < MaxFaults /\ faults' = faults + 1
          /\ \/ Goto(w, "dead") \/ Goto(w, "tail")
             \/ pc[w] \in InRun /\ (Goto(w, "fail") \/ Goto(w, "final"))
          /\ beat' = beat \/ beat' = [beat EXCEPT ![w] = FALSE]
          /\ UNCHANGED <<cur, found, queue, apiVars, stalls>>
      BY <1>5 DEF DbFault
    <2>2. faults' \in 0..MaxFaults
      BY <2>1, WorkerAssumption
    <2>3. beat' \in [Workers -> BOOLEAN] /\ \A v \in Workers : beat'[v] => beat[v]
      BY <2>1
    <2>4. /\ pc' \in [Workers -> PCs]
          /\ \A v \in Workers : pc'[v] \in InRun => pc[v] \in InRun
          /\ \A v \in Workers : pc'[v] = "offer" => pc[v] = "offer"
      BY <2>1
    <2>5. active' \in [Workers -> Cycles \cup {NoCycle}]
      BY <1>5 DEF DbFault, ClearOwnActive
    <2>6. /\ outcome' \in [Workers -> {"RUNNING", "LAPSED", "COMPLETED", "CANCELLED", "FAILED"}]
          /\ leave' \in [Workers -> {"idle", "dead", "tail"}]
      BY <1>5 DEF DbFault
    <2>7. ProcessTypes'
      BY <2>1, <2>2, <2>3, <2>4, <2>5, <2>6
    <2>8. InHand'
      BY <2>1, <2>3, <2>4
    <2>9. QED
      BY <2>7, <2>8
  <1>6. QED
    BY <1>1, <1>2, <1>3, <1>4, <1>5

\* WorkerInv is inductive.
LEMMA WorkerInvStep == WorkerInv /\ [Next]_vars => WorkerInv'
  <1> SUFFICES ASSUME WorkerInv, [Next]_vars PROVE WorkerInv'
    OBVIOUS
  <1>1. CASE UNCHANGED vars
    BY <1>1 DEF vars
  <1>2. ASSUME NEW w \in Workers, WorkerStep(w) PROVE WorkerInv'
    BY <1>2, ApiInv, RunInv, OutsideInv DEF WorkerStep, LoopStep, ApiStep
  <1>3. ASSUME NEW c \in Cycles, RequestCancel(c) \/ FinalizeCancel(c) PROVE WorkerInv'
    BY <1>3 DEF RequestCancel, FinalizeCancel
  <1>4. ASSUME NEW c \in Cycles, Tick(c) PROVE WorkerInv'
    BY <1>4, WorkerAssumption DEF Tick
  <1>5. QED
    BY <1>1, <1>2, <1>3, <1>4 DEF Next

\* A process inside a run always has a cycle in hand, whatever was queued,
\* dropped or cancelled meanwhile.
THEOREM InHandAlways == Spec => []WorkerInv
  BY InitInv, WorkerInvStep, PTL DEF Spec

----------------------------------------------------------------------------
(* Refinement: what the processes do to the tables. *)

\* Cancelling the run in hand, as every caller does it.
LEMMA CancelStatement ==
  ASSUME NEW w \in Workers, CancelIfOwned(w)
  PROVE  Store!OwnerStep(cur[w], w) \/ UNCHANGED storeVars
  BY DEF CancelIfOwned, Locally, Store!OwnerStep

\* A step of _run_one, or of the end of close(), is a statement of the store on
\* the cycle in hand or leaves the tables alone.
LEMMA RunRefines ==
  ASSUME NEW w \in Workers, WorkerInv, RunStep(w)
  PROVE  \/ cur[w] \in Cycles /\ Store!OwnerStep(cur[w], w)
         \/ UNCHANGED storeVars
  <1>1. CASE Claim(w)
    <2>1. cur[w] \in Cycles /\ (Store!ClaimCycleRun(cur[w], w) \/ UNCHANGED storeVars)
      BY <1>1 DEF Claim, Locally
    <2>2. QED
      BY <2>1 DEF Store!OwnerStep
  <1>2. CASE Screen(w)
    BY <1>2 DEF Screen, Locally
  <1>3. CASE Drain(w)
    BY <1>3, CancelStatement DEF Drain
  <1>4. CASE Begin(w)
    BY <1>4 DEF Begin, Locally
  <1>5. CASE Enter(w)
    BY <1>5 DEF Enter, Locally
  <1>6. CASE Stamp(w)
    <2>1. cur[w] \in Cycles /\ (Store!StampAsOf(cur[w], w) \/ UNCHANGED storeVars)
      BY <1>6 DEF Stamp, Fenced, Locally
    <2>2. QED
      BY <2>1 DEF Store!OwnerStep
  <1>7. CASE Work(w)
    BY <1>7 DEF Work, Locally
  <1>8. CASE Publish(w)
    <2>1. cur[w] \in Cycles /\ (Store!PublishCycle(cur[w], w) \/ UNCHANGED storeVars)
      BY <1>8 DEF Publish, Fenced, Locally
    <2>2. QED
      BY <2>1 DEF Store!OwnerStep
  <1>9. CASE Project(w)
    <2>1. cur[w] \in Cycles /\ (Store!PersistSuggestions(cur[w], w) \/ UNCHANGED storeVars)
      BY <1>9 DEF Project, Fenced, Locally
    <2>2. QED
      BY <2>1 DEF Store!OwnerStep
  <1>10. CASE Recheck(w)
    BY <1>10, CancelStatement DEF Recheck, Locally
  <1>12. CASE Complete(w)
    <2>1. cur[w] \in Cycles /\ (Store!UpdateStatus(cur[w], w, "COMPLETED") \/ UNCHANGED storeVars)
      BY <1>12 DEF Complete, Fenced, Locally
    <2>2. QED
      BY <2>1 DEF Store!OwnerStep, Store!Terminal
  <1>13. CASE Cancelled(w)
    BY <1>13, CancelStatement DEF Cancelled, DrainedCancel
  <1>14. CASE Stop(w)
    BY <1>14, CancelStatement DEF Stop, DrainedCancel, Locally
  <1>15. CASE Release(w)
    <2>1. cur[w] \in Cycles /\ (Store!ReleaseCycleRun(cur[w], w) \/ UNCHANGED storeVars)
      BY <1>15 DEF Release, Fenced, Locally
    <2>2. QED
      BY <2>1 DEF Store!OwnerStep
  <1>16. CASE Fail(w)
    <2>1. /\ cur[w] \in Cycles
          /\ \/ Store!ReleaseCycleRun(cur[w], w)
             \/ Store!UpdateStatus(cur[w], w, "FAILED")
             \/ UNCHANGED storeVars
      BY <1>16 DEF Fail, Locally
    <2>2. QED
      BY <2>1 DEF Store!OwnerStep, Store!Terminal
  <1>17. CASE Lost(w)
    <2>1. cur[w] \in Cycles /\ (Store!CancelCycleRun(cur[w], w) \/ UNCHANGED storeVars)
      BY <1>17 DEF Lost, Locally
    <2>2. QED
      BY <2>1 DEF Store!OwnerStep
  <1>18. CASE Final(w)
    BY <1>18 DEF Final, Locally
  <1>19. CASE Log(w)
    BY <1>19 DEF Log, Locally
  <1>20. CASE Tail(w)
    BY <1>20, CancelStatement DEF Tail, Locally
  <1>21. QED
    BY <1>1, <1>2, <1>3, <1>4, <1>5, <1>6, <1>7, <1>8, <1>9, <1>10,
      <1>12, <1>13, <1>14, <1>15, <1>16, <1>17, <1>18, <1>19,
      <1>20 DEF RunStep

\* Every step of the workers, of the operators and of the clock is a step of
\* the store or leaves the tables alone.
LEMMA NextRefines ==
  ASSUME WorkerInv, [Next]_vars
  PROVE  [Store!Next]_(Store!vars)
  <1> SUFFICES Store!Next \/ UNCHANGED storeVars
    BY DEF Store!vars, storeVars
  <1>1. CASE UNCHANGED vars
    BY <1>1 DEF vars
  <1>2. ASSUME NEW w \in Workers, RunStep(w)
        PROVE  Store!Next \/ UNCHANGED storeVars
    BY <1>2, RunRefines DEF Store!Next
  <1>3. ASSUME NEW w \in Workers, Create(w)
        PROVE  Store!Next \/ UNCHANGED storeVars
    BY <1>3 DEF Create, Locally, Store!AnyoneStep, Store!Next
  <1>4. ASSUME NEW w \in Workers, Renew(w)
        PROVE  Store!Next \/ UNCHANGED storeVars
    BY <1>4 DEF Renew, Store!OwnerStep, Store!Next
  <1>5. ASSUME NEW w \in Workers,
               \/ Start(w) \/ Restart(w) \/ Poll(w) \/ PollOffer(w) \/ Dequeue(w)
               \/ Submit(w) \/ DropStale(w) \/ Admit(w) \/ Lookup(w)
               \/ LookupOffer(w) \/ ManualLookup(w) \/ ManualResume(w)
               \/ SubmitFault(w) \/ BeatLost(w) \/ Shutdown(w) \/ Crash(w) \/ DbFault(w)
        PROVE  UNCHANGED storeVars
    BY <1>5 DEF Start, Restart, Poll, PollOffer, Dequeue, Submit, DropStale, Admit,
      Lookup, LookupOffer, ManualLookup, ManualResume, SubmitFault, BeatLost,
      Shutdown, Crash, DbFault
  <1>6. ASSUME NEW c \in Cycles, RequestCancel(c) \/ FinalizeCancel(c) \/ Tick(c)
        PROVE  Store!Next
    BY <1>6 DEF RequestCancel, FinalizeCancel, Tick, Store!AnyoneStep, Store!Next
  <1>7. QED
    BY <1>1, <1>2, <1>3, <1>4, <1>5, <1>6 DEF Next, WorkerStep, LoopStep, ApiStep

\* However many workers interleave, crash or stall, the tables only change as
\* CycleStore says: no path of opportunity_worker.py writes around a fence.
THEOREM WorkerImplementsStore == Spec => ImplementsStore
  <1>1. Init => Store!Init
    BY DEF Init
  <1>2. QED
    BY <1>1, InHandAlways, NextRefines, PTL DEF Spec, ImplementsStore, Store!Spec

-----------------------------------------------------------------------------
(***************************************************************************)
(* What the workers of CycleWorker never do, for any number of cycles and  *)
(* workers, any lease length and any bounds.                               *)
(*                                                                         *)
(* The theorems of CycleStoreProofs hold of the tables under the workers,  *)
(* because the workers implement the store (WorkerImplementsStore).  The   *)
(* properties below relate the tables to the place of each process in its  *)
(* loop; each follows from an inductive invariant over the types and the   *)
(* store's invariants: Stamping for AsOfStable, Holding for OneRunner,     *)
(* Projected for CompletedIsProjected and NoLateCancel.                    *)
(***************************************************************************)

Facts == INSTANCE CycleStoreProofs WITH
  Owners <- Workers, Markets <- {Market}, MarketOf <- [c \in Cycles |-> Market]

\* The tables of CycleWorker are those the store's theorems speak of.
LEMMA SameStore == Store!Spec => Facts!Spec
  <1>1. Store!Init <=> Facts!Init
    BY DEF Store!Init, Facts!Init
  <1>2. Store!Next <=> Facts!Next
    BY DEF Store!Next, Facts!Next, Store!AnyoneStep, Facts!AnyoneStep,
      Store!OwnerStep, Facts!OwnerStep, Store!CreateCycleRun, Facts!CreateCycleRun,
      Store!FailUnowned, Facts!FailUnowned, Store!RequestCancel, Facts!RequestCancel,
      Store!CancelUnowned, Facts!CancelUnowned, Store!Tick, Facts!Tick,
      Store!ClaimCycleRun, Facts!ClaimCycleRun, Store!RenewCycleLease,
      Facts!RenewCycleLease, Store!ReleaseCycleRun, Facts!ReleaseCycleRun,
      Store!UpdateStatus, Facts!UpdateStatus, Store!StampAsOf, Facts!StampAsOf,
      Store!CancelCycleRun, Facts!CancelCycleRun, Store!PublishCycle,
      Facts!PublishCycle, Store!PersistSuggestions, Facts!PersistSuggestions,
      Store!Finish, Facts!Finish, Store!OwnsLive, Facts!OwnsLive, Store!Unheld,
      Facts!Unheld, Store!Sources, Facts!Sources, Store!Active, Facts!Active,
      Store!Terminal, Facts!Terminal
  <1>3. [Store!Next]_(Store!vars) <=> [Facts!Next]_(Facts!vars)
    BY <1>2 DEF Store!vars, Facts!vars
  <1>4. QED
    BY <1>1, <1>3, PTL DEF Store!Spec, Facts!Spec

\* What the proofs below need to know of the tables.
Tables == Store!TypeOK /\ Store!PublishedStands

\* The store's theorems, carried over to the workers.
LEMMA TablesAlways == Spec => []Tables
  <1>1. Facts!StoreAssumption
    BY WorkerAssumption DEF Facts!StoreAssumption
  <1>2. Facts!Spec => []Facts!TypeOK
    BY <1>1, Facts!TypeCorrect
  <1>3. Facts!Spec => []Facts!PublishedStands
    BY <1>1, Facts!PublicationCorrect
  <1>4. Facts!TypeOK <=> Store!TypeOK
    BY DEF Facts!TypeOK, Store!TypeOK, Facts!Statuses, Store!Statuses, Facts!Active,
      Store!Active, Facts!Terminal, Store!Terminal
  <1>5. Facts!PublishedStands <=> Store!PublishedStands
    BY DEF Facts!PublishedStands, Store!PublishedStands
  <1>6. QED
    BY <1>2, <1>3, <1>4, <1>5, SameStore, WorkerImplementsStore, PTL
      DEF ImplementsStore, Tables

\* One run of the market can be resumed, under the workers as in the store.
LEMMA SlotAlways == Spec => []Store!OneActivePerMarket
  <1>1. Facts!StoreAssumption
    BY WorkerAssumption DEF Facts!StoreAssumption
  <1>2. Facts!Spec => []Facts!OneActivePerMarket
    BY <1>1, Facts!AdmissionCorrect
  <1>3. Facts!OneActivePerMarket <=> Store!OneActivePerMarket
    BY DEF Facts!OneActivePerMarket, Store!OneActivePerMarket, Facts!Active, Store!Active
  <1>4. QED
    BY <1>2, <1>3, SameStore, WorkerImplementsStore, PTL DEF ImplementsStore

\* Tables and processes keep their types (the schema of cycle_checkpoint.py
\* and the attributes of OpportunityCycleWorker).
THEOREM WorkerTypeCorrect == Spec => []TypeOK
  <1>1. Tables /\ WorkerInv => TypeOK
    BY DEF Tables, WorkerInv, ProcessTypes, TypeOK
  <1>2. QED
    BY <1>1, TablesAlways, InHandAlways, PTL

----------------------------------------------------------------------------
(* What one worker does to another. *)

\* More of the vocabulary of the steps: what leaves the tables alone.
USE DEF Locally, storeVars

\* The places where a process holds the run it works on.
Held == Running \cup {"screen", "drain"}

\* A statement of one owner leaves a run that another owner holds alone, and
\* never makes another the owner.
LEMMA Untouched ==
  ASSUME Tables, NEW v \in Workers, NEW w \in Workers, v # w,
         NEW c \in Cycles, NEW d \in Cycles, Store!OwnerStep(d, w)
  PROVE  /\ owner'[c] = v => owner[c] = v /\ asOf'[c] = asOf[c]
         /\ Store!OwnsLive(c, v) =>
              /\ owner'[c] = owner[c]
              /\ lease'[c] = lease[c]
              /\ status'[c] = status[c]
  BY WorkerAssumption DEF Tables, Store!TypeOK, Store!OwnerStep, Store!OwnsLive,
    Store!ClaimCycleRun, Store!RenewCycleLease, Store!ReleaseCycleRun,
    Store!UpdateStatus, Store!StampAsOf, Store!CancelCycleRun, Store!PublishCycle,
    Store!PersistSuggestions, Store!Finish, Store!Unheld

\* A step of _run_one of one process moves no other.
LEMMA OthersStay ==
  ASSUME WorkerInv, NEW w \in Workers, RunStep(w)
  PROVE  /\ stalls' = stalls
         /\ \A v \in Workers \ {w} :
              pc'[v] = pc[v] /\ cur'[v] = cur[v] /\ beat'[v] = beat[v]
  BY DEF RunStep, Claim, Screen, Drain, Begin, Enter, Stamp, Work, Publish, Project,
    Recheck, Complete, Cancelled, Stop, DrainedCancel, Release, Fail,
    Lost, Final, Log, LeaveRun, Tail, Vanish, Fenced

\* The other steps of a process bring it to no place where it holds a run.
LEMMA OutsideRun ==
  ASSUME WorkerInv, NEW w \in Workers, WorkerStep(w), ~RunStep(w)
  PROVE  /\ stalls' = stalls
         /\ \A v \in Workers :
              /\ pc'[v] \in Held => pc'[v] = pc[v] /\ cur'[v] = cur[v]
              /\ pc'[v] \in Held /\ beat'[v] # beat[v] =>
                   v = w /\ ~Fence(cur[w], w, Store!Active)
         /\ UNCHANGED <<owner, asOf, radar, suggested>>
         /\ \/ UNCHANGED <<status, lease>>
            \/ lease' = lease /\ \E c \in Cycles : Store!CreateCycleRun(c)
            \/ Renew(w)
  <1>1. CASE \/ Start(w) \/ Restart(w) \/ Poll(w) \/ PollOffer(w) \/ Dequeue(w)
             \/ Submit(w) \/ DropStale(w) \/ Admit(w) \/ Lookup(w) \/ LookupOffer(w)
             \/ ManualLookup(w) \/ ManualResume(w) \/ SubmitFault(w)
    BY <1>1 DEF Start, Restart, Poll, PollOffer, Dequeue, Submit, DropStale, Admit,
      Lookup, LookupOffer, ManualLookup, ManualResume, SubmitFault, Held, storeVars
  <1>2. CASE Create(w)
    BY <1>2 DEF Create, Store!CreateCycleRun, Locally, loopVars, Held, storeVars
  <1>3. CASE Renew(w)
    BY <1>3 DEF Renew, Store!RenewCycleLease, loopVars
  <1>4. CASE BeatLost(w)
    BY <1>4 DEF BeatLost, Held, storeVars
  <1>5. CASE Shutdown(w)
    BY <1>5 DEF Shutdown, Held, storeVars
  <1>6. CASE Crash(w)
    BY <1>6 DEF Crash, Vanish, Held, storeVars
  <1>7. CASE DbFault(w)
    BY <1>7 DEF DbFault, Held, storeVars
  <1>8. QED
    BY <1>1, <1>2, <1>3, <1>4, <1>5, <1>6, <1>7 DEF WorkerStep, LoopStep, ApiStep

----------------------------------------------------------------------------
(* AsOfStable. *)

\* A worker about to stamp a run it owns has read that the run has no instant,
\* and nobody else could stamp it since.
Stamping ==
  \A v \in Workers :
    pc[v] = "stamp" /\ owner[cur[v]] = v => asOf[cur[v]] = NoOwner

\* Steps of _run_one keep Stamping, and write as_of only where it is unset.
LEMMA StampingRun ==
  ASSUME Tables, WorkerInv, Stamping, NEW w \in Workers, RunStep(w)
  PROVE  Stamping' /\ \A c \in Cycles : asOf[c] # NoOwner => asOf'[c] = asOf[c]
  <1>1. \A c \in Cycles : asOf[c] # NoOwner => asOf'[c] = asOf[c]
    <2>1. CASE Stamp(w)
      BY <2>1 DEF Stamp, Fenced, Fence, Stamping, Store!OwnsLive, Store!StampAsOf,
        Tables, Store!TypeOK
    <2>2. CASE ~Stamp(w)
      <3>1. asOf' = asOf
        BY <2>2 DEF RunStep, Claim, Screen, Drain, Begin, Enter, Work, Publish,
          Project, Recheck, Complete, Cancelled, Stop, DrainedCancel, Release, Fail,
          Lost, Final, Log, Tail, Fenced, CancelIfOwned, Store!ClaimCycleRun,
          Store!PublishCycle, Store!PersistSuggestions, Store!UpdateStatus,
          Store!CancelCycleRun, Store!ReleaseCycleRun, Store!Finish
      <3>2. QED
        BY <3>1
    <2>3. QED
      BY <2>1, <2>2
  <1>2. ASSUME NEW v \in Workers, pc'[v] = "stamp", owner'[cur'[v]] = v
        PROVE  asOf'[cur'[v]] = NoOwner
    <2>1. CASE v = w
      <3>1. Enter(w)
        BY <1>2, <2>1 DEF RunStep, Claim, Screen, Drain, Begin, Stamp, Work, Publish,
          Project, Recheck, Complete, Cancelled, Stop, DrainedCancel, Release, Fail,
          Lost, Final, Log, LeaveRun, Tail, Vanish, Fenced
      <3>2. QED
        BY <1>2, <2>1, <3>1 DEF Enter
    <2>2. CASE v # w
      <3>1. pc[v] = "stamp" /\ cur'[v] = cur[v] /\ cur[v] \in Cycles
        BY <1>2, <2>2, OthersStay
      <3>2. owner[cur[v]] = v /\ asOf'[cur[v]] = asOf[cur[v]]
        BY <1>2, <2>2, <3>1, RunRefines, Untouched
      <3>3. QED
        BY <3>1, <3>2 DEF Stamping
    <2>3. QED
      BY <2>1, <2>2
  <1>3. QED
    BY <1>1, <1>2 DEF Stamping

\* So does every other step.
LEMMA StampingStep ==
  ASSUME Tables, WorkerInv, Stamping, [Next]_vars
  PROVE  Stamping' /\ \A c \in Cycles : asOf[c] # NoOwner => asOf'[c] = asOf[c]
  <1>1. CASE UNCHANGED vars
    BY <1>1 DEF vars, Stamping
  <1>2. ASSUME NEW w \in Workers, WorkerStep(w), ~RunStep(w)
        PROVE  Stamping' /\ asOf' = asOf
    BY <1>2, OutsideRun DEF Stamping, Held
  <1>3. ASSUME NEW c \in Cycles, RequestCancel(c) \/ FinalizeCancel(c) \/ Tick(c)
        PROVE  Stamping' /\ asOf' = asOf
    BY <1>3, WorkerAssumption DEF RequestCancel, FinalizeCancel, Tick, Stamping, Tables,
      Store!TypeOK, Store!RequestCancel, Store!CancelUnowned, Store!Tick, Store!Finish
  <1>4. QED
    BY <1>1, <1>2, <1>3, StampingRun DEF Next

\* A run is evaluated at one instant for its whole life: no takeover, lapse or
\* late stamp changes as_of once it is set.
THEOREM RunHasOneInstant == Spec => AsOfStable
  <1>1. Init => Stamping
    BY DEF Init, Stamping
  <1>2. Tables /\ WorkerInv /\ Stamping /\ [Next]_vars => Stamping'
    BY StampingStep
  <1>3. Tables /\ WorkerInv /\ Stamping /\ [Next]_vars
          => [\A c \in Cycles : asOf[c] # NoOwner => asOf'[c] = asOf[c]]_vars
    BY StampingStep
  <1>4. QED
    BY <1>1, <1>2, <1>3, TablesAlways, InHandAlways, PTL DEF Spec, AsOfStable

----------------------------------------------------------------------------
(* OneRunner. *)

\* Until a process stalls past its lease, a process in the runner (or about to
\* enter it) owns the live lease of its run, and the heart that renews it beats.
Holding ==
  stalls = 0 =>
    \A v \in Workers : pc[v] \in Held =>
      /\ Store!OwnsLive(cur[v], v)
      /\ status[cur[v]] \in Store!Active
      /\ pc[v] \in Running => beat[v]

\* A worker that takes a step of _run_one keeps, or acquires, what it holds.
LEMMA HoldingOwn ==
  ASSUME Tables, WorkerInv, Holding, stalls = 0, NEW w \in Workers, RunStep(w),
         pc'[w] \in Held
  PROVE  /\ Store!OwnsLive(cur[w], w)'
         /\ status'[cur'[w]] \in Store!Active
         /\ pc'[w] \in Running => beat'[w]
  <1>1. CASE Claim(w)
    BY <1>1, WorkerAssumption DEF Claim, Store!ClaimCycleRun, Store!OwnsLive,
      Store!Active, Tables, Store!TypeOK, Held
  <1>2. CASE Screen(w)
    BY <1>2 DEF Screen, Holding, Held, Store!OwnsLive
  <1>3. CASE Begin(w)
    BY <1>3 DEF Begin, Holding, Held, Store!OwnsLive
  <1>4. CASE Enter(w)
    BY <1>4 DEF Enter, Holding, Held, Store!OwnsLive
  <1>5. CASE Stamp(w)
    BY <1>5 DEF Stamp, Fenced, Store!StampAsOf, Holding, Held, Store!OwnsLive
  <1>6. CASE Work(w)
    BY <1>6 DEF Work, Holding, Held, Store!OwnsLive
  <1>7. CASE Publish(w)
    BY <1>7 DEF Publish, Fenced, Store!PublishCycle, Holding, Held, Store!OwnsLive,
      Store!Active, Tables, Store!TypeOK
  <1>8. CASE Project(w)
    BY <1>8 DEF Project, Fenced, Store!PersistSuggestions, Holding, Held, Store!OwnsLive
  <1>9. CASE Recheck(w)
    BY <1>9 DEF Recheck, Holding, Held, Store!OwnsLive
  <1>10. QED
    BY <1>1, <1>2, <1>3, <1>4, <1>5, <1>6, <1>7, <1>8, <1>9 DEF RunStep, Drain,
      Complete, Cancelled, Stop, DrainedCancel, Release, Fail, Lost, Final, Log,
      LeaveRun, Tail, Vanish, Fenced, Held

\* Nobody else takes it away: steps of _run_one.
LEMMA HoldingRun ==
  ASSUME Tables, WorkerInv, Holding, NEW w \in Workers, RunStep(w)
  PROVE  Holding'
  <1> SUFFICES ASSUME stalls' = 0, NEW v \in Workers, pc'[v] \in Held
               PROVE  /\ Store!OwnsLive(cur[v], v)'
                      /\ status'[cur'[v]] \in Store!Active
                      /\ pc'[v] \in Running => beat'[v]
    BY DEF Holding
  <1>1. stalls = 0
    BY OthersStay
  <1>2. CASE v = w
    BY <1>1, <1>2, HoldingOwn
  <1>3. CASE v # w
    <2>1. pc[v] \in Held /\ cur'[v] = cur[v] /\ beat'[v] = beat[v] /\ pc'[v] = pc[v]
      BY <1>3, OthersStay
    <2>2. cur[v] \in Cycles
      BY <2>1 DEF Held
    <2>3. /\ Store!OwnsLive(cur[v], v) /\ status[cur[v]] \in Store!Active
          /\ pc[v] \in Running => beat[v]
      BY <1>1, <2>1 DEF Holding
    <2>4. /\ owner'[cur[v]] = owner[cur[v]] /\ lease'[cur[v]] = lease[cur[v]]
          /\ status'[cur[v]] = status[cur[v]]
      BY <1>3, <2>2, <2>3, RunRefines, Untouched
    <2>5. QED
      BY <2>1, <2>3, <2>4 DEF Store!OwnsLive, Store!Active
  <1>4. QED
    BY <1>2, <1>3

\* Nobody else takes it away: all steps.
LEMMA HoldingStep ==
  ASSUME Tables, WorkerInv, Holding, [Next]_vars
  PROVE  Holding'
  <1>1. CASE UNCHANGED vars
    BY <1>1 DEF vars, Holding, Store!OwnsLive, Store!Active
  <1>2. ASSUME NEW w \in Workers, WorkerStep(w), ~RunStep(w) PROVE Holding'
    <2> SUFFICES ASSUME stalls = 0, NEW v \in Workers, pc'[v] \in Held
                 PROVE  /\ Store!OwnsLive(cur[v], v)'
                        /\ status'[cur'[v]] \in Store!Active
                        /\ pc'[v] \in Running => beat'[v]
      BY <1>2, OutsideRun DEF Holding
    <2>1. /\ pc'[v] = pc[v] /\ cur'[v] = cur[v] /\ cur[v] \in Cycles
          /\ owner'[cur[v]] = owner[cur[v]]
      BY <1>2, OutsideRun DEF Held
    <2>2. /\ Store!OwnsLive(cur[v], v) /\ status[cur[v]] \in Store!Active
          /\ pc[v] \in Running => beat[v]
      BY <2>1 DEF Holding
    <2>3. pc'[v] \in Running => beat'[v]
      BY <1>2, <2>1, <2>2, OutsideRun DEF Fence
    <2>4. status'[cur[v]] = status[cur[v]] /\ lease'[cur[v]] > 0
      BY <1>2, <2>1, <2>2, OutsideRun, WorkerAssumption DEF Renew,
        Store!RenewCycleLease, Store!CreateCycleRun, Store!OwnsLive, Store!Active,
        Tables, Store!TypeOK
    <2>5. QED
      BY <2>1, <2>2, <2>3, <2>4 DEF Store!OwnsLive, Store!Active
  <1>3. ASSUME NEW c \in Cycles, RequestCancel(c) PROVE Holding'
    BY <1>3 DEF RequestCancel, Store!RequestCancel, Holding, Store!OwnsLive,
      Store!Active, Tables, Store!TypeOK, Held
  <1>4. ASSUME NEW c \in Cycles, FinalizeCancel(c) PROVE Holding'
    BY <1>4, WorkerAssumption DEF FinalizeCancel, Store!CancelUnowned, Store!Unheld,
      Store!Finish, Holding, Store!OwnsLive, Store!Active, Tables, Store!TypeOK, Held
  <1>5. ASSUME NEW c \in Cycles, Tick(c) PROVE Holding'
    <2> SUFFICES ASSUME stalls' = 0, NEW v \in Workers, pc[v] \in Held
                 PROVE  lease'[cur[v]] > 0
      BY <1>5 DEF Tick, Store!Tick, Holding, Store!OwnsLive, Store!Active
    <2>1. stalls = 0 /\ ~(lease[c] = 1 /\ Guarded(c))
      BY <1>5, WorkerAssumption DEF Tick
    <2>2. cur[v] \in Cycles /\ Store!OwnsLive(cur[v], v) /\ (pc[v] \in Running => beat[v])
      BY <2>1 DEF Holding, Held
    <2>3. cur[v] = c => Guarded(c)
      BY <2>2 DEF Guarded, Store!OwnsLive, Held
    <2>4. QED
      BY <1>5, <2>1, <2>2, <2>3, WorkerAssumption DEF Tick, Store!Tick, Store!OwnsLive,
        Tables, Store!TypeOK
  <1>6. QED
    BY <1>1, <1>2, <1>3, <1>4, <1>5, HoldingRun DEF Next

\* The lease gives mutual exclusion: two processes are inside the runner for the
\* same cycle only after one has stalled past its lease.
THEOREM LeaseExcludes == Spec => []OneRunner
  <1>1. Init => Holding
    BY DEF Init, Holding, Held
  <1>2. Tables /\ WorkerInv /\ Holding /\ [Next]_vars => Holding'
    BY HoldingStep
  <1>3. Holding => OneRunner
    BY DEF Holding, OneRunner, Held, Store!OwnsLive
  <1>4. QED
    BY <1>1, <1>2, <1>3, TablesAlways, InHandAlways, PTL DEF Spec

----------------------------------------------------------------------------
(* CompletedIsProjected and NoLateCancel. *)

\* A worker whose runner has returned has a selection, and for equity also
\* suggestions, in the tables, whichever owner wrote them; so has every
\* completed run.
Projected ==
  /\ CompletedIsProjected
  /\ \A w \in Workers : pc[w] \in {"recheck", "complete"} =>
       cur[w] \in radar /\ (Projects => cur[w] \in suggested)

\* Steps of _run_one keep Projected.
LEMMA ProjectedRun ==
  ASSUME Tables, Tables', WorkerInv, Projected, NEW w \in Workers, RunStep(w)
  PROVE  Projected'
  <1>1. radar \subseteq radar' /\ suggested \subseteq suggested'
    BY RunRefines DEF Store!OwnerStep, Store!ClaimCycleRun, Store!RenewCycleLease,
      Store!ReleaseCycleRun, Store!UpdateStatus, Store!StampAsOf,
      Store!CancelCycleRun, Store!PublishCycle, Store!PersistSuggestions, Store!Finish
  <1>2. ASSUME pc'[w] \in {"recheck", "complete"}
        PROVE  cur'[w] = cur[w] /\ cur[w] \in radar' /\ (Projects => cur[w] \in suggested')
    <2>1. CASE Enter(w)
      BY <1>2, <2>1 DEF Enter, Tables, Store!PublishedStands
    <2>2. CASE Publish(w)
      BY <1>2, <2>2 DEF Publish, Fenced, Store!PublishCycle
    <2>3. CASE Project(w)
      BY <1>2, <2>3 DEF Project, Fenced, Store!PersistSuggestions, Tables,
        Store!PublishedStands
    <2>4. CASE Recheck(w)
      BY <1>1, <1>2, <2>4 DEF Recheck, Projected
    <2>5. QED
      BY <1>2, <2>1, <2>2, <2>3, <2>4 DEF RunStep, Claim, Screen, Drain, Begin, Stamp,
        Work, Complete, Cancelled, Stop, DrainedCancel, Release, Fail, Lost, Final,
        Log, LeaveRun, Tail, Vanish, Fenced
  <1>3. ASSUME NEW v \in Workers, v # w, pc'[v] \in {"recheck", "complete"}
        PROVE  cur'[v] \in radar' /\ (Projects => cur'[v] \in suggested')
    BY <1>1, <1>3, OthersStay DEF Projected
  <1>4. ASSUME NEW c \in Cycles, status'[c] = "COMPLETED"
        PROVE  c \in radar' /\ (Projects => c \in suggested')
    <2>1. CASE status[c] = "COMPLETED"
      BY <1>1, <2>1 DEF Projected, CompletedIsProjected
    <2>2. CASE status[c] # "COMPLETED"
      <3>1. Complete(w) /\ c = cur[w]
        BY <1>4, <2>2 DEF RunStep, Claim, Screen, Drain, Begin, Enter, Stamp, Work,
          Publish, Project, Recheck, Complete, Cancelled, Stop, DrainedCancel, Release,
          Fail, Lost, Final, Log, Tail, Fenced, CancelIfOwned, Store!ClaimCycleRun,
          Store!StampAsOf, Store!PublishCycle, Store!PersistSuggestions,
          Store!UpdateStatus, Store!CancelCycleRun, Store!ReleaseCycleRun,
          Store!Finish, Tables, Store!TypeOK
      <3>2. QED
        BY <1>1, <3>1 DEF Complete, Projected
    <2>3. QED
      BY <2>1, <2>2
  <1>5. QED
    BY <1>2, <1>3, <1>4 DEF Projected, CompletedIsProjected

\* So does every other step.
LEMMA ProjectedStep ==
  ASSUME Tables, Tables', WorkerInv, Projected, [Next]_vars
  PROVE  Projected'
  <1>1. CASE UNCHANGED vars
    BY <1>1 DEF vars, Projected, CompletedIsProjected
  <1>2. ASSUME NEW w \in Workers, WorkerStep(w), ~RunStep(w) PROVE Projected'
    <2>1. \A c \in Cycles : status'[c] = "COMPLETED" => status[c] = "COMPLETED"
      BY <1>2, OutsideRun DEF Renew, Store!RenewCycleLease, Store!CreateCycleRun,
        Tables, Store!TypeOK
    <2>2. QED
      BY <1>2, <2>1, OutsideRun DEF Projected, CompletedIsProjected, Held
  <1>3. ASSUME NEW c \in Cycles, RequestCancel(c) \/ FinalizeCancel(c) \/ Tick(c)
        PROVE  Projected'
    BY <1>3 DEF RequestCancel, FinalizeCancel, Tick, Store!RequestCancel,
      Store!CancelUnowned, Store!Tick, Store!Finish, Projected, CompletedIsProjected,
      Tables, Store!TypeOK
  <1>4. QED
    BY <1>1, <1>2, <1>3, ProjectedRun DEF Next

\* Projected is an invariant.
LEMMA ProjectedAlways == Spec => []Projected
  <1>1. Init => Projected
    BY DEF Init, Projected, CompletedIsProjected, Store!Init
  <1>2. Tables /\ Tables' /\ WorkerInv /\ Projected /\ [Next]_vars => Projected'
    BY ProjectedStep
  <1>3. QED
    BY <1>1, <1>2, TablesAlways, InHandAlways, PTL DEF Spec

\* No run is COMPLETED without its selection and its suggestions, although each
\* is committed by its own transaction and any owner may die in between.
THEOREM CompletionIsWhole == Spec => []CompletedIsProjected
  BY ProjectedAlways, PTL DEF Projected

\* The cancellation check after the runner never finds anything: what has been
\* published cannot be cancelled.
THEOREM RunnerBeatsCancel == Spec => []NoLateCancel
  <1>1. Tables /\ WorkerInv /\ Projected => NoLateCancel
    BY DEF Tables, Store!PublishedStands, Projected, NoLateCancel, IsCancelled
  <1>2. QED
    BY <1>1, TablesAlways, InHandAlways, ProjectedAlways, PTL

----------------------------------------------------------------------------
(* ScansTakeTurns. *)

\* A step that shows a selection is the publication of a run that still has the
\* slot of its market.
LEMMA ShownIsPublished ==
  ASSUME Tables, WorkerInv, [Next]_vars, NEW c \in radar' \ radar
  PROVE  c \in Cycles /\ status[c] = "RUNNING" /\ radar' = radar \cup {c}
  <1>1. Store!Next \/ UNCHANGED Store!vars
    BY NextRefines
  <1>2. \E d \in Cycles, o \in Workers : Store!PublishCycle(d, o)
    BY <1>1 DEF Store!Next, Store!AnyoneStep, Store!OwnerStep, Store!vars,
      Store!CreateCycleRun, Store!FailUnowned, Store!RequestCancel,
      Store!CancelUnowned, Store!Tick, Store!ClaimCycleRun, Store!RenewCycleLease,
      Store!ReleaseCycleRun, Store!UpdateStatus, Store!StampAsOf,
      Store!CancelCycleRun, Store!PersistSuggestions, Store!Finish
  <1>3. QED
    BY <1>2 DEF Store!PublishCycle

\* When a cycle of the market is published, the earlier ones are over, and their
\* suggestions are in the tables: a published run that is not over would have
\* the slot as well.
THEOREM MarketScansInTurn == Spec => ScansTakeTurns
  <1>1. ASSUME Tables, WorkerInv, Projected, Store!OneActivePerMarket, [Next]_vars,
               NEW c \in radar' \ radar, NEW d \in radar
        PROVE  status[d] = "COMPLETED" /\ (Projects => d \in suggested)
    <2>1. c \in Cycles /\ status[c] \in Store!Active /\ c # d
      BY <1>1, ShownIsPublished DEF Store!Active
    <2>2. d \in Cycles /\ status[d] \in {"PUBLISHED", "COMPLETED"}
      BY <1>1 DEF Tables, Store!TypeOK, Store!PublishedStands
    <2>3. status[d] \notin Store!Active
      BY <1>1, <2>1, <2>2 DEF Store!OneActivePerMarket
    <2>4. status[d] = "COMPLETED"
      BY <2>2, <2>3 DEF Store!Active
    <2>5. QED
      BY <1>1, <2>2, <2>4 DEF Projected, CompletedIsProjected
  <1>2. Tables /\ WorkerInv /\ Projected /\ Store!OneActivePerMarket /\ [Next]_vars =>
          [\A c \in radar' \ radar : \A d \in radar :
             status[d] = "COMPLETED" /\ (Projects => d \in suggested)]_vars
    BY <1>1
  <1>3. QED
    BY <1>2, TablesAlways, InHandAlways, ProjectedAlways, SlotAlways, PTL
      DEF Spec, ScansTakeTurns

----------------------------------------------------------------------------
(* NoStrandedCache, for the ETF worker while no database call of the loop   *)
(* fails: then the loop task never ends by itself.  (An equity worker's     *)
(* does, and strands self.active: the run worker_dead_loop shows it.)       *)

\* A cycle the process will come back to, or see cancelled.
Reachable(v) ==
  active[v] # NoCycle =>
    \/ status[active[v]] = "CANCELLED"
    \/ queue[v] = active[v]
    \/ cur[v] = active[v] /\ pc[v] \in InRun
    \/ pc[v] = "tail"

LoopAlive(v) == pc[v] # "dead" /\ leave[v] # "dead"

CacheInv == \A v \in Workers : Reachable(v) /\ LoopAlive(v)

\* A cancelled run stays cancelled, whoever does what.
LEMMA CancelledStays ==
  ASSUME Tables, WorkerInv, [Next]_vars, NEW c \in Cycles, status[c] = "CANCELLED"
  PROVE  status'[c] = "CANCELLED"
  <1>1. Store!Next \/ UNCHANGED Store!vars
    BY NextRefines
  <1>2. CASE UNCHANGED Store!vars
    BY <1>2 DEF Store!vars
  <1>3. ASSUME NEW d \in Cycles, Store!AnyoneStep(d) PROVE status'[c] = "CANCELLED"
    BY <1>3 DEF Tables, Store!TypeOK, Store!AnyoneStep, Store!CreateCycleRun,
      Store!FailUnowned, Store!RequestCancel, Store!CancelUnowned, Store!Tick, Store!Finish
  <1>4. ASSUME NEW d \in Cycles, NEW o \in Workers, Store!OwnerStep(d, o)
        PROVE  status'[c] = "CANCELLED"
    BY <1>4 DEF Tables, Store!TypeOK, Store!OwnerStep, Store!ClaimCycleRun,
      Store!RenewCycleLease, Store!ReleaseCycleRun, Store!UpdateStatus, Store!StampAsOf,
      Store!CancelCycleRun, Store!PublishCycle, Store!PersistSuggestions, Store!Finish,
      Store!Active, Store!Sources
  <1>5. QED
    BY <1>1, <1>2, <1>3, <1>4 DEF Store!Next

\* A step that drops what a process has cached, or leaves it in the queue or in
\* the run where it was.
Keeping(v) ==
  \/ active'[v] = NoCycle
  \/ /\ active'[v] = active[v]
     /\ \/ queue'[v] = queue[v]
        \/ queue[v] # active[v]
        \/ cur'[v] = active[v] /\ pc'[v] \in InRun
     /\ cur[v] = active[v] /\ pc[v] \in InRun =>
          cur'[v] = cur[v] /\ pc'[v] \in InRun \cup {"tail"}
     /\ pc[v] = "tail" => pc'[v] = "tail"

\* Such a step leaves the cached cycle within reach.
LEMMA ReachableStays ==
  ASSUME Tables, WorkerInv, [Next]_vars, NEW v \in Workers, Reachable(v), Keeping(v)
  PROVE  Reachable(v)'
  <1>1. active[v] \in Cycles /\ status[active[v]] = "CANCELLED" => status'[active[v]] = "CANCELLED"
    BY CancelledStays
  <1>2. active[v] \in Cycles \cup {NoCycle}
    OBVIOUS
  <1>3. QED
    BY <1>1, <1>2 DEF Reachable, Keeping

\* A step of one process leaves the memory of the others alone.
LEMMA ProcessesApart ==
  ASSUME WorkerInv, NEW w \in Workers, NEW v \in Workers, v # w, WorkerStep(w)
  PROVE  /\ pc'[v] = pc[v] /\ cur'[v] = cur[v] /\ leave'[v] = leave[v]
         /\ active'[v] = active[v] /\ queue'[v] = queue[v]
  <1>1. CASE RunStep(w)
    BY <1>1 DEF RunStep, Claim, Screen, Drain, Begin, Enter, Stamp, Work, Publish, Project,
      Recheck, Complete, Cancelled, Stop, DrainedCancel, Release, Fail, Lost, Final, Log,
      LeaveRun, ClearOwnActive, Tail, Vanish, Fenced
  <1>2. CASE \/ Start(w) \/ Restart(w) \/ Poll(w) \/ PollOffer(w) \/ Dequeue(w)
    BY <1>2 DEF Start, Restart, Poll, PollOffer, Dequeue
  <1>3. CASE \/ Submit(w) \/ DropStale(w) \/ Create(w) \/ Admit(w)
    BY <1>3 DEF Submit, DropStale, Create, Admit
  <1>4. CASE \/ Lookup(w) \/ LookupOffer(w) \/ ManualLookup(w) \/ ManualResume(w)
             \/ SubmitFault(w) \/ Renew(w) \/ BeatLost(w)
    BY <1>4 DEF Lookup, LookupOffer, ManualLookup, ManualResume, SubmitFault, Renew, BeatLost
  <1>5. CASE Shutdown(w)
    BY <1>5 DEF Shutdown
  <1>6. CASE Crash(w)
    BY <1>6 DEF Crash, Vanish
  <1>7. CASE DbFault(w)
    BY <1>7 DEF DbFault, ClearOwnActive
  <1>8. QED
    BY <1>1, <1>2, <1>3, <1>4, <1>5, <1>6, <1>7 DEF WorkerStep, LoopStep, ApiStep

\* Starting, polling and submitting: what is cached anew is queued.
LEMMA CacheApi ==
  ASSUME Tables, WorkerInv, CacheInv, [Next]_vars, NEW w \in Workers,
         \/ Start(w) \/ Restart(w) \/ Poll(w) \/ PollOffer(w) \/ Dequeue(w)
         \/ Submit(w) \/ DropStale(w) \/ Create(w) \/ Admit(w) \/ Lookup(w)
         \/ LookupOffer(w) \/ ManualLookup(w) \/ ManualResume(w) \/ SubmitFault(w)
  PROVE  Reachable(w)' /\ LoopAlive(w)'
  <1>1. Reachable(w) /\ LoopAlive(w)
    BY DEF CacheInv
  <1>2. LoopAlive(w)'
    BY <1>1 DEF LoopAlive, Start, Restart, Poll, PollOffer, Dequeue, Submit, DropStale,
      Create, Admit, Lookup, LookupOffer, ManualLookup, ManualResume, SubmitFault
  <1>3. CASE Start(w) \/ Restart(w)
    <2>1. Keeping(w)
      BY <1>1, <1>3 DEF Keeping, Start, Restart, LoopAlive
    <2>2. QED
      BY <1>1, <1>2, <2>1, ReachableStays
  <1>4. CASE \/ Submit(w) \/ Create(w) \/ Lookup(w) \/ ManualLookup(w) \/ SubmitFault(w)
    <2>1. Keeping(w)
      BY <1>4 DEF Keeping, Submit, Create, Lookup, ManualLookup, SubmitFault
    <2>2. QED
      BY <1>1, <1>2, <2>1, ReachableStays
  <1>5. CASE Poll(w) \/ Dequeue(w) \/ DropStale(w)
    <2>1. Keeping(w)
      BY <1>5 DEF Keeping, Poll, Dequeue, DropStale
    <2>2. QED
      BY <1>1, <1>2, <2>1, ReachableStays
  <1>6. CASE PollOffer(w) \/ Admit(w) \/ LookupOffer(w)
    <2>1. \/ active'[w] = queue'[w]
          \/ active'[w] = active[w] /\ queue'[w] = queue[w]
      BY <1>6 DEF PollOffer, Admit, LookupOffer
    <2>2. /\ cur' = cur
          /\ pc[w] \in InRun \cup {"tail"} => pc'[w] = pc[w]
      BY <1>6 DEF PollOffer, Admit, LookupOffer
    <2>3. CASE active'[w] = queue'[w]
      BY <1>2, <2>3 DEF Reachable
    <2>4. CASE active'[w] = active[w] /\ queue'[w] = queue[w]
      <3>1. Keeping(w)
        BY <2>2, <2>4 DEF Keeping
      <3>2. QED
        BY <1>1, <1>2, <3>1, ReachableStays
    <2>5. QED
      BY <2>1, <2>3, <2>4
  <1>7. CASE ManualResume(w)
    <2>1. active'[w] = queue'[w]
      BY <1>7 DEF ManualResume
    <2>2. QED
      BY <1>2, <2>1 DEF Reachable
  <1>8. QED
    BY <1>3, <1>4, <1>5, <1>6, <1>7

\* _run_one lets go of the cycle it ends with, and of no other.
LEMMA CacheRun ==
  ASSUME ~Projects, Tables, WorkerInv, CacheInv, [Next]_vars, NEW w \in Workers, RunStep(w)
  PROVE  Reachable(w)' /\ LoopAlive(w)'
  <1>1. Reachable(w) /\ LoopAlive(w)
    BY DEF CacheInv
  <1>2. SUFFICES LoopAlive(w)' /\ (Begin(w) \/ Keeping(w))
    <2>1. CASE Begin(w)
      <3>1. active'[w] = cur'[w] /\ pc'[w] = "enter"
        BY <2>1 DEF Begin
      <3>2. QED
        BY <1>2, <3>1 DEF Reachable
    <2>2. QED
      BY <1>1, <1>2, <2>1, ReachableStays
  <1>3. CASE Claim(w)
    <2>1. /\ leave' = leave /\ cur' = cur /\ queue' = queue /\ pc[w] = "claim"
          /\ \/ active'[w] = NoCycle /\ pc'[w] = "idle"
             \/ active' = active /\ pc'[w] = "screen"
      BY <1>3 DEF Claim
    <2>2. QED
      BY <1>1, <2>1 DEF LoopAlive, Keeping
  <1>4. CASE Screen(w)
    <2>1. /\ leave' = leave /\ cur' = cur /\ queue' = queue /\ pc[w] = "screen"
          /\ \/ active'[w] = NoCycle /\ pc'[w] = "idle"
             \/ active' = active /\ pc'[w] = "drain"
             \/ active' = active /\ pc'[w] = "begin"
      BY <1>4 DEF Screen
    <2>2. QED
      BY <1>1, <2>1 DEF LoopAlive, Keeping
  <1>5. CASE Drain(w) \/ Tail(w)
    <2>1. /\ active'[w] = NoCycle /\ pc'[w] \in {"idle", "gone"}
          /\ leave'[w] \in {leave[w], "idle"}
      BY <1>5 DEF Drain, Tail, Vanish
    <2>2. QED
      BY <1>1, <2>1 DEF LoopAlive, Keeping
  <1>6. CASE Begin(w)
    BY <1>1, <1>6 DEF Begin, LoopAlive
  <1>7. CASE Enter(w) \/ Stamp(w) \/ Work(w) \/ Publish(w) \/ Project(w) \/ Complete(w)
    <2>1. /\ pc[w] \in Running /\ pc'[w] \in Running \cup Handling \cup Ending
          /\ active' = active /\ queue' = queue /\ cur' = cur /\ leave' = leave
      BY <1>7 DEF Enter, Stamp, Work, Publish, Project, Complete, Fenced
    <2>2. QED
      BY <1>1, <2>1 DEF LoopAlive, Keeping
  <1>8. CASE Recheck(w)
    <2>1. /\ pc[w] = "recheck" /\ pc'[w] \in {"final", "lost", "complete"}
          /\ active'[w] \in {NoCycle, active[w]}
          /\ queue' = queue /\ cur' = cur /\ leave' = leave
      BY <1>8 DEF Recheck, ClearOwnActive
    <2>2. QED
      BY <1>1, <2>1 DEF LoopAlive, Keeping
  <1>9. CASE Cancelled(w) \/ Stop(w) \/ Release(w) \/ Fail(w) \/ Lost(w)
    <2>1. /\ pc[w] \in Handling /\ pc'[w] \in Handling \cup Ending
          /\ active' = active /\ queue' = queue /\ cur' = cur /\ leave' = leave
      BY <1>9 DEF Cancelled, Stop, DrainedCancel, Release, Fail, Lost, Fenced
    <2>2. QED
      BY <1>1, <2>1 DEF LoopAlive, Keeping
  <1>10. CASE Final(w) \/ Log(w)
    <2>1. /\ pc[w] \in Ending /\ queue' = queue /\ cur' = cur
          /\ \/ active' = active /\ pc'[w] = "log" /\ leave' = leave
             \/ LeaveRun(w)
      BY <1>10 DEF Final, Log
    <2>2. CASE LeaveRun(w)
      <3>1. /\ active[w] = cur[w] => active'[w] = NoCycle
            /\ active[w] # cur[w] => active'[w] = active[w]
            /\ pc'[w] = leave[w] /\ leave'[w] \in {"tail", "idle"}
        BY <2>2 DEF LeaveRun, ClearOwnActive
      <3>2. QED
        BY <1>1, <2>1, <3>1 DEF LoopAlive, Keeping
    <2>3. QED
      BY <1>1, <2>1, <2>2 DEF LoopAlive, Keeping
  <1>11. QED
    BY <1>3, <1>4, <1>5, <1>6, <1>7, <1>8, <1>9, <1>10 DEF RunStep

\* Every step keeps every process's cached cycle within its reach.
LEMMA CacheStep ==
  ASSUME ~Projects, MaxFaults = 0, Tables, WorkerInv, CacheInv, [Next]_vars
  PROVE  CacheInv'
  <1>1. ASSUME NEW v \in Workers,
               pc'[v] = pc[v], cur'[v] = cur[v], leave'[v] = leave[v],
               active'[v] = active[v], queue'[v] = queue[v]
        PROVE  Reachable(v)' /\ LoopAlive(v)'
    <2>1. Reachable(v) /\ LoopAlive(v)
      BY DEF CacheInv
    <2>2. Keeping(v) /\ LoopAlive(v)'
      BY <1>1, <2>1 DEF Keeping, LoopAlive
    <2>3. QED
      BY <2>1, <2>2, ReachableStays
  <1>2. CASE UNCHANGED vars \/ \E c \in Cycles : RequestCancel(c) \/ FinalizeCancel(c) \/ Tick(c)
    <2>1. UNCHANGED <<pc, cur, leave, active, queue>>
      BY <1>2 DEF vars, RequestCancel, FinalizeCancel, Tick
    <2>2. QED
      BY <1>1, <2>1 DEF CacheInv
  <1>3. ASSUME NEW w \in Workers, WorkerStep(w) PROVE CacheInv'
    <2>1. Reachable(w) /\ LoopAlive(w)
      BY DEF CacheInv
    <2>2. Reachable(w)' /\ LoopAlive(w)'
      <3>1. CASE Renew(w) \/ BeatLost(w)
        <4>1. UNCHANGED <<pc, cur, leave, active, queue>>
          BY <3>1 DEF Renew, BeatLost
        <4>2. QED
          BY <1>1, <4>1
      <3>2. CASE Shutdown(w)
        <4>1. /\ pc[w] # "tail" /\ pc'[w] \in InRun \cup {"tail"} /\ leave'[w] = "tail"
              /\ UNCHANGED <<cur, active, queue>>
          BY <2>1, <3>2 DEF Shutdown, Serving, LoopAlive
        <4>2. Keeping(w) /\ LoopAlive(w)'
          BY <4>1 DEF Keeping, LoopAlive
        <4>3. QED
          BY <2>1, <4>2, ReachableStays
      <3>3. CASE Crash(w)
        <4>1. active'[w] = NoCycle /\ pc'[w] = "gone" /\ leave'[w] = "idle"
          BY <3>3 DEF Crash, Vanish
        <4>2. Keeping(w) /\ LoopAlive(w)'
          BY <4>1 DEF Keeping, LoopAlive
        <4>3. QED
          BY <2>1, <4>2, ReachableStays
      <3>4. CASE DbFault(w)
        <4>1. faults < 0 /\ faults \in 0..0
          BY <3>4 DEF DbFault
        <4>2. QED
          BY <4>1
      <3>5. CASE RunStep(w)
        BY <3>5, CacheRun
      <3>6. QED
        BY <1>3, <3>1, <3>2, <3>3, <3>4, <3>5, CacheApi DEF WorkerStep, LoopStep, ApiStep
    <2>3. ASSUME NEW v \in Workers PROVE Reachable(v)' /\ LoopAlive(v)'
      <3>1. CASE v = w
        BY <2>2, <3>1
      <3>2. CASE v # w
        BY <1>1, <1>3, <3>2, ProcessesApart
      <3>3. QED
        BY <3>1, <3>2
    <2>4. QED
      BY <2>3 DEF CacheInv
  <1>4. QED
    BY <1>2, <1>3 DEF Next

\* self.active of an ETF worker never names a cycle the process has forgotten:
\* as long as no database call of the loop fails, each process goes on admitting
\* and taking over cycles, in both modes and through every shutdown.
THEOREM CacheIsReachable == ASSUME ~Projects, MaxFaults = 0 PROVE Spec => []NoStrandedCache
  <1>1. Init => CacheInv
    BY DEF Init, CacheInv, Reachable, LoopAlive
  <1>2. Tables /\ WorkerInv /\ CacheInv /\ [Next]_vars => CacheInv'
    BY CacheStep
  <1>3. CacheInv => NoStrandedCache
    BY DEF CacheInv, Reachable, LoopAlive, NoStrandedCache
  <1>4. QED
    BY <1>1, <1>2, <1>3, TablesAlways, InHandAlways, PTL DEF Spec

----------------------------------------------------------------------------
(* What the store promises, kept by the workers. *)

\* Workers that interleave, stall, crash and are replaced keep every promise of
\* the run tables: what a client sees of a cycle follows its lifecycle, an ended
\* run stays as it ended, a live lease is not taken from its holder, and at most
\* one run of the market can be resumed, the one in the slot.
THEOREM WorkersKeepPromises ==
  Spec => /\ Store!ImplementsLifecycle
          /\ Store!EndIsFinal
          /\ Store!LiveLeaseIsExclusive
          /\ [](Store!SlotConsistent /\ Store!OneActivePerMarket /\ Store!LeaseHeldByOwner)
  <1>1. Facts!StoreAssumption
    BY WorkerAssumption DEF Facts!StoreAssumption
  <1>2. Spec => Facts!Spec
    BY SameStore, WorkerImplementsStore DEF ImplementsStore
  <1>3. Facts!Spec => Facts!ImplementsLifecycle
    BY <1>1, Facts!StoreImplementsLifecycle
  <1>4. Facts!Spec => Facts!EndIsFinal
    BY <1>1, Facts!EndCorrect
  <1>5. Facts!Spec => Facts!LiveLeaseIsExclusive
    BY <1>1, Facts!LeaseExclusive
  <1>6. Facts!Spec => []Facts!SlotConsistent
    BY <1>1, Facts!SlotCorrect
  <1>7. Facts!Spec => []Facts!OneActivePerMarket
    BY <1>1, Facts!AdmissionCorrect
  <1>8. Facts!Spec => []Facts!LeaseHeldByOwner
    BY <1>1, Facts!LeaseCorrect
  <1>9. Facts!ImplementsLifecycle <=> Store!ImplementsLifecycle
    <2>1. Facts!Lifecycle!Init <=> Store!Lifecycle!Init
      BY DEF Facts!Lifecycle!Init, Store!Lifecycle!Init, Facts!Phase, Store!Phase
    <2>2. Facts!Lifecycle!Next <=> Store!Lifecycle!Next
      BY DEF Facts!Lifecycle!Next, Store!Lifecycle!Next, Facts!Lifecycle!Open,
        Store!Lifecycle!Open, Facts!Lifecycle!Publish, Store!Lifecycle!Publish,
        Facts!Lifecycle!Project, Store!Lifecycle!Project, Facts!Lifecycle!AskCancel,
        Store!Lifecycle!AskCancel, Facts!Lifecycle!End, Store!Lifecycle!End,
        Facts!Lifecycle!WaysToEnd, Store!Lifecycle!WaysToEnd, Facts!Lifecycle!Ends,
        Store!Lifecycle!Ends, Facts!Lifecycle!Unfinished, Store!Lifecycle!Unfinished,
        Facts!Phase, Store!Phase
    <2>3. [Facts!Lifecycle!Next]_(Facts!Lifecycle!vars)
            <=> [Store!Lifecycle!Next]_(Store!Lifecycle!vars)
      BY <2>2 DEF Facts!Lifecycle!vars, Store!Lifecycle!vars, Facts!Phase, Store!Phase
    <2>4. QED
      BY <2>1, <2>3, PTL DEF Facts!ImplementsLifecycle, Store!ImplementsLifecycle,
        Facts!Lifecycle!Spec, Store!Lifecycle!Spec
  <1>10. Facts!EndIsFinal <=> Store!EndIsFinal
    BY DEF Facts!EndIsFinal, Store!EndIsFinal, Facts!Terminal, Store!Terminal, Facts!vars,
      Store!vars
  <1>11. Facts!LiveLeaseIsExclusive <=> Store!LiveLeaseIsExclusive
    BY DEF Facts!LiveLeaseIsExclusive, Store!LiveLeaseIsExclusive, Facts!vars, Store!vars
  <1>12. Facts!SlotConsistent <=> Store!SlotConsistent
    BY DEF Facts!SlotConsistent, Store!SlotConsistent, Facts!Active, Store!Active
  <1>13. Facts!OneActivePerMarket <=> Store!OneActivePerMarket
    BY DEF Facts!OneActivePerMarket, Store!OneActivePerMarket, Facts!Active, Store!Active
  <1>14. Facts!LeaseHeldByOwner <=> Store!LeaseHeldByOwner
    BY DEF Facts!LeaseHeldByOwner, Store!LeaseHeldByOwner, Facts!Active, Store!Active
  <1>15. QED
    BY <1>2, <1>3, <1>4, <1>5, <1>6, <1>7, <1>8, <1>9, <1>10, <1>11, <1>12, <1>13, <1>14, PTL

=============================================================================
