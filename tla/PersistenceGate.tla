--------------------------- MODULE PersistenceGate ---------------------------
(***************************************************************************)
(* The one way to the research engine's database connection.               *)
(*                                                                         *)
(* ResearchRepository._run_blocking_persistence runs every operation of    *)
(* the production adapter in a worker thread, one at a time: a caller      *)
(* takes the dispatch slot (an asyncio.Semaphore(1), first come first      *)
(* served), starts the thread and awaits it behind a shield; the thread    *)
(* takes the connection lock.  A cancelled caller keeps the slot until its *)
(* thread has ended.  An operation whose name is that of a write bumps the *)
(* mutation generation when it is dispatched, before it waits.  Renewals   *)
(* of a cycle's lease take the connection lock without the slot.           *)
(*                                                                         *)
(* The database is the set of the writes that have been committed, each    *)
(* known by the generation it was dispatched with; an operation that is    *)
(* not recognised as a write is, for the gate, a read.                     *)
(***************************************************************************)
EXTENDS Naturals, FiniteSets

CONSTANTS
  Callers,        \* tasks of the event loop that use the gate
  Renewers,       \* tasks that renew a lease past the slot
  NoCaller,       \* the slot, or the lock, is free
  MaxGeneration   \* bound on the writes dispatched

ASSUME GateAssumption ==
  /\ Callers \cap Renewers = {}
  /\ NoCaller \notin Callers \cup Renewers
  /\ MaxGeneration \in Nat

VARIABLES
  pc,          \* where each task is
  op,          \* what each caller dispatched last
  ticket,      \* the generation right after that dispatch
  thread,      \* the worker thread of each task
  slot,        \* _persistence_dispatch_slot: who holds it
  ahead,       \* for a queued caller, the callers queued before it
  lock,        \* _persistence_worker_lock: whose thread holds it
  generation,  \* _readiness_mutation_generation
  store,       \* the tickets of the committed writes
  seen         \* what each caller's read last returned

gateVars ==
  <<pc, op, ticket, thread, slot, ahead, lock, generation, store, seen>>

Tasks == Callers \cup Renewers
Queued == {c \in Callers : pc[c] = "queued"}
Alive(t) == thread[t] \in {"waiting", "running"}
Ended(t) == thread[t] \in {"done", "failed"}

\* A write that may still commit.
Pending(c) ==
  /\ op[c] = "write"
  /\ \/ pc[c] \in {"queued", "granted"}
     \/ Alive(c)

TypeOK ==
  /\ pc \in [Tasks -> {"idle", "queued", "granted", "awaiting", "draining", "gone"}]
  /\ op \in [Callers -> {"read", "write"}]
  /\ ticket \in [Callers -> 0..MaxGeneration]
  /\ thread \in [Tasks -> {"none", "waiting", "running", "done", "failed"}]
  /\ slot \in Callers \cup {NoCaller}
  /\ ahead \in [Callers -> SUBSET Callers]
  /\ lock \in Tasks \cup {NoCaller}
  /\ generation \in 0..MaxGeneration
  /\ store \in SUBSET (1..MaxGeneration)
  /\ seen \in [Callers -> SUBSET (1..MaxGeneration)]

Init ==
  /\ pc = [t \in Tasks |-> "idle"]
  /\ op = [c \in Callers |-> "read"]
  /\ ticket = [c \in Callers |-> 0]
  /\ thread = [t \in Tasks |-> "none"]
  /\ slot = NoCaller
  /\ ahead = [c \in Callers |-> {}]
  /\ lock = NoCaller
  /\ generation = 0
  /\ store = {}
  /\ seen = [c \in Callers |-> {}]

-----------------------------------------------------------------------------
(* The slot.                                                               *)

\* A call is counted when it is dispatched, not when it commits.
Stamp(o) == IF o = "write" THEN generation + 1 ELSE generation

\* A caller enters: the free slot is its own and its thread is submitted,
\* otherwise it queues behind those that wait.
Dispatch(c, o) ==
  /\ pc[c] = "idle"
  /\ Stamp(o) <= MaxGeneration
  /\ generation' = Stamp(o)
  /\ op' = [op EXCEPT ![c] = o]
  /\ ticket' = [ticket EXCEPT ![c] = Stamp(o)]
  /\ \/ /\ slot = NoCaller
        /\ slot' = c
        /\ pc' = [pc EXCEPT ![c] = "awaiting"]
        /\ thread' = [thread EXCEPT ![c] = "waiting"]
        /\ ahead' = ahead
     \/ /\ slot # NoCaller
        /\ pc' = [pc EXCEPT ![c] = "queued"]
        /\ ahead' = [ahead EXCEPT ![c] = Queued]
        /\ UNCHANGED <<slot, thread>>
  /\ UNCHANGED <<lock, store, seen>>

\* The faulty form of First: any waiter may be the next.
AnyWaiter(d) == pc[d] = "queued"

\* The semaphore wakes the waiter that came first.
First(d) == pc[d] = "queued" /\ ahead[d] = {}

Forget(d) == [c \in Callers |-> IF c = d THEN {} ELSE ahead[c] \ {d}]

\* What the call kept in its frame goes with it.
Leave(c) ==
  /\ op' = [op EXCEPT ![c] = "read"]
  /\ ticket' = [ticket EXCEPT ![c] = 0]
  /\ seen' = [seen EXCEPT ![c] = {}]

\* The faulty form of HandOver: the slot is set free although some task waits.
DropSlot(c, threads) ==
  /\ slot' = NoCaller
  /\ pc' = [pc EXCEPT ![c] = "idle"]
  /\ thread' = threads
  /\ ahead' = ahead

\* c leaves the slot, which goes straight to the first waiter, if there is one;
\* threads are the worker threads as c leaves them.
HandOver(c, threads) ==
  /\ \/ /\ Queued = {}
        /\ slot' = NoCaller
        /\ pc' = [pc EXCEPT ![c] = "idle"]
        /\ ahead' = ahead
     \/ \E d \in Callers :
          /\ First(d)
          /\ slot' = d
          /\ pc' = [pc EXCEPT ![c] = "idle", ![d] = "granted"]
          /\ ahead' = Forget(d)
  /\ thread' = threads

\* The woken waiter submits its thread.
Proceed(c) ==
  /\ pc[c] = "granted"
  /\ pc' = [pc EXCEPT ![c] = "awaiting"]
  /\ thread' = [thread EXCEPT ![c] = "waiting"]
  /\ UNCHANGED <<op, ticket, slot, ahead, lock, generation, store, seen>>

-----------------------------------------------------------------------------
(* The worker threads.                                                     *)

TakeLock(t) ==
  /\ thread[t] = "waiting"
  /\ lock = NoCaller
  /\ lock' = t
  /\ thread' = [thread EXCEPT ![t] = "running"]
  /\ UNCHANGED <<pc, op, ticket, slot, ahead, generation, store, seen>>

\* The operation succeeds: a write commits, a read returns what it found.
Succeed(t) ==
  /\ thread[t] = "running"
  /\ thread' = [thread EXCEPT ![t] = "done"]
  /\ lock' = NoCaller
  /\ store' = IF t \in Callers /\ op[t] = "write"
              THEN store \cup {ticket[t]} ELSE store
  /\ seen' = IF t \in Callers /\ op[t] = "read"
             THEN [seen EXCEPT ![t] = store] ELSE seen
  /\ UNCHANGED <<pc, op, ticket, slot, ahead, generation>>

\* The operation raises: its transaction is rolled back.
Fail(t) ==
  /\ thread[t] = "running"
  /\ thread' = [thread EXCEPT ![t] = "failed"]
  /\ lock' = NoCaller
  /\ UNCHANGED <<pc, op, ticket, slot, ahead, generation, store, seen>>

-----------------------------------------------------------------------------
(* The caller again.                                                       *)

Return(c) ==
  /\ pc[c] = "awaiting"
  /\ Ended(c)
  /\ HandOver(c, [thread EXCEPT ![c] = "none"])
  /\ Leave(c)
  /\ UNCHANGED <<lock, generation, store>>

\* A waiter that is cancelled leaves the queue.
Withdraw(c) ==
  /\ pc[c] = "queued"
  /\ pc' = [pc EXCEPT ![c] = "idle"]
  /\ ahead' = Forget(c)
  /\ Leave(c)
  /\ UNCHANGED <<thread, slot, lock, generation, store>>

\* The faulty form of PassOn: the slot stays with a task that has left.
DieHolding(c) ==
  /\ pc[c] = "granted"
  /\ pc' = [pc EXCEPT ![c] = "idle"]
  /\ Leave(c)
  /\ UNCHANGED <<thread, slot, ahead, lock, generation, store>>

\* One that has been woken and not run yet passes the slot on.
PassOn(c) ==
  /\ pc[c] = "granted"
  /\ HandOver(c, thread)
  /\ Leave(c)
  /\ UNCHANGED <<lock, generation, store>>

\* The faulty form of Interrupt: a cancelled caller leaves at once.
Abandon(c) ==
  /\ pc[c] = "awaiting"
  /\ HandOver(c, thread)
  /\ Leave(c)
  /\ UNCHANGED <<lock, generation, store>>

\* A caller cancelled while its thread runs goes on waiting, however often it
\* is cancelled again.
Interrupt(c) ==
  /\ pc[c] = "awaiting"
  /\ pc' = [pc EXCEPT ![c] = "draining"]
  /\ UNCHANGED <<op, ticket, thread, slot, ahead, lock, generation, store, seen>>

\* The faulty form of Drained: a second cancellation ends the wait.
DrainOnce(c) ==
  /\ pc[c] = "draining"
  /\ HandOver(c, thread)
  /\ Leave(c)
  /\ UNCHANGED <<lock, generation, store>>

\* Its thread has ended: the cancellation is raised.
Drained(c) ==
  /\ pc[c] = "draining"
  /\ Ended(c)
  /\ HandOver(c, [thread EXCEPT ![c] = "none"])
  /\ Leave(c)
  /\ UNCHANGED <<lock, generation, store>>

-----------------------------------------------------------------------------
(* Lease renewals: _run_lease_persistence.                                 *)

Renew(r) ==
  /\ pc[r] = "idle"
  /\ pc' = [pc EXCEPT ![r] = "awaiting"]
  /\ thread' = [thread EXCEPT ![r] = "waiting"]
  /\ UNCHANGED <<op, ticket, slot, ahead, lock, generation, store, seen>>

\* A cancelled renewal returns at once; its thread runs on without it.
LeaveThread(r) ==
  /\ pc[r] = "awaiting"
  /\ pc' = [pc EXCEPT ![r] = "gone"]
  /\ UNCHANGED <<op, ticket, thread, slot, ahead, lock, generation, store, seen>>

Renewed(r) ==
  /\ pc[r] \in {"awaiting", "gone"}
  /\ Ended(r)
  /\ pc' = [pc EXCEPT ![r] = "idle"]
  /\ thread' = [thread EXCEPT ![r] = "none"]
  /\ UNCHANGED <<op, ticket, slot, ahead, lock, generation, store, seen>>

-----------------------------------------------------------------------------
ThreadStep(t) == TakeLock(t) \/ Succeed(t) \/ Fail(t)

RenewerStep(r) == Renew(r) \/ LeaveThread(r) \/ Renewed(r)

Cancelled(c) == Withdraw(c) \/ PassOn(c) \/ Interrupt(c) \/ Drained(c)

Next ==
  \/ \E c \in Callers :
       \/ \E o \in {"read", "write"} : Dispatch(c, o)
       \/ Proceed(c) \/ Return(c) \/ Cancelled(c)
  \/ \E t \in Tasks : ThreadStep(t)
  \/ \E r \in Renewers : RenewerStep(r)

Spec == Init /\ [][Next]_gateVars

\* The event loop resumes every task that can run; a statement ends, the
\* database's statement timeout sees to that; and a thread that finds the
\* connection lock free again and again gets it in the end.
Fairness ==
  /\ \A c \in Callers : WF_gateVars(Proceed(c)) /\ WF_gateVars(Return(c) \/ Drained(c))
  /\ \A r \in Renewers : WF_gateVars(Renewed(r))
  /\ \A t \in Tasks : SF_gateVars(TakeLock(t)) /\ WF_gateVars(Succeed(t) \/ Fail(t))

FairSpec == Spec /\ Fairness

-----------------------------------------------------------------------------
(* What the gate promises its callers: SerialStore, where a call takes     *)
(* effect when its thread succeeds.  The calls in the way of one that      *)
(* queues are those queued before it and the slot's holder, until its      *)
(* thread has ended.                                                       *)

Phase == [c \in Callers |->
  IF pc[c] = "idle" THEN "idle" ELSE IF Ended(c) THEN "settled" ELSE "open"]

Before == [c \in Callers |->
  IF pc[c] = "queued"
  THEN ahead[c] \cup {d \in Callers : d = slot /\ ~ Ended(d)}
  ELSE {}]

Serial == INSTANCE SerialStore WITH phase <- Phase, before <- Before

\* Every operation of the gate takes effect at once, at most once, between its
\* dispatch and its return, after all that were dispatched before it, and never
\* once its caller has been told that it was cancelled
\* (_run_blocking_persistence, its semaphore, shield and drain loop).
ImplementsSerialStore == Serial!Spec

-----------------------------------------------------------------------------
(* Properties.                                                             *)

\* A caller has not left while its thread may still touch the connection, and
\* the thread of a caller exists only while the caller holds the slot: so at
\* most one worker thread of the gate waits for the lock, whatever the number
\* of callers and of cancellations (the drain loop of
\* _run_blocking_persistence).
ThreadKeepsSlot ==
  \A c \in Callers :
    thread[c] # "none" => slot = c /\ pc[c] \in {"awaiting", "draining"}

\* The slot is never lost: it is free only when nobody waits for it, and the
\* task that holds it is one that will leave it (also when a waiter is
\* cancelled between being woken and running).
SlotNotLost ==
  /\ slot = NoCaller => Queued = {}
  /\ slot # NoCaller => pc[slot] \in {"granted", "awaiting", "draining"}

\* Writes commit in the order in which they were dispatched, those of cancelled
\* callers included.
CommitsInOrder ==
  [][\A t \in store' \ store, s \in store : s < t]_gateVars

\* Every call comes to an end, queued, cancelled or renewing a lease, however
\* many callers keep the slot and the connection busy.
CallsEnd ==
  \A t \in Tasks : pc[t] # "idle" ~> pc[t] = "idle"

=============================================================================
