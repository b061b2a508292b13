---------------------------- MODULE ReadinessProofs ----------------------------
(***************************************************************************)
(* Proofs about PersistenceGate and ReadinessReuse, and after them about   *)
(* ReadinessFlights, which has its own state, for any numbers of           *)
(* callers, renewers and passes and any bound on the writes.               *)
(*                                                                         *)
(* The argument.  A worker thread of a caller exists only while the caller *)
(* holds the slot (Frames), so callers touch the connection one at a time, *)
(* in the order of the queue, which is the order of their tickets          *)
(* (InOrder).  A read therefore runs when every write its ticket counts    *)
(* has been settled (Settled), and this stays true of a kept result        *)
(* (Sound): later writes have later tickets.  And nobody waits in a circle *)
(* (LineInv): the slot passes to the first of a finite queue, and the lock *)
(* is held by a thread that runs.                                          *)
(***************************************************************************)
EXTENDS ReadinessReuse, ReadinessFlights, FiniteSetTheorems, WellFoundedInduction, TLAPS

\* A caller holds the slot exactly while it has been granted it or awaits its
\* thread, and has a thread exactly while it awaits it.
Frames ==
  \A c \in Callers :
    /\ pc[c] # "gone"
    /\ pc[c] \in {"granted", "awaiting", "draining"} <=> slot = c
    /\ pc[c] \in {"awaiting", "draining"} <=> thread[c] # "none"

SlotFree == slot = NoCaller => Queued = {}

\* d's operation was dispatched before c's.
Earlier(d, c) ==
  /\ ticket[d] <= ticket[c]
  /\ op[c] = "write" => ticket[d] < ticket[c]

\* The queue is in the order of the dispatches, and behind the slot's holder.
InOrder ==
  \A c \in Callers : pc[c] = "queued" =>
    /\ ahead[c] \subseteq Queued
    /\ slot # NoCaller => Earlier(slot, c)
    /\ \A d \in Callers \ {c} : pc[d] = "queued" =>
         /\ d \in ahead[c] \/ c \in ahead[d]
         /\ d \in ahead[c] => Earlier(d, c)

\* Tickets do not exceed the generation, and a write that may still commit is
\* later than all that have.
Tickets ==
  /\ \A c \in Callers : ticket[c] <= generation
  /\ \A s \in store : s <= generation
  /\ \A w \in Callers : Pending(w) => 0 < ticket[w] /\ \A s \in store : s < ticket[w]

\* The evidence S holds every write up to b, and no other is still to come.
Sound(S, b) ==
  /\ b <= generation
  /\ S \subseteq store
  /\ \A t \in store \ S : b < t
  /\ \A w \in Callers : Pending(w) => b < ticket[w]

Settled ==
  \A c \in Callers :
    op[c] = "read" /\ thread[c] = "done" => Sound(seen[c], ticket[c])

GateInv == TypeOK /\ Frames /\ SlotFree /\ InOrder /\ Tickets /\ Settled

(* Initially the slot is free and nobody waits.                              *)
LEMMA GateInit == Init => GateInv
  BY GateAssumption DEF Init, GateInv, TypeOK, Frames, SlotFree, InOrder, Tickets,
    Settled, Sound, Pending, Alive, Queued, Tasks, Earlier

USE DEF Tasks

\* A dispatch, of a read or a write, into the free slot or the queue.
LEMMA DispatchInv ==
  ASSUME GateInv, NEW c \in Callers, NEW o \in {"read", "write"}, Dispatch(c, o)
  PROVE  GateInv'
  <1> USE GateAssumption DEF GateInv, TypeOK, Dispatch, Stamp
  <1>1. TypeOK'
    BY DEF Queued
  <1>2. Frames'
    BY DEF Frames
  <1>3. SlotFree'
    BY DEF SlotFree, Queued
  <1>4. InOrder'
    <2>1. CASE slot = NoCaller
      BY <2>1 DEF InOrder, SlotFree, Queued
    <2>2. CASE slot # NoCaller
      <3>1. \A d \in Callers : d # c =>
              ticket'[d] = ticket[d] /\ op'[d] = op[d] /\ pc'[d] = pc[d] /\ ahead'[d] = ahead[d]
        BY <2>2
      <3>2. \A d \in Callers : d # c => Earlier(d, c)'
        BY <3>1 DEF Tickets, Earlier
      <3>3. slot # c /\ slot' = slot /\ slot \in Callers
        BY <2>2 DEF Frames
      <3>4. ahead'[c] = Queued /\ c \notin Queued
        BY <2>2 DEF Queued
      <3>5. \A d \in Callers : \A e \in Callers :
              d # c /\ e # c => (Earlier(d, e)' <=> Earlier(d, e))
        BY <3>1 DEF Earlier
      <3>6. ASSUME NEW e \in Callers, pc'[e] = "queued"
            PROVE  /\ ahead'[e] \subseteq Queued'
                   /\ slot' # NoCaller => Earlier(slot, e)'
                   /\ \A d \in Callers \ {e} : pc'[d] = "queued" =>
                        /\ d \in ahead'[e] \/ e \in ahead'[d]
                        /\ d \in ahead'[e] => Earlier(d, e)'
        <4>1. CASE e = c
          BY <4>1, <3>1, <3>2, <3>3, <3>4 DEF Queued
        <4>2. CASE e # c
          <5>1. pc[e] = "queued" /\ ahead'[e] = ahead[e]
            BY <3>6, <4>2, <3>1
          <5>2. Earlier(slot, e)'
            BY <5>1, <4>2, <3>3, <3>5, <2>2 DEF InOrder
          <5>3. ASSUME NEW d \in Callers \ {e}, pc'[d] = "queued"
                PROVE  (d \in ahead'[e] \/ e \in ahead'[d]) /\ (d \in ahead'[e] => Earlier(d, e)')
            <6>1. CASE d = c
              BY <6>1, <5>1, <3>4, <4>2, <3>2 DEF Queued, InOrder
            <6>2. CASE d # c
              BY <6>2, <5>1, <5>3, <3>1, <3>5, <4>2 DEF InOrder
            <6> QED BY <6>1, <6>2
          <5>4. ahead'[e] \subseteq Queued'
            BY <5>1, <3>1, <3>4 DEF InOrder, Queued
          <5> QED BY <5>2, <5>3, <5>4, <3>3
        <4> QED BY <4>1, <4>2
      <3> HIDE DEF Dispatch
      <3> QED BY <3>6, <3>3 DEF InOrder
    <2> QED BY <2>1, <2>2
  <1>5. Tickets'
    BY DEF Tickets, Pending, Alive
  <1>6. Settled'
    BY <1>5 DEF Settled, Sound, Pending, Alive, Tickets, Frames
  <1> QED BY <1>1, <1>2, <1>3, <1>4, <1>5, <1>6

\* The slot is handed over by a task that leaves.
LEMMA HandOverInv ==
  ASSUME GateInv, NEW c \in Callers,
         Return(c) \/ PassOn(c) \/ Drained(c)
  PROVE  GateInv'
  <1> DEFINE after == IF pc[c] = "granted" THEN thread ELSE [thread EXCEPT ![c] = "none"]
  <1>1. /\ HandOver(c, after) /\ Leave(c) /\ UNCHANGED <<lock, generation, store>>
        /\ slot = c
        /\ ~ Alive(c)
    BY DEF Return, PassOn, Drained, GateInv, Frames, Ended, Alive
  <1>2. after \in [Tasks -> {"none", "waiting", "running", "done", "failed"}] /\ after[c] = "none"
        /\ \A t \in Tasks : t # c => after[t] = thread[t]
    BY DEF GateInv, TypeOK, Frames
  <1> HIDE DEF after
  <1> USE <1>1, <1>2, GateAssumption DEF GateInv, TypeOK, Leave, HandOver, First, Forget
  <1>3. TypeOK'
    <2>1. op' \in [Callers -> {"read", "write"}] /\ ticket' \in [Callers -> 0..MaxGeneration]
          /\ seen' \in [Callers -> SUBSET (1..MaxGeneration)]
      OBVIOUS
    <2>2. slot' \in Callers \cup {NoCaller} /\ ahead' \in [Callers -> SUBSET Callers]
      OBVIOUS
    <2>3. pc' \in [Tasks -> {"idle", "queued", "granted", "awaiting", "draining", "gone"}]
      OBVIOUS
    <2>4. thread' \in [Tasks -> {"none", "waiting", "running", "done", "failed"}]
      OBVIOUS
    <2> QED BY <2>1, <2>2, <2>3, <2>4
  <1>4. Frames'
    BY DEF Frames
  <1>5. SlotFree'
    BY DEF SlotFree, Queued
  <1>6. InOrder'
    BY DEF InOrder, Earlier, Frames, Queued
  <1>7. \A w \in Callers : Pending(w)' => Pending(w) /\ ticket'[w] = ticket[w]
    BY DEF Pending, Alive
  <1>8. Tickets'
    BY <1>7 DEF Tickets
  <1>9. Settled'
    BY <1>7 DEF Settled, Sound, Tickets
  <1> QED BY <1>3, <1>4, <1>5, <1>6, <1>8, <1>9

\* The steps of a caller that keep the slot where it is, and of a waiter that
\* withdraws.
LEMMA CallerInv ==
  ASSUME GateInv, NEW c \in Callers,
         Proceed(c) \/ Interrupt(c) \/ Withdraw(c)
  PROVE  GateInv'
  <1> USE GateAssumption DEF GateInv, TypeOK, Proceed, Interrupt, Withdraw, Leave, Forget
  <1>1. TypeOK'
    <2>1. pc' \in [Tasks -> {"idle", "queued", "granted", "awaiting", "draining", "gone"}]
          /\ thread' \in [Tasks -> {"none", "waiting", "running", "done", "failed"}]
      OBVIOUS
    <2>2. op' \in [Callers -> {"read", "write"}] /\ ticket' \in [Callers -> 0..MaxGeneration]
          /\ seen' \in [Callers -> SUBSET (1..MaxGeneration)]
          /\ ahead' \in [Callers -> SUBSET Callers]
      OBVIOUS
    <2>3. UNCHANGED <<slot, lock, generation, store>>
      OBVIOUS
    <2> HIDE DEF Proceed, Interrupt, Withdraw
    <2> QED BY <2>1, <2>2, <2>3
  <1>2. Frames'
    BY DEF Frames
  <1>3. SlotFree'
    BY DEF SlotFree, Queued, Frames
  <1>4. InOrder'
    BY DEF InOrder, Earlier, Frames, Queued
  <1>5. \A w \in Callers : Pending(w)' => Pending(w) /\ ticket'[w] = ticket[w]
    BY DEF Pending, Alive, Frames
  <1>6. /\ generation' = generation /\ store' = store /\ slot' = slot
        /\ \A d \in Callers : ticket'[d] \in {ticket[d], 0}
        /\ \A d \in Callers : thread'[d] = "done" =>
             thread[d] = "done" /\ ticket'[d] = ticket[d] /\ op'[d] = op[d] /\ seen'[d] = seen[d]
    BY DEF Frames
  <1> HIDE DEF Proceed, Interrupt, Withdraw
  <1>7. Tickets'
    BY <1>5, <1>6 DEF Tickets
  <1>8. Settled'
    BY <1>5, <1>6 DEF Settled, Sound
  <1> QED BY <1>1, <1>2, <1>3, <1>4, <1>7, <1>8

\* What the steps of the threads and of the renewals leave alone.
LEMMA QuietInv ==
  ASSUME GateInv, UNCHANGED <<op, ticket, slot, ahead, generation, store, seen>>,
         TypeOK', Frames',
         \A c \in Callers : pc'[c] = pc[c],
         \A c \in Callers : Alive(c)' => Alive(c),
         \A c \in Callers : thread'[c] = "done" => thread[c] = "done"
  PROVE  GateInv'
  <1> USE DEF GateInv
  <1>1. SlotFree' /\ InOrder'
    BY DEF SlotFree, InOrder, Queued, Earlier
  <1>2. \A w \in Callers : Pending(w)' => Pending(w)
    BY DEF Pending
  <1>3. Tickets'
    BY <1>2 DEF Tickets
  <1>4. Settled'
    BY <1>2 DEF Settled, Sound
  <1> QED BY <1>1, <1>3, <1>4

\* A caller's operation takes effect: no other caller's can be under way, and
\* the writes in the queue are all later.
LEMMA EffectInv ==
  ASSUME GateInv, NEW c \in Callers, Succeed(c)
  PROVE  GateInv' /\ (store' # store => op[c] = "write" /\ store' = store \cup {ticket[c]})
  <1> USE GateAssumption DEF GateInv, TypeOK, Succeed
  <1>1. /\ slot = c
        /\ \A d \in Callers : d # c => thread[d] = "none" /\ pc[d] \in {"idle", "queued"}
    BY DEF Frames
  <1>2. /\ \A d \in Callers : pc'[d] = pc[d] /\ op'[d] = op[d] /\ ticket'[d] = ticket[d]
        /\ slot' = slot /\ ahead' = ahead /\ generation' = generation
        /\ \A d \in Tasks : d # c => thread'[d] = thread[d]
        /\ thread'[c] = "done"
    OBVIOUS
  <1>3. \A w \in Callers : Pending(w)' => w # c /\ Pending(w) /\ pc[w] = "queued" /\ ticket[c] < ticket[w]
    BY <1>1, <1>2 DEF Pending, Alive, InOrder, Earlier, Frames
  <1>4. op[c] = "write" => ticket[c] \in 1..MaxGeneration /\ \A s \in store : s < ticket[c]
    <2>1. op[c] = "write" => Pending(c)
      BY DEF Pending, Alive
    <2> QED BY <2>1 DEF Tickets
  <1>5. TypeOK'
    BY <1>4
  <1>6. Frames'
    BY <1>1, <1>2 DEF Frames
  <1>7. SlotFree' /\ InOrder'
    BY <1>2 DEF SlotFree, InOrder, Queued, Earlier
  <1>8. Tickets'
    BY <1>2, <1>3 DEF Tickets
  <1>9. Settled'
    BY <1>1, <1>2, <1>3 DEF Settled, Sound, Tickets, Pending, Alive
  <1> QED BY <1>5, <1>6, <1>7, <1>8, <1>9

\* The other steps of the threads, and those of the renewals.
LEMMA ThreadInv ==
  ASSUME GateInv, NEW t \in Tasks, ThreadStep(t)
  PROVE  GateInv'
  <1> USE GateAssumption DEF ThreadStep
  <1>1. CASE t \in Callers /\ Succeed(t)
    BY <1>1, EffectInv
  <1>2. CASE (t \in Renewers /\ Succeed(t)) \/ TakeLock(t) \/ Fail(t)
    <2>1. UNCHANGED <<pc, op, ticket, slot, ahead, generation, store, seen>>
      BY <1>2 DEF Succeed, TakeLock, Fail
    <2>2. TypeOK'
      BY <1>2 DEF GateInv, TypeOK, Succeed, TakeLock, Fail
    <2>3. \A d \in Tasks : (thread'[d] = "none" <=> thread[d] = "none") /\ (Alive(d)' => Alive(d))
      BY <1>2 DEF GateInv, TypeOK, Succeed, TakeLock, Fail, Alive
    <2>4. \A d \in Callers : thread'[d] = "done" => thread[d] = "done"
      BY <1>2 DEF GateInv, TypeOK, Succeed, TakeLock, Fail
    <2>5. Frames'
      BY <2>1, <2>3 DEF GateInv, Frames
    <2> QED BY <2>1, <2>2, <2>3, <2>4, <2>5, QuietInv
  <1> QED BY <1>1, <1>2

(* A lease renewal touches neither slot nor queue.                           *)
LEMMA RenewerInv ==
  ASSUME GateInv, NEW r \in Renewers, RenewerStep(r)
  PROVE  GateInv'
  <1> USE GateAssumption DEF RenewerStep, Renew, LeaveThread, Renewed
  <1>1. UNCHANGED <<op, ticket, slot, ahead, generation, store, seen>>
    OBVIOUS
  <1>2. \A d \in Callers : pc'[d] = pc[d] /\ thread'[d] = thread[d]
    BY DEF GateInv, TypeOK
  <1>3. TypeOK'
    BY DEF GateInv, TypeOK
  <1>4. Frames'
    BY <1>1, <1>2 DEF GateInv, Frames
  <1> QED BY <1>1, <1>2, <1>3, <1>4, QuietInv DEF Alive

(* Every step of the gate keeps its invariant.                               *)
LEMMA GateStepInv == GateInv /\ [Next]_gateVars => GateInv'
  <1> SUFFICES ASSUME GateInv, [Next]_gateVars PROVE GateInv'
    OBVIOUS
  <1>1. ASSUME NEW c \in Callers, NEW o \in {"read", "write"}, Dispatch(c, o) PROVE GateInv'
    BY <1>1, DispatchInv
  <1>2. ASSUME NEW c \in Callers, Return(c) \/ PassOn(c) \/ Drained(c) PROVE GateInv'
    BY <1>2, HandOverInv
  <1>3. ASSUME NEW c \in Callers, Proceed(c) \/ Interrupt(c) \/ Withdraw(c) PROVE GateInv'
    BY <1>3, CallerInv
  <1>4. ASSUME NEW t \in Tasks, ThreadStep(t) PROVE GateInv'
    BY <1>4, ThreadInv
  <1>5. ASSUME NEW r \in Renewers, RenewerStep(r) PROVE GateInv'
    BY <1>5, RenewerInv
  <1>6. CASE UNCHANGED gateVars
    BY <1>6 DEF gateVars, GateInv, TypeOK, Frames, SlotFree, InOrder, Tickets, Settled,
      Sound, Pending, Alive, Queued, Earlier
  <1> QED BY <1>1, <1>2, <1>3, <1>4, <1>5, <1>6 DEF Next, Cancelled

\* The gate keeps its invariant whatever the callers do.
THEOREM GateInvariant == Spec => []GateInv
  BY GateInit, GateStepInv, PTL DEF Spec

\* Every variable of the gate keeps its type.
THEOREM GateTypes == Spec => []TypeOK
  <1>1. GateInv => TypeOK
    BY DEF GateInv
  <1> QED BY <1>1, GateInvariant, PTL

\* A caller never leaves while its thread may still use the connection, however
\* often it is cancelled, and only the holder of the slot has a thread.
THEOREM ThreadsKeepTheSlot == Spec => []ThreadKeepsSlot
  <1>1. GateInv => ThreadKeepsSlot
    BY DEF GateInv, Frames, ThreadKeepsSlot
  <1> QED BY <1>1, GateInvariant, PTL

\* The slot is free only when nobody waits for it, and held only by a task that
\* will leave it.
THEOREM TheSlotIsNotLost == Spec => []SlotNotLost
  <1>1. GateInv => SlotNotLost
    BY DEF GateInv, TypeOK, Frames, SlotFree, SlotNotLost
  <1> QED BY <1>1, GateInvariant, PTL

\* Writes commit in the order in which they were dispatched.
THEOREM WritesCommitInOrder == Spec => CommitsInOrder
  <1>1. ASSUME GateInv, [Next]_gateVars, NEW t \in store' \ store, NEW s \in store
        PROVE  s < t
    <2>1. PICK c \in Callers : Succeed(c)
      BY <1>1 DEF gateVars, Next, Cancelled, ThreadStep, RenewerStep, Dispatch, Proceed, Return, Withdraw,
        PassOn, Interrupt, Drained, TakeLock, Succeed, Fail, Renew, LeaveThread, Renewed, Tasks
    <2>2. op[c] = "write" /\ t = ticket[c]
      BY <1>1, <2>1 DEF Succeed
    <2>3. Pending(c)
      BY <2>1, <2>2 DEF Succeed, Pending, Alive
    <2> QED BY <1>1, <2>2, <2>3 DEF GateInv, Tickets
  <1>2. GateInv /\ [Next]_gateVars => [\A t \in store' \ store, s \in store : s < t]_gateVars
    BY <1>1
  <1> QED BY <1>2, GateInvariant, PTL DEF Spec, CommitsInOrder

-----------------------------------------------------------------------------
(* The gate implements SerialStore.                                        *)

\* The calls that may still take effect are those that queue, and the one that
\* has the slot until its thread has ended; the latter waits for nobody.
LEMMA OpenCalls ==
  ASSUME GateInv
  PROVE  /\ Serial!Open = Queued \cup {d \in Callers : d = slot /\ ~ Ended(d)}
         /\ \A c \in Callers : ~ Ended(c) \/ pc[c] \in {"awaiting", "draining"}
         /\ \A c \in Callers : slot = c => Before[c] = {}
  BY DEF GateInv, TypeOK, Frames, Serial!Open, Phase, Before, Queued, Ended

(* The phase of a call, before and after a step.                             *)
LEMMA PhaseOf ==
  ASSUME NEW c \in Callers
  PROVE  /\ pc[c] = "idle" => Phase[c] = "idle"
         /\ pc[c] # "idle" /\ Ended(c) => Phase[c] = "settled"
         /\ pc[c] # "idle" /\ ~ Ended(c) => Phase[c] = "open"
         /\ pc'[c] = "idle" => Phase'[c] = "idle"
         /\ pc'[c] # "idle" /\ Ended(c)' => Phase'[c] = "settled"
         /\ pc'[c] # "idle" /\ ~ Ended(c)' => Phase'[c] = "open"
  BY DEF Phase

(* A step that changes the phase of one call only.                           *)
LEMMA PhaseStep ==
  ASSUME NEW c \in Callers, NEW v, Phase'[c] = v,
         \A d \in Callers \ {c} : /\ pc'[d] = "idle" <=> pc[d] = "idle"
                                  /\ Ended(d)' <=> Ended(d)
  PROVE  Phase' = [Phase EXCEPT ![c] = v]
  <1>1. ASSUME NEW d \in Callers \ {c} PROVE Phase'[d] = Phase[d]
    BY PhaseOf
  <1> QED BY <1>1 DEF Phase

(* A dispatch is one of the serial store's, into the slot or the queue.      *)
LEMMA DispatchRefines ==
  ASSUME GateInv, NEW c \in Callers, NEW o \in {"read", "write"}, Dispatch(c, o)
  PROVE  Serial!Dispatch(c, o)
  <1> USE GateAssumption DEF Dispatch
  <1>1. \A d \in Callers \ {c} : pc'[d] = pc[d] /\ thread'[d] = thread[d] /\ ahead'[d] = ahead[d]
    BY DEF GateInv, TypeOK
  <1>2. thread'[c] \in {"none", "waiting"} /\ pc'[c] \in {"queued", "awaiting"}
    BY DEF GateInv, TypeOK, Frames
  <1>3. Phase[c] = "idle" /\ Phase' = [Phase EXCEPT ![c] = "open"]
    BY <1>1, <1>2, PhaseOf, PhaseStep DEF Ended
  <1>4. Before' = [Before EXCEPT ![c] = Serial!Open]
    <2>1. CASE slot = NoCaller
      <3>1. Serial!Open = {} /\ \A d \in Callers : pc[d] # "queued"
        BY <2>1, OpenCalls DEF GateInv, SlotFree, Queued
      <3> QED BY <1>1, <2>1, <3>1 DEF Before, GateInv, TypeOK
    <2>2. CASE slot # NoCaller
      <3>1. /\ slot' = slot /\ slot # c /\ pc'[c] = "queued" /\ ahead'[c] = Queued
        BY <2>2 DEF GateInv, TypeOK, Frames
      <3>2. {d \in Callers : d = slot /\ ~ Ended(d)}' = {d \in Callers : d = slot /\ ~ Ended(d)}
        BY <1>1, <3>1 DEF Ended
      <3>3. Before'[c] = Serial!Open
        BY <3>1, <3>2, OpenCalls DEF Before
      <3>4. \A d \in Callers \ {c} : Before'[d] = Before[d]
        BY <1>1, <3>2 DEF Before
      <3> QED BY <3>3, <3>4 DEF Before
    <2> QED BY <2>1, <2>2
  <1>5. (IF o = "write" THEN generation + 1 ELSE generation) = Stamp(o)
    BY DEF Stamp
  <1> QED BY <1>3, <1>4, <1>5 DEF Serial!Dispatch

\* The thread of a caller succeeds or fails: the call is settled, and nobody
\* waits for it any more.
LEMMA EndRefines ==
  ASSUME GateInv, NEW c \in Callers, Succeed(c) \/ Fail(c)
  PROVE  Serial!TakeEffect(c) \/ Serial!Fail(c)
  <1> USE GateAssumption
  <1>1. /\ thread[c] = "running" /\ Ended(c)' /\ ~ Ended(c)
        /\ slot = c /\ pc[c] \in {"awaiting", "draining"}
        /\ UNCHANGED <<pc, slot, ahead, op, ticket, generation>>
        /\ \A d \in Callers \ {c} : thread'[d] = thread[d]
    BY DEF Succeed, Fail, GateInv, TypeOK, Frames, Ended
  <1>2. Phase[c] = "open" /\ Phase' = [Phase EXCEPT ![c] = "settled"]
    <2>1. Phase[c] = "open" /\ Phase'[c] = "settled"
      BY <1>1, PhaseOf
    <2> QED BY <1>1, <2>1, PhaseStep DEF Ended
  <1>3. Before[c] = {}
    BY <1>1, OpenCalls
  <1>4. Before' = [d \in Callers |-> IF d = c THEN {} ELSE Before[d] \ {c}]
    <2>1. \A d \in Callers : pc[d] = "queued" => c \notin ahead[d]
      BY <1>1 DEF GateInv, InOrder, Queued
    <2>2. {d \in Callers : d = slot /\ ~ Ended(d)}' = {}
      BY <1>1
    <2>3. {d \in Callers : d = slot /\ ~ Ended(d)} = {c}
      BY <1>1
    <2> QED BY <1>1, <2>1, <2>2, <2>3 DEF Before
  <1>5. Serial!Close(c, "settled")
    BY <1>1, <1>2, <1>4 DEF Serial!Close
  <1>6. CASE Succeed(c)
    <2>1. IF op[c] = "write"
          THEN store' = store \cup {ticket[c]} /\ seen' = seen
          ELSE seen' = [seen EXCEPT ![c] = store] /\ store' = store
      BY <1>6 DEF Succeed, GateInv, TypeOK
    <2> QED BY <1>1, <1>3, <1>5, <2>1 DEF Serial!TakeEffect
  <1>7. CASE Fail(c)
    BY <1>5, <1>7 DEF Fail, Serial!Fail
  <1> QED BY <1>6, <1>7

\* A task leaves the slot: those that queued behind it now wait for the waiter
\* that was first, which all others queued behind.
LEMMA HandOverRefines ==
  ASSUME GateInv, NEW c \in Callers, Return(c) \/ PassOn(c) \/ Drained(c)
  PROVE  Serial!Return(c) \/ Serial!Withdraw(c)
  <1> USE GateAssumption
  <1>1. /\ slot = c /\ pc[c] \in {"granted", "awaiting", "draining"}
        /\ pc[c] = "granted" <=> ~ Ended(c)
        /\ Leave(c) /\ store' = store /\ generation' = generation
        /\ thread'[c] = "none"
        /\ \A d \in Callers \ {c} : thread'[d] = thread[d]
    BY DEF Return, PassOn, Drained, HandOver, GateInv, TypeOK, Frames, Ended
  <1>2. \E threads : HandOver(c, threads)
    BY DEF Return, PassOn, Drained
  <1>3. Serial!Forget(c)
    BY <1>1 DEF Leave, Serial!Forget
  <1>4. /\ pc'[c] = "idle"
        /\ \A d \in Callers \ {c} :
             pc'[d] = pc[d] \/ (pc[d] = "queued" /\ pc'[d] = "granted")
    BY <1>1, <1>2 DEF HandOver, First, GateInv, TypeOK
  <1>5. Phase' = [Phase EXCEPT ![c] = "idle"]
    <2>1. \A d \in Callers \ {c} : (pc'[d] = "idle" <=> pc[d] = "idle") /\ (Ended(d)' <=> Ended(d))
      BY <1>1, <1>4 DEF Ended
    <2> QED BY <1>4, <2>1, PhaseOf, PhaseStep
  <1>6. Before' = [d \in Callers |-> IF d = c THEN {} ELSE Before[d] \ {c}]
    <2>1. CASE Queued = {}
      <3>1. \A d \in Callers : pc[d] # "queued" /\ pc'[d] # "queued"
        BY <1>1, <1>4, <2>1 DEF Queued
      <3> QED BY <3>1 DEF Before
    <2>2. CASE Queued # {}
      <3>1. PICK e \in Callers : /\ First(e) /\ slot' = e
                                 /\ pc' = [pc EXCEPT ![c] = "idle", ![e] = "granted"]
                                 /\ ahead' = Forget(e)
        BY <1>2, <2>2 DEF HandOver
      <3>2. e # c /\ pc[e] = "queued" /\ ahead[e] = {} /\ ~ Ended(e)
        BY <1>1, <3>1, OpenCalls DEF First
      <3>3. {d \in Callers : d = slot /\ ~ Ended(d)}' = {e}
        BY <1>1, <3>1, <3>2 DEF Ended
      <3>4. Before[e] \ {c} = {}
        BY <1>1, <3>2 DEF Before
      <3>5. ASSUME NEW d \in Callers \ {c, e} PROVE Before'[d] = Before[d] \ {c}
        <4>1. CASE pc[d] = "queued"
          <5>1. e \in ahead[d] /\ c \notin ahead[d]
            BY <1>1, <3>2, <4>1 DEF GateInv, InOrder, Queued
          <5>2. pc'[d] = "queued" /\ ahead'[d] = ahead[d] \ {e}
            BY <3>1, <4>1 DEF Forget, GateInv, TypeOK
          <5> QED BY <1>1, <3>3, <4>1, <5>1, <5>2 DEF Before
        <4>2. CASE pc[d] # "queued"
          BY <1>4, <4>2 DEF Before
        <4> QED BY <4>1, <4>2
      <3>6. pc'[c] = "idle" /\ pc'[e] = "granted"
        BY <3>1, <3>2 DEF GateInv, TypeOK
      <3>7. Before'[c] = {} /\ Before'[e] = {}
        BY <3>6 DEF Before
      <3> QED BY <3>4, <3>5, <3>7 DEF Before
    <2> QED BY <2>1, <2>2
  <1>7. CASE pc[c] = "granted"
    <2>1. Phase[c] = "open"
      BY <1>1, <1>7, PhaseOf
    <2> QED BY <1>1, <1>3, <1>5, <1>6, <2>1 DEF Serial!Withdraw, Serial!Close
  <1>8. CASE pc[c] # "granted"
    <2>1. Phase[c] = "settled"
      BY <1>1, <1>8, PhaseOf
    <2>2. \A d \in Callers : c \notin Before[d]
      BY <1>1, <1>8 DEF Before, GateInv, InOrder, Queued
    <2>3. Before' = Before
      <3>1. Before[c] = {}
        BY <1>1, OpenCalls
      <3>2. \A d \in Callers : Before[d] \ {c} = Before[d]
        BY <2>2
      <3>3. \A d \in Callers : Before'[d] = Before[d]
        BY <1>6, <3>1, <3>2
      <3> QED BY <3>3 DEF Before
    <2> QED BY <1>1, <1>3, <1>5, <2>1, <2>3 DEF Serial!Return
  <1> QED BY <1>7, <1>8

(* A waiter withdraws, and is in nobody's way any more.                      *)
LEMMA WithdrawRefines ==
  ASSUME GateInv, NEW c \in Callers, Withdraw(c)
  PROVE  Serial!Withdraw(c)
  <1> USE GateAssumption DEF Withdraw
  <1>1. /\ ~ Ended(c) /\ slot # c /\ thread' = thread /\ slot' = slot
        /\ pc[c] = "queued" /\ pc'[c] = "idle" /\ Ended(c)' = Ended(c)
        /\ \A d \in Callers \ {c} : pc'[d] = pc[d] /\ ahead'[d] = ahead[d] \ {c}
    BY OpenCalls DEF GateInv, TypeOK, Frames, Forget, Ended
  <1>2. Phase[c] = "open" /\ Phase' = [Phase EXCEPT ![c] = "idle"]
    <2>1. Phase[c] = "open" /\ Phase'[c] = "idle"
      BY <1>1, PhaseOf
    <2> QED BY <1>1, <2>1, PhaseStep DEF Ended
  <1>3. Before' = [d \in Callers |-> IF d = c THEN {} ELSE Before[d] \ {c}]
    <2>1. {d \in Callers : d = slot /\ ~ Ended(d)}' = {d \in Callers : d = slot /\ ~ Ended(d)}
      BY <1>1 DEF Ended
    <2>2. c \notin {d \in Callers : d = slot /\ ~ Ended(d)}
      BY <1>1
    <2>3. Before'[c] = {}
      BY <1>1 DEF Before
    <2>4. ASSUME NEW d \in Callers \ {c} PROVE Before'[d] = Before[d] \ {c}
      BY <1>1, <2>1, <2>2 DEF Before
    <2> QED BY <2>3, <2>4 DEF Before
  <1> QED BY <1>2, <1>3 DEF Leave, Serial!Withdraw, Serial!Close, Serial!Forget

\* What a caller does while it has the slot, what its thread does before it
\* ends, and all that renewals do, is not seen by the serial store.
LEMMA QuietRefines ==
  ASSUME GateInv,
         \/ \E c \in Callers : Proceed(c) \/ Interrupt(c) \/ TakeLock(c)
         \/ \E r \in Renewers : ThreadStep(r) \/ RenewerStep(r)
         \/ UNCHANGED gateVars
  PROVE  UNCHANGED Serial!vars
  <1> USE GateAssumption
  <1>1. UNCHANGED <<op, ticket, slot, ahead, generation, store, seen>>
    BY DEF Proceed, Interrupt, TakeLock, ThreadStep, Succeed, Fail, RenewerStep, Renew,
      LeaveThread, Renewed, gateVars
  <1>2. \A c \in Callers : /\ Ended(c)' <=> Ended(c)
                           /\ pc'[c] = "queued" <=> pc[c] = "queued"
                           /\ pc'[c] = "idle" <=> pc[c] = "idle"
    BY DEF Proceed, Interrupt, TakeLock, ThreadStep, Succeed, Fail, RenewerStep, Renew,
      LeaveThread, Renewed, gateVars, GateInv, TypeOK, Frames, Ended
  <1>3. Phase' = Phase
    <2>1. \A c \in Callers : Phase'[c] = Phase[c]
      BY <1>2, PhaseOf
    <2> QED BY <2>1 DEF Phase
  <1>4. Before' = Before
    BY <1>1, <1>2 DEF Before
  <1> QED BY <1>1, <1>3, <1>4 DEF Serial!vars

\* To the tasks that call it, _run_blocking_persistence is a store on which
\* operations take effect one at a time, in the order of their dispatches, each
\* at most once and only while its caller is still there.
THEOREM GateImplementsSerialStore == Spec => ImplementsSerialStore
  <1>1. Init => Serial!Init
    <2> SUFFICES ASSUME Init PROVE Serial!Init
      OBVIOUS
    <2>1. \A c \in Callers : pc[c] = "idle"
      BY DEF Init
    <2>2. Phase = [c \in Callers |-> "idle"]
      BY <2>1 DEF Phase
    <2>3. Before = [c \in Callers |-> {}]
      BY <2>1 DEF Before
    <2> QED BY <2>2, <2>3 DEF Init, Serial!Init
  <1>2. GateInv /\ [Next]_gateVars => [Serial!Next]_(Serial!vars)
    <2> SUFFICES ASSUME GateInv, [Next]_gateVars PROVE [Serial!Next]_(Serial!vars)
      OBVIOUS
    <2>1. ASSUME NEW c \in Callers, NEW o \in {"read", "write"}, Dispatch(c, o)
          PROVE  Serial!Next
      BY <2>1, DispatchRefines DEF Serial!Next
    <2>2. ASSUME NEW c \in Callers, Return(c) \/ PassOn(c) \/ Drained(c) PROVE Serial!Next
      BY <2>2, HandOverRefines DEF Serial!Next
    <2>3. ASSUME NEW c \in Callers, Withdraw(c) PROVE Serial!Next
      BY <2>3, WithdrawRefines DEF Serial!Next
    <2>4. ASSUME NEW c \in Callers, Succeed(c) \/ Fail(c) PROVE Serial!Next
      BY <2>4, EndRefines DEF Serial!Next
    <2>5. ASSUME \/ \E c \in Callers : Proceed(c) \/ Interrupt(c) \/ TakeLock(c)
                 \/ \E r \in Renewers : ThreadStep(r) \/ RenewerStep(r)
                 \/ UNCHANGED gateVars
          PROVE  UNCHANGED Serial!vars
      BY <2>5, QuietRefines
    <2> QED BY <2>1, <2>2, <2>3, <2>4, <2>5 DEF Next, Cancelled, ThreadStep, Tasks
  <1> QED BY <1>1, <1>2, GateInvariant, PTL DEF Spec, ImplementsSerialStore, Serial!Spec

-----------------------------------------------------------------------------
(* Nobody waits for nobody.  The gate has three queues that feed each      *)
(* other: callers wait for the slot, threads for the connection lock, and  *)
(* callers for their threads.  Whoever waits, someone it waits for can go  *)
(* on: said with the guards of the gate's actions.                         *)

\* The queue has an order, and there are finitely many in it.
InLine ==
  /\ IsFiniteSet(Queued)
  /\ \A c \in Queued : c \notin ahead[c] /\ \A d \in ahead[c] : ahead[d] \subseteq ahead[c]

\* The lock is held by the one thread that uses the connection.
Locked == \A t \in Tasks : thread[t] = "running" <=> lock = t

\* A renewal has a thread until it is over, also when its task has left it.
Renewing ==
  \A r \in Renewers :
    /\ pc[r] \in {"idle", "awaiting", "gone"}
    /\ pc[r] = "idle" <=> thread[r] = "none"

LineInv == InLine /\ Locked /\ Renewing

\* The guard of a task's next step (Proceed, TakeLock, Succeed, Return, Drained,
\* Renewed) is met; who leaves the slot finds a first waiter if there are any.
MayGoOn(t) ==
  \/ pc[t] = "granted"
  \/ thread[t] = "waiting" /\ lock = NoCaller
  \/ thread[t] = "running"
  \/ /\ Ended(t)
     /\ t \in Callers /\ Queued # {} => \E d \in Callers : First(d)

GoesOn(t) ==
  \/ MayGoOn(t)
  \/ thread[t] = "waiting" /\ lock \in Tasks /\ MayGoOn(lock)

GateGoesOn ==
  \A t \in Tasks :
    /\ pc[t] \notin {"idle", "queued"} => GoesOn(t)
    /\ pc[t] = "queued" => slot \in Callers /\ pc[slot] # "queued" /\ GoesOn(slot)

(* At first nobody waits.                                                    *)
LEMMA LineInit == Init => LineInv
  <1> SUFFICES ASSUME Init PROVE LineInv
    OBVIOUS
  <1>1. Queued = {}
    BY DEF Init, Queued
  <1>2. InLine
    BY <1>1, FS_EmptySet DEF InLine
  <1>3. Locked /\ Renewing
    BY GateAssumption DEF Init, Locked, Renewing
  <1> QED BY <1>2, <1>3 DEF LineInv

\* A queue that at most loses a waiter keeps its order.
LEMMA LineShrinks ==
  ASSUME InLine, NEW d, Queued' \subseteq Queued \ {d},
         \A c \in Queued' : ahead'[c] = ahead[c] \ {d},
         \A c \in Queued : ahead[c] \subseteq Queued,
         \A c \in Queued \ {d} : c \in Queued'
  PROVE  InLine'
  <1>1. IsFiniteSet(Queued')
    BY FS_Subset DEF InLine
  <1>2. ASSUME NEW c \in Queued' PROVE c \notin ahead'[c] /\ \A e \in ahead'[c] : ahead'[e] \subseteq ahead'[c]
    <2>1. c \in Queued /\ ahead'[c] = ahead[c] \ {d}
      OBVIOUS
    <2>2. ASSUME NEW e \in ahead'[c] PROVE ahead'[e] \subseteq ahead'[c]
      <3>1. e \in ahead[c] /\ e \in Queued \ {d}
        BY <2>1
      <3>2. ahead'[e] = ahead[e] \ {d} /\ ahead[e] \subseteq ahead[c]
        BY <2>1, <3>1 DEF InLine
      <3> QED BY <2>1, <3>2
    <2> QED BY <2>1, <2>2 DEF InLine
  <1> QED BY <1>1, <1>2 DEF InLine

\* The queue, through every step of the gate.
LEMMA LineStep ==
  ASSUME GateInv, LineInv, [Next]_gateVars
  PROVE  InLine'
  <1> USE GateAssumption
  <1>1. \A c \in Queued : ahead[c] \subseteq Queued /\ c \in Callers
    BY DEF GateInv, InOrder, Queued
  <1>2. ASSUME Queued' = Queued, ahead' = ahead PROVE InLine'
    BY <1>2 DEF LineInv, InLine
  <1>3. ASSUME NEW c \in Callers, NEW o \in {"read", "write"}, Dispatch(c, o) PROVE InLine'
    <2>1. CASE slot = NoCaller
      <3>1. Queued' = Queued /\ ahead' = ahead
        BY <1>3, <2>1 DEF Dispatch, Queued, GateInv, TypeOK
      <3> QED BY <1>2, <3>1
    <2>2. CASE slot # NoCaller
      <3>1. /\ c \notin Queued /\ Queued' = Queued \cup {c} /\ ahead'[c] = Queued
            /\ \A e \in Callers \ {c} : ahead'[e] = ahead[e]
        BY <1>3, <2>2 DEF Dispatch, Queued, GateInv, TypeOK
      <3>2. IsFiniteSet(Queued')
        BY <3>1, FS_AddElement DEF LineInv, InLine
      <3>3. ASSUME NEW e \in Queued'
            PROVE  e \notin ahead'[e] /\ \A d \in ahead'[e] : ahead'[d] \subseteq ahead'[e]
        <4>1. CASE e = c
          BY <1>1, <3>1, <4>1
        <4>2. CASE e # c
          <5>1. e \in Queued /\ ahead'[e] = ahead[e] /\ c \notin ahead[e]
            BY <1>1, <3>1, <4>2
          <5>2. \A d \in ahead[e] : ahead'[d] = ahead[d]
            BY <1>1, <3>1, <5>1
          <5> QED BY <5>1, <5>2 DEF LineInv, InLine
        <4> QED BY <4>1, <4>2
      <3> QED BY <3>2, <3>3 DEF InLine
    <2> QED BY <2>1, <2>2
  <1>4. ASSUME NEW c \in Callers, Return(c) \/ PassOn(c) \/ Drained(c) PROVE InLine'
    <2>1. pc[c] # "queued" /\ \E threads : HandOver(c, threads)
      BY <1>4 DEF Return, PassOn, Drained
    <2>2. CASE Queued = {}
      <3>1. \A d \in Callers : pc[d] # "queued"
        BY <2>2 DEF Queued
      <3>2. Queued' = {}
        BY <2>1, <3>1 DEF HandOver, First, Queued, GateInv, TypeOK
      <3> QED BY <3>2, FS_EmptySet DEF InLine
    <2>3. CASE Queued # {}
      <3>1. PICK d \in Callers : /\ First(d)
                                 /\ pc' = [pc EXCEPT ![c] = "idle", ![d] = "granted"]
                                 /\ ahead' = Forget(d)
        BY <2>1, <2>3 DEF HandOver
      <3>2. Queued' = Queued \ {d} /\ d # c
        BY <2>1, <3>1 DEF First, Queued, GateInv, TypeOK
      <3>3. \A e \in Queued' : ahead'[e] = ahead[e] \ {d}
        BY <1>1, <3>1, <3>2 DEF Forget
      <3> QED BY <1>1, <3>2, <3>3, LineShrinks DEF LineInv
    <2> QED BY <2>2, <2>3
  <1>5. ASSUME NEW c \in Callers, Withdraw(c) PROVE InLine'
    <2>1. Queued' = Queued \ {c} /\ ahead' = Forget(c)
      BY <1>5 DEF Withdraw, Queued, GateInv, TypeOK
    <2>2. \A e \in Queued' : ahead'[e] = ahead[e] \ {c}
      BY <1>1, <2>1 DEF Forget
    <2> QED BY <1>1, <2>1, <2>2, LineShrinks DEF LineInv
  <1>6. ASSUME NEW c \in Callers, Proceed(c) \/ Interrupt(c) PROVE InLine'
    BY <1>2, <1>6 DEF Proceed, Interrupt, Queued, GateInv, TypeOK
  <1>7. ASSUME NEW t \in Tasks, ThreadStep(t) PROVE InLine'
    BY <1>2, <1>7 DEF ThreadStep, TakeLock, Succeed, Fail, Queued
  <1>8. ASSUME NEW r \in Renewers, RenewerStep(r) PROVE InLine'
    BY <1>2, <1>8 DEF RenewerStep, Renew, LeaveThread, Renewed, Queued, GateInv, TypeOK
  <1>9. CASE UNCHANGED gateVars
    BY <1>2, <1>9 DEF gateVars, Queued
  <1> QED BY <1>3, <1>4, <1>5, <1>6, <1>7, <1>8, <1>9 DEF Next, Cancelled

\* The lock and the renewals, through every step.
LEMMA LockStep ==
  ASSUME GateInv, LineInv, [Next]_gateVars
  PROVE  Locked' /\ Renewing'
  <1> USE GateAssumption
  <1>1. ASSUME lock' = lock,
               \A t \in Tasks : thread'[t] = "running" <=> thread[t] = "running"
        PROVE  Locked'
    BY <1>1 DEF LineInv, Locked
  <1>2. ASSUME \A r \in Renewers : pc'[r] = pc[r] /\ (thread'[r] = "none" <=> thread[r] = "none")
        PROVE  Renewing'
    BY <1>2 DEF LineInv, Renewing
  <1>3. ASSUME NEW c \in Callers,
               \/ \E o \in {"read", "write"} : Dispatch(c, o)
               \/ Proceed(c) \/ Withdraw(c) \/ Interrupt(c)
        PROVE  Locked' /\ Renewing'
    <2>1. thread[c] # "running" \/ thread' = thread
      BY <1>3 DEF Dispatch, Proceed, Withdraw, Interrupt, GateInv, Frames
    <2>2. /\ lock' = lock
          /\ \A t \in Tasks \ {c} : thread'[t] = thread[t]
          /\ thread'[c] \in {"waiting", thread[c]}
          /\ \A r \in Renewers : pc'[r] = pc[r]
      BY <1>3 DEF Dispatch, Proceed, Withdraw, Interrupt, GateInv, TypeOK
    <2> QED BY <1>1, <1>2, <2>1, <2>2
  <1>4. ASSUME NEW c \in Callers, Return(c) \/ PassOn(c) \/ Drained(c) PROVE Locked' /\ Renewing'
    <2>1. thread[c] # "running"
      BY <1>4 DEF Return, PassOn, Drained, Ended, GateInv, Frames
    <2>2. /\ lock' = lock
          /\ \A t \in Tasks \ {c} : thread'[t] = thread[t]
          /\ thread'[c] \in {"none", thread[c]}
          /\ \A r \in Renewers : pc'[r] = pc[r]
      BY <1>4 DEF Return, PassOn, Drained, HandOver, GateInv, TypeOK
    <2> QED BY <1>1, <1>2, <2>1, <2>2
  <1>5. ASSUME NEW t \in Tasks, ThreadStep(t) PROVE Locked' /\ Renewing'
    <2>1. /\ thread[t] # "none" /\ thread'[t] # "none" /\ pc' = pc /\ t # NoCaller
          /\ \A u \in Tasks \ {t} : thread'[u] = thread[u]
          /\ \/ lock = NoCaller /\ lock' = t /\ thread'[t] = "running"
             \/ thread[t] = "running" /\ lock' = NoCaller /\ thread'[t] # "running"
      BY <1>5 DEF ThreadStep, TakeLock, Succeed, Fail, GateInv, TypeOK
    <2>2. Locked'
      BY <2>1 DEF LineInv, Locked
    <2> QED BY <1>2, <2>1, <2>2
  <1>6. ASSUME NEW r \in Renewers, RenewerStep(r) PROVE Locked' /\ Renewing'
    <2>1. /\ lock' = lock
          /\ \A u \in Tasks \ {r} : thread'[u] = thread[u] /\ pc'[u] = pc[u]
          /\ \/ pc[r] = "idle" /\ pc'[r] = "awaiting" /\ thread'[r] = "waiting"
             \/ pc[r] = "awaiting" /\ pc'[r] = "gone" /\ thread'[r] = thread[r]
             \/ Ended(r) /\ pc'[r] = "idle" /\ thread'[r] = "none"
      BY <1>6 DEF RenewerStep, Renew, LeaveThread, Renewed, GateInv, TypeOK
    <2>2. Renewing'
      BY <2>1 DEF LineInv, Renewing
    <2>3. thread[r] # "running" \/ thread'[r] = thread[r]
      BY <2>1 DEF LineInv, Renewing, Ended
    <2>4. thread'[r] = "running" <=> thread[r] = "running"
      BY <2>1, <2>3
    <2> QED BY <1>1, <2>1, <2>2, <2>4
  <1>7. CASE UNCHANGED gateVars
    BY <1>1, <1>2, <1>7 DEF gateVars
  <1> QED BY <1>3, <1>4, <1>5, <1>6, <1>7 DEF Next, Cancelled

(* A queue that is not empty has a first waiter.                             *)
LEMMA LineHasAFirst ==
  ASSUME GateInv, InLine, Queued # {}
  PROVE  \E d \in Callers : First(d)
  <1> DEFINE Places == {Cardinality(ahead[c]) : c \in Queued}
             R == {ss \in Nat \X Nat : ss[1] < ss[2]}
  <1>1. \A c \in Queued : /\ c \in Callers /\ ahead[c] \subseteq Queued /\ IsFiniteSet(ahead[c])
                          /\ Cardinality(ahead[c]) \in Nat
    <2>1. \A c \in Queued : c \in Callers /\ ahead[c] \subseteq Queued
      BY DEF GateInv, InOrder, Queued
    <2> QED BY <2>1, FS_Subset, FS_CardinalityType DEF InLine
  <1>2. Places \subseteq Nat /\ Places # {}
    BY <1>1
  <1>3. IsWellFoundedOn(R, Nat)
    BY NatLessThanWellFounded DEF OpToRel
  <1>4. PICK n \in Places : \A m \in Places : ~ (<<m, n>> \in R)
    <2> HIDE DEF R, Places
    <2> QED BY <1>2, <1>3, WFMin
  <1>5. PICK c \in Queued : n = Cardinality(ahead[c])
    OBVIOUS
  <1>6. ASSUME NEW d \in ahead[c] PROVE FALSE
    <2>1. d \in Queued /\ d \notin ahead[d] /\ ahead[d] \subseteq ahead[c]
      BY <1>1 DEF InLine
    <2>2. Cardinality(ahead[d]) < Cardinality(ahead[c])
      <3>1. /\ Cardinality(ahead[d]) <= Cardinality(ahead[c])
            /\ Cardinality(ahead[d]) = Cardinality(ahead[c]) => ahead[d] = ahead[c]
        BY <1>1, <2>1, FS_Subset
      <3> QED BY <1>1, <2>1, <3>1
    <2>3. <<Cardinality(ahead[d]), n>> \in Nat \X Nat
      BY <1>1, <1>5, <2>1
    <2>4. <<Cardinality(ahead[d]), n>> \in R
      BY <1>5, <2>2, <2>3
    <2> QED BY <1>4, <2>1, <2>4
  <1> QED BY <1>1, <1>6 DEF First, Queued

(* So there is always someone who can go on.                                 *)
LEMMA SomeoneGoesOn == GateInv /\ LineInv => GateGoesOn
  <1> SUFFICES ASSUME GateInv, LineInv PROVE GateGoesOn
    OBVIOUS
  <1> USE GateAssumption
  <1>1. Queued # {} => \E d \in Callers : First(d)
    BY LineHasAFirst DEF LineInv
  <1>2. ASSUME NEW t \in Tasks, thread[t] # "none" \/ pc[t] = "granted" PROVE GoesOn(t)
    <2>1. thread[t] \in {"none", "waiting", "running", "done", "failed"} /\ lock \in Tasks \cup {NoCaller}
      BY DEF GateInv, TypeOK
    <2>2. lock \in Tasks => MayGoOn(lock)
      BY DEF LineInv, Locked, MayGoOn
    <2> QED BY <1>1, <1>2, <2>1, <2>2 DEF GoesOn, MayGoOn, Ended
  <1>3. ASSUME NEW t \in Tasks, pc[t] \notin {"idle", "queued"} PROVE GoesOn(t)
    <2>1. thread[t] # "none" \/ pc[t] = "granted"
      BY <1>3 DEF GateInv, TypeOK, Frames, LineInv, Renewing
    <2> QED BY <1>2, <2>1
  <1>4. ASSUME NEW t \in Tasks, pc[t] = "queued"
        PROVE  slot \in Callers /\ pc[slot] # "queued" /\ GoesOn(slot)
    <2>1. t \in Queued
      BY <1>4 DEF Queued, LineInv, Renewing
    <2>2. slot \in Callers
      BY <2>1 DEF GateInv, TypeOK, SlotFree
    <2>3. pc[slot] \in {"granted", "awaiting", "draining"}
      BY <2>2 DEF GateInv, Frames
    <2> QED BY <1>3, <2>2, <2>3
  <1> QED BY <1>3, <1>4 DEF GateGoesOn

\* _run_blocking_persistence and _run_lease_persistence never wait for each
\* other in a circle: whoever is not idle can take its next step, or waits for
\* the thread at the connection, or for the holder of the slot, who can or waits
\* for that thread.  With the fairness of the event loop and the database this is
\* why every call ends (CallsEnd).
THEOREM GateAlwaysGoesOn == Spec => []GateGoesOn
  <1>1. Init => LineInv
    BY LineInit
  <1>2. GateInv /\ LineInv /\ [Next]_gateVars => LineInv'
    BY LineStep, LockStep DEF LineInv
  <1> QED BY <1>1, <1>2, SomeoneGoesOn, GateInvariant, PTL DEF Spec

-----------------------------------------------------------------------------
(* ReadinessReuse: the gate as two caches use it.                          *)

\* What is kept is sound: a memo up to its tag, the runtime's entry up to the
\* generation when its assessment was dispatched; a caller that reads for a
\* cache has dispatched a read.
ReuseInv ==
  /\ ReuseTypeOK
  /\ \A c \in Callers : kind[c] # "none" => op[c] = "read" /\ pc[c] # "idle"
  /\ \A c \in Passes : memo[c] # NoEntry => Sound(memo[c].seen, memo[c].gen)
  /\ cache # NoEntry => Sound(cache.seen, cache.base)

\* Every step is one of the gate's.
LEMMA ReuseIsGate == [ReuseNext]_vars => [Next]_gateVars
  BY DEF ReuseNext, vars, DispatchOther, Assess, AssessWithMemo, EndPass, ReturnAndKeep,
    CancelledReader, GateStep, Next, Cancelled

(* Keeping readiness results adds no behaviour to the persistence gate: read *)
(* and memoized_assess only dispatch and return.                             *)
THEOREM ReuseImplementsGate == ReuseSpec => Spec
  BY ReuseIsGate, PTL DEF ReuseSpec, Spec, ReuseInit

\* Evidence that is sound stays so: a new write has a later ticket than all
\* before it, and one that commits was pending.
LEMMA SoundStays ==
  ASSUME GateInv, [Next]_gateVars, NEW S, NEW b \in Nat, Sound(S, b)
  PROVE  Sound(S, b)'
  <1> USE GateAssumption DEF GateInv
  <1>1. CASE UNCHANGED gateVars
    BY <1>1 DEF gateVars, Sound, Pending, Alive
  <1>2. ASSUME NEW c \in Callers, NEW o \in {"read", "write"}, Dispatch(c, o) PROVE Sound(S, b)'
    BY <1>2 DEF Dispatch, Stamp, Sound, Pending, Alive, TypeOK
  <1>3. ASSUME NEW c \in Callers, Succeed(c) PROVE Sound(S, b)'
    BY <1>3 DEF Succeed, Sound, Pending, Alive, TypeOK
  <1>4. ASSUME UNCHANGED <<generation, store>>,
               \A w \in Callers : Pending(w)' => Pending(w) /\ ticket'[w] = ticket[w]
        PROVE  Sound(S, b)'
    BY <1>4 DEF Sound
  <1>5. ASSUME NEW c \in Callers, Return(c) \/ PassOn(c) \/ Drained(c) PROVE Sound(S, b)'
    <2>1. UNCHANGED <<generation, store>>
      BY <1>5 DEF Return, PassOn, Drained
    <2>2. \A w \in Callers : Pending(w)' => Pending(w) /\ ticket'[w] = ticket[w]
      BY <1>5 DEF Return, PassOn, Drained, HandOver, Leave, Pending, Alive, TypeOK, First, Frames
    <2> QED BY <2>1, <2>2, <1>4
  <1>6. ASSUME NEW c \in Callers, Proceed(c) \/ Interrupt(c) \/ Withdraw(c) PROVE Sound(S, b)'
    <2>1. UNCHANGED <<generation, store>>
      BY <1>6 DEF Proceed, Interrupt, Withdraw
    <2>2. \A w \in Callers : Pending(w)' => Pending(w) /\ ticket'[w] = ticket[w]
      BY <1>6 DEF Proceed, Interrupt, Withdraw, Leave, Pending, Alive, TypeOK, Frames
    <2> QED BY <2>1, <2>2, <1>4
  <1>7. ASSUME NEW t \in Tasks, TakeLock(t) \/ Fail(t) \/ (t \in Renewers /\ Succeed(t)) PROVE Sound(S, b)'
    <2>1. UNCHANGED <<generation, store>>
      BY <1>7 DEF TakeLock, Fail, Succeed
    <2>2. \A w \in Callers : Pending(w)' => Pending(w) /\ ticket'[w] = ticket[w]
      BY <1>7 DEF TakeLock, Fail, Succeed, Pending, Alive, TypeOK
    <2> QED BY <2>1, <2>2, <1>4
  <1>8. ASSUME NEW r \in Renewers, RenewerStep(r) PROVE Sound(S, b)'
    <2>1. UNCHANGED <<generation, store>>
      BY <1>8 DEF RenewerStep, Renew, LeaveThread, Renewed
    <2>2. \A w \in Callers : Pending(w)' => Pending(w) /\ ticket'[w] = ticket[w]
      BY <1>8 DEF RenewerStep, Renew, LeaveThread, Renewed, Pending, Alive, TypeOK
    <2> QED BY <2>1, <2>2, <1>4
  <1> QED BY <1>1, <1>2, <1>3, <1>5, <1>6, <1>7, <1>8 DEF Next, Cancelled, ThreadStep

(* Initially nothing is kept.                                                *)
LEMMA ReuseInitInv == ReuseInit => ReuseInv
  BY GateInit, ReuseAssumption DEF GateInv, ReuseInit, ReuseInv, ReuseTypeOK, Entries

\* The types, and what a caller that reads for a cache is doing.
LEMMA ReuseTypes ==
  ASSUME GateInv, GateInv', ReuseInv, [ReuseNext]_vars
  PROVE  /\ ReuseTypeOK'
         /\ \A c \in Callers : kind'[c] # "none" => op'[c] = "read" /\ pc'[c] # "idle"
  <1> USE GateAssumption, ReuseAssumption DEF ReuseInv, ReuseTypeOK
  <1>t. TypeOK /\ TypeOK'
    BY DEF GateInv
  <1>1. CASE UNCHANGED vars
    BY <1>1, <1>t DEF vars, gateVars, reuseVars
  <1>2. ASSUME NEW c \in Callers, NEW o \in {"read", "write"}, Resting(c), Dispatch(c, o),
               NEW k \in {"none", "evidence", "durable", "memo"},
               k # "none" => o = "read",
               kind' = [kind EXCEPT ![c] = k], UNCHANGED <<cache, memo>>
        PROVE  /\ ReuseTypeOK'
               /\ \A d \in Callers : kind'[d] # "none" => op'[d] = "read" /\ pc'[d] # "idle"
    BY <1>2, <1>t DEF Dispatch, Resting, TypeOK
  <1>3. ASSUME NEW c \in Callers, NEW o \in {"read", "write"}, DispatchOther(c, o)
        PROVE  kind' = [kind EXCEPT ![c] = "none"]
    BY <1>3 DEF DispatchOther, Resting, reuseVars
  <1>4. ASSUME NEW c \in Callers, EndPass(c)
        PROVE  /\ ReuseTypeOK'
               /\ \A d \in Callers : kind'[d] # "none" => op'[d] = "read" /\ pc'[d] # "idle"
    BY <1>4, <1>t DEF EndPass, gateVars
  <1>5. ASSUME NEW c \in Callers, kind' = [kind EXCEPT ![c] = "none"],
               cache' \in Entries \cup {NoEntry}, memo' \in [Passes -> Entries \cup {NoEntry}],
               \A d \in Callers \ {c} : op'[d] = op[d] /\ (pc[d] # "idle" => pc'[d] # "idle")
        PROVE  /\ ReuseTypeOK'
               /\ \A d \in Callers : kind'[d] # "none" => op'[d] = "read" /\ pc'[d] # "idle"
    BY <1>5, <1>t
  <1>6. ASSUME NEW c \in Callers, Return(c) \/ Withdraw(c) \/ PassOn(c) \/ Drained(c)
        PROVE  \A d \in Callers \ {c} : op'[d] = op[d] /\ (pc[d] # "idle" => pc'[d] # "idle")
    BY <1>6, <1>t DEF Return, Withdraw, PassOn, Drained, HandOver, Leave, First, TypeOK
  <1>7. ASSUME NEW c \in Callers, ReturnAndKeep(c)
        PROVE  cache' \in Entries \cup {NoEntry} /\ memo' \in [Passes -> Entries \cup {NoEntry}]
    <2>1. Result(c, TagNow(c)) \in Entries /\ Result(c, TagAtDispatch(c)) \in Entries
      BY <1>t DEF Result, TagNow, TagAtDispatch, Entries, TypeOK
    <2> QED BY <1>7, <2>1 DEF ReturnAndKeep, Keep
  <1>8. ASSUME GateStep
        PROVE  /\ ReuseTypeOK'
               /\ \A d \in Callers : kind'[d] # "none" => op'[d] = "read" /\ pc'[d] # "idle"
    <2>1. op' = op /\ \A d \in Callers : pc[d] # "idle" => pc'[d] # "idle"
      BY <1>8, <1>t DEF GateStep, Proceed, Interrupt, ThreadStep, TakeLock, Succeed, Fail,
        RenewerStep, Renew, LeaveThread, Renewed, TypeOK
    <2> QED BY <1>8, <1>t, <2>1 DEF GateStep, reuseVars
  <1>9. CASE ReuseNext
    <2>1. CASE \E c \in Callers, o \in {"read", "write"} : DispatchOther(c, o)
      BY <2>1, <1>2, <1>3 DEF DispatchOther, reuseVars
    <2>2. CASE \E c \in Callers, k \in {"evidence", "durable"} : Assess(c, k)
      BY <2>2, <1>2 DEF Assess
    <2>3. CASE \E c \in Callers : AssessWithMemo(c)
      BY <2>3, <1>2 DEF AssessWithMemo
    <2>4. CASE \E c \in Callers : EndPass(c)
      BY <2>4, <1>4
    <2>5. CASE \E c \in Callers : ReturnAndKeep(c)
      BY <2>5, <1>5, <1>6, <1>7 DEF ReturnAndKeep
    <2>6. CASE \E c \in Callers : CancelledReader(c)
      BY <2>6, <1>5, <1>6 DEF CancelledReader
    <2> QED BY <1>8, <1>9, <2>1, <2>2, <2>3, <2>4, <2>5, <2>6 DEF ReuseNext
  <1> QED BY <1>1, <1>9

(* Every step that keeps, drops or hands out a result keeps the invariant.   *)
LEMMA ReuseStepInv ==
  ASSUME GateInv, GateInv', ReuseInv, [ReuseNext]_vars
  PROVE  ReuseInv'
  <1> USE GateAssumption, ReuseAssumption
  <1>1. [Next]_gateVars
    BY ReuseIsGate
  <1>2. \A e \in Entries : e.gen \in Nat /\ e.base \in Nat
    BY DEF Entries
  <1>3. \A e \in Entries, b \in Nat : Sound(e.seen, b) => Sound(e.seen, b)'
    BY <1>1, SoundStays
  <1>4. ASSUME UNCHANGED cache \/ cache' = NoEntry
        PROVE  cache' # NoEntry => Sound(cache.seen, cache.base)' /\ cache' = cache
    BY <1>4, <1>2, <1>3 DEF ReuseInv, ReuseTypeOK
  <1>5. ASSUME NEW c \in Passes, memo'[c] = memo[c] \/ memo'[c] = NoEntry
        PROVE  memo'[c] # NoEntry => Sound(memo[c].seen, memo[c].gen)' /\ memo'[c] = memo[c]
    BY <1>5, <1>2, <1>3 DEF ReuseInv, ReuseTypeOK
  <1>6. ASSUME NEW c \in Callers, ReturnAndKeep(c), kind[c] # "none", thread[c] = "done",
               NEW e \in Entries, e.seen = seen[c], e.base = ticket[c]
        PROVE  Sound(e.seen, e.base)'
    <2>1. Sound(seen[c], ticket[c])
      BY <1>6 DEF GateInv, Settled, ReuseInv
    <2>2. Sound(e.seen, e.base)
      BY <1>6, <2>1 DEF Sound
    <2> QED BY <2>2, <1>2, <1>3
  <1>7. ASSUME NEW c \in Callers, ReturnAndKeep(c), cache' # NoEntry
        PROVE  Sound(cache.seen, cache.base)'
    <2>1. CASE kind[c] = "evidence" /\ thread[c] = "done"
      <3>1. PICK e \in Entries : e = Result(c, TagNow(c))
        BY DEF Result, TagNow, Entries, GateInv, TypeOK
      <3>2. cache' = e /\ e.seen = seen[c] /\ e.base = ticket[c]
        BY <1>7, <2>1, <3>1 DEF ReturnAndKeep, Keep, Result
      <3>3. Sound(e.seen, e.base)'
        BY <1>6, <1>7, <2>1, <3>2
      <3> QED BY <3>2, <3>3 DEF Sound
    <2>2. CASE ~ (kind[c] = "evidence" /\ thread[c] = "done")
      BY <1>4, <1>7, <2>2 DEF ReturnAndKeep, Keep
    <2> QED BY <2>1, <2>2
  <1>8. ASSUME NEW c \in Callers, ReturnAndKeep(c), NEW m \in Passes, memo'[m] # NoEntry
        PROVE  Sound(memo[m].seen, memo[m].gen)'
    <2>1. CASE m = c /\ kind[c] = "memo" /\ thread[c] = "done"
      <3>1. PICK e \in Entries : e = Result(c, TagAtDispatch(c))
        BY DEF Result, TagAtDispatch, Entries, GateInv, TypeOK
      <3>2. memo'[m] = e /\ e.seen = seen[c] /\ e.base = ticket[c] /\ e.gen = ticket[c]
        BY <1>8, <2>1, <3>1 DEF ReturnAndKeep, Keep, Result, TagAtDispatch, ReuseInv, ReuseTypeOK
      <3>3. Sound(e.seen, e.base)'
        BY <1>6, <1>8, <2>1, <3>2
      <3> QED BY <3>2, <3>3 DEF Sound
    <2>2. CASE ~ (m = c /\ kind[c] = "memo" /\ thread[c] = "done")
      <3>1. memo'[m] = memo[m]
        BY <1>8, <2>2 DEF ReturnAndKeep, Keep, ReuseInv, ReuseTypeOK
      <3> QED BY <3>1, <1>5, <1>8
    <2> QED BY <2>1, <2>2
  <1>9. ASSUME UNCHANGED cache, \A m \in Passes : memo'[m] = memo[m] \/ memo'[m] = NoEntry
        PROVE  ReuseInv'
    BY <1>9, <1>4, <1>5, ReuseTypes DEF ReuseInv
  <1>10. CASE \E c \in Callers : ReturnAndKeep(c)
    BY <1>10, <1>7, <1>8, ReuseTypes DEF ReuseInv
  <1>11. CASE ~ \E c \in Callers : ReturnAndKeep(c)
    <2>1. UNCHANGED cache
      BY <1>11 DEF ReuseNext, vars, reuseVars, DispatchOther, Assess, AssessWithMemo, EndPass,
        CancelledReader, GateStep
    <2>2. \A m \in Passes : memo'[m] = memo[m] \/ memo'[m] = NoEntry
      BY <1>11 DEF ReuseNext, vars, reuseVars, DispatchOther, Assess, AssessWithMemo, EndPass,
        CancelledReader, GateStep, ReuseInv, ReuseTypeOK
    <2> QED BY <2>1, <2>2, <1>9
  <1> QED BY <1>10, <1>11

\* Both caches stay sound, whatever runs through the gate.
THEOREM ReuseInvariant == ReuseSpec => []ReuseInv
  <1>1. ReuseSpec => []GateInv
    BY ReuseImplementsGate, GateInvariant, PTL
  <1>2. GateInv /\ GateInv' /\ ReuseInv /\ [ReuseNext]_vars => ReuseInv'
    BY ReuseStepInv
  <1> QED BY <1>1, <1>2, ReuseInitInv, PTL DEF ReuseSpec

\* Every variable of the reuse keeps its type.
THEOREM ReuseTypesHold == ReuseSpec => []ReuseTypeOK
  <1>1. ReuseInv => ReuseTypeOK
    BY DEF ReuseInv
  <1> QED BY <1>1, ReuseInvariant, PTL

\* A memo that may be handed out holds exactly the committed writes.
THEOREM MemosAreCurrent == ReuseSpec => []MemoIsCurrent
  <1>1. GateInv /\ ReuseInv => MemoIsCurrent
    <2> SUFFICES ASSUME GateInv, ReuseInv, NEW c \in Passes, Current(memo[c])
                 PROVE  memo[c].seen = store
      BY DEF MemoIsCurrent
    <2>1. memo[c] \in Entries /\ memo[c].gen = generation /\ Sound(memo[c].seen, memo[c].gen)
      BY DEF Current, ReuseInv, ReuseTypeOK
    <2>2. \A t \in store : t \in Nat /\ t <= generation
      BY DEF GateInv, TypeOK, Tickets
    <2>3. memo[c].seen \subseteq store
      BY <2>1 DEF Sound
    <2>4. ASSUME NEW t \in store, t \notin memo[c].seen
          PROVE  FALSE
      BY <2>1, <2>2, <2>4 DEF Sound, GateInv, TypeOK
    <2> QED BY <2>3, <2>4
  <1> QED BY <1>1, ReuseImplementsGate, GateInvariant, ReuseInvariant, PTL

\* The runtime's entry misses only writes dispatched while it was assessed.
THEOREM TheCacheMissesOnlyOverlap == ReuseSpec => []CacheMissesOnlyOverlap
  <1>1. GateInv /\ ReuseInv => CacheMissesOnlyOverlap
    BY DEF GateInv, TypeOK, Tickets, ReuseInv, ReuseTypeOK, Current, Sound, CacheMissesOnlyOverlap
  <1> QED BY <1>1, ReuseImplementsGate, GateInvariant, ReuseInvariant, PTL

-----------------------------------------------------------------------------
(* For any number of calls and requirements: every running acquisition can   *)
(* be joined, and acquisitions overlap only if a follower made one of them.  *)

EnsureRecord ==
  [pc : {"idle", "reading", "joined", "rereading", "owner", "draining", "ended"},
   wanted : SUBSET Requirements, background : BOOLEAN, joined : SUBSET Calls]

TaskRecord ==
  [state : {"none", "running", "unwinding", "done", "raised"},
   targets : SUBSET Requirements, timedOut : SUBSET Requirements, after : SUBSET Calls]

BeforeOwning == {"idle", "reading", "joined", "rereading"}

(* A call has no task before it registers one.                               *)
NoTaskYet == \A c \in Calls : ensure[c].pc \in BeforeOwning => task[c] = NoTask

(* Only a call that waits for flights, or has, names any, and those it has   *)
(* waited for are done for good.                                             *)
JoinedThenDone ==
  \A c \in Calls :
     /\ ensure[c].pc \in {"idle", "reading"} => ensure[c].joined = {}
     /\ ensure[c].pc \in {"joined", "rereading"} => ensure[c].joined # {}
     /\ ensure[c].pc = "rereading" => \A f \in ensure[c].joined : task[f].state = "done"

AfterDone == \A c \in Calls : \A f \in task[c].after : task[f].state = "done"

FlightInv ==
  /\ FlightTypeOK /\ ActiveIsListed /\ OverlapOnlyByFollowers
  /\ NoTaskYet /\ JoinedThenDone /\ AfterDone

-----------------------------------------------------------------------------
(* Initially nothing runs.                                                   *)
LEMMA FlightInitInv == FlightInit => FlightInv
BY DEF FlightInit, FlightInv, FlightTypeOK, ActiveIsListed, OverlapOnlyByFollowers, NoTaskYet,
       JoinedThenDone, AfterDone, NoTask, NotCalled, Active

(* A step of call c that leaves flights and tasks alone, and gives c no      *)
(* flights that have not finished.                                           *)
LEMMA OnlyTheCall ==
  ASSUME FlightInv, NEW c \in Calls, NEW e,
         UNCHANGED <<flights, task>>, ensure' = [ensure EXCEPT ![c] = e],
         e \in EnsureRecord,
         e.pc \in BeforeOwning => task[c] = NoTask,
         e.pc \in {"idle", "reading"} => e.joined = {},
         e.pc \in {"joined", "rereading"} => e.joined # {},
         e.pc = "rereading" => \A f \in e.joined : task[f].state = "done"
  PROVE  FlightInv'
<1>1. FlightTypeOK'
  BY DEF FlightInv, FlightTypeOK, EnsureRecord
<1>2. NoTaskYet' /\ JoinedThenDone'
  BY DEF FlightInv, FlightTypeOK, NoTaskYet, JoinedThenDone
<1> QED
  BY <1>1, <1>2
  DEF FlightInv, ActiveIsListed, OverlapOnlyByFollowers, AfterDone, Active

(* A task that has ended, or unwinds, disturbs nobody.                       *)
LEMMA OnlyTheTask ==
  ASSUME FlightInv, NEW c \in Calls, NEW e \in TaskRecord, Active(c),
         e.state \in {"unwinding", "done", "raised"},
         e.targets = task[c].targets, e.after = task[c].after,
         UNCHANGED flights, task' = [task EXCEPT ![c] = e],
         ensure' \in [Calls -> EnsureRecord],
         \A d \in Calls : \/ ensure'[d] = ensure[d]
                          \/ ensure'[d].pc \in {"owner", "draining", "ended"}
  PROVE  FlightInv'
<1>1. /\ task'[c] = e
      /\ \A d \in Calls : d # c => task'[d] = task[d]
      /\ task' \in [Calls -> TaskRecord]
  BY DEF FlightInv, FlightTypeOK, TaskRecord
<1>2. FlightTypeOK'
  BY <1>1 DEF FlightInv, FlightTypeOK, TaskRecord, EnsureRecord
<1>3. \A d \in Calls : /\ task'[d].targets = task[d].targets
                       /\ task'[d].after = task[d].after
                       /\ Active(d)' => Active(d)
                       /\ task[d].state = "done" => task'[d].state = "done"
  BY <1>1 DEF Active
<1>4. ActiveIsListed'
  BY <1>3 DEF FlightInv, ActiveIsListed
<1>5. OverlapOnlyByFollowers'
  BY <1>3 DEF FlightInv, OverlapOnlyByFollowers
<1>6. NoTaskYet'
  <2>1. task[c] # NoTask
    BY DEF Active, NoTask
  <2> QED
    BY <1>1, <2>1 DEF FlightInv, NoTaskYet, BeforeOwning
<1>7. AfterDone'
  <2>1. \A d \in Calls : task[d].after \subseteq Calls
    BY DEF FlightInv, FlightTypeOK
  <2> QED
    BY <1>3, <2>1 DEF FlightInv, AfterDone
<1>8. JoinedThenDone'
  <2>1. \A d \in Calls : ensure[d].joined \subseteq Calls
    BY DEF FlightInv, FlightTypeOK
  <2> QED
    BY <1>3, <2>1 DEF FlightInv, JoinedThenDone
<1> QED
  BY <1>2, <1>4, <1>5, <1>6, <1>7, <1>8 DEF FlightInv

(* A flight is registered by a call that overlaps nothing, or has waited.    *)
LEMMA Registering ==
  ASSUME FlightInv, NEW c \in Calls, NEW plan \in SUBSET Requirements,
         RegisterFlight(c, plan),
         \/ ensure[c].pc = "reading" /\ Overlapping(plan) = {}
         \/ ensure[c].pc = "rereading"
  PROVE  FlightInv'
<1> DEFINE e == [state |-> "running", targets |-> plan, timedOut |-> {},
                 after |-> ensure[c].joined]
<1>1. task' = [task EXCEPT ![c] = e]
  BY DEF RegisterFlight
<1>2. task[c] = NoTask /\ ~Active(c)
  BY DEF FlightInv, NoTaskYet, BeforeOwning, Active, NoTask
<1>3. \A f \in ensure[c].joined : f \in Calls /\ task[f].state = "done"
  BY DEF FlightInv, FlightTypeOK, JoinedThenDone
<1>4. FlightTypeOK'
  <2>1. e \in TaskRecord
    BY <1>3 DEF TaskRecord
  <2>2. task' \in [Calls -> TaskRecord]
    BY <1>1, <2>1 DEF FlightInv, FlightTypeOK, TaskRecord
  <2> QED
    BY <2>2 DEF FlightInv, FlightTypeOK, RegisterFlight, NotCalled, TaskRecord
<1>5. \A d \in Calls : d # c => task'[d] = task[d]
  BY <1>1 DEF FlightInv, FlightTypeOK
<1>6. task'[c] = e
  BY <1>1 DEF FlightInv, FlightTypeOK
<1>7. ActiveIsListed'
  BY <1>5 DEF FlightInv, ActiveIsListed, RegisterFlight, Active
<1>8. c \notin ensure[c].joined
  BY <1>2, <1>3 DEF NoTask
<1>9. AfterDone'
  <2>1. \A d \in Calls : c \notin task[d].after
    BY <1>2 DEF FlightInv, AfterDone, NoTask
  <2>2. \A d \in Calls : task[d].after \subseteq Calls
    BY DEF FlightInv, FlightTypeOK
  <2> QED
    BY <1>3, <1>5, <1>6, <1>8, <2>1, <2>2 DEF FlightInv, AfterDone
<1>10. NoTaskYet' /\ JoinedThenDone'
  <2>1. /\ ensure'[c].pc = "owner"
        /\ \A d \in Calls : d # c => ensure'[d] = ensure[d]
    BY DEF FlightInv, FlightTypeOK, RegisterFlight, NotCalled
  <2>2. \A d \in Calls : ensure[d].joined \subseteq Calls
    BY DEF FlightInv, FlightTypeOK
  <2>3. \A d \in Calls : ensure[d].pc = "rereading" => c \notin ensure[d].joined
    BY <1>2 DEF FlightInv, JoinedThenDone, NoTask
  <2> QED
    BY <1>5, <2>1, <2>2, <2>3 DEF FlightInv, NoTaskYet, JoinedThenDone, BeforeOwning
<1>11. OverlapOnlyByFollowers'
  <2>1. ASSUME NEW d \in Calls, d # c, Active(d)', task'[d].targets \cap plan # {}
        PROVE  /\ task'[c].after # {}
               /\ c \notin task'[d].after /\ d \notin task'[c].after
    <3>1. Active(d) /\ d \in flights
      BY <1>5, <2>1 DEF FlightInv, ActiveIsListed, Active
    <3>2. ensure[c].pc = "rereading"
      BY <1>5, <2>1, <3>1 DEF Overlapping
    <3>3. ensure[c].joined # {}
      BY <3>2 DEF FlightInv, JoinedThenDone
    <3>4. d \notin ensure[c].joined
      BY <1>3, <3>1 DEF Active
    <3>5. c \notin task[d].after
      BY <1>2 DEF FlightInv, AfterDone, NoTask
    <3> QED
      BY <1>5, <1>6, <2>1, <3>3, <3>4, <3>5
  <2> QED
    BY <1>5, <1>6, <2>1 DEF FlightInv, OverlapOnlyByFollowers, Active
<1> QED
  BY <1>4, <1>7, <1>9, <1>10, <1>11 DEF FlightInv

-----------------------------------------------------------------------------
(* Every step preserves the invariant.                                       *)
LEMMA FlightStepInv == FlightInv /\ [FlightNext]_flightVars => FlightInv'
<1> SUFFICES ASSUME FlightInv, [FlightNext]_flightVars PROVE FlightInv'
  OBVIOUS
<1>0. /\ ensure \in [Calls -> EnsureRecord] /\ task \in [Calls -> TaskRecord]
      /\ flights \subseteq Calls
  BY DEF FlightInv, FlightTypeOK, EnsureRecord, TaskRecord
<1>1. ASSUME NEW c \in Calls, UNCHANGED <<flights, task>>, End(c)
      PROVE  FlightInv'
  <2> DEFINE e == [NotCalled EXCEPT !.pc = "ended"]
  <2>1. e \in EnsureRecord /\ e.pc = "ended"
    BY DEF NotCalled, EnsureRecord
  <2>2. ensure' = [ensure EXCEPT ![c] = e]
    BY <1>1 DEF End
  <2> QED
    BY <1>1, <2>1, <2>2, OnlyTheCall DEF BeforeOwning
<1>2. ASSUME NEW c \in Calls, NEW wanted \in SUBSET Requirements, NEW background \in BOOLEAN,
             Ensure(c, wanted, background)
      PROVE  FlightInv'
  <2> DEFINE e == [ensure[c] EXCEPT !.pc = "reading", !.wanted = wanted,
                                    !.background = background]
  <2>1. ensure[c] \in EnsureRecord /\ ensure[c].joined = {} /\ ensure[c].pc = "idle"
    BY <1>0, <1>2 DEF Ensure, FlightInv, JoinedThenDone
  <2>2. e \in EnsureRecord /\ e.pc = "reading" /\ e.joined = {}
    BY <2>1 DEF EnsureRecord
  <2>3. ensure' = [ensure EXCEPT ![c] = e] /\ UNCHANGED <<flights, task>>
    BY <1>2 DEF Ensure
  <2>4. task[c] = NoTask
    BY <2>1 DEF FlightInv, NoTaskYet, BeforeOwning
  <2> QED
    BY <2>2, <2>3, <2>4, OnlyTheCall
<1>3. ASSUME NEW c \in Calls, NEW plan \in SUBSET ensure[c].wanted, Plan(c, plan)
      PROVE  FlightInv'
  <2>1. plan \in SUBSET Requirements /\ ensure[c] \in EnsureRecord /\ ensure[c].pc = "reading"
    BY <1>0, <1>3 DEF Plan, EnsureRecord
  <2>2. CASE plan = {} /\ End(c) /\ UNCHANGED <<flights, task>>
    BY <1>1, <2>2
  <2>3. CASE plan # {} /\ Overlapping(plan) = {} /\ RegisterFlight(c, plan)
    BY <2>1, <2>3, Registering
  <2>4. CASE /\ Overlapping(plan) # {}
             /\ ensure' = [ensure EXCEPT ![c].pc = "joined", ![c].joined = Overlapping(plan)]
             /\ UNCHANGED <<flights, task>>
    <3> DEFINE e == [ensure[c] EXCEPT !.pc = "joined", !.joined = Overlapping(plan)]
    <3>1. Overlapping(plan) \subseteq Calls
      BY <1>0 DEF Overlapping
    <3>2. e \in EnsureRecord /\ e.pc = "joined" /\ e.joined # {}
      BY <2>1, <2>4, <3>1 DEF EnsureRecord
    <3>3. ensure' = [ensure EXCEPT ![c] = e]
      BY <1>0, <2>4
    <3>4. task[c] = NoTask
      BY <2>1 DEF FlightInv, NoTaskYet, BeforeOwning
    <3> QED
      BY <2>4, <3>2, <3>3, <3>4, OnlyTheCall
  <2> QED
    BY <1>3, <2>2, <2>3, <2>4 DEF Plan
<1>4. ASSUME NEW c \in Calls, Follow(c)
      PROVE  FlightInv'
  <2>1. CASE (\A f \in ensure[c].joined : task[f].state = "done") /\ Goto(c, "rereading")
    <3> DEFINE e == [ensure[c] EXCEPT !.pc = "rereading"]
    <3>1. ensure[c] \in EnsureRecord /\ ensure[c].pc = "joined" /\ ensure[c].joined # {}
      BY <1>0, <1>4 DEF Follow, FlightInv, JoinedThenDone
    <3>2. e \in EnsureRecord /\ e.pc = "rereading" /\ e.joined = ensure[c].joined
      BY <3>1 DEF EnsureRecord
    <3>3. ensure' = [ensure EXCEPT ![c] = e] /\ UNCHANGED <<flights, task>>
      BY <1>4, <2>1 DEF Goto, Follow
    <3>4. task[c] = NoTask
      BY <3>1 DEF FlightInv, NoTaskYet, BeforeOwning
    <3> QED
      BY <2>1, <3>1, <3>2, <3>3, <3>4, OnlyTheCall
  <2>2. CASE End(c)
    BY <1>1, <1>4, <2>2 DEF Follow
  <2> QED
    BY <1>4, <2>1, <2>2 DEF Follow
<1>5. ASSUME NEW c \in Calls, NEW plan \in SUBSET ensure[c].wanted, Replan(c, plan)
      PROVE  FlightInv'
  <2>1. plan \in SUBSET Requirements /\ ensure[c].pc = "rereading"
    BY <1>0, <1>5 DEF Replan, EnsureRecord
  <2> QED
    BY <1>1, <1>5, <2>1, Registering DEF Replan
<1>6. ASSUME NEW c \in Calls, NEW timedOut \in SUBSET task[c].targets, TaskReturns(c, timedOut)
      PROVE  FlightInv'
  <2> DEFINE e == [task[c] EXCEPT !.state = "done", !.timedOut = timedOut]
  <2>1. task[c] \in TaskRecord /\ timedOut \subseteq Requirements
    BY <1>0, <1>6 DEF TaskRecord
  <2>2. /\ e \in TaskRecord /\ e.state = "done"
        /\ e.targets = task[c].targets /\ e.after = task[c].after
    BY <2>1 DEF TaskRecord
  <2>3. task' = [task EXCEPT ![c] = e]
    BY <1>0, <1>6 DEF TaskReturns
  <2> QED
    BY <1>0, <1>6, <2>2, <2>3, OnlyTheTask DEF TaskReturns
<1>7. ASSUME NEW c \in Calls, TaskRaises(c)
      PROVE  FlightInv'
  <2> DEFINE e == [task[c] EXCEPT !.state = "raised"]
  <2>1. /\ e \in TaskRecord /\ e.state = "raised"
        /\ e.targets = task[c].targets /\ e.after = task[c].after
    BY <1>0 DEF TaskRecord
  <2>2. task' = [task EXCEPT ![c] = e]
    BY <1>0, <1>7 DEF TaskRaises
  <2> QED
    BY <1>0, <1>7, <2>1, <2>2, OnlyTheTask DEF TaskRaises
<1>8. ASSUME NEW c \in Calls, Reap(c)
      PROVE  FlightInv'
  BY <1>8
  DEF Reap, FlightInv, FlightTypeOK, ActiveIsListed, OverlapOnlyByFollowers, NoTaskYet,
      JoinedThenDone, AfterDone, Active
<1>9. ASSUME NEW c \in Calls, CancelCall(c), ensure[c].pc = "owner" /\ ensure[c].background
      PROVE  FlightInv'
  <2> DEFINE e == [task[c] EXCEPT !.state = "unwinding"]
             d == [ensure[c] EXCEPT !.pc = "draining"]
  <2>1. /\ UNCHANGED flights /\ Goto(c, "draining")
        /\ task' = [task EXCEPT ![c].state = IF @ = "running" THEN "unwinding" ELSE @]
    BY <1>9 DEF CancelCall
  <2>2. ensure' = [ensure EXCEPT ![c] = d] /\ d \in EnsureRecord /\ d.pc = "draining"
    BY <1>0, <2>1 DEF Goto, EnsureRecord
  <2>3. CASE task[c].state = "running"
    <3>1. /\ e \in TaskRecord /\ e.state = "unwinding"
          /\ e.targets = task[c].targets /\ e.after = task[c].after
      BY <1>0 DEF TaskRecord
    <3>2. task' = [task EXCEPT ![c] = e]
      BY <1>0, <2>1, <2>3
    <3>3. /\ ensure' \in [Calls -> EnsureRecord]
          /\ \A b \in Calls : ensure'[b] = ensure[b] \/ ensure'[b].pc = "draining"
      BY <1>0, <2>2
    <3>4. Active(c)
      BY <2>3 DEF Active
    <3> QED
      BY <2>1, <3>1, <3>2, <3>3, <3>4, OnlyTheTask
  <2>4. CASE task[c].state # "running"
    <3>1. task' = task
      BY <1>0, <2>1, <2>4 DEF TaskRecord
    <3> QED
      BY <2>1, <2>2, <3>1, OnlyTheCall DEF BeforeOwning
  <2> QED
    BY <2>3, <2>4
<1>10. ASSUME NEW c \in Calls, OwnerResumes(c) \/ Unwound(c) \/ CancelCall(c),
                  ~(CancelCall(c) /\ ensure[c].pc = "owner" /\ ensure[c].background)
       PROVE  FlightInv'
  BY <1>1, <1>10 DEF OwnerResumes, Unwound, CancelCall
<1>11. ASSUME UNCHANGED flightVars
       PROVE  FlightInv'
  BY <1>11
  DEF flightVars, FlightInv, FlightTypeOK, ActiveIsListed, OverlapOnlyByFollowers, NoTaskYet,
      JoinedThenDone, AfterDone, Active
<1> QED
  BY <1>2, <1>3, <1>4, <1>5, <1>6, <1>7, <1>8, <1>9, <1>10, <1>11 DEF FlightNext

(* The invariant holds of every behaviour.                                   *)
THEOREM FlightInvAlways == FlightSpec => []FlightInv
BY FlightInitInv, FlightStepInv, PTL DEF FlightSpec

(* The variables of ensure and of the flights have their types.              *)
THEOREM FlightTypeAlways == FlightSpec => []FlightTypeOK
<1>1. FlightInv => FlightTypeOK
  BY DEF FlightInv
<1> QED
  BY <1>1, FlightInvAlways, PTL

(* No acquisition that runs is missing from _flights, whoever is cancelled   *)
(* and whatever is reaped.                                                   *)
THEOREM ActiveAlwaysListed == FlightSpec => []ActiveIsListed
<1>1. FlightInv => ActiveIsListed
  BY DEF FlightInv
<1> QED
  BY <1>1, FlightInvAlways, PTL

(* Two flights for one requirement need a call that has waited for others    *)
(* and did not look at _flights again.                                       *)
THEOREM OverlapAlwaysByFollowers == FlightSpec => []OverlapOnlyByFollowers
<1>1. FlightInv => OverlapOnlyByFollowers
  BY DEF FlightInv
<1> QED
  BY <1>1, FlightInvAlways, PTL

=============================================================================
