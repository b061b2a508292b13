---------------------------- MODULE CycleWorker ----------------------------
(***************************************************************************)
(* OpportunityCycleWorker (app/opportunity_worker.py): the processes that  *)
(* run research cycles over the tables of CycleStore.  Every process has   *)
(* one event loop on which four things interleave at each await: the       *)
(* worker loop (_work, _run_one and the runner it calls), one submission   *)
(* (submit_async and its manual variants hold _submission_lock), the       *)
(* heartbeat, and close().  Processes share only the database.             *)
(*                                                                         *)
(* An element of Workers is one incarnation of a process: it draws a fresh *)
(* owner id, starts once, and a crash or a shutdown ends it; the restarted *)
(* pod is another element.  All workers serve the same market.             *)
(*                                                                         *)
(* A step is one database operation with the event-loop code that follows  *)
(* it up to the next await.  The pieces of _run_one are named by pc:       *)
(*   claim screen drain            before the try                          *)
(*   begin enter stamp work publish project recheck complete               *)
(*                                 the try body, runner included           *)
(*   cancelled stop release fail lost    the except clauses                *)
(*   final log                     the finally clause                      *)
(***************************************************************************)
EXTENDS Naturals

CONSTANTS
  Cycles, Workers, LeaseSeconds, NoCycle, NoOwner,
  Projects,     \* the equity runner (as_of, suggestions), not the ETF one
  Paused,       \* research_opportunity_recovery_paused: manual mode
  Cancellable,  \* cycles an operator may ask to cancel
  MaxStalls,    \* bound: leases that lapse under a beating heart
  MaxFaults     \* bound: failing database calls of the worker loop

ASSUME WorkerAssumption ==
  /\ LeaseSeconds \in Nat \ {0}
  /\ NoCycle \notin Cycles
  /\ NoOwner \notin Workers
  /\ Projects \in BOOLEAN
  /\ Paused \in BOOLEAN
  /\ Cancellable \subseteq Cycles
  /\ MaxStalls \in Nat
  /\ MaxFaults \in Nat

VARIABLES
  status, owner, lease, asOf, slot, radar, suggested,   \* as in CycleStore
  pc,        \* where the worker loop is
  cur,       \* _in_flight_cycle_id
  outcome,   \* the status the loop will log for cur
  leave,     \* where the loop goes when _run_one ends
  beat,      \* the heartbeat task runs
  active,    \* self.active
  queue,     \* self.queue, maxsize 1
  found,     \* the run an idle poll has read and may still enqueue
  api,       \* where the submission is
  asked,     \* the cycle the submission is about
  stalls, faults

storeVars == <<status, owner, lease, asOf, slot, radar, suggested>>
loopVars == <<pc, cur, outcome, leave, beat, found>>
cacheVars == <<active, queue>>
apiVars == <<api, asked>>
boundVars == <<stalls, faults>>
vars == <<storeVars, loopVars, cacheVars, apiVars, boundVars>>

Market == "market"

Store == INSTANCE CycleStore WITH
  Owners <- Workers, Markets <- {Market}, MarketOf <- [c \in Cycles |-> Market]

Starting == {"claim", "screen", "drain"}
Running == {"begin", "enter", "stamp", "work", "publish", "project",
            "recheck", "complete"}
Handling == {"cancelled", "stop", "release", "fail", "lost"}
Ending == {"final", "log"}
Resting == {"idle", "offer"}
PCs == Starting \cup Running \cup Handling \cup Ending \cup Resting
         \cup {"new", "dead", "tail", "gone"}
Calls == {"free", "create", "admit", "clear", "lookup", "offer", "resume"}

Init ==
  /\ Store!Init
  /\ pc = [w \in Workers |-> "new"]
  /\ cur = [w \in Workers |-> NoCycle]
  /\ outcome = [w \in Workers |-> "RUNNING"]
  /\ leave = [w \in Workers |-> "idle"]
  /\ beat = [w \in Workers |-> FALSE]
  /\ active = [w \in Workers |-> NoCycle]
  /\ queue = [w \in Workers |-> NoCycle]
  /\ found = [w \in Workers |-> NoCycle]
  /\ api = [w \in Workers |-> "free"]
  /\ asked = [w \in Workers |-> NoCycle]
  /\ stalls = 0
  /\ faults = 0

----------------------------------------------------------------------------
(* What the steps share. *)

\* cycle_cancellation_requested
IsCancelled(c) == status[c] \in {"CANCEL_REQUESTED", "CANCELLED"}

\* _superseded_or_done.  owner_id and lease_expires_at are NULL together.
Superseded(c, w) ==
  \/ status[c] \in {"COMPLETED", "CANCELLED", "CANCEL_REQUESTED"}
  \/ owner[c] # NoOwner /\ lease[c] = 0
  \/ status[c] \in {"ACCEPTED", "RUNNING", "PUBLISHED"} /\ owner[c] \notin {NoOwner, w}

\* _lapsed_without_successor
Lapsed(c, w) ==
  status[c] \in {"ACCEPTED", "RUNNING"} /\ owner[c] = w /\ lease[c] = 0

\* The process serves requests.
Serving(w) == pc[w] # "gone" /\ leave[w] # "tail"

At(w, here) == pc[w] = here
Goto(w, there) == pc' = [pc EXCEPT ![w] = there]

\* A loop step that leaves the tables alone.
Locally == UNCHANGED storeVars

\* The WHERE clause of a fenced write: we own the live lease, and the run is
\* in one of the given statuses.
Fence(c, w, statuses) == Store!OwnsLive(c, w) /\ status[c] \in statuses

\* Try a fenced store operation: continue at `then` when it matched a row and
\* at `else` when it did not.
Fenced(w, fence, op, then, else) ==
  IF fence THEN op /\ Goto(w, then) ELSE Locally /\ Goto(w, else)

\* self.active = None when it still is the cycle that ends.
ClearOwnActive(w) ==
  active' = [active EXCEPT ![w] = IF @ = cur[w] THEN NoCycle ELSE @]

----------------------------------------------------------------------------
(* Process and loop: start_async, _work, _take_over_async. *)

\* Startup of an unpaused process: the loop task is created and the active
\* slot is looked up at once.
Start(w) ==
  /\ At(w, "new") /\ ~Paused
  /\ Goto(w, "idle")
  /\ api' = [api EXCEPT ![w] = "lookup"]
  /\ UNCHANGED <<storeVars, cur, outcome, leave, beat, found, cacheVars, asked, boundVars>>

\* A submission finds the loop task done and creates it again: start_async
\* replaces the queue, whatever it held, and keeps self.active.
Restart(w) ==
  /\ At(w, "dead") /\ Serving(w) /\ api[w] = "free" /\ ~Paused
  /\ Goto(w, "idle")
  /\ queue' = [queue EXCEPT ![w] = NoCycle]
  /\ api' = [api EXCEPT ![w] = "lookup"]
  /\ UNCHANGED <<storeVars, cur, outcome, leave, beat, found, active, asked, boundVars>>

\* When the scheduler submits by itself (_submission_due).
SchedulerDue(w) ==
  /\ active[w] = NoCycle
  /\ slot[Market] # NoCycle => ~IsCancelled(slot[Market])

\* Faulty form of Orphan: an expired lease is not noticed, only a released one.
OrphanReleasedOnly(c) == slot[Market] = c /\ owner[c] = NoOwner

\* The durable reads of _take_over_async: the active run, when its lease is
\* gone.  A run in the slot is never CANCELLED.
Orphan(c) == slot[Market] = c /\ Store!Unheld(c)

\* An idle loop polls; the queue has stayed empty for poll_seconds.
Poll(w) ==
  /\ At(w, "idle") /\ ~Paused
  /\ queue[w] = NoCycle /\ active[w] = NoCycle
  /\ \E c \in Cycles : Orphan(c) /\ found' = [found EXCEPT ![w] = c]
  /\ Goto(w, "offer")
  /\ UNCHANGED <<storeVars, cur, outcome, leave, beat, cacheVars, apiVars, boundVars>>

\* Enqueue what was read, unless a submission won while the reads were in
\* flight.
Offer(w, c) ==
  IF active[w] = NoCycle /\ queue[w] = NoCycle
  THEN /\ active' = [active EXCEPT ![w] = c]
       /\ queue' = [queue EXCEPT ![w] = c]
  ELSE UNCHANGED cacheVars

PollOffer(w) ==
  /\ At(w, "offer")
  /\ Offer(w, found[w])
  /\ found' = [found EXCEPT ![w] = NoCycle]
  /\ Goto(w, "idle")
  /\ UNCHANGED <<storeVars, cur, outcome, leave, beat, apiVars, boundVars>>

Dequeue(w) ==
  /\ At(w, "idle") /\ queue[w] # NoCycle
  /\ cur' = [cur EXCEPT ![w] = queue[w]]
  /\ queue' = [queue EXCEPT ![w] = NoCycle]
  /\ Goto(w, "claim")
  /\ UNCHANGED <<storeVars, outcome, leave, beat, found, active, apiVars, boundVars>>

----------------------------------------------------------------------------
(* Submissions: submit_async, submit_manual_equity_async (and _etf_, which
   differs in its gate only), resume_interrupted_manual_equity_async. *)

Call(w, there, c) ==
  /\ api' = [api EXCEPT ![w] = there]
  /\ asked' = [asked EXCEPT ![w] = c]

\* With nothing cached, go on to durable admission; with a cached run that is
\* CANCELLED by now, go on to drop it; otherwise the caller gets the cached
\* run.  A manual submission also wants the slot empty.
Submit(w) ==
  /\ Serving(w) /\ api[w] = "free"
  /\ ~Paused => pc[w] \notin {"new", "dead"}
  /\ \/ /\ active[w] = NoCycle
        /\ Paused => slot[Market] = NoCycle
        /\ Call(w, "create", NoCycle)
     \/ /\ ~Paused /\ active[w] # NoCycle /\ status[active[w]] = "CANCELLED"
        /\ Call(w, "clear", NoCycle)
  /\ UNCHANGED <<storeVars, loopVars, cacheVars, boundVars>>

\* After the await: the cache dropped is the one held now, and the queued item
\* goes with it when it is the same cycle.  If self.active has become None in
\* between, the subscript raises and the request fails.
DropStale(w) ==
  /\ api[w] = "clear"
  /\ IF active[w] = NoCycle
     THEN Call(w, "free", NoCycle) /\ UNCHANGED cacheVars
     ELSE /\ active' = [active EXCEPT ![w] = NoCycle]
          /\ queue' = [queue EXCEPT ![w] = IF @ = active[w] THEN NoCycle ELSE @]
          /\ Call(w, "create", NoCycle)
  /\ UNCHANGED <<storeVars, loopVars, boundVars>>

\* create_cycle_run: our row, or the row that is active already.
Create(w) ==
  /\ api[w] = "create"
  /\ IF slot[Market] = NoCycle
     THEN \E c \in Cycles : Store!CreateCycleRun(c) /\ Call(w, "admit", c)
     ELSE Locally /\ Call(w, IF Paused THEN "free" ELSE "lookup", NoCycle)
  /\ UNCHANGED <<loopVars, cacheVars, boundVars>>

\* Record ACCEPTED and enqueue, unless polling already did.  A manual
\* submission creates the loop task itself.
Admit(w) ==
  /\ api[w] = "admit"
  /\ Offer(w, asked[w])
  /\ pc' = [pc EXCEPT ![w] = IF Paused /\ @ \in {"new", "dead"} THEN "idle" ELSE @]
  /\ Call(w, "free", NoCycle)
  /\ UNCHANGED <<storeVars, cur, outcome, leave, beat, found, boundVars>>

\* _take_over_async as the end of a start or of a coalesced submission.
Lookup(w) ==
  /\ api[w] = "lookup"
  /\ \/ active[w] = NoCycle /\ \E c \in Cycles : Orphan(c) /\ Call(w, "offer", c)
     \/ ~(active[w] = NoCycle /\ \E c \in Cycles : Orphan(c)) /\ Call(w, "free", NoCycle)
  /\ UNCHANGED <<storeVars, loopVars, cacheVars, boundVars>>

LookupOffer(w) ==
  /\ api[w] = "offer"
  /\ Offer(w, asked[w])
  /\ Call(w, "free", NoCycle)
  /\ UNCHANGED <<storeVars, loopVars, boundVars>>

\* The operator resumes an interrupted run in manual mode: the checks, and the
\* enqueueing after the last of its awaits.
ManualLookup(w) ==
  /\ Paused /\ Projects /\ Serving(w) /\ api[w] = "free"
  /\ active[w] = NoCycle /\ queue[w] = NoCycle
  /\ \E c \in Cycles : /\ Orphan(c)
                       /\ status[c] \in {"ACCEPTED", "RUNNING"}
                       /\ Call(w, "resume", c)
  /\ UNCHANGED <<storeVars, loopVars, cacheVars, boundVars>>

ManualResume(w) ==
  /\ api[w] = "resume"
  /\ active' = [active EXCEPT ![w] = asked[w]]
  /\ queue' = [queue EXCEPT ![w] = asked[w]]
  /\ pc' = [pc EXCEPT ![w] = IF @ \in {"new", "dead"} THEN "idle" ELSE @]
  /\ Call(w, "free", NoCycle)
  /\ UNCHANGED <<storeVars, cur, outcome, leave, beat, found, boundVars>>

\* A database call of the admission fails: the request ends with an error, and
\* a row it has created stays ACCEPTED.
SubmitFault(w) ==
  /\ api[w] \in {"create", "admit"}
  /\ Call(w, "free", NoCycle)
  /\ UNCHANGED <<storeVars, loopVars, cacheVars, boundVars>>

----------------------------------------------------------------------------
(* _run_one before its try: the claim decides who owns the run. *)

\* Faulty form of Claim: self.active survives a claim that was skipped.
ClaimKeepsActive(w) ==
  /\ At(w, "claim")
  /\ LET c == cur[w] IN
       IF status[c] \in Store!Active /\ (Store!Unheld(c) \/ owner[c] = w)
       THEN Store!ClaimCycleRun(c, w) /\ Goto(w, "screen")
       ELSE Locally /\ Goto(w, "idle")
  /\ UNCHANGED <<cur, outcome, leave, beat, found, cacheVars, apiVars, boundVars>>

Claim(w) ==
  /\ At(w, "claim")
  /\ LET c == cur[w] IN
       IF /\ status[c] \in Store!Active
          /\ Store!Unheld(c) \/ owner[c] = w
       THEN Store!ClaimCycleRun(c, w) /\ Goto(w, "screen") /\ UNCHANGED active
       ELSE Locally /\ Goto(w, "idle") /\ active' = [active EXCEPT ![w] = NoCycle]
  /\ UNCHANGED <<cur, outcome, leave, beat, found, queue, apiVars, boundVars>>

\* Faulty form of Screen: no heartbeat is started.
ScreenWithoutHeartbeat(w) ==
  /\ At(w, "screen")
  /\ CASE status[cur[w]] = "CANCELLED" ->
            Goto(w, "idle") /\ active' = [active EXCEPT ![w] = NoCycle]
       [] status[cur[w]] = "CANCEL_REQUESTED" -> Goto(w, "drain") /\ UNCHANGED active
       [] OTHER                               -> Goto(w, "begin") /\ UNCHANGED active
  /\ UNCHANGED <<storeVars, cur, outcome, leave, beat, found, queue, apiVars, boundVars>>

\* The cancellation reads after the claim; only past them does the heartbeat
\* start.
Screen(w) ==
  /\ At(w, "screen")
  /\ CASE status[cur[w]] = "CANCELLED" ->
            Goto(w, "idle") /\ active' = [active EXCEPT ![w] = NoCycle] /\ UNCHANGED beat
       [] status[cur[w]] = "CANCEL_REQUESTED" ->
            Goto(w, "drain") /\ UNCHANGED <<active, beat>>
       [] OTHER ->
            Goto(w, "begin") /\ beat' = [beat EXCEPT ![w] = TRUE] /\ UNCHANGED active
  /\ UNCHANGED <<storeVars, cur, outcome, leave, found, queue, apiVars, boundVars>>

\* cancel_cycle_run as every caller makes it: a row that no longer matches is
\* left alone.
CancelIfOwned(w) ==
  IF Fence(cur[w], w, {"CANCEL_REQUESTED", "RUNNING", "ACCEPTED"})
  THEN Store!CancelCycleRun(cur[w], w)
  ELSE Locally

\* A recovered cancellation is finished without entering the runner.
Drain(w) ==
  /\ At(w, "drain")
  /\ CancelIfOwned(w)
  /\ active' = [active EXCEPT ![w] = NoCycle]
  /\ Goto(w, "idle")
  /\ UNCHANGED <<cur, outcome, leave, beat, found, queue, apiVars, boundVars>>

----------------------------------------------------------------------------
(* The try body and the runner in it. *)

\* Nothing of the process changes but the place in the loop.
OnlyPc == UNCHANGED <<cur, outcome, leave, beat, found, cacheVars, apiVars, boundVars>>

Begin(w) ==
  /\ At(w, "begin")
  /\ active' = [active EXCEPT ![w] = cur[w]]
  /\ Goto(w, "enter")
  /\ UNCHANGED <<storeVars, cur, outcome, leave, beat, found, queue, apiVars, boundVars>>

\* Faulty forms of Enter: a resumed run is stamped again, or a published one
\* counts as done.
EnterRestamps(w) ==
  /\ At(w, "enter") /\ Locally
  /\ Goto(w, IF status[cur[w]] = "PUBLISHED" THEN "project" ELSE "stamp")
  /\ OnlyPc

EnterSkipsProjection(w) ==
  /\ At(w, "enter") /\ Locally
  /\ LET c == cur[w] IN Goto(w,
       CASE status[c] = "PUBLISHED" -> "recheck"
         [] IsCancelled(c)          -> "cancelled"
         [] asOf[c] = NoOwner       -> "stamp"
         [] OTHER                   -> "work")
  /\ OnlyPc

\* The runner looks at the run it was given: a published one needs only its
\* projection, a cancelled one is refused (equity), a resumed one keeps its
\* evaluation instant.
Enter(w) ==
  /\ At(w, "enter") /\ Locally
  /\ LET c == cur[w] IN Goto(w,
       CASE status[c] = "PUBLISHED"        -> IF Projects THEN "project" ELSE "recheck"
         [] Projects /\ IsCancelled(c)     -> "cancelled"
         [] Projects /\ asOf[c] = NoOwner  -> "stamp"
         [] OTHER                          -> "work")
  /\ OnlyPc

Stamp(w) ==
  /\ At(w, "stamp")
  /\ Fenced(w, Fence(cur[w], w, {"ACCEPTED", "RUNNING"}), Store!StampAsOf(cur[w], w),
            "work", "lost")
  /\ OnlyPc

\* Acquisition, analysis and their progress rows.  A refused progress write is
\* lost ownership; a baseline candidate that reads the cancellation raises
\* CancelledError, which will also end the loop task.
Work(w) ==
  /\ At(w, "work") /\ Locally
  /\ \/ Goto(w, "publish") /\ UNCHANGED leave
     \/ ~Fence(cur[w], w, {"RUNNING"}) /\ Goto(w, "lost") /\ UNCHANGED leave
     \/ /\ Projects /\ IsCancelled(cur[w])
        /\ Goto(w, "stop")
        /\ leave' = [leave EXCEPT ![w] = IF @ = "idle" THEN "dead" ELSE @]
     \/ Goto(w, "fail") /\ UNCHANGED leave
  /\ UNCHANGED <<cur, outcome, beat, found, cacheVars, apiVars, boundVars>>

\* The publishing transaction; an exception in it rolls all of it back.
Publish(w) ==
  /\ At(w, "publish")
  /\ \/ Fenced(w, Fence(cur[w], w, {"RUNNING"}), Store!PublishCycle(cur[w], w),
               IF Projects THEN "project" ELSE "recheck", "lost")
     \/ Locally /\ Goto(w, "fail")
  /\ OnlyPc

Project(w) ==
  /\ At(w, "project")
  /\ Fenced(w, Fence(cur[w], w, {"PUBLISHED"}), Store!PersistSuggestions(cur[w], w),
            "recheck", "lost")
  /\ OnlyPc

\* The runner returned; a run that was cancelled meanwhile is finished as such.
\* (The read and the write are one step here: NoLateCancel, every runner having
\* published, this branch is never taken.)
Recheck(w) ==
  /\ At(w, "recheck")
  /\ IF IsCancelled(cur[w])
     THEN /\ CancelIfOwned(w)
          /\ IF status'[cur[w]] # status[cur[w]]
             THEN /\ outcome' = [outcome EXCEPT ![w] = "CANCELLED"]
                  /\ ClearOwnActive(w)
                  /\ Goto(w, "final")
             ELSE UNCHANGED <<outcome, active>> /\ Goto(w, "lost")
     ELSE Locally /\ UNCHANGED <<outcome, active>> /\ Goto(w, "complete")
  /\ UNCHANGED <<cur, leave, beat, found, queue, apiVars, boundVars>>

Complete(w) ==
  /\ At(w, "complete")
  /\ Fenced(w, Fence(cur[w], w, {"RUNNING", "PUBLISHED"}),
            Store!UpdateStatus(cur[w], w, "COMPLETED"), "final", "lost")
  /\ outcome' = [outcome EXCEPT ![w] = IF pc'[w] = "final" THEN "COMPLETED" ELSE @]
  /\ UNCHANGED <<cur, leave, beat, found, cacheVars, apiVars, boundVars>>

----------------------------------------------------------------------------
(* The except clauses. *)

\* The CYCLE_CANCELLED signal of the runner, and the CancelledError of a
\* cancelled run.
DrainedCancel(w) ==
  /\ CancelIfOwned(w)
  /\ outcome' = [outcome EXCEPT
       ![w] = IF status'[cur[w]] # status[cur[w]] THEN "CANCELLED" ELSE @]
  /\ Goto(w, "final")
  /\ UNCHANGED <<cur, leave, beat, found, cacheVars, apiVars, boundVars>>

Cancelled(w) == At(w, "cancelled") /\ DrainedCancel(w)

\* CancelledError: the run's own cancellation comes before the shutdown's.
Stop(w) ==
  /\ At(w, "stop")
  /\ \/ IsCancelled(cur[w]) /\ DrainedCancel(w)
     \/ ~IsCancelled(cur[w]) /\ Locally /\ Goto(w, "release") /\ OnlyPc

\* Graceful shutdown: the lease is given up and the run stays resumable; an
\* interrupted manual ETF run keeps its lease, for review.
Release(w) ==
  /\ At(w, "release")
  /\ Fenced(w, (Projects \/ ~Paused) /\ Fence(cur[w], w, Store!Active),
            Store!ReleaseCycleRun(cur[w], w), "final", "final")
  /\ OnlyPc

\* Faulty form of Fail: the failure is written without the fence.
FailUnfenced(w) ==
  /\ At(w, "fail")
  /\ Store!Finish(cur[w], "FAILED")
  /\ outcome' = [outcome EXCEPT ![w] = "FAILED"]
  /\ Goto(w, "final")
  /\ UNCHANGED <<cur, leave, beat, found, cacheVars, apiVars, boundVars>>

\* _fail_run: a published run is released to be completed by another owner.
Fail(w) ==
  /\ At(w, "fail")
  /\ LET c == cur[w] IN
       CASE Fence(c, w, {"PUBLISHED"})           -> Store!ReleaseCycleRun(c, w)
         [] Fence(c, w, {"ACCEPTED", "RUNNING"}) -> Store!UpdateStatus(c, w, "FAILED")
         [] OTHER                                -> Locally
  /\ outcome' = [outcome EXCEPT ![w] = "FAILED"]
  /\ Goto(w, "final")
  /\ UNCHANGED <<cur, leave, beat, found, cacheVars, apiVars, boundVars>>

\* Faulty form of Lost: the error code is logged as the status.
LostWrongStatus(w) ==
  /\ At(w, "lost") /\ Locally
  /\ outcome' = [outcome EXCEPT ![w] = "OWNERSHIP_LOST"]
  /\ Goto(w, "final")
  /\ UNCHANGED <<cur, leave, beat, found, cacheVars, apiVars, boundVars>>

\* CycleOwnershipLost.
Lost(w) ==
  /\ At(w, "lost")
  /\ IF IsCancelled(cur[w]) /\ Fence(cur[w], w, {"CANCEL_REQUESTED"})
     THEN Store!CancelCycleRun(cur[w], w)
     ELSE Locally
  /\ outcome' = [outcome EXCEPT ![w] = IF Lapsed(cur[w], w) THEN "LAPSED" ELSE "RUNNING"]
  /\ Goto(w, "final")
  /\ UNCHANGED <<cur, leave, beat, found, cacheVars, apiVars, boundVars>>

----------------------------------------------------------------------------
(* The finally clause. *)

\* _run_one is over; a replacement that was submitted meanwhile stays active.
LeaveRun(w) ==
  /\ ClearOwnActive(w)
  /\ Goto(w, leave[w])
  /\ outcome' = [outcome EXCEPT ![w] = "RUNNING"]
  /\ leave' = [leave EXCEPT ![w] = IF @ = "tail" THEN "tail" ELSE "idle"]

\* The heartbeat is stopped, and a worker that was superseded is silenced.
Final(w) ==
  /\ At(w, "final") /\ Locally
  /\ beat' = [beat EXCEPT ![w] = FALSE]
  /\ IF /\ outcome[w] # "COMPLETED"
        /\ Superseded(cur[w], w)
        /\ ~(outcome[w] = "LAPSED" /\ Lapsed(cur[w], w))
     THEN LeaveRun(w)
     ELSE Goto(w, "log") /\ UNCHANGED <<active, outcome, leave>>
  /\ UNCHANGED <<cur, found, queue, apiVars, boundVars>>

\* The job event with the outcome is recorded (a run that lapsed without a
\* successor as RUNNING).
Log(w) ==
  /\ At(w, "log")
  /\ LeaveRun(w)
  /\ UNCHANGED <<storeVars, cur, beat, found, queue, apiVars, boundVars>>

----------------------------------------------------------------------------
(* Heartbeat, shutdown, crashes and failing database calls. *)

Renew(w) ==
  /\ beat[w]
  /\ Store!RenewCycleLease(cur[w], w)
  /\ UNCHANGED <<loopVars, cacheVars, apiVars, boundVars>>

\* A renewal that matched no row ends the heartbeat, and nothing else.
BeatLost(w) ==
  /\ beat[w]
  /\ ~Fence(cur[w], w, Store!Active)
  /\ beat' = [beat EXCEPT ![w] = FALSE]
  /\ UNCHANGED <<storeVars, pc, cur, outcome, leave, found, cacheVars, apiVars, boundVars>>

\* The deployment keeps a process up or brings one up.
Survivor(w) == \E v \in Workers \ {w} : Serving(v)

\* close() cancels the loop task.  In the try body that enters the
\* CancelledError clause; in an except or finally clause it cuts the rest of
\* the clause short, or the operation in flight still ends.
Shutdown(w) ==
  /\ Survivor(w) /\ Serving(w) /\ ~At(w, "new")
  /\ leave' = [leave EXCEPT ![w] = "tail"]
  /\ \/ pc[w] \in Resting \cup Starting \cup {"dead"} /\ Goto(w, "tail") /\ UNCHANGED beat
     \/ pc[w] \in Running /\ Goto(w, "stop") /\ UNCHANGED beat
     \/ pc[w] \in Handling /\ (UNCHANGED pc \/ Goto(w, "final")) /\ UNCHANGED beat
     \/ pc[w] \in Ending /\ UNCHANGED <<pc, beat>>
     \/ /\ pc[w] \in Ending
        /\ Goto(w, "tail")
        /\ beat' = [beat EXCEPT ![w] = FALSE]
  /\ found' = [found EXCEPT ![w] = NoCycle]
  /\ UNCHANGED <<storeVars, cur, outcome, cacheVars, apiVars, boundVars>>

\* Nothing of the process outlives it.
Vanish(w) ==
  /\ Goto(w, "gone")
  /\ beat' = [beat EXCEPT ![w] = FALSE]
  /\ active' = [active EXCEPT ![w] = NoCycle]
  /\ queue' = [queue EXCEPT ![w] = NoCycle]
  /\ found' = [found EXCEPT ![w] = NoCycle]
  /\ cur' = [cur EXCEPT ![w] = NoCycle]
  /\ outcome' = [outcome EXCEPT ![w] = "RUNNING"]
  /\ leave' = [leave EXCEPT ![w] = "idle"]
  /\ Call(w, "free", NoCycle)

\* The rest of close(): a cancellation requested of the last run is finished.
Tail(w) ==
  /\ At(w, "tail")
  /\ IF cur[w] \in Cycles /\ IsCancelled(cur[w])
     THEN CancelIfOwned(w)
     ELSE Locally
  /\ Vanish(w)
  /\ UNCHANGED boundVars

Crash(w) ==
  /\ Survivor(w) /\ pc[w] \notin {"new", "gone"}
  /\ Vanish(w)
  /\ UNCHANGED <<storeVars, boundVars>>

\* A database call of the loop fails.  Before the try, and in the first read
\* of the finally clause, the exception ends the loop task with self.active
\* as it is; in the try body it is handled; in an except clause the finally
\* clause still runs and the loop task ends after it.
DbFault(w) ==
  /\ faults < MaxFaults
  /\ faults' = faults + 1
  /\ \/ /\ pc[w] \in Starting
        /\ Goto(w, "dead") /\ UNCHANGED <<active, outcome, leave, beat>>
     \/ /\ pc[w] \in Running
        /\ Goto(w, "fail") /\ UNCHANGED <<active, outcome, leave, beat>>
     \/ /\ pc[w] \in Handling
        /\ Goto(w, "final")
        /\ leave' = [leave EXCEPT ![w] = IF @ = "idle" THEN "dead" ELSE @]
        /\ UNCHANGED <<active, outcome, beat>>
     \/ /\ pc[w] \in Ending
        /\ Goto(w, IF leave[w] = "tail" THEN "tail" ELSE "dead")
        /\ beat' = [beat EXCEPT ![w] = FALSE]
        /\ IF At(w, "log") THEN ClearOwnActive(w) ELSE UNCHANGED active
        /\ outcome' = [outcome EXCEPT ![w] = "RUNNING"]
        /\ leave' = [leave EXCEPT ![w] = IF @ = "tail" THEN "tail" ELSE "idle"]
  /\ UNCHANGED <<storeVars, cur, found, queue, apiVars, stalls>>

----------------------------------------------------------------------------
(* The operator's endpoints, and time. *)

RequestCancel(c) ==
  /\ c \in Cancellable
  /\ Store!RequestCancel(c)
  /\ UNCHANGED <<loopVars, cacheVars, apiVars, boundVars>>

FinalizeCancel(c) ==
  /\ Store!CancelUnowned(c)
  /\ UNCHANGED <<loopVars, cacheVars, apiVars, boundVars>>

\* The holder of c's lease is about to start its heartbeat, or it beats three
\* times per lease.
Guarded(c) == \E w \in Workers :
  /\ owner[c] = w /\ cur[w] = c
  /\ beat[w] \/ pc[w] \in {"screen", "drain"}

\* A guarded lease lapses only when its process stalls.
Tick(c) ==
  /\ Store!Tick(c)
  /\ IF lease[c] = 1 /\ Guarded(c)
     THEN stalls < MaxStalls /\ stalls' = stalls + 1
     ELSE UNCHANGED stalls
  /\ UNCHANGED <<loopVars, cacheVars, apiVars, faults>>

----------------------------------------------------------------------------
RunStep(w) ==
  \/ Claim(w) \/ Screen(w) \/ Drain(w)
  \/ Begin(w) \/ Enter(w) \/ Stamp(w) \/ Work(w) \/ Publish(w) \/ Project(w)
  \/ Recheck(w) \/ Complete(w)
  \/ Cancelled(w) \/ Stop(w) \/ Release(w) \/ Fail(w) \/ Lost(w)
  \/ Final(w) \/ Log(w) \/ Tail(w)

LoopStep(w) == Poll(w) \/ PollOffer(w) \/ Dequeue(w) \/ RunStep(w)

\* A submission under way.
ApiStep(w) ==
  DropStale(w) \/ Create(w) \/ Admit(w) \/ Lookup(w) \/ LookupOffer(w) \/ ManualResume(w)

WorkerStep(w) ==
  \/ Start(w) \/ Restart(w) \/ LoopStep(w)
  \/ Submit(w) \/ ManualLookup(w) \/ ApiStep(w) \/ SubmitFault(w)
  \/ Renew(w) \/ BeatLost(w) \/ Shutdown(w) \/ Crash(w) \/ DbFault(w)

Next ==
  \/ \E w \in Workers : WorkerStep(w)
  \/ \E c \in Cycles : RequestCancel(c) \/ FinalizeCancel(c) \/ Tick(c)

Spec == Init /\ [][Next]_vars

\* The event loop schedules every task that can run; an unguarded lease runs
\* out; a pod that is up starts its worker; and the scheduler keeps submitting
\* when it is due.  Nothing is promised of users and operators.
Fairness ==
  /\ \A w \in Workers :
       /\ WF_vars(Start(w))
       /\ WF_vars(LoopStep(w))
       /\ WF_vars(ApiStep(w))
       /\ WF_vars(BeatLost(w))
       /\ WF_vars(SchedulerDue(w) /\ Restart(w))
  /\ \A c \in Cycles : WF_vars(~Guarded(c) /\ Tick(c))

FairSpec == Spec /\ Fairness

----------------------------------------------------------------------------
(* Properties. *)

\* Every variable keeps its type (the attributes of OpportunityCycleWorker).
TypeOK ==
  /\ Store!TypeOK
  /\ pc \in [Workers -> PCs]
  /\ cur \in [Workers -> Cycles \cup {NoCycle}]
  /\ outcome \in [Workers -> {"RUNNING", "LAPSED", "COMPLETED", "CANCELLED", "FAILED"}]
  /\ leave \in [Workers -> {"idle", "dead", "tail"}]
  /\ beat \in [Workers -> BOOLEAN]
  /\ active \in [Workers -> Cycles \cup {NoCycle}]
  /\ queue \in [Workers -> Cycles \cup {NoCycle}]
  /\ found \in [Workers -> Cycles \cup {NoCycle}]
  /\ api \in [Workers -> Calls]
  /\ asked \in [Workers -> Cycles \cup {NoCycle}]
  /\ stalls \in 0..MaxStalls
  /\ faults \in 0..MaxFaults

\* However the workers interleave, the tables only ever change as CycleStore
\* says: no path of the worker writes around a fence.
ImplementsStore == Store!Spec

\* A run is not COMPLETED before both its selection and, for equity, its
\* suggestions are there, although a crash, a fault or a lost lease may fall
\* between the two transactions and another owner then finishes the run.
CompletedIsProjected ==
  \A c \in Cycles : status[c] = "COMPLETED" =>
    c \in radar /\ (Projects => c \in suggested)

\* The cycles of a market take turns: when one is published, every one that was
\* published before is completed and projected, so no owner will replay it any
\* more (_fail_run: "Publication won: leave its idempotent projection
\* resumable"; the projection is idempotent only while no other scan comes in
\* between, which is what SuggestionEpisodes relies on).
ScansTakeTurns ==
  [][\A c \in radar' \ radar : \A d \in radar :
       status[d] = "COMPLETED" /\ (Projects => d \in suggested)]_vars

\* Once its runner has returned, a run can no longer be cancelled: a request that
\* came in mid-flight has already made the publication fail, so the check after
\* the runner finds nothing, also after a takeover.
NoLateCancel ==
  \A w \in Workers : pc[w] \in {"recheck", "complete"} => ~IsCancelled(cur[w])

\* A run is evaluated at one instant: once stamped, as_of survives takeovers,
\* also by an owner that had read it as unset.
AsOfStable ==
  [][\A c \in Cycles : asOf[c] # NoOwner => asOf'[c] = asOf[c]]_vars

\* As long as no process stalls past its lease, two processes are never inside
\* the runner for the same cycle (the lease "guarantees one owner across
\* replicas").
OneRunner ==
  stalls = 0 =>
    \A v, w \in Workers :
      (pc[v] \in Running /\ pc[w] \in Running /\ cur[v] = cur[w]) => v = w

\* A process that believes it has a cycle (self.active) has it in its queue or
\* in its loop, or can find out that it was cancelled; otherwise it would
\* never admit or take over a cycle again.
NoStrandedCache ==
  \A w \in Workers : active[w] # NoCycle =>
    \/ status[active[w]] = "CANCELLED"
    \/ queue[w] = active[w] /\ ~At(w, "dead")
    \/ cur[w] = active[w] /\ pc[w] \in Starting \cup Running \cup Handling \cup Ending
    \/ At(w, "tail")

\* Every admitted run ends, whatever crashes, lapses, shutdowns and cancel
\* requests befall it.
EveryRunEnds ==
  \A c \in Cycles : status[c] \in Store!Active ~> status[c] \in Store!Terminal

\* A process with nothing to do takes over a run whose lease is gone.
IdleTakesOver ==
  \A w \in Workers, c \in Cycles :
    (Orphan(c) /\ pc[w] \in {"idle", "dead"})
      ~> (~Orphan(c) \/ ~Serving(w))

\* The finally clause of a worker whose run was ended by its successor logs
\* nothing about it.
ZombieSilent ==
  [][\A w \in Workers :
       At(w, "final") /\ status[cur[w]] = "FAILED" /\ outcome[w] # "FAILED" =>
         pc'[w] # "log"]_vars

=============================================================================
