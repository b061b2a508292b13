-------------------------- MODULE ReadinessFlights --------------------------
(* Single-flight acquisition for one instrument: ensure of                   *)
(* ResearchReadinessRuntime.  A call plans the requirements it finds         *)
(* missing; if flights already acquire some of them it waits for those,      *)
(* reads again and goes on with what is left; what it acquires itself runs   *)
(* as a task of its own, registered in _flights (flights) for others to      *)
(* join.  Calls are coroutines of one process, so nothing happens between    *)
(* two awaits of a call.  A flight is named by the call that made it.  Which *)
(* requirements a read finds missing is left open: any of those wanted.      *)
(* wait_for_completion is background: the call of the cycle worker, which    *)
(* owns its task's lifetime; an interactive call does not.                   *)
CONSTANTS Requirements, Calls

VARIABLES flights, ensure, task

flightVars == <<flights, ensure, task>>

(* after: the flights the call waited for before it made this one; history,  *)
(* read by the properties only.                                              *)
NoTask == [state |-> "none", targets |-> {}, timedOut |-> {}, after |-> {}]

NotCalled == [pc |-> "idle", wanted |-> {}, background |-> FALSE, joined |-> {}]

FlightInit ==
  /\ flights = {}
  /\ ensure = [c \in Calls |-> NotCalled]
  /\ task = [c \in Calls |-> NoTask]

Active(f) == task[f].state \in {"running", "unwinding"}

Goto(c, pc) == ensure' = [ensure EXCEPT ![c].pc = pc]

(* The call returns, or raises; its locals are gone.                         *)
End(c) == ensure' = [ensure EXCEPT ![c] = [NotCalled EXCEPT !.pc = "ended"]]

Ensure(c, wanted, background) ==
  /\ ensure[c].pc = "idle"
  /\ ensure' = [ensure EXCEPT ![c] = [@ EXCEPT !.pc = "reading", !.wanted = wanted,
                                              !.background = background]]
  /\ UNCHANGED <<flights, task>>

(* The faulty form of RegisterFlight: it makes room by dropping flights.     *)
RegisterEvicting(c, targets) ==
  /\ task' = [task EXCEPT ![c] = [state |-> "running", targets |-> targets,
                                  timedOut |-> {}, after |-> ensure[c].joined]]
  /\ flights' = {c}
  /\ ensure' = [ensure EXCEPT ![c] = [NotCalled EXCEPT !.pc = "owner",
                                                      !.background = ensure[c].background]]

(* A task of its own; settled flights nobody has reaped yet are dropped.     *)
RegisterFlight(c, targets) ==
  /\ task' = [task EXCEPT ![c] = [state |-> "running", targets |-> targets,
                                  timedOut |-> {}, after |-> ensure[c].joined]]
  /\ flights' = {f \in flights : Active(f)} \cup {c}
  /\ ensure' = [ensure EXCEPT ![c] = [NotCalled EXCEPT !.pc = "owner",
                                                      !.background = ensure[c].background]]

Overlapping(plan) == {f \in flights : task[f].targets \cap plan # {}}

(* The first read has returned: nothing to do, flights to join, or a flight. *)
Plan(c, plan) ==
  /\ ensure[c].pc = "reading"
  /\ \/ plan = {} /\ End(c) /\ UNCHANGED <<flights, task>>
     \/ /\ Overlapping(plan) # {}
        /\ ensure' = [ensure EXCEPT ![c].pc = "joined", ![c].joined = Overlapping(plan)]
        /\ UNCHANGED <<flights, task>>
     \/ plan # {} /\ Overlapping(plan) = {} /\ RegisterFlight(c, plan)

(* gather over the shielded tasks: all have finished, or one did not and its *)
(* exception, a cancellation too, is the follower's.                         *)
Follow(c) ==
  /\ ensure[c].pc = "joined"
  /\ \/ /\ \A f \in ensure[c].joined : task[f].state = "done"
        /\ Goto(c, "rereading")
     \/ /\ \E f \in ensure[c].joined : task[f].state = "raised"
        /\ End(c)
  /\ UNCHANGED <<flights, task>>

Attempted(c) == UNION {task[f].targets : f \in ensure[c].joined}
TimedOut(c) == UNION {task[f].timedOut : f \in ensure[c].joined}

(* What the joined flights have not tried, or not finished in time for a     *)
(* background call.  The flights are not looked at again.                    *)
Remaining(c) ==
  (ensure[c].wanted \ Attempted(c))
    \cup (IF ensure[c].background THEN ensure[c].wanted \cap TimedOut(c) ELSE {})

Replan(c, plan) ==
  /\ ensure[c].pc = "rereading" /\ plan \subseteq Remaining(c)
  /\ IF plan = {} THEN End(c) /\ UNCHANGED <<flights, task>>
                  ELSE RegisterFlight(c, plan)

(* The task of c: it returns the failures of its targets, or raises; once    *)
(* cancelled it unwinds, and may still return what it had ready.             *)
TaskReturns(c, timedOut) ==
  /\ Active(c) /\ timedOut \subseteq task[c].targets
  /\ task' = [task EXCEPT ![c].state = "done", ![c].timedOut = timedOut]
  /\ UNCHANGED <<flights, ensure>>

TaskRaises(c) ==
  /\ Active(c)
  /\ task' = [task EXCEPT ![c].state = "raised"]
  /\ UNCHANGED <<flights, ensure>>

(* The done callback of the task.                                            *)
Reap(c) ==
  /\ c \in flights /\ ~Active(c)
  /\ flights' = flights \ {c}
  /\ UNCHANGED <<ensure, task>>

OwnerResumes(c) ==
  /\ ensure[c].pc = "owner" /\ ~Active(c)
  /\ End(c)
  /\ UNCHANGED <<flights, task>>

(* The caller of ensure is cancelled.  Only a background owner takes its     *)
(* task along, and waits for it.                                             *)
CancelCall(c) ==
  \/ /\ \/ ensure[c].pc \in {"reading", "joined", "rereading"}
        \/ ensure[c].pc = "owner" /\ ~ensure[c].background
     /\ End(c)
     /\ UNCHANGED <<flights, task>>
  \/ /\ ensure[c].pc = "owner" /\ ensure[c].background
     /\ Goto(c, "draining")
     /\ task' = [task EXCEPT ![c].state = IF @ = "running" THEN "unwinding" ELSE @]
     /\ UNCHANGED flights

Unwound(c) ==
  /\ ensure[c].pc = "draining" /\ ~Active(c)
  /\ End(c)
  /\ UNCHANGED <<flights, task>>

FlightNext ==
  \E c \in Calls :
     \/ \E wanted \in SUBSET Requirements \ {{}}, background \in BOOLEAN :
           Ensure(c, wanted, background)
     \/ \E plan \in SUBSET ensure[c].wanted : Plan(c, plan) \/ Replan(c, plan)
     \/ \E timedOut \in SUBSET task[c].targets : TaskReturns(c, timedOut)
     \/ Follow(c) \/ TaskRaises(c) \/ Reap(c) \/ OwnerResumes(c)
     \/ CancelCall(c) \/ Unwound(c)

FlightSpec == FlightInit /\ [][FlightNext]_flightVars

-----------------------------------------------------------------------------
FlightTypeOK ==
  /\ flights \subseteq Calls
  /\ ensure \in [Calls ->
       [pc : {"idle", "reading", "joined", "rereading", "owner", "draining", "ended"},
        wanted : SUBSET Requirements, background : BOOLEAN, joined : SUBSET Calls]]
  /\ task \in [Calls ->
       [state : {"none", "running", "unwinding", "done", "raised"},
        targets : SUBSET Requirements, timedOut : SUBSET Requirements,
        after : SUBSET Calls]]

(* Every acquisition that runs can be joined: neither the reaping of settled *)
(* flights nor a cancelled caller takes a running task out of _flights       *)
(* ("The hard cap must NEVER evict a legitimately ACTIVE flight").           *)
ActiveIsListed == \A c \in Calls : Active(c) => c \in flights

(* Two flights acquire one requirement at the same time only if one of them  *)
(* was made by a call that had waited for others, and none of those is still *)
(* running: a first plan always joins.                                       *)
OverlapOnlyByFollowers ==
  \A c, d \in Calls :
     /\ c # d /\ Active(c) /\ Active(d)
     /\ task[c].targets \cap task[d].targets # {}
     => /\ task[c].after # {} \/ task[d].after # {}
        /\ c \notin task[d].after /\ d \notin task[c].after

=============================================================================
