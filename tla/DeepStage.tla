------------------------------ MODULE DeepStage ------------------------------
(***************************************************************************)
(* Stage 2 of an equity cycle, and the progress rows it can be resumed     *)
(* from: the deep loop of GlobalOpportunityOrchestrator with its bounded   *)
(* look-ahead and its repair passes, CycleCheckpoint (the loop's copy of   *)
(* the rows) and record_cycle_progress (the fenced write of one row).      *)
(*                                                                         *)
(* A worker takes the run, loads the rows, and goes through the persisted  *)
(* selection of candidates in order.  An outcome that is final, or a       *)
(* technical failure whose attempts are used up, is restored; everything   *)
(* else is started (a row IN_PROGRESS, one more attempt), acquired,        *)
(* evaluated, and its outcome recorded.  Repair passes then take the       *)
(* technical failures again.  Workers crash and lose their lease at any    *)
(* point; the next one goes on from the rows.                              *)
(*                                                                         *)
(* Dispositions with equal treatment are one: Final stands for those whose *)
(* state is final, Retryable for the technical failures; what a row's      *)
(* payload restores is the disposition, so the row holds it.               *)
(***************************************************************************)
EXTENDS Naturals, Sequences, FiniteSets

CONSTANTS
  Workers,       \* worker processes
  NoWorker,      \* nobody holds a live lease on the run
  N,             \* admitted candidates, 1..N in the order of the selection
  Concurrency,   \* research_stage2_concurrency
  Lookahead,     \* lookahead_depth: four times the concurrency in the code
  MaxAttempts,   \* DEFAULT_MAX_ATTEMPTS
  RepairPasses,  \* research_opportunity_repair_passes
  Outcomes,      \* dispositions an evaluation may end with
  MaxClaims,     \* bound on the times the run is claimed
  Stalls,        \* whether a transaction may outlast the lease it has checked
  RankerFails    \* whether the ranker may reject what has been counted as ready

Final == {"analyzed", "absent"}
Retryable == {"technical", "exception", "internal"}
Dispositions == Final \cup Retryable

ASSUME StageAssumption ==
  /\ NoWorker \notin Workers
  /\ N \in Nat /\ RepairPasses \in Nat
  /\ {Concurrency, Lookahead, MaxAttempts, MaxClaims} \subseteq Nat \ {0}
  /\ Outcomes \subseteq Dispositions
  /\ {Stalls, RankerFails} \subseteq BOOLEAN

VARIABLES
  owner,      \* who holds a live lease on the run
  cancelled,  \* whether the run is CANCEL_REQUESTED rather than RUNNING
  claims,     \* how often the run has been claimed
  row,        \* the DEEP rows: state and attempts of each candidate
  pc,         \* where each worker's loop is
  known,      \* CycleCheckpoint._progress
  tx,         \* the progress write each worker has executed and not committed
  round,      \* 0 in the main pass, then the repair pass
  todo,       \* the candidates of the pass that are still to come
  head,       \* the current candidate
  task,       \* inflight: the acquisitions started and not consumed
  begun,      \* started_attempts
  repairing,  \* repairing
  diag,       \* diagnostics, by candidate
  counts      \* the counters of the stage

db == <<owner, cancelled, claims, row>>
local == <<known, round, todo, head, task, begun, repairing, diag, counts>>
vars == <<db, pc, tx, local>>

Cands == 1..N
NoCand == 0
NoTx == [cand |-> NoCand, state |-> "none", add |-> 0]
States == {"none", "running"} \cup Dispositions
Rows == [state : States, attempts : Nat]
Counters == {"ready", "not_ready", "technical", "exception", "internal"}
NoTask == [c \in Cands |-> "none"]
NoDiag == [c \in Cands |-> <<>>]

\* A pass goes through its candidates in the order of the selection.
IsFirst(c, S) == c \in S /\ \A d \in S : c <= d

\* The workers that are going through the candidates.
Looping == {"next", "begin", "sweep", "wait", "settle"}
\* Those that have loaded the rows.
Loaded(w) == pc[w] \in Looping \cup {"ended", "stopped"}

TypeOK ==
  /\ owner \in Workers \cup {NoWorker}
  /\ cancelled \in BOOLEAN
  /\ claims \in 0..MaxClaims
  /\ row \in [Cands -> Rows]
  /\ pc \in [Workers -> {"off", "claimed", "ended", "stopped"} \cup Looping]
  /\ known \in [Workers -> [Cands -> Rows]]
  /\ tx \in [Workers -> [cand : Cands \cup {NoCand}, state : States, add : {0, 1}]]
  /\ round \in [Workers -> 0..RepairPasses]
  /\ todo \in [Workers -> SUBSET Cands]
  /\ head \in [Workers -> Cands \cup {NoCand}]
  /\ task \in [Workers -> [Cands -> {"none", "running", "done"}]]
  /\ begun \in [Workers -> SUBSET Cands]
  /\ repairing \in [Workers -> SUBSET Cands]
  /\ diag \in [Workers -> [Cands -> Seq(Dispositions)]]
  /\ counts \in [Workers -> [Counters -> Nat]]

Fresh == [state |-> "none", attempts |-> 0]

Init ==
  /\ owner = NoWorker
  /\ cancelled = FALSE
  /\ claims = 0
  /\ row = [c \in Cands |-> Fresh]
  /\ pc = [w \in Workers |-> "off"]
  /\ known = [w \in Workers |-> [c \in Cands |-> Fresh]]
  /\ tx = [w \in Workers |-> NoTx]
  /\ round = [w \in Workers |-> 0]
  /\ todo = [w \in Workers |-> {}]
  /\ head = [w \in Workers |-> NoCand]
  /\ task = [w \in Workers |-> NoTask]
  /\ begun = [w \in Workers |-> {}]
  /\ repairing = [w \in Workers |-> {}]
  /\ diag = [w \in Workers |-> NoDiag]
  /\ counts = [w \in Workers |-> [k \in Counters |-> 0]]

-----------------------------------------------------------------------------
(* The lease, as the rows see it.                                          *)

\* A lease runs out.  A worker that does not stall has no transaction open for
\* that long.
Expire ==
  /\ owner # NoWorker
  /\ claims < MaxClaims
  /\ Stalls \/ tx[owner] = NoTx
  /\ owner' = NoWorker
  /\ UNCHANGED <<cancelled, claims, row, pc, tx, local>>

\* A worker takes the run; a run to be cancelled is claimed only to end it.
Claim(w) ==
  /\ pc[w] = "off"
  /\ owner = NoWorker
  /\ ~ cancelled
  /\ claims < MaxClaims
  /\ owner' = w
  /\ claims' = claims + 1
  /\ pc' = [pc EXCEPT ![w] = "claimed"]
  /\ UNCHANGED <<cancelled, row, tx, local>>

RequestCancel ==
  /\ ~ cancelled
  /\ cancelled' = TRUE
  /\ UNCHANGED <<owner, claims, row, pc, tx, local>>

\* CycleCheckpoint.load, and the start of the main pass.
Load(w) ==
  /\ pc[w] = "claimed"
  /\ pc' = [pc EXCEPT ![w] = "next"]
  /\ known' = [known EXCEPT ![w] = row]
  /\ round' = [round EXCEPT ![w] = 0]
  /\ todo' = [todo EXCEPT ![w] = Cands]
  /\ UNCHANGED <<db, tx, head, task, begun, repairing, diag, counts>>

\* What the process held is gone: the acquisitions are cancelled and awaited in
\* the finally clause, or they die with the process.
Drop(w, to) ==
  /\ pc' = [pc EXCEPT ![w] = to]
  /\ tx' = [tx EXCEPT ![w] = NoTx]
  /\ todo' = [todo EXCEPT ![w] = {}]
  /\ head' = [head EXCEPT ![w] = NoCand]
  /\ task' = [task EXCEPT ![w] = NoTask]
  /\ begun' = [begun EXCEPT ![w] = {}]
  /\ repairing' = [repairing EXCEPT ![w] = {}]

Forget(w) ==
  /\ diag' = [diag EXCEPT ![w] = NoDiag]
  /\ counts' = [counts EXCEPT ![w] = [k \in Counters |-> 0]]
  /\ known' = [known EXCEPT ![w] = [c \in Cands |-> Fresh]]
  /\ round' = [round EXCEPT ![w] = 0]

\* The process ends, at any point; a transaction it had open is rolled back.
Crash(w) ==
  /\ pc[w] # "off"
  /\ claims < MaxClaims
  /\ Drop(w, "off")
  /\ Forget(w)
  /\ UNCHANGED db

-----------------------------------------------------------------------------
(* record_cycle_progress.                                                  *)

\* The faulty form of MayStart: nobody asks who owns the run.
MayStartUnowned(w) == ~ cancelled

\* The fence for a new attempt.
MayStart(w) == owner = w /\ ~ cancelled

\* The faulty form of MayFinish.
MayFinishUnowned(w, c) == cancelled => row[c].state # "none"

\* The fence for an outcome: a requested cancellation lets it through if the
\* candidate has a row.
MayFinish(w, c) ==
  /\ owner = w
  /\ cancelled => row[c].state # "none"

\* The statement has passed the fence and locked the candidate's row.  The run
\* row it has read is not locked.
Execute(w, c, s, n) ==
  /\ tx[w] = NoTx
  /\ \A v \in Workers : tx[v].cand # c
  /\ tx' = [tx EXCEPT ![w] = [cand |-> c, state |-> s, add |-> n]]

Written(r, t) == [state |-> t.state, attempts |-> r.attempts + t.add]

-----------------------------------------------------------------------------
(* The counters.                                                           *)

\* The counters a disposition increments; _RESTORE_INCREMENTS has the same.
Increments(d) ==
  CASE d = "analyzed"  -> {"ready"}
    [] d = "absent"    -> {"not_ready"}
    [] d = "technical" -> {"not_ready", "technical"}
    [] d = "exception" -> {"ready", "exception"}
    [] d = "internal"  -> {"internal"}

Plus(n, d) == [k \in Counters |-> IF k \in Increments(d) THEN n[k] + 1 ELSE n[k]]

\* Faulty forms of Minus: one count is left, or any failure is undone as a
\* technical one.
MinusTechnical(n, d) ==
  [k \in Counters |-> IF k \in Increments(d) \ {"not_ready"} THEN n[k] - 1 ELSE n[k]]

MinusAsTechnical(n, d) ==
  [k \in Counters |-> IF k \in {"not_ready", "technical"} THEN n[k] - 1 ELSE n[k]]

Minus(n, d) == [k \in Counters |-> IF k \in Increments(d) THEN n[k] - 1 ELSE n[k]]

\* One more diagnostic for c.
Diagnose(w, c, d) ==
  /\ diag' = [diag EXCEPT ![w][c] = Append(@, d)]
  /\ counts' = [counts EXCEPT ![w] = Plus(@, d)]

LastDiag(w, c) == diag[w][c][Len(diag[w][c])]

-----------------------------------------------------------------------------
(* The loop: which candidate is next.                                      *)

Restorable(r) ==
  \/ r.state \in Final
  \/ r.state \in Retryable /\ r.attempts >= MaxAttempts

\* The durable cancellation is read before each candidate of the main pass.
Stop(w) ==
  /\ pc[w] = "next"
  /\ round[w] = 0 /\ todo[w] # {}
  /\ cancelled
  /\ Drop(w, "stopped")
  /\ UNCHANGED <<db, known, round, diag, counts>>

\* A candidate of the main pass that has its outcome is restored.
Restore(w, c) ==
  /\ pc[w] = "next"
  /\ round[w] = 0 /\ IsFirst(c, todo[w])
  /\ ~ cancelled
  /\ Restorable(known[w][c])
  /\ Diagnose(w, c, known[w][c].state)
  /\ todo' = [todo EXCEPT ![w] = @ \ {c}]
  /\ UNCHANGED <<db, pc, tx, known, round, head, task, begun, repairing>>

\* Any other becomes the current one.
Take(w, c) ==
  /\ pc[w] = "next"
  /\ round[w] = 0 /\ IsFirst(c, todo[w])
  /\ ~ cancelled
  /\ ~ Restorable(known[w][c])
  /\ head' = [head EXCEPT ![w] = c]
  /\ todo' = [todo EXCEPT ![w] = @ \ {c}]
  /\ pc' = [pc EXCEPT ![w] = "begin"]
  /\ UNCHANGED <<db, tx, known, round, task, begun, repairing, diag, counts>>

\* The faulty form of TakeRepair: the previous diagnostic stays.
TakeRepairKeeping(w, c) ==
  /\ pc[w] = "next"
  /\ round[w] > 0 /\ IsFirst(c, todo[w])
  /\ head' = [head EXCEPT ![w] = c]
  /\ repairing' = [repairing EXCEPT ![w] = @ \cup {c}]
  /\ todo' = [todo EXCEPT ![w] = @ \ {c}]
  /\ pc' = [pc EXCEPT ![w] = "begin"]
  /\ UNCHANGED <<db, tx, known, round, task, begun, diag, counts>>

\* In a repair pass the previous outcome is undone first; the cancellation is
\* not read.
TakeRepair(w, c) ==
  /\ pc[w] = "next"
  /\ round[w] > 0 /\ IsFirst(c, todo[w])
  /\ head' = [head EXCEPT ![w] = c]
  /\ repairing' = [repairing EXCEPT ![w] = @ \cup {c}]
  /\ counts' = [counts EXCEPT ![w] = Minus(@, LastDiag(w, c))]
  /\ diag' = [diag EXCEPT ![w][c] = <<>>]
  /\ todo' = [todo EXCEPT ![w] = @ \ {c}]
  /\ pc' = [pc EXCEPT ![w] = "begin"]
  /\ UNCHANGED <<db, tx, known, round, task, begun>>

\* The faulty form of NeedsRepair: the attempts are not counted.
AnyFailure(w, c) == LastDiag(w, c) \in Retryable

\* The technical failures with attempts left.
NeedsRepair(w, c) ==
  /\ LastDiag(w, c) \in Retryable
  /\ known[w][c].attempts < MaxAttempts

Retry(w) == {c \in Cands : NeedsRepair(w, c)}

RepairNext(w) == round[w] < RepairPasses /\ Retry(w) # {}

NextPass(w) ==
  /\ pc[w] = "next"
  /\ todo[w] = {}
  /\ RepairNext(w)
  /\ round' = [round EXCEPT ![w] = @ + 1]
  /\ todo' = [todo EXCEPT ![w] = Retry(w)]
  /\ UNCHANGED <<db, pc, tx, known, head, task, begun, repairing, diag, counts>>

End(w) ==
  /\ pc[w] = "next"
  /\ todo[w] = {}
  /\ ~ RepairNext(w)
  /\ Drop(w, "ended")
  /\ UNCHANGED <<db, known, round, diag, counts>>

-----------------------------------------------------------------------------
(* The loop: one candidate.                                                *)

\* _take_acquisition starts the current candidate's acquisition, unless the
\* look-ahead has.
Launch(w, c) ==
  task' = [task EXCEPT ![w][c] = IF @ = "none" THEN "running" ELSE @]

\* The attempt of the current candidate was counted when it was prefetched.
BeginPrefetched(w) ==
  /\ pc[w] = "begin"
  /\ tx[w] = NoTx
  /\ head[w] \in begun[w]
  /\ begun' = [begun EXCEPT ![w] = @ \ {head[w]}]
  /\ Launch(w, head[w])
  /\ pc' = [pc EXCEPT ![w] = "sweep"]
  /\ UNCHANGED <<db, tx, known, round, todo, head, repairing, diag, counts>>

\* The write that counts it now.
Begin(w) ==
  /\ pc[w] = "begin"
  /\ head[w] \notin begun[w]
  /\ MayStart(w)
  /\ Execute(w, head[w], "running", 1)
  /\ UNCHANGED <<db, pc, local>>

InFlight(w) == {c \in Cands : task[w][c] # "none"}
Running(w) == {c \in Cands : task[w][c] = "running"}

\* The candidates the look-ahead would start.
Upcoming(w) ==
  {c \in todo[w] :
     /\ task[w][c] = "none"
     /\ repairing[w] = {} => ~ Restorable(known[w][c])}

\* The faulty form of MayPrefetch: what has ended is not counted.
MayPrefetchAny(w) ==
  /\ Concurrency > 1
  /\ Upcoming(w) # {}
  /\ Cardinality(Running(w)) < Concurrency

MayPrefetch(w) ==
  /\ Concurrency > 1
  /\ Upcoming(w) # {}
  /\ Cardinality(Running(w)) < Concurrency
  /\ Cardinality(InFlight(w)) < Lookahead

\* _prefetch_ahead, one candidate of it: the write that counts the attempt.
Prefetch(w, c) ==
  /\ pc[w] = "sweep"
  /\ MayPrefetch(w)
  /\ MayStart(w)
  /\ IsFirst(c, Upcoming(w))
  /\ Execute(w, c, "running", 1)
  /\ UNCHANGED <<db, pc, local>>

\* That write is refused, or the database call fails: the exception is taken
\* for one of the current candidate, whose acquisition is left in flight.
PrefetchFails(w) ==
  /\ pc[w] = "sweep"
  /\ tx[w] = NoTx
  /\ MayPrefetch(w)
  /\ Diagnose(w, head[w], "internal")
  /\ pc' = [pc EXCEPT ![w] = "settle"]
  /\ UNCHANGED <<db, tx, known, round, todo, head, task, begun, repairing>>

\* Nothing more to start, and the current candidate is not there yet.
Wait(w) ==
  /\ pc[w] = "sweep"
  /\ tx[w] = NoTx
  /\ ~ MayPrefetch(w)
  /\ task[w][head[w]] = "running"
  /\ pc' = [pc EXCEPT ![w] = "wait"]
  /\ UNCHANGED <<db, tx, local>>

\* The faulty form of Acquired: the loop is not woken.
AcquiredQuietly(w, c) ==
  /\ task[w][c] = "running"
  /\ task' = [task EXCEPT ![w][c] = "done"]
  /\ UNCHANGED <<db, pc, tx, known, round, todo, head, begun, repairing, diag, counts>>

\* An acquisition ends, with a result or an exception; the loop wakes if it was
\* waiting.
Acquired(w, c) ==
  /\ task[w][c] = "running"
  /\ task' = [task EXCEPT ![w][c] = "done"]
  /\ pc' = [pc EXCEPT ![w] = IF @ = "wait" THEN "sweep" ELSE @]
  /\ UNCHANGED <<db, tx, known, round, todo, head, begun, repairing, diag, counts>>

\* The ranker raises for a candidate that has been counted as ready: the count
\* stays, and the exception is an internal error.
Rejected(n) == [Plus(n, "internal") EXCEPT !["ready"] = @ + 1]

Reject(w, c) ==
  /\ diag' = [diag EXCEPT ![w][c] = Append(@, "internal")]
  /\ counts' = [counts EXCEPT ![w] = Rejected(@)]

\* The current candidate's result is taken and evaluated; an exception on the
\* way is a disposition as well.
Evaluate(w) ==
  /\ pc[w] = "sweep"
  /\ tx[w] = NoTx
  /\ ~ MayPrefetch(w)
  /\ task[w][head[w]] = "done"
  /\ \E d \in Outcomes, late \in {FALSE, RankerFails} :
       IF late THEN Reject(w, head[w]) ELSE Diagnose(w, head[w], d)
  /\ task' = [task EXCEPT ![w][head[w]] = "none"]
  /\ pc' = [pc EXCEPT ![w] = "settle"]
  /\ UNCHANGED <<db, tx, known, round, todo, head, begun, repairing>>

\* _checkpoint_deep_outcome.
Finish(w) ==
  /\ pc[w] = "settle"
  /\ MayFinish(w, head[w])
  /\ Execute(w, head[w], LastDiag(w, head[w]), 0)
  /\ UNCHANGED <<db, pc, local>>

\* A write commits, and the copy of the row follows; then the loop goes on.
Commit(w) ==
  /\ tx[w] # NoTx
  /\ LET c == tx[w].cand IN
       /\ row' = [row EXCEPT ![c] = Written(@, tx[w])]
       /\ known' = [known EXCEPT ![w][c] = Written(@, tx[w])]
       /\ IF pc[w] = "settle"
          THEN /\ pc' = [pc EXCEPT ![w] = "next"]
               /\ repairing' = [repairing EXCEPT ![w] = @ \ {c}]
               /\ head' = [head EXCEPT ![w] = NoCand]
               /\ UNCHANGED <<begun, task>>
          ELSE /\ Launch(w, c)
               /\ pc' = [pc EXCEPT ![w] = "sweep"]
               /\ begun' = [begun EXCEPT ![w] =
                              IF pc[w] = "sweep" THEN @ \cup {c} ELSE @]
               /\ UNCHANGED <<repairing, head>>
  /\ tx' = [tx EXCEPT ![w] = NoTx]
  /\ UNCHANGED <<owner, cancelled, claims, round, todo, diag, counts>>

\* A write outside the look-ahead is refused: CycleOwnershipLost ends the stage.
Refused(w) ==
  /\ tx[w] = NoTx
  /\ \/ pc[w] = "begin" /\ head[w] \notin begun[w] /\ ~ MayStart(w)
     \/ pc[w] = "settle" /\ ~ MayFinish(w, head[w])
  /\ Drop(w, "off")
  /\ Forget(w)
  /\ UNCHANGED db

-----------------------------------------------------------------------------
LoopStep(w) ==
  \/ Load(w) \/ Stop(w) \/ NextPass(w) \/ End(w)
  \/ \E c \in Cands : Restore(w, c) \/ Take(w, c) \/ TakeRepair(w, c)
  \/ BeginPrefetched(w) \/ Begin(w)
  \/ \E c \in Cands : Prefetch(w, c)
  \/ PrefetchFails(w) \/ Wait(w) \/ Evaluate(w)
  \/ Finish(w) \/ Commit(w) \/ Refused(w)

WorkerStep(w) == LoopStep(w) \/ \E c \in Cands : Acquired(w, c)

Next ==
  \/ Expire \/ RequestCancel
  \/ \E w \in Workers : Claim(w) \/ Crash(w) \/ WorkerStep(w)

Spec == Init /\ [][Next]_vars

-----------------------------------------------------------------------------
(* Properties.                                                             *)

\* The worker that holds the lease knows the rows as they are: what it decides
\* from its copy (restore, start, repair) it would decide from the database.
\* record_cycle_progress and CycleCheckpoint update the two separately, across
\* a take-over.
OwnerKnowsRows ==
  \A w \in Workers : owner = w /\ Loaded(w) => known[w] = row

\* An outcome that is final or used up is never worked on again, in whatever
\* order workers crash, lose the run and take it over: "no completed work is
\* re-executed".
WorkStands ==
  [][\A c \in Cands : Restorable(row[c]) => row'[c] = row[c]]_vars

\* The attempts of a candidate are bounded by the budget and by one more for
\* every take-over: a row left IN_PROGRESS is started once per tenure.
BudgetHolds ==
  \A c \in Cands : row[c].attempts < MaxAttempts + claims

\* One diagnostic and one disposition count per candidate, through restores,
\* failed look-aheads and repairs.
CountersExact ==
  \A w \in Workers :
    /\ \A c \in Cands : Len(diag[w][c]) <= 1
    /\ \A k \in Counters :
         counts[w][k] =
           Cardinality({c \in Cands : diag[w][c] # <<>> /\ k \in Increments(diag[w][c][1])})

\* When the pass over the candidates has ended, the worker that owns the run
\* holds for every candidate the outcome that is in its row: what is ranked and
\* published is what a resumed cycle would restore.
EndedIsDurable ==
  \A w \in Workers :
    pc[w] = "ended" /\ owner = w =>
      \A c \in Cands : diag[w][c] = <<row[c].state>>

\* The look-ahead is bounded: "at most stage2_concurrency acquisitions RUNNING
\* and at most lookahead_depth started-but-unconsumed", also when failed
\* look-aheads leave acquisitions behind.
LookaheadBounded ==
  \A w \in Workers :
    /\ Cardinality(Running(w)) <= Concurrency
    /\ Cardinality(InFlight(w)) <= Lookahead

\* A worker at work on the candidates can always go on: no acquisition ends
\* without waking the loop that waits for it, and no pass stops short.  Each
\* candidate is taken once in a pass and the passes are bounded, so the stage
\* ends if steps that can be taken are.
NeverStuck ==
  \A w \in Workers : pc[w] \in {"claimed"} \cup Looping => ENABLED WorkerStep(w)

=============================================================================
