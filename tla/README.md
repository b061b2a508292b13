# TLA+ specifications of the AI investment platform

This directory models the part of the platform whose correctness depends on
order and concurrency. The largest part is the **Opportunity Radar**, which runs
long research cycles in several replicas over a shared database; beside it stand
the persistence gate and the readiness runtime of the research engine, and the
stateful services for roles, brokers and portfolios. It holds TLA+ modules, the
configurations TLC checks them with, and proofs that TLAPS checks.

- [Modules at a glance](#modules-at-a-glance)
- [The system](#the-system): inventory of components
- [The plan](#the-plan)
- The radar: [the cycle store](#cyclestore-the-run-tables), [the
  worker](#cycleworker-the-processes) and [the deep stage](#deepstage-stage-2-and-its-checkpoints)
- The research engine: [the persistence gate](#persistencegate-one-connection),
  [kept results](#readinessreuse-kept-results), [flights](#readinessflights-single-flight-acquisition)
  and [suggestions](#suggestionepisodes-what-a-cycle-leaves-behind)
- The services: [roles](#roleadmin-who-administers-the-platform), [the IBKR
  connector](#ibkrconnector-gateway-processes) and [broker
  holdings](#holdingssync-broker-holdings)
- [Runs and bounds](#runs-and-bounds), [fairness](#fairness), [proofs](#proofs)
- [What the models found](#what-the-models-found)
- [What is left out](#what-is-left-out)

## Modules at a glance

| module | what it is |
|---|---|
| `CycleLifecycle` | abstract: what a reader of a cycle may see over time |
| `CycleStore` | the run tables, one action per SQL statement or transaction; implements `CycleLifecycle` |
| `CycleStoreProofs` | invariants, action properties and the refinement, proved |
| `CycleWorker` | processes: worker loop, submissions, heartbeat, shutdown, crash; implements `CycleStore` |
| `CycleWorkerProofs` | that the workers implement the store and keep its promises, and their own invariants, proved |
| `DeepStage`, `DeepStageProofs` | stage 2 of an equity cycle and its progress rows; proofs |
| `SerialStore` | abstract: one call at a time, in the order of dispatch |
| `PersistenceGate` | dispatch slot, threads, cancelled callers, lease renewals, mutation generation; implements `SerialStore` |
| `ReadinessReuse` | results kept over the gate (extends it, and implements it) |
| `ReadinessFlights` | single-flight acquisition |
| `ReadinessProofs` | proofs about the gate, the kept results and the flights |
| `SuggestionEpisodes`, `SuggestionEpisodesProofs` | suggestions, their history and the current projection; proofs |
| `AtomicRoles` | abstract: changes of roles made in one step each |
| `RoleAdmin`, `RoleAdminProofs` | administrators, bootstrap and the lock row, implementing `AtomicRoles`; proofs |
| `IbkrConnector`, `IbkrConnectorProofs` | sessions and gateway processes of the IBKR connector; proofs |
| `HoldingsSync`, `HoldingsSyncProofs` | broker snapshots written by two endpoints of the portfolio service; proofs |
| `MCCycleStore`, `MCCycleWorker`, `MCDeepStage`, `MCPersistenceGate`, `MCReadinessReuse` | instances for TLC |
| `MCServices` | small instances of six components side by side |

To check: `tlc -config MCWorkerEquity.cfg MCCycleWorker.tla`,
`tlapm CycleWorkerProofs.tla`.

## The system

Paths are relative to the repository root.

**Opportunity Radar** (`ai/research-engine/app`). One process per replica, an
asyncio event loop and a pool of database threads; all replicas share one
PostgreSQL database (SQLite in tests).

| component | source | state | operations | interacts with |
|---|---|---|---|---|
| Cycle run tables | `cycle_checkpoint.py`, `opportunity_persistence.py`, `etf_persistence.py` | `global_opportunity_cycle_run` (status, owner, lease, as_of), `.._active` (slot per market), selection, suggestions, progress rows | create, claim, renew, release, update, request/finish cancel, fail unowned, publish, persist suggestions, record progress | called by worker, endpoints, runner |
| Worker | `opportunity_worker.py` | `self.active`, `self.queue`, `_in_flight_cycle_id`, the loop and heartbeat tasks | start, submit, manual submit and resume, take over, run one, heartbeat, close | tables, runner |
| Runner | `global_opportunity_cycle.py`, `global_opportunity_orchestration.py`, `etf_opportunity_cycle.py`, `etf_full_universe.py` | checkpoint of the run in hand | evaluate, publish, project | tables, evidence acquisition |
| Scheduler | `global_opportunity_scheduler.py` | last session, last submission | decide, submit | worker, tables |
| Endpoints | `main.py` | none | submit, cancel, finalize-cancel, resume, read | worker, tables |
| Suggestion lifecycle | `opportunity_persistence.py` 559-790 | scans, suggestions, history, current projection | persist | runner |
| Persistence gate | `repository.py` 825-905, `postgres_persistence.py` | dispatch slot, worker lock, mutation generation | dispatch a call to a thread, drain on cancellation, lease bypass | everything above |
| Readiness runtime | `research_readiness_runtime.py` | flights, evidence cache | assess, acquire, single-flight | gate, providers |
| Background tasks | `background_task_registry.py` | set of tasks | add, reap, drain | endpoints |
| Market data jobs, document cache, scoring | `market_data_*.py`, `document_cache.py`, `stock_rule_engine.py`, ... | evidence rows | acquire, parse, score | providers, gate |

**Services.** `services/ibkr-connector` (sessions of a gateway process per
connection), `services/broker-service` (connections, allocation of a Kubernetes
runtime, circuit breaker and rate limiter), `services/auth-service` (accounts,
refresh tokens, role administration), `services/portfolio-service` (portfolios,
imports, instrument master), `services/api-gateway`. `services/research-service`
is schema migrations; company, notification, recommendation and risk services
are stubs. `ai/mcp-gateway` and `ai/yahoo-finance-mcp` proxy providers. The
frontend, the infrastructure and the scripts keep no state of their own.

### What is hard, and what makes it correct

- *Ownership.* Replicas take runs over when a lease runs out; the old owner may
  still be running. Correct when every write is fenced on the live lease, so a
  late writer changes nothing, and two runners for a cycle need a stalled one.
- *Cancellation* is in two phases and races publication, expiry, takeover and
  shutdown. Correct when what users have seen is never cancelled, a cancelled
  run is never published, and a requested cancellation ends as one.
- *Crashes.* Publication and suggestions are two transactions. Correct when a
  completed run has both, whoever wrote them, and as_of is the same throughout.
- *The process-local cache* (`self.active`, the queue) mirrors a database row
  that others change. Correct when it never names a run nobody works on: such a
  process would neither admit nor take over a run again.
- *Liveness.* An admitted run ends, whatever happens to its owners.
- *Take-over of half-done work.* A resumed run goes on from progress rows.
  Correct when what has its outcome is never worked on again, the attempts of a
  candidate are bounded, and what is published is what the rows restore.
- *One connection, many coroutines.* A database thread outlives its cancelled
  caller. Correct when the slot stays taken until the thread has ended and is
  never lost, and every call ends.
- *Kept results.* Readiness is handed out again while a generation counter
  stands still. Correct when it holds what has been committed.
- *Single flight.* Correct when every running acquisition can be joined.
- *Replays.* The suggestion step runs again after a crash. Correct when the
  second time changes nothing.
- *State read before and written after an await* (IBKR connector), *two requests
  under different locks* (portfolio), *checks under a lock row* (auth).

`PROJECT.json` lists each of these hazards at its line, with the properties that
cover it.

## The plan

A module marked * composes those before it. Done:

1. `CycleStore` with `CycleLifecycle` above it; proofs.
2. `CycleWorker`* over `CycleStore`; proofs.
3. `DeepStage`: candidate checkpoints, attempts, look-ahead, repair passes and
   the fence of a progress write; proofs.
4. `PersistenceGate` with `SerialStore` above it, and `ReadinessReuse`* over it; proofs.
5. `ReadinessFlights`, `SuggestionEpisodes`, `RoleAdmin` with `AtomicRoles` above it;
   proofs.
6. `IbkrConnector`, `HoldingsSync`; proofs.

Left, in the order of what it would add: the allocation of runtimes in the broker
service with its compensation; the baseline phase and its progress rows; file imports of the
portfolio service (confirmation, rollback, history); refresh tokens of the auth
service. [What is left out](#what-is-left-out) has the reasons for the rest.

## CycleStore: the run tables

The state is the row of each cycle (`status`, `owner`, `lease`, `asOf`), the
active slot of each market (`slot`), and which cycles have a published selection
(`radar`) and suggestions (`suggested`). A lease is the number of ticks until
`lease_expires_at`; 0 is expired or NULL. `asOf` is named after the owner that
wrote it, since only whether it changes matters.

Each action is one statement or transaction of `CycleRunPersistenceMixin` or of
the two publishing functions, with its WHERE clause as guard: a statement that
matches no row changes nothing, which is stuttering. `Finish` is what every
terminal transition writes: status, owner and lease NULL, slot deleted.

- `SlotConsistent`: slot and rows agree both ways. Hence a market has one resumable
  run (`OneActivePerMarket`, a theorem of its own).
- `LeaseHeldByOwner`, `LiveLeaseIsExclusive`: no lease without owner or on an ended
  run; a live lease is only given up, never taken.
- `PublishedStands`: a selection users can see is never cancelled or failed.
- `EndIsFinal`: a terminal run never changes, and a run asked to cancel only ends
  `CANCELLED`.
- `ImplementsLifecycle`: with owners, leases and slots hidden, and ACCEPTED and
  RUNNING both "OPEN", the tables follow the lifecycle of `CycleLifecycle`:
  `phase <- Phase`, `shown <- radar`, `projected <- suggested`.

## CycleWorker: the processes

An element of `Workers` is one incarnation of a process: it has a fresh owner
id, starts once, and ends by a crash or a shutdown; the restarted pod is another
element. Four things interleave on its event loop: the worker loop (`pc`), one
submission (`api`; `_submission_lock` admits one at a time), the heartbeat
(`beat`) and `close()` (`leave = "tail"`). A step is one database operation with
the code after it up to the next `await`. `PROJECT.json` maps each action to its
lines; `pc` values name the pieces of `_run_one`:

| `pc` | code |
|---|---|
| `idle`, `offer` | `_work` waiting on the queue; `_take_over_async` between its reads and its enqueueing |
| `claim`, `screen`, `drain` | before the `try`: claim, cancellation reads, drained recovery |
| `begin` ... `complete` | the `try` body with the runner in it: enter, stamp as_of, work, publish, project |
| `cancelled`, `stop`, `release`, `fail`, `lost` | the `except` clauses |
| `final`, `log` | the `finally` clause |
| `dead`, `tail`, `gone` | the loop task has ended; `close()` after the loop; no process |

The state shared with other processes is the store's, through
`Store == INSTANCE CycleStore` with the workers as owners. `Projects` selects the
equity runner (as_of, suggestions) or the ETF one, `Paused` the manual mode in
which only operators start and resume runs.

Reads and writes that the code puts on both sides of an `await` are separate
steps: poll and enqueue (`Poll`, `PollOffer`), the stale-cache check and the drop
(`Submit`, `DropStale`), creation, recording and enqueueing (`Create`, `Admit`), the
runner's look at the row and what it does next (`Enter`). The claim reads its
clock in an earlier statement; in the model this is a claim followed by ticks.

- `ImplementsStore`: no path writes around a fence.
- `OneRunner`: while nobody has stalled past a lease (`stalls = 0`), no two
  processes are in the runner for one cycle.
- `CompletedIsProjected`: a COMPLETED run has a selection and, for equity,
  suggestions, although a crash or takeover may fall between the transactions.
- `NoLateCancel`: once a runner has returned, its run cannot be cancelled any more,
  so the check after the runner (`opportunity_worker.py` 608) finds nothing. Both
  runners publish before they return. That branch is kept in `Recheck`, as one step.
- `AsOfStable`: as_of never changes once set.
- `ScansTakeTurns`: when a scan is published, every earlier scan of its market is
  projected and its run completed, whoever crashed in between.
- `NoStrandedCache`: a process whose `self.active` names a run has it queued or in
  hand, or can find out that it was cancelled.
- `EveryRunEnds` (liveness): every admitted run reaches a terminal status.

## DeepStage: stage 2 and its checkpoints

The runner's step `Work` of `CycleWorker`, looked at from inside for an equity
cycle: the deep loop of `GlobalOpportunityOrchestrator`, `CycleCheckpoint` and
`record_cycle_progress`. Shared are the lease (`owner`), the cancellation and the
progress rows (`row`: state and attempts of each candidate). Each worker has its
place in the loop (`pc`), its copy of the rows (`known`, `CycleCheckpoint._progress`),
the candidates still to come (`todo`), the current one (`head`), the acquisitions in
flight (`task`), and its diagnostics and counters.

| `pc` | code |
|---|---|
| `claimed` | the run is taken, the rows are not loaded yet |
| `next` | the head of the candidate loop: restore, take, stop, next pass |
| `begin` | `_take_acquisition`: the write that counts an attempt |
| `sweep`, `wait` | `_prefetch_ahead` and the wait for the first acquisition |
| `settle` | the outcome is there and has to be recorded |
| `ended`, `stopped` | all passes done; cancellation seen |

A progress write has two steps, `Execute` (the fence has been evaluated, the
candidate's row is locked) and `Commit`: the statement reads the run row without
locking it, so the lease may change hands between them. `Stalls` says whether it
may do so with a transaction open. Dispositions with the same treatment are one.

- `OwnerKnowsRows`: the owner's copy is the table, across every take-over.
- `WorkStands`: a restorable row never changes again.
- `BudgetHolds`: attempts stay below the budget plus one per take-over, since a row
  left IN_PROGRESS is started again whatever its attempts.
- `CountersExact`: one diagnostic per candidate, and the counters count them,
  through restores, failed look-aheads and repairs.
- `EndedIsDurable`: what is ranked and published is what the rows restore.
- `LookaheadBounded`: also when failed look-aheads leave acquisitions behind.
- `NeverStuck`: the loop can always go on; with passes and candidates bounded,
  the stage ends if steps that can be taken are.

## PersistenceGate: one connection

`_run_blocking_persistence` and `_run_lease_persistence` of `repository.py`. `slot` is
the dispatch semaphore, `ahead` its queue, `lock` the connection lock the threads
take, `thread` the thread of each task, `generation` the readiness mutation
generation, `store` the writes committed so far, each known by its ticket, the
generation it was dispatched with. `pc` is the place of a caller: queued for the
slot, woken (`granted`), awaiting its thread, or draining after a cancellation.
Cancellation can hit each place: `Withdraw`, `PassOn`, `Interrupt`/`Drained`. A renewal
of a lease takes the lock without the slot, and leaves its thread behind when it
is cancelled (`LeaveThread`).

- `ThreadKeepsSlot`, `SlotNotLost`: through repeated cancellations, no thread of a
  caller is without its slot and no slot without a task that will leave it.
- `CallsEnd` (liveness): every call ends, renewals included.
- `ImplementsSerialStore`: with slot, queue, threads and cancellations hidden, the
  gate is the store of `SerialStore`: a call takes effect at one moment between its
  dispatch and its return or never, in the order of dispatch, and never after its
  caller has been let go. A caller's `phase` is open until its thread has ended
  (`Ended`) or it has left without one; `before` are those ahead of it in the queue
  and whoever has the slot with its thread not yet at its end. So writes commit in
  the order of their dispatch (`CommitsInOrder`, a theorem of its own).

## ReadinessReuse: kept results

Extends the gate with the two places that keep an assessment: the cache of
`ResearchReadinessRuntime.read` (`cache`) and the memo of an acquisition pass
(`memo`). An entry holds what the assessment saw and its tag; it is handed out
while the tag is the generation. The two differ in when the tag is taken: the
memo's before the dispatch (`TagAtDispatch`), the cache's after the assessment has
returned (`TagNow`).

- `MemoIsCurrent`: a memo that may be handed out holds exactly what is committed.
- `CacheMissesOnlyOverlap`: the cache may miss writes that were dispatched during
  its own assessment, and no others. That it misses none is refuted (`reuse_stale`).

The gate is the abstract machine here: `ReuseImplementsGate` proves that every step
of `ReadinessReuse` is one of the gate or leaves it alone.

## ReadinessFlights: single-flight acquisition

`ensure` of the readiness runtime for one instrument. `flights` is `_flights`,
`ensure[c]` the call as a coroutine between its awaits (`reading`, `joined`,
`rereading`, `owner`, `draining`), `task[c]` the task it registered. A call plans what
is missing, joins the flights that overlap its plan, reads again, and acquires the
rest without looking at `_flights` a second time. What a read finds missing is any
subset of what was asked for.

- `OverlapOnlyByFollowers`: two flights acquire one requirement at once only if a
  call that had waited for others made one of them; a first plan always joins.
  The proof also gives `ActiveIsListed`: every running acquisition can be joined.

## SuggestionEpisodes: what a cycle leaves behind

`persist_global_suggestion_lifecycle` for one instrument and horizon: `opened` are
the rows of `global_stock_suggestion`, `history` the events, `current` the projection.
A cycle publishes a scan with its card (`PublishCard`), projects it in a second
transaction, and a worker that resumes the run projects it again (`ProjectCard`,
as often as it likes). That scans of a market are projected one after the other is
what `ScansTakeTurns` of `CycleWorker` says and `MarketScansInTurn` proves.

- `ReplayIsSilent`: the second projection of a scan changes nothing.
- `ProjectionTellsHistory`: the current row names the newest episode, when it was
  opened and its last action, and every episode begins with a BUY.

## RoleAdmin: who administers the platform

Grants, revocations, the command line and the first-admin bootstrap as
transactions of any number of service instances over `account`, `admins` and `audit`.
`role_admin_lock` (`changesHeldBy`) is taken before anything is read; the reads
(`Decide`) and the commit are separate steps, and registrations and verifications
go on without the lock.

- `LastAdminStands`: administrators revoking each other never leave none.
- `AuthorsWereAdmins`: whoever the audit trail names as the author of a change was
  an administrator then, by what the trail itself says before that entry. The role
  is read after the lock is taken; a token that still claims it is not enough.
- `ImplementsAtomicRoles`: lock, reads and commit look like one step of `AtomicRoles`,
  in which a change is still due, and its author still entitled, at the moment it
  is made. So the bootstrap commits once (`OneBootstrap`, a theorem of its own).

The bootstrap promises no more than an empty trail and no administrator at its
commit. It also refuses when accounts exist, but counts them before its insertion
while registrations go on, so an account may have come to exist in between.

## IbkrConnector: gateway processes

`ConnectorManager`, one event loop. `sessions` names the session of a connector,
`session` all sessions ever made, `gateways` those whose process is alive,
`managerLock` the asyncio lock with its queue. `create` and `restart` replace
sessions under the lock; `stop` and the status refresh run without it. A refresh
leaves the loop for an HTTP probe (`Probe`) and applies what it hears to the session
it began with (`Hear`), whatever has become of it.

- `GatewaysAccounted`: a process that runs belongs to the session its connector
  names, except one that was running when a restart that had waited for the lock
  replaced its session (`displaced`). A create or another restart had started it
  between the stop of that restart and its turn; nothing stops it then.

## HoldingsSync: broker holdings

`syncBrokerConnection` and `importBrokerConnection` of the portfolio service for one
account and its portfolio. The two put different keys into `ACTIVE_SYNCS`, and a
key is given back in `finally`, before the transaction commits. `position` and
`holding` are the committed rows (valued positions and incomplete holdings), `sync`
the place of each request with what its transaction is about to mark stale; `older`
is a history variable, the requests that had a snapshot when a request got its own. What
keeps two transactions apart is the portfolio's row (`portfolioLock`): it is dirty
when the positions are queried, so Hibernate writes it first and the database
holds it to the end; a portfolio inserted twice fails on its unique index.

Not every transaction takes that row. A sync always writes its attempt into the
portfolio, but an import leaves it as it is unless `isRealBrokerSnapshot` (484-487)
finds a position, or cash whose source is `REAL_BROKER`, as IBKR tags it and HDFC and
ICICI do not. So an import of an account without positions may run beside anything
(`dirty` is FALSE; `tagged` is the choice of the cash's source). It reads the positions
to mark stale with one query and the incomplete holdings with another (`ApplySnapshot`,
`MarkHoldings`), and its UPDATEs overwrite what was committed in between. `lastSync`
is the last commit that took the row, `base` what it was when a request read the rows.

- `HoldingsFollowSnapshot`: the rows are those of the last snapshot that took the
  row, among the snapshots of one endpoint of the newest one, but for rows that an
  empty import without the row has marked stale since. If that import read the rows
  as the snapshot left them, nothing is active; if it overlapped its commit, a part
  of them may be, and nothing in the code decides which.

## Runs and bounds

| run | instance | question |
|---|---|---|
| `store` | 3 cycles, 2 for one market; 2 owners; lease of 2 | all orders of the statements |
| `worker_equity` | 2 equity workers, 1 cycle, cancels, 1 stall | the safety properties, and that the store is implemented |
| `worker_manual` | 2 equity workers in manual mode, 2 cycles, cancels, lease of 2, 1 stall, 1 failing call | one runner per cycle where only an operator resumes, and the scans of a market follow each other |
| `worker_etf` | 2 ETF workers, 2 cycles, cancels | the process-local cache, with a replacement submitted over a cancelled run |
| `worker_ends` | 2 ETF workers, 1 cycle, cancels, fairness | every admitted run ends |
| `worker_dead_loop` | 1 equity worker, 2 cycles, cancels, fairness | violated, see below |
| `worker_zombie` | 2 equity workers, 1 cycle, 1 stall | violated, see below |
| `deep` | 2 workers, 3 candidates, 2 claims, look-ahead 2, 2 attempts, 2 repair passes | checkpoints, budget and accounting through crashes and take-overs |
| `deep_counts` | as `deep`, and the ranker may raise | violated, see below |
| `gate` | 3 callers, 1 renewer, 2 writes, fairness | the slot, every call ends, the serial store is implemented |
| `reuse_stale` | 3 callers, one of them with a memo, 1 write | violated, see below |
| `services` | six components, see the next table | the properties of each |

A behaviour of `services` belongs to one component, chosen at the start (`part`);
the others rest. They share nothing but model values, so that one symmetry set
serves all.

| component in `services` | instance |
|---|---|
| `ReadinessReuse` | 3 callers, one with a memo, 2 writes |
| `ReadinessFlights` | 3 calls, 2 requirements |
| `SuggestionEpisodes` | 2 states of the evidence, 5 scans |
| `RoleAdmin` | 3 accounts, 2 transactions, 4 audit entries |
| `IbkrConnector` | 3 coroutines, 2 connectors, 3 sessions, 4 requests |
| `HoldingsSync` | 3 requests, retried as often as they fail, 1 instrument |

Why these bounds are enough. Two owners and two cycles of one market are what a
conflict needs; the third cycle shows that markets do not interfere. A worker
only asks whether a lease is live, so one tick is enough where its length
matters to nobody; two ticks let a renewal come early. Two incarnations give
every handover from one owner to the next; a crash or shutdown needs a
`Survivor`, as the deployment keeps a replica. `MaxStalls` bounds leases that
lapse under a beating heart and `MaxFaults` failing calls; without the bounds
they could recur for ever. The second cycle of `worker_etf` is what a replacement
needs, and in `worker_manual` the second cycle is the next scan.

In `deep`, three candidates are a current one, one in the look-ahead and one that
it may not reach; two claims give a take-over at every point, and with a budget
of two attempts each way of using it up (repair, take-over, both) occurs. Of the
outcomes an evaluation may end with, `absent` is treated as `analyzed` and left out.
In `gate`, a holder and two waiters are what the queue needs to be out of order, and
two writes what commits need. A follower that overlaps another needs three calls:
an owner and two that wait. Five scans are BUY, SELL, BUY and two replays or updates.
Two transactions are what a race for the lock row needs, and three accounts a
revoker, a revoked and a bystander; four entries let a revoker be revoked and
somebody be granted the role again. Two restarts and a create of one connector
need three coroutines. In `HoldingsSync` instruments do not interact, so one is
enough; three requests give a committed snapshot and two that overlap over it.

The [proofs](#proofs) remove these bounds, except for the properties listed at
their end.

Cycles, workers and what `a` and `b` stand for in `services` are interchangeable,
hence the symmetry sets; the liveness runs do without. Deadlock is checked in
`gate`. Elsewhere the system may come to rest: in the store with every run
ended, in the workers with no submission and no operator (and in manual mode it
does so by intent), the deep stage when it has ended and no claim is left, the
services at their bounds.

## Fairness

`FairSpec` assumes what the code's scheduling gives: the event loop runs every
task that can proceed (`LoopStep`, `ApiStep`, `BeatLost`); a pod that is up starts
its worker (`Start`); a lease nobody renews runs out; and the scheduler submits
again when `_submission_due` says so, which restarts a dead loop (`Restart` when
`SchedulerDue`). Nothing is assumed of users and operators, of crashes, or of
renewals. Branches inside a step (a failing analysis) are not fair either.

`EveryRunEnds` is checked for the ETF runner with cancellations; with
`Projects = TRUE` and `Cancellable = {}` it holds too (two minutes, not kept as a
run). For equity with cancellations it does not hold, because of the first finding.

The gate's `Fairness`: the event loop resumes a caller that was granted the slot or
whose thread has ended, and a statement ends (the database has a statement
timeout). A thread gets the connection lock if it finds it free again and again:
`threading.RLock` is not first come first served, so this is strong fairness of
`TakeLock` and no more. Nothing is assumed of who calls and who is cancelled.

## Proofs

For any number of cycles, owners, markets and workers, any lease length and any
bounds, from `StoreAssumption` and `WorkerAssumption` (the slots' and owners' NULL
is not a cycle or an owner; a lease is at least one tick).

`CycleStoreProofs`. Types, slots and publication are inductive with
`LeaseHeldByOwner`: `SlotConsistent` implies `OneActivePerMarket`, `EndIsFinal` needs
that no terminal row has an owner, and `PublishedStands` that no statement of
anyone else moves a published run. With them, each statement maps to a step of
`CycleLifecycle` or to a stutter (`StoreImplementsLifecycle`).

`CycleWorkerProofs`. A worker's statement is one of the store's once the variable
that names its cycle does name one: `InHand`, inductive with the types of the
process variables. `RunRefines` and `NextRefines` then give
`WorkerImplementsStore`, so every theorem about the store holds under the workers
(`TablesAlways`).

An inductive invariant for each property that relates tables to places in the
loop:

- `Stamping`: a worker about to stamp a run it still owns stamps an unset as_of.
  A lapse alone does not break it, as another stamp needs another owner, and to
  own the run again the first worker must claim, which restarts the runner.
- `Holding`: before the first stall, a worker in the runner owns the live lease
  and its heart beats; only then is a lease's last tick a stall (`Guarded`).
  Statements of others leave it alone (`Untouched`).
- `Projected`: a worker whose runner has returned finds selection and suggestions
  in the tables, whichever owner wrote them; with `PublishedStands` this also
  proves `NoLateCancel`.
- `CacheInv`: what `self.active` names is cancelled, queued, in hand, or held by a
  worker that is closing (`Reachable`), and no loop has died (`LoopAlive`). A step
  either leaves the cache and the place alone (`Keeping`) or moves the cycle from one
  of these to the next; a cancelled run stays so whatever others do
  (`CancelledStays`). `CacheIsReachable` assumes `~Projects` and `MaxFaults = 0`: it is
  a theorem about ETF workers whose database calls succeed. Without either TLC
  refutes the property; the equity case is the first finding below.

`MarketScansInTurn` rests on the store and on `Projected`: whoever may publish owns a
run that holds its market's slot, so every other run of the market has ended
(`SlotAlways`), a published run that has ended is `COMPLETED`, and a completed run is
projected. It is what `SuggestionEpisodes` assumes of its scans.

`WorkersKeepPromises` instantiates the theorems of `CycleStoreProofs` with the
worker's tables: lifecycle, finality of ends, exclusive leases, one resumable run.

`ReadinessProofs`. `GateInv`: a thread of a caller exists only while the caller
holds the slot (`Frames`), the queue is in the order of the tickets (`InOrder`), and a
write that may still commit is later than every committed one (`Tickets`). So a
finished read has every write its ticket counts (`Settled`), and a kept result
stays so (`Sound`), as later writes have later tickets: `MemosAreCurrent`,
`TheCacheMissesOnlyOverlap`. `LineInv`, inductive relative to `GateInv`, says that the
queue is finite, so that whoever leaves the slot finds a first waiter, and that the
connection's lock is held by a thread that runs. `GateImplementsSerialStore` is proved
step by step from `GateInv`: a call is open exactly while it is queued or its thread may
still run (`PhaseOf`), the thread that ends is the one with nobody before it
(`EndRefines`), and handing the slot over, interrupting and draining are stutters.
With `ReuseImplementsGate`, kept results stand over such a store too. From `LineInv`
follows `GateAlwaysGoesOn`, the gate's
freedom from deadlock, said with the guards: whoever is not idle can take its next
step or waits for one who can. `FlightInv`: a call has no task before it registers one,
and what a follower has waited for is done for good (`JoinedThenDone`, `AfterDone`);
then only a follower can meet a flight it has not looked at.

`DeepStageProofs`. `StageInv` has a part per worker that says from the worker's own
variables where each candidate stands: which have a diagnostic (`Diagnosed`), which
of these are in the row (`Settled`), which may still be started and within which
budget (`InBudget`), what an open transaction may write (`Writing`), and that the
counters count the diagnostics (`Exact`). This part is inductive whatever becomes of
the lease. The part for the rows (`Shared`) is so only if no transaction outlasts
the lease it has checked, so that `OwnersKnowTheRows`, `BudgetsHold`,
`WhatEndedIsDurable` and `WorkStandsForever` assume `~Stalls`; TLC refutes
`OwnerKnowsRows` without it. `CountersAreExact` needs
`~RankerFails` instead (finding 4); `CountersNeverShort` is what holds without.

Two further invariants are inductive relative to `StageInv`. `AheadInv`, for
`LookaheadStaysBounded`: a failed prefetch leaves the acquisition of its candidate in
flight with nobody to consume it, and `_take_acquisition` starts the current one
without asking for room. There is room, because the acquisitions left behind
(`Left`) are always fewer than the bounds (`Bounds`): one is left only by a prefetch
that had room. And a candidate that has to be started has none prefetched beyond it
(`NoneBeyond`), because the look-ahead goes in order (`AheadInOrder`). An uncommitted
prefetch keeps its room (`HasRoom`). `HeadInFlight`, for
`LoopAlwaysGoesOn`: the loop only sleeps while the acquisition of its candidate runs.
That theorem says with the guards of the code what `NeverStuck` says with ENABLED;
it assumes `~Stalls`, as a stalled transaction keeps its row locked.

`SuggestionEpisodesProofs`. `EpisodeInv` carries that every episode has a last event,
which makes the `ORDER BY ... LIMIT 1` of the code definite without an induction, and
what a projected scan leaves behind (`Settled`), which is why a replay is silent.

`RoleAdminProofs`. `RoleInv`: who is past the lock holds it, and what it has read is
still so when it commits (`ReadsStand`): registrations and verifications cannot
take an administrator away. `RolesAreAtomic` needs no more than that, since a commit
whose reads still stand is the abstract change. `TrailInv` relates the trail to the
table: the last entry of every administrator is a grant (`TrailTells`). So an author
who is one when an entry is appended is one by the trail before it, and stays so as
the trail grows: `AuthorsAlwaysWereAdmins`.

`IbkrConnectorProofs`. `IbkrInv`: a gateway that runs belongs to a session with a
process, and a stopped session has none (`SessionsOK`). `create` replaces a session
only when it is stopped and `restart` stops it first, so neither takes a running
gateway out of reach, except the restart that waited for the lock and finds, in place
of the session it stopped, one that a create or another restart has started since. Whoever waits for the lock is in its queue, and who
keeps it across a probe is at its head (`QueueOK`): the lock is never handed to
nobody. Answers that come late change the states of a session and not its
connector or its process (`StatesChange`).

`HoldingsSyncProofs`. `HoldingsInv`: a request alone behind its key can have nothing
older of its endpoint but transactions that only have to end (`OlderFirst`), since the
key is given back before the commit; if such a transaction takes the portfolio's row
it holds it (`RowHeld`), so that a later one that takes it writes after it. An import
that takes no row reports nothing (`EmptyImport`): it can only make rows inactive. So
what a transaction with the row has read of the rows to mark stale covers all that is
still active when it commits, and so does what an import without it has read, as long
as no transaction with the row has committed since (`StaleKnown`). `RowFollows` then
says, row by row, what the last commit with the row left, or a later import without
it, and `EmptyImportClears` when nothing is left.

Only model-checked: `EveryRunEnds` and `CallsEnd`, as liveness under fairness is out of
the prover's reach, and ENABLED in `NeverStuck`. `ServicesTypeOK` joins the type
invariants of six components, each of which is proved for its component.
The findings below are counterexamples of TLC.

## What the models found

1. **A cancelled equity run can end the worker loop for good**
   (`worker_dead_loop`). A baseline candidate that reads the cancellation raises
   `asyncio.CancelledError` (`global_opportunity_orchestration.py` 382). `_run_one`
   finishes the cancellation and re-raises (`opportunity_worker.py` 657), so the
   `_work` task of a live worker ends. If a submission drops the stale cache and
   admits a replacement while the loop is ending, the replacement sits in the
   dead loop's queue and in `self.active`: the scheduler skips, submissions
   coalesce, take-over returns at once. The run stays ACCEPTED and holds its
   market's slot; no worker of that process runs it.
2. **A superseded worker logs the failed run of its successor** (`worker_zombie`).
   `_superseded_or_done` omits FAILED, against the comment at lines 710-711.
3. **Readiness is handed out without a committed write** (`reuse_stale`). A write
   counts when it is dispatched (`repository.py` 845), the cache's tag is read after
   the assessment (`research_readiness_runtime.py` 1660): a write that waits behind
   the assessment is in the tag and not in the result. The comment at 1625-1627
   promises otherwise. The memo (932) takes its tag in time.
4. **A candidate the ranker rejects is counted twice** (`deep_counts`). It is counted
   as ready before `ranker.score` raises and as an internal error after
   (`global_opportunity_orchestration.py` 1444, 1510), and a repair takes back only
   the second; the comment at 1123-1126 says "accounting stays exact".

Noted without a run.

*Radar.* A database error before the `try` of `_run_one`, or in the
first read of `finally`, leaves `self.active` set and the loop dead in the same
way (`NoStrandedCache` fails with one fault); the docstring of
`cycle_cancellation_requested` (`cycle_checkpoint.py` 360) says that no different
owner can claim a CANCEL_REQUESTED run, while `claim_cycle_run` lets one in once
the lease is gone, which is how a crashed owner's cancellation gets finished
(`Screen`, `Drain`); the cancel endpoint's docstring (`main.py` 761) counts PUBLISHED among the
statuses it accepts, `request_cycle_cancel` does not. With `Stalls = TRUE`,
`OwnerKnowsRows` fails: the fence of `record_cycle_progress` (`cycle_checkpoint.py` 447)
reads the run row without a lock, so a transaction that outlasts its lease writes a
row behind the new owner's back.

*Gate.* A write is recognised by the prefix of its name (`repository.py` 742);
`persist_international_financial_facts`, `append_news_record` and others do not match,
and readiness kept before them is handed out after them.

*Readiness.* Two followers may acquire one requirement at once: strict single flight
fails, `OverlapOnlyByFollowers` is what is left of it. After the hard deadline the
inner execution is abandoned (`research_readiness_runtime.py` 1945) while its flight
is reaped.

*Suggestions.* A closed episode can be continued: after SELL a PARTIAL_EXIT card
makes the projection's action PARTIAL_EXIT again, and the next BUY continues the
old episode instead of opening one.

*IBKR connector.* Each was refuted by TLC as a property. A probe that answers after
`stop` overwrites STOPPED, and `create` then finds a live session without a process.
A restart that waits for the lock replaces the session it finds without stopping it
(`runtime.py` 129-141), also when a create or another restart has started that one
since its own stop: the gateway runs on without a session that names it (the
exception in `GatewaysAccounted`). The limit of one running
connector (`runtime.py` 84) is checked by `create` only, so restarts exceed it.

*Portfolio.* An empty import of an HDFC or ICICI account takes no lock
(`PortfolioService.java` 246). TLC refuted that the rows are always those of one
snapshot: such an import reads the active rows while a sync's insert is not yet
committed and commits after it, and a position stays active that the last snapshot
does not report; or it marks stale some rows of a newer snapshot and not others. A position that loses its prices becomes an incomplete holding while
its old row stays active with the last values (`PortfolioService.java` 532), and the
holding stays when the prices return. Nothing orders the snapshots of the two
endpoints: an import that fetched earlier may commit after a sync that fetched
later. `ACTIVE_SYNCS` is per process, as `azure-production-readiness.md` 107 says.

*Broker service* (read, not modelled). `initiateConnection` does not stop the runtime
when a step after its allocation fails; a failing read-back in
`Fabric8KubernetesRuntimeResourceClient` (74-76) comes before the namespace is
remembered (80), so the compensation finds nothing to delete; the circuit breaker
of a broker, once open, gets no call through that could close it.

## What is left out

- *Columns that only inform*: resume_count, error codes, parameters, the content
  of selections and suggestions, correlation ids. Job events are only placed in
  time (`Log`), as no decision reads them.
- *Runner*: in `CycleWorker` the work of a runner is one step (`Work`) with the ways
  it can end; `DeepStage` has the inside of an equity cycle's second stage. Stage 1
  ranking and the baseline phase with its own progress rows are not modelled.
- *Database*: a statement is atomic and its outcome known. A commit whose answer
  is lost is not modelled; a failing call changed nothing. Exact equality of
  clock and expiry falls on the expired side.
- *Second manual loop*: a second manual submission creates a second `_work` task,
  which `run_lock` serialises with the first; the model keeps one loop.
- *Shutdown in a database call*: the call ends and the cancellation follows. At
  `project` the model may skip the write, which the tables cannot tell from a
  failing call.
- *Unused code*: `fail_unowned_cycle_run` has no caller in the application and is
  in the store only; the `allow_active` parameter has none at all; the third
  branch of the CancelledError clause (WORKER_STOPPED) needs a cancellation from
  outside `close()`.
- *Deep stage*: a payload is readable by the next worker; a failing database call
  in a start or an outcome acts like a crash or a refusal; profile dispositions
  that end a candidate are in `Final`; the depth of the look-ahead is a parameter
  (four times the concurrency in the code); telemetry.
- *Gate*: which calls are writes is data; the branch for SQLite, which runs on the
  caller's thread; `_settle_targeted_refresh_write`.
- *Readiness*: one instrument; planning, providers and what a call returns.
- *Suggestions*: controlled and incomplete scans; the fallback that searches the
  history of other episodes cannot be reached from the application.
- *Roles*: the role claim in tokens, passwords, e-mails. No code path deactivates
  an account, so the model has none.
- *IBKR connector*: refusals of `require_owner`, the login proxy and its cookies, the
  second request of `_gateway_get`, a `Popen` that raises. In `MustProbe`, a
  deployment without `gateway_api_base_url` (164-169), where no probe is made, and
  answers of the gateway that raise something else than `ConnectorError`.
- *Portfolio*: the mock broker, whose positions are tagged `DEMO` and whose imports
  with positions therefore take no row either; one account and one replica; cash
  balances, the row of the broker account (written only when its metadata change),
  valuation history, adoption of legacy portfolios, file imports. Incomplete holdings
  may be read before the row is locked; they are overwritten whole. The UPDATEs of an
  import without the row come with its commit: that they may come earlier, and wait
  for other writers of the same rows, only rules some of its orders out.

Not modelled at all: the broker service (a request is one database transaction with
calls to Kubernetes and to the connector in it; it is next in the plan); ETF scoring,
research evidence, the stock rule engine and portfolio analysis (functions of
numeric data); market data jobs and the MCP servers (provider I/O; their writes go
through the gate); the background task registry (a set with one caller that checks
and adds without an await in between); the user interface, the API gateway,
infrastructure and stub services, which keep no state of their own.
