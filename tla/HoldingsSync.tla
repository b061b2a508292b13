---------------------------- MODULE HoldingsSync ----------------------------
(* Broker holdings in the portfolio service: syncBrokerConnection and        *)
(* importBrokerConnection of PortfolioService for one broker account and the *)
(* portfolio attached to it.  A request takes a key of ACTIVE_SYNCS, fetches *)
(* a snapshot from the broker service and writes it in one transaction.  The *)
(* two endpoints use different keys, and the key is given back in finally,   *)
(* before the transaction around the method commits.  What keeps two         *)
(* transactions apart is the portfolio's row: it is dirty when the positions *)
(* are queried, so Hibernate writes it first, and the UPDATE (or the INSERT, *)
(* under the unique index) holds it until the end (portfolioLock).  Only an  *)
(* import of an account without positions, whose cash is not tagged          *)
(* REAL_BROKER (HDFC, ICICI), leaves the portfolio as it is and takes no row *)
(* (dirty is FALSE).  The UPDATEs it makes later wait for whoever writes the *)
(* same rows and then overwrite them; here they come with its commit, and    *)
(* the waits, which only take behaviours away, are left out.                 *)
(* position and holding are the committed rows: whether the row is active    *)
(* and which sync wrote it; a row that was never written is not active.      *)
CONSTANTS Instruments,
          Syncs,       \* requests; the sync generation of each is its own, and
                       \* one that has failed is made again
          NoSync

ASSUME SyncAssumption == NoSync \notin Syncs

VARIABLES position, holding, portfolioExists, portfolioLock, activeSyncs,
          sync, report,
          older,       \* history: the requests that were past fetching when
                       \* a request got its snapshot
          lastSync     \* the last to commit of those that took the row;
                       \* history, like base

rowVars == <<position, holding, portfolioExists, lastSync>>
holdingVars == <<rowVars, portfolioLock, activeSyncs, sync, report, older>>

Endpoints == {"sync", "import"}

(* A reported position has both prices, or is kept as an incomplete holding. *)
Reports == [Instruments -> {"absent", "complete", "incomplete"}]

Rows == [active : BOOLEAN, generation : Syncs \cup {NoSync}]

(* fresh: the portfolio was not found and is inserted.  gone, goneHoldings:  *)
(* the rows the transaction marks stale; base: lastSync when it read them.   *)
NewSync == [stage |-> "new", via |-> "none", fresh |-> FALSE, dirty |-> FALSE,
            base |-> NoSync, gone |-> {}, goneHoldings |-> {}]
NoReport == [i \in Instruments |-> "absent"]

HoldingsInit ==
  /\ position = [i \in Instruments |-> [active |-> FALSE, generation |-> NoSync]]
  /\ holding = position
  /\ portfolioExists \in BOOLEAN
  /\ portfolioLock = NoSync
  /\ activeSyncs = {}
  /\ sync = [s \in Syncs |-> NewSync]
  /\ report = [s \in Syncs |-> NoReport]
  /\ older = [s \in Syncs |-> {}]
  /\ lastSync = NoSync

(* ACTIVE_SYNCS.add, or the request is refused; an import then looks for the *)
(* portfolio it was called for.                                              *)
BeginSync(s, endpoint) ==
  /\ sync[s].stage = "new"
  /\ endpoint \notin activeSyncs
  /\ endpoint = "import" => portfolioExists
  /\ activeSyncs' = activeSyncs \cup {endpoint}
  /\ sync' = [sync EXCEPT ![s].stage = "asking", ![s].via = endpoint]
  /\ UNCHANGED <<rowVars, portfolioLock, report, older>>

(* The broker service answers: connected, and a complete snapshot.  Every    *)
(* sync writes its attempt into the portfolio, an import only if             *)
(* isRealBrokerSnapshot: a position, or cash that is tagged REAL_BROKER.     *)
FetchSnapshot(s, r, tagged) ==
  /\ sync[s].stage = "asking"
  /\ sync' = [sync EXCEPT
       ![s].stage = IF sync[s].via = "sync" THEN "fetched" ELSE "resolved",
       ![s].dirty = sync[s].via = "sync" \/ tagged \/ \E i \in Instruments : r[i] # "absent"]
  /\ report' = [report EXCEPT ![s] = r]
  /\ older' = [older EXCEPT ![s] = {t \in Syncs : sync[t].stage \notin {"new", "asking"}}]
  /\ UNCHANGED <<rowVars, portfolioLock, activeSyncs>>

(* resolveBrokerPortfolio: the account's portfolio, or a new one.            *)
ResolvePortfolio(s) ==
  /\ sync[s].stage = "fetched"
  /\ sync' = [sync EXCEPT ![s].stage = "resolved", ![s].fresh = ~portfolioExists]
  /\ UNCHANGED <<rowVars, portfolioLock, activeSyncs, report, older>>

Absent(s) == {i \in Instruments : report[s][i] = "absent"}

(* The faulty form of RowFree: the portfolio's row is not waited for.        *)
RowUnlocked(s) == sync[s].fresh => ~portfolioExists

(* The row is free; an INSERT that comes second fails on the unique index.   *)
RowFree(s) ==
  sync[s].dirty => portfolioLock = NoSync /\ (sync[s].fresh => ~portfolioExists)

(* The snapshot is written: upserts of what it reports (see CommitSync), and *)
(* of the active rows those that it does not report are marked stale, first  *)
(* the positions,                                                            *)
ApplySnapshot(s) ==
  /\ sync[s].stage = "resolved"
  /\ RowFree(s)
  /\ portfolioLock' = IF sync[s].dirty THEN s ELSE portfolioLock
  /\ sync' = [sync EXCEPT ![s].stage = "marking", ![s].base = lastSync,
                          ![s].gone = {i \in Absent(s) : position[i].active}]
  /\ UNCHANGED <<rowVars, activeSyncs, report, older>>

(* and with a second query the incomplete holdings.                          *)
MarkHoldings(s) ==
  /\ sync[s].stage = "marking"
  /\ sync' = [sync EXCEPT ![s].stage = "written",
                          ![s].goneHoldings = {i \in Absent(s) : holding[i].active}]
  /\ UNCHANGED <<rowVars, portfolioLock, activeSyncs, report, older>>

(* finally: the key is given back; the transaction has still to commit.      *)
ReturnSync(s) ==
  /\ sync[s].stage = "written"
  /\ activeSyncs' = activeSyncs \ {sync[s].via}
  /\ sync' = [sync EXCEPT ![s].stage = "committing"]
  /\ UNCHANGED <<rowVars, portfolioLock, report, older>>

Written(rows, s, what, stale) ==
  [i \in Instruments |->
     IF report[s][i] = what THEN [active |-> TRUE, generation |-> s]
     ELSE IF i \in stale THEN [active |-> FALSE, generation |-> s]
     ELSE rows[i]]

ReleaseRow(s) ==
  portfolioLock' = IF portfolioLock = s THEN NoSync ELSE portfolioLock

CommitSync(s) ==
  /\ sync[s].stage = "committing"
  /\ sync' = [sync EXCEPT ![s].stage = "committed", ![s].gone = {}, ![s].goneHoldings = {}]
  /\ position' = Written(position, s, "complete", sync[s].gone)
  /\ holding' = Written(holding, s, "incomplete", sync[s].goneHoldings)
  /\ portfolioExists' = TRUE
  /\ lastSync' = IF sync[s].dirty THEN s ELSE lastSync
  /\ ReleaseRow(s)
  /\ UNCHANGED <<activeSyncs, report, older>>

(* Any call or statement may fail: not connected, no or a malformed answer,  *)
(* a conflict or deadlock in the database.  finally runs, nothing commits.   *)
FailSync(s) ==
  /\ sync[s].stage \in {"asking", "fetched", "resolved", "marking", "written"}
  /\ activeSyncs' = activeSyncs \ {sync[s].via}
  /\ sync' = [sync EXCEPT ![s].stage = "failing"]
  /\ UNCHANGED <<rowVars, portfolioLock, report, older>>

(* Nothing is left of requests that are rolled back.                         *)
Undo(over) ==
  /\ sync' = [s \in Syncs |-> IF s \in over THEN NewSync ELSE sync[s]]
  /\ report' = [s \in Syncs |-> IF s \in over THEN NoReport ELSE report[s]]
  /\ older' = [s \in Syncs |-> IF s \in over THEN {} ELSE older[s] \ over]
  /\ UNCHANGED rowVars

(* The rollback after a failure, or of a commit that fails.                  *)
RollbackSync(s) ==
  /\ sync[s].stage \in {"failing", "committing"}
  /\ Undo({s})
  /\ ReleaseRow(s)
  /\ UNCHANGED activeSyncs

Running == {s \in Syncs : sync[s].stage \notin {"new", "committed"}}

(* The service is restarted: the keys are gone, the database rolls back.     *)
RestartPortfolio ==
  /\ Running # {}
  /\ Undo(Running)
  /\ activeSyncs' = {}
  /\ portfolioLock' = NoSync

HoldingsNext ==
  \/ \E s \in Syncs :
       \/ \E endpoint \in Endpoints : BeginSync(s, endpoint)
       \/ \E r \in Reports, tagged \in BOOLEAN : FetchSnapshot(s, r, tagged)
       \/ ResolvePortfolio(s) \/ ApplySnapshot(s) \/ MarkHoldings(s) \/ ReturnSync(s)
       \/ CommitSync(s) \/ FailSync(s) \/ RollbackSync(s)
  \/ RestartPortfolio

HoldingsSpec == HoldingsInit /\ [][HoldingsNext]_holdingVars

-----------------------------------------------------------------------------
(* The variables have their types.                                           *)
HoldingsTypeOK ==
  /\ position \in [Instruments -> Rows] /\ holding \in [Instruments -> Rows]
  /\ portfolioExists \in BOOLEAN
  /\ portfolioLock \in Syncs \cup {NoSync} /\ lastSync \in Syncs \cup {NoSync}
  /\ activeSyncs \subseteq Endpoints
  /\ sync \in [Syncs -> [stage : {"new", "asking", "fetched", "resolved", "marking",
                                  "written", "committing", "committed", "failing"},
                         via : Endpoints \cup {"none"}, fresh : BOOLEAN,
                         dirty : BOOLEAN, base : Syncs \cup {NoSync},
                         gone : SUBSET Instruments, goneHoldings : SUBSET Instruments]]
  /\ report \in [Syncs -> Reports]
  /\ older \in [Syncs -> SUBSET Syncs]

Committed(s) == sync[s].stage = "committed"
NothingActive == \A i \in Instruments : ~position[i].active /\ ~holding[i].active

(* Inactive again since, by an import that took no row.                      *)
ClearedLater(row) ==
  ~row.active /\ \E e \in Syncs : Committed(e) /\ ~sync[e].dirty /\ row.generation = e

(* However requests of the two endpoints overlap, the rows are those of the  *)
(* last snapshot that took the portfolio's row: what it reports is active    *)
(* and was written by that sync, unless an import that took none has marked  *)
(* it stale, and nothing that it does not report is active.  The other row   *)
(* of an instrument that lost or gained its prices is excepted, as           *)
(* upsertBrokerPosition leaves it active.  Such an import clears everything, *)
(* if it read the positions as that sync left them; one that read them       *)
(* before and commits after it may leave a part of them, and nothing in the  *)
(* code prevents that.  Among the snapshots of one endpoint that took the    *)
(* row it is the newest, although the key is given back before the commit.   *)
HoldingsFollowSnapshot ==
  /\ \A i \in Instruments :
       CASE lastSync = NoSync -> ~position[i].active /\ ~holding[i].active
         [] lastSync # NoSync /\ report[lastSync][i] = "complete" ->
              position[i] = [active |-> TRUE, generation |-> lastSync] \/ ClearedLater(position[i])
         [] lastSync # NoSync /\ report[lastSync][i] = "incomplete" ->
              holding[i] = [active |-> TRUE, generation |-> lastSync] \/ ClearedLater(holding[i])
         [] OTHER -> ~position[i].active /\ ~holding[i].active
  /\ \A e \in Syncs : Committed(e) /\ ~sync[e].dirty /\ sync[e].base = lastSync => NothingActive
  /\ \A s \in Syncs :
       Committed(s) /\ sync[s].dirty /\ lastSync \in older[s] => sync[s].via # sync[lastSync].via

=============================================================================
