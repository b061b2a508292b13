------------------------- MODULE HoldingsSyncProofs -------------------------
(* For any number of requests and instruments: the rows the portfolio        *)
(* service keeps are those of one snapshot that took the portfolio's row, of *)
(* each endpoint's the newest, but for what imports that take no row have    *)
(* marked stale since.                                                       *)
(*                                                                           *)
(* The argument.  A request with a key of ACTIVE_SYNCS is alone behind it,   *)
(* so that a request which gets its snapshot has nothing before it by the    *)
(* same endpoint but transactions that only have to end (OlderFirst).  If    *)
(* such a transaction takes the portfolio's row, it holds it (RowHeld): a    *)
(* later one that takes it writes after it has ended.  An import that takes  *)
(* no row reports nothing (EmptyImport): it can only make rows inactive, so  *)
(* that whatever was still active when a transaction with the row read the   *)
(* rows to mark stale is all that is active when it commits (StaleKnown);    *)
(* the same is true of what such an import read, as long as lastSync is what *)
(* it was.                                                                   *)
EXTENDS HoldingsSync, TLAPS

AtKey == {"asking", "fetched", "resolved", "marking", "written"}
AtRow == {"marking", "written", "committing"}
Unasked == {"new", "asking"}
Past == {"committed", "failing"}

Stage == {"new", "asking", "fetched", "resolved", "marking", "written", "committing",
          "committed", "failing"}

(* A transaction that has written the portfolio's row holds it.              *)
RowHeld == \A s \in Syncs : sync[s].stage \in AtRow /\ sync[s].dirty => portfolioLock = s

(* A request has its key until finally, and no other request has it.         *)
KeyHeld ==
  /\ \A s \in Syncs : sync[s].stage \in AtKey => sync[s].via \in activeSyncs
  /\ \A s, t \in Syncs :
       sync[s].stage \in AtKey /\ sync[t].stage \in AtKey /\ sync[s].via = sync[t].via
         => s = t

LastCommitted ==
  /\ lastSync # NoSync => sync[lastSync].stage = "committed" /\ sync[lastSync].dirty
  /\ \A s \in Syncs : sync[s].base # NoSync => sync[sync[s].base].stage = "committed"

(* A snapshot that leaves the portfolio as it is reports nothing.            *)
EmptyImport ==
  \A s \in Syncs :
    sync[s].stage \in {"fetched", "resolved"} \cup AtRow /\ ~sync[s].dirty
      => \A i \in Instruments : report[s][i] = "absent"

(* The rows a transaction marks stale are all that are still active.         *)
StaleKnownTo(s) ==
  sync[s].dirty \/ sync[s].base = lastSync =>
    /\ \A i \in Absent(s) : position[i].active => i \in sync[s].gone
    /\ sync[s].stage # "marking" =>
         \A i \in Absent(s) : holding[i].active => i \in sync[s].goneHoldings

StaleKnown == \A s \in Syncs : sync[s].stage \in AtRow => StaleKnownTo(s)

(* Whatever came before a request by its endpoint has only to end, and, if   *)
(* both take the row, has ended when the request writes.                     *)
Precedes(t, s) ==
  /\ sync[s].stage \notin Unasked /\ sync[t].stage \notin Unasked
  /\ sync[t].via = sync[s].via =>
       /\ sync[t].stage \in Past \cup {"committing"}
       /\ sync[s].stage \in AtRow \cup {"committed"} /\ sync[s].dirty /\ sync[t].dirty
            => sync[t].stage \in Past

OlderFirst == \A s \in Syncs : \A t \in older[s] : Precedes(t, s)

(* What the last commit with the row left in the rows of one instrument.     *)
RowFollows(i) ==
  IF lastSync = NoSync \/ report[lastSync][i] = "absent"
    THEN ~position[i].active /\ ~holding[i].active
    ELSE /\ report[lastSync][i] = "complete" =>
              \/ position[i] = [active |-> TRUE, generation |-> lastSync]
              \/ ClearedLater(position[i])
         /\ report[lastSync][i] = "incomplete" =>
              \/ holding[i] = [active |-> TRUE, generation |-> lastSync]
              \/ ClearedLater(holding[i])

EmptyImportClears ==
  \A e \in Syncs : Committed(e) /\ ~sync[e].dirty /\ sync[e].base = lastSync => NothingActive

NewestOfItsEndpoint ==
  \A s \in Syncs :
    Committed(s) /\ sync[s].dirty /\ lastSync \in older[s] => sync[s].via # sync[lastSync].via

HoldingsInv ==
  /\ HoldingsTypeOK /\ RowHeld /\ KeyHeld /\ LastCommitted
  /\ EmptyImport /\ StaleKnown /\ OlderFirst
  /\ \A i \in Instruments : RowFollows(i)
  /\ EmptyImportClears /\ NewestOfItsEndpoint

SyncRecord == [stage : Stage, via : Endpoints \cup {"none"}, fresh : BOOLEAN,
               dirty : BOOLEAN, base : Syncs \cup {NoSync},
               gone : SUBSET Instruments, goneHoldings : SUBSET Instruments]

-----------------------------------------------------------------------------
(* The types of the variables that the steps below keep reading.             *)
LEMMA HoldingsTypes ==
  ASSUME HoldingsTypeOK
  PROVE  /\ sync \in [Syncs -> SyncRecord]
         /\ report \in [Syncs -> [Instruments -> {"absent", "complete", "incomplete"}]]
         /\ position \in [Instruments -> Rows] /\ holding \in [Instruments -> Rows]
         /\ older \in [Syncs -> SUBSET Syncs]
<1>1. SyncRecord = [stage : {"new", "asking", "fetched", "resolved", "marking",
                             "written", "committing", "committed", "failing"},
                    via : Endpoints \cup {"none"}, fresh : BOOLEAN,
                    dirty : BOOLEAN, base : Syncs \cup {NoSync},
                    gone : SUBSET Instruments, goneHoldings : SUBSET Instruments]
  BY DEF SyncRecord, Stage, AtKey
<1> QED
  BY <1>1 DEF HoldingsTypeOK, Reports

(* A request that moves on is still one.                                     *)
LEMMA SyncMoves ==
  ASSUME NEW f \in [Syncs -> SyncRecord], NEW s \in Syncs, NEW st \in Stage
  PROVE  /\ [f EXCEPT ![s].stage = st] \in [Syncs -> SyncRecord]
         /\ \A endpoint \in Endpoints :
              [f EXCEPT ![s].stage = st, ![s].via = endpoint] \in [Syncs -> SyncRecord]
         /\ \A b \in BOOLEAN :
              [f EXCEPT ![s].stage = st, ![s].fresh = b] \in [Syncs -> SyncRecord]
<1>1. f[s] \in SyncRecord
  OBVIOUS
<1>2. [f EXCEPT ![s].stage = st] \in [Syncs -> SyncRecord]
  BY <1>1 DEF SyncRecord
<1>3. ASSUME NEW endpoint \in Endpoints
      PROVE  [f EXCEPT ![s].stage = st, ![s].via = endpoint] \in [Syncs -> SyncRecord]
  BY <1>1 DEF SyncRecord
<1>4. ASSUME NEW b \in BOOLEAN
      PROVE  [f EXCEPT ![s].stage = st, ![s].fresh = b] \in [Syncs -> SyncRecord]
  BY <1>1 DEF SyncRecord
<1> QED
  BY <1>2, <1>3, <1>4, Zenon

(* The rows of every instrument follow the last commit: what a run checks.   *)
LEMMA RowsAsChecked ==
  ASSUME HoldingsTypeOK, \A i \in Instruments : RowFollows(i), EmptyImportClears,
         NewestOfItsEndpoint
  PROVE  HoldingsFollowSnapshot
<1>1. \A i \in Instruments :
        lastSync # NoSync => report[lastSync][i] \in {"absent", "complete", "incomplete"}
  BY HoldingsTypes DEF HoldingsTypeOK
<1>2. ASSUME NEW i \in Instruments
      PROVE  CASE lastSync = NoSync -> ~position[i].active /\ ~holding[i].active
               [] lastSync # NoSync /\ report[lastSync][i] = "complete" ->
                    \/ position[i] = [active |-> TRUE, generation |-> lastSync]
                    \/ ClearedLater(position[i])
               [] lastSync # NoSync /\ report[lastSync][i] = "incomplete" ->
                    \/ holding[i] = [active |-> TRUE, generation |-> lastSync]
                    \/ ClearedLater(holding[i])
               [] OTHER -> ~position[i].active /\ ~holding[i].active
  <2>1. RowFollows(i)
    OBVIOUS
  <2>2. CASE lastSync = NoSync
    BY <2>1, <2>2 DEF RowFollows
  <2>3. CASE lastSync # NoSync /\ report[lastSync][i] = "complete"
    BY <2>1, <2>3 DEF RowFollows
  <2>4. CASE lastSync # NoSync /\ report[lastSync][i] = "incomplete"
    BY <2>1, <2>4 DEF RowFollows
  <2>5. CASE lastSync # NoSync /\ report[lastSync][i] = "absent"
    BY <2>1, <2>5 DEF RowFollows
  <2> QED
    BY <1>1, <2>2, <2>3, <2>4, <2>5
<1> QED
  BY <1>2 DEF HoldingsFollowSnapshot, EmptyImportClears, NewestOfItsEndpoint

(* Before any request the rows are inactive and nothing is held.             *)
THEOREM HoldingsInitInv == HoldingsInit => HoldingsInv
<1> SUFFICES ASSUME HoldingsInit PROVE HoldingsInv
  OBVIOUS
<1> USE SyncAssumption
<1>1. \A s \in Syncs : sync[s].stage = "new" /\ older[s] = {} /\ sync[s].base = NoSync
  BY DEF HoldingsInit, NewSync
<1>2. HoldingsTypeOK
  <2>1. NoReport \in Reports
    BY DEF NoReport, Reports
  <2>2. NewSync \in [stage : {"new", "asking", "fetched", "resolved", "marking",
                              "written", "committing", "committed", "failing"},
                     via : Endpoints \cup {"none"}, fresh : BOOLEAN,
                     dirty : BOOLEAN, base : Syncs \cup {NoSync},
                     gone : SUBSET Instruments, goneHoldings : SUBSET Instruments]
    BY DEF NewSync
  <2> QED
    BY <2>1, <2>2 DEF HoldingsInit, HoldingsTypeOK, Rows
<1>3. /\ RowHeld /\ KeyHeld /\ EmptyImport /\ StaleKnown /\ OlderFirst
      /\ EmptyImportClears /\ NewestOfItsEndpoint
  BY <1>1 DEF RowHeld, KeyHeld, EmptyImport, StaleKnown, OlderFirst, EmptyImportClears,
              NewestOfItsEndpoint, Committed, AtRow, AtKey
<1>4. LastCommitted /\ \A i \in Instruments : RowFollows(i)
  BY <1>1 DEF HoldingsInit, LastCommitted, RowFollows
<1> QED
  BY <1>2, <1>3, <1>4 DEF HoldingsInv

(* A step of a request that neither begins nor commits nor undoes it.        *)
MovesOn(s) ==
  /\ sync[s].stage \in AtKey
  /\ sync'[s].stage \in {"fetched", "resolved", "marking", "written", "committing", "failing"}
  /\ sync' \in [Syncs -> SyncRecord] /\ sync'[s].via = sync[s].via
  /\ sync'[s].base \in {sync[s].base, lastSync}
  /\ \A t \in Syncs : t # s => sync'[t] = sync[t]
  /\ UNCHANGED rowVars
  /\ activeSyncs' = IF sync'[s].stage \in AtKey THEN activeSyncs
                                                ELSE activeSyncs \ {sync[s].via}
  /\ IF sync[s].stage = "asking" /\ sync'[s].stage # "failing"
       THEN /\ sync'[s].stage \notin AtRow
            /\ report' \in [Syncs -> Reports] /\ older' \in [Syncs -> SUBSET Syncs]
            /\ sync'[s].dirty \/ \A i \in Instruments : report'[s][i] = "absent"
            /\ older'[s] = {t \in Syncs : sync[t].stage \notin Unasked}
            /\ \A t \in Syncs : t # s => report'[t] = report[t] /\ older'[t] = older[t]
       ELSE report' = report /\ older' = older /\ sync'[s].dirty = sync[s].dirty
  /\ IF sync'[s].stage \in AtRow /\ sync'[s].dirty
       THEN /\ portfolioLock' = s
            /\ IF sync'[s].stage = "marking" THEN portfolioLock = NoSync
                                             ELSE sync[s].stage \in AtRow
       ELSE portfolioLock' = portfolioLock
  /\ sync'[s].stage \in AtRow => StaleKnownTo(s)' /\ sync[s].stage # "asking"

(* It keeps the invariant.                                                   *)
LEMMA HoldingsMove ==
  ASSUME HoldingsInv, NEW s \in Syncs, MovesOn(s)
  PROVE  HoldingsInv'
<1> USE SyncAssumption
<1>0. HoldingsTypeOK
  BY DEF HoldingsInv
<1>t. /\ sync \in [Syncs -> SyncRecord] /\ older \in [Syncs -> SUBSET Syncs]
      /\ report \in [Syncs -> [Instruments -> {"absent", "complete", "incomplete"}]]
  BY <1>0, HoldingsTypes
<1>m. /\ sync[s].stage \in AtKey
      /\ sync'[s].stage \in {"fetched", "resolved", "marking", "written", "committing", "failing"}
      /\ sync' \in [Syncs -> SyncRecord] /\ sync'[s].via = sync[s].via
      /\ sync'[s].base \in {sync[s].base, lastSync}
      /\ \A t \in Syncs : t # s => sync'[t] = sync[t]
      /\ UNCHANGED rowVars
      /\ \A t \in Syncs : t # s => report'[t] = report[t] /\ older'[t] = older[t]
  BY DEF MovesOn
<1>l. lastSync # NoSync => lastSync \in Syncs /\ lastSync # s
  BY <1>0, <1>m DEF HoldingsInv, HoldingsTypeOK, LastCommitted, AtKey
<1>1. HoldingsTypeOK'
  <2>1. SyncRecord = [stage : {"new", "asking", "fetched", "resolved", "marking",
                               "written", "committing", "committed", "failing"},
                      via : Endpoints \cup {"none"}, fresh : BOOLEAN,
                      dirty : BOOLEAN, base : Syncs \cup {NoSync},
                      gone : SUBSET Instruments, goneHoldings : SUBSET Instruments]
    BY DEF SyncRecord, Stage, AtKey
  <2> QED
    BY <1>0, <2>1 DEF HoldingsTypeOK, rowVars, MovesOn
<1>2. RowHeld'
  BY <1>m DEF HoldingsInv, RowHeld, MovesOn, AtRow
<1>3. KeyHeld'
  BY <1>m DEF HoldingsInv, KeyHeld, AtKey, MovesOn
<1>4. LastCommitted'
  <2>1. \A t \in Syncs : sync[t].stage = "committed" => t # s
    BY <1>m DEF AtKey
  <2>2. \A t \in Syncs : sync[t].base \in Syncs \cup {NoSync}
    BY <1>t DEF SyncRecord
  <2> QED
    BY <1>l, <1>m, <2>1, <2>2 DEF HoldingsInv, LastCommitted, rowVars
<1>5. EmptyImport' /\ StaleKnown'
  <2>1. EmptyImport'
    <3>1. ASSUME sync'[s].stage \in {"fetched", "resolved"} \cup AtRow, ~sync'[s].dirty
          PROVE  \A i \in Instruments : report'[s][i] = "absent"
      <4>1. CASE sync[s].stage = "asking"
        BY <3>1, <4>1 DEF MovesOn, AtRow
      <4>2. CASE sync[s].stage # "asking"
        BY <1>m, <3>1, <4>2 DEF HoldingsInv, EmptyImport, MovesOn, AtKey, AtRow
      <4> QED
        BY <4>1, <4>2
    <3> QED
      BY <1>m, <3>1 DEF HoldingsInv, EmptyImport
  <2>2. \A t \in Syncs \ {s} : StaleKnownTo(t) => StaleKnownTo(t)'
    BY <1>m DEF StaleKnownTo, Absent, rowVars
  <2> QED
    BY <1>m, <2>1, <2>2 DEF HoldingsInv, StaleKnown, MovesOn
<1>6. OlderFirst'
  <2> SUFFICES ASSUME NEW a \in Syncs, NEW b \in older'[a]
               PROVE  Precedes(b, a)'
    BY DEF OlderFirst
  <2>1. b \in Syncs
    BY <1>1 DEF HoldingsTypeOK
  <2>2. CASE a = s /\ sync[s].stage = "asking" /\ sync'[s].stage # "failing"
    <3>1. sync[b].stage \notin Unasked /\ b # s
      BY <2>2 DEF Unasked, MovesOn
    <3>2. sync[b].stage \in AtKey => sync[b].via # sync[s].via
      BY <2>1, <2>2, <3>1 DEF HoldingsInv, KeyHeld, AtKey
    <3>3. sync[b].stage \in Stage
      BY <1>t, <2>1 DEF SyncRecord
    <3> QED
      BY <1>m, <2>1, <2>2, <3>1, <3>2, <3>3 DEF MovesOn, Precedes, Unasked, AtKey, AtRow, Stage, Past
  <2>3. CASE ~ (a = s /\ sync[s].stage = "asking" /\ sync'[s].stage # "failing")
    <3>1. b \in older[a]
      BY <1>m, <2>3 DEF MovesOn
    <3>2. Precedes(b, a)
      BY <3>1 DEF HoldingsInv, OlderFirst
    <3>3. sync[b].stage = "committing" /\ sync[b].dirty => portfolioLock = b
      BY <2>1 DEF HoldingsInv, RowHeld, AtRow
    <3>4. /\ sync'[a].via = sync[a].via /\ sync'[b].via = sync[b].via
          /\ sync'[a].stage \notin Unasked /\ sync'[b].stage \notin Unasked
      BY <1>m, <2>1, <3>2 DEF Precedes, Unasked
    <3> SUFFICES ASSUME sync'[b].via = sync'[a].via
                 PROVE  /\ sync'[b].stage \in Past \cup {"committing"}
                        /\ sync'[a].stage \in AtRow \cup {"committed"} /\ sync'[a].dirty
                           /\ sync'[b].dirty => sync'[b].stage \in Past
      BY <3>4 DEF Precedes
    <3>5. b # s /\ sync[b].stage \in Past \cup {"committing"}
      BY <1>m, <3>2, <3>4 DEF Precedes, AtKey, Past
    <3>6. CASE a = s
      <4>1. sync'[s].dirty = sync[s].dirty \/ sync'[s].stage \notin AtRow \cup {"committed"}
        BY <1>m, <2>3, <3>6 DEF MovesOn
      <4>2. CASE sync[s].stage \in AtRow
        BY <1>m, <2>1, <3>2, <3>4, <3>5, <3>6, <4>1, <4>2 DEF Precedes
      <4>3. CASE sync[s].stage \notin AtRow
        <5>1. sync'[s].stage \in AtRow /\ sync'[s].dirty => portfolioLock = NoSync
          BY <4>3 DEF MovesOn
        <5> QED
          BY <1>m, <2>1, <3>3, <3>5, <3>6, <5>1
      <4> QED
        BY <4>2, <4>3
    <3>7. CASE a # s
      BY <1>m, <2>1, <3>2, <3>4, <3>5, <3>7 DEF Precedes
    <3> QED
      BY <3>6, <3>7
  <2> QED
    BY <2>2, <2>3
<1>7. \A e \in Syncs : Committed(e)' <=> Committed(e)
  BY <1>m DEF Committed, AtKey
<1>8. \A e \in Syncs : Committed(e) => sync'[e] = sync[e]
  BY <1>m DEF Committed, AtKey
<1>9. \A i \in Instruments : RowFollows(i)'
  <2>1. ASSUME NEW i \in Instruments
        PROVE  /\ ClearedLater(position[i]) => ClearedLater(position[i])'
               /\ ClearedLater(holding[i]) => ClearedLater(holding[i])'
    BY <1>m, <1>7, <1>8 DEF ClearedLater, rowVars
  <2> QED
    BY <1>l, <1>m, <2>1 DEF HoldingsInv, RowFollows, rowVars
<1>10. EmptyImportClears'
  BY <1>m, <1>7, <1>8 DEF HoldingsInv, EmptyImportClears, NothingActive, rowVars
<1>11. NewestOfItsEndpoint'
  <2>1. lastSync' = lastSync /\ \A t \in Syncs : older[t] \subseteq Syncs
    BY <1>m, <1>t DEF rowVars
  <2> QED
    BY <1>l, <1>m, <1>7, <1>8, <2>1 DEF HoldingsInv, NewestOfItsEndpoint, Committed
<1> QED
  BY <1>1, <1>2, <1>3, <1>4, <1>5, <1>6, <1>9, <1>10, <1>11 DEF HoldingsInv

(* Requests that are rolled back leave nothing behind.                       *)
LEMMA HoldingsUndo ==
  ASSUME HoldingsInv, NEW over \in SUBSET Running, Undo(over),
         activeSyncs' \subseteq activeSyncs,
         \A s \in Syncs \ over : sync[s].stage \in AtKey => sync[s].via \in activeSyncs',
         portfolioLock' \in {portfolioLock, NoSync},
         \A s \in Syncs \ over :
           sync[s].stage \in AtRow /\ sync[s].dirty => portfolioLock' = portfolioLock
  PROVE  HoldingsInv'
<1> USE SyncAssumption
<1>0. HoldingsTypeOK
  BY DEF HoldingsInv
<1>1. \A s \in Syncs :
        /\ s \in over => sync'[s].stage = "new" /\ older'[s] = {} /\ sync'[s].base = NoSync
        /\ s \notin over => /\ sync'[s] = sync[s] /\ report'[s] = report[s]
                            /\ older'[s] = older[s] \ over
  BY DEF Undo, NewSync
<1>2. lastSync \in Syncs \cup {NoSync} /\ lastSync \notin over
  BY <1>0 DEF HoldingsInv, HoldingsTypeOK, LastCommitted, Running
<1>3. UNCHANGED rowVars
  BY DEF Undo
<1>4. HoldingsTypeOK'
  <2>1. NoReport \in Reports
    BY DEF NoReport, Reports
  <2>2. NewSync \in [stage : {"new", "asking", "fetched", "resolved", "marking",
                              "written", "committing", "committed", "failing"},
                     via : Endpoints \cup {"none"}, fresh : BOOLEAN,
                     dirty : BOOLEAN, base : Syncs \cup {NoSync},
                     gone : SUBSET Instruments, goneHoldings : SUBSET Instruments]
    BY DEF NewSync
  <2>3. /\ sync' \in [Syncs -> [stage : {"new", "asking", "fetched", "resolved", "marking",
                                        "written", "committing", "committed", "failing"},
                               via : Endpoints \cup {"none"}, fresh : BOOLEAN,
                               dirty : BOOLEAN, base : Syncs \cup {NoSync},
                               gone : SUBSET Instruments, goneHoldings : SUBSET Instruments]]
        /\ report' \in [Syncs -> Reports]
        /\ older' \in [Syncs -> SUBSET Syncs]
    BY <1>0, <2>1, <2>2 DEF HoldingsTypeOK, Undo
  <2>4. activeSyncs' \subseteq Endpoints
    BY <1>0 DEF HoldingsTypeOK
  <2> QED
    BY <1>0, <1>3, <2>3, <2>4 DEF HoldingsTypeOK, rowVars
<1>5. RowHeld'
  BY <1>1 DEF HoldingsInv, RowHeld, AtRow
<1>6. KeyHeld'
  BY <1>1 DEF HoldingsInv, KeyHeld, AtKey
<1>c. \A e \in Syncs : /\ Committed(e)' <=> Committed(e)
                       /\ Committed(e) => sync'[e] = sync[e]
  BY <1>1 DEF Committed, Running
<1>7. LastCommitted'
  <2>1. \A t \in Syncs : sync[t].base \in Syncs \cup {NoSync}
    BY <1>0, HoldingsTypes DEF SyncRecord
  <2> QED
    BY <1>1, <1>2, <1>3, <1>c, <2>1 DEF HoldingsInv, LastCommitted, Committed, rowVars
<1>8. EmptyImport' /\ StaleKnown'
  BY <1>1, <1>3
  DEF HoldingsInv, EmptyImport, StaleKnown, StaleKnownTo, rowVars, Absent, AtRow
<1>9. OlderFirst'
  <2> SUFFICES ASSUME NEW a \in Syncs, NEW b \in older'[a]
               PROVE  Precedes(b, a)'
    BY DEF OlderFirst
  <2>1. a \notin over /\ b \in older[a] \ over /\ b \in Syncs
    BY <1>0, <1>1 DEF HoldingsTypeOK
  <2> QED
    BY <1>1, <2>1 DEF HoldingsInv, OlderFirst, Precedes
<1>10. \A i \in Instruments : RowFollows(i)'
  <2>1. ASSUME NEW i \in Instruments
        PROVE  /\ ClearedLater(position[i]) => ClearedLater(position[i])'
               /\ ClearedLater(holding[i]) => ClearedLater(holding[i])'
    BY <1>3, <1>c DEF ClearedLater, rowVars
  <2> QED
    BY <1>1, <1>2, <1>3, <2>1 DEF HoldingsInv, RowFollows, rowVars
<1>11. EmptyImportClears'
  BY <1>3, <1>c DEF HoldingsInv, EmptyImportClears, NothingActive, rowVars
<1>12. NewestOfItsEndpoint'
  <2>1. \A s \in Syncs : older'[s] \subseteq older[s] /\ older[s] \subseteq Syncs
    BY <1>0, <1>1 DEF HoldingsTypeOK
  <2> QED
    BY <1>1, <1>2, <1>3, <1>c, <2>1 DEF HoldingsInv, NewestOfItsEndpoint, rowVars
<1> QED
  BY <1>4, <1>5, <1>6, <1>7, <1>8, <1>9, <1>10, <1>11, <1>12 DEF HoldingsInv

(* A commit.  One that took the row writes the rows of its own snapshot, and *)
(* is the newest of its endpoint, as whatever came later cannot have         *)
(* committed before it.  One that took none makes rows inactive.             *)
LEMMA HoldingsCommit ==
  ASSUME HoldingsInv, NEW s \in Syncs, CommitSync(s)
  PROVE  HoldingsInv'
<1> USE SyncAssumption
<1>0. HoldingsTypeOK
  BY DEF HoldingsInv
<1>t. /\ sync \in [Syncs -> SyncRecord] /\ older \in [Syncs -> SUBSET Syncs]
      /\ report \in [Syncs -> [Instruments -> {"absent", "complete", "incomplete"}]]
      /\ position \in [Instruments -> Rows] /\ holding \in [Instruments -> Rows]
  BY <1>0, HoldingsTypes
<1>1. /\ sync[s].stage = "committing" /\ sync'[s].stage = "committed"
      /\ sync'[s].via = sync[s].via /\ sync'[s].dirty = sync[s].dirty
      /\ sync'[s].base = sync[s].base
      /\ \A t \in Syncs : t # s => sync'[t] = sync[t]
      /\ UNCHANGED <<activeSyncs, report, older>>
      /\ lastSync' = IF sync[s].dirty THEN s ELSE lastSync
      /\ portfolioLock' = IF portfolioLock = s THEN NoSync ELSE portfolioLock
  BY <1>t DEF CommitSync, ReleaseRow, SyncRecord
<1>2. HoldingsTypeOK'
  <2>1. sync' \in [Syncs -> SyncRecord]
    <3>1. "committed" \in Stage /\ {} \in SUBSET Instruments
      BY DEF Stage
    <3>2. sync' = [sync EXCEPT ![s].stage = "committed", ![s].gone = {}, ![s].goneHoldings = {}]
      BY DEF CommitSync
    <3>t. sync \in [Syncs -> SyncRecord] /\ sync[s] \in SyncRecord
      BY <1>t
    <3> QED
      BY <3>t, <3>1, <3>2 DEF SyncRecord
  <2>2. SyncRecord = [stage : {"new", "asking", "fetched", "resolved", "marking",
                               "written", "committing", "committed", "failing"},
                      via : Endpoints \cup {"none"}, fresh : BOOLEAN,
                      dirty : BOOLEAN, base : Syncs \cup {NoSync},
                      gone : SUBSET Instruments, goneHoldings : SUBSET Instruments]
    BY DEF SyncRecord, Stage, AtKey
  <2>3. position' \in [Instruments -> Rows] /\ holding' \in [Instruments -> Rows]
    BY <1>0 DEF CommitSync, HoldingsTypeOK, Written, Rows
  <2> QED
    BY <1>0, <1>1, <2>1, <2>2, <2>3 DEF HoldingsTypeOK, CommitSync
<1>3. RowHeld' /\ KeyHeld' /\ EmptyImport'
  BY <1>1 DEF HoldingsInv, RowHeld, KeyHeld, EmptyImport, AtRow, AtKey
<1>4. LastCommitted'
  <2>1. lastSync \in Syncs \cup {NoSync}
    BY <1>0 DEF HoldingsTypeOK
  <2>2. \A t \in Syncs : sync[t].base \in Syncs \cup {NoSync}
    BY <1>t DEF SyncRecord
  <2> QED
    BY <1>1, <2>1, <2>2 DEF HoldingsInv, LastCommitted
<1>5. OlderFirst'
  <2> SUFFICES ASSUME NEW a \in Syncs, NEW b \in older[a]
               PROVE  Precedes(b, a)'
    BY <1>1 DEF OlderFirst
  <2>1. b \in Syncs /\ Precedes(b, a)
    BY <1>t DEF HoldingsInv, OlderFirst
  <2> QED
    BY <1>1, <2>1 DEF Precedes, Unasked, Past, AtRow
<1>6. NewestOfItsEndpoint'
  <2>1. lastSync \in Syncs => lastSync # s
    BY <1>1 DEF HoldingsInv, LastCommitted
  <2>2. CASE sync[s].dirty
    <3> SUFFICES ASSUME NEW a \in Syncs, sync'[a].stage = "committed", sync'[a].dirty,
                        s \in older[a], sync'[a].via = sync[s].via
                 PROVE  FALSE
      BY <1>1, <2>2 DEF NewestOfItsEndpoint, Committed
    <3>1. Precedes(s, a)
      BY DEF HoldingsInv, OlderFirst
    <3> QED
      BY <1>1, <2>2, <3>1 DEF Precedes, Past, AtRow
  <2>3. CASE ~sync[s].dirty
    BY <1>1, <1>t, <2>1, <2>3 DEF HoldingsInv, NewestOfItsEndpoint, Committed
  <2> QED
    BY <2>2, <2>3
<1>7. ASSUME NEW i \in Instruments
      PROVE  /\ position'[i] = IF report[s][i] = "complete"
                                 THEN [active |-> TRUE, generation |-> s]
                               ELSE IF i \in sync[s].gone
                                 THEN [active |-> FALSE, generation |-> s]
                               ELSE position[i]
             /\ holding'[i] = IF report[s][i] = "incomplete"
                                THEN [active |-> TRUE, generation |-> s]
                              ELSE IF i \in sync[s].goneHoldings
                                THEN [active |-> FALSE, generation |-> s]
                              ELSE holding[i]
  BY DEF CommitSync, Written
<1>8. StaleKnownTo(s)
  BY <1>1 DEF HoldingsInv, StaleKnown, AtRow
<1>9. CASE sync[s].dirty
  <2>1. portfolioLock = s /\ lastSync' = s
    BY <1>1, <1>9 DEF HoldingsInv, RowHeld, AtRow
  <2>2. \A t \in Syncs : sync[t].base # s
    BY <1>1 DEF HoldingsInv, LastCommitted
  <2>3. StaleKnown'
    <3> SUFFICES ASSUME NEW t \in Syncs, sync'[t].stage \in AtRow
                 PROVE  ~sync'[t].dirty /\ sync'[t].base # lastSync'
      BY DEF StaleKnown, StaleKnownTo
    <3> QED
      BY <1>1, <2>1, <2>2 DEF HoldingsInv, RowHeld, AtRow
  <2>4. ASSUME NEW i \in Instruments
        PROVE  RowFollows(i)'
    <3>1. CASE report[s][i] = "absent"
      <4>1. ~ position'[i].active /\ ~ holding'[i].active
        BY <1>1, <1>7, <1>8, <1>9, <3>1 DEF StaleKnownTo, Absent
      <4> QED
        BY <1>1, <2>1, <3>1, <4>1 DEF RowFollows
    <3>2. CASE report[s][i] # "absent"
      BY <1>1, <1>7, <2>1, <3>2 DEF RowFollows
    <3> QED
      BY <3>1, <3>2
  <2>5. EmptyImportClears'
    BY <1>1, <1>9, <2>1, <2>2 DEF EmptyImportClears
  <2> QED
    BY <1>2, <1>3, <1>4, <1>5, <1>6, <2>3, <2>4, <2>5 DEF HoldingsInv
<1>10. CASE ~sync[s].dirty
  <2>1. lastSync' = lastSync /\ lastSync # s
    BY <1>1, <1>10 DEF HoldingsInv, LastCommitted
  <2>2. \A i \in Instruments : report[s][i] = "absent"
    BY <1>1, <1>10 DEF HoldingsInv, EmptyImport, AtRow
  <2>3. \A i \in Instruments :
          /\ position'[i] = position[i] \/ position'[i] = [active |-> FALSE, generation |-> s]
          /\ holding'[i] = holding[i] \/ holding'[i] = [active |-> FALSE, generation |-> s]
    BY <1>7, <2>2
  <2>4. \A i \in Instruments : /\ position'[i].active => position[i].active
                               /\ holding'[i].active => holding[i].active
    BY <2>3
  <2>5. StaleKnown'
    <3> SUFFICES ASSUME NEW t \in Syncs, sync'[t].stage \in AtRow
                 PROVE  StaleKnownTo(t)'
      BY DEF StaleKnown
    <3>1. sync'[t] = sync[t] /\ StaleKnownTo(t)
      BY <1>1 DEF HoldingsInv, StaleKnown, AtRow
    <3>2. Absent(t)' = Absent(t)
      BY <1>1 DEF Absent
    <3>3. Absent(t) \subseteq Instruments
      BY DEF Absent
    <3> QED
      BY <2>1, <2>4, <3>1, <3>2, <3>3, Zenon DEF StaleKnownTo
  <2>6. \A row : /\ ClearedLater(row) => ClearedLater(row)'
                 /\ row = [active |-> FALSE, generation |-> s] => ClearedLater(row)'
    BY <1>1, <1>10 DEF ClearedLater, Committed
  <2>7. ASSUME NEW i \in Instruments
        PROVE  RowFollows(i)'
    <3>1. RowFollows(i) /\ report' = report
      BY <1>1 DEF HoldingsInv
    <3>2. CASE lastSync = NoSync \/ report[lastSync][i] = "absent"
      BY <2>1, <2>4, <3>1, <3>2, Zenon DEF RowFollows
    <3>3. CASE ~ (lastSync = NoSync \/ report[lastSync][i] = "absent")
      <4>1. ASSUME report[lastSync][i] = "complete"
            PROVE  \/ position'[i] = [active |-> TRUE, generation |-> lastSync]
                   \/ ClearedLater(position[i])'
        BY <2>3, <2>6, <3>1, <3>3, <4>1 DEF RowFollows
      <4>2. ASSUME report[lastSync][i] = "incomplete"
            PROVE  \/ holding'[i] = [active |-> TRUE, generation |-> lastSync]
                   \/ ClearedLater(holding[i])'
        BY <2>3, <2>6, <3>1, <3>3, <4>2 DEF RowFollows
      <4> QED
        BY <2>1, <3>1, <3>3, <4>1, <4>2 DEF RowFollows
    <3> QED
      BY <3>2, <3>3
  <2>8. EmptyImportClears'
    <3>1. ASSUME sync[s].base = lastSync, NEW i \in Instruments
          PROVE  ~position'[i].active /\ ~holding'[i].active
      BY <1>1, <1>7, <1>8, <2>2, <3>1 DEF StaleKnownTo, Absent
    <3>2. NothingActive => NothingActive'
      BY <2>4, Zenon DEF NothingActive
    <3>3. sync[s].base = lastSync => NothingActive'
      BY <3>1 DEF NothingActive
    <3> QED
      BY <1>1, <2>1, <3>2, <3>3 DEF HoldingsInv, EmptyImportClears, Committed
  <2> QED
    BY <1>2, <1>3, <1>4, <1>5, <1>6, <2>5, <2>7, <2>8 DEF HoldingsInv
<1> QED
  BY <1>9, <1>10

(* Every step of a request, of its rollback and of a restart keeps the       *)
(* invariant.                                                                *)
THEOREM HoldingsStepInv == HoldingsInv /\ [HoldingsNext]_holdingVars => HoldingsInv'
<1> SUFFICES ASSUME HoldingsInv, [HoldingsNext]_holdingVars PROVE HoldingsInv'
  OBVIOUS
<1> USE SyncAssumption
<1>0. HoldingsTypeOK
  BY DEF HoldingsInv
<1>t. /\ sync \in [Syncs -> SyncRecord] /\ older \in [Syncs -> SUBSET Syncs]
      /\ report \in [Syncs -> Reports]
      /\ portfolioLock \in Syncs \cup {NoSync} /\ activeSyncs \subseteq Endpoints
  BY <1>0, HoldingsTypes DEF HoldingsTypeOK
<1>1. ASSUME NEW s \in Syncs, NEW endpoint \in Endpoints, BeginSync(s, endpoint)
      PROVE  HoldingsInv'
  <2>1. /\ sync'[s].stage = "asking" /\ sync'[s].via = endpoint /\ sync[s].stage = "new"
        /\ sync'[s].base = sync[s].base
        /\ \A t \in Syncs : t # s => sync'[t] = sync[t]
    BY <1>1, <1>t DEF BeginSync, SyncRecord
  <2>t. sync' \in [Syncs -> SyncRecord]
    <3>1. "asking" \in Stage
      BY DEF Stage
    <3> QED
      BY <1>1, <1>t, <3>1, SyncMoves DEF BeginSync
  <2>2. activeSyncs' = activeSyncs \cup {endpoint} /\ endpoint \notin activeSyncs
    BY <1>1 DEF BeginSync
  <2>3. UNCHANGED <<rowVars, portfolioLock, report, older>>
    BY <1>1 DEF BeginSync
  <2>4. HoldingsTypeOK'
    <3>1. SyncRecord = [stage : {"new", "asking", "fetched", "resolved", "marking",
                                 "written", "committing", "committed", "failing"},
                        via : Endpoints \cup {"none"}, fresh : BOOLEAN,
                        dirty : BOOLEAN, base : Syncs \cup {NoSync},
                        gone : SUBSET Instruments, goneHoldings : SUBSET Instruments]
      BY DEF SyncRecord, Stage, AtKey
    <3> QED
      BY <1>0, <2>t, <2>2, <2>3, <3>1 DEF HoldingsTypeOK, rowVars
  <2>5. RowHeld' /\ KeyHeld'
    BY <2>1, <2>2, <2>3 DEF HoldingsInv, RowHeld, KeyHeld, AtRow, AtKey
  <2>6. LastCommitted'
    <3>1. lastSync \in Syncs \cup {NoSync} /\ \A t \in Syncs : sync[t].base \in Syncs \cup {NoSync}
      BY <1>0, <1>t DEF HoldingsTypeOK, SyncRecord
    <3> QED
      BY <2>1, <2>3, <3>1 DEF HoldingsInv, LastCommitted, rowVars
  <2>7. EmptyImport' /\ StaleKnown'
    BY <2>1, <2>3
    DEF HoldingsInv, EmptyImport, StaleKnown, StaleKnownTo, AtRow, Absent, rowVars
  <2>8. \A a \in Syncs : \A b \in older[a] : a # s /\ b # s /\ b \in Syncs
    BY <1>t, <2>1 DEF HoldingsInv, OlderFirst, Precedes, Unasked
  <2>9. OlderFirst'
    BY <2>1, <2>3, <2>8 DEF HoldingsInv, OlderFirst, Precedes
  <2>10. \A e \in Syncs : /\ Committed(e)' <=> Committed(e)
                          /\ Committed(e) => sync'[e] = sync[e]
    BY <2>1 DEF Committed
  <2>11. \A i \in Instruments : RowFollows(i)'
    <3>1. ASSUME NEW i \in Instruments
          PROVE  /\ ClearedLater(position[i]) => ClearedLater(position[i])'
                 /\ ClearedLater(holding[i]) => ClearedLater(holding[i])'
      BY <2>3, <2>10 DEF ClearedLater, rowVars
    <3> QED
      BY <2>3, <3>1 DEF HoldingsInv, RowFollows, rowVars
  <2>12. EmptyImportClears' /\ NewestOfItsEndpoint'
    BY <2>1, <2>3, <2>8, <2>10
    DEF HoldingsInv, EmptyImportClears, NothingActive, NewestOfItsEndpoint, rowVars
  <2> QED
    BY <2>4, <2>5, <2>6, <2>7, <2>9, <2>11, <2>12 DEF HoldingsInv
<1>2. ASSUME NEW s \in Syncs, NEW r \in Reports, NEW tagged \in BOOLEAN,
             FetchSnapshot(s, r, tagged)
      PROVE  HoldingsInv'
  <2>1. /\ sync[s].stage = "asking" /\ sync'[s].stage \in {"fetched", "resolved"}
        /\ sync'[s].via = sync[s].via /\ sync'[s].base = sync[s].base
        /\ sync'[s].dirty \/ \A i \in Instruments : r[i] = "absent"
        /\ \A t \in Syncs : t # s => sync'[t] = sync[t]
    BY <1>2, <1>t DEF FetchSnapshot, SyncRecord
  <2>4. sync' \in [Syncs -> SyncRecord]
    <3>1. /\ (IF sync[s].via = "sync" THEN "fetched" ELSE "resolved") \in Stage
          /\ (sync[s].via = "sync" \/ tagged \/ \E i \in Instruments : r[i] # "absent")
               \in BOOLEAN
      BY DEF Stage
    <3>2. PICK st \in Stage, b \in BOOLEAN : sync' = [sync EXCEPT ![s].stage = st, ![s].dirty = b]
      BY <1>2, <3>1, Zenon DEF FetchSnapshot
    <3>t. sync \in [Syncs -> SyncRecord] /\ sync[s] \in SyncRecord
      BY <1>t
    <3> QED
      BY <3>t, <3>2 DEF SyncRecord
  <2>2. /\ report' \in [Syncs -> Reports] /\ older' \in [Syncs -> SUBSET Syncs]
        /\ report'[s] = r /\ older'[s] = {t \in Syncs : sync[t].stage \notin Unasked}
        /\ \A t \in Syncs : t # s => report'[t] = report[t] /\ older'[t] = older[t]
    BY <1>2, <1>t DEF FetchSnapshot, Unasked
  <2>3. UNCHANGED <<rowVars, portfolioLock, activeSyncs>>
    BY <1>2 DEF FetchSnapshot
  <2>5. MovesOn(s)
    BY <1>t, <2>1, <2>2, <2>3, <2>4 DEF MovesOn, AtKey, AtRow
  <2> QED
    BY <2>5, HoldingsMove
<1>3. ASSUME NEW s \in Syncs, ResolvePortfolio(s)
      PROVE  HoldingsInv'
  <2>1. /\ sync[s].stage = "fetched" /\ sync'[s].stage = "resolved"
        /\ sync'[s].via = sync[s].via /\ sync'[s].dirty = sync[s].dirty
        /\ sync'[s].base = sync[s].base
        /\ \A t \in Syncs : t # s => sync'[t] = sync[t]
    BY <1>3, <1>t DEF ResolvePortfolio, SyncRecord
  <2>2. sync' \in [Syncs -> SyncRecord]
    <3>1. (~portfolioExists) \in BOOLEAN
      OBVIOUS
    <3> QED
      BY <1>3, <1>t, <3>1, SyncMoves DEF ResolvePortfolio, Stage
  <2>3. UNCHANGED <<rowVars, portfolioLock, activeSyncs, report, older>>
    BY <1>3 DEF ResolvePortfolio
  <2>5. MovesOn(s)
    BY <1>t, <2>1, <2>2, <2>3 DEF MovesOn, AtKey, AtRow
  <2> QED
    BY <2>5, HoldingsMove
<1>4. ASSUME NEW s \in Syncs, ApplySnapshot(s)
      PROVE  HoldingsInv'
  <2>1. /\ sync[s].stage = "resolved" /\ sync'[s].stage = "marking"
        /\ sync'[s].via = sync[s].via /\ sync'[s].dirty = sync[s].dirty
        /\ sync'[s].base = lastSync
        /\ sync'[s].gone = {i \in Absent(s) : position[i].active}
        /\ \A t \in Syncs : t # s => sync'[t] = sync[t]
    BY <1>4, <1>t DEF ApplySnapshot, SyncRecord
  <2>2. sync' \in [Syncs -> SyncRecord]
    <3>1. /\ {i \in Absent(s) : position[i].active} \in SUBSET Instruments
          /\ lastSync \in Syncs \cup {NoSync}
      BY <1>0 DEF Absent, HoldingsTypeOK
    <3>2. "marking" \in Stage
      BY DEF Stage
    <3>3. PICK rows \in SUBSET Instruments : rows = {i \in Absent(s) : position[i].active}
      BY <3>1
    <3>4. sync' = [sync EXCEPT ![s].stage = "marking", ![s].base = lastSync, ![s].gone = rows]
      BY <1>4, <3>3, Zenon DEF ApplySnapshot
    <3>t. sync \in [Syncs -> SyncRecord] /\ sync[s] \in SyncRecord
      BY <1>t
    <3> QED
      BY <3>t, <3>1, <3>2, <3>4 DEF SyncRecord
  <2>3. /\ UNCHANGED <<rowVars, activeSyncs, report, older>>
        /\ sync[s].dirty => portfolioLock = NoSync
        /\ portfolioLock' = IF sync[s].dirty THEN s ELSE portfolioLock
    BY <1>4 DEF ApplySnapshot, RowFree
  <2>4. StaleKnownTo(s)'
    BY <2>1, <2>3 DEF StaleKnownTo, Absent, rowVars
  <2>5. MovesOn(s)
    BY <1>t, <2>1, <2>2, <2>3, <2>4 DEF MovesOn, AtKey, AtRow
  <2> QED
    BY <2>5, HoldingsMove
<1>11. ASSUME NEW s \in Syncs, MarkHoldings(s)
       PROVE  HoldingsInv'
  <2>1. /\ sync[s].stage = "marking" /\ sync'[s].stage = "written"
        /\ sync'[s].via = sync[s].via /\ sync'[s].dirty = sync[s].dirty
        /\ sync'[s].base = sync[s].base /\ sync'[s].gone = sync[s].gone
        /\ sync'[s].goneHoldings = {i \in Absent(s) : holding[i].active}
        /\ \A t \in Syncs : t # s => sync'[t] = sync[t]
    BY <1>11, <1>t DEF MarkHoldings, SyncRecord
  <2>2. sync' \in [Syncs -> SyncRecord]
    <3>1. {i \in Absent(s) : holding[i].active} \in SUBSET Instruments /\ "written" \in Stage
      BY DEF Absent, Stage
    <3>2. PICK rows \in SUBSET Instruments : rows = {i \in Absent(s) : holding[i].active}
      BY <3>1
    <3>3. sync' = [sync EXCEPT ![s].stage = "written", ![s].goneHoldings = rows]
      BY <1>11, <3>2, Zenon DEF MarkHoldings
    <3>t. sync \in [Syncs -> SyncRecord] /\ sync[s] \in SyncRecord
      BY <1>t
    <3> QED
      BY <3>t, <3>1, <3>3 DEF SyncRecord
  <2>3. UNCHANGED <<rowVars, portfolioLock, activeSyncs, report, older>>
    BY <1>11 DEF MarkHoldings
  <2>4. /\ sync[s].dirty => portfolioLock = s
        /\ StaleKnownTo(s)
    BY <2>1 DEF HoldingsInv, RowHeld, StaleKnown, AtRow
  <2>5. StaleKnownTo(s)'
    BY <2>1, <2>3, <2>4 DEF StaleKnownTo, Absent, rowVars
  <2>6. MovesOn(s)
    BY <1>t, <2>1, <2>2, <2>3, <2>4, <2>5 DEF MovesOn, AtKey, AtRow
  <2> QED
    BY <2>6, HoldingsMove
<1>5. ASSUME NEW s \in Syncs, ReturnSync(s)
      PROVE  HoldingsInv'
  <2>1. /\ sync[s].stage = "written" /\ sync'[s].stage = "committing"
        /\ sync'[s].via = sync[s].via
        /\ sync'[s].gone = sync[s].gone /\ sync'[s].goneHoldings = sync[s].goneHoldings
        /\ sync'[s].dirty = sync[s].dirty /\ sync'[s].base = sync[s].base
        /\ \A t \in Syncs : t # s => sync'[t] = sync[t]
    BY <1>5, <1>t DEF ReturnSync, SyncRecord
  <2>2. sync' \in [Syncs -> SyncRecord]
    BY <1>5, <1>t, SyncMoves DEF ReturnSync, Stage
  <2>3. /\ UNCHANGED <<rowVars, portfolioLock, report, older>>
        /\ activeSyncs' = activeSyncs \ {sync[s].via}
    BY <1>5 DEF ReturnSync
  <2>4. /\ sync[s].dirty => portfolioLock = s
        /\ StaleKnownTo(s)
    BY <2>1 DEF HoldingsInv, RowHeld, StaleKnown, AtRow
  <2>5. StaleKnownTo(s)'
    BY <2>1, <2>3, <2>4 DEF StaleKnownTo, Absent, rowVars
  <2>6. MovesOn(s)
    BY <1>t, <2>1, <2>2, <2>3, <2>4, <2>5 DEF MovesOn, AtKey, AtRow
  <2> QED
    BY <2>6, HoldingsMove
<1>6. ASSUME NEW s \in Syncs, CommitSync(s)
      PROVE  HoldingsInv'
  BY <1>6, HoldingsCommit
<1>7. ASSUME NEW s \in Syncs, FailSync(s)
      PROVE  HoldingsInv'
  <2>1. /\ sync[s].stage \in AtKey /\ sync'[s].stage = "failing"
        /\ sync'[s].via = sync[s].via /\ sync'[s].dirty = sync[s].dirty
        /\ sync'[s].base = sync[s].base
        /\ \A t \in Syncs : t # s => sync'[t] = sync[t]
    BY <1>7, <1>t DEF FailSync, SyncRecord, AtKey
  <2>2. sync' \in [Syncs -> SyncRecord]
    BY <1>7, <1>t, SyncMoves DEF FailSync, Stage
  <2>3. /\ UNCHANGED <<rowVars, portfolioLock, report, older>>
        /\ activeSyncs' = activeSyncs \ {sync[s].via}
    BY <1>7 DEF FailSync
  <2>5. MovesOn(s)
    BY <1>t, <2>1, <2>2, <2>3 DEF MovesOn, AtKey, AtRow
  <2> QED
    BY <2>5, HoldingsMove
<1>8. ASSUME NEW s \in Syncs, RollbackSync(s)
      PROVE  HoldingsInv'
  <2>1. /\ sync[s].stage \in {"failing", "committing"} /\ Undo({s})
        /\ activeSyncs' = activeSyncs
        /\ portfolioLock' = IF portfolioLock = s THEN NoSync ELSE portfolioLock
    BY <1>8 DEF RollbackSync, ReleaseRow
  <2>2. {s} \in SUBSET Running
    BY <2>1 DEF Running
  <2>3. \A t \in Syncs \ {s} :
          sync[t].stage \in AtRow /\ sync[t].dirty => portfolioLock' = portfolioLock
    BY <2>1 DEF HoldingsInv, RowHeld
  <2>4. \A t \in Syncs \ {s} : sync[t].stage \in AtKey => sync[t].via \in activeSyncs'
    BY <2>1 DEF HoldingsInv, KeyHeld
  <2> QED
    BY <2>1, <2>2, <2>3, <2>4, HoldingsUndo
<1>9. ASSUME RestartPortfolio
      PROVE  HoldingsInv'
  <2>1. PICK over : over = Running
    OBVIOUS
  <2>2. Undo(over)
    BY <1>9, <2>1 DEF RestartPortfolio, Undo
  <2>3. activeSyncs' = {} /\ portfolioLock' = NoSync
    BY <1>9 DEF RestartPortfolio
  <2>4. \A s \in Syncs \ over : sync[s].stage \notin AtKey \cup AtRow
    BY <2>1 DEF Running, AtKey, AtRow
  <2> QED
    BY <2>1, <2>2, <2>3, <2>4, HoldingsUndo
<1>10. ASSUME UNCHANGED holdingVars
       PROVE  HoldingsInv'
  BY <1>10
  DEF holdingVars, rowVars, HoldingsInv, HoldingsTypeOK, RowHeld, KeyHeld, LastCommitted,
      EmptyImport, StaleKnown, StaleKnownTo, OlderFirst, Precedes, RowFollows, ClearedLater,
      Committed, EmptyImportClears, NothingActive, NewestOfItsEndpoint, Absent
<1> QED
  BY <1>1, <1>2, <1>3, <1>4, <1>5, <1>6, <1>7, <1>8, <1>9, <1>10, <1>11 DEF HoldingsNext

(* The invariant of the portfolio's rows holds in every reachable state, for *)
(* any number of requests and instruments.                                   *)
THEOREM HoldingsInvAlways == HoldingsSpec => []HoldingsInv
BY HoldingsInitInv, HoldingsStepInv, PTL DEF HoldingsSpec

(* The rows, keys and requests of the portfolio service have their types,    *)
(* whatever fails and restarts.                                              *)
THEOREM HoldingsTypeAlways == HoldingsSpec => []HoldingsTypeOK
<1>1. HoldingsInv => HoldingsTypeOK
  BY DEF HoldingsInv
<1> QED
  BY <1>1, HoldingsInvAlways, PTL

(* The rows follow one snapshot that took the portfolio's row, and among     *)
(* those of one endpoint the newest, but for what empty imports that take no *)
(* row have marked stale since; all of it, if they read it as it was left.   *)
(* So however syncs and imports of PortfolioService overlap, fail, restart.  *)
THEOREM HoldingsAlwaysFollow == HoldingsSpec => []HoldingsFollowSnapshot
<1>1. HoldingsInv => HoldingsFollowSnapshot
  BY RowsAsChecked DEF HoldingsInv
<1> QED
  BY <1>1, HoldingsInvAlways, PTL

=============================================================================
