--------------------------- MODULE DeepStageProofs ---------------------------
(***************************************************************************)
(* What holds of DeepStage for every number of workers and candidates and  *)
(* every budget.                                                           *)
(*                                                                         *)
(* The invariant has a part for each worker (Local) that says, from the    *)
(* worker's own variables, where every candidate stands: which has its one *)
(* diagnostic, which has been started in this tenure and which may still   *)
(* be.  That part holds whatever becomes of the lease.  The part for what  *)
(* a worker shares with the rows (Shared) needs that no transaction        *)
(* outlasts the lease it has checked.                                      *)
(***************************************************************************)
EXTENDS DeepStage, FiniteSetTheorems, SequenceTheorems, WellFoundedInduction, TLAPS

AtWork == {"begin", "sweep", "wait", "settle"}

\* Where the loop is, and what it holds there.
Position(w) ==
  /\ pc[w] \in AtWork => head[w] \in Cands
  /\ pc[w] \notin AtWork => head[w] = NoCand
  /\ head[w] \notin todo[w]
  /\ pc[w] \notin Looping =>
       todo[w] = {} /\ begun[w] = {} /\ repairing[w] = {} /\ tx[w] = NoTx
  /\ round[w] = 0 => repairing[w] = {}
  /\ pc[w] \in {"off", "claimed"} => diag[w] = NoDiag
  /\ pc[w] # "off" => claims > 0

\* A candidate whose attempt is under way has a row that says so.
Attempted(w) ==
  /\ \A c \in begun[w] :
       /\ known[w][c].state = "running"
       /\ task[w][c] # "none"
       /\ c \in todo[w] \/ (c = head[w] /\ pc[w] = "begin")
  /\ pc[w] \in {"sweep", "wait", "settle"} => known[w][head[w]].state = "running"

\* The candidates without a diagnostic.
Open(w, c) ==
  \/ round[w] = 0 /\ c \in todo[w]
  \/ c = head[w] /\ pc[w] \in {"begin", "sweep", "wait"}

Diagnosed(w) ==
  /\ \A c \in Cands : Len(diag[w][c]) <= 1
  /\ pc[w] \in Looping \cup {"ended"} =>
       \A c \in Cands : diag[w][c] = <<>> <=> Open(w, c)

\* Any other diagnostic is in the candidate's row, unless a new attempt is on.
Settled(w) ==
  Loaded(w) =>
    \A c \in Cands \ begun[w] :
      diag[w][c] # <<>> /\ ~ (c = head[w] /\ pc[w] = "settle") =>
        diag[w][c][1] = known[w][c].state

\* The candidates this tenure may still start.
Startable(w, c) ==
  /\ c \notin begun[w]
  /\ c \in todo[w] \/ (c = head[w] /\ pc[w] = "begin")

InBudget(w) ==
  \A c \in Cands :
    Startable(w, c) =>
      /\ ~ Stalls /\ owner = w => known[w][c].attempts + 1 < MaxAttempts + claims
      /\ round[w] > 0 \/ c = head[w] => ~ Restorable(known[w][c])

\* An open transaction is its worker's next step, and starts nothing that has
\* its outcome.
Writing(w) ==
  tx[w] # NoTx =>
    /\ ~ Stalls => owner = w
    /\ tx[w].cand \in Cands
    /\ ~ Restorable(known[w][tx[w].cand])
    /\ \/ /\ pc[w] = "begin"
          /\ tx[w] = [cand |-> head[w], state |-> "running", add |-> 1]
          /\ head[w] \notin begun[w]
       \/ /\ pc[w] = "sweep"
          /\ tx[w] = [cand |-> tx[w].cand, state |-> "running", add |-> 1]
          /\ tx[w].cand \in todo[w] \ begun[w]
       \/ /\ pc[w] = "settle"
          /\ tx[w] = [cand |-> head[w], state |-> diag[w][head[w]][1], add |-> 0]
          /\ diag[w][head[w]] # <<>>

\* The counters count the diagnostics; a ranker that rejects leaves them high.
Having(g, k) == {c \in Cands : g[c] # <<>> /\ k \in Increments(g[c][1])}

Exact(w) ==
  \A k \in Counters :
    /\ counts[w][k] >= Cardinality(Having(diag[w], k))
    /\ ~ RankerFails => counts[w][k] = Cardinality(Having(diag[w], k))

Local(w) ==
  /\ Position(w) /\ Attempted(w) /\ Diagnosed(w) /\ Settled(w)
  /\ InBudget(w) /\ Writing(w) /\ Exact(w)

\* A worker that has claimed the run and not loaded the rows: each of them has
\* room for one more attempt.
Room ==
  \A w \in Workers :
    owner = w /\ pc[w] = "claimed" =>
      \A c \in Cands : row[c].attempts + 1 < MaxAttempts + claims

\* What a worker and the rows have in common, as long as no write is committed
\* on a lease that is gone.
Shared == OwnerKnowsRows /\ Room /\ BudgetHolds

StageInv ==
  /\ TypeOK
  /\ \A w \in Workers : Local(w)
  /\ ~ Stalls => Shared

-----------------------------------------------------------------------------
(* Facts about diagnostics and counters.                                   *)

(* A list of one diagnostic.                                                 *)
LEMMA OneDiagnostic ==
  ASSUME NEW d \in Dispositions
  PROVE  /\ Append(<<>>, d) \in Seq(Dispositions)
         /\ Len(Append(<<>>, d)) = 1
         /\ Append(<<>>, d) # <<>>
         /\ Append(<<>>, d)[1] = d
  OBVIOUS

(* A list with at most one element, some element in it, has just that one.   *)
LEMMA ShortSequence ==
  ASSUME NEW s \in Seq(Dispositions), Len(s) <= 1, s # <<>>
  PROVE  /\ Len(s) = 1
         /\ s[1] \in Dispositions
         /\ s[Len(s)] = s[1]
  <1>1. Len(s) \in Nat \ {0}
    BY EmptySeq
  <1>2. Len(s) = 1
    BY <1>1
  <1> QED BY <1>2, ElementOfSeq

(* There are finitely many candidates, so the counters can count them.       *)
LEMMA CandsFinite == ASSUME NEW S \in SUBSET Cands PROVE IsFiniteSet(S)
  <1>1. IsFiniteSet(1..N)
    BY StageAssumption, FS_Interval
  <1> QED BY <1>1, FS_Subset DEF Cands

(* The invariant holds before any worker has claimed the run.                *)
LEMMA StageInit == Init => StageInv
  <1> SUFFICES ASSUME Init PROVE StageInv
    OBVIOUS
  <1>1. TypeOK
    <2>1. Fresh \in Rows /\ NoDiag \in [Cands -> Seq(Dispositions)]
      BY EmptySeq DEF Fresh, Rows, States, NoDiag
    <2>2. MaxClaims \in Nat /\ RepairPasses \in Nat
      BY StageAssumption
    <2>3. NoTx \in [cand : Cands \cup {NoCand}, state : States, add : {0, 1}]
      BY DEF NoTx, States
    <2>4. NoTask \in [Cands -> {"none", "running", "done"}]
      BY DEF NoTask
    <2>5. [k \in Counters |-> 0] \in [Counters -> Nat]
      OBVIOUS
    <2>6. /\ tx \in [Workers -> [cand : Cands \cup {NoCand}, state : States, add : {0, 1}]]
          /\ task \in [Workers -> [Cands -> {"none", "running", "done"}]]
          /\ counts \in [Workers -> [Counters -> Nat]]
          /\ diag \in [Workers -> [Cands -> Seq(Dispositions)]]
      BY <2>1, <2>3, <2>4, <2>5 DEF Init
    <2>7. row \in [Cands -> Rows] /\ known \in [Workers -> [Cands -> Rows]]
      BY <2>1 DEF Init
    <2>8. pc \in [Workers -> {"off", "claimed", "ended", "stopped"} \cup Looping]
      BY DEF Init
    <2>9. round \in [Workers -> 0..RepairPasses] /\ claims \in 0..MaxClaims
      BY <2>2 DEF Init
    <2>10. head \in [Workers -> Cands \cup {NoCand}]
      BY DEF Init
    <2>11. /\ todo \in [Workers -> SUBSET Cands] /\ begun \in [Workers -> SUBSET Cands]
           /\ repairing \in [Workers -> SUBSET Cands]
      BY DEF Init
    <2>12. owner \in Workers \cup {NoWorker} /\ cancelled \in BOOLEAN
      BY DEF Init
    <2> QED
      BY <2>6, <2>7, <2>8, <2>9, <2>10, <2>11, <2>12 DEF TypeOK
  <1>2. ASSUME NEW w \in Workers PROVE Local(w)
    <2>1. \A k \in Counters : Having(diag[w], k) = {}
      BY <1>2 DEF Init, Having, NoDiag
    <2>2. Exact(w)
      <3>1. \A k \in Counters : counts[w][k] = 0 /\ Cardinality(Having(diag[w], k)) = 0
        BY <1>2, <2>1, FS_EmptySet DEF Init
      <3> QED BY <3>1 DEF Exact
    <2>3. /\ pc[w] = "off" /\ tx[w] = NoTx /\ round[w] = 0 /\ todo[w] = {} /\ head[w] = NoCand
          /\ begun[w] = {} /\ repairing[w] = {} /\ diag[w] = NoDiag
      BY <1>2 DEF Init
    <2>4. Position(w) /\ Attempted(w) /\ Settled(w) /\ Writing(w)
      BY <2>3 DEF Position, Attempted, Settled, Writing, Loaded, Looping, AtWork
    <2>5. Diagnosed(w)
      BY <2>3 DEF Diagnosed, NoDiag, Looping
    <2>6. InBudget(w)
      BY <2>3 DEF InBudget, Startable
    <2> QED
      BY <2>2, <2>4, <2>5, <2>6 DEF Local
  <1>3. OwnerKnowsRows /\ Room /\ BudgetHolds
    BY StageAssumption DEF Init, OwnerKnowsRows, Room, BudgetHolds, Loaded, Looping, Fresh
  <1> QED BY <1>1, <1>2, <1>3 DEF StageInv, Shared

\* What a worker does leaves the others' part alone.
Same(v) ==
  /\ pc'[v] = pc[v] /\ tx'[v] = tx[v] /\ known'[v] = known[v] /\ round'[v] = round[v]
  /\ todo'[v] = todo[v] /\ head'[v] = head[v] /\ task'[v] = task[v] /\ begun'[v] = begun[v]
  /\ repairing'[v] = repairing[v] /\ diag'[v] = diag[v] /\ counts'[v] = counts[v]

(* A step that does not touch a worker, and at most takes the run from it,   *)
(* keeps its part of the invariant.                                          *)
LEMMA Elsewhere ==
  ASSUME StageInv, NEW v \in Workers, Same(v),
         claims' \in Nat, claims <= claims',
         owner' = v => owner = v,
         ~ Stalls /\ tx[v] # NoTx => owner' = owner
  PROVE  Local(v)'
  <1>1. Local(v) /\ claims \in Nat /\ known[v] \in [Cands -> Rows]
    BY DEF StageInv, TypeOK
  <1>2. Position(v)' /\ Attempted(v)' /\ Diagnosed(v)' /\ Settled(v)'
    BY <1>1 DEF Same, Local, Position, Attempted, Diagnosed, Open, Settled, Loaded
  <1>3. InBudget(v)'
    BY <1>1, StageAssumption DEF Same, Local, InBudget, Startable, Rows
  <1>4. Writing(v)'
    BY <1>1 DEF Same, Local, Writing
  <1>5. Exact(v)'
    BY <1>1 DEF Same, Local, Exact, Having
  <1> QED BY <1>2, <1>3, <1>4, <1>5 DEF Local

-----------------------------------------------------------------------------
(* One lemma for each action of a worker w: the types, w's own part, and   *)
(* that the other workers' variables stay.                                 *)

\* A worker's variables have their types.
LEMMA Typed ==
  ASSUME StageInv, NEW w \in Workers
  PROVE  /\ claims \in Nat /\ MaxAttempts \in Nat \ {0} /\ w # NoWorker
         /\ \A c \in Cands : c \in Nat \ {0} /\ c # NoCand
         /\ known[w] \in [Cands -> Rows] /\ row \in [Cands -> Rows]
         /\ round[w] \in Nat /\ round[w] <= RepairPasses
         /\ todo[w] \subseteq Cands /\ begun[w] \subseteq Cands /\ repairing[w] \subseteq Cands
         /\ head[w] \in Cands \cup {NoCand}
         /\ task[w] \in [Cands -> {"none", "running", "done"}]
         /\ diag[w] \in [Cands -> Seq(Dispositions)]
         /\ counts[w] \in [Counters -> Nat]
         /\ pc[w] \in {"off", "claimed", "ended", "stopped"} \cup Looping
  <1>1. TypeOK
    BY DEF StageInv
  <1>2. claims \in Nat /\ MaxAttempts \in Nat \ {0} /\ w # NoWorker
    BY <1>1, StageAssumption DEF TypeOK
  <1>3. \A c \in Cands : c \in Nat \ {0} /\ c # NoCand
    BY StageAssumption DEF Cands, NoCand
  <1>4. known[w] \in [Cands -> Rows] /\ row \in [Cands -> Rows]
    BY <1>1 DEF TypeOK
  <1>5. round[w] \in Nat /\ round[w] <= RepairPasses
    BY <1>1, StageAssumption DEF TypeOK
  <1>6. /\ todo[w] \subseteq Cands /\ begun[w] \subseteq Cands /\ repairing[w] \subseteq Cands
        /\ head[w] \in Cands \cup {NoCand}
    BY <1>1 DEF TypeOK
  <1>7. /\ task[w] \in [Cands -> {"none", "running", "done"}]
        /\ diag[w] \in [Cands -> Seq(Dispositions)]
        /\ counts[w] \in [Counters -> Nat]
        /\ pc[w] \in {"off", "claimed", "ended", "stopped"} \cup Looping
    BY <1>1 DEF TypeOK
  <1> QED BY <1>2, <1>3, <1>4, <1>5, <1>6, <1>7

\* A diagnostic where there was none is counted at least by Plus.
LEMMA OneMore ==
  ASSUME StageInv, NEW w \in Workers, NEW c \in Cands, NEW d \in Dispositions,
         Exact(w), diag[w][c] = <<>>,
         diag'[w] = [diag[w] EXCEPT ![c] = Append(@, d)],
         counts'[w] \in [Counters -> Nat],
         \A k \in Counters : counts'[w][k] >= Plus(counts[w], d)[k],
         ~ RankerFails => counts'[w] = Plus(counts[w], d)
  PROVE  Exact(w)'
  <1>1. diag'[w][c] = Append(<<>>, d) /\ \A x \in Cands \ {c} : diag'[w][x] = diag[w][x]
    BY Typed
  <1>2. diag'[w][c] # <<>> /\ diag'[w][c][1] = d
    BY <1>1, OneDiagnostic
  <1>3. ASSUME NEW k \in Counters
        PROVE  /\ counts'[w][k] >= Cardinality(Having(diag'[w], k))
               /\ ~ RankerFails => counts'[w][k] = Cardinality(Having(diag'[w], k))
    <2>1. /\ c \notin Having(diag[w], k)
          /\ IsFiniteSet(Having(diag[w], k)) /\ IsFiniteSet(Having(diag'[w], k))
      BY CandsFinite DEF Having
    <2>2. /\ Cardinality(Having(diag[w], k)) \in Nat /\ Cardinality(Having(diag'[w], k)) \in Nat
          /\ counts[w][k] \in Nat /\ counts'[w][k] \in Nat
      BY <2>1, FS_CardinalityType, Typed
    <2>3. /\ counts[w][k] >= Cardinality(Having(diag[w], k))
          /\ ~ RankerFails => counts[w][k] = Cardinality(Having(diag[w], k))
      BY DEF Exact
    <2>4. CASE k \in Increments(d)
      <3>1. Having(diag'[w], k) = Having(diag[w], k) \cup {c}
        BY <1>1, <1>2, <2>1, <2>4 DEF Having
      <3>2. Cardinality(Having(diag'[w], k)) = Cardinality(Having(diag[w], k)) + 1
        BY <3>1, <2>1, FS_AddElement
      <3>3. Plus(counts[w], d)[k] = counts[w][k] + 1
        BY <2>4 DEF Plus
      <3> QED BY <3>2, <3>3, <2>2, <2>3
    <2>5. CASE k \notin Increments(d)
      <3>1. Having(diag'[w], k) = Having(diag[w], k)
        BY <1>1, <1>2, <2>1, <2>5 DEF Having
      <3>2. Plus(counts[w], d)[k] = counts[w][k]
        BY <2>5 DEF Plus
      <3> QED BY <3>1, <3>2, <2>2, <2>3
    <2> QED BY <2>4, <2>5
  <1> QED BY <1>3 DEF Exact

\* One that is removed is taken off by Minus.
LEMMA OneLess ==
  ASSUME StageInv, NEW w \in Workers, NEW c \in Cands, NEW d \in Dispositions,
         Exact(w), diag[w][c] # <<>>, diag[w][c][1] = d,
         diag'[w] = [diag[w] EXCEPT ![c] = <<>>],
         counts'[w] = Minus(counts[w], d)
  PROVE  Minus(counts[w], d) \in [Counters -> Nat] /\ Exact(w)'
  <1>1. diag'[w][c] = <<>> /\ \A x \in Cands \ {c} : diag'[w][x] = diag[w][x]
    BY Typed
  <1>2. ASSUME NEW k \in Counters
        PROVE  /\ Minus(counts[w], d)[k] \in Nat
               /\ Minus(counts[w], d)[k] >= Cardinality(Having(diag'[w], k))
               /\ ~ RankerFails => Minus(counts[w], d)[k] = Cardinality(Having(diag'[w], k))
    <2>1. /\ IsFiniteSet(Having(diag[w], k)) /\ IsFiniteSet(Having(diag'[w], k))
          /\ c \notin Having(diag'[w], k)
      BY <1>1, CandsFinite DEF Having
    <2>2. /\ Cardinality(Having(diag'[w], k)) \in Nat /\ Cardinality(Having(diag[w], k)) \in Nat
          /\ counts[w][k] \in Nat
      BY <2>1, FS_CardinalityType, Typed
    <2>3. /\ counts[w][k] >= Cardinality(Having(diag[w], k))
          /\ ~ RankerFails => counts[w][k] = Cardinality(Having(diag[w], k))
      BY DEF Exact
    <2>4. CASE k \in Increments(d)
      <3>1. c \in Having(diag[w], k) /\ Having(diag'[w], k) = Having(diag[w], k) \ {c}
        BY <1>1, <2>4 DEF Having
      <3>2. Cardinality(Having(diag'[w], k)) = Cardinality(Having(diag[w], k)) - 1
        BY <3>1, <2>1, FS_RemoveElement
      <3>3. Minus(counts[w], d)[k] = counts[w][k] - 1
        BY <2>4 DEF Minus
      <3> QED BY <2>2, <2>3, <3>2, <3>3
    <2>5. CASE k \notin Increments(d)
      <3>1. Having(diag'[w], k) = Having(diag[w], k)
        BY <1>1, <2>1, <2>5 DEF Having
      <3>2. Minus(counts[w], d)[k] = counts[w][k]
        BY <2>5 DEF Minus
      <3> QED BY <2>2, <2>3, <3>1, <3>2
    <2> QED BY <2>4, <2>5
  <1>3. Minus(counts[w], d) \in [Counters -> Nat]
    BY <1>2 DEF Minus
  <1> QED BY <1>2, <1>3 DEF Exact

(* Load: a worker that starts stage 2 knows the rows as they are.            *)
LEMMA LoadKeeps ==
  ASSUME StageInv, NEW w \in Workers, Load(w)
  PROVE  TypeOK' /\ Local(w)' /\ \A v \in Workers \ {w} : Same(v)
  <1>1. TypeOK'
    BY StageAssumption DEF StageInv, TypeOK, Load, db, Looping
  <1>2. /\ pc[w] = "claimed" /\ pc'[w] = "next" /\ known'[w] = row
        /\ round'[w] = 0 /\ todo'[w] = Cands
        /\ UNCHANGED <<db, tx, head, task, begun, repairing, diag, counts>>
    BY DEF StageInv, TypeOK, Load
  <1>3. Local(w)
    BY DEF StageInv
  <1>4. /\ head[w] = NoCand /\ begun[w] = {} /\ repairing[w] = {} /\ tx[w] = NoTx
        /\ diag[w] = NoDiag
    BY <1>2, <1>3 DEF Local, Position, AtWork, Looping
  <1>5. Position(w)' /\ Attempted(w)' /\ Writing(w)'
    BY <1>2, <1>3, <1>4, Typed DEF Local, Position, Attempted, Writing, Looping, AtWork, db
  <1>6. Diagnosed(w)' /\ Settled(w)'
    BY <1>2, <1>4, Typed DEF Diagnosed, Settled, Open, NoDiag
  <1>7. InBudget(w)'
    BY <1>2, <1>4, Typed DEF StageInv, Shared, InBudget, Startable, Room, db
  <1>8. Exact(w)'
    BY <1>2, <1>3 DEF Local, Exact
  <1>9. \A v \in Workers \ {w} : Same(v)
    BY DEF StageInv, TypeOK, Same, Load
  <1> QED BY <1>1, <1>5, <1>6, <1>7, <1>8, <1>9 DEF Local

(* Take: the next candidate of the first pass.                               *)
LEMMA TakeKeeps ==
  ASSUME StageInv, NEW w \in Workers, NEW c \in Cands, Take(w, c)
  PROVE  TypeOK' /\ Local(w)' /\ \A v \in Workers \ {w} : Same(v)
  <1>1. TypeOK'
    BY StageAssumption DEF StageInv, TypeOK, Take, db, Looping
  <1>2. /\ pc[w] = "next" /\ pc'[w] = "begin" /\ round[w] = 0 /\ c \in todo[w]
        /\ ~ Restorable(known[w][c])
        /\ head'[w] = c /\ todo'[w] = todo[w] \ {c}
        /\ UNCHANGED <<db, tx, known, round, task, begun, repairing, diag, counts>>
    BY DEF StageInv, TypeOK, Take, IsFirst
  <1>3. Local(w) /\ head[w] = NoCand /\ tx[w] = NoTx
    BY <1>2 DEF StageInv, Local, Position, Writing, AtWork
  <1>4. Position(w)' /\ Attempted(w)' /\ Writing(w)'
    BY <1>2, <1>3, Typed DEF Local, Position, Attempted, Writing, Looping, AtWork, db
  <1>5. Diagnosed(w)'
    BY <1>2, <1>3, Typed DEF Local, Diagnosed, Open, Looping
  <1>6. Settled(w)'
    BY <1>2, <1>3, Typed DEF Local, Settled, Loaded, Looping
  <1>7. InBudget(w)'
    BY <1>2, <1>3, Typed DEF Local, InBudget, Startable, db
  <1>8. Exact(w)'
    BY <1>2, <1>3 DEF Local, Exact
  <1>9. \A v \in Workers \ {w} : Same(v)
    BY DEF StageInv, TypeOK, Same, Take
  <1> QED BY <1>1, <1>4, <1>5, <1>6, <1>7, <1>8, <1>9 DEF Local

(* Restore: a finished outcome of a predecessor is counted once.             *)
LEMMA RestoreKeeps ==
  ASSUME StageInv, NEW w \in Workers, NEW c \in Cands, Restore(w, c)
  PROVE  TypeOK' /\ Local(w)' /\ \A v \in Workers \ {w} : Same(v)
  <1> DEFINE d == known[w][c].state
  <1>1. /\ pc[w] = "next" /\ round[w] = 0 /\ c \in todo[w] /\ Restorable(known[w][c])
        /\ todo' = [todo EXCEPT ![w] = @ \ {c}] /\ todo'[w] = todo[w] \ {c}
        /\ diag' = [diag EXCEPT ![w][c] = Append(@, d)]
        /\ diag'[w] = [diag[w] EXCEPT ![c] = Append(@, d)]
        /\ counts' = [counts EXCEPT ![w] = Plus(@, d)] /\ counts'[w] = Plus(counts[w], d)
        /\ UNCHANGED <<db, pc, tx, known, round, head, task, begun, repairing>>
    BY DEF StageInv, TypeOK, Restore, IsFirst, Diagnose
  <1>2. d \in Dispositions /\ d # "running"
    BY <1>1 DEF Restorable, Dispositions, Final, Retryable
  <1>3. /\ Local(w) /\ head[w] = NoCand /\ tx[w] = NoTx
        /\ diag[w][c] = <<>> /\ c \notin begun[w]
    BY <1>1, <1>2 DEF StageInv, Local, Position, Writing, Diagnosed, Open, Attempted, AtWork, Looping
  <1>4. TypeOK'
    <2>1. Plus(counts[w], d) \in [Counters -> Nat]
      BY Typed DEF Plus
    <2> QED
      BY <1>1, <1>2, <2>1 DEF StageInv, TypeOK, db
  <1>5. diag'[w][c] = Append(<<>>, d) /\ \A x \in Cands \ {c} : diag'[w][x] = diag[w][x]
    BY <1>1, <1>3, Typed
  <1>6. Position(w)' /\ Attempted(w)' /\ Writing(w)'
    BY <1>1, <1>3, Typed DEF Local, Position, Attempted, Writing, Looping, AtWork, db
  <1>7. Diagnosed(w)'
    <2>1. ASSUME NEW x \in Cands
          PROVE  Len(diag'[w][x]) <= 1 /\ (diag'[w][x] = <<>> <=> Open(w, x)')
      <3>1. CASE x = c
        <4>1. ~ Open(w, x)'
          BY <1>1, <1>3, <3>1, Typed DEF Open
        <4>2. Len(diag'[w][c]) = 1 /\ diag'[w][c] # <<>>
          BY <1>2, <1>5, OneDiagnostic
        <4> QED BY <3>1, <4>1, <4>2
      <3>2. CASE x # c
        BY <1>1, <1>3, <1>5, <3>2 DEF Local, Diagnosed, Open, Looping
      <3> QED BY <3>1, <3>2
    <2> QED BY <2>1 DEF Diagnosed
  <1>8. Settled(w)'
    BY <1>1, <1>2, <1>3, <1>5, Typed, OneDiagnostic DEF Local, Settled, Loaded, Looping
  <1>9. InBudget(w)'
    BY <1>1, <1>3, Typed DEF Local, InBudget, Startable, db
  <1>10. Exact(w)'
    <2>1. counts'[w] \in [Counters -> Nat] /\ Plus(counts[w], d) = counts'[w]
      BY <1>1, Typed DEF Plus
    <2>2. \A k \in Counters : counts'[w][k] >= Plus(counts[w], d)[k]
      BY <2>1
    <2> QED BY <1>1, <1>2, <1>3, <2>1, <2>2, OneMore DEF Local
  <1>11. \A v \in Workers \ {w} : Same(v)
    BY <1>1 DEF StageInv, TypeOK, Same
  <1> QED BY <1>4, <1>6, <1>7, <1>8, <1>9, <1>10, <1>11 DEF Local

(* TakeRepair: the earlier outcome and its count are taken back together.    *)
LEMMA TakeRepairKeeps ==
  ASSUME StageInv, NEW w \in Workers, NEW c \in Cands, TakeRepair(w, c)
  PROVE  TypeOK' /\ Local(w)' /\ \A v \in Workers \ {w} : Same(v)
  <1> DEFINE d == LastDiag(w, c)
  <1>1. /\ pc[w] = "next" /\ round[w] > 0 /\ c \in todo[w]
        /\ head' = [head EXCEPT ![w] = c] /\ head'[w] = c
        /\ repairing' = [repairing EXCEPT ![w] = @ \cup {c}]
        /\ repairing'[w] = repairing[w] \cup {c}
        /\ counts' = [counts EXCEPT ![w] = Minus(@, d)] /\ counts'[w] = Minus(counts[w], d)
        /\ diag' = [diag EXCEPT ![w][c] = <<>>] /\ diag'[w] = [diag[w] EXCEPT ![c] = <<>>]
        /\ todo' = [todo EXCEPT ![w] = @ \ {c}] /\ todo'[w] = todo[w] \ {c}
        /\ pc' = [pc EXCEPT ![w] = "begin"] /\ pc'[w] = "begin"
        /\ UNCHANGED <<db, tx, known, round, task, begun>>
    BY DEF StageInv, TypeOK, TakeRepair, IsFirst
  <1>2. /\ Local(w) /\ head[w] = NoCand /\ tx[w] = NoTx
        /\ diag[w][c] \in Seq(Dispositions) /\ Len(diag[w][c]) <= 1 /\ diag[w][c] # <<>>
    <2>1. Local(w) /\ head[w] = NoCand /\ tx[w] = NoTx
      BY <1>1 DEF StageInv, Local, Position, Writing, AtWork
    <2>2. ~ Open(w, c)
      BY <1>1, <2>1, Typed DEF Open
    <2> QED BY <1>1, <2>1, <2>2, Typed DEF Local, Diagnosed, Looping
  <1>3. d \in Dispositions /\ diag[w][c][1] = d
    BY <1>2, ShortSequence DEF LastDiag
  <1>4. /\ Minus(counts[w], d) \in [Counters -> Nat]
        /\ Exact(w)'
    BY <1>1, <1>2, <1>3, OneLess DEF Local
  <1>5. diag'[w][c] = <<>> /\ \A x \in Cands \ {c} : diag'[w][x] = diag[w][x]
    BY <1>1, Typed
  <1>6. TypeOK'
    <2>1. <<>> \in Seq(Dispositions)
      BY EmptySeq
    <2> QED
      BY <1>1, <1>4, <2>1 DEF StageInv, TypeOK, db, Looping
  <1>7. Position(w)' /\ Attempted(w)' /\ Writing(w)'
    BY <1>1, <1>2, Typed DEF Local, Position, Attempted, Writing, Looping, AtWork, db
  <1>8. Diagnosed(w)'
    BY <1>1, <1>2, <1>5, Typed, EmptySeq DEF Local, Diagnosed, Open, Looping
  <1>9. Settled(w)'
    BY <1>1, <1>2, <1>5, Typed DEF Local, Settled, Loaded, Looping
  <1>10. InBudget(w)'
    BY <1>1, <1>2, Typed DEF Local, InBudget, Startable, db
  <1>11. \A v \in Workers \ {w} : Same(v)
    BY <1>1 DEF StageInv, TypeOK, Same
  <1> QED BY <1>4, <1>6, <1>7, <1>8, <1>9, <1>10, <1>11 DEF Local

(* NextPass: what is left to repair is in the rows and retryable.            *)
LEMMA NextPassKeeps ==
  ASSUME StageInv, NEW w \in Workers, NextPass(w)
  PROVE  TypeOK' /\ Local(w)' /\ \A v \in Workers \ {w} : Same(v)
  <1>1. /\ pc[w] = "next" /\ todo[w] = {} /\ round[w] < RepairPasses
        /\ round' = [round EXCEPT ![w] = @ + 1] /\ round'[w] = round[w] + 1
        /\ todo' = [todo EXCEPT ![w] = Retry(w)] /\ todo'[w] = Retry(w)
        /\ UNCHANGED <<db, pc, tx, known, head, task, begun, repairing, diag, counts>>
    BY DEF StageInv, TypeOK, NextPass, RepairNext
  <1>2. /\ Local(w) /\ head[w] = NoCand /\ tx[w] = NoTx /\ begun[w] = {} /\ claims > 0
        /\ \A c \in Cands : diag[w][c] # <<>> /\ diag[w][c][1] = known[w][c].state
    <2>1. Local(w) /\ head[w] = NoCand /\ tx[w] = NoTx /\ begun[w] = {} /\ claims > 0
      BY <1>1, Typed DEF StageInv, Local, Position, Writing, Attempted, AtWork, Looping
    <2>2. \A c \in Cands : ~ Open(w, c)
      BY <1>1, <2>1, Typed DEF Open
    <2>3. \A c \in Cands : diag[w][c] # <<>>
      BY <1>1, <2>1, <2>2 DEF Local, Diagnosed, Looping
    <2> QED BY <1>1, <2>1, <2>3, Typed DEF Local, Settled, Loaded, Looping
  <1>3. Retry(w) \subseteq Cands
    BY DEF Retry
  <1>4. \A c \in Retry(w) :
          known[w][c].state \in Retryable /\ known[w][c].attempts < MaxAttempts
    <2> SUFFICES ASSUME NEW c \in Retry(w)
        PROVE  known[w][c].state \in Retryable /\ known[w][c].attempts < MaxAttempts
      OBVIOUS
    <2>1. c \in Cands /\ LastDiag(w, c) \in Retryable /\ known[w][c].attempts < MaxAttempts
      BY DEF Retry, NeedsRepair
    <2>2. diag[w][c] \in Seq(Dispositions) /\ Len(diag[w][c]) <= 1
      BY <2>1, <1>2, Typed DEF Local, Diagnosed
    <2>3. LastDiag(w, c) = diag[w][c][1]
      BY <1>2, <2>1, <2>2, ShortSequence DEF LastDiag
    <2> QED BY <2>1, <2>3, <1>2
  <1>5. TypeOK'
    BY <1>1, <1>3, StageAssumption, Typed DEF StageInv, TypeOK, db
  <1>6. Position(w)' /\ Attempted(w)' /\ Writing(w)'
    BY <1>1, <1>2, <1>3, Typed DEF Local, Position, Attempted, Writing, Looping, AtWork, db
  <1>7. Diagnosed(w)' /\ Settled(w)'
    BY <1>1, <1>2, Typed DEF Local, Diagnosed, Open, Settled, Loaded, Looping
  <1>8. InBudget(w)'
    <2>1. \A c \in Retry(w) : /\ known[w][c].attempts + 1 < MaxAttempts + claims
                              /\ ~ Restorable(known[w][c])
      <3>1. \A c \in Retry(w) : known[w][c].attempts \in Nat
        BY <1>3, Typed DEF Rows
      <3> QED BY <1>2, <1>4, <3>1, Typed DEF Restorable, Final, Retryable
    <2> QED
      BY <1>1, <1>2, <2>1, Typed DEF InBudget, Startable, db
  <1>9. Exact(w)'
    BY <1>1, <1>2 DEF Local, Exact
  <1>10. \A v \in Workers \ {w} : Same(v)
    BY <1>1 DEF StageInv, TypeOK, Same
  <1> QED BY <1>5, <1>6, <1>7, <1>8, <1>9, <1>10 DEF Local

\* The variables of a worker that has dropped what it held.
LEMMA Dropped ==
  ASSUME StageInv, NEW w \in Workers, NEW to \in {"off", "ended", "stopped"}, Drop(w, to)
  PROVE  /\ pc'[w] = to /\ tx'[w] = NoTx /\ todo'[w] = {} /\ head'[w] = NoCand
         /\ begun'[w] = {} /\ repairing'[w] = {}
         /\ pc' \in [Workers -> {"off", "claimed", "ended", "stopped"} \cup Looping]
         /\ tx' \in [Workers -> [cand : Cands \cup {NoCand}, state : States, add : {0, 1}]]
         /\ todo' \in [Workers -> SUBSET Cands]
         /\ head' \in [Workers -> Cands \cup {NoCand}]
         /\ task' \in [Workers -> [Cands -> {"none", "running", "done"}]]
         /\ begun' \in [Workers -> SUBSET Cands] /\ repairing' \in [Workers -> SUBSET Cands]
         /\ \A v \in Workers \ {w} :
              /\ pc'[v] = pc[v] /\ tx'[v] = tx[v] /\ todo'[v] = todo[v] /\ head'[v] = head[v]
              /\ task'[v] = task[v] /\ begun'[v] = begun[v] /\ repairing'[v] = repairing[v]
  <1>1. NoTx \in [cand : Cands \cup {NoCand}, state : States, add : {0, 1}]
    BY DEF NoTx, States
  <1>2. NoTask \in [Cands -> {"none", "running", "done"}]
    BY DEF NoTask
  <1>3. /\ pc' = [pc EXCEPT ![w] = to] /\ tx' = [tx EXCEPT ![w] = NoTx]
        /\ todo' = [todo EXCEPT ![w] = {}] /\ head' = [head EXCEPT ![w] = NoCand]
        /\ task' = [task EXCEPT ![w] = NoTask] /\ begun' = [begun EXCEPT ![w] = {}]
        /\ repairing' = [repairing EXCEPT ![w] = {}]
    BY DEF Drop
  <1>4. /\ pc' \in [Workers -> {"off", "claimed", "ended", "stopped"} \cup Looping]
        /\ tx' \in [Workers -> [cand : Cands \cup {NoCand}, state : States, add : {0, 1}]]
        /\ task' \in [Workers -> [Cands -> {"none", "running", "done"}]]
    BY <1>1, <1>2, <1>3 DEF StageInv, TypeOK
  <1>5. /\ todo' \in [Workers -> SUBSET Cands] /\ head' \in [Workers -> Cands \cup {NoCand}]
        /\ begun' \in [Workers -> SUBSET Cands] /\ repairing' \in [Workers -> SUBSET Cands]
    BY <1>3 DEF StageInv, TypeOK
  <1>6. /\ pc'[w] = to /\ tx'[w] = NoTx /\ todo'[w] = {} /\ head'[w] = NoCand
        /\ begun'[w] = {} /\ repairing'[w] = {}
    BY <1>3 DEF StageInv, TypeOK
  <1>7. ASSUME NEW v \in Workers \ {w}
        PROVE  /\ pc'[v] = pc[v] /\ tx'[v] = tx[v] /\ todo'[v] = todo[v] /\ head'[v] = head[v]
               /\ task'[v] = task[v] /\ begun'[v] = begun[v] /\ repairing'[v] = repairing[v]
    BY <1>3 DEF StageInv, TypeOK
  <1> QED BY <1>4, <1>5, <1>6, <1>7

\* Stop and End.
LEMMA LeavingKeeps ==
  ASSUME StageInv, NEW w \in Workers, Stop(w) \/ End(w)
  PROVE  TypeOK' /\ Local(w)' /\ \A v \in Workers \ {w} : Same(v)
  <1>1. PICK to \in {"ended", "stopped"} :
          /\ pc[w] = "next" /\ Drop(w, to)
          /\ \/ round[w] = 0 /\ to = "stopped"
             \/ todo[w] = {}
          /\ UNCHANGED <<db, known, round, diag, counts>>
    BY DEF Stop, End
  <1>2. Local(w) /\ head[w] = NoCand
    BY <1>1 DEF StageInv, Local, Position, AtWork
  <1>3. \A c \in begun[w] : diag[w][c] = <<>>
    BY <1>1, <1>2, Typed DEF Local, Attempted, Diagnosed, Open, Looping
  <1>4. TypeOK'
    BY <1>1, Dropped DEF StageInv, TypeOK, db
  <1>5. Position(w)' /\ Attempted(w)' /\ Writing(w)' /\ InBudget(w)'
    BY <1>1, <1>2, Dropped, Typed DEF Local, Position, Attempted, Writing, InBudget, Startable, Looping,
      AtWork, db
  <1>6. Diagnosed(w)'
    <2>1. \A c \in Cands : Len(diag[w][c]) <= 1
      BY <1>2 DEF Local, Diagnosed
    <2>2. CASE to = "stopped"
      BY <1>1, <2>1, <2>2, Dropped DEF Diagnosed, Looping
    <2>3. CASE to = "ended"
      <3>1. \A c \in Cands : ~ Open(w, c) /\ ~ Open(w, c)'
        BY <1>1, <1>2, <2>3, Dropped, Typed DEF Open
      <3> QED BY <1>1, <1>2, <2>1, <3>1 DEF Local, Diagnosed, Looping
    <2> QED BY <2>2, <2>3
  <1>7. Settled(w)'
    BY <1>1, <1>2, <1>3, Dropped, Typed DEF Local, Settled, Loaded, Looping
  <1>8. Exact(w)'
    BY <1>1, <1>2 DEF Local, Exact
  <1>9. \A v \in Workers \ {w} : Same(v)
    BY <1>1, Dropped DEF Same
  <1> QED BY <1>4, <1>5, <1>6, <1>7, <1>8, <1>9 DEF Local

\* Crash and Refused.
LEMMA GoneKeeps ==
  ASSUME StageInv, NEW w \in Workers, Crash(w) \/ Refused(w)
  PROVE  TypeOK' /\ Local(w)' /\ \A v \in Workers \ {w} : Same(v)
  <1>1. Drop(w, "off") /\ Forget(w) /\ UNCHANGED db
    BY DEF Crash, Refused
  <1>2. /\ diag' = [diag EXCEPT ![w] = NoDiag] /\ diag'[w] = NoDiag
        /\ counts' = [counts EXCEPT ![w] = [k \in Counters |-> 0]]
        /\ counts'[w] = [k \in Counters |-> 0]
        /\ known' = [known EXCEPT ![w] = [c \in Cands |-> Fresh]]
        /\ round' = [round EXCEPT ![w] = 0] /\ round'[w] = 0
    BY <1>1 DEF StageInv, TypeOK, Forget
  <1>3. TypeOK'
    <2>1. Fresh \in Rows /\ NoDiag \in [Cands -> Seq(Dispositions)]
      BY EmptySeq DEF Fresh, Rows, States, NoDiag
    <2>2. known' \in [Workers -> [Cands -> Rows]] /\ diag' \in [Workers -> [Cands -> Seq(Dispositions)]]
      BY <1>2, <2>1 DEF StageInv, TypeOK
    <2>3. counts' \in [Workers -> [Counters -> Nat]] /\ round' \in [Workers -> 0..RepairPasses]
      BY <1>2, StageAssumption DEF StageInv, TypeOK
    <2> QED BY <1>1, <2>2, <2>3, Dropped DEF StageInv, TypeOK, db
  <1>4. Position(w)' /\ Attempted(w)' /\ Writing(w)' /\ InBudget(w)' /\ Settled(w)'
    BY <1>1, <1>2, Dropped, Typed DEF Position, Attempted, Writing, InBudget, Startable, Settled, Loaded,
      Looping, AtWork, db
  <1>5. Diagnosed(w)'
    BY <1>1, <1>2, Dropped, EmptySeq DEF Diagnosed, NoDiag, Looping
  <1>6. Exact(w)'
    <2>1. \A k \in Counters : Having(diag'[w], k) = {}
      BY <1>2 DEF Having, NoDiag
    <2> QED BY <1>2, <2>1, FS_EmptySet DEF Exact
  <1>7. \A v \in Workers \ {w} : Same(v)
    BY <1>1, <1>2, Dropped DEF StageInv, TypeOK, Same
  <1> QED BY <1>3, <1>4, <1>5, <1>6, <1>7 DEF Local

(* BeginPrefetched: the current candidate was begun as a look-ahead.         *)
LEMMA BeginPrefetchedKeeps ==
  ASSUME StageInv, NEW w \in Workers, BeginPrefetched(w)
  PROVE  TypeOK' /\ Local(w)' /\ \A v \in Workers \ {w} : Same(v)
  <1>1. /\ pc[w] = "begin" /\ tx[w] = NoTx /\ head[w] \in begun[w]
        /\ begun' = [begun EXCEPT ![w] = @ \ {head[w]}] /\ begun'[w] = begun[w] \ {head[w]}
        /\ Launch(w, head[w])
        /\ pc' = [pc EXCEPT ![w] = "sweep"] /\ pc'[w] = "sweep"
        /\ UNCHANGED <<db, tx, known, round, todo, head, repairing, diag, counts>>
    BY DEF StageInv, TypeOK, BeginPrefetched
  <1>2. Local(w) /\ head[w] \in Cands
    BY <1>1 DEF StageInv, Local, Position, AtWork
  <1>3. /\ task' = [task EXCEPT ![w][head[w]] = IF @ = "none" THEN "running" ELSE @]
        /\ \A x \in Cands : task[w][x] # "none" => task'[w][x] # "none"
    BY <1>1, <1>2 DEF Launch, StageInv, TypeOK
  <1>4. TypeOK'
    <2>1. task' \in [Workers -> [Cands -> {"none", "running", "done"}]]
      BY <1>2, <1>3 DEF StageInv, TypeOK
    <2> QED BY <1>1, <2>1 DEF StageInv, TypeOK, db, Looping
  <1>5. Position(w)' /\ Writing(w)' /\ InBudget(w)'
    BY <1>1, <1>2, Typed DEF Local, Position, Writing, InBudget, Startable, Looping, AtWork, db
  <1>6. Attempted(w)'
    BY <1>1, <1>2, <1>3, Typed DEF Local, Attempted
  <1>7. diag[w][head[w]] = <<>>
    BY <1>1, <1>2 DEF Local, Diagnosed, Open, Looping
  <1>8. Diagnosed(w)' /\ Settled(w)'
    BY <1>1, <1>2, <1>7, Typed DEF Local, Diagnosed, Open, Settled, Loaded, Looping
  <1>9. Exact(w)'
    BY <1>1, <1>2 DEF Local, Exact
  <1>10. \A v \in Workers \ {w} : Same(v)
    BY <1>1, <1>3 DEF StageInv, TypeOK, Same
  <1> QED BY <1>4, <1>5, <1>6, <1>8, <1>9, <1>10 DEF Local

\* A statement that has passed its fence writes nothing that has its outcome.
LEMMA ExecuteKeeps ==
  ASSUME StageInv, NEW w \in Workers,
         Begin(w) \/ Finish(w) \/ \E c \in Cands : Prefetch(w, c)
  PROVE  TypeOK' /\ Local(w)' /\ \A v \in Workers \ {w} : Same(v)
  <1>1. PICK t \in [cand : Cands, state : States, add : {0, 1}] :
          /\ tx' = [tx EXCEPT ![w] = t]
          /\ owner = w
          /\ ~ Restorable(known[w][t.cand])
          /\ \/ /\ pc[w] = "begin"
                /\ t = [cand |-> head[w], state |-> "running", add |-> 1]
                /\ head[w] \notin begun[w]
             \/ /\ pc[w] = "sweep"
                /\ t = [cand |-> t.cand, state |-> "running", add |-> 1]
                /\ t.cand \in todo[w] \ begun[w]
             \/ /\ pc[w] = "settle"
                /\ t = [cand |-> head[w], state |-> diag[w][head[w]][1], add |-> 0]
                /\ diag[w][head[w]] # <<>>
          /\ UNCHANGED <<db, pc, local>>
    <2>1. CASE Begin(w)
      <3> DEFINE t == [cand |-> head[w], state |-> "running", add |-> 1]
      <3>1. /\ pc[w] = "begin" /\ head[w] \notin begun[w] /\ owner = w
            /\ tx' = [tx EXCEPT ![w] = t] /\ UNCHANGED <<db, pc, local>>
        BY <2>1 DEF Begin, MayStart, Execute
      <3>2. Local(w) /\ head[w] \in Cands
        BY <3>1 DEF StageInv, Local, Position, AtWork
      <3>3. ~ Restorable(known[w][head[w]])
        BY <3>1, <3>2 DEF Local, InBudget, Startable
      <3>4. t \in [cand : Cands, state : States, add : {0, 1}] /\ t.cand = head[w]
        BY <3>2 DEF States
      <3> QED BY <3>1, <3>3, <3>4
    <2>2. CASE Finish(w)
      <3> DEFINE t == [cand |-> head[w], state |-> LastDiag(w, head[w]), add |-> 0]
      <3>1. /\ pc[w] = "settle" /\ owner = w
            /\ tx' = [tx EXCEPT ![w] = t] /\ UNCHANGED <<db, pc, local>>
        BY <2>2 DEF Finish, MayFinish, Execute
      <3>2. Local(w) /\ head[w] \in Cands /\ head[w] \notin todo[w]
        BY <3>1 DEF StageInv, Local, Position, AtWork
      <3>3. ~ Restorable(known[w][head[w]])
        BY <3>1, <3>2 DEF Local, Attempted, Restorable, Final, Retryable
      <3>4. diag[w][head[w]] \in Seq(Dispositions) /\ Len(diag[w][head[w]]) <= 1
            /\ diag[w][head[w]] # <<>>
        BY <3>1, <3>2, Typed DEF Local, Diagnosed, Open, Looping
      <3>5. LastDiag(w, head[w]) = diag[w][head[w]][1] /\ LastDiag(w, head[w]) \in Dispositions
        BY <3>4, ShortSequence DEF LastDiag
      <3>6. t \in [cand : Cands, state : States, add : {0, 1}] /\ t.cand = head[w]
        BY <3>2, <3>5 DEF States
      <3> QED BY <3>1, <3>3, <3>4, <3>5, <3>6
    <2>3. CASE \E c \in Cands : Prefetch(w, c)
      <3>1. PICK c \in Cands : Prefetch(w, c)
        BY <2>3
      <3> DEFINE t == [cand |-> c, state |-> "running", add |-> 1]
      <3>2. /\ pc[w] = "sweep" /\ owner = w /\ c \in Upcoming(w)
            /\ tx' = [tx EXCEPT ![w] = t] /\ UNCHANGED <<db, pc, local>>
        BY <3>1 DEF Prefetch, MayStart, Execute, IsFirst
      <3>3. /\ c \in todo[w] /\ task[w][c] = "none"
            /\ repairing[w] = {} => ~ Restorable(known[w][c])
        BY <3>2 DEF Upcoming
      <3>4. Local(w) /\ c \notin begun[w]
        BY <3>3 DEF StageInv, Local, Attempted
      <3>5. ~ Restorable(known[w][c])
        BY <3>3, <3>4, Typed DEF Local, Position, InBudget, Startable
      <3>6. t \in [cand : Cands, state : States, add : {0, 1}] /\ t.cand = c
        BY DEF States
      <3> QED BY <3>2, <3>3, <3>4, <3>5, <3>6
    <2> QED BY <2>1, <2>2, <2>3
  <1>2. Local(w) /\ tx'[w] = t /\ \A v \in Workers \ {w} : tx'[v] = tx[v]
    BY <1>1 DEF StageInv, TypeOK
  <1>3. TypeOK'
    BY <1>1 DEF StageInv, TypeOK, db, local
  <1>4. Position(w)' /\ Attempted(w)' /\ Diagnosed(w)' /\ Settled(w)' /\ InBudget(w)'
    BY <1>1, <1>2 DEF Local, Position, Attempted, Diagnosed, Open, Settled, InBudget, Startable, Loaded,
      Looping, db, local
  <1>5. Writing(w)'
    BY <1>1, <1>2 DEF Writing, db, local
  <1>6. Exact(w)'
    BY <1>1, <1>2 DEF Local, Exact, local
  <1>7. \A v \in Workers \ {w} : Same(v)
    BY <1>1, <1>2 DEF Same, local
  <1> QED BY <1>3, <1>4, <1>5, <1>6, <1>7 DEF Local

\* PrefetchFails and Evaluate: the current candidate gets its diagnostic.
LEMMA DiagnoseKeeps ==
  ASSUME StageInv, NEW w \in Workers, PrefetchFails(w) \/ Evaluate(w)
  PROVE  TypeOK' /\ Local(w)' /\ \A v \in Workers \ {w} : Same(v)
  <1>1. PICK d \in Dispositions, n \in [Counters -> Nat] :
          /\ pc[w] = "sweep" /\ tx[w] = NoTx
          /\ diag' = [diag EXCEPT ![w][head[w]] = Append(@, d)]
          /\ counts' = [counts EXCEPT ![w] = n]
          /\ \A k \in Counters : n[k] >= Plus(counts[w], d)[k]
          /\ ~ RankerFails => n = Plus(counts[w], d)
          /\ \/ UNCHANGED task
             \/ task' = [task EXCEPT ![w][head[w]] = "none"]
          /\ pc' = [pc EXCEPT ![w] = "settle"]
          /\ UNCHANGED <<db, tx, known, round, todo, head, begun, repairing>>
    <2>1. "internal" \in Dispositions /\ Outcomes \subseteq Dispositions
      BY StageAssumption DEF Dispositions, Retryable
    <2>2. ASSUME NEW d \in Dispositions
          PROVE  /\ Plus(counts[w], d) \in [Counters -> Nat]
                 /\ \A k \in Counters : Plus(counts[w], d)[k] >= Plus(counts[w], d)[k]
      <3>1. Plus(counts[w], d) \in [Counters -> Nat]
        BY Typed DEF Plus
      <3> QED BY <3>1
    <2>3. /\ Rejected(counts[w]) \in [Counters -> Nat]
          /\ \A k \in Counters : Rejected(counts[w])[k] >= Plus(counts[w], "internal")[k]
      <3> DEFINE m == Plus(counts[w], "internal")
      <3>1. m \in [Counters -> Nat]
        BY <2>1, <2>2
      <3>2. Rejected(counts[w]) = [m EXCEPT !["ready"] = m["ready"] + 1]
        BY DEF Rejected
      <3>3. "ready" \in Counters
        BY DEF Counters
      <3> HIDE DEF m
      <3>4. /\ Rejected(counts[w]) \in [Counters -> Nat]
            /\ \A k \in Counters : Rejected(counts[w])[k] >= m[k]
        BY <3>1, <3>2, <3>3
      <3> QED BY <3>4 DEF m
    <2>4. CASE \E d \in Dispositions : Diagnose(w, head[w], d)
      <3>1. PICK d \in Dispositions :
              /\ diag' = [diag EXCEPT ![w][head[w]] = Append(@, d)]
              /\ counts' = [counts EXCEPT ![w] = Plus(counts[w], d)]
        BY <2>4 DEF Diagnose
      <3> QED BY <2>2, <3>1 DEF PrefetchFails, Evaluate
    <2>5. CASE RankerFails /\ Reject(w, head[w])
      <3>1. /\ diag' = [diag EXCEPT ![w][head[w]] = Append(@, "internal")]
            /\ counts' = [counts EXCEPT ![w] = Rejected(counts[w])]
        BY <2>5 DEF Reject
      <3> QED BY <2>1, <2>3, <2>5, <3>1 DEF PrefetchFails, Evaluate
    <2>6. (\E d \in Dispositions : Diagnose(w, head[w], d)) \/ (RankerFails /\ Reject(w, head[w]))
      BY <2>1, StageAssumption DEF PrefetchFails, Evaluate
    <2> QED BY <2>4, <2>5, <2>6
  <1>2. Local(w) /\ head[w] \in Cands /\ head[w] \notin todo[w]
    BY <1>1 DEF StageInv, Local, Position, AtWork
  <1>3. /\ pc'[w] = "settle" /\ counts'[w] = n
        /\ diag'[w] = [diag[w] EXCEPT ![head[w]] = Append(@, d)]
        /\ \A x \in Cands \ {head[w]} : task'[w][x] = task[w][x]
    BY <1>1, <1>2 DEF StageInv, TypeOK
  <1>4. diag[w][head[w]] = <<>> /\ head[w] \notin begun[w]
    BY <1>1, <1>2 DEF Local, Diagnosed, Open, Attempted, Looping
  <1>5. /\ diag'[w][head[w]] = Append(<<>>, d)
        /\ \A x \in Cands \ {head[w]} : diag'[w][x] = diag[w][x]
    BY <1>2, <1>3, <1>4, Typed
  <1>6. Len(diag'[w][head[w]]) = 1 /\ diag'[w][head[w]] # <<>>
    BY <1>5, OneDiagnostic
  <1>7. TypeOK'
    <2>1. counts' \in [Workers -> [Counters -> Nat]]
      BY <1>1 DEF StageInv, TypeOK
    <2>2. task' \in [Workers -> [Cands -> {"none", "running", "done"}]]
      <3>1. CASE UNCHANGED task
        BY <3>1 DEF StageInv, TypeOK
      <3>2. CASE task' = [task EXCEPT ![w][head[w]] = "none"]
        BY <1>2, <3>2 DEF StageInv, TypeOK
      <3> QED BY <1>1, <3>1, <3>2
    <2>3. diag' \in [Workers -> [Cands -> Seq(Dispositions)]]
      BY <1>1, <1>2 DEF StageInv, TypeOK
    <2> QED
      BY <1>1, <2>1, <2>2, <2>3 DEF StageInv, TypeOK, db, Looping
  <1>8. Position(w)' /\ Writing(w)' /\ InBudget(w)'
    BY <1>1, <1>2, <1>3, Typed DEF Local, Position, Writing, InBudget, Startable, Looping, AtWork, db
  <1>9. Attempted(w)'
    BY <1>1, <1>2, <1>3, <1>4, Typed DEF Local, Attempted
  <1>10. Diagnosed(w)'
    <2>1. ASSUME NEW x \in Cands
          PROVE  Len(diag'[w][x]) <= 1 /\ (diag'[w][x] = <<>> <=> Open(w, x)')
      <3>1. CASE x = head[w]
        <4>1. ~ Open(w, x)'
          BY <1>1, <1>2, <1>3, <3>1, Typed DEF Open
        <4>2. Len(diag'[w][x]) = 1 /\ diag'[w][x] # <<>>
          BY <1>6, <3>1
        <4> QED BY <4>1, <4>2
      <3>2. CASE x # head[w]
        <4>1. Open(w, x) <=> Open(w, x)'
          BY <1>1, <1>3, <3>2 DEF Open
        <4> QED BY <1>1, <1>2, <1>5, <3>2, <4>1 DEF Local, Diagnosed, Looping
      <3> QED BY <3>1, <3>2
    <2> QED BY <2>1 DEF Diagnosed
  <1>11. Settled(w)'
    BY <1>1, <1>2, <1>3, <1>5, Typed DEF Local, Settled, Loaded, Looping
  <1>12. Exact(w)'
    BY <1>1, <1>2, <1>3, <1>4, OneMore DEF Local
  <1>13. \A v \in Workers \ {w} : Same(v)
    BY <1>1, <1>2 DEF StageInv, TypeOK, Same
  <1> QED BY <1>7, <1>8, <1>9, <1>10, <1>11, <1>12, <1>13 DEF Local

(* Wait changes no diagnostic and no row.                                    *)
LEMMA WaitKeeps ==
  ASSUME StageInv, NEW w \in Workers, Wait(w)
  PROVE  TypeOK' /\ Local(w)' /\ \A v \in Workers \ {w} : Same(v)
  <1>1. /\ pc[w] = "sweep" /\ tx[w] = NoTx
        /\ pc' = [pc EXCEPT ![w] = "wait"] /\ pc'[w] = "wait"
        /\ UNCHANGED <<db, tx, local>>
    BY DEF StageInv, TypeOK, Wait
  <1>2. Local(w)
    BY DEF StageInv
  <1>3. TypeOK'
    BY <1>1 DEF StageInv, TypeOK, db, local, Looping
  <1>4. Position(w)' /\ Attempted(w)' /\ Settled(w)' /\ InBudget(w)' /\ Writing(w)'
    BY <1>1, <1>2 DEF Local, Position, Attempted, Settled, InBudget, Startable, Writing, Loaded, Looping,
      AtWork, db, local
  <1>5. Diagnosed(w)'
    BY <1>1, <1>2 DEF Local, Diagnosed, Open, Looping, local
  <1>6. Exact(w)'
    BY <1>1, <1>2 DEF Local, Exact, local
  <1>7. \A v \in Workers \ {w} : Same(v)
    BY <1>1 DEF StageInv, TypeOK, Same, local
  <1> QED BY <1>3, <1>4, <1>5, <1>6, <1>7 DEF Local

(* Acquired: an acquisition that ends changes neither rows nor counts.       *)
LEMMA AcquiredKeeps ==
  ASSUME StageInv, NEW w \in Workers, NEW c \in Cands, Acquired(w, c)
  PROVE  TypeOK' /\ Local(w)' /\ \A v \in Workers \ {w} : Same(v)
  <1>1. /\ task' = [task EXCEPT ![w][c] = "done"]
        /\ pc' = [pc EXCEPT ![w] = IF @ = "wait" THEN "sweep" ELSE @]
        /\ pc'[w] = IF pc[w] = "wait" THEN "sweep" ELSE pc[w]
        /\ UNCHANGED <<db, tx, known, round, todo, head, begun, repairing, diag, counts>>
    BY DEF StageInv, TypeOK, Acquired
  <1>2. Local(w)
    BY DEF StageInv
  <1>3. \A x \in Cands : task[w][x] # "none" => task'[w][x] # "none"
    BY <1>1, Typed DEF StageInv, TypeOK
  <1>4. TypeOK'
    <2>1. task' \in [Workers -> [Cands -> {"none", "running", "done"}]]
      BY <1>1 DEF StageInv, TypeOK
    <2>2. pc' \in [Workers -> {"off", "claimed", "ended", "stopped"} \cup Looping]
      BY <1>1 DEF StageInv, TypeOK, Looping
    <2> QED BY <1>1, <2>1, <2>2 DEF StageInv, TypeOK, db
  <1>5. Attempted(w)'
    BY <1>1, <1>2, <1>3, Typed DEF Local, Attempted
  <1>6. Position(w)' /\ Settled(w)' /\ InBudget(w)'
    BY <1>1, <1>2 DEF Local, Position, Settled, InBudget, Startable, Loaded, Looping, AtWork, db
  <1>7. Writing(w)'
    BY <1>1, <1>2 DEF Local, Writing, db
  <1>8. Diagnosed(w)'
    BY <1>1, <1>2 DEF Local, Diagnosed, Open, Looping
  <1>9. Exact(w)'
    BY <1>1, <1>2 DEF Local, Exact
  <1>10. \A v \in Workers \ {w} : Same(v)
    BY <1>1 DEF StageInv, TypeOK, Same
  <1> QED BY <1>4, <1>5, <1>6, <1>7, <1>8, <1>9, <1>10 DEF Local

\* A write commits: what the row and the copy become.
LEMMA CommitWrites ==
  ASSUME StageInv, NEW w \in Workers, Commit(w), NEW c, c = tx[w].cand
  PROVE  /\ Local(w) /\ c \in Cands /\ ~ Restorable(known[w][c])
         /\ ~ Stalls => owner = w
         /\ Written(row[c], tx[w]) \in Rows /\ Written(known[w][c], tx[w]) \in Rows
         /\ row' = [row EXCEPT ![c] = Written(@, tx[w])]
         /\ known' = [known EXCEPT ![w][c] = Written(@, tx[w])]
         /\ known'[w][c] = [state |-> tx[w].state, attempts |-> known[w][c].attempts + tx[w].add]
         /\ \A x \in Cands \ {c} : known'[w][x] = known[w][x]
         /\ tx' = [tx EXCEPT ![w] = NoTx] /\ tx'[w] = NoTx
         /\ pc[w] \in {"begin", "sweep", "settle"}
         /\ UNCHANGED <<owner, cancelled, claims, round, todo, diag, counts>>
  <1>1. /\ tx[w] # NoTx
        /\ row' = [row EXCEPT ![c] = Written(@, tx[w])]
        /\ known' = [known EXCEPT ![w][c] = Written(@, tx[w])]
        /\ tx' = [tx EXCEPT ![w] = NoTx]
        /\ UNCHANGED <<owner, cancelled, claims, round, todo, diag, counts>>
    BY DEF Commit
  <1>2. Local(w) /\ c \in Cands /\ ~ Restorable(known[w][c]) /\ (~ Stalls => owner = w)
        /\ pc[w] \in {"begin", "sweep", "settle"}
    BY <1>1 DEF StageInv, Local, Writing
  <1>3. tx[w].state \in States /\ tx[w].add \in Nat
    <2>1. tx[w] \in [cand : Cands \cup {NoCand}, state : States, add : {0, 1}]
      BY DEF StageInv, TypeOK
    <2> QED BY <2>1
  <1>4. row[c] \in Rows /\ known[w][c] \in Rows
    BY <1>2, Typed
  <1>5. Written(row[c], tx[w]) \in Rows /\ Written(known[w][c], tx[w]) \in Rows
    BY <1>3, <1>4 DEF Written, Rows
  <1>6. /\ known'[w][c] = Written(known[w][c], tx[w]) /\ tx'[w] = NoTx
        /\ \A x \in Cands \ {c} : known'[w][x] = known[w][x]
    BY <1>1, <1>2 DEF StageInv, TypeOK
  <1> QED BY <1>1, <1>2, <1>5, <1>6 DEF Written

(* Commit: a row is written and the worker's knowledge of it with it.        *)
LEMMA CommitKeeps ==
  ASSUME StageInv, NEW w \in Workers, Commit(w)
  PROVE  TypeOK' /\ Local(w)' /\ \A v \in Workers \ {w} : Same(v)
  <1> DEFINE c == tx[w].cand
  <1>1. /\ Local(w) /\ c \in Cands /\ ~ Restorable(known[w][c])
        /\ Written(row[c], tx[w]) \in Rows /\ Written(known[w][c], tx[w]) \in Rows
        /\ row' = [row EXCEPT ![c] = Written(@, tx[w])]
        /\ known' = [known EXCEPT ![w][c] = Written(@, tx[w])]
        /\ known'[w][c] = [state |-> tx[w].state, attempts |-> known[w][c].attempts + tx[w].add]
        /\ \A x \in Cands \ {c} : known'[w][x] = known[w][x]
        /\ tx' = [tx EXCEPT ![w] = NoTx] /\ tx'[w] = NoTx
        /\ UNCHANGED <<owner, cancelled, claims, round, todo, diag, counts>>
    BY CommitWrites
  <1>2. /\ NoTx \in [cand : Cands \cup {NoCand}, state : States, add : {0, 1}]
        /\ head[w] \in Cands /\ head[w] \notin todo[w]
    <2>1. pc[w] \in {"begin", "sweep", "settle"}
      BY CommitWrites
    <2> QED BY <1>1, <2>1 DEF NoTx, States, Local, Position, AtWork
  <1>3. /\ tx' \in [Workers -> [cand : Cands \cup {NoCand}, state : States, add : {0, 1}]]
        /\ known' \in [Workers -> [Cands -> Rows]] /\ row' \in [Cands -> Rows]
        /\ \A v \in Workers \ {w} : tx'[v] = tx[v] /\ known'[v] = known[v]
    BY <1>1, <1>2 DEF StageInv, TypeOK
  <1>4. Writing(w)' /\ Exact(w)'
    BY <1>1 DEF Local, Writing, Exact
  <1>5. CASE pc[w] = "settle"
    <2>1. /\ pc' = [pc EXCEPT ![w] = "next"] /\ pc'[w] = "next"
          /\ repairing' = [repairing EXCEPT ![w] = @ \ {c}] /\ repairing'[w] = repairing[w] \ {c}
          /\ head' = [head EXCEPT ![w] = NoCand] /\ head'[w] = NoCand
          /\ begun' = begun /\ task' = task
      BY <1>5 DEF Commit, StageInv, TypeOK
    <2>2. /\ c = head[w] /\ diag[w][c] # <<>>
          /\ tx[w] = [cand |-> c, state |-> diag[w][c][1], add |-> 0]
          /\ c \notin begun[w]
      BY <1>1, <1>2, <1>5 DEF Commit, Local, Writing, Attempted
    <2>3. known'[w][c].state = diag[w][c][1]
      BY <1>1, <2>2
    <2>4. TypeOK'
      BY <1>1, <1>3, <2>1 DEF StageInv, TypeOK, Looping
    <2>5. Position(w)'
      BY <1>1, <1>2, <2>1, Typed DEF Local, Position, Looping, AtWork
    <2>6. Attempted(w)'
      BY <1>1, <1>5, <2>1, <2>2, Typed DEF Local, Attempted
    <2>7. Diagnosed(w)'
      BY <1>1, <1>5, <2>1, <2>2, Typed DEF Local, Diagnosed, Open, Looping
    <2>8. Settled(w)'
      BY <1>1, <1>5, <2>1, <2>2, <2>3, Typed DEF Local, Settled, Loaded, Looping
    <2>9. InBudget(w)'
      BY <1>1, <1>2, <1>5, <2>1, <2>2, Typed DEF Local, InBudget, Startable
    <2>10. \A v \in Workers \ {w} : Same(v)
      BY <1>1, <1>3, <2>1 DEF StageInv, TypeOK, Same
    <2> QED BY <1>4, <2>4, <2>5, <2>6, <2>7, <2>8, <2>9, <2>10 DEF Local
  <1>6. CASE pc[w] # "settle"
    <2>1. /\ Launch(w, c)
          /\ pc' = [pc EXCEPT ![w] = "sweep"] /\ pc'[w] = "sweep"
          /\ begun' = [begun EXCEPT ![w] = IF pc[w] = "sweep" THEN @ \cup {c} ELSE @]
          /\ begun'[w] = IF pc[w] = "sweep" THEN begun[w] \cup {c} ELSE begun[w]
          /\ repairing' = repairing /\ head' = head
      BY <1>6 DEF Commit, StageInv, TypeOK
    <2>2. /\ tx[w] = [cand |-> c, state |-> "running", add |-> 1]
          /\ \/ pc[w] = "begin" /\ c = head[w] /\ c \notin begun[w]
             \/ pc[w] = "sweep" /\ c \in todo[w] /\ c \notin begun[w]
      BY <1>1, <1>6 DEF Commit, Local, Writing
    <2>3. known'[w][c].state = "running"
      BY <1>1, <2>2
    <2>4. /\ task' = [task EXCEPT ![w][c] = IF @ = "none" THEN "running" ELSE @]
          /\ task' \in [Workers -> [Cands -> {"none", "running", "done"}]]
          /\ task'[w][c] # "none"
          /\ \A x \in Cands : task[w][x] # "none" => task'[w][x] # "none"
      BY <1>1, <2>1 DEF Launch, StageInv, TypeOK
    <2>5. TypeOK'
      <3>1. begun' \in [Workers -> SUBSET Cands]
        BY <1>1, <2>1 DEF StageInv, TypeOK
      <3> QED BY <1>1, <1>3, <2>1, <2>4, <3>1 DEF StageInv, TypeOK, Looping
    <2>6. Position(w)'
      BY <1>1, <1>2, <2>1, <2>2, Typed DEF Local, Position, Looping, AtWork
    <2>7. Attempted(w)'
      BY <1>1, <1>2, <2>1, <2>2, <2>3, <2>4, Typed DEF Local, Attempted
    <2>8. \A x \in Cands : Open(w, x)' <=> Open(w, x)
      BY <1>1, <2>1, <2>2 DEF Open
    <2>9. Diagnosed(w)'
      BY <1>1, <2>1, <2>2, <2>8 DEF Local, Diagnosed, Looping
    <2>10. pc[w] = "begin" => diag[w][head[w]] = <<>>
      BY <1>1, <1>2 DEF Local, Diagnosed, Open, Looping
    <2>11. Settled(w)'
      <3>1. ASSUME NEW x \in Cands, x \notin begun'[w], diag[w][x] # <<>>
            PROVE  diag[w][x][1] = known'[w][x].state
        <4>1. x # c /\ x \notin begun[w]
          BY <2>1, <2>2, <2>10, <3>1
        <4>2. diag[w][x][1] = known[w][x].state
          BY <1>1, <1>6, <2>2, <3>1, <4>1 DEF Local, Settled, Loaded, Looping
        <4> QED BY <1>1, <4>1, <4>2
      <3> QED BY <1>1, <3>1 DEF Settled
    <2>12. InBudget(w)'
      BY <1>1, <1>2, <2>1, <2>2, Typed DEF Local, InBudget, Startable
    <2>13. \A v \in Workers \ {w} : Same(v)
      BY <1>1, <1>3, <2>1, <2>4 DEF StageInv, TypeOK, Same
    <2> QED BY <1>4, <2>5, <2>6, <2>7, <2>9, <2>11, <2>12, <2>13 DEF Local
  <1> QED BY <1>5, <1>6

-----------------------------------------------------------------------------
(* What the workers share.                                                 *)

\* A write of the owner changes its copy and the row alike, within the budget.
LEMMA CommitShared ==
  ASSUME ~ Stalls, StageInv, NEW w \in Workers, Commit(w)
  PROVE  /\ Shared'
         /\ \A c \in Cands : Restorable(row[c]) => row'[c] = row[c]
  <1> DEFINE c == tx[w].cand
  <1>1. /\ Local(w) /\ owner = w /\ owner' = w /\ claims' = claims
        /\ c \in Cands /\ ~ Restorable(known[w][c])
        /\ row' = [row EXCEPT ![c] = Written(@, tx[w])]
        /\ known' = [known EXCEPT ![w][c] = Written(@, tx[w])]
        /\ tx[w] # NoTx /\ pc[w] \in {"begin", "sweep", "settle"}
    BY CommitWrites DEF Commit
  <1>2. known[w] = row
    BY <1>1 DEF StageInv, Shared, OwnerKnowsRows, Loaded, Looping
  <1>3. known'[w] = row'
    <2>1. known'[w] = [known[w] EXCEPT ![c] = Written(@, tx[w])]
      BY <1>1 DEF StageInv, TypeOK
    <2> QED BY <1>1, <1>2, <2>1
  <1>4. pc'[w] \in {"next", "sweep"}
    BY DEF Commit, StageInv, TypeOK
  <1>5. OwnerKnowsRows' /\ Room'
    BY <1>1, <1>3, <1>4 DEF OwnerKnowsRows, Room
  <1>6. row[c].attempts + tx[w].add < MaxAttempts + claims
    <2>1. row[c].attempts \in Nat /\ row[c].attempts < MaxAttempts + claims
      BY <1>1, Typed DEF StageInv, Shared, BudgetHolds, Rows
    <2>2. CASE tx[w].add = 0
      BY <2>1, <2>2
    <2>3. CASE tx[w].add # 0
      <3>1. tx[w].add = 1 /\ Startable(w, c)
        BY <1>1, <2>3 DEF Local, Writing, Startable
      <3> QED BY <1>1, <1>2, <3>1 DEF Local, InBudget
    <2> QED BY <2>2, <2>3
  <1>7. BudgetHolds'
    <2>1. row'[c].attempts = row[c].attempts + tx[w].add
      BY <1>1, Typed DEF Written
    <2>2. \A x \in Cands \ {c} : row'[x] = row[x]
      BY <1>1, Typed
    <2> QED BY <1>1, <1>6, <2>1, <2>2 DEF StageInv, Shared, BudgetHolds
  <1>8. \A x \in Cands : Restorable(row[x]) => row'[x] = row[x]
    BY <1>1, <1>2, Typed
  <1> QED BY <1>5, <1>7, <1>8 DEF Shared

(* A step that writes no row and leaves the run with its owner keeps what    *)
(* the workers share.                                                        *)
LEMMA SharedStays ==
  ASSUME Shared, NEW w \in Workers,
         row' = row, owner' = owner, claims' = claims,
         \A v \in Workers \ {w} : Same(v),
         pc'[w] = "claimed" => pc[w] = "claimed",
         owner = w /\ Loaded(w)' => known'[w] = row
  PROVE  Shared'
  <1>1. OwnerKnowsRows'
    BY DEF Shared, OwnerKnowsRows, Loaded, Same
  <1>2. Room'
    BY DEF Shared, Room, Same
  <1>3. BudgetHolds'
    BY DEF Shared, BudgetHolds
  <1> QED BY <1>1, <1>2, <1>3 DEF Shared

\* A step of a worker, other than taking the run.
LEMMA WorkerKeeps ==
  ASSUME StageInv, NEW w \in Workers, Crash(w) \/ WorkerStep(w)
  PROVE  /\ TypeOK' /\ Local(w)' /\ \A v \in Workers \ {w} : Same(v)
         /\ (~ Stalls => Shared') /\ owner' = owner /\ claims' = claims
         /\ ~ Stalls => \A c \in Cands : Restorable(row[c]) => row'[c] = row[c]
  <1>1. CASE Load(w)
    <2>1. /\ row' = row /\ owner' = owner /\ claims' = claims
          /\ pc'[w] = "next" /\ known'[w] = row
      BY <1>1 DEF Load, db, StageInv, TypeOK
    <2> QED BY <1>1, <2>1, LoadKeeps, SharedStays DEF StageInv
  <1>2. CASE Commit(w)
    <2>1. owner' = owner /\ claims' = claims
      BY <1>2 DEF Commit
    <2> QED BY <1>2, <2>1, CommitKeeps, CommitShared
  <1>3. CASE Crash(w) \/ Refused(w)
    <2>1. row' = row /\ owner' = owner /\ claims' = claims /\ pc'[w] = "off"
      BY <1>3, Dropped DEF Crash, Refused, db
    <2>2. ~ Loaded(w)'
      BY <2>1 DEF Loaded, Looping
    <2> QED BY <1>3, <2>1, <2>2, GoneKeeps, SharedStays DEF StageInv
  <1>4. ASSUME row' = row, owner' = owner, claims' = claims, known' = known,
               pc'[w] # "claimed", Loaded(w)' => Loaded(w),
               TypeOK' /\ Local(w)' /\ \A v \in Workers \ {w} : Same(v)
        PROVE  /\ ~ Stalls => Shared'
               /\ ~ Stalls => \A c \in Cands : Restorable(row[c]) => row'[c] = row[c]
    BY <1>4, SharedStays DEF StageInv, Shared, OwnerKnowsRows
  <1>5. CASE Stop(w) \/ End(w)
    <2>1. /\ row' = row /\ owner' = owner /\ claims' = claims /\ known' = known
          /\ pc[w] = "next" /\ pc'[w] \in {"ended", "stopped"}
      BY <1>5, Dropped DEF Stop, End, db
    <2> QED BY <1>4, <1>5, <2>1, LeavingKeeps DEF Loaded, Looping
  <1>6. CASE NextPass(w)
    <2>1. /\ row' = row /\ owner' = owner /\ claims' = claims /\ known' = known
          /\ pc[w] = "next" /\ pc' = pc
      BY <1>6 DEF NextPass, db
    <2> QED BY <1>4, <1>6, <2>1, NextPassKeeps DEF Loaded, Looping
  <1>7. ASSUME NEW c \in Cands, Restore(w, c)
        PROVE  /\ TypeOK' /\ Local(w)' /\ \A v \in Workers \ {w} : Same(v)
               /\ (~ Stalls => Shared') /\ owner' = owner /\ claims' = claims
               /\ ~ Stalls => \A x \in Cands : Restorable(row[x]) => row'[x] = row[x]
    <2>1. /\ row' = row /\ owner' = owner /\ claims' = claims /\ known' = known
          /\ pc[w] = "next" /\ pc' = pc
      BY <1>7 DEF Restore, db
    <2> QED BY <1>4, <1>7, <2>1, RestoreKeeps DEF Loaded, Looping
  <1>8. ASSUME NEW c \in Cands, Take(w, c) \/ TakeRepair(w, c)
        PROVE  /\ TypeOK' /\ Local(w)' /\ \A v \in Workers \ {w} : Same(v)
               /\ (~ Stalls => Shared') /\ owner' = owner /\ claims' = claims
               /\ ~ Stalls => \A x \in Cands : Restorable(row[x]) => row'[x] = row[x]
    <2>1. /\ row' = row /\ owner' = owner /\ claims' = claims /\ known' = known
          /\ pc[w] = "next" /\ pc'[w] = "begin"
      BY <1>8 DEF Take, TakeRepair, db, StageInv, TypeOK
    <2> QED BY <1>4, <1>8, <2>1, TakeKeeps, TakeRepairKeeps DEF Loaded, Looping
  <1>9. CASE BeginPrefetched(w)
    <2>1. /\ row' = row /\ owner' = owner /\ claims' = claims /\ known' = known
          /\ pc[w] = "begin" /\ pc'[w] = "sweep"
      BY <1>9 DEF BeginPrefetched, db, StageInv, TypeOK
    <2> QED BY <1>4, <1>9, <2>1, BeginPrefetchedKeeps DEF Loaded, Looping
  <1>10. CASE Begin(w) \/ Finish(w) \/ \E c \in Cands : Prefetch(w, c)
    <2>1. /\ row' = row /\ owner' = owner /\ claims' = claims /\ known' = known
          /\ pc[w] \in {"begin", "settle", "sweep"} /\ pc' = pc
      BY <1>10 DEF Begin, Finish, Prefetch, db, local
    <2> QED BY <1>4, <1>10, <2>1, ExecuteKeeps DEF Loaded, Looping
  <1>11. CASE PrefetchFails(w) \/ Evaluate(w)
    <2>1. /\ row' = row /\ owner' = owner /\ claims' = claims /\ known' = known
          /\ pc[w] = "sweep" /\ pc'[w] = "settle"
      BY <1>11 DEF PrefetchFails, Evaluate, db, StageInv, TypeOK
    <2> QED BY <1>4, <1>11, <2>1, DiagnoseKeeps DEF Loaded, Looping
  <1>12. CASE Wait(w)
    <2>1. /\ row' = row /\ owner' = owner /\ claims' = claims /\ known' = known
          /\ pc[w] = "sweep" /\ pc'[w] = "wait"
      BY <1>12 DEF Wait, db, local, StageInv, TypeOK
    <2> QED BY <1>4, <1>12, <2>1, WaitKeeps DEF Loaded, Looping
  <1>13. ASSUME NEW c \in Cands, Acquired(w, c)
         PROVE  /\ TypeOK' /\ Local(w)' /\ \A v \in Workers \ {w} : Same(v)
                /\ (~ Stalls => Shared') /\ owner' = owner /\ claims' = claims
                /\ ~ Stalls => \A x \in Cands : Restorable(row[x]) => row'[x] = row[x]
    <2>1. /\ row' = row /\ owner' = owner /\ claims' = claims /\ known' = known
          /\ pc'[w] = IF pc[w] = "wait" THEN "sweep" ELSE pc[w]
      BY <1>13 DEF Acquired, db, StageInv, TypeOK
    <2>2. Loaded(w)' => Loaded(w)
      BY <2>1 DEF Loaded, Looping
    <2>3. pc'[w] = "claimed" => pc[w] = "claimed"
      BY <2>1
    <2>4. TypeOK' /\ Local(w)' /\ \A v \in Workers \ {w} : Same(v)
      BY <1>13, AcquiredKeeps
    <2>5. ~ Stalls => Shared'
      BY <2>1, <2>2, <2>3, <2>4, SharedStays DEF StageInv, Shared, OwnerKnowsRows
    <2> QED BY <2>1, <2>4, <2>5
  <1> QED
    BY <1>1, <1>2, <1>3, <1>5, <1>6, <1>7, <1>8, <1>9, <1>10, <1>11, <1>12, <1>13
       DEF WorkerStep, LoopStep

\* Taking the run: every row has room for one more attempt, as the bound has
\* just grown by one.
LEMMA ClaimKeeps ==
  ASSUME StageInv, NEW w \in Workers, Claim(w)
  PROVE  StageInv' /\ row' = row
  <1>1. /\ pc[w] = "off" /\ owner = NoWorker /\ owner' = w /\ claims' = claims + 1
        /\ claims < MaxClaims
        /\ pc' = [pc EXCEPT ![w] = "claimed"] /\ pc'[w] = "claimed"
        /\ UNCHANGED <<cancelled, row, tx, local>>
    BY DEF Claim, StageInv, TypeOK
  <1>2. TypeOK'
    BY <1>1, StageAssumption DEF StageInv, TypeOK, local
  <1>3. \A v \in Workers \ {w} : Same(v)
    BY <1>1 DEF StageInv, TypeOK, Same, local
  <1>4. /\ tx[w] = NoTx
        /\ ~ Stalls => \A v \in Workers : tx[v] = NoTx
    BY <1>1, Typed DEF StageInv, Local, Writing
  <1>5. ASSUME NEW v \in Workers \ {w} PROVE Local(v)'
    BY <1>1, <1>3, <1>4, Typed, Elsewhere
  <1>6. Local(w)'
    <2>1. Local(w)
      BY DEF StageInv
    <2>2. Position(w)' /\ Attempted(w)' /\ Writing(w)'
      BY <1>1, <1>4, <2>1, Typed DEF Local, Position, Attempted, Writing, Looping, AtWork, local
    <2>3. Diagnosed(w)' /\ Settled(w)'
      BY <1>1, <2>1 DEF Local, Diagnosed, Settled, Loaded, Looping, local
    <2>4. InBudget(w)'
      BY <1>1, <2>1, Typed DEF Local, Position, InBudget, Startable, Looping, AtWork, local
    <2>5. Exact(w)'
      BY <1>1, <2>1 DEF Local, Exact, local
    <2> QED BY <2>2, <2>3, <2>4, <2>5 DEF Local
  <1>7. ASSUME ~ Stalls PROVE Shared'
    <2>1. \A c \in Cands : /\ row[c].attempts \in Nat
                          /\ row[c].attempts < MaxAttempts + claims
      BY <1>7, Typed DEF Rows, StageInv, Shared, BudgetHolds
    <2>2. \A c \in Cands : /\ row[c].attempts + 1 < MaxAttempts + claims'
                          /\ row[c].attempts < MaxAttempts + claims'
      BY <1>1, <2>1, Typed
    <2> QED BY <1>1, <2>2 DEF Shared, OwnerKnowsRows, Room, BudgetHolds, Loaded, Looping
  <1> QED BY <1>1, <1>2, <1>5, <1>6, <1>7 DEF StageInv

(* Every step of the stage keeps the invariant.                              *)
LEMMA StageStep ==
  ASSUME StageInv, [Next]_vars
  PROVE  /\ StageInv'
         /\ ~ Stalls => \A c \in Cands : Restorable(row[c]) => row'[c] = row[c]
  <1>1. CASE Expire
    <2>1. /\ owner \in Workers /\ owner' = NoWorker
          /\ ~ Stalls => tx[owner] = NoTx
          /\ UNCHANGED <<cancelled, claims, row, pc, tx, local>>
      BY <1>1 DEF Expire, StageInv, TypeOK
    <2>2. TypeOK'
      BY <2>1 DEF StageInv, TypeOK, local
    <2>3. ASSUME NEW v \in Workers PROVE Local(v)'
      <3>1. ~ Stalls => tx[v] = NoTx
        BY <2>1 DEF StageInv, Local, Writing
      <3>2. Same(v)
        BY <2>1 DEF Same, local
      <3> QED BY <2>1, <3>1, <3>2, Typed, Elsewhere
    <2>4. ~ Stalls => Shared'
      BY <2>1, Typed DEF StageInv, Shared, OwnerKnowsRows, Room, BudgetHolds
    <2> QED BY <2>1, <2>2, <2>3, <2>4 DEF StageInv
  <1>2. CASE RequestCancel \/ UNCHANGED vars
    <2>1. UNCHANGED <<owner, claims, row, pc, tx, local>> /\ cancelled' \in BOOLEAN
      BY <1>2 DEF RequestCancel, vars, db, StageInv, TypeOK
    <2>2. TypeOK'
      BY <2>1 DEF StageInv, TypeOK, local
    <2>3. ASSUME NEW v \in Workers PROVE Local(v)'
      <3>1. Same(v)
        BY <2>1 DEF Same, local
      <3> QED BY <2>1, <3>1, Typed, Elsewhere
    <2>4. ~ Stalls => Shared'
      BY <2>1 DEF StageInv, Shared, OwnerKnowsRows, Room, BudgetHolds, Loaded, local
    <2> QED BY <2>1, <2>2, <2>3, <2>4 DEF StageInv
  <1>3. ASSUME NEW w \in Workers, Claim(w)
        PROVE  StageInv' /\ row' = row
    BY <1>3, ClaimKeeps
  <1>4. ASSUME NEW w \in Workers, Crash(w) \/ WorkerStep(w)
        PROVE  /\ StageInv'
               /\ ~ Stalls => \A c \in Cands : Restorable(row[c]) => row'[c] = row[c]
    <2>1. /\ TypeOK' /\ Local(w)' /\ \A v \in Workers \ {w} : Same(v)
          /\ (~ Stalls => Shared') /\ owner' = owner /\ claims' = claims
          /\ ~ Stalls => \A c \in Cands : Restorable(row[c]) => row'[c] = row[c]
      BY <1>4, WorkerKeeps
    <2>2. ASSUME NEW v \in Workers PROVE Local(v)'
      <3>1. CASE v = w
        BY <2>1, <3>1
      <3>2. CASE v # w
        BY <2>1, <3>2, Typed, Elsewhere
      <3> QED BY <3>1, <3>2
    <2> QED BY <2>1, <2>2 DEF StageInv
  <1> QED BY <1>1, <1>2, <1>3, <1>4 DEF Next, Expire

-----------------------------------------------------------------------------
(* The look-ahead.  A failed prefetch leaves the acquisition of its         *)
(* candidate in flight with nobody to consume it before a repair pass, and  *)
(* _take_acquisition starts the current candidate's without asking whether  *)
(* there is room.  There is: the ones left behind are never as many as the  *)
(* bound, and a candidate that has to be started has none prefetched        *)
(* beyond it, because the look-ahead goes in order.                         *)

\* Acquisitions in flight that are neither prefetched nor the current one.
Current(w) == IF pc[w] \in {"sweep", "wait"} THEN {head[w]} ELSE {}
Left(w) == (InFlight(w) \ begun[w]) \ Current(w)

Bounds(w) ==
  /\ Cardinality(Running(w)) <= Concurrency
  /\ Cardinality(InFlight(w)) <= Lookahead
  /\ Cardinality(Left(w) \cap Running(w)) < Concurrency
  /\ Cardinality(Left(w)) < Lookahead

\* What is passed over by the look-ahead has its outcome.
AheadInOrder(w) ==
  \A c \in begun[w] \cap todo[w], d \in todo[w] :
    d < c /\ task[w][d] = "none" => Restorable(known[w][d])

NoneBeyond(w) ==
  pc[w] = "begin" /\ task[w][head[w]] = "none" => begun[w] = {}

\* A prefetch whose write is not committed still has its room.
HasRoom(w) ==
  tx[w] # NoTx /\ pc[w] = "sweep" =>
    /\ IsFirst(tx[w].cand, Upcoming(w))
    /\ Cardinality(InFlight(w)) < Lookahead
    /\ Cardinality(Running(w)) < Concurrency

Ahead(w) == Bounds(w) /\ AheadInOrder(w) /\ NoneBeyond(w) /\ HasRoom(w)

AheadInv == \A w \in Workers : Ahead(w)

(* Sets of candidates, counted.                                              *)
LEMMA Counted ==
  ASSUME NEW T \in SUBSET Cands
  PROVE  /\ Cardinality(T) \in Nat
         /\ \A S \in SUBSET T : Cardinality(S) \in Nat /\ Cardinality(S) <= Cardinality(T)
         /\ \A c \in Cands : Cardinality(T \cup {c}) <= Cardinality(T) + 1
  <1>1. IsFiniteSet(T)
    BY CandsFinite
  <1>2. ASSUME NEW S \in SUBSET T
        PROVE  Cardinality(S) \in Nat /\ Cardinality(S) <= Cardinality(T)
    BY <1>1, FS_Subset, FS_CardinalityType
  <1>3. ASSUME NEW c \in Cands PROVE Cardinality(T \cup {c}) <= Cardinality(T) + 1
    BY <1>1, FS_AddElement, FS_CardinalityType
  <1> QED BY <1>1, <1>2, <1>3, FS_CardinalityType

(* Fewer acquisitions, no more of them left behind.                          *)
LEMMA BoundsShrink ==
  ASSUME NEW w \in Workers, Bounds(w),
         InFlight(w)' \subseteq InFlight(w), Running(w)' \subseteq Running(w),
         Left(w)' \subseteq Left(w)
  PROVE  Bounds(w)'
  <1>1. /\ InFlight(w) \in SUBSET Cands /\ Running(w) \in SUBSET Cands
        /\ Left(w) \in SUBSET Cands /\ Left(w) \cap Running(w) \in SUBSET Cands
    BY DEF InFlight, Running, Left
  <1>2. (Left(w) \cap Running(w))' \subseteq Left(w) \cap Running(w)
    OBVIOUS
  <1>3. /\ Cardinality(Running(w)') \in Nat /\ Cardinality(Running(w)) \in Nat
        /\ Cardinality(Running(w)') <= Cardinality(Running(w))
    BY <1>1, Counted
  <1>4. /\ Cardinality(InFlight(w)') \in Nat /\ Cardinality(InFlight(w)) \in Nat
        /\ Cardinality(InFlight(w)') <= Cardinality(InFlight(w))
    BY <1>1, Counted
  <1>5. /\ Cardinality(Left(w)') \in Nat /\ Cardinality(Left(w)) \in Nat
        /\ Cardinality(Left(w)') <= Cardinality(Left(w))
    BY <1>1, Counted
  <1>6. /\ Cardinality((Left(w) \cap Running(w))') \in Nat
        /\ Cardinality(Left(w) \cap Running(w)) \in Nat
        /\ Cardinality((Left(w) \cap Running(w))') <= Cardinality(Left(w) \cap Running(w))
    BY <1>1, <1>2, Counted
  <1>7. Concurrency \in Nat /\ Lookahead \in Nat
    BY StageAssumption
  <1> QED BY <1>3, <1>4, <1>5, <1>6, <1>7 DEF Bounds

(* No worker has anything in flight at first.                                *)
LEMMA AheadInit == Init => AheadInv
  <1> SUFFICES ASSUME Init, NEW w \in Workers PROVE Ahead(w)
    BY DEF AheadInv
  <1>1. task[w] = NoTask /\ begun[w] = {} /\ tx[w] = NoTx
    BY DEF Init
  <1>2. InFlight(w) = {} /\ Running(w) = {} /\ Left(w) = {} /\ Left(w) \cap Running(w) = {}
    BY <1>1 DEF InFlight, Running, Left, NoTask
  <1>3. Bounds(w)
    BY <1>2, FS_EmptySet, StageAssumption DEF Bounds
  <1> QED BY <1>1, <1>3 DEF Ahead, AheadInOrder, NoneBeyond, HasRoom

(* Nor has one that leaves the stage.                                        *)
LEMMA AheadGone ==
  ASSUME NEW w \in Workers, Ahead(w),
         task'[w] = NoTask, begun'[w] = {}, tx'[w] = NoTx
  PROVE  Ahead(w)'
  <1>1. InFlight(w)' = {} /\ Running(w)' = {} /\ Left(w)' = {}
    BY DEF InFlight, Running, Left, NoTask
  <1>2. Bounds(w)'
    BY <1>1, BoundsShrink DEF Ahead
  <1> QED BY <1>2 DEF Ahead, AheadInOrder, NoneBeyond, HasRoom

(* The steps that leave the acquisitions alone: at most the next candidate   *)
(* becomes the current one.                                                  *)
LEMMA AheadQuiet ==
  ASSUME StageInv, NEW w \in Workers, Ahead(w),
         task'[w] = task[w], begun'[w] = begun[w], known'[w] = known[w],
         Left(w)' = Left(w),
         \/ todo'[w] \subseteq todo[w]
         \/ begun[w] = {},
         pc'[w] = "begin" =>
           \/ pc[w] = "begin" /\ head'[w] = head[w]
           \/ task[w][head'[w]] = "none" => begun[w] = {},
         tx'[w] = NoTx \/ pc'[w] # "sweep"
  PROVE  Ahead(w)'
  <1>1. Bounds(w)'
    BY BoundsShrink DEF Ahead, InFlight, Running
  <1>2. AheadInOrder(w)'
    BY DEF Ahead, AheadInOrder
  <1>3. NoneBeyond(w)'
    BY DEF Ahead, NoneBeyond
  <1>4. HasRoom(w)'
    BY DEF HasRoom
  <1> QED BY <1>1, <1>2, <1>3, <1>4 DEF Ahead

(* The next candidate, if it is not in flight, has none prefetched beyond it.*)
LEMMA FirstHasNoneBeyond ==
  ASSUME StageInv, NEW w \in Workers, NEW c \in Cands, Ahead(w),
         pc[w] = "next", IsFirst(c, todo[w]), ~ Restorable(known[w][c]),
         task[w][c] = "none"
  PROVE  begun[w] = {}
  <1>1. Local(w) /\ head[w] \notin todo[w] /\ begun[w] \subseteq Cands
    BY Typed DEF StageInv, Local, Position
  <1>2. ASSUME NEW d \in begun[w] PROVE FALSE
    <2>1. d \in todo[w] /\ task[w][d] # "none"
      BY <1>1 DEF Local, Attempted
    <2>2. c < d
      <3>1. c <= d /\ c # d /\ c \in Nat /\ d \in Nat
        BY <1>1, <2>1, Typed DEF IsFirst
      <3> QED BY <3>1
    <2> QED BY <2>1, <2>2 DEF IsFirst, Ahead, AheadInOrder
  <1> QED BY <1>2

(* The steps that go on with nothing new in flight.                          *)
LEMMA QuietSteps ==
  ASSUME StageInv, NEW w \in Workers, Ahead(w),
         \/ Load(w) \/ NextPass(w) \/ Wait(w) \/ Begin(w) \/ Finish(w)
         \/ \E c \in Cands : Restore(w, c)
  PROVE  Ahead(w)'
  <1>1. Local(w)
    BY DEF StageInv
  <1>2. task' = task /\ begun' = begun
    BY DEF Load, NextPass, Wait, Begin, Finish, Restore, local
  <1>3. CASE Load(w)
    <2>1. /\ begun[w] = {} /\ pc[w] = "claimed" /\ pc'[w] = "next"
      BY <1>1, <1>3 DEF Load, Local, Position, Looping, StageInv, TypeOK
    <2>2. Left(w)' = Left(w) /\ begun' = begun /\ task' = task
      BY <1>2, <2>1 DEF Left, Current, InFlight
    <2>3. InFlight(w)' = InFlight(w) /\ Running(w)' = Running(w)
      BY <1>2 DEF InFlight, Running
    <2>4. Bounds(w)'
      BY <2>2, <2>3, BoundsShrink DEF Ahead
    <2> QED BY <2>1, <2>2, <2>4 DEF Ahead, AheadInOrder, NoneBeyond, HasRoom
  <1>4. CASE NextPass(w)
    <2>1. /\ pc[w] = "next" /\ pc'[w] = "next" /\ todo[w] = {} /\ known' = known
      BY <1>4 DEF NextPass
    <2>2. begun[w] = {}
      BY <1>1, <2>1 DEF Local, Attempted
    <2>3. Left(w)' = Left(w)
      BY <1>2, <2>1 DEF Left, Current, InFlight
    <2> QED BY <1>2, <2>1, <2>2, <2>3, AheadQuiet
  <1>5. CASE Wait(w)
    <2>1. /\ pc[w] = "sweep" /\ pc'[w] = "wait" /\ todo' = todo /\ known' = known /\ head' = head
      BY <1>5 DEF Wait, local, StageInv, TypeOK
    <2>2. Left(w)' = Left(w)
      BY <1>2, <2>1 DEF Left, Current, InFlight
    <2> QED BY <1>2, <2>1, <2>2, AheadQuiet
  <1>6. CASE Begin(w) \/ Finish(w)
    <2>1. /\ pc[w] \in {"begin", "settle"} /\ pc' = pc
          /\ todo' = todo /\ known' = known /\ head' = head
      BY <1>6 DEF Begin, Finish, local
    <2>2. Left(w)' = Left(w)
      BY <1>2, <2>1 DEF Left, Current, InFlight
    <2> QED BY <1>2, <2>1, <2>2, AheadQuiet
  <1>7. ASSUME NEW c \in Cands, Restore(w, c) PROVE Ahead(w)'
    <2>1. /\ pc[w] = "next" /\ pc' = pc /\ todo'[w] \subseteq todo[w]
          /\ known' = known /\ head' = head
      BY <1>7 DEF Restore, StageInv, TypeOK
    <2>2. Left(w)' = Left(w)
      BY <1>2, <2>1 DEF Left, Current, InFlight
    <2> QED BY <1>2, <2>1, <2>2, AheadQuiet
  <1> QED BY <1>3, <1>4, <1>5, <1>6, <1>7

(* The next candidate becomes the current one.                               *)
LEMMA TakenSteps ==
  ASSUME StageInv, NEW w \in Workers, NEW c \in Cands, Ahead(w),
         Take(w, c) \/ TakeRepair(w, c)
  PROVE  Ahead(w)'
  <1>1. /\ task' = task /\ begun' = begun /\ known' = known
        /\ pc[w] = "next" /\ pc'[w] = "begin" /\ head'[w] = c
        /\ todo'[w] \subseteq todo[w] /\ IsFirst(c, todo[w])
    BY DEF Take, TakeRepair, StageInv, TypeOK
  <1>2. ~ Restorable(known[w][c])
    <2>1. CASE Take(w, c)
      BY <2>1 DEF Take
    <2>2. CASE TakeRepair(w, c)
      <3>1. round[w] > 0 /\ c \in todo[w]
        BY <2>2 DEF TakeRepair, IsFirst
      <3>2. Local(w)
        BY DEF StageInv
      <3>3. CASE c \in begun[w]
        <4>1. known[w][c].state = "running"
          BY <3>2, <3>3 DEF Local, Attempted
        <4> QED BY <4>1 DEF Restorable, Final, Retryable
      <3>4. CASE c \notin begun[w]
        BY <3>1, <3>2, <3>4 DEF Local, InBudget, Startable
      <3> QED BY <3>3, <3>4
    <2> QED BY <2>1, <2>2
  <1>3. task[w][c] = "none" => begun[w] = {}
    BY <1>1, <1>2, FirstHasNoneBeyond
  <1>4. Left(w)' = Left(w)
    BY <1>1 DEF Left, Current, InFlight
  <1> QED BY <1>1, <1>3, <1>4, AheadQuiet

(* The attempt of the current candidate was counted when it was prefetched.  *)
LEMMA PrefetchedBegins ==
  ASSUME StageInv, NEW w \in Workers, Ahead(w), BeginPrefetched(w)
  PROVE  Ahead(w)'
  <1>1. /\ pc[w] = "begin" /\ pc'[w] = "sweep" /\ tx[w] = NoTx /\ tx' = tx
        /\ head[w] \in begun[w] /\ begun'[w] = begun[w] \ {head[w]}
        /\ head' = head /\ todo' = todo /\ known' = known
        /\ task' = [task EXCEPT ![w][head[w]] = IF @ = "none" THEN "running" ELSE @]
    BY DEF BeginPrefetched, Launch, StageInv, TypeOK
  <1>2. task[w][head[w]] # "none"
    BY <1>1 DEF StageInv, Local, Attempted
  <1>3. task'[w] = task[w]
    BY <1>1, <1>2, Typed DEF StageInv, TypeOK
  <1>4. Left(w)' = Left(w) /\ InFlight(w)' = InFlight(w) /\ Running(w)' = Running(w)
    BY <1>1, <1>3 DEF Left, Current, InFlight, Running
  <1>5. Bounds(w)'
    BY <1>4, BoundsShrink DEF Ahead
  <1>6. AheadInOrder(w)'
    BY <1>1, <1>3 DEF Ahead, AheadInOrder
  <1> QED BY <1>1, <1>5, <1>6 DEF Ahead, NoneBeyond, HasRoom

(* An acquisition ends.                                                      *)
LEMMA AcquiredAhead ==
  ASSUME StageInv, NEW w \in Workers, NEW c \in Cands, Ahead(w), Acquired(w, c)
  PROVE  Ahead(w)'
  <1>1. /\ task[w][c] = "running"
        /\ task'[w] = [task[w] EXCEPT ![c] = "done"]
        /\ pc'[w] = IF pc[w] = "wait" THEN "sweep" ELSE pc[w]
        /\ UNCHANGED <<tx, known, todo, head, begun, repairing>>
    BY DEF Acquired, StageInv, TypeOK
  <1>2. \A x \in Cands : /\ task'[w][x] = "none" <=> task[w][x] = "none"
                         /\ task'[w][x] = "running" => task[w][x] = "running"
    BY <1>1, Typed
  <1>3. InFlight(w)' = InFlight(w) /\ Running(w)' \subseteq Running(w)
    BY <1>2 DEF InFlight, Running
  <1>4. Left(w)' = Left(w)
    BY <1>1, <1>3 DEF Left, Current
  <1>5. Bounds(w)'
    BY <1>3, <1>4, BoundsShrink DEF Ahead
  <1>6. AheadInOrder(w)'
    BY <1>1, <1>2, Typed DEF Ahead, AheadInOrder
  <1>7. NoneBeyond(w)'
    <2>1. Local(w)
      BY DEF StageInv
    <2>2. pc[w] = "begin" => head[w] \in Cands
      BY <2>1 DEF Local, Position, AtWork
    <2> QED BY <1>1, <1>2, <2>2 DEF Ahead, NoneBeyond
  <1>8. HasRoom(w)'
    <2>1. tx[w] # NoTx => pc[w] # "wait"
      BY DEF StageInv, Local, Writing
    <2>2. Upcoming(w)' = Upcoming(w)
      BY <1>1, <1>2, Typed DEF Upcoming
    <2>3. /\ Cardinality(InFlight(w)') = Cardinality(InFlight(w))
          /\ Cardinality(Running(w)) \in Nat /\ Cardinality(Running(w)') \in Nat
          /\ Cardinality(Running(w)') <= Cardinality(Running(w))
      BY <1>3, Counted DEF Running
    <2> QED BY <1>1, <2>1, <2>2, <2>3, StageAssumption DEF Ahead, HasRoom
  <1> QED BY <1>5, <1>6, <1>7, <1>8 DEF Ahead

(* The current candidate is consumed, or left behind by a failed prefetch.   *)
LEMMA CurrentLeaves ==
  ASSUME StageInv, NEW w \in Workers, Ahead(w), Evaluate(w) \/ PrefetchFails(w)
  PROVE  Ahead(w)'
  <1>1. /\ pc[w] = "sweep" /\ pc'[w] = "settle" /\ tx[w] = NoTx /\ tx' = tx
        /\ UNCHANGED <<known, todo, head, begun>>
    BY DEF Evaluate, PrefetchFails, StageInv, TypeOK
  <1>2. head[w] \in Cands /\ head[w] \notin todo[w]
    BY <1>1 DEF StageInv, Local, Position, AtWork
  <1>3. \A x \in Cands \ {head[w]} : task'[w][x] = task[w][x]
    BY Typed DEF Evaluate, PrefetchFails, StageInv, TypeOK
  <1>4. task'[w][head[w]] = "none" \/ task'[w] = task[w]
    BY <1>2, Typed DEF Evaluate, PrefetchFails, StageInv, TypeOK
  <1>5. InFlight(w)' \subseteq InFlight(w) /\ Running(w)' \subseteq Running(w)
    BY <1>3, <1>4 DEF InFlight, Running
  <1>6. Bounds(w)'
    <2>1. CASE Evaluate(w)
      <3>1. task'[w][head[w]] = "none"
        BY <1>2, <2>1, Typed DEF Evaluate, StageInv, TypeOK
      <3>2. Left(w)' \subseteq Left(w)
        BY <1>1, <1>5, <3>1 DEF Left, Current, InFlight
      <3> QED BY <1>5, <3>2, BoundsShrink DEF Ahead
    <2>2. CASE PrefetchFails(w)
      <3>1. task' = task /\ MayPrefetch(w)
        BY <2>2 DEF PrefetchFails
      <3>2. /\ InFlight(w)' = InFlight(w) /\ Running(w)' = Running(w)
            /\ Left(w)' \subseteq InFlight(w)
            /\ (Left(w) \cap Running(w))' \subseteq Running(w)
        BY <3>1 DEF InFlight, Running, Left
      <3>3. InFlight(w) \in SUBSET Cands /\ Running(w) \in SUBSET Cands
        BY DEF InFlight, Running
      <3>4. /\ Cardinality(Left(w)') \in Nat /\ Cardinality(InFlight(w)) \in Nat
            /\ Cardinality(Left(w)') <= Cardinality(InFlight(w))
        BY <3>2, <3>3, Counted
      <3>5. /\ Cardinality((Left(w) \cap Running(w))') \in Nat
            /\ Cardinality(Running(w)) \in Nat
            /\ Cardinality((Left(w) \cap Running(w))') <= Cardinality(Running(w))
        BY <3>2, <3>3, Counted
      <3>6. Cardinality(Running(w)) < Concurrency /\ Cardinality(InFlight(w)) < Lookahead
        BY <3>1 DEF MayPrefetch
      <3>7. /\ Cardinality(Running(w))' = Cardinality(Running(w))
            /\ Cardinality(InFlight(w))' = Cardinality(InFlight(w))
        BY <3>2
      <3> QED BY <3>4, <3>5, <3>6, <3>7, StageAssumption DEF Ahead, Bounds
    <2> QED BY <2>1, <2>2
  <1>7. AheadInOrder(w)'
    BY <1>1, <1>2, <1>3, Typed DEF Ahead, AheadInOrder
  <1> QED BY <1>1, <1>6, <1>7 DEF Ahead, NoneBeyond, HasRoom

(* The write of a prefetch passes the fence: there is room for it.           *)
LEMMA PrefetchAhead ==
  ASSUME StageInv, NEW w \in Workers, NEW c \in Cands, Ahead(w), Prefetch(w, c)
  PROVE  Ahead(w)'
  <1>1. /\ pc[w] = "sweep" /\ MayPrefetch(w) /\ IsFirst(c, Upcoming(w))
        /\ tx'[w] = [cand |-> c, state |-> "running", add |-> 1]
        /\ UNCHANGED <<pc, known, round, todo, head, task, begun, repairing, diag, counts>>
    BY DEF Prefetch, Execute, local, StageInv, TypeOK
  <1>2. tx'[w].cand = c
    BY <1>1
  <1>3. /\ InFlight(w)' = InFlight(w) /\ Running(w)' = Running(w)
        /\ Left(w)' = Left(w) /\ Upcoming(w)' = Upcoming(w)
    BY <1>1 DEF InFlight, Running, Left, Current, Upcoming
  <1>4. Bounds(w)'
    BY <1>3, BoundsShrink DEF Ahead
  <1>5. AheadInOrder(w)' /\ NoneBeyond(w)'
    BY <1>1 DEF Ahead, AheadInOrder, NoneBeyond
  <1>6. HasRoom(w)'
    BY <1>1, <1>2, <1>3 DEF HasRoom, MayPrefetch
  <1> QED BY <1>4, <1>5, <1>6 DEF Ahead

(* One more acquisition, of a candidate that was not in flight.              *)
LEMMA LaunchedAhead ==
  ASSUME StageInv, NEW w \in Workers, NEW c \in Cands, Bounds(w),
         task'[w] = [task[w] EXCEPT ![c] = "running"],
         Cardinality(InFlight(w)) < Lookahead, Cardinality(Running(w)) < Concurrency,
         Left(w)' \subseteq Left(w), c \notin Left(w)'
  PROVE  Bounds(w)'
  <1>1. /\ InFlight(w)' = InFlight(w) \cup {c} /\ Running(w)' = Running(w) \cup {c}
        /\ (Left(w) \cap Running(w))' \subseteq Left(w) \cap Running(w)
    BY Typed DEF InFlight, Running
  <1>2. /\ InFlight(w) \in SUBSET Cands /\ Running(w) \in SUBSET Cands
        /\ InFlight(w)' \in SUBSET Cands /\ Running(w)' \in SUBSET Cands
        /\ Left(w) \in SUBSET Cands /\ Left(w) \cap Running(w) \in SUBSET Cands
    BY DEF InFlight, Running, Left
  <1>3. /\ Cardinality(InFlight(w)') \in Nat /\ Cardinality(InFlight(w)) \in Nat
        /\ Cardinality(InFlight(w)') <= Cardinality(InFlight(w)) + 1
    BY <1>1, <1>2, Counted
  <1>4. /\ Cardinality(Running(w)') \in Nat /\ Cardinality(Running(w)) \in Nat
        /\ Cardinality(Running(w)') <= Cardinality(Running(w)) + 1
    BY <1>1, <1>2, Counted
  <1>5. /\ Cardinality(Left(w)') \in Nat /\ Cardinality(Left(w)) \in Nat
        /\ Cardinality(Left(w)') <= Cardinality(Left(w))
    BY <1>2, Counted
  <1>6. /\ Cardinality((Left(w) \cap Running(w))') \in Nat
        /\ Cardinality(Left(w) \cap Running(w)) \in Nat
        /\ Cardinality((Left(w) \cap Running(w))') <= Cardinality(Left(w) \cap Running(w))
    BY <1>1, <1>2, Counted
  <1> QED BY <1>3, <1>4, <1>5, <1>6, StageAssumption DEF Bounds

(* A write commits: the candidate it counts an attempt of is started.        *)
LEMMA CommitAhead ==
  ASSUME StageInv, NEW w \in Workers, Ahead(w), Commit(w)
  PROVE  Ahead(w)'
  <1> DEFINE c == tx[w].cand
  <1>1. /\ tx[w] # NoTx /\ tx'[w] = NoTx /\ todo' = todo /\ round' = round
        /\ known' = [known EXCEPT ![w][c] = Written(@, tx[w])]
    BY DEF Commit, StageInv, TypeOK
  <1>2. Local(w) /\ Writing(w) /\ c \in Cands
    BY <1>1 DEF StageInv, Local, Writing
  <1>3. \A x \in Cands \ {c} : known'[w][x] = known[w][x]
    BY <1>1, Typed DEF StageInv, TypeOK
  <1>4. CASE pc[w] = "settle"
    <2>1. /\ pc'[w] = "next" /\ head'[w] = NoCand /\ begun' = begun /\ task' = task
          /\ c = head[w] /\ head[w] \notin todo[w]
      BY <1>1, <1>2, <1>4 DEF Commit, Writing, Local, Position, StageInv, TypeOK
    <2>2. InFlight(w)' = InFlight(w) /\ Running(w)' = Running(w) /\ Left(w)' = Left(w)
      BY <1>4, <2>1 DEF InFlight, Running, Left, Current
    <2>3. Bounds(w)'
      BY <2>2, BoundsShrink DEF Ahead
    <2>4. AheadInOrder(w)'
      BY <1>1, <1>3, <2>1, Typed DEF Ahead, AheadInOrder
    <2> QED BY <1>1, <2>1, <2>3, <2>4 DEF Ahead, NoneBeyond, HasRoom
  <1>5. CASE pc[w] = "begin"
    <2>1. /\ c = head[w] /\ head[w] \notin begun[w] /\ head[w] \notin todo[w]
      BY <1>1, <1>2, <1>5 DEF Writing, Local, Position
    <2>2. /\ pc'[w] = "sweep" /\ head' = head /\ begun'[w] = begun[w]
          /\ task'[w] = [task[w] EXCEPT ![c] = IF @ = "none" THEN "running" ELSE @]
      BY <1>1, <1>5 DEF Commit, Launch, StageInv, TypeOK
    <2>3. Bounds(w)'
      <3>1. CASE task[w][c] = "none"
        <4>1. begun[w] = {}
          BY <1>5, <2>1, <3>1 DEF Ahead, NoneBeyond
        <4>2. task'[w] = [task[w] EXCEPT ![c] = "running"]
          BY <1>2, <2>2, <3>1, Typed
        <4>3. Left(w) = InFlight(w) /\ Left(w) \cap Running(w) = Running(w)
          BY <1>5, <4>1 DEF Left, Current, InFlight, Running
        <4>4. Cardinality(InFlight(w)) < Lookahead /\ Cardinality(Running(w)) < Concurrency
          BY <4>3 DEF Ahead, Bounds
        <4>5. Left(w)' \subseteq Left(w) /\ c \notin Left(w)'
          BY <2>1, <2>2, <4>1, <4>2, <1>5, <1>2, Typed DEF Left, Current, InFlight
        <4> QED BY <1>2, <4>2, <4>4, <4>5, LaunchedAhead DEF Ahead
      <3>2. CASE task[w][c] # "none"
        <4>1. \A x \in Cands : task'[w][x] = task[w][x]
          BY <2>2, <3>2, Typed
        <4>2. InFlight(w)' = InFlight(w) /\ Running(w)' = Running(w) /\ Left(w)' \subseteq Left(w)
          BY <2>2, <4>1, <1>5 DEF InFlight, Running, Left, Current
        <4> QED BY <4>2, BoundsShrink DEF Ahead
      <3> QED BY <3>1, <3>2
    <2>4. \A x \in Cands \ {c} : task'[w][x] = task[w][x]
      BY <2>2, Typed
    <2>5. AheadInOrder(w)'
      BY <1>1, <1>3, <2>1, <2>2, <2>4, Typed DEF Ahead, AheadInOrder
    <2> QED BY <1>1, <2>2, <2>3, <2>5 DEF Ahead, NoneBeyond, HasRoom
  <1>6. CASE pc[w] = "sweep"
    <2>1. /\ IsFirst(c, Upcoming(w))
          /\ Cardinality(InFlight(w)) < Lookahead /\ Cardinality(Running(w)) < Concurrency
      BY <1>1, <1>6 DEF Ahead, HasRoom
    <2>2. task[w][c] = "none" /\ c \in todo[w]
      BY <2>1 DEF IsFirst, Upcoming
    <2>3. /\ pc'[w] = "sweep" /\ head' = head /\ begun'[w] = begun[w] \cup {c}
          /\ task'[w] = [task[w] EXCEPT ![c] = IF @ = "none" THEN "running" ELSE @]
      BY <1>1, <1>6 DEF Commit, Launch, StageInv, TypeOK
    <2>4. task'[w] = [task[w] EXCEPT ![c] = "running"]
      BY <1>2, <2>2, <2>3, Typed
    <2>5. Left(w)' \subseteq Left(w) /\ c \notin Left(w)'
      BY <1>6, <2>3, <2>4, <1>2, Typed DEF Left, Current, InFlight
    <2>6. Bounds(w)'
      BY <1>2, <2>1, <2>4, <2>5, LaunchedAhead DEF Ahead
    <2>7. ASSUME NEW x \in begun'[w] \cap todo[w], NEW d \in todo[w],
                 d < x, task'[w][d] = "none"
          PROVE  Restorable(known'[w][d])
      <3>1. d \in Cands /\ d # c /\ task[w][d] = "none" /\ known'[w][d] = known[w][d]
        BY <1>2, <1>3, <2>4, <2>7, Typed
      <3>2. CASE x = c
        <4>1. d \in Nat /\ c \in Nat /\ ~ (c <= d)
          BY <2>7, <3>1, <3>2, <1>2, Typed
        <4>2. d \notin Upcoming(w)
          BY <2>1, <4>1 DEF IsFirst
        <4> QED BY <2>7, <3>1, <4>2 DEF Upcoming
      <3>3. CASE x # c
        BY <2>3, <2>7, <3>1, <3>3 DEF Ahead, AheadInOrder
      <3> QED BY <3>2, <3>3
    <2>8. AheadInOrder(w)'
      BY <1>1, <2>7 DEF AheadInOrder
    <2> QED BY <1>1, <2>3, <2>6, <2>8 DEF Ahead, NoneBeyond, HasRoom
  <1> QED BY <1>1, <1>2, <1>4, <1>5, <1>6 DEF Writing

\* A worker's look-ahead depends on nothing the others do.
LEMMA AheadElsewhere ==
  ASSUME NEW v \in Workers, Ahead(v), Same(v)
  PROVE  Ahead(v)'
  BY DEF Same, Ahead, Bounds, AheadInOrder, NoneBeyond, HasRoom, Left, Current, InFlight,
         Running, Upcoming

(* Every step of the stage keeps the bounds of the look-ahead.               *)
LEMMA AheadStep ==
  ASSUME StageInv, AheadInv, [Next]_vars
  PROVE  AheadInv'
  <1>1. CASE Expire \/ RequestCancel \/ UNCHANGED vars
    <2>1. UNCHANGED <<pc, tx, local>>
      BY <1>1 DEF Expire, RequestCancel, vars
    <2> QED BY <2>1, AheadElsewhere DEF AheadInv, Same, local
  <1>2. ASSUME NEW w \in Workers, Claim(w) \/ Crash(w) \/ WorkerStep(w)
        PROVE  AheadInv'
    <2>1. Ahead(w)
      BY DEF AheadInv
    <2>2. Ahead(w)'
      <3>1. CASE Claim(w)
        <4>1. /\ pc[w] = "off" /\ pc'[w] = "claimed" /\ UNCHANGED <<tx, local>>
          BY <3>1 DEF Claim, StageInv, TypeOK
        <4>2. Left(w)' = Left(w)
          BY <4>1 DEF Left, Current, InFlight, local
        <4> QED BY <2>1, <4>1, <4>2, AheadQuiet DEF local
      <3>2. CASE Crash(w) \/ Stop(w) \/ End(w) \/ Refused(w)
        <4>1. task'[w] = NoTask /\ begun'[w] = {} /\ tx'[w] = NoTx
          BY <3>2 DEF Crash, Stop, End, Refused, Drop, StageInv, TypeOK
        <4> QED BY <2>1, <4>1, AheadGone
      <3>3. CASE \/ Load(w) \/ NextPass(w) \/ Wait(w) \/ Begin(w) \/ Finish(w)
                 \/ \E c \in Cands : Restore(w, c)
        BY <2>1, <3>3, QuietSteps
      <3>4. CASE \E c \in Cands : Take(w, c) \/ TakeRepair(w, c)
        BY <2>1, <3>4, TakenSteps
      <3>5. CASE BeginPrefetched(w)
        BY <2>1, <3>5, PrefetchedBegins
      <3>6. CASE Evaluate(w) \/ PrefetchFails(w)
        BY <2>1, <3>6, CurrentLeaves
      <3>7. CASE \E c \in Cands : Prefetch(w, c)
        BY <2>1, <3>7, PrefetchAhead
      <3>8. CASE \E c \in Cands : Acquired(w, c)
        BY <2>1, <3>8, AcquiredAhead
      <3>9. CASE Commit(w)
        BY <2>1, <3>9, CommitAhead
      <3> QED
        BY <1>2, <3>1, <3>2, <3>3, <3>4, <3>5, <3>6, <3>7, <3>8, <3>9 DEF WorkerStep, LoopStep
    <2>3. \A v \in Workers \ {w} : Same(v)
      <3>1. CASE Claim(w)
        BY <3>1 DEF Claim, Same, local, StageInv, TypeOK
      <3>2. CASE Crash(w) \/ WorkerStep(w)
        BY <3>2, WorkerKeeps
      <3> QED BY <1>2, <3>1, <3>2
    <2> QED BY <2>2, <2>3, AheadElsewhere DEF AheadInv
  <1> QED BY <1>1, <1>2 DEF Next

-----------------------------------------------------------------------------
(* A worker that is going through the candidates is never stuck.  What      *)
(* NeverStuck says with ENABLED is said here with the guards of the code:   *)
(* in each place of the loop, those of one of the steps from it are met.    *)

\* The current candidate's acquisition has been started; the loop only sleeps
\* while it runs.
HeadInFlight(w) ==
  /\ pc[w] = "sweep" => task[w][head[w]] # "none"
  /\ pc[w] = "wait" => task[w][head[w]] = "running"

Unlocked(c) == \A v \in Workers : tx[v].cand # c

MayGoOn(w) ==
  \/ pc[w] = "claimed"
  \/ tx[w] # NoTx
  \/ /\ pc[w] = "next"
     /\ \/ todo[w] = {}
        \/ round[w] = 0 /\ cancelled
        \/ \E c \in Cands : IsFirst(c, todo[w]) /\ (round[w] > 0 => diag[w][c] # <<>>)
  \/ /\ pc[w] = "begin"
     /\ head[w] \in begun[w] \/ ~ MayStart(w) \/ Unlocked(head[w])
  \/ pc[w] = "sweep" /\ (MayPrefetch(w) \/ task[w][head[w]] # "none")
  \/ pc[w] = "wait" /\ task[w][head[w]] = "running"
  \/ /\ pc[w] = "settle"
     /\ ~ MayFinish(w, head[w]) \/ Unlocked(head[w])

LoopGoesOn == \A w \in Workers : pc[w] \in {"claimed"} \cup Looping => MayGoOn(w)

(* A pass that has candidates left has a first one.                          *)
LEMMA FirstExists ==
  ASSUME NEW S \in SUBSET Cands, S # {}
  PROVE  \E c \in S : IsFirst(c, S)
  <1> DEFINE R == {ss \in Nat \X Nat : ss[1] < ss[2]}
  <1>1. IsWellFoundedOn(R, Nat)
    BY NatLessThanWellFounded DEF OpToRel
  <1>2. S \subseteq Nat
    BY DEF Cands
  <1>3. PICK c \in S : \A d \in S : ~ (<<d, c>> \in R)
    <2> HIDE DEF R
    <2> QED BY <1>1, <1>2, WFMin
  <1>4. ASSUME NEW d \in S PROVE c <= d
    <2>1. c \in Nat /\ d \in Nat
      BY <1>2
    <2>2. <<d, c>> \in Nat \X Nat /\ <<d, c>>[1] = d /\ <<d, c>>[2] = c
      BY <2>1
    <2>3. ~ (d < c)
      BY <1>3, <2>2
    <2> QED BY <2>1, <2>3
  <1> QED BY <1>4 DEF IsFirst

(* The loop sleeps for an acquisition that runs, and is woken when it ends.  *)
LEMMA HeadStep ==
  ASSUME StageInv, NEW w \in Workers, HeadInFlight(w), [Next]_vars
  PROVE  HeadInFlight(w)'
  <1>1. CASE Expire \/ RequestCancel \/ UNCHANGED vars
    BY <1>1 DEF Expire, RequestCancel, vars, local, HeadInFlight
  <1>2. ASSUME NEW v \in Workers, Claim(v) \/ Crash(v) \/ WorkerStep(v), v # w
        PROVE  HeadInFlight(w)'
    <2>1. Same(w)
      <3>1. CASE Claim(v)
        BY <1>2, <3>1 DEF Claim, Same, local, StageInv, TypeOK
      <3>2. CASE Crash(v) \/ WorkerStep(v)
        BY <1>2, <3>2, WorkerKeeps
      <3> QED BY <1>2, <3>1, <3>2
    <2> QED BY <2>1 DEF Same, HeadInFlight
  <1>3. CASE \/ Claim(w) \/ Crash(w) \/ Load(w) \/ Stop(w) \/ NextPass(w) \/ End(w)
             \/ PrefetchFails(w) \/ Evaluate(w) \/ Refused(w)
             \/ \E c \in Cands : Restore(w, c) \/ Take(w, c) \/ TakeRepair(w, c)
    <2>1. pc'[w] \notin {"sweep", "wait"}
      BY <1>3 DEF Claim, Crash, Load, Stop, NextPass, End, PrefetchFails, Evaluate, Refused,
        Restore, Take, TakeRepair, Drop, StageInv, TypeOK
    <2> QED BY <2>1 DEF HeadInFlight
  <1>4. CASE Begin(w) \/ Finish(w) \/ \E c \in Cands : Prefetch(w, c)
    BY <1>4 DEF Begin, Finish, Prefetch, local, HeadInFlight
  <1>5. CASE Wait(w)
    BY <1>5 DEF Wait, local, HeadInFlight, StageInv, TypeOK
  <1>6. CASE BeginPrefetched(w)
    <2>1. head[w] \in Cands /\ head' = head
      BY <1>6 DEF BeginPrefetched, StageInv, Local, Position, AtWork
    <2>2. task'[w][head[w]] # "none" /\ pc'[w] = "sweep"
      BY <1>6, <2>1, Typed DEF BeginPrefetched, Launch, StageInv, TypeOK
    <2> QED BY <2>1, <2>2 DEF HeadInFlight
  <1>7. ASSUME NEW c \in Cands, Acquired(w, c) PROVE HeadInFlight(w)'
    <2>1. /\ head' = head /\ pc'[w] = (IF pc[w] = "wait" THEN "sweep" ELSE pc[w])
          /\ \A x \in Cands : task[w][x] # "none" => task'[w][x] # "none"
      BY <1>7, Typed DEF Acquired, StageInv, TypeOK
    <2>2. pc[w] \in {"sweep", "wait"} => head[w] \in Cands
      BY DEF StageInv, Local, Position, AtWork
    <2> QED BY <2>1, <2>2 DEF HeadInFlight
  <1>8. CASE Commit(w)
    <2> DEFINE c == tx[w].cand
    <2>1. Writing(w) /\ tx[w] # NoTx
      BY <1>8 DEF Commit, StageInv, Local
    <2>2. CASE pc[w] = "settle"
      BY <1>8, <2>2 DEF Commit, HeadInFlight, StageInv, TypeOK
    <2>3. CASE pc[w] \in {"begin", "sweep"}
      <3>1. /\ pc'[w] = "sweep" /\ head' = head /\ head[w] \in Cands
            /\ task'[w] = [task[w] EXCEPT ![c] = IF @ = "none" THEN "running" ELSE @]
        BY <1>8, <2>3 DEF Commit, Launch, StageInv, TypeOK, Local, Position, AtWork
      <3>2. task'[w][head[w]] # "none"
        <4>1. CASE pc[w] = "begin"
          <5>1. c = head[w]
            BY <2>1, <4>1 DEF Writing
          <5> QED BY <3>1, <5>1, Typed
        <4>2. CASE pc[w] = "sweep"
          <5>1. task[w][head[w]] # "none"
            BY <4>2 DEF HeadInFlight
          <5> QED BY <3>1, <5>1, Typed
        <4> QED BY <2>3, <4>1, <4>2
      <3> QED BY <3>1, <3>2 DEF HeadInFlight
    <2> QED BY <2>1, <2>2, <2>3 DEF Writing
  <1> QED
    BY <1>1, <1>2, <1>3, <1>4, <1>5, <1>6, <1>7, <1>8 DEF Next, WorkerStep, LoopStep

(* Only the owner of the run has a write open, so no worker that may write   *)
(* waits for the row of another.                                             *)
LEMMA OwnerFindsUnlocked ==
  ASSUME ~ Stalls, StageInv, NEW w \in Workers, owner = w, tx[w] = NoTx, NEW c \in Cands
  PROVE  Unlocked(c)
  <1> SUFFICES ASSUME NEW v \in Workers PROVE tx[v].cand # c
    BY DEF Unlocked
  <1>1. tx[v] = NoTx
    BY DEF StageInv, Local, Writing
  <1> QED BY <1>1, Typed DEF NoTx

(* So there is always a step to take.                                        *)
LEMMA GoesOn ==
  ASSUME ~ Stalls, StageInv, \A w \in Workers : HeadInFlight(w)
  PROVE  LoopGoesOn
  <1> SUFFICES ASSUME NEW w \in Workers, pc[w] \in {"claimed"} \cup Looping, tx[w] = NoTx
               PROVE  MayGoOn(w)
    BY DEF LoopGoesOn, MayGoOn
  <1>1. Local(w)
    BY DEF StageInv
  <1>2. CASE pc[w] = "next"
    <2>1. todo[w] # {} => \E c \in todo[w] : IsFirst(c, todo[w])
      BY Typed, FirstExists
    <2>2. ASSUME NEW c \in todo[w], round[w] > 0 PROVE diag[w][c] # <<>>
      BY <1>1, <1>2, <2>2, Typed DEF Local, Diagnosed, Open, Looping
    <2> QED BY <1>2, <2>1, <2>2, Typed DEF MayGoOn
  <1>3. CASE pc[w] = "begin"
    <2>1. head[w] \in Cands
      BY <1>1, <1>3 DEF Local, Position, AtWork
    <2> QED BY <1>3, <2>1, OwnerFindsUnlocked DEF MayGoOn, MayStart
  <1>4. CASE pc[w] = "settle"
    <2>1. head[w] \in Cands
      BY <1>1, <1>4 DEF Local, Position, AtWork
    <2> QED BY <1>4, <2>1, OwnerFindsUnlocked DEF MayGoOn, MayFinish
  <1>5. CASE pc[w] \in {"claimed", "sweep", "wait"}
    BY <1>5 DEF MayGoOn, HeadInFlight
  <1> QED BY <1>2, <1>3, <1>4, <1>5 DEF Looping

-----------------------------------------------------------------------------
(* The theorems.                                                           *)

\* The invariant of the stage: each worker's own bookkeeping is right whatever
\* the leases do; what it shares with the rows is, if no transaction outlasts
\* the lease it has checked.
THEOREM StageInvariant == Spec => []StageInv
  <1>1. StageInv /\ [Next]_vars => StageInv'
    BY StageStep
  <1> QED BY <1>1, StageInit, PTL DEF Spec

\* The stage's variables keep their types; no counter goes below zero when an
\* outcome is undone for a repair.
THEOREM StageTypes == Spec => []TypeOK
  <1>1. StageInv => TypeOK
    BY DEF StageInv
  <1> QED BY <1>1, StageInvariant, PTL

\* CycleCheckpoint._progress of the owner is what the rows are.
THEOREM OwnersKnowTheRows == ASSUME ~ Stalls PROVE Spec => []OwnerKnowsRows
  <1>1. StageInv => OwnerKnowsRows
    BY DEF StageInv, Shared
  <1> QED BY <1>1, StageInvariant, PTL

\* The attempts written by record_cycle_progress stay within the budget and one
\* more per take-over.
THEOREM BudgetsHold == ASSUME ~ Stalls PROVE Spec => []BudgetHolds
  <1>1. StageInv => BudgetHolds
    BY DEF StageInv, Shared
  <1> QED BY <1>1, StageInvariant, PTL

\* What the deep loop counts is what it has diagnosed, once per candidate.
THEOREM CountersAreExact == ASSUME ~ RankerFails PROVE Spec => []CountersExact
  <1>1. StageInv => CountersExact
    BY DEF StageInv, Local, Diagnosed, Exact, Having, CountersExact
  <1> QED BY <1>1, StageInvariant, PTL

\* Whatever the ranker rejects and however leases are lost, no candidate is
\* diagnosed twice and no counter misses a diagnosed candidate: the error of a
\* rejection that is counted twice is always one of too many.
NoneTwiceNoneMissed ==
  \A w \in Workers :
    /\ \A c \in Cands : Len(diag[w][c]) <= 1
    /\ \A k \in Counters : counts[w][k] >= Cardinality(Having(diag[w], k))

\* The counters of the deep loop never fall short of its diagnostics, also with
\* a ranker that rejects and transactions that stall.
THEOREM CountersNeverShort == Spec => []NoneTwiceNoneMissed
  <1>1. StageInv => NoneTwiceNoneMissed
    BY DEF StageInv, Local, Diagnosed, Exact, NoneTwiceNoneMissed
  <1> QED BY <1>1, StageInvariant, PTL

\* When the loop has ended, what its worker ranks and publishes is in the rows.
THEOREM WhatEndedIsDurable == ASSUME ~ Stalls PROVE Spec => []EndedIsDurable
  <1>1. StageInv => EndedIsDurable
    <2> SUFFICES ASSUME StageInv, NEW w \in Workers, pc[w] = "ended", owner = w, NEW c \in Cands
        PROVE  diag[w][c] = <<row[c].state>>
      BY DEF EndedIsDurable
    <2>1. Local(w) /\ known[w] = row /\ head[w] = NoCand /\ todo[w] = {} /\ begun[w] = {}
      BY DEF StageInv, Shared, Local, Position, OwnerKnowsRows, Loaded, Looping, AtWork
    <2>2. ~ Open(w, c)
      BY <2>1 DEF Open
    <2>3. diag[w][c] # <<>> /\ Len(diag[w][c]) <= 1
      BY <2>1, <2>2 DEF Local, Diagnosed
    <2>4. diag[w][c][1] = row[c].state
      BY <2>1, <2>3 DEF Local, Settled, Loaded
    <2>5. diag[w][c] \in Seq(Dispositions) /\ Len(diag[w][c]) = 1
      BY <2>3, Typed, ShortSequence
    <2> QED BY <2>4, <2>5
  <1> QED BY <1>1, StageInvariant, PTL

\* An outcome in the rows is never worked on again.
THEOREM WorkStandsForever == ASSUME ~ Stalls PROVE Spec => WorkStands
  <1>1. StageInv /\ [Next]_vars =>
          [\A c \in Cands : Restorable(row[c]) => row'[c] = row[c]]_vars
    BY StageStep
  <1> QED BY <1>1, StageInvariant, PTL DEF Spec, WorkStands

\* _prefetch_ahead and _take_acquisition together never have more acquisitions
\* running, or started and not consumed, than the two settings allow, whatever
\* failed look-aheads leave behind.
THEOREM LookaheadStaysBounded == Spec => []LookaheadBounded
  <1>1. StageInv /\ AheadInv /\ [Next]_vars => AheadInv'
    BY AheadStep
  <1>2. AheadInv => LookaheadBounded
    BY DEF AheadInv, Ahead, Bounds, LookaheadBounded
  <1> QED BY <1>1, <1>2, AheadInit, StageInvariant, PTL DEF Spec

\* In every place of the deep loop some step's guard is met: no acquisition ends
\* without waking the loop, no write waits for another worker's row, and no pass
\* stops short of its candidates.  The guards are those of DeepStage's actions (an
\* evaluation also needs some outcome in Outcomes); that a met guard is a step
\* that can be taken is what NeverStuck checks.
THEOREM LoopAlwaysGoesOn == ASSUME ~ Stalls PROVE Spec => []LoopGoesOn
  <1> DEFINE AllInFlight == \A w \in Workers : HeadInFlight(w)
  <1>1. Init => AllInFlight
    BY DEF Init, HeadInFlight
  <1>2. StageInv /\ AllInFlight /\ [Next]_vars => AllInFlight'
    BY HeadStep
  <1>3. StageInv /\ AllInFlight => LoopGoesOn
    BY GoesOn
  <1> HIDE DEF AllInFlight
  <1> QED BY <1>1, <1>2, <1>3, StageInvariant, PTL DEF Spec

=============================================================================
