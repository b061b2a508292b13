---------------------------- MODULE ReadinessReuse ----------------------------
(***************************************************************************)
(* Reuse of readiness results over the persistence gate.                   *)
(*                                                                         *)
(* Assessing an instrument reads all its evidence through the gate, so two *)
(* places keep a result and hand it out again while the repository's       *)
(* mutation generation is unchanged:                                       *)
(*   - ResearchReadinessRuntime.read keeps one per instrument, tagged with *)
(*     the generation it finds after the assessment has returned;          *)
(*   - memoized_assess keeps one per acquisition pass, tagged with the     *)
(*     generation it found before it dispatched the assessment.            *)
(* One instrument; the generation is shared by all, so a write to another  *)
(* instrument is a write that leaves this one's evidence alone (Fail).     *)
(***************************************************************************)
EXTENDS PersistenceGate

CONSTANTS
  Passes,    \* the callers that run acquisition passes, each with a memo
  NoEntry    \* nothing kept

VARIABLES
  kind,    \* what each caller is reading for; "none" when it is not
  cache,   \* _evidence_readiness_cache, for the instrument
  memo     \* the memo of each caller's acquisition pass

reuseVars == <<kind, cache, memo>>
vars == <<gateVars, reuseVars>>

\* A kept result: the evidence it classifies, its tag, and (not in the code)
\* the generation when its assessment was dispatched.
Entries ==
  [seen : SUBSET (1..MaxGeneration), gen : 0..MaxGeneration, base : 0..MaxGeneration]

ASSUME ReuseAssumption == Passes \subseteq Callers /\ NoEntry \notin Entries

ReuseTypeOK ==
  /\ TypeOK
  /\ kind \in [Callers -> {"none", "evidence", "durable", "memo"}]
  /\ cache \in Entries \cup {NoEntry}
  /\ memo \in [Passes -> Entries \cup {NoEntry}]

ReuseInit ==
  /\ Init
  /\ kind = [c \in Callers |-> "none"]
  /\ cache = NoEntry
  /\ memo = [c \in Passes |-> NoEntry]

Current(e) == e # NoEntry /\ e.gen = generation

Resting(c) == pc[c] = "idle" /\ kind[c] = "none"

\* An operation that keeps nothing.
DispatchOther(c, o) ==
  /\ Resting(c)
  /\ Dispatch(c, o)
  /\ UNCHANGED reuseVars

\* read(), where no kept entry answers it (there is none, it is not current, or
\* the read has a `now` of its own, and every durable read): it awaits the
\* market sessions, then assesses.  The wait leaves no trace: what read() looked
\* up before it is not used after it.
Assess(c, k) ==
  /\ Resting(c)
  /\ Dispatch(c, "read")
  /\ kind' = [kind EXCEPT ![c] = k]
  /\ UNCHANGED <<cache, memo>>

\* memoized_assess, when its memo does not answer: the generation is read in
\* the step that dispatches.
AssessWithMemo(c) ==
  /\ c \in Passes
  /\ Resting(c)
  /\ ~ Current(memo[c])
  /\ Dispatch(c, "read")
  /\ kind' = [kind EXCEPT ![c] = "memo"]
  /\ UNCHANGED <<cache, memo>>

\* The acquisition pass ends, and its memo with it.
EndPass(c) ==
  /\ c \in Passes
  /\ Resting(c)
  /\ memo[c] # NoEntry
  /\ memo' = [memo EXCEPT ![c] = NoEntry]
  /\ UNCHANGED <<gateVars, kind, cache>>

\* The faulty form of TagNow: the tag counts a write that is still to come.
EarlyTag(c) == generation + 1

\* The tag of the runtime's entry: the generation now.
TagNow(c) == generation

\* The faulty form of TagAtDispatch: the tag is read late, as in read().
LateTag(c) == generation

\* The tag of a memo's: the generation that its dispatch saw.
TagAtDispatch(c) == ticket[c]

Result(c, tag) == [seen |-> seen[c], gen |-> tag, base |-> ticket[c]]

\* What a caller does with the result it awaited: an evidence-only read keeps
\* it, a durable one drops what was kept, a memo keeps it.  An assessment that
\* raised changes nothing.
Keep(c) ==
  /\ cache' = CASE kind[c] = "evidence" /\ thread[c] = "done" -> Result(c, TagNow(c))
                [] kind[c] = "durable" /\ thread[c] = "done" -> NoEntry
                [] OTHER -> cache
  /\ memo' = IF kind[c] = "memo" /\ thread[c] = "done"
             THEN [memo EXCEPT ![c] = Result(c, TagAtDispatch(c))] ELSE memo

ReturnAndKeep(c) ==
  /\ Return(c)
  /\ Keep(c)
  /\ kind' = [kind EXCEPT ![c] = "none"]

\* A cancelled caller keeps nothing.
CancelledReader(c) ==
  /\ Withdraw(c) \/ PassOn(c) \/ Drained(c)
  /\ kind' = [kind EXCEPT ![c] = "none"]
  /\ UNCHANGED <<cache, memo>>

\* The gate's other steps.
GateStep ==
  /\ \/ \E c \in Callers : Proceed(c) \/ Interrupt(c)
     \/ \E t \in Tasks : ThreadStep(t)
     \/ \E r \in Renewers : RenewerStep(r)
  /\ UNCHANGED reuseVars

ReuseNext ==
  \/ \E c \in Callers :
       \/ \E o \in {"read", "write"} : DispatchOther(c, o)
       \/ \E k \in {"evidence", "durable"} : Assess(c, k)
       \/ AssessWithMemo(c) \/ EndPass(c)
       \/ ReturnAndKeep(c) \/ CancelledReader(c)
  \/ GateStep

ReuseSpec == ReuseInit /\ [][ReuseNext]_vars

-----------------------------------------------------------------------------
(* Properties.                                                             *)

\* A memo that may be handed out holds exactly the writes that have been
\* committed: its tag is older than the assessment, writes are counted when
\* they are dispatched, and the gate is first come first served, so every
\* write the tag counts had been settled when the assessment ran
\* (memoized_assess: "any committed write immediately invalidates it").
MemoIsCurrent ==
  \A c \in Passes : Current(memo[c]) => memo[c].seen = store

\* What the runtime's entry may miss: only writes that were dispatched while
\* its own assessment was under way, never one that came before it.
CacheMissesOnlyOverlap ==
  Current(cache) => \A t \in store \ cache.seen : cache.base < t /\ t <= cache.gen

\* The comment in read() asks more: a kept result "is only reused when no write
\* has committed new evidence/observations since it was taken".
CacheIsCurrent ==
  Current(cache) => cache.seen = store

=============================================================================
