------------------------------ MODULE SerialStore ------------------------------
(***************************************************************************)
(* What the persistence gate promises to the tasks that call it, with no   *)
(* slot, queue, thread or lock in sight: each call takes effect at one     *)
(* moment between its dispatch and its return, or not at all; the moments  *)
(* come in the order of the dispatches; and a call that has left has no    *)
(* effect any more.  PersistenceGate implements it.                        *)
(***************************************************************************)
EXTENDS Naturals

CONSTANTS Callers, MaxGeneration

VARIABLES
  phase,       \* "open": may still take effect; "settled": has, or never will
  before,      \* for an open call, the open calls dispatched before it
  op,          \* what each caller dispatched last
  ticket,      \* the generation right after that dispatch
  generation,  \* the writes dispatched
  store,       \* the tickets of the writes that took effect
  seen         \* what each caller's read found

vars == <<phase, before, op, ticket, generation, store, seen>>

Open == {c \in Callers : phase[c] = "open"}

Init ==
  /\ phase = [c \in Callers |-> "idle"]
  /\ before = [c \in Callers |-> {}]
  /\ op = [c \in Callers |-> "read"]
  /\ ticket = [c \in Callers |-> 0]
  /\ generation = 0
  /\ store = {}
  /\ seen = [c \in Callers |-> {}]

Dispatch(c, o) ==
  LET g == IF o = "write" THEN generation + 1 ELSE generation
  IN /\ phase[c] = "idle"
     /\ g <= MaxGeneration
     /\ generation' = g
     /\ phase' = [phase EXCEPT ![c] = "open"]
     /\ before' = [before EXCEPT ![c] = Open]
     /\ op' = [op EXCEPT ![c] = o]
     /\ ticket' = [ticket EXCEPT ![c] = g]
     /\ UNCHANGED <<store, seen>>

\* c's call stands in nobody's way any more.
Close(c, next) ==
  /\ phase[c] = "open"
  /\ phase' = [phase EXCEPT ![c] = next]
  /\ before' = [d \in Callers |-> IF d = c THEN {} ELSE before[d] \ {c}]
  /\ generation' = generation

TakeEffect(c) ==
  /\ before[c] = {}
  /\ Close(c, "settled")
  /\ IF op[c] = "write"
     THEN store' = store \cup {ticket[c]} /\ seen' = seen
     ELSE seen' = [seen EXCEPT ![c] = store] /\ store' = store
  /\ UNCHANGED <<op, ticket>>

Fail(c) ==
  /\ Close(c, "settled")
  /\ UNCHANGED <<op, ticket, store, seen>>

Forget(c) ==
  /\ op' = [op EXCEPT ![c] = "read"]
  /\ ticket' = [ticket EXCEPT ![c] = 0]
  /\ seen' = [seen EXCEPT ![c] = {}]

\* Cancelled in time.
Withdraw(c) ==
  /\ Close(c, "idle")
  /\ Forget(c)
  /\ store' = store

Return(c) ==
  /\ phase[c] = "settled"
  /\ phase' = [phase EXCEPT ![c] = "idle"]
  /\ Forget(c)
  /\ UNCHANGED <<before, generation, store>>

Next ==
  \E c \in Callers :
    \/ \E o \in {"read", "write"} : Dispatch(c, o)
    \/ TakeEffect(c) \/ Fail(c) \/ Withdraw(c) \/ Return(c)

Spec == Init /\ [][Next]_vars

=============================================================================
