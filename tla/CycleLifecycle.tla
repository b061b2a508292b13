--------------------------- MODULE CycleLifecycle ---------------------------
(***************************************************************************)
(* What a research cycle promises to whoever starts, cancels or reads one, *)
(* with no owner, lease or slot in sight: a market has one unfinished      *)
(* cycle at a time; a cycle is shown to users at once and for good; and a  *)
(* cycle that was asked to stop, or was shown, has only one way to end.    *)
(* CycleStore implements it.                                               *)
(***************************************************************************)
CONSTANTS Cycles, Markets, MarketOf

VARIABLES
  phase,      \* where each cycle stands
  shown,      \* cycles whose selection users can read
  projected   \* cycles whose suggestions users can read

vars == <<phase, shown, projected>>

Unfinished == {"OPEN", "PUBLISHED", "CANCEL_REQUESTED"}
Ends == {"COMPLETED", "FAILED", "CANCELLED"}

Init ==
  /\ phase = [c \in Cycles |-> "NEW"]
  /\ shown = {}
  /\ projected = {}

Open(c) ==
  /\ phase[c] = "NEW"
  /\ \A d \in Cycles : MarketOf[d] = MarketOf[c] => phase[d] \notin Unfinished
  /\ phase' = [phase EXCEPT ![c] = "OPEN"]
  /\ UNCHANGED <<shown, projected>>

Publish(c) ==
  /\ phase[c] = "OPEN"
  /\ phase' = [phase EXCEPT ![c] = "PUBLISHED"]
  /\ shown' = shown \cup {c}
  /\ UNCHANGED projected

Project(c) ==
  /\ phase[c] = "PUBLISHED"
  /\ projected' = projected \cup {c}
  /\ UNCHANGED <<phase, shown>>

AskCancel(c) ==
  /\ phase[c] = "OPEN"
  /\ phase' = [phase EXCEPT ![c] = "CANCEL_REQUESTED"]
  /\ UNCHANGED <<shown, projected>>

WaysToEnd(p) ==
  CASE p = "OPEN"             -> Ends
    [] p = "PUBLISHED"        -> {"COMPLETED"}
    [] p = "CANCEL_REQUESTED" -> {"CANCELLED"}
    [] OTHER                  -> {}

End(c) ==
  /\ \E end \in WaysToEnd(phase[c]) : phase' = [phase EXCEPT ![c] = end]
  /\ UNCHANGED <<shown, projected>>

Next ==
  \E c \in Cycles :
    Open(c) \/ Publish(c) \/ Project(c) \/ AskCancel(c) \/ End(c)

Spec == Init /\ [][Next]_vars

=============================================================================
