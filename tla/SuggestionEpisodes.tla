------------------------- MODULE SuggestionEpisodes -------------------------
(* The durable suggestions for one instrument and horizon:                   *)
(* persist_global_suggestion_lifecycle of opportunity_persistence over       *)
(* global_stock_suggestion (opened: when each recommendation episode began,  *)
(* by suggestion number), global_stock_suggestion_history (history) and      *)
(* global_stock_suggestion_current (current).  A cycle publishes one scan,   *)
(* whose card for the instrument it keeps in the selection (published), and  *)
(* projects it in a transaction of its own; a worker that crashed before the *)
(* run was completed projects the same scan again.  A run keeps the market's *)
(* slot until it is completed, so scans are projected one after the other    *)
(* (CycleWorker, ScansTakeTurns).  A fingerprint stands for the action and   *)
(* the evidence it was computed from.                                        *)
EXTENDS Naturals, Sequences

CONSTANTS Evidence,   \* states of the evidence behind a card
          MaxScans    \* bound on the scans published

ASSUME EpisodeAssumption == MaxScans \in Nat

VARIABLES scans, published, projected, opened, history, current

(* projected: whether the published scan has been projected, history only.   *)
episodeVars == <<scans, published, projected, opened, history, current>>

Buys == {"STRONG_BUY", "BUY"}
Actions == Buys \cup {"PARTIAL_EXIT", "SELL"}

NoCard == [action |-> "NONE"]
Cards == [action : Actions, evidence : Evidence]

NoCurrent == [suggestion |-> 0, action |-> "NONE", since |-> 0, at |-> 0]

EpisodeInit ==
  /\ scans = 0
  /\ published = NoCard
  /\ projected = TRUE
  /\ opened = << >>
  /\ history = << >>
  /\ current = NoCurrent

(* The card is in the selection the cycle publishes; NoCard when the         *)
(* instrument is in none of its sections.                                    *)
PublishCard(card) ==
  /\ projected /\ scans < MaxScans
  /\ scans' = scans + 1
  /\ published' = card
  /\ projected' = FALSE
  /\ UNCHANGED <<opened, history, current>>

(* Where the events of suggestion s are; the newest of them is what          *)
(* ORDER BY action_at DESC, event_id DESC finds.                             *)
EventsOf(s) == {i \in 1 .. Len(history) : history[i].suggestion = s}

LastEvent(s) == history[CHOOSE i \in EventsOf(s) : \A j \in EventsOf(s) : j <= i]

(* The faulty form of Opens: every BUY begins an episode.                    *)
OpensEachBuy(card) == card.action \in Buys

(* A fresh episode: nothing yet, or a BUY after the last one was closed.     *)
Opens(card) ==
  card.action \in Buys /\ (current = NoCurrent \/ current.action = "SELL")

(* Without an episode only a BUY counts.                                     *)
Counts(card) == card # NoCard /\ (current = NoCurrent => card.action \in Buys)

SameEvent(e, card) == e.action = card.action /\ e.evidence = card.evidence

(* The faulty form of Recorded: any earlier event will do.                   *)
RecordedBefore(s, card) == \E i \in EventsOf(s) : SameEvent(history[i], card)

(* The last event of the episode has the card's fingerprint already.         *)
Recorded(s, card) == EventsOf(s) # {} /\ SameEvent(LastEvent(s), card)

(* _persist_single_suggestion for the card of the published scan.            *)
ProjectCard ==
  LET card == published
      s == IF Opens(card) THEN Len(opened) + 1 ELSE current.suggestion
      event == [suggestion |-> s, action |-> card.action, evidence |-> card.evidence,
                at |-> scans] IN
  /\ scans > 0
  /\ projected' = TRUE
  /\ IF Counts(card)
       THEN /\ opened' = IF Opens(card) THEN Append(opened, scans) ELSE opened
            /\ history' = IF Recorded(s, card) THEN history ELSE Append(history, event)
            /\ current' = [suggestion |-> s, action |-> card.action,
                           since |-> opened'[s], at |-> scans]
       ELSE UNCHANGED <<opened, history, current>>
  /\ UNCHANGED <<scans, published>>

EpisodeNext == (\E card \in Cards \cup {NoCard} : PublishCard(card)) \/ ProjectCard

EpisodeSpec == EpisodeInit /\ [][EpisodeNext]_episodeVars

-----------------------------------------------------------------------------
EpisodeTypeOK ==
  /\ scans \in 0 .. MaxScans
  /\ published \in Cards \cup {NoCard}
  /\ projected \in BOOLEAN
  /\ opened \in Seq(1 .. MaxScans)
  /\ history \in Seq([suggestion : 1 .. MaxScans, action : Actions,
                      evidence : Evidence, at : 1 .. MaxScans])
  /\ current \in {NoCurrent} \cup
       [suggestion : 1 .. MaxScans, action : Actions, since : 1 .. MaxScans,
        at : 1 .. MaxScans]

(* Projecting a scan again after a crash leaves the rows as they are         *)
(* ("re-run only the idempotent suggestion-lifecycle step").                 *)
ReplayIsSilent ==
  [][projected /\ projected' /\ scans' = scans =>
       UNCHANGED <<opened, history, current>>]_episodeVars

(* What the radar shows agrees with the record: the current row names the    *)
(* newest episode, since when it stands, and the action of the last event of *)
(* that episode, and every episode has events, the first one a BUY.          *)
ProjectionTellsHistory ==
  /\ current = NoCurrent <=> opened = << >>
  /\ current # NoCurrent =>
       /\ current.suggestion = Len(opened)
       /\ current.since = opened[Len(opened)]
       /\ current.action = LastEvent(current.suggestion).action
  /\ \A s \in 1 .. Len(opened) :
       \E i \in EventsOf(s) : history[i].action \in Buys /\ \A j \in EventsOf(s) : i <= j

=============================================================================
