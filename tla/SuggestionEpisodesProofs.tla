----------------------- MODULE SuggestionEpisodesProofs -----------------------
(* For any number of scans and any evidence: projecting a scan again changes *)
(* nothing, and the current suggestion agrees with the recorded history.     *)
EXTENDS SuggestionEpisodes, TLAPS

LastAt(i, s) == i \in EventsOf(s) /\ \A j \in EventsOf(s) : j <= i

FirstIsBuy(s) ==
  \E i \in EventsOf(s) : history[i].action \in Buys /\ \A j \in EventsOf(s) : i <= j

(* Every event is of an episode, and every episode has a last event and      *)
(* begins with a BUY.  That there is a last one is part of the invariant:    *)
(* it needs no induction over the history then.                              *)
EventsInOrder ==
  /\ \A i \in 1 .. Len(history) : history[i].suggestion \in 1 .. Len(opened)
  /\ \A s \in 1 .. Len(opened) : FirstIsBuy(s) /\ \E i \in Nat : LastAt(i, s)

CurrentAgrees ==
  /\ current = NoCurrent <=> Len(opened) = 0
  /\ current # NoCurrent =>
       /\ current.suggestion = Len(opened)
       /\ current.since = opened[Len(opened)]
       /\ \A i \in Nat : LastAt(i, current.suggestion) => current.action = history[i].action

(* A scan opens at most one episode.                                         *)
OneEpisodePerScan == Len(opened) <= scans /\ (~projected => Len(opened) < scans)

(* What is left of a scan that was projected.                                *)
Settled ==
  projected /\ Counts(published) =>
    /\ current = [suggestion |-> Len(opened), action |-> published.action,
                  since |-> opened[Len(opened)], at |-> scans]
    /\ \A i \in Nat : LastAt(i, Len(opened)) => SameEvent(history[i], published)

EpisodeInv ==
  EpisodeTypeOK /\ EventsInOrder /\ CurrentAgrees /\ OneEpisodePerScan /\ Settled

-----------------------------------------------------------------------------
(* The event that ORDER BY ... DESC LIMIT 1 finds is the last one.           *)
LEMMA LastEventIs ==
  ASSUME NEW s, NEW i, LastAt(i, s)
  PROVE  LastEvent(s) = history[i]
<1> DEFINE P(k) == \A j \in EventsOf(s) : j <= k
<1>1. i \in EventsOf(s) /\ P(i)
  BY DEF LastAt
<1>2. (CHOOSE k \in EventsOf(s) : P(k)) \in EventsOf(s) /\ P(CHOOSE k \in EventsOf(s) : P(k))
  BY <1>1
<1>3. \A k \in EventsOf(s) : P(k) => k = i
  BY <1>1 DEF EventsOf
<1>4. (CHOOSE k \in EventsOf(s) : P(k)) = i
  BY <1>2, <1>3
<1> QED
  BY <1>4 DEF LastEvent

(* A scan that was projected finds its own event and its own projection.     *)
LEMMA SilentReplay ==
  ASSUME EpisodeInv, ProjectCard, projected
  PROVE  UNCHANGED <<opened, history, current>>
<1>1. CASE ~Counts(published)
  BY <1>1 DEF ProjectCard
<1>2. CASE Counts(published)
  <2>1. /\ current = [suggestion |-> Len(opened), action |-> published.action,
                      since |-> opened[Len(opened)], at |-> scans]
        /\ \A i \in Nat : LastAt(i, Len(opened)) => SameEvent(history[i], published)
    BY <1>2 DEF EpisodeInv, Settled
  <2>2. ~Opens(published)
    BY <2>1, <1>2 DEF Opens, Buys, NoCurrent, Counts, EpisodeInv, CurrentAgrees
  <2>3. current.suggestion = Len(opened) /\ Len(opened) \in Nat \ {0}
    BY <2>1, <2>2, <1>2 DEF EpisodeInv, EpisodeTypeOK, CurrentAgrees, Counts, Opens
  <2>4. PICK i \in Nat : LastAt(i, Len(opened))
    BY <2>3 DEF EpisodeInv, EventsInOrder
  <2>5. Recorded(Len(opened), published)
    BY <2>1, <2>4, LastEventIs DEF Recorded, LastAt
  <2> QED
    BY <1>2, <2>1, <2>2, <2>3, <2>5 DEF ProjectCard
<1> QED
  BY <1>1, <1>2

(* What a projection that counts writes, for the episode s it belongs to.    *)
LEMMA ProjectedRows ==
  ASSUME EpisodeInv, ProjectCard, Counts(published)
  PROVE  /\ Len(opened') \in 1 .. MaxScans /\ Len(opened') <= scans
         /\ opened' \in Seq(1 .. MaxScans)
         /\ current' = [suggestion |-> Len(opened'), action |-> published.action,
                        since |-> opened'[Len(opened')], at |-> scans]
         /\ published \in Cards
         /\ \/ opened' = opened /\ published.action \in Actions
            \/ Len(opened') = Len(opened) + 1 /\ published.action \in Buys
<1>1. published \in Cards /\ published.action \in Actions
  BY DEF EpisodeInv, EpisodeTypeOK, Counts, Cards
<1>2. /\ scans \in 1 .. MaxScans /\ opened \in Seq(1 .. MaxScans)
      /\ Len(opened) \in Nat /\ Len(opened) <= scans
  BY DEF EpisodeInv, EpisodeTypeOK, ProjectCard, OneEpisodePerScan
<1>3. CASE Opens(published)
  <2>1. ~projected
    <3>1. SUFFICES ASSUME projected PROVE FALSE
      BY DEF EpisodeInv, EpisodeTypeOK
    <3>2. Len(opened') = Len(opened) + 1
      BY <1>2, <1>3 DEF ProjectCard
    <3>3. opened' = opened
      BY <3>1, SilentReplay
    <3> QED
      BY <1>2, <3>2, <3>3
  <2>2. opened' = Append(opened, scans) /\ Len(opened') = Len(opened) + 1
    BY <1>2, <1>3 DEF ProjectCard
  <2>3. opened' \in Seq(1 .. MaxScans)
    BY <1>2, <2>2
  <2>4. Len(opened') <= scans /\ Len(opened') \in 1 .. MaxScans
    BY <1>2, <2>1, <2>2, EpisodeAssumption DEF EpisodeInv, OneEpisodePerScan
  <2>5. published.action \in Buys
    BY <1>3 DEF Opens
  <2> QED
    BY <1>1, <1>3, <2>2, <2>3, <2>4, <2>5 DEF ProjectCard
<1>4. CASE ~Opens(published)
  <2>1. opened' = opened
    BY <1>4 DEF ProjectCard
  <2>2. current # NoCurrent
    BY <1>4 DEF Counts, Opens
  <2>3. current.suggestion = Len(opened) /\ Len(opened) # 0
    BY <2>2 DEF EpisodeInv, CurrentAgrees
  <2>4. Len(opened) \in 1 .. MaxScans
    BY <1>2, <2>3, EpisodeAssumption
  <2> QED
    BY <1>1, <1>2, <1>4, <2>1, <2>3, <2>4 DEF ProjectCard
<1> QED
  BY <1>3, <1>4

(* After it the newest event of the episode is the card's, and the events of *)
(* the other episodes are where they were.                                   *)
LEMMA ProjectedHistory ==
  ASSUME EpisodeInv, ProjectCard, Counts(published)
  PROVE  /\ history' \in Seq([suggestion : 1 .. MaxScans, action : Actions,
                             evidence : Evidence, at : 1 .. MaxScans])
         /\ EventsInOrder'
         /\ \A i \in Nat : LastAt(i, Len(opened))' => SameEvent(history'[i], published)
<1>0. PICK s \in Nat : s = Len(opened')
  BY ProjectedRows, EpisodeAssumption
<1> DEFINE Event == [suggestion : 1 .. MaxScans, action : Actions,
                     evidence : Evidence, at : 1 .. MaxScans]
           event == [suggestion |-> s, action |-> published.action,
                     evidence |-> published.evidence, at |-> scans]
<1>1. /\ s \in 1 .. MaxScans /\ published \in Cards /\ Len(opened) \in Nat
      /\ \/ opened' = opened
         \/ Len(opened') = Len(opened) + 1 /\ published.action \in Buys
  BY <1>0, ProjectedRows DEF EpisodeInv, EpisodeTypeOK
<1>2. history \in Seq(Event) /\ Len(history) \in Nat /\ scans \in 1 .. MaxScans
  BY DEF EpisodeInv, EpisodeTypeOK, ProjectCard
<1>3. event \in Event
  BY <1>1, <1>2 DEF Cards
<1>4. history' = IF Recorded(s, published) THEN history ELSE Append(history, event)
  <2>1. current'.suggestion = s
    BY <1>0, ProjectedRows
  <2>2. s = IF Opens(published) THEN Len(opened) + 1 ELSE current.suggestion
    BY <2>1 DEF ProjectCard
  <2> QED
    BY <2>2 DEF ProjectCard
<1>5. CASE Recorded(s, published)
  <2>1. history' = history
    BY <1>4, <1>5
  <2>2. EventsOf(s) # {}
    BY <1>5 DEF Recorded
  <2>3. opened' = opened
    BY <1>0, <1>1, <2>2 DEF EventsOf, EpisodeInv, EventsInOrder
  <2>7. \A r : EventsOf(r)' = EventsOf(r)
    BY <2>1 DEF EventsOf
  <2>4. EventsInOrder'
    BY <2>1, <2>3, <2>7 DEF EpisodeInv, EventsInOrder, FirstIsBuy, LastAt
  <2>5. \A i \in Nat : LastAt(i, s) => SameEvent(history[i], published)
    BY <1>5, LastEventIs DEF Recorded
  <2>6. \A i \in Nat : LastAt(i, s)' => LastAt(i, s)
    BY <2>1 DEF LastAt, EventsOf
  <2> QED
    BY <1>0, <1>2, <2>1, <2>4, <2>5, <2>6
<1>6. CASE ~Recorded(s, published)
  <2>0. PICK n \in Nat : n = Len(history) + 1
    BY <1>2
  <2>1. /\ history' = Append(history, event) /\ history' \in Seq(Event)
        /\ Len(history') = n /\ history'[n] = event
        /\ \A i \in 1 .. Len(history) : history'[i] = history[i]
    BY <1>2, <1>3, <1>4, <1>6, <2>0
  <2>2. EventsOf(s)' = EventsOf(s) \cup {n}
    BY <1>2, <2>0, <2>1 DEF EventsOf
  <2>3. \A r : r # s => EventsOf(r)' = EventsOf(r)
    BY <1>2, <2>0, <2>1 DEF EventsOf
  <2>4. \A r : EventsOf(r) \subseteq 1 .. Len(history)
    BY DEF EventsOf
  <2>5. n \in EventsOf(s)' /\ LastAt(n, s)'
    BY <1>2, <2>0, <2>2, <2>4 DEF LastAt
  <2>6. ASSUME NEW r \in 1 .. s
        PROVE  FirstIsBuy(r)' /\ \E i \in Nat : LastAt(i, r)'
    <3>1. CASE r # s
      <4>1. r \in 1 .. Len(opened)
        BY <1>0, <1>1, <3>1
      <4>2. FirstIsBuy(r) /\ \E i \in Nat : LastAt(i, r)
        BY <4>1 DEF EpisodeInv, EventsInOrder
      <4>3. EventsOf(r)' = EventsOf(r)
        BY <2>3, <3>1
      <4>4. \A i \in EventsOf(r) : history'[i] = history[i]
        BY <2>1, <2>4
      <4>5. FirstIsBuy(r)'
        BY <4>2, <4>3, <4>4 DEF FirstIsBuy
      <4>6. \E i \in Nat : LastAt(i, r)'
        BY <4>2, <4>3 DEF LastAt
      <4> QED
        BY <4>5, <4>6
    <3>2. CASE r = s /\ opened' = opened
      <4>1. FirstIsBuy(s)
        BY <1>0, <3>2 DEF EpisodeInv, EventsInOrder
      <4>2. PICK i \in EventsOf(s) :
               history[i].action \in Buys /\ \A j \in EventsOf(s) : i <= j
        BY <4>1 DEF FirstIsBuy
      <4>3. i \in EventsOf(s)' /\ history'[i].action \in Buys
        BY <2>0, <2>1, <2>2, <2>4, <4>2
      <4>4. \A j \in EventsOf(s)' : i <= j
        BY <1>2, <2>0, <2>2, <2>4, <4>2
      <4> QED
        BY <1>2, <2>0, <2>5, <3>2, <4>3, <4>4 DEF FirstIsBuy
    <3>3. CASE r = s /\ Len(opened') = Len(opened) + 1 /\ published.action \in Buys
      <4>1. EventsOf(s) = {}
        BY <1>0, <1>1, <3>3 DEF EventsOf, EpisodeInv, EventsInOrder
      <4>2. EventsOf(s)' = {n} /\ history'[n].action \in Buys
        BY <2>0, <2>1, <2>2, <3>3, <4>1
      <4> QED
        BY <1>2, <2>0, <2>5, <3>3, <4>2 DEF FirstIsBuy
    <3> QED
      BY <1>1, <3>1, <3>2, <3>3
  <2>7. \A i \in 1 .. Len(history') : history'[i].suggestion \in 1 .. s
    <3>1. \A i \in 1 .. Len(history) : history[i].suggestion \in 1 .. Len(opened)
      BY DEF EpisodeInv, EventsInOrder
    <3>2. Len(opened) <= s /\ s \in 1 .. s
      BY <1>0, <1>1
    <3> QED
      BY <1>2, <2>0, <2>1, <3>1, <3>2
  <2>8. EventsInOrder'
    BY <1>0, <2>6, <2>7 DEF EventsInOrder
  <2>9. \A i \in Nat : LastAt(i, s)' => i = n
    BY <1>2, <2>0, <2>2, <2>4, <2>5 DEF LastAt
  <2>10. SameEvent(history'[n], published)
    BY <2>1 DEF SameEvent
  <2> QED
    BY <1>0, <2>0, <2>1, <2>8, <2>9, <2>10
<1> QED
  BY <1>5, <1>6

-----------------------------------------------------------------------------
(* EpisodeInv holds initially and every step preserves it.                   *)
THEOREM EpisodeInitInv == EpisodeInit => EpisodeInv
<1> SUFFICES ASSUME EpisodeInit PROVE EpisodeInv
  OBVIOUS
<1>1. EpisodeTypeOK
  BY EpisodeAssumption DEF EpisodeInit, EpisodeTypeOK
<1>2. EventsInOrder /\ CurrentAgrees /\ OneEpisodePerScan
  BY DEF EpisodeInit, EventsInOrder, CurrentAgrees, OneEpisodePerScan
<1>3. Settled
  BY DEF EpisodeInit, Settled, Counts
<1> QED
  BY <1>1, <1>2, <1>3 DEF EpisodeInv

(* Publishing a scan and projecting one, for the first time or again, keep   *)
(* the invariant.                                                            *)
THEOREM EpisodeStepInv == EpisodeInv /\ [EpisodeNext]_episodeVars => EpisodeInv'
<1> SUFFICES ASSUME EpisodeInv, [EpisodeNext]_episodeVars PROVE EpisodeInv'
  OBVIOUS
<1> USE EpisodeAssumption
<1>1. ASSUME NEW card \in Cards \cup {NoCard}, PublishCard(card)
      PROVE  EpisodeInv'
  <2>0. /\ scans' = scans + 1 /\ scans < MaxScans /\ published' = card
        /\ projected' = FALSE /\ UNCHANGED <<opened, history, current>>
    BY <1>1 DEF PublishCard
  <2>1. EpisodeTypeOK'
    <3>1. scans' \in 0 .. MaxScans
      BY <2>0 DEF EpisodeInv, EpisodeTypeOK
    <3>2. published' \in Cards \cup {NoCard} /\ projected' \in BOOLEAN
      BY <2>0
    <3> QED
      BY <2>0, <3>1, <3>2 DEF EpisodeInv, EpisodeTypeOK
  <2>2. EventsInOrder' /\ CurrentAgrees' /\ Settled'
    BY <1>1
    DEF PublishCard, EpisodeInv, EventsInOrder, CurrentAgrees, Settled, FirstIsBuy, LastAt,
        EventsOf
  <2>3. OneEpisodePerScan'
    BY <1>1 DEF PublishCard, EpisodeInv, EpisodeTypeOK, OneEpisodePerScan
  <2> QED
    BY <2>1, <2>2, <2>3 DEF EpisodeInv
<1>2. ASSUME ProjectCard, ~Counts(published)
      PROVE  EpisodeInv'
  <2>1. projected' = TRUE /\ UNCHANGED <<scans, published, opened, history, current>>
    BY <1>2 DEF ProjectCard
  <2>2. EpisodeTypeOK' /\ OneEpisodePerScan'
    BY <2>1 DEF EpisodeInv, EpisodeTypeOK, OneEpisodePerScan
  <2>3. EventsInOrder' /\ CurrentAgrees'
    BY <2>1 DEF EpisodeInv, EventsInOrder, CurrentAgrees, FirstIsBuy, LastAt, EventsOf
  <2>4. Settled'
    BY <1>2, <2>1 DEF Settled, Counts
  <2> QED
    BY <2>2, <2>3, <2>4 DEF EpisodeInv
<1>3. ASSUME ProjectCard, Counts(published)
      PROVE  EpisodeInv'
  <2>1. /\ projected' = TRUE /\ UNCHANGED <<scans, published>>
        /\ scans \in 1 .. MaxScans
    BY <1>3 DEF ProjectCard, EpisodeInv, EpisodeTypeOK
  <2>2. PICK n \in 1 .. MaxScans : n = Len(opened')
    BY <1>3, ProjectedRows
  <2>3. opened'[n] \in 1 .. MaxScans
    BY <1>3, <2>2, ProjectedRows
  <2>4. current' = [suggestion |-> n, action |-> published.action,
                    since |-> opened'[n], at |-> scans]
    BY <1>3, <2>2, ProjectedRows
  <2>5. EpisodeTypeOK'
    <3>1. published.action \in Actions
      BY <1>3, ProjectedRows DEF Cards
    <3> QED
      BY <1>3, <2>1, <2>2, <2>3, <2>4, <3>1, ProjectedRows, ProjectedHistory
      DEF EpisodeInv, EpisodeTypeOK
  <2>6. OneEpisodePerScan'
    BY <1>3, <2>1, ProjectedRows DEF OneEpisodePerScan
  <2>7. \A i \in Nat : LastAt(i, n)' => SameEvent(history'[i], published)
    BY <1>3, <2>2, ProjectedHistory
  <2>8. CurrentAgrees'
    <3>1. current' # NoCurrent /\ n # 0
      BY <2>2, <2>4 DEF NoCurrent
    <3> QED
      BY <2>2, <2>4, <2>7, <3>1 DEF CurrentAgrees, SameEvent
  <2>9. Settled'
    BY <2>1, <2>2, <2>4, <2>7 DEF Settled
  <2> QED
    BY <1>3, <2>5, <2>6, <2>8, <2>9, ProjectedHistory DEF EpisodeInv
<1>4. ASSUME UNCHANGED episodeVars
      PROVE  EpisodeInv'
  BY <1>4
  DEF episodeVars, EpisodeInv, EpisodeTypeOK, EventsInOrder, CurrentAgrees,
      OneEpisodePerScan, Settled, Counts, FirstIsBuy, LastAt, EventsOf
<1> QED
  BY <1>1, <1>2, <1>3, <1>4 DEF EpisodeNext

(* The invariant of episodes, history and projection holds after any         *)
(* sequence of scans and replays.                                            *)
THEOREM EpisodeInvAlways == EpisodeSpec => []EpisodeInv
BY EpisodeInitInv, EpisodeStepInv, PTL DEF EpisodeSpec

(* The suggestion tables have their types whatever is published.             *)
THEOREM EpisodeTypeAlways == EpisodeSpec => []EpisodeTypeOK
<1>1. EpisodeInv => EpisodeTypeOK
  BY DEF EpisodeInv
<1> QED
  BY <1>1, EpisodeInvAlways, PTL

(* persist_global_suggestion_lifecycle for a scan that was projected before, *)
(* as after a crash, leaves every row as it is.                              *)
THEOREM ReplayAlwaysSilent == EpisodeSpec => ReplayIsSilent
<1>1. EpisodeInv /\ [EpisodeNext]_episodeVars =>
        [projected /\ projected' /\ scans' = scans =>
           UNCHANGED <<opened, history, current>>]_episodeVars
  BY SilentReplay DEF EpisodeNext, PublishCard, episodeVars
<1> QED
  BY <1>1, EpisodeInvAlways, PTL DEF EpisodeSpec, ReplayIsSilent

(* The current suggestion, the episode it names and the last event of that   *)
(* episode agree after any number of scans.                                  *)
THEOREM ProjectionAlwaysTells == EpisodeSpec => []ProjectionTellsHistory
<1>1. EpisodeInv => ProjectionTellsHistory
  <2> SUFFICES ASSUME EpisodeInv PROVE ProjectionTellsHistory
    OBVIOUS
  <2>1. opened = << >> <=> Len(opened) = 0
    BY DEF EpisodeInv, EpisodeTypeOK
  <2>2. ASSUME current # NoCurrent
        PROVE  current.action = LastEvent(current.suggestion).action
    <3>1. current.suggestion \in 1 .. Len(opened)
      BY <2>2 DEF EpisodeInv, EpisodeTypeOK, CurrentAgrees
    <3>2. PICK i \in Nat : LastAt(i, current.suggestion)
      BY <3>1 DEF EpisodeInv, EventsInOrder
    <3>3. current.action = history[i].action
      BY <2>2, <3>2 DEF EpisodeInv, CurrentAgrees
    <3> QED
      BY <3>2, <3>3, LastEventIs
  <2>3. \A s \in 1 .. Len(opened) : FirstIsBuy(s)
    BY DEF EpisodeInv, EventsInOrder
  <2> QED
    BY <2>1, <2>2, <2>3 DEF EpisodeInv, CurrentAgrees, ProjectionTellsHistory, FirstIsBuy
<1> QED
  BY <1>1, EpisodeInvAlways, PTL

=============================================================================
