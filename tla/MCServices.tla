------------------------------ MODULE MCServices ------------------------------
(* Small instances of six components that share nothing, checked side by side: *)
(* a behaviour belongs to the component chosen at the start (part), and the    *)
(* others rest in one initial state.  The model values are shared, so that one *)
(* symmetry set serves them all: a stands for coroutines, requests and         *)
(* accounts, b for what they work on; t1 is in no symmetry.                    *)
EXTENDS ReadinessReuse, ReadinessFlights, SuggestionEpisodes, RoleAdmin, IbkrConnector,
        HoldingsSync, TLC

CONSTANTS a1, a2, a3, b1, b2, t1

VARIABLE part

serviceVars == <<vars, flightVars, episodeVars, roleVars, ibkrVars, holdingVars,
                 part>>

ServicesInit ==
  /\ ReuseInit /\ FlightInit /\ EpisodeInit /\ RoleInit /\ IbkrInit /\ HoldingsInit
  /\ part \in {"reuse", "flights", "episodes", "roles", "ibkr", "holdings"}
  /\ portfolioExists => part = "holdings"

ServicesNext ==
  /\ UNCHANGED part
  /\ \/ /\ part = "reuse" /\ ReuseNext
        /\ UNCHANGED <<flightVars, episodeVars, roleVars, ibkrVars, holdingVars>>
     \/ /\ part = "flights" /\ FlightNext
        /\ UNCHANGED <<vars, episodeVars, roleVars, ibkrVars, holdingVars>>
     \/ /\ part = "episodes" /\ EpisodeNext
        /\ UNCHANGED <<vars, flightVars, roleVars, ibkrVars, holdingVars>>
     \/ /\ part = "roles" /\ RoleNext
        /\ UNCHANGED <<vars, flightVars, episodeVars, ibkrVars, holdingVars>>
     \/ /\ part = "ibkr" /\ IbkrNext
        /\ UNCHANGED <<vars, flightVars, episodeVars, roleVars, holdingVars>>
     \/ /\ part = "holdings" /\ HoldingsNext
        /\ UNCHANGED <<vars, flightVars, episodeVars, roleVars, ibkrVars>>

ServicesSpec == ServicesInit /\ [][ServicesNext]_serviceVars

(* The variables of all six components have their types.                      *)
ServicesTypeOK ==
  CASE part = "reuse" -> ReuseTypeOK
    [] part = "flights" -> FlightTypeOK
    [] part = "episodes" -> EpisodeTypeOK
    [] part = "roles" -> RoleTypeOK
    [] part = "ibkr" -> IbkrTypeOK
    [] part = "holdings" -> HoldingsTypeOK

Symmetry == Permutations({a1, a2, a3}) \cup Permutations({b1, b2})

===============================================================================
