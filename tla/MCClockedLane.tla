--------------------------- MODULE MCClockedLane ---------------------------
(* Two components of the sync plane that share no state in the model, in one *)
(* run: a behaviour is of the fleet's clocks, or of the way of a change from *)
(* the browser to the hub.                                                   *)
EXTENDS HlcClocks, PublishLane

VARIABLE part
partsVars == <<vars, laneVars, part>>

PartsInit == part \in {"clocks", "lane"} /\ Init /\ LaneInit

PartsNext ==
    \/ part = "clocks" /\ Next /\ UNCHANGED <<laneVars, part>>
    \/ part = "lane" /\ LaneNext /\ UNCHANGED <<vars, part>>

PartsSpec == PartsInit /\ [][PartsNext]_partsVars
=============================================================================
