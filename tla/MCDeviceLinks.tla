--------------------------- MODULE MCDeviceLinks ---------------------------
(* What reaches a user's other devices, in one run: a behaviour is of the    *)
(* session records two engines exchange, of a terminal used from away, or of *)
(* the sockets of the relay that carries it. The three share no state.       *)
EXTENDS MCEngineReplicas, HomeTerminal, RelayLinks

VARIABLE link
linkVars == <<vars, htVars, rlVars, link>>

(* What is not looked at stays where it is: no client is made, no shell is   *)
(* there.                                                                    *)
LinkInit ==
    /\ link \in {"records", "terminal", "sockets"}
    /\ Init /\ HtInit /\ RlInit
    /\ link # "sockets" => ends = [x \in Endpoints |-> SwitchedOff]
    /\ link # "terminal" => ~sim.shell

LinkNext ==
    \/ link = "records" /\ Next /\ UNCHANGED <<htVars, rlVars, link>>
    \/ link = "terminal" /\ HtNext /\ UNCHANGED <<vars, rlVars, link>>
    \/ link = "sockets" /\ RlNext /\ UNCHANGED <<vars, htVars, link>>

LinkSpec ==
    /\ LinkInit /\ [][LinkNext]_linkVars
    /\ (link # "sockets" /\ HtFairness) \/ (link = "sockets" /\ RlFairness)
=============================================================================
