--------------------------- MODULE MCRecordsGate ---------------------------
(* The two ends of a record's way down, which share no state in the model,   *)
(* in one run: a behaviour is of the hub that stores and fans out versions,  *)
(* or of the desktop service that lets them into the browser.                *)
EXTENDS SessionHub, SessionGate

VARIABLE end
endsVars == <<vars, gateVars, end>>

(* The hub's behaviours leave the desktop with a space that is hydrated.      *)
EndsInit ==
    /\ Init
    /\ \/ end = "desktop" /\ GateInit
       \/ /\ end = "hub"
          /\ space = [NewSpace({}) EXCEPT !.once = TRUE] /\ gate = "open" /\ link = NoLink /\ peers = NoPeers

EndsNext ==
    \/ end = "hub" /\ Next /\ UNCHANGED <<gateVars, end>>
    \/ end = "desktop" /\ GateNext /\ UNCHANGED <<vars, end>>

EndsSpec == EndsInit /\ [][EndsNext]_endsVars /\ (end = "hub" \/ GateFairness)
=============================================================================
