--------------------------- MODULE RevocationPath ---------------------------
(***************************************************************************)
(* A device's revocation from the request to the sockets: the control      *)
(* plane with its outbox (RevocationOutbox) calls the admin route of the   *)
(* session hub, which cuts the device off (SessionHub's Revoke).           *)
(***************************************************************************)
EXTENDS SessionHub, RevocationOutbox

ASSUME PathAssumption == Enrolled \subseteq Devices

pathVars == <<vars, outboxVars>>

PathInit == Init /\ OutboxInit

(* Mutant: the hub answers the call and the account's object never hears   *)
(* of it.                                                                  *)
HubRevokesUnheard(d) == UNCHANGED vars

(* The hub's side of the call: cut off at once; a second call changes      *)
(* nothing.                                                                *)
HubRevokes(d) == Revoke(d)

(* A step of the control plane; the ones that reach the hub are the hub's  *)
(* too.                                                                    *)
ControlStep ==
    /\ OutboxNext
    /\ IF hub' = hub THEN UNCHANGED vars ELSE \E d \in hub' \ hub : HubRevokes(d)

(* The hub's other steps: sockets come and go, frames arrive, leases run.  *)
HubStep ==
    /\ \/ Tick
       \/ \E s \in Sockets : Accept(s) \/ Hello(s) \/ RefuseRevoked(s) \/ Close(s)
       \/ \E s \in Sockets, d \in Devices : LeaseAcquire(s, d) \/ LeaseRelease(s, d)
    /\ UNCHANGED outboxVars

PathNext == ControlStep \/ HubStep

(* A socket told to close goes.                                            *)
ClosingGoes(s) == sock[s].st = "closing" /\ Close(s) /\ UNCHANGED outboxVars

PathFairness ==
    /\ OutboxFairness
    /\ \A s \in Sockets : WF_pathVars(ClosingGoes(s))

PathSpec == PathInit /\ [][PathNext]_pathVars /\ PathFairness

----------------------------------------------------------------------------
(* A revocation the outbox counts as delivered has taken hold: the device  *)
(* has no registered connection, is not shown online, and every socket of  *)
(* its own is on its way out.                                              *)
DeliveredIsOut ==
    \A r \in Requests : row[r].st = "delivered" =>
       LET d == task[r].dev IN
       /\ {c \in conn : c[1] = d} = {} /\ d \notin presence
       /\ \A s \in SocketsOf(d) : sock[s].st = "closing"

(* A queued revocation reaches the sockets: with the hub configured, the   *)
(* device is left without one, through failing calls and restarts, and     *)
(* however often it dials again.                                           *)
RevocationTakesHold ==
    \A r \in Requests :
       (row[r].st = "pending" /\ configured)
          ~> (task[r].dev \in revoked /\ SocketsOf(task[r].dev) = {})
============================================================================
