--------------------------- MODULE MCMachineAgent ---------------------------
(* Two services of the machine agent, which share no state in the model, in   *)
(* one run: a behaviour is of a terminal, or of a download for Files.         *)
EXTENDS PtyStream, FileTransfer

VARIABLE service
serviceVars == <<ptyVars, transferVars, service>>

ServiceInit ==
    /\ PtyInit /\ TransferInit
    /\ service \in {"terminal", "fetch"}
    /\ service = "fetch" => ~agent.mux

ServiceNext ==
    \/ service = "terminal" /\ PtyNext /\ UNCHANGED <<transferVars, service>>
    \/ service = "fetch" /\ TransferNext /\ UNCHANGED <<ptyVars, service>>

(* The service that is not looked at has nothing to do.                       *)
ServiceSpec ==
    ServiceInit /\ [][ServiceNext]_serviceVars /\ PtyFairness /\ TransferFairness
=============================================================================
