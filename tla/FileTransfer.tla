---------------------------- MODULE FileTransfer ----------------------------
(* One cloud fetch: the row the control plane keeps of it, the download on    *)
(* the account's computer, and the desktop that started it, which tells the   *)
(* control plane what the computer does, stores the result in Files, and      *)
(* carries the user's cancellation to both.                                   *)
EXTENDS Naturals, Sequences

CONSTANTS
    MaxTransferFaults,  \* bound: calls that fail or go unanswered, lost events
    MaxProgress         \* bound: progress events of the download

ASSUME TransferAssumption == MaxTransferFaults \in Nat /\ MaxProgress \in Nat

VARIABLES
    transfer,  \* the control plane's row
    stored,    \* the destination in Files
    fetch,     \* the download on the computer
    events,    \* fetch events on their way to the desktop
    desk,      \* what the desktop knows, and where its tasks are
    call,      \* per task of the desktop: its call to the control plane
    mishaps,   \* faults so far
    wanted     \* whether the user has cancelled the fetch, before it was stored
transferVars == <<transfer, stored, fetch, events, desk, call, mishaps, wanted>>

Active == {"queued", "fetching", "storing"}
Terminal == {"completed", "failed", "cancelled"}

(* canTransferTransition, which reports and /cancel have to pass.            *)
Moves ==
    {<<"queued", "fetching">>, <<"fetching", "fetching">>, <<"fetching", "storing">>,
     <<"storing", "storing">>, <<"storing", "completed">>}
    \union (Active \X {"failed", "cancelled"})

Tasks == {"start", "tail", "cancel", "list"}

NoCall == [op |-> "none", st |-> "idle", view |-> "none"]

TransferTypeOK ==
    /\ transfer \in {"none"} \union Active \union Terminal
    /\ stored \in {"none", "declared", "uploaded", "complete"}
    /\ fetch \in [st : {"none", "asked", "running", "over"}, said : 0..MaxProgress]
    /\ events \in Seq({"progress", "done", "failed", "stopped"})
    /\ \A t \in Tasks : /\ call[t].st \in {"idle", "sent", "ok", "failed"}
                        /\ call[t].view \in {"none"} \union Active \union Terminal
    /\ desk.shown \in {"none"} \union Active \union Terminal
    /\ mishaps \in 0..MaxTransferFaults /\ wanted \in {"no", "in time", "late"}

Mishap == mishaps < MaxTransferFaults /\ mishaps' = mishaps + 1

(* ---- the control plane ---- *)

(* What a call asks for, refused when its transition is not a legal one, or  *)
(* the chunks of the file are not all there.                                 *)
Refused(op) ==
    CASE op \in {"create", "declare", "upload"} -> FALSE
      [] op = "complete" -> stored # "uploaded"
      [] OTHER -> <<transfer, op>> \notin Moves

TransferAfter(op) ==
    CASE op = "create" -> "queued"
      [] op \in {"declare", "upload", "complete"} -> transfer
      [] OTHER -> op

StoredAfter(op) ==
    CASE op = "declare" -> "declared" [] op = "upload" -> "uploaded"
      [] op = "complete" -> "complete" [] OTHER -> stored

CarryOut(t) ==
    /\ transfer' = IF Refused(call[t].op) THEN transfer ELSE TransferAfter(call[t].op)
    /\ stored' = IF Refused(call[t].op) THEN stored ELSE StoredAfter(call[t].op)

(* A call is carried out, or not; its caller hears of it, or not.            *)
Serve(t) ==
    /\ call[t].st = "sent"
    /\ \/ /\ CarryOut(t) /\ UNCHANGED mishaps
          /\ call' = [call EXCEPT ![t].st = IF Refused(call[t].op) THEN "failed" ELSE "ok",
                                  ![t].view = transfer']
       \/ /\ CarryOut(t) \/ UNCHANGED <<transfer, stored>>
          /\ Mishap
          /\ call' = [call EXCEPT ![t].st = "failed"]
    /\ UNCHANGED <<fetch, events, desk, wanted>>

(* Another device of the account cancels the transfer.                       *)
CancelElsewhere ==
    /\ transfer \in Active
    /\ transfer' = "cancelled"
    /\ UNCHANGED <<stored, fetch, events, desk, call, mishaps, wanted>>

(* ---- the computer ---- *)

FetchStarts ==
    /\ fetch.st = "asked"
    /\ fetch' = [fetch EXCEPT !.st = "running"]
    /\ UNCHANGED <<transfer, stored, events, desk, call, mishaps, wanted>>

FetchProgress ==
    /\ fetch.st = "running" /\ fetch.said < MaxProgress
    /\ fetch' = [fetch EXCEPT !.said = @ + 1]
    /\ events' = Append(events, "progress")
    /\ UNCHANGED <<transfer, stored, desk, call, mishaps, wanted>>

FetchEnds(e) ==
    /\ fetch.st = "running"
    /\ fetch' = [fetch EXCEPT !.st = "over"]
    /\ events' = Append(events, e)
    /\ UNCHANGED <<transfer, stored, desk, call, mishaps, wanted>>

(* fetch.cancel, after any fetch.public sent before it; unknown ids are      *)
(* ignored.                                                                  *)
FetchStopped ==
    /\ fetch.st # "asked"
    /\ IF fetch.st = "running"
         THEN fetch' = [fetch EXCEPT !.st = "over"] /\ events' = Append(events, "stopped")
         ELSE UNCHANGED <<fetch, events>>

(* The link drops: what was on it is gone.                                   *)
LinkDrops ==
    /\ events # <<>> \/ fetch.st = "asked"
    /\ Mishap
    /\ events' = <<>>
    /\ fetch' = [fetch EXCEPT !.st = IF @ = "asked" THEN "none" ELSE @]
    /\ UNCHANGED <<transfer, stored, desk, call, wanted>>

(* ---- the desktop ---- *)

IsAgentCancelled(d) == d.cancel \/ d.shown = "cancelled"

Answered(t) == call[t].st \in {"ok", "failed"}

Sent(c, t, op) == [c EXCEPT ![t] = [op |-> op, st |-> "sent", view |-> "none"]]

Hung(t) == [call EXCEPT ![t] = NoCall]

(* requestDurableCancel: one at a time.                                      *)
DurableCancel(c) == IF c["cancel"].st = "idle" THEN Sent(c, "cancel", "cancelled") ELSE c

(* A row that was dismissed meanwhile is not brought back.                   *)
Settled(d, s) == IF d.shown = "none" THEN d ELSE [d EXCEPT !.shown = s]

StartCloudFetch ==
    /\ desk.start = "none"
    /\ desk' = [desk EXCEPT !.start = "create", !.shown = "queued", !.pending = TRUE]
    /\ call' = Sent(call, "start", "create")
    /\ UNCHANGED <<transfer, stored, fetch, events, mishaps, wanted>>

(* The row gets its durable id; a cancellation of the row without one is     *)
(* carried over.                                                             *)
StartCreated ==
    /\ desk.start = "create" /\ Answered("start")
    /\ \/ /\ call["start"].st = "ok" /\ IsAgentCancelled(desk)
          /\ desk' = [desk EXCEPT !.pending = FALSE, !.cancel = TRUE, !.shown = "cancelled",
                                  !.intent = TRUE, !.start = "undo"]
          /\ call' = DurableCancel(Hung("start"))
       \/ /\ call["start"].st = "ok" /\ ~IsAgentCancelled(desk)
          /\ desk' = [desk EXCEPT !.pending = FALSE, !.shown = call["start"].view,
                                  !.start = "report"]
          /\ call' = Sent(call, "start", "fetching")
       \/ /\ call["start"].st = "failed"
          /\ desk' = [desk EXCEPT !.pending = FALSE, !.cancel = FALSE, !.shown = "none",
                                  !.start = "over",
                                  !.astray = IF transfer = "none" THEN @ ELSE "lost"]
          /\ call' = Hung("start")
    /\ UNCHANGED <<transfer, stored, fetch, events, mishaps, wanted>>

StartUndone ==
    /\ desk.start = "undo" /\ call["cancel"].st = "idle"
    /\ desk' = [desk EXCEPT !.cancel = FALSE, !.start = "over"]
    /\ UNCHANGED <<transfer, stored, fetch, events, call, mishaps, wanted>>

(* The start is over when the fetch was cancelled, and fails otherwise.      *)
StartFails(d) ==
    IF IsAgentCancelled(d)
      THEN desk' = [d EXCEPT !.start = "over"] /\ call' = Hung("start")
      ELSE desk' = [d EXCEPT !.start = "fail"] /\ call' = Sent(call, "start", "failed")

StartReported ==
    /\ desk.start = "report" /\ Answered("start")
    /\ IF call["start"].st = "ok" /\ ~IsAgentCancelled(desk)
         THEN /\ desk' = [desk EXCEPT !.shown = call["start"].view, !.start = "ctl"]
              /\ call' = Hung("start")
              /\ fetch' = [fetch EXCEPT !.st = "asked"]
         ELSE StartFails(desk) /\ UNCHANGED fetch
    /\ UNCHANGED <<transfer, stored, events, mishaps, wanted>>

(* fetch.started, an error, or ten seconds without either.                   *)
StartAnswered ==
    /\ desk.start = "ctl"
    /\ \/ /\ fetch.st \in {"running", "over"} /\ UNCHANGED mishaps
          /\ desk' = [desk EXCEPT !.start = "over"] /\ UNCHANGED call
       \/ /\ fetch.st = "none" /\ UNCHANGED mishaps
          /\ StartFails(desk)
       \/ Mishap /\ StartFails(desk)
    /\ UNCHANGED <<transfer, stored, fetch, events, wanted>>

StartFailed ==
    /\ desk.start = "fail" /\ Answered("start")
    /\ desk' = [IF call["start"].st = "ok" THEN [desk EXCEPT !.shown = call["start"].view]
                ELSE Settled(desk, "failed") EXCEPT !.start = "over"]
    /\ call' = Hung("start")
    /\ UNCHANGED <<transfer, stored, fetch, events, mishaps, wanted>>

(* onAgentEvent; progress is passed on now and then.                         *)
OnAgentEvent ==
    LET e == Head(events)
        Queued(s, k) == [desk EXCEPT !.shown = s, !.tail = Append(@, k)] IN
    /\ events # <<>>
    /\ events' = Tail(events)
    /\ \/ /\ desk.shown = "none" \/ (desk.shown \notin Active /\ ~desk.cancel)
                                \/ (desk.shown \notin Active /\ e = "progress")
          /\ UNCHANGED <<desk, call>>
       \/ /\ desk.shown # "none" /\ desk.cancel /\ e # "progress"
          /\ desk' = [desk EXCEPT !.cancel = FALSE, !.shown = "cancelled"]
          /\ UNCHANGED call
       \/ /\ desk.shown \in Active /\ ~desk.cancel /\ e = "stopped"
          /\ desk' = [desk EXCEPT !.shown = "cancelled", !.intent = TRUE]
          /\ call' = DurableCancel(call)
       \/ /\ desk.shown \in Active /\ e = "progress"
          /\ desk' \in {desk, Queued(desk.shown, "progress")}
          /\ UNCHANGED call
       \/ /\ desk.shown \in Active /\ ~desk.cancel /\ e \in {"done", "failed"}
          /\ desk' = IF e = "done" THEN Queued("storing", "store")
                                   ELSE Queued("failed", "failure")
          /\ UNCHANGED call
    /\ UNCHANGED <<transfer, stored, fetch, mishaps, wanted>>

(* ---- the desktop's queue of tasks for the transfer ---- *)

NextStep == [storing |-> "declare", declare |-> "upload", upload |-> "complete",
             complete |-> "completed"]

(* The head of the queue is done; storeAgentFetch clears a cancellation that *)
(* no event will settle.                                                     *)
Finished(d) ==
    [d EXCEPT !.tail = Tail(@),
              !.cancel = @ /\ ~(Head(d.tail) = "store" /\ d.shown = "cancelled")]

TailStarts ==
    /\ desk.tail # <<>> /\ call["tail"].st = "idle"
    /\ LET k == Head(desk.tail) IN
       \/ /\ k \in {"progress", "failure"} \/ (k = "store" /\ ~IsAgentCancelled(desk))
          /\ call' = Sent(call, "tail", CASE k = "progress" -> "fetching"
                                          [] k = "failure" -> "failed"
                                          [] k = "store" -> "storing")
          /\ UNCHANGED <<desk, fetch, events, mishaps>>
       \/ /\ k = "store" /\ IsAgentCancelled(desk)
          /\ desk' = Finished(desk)
          /\ UNCHANGED <<call, fetch, events, mishaps>>
       \/ /\ k = "stop"
          /\ \/ FetchStopped /\ UNCHANGED mishaps
             \/ Mishap /\ UNCHANGED <<fetch, events>>
          /\ desk' = Finished(desk)
          /\ UNCHANGED call
    /\ UNCHANGED <<transfer, stored, wanted>>

(* Mutant: the store goes on when the upload was cut short by a cancel.      *)
StoreGoesOnRegardless == call["tail"].st = "ok"

(* storeAgentFetch looks for a cancellation after every await.               *)
StoreGoesOn == call["tail"].st = "ok" /\ ~IsAgentCancelled(desk)

StoreAnswered ==
    LET c == call["tail"]
        d == IF c.op \in {"storing", "completed"} THEN [desk EXCEPT !.shown = c.view] ELSE desk
    IN  \/ /\ StoreGoesOn /\ c.op # "completed"
           /\ desk' = d
           /\ call' = Sent(call, "tail", NextStep[c.op])
        \/ /\ StoreGoesOn /\ c.op = "completed"
           /\ desk' = Finished(d) /\ call' = Hung("tail")
        \/ /\ ~StoreGoesOn /\ IsAgentCancelled(desk)
           /\ desk' = Finished(desk) /\ call' = Hung("tail")
        \/ /\ ~StoreGoesOn /\ ~IsAgentCancelled(desk)
           /\ call' = Sent(call, "tail", "failed") /\ UNCHANGED desk

(* The failure is shown whether or not it could be reported.                 *)
FailureAnswered ==
    /\ desk' = Finished(IF call["tail"].st = "ok" THEN [desk EXCEPT !.shown = call["tail"].view]
                        ELSE Settled(desk, "failed"))
    /\ call' = Hung("tail")

ProgressAnswered ==
    /\ desk' = Finished(IF call["tail"].st = "ok" /\ ~IsAgentCancelled(desk)
                          THEN [desk EXCEPT !.shown = call["tail"].view] ELSE desk)
    /\ call' = Hung("tail")

TailAnswered ==
    /\ Answered("tail")
    /\ \/ call["tail"].op = "failed" /\ FailureAnswered
       \/ call["tail"].op = "fetching" /\ ProgressAnswered
       \/ call["tail"].op \notin {"failed", "fetching"} /\ StoreAnswered
    /\ UNCHANGED <<transfer, stored, fetch, events, mishaps, wanted>>

(* ---- cancelTransfer and the poll ---- *)

CancelTransfer ==
    /\ desk.shown \in Active
    /\ desk' = [desk EXCEPT !.cancel = TRUE, !.shown = "cancelled",
                            !.cancelling = IF desk.pending THEN "no"
                                            ELSE IF fetch.st = "none" THEN "void" ELSE "stop"]
    /\ wanted' = IF call["tail"].op = "complete" \/ stored = "complete" THEN "late" ELSE "in time"
    /\ UNCHANGED <<transfer, stored, fetch, events, call, mishaps>>

(* fetch.cancel, which overtakes no fetch.public, is best effort; the        *)
(* durable cancellation is not.                                              *)
CancelSent ==
    /\ desk.cancelling # "no"
    /\ \/ desk.cancelling = "stop" /\ FetchStopped /\ UNCHANGED mishaps
       \/ desk.cancelling = "void" /\ UNCHANGED <<fetch, events, mishaps>>
       \/ Mishap /\ UNCHANGED <<fetch, events>>
    /\ desk' = [desk EXCEPT !.cancelling = "no", !.intent = TRUE]
    /\ call' = DurableCancel(call)
    /\ UNCHANGED <<transfer, stored, wanted>>

(* A settled row is dismissed once its tasks are done.                       *)
Dismiss ==
    /\ desk.shown \in Terminal /\ desk.tail = <<>>
    /\ desk' = [desk EXCEPT !.shown = "none", !.cancel = FALSE,
                            !.astray = IF desk.pending THEN "lost"
                                        ELSE IF @ = "no" /\ desk.start # "over" THEN "early"
                                        ELSE @]
    /\ UNCHANGED <<transfer, stored, fetch, events, call, mishaps, wanted>>

DurableAnswered ==
    /\ Answered("cancel")
    /\ desk' = [desk EXCEPT !.intent = @ /\ call["cancel"].st = "failed"]
    /\ call' = Hung("cancel")
    /\ UNCHANGED <<transfer, stored, fetch, events, mishaps, wanted>>

(* The poll reads the row; what it read is acted on later, and a poll that   *)
(* fails changes nothing.                                                    *)
PollTimer ==
    /\ call["list"].st = "idle" /\ transfer # "none"
    /\ call' = [call EXCEPT !["list"] = [op |-> "list", st |-> "ok", view |-> transfer]]
    /\ UNCHANGED <<transfer, stored, fetch, events, desk, mishaps, wanted>>

(* Mutant: an intent whose call failed is not taken up again.                *)
RetriesCancelNever(view) == FALSE

RetriesCancel(view) == desk.intent /\ view \in Active

(* refreshTransfers: a fetch cancelled elsewhere is stopped, and a           *)
(* cancellation that did not get through is tried again.                     *)
ListAnswered ==
    LET v == call["list"].view IN
    /\ Answered("list")
    /\ \/ /\ v = "cancelled"
          /\ desk' = IF desk.shown \in Active /\ ~desk.cancel /\ ~desk.pending
                       THEN [desk EXCEPT !.intent = FALSE, !.cancel = TRUE, !.shown = "cancelled",
                                         !.tail = Append(@, "stop")]
                       ELSE [desk EXCEPT !.intent = FALSE]
          /\ call' = Hung("list")
       \/ /\ v # "cancelled"
          /\ desk' = [desk EXCEPT !.intent = @ /\ v \in Active]
          /\ call' = IF RetriesCancel(v) THEN DurableCancel(Hung("list")) ELSE Hung("list")
    /\ UNCHANGED <<transfer, stored, fetch, events, mishaps, wanted>>

TransferInit ==
    /\ transfer = "none" /\ stored = "none" /\ events = <<>>
    /\ fetch = [st |-> "none", said |-> 0]
    /\ desk = [shown |-> "none", pending |-> FALSE, cancel |-> FALSE, intent |-> FALSE,
               start |-> "none", tail |-> <<>>, cancelling |-> "no", astray |-> "no"]
    /\ call = [t \in Tasks |-> NoCall]
    /\ mishaps = 0 /\ wanted = "no"

StartStep ==
    StartCreated \/ StartUndone \/ StartReported \/ StartAnswered \/ StartFailed

TailStep == TailStarts \/ TailAnswered

TransferNext ==
    \/ \E t \in Tasks \ {"list"} : Serve(t)
    \/ CancelElsewhere \/ FetchStarts \/ FetchProgress \/ LinkDrops
    \/ \E e \in {"done", "failed"} : FetchEnds(e)
    \/ StartCloudFetch \/ StartStep \/ OnAgentEvent \/ TailStep \/ CancelTransfer
    \/ CancelSent \/ DurableAnswered \/ Dismiss \/ PollTimer \/ ListAnswered

(* The control plane answers or the connection fails, the computer takes up  *)
(* what it is asked, the desktop's continuations run and its timer ticks; a  *)
(* download may take for ever, and the user need not do anything.            *)
TransferFairness ==
    /\ WF_transferVars(Serve("start") \/ StartStep)
    /\ WF_transferVars(Serve("tail") \/ TailStep)
    /\ WF_transferVars(Serve("cancel") \/ DurableAnswered)
    /\ WF_transferVars(PollTimer \/ ListAnswered)
    /\ WF_transferVars(FetchStarts) /\ WF_transferVars(OnAgentEvent)
    /\ WF_transferVars(CancelSent)

TransferSpec == TransferInit /\ [][TransferNext]_transferVars /\ TransferFairness

(* ---- properties ---- *)

(* A cancelled fetch is kept out of Files: once the user has cancelled it,   *)
(* nothing makes its file complete, whichever events, answers and tasks of   *)
(* the transfer are still to come, unless the call that does was already     *)
(* out, or the cancelled row was dismissed while the fetch was being started.*)
CancelKeepsOut == wanted = "in time" /\ desk.astray = "no" => stored # "complete"

(* A cancellation lands: when the user cancels a fetch under way, the        *)
(* control plane's row comes to rest in the end, through failing calls, a    *)
(* dropped link and a row that had no id yet; unless the answer with the id  *)
(* is lost, or the cancelled row is dismissed before it comes.               *)
CancelLands ==
    wanted # "no" ~> [](desk.astray = "lost" \/ transfer \in Terminal \union {"none"})
=============================================================================
