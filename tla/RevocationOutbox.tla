-------------------------- MODULE RevocationOutbox --------------------------
(***************************************************************************)
(* Device revocation in the control plane (services/control): the handler  *)
(* of POST /devices/:id/revoke, the outbox table behind it and the loop    *)
(* that drains it.  Handlers and drains are asynchronous tasks of one      *)
(* process: they interleave at every database or hub call, and a restart   *)
(* of the process loses all of them while the database and the hub stay.   *)
(* setInterval starts a drain every minute whether or not the last one is  *)
(* over, so there are several drain tasks.                                 *)
(***************************************************************************)
EXTENDS Naturals

CONSTANTS Enrolled,         \* devices of one user
          Requests,         \* revoke requests; each inserts one row at most
          Drains,           \* drain tasks under way at the same time
          MaxAttempts,      \* MAX_OUTBOX_ATTEMPTS
          MaxFaults,        \* bound: hub calls that fail in a behaviour
          MaxRestarts,      \* bound: restarts of the process
          Nobody            \* the device of a task that has none

ASSUME OutboxAssumption == /\ MaxAttempts \in Nat \ {0}
                           /\ MaxFaults \in Nat /\ MaxRestarts \in Nat
                           /\ Requests \intersect Drains = {}

VARIABLES configured,       \* are SESSIONHUB_ADMIN_URL and _TOKEN set?
          revokedAt,        \* devices whose row says revoked
          row,              \* row[r]: the outbox row request r inserted
          hub,              \* devices the hub has revoked
          task,             \* task[p]: where each task of the process is
          faults, restarts

outboxVars == <<configured, revokedAt, row, hub, task, faults, restarts>>

Tasks   == Requests \union Drains
NoRow   == [st |-> "none", attempts |-> 0]
Read    == [id : Requests, attempts : Nat]      \* a row as select() returned it
IdleTask == [pc |-> "idle", dev |-> Nobody, todo |-> {}, cur |-> {}]

OutboxTypeOK ==
    /\ configured \in BOOLEAN
    /\ revokedAt  \subseteq Enrolled
    /\ row        \in [Requests -> [st : {"none", "pending", "delivered"},
                                    attempts : 0..MaxAttempts]]
    /\ hub        \subseteq Enrolled
    /\ \A p \in Tasks :
         /\ task[p].pc \in {"idle", "mark", "notify", "enqueue", "select", "next",
                            "landed", "missed", "over"}
         /\ task[p].dev \in Enrolled \union {Nobody}
         /\ task[p].todo \subseteq Read /\ task[p].cur \subseteq Read
    /\ faults \in 0..MaxFaults /\ restarts \in 0..MaxRestarts

OutboxInit ==
    /\ configured \in BOOLEAN
    /\ revokedAt = {}
    /\ row  = [r \in Requests |-> NoRow]
    /\ hub  = {}
    /\ task = [p \in Tasks |-> IdleTask]
    /\ faults = 0 /\ restarts = 0

----------------------------------------------------------------------------
At(p, pc)  == task[p].pc = pc
To(p, pc)  == task' = [task EXCEPT ![p].pc = pc]

(* notifyHubRevocation: acknowledged, no hub configured, or thrown; a call *)
(* that throws may have reached the hub.                                   *)
Notify(d, outcome) ==
    \/ /\ outcome = "ack" /\ configured
       /\ hub' = hub \union {d} /\ UNCHANGED faults
    \/ /\ outcome = "nohub" /\ ~configured
       /\ UNCHANGED <<hub, faults>>
    \/ /\ outcome = "throw" /\ configured
       /\ faults < MaxFaults /\ faults' = faults + 1
       /\ hub' \in {hub, hub \union {d}}

(* The handler reads the device; a revoked one is answered at once.        *)
RevokeRead(r) == \E d \in Enrolled :
    /\ At(r, "idle")
    /\ task' = [task EXCEPT ![r].dev = d,
                            ![r].pc  = IF d \in revokedAt THEN "over" ELSE "mark"]
    /\ UNCHANGED <<configured, revokedAt, row, hub, faults, restarts>>

RevokeMark(r) ==
    /\ At(r, "mark")
    /\ revokedAt' = revokedAt \union {task[r].dev}
    /\ To(r, "notify")
    /\ UNCHANGED <<configured, row, hub, faults, restarts>>

(* Anything but an acknowledgement is queued.                              *)
AfterNotify(outcome) == IF outcome = "ack" THEN "select" ELSE "enqueue"

RevokeNotify(r) == \E outcome \in {"ack", "nohub", "throw"} :
    /\ At(r, "notify")
    /\ Notify(task[r].dev, outcome)
    /\ To(r, AfterNotify(outcome))
    /\ UNCHANGED <<configured, revokedAt, row, restarts>>

Enqueue(r) ==
    /\ At(r, "enqueue")
    /\ row' = [row EXCEPT ![r] = [st |-> "pending", attempts |-> 0]]
    /\ To(r, "select")
    /\ UNCHANGED <<configured, revokedAt, hub, faults, restarts>>

(* A drain starts: the timer fires.                                        *)
DrainTimer(t) ==
    /\ At(t, "idle")
    /\ To(t, "select")
    /\ UNCHANGED <<configured, revokedAt, row, hub, faults, restarts>>

----------------------------------------------------------------------------
(* flushRevocationOutbox, by a drain or at the end of a request.           *)
Pending == {[id |-> r, attempts |-> row[r].attempts] :
              r \in {q \in Requests : row[q].st = "pending"}}

FlushSelect(p) ==
    /\ At(p, "select")
    /\ task' = [task EXCEPT ![p].pc = "next", ![p].todo = Pending]
    /\ UNCHANGED <<configured, revokedAt, row, hub, faults, restarts>>

(* Rows that used up their attempts, as they were when selected, are       *)
(* passed over.                                                            *)
Due(p) == {x \in task[p].todo : x.attempts < MaxAttempts}

(* Where the loop goes after calling the hub.                              *)
AfterDelivery(outcome) == IF outcome = "ack" THEN "landed"
                          ELSE IF outcome = "nohub" THEN "next" ELSE "missed"

FlushNext(p) == \E x \in Due(p), outcome \in {"ack", "nohub", "throw"} :
    /\ At(p, "next")
    /\ Notify(task[x.id].dev, outcome)
    /\ task'   = [task EXCEPT ![p].pc   = AfterDelivery(outcome),
                              ![p].todo = @ \ {x},
                              ![p].cur  = {x}]
    /\ UNCHANGED <<configured, revokedAt, row, restarts>>

FlushLanded(p) == \E x \in task[p].cur :
    /\ At(p, "landed")
    /\ row' = [row EXCEPT ![x.id].st = "delivered"]
    /\ To(p, "next")
    /\ UNCHANGED <<configured, revokedAt, hub, faults, restarts>>

(* Mutant: the first failed delivery uses up every attempt.                *)
MissedRowSpent(r, read) == [row[r] EXCEPT !.attempts = MaxAttempts]

(* The count that was read, plus one: an update made in between is lost.   *)
MissedRow(r, read) == [row[r] EXCEPT !.attempts = read + 1]

FlushMissed(p) == \E x \in task[p].cur :
    /\ At(p, "missed")
    /\ row' = [row EXCEPT ![x.id] = MissedRow(x.id, x.attempts)]
    /\ To(p, "next")
    /\ UNCHANGED <<configured, revokedAt, hub, faults, restarts>>

FlushEnd(p) ==
    /\ At(p, "next")
    /\ Due(p) = {}
    /\ task' = [task EXCEPT ![p] = IF p \in Drains THEN IdleTask
                                   ELSE [@ EXCEPT !.pc = "over", !.todo = {}, !.cur = {}]]
    /\ UNCHANGED <<configured, revokedAt, row, hub, faults, restarts>>

(* The process restarts, perhaps with the hub's address set by now: tasks  *)
(* under way are gone.                                                     *)
ProcessRestart ==
    /\ restarts < MaxRestarts
    /\ restarts'   = restarts + 1
    /\ configured' \in {configured, TRUE}
    /\ task'       = [p \in Tasks |->
                        IF p \in Drains THEN IdleTask
                        ELSE IF At(p, "idle") THEN task[p]
                        ELSE [IdleTask EXCEPT !.pc = "over", !.dev = task[p].dev]]
    /\ UNCHANGED <<revokedAt, row, hub, faults>>

Revoking(r) == RevokeMark(r) \/ RevokeNotify(r) \/ Enqueue(r)
Flushing(p) == FlushSelect(p) \/ FlushNext(p) \/ FlushLanded(p) \/ FlushMissed(p)
                 \/ FlushEnd(p)

OutboxNext ==
    \/ \E r \in Requests : RevokeRead(r) \/ Revoking(r)
    \/ \E t \in Drains : DrainTimer(t)
    \/ \E p \in Tasks : Flushing(p)
    \/ ProcessRestart

(* A task that awaits a reply goes on, and the timer keeps firing; nobody  *)
(* has to send a request or restart the process.                           *)
OutboxFairness == /\ \A r \in Requests : WF_outboxVars(Revoking(r))
                  /\ \A t \in Drains   : WF_outboxVars(DrainTimer(t))
                  /\ \A p \in Tasks    : WF_outboxVars(Flushing(p))

OutboxSpec == OutboxInit /\ [][OutboxNext]_outboxVars /\ OutboxFairness

----------------------------------------------------------------------------
Retryable(r)  == row[r].st = "pending" /\ row[r].attempts < MaxAttempts
OnItsWay(d)   == \E r \in Requests : /\ task[r].dev = d
                                     /\ Retryable(r) \/ At(r, "notify") \/ At(r, "enqueue")

(* No revocation is stranded: while the hub has not heard of a revoked     *)
(* device, its request is still working on it or the outbox has a row the  *)
(* drain will try again.                                                   *)
NothingStranded == \A d \in revokedAt \ hub : OnItsWay(d)
============================================================================
