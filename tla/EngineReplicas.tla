--------------------------- MODULE EngineReplicas ---------------------------
(***************************************************************************)
(* SpaceSyncEngine replicas of one cookie, joined by a log of published    *)
(* records (the LoopbackHub of the engine's own tests): each replica is    *)
(* handed every record of the others once, in log order or in any order.   *)
(*                                                                         *)
(* A replica runs two promise queues that nothing serialises against each  *)
(* other: "capture" (localChange, one browser event after the other) and   *)
(* "records" (applyRemote, one record after the other).  Both await in the *)
(* middle: localChange between taking its timestamp and storing the        *)
(* record, ingest between resolving a record and storing it.               *)
(***************************************************************************)
EXTENDS SyncEngine, Sequences

CONSTANTS Devices,          \* replicas, naturals
          Changes,          \* browser events: pairs of cause and "removed"
          Retention,        \* tombstoneRetentionMs
          InOrder,          \* is the log delivered in order?
          Overlap,          \* may the two queues of a replica overlap?
          MayFail,          \* may the cookie store refuse an apply?
          MayGoOffline,     \* may a replica lose its connection?
          MayRollBack,      \* may the user roll the origin back?
          MaxTime,          \* bound: wall clocks
          MaxVersions       \* bound: records made in a behaviour

ASSUME ReplicaAssumption ==
    /\ Devices \subseteq Nat
    /\ Changes \subseteq (STRING \X BOOLEAN)
    /\ Retention \in Nat /\ MaxTime \in Nat /\ MaxVersions \in Nat
    /\ {InOrder, Overlap, MayFail, MayGoOffline, MayRollBack} \subseteq BOOLEAN

VARIABLES wall,             \* wall[d]: the wall clock of d
          clock,            \* clock[d]: the HlcClock of d
          jar,              \* jar[d]: does the browser of d hold the cookie?
          cell,             \* cell[d]: the engine's state for the cookie
          fiber,            \* fiber[d][q]: what queue q of d is awaiting
          online,           \* online[d]
          queue,            \* queue[d]: the offline queue, compacted
          snap,             \* snap[d]: snapshotOrigin taken earlier, or none
          log,              \* records published, in the hub's order
          delivered,        \* delivered[d]: log entries handed to d
          made,             \* number of records made
          known,            \* known[d]: explicit deletions d has learned of
          unapplied         \* unapplied[d]: records whose apply was refused

vars == <<wall, clock, jar, cell, fiber, online, queue, snap, log, delivered, made,
          known, unapplied>>

Queues    == {"capture", "records"}
FiberType == [kind  : {"idle", "stamped", "applying"},
              wire  : WireType \union {NoWire},
              retry : BOOLEAN]
Idle      == [kind |-> "idle", wire |-> NoWire, retry |-> FALSE]

NoSnap    == [taken |-> FALSE, rec |-> NoWire]

TypeOK ==
    /\ wall      \in [Devices -> Nat]
    /\ clock     \in [Devices -> ClockType]
    /\ jar       \in [Devices -> BOOLEAN]
    /\ cell      \in [Devices -> CellType]
    /\ fiber     \in [Devices -> [Queues -> FiberType]]
    /\ online    \in [Devices -> BOOLEAN]
    /\ queue     \in [Devices -> WireType \union {NoWire}]
    /\ snap      \in [Devices -> [taken : BOOLEAN, rec : WireType \union {NoWire}]]
    /\ log       \in Seq(WireType)
    /\ delivered \in [Devices -> SUBSET Nat]
    /\ made      \in Nat
    /\ known     \in [Devices -> SUBSET HlcType]
    /\ unapplied \in [Devices -> SUBSET HlcType]

Init ==
    /\ wall      = [d \in Devices |-> 1]
    /\ clock     = [d \in Devices |-> ZeroClock]
    /\ jar       = [d \in Devices |-> FALSE]
    /\ cell      = [d \in Devices |-> EmptyCell]
    /\ fiber     = [d \in Devices |-> [q \in Queues |-> Idle]]
    /\ online    = [d \in Devices |-> TRUE]
    /\ queue     = [d \in Devices |-> NoWire]
    /\ snap      = [d \in Devices |-> NoSnap]
    /\ log       = <<>>
    /\ delivered = [d \in Devices |-> {}]
    /\ made      = 0
    /\ known     = [d \in Devices |-> {}]
    /\ unapplied = [d \in Devices |-> {}]

----------------------------------------------------------------------------
Explicit(w) == IF w.cause = "EXPLICIT_DELETE" THEN {w.hlc} ELSE {}

(* d has no task under way.                                                *)
Resting(d) == fiber[d] = [q \in Queues |-> Idle]

(* May queue q of d start a task?  Only overlapping runs let it start      *)
(* while the other one awaits.                                             *)
MayStart(d, q) == /\ fiber[d][q] = Idle
                  /\ ~Overlap => Resting(d)

(* Mutant: the record does not name the version it replaces.               *)
NewWireOrphan(d, c, cause) == [hlc    |-> Stamp(c, d),
                               parent |-> NoHlc,
                               cause  |-> cause,
                               past   |-> known[d] \union cell[d].rec.past]

(* The record localChange and reissue build: a new timestamp, and the      *)
(* current record as causal parent.                                        *)
NewWire(d, c, cause) == [hlc    |-> Stamp(c, d),
                         parent |-> cell[d].rec.hlc,
                         cause  |-> cause,
                         past   |-> known[d] \union cell[d].rec.past]

(* publishOrQueue without a lease, which rotating-auth origins alone need. *)
PublishOrQueue(d, w) ==
    /\ log'   = IF online[d] THEN Append(log, w) ELSE log
    /\ queue' = IF online[d] THEN queue ELSE [queue EXCEPT ![d] = Later(@, w)]

(* retryParked, in three parts: the cell, the clock and what the queue     *)
(* awaits after it.                                                        *)
Retried(c) == IF ~Unparks(c) THEN c
              ELSE IF Resolve(c, c.parked) = "applied"
                THEN Learn([c EXCEPT !.parked = NoWire], c.parked)
                ELSE [c EXCEPT !.parked = NoWire]

RetryApplies(c) == /\ Unparks(c)
                   /\ Resolve(c, c.parked) = "applied"
                   /\ Resolve(Retried(c), c.parked) = "applied"

RetryClock(c, clk, now) ==
    IF Unparks(c) /\ Resolve(c, c.parked) = "applied"
      THEN ClockReceive(clk, now, c.parked.hlc) ELSE clk

RetryFiber(c) == IF RetryApplies(c)
                   THEN [kind |-> "applying", wire |-> c.parked, retry |-> FALSE]
                   ELSE Idle

RetryParked(d, q, c, clk) ==
    /\ cell'  = [cell  EXCEPT ![d] = Retried(c)]
    /\ clock' = [clock EXCEPT ![d] = RetryClock(c, clk, wall[d])]
    /\ fiber' = [fiber EXCEPT ![d][q] = RetryFiber(c)]

----------------------------------------------------------------------------
Tick(d) ==
    /\ wall[d] < MaxTime
    /\ wall' = [wall EXCEPT ![d] = @ + 1]
    /\ UNCHANGED <<jar, clock, cell, fiber, online, queue, snap, log, delivered, made,
                   known, unapplied>>

(* The browser changes the cookie, a removal only where there is one;      *)
(* localChange up to the await in buildCookieRecordWire.                   *)
LocalStamp(d) == \E ch \in Changes :
    LET cause == CauseForChange(ch[1], ch[2])
        c     == ClockSend(clock[d], wall[d])
    IN  /\ MayStart(d, "capture")
        /\ ch[2] => jar[d]
        /\ cause # "none"
        /\ made < MaxVersions
        /\ jar'   = [jar EXCEPT ![d] = ~ch[2]]
        /\ clock' = [clock EXCEPT ![d] = c]
        /\ fiber' = [fiber EXCEPT ![d]["capture"] =
                       [kind |-> "stamped", wire |-> NewWire(d, c, cause),
                        retry |-> FALSE]]
        /\ made'  = made + 1
        /\ UNCHANGED <<wall, cell, online, queue, snap, log, delivered, known,
                       unapplied>>

(* localChange from there: note, store, publish, retry the parked write.   *)
LocalStore(d) ==
    LET w == fiber[d]["capture"].wire
    IN  /\ fiber[d]["capture"].kind = "stamped"
        /\ RetryParked(d, "capture", Store(Learn(cell[d], w), w, wall[d]), clock[d])
        /\ PublishOrQueue(d, w)
        /\ known' = [known EXCEPT ![d] = @ \union Explicit(w)]
        /\ UNCHANGED <<jar, wall, online, snap, delivered, made, unapplied>>

(* Log entries the transport may hand to d next: the hub skips the         *)
(* sender's own.                                                           *)
Undelivered(d) == {i \in 1..Len(log) : i \notin delivered[d] /\ log[i].hlc.dev # d}

Deliverable(d) ==
    {i \in Undelivered(d) : InOrder => \A j \in Undelivered(d) : i <= j}

(* applyOne up to the applier's await: verify and unseal (taken as done),  *)
(* merge the clock, learn, resolve; park or start applying.                *)
Deliver(d) == \E i \in Deliverable(d) :
    LET w   == log[i]
        clk == ClockReceive(clock[d], wall[d], w.hlc)
        c   == Learn(cell[d], w)
        v   == Resolve(c, w)
    IN  /\ MayStart(d, "records")
        /\ online[d]
        /\ delivered' = [delivered EXCEPT ![d] = @ \union {i}]
        /\ known'     = [known EXCEPT ![d] = @ \union Explicit(w)]
        /\ IF v = "applied"
             THEN /\ cell'  = [cell  EXCEPT ![d] = c]
                  /\ clock' = [clock EXCEPT ![d] = clk]
                  /\ fiber' = [fiber EXCEPT ![d]["records"] =
                                 [kind |-> "applying", wire |-> Winner(c, w),
                                  retry |-> TRUE]]
             ELSE RetryParked(d, "records",
                              IF v = "blocked" THEN Park(c, w) ELSE c, clk)
        /\ UNCHANGED <<jar, wall, online, queue, snap, log, made, unapplied>>

(* The cookie store accepted the winner: commit it, then retry the parked  *)
(* write if this was not itself a retry.                                   *)
ApplyDone(d, q) ==
    LET f == fiber[d][q]
        c == Store(cell[d], f.wire, wall[d])
    IN  /\ f.kind = "applying"
        /\ IF f.retry
             THEN RetryParked(d, q, c, clock[d])
             ELSE /\ cell'  = [cell  EXCEPT ![d] = c]
                  /\ fiber' = [fiber EXCEPT ![d][q] = Idle]
                  /\ UNCHANGED clock
        /\ jar' = [jar EXCEPT ![d] = Live(f.wire)]
        /\ UNCHANGED <<wall, online, queue, snap, log, delivered, made, known,
                       unapplied>>

(* Mutant: the record is committed although the store refused it.          *)
ApplyFailsCommits(d, q) ==
    /\ MayFail
    /\ fiber[d][q].kind = "applying"
    /\ fiber'     = [fiber EXCEPT ![d][q] = Idle]
    /\ cell'      = [cell EXCEPT ![d] = Store(@, fiber[d][q].wire, wall[d])]
    /\ unapplied' = [unapplied EXCEPT ![d] = @ \union {fiber[d][q].wire.hlc}]
    /\ UNCHANGED <<wall, clock, jar, online, queue, snap, log, delivered, made,
                   known>>

(* The cookie store refused it: ingest rethrows, nothing is committed and  *)
(* the parked write is not retried.                                        *)
ApplyFails(d, q) ==
    /\ MayFail
    /\ fiber[d][q].kind = "applying"
    /\ fiber'     = [fiber EXCEPT ![d][q] = Idle]
    /\ unapplied' = [unapplied EXCEPT ![d] = @ \union {fiber[d][q].wire.hlc}]
    /\ UNCHANGED <<jar, wall, clock, cell, online, queue, snap, log, delivered, made,
                   known>>

(* setOnline *)
GoOffline(d) ==
    /\ MayGoOffline /\ online[d]
    /\ online' = [online EXCEPT ![d] = FALSE]
    /\ UNCHANGED <<jar, wall, clock, cell, fiber, queue, snap, log, delivered, made,
                   known, unapplied>>

(* Going online drains the queue: the newest record of the cookie alone.   *)
GoOnline(d) ==
    /\ ~online[d]
    /\ online' = [online EXCEPT ![d] = TRUE]
    /\ log'    = IF queue[d] = NoWire THEN log ELSE Append(log, queue[d])
    /\ queue'  = [queue EXCEPT ![d] = NoWire]
    /\ UNCHANGED <<jar, wall, clock, cell, fiber, snap, delivered, made, known,
                   unapplied>>

(* snapshotOrigin *)
Snapshot(d) ==
    /\ MayRollBack /\ snap[d] = NoSnap
    /\ snap' = [snap EXCEPT ![d] = [taken |-> TRUE, rec |-> cell[d].rec]]
    /\ UNCHANGED <<jar, wall, clock, cell, fiber, online, queue, log, delivered, made,
                   known, unapplied>>

(* Mutant: reissue stores without learning, so it leaves no fence.         *)
ReissuedUnlearned(c, w, now) == Store(c, w, now)

(* What reissue makes of the cell: note, then store.                       *)
Reissued(c, w, now) == Store(Learn(c, w), w, now)

(* rollbackOrigin: the snapshot's state is reissued as a new record.  A    *)
(* cookie the snapshot did not have is deleted, unless it already is.      *)
(* reissue stores first: when the cookie store refuses, the record stays   *)
(* and is not published.                                                   *)
Rollback(d) == \E refused \in {FALSE, MayFail} :
    LET old == snap[d].rec
        c   == ClockSend(clock[d], wall[d])
        w   == NewWire(d, c, IF Live(old) THEN "WRITE" ELSE "EXPLICIT_DELETE")
    IN  /\ snap[d].taken
        /\ old # NoWire \/ Live(cell[d].rec)
        /\ Resting(d)
        /\ made < MaxVersions
        /\ clock' = [clock EXCEPT ![d] = c]
        /\ cell'  = [cell EXCEPT ![d] = Reissued(@, w, wall[d])]
        /\ known' = [known EXCEPT ![d] = @ \union Explicit(w)]
        /\ made'  = made + 1
        /\ IF refused
             THEN /\ unapplied' = [unapplied EXCEPT ![d] = @ \union {w.hlc}]
                  /\ UNCHANGED <<jar, log, queue>>
             ELSE /\ jar' = [jar EXCEPT ![d] = Live(w)]
                  /\ PublishOrQueue(d, w)
                  /\ UNCHANGED unapplied
        /\ UNCHANGED <<wall, fiber, online, snap, delivered>>

(* gcTombstones *)
Gc(d) ==
    /\ Collectable(cell[d], wall[d], Retention)
    /\ Resting(d)
    /\ cell'      = [cell EXCEPT ![d] = EmptyCell]
    /\ known'     = [known EXCEPT ![d] = {}]
    /\ UNCHANGED <<jar, wall, clock, fiber, online, queue, snap, log, delivered, made,
                   unapplied>>

Next == \E d \in Devices :
          \/ Tick(d) \/ LocalStamp(d) \/ LocalStore(d) \/ Deliver(d)
          \/ \E q \in Queues : ApplyDone(d, q) \/ ApplyFails(d, q)
          \/ GoOffline(d) \/ GoOnline(d)
          \/ Snapshot(d) \/ Rollback(d) \/ Gc(d)

Spec == Init /\ [][Next]_vars

----------------------------------------------------------------------------
(* Everything published has reached everyone, and nobody awaits anything.  *)
Quiescent == \A d \in Devices : /\ online[d]
                                /\ queue[d] = NoWire
                                /\ Resting(d)
                                /\ Undelivered(d) = {}

NewestKnown(d) == CHOOSE h \in known[d] : \A g \in known[d] : AtMost(g, h)

(* No resurrection: a replica that has learned of an explicit deletion,    *)
(* and has no task under way, never shows a live cookie whose writer had   *)
(* not heard of it, unless the cookie store refused the deletion.  The     *)
(* guard of resolve(), the fence, the parked write and the retries.        *)
NoResurrection ==
    \A d \in Devices :
       /\ Resting(d)
       /\ Live(cell[d].rec)
       /\ known[d] # {}
       /\ \A h \in unapplied[d] : Before(h, NewestKnown(d))
       => NewestKnown(d) \in cell[d].rec.past

(* The browser shows what the engine recorded: with no task under way the  *)
(* cookie is in the store exactly when the record is live.  ingest commits *)
(* only after the store took the change, through refusals and retries.     *)
JarMatchesRecord ==
    \A d \in Devices : Resting(d) => jar[d] = Live(cell[d].rec)

(* Convergence: replicas that have seen the same records hold the same     *)
(* record of the cookie (the first property of the fidelity harness).      *)
Convergence ==
    Quiescent => \A d, e \in Devices : cell[d].rec = cell[e].rec

(* A legitimate post-logout chain converges: when everything has been      *)
(* delivered, no replica holds back a write whose writer knew of the very  *)
(* deletion that blocks it (the engine header's promise for parked writes).*)
PostLogoutChainConverges ==
    Quiescent => \A d \in Devices :
       cell[d].parked # NoWire => cell[d].fence \notin cell[d].parked.past
============================================================================
