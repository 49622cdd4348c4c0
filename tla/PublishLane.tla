---------------------------- MODULE PublishLane ----------------------------
(***************************************************************************)
(* The way of a cookie change from the browser to the session hub:         *)
(* capture.ts, the publishing half of SpaceSyncEngine (offline queue,      *)
(* origin leases, rejected publishes), WsTransport, the hub, and the       *)
(* session fence of SyncService that a workspace URL waits for.            *)
(*                                                                         *)
(* One device in full and one cookie of one origin; the other device of    *)
(* the account is seen only as a rival for the origin's lease.  Version n  *)
(* is the n-th local change.  Everything that runs in one turn of the      *)
(* event loop is one step; awaits that only promises settle do not end a   *)
(* turn, sockets, timers and WebCrypto do.                                 *)
(***************************************************************************)
EXTENDS HubCore, FiniteSetsExt

CONSTANTS Rotating,         \* the origin's policy.rotatingAuth
          MaxChanges,       \* bound: local changes
          MaxLinks,         \* bound: connections
          MaxTime,          \* bound: clock, in halves of the lease TTL
          MaxFlight         \* bound: frames on their way in one direction

ASSUME LaneAssumption == /\ Rotating \in BOOLEAN
                         /\ MaxChanges \in Nat /\ MaxLinks \in Nat
                         /\ MaxTime \in Nat /\ MaxFlight \in Nat

VARIABLES now,      \* Date.now(), in halves of ORIGIN_LEASE_TTL_MS
          kind,     \* kind[v]: what change v is
          dev,      \* engine and transport of the device
          down,     \* frames from the hub to the device
          hub,      \* the hub: store, lease, connections
          fence,    \* establishSessionFence of one workspace publish
          gaps      \* history: versions the code let go of

laneVars == <<now, kind, dev, down, hub, fence, gaps>>

Me    == 1
Rival == 2
None  == 0
VersionAt(v) == [phys |-> 0, logi |-> v, dev |-> Me]

Kinds     == {"write", "delete", "local"}
AckTypes  == {"accepted", "stale", "lease_required"}
UpType    == [t : {"publish", "lease", "force", "url"}, v : Nat]
DownType  == [t : {"ack"}, v : Nat, res : AckTypes]
             \union [t : {"granted"}, at : Nat]
             \union [t : {"denied", "revoked"}]

DevType == [st      : {"offline", "connecting", "connected"},  \* TransportState
            link    : {"none", "up", "cut"},                   \* the socket
            pending : BOOLEAN,      \* in pendingCookiePublishes
            refused : BOOLEAN,      \* in rejectedCookiePublishes
            asking  : BOOLEAN,      \* in pendingLeases
            grant   : Nat,          \* grantedLeases: trusted until
            queue   : SUBSET Nat,   \* OfflineQueue
            capture : Nat,          \* change waiting for a lease in localChange
            drain   : [v : Nat, at : {"open", "lease"}], \* runDrainQueue
            retry   : Nat,          \* version waiting in publishRejected
            rejects : Nat,          \* rejectionQueue behind it
            up      : Seq(UpType)]

NoDrain == [v |-> None, at |-> "open"]
NoFence == [pc |-> "idle", tries |-> 0, need |-> None]

LaneTypeOK == /\ now   \in Nat
          /\ kind  \in Seq(Kinds)
          /\ dev   \in DevType
          /\ down  \in Seq(DownType)
          /\ hub   \in [store : StoreType, lease : [holder : Nat, until : Nat],
                        conns : SUBSET Nat, last : Nat]
          /\ fence \in [pc : {"idle", "draining", "flushing", "waiting", "again",
                              "url", "failed", "done"},
                        tries : 0..3, need : Nat]
          /\ gaps  \subseteq Nat

LaneInit == /\ now   = 0
        /\ kind  = <<>>
        /\ dev   = [st |-> "offline", link |-> "none", pending |-> FALSE,
                    refused |-> FALSE, asking |-> FALSE, grant |-> 0,
                    queue |-> {}, capture |-> None, drain |-> NoDrain,
                    retry |-> None, rejects |-> 0, up |-> <<>>]
        /\ down  = <<>>
        /\ hub   = [store |-> EmptyStore, lease |-> NoLease, conns |-> {},
                    last |-> 0]
        /\ fence = NoFence
        /\ gaps  = {}

----------------------------------------------------------------------------
(* Pure steps of the device.                                               *)

Online(d) == d.st = "connected"

(* WsTransport.send: frames for a socket that is no longer open vanish.    *)
Transmit(d, f) == IF d.link = "up" THEN [d EXCEPT !.up = Append(@, f)] ELSE d

(* WsTransport.publish: without a connection the record is dropped.        *)
Publish(d, v) ==
    IF ~Online(d) THEN d
    ELSE Transmit([d EXCEPT !.pending = TRUE, !.refused = FALSE],
              [t |-> "publish", v |-> v])

(* WsTransport.acquireLease while connected: one request per origin.       *)
AskLease(d, how, v) ==
    IF d.asking THEN d
    ELSE Transmit([d EXCEPT !.asking = TRUE], [t |-> how, v |-> v])

Enqueue(d, v) == [d EXCEPT !.queue = @ \union {v}]

(* Mutant: offline, an interrupted publish is not queued again.            *)
RecoverLosing(d, v) == [d EXCEPT !.grant = 0]

(* publishRejected for the current winner v, up to its await: a deletion   *)
(* is not retried.                                                         *)
Recover(d, v) ==
    IF v = None \/ kind[v] # "write" THEN d
    ELSE LET e == [d EXCEPT !.grant = 0]
         IN  IF Online(d) THEN [AskLease(e, "force", v) EXCEPT !.retry = v]
                          ELSE Enqueue(e, v)

(* The rejection queue runs until a task of it waits for a lease.  Further *)
(* tasks for the same cookie would do the same again.                      *)
RunRejections(d, v) ==
    IF d.rejects = 0 \/ d.retry # None THEN d
    ELSE LET e == Recover([d EXCEPT !.rejects = @ - 1], v)
         IN  IF e.retry = None THEN [e EXCEPT !.rejects = 0] ELSE e

(* Mutant: a grant is trusted for the whole server TTL.                    *)
TrustedWhole(granted) == IF granted THEN now + 2 ELSE 0

(* A grant is trusted for half the server TTL.                             *)
TrustedUntil(granted) == IF granted THEN now + 1 ELSE 0

(* The pending lease request is settled: localChange and the drain publish *)
(* whatever the answer, publishRejected queues its record when refused.    *)
LeaseSettled(d, granted, cur) ==
    LET d1 == [d EXCEPT !.asking = FALSE, !.grant = TrustedUntil(granted)]
        d2 == IF d.capture = None THEN d1
              ELSE Publish([d1 EXCEPT !.capture = None], d.capture)
        d3 == IF d.drain.v = None \/ d.drain.at = "open" THEN d2
              ELSE Publish([d2 EXCEPT !.drain = NoDrain], d.drain.v)
        d4 == IF d.retry = None THEN d3
              ELSE LET e == [d3 EXCEPT !.retry = None]
                   IN  IF granted THEN Publish(e, d.retry) ELSE Enqueue(e, d.retry)
    IN  RunRejections(d4, cur)

(* Versions that a settled lease sends into Publish.                       *)
Waiting(d, granted) ==
    ({d.capture} \union (IF d.drain.at = "lease" THEN {d.drain.v} ELSE {})
                 \union (IF granted THEN {d.retry} ELSE {})) \ {None}

(* flushPending: a running drain is not started again; the queue keeps the *)
(* newest version of a cookie; opening a write to see its policy is        *)
(* asynchronous.                                                           *)
FlushPending(d) ==
    IF ~Online(d) \/ d.drain.v # None \/ d.queue = {} THEN d
    ELSE LET v == Max(d.queue)
             e == [d EXCEPT !.queue = {}]
         IN  IF kind[v] = "write" THEN [e EXCEPT !.drain = [v |-> v, at |-> "open"]]
                                  ELSE Publish(e, v)

(* scheduleReconnect and reconnect: leases fail, unacknowledged publishes  *)
(* are handed back to the engine, which is offline by then.                *)
LostSocket(d, cur) ==
    LET e == [d EXCEPT !.st = "offline", !.link = "none", !.pending = FALSE,
                       !.refused = FALSE, !.grant = 0, !.up = <<>>,
                       !.rejects = @ + (IF d.pending THEN 1 ELSE 0)]
    IN  IF d.asking THEN LeaseSettled(e, FALSE, cur) ELSE RunRejections(e, cur)

----------------------------------------------------------------------------
(* Steps of the device.                                                    *)

Current  == Len(kind)       \* the engine's record of the cookie
InFlight == {i \in 1..Len(dev.up) : dev.up[i].t = "publish"}

Drops(vs) == IF Online(dev) THEN gaps
             ELSE gaps \union vs

(* localChange of version v up to its first await of the network: a        *)
(* deletion on a rotating origin stays local unless the device is the      *)
(* writer, a write there needs the lease first.                            *)
LocalKind(d, k) ==
    IF Rotating /\ k = "delete" /\ d.grant <= now THEN "local" ELSE k

LocalChange(d, k, v) ==
    IF LocalKind(d, k) = "local" THEN d
    ELSE IF ~Online(d) THEN Enqueue(d, v)
    ELSE IF Rotating /\ k = "write" /\ d.grant <= now
      THEN [AskLease(d, "lease", v) EXCEPT !.capture = v]
    ELSE Publish(d, v)

(* The browser reports a change; the capture queue takes one at a time.    *)
Capture(k) ==
    /\ Current < MaxChanges
    /\ dev.capture = None
    /\ Len(dev.up) < MaxFlight
    /\ kind' = Append(kind, LocalKind(dev, k))
    /\ dev'  = LocalChange(dev, k, Current + 1)
    /\ UNCHANGED <<now, down, hub, fence, gaps>>

(* The record of the running drain has been opened.                        *)
DrainOpened ==
    LET v == dev.drain.v
    IN  /\ v # None /\ dev.drain.at = "open"
        /\ IF Rotating /\ dev.grant <= now /\ Online(dev)
             THEN /\ dev'  = [AskLease(dev, "lease", v) EXCEPT !.drain.at = "lease"]
                  /\ gaps' = gaps
             ELSE /\ dev'  = Publish([dev EXCEPT !.drain = NoDrain], v)
                  /\ gaps' = Drops({v})
        /\ UNCHANGED <<now, kind, down, hub, fence>>

(* LEASE_TIMEOUT_MS passed.                                                *)
LeaseTimeout ==
    /\ dev.asking
    /\ dev'  = LeaseSettled(dev, FALSE, Current)
    /\ gaps' = Drops(Waiting(dev, FALSE))
    /\ UNCHANGED <<now, kind, down, hub, fence>>

(* connect, dial, hello and hello.ack: the hub binds the connection, the   *)
(* engine comes online and drains.                                         *)
Dial ==
    /\ dev.link = "none"
    /\ hub.last < MaxLinks
    /\ hub'  = [hub EXCEPT !.last = @ + 1, !.conns = @ \union {hub.last + 1}]
    /\ dev'  = FlushPending([dev EXCEPT !.st = "connected", !.link = "up"])
    /\ down' = <<>>
    /\ UNCHANGED <<now, kind, fence, gaps>>

(* The connection breaks; what was under way is lost, and neither end has  *)
(* noticed yet.                                                            *)
Cut ==
    /\ dev.link = "up"
    /\ dev'  = [dev EXCEPT !.link = "cut", !.up = <<>>]
    /\ down' = <<>>
    /\ UNCHANGED <<now, kind, hub, fence, gaps>>

(* Mutant: flush waiters are left to wait when the socket goes.            *)
FenceFailsNot == fence

(* failCookieFlushes: a flush that waits is answered false.                *)
FenceFails == IF fence.pc = "waiting" THEN [fence EXCEPT !.pc = "again"] ELSE fence

(* The device sees the close event, or closes the socket itself to dial    *)
(* again (reconnect: a new token, a new space).                            *)
NoticeClose ==
    /\ dev.link = "cut"
    /\ dev'   = LostSocket(dev, Current)
    /\ fence' = FenceFails
    /\ gaps'  = gaps \union Waiting(dev, FALSE)
    /\ UNCHANGED <<now, kind, down, hub>>

(* publish.ack: the record id leaves the pending set; "stale" counts as    *)
(* stored.                                                                 *)
Acked(d, res) ==
    LET e == [d EXCEPT !.pending = FALSE, !.refused = (res = "lease_required")]
    IN  IF res = "lease_required" THEN RunRejections([e EXCEPT !.rejects = @ + 1], Current)
                                  ELSE e

(* settleCookieFlushes: every id has been answered.                        *)
Settled(d) == IF fence.pc # "waiting" THEN fence
              ELSE [fence EXCEPT !.pc = IF d.refused THEN "again" ELSE "url"]

(* Versions of the cookie still under way when an ack clears its id.       *)
Overtaken == {dev.up[i].v : i \in InFlight}
             \union {down[i].v : i \in {j \in 2..Len(down) : down[j].t = "ack"}}

(* The device handles the next frame of the hub.                           *)
HandleFrame ==
    LET f == Head(down)
    IN  /\ down # <<>>
        /\ down' = Tail(down)
        /\ CASE f.t = "ack" ->
                  /\ fence' = Settled([dev EXCEPT !.refused = (f.res = "lease_required")])
                  /\ dev'   = Acked(dev, f.res)
                  /\ gaps'  = gaps \union Overtaken
             [] f.t \in {"granted", "denied"} ->
                  /\ dev'   = IF dev.asking
                                THEN LeaseSettled(dev, f.t = "granted", Current)
                                ELSE dev
                  /\ UNCHANGED <<fence, gaps>>
             [] f.t = "revoked" ->
                  /\ dev'   = [dev EXCEPT !.grant = 0]
                  /\ UNCHANGED <<fence, gaps>>
        /\ UNCHANGED <<now, kind, hub>>

----------------------------------------------------------------------------
(* The hub.                                                                *)

Reply(f) == Append(down, f)

(* handlePublish: a record over the rate limit is reported as stale.  The  *)
(* window counts every cookie of the origin, so it may be full any time.   *)
HubPublish(v) == \E full \in BOOLEAN :
    LET window  == IF full THEN [i \in 1..MaxMutations |-> now] ELSE <<>>
        verdict == PublishVerdict(hub.store, hub.lease, window, TRUE, Me,
                                  VersionAt(v), now)
    IN  /\ hub'  = IF verdict = "accepted"
                     THEN [hub EXCEPT !.store = AcceptVersion(@, VersionAt(v))] ELSE hub
        /\ down' = Reply([t |-> "ack", v |-> v,
                          res |-> IF verdict = "rate_limited" THEN "stale" ELSE verdict])
        /\ gaps' = IF verdict = "rate_limited" THEN gaps \union {v} ELSE gaps

(* handleLeaseAcquire from the device.                                     *)
HubLease(force, v) ==
    LET ok == LeaseGranted(hub.store, hub.lease, Me, force, VersionAt(v), now)
    IN  /\ hub'  = IF ok THEN [hub EXCEPT !.lease = [holder |-> Me,
                                                     until |-> LeaseUntil(now, 2)]]
                         ELSE hub
        /\ down' = Reply(IF ok THEN [t |-> "granted", at |-> now] ELSE [t |-> "denied"])
        /\ gaps' = gaps

(* The next frame of the device reaches the hub.                           *)
HubStep ==
    LET f == Head(dev.up)
    IN  /\ dev.up # <<>>
        /\ Len(down) < MaxFlight
        /\ CASE f.t = "publish" -> HubPublish(f.v)
             [] f.t \in {"lease", "force"} -> HubLease(f.t = "force", f.v)
             [] f.t = "url" -> UNCHANGED <<hub, down, gaps>>
        /\ dev'   = [dev EXCEPT !.up = Tail(@)]
        /\ UNCHANGED <<now, kind, fence>>

(* A forced handoff is announced to the device that held the lease.        *)
TellHolder == IF ForeignLease(hub.lease, Rival, now) /\ dev.link = "up"
                THEN Reply([t |-> "revoked"]) ELSE down

(* The other device takes the lease: free, expired or by force, naming a   *)
(* newer version of another cookie of the origin.                          *)
RivalAcquires ==
    /\ Rotating
    /\ hub.lease.holder # Rival
    /\ Len(down) < MaxFlight
    /\ hub'  = [hub EXCEPT !.lease = [holder |-> Rival, until |-> LeaseUntil(now, 2)]]
    /\ down' = TellHolder
    /\ UNCHANGED <<now, kind, dev, fence, gaps>>

(* Only the last connection of a device takes its leases along.            *)
LeaseAfterHubClose(c) ==
    IF hub.conns = {c} /\ hub.lease.holder = Me THEN NoLease ELSE hub.lease

(* The hub sees the close of a connection that is gone.                    *)
HubClose == \E c \in hub.conns :
    /\ c # hub.last \/ dev.link # "up"
    /\ hub' = [hub EXCEPT !.conns = @ \ {c}, !.lease = LeaseAfterHubClose(c)]
    /\ UNCHANGED <<now, kind, dev, down, fence, gaps>>

(* Time passes.  A grant under way for half the TTL is taken to arrive or  *)
(* be lost before more time passes.                                        *)
Tick ==
    /\ now < MaxTime
    /\ \A i \in 1..Len(down) : down[i].t = "granted" => down[i].at = now
    /\ now' = now + 1
    /\ UNCHANGED <<kind, dev, down, hub, fence, gaps>>

----------------------------------------------------------------------------
(* establishSessionFence, before a workspace URL is published.             *)

FenceStart ==
    /\ fence.pc = "idle"
    /\ fence' = [fence EXCEPT !.pc = "draining", !.need = Current]
    /\ UNCHANGED <<now, kind, dev, down, hub, gaps>>

(* The capture queue has drained, or the rejection queue before another    *)
(* try: flush the offline queue.                                           *)
FenceDrain ==
    /\ \/ fence.pc = "draining" /\ dev.capture = None
       \/ fence.pc = "again" /\ dev.retry = None /\ fence.tries < 2
    /\ fence' = [fence EXCEPT !.pc = "flushing",
                              !.tries = IF fence.pc = "again" THEN @ + 1 ELSE @]
    /\ dev'   = FlushPending(dev)
    /\ UNCHANGED <<now, kind, down, hub, gaps>>

FenceGivesUp ==
    /\ fence.pc = "again" /\ fence.tries = 2 /\ dev.retry = None
    /\ fence' = [fence EXCEPT !.pc = "failed"]
    /\ UNCHANGED <<now, kind, dev, down, hub, gaps>>

(* flushCookiePublishes: the answer, or a waiter.                          *)
FlushAnswer(d) ==
    IF ~Online(d) THEN "again"
    ELSE IF d.pending THEN "waiting"
    ELSE IF d.refused THEN "again" ELSE "url"

FenceFlush ==
    /\ fence.pc = "flushing"
    /\ dev.drain.v = None
    /\ fence' = [fence EXCEPT !.pc = FlushAnswer(dev)]
    /\ UNCHANGED <<now, kind, dev, down, hub, gaps>>

(* PUBLISH_ACK_TIMEOUT_MS passed.                                          *)
FlushTimeout ==
    /\ fence.pc = "waiting"
    /\ fence' = [fence EXCEPT !.pc = "again"]
    /\ UNCHANGED <<now, kind, dev, down, hub, gaps>>

(* The workspace URL goes out on the same socket, if it is connected.      *)
SendUrl ==
    /\ fence.pc = "url"
    /\ dev'   = IF Online(dev) THEN Transmit(dev, [t |-> "url", v |-> fence.need]) ELSE dev
    /\ fence' = [fence EXCEPT !.pc = "done"]
    /\ UNCHANGED <<now, kind, down, hub, gaps>>

LaneNext == \/ \E k \in {"write", "delete"} : Capture(k)
        \/ DrainOpened \/ LeaseTimeout \/ Dial \/ Cut \/ NoticeClose
        \/ HandleFrame \/ HubStep \/ RivalAcquires \/ HubClose \/ Tick
        \/ FenceStart \/ FenceDrain \/ FenceGivesUp \/ FenceFlush
        \/ FlushTimeout \/ SendUrl

LaneSpec == LaneInit /\ [][LaneNext]_laneVars

----------------------------------------------------------------------------
StoredAt(v) == AtMost(VersionAt(v), hub.store.rec)

(* Who still has version v in hand: the offline queue, a task that waits,  *)
(* or the pending set.                                                     *)
Held(v) == \/ v \in dev.queue
           \/ v \in {dev.capture, dev.drain.v, dev.retry}
           \/ dev.pending \/ dev.rejects > 0

(* A login that is the engine's current record is at the hub or somebody   *)
(* still has it in hand, through disconnects, refused leases, timeouts and *)
(* retries, except by three ways out: dropped by publish() while offline,  *)
(* acknowledged by the answer to another version, over the rate limit.     *)
WriteStaysInHand ==
    Current # None /\ kind[Current] = "write" =>
       \/ StoredAt(Current) \/ Held(Current)
       \/ Current \in gaps

(* While the engine trusts a cached grant the hub's lease is the device's  *)
(* and not expired, or the news that it is not is on its way: two devices  *)
(* never both write a rotating session for longer than that.               *)
GrantBacked ==
    dev.grant > now =>
       \/ hub.lease.holder = Me /\ hub.lease.until > now
       \/ \E i \in 1..Len(down) : down[i].t = "revoked"
       \/ dev.link = "cut"

(* A flush that waits is waiting for something: an id is pending on a      *)
(* connected transport, so an answer, the close or the timer will end it.  *)
WaiterHasPending == fence.pc = "waiting" => dev.pending /\ Online(dev)

(* What establishSessionFence says of itself: the hub has acknowledged the *)
(* records captured before, then the workspace URL is let out.             *)
FenceMeansStored ==
    fence.pc = "url" /\ fence.need # None /\ kind[fence.need] # "local"
      => StoredAt(fence.need)
============================================================================
