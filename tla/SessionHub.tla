----------------------------- MODULE SessionHub -----------------------------
(***************************************************************************)
(* The per-user SessionHub durable object (services/sessionhub): sockets,  *)
(* the durable state behind them, and every frame handler.  A handler only *)
(* awaits durable-object storage, whose input gate holds back other events *)
(* until it is done: handlers are atomic.  One space, one origin, one      *)
(* cookie; presence times and the wording of frames are left out.          *)
(***************************************************************************)
EXTENDS HubCore

CONSTANTS Devices,          \* device ids, naturals other than 0
          Sockets,          \* physical sockets
          EdgeAuth,         \* device tokens bind a socket when it is accepted
          LeaseTtls,        \* lease lengths a client may ask for
          Stamps,           \* bound: physical parts of the records' timestamps
          MaxPublishes,     \* bound: publishes of one device accepted
          MaxTime           \* bound: the hub's clock

ASSUME SessionHubAssumption == /\ Devices \subseteq Nat \ {0}
                               /\ EdgeAuth \in BOOLEAN
                               /\ LeaseTtls \subseteq Nat /\ Stamps \subseteq Nat
                               /\ MaxTime \in Nat /\ MaxPublishes \in Nat

VARIABLES now,              \* Date.now() at the hub
          sock,             \* sock[s]: state of the socket, device bound to it
          conn,             \* conn:<device>:<connection> keys
          presence,         \* devices with a presence: entry
          announced,        \* announced[d]: last presence broadcast about d
          revoked,          \* revoked:<device> keys
          lease,            \* lease:<space>:<origin>
          store,            \* rec:, hist: and wm:
          window,           \* window[d]: rl:<device>:<origin>
          sent,             \* sent[s]: versions sent to socket s
          synced,           \* sockets whose hydrate frame was answered
          accepts           \* accepts[d]: how many publishes of d were accepted

vars == <<now, sock, conn, presence, announced, revoked, lease, store, window,
          sent, synced, accepts>>

session == <<sock, conn, presence, announced, revoked>>
records == <<store, window, sent, synced, accepts>>

NoDevice   == 0
Closed     == [st |-> "closed", dev |-> NoDevice]
SocketType == [st : {"closed", "open", "closing"}, dev : Devices \union {NoDevice}]
LeaseType  == [holder : Nat, until : Nat]

TypeOK == /\ now       \in Nat
          /\ sock      \in [Sockets -> SocketType]
          /\ conn      \subseteq Devices \X Sockets
          /\ presence  \subseteq Devices
          /\ announced \in [Devices -> {"never", "online", "offline"}]
          /\ revoked   \subseteq Devices
          /\ lease     \in LeaseType
          /\ store     \in StoreType
          /\ window    \in [Devices -> Seq(Nat)]
          /\ sent      \in [Sockets -> SUBSET HlcType]
          /\ synced    \subseteq Sockets
          /\ accepts   \in [Devices -> Nat]

Init == /\ now       = 0
        /\ sock      = [s \in Sockets |-> Closed]
        /\ conn      = {}
        /\ presence  = {}
        /\ announced = [d \in Devices |-> "never"]
        /\ revoked   = {}
        /\ lease     = NoLease
        /\ store     = EmptyStore
        /\ window    = [d \in Devices |-> <<>>]
        /\ sent      = [s \in Sockets |-> {}]
        /\ synced    = {}
        /\ accepts   = [d \in Devices |-> 0]

----------------------------------------------------------------------------
(* getWebSockets: sockets that have not finished closing.                  *)
Attached    == {s \in Sockets : sock[s].st # "closed"}
SocketsOf(d) == {s \in Attached : sock[s].dev = d}

(* Mutant: the revocation is looked up when the socket is accepted only.   *)
FrameFromUnchecked(s, d) == s \in Attached /\ sock[s].dev = d

(* A frame of s reaches its handler: the socket is bound to a device that  *)
(* is not revoked (checked on every frame).                                *)
FrameFrom(s, d) == /\ s \in Attached
                   /\ sock[s].dev = d
                   /\ d \notin revoked

Tick == /\ now < MaxTime
        /\ now' = now + 1
        /\ UNCHANGED <<session, lease, records>>

(* fetch /v1/hub/ws: a device token binds the socket at once; without one  *)
(* the hello frame will.  A revoked token's socket is closed unbound.      *)
Accept(s) == \E d \in IF EdgeAuth THEN Devices ELSE {NoDevice} :
    /\ sock[s] = Closed
    /\ sock' = [sock EXCEPT ![s] =
                  IF d \in revoked THEN [st |-> "closing", dev |-> NoDevice]
                                   ELSE [st |-> "open", dev |-> d]]
    /\ UNCHANGED <<now, conn, presence, announced, revoked, lease, records>>

(* handleHello of a device that is not revoked.                            *)
Hello(s) == \E d \in Devices :
    /\ s \in Attached
    /\ d \notin revoked
    /\ sock[s].dev \in {d, NoDevice}
    /\ sock'      = [sock EXCEPT ![s].dev = d]
    /\ conn'      = conn \union {<<d, s>>}
    /\ presence'  = presence \union {d}
    /\ announced' = [announced EXCEPT ![d] = "online"]
    /\ UNCHANGED <<now, revoked, lease, records>>

(* Any frame of a revoked device, and a hello that claims to be one.       *)
RefuseRevoked(s) ==
    /\ s \in Attached
    /\ sock[s].dev \in revoked \/ (sock[s].dev = NoDevice /\ revoked # {})
    /\ sock' = [sock EXCEPT ![s].st = "closing"]
    /\ UNCHANGED <<now, conn, presence, announced, revoked, lease, records>>

(* Mutant: the other sockets of the device are not looked at.              *)
LastSocketBlind(s, d) == s \in SocketsOf(d)

(* handleClose goes on to mark the device offline only when no other       *)
(* socket and no other durable binding of the device is left.              *)
LastSocket(s, d) == /\ SocketsOf(d) \subseteq {s}
                    /\ conn \intersect ({d} \X (Sockets \ {s})) = {}

(* Mutant: a revoked device is marked offline like any other.              *)
GoesOfflineRevoked(s, d) == d # NoDevice /\ LastSocket(s, d)

(* A revoked device has been marked offline already.                       *)
GoesOffline(s, d) == d # NoDevice /\ d \notin revoked /\ LastSocket(s, d)

(* Mutant: the lease is left to run out.                                   *)
LeaseAfterCloseKept(d, last) == lease

(* The leases of a device that goes offline are deleted.                   *)
LeaseAfterClose(d, last) == IF last /\ lease.holder = d THEN NoLease ELSE lease

(* webSocketClose and handleClose.                                         *)
Close(s) ==
    LET d    == sock[s].dev
        last == GoesOffline(s, d)
    IN  /\ s \in Attached
        /\ sock'      = [sock EXCEPT ![s] = Closed]
        /\ conn'      = conn \ {<<d, s>>}
        /\ lease'     = LeaseAfterClose(d, last)
        /\ presence'  = IF last THEN presence \union {d} ELSE presence
        /\ announced' = IF last THEN [announced EXCEPT ![d] = "offline"]
                                ELSE announced
        /\ sent'      = [sent EXCEPT ![s] = {}]
        /\ synced'    = synced \ {s}
        /\ UNCHANGED <<now, revoked, store, window, accepts>>

(* Mutant: the bindings of the revoked device are left in storage.         *)
UnboundNothing(d) == conn

(* revokeDevice removes every binding of the device.                       *)
Unbound(d) == {c \in conn : c[1] # d}

(* POST /v1/admin/revoke: revokeDevice, then close the device's sockets.   *)
Revoke(d) ==
    /\ d \notin revoked
    /\ revoked'   = revoked \union {d}
    /\ conn'      = Unbound(d)
    /\ presence'  = presence \ {d}
    /\ announced' = [announced EXCEPT ![d] = "offline"]
    /\ sock'      = [s \in Sockets |-> IF s \in SocketsOf(d)
                                         THEN [sock[s] EXCEPT !.st = "closing"]
                                         ELSE sock[s]]
    /\ UNCHANGED <<now, lease, records>>

----------------------------------------------------------------------------
(* Mutant: the sender's declared spaces are looked at, not the peer's.     *)
FanOutBySender(s, h) ==
    [p \in Sockets |-> IF p # s /\ p \in Attached /\ <<sock[s].dev, p>> \in conn
                         THEN sent[p] \union {h} ELSE sent[p]]

(* The fan-out of an accepted version reaches the other sockets whose      *)
(* binding declares the space.                                             *)
FanOut(s, h) ==
    [p \in Sockets |-> IF p # s /\ p \in Attached /\ <<sock[p].dev, p>> \in conn
                         THEN sent[p] \union {h} ELSE sent[p]]

(* handlePublish of one record made by the sender.                         *)
Publish(s, d) == \E n \in Stamps :
    LET h == [phys |-> n, logi |-> 0, dev |-> d]
        v == PublishVerdict(store, lease, window[d], <<d, s>> \in conn, d, h, now)
        w == PruneWindow(window[d], now)
    IN  /\ FrameFrom(s, d)
        /\ accepts[d] < MaxPublishes
        /\ window' = IF v \in {"accepted", "rate_limited"}
                       THEN [window EXCEPT ![d] =
                               IF v = "accepted" THEN Append(w, now) ELSE w]
                       ELSE window
        /\ IF v = "accepted"
             THEN /\ store'   = AcceptVersion(store, h)
                  /\ sent'    = FanOut(s, h)
                  /\ accepts' = [accepts EXCEPT ![d] = @ + 1]
             ELSE UNCHANGED <<store, sent, accepts>>
        /\ UNCHANGED <<now, session, lease, synced>>

(* handleHydrate: every retained version.                                  *)
Hydrate(s, d) ==
    /\ FrameFrom(s, d)
    /\ sent'   = [sent EXCEPT ![s] = @ \union store.hist]
    /\ synced' = IF <<d, s>> \in conn THEN synced \union {s} ELSE synced
    /\ UNCHANGED <<now, session, lease, store, window, accepts>>

(* handleRollback, to a retained version or to before all of them.         *)
BeforeAll == [phys |-> 0, logi |-> 0, dev |-> 0]

Rollback(s, d) == \E to \in store.hist \union {BeforeAll} :
    /\ FrameFrom(s, d)
    /\ <<d, s>> \in conn
    /\ store' = RollBack(store, to)
    /\ UNCHANGED <<now, session, lease, window, sent, synced, accepts>>

(* handleLeaseAcquire; a denial changes nothing.                           *)
LeaseAcquire(s, d) == \E force \in BOOLEAN, n \in Stamps, ttl \in LeaseTtls :
    LET h == [phys |-> n, logi |-> 0, dev |-> d]
    IN  /\ FrameFrom(s, d)
        /\ LeaseGranted(store, lease, d, force, h, now)
        /\ lease' = [holder |-> d, until |-> LeaseUntil(now, ttl)]
        /\ UNCHANGED <<now, session, records>>

(* handleLeaseRelease *)
LeaseRelease(s, d) ==
    /\ FrameFrom(s, d)
    /\ lease.holder = d
    /\ lease' = NoLease
    /\ UNCHANGED <<now, session, records>>

Next == \/ Tick
        \/ \E s \in Sockets : Accept(s) \/ Hello(s) \/ RefuseRevoked(s) \/ Close(s)
        \/ \E d \in Devices : Revoke(d)
        \/ \E s \in Sockets, d \in Devices :
             \/ Publish(s, d) \/ Hydrate(s, d) \/ Rollback(s, d)
             \/ LeaseAcquire(s, d) \/ LeaseRelease(s, d)

Spec == Init /\ [][Next]_vars

----------------------------------------------------------------------------
(* The stored record is the newest retained version, through publishes,    *)
(* pruning and rollbacks, and the watermark is never behind it.            *)
RecordIsNewestVersion ==
    /\ store.rec = Newest(store.hist)
    /\ Cardinality(store.hist) <= MaxRecordHistory
    /\ AtMost(store.rec, store.wm)

(* A socket that was hydrated and is still bound has been sent the current *)
(* record, unless its own device published it: no version slips between    *)
(* the hydration stream and the fan-out.                                   *)
HydratedSeesRecord ==
    \A s \in synced : <<sock[s].dev, s>> \in conn =>
       \/ store.rec = NoVersion
       \/ store.rec \in sent[s]
       \/ store.rec.dev = sock[s].dev

(* What peers were last told about a device is true: with a bound socket   *)
(* it is online, and with no socket at all it is not, however the close of *)
(* an old socket and the hello of its replacement are ordered.             *)
PresenceTruthful ==
    \A d \in Devices :
       /\ (\E s \in Sockets : <<d, s>> \in conn) => announced[d] = "online"
       /\ SocketsOf(d) = {} => announced[d] # "online"

(* A device without a socket holds no lease, so nobody waits for the TTL   *)
(* of a writer that is gone; revoked devices apart.                        *)
NoOrphanLease ==
    lease # NoLease => SocketsOf(lease.holder) # {} \/ lease.holder \in revoked

(* After its revocation a device is out for good: it has no binding and no *)
(* presence entry, whichever of its sockets closes or speaks later.        *)
RevokedStaysOut ==
    \A d \in revoked : /\ ~\E s \in Sockets : <<d, s>> \in conn
                       /\ d \notin presence
                       /\ announced[d] = "offline"

(* A revoked device neither publishes nor receives: no step adds a version *)
(* of it to the store, or sends one to a socket bound to it.               *)
RevokedIsCutOff ==
    [][\A d \in revoked :
         /\ store'.rec # store.rec /\ store'.rec \notin store.hist
              => store'.rec.dev # d
         /\ \A s \in SocketsOf(d) : sent'[s] \subseteq sent[s]]_vars
============================================================================
