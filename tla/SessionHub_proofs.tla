-------------------------- MODULE SessionHub_proofs --------------------------
(***************************************************************************)
(* The session side of the hub for any number of devices and sockets: what *)
(* it tells about presence, whose lease stands, and that a revoked device  *)
(* stays out.  The three need one inductive invariant: a durable binding   *)
(* belongs to an attached socket of its device.                            *)
(*                                                                         *)
(* Then its records, for any history cap: the record is the newest version *)
(* retained, and a hydrated socket has been sent it.  As a rollback brings *)
(* back what is retained, the socket must have been sent all of that; and  *)
(* there is a newest version because the history is finite.                *)
(*                                                                         *)
(* Last the revocation path, for any number of requests, overlapping       *)
(* drains, failed calls and restarts: what the outbox counts as delivered  *)
(* has cut the device off at the hub.  Three facts make it inductive: the  *)
(* hub has revoked exactly what the control plane's calls reached; a row   *)
(* that a drain has in hand keeps its device, since its request is no      *)
(* longer idle; and a socket of a revoked device is closing.               *)
(***************************************************************************)
EXTENDS RevocationPath, FiniteSetTheorems, WellFoundedInduction, TLAPS

(* Shapes of the variables the session side reads.                         *)
Shape == /\ now       \in Nat
         /\ sock      \in [Sockets -> SocketType]
         /\ conn      \subseteq Devices \X Sockets
         /\ announced \in [Devices -> {"never", "online", "offline"}]
         /\ revoked   \subseteq Devices
         /\ lease     \in LeaseType
         /\ lease # NoLease => lease.holder \in Devices

(* conn: keys are written by hello and removed by close and revoke, so     *)
(* each of them is about a socket that is still attached.                  *)
BindingsAttached ==
    \A d \in Devices, s \in Sockets :
       <<d, s>> \in conn => s \in SocketsOf(d)

IInv == /\ Shape
        /\ BindingsAttached
        /\ PresenceTruthful
        /\ RevokedStaysOut
        /\ NoOrphanLease

(* 0, which stands for no device, is not one.                              *)
LEMMA DeviceZero == NoDevice \notin Devices
  BY SessionHubAssumption DEF NoDevice

LEMMA InitIInv == Init => IInv
  BY DeviceZero DEF Init, IInv, Shape, BindingsAttached, PresenceTruthful,
     RevokedStaysOut, NoOrphanLease, SocketsOf, Attached, Closed, SocketType,
     NoLease, LeaseType, NoDevice

----------------------------------------------------------------------------
(* Steps that leave sockets, bindings, presence and leases alone.          *)
LEMMA QuietKeepsIInv ==
  ASSUME IInv, UNCHANGED <<session, lease>>, now' \in Nat
  PROVE  IInv'
<1> USE DEF IInv, session
<1>1. \A e : SocketsOf(e)' = SocketsOf(e)
  BY DEF SocketsOf, Attached
<1>2. Shape'
  BY DEF Shape
<1>3. BindingsAttached' /\ PresenceTruthful'
  BY <1>1 DEF BindingsAttached, PresenceTruthful
<1>4. RevokedStaysOut' /\ NoOrphanLease'
  BY <1>1 DEF RevokedStaysOut, NoOrphanLease
<1> QED BY <1>2, <1>3, <1>4

(* accept: a socket appears, with a device or without.                     *)
LEMMA AcceptKeepsIInv ==
  ASSUME IInv, NEW s \in Sockets, Accept(s)
  PROVE  IInv'
<1> USE DEF IInv, Accept
<1>1. PICK d \in Devices \union {NoDevice} :
        sock' = [sock EXCEPT ![s] = IF d \in revoked
                                      THEN [st |-> "closing", dev |-> NoDevice]
                                      ELSE [st |-> "open", dev |-> d]]
  OBVIOUS
<1>2. \A t \in Sockets : t # s => sock'[t] = sock[t]
  BY <1>1 DEF Shape
<1>3. /\ sock'[s].st # "closed" /\ sock'[s].dev \in Devices \union {NoDevice}
      /\ sock'[s].dev \notin revoked
  BY <1>1, DeviceZero DEF Shape
<1>4. sock[s].st = "closed"
  BY DEF Closed
<1>5. Shape'
  BY <1>1 DEF Shape, SocketType
<1>6. \A e \in Devices : SocketsOf(e) \subseteq SocketsOf(e)'
  BY <1>2, <1>4 DEF SocketsOf, Attached
<1>7. BindingsAttached'
  BY <1>6 DEF BindingsAttached
<1>8. PresenceTruthful'
  BY <1>6 DEF PresenceTruthful
<1>9. RevokedStaysOut'
  BY DEF RevokedStaysOut
<1>10. NoOrphanLease'
  BY <1>6 DEF NoOrphanLease, Shape
<1> QED BY <1>5, <1>7, <1>8, <1>9, <1>10

(* hello: the socket is bound to its device and the device is online.      *)
LEMMA HelloKeepsIInv ==
  ASSUME IInv, NEW s \in Sockets, Hello(s)
  PROVE  IInv'
<1> USE DEF IInv, Hello
<1>1. PICK d \in Devices :
        /\ s \in Attached /\ d \notin revoked
        /\ sock[s].dev \in {d, NoDevice}
        /\ sock'      = [sock EXCEPT ![s].dev = d]
        /\ conn'      = conn \union {<<d, s>>}
        /\ presence'  = presence \union {d}
        /\ announced' = [announced EXCEPT ![d] = "online"]
        /\ UNCHANGED <<now, revoked, lease>>
  OBVIOUS
<1>2. \A t \in Sockets : t # s => sock'[t] = sock[t]
  BY <1>1 DEF Shape
<1>3. sock'[s].st = sock[s].st /\ sock'[s].dev = d
  BY <1>1 DEF Shape, SocketType
<1>4. Shape'
  BY <1>1 DEF Shape, SocketType
<1>5. \A e \in Devices : SocketsOf(e) \subseteq SocketsOf(e)'
  BY <1>1, <1>2, <1>3, DeviceZero DEF SocketsOf, Attached
<1>6. s \in SocketsOf(d)'
  BY <1>1, <1>3 DEF SocketsOf, Attached
<1>7. BindingsAttached'
  BY <1>1, <1>5, <1>6 DEF BindingsAttached
<1>8. PresenceTruthful'
  <2>1. announced \in [Devices -> {"never", "online", "offline"}]
    BY DEF Shape
  <2>2. announced'[d] = "online" /\ \A e \in Devices : e # d => announced'[e] = announced[e]
    BY <1>1, <2>1
  <2>3. PresenceTruthful
    OBVIOUS
  <2> HIDE DEF IInv, Hello
  <2>4. SocketsOf(d)' # {} /\ conn' = conn \union {<<d, s>>}
    BY <1>1, <1>6
  <2>5. \A e \in Devices : SocketsOf(e)' = {} => SocketsOf(e) = {} /\ e # d
    BY <1>5, <2>4
  <2> QED BY <2>2, <2>3, <2>4, <2>5, <1>6 DEF PresenceTruthful
<1>9. RevokedStaysOut'
  BY <1>1 DEF RevokedStaysOut, Shape
<1>10. NoOrphanLease'
  BY <1>1, <1>5 DEF NoOrphanLease, Shape
<1> QED BY <1>4, <1>7, <1>8, <1>9, <1>10

(* A refused frame: the socket starts closing, its device stays.           *)
LEMMA RefuseKeepsIInv ==
  ASSUME IInv, NEW s \in Sockets, RefuseRevoked(s)
  PROVE  IInv'
<1> USE DEF IInv, RefuseRevoked
<1>1. Shape'
  BY DEF Shape, SocketType
<1>2. /\ \A t \in Sockets : sock'[t].dev = sock[t].dev
      /\ Attached' = Attached
  BY DEF Shape, SocketType, Attached
<1>3. \A e : SocketsOf(e)' = SocketsOf(e)
  BY <1>2 DEF SocketsOf, Attached
<1> QED BY <1>1, <1>3 DEF BindingsAttached, PresenceTruthful, RevokedStaysOut,
           NoOrphanLease

(* revokeDevice and the closing of the device's sockets.                   *)
LEMMA RevokeKeepsIInv ==
  ASSUME IInv, NEW d \in Devices, Revoke(d)
  PROVE  IInv'
<1> USE DEF IInv, Revoke
<1>1. Shape'
  BY DEF Shape, SocketType, Unbound
<1>2. /\ \A t \in Sockets : sock'[t].dev = sock[t].dev
      /\ Attached' = Attached
  BY DEF Shape, SocketType, Attached, SocketsOf
<1>3. \A e : SocketsOf(e)' = SocketsOf(e)
  BY <1>2 DEF SocketsOf, Attached
<1>4. \A e \in Devices, t \in Sockets :
        <<e, t>> \in conn' <=> <<e, t>> \in conn /\ e # d
  BY DEF Unbound
<1>5. announced' = [announced EXCEPT ![d] = "offline"] /\ announced'[d] = "offline"
  BY DEF Shape
<1>6. BindingsAttached'
  BY <1>3, <1>4 DEF BindingsAttached
<1>7. PresenceTruthful'
  BY <1>3, <1>4, <1>5 DEF PresenceTruthful, Shape
<1>8. RevokedStaysOut'
  BY <1>4, <1>5 DEF RevokedStaysOut, Shape
<1>9. NoOrphanLease'
  BY <1>3 DEF NoOrphanLease
<1> QED BY <1>1, <1>6, <1>7, <1>8, <1>9

(* Leases: taken by a device with a socket, given back by the holder.      *)
LEMMA LeaseKeepsIInv ==
  ASSUME IInv, NEW s \in Sockets, NEW d \in Devices,
         LeaseAcquire(s, d) \/ LeaseRelease(s, d)
  PROVE  IInv'
<1> USE DEF IInv
<1>1. UNCHANGED <<now, session>> /\ s \in SocketsOf(d)
  BY DEF LeaseAcquire, LeaseRelease, FrameFrom, SocketsOf
<1>2. lease' \in LeaseType /\ (lease' = NoLease \/ lease'.holder = d)
  <2>1. CASE LeaseRelease(s, d)
    BY <2>1 DEF LeaseRelease, LeaseType, NoLease
  <2>2. CASE LeaseAcquire(s, d)
    <3>1. PICK ttl \in LeaseTtls : lease' = [holder |-> d, until |-> now + ttl]
      BY <2>2 DEF LeaseAcquire, LeaseUntil
    <3>2. d \in Nat /\ now + ttl \in Nat
      BY SessionHubAssumption DEF Shape
    <3> QED BY <3>1, <3>2 DEF LeaseType
  <2> QED BY <2>1, <2>2
<1>3. \A e : SocketsOf(e)' = SocketsOf(e)
  BY <1>1 DEF SocketsOf, Attached, session
<1>4. Shape'
  BY <1>1, <1>2 DEF Shape, session
<1>5. BindingsAttached' /\ PresenceTruthful'
  BY <1>1, <1>3 DEF BindingsAttached, PresenceTruthful, session
<1>6. RevokedStaysOut'
  BY <1>1 DEF RevokedStaysOut, session
<1>7. NoOrphanLease'
  BY <1>1, <1>2, <1>3 DEF NoOrphanLease
<1> QED BY <1>4, <1>5, <1>6, <1>7

(* close: the binding goes, and the device with its last socket.           *)
LEMMA CloseKeepsIInv ==
  ASSUME IInv, NEW s \in Sockets, Close(s)
  PROVE  IInv'
<1> DEFINE d    == sock[s].dev
           last == GoesOffline(s, d)
<1> USE DEF IInv
<1>1. /\ s \in Attached
      /\ sock'      = [sock EXCEPT ![s] = Closed]
      /\ conn'      = conn \ {<<d, s>>}
      /\ lease'     = IF last /\ lease.holder = d THEN NoLease ELSE lease
      /\ presence'  = IF last THEN presence \union {d} ELSE presence
      /\ announced' = IF last THEN [announced EXCEPT ![d] = "offline"] ELSE announced
      /\ UNCHANGED <<now, revoked>>
  BY DEF Close, LeaseAfterClose
<1>2. d \in Devices \union {NoDevice} /\ (last => d \in Devices /\ d \notin revoked)
  BY DEF Shape, SocketType, GoesOffline
<1>3. \A e \in Devices : SocketsOf(e)' = SocketsOf(e) \ {s}
  BY <1>1, DeviceZero DEF SocketsOf, Attached, Shape, Closed
<1>4. Shape'
  <2>1. sock' \in [Sockets -> SocketType]
    BY <1>1 DEF Shape, SocketType, Closed
  <2>2. lease' \in LeaseType /\ (lease' # NoLease => lease'.holder \in Devices)
    BY <1>1 DEF Shape, LeaseType, NoLease
  <2>3. announced' \in [Devices -> {"never", "online", "offline"}]
    BY <1>1, <1>2 DEF Shape
  <2> QED BY <1>1, <2>1, <2>2, <2>3 DEF Shape
<1>5. BindingsAttached'
  BY <1>1, <1>3 DEF BindingsAttached, SocketsOf
<1>6. \A e \in Devices : SocketsOf(e)' = {} /\ SocketsOf(e) # {}
        => e = d /\ (last \/ d \in revoked)
  <2> SUFFICES ASSUME NEW e \in Devices, SocketsOf(e)' = {}, SocketsOf(e) # {}
               PROVE  e = d /\ (last \/ d \in revoked)
    OBVIOUS
  <2>1. SocketsOf(e) = {s} /\ e = d
    BY <1>3 DEF SocketsOf
  <2>2. \A t \in Sockets \ {s} : <<d, t>> \notin conn
    BY <2>1 DEF BindingsAttached
  <2>3. conn \intersect ({d} \X (Sockets \ {s})) = {}
    BY <2>2
  <2>4. LastSocket(s, d)
    BY <2>1, <2>3 DEF LastSocket
  <2> QED BY <2>1, <2>4, DeviceZero DEF GoesOffline
<1>7. PresenceTruthful'
  <2> SUFFICES ASSUME NEW e \in Devices
               PROVE  /\ (\E t \in Sockets : <<e, t>> \in conn') => announced'[e] = "online"
                      /\ SocketsOf(e)' = {} => announced'[e] # "online"
    BY DEF PresenceTruthful
  <2>1. ASSUME NEW t \in Sockets, <<e, t>> \in conn' PROVE announced'[e] = "online"
    <3>1. announced[e] = "online"
      BY <1>1, <2>1 DEF PresenceTruthful
    <3>2. last => e # d
      <4>1. ASSUME last, e = d PROVE FALSE
        <5>1. t # s
          BY <1>1, <2>1, <4>1
        <5>2. <<d, t>> \in conn \intersect ({d} \X (Sockets \ {s}))
          BY <1>1, <2>1, <4>1, <5>1
        <5> QED BY <4>1, <5>2 DEF GoesOffline, LastSocket
      <4> QED BY <4>1
    <3> QED BY <1>1, <3>1, <3>2 DEF Shape
  <2>2. ASSUME SocketsOf(e)' = {} PROVE announced'[e] # "online"
    <3>1. CASE SocketsOf(e) = {}
      BY <1>1, <1>2, <3>1 DEF PresenceTruthful, Shape
    <3>2. CASE SocketsOf(e) # {}
      BY <1>1, <1>2, <1>6, <2>2, <3>2 DEF RevokedStaysOut, Shape
    <3> QED BY <3>1, <3>2
  <2> QED BY <2>1, <2>2
<1>8. RevokedStaysOut'
  BY <1>1, <1>2 DEF RevokedStaysOut, Shape
<1>9. NoOrphanLease'
  BY <1>1, <1>3, <1>6 DEF NoOrphanLease, Shape
<1> QED BY <1>4, <1>5, <1>7, <1>8, <1>9

----------------------------------------------------------------------------
LEMMA StepKeepsIInv == IInv /\ [Next]_vars => IInv'
<1> SUFFICES ASSUME IInv, [Next]_vars PROVE IInv'
  OBVIOUS
<1>1. CASE UNCHANGED vars
  BY <1>1, QuietKeepsIInv DEF vars, session, IInv, Shape
<1>2. CASE Tick
  BY <1>2, QuietKeepsIInv DEF Tick, IInv, Shape
<1>3. ASSUME NEW s \in Sockets, Accept(s) \/ Hello(s) \/ RefuseRevoked(s) \/ Close(s)
      PROVE  IInv'
  BY <1>3, AcceptKeepsIInv, HelloKeepsIInv, RefuseKeepsIInv, CloseKeepsIInv
<1>4. ASSUME NEW d \in Devices, Revoke(d) PROVE IInv'
  BY <1>4, RevokeKeepsIInv
<1>5. ASSUME NEW s \in Sockets, NEW d \in Devices,
             Publish(s, d) \/ Hydrate(s, d) \/ Rollback(s, d)
      PROVE  IInv'
  <2>1. UNCHANGED <<now, session, lease>>
    BY <1>5 DEF Publish, Hydrate, Rollback
  <2> QED BY <2>1, QuietKeepsIInv DEF IInv, Shape
<1>6. ASSUME NEW s \in Sockets, NEW d \in Devices,
             LeaseAcquire(s, d) \/ LeaseRelease(s, d)
      PROVE  IInv'
  BY <1>6, LeaseKeepsIInv
<1> QED BY <1>1, <1>2, <1>3, <1>4, <1>5, <1>6 DEF Next

LEMMA IInvHolds == Spec => []IInv
  BY InitIInv, StepKeepsIInv, PTL DEF Spec

(* What peers were last told about a device is true, for every fleet and   *)
(* every order of closes, hellos and revocations (handleHello, handleClose *)
(* and revokeDevice of the hub).                                           *)
THEOREM PresenceTruthfulAlways == Spec => []PresenceTruthful
<1>1. IInv => PresenceTruthful
  BY DEF IInv
<1> QED BY <1>1, IInvHolds, PTL

(* A revoked device never gets a binding or a presence entry again, nor is *)
(* it announced online (revokeDevice, and the guard in handleClose).       *)
THEOREM RevokedStaysOutAlways == Spec => []RevokedStaysOut
<1>1. IInv => RevokedStaysOut
  BY DEF IInv
<1> QED BY <1>1, IInvHolds, PTL

(* A lease belongs to a device with a socket, or to a revoked one          *)
(* (handleLeaseAcquire, and the clean-up in handleClose).                  *)
THEOREM NoOrphanLeaseAlways == Spec => []NoOrphanLease
<1>1. IInv => NoOrphanLease
  BY DEF IInv
<1> QED BY <1>1, IInvHolds, PTL

----------------------------------------------------------------------------
(* The records side of the hub: what AppendHistory, RollBack and Newest    *)
(* do to a finite set of timestamps, and what has been sent to a socket.   *)

(* compareHlc is a strict total order.                                     *)
LEMMA BeforeIsTotalOrder ==
  ASSUME NEW a \in VersionType, NEW b \in VersionType, NEW c \in VersionType
  PROVE  /\ ~Before(a, a)
         /\ Before(a, b) /\ Before(b, c) => Before(a, c)
         /\ a = b \/ Before(a, b) \/ Before(b, a)
<1>1. \A h \in VersionType : /\ h.phys \in Int /\ h.logi \in Int /\ h.dev \in Int
                             /\ h = [phys |-> h.phys, logi |-> h.logi, dev |-> h.dev]
  BY DEF VersionType, HlcType, NoVersion
<1>2. ~Before(a, a)
  BY <1>1 DEF Before
<1>3. Before(a, b) /\ Before(b, c) => Before(a, c)
  BY <1>1 DEF Before
<1>4. a.phys = b.phys /\ a.logi = b.logi /\ a.dev = b.dev => a = b
  BY <1>1
<1>5. a = b \/ Before(a, b) \/ Before(b, a)
  BY <1>1, <1>4 DEF Before
<1> QED BY <1>2, <1>3, <1>5

(* A finite set of timestamps has a newest one: the one with fewest later  *)
(* ones.                                                                   *)
LEMMA NewestExists ==
  ASSUME NEW S \in SUBSET HlcType, IsFiniteSet(S), S # {}
  PROVE  \E h \in S : \A g \in S : AtMost(g, h)
<1> DEFINE Later(g) == {f \in S : Before(g, f)}
           T == {Later(g) : g \in S}
<1>1. T \subseteq FiniteSubsetsOf(S) /\ T # {}
  <2>1. \A g \in S : Later(g) \in SUBSET S
    OBVIOUS
  <2>2. \A U \in SUBSET S : IsFiniteSet(U)
    BY FS_Subset
  <2> QED BY <2>1, <2>2 DEF FiniteSubsetsOf
<1>2. IsWellFoundedOn(StrictSubsetOrdering(S), FiniteSubsetsOf(S))
  BY FS_StrictSubsetOrderingWellFounded
<1>3. PICK x \in T : \A y \in T : <<y, x>> \notin StrictSubsetOrdering(S)
  <2> HIDE DEF T
  <2> QED BY <1>1, <1>2, WFMin
<1>4. PICK h \in S : x = Later(h)
  OBVIOUS
<1>5. ASSUME NEW g \in S, ~AtMost(g, h) PROVE FALSE
  <2>1. Before(h, g)
    BY <1>5, BeforeIsTotalOrder DEF AtMost, VersionType
  <2>2. Later(g) \subseteq Later(h)
    BY <2>1, BeforeIsTotalOrder DEF VersionType
  <2>3. g \in Later(h) /\ g \notin Later(g)
    BY <2>1, BeforeIsTotalOrder DEF VersionType
  <2>4. <<Later(g), Later(h)>> \in StrictSubsetOrdering(S)
    BY <2>2, <2>3 DEF StrictSubsetOrdering
  <2> QED BY <1>3, <1>4, <2>4
<1> QED BY <1>5

(* Newest picks the one that no other is later than.                       *)
LEMMA NewestUnique ==
  ASSUME NEW S \in SUBSET HlcType, NEW h \in S, \A g \in S : AtMost(g, h)
  PROVE  Newest(S) = h
<1>1. ASSUME NEW k \in S, \A g \in S : AtMost(g, k) PROVE k = h
  <2>1. AtMost(k, h) /\ AtMost(h, k)
    BY <1>1
  <2> QED BY <2>1, BeforeIsTotalOrder DEF AtMost, VersionType
<1> QED BY <1>1 DEF Newest

LEMMA NewestOfFinite ==
  ASSUME NEW S \in SUBSET HlcType, IsFiniteSet(S), S # {}
  PROVE  Newest(S) \in S /\ \A g \in S : AtMost(g, Newest(S))
<1>1. PICK h \in S : \A g \in S : AtMost(g, h)
  BY NewestExists
<1> QED BY <1>1, NewestUnique

(* What appendHistory keeps is finite, and no longer than the cap: the     *)
(* number of later versions tells the kept ones apart.                     *)
LEMMA AppendHistoryBounded ==
  ASSUME NEW S \in SUBSET HlcType, IsFiniteSet(S), NEW h \in HlcType
  PROVE  /\ AppendHistory(S, h) \subseteq S \union {h}
         /\ IsFiniteSet(AppendHistory(S, h))
         /\ Cardinality(AppendHistory(S, h)) <= MaxRecordHistory
<1> DEFINE all == S \union {h}
           Later(g) == {f \in all : Before(g, f)}
           kept == AppendHistory(S, h)
           rank == [g \in kept |-> Cardinality(Later(g))]
<1>1. IsFiniteSet(all) /\ all \subseteq HlcType
  BY FS_AddElement
<1>2. kept = {g \in all : Cardinality(Later(g)) < MaxRecordHistory}
  BY DEF AppendHistory
<1>3. \A g : IsFiniteSet(Later(g)) /\ Cardinality(Later(g)) \in Nat
  BY <1>1, FS_Subset, FS_CardinalityType
<1>4. rank \in [kept -> 0..(MaxRecordHistory - 1)]
  <2>1. \A g \in kept : Cardinality(Later(g)) \in 0..(MaxRecordHistory - 1)
    BY <1>2, <1>3, HubAssumption, SMTT(30)
  <2> QED BY <2>1
<1>5. ASSUME NEW f \in kept, NEW g \in kept, Before(f, g) PROVE rank[f] # rank[g]
  <2>1. f \in HlcType /\ g \in all /\ g \in HlcType
    BY <1>1, <1>2
  <2>2. Later(g) \subseteq Later(f) /\ g \in Later(f) /\ g \notin Later(g)
    BY <1>1, <1>5, <2>1, BeforeIsTotalOrder DEF VersionType
  <2>3. Cardinality(Later(g)) # Cardinality(Later(f))
    <3> HIDE DEF Later
    <3> QED BY <1>3, <2>2, FS_Subset
  <2> QED BY <2>3
<1>6. \A f, g \in kept : rank[f] = rank[g] => f = g
  <2> SUFFICES ASSUME NEW f \in kept, NEW g \in kept, f # g PROVE rank[f] # rank[g]
    OBVIOUS
  <2>1. Before(f, g) \/ Before(g, f)
    BY <1>1, <1>2, BeforeIsTotalOrder DEF VersionType
  <2> QED BY <1>5, <2>1
<1>7. rank \in Injection(kept, 0..(MaxRecordHistory - 1))
  BY <1>4, <1>6 DEF Injection, IsInjective
<1>8. /\ IsFiniteSet(0..(MaxRecordHistory - 1))
      /\ Cardinality(0..(MaxRecordHistory - 1)) = MaxRecordHistory
  BY FS_Interval, HubAssumption
<1>9. Cardinality(kept) <= MaxRecordHistory
  BY <1>7, <1>8, FS_Injection
<1> QED BY <1>1, <1>2, <1>9, FS_Subset

----------------------------------------------------------------------------
(* The records, and what the sockets that were hydrated have been sent.    *)
RecordShape == /\ store \in StoreType /\ IsFiniteSet(store.hist)
               /\ sent \in [Sockets -> SUBSET HlcType] /\ synced \subseteq Sockets

(* A hydrated socket keeps its binding until it closes or its device is    *)
(* revoked.                                                                *)
SyncedStands ==
    \A s \in synced : <<sock[s].dev, s>> \in conn \/ sock[s].dev \in revoked

(* A rollback brings back an old version, so that the record has been sent *)
(* is not enough: all that is retained has, but for the device's own.      *)
HistorySent ==
    \A s \in synced : <<sock[s].dev, s>> \in conn =>
       \A h \in store.hist : h \in sent[s] \/ h.dev = sock[s].dev

RInv == /\ RecordShape
        /\ RecordIsNewestVersion
        /\ SyncedStands
        /\ HistorySent

LEMMA InitRInv == Init => RInv
<1> SUFFICES ASSUME Init PROVE RInv
  OBVIOUS
<1>1. store = EmptyStore /\ store.hist = {} /\ store.rec = NoVersion /\ store.wm = NoVersion
  BY DEF Init, EmptyStore
<1>2. RecordShape
  BY <1>1, FS_EmptySet DEF Init, RecordShape, EmptyStore, StoreType, VersionType
<1>3. RecordIsNewestVersion
  BY <1>1, FS_EmptySet, HubAssumption DEF RecordIsNewestVersion, Newest, AtMost
<1> QED BY <1>1, <1>2, <1>3 DEF Init, RInv, SyncedStands, HistorySent

(* AcceptVersion of a version the verdict let through.                     *)
LEMMA AcceptKeepsRecord ==
  ASSUME store \in StoreType, IsFiniteSet(store.hist), RecordIsNewestVersion,
         NEW h \in HlcType, Before(store.rec, h), store' = AcceptVersion(store, h)
  PROVE  /\ store' \in StoreType /\ IsFiniteSet(store'.hist)
         /\ store'.rec = h /\ store'.hist \subseteq store.hist \union {h}
         /\ RecordIsNewestVersion'
<1> DEFINE all == store.hist \union {h}
<1>1. /\ store.rec \in VersionType /\ store.wm \in VersionType
      /\ store.hist \in SUBSET HlcType /\ h \in VersionType
  BY DEF StoreType, VersionType
<1>2. /\ store'.rec = h /\ store'.hist = AppendHistory(store.hist, h)
      /\ store'.wm = LaterOf(store.wm, h)
      /\ store' = [rec |-> store'.rec, hist |-> store'.hist, wm |-> store'.wm]
  BY DEF AcceptVersion
<1>3. /\ store'.hist \subseteq all /\ IsFiniteSet(store'.hist)
      /\ Cardinality(store'.hist) <= MaxRecordHistory
  BY <1>1, <1>2, AppendHistoryBounded
<1>4. \A g \in store.hist : Before(g, h)
  <2> SUFFICES ASSUME NEW g \in store.hist PROVE Before(g, h)
    OBVIOUS
  <2>1. AtMost(g, store.rec)
    BY <1>1, NewestOfFinite DEF RecordIsNewestVersion
  <2> QED BY <1>1, <2>1, BeforeIsTotalOrder DEF AtMost, VersionType
<1>5. {f \in all : Before(h, f)} = {}
  <2> SUFFICES ASSUME NEW f \in all, Before(h, f) PROVE FALSE
    OBVIOUS
  <2>1. f = h \/ Before(f, h)
    BY <1>4
  <2> QED BY <1>1, <2>1, BeforeIsTotalOrder DEF VersionType
<1>6. h \in store'.hist
  BY <1>2, <1>5, FS_EmptySet, HubAssumption DEF AppendHistory
<1>7. \A g \in store'.hist : AtMost(g, h)
  BY <1>3, <1>4 DEF AtMost
<1>8. store'.rec = Newest(store'.hist)
  BY <1>1, <1>2, <1>3, <1>6, <1>7, NewestUnique
<1>9. store'.wm \in VersionType /\ AtMost(h, store'.wm)
  BY <1>1, <1>2, BeforeIsTotalOrder DEF LaterOf, AtMost
<1>10. store' \in StoreType
  BY <1>1, <1>2, <1>3, <1>9 DEF StoreType
<1> QED BY <1>2, <1>3, <1>8, <1>9, <1>10 DEF RecordIsNewestVersion

(* RollBack to any point.                                                  *)
LEMMA RollBackKeepsNewest ==
  ASSUME store \in StoreType, IsFiniteSet(store.hist), RecordIsNewestVersion,
         NEW to, store' = RollBack(store, to)
  PROVE  /\ store' \in StoreType /\ IsFiniteSet(store'.hist)
         /\ store'.hist \subseteq store.hist
         /\ store'.rec \in {store.rec, NoVersion} \union store.hist
         /\ RecordIsNewestVersion'
<1> DEFINE kept == {h \in store.hist : AtMost(h, to)}
<1>1. CASE AtMost(store.rec, to)
  BY <1>1 DEF RollBack, RecordIsNewestVersion
<1>2. CASE ~AtMost(store.rec, to)
  <2>1. /\ store' = [store EXCEPT !.rec = Newest(kept), !.hist = kept]
        /\ store.rec \in VersionType /\ store.wm \in VersionType
        /\ store.hist \in SUBSET HlcType
    BY <1>2 DEF RollBack, StoreType
  <2>2. /\ store'.rec = Newest(kept) /\ store'.hist = kept /\ store'.wm = store.wm
        /\ store' = [rec |-> store'.rec, hist |-> store'.hist, wm |-> store'.wm]
    BY <2>1 DEF StoreType
  <2>3. /\ kept \in SUBSET store.hist /\ IsFiniteSet(kept)
        /\ Cardinality(kept) <= Cardinality(store.hist)
    BY FS_Subset
  <2>4. Cardinality(kept) <= MaxRecordHistory
    BY <2>3, FS_CardinalityType, HubAssumption DEF RecordIsNewestVersion
  <2>5. Newest(kept) \in store.hist \union {NoVersion}
    BY <2>1, <2>3, NewestOfFinite DEF Newest
  <2>6. AtMost(Newest(kept), store.wm)
    <3>1. CASE kept = {}
      <4>1. Newest(kept) = NoVersion
        BY <3>1 DEF Newest
      <4>2. AtMost(NoVersion, store.wm)
        BY <2>1 DEF AtMost, VersionType, HlcType, NoVersion, Before
      <4> QED BY <4>1, <4>2
    <3>2. CASE kept # {}
      <4>1. Newest(kept) \in store.hist
        BY <2>1, <2>3, <3>2, NewestOfFinite
      <4>2. AtMost(Newest(kept), store.rec) /\ AtMost(store.rec, store.wm)
        BY <2>1, <4>1, NewestOfFinite DEF RecordIsNewestVersion
      <4> QED BY <2>1, <4>1, <4>2, BeforeIsTotalOrder DEF AtMost, VersionType
    <3> QED BY <3>1, <3>2
  <2>7. store' \in StoreType
    BY <2>1, <2>2, <2>3, <2>5 DEF StoreType, VersionType
  <2> HIDE DEF kept
  <2> QED BY <2>2, <2>3, <2>4, <2>5, <2>6, <2>7 DEF RecordIsNewestVersion
<1> QED BY <1>1, <1>2

(* Steps that touch neither records nor what was sent: sockets appear, are *)
(* bound and are told to close.                                            *)
LEMMA SessionKeepsRInv ==
  ASSUME IInv, RInv, UNCHANGED records,
         \A s \in synced : sock'[s].dev = sock[s].dev,
         \A s \in synced : <<sock[s].dev, s>> \in conn'
                           <=> <<sock[s].dev, s>> \in conn /\ sock[s].dev \notin revoked' \ revoked,
         revoked \subseteq revoked'
  PROVE  RInv'
<1>1. RecordShape' /\ RecordIsNewestVersion'
  BY DEF RInv, RecordShape, RecordIsNewestVersion, records
<1>2. SyncedStands' /\ HistorySent'
  BY DEF RInv, SyncedStands, HistorySent, records
<1> QED BY <1>1, <1>2 DEF RInv

LEMMA CloseKeepsRInv ==
  ASSUME IInv, RInv, NEW s \in Sockets, Close(s)
  PROVE  RInv'
<1>1. /\ sock' = [sock EXCEPT ![s] = Closed] /\ conn' = conn \ {<<sock[s].dev, s>>}
      /\ sent' = [sent EXCEPT ![s] = {}] /\ synced' = synced \ {s}
      /\ UNCHANGED <<revoked, store>>
  BY DEF Close
<1>2. \A t \in synced' : /\ t \in Sockets /\ t # s /\ t \in synced
                         /\ sock'[t] = sock[t] /\ sent'[t] = sent[t]
                         /\ <<sock[t].dev, t>> \in conn' <=> <<sock[t].dev, t>> \in conn
  BY <1>1 DEF RInv, RecordShape, IInv, Shape
<1>3. RecordShape' /\ RecordIsNewestVersion'
  BY <1>1 DEF RInv, RecordShape, RecordIsNewestVersion
<1>4. SyncedStands' /\ HistorySent'
  BY <1>1, <1>2 DEF RInv, SyncedStands, HistorySent
<1> QED BY <1>3, <1>4 DEF RInv

LEMMA PublishKeepsRInv ==
  ASSUME IInv, RInv, NEW s \in Sockets, NEW d \in Devices, Publish(s, d)
  PROVE  RInv'
<1>1. /\ UNCHANGED <<session, synced>> /\ FrameFrom(s, d)
      /\ \/ UNCHANGED <<store, sent>>
         \/ \E h \in HlcType : /\ h.dev = d /\ Before(store.rec, h)
                              /\ store' = AcceptVersion(store, h) /\ sent' = FanOut(s, h)
  <2>1. PICK n \in Stamps :
          LET h == [phys |-> n, logi |-> 0, dev |-> d]
              v == PublishVerdict(store, lease, window[d], <<d, s>> \in conn, d, h, now)
          IN  /\ FrameFrom(s, d)
              /\ IF v = "accepted"
                   THEN /\ store' = AcceptVersion(store, h) /\ sent' = FanOut(s, h)
                   ELSE UNCHANGED <<store, sent>>
              /\ UNCHANGED <<session, synced>>
    BY DEF Publish
  <2> DEFINE h == [phys |-> n, logi |-> 0, dev |-> d]
  <2>2. h \in HlcType /\ h.dev = d
    BY SessionHubAssumption DEF HlcType
  <2>3. PublishVerdict(store, lease, window[d], <<d, s>> \in conn, d, h, now) = "accepted"
           => Before(store.rec, h)
    BY DEF PublishVerdict
  <2> QED BY <2>1, <2>2, <2>3
<1>2. CASE UNCHANGED <<store, sent>>
  BY <1>1, <1>2 DEF RInv, RecordShape, RecordIsNewestVersion, SyncedStands, HistorySent, session
<1>3. ASSUME NEW h \in HlcType, h.dev = d, Before(store.rec, h),
             store' = AcceptVersion(store, h), sent' = FanOut(s, h)
      PROVE  RInv'
  <2>1. /\ store' \in StoreType /\ IsFiniteSet(store'.hist)
        /\ store'.hist \subseteq store.hist \union {h} /\ RecordIsNewestVersion'
    BY <1>3, AcceptKeepsRecord DEF RInv, RecordShape
  <2>2. sent' \in [Sockets -> SUBSET HlcType]
    BY <1>3 DEF FanOut, RInv, RecordShape
  <2>3. \A p \in Sockets : /\ sent[p] \subseteq sent'[p]
                           /\ p # s /\ p \in Attached /\ <<sock[p].dev, p>> \in conn => h \in sent'[p]
    BY <1>3 DEF FanOut
  <2>4. sock[s].dev = d
    BY <1>1 DEF FrameFrom
  <2>5. ASSUME NEW p \in synced', <<sock'[p].dev, p>> \in conn', NEW g \in store'.hist
        PROVE  g \in sent'[p] \/ g.dev = sock'[p].dev
    <3>1. p \in Sockets /\ p \in synced /\ sock' = sock /\ <<sock[p].dev, p>> \in conn
      BY <1>1, <2>5 DEF RInv, RecordShape, session
    <3>2. p \in Attached
      BY <3>1 DEF IInv, Shape, BindingsAttached, SocketsOf
    <3>3. CASE g = h
      BY <1>3, <2>3, <2>4, <3>1, <3>2, <3>3
    <3>4. CASE g \in store.hist
      BY <2>3, <3>1, <3>4 DEF RInv, HistorySent
    <3> QED BY <2>1, <3>3, <3>4
  <2>6. SyncedStands'
    BY <1>1 DEF RInv, SyncedStands, session
  <2> QED BY <1>1, <2>1, <2>2, <2>5, <2>6 DEF RInv, RecordShape, HistorySent
<1> QED BY <1>1, <1>2, <1>3

LEMMA HydrateKeepsRInv ==
  ASSUME IInv, RInv, NEW s \in Sockets, NEW d \in Devices, Hydrate(s, d)
  PROVE  RInv'
<1>1. /\ sock[s].dev = d /\ UNCHANGED <<session, store>>
      /\ sent' = [sent EXCEPT ![s] = @ \union store.hist]
      /\ synced' = IF <<d, s>> \in conn THEN synced \union {s} ELSE synced
  BY DEF Hydrate, FrameFrom
<1>2. /\ sent' \in [Sockets -> SUBSET HlcType]
      /\ \A p \in Sockets : sent[p] \subseteq sent'[p]
      /\ store.hist \subseteq sent'[s]
  BY <1>1 DEF RInv, RecordShape, StoreType
<1>3. RecordShape' /\ RecordIsNewestVersion'
  BY <1>1, <1>2 DEF RInv, RecordShape, RecordIsNewestVersion
<1>4. SyncedStands'
  BY <1>1 DEF RInv, SyncedStands, session
<1>5. HistorySent'
  BY <1>1, <1>2 DEF RInv, RecordShape, HistorySent, session
<1> QED BY <1>3, <1>4, <1>5 DEF RInv

LEMMA RollbackKeepsRInv ==
  ASSUME IInv, RInv, NEW s \in Sockets, NEW d \in Devices, Rollback(s, d)
  PROVE  RInv'
<1>1. PICK to : store' = RollBack(store, to)
  BY DEF Rollback
<1>2. UNCHANGED <<session, sent, synced>>
  BY DEF Rollback
<1>3. /\ store' \in StoreType /\ IsFiniteSet(store'.hist)
      /\ store'.hist \subseteq store.hist /\ RecordIsNewestVersion'
  BY <1>1, RollBackKeepsNewest DEF RInv, RecordShape
<1> QED BY <1>2, <1>3 DEF RInv, RecordShape, SyncedStands, HistorySent, session

LEMMA StepKeepsRInv == IInv /\ RInv /\ [Next]_vars => RInv'
<1> SUFFICES ASSUME IInv, RInv, [Next]_vars PROVE RInv'
  OBVIOUS
<1>1. CASE UNCHANGED vars \/ Tick
  BY <1>1, SessionKeepsRInv DEF vars, Tick, session, records
<1>2. ASSUME NEW s \in Sockets, Accept(s) PROVE RInv'
  <2>1. sock[s].dev = NoDevice /\ UNCHANGED <<conn, revoked, records>>
        /\ \A t \in Sockets : t # s => sock'[t] = sock[t]
    BY <1>2 DEF Accept, Closed, IInv, Shape
  <2>2. s \notin synced
    BY <2>1, DeviceZero DEF RInv, SyncedStands, IInv, Shape
  <2> QED BY <2>1, <2>2, SessionKeepsRInv DEF RInv, RecordShape
<1>3. ASSUME NEW s \in Sockets, Hello(s) PROVE RInv'
  <2>1. PICK d \in Devices : /\ d \notin revoked /\ sock[s].dev \in {d, NoDevice}
                             /\ sock' = [sock EXCEPT ![s].dev = d]
                             /\ conn' = conn \union {<<d, s>>} /\ UNCHANGED <<revoked, records>>
    BY <1>3 DEF Hello
  <2>2. s \in synced => sock[s].dev = d /\ <<d, s>> \in conn
    BY <2>1, DeviceZero DEF RInv, SyncedStands, IInv, Shape
  <2>3. \A t \in synced : sock'[t].dev = sock[t].dev
    BY <2>1, <2>2 DEF RInv, RecordShape, IInv, Shape, SocketType
  <2>4. \A t \in synced : <<sock[t].dev, t>> \in conn' <=> <<sock[t].dev, t>> \in conn
    BY <2>1, <2>2
  <2> QED BY <2>1, <2>3, <2>4, SessionKeepsRInv
<1>4. ASSUME NEW s \in Sockets, RefuseRevoked(s) PROVE RInv'
  <2>1. \A t \in Sockets : sock'[t].dev = sock[t].dev
    BY <1>4 DEF RefuseRevoked, IInv, Shape, SocketType
  <2> QED BY <1>4, <2>1, SessionKeepsRInv DEF RefuseRevoked, RInv, RecordShape
<1>5. ASSUME NEW d \in Devices, Revoke(d) PROVE RInv'
  <2>1. /\ \A t \in Sockets : sock'[t].dev = sock[t].dev
        /\ revoked' = revoked \union {d} /\ d \notin revoked /\ UNCHANGED records
    BY <1>5 DEF Revoke, IInv, Shape, SocketType
  <2>2. \A e, t : <<e, t>> \in conn' <=> <<e, t>> \in conn /\ e # d
    BY <1>5 DEF Revoke, Unbound
  <2> QED BY <2>1, <2>2, SessionKeepsRInv DEF RInv, RecordShape
<1>6. ASSUME NEW s \in Sockets, NEW d \in Devices,
             LeaseAcquire(s, d) \/ LeaseRelease(s, d)
      PROVE  RInv'
  <2>1. UNCHANGED <<session, records>>
    BY <1>6 DEF LeaseAcquire, LeaseRelease
  <2> QED BY <2>1, SessionKeepsRInv DEF session
<1> QED BY <1>1, <1>2, <1>3, <1>4, <1>5, <1>6, CloseKeepsRInv, PublishKeepsRInv,
           HydrateKeepsRInv, RollbackKeepsRInv DEF Next

LEMMA RInvHolds == Spec => []RInv
<1>1. Init => RInv
  BY InitRInv
<1>2. IInv /\ RInv /\ [Next]_vars => RInv'
  BY StepKeepsRInv
<1> QED BY <1>1, <1>2, IInvHolds, PTL DEF Spec

(* The record is the newest retained version, the history stays within its *)
(* cap and the watermark is never behind, for every cap, fleet and order   *)
(* of publishes and rollbacks (appendHistory, handlePublish and            *)
(* handleRollback).                                                        *)
THEOREM RecordIsNewestAlways == Spec => []RecordIsNewestVersion
<1>1. RInv => RecordIsNewestVersion
  BY DEF RInv
<1> QED BY <1>1, RInvHolds, PTL

(* No version slips between handleHydrate's stream and the fan-out of      *)
(* handlePublish, also when a rollback brings an old version back.         *)
THEOREM HydratedSeesRecordAlways == Spec => []HydratedSeesRecord
<1>1. RInv => HydratedSeesRecord
  <2> SUFFICES ASSUME RInv, NEW s \in synced, <<sock[s].dev, s>> \in conn, store.rec # NoVersion
               PROVE  store.rec \in sent[s] \/ store.rec.dev = sock[s].dev
    BY DEF HydratedSeesRecord
  <2>1. store.rec \in store.hist
    BY NewestOfFinite DEF RInv, RecordShape, StoreType, RecordIsNewestVersion, Newest
  <2> QED BY <2>1 DEF RInv, HistorySent
<1> QED BY <1>1, RInvHolds, PTL

(* A revoked device neither publishes nor receives: the frame check of     *)
(* every handler, and the fan-out along durable bindings.                  *)
THEOREM RevokedIsCutOffAlways == Spec => RevokedIsCutOff
<1> DEFINE CutOff == \A d \in revoked :
         /\ store'.rec # store.rec /\ store'.rec \notin store.hist => store'.rec.dev # d
         /\ \A s \in SocketsOf(d) : sent'[s] \subseteq sent[s]
<1>1. ASSUME IInv, RInv, Next PROVE CutOff
  <2> SUFFICES ASSUME NEW d \in revoked
               PROVE  /\ store'.rec # store.rec /\ store'.rec \notin store.hist
                            => store'.rec.dev # d
                      /\ \A s \in SocketsOf(d) : sent'[s] \subseteq sent[s]
    OBVIOUS
  <2>0. /\ d \in Devices /\ d # NoDevice /\ \A s \in SocketsOf(d) : s \in Sockets
        /\ \A s \in SocketsOf(d) : sock[s].dev = d /\ <<d, s>> \notin conn
    BY <1>1, DeviceZero DEF IInv, Shape, RevokedStaysOut, SocketsOf, Attached
  <2>1. CASE UNCHANGED <<store, sent>>
    BY <2>1
  <2>2. ASSUME NEW s \in Sockets, Close(s)
        PROVE  UNCHANGED store /\ \A t \in Sockets : sent'[t] \subseteq sent[t]
    BY <1>1, <2>2 DEF Close, RInv, RecordShape
  <2>3. ASSUME NEW s \in Sockets, NEW e \in Devices, Publish(s, e), ~UNCHANGED <<store, sent>>
        PROVE  store'.rec.dev # d /\ \A t \in SocketsOf(d) : sent'[t] \subseteq sent[t]
    <3>1. PICK n \in Stamps : /\ store' = AcceptVersion(store, [phys |-> n, logi |-> 0, dev |-> e])
                              /\ sent' = FanOut(s, [phys |-> n, logi |-> 0, dev |-> e])
      BY <2>3 DEF Publish
    <3>2. e # d
      BY <2>3 DEF Publish, FrameFrom
    <3> QED BY <2>0, <3>1, <3>2 DEF AcceptVersion, FanOut
  <2>4. ASSUME NEW s \in Sockets, NEW e \in Devices, Hydrate(s, e)
        PROVE  UNCHANGED store /\ \A t \in SocketsOf(d) : sent'[t] \subseteq sent[t]
    <3>1. s \notin SocketsOf(d)
      BY <2>0, <2>4 DEF Hydrate, FrameFrom
    <3> QED BY <1>1, <2>0, <2>4, <3>1 DEF Hydrate, RInv, RecordShape
  <2>5. ASSUME NEW s \in Sockets, NEW e \in Devices, Rollback(s, e)
        PROVE  UNCHANGED sent /\ store'.rec \in {store.rec, NoVersion} \union store.hist
    <3>1. PICK to : store' = RollBack(store, to)
      BY <2>5 DEF Rollback
    <3>2. UNCHANGED sent
      BY <2>5 DEF Rollback
    <3> QED BY <1>1, <3>1, <3>2, RollBackKeepsNewest DEF RInv, RecordShape
  <2>6. NoVersion.dev # d
    BY <2>0 DEF NoVersion, NoDevice
  <2>7. \/ UNCHANGED <<store, sent>>
        \/ \E s \in Sockets : Close(s)
        \/ \E s \in Sockets, e \in Devices : Publish(s, e) \/ Hydrate(s, e) \/ Rollback(s, e)
    BY <1>1 DEF Next, Tick, Accept, Hello, RefuseRevoked, Revoke, LeaseAcquire, LeaseRelease, records
  <2> QED BY <2>0, <2>1, <2>2, <2>3, <2>4, <2>5, <2>6, <2>7
<1>2. IInv /\ RInv /\ [Next]_vars => [CutOff]_vars
  BY <1>1
<1> QED BY <1>2, IInvHolds, RInvHolds, PTL DEF Spec, RevokedIsCutOff

----------------------------------------------------------------------------
(* The revocation path.                                                    *)

RowState == {"none", "pending", "delivered"}
TaskState == {"idle", "mark", "notify", "enqueue", "select", "next", "landed",
              "missed", "over"}

(* Shapes of what the tasks of the control plane read and write.           *)
OutboxShape ==
    /\ row \in [Requests -> [st : RowState, attempts : Nat]]
    /\ task \in [Tasks -> [pc : TaskState, dev : Enrolled \union {Nobody},
                           todo : SUBSET Read, cur : SUBSET Read]]
    /\ hub \subseteq Enrolled

(* A request that has started has a device of the user.                    *)
StartedHasDevice == \A r \in Requests : ~At(r, "idle") => task[r].dev \in Enrolled

(* A row, in the table or in a drain's hands, was inserted by a request    *)
(* that has started: its device does not change any more.                  *)
RowsHaveStarted ==
    /\ \A r \in Requests : row[r].st # "none" => ~At(r, "idle")
    /\ \A p \in Tasks : \A x \in task[p].todo \union task[p].cur : ~At(x.id, "idle")

(* A row is marked delivered after the hub's answer.                       *)
LandedIsAtHub ==
    /\ \A p \in Tasks : At(p, "landed") => \A x \in task[p].cur : task[x.id].dev \in hub
    /\ \A r \in Requests : row[r].st = "delivered" => task[r].dev \in hub

OInv == OutboxShape /\ StartedHasDevice /\ RowsHaveStarted /\ LandedIsAtHub

LEMMA InitOInv == OutboxInit => OInv
  BY DEF OutboxInit, OInv, OutboxShape, StartedHasDevice, RowsHaveStarted, LandedIsAtHub,
         At, IdleTask, NoRow, RowState, TaskState, Tasks, Read

(* A call of the hub adds its device, or nothing.                          *)
LEMMA NotifyAdds ==
  ASSUME NEW d, NEW outcome, Notify(d, outcome)
  PROVE  /\ hub' \in {hub, hub \union {d}}
         /\ outcome = "ack" => hub' = hub \union {d}
  BY DEF Notify

(* Steps that keep rows, and the device and hands of every task.           *)
LEMMA MovesKeepOInv ==
  ASSUME OInv, NEW p \in Tasks, NEW d \in Enrolled \union {Nobody}, NEW pc \in TaskState,
         task' = [task EXCEPT ![p].dev = d, ![p].pc = pc],
         UNCHANGED row, hub' \subseteq Enrolled, hub \subseteq hub',
         d = task[p].dev \/ At(p, "idle"), pc # "landed",
         p \in Requests => d \in Enrolled /\ pc # "idle"
  PROVE  OInv'
<1>1. /\ OutboxShape'
      /\ \A q \in Tasks : /\ q # p => task'[q] = task[q]
                          /\ task'[q].todo = task[q].todo /\ task'[q].cur = task[q].cur
      /\ task'[p].dev = d /\ task'[p].pc = pc
  BY DEF OInv, OutboxShape
<1>2. Requests \subseteq Tasks
  BY DEF Tasks
<1>3. StartedHasDevice'
  BY <1>1, <1>2 DEF OInv, StartedHasDevice, At
<1>4. \A r \in Requests : ~At(r, "idle") => ~At(r, "idle")' /\ task'[r].dev = task[r].dev
  BY <1>1, <1>2 DEF At
<1>5. \A q \in Tasks : \A x \in task[q].todo \union task[q].cur : x.id \in Requests
  BY DEF OInv, OutboxShape, Read
<1>6. RowsHaveStarted'
  BY <1>1, <1>4, <1>5 DEF OInv, RowsHaveStarted
<1>7. \A q \in Tasks : At(q, "landed")' => At(q, "landed")
  BY <1>1 DEF At
<1>8. LandedIsAtHub'
  BY <1>1, <1>4, <1>5, <1>7 DEF OInv, RowsHaveStarted, LandedIsAtHub
<1> QED BY <1>1, <1>3, <1>6, <1>8 DEF OInv

LEMMA EnqueueKeepsOInv ==
  ASSUME OInv, NEW r \in Requests, Enqueue(r)
  PROVE  OInv'
<1>1. /\ r \in Tasks /\ task[r].pc = "enqueue" /\ hub' = hub
      /\ row' = [row EXCEPT ![r] = [st |-> "pending", attempts |-> 0]]
      /\ task' = [task EXCEPT ![r].pc = "select"]
  BY DEF Enqueue, At, To, Tasks
<1>2. /\ OutboxShape' /\ row'[r].st = "pending" /\ task'[r].pc = "select"
      /\ \A q \in Tasks : q # r => task'[q] = task[q]
      /\ \A q \in Tasks : /\ task'[q].todo = task[q].todo /\ task'[q].cur = task[q].cur
                          /\ task'[q].dev = task[q].dev
      /\ \A q \in Requests : q # r => row'[q] = row[q]
  BY <1>1 DEF OInv, OutboxShape, RowState, TaskState
<1>3. \A q \in Tasks : At(q, "idle")' <=> At(q, "idle")
  BY <1>1, <1>2 DEF At
<1>4. \A q \in Tasks : \A x \in task[q].todo \union task[q].cur : x.id \in Requests /\ x.id \in Tasks
  BY DEF OInv, OutboxShape, Read, Tasks
<1>5. StartedHasDevice'
  BY <1>2, <1>3 DEF OInv, StartedHasDevice, Tasks
<1>6. RowsHaveStarted'
  BY <1>1, <1>2, <1>3, <1>4 DEF OInv, RowsHaveStarted, Tasks, At
<1>7. LandedIsAtHub'
  BY <1>1, <1>2, <1>4 DEF OInv, LandedIsAtHub, Tasks, At
<1> QED BY <1>2, <1>5, <1>6, <1>7 DEF OInv

LEMMA SelectKeepsOInv ==
  ASSUME OInv, NEW p \in Tasks, FlushSelect(p)
  PROVE  OInv'
<1>0. UNCHANGED <<row, hub>>
  BY DEF FlushSelect
<1>1. /\ task[p].pc = "select" /\ UNCHANGED <<row, hub>>
      /\ task' = [task EXCEPT ![p].pc = "next", ![p].todo = Pending]
  BY DEF FlushSelect, At
<1>2. /\ Pending \in SUBSET Read /\ \A x \in Pending : row[x.id].st = "pending" /\ x.id \in Requests
  BY DEF OInv, OutboxShape, Pending, Read
<1>3. /\ OutboxShape' /\ task'[p].pc = "next" /\ task'[p].todo = Pending
      /\ \A q \in Tasks : q # p => task'[q] = task[q]
      /\ \A q \in Tasks : task'[q].cur = task[q].cur /\ task'[q].dev = task[q].dev
  BY <1>1, <1>2 DEF OInv, OutboxShape, TaskState
<1>4. \A q \in Tasks : At(q, "idle")' <=> At(q, "idle")
  BY <1>1, <1>3 DEF At
<1>5. \A q \in Tasks : \A x \in task[q].todo \union task[q].cur : x.id \in Requests /\ x.id \in Tasks
  BY DEF OInv, OutboxShape, Read, Tasks
<1>6. StartedHasDevice'
  BY <1>3, <1>4 DEF OInv, StartedHasDevice, Tasks
<1>7. RowsHaveStarted'
  <2>1. \A r \in Requests : row'[r].st # "none" => ~At(r, "idle")'
    BY <1>1, <1>4 DEF OInv, RowsHaveStarted, Tasks
  <2>2. ASSUME NEW q \in Tasks, NEW x \in task'[q].todo \union task'[q].cur
        PROVE  ~At(x.id, "idle")'
    <3>1. x \in Pending \/ x \in task[q].todo \union task[q].cur
      BY <1>3, <2>2
    <3>2. x.id \in Requests /\ x.id \in Tasks /\ ~At(x.id, "idle")
      BY <1>2, <1>5, <3>1 DEF OInv, RowsHaveStarted, Tasks
    <3> QED BY <1>4, <3>2
  <2> QED BY <2>1, <2>2 DEF RowsHaveStarted
<1>8. LandedIsAtHub'
  <2>1. ASSUME NEW q \in Tasks, At(q, "landed")', NEW x \in task'[q].cur
        PROVE  task'[x.id].dev \in hub'
    <3>1. At(q, "landed") /\ x \in task[q].cur /\ x.id \in Tasks
      BY <1>3, <1>5, <2>1 DEF At
    <3> QED BY <1>0, <1>3, <3>1 DEF OInv, LandedIsAtHub
  <2>2. \A r \in Requests : row'[r].st = "delivered" => task'[r].dev \in hub'
    BY <1>0, <1>3 DEF OInv, LandedIsAtHub, Tasks
  <2> QED BY <2>1, <2>2 DEF LandedIsAtHub
<1> QED BY <1>3, <1>6, <1>7, <1>8 DEF OInv

LEMMA NextKeepsOInv ==
  ASSUME OInv, NEW p \in Tasks, FlushNext(p)
  PROVE  OInv' /\ hub \subseteq hub'
<1>1. PICK x \in Due(p), outcome \in {"ack", "nohub", "throw"} :
        /\ task[p].pc = "next" /\ Notify(task[x.id].dev, outcome)
        /\ task' = [task EXCEPT ![p].pc = AfterDelivery(outcome), ![p].todo = @ \ {x}, ![p].cur = {x}]
        /\ UNCHANGED row
  BY DEF FlushNext, At
<1>2. /\ x \in task[p].todo /\ x \in Read /\ x.id \in Requests /\ x.id \in Tasks
      /\ AfterDelivery(outcome) \in {"landed", "missed", "next"}
      /\ AfterDelivery(outcome) = "landed" => outcome = "ack"
  BY DEF OInv, OutboxShape, Due, AfterDelivery, Read, Tasks
<1>3. ~At(x.id, "idle") /\ task[x.id].dev \in Enrolled
  BY <1>2 DEF OInv, RowsHaveStarted, StartedHasDevice
<1>4. /\ hub' \in {hub, hub \union {task[x.id].dev}} /\ hub \subseteq hub'
      /\ outcome = "ack" => task[x.id].dev \in hub'
  BY <1>1, NotifyAdds
<1>5. /\ OutboxShape' /\ task'[p].pc = AfterDelivery(outcome)
      /\ task'[p].todo = task[p].todo \ {x} /\ task'[p].cur = {x}
      /\ \A q \in Tasks : q # p => task'[q] = task[q]
      /\ \A q \in Tasks : task'[q].dev = task[q].dev
  BY <1>1, <1>2, <1>3, <1>4 DEF OInv, OutboxShape, TaskState
<1>6. \A q \in Tasks : At(q, "idle")' <=> At(q, "idle")
  BY <1>1, <1>2, <1>5 DEF At
<1>7. \A q \in Tasks : \A y \in task[q].todo \union task[q].cur : y.id \in Requests /\ y.id \in Tasks
  BY DEF OInv, OutboxShape, Read, Tasks
<1>8. StartedHasDevice'
  BY <1>5, <1>6 DEF OInv, StartedHasDevice, Tasks
<1>9. RowsHaveStarted'
  BY <1>1, <1>2, <1>3, <1>5, <1>6, <1>7 DEF OInv, RowsHaveStarted, Tasks
<1>10. LandedIsAtHub'
  <2>1. ASSUME NEW q \in Tasks, At(q, "landed")', NEW y \in task'[q].cur
        PROVE  task'[y.id].dev \in hub'
    <3>1. CASE q = p
      BY <1>2, <1>4, <1>5, <2>1, <3>1 DEF At
    <3>2. CASE q # p
      <4>1. At(q, "landed") /\ y \in task[q].cur /\ y.id \in Tasks
        BY <1>5, <1>7, <2>1, <3>2 DEF At
      <4> QED BY <1>4, <1>5, <4>1 DEF OInv, LandedIsAtHub
    <3> QED BY <3>1, <3>2
  <2>2. \A r \in Requests : row'[r].st = "delivered" => task'[r].dev \in hub'
    BY <1>1, <1>4, <1>5 DEF OInv, LandedIsAtHub, Tasks
  <2> QED BY <2>1, <2>2 DEF LandedIsAtHub
<1> QED BY <1>4, <1>5, <1>8, <1>9, <1>10 DEF OInv

(* The row is updated: delivered, or one more attempt.                     *)
LEMMA RowUpdateKeepsOInv ==
  ASSUME OInv, NEW p \in Tasks, FlushLanded(p) \/ FlushMissed(p)
  PROVE  OInv'
<1>1. PICK x \in task[p].cur :
        /\ task[p].pc \in {"landed", "missed"} /\ UNCHANGED hub
        /\ task' = [task EXCEPT ![p].pc = "next"]
        /\ \/ task[p].pc = "landed" /\ row' = [row EXCEPT ![x.id].st = "delivered"]
           \/ row' = [row EXCEPT ![x.id] = [row[x.id] EXCEPT !.attempts = x.attempts + 1]]
  BY DEF FlushLanded, FlushMissed, MissedRow, At, To
<1>2. x \in Read /\ x.id \in Requests /\ x.id \in Tasks /\ x.attempts \in Nat
  BY DEF OInv, OutboxShape, Read, Tasks
<1>3. ~At(x.id, "idle") /\ (task[p].pc = "landed" => task[x.id].dev \in hub)
  BY <1>2 DEF OInv, RowsHaveStarted, LandedIsAtHub, At
<1>4. task' \in [Tasks -> [pc : TaskState, dev : Enrolled \union {Nobody},
                           todo : SUBSET Read, cur : SUBSET Read]]
  BY <1>1, SMTT(30) DEF OInv, OutboxShape, TaskState
<1>5. row' \in [Requests -> [st : RowState, attempts : Nat]]
  BY <1>1, <1>2 DEF OInv, OutboxShape, RowState
<1>6. \A r \in Requests : /\ r # x.id => row'[r] = row[r]
                          /\ row'[r].st = "delivered" => row[r].st = "delivered"
                                \/ (r = x.id /\ task[p].pc = "landed")
                          /\ row'[r].st = row[r].st \/ r = x.id
  BY <1>1, <1>2 DEF OInv, OutboxShape, RowState
<1>7. /\ task'[p].pc = "next" /\ \A q \in Tasks : q # p => task'[q] = task[q]
      /\ \A q \in Tasks : /\ task'[q].dev = task[q].dev
                          /\ task'[q].todo = task[q].todo /\ task'[q].cur = task[q].cur
  BY <1>1 DEF OInv, OutboxShape
<1>8. \A q \in Tasks : At(q, "idle")' <=> At(q, "idle")
  BY <1>1, <1>7 DEF At
<1>9. \A q \in Tasks : \A y \in task[q].todo \union task[q].cur : y.id \in Requests /\ y.id \in Tasks
  BY DEF OInv, OutboxShape, Read, Tasks
<1>10. StartedHasDevice'
  BY <1>7, <1>8 DEF OInv, StartedHasDevice, Tasks
<1>11. RowsHaveStarted'
  BY <1>3, <1>6, <1>7, <1>8, <1>9 DEF OInv, RowsHaveStarted, Tasks
<1>12. LandedIsAtHub'
  <2>1. ASSUME NEW q \in Tasks, At(q, "landed")', NEW y \in task'[q].cur
        PROVE  task'[y.id].dev \in hub'
    <3>1. At(q, "landed") /\ y \in task[q].cur /\ y.id \in Tasks
      BY <1>7, <1>9, <2>1 DEF At
    <3> QED BY <1>1, <1>7, <3>1 DEF OInv, LandedIsAtHub
  <2>2. \A r \in Requests : row'[r].st = "delivered" => task'[r].dev \in hub'
    BY <1>1, <1>3, <1>6, <1>7 DEF OInv, LandedIsAtHub, Tasks
  <2> QED BY <2>1, <2>2 DEF LandedIsAtHub
<1> QED BY <1>1, <1>4, <1>5, <1>10, <1>11, <1>12 DEF OInv, OutboxShape

(* A flush ends, or the process restarts: tasks let go of what they had.   *)
LEMMA LetGoKeepsOInv ==
  ASSUME OInv, UNCHANGED <<row, hub>>,
         task' \in [Tasks -> [pc : TaskState, dev : Enrolled \union {Nobody},
                              todo : SUBSET Read, cur : SUBSET Read]],
         \A q \in Tasks : task'[q].todo \subseteq task[q].todo /\ task'[q].cur \subseteq task[q].cur,
         \A q \in Tasks : At(q, "landed")' => At(q, "landed"),
         \A r \in Requests : task'[r].dev = task[r].dev /\ (At(r, "idle")' <=> At(r, "idle"))
  PROVE  OInv'
<1>1. \A q \in Tasks : \A x \in task[q].todo \union task[q].cur : x.id \in Requests
  BY DEF OInv, OutboxShape, Read
<1>2. OutboxShape' /\ StartedHasDevice'
  BY DEF OInv, OutboxShape, StartedHasDevice
<1>3. RowsHaveStarted'
  BY <1>1 DEF OInv, RowsHaveStarted
<1>4. LandedIsAtHub'
  <2>1. ASSUME NEW q \in Tasks, At(q, "landed")', NEW y \in task'[q].cur
        PROVE  task'[y.id].dev \in hub'
    <3>1. At(q, "landed") /\ y \in task[q].cur /\ y.id \in Requests
      BY <1>1, <2>1
    <3> QED BY <3>1 DEF OInv, LandedIsAtHub
  <2> QED BY <2>1 DEF OInv, LandedIsAtHub
<1> QED BY <1>2, <1>3, <1>4 DEF OInv

LEMMA EndKeepsOInv ==
  ASSUME OInv, NEW p \in Tasks, FlushEnd(p)
  PROVE  OInv'
<1>1. /\ task[p].pc = "next" /\ UNCHANGED <<row, hub>>
      /\ task' = [task EXCEPT ![p] = IF p \in Drains THEN IdleTask
                                     ELSE [@ EXCEPT !.pc = "over", !.todo = {}, !.cur = {}]]
  BY DEF FlushEnd, At
<1>2. task' \in [Tasks -> [pc : TaskState, dev : Enrolled \union {Nobody},
                           todo : SUBSET Read, cur : SUBSET Read]]
  BY <1>1, ZenonT(60) DEF OInv, OutboxShape, TaskState, IdleTask
<1>3. /\ \A q \in Tasks : q # p => task'[q] = task[q]
      /\ task'[p].todo = {} /\ task'[p].cur = {} /\ task'[p].pc # "landed"
      /\ p \in Requests => task'[p].dev = task[p].dev /\ task'[p].pc = "over"
  BY <1>1, OutboxAssumption DEF OInv, OutboxShape, IdleTask
<1> QED BY <1>1, <1>2, <1>3, LetGoKeepsOInv DEF At, Tasks

LEMMA RestartKeepsOInv ==
  ASSUME OInv, ProcessRestart
  PROVE  OInv'
<1>1. /\ UNCHANGED <<row, hub>>
      /\ task' = [p \in Tasks |-> IF p \in Drains THEN IdleTask
                                  ELSE IF At(p, "idle") THEN task[p]
                                  ELSE [IdleTask EXCEPT !.pc = "over", !.dev = task[p].dev]]
  BY DEF ProcessRestart
<1>2. task' \in [Tasks -> [pc : TaskState, dev : Enrolled \union {Nobody},
                           todo : SUBSET Read, cur : SUBSET Read]]
  BY <1>1 DEF OInv, OutboxShape, TaskState, IdleTask
<1>3. \A q \in Tasks : /\ task'[q].todo \subseteq task[q].todo /\ task'[q].cur \subseteq task[q].cur
                       /\ At(q, "landed")' => At(q, "landed")
  BY <1>1 DEF IdleTask, At
<1>4. \A r \in Requests : r \in Tasks /\ r \notin Drains
  BY OutboxAssumption DEF Tasks
<1>5. \A r \in Requests : task'[r].dev = task[r].dev /\ (At(r, "idle")' <=> At(r, "idle"))
  BY <1>1, <1>4 DEF IdleTask, At
<1> QED BY <1>1, <1>2, <1>3, <1>5, LetGoKeepsOInv

LEMMA OutboxStepKeepsOInv == OInv /\ [OutboxNext]_outboxVars => OInv' /\ hub \subseteq hub'
<1> SUFFICES ASSUME OInv, [OutboxNext]_outboxVars PROVE OInv' /\ hub \subseteq hub'
  OBVIOUS
<1>0. Requests \subseteq Tasks /\ Drains \subseteq Tasks
  BY DEF Tasks
<1>1. CASE UNCHANGED outboxVars
  BY <1>1 DEF outboxVars, OInv, OutboxShape, StartedHasDevice, RowsHaveStarted, LandedIsAtHub, At
<1>2. ASSUME NEW r \in Requests, RevokeRead(r) PROVE OInv' /\ hub \subseteq hub'
  <2>1. PICK d \in Enrolled :
          /\ At(r, "idle") /\ UNCHANGED <<row, hub>>
          /\ task' = [task EXCEPT ![r].dev = d, ![r].pc = IF d \in revokedAt THEN "over" ELSE "mark"]
    BY <1>2 DEF RevokeRead
  <2> DEFINE pc == IF d \in revokedAt THEN "over" ELSE "mark"
  <2>2. pc \in TaskState /\ pc # "landed" /\ pc # "idle"
    BY DEF TaskState
  <2>3. task' = [task EXCEPT ![r].dev = d, ![r].pc = pc]
    BY <2>1
  <2> HIDE DEF pc
  <2> QED BY <1>0, <2>1, <2>2, <2>3, MovesKeepOInv DEF OInv, OutboxShape
<1>3. ASSUME NEW p \in Tasks, NEW pc \in TaskState, To(p, pc), UNCHANGED row,
             pc # "landed", p \in Requests => pc # "idle" /\ ~At(p, "idle"),
             hub' \subseteq Enrolled, hub \subseteq hub'
      PROVE  OInv'
  <2>1. task' = [task EXCEPT ![p].dev = task[p].dev, ![p].pc = pc]
    BY <1>3 DEF To, OInv, OutboxShape
  <2>2. task[p].dev \in Enrolled \union {Nobody} /\ (p \in Requests => task[p].dev \in Enrolled)
    BY <1>3 DEF OInv, OutboxShape, StartedHasDevice
  <2> QED BY <1>3, <2>1, <2>2, MovesKeepOInv
<1>4. ASSUME NEW r \in Requests, RevokeMark(r) PROVE OInv' /\ hub \subseteq hub'
  BY <1>0, <1>3, <1>4 DEF RevokeMark, At, TaskState, OInv, OutboxShape
<1>5. ASSUME NEW r \in Requests, RevokeNotify(r) PROVE OInv' /\ hub \subseteq hub'
  <2>1. PICK outcome \in {"ack", "nohub", "throw"} :
          /\ At(r, "notify") /\ Notify(task[r].dev, outcome) /\ To(r, AfterNotify(outcome))
          /\ UNCHANGED row
    BY <1>5 DEF RevokeNotify
  <2>2. task[r].dev \in Enrolled /\ ~At(r, "idle")
    BY <2>1 DEF OInv, StartedHasDevice, At
  <2>3. hub' \subseteq Enrolled /\ hub \subseteq hub'
    BY <2>1, <2>2, NotifyAdds DEF OInv, OutboxShape
  <2>4. AfterNotify(outcome) \in TaskState \ {"landed", "idle"}
    BY DEF AfterNotify, TaskState
  <2> QED BY <1>0, <1>3, <2>1, <2>2, <2>3, <2>4
<1>6. ASSUME NEW t \in Drains, DrainTimer(t) PROVE OInv' /\ hub \subseteq hub'
  <2>1. t \notin Requests
    BY OutboxAssumption
  <2> QED BY <1>0, <1>3, <1>6, <2>1 DEF DrainTimer, TaskState, OInv, OutboxShape
<1>7. ASSUME NEW r \in Requests, Enqueue(r) PROVE OInv' /\ hub \subseteq hub'
  BY <1>7, EnqueueKeepsOInv DEF Enqueue
<1>8. ASSUME NEW p \in Tasks, Flushing(p) PROVE OInv' /\ hub \subseteq hub'
  <2>1. FlushNext(p) \/ (UNCHANGED hub /\ (FlushSelect(p) \/ FlushLanded(p) \/ FlushMissed(p) \/ FlushEnd(p)))
    BY <1>8 DEF Flushing, FlushSelect, FlushLanded, FlushMissed, FlushEnd
  <2> QED BY <2>1, SelectKeepsOInv, NextKeepsOInv, RowUpdateKeepsOInv, EndKeepsOInv
<1>9. CASE ProcessRestart
  BY <1>9, RestartKeepsOInv DEF ProcessRestart
<1> QED BY <1>1, <1>2, <1>4, <1>5, <1>6, <1>7, <1>8, <1>9 DEF OutboxNext, Revoking

----------------------------------------------------------------------------
(* The two sides together.                                                 *)

(* The hub has cut off exactly the devices the control plane's calls       *)
(* reached.                                                                *)
SidesAgree == hub = revoked

RevokedClosing ==
    \A s \in Sockets : sock[s].dev \in revoked /\ sock[s].st # "closed" => sock[s].st = "closing"

PInv == IInv /\ OInv /\ SidesAgree /\ RevokedClosing

LEMMA InitPInv == PathInit => PInv
<1> SUFFICES ASSUME PathInit PROVE PInv
  OBVIOUS
<1>1. IInv /\ OInv
  BY InitIInv, InitOInv DEF PathInit
<1> QED BY <1>1 DEF PathInit, Init, OutboxInit, PInv, SidesAgree, RevokedClosing

(* What the control plane does, as the hub sees it: a revocation or        *)
(* nothing.                                                                *)
LEMMA ControlStepAtHub ==
  ASSUME PInv, ControlStep
  PROVE  /\ OInv'
         /\ \/ hub' = hub /\ UNCHANGED vars
            \/ \E d \in Devices : hub' = hub \union {d} /\ Revoke(d)
<1>1. OInv' /\ hub \subseteq hub' /\ hub' \subseteq Enrolled
  BY OutboxStepKeepsOInv DEF ControlStep, PInv, OInv, OutboxShape
<1>2. \E d : hub' \in {hub, hub \union {d}}
  <2>1. \A r, p : /\ RevokeNotify(r) => \E d : hub' \in {hub, hub \union {d}}
                  /\ FlushNext(p) => \E d : hub' \in {hub, hub \union {d}}
    BY NotifyAdds DEF RevokeNotify, FlushNext
  <2>2. UNCHANGED hub \/ (\E r : RevokeNotify(r)) \/ (\E p : FlushNext(p))
    BY DEF ControlStep, OutboxNext, Revoking, Flushing, RevokeRead, RevokeMark, Enqueue,
           DrainTimer, FlushSelect, FlushLanded, FlushMissed, FlushEnd, ProcessRestart
  <2> QED BY <2>1, <2>2
<1>3. CASE hub' # hub
  <2>1. PICK d \in hub' \ hub : Revoke(d)
    BY <1>3 DEF ControlStep, HubRevokes
  <2>2. hub' = hub \union {d} /\ d \in Devices
    BY <1>1, <1>2, <2>1, PathAssumption
  <2> QED BY <1>1, <2>1, <2>2
<1> QED BY <1>1, <1>3 DEF ControlStep

LEMMA PathStepKeepsPInv == PInv /\ [PathNext]_pathVars => PInv'
<1> SUFFICES ASSUME PInv, [PathNext]_pathVars PROVE PInv'
  OBVIOUS
<1>1. CASE UNCHANGED pathVars
  <2>1. UNCHANGED vars /\ UNCHANGED outboxVars
    BY <1>1 DEF pathVars
  <2>2. IInv' /\ OInv'
    BY <2>1, StepKeepsIInv, OutboxStepKeepsOInv DEF PInv
  <2> QED BY <2>1, <2>2 DEF PInv, SidesAgree, RevokedClosing, vars, outboxVars
<1>2. CASE ControlStep
  <2>1. CASE hub' = hub /\ UNCHANGED vars
    <3>1. IInv' /\ OInv'
      BY <1>2, <2>1, StepKeepsIInv, ControlStepAtHub DEF PInv
    <3> QED BY <2>1, <3>1 DEF PInv, SidesAgree, RevokedClosing, vars
  <2>2. ASSUME NEW d \in Devices, hub' = hub \union {d}, Revoke(d) PROVE PInv'
    <3>1. IInv' /\ OInv'
      BY <1>2, <2>2, RevokeKeepsIInv, ControlStepAtHub DEF PInv
    <3>2. SidesAgree'
      BY <2>2 DEF PInv, SidesAgree, Revoke
    <3>3. RevokedClosing'
      BY <2>2 DEF PInv, RevokedClosing, Revoke, SocketsOf, Attached, IInv, Shape, SocketType
    <3> QED BY <3>1, <3>2, <3>3 DEF PInv
  <2> QED BY <1>2, <2>1, <2>2, ControlStepAtHub
<1>3. CASE HubStep
  <2>1. Next /\ UNCHANGED outboxVars
    BY <1>3 DEF HubStep, Next
  <2>2. IInv' /\ OInv'
    BY <2>1, StepKeepsIInv, OutboxStepKeepsOInv DEF PInv
  <2>3. UNCHANGED <<hub, revoked>>
    BY <1>3, <2>1 DEF HubStep, Tick, Accept, Hello, RefuseRevoked, Close, LeaseAcquire,
                      LeaseRelease, session, outboxVars
  <2>4. RevokedClosing'
    <3>1. CASE UNCHANGED sock
      BY <2>3, <3>1 DEF PInv, RevokedClosing
    <3>2. ASSUME NEW s \in Sockets, Accept(s) \/ Hello(s) \/ RefuseRevoked(s) \/ Close(s)
          PROVE  RevokedClosing'
      <4>1. \A t \in Sockets : t # s => sock'[t] = sock[t]
        BY <3>2 DEF Accept, Hello, RefuseRevoked, Close, PInv, IInv, Shape
      <4>2. sock'[s].dev \in revoked /\ sock'[s].st # "closed" => sock'[s].st = "closing"
        BY <3>2, DeviceZero DEF Accept, Hello, RefuseRevoked, Close, PInv, IInv, Shape,
           SocketType, Closed
      <4> QED BY <2>3, <4>1, <4>2 DEF PInv, RevokedClosing
    <3> QED BY <1>3, <3>1, <3>2 DEF HubStep, Tick, LeaseAcquire, LeaseRelease, session
  <2> QED BY <2>2, <2>3, <2>4 DEF PInv, SidesAgree
<1> QED BY <1>1, <1>2, <1>3 DEF PathNext

LEMMA PInvHolds == PathSpec => []PInv
  BY InitPInv, PathStepKeepsPInv, PTL DEF PathSpec

(* A revocation the outbox counts as delivered has taken hold at the hub,  *)
(* however many drains overlap, calls fail after reaching the hub and      *)
(* processes restart in between (flushRevocationOutbox, revokeDevice and   *)
(* the frame check of the hub).                                            *)
THEOREM DeliveredIsOutAlways == PathSpec => []DeliveredIsOut
<1>1. PInv => DeliveredIsOut
  <2> SUFFICES ASSUME PInv, NEW r \in Requests, row[r].st = "delivered"
               PROVE  /\ {c \in conn : c[1] = task[r].dev} = {} /\ task[r].dev \notin presence
                      /\ \A s \in SocketsOf(task[r].dev) : sock[s].st = "closing"
    BY DEF DeliveredIsOut
  <2> DEFINE d == task[r].dev
  <2>1. d \in revoked /\ d \in Devices
    BY DEF PInv, OInv, LandedIsAtHub, SidesAgree, IInv, Shape
  <2>2. d \notin presence /\ \A s \in Sockets : <<d, s>> \notin conn
    BY <2>1 DEF PInv, IInv, RevokedStaysOut
  <2>3. {c \in conn : c[1] = d} = {}
    BY <2>2 DEF PInv, IInv, Shape
  <2>4. \A s \in SocketsOf(d) : sock[s].st = "closing"
    BY <2>1 DEF PInv, RevokedClosing, SocketsOf, Attached
  <2> QED BY <2>2, <2>3, <2>4
<1> QED BY <1>1, PInvHolds, PTL
==============================================================================
