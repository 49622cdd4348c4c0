------------------------- MODULE ClockedLane_proofs -------------------------
(***************************************************************************)
(* The two components of the ClockedLane run.  First the hybrid logical    *)
(* clocks, for any set of devices, any drift bound and any bounds.  Then   *)
(* the way of a login from the browser to the hub, for any number of       *)
(* changes, connections and frames: the current login is stored or in      *)
(* somebody's hands, a trusted lease is backed by the hub, and a flush     *)
(* never waits for nothing.                                                *)
(*                                                                         *)
(* For the login, the first needs where a version in flight is: sent and   *)
(* not yet handled, answered and not yet read, or lost with a socket whose *)
(* close the device has still to notice.  The second needs what a grant    *)
(* under way is worth: the hub's lease stands behind it for a whole TTL,   *)
(* or the revocation is behind it on the same socket.                      *)
(***************************************************************************)
EXTENDS HlcClocks, PublishLane, FiniteSetTheorems, SequenceTheorems,
        WellFoundedInduction, TLAPS

(* The reading a is not later than b.                                      *)
ClockAtMost(a, b) == a = b \/ ClockBefore(a, b)

WallBelowPeak == \A d \in Devices : wall[d] <= peak[d]

(* Nothing issued so far is beyond the drift bound of its issuer.          *)
IssuedBounded ==
    \A i \in 1..Len(issued) :
       /\ issued[i].hlc.dev \in Devices
       /\ issued[i].hlc.phys <= peak[issued[i].hlc.dev] + MaxClockDrift
       /\ issued[i].boot <= boot[issued[i].hlc.dev]

(* The clock of a process is not before anything that process issued.      *)
ClockCoversIssued ==
    \A i \in 1..Len(issued) :
       issued[i].boot = boot[issued[i].hlc.dev] =>
         ClockAtMost(Reading(issued[i].hlc), clock[issued[i].hlc.dev])

(* The clock of a process is after everything it merged unclamped.         *)
ClockCoversHeard ==
    \A d \in Devices : \A e \in heard[d] :
       ~e.clamped => ClockBefore(Reading(e.hlc), clock[d])

IInv == /\ TypeOK
        /\ WallBelowPeak
        /\ BoundedPull
        /\ IssuedBounded
        /\ ClockCoversIssued
        /\ ClockCoversHeard
        /\ SendsAscend
        /\ MergedPrecedesIssued

(* send(): the clock moves strictly forward, to the wall clock at most     *)
(* unless it already was ahead of it.                                      *)
LEMMA SendAdvances ==
    ASSUME NEW c \in ClockType, NEW w \in Nat
    PROVE  /\ ClockSend(c, w) \in ClockType
           /\ ClockBefore(c, ClockSend(c, w))
           /\ ClockSend(c, w).phys <= Maximum(c.phys, w)
  BY DEF ClockType, ClockSend, ClockBefore, Maximum

(* receive(): the clock moves strictly forward, past the remote timestamp  *)
(* unless that was clamped, and never beyond the drift bound.              *)
LEMMA ReceiveAdvances ==
    ASSUME NEW c \in ClockType, NEW w \in Nat, NEW r \in HlcType
    PROVE  /\ ClockReceive(c, w, r) \in ClockType
           /\ ClockBefore(c, ClockReceive(c, w, r))
           /\ r.phys = Clamp(r.phys, w)
                => ClockBefore(Reading(r), ClockReceive(c, w, r))
           /\ ClockReceive(c, w, r).phys <= Maximum(c.phys, w + MaxClockDrift)
  <1> DEFINE rp == Clamp(r.phys, w)
             ph == Maximum(w, Maximum(rp, c.phys))
  <1>1. /\ rp \in Nat /\ rp <= w + MaxClockDrift
        /\ ph \in Nat /\ ph >= w /\ ph >= rp /\ ph >= c.phys
        /\ ph = w \/ ph = rp \/ ph = c.phys
        /\ ph <= Maximum(c.phys, w + MaxClockDrift)
    BY DriftAssumption DEF Clamp, Minimum, Maximum, ClockType, HlcType
  <1>2. /\ c.phys \in Nat /\ c.logi \in Nat /\ r.phys \in Nat /\ r.logi \in Nat
        /\ Maximum(c.logi, r.logi) \in Nat
        /\ Maximum(c.logi, r.logi) >= c.logi
        /\ Maximum(c.logi, r.logi) >= r.logi
    BY DEF ClockType, HlcType, Maximum
  <1> HIDE DEF rp, ph
  <1>3. CASE ph = c.phys /\ ph = rp
    <2>1. ClockReceive(c, w, r) =
            [phys |-> ph, logi |-> Maximum(c.logi, r.logi) + 1]
      BY <1>3 DEF ClockReceive, rp, ph
    <2> QED BY <1>1, <1>2, <1>3, <2>1 DEF ClockType, ClockBefore, Reading, rp
  <1>4. CASE ph = c.phys /\ ph # rp
    <2>1. ClockReceive(c, w, r) = [phys |-> ph, logi |-> c.logi + 1]
      BY <1>4 DEF ClockReceive, rp, ph
    <2> QED BY <1>1, <1>2, <1>4, <2>1 DEF ClockType, ClockBefore, Reading, rp
  <1>5. CASE ph # c.phys /\ ph = rp
    <2>1. ClockReceive(c, w, r) = [phys |-> ph, logi |-> r.logi + 1]
      BY <1>5 DEF ClockReceive, rp, ph
    <2> QED BY <1>1, <1>2, <1>5, <2>1 DEF ClockType, ClockBefore, Reading, rp
  <1>6. CASE ph # c.phys /\ ph # rp
    <2>1. ClockReceive(c, w, r) = [phys |-> ph, logi |-> 0]
      BY <1>6 DEF ClockReceive, rp, ph
    <2> QED BY <1>1, <1>2, <1>6, <2>1 DEF ClockType, ClockBefore, Reading, rp
  <1> QED BY <1>3, <1>4, <1>5, <1>6

LEMMA ClockBeforeTransitive ==
    ASSUME NEW a \in ClockType, NEW b \in ClockType, NEW c \in ClockType
    PROVE  /\ ClockAtMost(a, b) /\ ClockBefore(b, c) => ClockBefore(a, c)
           /\ ClockBefore(a, b) /\ ClockAtMost(b, c) => ClockBefore(a, c)
           /\ ClockAtMost(a, b) /\ ClockAtMost(b, c) => ClockAtMost(a, c)
  BY DEF ClockType, ClockAtMost, ClockBefore

LEMMA IssuedTyped ==
    ASSUME TypeOK, NEW i \in 1..Len(issued)
    PROVE  /\ issued[i] \in Issue
           /\ issued[i].hlc \in HlcType /\ issued[i].boot \in Nat
           /\ issued[i].hlc.phys \in Nat /\ issued[i].hlc.logi \in Nat
           /\ Reading(issued[i].hlc) \in ClockType
  <1>1. issued[i] \in Issue
    BY DEF TypeOK
  <1>2. issued[i].hlc \in HlcType /\ issued[i].boot \in Nat
    BY <1>1 DEF Issue
  <1> QED BY <1>1, <1>2 DEF HlcType, Reading, ClockType

(* A step that leaves the log, the restarts and what was merged alone, and *)
(* does not turn any clock or peak back, keeps the invariant.              *)
LEMMA ClocksForward ==
    ASSUME IInv, TypeOK', WallBelowPeak', BoundedPull',
           UNCHANGED <<boot, heard, issued>>,
           \A d \in Devices : ClockAtMost(clock[d], clock'[d]),
           \A d \in Devices : peak[d] <= peak'[d]
    PROVE  IInv'
  <1>1. IssuedBounded'
    <2> SUFFICES ASSUME NEW i \in 1..Len(issued)
                 PROVE  /\ issued[i].hlc.dev \in Devices
                        /\ issued[i].hlc.phys
                             <= peak'[issued[i].hlc.dev] + MaxClockDrift
                        /\ issued[i].boot <= boot[issued[i].hlc.dev]
      BY DEF IssuedBounded
    <2>1. /\ issued[i].hlc.dev \in Devices
          /\ issued[i].hlc.phys <= peak[issued[i].hlc.dev] + MaxClockDrift
          /\ issued[i].boot <= boot[issued[i].hlc.dev]
      BY DEF IInv, IssuedBounded
    <2>2. issued[i].hlc.phys \in Nat
      BY IssuedTyped DEF IInv
    <2>3. /\ peak[issued[i].hlc.dev] \in Nat /\ peak'[issued[i].hlc.dev] \in Nat
          /\ peak[issued[i].hlc.dev] <= peak'[issued[i].hlc.dev]
      BY <2>1 DEF IInv, TypeOK
    <2> QED BY <2>1, <2>2, <2>3, DriftAssumption
  <1>2. ClockCoversIssued'
    <2> SUFFICES ASSUME NEW i \in 1..Len(issued),
                        issued[i].boot = boot[issued[i].hlc.dev]
                 PROVE  ClockAtMost(Reading(issued[i].hlc), clock'[issued[i].hlc.dev])
      BY DEF ClockCoversIssued
    <2>1. /\ issued[i].hlc.dev \in Devices
          /\ Reading(issued[i].hlc) \in ClockType
          /\ ClockAtMost(Reading(issued[i].hlc), clock[issued[i].hlc.dev])
      BY IssuedTyped DEF IInv, IssuedBounded, ClockCoversIssued
    <2> QED BY <2>1, ClockBeforeTransitive DEF IInv, TypeOK
  <1>3. ClockCoversHeard'
    <2> SUFFICES ASSUME NEW d \in Devices, NEW e \in heard[d], ~e.clamped
                 PROVE  ClockBefore(Reading(e.hlc), clock'[d])
      BY DEF ClockCoversHeard
    <2>1. /\ Reading(e.hlc) \in ClockType
          /\ ClockBefore(Reading(e.hlc), clock[d])
      BY DEF IInv, TypeOK, ClockCoversHeard, Heard, HlcType, Reading, ClockType
    <2> QED BY <2>1, ClockBeforeTransitive DEF IInv, TypeOK
  <1>4. SendsAscend' /\ MergedPrecedesIssued'
    BY DEF IInv, SendsAscend, MergedPrecedesIssued
  <1> QED BY <1>1, <1>2, <1>3, <1>4 DEF IInv

LEMMA SendKeepsIInv ==
    ASSUME IInv, NEW d \in Devices, Send(d)
    PROVE  IInv'
  <1> DEFINE c == ClockSend(clock[d], wall[d])
             x == [hlc |-> Stamp(c, d), boot |-> boot[d], after |-> heard[d]]
  <1>0. /\ clock[d] \in ClockType /\ wall[d] \in Nat /\ d \in Nat
        /\ peak[d] \in Nat /\ boot[d] \in Nat /\ heard[d] \in SUBSET Heard
    BY DevicesAssumption DEF IInv, TypeOK
  <1>1. /\ c \in ClockType
        /\ ClockBefore(clock[d], c)
        /\ c.phys <= Maximum(clock[d].phys, wall[d])
    BY <1>0, SendAdvances
  <1>2. /\ clock' = [clock EXCEPT ![d] = c]
        /\ issued' = Append(issued, x)
        /\ UNCHANGED <<wall, boot, heard, peak>>
    BY DEF Send
  <1> HIDE DEF c
  <1>3. /\ x \in Issue /\ x.hlc.dev = d /\ x.boot = boot[d]
        /\ x.after = heard[d] /\ Reading(x.hlc) = c
        /\ x.hlc.phys = c.phys /\ x.hlc.logi = c.logi
    BY <1>0, <1>1 DEF Issue, HlcType, Stamp, ClockType, Reading
  <1> HIDE DEF x
  <1>4. /\ Len(issued') = Len(issued) + 1 /\ Len(issued) \in Nat
        /\ \A i \in 1..Len(issued) : issued'[i] = issued[i]
        /\ issued'[Len(issued) + 1] = x
    BY <1>2, <1>3 DEF IInv, TypeOK
  <1>5. /\ clock'[d] = c
        /\ \A e \in Devices : e # d => clock'[e] = clock[e]
    BY <1>2 DEF IInv, TypeOK
  <1>6. TypeOK'
    BY <1>1, <1>2, <1>3 DEF IInv, TypeOK
  <1>7. WallBelowPeak'
    BY <1>2 DEF IInv, WallBelowPeak
  <1>8. c.phys <= peak[d] + MaxClockDrift
    BY <1>0, <1>1, DriftAssumption
       DEF IInv, WallBelowPeak, BoundedPull, Maximum, ClockType
  <1>9. BoundedPull'
    BY <1>2, <1>5, <1>8 DEF IInv, BoundedPull
  <1>10. IssuedBounded'
    BY <1>0, <1>2, <1>3, <1>4, <1>8 DEF IInv, IssuedBounded
  <1>11. ClockCoversIssued'
    <2> SUFFICES ASSUME NEW i \in 1..Len(issued'),
                        issued'[i].boot = boot[issued'[i].hlc.dev]
                 PROVE  ClockAtMost(Reading(issued'[i].hlc), clock'[issued'[i].hlc.dev])
      BY <1>2 DEF ClockCoversIssued
    <2>1. CASE i = Len(issued) + 1
      BY <2>1, <1>3, <1>4, <1>5 DEF ClockAtMost
    <2>2. CASE i \in 1..Len(issued)
      <3>1. /\ issued'[i] = issued[i] /\ issued[i].hlc.dev \in Devices
            /\ Reading(issued[i].hlc) \in ClockType
            /\ ClockAtMost(Reading(issued[i].hlc), clock[issued[i].hlc.dev])
        BY <2>2, <1>4, IssuedTyped DEF IInv, IssuedBounded, ClockCoversIssued
      <3>2. CASE issued[i].hlc.dev = d
        <4>1. ClockBefore(Reading(issued[i].hlc), c)
          BY <3>1, <3>2, <1>0, <1>1, ClockBeforeTransitive
        <4> QED BY <3>1, <3>2, <4>1, <1>5 DEF ClockAtMost
      <3>3. CASE issued[i].hlc.dev # d
        BY <3>1, <3>3, <1>5
      <3> QED BY <3>2, <3>3
    <2> QED BY <2>1, <2>2, <1>4
  <1>12. ClockCoversHeard'
    <2> SUFFICES ASSUME NEW f \in Devices, NEW e \in heard[f], ~e.clamped
                 PROVE  ClockBefore(Reading(e.hlc), clock'[f])
      BY <1>2 DEF ClockCoversHeard
    <2>1. /\ Reading(e.hlc) \in ClockType
          /\ ClockBefore(Reading(e.hlc), clock[f])
      BY DEF IInv, TypeOK, ClockCoversHeard, Heard, HlcType, Reading, ClockType
    <2>2. ClockAtMost(Reading(e.hlc), clock[f])
      BY <2>1 DEF ClockAtMost
    <2>3. CASE f = d
      BY <2>1, <2>2, <2>3, <1>0, <1>1, <1>5, ClockBeforeTransitive
    <2> QED BY <2>1, <2>3, <1>5
  <1>13. SendsAscend'
    <2> SUFFICES ASSUME NEW i \in 1..Len(issued'), NEW j \in 1..Len(issued'), i < j,
                        issued'[i].hlc.dev = issued'[j].hlc.dev,
                        issued'[i].boot = issued'[j].boot
                 PROVE  Before(issued'[i].hlc, issued'[j].hlc)
      BY DEF SendsAscend
    <2>1. i \in 1..Len(issued) /\ issued'[i] = issued[i]
      BY <1>4
    <2>2. CASE j = Len(issued) + 1
      <3>1. /\ Reading(issued[i].hlc) \in ClockType
            /\ ClockAtMost(Reading(issued[i].hlc), clock[d])
        BY <2>1, <2>2, <1>3, <1>4, IssuedTyped DEF IInv, ClockCoversIssued
      <3>2. ClockBefore(Reading(issued[i].hlc), c)
        BY <3>1, <1>0, <1>1, ClockBeforeTransitive
      <3> QED BY <3>2, <2>1, <2>2, <1>3, <1>4 DEF ClockBefore, Before, Reading
    <2>3. CASE j \in 1..Len(issued)
      BY <2>1, <2>3, <1>4 DEF IInv, SendsAscend
    <2> QED BY <2>2, <2>3, <1>4
  <1>14. MergedPrecedesIssued'
    <2> SUFFICES ASSUME NEW i \in 1..Len(issued'), NEW e \in issued'[i].after, ~e.clamped
                 PROVE  Before(e.hlc, issued'[i].hlc)
      BY DEF MergedPrecedesIssued
    <2>1. CASE i = Len(issued) + 1
      <3>1. e \in heard[d] /\ issued'[i] = x
        BY <2>1, <1>3, <1>4
      <3>2. /\ Reading(e.hlc) \in ClockType
            /\ ClockAtMost(Reading(e.hlc), clock[d])
        BY <3>1 DEF IInv, TypeOK, ClockCoversHeard, Heard, HlcType, Reading,
                    ClockType, ClockAtMost
      <3>3. ClockBefore(Reading(e.hlc), c)
        BY <3>2, <1>0, <1>1, ClockBeforeTransitive
      <3> QED BY <3>1, <3>3, <1>3 DEF ClockBefore, Before, Reading
    <2>2. CASE i \in 1..Len(issued)
      BY <2>2, <1>4 DEF IInv, MergedPrecedesIssued
    <2> QED BY <2>1, <2>2, <1>4
  <1> QED BY <1>6, <1>7, <1>9, <1>10, <1>11, <1>12, <1>13, <1>14 DEF IInv

LEMMA ReceiveKeepsIInv ==
    ASSUME IInv, NEW d \in Devices, Receive(d)
    PROVE  IInv'
  <1>1. PICK k \in 1..Len(issued) :
          LET r == issued[k].hlc
              e == [hlc |-> r, clamped |-> r.phys # Clamp(r.phys, wall[d])]
          IN  /\ clock' = [clock EXCEPT ![d] = ClockReceive(clock[d], wall[d], r)]
              /\ heard' = [heard EXCEPT ![d] = @ \union {e}]
    BY DEF Receive
  <1> DEFINE r == issued[k].hlc
             c == ClockReceive(clock[d], wall[d], r)
             e == [hlc |-> r, clamped |-> r.phys # Clamp(r.phys, wall[d])]
  <1>2. /\ clock[d] \in ClockType /\ wall[d] \in Nat /\ r \in HlcType
        /\ peak[d] \in Nat
    BY IssuedTyped DEF IInv, TypeOK
  <1>3. /\ c \in ClockType
        /\ ClockBefore(clock[d], c)
        /\ ~e.clamped => ClockBefore(Reading(r), c)
        /\ c.phys <= Maximum(clock[d].phys, wall[d] + MaxClockDrift)
    BY <1>2, ReceiveAdvances
  <1>4. /\ e \in Heard /\ e.hlc = r
    BY <1>2 DEF Heard
  <1>5. /\ clock' = [clock EXCEPT ![d] = c]
        /\ heard' = [heard EXCEPT ![d] = @ \union {e}]
        /\ UNCHANGED <<wall, boot, issued, peak>>
    BY <1>1 DEF Receive
  <1> HIDE DEF r, c, e
  <1>6. /\ clock'[d] = c /\ heard'[d] = heard[d] \union {e}
        /\ \A f \in Devices : f # d => clock'[f] = clock[f] /\ heard'[f] = heard[f]
    BY <1>5 DEF IInv, TypeOK
  <1>7. TypeOK'
    BY <1>3, <1>4, <1>5 DEF IInv, TypeOK
  <1>8. WallBelowPeak'
    BY <1>5 DEF IInv, WallBelowPeak
  <1>9. c.phys <= peak[d] + MaxClockDrift
    BY <1>2, <1>3, DriftAssumption
       DEF IInv, WallBelowPeak, BoundedPull, Maximum, ClockType
  <1>10. BoundedPull'
    BY <1>5, <1>6, <1>9 DEF IInv, BoundedPull
  <1>11. IssuedBounded'
    BY <1>5 DEF IInv, IssuedBounded
  <1>12. ClockCoversIssued'
    <2> SUFFICES ASSUME NEW i \in 1..Len(issued),
                        issued[i].boot = boot[issued[i].hlc.dev]
                 PROVE  ClockAtMost(Reading(issued[i].hlc), clock'[issued[i].hlc.dev])
      BY <1>5 DEF ClockCoversIssued
    <2>1. /\ issued[i].hlc.dev \in Devices
          /\ Reading(issued[i].hlc) \in ClockType
          /\ ClockAtMost(Reading(issued[i].hlc), clock[issued[i].hlc.dev])
      BY IssuedTyped DEF IInv, IssuedBounded, ClockCoversIssued
    <2>2. CASE issued[i].hlc.dev = d
      <3>1. ClockBefore(Reading(issued[i].hlc), c)
        BY <2>1, <2>2, <1>2, <1>3, ClockBeforeTransitive
      <3> QED BY <2>2, <3>1, <1>6 DEF ClockAtMost
    <2> QED BY <2>1, <2>2, <1>6
  <1>13. ClockCoversHeard'
    <2> SUFFICES ASSUME NEW f \in Devices, NEW x \in heard'[f], ~x.clamped
                 PROVE  ClockBefore(Reading(x.hlc), clock'[f])
      BY DEF ClockCoversHeard
    <2>1. CASE f = d /\ x = e
      BY <2>1, <1>3, <1>4, <1>6
    <2>2. CASE x \in heard[f]
      <3>1. /\ Reading(x.hlc) \in ClockType
            /\ ClockBefore(Reading(x.hlc), clock[f])
            /\ ClockAtMost(Reading(x.hlc), clock[f])
        BY <2>2 DEF IInv, TypeOK, ClockCoversHeard, Heard, HlcType, Reading,
                    ClockType, ClockAtMost
      <3>2. CASE f = d
        BY <3>1, <3>2, <1>2, <1>3, <1>6, ClockBeforeTransitive
      <3> QED BY <3>1, <3>2, <1>6
    <2> QED BY <2>1, <2>2, <1>6
  <1>14. SendsAscend' /\ MergedPrecedesIssued'
    BY <1>5 DEF IInv, SendsAscend, MergedPrecedesIssued
  <1> QED BY <1>7, <1>8, <1>10, <1>11, <1>12, <1>13, <1>14 DEF IInv

LEMMA SetWallKeepsIInv ==
    ASSUME IInv, NEW d \in Devices, SetWall(d)
    PROVE  IInv'
  <1>1. PICK w \in 1..MaxWall : /\ wall' = [wall EXCEPT ![d] = w]
                                /\ peak' = [peak EXCEPT ![d] = Maximum(@, w)]
    BY DEF SetWall
  <1>2. w \in Nat /\ Maximum(peak[d], w) \in Nat
        /\ w <= Maximum(peak[d], w) /\ peak[d] <= Maximum(peak[d], w)
    BY BoundsAssumption DEF IInv, TypeOK, Maximum
  <1>3. UNCHANGED <<clock, boot, heard, issued>>
    BY DEF SetWall
  <1>4. TypeOK'
    BY <1>1, <1>2, <1>3 DEF IInv, TypeOK
  <1>5. \A f \in Devices : peak[f] <= peak'[f]
    BY <1>1, <1>2 DEF IInv, TypeOK
  <1>6. WallBelowPeak'
    BY <1>1, <1>2 DEF IInv, TypeOK, WallBelowPeak
  <1>7. BoundedPull'
    <2> SUFFICES ASSUME NEW f \in Devices
                 PROVE  clock[f].phys <= peak'[f] + MaxClockDrift
      BY <1>3 DEF BoundedPull
    <2>1. /\ clock[f].phys \in Nat /\ peak[f] \in Nat /\ peak'[f] \in Nat
          /\ clock[f].phys <= peak[f] + MaxClockDrift
      BY <1>4 DEF IInv, TypeOK, ClockType, BoundedPull
    <2> QED BY <2>1, <1>5, DriftAssumption
  <1> QED BY <1>3, <1>4, <1>5, <1>6, <1>7, ClocksForward DEF ClockAtMost

LEMMA RestartKeepsIInv ==
    ASSUME IInv, NEW d \in Devices, Restart(d)
    PROVE  IInv'
  <1>1. /\ clock' = [clock EXCEPT ![d] = ZeroClock]
        /\ boot'  = [boot EXCEPT ![d] = @ + 1]
        /\ heard' = [heard EXCEPT ![d] = {}]
        /\ UNCHANGED <<wall, issued, peak>>
    BY DEF Restart
  <1>2. ZeroClock \in ClockType /\ ZeroClock.phys = 0
    BY DEF ZeroClock, ClockType
  <1>3. TypeOK'
    BY <1>1, <1>2 DEF IInv, TypeOK
  <1>4. WallBelowPeak' /\ SendsAscend' /\ MergedPrecedesIssued'
    BY <1>1 DEF IInv, WallBelowPeak, SendsAscend, MergedPrecedesIssued
  <1>5. BoundedPull'
    BY <1>1, <1>2, DriftAssumption DEF IInv, TypeOK, BoundedPull
  <1>6. IssuedBounded'
    <2> SUFFICES ASSUME NEW i \in 1..Len(issued)
                 PROVE  /\ issued[i].hlc.dev \in Devices
                        /\ issued[i].hlc.phys
                             <= peak[issued[i].hlc.dev] + MaxClockDrift
                        /\ issued[i].boot <= boot'[issued[i].hlc.dev]
      BY <1>1 DEF IssuedBounded
    <2>1. /\ issued[i].hlc.dev \in Devices
          /\ issued[i].hlc.phys <= peak[issued[i].hlc.dev] + MaxClockDrift
          /\ issued[i].boot <= boot[issued[i].hlc.dev]
          /\ issued[i].boot \in Nat
      BY IssuedTyped DEF IInv, IssuedBounded
    <2> QED BY <2>1, <1>1 DEF IInv, TypeOK
  <1>7. ClockCoversIssued'
    <2> SUFFICES ASSUME NEW i \in 1..Len(issued),
                        issued[i].boot = boot'[issued[i].hlc.dev]
                 PROVE  ClockAtMost(Reading(issued[i].hlc), clock'[issued[i].hlc.dev])
      BY <1>1 DEF ClockCoversIssued
    <2>1. /\ issued[i].hlc.dev \in Devices
          /\ issued[i].boot <= boot[issued[i].hlc.dev]
          /\ issued[i].boot \in Nat
      BY IssuedTyped DEF IInv, IssuedBounded
    <2>2. issued[i].hlc.dev # d
      BY <2>1, <1>1 DEF IInv, TypeOK
    <2> QED BY <2>1, <2>2, <1>1 DEF IInv, TypeOK, ClockCoversIssued
  <1>8. ClockCoversHeard'
    BY <1>1 DEF IInv, TypeOK, ClockCoversHeard
  <1> QED BY <1>3, <1>4, <1>5, <1>6, <1>7, <1>8 DEF IInv

LEMMA RestoreKeepsIInv ==
    ASSUME IInv, NEW d \in Devices, Restore(d)
    PROVE  IInv'
  <1>1. PICK k \in 1..Len(issued) :
          /\ issued[k].hlc.dev = d
          /\ clock' = [clock EXCEPT ![d] = ClockRestore(clock[d], issued[k].hlc)]
    BY DEF Restore
  <1> DEFINE h == issued[k].hlc
             c == ClockRestore(clock[d], h)
  <1>2. /\ h \in HlcType /\ h.phys <= peak[d] + MaxClockDrift
        /\ clock[d] \in ClockType /\ clock[d].phys <= peak[d] + MaxClockDrift
    BY <1>1, IssuedTyped DEF IInv, TypeOK, IssuedBounded, BoundedPull
  <1>3. /\ c \in ClockType /\ ClockAtMost(clock[d], c)
        /\ c.phys <= peak[d] + MaxClockDrift
    BY <1>2 DEF ClockRestore, ClockAtMost, ClockBefore, Reading, ClockType, HlcType
  <1>4. /\ clock' = [clock EXCEPT ![d] = c]
        /\ UNCHANGED <<wall, boot, heard, issued, peak>>
    BY <1>1 DEF Restore
  <1> HIDE DEF h, c
  <1>5. TypeOK'
    BY <1>3, <1>4 DEF IInv, TypeOK
  <1>6. WallBelowPeak' /\ BoundedPull'
    BY <1>3, <1>4 DEF IInv, TypeOK, WallBelowPeak, BoundedPull
  <1>7. \A f \in Devices : ClockAtMost(clock[f], clock'[f])
    BY <1>3, <1>4 DEF IInv, TypeOK, ClockAtMost
  <1>8. \A f \in Devices : peak[f] <= peak'[f]
    BY <1>4 DEF IInv, TypeOK
  <1> QED BY <1>4, <1>5, <1>6, <1>7, <1>8, ClocksForward

LEMMA IInvHolds == Spec => []IInv
  <1>1. Init => IInv
    BY DriftAssumption
       DEF Init, IInv, TypeOK, ZeroClock, ClockType, WallBelowPeak, BoundedPull,
           IssuedBounded, ClockCoversIssued, ClockCoversHeard, SendsAscend,
           MergedPrecedesIssued
  <1>2. IInv /\ [Next]_vars => IInv'
    <2> SUFFICES ASSUME IInv, [Next]_vars
                 PROVE  IInv'
      OBVIOUS
    <2>1. CASE Next
      BY <2>1, SendKeepsIInv, ReceiveKeepsIInv, SetWallKeepsIInv,
         RestartKeepsIInv, RestoreKeepsIInv DEF Next
    <2>2. CASE UNCHANGED vars
      BY <2>2 DEF vars, IInv, TypeOK, WallBelowPeak, BoundedPull, IssuedBounded,
                  ClockCoversIssued, ClockCoversHeard, SendsAscend,
                  MergedPrecedesIssued
    <2> QED BY <2>1, <2>2
  <1> QED BY <1>1, <1>2, PTL DEF Spec

(* The clocks keep their types.                                            *)
THEOREM ClockTypes == Spec => []TypeOK
  BY IInvHolds, PTL DEF IInv

(* The timestamps one process issues ascend, whatever its wall clock does  *)
(* and whatever it merges in between: HlcClock.send.                       *)
THEOREM SendsAscendAlways == Spec => []SendsAscend
  BY IInvHolds, PTL DEF IInv

(* Happened-before implies HLC order for every merge within the drift      *)
(* bound: HlcClock.receive.                                                *)
THEOREM MergedPrecedesIssuedAlways == Spec => []MergedPrecedesIssued
  BY IInvHolds, PTL DEF IInv

(* No chain of merges carries a clock beyond its own wall clock plus the   *)
(* drift bound: the clamp of HlcClock.receive.                             *)
THEOREM BoundedPullAlways == Spec => []BoundedPull
  BY IInvHolds, PTL DEF IInv

-----------------------------------------------------------------------------
UpTo(n) == [t : {"publish", "lease", "force", "url"}, v : 0..n]

(* A device all of whose versions were captured: none is later than n.     *)
DevUpTo(n) ==
  [st : {"offline", "connecting", "connected"}, link : {"none", "up", "cut"},
   pending : BOOLEAN, refused : BOOLEAN, asking : BOOLEAN, grant : Nat,
   queue : SUBSET (1..n), capture : 0..n, drain : [v : 0..n, at : {"open", "lease"}],
   retry : 0..n, rejects : Nat, up : Seq(UpTo(n))]

HubType == [store : StoreType, lease : [holder : Nat, until : Nat], conns : SUBSET Nat, last : Nat]
FenceType == [pc : {"idle", "draining", "flushing", "waiting", "again", "url", "failed", "done"},
              tries : 0..3, need : Nat]

LaneShape ==
  /\ now \in Nat /\ kind \in Seq(Kinds) /\ dev \in DevUpTo(Current) /\ down \in Seq(DownType)
  /\ hub \in HubType /\ fence \in FenceType /\ gaps \subseteq Nat
  /\ fence.need <= Current

(* The socket and the transport's state: a connection that is gone carries *)
(* nothing, and a device without one trusts no grant.                      *)
SocketStands ==
  /\ dev.link # "up" => dev.up = <<>> /\ down = <<>>
  /\ dev.link # "none" => Online(dev)
  /\ dev.link = "none" => ~Online(dev) /\ dev.grant = 0
  /\ dev.link = "up" => hub.last \in hub.conns

----------------------------------------------------------------------------
(* Where a version is.                                                     *)

Sends(d, v) == \E i \in DOMAIN d.up : d.up[i].t = "publish" /\ d.up[i].v = v
AckComes(v) == \E i \in DOMAIN down : down[i].t = "ack" /\ down[i].v = v

(* On its way, or lost with a socket whose close is still to be noticed.   *)
Flies(d, v) == Sends(d, v) \/ (d.link = "cut" /\ d.pending)

Holds(d, v) == \/ v \in d.queue \/ v = d.capture \/ v = d.drain.v \/ v = d.retry \/ d.rejects > 0
               \/ Flies(d, v)

(* The current login is nowhere else.                                      *)
LoginSomewhere ==
  Current # None /\ kind[Current] = "write" =>
    StoredAt(Current) \/ Current \in gaps \/ Holds(dev, Current) \/ AckComes(Current)

(* A version in flight has its id in the pending set, or another version's *)
(* answer cleared it.                                                      *)
FlightPending ==
  \A v \in Nat : Sends(dev, v) \/ AckComes(v) => dev.pending \/ v \in gaps

(* An acknowledgement is true, but for the rate limit's.                   *)
AcksTrue ==
  \A i \in DOMAIN down :
    down[i].t = "ack" /\ down[i].res # "lease_required" => StoredAt(down[i].v) \/ down[i].v \in gaps

----------------------------------------------------------------------------
(* What a grant is worth.                                                  *)

RevokedBehind(i) == \E j \in DOMAIN down : j > i /\ down[j].t = "revoked"

(* A grant under way is at most one tick old.  Behind it stands the hub's  *)
(* lease, or the revocation follows it.                                    *)
GrantsUnderWay ==
  \A i \in DOMAIN down : down[i].t = "granted" =>
    /\ down[i].at <= now /\ now <= down[i].at + 1
    /\ \/ hub.lease.holder = Me /\ down[i].at + 2 <= hub.lease.until
       \/ RevokedBehind(i)

(* A grant in the cache runs out no later than the lease.                  *)
GrantOutlived ==
  /\ dev.grant <= now + 1
  /\ dev.grant > now => \/ hub.lease.holder = Me /\ dev.grant <= hub.lease.until
                        \/ \E i \in DOMAIN down : down[i].t = "revoked"
                        \/ dev.link = "cut"

PInv == /\ LaneShape /\ SocketStands /\ LoginSomewhere /\ FlightPending /\ AcksTrue
        /\ GrantsUnderWay /\ GrantOutlived /\ WaiterHasPending

----------------------------------------------------------------------------
(* The device's own steps.                                                 *)

(* e is d after steps that send, ask or queue: the socket is the same, ids *)
(* become pending, and a cached grant is only ever given up.               *)
Steady(d, e) ==
  /\ e.st = d.st /\ e.link = d.link
  /\ d.pending => e.pending
  /\ e.grant = d.grant \/ e.grant = 0
  /\ d.link # "up" => e.up = d.up
  /\ \A v : Sends(d, v) => Sends(e, v)
  /\ \A v : Sends(e, v) => Sends(d, v) \/ e.pending

SameHands(d, e) ==
  /\ e.queue = d.queue /\ e.capture = d.capture /\ e.drain = d.drain
  /\ e.retry = d.retry /\ e.rejects = d.rejects

LEMMA SteadyItself == \A d : Steady(d, d)
  BY DEF Steady

LEMMA SteadyTransitive == \A d, e, f : Steady(d, e) /\ Steady(e, f) => Steady(d, f)
  BY DEF Steady

LEMMA SteadyFlies == \A d, e, v : Steady(d, e) /\ Flies(d, v) => Flies(e, v)
  BY DEF Steady, Flies

LEMMA TransmitFields ==
  ASSUME NEW n \in Nat, NEW d \in DevUpTo(n), NEW f \in UpTo(n), f.t = "publish" => d.pending
  PROVE  LET e == Transmit(d, f) IN
         /\ e \in DevUpTo(n) /\ Steady(d, e) /\ SameHands(d, e)
         /\ e.pending = d.pending /\ e.refused = d.refused /\ e.asking = d.asking /\ e.grant = d.grant
         /\ f.t = "publish" /\ d.link = "up" => Sends(e, f.v)
<1> DEFINE e == Transmit(d, f)
<1>1. CASE d.link = "up"
  <2> DEFINE U == Append(d.up, f)
  <2>1. d.up \in Seq(UpTo(n))
    BY DEF DevUpTo
  <2>2. /\ U \in Seq(UpTo(n)) /\ DOMAIN U = 1..(Len(d.up) + 1) /\ DOMAIN d.up = 1..Len(d.up)
        /\ Len(d.up) \in Nat /\ U[Len(d.up) + 1] = f /\ \A i \in 1..Len(d.up) : U[i] = d.up[i]
    BY <2>1
  <2>3. e = [d EXCEPT !.up = U]
    BY <1>1 DEF Transmit
  <2> HIDE DEF e, U
  <2>4. /\ e \in DevUpTo(n) /\ e.up = U /\ e.st = d.st /\ e.link = d.link /\ e.pending = d.pending
        /\ e.refused = d.refused /\ e.asking = d.asking /\ e.grant = d.grant /\ e.queue = d.queue
        /\ e.capture = d.capture /\ e.drain = d.drain /\ e.retry = d.retry /\ e.rejects = d.rejects
    BY <2>2, <2>3 DEF DevUpTo
  <2>5. \A v : Sends(d, v) => Sends(e, v)
    BY <2>2, <2>4 DEF Sends
  <2>6. ASSUME NEW v, Sends(e, v) PROVE Sends(d, v) \/ e.pending
    <3>1. PICK i \in DOMAIN U : U[i].t = "publish" /\ U[i].v = v
      BY <2>4, <2>6 DEF Sends
    <3>2. CASE i = Len(d.up) + 1
      BY <2>2, <2>4, <3>1, <3>2
    <3>3. CASE i \in 1..Len(d.up)
      BY <2>2, <3>1, <3>3 DEF Sends
    <3> QED BY <2>2, <3>2, <3>3
  <2>7. f.t = "publish" => Sends(e, f.v)
    <3>1. Len(d.up) + 1 \in DOMAIN U
      BY <2>2
    <3> QED BY <2>2, <2>4, <3>1 DEF Sends
  <2>8. Steady(d, e)
    BY <1>1, <2>4, <2>5, <2>6 DEF Steady
  <2> QED BY <2>4, <2>7, <2>8 DEF SameHands, e
<1>2. CASE d.link # "up"
  <2>1. e = d
    BY <1>2 DEF Transmit
  <2> QED BY <1>2, <2>1, SteadyItself DEF SameHands
<1> QED BY <1>1, <1>2

(* publish(): with a connection the version is sent, or lost with a socket *)
(* whose close is still to come.                                           *)
LEMMA PublishFields ==
  ASSUME NEW n \in Nat, NEW d \in DevUpTo(n), NEW v \in 0..n
  PROVE  LET e == Publish(d, v) IN
         /\ e \in DevUpTo(n) /\ Steady(d, e) /\ SameHands(d, e)
         /\ e.asking = d.asking /\ e.grant = d.grant
         /\ Online(d) /\ d.link # "none" => Flies(e, v)
<1> DEFINE p == [d EXCEPT !.pending = TRUE, !.refused = FALSE]
           f == [t |-> "publish", v |-> v]
           e == Publish(d, v)
<1>1. CASE ~Online(d)
  <2>1. e = d
    BY <1>1 DEF Publish
  <2> QED BY <1>1, <2>1, SteadyItself DEF SameHands
<1>2. CASE Online(d)
  <2>1. f \in UpTo(n) /\ f.t = "publish" /\ f.v = v
    BY DEF UpTo
  <2>2. e = Transmit(p, f)
    BY <1>2 DEF Publish
  <2>3. /\ p \in DevUpTo(n) /\ p.pending = TRUE /\ p.st = d.st /\ p.link = d.link /\ p.up = d.up
        /\ p.grant = d.grant /\ p.asking = d.asking /\ p.queue = d.queue /\ p.capture = d.capture
        /\ p.drain = d.drain /\ p.retry = d.retry /\ p.rejects = d.rejects
    BY DEF DevUpTo
  <2> HIDE DEF e, p, f
  <2>4. /\ e \in DevUpTo(n) /\ Steady(p, e) /\ SameHands(p, e)
        /\ e.pending = p.pending /\ e.asking = p.asking /\ e.grant = p.grant
        /\ p.link = "up" => Sends(e, v)
    BY <2>1, <2>2, <2>3, TransmitFields
  <2>5. \A w : Sends(d, w) <=> Sends(p, w)
    BY <2>3 DEF Sends
  <2>6. Steady(d, e)
    BY <2>3, <2>4, <2>5 DEF Steady
  <2>7. d.link # "none" => Flies(e, v)
    <3>1. d.link \in {"none", "up", "cut"} /\ e.link = d.link
      BY <2>6 DEF DevUpTo, Steady
    <3> QED BY <2>3, <2>4, <3>1 DEF Flies
  <2> QED BY <2>3, <2>4, <2>6, <2>7 DEF SameHands, e
<1> QED BY <1>1, <1>2

LEMMA AskLeaseFields ==
  ASSUME NEW n \in Nat, NEW d \in DevUpTo(n), NEW v \in 0..n, NEW how \in {"lease", "force"}
  PROVE  LET e == AskLease(d, how, v) IN
         /\ e \in DevUpTo(n) /\ Steady(d, e) /\ SameHands(d, e) /\ e.grant = d.grant
<1> DEFINE p == [d EXCEPT !.asking = TRUE]
           f == [t |-> how, v |-> v]
           e == AskLease(d, how, v)
<1>1. CASE d.asking
  BY <1>1, SteadyItself DEF AskLease, SameHands
<1>2. CASE ~d.asking
  <2>1. f \in UpTo(n) /\ f.t # "publish"
    BY DEF UpTo
  <2>2. e = Transmit(p, f)
    BY <1>2 DEF AskLease
  <2>3. /\ p \in DevUpTo(n) /\ p.pending = d.pending /\ p.st = d.st /\ p.link = d.link /\ p.up = d.up
        /\ p.grant = d.grant /\ p.queue = d.queue /\ p.capture = d.capture
        /\ p.drain = d.drain /\ p.retry = d.retry /\ p.rejects = d.rejects
    BY DEF DevUpTo
  <2> HIDE DEF e, p, f
  <2>4. e \in DevUpTo(n) /\ Steady(p, e) /\ SameHands(p, e) /\ e.pending = p.pending /\ e.grant = p.grant
    BY <2>1, <2>2, <2>3, TransmitFields
  <2>5. \A w : Sends(d, w) <=> Sends(p, w)
    BY <2>3 DEF Sends
  <2>6. Steady(d, e)
    BY <2>3, <2>4, <2>5 DEF Steady
  <2> QED BY <2>3, <2>4, <2>6 DEF SameHands, e
<1> QED BY <1>1, <1>2

LEMMA EnqueueFields ==
  ASSUME NEW n \in Nat, NEW d \in DevUpTo(n), NEW v \in 1..n
  PROVE  LET e == Enqueue(d, v) IN
         /\ e \in DevUpTo(n) /\ Steady(d, e) /\ e.queue = d.queue \union {v} /\ e.grant = d.grant
         /\ e.capture = d.capture /\ e.drain = d.drain /\ e.retry = d.retry /\ e.rejects = d.rejects
         /\ e.asking = d.asking
<1> DEFINE Q == d.queue \union {v}
           e == Enqueue(d, v)
<1>1. Q \subseteq 1..n
  BY DEF DevUpTo
<1>2. e = [d EXCEPT !.queue = Q]
  BY DEF Enqueue
<1> HIDE DEF Q, e
<1>3. /\ e \in DevUpTo(n) /\ e.queue = Q /\ e.grant = d.grant /\ e.pending = d.pending /\ e.asking = d.asking
      /\ e.capture = d.capture /\ e.drain = d.drain /\ e.retry = d.retry /\ e.rejects = d.rejects
      /\ e.st = d.st /\ e.link = d.link /\ e.up = d.up
  BY <1>1, <1>2 DEF DevUpTo
<1>4. \A w : Sends(d, w) <=> Sends(e, w)
  BY <1>3 DEF Sends
<1> QED BY <1>3, <1>4 DEF Steady, Q, e

(* The rejection queue: whatever is held stays held, and a task of it that *)
(* runs takes the current login up again.                                  *)
LEMMA RunRejectionsFields ==
  ASSUME NEW n \in Nat, NEW d \in DevUpTo(n), NEW v \in 0..n
  PROVE  LET e == RunRejections(d, v) IN
         /\ e \in DevUpTo(n) /\ Steady(d, e) /\ d.queue \subseteq e.queue
         /\ v # None /\ kind[v] = "write" /\ Holds(d, v) => Holds(e, v)
<1> DEFINE e == RunRejections(d, v)
<1>1. CASE d.rejects = 0 \/ d.retry # None
  <2>1. e = d
    BY <1>1 DEF RunRejections
  <2> QED BY <2>1, SteadyItself
<1>2. CASE ~(d.rejects = 0 \/ d.retry # None)
  <2>1. d.rejects \in Nat /\ d.rejects # 0 /\ d.retry = None
    BY <1>2 DEF DevUpTo
  <2>2. PICK m \in Nat : m = d.rejects - 1
    BY <2>1
  <2> DEFINE b == [d EXCEPT !.rejects = m]
             r == Recover(b, v)
  <2>3. e = IF r.retry = None THEN [r EXCEPT !.rejects = 0] ELSE r
    BY <1>2, <2>2 DEF RunRejections
  <2>4. /\ b \in DevUpTo(n) /\ b.queue = d.queue /\ b.capture = d.capture /\ b.drain = d.drain
        /\ b.retry = None /\ b.st = d.st /\ b.link = d.link /\ b.pending = d.pending /\ b.grant = d.grant
        /\ b.up = d.up
    BY <2>1, <2>2 DEF DevUpTo
  <2> HIDE DEF b
  <2>5. Steady(d, b)
    <3>1. \A w : Sends(d, w) <=> Sends(b, w)
      BY <2>4 DEF Sends
    <3> QED BY <2>4, <3>1 DEF Steady
  <2>6. CASE v = None \/ kind[v] # "write"
    <3>1. r = b
      BY <2>6 DEF Recover
    <3>2. e = [b EXCEPT !.rejects = 0]
      BY <2>3, <2>4, <3>1
    <3> HIDE DEF e
    <3>3. /\ e \in DevUpTo(n) /\ e.queue = b.queue /\ e.st = b.st /\ e.link = b.link
          /\ e.pending = b.pending /\ e.grant = b.grant /\ e.up = b.up
      BY <2>4, <3>2 DEF DevUpTo
    <3>4. Steady(d, e)
      <4>1. \A w : Sends(d, w) <=> Sends(e, w)
        BY <2>4, <3>3 DEF Sends
      <4> QED BY <2>4, <3>3, <4>1 DEF Steady
    <3> QED BY <2>4, <2>6, <3>3, <3>4 DEF e
  <2>7. CASE ~(v = None \/ kind[v] # "write")
    <3> DEFINE g == [b EXCEPT !.grant = 0]
    <3>1. /\ g \in DevUpTo(n) /\ g.queue = b.queue /\ g.st = b.st /\ g.link = b.link /\ g.retry = b.retry
          /\ g.pending = b.pending /\ g.grant = 0 /\ g.up = b.up
      BY <2>4 DEF DevUpTo
    <3>2. r = IF Online(b) THEN [AskLease(g, "force", v) EXCEPT !.retry = v] ELSE Enqueue(g, v)
      BY <2>7 DEF Recover
    <3> HIDE DEF g
    <3>3. Steady(b, g)
      <4>1. \A w : Sends(b, w) <=> Sends(g, w)
        BY <3>1 DEF Sends
      <4> QED BY <3>1, <4>1 DEF Steady
    <3>4. CASE Online(b)
      <4> DEFINE a == AskLease(g, "force", v)
      <4>1. a \in DevUpTo(n) /\ Steady(g, a) /\ SameHands(g, a)
        BY <3>1, AskLeaseFields
      <4>2. r = [a EXCEPT !.retry = v]
        BY <3>2, <3>4
      <4> HIDE DEF a, r
      <4>3. /\ r \in DevUpTo(n) /\ r.retry = v /\ r.queue = a.queue /\ r.st = a.st /\ r.link = a.link
            /\ r.pending = a.pending /\ r.grant = a.grant /\ r.up = a.up
        BY <4>1, <4>2 DEF DevUpTo
      <4>4. Steady(a, r)
        <5>1. \A w : Sends(a, w) <=> Sends(r, w)
          BY <4>3 DEF Sends
        <5> QED BY <4>3, <5>1 DEF Steady
      <4>5. e = r
        BY <2>3, <2>7, <4>3
      <4>6. Steady(d, r)
        BY <2>5, <3>3, <4>1, <4>4, SteadyTransitive
      <4>7. r.queue = d.queue
        BY <2>4, <3>1, <4>1, <4>3 DEF SameHands
      <4> QED BY <4>3, <4>5, <4>6, <4>7 DEF Holds
    <3>5. CASE ~Online(b)
      <4>1. v \in 1..n
        BY <2>7 DEF None
      <4> DEFINE a == Enqueue(g, v)
      <4>2. a \in DevUpTo(n) /\ Steady(g, a) /\ a.queue = g.queue \union {v} /\ a.retry = g.retry
        BY <3>1, <4>1, EnqueueFields
      <4>3. r = a
        BY <3>2, <3>5
      <4> HIDE DEF a, r
      <4>4. e = [a EXCEPT !.rejects = 0]
        BY <2>3, <2>4, <3>1, <4>2, <4>3
      <4> HIDE DEF e
      <4>5. /\ e \in DevUpTo(n) /\ e.queue = a.queue /\ e.st = a.st /\ e.link = a.link
            /\ e.pending = a.pending /\ e.grant = a.grant /\ e.up = a.up
        BY <4>2, <4>4 DEF DevUpTo
      <4>6. Steady(a, e)
        <5>1. \A w : Sends(a, w) <=> Sends(e, w)
          BY <4>5 DEF Sends
        <5> QED BY <4>5, <5>1 DEF Steady
      <4>7. Steady(d, e)
        BY <2>5, <3>3, <4>2, <4>6, SteadyTransitive
      <4>8. e.queue = d.queue \union {v}
        BY <2>4, <3>1, <4>2, <4>5
      <4> QED BY <4>5, <4>7, <4>8 DEF Holds, e
    <3> QED BY <3>4, <3>5
  <2> QED BY <2>6, <2>7
<1> QED BY <1>1, <1>2

(* A settled lease: what waited for it is published, or queued again.      *)
LEMMA LeaseSettledFields ==
  ASSUME NEW n \in Nat, NEW d \in DevUpTo(n), NEW v \in 0..n, NEW granted \in BOOLEAN, now \in Nat
  PROVE  LET e == LeaseSettled(d, granted, v) IN
         /\ e \in DevUpTo(n) /\ Steady([d EXCEPT !.grant = TrustedUntil(granted)], e)
         /\ v # None /\ kind[v] = "write" /\ Holds(d, v)
              => Holds(e, v) \/ (v \in Waiting(d, granted) /\ ~(Online(d) /\ d.link # "none"))
<1> DEFINE g  == [d EXCEPT !.grant = TrustedUntil(granted)]
           d1 == [d EXCEPT !.asking = FALSE, !.grant = TrustedUntil(granted)]
           c2 == [d1 EXCEPT !.capture = None]
           d2 == IF d.capture = None THEN d1 ELSE Publish(c2, d.capture)
           c3 == [d2 EXCEPT !.drain = NoDrain]
           d3 == IF d.drain.v = None \/ d.drain.at = "open" THEN d2 ELSE Publish(c3, d.drain.v)
           c4 == [d3 EXCEPT !.retry = None]
           d4 == IF d.retry = None THEN d3
                 ELSE IF granted THEN Publish(c4, d.retry) ELSE Enqueue(c4, d.retry)
           e  == LeaseSettled(d, granted, v)
<1>1. e = RunRejections(d4, v)
  BY DEF LeaseSettled
<1>2. /\ d.capture \in 0..n /\ d.retry \in 0..n /\ d.drain \in [v : 0..n, at : {"open", "lease"}]
      /\ d.drain.v \in 0..n /\ d.drain.at \in {"open", "lease"} /\ d.link \in {"none", "up", "cut"}
  BY DEF DevUpTo
<1>3. TrustedUntil(granted) \in Nat /\ None \in 0..n /\ NoDrain \in [v : 0..n, at : {"open", "lease"}]
  BY DEF TrustedUntil, NoDrain, None
<1>4. /\ d1 \in DevUpTo(n) /\ SameHands(d, d1) /\ Steady(g, d1)
      /\ (Online(d1) <=> Online(d)) /\ d1.link = d.link
  <2>1. /\ d1 \in DevUpTo(n) /\ d1.up = g.up /\ d1.st = g.st /\ d1.link = g.link /\ d1.st = d.st
        /\ d1.pending = g.pending /\ d1.grant = g.grant /\ d1.link = d.link
        /\ SameHands(d, d1)
    BY <1>3 DEF DevUpTo, SameHands
  <2> HIDE DEF d1, g
  <2>2. \A w : Sends(g, w) <=> Sends(d1, w)
    BY <2>1 DEF Sends
  <2> QED BY <2>1, <2>2 DEF Steady, Online
<1>g. \A w : Flies(d, w) => Flies(g, w)
  <2>1. g.up = d.up /\ g.link = d.link /\ g.pending = d.pending
    BY DEF DevUpTo
  <2> HIDE DEF g
  <2> QED BY <2>1 DEF Flies, Sends
<1> HIDE DEF d1, g
<1>5. /\ d2 \in DevUpTo(n) /\ Steady(d1, d2) /\ d2.queue = d.queue /\ d2.drain = d.drain
      /\ d2.retry = d.retry /\ d2.rejects = d.rejects
      /\ d.capture # None /\ Online(d) /\ d.link # "none" => Flies(d2, d.capture)
  <2>1. CASE d.capture = None
    BY <1>4, <2>1, SteadyItself DEF SameHands
  <2>2. CASE d.capture # None
    <3>1. /\ c2 \in DevUpTo(n) /\ c2.up = d1.up /\ c2.st = d1.st /\ c2.link = d1.link
          /\ c2.pending = d1.pending /\ c2.grant = d1.grant /\ c2.queue = d1.queue
          /\ c2.drain = d1.drain /\ c2.retry = d1.retry /\ c2.rejects = d1.rejects
      BY <1>3, <1>4 DEF DevUpTo
    <3>2. d2 = Publish(c2, d.capture)
      BY <2>2
    <3> HIDE DEF c2, d2
    <3>3. \A w : Sends(d1, w) <=> Sends(c2, w)
      BY <3>1 DEF Sends
    <3>4. Steady(d1, c2) /\ (Online(c2) <=> Online(d))
      BY <1>4, <3>1, <3>3 DEF Steady, Online
    <3>5. /\ d2 \in DevUpTo(n) /\ Steady(c2, d2) /\ SameHands(c2, d2)
          /\ Online(c2) /\ c2.link # "none" => Flies(d2, d.capture)
      BY <1>2, <3>1, <3>2, PublishFields
    <3>6. Steady(d1, d2)
      BY <3>4, <3>5, SteadyTransitive
    <3> QED BY <1>4, <3>1, <3>4, <3>5, <3>6 DEF SameHands
  <2> QED BY <2>1, <2>2
<1> HIDE DEF d2
<1>6. /\ d3 \in DevUpTo(n) /\ Steady(d2, d3) /\ d3.queue = d.queue
      /\ d3.retry = d.retry /\ d3.rejects = d.rejects
      /\ d.drain.v # None /\ d.drain.at = "lease" /\ Online(d) /\ d.link # "none" => Flies(d3, d.drain.v)
      /\ d.drain.at = "open" => d3.drain = d.drain
  <2>1. CASE d.drain.v = None \/ d.drain.at = "open"
    BY <1>5, <2>1, SteadyItself
  <2>2. CASE ~(d.drain.v = None \/ d.drain.at = "open")
    <3>1. /\ c3 \in DevUpTo(n) /\ c3.up = d2.up /\ c3.st = d2.st /\ c3.link = d2.link
          /\ c3.pending = d2.pending /\ c3.grant = d2.grant /\ c3.queue = d2.queue
          /\ c3.retry = d2.retry /\ c3.rejects = d2.rejects
      BY <1>3, <1>5 DEF DevUpTo
    <3>2. d3 = Publish(c3, d.drain.v)
      BY <2>2
    <3> HIDE DEF c3, d3
    <3>3. \A w : Sends(d2, w) <=> Sends(c3, w)
      BY <3>1 DEF Sends
    <3>4. Steady(d2, c3) /\ (Online(c3) <=> Online(d)) /\ c3.link = d.link
      BY <1>4, <1>5, <3>1, <3>3 DEF Steady, Online
    <3>5. /\ d3 \in DevUpTo(n) /\ Steady(c3, d3) /\ SameHands(c3, d3)
          /\ Online(c3) /\ c3.link # "none" => Flies(d3, d.drain.v)
      BY <1>2, <3>1, <3>2, PublishFields
    <3>6. Steady(d2, d3)
      BY <3>4, <3>5, SteadyTransitive
    <3> QED BY <1>5, <2>2, <3>1, <3>4, <3>5, <3>6 DEF SameHands
  <2> QED BY <2>1, <2>2
<1> HIDE DEF d3
<1>7. /\ d4 \in DevUpTo(n) /\ Steady(d3, d4) /\ d.queue \subseteq d4.queue
      /\ d4.rejects = d.rejects /\ d4.drain = d3.drain
      /\ d.retry # None /\ granted /\ Online(d) /\ d.link # "none" => Flies(d4, d.retry)
      /\ d.retry # None /\ ~granted => d.retry \in d4.queue
  <2>1. CASE d.retry = None
    BY <1>6, <2>1, SteadyItself
  <2>2. CASE d.retry # None
    <3>1. /\ c4 \in DevUpTo(n) /\ c4.up = d3.up /\ c4.st = d3.st /\ c4.link = d3.link
          /\ c4.pending = d3.pending /\ c4.grant = d3.grant /\ c4.queue = d3.queue
          /\ c4.drain = d3.drain /\ c4.rejects = d3.rejects
      BY <1>3, <1>6 DEF DevUpTo
    <3>2. d4 = IF granted THEN Publish(c4, d.retry) ELSE Enqueue(c4, d.retry)
      BY <2>2
    <3> HIDE DEF c4, d4
    <3>3. \A w : Sends(d3, w) <=> Sends(c4, w)
      BY <3>1 DEF Sends
    <3>4. Steady(d3, c4) /\ (Online(c4) <=> Online(d)) /\ c4.link = d.link
      BY <1>4, <1>5, <1>6, <3>1, <3>3 DEF Steady, Online
    <3>5. CASE granted
      <4>1. /\ d4 \in DevUpTo(n) /\ Steady(c4, d4) /\ SameHands(c4, d4)
            /\ Online(c4) /\ c4.link # "none" => Flies(d4, d.retry)
        BY <1>2, <3>1, <3>2, <3>5, PublishFields
      <4>2. Steady(d3, d4)
        BY <3>4, <4>1, SteadyTransitive
      <4> QED BY <1>6, <3>1, <3>4, <3>5, <4>1, <4>2 DEF SameHands
    <3>6. CASE ~granted
      <4> HIDE DEF c2, c3, e
      <4>1. d.retry \in 1..n /\ d4 = Enqueue(c4, d.retry)
        BY <1>2, <2>2, <3>2, <3>6 DEF None
      <4>2. /\ d4 \in DevUpTo(n) /\ Steady(c4, d4) /\ d4.queue = c4.queue \union {d.retry}
            /\ d4.drain = c4.drain /\ d4.rejects = c4.rejects
        BY <3>1, <4>1, EnqueueFields, SMTT(30)
      <4>3. Steady(d3, d4)
        BY <3>4, <4>2, SteadyTransitive
      <4> QED BY <1>6, <3>1, <3>6, <4>2, <4>3
    <3> QED BY <3>5, <3>6
  <2> QED BY <2>1, <2>2
<1> HIDE DEF d4
<1>8. /\ e \in DevUpTo(n) /\ Steady(d4, e) /\ d4.queue \subseteq e.queue
      /\ v # None /\ kind[v] = "write" /\ Holds(d4, v) => Holds(e, v)
  BY <1>1, <1>7, RunRejectionsFields
<1> HIDE DEF e
<1>9. Steady(d2, d4) /\ Steady(d1, d4) /\ Steady(g, d4) /\ Steady(g, e)
  BY <1>4, <1>5, <1>6, <1>7, <1>8, SteadyTransitive
<1>10. ASSUME v # None, kind[v] = "write", Holds(d, v)
       PROVE  Holds(e, v) \/ (v \in Waiting(d, granted) /\ ~(Online(d) /\ d.link # "none"))
  <2>1. Holds(d4, v) => Holds(e, v)
    BY <1>8, <1>10
  <2>2. CASE v \in d.queue \/ d.rejects > 0
    BY <1>7, <2>1, <2>2 DEF Holds
  <2>3. CASE Flies(d, v)
    <3>1. Flies(d4, v)
      BY <1>9, <1>g, <2>3, SteadyFlies
    <3> QED BY <2>1, <3>1 DEF Holds
  <2>4. CASE v = d.capture
    <3>1. v \in Waiting(d, granted)
      BY <1>10, <2>4 DEF Waiting
    <3>2. Online(d) /\ d.link # "none" => Flies(d4, v)
      BY <1>5, <1>9, <1>10, <2>4, SteadyFlies
    <3> QED BY <2>1, <3>1, <3>2 DEF Holds
  <2>5. CASE v = d.drain.v /\ d.drain.at = "open"
    <3>1. d4.drain = d.drain
      BY <1>6, <1>7, <2>5
    <3> QED BY <2>1, <2>5, <3>1 DEF Holds
  <2>6. CASE v = d.drain.v /\ d.drain.at = "lease"
    <3>1. v \in Waiting(d, granted)
      BY <1>10, <2>6 DEF Waiting
    <3>2. Online(d) /\ d.link # "none" => Flies(d4, v)
      BY <1>6, <1>7, <1>10, <2>6, SteadyFlies
    <3> QED BY <2>1, <3>1, <3>2 DEF Holds
  <2>7. CASE v = d.retry
    <3>1. CASE granted
      <4>1. v \in Waiting(d, granted)
        BY <1>10, <2>7, <3>1 DEF Waiting
      <4> QED BY <1>7, <1>10, <2>1, <2>7, <3>1, <4>1 DEF Holds
    <3>2. CASE ~granted
      BY <1>7, <1>10, <2>1, <2>7, <3>2 DEF Holds
    <3> QED BY <3>1, <3>2
  <2> QED BY <1>2, <1>10, <2>2, <2>3, <2>4, <2>5, <2>6, <2>7 DEF Holds
<1> QED BY <1>8, <1>9, <1>10 DEF e, g

(* The newest of a set of versions.                                        *)
LEMMA MaxOfVersions ==
  ASSUME NEW n \in Nat, NEW S \in SUBSET (1..n), S # {}
  PROVE  Max(S) \in S /\ \A g \in S : g <= Max(S)
<1> DEFINE Later(g) == {f \in S : f > g}
           T == {Later(g) : g \in S}
<1>1. T \subseteq FiniteSubsetsOf(S) /\ T # {}
  <2>1. IsFiniteSet(S)
    <3>1. IsFiniteSet(1..n)
      BY FS_Interval
    <3> QED BY <3>1, FS_Subset
  <2>2. \A g \in S : Later(g) \in SUBSET S
    OBVIOUS
  <2>3. \A U \in SUBSET S : IsFiniteSet(U)
    BY <2>1, FS_Subset
  <2> QED BY <2>2, <2>3 DEF FiniteSubsetsOf
<1>2. IsWellFoundedOn(StrictSubsetOrdering(S), FiniteSubsetsOf(S))
  BY FS_StrictSubsetOrderingWellFounded
<1>3. PICK x \in T : \A y \in T : <<y, x>> \notin StrictSubsetOrdering(S)
  <2> HIDE DEF T
  <2> QED BY <1>1, <1>2, WFMin
<1>4. PICK h \in S : x = Later(h)
  OBVIOUS
<1>5. ASSUME NEW g \in S, ~(g <= h) PROVE FALSE
  <2>1. g > h /\ g \in Nat /\ h \in Nat /\ ~(g > g) /\ \A f \in S : f > g => f > h
    BY <1>5
  <2>2. Later(g) \subseteq Later(h) /\ g \in Later(h) /\ g \notin Later(g)
    <3>1. \A a, b : a \in Later(b) <=> a \in S /\ a > b
      OBVIOUS
    <3> HIDE DEF T, Later
    <3> QED BY <2>1, <3>1
  <2>3. <<Later(g), Later(h)>> \in StrictSubsetOrdering(S)
    BY <2>2 DEF StrictSubsetOrdering
  <2> QED BY <1>3, <1>4, <2>3
<1>6. \A y \in S : (\A g \in S : y >= g) <=> y = h
  BY <1>5
<1>7. Max(S) = h
  BY <1>6 DEF Max
<1> QED BY <1>5, <1>7

(* Flushing the offline queue keeps the current login in hand.             *)
LEMMA FlushPendingFields ==
  ASSUME NEW n \in Nat, NEW d \in DevUpTo(n), Online(d) => d.link # "none"
  PROVE  LET e == FlushPending(d) IN
         /\ e \in DevUpTo(n) /\ Steady(d, e) /\ e.grant = d.grant
         /\ n # None /\ kind[n] = "write" /\ Holds(d, n) => Holds(e, n)
<1> DEFINE e == FlushPending(d)
<1>1. CASE ~Online(d) \/ d.drain.v # None \/ d.queue = {}
  <2>1. e = d
    BY <1>1 DEF FlushPending
  <2> QED BY <2>1, SteadyItself
<1>2. CASE ~(~Online(d) \/ d.drain.v # None \/ d.queue = {})
  <2> DEFINE v == Max(d.queue)
             c == [d EXCEPT !.queue = {}]
             w == [c EXCEPT !.drain = [v |-> v, at |-> "open"]]
  <2>1. d.queue \in SUBSET (1..n) /\ d.queue # {}
    BY <1>2 DEF DevUpTo
  <2>2. v \in d.queue /\ \A g \in d.queue : g <= v
    BY <2>1, MaxOfVersions
  <2>3. v \in 1..n /\ (n \in d.queue => v = n)
    BY <2>1, <2>2
  <2>4. e = IF kind[v] = "write" THEN w ELSE Publish(c, v)
    BY <1>2 DEF FlushPending
  <2> HIDE DEF e, v
  <2>5. /\ c \in DevUpTo(n) /\ c.queue = {} /\ c.st = d.st /\ c.link = d.link /\ c.pending = d.pending
        /\ c.grant = d.grant /\ c.up = d.up /\ c.capture = d.capture /\ c.retry = d.retry
        /\ c.rejects = d.rejects /\ c.drain = d.drain
    BY DEF DevUpTo
  <2>6. CASE kind[v] = "write"
    <3>1. e = [c EXCEPT !.drain = [v |-> v, at |-> "open"]]
      BY <2>4, <2>6
    <3> HIDE DEF c
    <3>2. [v |-> v, at |-> "open"] \in [v : 0..n, at : {"open", "lease"}]
      BY <2>3
    <3>3. /\ e \in DevUpTo(n) /\ e.drain.v = v /\ e.st = c.st /\ e.link = c.link /\ e.pending = c.pending
          /\ e.grant = c.grant /\ e.up = c.up /\ e.capture = c.capture /\ e.retry = c.retry
          /\ e.rejects = c.rejects
      BY <2>5, <3>1, <3>2 DEF DevUpTo
    <3>4. \A u : Sends(d, u) <=> Sends(e, u)
      BY <2>5, <3>3 DEF Sends
    <3>5. Steady(d, e)
      BY <2>5, <3>3, <3>4 DEF Steady
    <3> QED BY <1>2, <2>3, <2>5, <3>3, <3>5, SteadyFlies DEF Holds, e
  <2>7. CASE kind[v] # "write"
    <3>1. e = Publish(c, v)
      BY <2>4, <2>7
    <3> HIDE DEF c
    <3>2. e \in DevUpTo(n) /\ Steady(c, e) /\ SameHands(c, e) /\ e.grant = c.grant
      BY <2>3, <2>5, <3>1, PublishFields
    <3>3. \A u : Sends(d, u) <=> Sends(c, u)
      BY <2>5 DEF Sends
    <3>4. Steady(d, c)
      BY <2>5, <3>3 DEF Steady
    <3>5. Steady(d, e)
      BY <3>2, <3>4, SteadyTransitive
    <3> QED BY <2>3, <2>5, <2>7, <3>2, <3>5, SteadyFlies DEF Holds, SameHands, e
  <2> QED BY <2>6, <2>7
<1> QED BY <1>1, <1>2

(* The socket is gone: every id that was pending is taken up again.        *)
LEMMA LostSocketFields ==
  ASSUME NEW n \in Nat, NEW d \in DevUpTo(n), NEW v \in 0..n, now \in Nat, d.up = <<>>
  PROVE  LET e == LostSocket(d, v) IN
         /\ e \in DevUpTo(n) /\ ~Online(e) /\ e.link = "none" /\ e.grant = 0 /\ e.up = <<>>
         /\ v # None /\ kind[v] = "write" /\ (Holds(d, v) \/ d.pending)
              => Holds(e, v) \/ v \in Waiting(d, FALSE)
<1>1. PICK m \in Nat : m = d.rejects + (IF d.pending THEN 1 ELSE 0)
  BY DEF DevUpTo
<1> DEFINE c == [d EXCEPT !.st = "offline", !.link = "none", !.pending = FALSE, !.refused = FALSE,
                          !.grant = 0, !.up = <<>>, !.rejects = m]
           g == [c EXCEPT !.grant = TrustedUntil(FALSE)]
           e == LostSocket(d, v)
<1>2. e = IF d.asking THEN LeaseSettled(c, FALSE, v) ELSE RunRejections(c, v)
  BY <1>1 DEF LostSocket
<1>3. <<>> \in Seq(UpTo(n))
  OBVIOUS
<1>4. /\ c \in DevUpTo(n) /\ c.st = "offline" /\ c.link = "none" /\ c.grant = 0 /\ c.up = <<>>
      /\ c.queue = d.queue /\ c.capture = d.capture /\ c.drain = d.drain /\ c.retry = d.retry
      /\ c.rejects = m
  BY <1>1, <1>3 DEF DevUpTo
<1>5. ~Online(c)
  BY <1>4 DEF Online
<1>6. g.st = "offline" /\ g.link = "none" /\ g.grant = 0 /\ g.up = <<>>
  BY <1>4 DEF DevUpTo, TrustedUntil
<1>7. Waiting(c, FALSE) = Waiting(d, FALSE)
  BY <1>4 DEF Waiting
<1>8. d.pending => m > 0
  BY <1>1 DEF DevUpTo
<1>9. d.rejects > 0 => m > 0
  BY <1>1 DEF DevUpTo
<1>10. Holds(d, v) \/ d.pending => Holds(c, v)
  <2>1. ~Sends(d, v)
    BY DEF Sends
  <2> HIDE DEF c
  <2> QED BY <1>4, <1>8, <1>9, <2>1 DEF Holds, Flies
<1> HIDE DEF c, g, e
<1>11. CASE d.asking
  <2>1. e = LeaseSettled(c, FALSE, v)
    BY <1>2, <1>11
  <2>2. /\ e \in DevUpTo(n) /\ Steady(g, e)
        /\ v # None /\ kind[v] = "write" /\ Holds(c, v) => Holds(e, v) \/ v \in Waiting(c, FALSE)
    BY <1>4, <2>1, LeaseSettledFields DEF g
  <2> QED BY <1>6, <1>7, <1>10, <2>2 DEF Steady, Online, e
<1>12. CASE ~d.asking
  <2>1. e = RunRejections(c, v)
    BY <1>2, <1>12
  <2>2. /\ e \in DevUpTo(n) /\ Steady(c, e)
        /\ v # None /\ kind[v] = "write" /\ Holds(c, v) => Holds(e, v)
    BY <1>4, <2>1, RunRejectionsFields
  <2> QED BY <1>4, <1>10, <2>2 DEF Steady, Online, e
<1> QED BY <1>11, <1>12

----------------------------------------------------------------------------
(* Steps of the device that leave the hub and its frames alone.            *)

LEMMA DeviceRest ==
  ASSUME PInv, now' = now, down' = down, hub' = hub, Steady(dev, dev'),
         fence'.pc = "waiting" => fence.pc = "waiting" \/ (dev.pending /\ Online(dev)),
         gaps \subseteq gaps', LaneShape', LoginSomewhere'
  PROVE  PInv'
<1>1. SocketStands'
  BY DEF PInv, SocketStands, Steady, Online
<1>2. \A v : (AckComes(v)' <=> AckComes(v)) /\ (StoredAt(v)' <=> StoredAt(v))
  BY DEF AckComes, StoredAt, VersionAt
<1>3. FlightPending'
  <2> SUFFICES ASSUME NEW v \in Nat, Sends(dev', v) \/ AckComes(v)' PROVE dev'.pending \/ v \in gaps'
    BY DEF FlightPending
  <2> QED BY <1>2 DEF PInv, FlightPending, Steady
<1>4. AcksTrue'
  BY <1>2 DEF PInv, AcksTrue
<1>5. GrantsUnderWay'
  BY DEF PInv, GrantsUnderWay, RevokedBehind
<1>6. GrantOutlived'
  <2>1. now \in Nat /\ dev'.link = dev.link /\ (dev'.grant = dev.grant \/ dev'.grant = 0)
    BY DEF PInv, LaneShape, Steady
  <2> QED BY <2>1 DEF PInv, GrantOutlived
<1>7. WaiterHasPending'
  BY DEF PInv, WaiterHasPending, Steady, Online
<1> QED BY <1>1, <1>3, <1>4, <1>5, <1>6, <1>7 DEF PInv

LEMMA DeviceKeeps ==
  ASSUME PInv, now' = now, kind' = kind, down' = down, hub' = hub,
         dev' \in DevUpTo(Current), Steady(dev, dev'), fence' \in FenceType, fence'.need <= Current,
         fence'.pc = "waiting" => fence.pc = "waiting" \/ (dev.pending /\ Online(dev)),
         gaps \subseteq gaps', gaps' \subseteq Nat,
         Current # None /\ kind[Current] = "write" /\ Holds(dev, Current)
           => Holds(dev', Current) \/ Current \in gaps'
  PROVE  PInv'
<1>1. Current' = Current
  BY DEF Current
<1>2. LaneShape'
  BY <1>1 DEF PInv, LaneShape
<1>3. \A v : (AckComes(v)' <=> AckComes(v)) /\ (StoredAt(v)' <=> StoredAt(v))
  BY DEF AckComes, StoredAt, VersionAt
<1>4. LoginSomewhere'
  BY <1>1, <1>3 DEF PInv, LoginSomewhere
<1> QED BY <1>2, <1>4, DeviceRest

LEMMA Shape ==
  ASSUME PInv
  PROVE  /\ Current \in Nat /\ dev \in DevUpTo(Current) /\ now \in Nat /\ gaps \subseteq Nat
         /\ fence \in FenceType /\ hub \in HubType /\ kind \in Seq(Kinds) /\ down \in Seq(DownType)
         /\ dev.link # "none" <=> Online(dev)
         /\ fence.need \in Nat /\ fence.need <= Current
  BY DEF FenceType, PInv, LaneShape, SocketStands, Current

(* The fence's own steps: it moves on, the device at most flushes or sends. *)
LEMMA FenceKeeps ==
  ASSUME PInv, FenceStart \/ FenceGivesUp \/ FenceFlush \/ FlushTimeout
  PROVE  PInv'
<1>1. /\ now' = now /\ kind' = kind /\ down' = down /\ hub' = hub /\ dev' = dev /\ gaps' = gaps
  BY DEF FenceStart, FenceGivesUp, FenceFlush, FlushTimeout
<1>2. /\ dev \in DevUpTo(Current) /\ gaps \subseteq Nat /\ fence \in FenceType /\ Current \in Nat
      /\ fence.need \in Nat /\ fence.need <= Current
  BY Shape
<1>3. /\ fence' \in FenceType /\ fence'.need <= Current
      /\ fence'.pc = "waiting" => fence.pc = "waiting" \/ (dev.pending /\ Online(dev))
  <2>1. CASE FenceStart
    <3>1. Current <= Current
      BY <1>2
    <3>2. fence' \in FenceType /\ fence'.need = Current /\ fence'.pc = "draining"
      BY <1>2, <2>1 DEF FenceStart, FenceType
    <3> QED BY <3>1, <3>2
  <2>2. CASE FenceGivesUp \/ FlushTimeout
    BY <1>2, <2>2 DEF FenceGivesUp, FlushTimeout, FenceType
  <2>3. CASE FenceFlush
    <3>1. PICK a \in {"again", "waiting", "url"} : a = FlushAnswer(dev)
      BY DEF FlushAnswer
    <3>2. a = "waiting" => dev.pending /\ Online(dev)
      BY <3>1 DEF FlushAnswer
    <3>3. fence' = [fence EXCEPT !.pc = a]
      BY <2>3, <3>1 DEF FenceFlush
    <3> QED BY <1>2, <3>2, <3>3 DEF FenceType
  <2> QED BY <2>1, <2>2, <2>3
<1> QED BY <1>1, <1>2, <1>3, SteadyItself, DeviceKeeps

LEMMA FenceDrainKeeps == ASSUME PInv, FenceDrain PROVE PInv'
<1>1. /\ now' = now /\ kind' = kind /\ down' = down /\ hub' = hub /\ gaps' = gaps
      /\ dev' = FlushPending(dev)
  BY DEF FenceDrain
<1>2. /\ dev \in DevUpTo(Current) /\ gaps \subseteq Nat /\ fence \in FenceType /\ Current \in Nat
      /\ fence.need \in Nat /\ fence.need <= Current
      /\ Online(dev) => dev.link # "none"
  BY Shape
<1>3. fence' \in FenceType /\ fence'.pc # "waiting" /\ fence'.need <= Current
  <2>1. PICK k \in 0..3 : fence' = [fence EXCEPT !.pc = "flushing", !.tries = k]
    <3>1. fence.tries \in 0..3
      BY <1>2 DEF FenceType
    <3>2. (IF fence.pc = "again" THEN fence.tries + 1 ELSE fence.tries) \in 0..3
      BY <3>1 DEF FenceDrain
    <3> QED BY <3>2 DEF FenceDrain
  <2> QED BY <1>2, <2>1 DEF FenceType
<1>4. /\ dev' \in DevUpTo(Current) /\ Steady(dev, dev')
      /\ Current # None /\ kind[Current] = "write" /\ Holds(dev, Current) => Holds(dev', Current)
  BY <1>1, <1>2, FlushPendingFields
<1> QED BY <1>1, <1>2, <1>3, <1>4, DeviceKeeps

LEMMA SendUrlKeeps == ASSUME PInv, SendUrl PROVE PInv'
<1>1. /\ now' = now /\ kind' = kind /\ down' = down /\ hub' = hub /\ gaps' = gaps
      /\ fence' = [fence EXCEPT !.pc = "done"]
  BY DEF SendUrl
<1>2. /\ dev \in DevUpTo(Current) /\ gaps \subseteq Nat /\ fence \in FenceType /\ Current \in Nat
      /\ fence.need \in Nat /\ fence.need <= Current
  BY Shape
<1>3. fence' \in FenceType /\ fence'.pc # "waiting" /\ fence'.need <= Current
  BY <1>1, <1>2 DEF FenceType
<1>4. CASE Online(dev)
  <2> DEFINE f == [t |-> "url", v |-> fence.need]
  <2>1. f \in UpTo(Current) /\ f.t # "publish"
    BY <1>2 DEF UpTo
  <2>2. dev' = Transmit(dev, f)
    BY <1>4 DEF SendUrl
  <2> HIDE DEF f
  <2>3. dev' \in DevUpTo(Current) /\ Steady(dev, dev') /\ SameHands(dev, dev')
    BY <1>2, <2>1, <2>2, TransmitFields
  <2>4. Holds(dev, Current) => Holds(dev', Current)
    BY <2>3, SteadyFlies DEF Holds, SameHands
  <2> QED BY <1>1, <1>2, <1>3, <2>3, <2>4, DeviceKeeps
<1>5. CASE ~Online(dev)
  <2>1. dev' = dev
    BY <1>5 DEF SendUrl
  <2> QED BY <1>1, <1>2, <1>3, <2>1, SteadyItself, DeviceKeeps
<1> QED BY <1>4, <1>5

LEMMA DrainOpenedKeeps == ASSUME PInv, DrainOpened PROVE PInv'
<1> DEFINE v == dev.drain.v
<1>1. /\ now' = now /\ kind' = kind /\ down' = down /\ hub' = hub /\ fence' = fence
  BY DEF DrainOpened
<1>2. /\ dev \in DevUpTo(Current) /\ gaps \subseteq Nat /\ fence \in FenceType /\ Current \in Nat
      /\ fence.need \in Nat /\ fence.need <= Current
      /\ Online(dev) => dev.link # "none"
  BY Shape
<1>3. v \in 0..Current
  BY <1>2 DEF DevUpTo
<1>4. CASE Rotating /\ dev.grant <= now /\ Online(dev)
  <2> DEFINE a == AskLease(dev, "lease", v)
  <2>1. a \in DevUpTo(Current) /\ Steady(dev, a) /\ SameHands(dev, a)
    BY <1>2, <1>3, AskLeaseFields
  <2>2. dev' = [a EXCEPT !.drain.at = "lease"] /\ gaps' = gaps
    BY <1>4 DEF DrainOpened
  <2>3. a.drain = dev.drain /\ dev.drain \in [v : 0..Current, at : {"open", "lease"}]
    BY <1>2, <2>1 DEF SameHands, DevUpTo
  <2>4. PICK w \in [v : 0..Current, at : {"open", "lease"}] : w.v = v /\ w = [a.drain EXCEPT !.at = "lease"]
    BY <2>3
  <2> HIDE DEF a
  <2>5. dev' = [a EXCEPT !.drain = w]
    BY <2>1, <2>2, <2>4 DEF DevUpTo
  <2>6. /\ dev' \in DevUpTo(Current) /\ dev'.drain.v = v /\ dev'.queue = a.queue
        /\ dev'.capture = a.capture /\ dev'.retry = a.retry /\ dev'.rejects = a.rejects
        /\ dev'.st = a.st /\ dev'.link = a.link /\ dev'.pending = a.pending /\ dev'.grant = a.grant
        /\ dev'.up = a.up
    BY <2>1, <2>4, <2>5 DEF DevUpTo
  <2>7. Steady(a, dev')
    <3>1. \A u : Sends(a, u) <=> Sends(dev', u)
      BY <2>6 DEF Sends
    <3> QED BY <2>6, <3>1 DEF Steady
  <2>8. Steady(dev, dev')
    BY <2>1, <2>7, SteadyTransitive
  <2>9. Holds(dev, Current) => Holds(dev', Current)
    BY <2>1, <2>6, <2>8, SteadyFlies DEF Holds, SameHands
  <2> QED BY <1>1, <1>2, <2>2, <2>6, <2>8, <2>9, DeviceKeeps
<1>5. CASE ~(Rotating /\ dev.grant <= now /\ Online(dev))
  <2> DEFINE c == [dev EXCEPT !.drain = NoDrain]
  <2>1. dev' = Publish(c, v) /\ gaps' = Drops({v})
    BY <1>5 DEF DrainOpened
  <2>2. NoDrain \in [v : 0..Current, at : {"open", "lease"}]
    BY <1>2 DEF NoDrain, None
  <2>3. /\ c \in DevUpTo(Current) /\ c.queue = dev.queue
        /\ c.capture = dev.capture /\ c.retry = dev.retry /\ c.rejects = dev.rejects
        /\ c.st = dev.st /\ c.link = dev.link /\ c.pending = dev.pending /\ c.grant = dev.grant
        /\ c.up = dev.up
    BY <1>2, <2>2 DEF DevUpTo
  <2> HIDE DEF c
  <2>4. Steady(dev, c) /\ (Online(c) <=> Online(dev))
    <3>1. \A u : Sends(dev, u) <=> Sends(c, u)
      BY <2>3 DEF Sends
    <3> QED BY <2>3, <3>1 DEF Steady, Online
  <2>5. /\ dev' \in DevUpTo(Current) /\ Steady(c, dev') /\ SameHands(c, dev')
        /\ Online(c) /\ c.link # "none" => Flies(dev', v)
    BY <1>2, <1>3, <2>1, <2>3, PublishFields
  <2>6. Steady(dev, dev')
    BY <2>4, <2>5, SteadyTransitive
  <2>7. gaps \subseteq gaps' /\ gaps' \subseteq Nat /\ (~Online(dev) => v \in gaps')
    <3>1. gaps \subseteq Nat /\ v \in Nat
      BY <1>2, <1>3
    <3> QED BY <2>1, <3>1 DEF Drops
  <2>8. ASSUME Holds(dev, Current) PROVE Holds(dev', Current) \/ Current \in gaps'
    <3>1. CASE Current = v
      <4>1. Flies(dev', v) \/ v \in gaps'
        BY <1>2, <2>3, <2>4, <2>5, <2>7
      <4> QED BY <3>1, <4>1 DEF Holds
    <3>2. CASE Current # v
      <4>1. Flies(dev, Current) => Flies(dev', Current)
        BY <2>6, SteadyFlies
      <4> QED BY <2>3, <2>5, <2>8, <3>2, <4>1 DEF Holds, SameHands
    <3> QED BY <3>1, <3>2
  <2> QED BY <1>1, <1>2, <2>5, <2>6, <2>7, <2>8, DeviceKeeps
<1> QED BY <1>4, <1>5

LEMMA LeaseTimeoutKeeps == ASSUME PInv, LeaseTimeout PROVE PInv'
<1> DEFINE g == [dev EXCEPT !.grant = TrustedUntil(FALSE)]
<1>1. /\ now' = now /\ kind' = kind /\ down' = down /\ hub' = hub /\ fence' = fence
      /\ dev' = LeaseSettled(dev, FALSE, Current) /\ gaps' = Drops(Waiting(dev, FALSE))
  BY DEF LeaseTimeout
<1>2. /\ dev \in DevUpTo(Current) /\ gaps \subseteq Nat /\ fence \in FenceType /\ Current \in Nat
      /\ fence.need \in Nat /\ fence.need <= Current
      /\ (Online(dev) <=> dev.link # "none") /\ now \in Nat
  BY Shape
<1>3. /\ dev' \in DevUpTo(Current) /\ Steady(g, dev')
      /\ Current # None /\ kind[Current] = "write" /\ Holds(dev, Current)
           => Holds(dev', Current) \/ (Current \in Waiting(dev, FALSE) /\ ~(Online(dev) /\ dev.link # "none"))
  <2>1. Current \in 0..Current
    BY <1>2
  <2> QED BY <1>1, <1>2, <2>1, LeaseSettledFields
<1>4. Steady(dev, g)
  <2>1. /\ g.st = dev.st /\ g.link = dev.link /\ g.pending = dev.pending /\ g.grant = 0 /\ g.up = dev.up
    BY <1>2 DEF DevUpTo, TrustedUntil
  <2> HIDE DEF g
  <2>2. \A u : Sends(dev, u) <=> Sends(g, u)
    BY <2>1 DEF Sends
  <2> QED BY <2>1, <2>2 DEF Steady
<1> HIDE DEF g
<1>5. Steady(dev, dev')
  BY <1>3, <1>4, SteadyTransitive
<1>6. Waiting(dev, FALSE) \subseteq Nat
  BY <1>2 DEF Waiting, DevUpTo
<1>7. gaps \subseteq gaps' /\ gaps' \subseteq Nat /\ (~Online(dev) => Waiting(dev, FALSE) \subseteq gaps')
  BY <1>1, <1>2, <1>6 DEF Drops
<1> QED BY <1>1, <1>2, <1>3, <1>5, <1>7, DeviceKeeps

----------------------------------------------------------------------------
(* Steps of the socket.                                                    *)

LEMMA CutKeeps == ASSUME PInv, Cut PROVE PInv'
<1>1. /\ now' = now /\ kind' = kind /\ hub' = hub /\ fence' = fence /\ gaps' = gaps /\ down' = <<>>
      /\ dev' = [dev EXCEPT !.link = "cut", !.up = <<>>] /\ dev.link = "up"
  BY DEF Cut
<1>2. /\ dev \in DevUpTo(Current) /\ now \in Nat /\ Current' = Current /\ Online(dev) /\ Current \in Nat
  BY <1>1, Shape DEF Current
<1>3. /\ dev' \in DevUpTo(Current) /\ dev'.link = "cut" /\ dev'.up = <<>> /\ dev'.st = dev.st
      /\ dev'.pending = dev.pending /\ dev'.grant = dev.grant /\ dev'.queue = dev.queue
      /\ dev'.capture = dev.capture /\ dev'.drain = dev.drain /\ dev'.retry = dev.retry
      /\ dev'.rejects = dev.rejects
  <2>1. <<>> \in Seq(UpTo(Current))
    OBVIOUS
  <2> QED BY <1>1, <1>2, <2>1 DEF DevUpTo
<1>4. LaneShape'
  <2>1. <<>> \in Seq(DownType)
    OBVIOUS
  <2> QED BY <1>1, <1>2, <1>3, <2>1 DEF PInv, LaneShape
<1>5. SocketStands'
  BY <1>1, <1>2, <1>3 DEF SocketStands, Online
<1>6. \A v : ~AckComes(v)' /\ ~Sends(dev', v) /\ (StoredAt(v)' <=> StoredAt(v))
  BY <1>1, <1>3 DEF AckComes, Sends, StoredAt, VersionAt
<1>7. LoginSomewhere'
  <2> SUFFICES ASSUME Current # None, kind[Current] = "write"
               PROVE  StoredAt(Current)' \/ Current \in gaps' \/ Holds(dev', Current)
    BY <1>1, <1>2 DEF LoginSomewhere
  <2>1. CASE Sends(dev, Current) \/ AckComes(Current)
    BY <1>1, <1>2, <1>3, <2>1 DEF PInv, FlightPending, Holds, Flies
  <2>2. CASE ~(Sends(dev, Current) \/ AckComes(Current))
    <3>1. StoredAt(Current) \/ Current \in gaps \/ Holds(dev, Current)
      BY <2>2 DEF PInv, LoginSomewhere
    <3>2. Holds(dev, Current) => Holds(dev', Current)
      BY <1>1, <1>3, <2>2 DEF Holds, Flies
    <3>3. StoredAt(Current) => StoredAt(Current)'
      BY <1>1, <1>2 DEF StoredAt, VersionAt
    <3> QED BY <1>1, <3>1, <3>2, <3>3
  <2> QED BY <2>1, <2>2
<1>8. FlightPending' /\ AcksTrue' /\ GrantsUnderWay'
  BY <1>1, <1>6 DEF FlightPending, AcksTrue, GrantsUnderWay
<1>9. GrantOutlived' /\ WaiterHasPending'
  BY <1>1, <1>3 DEF PInv, GrantOutlived, WaiterHasPending, Online
<1> QED BY <1>4, <1>5, <1>7, <1>8, <1>9 DEF PInv

LEMMA DialKeeps == ASSUME PInv, Dial PROVE PInv'
<1> DEFINE c == [dev EXCEPT !.st = "connected", !.link = "up"]
<1>1. /\ now' = now /\ kind' = kind /\ fence' = fence /\ gaps' = gaps /\ down' = <<>>
      /\ dev' = FlushPending(c) /\ dev.link = "none"
      /\ hub' = [hub EXCEPT !.last = @ + 1, !.conns = @ \union {hub.last + 1}]
  BY DEF Dial
<1>2. /\ dev \in DevUpTo(Current) /\ now \in Nat /\ Current' = Current /\ ~Online(dev) /\ Current \in Nat
      /\ dev.grant = 0 /\ dev.up = <<>> /\ down = <<>> /\ hub \in HubType
  BY <1>1, Shape DEF Current, PInv, SocketStands
<1>3. /\ hub' \in HubType /\ hub'.store = hub.store /\ hub'.last \in hub'.conns
  <2>1. PICK k \in Nat : k = hub.last + 1
    BY <1>2 DEF HubType
  <2>2. hub' = [hub EXCEPT !.last = k, !.conns = hub.conns \union {k}]
    BY <1>1, <1>2, <2>1 DEF HubType
  <2> QED BY <1>2, <2>2 DEF HubType
<1>4. /\ c \in DevUpTo(Current) /\ c.link = "up" /\ c.st = "connected" /\ c.pending = dev.pending
      /\ c.grant = 0 /\ c.up = <<>> /\ c.queue = dev.queue /\ c.capture = dev.capture
      /\ c.drain = dev.drain /\ c.retry = dev.retry /\ c.rejects = dev.rejects
  BY <1>2 DEF DevUpTo
<1> HIDE DEF c
<1>5. /\ dev' \in DevUpTo(Current) /\ Steady(c, dev') /\ dev'.grant = 0
      /\ Current # None /\ kind[Current] = "write" /\ Holds(c, Current) => Holds(dev', Current)
  <2>1. Online(c) => c.link # "none"
    BY <1>4
  <2> QED BY <1>1, <1>2, <1>4, <2>1, FlushPendingFields
<1>6. dev'.link = "up" /\ dev'.st = "connected"
  BY <1>4, <1>5 DEF Steady
<1>7. LaneShape'
  <2>1. <<>> \in Seq(DownType)
    OBVIOUS
  <2> QED BY <1>1, <1>2, <1>3, <1>5, <2>1 DEF PInv, LaneShape
<1>8. SocketStands'
  BY <1>3, <1>6 DEF SocketStands, Online
<1>9. \A v : ~AckComes(v)' /\ ~Sends(c, v) /\ (StoredAt(v)' <=> StoredAt(v)) /\ ~Flies(dev, v) /\ ~AckComes(v)
  BY <1>1, <1>2, <1>3, <1>4 DEF AckComes, Sends, StoredAt, VersionAt, Flies
<1>10. LoginSomewhere'
  <2> SUFFICES ASSUME Current # None, kind[Current] = "write"
               PROVE  StoredAt(Current)' \/ Current \in gaps' \/ Holds(dev', Current)
    BY <1>1, <1>2 DEF LoginSomewhere
  <2>1. Holds(dev, Current) => Holds(c, Current)
    BY <1>4, <1>9 DEF Holds
  <2>2. StoredAt(Current) \/ Current \in gaps \/ Holds(dev, Current)
    BY <1>9 DEF PInv, LoginSomewhere
  <2>3. StoredAt(Current) => StoredAt(Current)'
    BY <1>2, <1>3 DEF StoredAt, VersionAt
  <2> QED BY <1>1, <1>5, <2>1, <2>2, <2>3
<1>11. FlightPending'
  BY <1>5, <1>9 DEF FlightPending, Steady
<1>12. AcksTrue' /\ GrantsUnderWay'
  BY <1>1 DEF AcksTrue, GrantsUnderWay
<1>13. GrantOutlived'
  BY <1>1, <1>2, <1>5 DEF GrantOutlived
<1>14. WaiterHasPending'
  BY <1>1, <1>2, <1>6 DEF PInv, WaiterHasPending
<1> QED BY <1>7, <1>8, <1>10, <1>11, <1>12, <1>13, <1>14 DEF PInv

LEMMA NoticeCloseKeeps == ASSUME PInv, NoticeClose PROVE PInv'
<1>1. /\ now' = now /\ kind' = kind /\ hub' = hub /\ down' = down
      /\ dev' = LostSocket(dev, Current) /\ dev.link = "cut"
      /\ fence' = FenceFails /\ gaps' = gaps \union Waiting(dev, FALSE)
  BY DEF NoticeClose
<1>2. /\ dev \in DevUpTo(Current) /\ now \in Nat /\ Current' = Current /\ Current \in Nat
      /\ dev.up = <<>> /\ down = <<>> /\ fence \in FenceType /\ gaps \subseteq Nat
      /\ Current \in 0..Current
  BY <1>1, Shape DEF Current, PInv, SocketStands
<1>3. /\ dev' \in DevUpTo(Current) /\ ~Online(dev') /\ dev'.link = "none" /\ dev'.grant = 0
      /\ dev'.up = <<>>
      /\ Current # None /\ kind[Current] = "write" /\ (Holds(dev, Current) \/ dev.pending)
           => Holds(dev', Current) \/ Current \in Waiting(dev, FALSE)
  BY <1>1, <1>2, LostSocketFields
<1>4. Waiting(dev, FALSE) \subseteq Nat
  BY <1>2 DEF Waiting, DevUpTo
<1>5. fence' \in FenceType /\ fence'.pc # "waiting" /\ fence'.need = fence.need
  BY <1>1, <1>2 DEF FenceFails, FenceType
<1>6. LaneShape'
  BY <1>1, <1>2, <1>3, <1>4, <1>5 DEF PInv, LaneShape
<1>7. SocketStands'
  BY <1>1, <1>2, <1>3 DEF SocketStands, Online
<1>8. \A v : ~AckComes(v)' /\ ~AckComes(v) /\ ~Sends(dev', v) /\ (StoredAt(v)' <=> StoredAt(v))
  BY <1>1, <1>2, <1>3 DEF AckComes, Sends, StoredAt, VersionAt
<1>9. LoginSomewhere'
  <2> SUFFICES ASSUME Current # None, kind[Current] = "write"
               PROVE  StoredAt(Current)' \/ Current \in gaps' \/ Holds(dev', Current)
    BY <1>1, <1>2 DEF LoginSomewhere
  <2>1. StoredAt(Current) \/ Current \in gaps \/ Holds(dev, Current)
    BY <1>8 DEF PInv, LoginSomewhere
  <2>2. StoredAt(Current) => StoredAt(Current)'
    BY <1>1, <1>2 DEF StoredAt, VersionAt
  <2> QED BY <1>1, <1>3, <2>1, <2>2
<1>10. FlightPending' /\ AcksTrue' /\ GrantsUnderWay'
  <2>1. down' = <<>>
    BY <1>1, <1>2
  <2> QED BY <1>8, <2>1 DEF FlightPending, AcksTrue, GrantsUnderWay
<1>11. GrantOutlived' /\ WaiterHasPending'
  BY <1>1, <1>2, <1>3, <1>5 DEF GrantOutlived, WaiterHasPending
<1> QED BY <1>6, <1>7, <1>9, <1>10, <1>11 DEF PInv

----------------------------------------------------------------------------
(* Time, and the rival.                                                    *)

LEMMA TickKeeps == ASSUME PInv, Tick PROVE PInv'
<1>1. /\ now' = now + 1 /\ kind' = kind /\ dev' = dev /\ down' = down /\ hub' = hub
      /\ fence' = fence /\ gaps' = gaps /\ Current' = Current
      /\ \A i \in 1..Len(down) : down[i].t = "granted" => down[i].at = now
  BY DEF Tick, Current
<1>2. now \in Nat /\ now' \in Nat /\ down \in Seq(DownType) /\ DOMAIN down = 1..Len(down)
      /\ dev \in DevUpTo(Current) /\ hub \in HubType
  BY <1>1, Shape
<1>3. LaneShape'
  BY <1>1, <1>2 DEF PInv, LaneShape
<1>4. SocketStands' /\ WaiterHasPending'
  BY <1>1 DEF PInv, SocketStands, Online, WaiterHasPending
<1>5. \A v : (AckComes(v)' <=> AckComes(v)) /\ (StoredAt(v)' <=> StoredAt(v))
  BY <1>1 DEF AckComes, StoredAt, VersionAt
<1>6. LoginSomewhere' /\ FlightPending' /\ AcksTrue'
  BY <1>1, <1>5 DEF PInv, LoginSomewhere, FlightPending, AcksTrue
<1>7. GrantsUnderWay'
  <2> SUFFICES ASSUME NEW i \in DOMAIN down, down[i].t = "granted"
               PROVE  /\ down[i].at <= now' /\ now' <= down[i].at + 1
                      /\ \/ hub.lease.holder = Me /\ down[i].at + 2 <= hub.lease.until
                         \/ RevokedBehind(i)
    BY <1>1 DEF GrantsUnderWay, RevokedBehind
  <2>1. down[i].at = now
    BY <1>1, <1>2
  <2> QED BY <1>1, <1>2, <2>1 DEF PInv, GrantsUnderWay
<1>8. GrantOutlived'
  <2>1. dev.grant \in Nat /\ dev.grant <= now + 1 /\ ~(dev.grant > now')
    BY <1>1, <1>2 DEF PInv, GrantOutlived, DevUpTo
  <2> QED BY <1>1, <1>2, <2>1 DEF GrantOutlived
<1> QED BY <1>3, <1>4, <1>6, <1>7, <1>8 DEF PInv

(* The hub's lease, or its connections, change; the device does not.       *)
LEMMA HubKeeps ==
  ASSUME PInv, now' = now, kind' = kind, dev' = dev, fence' = fence, gaps' = gaps,
         hub' \in HubType, hub'.store = hub.store, down' \in Seq(DownType),
         dev.link # "up" => down' = down,
         dev.link = "up" => hub'.last \in hub'.conns,
         \A v : AckComes(v)' <=> AckComes(v), AcksTrue', GrantsUnderWay', GrantOutlived'
  PROVE  PInv'
<1>1. Current' = Current
  BY DEF Current
<1>2. LaneShape'
  BY <1>1 DEF PInv, LaneShape
<1>3. SocketStands' /\ WaiterHasPending'
  BY DEF PInv, SocketStands, Online, WaiterHasPending
<1>4. \A v : StoredAt(v)' <=> StoredAt(v)
  BY DEF StoredAt, VersionAt
<1>5. LoginSomewhere' /\ FlightPending'
  BY <1>1, <1>4 DEF PInv, LoginSomewhere, FlightPending
<1> QED BY <1>2, <1>3, <1>5 DEF PInv

(* The hub closes a connection; the lease goes with the last one of the    *)
(* device, which is not the one it is connected on.                        *)
LEMMA HubCloseKeeps == ASSUME PInv, HubClose PROVE PInv'
<1>1. PICK c \in hub.conns :
         /\ c # hub.last \/ dev.link # "up"
         /\ hub' = [hub EXCEPT !.conns = @ \ {c}, !.lease = LeaseAfterHubClose(c)]
         /\ now' = now /\ kind' = kind /\ dev' = dev /\ down' = down /\ fence' = fence /\ gaps' = gaps
  BY DEF HubClose
<1>2. hub \in HubType /\ down \in Seq(DownType) /\ now \in Nat /\ dev \in DevUpTo(Current)
  BY Shape
<1>3. PICK l \in [holder : Nat, until : Nat] : l = LeaseAfterHubClose(c)
  BY <1>2 DEF HubType, LeaseAfterHubClose, NoLease
<1>4. /\ hub' \in HubType /\ hub'.store = hub.store /\ hub'.last = hub.last /\ hub'.conns = hub.conns \ {c}
      /\ hub'.lease = l
  BY <1>1, <1>2, <1>3 DEF HubType
<1>5. dev.link = "up" => hub'.last \in hub'.conns /\ l = hub.lease
  BY <1>1, <1>3, <1>4 DEF PInv, SocketStands, LeaseAfterHubClose
<1>6. \A v : (AckComes(v)' <=> AckComes(v)) /\ (StoredAt(v)' <=> StoredAt(v))
  BY <1>1, <1>4 DEF AckComes, StoredAt, VersionAt
<1>7. AcksTrue'
  BY <1>1, <1>6 DEF PInv, AcksTrue
<1>8. GrantsUnderWay'
  <2>1. CASE dev.link = "up"
    BY <1>1, <1>4, <1>5, <2>1 DEF PInv, GrantsUnderWay, RevokedBehind
  <2>2. CASE dev.link # "up"
    <3>1. down' = <<>>
      BY <1>1, <2>2 DEF PInv, SocketStands
    <3> QED BY <3>1 DEF GrantsUnderWay
  <2> QED BY <2>1, <2>2
<1>9. GrantOutlived'
  <2>1. CASE dev.link = "up"
    BY <1>1, <1>4, <1>5, <2>1 DEF PInv, GrantOutlived
  <2>2. CASE dev.link = "cut"
    BY <1>1, <2>2 DEF PInv, GrantOutlived
  <2>3. CASE dev.link = "none"
    BY <1>1, <1>2, <2>3 DEF PInv, GrantOutlived, SocketStands
  <2> QED BY <1>2, <2>1, <2>2, <2>3 DEF DevUpTo
<1> QED BY <1>1, <1>2, <1>4, <1>5, <1>6, <1>7, <1>8, <1>9, HubKeeps

(* A frame more from the hub.                                              *)
LEMMA Replied ==
  ASSUME NEW f \in DownType, down \in Seq(DownType)
  PROVE  LET D == Append(down, f) IN
         /\ D \in Seq(DownType) /\ DOMAIN D = 1..(Len(down) + 1) /\ DOMAIN down = 1..Len(down)
         /\ Len(down) \in Nat /\ D[Len(down) + 1] = f /\ \A i \in 1..Len(down) : D[i] = down[i]
         /\ DOMAIN down \subseteq DOMAIN D /\ \A i \in DOMAIN D : i \in DOMAIN down \/ i = Len(down) + 1
  OBVIOUS

LEMMA RivalAcquiresKeeps == ASSUME PInv, RivalAcquires PROVE PInv'
<1> DEFINE l == [holder |-> Rival, until |-> LeaseUntil(now, 2)]
           f == [t |-> "revoked"]
<1>1. /\ now' = now /\ kind' = kind /\ dev' = dev /\ fence' = fence /\ gaps' = gaps
      /\ hub' = [hub EXCEPT !.lease = l] /\ down' = TellHolder /\ hub.lease.holder # Rival
  BY DEF RivalAcquires
<1>2. hub \in HubType /\ down \in Seq(DownType) /\ now \in Nat /\ dev \in DevUpTo(Current)
  BY Shape
<1>3. l \in [holder : Nat, until : Nat] /\ f \in DownType /\ f.t = "revoked"
  BY <1>2 DEF LeaseUntil, DownType, Rival
<1> HIDE DEF l
<1>4. /\ hub' \in HubType /\ hub'.store = hub.store /\ hub'.last = hub.last /\ hub'.conns = hub.conns
      /\ hub.lease \in [holder : Nat, until : Nat]
  BY <1>1, <1>2, <1>3 DEF HubType
<1> HIDE DEF f
<1>5. dev.link = "up" => hub'.last \in hub'.conns
  BY <1>4 DEF PInv, SocketStands
<1>6. CASE ForeignLease(hub.lease, Rival, now) /\ dev.link = "up"
  <2>1. down' = Append(down, f)
    BY <1>1, <1>6 DEF TellHolder, Reply, f
  <2>2. /\ down' \in Seq(DownType) /\ DOMAIN down' = 1..(Len(down) + 1) /\ DOMAIN down = 1..Len(down)
        /\ Len(down) \in Nat /\ down'[Len(down) + 1] = f /\ \A i \in 1..Len(down) : down'[i] = down[i]
    BY <1>2, <1>3, <2>1, Replied
  <2>3. \A i \in DOMAIN down' : down'[i].t # "revoked" => i \in DOMAIN down /\ down'[i] = down[i]
    BY <1>3, <2>2
  <2>4. \A i \in DOMAIN down : i \in DOMAIN down' /\ down'[i] = down[i]
    BY <2>2
  <2>5. \A v : AckComes(v)' <=> AckComes(v)
    BY <2>3, <2>4 DEF AckComes
  <2>6. \A v : StoredAt(v)' <=> StoredAt(v)
    BY <1>4 DEF StoredAt, VersionAt
  <2>7. AcksTrue'
    BY <1>1, <2>3, <2>6 DEF PInv, AcksTrue
  <2>8. Len(down) + 1 \in DOMAIN down' /\ down'[Len(down) + 1].t = "revoked"
    BY <1>3, <2>2
  <2>9. GrantsUnderWay'
    <3> SUFFICES ASSUME NEW i \in DOMAIN down', down'[i].t = "granted"
                 PROVE  /\ down'[i].at <= now /\ now <= down'[i].at + 1
                        /\ RevokedBehind(i)'
      BY <1>1 DEF GrantsUnderWay
    <3>1. i \in DOMAIN down /\ down'[i] = down[i]
      BY <2>3
    <3>2. Len(down) + 1 > i
      BY <2>2, <3>1
    <3> QED BY <2>8, <3>1, <3>2 DEF PInv, GrantsUnderWay, RevokedBehind
  <2>10. GrantOutlived'
    BY <1>1, <2>8 DEF PInv, GrantOutlived
  <2> QED BY <1>1, <1>4, <1>5, <1>6, <2>2, <2>5, <2>7, <2>9, <2>10, HubKeeps
<1>7. CASE ~(ForeignLease(hub.lease, Rival, now) /\ dev.link = "up")
  <2>1. down' = down
    BY <1>1, <1>7 DEF TellHolder
  <2>2. \A v : (AckComes(v)' <=> AckComes(v)) /\ (StoredAt(v)' <=> StoredAt(v))
    BY <1>4, <2>1 DEF AckComes, StoredAt, VersionAt
  <2>3. AcksTrue'
    BY <1>1, <2>1, <2>2 DEF PInv, AcksTrue
  <2>4. dev.link = "up" => ~(hub.lease.holder = Me /\ hub.lease.until > now)
    BY <1>7 DEF ForeignLease, Me, Rival, NoLease
  <2>5. GrantsUnderWay'
    <3> SUFFICES ASSUME NEW i \in DOMAIN down, down[i].t = "granted"
                 PROVE  /\ down[i].at <= now /\ now <= down[i].at + 1
                        /\ RevokedBehind(i)
      BY <1>1, <2>1 DEF GrantsUnderWay, RevokedBehind
    <3>1. dev.link = "up"
      BY DEF PInv, SocketStands
    <3>2. down[i].at \in Nat
      <4>1. down[i] \in DownType
        BY <1>2
      <4> QED BY <4>1 DEF DownType
    <3>3. /\ down[i].at <= now /\ now <= down[i].at + 1
          /\ \/ hub.lease.holder = Me /\ down[i].at + 2 <= hub.lease.until
             \/ RevokedBehind(i)
      BY DEF PInv, GrantsUnderWay
    <3>4. hub.lease.until \in Nat
      BY <1>4
    <3> QED BY <1>2, <2>4, <3>1, <3>2, <3>3, <3>4
  <2>6. GrantOutlived'
    <3>1. dev.grant \in Nat /\ hub.lease.until \in Nat /\ dev.link \in {"none", "up", "cut"}
      BY <1>2, <1>4 DEF DevUpTo
    <3>2. dev.link = "none" => ~(dev.grant > now)
      BY <1>2 DEF PInv, SocketStands
    <3> QED BY <1>1, <1>2, <2>1, <2>4, <3>1, <3>2 DEF PInv, GrantOutlived
  <2> QED BY <1>1, <1>2, <1>4, <1>5, <2>1, <2>2, <2>3, <2>5, <2>6, HubKeeps
<1> QED BY <1>6, <1>7

----------------------------------------------------------------------------
(* A change of the browser.                                                *)

LEMMA Wider == ASSUME NEW n \in Nat PROVE DevUpTo(n) \subseteq DevUpTo(n + 1)
<1>1. UpTo(n) \subseteq UpTo(n + 1) /\ 1..n \subseteq 1..(n + 1) /\ 0..n \subseteq 0..(n + 1)
  BY DEF UpTo
<1>2. Seq(UpTo(n)) \subseteq Seq(UpTo(n + 1))
  BY <1>1
<1>3. [v : 0..n, at : {"open", "lease"}] \subseteq [v : 0..(n + 1), at : {"open", "lease"}]
  BY <1>1
<1>4. SUBSET (1..n) \subseteq SUBSET (1..(n + 1))
  BY <1>1
<1> QED BY <1>1, <1>2, <1>3, <1>4 DEF DevUpTo

(* localChange: a login that is not kept local is queued, waits for the    *)
(* lease or is sent.                                                       *)
LEMMA LocalChangeFields ==
  ASSUME NEW n \in Nat, NEW d \in DevUpTo(n), NEW k \in {"write", "delete"}, NEW v \in 1..n,
         Online(d) => d.link # "none"
  PROVE  LET e == LocalChange(d, k, v) IN
         /\ e \in DevUpTo(n) /\ Steady(d, e)
         /\ LocalKind(d, k) # "local" => Holds(e, v)
<1> DEFINE e == LocalChange(d, k, v)
<1>1. CASE LocalKind(d, k) = "local"
  <2>1. e = d
    BY <1>1 DEF LocalChange
  <2> QED BY <1>1, <2>1, SteadyItself
<1>2. CASE LocalKind(d, k) # "local" /\ ~Online(d)
  <2>1. e = Enqueue(d, v)
    BY <1>2 DEF LocalChange
  <2> QED BY <2>1, EnqueueFields DEF Holds
<1>3. CASE LocalKind(d, k) # "local" /\ Online(d) /\ Rotating /\ k = "write" /\ d.grant <= now
  <2> DEFINE a == AskLease(d, "lease", v)
  <2>1. e = [a EXCEPT !.capture = v]
    BY <1>3 DEF LocalChange
  <2>2. v \in 0..n
    OBVIOUS
  <2>3. a \in DevUpTo(n) /\ Steady(d, a)
    BY <2>2, AskLeaseFields
  <2> HIDE DEF a, e
  <2>4. /\ e \in DevUpTo(n) /\ e.capture = v /\ e.st = a.st /\ e.link = a.link
        /\ e.pending = a.pending /\ e.grant = a.grant /\ e.up = a.up
    BY <2>1, <2>2, <2>3 DEF DevUpTo
  <2>5. \A u : Sends(a, u) <=> Sends(e, u)
    BY <2>4 DEF Sends
  <2>6. Steady(a, e)
    BY <2>4, <2>5 DEF Steady
  <2>7. Steady(d, e)
    BY <2>3, <2>6, SteadyTransitive
  <2> QED BY <2>4, <2>7 DEF Holds, e
<1>4. CASE LocalKind(d, k) # "local" /\ Online(d) /\ ~(Rotating /\ k = "write" /\ d.grant <= now)
  <2>1. e = Publish(d, v)
    BY <1>4 DEF LocalChange
  <2>2. v \in 0..n
    OBVIOUS
  <2> QED BY <1>4, <2>1, <2>2, PublishFields DEF Holds
<1> QED BY <1>1, <1>2, <1>3, <1>4

LEMMA CaptureKeeps == ASSUME PInv, NEW k \in {"write", "delete"}, Capture(k) PROVE PInv'
<1> DEFINE n == Current
           m == n + 1
<1>1. /\ now' = now /\ down' = down /\ hub' = hub /\ fence' = fence /\ gaps' = gaps
      /\ kind' = Append(kind, LocalKind(dev, k)) /\ dev' = LocalChange(dev, k, m)
  BY DEF Capture
<1>2. /\ n \in Nat /\ dev \in DevUpTo(n) /\ kind \in Seq(Kinds) /\ (Online(dev) => dev.link # "none")
      /\ fence.need \in Nat /\ fence.need <= n
  BY Shape
<1>3. LocalKind(dev, k) \in Kinds
  BY DEF LocalKind, Kinds
<1>4. kind' \in Seq(Kinds) /\ Current' = m /\ kind'[m] = LocalKind(dev, k)
  BY <1>1, <1>2, <1>3 DEF Current
<1>5. dev \in DevUpTo(m) /\ m \in Nat /\ m \in 1..m
  BY <1>2, Wider
<1> HIDE DEF m, n
<1>6. dev' \in DevUpTo(m) /\ Steady(dev, dev') /\ (LocalKind(dev, k) # "local" => Holds(dev', m))
  BY <1>1, <1>2, <1>5, LocalChangeFields
<1>7. LaneShape'
  <2>1. fence.need <= m
    BY <1>2 DEF m
  <2> QED BY <1>1, <1>4, <1>6, <2>1 DEF PInv, LaneShape
<1>8. LoginSomewhere'
  BY <1>4, <1>6 DEF LoginSomewhere
<1> QED BY <1>1, <1>6, <1>7, <1>8, DeviceRest

----------------------------------------------------------------------------
(* A frame of the hub.                                                     *)

LEMMA Frames ==
  \A f \in DownType : /\ f.t \in {"ack", "granted", "denied", "revoked"}
                      /\ f.t = "ack" => f.v \in Nat /\ f.res \in AckTypes
                      /\ f.t = "granted" => f.at \in Nat
  BY DEF DownType

LEMMA NextFrame ==
  ASSUME PInv, down # <<>>, down' = Tail(down)
  PROVE  /\ down' \in Seq(DownType) /\ Head(down) \in DownType /\ Head(down) = down[1]
         /\ 1 \in DOMAIN down /\ dev.link = "up" /\ Online(dev) /\ DOMAIN down = 1..Len(down)
         /\ \A i \in DOMAIN down' : i + 1 \in DOMAIN down /\ down'[i] = down[i + 1] /\ i \in Nat
                                    /\ i + 1 \in 2..Len(down)
         /\ \A i \in DOMAIN down : i = 1 \/ (i - 1 \in DOMAIN down' /\ down'[i - 1] = down[i])
         /\ \A i \in DOMAIN down : i \in Nat
<1>1. down \in Seq(DownType)
  BY Shape
<1>2. dev.link = "up" /\ Online(dev)
  BY DEF PInv, SocketStands
<1>3. /\ down' \in Seq(DownType) /\ Head(down) \in DownType /\ Head(down) = down[1]
      /\ DOMAIN down = 1..Len(down) /\ Len(down) \in Nat /\ Len(down) # 0
      /\ DOMAIN down' = 1..(Len(down) - 1)
      /\ \A i \in 1..(Len(down) - 1) : down'[i] = down[i + 1]
  BY <1>1
<1>4. \A i \in DOMAIN down : i = 1 \/ (i - 1 \in DOMAIN down' /\ down'[i - 1] = down[i])
  <2> SUFFICES ASSUME NEW i \in DOMAIN down, i # 1 PROVE i - 1 \in DOMAIN down' /\ down'[i - 1] = down[i]
    OBVIOUS
  <2>1. i - 1 \in 1..(Len(down) - 1) /\ (i - 1) + 1 = i
    BY <1>3
  <2> QED BY <1>3, <2>1
<1> QED BY <1>2, <1>3, <1>4

(* The frames behind the head keep what they are worth.                    *)
LEMMA BehindKeeps ==
  ASSUME PInv, down # <<>>, down' = Tail(down), now' = now, hub' = hub, gaps \subseteq gaps'
  PROVE  /\ AcksTrue' /\ GrantsUnderWay'
         /\ \A i \in DOMAIN down : down[i].t = "revoked" /\ i # 1 => \E j \in DOMAIN down' : down'[j].t = "revoked"
         /\ \A v : AckComes(v)' => AckComes(v)
         /\ Head(down).t # "ack" => \A v : AckComes(v) => AckComes(v)'
<1>1. /\ Head(down) = down[1] /\ 1 \in DOMAIN down
      /\ \A i \in DOMAIN down' : i + 1 \in DOMAIN down /\ down'[i] = down[i + 1] /\ i \in Nat
      /\ \A i \in DOMAIN down : i = 1 \/ (i - 1 \in DOMAIN down' /\ down'[i - 1] = down[i])
      /\ \A i \in DOMAIN down : i \in Nat
  BY NextFrame
<1>2. \A v : StoredAt(v)' <=> StoredAt(v)
  BY DEF StoredAt, VersionAt
<1>3. AcksTrue'
  BY <1>1, <1>2 DEF PInv, AcksTrue
<1>4. GrantsUnderWay'
  <2> SUFFICES ASSUME NEW i \in DOMAIN down', down'[i].t = "granted"
               PROVE  /\ down'[i].at <= now /\ now <= down'[i].at + 1
                      /\ \/ hub.lease.holder = Me /\ down'[i].at + 2 <= hub.lease.until
                         \/ RevokedBehind(i)'
    BY DEF GrantsUnderWay
  <2>1. /\ down'[i].at <= now /\ now <= down'[i].at + 1
        /\ \/ hub.lease.holder = Me /\ down'[i].at + 2 <= hub.lease.until
           \/ RevokedBehind(i + 1)
    BY <1>1 DEF PInv, GrantsUnderWay
  <2>2. RevokedBehind(i + 1) => RevokedBehind(i)'
    <3> SUFFICES ASSUME NEW j \in DOMAIN down, j > i + 1, down[j].t = "revoked" PROVE RevokedBehind(i)'
      BY DEF RevokedBehind
    <3>1. j - 1 \in DOMAIN down' /\ down'[j - 1] = down[j] /\ j - 1 > i
      BY <1>1
    <3> QED BY <3>1 DEF RevokedBehind
  <2> QED BY <2>1, <2>2
<1>5. \A i \in DOMAIN down : down[i].t = "revoked" /\ i # 1 => \E j \in DOMAIN down' : down'[j].t = "revoked"
  BY <1>1, ZenonT(60)
<1>6. \A v : AckComes(v)' => AckComes(v)
  BY <1>1 DEF AckComes
<1>7. ASSUME Head(down).t # "ack", NEW v, AckComes(v) PROVE AckComes(v)'
  <2>1. PICK i \in DOMAIN down : down[i].t = "ack" /\ down[i].v = v
    BY <1>7 DEF AckComes
  <2>2. i # 1
    BY <1>1, <1>7, <2>1
  <2>3. i - 1 \in DOMAIN down' /\ down'[i - 1] = down[i]
    BY <1>1, <2>2
  <2> QED BY <2>1, <2>3 DEF AckComes
<1> QED BY <1>3, <1>4, <1>5, <1>6, <1>7

(* The answer to a lease request, or a revocation.                         *)
LEMMA LeaseFrameKeeps ==
  ASSUME PInv, down # <<>>, down' = Tail(down), Head(down).t # "ack",
         now' = now, kind' = kind, hub' = hub, fence' = fence, gaps' = gaps,
         dev' \in DevUpTo(Current), NEW x, Steady([dev EXCEPT !.grant = x], dev'), GrantOutlived',
         Current # None /\ kind[Current] = "write" /\ Holds(dev, Current) => Holds(dev', Current)
  PROVE  PInv'
<1> DEFINE g == [dev EXCEPT !.grant = x]
<1>1. g.st = dev.st /\ g.link = dev.link /\ g.pending = dev.pending /\ g.up = dev.up
  BY Shape DEF DevUpTo
<1> HIDE DEF g
<1>2. \A v : Sends(g, v) <=> Sends(dev, v)
  BY <1>1 DEF Sends
<1>3. /\ dev'.st = dev.st /\ dev'.link = dev.link /\ (dev.pending => dev'.pending)
      /\ \A v : Sends(dev', v) => Sends(dev, v) \/ dev'.pending
  <2>1. Steady(g, dev')
    BY DEF g
  <2> QED BY <1>1, <1>2, <2>1 DEF Steady
<1>4. /\ down' \in Seq(DownType) /\ dev.link = "up" /\ Online(dev)
  BY NextFrame
<1>5. /\ AcksTrue' /\ GrantsUnderWay' /\ \A v : AckComes(v)' <=> AckComes(v)
  BY BehindKeeps
<1>6. Current' = Current /\ Current \in Nat
  BY Shape DEF Current
<1>7. LaneShape'
  BY <1>4, <1>6 DEF PInv, LaneShape
<1>8. SocketStands'
  BY <1>3, <1>4 DEF PInv, SocketStands, Online
<1>9. LoginSomewhere'
  <2>1. \A v : StoredAt(v)' <=> StoredAt(v)
    BY DEF StoredAt, VersionAt
  <2> QED BY <1>5, <1>6, <2>1 DEF PInv, LoginSomewhere
<1>10. FlightPending'
  BY <1>3, <1>5 DEF PInv, FlightPending
<1>11. WaiterHasPending'
  BY <1>3 DEF PInv, WaiterHasPending, Online
<1> QED BY <1>5, <1>7, <1>8, <1>9, <1>10, <1>11 DEF PInv

LEMMA AnswerKeeps ==
  ASSUME PInv, HandleFrame, Head(down).t \in {"granted", "denied", "revoked"} PROVE PInv'
<1> DEFINE f == Head(down)
<1>1. /\ down # <<>> /\ down' = Tail(down) /\ f.t # "ack" /\ now' = now /\ kind' = kind /\ hub' = hub
      /\ fence' = fence /\ gaps' = gaps
  BY DEF HandleFrame
<1>2. /\ Current \in Nat /\ dev \in DevUpTo(Current) /\ now \in Nat /\ hub \in HubType /\ dev.grant \in Nat
      /\ hub.lease.until \in Nat
  BY Shape DEF DevUpTo, HubType
<1>3. /\ dev.link = "up" /\ Online(dev) /\ f = down[1] /\ 1 \in DOMAIN down /\ f \in DownType
  BY <1>1, NextFrame
<1>4. \A i \in DOMAIN down : down[i].t = "revoked" /\ i # 1 => \E j \in DOMAIN down' : down'[j].t = "revoked"
  BY <1>1, BehindKeeps
<1>5. CASE f.t \in {"granted", "denied"} /\ dev.asking
  <2>1. PICK yes \in BOOLEAN : yes <=> f.t = "granted"
    OBVIOUS
  <2>2. dev' = LeaseSettled(dev, yes, Current)
    BY <1>5, <2>1 DEF HandleFrame
  <2>3. Current \in 0..Current
    BY <1>2
  <2>4. /\ dev' \in DevUpTo(Current) /\ Steady([dev EXCEPT !.grant = TrustedUntil(yes)], dev')
        /\ Current # None /\ kind[Current] = "write" /\ Holds(dev, Current) => Holds(dev', Current)
    BY <1>2, <1>3, <2>2, <2>3, LeaseSettledFields
  <2>5. dev'.grant = TrustedUntil(yes) \/ dev'.grant = 0
    <3>1. [dev EXCEPT !.grant = TrustedUntil(yes)].grant = TrustedUntil(yes)
      BY <1>2 DEF DevUpTo
    <3> QED BY <2>4, <3>1 DEF Steady
  <2>6. GrantOutlived'
    <3>1. CASE yes
      <4>1. /\ f.at \in Nat /\ f.at <= now /\ now <= f.at + 1
            /\ \/ hub.lease.holder = Me /\ f.at + 2 <= hub.lease.until
               \/ RevokedBehind(1)
        BY <1>3, <2>1, <3>1, Frames DEF PInv, GrantsUnderWay
      <4>2. RevokedBehind(1) => \E j \in DOMAIN down' : down'[j].t = "revoked"
        BY <1>4 DEF RevokedBehind
      <4>3. dev'.grant \in Nat /\ dev'.grant <= now + 1
        BY <1>2, <2>5, <3>1 DEF TrustedUntil
      <4>4. hub.lease.holder = Me /\ f.at + 2 <= hub.lease.until => dev'.grant <= hub.lease.until
        BY <1>2, <4>1, <4>3
      <4> QED BY <1>1, <4>1, <4>2, <4>3, <4>4 DEF GrantOutlived
    <3>2. CASE ~yes
      <4>1. dev'.grant = 0
        BY <2>5, <3>2 DEF TrustedUntil
      <4> QED BY <1>1, <1>2, <4>1 DEF GrantOutlived
    <3> QED BY <3>1, <3>2
  <2> QED BY <1>1, <2>4, <2>6, LeaseFrameKeeps
<1>6. CASE f.t \in {"granted", "denied"} /\ ~dev.asking
  <2>1. dev' = dev
    BY <1>6 DEF HandleFrame
  <2>2. GrantOutlived'
    BY <1>1, <1>3, <1>4, <1>6, <2>1 DEF PInv, GrantOutlived
  <2>3. [dev EXCEPT !.grant = dev.grant] = dev
    BY <1>2 DEF DevUpTo
  <2>4. Steady([dev EXCEPT !.grant = dev.grant], dev')
    BY <2>1, <2>3, SteadyItself
  <2> QED BY <1>1, <1>2, <2>1, <2>2, <2>4, LeaseFrameKeeps
<1>7. CASE f.t = "revoked"
  <2>1. dev' = [dev EXCEPT !.grant = 0]
    BY <1>7 DEF HandleFrame
  <2>2. /\ dev' \in DevUpTo(Current) /\ dev'.grant = 0 /\ dev'.st = dev.st /\ dev'.link = dev.link
        /\ dev'.pending = dev.pending /\ dev'.queue = dev.queue /\ dev'.capture = dev.capture
        /\ dev'.drain = dev.drain /\ dev'.retry = dev.retry /\ dev'.rejects = dev.rejects
        /\ dev'.up = dev.up
    BY <1>2, <2>1 DEF DevUpTo
  <2>3. Holds(dev, Current) => Holds(dev', Current)
    BY <2>2 DEF Holds, Flies, Sends
  <2>4. GrantOutlived'
    BY <1>1, <1>2, <2>2 DEF GrantOutlived
  <2>5. Steady([dev EXCEPT !.grant = 0], dev')
    BY <2>1, SteadyItself
  <2> QED BY <1>1, <2>2, <2>3, <2>4, <2>5, LeaseFrameKeeps
<1> QED BY <1>5, <1>6, <1>7

(* publish.ack: whatever else of the cookie is under way is let go of; a   *)
(* refused login is taken up again.                                        *)
LEMMA AckKeeps == ASSUME PInv, HandleFrame, Head(down).t = "ack" PROVE PInv'
<1> DEFINE f == Head(down)
           n == Current
           a == [dev EXCEPT !.pending = FALSE, !.refused = (f.res = "lease_required")]
<1>1. /\ down # <<>> /\ down' = Tail(down) /\ now' = now /\ kind' = kind /\ hub' = hub
      /\ fence' = Settled([dev EXCEPT !.refused = (f.res = "lease_required")])
      /\ dev' = Acked(dev, f.res) /\ gaps' = gaps \union Overtaken
  BY DEF HandleFrame
<1>2. /\ n \in Nat /\ dev \in DevUpTo(n) /\ now \in Nat /\ fence \in FenceType /\ gaps \subseteq Nat
      /\ down \in Seq(DownType) /\ Current' = n
  BY <1>1, Shape DEF Current
<1>3. /\ dev.link = "up" /\ Online(dev) /\ f = down[1] /\ f \in DownType /\ down' \in Seq(DownType)
      /\ 1 \in DOMAIN down
      /\ \A i \in DOMAIN down' : down'[i] = down[i + 1] /\ i + 1 \in 2..Len(down)
      /\ DOMAIN down = 1..Len(down)
  BY <1>1, NextFrame
<1>4. \A v : Sends(dev, v) => v \in Overtaken
  <2>1. DOMAIN dev.up = 1..Len(dev.up)
    BY <1>2 DEF DevUpTo
  <2> QED BY <2>1 DEF Sends, Overtaken, InFlight
<1>5. \A i \in 2..Len(down) : down[i].t = "ack" => down[i].v \in Overtaken
  BY DEF Overtaken
<1>6. \A v : AckComes(v)' => v \in Overtaken
  BY <1>3, <1>5 DEF AckComes
<1>7. Overtaken \subseteq Nat
  <2>1. \A i \in InFlight : dev.up[i].v \in Nat
    <3>1. \A i \in 1..Len(dev.up) : dev.up[i] \in UpTo(n)
      BY <1>2 DEF DevUpTo
    <3> QED BY <1>2, <3>1 DEF InFlight, UpTo
  <2>2. \A i \in 2..Len(down) : down[i].t = "ack" => down[i].v \in Nat
    <3>1. \A i \in 2..Len(down) : down[i] \in DownType
      BY <1>2
    <3> QED BY <3>1, Frames
  <2> QED BY <2>1, <2>2 DEF Overtaken
<1>8. gaps \subseteq gaps' /\ gaps' \subseteq Nat /\ Overtaken \subseteq gaps'
  BY <1>1, <1>2, <1>7
<1>9. /\ AcksTrue' /\ GrantsUnderWay'
      /\ \A i \in DOMAIN down : down[i].t = "revoked" /\ i # 1 => \E j \in DOMAIN down' : down'[j].t = "revoked"
  BY <1>1, <1>8, BehindKeeps
<1>10. fence' \in FenceType /\ fence'.pc # "waiting" /\ fence'.need = fence.need
  <2>1. PICK p \in {"again", "url"} : fence' = IF fence.pc # "waiting" THEN fence ELSE [fence EXCEPT !.pc = p]
    BY <1>1 DEF Settled
  <2> QED BY <1>2, <2>1 DEF FenceType
<1>11. /\ a \in DevUpTo(n) /\ a.st = dev.st /\ a.link = dev.link /\ a.grant = dev.grant /\ a.up = dev.up
       /\ a.queue = dev.queue /\ a.capture = dev.capture /\ a.drain = dev.drain
       /\ a.retry = dev.retry /\ a.rejects = dev.rejects
  BY <1>2 DEF DevUpTo
<1> DEFINE res == f.res
<1>12. res = "lease_required" => dev' = RunRejections([a EXCEPT !.rejects = @ + 1], n)
  BY <1>1 DEF Acked
<1>13. res # "lease_required" => dev' = a
  BY <1>1 DEF Acked
<1> HIDE DEF a, res, f, n
<1>14. \A v : Sends(a, v) => v \in gaps'
  BY <1>4, <1>8, <1>11 DEF Sends
<1>15. /\ dev' \in DevUpTo(n) /\ Steady(a, dev')
       /\ n # None /\ kind[n] = "write" /\ res = "lease_required" => Holds(dev', n)
       /\ n # None /\ kind[n] = "write" /\ Holds(a, n) => Holds(dev', n)
  <2>1. CASE res = "lease_required"
    <3>1. PICK r \in Nat : r = a.rejects + 1
      BY <1>11 DEF DevUpTo
    <3> DEFINE b == [a EXCEPT !.rejects = r]
    <3>2. dev' = RunRejections(b, n)
      BY <1>12, <2>1, <3>1
    <3>3. /\ b \in DevUpTo(n) /\ b.st = a.st /\ b.link = a.link /\ b.pending = a.pending /\ b.grant = a.grant
          /\ b.up = a.up /\ b.rejects = r
      BY <1>11, <3>1 DEF DevUpTo
    <3>4. b.rejects > 0
      BY <1>11, <3>1, <3>3 DEF DevUpTo
    <3> HIDE DEF b
    <3>5. Steady(a, b)
      <4>1. \A u : Sends(a, u) <=> Sends(b, u)
        BY <3>3 DEF Sends
      <4> QED BY <3>3, <4>1 DEF Steady
    <3>6. Holds(b, n)
      BY <3>4 DEF Holds
    <3>7. n \in 0..n
      BY <1>2
    <3>8. /\ dev' \in DevUpTo(n) /\ Steady(b, dev')
          /\ n # None /\ kind[n] = "write" /\ Holds(b, n) => Holds(dev', n)
      BY <1>2, <3>2, <3>3, <3>7, RunRejectionsFields
    <3>9. Steady(a, dev')
      BY <3>5, <3>8, SteadyTransitive
    <3> QED BY <3>6, <3>8, <3>9
  <2>2. CASE res # "lease_required"
    BY <1>11, <1>13, <2>2, SteadyItself
  <2> QED BY <2>1, <2>2
<1>16. LaneShape'
  BY <1>1, <1>2, <1>3, <1>8, <1>10, <1>15 DEF PInv, LaneShape, n
<1>17. SocketStands'
  BY <1>1, <1>3, <1>11, <1>15 DEF PInv, SocketStands, Steady, Online
<1>18. LoginSomewhere'
  <2> SUFFICES ASSUME n # None, kind[n] = "write"
               PROVE  StoredAt(n)' \/ n \in gaps' \/ Holds(dev', n)
    BY <1>1, <1>2 DEF LoginSomewhere, n
  <2>1. StoredAt(n) => StoredAt(n)'
    BY <1>1, <1>2 DEF StoredAt, VersionAt, n
  <2>2. CASE Holds(dev, n)
    <3>1. CASE Sends(dev, n)
      BY <1>4, <1>8, <3>1
    <3>2. CASE ~Sends(dev, n)
      <4>1. Holds(a, n)
        BY <1>3, <1>11, <2>2, <3>2 DEF Holds, Flies
      <4> QED BY <1>15, <4>1
    <3> QED BY <3>1, <3>2
  <2>3. CASE AckComes(n)
    <3>1. PICK i \in DOMAIN down : down[i].t = "ack" /\ down[i].v = n
      BY <2>3 DEF AckComes
    <3>2. CASE i = 1
      <4>1. CASE res = "lease_required"
        BY <1>15, <4>1
      <4>2. CASE res # "lease_required"
        <5>1. down[i].res # "lease_required"
          BY <1>3, <3>2, <4>2 DEF res
        <5>2. StoredAt(n) \/ n \in gaps
          BY <3>1, <5>1 DEF PInv, AcksTrue
        <5> QED BY <1>8, <2>1, <5>2
      <4> QED BY <4>1, <4>2
    <3>3. CASE i # 1
      <4>1. i \in 2..Len(down)
        BY <1>2, <1>3, <3>3
      <4> QED BY <1>5, <1>8, <3>1, <4>1
    <3> QED BY <3>2, <3>3
  <2> QED BY <1>8, <2>1, <2>2, <2>3 DEF PInv, LoginSomewhere, n
<1>19. FlightPending'
  BY <1>6, <1>8, <1>14, <1>15 DEF FlightPending, Steady
<1>20. GrantOutlived'
  <2>1. dev'.link = dev.link /\ (dev'.grant = dev.grant \/ dev'.grant = 0)
    BY <1>11, <1>15 DEF Steady
  <2>2. \A i \in DOMAIN down : down[i].t = "revoked" => i # 1
    BY <1>3 DEF f
  <2> QED BY <1>1, <1>2, <1>3, <1>9, <2>1, <2>2 DEF PInv, GrantOutlived
<1>21. WaiterHasPending'
  BY <1>10 DEF WaiterHasPending
<1> QED BY <1>9, <1>16, <1>17, <1>18, <1>19, <1>20, <1>21 DEF PInv

LEMMA HandleFrameKeeps == ASSUME PInv, HandleFrame PROVE PInv'
<1>1. down # <<>> /\ down' = Tail(down)
  BY DEF HandleFrame
<1>2. Head(down).t \in {"ack", "granted", "denied", "revoked"}
  BY <1>1, NextFrame, Frames
<1> QED BY <1>2, AckKeeps, AnswerKeeps

----------------------------------------------------------------------------
(* The hub handles a frame.                                                *)

(* compareHlc orders the versions, the missing one before all.             *)
LEMMA VersionOrder ==
  ASSUME NEW a \in VersionType, NEW b \in VersionType, NEW c \in VersionType
  PROVE  /\ Before(a, b) /\ Before(b, c) => Before(a, c)
         /\ AtMost(a, b) \/ Before(b, a)
<1>1. \A x \in VersionType : x.phys \in Int /\ x.logi \in Int /\ x.dev \in Int
  BY DEF VersionType, HlcType, NoVersion
<1>2. \A x \in VersionType : x = [phys |-> x.phys, logi |-> x.logi, dev |-> x.dev]
  BY DEF VersionType, HlcType, NoVersion
<1>3. Before(a, b) /\ Before(b, c) => Before(a, c)
  BY <1>1 DEF Before
<1>4. a.phys = b.phys /\ a.logi = b.logi /\ a.dev = b.dev => a = b
  BY <1>2
<1>5. AtMost(a, b) \/ Before(b, a)
  BY <1>1, <1>4 DEF Before, AtMost
<1> QED BY <1>3, <1>5

(* A version that is accepted replaces an older record: what was stored    *)
(* stays stored.                                                           *)
LEMMA AcceptStores ==
  ASSUME NEW s \in StoreType, NEW h \in HlcType, Before(s.rec, h)
  PROVE  /\ AcceptVersion(s, h) \in StoreType /\ AcceptVersion(s, h).rec = h
         /\ \A w \in Nat : AtMost(VersionAt(w), s.rec) => AtMost(VersionAt(w), h)
<1>1. s.rec \in VersionType /\ s.wm \in VersionType /\ s.hist \in SUBSET HlcType /\ h \in VersionType
  BY DEF StoreType, VersionType
<1>2. AppendHistory(s.hist, h) \in SUBSET HlcType
  BY <1>1 DEF AppendHistory
<1>3. LaterOf(s.wm, h) \in VersionType
  BY <1>1 DEF LaterOf
<1>4. AcceptVersion(s, h) \in StoreType /\ AcceptVersion(s, h).rec = h
  BY <1>1, <1>2, <1>3 DEF AcceptVersion, StoreType
<1>5. ASSUME NEW w \in Nat, AtMost(VersionAt(w), s.rec) PROVE AtMost(VersionAt(w), h)
  <2>1. VersionAt(w) \in VersionType
    BY DEF VersionAt, VersionType, HlcType, Me
  <2> QED BY <1>1, <1>5, <2>1, VersionOrder DEF AtMost
<1> QED BY <1>4, <1>5

(* One frame more to the device: it is true when it is sent, and a lease   *)
(* that changes is granted for a whole TTL from now.                       *)
LEMMA ReplyKeeps ==
  ASSUME PInv, NEW f \in DownType, down' = Append(down, f), now' = now, gaps \subseteq gaps',
         dev'.grant = dev.grant, dev'.link = dev.link,
         \A w \in Nat : StoredAt(w) => StoredAt(w)',
         hub'.lease = hub.lease \/ (hub'.lease.holder = Me /\ hub'.lease.until = now + 2),
         f.t = "ack" /\ f.res # "lease_required" => StoredAt(f.v)' \/ f.v \in gaps',
         f.t = "granted" => f.at = now /\ hub'.lease.holder = Me /\ hub'.lease.until = now + 2
  PROVE  /\ down' \in Seq(DownType) /\ AcksTrue' /\ GrantsUnderWay' /\ GrantOutlived'
         /\ \A v : AckComes(v)' <=> AckComes(v) \/ (f.t = "ack" /\ f.v = v)
<1> DEFINE z == Len(down) + 1
<1>1. /\ now \in Nat /\ down \in Seq(DownType) /\ dev.grant \in Nat
      /\ hub.lease.until \in Nat
  BY Shape DEF DevUpTo, HubType
<1>2. /\ down' \in Seq(DownType) /\ z \in DOMAIN down' /\ down'[z] = f
      /\ \A i \in DOMAIN down : i \in DOMAIN down' /\ down'[i] = down[i]
      /\ \A i \in DOMAIN down' : i \in DOMAIN down \/ i = z
  <2>1. /\ down' \in Seq(DownType) /\ DOMAIN down' = 1..z /\ DOMAIN down = 1..Len(down)
        /\ Len(down) \in Nat /\ down'[z] = f /\ \A i \in 1..Len(down) : down'[i] = down[i]
    BY <1>1, Replied
  <2> QED BY <2>1
<1>3. \A i \in DOMAIN down : down[i] \in DownType
  BY <1>1
<1> HIDE DEF z
<1>4. AcksTrue'
  <2> SUFFICES ASSUME NEW i \in DOMAIN down', down'[i].t = "ack", down'[i].res # "lease_required"
               PROVE  AtMost(VersionAt(down'[i].v), hub'.store.rec) \/ down'[i].v \in gaps'
    BY DEF AcksTrue, StoredAt, VersionAt
  <2>1. CASE i \in DOMAIN down
    <3>1. down'[i] = down[i] /\ down[i].v \in Nat
      BY <1>2, <1>3, <2>1, Frames
    <3>2. StoredAt(down[i].v) \/ down[i].v \in gaps
      BY <2>1, <3>1 DEF PInv, AcksTrue
    <3>3. PICK w \in Nat : w = down[i].v
      BY <3>1
    <3>4. StoredAt(w)' \/ w \in gaps'
      BY <3>2, <3>3
    <3>5. AtMost(VersionAt(w), hub'.store.rec) \/ w \in gaps'
      BY <3>4 DEF StoredAt, VersionAt
    <3> QED BY <3>1, <3>3, <3>5
  <2>2. CASE i = z
    <3>1. down'[i] = f
      BY <1>2, <2>2
    <3>2. StoredAt(f.v)' \/ f.v \in gaps'
      BY <3>1
    <3>3. AtMost(VersionAt(f.v), hub'.store.rec) \/ f.v \in gaps'
      BY <3>2 DEF StoredAt, VersionAt
    <3> QED BY <3>1, <3>3
  <2> QED BY <1>2, <2>1, <2>2
<1>5. GrantsUnderWay'
  <2> SUFFICES ASSUME NEW i \in DOMAIN down', down'[i].t = "granted"
               PROVE  /\ down'[i].at <= now /\ now <= down'[i].at + 1
                      /\ \/ hub'.lease.holder = Me /\ down'[i].at + 2 <= hub'.lease.until
                         \/ RevokedBehind(i)'
    BY DEF GrantsUnderWay
  <2>1. CASE i \in DOMAIN down
    <3>1. down'[i] = down[i] /\ down[i].at \in Nat
      BY <1>2, <1>3, <2>1, Frames
    <3>2. /\ down[i].at <= now /\ now <= down[i].at + 1
          /\ \/ hub.lease.holder = Me /\ down[i].at + 2 <= hub.lease.until
             \/ RevokedBehind(i)
      BY <2>1, <3>1 DEF PInv, GrantsUnderWay
    <3>3. RevokedBehind(i) => RevokedBehind(i)'
      BY <1>2 DEF RevokedBehind
    <3> QED BY <1>1, <3>1, <3>2, <3>3
  <2>2. CASE i = z
    <3>1. down'[i] = f
      BY <1>2, <2>2
    <3> QED BY <1>1, <3>1
  <2> QED BY <1>2, <2>1, <2>2
<1>6. GrantOutlived'
  <2>1. dev.grant <= now + 1
    BY DEF PInv, GrantOutlived
  <2>2. dev.grant > now => \/ hub.lease.holder = Me /\ dev.grant <= hub.lease.until
                           \/ \E i \in DOMAIN down : down[i].t = "revoked"
                           \/ dev.link = "cut"
    BY DEF PInv, GrantOutlived
  <2>3. (\E i \in DOMAIN down : down[i].t = "revoked") => \E i \in DOMAIN down' : down'[i].t = "revoked"
    BY <1>2
  <2>4. hub.lease.holder = Me /\ dev.grant <= hub.lease.until
          => hub'.lease.holder = Me /\ dev.grant <= hub'.lease.until
    BY <1>1, <2>1
  <2> QED BY <2>1, <2>2, <2>3, <2>4 DEF GrantOutlived
<1>7. \A v : AckComes(v)' <=> AckComes(v) \/ (f.t = "ack" /\ f.v = v)
  BY <1>2 DEF AckComes
<1> QED BY <1>2, <1>4, <1>5, <1>6, <1>7

(* The device's frame has left; its version is answered.                   *)
LEMMA HubStepRest ==
  ASSUME PInv, dev.up # <<>>, dev' = [dev EXCEPT !.up = Tail(@)],
         now' = now, kind' = kind, fence' = fence, gaps \subseteq gaps', gaps' \subseteq Nat,
         hub' \in HubType, hub'.last = hub.last, hub'.conns = hub.conns,
         \A w \in Nat : StoredAt(w) => StoredAt(w)', down' \in Seq(DownType),
         \A v : AckComes(v)' <=> AckComes(v) \/ (Head(dev.up).t = "publish" /\ Head(dev.up).v = v),
         AcksTrue', GrantsUnderWay', GrantOutlived'
  PROVE  PInv'
<1> DEFINE n == Current
           f == Head(dev.up)
<1>1. n \in Nat /\ dev \in DevUpTo(n) /\ Current' = n /\ dev.up \in Seq(UpTo(n))
  BY Shape DEF Current, DevUpTo
<1> HIDE DEF n
<1>2. /\ Tail(dev.up) \in Seq(UpTo(n)) /\ f = dev.up[1] /\ f \in UpTo(n)
      /\ DOMAIN dev.up = 1..Len(dev.up) /\ Len(dev.up) \in Nat /\ Len(dev.up) # 0
      /\ DOMAIN Tail(dev.up) = 1..(Len(dev.up) - 1)
      /\ \A i \in 1..(Len(dev.up) - 1) : Tail(dev.up)[i] = dev.up[i + 1]
  BY <1>1
<1>3. /\ dev' \in DevUpTo(n) /\ dev'.up = Tail(dev.up) /\ dev'.st = dev.st /\ dev'.link = dev.link
      /\ dev'.pending = dev.pending /\ dev'.grant = dev.grant /\ dev'.queue = dev.queue
      /\ dev'.capture = dev.capture /\ dev'.drain = dev.drain /\ dev'.retry = dev.retry
      /\ dev'.rejects = dev.rejects
  BY <1>1, <1>2 DEF DevUpTo
<1>4. dev.link = "up"
  BY DEF PInv, SocketStands
<1>5. LaneShape'
  BY <1>1, <1>3 DEF PInv, LaneShape, n
<1>6. SocketStands' /\ WaiterHasPending'
  BY <1>3, <1>4 DEF PInv, SocketStands, Online, WaiterHasPending
<1>7. \A v : Sends(dev', v) => Sends(dev, v)
  <2> SUFFICES ASSUME NEW v, NEW i \in DOMAIN dev'.up, dev'.up[i].t = "publish", dev'.up[i].v = v
               PROVE  Sends(dev, v)
    BY DEF Sends
  <2>1. i + 1 \in DOMAIN dev.up /\ dev'.up[i] = dev.up[i + 1]
    BY <1>2, <1>3
  <2> QED BY <2>1 DEF Sends
<1>8. \A v : Sends(dev, v) => Sends(dev', v) \/ (f.t = "publish" /\ f.v = v)
  <2> SUFFICES ASSUME NEW v, NEW i \in DOMAIN dev.up, dev.up[i].t = "publish", dev.up[i].v = v, i # 1
               PROVE  Sends(dev', v)
    BY <1>2 DEF Sends
  <2>1. i - 1 \in DOMAIN dev'.up /\ (i - 1) + 1 = i
    BY <1>2, <1>3
  <2>2. dev'.up[i - 1] = dev.up[i]
    BY <1>2, <1>3, <2>1
  <2> QED BY <2>1, <2>2 DEF Sends
<1>9. f.t = "publish" => Sends(dev, f.v)
  BY <1>2 DEF Sends
<1>10. FlightPending'
  <2> SUFFICES ASSUME NEW v \in Nat, Sends(dev', v) \/ AckComes(v)' PROVE dev'.pending \/ v \in gaps'
    BY DEF FlightPending
  <2>1. Sends(dev, v) \/ AckComes(v)
    BY <1>7, <1>9
  <2> QED BY <1>3, <2>1 DEF PInv, FlightPending
<1>11. LoginSomewhere'
  <2> SUFFICES ASSUME n # None, kind[n] = "write"
               PROVE  StoredAt(n)' \/ n \in gaps' \/ Holds(dev', n) \/ AckComes(n)'
    <3>1. StoredAt(Current)' <=> StoredAt(n)'
      BY <1>1 DEF StoredAt, VersionAt, n
    <3>2. AckComes(Current)' <=> AckComes(n)'
      BY <1>1 DEF AckComes, n
    <3> QED BY <1>1, <3>1, <3>2 DEF LoginSomewhere, n
  <2>1. StoredAt(n) \/ n \in gaps \/ Holds(dev, n) \/ AckComes(n)
    BY DEF PInv, LoginSomewhere, n
  <2>2. Holds(dev, n) => Holds(dev', n) \/ (f.t = "publish" /\ f.v = n)
    BY <1>3, <1>8 DEF Holds, Flies
  <2>3. StoredAt(n) => StoredAt(n)'
    <3>1. PICK w \in Nat : w = n
      BY <1>1
    <3>2. StoredAt(w) => StoredAt(w)'
      OBVIOUS
    <3> QED BY <1>1, <3>1, <3>2 DEF StoredAt, VersionAt, n
  <2>4. AckComes(n) \/ (f.t = "publish" /\ f.v = n) => AckComes(n)'
    <3>1. PICK w : w = n
      OBVIOUS
    <3>2. AckComes(w) \/ (f.t = "publish" /\ f.v = w) => AckComes(w)'
      OBVIOUS
    <3> QED BY <1>1, <3>1, <3>2 DEF AckComes, n
  <2> QED BY <2>1, <2>2, <2>3, <2>4
<1> QED BY <1>5, <1>6, <1>10, <1>11 DEF PInv

(* handlePublish: the answer is true, but for the rate limit's.            *)
LEMMA HubPublishKeeps == ASSUME PInv, HubStep, Head(dev.up).t = "publish" PROVE PInv'
<1> DEFINE v == Head(dev.up).v
           h == VersionAt(v)
<1>1. /\ dev.up # <<>> /\ dev' = [dev EXCEPT !.up = Tail(@)] /\ HubPublish(v)
      /\ now' = now /\ kind' = kind /\ fence' = fence
  BY DEF HubStep
<1>2. /\ hub \in HubType /\ gaps \subseteq Nat /\ dev \in DevUpTo(Current) /\ Current \in Nat
  BY Shape
<1>3. v \in Nat
  <2>1. dev.up \in Seq(UpTo(Current))
    BY <1>2 DEF DevUpTo
  <2>2. Head(dev.up) \in UpTo(Current)
    BY <1>1, <2>1
  <2> QED BY <1>2, <2>2 DEF UpTo
<1> HIDE DEF v
<1>4. h \in HlcType /\ h \in VersionType
  BY <1>3 DEF VersionAt, HlcType, VersionType, Me
<1>5. PICK full \in BOOLEAN :
        LET window  == IF full THEN [i \in 1..MaxMutations |-> now] ELSE <<>>
            verdict == PublishVerdict(hub.store, hub.lease, window, TRUE, Me, h, now)
        IN  /\ hub'  = IF verdict = "accepted"
                         THEN [hub EXCEPT !.store = AcceptVersion(@, h)] ELSE hub
            /\ down' = Reply([t |-> "ack", v |-> v,
                              res |-> IF verdict = "rate_limited" THEN "stale" ELSE verdict])
            /\ gaps' = IF verdict = "rate_limited" THEN gaps \union {v} ELSE gaps
  BY <1>1 DEF HubPublish
<1> DEFINE window  == IF full THEN [i \in 1..MaxMutations |-> now] ELSE <<>>
           verdict == PublishVerdict(hub.store, hub.lease, window, TRUE, Me, h, now)
           f == [t |-> "ack", v |-> v, res |-> IF verdict = "rate_limited" THEN "stale" ELSE verdict]
<1>6. /\ verdict \in {"lease_required", "stale", "rate_limited", "accepted"}
      /\ verdict = "stale" => ~Before(hub.store.rec, h)
      /\ verdict = "accepted" => Before(hub.store.rec, h)
  BY DEF PublishVerdict
<1>7. /\ hub'  = IF verdict = "accepted" THEN [hub EXCEPT !.store = AcceptVersion(@, h)] ELSE hub
      /\ down' = Append(down, f)
      /\ gaps' = IF verdict = "rate_limited" THEN gaps \union {v} ELSE gaps
  BY <1>5 DEF Reply
<1> HIDE DEF verdict
<1>8. /\ f \in DownType /\ f.t = "ack" /\ f.v = v
      /\ f.res = IF verdict = "rate_limited" THEN "stale" ELSE verdict
  BY <1>3, <1>6 DEF DownType, AckTypes
<1> HIDE DEF f, h
<1>9. hub.store \in StoreType /\ hub.store.rec \in VersionType
  BY <1>2 DEF HubType, StoreType
<1>10. /\ hub' \in HubType /\ hub'.lease = hub.lease /\ hub'.last = hub.last /\ hub'.conns = hub.conns
       /\ verdict = "accepted" => hub'.store.rec = h
       /\ verdict # "accepted" => hub'.store.rec = hub.store.rec
  <2>1. CASE verdict = "accepted"
    <3> DEFINE A == AcceptVersion(hub.store, h)
    <3>1. A \in StoreType /\ A.rec = h
      BY <1>4, <1>6, <1>9, <2>1, AcceptStores
    <3>2. hub' = [hub EXCEPT !.store = A]
      BY <1>7, <2>1
    <3> HIDE DEF A
    <3> QED BY <1>2, <2>1, <3>1, <3>2 DEF HubType
  <2>2. CASE verdict # "accepted"
    BY <1>2, <1>7, <2>2
  <2> QED BY <2>1, <2>2
<1>11. \A w \in Nat : StoredAt(w) => StoredAt(w)'
  <2> SUFFICES ASSUME NEW w \in Nat, AtMost(VersionAt(w), hub.store.rec)
               PROVE  AtMost(VersionAt(w), hub'.store.rec)
    BY DEF StoredAt, VersionAt
  <2> QED BY <1>4, <1>6, <1>9, <1>10, AcceptStores
<1>12. gaps \subseteq gaps' /\ gaps' \subseteq Nat
  BY <1>2, <1>3, <1>7
<1>13. AtMost(h, hub'.store.rec) \/ v \in gaps' \/ verdict = "lease_required"
  <2>1. CASE verdict = "stale"
    BY <1>4, <1>6, <1>9, <1>10, <2>1, VersionOrder
  <2>2. CASE verdict = "accepted"
    BY <1>10, <2>2 DEF AtMost
  <2>3. CASE verdict = "rate_limited"
    BY <1>7, <2>3
  <2> QED BY <1>6, <2>1, <2>2, <2>3
<1>14. dev'.grant = dev.grant /\ dev'.link = dev.link
  BY <1>1, <1>2 DEF DevUpTo
<1>15. PICK g \in DownType : g = f
  BY <1>8
<1>16. g.res # "lease_required" => StoredAt(g.v)' \/ g.v \in gaps'
  <2>1. g.res # "lease_required" => AtMost(VersionAt(g.v), hub'.store.rec) \/ g.v \in gaps'
    BY <1>6, <1>8, <1>13, <1>15 DEF h
  <2> QED BY <2>1 DEF StoredAt, VersionAt
<1>17. /\ down' \in Seq(DownType) /\ AcksTrue' /\ GrantsUnderWay' /\ GrantOutlived'
       /\ \A u : AckComes(u)' <=> AckComes(u) \/ (g.t = "ack" /\ g.v = u)
  BY <1>1, <1>7, <1>8, <1>10, <1>11, <1>12, <1>14, <1>15, <1>16, ReplyKeeps
<1>18. \A u : AckComes(u)' <=> AckComes(u) \/ (Head(dev.up).t = "publish" /\ Head(dev.up).v = u)
  BY <1>8, <1>15, <1>17 DEF v
<1> QED BY <1>1, <1>10, <1>11, <1>12, <1>17, <1>18, HubStepRest

(* handleLeaseAcquire: a grant is for a whole TTL from now.                *)
LEMMA HubLeaseKeeps == ASSUME PInv, HubStep, Head(dev.up).t \in {"lease", "force"} PROVE PInv'
<1> DEFINE ok == LeaseGranted(hub.store, hub.lease, Me, Head(dev.up).t = "force",
                              VersionAt(Head(dev.up).v), now)
           l == [holder |-> Me, until |-> LeaseUntil(now, 2)]
           f == IF ok THEN [t |-> "granted", at |-> now] ELSE [t |-> "denied"]
<1>1. /\ dev.up # <<>> /\ dev' = [dev EXCEPT !.up = Tail(@)] /\ gaps' = gaps
      /\ now' = now /\ kind' = kind /\ fence' = fence
      /\ hub' = (IF ok THEN [hub EXCEPT !.lease = l] ELSE hub) /\ down' = Append(down, f)
  BY DEF HubStep, HubLease, Reply
<1>2. /\ hub \in HubType /\ gaps \subseteq Nat /\ dev \in DevUpTo(Current) /\ now \in Nat
  BY Shape
<1>3. l \in [holder : Nat, until : Nat] /\ l.holder = Me /\ l.until = now + 2
  BY <1>2 DEF LeaseUntil, Me
<1> HIDE DEF ok, l
<1>4. f \in DownType /\ f.t # "ack" /\ (f.t = "granted" => ok /\ f.at = now)
  BY <1>2 DEF DownType
<1> HIDE DEF f
<1>5. /\ hub' \in HubType /\ hub'.store = hub.store /\ hub'.last = hub.last /\ hub'.conns = hub.conns
      /\ ok => hub'.lease = l
      /\ ~ok => hub'.lease = hub.lease
  BY <1>1, <1>2, <1>3 DEF HubType
<1>6. \A w \in Nat : StoredAt(w) => StoredAt(w)'
  BY <1>5 DEF StoredAt, VersionAt
<1>7. dev'.grant = dev.grant /\ dev'.link = dev.link
  BY <1>1, <1>2 DEF DevUpTo
<1>8. PICK g \in DownType : g = f
  BY <1>4
<1>9. /\ down' \in Seq(DownType) /\ AcksTrue' /\ GrantsUnderWay' /\ GrantOutlived'
      /\ \A u : AckComes(u)' <=> AckComes(u) \/ (g.t = "ack" /\ g.v = u)
  BY <1>1, <1>3, <1>4, <1>5, <1>6, <1>7, <1>8, ReplyKeeps
<1>10. \A u : AckComes(u)' <=> AckComes(u) \/ (Head(dev.up).t = "publish" /\ Head(dev.up).v = u)
  BY <1>4, <1>8, <1>9
<1> QED BY <1>1, <1>2, <1>5, <1>6, <1>9, <1>10, HubStepRest

LEMMA HubUrlKeeps == ASSUME PInv, HubStep, Head(dev.up).t = "url" PROVE PInv'
<1>1. /\ dev.up # <<>> /\ dev' = [dev EXCEPT !.up = Tail(@)] /\ gaps' = gaps /\ hub' = hub
      /\ down' = down /\ now' = now /\ kind' = kind /\ fence' = fence
  BY DEF HubStep
<1>2. hub \in HubType /\ gaps \subseteq Nat /\ dev \in DevUpTo(Current) /\ down \in Seq(DownType)
  BY Shape
<1>3. \A w : (StoredAt(w) <=> StoredAt(w)') /\ (AckComes(w) <=> AckComes(w)')
  BY <1>1 DEF StoredAt, VersionAt, AckComes
<1>4. dev'.grant = dev.grant /\ dev'.link = dev.link
  BY <1>1, <1>2 DEF DevUpTo
<1>5. AcksTrue'
  BY <1>1, <1>3 DEF PInv, AcksTrue
<1>6. GrantsUnderWay' /\ GrantOutlived'
  BY <1>1, <1>4 DEF PInv, GrantsUnderWay, RevokedBehind, GrantOutlived
<1> QED BY <1>1, <1>2, <1>3, <1>5, <1>6, HubStepRest

LEMMA HubStepKeeps == ASSUME PInv, HubStep PROVE PInv'
<1>1. dev.up # <<>> /\ dev.up \in Seq(UpTo(Current))
  BY Shape DEF HubStep, DevUpTo
<1>2. Head(dev.up) \in UpTo(Current)
  BY <1>1
<1>3. Head(dev.up).t \in {"publish", "lease", "force", "url"}
  BY <1>2 DEF UpTo
<1> QED BY <1>3, HubPublishKeeps, HubLeaseKeeps, HubUrlKeeps

----------------------------------------------------------------------------
LEMMA InitPInv == LaneInit => PInv
<1> SUFFICES ASSUME LaneInit PROVE PInv
  OBVIOUS
<1>1. /\ now = 0 /\ kind = <<>> /\ down = <<>> /\ gaps = {} /\ fence = NoFence
      /\ hub = [store |-> EmptyStore, lease |-> NoLease, conns |-> {}, last |-> 0]
      /\ dev.st = "offline" /\ dev.link = "none" /\ dev.grant = 0 /\ dev.up = <<>>
  BY DEF LaneInit
<1>2. Current = 0
  BY <1>1 DEF Current
<1>3. dev \in DevUpTo(0)
  <2>1. <<>> \in Seq(UpTo(0))
    OBVIOUS
  <2>2. NoDrain \in [v : 0..0, at : {"open", "lease"}] /\ None \in 0..0
    BY DEF NoDrain, None
  <2> QED BY <2>1, <2>2 DEF LaneInit, DevUpTo
<1>4. hub \in HubType
  BY <1>1 DEF HubType, EmptyStore, StoreType, VersionType, NoLease
<1>5. fence \in FenceType /\ fence.need = 0 /\ fence.pc = "idle"
  BY <1>1 DEF NoFence, FenceType, None
<1>6. LaneShape
  BY <1>1, <1>2, <1>3, <1>4, <1>5 DEF LaneShape
<1>7. SocketStands /\ WaiterHasPending
  BY <1>1, <1>5 DEF SocketStands, Online, WaiterHasPending
<1>8. LoginSomewhere /\ AcksTrue /\ GrantsUnderWay /\ GrantOutlived
  BY <1>1, <1>2 DEF LoginSomewhere, None, AcksTrue, GrantsUnderWay, GrantOutlived
<1>9. FlightPending
  BY <1>1 DEF FlightPending, Sends, AckComes
<1> QED BY <1>6, <1>7, <1>8, <1>9 DEF PInv

LEMMA StepKeepsPInv == PInv /\ [LaneNext]_laneVars => PInv'
<1> SUFFICES ASSUME PInv, [LaneNext]_laneVars PROVE PInv'
  OBVIOUS
<1>1. CASE UNCHANGED laneVars
  <2>1. /\ now' = now /\ kind' = kind /\ dev' = dev /\ down' = down /\ hub' = hub
        /\ fence' = fence /\ gaps' = gaps
    BY <1>1 DEF laneVars
  <2>2. dev \in DevUpTo(Current) /\ fence \in FenceType /\ gaps \subseteq Nat /\ fence.need <= Current
    BY Shape
  <2> QED BY <2>1, <2>2, SteadyItself, DeviceKeeps
<1>2. CASE LaneNext
  BY <1>2, CaptureKeeps, DrainOpenedKeeps, LeaseTimeoutKeeps, DialKeeps, CutKeeps, NoticeCloseKeeps,
     HandleFrameKeeps, HubStepKeeps, RivalAcquiresKeeps, HubCloseKeeps, TickKeeps, FenceKeeps,
     FenceDrainKeeps, SendUrlKeeps
  DEF LaneNext
<1> QED BY <1>1, <1>2

(* What the steps of the lane keep, through every interleaving of the      *)
(* browser, the engine, the socket, the hub, the rival and the fence.      *)
THEOREM PInvHolds == LaneSpec => []PInv
  BY InitPInv, StepKeepsPInv, PTL DEF LaneSpec

(* However many changes, connections, timeouts and refused leases there    *)
(* are, the login that is the engine's current record is at the hub or the *)
(* engine or the transport still has it in hand, but for the three ways    *)
(* out that gaps records: publish() while offline, an id cleared by the    *)
(* answer to another version, the rate limit.                              *)
THEOREM WriteStaysInHandAlways == LaneSpec => []WriteStaysInHand
<1>1. PInv => WriteStaysInHand
  <2> SUFFICES ASSUME PInv, Current # None, kind[Current] = "write",
                      ~StoredAt(Current), Current \notin gaps
               PROVE  Held(Current)
    BY DEF WriteStaysInHand
  <2>1. Current \in Nat
    BY Shape
  <2>2. Holds(dev, Current) \/ AckComes(Current)
    BY DEF PInv, LoginSomewhere
  <2>3. Sends(dev, Current) \/ AckComes(Current) => dev.pending
    BY <2>1 DEF PInv, FlightPending
  <2> QED BY <2>2, <2>3 DEF Holds, Flies, Held
<1> QED BY <1>1, PInvHolds, PTL

(* For every clock and every number of grants: while the engine trusts a   *)
(* lease it was granted (for half the TTL), the hub's lease is still the   *)
(* device's, or the revocation is on its way on the open socket, or the    *)
(* socket is gone and the close not yet seen.                              *)
THEOREM GrantBackedAlways == LaneSpec => []GrantBacked
<1>1. PInv => GrantBacked
  <2> SUFFICES ASSUME PInv, dev.grant > now PROVE GrantBacked
    BY DEF GrantBacked
  <2>1. /\ now \in Nat /\ dev.grant \in Nat /\ hub.lease.until \in Nat
        /\ DOMAIN down = 1..Len(down)
    BY Shape DEF DevUpTo, HubType
  <2>2. \/ hub.lease.holder = Me /\ dev.grant <= hub.lease.until
        \/ \E i \in DOMAIN down : down[i].t = "revoked"
        \/ dev.link = "cut"
    BY DEF PInv, GrantOutlived
  <2>3. dev.grant <= hub.lease.until => hub.lease.until > now
    BY <2>1
  <2> QED BY <2>1, <2>2, <2>3 DEF GrantBacked
<1> QED BY <1>1, PInvHolds, PTL

(* A flush of the session fence that waits has an id pending on a          *)
(* connected transport: it never waits for an answer nobody owes it.       *)
THEOREM WaiterHasPendingAlways == LaneSpec => []WaiterHasPending
<1>1. PInv => WaiterHasPending
  BY DEF PInv
<1> QED BY <1>1, PInvHolds, PTL
=============================================================================
