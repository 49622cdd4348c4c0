----------------------------- MODULE HlcClocks -----------------------------
(***************************************************************************)
(* A fleet of devices, each with one HlcClock over an untrusted wall clock *)
(* (Date.now may stand still or step back), exchanging timestamps in any   *)
(* order, with loss and duplication.  A restarted process builds a new     *)
(* HlcClock; restore() is part of the class but no production caller uses  *)
(* it, so Restart and Restore are separate steps.                          *)
(***************************************************************************)
EXTENDS Hlc, Sequences

CONSTANTS Devices,          \* device ids, naturals
          MaxWall,          \* bound: highest wall-clock value
          MaxIssued,        \* bound: timestamps issued in a behaviour
          MaxLogical,       \* bound: logical counter past which nothing merges
          MaxBoots          \* bound: process starts per device

ASSUME DevicesAssumption == Devices \subseteq Nat
ASSUME BoundsAssumption  == /\ MaxWall \in Nat /\ MaxIssued \in Nat
                            /\ MaxLogical \in Nat /\ MaxBoots \in Nat

VARIABLES wall,             \* wall[d]: what Date.now() returns on d
          clock,            \* clock[d]: lastPhysicalMs and lastLogical
          boot,             \* boot[d]: which process of d is running
          heard,            \* heard[d]: remote timestamps this process merged
          issued,           \* every timestamp issued, in issue order
          peak              \* peak[d]: highest wall clock d has shown

vars == <<wall, clock, boot, heard, issued, peak>>

(* What one process merged: the timestamp, and whether the drift bound cut *)
(* its physical part when it was merged.                                   *)
Heard == [hlc : HlcType, clamped : BOOLEAN]

(* One issued timestamp, the process that issued it, and what that process *)
(* had merged by then.                                                     *)
Issue == [hlc : HlcType, boot : Nat, after : SUBSET Heard]

TypeOK == /\ wall   \in [Devices -> Nat]
          /\ clock  \in [Devices -> ClockType]
          /\ boot   \in [Devices -> Nat]
          /\ heard  \in [Devices -> SUBSET Heard]
          /\ issued \in Seq(Issue)
          /\ peak   \in [Devices -> Nat]

Init == /\ wall   = [d \in Devices |-> 1]
        /\ clock  = [d \in Devices |-> ZeroClock]
        /\ boot   = [d \in Devices |-> 0]
        /\ heard  = [d \in Devices |-> {}]
        /\ issued = <<>>
        /\ peak   = [d \in Devices |-> 1]

----------------------------------------------------------------------------
(* HlcClock.send *)
Send(d) ==
    /\ Len(issued) < MaxIssued
    /\ LET c == ClockSend(clock[d], wall[d])
       IN  /\ clock'  = [clock EXCEPT ![d] = c]
           /\ issued' = Append(issued, [hlc   |-> Stamp(c, d),
                                        boot  |-> boot[d],
                                        after |-> heard[d]])
    /\ UNCHANGED <<wall, boot, heard, peak>>

(* HlcClock.receive, of any timestamp ever issued, own ones included: a    *)
(* hydration replays them.                                                 *)
Receive(d) ==
    /\ clock[d].logi < MaxLogical
    /\ \E i \in 1..Len(issued) :
         LET r == issued[i].hlc
             e == [hlc |-> r, clamped |-> r.phys # Clamp(r.phys, wall[d])]
         IN  /\ clock' = [clock EXCEPT ![d] = ClockReceive(clock[d], wall[d], r)]
             /\ heard' = [heard EXCEPT ![d] = @ \union {e}]
    /\ UNCHANGED <<wall, boot, issued, peak>>

(* The wall clock moves, forwards or backwards.                            *)
SetWall(d) == \E w \in 1..MaxWall :
    /\ wall' = [wall EXCEPT ![d] = w]
    /\ peak' = [peak EXCEPT ![d] = Maximum(@, w)]
    /\ UNCHANGED <<clock, boot, heard, issued>>

(* The process restarts: a new HlcClock, which remembers nothing.          *)
Restart(d) ==
    /\ boot[d] < MaxBoots
    /\ clock' = [clock EXCEPT ![d] = ZeroClock]
    /\ boot'  = [boot EXCEPT ![d] = @ + 1]
    /\ heard' = [heard EXCEPT ![d] = {}]
    /\ UNCHANGED <<wall, issued, peak>>

(* HlcClock.restore, of a timestamp this device once issued.               *)
Restore(d) ==
    /\ \E i \in 1..Len(issued) :
         /\ issued[i].hlc.dev = d
         /\ clock' = [clock EXCEPT ![d] = ClockRestore(clock[d], issued[i].hlc)]
    /\ UNCHANGED <<wall, boot, heard, issued, peak>>

Next == \E d \in Devices :
          Send(d) \/ Receive(d) \/ SetWall(d) \/ Restart(d) \/ Restore(d)

Spec == Init /\ [][Next]_vars

----------------------------------------------------------------------------
(* Every timestamp a process issues is later than all those it issued      *)
(* before, whatever the wall clock and the merges in between did: the      *)
(* promise of send() that localChange relies on to order its own records.  *)
SendsAscend ==
    \A i, j \in 1..Len(issued) :
       /\ i < j
       /\ issued[i].hlc.dev = issued[j].hlc.dev
       /\ issued[i].boot = issued[j].boot
       => Before(issued[i].hlc, issued[j].hlc)

(* A timestamp issued after a merge is later than the merged one, provided *)
(* the drift bound did not cut it: happened-before implies HLC order for   *)
(* clocks within the tolerated drift (receive(), the four cases).          *)
MergedPrecedesIssued ==
    \A i \in 1..Len(issued) : \A e \in issued[i].after :
       ~e.clamped => Before(e.hlc, issued[i].hlc)

(* However many timestamps from broken clocks are merged, and in whatever  *)
(* order, no device's clock runs ahead of its own wall clock by more than  *)
(* the drift bound: nothing is passed on from peer to peer.                *)
BoundedPull == \A d \in Devices : clock[d].phys <= peak[d] + MaxClockDrift
============================================================================
