-------------------------------- MODULE Hlc --------------------------------
(***************************************************************************)
(* The hybrid logical clock of packages/protocol/src/hlc.ts: the total     *)
(* order of timestamps, and the two operations that advance the clock of   *)
(* one device.  Device ids are strings compared lexicographically in the   *)
(* code; naturals stand for them here, only their order is used.           *)
(***************************************************************************)
EXTENDS Integers

CONSTANT MaxClockDrift      \* MAX_CLOCK_DRIFT_MS

ASSUME DriftAssumption == MaxClockDrift \in Nat

(* A timestamp, and the part of it that HlcClock keeps between two calls.  *)
HlcType   == [phys : Nat, logi : Nat, dev : Nat]
ClockType == [phys : Nat, logi : Nat]

ZeroClock == [phys |-> 0, logi |-> 0]

(* The part of a timestamp the clock can be compared with.                 *)
Reading(h) == [phys |-> h.phys, logi |-> h.logi]

Stamp(c, d) == [phys |-> c.phys, logi |-> c.logi, dev |-> d]

(* Order of two clock readings, device id left aside.                      *)
ClockBefore(a, b) == \/ a.phys < b.phys
                     \/ a.phys = b.phys /\ a.logi < b.logi

(* compareHlc(a, b) < 0                                                    *)
Before(a, b) == \/ a.phys < b.phys
                \/ a.phys = b.phys /\ a.logi < b.logi
                \/ a.phys = b.phys /\ a.logi = b.logi /\ a.dev < b.dev

AtMost(a, b) == a = b \/ Before(a, b)

Maximum(a, b) == IF a < b THEN b ELSE a
Minimum(a, b) == IF a < b THEN a ELSE b

----------------------------------------------------------------------------
(* Mutant: the logical counter is not advanced within one millisecond.     *)
ClockSendNoTick(c, wall) ==
    IF wall > c.phys THEN [phys |-> wall, logi |-> 0] ELSE c

(* HlcClock.send: the clock after issuing one timestamp.                   *)
ClockSend(c, wall) ==
    IF wall > c.phys
      THEN [phys |-> wall,   logi |-> 0]
      ELSE [phys |-> c.phys, logi |-> c.logi + 1]

(* Mutant: the remote physical part is taken as it came.                   *)
ClampNone(phys, wall) == phys

(* The remote physical part after the drift clamp.                         *)
Clamp(phys, wall) == Minimum(phys, wall + MaxClockDrift)

(* Mutant: the remote physical part is left out of the maximum.            *)
ClockReceiveDeaf(c, wall, r) ==
    LET phys == Maximum(wall, c.phys)
    IN  [phys |-> phys,
         logi |-> IF phys = c.phys THEN Maximum(c.logi, r.logi) + 1 ELSE 0]

(* HlcClock.receive: the clock after merging the remote timestamp r.       *)
ClockReceive(c, wall, r) ==
    LET rp   == Clamp(r.phys, wall)
        phys == Maximum(wall, Maximum(rp, c.phys))
        logi == IF phys = c.phys
                  THEN (IF phys = rp THEN Maximum(c.logi, r.logi) ELSE c.logi) + 1
                  ELSE IF phys = rp THEN r.logi + 1 ELSE 0
    IN  [phys |-> phys, logi |-> logi]

(* HlcClock.restore: adopt a persisted reading when it is ahead.           *)
ClockRestore(c, last) == IF ClockBefore(c, last) THEN Reading(last) ELSE c
============================================================================
